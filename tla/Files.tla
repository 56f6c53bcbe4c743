-------------------------------- MODULE Files --------------------------------
(***************************************************************************)
(* The three ways patchrun writes a file, run side by side by several      *)
(* processes over one disk: SavePatchAtomic with the sidecar after it,     *)
(* WriteTempPatch for git apply, and CopyFilePreserve.                     *)
(*                                                                         *)
(* A name leads to an inode and an inode holds chunks, as two of the three *)
(* have a temporary file open while others rename, truncate or remove the  *)
(* name.  Any call may fail and a process may die between two of them.     *)
(***************************************************************************)
EXTENDS Naturals, Sequences

CONSTANTS
    Jobs,           \* the processes, with one file to write each
    Size,           \* [Jobs -> Nat \ {0}], chunks of what a process writes
    MaxTime,        \* bound on the clock, in seconds
    MaxTroubles     \* bound on failing calls and crashes together

ASSUME FilesAssumption ==
    Size \in [Jobs -> Nat \ {0}] /\ MaxTime \in Nat \ {0} /\ MaxTroubles \in Nat

VARIABLES
    kind,       \* per process: what it does
    pc,         \* per process: the call it makes next
    path,       \* per process: the file it is to write
    fd,         \* per process: the inode it has open
    off,        \* per process: chunks of a copy written so far
    read,       \* per process: what git apply has read
    link,       \* the directory: names and their inodes
    data,       \* the inodes and what they hold
    now,        \* the clock
    trouble,    \* calls that have failed and crashes
    named,      \* history: the second in which a process named its file
    overlap     \* history: two copies to one destination ran side by side

proc == <<kind, pc, path, fd, off, read>>
disk == <<link, data>>
seen == <<named, overlap>>
vars == <<proc, disk, now, trouble, seen>>

Kinds == {"save", "saveAs", "apply", "copy", "copyLink"}
Labels == {"begin", "write", "close", "rename", "undo", "sidecar", "writeSidecar",
           "use", "useAgain", "remove", "copyChunk", "chmod", "symlink",
           "ok", "failed", "crashed"}
Ended == {"ok", "failed", "crashed"}

\* Seconds stand for the default path of a save, 0 for the path of --save.
Targets == {<<"patch", t>> : t \in 0 .. MaxTime}
Sidecars == {<<"meta", t>> : t \in 0 .. MaxTime}
Temps == {<<"temp", w>> : w \in Jobs}
Destination == <<"copy", 0>>
CopyTemp == <<"copytemp", 0>>
Names == Targets \cup Sidecars \cup Temps \cup {Destination, CopyTemp}

Inodes == Jobs \X {"file", "meta"}
NoInode == <<>>
Hole == <<>>

\* What process w means to write.
Whole(i) == [k \in 1 .. Size[i[1]] |-> <<i, k>>]
FileOf(w) == <<w, "file">>
MetaOf(w) == <<w, "meta">>

Holds(n) == IF link[n] = NoInode THEN <<>> ELSE data[link[n]]

Init ==
    /\ kind \in [Jobs -> Kinds]
    /\ pc = [w \in Jobs |-> "begin"]
    /\ path = [w \in Jobs |-> Destination]
    /\ fd = [w \in Jobs |-> NoInode]
    /\ off = [w \in Jobs |-> 0]
    /\ read = [w \in Jobs |-> <<>>]
    /\ link = [n \in Names |-> NoInode]
    /\ data = [i \in Inodes |-> <<>>]
    /\ now = 1
    /\ trouble = [faults |-> 0, crashes |-> 0]
    /\ named = [w \in Jobs |-> 0]
    /\ overlap = FALSE

-----------------------------------------------------------------------------
(* System calls.                                                           *)

Trouble(k) ==
    /\ trouble.faults + trouble.crashes < MaxTroubles
    /\ trouble' = [trouble EXCEPT ![k] = @ + 1]

IOOK == UNCHANGED trouble
IOErr == Trouble("faults")

Goto(w, l) == pc' = [pc EXCEPT ![w] = l]

\* O_CREATE|O_EXCL of a name nobody has: a new inode, empty.
Create(w, n, i) ==
    /\ link' = [link EXCEPT ![n] = i]
    /\ data' = [data EXCEPT ![i] = <<>>]
    /\ fd' = [fd EXCEPT ![w] = i]

\* O_CREATE|O_TRUNC: the inode the name leads to, emptied, or a new one.
OpenTruncated(w, n, i) ==
    LET j == IF link[n] = NoInode THEN i ELSE link[n]
    IN  Create(w, n, j)

\* A write of the chunks from..upto of inode i's content, at their own offset.
Overlay(old, i, from, upto) ==
    [k \in 1 .. (IF Len(old) > upto THEN Len(old) ELSE upto) |->
        IF k \in from .. upto THEN Whole(i)[k]
        ELSE IF k <= Len(old) THEN old[k] ELSE Hole]

WriteChunks(w, i, from, upto) ==
    data' = [data EXCEPT ![fd[w]] = Overlay(@, i, from, upto)]

RenameTo(n, m) == link' = [link EXCEPT ![m] = link[n], ![n] = NoInode]
Unlink(n) == link' = [link EXCEPT ![n] = NoInode]

-----------------------------------------------------------------------------
(* SavePatchAtomic and WriteTempPatch.                                     *)

\* slip: paths to the minute
DefaultPathByMinute(t) == <<"patch", 1>>

\* defaultSavePath: named by the second.
DefaultPath(t) == <<"patch", t>>

\* slip: one temporary file for everybody
FixedTemp(w) == <<"temp", CHOOSE v \in Jobs : TRUE>>

\* os.CreateTemp: a name of its own.
Temp(w) == <<"temp", w>>

CreateTemp(w) ==
    /\ pc[w] = "begin" /\ kind[w] \in {"save", "saveAs", "apply"}
    /\ path' = [path EXCEPT ![w] =
            IF kind[w] = "save" THEN DefaultPath(now) ELSE <<"patch", 0>>]
    /\ \/ IOOK /\ Goto(w, "write") /\ Create(w, Temp(w), FileOf(w))
       \/ IOErr /\ Goto(w, "failed") /\ UNCHANGED <<fd, disk>>
    /\ named' = [named EXCEPT ![w] = now]
    /\ UNCHANGED <<kind, off, read, now, overlap>>

\* slip: the error of the write is not looked at
WriteUnchecked(w) ==
    /\ pc[w] = "write" /\ Goto(w, "close")
    /\ \/ IOOK /\ WriteChunks(w, FileOf(w), 1, Size[w])
       \/ IOErr /\ \E n \in 0 .. Size[w] : WriteChunks(w, FileOf(w), 1, n)
    /\ UNCHANGED <<kind, path, fd, off, read, link, now, seen>>

\* One call; one that fails has written a part.  WriteTempPatch then leaves the
\* file where it is.
Write(w) ==
    /\ pc[w] = "write"
    /\ \/ IOOK /\ Goto(w, "close") /\ WriteChunks(w, FileOf(w), 1, Size[w])
       \/ IOErr /\ Goto(w, IF kind[w] = "apply" THEN "failed" ELSE "undo")
          /\ \E n \in 0 .. Size[w] - 1 : WriteChunks(w, FileOf(w), 1, n)
    /\ UNCHANGED <<kind, path, fd, off, read, link, now, seen>>

\* slip: returns without removing the temporary file
CloseNoUndo(w) ==
    /\ pc[w] = "close"
    /\ \/ IOOK /\ Goto(w, IF kind[w] = "apply" THEN "use" ELSE "rename")
       \/ IOErr /\ Goto(w, "failed")
    /\ UNCHANGED <<kind, path, fd, off, read, disk, now, seen>>

Close(w) ==
    /\ pc[w] = "close"
    /\ \/ IOOK /\ Goto(w, IF kind[w] = "apply" THEN "use" ELSE "rename")
       \/ IOErr /\ Goto(w, IF kind[w] = "apply" THEN "failed" ELSE "undo")
    /\ UNCHANGED <<kind, path, fd, off, read, disk, now, seen>>

Rename(w) ==
    /\ pc[w] = "rename" /\ kind[w] \in {"save", "saveAs"}
    /\ \/ IOOK /\ Goto(w, "sidecar") /\ RenameTo(Temp(w), path[w])
       \/ IOErr /\ Goto(w, "undo") /\ UNCHANGED link
    /\ UNCHANGED <<kind, path, fd, off, read, data, now, seen>>

\* The error path; that the removal may fail too is ignored.
Undo(w) ==
    /\ pc[w] = "undo" /\ Goto(w, "failed")
    /\ \/ IOOK /\ Unlink(IF kind[w] = "copy" THEN CopyTemp ELSE Temp(w))
       \/ IOErr /\ UNCHANGED link
    /\ UNCHANGED <<kind, path, fd, off, read, data, now, seen>>

\* git apply --check and git apply read the temporary file, one after another.
Use(w) ==
    /\ pc[w] \in {"use", "useAgain"} /\ IOOK
    /\ read' = [read EXCEPT ![w] = Append(@, Holds(Temp(w)))]
    /\ \/ pc[w] = "use" /\ Goto(w, "useAgain")
       \/ Goto(w, "remove")
    /\ UNCHANGED <<kind, path, fd, off, disk, now, seen>>

RemoveTemp(w) ==
    /\ pc[w] = "remove" /\ Goto(w, "ok")
    /\ \/ IOOK /\ Unlink(Temp(w))
       \/ IOErr /\ UNCHANGED link
    /\ UNCHANGED <<kind, path, fd, off, read, data, now, seen>>

-----------------------------------------------------------------------------
(* WriteSidecar: not atomic, and its failure is not reported.              *)

\* slip: one sidecar for all patches of a directory
OneSidecar(p) == <<"meta", 0>>

SidecarOf(p) == <<"meta", p[2]>>

OpenSidecar(w) ==
    /\ pc[w] = "sidecar"
    /\ \/ IOOK /\ Goto(w, "writeSidecar") /\ OpenTruncated(w, SidecarOf(path[w]), MetaOf(w))
       \/ IOErr /\ Goto(w, "ok") /\ UNCHANGED <<fd, disk>>
    /\ UNCHANGED <<kind, path, off, read, now, seen>>

WriteSidecar(w) ==
    /\ pc[w] = "writeSidecar" /\ Goto(w, "ok")
    /\ \/ IOOK /\ WriteChunks(w, MetaOf(w), 1, Size[w])
       \/ IOErr /\ \E n \in 0 .. Size[w] - 1 : WriteChunks(w, MetaOf(w), 1, n)
    /\ UNCHANGED <<kind, path, fd, off, read, link, now, seen>>

-----------------------------------------------------------------------------
(* CopyFilePreserve: the name of the temporary file follows from the       *)
(* destination's, and it is opened whether or not it is there.             *)

Copying(w) == kind[w] = "copy" /\ pc[w] \in {"copyChunk", "chmod", "rename", "undo"}

\* slip: straight to the destination
CopyInPlace == Destination

CopyTo == CopyTemp

OpenCopy(w) ==
    /\ pc[w] = "begin" /\ kind[w] = "copy"
    /\ \/ IOOK /\ Goto(w, "copyChunk") /\ OpenTruncated(w, CopyTo, FileOf(w))
          /\ overlap' = (overlap \/ \E v \in Jobs \ {w} : Copying(v))
       \/ IOErr /\ Goto(w, "failed") /\ UNCHANGED <<fd, disk, overlap>>
    /\ UNCHANGED <<kind, path, off, read, now, named>>

CopyChunk(w) ==
    /\ pc[w] = "copyChunk"
    /\ \/ /\ off[w] < Size[w] /\ IOOK /\ UNCHANGED pc
          /\ WriteChunks(w, FileOf(w), off[w] + 1, off[w] + 1)
          /\ off' = [off EXCEPT ![w] = @ + 1]
       \/ off[w] = Size[w] /\ IOOK /\ Goto(w, "chmod") /\ UNCHANGED <<data, off>>
       \/ IOErr /\ Goto(w, "undo") /\ UNCHANGED <<data, off>>
    /\ UNCHANGED <<kind, path, fd, read, link, now, seen>>

\* chmod and rename go by the name, which another copy may have taken away.
Chmod(w) ==
    /\ pc[w] = "chmod"
    /\ \/ link[CopyTo] # NoInode /\ IOOK /\ Goto(w, "rename")
       \/ link[CopyTo] = NoInode /\ IOOK /\ Goto(w, "undo")
       \/ IOErr /\ Goto(w, "undo")
    /\ UNCHANGED <<kind, path, fd, off, read, disk, now, seen>>

RenameCopy(w) ==
    /\ pc[w] = "rename" /\ kind[w] = "copy"
    /\ \/ link[CopyTo] # NoInode /\ IOOK /\ Goto(w, "ok") /\ RenameTo(CopyTo, Destination)
       \/ link[CopyTo] = NoInode /\ IOOK /\ Goto(w, "undo") /\ UNCHANGED link
       \/ IOErr /\ Goto(w, "undo") /\ UNCHANGED link
    /\ UNCHANGED <<kind, path, fd, off, read, data, now, seen>>

\* A symbolic link: what is there is removed, and the link made if nobody was
\* faster.
RemoveForLink(w) ==
    /\ pc[w] = "begin" /\ kind[w] = "copyLink" /\ Goto(w, "symlink")
    /\ \/ IOOK /\ Unlink(Destination)
       \/ IOErr /\ UNCHANGED link
    /\ UNCHANGED <<kind, path, fd, off, read, data, now, seen>>

Symlink(w) ==
    /\ pc[w] = "symlink"
    /\ \/ link[Destination] = NoInode /\ IOOK /\ Goto(w, "ok")
          /\ link' = [link EXCEPT ![Destination] = FileOf(w)]
          /\ data' = [data EXCEPT ![FileOf(w)] = Whole(FileOf(w))]
       \/ link[Destination] # NoInode /\ IOOK /\ Goto(w, "failed") /\ UNCHANGED disk
       \/ IOErr /\ Goto(w, "failed") /\ UNCHANGED disk
    /\ UNCHANGED <<kind, path, fd, off, read, now, seen>>

-----------------------------------------------------------------------------

Step(w) ==
    \/ CreateTemp(w) \/ Write(w) \/ Close(w) \/ Rename(w) \/ Undo(w) \/ Use(w)
    \/ RemoveTemp(w) \/ OpenSidecar(w) \/ WriteSidecar(w) \/ OpenCopy(w)
    \/ CopyChunk(w) \/ Chmod(w) \/ RenameCopy(w) \/ RemoveForLink(w) \/ Symlink(w)

Crash(w) ==
    /\ pc[w] \notin Ended /\ Trouble("crashes") /\ Goto(w, "crashed")
    /\ UNCHANGED <<kind, path, fd, off, read, disk, now, seen>>

Tick ==
    /\ now < MaxTime /\ now' = now + 1
    /\ UNCHANGED <<proc, disk, trouble, seen>>

AllEnded == (\A w \in Jobs : pc[w] \in Ended) /\ UNCHANGED vars

Next == (\E w \in Jobs : Step(w) \/ Crash(w)) \/ Tick \/ AllEnded

Spec == Init /\ [][Next]_vars
=============================================================================
