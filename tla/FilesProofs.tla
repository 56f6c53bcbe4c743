---------------------------- MODULE FilesProofs ----------------------------
(***************************************************************************)
(* Theorems: whatever the number of processes, the length of what they     *)
(* write, the order of their calls, the calls that fail and the processes  *)
(* that die, the saved patches are a PatchStore, git apply reads its own   *)
(* run's patch, saves leave no temporary file and stay, sidecars match     *)
(* their patches and copies are whole.                                     *)
(***************************************************************************)
EXTENDS FilesProps, TLAPS

Saver(w) == kind[w] \in {"save", "saveAs"}
Writer(w) == kind[w] \in {"save", "saveAs", "apply"}
Applying == {"use", "useAgain", "remove"}
Saved == {"sidecar", "writeSidecar", "ok", "crashed"}

DiskTypes ==
    /\ link \in [Names -> Inodes \cup {NoInode}]
    /\ data = [i \in Inodes |-> data[i]]

Types ==
    /\ kind \in [Jobs -> Kinds] /\ pc \in [Jobs -> Labels] /\ path \in [Jobs -> Names]
    /\ fd \in [Jobs -> Inodes \cup {NoInode}] /\ now \in 1 .. MaxTime

\* A path that has a patch has the file of a process that has renamed it, whole.
TargetInv ==
    \A p \in Targets : link[p] # NoInode =>
        \E v \in Jobs : /\ Saver(v) /\ pc[v] \in Saved
                        /\ link[p] = FileOf(v) /\ data[FileOf(v)] = Whole(FileOf(v))

\* No other name leads to a file of somebody else.
LinkInv ==
    /\ \A w \in Jobs : link[Temp(w)] \in {NoInode, FileOf(w)}
    /\ \A m \in Sidecars : link[m] = NoInode \/ \E v \in Jobs : link[m] = MetaOf(v)
    /\ link[CopyTemp] = NoInode \/ \E v \in Jobs : kind[v] = "copy" /\ link[CopyTemp] = FileOf(v)

\* What a process has got so far, and what it may write to.
JobInv(w) ==
    /\ pc[w] \in {"write", "close"} => kind[w] \in {"save", "saveAs", "apply"}
    /\ pc[w] \in {"sidecar", "writeSidecar"} => Saver(w)
    /\ pc[w] \in {"copyChunk", "chmod"} => kind[w] = "copy"
    /\ pc[w] \in Applying => kind[w] = "apply"
    /\ pc[w] \in {"rename", "undo"} => kind[w] \in {"save", "saveAs", "copy"}
    /\ pc[w] = "symlink" => kind[w] = "copyLink"
    /\ (Saver(w) /\ pc[w] \notin {"begin", "crashed"}) => path[w] \in Targets
    /\ pc[w] = "write" => fd[w] = FileOf(w)
    /\ pc[w] = "write" => data[FileOf(w)] = <<>>
    /\ (Writer(w) /\ pc[w] \in {"write", "close", "rename"} \cup Applying)
            => link[Temp(w)] = FileOf(w)
    /\ (Writer(w) /\ pc[w] \in {"close", "rename"} \cup Applying)
            => data[FileOf(w)] = Whole(FileOf(w))
    /\ pc[w] = "writeSidecar" => \E v \in Jobs : fd[w] = MetaOf(v)
    /\ pc[w] = "copyChunk" => \E v \in Jobs : kind[v] = "copy" /\ fd[w] = FileOf(v)

FilesInv == Types /\ DiskTypes /\ TargetInv /\ LinkInv /\ \A w \in Jobs : JobInv(w)

-----------------------------------------------------------------------------
(* Names and inodes that cannot be confused.                               *)

LEMMA NamesApart ==
    /\ Destination \in Names /\ CopyTemp \in Names
    /\ \A p \in Targets : p \in Names /\ p # CopyTemp /\ p # Destination
    /\ \A m \in Sidecars : m \in Names /\ m \notin Targets /\ m # CopyTemp /\ m # Destination
    /\ \A w \in Jobs : /\ Temp(w) \in Names /\ Temp(w) \notin Targets
                       /\ Temp(w) \notin Sidecars /\ Temp(w) # CopyTemp
                       /\ Temp(w) # Destination
    /\ CopyTemp # Destination
    /\ \A v, w \in Jobs : v # w => Temp(v) # Temp(w)
BY DEF Names, Destination, CopyTemp, Targets, Sidecars, Temps, Temp

LEMMA InodesApart ==
    /\ \A w \in Jobs : FileOf(w) \in Inodes /\ MetaOf(w) \in Inodes
    /\ \A v, w \in Jobs : FileOf(v) # MetaOf(w)
    /\ \A v, w \in Jobs : v # w => FileOf(v) # FileOf(w)
    /\ NoInode \notin Inodes
BY DEF Inodes, FileOf, MetaOf, NoInode

LEMMA SidecarName == \A p \in Targets : SidecarOf(p) \in Sidecars
BY DEF Targets, Sidecars, SidecarOf

LEMMA TargetName ==
    ASSUME now \in 1 .. MaxTime
    PROVE  DefaultPath(now) \in Targets /\ <<"patch", 0>> \in Targets
BY FilesAssumption DEF Targets, DefaultPath

\* One write of all chunks to an empty file makes it whole.
LEMMA OverlayEmpty ==
    ASSUME NEW w \in Jobs
    PROVE  Overlay(<<>>, FileOf(w), 1, Size[w]) = Whole(FileOf(w))
<1>1. Size[w] \in Nat /\ Size[w] > 0
  BY FilesAssumption
<1>2. FileOf(w)[1] = w
  BY DEF FileOf
<1> QED
  BY <1>1, <1>2 DEF Overlay, Whole
-----------------------------------------------------------------------------
(* A step of one process, as the others and the readers see it.            *)

OthersStay(w) ==
    /\ kind' = kind
    /\ \A v \in Jobs \ {w} : pc'[v] = pc[v] /\ path'[v] = path[v] /\ fd'[v] = fd[v]

Own(w) ==
    \A v \in Jobs \ {w} :
        link'[Temp(v)] = link[Temp(v)] /\ (Writer(v) => data'[FileOf(v)] = data[FileOf(v)])

Past(w) ==
    (Saver(w) /\ pc[w] \in Saved) => pc'[w] \in Saved /\ data'[FileOf(w)] = data[FileOf(w)]

TargetsStay == \A p \in Targets : link'[p] = link[p]

SameStore == \A p \in Targets : Holds(p)' = Holds(p)

LEMMA OthersKeep ==
    ASSUME FilesInv, NEW w \in Jobs, OthersStay(w), Own(w),
           Types', DiskTypes', LinkInv', TargetInv', JobInv(w)'
    PROVE  FilesInv'
<1>1. ASSUME NEW v \in Jobs, v # w PROVE JobInv(v)'
  <2>1. JobInv(v) /\ kind' = kind /\ pc'[v] = pc[v] /\ path'[v] = path[v] /\ fd'[v] = fd[v]
    BY <1>1 DEF FilesInv, OthersStay
  <2>2. link'[Temp(v)] = link[Temp(v)] /\ (Writer(v) => data'[FileOf(v)] = data[FileOf(v)])
    BY <1>1 DEF Own
  <2> QED
    BY <2>1, <2>2 DEF JobInv, Saver, Writer, Applying
<1> QED
  BY <1>1 DEF FilesInv

LEMMA QuietStep ==
    ASSUME FilesInv, NEW w \in Jobs, OthersStay(w), Own(w), Past(w), TargetsStay,
           Types', DiskTypes', LinkInv', JobInv(w)'
    PROVE  FilesInv' /\ SameStore
<1>1. ASSUME NEW p \in Targets, link[p] # NoInode
      PROVE  \E v \in Jobs : /\ Saver(v)' /\ pc'[v] \in Saved
                             /\ link'[p] = FileOf(v) /\ link'[p] = link[p]
                             /\ data'[FileOf(v)] = Whole(FileOf(v))
                             /\ data[FileOf(v)] = Whole(FileOf(v))
  <2>1. PICK v \in Jobs : /\ Saver(v) /\ pc[v] \in Saved
                          /\ link[p] = FileOf(v) /\ data[FileOf(v)] = Whole(FileOf(v))
    BY <1>1 DEF FilesInv, TargetInv
  <2>2. pc'[v] \in Saved /\ data'[FileOf(v)] = data[FileOf(v)]
    BY <2>1 DEF OthersStay, Own, Past, Saver, Writer
  <2> QED
    BY <2>1, <2>2, <1>1 DEF OthersStay, TargetsStay, Saver
<1>2. TargetInv'
  BY <1>1 DEF TargetInv, TargetsStay
<1>3. SameStore
  BY <1>1 DEF SameStore, Holds, TargetsStay
<1> QED
  BY <1>2, <1>3, OthersKeep

\* Steps that touch no file.
LEMMA IdleKeeps ==
    ASSUME FilesInv, NEW w \in Jobs, Close(w) \/ Use(w) \/ Chmod(w) \/ Crash(w)
    PROVE  FilesInv' /\ SameStore
<1>1. UNCHANGED disk /\ UNCHANGED <<kind, path, fd, now>>
  BY DEF Close, Use, Chmod, Crash
<1>2. PICK l \in Labels : Goto(w, l)
  BY DEF Close, Use, Chmod, Crash, Labels
<1>3. pc'[w] = l
  BY <1>2 DEF Goto, FilesInv, Types
<1>4. OthersStay(w) /\ Types'
  BY <1>1, <1>2 DEF OthersStay, Goto, FilesInv, Types
<1>5. Own(w) /\ TargetsStay /\ LinkInv' /\ DiskTypes'
  BY <1>1 DEF Own, TargetsStay, LinkInv, DiskTypes, disk, FilesInv
<1>6. JobInv(w)
  BY DEF FilesInv
<1>7. Past(w)
  BY <1>1, <1>3, <1>2, <1>4, <1>6
  DEF Past, Saved, Saver, Writer, JobInv, disk, Close, Use, Chmod, Crash, Goto, Ended, FilesInv, Types
<1>8. JobInv(w)'
  <2>1. CASE Close(w)
    BY <2>1, <1>1, <1>4, <1>6 DEF JobInv, Saver, Writer, Applying, Close, Goto, disk, FilesInv, Types
  <2>2. CASE Use(w) \/ Chmod(w)
    BY <2>2, <1>1, <1>4, <1>6 DEF JobInv, Saver, Writer, Applying, Use, Chmod, Goto, disk, FilesInv, Types
  <2>3. CASE Crash(w)
    BY <2>3, <1>1, <1>4, <1>6 DEF JobInv, Saver, Writer, Applying, Crash, Goto, disk, FilesInv, Types
  <2> QED
    BY <2>1, <2>2, <2>3
<1> QED
  BY <1>4, <1>5, <1>7, <1>8, QuietStep
\* Unlinking a name that is no target.
LEMMA UnlinkKeeps ==
    ASSUME FilesInv, NEW n \in Names, n \notin Targets, Unlink(n)
    PROVE  /\ TargetsStay /\ link' \in [Names -> Inodes \cup {NoInode}]
           /\ \A m \in Names : m # n => link'[m] = link[m]
           /\ link'[n] = NoInode
BY NamesApart DEF FilesInv, DiskTypes, Unlink, TargetsStay

LEMMA LinkInvShrinks ==
    ASSUME FilesInv, kind' = kind, \A m \in Names : link'[m] \in {link[m], NoInode}
    PROVE  LinkInv'
<1>1. \A w \in Jobs : link'[Temp(w)] \in {NoInode, FileOf(w)}
  BY NamesApart DEF FilesInv, LinkInv
<1>2. \A m \in Sidecars : link'[m] = NoInode \/ \E v \in Jobs : link'[m] = MetaOf(v)
  BY NamesApart DEF FilesInv, LinkInv
<1>3. link'[CopyTemp] = NoInode \/ \E v \in Jobs : kind[v] = "copy" /\ link'[CopyTemp] = FileOf(v)
  BY NamesApart DEF FilesInv, LinkInv
<1> QED
  BY <1>1, <1>2, <1>3 DEF LinkInv

\* The error path, and the end of an apply.
LEMMA RemovalKeeps ==
    ASSUME FilesInv, NEW w \in Jobs, Undo(w) \/ RemoveTemp(w) \/ RemoveForLink(w)
    PROVE  FilesInv' /\ SameStore
<1>1. UNCHANGED <<kind, path, fd, data, now>>
  BY DEF Undo, RemoveTemp, RemoveForLink
<1>2. pc[w] \in {"undo", "remove", "begin"} /\ pc' = [pc EXCEPT ![w] = pc'[w]]
      /\ pc'[w] \in {"failed", "ok", "symlink"}
      /\ (pc'[w] = "symlink" => kind[w] = "copyLink")
  BY DEF Undo, RemoveTemp, RemoveForLink, Goto, FilesInv, Types
<1>3. OthersStay(w) /\ Types'
  BY <1>1, <1>2 DEF OthersStay, FilesInv, Types, Labels
<1>4. UNCHANGED link \/ \E n \in {Temp(w), CopyTemp, Destination} : Unlink(n)
  BY DEF Undo, RemoveTemp, RemoveForLink
<1>5. TargetsStay /\ link' \in [Names -> Inodes \cup {NoInode}]
      /\ (\A m \in Names : link'[m] \in {link[m], NoInode})
      /\ \A v \in Jobs \ {w} : link'[Temp(v)] = link[Temp(v)]
  <2>1. CASE UNCHANGED link
    BY <2>1 DEF TargetsStay, FilesInv, DiskTypes
  <2>2. ASSUME NEW n \in {Temp(w), CopyTemp, Destination}, Unlink(n)
        PROVE  TargetsStay /\ link' \in [Names -> Inodes \cup {NoInode}]
               /\ (\A m \in Names : link'[m] \in {link[m], NoInode})
               /\ \A v \in Jobs \ {w} : link'[Temp(v)] = link[Temp(v)]
    <3>1. n \in Names /\ n \notin Targets
      BY NamesApart
    <3>2. TargetsStay /\ link' \in [Names -> Inodes \cup {NoInode}]
          /\ (\A m \in Names : m # n => link'[m] = link[m]) /\ link'[n] = NoInode
      BY <2>2, <3>1, UnlinkKeeps
    <3>3. \A v \in Jobs \ {w} : Temp(v) # n /\ Temp(v) \in Names
      BY NamesApart
    <3> QED
      BY <3>2, <3>3
  <2> QED
    BY <1>4, <2>1, <2>2
<1>6. LinkInv' /\ DiskTypes' /\ Own(w)
  <2>1. LinkInv'
    BY <1>1, <1>5, LinkInvShrinks
  <2>2. DiskTypes' /\ Own(w)
    BY <1>1, <1>5 DEF DiskTypes, Own, FilesInv
  <2> QED
    BY <2>1, <2>2
<1>7. JobInv(w) /\ (Saver(w) => pc[w] \in {"undo", "begin"})
  BY <1>2 DEF FilesInv, JobInv, Saver, Writer, Applying
<1>8. Past(w)
  BY <1>2 DEF Past, Saved
<1>9. JobInv(w)'
  <2>1. Saver(w) => pc[w] = "undo"
    BY <1>7, <1>2 DEF Undo, RemoveTemp, RemoveForLink, Saver
  <2> QED
    BY <1>1, <1>2, <1>7, <2>1 DEF JobInv, Saver, Writer, Applying
<1> QED
  BY <1>3, <1>5, <1>6, <1>8, <1>9, QuietStep
-----------------------------------------------------------------------------
(* Steps that make, open or write a file.                                  *)

LEMMA DataKeeps ==
    ASSUME FilesInv, NEW j \in Inodes, NEW x, data' = [data EXCEPT ![j] = x]
    PROVE  /\ data' = [i \in Inodes |-> data'[i]] /\ data'[j] = x
           /\ \A i \in Inodes : i # j => data'[i] = data[i]
BY DEF FilesInv, DiskTypes

LEMMA CreateKeeps ==
    ASSUME FilesInv, NEW w \in Jobs, NEW n \in Names, NEW j \in Inodes, Create(w, n, j)
    PROVE  /\ DiskTypes' /\ link'[n] = j /\ fd'[w] = j /\ data'[j] = <<>>
           /\ \A m \in Names : m # n => link'[m] = link[m]
           /\ \A i \in Inodes : i # j => data'[i] = data[i]
           /\ \A v \in Jobs \ {w} : fd'[v] = fd[v]
           /\ fd' \in [Jobs -> Inodes \cup {NoInode}]
<1>1. data' = [i \in Inodes |-> data'[i]] /\ data'[j] = <<>>
      /\ \A i \in Inodes : i # j => data'[i] = data[i]
  BY DataKeeps DEF Create
<1>2. link' \in [Names -> Inodes \cup {NoInode}] /\ link'[n] = j
      /\ \A m \in Names : m # n => link'[m] = link[m]
  BY DEF Create, FilesInv, DiskTypes
<1>3. fd'[w] = j /\ (\A v \in Jobs \ {w} : fd'[v] = fd[v])
      /\ fd' \in [Jobs -> Inodes \cup {NoInode}]
  BY DEF Create, FilesInv, Types
<1> QED
  BY <1>1, <1>2, <1>3 DEF DiskTypes

LEMMA CreateTempKeeps ==
    ASSUME FilesInv, NEW w \in Jobs, CreateTemp(w)
    PROVE  FilesInv' /\ SameStore
<1>1. pc[w] = "begin" /\ kind[w] \in {"save", "saveAs", "apply"} /\ UNCHANGED <<kind, now>>
  BY DEF CreateTemp
<1>2. path' \in [Jobs -> Names] /\ path'[w] \in Targets
      /\ \A v \in Jobs \ {w} : path'[v] = path[v]
  BY TargetName, NamesApart DEF CreateTemp, FilesInv, Types
<1>3. Past(w)
  BY <1>1 DEF Past, Saved
<1>4. CASE Goto(w, "write") /\ Create(w, Temp(w), FileOf(w))
  <2>1. Temp(w) \in Names /\ FileOf(w) \in Inodes
    BY NamesApart, InodesApart
  <2>2. /\ DiskTypes' /\ link'[Temp(w)] = FileOf(w) /\ fd'[w] = FileOf(w)
        /\ data'[FileOf(w)] = <<>>
        /\ \A m \in Names : m # Temp(w) => link'[m] = link[m]
        /\ \A i \in Inodes : i # FileOf(w) => data'[i] = data[i]
        /\ \A v \in Jobs \ {w} : fd'[v] = fd[v]
        /\ fd' \in [Jobs -> Inodes \cup {NoInode}]
    BY <1>4, <2>1, CreateKeeps
  <2>3. pc' \in [Jobs -> Labels] /\ pc'[w] = "write" /\ \A v \in Jobs \ {w} : pc'[v] = pc[v]
    BY <1>4 DEF Goto, Labels, FilesInv, Types
  <2>4. OthersStay(w) /\ Types'
    BY <1>1, <1>2, <2>2, <2>3 DEF OthersStay, FilesInv, Types
  <2>5. Own(w) /\ TargetsStay
    BY <2>2, NamesApart, InodesApart DEF Own, TargetsStay
  <2>6. LinkInv'
    BY <1>1, <2>2, NamesApart DEF FilesInv, LinkInv
  <2>7. JobInv(w)'
    BY <1>1, <1>2, <2>2, <2>3 DEF JobInv, Saver, Writer, Applying
  <2> QED
    BY <1>3, <2>2, <2>4, <2>5, <2>6, <2>7, QuietStep
<1>5. CASE Goto(w, "failed") /\ UNCHANGED <<fd, disk>>
  <2>1. pc' \in [Jobs -> Labels] /\ pc'[w] = "failed" /\ \A v \in Jobs \ {w} : pc'[v] = pc[v]
    BY <1>5 DEF Goto, Labels, FilesInv, Types
  <2>2. OthersStay(w) /\ Types' /\ Own(w) /\ TargetsStay /\ LinkInv' /\ DiskTypes'
    BY <1>1, <1>2, <1>5, <2>1
    DEF OthersStay, Own, TargetsStay, LinkInv, DiskTypes, disk, FilesInv, Types
  <2>3. JobInv(w)'
    BY <1>1, <1>2, <1>5, <2>1 DEF JobInv, Saver, Writer, Applying
  <2> QED
    BY <1>3, <2>2, <2>3, QuietStep
<1> QED
  BY <1>4, <1>5 DEF CreateTemp
\* A write goes to the inode that is open: a process' own, that of a sidecar or that
\* of a copy, so never to a patch that is saved.
LEMMA WriteKeeps ==
    ASSUME FilesInv, NEW w \in Jobs, Write(w)
    PROVE  FilesInv' /\ SameStore
<1>1. JobInv(w) /\ pc[w] = "write" /\ fd[w] = FileOf(w)
  BY DEF FilesInv, JobInv, Write
<1>2. UNCHANGED <<kind, path, fd, link, now>>
  BY DEF Write
<1>3. PICK n \in Nat : data' = [data EXCEPT ![fd[w]] = Overlay(@, FileOf(w), 1, n)]
                       /\ (pc'[w] = "close" => n = Size[w])
  <2>1. Size[w] \in Nat
    BY FilesAssumption
  <2> QED
    BY <2>1 DEF Write, WriteChunks, Goto, FilesInv, Types
<1>4. FileOf(w) \in Inodes
  BY InodesApart
<1>5. DiskTypes' /\ data'[FileOf(w)] = Overlay(data[FileOf(w)], FileOf(w), 1, n)
      /\ \A i \in Inodes : i # FileOf(w) => data'[i] = data[i]
  BY <1>1, <1>2, <1>3, <1>4, DataKeeps DEF DiskTypes, FilesInv
<1>6. pc' \in [Jobs -> Labels] /\ (\A v \in Jobs \ {w} : pc'[v] = pc[v])
      /\ pc'[w] \in {"close", "failed", "undo"} /\ (pc'[w] = "undo" => kind[w] # "apply")
  BY DEF Write, Goto, Labels, FilesInv, Types
<1>7. OthersStay(w) /\ Types' /\ Own(w) /\ TargetsStay /\ LinkInv'
  BY <1>2, <1>5, <1>6, InodesApart DEF OthersStay, Own, TargetsStay, LinkInv, FilesInv, Types
<1>8. Past(w)
  BY <1>1 DEF Past, Saved
<1>9. JobInv(w)'
  <2>1. pc'[w] = "close" => data'[FileOf(w)] = Whole(FileOf(w))
    BY <1>1, <1>3, <1>5, OverlayEmpty DEF JobInv
  <2> QED
    BY <1>1, <1>2, <1>6, <2>1 DEF JobInv, Saver, Writer, Applying
<1> QED
  BY <1>5, <1>7, <1>8, <1>9, QuietStep

LEMMA WriteSidecarKeeps ==
    ASSUME FilesInv, NEW w \in Jobs, WriteSidecar(w)
    PROVE  FilesInv' /\ SameStore
<1>1. JobInv(w) /\ pc[w] = "writeSidecar" /\ UNCHANGED <<kind, path, fd, link, now>>
  BY DEF FilesInv, WriteSidecar
<1>2. PICK u \in Jobs : fd[w] = MetaOf(u)
  BY <1>1 DEF JobInv
<1>3. MetaOf(u) \in Inodes /\ \A v \in Jobs : FileOf(v) \in Inodes /\ FileOf(v) # MetaOf(u)
  BY InodesApart
<1>4. PICK x : data' = [data EXCEPT ![MetaOf(u)] = x]
  BY <1>2 DEF WriteSidecar, WriteChunks
<1>5. DiskTypes' /\ \A v \in Jobs : data'[FileOf(v)] = data[FileOf(v)]
  BY <1>1, <1>3, <1>4, DataKeeps DEF DiskTypes, FilesInv
<1>6. pc' \in [Jobs -> Labels] /\ pc'[w] = "ok" /\ (\A v \in Jobs \ {w} : pc'[v] = pc[v])
  BY DEF WriteSidecar, Goto, Labels, FilesInv, Types
<1>7. OthersStay(w) /\ Types' /\ Own(w) /\ Past(w) /\ TargetsStay /\ LinkInv'
  BY <1>1, <1>5, <1>6
  DEF OthersStay, Own, Past, Saved, TargetsStay, LinkInv, FilesInv, Types
<1>8. JobInv(w)'
  BY <1>1, <1>6 DEF JobInv, Saver, Writer, Applying
<1> QED
  BY <1>5, <1>7, <1>8, QuietStep

LEMMA CopyChunkKeeps ==
    ASSUME FilesInv, NEW w \in Jobs, CopyChunk(w)
    PROVE  FilesInv' /\ SameStore
<1>1. JobInv(w) /\ pc[w] = "copyChunk" /\ UNCHANGED <<kind, path, fd, link, now>>
  BY DEF FilesInv, CopyChunk
<1>2. PICK u \in Jobs : kind[u] = "copy" /\ fd[w] = FileOf(u)
  BY <1>1 DEF JobInv
<1>3. FileOf(u) \in Inodes /\ (~Writer(u)) /\ kind[w] = "copy"
      /\ \A v \in Jobs : FileOf(v) \in Inodes /\ (v # u => FileOf(v) # FileOf(u))
  BY <1>1, <1>2, InodesApart DEF Saver, Writer, JobInv
<1>4. data' = data \/ \E x : data' = [data EXCEPT ![FileOf(u)] = x]
  BY <1>2 DEF CopyChunk, WriteChunks
<1>5. DiskTypes' /\ \A v \in Jobs : Writer(v) => data'[FileOf(v)] = data[FileOf(v)]
  <2>1. CASE data' = data
    BY <1>1, <2>1 DEF DiskTypes, FilesInv
  <2>2. ASSUME NEW x, data' = [data EXCEPT ![FileOf(u)] = x] PROVE <1>5
    BY <1>1, <1>3, <2>2, DataKeeps DEF DiskTypes, FilesInv
  <2> QED
    BY <1>4, <2>1, <2>2
<1>6. pc' \in [Jobs -> Labels] /\ pc'[w] \in {"copyChunk", "chmod", "undo"}
      /\ (\A v \in Jobs \ {w} : pc'[v] = pc[v])
  BY <1>1 DEF CopyChunk, Goto, Labels, FilesInv, Types
<1>7. OthersStay(w) /\ Types' /\ Own(w) /\ Past(w) /\ TargetsStay /\ LinkInv'
  BY <1>1, <1>3, <1>5, <1>6
  DEF OthersStay, Own, Past, Saver, Writer, TargetsStay, LinkInv, FilesInv, Types
<1>8. JobInv(w)'
  BY <1>1, <1>2, <1>3, <1>6 DEF JobInv, Saver, Writer, Applying
<1> QED
  BY <1>5, <1>7, <1>8, QuietStep

LEMMA OpenSidecarKeeps ==
    ASSUME FilesInv, NEW w \in Jobs, OpenSidecar(w)
    PROVE  FilesInv' /\ SameStore
<1>1. JobInv(w) /\ pc[w] = "sidecar" /\ Saver(w) /\ path[w] \in Targets
      /\ UNCHANGED <<kind, path, now>>
  BY DEF FilesInv, OpenSidecar, JobInv
<1>2. CASE Goto(w, "ok") /\ UNCHANGED <<fd, disk>>
  <2>1. pc' \in [Jobs -> Labels] /\ pc'[w] = "ok" /\ (\A v \in Jobs \ {w} : pc'[v] = pc[v])
    BY <1>2 DEF Goto, Labels, FilesInv, Types
  <2>2. OthersStay(w) /\ Types' /\ Own(w) /\ Past(w) /\ TargetsStay /\ LinkInv' /\ DiskTypes'
    BY <1>1, <1>2, <2>1
    DEF OthersStay, Own, Past, Saved, TargetsStay, LinkInv, DiskTypes, disk, FilesInv, Types
  <2>3. JobInv(w)'
    BY <1>1, <2>1 DEF JobInv, Saver, Writer, Applying
  <2> QED
    BY <2>2, <2>3, QuietStep
<1>3. CASE Goto(w, "writeSidecar") /\ OpenTruncated(w, SidecarOf(path[w]), MetaOf(w))
  <2> DEFINE m == SidecarOf(path[w])
  <2>1. m \in Sidecars /\ m \in Names /\ m \notin Targets /\ m # CopyTemp
        /\ \A v \in Jobs : Temp(v) # m /\ Temp(v) \in Names
    BY <1>1, SidecarName, NamesApart
  <2>2. PICK u \in Jobs : Create(w, m, MetaOf(u))
    BY <1>3, <2>1 DEF OpenTruncated, FilesInv, LinkInv
  <2>3. MetaOf(u) \in Inodes /\ \A v \in Jobs : FileOf(v) \in Inodes /\ FileOf(v) # MetaOf(u)
    BY InodesApart
  <2> HIDE DEF m
  <2>4. /\ DiskTypes' /\ link'[m] = MetaOf(u) /\ fd'[w] = MetaOf(u)
        /\ \A k \in Names : k # m => link'[k] = link[k]
        /\ \A i \in Inodes : i # MetaOf(u) => data'[i] = data[i]
        /\ \A v \in Jobs \ {w} : fd'[v] = fd[v]
        /\ fd' \in [Jobs -> Inodes \cup {NoInode}]
    BY <2>1, <2>2, <2>3, CreateKeeps
  <2>5. pc' \in [Jobs -> Labels] /\ pc'[w] = "writeSidecar"
        /\ (\A v \in Jobs \ {w} : pc'[v] = pc[v])
    BY <1>3 DEF Goto, Labels, FilesInv, Types
  <2>6. OthersStay(w) /\ Types' /\ Own(w) /\ Past(w)
    BY <1>1, <2>1, <2>3, <2>4, <2>5 DEF OthersStay, Own, Past, Saved, FilesInv, Types
  <2>7. TargetsStay /\ LinkInv'
    BY <1>1, <2>1, <2>4, NamesApart DEF TargetsStay, LinkInv, FilesInv
  <2>8. JobInv(w)'
    BY <1>1, <2>4, <2>5 DEF JobInv, Saver, Writer, Applying
  <2> QED
    BY <2>4, <2>6, <2>7, <2>8, QuietStep
<1> QED
  BY <1>2, <1>3 DEF OpenSidecar
LEMMA OpenCopyKeeps ==
    ASSUME FilesInv, NEW w \in Jobs, OpenCopy(w)
    PROVE  FilesInv' /\ SameStore
<1>1. JobInv(w) /\ pc[w] = "begin" /\ kind[w] = "copy" /\ UNCHANGED <<kind, path, now>>
  BY DEF FilesInv, OpenCopy
<1>2. CASE Goto(w, "failed") /\ UNCHANGED <<fd, disk>>
  <2>1. pc' \in [Jobs -> Labels] /\ pc'[w] = "failed" /\ (\A v \in Jobs \ {w} : pc'[v] = pc[v])
    BY <1>2 DEF Goto, Labels, FilesInv, Types
  <2>2. OthersStay(w) /\ Types' /\ Own(w) /\ Past(w) /\ TargetsStay /\ LinkInv' /\ DiskTypes'
    BY <1>1, <1>2, <2>1
    DEF OthersStay, Own, Past, Saver, Writer, TargetsStay, LinkInv, DiskTypes, disk, FilesInv, Types
  <2>3. JobInv(w)'
    BY <1>1, <2>1 DEF JobInv, Saver, Writer, Applying
  <2> QED
    BY <2>2, <2>3, QuietStep
<1>3. CASE Goto(w, "copyChunk") /\ OpenTruncated(w, CopyTemp, FileOf(w))
  <2>1. CopyTemp \in Names /\ CopyTemp \notin Targets /\ CopyTemp \notin Sidecars
        /\ \A v \in Jobs : Temp(v) # CopyTemp /\ Temp(v) \in Names
    BY NamesApart
  <2>2. PICK u \in Jobs : kind[u] = "copy" /\ Create(w, CopyTemp, FileOf(u))
    BY <1>1, <1>3 DEF OpenTruncated, FilesInv, LinkInv
  <2>3. FileOf(u) \in Inodes /\ (~Writer(u))
        /\ \A v \in Jobs : FileOf(v) \in Inodes /\ (v # u => FileOf(v) # FileOf(u))
    BY <2>2, InodesApart DEF Saver, Writer
  <2>4. /\ DiskTypes' /\ link'[CopyTemp] = FileOf(u) /\ fd'[w] = FileOf(u)
        /\ \A k \in Names : k # CopyTemp => link'[k] = link[k]
        /\ \A i \in Inodes : i # FileOf(u) => data'[i] = data[i]
        /\ \A v \in Jobs \ {w} : fd'[v] = fd[v]
        /\ fd' \in [Jobs -> Inodes \cup {NoInode}]
    BY <2>1, <2>2, <2>3, CreateKeeps
  <2>5. pc' \in [Jobs -> Labels] /\ pc'[w] = "copyChunk"
        /\ (\A v \in Jobs \ {w} : pc'[v] = pc[v])
    BY <1>3 DEF Goto, Labels, FilesInv, Types
  <2>6. OthersStay(w) /\ Types' /\ Own(w) /\ Past(w)
    BY <1>1, <2>1, <2>3, <2>4, <2>5 DEF OthersStay, Own, Past, Saver, Writer, FilesInv, Types
  <2>7. TargetsStay /\ LinkInv'
    BY <1>1, <2>1, <2>2, <2>4, NamesApart DEF TargetsStay, LinkInv, FilesInv
  <2>8. JobInv(w)'
    BY <1>1, <2>2, <2>4, <2>5 DEF JobInv, Saver, Writer, Applying
  <2> QED
    BY <2>4, <2>6, <2>7, <2>8, QuietStep
<1> QED
  BY <1>2, <1>3 DEF OpenCopy, CopyTo

-----------------------------------------------------------------------------
(* Steps that give a file another name.                                    *)

LEMMA RenameToKeeps ==
    ASSUME FilesInv, NEW n \in Names, NEW m \in Names, n # m, RenameTo(n, m)
    PROVE  /\ link' \in [Names -> Inodes \cup {NoInode}]
           /\ link'[m] = link[n] /\ link'[n] = NoInode
           /\ \A k \in Names \ {n, m} : link'[k] = link[k]
BY DEF FilesInv, DiskTypes, RenameTo

LEMMA RenameCopyKeeps ==
    ASSUME FilesInv, NEW w \in Jobs, RenameCopy(w)
    PROVE  FilesInv' /\ SameStore
<1>1. JobInv(w) /\ pc[w] = "rename" /\ kind[w] = "copy"
      /\ UNCHANGED <<kind, path, fd, data, now>>
  BY DEF FilesInv, RenameCopy
<1>2. pc' \in [Jobs -> Labels] /\ pc'[w] \in {"ok", "undo"}
      /\ (\A v \in Jobs \ {w} : pc'[v] = pc[v])
  BY DEF RenameCopy, Goto, Labels, FilesInv, Types
<1>3. link' \in [Names -> Inodes \cup {NoInode}] /\ link'[CopyTemp] \in {link[CopyTemp], NoInode}
      /\ \A k \in Names \ {CopyTemp, Destination} : link'[k] = link[k]
  <2>1. CASE RenameTo(CopyTemp, Destination)
    BY <2>1, NamesApart, RenameToKeeps
  <2>2. CASE UNCHANGED link
    BY <2>2 DEF FilesInv, DiskTypes
  <2> QED
    BY <2>1, <2>2 DEF RenameCopy, CopyTo
<1>4. OthersStay(w) /\ Types' /\ Past(w) /\ DiskTypes'
  BY <1>1, <1>2, <1>3 DEF OthersStay, Past, Saver, Writer, DiskTypes, FilesInv, Types
<1>5. Own(w) /\ TargetsStay /\ LinkInv'
  BY <1>1, <1>3, NamesApart DEF Own, TargetsStay, LinkInv, FilesInv
<1>6. JobInv(w)'
  BY <1>1, <1>2 DEF JobInv, Saver, Writer, Applying
<1> QED
  BY <1>4, <1>5, <1>6, QuietStep

LEMMA SymlinkKeeps ==
    ASSUME FilesInv, NEW w \in Jobs, Symlink(w)
    PROVE  FilesInv' /\ SameStore
<1>1. JobInv(w) /\ pc[w] = "symlink" /\ kind[w] = "copyLink" /\ ~Saver(w)
      /\ UNCHANGED <<kind, path, fd, now>>
  BY DEF FilesInv, Symlink, JobInv, Saver, Writer, Applying
<1>2. pc' \in [Jobs -> Labels] /\ pc'[w] \in {"ok", "failed"}
      /\ (\A v \in Jobs \ {w} : pc'[v] = pc[v])
  BY DEF Symlink, Goto, Labels, FilesInv, Types
<1>3. DiskTypes' /\ (\A k \in Names \ {Destination} : link'[k] = link[k])
      /\ (\A i \in Inodes : i # FileOf(w) => data'[i] = data[i])
  <2>1. CASE UNCHANGED disk
    BY <2>1 DEF disk, FilesInv, DiskTypes
  <2>2. CASE link' = [link EXCEPT ![Destination] = FileOf(w)]
             /\ data' = [data EXCEPT ![FileOf(w)] = Whole(FileOf(w))]
    <3>1. FileOf(w) \in Inodes /\ Destination \in Names
      BY InodesApart, NamesApart
    <3>2. link' \in [Names -> Inodes \cup {NoInode}]
          /\ (\A k \in Names \ {Destination} : link'[k] = link[k])
      BY <2>2, <3>1 DEF FilesInv, DiskTypes
    <3> QED
      BY <2>2, <3>1, <3>2, DataKeeps DEF DiskTypes
  <2> QED
    BY <2>1, <2>2 DEF Symlink
<1>4. OthersStay(w) /\ Types' /\ Past(w)
  BY <1>1, <1>2 DEF OthersStay, Past, FilesInv, Types
<1>5. Own(w) /\ TargetsStay /\ LinkInv'
  BY <1>1, <1>3, NamesApart, InodesApart DEF Own, TargetsStay, LinkInv, FilesInv
<1>6. JobInv(w)'
  BY <1>1, <1>2 DEF JobInv, Saver, Writer, Applying
<1> QED
  BY <1>3, <1>4, <1>5, <1>6, QuietStep

\* The one step that readers see: a save puts its whole patch under its path.
LEMMA RenameKeeps ==
    ASSUME FilesInv, NEW w \in Jobs, Rename(w)
    PROVE  FilesInv' /\ (SameStore \/ Store!Put(w, path[w]))
<1>1. JobInv(w) /\ pc[w] = "rename" /\ Saver(w) /\ path[w] \in Targets
      /\ link[Temp(w)] = FileOf(w) /\ data[FileOf(w)] = Whole(FileOf(w))
      /\ UNCHANGED <<kind, path, fd, data, now>>
  BY DEF FilesInv, Rename, JobInv, Saver, Writer, Applying
<1>2. pc' \in [Jobs -> Labels] /\ (\A v \in Jobs \ {w} : pc'[v] = pc[v])
  BY DEF Rename, Goto, Labels, FilesInv, Types
<1>3. OthersStay(w) /\ Types'
  BY <1>1, <1>2 DEF OthersStay, FilesInv, Types
<1>4. CASE Goto(w, "undo") /\ UNCHANGED link
  <2>1. pc'[w] = "undo"
    BY <1>4 DEF Goto, FilesInv, Types
  <2>2. Own(w) /\ Past(w) /\ TargetsStay /\ LinkInv' /\ DiskTypes'
    BY <1>1, <1>4 DEF Own, Past, Saved, TargetsStay, LinkInv, DiskTypes, FilesInv
  <2>3. JobInv(w)'
    BY <1>1, <1>4, <2>1 DEF JobInv, Saver, Writer, Applying
  <2> QED
    BY <1>3, <2>2, <2>3, QuietStep
<1>5. CASE Goto(w, "sidecar") /\ RenameTo(Temp(w), path[w])
  <2>1. pc'[w] = "sidecar"
    BY <1>5 DEF Goto, FilesInv, Types
  <2>2. Temp(w) \in Names /\ path[w] \in Names /\ Temp(w) # path[w]
    BY <1>1, NamesApart
  <2>3. /\ link' \in [Names -> Inodes \cup {NoInode}]
        /\ link'[path[w]] = FileOf(w) /\ link'[Temp(w)] = NoInode
        /\ \A k \in Names \ {Temp(w), path[w]} : link'[k] = link[k]
    BY <1>1, <1>5, <2>2, RenameToKeeps
  <2>4. DiskTypes' /\ Own(w)
    BY <1>1, <2>3, NamesApart DEF DiskTypes, Own, FilesInv
  <2>5. LinkInv'
    BY <1>1, <2>3, NamesApart DEF LinkInv, FilesInv
  <2>6. JobInv(w)'
    BY <1>1, <2>1 DEF JobInv, Saver, Writer, Applying
  <2>7. TargetInv'
    <3>1. ASSUME NEW p \in Targets, p # path[w], link'[p] # NoInode
          PROVE  \E v \in Jobs : /\ Saver(v) /\ pc'[v] \in Saved
                                 /\ link'[p] = FileOf(v) /\ data[FileOf(v)] = Whole(FileOf(v))
      <4>1. link'[p] = link[p]
        BY <2>3, <3>1, NamesApart
      <4>2. PICK v \in Jobs : /\ Saver(v) /\ pc[v] \in Saved
                              /\ link[p] = FileOf(v) /\ data[FileOf(v)] = Whole(FileOf(v))
        BY <3>1, <4>1 DEF FilesInv, TargetInv
      <4>3. pc'[v] \in Saved
        BY <1>1, <1>2, <4>2 DEF Saved
      <4> QED
        BY <4>1, <4>2, <4>3
    <3>2. pc'[w] \in Saved
      BY <2>1 DEF Saved
    <3> QED
      BY <1>1, <2>3, <3>1, <3>2 DEF TargetInv, Saver
  <2>8. FilesInv'
    BY <1>3, <2>4, <2>5, <2>6, <2>7, OthersKeep
  <2>9. \A p \in Targets : Holds(p)' = IF p = path[w] THEN Whole(FileOf(w)) ELSE Holds(p)
    <3>1. FileOf(w) # NoInode
      BY InodesApart
    <3> QED
      BY <1>1, <2>3, <3>1, NamesApart DEF Holds
  <2>10. [p \in Targets |-> Holds(p)]' =
            [[p \in Targets |-> Holds(p)] EXCEPT ![path[w]] = Whole(FileOf(w))]
    BY <1>1, <2>9
  <2> QED
    BY <2>8, <2>10 DEF Store!Put
<1> QED
  BY <1>4, <1>5 DEF Rename
-----------------------------------------------------------------------------
LEMMA FilesInit == Init => FilesInv /\ Store!Init
<1> SUFFICES ASSUME Init PROVE FilesInv /\ Store!Init
  OBVIOUS
<1>1. pc = [w \in Jobs |-> "begin"] /\ kind \in [Jobs -> Kinds] /\ now = 1
      /\ path = [w \in Jobs |-> Destination] /\ fd = [w \in Jobs |-> NoInode]
      /\ link = [n \in Names |-> NoInode] /\ data = [i \in Inodes |-> <<>>]
  BY DEF Init
<1>2. Types
  BY <1>1, NamesApart, FilesAssumption DEF Types, Labels
<1>3. DiskTypes /\ TargetInv /\ LinkInv
  BY <1>1, NamesApart DEF DiskTypes, TargetInv, LinkInv
<1>4. \A w \in Jobs : JobInv(w)
  BY <1>1 DEF JobInv, Applying
<1>5. \A p \in Targets : Holds(p) = <<>>
  BY <1>1, NamesApart DEF Holds
<1> QED
  BY <1>2, <1>3, <1>4, <1>5 DEF FilesInv, Store!Init, Store!Nothing

\* A step that touches neither processes nor files.
LEMMA StillKeeps ==
    ASSUME FilesInv, UNCHANGED <<proc, disk>>, now' \in 1 .. MaxTime
    PROVE  FilesInv' /\ SameStore
BY DEF FilesInv, Types, DiskTypes, TargetInv, LinkInv, JobInv, Saver, Writer, Applying, proc, disk, SameStore, Holds

LEMMA FilesNext ==
    ASSUME FilesInv, [Next]_vars
    PROVE  FilesInv' /\ (SameStore \/ Store!Next)
<1>1. ASSUME NEW w \in Jobs, Step(w) \/ Crash(w)
      PROVE  FilesInv' /\ (SameStore \/ Store!Next)
  <2>1. CASE Rename(w)
    <3>1. FilesInv' /\ (SameStore \/ Store!Put(w, path[w]))
      BY <2>1, RenameKeeps
    <3>2. path[w] \in Targets
      BY <2>1 DEF Rename, FilesInv, JobInv, Saver, Writer, Applying
    <3> QED
      BY <3>1, <3>2 DEF Store!Next
  <2>2. CASE Close(w) \/ Use(w) \/ Chmod(w) \/ Crash(w)
    BY <2>2, IdleKeeps
  <2>3. CASE Undo(w) \/ RemoveTemp(w) \/ RemoveForLink(w)
    BY <2>3, RemovalKeeps
  <2>4. CASE CreateTemp(w) \/ OpenSidecar(w) \/ OpenCopy(w)
    BY <2>4, CreateTempKeeps, OpenSidecarKeeps, OpenCopyKeeps
  <2>5. CASE Write(w) \/ WriteSidecar(w) \/ CopyChunk(w)
    BY <2>5, WriteKeeps, WriteSidecarKeeps, CopyChunkKeeps
  <2>6. CASE RenameCopy(w) \/ Symlink(w)
    BY <2>6, RenameCopyKeeps, SymlinkKeeps
  <2> QED
    BY <1>1, <2>1, <2>2, <2>3, <2>4, <2>5, <2>6 DEF Step
<1>2. CASE Tick
  <2>1. now' \in 1 .. MaxTime /\ UNCHANGED <<proc, disk>>
    BY <1>2, FilesAssumption DEF Tick, FilesInv, Types
  <2> QED
    BY <2>1, StillKeeps
<1>3. CASE UNCHANGED vars
  BY <1>3, StillKeeps DEF vars, FilesInv, Types
<1> QED
  BY <1>1, <1>2, <1>3 DEF Next, AllEnded

LEMMA FilesHolds == Spec => []FilesInv
<1>1. Init => FilesInv
  BY FilesInit
<1>2. FilesInv /\ [Next]_vars => FilesInv'
  BY FilesNext
<1> QED
  BY <1>1, <1>2, PTL DEF Spec

\* Saved patches are a PatchStore: under the path of a save there is never, not even
\* after a failure or a crash, anything but the whole patch of one run.
THEOREM SavesAreAtomic == Spec => ImplementsStore
<1>1. Init => FilesInv /\ Store!Init
  BY FilesInit
<1>2. FilesInv /\ [Next]_vars => FilesInv'
  BY FilesNext
<1>3. FilesInv /\ [Next]_vars => [Store!Next]_([p \in Targets |-> Holds(p)])
  <2> SUFFICES ASSUME FilesInv, [Next]_vars, SameStore
               PROVE  [p \in Targets |-> Holds(p)]' = [p \in Targets |-> Holds(p)]
    BY FilesNext
  <2> QED
    BY DEF SameStore
<1> QED
  BY <1>1, <1>2, <1>3, PTL DEF Spec, ImplementsStore, Store!Spec
-----------------------------------------------------------------------------
(* What git apply reads.                                                   *)

ReadInv ==
    /\ DOMAIN read = Jobs
    /\ \A w \in Jobs : read[w] \in Seq({Whole(FileOf(w))})

LEMMA AppendToSeq ==
    ASSUME NEW x, NEW s \in Seq({x})
    PROVE  Append(s, x) \in Seq({x})
OBVIOUS

LEMMA ReadNext ==
    ASSUME FilesInv, ReadInv, [Next]_vars
    PROVE  ReadInv'
<1>1. ASSUME NEW w \in Jobs, Use(w) PROVE ReadInv'
  <2>1. JobInv(w) /\ pc[w] \in Applying
    BY <1>1 DEF FilesInv, Use, Applying
  <2>2. Holds(Temp(w)) = Whole(FileOf(w))
    BY <2>1, InodesApart DEF JobInv, Writer, Applying, Holds
  <2>3. read' = [read EXCEPT ![w] = Append(read[w], Whole(FileOf(w)))]
    BY <1>1, <2>2 DEF Use
  <2>4. Append(read[w], Whole(FileOf(w))) \in Seq({Whole(FileOf(w))})
    BY AppendToSeq DEF ReadInv
  <2> HIDE DEF Whole, FileOf
  <2>5. DOMAIN read' = Jobs /\ read'[w] = Append(read[w], Whole(FileOf(w)))
        /\ \A v \in Jobs \ {w} : read'[v] = read[v]
    BY <2>3 DEF ReadInv
  <2> QED
    BY <2>4, <2>5 DEF ReadInv
<1>2. CASE UNCHANGED read
  BY <1>2 DEF ReadInv
<1>3. (\E w \in Jobs : Use(w)) \/ UNCHANGED read
  BY DEF Next, Step, Crash, Tick, AllEnded, vars, proc, CreateTemp, Write, Close, Rename, Undo,
         RemoveTemp, OpenSidecar, WriteSidecar, OpenCopy, CopyChunk, Chmod, RenameCopy,
         RemoveForLink, Symlink
<1> QED
  BY <1>1, <1>2, <1>3

\* Each time it reads, git apply reads exactly the patch its own run has captured.
THEOREM ApplyReadsItsOwn == Spec => []AppliesItsOwn
<1>1. Init => FilesInv /\ ReadInv
  <2>1. Init => ReadInv
    BY DEF Init, ReadInv
  <2> QED
    BY <2>1, FilesInit
<1>2. FilesInv /\ ReadInv /\ [Next]_vars => (FilesInv /\ ReadInv)'
  BY FilesNext, ReadNext
<1>3. ReadInv => AppliesItsOwn
  <2> SUFFICES ASSUME ReadInv, NEW w \in Jobs, NEW k \in 1 .. Len(read[w])
               PROVE  read[w][k] = Whole(FileOf(w))
    BY DEF AppliesItsOwn
  <2>1. read[w] \in Seq({Whole(FileOf(w))})
    BY DEF ReadInv
  <2> HIDE DEF Whole, FileOf
  <2> QED
    BY <2>1
<1> QED
  BY <1>1, <1>2, <1>3, PTL DEF Spec
-----------------------------------------------------------------------------
(* What a step of one process leaves alone.                                *)

Counted ==
    /\ off \in [Jobs -> Nat] /\ named \in [Jobs -> 0 .. MaxTime]
    /\ trouble \in [faults : Nat, crashes : Nat]

\* The names a process may link or unlink.
Touched(w) ==
    CASE kind[w] = "copy" -> {CopyTemp, Destination}
      [] kind[w] = "copyLink" -> {Destination}
      [] OTHER -> {Temp(w)} \cup (IF pc[w] = "rename" THEN {path[w]} ELSE {})
                    \cup (IF pc[w] = "sidecar" THEN {SidecarOf(path[w])} ELSE {})

ProcFrame(w) ==
    /\ kind' = kind /\ pc'[w] # "begin"
    /\ \A v \in Jobs \ {w} : /\ pc'[v] = pc[v] /\ path'[v] = path[v] /\ fd'[v] = fd[v]
                             /\ off'[v] = off[v] /\ named'[v] = named[v]

LinkFrame(w) == \A n \in Names : n \notin Touched(w) => link'[n] = link[n]

\* It writes to the inode it has, or gets, open.
DataFrame(w) ==
    \A i \in Inodes : (kind[w] = "copyLink" => i # FileOf(w)) /\ i # fd'[w] =>
        data'[i] = data[i]

Frame(w) == ProcFrame(w) /\ LinkFrame(w) /\ DataFrame(w)

LEMMA CountedKeeps == ASSUME FilesInv, Counted, [Next]_vars PROVE Counted'
<1>1. off' \in [Jobs -> Nat]
  <2>1. ASSUME NEW w \in Jobs, CopyChunk(w) PROVE off' \in [Jobs -> Nat]
    BY <2>1 DEF CopyChunk, Counted
  <2>2. UNCHANGED off \/ \E w \in Jobs : CopyChunk(w)
    BY DEF Next, Step, Crash, Tick, AllEnded, vars, proc, CreateTemp, Write, Close, Rename, Undo,
       Use, RemoveTemp, OpenSidecar, WriteSidecar, OpenCopy, Chmod, RenameCopy,
       RemoveForLink, Symlink
  <2> QED
    BY <2>1, <2>2 DEF Counted
<1>2. named' \in [Jobs -> 0 .. MaxTime]
  <2>1. ASSUME NEW w \in Jobs, CreateTemp(w) PROVE named' \in [Jobs -> 0 .. MaxTime]
    <3>1. now \in 0 .. MaxTime /\ named' = [named EXCEPT ![w] = now]
      BY <2>1, FilesAssumption DEF CreateTemp, FilesInv, Types
    <3> QED
      BY <3>1 DEF Counted
  <2>2. UNCHANGED named \/ \E w \in Jobs : CreateTemp(w)
    BY DEF Next, Step, Crash, Tick, AllEnded, vars, proc, seen, Write, Close, Rename, Undo,
       Use, RemoveTemp, OpenSidecar, WriteSidecar, OpenCopy, CopyChunk, Chmod, RenameCopy,
       RemoveForLink, Symlink
  <2> QED
    BY <2>1, <2>2 DEF Counted
<1>3. trouble' \in [faults : Nat, crashes : Nat]
  <2>1. IOOK \/ IOErr \/ Trouble("crashes")
    BY DEF Next, Step, Crash, Tick, AllEnded, vars, IOOK, CreateTemp, Write, Close, Rename, Undo,
       Use, RemoveTemp, OpenSidecar, WriteSidecar, OpenCopy, CopyChunk, Chmod, RenameCopy,
       RemoveForLink, Symlink
  <2>2. IOOK => trouble' \in [faults : Nat, crashes : Nat]
    BY DEF IOOK, Counted
  <2>3. IOErr => trouble' \in [faults : Nat, crashes : Nat]
    BY DEF IOErr, Trouble, Counted
  <2>4. Trouble("crashes") => trouble' \in [faults : Nat, crashes : Nat]
    BY DEF Trouble, Counted
  <2> QED
    BY <2>1, <2>2, <2>3, <2>4
<1> QED
  BY <1>1, <1>2, <1>3 DEF Counted

\* Steps that link nothing, and write nothing but through fd.
LEMMA FrameOfWrites ==
    ASSUME FilesInv, Counted, NEW w \in Jobs,
           \/ Write(w) \/ Close(w) \/ Use(w) \/ WriteSidecar(w) \/ CopyChunk(w) \/ Chmod(w)
           \/ Crash(w)
    PROVE  Frame(w)
<1>1. ProcFrame(w)
  BY DEF ProcFrame, Write, Close, Use, WriteSidecar, CopyChunk, Chmod, Crash, Goto, FilesInv,
     Types, Counted, seen
<1>2. LinkFrame(w)
  BY DEF LinkFrame, Write, Close, Use, WriteSidecar, CopyChunk, Chmod, Crash, disk
<1>3. DataFrame(w)
  <2>1. fd' = fd /\ (UNCHANGED data \/ \E x : data' = [data EXCEPT ![fd[w]] = x])
    BY DEF Write, Close, Use, WriteSidecar, CopyChunk, Chmod, Crash, disk, WriteChunks
  <2> QED
    BY <2>1 DEF DataFrame, FilesInv, DiskTypes
<1> QED
  BY <1>1, <1>2, <1>3 DEF Frame

\* Steps that link or unlink, and write nothing.
LEMMA FrameOfLinks ==
    ASSUME FilesInv, Counted, NEW w \in Jobs,
           Rename(w) \/ Undo(w) \/ RemoveTemp(w) \/ RenameCopy(w) \/ RemoveForLink(w)
    PROVE  Frame(w)
<1>1. ProcFrame(w)
  BY DEF ProcFrame, Rename, Undo, RemoveTemp, RenameCopy, RemoveForLink, Goto, FilesInv,
     Types, Counted, seen
<1>2. JobInv(w)
  BY DEF FilesInv
<1>3. LinkFrame(w)
  <2>1. CASE Rename(w)
    BY <2>1, <1>2 DEF LinkFrame, Touched, Rename, RenameTo, FilesInv, DiskTypes
  <2>2. CASE Undo(w)
    <3>1. kind[w] # "copyLink"
      BY <2>2, <1>2 DEF Undo, JobInv
    <3> QED
      BY <2>2, <3>1 DEF LinkFrame, Touched, Undo, Unlink, FilesInv, DiskTypes
  <2>3. CASE RemoveTemp(w)
    <3>1. kind[w] = "apply"
      BY <2>3, <1>2 DEF RemoveTemp, JobInv, Applying
    <3> QED
      BY <2>3, <3>1 DEF LinkFrame, Touched, RemoveTemp, Unlink, FilesInv, DiskTypes
  <2>4. CASE RenameCopy(w)
    BY <2>4 DEF LinkFrame, Touched, RenameCopy, RenameTo, CopyTo, FilesInv, DiskTypes
  <2>5. CASE RemoveForLink(w)
    BY <2>5 DEF LinkFrame, Touched, RemoveForLink, Unlink, FilesInv, DiskTypes
  <2> QED
    BY <2>1, <2>2, <2>3, <2>4, <2>5
<1>4. DataFrame(w)
  BY DEF DataFrame, Rename, Undo, RemoveTemp, RenameCopy, RemoveForLink
<1> QED
  BY <1>1, <1>3, <1>4 DEF Frame

\* Steps that open or make a file.
LEMMA FrameOfCreate ==
    ASSUME FilesInv, NEW w \in Jobs, NEW n, NEW j, Create(w, n, j)
    PROVE  /\ \A m \in Names : m # n => link'[m] = link[m]
           /\ \A i \in Inodes : i # j => data'[i] = data[i]
           /\ fd'[w] = j /\ \A v \in Jobs \ {w} : fd'[v] = fd[v]
BY DEF Create, FilesInv, Types, DiskTypes

LEMMA FrameOfOpens ==
    ASSUME FilesInv, Counted, NEW w \in Jobs,
           CreateTemp(w) \/ OpenSidecar(w) \/ OpenCopy(w) \/ Symlink(w)
    PROVE  Frame(w)
<1>1. JobInv(w)
  BY DEF FilesInv
<1>2. /\ kind' = kind /\ pc'[w] # "begin"
      /\ \A v \in Jobs \ {w} : /\ pc'[v] = pc[v] /\ path'[v] = path[v]
                               /\ off'[v] = off[v] /\ named'[v] = named[v]
  BY DEF CreateTemp, OpenSidecar, OpenCopy, Symlink, Goto, FilesInv, Types, Counted, seen
<1>3. CASE CreateTemp(w)
  <2>1. kind[w] \notin {"copy", "copyLink"}
    BY <1>3 DEF CreateTemp
  <2>2. CASE Create(w, Temp(w), FileOf(w))
    BY <1>2, <2>1, <2>2, FrameOfCreate DEF Frame, ProcFrame, LinkFrame, DataFrame, Touched
  <2>3. CASE UNCHANGED <<fd, disk>>
    BY <1>2, <2>3 DEF Frame, ProcFrame, LinkFrame, DataFrame, disk
  <2> QED
    BY <1>3, <2>2, <2>3 DEF CreateTemp
<1>4. CASE OpenSidecar(w)
  <2>1. kind[w] \notin {"copy", "copyLink"} /\ pc[w] = "sidecar"
    BY <1>4, <1>1 DEF OpenSidecar, JobInv, Saver
  <2>2. ASSUME NEW j, Create(w, SidecarOf(path[w]), j) PROVE Frame(w)
    BY <1>2, <2>1, <2>2, FrameOfCreate DEF Frame, ProcFrame, LinkFrame, DataFrame, Touched
  <2>3. CASE UNCHANGED <<fd, disk>>
    BY <1>2, <2>3 DEF Frame, ProcFrame, LinkFrame, DataFrame, disk
  <2> QED
    BY <1>4, <2>2, <2>3 DEF OpenSidecar, OpenTruncated
<1>5. CASE OpenCopy(w)
  <2>1. kind[w] = "copy"
    BY <1>5 DEF OpenCopy
  <2>2. ASSUME NEW j, Create(w, CopyTemp, j) PROVE Frame(w)
    BY <1>2, <2>1, <2>2, FrameOfCreate DEF Frame, ProcFrame, LinkFrame, DataFrame, Touched
  <2>3. CASE UNCHANGED <<fd, disk>>
    BY <1>2, <2>3 DEF Frame, ProcFrame, LinkFrame, DataFrame, disk
  <2> QED
    BY <1>5, <2>2, <2>3 DEF OpenCopy, OpenTruncated, CopyTo
<1>6. CASE Symlink(w)
  <2>1. kind[w] = "copyLink" /\ fd' = fd
    BY <1>6, <1>1 DEF Symlink, JobInv
  <2>2. CASE /\ link' = [link EXCEPT ![Destination] = FileOf(w)]
             /\ data' = [data EXCEPT ![FileOf(w)] = Whole(FileOf(w))]
    <3>1. LinkFrame(w)
      BY <2>1, <2>2 DEF LinkFrame, Touched, FilesInv, DiskTypes
    <3>2. DataFrame(w)
      BY <2>1, <2>2 DEF DataFrame, FilesInv, DiskTypes
    <3> QED
      BY <1>2, <2>1, <3>1, <3>2 DEF Frame, ProcFrame
  <2>3. CASE UNCHANGED disk
    BY <1>2, <2>1, <2>3 DEF Frame, ProcFrame, LinkFrame, DataFrame, disk
  <2> QED
    BY <1>6, <2>2, <2>3 DEF Symlink
<1> QED
  BY <1>3, <1>4, <1>5, <1>6

LEMMA StepFrame ==
    ASSUME FilesInv, Counted, NEW w \in Jobs, Step(w) \/ Crash(w)
    PROVE  Frame(w)
BY FrameOfWrites, FrameOfLinks, FrameOfOpens DEF Step

-----------------------------------------------------------------------------
(* What a save leaves behind.                                              *)

DebrisInv ==
    \A w \in Jobs :
        /\ pc[w] = "begin" => link[Temp(w)] = NoInode
        /\ Saver(w) /\ pc[w] \in {"sidecar", "writeSidecar", "ok"} => link[Temp(w)] = NoInode
        /\ Saver(w) /\ pc[w] = "undo" => trouble.faults > 0
        /\ Saver(w) /\ pc[w] = "failed" => link[Temp(w)] = NoInode \/ trouble.faults > 1

LEMMA DebrisKeeps ==
    ASSUME FilesInv, Counted, DebrisInv, [Next]_vars
    PROVE  DebrisInv'
<1>t. /\ trouble.faults \in Nat
      /\ IOErr => trouble'.faults = trouble.faults + 1
      /\ IOOK \/ IOErr \/ Trouble("crashes") => trouble'.faults >= trouble.faults
  BY DEF Counted, IOOK, IOErr, Trouble
<1>1. ASSUME NEW w \in Jobs, Step(w) \/ Crash(w) PROVE DebrisInv'
  <2>f. Frame(w)
    BY <1>1, StepFrame
  <2>t. trouble'.faults >= trouble.faults
    BY <1>1, <1>t DEF Step, Crash, CreateTemp, Write, Close, Rename, Undo, Use, RemoveTemp,
       OpenSidecar, WriteSidecar, OpenCopy, CopyChunk, Chmod, RenameCopy, RemoveForLink,
       Symlink
  <2>o. \A v \in Jobs \ {w} : link'[Temp(v)] = link[Temp(v)] /\ pc'[v] = pc[v]
    <3>1. \A v \in Jobs \ {w} : Temp(v) \notin Touched(w)
      <4>1. pc[w] = "rename" /\ kind[w] \notin {"copy", "copyLink"} => path[w] \in Targets
        BY DEF FilesInv, JobInv, Types, Kinds, Saver
      <4>2. pc[w] = "sidecar" => SidecarOf(path[w]) \in Sidecars
        BY SidecarName DEF FilesInv, JobInv, Saver
      <4> QED
        BY <4>1, <4>2, NamesApart DEF Touched
    <3> QED
      BY <2>f, <3>1, NamesApart DEF Frame, LinkFrame, ProcFrame
  <2>w. /\ pc'[w] # "begin"
        /\ Saver(w) /\ pc'[w] \in {"sidecar", "writeSidecar", "ok"} => link'[Temp(w)] = NoInode
        /\ Saver(w) /\ pc'[w] = "undo" => trouble'.faults > 0
        /\ Saver(w) /\ pc'[w] = "failed" => link'[Temp(w)] = NoInode \/ trouble'.faults > 1
    <3>j. JobInv(w) /\ pc'[w] # "begin" /\ pc \in [Jobs -> Labels] /\ Temp(w) \in Names
      BY <2>f, NamesApart DEF FilesInv, Types, Frame, ProcFrame
    <3> HIDE DEF JobInv
    <3> SUFFICES ASSUME Saver(w)
                 PROVE  /\ pc'[w] \in {"sidecar", "writeSidecar", "ok"} => link'[Temp(w)] = NoInode
                        /\ pc'[w] = "undo" => trouble'.faults > 0
                        /\ pc'[w] = "failed" => link'[Temp(w)] = NoInode \/ trouble'.faults > 1
      BY <3>j
    <3>1. CASE CreateTemp(w)
      BY <3>1, <3>j DEF CreateTemp, Goto, DebrisInv, disk
    <3>2. CASE Write(w) \/ Close(w)
      BY <3>2, <3>j, <1>t DEF Write, Close, Goto, Saver
    <3>3. CASE Rename(w)
      <4>1. CASE Goto(w, "sidecar") /\ RenameTo(Temp(w), path[w])
        BY <4>1, <3>j DEF Goto, RenameTo, FilesInv, DiskTypes
      <4>2. CASE IOErr /\ Goto(w, "undo")
        BY <4>2, <3>j, <1>t DEF Goto
      <4> QED
        BY <3>3, <4>1, <4>2 DEF Rename
    <3>4. CASE Undo(w)
      <4>1. pc'[w] = "failed" /\ pc[w] = "undo" /\ kind[w] # "copy"
        BY <3>4, <3>j DEF Undo, Goto, Saver
      <4>2. CASE Unlink(Temp(w))
        BY <4>1, <4>2, <3>j DEF Unlink, FilesInv, DiskTypes
      <4>3. CASE IOErr
        BY <4>1, <4>3, <1>t DEF DebrisInv
      <4> QED
        BY <3>4, <4>1, <4>2, <4>3 DEF Undo
    <3>5. CASE OpenSidecar(w)
      <4>1. pc[w] = "sidecar" /\ pc'[w] \in {"writeSidecar", "ok"} /\ path[w] \in Targets
        BY <3>5, <3>j DEF OpenSidecar, Goto, JobInv
      <4>2. Temp(w) # SidecarOf(path[w])
        BY <4>1, SidecarName, NamesApart
      <4>3. link'[Temp(w)] = link[Temp(w)]
        BY <3>5, <4>2, <3>j, FrameOfCreate DEF OpenSidecar, OpenTruncated, disk
      <4> QED
        BY <4>1, <4>3 DEF DebrisInv
    <3>6. CASE WriteSidecar(w)
      BY <3>6, <3>j DEF WriteSidecar, Goto, DebrisInv
    <3>7. CASE Crash(w)
      BY <3>7, <3>j DEF Crash, Goto
    <3>8. ~Use(w) /\ ~RemoveTemp(w) /\ ~CopyChunk(w) /\ ~Chmod(w) /\ ~OpenCopy(w)
          /\ ~RenameCopy(w) /\ ~RemoveForLink(w) /\ ~Symlink(w)
      BY <3>j DEF JobInv, Saver, Applying, Use, RemoveTemp, CopyChunk, Chmod, OpenCopy,
         RenameCopy, RemoveForLink, Symlink
    <3> QED
      BY <1>1, <3>1, <3>2, <3>3, <3>4, <3>5, <3>6, <3>7, <3>8 DEF Step
  <2>k. kind' = kind /\ trouble'.faults \in Nat
    BY <2>f, CountedKeeps DEF Frame, ProcFrame, Counted
  <2> QED
    BY <2>k, <2>t, <2>o, <2>w, <1>t DEF DebrisInv, Saver
<1>2. CASE UNCHANGED <<proc, disk, trouble>>
  BY <1>2 DEF DebrisInv, proc, disk, Saver
<1> QED
  BY <1>1, <1>2 DEF Next, Tick, AllEnded, vars

\* A save that is over leaves no temporary file, if not two calls have failed.
THEOREM SavesLeaveNoDebris == Spec => []NoDebris
<1>1. Init => Counted /\ DebrisInv
  <2> SUFFICES ASSUME Init PROVE Counted /\ DebrisInv
    OBVIOUS
  <2>1. Counted
    BY FilesAssumption DEF Init, Counted
  <2>2. pc = [w \in Jobs |-> "begin"] /\ link = [n \in Names |-> NoInode]
    BY DEF Init
  <2> QED
    BY <2>1, <2>2, NamesApart DEF DebrisInv
<1>2. FilesInv /\ Counted /\ DebrisInv /\ [Next]_vars => (Counted /\ DebrisInv)'
  BY CountedKeeps, DebrisKeeps
<1>3. Counted /\ DebrisInv => NoDebris
  <2> SUFFICES ASSUME Counted, DebrisInv, NEW w \in Jobs, Saver(w),
                      pc[w] \in {"ok", "failed"}, trouble.faults <= 1
               PROVE  link[Temp(w)] = NoInode
    BY DEF NoDebris, Saver
  <2> QED
    BY DEF Counted, DebrisInv
<1> QED
  BY <1>1, <1>2, <1>3, FilesHolds, PTL DEF Spec

-----------------------------------------------------------------------------
(* Where a patch that is saved stays.                                      *)

\* The path a save is given, or gives itself.
NameOf(w) == IF kind[w] = "save" THEN DefaultPath(named[w]) ELSE <<"patch", 0>>

PathInv ==
    \A w \in Jobs : Saver(w) =>
        /\ pc[w] \notin {"begin", "crashed"} => path[w] = NameOf(w) /\ named[w] > 0
        /\ pc[w] \in {"sidecar", "writeSidecar", "ok"} => link[path[w]] # NoInode
        /\ \A p \in Targets : link[p] = FileOf(w) => p = NameOf(w) /\ path[w] = p

\* Only a save links a path, its own, and with its own file.
LEMMA WhoLinks ==
    ASSUME FilesInv, Counted, NEW w \in Jobs, Step(w) \/ Crash(w), NEW p \in Targets
    PROVE  \/ link'[p] = link[p]
           \/ Saver(w) /\ pc[w] = "rename" /\ p = path[w] /\ link'[p] = FileOf(w)
<1>f. Frame(w) /\ p \in Names /\ JobInv(w)
  BY StepFrame, NamesApart DEF FilesInv
<1>1. CASE p \notin Touched(w)
  BY <1>1, <1>f DEF Frame, LinkFrame
<1>2. CASE p \in Touched(w)
  <2>1. pc[w] = "sidecar" => SidecarOf(path[w]) \in Sidecars
    BY <1>f, SidecarName DEF JobInv, Saver
  <2>2. pc[w] = "rename" /\ p = path[w] /\ kind[w] \notin {"copy", "copyLink"}
    BY <1>2, <2>1, NamesApart DEF Touched
  <2>3. Saver(w) /\ link[Temp(w)] = FileOf(w)
    BY <1>f, <2>2 DEF JobInv, Saver, Writer
  <2>4. Rename(w) \/ Crash(w)
    BY <2>2, <2>3 DEF Step, Saver, CreateTemp, Write, Close, Undo, Use, RemoveTemp, OpenSidecar,
       WriteSidecar, OpenCopy, CopyChunk, Chmod, RenameCopy, RemoveForLink, Symlink
  <2>5. CASE UNCHANGED link
    BY <2>5
  <2>6. CASE RenameTo(Temp(w), path[w])
    <3>1. Temp(w) \in Names /\ Temp(w) # p
      BY NamesApart
    <3>2. link'[p] = link[Temp(w)]
      BY <1>f, <2>2, <2>6, <3>1, RenameToKeeps
    <3> QED
      BY <2>2, <2>3, <3>2
  <2> QED
    BY <2>4, <2>5, <2>6 DEF Rename, Crash, disk
<1> QED
  BY <1>1, <1>2

LEMMA PathKeeps ==
    ASSUME FilesInv, Counted, PathInv, [Next]_vars
    PROVE  PathInv'
<1>1. ASSUME NEW w \in Jobs, Step(w) \/ Crash(w) PROVE PathInv'
  <2>f. ProcFrame(w) /\ JobInv(w) /\ w \in Jobs
    BY <1>1, StepFrame DEF Frame, FilesInv
  <2>l. \A p \in Targets :
            \/ link'[p] = link[p]
            \/ Saver(w) /\ pc[w] = "rename" /\ p = path[w] /\ link'[p] = FileOf(w)
    BY <1>1, WhoLinks
  <2>i. FileOf(w) # NoInode /\ \A v \in Jobs \ {w} : FileOf(v) # FileOf(w)
    BY InodesApart
  <2>1. ASSUME NEW v \in Jobs, v # w, Saver(v)
        PROVE  /\ pc'[v] \notin {"begin", "crashed"} => path'[v] = NameOf(v)' /\ named'[v] > 0
               /\ pc'[v] \in {"sidecar", "writeSidecar", "ok"} => link'[path'[v]] # NoInode
               /\ \A p \in Targets : link'[p] = FileOf(v) => p = NameOf(v)' /\ path'[v] = p
    <3>1. /\ pc'[v] = pc[v] /\ path'[v] = path[v] /\ NameOf(v)' = NameOf(v)
          /\ named'[v] = named[v]
      BY <2>f, <2>1 DEF ProcFrame, NameOf
    <3>2. pc[v] \in {"sidecar", "writeSidecar", "ok"} => path[v] \in Targets
      BY <2>1 DEF FilesInv, JobInv
    <3> QED
      BY <2>1, <2>l, <2>i, <3>1, <3>2 DEF PathInv
  <2>2. ASSUME Saver(w)
        PROVE  /\ pc'[w] \notin {"begin", "crashed"} => path'[w] = NameOf(w)' /\ named'[w] > 0
               /\ pc'[w] \in {"sidecar", "writeSidecar", "ok"} => link'[path'[w]] # NoInode
               /\ \A p \in Targets : link'[p] = FileOf(w) => p = NameOf(w)' /\ path'[w] = p
    <3>p. pc \in [Jobs -> Labels] /\ kind' = kind
      BY <2>f DEF FilesInv, Types, ProcFrame
    <3>1. CASE CreateTemp(w)
      <4>1. pc[w] = "begin" /\ pc'[w] \in {"write", "failed"}
        BY <3>1, <3>p DEF CreateTemp, Goto
      <4>2. \A p \in Targets : link[p] # FileOf(w)
        BY <4>1, InodesApart DEF FilesInv, TargetInv, Saved
      <4>3. path'[w] = NameOf(w)' /\ named'[w] > 0
        BY <2>2, <3>1, <3>p DEF CreateTemp, NameOf, Saver, FilesInv, Types, Counted
      <4> QED
        BY <2>l, <4>1, <4>2, <4>3
    <3>2. CASE ~CreateTemp(w)
      <4>1. path'[w] = path[w] /\ named'[w] = named[w]
        BY <1>1, <3>2 DEF Step, Crash, Write, Close, Rename, Undo, Use,
           RemoveTemp, OpenSidecar, WriteSidecar, OpenCopy, CopyChunk, Chmod, RenameCopy,
           RemoveForLink, Symlink, seen
      <4>2. NameOf(w)' = NameOf(w)
        BY <3>p, <4>1 DEF NameOf
      <4>3. pc[w] \notin {"begin", "crashed"} \/ pc'[w] = "crashed"
        BY <1>1, <2>2, <3>2, <3>p DEF Step, Crash, Saver, Write, Close, Rename, Undo, Use,
           RemoveTemp, OpenSidecar, WriteSidecar, OpenCopy, CopyChunk, Chmod, RenameCopy,
           RemoveForLink, Symlink, Goto
      <4>4. pc'[w] \notin {"begin", "crashed"} => path'[w] = NameOf(w)' /\ named'[w] > 0
        BY <2>2, <4>1, <4>2, <4>3 DEF PathInv
      <4>5. \A p \in Targets : link'[p] = FileOf(w) => p = NameOf(w)' /\ path'[w] = p
        BY <2>2, <2>l, <4>1, <4>2 DEF PathInv
      <4>6. ASSUME pc'[w] \in {"sidecar", "writeSidecar", "ok"} PROVE link'[path'[w]] # NoInode
        <5>1. CASE Rename(w)
          <6>1. path[w] \in Names /\ Temp(w) \in Names /\ Temp(w) # path[w]
                /\ link[Temp(w)] = FileOf(w)
            BY <2>2, <2>f, <5>1, NamesApart DEF JobInv, Writer, Saver, Rename
          <6>2. RenameTo(Temp(w), path[w])
            BY <4>6, <5>1, <3>p DEF Rename, Goto
          <6> QED
            BY <2>i, <4>1, <6>1, <6>2, RenameToKeeps
        <5>2. CASE ~Rename(w)
          <6>1. pc[w] \in {"sidecar", "writeSidecar"}
            BY <1>1, <2>2, <2>f, <3>2, <3>p, <4>6, <5>2 DEF Step, Crash, Saver, Write, Close, Undo,
               Use, RemoveTemp, OpenSidecar, WriteSidecar, OpenCopy, CopyChunk, Chmod, RenameCopy,
               RemoveForLink, Symlink, Goto, JobInv, Applying
          <6> QED
            BY <2>2, <2>f, <2>i, <2>l, <4>1, <6>1 DEF PathInv, JobInv
        <5> QED
          BY <5>1, <5>2
      <4> QED
        BY <4>4, <4>5, <4>6
    <3> QED
      BY <3>1, <3>2
  <2>3. \A v \in Jobs : Saver(v)' = Saver(v)
    BY <2>f DEF ProcFrame, Saver
  <2> QED
    BY <2>1, <2>2, <2>3 DEF PathInv
<1>2. CASE UNCHANGED <<proc, disk, named>>
  BY <1>2 DEF PathInv, NameOf, proc, disk, Saver
<1> QED
  BY <1>1, <1>2 DEF Next, Tick, AllEnded, vars, seen

\* A patch that was saved under a name of its own second is not replaced by
\* another, whatever the others do and whenever they die.
THEOREM SavesStay == Spec => []SavedStays
<1>1. Init => Counted /\ PathInv
  <2> SUFFICES ASSUME Init PROVE Counted /\ PathInv
    OBVIOUS
  <2>1. Counted
    BY FilesAssumption DEF Init, Counted
  <2>2. pc = [w \in Jobs |-> "begin"] /\ link = [n \in Names |-> NoInode]
    BY DEF Init
  <2> QED
    BY <2>1, <2>2, NamesApart, InodesApart DEF PathInv
<1>2. FilesInv /\ Counted /\ PathInv /\ [Next]_vars => (Counted /\ PathInv)'
  BY CountedKeeps, PathKeeps
<1>3. FilesInv /\ Counted /\ PathInv => SavedStays
  <2> SUFFICES ASSUME FilesInv, Counted, PathInv, NEW w \in Jobs, kind[w] = "save", pc[w] = "ok",
                      \A v \in Jobs \ {w} : kind[v] = "save" => named[v] # named[w]
               PROVE  Holds(path[w]) = Whole(FileOf(w))
    BY DEF SavedStays
  <2>1. /\ path[w] = DefaultPath(named[w]) /\ named[w] > 0 /\ link[path[w]] # NoInode
        /\ path[w] \in Targets
    BY DEF PathInv, NameOf, Saver, FilesInv, JobInv
  <2>2. PICK v \in Jobs : /\ Saver(v) /\ link[path[w]] = FileOf(v)
                          /\ data[FileOf(v)] = Whole(FileOf(v))
    BY <2>1 DEF FilesInv, TargetInv
  <2>3. path[w] = NameOf(v)
    BY <2>1, <2>2 DEF PathInv
  <2>4. named[v] \in Nat /\ named[w] \in Nat
    BY DEF Counted
  <2>5. kind[v] = "save" /\ named[v] = named[w]
    BY <2>1, <2>2, <2>3, <2>4 DEF NameOf, DefaultPath, Saver
  <2>6. v = w
    BY <2>5
  <2> QED
    BY <2>1, <2>2, <2>6 DEF Holds
<1> QED
  BY <1>1, <1>2, <1>3, FilesHolds, PTL DEF Spec

-----------------------------------------------------------------------------
(* What the sidecar of a patch tells.                                      *)

Untroubled == trouble.faults + trouble.crashes = 0
Alone(w) == \A v \in Jobs \ {w} : path[v] # path[w]

\* A sidecar belongs to a save of the path beside it, and stays.
SidecarLinks ==
    /\ \A w \in Jobs : \A m \in Sidecars : link[m] = MetaOf(w) =>
          /\ Saver(w) /\ pc[w] \in {"writeSidecar", "ok", "crashed"}
          /\ path[w] \in Targets /\ SidecarOf(path[w]) = m
    /\ \A w \in Jobs :
          /\ pc[w] = "begin" => path[w] = Destination
          /\ pc[w] = "writeSidecar" =>
                fd[w] # NoInode /\ link[SidecarOf(path[w])] = fd[w]

\* What a save with a path of its own has told, if nothing went wrong.
Told(w) ==
    Saver(w) /\ Untroubled =>
        /\ pc[w] \notin {"undo", "failed", "crashed"}
        /\ Alone(w) =>
            /\ pc[w] \in {"writeSidecar", "ok"} => link[SidecarOf(path[w])] = MetaOf(w)
            /\ pc[w] = "writeSidecar" => data[MetaOf(w)] = <<>>
            /\ pc[w] = "ok" => data[MetaOf(w)] = Whole(MetaOf(w))

SidecarInv == SidecarLinks /\ \A w \in Jobs : Told(w)

LEMMA SidecarNamesApart ==
    \A p, q \in Targets : SidecarOf(p) = SidecarOf(q) => p = q
BY DEF Targets, SidecarOf

LEMMA MetaOverlay ==
    ASSUME NEW w \in Jobs
    PROVE  Overlay(<<>>, MetaOf(w), 1, Size[w]) = Whole(MetaOf(w))
<1>1. Size[w] \in Nat /\ Size[w] > 0
  BY FilesAssumption
<1>2. MetaOf(w)[1] = w
  BY DEF MetaOf
<1> QED
  BY <1>1, <1>2 DEF Overlay, Whole

\* A sidecar that is opened was there, and has been emptied, or is new.
LEMMA OpensOne ==
    ASSUME FilesInv, NEW w \in Jobs, OpenSidecar(w), pc'[w] = "writeSidecar"
    PROVE  \E j \in Inodes :
              /\ Create(w, SidecarOf(path[w]), j) /\ fd'[w] = j /\ data'[j] = <<>>
              /\ link'[SidecarOf(path[w])] = j
              /\ j = IF link[SidecarOf(path[w])] = NoInode THEN MetaOf(w)
                     ELSE link[SidecarOf(path[w])]
<1>1. path[w] \in Targets /\ pc \in [Jobs -> Labels]
  BY DEF OpenSidecar, FilesInv, JobInv, Types
<1>2. OpenTruncated(w, SidecarOf(path[w]), MetaOf(w))
  BY <1>1 DEF OpenSidecar, Goto
<1>3. SidecarOf(path[w]) \in Names /\ MetaOf(w) \in Inodes
  BY <1>1, SidecarName, NamesApart, InodesApart
<1>4. PICK j \in Inodes :
          /\ j = IF link[SidecarOf(path[w])] = NoInode THEN MetaOf(w)
                 ELSE link[SidecarOf(path[w])]
          /\ Create(w, SidecarOf(path[w]), j)
  BY <1>2, <1>3 DEF OpenTruncated, FilesInv, DiskTypes
<1> QED
  BY <1>3, <1>4, CreateKeeps

LEMMA WhoOpens ==
    ASSUME FilesInv, Counted, NEW w \in Jobs, Step(w) \/ Crash(w), NEW m \in Sidecars
    PROVE  \/ link'[m] = link[m]
           \/ /\ OpenSidecar(w) /\ pc'[w] = "writeSidecar" /\ m = SidecarOf(path[w])
              /\ link[m] = NoInode /\ link'[m] = MetaOf(w)
<1>f. Frame(w) /\ m \in Names /\ m \notin Targets /\ JobInv(w) /\ pc \in [Jobs -> Labels]
  BY StepFrame, NamesApart DEF FilesInv, Types
<1>1. CASE m \notin Touched(w)
  BY <1>1, <1>f DEF Frame, LinkFrame
<1>2. CASE m \in Touched(w)
  <2>1. pc[w] = "rename" => path[w] \in Targets \/ kind[w] \in {"copy", "copyLink"}
    BY <1>f DEF JobInv, Saver
  <2>2. pc[w] = "sidecar" /\ m = SidecarOf(path[w])
    BY <1>2, <1>f, <2>1, NamesApart DEF Touched
  <2>3. OpenSidecar(w) \/ Crash(w)
    BY <2>2 DEF Step, CreateTemp, Write, Close, Rename, Undo, Use, RemoveTemp, WriteSidecar,
       OpenCopy, CopyChunk, Chmod, RenameCopy, RemoveForLink, Symlink
  <2>4. CASE UNCHANGED link
    BY <2>4
  <2>5. CASE OpenSidecar(w) /\ Goto(w, "writeSidecar")
    <3>1. pc'[w] = "writeSidecar"
      BY <1>f, <2>5 DEF Goto
    <3> QED
      BY <2>2, <2>5, <3>1, OpensOne
  <2> QED
    BY <2>3, <2>4, <2>5 DEF OpenSidecar, Crash, disk
<1> QED
  BY <1>1, <1>2

\* Only a sidecar's writer changes one.
LEMMA WhoTells ==
    ASSUME FilesInv, Counted, NEW w \in Jobs, Step(w) \/ Crash(w), NEW v \in Jobs,
           data'[MetaOf(v)] # data[MetaOf(v)]
    PROVE  /\ fd'[w] = MetaOf(v)
           /\ WriteSidecar(w) \/ (OpenSidecar(w) /\ pc'[w] = "writeSidecar")
<1>f. Frame(w) /\ JobInv(w) /\ pc \in [Jobs -> Labels]
  BY StepFrame DEF FilesInv, Types
<1>i. MetaOf(v) \in Inodes /\ \A u \in Jobs : FileOf(u) # MetaOf(v)
  BY InodesApart
<1>1. fd'[w] = MetaOf(v)
  BY <1>f, <1>i DEF Frame, DataFrame
<1>2. ~Write(w) /\ ~CopyChunk(w)
  BY <1>1, <1>f, <1>i DEF Write, CopyChunk, JobInv
<1>3. ~CreateTemp(w)
  <2>1. CreateTemp(w) => UNCHANGED disk \/ Create(w, Temp(w), FileOf(w))
    BY DEF CreateTemp
  <2> QED
    BY <1>1, <1>i, <2>1, FrameOfCreate DEF disk
<1>4. ~OpenCopy(w)
  <2>1. OpenCopy(w) => \/ UNCHANGED disk
                       \/ \E u \in Jobs : Create(w, CopyTemp, FileOf(u))
    BY NamesApart DEF OpenCopy, OpenTruncated, CopyTo, FilesInv, LinkInv
  <2> QED
    BY <1>1, <1>i, <2>1, FrameOfCreate DEF disk
<1>5. ~Symlink(w)
  <2>1. Symlink(w) => UNCHANGED disk \/ data' = [data EXCEPT ![FileOf(w)] = Whole(FileOf(w))]
    BY DEF Symlink
  <2>2. FileOf(w) # MetaOf(v)
    BY <1>i
  <2> QED
    BY <1>i, <2>1, <2>2 DEF disk, FilesInv, DiskTypes
<1>6. WriteSidecar(w) \/ OpenSidecar(w)
  BY <1>2, <1>3, <1>4, <1>5 DEF Step, Crash, Close, Rename, Undo, Use, RemoveTemp, Chmod,
     RenameCopy, RemoveForLink, disk
<1>7. OpenSidecar(w) => pc'[w] = "writeSidecar"
  BY <1>f DEF OpenSidecar, Goto, disk
<1> QED
  BY <1>1, <1>6, <1>7

\* The steps that reach a sidecar, and the only one that leaves it.
LEMMA WhoReaches ==
    ASSUME FilesInv, NEW w \in Jobs, Step(w) \/ Crash(w)
    PROVE  /\ pc'[w] = "writeSidecar" => OpenSidecar(w)
           /\ pc[w] \in {"writeSidecar", "ok", "crashed"} =>
                pc[w] = "writeSidecar" /\ pc'[w] \in {"ok", "crashed"} /\ path' = path
<1>t. pc \in [Jobs -> Labels] /\ JobInv(w)
  BY DEF FilesInv, Types
<1> HIDE DEF JobInv
<1>1. ASSUME WriteSidecar(w) \/ Crash(w)
      PROVE  pc'[w] \in {"ok", "crashed"} /\ path' = path /\ pc[w] \notin Ended
  BY <1>1, <1>t DEF WriteSidecar, Crash, Goto, Ended
<1>2. ASSUME CreateTemp(w) \/ Write(w) \/ Close(w) \/ Rename(w)
      PROVE  pc'[w] # "writeSidecar" /\ pc[w] \notin {"writeSidecar", "ok", "crashed"}
  BY <1>2, <1>t DEF CreateTemp, Write, Close, Rename, Goto
<1>3. ASSUME Undo(w) \/ Use(w) \/ RemoveTemp(w) \/ OpenCopy(w)
      PROVE  pc'[w] # "writeSidecar" /\ pc[w] \notin {"writeSidecar", "ok", "crashed"}
  BY <1>3, <1>t DEF Undo, Use, RemoveTemp, OpenCopy, Goto
<1>4. ASSUME CopyChunk(w) \/ Chmod(w) \/ RenameCopy(w) \/ RemoveForLink(w) \/ Symlink(w)
      PROVE  pc'[w] # "writeSidecar" /\ pc[w] \notin {"writeSidecar", "ok", "crashed"}
  BY <1>4, <1>t DEF CopyChunk, Chmod, RenameCopy, RemoveForLink, Symlink, Goto
<1>5. OpenSidecar(w) => pc[w] = "sidecar"
  BY DEF OpenSidecar
<1> QED
  BY <1>1, <1>2, <1>3, <1>4, <1>5 DEF Step, Ended

LEMMA SidecarLinksKeep ==
    ASSUME FilesInv, Counted, SidecarLinks, NEW w \in Jobs, Step(w) \/ Crash(w)
    PROVE  SidecarLinks'
<1>f. /\ kind' = kind /\ pc'[w] # "begin"
      /\ \A v \in Jobs \ {w} : pc'[v] = pc[v] /\ path'[v] = path[v] /\ fd'[v] = fd[v]
  BY StepFrame DEF Frame, ProcFrame
<1>o. OpenSidecar(w) => Saver(w) /\ path[w] \in Targets /\ path' = path
  BY DEF OpenSidecar, FilesInv, JobInv
<1>1. ASSUME NEW v \in Jobs, NEW m \in Sidecars, link'[m] = MetaOf(v)
      PROVE  /\ Saver(v)' /\ pc'[v] \in {"writeSidecar", "ok", "crashed"}
             /\ path'[v] \in Targets /\ SidecarOf(path'[v]) = m
  <2>1. CASE link'[m] = link[m]
    <3>1. /\ Saver(v) /\ pc[v] \in {"writeSidecar", "ok", "crashed"}
          /\ path[v] \in Targets /\ SidecarOf(path[v]) = m
      BY <1>1, <2>1 DEF SidecarLinks
    <3>2. v = w => pc'[w] \in {"ok", "crashed"} /\ path' = path
      BY <3>1, WhoReaches
    <3> QED
      BY <1>f, <3>1, <3>2 DEF Saver
  <2>2. CASE OpenSidecar(w) /\ pc'[w] = "writeSidecar" /\ m = SidecarOf(path[w])
             /\ link'[m] = MetaOf(w)
    <3>1. v = w
      BY <1>1, <2>2 DEF MetaOf
    <3> QED
      BY <1>f, <1>o, <2>2, <3>1 DEF Saver
  <2> QED
    BY <2>1, <2>2, WhoOpens
<1>2. ASSUME NEW v \in Jobs, pc'[v] = "writeSidecar"
      PROVE  fd'[v] # NoInode /\ link'[SidecarOf(path'[v])] = fd'[v]
  <2>1. CASE v = w
    <3>1. OpenSidecar(w)
      BY <1>2, <2>1, WhoReaches
    <3>2. PICK j \in Inodes : fd'[w] = j /\ link'[SidecarOf(path[w])] = j
      BY <1>2, <2>1, <3>1, OpensOne
    <3> QED
      BY <1>o, <2>1, <3>1, <3>2, InodesApart
  <2>2. CASE v # w
    <3>1. pc[v] = "writeSidecar" /\ path'[v] = path[v] /\ fd'[v] = fd[v]
      BY <1>f, <1>2, <2>2
    <3>2. fd[v] # NoInode /\ link[SidecarOf(path[v])] = fd[v] /\ path[v] \in Targets
      BY <3>1 DEF SidecarLinks, FilesInv, JobInv
    <3>3. link'[SidecarOf(path[v])] = link[SidecarOf(path[v])]
      BY <3>2, SidecarName, WhoOpens
    <3> QED
      BY <3>1, <3>2, <3>3
  <2> QED
    BY <2>1, <2>2
<1>3. ASSUME NEW v \in Jobs, pc'[v] = "begin" PROVE path'[v] = Destination
  BY <1>3, <1>f DEF SidecarLinks
<1> QED
  BY <1>1, <1>2, <1>3 DEF SidecarLinks

\* What another process does to a sidecar that is nobody else's.
LEMMA OthersKeepTold ==
    ASSUME FilesInv, Counted, SidecarInv, NEW w \in Jobs, Step(w) \/ Crash(w),
           Untroubled' => Untroubled, NEW v \in Jobs, v # w
    PROVE  Told(v)'
<1>f. kind' = kind /\ pc'[v] = pc[v] /\ path'[v] = path[v]
      /\ \A u \in Jobs \ {w} : path'[u] = path[u]
  BY StepFrame DEF Frame, ProcFrame
<1>1. Saver(v)' /\ Untroubled' => pc'[v] \notin {"undo", "failed", "crashed"}
  BY <1>f DEF SidecarInv, Told, Saver
<1>2. ASSUME Saver(v), Untroubled, Alone(v)', pc[v] \in {"writeSidecar", "ok"}
      PROVE  link'[SidecarOf(path[v])] = MetaOf(v) /\ link[SidecarOf(path[v])] = MetaOf(v)
             /\ data'[MetaOf(v)] = data[MetaOf(v)] /\ Alone(v)
  <2>1. path[v] \in Targets /\ SidecarOf(path[v]) \in Sidecars
    BY <1>2, SidecarName DEF FilesInv, JobInv
  <2>2. path'[w] # path[v]
    BY <1>2, <1>f DEF Alone
  <2>3. path'[w] = path[w] \/ (CreateTemp(w) /\ path[w] = Destination)
    <3>1. CreateTemp(w) \/ path' = path
      BY DEF Step, Crash, Write, Close, Rename, Undo, Use, RemoveTemp, OpenSidecar,
         WriteSidecar, OpenCopy, CopyChunk, Chmod, RenameCopy, RemoveForLink, Symlink
    <3>2. CreateTemp(w) => path[w] = Destination
      BY DEF CreateTemp, SidecarInv, SidecarLinks
    <3> QED
      BY <3>1, <3>2
  <2>4. Alone(v)
    BY <1>2, <1>f, <2>1, <2>2, <2>3, NamesApart DEF Alone
  <2>5. link[SidecarOf(path[v])] = MetaOf(v) /\ MetaOf(v) # NoInode
    BY <1>2, <2>4, InodesApart DEF SidecarInv, Told
  <2>6. link'[SidecarOf(path[v])] = MetaOf(v)
    BY <2>1, <2>5, WhoOpens
  <2>7. ASSUME data'[MetaOf(v)] # data[MetaOf(v)] PROVE FALSE
    <3>1. fd'[w] = MetaOf(v) /\ (WriteSidecar(w) \/ (OpenSidecar(w) /\ pc'[w] = "writeSidecar"))
      BY <2>7, WhoTells
    <3>2. path' = path /\ path[w] \in Targets
      BY <3>1 DEF WriteSidecar, OpenSidecar, FilesInv, JobInv
    <3>3. link[SidecarOf(path[w])] = MetaOf(v)
      <4>1. CASE WriteSidecar(w)
        BY <3>1, <4>1 DEF WriteSidecar, SidecarInv, SidecarLinks
      <4>2. CASE OpenSidecar(w) /\ pc'[w] = "writeSidecar"
        <5>1. MetaOf(v) # MetaOf(w)
          BY DEF MetaOf
        <5> QED
          BY <3>1, <4>2, <5>1, OpensOne
      <4> QED
        BY <3>1, <4>1, <4>2
    <3>4. SidecarOf(path[v]) = SidecarOf(path[w])
      BY <3>2, <3>3, SidecarName DEF SidecarInv, SidecarLinks
    <3>5. path[v] = path[w]
      BY <2>1, <3>2, <3>4, SidecarNamesApart
    <3> QED
      BY <2>2, <3>2, <3>5
  <2> QED
    BY <2>4, <2>5, <2>6, <2>7
<1>3. Saver(v)' /\ Untroubled' => Saver(v) /\ Untroubled
  BY <1>f DEF Saver
<1>4. MetaOf(v)' = MetaOf(v) /\ SidecarOf(path[v])' = SidecarOf(path[v])
      /\ Whole(MetaOf(v))' = Whole(MetaOf(v))
  BY <1>f DEF MetaOf, SidecarOf, Whole
<1>5. ASSUME Saver(v), Untroubled, Alone(v)', pc[v] = "writeSidecar"
      PROVE  data'[MetaOf(v)] = <<>>
  BY <1>2, <1>5 DEF SidecarInv, Told
<1>6. ASSUME Saver(v), Untroubled, Alone(v)', pc[v] = "ok"
      PROVE  data'[MetaOf(v)] = Whole(MetaOf(v))
  BY <1>2, <1>6 DEF SidecarInv, Told
<1> QED
  BY <1>f, <1>1, <1>2, <1>3, <1>5, <1>6 DEF Told

LEMMA OwnKeepsTold ==
    ASSUME FilesInv, Counted, SidecarInv, NEW w \in Jobs, Step(w) \/ Crash(w),
           Untroubled' => Untroubled /\ ~IOErr /\ ~Trouble("crashes")
    PROVE  Told(w)'
<1>f. kind' = kind /\ \A u \in Jobs \ {w} : path'[u] = path[u]
  BY StepFrame DEF Frame, ProcFrame
<1>t. pc \in [Jobs -> Labels] /\ JobInv(w)
  BY DEF FilesInv, Types
<1> HIDE DEF JobInv
<1> SUFFICES ASSUME Saver(w), Untroubled'
             PROVE  /\ pc'[w] \notin {"undo", "failed", "crashed"}
                    /\ Alone(w)' =>
                        /\ pc'[w] \in {"writeSidecar", "ok"} => link'[SidecarOf(path'[w])] = MetaOf(w)
                        /\ pc'[w] = "writeSidecar" => data'[MetaOf(w)] = <<>>
                        /\ pc'[w] = "ok" => data'[MetaOf(w)] = Whole(MetaOf(w))
  BY <1>f DEF Told, Saver
<1>u. Untroubled /\ ~IOErr /\ ~Trouble("crashes") /\ Told(w) /\ pc[w] # "undo"
  BY DEF SidecarInv, Told
<1>1. CASE CreateTemp(w) \/ Write(w) \/ Close(w) \/ Rename(w)
  <2>1. pc'[w] \in {"write", "close", "use", "rename", "sidecar"}
    BY <1>1, <1>u, <1>t DEF CreateTemp, Write, Close, Rename, Goto
  <2> QED
    BY <2>1
<1>2. CASE OpenSidecar(w)
  <2>1. pc'[w] = "writeSidecar" /\ path' = path /\ path[w] \in Targets /\ pc[w] = "sidecar"
    BY <1>2, <1>u, <1>t DEF OpenSidecar, Goto, JobInv
  <2>2. PICK j \in Inodes :
            /\ data'[j] = <<>> /\ link'[SidecarOf(path[w])] = j
            /\ j = IF link[SidecarOf(path[w])] = NoInode THEN MetaOf(w)
                   ELSE link[SidecarOf(path[w])]
    BY <1>2, <2>1, OpensOne
  <2>3. ASSUME Alone(w), link[SidecarOf(path[w])] # NoInode PROVE FALSE
    <3>1. PICK u \in Jobs : link[SidecarOf(path[w])] = MetaOf(u)
      BY <2>1, <2>3, SidecarName DEF FilesInv, LinkInv
    <3>2. pc[u] # "sidecar" /\ path[u] \in Targets /\ SidecarOf(path[u]) = SidecarOf(path[w])
      BY <2>1, <3>1, SidecarName DEF SidecarInv, SidecarLinks
    <3>3. path[u] = path[w] /\ u # w
      BY <2>1, <3>2, SidecarNamesApart
    <3> QED
      BY <2>3, <3>3 DEF Alone
  <2>4. Alone(w)' => Alone(w)
    BY <2>1 DEF Alone
  <2> QED
    BY <2>1, <2>2, <2>3, <2>4
<1>3. CASE WriteSidecar(w)
  <2>1. pc[w] = "writeSidecar" /\ pc'[w] = "ok" /\ path' = path /\ link' = link
        /\ WriteChunks(w, MetaOf(w), 1, Size[w])
    BY <1>3, <1>u, <1>t DEF WriteSidecar, Goto
  <2>2. Alone(w)' => Alone(w)
    BY <2>1 DEF Alone
  <2>3. ASSUME Alone(w)
        PROVE  link[SidecarOf(path[w])] = MetaOf(w) /\ data'[MetaOf(w)] = Whole(MetaOf(w))
    <3>1. link[SidecarOf(path[w])] = MetaOf(w) /\ data[MetaOf(w)] = <<>>
      BY <1>u, <2>1, <2>3 DEF Told
    <3>2. fd[w] = MetaOf(w)
      BY <2>1, <3>1 DEF SidecarInv, SidecarLinks
    <3>3. MetaOf(w) \in Inodes
      BY InodesApart
    <3>4. data' = [data EXCEPT ![MetaOf(w)] = Overlay(data[MetaOf(w)], MetaOf(w), 1, Size[w])]
      BY <2>1, <3>2 DEF WriteChunks
    <3>5. data'[MetaOf(w)] = Overlay(<<>>, MetaOf(w), 1, Size[w])
      BY <3>1, <3>3, <3>4, DataKeeps
    <3> QED
      BY <3>1, <3>5, MetaOverlay
  <2> QED
    BY <2>1, <2>2, <2>3
<1>4. ~Undo(w) /\ ~Crash(w) /\ ~Use(w) /\ ~RemoveTemp(w) /\ ~OpenCopy(w) /\ ~CopyChunk(w)
      /\ ~Chmod(w) /\ ~RenameCopy(w) /\ ~RemoveForLink(w) /\ ~Symlink(w)
  BY <1>u, <1>t DEF JobInv, Saver, Applying, Undo, Crash, Use, RemoveTemp, CopyChunk, Chmod,
     OpenCopy, RenameCopy, RemoveForLink, Symlink
<1> QED
  BY <1>1, <1>2, <1>3, <1>4 DEF Step

LEMMA SidecarKeeps ==
    ASSUME FilesInv, Counted, SidecarInv, [Next]_vars
    PROVE  SidecarInv'
<1>1. ASSUME NEW w \in Jobs, Step(w) \/ Crash(w) PROVE SidecarInv'
  <2>1. IOOK \/ IOErr \/ Trouble("crashes")
    BY <1>1 DEF Step, Crash, CreateTemp, Write, Close, Rename, Undo, Use, RemoveTemp,
       OpenSidecar, WriteSidecar, OpenCopy, CopyChunk, Chmod, RenameCopy, RemoveForLink,
       Symlink
  <2>2. trouble \in [faults : Nat, crashes : Nat]
    BY DEF Counted
  <2>3. (IOErr \/ Trouble("crashes")) => ~Untroubled'
    BY <2>2 DEF IOErr, Trouble, Untroubled
  <2>4. IOOK => (Untroubled' => Untroubled)
    BY DEF IOOK, Untroubled
  <2>5. Untroubled' => Untroubled /\ ~IOErr /\ ~Trouble("crashes")
    BY <2>1, <2>3, <2>4
  <2>6. SidecarLinks'
    BY <1>1, SidecarLinksKeep DEF SidecarInv
  <2>7. ASSUME NEW v \in Jobs PROVE Told(v)'
    BY <1>1, <2>5, OthersKeepTold, OwnKeepsTold
  <2> QED
    BY <2>6, <2>7 DEF SidecarInv
<1>2. CASE UNCHANGED <<proc, disk, trouble>>
  BY <1>2 DEF SidecarInv, SidecarLinks, Told, Alone, Untroubled, Saver, proc, disk
<1> QED
  BY <1>1, <1>2 DEF Next, Tick, AllEnded, vars

\* When nothing went wrong, the sidecar beside a patch tells of that patch, unless two
\* saves went to one path.
THEOREM SidecarsMatch == Spec => []SidecarMatches
<1>1. Init => Counted /\ SidecarInv
  <2> SUFFICES ASSUME Init PROVE Counted /\ SidecarInv
    OBVIOUS
  <2>1. Counted
    BY FilesAssumption DEF Init, Counted
  <2>2. pc = [w \in Jobs |-> "begin"] /\ path = [w \in Jobs |-> Destination]
        /\ \A m \in Sidecars : link[m] = NoInode
    BY NamesApart DEF Init
  <2>3. SidecarLinks
    BY <2>2, InodesApart DEF SidecarLinks
  <2> QED
    BY <2>1, <2>2, <2>3 DEF SidecarInv, Told
<1>2. FilesInv /\ Counted /\ SidecarInv /\ [Next]_vars => (Counted /\ SidecarInv)'
  BY CountedKeeps, SidecarKeeps
<1>3. FilesInv /\ SidecarInv => SidecarMatches
  <2> SUFFICES ASSUME FilesInv, SidecarInv, Untroubled, NEW w \in Jobs, pc[w] \in Ended,
                      Saver(w), Alone(w)
               PROVE  Holds(<<"meta", path[w][2]>>) = Whole(MetaOf(w))
    BY DEF SidecarMatches, Untroubled, Saver, Alone
  <2>1. pc[w] = "ok"
    BY DEF SidecarInv, Told, Ended
  <2>2. link[SidecarOf(path[w])] = MetaOf(w) /\ data[MetaOf(w)] = Whole(MetaOf(w))
    BY <2>1 DEF SidecarInv, Told
  <2> QED
    BY <2>2, InodesApart DEF SidecarOf, Holds
<1> QED
  BY <1>1, <1>2, <1>3, FilesHolds, PTL DEF Spec

-----------------------------------------------------------------------------
(* What the destination of a copy holds.                                   *)

Chunks(w, n) == [k \in 1 .. n |-> Whole(FileOf(w))[k]]

CopyNames ==
    \A w \in Jobs : pc[w] = "begin" => off[w] = 0 /\ link[CopyTemp] # FileOf(w)

OneCopy == \A v, w \in Jobs : Copying(v) /\ Copying(w) => v = w

\* Nobody has the inode of the destination open any more.
DestinationInv ==
    link[Destination] # NoInode =>
        /\ link[Destination] # link[CopyTemp]
        /\ \E v \in Jobs : /\ link[Destination] = FileOf(v) /\ pc[v] # "begin"
                           /\ kind[v] \in {"copy", "copyLink"}
        /\ \E v \in Jobs : data[link[Destination]] = Whole(FileOf(v))

\* The copy under way has its temporary file to itself.
CopyOf(w) ==
    /\ pc[w] = "copyChunk" =>
        /\ fd[w] = link[CopyTemp] /\ fd[w] # NoInode
        /\ off[w] <= Size[w] /\ data[fd[w]] = Chunks(w, off[w])
    /\ kind[w] = "copy" /\ pc[w] \in {"chmod", "rename"} =>
        link[CopyTemp] # NoInode /\ data[link[CopyTemp]] = Whole(FileOf(w))

CopyInv ==
    /\ CopyNames
    /\ ~overlap => OneCopy /\ DestinationInv /\ \A w \in Jobs : CopyOf(w)

LEMMA ChunkByChunk ==
    ASSUME NEW w \in Jobs
    PROVE  /\ Chunks(w, 0) = <<>> /\ Chunks(w, Size[w]) = Whole(FileOf(w))
           /\ \A n \in Nat : n < Size[w] =>
                Overlay(Chunks(w, n), FileOf(w), n + 1, n + 1) = Chunks(w, n + 1)
<1>1. Size[w] \in Nat /\ Size[w] > 0
  BY FilesAssumption
<1>2. FileOf(w)[1] = w
  BY DEF FileOf
<1>3. Chunks(w, 0) = <<>>
  BY DEF Chunks
<1>4. Chunks(w, Size[w]) = Whole(FileOf(w))
  BY <1>1, <1>2 DEF Chunks, Whole
<1>5. ASSUME NEW n \in Nat, n < Size[w]
      PROVE  Overlay(Chunks(w, n), FileOf(w), n + 1, n + 1) = Chunks(w, n + 1)
  <2>1. Len(Chunks(w, n)) = n
    BY DEF Chunks
  <2>2. Overlay(Chunks(w, n), FileOf(w), n + 1, n + 1)
          = [k \in 1 .. n + 1 |->
                IF k \in n + 1 .. n + 1 THEN Whole(FileOf(w))[k]
                ELSE IF k <= n THEN Chunks(w, n)[k] ELSE Hole]
    BY <2>1 DEF Overlay
  <2>3. ASSUME NEW k \in 1 .. n + 1
        PROVE  (IF k \in n + 1 .. n + 1 THEN Whole(FileOf(w))[k]
                ELSE IF k <= n THEN Chunks(w, n)[k] ELSE Hole) = Whole(FileOf(w))[k]
    BY DEF Chunks
  <2> QED
    BY <2>2, <2>3 DEF Chunks
<1> QED
  BY <1>3, <1>4, <1>5

\* Who links the temporary name.
LEMMA WhoLinksTemp ==
    ASSUME FilesInv, Counted, NEW w \in Jobs, Step(w) \/ Crash(w)
    PROVE  \/ link'[CopyTemp] = link[CopyTemp]
           \/ OpenCopy(w) /\ pc'[w] = "copyChunk"
           \/ Copying(w) /\ link'[CopyTemp] = NoInode
<1>f. JobInv(w) /\ pc \in [Jobs -> Labels] /\ kind \in [Jobs -> Kinds] /\ LinkFrame(w)
  BY StepFrame DEF FilesInv, Types, Frame
<1>1. CASE kind[w] # "copy"
  <2>1. pc[w] = "rename" /\ kind[w] # "copyLink" => path[w] \in Targets
    BY <1>f, <1>1 DEF JobInv, Saver
  <2>2. pc[w] = "sidecar" => SidecarOf(path[w]) \in Sidecars
    BY <1>f, SidecarName DEF JobInv, Saver
  <2>3. CopyTemp \notin Touched(w)
    BY <1>1, <2>1, <2>2, NamesApart DEF Touched
  <2> QED
    BY <1>f, <2>3, NamesApart DEF LinkFrame
<1>2. CASE kind[w] = "copy"
  <2>1. OpenCopy(w) \/ CopyChunk(w) \/ Chmod(w) \/ RenameCopy(w) \/ Undo(w) \/ Crash(w)
    BY <1>f, <1>2 DEF JobInv, Saver, Applying, Step, CreateTemp, Write, Close, Rename, Use,
       RemoveTemp, OpenSidecar, WriteSidecar, RemoveForLink, Symlink
  <2>2. OpenCopy(w) => UNCHANGED link \/ pc'[w] = "copyChunk"
    BY <1>f DEF OpenCopy, Goto, disk
  <2>3. RenameCopy(w) \/ Undo(w) =>
          Copying(w) /\ (UNCHANGED link \/ link'[CopyTemp] = NoInode)
    BY <1>2, NamesApart DEF RenameCopy, Undo, Unlink, RenameTo, CopyTo, Copying, FilesInv, DiskTypes
  <2>4. CopyChunk(w) \/ Chmod(w) \/ Crash(w) => UNCHANGED link
    BY DEF CopyChunk, Chmod, Crash, disk
  <2> QED
    BY <2>1, <2>2, <2>3, <2>4
<1> QED
  BY <1>1, <1>2

\* Who links the destination.
LEMMA WhoLinksDestination ==
    ASSUME FilesInv, Counted, NEW w \in Jobs, Step(w) \/ Crash(w)
    PROVE  \/ link'[Destination] = link[Destination]
           \/ link'[Destination] = NoInode
           \/ /\ kind[w] = "copy" /\ pc[w] = "rename" /\ UNCHANGED data
              /\ link'[Destination] = link[CopyTemp] /\ link'[CopyTemp] = NoInode
           \/ /\ kind[w] = "copyLink" /\ link'[Destination] = FileOf(w)
              /\ data'[FileOf(w)] = Whole(FileOf(w)) /\ link'[CopyTemp] = link[CopyTemp]
<1>f. JobInv(w) /\ pc \in [Jobs -> Labels] /\ kind \in [Jobs -> Kinds] /\ LinkFrame(w)
  BY StepFrame DEF FilesInv, Types, Frame
<1>1. CASE kind[w] \notin {"copy", "copyLink"}
  <2>1. pc[w] = "rename" => path[w] \in Targets
    BY <1>f, <1>1 DEF JobInv, Saver
  <2>2. pc[w] = "sidecar" => SidecarOf(path[w]) \in Sidecars
    BY <1>f, SidecarName DEF JobInv, Saver
  <2>3. Destination \notin Touched(w)
    BY <1>1, <2>1, <2>2, NamesApart DEF Touched
  <2> QED
    BY <1>f, <2>3, NamesApart DEF LinkFrame
<1>2. CASE kind[w] = "copy"
  <2>1. OpenCopy(w) \/ CopyChunk(w) \/ Chmod(w) \/ RenameCopy(w) \/ Undo(w) \/ Crash(w)
    BY <1>f, <1>2 DEF JobInv, Saver, Applying, Step, CreateTemp, Write, Close, Rename, Use,
       RemoveTemp, OpenSidecar, WriteSidecar, RemoveForLink, Symlink
  <2>2. ASSUME NEW j, Create(w, CopyTemp, j) PROVE link'[Destination] = link[Destination]
    BY <2>2, FrameOfCreate, NamesApart
  <2>3. OpenCopy(w) => link'[Destination] = link[Destination]
    BY <2>2 DEF OpenCopy, OpenTruncated, CopyTo, disk
  <2>4. Undo(w) => link'[Destination] = link[Destination]
    BY <1>2, NamesApart DEF Undo, Unlink, FilesInv, DiskTypes
  <2>5. RenameCopy(w) =>
          \/ UNCHANGED link
          \/ /\ pc[w] = "rename" /\ UNCHANGED data
             /\ link'[Destination] = link[CopyTemp] /\ link'[CopyTemp] = NoInode
    BY NamesApart DEF RenameCopy, RenameTo, CopyTo, FilesInv, DiskTypes
  <2>6. CopyChunk(w) \/ Chmod(w) \/ Crash(w) => UNCHANGED link
    BY DEF CopyChunk, Chmod, Crash, disk
  <2> QED
    BY <1>2, <2>1, <2>3, <2>4, <2>5, <2>6
<1>3. CASE kind[w] = "copyLink"
  <2>1. RemoveForLink(w) \/ Symlink(w) \/ Crash(w)
    BY <1>f, <1>3 DEF JobInv, Saver, Applying, Step, CreateTemp, Write, Close, Rename, Use, Undo,
       RemoveTemp, OpenSidecar, WriteSidecar, OpenCopy, CopyChunk, Chmod, RenameCopy
  <2>2. RemoveForLink(w) => UNCHANGED link \/ link'[Destination] = NoInode
    BY NamesApart DEF RemoveForLink, Unlink, FilesInv, DiskTypes
  <2>3. Symlink(w) =>
          \/ UNCHANGED link
          \/ /\ link'[Destination] = FileOf(w) /\ data'[FileOf(w)] = Whole(FileOf(w))
             /\ link'[CopyTemp] = link[CopyTemp]
    BY NamesApart, InodesApart DEF Symlink, FilesInv, DiskTypes, disk
  <2>4. Crash(w) => UNCHANGED link
    BY DEF Crash, disk
  <2> QED
    BY <1>3, <2>1, <2>2, <2>3, <2>4
<1> QED
  BY <1>1, <1>2, <1>3

\* Who writes the file of a copy: a copy that has it open, or the maker of a link.
LEMMA WhoCopies ==
    ASSUME FilesInv, Counted, NEW w \in Jobs, Step(w) \/ Crash(w), NEW v \in Jobs,
           kind[v] \in {"copy", "copyLink"}, data'[FileOf(v)] # data[FileOf(v)]
    PROVE  \/ /\ fd'[w] = FileOf(v)
              /\ CopyChunk(w) \/ (OpenCopy(w) /\ pc'[w] = "copyChunk")
           \/ v = w /\ kind[v] = "copyLink" /\ link[Destination] = NoInode
<1>f. JobInv(w) /\ pc \in [Jobs -> Labels] /\ kind \in [Jobs -> Kinds] /\ DataFrame(w)
  BY StepFrame DEF FilesInv, Types, Frame
<1>i. FileOf(v) \in Inodes /\ (\A u \in Jobs : FileOf(v) # MetaOf(u))
      /\ \A u \in Jobs : FileOf(v) = FileOf(u) => u = v
  BY InodesApart
<1>1. CASE kind[w] \notin {"copy", "copyLink"}
  <2>1. fd'[w] = FileOf(v) /\ FileOf(w) # FileOf(v)
    BY <1>f, <1>i, <1>1 DEF DataFrame
  <2>2. ~Write(w)
    BY <1>f, <2>1 DEF Write, JobInv
  <2>3. ~WriteSidecar(w)
    BY <1>f, <1>i, <2>1 DEF WriteSidecar, JobInv
  <2>4. ~CreateTemp(w)
    <3>1. CreateTemp(w) => UNCHANGED disk \/ Create(w, Temp(w), FileOf(w))
      BY DEF CreateTemp
    <3> QED
      BY <2>1, <3>1, FrameOfCreate DEF disk
  <2>5. ~OpenSidecar(w)
    <3>1. OpenSidecar(w) => pc'[w] = "writeSidecar" \/ UNCHANGED disk
      BY <1>f DEF OpenSidecar, Goto
    <3>2. ASSUME OpenSidecar(w), pc'[w] = "writeSidecar" PROVE \E u \in Jobs : fd'[w] = MetaOf(u)
      <4>1. SidecarOf(path[w]) \in Sidecars
        BY <1>f, <3>2, SidecarName DEF OpenSidecar, JobInv
      <4> QED
        BY <3>2, <4>1, OpensOne DEF FilesInv, LinkInv
    <3> QED
      BY <1>i, <2>1, <3>1, <3>2 DEF disk
  <2>6. UNCHANGED data
    BY <1>1, <1>f, <2>2, <2>3, <2>4, <2>5 DEF Step, Crash, Close, Rename, Undo, Use, RemoveTemp,
       OpenCopy, CopyChunk, Chmod, RenameCopy, RemoveForLink, Symlink, disk, JobInv
  <2> QED
    BY <2>6
<1>2. CASE kind[w] = "copy"
  <2>1. fd'[w] = FileOf(v)
    BY <1>f, <1>i, <1>2 DEF DataFrame
  <2>2. OpenCopy(w) \/ CopyChunk(w) \/ Chmod(w) \/ RenameCopy(w) \/ Undo(w) \/ Crash(w)
    BY <1>f, <1>2 DEF JobInv, Saver, Applying, Step, CreateTemp, Write, Close, Rename, Use,
       RemoveTemp, OpenSidecar, WriteSidecar, RemoveForLink, Symlink
  <2>3. OpenCopy(w) \/ CopyChunk(w)
    BY <2>2 DEF Chmod, RenameCopy, Undo, Crash, disk
  <2>4. OpenCopy(w) => pc'[w] = "copyChunk"
    BY <1>f DEF OpenCopy, Goto, disk
  <2> QED
    BY <2>1, <2>3, <2>4
<1>3. CASE kind[w] = "copyLink"
  <2>1. RemoveForLink(w) \/ Symlink(w) \/ Crash(w)
    BY <1>f, <1>3 DEF JobInv, Saver, Applying, Step, CreateTemp, Write, Close, Rename, Use, Undo,
       RemoveTemp, OpenSidecar, WriteSidecar, OpenCopy, CopyChunk, Chmod, RenameCopy
  <2>2. Symlink(w)
    BY <2>1 DEF RemoveForLink, Crash, disk
  <2>3. link[Destination] = NoInode /\ data' = [data EXCEPT ![FileOf(w)] = Whole(FileOf(w))]
    BY <2>2 DEF Symlink, disk
  <2>4. FileOf(w) = FileOf(v)
    BY <1>i, <2>3 DEF FilesInv, DiskTypes
  <2> QED
    BY <1>i, <1>3, <2>3, <2>4
<1> QED
  BY <1>1, <1>2, <1>3

LEMMA CopyNamesKeep ==
    ASSUME FilesInv, Counted, CopyNames, NEW w \in Jobs, Step(w) \/ Crash(w)
    PROVE  CopyNames'
<1>f. pc'[w] # "begin" /\ \A v \in Jobs \ {w} : pc'[v] = pc[v] /\ off'[v] = off[v]
  BY StepFrame DEF Frame, ProcFrame
<1> SUFFICES ASSUME NEW v \in Jobs, v # w, pc[v] = "begin"
             PROVE  off[v] = 0 /\ link'[CopyTemp] # FileOf(v)
  BY <1>f DEF CopyNames
<1>1. off[v] = 0 /\ link[CopyTemp] # FileOf(v) /\ FileOf(v) # FileOf(w) /\ FileOf(v) # NoInode
  BY InodesApart DEF CopyNames
<1>2. CASE OpenCopy(w) /\ pc'[w] = "copyChunk"
  <2>1. OpenTruncated(w, CopyTemp, FileOf(w))
    BY <1>2 DEF OpenCopy, CopyTo, Goto, FilesInv, Types
  <2>2. link'[CopyTemp] = IF link[CopyTemp] = NoInode THEN FileOf(w) ELSE link[CopyTemp]
    BY <2>1, NamesApart DEF OpenTruncated, Create, FilesInv, DiskTypes
  <2> QED
    BY <1>1, <2>2
<1> QED
  BY <1>1, <1>2, WhoLinksTemp

\* Whoever opens the temporary file has it for itself.
LEMMA OpensCopy ==
    ASSUME FilesInv, NEW w \in Jobs, OpenCopy(w), pc'[w] = "copyChunk"
    PROVE  \E j \in Inodes :
              /\ j = IF link[CopyTemp] = NoInode THEN FileOf(w) ELSE link[CopyTemp]
              /\ link'[CopyTemp] = j /\ fd'[w] = j /\ data'[j] = <<>>
              /\ overlap' = (overlap \/ \E v \in Jobs \ {w} : Copying(v))
<1>1. /\ OpenTruncated(w, CopyTemp, FileOf(w))
      /\ overlap' = (overlap \/ \E v \in Jobs \ {w} : Copying(v))
  BY DEF OpenCopy, CopyTo, Goto, FilesInv, Types
<1>2. PICK j \in Inodes :
          /\ j = IF link[CopyTemp] = NoInode THEN FileOf(w) ELSE link[CopyTemp]
          /\ Create(w, CopyTemp, j)
  BY <1>1, NamesApart, InodesApart DEF OpenTruncated, FilesInv, DiskTypes
<1> QED
  BY <1>1, <1>2, NamesApart, CreateKeeps

LEMMA OverlapStays ==
    ASSUME FilesInv, NEW w \in Jobs, Step(w) \/ Crash(w), ~overlap'
    PROVE  ~overlap
<1>1. OpenCopy(w) \/ overlap' = overlap
  BY DEF Step, Crash, CreateTemp, Write, Close, Rename, Undo, Use, RemoveTemp, OpenSidecar,
     WriteSidecar, CopyChunk, Chmod, RenameCopy, RemoveForLink, Symlink, seen
<1>2. OpenCopy(w) => (overlap => overlap')
  BY DEF OpenCopy
<1> QED
  BY <1>1, <1>2

\* Which steps make a process one that copies.
LEMMA WhoStartsCopying ==
    ASSUME FilesInv, Counted, NEW w \in Jobs, Step(w) \/ Crash(w), Copying(w)', ~Copying(w)
    PROVE  OpenCopy(w) /\ pc'[w] = "copyChunk"
<1>f. JobInv(w) /\ pc \in [Jobs -> Labels] /\ kind' = kind
  BY StepFrame DEF FilesInv, Types, Frame, ProcFrame
<1>k. kind[w] = "copy"
  BY <1>f DEF Copying
<1>2. OpenCopy(w) \/ CopyChunk(w) \/ Chmod(w) \/ RenameCopy(w) \/ Undo(w) \/ Crash(w)
  BY <1>f, <1>k DEF JobInv, Saver, Applying, Step, CreateTemp, Write, Close, Rename, Use,
     RemoveTemp, OpenSidecar, WriteSidecar, RemoveForLink, Symlink
<1>3. ~CopyChunk(w) /\ ~Chmod(w) /\ ~RenameCopy(w) /\ ~Undo(w)
  BY <1>k DEF Copying, CopyChunk, Chmod, RenameCopy, Undo
<1>4. ~Crash(w)
  BY <1>f DEF Crash, Goto, Copying
<1>5. OpenCopy(w) => pc'[w] = "copyChunk"
  BY <1>f DEF OpenCopy, Goto, Copying
<1> QED
  BY <1>2, <1>3, <1>4, <1>5

LEMMA OneCopyKeeps ==
    ASSUME FilesInv, Counted, OneCopy, NEW w \in Jobs, Step(w) \/ Crash(w), ~overlap'
    PROVE  OneCopy'
<1>f. kind' = kind /\ \A v \in Jobs \ {w} : pc'[v] = pc[v]
  BY StepFrame DEF Frame, ProcFrame
<1>1. \A v \in Jobs \ {w} : Copying(v)' => Copying(v)
  BY <1>f DEF Copying
<1>2. ASSUME NEW v \in Jobs \ {w}, Copying(v), Copying(w)' PROVE FALSE
  <2>1. ~Copying(w)
    BY <1>2 DEF OneCopy
  <2> QED
    BY <1>2, <2>1, WhoStartsCopying, OpensCopy
<1> QED
  BY <1>1, <1>2 DEF OneCopy

LEMMA DestinationKeeps ==
    ASSUME FilesInv, Counted, CopyNames, DestinationInv, NEW w \in Jobs, CopyOf(w),
           Step(w) \/ Crash(w)
    PROVE  DestinationInv'
<1>f. kind' = kind /\ pc'[w] # "begin" /\ \A v \in Jobs \ {w} : pc'[v] = pc[v]
  BY StepFrame DEF Frame, ProcFrame
<1> SUFFICES ASSUME link'[Destination] # NoInode
             PROVE  /\ link'[Destination] # link'[CopyTemp]
                    /\ \E v \in Jobs : /\ link'[Destination] = FileOf(v) /\ pc'[v] # "begin"
                                       /\ kind[v] \in {"copy", "copyLink"}
                    /\ \E v \in Jobs : data'[link'[Destination]] = Whole(FileOf(v))
  BY <1>f DEF DestinationInv
<1>1. CASE link'[Destination] = link[Destination]
  <2>1. PICK v \in Jobs : /\ link[Destination] = FileOf(v) /\ pc[v] # "begin"
                          /\ kind[v] \in {"copy", "copyLink"}
    BY <1>1 DEF DestinationInv
  <2>2. PICK u \in Jobs : data[FileOf(v)] = Whole(FileOf(u))
    BY <1>1, <2>1 DEF DestinationInv
  <2>3. FileOf(v) # link[CopyTemp]
    BY <1>1, <2>1 DEF DestinationInv
  <2>4. ASSUME OpenCopy(w), pc'[w] = "copyChunk"
        PROVE  link'[CopyTemp] # FileOf(v) /\ fd'[w] # FileOf(v)
    <3>1. v # w
      BY <2>1, <2>4 DEF OpenCopy
    <3> QED
      BY <2>3, <2>4, <3>1, OpensCopy, InodesApart
  <2>5. link'[CopyTemp] # FileOf(v)
    BY <2>3, <2>4, WhoLinksTemp, InodesApart
  <2>6. CopyChunk(w) => fd'[w] # FileOf(v)
    BY <2>3 DEF CopyChunk, CopyOf
  <2>7. data'[FileOf(v)] = data[FileOf(v)]
    BY <1>1, <2>1, <2>4, <2>6, WhoCopies
  <2>8. pc'[v] # "begin"
    BY <1>f, <2>1
  <2> QED
    BY <1>1, <2>1, <2>2, <2>5, <2>7, <2>8
<1>2. CASE /\ kind[w] = "copy" /\ pc[w] = "rename" /\ UNCHANGED data
           /\ link'[Destination] = link[CopyTemp] /\ link'[CopyTemp] = NoInode
  <2>1. PICK v \in Jobs : kind[v] = "copy" /\ link[CopyTemp] = FileOf(v)
    BY <1>2 DEF FilesInv, LinkInv
  <2>2. pc'[v] # "begin"
    BY <1>f, <2>1 DEF CopyNames
  <2>3. data'[link'[Destination]] = Whole(FileOf(w))
    BY <1>2 DEF CopyOf
  <2> QED
    BY <1>2, <2>1, <2>2, <2>3
<1>3. CASE /\ kind[w] = "copyLink" /\ link'[Destination] = FileOf(w)
           /\ data'[FileOf(w)] = Whole(FileOf(w)) /\ link'[CopyTemp] = link[CopyTemp]
  <2>1. link[CopyTemp] # FileOf(w)
    BY <1>3, InodesApart DEF FilesInv, LinkInv
  <2>2. link'[Destination] # link'[CopyTemp]
    BY <1>3, <2>1
  <2>3. data'[link'[Destination]] = Whole(FileOf(w))
    BY <1>3
  <2> QED
    BY <1>f, <1>3, <2>2, <2>3
<1> QED
  BY <1>1, <1>2, <1>3, WhoLinksDestination

LEMMA OtherCopyKeeps ==
    ASSUME FilesInv, Counted, OneCopy, OneCopy', NEW w \in Jobs, Step(w) \/ Crash(w),
           NEW v \in Jobs, v # w, CopyOf(v)
    PROVE  CopyOf(v)'
<1>f. /\ kind' = kind /\ pc'[v] = pc[v] /\ fd'[v] = fd[v] /\ off'[v] = off[v] /\ JobInv(v)
      /\ kind[v] = "copy" /\ pc[v] \in {"copyChunk", "chmod", "rename"} => Copying(v) /\ Copying(v)'
  BY StepFrame DEF Frame, ProcFrame, FilesInv, Copying
<1>1. ASSUME Copying(v), Copying(v)', link[CopyTemp] # NoInode
      PROVE  link'[CopyTemp] = link[CopyTemp] /\ data'[link[CopyTemp]] = data[link[CopyTemp]]
  <2>1. ~Copying(w) /\ ~Copying(w)'
    BY <1>1 DEF OneCopy
  <2>2. ~(OpenCopy(w) /\ pc'[w] = "copyChunk")
    BY <2>1, StepFrame DEF Copying, OpenCopy, Frame, ProcFrame
  <2>3. ~CopyChunk(w)
    BY <2>1 DEF CopyChunk, Copying, FilesInv, JobInv
  <2>4. PICK u \in Jobs : kind[u] = "copy" /\ link[CopyTemp] = FileOf(u)
    BY <1>1 DEF FilesInv, LinkInv
  <2>5. data'[FileOf(u)] = data[FileOf(u)]
    BY <2>2, <2>3, <2>4, WhoCopies
  <2> QED
    BY <2>1, <2>2, <2>4, <2>5, WhoLinksTemp
<1>2. ASSUME pc[v] = "copyChunk"
      PROVE  /\ fd'[v] = link'[CopyTemp] /\ fd'[v] # NoInode
             /\ off'[v] <= Size[v] /\ data'[fd'[v]] = Chunks(v, off'[v])
  <2>1. fd[v] = link[CopyTemp] /\ fd[v] # NoInode /\ off[v] <= Size[v]
        /\ data[fd[v]] = Chunks(v, off[v])
    BY <1>2 DEF CopyOf
  <2>2. kind[v] = "copy"
    BY <1>f, <1>2 DEF JobInv
  <2>3. link'[CopyTemp] = link[CopyTemp] /\ data'[link[CopyTemp]] = data[link[CopyTemp]]
    BY <1>f, <1>1, <1>2, <2>1, <2>2
  <2> QED
    BY <1>f, <2>1, <2>3
<1>3. ASSUME kind[v] = "copy", pc[v] \in {"chmod", "rename"}
      PROVE  link'[CopyTemp] # NoInode /\ data'[link'[CopyTemp]] = Whole(FileOf(v))
  BY <1>f, <1>1, <1>3 DEF CopyOf
<1>4. Chunks(v, off[v])' = Chunks(v, off'[v]) /\ Whole(FileOf(v))' = Whole(FileOf(v))
  BY DEF Chunks, Whole, FileOf
<1> QED
  BY <1>f, <1>2, <1>3, <1>4 DEF CopyOf

LEMMA OwnCopyKeeps ==
    ASSUME FilesInv, Counted, CopyNames, NEW w \in Jobs, CopyOf(w), Step(w) \/ Crash(w)
    PROVE  CopyOf(w)'
<1>f. /\ kind' = kind /\ JobInv(w) /\ pc \in [Jobs -> Labels] /\ off \in [Jobs -> Nat]
      /\ Size[w] \in Nat /\ Size[w] > 0
  BY StepFrame, FilesAssumption DEF Frame, ProcFrame, FilesInv, Types, Counted
<1> HIDE DEF JobInv
<1> SUFFICES /\ pc'[w] = "copyChunk" =>
                  /\ fd'[w] = link'[CopyTemp] /\ fd'[w] # NoInode
                  /\ off'[w] <= Size[w] /\ data'[fd'[w]] = Chunks(w, off'[w])
             /\ kind[w] = "copy" /\ pc'[w] \in {"chmod", "rename"} =>
                  link'[CopyTemp] # NoInode /\ data'[link'[CopyTemp]] = Whole(FileOf(w))
  BY <1>f DEF CopyOf, Chunks, Whole, FileOf
<1>1. CASE kind[w] # "copy"
  <2>1. pc'[w] # "copyChunk"
    BY <1>1, <1>f DEF JobInv, Step, Crash, CreateTemp, Write, Close, Rename, Undo, Use, RemoveTemp,
       OpenSidecar, WriteSidecar, OpenCopy, CopyChunk, Chmod, RenameCopy, RemoveForLink,
       Symlink, Goto
  <2> QED
    BY <1>1, <2>1
<1>2. CASE OpenCopy(w)
  <2>1. pc'[w] \in {"copyChunk", "failed"} /\ off'[w] = 0
    BY <1>2, <1>f DEF OpenCopy, Goto, CopyNames
  <2>2. ASSUME pc'[w] = "copyChunk"
        PROVE  fd'[w] = link'[CopyTemp] /\ fd'[w] # NoInode /\ data'[fd'[w]] = <<>>
    BY <1>2, <2>2, OpensCopy, InodesApart
  <2> QED
    BY <1>f, <2>1, <2>2, ChunkByChunk
<1>3. CASE CopyChunk(w)
  <2>1. /\ fd[w] = link[CopyTemp] /\ fd[w] # NoInode /\ fd[w] \in Inodes
        /\ off[w] <= Size[w] /\ data[fd[w]] = Chunks(w, off[w]) /\ fd' = fd /\ link' = link
    BY <1>3 DEF CopyChunk, CopyOf, FilesInv, Types
  <2>2. CASE /\ off[w] < Size[w] /\ UNCHANGED pc
             /\ WriteChunks(w, FileOf(w), off[w] + 1, off[w] + 1)
             /\ off' = [off EXCEPT ![w] = @ + 1]
    <3>1. off'[w] = off[w] + 1 /\ off'[w] <= Size[w] /\ off[w] \in Nat
      BY <1>f, <2>2
    <3>2. data' = [data EXCEPT ![fd[w]] =
                      Overlay(data[fd[w]], FileOf(w), off[w] + 1, off[w] + 1)]
      BY <2>2 DEF WriteChunks
    <3>3. data'[fd[w]] = Overlay(Chunks(w, off[w]), FileOf(w), off[w] + 1, off[w] + 1)
      BY <2>1, <3>2, DataKeeps
    <3>4. data'[fd[w]] = Chunks(w, off[w] + 1)
      BY <2>2, <3>1, <3>3, ChunkByChunk
    <3>5. pc'[w] = "copyChunk"
      BY <1>3, <2>2 DEF CopyChunk
    <3> QED
      BY <2>1, <3>1, <3>4, <3>5
  <2>3. CASE off[w] = Size[w] /\ Goto(w, "chmod") /\ UNCHANGED <<data, off>>
    <3>1. pc'[w] = "chmod"
      BY <1>f, <2>3 DEF Goto
    <3> QED
      BY <2>1, <2>3, <3>1, ChunkByChunk
  <2>4. CASE Goto(w, "undo")
    BY <1>f, <2>4 DEF Goto
  <2> QED
    BY <1>3, <2>2, <2>3, <2>4 DEF CopyChunk
<1>4. CASE Chmod(w)
  <2>1. kind[w] = "copy" /\ pc[w] = "chmod" /\ UNCHANGED disk /\ pc'[w] \in {"rename", "undo"}
    BY <1>4, <1>f DEF Chmod, Goto, JobInv
  <2> QED
    BY <2>1 DEF CopyOf, disk
<1>5. CASE RenameCopy(w) \/ Undo(w) \/ Crash(w)
  <2>1. pc'[w] \in {"ok", "undo", "failed", "crashed"}
    BY <1>5, <1>f DEF RenameCopy, Undo, Crash, Goto
  <2> QED
    BY <2>1
<1>6. kind[w] = "copy" =>
        OpenCopy(w) \/ CopyChunk(w) \/ Chmod(w) \/ RenameCopy(w) \/ Undo(w) \/ Crash(w)
  BY <1>f DEF JobInv, Saver, Applying, Step, CreateTemp, Write, Close, Rename, Use,
     RemoveTemp, OpenSidecar, WriteSidecar, RemoveForLink, Symlink
<1> QED
  BY <1>1, <1>2, <1>3, <1>4, <1>5, <1>6

LEMMA CopyKeeps ==
    ASSUME FilesInv, Counted, CopyInv, [Next]_vars
    PROVE  CopyInv'
<1>1. ASSUME NEW w \in Jobs, Step(w) \/ Crash(w) PROVE CopyInv'
  <2>1. CopyNames'
    BY <1>1, CopyNamesKeep DEF CopyInv
  <2>2. ASSUME ~overlap' PROVE OneCopy' /\ DestinationInv' /\ \A v \in Jobs : CopyOf(v)'
    <3>1. OneCopy /\ DestinationInv /\ CopyNames /\ \A v \in Jobs : CopyOf(v)
      BY <1>1, <2>2, OverlapStays DEF CopyInv
    <3>2. OneCopy'
      BY <1>1, <2>2, <3>1, OneCopyKeeps
    <3>3. DestinationInv'
      BY <1>1, <3>1, DestinationKeeps
    <3>4. \A v \in Jobs : CopyOf(v)'
      BY <1>1, <3>1, <3>2, OtherCopyKeeps, OwnCopyKeeps
    <3> QED
      BY <3>2, <3>3, <3>4
  <2> QED
    BY <2>1, <2>2 DEF CopyInv
<1>2. CASE UNCHANGED <<proc, disk, seen>>
  BY <1>2 DEF CopyInv, CopyNames, OneCopy, Copying, DestinationInv, CopyOf, Chunks, proc, disk, seen
<1> QED
  BY <1>1, <1>2 DEF Next, Tick, AllEnded, vars

\* The destination of a copy is whole at every moment, if copies to it are not side by
\* side.
THEOREM CopiesAreWhole == Spec => []CopyIsWhole
<1>1. Init => Counted /\ CopyInv
  <2> SUFFICES ASSUME Init PROVE Counted /\ CopyInv
    OBVIOUS
  <2>1. Counted
    BY FilesAssumption DEF Init, Counted
  <2>2. /\ \A w \in Jobs : pc[w] = "begin" /\ off[w] = 0
        /\ link[CopyTemp] = NoInode /\ link[Destination] = NoInode
    BY NamesApart DEF Init
  <2>3. CopyNames
    BY <2>2, InodesApart DEF CopyNames
  <2> QED
    BY <2>1, <2>2, <2>3 DEF CopyInv, OneCopy, Copying, DestinationInv, CopyOf
<1>2. FilesInv /\ Counted /\ CopyInv /\ [Next]_vars => (Counted /\ CopyInv)'
  BY CountedKeeps, CopyKeeps
<1>3. CopyInv => CopyIsWhole
  <2> SUFFICES ASSUME CopyInv, ~overlap
               PROVE  Holds(Destination) \in {<<>>} \cup {Whole(FileOf(w)) : w \in Jobs}
    BY DEF CopyIsWhole
  <2>1. CASE link[Destination] = NoInode
    BY <2>1 DEF Holds
  <2>2. CASE link[Destination] # NoInode
    <3>1. PICK v \in Jobs : data[link[Destination]] = Whole(FileOf(v))
      BY <2>2 DEF CopyInv, DestinationInv
    <3>2. Holds(Destination) = Whole(FileOf(v))
      BY <2>2, <3>1 DEF Holds
    <3> HIDE DEF Whole
    <3> QED
      BY <3>2
  <2> QED
    BY <2>1, <2>2
<1> QED
  BY <1>1, <1>2, <1>3, FilesHolds, PTL DEF Spec
=============================================================================
