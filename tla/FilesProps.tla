----------------------------- MODULE FilesProps -----------------------------
(***************************************************************************)
(* What a reader of patchrun's files may rely on, whoever writes them.     *)
(***************************************************************************)
EXTENDS Files

\* To whoever reads them the saved patches are a PatchStore: at no moment, crash
\* or failure is there a partial patch, or one that is mixed, under a path that a
\* save was to write.  (SavePatchAtomic.)
Store == INSTANCE PatchStore WITH
            Paths <- Targets, Runs <- Jobs, PatchOf <- [w \in Jobs |-> Whole(FileOf(w))],
            store <- [p \in Targets |-> Holds(p)]

ImplementsStore == Store!Spec

\* A save that returned, with or without an error, has left no temporary file,
\* unless removing it failed as well.  (The error paths of SavePatchAtomic.)
NoDebris ==
    \A w \in Jobs :
        (kind[w] \in {"save", "saveAs"} /\ pc[w] \in {"ok", "failed"} /\ trouble.faults <= 1)
        => link[Temp(w)] = NoInode

\* A patch reported as saved under a default path is there, unless another was
\* named in that very second: saves of different seconds never meet.
\* (defaultSavePath and the rename.)
SavedStays ==
    \A w \in Jobs :
        (kind[w] = "save" /\ pc[w] = "ok"
            /\ \A v \in Jobs \ {w} : kind[v] = "save" => named[v] # named[w])
        => Holds(path[w]) = Whole(FileOf(w))

\* When nothing went wrong, the sidecar beside a patch tells of that patch, unless
\* two saves went to the same path.
SidecarMatches ==
    (trouble.faults + trouble.crashes = 0 /\ \A w \in Jobs : pc[w] \in Ended) =>
        \A w \in Jobs :
            (kind[w] \in {"save", "saveAs"} /\ \A v \in Jobs \ {w} : path[v] # path[w])
            => Holds(<<"meta", path[w][2]>>) = Whole(MetaOf(w))

\* git apply reads, each time, exactly the patch its own run has captured, however
\* many runs apply at once.  (WriteTempPatch.)
AppliesItsOwn ==
    \A w \in Jobs : \A k \in 1 .. Len(read[w]) : read[w][k] = Whole(FileOf(w))

\* The destination of a copy is at every moment whole, and of one source, unless
\* two copies to it ran side by side.  (copyRegular.)
CopyIsWhole ==
    ~overlap => Holds(Destination) \in {<<>>} \cup {Whole(FileOf(w)) : w \in Jobs}
=============================================================================
