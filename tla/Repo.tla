-------------------------------- MODULE Repo --------------------------------
(***************************************************************************)
(* What patchrun sees of a Git repository: trees of files, their status    *)
(* against a commit, and binary patches between two trees.                 *)
(*                                                                         *)
(* A file is a set of cells, each standing for a region of lines that a    *)
(* hunk (with its context) covers; cells are far enough apart that two     *)
(* hunks never share context.  A tree gives every cell its content, and a  *)
(* file exists when one of its cells is not None.  A commit, an index and  *)
(* a working tree are all such trees.  Renames and file modes are left     *)
(* out.                                                                    *)
(***************************************************************************)
EXTENDS FiniteSets

CONSTANTS
    Paths,      \* the files the repository may hold
    Cells,      \* the line regions of all files
    PathOf,     \* [Cells -> Paths], the file a region belongs to
    Values,     \* what a region may contain
    None,       \* content of a region that does not exist
    Conflict,   \* a region holding the conflict markers of a 3-way merge
    Ignored     \* the paths .gitignore excludes

ASSUME RepoAssumption ==
    /\ PathOf \in [Cells -> Paths]
    /\ None \notin Values
    /\ Conflict \notin Values \cup {None}
    /\ Ignored \subseteq Paths

Contents == Values \cup {None, Conflict}
Trees == [Cells -> Contents]
EmptyTree == [c \in Cells |-> None]

CellsOf(p) == {c \in Cells : PathOf[c] = p}
CellsIn(ps) == {c \in Cells : PathOf[c] \in ps}
Exists(t, p) == \E c \in CellsOf(p) : t[c] # None

-----------------------------------------------------------------------------
(* git status --porcelain --untracked-files=all, file by file: a letter for *)
(* HEAD against the index and one for the index against the working tree.  *)
(* They depend on which files exist and differ, never on what they contain. *)

StatusLetters == {" ", "M", "A", "D", "?"}

Same(a, b, p) == \A c \in CellsOf(p) : a[c] = b[c]

IndexStatus(head, index, p) ==
    IF ~Exists(head, p) THEN IF Exists(index, p) THEN "A" ELSE " "
    ELSE IF ~Exists(index, p) THEN "D"
    ELSE IF Same(head, index, p) THEN " " ELSE "M"

WorkTreeStatus(index, work, p) ==
    IF ~Exists(index, p)
    THEN IF Exists(work, p) /\ p \notin Ignored THEN "?" ELSE " "
    ELSE IF ~Exists(work, p) THEN "D"
    ELSE IF Same(index, work, p) THEN " " ELSE "M"

FileStatus(head, index, work, p) ==
    <<IndexStatus(head, index, p), WorkTreeStatus(index, work, p)>>

\* StatusFingerprint over the entries of Status; `extra` are the entries for
\* what patchrun itself has put into the working tree.
StatusFingerprint(head, index, work, extra) ==
    [files |-> [p \in Paths |-> FileStatus(head, index, work, p)], extra |-> extra]

IsDirty(sig) == sig.extra # {} \/ \E p \in Paths : sig.files[p] # <<" ", " ">>

Tracked(index) == {p \in Paths : Exists(index, p)}

\* git ls-files --others --exclude-standard
LsUntracked(index, work) ==
    {p \in Paths \ Tracked(index) : Exists(work, p) /\ p \notin Ignored}

\* The files of the working tree that the index knows: what git diff HEAD
\* compares with HEAD.
KnownWork(index, work) ==
    [c \in Cells |-> IF PathOf[c] \in Tracked(index) THEN work[c] ELSE None]

\* git add -A [-f]: what the index holds then.
StageAll(index, work, force) ==
    [c \in Cells |->
        IF PathOf[c] \in Ignored \ Tracked(index) /\ ~force THEN None ELSE work[c]]

-----------------------------------------------------------------------------
(* Patches.  A patch maps every cell it mentions to its old and new        *)
(* content.  Creating or deleting a file mentions all of its cells, as Git *)
(* only creates a file that is absent and only deletes the one it knows.   *)

Hunk == [old : Contents, new : Contents]
Patches == UNION {[S -> Hunk] : S \in SUBSET Cells}
IsPatch(d) == DOMAIN d \subseteq Cells /\ \A c \in DOMAIN d : d[c] \in Hunk

Mentioned(a, b) ==
    {c \in Cells : a[c] # b[c] \/ Exists(a, PathOf[c]) # Exists(b, PathOf[c])}

Diff(a, b) == [c \in Mentioned(a, b) |-> [old |-> a[c], new |-> b[c]]]

Reversed(d) == [c \in DOMAIN d |-> [old |-> d[c].new, new |-> d[c].old]]

Limit(d, ps) == [c \in DOMAIN d \cap CellsIn(ps) |-> d[c]]

PatchIsEmpty(d) == DOMAIN d = {}

CreatesFile(d, p) ==
    CellsOf(p) \subseteq DOMAIN d /\ \A c \in CellsOf(p) : d[c].old = None

DeletesFile(d, p) ==
    CellsOf(p) \subseteq DOMAIN d /\ \A c \in CellsOf(p) : d[c].new = None

\* git apply --check: every preimage is found, in a file that is there.
Applies(d, t) ==
    \A c \in DOMAIN d :
        /\ t[c] = d[c].old
        /\ Exists(t, PathOf[c]) \/ CreatesFile(d, PathOf[c])

\* git apply, restricted to the files `ps` it got to write.
ApplyTo(d, t, ps) ==
    [c \in Cells |-> IF c \in DOMAIN d /\ PathOf[c] \in ps THEN d[c].new ELSE t[c]]

\* git apply --3way: a cell somebody changed and the patch changes otherwise
\* becomes a conflict, every other cell takes the one change made to it.
Merge3(d, t) ==
    [c \in Cells |->
        IF c \notin DOMAIN d \/ t[c] = d[c].new THEN t[c]
        ELSE IF t[c] = d[c].old THEN d[c].new
        ELSE Conflict]
=============================================================================
