---------------------------- MODULE RunnerProofs ----------------------------
(***************************************************************************)
(* Theorems about one run of patchrun, for every repository, every set of  *)
(* options and every bound; first what the operators of Repo return, and   *)
(* that diff and apply are inverse, on which they all rest.                *)
(***************************************************************************)
EXTENDS RunnerProps, TLAPS

-----------------------------------------------------------------------------
(* Patches.                                                                *)

\* A function from cells to hunks is a patch, and every patch is one.
LEMMA PatchesAreFunctions ==
    ASSUME NEW S \in SUBSET Cells, NEW d \in [S -> Hunk]
    PROVE  d \in Patches
BY DEF Patches

LEMMA PatchShape ==
    ASSUME NEW d \in Patches
    PROVE  /\ DOMAIN d \subseteq Cells
           /\ d \in [DOMAIN d -> Hunk]
           /\ \A c \in DOMAIN d : d[c].old \in Contents /\ d[c].new \in Contents
BY DEF Patches, Hunk

\* Status, staging, patching and merging stay within trees and signatures.
LEMMA FingerprintType ==
    ASSUME NEW h, NEW i, NEW w, NEW E, NEW x \in SUBSET E
    PROVE  StatusFingerprint(h, i, w, x)
                \in [files : [Paths -> StatusLetters \X StatusLetters], extra : SUBSET E]
<1>1. \A p \in Paths : FileStatus(h, i, w, p) \in StatusLetters \X StatusLetters
  BY DEF FileStatus, IndexStatus, WorkTreeStatus, StatusLetters
<1> QED
  BY <1>1 DEF StatusFingerprint

LEMMA EmptyTreeType == EmptyTree \in Trees
BY DEF EmptyTree, Trees, Contents

LEMMA StageAllType ==
    ASSUME NEW i, NEW w \in Trees, NEW force \in BOOLEAN
    PROVE  StageAll(i, w, force) \in Trees
BY DEF StageAll, Trees, Contents

LEMMA KnownWorkType ==
    ASSUME NEW i, NEW w \in Trees
    PROVE  KnownWork(i, w) \in Trees
BY DEF KnownWork, Trees, Contents

LEMMA DiffType ==
    ASSUME NEW a \in Trees, NEW b \in Trees
    PROVE  Diff(a, b) \in Patches
<1>1. Mentioned(a, b) \in SUBSET Cells
  BY DEF Mentioned
<1>2. Diff(a, b) \in [Mentioned(a, b) -> Hunk]
  BY <1>1 DEF Diff, Hunk, Trees
<1> QED
  BY <1>1, <1>2, PatchesAreFunctions

LEMMA ReversedType ==
    ASSUME NEW d \in Patches
    PROVE  Reversed(d) \in Patches /\ DOMAIN Reversed(d) = DOMAIN d
<1>1. Reversed(d) \in [DOMAIN d -> Hunk]
  BY PatchShape DEF Reversed, Hunk
<1> QED
  BY <1>1, PatchShape, PatchesAreFunctions

LEMMA LimitType ==
    ASSUME NEW d \in Patches, NEW ps
    PROVE  Limit(d, ps) \in Patches
<1>1. DOMAIN d \cap CellsIn(ps) \in SUBSET Cells
  BY PatchShape
<1>2. Limit(d, ps) \in [DOMAIN d \cap CellsIn(ps) -> Hunk]
  BY PatchShape DEF Limit
<1> QED
  BY <1>1, <1>2, PatchesAreFunctions

LEMMA ApplyToType ==
    ASSUME NEW d \in Patches, NEW t \in Trees, NEW ps
    PROVE  ApplyTo(d, t, ps) \in Trees
BY PatchShape DEF ApplyTo, Trees

LEMMA Merge3Type ==
    ASSUME NEW d \in Patches, NEW t \in Trees
    PROVE  Merge3(d, t) \in Trees
BY PatchShape DEF Merge3, Trees, Contents

-----------------------------------------------------------------------------
\* A captured patch applies to the tree it was taken from and turns it into
\* the tree it was taken to, whatever is created, changed or deleted between
\* them.  (DiffBinaryCachedOpt and ApplyCheckOpt, Apply.)
LEMMA DiffRoundTrip ==
    ASSUME NEW a \in Trees, NEW b \in Trees
    PROVE  /\ Applies(Diff(a, b), a)
           /\ ApplyTo(Diff(a, b), a, Paths) = b
<1> DEFINE d == Diff(a, b)
<1>1. DOMAIN d = Mentioned(a, b) /\ Mentioned(a, b) \subseteq Cells
  BY DEF Diff, Mentioned
<1>2. \A c \in Mentioned(a, b) : d[c].old = a[c] /\ d[c].new = b[c]
  BY DEF Diff
<1>3. ASSUME NEW c \in Mentioned(a, b), ~Exists(a, PathOf[c])
      PROVE  CreatesFile(d, PathOf[c])
  <2>1. c \in CellsOf(PathOf[c])
    BY <1>1 DEF CellsOf
  <2>2. \A e \in CellsOf(PathOf[c]) : a[e] = None
    BY <1>3 DEF Exists
  <2>3. Exists(b, PathOf[c])
    BY <1>3, <2>1, <2>2 DEF Mentioned, Exists
  <2>4. CellsOf(PathOf[c]) \subseteq Mentioned(a, b)
    BY <1>3, <2>3 DEF Mentioned, CellsOf
  <2> QED
    BY <1>1, <1>2, <2>2, <2>4 DEF CreatesFile
<1>4. Applies(d, a)
  BY <1>1, <1>2, <1>3 DEF Applies
<1>5. \A c \in Cells : PathOf[c] \in Paths
  BY RepoAssumption
<1>6. \A c \in Cells : c \notin Mentioned(a, b) => a[c] = b[c]
  BY DEF Mentioned
<1>7. ApplyTo(d, a, Paths) = [c \in Cells |-> b[c]]
  BY <1>1, <1>2, <1>5, <1>6 DEF ApplyTo
<1> QED
  BY <1>4, <1>7 DEF Trees

\* A reversed patch, which --reverse prints and saves, undoes the patch; and
\* reversing it once more, as applyToOriginal does, gives the patch back.
LEMMA ReversedTwice ==
    ASSUME NEW d \in Patches
    PROVE  Reversed(Reversed(d)) = d
<1>1. d \in [DOMAIN d -> Hunk]
  BY PatchShape
<1>2. ASSUME NEW c \in DOMAIN d
      PROVE  Reversed(Reversed(d))[c] = d[c]
  <2>1. d[c] = [old |-> d[c].old, new |-> d[c].new]
    BY <1>1 DEF Hunk
  <2> QED
    BY <2>1 DEF Reversed
<1>3. Reversed(Reversed(d)) \in [DOMAIN d -> Hunk]
  BY ReversedType, PatchShape
<1> QED
  BY <1>1, <1>2, <1>3

-----------------------------------------------------------------------------
(* What the replay of a dirty tree and the baseline rest on.               *)

\* A path a tree does not have is None in all its cells.
LEMMA AbsentIsNone ==
    ASSUME NEW t, NEW c \in Cells, PathOf[c] \notin Tracked(t)
    PROVE  t[c] = None
<1>1. PathOf[c] \in Paths
  BY RepoAssumption
<1> QED
  BY <1>1 DEF Tracked, Exists, CellsOf

\* git status says nothing: the tree is the commit, up to ignored files.
LEMMA CleanIsHead ==
    ASSUME NEW h, NEW i, NEW w, NEW x, ~IsDirty(StatusFingerprint(h, i, w, x)),
           NEW c \in Cells, PathOf[c] \notin Ignored \/ Exists(h, PathOf[c])
    PROVE  w[c] = h[c]
<1>1. PathOf[c] \in Paths /\ c \in CellsOf(PathOf[c])
  BY RepoAssumption DEF CellsOf
<1>2. /\ IndexStatus(h, i, PathOf[c]) = " "
      /\ WorkTreeStatus(i, w, PathOf[c]) = " "
  BY <1>1 DEF IsDirty, StatusFingerprint, FileStatus
<1>3. CASE Exists(h, PathOf[c])
  <2>1. Exists(i, PathOf[c]) /\ h[c] = i[c]
    BY <1>1, <1>2, <1>3 DEF IndexStatus, Same
  <2> QED
    BY <1>1, <1>2, <2>1 DEF WorkTreeStatus, Same
<1>4. CASE ~Exists(h, PathOf[c])
  <2>1. ~Exists(i, PathOf[c])
    BY <1>2, <1>4 DEF IndexStatus
  <2>2. ~Exists(w, PathOf[c])
    BY <1>2, <1>4, <2>1 DEF WorkTreeStatus
  <2> QED
    BY <1>1, <1>4, <2>2 DEF Exists
<1> QED
  BY <1>3, <1>4

-----------------------------------------------------------------------------
(* Runs.                                                                   *)

LEMMA HeadType ==
    ASSUME commits \in Seq(Trees), Len(commits) > 0
    PROVE  HEAD \in Trees
BY DEF HEAD

LEMMA StatusType ==
    ASSUME files \subseteq Files
    PROVE  Status \in Signatures
<1> DEFINE E == Files \cup {"worktree"}
           x == {f \in files : Inside(f)} \cup {w \in {"worktree"} : WorktreeShows}
<1>1. x \in SUBSET E
  OBVIOUS
<1> HIDE DEF E, x
<1>2. StatusFingerprint(HEAD, index, work, x)
        \in [files : [Paths -> StatusLetters \X StatusLetters], extra : SUBSET E]
  BY <1>1, FingerprintType
<1> QED
  BY <1>2 DEF Status, Signatures, E, x

LEMMA EffectType ==
    ASSUME r.patchBytes \in Patches
    PROVE  Effect \in Patches
BY ReversedType DEF Effect

LEMMA CapturedPatchType ==
    ASSUME r.baselineRef \in Trees, worktree.index \in Trees, worktree.tree \in Trees,
           opts.includeIgnored \in BOOLEAN
    PROVE  CapturedPatch \in Patches
<1> DEFINE staged == StageAll(worktree.index, worktree.tree, opts.includeIgnored)
           forward == Limit(Diff(r.baselineRef, staged), Selected)
<1>1. forward \in Patches
  BY StageAllType, DiffType, LimitType
<1>2. Reversed(forward) \in Patches
  BY <1>1, ReversedType
<1> QED
  BY <1>1, <1>2 DEF CapturedPatch

-----------------------------------------------------------------------------
LEMMA InitType == Init => TypeOK
<1> SUFFICES ASSUME Init PROVE TypeOK
  OBVIOUS
<1>1. opts \in OptionRecords /\ ValidOptions(opts)
  BY RunnerAssumption DEF Init
<1>2. opts.execs \in Nat
  BY <1>1 DEF OptionRecords
<1>3. commits \in Seq(Trees) /\ Len(commits) > 0 /\ index \in Trees /\ work \in Trees
  <2>1. PICK s \in Starts : commits = <<s[1]>> /\ index = s[2] /\ work = s[3]
    BY DEF Init
  <2>2. s[1] \in Trees /\ s[2] \in Trees /\ s[3] \in Trees
    BY RunnerAssumption
  <2> QED
    BY <2>1, <2>2
<1>4. Diff(EmptyTree, EmptyTree) \in Patches
  BY EmptyTreeType, DiffType
<1>5. StatusFingerprint(EmptyTree, EmptyTree, EmptyTree, {}) \in Signatures
  <2>1. {} \in SUBSET (Files \cup {"worktree"})
    OBVIOUS
  <2> QED
    BY <2>1, FingerprintType DEF Signatures
<1>6. r \in RunnerRecords
  BY <1>2, <1>4, <1>5, EmptyTreeType DEF Init, RunnerRecords
<1>7. budget \in Budgets
  BY RunnerAssumption DEF Init, Budgets
<1> QED
  BY <1>1, <1>3, <1>6, <1>7, EmptyTreeType
  DEF Init, TypeOK, Labels, Ended, Worktrees, Reports, Outputs, Budgets, Histories,
      ExitOK, NoWorktree, NoJSON

LEMMA BudgetType ==
    ASSUME budget \in Budgets,
           IOOK \/ IOErr \/ GitOK \/ GitErr \/ Answered \/ EndOfInput
    PROVE  budget' \in Budgets
BY DEF Budgets, IOOK, IOErr, GitOK, GitErr, Answered, EndOfInput

LEMMA OutcomeType ==
    ASSUME r \in RunnerRecords, NEW code \in Nat
    PROVE  Outcome(code) \in Nat
BY DEF RunnerRecords, Outcome, ExitOK, ExitTimeout, ExitChildFailed

\* A tree of which git got some files written.
LEMMA MixedType ==
    ASSUME NEW t \in Trees, NEW u \in Trees, NEW ps
    PROVE  [c \in Cells |-> IF PathOf[c] \in ps THEN t[c] ELSE u[c]] \in Trees
BY DEF Trees

\* A tree whose missing files come from the index; what a 3-way merge leaves.
LEMMA RestoredType ==
    ASSUME index \in Trees, work \in Trees, NEW ps
    PROVE  Restored(ps) \in Trees
BY DEF Restored, Trees

LEMMA ThreeWayType ==
    ASSUME TypeOK, Apply3Way
    PROVE  work' \in Trees /\ index' \in Trees
<1>1. index \in Trees /\ work \in Trees /\ Effect \in Patches
  BY EffectType DEF TypeOK, RunnerRecords
<1> DEFINE result == Merge3(Effect, Restored(Patched))
<1>2. result \in Trees
  BY <1>1, RestoredType, Merge3Type
<1>3. \/ work' = result
      \/ \E ps \in SUBSET Patched : work' = Restored(ps)
      \/ PartlyWritten(result, Restored(Patched))
  BY DEF Apply3Way, Applied
<1>4. index' = index \/ index' = [c \in Cells |-> IF PathOf[c] \in Patched THEN result[c]
                                                ELSE index[c]]
  BY DEF Apply3Way
<1> HIDE DEF result
<1>5. work' \in Trees
  BY <1>1, <1>2, <1>3, RestoredType, MixedType DEF PartlyWritten
<1> QED
  BY <1>1, <1>2, <1>4, <1>5, MixedType

\* git add touches the index, a commit by others the index and the history.
LEMMA StageChanges ==
    ASSUME TypeOK, OthersStage
    PROVE  /\ index' \in Trees /\ budget.edits > 0 /\ pc # "done"
           /\ budget' = [budget EXCEPT !.edits = @ - 1]
           /\ UNCHANGED <<opts, pc, exit, r, commits, work, files, worktree, out,
                         cancelled, seen>>
<1>1. index \in Trees /\ work \in Trees /\ HEAD \in Trees /\ EmptyTree \in Trees
  BY HeadType, EmptyTreeType DEF TypeOK
<1>2. PICK p \in Paths, t \in {work, HEAD, EmptyTree} :
        index' = [c \in Cells |-> IF PathOf[c] = p THEN t[c] ELSE index[c]]
  BY DEF OthersStage
<1>3. index' \in Trees
  BY <1>1, <1>2 DEF Trees
<1> QED
  BY <1>3 DEF OthersStage

LEMMA CommitChanges ==
    ASSUME TypeOK, OthersCommit
    PROVE  /\ index' \in Trees /\ budget.edits > 0 /\ pc # "done"
           /\ commits' = Append(commits, index')
           /\ commits' \in Seq(Trees) /\ Len(commits') = Len(commits) + 1
           /\ budget' = [budget EXCEPT !.edits = @ - 1]
           /\ UNCHANGED <<opts, pc, exit, r, work, files, worktree, out, cancelled>>
<1>1. index \in Trees /\ StageAll(index, work, FALSE) \in Trees
  BY StageAllType DEF TypeOK
<1>2. index' \in Trees /\ commits' = Append(commits, index')
  BY <1>1 DEF OthersCommit
<1>3. \A s \in Seq(Trees), t \in Trees :
        Append(s, t) \in Seq(Trees) /\ Len(Append(s, t)) = Len(s) + 1
  OBVIOUS
<1>4. commits \in Seq(Trees)
  BY DEF TypeOK
<1>5. commits' \in Seq(Trees) /\ Len(commits') = Len(commits) + 1
  BY <1>2, <1>3, <1>4, Zenon
<1> QED
  BY <1>2, <1>5 DEF OthersCommit

\* A step that starts the command, and one that saves a file, keep the types.
LEMMA StartType ==
    ASSUME r \in RunnerRecords, NEW running, NEW refused, Start(running, refused)
    PROVE  /\ r' \in RunnerRecords /\ r'.originalHead = r.originalHead
           /\ pc' \in {running, refused} /\ exit' = exit
<1>1. CASE cancelled
  <2>1. r' = [r EXCEPT !.cmdResult.exitCode = 1]
    BY <1>1 DEF Start, ExitGeneralFailure
  <2> QED
    BY <1>1, <2>1 DEF Start, Goto, RunnerRecords
<1>2. CASE ~cancelled
  BY <1>2 DEF Start, Goto
<1> QED
  BY <1>1, <1>2

LEMMA SaveType ==
    ASSUME r \in RunnerRecords, files \subseteq Files, NEW f \in Files,
           SaveTo(f) \/ SaveFails
    PROVE  /\ r' \in RunnerRecords /\ r'.originalHead = r.originalHead
           /\ files' \subseteq Files
BY DEF SaveTo, SaveFails, RunnerRecords

\* What TypeOK says of the variables a step changes follows from these, the
\* rest from what it leaves alone.
LEMMA StepType == TypeOK /\ [Next]_vars => TypeOK'
<1> SUFFICES ASSUME TypeOK, [Next]_vars PROVE TypeOK'
  OBVIOUS
<1> USE DEF Goto, Stop,
        ExitOK, ExitGeneralFailure, ExitNotInRepo, ExitGitMissing, ExitDirty,
        ExitChildFailed, ExitApplyFailed, ExitUserDiscard, ExitInvalidUsage,
        ExitTimeout
<1>r. r \in RunnerRecords
  BY DEF TypeOK
<1>e. exit \in Nat /\ Outcome(ExitOK) \in Nat
  BY <1>r, OutcomeType DEF TypeOK
<1>t. /\ budget \in Budgets /\ worktree \in Worktrees /\ out \in Outputs
      /\ seen \in Histories /\ index \in Trees /\ work \in Trees /\ files \subseteq Files
  BY DEF TypeOK
<1>s. Status \in Signatures
  BY StatusType DEF TypeOK
<1>c. /\ commits \in Seq(Trees) /\ Len(commits) \in Nat \ {0}
      /\ pc \notin {"resolve", "head"} \cup Ended => commits[r.originalHead] \in Trees
  BY DEF TypeOK
<1>1. CASE ResolveRepo
  <2>1. budget' \in Budgets
    BY <1>1, <1>t, BudgetType DEF ResolveRepo
  <2> QED
    BY <1>1, <2>1 DEF ResolveRepo, TypeOK, Labels, Ended, UntilGate, origin, env
<1>2. CASE ReadHead
  <2>1. budget' \in Budgets
    BY <1>2, <1>t, BudgetType DEF ReadHead
  <2>2. /\ r' \in RunnerRecords
        /\ pc' \notin Ended => r'.originalHead = Len(commits)
    <3>1. CASE r' = [r EXCEPT !.originalHead = Len(commits)]
      BY <3>1, <1>r, <1>c DEF RunnerRecords
    <3>2. CASE UNCHANGED r /\ pc' = "emit"
      BY <3>2, <1>r DEF Ended
    <3> QED
      BY <1>2, <3>1, <3>2 DEF ReadHead
  <2> QED
    BY <1>2, <2>1, <2>2 DEF ReadHead, TypeOK, Labels, Ended, UntilGate, origin, env
<1>3. CASE ReadStatus
  <2>1. budget' \in Budgets
    BY <1>3, <1>t, BudgetType DEF ReadStatus
  <2>2. pc' \in Labels /\ exit' \in Nat /\ pc' # "exec"
    BY <1>3, <1>e DEF ReadStatus, DirtyPolicy, Labels, Ended, UntilGate
  <2>3. r' \in RunnerRecords /\ r'.originalHead = r.originalHead
    <3>1. IsDirty(Status) \in BOOLEAN
      BY DEF IsDirty
    <3> QED
      BY <1>3, <1>r, <1>s, <3>1 DEF ReadStatus, RunnerRecords
  <2> QED
    BY <1>3, <2>1, <2>2, <2>3 DEF ReadStatus, TypeOK, Ended, origin, env
<1>4. CASE ConfirmDirty
  <2>1. budget' \in Budgets
    BY <1>4, <1>t, BudgetType DEF ConfirmDirty
  <2> QED
    BY <1>4, <2>1 DEF ConfirmDirty, TypeOK, Labels, Ended, UntilGate, origin, env
<1>5. CASE SetupWorktree
  <2>1. budget' \in Budgets
    BY <1>5, <1>t, BudgetType DEF SetupWorktree
  <2>2. pc' \in Labels /\ exit' \in Nat /\ pc' # "exec"
    <3>1. \/ pc' \in {"replayTracked", "policy"} /\ exit' = exit
          \/ pc' = "emit" /\ exit' = 1
      BY <1>5 DEF SetupWorktree
    <3> QED
      BY <1>e, <3>1 DEF Labels, Ended, UntilGate
  <2>3. commits[r.originalHead] \in Trees
    BY <1>5, <1>c DEF SetupWorktree, Ended
  <2>4. r' \in RunnerRecords /\ r'.originalHead = r.originalHead
    BY <1>5, <1>r, <2>3 DEF SetupWorktree, RunnerRecords
  <2>5. worktree' \in Worktrees
    <3>1. \A dir \in BOOLEAN :
            [NoWorktree EXCEPT !.dir = dir, !.handle = TRUE] \in Worktrees
      BY EmptyTreeType DEF NoWorktree, Worktrees
    <3>2. CheckedOut(commits[r.originalHead]) \in Worktrees
      BY <2>3 DEF CheckedOut, Worktrees
    <3> QED
      BY <1>5, <1>t, <3>1, <3>2 DEF SetupWorktree
  <2> QED
    BY <1>5, <2>1, <2>2, <2>4, <2>5 DEF SetupWorktree, TypeOK, Ended, origin, env
<1>6. CASE ReplayTracked
  <2>1. budget' \in Budgets
    BY <1>6, <1>t, BudgetType DEF ReplayTracked
  <2>2. TrackedChanges \in Patches
    BY HeadType, KnownWorkType, DiffType DEF TrackedChanges, TypeOK
  <2>3. worktree.tree \in Trees
    BY <1>t DEF Worktrees
  <2>4. ApplyTo(TrackedChanges, worktree.tree, Paths) \in Trees
    BY <2>2, <2>3, ApplyToType
  <2>5. worktree' \in Worktrees
    BY <1>6, <1>t, <2>4 DEF ReplayTracked, Worktrees
  <2> QED
    BY <1>6, <2>1, <2>5 DEF ReplayTracked, TypeOK, Labels, Ended, UntilGate, origin, env
<1>7. CASE ListUntracked
  <2>1. budget' \in Budgets
    BY <1>7, <1>t, BudgetType DEF ListUntracked
  <2>2. LsUntracked(index, work) \in SUBSET Paths
    BY DEF LsUntracked
  <2>3. r' \in RunnerRecords /\ r'.originalHead = r.originalHead
    BY <1>7, <1>r, <2>2 DEF ListUntracked, RunnerRecords
  <2> QED
    BY <1>7, <2>1, <2>3 DEF ListUntracked, TypeOK, Labels, Ended, UntilGate, origin, env
<1>8. CASE CopyUntracked
  <2>1. budget' \in Budgets
    BY <1>8, <1>t, BudgetType DEF CopyUntracked
  <2>2. r' \in RunnerRecords /\ r'.originalHead = r.originalHead
    <3>1. r' = r \/ \E p \in r.untracked : r' = [r EXCEPT !.untracked = @ \ {p}]
      BY <1>8 DEF CopyUntracked
    <3>2. \A p : r.untracked \ {p} \in SUBSET Paths
      BY <1>r DEF RunnerRecords
    <3> QED
      BY <1>r, <3>1, <3>2 DEF RunnerRecords
  <2>3. worktree' \in Worktrees
    BY <1>8, <1>t DEF CopyUntracked, Worktrees, Trees
  <2> QED
    BY <1>8, <2>1, <2>2, <2>3 DEF CopyUntracked, TypeOK, Labels, Ended, UntilGate, origin, env
<1>9. CASE CommitBaseline
  <2>1. budget' \in Budgets
    BY <1>9, <1>t, BudgetType DEF CommitBaseline
  <2>2. BaselineTree \in Trees
    BY <1>t, StageAllType DEF BaselineTree, Worktrees
  <2>3. worktree' \in Worktrees
    BY <1>9, <1>t, <2>2 DEF CommitBaseline, Worktrees
  <2>5. r' \in RunnerRecords /\ r'.originalHead = r.originalHead
    BY <1>9, <1>r, <2>2 DEF CommitBaseline, RunnerRecords
  <2>6. \/ pc' = "policy" /\ exit' = exit
        \/ pc' = "emit" /\ exit' = 1
    BY <1>9 DEF CommitBaseline
  <2> QED
    BY <1>9, <1>e, <2>1, <2>3, <2>5, <2>6 DEF CommitBaseline, TypeOK, Labels, Ended, UntilGate, origin, env
<1>10. CASE RunChildCommand
  <2>1. /\ r' \in RunnerRecords /\ r'.originalHead = r.originalHead
        /\ pc' \in {"child", "execs", "confirmPTY", "emit"} /\ exit' \in Nat
    <3>1. CASE Start("child", "execs")
      BY <1>r, <1>e, <3>1, StartType
    <3>2. CASE ~Start("child", "execs")
      BY <1>10, <1>r, <1>e, <3>2 DEF RunChildCommand
    <3> QED
      BY <3>1, <3>2
  <2> QED
    BY <1>10, <2>1 DEF RunChildCommand, IOOK, TypeOK, Labels, Ended, UntilGate, origin, env
<1>11. CASE ConfirmPTY
  <2>1. budget' \in Budgets
    BY <1>11, <1>t, BudgetType DEF ConfirmPTY
  <2>2. /\ r' \in RunnerRecords /\ r'.originalHead = r.originalHead
        /\ pc' \in {"child", "execs", "emit"} /\ exit' \in Nat
    <3>1. CASE Start("child", "execs")
      BY <1>r, <1>e, <3>1, StartType
    <3>2. CASE ~Start("child", "execs")
      BY <1>11, <1>r, <1>e, <3>2 DEF ConfirmPTY
    <3> QED
      BY <3>1, <3>2
  <2> QED
    BY <1>11, <2>1, <2>2 DEF ConfirmPTY, TypeOK, Labels, Ended, UntilGate, origin, env
<1>12. CASE CommandWrites
  <2>1. budget' \in Budgets
    BY <1>12, <1>t DEF CommandWrites, Budgets
  <2>2. worktree' \in Worktrees
    BY <1>12, <1>t DEF CommandWrites, Worktrees, Trees, Contents
  <2>3. seen' \in Histories
    BY <1>12, <1>t DEF CommandWrites, Histories
  <2> QED
    BY <1>12, <2>1, <2>2, <2>3 DEF CommandWrites, TypeOK, Labels, Ended, UntilGate, origin, env
<1>13. CASE ChildExits
  <2>1. r' \in RunnerRecords /\ r'.originalHead = r.originalHead
    <3>1. PICK code \in {0, 1}, late \in BOOLEAN :
              r' = [r EXCEPT !.cmdResult = [exitCode |-> code, timedOut |-> late]]
      BY <1>13 DEF ChildExits
    <3>2. code \in Nat
      OBVIOUS
    <3> QED
      BY <1>r, <3>1, <3>2 DEF RunnerRecords
  <2> QED
    BY <1>13, <2>1 DEF ChildExits, IOOK, TypeOK, Labels, Ended, UntilGate, origin, env
<1>14. CASE ExecExits
  <2>1. r.execsLeft - 1 \in Nat
    <3>1. r.execsLeft > 0
      BY <1>14 DEF ExecExits, TypeOK
    <3>2. r.execsLeft \in Nat
      BY <1>r DEF RunnerRecords
    <3> QED
      BY <3>1, <3>2
  <2>2. PICK n \in Nat :
            r' = [r EXCEPT !.execsLeft = @ - 1, !.execExit = n]
    <3>1. PICK code \in {0, 1} :
              r' = [r EXCEPT !.execsLeft = @ - 1, !.execExit = IF @ = 0 THEN code ELSE @]
      BY <1>14 DEF ExecExits
    <3>2. code \in Nat
      OBVIOUS
    <3>3. r.execExit \in Nat
      BY <1>r DEF RunnerRecords
    <3>4. CASE r.execExit = 0
      BY <3>1, <3>2, <3>4
    <3>5. CASE r.execExit # 0
      BY <3>1, <3>3, <3>5
    <3> QED
      BY <3>4, <3>5
  <2>3. r' \in RunnerRecords /\ r'.originalHead = r.originalHead
    BY <1>r, <2>1, <2>2 DEF RunnerRecords
  <2> QED
    BY <1>14, <2>3 DEF ExecExits, IOOK, TypeOK, Labels, Ended, UntilGate, origin, env
<1>15. CASE KillCommand
  <2>1. r' \in RunnerRecords /\ r'.originalHead = r.originalHead
    <3>1. CASE pc = "child"
      <4>1. PICK late \in BOOLEAN :
                r' = [r EXCEPT !.cmdResult = [exitCode |-> 1, timedOut |-> late]]
        BY <1>15, <3>1 DEF KillCommand
      <4> QED
        BY <1>r, <4>1 DEF RunnerRecords
    <3>2. CASE pc = "exec"
      <4>1. r.execsLeft > 0 /\ r.execsLeft \in Nat
        BY <1>r, <3>2 DEF TypeOK, RunnerRecords
      <4>2. r.execsLeft - 1 \in Nat
        BY <4>1
      <4>3. r' = [r EXCEPT !.execsLeft = @ - 1, !.execExit = 1]
        BY <1>15, <3>2 DEF KillCommand
      <4> QED
        BY <1>r, <4>2, <4>3 DEF RunnerRecords
    <3> QED
      BY <1>15, <3>1, <3>2 DEF KillCommand
  <2> QED
    BY <1>15, <2>1 DEF KillCommand, IOOK, TypeOK, Labels, Ended, UntilGate, origin, env
<1>16. CASE RunExecCommands
  <2>1. r.execsLeft \in Nat
    BY <1>r DEF RunnerRecords
  <2>2. /\ r' \in RunnerRecords /\ r'.originalHead = r.originalHead
        /\ pc' = "exec" => r'.execsLeft > 0
    <3>1. CASE r.execsLeft = 0 \/ r.cmdResult.timedOut
      <4>1. r' = [r EXCEPT !.cmdResult.exitCode = IF @ = 0 THEN r.execExit ELSE @]
            /\ pc' # "exec"
        BY <1>16, <3>1 DEF RunExecCommands
      <4>2. (IF r.cmdResult.exitCode = 0 THEN r.execExit ELSE r.cmdResult.exitCode) \in Nat
        BY <1>r DEF RunnerRecords
      <4> QED
        BY <1>r, <4>1, <4>2 DEF RunnerRecords
    <3>2. CASE ~(r.execsLeft = 0 \/ r.cmdResult.timedOut) /\ cancelled
      <4>1. r' = [r EXCEPT !.execsLeft = @ - 1, !.execExit = 1] /\ pc' # "exec"
        BY <1>16, <3>2 DEF RunExecCommands
      <4>2. r.execsLeft - 1 \in Nat
        BY <2>1, <3>2
      <4> QED
        BY <1>r, <4>1, <4>2 DEF RunnerRecords
    <3>3. CASE ~(r.execsLeft = 0 \/ r.cmdResult.timedOut) /\ ~cancelled
      BY <1>16, <1>r, <2>1, <3>3 DEF RunExecCommands
    <3> QED
      BY <3>1, <3>2, <3>3
  <2>3. pc' \in {"snapshot", "execs", "exec"} /\ exit' \in Nat
    BY <1>16, <1>e DEF RunExecCommands
  <2> QED
    BY <1>16, <2>2, <2>3 DEF RunExecCommands, IOOK, TypeOK, Labels, Ended, UntilGate, origin, env
<1>17. CASE WriteSnapshot
  <2>1. budget' \in Budgets
    BY <1>17, <1>t, BudgetType DEF WriteSnapshot
  <2>2. files' \subseteq Files
    BY <1>17, <1>t DEF WriteSnapshot, Files
  <2> QED
    BY <1>17, <2>1, <2>2 DEF WriteSnapshot, TypeOK, Labels, Ended, UntilGate, origin, env
<1>18. CASE CapturePatch
  <2>1. budget' \in Budgets
    BY <1>18, <1>t, BudgetType DEF CapturePatch
  <2>2. CapturedPatch \in Patches
    <3>1. r.baselineRef \in Trees /\ worktree.index \in Trees /\ worktree.tree \in Trees
      BY <1>r, <1>t DEF RunnerRecords, Worktrees
    <3>2. opts.includeIgnored \in BOOLEAN
      BY DEF TypeOK, OptionRecords
    <3> QED
      BY <3>1, <3>2, CapturedPatchType
  <2>3. r' \in RunnerRecords /\ r'.originalHead = r.originalHead
    BY <1>18, <1>r, <2>2 DEF CapturePatch, RunnerRecords
  <2>4. pc' \in {"menu", "save", "emit"} /\ exit' \in Nat
    BY <1>18, <1>e DEF CapturePatch
  <2> QED
    BY <1>18, <2>1, <2>3, <2>4 DEF CapturePatch, TypeOK, Labels, Ended, UntilGate, origin, env
<1>19. CASE SaveRequested
  <2>1. budget' \in Budgets
    BY <1>19, <1>t, BudgetType DEF SaveRequested, SaveTo, SaveFails
  <2>2. /\ r' \in RunnerRecords /\ r'.originalHead = r.originalHead
        /\ files' \subseteq Files
    BY <1>19, <1>r, <1>t, SaveType DEF SaveRequested, Files
  <2>3. pc' \in {"stdout", "emit"} /\ exit' \in Nat
    BY <1>19, <1>e DEF SaveRequested
  <2> QED
    BY <1>19, <2>1, <2>2, <2>3 DEF SaveRequested, TypeOK, Labels, Ended, UntilGate, origin, env
<1>20. CASE WriteStdout
  <2>1. budget' \in Budgets
    BY <1>20, <1>t, BudgetType DEF WriteStdout
  <2>2. out' \in Outputs
    <3>1. opts.stdout \in BOOLEAN
      BY DEF TypeOK, OptionRecords
    <3> QED
      BY <1>20, <1>t, <3>1 DEF WriteStdout, Outputs
  <2>3. pc' \in {"driftStatus", "fallback", "emit"} /\ exit' \in Nat
    BY <1>20, <1>e DEF WriteStdout
  <2> QED
    BY <1>20, <2>1, <2>2, <2>3 DEF WriteStdout, TypeOK, Labels, Ended, UntilGate, origin, env
<1>21. CASE DefaultSave
  <2>1. budget' \in Budgets
    BY <1>21, <1>t, BudgetType DEF DefaultSave, SaveTo, SaveFails
  <2>2. /\ r' \in RunnerRecords /\ r'.originalHead = r.originalHead
        /\ files' \subseteq Files
    BY <1>21, <1>r, <1>t, SaveType DEF DefaultSave, Files
  <2>3. pc' = "emit" /\ exit' \in Nat
    BY <1>21, <1>e DEF DefaultSave
  <2> QED
    BY <1>21, <2>1, <2>2, <2>3 DEF DefaultSave, TypeOK, Labels, Ended, UntilGate, origin, env
<1>22. CASE AskMenu
  <2>1. budget' \in Budgets
    BY <1>22, <1>t, BudgetType DEF AskMenu
  <2>2. /\ r' \in RunnerRecords /\ r'.originalHead = r.originalHead
        /\ seen' \in Histories
    <3>1. CASE UNCHANGED <<r, seen>>
      BY <1>r, <1>t, <3>1
    <3>2. CASE \E a \in Answers : /\ seen' = [seen EXCEPT !.asked = @ \cup {a}]
                                 /\ r' = [r EXCEPT !.keep = @ \/ a = "keep"]
      <4>1. PICK a \in Answers : /\ seen' = [seen EXCEPT !.asked = @ \cup {a}]
                                /\ r' = [r EXCEPT !.keep = @ \/ a = "keep"]
        BY <3>2
      <4>2. seen' \in Histories
        BY <1>t, <4>1 DEF Histories
      <4> QED
        BY <1>r, <4>1, <4>2 DEF RunnerRecords
    <3> QED
      BY <1>22, <3>1, <3>2 DEF AskMenu
  <2>3. pc' \in {"driftStatus", "askPath", "menu", "emit"} /\ exit' \in Nat
    BY <1>22, <1>e DEF AskMenu, DiscardCode
  <2> QED
    BY <1>22, <2>1, <2>2, <2>3 DEF AskMenu, TypeOK, Labels, Ended, UntilGate, origin, env
<1>23. CASE AskPath
  <2>1. budget' \in Budgets
    BY <1>23, <1>t, BudgetType DEF AskPath
  <2>2. r' \in RunnerRecords /\ r'.originalHead = r.originalHead
    BY <1>23, <1>r DEF AskPath, RunnerRecords
  <2> QED
    BY <1>23, <2>1, <2>2 DEF AskPath, TypeOK, Labels, Ended, UntilGate, origin, env
<1>24. CASE MenuSave
  <2>1. budget' \in Budgets
    BY <1>24, <1>t, BudgetType DEF MenuSave, SaveTo, SaveFails
  <2>2. /\ r' \in RunnerRecords /\ r'.originalHead = r.originalHead
        /\ files' \subseteq Files
    <3>1. r.menuPath \in Files
      BY <1>r DEF RunnerRecords, Files
    <3> QED
      BY <1>24, <1>r, <1>t, <3>1, SaveType DEF MenuSave
  <2>3. pc' \in {"menu", "emit"} /\ exit' \in Nat
    BY <1>24, <1>e DEF MenuSave
  <2> QED
    BY <1>24, <2>1, <2>2, <2>3 DEF MenuSave, TypeOK, Labels, Ended, UntilGate, origin, env
<1>25. CASE DriftStatus
  <2>1. budget' \in Budgets
    BY <1>25, <1>t, BudgetType DEF DriftStatus
  <2>2. r' \in RunnerRecords /\ r'.originalHead = r.originalHead
    BY <1>25, <1>r, <1>s DEF DriftStatus, RunnerRecords
  <2> QED
    BY <1>25, <2>1, <2>2 DEF DriftStatus, TypeOK, Labels, Ended, UntilGate, origin, env
<1>26. CASE DriftHead
  <2>1. budget' \in Budgets
    BY <1>26, <1>t, BudgetType DEF DriftHead
  <2> QED
    BY <1>26, <2>1 DEF DriftHead, TypeOK, Labels, Ended, UntilGate, origin, env
<1>27. CASE ApplyCheck
  <2>1. budget' \in Budgets
    BY <1>27, <1>t, BudgetType DEF ApplyCheck
  <2>2. pc' \in {"apply", "refused", "emit"} /\ exit' \in Nat
    BY <1>27, <1>e DEF ApplyCheck
  <2> QED
    BY <1>27, <2>1, <2>2 DEF ApplyCheck, TypeOK, Labels, Ended, UntilGate, origin, env
<1>28. CASE AutoSave
  <2>1. budget' \in Budgets
    BY <1>28, <1>t, BudgetType DEF AutoSave, SaveTo, SaveFails
  <2>2. /\ r' \in RunnerRecords /\ r'.originalHead = r.originalHead
        /\ files' \subseteq Files
    <3>1. CASE SaveTo("default") \/ SaveFails
      BY <3>1, <1>r, <1>t, SaveType DEF Files
    <3>2. CASE UNCHANGED <<files, r>>
      BY <3>2, <1>r, <1>t
    <3> QED
      BY <1>28, <3>1, <3>2 DEF AutoSave
  <2>3. \/ pc' = "threeWay" /\ exit' = exit
        \/ pc' = "emit" /\ exit' = 6
    BY <1>28 DEF AutoSave
  <2>4. UNCHANGED <<opts, commits, index, work, worktree, out, cancelled, seen>>
    BY <1>28 DEF AutoSave, env
  <2>5. pc \in {"drifted", "refused"}
    BY <1>28 DEF AutoSave
  <2> QED
    BY <1>e, <2>1, <2>2, <2>3, <2>4, <2>5 DEF TypeOK, Labels, Ended, UntilGate
<1>29. CASE Apply
  <2>1. budget' \in Budgets
    BY <1>29, <1>t, BudgetType DEF Apply
  <2>2. Effect \in Patches
    BY <1>r, EffectType DEF RunnerRecords
  <2>3. \A ps \in SUBSET Paths : ApplyTo(Effect, work, ps) \in Trees
    BY <1>t, <2>2, ApplyToType
  <2>4. work' \in Trees
    BY <1>29, <1>t, <2>3, MixedType DEF Apply, Applied, PartlyWritten
  <2>5. r' \in RunnerRecords /\ r'.originalHead = r.originalHead
    BY <1>29, <1>r DEF Apply, Applied, RunnerRecords
  <2>6. pc' = "emit" /\ exit' \in Nat
    BY <1>29, <1>e DEF Apply, Applied
  <2> QED
    BY <1>29, <2>1, <2>4, <2>5, <2>6 DEF Apply, TypeOK, Labels, Ended, UntilGate, origin, env
<1>30. CASE Apply3Way
  <2>1. budget' \in Budgets
    BY <1>30, <1>t, BudgetType DEF Apply3Way
  <2>4. work' \in Trees /\ index' \in Trees
    BY <1>30, ThreeWayType
  <2>5. r' \in RunnerRecords /\ r'.originalHead = r.originalHead
    BY <1>30, <1>r DEF Apply3Way, Applied, RunnerRecords
  <2>6. pc' = "emit" /\ exit' \in Nat
    BY <1>30, <1>e DEF Apply3Way, Applied
  <2> QED
    BY <1>30, <2>1, <2>4, <2>5, <2>6 DEF Apply3Way, TypeOK, Labels, Ended, UntilGate, origin, env
<1>31. CASE EmitJSON
  <2>1. out' \in Outputs
    <3>1. /\ r.applied \in BOOLEAN /\ (r.keep \/ opts.keep) \in BOOLEAN
          /\ r.savedPath \in Files \cup {""}
      BY <1>r DEF RunnerRecords
    <3>2. [emitted |-> TRUE, applied |-> r.applied, kept |-> r.keep \/ opts.keep,
           saved |-> r.savedPath, exit |-> exit] \in Reports
      BY <1>e, <3>1 DEF Reports
    <3> QED
      BY <1>31, <1>t, <3>2 DEF EmitJSON, Outputs
  <2> QED
    BY <1>31, <2>1 DEF EmitJSON, IOOK, TypeOK, Labels, Ended, UntilGate, origin, env
<1>32. CASE RemoveWorktree
  <2>1. budget' \in Budgets
    BY <1>32, <1>t, BudgetType DEF RemoveWorktree
  <2>2. /\ NoWorktree \in Worktrees
        /\ [NoWorktree EXCEPT !.handle = worktree.handle] \in Worktrees
    BY <1>t, EmptyTreeType DEF Worktrees, NoWorktree
  <2>3. worktree' \in Worktrees
    BY <1>32, <1>t, <2>2 DEF RemoveWorktree
  <2> QED
    BY <1>32, <2>1, <2>3 DEF RemoveWorktree, TypeOK, Labels, Ended, UntilGate, origin, env
<1>33. CASE RemoveAll
  <2>1. budget' \in Budgets
    BY <1>33, <1>t, BudgetType DEF RemoveAll
  <2>2. /\ NoWorktree \in Worktrees
        /\ [NoWorktree EXCEPT !.handle = worktree.handle] \in Worktrees
    BY <1>t, EmptyTreeType DEF Worktrees, NoWorktree
  <2>3. worktree' \in Worktrees
    BY <1>33, <1>t, <2>2 DEF RemoveAll
  <2> QED
    BY <1>33, <2>1, <2>3 DEF RemoveAll, TypeOK, Labels, Ended, UntilGate, origin, env
<1>34. CASE OthersEdit
  <2>1. budget' \in Budgets
    BY <1>34, <1>t DEF OthersEdit, Budgets
  <2>2. work' \in Trees
    BY <1>34, <1>t DEF OthersEdit, Trees, Contents
  <2> QED
    BY <1>34, <2>1, <2>2 DEF OthersEdit, TypeOK, Labels, Ended, UntilGate, origin, env
<1>35. CASE OthersCommit
  <2>1. budget' \in Budgets
    BY <1>35, <1>t, CommitChanges DEF Budgets
  <2>2. seen' \in Histories
    BY <1>35, <1>t DEF OthersCommit, Histories
  <2>3. /\ index' \in Trees
        /\ commits' \in Seq(Trees) /\ Len(commits') = Len(commits) + 1
        /\ UNCHANGED <<opts, pc, exit, r, work, files, worktree, out, cancelled>>
    BY <1>35, CommitChanges
  <2>4. pc \notin {"resolve", "head"} \cup Ended => r.originalHead \in 1 .. Len(commits')
    BY <1>c, <2>3 DEF TypeOK
  <2>5. Len(commits') > 0
    BY <1>c, <2>3
  <2> QED
    BY <2>1, <2>2, <2>3, <2>4, <2>5 DEF TypeOK, Ended
<1>36. CASE Interrupt
  <2>1. budget' \in Budgets
    BY <1>36, <1>t DEF Interrupt, Budgets
  <2> QED
    BY <1>36, <2>1 DEF Interrupt, TypeOK, Labels, Ended, UntilGate, origin, env
<1>37. CASE Exited
  BY <1>37 DEF Exited, vars, TypeOK
<1>38. CASE UNCHANGED vars
  BY <1>38 DEF vars, TypeOK
<1>39. CASE OthersStage
  <2>1. budget' \in Budgets
    BY <1>39, <1>t, StageChanges DEF Budgets
  <2> QED
    BY <1>39, <2>1, StageChanges DEF TypeOK, Ended
<1> QED
  BY <1>1, <1>2, <1>3, <1>4, <1>5, <1>6, <1>7, <1>8, <1>9, <1>10,
     <1>11, <1>12, <1>13, <1>14, <1>15, <1>16, <1>17, <1>18, <1>19, <1>20,
     <1>21, <1>22, <1>23, <1>24, <1>25, <1>26, <1>27, <1>28, <1>29, <1>30,
     <1>31, <1>32, <1>33, <1>34, <1>35, <1>36, <1>37, <1>38, <1>39
  DEF Next, Program, Prompts, CommandEnds, Others

\* Every variable stays within its type in every run of patchrun: with any
\* options, any repository, any faults, and whatever others do meanwhile.
THEOREM TypeCorrect == Spec => []TypeOK
<1>1. Init => TypeOK
  BY InitType
<1>2. TypeOK /\ [Next]_vars => TypeOK'
  BY StepType
<1> QED
  BY <1>1, <1>2, PTL DEF Spec

-----------------------------------------------------------------------------
(* A HEAD that moved before the gate.                                      *)

\* A commit made before the check for drift shows in the number of commits at
\* that check, and nothing but the writes that end the run sets `applied`.
HeadGuard ==
    /\ seen.moved = "before" =>
          /\ Len(commits) > r.originalHead /\ pc \notin {"resolve", "head"}
          /\ pc \notin Vetted /\ ~r.applied
    /\ r.applied => pc \in Ended

\* A step that leaves alone what HeadGuard is about, passes no gate and does
\* not come back from the end.
LEMMA HeadGuardFrame ==
    ASSUME HeadGuard, UNCHANGED commits, seen'.moved = seen.moved,
           r'.originalHead = r.originalHead, r'.applied = r.applied,
           pc' = pc \/ pc' \notin {"resolve", "head"},
           pc' \in Vetted => pc \in Vetted, pc \in Ended => pc' \in Ended
    PROVE  HeadGuard'
BY DEF HeadGuard

LEMMA HeadGuardStep == TypeOK /\ HeadGuard /\ [Next]_vars => HeadGuard'
<1> SUFFICES ASSUME TypeOK, HeadGuard, [Next]_vars PROVE HeadGuard'
  OBVIOUS
<1> USE DEF Goto, Stop
<1>r. r \in RunnerRecords
  BY DEF TypeOK
<1>1. CASE ResolveRepo
  <2>1. seen.moved # "before" /\ ~r.applied
    BY <1>1 DEF ResolveRepo, HeadGuard, Ended
  <2>2. UNCHANGED <<r, seen>>
    BY <1>1 DEF ResolveRepo, env
  <2> QED
    BY <2>1, <2>2 DEF HeadGuard
<1>2. CASE ReadHead
  <2>1. seen'.moved # "before"
    BY <1>2 DEF ReadHead, HeadGuard, env
  <2>2. r'.applied = r.applied
    BY <1>2, <1>r DEF ReadHead, RunnerRecords
  <2>3. ~r.applied
    BY <1>2 DEF ReadHead, HeadGuard, Ended
  <2> QED
    BY <2>1, <2>2, <2>3 DEF HeadGuard
<1>3. CASE ReadStatus
  <2>1. r'.originalHead = r.originalHead /\ r'.applied = r.applied
    BY <1>3, <1>r DEF ReadStatus, DirtyPolicy, RunnerRecords
  <2> QED
    BY <1>3, <2>1, HeadGuardFrame DEF ReadStatus, DirtyPolicy, Vetted, Ended, origin, env
<1>4. CASE ConfirmDirty
  BY <1>4, HeadGuardFrame DEF ConfirmDirty, Vetted, Ended, origin, env
<1>5. CASE SetupWorktree
  <2>1. r'.originalHead = r.originalHead /\ r'.applied = r.applied
    BY <1>5, <1>r DEF SetupWorktree, RunnerRecords
  <2> QED
    BY <1>5, <2>1, HeadGuardFrame DEF SetupWorktree, Vetted, Ended, origin, env
<1>6. CASE ReplayTracked
  BY <1>6, HeadGuardFrame DEF ReplayTracked, Vetted, Ended, origin, env
<1>7. CASE ListUntracked
  <2>1. r'.originalHead = r.originalHead /\ r'.applied = r.applied
    BY <1>7, <1>r DEF ListUntracked, RunnerRecords
  <2> QED
    BY <1>7, <2>1, HeadGuardFrame DEF ListUntracked, Vetted, Ended, origin, env
<1>8. CASE CopyUntracked
  <2>1. r'.originalHead = r.originalHead /\ r'.applied = r.applied
    BY <1>8, <1>r DEF CopyUntracked, RunnerRecords
  <2> QED
    BY <1>8, <2>1, HeadGuardFrame DEF CopyUntracked, Vetted, Ended, origin, env
<1>9. CASE CommitBaseline
  <2>1. r'.originalHead = r.originalHead /\ r'.applied = r.applied
    BY <1>9, <1>r DEF CommitBaseline, RunnerRecords
  <2> QED
    BY <1>9, <2>1, HeadGuardFrame DEF CommitBaseline, Vetted, Ended, origin, env
<1>10. CASE RunChildCommand
  <2>1. r'.originalHead = r.originalHead /\ r'.applied = r.applied
    BY <1>10, <1>r DEF RunChildCommand, Start, RunnerRecords
  <2> QED
    BY <1>10, <2>1, HeadGuardFrame DEF RunChildCommand, Start, Vetted, Ended, origin, env
<1>11. CASE ConfirmPTY
  <2>1. r'.originalHead = r.originalHead /\ r'.applied = r.applied
    BY <1>11, <1>r DEF ConfirmPTY, Start, RunnerRecords
  <2> QED
    BY <1>11, <2>1, HeadGuardFrame DEF ConfirmPTY, Start, Vetted, Ended, origin, env
<1>12. CASE CommandWrites
  <2>1. seen'.moved = seen.moved
    BY <1>12 DEF CommandWrites, TypeOK, Histories
  <2> QED
    BY <1>12, <2>1, HeadGuardFrame DEF CommandWrites, origin
<1>13. CASE ChildExits
  <2>1. r'.originalHead = r.originalHead /\ r'.applied = r.applied
    BY <1>13, <1>r DEF ChildExits, RunnerRecords
  <2> QED
    BY <1>13, <2>1, HeadGuardFrame DEF ChildExits, Vetted, Ended, origin, env
<1>14. CASE ExecExits
  <2>1. r'.originalHead = r.originalHead /\ r'.applied = r.applied
    BY <1>14, <1>r DEF ExecExits, RunnerRecords
  <2> QED
    BY <1>14, <2>1, HeadGuardFrame DEF ExecExits, Vetted, Ended, origin, env
<1>15. CASE KillCommand
  <2>1. r'.originalHead = r.originalHead /\ r'.applied = r.applied
    BY <1>15, <1>r DEF KillCommand, RunnerRecords
  <2> QED
    BY <1>15, <2>1, HeadGuardFrame DEF KillCommand, Vetted, Ended, origin, env
<1>16. CASE RunExecCommands
  <2>1. r'.originalHead = r.originalHead /\ r'.applied = r.applied
    BY <1>16, <1>r DEF RunExecCommands, RunnerRecords
  <2> QED
    BY <1>16, <2>1, HeadGuardFrame DEF RunExecCommands, Vetted, Ended, origin, env
<1>17. CASE WriteSnapshot
  BY <1>17, HeadGuardFrame DEF WriteSnapshot, Vetted, Ended, origin, env
<1>18. CASE CapturePatch
  <2>1. r'.originalHead = r.originalHead /\ r'.applied = r.applied
    BY <1>18, <1>r DEF CapturePatch, RunnerRecords
  <2> QED
    BY <1>18, <2>1, HeadGuardFrame DEF CapturePatch, Vetted, Ended, origin, env
<1>19. CASE SaveRequested
  <2>1. r'.originalHead = r.originalHead /\ r'.applied = r.applied
    BY <1>19, <1>r DEF SaveRequested, SaveTo, SaveFails, RunnerRecords
  <2> QED
    BY <1>19, <2>1, HeadGuardFrame DEF SaveRequested, SaveTo, SaveFails, Vetted, Ended, origin, env
<1>20. CASE WriteStdout
  BY <1>20, HeadGuardFrame DEF WriteStdout, Vetted, Ended, origin, env
<1>21. CASE DefaultSave
  <2>1. r'.originalHead = r.originalHead /\ r'.applied = r.applied
    BY <1>21, <1>r DEF DefaultSave, SaveTo, SaveFails, RunnerRecords
  <2> QED
    BY <1>21, <2>1, HeadGuardFrame DEF DefaultSave, SaveTo, SaveFails, Vetted, Ended, origin, env
<1>22. CASE AskMenu
  <2>1. /\ seen'.moved = seen.moved
        /\ r'.originalHead = r.originalHead /\ r'.applied = r.applied
    BY <1>22, <1>r DEF AskMenu, RunnerRecords, TypeOK, Histories
  <2>2. UNCHANGED commits /\ pc = "menu"
    BY <1>22 DEF AskMenu, origin
  <2>3. pc' \in {"driftStatus", "askPath", "menu", "emit"}
    BY <1>22 DEF AskMenu
  <2> QED
    BY <2>1, <2>2, <2>3, HeadGuardFrame DEF Vetted, Ended
<1>23. CASE AskPath
  <2>1. r'.originalHead = r.originalHead /\ r'.applied = r.applied
    BY <1>23, <1>r DEF AskPath, RunnerRecords
  <2> QED
    BY <1>23, <2>1, HeadGuardFrame DEF AskPath, Vetted, Ended, origin, env
<1>24. CASE MenuSave
  <2>1. r'.originalHead = r.originalHead /\ r'.applied = r.applied
    BY <1>24, <1>r DEF MenuSave, SaveTo, SaveFails, RunnerRecords
  <2> QED
    BY <1>24, <2>1, HeadGuardFrame DEF MenuSave, SaveTo, SaveFails, Vetted, Ended, origin, env
<1>25. CASE DriftStatus
  <2>1. r'.originalHead = r.originalHead /\ r'.applied = r.applied
    BY <1>25, <1>r DEF DriftStatus, RunnerRecords
  <2> QED
    BY <1>25, <2>1, HeadGuardFrame DEF DriftStatus, Vetted, Ended, origin, env
<1>26. CASE DriftHead
  <2>1. seen.moved = "before" => pc' \notin Vetted
    <3>1. r.originalHead \in Nat
      BY <1>r DEF RunnerRecords
    <3>2. Len(commits) \in Nat
      BY DEF TypeOK
    <3>3. seen.moved = "before" => Drifted
      BY <3>1, <3>2 DEF HeadGuard, Drifted
    <3> QED
      BY <1>26, <3>3 DEF DriftHead, Vetted
  <2>2. pc' \notin {"resolve", "head"} /\ UNCHANGED <<r, commits, seen>>
    BY <1>26 DEF DriftHead, origin, env
  <2>3. ~r.applied
    BY <1>26 DEF DriftHead, HeadGuard, Ended
  <2> QED
    BY <2>1, <2>2, <2>3 DEF HeadGuard
<1>27. CASE ApplyCheck
  BY <1>27, HeadGuardFrame DEF ApplyCheck, Vetted, Ended, origin, env
<1>28. CASE AutoSave
  <2>1. r'.originalHead = r.originalHead /\ r'.applied = r.applied
    BY <1>28, <1>r DEF AutoSave, SaveTo, SaveFails, RunnerRecords
  <2> QED
    BY <1>28, <2>1, HeadGuardFrame DEF AutoSave, SaveTo, SaveFails, Vetted, Ended, origin, env
<1>29. CASE Apply
  <2>1. seen.moved # "before" /\ UNCHANGED seen /\ pc' = "emit"
    BY <1>29 DEF Apply, Applied, HeadGuard, Vetted, env
  <2> QED
    BY <2>1 DEF HeadGuard, Ended
<1>30. CASE Apply3Way
  <2>1. seen.moved # "before" /\ UNCHANGED seen /\ pc' = "emit"
    BY <1>30 DEF Apply3Way, Applied, HeadGuard, Vetted, env
  <2> QED
    BY <2>1 DEF HeadGuard, Ended
<1>31. CASE EmitJSON
  BY <1>31, HeadGuardFrame DEF EmitJSON, Vetted, Ended, origin, env
<1>32. CASE RemoveWorktree
  BY <1>32, HeadGuardFrame DEF RemoveWorktree, Vetted, Ended, origin, env
<1>33. CASE RemoveAll
  BY <1>33, HeadGuardFrame DEF RemoveAll, Vetted, Ended, origin, env
<1>34. CASE OthersEdit
  BY <1>34, HeadGuardFrame DEF OthersEdit, Vetted, Ended, origin, env
<1>35. CASE OthersCommit
  <2>1. Len(commits') > Len(commits) /\ Len(commits) \in Nat /\ Len(commits') \in Nat
    BY <1>35, CommitChanges DEF TypeOK
  <2>2. UNCHANGED <<r, pc>>
    BY <1>35 DEF OthersCommit
  <2>3. r.originalHead \in Nat
    BY <1>r DEF RunnerRecords
  <2>4. seen'.moved = "before" => pc \in UntilGate \/ seen.moved = "before"
    BY <1>35 DEF OthersCommit, TypeOK, Histories
  <2>5. pc \in UntilGate =>
          /\ pc \notin {"resolve", "head"} \cup Vetted \cup Ended
          /\ r.originalHead <= Len(commits)
    BY DEF UntilGate, Vetted, Ended, TypeOK
  <2> QED
    BY <2>1, <2>2, <2>3, <2>4, <2>5 DEF HeadGuard
<1>36. CASE Interrupt
  BY <1>36, HeadGuardFrame DEF Interrupt, Vetted, Ended, origin, env
<1>37. CASE Exited
  BY <1>37, HeadGuardFrame DEF Exited, vars
<1>38. CASE UNCHANGED vars
  BY <1>38, HeadGuardFrame DEF vars
<1>39. CASE OthersStage
  BY <1>39, HeadGuardFrame DEF OthersStage
<1> QED
  BY <1>1, <1>2, <1>3, <1>4, <1>5, <1>6, <1>7, <1>8, <1>9, <1>10,
     <1>11, <1>12, <1>13, <1>14, <1>15, <1>16, <1>17, <1>18, <1>19, <1>20,
     <1>21, <1>22, <1>23, <1>24, <1>25, <1>26, <1>27, <1>28, <1>29, <1>30,
     <1>31, <1>32, <1>33, <1>34, <1>35, <1>36, <1>37, <1>38, <1>39
  DEF Next, Program, Prompts, CommandEnds, Others

LEMMA HeadGuardHolds == Spec => []HeadGuard
<1>1. Init => HeadGuard
  <2> SUFFICES ASSUME Init PROVE HeadGuard
    OBVIOUS
  <2>1. seen.moved = "no"
    BY DEF Init
  <2>2. ~r.applied
    BY DEF Init
  <2> QED
    BY <2>1, <2>2 DEF HeadGuard
<1>2. TypeOK /\ HeadGuard /\ [Next]_vars => HeadGuard'
  BY HeadGuardStep
<1> QED
  BY <1>1, <1>2, TypeCorrect, PTL DEF Spec

\* A commit that somebody made while the run was on, before its check for
\* drift, is never written over: applyToOriginal compares HEAD after it has
\* read the status, and nothing reaches git apply but through it.
THEOREM DriftedHeadSafe == Spec => []DriftedHeadIsLeftAlone
<1>1. HeadGuard => DriftedHeadIsLeftAlone
  BY DEF HeadGuard, DriftedHeadIsLeftAlone
<1> QED
  BY <1>1, HeadGuardHolds, PTL

-----------------------------------------------------------------------------
(* Who writes the working tree, and with what.                             *)

LEMMA WhoWrites ==
    ASSUME [Next]_vars, work' # work
    PROVE  Apply \/ Apply3Way \/ OthersEdit
<1>1. ~ResolveRepo
  BY DEF ResolveRepo, origin
<1>2. ~ReadHead
  BY DEF ReadHead, origin
<1>3. ~ReadStatus
  BY DEF ReadStatus, origin
<1>4. ~ConfirmDirty
  BY DEF ConfirmDirty, origin
<1>5. ~SetupWorktree
  BY DEF SetupWorktree, origin
<1>6. ~ReplayTracked
  BY DEF ReplayTracked, origin
<1>7. ~ListUntracked
  BY DEF ListUntracked, origin
<1>8. ~CopyUntracked
  BY DEF CopyUntracked, origin
<1>9. ~CommitBaseline
  BY DEF CommitBaseline, origin
<1>10. ~RunChildCommand
  BY DEF RunChildCommand, origin
<1>11. ~ConfirmPTY
  BY DEF ConfirmPTY, origin
<1>12. ~CommandWrites
  BY DEF CommandWrites, origin
<1>13. ~ChildExits
  BY DEF ChildExits, origin
<1>14. ~ExecExits
  BY DEF ExecExits, origin
<1>15. ~KillCommand
  BY DEF KillCommand, origin
<1>16. ~RunExecCommands
  BY DEF RunExecCommands, origin
<1>17. ~WriteSnapshot
  BY DEF WriteSnapshot
<1>18. ~CapturePatch
  BY DEF CapturePatch, origin
<1>19. ~SaveRequested
  BY DEF SaveRequested
<1>20. ~WriteStdout
  BY DEF WriteStdout, origin
<1>21. ~DefaultSave
  BY DEF DefaultSave
<1>22. ~AskMenu
  BY DEF AskMenu, origin
<1>23. ~AskPath
  BY DEF AskPath, origin
<1>24. ~MenuSave
  BY DEF MenuSave
<1>25. ~DriftStatus
  BY DEF DriftStatus, origin
<1>26. ~DriftHead
  BY DEF DriftHead, origin
<1>27. ~ApplyCheck
  BY DEF ApplyCheck, origin
<1>28. ~AutoSave
  BY DEF AutoSave
<1>29. ~EmitJSON
  BY DEF EmitJSON, origin
<1>30. ~RemoveWorktree
  BY DEF RemoveWorktree, origin
<1>31. ~RemoveAll
  BY DEF RemoveAll, origin
<1>32. ~OthersCommit /\ ~OthersStage
  BY DEF OthersCommit, OthersStage
<1>33. ~Interrupt
  BY DEF Interrupt, origin
<1>34. ~Exited
  BY DEF Exited, vars
<1>35. vars' # vars
  BY DEF vars
<1> QED
  BY <1>1, <1>2, <1>3, <1>4, <1>5, <1>6, <1>7, <1>8, <1>9, <1>10,
     <1>11, <1>12, <1>13, <1>14, <1>15, <1>16, <1>17, <1>18, <1>19, <1>20,
     <1>21, <1>22, <1>23, <1>24, <1>25, <1>26, <1>27, <1>28, <1>29, <1>30,
     <1>31, <1>32, <1>33, <1>34, <1>35
  DEF Next, Program, Prompts, CommandEnds, Others

\* A run that reports the patch as not applied has not touched the tree, but for
\* conflicts, a git that was killed and a git that failed: git apply writes all
\* or nothing, and the code writes through nothing else.
THEOREM RefusalSafe == Spec => RefusalLeavesTree
<1>1. ASSUME TypeOK, [Next]_vars, work' # work, exit' = ExitApplyFailed
      PROVE  pc = "threeWay" \/ cancelled \/ budget' # budget
  <2>1. CASE Apply3Way
    BY <2>1 DEF Apply3Way
  <2>2. CASE OthersEdit
    <3>1. budget.edits \in Nat
      BY <1>1 DEF TypeOK, Budgets
    <3>2. budget' = [budget EXCEPT !.edits = @ - 1]
      BY <2>2 DEF OthersEdit
    <3>3. budget'.edits = budget.edits - 1
      BY <1>1, <3>2 DEF TypeOK, Budgets
    <3>4. budget'.edits # budget.edits
      BY <3>1, <3>3
    <3> QED
      BY <3>4
  <2>3. CASE Apply
    <3>1. CASE GitErr
      <4>1. CASE IOErr
        <5>1. budget.faults \in Nat
          BY <1>1 DEF TypeOK, Budgets
        <5>2. budget'.faults = budget.faults - 1
          BY <1>1, <4>1 DEF IOErr, TypeOK, Budgets
        <5>3. budget'.faults # budget.faults
          BY <5>1, <5>2
        <5> QED
          BY <5>3
      <4> QED
        BY <3>1, <4>1 DEF GitErr
    <3>2. CASE ~GitErr
      <4>1. Applied(ApplyTo(Effect, work, Paths))
        BY <1>1, <2>3, <3>2 DEF Apply
      <4>2. exit' = Outcome(ExitOK)
        BY <4>1 DEF Applied, Stop
      <4>3. Outcome(ExitOK) # ExitApplyFailed
        BY DEF Outcome, ExitOK, ExitTimeout, ExitChildFailed, ExitApplyFailed
      <4> QED
        BY <1>1, <4>2, <4>3
    <3> QED
      BY <3>1, <3>2
  <2> QED
    BY <1>1, <2>1, <2>2, <2>3, WhoWrites
<1> QED
  BY <1>1, TypeCorrect, PTL DEF Spec, RefusalLeavesTree

\* Whether --reverse is given or not, what git apply is made to do with the
\* captured patch is to redo the command's changes: capturePatch reverses the
\* diff (-R) and applyToOriginal reverses it back (--reverse).
THEOREM ReverseCancels ==
    ASSUME TypeOK, CapturePatch, pc' # "emit"
    PROVE  Effect' = Limit(Diff(r.baselineRef, StageAll(worktree.index,
                        worktree.tree, opts.includeIgnored)), Selected)
<1> DEFINE forward == Limit(Diff(r.baselineRef, StageAll(worktree.index,
                        worktree.tree, opts.includeIgnored)), Selected)
<1>1. r \in RunnerRecords /\ worktree \in Worktrees
  BY DEF TypeOK
<1>2. r.baselineRef \in Trees /\ worktree.index \in Trees /\ worktree.tree \in Trees
  BY <1>1 DEF RunnerRecords, Worktrees
<1>3. opts.includeIgnored \in BOOLEAN
  BY DEF TypeOK, OptionRecords
<1>4. forward \in Patches
  BY <1>2, <1>3, StageAllType, DiffType, LimitType
<1>5. r' = [r EXCEPT !.patchBytes = CapturedPatch] /\ opts' = opts
  BY DEF CapturePatch, Stop, env
<1>6. r'.patchBytes = CapturedPatch
  BY <1>1, <1>5 DEF RunnerRecords
<1>7. CapturedPatch = IF opts.reverse THEN Reversed(forward) ELSE forward
  BY DEF CapturedPatch
<1>8. Effect' = IF opts.reverse THEN Reversed(CapturedPatch) ELSE CapturedPatch
  BY <1>5, <1>6 DEF Effect
<1>9. CASE opts.reverse
  <2>1. Effect' = Reversed(Reversed(forward))
    BY <1>7, <1>8, <1>9
  <2> QED
    BY <1>4, <2>1, ReversedTwice
<1>10. CASE ~opts.reverse
  BY <1>7, <1>8, <1>10
<1> QED
  BY <1>9, <1>10

-----------------------------------------------------------------------------
(* What the bounds leave of troubles, and when the run has failed.         *)

Troubles ==
    /\ budget.faults \in 0 .. MaxFaults /\ budget.signals \in 0 .. MaxSignals
    /\ budget.edits \in 0 .. MaxEdits
    /\ cancelled => budget.signals < MaxSignals
    /\ pc \notin Ended => exit = ExitOK

\* A step of the runner makes one call that may fail, or asks one question, and
\* returns no exit code but by ending the run.
OneCall ==
    /\ IOOK \/ IOErr \/ Answered
    /\ cancelled' = cancelled
    /\ pc' \notin Ended => pc \notin Ended /\ exit' = exit

LEMMA RunnerCalls ==
    ASSUME [Next]_vars
    PROVE  OneCall \/ CommandWrites \/ Others
<1> USE DEF Goto, Stop
<1>1. CASE ResolveRepo
  <2>1. IOOK \/ IOErr \/ Answered
    BY <1>1 DEF ResolveRepo, GitOK, GitErr, EndOfInput, IOOK
  <2>2. cancelled' = cancelled
    BY <1>1 DEF ResolveRepo, env
  <2>3. pc' \notin Ended => pc \notin Ended /\ exit' = exit
    BY <1>1 DEF ResolveRepo, Ended
  <2> QED
    BY <2>1, <2>2, <2>3 DEF OneCall
<1>2. CASE ReadHead
  <2>1. IOOK \/ IOErr \/ Answered
    BY <1>2 DEF ReadHead, GitOK, GitErr, EndOfInput, IOOK
  <2>2. cancelled' = cancelled
    BY <1>2 DEF ReadHead, env
  <2>3. pc' \notin Ended => pc \notin Ended /\ exit' = exit
    BY <1>2 DEF ReadHead, Ended
  <2> QED
    BY <2>1, <2>2, <2>3 DEF OneCall
<1>3. CASE ReadStatus
  <2>1. IOOK \/ IOErr \/ Answered
    BY <1>3 DEF ReadStatus, DirtyPolicy, GitOK, GitErr, EndOfInput, IOOK
  <2>2. cancelled' = cancelled
    BY <1>3 DEF ReadStatus, env
  <2>3. pc' \notin Ended => pc \notin Ended /\ exit' = exit
    BY <1>3 DEF ReadStatus, DirtyPolicy, Ended
  <2> QED
    BY <2>1, <2>2, <2>3 DEF OneCall
<1>4. CASE ConfirmDirty
  <2>1. IOOK \/ IOErr \/ Answered
    BY <1>4 DEF ConfirmDirty, GitOK, GitErr, EndOfInput, IOOK
  <2>2. cancelled' = cancelled
    BY <1>4 DEF ConfirmDirty, env
  <2>3. pc' \notin Ended => pc \notin Ended /\ exit' = exit
    BY <1>4 DEF ConfirmDirty, Ended
  <2> QED
    BY <2>1, <2>2, <2>3 DEF OneCall
<1>5. CASE SetupWorktree
  <2>1. IOOK \/ IOErr \/ Answered
    BY <1>5 DEF SetupWorktree, GitOK, GitErr, EndOfInput, IOOK
  <2>2. cancelled' = cancelled
    BY <1>5 DEF SetupWorktree, env
  <2>3. pc' \notin Ended => pc \notin Ended /\ exit' = exit
    BY <1>5 DEF SetupWorktree, Ended
  <2> QED
    BY <2>1, <2>2, <2>3 DEF OneCall
<1>6. CASE ReplayTracked
  <2>1. IOOK \/ IOErr \/ Answered
    BY <1>6 DEF ReplayTracked, GitOK, GitErr, EndOfInput, IOOK
  <2>2. cancelled' = cancelled
    BY <1>6 DEF ReplayTracked, env
  <2>3. pc' \notin Ended => pc \notin Ended /\ exit' = exit
    BY <1>6 DEF ReplayTracked, Ended
  <2> QED
    BY <2>1, <2>2, <2>3 DEF OneCall
<1>7. CASE ListUntracked
  <2>1. IOOK \/ IOErr \/ Answered
    BY <1>7 DEF ListUntracked, GitOK, GitErr, EndOfInput, IOOK
  <2>2. cancelled' = cancelled
    BY <1>7 DEF ListUntracked, env
  <2>3. pc' \notin Ended => pc \notin Ended /\ exit' = exit
    BY <1>7 DEF ListUntracked, Ended
  <2> QED
    BY <2>1, <2>2, <2>3 DEF OneCall
<1>8. CASE CopyUntracked
  <2>1. IOOK \/ IOErr \/ Answered
    BY <1>8 DEF CopyUntracked, GitOK, GitErr, EndOfInput, IOOK
  <2>2. cancelled' = cancelled
    BY <1>8 DEF CopyUntracked, env
  <2>3. pc' \notin Ended => pc \notin Ended /\ exit' = exit
    BY <1>8 DEF CopyUntracked, Ended
  <2> QED
    BY <2>1, <2>2, <2>3 DEF OneCall
<1>9. CASE CommitBaseline
  <2>1. IOOK \/ IOErr \/ Answered
    BY <1>9 DEF CommitBaseline, GitOK, GitErr, EndOfInput, IOOK
  <2>2. cancelled' = cancelled
    BY <1>9 DEF CommitBaseline, env
  <2>3. pc' \notin Ended => pc \notin Ended /\ exit' = exit
    BY <1>9 DEF CommitBaseline, Ended
  <2> QED
    BY <2>1, <2>2, <2>3 DEF OneCall
<1>10. CASE RunChildCommand
  <2>1. IOOK \/ IOErr \/ Answered
    BY <1>10 DEF RunChildCommand, Start, GitOK, GitErr, EndOfInput, IOOK
  <2>2. cancelled' = cancelled
    BY <1>10 DEF RunChildCommand, env
  <2>3. pc' \notin Ended => pc \notin Ended /\ exit' = exit
    BY <1>10 DEF RunChildCommand, Start, Ended
  <2> QED
    BY <2>1, <2>2, <2>3 DEF OneCall
<1>11. CASE ConfirmPTY
  <2>1. IOOK \/ IOErr \/ Answered
    BY <1>11 DEF ConfirmPTY, Start, GitOK, GitErr, EndOfInput, IOOK
  <2>2. cancelled' = cancelled
    BY <1>11 DEF ConfirmPTY, env
  <2>3. pc' \notin Ended => pc \notin Ended /\ exit' = exit
    BY <1>11 DEF ConfirmPTY, Start, Ended
  <2> QED
    BY <2>1, <2>2, <2>3 DEF OneCall
<1>12. CASE ChildExits
  <2>1. IOOK \/ IOErr \/ Answered
    BY <1>12 DEF ChildExits, GitOK, GitErr, EndOfInput, IOOK
  <2>2. cancelled' = cancelled
    BY <1>12 DEF ChildExits, env
  <2>3. pc' \notin Ended => pc \notin Ended /\ exit' = exit
    BY <1>12 DEF ChildExits, Ended
  <2> QED
    BY <2>1, <2>2, <2>3 DEF OneCall
<1>13. CASE ExecExits
  <2>1. IOOK \/ IOErr \/ Answered
    BY <1>13 DEF ExecExits, GitOK, GitErr, EndOfInput, IOOK
  <2>2. cancelled' = cancelled
    BY <1>13 DEF ExecExits, env
  <2>3. pc' \notin Ended => pc \notin Ended /\ exit' = exit
    BY <1>13 DEF ExecExits, Ended
  <2> QED
    BY <2>1, <2>2, <2>3 DEF OneCall
<1>14. CASE KillCommand
  <2>1. IOOK \/ IOErr \/ Answered
    BY <1>14 DEF KillCommand, GitOK, GitErr, EndOfInput, IOOK
  <2>2. cancelled' = cancelled
    BY <1>14 DEF KillCommand, env
  <2>3. pc' \notin Ended => pc \notin Ended /\ exit' = exit
    BY <1>14 DEF KillCommand, Ended
  <2> QED
    BY <2>1, <2>2, <2>3 DEF OneCall
<1>15. CASE RunExecCommands
  <2>1. IOOK \/ IOErr \/ Answered
    BY <1>15 DEF RunExecCommands, GitOK, GitErr, EndOfInput, IOOK
  <2>2. cancelled' = cancelled
    BY <1>15 DEF RunExecCommands, env
  <2>3. pc' \notin Ended => pc \notin Ended /\ exit' = exit
    BY <1>15 DEF RunExecCommands, Ended
  <2> QED
    BY <2>1, <2>2, <2>3 DEF OneCall
<1>16. CASE WriteSnapshot
  <2>1. IOOK \/ IOErr \/ Answered
    BY <1>16 DEF WriteSnapshot, GitOK, GitErr, EndOfInput, IOOK
  <2>2. cancelled' = cancelled
    BY <1>16 DEF WriteSnapshot, env
  <2>3. pc' \notin Ended => pc \notin Ended /\ exit' = exit
    BY <1>16 DEF WriteSnapshot, Ended
  <2> QED
    BY <2>1, <2>2, <2>3 DEF OneCall
<1>17. CASE CapturePatch
  <2>1. IOOK \/ IOErr \/ Answered
    BY <1>17 DEF CapturePatch, GitOK, GitErr, EndOfInput, IOOK
  <2>2. cancelled' = cancelled
    BY <1>17 DEF CapturePatch, env
  <2>3. pc' \notin Ended => pc \notin Ended /\ exit' = exit
    BY <1>17 DEF CapturePatch, Ended
  <2> QED
    BY <2>1, <2>2, <2>3 DEF OneCall
<1>18. CASE SaveRequested
  <2>1. IOOK \/ IOErr \/ Answered
    BY <1>18 DEF SaveRequested, SaveTo, SaveFails, GitOK, GitErr, EndOfInput, IOOK
  <2>2. cancelled' = cancelled
    BY <1>18 DEF SaveRequested, env
  <2>3. pc' \notin Ended => pc \notin Ended /\ exit' = exit
    BY <1>18 DEF SaveRequested, Ended
  <2> QED
    BY <2>1, <2>2, <2>3 DEF OneCall
<1>19. CASE WriteStdout
  <2>1. IOOK \/ IOErr \/ Answered
    BY <1>19 DEF WriteStdout, GitOK, GitErr, EndOfInput, IOOK
  <2>2. cancelled' = cancelled
    BY <1>19 DEF WriteStdout, env
  <2>3. pc' \notin Ended => pc \notin Ended /\ exit' = exit
    BY <1>19 DEF WriteStdout, Ended
  <2> QED
    BY <2>1, <2>2, <2>3 DEF OneCall
<1>20. CASE DefaultSave
  <2>1. IOOK \/ IOErr \/ Answered
    BY <1>20 DEF DefaultSave, SaveTo, SaveFails, GitOK, GitErr, EndOfInput, IOOK
  <2>2. cancelled' = cancelled
    BY <1>20 DEF DefaultSave, env
  <2>3. pc' \notin Ended => pc \notin Ended /\ exit' = exit
    BY <1>20 DEF DefaultSave, Ended
  <2> QED
    BY <2>1, <2>2, <2>3 DEF OneCall
<1>21. CASE AskMenu
  <2>1. IOOK \/ IOErr \/ Answered
    BY <1>21 DEF AskMenu, GitOK, GitErr, EndOfInput, IOOK
  <2>2. cancelled' = cancelled
    BY <1>21 DEF AskMenu, env
  <2>3. pc' \notin Ended => pc \notin Ended /\ exit' = exit
    BY <1>21 DEF AskMenu, Ended
  <2> QED
    BY <2>1, <2>2, <2>3 DEF OneCall
<1>22. CASE AskPath
  <2>1. IOOK \/ IOErr \/ Answered
    BY <1>22 DEF AskPath, GitOK, GitErr, EndOfInput, IOOK
  <2>2. cancelled' = cancelled
    BY <1>22 DEF AskPath, env
  <2>3. pc' \notin Ended => pc \notin Ended /\ exit' = exit
    BY <1>22 DEF AskPath, Ended
  <2> QED
    BY <2>1, <2>2, <2>3 DEF OneCall
<1>23. CASE MenuSave
  <2>1. IOOK \/ IOErr \/ Answered
    BY <1>23 DEF MenuSave, SaveTo, SaveFails, GitOK, GitErr, EndOfInput, IOOK
  <2>2. cancelled' = cancelled
    BY <1>23 DEF MenuSave, env
  <2>3. pc' \notin Ended => pc \notin Ended /\ exit' = exit
    BY <1>23 DEF MenuSave, Ended
  <2> QED
    BY <2>1, <2>2, <2>3 DEF OneCall
<1>24. CASE DriftStatus
  <2>1. IOOK \/ IOErr \/ Answered
    BY <1>24 DEF DriftStatus, GitOK, GitErr, EndOfInput, IOOK
  <2>2. cancelled' = cancelled
    BY <1>24 DEF DriftStatus, env
  <2>3. pc' \notin Ended => pc \notin Ended /\ exit' = exit
    BY <1>24 DEF DriftStatus, Ended
  <2> QED
    BY <2>1, <2>2, <2>3 DEF OneCall
<1>25. CASE DriftHead
  <2>1. IOOK \/ IOErr \/ Answered
    BY <1>25 DEF DriftHead, GitOK, GitErr, EndOfInput, IOOK
  <2>2. cancelled' = cancelled
    BY <1>25 DEF DriftHead, env
  <2>3. pc' \notin Ended => pc \notin Ended /\ exit' = exit
    BY <1>25 DEF DriftHead, Ended
  <2> QED
    BY <2>1, <2>2, <2>3 DEF OneCall
<1>26. CASE ApplyCheck
  <2>1. IOOK \/ IOErr \/ Answered
    BY <1>26 DEF ApplyCheck, GitOK, GitErr, EndOfInput, IOOK
  <2>2. cancelled' = cancelled
    BY <1>26 DEF ApplyCheck, env
  <2>3. pc' \notin Ended => pc \notin Ended /\ exit' = exit
    BY <1>26 DEF ApplyCheck, Ended
  <2> QED
    BY <2>1, <2>2, <2>3 DEF OneCall
<1>27. CASE AutoSave
  <2>1. IOOK \/ IOErr \/ Answered
    BY <1>27 DEF AutoSave, SaveTo, SaveFails, GitOK, GitErr, EndOfInput, IOOK
  <2>2. cancelled' = cancelled
    BY <1>27 DEF AutoSave, env
  <2>3. pc' \notin Ended => pc \notin Ended /\ exit' = exit
    BY <1>27 DEF AutoSave, Ended
  <2> QED
    BY <2>1, <2>2, <2>3 DEF OneCall
<1>28. CASE Apply
  <2>1. IOOK \/ IOErr \/ Answered
    BY <1>28 DEF Apply, GitOK, GitErr, EndOfInput, IOOK
  <2>2. cancelled' = cancelled
    BY <1>28 DEF Apply, env
  <2>3. pc' \notin Ended => pc \notin Ended /\ exit' = exit
    BY <1>28 DEF Apply, Applied, Ended
  <2> QED
    BY <2>1, <2>2, <2>3 DEF OneCall
<1>29. CASE Apply3Way
  <2>1. IOOK \/ IOErr \/ Answered
    BY <1>29 DEF Apply3Way, GitOK, GitErr, EndOfInput, IOOK
  <2>2. cancelled' = cancelled
    BY <1>29 DEF Apply3Way, env
  <2>3. pc' \notin Ended => pc \notin Ended /\ exit' = exit
    BY <1>29 DEF Apply3Way, Applied, Ended
  <2> QED
    BY <2>1, <2>2, <2>3 DEF OneCall
<1>30. CASE EmitJSON
  <2>1. IOOK \/ IOErr \/ Answered
    BY <1>30 DEF EmitJSON, GitOK, GitErr, EndOfInput, IOOK
  <2>2. cancelled' = cancelled
    BY <1>30 DEF EmitJSON, env
  <2>3. pc' \notin Ended => pc \notin Ended /\ exit' = exit
    BY <1>30 DEF EmitJSON, Ended
  <2> QED
    BY <2>1, <2>2, <2>3 DEF OneCall
<1>31. CASE RemoveWorktree
  <2>1. IOOK \/ IOErr \/ Answered
    BY <1>31 DEF RemoveWorktree, GitOK, GitErr, EndOfInput, IOOK
  <2>2. cancelled' = cancelled
    BY <1>31 DEF RemoveWorktree, env
  <2>3. pc' \notin Ended => pc \notin Ended /\ exit' = exit
    BY <1>31 DEF RemoveWorktree, Ended
  <2> QED
    BY <2>1, <2>2, <2>3 DEF OneCall
<1>32. CASE RemoveAll
  <2>1. IOOK \/ IOErr \/ Answered
    BY <1>32 DEF RemoveAll, GitOK, GitErr, EndOfInput, IOOK
  <2>2. cancelled' = cancelled
    BY <1>32 DEF RemoveAll, env
  <2>3. pc' \notin Ended => pc \notin Ended /\ exit' = exit
    BY <1>32 DEF RemoveAll, Ended
  <2> QED
    BY <2>1, <2>2, <2>3 DEF OneCall
<1>33. CASE Exited \/ UNCHANGED vars
  BY <1>33 DEF Exited, vars, OneCall, IOOK
<1> QED
  BY <1>1, <1>2, <1>3, <1>4, <1>5, <1>6, <1>7, <1>8, <1>9, <1>10,
     <1>11, <1>12, <1>13, <1>14, <1>15, <1>16, <1>17, <1>18, <1>19, <1>20,
     <1>21, <1>22, <1>23, <1>24, <1>25, <1>26, <1>27, <1>28, <1>29, <1>30,
     <1>31, <1>32, <1>33
  DEF Next, Program, Prompts, CommandEnds

LEMMA TroubleStep == TypeOK /\ Troubles /\ [Next]_vars => Troubles'
<1> SUFFICES ASSUME TypeOK, Troubles, [Next]_vars PROVE Troubles'
  OBVIOUS
<1>b. budget \in Budgets
  BY DEF TypeOK
<1>1. CASE OneCall
  <2>1. /\ budget'.signals = budget.signals /\ budget'.edits = budget.edits
        /\ budget'.faults \in {budget.faults, budget.faults - 1}
        /\ budget'.faults >= 0
    <3>1. CASE IOOK \/ Answered
      BY <1>b, <3>1 DEF IOOK, Answered, Budgets
    <3>2. CASE IOErr
      BY <1>b, <3>2 DEF IOErr, Budgets
    <3> QED
      BY <1>1, <3>1, <3>2 DEF OneCall
  <2>2. budget.faults \in Nat /\ MaxFaults \in Nat
    BY <1>b, RunnerAssumption DEF Budgets
  <2>3. cancelled' = cancelled /\ (pc' \notin Ended => pc \notin Ended /\ exit' = exit)
    BY <1>1 DEF OneCall
  <2> QED
    BY <2>1, <2>2, <2>3 DEF Troubles
<1>2. CASE CommandWrites \/ OthersEdit \/ OthersStage \/ OthersCommit
  <2>1. UNCHANGED <<pc, exit, cancelled>>
    BY <1>2 DEF CommandWrites, OthersEdit, OthersStage, OthersCommit
  <2>2. \/ budget' = [budget EXCEPT !.writes = @ - 1]
        \/ budget' = [budget EXCEPT !.edits = @ - 1] /\ budget.edits > 0
    BY <1>2 DEF CommandWrites, OthersEdit, OthersStage, OthersCommit
  <2>3. /\ budget'.signals = budget.signals /\ budget'.faults = budget.faults
        /\ \/ budget'.edits = budget.edits
           \/ budget'.edits = budget.edits - 1 /\ budget.edits > 0
    BY <1>b, <2>2 DEF Budgets
  <2>4. budget.edits \in Nat /\ MaxEdits \in Nat
    BY <1>b, RunnerAssumption DEF Budgets
  <2> QED
    BY <2>1, <2>3, <2>4 DEF Troubles
<1>3. CASE Interrupt
  <2>1. UNCHANGED <<pc, exit>> /\ budget.signals > 0
    BY <1>3 DEF Interrupt
  <2>2. /\ budget'.signals = budget.signals - 1 /\ budget'.faults = budget.faults
        /\ budget'.edits = budget.edits
    BY <1>3, <1>b DEF Interrupt, Budgets
  <2>3. budget.signals \in Nat /\ MaxSignals \in Nat
    BY <1>b, RunnerAssumption DEF Budgets
  <2> QED
    BY <2>1, <2>2, <2>3 DEF Troubles
<1> QED
  BY <1>1, <1>2, <1>3, RunnerCalls DEF Others

LEMMA TroublesHold == Spec => []Troubles
<1>1. Init => Troubles
  <2> SUFFICES ASSUME Init PROVE Troubles
    OBVIOUS
  <2>1. /\ budget.faults = MaxFaults /\ budget.signals = MaxSignals
        /\ budget.edits = MaxEdits /\ ~cancelled /\ exit = ExitOK
    BY DEF Init
  <2> QED
    BY <2>1, RunnerAssumption DEF Troubles
<1>2. TypeOK /\ Troubles /\ [Next]_vars => Troubles'
  BY TroubleStep
<1> QED
  BY <1>1, <1>2, TypeCorrect, PTL DEF Spec

\* Troubles do not become fewer.
LEMMA TroublesStay ==
    ASSUME TypeOK, TypeOK', [Next]_vars
    PROVE  /\ budget'.faults \in Nat /\ budget'.signals \in Nat /\ budget'.edits \in Nat
           /\ budget'.faults <= budget.faults /\ budget'.signals <= budget.signals
           /\ budget'.edits <= budget.edits
           /\ IOErr => budget'.faults = budget.faults - 1
           /\ OthersEdit \/ OthersStage \/ OthersCommit => budget'.edits = budget.edits - 1
           /\ cancelled => cancelled'
<1>b. budget \in Budgets
  BY DEF TypeOK
<1>n. /\ budget.faults \in Nat /\ budget.signals \in Nat /\ budget.edits \in Nat
      /\ budget'.faults \in Nat /\ budget'.signals \in Nat /\ budget'.edits \in Nat
  BY DEF TypeOK, Budgets
<1>e. IOErr => /\ budget'.faults = budget.faults - 1 /\ budget'.signals = budget.signals
               /\ budget'.edits = budget.edits
  BY <1>b DEF IOErr, Budgets
<1>o. OthersEdit \/ OthersStage \/ OthersCommit =>
          /\ budget'.edits = budget.edits - 1 /\ budget'.signals = budget.signals
          /\ budget'.faults = budget.faults /\ cancelled' = cancelled
  BY <1>b DEF OthersEdit, OthersStage, OthersCommit, Budgets
<1>1. CASE OneCall
  <2>1. IOOK \/ Answered =>
            /\ budget'.faults = budget.faults /\ budget'.signals = budget.signals
            /\ budget'.edits = budget.edits
    BY <1>b DEF IOOK, Answered, Budgets
  <2> QED
    BY <1>n, <1>e, <1>o, <1>1, <2>1 DEF OneCall
<1>2. CASE CommandWrites
  <2>1. budget' = [budget EXCEPT !.writes = @ - 1] /\ cancelled' = cancelled
    BY <1>2 DEF CommandWrites
  <2>2. /\ budget'.signals = budget.signals /\ budget'.faults = budget.faults
        /\ budget'.edits = budget.edits
    BY <1>b, <2>1 DEF Budgets
  <2> QED
    BY <1>n, <1>e, <1>o, <2>1, <2>2
<1>3. CASE OthersEdit \/ OthersStage \/ OthersCommit
  BY <1>n, <1>e, <1>o, <1>3
<1>4. CASE Interrupt
  <2>1. /\ budget'.signals = budget.signals - 1 /\ budget'.faults = budget.faults
        /\ budget'.edits = budget.edits
    BY <1>4, <1>b DEF Interrupt, Budgets
  <2>2. cancelled => cancelled'
    BY <1>4 DEF Interrupt
  <2>3. /\ budget'.faults <= budget.faults /\ budget'.signals <= budget.signals
        /\ budget'.edits <= budget.edits
    BY <1>n, <2>1
  <2> QED
    BY <1>n, <1>e, <1>o, <2>2, <2>3
<1> QED
  BY <1>1, <1>2, <1>3, <1>4, RunnerCalls DEF Others

\* While nobody else is about no step is theirs, and so far nobody was.
LEMMA StillAlone ==
    ASSUME TypeOK, TypeOK', Troubles, [Next]_vars, Alone'
    PROVE  Alone /\ ~OthersEdit /\ ~OthersStage /\ ~OthersCommit
<1>1. budget.edits \in 0 .. MaxEdits /\ MaxEdits \in Nat /\ budget'.edits = MaxEdits
  BY RunnerAssumption DEF Troubles, Alone
<1> QED
  BY <1>1, TroublesStay DEF Alone

\* While nothing fails, nothing has failed and nothing is cancelled.
LEMMA StillWell ==
    ASSUME TypeOK, TypeOK', Troubles, [Next]_vars, NoTrouble'
    PROVE  NoTrouble /\ ~cancelled /\ ~IOErr /\ ~GitErr /\ ~Interrupt
<1>1. /\ budget.faults \in 0 .. MaxFaults /\ budget.signals \in 0 .. MaxSignals
      /\ MaxFaults \in Nat /\ MaxSignals \in Nat
  BY RunnerAssumption DEF Troubles
<1>2. budget'.faults = MaxFaults /\ budget'.signals = MaxSignals
  BY DEF NoTrouble
<1>3. NoTrouble /\ ~IOErr
  BY <1>1, <1>2, TroublesStay DEF NoTrouble
<1>4. ~cancelled
  BY <1>1, <1>3 DEF Troubles, NoTrouble
<1>5. Interrupt => budget'.signals = budget.signals - 1
  BY DEF Interrupt, TypeOK, Budgets
<1> QED
  BY <1>1, <1>2, <1>3, <1>4, <1>5 DEF GitErr

-----------------------------------------------------------------------------
(* A run goes forward.                                                     *)

Stage(l) ==
    CASE l = "resolve" -> 0
      [] l = "head" -> 1
      [] l = "status" -> 2
      [] l = "confirmDirty" -> 3
      [] l = "setup" -> 4
      [] l = "replayTracked" -> 5
      [] l = "listUntracked" -> 6
      [] l = "copyUntracked" -> 7
      [] l = "policy" -> 8
      [] l = "confirmPTY" -> 9
      [] l = "child" -> 10
      [] l \in {"exec", "execs"} -> 11
      [] l = "snapshot" -> 12
      [] l = "capture" -> 13
      [] l \in {"menu", "askPath", "menuSave"} -> 14
      [] l = "save" -> 15
      [] l = "stdout" -> 16
      [] l = "fallback" -> 17
      [] l = "driftStatus" -> 18
      [] l = "driftHead" -> 19
      [] l = "drifted" -> 20
      [] l = "check" -> 21
      [] l = "refused" -> 22
      [] l = "apply" -> 23
      [] l = "threeWay" -> 24
      [] l = "emit" -> 25
      [] l = "cleanup" -> 26
      [] l = "removeAll" -> 27
      [] OTHER -> 28

\* Its three loops: a file less to copy, a follow-up nearer to the last, an answer less.
CopiesOne ==
    /\ pc = "copyUntracked" /\ pc' = pc
    /\ r'.untracked \subseteq r.untracked /\ r'.untracked # r.untracked

FollowUps == 2 * r.execsLeft + IF pc = "execs" THEN 1 ELSE 0
FollowsUp == {pc, pc'} \subseteq {"exec", "execs"} /\ FollowUps' < FollowUps

Questions == 2 * budget.answers + IF pc = "menuSave" THEN 1 ELSE 0
AsksAgain == {pc, pc'} \subseteq {"menu", "askPath", "menuSave"} /\ Questions' < Questions

\* What the command and other people do takes nothing but from the bounds.
UsesUp ==
    /\ UNCHANGED <<pc, r>> /\ budget'.answers = budget.answers
    /\ budget'.writes + budget'.edits + budget'.signals
        < budget.writes + budget.edits + budget.signals

Advances == Stage(pc') > Stage(pc) \/ CopiesOne \/ FollowsUp \/ AsksAgain \/ UsesUp

LEMMA EachStepAdvances ==
    ASSUME TypeOK, Next, ~UNCHANGED vars
    PROVE  Advances
<1> USE DEF Goto, Stop
<1>r. r \in RunnerRecords
  BY DEF TypeOK
<1>b. budget \in Budgets
  BY DEF TypeOK
<1>n. /\ r.execsLeft \in Nat
      /\ budget.answers \in Nat /\ budget.writes \in Nat
      /\ budget.edits \in Nat /\ budget.signals \in Nat
  BY <1>r, <1>b DEF RunnerRecords, Budgets
<1>a. Answered => budget'.answers = budget.answers - 1
  BY <1>b DEF Answered, Budgets
<1>1. CASE ResolveRepo
  BY <1>1 DEF ResolveRepo, Advances, Stage
<1>2. CASE ReadHead
  BY <1>2 DEF ReadHead, Advances, Stage
<1>3. CASE ReadStatus
  BY <1>3 DEF ReadStatus, DirtyPolicy, Advances, Stage
<1>4. CASE ConfirmDirty
  BY <1>4 DEF ConfirmDirty, Advances, Stage
<1>5. CASE SetupWorktree
  <2>1. pc = "setup" /\ pc' \in {"replayTracked", "policy", "emit"}
    BY <1>5 DEF SetupWorktree
  <2> QED
    BY <2>1 DEF Advances, Stage
<1>6. CASE ReplayTracked
  BY <1>6 DEF ReplayTracked, Advances, Stage
<1>7. CASE ListUntracked
  BY <1>7 DEF ListUntracked, Advances, Stage
<1>8. CASE CommitBaseline
  <2>1. pc = "copyUntracked" /\ pc' \in {"policy", "emit"}
    BY <1>8 DEF CommitBaseline
  <2> QED
    BY <2>1 DEF Advances, Stage
<1>9. CASE RunChildCommand
  BY <1>9 DEF RunChildCommand, Start, Advances, Stage
<1>10. CASE ConfirmPTY
  BY <1>10 DEF ConfirmPTY, Start, Advances, Stage
<1>11. CASE ChildExits
  BY <1>11 DEF ChildExits, Advances, Stage
<1>12. CASE WriteSnapshot
  BY <1>12 DEF WriteSnapshot, Advances, Stage
<1>13. CASE CapturePatch
  BY <1>13 DEF CapturePatch, Advances, Stage
<1>14. CASE SaveRequested
  BY <1>14 DEF SaveRequested, Advances, Stage
<1>15. CASE WriteStdout
  BY <1>15 DEF WriteStdout, Advances, Stage
<1>16. CASE DefaultSave
  BY <1>16 DEF DefaultSave, Advances, Stage
<1>17. CASE DriftStatus
  BY <1>17 DEF DriftStatus, Advances, Stage
<1>18. CASE DriftHead
  BY <1>18 DEF DriftHead, Advances, Stage
<1>19. CASE ApplyCheck
  BY <1>19 DEF ApplyCheck, Advances, Stage
<1>20. CASE AutoSave
  <2>1. \/ pc = "drifted" /\ pc' = "emit"
        \/ pc = "refused" /\ pc' \in {"threeWay", "emit"}
    BY <1>20 DEF AutoSave
  <2> QED
    BY <2>1 DEF Advances, Stage
<1>21. CASE Apply
  BY <1>21 DEF Apply, Applied, Advances, Stage
<1>22. CASE Apply3Way
  BY <1>22 DEF Apply3Way, Applied, Advances, Stage
<1>23. CASE EmitJSON
  BY <1>23 DEF EmitJSON, Advances, Stage
<1>24. CASE RemoveWorktree
  BY <1>24 DEF RemoveWorktree, Advances, Stage
<1>25. CASE RemoveAll
  BY <1>25 DEF RemoveAll, Advances, Stage
<1>26. CASE CopyUntracked
  <2>1. CASE pc' = "emit"
    BY <1>26, <2>1 DEF CopyUntracked, Advances, Stage
  <2>2. CASE pc' # "emit"
    <3>1. pc = "copyUntracked" /\ pc' = pc /\ \E p \in r.untracked : r' = [r EXCEPT !.untracked = @ \ {p}]
      BY <1>26, <2>2 DEF CopyUntracked
    <3>2. \E p \in r.untracked : r'.untracked = r.untracked \ {p}
      BY <1>r, <3>1 DEF RunnerRecords
    <3> QED
      BY <3>1, <3>2 DEF Advances, CopiesOne
  <2> QED
    BY <2>1, <2>2
<1>27. CASE ExecExits \/ RunExecCommands
  <2>1. CASE pc' = "snapshot"
    BY <1>27, <2>1 DEF ExecExits, RunExecCommands, Advances, Stage
  <2>2. CASE pc' # "snapshot"
    <3>1. \/ pc = "exec" /\ pc' = "execs" /\ r'.execsLeft = r.execsLeft - 1
          \/ pc = "execs" /\ pc' = "execs" /\ r'.execsLeft = r.execsLeft - 1
          \/ pc = "execs" /\ pc' = "exec" /\ r'.execsLeft = r.execsLeft
      BY <1>27, <1>r, <2>2 DEF ExecExits, RunExecCommands, RunnerRecords
    <3> QED
      BY <1>n, <3>1 DEF Advances, FollowsUp, FollowUps
  <2> QED
    BY <2>1, <2>2
<1>28. CASE KillCommand
  <2>1. CASE pc = "child"
    BY <1>28, <2>1 DEF KillCommand, Advances, Stage
  <2>2. CASE pc # "child"
    <3>1. pc = "exec" /\ pc' = "execs" /\ r'.execsLeft = r.execsLeft - 1
      BY <1>28, <1>r, <2>2 DEF KillCommand, RunnerRecords
    <3> QED
      BY <1>n, <3>1 DEF Advances, FollowsUp, FollowUps
  <2> QED
    BY <2>1, <2>2
<1>29. CASE AskMenu
  <2>1. CASE pc' \in {"emit", "driftStatus"}
    BY <1>29, <2>1 DEF AskMenu, Advances, Stage
  <2>2. CASE pc' \notin {"emit", "driftStatus"}
    <3>1. pc = "menu" /\ pc' \in {"menu", "askPath"} /\ Answered
      BY <1>29, <2>2 DEF AskMenu
    <3> QED
      BY <1>n, <1>a, <3>1 DEF Advances, AsksAgain, Questions
  <2> QED
    BY <2>1, <2>2
<1>30. CASE AskPath
  <2>1. pc = "askPath" /\ (pc' = "emit" \/ (pc' = "menuSave" /\ Answered))
    BY <1>30 DEF AskPath
  <2>2. CASE pc' = "emit"
    BY <2>1, <2>2 DEF Advances, Stage
  <2>3. CASE pc' = "menuSave" /\ Answered
    BY <1>n, <1>a, <2>1, <2>3 DEF Advances, AsksAgain, Questions
  <2> QED
    BY <2>1, <2>2, <2>3
<1>31. CASE MenuSave
  <2>1. pc = "menuSave" /\ (pc' = "emit" \/ (pc' = "menu" /\ IOOK))
    BY <1>31 DEF MenuSave, SaveTo
  <2>2. CASE pc' = "emit"
    BY <2>1, <2>2 DEF Advances, Stage
  <2>3. CASE pc' = "menu" /\ IOOK
    BY <1>n, <2>1, <2>3 DEF Advances, AsksAgain, Questions, IOOK
  <2> QED
    BY <2>1, <2>2, <2>3
<1>32. CASE CommandWrites
  <2>1. UNCHANGED <<pc, r>> /\ budget' = [budget EXCEPT !.writes = @ - 1] /\ budget.writes > 0
    BY <1>32 DEF CommandWrites
  <2>2. budget'.writes = budget.writes - 1 /\ budget'.edits = budget.edits
        /\ budget'.signals = budget.signals /\ budget'.answers = budget.answers
    BY <1>b, <2>1 DEF Budgets
  <2> QED
    BY <1>n, <2>1, <2>2 DEF Advances, UsesUp
<1>33. CASE OthersEdit \/ OthersStage \/ OthersCommit
  <2>1. UNCHANGED <<pc, r>> /\ budget' = [budget EXCEPT !.edits = @ - 1] /\ budget.edits > 0
    BY <1>33 DEF OthersEdit, OthersStage, OthersCommit
  <2>2. budget'.edits = budget.edits - 1 /\ budget'.writes = budget.writes
        /\ budget'.signals = budget.signals /\ budget'.answers = budget.answers
    BY <1>b, <2>1 DEF Budgets
  <2> QED
    BY <1>n, <2>1, <2>2 DEF Advances, UsesUp
<1>34. CASE Interrupt
  <2>1. UNCHANGED <<pc, r>> /\ budget' = [budget EXCEPT !.signals = @ - 1] /\ budget.signals > 0
    BY <1>34 DEF Interrupt
  <2>2. budget'.signals = budget.signals - 1 /\ budget'.writes = budget.writes
        /\ budget'.edits = budget.edits /\ budget'.answers = budget.answers
    BY <1>b, <2>1 DEF Budgets
  <2> QED
    BY <1>n, <2>1, <2>2 DEF Advances, UsesUp
<1> QED
  BY <1>1, <1>2, <1>3, <1>4, <1>5, <1>6, <1>7, <1>8, <1>9, <1>10, <1>11, <1>12,
     <1>13, <1>14, <1>15, <1>16, <1>17, <1>18, <1>19, <1>20, <1>21, <1>22, <1>23,
     <1>24, <1>25, <1>26, <1>27, <1>28, <1>29, <1>30, <1>31, <1>32, <1>33, <1>34
  DEF Next, Program, Prompts, CommandEnds, Others, Exited

\* Each step of a run takes it to a later call, or through one of its three loops (the
\* files to copy, the follow-ups, the menu, which goes round once per line typed), or is
\* one of the bounded steps of the command and of others: no order of failures, answers
\* and signals makes a run go round in circles.  (execute and everything it calls.)
THEOREM RunGoesForward == Spec => [][Advances]_vars
<1>1. TypeOK /\ [Next]_vars => [Advances]_vars
  BY EachStepAdvances
<1> QED
  BY <1>1, TypeCorrect, PTL DEF Spec
=============================================================================
