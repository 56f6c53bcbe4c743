--------------------------- MODULE WorktreeProofs ---------------------------
(***************************************************************************)
(* What the disposable worktree holds, what is captured of it, and what is *)
(* left of it: for every repository, every set of options, every fault and *)
(* whatever others do meanwhile.                                           *)
(***************************************************************************)
EXTENDS DeliveryProofs

Starting == Early \cup {"status", "confirmDirty", "setup"}
Replaying == {"replayTracked", "listUntracked", "copyUntracked"}
Commanding == {"policy", "confirmPTY", "child", "execs", "exec", "snapshot", "capture"}
Settled == Proposed \cup Vetted

LEMMA LabelsApart ==
    /\ Early \cup Running = Starting \cup Replaying \cup Commanding
    /\ Labels \subseteq Starting \cup Replaying \cup Commanding \cup Settled \cup Ended
    /\ \A l \in Starting : l \notin Replaying \cup Commanding \cup Settled \cup Ended
    /\ \A l \in Replaying : l \notin Commanding \cup Settled \cup Ended
    /\ \A l \in Commanding : l \notin Settled \cup Ended
    /\ \A l \in Settled : l \notin Ended
    /\ Early \subseteq Starting
<1> USE DEF Early, Running, Starting, Replaying, Commanding, Settled, Proposed, Vetted,
        Ended, Labels, UntilGate
<1>1. Early \cup Running = Starting \cup Replaying \cup Commanding
  OBVIOUS
<1>2. Labels \subseteq Starting \cup Replaying \cup Commanding \cup Settled \cup Ended
  OBVIOUS
<1>3. \A l \in Starting : l \notin Replaying \cup Commanding \cup Settled \cup Ended
  OBVIOUS
<1>4. \A l \in Replaying : l \notin Commanding \cup Settled \cup Ended
  OBVIOUS
<1>5. \A l \in Commanding : l \notin Settled \cup Ended
  OBVIOUS
<1>6. \A l \in Settled : l \notin Ended
  OBVIOUS
<1> QED
  BY <1>1, <1>2, <1>3, <1>4, <1>5, <1>6

-----------------------------------------------------------------------------
(* Steps that have nothing to do with the worktree and the patch.          *)

Onward ==
    \/ pc' = pc
    \/ pc \in Early /\ pc' \in Early
    \/ pc = "status" /\ pc' \in {"confirmDirty", "setup"}
    \/ pc \in {"confirmDirty", "setup"} /\ pc' \in {"confirmDirty", "setup"}
    \/ pc \in Commanding /\ pc' \in Commanding
    \/ pc \in Settled /\ pc' \in Settled
    \/ pc \notin Ended \cup Replaying /\ pc' = "emit"
    \/ pc = "emit" /\ pc' = "cleanup"

Quiet ==
    /\ UNCHANGED <<opts, worktree, commits>> /\ seen'.wrote = seen.wrote /\ seen'.before = seen.before
    /\ r'.originalHead = r.originalHead /\ r'.baselineRef = r.baselineRef
    /\ r'.patchBytes = r.patchBytes /\ r'.untracked = r.untracked
    /\ r'.tempWorktree = r.tempWorktree /\ (pc \in Ended => r'.keep = r.keep)
    /\ Onward

AtTheWorktree ==
    \/ ReadHead \/ SetupWorktree \/ ReplayTracked \/ ListUntracked \/ CopyUntracked
    \/ CommitBaseline \/ CommandWrites \/ CapturePatch \/ RemoveWorktree \/ RemoveAll
    \/ OthersCommit

LEMMA OthersAreQuiet ==
    TypeOK /\ [Next]_vars => AtTheWorktree \/ Quiet
<1> SUFFICES ASSUME TypeOK, [Next]_vars, ~AtTheWorktree PROVE Quiet
  OBVIOUS
<1> USE DEF Goto, Stop
<1>r. r \in RunnerRecords
  BY DEF TypeOK
<1>1. CASE ResolveRepo
  <2>1. /\ r'.originalHead = r.originalHead /\ r'.baselineRef = r.baselineRef
        /\ r'.patchBytes = r.patchBytes /\ r'.untracked = r.untracked
        /\ r'.tempWorktree = r.tempWorktree /\ (pc \in Ended => r'.keep = r.keep)
    BY <1>1 DEF ResolveRepo
  <2>2. UNCHANGED <<opts, worktree, commits>> /\ seen'.wrote = seen.wrote /\ seen'.before = seen.before
    BY <1>1 DEF ResolveRepo, origin, env
  <2>3. Onward
    BY <1>1 DEF ResolveRepo, Onward, Replaying, Early, Ended
  <2> QED
    BY <2>1, <2>2, <2>3 DEF Quiet
<1>2. CASE ReadStatus
  <2>1. /\ r'.originalHead = r.originalHead /\ r'.baselineRef = r.baselineRef
        /\ r'.patchBytes = r.patchBytes /\ r'.untracked = r.untracked
        /\ r'.tempWorktree = r.tempWorktree /\ (pc \in Ended => r'.keep = r.keep)
    BY <1>2, <1>r DEF ReadStatus, DirtyPolicy, RunnerRecords
  <2>2. UNCHANGED <<opts, worktree, commits>> /\ seen'.wrote = seen.wrote /\ seen'.before = seen.before
    BY <1>2 DEF ReadStatus, origin, env
  <2>3. Onward
    BY <1>2 DEF ReadStatus, DirtyPolicy, Onward, Replaying, Starting, Early, Ended
  <2> QED
    BY <2>1, <2>2, <2>3 DEF Quiet
<1>3. CASE ConfirmDirty
  <2>1. /\ r'.originalHead = r.originalHead /\ r'.baselineRef = r.baselineRef
        /\ r'.patchBytes = r.patchBytes /\ r'.untracked = r.untracked
        /\ r'.tempWorktree = r.tempWorktree /\ (pc \in Ended => r'.keep = r.keep)
    BY <1>3 DEF ConfirmDirty
  <2>2. UNCHANGED <<opts, worktree, commits>> /\ seen'.wrote = seen.wrote /\ seen'.before = seen.before
    BY <1>3 DEF ConfirmDirty, origin, env
  <2>3. Onward
    BY <1>3 DEF ConfirmDirty, Onward, Replaying, Starting, Early, Ended
  <2> QED
    BY <2>1, <2>2, <2>3 DEF Quiet
<1>4. CASE RunChildCommand
  <2>1. /\ r'.originalHead = r.originalHead /\ r'.baselineRef = r.baselineRef
        /\ r'.patchBytes = r.patchBytes /\ r'.untracked = r.untracked
        /\ r'.tempWorktree = r.tempWorktree /\ (pc \in Ended => r'.keep = r.keep)
    BY <1>4, <1>r DEF RunChildCommand, Start, RunnerRecords
  <2>2. UNCHANGED <<opts, worktree, commits>> /\ seen'.wrote = seen.wrote /\ seen'.before = seen.before
    BY <1>4 DEF RunChildCommand, origin, env
  <2>3. Onward
    BY <1>4 DEF RunChildCommand, Start, Onward, Replaying, Commanding, Ended
  <2> QED
    BY <2>1, <2>2, <2>3 DEF Quiet
<1>5. CASE ConfirmPTY
  <2>1. /\ r'.originalHead = r.originalHead /\ r'.baselineRef = r.baselineRef
        /\ r'.patchBytes = r.patchBytes /\ r'.untracked = r.untracked
        /\ r'.tempWorktree = r.tempWorktree /\ (pc \in Ended => r'.keep = r.keep)
    BY <1>5, <1>r DEF ConfirmPTY, Start, RunnerRecords
  <2>2. UNCHANGED <<opts, worktree, commits>> /\ seen'.wrote = seen.wrote /\ seen'.before = seen.before
    BY <1>5 DEF ConfirmPTY, origin, env
  <2>3. Onward
    BY <1>5 DEF ConfirmPTY, Start, Onward, Replaying, Commanding, Ended
  <2> QED
    BY <2>1, <2>2, <2>3 DEF Quiet
<1>6. CASE ChildExits
  <2>1. /\ r'.originalHead = r.originalHead /\ r'.baselineRef = r.baselineRef
        /\ r'.patchBytes = r.patchBytes /\ r'.untracked = r.untracked
        /\ r'.tempWorktree = r.tempWorktree /\ (pc \in Ended => r'.keep = r.keep)
    BY <1>6, <1>r DEF ChildExits, RunnerRecords
  <2>2. UNCHANGED <<opts, worktree, commits>> /\ seen'.wrote = seen.wrote /\ seen'.before = seen.before
    BY <1>6 DEF ChildExits, origin, env
  <2>3. Onward
    BY <1>6 DEF ChildExits, Onward, Replaying, Commanding, Ended
  <2> QED
    BY <2>1, <2>2, <2>3 DEF Quiet
<1>7. CASE ExecExits
  <2>1. /\ r'.originalHead = r.originalHead /\ r'.baselineRef = r.baselineRef
        /\ r'.patchBytes = r.patchBytes /\ r'.untracked = r.untracked
        /\ r'.tempWorktree = r.tempWorktree /\ (pc \in Ended => r'.keep = r.keep)
    BY <1>7, <1>r DEF ExecExits, RunnerRecords
  <2>2. UNCHANGED <<opts, worktree, commits>> /\ seen'.wrote = seen.wrote /\ seen'.before = seen.before
    BY <1>7 DEF ExecExits, origin, env
  <2>3. Onward
    BY <1>7 DEF ExecExits, Onward, Replaying, Commanding, Ended
  <2> QED
    BY <2>1, <2>2, <2>3 DEF Quiet
<1>8. CASE KillCommand
  <2>1. /\ r'.originalHead = r.originalHead /\ r'.baselineRef = r.baselineRef
        /\ r'.patchBytes = r.patchBytes /\ r'.untracked = r.untracked
        /\ r'.tempWorktree = r.tempWorktree /\ (pc \in Ended => r'.keep = r.keep)
    BY <1>8, <1>r DEF KillCommand, RunnerRecords
  <2>2. UNCHANGED <<opts, worktree, commits>> /\ seen'.wrote = seen.wrote /\ seen'.before = seen.before
    BY <1>8 DEF KillCommand, origin, env
  <2>3. Onward
    BY <1>8 DEF KillCommand, Onward, Replaying, Commanding, Ended
  <2> QED
    BY <2>1, <2>2, <2>3 DEF Quiet
<1>9. CASE RunExecCommands
  <2>1. /\ r'.originalHead = r.originalHead /\ r'.baselineRef = r.baselineRef
        /\ r'.patchBytes = r.patchBytes /\ r'.untracked = r.untracked
        /\ r'.tempWorktree = r.tempWorktree /\ (pc \in Ended => r'.keep = r.keep)
    BY <1>9, <1>r DEF RunExecCommands, RunnerRecords
  <2>2. UNCHANGED <<opts, worktree, commits>> /\ seen'.wrote = seen.wrote /\ seen'.before = seen.before
    BY <1>9 DEF RunExecCommands, origin, env
  <2>3. Onward
    BY <1>9 DEF RunExecCommands, Onward, Replaying, Commanding, Ended
  <2> QED
    BY <2>1, <2>2, <2>3 DEF Quiet
<1>10. CASE WriteSnapshot
  <2>1. /\ r'.originalHead = r.originalHead /\ r'.baselineRef = r.baselineRef
        /\ r'.patchBytes = r.patchBytes /\ r'.untracked = r.untracked
        /\ r'.tempWorktree = r.tempWorktree /\ (pc \in Ended => r'.keep = r.keep)
    BY <1>10 DEF WriteSnapshot
  <2>2. UNCHANGED <<opts, worktree, commits>> /\ seen'.wrote = seen.wrote /\ seen'.before = seen.before
    BY <1>10 DEF WriteSnapshot, origin, env
  <2>3. Onward
    BY <1>10 DEF WriteSnapshot, Onward, Replaying, Commanding, Ended
  <2> QED
    BY <2>1, <2>2, <2>3 DEF Quiet
<1>11. CASE SaveRequested
  <2>1. /\ r'.originalHead = r.originalHead /\ r'.baselineRef = r.baselineRef
        /\ r'.patchBytes = r.patchBytes /\ r'.untracked = r.untracked
        /\ r'.tempWorktree = r.tempWorktree /\ (pc \in Ended => r'.keep = r.keep)
    BY <1>11, <1>r DEF SaveRequested, SaveTo, SaveFails, RunnerRecords
  <2>2. UNCHANGED <<opts, worktree, commits>> /\ seen'.wrote = seen.wrote /\ seen'.before = seen.before
    BY <1>11 DEF SaveRequested, origin, env
  <2>3. Onward
    BY <1>11 DEF SaveRequested, Onward, Replaying, Settled, Proposed, Vetted, Ended
  <2> QED
    BY <2>1, <2>2, <2>3 DEF Quiet
<1>12. CASE WriteStdout
  <2>1. /\ r'.originalHead = r.originalHead /\ r'.baselineRef = r.baselineRef
        /\ r'.patchBytes = r.patchBytes /\ r'.untracked = r.untracked
        /\ r'.tempWorktree = r.tempWorktree /\ (pc \in Ended => r'.keep = r.keep)
    BY <1>12 DEF WriteStdout
  <2>2. UNCHANGED <<opts, worktree, commits>> /\ seen'.wrote = seen.wrote /\ seen'.before = seen.before
    BY <1>12 DEF WriteStdout, origin, env
  <2>3. Onward
    BY <1>12 DEF WriteStdout, Onward, Replaying, Settled, Proposed, Vetted, Ended
  <2> QED
    BY <2>1, <2>2, <2>3 DEF Quiet
<1>13. CASE DefaultSave
  <2>1. /\ r'.originalHead = r.originalHead /\ r'.baselineRef = r.baselineRef
        /\ r'.patchBytes = r.patchBytes /\ r'.untracked = r.untracked
        /\ r'.tempWorktree = r.tempWorktree /\ (pc \in Ended => r'.keep = r.keep)
    BY <1>13, <1>r DEF DefaultSave, SaveTo, SaveFails, RunnerRecords
  <2>2. UNCHANGED <<opts, worktree, commits>> /\ seen'.wrote = seen.wrote /\ seen'.before = seen.before
    BY <1>13 DEF DefaultSave, origin, env
  <2>3. Onward
    BY <1>13 DEF DefaultSave, Onward, Replaying, Settled, Proposed, Vetted, Ended
  <2> QED
    BY <2>1, <2>2, <2>3 DEF Quiet
<1>14. CASE AskMenu
  <2>1. /\ r'.originalHead = r.originalHead /\ r'.baselineRef = r.baselineRef
        /\ r'.patchBytes = r.patchBytes /\ r'.untracked = r.untracked
        /\ r'.tempWorktree = r.tempWorktree /\ (pc \in Ended => r'.keep = r.keep)
    BY <1>14, <1>r DEF AskMenu, RunnerRecords, Ended
  <2>2. UNCHANGED <<opts, worktree, commits>> /\ seen'.wrote = seen.wrote /\ seen'.before = seen.before
    BY <1>14 DEF AskMenu, origin, env, TypeOK, Histories
  <2>3. Onward
    BY <1>14 DEF AskMenu, Onward, Replaying, Settled, Proposed, Vetted, Ended
  <2> QED
    BY <2>1, <2>2, <2>3 DEF Quiet
<1>15. CASE AskPath
  <2>1. /\ r'.originalHead = r.originalHead /\ r'.baselineRef = r.baselineRef
        /\ r'.patchBytes = r.patchBytes /\ r'.untracked = r.untracked
        /\ r'.tempWorktree = r.tempWorktree /\ (pc \in Ended => r'.keep = r.keep)
    BY <1>15, <1>r DEF AskPath, RunnerRecords
  <2>2. UNCHANGED <<opts, worktree, commits>> /\ seen'.wrote = seen.wrote /\ seen'.before = seen.before
    BY <1>15 DEF AskPath, origin, env
  <2>3. Onward
    BY <1>15 DEF AskPath, Onward, Replaying, Settled, Proposed, Vetted, Ended
  <2> QED
    BY <2>1, <2>2, <2>3 DEF Quiet
<1>16. CASE MenuSave
  <2>1. /\ r'.originalHead = r.originalHead /\ r'.baselineRef = r.baselineRef
        /\ r'.patchBytes = r.patchBytes /\ r'.untracked = r.untracked
        /\ r'.tempWorktree = r.tempWorktree /\ (pc \in Ended => r'.keep = r.keep)
    BY <1>16, <1>r DEF MenuSave, SaveTo, SaveFails, RunnerRecords
  <2>2. UNCHANGED <<opts, worktree, commits>> /\ seen'.wrote = seen.wrote /\ seen'.before = seen.before
    BY <1>16 DEF MenuSave, origin, env
  <2>3. Onward
    BY <1>16 DEF MenuSave, Onward, Replaying, Settled, Proposed, Vetted, Ended
  <2> QED
    BY <2>1, <2>2, <2>3 DEF Quiet
<1>17. CASE DriftStatus
  <2>1. /\ r'.originalHead = r.originalHead /\ r'.baselineRef = r.baselineRef
        /\ r'.patchBytes = r.patchBytes /\ r'.untracked = r.untracked
        /\ r'.tempWorktree = r.tempWorktree /\ (pc \in Ended => r'.keep = r.keep)
    BY <1>17, <1>r DEF DriftStatus, RunnerRecords
  <2>2. UNCHANGED <<opts, worktree, commits>> /\ seen'.wrote = seen.wrote /\ seen'.before = seen.before
    BY <1>17 DEF DriftStatus, origin, env
  <2>3. Onward
    BY <1>17 DEF DriftStatus, Onward, Replaying, Settled, Proposed, Vetted, Ended
  <2> QED
    BY <2>1, <2>2, <2>3 DEF Quiet
<1>18. CASE DriftHead
  <2>1. /\ r'.originalHead = r.originalHead /\ r'.baselineRef = r.baselineRef
        /\ r'.patchBytes = r.patchBytes /\ r'.untracked = r.untracked
        /\ r'.tempWorktree = r.tempWorktree /\ (pc \in Ended => r'.keep = r.keep)
    BY <1>18 DEF DriftHead
  <2>2. UNCHANGED <<opts, worktree, commits>> /\ seen'.wrote = seen.wrote /\ seen'.before = seen.before
    BY <1>18 DEF DriftHead, origin, env
  <2>3. Onward
    BY <1>18 DEF DriftHead, Onward, Replaying, Settled, Proposed, Vetted, Ended
  <2> QED
    BY <2>1, <2>2, <2>3 DEF Quiet
<1>19. CASE ApplyCheck
  <2>1. /\ r'.originalHead = r.originalHead /\ r'.baselineRef = r.baselineRef
        /\ r'.patchBytes = r.patchBytes /\ r'.untracked = r.untracked
        /\ r'.tempWorktree = r.tempWorktree /\ (pc \in Ended => r'.keep = r.keep)
    BY <1>19 DEF ApplyCheck
  <2>2. UNCHANGED <<opts, worktree, commits>> /\ seen'.wrote = seen.wrote /\ seen'.before = seen.before
    BY <1>19 DEF ApplyCheck, origin, env
  <2>3. Onward
    BY <1>19 DEF ApplyCheck, Onward, Replaying, Settled, Proposed, Vetted, Ended
  <2> QED
    BY <2>1, <2>2, <2>3 DEF Quiet
<1>20. CASE AutoSave
  <2>1. /\ r'.originalHead = r.originalHead /\ r'.baselineRef = r.baselineRef
        /\ r'.patchBytes = r.patchBytes /\ r'.untracked = r.untracked
        /\ r'.tempWorktree = r.tempWorktree /\ (pc \in Ended => r'.keep = r.keep)
    BY <1>20, <1>r DEF AutoSave, SaveTo, SaveFails, RunnerRecords
  <2>2. UNCHANGED <<opts, worktree, commits>> /\ seen'.wrote = seen.wrote /\ seen'.before = seen.before
    BY <1>20 DEF AutoSave, origin, env
  <2>3. Onward
    BY <1>20 DEF AutoSave, Onward, Replaying, Settled, Proposed, Vetted, Ended
  <2> QED
    BY <2>1, <2>2, <2>3 DEF Quiet
<1>21. CASE Apply
  <2>1. /\ r'.originalHead = r.originalHead /\ r'.baselineRef = r.baselineRef
        /\ r'.patchBytes = r.patchBytes /\ r'.untracked = r.untracked
        /\ r'.tempWorktree = r.tempWorktree /\ (pc \in Ended => r'.keep = r.keep)
    BY <1>21, <1>r DEF Apply, Applied, RunnerRecords
  <2>2. UNCHANGED <<opts, worktree, commits>> /\ seen'.wrote = seen.wrote /\ seen'.before = seen.before
    BY <1>21 DEF Apply, origin, env
  <2>3. Onward
    BY <1>21 DEF Apply, Applied, Onward, Replaying, Settled, Proposed, Vetted, Ended
  <2> QED
    BY <2>1, <2>2, <2>3 DEF Quiet
<1>22. CASE Apply3Way
  <2>1. /\ r'.originalHead = r.originalHead /\ r'.baselineRef = r.baselineRef
        /\ r'.patchBytes = r.patchBytes /\ r'.untracked = r.untracked
        /\ r'.tempWorktree = r.tempWorktree /\ (pc \in Ended => r'.keep = r.keep)
    BY <1>22, <1>r DEF Apply3Way, Applied, RunnerRecords
  <2>2. UNCHANGED <<opts, worktree, commits>> /\ seen'.wrote = seen.wrote /\ seen'.before = seen.before
    BY <1>22 DEF Apply3Way, origin, env
  <2>3. Onward
    BY <1>22 DEF Apply3Way, Applied, Onward, Replaying, Settled, Proposed, Vetted, Ended
  <2> QED
    BY <2>1, <2>2, <2>3 DEF Quiet
<1>23. CASE EmitJSON
  <2>1. /\ r'.originalHead = r.originalHead /\ r'.baselineRef = r.baselineRef
        /\ r'.patchBytes = r.patchBytes /\ r'.untracked = r.untracked
        /\ r'.tempWorktree = r.tempWorktree /\ (pc \in Ended => r'.keep = r.keep)
    BY <1>23 DEF EmitJSON
  <2>2. UNCHANGED <<opts, worktree, commits>> /\ seen'.wrote = seen.wrote /\ seen'.before = seen.before
    BY <1>23 DEF EmitJSON, origin, env
  <2>3. Onward
    BY <1>23 DEF EmitJSON, Onward, Replaying, Ended
  <2> QED
    BY <2>1, <2>2, <2>3 DEF Quiet
<1>24. CASE OthersEdit
  BY <1>24 DEF OthersEdit, Quiet, Onward
<1>25. CASE Interrupt
  BY <1>25 DEF Interrupt, origin, Quiet, Onward
<1>26. CASE Exited
  BY <1>26 DEF Exited, vars, Quiet, Onward
<1>27. CASE UNCHANGED vars
  BY <1>27 DEF vars, Quiet, Onward
<1>28. CASE OthersStage
  BY <1>28, StageChanges DEF Quiet, Onward
<1> QED
  BY <1>1, <1>2, <1>3, <1>4, <1>5, <1>6, <1>7, <1>8, <1>9, <1>10,
     <1>11, <1>12, <1>13, <1>14, <1>15, <1>16, <1>17, <1>18, <1>19, <1>20,
     <1>21, <1>22, <1>23, <1>24, <1>25, <1>26, <1>27, <1>28
  DEF AtTheWorktree, Next, Program, Prompts, CommandEnds, Others

-----------------------------------------------------------------------------
(* What is captured.                                                       *)

\* What .gitignore excludes and a tree does not have.
Hidden(t) == {c \in Cells : PathOf[c] \in Ignored \ Tracked(t)}

\* Some call has failed: it may have been git apply --index.
Slipped == budget.faults < MaxFaults

\* What the index of the worktree does not know is not in the worktree while the
\* original is replayed, and while the command runs the worktree differs from
\* the baseline only where the command has written.
CaptureInv ==
    /\ pc \in Replaying =>
          \A c \in Hidden(worktree.index) : worktree.tree[c] = None \/ Slipped
    /\ pc = "copyUntracked" => r.untracked \cap Ignored = {}
    /\ pc \in Commanding \cup Settled =>
          /\ worktree.index = r.baselineRef
          /\ \A c \in Cells \ seen.wrote :
                \/ worktree.tree[c] = r.baselineRef[c]
                \/ c \in Hidden(r.baselineRef) /\ Slipped
    /\ pc \in Early \cup Running => PatchIsEmpty(r.patchBytes)
    /\ OnlyTheCommand

LEMMA SlippedStays == TypeOK /\ TypeOK' /\ [Next]_vars /\ Slipped => Slipped'
<1> SUFFICES ASSUME TypeOK, TypeOK', [Next]_vars, Slipped PROVE Slipped'
  OBVIOUS
<1>1. budget.faults \in Nat /\ MaxFaults \in Nat
  BY RunnerAssumption DEF TypeOK, Budgets
<1> QED
  BY <1>1, TroublesStay DEF Slipped

LEMMA FaultSlips == TypeOK /\ Troubles /\ IOErr => Slipped'
<1> SUFFICES ASSUME TypeOK, Troubles, IOErr PROVE Slipped'
  OBVIOUS
<1>1. budget.faults \in 0 .. MaxFaults /\ MaxFaults \in Nat
  BY RunnerAssumption DEF Troubles
<1>2. budget'.faults = budget.faults - 1
  BY DEF IOErr, TypeOK, Budgets
<1> QED
  BY <1>1, <1>2 DEF Slipped

\* A step that leaves patch, options and history alone leaves the patch as good
\* as it was.
LEMMA CommandFrame ==
    ASSUME OnlyTheCommand, Slipped => Slipped', opts' = opts,
           r'.patchBytes = r.patchBytes, seen.wrote \subseteq seen'.wrote
    PROVE  OnlyTheCommand'
BY DEF OnlyTheCommand, Slipped

LEMMA CaptureQuiet ==
    ASSUME TypeOK, CaptureInv, Quiet, Slipped => Slipped' PROVE CaptureInv'
<1>1. pc' \in Replaying => pc' = pc
  BY LabelsApart DEF Quiet, Onward, Replaying, Starting, Early
<1>2. pc' \in Commanding \cup Settled => pc \in Commanding \cup Settled
  <2>1. pc' \in Commanding => pc \in Commanding
    BY LabelsApart DEF Quiet, Onward, Commanding, Starting, Early
  <2>2. pc' \in Settled => pc \in Settled
    BY LabelsApart DEF Quiet, Onward, Ended, Starting, Early
  <2> QED
    BY <2>1, <2>2
<1>3. pc' \in Early \cup Running => pc \in Early \cup Running
  BY LabelsApart DEF Quiet, Onward, Ended, Commanding, Starting
<1>4. /\ r'.patchBytes = r.patchBytes /\ r'.untracked = r.untracked
      /\ r'.baselineRef = r.baselineRef /\ worktree' = worktree
      /\ seen'.wrote = seen.wrote /\ opts' = opts
  BY DEF Quiet
<1>5. pc' = "copyUntracked" => pc' = pc
  BY <1>1 DEF Replaying
<1>6. OnlyTheCommand'
  BY <1>4, CommandFrame DEF CaptureInv
<1> QED
  BY <1>1, <1>2, <1>3, <1>4, <1>5, <1>6 DEF CaptureInv, PatchIsEmpty

\* git add and git commit do not bring in what .gitignore excludes.
LEMMA StageTracks ==
    ASSUME NEW h, NEW t
    PROVE  Tracked(StageAll(h, t, FALSE)) \cap Ignored \subseteq Tracked(h)
<1> SUFFICES ASSUME NEW p \in Tracked(StageAll(h, t, FALSE)), p \in Ignored,
                    p \notin Tracked(h)
             PROVE  FALSE
  OBVIOUS
<1>1. PICK c \in CellsOf(p) : StageAll(h, t, FALSE)[c] # None
  BY DEF Tracked, Exists
<1>2. c \in Cells /\ PathOf[c] = p
  BY DEF CellsOf
<1> QED
  BY <1>1, <1>2 DEF StageAll

Staged == StageAll(worktree.index, worktree.tree, opts.includeIgnored)

\* What the patch changes, the index holds otherwise than the baseline.
LEMMA CapturedChanges ==
    ASSUME NEW c \in DOMAIN CapturedPatch,
           CapturedPatch[c].old # CapturedPatch[c].new
    PROVE  c \in Cells /\ Staged[c] # r.baselineRef[c]
<1> DEFINE diff == Diff(r.baselineRef, Staged)
           forward == Limit(diff, Selected)
<1>1. \A d \in DOMAIN forward :
        d \in Cells /\ forward[d] = [old |-> r.baselineRef[d], new |-> Staged[d]]
  <2>1. \A d \in DOMAIN diff :
          d \in Cells /\ diff[d] = [old |-> r.baselineRef[d], new |-> Staged[d]]
    BY DEF Diff, Mentioned
  <2> HIDE DEF diff
  <2> QED
    BY <2>1 DEF Limit
<1>2. CapturedPatch = IF opts.reverse THEN Reversed(forward) ELSE forward
  BY DEF CapturedPatch, Staged
<1> HIDE DEF forward
<1>3. c \in DOMAIN forward /\ forward[c].old # forward[c].new
  BY <1>2 DEF Reversed
<1> QED
  BY <1>1, <1>3

LEMMA CaptureKeeps ==
    ASSUME TypeOK, TypeOK', Troubles, CaptureInv, [Next]_vars
    PROVE  CaptureInv'
<1> USE DEF Goto, Stop
<1>r. r \in RunnerRecords
  BY DEF TypeOK
<1>w. worktree \in Worktrees
  BY DEF TypeOK
<1>s. Slipped => Slipped'
  BY SlippedStays
\* A step that ends the run, or does no more than go on towards the worktree.
<1>e. ASSUME pc' \in Ended \cup {"status"}, r'.patchBytes = r.patchBytes,
             seen.wrote \subseteq seen'.wrote, opts' = opts,
             pc' \in Early \cup Running => pc \in Early \cup Running
      PROVE  CaptureInv'
  <2>1. OnlyTheCommand'
    BY <1>s, <1>e, CommandFrame DEF CaptureInv
  <2>2. pc' \notin Replaying \cup Commanding \cup Settled /\ pc' # "copyUntracked"
    BY <1>e DEF Ended, Replaying, Commanding, Settled, Proposed, Vetted
  <2> QED
    BY <1>e, <2>1, <2>2 DEF CaptureInv, PatchIsEmpty
<1>1. CASE ReadHead
  <2>1. /\ r'.patchBytes = r.patchBytes /\ pc' \in {"status", "emit"} /\ pc = "head"
        /\ opts' = opts /\ seen' = seen
    BY <1>1, <1>r DEF ReadHead, RunnerRecords, env
  <2> QED
    BY <1>e, <2>1 DEF Ended, Early
<1>2. CASE SetupWorktree
  <2>1. /\ UNCHANGED <<opts, seen>> /\ pc = "setup" /\ r'.patchBytes = r.patchBytes
    BY <1>2, <1>r DEF SetupWorktree, RunnerRecords, env
  <2>2. PatchIsEmpty(r.patchBytes) /\ OnlyTheCommand
    BY <2>1 DEF CaptureInv, Running
  <2>3. OnlyTheCommand'
    BY <1>s, <2>1, <2>2, CommandFrame
  <2>4. CASE pc' = "emit"
    BY <1>e, <2>1, <2>4 DEF Ended, Running
  <2> DEFINE base == commits[r.originalHead]
  <2>5. CASE /\ worktree' = CheckedOut(base)
             /\ r' = [r EXCEPT !.tempWorktree = TRUE, !.baselineRef = base]
             /\ pc' \in {"replayTracked", "policy"}
    <3>1. worktree'.index = base /\ worktree'.tree = base /\ r'.baselineRef = base
      BY <1>r, <2>5 DEF RunnerRecords, CheckedOut
    <3> HIDE DEF base
    <3>2. \A c \in Hidden(base) : base[c] = None
      BY AbsentIsNone DEF Hidden
    <3>3. (\A c \in Hidden(worktree.index) : worktree.tree[c] = None \/ Slipped)'
      BY <3>1, <3>2 DEF Hidden, Tracked, Exists
    <3>4. pc' \in Commanding \cup Settled =>
            /\ worktree'.index = r'.baselineRef
            /\ \A c \in Cells \ seen'.wrote : worktree'.tree[c] = r'.baselineRef[c]
      BY <3>1
    <3> QED
      BY <2>1, <2>2, <2>3, <2>5, <3>3, <3>4 DEF CaptureInv, PatchIsEmpty
  <2> QED
    BY <1>2, <2>4, <2>5 DEF SetupWorktree
<1>3. CASE ReplayTracked
  <2>1. UNCHANGED <<opts, seen, r>> /\ pc = "replayTracked"
    BY <1>3 DEF ReplayTracked, env
  <2>2. PatchIsEmpty(r.patchBytes) /\ OnlyTheCommand
    BY <2>1 DEF CaptureInv, Running
  <2>3. OnlyTheCommand'
    BY <1>s, <2>1, <2>2, CommandFrame
  <2>4. CASE pc' = "emit"
    BY <1>e, <2>1, <2>4 DEF Ended, Running
  <2> DEFINE replayed == ApplyTo(TrackedChanges, worktree.tree, Paths)
  <2>5. CASE pc' = "listUntracked" /\ worktree' = [worktree EXCEPT !.tree = replayed,
                                                                   !.index = replayed]
    <3>1. worktree'.index = worktree'.tree
      BY <1>w, <2>5 DEF Worktrees
    <3>2. \A c \in Hidden(worktree'.index) : worktree'.tree[c] = None
      BY <3>1, AbsentIsNone DEF Hidden
    <3>3. (\A c \in Hidden(worktree.index) : worktree.tree[c] = None \/ Slipped)'
      BY <3>2 DEF Hidden, Tracked, Exists
    <3> QED
      BY <2>1, <2>2, <2>3, <2>5, <3>3 DEF CaptureInv, Commanding, Settled, Proposed, Vetted
  <2>6. CASE pc' = "listUntracked" /\ IOErr
    <3>1. Slipped'
      BY <2>6, FaultSlips
    <3> QED
      BY <2>1, <2>2, <2>3, <2>6, <3>1 DEF CaptureInv, Commanding, Settled, Proposed, Vetted
  <2> QED
    BY <1>3, <2>4, <2>5, <2>6 DEF ReplayTracked
<1>4. CASE ListUntracked
  <2>1. /\ UNCHANGED <<opts, seen, worktree>> /\ pc = "listUntracked"
        /\ r'.patchBytes = r.patchBytes
    BY <1>4, <1>r DEF ListUntracked, RunnerRecords, env
  <2>2. /\ PatchIsEmpty(r.patchBytes) /\ OnlyTheCommand
        /\ \A c \in Hidden(worktree.index) : worktree.tree[c] = None \/ Slipped
    BY <2>1 DEF CaptureInv, Running, Replaying
  <2>3. OnlyTheCommand'
    BY <1>s, <2>1, <2>2, CommandFrame
  <2>4. CASE pc' = "emit"
    BY <1>e, <2>1, <2>4 DEF Ended, Running
  <2>5. CASE pc' = "copyUntracked" /\ r' = [r EXCEPT !.untracked = LsUntracked(index, work)]
    <3>1. r'.untracked = LsUntracked(index, work)
      BY <1>r, <2>5 DEF RunnerRecords
    <3>2. r'.untracked \cap Ignored = {}
      BY <3>1 DEF LsUntracked
    <3>3. (\A c \in Hidden(worktree.index) : worktree.tree[c] = None \/ Slipped)'
      BY <1>s, <2>1, <2>2 DEF Hidden, Tracked, Exists
    <3> QED
      BY <2>1, <2>2, <2>3, <2>5, <3>2, <3>3
      DEF CaptureInv, Commanding, Settled, Proposed, Vetted
  <2> QED
    BY <1>4, <2>4, <2>5 DEF ListUntracked
<1>5. CASE CopyUntracked
  <2>1. UNCHANGED <<opts, seen>> /\ pc = "copyUntracked"
    BY <1>5 DEF CopyUntracked, env
  <2>2. /\ PatchIsEmpty(r.patchBytes) /\ OnlyTheCommand /\ r.untracked \cap Ignored = {}
        /\ \A c \in Hidden(worktree.index) : worktree.tree[c] = None \/ Slipped
    BY <2>1 DEF CaptureInv, Running, Replaying
  <2>3. CASE pc' = "emit" /\ r' = r
    BY <1>e, <2>1, <2>3 DEF Ended, Running
  <2>4. ASSUME NEW p \in r.untracked, pc' = pc,
               worktree' = [worktree EXCEPT !.tree =
                  [c \in Cells |-> IF PathOf[c] = p THEN work[c] ELSE worktree.tree[c]]],
               r' = [r EXCEPT !.untracked = @ \ {p}]
        PROVE  CaptureInv'
    <3>1. /\ worktree'.index = worktree.index
          /\ worktree'.tree =
                [c \in Cells |-> IF PathOf[c] = p THEN work[c] ELSE worktree.tree[c]]
      BY <1>w, <2>4 DEF Worktrees
    <3>2. r'.patchBytes = r.patchBytes /\ r'.untracked = r.untracked \ {p}
      BY <1>r, <2>4 DEF RunnerRecords
    <3>3. p \notin Ignored
      BY <2>2
    <3>4. (\A c \in Hidden(worktree.index) : worktree.tree[c] = None \/ Slipped)'
      BY <1>s, <2>2, <3>1, <3>3 DEF Hidden, Tracked, Exists
    <3>5. OnlyTheCommand'
      BY <1>s, <2>1, <2>2, <3>2, CommandFrame
    <3> QED
      BY <2>1, <2>2, <2>4, <3>2, <3>4, <3>5
      DEF CaptureInv, Commanding, Settled, Proposed, Vetted
  <2> QED
    BY <1>5, <2>3, <2>4 DEF CopyUntracked
<1>6. CASE CommitBaseline
  <2>1. UNCHANGED <<opts, seen>> /\ pc = "copyUntracked" /\ r'.patchBytes = r.patchBytes
    BY <1>6, <1>r DEF CommitBaseline, RunnerRecords, env
  <2>2. /\ PatchIsEmpty(r.patchBytes) /\ OnlyTheCommand
        /\ \A c \in Hidden(worktree.index) : worktree.tree[c] = None \/ Slipped
    BY <2>1 DEF CaptureInv, Running, Replaying
  <2>3. OnlyTheCommand'
    BY <1>s, <2>1, <2>2, CommandFrame
  <2>4. CASE pc' = "emit"
    BY <1>e, <2>1, <2>4 DEF Ended, Running
  <2>5. CASE /\ pc' = "policy" /\ worktree' = [worktree EXCEPT !.index = BaselineTree]
             /\ r' = [r EXCEPT !.baselineRef = BaselineTree]
    <3>1. /\ worktree'.index = BaselineTree /\ worktree'.tree = worktree.tree
          /\ r'.baselineRef = BaselineTree
      BY <1>r, <1>w, <2>5 DEF RunnerRecords, Worktrees
    <3>2. ASSUME NEW c \in Cells, worktree.tree[c] # BaselineTree[c]
          PROVE  c \in Hidden(BaselineTree) /\ Slipped
      <4>1. c \in Hidden(worktree.index) /\ BaselineTree[c] = None
        BY <3>2 DEF BaselineTree, StageAll, Hidden
      <4>2. PathOf[c] \in Ignored /\ PathOf[c] \notin Tracked(BaselineTree)
        BY <4>1, StageTracks DEF Hidden, BaselineTree
      <4> QED
        BY <2>2, <3>2, <4>1, <4>2 DEF Hidden
    <3>3. (\A c \in Cells \ seen.wrote :
                \/ worktree.tree[c] = r.baselineRef[c]
                \/ c \in Hidden(r.baselineRef) /\ Slipped)'
      <4> DEFINE B == BaselineTree
      <4> HIDE DEF B
      <4>1. \A c \in Cells : worktree.tree[c] # B[c] => c \in Hidden(B) /\ Slipped
        BY <3>2 DEF B
      <4>2. r'.baselineRef = B
        BY <3>1 DEF B
      <4> QED
        BY <1>s, <3>1, <4>1, <4>2 DEF Hidden, Tracked, Exists
    <3> QED
      BY <2>1, <2>2, <2>3, <2>5, <3>1, <3>3 DEF CaptureInv, Replaying
  <2> QED
    BY <1>6, <2>4, <2>5 DEF CommitBaseline
<1>7. CASE CommandWrites
  <2>1. UNCHANGED <<opts, r, pc>> /\ pc \in {"child", "exec"}
    BY <1>7 DEF CommandWrites
  <2>2. PICK c \in Cells, v \in Values \cup {None} :
            /\ worktree' = [worktree EXCEPT !.tree[c] = v]
            /\ seen' = [seen EXCEPT !.wrote = @ \cup {c}]
    BY <1>7 DEF CommandWrites
  <2>3. seen'.wrote = seen.wrote \cup {c}
    BY <2>2 DEF TypeOK, Histories
  <2>4. /\ \A d \in Cells \ {c} : worktree'.tree[d] = worktree.tree[d]
        /\ worktree'.index = worktree.index
    BY <1>w, <2>2 DEF Worktrees, Trees
  <2>5. OnlyTheCommand'
    BY <1>s, <2>1, <2>3, CommandFrame DEF CaptureInv
  <2>6. pc \in Commanding /\ pc \notin Replaying /\ pc \in Running
    BY <2>1 DEF Commanding, Replaying, Running
  <2>7. (\A d \in Cells \ seen.wrote :
                \/ worktree.tree[d] = r.baselineRef[d]
                \/ d \in Hidden(r.baselineRef) /\ Slipped)'
    BY <1>s, <2>1, <2>3, <2>4, <2>6 DEF CaptureInv, Hidden, Tracked, Exists
  <2> QED
    BY <2>1, <2>4, <2>5, <2>6, <2>7 DEF CaptureInv, Replaying, PatchIsEmpty
<1>8. CASE CapturePatch
  <2>1. /\ UNCHANGED <<opts, seen, worktree>> /\ pc = "capture"
        /\ r'.baselineRef = r.baselineRef /\ pc' \in {"menu", "save", "emit"}
    BY <1>8, <1>r DEF CapturePatch, RunnerRecords, env
  <2>2. /\ worktree.index = r.baselineRef
        /\ \A c \in Cells \ seen.wrote :
                \/ worktree.tree[c] = r.baselineRef[c]
                \/ c \in Hidden(r.baselineRef) /\ Slipped
    BY <2>1 DEF CaptureInv, Commanding
  <2>3. OnlyTheCommand'
    <3>1. CASE UNCHANGED r
      BY <1>s, <2>1, <3>1, CommandFrame DEF CaptureInv
    <3>2. CASE r' = [r EXCEPT !.patchBytes = CapturedPatch]
      <4>1. r'.patchBytes = CapturedPatch
        BY <1>r, <3>2 DEF RunnerRecords
      <4>2. ASSUME NEW c \in DOMAIN CapturedPatch,
                   CapturedPatch[c].old # CapturedPatch[c].new, c \notin seen.wrote
            PROVE  opts.includeIgnored /\ PathOf[c] \in Ignored /\ Slipped
        <5>1. c \in Cells /\ Staged[c] # r.baselineRef[c]
          BY <4>2, CapturedChanges
        <5>2. ~(c \in Hidden(r.baselineRef) /\ ~opts.includeIgnored)
          BY <2>2, <5>1, AbsentIsNone DEF Hidden, Staged, StageAll
        <5>3. Staged[c] = worktree.tree[c]
          BY <2>2, <5>1, <5>2 DEF Staged, StageAll, Hidden
        <5> QED
          BY <2>2, <4>2, <5>1, <5>2, <5>3 DEF Hidden
      <4> QED
        BY <1>s, <2>1, <4>1, <4>2 DEF OnlyTheCommand, Slipped
    <3> QED
      BY <1>8, <3>1, <3>2 DEF CapturePatch
  <2>4. (\A c \in Cells \ seen.wrote :
                \/ worktree.tree[c] = r.baselineRef[c]
                \/ c \in Hidden(r.baselineRef) /\ Slipped)'
    BY <1>s, <2>1, <2>2 DEF Hidden, Tracked, Exists
  <2> QED
    BY <2>1, <2>2, <2>3, <2>4 DEF CaptureInv, Early, Running, Replaying
<1>9. CASE RemoveWorktree \/ RemoveAll
  <2>1. UNCHANGED <<r, opts, seen>> /\ pc' \in Ended
    BY <1>9 DEF RemoveWorktree, RemoveAll, env, Ended
  <2> QED
    BY <1>e, <2>1 DEF Early, Running, Ended
<1>10. CASE OthersCommit
  <2>1. UNCHANGED <<opts, pc, r, worktree>> /\ seen'.wrote = seen.wrote
    BY <1>10 DEF OthersCommit, TypeOK, Histories
  <2>2. OnlyTheCommand'
    BY <1>s, <2>1, CommandFrame DEF CaptureInv
  <2>3. (\A c \in Hidden(worktree.index) : worktree.tree[c] = None \/ Slipped)' \/ ~(pc \in Replaying)
    BY <1>s, <2>1 DEF CaptureInv, Hidden, Tracked, Exists
  <2>4. (\A c \in Cells \ seen.wrote :
                \/ worktree.tree[c] = r.baselineRef[c]
                \/ c \in Hidden(r.baselineRef) /\ Slipped)' \/ pc \notin Commanding \cup Settled
    BY <1>s, <2>1 DEF CaptureInv, Hidden, Tracked, Exists
  <2> QED
    BY <2>1, <2>2, <2>3, <2>4 DEF CaptureInv, PatchIsEmpty
<1>11. CASE Quiet
  BY <1>s, <1>11, CaptureQuiet
<1> QED
  BY <1>1, <1>2, <1>3, <1>4, <1>5, <1>6, <1>7, <1>8, <1>9, <1>10, <1>11,
     OthersAreQuiet DEF AtTheWorktree

LEMMA CaptureHolds == Spec => []CaptureInv
<1>1. Init => CaptureInv
  <2> SUFFICES ASSUME Init PROVE CaptureInv
    OBVIOUS
  <2>1. pc = "resolve" /\ PatchIsEmpty(r.patchBytes)
    BY GateBegins DEF Init, GateInv, Early
  <2> QED
    BY <2>1 DEF CaptureInv, Early, Replaying, Commanding, OnlyTheCommand, PatchIsEmpty,
       Settled, Proposed, Vetted
<1>2. TypeOK /\ TypeOK' /\ Troubles /\ CaptureInv /\ [Next]_vars => CaptureInv'
  BY CaptureKeeps
<1> QED
  BY <1>1, <1>2, TypeCorrect, TroublesHold, PTL DEF Spec

\* The patch changes nothing but what the command or a follow-up has changed:
\* neither the dirt the run started from nor edits, git adds and commits that
\* came in while it was replayed.  Ignored files are no exception, unless git
\* apply --index has failed and --include-ignored asks for them.
THEOREM PatchIsOfTheCommand == Spec => []OnlyTheCommand
<1>1. CaptureInv => OnlyTheCommand
  BY DEF CaptureInv
<1> QED
  BY <1>1, CaptureHolds, PTL

-----------------------------------------------------------------------------
(* What is kept.                                                           *)

Here == worktree.dir /\ worktree.handle
Keeps == opts.keep \/ r.keep

KeepInv ==
    /\ pc \in Starting => r.baselineRef = EmptyTree
    /\ pc \in Replaying \cup Commanding \cup Settled => Here
    /\ pc \in Ended /\ Keeps /\ r.baselineRef # EmptyTree => Here
    /\ pc = "removeAll" => ~Keeps

LEMMA KeepKeeps == TypeOK /\ KeepInv /\ [Next]_vars => KeepInv'
<1> SUFFICES ASSUME TypeOK, KeepInv, [Next]_vars PROVE KeepInv'
  OBVIOUS
<1> USE DEF Goto, Stop
<1>r. r \in RunnerRecords
  BY DEF TypeOK
<1>w. worktree \in Worktrees
  BY DEF TypeOK
<1>l. /\ pc' \in Starting => pc' \notin Replaying \cup Commanding \cup Settled \cup Ended
      /\ pc' \in Replaying \cup Commanding \cup Settled => pc' \notin Ended
      /\ pc' = "removeAll" => pc' \in Ended
      /\ pc' = "emit" => pc' \in Ended
  BY LabelsApart DEF Ended
\* Nothing about the worktree changes, and the phase only goes on.
<1>q. ASSUME UNCHANGED <<opts, worktree>>, r'.baselineRef = r.baselineRef,
             pc \in Ended => r'.keep = r.keep,
             pc' \in Starting => pc \in Starting,
             pc' \in Replaying \cup Commanding \cup Settled =>
                 pc \in Replaying \cup Commanding \cup Settled,
             pc' = "removeAll" => pc = "removeAll"
      PROVE  KeepInv'
  <2>1. Here' = Here
    BY <1>q DEF Here
  <2>2. pc \in Labels
    BY DEF TypeOK
  <2>3. pc \in Starting => r'.baselineRef = EmptyTree
    BY <1>q DEF KeepInv
  <2>4. pc \in Ended => Keeps' = Keeps
    BY <1>q DEF Keeps
  <2>5. pc \in Starting \cup Replaying \cup Commanding \cup Settled \cup Ended
    BY <2>2, LabelsApart
  <2>6. pc \in Ended /\ Keeps' /\ r'.baselineRef # EmptyTree => Here'
    BY <1>q, <2>1, <2>4 DEF KeepInv
  <2>7. pc \in Replaying \cup Commanding \cup Settled => Here'
    BY <2>1 DEF KeepInv
  <2>8. pc' = "removeAll" => ~Keeps'
    BY <1>q, <2>4 DEF KeepInv, Ended
  <2> QED
    BY <1>q, <2>3, <2>5, <2>6, <2>7, <2>8 DEF KeepInv
\* The run gives up before it has a worktree, or with one that is there.
<1>1. CASE ReadHead
  <2>1. /\ UNCHANGED <<opts, worktree>> /\ r'.baselineRef = r.baselineRef
        /\ pc = "head" /\ pc' \in {"status", "emit"} /\ r'.keep = r.keep
    BY <1>1, <1>r DEF ReadHead, RunnerRecords, env
  <2>2. pc \in Starting /\ pc' \notin Replaying \cup Commanding \cup Settled
    BY <2>1 DEF Starting, Early, Replaying, Commanding, Settled, Proposed, Vetted
  <2> QED
    BY <2>1, <2>2, <1>q
<1>2. CASE SetupWorktree
  <2>1. pc = "setup" /\ opts' = opts
    BY <1>2 DEF SetupWorktree, env
  <2>2. r.baselineRef = EmptyTree
    BY <2>1 DEF KeepInv, Starting
  <2>3. CASE pc' = "emit" /\ r'.baselineRef = r.baselineRef
    BY <1>l, <2>2, <2>3 DEF KeepInv, Ended
  <2>4. CASE pc' \in {"replayTracked", "policy"} /\ worktree'.dir /\ worktree'.handle
    <3>1. pc' \in Replaying \cup Commanding /\ pc' \notin Starting \cup Ended
      BY <2>4 DEF Replaying, Commanding, Starting, Early, Ended
    <3> QED
      BY <1>l, <2>4, <3>1 DEF KeepInv, Here
  <2>5. pc' = "emit" \/ (pc' \in {"replayTracked", "policy"} /\ worktree'.dir /\ worktree'.handle)
    <3>1. \/ pc' = "emit"
          \/ /\ pc' = IF r.originalDirty THEN "replayTracked" ELSE "policy"
             /\ worktree' = CheckedOut(commits[r.originalHead])
      BY <1>2 DEF SetupWorktree
    <3> QED
      BY <3>1 DEF CheckedOut
  <2>6. pc' = "emit" => r'.baselineRef = r.baselineRef
    <3>1. pc' = "emit" => r' = r \/ r' = [r EXCEPT !.tempWorktree = TRUE]
      BY <1>2 DEF SetupWorktree
    <3> QED
      BY <1>r, <3>1 DEF RunnerRecords
  <2> QED
    BY <2>3, <2>4, <2>5, <2>6
<1>3. CASE ReplayTracked \/ CopyUntracked \/ CommandWrites
  <2>1. /\ opts' = opts /\ r'.keep = r.keep /\ r'.baselineRef = r.baselineRef
        /\ pc \in Replaying \cup Commanding
        /\ pc' \in Replaying \cup Commanding \cup {"emit"}
    <3>1. opts' = opts /\ pc \in Replaying \cup Commanding
      BY <1>3 DEF ReplayTracked, CopyUntracked, CommandWrites, env, Replaying, Commanding
    <3>2. r' = r \/ \E p \in r.untracked : r' = [r EXCEPT !.untracked = @ \ {p}]
      BY <1>3 DEF ReplayTracked, CopyUntracked, CommandWrites
    <3>3. r'.keep = r.keep /\ r'.baselineRef = r.baselineRef
      BY <1>r, <3>2 DEF RunnerRecords
    <3>4. pc' \in {pc, "listUntracked", "emit"}
      BY <1>3 DEF ReplayTracked, CopyUntracked, CommandWrites
    <3> QED
      BY <3>1, <3>3, <3>4 DEF Replaying
  <2>2. worktree'.dir = worktree.dir /\ worktree'.handle = worktree.handle
    BY <1>3, <1>w DEF ReplayTracked, CopyUntracked, CommandWrites, Worktrees
  <2>3. Here'
    BY <2>1, <2>2 DEF KeepInv, Here
  <2>4. pc' \notin Starting /\ pc' # "removeAll"
    BY <2>1, LabelsApart DEF Starting, Early, Replaying, Commanding
  <2> QED
    BY <2>3, <2>4 DEF KeepInv
<1>4. CASE ListUntracked \/ CommitBaseline \/ CapturePatch
  <2>1. /\ opts' = opts /\ worktree'.dir = worktree.dir /\ worktree'.handle = worktree.handle
        /\ pc \in {"listUntracked", "copyUntracked", "capture"}
        /\ pc' \in {"copyUntracked", "policy", "menu", "save", "emit"}
    BY <1>4, <1>w DEF ListUntracked, CommitBaseline, CapturePatch, env, Worktrees
  <2>2. pc \in Replaying \cup Commanding
    BY <2>1 DEF Replaying, Commanding
  <2>3. Here'
    BY <2>1, <2>2 DEF KeepInv, Here
  <2>4. pc' \notin Starting /\ pc' # "removeAll"
    BY <2>1 DEF Starting, Early
  <2> QED
    BY <2>3, <2>4 DEF KeepInv
<1>5. CASE RemoveWorktree
  <2>1. UNCHANGED <<opts, r>> /\ pc = "cleanup" /\ pc' \in {"done", "removeAll"}
    BY <1>5 DEF RemoveWorktree, env
  <2>2. CASE Keeps
    <3>1. UNCHANGED worktree /\ pc' = "done"
      BY <1>5, <2>2 DEF RemoveWorktree, Keeps
    <3> QED
      BY <2>1, <3>1, <1>q
      DEF Ended, Starting, Early, Replaying, Commanding, Settled, Proposed, Vetted
  <2>3. CASE ~Keeps
    <3>1. ~Keeps'
      BY <2>1, <2>3 DEF Keeps
    <3>2. pc' \notin Starting \cup Replaying \cup Commanding \cup Settled
      BY <2>1 DEF Starting, Early, Replaying, Commanding, Settled, Proposed, Vetted
    <3> QED
      BY <3>1, <3>2 DEF KeepInv
  <2> QED
    BY <2>2, <2>3
<1>6. CASE RemoveAll
  <2>1. UNCHANGED <<opts, r>> /\ pc = "removeAll" /\ pc' = "done"
    BY <1>6 DEF RemoveAll, env
  <2>2. ~Keeps'
    BY <2>1 DEF KeepInv, Keeps
  <2>3. pc' \notin Starting \cup Replaying \cup Commanding \cup Settled
    BY <2>1 DEF Starting, Early, Replaying, Commanding, Settled, Proposed, Vetted
  <2> QED
    BY <2>2, <2>3 DEF KeepInv
<1>7. CASE OthersCommit
  BY <1>7, <1>q DEF OthersCommit
<1>8. CASE Quiet
  <2>1. pc' \in Starting => pc \in Starting
    BY <1>8, LabelsApart DEF Quiet, Onward, Ended, Starting
  <2>2. pc' \in Replaying \cup Commanding \cup Settled =>
            pc \in Replaying \cup Commanding \cup Settled
    BY <1>8, LabelsApart DEF Quiet, Onward, Ended, Starting
  <2>3. pc' = "removeAll" => pc = "removeAll"
    BY <1>8, <1>l, LabelsApart DEF Quiet, Onward
  <2> QED
    BY <1>8, <2>1, <2>2, <2>3, <1>q DEF Quiet
<1> QED
  BY <1>1, <1>2, <1>3, <1>4, <1>5, <1>6, <1>7, <1>8, OthersAreQuiet DEF AtTheWorktree

LEMMA KeepHolds == Spec => []KeepInv
<1>1. Init => KeepInv
  <2> SUFFICES ASSUME Init PROVE KeepInv
    OBVIOUS
  <2>1. pc = "resolve" /\ r.baselineRef = EmptyTree
    BY DEF Init
  <2> QED
    BY <2>1 DEF KeepInv, Replaying, Commanding, Settled, Proposed, Vetted, Ended
<1>2. TypeOK /\ KeepInv /\ [Next]_vars => KeepInv'
  BY KeepKeeps
<1> QED
  BY <1>1, <1>2, TypeCorrect, PTL DEF Spec

\* A worktree that was set up and is to be kept, by --keep or by [k], is there
\* with its handle when the run has ended, whatever failed meanwhile.
THEOREM KeptIsKept == Spec => []KeptWorktreeStays
<1>1. KeepInv => KeptWorktreeStays
  BY DEF KeepInv, KeptWorktreeStays, Keeps, Here, Ended
<1> QED
  BY <1>1, KeepHolds, PTL

-----------------------------------------------------------------------------
(* What is left behind.                                                    *)

\* Two troubles: a fault and a signal, two faults or two signals.
Two == budget.faults + budget.signals + 1 < MaxFaults + MaxSignals
One == budget.faults + budget.signals < MaxFaults + MaxSignals
Gone == ~worktree.dir /\ (~cancelled => ~worktree.handle)

CleanInv ==
    /\ ~r.tempWorktree => ~worktree.dir /\ ~worktree.handle
    /\ pc \in Starting => ~r.tempWorktree
    /\ pc = "removeAll" => One
    /\ pc = "done" /\ ~Keeps => Two \/ Gone

LEMMA CleanKeeps ==
    TypeOK /\ TypeOK' /\ Troubles /\ Troubles' /\ CleanInv /\ [Next]_vars => CleanInv'
<1> SUFFICES ASSUME TypeOK, TypeOK', Troubles, Troubles', CleanInv, [Next]_vars PROVE CleanInv'
  OBVIOUS
<1> USE DEF Goto, Stop
<1>r. r \in RunnerRecords
  BY DEF TypeOK
<1>w. worktree \in Worktrees
  BY DEF TypeOK
<1>n. /\ budget.faults \in 0 .. MaxFaults /\ budget.signals \in 0 .. MaxSignals
      /\ MaxFaults \in Nat /\ MaxSignals \in Nat
  BY RunnerAssumption DEF Troubles
\* A fault, or a signal before, is one trouble; a fault after one is two.
<1>t. /\ One => One' /\ (IOErr => Two')
      /\ Two => Two'
      /\ GitErr => One'
  <2>1. /\ One => One' /\ (IOErr => Two')
        /\ Two => Two'
        /\ IOErr => One'
    BY <1>n, TroublesStay DEF One, Two
  <2>2. cancelled => One'
    BY <1>n, TroublesStay DEF One, Troubles
  <2> QED
    BY <2>1, <2>2 DEF GitErr
\* Nothing about the worktree changes and the run is not at its end.
<1>q. ASSUME worktree' = worktree, r'.tempWorktree = r.tempWorktree,
             pc' \in Starting => pc \in Starting, pc' \notin {"removeAll", "done"}
      PROVE  CleanInv'
  BY <1>q DEF CleanInv
<1>1. CASE ReadHead
  <2>1. /\ worktree' = worktree /\ r'.tempWorktree = r.tempWorktree
        /\ pc = "head" /\ pc' \in {"status", "emit"}
    BY <1>1, <1>r DEF ReadHead, RunnerRecords
  <2> QED
    BY <2>1, <1>q DEF Starting, Early
<1>2. CASE SetupWorktree
  <2>1. CASE pc' = "emit" /\ UNCHANGED <<r, worktree>>
    BY <2>1, <1>q DEF Starting, Early
  <2>2. CASE r'.tempWorktree /\ pc' \in {"replayTracked", "policy", "emit"}
    BY <2>2 DEF CleanInv, Starting, Early
  <2>3. \/ pc' = "emit" /\ UNCHANGED <<r, worktree>>
        \/ /\ \/ r' = [r EXCEPT !.tempWorktree = TRUE, !.baselineRef = commits[r.originalHead]]
              \/ r' = [r EXCEPT !.tempWorktree = TRUE]
           /\ pc' \in {"replayTracked", "policy", "emit"}
    BY <1>2 DEF SetupWorktree
  <2> QED
    BY <1>r, <2>1, <2>2, <2>3 DEF RunnerRecords
<1>3. CASE ReplayTracked \/ CopyUntracked \/ CommandWrites
  <2>1. r' = r \/ \E p \in r.untracked : r' = [r EXCEPT !.untracked = @ \ {p}]
    BY <1>3 DEF ReplayTracked, CopyUntracked, CommandWrites
  <2>2. r'.tempWorktree = r.tempWorktree
    BY <1>r, <2>1 DEF RunnerRecords
  <2>3. pc' \in {"listUntracked", "copyUntracked", "child", "exec", "emit"}
    BY <1>3 DEF ReplayTracked, CopyUntracked, CommandWrites
  <2>4. worktree'.dir = worktree.dir /\ worktree'.handle = worktree.handle
    BY <1>3, <1>w DEF ReplayTracked, CopyUntracked, CommandWrites, Worktrees
  <2> QED
    BY <2>2, <2>3, <2>4 DEF CleanInv, Starting, Early
<1>4. CASE ListUntracked \/ CommitBaseline \/ CapturePatch
  <2>1. /\ worktree'.dir = worktree.dir /\ worktree'.handle = worktree.handle
        /\ pc' \in {"copyUntracked", "policy", "menu", "save", "emit"}
    BY <1>4, <1>w DEF ListUntracked, CommitBaseline, CapturePatch, Worktrees
  <2>2. r'.tempWorktree = r.tempWorktree
    BY <1>4, <1>r DEF ListUntracked, CommitBaseline, CapturePatch, RunnerRecords
  <2> QED
    BY <2>1, <2>2 DEF CleanInv, Starting, Early
<1>5. CASE RemoveWorktree
  <2>1. /\ UNCHANGED <<opts, r, cancelled>> /\ pc' \in {"done", "removeAll"}
    BY <1>5 DEF RemoveWorktree, env
  <2>2. Keeps' = Keeps /\ pc' \notin Starting
    BY <2>1 DEF Keeps, Starting, Early
  <2>3. CASE ~r.tempWorktree \/ Keeps
    <3>1. worktree' = worktree /\ pc' = "done"
      BY <1>5, <2>3 DEF RemoveWorktree, Keeps
    <3> QED
      BY <2>1, <2>2, <2>3, <3>1 DEF CleanInv, Gone
  <2>4. CASE r.tempWorktree /\ ~Keeps
    <3>1. CASE GitOK /\ pc' = "done" /\ worktree' = NoWorktree
      <4>1. ~worktree'.dir /\ ~worktree'.handle
        BY <3>1 DEF NoWorktree
      <4> QED
        BY <2>2, <3>1, <4>1 DEF CleanInv, Gone
    <3>2. CASE GitErr /\ pc' = "removeAll"
      BY <1>t, <2>1, <2>2, <2>4, <3>2 DEF CleanInv
    <3> QED
      BY <1>5, <2>4, <3>1, <3>2 DEF RemoveWorktree, Keeps
  <2> QED
    BY <2>3, <2>4
<1>6. CASE RemoveAll
  <2>1. /\ UNCHANGED <<opts, r, cancelled>> /\ pc = "removeAll" /\ pc' = "done"
    BY <1>6 DEF RemoveAll, env
  <2>2. One /\ pc' \notin Starting
    BY <2>1 DEF CleanInv, Starting, Early
  <2>3. CASE IOErr /\ worktree' = worktree
    BY <1>t, <2>1, <2>2, <2>3 DEF CleanInv
  <2>4. CASE worktree' = NoWorktree
    <3>1. ~worktree'.dir /\ ~worktree'.handle
      BY <2>4 DEF NoWorktree
    <3> QED
      BY <2>1, <2>2, <3>1 DEF CleanInv, Gone
  <2>5. CASE GitErr /\ worktree' = [NoWorktree EXCEPT !.handle = worktree.handle]
    <3>1. ~worktree'.dir /\ worktree'.handle = worktree.handle
      BY <2>5 DEF NoWorktree
    <3>2. CASE cancelled
      BY <2>1, <2>2, <3>1, <3>2 DEF CleanInv, Gone
    <3>3. CASE ~cancelled
      <4>1. IOErr
        BY <2>5, <3>3 DEF GitErr
      <4>2. Two'
        BY <1>t, <2>2, <4>1
      <4> QED
        BY <2>1, <2>2, <3>1, <4>2 DEF CleanInv
    <3> QED
      BY <3>2, <3>3
  <2> QED
    BY <1>6, <2>3, <2>4, <2>5 DEF RemoveAll
<1>7. CASE OthersCommit
  <2>1. UNCHANGED <<opts, pc, r, worktree, cancelled>>
    BY <1>7 DEF OthersCommit
  <2>2. Keeps' = Keeps /\ (Gone => Gone')
    BY <2>1 DEF Keeps, Gone
  <2> QED
    BY <1>t, <2>1, <2>2 DEF CleanInv
<1>8. CASE Quiet
  <2>1. pc' \in Starting => pc \in Starting
    BY <1>8, LabelsApart DEF Quiet, Onward, Ended, Starting
  <2>2. pc' \in {"removeAll", "done"} => pc' = pc
    BY <1>8, LabelsApart DEF Quiet, Onward, Ended
  <2>3. /\ worktree' = worktree /\ r'.tempWorktree = r.tempWorktree /\ opts' = opts
        /\ pc \in Ended => r'.keep = r.keep
    BY <1>8 DEF Quiet
  <2>4. Gone => Gone'
    BY <2>3, TroublesStay DEF Gone, TypeOK
  <2>5. pc = "done" => Keeps' = Keeps
    BY <2>3 DEF Keeps, Ended
  <2> QED
    BY <1>t, <2>1, <2>2, <2>3, <2>4, <2>5 DEF CleanInv
<1> QED
  BY <1>1, <1>2, <1>3, <1>4, <1>5, <1>6, <1>7, <1>8, OthersAreQuiet DEF AtTheWorktree

LEMMA CleanHolds == Spec => []CleanInv
<1>1. Init => CleanInv
  <2> SUFFICES ASSUME Init PROVE CleanInv
    OBVIOUS
  <2>1. pc = "resolve" /\ ~r.tempWorktree /\ worktree = NoWorktree
    BY DEF Init
  <2> QED
    BY <2>1 DEF CleanInv, NoWorktree
<1>2. TypeOK /\ TypeOK' /\ Troubles /\ Troubles' /\ CleanInv /\ [Next]_vars => CleanInv'
  BY CleanKeeps
<1> QED
  BY <1>1, <1>2, TypeCorrect, TroublesHold, PTL DEF Spec

\* One fault or one signal at any point leaves no directory behind, and a fault
\* no handle either.
THEOREM OneTroubleIsCleaned == Spec => []CleansUp
<1>1. TypeOK /\ Troubles /\ CleanInv => CleansUp
  <2> SUFFICES ASSUME TypeOK, Troubles, CleanInv PROVE CleansUp
    OBVIOUS
  <2>1. /\ budget.faults \in Nat /\ budget.signals \in Nat
        /\ MaxFaults \in Nat /\ MaxSignals \in Nat
    BY RunnerAssumption DEF Troubles
  <2> QED
    BY <2>1 DEF CleanInv, CleansUp, Keeps, Gone, Two
<1> QED
  BY <1>1, CleanHolds, TypeCorrect, TroublesHold, PTL

-----------------------------------------------------------------------------
(* What ends up in the original tree, and what is reported of it.          *)

\* A step that applies, looks for dirt and reports nothing.
Modest ==
    /\ files \subseteq files' /\ out'.json = out.json /\ (pc = "status" => pc' = pc)
    /\ r'.applied = r.applied /\ r'.originalDirty = r.originalDirty

LEMMA OthersAreModest ==
    ASSUME TypeOK, [Next]_vars, ~ReadStatus, ~Apply, ~Apply3Way, ~EmitJSON
    PROVE  Modest
<1> USE DEF Goto, Stop
<1>r. r \in RunnerRecords
  BY DEF TypeOK
<1>1. CASE ResolveRepo
  <2>1. files \subseteq files' /\ out'.json = out.json /\ (pc = "status" => pc' = pc)
    BY <1>1 DEF ResolveRepo, origin
  <2>2. r'.applied = r.applied /\ r'.originalDirty = r.originalDirty
    BY <1>1, <1>r DEF ResolveRepo, RunnerRecords
  <2> QED
    BY <2>1, <2>2 DEF Modest
<1>2. CASE ReadHead
  <2>1. files \subseteq files' /\ out'.json = out.json /\ (pc = "status" => pc' = pc)
    BY <1>2 DEF ReadHead, origin
  <2>2. r'.applied = r.applied /\ r'.originalDirty = r.originalDirty
    BY <1>2, <1>r DEF ReadHead, RunnerRecords
  <2> QED
    BY <2>1, <2>2 DEF Modest
<1>3. CASE ConfirmDirty
  <2>1. files \subseteq files' /\ out'.json = out.json /\ (pc = "status" => pc' = pc)
    BY <1>3 DEF ConfirmDirty, origin
  <2>2. r'.applied = r.applied /\ r'.originalDirty = r.originalDirty
    BY <1>3, <1>r DEF ConfirmDirty, RunnerRecords
  <2> QED
    BY <2>1, <2>2 DEF Modest
<1>4. CASE SetupWorktree
  <2>1. files \subseteq files' /\ out'.json = out.json /\ (pc = "status" => pc' = pc)
    BY <1>4 DEF SetupWorktree, origin
  <2>2. r'.applied = r.applied /\ r'.originalDirty = r.originalDirty
    BY <1>4, <1>r DEF SetupWorktree, RunnerRecords
  <2> QED
    BY <2>1, <2>2 DEF Modest
<1>5. CASE ReplayTracked
  <2>1. files \subseteq files' /\ out'.json = out.json /\ (pc = "status" => pc' = pc)
    BY <1>5 DEF ReplayTracked, origin
  <2>2. r'.applied = r.applied /\ r'.originalDirty = r.originalDirty
    BY <1>5, <1>r DEF ReplayTracked, RunnerRecords
  <2> QED
    BY <2>1, <2>2 DEF Modest
<1>6. CASE ListUntracked
  <2>1. files \subseteq files' /\ out'.json = out.json /\ (pc = "status" => pc' = pc)
    BY <1>6 DEF ListUntracked, origin
  <2>2. r'.applied = r.applied /\ r'.originalDirty = r.originalDirty
    BY <1>6, <1>r DEF ListUntracked, RunnerRecords
  <2> QED
    BY <2>1, <2>2 DEF Modest
<1>7. CASE CopyUntracked
  <2>1. files \subseteq files' /\ out'.json = out.json /\ (pc = "status" => pc' = pc)
    BY <1>7 DEF CopyUntracked, origin
  <2>2. r'.applied = r.applied /\ r'.originalDirty = r.originalDirty
    BY <1>7, <1>r DEF CopyUntracked, RunnerRecords
  <2> QED
    BY <2>1, <2>2 DEF Modest
<1>8. CASE CommitBaseline
  <2>1. files \subseteq files' /\ out'.json = out.json /\ (pc = "status" => pc' = pc)
    BY <1>8 DEF CommitBaseline, origin
  <2>2. r'.applied = r.applied /\ r'.originalDirty = r.originalDirty
    BY <1>8, <1>r DEF CommitBaseline, RunnerRecords
  <2> QED
    BY <2>1, <2>2 DEF Modest
<1>9. CASE RunChildCommand
  <2>1. files \subseteq files' /\ out'.json = out.json /\ (pc = "status" => pc' = pc)
    BY <1>9 DEF RunChildCommand, origin
  <2>2. r'.applied = r.applied /\ r'.originalDirty = r.originalDirty
    BY <1>9, <1>r DEF RunChildCommand, Start, RunnerRecords
  <2> QED
    BY <2>1, <2>2 DEF Modest
<1>10. CASE ConfirmPTY
  <2>1. files \subseteq files' /\ out'.json = out.json /\ (pc = "status" => pc' = pc)
    BY <1>10 DEF ConfirmPTY, origin
  <2>2. r'.applied = r.applied /\ r'.originalDirty = r.originalDirty
    BY <1>10, <1>r DEF ConfirmPTY, Start, RunnerRecords
  <2> QED
    BY <2>1, <2>2 DEF Modest
<1>11. CASE CommandWrites
  <2>1. files \subseteq files' /\ out'.json = out.json /\ (pc = "status" => pc' = pc)
    BY <1>11 DEF CommandWrites, origin
  <2>2. r'.applied = r.applied /\ r'.originalDirty = r.originalDirty
    BY <1>11, <1>r DEF CommandWrites, RunnerRecords
  <2> QED
    BY <2>1, <2>2 DEF Modest
<1>12. CASE ChildExits
  <2>1. files \subseteq files' /\ out'.json = out.json /\ (pc = "status" => pc' = pc)
    BY <1>12 DEF ChildExits, origin
  <2>2. r'.applied = r.applied /\ r'.originalDirty = r.originalDirty
    BY <1>12, <1>r DEF ChildExits, RunnerRecords
  <2> QED
    BY <2>1, <2>2 DEF Modest
<1>13. CASE ExecExits
  <2>1. files \subseteq files' /\ out'.json = out.json /\ (pc = "status" => pc' = pc)
    BY <1>13 DEF ExecExits, origin
  <2>2. r'.applied = r.applied /\ r'.originalDirty = r.originalDirty
    BY <1>13, <1>r DEF ExecExits, RunnerRecords
  <2> QED
    BY <2>1, <2>2 DEF Modest
<1>14. CASE KillCommand
  <2>1. files \subseteq files' /\ out'.json = out.json /\ (pc = "status" => pc' = pc)
    BY <1>14 DEF KillCommand, origin
  <2>2. r'.applied = r.applied /\ r'.originalDirty = r.originalDirty
    BY <1>14, <1>r DEF KillCommand, RunnerRecords
  <2> QED
    BY <2>1, <2>2 DEF Modest
<1>15. CASE RunExecCommands
  <2>1. files \subseteq files' /\ out'.json = out.json /\ (pc = "status" => pc' = pc)
    BY <1>15 DEF RunExecCommands, origin
  <2>2. r'.applied = r.applied /\ r'.originalDirty = r.originalDirty
    BY <1>15, <1>r DEF RunExecCommands, RunnerRecords
  <2> QED
    BY <2>1, <2>2 DEF Modest
<1>16. CASE WriteSnapshot
  <2>1. files \subseteq files' /\ out'.json = out.json /\ (pc = "status" => pc' = pc)
    BY <1>16 DEF WriteSnapshot, origin
  <2>2. r'.applied = r.applied /\ r'.originalDirty = r.originalDirty
    BY <1>16, <1>r DEF WriteSnapshot, RunnerRecords
  <2> QED
    BY <2>1, <2>2 DEF Modest
<1>17. CASE CapturePatch
  <2>1. files \subseteq files' /\ out'.json = out.json /\ (pc = "status" => pc' = pc)
    BY <1>17 DEF CapturePatch, origin
  <2>2. r'.applied = r.applied /\ r'.originalDirty = r.originalDirty
    BY <1>17, <1>r DEF CapturePatch, RunnerRecords
  <2> QED
    BY <2>1, <2>2 DEF Modest
<1>18. CASE SaveRequested
  <2>1. files \subseteq files' /\ out'.json = out.json /\ (pc = "status" => pc' = pc)
    BY <1>18 DEF SaveRequested, SaveTo, SaveFails, origin
  <2>2. r'.applied = r.applied /\ r'.originalDirty = r.originalDirty
    BY <1>18, <1>r DEF SaveRequested, SaveTo, SaveFails, RunnerRecords
  <2> QED
    BY <2>1, <2>2 DEF Modest
<1>19. CASE WriteStdout
  <2>1. files \subseteq files' /\ out'.json = out.json /\ (pc = "status" => pc' = pc)
    BY <1>19 DEF WriteStdout, origin, TypeOK, Outputs
  <2>2. r'.applied = r.applied /\ r'.originalDirty = r.originalDirty
    BY <1>19, <1>r DEF WriteStdout, RunnerRecords
  <2> QED
    BY <2>1, <2>2 DEF Modest
<1>20. CASE DefaultSave
  <2>1. files \subseteq files' /\ out'.json = out.json /\ (pc = "status" => pc' = pc)
    BY <1>20 DEF DefaultSave, SaveTo, SaveFails, origin
  <2>2. r'.applied = r.applied /\ r'.originalDirty = r.originalDirty
    BY <1>20, <1>r DEF DefaultSave, SaveTo, SaveFails, RunnerRecords
  <2> QED
    BY <2>1, <2>2 DEF Modest
<1>21. CASE AskMenu
  <2>1. files \subseteq files' /\ out'.json = out.json /\ (pc = "status" => pc' = pc)
    BY <1>21 DEF AskMenu, origin
  <2>2. r'.applied = r.applied /\ r'.originalDirty = r.originalDirty
    BY <1>21, <1>r DEF AskMenu, RunnerRecords
  <2> QED
    BY <2>1, <2>2 DEF Modest
<1>22. CASE AskPath
  <2>1. files \subseteq files' /\ out'.json = out.json /\ (pc = "status" => pc' = pc)
    BY <1>22 DEF AskPath, origin
  <2>2. r'.applied = r.applied /\ r'.originalDirty = r.originalDirty
    BY <1>22, <1>r DEF AskPath, RunnerRecords
  <2> QED
    BY <2>1, <2>2 DEF Modest
<1>23. CASE MenuSave
  <2>1. files \subseteq files' /\ out'.json = out.json /\ (pc = "status" => pc' = pc)
    BY <1>23 DEF MenuSave, SaveTo, SaveFails, origin
  <2>2. r'.applied = r.applied /\ r'.originalDirty = r.originalDirty
    BY <1>23, <1>r DEF MenuSave, SaveTo, SaveFails, RunnerRecords
  <2> QED
    BY <2>1, <2>2 DEF Modest
<1>24. CASE DriftStatus
  <2>1. files \subseteq files' /\ out'.json = out.json /\ (pc = "status" => pc' = pc)
    BY <1>24 DEF DriftStatus, origin
  <2>2. r'.applied = r.applied /\ r'.originalDirty = r.originalDirty
    BY <1>24, <1>r DEF DriftStatus, RunnerRecords
  <2> QED
    BY <2>1, <2>2 DEF Modest
<1>25. CASE DriftHead
  <2>1. files \subseteq files' /\ out'.json = out.json /\ (pc = "status" => pc' = pc)
    BY <1>25 DEF DriftHead, origin
  <2>2. r'.applied = r.applied /\ r'.originalDirty = r.originalDirty
    BY <1>25, <1>r DEF DriftHead, RunnerRecords
  <2> QED
    BY <2>1, <2>2 DEF Modest
<1>26. CASE ApplyCheck
  <2>1. files \subseteq files' /\ out'.json = out.json /\ (pc = "status" => pc' = pc)
    BY <1>26 DEF ApplyCheck, origin
  <2>2. r'.applied = r.applied /\ r'.originalDirty = r.originalDirty
    BY <1>26, <1>r DEF ApplyCheck, RunnerRecords
  <2> QED
    BY <2>1, <2>2 DEF Modest
<1>27. CASE AutoSave
  <2>1. files \subseteq files' /\ out'.json = out.json /\ (pc = "status" => pc' = pc)
    BY <1>27 DEF AutoSave, SaveTo, SaveFails, origin
  <2>2. r'.applied = r.applied /\ r'.originalDirty = r.originalDirty
    BY <1>27, <1>r DEF AutoSave, SaveTo, SaveFails, RunnerRecords
  <2> QED
    BY <2>1, <2>2 DEF Modest
<1>28. CASE RemoveWorktree
  <2>1. files \subseteq files' /\ out'.json = out.json /\ (pc = "status" => pc' = pc)
    BY <1>28 DEF RemoveWorktree, origin
  <2>2. r'.applied = r.applied /\ r'.originalDirty = r.originalDirty
    BY <1>28, <1>r DEF RemoveWorktree, RunnerRecords
  <2> QED
    BY <2>1, <2>2 DEF Modest
<1>29. CASE RemoveAll
  <2>1. files \subseteq files' /\ out'.json = out.json /\ (pc = "status" => pc' = pc)
    BY <1>29 DEF RemoveAll, origin
  <2>2. r'.applied = r.applied /\ r'.originalDirty = r.originalDirty
    BY <1>29, <1>r DEF RemoveAll, RunnerRecords
  <2> QED
    BY <2>1, <2>2 DEF Modest
<1>30. CASE Others \/ Exited \/ UNCHANGED vars
  BY <1>30 DEF Others, OthersEdit, OthersStage, OthersCommit, Interrupt, Exited, vars,
     origin, Modest
<1> QED
  BY <1>1, <1>2, <1>3, <1>4, <1>5, <1>6, <1>7, <1>8, <1>9, <1>10,
     <1>11, <1>12, <1>13, <1>14, <1>15, <1>16, <1>17, <1>18, <1>19, <1>20,
     <1>21, <1>22, <1>23, <1>24, <1>25, <1>26, <1>27, <1>28, <1>29, <1>30
  DEF Next, Program, Prompts, CommandEnds

-----------------------------------------------------------------------------
(* What the drift check takes for drift.                                   *)

Looked == {"driftHead", "drifted"}
Unlooked == Early \cup {"status"}

LooksOrMoves ==
    \/ ReadHead \/ ReadStatus \/ DriftStatus \/ DriftHead
    \/ Apply \/ Apply3Way \/ OthersEdit \/ OthersStage \/ OthersCommit

\* A step that neither looks at the original tree for the drift check nor moves it.
SameSignatures ==
    /\ r'.originalHead = r.originalHead
    /\ r'.originalStatusSig = r.originalStatusSig /\ r'.newSig = r.newSig
NotLooking ==
    \/ pc' = pc /\ (pc \in Unlooked => files' = files)
    \/ /\ pc \in Early => pc' \in Early \cup Ended /\ files' = files
       /\ pc \notin Early => pc' \notin Unlooked
       /\ pc \in Ended => pc' \in Ended
       /\ pc # "status" /\ pc' \notin Looked
Blind ==
    /\ SameSignatures /\ NotLooking
    /\ UNCHANGED <<opts, commits, index, work>> /\ files \subseteq files'

LEMMA OthersAreBlind ==
    ASSUME TypeOK, [Next]_vars, ~LooksOrMoves
    PROVE  Blind
<1> USE DEF Goto, Stop
<1>r. r \in RunnerRecords
  BY DEF TypeOK
<1>1. CASE ResolveRepo
  <2>1. SameSignatures
    BY <1>1, <1>r DEF ResolveRepo, RunnerRecords, SameSignatures
  <2>2. UNCHANGED <<opts, commits, index, work>> /\ files \subseteq files'
    BY <1>1 DEF ResolveRepo, origin, env
  <2>3. NotLooking
    BY <1>1 DEF ResolveRepo, NotLooking, Unlooked, Looked, Early, Ended, origin
  <2> QED
    BY <2>1, <2>2, <2>3 DEF Blind
<1>2. CASE ConfirmDirty
  <2>1. SameSignatures
    BY <1>2, <1>r DEF ConfirmDirty, RunnerRecords, SameSignatures
  <2>2. UNCHANGED <<opts, commits, index, work>> /\ files \subseteq files'
    BY <1>2 DEF ConfirmDirty, origin, env
  <2>3. NotLooking
    BY <1>2 DEF ConfirmDirty, NotLooking, Unlooked, Looked, Early, Ended, origin
  <2> QED
    BY <2>1, <2>2, <2>3 DEF Blind
<1>3. CASE SetupWorktree
  <2>1. SameSignatures
    BY <1>3, <1>r DEF SetupWorktree, RunnerRecords, SameSignatures
  <2>2. UNCHANGED <<opts, commits, index, work>> /\ files \subseteq files'
    BY <1>3 DEF SetupWorktree, origin, env
  <2>3. NotLooking
    BY <1>3 DEF SetupWorktree, NotLooking, Unlooked, Looked, Early, Ended, origin
  <2> QED
    BY <2>1, <2>2, <2>3 DEF Blind
<1>4. CASE ReplayTracked
  <2>1. SameSignatures
    BY <1>4, <1>r DEF ReplayTracked, RunnerRecords, SameSignatures
  <2>2. UNCHANGED <<opts, commits, index, work>> /\ files \subseteq files'
    BY <1>4 DEF ReplayTracked, origin, env
  <2>3. NotLooking
    BY <1>4 DEF ReplayTracked, NotLooking, Unlooked, Looked, Early, Ended, origin
  <2> QED
    BY <2>1, <2>2, <2>3 DEF Blind
<1>5. CASE ListUntracked
  <2>1. SameSignatures
    BY <1>5, <1>r DEF ListUntracked, RunnerRecords, SameSignatures
  <2>2. UNCHANGED <<opts, commits, index, work>> /\ files \subseteq files'
    BY <1>5 DEF ListUntracked, origin, env
  <2>3. NotLooking
    BY <1>5 DEF ListUntracked, NotLooking, Unlooked, Looked, Early, Ended, origin
  <2> QED
    BY <2>1, <2>2, <2>3 DEF Blind
<1>6. CASE CopyUntracked
  <2>1. SameSignatures
    BY <1>6, <1>r DEF CopyUntracked, RunnerRecords, SameSignatures
  <2>2. UNCHANGED <<opts, commits, index, work>> /\ files \subseteq files'
    BY <1>6 DEF CopyUntracked, origin, env
  <2>3. NotLooking
    BY <1>6 DEF CopyUntracked, NotLooking, Unlooked, Looked, Early, Ended, origin
  <2> QED
    BY <2>1, <2>2, <2>3 DEF Blind
<1>7. CASE CommitBaseline
  <2>1. SameSignatures
    BY <1>7, <1>r DEF CommitBaseline, RunnerRecords, SameSignatures
  <2>2. UNCHANGED <<opts, commits, index, work>> /\ files \subseteq files'
    BY <1>7 DEF CommitBaseline, origin, env
  <2>3. NotLooking
    BY <1>7 DEF CommitBaseline, NotLooking, Unlooked, Looked, Early, Ended, origin
  <2> QED
    BY <2>1, <2>2, <2>3 DEF Blind
<1>8. CASE RunChildCommand
  <2>1. SameSignatures
    BY <1>8, <1>r DEF RunChildCommand, Start, RunnerRecords, SameSignatures
  <2>2. UNCHANGED <<opts, commits, index, work>> /\ files \subseteq files'
    BY <1>8 DEF RunChildCommand, origin, env
  <2>3. NotLooking
    BY <1>8 DEF RunChildCommand, Start, NotLooking, Unlooked, Looked, Early, Ended, origin
  <2> QED
    BY <2>1, <2>2, <2>3 DEF Blind
<1>9. CASE ConfirmPTY
  <2>1. SameSignatures
    BY <1>9, <1>r DEF ConfirmPTY, Start, RunnerRecords, SameSignatures
  <2>2. UNCHANGED <<opts, commits, index, work>> /\ files \subseteq files'
    BY <1>9 DEF ConfirmPTY, origin, env
  <2>3. NotLooking
    BY <1>9 DEF ConfirmPTY, Start, NotLooking, Unlooked, Looked, Early, Ended, origin
  <2> QED
    BY <2>1, <2>2, <2>3 DEF Blind
<1>10. CASE CommandWrites
  <2>1. SameSignatures
    BY <1>10, <1>r DEF CommandWrites, RunnerRecords, SameSignatures
  <2>2. UNCHANGED <<opts, commits, index, work>> /\ files \subseteq files'
    BY <1>10 DEF CommandWrites, origin, env
  <2>3. NotLooking
    BY <1>10 DEF CommandWrites, NotLooking, Unlooked, Looked, Early, Ended, origin
  <2> QED
    BY <2>1, <2>2, <2>3 DEF Blind
<1>11. CASE ChildExits
  <2>1. SameSignatures
    BY <1>11, <1>r DEF ChildExits, RunnerRecords, SameSignatures
  <2>2. UNCHANGED <<opts, commits, index, work>> /\ files \subseteq files'
    BY <1>11 DEF ChildExits, origin, env
  <2>3. NotLooking
    BY <1>11 DEF ChildExits, NotLooking, Unlooked, Looked, Early, Ended, origin
  <2> QED
    BY <2>1, <2>2, <2>3 DEF Blind
<1>12. CASE ExecExits
  <2>1. SameSignatures
    BY <1>12, <1>r DEF ExecExits, RunnerRecords, SameSignatures
  <2>2. UNCHANGED <<opts, commits, index, work>> /\ files \subseteq files'
    BY <1>12 DEF ExecExits, origin, env
  <2>3. NotLooking
    BY <1>12 DEF ExecExits, NotLooking, Unlooked, Looked, Early, Ended, origin
  <2> QED
    BY <2>1, <2>2, <2>3 DEF Blind
<1>13. CASE KillCommand
  <2>1. SameSignatures
    BY <1>13, <1>r DEF KillCommand, RunnerRecords, SameSignatures
  <2>2. UNCHANGED <<opts, commits, index, work>> /\ files \subseteq files'
    BY <1>13 DEF KillCommand, origin, env
  <2>3. NotLooking
    BY <1>13 DEF KillCommand, NotLooking, Unlooked, Looked, Early, Ended, origin
  <2> QED
    BY <2>1, <2>2, <2>3 DEF Blind
<1>14. CASE RunExecCommands
  <2>1. SameSignatures
    BY <1>14, <1>r DEF RunExecCommands, RunnerRecords, SameSignatures
  <2>2. UNCHANGED <<opts, commits, index, work>> /\ files \subseteq files'
    BY <1>14 DEF RunExecCommands, origin, env
  <2>3. NotLooking
    BY <1>14 DEF RunExecCommands, NotLooking, Unlooked, Looked, Early, Ended, origin
  <2> QED
    BY <2>1, <2>2, <2>3 DEF Blind
<1>15. CASE WriteSnapshot
  <2>1. SameSignatures
    BY <1>15, <1>r DEF WriteSnapshot, RunnerRecords, SameSignatures
  <2>2. UNCHANGED <<opts, commits, index, work>> /\ files \subseteq files'
    BY <1>15 DEF WriteSnapshot, origin, env
  <2>3. NotLooking
    BY <1>15 DEF WriteSnapshot, NotLooking, Unlooked, Looked, Early, Ended, origin
  <2> QED
    BY <2>1, <2>2, <2>3 DEF Blind
<1>16. CASE CapturePatch
  <2>1. SameSignatures
    BY <1>16, <1>r DEF CapturePatch, RunnerRecords, SameSignatures
  <2>2. UNCHANGED <<opts, commits, index, work>> /\ files \subseteq files'
    BY <1>16 DEF CapturePatch, origin, env
  <2>3. NotLooking
    BY <1>16 DEF CapturePatch, NotLooking, Unlooked, Looked, Early, Ended, origin
  <2> QED
    BY <2>1, <2>2, <2>3 DEF Blind
<1>17. CASE SaveRequested
  <2>1. SameSignatures
    BY <1>17, <1>r DEF SaveRequested, SaveTo, SaveFails, RunnerRecords, SameSignatures
  <2>2. UNCHANGED <<opts, commits, index, work>> /\ files \subseteq files'
    BY <1>17 DEF SaveRequested, SaveTo, SaveFails, origin, env
  <2>3. NotLooking
    BY <1>17 DEF SaveRequested, SaveTo, SaveFails, NotLooking, Unlooked, Looked, Early, Ended, origin
  <2> QED
    BY <2>1, <2>2, <2>3 DEF Blind
<1>18. CASE WriteStdout
  <2>1. SameSignatures
    BY <1>18, <1>r DEF WriteStdout, RunnerRecords, SameSignatures
  <2>2. UNCHANGED <<opts, commits, index, work>> /\ files \subseteq files'
    BY <1>18 DEF WriteStdout, origin, env
  <2>3. NotLooking
    BY <1>18 DEF WriteStdout, NotLooking, Unlooked, Looked, Early, Ended, origin
  <2> QED
    BY <2>1, <2>2, <2>3 DEF Blind
<1>19. CASE DefaultSave
  <2>1. SameSignatures
    BY <1>19, <1>r DEF DefaultSave, SaveTo, SaveFails, RunnerRecords, SameSignatures
  <2>2. UNCHANGED <<opts, commits, index, work>> /\ files \subseteq files'
    BY <1>19 DEF DefaultSave, SaveTo, SaveFails, origin, env
  <2>3. NotLooking
    BY <1>19 DEF DefaultSave, SaveTo, SaveFails, NotLooking, Unlooked, Looked, Early, Ended, origin
  <2> QED
    BY <2>1, <2>2, <2>3 DEF Blind
<1>20. CASE AskMenu
  <2>1. SameSignatures
    BY <1>20, <1>r DEF AskMenu, RunnerRecords, SameSignatures
  <2>2. UNCHANGED <<opts, commits, index, work>> /\ files \subseteq files'
    BY <1>20 DEF AskMenu, origin, env
  <2>3. NotLooking
    BY <1>20 DEF AskMenu, NotLooking, Unlooked, Looked, Early, Ended, origin
  <2> QED
    BY <2>1, <2>2, <2>3 DEF Blind
<1>21. CASE AskPath
  <2>1. SameSignatures
    BY <1>21, <1>r DEF AskPath, RunnerRecords, SameSignatures
  <2>2. UNCHANGED <<opts, commits, index, work>> /\ files \subseteq files'
    BY <1>21 DEF AskPath, origin, env
  <2>3. NotLooking
    BY <1>21 DEF AskPath, NotLooking, Unlooked, Looked, Early, Ended, origin
  <2> QED
    BY <2>1, <2>2, <2>3 DEF Blind
<1>22. CASE MenuSave
  <2>1. SameSignatures
    BY <1>22, <1>r DEF MenuSave, SaveTo, SaveFails, RunnerRecords, SameSignatures
  <2>2. UNCHANGED <<opts, commits, index, work>> /\ files \subseteq files'
    BY <1>22 DEF MenuSave, SaveTo, SaveFails, origin, env
  <2>3. NotLooking
    BY <1>22 DEF MenuSave, SaveTo, SaveFails, NotLooking, Unlooked, Looked, Early, Ended, origin
  <2> QED
    BY <2>1, <2>2, <2>3 DEF Blind
<1>23. CASE ApplyCheck
  <2>1. SameSignatures
    BY <1>23, <1>r DEF ApplyCheck, RunnerRecords, SameSignatures
  <2>2. UNCHANGED <<opts, commits, index, work>> /\ files \subseteq files'
    BY <1>23 DEF ApplyCheck, origin, env
  <2>3. NotLooking
    BY <1>23 DEF ApplyCheck, NotLooking, Unlooked, Looked, Early, Ended, origin
  <2> QED
    BY <2>1, <2>2, <2>3 DEF Blind
<1>24. CASE AutoSave
  <2>1. SameSignatures
    BY <1>24, <1>r DEF AutoSave, SaveTo, SaveFails, RunnerRecords, SameSignatures
  <2>2. UNCHANGED <<opts, commits, index, work>> /\ files \subseteq files'
    BY <1>24 DEF AutoSave, SaveTo, SaveFails, origin, env
  <2>3. NotLooking
    BY <1>24 DEF AutoSave, SaveTo, SaveFails, NotLooking, Unlooked, Looked, Early, Ended, origin
  <2> QED
    BY <2>1, <2>2, <2>3 DEF Blind
<1>25. CASE EmitJSON
  <2>1. SameSignatures
    BY <1>25, <1>r DEF EmitJSON, RunnerRecords, SameSignatures
  <2>2. UNCHANGED <<opts, commits, index, work>> /\ files \subseteq files'
    BY <1>25 DEF EmitJSON, origin, env
  <2>3. NotLooking
    BY <1>25 DEF EmitJSON, NotLooking, Unlooked, Looked, Early, Ended, origin
  <2> QED
    BY <2>1, <2>2, <2>3 DEF Blind
<1>26. CASE RemoveWorktree
  <2>1. SameSignatures
    BY <1>26, <1>r DEF RemoveWorktree, RunnerRecords, SameSignatures
  <2>2. UNCHANGED <<opts, commits, index, work>> /\ files \subseteq files'
    BY <1>26 DEF RemoveWorktree, origin, env
  <2>3. NotLooking
    BY <1>26 DEF RemoveWorktree, NotLooking, Unlooked, Looked, Early, Ended, origin
  <2> QED
    BY <2>1, <2>2, <2>3 DEF Blind
<1>27. CASE RemoveAll
  <2>1. SameSignatures
    BY <1>27, <1>r DEF RemoveAll, RunnerRecords, SameSignatures
  <2>2. UNCHANGED <<opts, commits, index, work>> /\ files \subseteq files'
    BY <1>27 DEF RemoveAll, origin, env
  <2>3. NotLooking
    BY <1>27 DEF RemoveAll, NotLooking, Unlooked, Looked, Early, Ended, origin
  <2> QED
    BY <2>1, <2>2, <2>3 DEF Blind
<1>28. CASE Interrupt \/ Exited \/ UNCHANGED vars
  BY <1>28 DEF Interrupt, Exited, vars, origin, Blind, SameSignatures, NotLooking
<1> QED
  BY <1>1, <1>2, <1>3, <1>4, <1>5, <1>6, <1>7, <1>8, <1>9, <1>10, <1>11, <1>12,
     <1>13, <1>14, <1>15, <1>16, <1>17, <1>18, <1>19, <1>20, <1>21, <1>22, <1>23,
     <1>24, <1>25, <1>26, <1>27, <1>28
  DEF Next, Program, Prompts, CommandEnds, Others, LooksOrMoves

\* Nothing of patchrun's own is where the status of the original tree shows it.
NoneInside == ~opts.worktreeInside /\ \A f \in files : ~Inside(f)
Clean == StatusFingerprint(HEAD, index, work, {})

\* While nobody else touches the original repository, HEAD and the status that
\* the run remembers are those of now, but for what patchrun itself has put
\* into the tree.
DriftInv ==
    /\ pc \in Unlooked => files = {}
    /\ Alone =>
        /\ pc \notin Early \cup Ended => r.originalHead = Len(commits)
        /\ pc \notin Unlooked \cup Ended /\ ~opts.worktreeInside =>
              r.originalStatusSig = Clean
        /\ pc = "driftHead" /\ NoneInside => r.newSig = Clean
        /\ pc = "drifted" => ~NoneInside

LEMMA StatusWithout == NoneInside => Status = Clean
<1> SUFFICES ASSUME NoneInside PROVE Status = Clean
  OBVIOUS
<1>1. {f \in files : Inside(f)} \cup {w \in {"worktree"} : WorktreeShows} = {}
  BY DEF NoneInside, WorktreeShows
<1> QED
  BY <1>1 DEF Status, Clean

\* Of the index: it moves with a 3-way merge and by what others do.
LEMMA WhoStages ==
    ASSUME TypeOK, [Next]_vars
    PROVE  index' = index \/ Apply3Way \/ OthersStage \/ OthersCommit
<1>1. CASE Blind
  BY <1>1 DEF Blind
<1>2. CASE LooksOrMoves
  BY <1>2 DEF LooksOrMoves, ReadHead, ReadStatus, DriftStatus, DriftHead, Apply,
     OthersEdit, origin
<1> QED
  BY <1>1, <1>2, OthersAreBlind

LEMMA DriftKeeps ==
    TypeOK /\ TypeOK' /\ Troubles /\ DriftInv /\ [Next]_vars => DriftInv'
<1> SUFFICES ASSUME TypeOK, TypeOK', Troubles, DriftInv, [Next]_vars PROVE DriftInv'
  OBVIOUS
<1> USE DEF Goto, Stop
<1>r. r \in RunnerRecords
  BY DEF TypeOK
<1>e. Alone' => Alone /\ ~OthersEdit /\ ~OthersStage /\ ~OthersCommit
  BY StillAlone
<1>1. CASE Blind
  <2>1. (pc \in Unlooked => files = {})'
    BY <1>1 DEF Blind, NotLooking, DriftInv, Unlooked
  <2>2. UNCHANGED <<opts, commits, index, work>> /\ files \subseteq files' /\ SameSignatures
    BY <1>1 DEF Blind
  <2>3. Clean' = Clean
    BY <2>2 DEF Clean, HEAD
  <2>4. NoneInside' => NoneInside
    BY <2>2 DEF NoneInside, Inside
  <2>5. /\ pc' \notin Early \cup Ended => pc \notin Early \cup Ended
        /\ pc' \notin Unlooked \cup Ended => pc \notin Unlooked \cup Ended
        /\ pc' \in Looked => pc' = pc
    BY <1>1 DEF Blind, NotLooking, Unlooked, Looked, Ended
  <2>6. SUFFICES ASSUME Alone'
                 PROVE  /\ pc' \notin Early \cup Ended => r'.originalHead = Len(commits')
                        /\ pc' \notin Unlooked \cup Ended /\ ~opts'.worktreeInside =>
                              r'.originalStatusSig = Clean'
                        /\ pc' = "driftHead" /\ NoneInside' => r'.newSig = Clean'
                        /\ pc' = "drifted" => ~NoneInside'
    BY <2>1 DEF DriftInv
  <2>7. /\ pc \notin Early \cup Ended => r.originalHead = Len(commits)
        /\ pc \notin Unlooked \cup Ended /\ ~opts.worktreeInside =>
              r.originalStatusSig = Clean
        /\ pc = "driftHead" /\ NoneInside => r.newSig = Clean
        /\ pc = "drifted" => ~NoneInside
    BY <1>e, <2>6 DEF DriftInv
  <2> QED
    BY <2>2, <2>3, <2>4, <2>5, <2>7 DEF SameSignatures, Looked
<1>2. CASE ReadHead
  <2>1. pc' \in {"status", "emit"} /\ UNCHANGED <<commits, files>> /\ pc \in Unlooked
    BY <1>2 DEF ReadHead, origin, Unlooked, Early
  <2>2. pc' = "status" => r'.originalHead = Len(commits')
    BY <1>2, <1>r DEF ReadHead, RunnerRecords, origin
  <2> QED
    BY <2>1, <2>2 DEF DriftInv, Unlooked, Early, Ended
<1>3. CASE ReadStatus
  <2>1. pc = "status" /\ pc' \in {"setup", "confirmDirty", "emit"} /\ files = {}
        /\ UNCHANGED <<opts, commits, index, work, files>>
    BY <1>3 DEF ReadStatus, DirtyPolicy, DriftInv, Unlooked, origin, env
  <2>2. (~opts.worktreeInside => Status = Clean) /\ Clean' = Clean
    BY <2>1, StatusWithout DEF NoneInside, Clean, HEAD
  <2>3. r'.originalHead = r.originalHead /\ (pc' # "emit" => r'.originalStatusSig = Status)
    BY <1>3, <1>r DEF ReadStatus, DirtyPolicy, RunnerRecords
  <2>4. Alone' => r.originalHead = Len(commits)
    BY <1>e, <2>1 DEF DriftInv, Early, Ended
  <2> QED
    BY <2>1, <2>2, <2>3, <2>4 DEF DriftInv, Unlooked, Early, Ended
<1>4. CASE DriftStatus
  <2>1. pc = "driftStatus" /\ pc' \in {"driftHead", "emit"}
        /\ UNCHANGED <<opts, commits, index, work, files>>
    BY <1>4 DEF DriftStatus, origin, env
  <2>2. /\ r'.originalHead = r.originalHead /\ r'.originalStatusSig = r.originalStatusSig
        /\ pc' = "driftHead" => r'.newSig = Status
    BY <1>4, <1>r DEF DriftStatus, RunnerRecords
  <2>3. Clean' = Clean /\ NoneInside' = NoneInside
    BY <2>1 DEF Clean, HEAD, NoneInside, Inside
  <2>4. Alone' => /\ r.originalHead = Len(commits)
                  /\ ~opts.worktreeInside => r.originalStatusSig = Clean
    BY <1>e, <2>1 DEF DriftInv, Unlooked, Early, Ended
  <2> QED
    BY <2>1, <2>2, <2>3, <2>4, StatusWithout DEF DriftInv, Unlooked, Early, Ended
<1>5. CASE DriftHead
  <2>1. pc = "driftHead" /\ pc' \in {"drifted", "check", "emit"}
        /\ UNCHANGED <<opts, commits, index, work, files, r>> /\ (pc' = "drifted" => Drifted)
    BY <1>5 DEF DriftHead, origin, env
  <2>2. Clean' = Clean /\ NoneInside' = NoneInside
    BY <2>1 DEF Clean, HEAD, NoneInside, Inside
  <2>3. Alone' =>
            /\ r.originalHead = Len(commits)
            /\ ~opts.worktreeInside => r.originalStatusSig = Clean
            /\ NoneInside => r.newSig = Clean
    BY <1>e, <2>1 DEF DriftInv, Unlooked, Early, Ended
  <2>4. Alone' /\ pc' = "drifted" => ~NoneInside
    BY <2>1, <2>3 DEF Drifted, NoneInside
  <2> QED
    BY <2>1, <2>2, <2>3, <2>4 DEF DriftInv, Unlooked, Early, Ended
<1>6. CASE Apply \/ Apply3Way
  <2>1. pc' = "emit"
    BY <1>6 DEF Apply, Apply3Way, Applied
  <2> QED
    BY <2>1 DEF DriftInv, Unlooked, Early, Ended
<1>7. CASE OthersEdit \/ OthersStage \/ OthersCommit
  <2>1. UNCHANGED <<pc, files>>
    BY <1>7 DEF OthersEdit, OthersStage, OthersCommit
  <2> QED
    BY <1>e, <1>7, <2>1 DEF DriftInv
<1> QED
  BY <1>1, <1>2, <1>3, <1>4, <1>5, <1>6, <1>7, OthersAreBlind DEF LooksOrMoves

LEMMA DriftHolds == Spec => []DriftInv
<1>1. Init => DriftInv
  BY DEF Init, DriftInv, Unlooked, Early, Ended
<1> QED
  BY <1>1, DriftKeeps, TypeCorrect, TroublesHold, PTL DEF Spec

\* "Original working tree changed" is said only if somebody has edited, staged
\* or committed there, or patchrun itself has put a patch, a snapshot or its
\* worktree inside the repository where Git sees it: the finding SelfDrift is
\* one of these three.  (applyToOriginal.)
THEOREM DriftHasACause ==
    Spec => [](pc = "drifted" =>
        \/ budget.edits < MaxEdits
        \/ \E f \in files : Inside(f)
        \/ opts.worktreeInside)
<1>1. Troubles /\ DriftInv =>
        (pc = "drifted" =>
            \/ budget.edits < MaxEdits
            \/ \E f \in files : Inside(f)
            \/ opts.worktreeInside)
  <2> SUFFICES ASSUME Troubles, DriftInv, pc = "drifted", ~(budget.edits < MaxEdits)
               PROVE  opts.worktreeInside \/ \E f \in files : Inside(f)
    OBVIOUS
  <2>1. MaxEdits \in Nat /\ budget.edits \in 0 .. MaxEdits
    BY RunnerAssumption DEF Troubles
  <2>2. Alone
    BY <2>1 DEF Alone
  <2> QED
    BY <2>2 DEF DriftInv, NoneInside
<1> QED
  BY <1>1, DriftHolds, TroublesHold, PTL

-----------------------------------------------------------------------------
(* The original tree and the patch, as long as nobody else is about.       *)

\* As far as git sees it, or `t` has it, the original tree is `t`.
MatchesWork(t) ==
    \A c \in Cells : PathOf[c] \notin Ignored \/ Exists(t, PathOf[c]) => work[c] = t[c]

TreeIsWhatRan ==
    \A c \in Cells : PathOf[c] \notin Ignored =>
        work[c] = IF PathOf[c] \in Selected THEN worktree.tree[c]
                  ELSE r.baselineRef[c]

\* How the original tree, the worktree and the patch hang together at every
\* point of a run beside which nobody works, whatever fails in it.
Aligned ==
    /\ pc \notin Ended \/ opts.check => work = seen.before
    /\ pc \in {"confirmDirty", "setup"} /\ ~r.originalDirty => MatchesWork(HEAD)
    /\ pc = "replayTracked" => worktree.tree = HEAD
    /\ pc = "listUntracked" => worktree.tree = KnownWork(index, work)
    /\ pc = "copyUntracked" =>
          \A c \in Cells : PathOf[c] \notin r.untracked =>
              worktree.tree[c] = StageAll(index, work, FALSE)[c]
    /\ pc \in Commanding \cup Settled => MatchesWork(r.baselineRef)
    /\ pc \in Settled => r.patchBytes = CapturedPatch
    /\ pc = "threeWay" => opts.threeWay
    /\ pc \in Ended => TreeIsAsReported(r.applied, exit)
    /\ pc = "emit" /\ r.applied => TreeIsWhatRan

\* A step that leaves tree, worktree and patch alone and does not end the run.
LEMMA AlignedFrame ==
    ASSUME Aligned,
           UNCHANGED <<opts, commits, index, work, worktree>>, seen'.before = seen.before,
           r'.baselineRef = r.baselineRef, r'.patchBytes = r.patchBytes,
           r'.untracked = r.untracked, r'.originalDirty = r.originalDirty,
           pc' \notin Ended, pc \notin Ended,
           pc' \in {"confirmDirty", "setup"} => pc \in {"confirmDirty", "setup"},
           pc' \in Replaying => pc' = pc,
           pc' \in Commanding \cup Settled => pc \in Commanding \cup Settled,
           pc' \in Settled => pc \in Settled,
           pc' = "threeWay" => pc = "threeWay" \/ opts.threeWay
    PROVE  Aligned'
<1>1. HEAD' = HEAD /\ Selected' = Selected
  BY DEF HEAD, Selected
<1>2. CapturedPatch' = CapturedPatch
  BY <1>1 DEF CapturedPatch
<1>3. (pc \notin Ended \/ opts.check => work = seen.before)'
  BY DEF Aligned
<1>4. (pc \in {"confirmDirty", "setup"} /\ ~r.originalDirty => MatchesWork(HEAD))'
  BY <1>1 DEF Aligned, MatchesWork, Exists
<1>5. (pc = "replayTracked" => worktree.tree = HEAD)'
  BY <1>1 DEF Aligned, Replaying
<1>6. (pc = "listUntracked" => worktree.tree = KnownWork(index, work))'
  BY DEF Aligned, Replaying, KnownWork, Tracked, Exists
<1>7. (pc = "copyUntracked" =>
          \A c \in Cells : PathOf[c] \notin r.untracked =>
              worktree.tree[c] = StageAll(index, work, FALSE)[c])'
  BY DEF Aligned, Replaying, StageAll, Tracked, Exists
<1>8. (pc \in Commanding \cup Settled => MatchesWork(r.baselineRef))'
  BY DEF Aligned, MatchesWork, Exists
<1>9. (pc \in Settled => r.patchBytes = CapturedPatch)'
  BY <1>2 DEF Aligned
<1>10. (pc = "threeWay" => opts.threeWay)'
  BY DEF Aligned
<1> QED
  BY <1>3, <1>4, <1>5, <1>6, <1>7, <1>8, <1>9, <1>10 DEF Aligned, Ended

\* A step that ends the run without having applied anything.
LEMMA AlignedEnds ==
    ASSUME Aligned, HeadGuard, pc \notin Ended, pc' = "emit", work' = work,
           seen'.before = seen.before, r'.applied = r.applied
    PROVE  Aligned'
<1>1. work' = seen'.before /\ ~r'.applied
  BY DEF Aligned, HeadGuard
<1>2. TreeIsAsReported(r.applied, exit)'
  BY <1>1 DEF TreeIsAsReported, Same
<1> QED
  BY <1>1, <1>2 DEF Aligned, Ended, Replaying, Commanding, Settled, Proposed, Vetted

\* A step at the end that only reports and cleans up.
LEMMA AlignedAtEnd ==
    ASSUME Aligned, pc \in Ended, pc' \in Ended, pc' = "emit" => pc = "emit",
           UNCHANGED <<opts, work, r, exit>>, worktree' = worktree \/ pc' # "emit",
           seen'.before = seen.before, NoTrouble' => NoTrouble
    PROVE  Aligned'
<1>1. Effect' = Effect /\ Selected' = Selected
  BY DEF Effect, Selected
<1>2. (opts.check => work = seen.before)'
  BY DEF Aligned
<1>3. TreeIsAsReported(r.applied, exit)'
  BY <1>1 DEF Aligned, TreeIsAsReported
<1>4. (pc = "emit" /\ r.applied => TreeIsWhatRan)'
  BY <1>1 DEF Aligned, TreeIsWhatRan
<1> QED
  BY <1>2, <1>3, <1>4
  DEF Aligned, Ended, Replaying, Commanding, Settled, Proposed, Vetted

\* What the patch holds.
LEMMA EffectShape ==
    ASSUME TypeOK, r.patchBytes = CapturedPatch
    PROVE  /\ \A c \in DOMAIN Effect :
                 /\ c \in Cells /\ PathOf[c] \in Selected
                 /\ Effect[c].old = r.baselineRef[c]
                 /\ Effect[c].new = Staged[c]
           /\ \A c \in Cells : c \notin DOMAIN Effect /\ PathOf[c] \in Selected =>
                 Staged[c] = r.baselineRef[c]
           /\ \A p \in Patched : ~Exists(r.baselineRef, p) => CellsOf(p) \subseteq DOMAIN Effect
<1> DEFINE diff == Diff(r.baselineRef, Staged)
           forward == Limit(diff, Selected)
<1>1. /\ r.baselineRef \in Trees /\ worktree.index \in Trees /\ worktree.tree \in Trees
      /\ opts.includeIgnored \in BOOLEAN
  <2>1. r \in RunnerRecords /\ worktree \in Worktrees /\ opts \in OptionRecords
    BY DEF TypeOK
  <2> QED
    BY <2>1 DEF RunnerRecords, Worktrees, OptionRecords
<1>2. Staged \in Trees
  BY <1>1, StageAllType DEF Staged
<1>3. forward \in Patches
  BY <1>1, <1>2, DiffType, LimitType
<1>4. CapturedPatch = IF opts.reverse THEN Reversed(forward) ELSE forward
  BY DEF CapturedPatch, Staged
<1>5. Effect = forward
  <2> HIDE DEF forward
  <2> QED
    BY <1>3, <1>4, ReversedTwice DEF Effect
<1>6. /\ DOMAIN forward = {c \in Mentioned(r.baselineRef, Staged) : PathOf[c] \in Selected}
      /\ \A c \in DOMAIN forward :
            /\ c \in Cells /\ forward[c].old = r.baselineRef[c]
            /\ forward[c].new = Staged[c]
  BY DEF Diff, Limit, Mentioned, CellsIn
<1>7. \A c \in Cells : c \notin Mentioned(r.baselineRef, Staged) =>
          Staged[c] = r.baselineRef[c]
  BY DEF Mentioned
<1> HIDE DEF forward
<1>8. ASSUME NEW c \in DOMAIN Effect, ~Exists(r.baselineRef, PathOf[c])
      PROVE  CellsOf(PathOf[c]) \subseteq DOMAIN Effect
  <2>1. /\ c \in Mentioned(r.baselineRef, Staged) /\ PathOf[c] \in Selected /\ c \in Cells
    BY <1>5, <1>6
  <2>2. c \in CellsOf(PathOf[c]) /\ r.baselineRef[c] = None
    BY <1>8, <2>1 DEF CellsOf, Exists
  <2>3. Exists(Staged, PathOf[c])
    BY <1>8, <2>1, <2>2 DEF Mentioned, Exists
  <2>4. \A e \in CellsOf(PathOf[c]) : e \in Mentioned(r.baselineRef, Staged)
    BY <1>8, <2>3 DEF Mentioned, CellsOf
  <2> QED
    BY <1>5, <1>6, <2>1, <2>4 DEF CellsOf
<1>9. \A p \in Patched : ~Exists(r.baselineRef, p) => CellsOf(p) \subseteq DOMAIN Effect
  BY <1>8 DEF Patched
<1> QED
  BY <1>5, <1>6, <1>7, <1>9

\* Nobody having changed the tree, a 3-way merge without conflicts is a plain
\* apply: no file the patch changes has gone.
LEMMA MergeIsApply ==
    ASSUME TypeOK, Aligned, pc \in Settled, ~Conflicts(Restored(Patched))
    PROVE  Merge3(Effect, Restored(Patched)) = ApplyTo(Effect, work, Paths)
<1>1. r.patchBytes = CapturedPatch /\ MatchesWork(r.baselineRef)
  BY DEF Aligned
<1> DEFINE t == Restored(Patched)
<1>2. ASSUME NEW c \in DOMAIN Effect PROVE t[c] \in {Effect[c].old, Effect[c].new}
  BY <1>2 DEF Conflicts
<1>3. ASSUME NEW c \in Cells, c \notin DOMAIN Effect PROVE t[c] = work[c]
  <2>1. SUFFICES ASSUME PathOf[c] \in Patched, ~Exists(work, PathOf[c]) PROVE FALSE
    BY DEF Restored
  <2>2. ~Exists(r.baselineRef, PathOf[c])
    BY <1>1, <2>1 DEF MatchesWork, Exists, CellsOf
  <2>3. CellsOf(PathOf[c]) \subseteq DOMAIN Effect
    BY <1>1, <2>1, <2>2, EffectShape
  <2> QED
    BY <1>3, <2>3 DEF CellsOf
<1>4. \A c \in Cells : PathOf[c] \in Paths
  BY RepoAssumption
<1> HIDE DEF t
<1>5. \A c \in Cells : Merge3(Effect, t)[c] = ApplyTo(Effect, work, Paths)[c]
  BY <1>2, <1>3, <1>4 DEF Merge3, ApplyTo
<1>6. Merge3(Effect, t) = ApplyTo(Effect, work, Paths)
  BY <1>5 DEF Merge3, ApplyTo
<1> QED
  BY <1>6 DEF t

\* A patch that is applied, by either way, to a tree nobody has changed.
LEMMA AlignedApplied ==
    ASSUME TypeOK, Aligned, pc \in Settled,
           UNCHANGED <<opts, worktree>>, seen'.before = seen.before, ~opts.check,
           r' = [r EXCEPT !.applied = TRUE], pc' = "emit",
           work' = ApplyTo(Effect, work, Paths)
    PROVE  Aligned'
<1>r. /\ r'.applied /\ r'.baselineRef = r.baselineRef /\ r'.patchBytes = r.patchBytes
  <2>1. r \in RunnerRecords
    BY DEF TypeOK
  <2> QED
    BY <2>1 DEF RunnerRecords
<1>1. Effect' = Effect /\ Selected' = Selected
  BY <1>r DEF Effect, Selected
<1>2. /\ r.patchBytes = CapturedPatch /\ MatchesWork(r.baselineRef)
      /\ work = seen.before
  BY LabelsApart DEF Aligned
<1>3. ASSUME NEW c \in Cells, PathOf[c] \notin Ignored
      PROVE  work'[c] = IF PathOf[c] \in Selected THEN worktree.tree[c]
                        ELSE r.baselineRef[c]
  <2>1. work[c] = r.baselineRef[c] /\ PathOf[c] \in Paths
    BY <1>2, <1>3, RepoAssumption DEF MatchesWork
  <2>2. Staged[c] = worktree.tree[c]
    BY <1>3 DEF Staged, StageAll
  <2>3. work'[c] = IF c \in DOMAIN Effect THEN Effect[c].new ELSE work[c]
    BY <2>1 DEF ApplyTo
  <2>4. CASE c \in DOMAIN Effect
    BY <1>2, <2>2, <2>3, <2>4, EffectShape
  <2>5. CASE c \notin DOMAIN Effect
    BY <1>2, <2>1, <2>2, <2>3, <2>5, EffectShape
  <2> QED
    BY <2>4, <2>5
<1>4. TreeIsWhatRan'
  BY <1>r, <1>1, <1>3 DEF TreeIsWhatRan
<1>5. TreeIsAsReported(r.applied, exit)'
  BY <1>r, <1>1, <1>2 DEF TreeIsAsReported
<1> QED
  BY <1>4, <1>5 DEF Aligned, Ended, Replaying, Commanding, Settled, Proposed, Vetted


\* No step forgets the tree the run found.
LEMMA BeforeStays == ASSUME TypeOK, [Next]_vars PROVE seen'.before = seen.before
<1>1. CASE Quiet
  BY <1>1 DEF Quiet
<1>2. CASE CommandWrites \/ OthersCommit
  <2>1. seen \in Histories
    BY DEF TypeOK
  <2> QED
    BY <1>2, <2>1 DEF CommandWrites, OthersCommit, Histories
<1>3. CASE AtTheWorktree /\ ~CommandWrites /\ ~OthersCommit
  BY <1>3 DEF AtTheWorktree, ReadHead, SetupWorktree, ReplayTracked, ListUntracked,
     CopyUntracked, CommitBaseline, CapturePatch, RemoveWorktree, RemoveAll, env
<1> QED
  BY <1>1, <1>2, <1>3, OthersAreQuiet

\* At the end a run reports, cleans up, and does nothing else.
LEMMA StepsAtEnd ==
    ASSUME [Next]_vars, pc \in Ended
    PROVE  EmitJSON \/ RemoveWorktree \/ RemoveAll \/ Others \/ UNCHANGED vars
<1>1. ~(ResolveRepo \/ ReadHead \/ ReadStatus \/ ConfirmDirty \/ SetupWorktree
        \/ ReplayTracked \/ ListUntracked \/ CopyUntracked \/ CommitBaseline)
  BY DEF ResolveRepo, ReadHead, ReadStatus, ConfirmDirty, SetupWorktree, ReplayTracked,
     ListUntracked, CopyUntracked, CommitBaseline, Ended
<1>2. ~(RunChildCommand \/ ConfirmPTY \/ CommandWrites \/ ChildExits \/ ExecExits
        \/ KillCommand \/ RunExecCommands \/ WriteSnapshot \/ CapturePatch)
  BY DEF RunChildCommand, ConfirmPTY, CommandWrites, ChildExits, ExecExits, KillCommand,
     RunExecCommands, WriteSnapshot, CapturePatch, Ended
<1>3. ~(SaveRequested \/ WriteStdout \/ DefaultSave \/ AskMenu \/ AskPath \/ MenuSave)
  BY DEF SaveRequested, WriteStdout, DefaultSave, AskMenu, AskPath, MenuSave, Ended
<1>4. ~(DriftStatus \/ DriftHead \/ ApplyCheck \/ AutoSave \/ Apply \/ Apply3Way)
  BY DEF DriftStatus, DriftHead, ApplyCheck, AutoSave, Apply, Apply3Way, Ended
<1> QED
  BY <1>1, <1>2, <1>3, <1>4 DEF Next, Program, Prompts, CommandEnds, Exited

\* The baseline is the tree the run found, as far as git sees it.
LEMMA BaselineMatches ==
    ASSUME \A c \in Cells : worktree.tree[c] = StageAll(index, work, FALSE)[c]
    PROVE  MatchesWork(BaselineTree)
<1>1. \A c \in Cells : BaselineTree[c] =
          IF PathOf[c] \in Ignored \ Tracked(worktree.index) THEN None ELSE worktree.tree[c]
  BY DEF BaselineTree, StageAll
<1>2. \A c \in Cells : worktree.tree[c] =
          IF PathOf[c] \in Ignored \ Tracked(index) THEN None ELSE work[c]
  BY DEF StageAll
<1>3. ASSUME NEW c \in Cells, PathOf[c] \notin Ignored PROVE work[c] = BaselineTree[c]
  BY <1>1, <1>2, <1>3
<1>4. ASSUME NEW c \in Cells, Exists(BaselineTree, PathOf[c]) PROVE work[c] = BaselineTree[c]
  <2>1. PICK d \in CellsOf(PathOf[c]) : BaselineTree[d] # None
    BY <1>4 DEF Exists
  <2>2. d \in Cells /\ PathOf[d] = PathOf[c]
    BY DEF CellsOf
  <2>3. PathOf[c] \notin Ignored \ Tracked(worktree.index)
        /\ PathOf[c] \notin Ignored \ Tracked(index)
    BY <1>1, <1>2, <2>1, <2>2
  <2> QED
    BY <1>1, <1>2, <2>3
<1> QED
  BY <1>3, <1>4 DEF MatchesWork

LEMMA AlignedKeeps ==
    ASSUME TypeOK, TypeOK', Troubles, HeadGuard, GateInv, CaptureInv, DriftInv, Alone,
           Aligned, [Next]_vars, ~OthersEdit, ~OthersStage, ~OthersCommit
    PROVE  Aligned'
<1> USE DEF Goto, Stop
<1>r. r \in RunnerRecords
  BY DEF TypeOK
<1>w. worktree \in Worktrees
  BY DEF TypeOK
<1>n. work \in Trees /\ HEAD \in Trees
  BY HeadType DEF TypeOK
<1>b. seen'.before = seen.before
  BY BeforeStays
<1>1. CASE ReadHead
  <2>1. /\ UNCHANGED <<opts, commits, index, work, worktree>>
        /\ pc = "head" /\ pc' \in {"status", "emit"}
    BY <1>1 DEF ReadHead, origin, env
  <2>2. /\ r'.baselineRef = r.baselineRef /\ r'.patchBytes = r.patchBytes
        /\ r'.untracked = r.untracked /\ r'.originalDirty = r.originalDirty
        /\ r'.applied = r.applied
    BY <1>1, <1>r DEF ReadHead, RunnerRecords
  <2>3. CASE pc' = "status"
    BY <1>b, <2>1, <2>2, <2>3, AlignedFrame
    DEF Ended, Replaying, Commanding, Settled, Proposed, Vetted
  <2>4. CASE pc' = "emit"
    BY <1>b, <2>1, <2>2, <2>4, AlignedEnds DEF Ended
  <2> QED
    BY <2>1, <2>3, <2>4
<1>2. CASE ReadStatus
  <2>1. /\ UNCHANGED <<opts, commits, index, work, worktree>>
        /\ pc = "status" /\ pc' \in {"confirmDirty", "setup", "emit"}
    BY <1>2 DEF ReadStatus, DirtyPolicy, origin, env
  <2>2. /\ r'.applied = r.applied
        /\ pc' # "emit" => r'.originalDirty = IsDirty(Status)
    BY <1>2, <1>r DEF ReadStatus, DirtyPolicy, RunnerRecords
  <2>3. CASE pc' # "emit"
    <3>1. ~r'.originalDirty => MatchesWork(HEAD)
      <4> SUFFICES ASSUME ~IsDirty(Status) PROVE MatchesWork(HEAD)
        BY <2>2, <2>3
      <4> QED
        BY CleanIsHead DEF Status, MatchesWork
    <3>2. (MatchesWork(HEAD))' = MatchesWork(HEAD)
      BY <2>1 DEF MatchesWork, HEAD, Exists
    <3>3. work' = seen'.before
      BY <1>b, <2>1 DEF Aligned, Ended
    <3> QED
      BY <2>1, <2>3, <3>1, <3>2, <3>3
      DEF Aligned, Ended, Commanding, Settled, Proposed, Vetted
  <2>4. CASE pc' = "emit"
    BY <1>b, <2>1, <2>2, <2>4, AlignedEnds DEF Ended
  <2> QED
    BY <2>3, <2>4
<1>3. CASE SetupWorktree
  <2>1. UNCHANGED <<opts, commits, index, work>> /\ pc = "setup"
    BY <1>3 DEF SetupWorktree, origin, env
  <2>2. /\ r'.applied = r.applied /\ r'.originalDirty = r.originalDirty
    BY <1>3, <1>r DEF SetupWorktree, RunnerRecords
  <2>3. CASE pc' = "emit"
    BY <1>b, <2>1, <2>2, <2>3, AlignedEnds DEF Ended
  <2>4. CASE pc' # "emit"
    <3>1. commits[r.originalHead] = HEAD
      BY <2>1 DEF DriftInv, Early, Ended, HEAD
    <3>2. /\ worktree' = CheckedOut(HEAD)
          /\ r' = [r EXCEPT !.tempWorktree = TRUE, !.baselineRef = HEAD]
          /\ pc' = IF r.originalDirty THEN "replayTracked" ELSE "policy"
      BY <1>3, <2>4, <3>1 DEF SetupWorktree
    <3>3. r'.baselineRef = HEAD /\ worktree'.tree = HEAD
      BY <1>r, <3>2 DEF RunnerRecords, CheckedOut
    <3>4. HEAD' = HEAD /\ (MatchesWork(HEAD))' = MatchesWork(HEAD)
      BY <2>1 DEF MatchesWork, HEAD, Exists
    <3>5. work' = seen'.before
      BY <1>b, <2>1 DEF Aligned, Ended
    <3>6. CASE r.originalDirty
      BY <3>2, <3>3, <3>4, <3>5, <3>6
      DEF Aligned, Ended, Commanding, Settled, Proposed, Vetted
    <3>7. CASE ~r.originalDirty
      <4>1. MatchesWork(HEAD)
        BY <2>1, <3>7 DEF Aligned
      <4>2. (MatchesWork(r.baselineRef))'
        BY <3>3, <3>4, <4>1 DEF MatchesWork
      <4> QED
        BY <3>2, <3>5, <3>7, <4>2 DEF Aligned, Ended, Settled, Proposed, Vetted
    <3> QED
      BY <3>6, <3>7
  <2> QED
    BY <2>3, <2>4
<1>4. CASE ReplayTracked
  <2>1. UNCHANGED <<opts, commits, index, work, r>> /\ pc = "replayTracked"
    BY <1>4 DEF ReplayTracked, origin, env
  <2>2. CASE pc' = "emit"
    BY <1>b, <2>1, <2>2, AlignedEnds DEF Ended
  <2>3. CASE pc' # "emit"
    <3>1. worktree.tree = HEAD
      BY <2>1 DEF Aligned
    <3>2. KnownWork(index, work) \in Trees
      BY <1>n, KnownWorkType
    <3>3. ApplyTo(TrackedChanges, worktree.tree, Paths) = KnownWork(index, work)
      BY <1>n, <3>1, <3>2, DiffRoundTrip DEF TrackedChanges
    <3>4. pc' = "listUntracked" /\ worktree'.tree = KnownWork(index, work)
      BY <1>4, <1>w, <2>3, <3>3 DEF ReplayTracked, Worktrees
    <3>5. (KnownWork(index, work))' = KnownWork(index, work)
      BY <2>1 DEF KnownWork, Tracked, Exists
    <3>6. work' = seen'.before
      BY <1>b, <2>1 DEF Aligned, Ended
    <3> QED
      BY <3>4, <3>5, <3>6 DEF Aligned, Ended, Commanding, Settled, Proposed, Vetted
  <2> QED
    BY <2>2, <2>3
<1>5. CASE ListUntracked
  <2>1. /\ UNCHANGED <<opts, commits, index, work, worktree>> /\ pc = "listUntracked"
        /\ pc' \in {"copyUntracked", "emit"}
    BY <1>5 DEF ListUntracked, origin, env
  <2>2. /\ r'.applied = r.applied
        /\ pc' = "copyUntracked" => r'.untracked = LsUntracked(index, work)
    BY <1>5, <1>r DEF ListUntracked, RunnerRecords
  <2>3. CASE pc' = "emit"
    BY <1>b, <2>1, <2>2, <2>3, AlignedEnds DEF Ended
  <2>4. CASE pc' = "copyUntracked"
    <3>1. ASSUME NEW c \in Cells, PathOf[c] \notin LsUntracked(index, work)
          PROVE  KnownWork(index, work)[c] = StageAll(index, work, FALSE)[c]
      <4>1. CASE PathOf[c] \in Tracked(index)
        BY <4>1 DEF KnownWork, StageAll
      <4>2. CASE PathOf[c] \notin Tracked(index)
        <5>1. PathOf[c] \notin Ignored => work[c] = None
          BY <3>1, <4>2, RepoAssumption DEF LsUntracked, Exists, CellsOf
        <5> QED
          BY <4>2, <5>1 DEF KnownWork, StageAll
      <4> QED
        BY <4>1, <4>2
    <3>2. worktree.tree = KnownWork(index, work)
      BY <2>1 DEF Aligned
    <3>3. (StageAll(index, work, FALSE))' = StageAll(index, work, FALSE)
      BY <2>1 DEF StageAll, Tracked, Exists
    <3>4. work' = seen'.before
      BY <1>b, <2>1 DEF Aligned, Ended
    <3> QED
      BY <2>1, <2>2, <2>4, <3>1, <3>2, <3>3, <3>4
      DEF Aligned, Ended, Commanding, Settled, Proposed, Vetted
  <2> QED
    BY <2>1, <2>3, <2>4
<1>6. CASE CopyUntracked
  <2>1. UNCHANGED <<opts, commits, index, work>> /\ pc = "copyUntracked"
    BY <1>6 DEF CopyUntracked, origin, env
  <2>2. CASE pc' = "emit"
    <3>1. r' = r
      BY <1>6, <2>1, <2>2 DEF CopyUntracked
    <3> QED
      BY <1>b, <2>1, <2>2, <3>1, AlignedEnds DEF Ended
  <2>3. CASE pc' # "emit"
    <3>1. PICK p \in r.untracked :
              /\ pc' = pc
              /\ worktree' = [worktree EXCEPT !.tree =
                    [c \in Cells |-> IF PathOf[c] = p THEN work[c] ELSE worktree.tree[c]]]
              /\ r' = [r EXCEPT !.untracked = @ \ {p}]
      BY <1>6, <2>3 DEF CopyUntracked
    <3>2. worktree'.tree =
              [c \in Cells |-> IF PathOf[c] = p THEN work[c] ELSE worktree.tree[c]]
      BY <1>w, <3>1 DEF Worktrees
    <3>3. r'.untracked = r.untracked \ {p} /\ p \notin Ignored
      BY <1>r, <2>1, <3>1 DEF RunnerRecords, CaptureInv
    <3>4. ASSUME NEW c \in Cells, PathOf[c] \notin r'.untracked
          PROVE  worktree'.tree[c] = StageAll(index, work, FALSE)[c]
      <4>1. CASE PathOf[c] = p
        BY <3>2, <3>3, <4>1 DEF StageAll
      <4>2. CASE PathOf[c] # p
        BY <2>1, <3>2, <3>3, <3>4, <4>2 DEF Aligned
      <4> QED
        BY <4>1, <4>2
    <3>5. (StageAll(index, work, FALSE))' = StageAll(index, work, FALSE)
      BY <2>1 DEF StageAll, Tracked, Exists
    <3>6. work' = seen'.before
      BY <1>b, <2>1 DEF Aligned, Ended
    <3> QED
      BY <2>1, <3>1, <3>4, <3>5, <3>6
      DEF Aligned, Ended, Commanding, Settled, Proposed, Vetted
  <2> QED
    BY <2>2, <2>3
<1>7. CASE CommitBaseline
  <2>1. UNCHANGED <<opts, commits, index, work>> /\ pc = "copyUntracked" /\ r.untracked = {}
    BY <1>7 DEF CommitBaseline, origin, env
  <2>2. CASE pc' = "emit"
    <3>1. r' = r
      BY <1>7, <2>2 DEF CommitBaseline
    <3> QED
      BY <1>b, <2>1, <2>2, <3>1, AlignedEnds DEF Ended
  <2>3. CASE pc' # "emit"
    <3>1. pc' = "policy" /\ r' = [r EXCEPT !.baselineRef = BaselineTree]
      BY <1>7, <2>3 DEF CommitBaseline
    <3>2. r'.baselineRef = BaselineTree
      BY <1>r, <3>1 DEF RunnerRecords
    <3>3. MatchesWork(BaselineTree)
      BY <2>1, BaselineMatches DEF Aligned
    <3> HIDE DEF BaselineTree
    <3>4. (MatchesWork(r.baselineRef))'
      BY <2>1, <3>2, <3>3 DEF MatchesWork, Exists
    <3>5. work' = seen'.before
      BY <1>b, <2>1 DEF Aligned, Ended
    <3> QED
      BY <3>1, <3>4, <3>5 DEF Aligned, Ended, Settled, Proposed, Vetted
  <2> QED
    BY <2>2, <2>3
<1>8. CASE CommandWrites
  <2>1. UNCHANGED <<opts, commits, index, work, r, pc>> /\ pc \in {"child", "exec"}
    BY <1>8 DEF CommandWrites, origin
  <2>2. (MatchesWork(r.baselineRef))'
    BY <2>1 DEF Aligned, MatchesWork, Commanding, Exists
  <2>3. work' = seen'.before
    BY <1>b, <2>1 DEF Aligned, Ended
  <2> QED
    BY <2>1, <2>2, <2>3 DEF Aligned, Ended, Settled, Proposed, Vetted
<1>9. CASE CapturePatch
  <2>1. /\ UNCHANGED <<opts, commits, index, work, worktree>> /\ pc = "capture"
        /\ pc' \in {"menu", "save", "emit"}
    BY <1>9 DEF CapturePatch, origin, env
  <2>2. /\ r'.applied = r.applied /\ r'.baselineRef = r.baselineRef
        /\ pc' # "emit" => r'.patchBytes = CapturedPatch
    BY <1>9, <1>r DEF CapturePatch, RunnerRecords
  <2>3. CASE pc' = "emit"
    BY <1>b, <2>1, <2>2, <2>3, AlignedEnds DEF Ended
  <2>4. CASE pc' # "emit"
    <3>1. CapturedPatch' = CapturedPatch
      BY <2>1, <2>2 DEF CapturedPatch, Selected
    <3>2. (MatchesWork(r.baselineRef))'
      BY <2>1, <2>2 DEF Aligned, MatchesWork, Commanding, Exists
    <3>3. work' = seen'.before
      BY <1>b, <2>1 DEF Aligned, Ended
    <3> QED
      BY <2>1, <2>2, <2>4, <3>1, <3>2, <3>3 DEF Aligned, Ended
  <2> QED
    BY <2>3, <2>4
<1>10. CASE Apply
  <2>1. /\ UNCHANGED <<opts, commits, index, worktree>> /\ pc' = "emit"
        /\ pc = "apply" /\ pc \in Settled /\ pc \notin Ended
    BY <1>10 DEF Apply, Applied, env, Settled, Vetted, Ended
  <2>2. ~opts.check /\ ~r.applied /\ work = seen.before
    BY <2>1 DEF GateInv, HeadGuard, Aligned
  <2>3. CASE UNCHANGED <<work, r>>
    BY <1>b, <2>1, <2>3, AlignedEnds
  <2>4. CASE work' = ApplyTo(Effect, work, Paths) /\ r' = [r EXCEPT !.applied = TRUE]
    BY <1>b, <2>1, <2>2, <2>4, AlignedApplied
  <2>5. CASE /\ GitErr /\ PartlyWritten(ApplyTo(Effect, work, Paths), work)
             /\ exit' = ExitApplyFailed /\ r' = r
    <3> DEFINE patched == ApplyTo(Effect, work, Paths)
    <3>1. ~NoTrouble'
      BY <2>5, StillWell
    <3>2. PICK ps \in SUBSET Paths :
              work' = [c \in Cells |-> IF PathOf[c] \in ps THEN patched[c] ELSE work[c]]
      BY <2>5 DEF PartlyWritten
    <3>3. patched' = ApplyTo(Effect, work', Paths)
      BY <2>5, <2>1 DEF Effect, ApplyTo
    <3>4. (ApplyTo(Effect, seen.before, Paths))' = patched
      BY <1>b, <2>1, <2>2, <2>5 DEF Effect, ApplyTo
    <3> HIDE DEF patched
    <3>5. ASSUME NEW p \in Paths
          PROVE  \/ Same(work', seen'.before, p)
                 \/ Same(work', patched, p)
      <4>1. CASE p \in ps
        BY <3>2, <4>1 DEF Same, CellsOf
      <4>2. CASE p \notin ps
        BY <1>b, <2>2, <3>2, <4>2 DEF Same, CellsOf
      <4> QED
        BY <4>1, <4>2
    <3>6. TreeIsAsReported(r.applied, exit)'
      BY <2>2, <2>5, <3>1, <3>4, <3>5 DEF TreeIsAsReported, Same
    <3> QED
      BY <2>1, <2>2, <2>5, <3>6
      DEF Aligned, Ended, Replaying, Commanding, Settled, Proposed, Vetted
  <2> QED
    BY <1>10, <2>3, <2>4, <2>5 DEF Apply, Applied
<1>11. CASE Apply3Way
  <2>1. /\ UNCHANGED <<opts, commits, worktree>> /\ pc' = "emit"
        /\ pc = "threeWay" /\ pc \in Settled /\ pc \notin Ended
    BY <1>11 DEF Apply3Way, Applied, env, Settled, Vetted, Ended
  <2>2. ~opts.check /\ opts.threeWay
    BY <2>1 DEF GateInv, Aligned
  <2>3. CASE /\ ~Conflicts(Restored(Patched))
             /\ Applied(Merge3(Effect, Restored(Patched)))
    <3>1. work' = ApplyTo(Effect, work, Paths) /\ r' = [r EXCEPT !.applied = TRUE]
      BY <2>1, <2>3, MergeIsApply DEF Applied
    <3> QED
      BY <1>b, <2>1, <2>2, <3>1, AlignedApplied
  <2>4. CASE exit' = ExitApplyFailed /\ r' = r
    <3>1. ~r'.applied
      BY <2>1, <2>4 DEF HeadGuard
    <3>2. TreeIsAsReported(r.applied, exit)'
      BY <2>1, <2>2, <2>4, <3>1 DEF TreeIsAsReported
    <3> QED
      BY <2>1, <2>2, <3>1, <3>2
      DEF Aligned, Ended, Replaying, Commanding, Settled, Proposed, Vetted
  <2> QED
    BY <1>11, <2>3, <2>4 DEF Apply3Way
<1>12. CASE pc \in Ended
  <2>1. EmitJSON \/ RemoveWorktree \/ RemoveAll \/ Interrupt \/ UNCHANGED vars
    BY <1>12, StepsAtEnd DEF Others
  <2>2. /\ UNCHANGED <<opts, work, r, exit>> /\ pc' \in Ended /\ (pc' = "emit" => pc = "emit")
        /\ worktree' = worktree \/ pc' # "emit"
    BY <1>12, <2>1 DEF EmitJSON, RemoveWorktree, RemoveAll, Interrupt, vars, origin, env, Ended
  <2>3. NoTrouble' => NoTrouble
    BY StillWell
  <2> QED
    BY <1>12, <1>b, <2>2, <2>3, AlignedAtEnd
<1>13. CASE Quiet /\ Modest /\ ~Apply /\ ~Apply3Way /\ pc \notin Ended
  <2>1. work' = work /\ index' = index
    BY <1>13, WhoWrites, WhoStages
  <2>2. CASE pc' \in Ended
    <3>1. pc' = "emit"
      BY <1>13, <2>2, LabelsApart DEF Quiet, Onward, Ended, Starting, Early
    <3> QED
      BY <1>13, <1>b, <2>1, <3>1, AlignedEnds DEF Modest
  <2>3. CASE pc' \notin Ended
    <3>1. pc' \in {"confirmDirty", "setup"} => pc \in {"confirmDirty", "setup"}
      BY <1>13, LabelsApart DEF Quiet, Onward, Modest, Starting, Early
    <3>2. pc' \in Replaying => pc' = pc
      BY <1>13, LabelsApart DEF Quiet, Onward, Replaying, Starting, Early
    <3>3. pc' \in Commanding \cup Settled => pc \in Commanding \cup Settled
      BY <1>13, LabelsApart DEF Quiet, Onward, Ended, Starting, Early
    <3>4. pc' \in Settled => pc \in Settled
      BY <1>13, LabelsApart DEF Quiet, Onward, Ended, Starting, Early
    <3>5. pc' = "threeWay" => pc = "threeWay" \/ opts.threeWay
      <4> SUFFICES ASSUME pc' = "threeWay" PROVE pc = "threeWay" \/ opts.threeWay
        OBVIOUS
      <4>1. AutoSave \/ UNCHANGED <<pc, exit, r, files>>
        BY <1>13, AfterRefusal
      <4> QED
        BY <4>1 DEF AutoSave
    <3> QED
      BY <1>13, <1>b, <2>1, <2>3, <3>1, <3>2, <3>3, <3>4, <3>5, AlignedFrame
      DEF Quiet, Modest
  <2> QED
    BY <2>2, <2>3
<1>14. CASE EmitJSON \/ RemoveWorktree \/ RemoveAll
  BY <1>12, <1>14 DEF EmitJSON, RemoveWorktree, RemoveAll, Ended
<1> QED
  BY <1>1, <1>2, <1>3, <1>4, <1>5, <1>6, <1>7, <1>8, <1>9, <1>10, <1>11, <1>12, <1>13, <1>14,
     OthersAreQuiet, OthersAreModest DEF AtTheWorktree

-----------------------------------------------------------------------------
(* The run beside which nobody works, and its report.                      *)

AloneInv == Alone => Aligned

LEMMA AloneKeeps ==
    ASSUME TypeOK, TypeOK', Troubles, HeadGuard, GateInv, CaptureInv, DriftInv, AloneInv,
           [Next]_vars
    PROVE  AloneInv'
<1> SUFFICES ASSUME Alone' PROVE Aligned'
  BY DEF AloneInv
<1>1. Alone /\ ~OthersEdit /\ ~OthersStage /\ ~OthersCommit
  BY StillAlone
<1>2. Aligned
  BY <1>1 DEF AloneInv
<1> QED
  BY <1>1, <1>2, AlignedKeeps

LEMMA GateHolds == Spec => []GateInv
<1>1. Init => GateInv
  BY GateBegins
<1>2. TypeOK /\ TypeOK' /\ GateInv /\ [Next]_vars => GateInv'
  BY GateKeeps
<1> QED
  BY <1>1, <1>2, TypeCorrect, PTL DEF Spec

LEMMA AloneHolds == Spec => []AloneInv
<1>1. Init => AloneInv
  <2> SUFFICES ASSUME Init PROVE Aligned
    BY DEF AloneInv
  <2>1. pc = "resolve" /\ seen.before = work
    BY DEF Init
  <2> QED
    BY <2>1 DEF Aligned, Commanding, Settled, Proposed, Vetted, Ended
<1>2. /\ TypeOK /\ TypeOK' /\ Troubles /\ HeadGuard /\ GateInv /\ CaptureInv /\ DriftInv
      /\ AloneInv /\ [Next]_vars
      => AloneInv'
  BY AloneKeeps
<1> QED
  BY <1>1, <1>2, TypeCorrect, TroublesHold, HeadGuardHolds, GateHolds, CaptureHolds,
     DriftHolds, PTL DEF Spec

\* With nobody else about, what a plain apply leaves in the original tree is what
\* the command left in the worktree, wherever the patch was to reach, and what
\* was there before elsewhere.
THEOREM AppliedIsTheWork == Spec => []AppliedIsWhatRan
<1>1. AloneInv => AppliedIsWhatRan
  BY DEF AloneInv, Aligned, TreeIsWhatRan, AppliedIsWhatRan
<1> QED
  BY <1>1, AloneHolds, PTL

-----------------------------------------------------------------------------
(* --check.                                                                *)

LEMMA OptsStay == ASSUME TypeOK, [Next]_vars PROVE opts' = opts
<1>1. CASE Quiet
  BY <1>1 DEF Quiet
<1>2. CASE AtTheWorktree
  BY <1>2 DEF AtTheWorktree, ReadHead, SetupWorktree, ReplayTracked, ListUntracked,
     CopyUntracked, CommitBaseline, CommandWrites, CapturePatch, RemoveWorktree,
     RemoveAll, OthersCommit, env
<1> QED
  BY <1>1, <1>2, OthersAreQuiet

\* Only git apply --check refuses a patch, and a run ends with exit 6 from the
\* drift check, that refusal, or the write.
LEMMA WhoRefuses ==
    ASSUME [Next]_vars, pc' # pc,
           pc' = "refused" \/ (pc' = "emit" /\ exit' = ExitApplyFailed)
    PROVE  (ApplyCheck /\ pc' = "refused") \/ AutoSave \/ Apply \/ Apply3Way
<1> USE DEF Goto, Stop, ExitApplyFailed, ExitGeneralFailure
<1>1. /\ ~ReadHead /\ ~ReadStatus /\ ~ConfirmDirty
      /\ ~SetupWorktree /\ ~ReplayTracked
  <2>1. ~ReadHead
    BY DEF ReadHead
  <2>2. ~ReadStatus
    BY DEF ReadStatus, DirtyPolicy, ExitDirty
  <2>3. ~ConfirmDirty
    BY DEF ConfirmDirty, ExitDirty
  <2>4. ~SetupWorktree
    <3> SUFFICES ASSUME SetupWorktree PROVE FALSE
      OBVIOUS
    <3>1. \/ Stop(ExitGeneralFailure)
          \/ Goto(IF r.originalDirty THEN "replayTracked" ELSE "policy")
      BY DEF SetupWorktree
    <3> QED
      BY <3>1
  <2>5. ~ReplayTracked
    BY DEF ReplayTracked
  <2> QED
    BY <2>1, <2>2, <2>3, <2>4, <2>5
<1>2. ~(ListUntracked \/ CopyUntracked \/ CommitBaseline \/ ResolveRepo)
  BY DEF ListUntracked, CopyUntracked, CommitBaseline, ResolveRepo, ExitNotInRepo,
     ExitGitMissing
<1>3. ~(RunChildCommand \/ ConfirmPTY \/ CommandWrites \/ ChildExits \/ ExecExits
        \/ KillCommand \/ RunExecCommands \/ WriteSnapshot)
  BY DEF RunChildCommand, ConfirmPTY, Start, CommandWrites, ChildExits, ExecExits,
     KillCommand, RunExecCommands, WriteSnapshot, ExitInvalidUsage
<1>4. Outcome(ExitOK) # ExitApplyFailed
  BY DEF Outcome, ExitOK, ExitTimeout, ExitChildFailed
<1>5. ~(CapturePatch \/ SaveRequested \/ WriteStdout \/ DefaultSave)
  BY <1>4 DEF CapturePatch, SaveRequested, WriteStdout, DefaultSave
<1>6. ~(AskMenu \/ AskPath \/ MenuSave)
  BY DEF AskMenu, Answers, AskPath, MenuSave, DiscardCode, ExitChildFailed, ExitUserDiscard
<1>7. ~(DriftStatus \/ DriftHead)
  BY DEF DriftStatus, DriftHead
<1>8. ApplyCheck => pc' = "refused"
  BY <1>4 DEF ApplyCheck
<1>9. ~(EmitJSON \/ RemoveWorktree \/ RemoveAll)
  BY DEF EmitJSON, RemoveWorktree, RemoveAll
<1>10. ~(Others \/ Exited \/ UNCHANGED vars)
  BY DEF Others, OthersEdit, OthersStage, OthersCommit, Interrupt, Exited, vars
<1> QED
  BY <1>1, <1>2, <1>3, <1>5, <1>6, <1>7, <1>8, <1>9, <1>10
  DEF Next, Program, Prompts, CommandEnds

\* Nobody whose patch is wanted comes to the end with it by the default save.
LEMMA WantedIsNotDefault ==
    ASSUME DeliveryInv, DefaultSave PROVE ~Wanted'
<1>1. pc = "fallback" /\ UNCHANGED <<opts, seen>>
  BY DEF DefaultSave, env
<1>2. ~opts.apply /\ seen.asked = {}
  BY <1>1 DEF DeliveryInv, Unasked
<1> QED
  BY <1>1, <1>2 DEF Wanted

CheckInv ==
    /\ opts.check => ~r.applied
    /\ pc = "refused" /\ Undisturbed => ~Applies(Effect, work)
    /\ pc \in Ended /\ opts.check /\ Wanted /\ HasPatch /\ Alone =>
         /\ exit = ExitOK => Applies(Effect, work)
         /\ exit = ExitApplyFailed /\ NoTrouble /\ NoneInside => ~Applies(Effect, work)

\* How the run gets to its end with a patch to apply, only to check it.
LEMMA CheckEnds ==
    ASSUME TypeOK, TypeOK', Troubles, GateInv, DeliveryInv, DriftInv, CheckInv, [Next]_vars,
           pc \notin Ended, pc' \in Ended, opts.check, Wanted', HasPatch', Alone'
    PROVE  /\ exit' = ExitOK => (Applies(Effect, work))'
           /\ exit' = ExitApplyFailed /\ NoTrouble' /\ NoneInside' => ~(Applies(Effect, work))'
<1> USE DEF Goto, Stop
<1>r. r \in RunnerRecords
  BY DEF TypeOK
<1>1. pc' = "emit" /\ pc' # pc
  <2>1. CASE Quiet
    BY <2>1, LabelsApart DEF Quiet, Onward, Ended, Starting, Early
  <2>2. CASE AtTheWorktree
    BY <2>2 DEF AtTheWorktree, ReadHead, SetupWorktree, ReplayTracked, ListUntracked,
       CopyUntracked, CommitBaseline, CommandWrites, CapturePatch, RemoveWorktree,
       RemoveAll, OthersCommit, Ended
  <2> QED
    BY <2>1, <2>2, OthersAreQuiet DEF Ended
<1>2. Alone /\ opts' = opts
  BY StillAlone, OptsStay
<1>3. ~Apply /\ ~Apply3Way
  BY DEF GateInv, Apply, Apply3Way
<1>4. ASSUME exit' = ExitOK PROVE (Applies(Effect, work))'
  <2>1. HasPatch
    <3>1. CASE Quiet
      BY <3>1 DEF Quiet, HasPatch
    <3>2. CASE CapturePatch
      <4>1. r' = [r EXCEPT !.patchBytes = CapturedPatch] /\ PatchIsEmpty(CapturedPatch)
        BY <1>1, <1>4, <3>2 DEF CapturePatch, ExitOK, ExitGeneralFailure
      <4>2. r'.patchBytes = CapturedPatch
        BY <1>r, <4>1 DEF RunnerRecords
      <4> QED
        BY <4>1, <4>2 DEF HasPatch
    <3>3. CASE ReadHead \/ SetupWorktree \/ ReplayTracked \/ ListUntracked
               \/ CopyUntracked \/ CommitBaseline
      BY <1>1, <1>4, <3>3 DEF ReadHead, SetupWorktree, ReplayTracked, ListUntracked,
         CopyUntracked, CommitBaseline, ExitOK, ExitGeneralFailure
    <3>4. CASE CommandWrites \/ RemoveWorktree \/ RemoveAll \/ OthersCommit
      BY <1>1, <3>4 DEF CommandWrites, RemoveWorktree, RemoveAll, OthersCommit
    <3> QED
      BY <3>1, <3>2, <3>3, <3>4, OthersAreQuiet DEF AtTheWorktree
  <2>2. ApplyCheck
    BY <1>1, <1>3, <1>4, <2>1, WhoSucceeds, WantedIsNotDefault
  <2>3. Applies(Effect, work) /\ UNCHANGED <<r, work>>
    BY <1>1, <1>4, <2>2 DEF ApplyCheck, origin, ExitOK, ExitGeneralFailure
  <2>4. Effect' = Effect
    BY <1>2, <2>3 DEF Effect
  <2> QED
    BY <2>3, <2>4 DEF Applies, Exists, CreatesFile
<1>5. ASSUME exit' = ExitApplyFailed, NoTrouble', NoneInside' PROVE ~(Applies(Effect, work))'
  <2>1. AutoSave
    BY <1>1, <1>3, <1>5, WhoRefuses
  <2>2. NoTrouble
    BY <1>5, StillWell
  <2>3. /\ files \subseteq files' /\ work' = work /\ pc \in {"drifted", "refused"}
        /\ r'.patchBytes = r.patchBytes
    BY <1>r, <2>1 DEF AutoSave, SaveTo, SaveFails, RunnerRecords
  <2>4. NoneInside
    BY <1>2, <1>5, <2>3 DEF NoneInside, Inside
  <2>5. pc = "refused"
    BY <1>2, <2>3, <2>4 DEF DriftInv
  <2>6. ~Applies(Effect, work)
    BY <1>2, <2>2, <2>5 DEF CheckInv, Undisturbed
  <2>7. Effect' = Effect
    BY <1>2, <2>3 DEF Effect
  <2> QED
    BY <2>3, <2>6, <2>7 DEF Applies, Exists, CreatesFile
<1> QED
  BY <1>4, <1>5

LEMMA CheckKeeps ==
    ASSUME TypeOK, TypeOK', Troubles, GateInv, DeliveryInv, DriftInv, CheckInv, [Next]_vars
    PROVE  CheckInv'
<1> USE DEF Goto, Stop
<1>r. r \in RunnerRecords
  BY DEF TypeOK
<1>o. opts' = opts
  BY OptsStay
<1>1. (opts.check => ~r.applied)'
  <2>1. CASE ReadStatus \/ EmitJSON
    <3>1. r'.applied = r.applied
      BY <1>r, <2>1 DEF ReadStatus, EmitJSON, RunnerRecords
    <3> QED
      BY <1>o, <3>1 DEF CheckInv
  <2>2. CASE Apply \/ Apply3Way
    BY <1>o, <2>2 DEF Apply, Apply3Way, GateInv
  <2>3. CASE Modest
    BY <1>o, <2>3 DEF Modest, CheckInv
  <2> QED
    BY <2>1, <2>2, <2>3, OthersAreModest
<1>2. (pc = "refused" /\ Undisturbed => ~Applies(Effect, work))'
  <2> SUFFICES ASSUME pc' = "refused", Alone', NoTrouble' PROVE ~(Applies(Effect, work))'
    BY DEF Undisturbed
  <2>1. /\ Alone /\ ~OthersEdit /\ ~OthersStage /\ ~OthersCommit
        /\ NoTrouble /\ ~cancelled /\ ~IOErr /\ ~GitErr
    BY StillAlone, StillWell
  <2>2. CASE pc # "refused"
    <3>1. ApplyCheck
      BY <2>2, WhoRefuses DEF AutoSave, Apply, Apply3Way, Applied
    <3>2. ~Applies(Effect, work) /\ UNCHANGED <<r, work>>
      BY <2>1, <3>1 DEF ApplyCheck, origin
    <3>3. Effect' = Effect
      BY <1>o, <3>2 DEF Effect
    <3> QED
      BY <3>2, <3>3 DEF Applies, Exists, CreatesFile
  <2>3. CASE pc = "refused"
    <3>1. ~Applies(Effect, work)
      BY <2>1, <2>3 DEF CheckInv, Undisturbed
    <3>2. r' = r
      BY <2>3, AfterRefusal DEF AutoSave, Apply3Way
    <3>3. work' = work
      BY <2>1, <2>3, WhoWrites DEF Apply, Apply3Way
    <3>4. Effect' = Effect
      BY <1>o, <3>2 DEF Effect
    <3> QED
      BY <3>1, <3>3, <3>4 DEF Applies, Exists, CreatesFile
  <2> QED
    BY <2>2, <2>3
<1>3. (pc \in Ended /\ opts.check /\ Wanted /\ HasPatch /\ Alone =>
         /\ exit = ExitOK => Applies(Effect, work)
         /\ exit = ExitApplyFailed /\ NoTrouble /\ NoneInside => ~Applies(Effect, work))'
  <2> SUFFICES ASSUME pc' \in Ended, opts.check, Wanted', HasPatch', Alone'
               PROVE  /\ exit' = ExitOK => (Applies(Effect, work))'
                      /\ exit' = ExitApplyFailed /\ NoTrouble' /\ NoneInside' =>
                            ~(Applies(Effect, work))'
    BY <1>o
  <2>1. CASE pc \notin Ended
    BY <2>1, CheckEnds
  <2>2. CASE pc \in Ended
    <3>1. Alone /\ ~OthersEdit /\ ~OthersStage /\ ~OthersCommit
      BY StillAlone
    <3>2. EmitJSON \/ RemoveWorktree \/ RemoveAll \/ Interrupt \/ UNCHANGED vars
      BY <2>2, <3>1, StepsAtEnd DEF Others
    <3>3. UNCHANGED <<opts, work, files, r, exit, seen>>
      BY <3>2 DEF EmitJSON, RemoveWorktree, RemoveAll, Interrupt, vars, origin, env
    <3>4. /\ Effect' = Effect /\ (Applies(Effect, work))' = Applies(Effect, work)
          /\ HasPatch /\ Wanted /\ NoneInside' = NoneInside
      BY <3>3 DEF Effect, Applies, Exists, CreatesFile, HasPatch, Wanted, NoneInside, Inside
    <3>5. NoTrouble' => NoTrouble
      BY StillWell
    <3> QED
      BY <2>2, <3>1, <3>3, <3>4, <3>5 DEF CheckInv
  <2> QED
    BY <2>1, <2>2
<1> QED
  BY <1>1, <1>2, <1>3 DEF CheckInv

LEMMA CheckHolds == Spec => []CheckInv
<1>1. Init => CheckInv
  <2> SUFFICES ASSUME Init PROVE CheckInv
    OBVIOUS
  <2>1. pc = "resolve" /\ ~r.applied
    BY DEF Init
  <2> QED
    BY <2>1 DEF CheckInv, Ended
<1>2. /\ TypeOK /\ TypeOK' /\ Troubles /\ GateInv /\ DeliveryInv /\ DriftInv /\ CheckInv
      /\ [Next]_vars
      => CheckInv'
  BY CheckKeeps
<1> QED
  BY <1>1, <1>2, TypeCorrect, TroublesHold, GateHolds, DeliveryHolds, DriftHolds,
     PTL DEF Spec

\* A run with --check applies nothing, whatever else it was asked for; with
\* nobody else about it leaves the tree as it was and its exit code tells whether
\* the patch applies.
THEOREM CheckTells == Spec => []CheckForetells
<1>1. AloneInv /\ CheckInv => CheckForetells
  BY DEF AloneInv, Aligned, CheckInv, CheckForetells, NoneInside
<1> QED
  BY <1>1, AloneHolds, CheckHolds, PTL

-----------------------------------------------------------------------------
(* The JSON report.                                                        *)

Reported == {"cleanup", "removeAll", "done"}

\* What the report says is what the run still holds.
ReportInv ==
    out.json.emitted =>
        /\ pc \in Reported
        /\ out.json.applied = r.applied /\ out.json.kept = Keeps /\ out.json.exit = exit
        /\ out.json.saved # "" => out.json.saved \in files

\* Once the report is out, only the cleanup goes on.
LEMMA ReportStays ==
    ASSUME [Next]_vars, pc \in Reported
    PROVE  pc' \in Reported /\ Keeps' = Keeps /\ UNCHANGED <<r, exit, out, files>>
<1>1. pc \in Ended /\ pc # "emit"
  BY DEF Reported, Ended
<1>2. RemoveWorktree \/ RemoveAll \/ Others \/ UNCHANGED vars
  BY <1>1, StepsAtEnd DEF EmitJSON
<1>3. CASE RemoveWorktree \/ RemoveAll
  BY <1>3 DEF RemoveWorktree, RemoveAll, Goto, Reported, origin, env, Keeps
<1>4. CASE Others
  BY <1>4 DEF Others, OthersEdit, OthersStage, OthersCommit, Interrupt, origin, Keeps
<1>5. CASE UNCHANGED vars
  BY <1>5 DEF vars, Keeps
<1> QED
  BY <1>2, <1>3, <1>4, <1>5

LEMMA ReportKeeps == ASSUME TypeOK, DeliveryInv, ReportInv, [Next]_vars PROVE ReportInv'
<1> USE DEF Goto
<1>1. CASE EmitJSON
  <2>1. pc = "emit" /\ pc' = "cleanup" /\ UNCHANGED <<r, opts, files, exit>>
    BY <1>1 DEF EmitJSON, origin, env
  <2>2. ~out.json.emitted
    BY <2>1 DEF ReportInv, Reported
  <2>3. CASE ~opts.json
    <3>1. out' = out
      BY <1>1, <2>3 DEF EmitJSON
    <3> QED
      BY <2>2, <3>1 DEF ReportInv
  <2>4. CASE opts.json
    <3>1. out'.json = [emitted |-> TRUE, applied |-> r.applied,
                       kept |-> r.keep \/ opts.keep,
                       saved |-> r.savedPath, exit |-> exit]
      BY <1>1, <2>4 DEF EmitJSON, TypeOK, Outputs
    <3>2. /\ out'.json.applied = r'.applied /\ out'.json.saved = r'.savedPath
          /\ out'.json.kept = Keeps' /\ out'.json.exit = exit'
      BY <2>1, <3>1 DEF Keeps
    <3>3. r'.savedPath # "" => r'.savedPath \in files'
      BY <2>1 DEF DeliveryInv
    <3> QED
      BY <2>1, <3>2, <3>3 DEF ReportInv, Reported
  <2> QED
    BY <2>3, <2>4
<1>2. CASE ReadStatus \/ Apply \/ Apply3Way
  <2>1. out' = out /\ pc \notin Reported
    BY <1>2 DEF ReadStatus, Apply, Apply3Way, env, Reported
  <2> QED
    BY <2>1 DEF ReportInv
<1>3. CASE Modest
  <2> SUFFICES ASSUME out'.json.emitted
               PROVE  /\ pc' \in Reported
                      /\ out'.json.applied = r'.applied /\ out'.json.kept = Keeps'
                      /\ out'.json.exit = exit'
                      /\ out'.json.saved # "" => out'.json.saved \in files'
    BY DEF ReportInv
  <2>1. out'.json = out.json
    BY <1>3 DEF Modest
  <2>2. /\ pc \in Reported
        /\ out.json.applied = r.applied /\ out.json.kept = Keeps /\ out.json.exit = exit
        /\ out.json.saved # "" => out.json.saved \in files
    BY <2>1 DEF ReportInv
  <2>3. pc' \in Reported /\ Keeps' = Keeps /\ UNCHANGED <<r, exit, files>>
    BY <2>2, ReportStays
  <2> QED
    BY <2>1, <2>2, <2>3
<1> QED
  BY <1>1, <1>2, <1>3, OthersAreModest

LEMMA ReportInvHolds == Spec => []ReportInv
<1>1. Init => ReportInv
  <2> SUFFICES ASSUME Init PROVE ReportInv
    OBVIOUS
  <2>1. out = [printed |-> FALSE, json |-> NoJSON]
    BY DEF Init
  <2>2. ~out.json.emitted
    BY <2>1 DEF NoJSON
  <2> QED
    BY <2>2 DEF ReportInv
<1>2. TypeOK /\ DeliveryInv /\ ReportInv /\ [Next]_vars => ReportInv'
  BY ReportKeeps
<1> QED
  BY <1>1, <1>2, TypeCorrect, DeliveryHolds, PTL DEF Spec

\* What the report says before the cleanup still holds after it, faults and
\* signals included: the saved patch is there, the worktree is kept, or gone
\* unless two things went wrong, and with nobody else about the tree carries the
\* whole patch or, as far as the exit code promises it, nothing of it.
THEOREM ReportIsTrue == Spec => []ReportHolds
<1>1. TypeOK /\ KeepInv /\ CleanInv /\ AloneInv /\ ReportInv => ReportHolds
  <2> SUFFICES ASSUME TypeOK, KeepInv, CleanInv, AloneInv, ReportInv,
                      pc = "done", out.json.emitted
               PROVE  /\ out.json.saved # "" => out.json.saved \in files
                      /\ IF out.json.kept THEN r.baselineRef # EmptyTree => worktree.dir
                         ELSE worktree.dir => Two
                      /\ Alone => TreeIsAsReported(out.json.applied, out.json.exit)
    BY DEF ReportHolds, Two
  <2>1. /\ out.json.applied = r.applied /\ out.json.kept = Keeps /\ out.json.exit = exit
        /\ out.json.saved # "" => out.json.saved \in files
    BY DEF ReportInv
  <2>2. CASE Keeps
    <3>1. r.baselineRef # EmptyTree => worktree.dir
      BY <2>2 DEF KeepInv, Here, Ended
    <3> QED
      BY <2>1, <2>2, <3>1 DEF AloneInv, Aligned, Ended
  <2>3. CASE ~Keeps
    <3>1. worktree.dir => Two
      BY <2>3 DEF CleanInv, Gone
    <3> QED
      BY <2>1, <2>3, <3>1 DEF AloneInv, Aligned, Ended
  <2> QED
    BY <2>2, <2>3
<1> QED
  BY <1>1, TypeCorrect, KeepHolds, CleanHolds, AloneHolds, ReportInvHolds, PTL
=============================================================================
