----------------------------- MODULE GateProofs -----------------------------
(***************************************************************************)
(* To the repository a run is a PatchGate: for every repository, every set *)
(* of options, every fault and whatever others do meanwhile.               *)
(***************************************************************************)
EXTENDS RunnerProofs

Early == {"resolve", "head"}
Running == {"status", "confirmDirty", "setup", "replayTracked", "listUntracked",
            "copyUntracked", "policy", "confirmPTY", "child", "execs", "exec",
            "snapshot", "capture"}
Proposed == {"menu", "askPath", "menuSave", "save", "stdout", "fallback",
             "driftStatus", "driftHead", "drifted"}
Gated == {"driftStatus", "driftHead", "drifted"} \cup Vetted

\* Nobody comes to the gate whose patch is not wanted, nobody passes it who only
\* checks, and until it is captured there is no patch.
GateInv ==
    /\ pc \in Gated => Wanted
    /\ pc \in {"apply", "threeWay"} => ~opts.check
    /\ pc \in Early \cup Running => PatchIsEmpty(r.patchBytes)

GateStep == Gate!Next \/ UNCHANGED Gate!gateVars

LEMMA PhaseIs ==
    /\ pc \in Early => GatePhase = "idle"
    /\ pc \in Running => GatePhase = "running"
    /\ pc \in Proposed => GatePhase = "proposed"
    /\ pc \in Vetted => GatePhase = "vetted"
    /\ pc \in Ended => GatePhase = "closed"
BY DEF GatePhase, Early, Running, Proposed, Vetted, Ended

LEMMA PhaseWillBe ==
    /\ pc' \in Early => GatePhase' = "idle"
    /\ pc' \in Running => GatePhase' = "running"
    /\ pc' \in Proposed => GatePhase' = "proposed"
    /\ pc' \in Vetted => GatePhase' = "vetted"
    /\ pc' \in Ended => GatePhase' = "closed"
    /\ pc' = pc => GatePhase' = GatePhase
BY DEF GatePhase, Early, Running, Proposed, Vetted, Ended

\* The gate's trees and hunks are the runner's.
LEMMA SameData == Gate!Trees = Trees /\ Gate!Hunk = Hunk
BY DEF Gate!Trees, Gate!Hunk, Gate!Contents, Trees, Hunk, Contents

-----------------------------------------------------------------------------
(* Steps that the repository takes no notice of.                           *)

SameToGate ==
    /\ UNCHANGED <<commits, work, opts>> /\ seen'.asked = seen.asked
    /\ r'.originalHead = r.originalHead /\ r'.patchBytes = r.patchBytes

SamePhase ==
    \/ pc' = pc
    \/ pc \in Early /\ pc' \in Early
    \/ pc \in Running /\ pc' \in Running
    \/ pc \in Proposed /\ pc' \in Proposed
    \/ pc \in Vetted /\ pc' \in Vetted

\* Such a step stutters, or closes the gate.
LEMMA Unnoticed ==
    ASSUME TypeOK, GateInv, SameToGate, SamePhase \/ pc' \in Ended,
           pc' \in Gated => pc \in Gated \/ opts.apply,
           pc' \in {"apply", "threeWay"} => pc' = pc \/ ~opts.check
    PROVE  GateInv' /\ GateStep
<1>1. Effect' = Effect
  BY DEF SameToGate, Effect
<1>2. GateInv'
  <2>1. pc' \in Early \cup Running => pc \in Early \cup Running
    BY DEF SamePhase, Early, Running, Proposed, Vetted, Ended
  <2>2. Wanted' = Wanted
    BY DEF SameToGate, Wanted
  <2> QED
    BY <2>1, <2>2 DEF GateInv, SameToGate, PatchIsEmpty, Wanted
<1>3. CASE SamePhase
  <2>1. GatePhase' = GatePhase
    BY <1>3, PhaseIs, PhaseWillBe DEF SamePhase
  <2> QED
    BY <1>1, <1>2, <2>1 DEF GateStep, Gate!gateVars, SameToGate
<1>4. CASE pc' \in Ended
  <2>1. GatePhase' = "closed"
    BY <1>4, PhaseWillBe
  <2>2. CASE GatePhase = "closed"
    BY <1>1, <1>2, <2>1, <2>2 DEF GateStep, Gate!gateVars, SameToGate
  <2>3. CASE GatePhase # "closed"
    <3>1. Gate!Close
      BY <1>1, <2>1, <2>3 DEF Gate!Close, SameToGate
    <3> QED
      BY <1>2, <3>1 DEF GateStep, Gate!Next
  <2> QED
    BY <2>2, <2>3
<1> QED
  BY <1>3, <1>4

\* What git apply writes, all of it or some of its files.
LEMMA WriteFollows ==
    ASSUME TypeOK, Applies(Effect, work), NEW ps,
           \A c \in Cells : work'[c] # work[c] =>
               work'[c] = ApplyTo(Effect, work, ps)[c]
    PROVE  \A c \in Cells : work'[c] # work[c] => Gate!FollowsPatch(c)
<1> SUFFICES ASSUME NEW c \in Cells, work'[c] # work[c]
             PROVE  Gate!FollowsPatch(c)
  OBVIOUS
<1>1. work'[c] = IF c \in DOMAIN Effect /\ PathOf[c] \in ps
                 THEN Effect[c].new ELSE work[c]
  BY DEF ApplyTo
<1>2. c \in DOMAIN Effect /\ work'[c] = Effect[c].new
  BY <1>1
<1>3. work[c] = Effect[c].old
  BY <1>2 DEF Applies
<1> QED
  BY <1>2, <1>3 DEF Gate!FollowsPatch

\* What git apply --3way writes: a merge into the files it found or brought back,
\* all of it or some of its files.
LEMMA MergeFollows ==
    ASSUME TypeOK, NEW ps \in SUBSET Patched,
           \A c \in Cells : work'[c] \in
               {work[c], Restored(ps)[c], Merge3(Effect, Restored(ps))[c]}
    PROVE  \A c \in Cells : work'[c] # work[c] => Gate!FollowsPatch(c) \/ Gate!BringsBack(c)
<1> SUFFICES ASSUME NEW c \in Cells, work'[c] # work[c]
             PROVE  Gate!FollowsPatch(c) \/ Gate!BringsBack(c)
  OBVIOUS
<1>1. CASE PathOf[c] \in ps /\ ~Exists(work, PathOf[c])
  <2>1. \E d \in DOMAIN Effect : PathOf[d] = PathOf[c]
    BY <1>1 DEF Patched
  <2> QED
    BY <1>1, <2>1 DEF Gate!BringsBack, Gate!Exists, Gate!CellsOf, Exists, CellsOf
<1>2. CASE ~(PathOf[c] \in ps /\ ~Exists(work, PathOf[c]))
  <2>1. Restored(ps)[c] = work[c]
    BY <1>2 DEF Restored
  <2>2. work'[c] = Merge3(Effect, Restored(ps))[c]
    BY <2>1
  <2>3. work'[c] =
          IF c \notin DOMAIN Effect \/ Restored(ps)[c] = Effect[c].new THEN Restored(ps)[c]
          ELSE IF Restored(ps)[c] = Effect[c].old THEN Effect[c].new
          ELSE Conflict
    BY <2>2 DEF Merge3
  <2>4. c \in DOMAIN Effect /\ (\/ work[c] = Effect[c].old /\ work'[c] = Effect[c].new
                               \/ work'[c] = Conflict)
    BY <2>1, <2>3
  <2> QED
    BY <2>4 DEF Gate!FollowsPatch
<1> QED
  BY <1>1, <1>2

\* A step of git apply, which ends the run: a write, or nothing.
LEMMA WriteStep ==
    ASSUME TypeOK, TypeOK', GateInv, pc \in {"apply", "threeWay"}, pc' = "emit",
           UNCHANGED <<commits, opts, seen>>,
           r'.originalHead = r.originalHead, r'.patchBytes = r.patchBytes,
           \A c \in Cells : work'[c] # work[c] => Gate!FollowsPatch(c) \/ Gate!BringsBack(c)
    PROVE  GateInv' /\ GateStep
<1>1. GateInv'
  BY DEF GateInv, Gated, Vetted, Early, Running
<1>2. GatePhase = "vetted" /\ GatePhase' = "closed"
  BY PhaseIs, PhaseWillBe DEF Vetted, Ended
<1>3. (opts.apply \/ "apply" \in seen.asked) /\ ~opts.check
  BY DEF GateInv, Gated, Vetted, Wanted
<1>4. work' \in Trees
  BY DEF TypeOK
<1>5. Effect' = Effect
  BY DEF Effect
<1>6. Gate!Write
  BY <1>2, <1>3, <1>4, <1>5, SameData DEF Gate!Write
<1> QED
  BY <1>1, <1>6 DEF GateStep, Gate!Next

-----------------------------------------------------------------------------
LEMMA GateBegins == Init => GateInv /\ Gate!Init
<1> SUFFICES ASSUME Init PROVE GateInv /\ Gate!Init
  OBVIOUS
<1>1. TypeOK
  BY InitType
<1>2. pc = "resolve" /\ r.originalHead = 0
  BY DEF Init
<1>3. r.patchBytes = Diff(EmptyTree, EmptyTree)
  BY DEF Init
<1>4. DOMAIN r.patchBytes = {}
  <2>1. Mentioned(EmptyTree, EmptyTree) = {}
    BY DEF Mentioned
  <2> QED
    BY <1>3, <2>1 DEF Diff
<1>5. DOMAIN Effect = {}
  BY <1>4 DEF Effect, Reversed
<1>6. GateInv
  BY <1>2, <1>4 DEF GateInv, Gated, Vetted, PatchIsEmpty
<1>7. commits \in Seq(Trees) /\ work \in Trees
  BY <1>1 DEF TypeOK
<1>8. ((opts.apply \/ "apply" \in seen.asked) /\ ~opts.check) \in BOOLEAN
  OBVIOUS
<1>9. GatePhase = "idle"
  BY <1>2, PhaseIs DEF Early
<1> QED
  BY <1>2, <1>5, <1>6, <1>7, <1>8, <1>9, SameData DEF Gate!Init

LEMMA GateKeeps == TypeOK /\ TypeOK' /\ GateInv /\ [Next]_vars => GateInv' /\ GateStep
<1> SUFFICES ASSUME TypeOK, TypeOK', GateInv, [Next]_vars PROVE GateInv' /\ GateStep
  OBVIOUS
<1> USE DEF Goto, Stop
<1>r. r \in RunnerRecords
  BY DEF TypeOK
<1>1. CASE ResolveRepo
  <2>2. SameToGate
    BY <1>1 DEF ResolveRepo, SameToGate, origin, env
  <2>3. SamePhase \/ pc' \in Ended
    BY <1>1 DEF ResolveRepo, SamePhase, Early, Ended
  <2>4. pc' \notin Gated
    BY <1>1 DEF ResolveRepo, Gated, Vetted
  <2> QED
    BY <2>2, <2>3, <2>4, Unnoticed DEF Gated, Vetted
<1>2. CASE ReadHead
  <2>1. CASE pc' = "emit" /\ UNCHANGED r
    <3>1. SameToGate
      BY <1>2, <2>1 DEF ReadHead, SameToGate, origin, env
    <3> QED
      BY <2>1, <3>1, Unnoticed DEF Ended, Gated, Vetted
  <2>2. CASE pc' = "status" /\ r' = [r EXCEPT !.originalHead = Len(commits)]
    <3>1. r'.originalHead = Len(commits) /\ r'.patchBytes = r.patchBytes
      BY <1>r, <2>2 DEF RunnerRecords
    <3>2. UNCHANGED <<commits, work, opts, seen>>
      BY <1>2 DEF ReadHead, origin, env
    <3>3. Effect' = Effect
      BY <3>1, <3>2 DEF Effect
    <3>4. GatePhase = "idle" /\ GatePhase' = "running"
      BY <1>2, <2>2, PhaseIs, PhaseWillBe DEF ReadHead, Early, Running
    <3>5. Gate!Begin
      BY <3>1, <3>2, <3>3, <3>4 DEF Gate!Begin
    <3>6. GateInv'
      BY <1>2, <2>2, <3>1, <3>2 DEF ReadHead, GateInv, Gated, Vetted, Early, PatchIsEmpty
    <3> QED
      BY <3>5, <3>6 DEF GateStep, Gate!Next
  <2> QED
    BY <1>2, <2>1, <2>2 DEF ReadHead
<1>3. CASE ReadStatus
  <2>1. r'.originalHead = r.originalHead /\ r'.patchBytes = r.patchBytes
    BY <1>3, <1>r DEF ReadStatus, DirtyPolicy, RunnerRecords
  <2>2. SameToGate
    BY <1>3, <2>1 DEF ReadStatus, DirtyPolicy, SameToGate, origin, env
  <2>3. SamePhase \/ pc' \in Ended
    BY <1>3 DEF ReadStatus, DirtyPolicy, SamePhase, Running, Ended
  <2>4. pc' \notin Gated
    BY <1>3 DEF ReadStatus, DirtyPolicy, Gated, Vetted
  <2> QED
    BY <2>2, <2>3, <2>4, Unnoticed DEF Gated, Vetted
<1>4. CASE ConfirmDirty
  <2>2. SameToGate
    BY <1>4 DEF ConfirmDirty, SameToGate, origin, env
  <2>3. SamePhase \/ pc' \in Ended
    BY <1>4 DEF ConfirmDirty, SamePhase, Running, Ended
  <2>4. pc' \notin Gated
    BY <1>4 DEF ConfirmDirty, Gated, Vetted
  <2> QED
    BY <2>2, <2>3, <2>4, Unnoticed DEF Gated, Vetted
<1>5. CASE SetupWorktree
  <2>1. r'.originalHead = r.originalHead /\ r'.patchBytes = r.patchBytes
    BY <1>5, <1>r DEF SetupWorktree, RunnerRecords
  <2>2. SameToGate
    BY <1>5, <2>1 DEF SetupWorktree, SameToGate, origin, env
  <2>3. SamePhase \/ pc' \in Ended
    BY <1>5 DEF SetupWorktree, SamePhase, Running, Ended
  <2>4. pc' \notin Gated
    BY <1>5 DEF SetupWorktree, Gated, Vetted
  <2> QED
    BY <2>2, <2>3, <2>4, Unnoticed DEF Gated, Vetted
<1>6. CASE ReplayTracked
  <2>2. SameToGate
    BY <1>6 DEF ReplayTracked, SameToGate, origin, env
  <2>3. SamePhase \/ pc' \in Ended
    BY <1>6 DEF ReplayTracked, SamePhase, Running, Ended
  <2>4. pc' \notin Gated
    BY <1>6 DEF ReplayTracked, Gated, Vetted
  <2> QED
    BY <2>2, <2>3, <2>4, Unnoticed DEF Gated, Vetted
<1>7. CASE ListUntracked
  <2>1. r'.originalHead = r.originalHead /\ r'.patchBytes = r.patchBytes
    BY <1>7, <1>r DEF ListUntracked, RunnerRecords
  <2>2. SameToGate
    BY <1>7, <2>1 DEF ListUntracked, SameToGate, origin, env
  <2>3. SamePhase \/ pc' \in Ended
    BY <1>7 DEF ListUntracked, SamePhase, Running, Ended
  <2>4. pc' \notin Gated
    BY <1>7 DEF ListUntracked, Gated, Vetted
  <2> QED
    BY <2>2, <2>3, <2>4, Unnoticed DEF Gated, Vetted
<1>8. CASE CopyUntracked
  <2>1. r'.originalHead = r.originalHead /\ r'.patchBytes = r.patchBytes
    BY <1>8, <1>r DEF CopyUntracked, RunnerRecords
  <2>2. SameToGate
    BY <1>8, <2>1 DEF CopyUntracked, SameToGate, origin, env
  <2>3. SamePhase \/ pc' \in Ended
    BY <1>8 DEF CopyUntracked, SamePhase, Running, Ended
  <2>4. pc' \notin Gated
    BY <1>8 DEF CopyUntracked, Gated, Vetted
  <2> QED
    BY <2>2, <2>3, <2>4, Unnoticed DEF Gated, Vetted
<1>9. CASE CommitBaseline
  <2>1. r'.originalHead = r.originalHead /\ r'.patchBytes = r.patchBytes
    BY <1>9, <1>r DEF CommitBaseline, RunnerRecords
  <2>2. SameToGate
    BY <1>9, <2>1 DEF CommitBaseline, SameToGate, origin, env
  <2>3. SamePhase \/ pc' \in Ended
    BY <1>9 DEF CommitBaseline, SamePhase, Running, Ended
  <2>4. pc' \notin Gated
    BY <1>9 DEF CommitBaseline, Gated, Vetted
  <2> QED
    BY <2>2, <2>3, <2>4, Unnoticed DEF Gated, Vetted
<1>10. CASE RunChildCommand
  <2>1. r'.originalHead = r.originalHead /\ r'.patchBytes = r.patchBytes
    BY <1>10, <1>r DEF RunChildCommand, Start, RunnerRecords
  <2>2. SameToGate
    BY <1>10, <2>1 DEF RunChildCommand, Start, SameToGate, origin, env
  <2>3. SamePhase \/ pc' \in Ended
    BY <1>10 DEF RunChildCommand, Start, SamePhase, Running, Ended
  <2>4. pc' \notin Gated
    BY <1>10 DEF RunChildCommand, Start, Gated, Vetted
  <2> QED
    BY <2>2, <2>3, <2>4, Unnoticed DEF Gated, Vetted
<1>11. CASE ConfirmPTY
  <2>1. r'.originalHead = r.originalHead /\ r'.patchBytes = r.patchBytes
    BY <1>11, <1>r DEF ConfirmPTY, Start, RunnerRecords
  <2>2. SameToGate
    BY <1>11, <2>1 DEF ConfirmPTY, Start, SameToGate, origin, env
  <2>3. SamePhase \/ pc' \in Ended
    BY <1>11 DEF ConfirmPTY, Start, SamePhase, Running, Ended
  <2>4. pc' \notin Gated
    BY <1>11 DEF ConfirmPTY, Start, Gated, Vetted
  <2> QED
    BY <2>2, <2>3, <2>4, Unnoticed DEF Gated, Vetted
<1>12. CASE CommandWrites
  <2>1. SameToGate /\ pc' = pc
    BY <1>12, <1>r DEF CommandWrites, SameToGate, origin, TypeOK, Histories
  <2> QED
    BY <2>1, Unnoticed DEF SamePhase
<1>13. CASE ChildExits
  <2>1. r'.originalHead = r.originalHead /\ r'.patchBytes = r.patchBytes
    BY <1>13, <1>r DEF ChildExits, RunnerRecords
  <2>2. SameToGate
    BY <1>13, <2>1 DEF ChildExits, SameToGate, origin, env
  <2>3. SamePhase \/ pc' \in Ended
    BY <1>13 DEF ChildExits, SamePhase, Running, Ended
  <2>4. pc' \notin Gated
    BY <1>13 DEF ChildExits, Gated, Vetted
  <2> QED
    BY <2>2, <2>3, <2>4, Unnoticed DEF Gated, Vetted
<1>14. CASE ExecExits
  <2>1. r'.originalHead = r.originalHead /\ r'.patchBytes = r.patchBytes
    BY <1>14, <1>r DEF ExecExits, RunnerRecords
  <2>2. SameToGate
    BY <1>14, <2>1 DEF ExecExits, SameToGate, origin, env
  <2>3. SamePhase \/ pc' \in Ended
    BY <1>14 DEF ExecExits, SamePhase, Running, Ended
  <2>4. pc' \notin Gated
    BY <1>14 DEF ExecExits, Gated, Vetted
  <2> QED
    BY <2>2, <2>3, <2>4, Unnoticed DEF Gated, Vetted
<1>15. CASE KillCommand
  <2>1. r'.originalHead = r.originalHead /\ r'.patchBytes = r.patchBytes
    BY <1>15, <1>r DEF KillCommand, RunnerRecords
  <2>2. SameToGate
    BY <1>15, <2>1 DEF KillCommand, SameToGate, origin, env
  <2>3. SamePhase \/ pc' \in Ended
    BY <1>15 DEF KillCommand, SamePhase, Running, Ended
  <2>4. pc' \notin Gated
    BY <1>15 DEF KillCommand, Gated, Vetted
  <2> QED
    BY <2>2, <2>3, <2>4, Unnoticed DEF Gated, Vetted
<1>16. CASE RunExecCommands
  <2>1. r'.originalHead = r.originalHead /\ r'.patchBytes = r.patchBytes
    BY <1>16, <1>r DEF RunExecCommands, RunnerRecords
  <2>2. SameToGate
    BY <1>16, <2>1 DEF RunExecCommands, SameToGate, origin, env
  <2>3. SamePhase \/ pc' \in Ended
    BY <1>16 DEF RunExecCommands, SamePhase, Running, Ended
  <2>4. pc' \notin Gated
    BY <1>16 DEF RunExecCommands, Gated, Vetted
  <2> QED
    BY <2>2, <2>3, <2>4, Unnoticed DEF Gated, Vetted
<1>17. CASE WriteSnapshot
  <2>2. SameToGate
    BY <1>17 DEF WriteSnapshot, SameToGate, origin, env
  <2>3. SamePhase \/ pc' \in Ended
    BY <1>17 DEF WriteSnapshot, SamePhase, Running, Ended
  <2>4. pc' \notin Gated
    BY <1>17 DEF WriteSnapshot, Gated, Vetted
  <2> QED
    BY <2>2, <2>3, <2>4, Unnoticed DEF Gated, Vetted
<1>18. CASE CapturePatch
  <2>1. UNCHANGED <<commits, work, opts, seen>> /\ pc = "capture"
    BY <1>18 DEF CapturePatch, origin, env
  <2>2. CASE UNCHANGED r /\ pc' = "emit"
    <3>1. SameToGate
      BY <2>1, <2>2 DEF SameToGate
    <3> QED
      BY <2>2, <3>1, Unnoticed DEF Ended, Gated, Vetted
  <2>3. CASE r' = [r EXCEPT !.patchBytes = CapturedPatch]
    <3>1. r'.originalHead = r.originalHead /\ r'.patchBytes = CapturedPatch
      BY <1>r, <2>3 DEF RunnerRecords
    <3>2. GateInv'
      BY <1>18 DEF CapturePatch, GateInv, Gated, Vetted, Early, Running
    <3>3. CASE PatchIsEmpty(CapturedPatch)
      <4>1. pc' = "emit"
        BY <1>18, <2>3, <3>3 DEF CapturePatch
      <4>2. PatchIsEmpty(r.patchBytes)
        BY <2>1 DEF GateInv, Running
      <4>3. r.patchBytes \in Patches /\ r'.patchBytes \in Patches
        BY <1>r DEF TypeOK, RunnerRecords
      <4>4. r'.patchBytes = r.patchBytes
        <5>1. r.patchBytes \in [{} -> Hunk] /\ r'.patchBytes \in [{} -> Hunk]
          BY <3>1, <3>3, <4>2, <4>3, PatchShape DEF PatchIsEmpty
        <5> QED
          BY <5>1
      <4>5. SameToGate
        BY <2>1, <3>1, <4>4 DEF SameToGate
      <4> QED
        BY <4>1, <4>5, Unnoticed DEF Ended, Gated, Vetted
    <3>4. CASE ~PatchIsEmpty(CapturedPatch)
      <4>1. pc' \in {"menu", "save", "emit"}
        BY <1>18 DEF CapturePatch
      <4>2. CASE pc' = "emit"
        <5>1. UNCHANGED r
          BY <1>18, <3>4, <4>2 DEF CapturePatch
        <5>2. SameToGate
          BY <2>1, <5>1 DEF SameToGate
        <5> QED
          BY <4>2, <5>2, Unnoticed DEF Ended, Gated, Vetted
      <4>3. CASE pc' \in {"menu", "save"}
        <5>1. GatePhase = "running" /\ GatePhase' = "proposed"
          BY <2>1, <4>3, PhaseIs, PhaseWillBe DEF Running, Proposed
        <5>2. r'.patchBytes \in Patches
          BY DEF TypeOK, RunnerRecords
        <5>3. Gate!IsPatch(Effect')
          <6>1. Effect' \in Patches
            BY <5>2, ReversedType DEF Effect
          <6>2. DOMAIN Effect' \subseteq Cells /\ Effect' \in [DOMAIN Effect' -> Hunk]
            BY <6>1, PatchShape
          <6> QED
            BY <6>2, SameData DEF Gate!IsPatch
        <5>4. Gate!Propose
          BY <2>1, <3>1, <5>1, <5>3 DEF Gate!Propose
        <5> QED
          BY <3>2, <5>4 DEF GateStep, Gate!Next
      <4> QED
        BY <4>1, <4>2, <4>3
    <3> QED
      BY <3>3, <3>4
  <2> QED
    BY <1>18, <2>2, <2>3 DEF CapturePatch
<1>19. CASE SaveRequested
  <2>1. r'.originalHead = r.originalHead /\ r'.patchBytes = r.patchBytes
    BY <1>19, <1>r DEF SaveRequested, SaveTo, SaveFails, RunnerRecords
  <2>2. SameToGate
    BY <1>19, <2>1 DEF SaveRequested, SameToGate, origin, env
  <2>3. SamePhase \/ pc' \in Ended
    BY <1>19 DEF SaveRequested, SamePhase, Proposed, Ended
  <2>4. pc' \notin Gated
    BY <1>19 DEF SaveRequested, Gated, Vetted
  <2> QED
    BY <2>2, <2>3, <2>4, Unnoticed DEF Gated, Vetted
<1>20. CASE WriteStdout
  <2>2. SameToGate
    BY <1>20 DEF WriteStdout, SameToGate, origin, env
  <2>3. SamePhase \/ pc' \in Ended
    BY <1>20 DEF WriteStdout, SamePhase, Proposed, Ended
  <2>4. (pc' \in Gated => opts.apply) /\ pc' \notin {"apply", "threeWay"}
    BY <1>20 DEF WriteStdout, Gated, Vetted
  <2> QED
    BY <2>2, <2>3, <2>4, Unnoticed
<1>21. CASE DefaultSave
  <2>1. r'.originalHead = r.originalHead /\ r'.patchBytes = r.patchBytes
    BY <1>21, <1>r DEF DefaultSave, SaveTo, SaveFails, RunnerRecords
  <2>2. SameToGate
    BY <1>21, <2>1 DEF DefaultSave, SameToGate, origin, env
  <2>3. SamePhase \/ pc' \in Ended
    BY <1>21 DEF DefaultSave, SamePhase, Proposed, Ended
  <2>4. pc' \notin Gated
    BY <1>21 DEF DefaultSave, Gated, Vetted
  <2> QED
    BY <2>2, <2>3, <2>4, Unnoticed DEF Gated, Vetted
<1>22. CASE AskMenu
  <2>1. UNCHANGED <<commits, work, opts>> /\ pc = "menu"
    BY <1>22 DEF AskMenu, origin
  <2>2. CASE UNCHANGED <<r, seen>> /\ pc' = "emit"
    <3>1. SameToGate
      BY <2>1, <2>2 DEF SameToGate
    <3> QED
      BY <2>2, <3>1, Unnoticed DEF Ended, Gated, Vetted
  <2>3. ASSUME NEW a \in Answers,
               seen' = [seen EXCEPT !.asked = @ \cup {a}],
               r' = [r EXCEPT !.keep = @ \/ a = "keep"],
               a = "apply" => pc' = "driftStatus",
               a # "apply" => pc' \in {"askPath", "emit", "menu"}
        PROVE  GateInv' /\ GateStep
    <3>1. r'.originalHead = r.originalHead /\ r'.patchBytes = r.patchBytes
      BY <1>r, <2>3 DEF RunnerRecords
    <3>2. seen'.asked = seen.asked \cup {a}
      BY <2>3 DEF TypeOK, Histories
    <3>3. Effect' = Effect
      BY <2>1, <3>1 DEF Effect
    <3>4. GateInv'
      BY <2>1, <2>3, <3>2 DEF GateInv, Gated, Vetted, Early, Running, Wanted
    <3>5. GatePhase = "proposed"
      BY <2>1, PhaseIs DEF Proposed
    <3>6. CASE a = "apply"
      <4>1. GatePhase' = "proposed"
        BY <2>3, <3>6, PhaseWillBe DEF Proposed
      <4>2. CASE opts.check
        <5>1. UNCHANGED Gate!gateVars
          BY <2>1, <3>1, <3>3, <3>5, <4>1, <4>2 DEF Gate!gateVars
        <5> QED
          BY <3>4, <5>1 DEF GateStep
      <4>3. CASE ~opts.check
        <5>1. ((opts.apply \/ "apply" \in seen.asked) /\ ~opts.check)' = TRUE
          BY <2>1, <3>2, <3>6, <4>3
        <5>2. Gate!Ask
          BY <2>1, <3>1, <3>3, <3>5, <4>1, <5>1 DEF Gate!Ask
        <5> QED
          BY <3>4, <5>2 DEF GateStep, Gate!Next
      <4> QED
        BY <4>2, <4>3
    <3>7. CASE a # "apply"
      <4>1. ("apply" \in seen.asked)' = ("apply" \in seen.asked)
        BY <3>2, <3>7
      <4>2. CASE pc' = "emit"
        <5>1. GatePhase' = "closed"
          BY <4>2, PhaseWillBe DEF Ended
        <5>2. Gate!Close
          BY <2>1, <3>1, <3>3, <3>5, <4>1, <5>1 DEF Gate!Close
        <5> QED
          BY <3>4, <5>2 DEF GateStep, Gate!Next
      <4>3. CASE pc' # "emit"
        <5>1. GatePhase' = "proposed"
          BY <2>3, <3>7, <4>3, PhaseWillBe DEF Proposed
        <5>2. UNCHANGED Gate!gateVars
          BY <2>1, <3>1, <3>3, <3>5, <4>1, <5>1 DEF Gate!gateVars
        <5> QED
          BY <3>4, <5>2 DEF GateStep
      <4> QED
        BY <4>2, <4>3
    <3> QED
      BY <3>6, <3>7
  <2>4. \/ UNCHANGED <<r, seen>> /\ pc' = "emit"
        \/ \E a \in Answers :
              /\ seen' = [seen EXCEPT !.asked = @ \cup {a}]
              /\ r' = [r EXCEPT !.keep = @ \/ a = "keep"]
              /\ a = "apply" => pc' = "driftStatus"
              /\ a # "apply" => pc' \in {"askPath", "emit", "menu"}
    BY <1>22 DEF AskMenu, Answers
  <2> QED
    BY <2>2, <2>3, <2>4
<1>23. CASE AskPath
  <2>1. r'.originalHead = r.originalHead /\ r'.patchBytes = r.patchBytes
    BY <1>23, <1>r DEF AskPath, RunnerRecords
  <2>2. SameToGate
    BY <1>23, <2>1 DEF AskPath, SameToGate, origin, env
  <2>3. SamePhase \/ pc' \in Ended
    BY <1>23 DEF AskPath, SamePhase, Proposed, Ended
  <2>4. pc' \notin Gated
    BY <1>23 DEF AskPath, Gated, Vetted
  <2> QED
    BY <2>2, <2>3, <2>4, Unnoticed DEF Gated, Vetted
<1>24. CASE MenuSave
  <2>1. r'.originalHead = r.originalHead /\ r'.patchBytes = r.patchBytes
    BY <1>24, <1>r DEF MenuSave, SaveTo, SaveFails, RunnerRecords
  <2>2. SameToGate
    BY <1>24, <2>1 DEF MenuSave, SameToGate, origin, env
  <2>3. SamePhase \/ pc' \in Ended
    BY <1>24 DEF MenuSave, SamePhase, Proposed, Ended
  <2>4. pc' \notin Gated
    BY <1>24 DEF MenuSave, Gated, Vetted
  <2> QED
    BY <2>2, <2>3, <2>4, Unnoticed DEF Gated, Vetted
<1>25. CASE DriftStatus
  <2>1. r'.originalHead = r.originalHead /\ r'.patchBytes = r.patchBytes
    BY <1>25, <1>r DEF DriftStatus, RunnerRecords
  <2>2. SameToGate
    BY <1>25, <2>1 DEF DriftStatus, SameToGate, origin, env
  <2>3. SamePhase \/ pc' \in Ended
    BY <1>25 DEF DriftStatus, SamePhase, Proposed, Ended
  <2>4. pc \in Gated /\ pc' \notin {"apply", "threeWay"}
    BY <1>25 DEF DriftStatus, Gated
  <2> QED
    BY <2>2, <2>3, <2>4, Unnoticed
<1>26. CASE DriftHead
  <2>1. SameToGate
    BY <1>26 DEF DriftHead, SameToGate, origin, env
  <2>2. pc = "driftHead" /\ pc \in Gated
    BY <1>26 DEF DriftHead, Gated
  <2>3. CASE pc' \in {"drifted", "emit"}
    <3>1. SamePhase \/ pc' \in Ended
      BY <2>2, <2>3 DEF SamePhase, Proposed, Ended
    <3> QED
      BY <2>1, <2>2, <2>3, <3>1, Unnoticed
  <2>4. CASE pc' = "check" /\ ~Drifted
    <3>1. Len(commits) = r.originalHead
      BY <2>4 DEF Drifted
    <3>2. GatePhase = "proposed" /\ GatePhase' = "vetted"
      BY <2>2, <2>4, PhaseIs, PhaseWillBe DEF Proposed, Vetted
    <3>3. Effect' = Effect
      BY <2>1 DEF SameToGate, Effect
    <3>4. Gate!Vet
      BY <2>1, <3>1, <3>2, <3>3 DEF Gate!Vet, SameToGate
    <3>5. GateInv'
      BY <2>1, <2>2, <2>4 DEF GateInv, SameToGate, Wanted, Early, Running
    <3> QED
      BY <3>4, <3>5 DEF GateStep, Gate!Next
  <2> QED
    BY <1>26, <2>3, <2>4 DEF DriftHead
<1>27. CASE ApplyCheck
  <2>2. SameToGate
    BY <1>27 DEF ApplyCheck, SameToGate, origin, env
  <2>3. SamePhase \/ pc' \in Ended
    BY <1>27 DEF ApplyCheck, SamePhase, Vetted, Ended
  <2>4. pc \in Gated /\ (pc' = "apply" => ~opts.check) /\ pc' # "threeWay"
    BY <1>27 DEF ApplyCheck, Gated, Vetted
  <2> QED
    BY <2>2, <2>3, <2>4, Unnoticed
<1>28. CASE AutoSave
  <2>1. r'.originalHead = r.originalHead /\ r'.patchBytes = r.patchBytes
    BY <1>28, <1>r DEF AutoSave, SaveTo, SaveFails, RunnerRecords
  <2>2. SameToGate
    BY <1>28, <2>1 DEF AutoSave, SameToGate, env
  <2>3. /\ pc \in Gated
        /\ \/ pc = "refused" /\ pc' = "threeWay" /\ ~opts.check
           \/ pc' = "emit"
    BY <1>28 DEF AutoSave, Gated, Vetted
  <2>4. SamePhase \/ pc' \in Ended
    BY <2>3 DEF SamePhase, Vetted, Ended
  <2> QED
    BY <2>2, <2>3, <2>4, Unnoticed
<1>29. CASE Apply
  <2>1. /\ pc = "apply" /\ pc' = "emit" /\ UNCHANGED <<commits, opts, seen>>
        /\ r' = r \/ r' = [r EXCEPT !.applied = TRUE]
    BY <1>29 DEF Apply, Applied, env
  <2>2. r'.originalHead = r.originalHead /\ r'.patchBytes = r.patchBytes
    BY <1>r, <2>1 DEF RunnerRecords
  <2>3. CASE Applies(Effect, work) /\ \E ps \in SUBSET Paths : work' =
              [c \in Cells |-> IF PathOf[c] \in ps
                               THEN ApplyTo(Effect, work, Paths)[c] ELSE work[c]]
    <3>1. \A c \in Cells : work'[c] # work[c] =>
              work'[c] = ApplyTo(Effect, work, Paths)[c]
      BY <2>3
    <3> QED
      BY <2>1, <2>2, <2>3, <3>1, WriteFollows, WriteStep
  <2>4. CASE Applies(Effect, work) /\ work' = ApplyTo(Effect, work, Paths)
    BY <2>1, <2>2, <2>4, WriteFollows, WriteStep
  <2>5. CASE UNCHANGED work
    BY <2>1, <2>2, <2>5, WriteStep
  <2> QED
    BY <1>29, <2>3, <2>4, <2>5 DEF Apply, Applied, PartlyWritten
<1>30. CASE Apply3Way
  <2>1. /\ pc = "threeWay" /\ pc' = "emit" /\ UNCHANGED <<commits, opts, seen>>
        /\ r' = r \/ r' = [r EXCEPT !.applied = TRUE]
    BY <1>30 DEF Apply3Way, Applied, env
  <2>2. r'.originalHead = r.originalHead /\ r'.patchBytes = r.patchBytes
    BY <1>r, <2>1 DEF RunnerRecords
  <2>3. CASE \E ps \in SUBSET Patched : work' = Restored(ps)
    <3>1. PICK ps \in SUBSET Patched : work' = Restored(ps)
      BY <2>3
    <3>2. \A c \in Cells : work'[c] \in
              {work[c], Restored(ps)[c], Merge3(Effect, Restored(ps))[c]}
      BY <3>1
    <3> QED
      BY <2>1, <2>2, <3>2, MergeFollows, WriteStep
  <2>4. CASE \/ work' = Merge3(Effect, Restored(Patched))
             \/ PartlyWritten(Merge3(Effect, Restored(Patched)), Restored(Patched))
    <3>1. \A c \in Cells : work'[c] \in
              {work[c], Restored(Patched)[c], Merge3(Effect, Restored(Patched))[c]}
      BY <2>4 DEF PartlyWritten
    <3> QED
      BY <2>1, <2>2, <3>1, MergeFollows, WriteStep
  <2> QED
    BY <1>30, <2>3, <2>4 DEF Apply3Way, Applied
<1>31. CASE EmitJSON
  <2>2. SameToGate
    BY <1>31 DEF EmitJSON, SameToGate, origin, env
  <2>3. pc' \in Ended
    BY <1>31 DEF EmitJSON, Ended
  <2>4. pc' \notin Gated
    BY <1>31 DEF EmitJSON, Gated, Vetted
  <2> QED
    BY <2>2, <2>3, <2>4, Unnoticed DEF Gated, Vetted
<1>32. CASE RemoveWorktree
  <2>2. SameToGate
    BY <1>32 DEF RemoveWorktree, SameToGate, origin, env
  <2>3. pc' \in Ended
    BY <1>32 DEF RemoveWorktree, Ended
  <2>4. pc' \notin Gated
    BY <1>32 DEF RemoveWorktree, Gated, Vetted
  <2> QED
    BY <2>2, <2>3, <2>4, Unnoticed DEF Gated, Vetted
<1>33. CASE RemoveAll
  <2>2. SameToGate
    BY <1>33 DEF RemoveAll, SameToGate, origin, env
  <2>3. pc' \in Ended
    BY <1>33 DEF RemoveAll, Ended
  <2>4. pc' \notin Gated
    BY <1>33 DEF RemoveAll, Gated, Vetted
  <2> QED
    BY <2>2, <2>3, <2>4, Unnoticed DEF Gated, Vetted
<1>34. CASE OthersEdit
  <2>1. UNCHANGED <<opts, pc, r, commits, seen>>
    BY <1>34 DEF OthersEdit
  <2>2. GateInv'
    BY <2>1 DEF GateInv, Wanted
  <2>3. Effect' = Effect /\ GatePhase' = GatePhase
    BY <2>1, PhaseWillBe DEF Effect
  <2>4. Gate!Others
    BY <2>1, <2>3, SameData DEF Gate!Others, TypeOK
  <2> QED
    BY <2>2, <2>4 DEF GateStep, Gate!Next
<1>35. CASE OthersCommit
  <2>1. UNCHANGED <<opts, pc, r, work>> /\ seen'.asked = seen.asked
    BY <1>35 DEF OthersCommit, TypeOK, Histories
  <2>2. GateInv'
    BY <2>1 DEF GateInv, Wanted
  <2>3. Effect' = Effect /\ GatePhase' = GatePhase
    BY <2>1, PhaseWillBe DEF Effect
  <2>4. index' \in Trees /\ commits' = Append(commits, index')
    BY <1>35, CommitChanges
  <2>5. Gate!Others
    BY <2>1, <2>3, <2>4, SameData DEF Gate!Others, TypeOK
  <2> QED
    BY <2>2, <2>5 DEF GateStep, Gate!Next
<1>36. CASE Interrupt
  <2>1. SameToGate /\ pc' = pc
    BY <1>36, <1>r DEF Interrupt, SameToGate, origin, TypeOK, Histories
  <2> QED
    BY <2>1, Unnoticed DEF SamePhase
<1>37. CASE Exited
  <2>1. SameToGate /\ pc' = pc
    BY <1>37, <1>r DEF Exited, vars, SameToGate, origin, TypeOK, Histories
  <2> QED
    BY <2>1, Unnoticed DEF SamePhase
<1>38. CASE OthersStage
  <2>1. SameToGate /\ pc' = pc
    BY <1>38, StageChanges DEF SameToGate
  <2> QED
    BY <2>1, Unnoticed DEF SamePhase
<1>39. CASE UNCHANGED vars
  <2>1. SameToGate /\ pc' = pc
    BY <1>39, <1>r DEF vars, SameToGate, origin, TypeOK, Histories
  <2> QED
    BY <2>1, Unnoticed DEF SamePhase
<1> QED
  BY <1>1, <1>2, <1>3, <1>4, <1>5, <1>6, <1>7, <1>8, <1>9, <1>10,
     <1>11, <1>12, <1>13, <1>14, <1>15, <1>16, <1>17, <1>18, <1>19, <1>20,
     <1>21, <1>22, <1>23, <1>24, <1>25, <1>26, <1>27, <1>28, <1>29, <1>30,
     <1>31, <1>32, <1>33, <1>34, <1>35, <1>36, <1>37, <1>38, <1>39
  DEF Next, Program, Prompts, CommandEnds, Others

\* Whatever a run does, to the repository it is a PatchGate: it writes at most
\* once, wanted, past a check that HEAD has not moved, and only what its patch
\* says, a conflict mark or a file brought back for the merge; everything else that happens is by others.
THEOREM GateIsKept == Spec => ImplementsGate
<1>1. Init => GateInv /\ Gate!Init
  BY GateBegins
<1>2. TypeOK /\ TypeOK' /\ GateInv /\ [Next]_vars => GateInv'
  BY GateKeeps
<1>3. TypeOK /\ TypeOK' /\ GateInv /\ [Next]_vars => [Gate!Next]_(Gate!gateVars)
  BY GateKeeps DEF GateStep
<1> QED
  BY <1>1, <1>2, <1>3, TypeCorrect, PTL DEF Spec, ImplementsGate, Gate!Spec
=============================================================================
