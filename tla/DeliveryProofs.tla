--------------------------- MODULE DeliveryProofs ---------------------------
(***************************************************************************)
(* Where the patch is when the run has ended, for every repository, every  *)
(* set of options, every fault and whatever others do meanwhile.           *)
(***************************************************************************)
EXTENDS GateProofs

\* The command and its follow-ups are over.
Judged == {"snapshot", "capture"} \cup Proposed \cup Vetted
\* Nobody has been asked what to do with the patch.
Unasked == Early \cup Running \cup {"save", "stdout", "fallback"}

Succeeded ==
    r.cmdResult.exitCode = 0 /\ ~r.cmdResult.timedOut /\ r.execExit = 0

Delivered ==
    IF Wanted THEN r.applied \/ opts.check ELSE r.savedPath \in files \/ out.printed

\* The exit codes that promise a patch which is to be found.
Promises ==
    \/ exit = ExitOK
    \/ exit \in {ExitChildFailed, ExitTimeout} /\ "discard" \notin seen.asked

DeliveryInv ==
    /\ r.savedPath # "" => r.savedPath \in files
    /\ pc \in Judged => (r.cmdResult.exitCode = 0 => r.execExit = 0)
    /\ pc \in Unasked => seen.asked = {}
    /\ pc = "fallback" => ~opts.apply /\ out.printed = opts.stdout
    /\ pc \in Ended /\ HasPatch /\ Promises => Delivered
    /\ pc \in Ended /\ HasPatch /\ exit = ExitOK => Succeeded

SavedIsThere == r'.savedPath # "" => r'.savedPath \in files'
StillJudged ==
    pc' \in Judged =>
        \/ pc \in Judged /\ r'.cmdResult = r.cmdResult /\ r'.execExit = r.execExit
        \/ r'.cmdResult.exitCode = 0 => r'.execExit = 0
StillUnasked == pc' \in Unasked => pc \in Unasked /\ seen'.asked = seen.asked
StillFallback == pc' = "fallback" => pc = "fallback" /\ out' = out /\ opts' = opts

\* A step that promises nothing new.
NoPromise ==
    \/ pc' \notin Ended
    \/ exit' \notin {ExitOK, ExitChildFailed, ExitTimeout}
    \/ exit' # ExitOK /\ "discard" \in seen'.asked
    \/ PatchIsEmpty(r'.patchBytes)
    \/ /\ pc \in Ended /\ exit' = exit /\ r' = r /\ opts' = opts
       /\ seen'.asked = seen.asked /\ files' = files /\ out'.printed = out.printed

LEMMA DeliveryFrame ==
    ASSUME DeliveryInv, SavedIsThere, StillJudged, StillUnasked, StillFallback, NoPromise
    PROVE  DeliveryInv'
<1>1. SavedIsThere /\ (pc' \in Judged => (r'.cmdResult.exitCode = 0 => r'.execExit = 0))
  BY DEF StillJudged, DeliveryInv
<1>2. /\ pc' \in Unasked => seen'.asked = {}
      /\ pc' = "fallback" => ~opts'.apply /\ out'.printed = opts'.stdout
  BY DEF StillUnasked, StillFallback, DeliveryInv
<1>3. ASSUME pc' \in Ended, HasPatch'
      PROVE  /\ Promises' => Delivered'
             /\ (exit = ExitOK)' => Succeeded'
  <2>1. CASE exit' \notin {ExitOK, ExitChildFailed, ExitTimeout}
    BY <2>1 DEF Promises
  <2>2. CASE exit' # ExitOK /\ "discard" \in seen'.asked
    BY <2>2 DEF Promises
  <2>3. CASE /\ pc \in Ended /\ exit' = exit /\ r' = r /\ opts' = opts
             /\ seen'.asked = seen.asked /\ files' = files /\ out'.printed = out.printed
    <3>1. HasPatch
      BY <1>3, <2>3 DEF HasPatch
    <3>2. Wanted' = Wanted
      BY <2>3 DEF Wanted
    <3> QED
      BY <2>3, <3>1, <3>2 DEF DeliveryInv, Promises, Delivered, Succeeded
  <2> QED
    BY <1>3, <2>1, <2>2, <2>3 DEF NoPromise, HasPatch
<1> QED
  BY <1>1, <1>2, <1>3 DEF DeliveryInv, SavedIsThere

LEMMA OutcomeIs ==
    /\ Outcome(ExitOK) \in {ExitOK, ExitChildFailed, ExitTimeout}
    /\ Outcome(ExitOK) = ExitOK => r.cmdResult.exitCode = 0 /\ ~r.cmdResult.timedOut
BY DEF Outcome, ExitOK, ExitChildFailed, ExitTimeout

\* A step that ends the run with its outcome, the patch being delivered.
LEMMA Delivers ==
    ASSUME DeliveryInv, SavedIsThere, pc \in Judged, pc' = "emit",
           exit' = Outcome(ExitOK), r'.cmdResult = r.cmdResult,
           r'.execExit = r.execExit, Delivered'
    PROVE  DeliveryInv'
<1>1. pc' \notin Judged /\ pc' \notin Unasked /\ pc' # "fallback"
  BY DEF Judged, Unasked, Early, Running, Proposed, Vetted
<1>2. (exit = ExitOK)' => Succeeded'
  BY OutcomeIs DEF DeliveryInv, Succeeded
<1> QED
  BY <1>1, <1>2 DEF DeliveryInv, SavedIsThere

\* Steps before the command is over.
LEMMA EarlyStep ==
    ASSUME DeliveryInv, r'.savedPath = r.savedPath, files' = files, seen' = seen,
           pc \in Early \cup Running,
           \/ pc' \in (Early \cup Running) \ Judged
           \/ pc' = "emit" /\ exit' \notin {ExitOK, ExitChildFailed, ExitTimeout}
    PROVE  DeliveryInv'
<1>1. SavedIsThere
  BY DEF SavedIsThere, DeliveryInv
<1>2. pc' \notin Judged
  BY DEF Judged, Proposed, Vetted
<1>3. StillUnasked /\ StillFallback
  BY DEF StillUnasked, StillFallback, Unasked, Early, Running
<1>4. NoPromise
  BY DEF NoPromise, Early, Running, Ended
<1> QED
  BY <1>1, <1>2, <1>3, <1>4, DeliveryFrame DEF StillJudged

\* Steps of others, and of the command.
LEMMA StillStep ==
    ASSUME DeliveryInv, UNCHANGED <<r, files, out, opts, pc, exit>>,
           seen'.asked = seen.asked
    PROVE  DeliveryInv'
<1>1. SavedIsThere /\ StillJudged /\ StillUnasked /\ StillFallback
  BY DEF DeliveryInv, SavedIsThere, StillJudged, StillUnasked, StillFallback
<1>2. NoPromise
  BY DEF NoPromise
<1> QED
  BY <1>1, <1>2, DeliveryFrame

\* Steps after the patch was captured that do not end the run well.
LEMMA LateStep ==
    ASSUME DeliveryInv, SavedIsThere, pc \in Judged,
           r'.cmdResult = r.cmdResult, r'.execExit = r.execExit,
           pc' \in Unasked => pc \in Unasked /\ seen'.asked = seen.asked,
           pc' # "fallback",
           \/ pc' \notin Ended
           \/ exit' \notin {ExitOK, ExitChildFailed, ExitTimeout}
           \/ exit' # ExitOK /\ "discard" \in seen'.asked
           \/ PatchIsEmpty(r'.patchBytes)
    PROVE  DeliveryInv'
<1>1. StillJudged /\ StillUnasked /\ StillFallback
  BY DEF StillJudged, StillUnasked, StillFallback
<1>2. NoPromise
  BY DEF NoPromise
<1> QED
  BY <1>1, <1>2, DeliveryFrame

-----------------------------------------------------------------------------
LEMMA DeliveryBegins == Init => DeliveryInv
<1> SUFFICES ASSUME Init PROVE DeliveryInv
  OBVIOUS
<1>1. pc = "resolve" /\ r.savedPath = "" /\ seen.asked = {}
  BY DEF Init
<1> QED
  BY <1>1 DEF DeliveryInv, Judged, Proposed, Vetted, Ended

LEMMA DeliveryKeeps == TypeOK /\ GateInv /\ DeliveryInv /\ [Next]_vars => DeliveryInv'
<1> SUFFICES ASSUME TypeOK, GateInv, DeliveryInv, [Next]_vars PROVE DeliveryInv'
  OBVIOUS
<1> USE DEF Goto, Stop,
        ExitOK, ExitGeneralFailure, ExitNotInRepo, ExitGitMissing, ExitDirty,
        ExitChildFailed, ExitApplyFailed, ExitUserDiscard, ExitInvalidUsage,
        ExitTimeout
<1>r. r \in RunnerRecords
  BY DEF TypeOK
<1>s. r.savedPath # "" => r.savedPath \in files
  BY DEF DeliveryInv
<1>a. pc \in Unasked => seen.asked = {}
  BY DEF DeliveryInv
<1>f. pc = "fallback" => ~opts.apply /\ out.printed = opts.stdout
  BY DEF DeliveryInv
<1>1. CASE ResolveRepo
  <2>1. r'.savedPath = r.savedPath
    BY <1>1 DEF ResolveRepo
  <2>2. files' = files /\ seen' = seen
    BY <1>1 DEF ResolveRepo, origin, env
  <2>3. /\ pc \in Early \cup Running
        /\ \/ pc' \in (Early \cup Running) \ Judged
           \/ pc' = "emit" /\ exit' \notin {0, 5, 9}
    BY <1>1 DEF ResolveRepo, Early, Running, Judged, Proposed, Vetted
  <2> QED
    BY <1>s, <2>1, <2>2, <2>3, EarlyStep
<1>2. CASE ReadHead
  <2>1. r'.savedPath = r.savedPath
    BY <1>2, <1>r DEF ReadHead, RunnerRecords
  <2>2. files' = files /\ seen' = seen
    BY <1>2 DEF ReadHead, origin, env
  <2>3. /\ pc \in Early \cup Running
        /\ \/ pc' \in (Early \cup Running) \ Judged
           \/ pc' = "emit" /\ exit' \notin {0, 5, 9}
    BY <1>2 DEF ReadHead, Early, Running, Judged, Proposed, Vetted
  <2> QED
    BY <1>s, <2>1, <2>2, <2>3, EarlyStep
<1>3. CASE ReadStatus
  <2>1. r'.savedPath = r.savedPath
    BY <1>3, <1>r DEF ReadStatus, DirtyPolicy, RunnerRecords
  <2>2. files' = files /\ seen' = seen
    BY <1>3 DEF ReadStatus, origin, env
  <2>3. /\ pc \in Early \cup Running
        /\ \/ pc' \in (Early \cup Running) \ Judged
           \/ pc' = "emit" /\ exit' \notin {0, 5, 9}
    BY <1>3 DEF ReadStatus, DirtyPolicy, Early, Running, Judged, Proposed, Vetted
  <2> QED
    BY <1>s, <2>1, <2>2, <2>3, EarlyStep
<1>4. CASE ConfirmDirty
  <2>1. r'.savedPath = r.savedPath
    BY <1>4 DEF ConfirmDirty
  <2>2. files' = files /\ seen' = seen
    BY <1>4 DEF ConfirmDirty, origin, env
  <2>3. /\ pc \in Early \cup Running
        /\ \/ pc' \in (Early \cup Running) \ Judged
           \/ pc' = "emit" /\ exit' \notin {0, 5, 9}
    BY <1>4 DEF ConfirmDirty, Early, Running, Judged, Proposed, Vetted
  <2> QED
    BY <1>s, <2>1, <2>2, <2>3, EarlyStep
<1>5. CASE SetupWorktree
  <2>1. r'.savedPath = r.savedPath
    BY <1>5, <1>r DEF SetupWorktree, RunnerRecords
  <2>2. files' = files /\ seen' = seen
    BY <1>5 DEF SetupWorktree, origin, env
  <2>3. /\ pc = "setup"
        /\ pc' \in {"replayTracked", "policy"} \/ (pc' = "emit" /\ exit' = 1)
    BY <1>5 DEF SetupWorktree
  <2>4. /\ pc \in Early \cup Running
        /\ \/ pc' \in (Early \cup Running) \ Judged
           \/ pc' = "emit" /\ exit' \notin {0, 5, 9}
    BY <2>3 DEF Early, Running, Judged, Proposed, Vetted
  <2> QED
    BY <1>s, <2>1, <2>2, <2>4, EarlyStep
<1>6. CASE ReplayTracked
  <2>1. r'.savedPath = r.savedPath
    BY <1>6 DEF ReplayTracked
  <2>2. files' = files /\ seen' = seen
    BY <1>6 DEF ReplayTracked, origin, env
  <2>3. /\ pc \in Early \cup Running
        /\ \/ pc' \in (Early \cup Running) \ Judged
           \/ pc' = "emit" /\ exit' \notin {0, 5, 9}
    BY <1>6 DEF ReplayTracked, Early, Running, Judged, Proposed, Vetted
  <2> QED
    BY <1>s, <2>1, <2>2, <2>3, EarlyStep
<1>7. CASE ListUntracked
  <2>1. r'.savedPath = r.savedPath
    BY <1>7, <1>r DEF ListUntracked, RunnerRecords
  <2>2. files' = files /\ seen' = seen
    BY <1>7 DEF ListUntracked, origin, env
  <2>3. /\ pc \in Early \cup Running
        /\ \/ pc' \in (Early \cup Running) \ Judged
           \/ pc' = "emit" /\ exit' \notin {0, 5, 9}
    BY <1>7 DEF ListUntracked, Early, Running, Judged, Proposed, Vetted
  <2> QED
    BY <1>s, <2>1, <2>2, <2>3, EarlyStep
<1>8. CASE CopyUntracked
  <2>1. r'.savedPath = r.savedPath
    BY <1>8, <1>r DEF CopyUntracked, RunnerRecords
  <2>2. files' = files /\ seen' = seen
    BY <1>8 DEF CopyUntracked, origin, env
  <2>3. /\ pc \in Early \cup Running
        /\ \/ pc' \in (Early \cup Running) \ Judged
           \/ pc' = "emit" /\ exit' \notin {0, 5, 9}
    BY <1>8 DEF CopyUntracked, Early, Running, Judged, Proposed, Vetted
  <2> QED
    BY <1>s, <2>1, <2>2, <2>3, EarlyStep
<1>9. CASE CommitBaseline
  <2>1. r'.savedPath = r.savedPath
    BY <1>9, <1>r DEF CommitBaseline, RunnerRecords
  <2>2. files' = files /\ seen' = seen
    BY <1>9 DEF CommitBaseline, origin, env
  <2>3. /\ pc = "copyUntracked"
        /\ pc' \in {"policy"} \/ (pc' = "emit" /\ exit' = 1)
    BY <1>9 DEF CommitBaseline
  <2>4. /\ pc \in Early \cup Running
        /\ \/ pc' \in (Early \cup Running) \ Judged
           \/ pc' = "emit" /\ exit' \notin {0, 5, 9}
    BY <2>3 DEF Early, Running, Judged, Proposed, Vetted
  <2> QED
    BY <1>s, <2>1, <2>2, <2>4, EarlyStep
<1>10. CASE RunChildCommand
  <2>1. r'.savedPath = r.savedPath
    BY <1>10, <1>r DEF RunChildCommand, Start, RunnerRecords
  <2>2. files' = files /\ seen' = seen
    BY <1>10 DEF RunChildCommand, origin, env
  <2>3. /\ pc \in Early \cup Running
        /\ \/ pc' \in (Early \cup Running) \ Judged
           \/ pc' = "emit" /\ exit' \notin {0, 5, 9}
    BY <1>10 DEF RunChildCommand, Start, Early, Running, Judged, Proposed, Vetted
  <2> QED
    BY <1>s, <2>1, <2>2, <2>3, EarlyStep
<1>11. CASE ConfirmPTY
  <2>1. r'.savedPath = r.savedPath
    BY <1>11, <1>r DEF ConfirmPTY, Start, RunnerRecords
  <2>2. files' = files /\ seen' = seen
    BY <1>11 DEF ConfirmPTY, origin, env
  <2>3. /\ pc \in Early \cup Running
        /\ \/ pc' \in (Early \cup Running) \ Judged
           \/ pc' = "emit" /\ exit' \notin {0, 5, 9}
    BY <1>11 DEF ConfirmPTY, Start, Early, Running, Judged, Proposed, Vetted
  <2> QED
    BY <1>s, <2>1, <2>2, <2>3, EarlyStep
<1>12. CASE CommandWrites
  <2>1. /\ UNCHANGED <<r, files, out, opts, pc, exit>> /\ seen'.asked = seen.asked
    BY <1>12 DEF CommandWrites, origin, TypeOK, Histories
  <2> QED
    BY <2>1, StillStep
<1>13. CASE ChildExits
  <2>1. r'.savedPath = r.savedPath
    BY <1>13, <1>r DEF ChildExits, RunnerRecords
  <2>2. files' = files /\ seen' = seen
    BY <1>13 DEF ChildExits, origin, env
  <2>3. /\ pc \in Early \cup Running
        /\ \/ pc' \in (Early \cup Running) \ Judged
           \/ pc' = "emit" /\ exit' \notin {0, 5, 9}
    BY <1>13 DEF ChildExits, Early, Running, Judged, Proposed, Vetted
  <2> QED
    BY <1>s, <2>1, <2>2, <2>3, EarlyStep
<1>14. CASE ExecExits
  <2>1. r'.savedPath = r.savedPath
    BY <1>14, <1>r DEF ExecExits, RunnerRecords
  <2>2. files' = files /\ seen' = seen
    BY <1>14 DEF ExecExits, origin, env
  <2>3. /\ pc \in Early \cup Running
        /\ \/ pc' \in (Early \cup Running) \ Judged
           \/ pc' = "emit" /\ exit' \notin {0, 5, 9}
    BY <1>14 DEF ExecExits, Early, Running, Judged, Proposed, Vetted
  <2> QED
    BY <1>s, <2>1, <2>2, <2>3, EarlyStep
<1>15. CASE KillCommand
  <2>1. r'.savedPath = r.savedPath
    BY <1>15, <1>r DEF KillCommand, RunnerRecords
  <2>2. files' = files /\ seen' = seen
    BY <1>15 DEF KillCommand, origin, env
  <2>3. /\ pc \in Early \cup Running
        /\ \/ pc' \in (Early \cup Running) \ Judged
           \/ pc' = "emit" /\ exit' \notin {0, 5, 9}
    BY <1>15 DEF KillCommand, Early, Running, Judged, Proposed, Vetted
  <2> QED
    BY <1>s, <2>1, <2>2, <2>3, EarlyStep
<1>16. CASE RunExecCommands
  <2>1. files' = files /\ seen' = seen /\ pc = "execs"
    BY <1>16 DEF RunExecCommands, origin, env
  <2>2. r'.savedPath = r.savedPath
    BY <1>16, <1>r DEF RunExecCommands, RunnerRecords
  <2>3. CASE pc' = "snapshot"
    <3>1. r' = [r EXCEPT !.cmdResult.exitCode = IF @ = 0 THEN r.execExit ELSE @]
      BY <1>16, <2>1, <2>3 DEF RunExecCommands
    <3>2. r'.cmdResult.exitCode = 0 => r'.execExit = 0
      BY <1>r, <3>1 DEF RunnerRecords
    <3>3. SavedIsThere
      BY <1>s, <2>1, <2>2 DEF SavedIsThere
    <3>4. StillUnasked /\ StillFallback
      BY <2>1, <2>3 DEF StillUnasked, StillFallback, Unasked, Running
    <3>5. NoPromise
      BY <2>3 DEF NoPromise, Ended
    <3> QED
      BY <3>2, <3>3, <3>4, <3>5, DeliveryFrame DEF StillJudged
  <2>4. CASE pc' # "snapshot"
    <3>1. pc' \in {"execs", "exec"}
      BY <1>16, <2>4 DEF RunExecCommands
    <3> QED
      BY <2>1, <2>2, <3>1, EarlyStep DEF Early, Running, Judged, Proposed, Vetted
  <2> QED
    BY <2>3, <2>4
<1>17. CASE WriteSnapshot
  <2>1. /\ pc = "snapshot" /\ pc' = "capture" /\ r' = r /\ files \subseteq files'
        /\ seen' = seen
    BY <1>17 DEF WriteSnapshot, env
  <2>2. SavedIsThere
    BY <1>s, <2>1 DEF SavedIsThere
  <2> QED
    BY <2>1, <2>2, LateStep DEF Judged, Unasked, Running, Ended
<1>18. CASE CapturePatch
  <2>1. /\ r'.savedPath = r.savedPath /\ r'.cmdResult = r.cmdResult
        /\ r'.execExit = r.execExit
    BY <1>18, <1>r DEF CapturePatch, RunnerRecords
  <2>2. files' = files /\ seen' = seen /\ pc = "capture"
    BY <1>18 DEF CapturePatch, origin, env
  <2>3. SavedIsThere
    BY <1>s, <2>1, <2>2 DEF SavedIsThere
  <2>4. \/ pc' \in {"menu", "save"}
        \/ pc' = "emit" /\ exit' = 1
        \/ pc' = "emit" /\ PatchIsEmpty(CapturedPatch)
           /\ r' = [r EXCEPT !.patchBytes = CapturedPatch]
    <3>1. CASE PatchIsEmpty(CapturedPatch)
      BY <1>18, <3>1 DEF CapturePatch
    <3>2. CASE ~PatchIsEmpty(CapturedPatch)
      BY <1>18, <3>2 DEF CapturePatch
    <3> QED
      BY <3>1, <3>2
  <2>5. pc' \notin Ended \/ exit' \notin {0, 5, 9} \/ PatchIsEmpty(r'.patchBytes)
    <3>1. ASSUME r' = [r EXCEPT !.patchBytes = CapturedPatch]
          PROVE  r'.patchBytes = CapturedPatch
      BY <1>r, <3>1 DEF RunnerRecords
    <3>2. pc' \in {"menu", "save"} => pc' \notin Ended
      BY DEF Ended
    <3> QED
      BY <2>4, <3>1, <3>2
  <2>6. pc \in Judged /\ pc \in Unasked /\ pc' # "fallback"
    BY <2>2, <2>4 DEF Judged, Unasked, Running
  <2> QED
    BY <2>1, <2>2, <2>3, <2>5, <2>6, LateStep
<1>19. CASE SaveRequested
  <2>1. r'.cmdResult = r.cmdResult /\ r'.execExit = r.execExit
    BY <1>19, <1>r DEF SaveRequested, SaveTo, SaveFails, RunnerRecords
  <2>2. SavedIsThere
    BY <1>19, <1>r, <1>s DEF SaveRequested, SaveTo, SaveFails, RunnerRecords, SavedIsThere, origin
  <2>3. pc \in Judged /\ (pc \in Unasked \/ pc' \notin Unasked) /\ pc' # "fallback"
    BY <1>19 DEF SaveRequested, Judged, Unasked, Early, Running, Proposed, Vetted
  <2>4. seen' = seen /\ (pc' \notin Ended \/ exit' \notin {0, 5, 9})
    BY <1>19 DEF SaveRequested, env, Ended
  <2> QED
    BY <2>1, <2>2, <2>3, <2>4, LateStep
<1>20. CASE WriteStdout
  <2>1. UNCHANGED <<r, files, seen, opts>> /\ pc = "stdout"
    BY <1>20 DEF WriteStdout, origin, env
  <2>2. SavedIsThere
    BY <1>s, <2>1 DEF SavedIsThere
  <2>3. CASE pc' = "fallback"
    <3>1. ~opts.apply /\ out' = [out EXCEPT !.printed = opts.stdout]
      BY <1>20, <2>3 DEF WriteStdout
    <3>2. out'.printed = opts.stdout
      BY <3>1 DEF TypeOK, Outputs
    <3>3. pc \in Judged /\ pc \in Unasked /\ pc' \notin Ended
      BY <2>1, <2>3 DEF Judged, Unasked, Proposed, Ended
    <3> QED
      BY <2>1, <2>2, <2>3, <3>1, <3>2, <3>3 DEF DeliveryInv, SavedIsThere
  <2>4. CASE pc' # "fallback"
    <3>1. pc' = "driftStatus" \/ (pc' = "emit" /\ exit' = 1)
      BY <1>20, <2>4 DEF WriteStdout
    <3> QED
      BY <2>1, <2>2, <3>1, LateStep
      DEF Judged, Unasked, Early, Running, Proposed, Ended
  <2> QED
    BY <2>3, <2>4
<1>21. CASE DefaultSave
  <2>1. UNCHANGED <<seen, opts, out>> /\ pc = "fallback" /\ pc' = "emit"
    BY <1>21 DEF DefaultSave, env
  <2>2. r'.cmdResult = r.cmdResult /\ r'.execExit = r.execExit
    BY <1>21, <1>r DEF DefaultSave, SaveTo, SaveFails, RunnerRecords
  <2>3. SavedIsThere
    BY <1>21, <1>r, <1>s DEF DefaultSave, SaveTo, SaveFails, RunnerRecords, SavedIsThere
  <2>4. pc \in Judged /\ pc' # "fallback" /\ pc' \notin Unasked
    BY <2>1 DEF Judged, Unasked, Early, Running, Proposed
  <2>5. CASE exit' = 1
    BY <2>1, <2>2, <2>3, <2>4, <2>5, LateStep
  <2>6. CASE exit' = Outcome(ExitOK)
    <3>1. ~Wanted'
      BY <1>a, <1>f, <2>1 DEF Unasked, Wanted
    <3>2. CASE ~SavesByDefault /\ UNCHANGED <<files, r>>
      <4>1. ASSUME r.savedPath # "" PROVE Delivered'
        BY <1>s, <3>1, <3>2, <4>1 DEF Delivered
      <4>2. ASSUME opts.stdout PROVE Delivered'
        <5>1. out'.printed = opts.stdout
          BY <1>f, <2>1
        <5> QED
          BY <3>1, <4>2, <5>1 DEF Delivered
      <4>3. Delivered'
        BY <3>2, <4>1, <4>2 DEF SavesByDefault
      <4> QED
        BY <2>1, <2>2, <2>3, <2>4, <2>6, <4>3, Delivers
    <3>3. CASE SaveTo("default")
      <4>1. r'.savedPath \in files'
        BY <1>r, <3>3 DEF SaveTo, RunnerRecords
      <4>2. Delivered'
        BY <3>1, <4>1 DEF Delivered
      <4> QED
        BY <2>1, <2>2, <2>3, <2>4, <2>6, <4>2, Delivers
    <3>4. CASE SaveFails /\ exit' = 1
      BY <2>5, <3>4
    <3> QED
      BY <1>21, <3>2, <3>3, <3>4 DEF DefaultSave
  <2> QED
    BY <1>21, <2>5, <2>6 DEF DefaultSave
<1>22. CASE AskMenu
  <2>1. UNCHANGED <<files, opts, out>> /\ pc = "menu"
    BY <1>22 DEF AskMenu, origin
  <2>2. /\ r'.cmdResult = r.cmdResult /\ r'.execExit = r.execExit
        /\ r'.savedPath = r.savedPath
    BY <1>22, <1>r DEF AskMenu, RunnerRecords
  <2>3. SavedIsThere
    BY <1>s, <2>1, <2>2 DEF SavedIsThere
  <2>4. \/ pc' \in {"driftStatus", "askPath", "menu"}
        \/ pc' = "emit" /\ exit' \in {1, 7}
        \/ pc' = "emit" /\ exit' = DiscardCode /\
           seen' = [seen EXCEPT !.asked = @ \cup {"discard"}]
    BY <1>22 DEF AskMenu, Answers
  <2>5. \/ pc' \notin Ended
        \/ exit' \notin {0, 5, 9}
        \/ exit' # 0 /\ "discard" \in seen'.asked
    BY <2>4 DEF DiscardCode, Ended, TypeOK, Histories
  <2>6. pc \in Judged /\ pc' \notin Unasked /\ pc' # "fallback"
    BY <2>1, <2>4 DEF Judged, Unasked, Early, Running, Proposed
  <2> QED
    BY <2>2, <2>3, <2>5, <2>6, LateStep
<1>23. CASE AskPath
  <2>1. r'.cmdResult = r.cmdResult /\ r'.execExit = r.execExit
    BY <1>23, <1>r DEF AskPath, RunnerRecords
  <2>2. SavedIsThere
    BY <1>23, <1>r, <1>s DEF AskPath, RunnerRecords, SavedIsThere, origin
  <2>3. pc \in Judged /\ (pc \in Unasked \/ pc' \notin Unasked) /\ pc' # "fallback"
    BY <1>23 DEF AskPath, Judged, Unasked, Early, Running, Proposed, Vetted
  <2>4. seen' = seen /\ (pc' \notin Ended \/ exit' \notin {0, 5, 9})
    BY <1>23 DEF AskPath, env, Ended
  <2> QED
    BY <2>1, <2>2, <2>3, <2>4, LateStep
<1>24. CASE MenuSave
  <2>1. r'.cmdResult = r.cmdResult /\ r'.execExit = r.execExit
    BY <1>24, <1>r DEF MenuSave, SaveTo, SaveFails, RunnerRecords
  <2>2. SavedIsThere
    BY <1>24, <1>r, <1>s DEF MenuSave, SaveTo, SaveFails, RunnerRecords, SavedIsThere, origin
  <2>3. pc \in Judged /\ (pc \in Unasked \/ pc' \notin Unasked) /\ pc' # "fallback"
    BY <1>24 DEF MenuSave, Judged, Unasked, Early, Running, Proposed, Vetted
  <2>4. seen' = seen /\ (pc' \notin Ended \/ exit' \notin {0, 5, 9})
    BY <1>24 DEF MenuSave, env, Ended
  <2> QED
    BY <2>1, <2>2, <2>3, <2>4, LateStep
<1>25. CASE DriftStatus
  <2>1. r'.cmdResult = r.cmdResult /\ r'.execExit = r.execExit
    BY <1>25, <1>r DEF DriftStatus, RunnerRecords
  <2>2. SavedIsThere
    BY <1>25, <1>r, <1>s DEF DriftStatus, RunnerRecords, SavedIsThere, origin
  <2>3. pc \in Judged /\ (pc \in Unasked \/ pc' \notin Unasked) /\ pc' # "fallback"
    BY <1>25 DEF DriftStatus, Judged, Unasked, Early, Running, Proposed, Vetted
  <2>4. seen' = seen /\ (pc' \notin Ended \/ exit' \notin {0, 5, 9})
    BY <1>25 DEF DriftStatus, env, Ended
  <2> QED
    BY <2>1, <2>2, <2>3, <2>4, LateStep
<1>26. CASE DriftHead
  <2>1. r'.cmdResult = r.cmdResult /\ r'.execExit = r.execExit
    BY <1>26, <1>r DEF DriftHead, RunnerRecords
  <2>2. SavedIsThere
    BY <1>26, <1>r, <1>s DEF DriftHead, RunnerRecords, SavedIsThere, origin
  <2>3. pc \in Judged /\ (pc \in Unasked \/ pc' \notin Unasked) /\ pc' # "fallback"
    BY <1>26 DEF DriftHead, Judged, Unasked, Early, Running, Proposed, Vetted
  <2>4. seen' = seen /\ (pc' \notin Ended \/ exit' \notin {0, 5, 9})
    BY <1>26 DEF DriftHead, env, Ended
  <2> QED
    BY <2>1, <2>2, <2>3, <2>4, LateStep
<1>27. CASE ApplyCheck
  <2>1. UNCHANGED <<r, files, seen, opts>> /\ pc = "check"
    BY <1>27 DEF ApplyCheck, origin, env
  <2>2. SavedIsThere
    BY <1>s, <2>1 DEF SavedIsThere
  <2>3. pc \in Judged
    BY <2>1 DEF Judged, Vetted
  <2>4. CASE pc' = "emit" /\ exit' = Outcome(ExitOK) /\ opts.check
    <3>1. Wanted' /\ opts'.check
      BY <2>1, <2>4 DEF GateInv, Gated, Vetted, Wanted
    <3> QED
      BY <2>1, <2>2, <2>3, <2>4, <3>1, Delivers DEF Delivered
  <2>5. CASE (pc' = "emit" /\ exit' = 1) \/ pc' \in {"apply", "refused"}
    BY <2>1, <2>2, <2>3, <2>5, LateStep DEF Unasked, Early, Running, Ended
  <2> QED
    BY <1>27, <2>4, <2>5 DEF ApplyCheck
<1>28. CASE AutoSave
  <2>1. r'.cmdResult = r.cmdResult /\ r'.execExit = r.execExit
    BY <1>28, <1>r DEF AutoSave, SaveTo, SaveFails, RunnerRecords
  <2>2. SavedIsThere
    <3>1. CASE SaveTo("default")
      BY <1>r, <3>1 DEF SaveTo, RunnerRecords, SavedIsThere
    <3>2. CASE UNCHANGED <<files, r>>
      BY <1>s, <3>2 DEF SavedIsThere
    <3> QED
      BY <1>28, <3>1, <3>2 DEF AutoSave, SaveFails
  <2>3. pc \in Judged /\ (pc \in Unasked \/ pc' \notin Unasked) /\ pc' # "fallback"
    BY <1>28 DEF AutoSave, Judged, Unasked, Early, Running, Proposed, Vetted
  <2>4. seen' = seen /\ (pc' \notin Ended \/ exit' \notin {0, 5, 9})
    <3>1. pc' = "threeWay" \/ exit' = 6
      BY <1>28 DEF AutoSave
    <3>2. seen' = seen
      BY <1>28 DEF AutoSave, env
    <3> QED
      BY <3>1, <3>2 DEF Ended
  <2> QED
    BY <2>1, <2>2, <2>3, <2>4, LateStep
<1>29. CASE Apply
  <2>1. UNCHANGED <<files, seen, opts>> /\ pc = "apply" /\ pc' = "emit"
    BY <1>29 DEF Apply, Applied, env
  <2>2. pc \in Judged /\ pc' \notin Unasked /\ pc' # "fallback"
    BY <2>1 DEF Judged, Vetted, Unasked, Early, Running
  <2>3. CASE r' = [r EXCEPT !.applied = TRUE] /\ exit' = Outcome(ExitOK)
    <3>1. /\ r'.applied /\ r'.cmdResult = r.cmdResult /\ r'.execExit = r.execExit
          /\ r'.savedPath = r.savedPath
      BY <1>r, <2>3 DEF RunnerRecords
    <3>2. Wanted'
      BY <2>1 DEF GateInv, Gated, Vetted, Wanted
    <3>3. SavedIsThere
      BY <1>s, <2>1, <3>1 DEF SavedIsThere
    <3> QED
      BY <2>1, <2>2, <2>3, <3>1, <3>2, <3>3, Delivers DEF Delivered
  <2>4. CASE r' = r /\ exit' = 6
    <3>1. SavedIsThere
      BY <1>s, <2>1, <2>4 DEF SavedIsThere
    <3> QED
      BY <2>2, <2>4, <3>1, LateStep
  <2> QED
    BY <1>29, <2>3, <2>4 DEF Apply, Applied
<1>30. CASE Apply3Way
  <2>1. UNCHANGED <<files, seen, opts>> /\ pc = "threeWay" /\ pc' = "emit"
    BY <1>30 DEF Apply3Way, Applied, env
  <2>2. pc \in Judged /\ pc' \notin Unasked /\ pc' # "fallback"
    BY <2>1 DEF Judged, Vetted, Unasked, Early, Running
  <2>3. CASE r' = [r EXCEPT !.applied = TRUE] /\ exit' = Outcome(ExitOK)
    <3>1. /\ r'.applied /\ r'.cmdResult = r.cmdResult /\ r'.execExit = r.execExit
          /\ r'.savedPath = r.savedPath
      BY <1>r, <2>3 DEF RunnerRecords
    <3>2. Wanted'
      BY <2>1 DEF GateInv, Gated, Vetted, Wanted
    <3>3. SavedIsThere
      BY <1>s, <2>1, <3>1 DEF SavedIsThere
    <3> QED
      BY <2>1, <2>2, <2>3, <3>1, <3>2, <3>3, Delivers DEF Delivered
  <2>4. CASE r' = r /\ exit' = 6
    <3>1. SavedIsThere
      BY <1>s, <2>1, <2>4 DEF SavedIsThere
    <3> QED
      BY <2>2, <2>4, <3>1, LateStep
  <2> QED
    BY <1>30, <2>3, <2>4 DEF Apply3Way, Applied
<1>31. CASE EmitJSON
  <2>1. UNCHANGED <<r, files, seen, opts, exit>> /\ pc \in Ended /\ pc' \in Ended
    BY <1>31 DEF EmitJSON, Ended, origin, env
  <2>2. out'.printed = out.printed
    BY <1>31 DEF EmitJSON, TypeOK, Outputs
  <2>3. SavedIsThere
    BY <1>s, <2>1 DEF SavedIsThere
  <2>4. pc' \notin Judged /\ pc' \notin Unasked /\ pc' # "fallback"
    BY <2>1 DEF Judged, Unasked, Early, Running, Proposed, Vetted, Ended
  <2>5. NoPromise
    BY <2>1, <2>2 DEF NoPromise
  <2> QED
    BY <2>3, <2>4, <2>5, DeliveryFrame DEF StillJudged, StillUnasked, StillFallback
<1>32. CASE RemoveWorktree
  <2>1. UNCHANGED <<r, files, seen, opts, exit>> /\ pc \in Ended /\ pc' \in Ended
    BY <1>32 DEF RemoveWorktree, Ended, origin, env
  <2>2. out'.printed = out.printed
    BY <1>32 DEF RemoveWorktree, TypeOK, Outputs
  <2>3. SavedIsThere
    BY <1>s, <2>1 DEF SavedIsThere
  <2>4. pc' \notin Judged /\ pc' \notin Unasked /\ pc' # "fallback"
    BY <2>1 DEF Judged, Unasked, Early, Running, Proposed, Vetted, Ended
  <2>5. NoPromise
    BY <2>1, <2>2 DEF NoPromise
  <2> QED
    BY <2>3, <2>4, <2>5, DeliveryFrame DEF StillJudged, StillUnasked, StillFallback
<1>33. CASE RemoveAll
  <2>1. UNCHANGED <<r, files, seen, opts, exit>> /\ pc \in Ended /\ pc' \in Ended
    BY <1>33 DEF RemoveAll, Ended, origin, env
  <2>2. out'.printed = out.printed
    BY <1>33 DEF RemoveAll, TypeOK, Outputs
  <2>3. SavedIsThere
    BY <1>s, <2>1 DEF SavedIsThere
  <2>4. pc' \notin Judged /\ pc' \notin Unasked /\ pc' # "fallback"
    BY <2>1 DEF Judged, Unasked, Early, Running, Proposed, Vetted, Ended
  <2>5. NoPromise
    BY <2>1, <2>2 DEF NoPromise
  <2> QED
    BY <2>3, <2>4, <2>5, DeliveryFrame DEF StillJudged, StillUnasked, StillFallback
<1>34. CASE OthersEdit
  <2>1. /\ UNCHANGED <<r, files, out, opts, pc, exit>> /\ seen'.asked = seen.asked
    BY <1>34 DEF OthersEdit, origin, TypeOK, Histories
  <2> QED
    BY <2>1, StillStep
<1>35. CASE OthersCommit
  <2>1. /\ UNCHANGED <<r, files, out, opts, pc, exit>> /\ seen'.asked = seen.asked
    BY <1>35 DEF OthersCommit, origin, TypeOK, Histories
  <2> QED
    BY <2>1, StillStep
<1>36. CASE Interrupt
  <2>1. /\ UNCHANGED <<r, files, out, opts, pc, exit>> /\ seen'.asked = seen.asked
    BY <1>36 DEF Interrupt, origin, TypeOK, Histories
  <2> QED
    BY <2>1, StillStep
<1>37. CASE Exited
  <2>1. /\ UNCHANGED <<r, files, out, opts, pc, exit>> /\ seen'.asked = seen.asked
    BY <1>37 DEF Exited, vars, origin, TypeOK, Histories
  <2> QED
    BY <2>1, StillStep
<1>38. CASE OthersStage
  <2>1. /\ UNCHANGED <<r, files, out, opts, pc, exit>> /\ seen'.asked = seen.asked
    BY <1>38, StageChanges
  <2> QED
    BY <2>1, StillStep
<1>39. CASE UNCHANGED vars
  <2>1. /\ UNCHANGED <<r, files, out, opts, pc, exit>> /\ seen'.asked = seen.asked
    BY <1>39 DEF vars, origin, TypeOK, Histories
  <2> QED
    BY <2>1, StillStep
<1> QED
  BY <1>1, <1>2, <1>3, <1>4, <1>5, <1>6, <1>7, <1>8, <1>9, <1>10,
     <1>11, <1>12, <1>13, <1>14, <1>15, <1>16, <1>17, <1>18, <1>19, <1>20,
     <1>21, <1>22, <1>23, <1>24, <1>25, <1>26, <1>27, <1>28, <1>29, <1>30,
     <1>31, <1>32, <1>33, <1>34, <1>35, <1>36, <1>37, <1>38, <1>39
  DEF Next, Program, Prompts, CommandEnds, Others

LEMMA DeliveryHolds == Spec => []DeliveryInv
<1>1. Init => GateInv /\ DeliveryInv
  BY GateBegins, DeliveryBegins
<1>2. /\ TypeOK /\ TypeOK' /\ GateInv /\ [Next]_vars => GateInv'
      /\ TypeOK /\ GateInv /\ DeliveryInv /\ [Next]_vars => DeliveryInv'
  BY GateKeeps, DeliveryKeeps
<1> QED
  BY <1>1, <1>2, TypeCorrect, PTL DEF Spec

\* Exit 0 and a patch: command and follow-ups succeeded in time, and the patch is
\* where the options, or the user, have said.
THEOREM SuccessIsDelivery == Spec => []SuccessMeansDelivered
<1>1. DeliveryInv => SuccessMeansDelivered
  BY DEF DeliveryInv, SuccessMeansDelivered, Promises, Delivered, Succeeded
<1> QED
  BY <1>1, DeliveryHolds, PTL

\* A command that fails or is cut off does not cost the patch.
THEOREM FailureIsNoLoss == Spec => []FailureKeepsPatch
<1>1. DeliveryInv => FailureKeepsPatch
  BY DEF DeliveryInv, FailureKeepsPatch, Promises, Delivered
<1> QED
  BY <1>1, DeliveryHolds, PTL

-----------------------------------------------------------------------------
(* What is refused.                                                        *)

\* Whoever has seen the patch refused does one of two things.
LEMMA AfterRefusal ==
    ASSUME [Next]_vars, pc \in {"drifted", "refused", "threeWay"} \/ pc' = "threeWay"
    PROVE  AutoSave \/ Apply3Way \/ UNCHANGED <<pc, exit, r, files>>
<1> USE DEF Goto, Stop
<1>1. ~ResolveRepo
  BY DEF ResolveRepo
<1>2. ~ReadHead
  BY DEF ReadHead
<1>3. ~ReadStatus
  BY DEF ReadStatus, DirtyPolicy
<1>4. ~ConfirmDirty
  BY DEF ConfirmDirty
<1>5. ~SetupWorktree
  BY DEF SetupWorktree
<1>6. ~ReplayTracked
  BY DEF ReplayTracked
<1>7. ~ListUntracked
  BY DEF ListUntracked
<1>8. ~CopyUntracked
  BY DEF CopyUntracked
<1>9. ~CommitBaseline
  BY DEF CommitBaseline
<1>10. ~RunChildCommand
  BY DEF RunChildCommand, Start
<1>11. ~ConfirmPTY
  BY DEF ConfirmPTY, Start
<1>12. ~CommandWrites
  BY DEF CommandWrites
<1>13. ~ChildExits
  BY DEF ChildExits
<1>14. ~ExecExits
  BY DEF ExecExits
<1>15. ~KillCommand
  BY DEF KillCommand
<1>16. ~RunExecCommands
  BY DEF RunExecCommands
<1>17. ~WriteSnapshot
  BY DEF WriteSnapshot
<1>18. ~CapturePatch
  BY DEF CapturePatch
<1>19. ~SaveRequested
  BY DEF SaveRequested
<1>20. ~WriteStdout
  BY DEF WriteStdout
<1>21. ~DefaultSave
  BY DEF DefaultSave
<1>22. ~AskMenu
  BY DEF AskMenu
<1>23. ~AskPath
  BY DEF AskPath
<1>24. ~MenuSave
  BY DEF MenuSave
<1>25. ~DriftStatus
  BY DEF DriftStatus
<1>26. ~DriftHead
  BY DEF DriftHead
<1>27. ~ApplyCheck
  BY DEF ApplyCheck
<1>28. ~Apply
  BY DEF Apply, Applied
<1>29. ~EmitJSON
  BY DEF EmitJSON
<1>30. ~RemoveWorktree
  BY DEF RemoveWorktree
<1>31. ~RemoveAll
  BY DEF RemoveAll
<1>32. Others \/ Exited \/ UNCHANGED vars => UNCHANGED <<pc, exit, r, files>>
  BY DEF Others, OthersEdit, OthersStage, OthersCommit, Interrupt, Exited, origin, vars
<1> QED
  BY <1>1, <1>2, <1>3, <1>4, <1>5, <1>6, <1>7, <1>8, <1>9, <1>10,
     <1>11, <1>12, <1>13, <1>14, <1>15, <1>16, <1>17, <1>18, <1>19, <1>20,
     <1>21, <1>22, <1>23, <1>24, <1>25, <1>26, <1>27, <1>28, <1>29, <1>30,
     <1>31, <1>32
  DEF Next, Program, Prompts, CommandEnds

\* Before the 3-way merge the patch is on disk, unless a call has failed.
ThreeWayInv ==
    pc = "threeWay" /\ budget.faults = MaxFaults => r.savedPath # ""

\* If no call has failed so far, none has before.
LEMMA NoFault ==
    ASSUME TypeOK, TypeOK', Troubles, [Next]_vars, budget'.faults = MaxFaults
    PROVE  budget.faults = MaxFaults /\ ~IOErr
<1>1. /\ budget.faults \in 0 .. MaxFaults /\ MaxFaults \in Nat
  BY RunnerAssumption DEF Troubles
<1>2. /\ budget'.faults <= budget.faults
      /\ IOErr => budget'.faults = budget.faults - 1
  BY TroublesStay
<1> QED
  BY <1>1, <1>2

\* What AutoSave leaves.
LEMMA AutoSaves ==
    ASSUME TypeOK, TypeOK', Troubles, DeliveryInv, [Next]_vars, AutoSave,
           budget'.faults = MaxFaults
    PROVE  r'.savedPath # "" /\ r'.savedPath \in files'
<1>1. ~IOErr
  BY NoFault
<1>2. CASE r.savedPath = ""
  <2>1. r' = [r EXCEPT !.savedPath = "default"] /\ files' = files \cup {"default"}
    BY <1>1, <1>2 DEF AutoSave, SaveTo, SaveFails
  <2>2. r'.savedPath = "default"
    BY <2>1 DEF TypeOK, RunnerRecords
  <2> QED
    BY <2>1, <2>2
<1>3. CASE r.savedPath # ""
  <2>1. r.savedPath \in files
    BY <1>3 DEF DeliveryInv
  <2>2. UNCHANGED <<files, r>>
    BY <1>3 DEF AutoSave
  <2> QED
    BY <1>3, <2>1, <2>2
<1> QED
  BY <1>2, <1>3

LEMMA ThreeWayKeeps ==
    TypeOK /\ TypeOK' /\ Troubles /\ DeliveryInv /\ ThreeWayInv /\ [Next]_vars
        => ThreeWayInv'
<1> SUFFICES ASSUME TypeOK, TypeOK', Troubles, DeliveryInv, ThreeWayInv, [Next]_vars,
                    pc' = "threeWay", budget'.faults = MaxFaults
             PROVE  r'.savedPath # ""
  BY DEF ThreeWayInv
<1>1. CASE AutoSave
  BY <1>1, AutoSaves
<1>2. CASE Apply3Way
  BY <1>2 DEF Apply3Way, Applied, Stop
<1>3. CASE UNCHANGED <<pc, exit, r, files>>
  <2>1. budget.faults = MaxFaults
    BY NoFault
  <2> QED
    BY <1>3, <2>1 DEF ThreeWayInv
<1> QED
  BY <1>1, <1>2, <1>3, AfterRefusal

\* A patch that drift, git apply --check or a 3-way merge refuses is on disk
\* when the run ends, if no call of its own has failed: asked for or not.
THEOREM RefusedIsKept == Spec => RefusedPatchIsKept
<1>1. Init => GateInv /\ DeliveryInv /\ ThreeWayInv
  BY GateBegins, DeliveryBegins DEF Init, ThreeWayInv
<1>2. TypeOK /\ TypeOK' /\ Troubles /\ DeliveryInv /\ ThreeWayInv /\ [Next]_vars
        => ThreeWayInv'
  BY ThreeWayKeeps
<1>3. ASSUME TypeOK, TypeOK', Troubles, DeliveryInv, ThreeWayInv, [Next]_vars,
             pc \in {"drifted", "refused", "threeWay"}, exit' = ExitApplyFailed,
             budget'.faults = MaxFaults
      PROVE  r'.savedPath # "" /\ r'.savedPath \in files'
  <2>1. CASE AutoSave
    BY <1>3, <2>1, AutoSaves
  <2>2. CASE Apply3Way
    <3>1. budget.faults = MaxFaults
      BY <1>3, NoFault
    <3>2. pc = "threeWay" /\ files' = files
      BY <2>2 DEF Apply3Way
    <3>3. r'.savedPath = r.savedPath
      <4>1. r' = r \/ r' = [r EXCEPT !.applied = TRUE]
        BY <2>2 DEF Apply3Way, Applied
      <4>2. r \in RunnerRecords
        BY <1>3 DEF TypeOK
      <4> QED
        BY <4>1, <4>2 DEF RunnerRecords
    <3> QED
      BY <1>3, <3>1, <3>2, <3>3 DEF ThreeWayInv, DeliveryInv
  <2>3. CASE UNCHANGED <<pc, exit, r, files>>
    <3>1. exit = ExitOK
      BY <1>3 DEF Troubles, Ended
    <3>2. exit' = exit
      BY <2>3
    <3>3. ExitOK # ExitApplyFailed
      BY DEF ExitOK, ExitApplyFailed
    <3> QED
      BY <1>3, <3>1, <3>2, <3>3
  <2> QED
    BY <1>3, <2>1, <2>2, <2>3, AfterRefusal
<1> QED
  BY <1>1, <1>2, <1>3, TypeCorrect, TroublesHold, DeliveryHolds, PTL
  DEF Spec, RefusedPatchIsKept

\* A run with a patch reports success from one of four places.
LEMMA WhoSucceeds ==
    ASSUME GateInv, [Next]_vars, HasPatch, pc # pc', pc' = "emit", exit' = ExitOK
    PROVE  DefaultSave \/ ApplyCheck \/ Apply \/ Apply3Way
<1> USE DEF Goto, Stop
<1>1. pc \notin Early \cup Running
  BY DEF GateInv, HasPatch
<1>2. ~(ResolveRepo \/ ReadHead \/ ReadStatus \/ ConfirmDirty \/ SetupWorktree
        \/ ReplayTracked \/ ListUntracked \/ CopyUntracked \/ CommitBaseline)
  BY <1>1 DEF ResolveRepo, ReadHead, ReadStatus, ConfirmDirty, SetupWorktree,
     ReplayTracked, ListUntracked, CopyUntracked, CommitBaseline, Early, Running
<1>3. ~(RunChildCommand \/ ConfirmPTY \/ CommandWrites \/ ChildExits \/ ExecExits
        \/ KillCommand \/ RunExecCommands \/ WriteSnapshot \/ CapturePatch)
  BY <1>1 DEF RunChildCommand, ConfirmPTY, CommandWrites, ChildExits, ExecExits,
     KillCommand, RunExecCommands, WriteSnapshot, CapturePatch, Running
<1>4. ~(SaveRequested \/ WriteStdout \/ AskPath \/ MenuSave \/ DriftStatus
        \/ DriftHead \/ AutoSave)
  BY DEF SaveRequested, WriteStdout, AskPath, MenuSave, DriftStatus, DriftHead,
     AutoSave, ExitOK, ExitGeneralFailure, ExitApplyFailed
<1>5. ~AskMenu
  BY DEF AskMenu, Answers, DiscardCode, ExitOK, ExitGeneralFailure, ExitChildFailed,
     ExitUserDiscard
<1>6. ~(EmitJSON \/ RemoveWorktree \/ RemoveAll)
  BY DEF EmitJSON, RemoveWorktree, RemoveAll
<1>7. ~(Others \/ Exited \/ UNCHANGED vars)
  BY DEF Others, OthersEdit, OthersStage, OthersCommit, Interrupt, Exited, vars
<1> QED
  BY <1>2, <1>3, <1>4, <1>5, <1>6, <1>7 DEF Next, Program, Prompts, CommandEnds
=============================================================================
