---------------------------- MODULE RunnerProps ----------------------------
(***************************************************************************)
(* What one run of patchrun has to get right, and, at the end, what its    *)
(* documentation says of it that the code does not do.                     *)
(***************************************************************************)
EXTENDS Runner

\* The run as PatchGate sees it.
Vetted == {"check", "refused", "apply", "threeWay"}
GatePhase ==
    CASE pc \in {"resolve", "head"} -> "idle"
      [] pc \in {"status", "confirmDirty", "setup", "replayTracked",
                 "listUntracked", "copyUntracked", "policy", "confirmPTY",
                 "child", "execs", "exec", "snapshot", "capture"} -> "running"
      [] pc \in {"menu", "askPath", "menuSave", "save", "stdout", "fallback",
                 "driftStatus", "driftHead", "drifted"} -> "proposed"
      [] pc \in Vetted -> "vetted"
      [] OTHER -> "closed"

Gate == INSTANCE PatchGate WITH
            base <- r.originalHead, patch <- Effect, phase <- GatePhase,
            consent <- (opts.apply \/ "apply" \in seen.asked) /\ ~opts.check

\* To the repository a run is a PatchGate: it asks, looks, and writes once.
\* (applyToOriginal and everything that leads to it.)
ImplementsGate == Gate!Spec

Ended == {"emit", "cleanup", "removeAll", "done"}

Labels == UntilGate \cup Ended \cup
          {"resolve", "head", "drifted", "check", "refused", "apply", "threeWay"}

Signatures ==
    [files : [Paths -> StatusLetters \X StatusLetters],
     extra : SUBSET (Files \cup {"worktree"})]

RunnerRecords ==
    [originalHead : Nat, originalDirty : BOOLEAN,
     originalStatusSig : Signatures, newSig : Signatures,
     tempWorktree : BOOLEAN, keep : BOOLEAN,
     untracked : SUBSET Paths, baselineRef : Trees,
     cmdResult : [exitCode : Nat, timedOut : BOOLEAN],
     execsLeft : Nat, execExit : Nat, patchBytes : Patches,
     menuPath : {"default", "elsewhere"},
     savedPath : Files \cup {""}, applied : BOOLEAN]

Worktrees == [dir : BOOLEAN, handle : BOOLEAN, index : Trees, tree : Trees]
Reports == [emitted : BOOLEAN, applied : BOOLEAN, kept : BOOLEAN,
            saved : Files \cup {""}, exit : Nat]
Outputs == [printed : BOOLEAN, json : Reports]
Budgets == [edits : Nat, writes : Nat, answers : Nat, faults : Nat, signals : Nat]
Histories == [before : Trees, wrote : SUBSET Cells, asked : SUBSET Answers,
              moved : {"no", "before", "after"}]

\* Every variable stays within its type, the HEAD the runner remembers is a
\* commit the repository has, and a follow-up that runs is one that is left.
TypeOK ==
    /\ opts \in OptionRecords /\ ValidOptions(opts)
    /\ pc \in Labels /\ exit \in Nat
    /\ r \in RunnerRecords
    /\ commits \in Seq(Trees) /\ Len(commits) > 0 /\ index \in Trees /\ work \in Trees
    /\ files \subseteq Files
    /\ worktree \in Worktrees
    /\ out \in Outputs
    /\ cancelled \in BOOLEAN
    /\ budget \in Budgets
    /\ seen \in Histories
    /\ pc \notin {"resolve", "head"} \cup Ended => r.originalHead \in 1 .. Len(commits)
    /\ pc = "exec" => r.execsLeft > 0

NoTrouble == budget.faults = MaxFaults /\ budget.signals = MaxSignals
Alone == budget.edits = MaxEdits
Undisturbed == NoTrouble /\ Alone
Wanted == opts.apply \/ "apply" \in seen.asked
HasPatch == ~PatchIsEmpty(r.patchBytes)

-----------------------------------------------------------------------------
(* The patch.                                                              *)

\* A patch holds only what the commands did: whatever dirt the repository
\* started with, or gained while it was being replayed, is not in it.
\* (replayBaseline, CommitBaseline and the baselineRef capturePatch uses.)  One
\* exception: an ignored file somebody has staged, when git apply --index fails
\* and --include-ignored asks for such files.
OnlyTheCommand ==
    \A c \in DOMAIN r.patchBytes :
        r.patchBytes[c].old # r.patchBytes[c].new =>
            \/ c \in seen.wrote
            \/ opts.includeIgnored /\ PathOf[c] \in Ignored /\ budget.faults < MaxFaults

\* With nobody else about, a plain apply leaves every selected region as the
\* commands left it in the worktree and every other one as it was before the
\* run: the way through baseline, capture, check and apply drops and adds
\* nothing.  (applyToOriginal, on top of capturePatch and replayBaseline.)
AppliedIsWhatRan ==
    (pc = "emit" /\ r.applied /\ Alone /\ ~opts.reverse) =>
        \A c \in Cells :
            PathOf[c] \notin Ignored =>
                work[c] = IF PathOf[c] \in Selected THEN worktree.tree[c]
                          ELSE r.baselineRef[c]

\* A commit made while the run was on, before it checked for drift, is never
\* written over: the run neither applies nor checks its patch.
DriftedHeadIsLeftAlone ==
    seen.moved = "before" =>
        pc \notin Vetted /\ ~r.applied

\* A run that reports the patch as not applied has left the tree alone, unless
\* a 3-way merge left conflicts or git was killed or failed half way through.
RefusalLeavesTree ==
    [][work' # work /\ exit' = ExitApplyFailed =>
        pc = "threeWay" \/ cancelled \/ budget' # budget]_vars

\* Exit 0 with a patch: the command and every follow-up succeeded in time, and
\* the patch went where the options said: into the tree for apply (unless only
\* checking), otherwise to a file that is there or to stdout.
SuccessMeansDelivered ==
    (pc \in Ended /\ exit = ExitOK /\ HasPatch) =>
        /\ r.cmdResult.exitCode = 0 /\ ~r.cmdResult.timedOut /\ r.execExit = 0
        /\ IF Wanted THEN r.applied \/ opts.check
           ELSE r.savedPath \in files \/ out.printed

\* A failed command does not cost a user who was not asked the patch: with exit
\* 5 or 9 it is delivered just as on success.
FailureKeepsPatch ==
    (pc \in Ended /\ exit \in {ExitChildFailed, ExitTimeout} /\ HasPatch
        /\ "discard" \notin seen.asked) =>
        IF Wanted THEN r.applied \/ opts.check
        ELSE r.savedPath \in files \/ out.printed

\* A patch refused by the drift check or by git apply --check is on disk when
\* the run ends, though the user asked for no file.  (Not so when the write
\* that follows a good check fails: Apply saves nothing.)
RefusedPatchIsKept ==
    [][(pc \in {"drifted", "refused", "threeWay"} /\ exit' = ExitApplyFailed
        /\ budget'.faults = MaxFaults) =>
            r'.savedPath # "" /\ r'.savedPath \in files']_vars

\* README, --check: "Verify the patch applies cleanly; do not modify the working
\* tree".  A checking run, one with --apply-3way or a menu too, applies nothing;
\* with nobody else about the tree is as it was, exit 0 means that the patch
\* applies to it and exit 6 that it does not, unless git failed or something of
\* patchrun's own in the repository looked like drift.
CheckForetells ==
    (pc \in Ended /\ opts.check /\ Wanted /\ HasPatch) =>
        /\ ~r.applied
        /\ Alone =>
             /\ work = seen.before
             /\ exit = ExitOK => Applies(Effect, work)
             /\ (exit = ExitApplyFailed /\ NoTrouble /\ ~opts.worktreeInside
                    /\ \A f \in files : ~Inside(f)) => ~Applies(Effect, work)

-----------------------------------------------------------------------------
(* The worktree, the report, the end.                                      *)

\* A single fault or signal anywhere does not leave the directory behind, and
\* without a signal git has forgotten the worktree too.
CleansUp ==
    (pc = "done" /\ ~opts.keep /\ ~r.keep
        /\ budget.faults + budget.signals + 1 >= MaxFaults + MaxSignals) =>
        ~worktree.dir /\ (~cancelled => ~worktree.handle)

\* --keep, or [k] in the menu, keeps a worktree that was set up whatever
\* happens afterwards.
KeptWorktreeStays ==
    (pc = "done" /\ (opts.keep \/ r.keep) /\ r.baselineRef # EmptyTree) =>
        worktree.dir /\ worktree.handle

TreeIsAsReported(applied, code) ==
    LET patched == ApplyTo(Effect, seen.before, Paths)
    IN  IF applied THEN work = patched
        ELSE /\ code # ExitApplyFailed => work = seen.before
             /\ ~opts.threeWay =>
                  /\ NoTrouble => work = seen.before
                  /\ \A p \in Paths : Same(work, seen.before, p) \/ Same(work, patched, p)

\* The JSON report is written before cleanup and holds at exit.  A path under
\* "saved" is there.  "kept" true: so is the worktree, if it was set up; false:
\* it is gone, unless two things went wrong.  With nobody else about, "applied"
\* true: the patch, all of it and no more, has been made to the tree the run
\* found; false with any exit but 6: that tree is untouched; false with exit 6
\* (and no --apply-3way): so it is unless a call failed or a signal came, which
\* may have killed git apply between two files.
ReportHolds ==
    (pc = "done" /\ out.json.emitted) =>
        /\ out.json.saved # "" => out.json.saved \in files
        /\ IF out.json.kept THEN r.baselineRef # EmptyTree => worktree.dir
           ELSE worktree.dir => budget.faults + budget.signals + 1 < MaxFaults + MaxSignals
        /\ Alone => TreeIsAsReported(out.json.applied, out.json.exit)

\* Every run ends if the commands do and the user answers or closes stdin.
Terminates == (WF_vars(Prompts) /\ WF_vars(CommandEnds)) => <>(pc = "done")

\* With --command-timeout a command that never ends does not hold up a run that
\* asks nothing.
TimeoutEndsRun == (opts.timeout /\ ~CanPrompt) => <>(pc = "done")

\* A signal ends the run even if the command hangs and the user has gone,
\* unless it comes while a prompt waits (or a prompt comes after it).
AtPrompt == pc \in {"confirmDirty", "confirmPTY", "menu", "askPath"}
SignalEndsRun == cancelled ~> (pc = "done" \/ AtPrompt)

-----------------------------------------------------------------------------
(* What the documentation says and the code does not do.                   *)

\* README, --reverse: "Print/save/apply the reverse of the captured patch": the
\* change made to the tree is the reversed patch that is printed and saved.
\* (It is applied with --reverse once more.)
ReverseIsApplied ==
    (pc = "emit" /\ r.applied /\ Undisturbed) =>
        \A c \in DOMAIN r.patchBytes : work[c] = r.patchBytes[c].new

\* The message of the drift check: "original working tree changed while
\* patchrun was running" is said only if somebody else changed it.  (A patch
\* saved, a snapshot taken or a worktree made inside the repository is enough.)
DriftIsByOthers ==
    pc = "drifted" => budget.edits < MaxEdits
=============================================================================
