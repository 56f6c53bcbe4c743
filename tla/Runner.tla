------------------------------- MODULE Runner -------------------------------
(***************************************************************************)
(* One run of patchrun: the runner of internal/app/app.go from the moment  *)
(* its options are parsed to its exit, one action per call that reads or   *)
(* writes something outside the process.  Between two actions the user (or *)
(* the command, by an absolute path) may edit, stage and commit in the     *)
(* original repository, and one SIGINT or SIGTERM may cancel the context   *)
(* that every git call is made with.                                       *)
(*                                                                         *)
(* `r` holds the fields of the Go struct, `opts` the options with four     *)
(* facts of the invocation (from worktreeInside on) beside them.           *)
(***************************************************************************)
EXTENDS Repo, Naturals, Sequences

CONSTANTS
    Options,    \* the option records a run is started with
    Starts,     \* the <<commit, index, working tree>> triples it may start in
    MaxEdits,   \* bound on edits, git adds and commits made by others
    MaxWrites,  \* bound on the regions the commands write
    MaxAnswers, \* lines the user types before closing stdin
    MaxFaults,  \* bound on git and file-system calls that fail by themselves
    MaxSignals  \* SIGINTs delivered

OptionRecords ==
    [apply : BOOLEAN, threeWay : BOOLEAN, check : BOOLEAN, reverse : BOOLEAN,
     save : {"none", "inside", "outside"}, stdout : BOOLEAN, json : BOOLEAN,
     keep : BOOLEAN, allowDirty : BOOLEAN, failOnDirty : BOOLEAN,
     interactive : BOOLEAN, noInteractive : BOOLEAN,
     mode : {"ask", "strict", "allow"}, timeout : BOOLEAN, execs : Nat,
     snapshot : {"none", "inside", "outside"}, includeIgnored : BOOLEAN,
     includes : SUBSET Paths, excludes : SUBSET Paths,
     worktreeInside : BOOLEAN, \* --worktree-dir is in the repository, not ignored
     tty : BOOLEAN,          \* stdin is a character device
     tui : BOOLEAN,          \* the command is on the list of terminal programs
     ignoresSaves : BOOLEAN] \* .gitignore excludes .patchrun/

\* What ParseOptions refuses.
ValidOptions(o) ==
    ~(o.allowDirty /\ o.failOnDirty) /\ ~(o.interactive /\ o.noInteractive)

ASSUME RunnerAssumption ==
    /\ Options \subseteq {o \in OptionRecords : ValidOptions(o)}
    /\ Starts \subseteq Trees \X Trees \X Trees
    /\ {MaxEdits, MaxWrites, MaxAnswers, MaxFaults, MaxSignals} \subseteq Nat

ExitOK == 0
ExitGeneralFailure == 1
ExitNotInRepo == 2
ExitGitMissing == 3
ExitDirty == 4
ExitChildFailed == 5
ExitApplyFailed == 6
ExitUserDiscard == 7
ExitInvalidUsage == 8
ExitTimeout == 9

VARIABLES
    opts,
    pc,         \* the call the runner makes next
    exit,       \* what run() returned
    r,          \* the fields of the runner
    commits,    \* original repository: its commits in order, the last is HEAD
    index,      \* original repository: the index
    work,       \* original repository: the working tree
    files,      \* what patchrun has written beside the tree
    worktree,   \* the disposable worktree and its handle in .git/worktrees
    out,        \* what went to stdout
    cancelled,  \* the context is cancelled
    budget,     \* what the bounds leave
    seen        \* history: the tree the run found, what the commands wrote, what
                \* the user asked for, whether HEAD moved before or after the
                \* check for drift

origin == <<commits, index, work, files>>
env == <<opts, cancelled, seen>>
vars == <<opts, pc, exit, r, commits, index, work, files, worktree, out, cancelled,
          budget, seen>>

Files == {"save", "default", "elsewhere", "snapshot"}
Answers == {"apply", "save", "view", "keep", "discard"}

Inside(f) ==
    \/ f = "default" /\ ~opts.ignoresSaves
    \/ f = "save" /\ opts.save = "inside"
    \/ f = "snapshot" /\ opts.snapshot = "inside"

HEAD == commits[Len(commits)]

\* git status and git ls-files list a worktree within the repository.
WorktreeShows == opts.worktreeInside /\ worktree.dir

Status ==
    StatusFingerprint(HEAD, index, work,
        {f \in files : Inside(f)} \cup {w \in {"worktree"} : WorktreeShows})

NoWorktree == [dir |-> FALSE, handle |-> FALSE, index |-> EmptyTree, tree |-> EmptyTree]
NoJSON == [emitted |-> FALSE, applied |-> FALSE, kept |-> FALSE,
           saved |-> "", exit |-> 0]

Init ==
    /\ opts \in Options
    /\ pc = "resolve" /\ exit = ExitOK
    /\ \E s \in Starts : commits = <<s[1]>> /\ index = s[2] /\ work = s[3]
    /\ files = {}
    /\ worktree = NoWorktree
    /\ out = [printed |-> FALSE, json |-> NoJSON]
    /\ cancelled = FALSE
    /\ budget = [edits |-> MaxEdits, writes |-> MaxWrites,
                 answers |-> MaxAnswers, faults |-> MaxFaults,
                 signals |-> MaxSignals]
    /\ seen = [before |-> work, wrote |-> {}, asked |-> {}, moved |-> "no"]
    /\ r = [originalHead |-> 0, originalDirty |-> FALSE,
            originalStatusSig |-> StatusFingerprint(EmptyTree, EmptyTree, EmptyTree, {}),
            newSig |-> StatusFingerprint(EmptyTree, EmptyTree, EmptyTree, {}),
            tempWorktree |-> FALSE, keep |-> FALSE,
            untracked |-> {}, baselineRef |-> EmptyTree,
            cmdResult |-> [exitCode |-> 0, timedOut |-> FALSE],
            execsLeft |-> opts.execs, execExit |-> 0,
            patchBytes |-> Diff(EmptyTree, EmptyTree),
            menuPath |-> "default", savedPath |-> "", applied |-> FALSE]

-----------------------------------------------------------------------------
(* How a step ends, and how the calls it makes succeed or fail.            *)

Goto(l) == pc' = l /\ UNCHANGED exit
Stop(code) == pc' = "emit" /\ exit' = code

\* The end of run(): a failed or timed-out command outranks a clean dispatch.
Outcome(code) ==
    IF code # ExitOK THEN code
    ELSE IF r.cmdResult.timedOut THEN ExitTimeout
    ELSE IF r.cmdResult.exitCode # 0 THEN ExitChildFailed
    ELSE ExitOK

IOOK == UNCHANGED budget
IOErr == budget.faults > 0 /\ budget' = [budget EXCEPT !.faults = @ - 1]

\* git runs under exec.CommandContext: a cancelled context refuses to start it
\* and kills the one that runs, so after a signal every git call fails.
GitOK == ~cancelled /\ IOOK
GitErr == (cancelled /\ IOOK) \/ IOErr

CanPrompt ==
    /\ ~opts.noInteractive
    /\ ~opts.json \/ opts.interactive
    /\ opts.interactive \/ opts.tty

\* A prompt reads a line, or the end of the input once the user is done.
Answered == budget.answers > 0 /\ budget' = [budget EXCEPT !.answers = @ - 1]
EndOfInput == UNCHANGED budget

-----------------------------------------------------------------------------
(* Before the worktree: the repository, its HEAD, its status, the policy   *)
(* for a dirty tree.                                                       *)

ResolveRepo ==
    /\ pc = "resolve"
    /\ \/ GitOK /\ Goto("head")
       \/ GitErr /\ \E code \in {ExitGeneralFailure, ExitNotInRepo, ExitGitMissing} :
                        Stop(code)
    /\ UNCHANGED <<r, origin, worktree, out, env>>

\* slip: the commit the run starts from is not remembered
ReadHeadForgotten ==
    /\ pc = "head" /\ GitOK /\ Goto("status") /\ UNCHANGED r
    /\ UNCHANGED <<origin, worktree, out, env>>

ReadHead ==
    /\ pc = "head"
    /\ \/ GitOK /\ Goto("status") /\ r' = [r EXCEPT !.originalHead = Len(commits)]
       \/ GitErr /\ Stop(ExitGeneralFailure) /\ UNCHANGED r
    /\ UNCHANGED <<origin, worktree, out, env>>

DirtyPolicy(dirty) ==
    IF ~dirty THEN Goto("setup")
    ELSE IF opts.failOnDirty THEN Stop(ExitDirty)
    ELSE IF opts.allowDirty THEN Goto("setup")
    ELSE IF CanPrompt THEN Goto("confirmDirty")
    ELSE Stop(ExitDirty)

ReadStatus ==
    /\ pc = "status"
    /\ \/ /\ GitOK
          /\ r' = [r EXCEPT !.originalStatusSig = Status,
                            !.originalDirty = IsDirty(Status)]
          /\ DirtyPolicy(IsDirty(Status))
       \/ GitErr /\ Stop(ExitGeneralFailure) /\ UNCHANGED r
    /\ UNCHANGED <<origin, worktree, out, env>>

ConfirmDirty ==
    /\ pc = "confirmDirty"
    /\ \/ Answered /\ (Goto("setup") \/ Stop(ExitDirty))
       \/ EndOfInput /\ Stop(ExitDirty)
    /\ UNCHANGED <<r, origin, worktree, out, env>>

-----------------------------------------------------------------------------
(* The disposable worktree and the replay of a dirty tree into it.  Every  *)
(* read of the original repository is a step of its own: nothing keeps it  *)
(* still meanwhile.                                                        *)

CheckedOut(base) == [dir |-> TRUE, handle |-> TRUE, index |-> base, tree |-> base]

\* tempWorktree is set before `git worktree add` runs; killed midway, git
\* leaves the handle, with or without the directory.  Once it is there, git may
\* still not be found for it.
SetupWorktree ==
    /\ pc = "setup"
    /\ LET base == commits[r.originalHead]
       IN  \/ IOErr /\ Stop(ExitGeneralFailure) /\ UNCHANGED <<r, worktree>>
           \/ /\ GitOK /\ worktree' = CheckedOut(base)
              /\ r' = [r EXCEPT !.tempWorktree = TRUE, !.baselineRef = base]
              /\ Goto(IF r.originalDirty THEN "replayTracked" ELSE "policy")
           \/ /\ GitErr /\ r' = [r EXCEPT !.tempWorktree = TRUE]
              /\ \/ UNCHANGED worktree
                 \/ ~cancelled /\ worktree' = CheckedOut(base)     \* NewWithBin
                 \/ cancelled /\ \E dir \in BOOLEAN :
                        worktree' = [NoWorktree EXCEPT !.dir = dir, !.handle = TRUE]
              /\ Stop(ExitGeneralFailure)
    /\ UNCHANGED <<origin, out, env>>

\* git diff HEAD in the original, applied to the worktree.
TrackedChanges == Diff(HEAD, KnownWork(index, work))

\* ApplyBytesToIndex: git apply --index, or failing that without --index, which
\* leaves the worktree's index behind.
ReplayTracked ==
    /\ pc = "replayTracked"
    /\ LET replayed == ApplyTo(TrackedChanges, worktree.tree, Paths)
       IN  \/ /\ Applies(TrackedChanges, worktree.tree) /\ Goto("listUntracked")
              /\ \/ /\ GitOK
                    /\ worktree' = [worktree EXCEPT !.tree = replayed, !.index = replayed]
                 \/ /\ ~cancelled /\ IOErr
                    /\ worktree' = [worktree EXCEPT !.tree = replayed]
           \/ /\ (GitOK /\ ~Applies(TrackedChanges, worktree.tree)) \/ GitErr
              /\ Stop(ExitGeneralFailure) /\ UNCHANGED worktree
    /\ UNCHANGED <<r, origin, out, env>>

ListUntracked ==
    /\ pc = "listUntracked"
    /\ \/ /\ GitOK /\ Goto("copyUntracked")
          /\ r' = [r EXCEPT !.untracked = LsUntracked(index, work)]
       \/ GitErr /\ Stop(ExitGeneralFailure) /\ UNCHANGED r
    /\ UNCHANGED <<origin, worktree, out, env>>

\* slip: the loop never advances
CopyFirstForever ==
    /\ pc = "copyUntracked" /\ r.untracked # {} /\ IOOK
    /\ UNCHANGED <<pc, exit, r, worktree, origin, out, env>>

\* One file after another; one that has gone since it was listed fails the run,
\* and so does the worktree itself when it is listed (a directory).
CopyUntracked ==
    /\ pc = "copyUntracked"
    /\ \/ \E p \in r.untracked :
            \/ /\ IOOK /\ Exists(work, p)
               /\ worktree' = [worktree EXCEPT !.tree =
                    [c \in Cells |-> IF PathOf[c] = p THEN work[c] ELSE @[c]]]
               /\ r' = [r EXCEPT !.untracked = @ \ {p}]
               /\ UNCHANGED <<pc, exit>>
            \/ /\ (IOOK /\ ~Exists(work, p)) \/ IOErr
               /\ Stop(ExitGeneralFailure) /\ UNCHANGED <<r, worktree>>
       \/ WorktreeShows /\ IOOK /\ Stop(ExitGeneralFailure) /\ UNCHANGED <<r, worktree>>
    /\ UNCHANGED <<origin, out, env>>

\* git add -A in the worktree.
BaselineTree == StageAll(worktree.index, worktree.tree, FALSE)

\* slip: the baseline is committed but the patch still diffed from HEAD
CommitBaselineUnused ==
    /\ pc = "copyUntracked" /\ r.untracked = {} /\ ~WorktreeShows /\ GitOK
    /\ worktree' = [worktree EXCEPT !.index = BaselineTree]
    /\ Goto("policy")
    /\ UNCHANGED <<r, origin, out, env>>

CommitBaseline ==
    /\ pc = "copyUntracked" /\ r.untracked = {} /\ ~WorktreeShows
    /\ \/ /\ GitOK /\ Goto("policy")
          /\ worktree' = [worktree EXCEPT !.index = BaselineTree]
          /\ r' = [r EXCEPT !.baselineRef = BaselineTree]
       \/ GitErr /\ Stop(ExitGeneralFailure) /\ UNCHANGED <<r, worktree>>
    /\ UNCHANGED <<origin, out, env>>

-----------------------------------------------------------------------------
(* The command, the --exec follow-ups and the snapshot.                    *)

\* run.Run: with the context cancelled the command is not even started.
Start(running, refused) ==
    IF cancelled
    THEN /\ Goto(refused)
         /\ r' = [r EXCEPT !.cmdResult.exitCode = ExitGeneralFailure]
    ELSE Goto(running) /\ UNCHANGED r

RunChildCommand ==
    /\ pc = "policy" /\ IOOK
    /\ IF opts.tui /\ (opts.mode = "strict" \/ (opts.mode = "ask" /\ ~CanPrompt))
       THEN Stop(ExitInvalidUsage) /\ UNCHANGED r
       ELSE IF opts.tui /\ opts.mode = "ask"
       THEN Goto("confirmPTY") /\ UNCHANGED r
       ELSE Start("child", "execs")
    /\ UNCHANGED <<origin, worktree, out, env>>

ConfirmPTY ==
    /\ pc = "confirmPTY"
    /\ \/ Answered /\ (Start("child", "execs") \/ (Stop(ExitInvalidUsage) /\ UNCHANGED r))
       \/ EndOfInput /\ Stop(ExitInvalidUsage) /\ UNCHANGED r
    /\ UNCHANGED <<origin, worktree, out, env>>

\* The child, or a follow-up, changes a region of its working tree.
CommandWrites ==
    /\ pc \in {"child", "exec"} /\ budget.writes > 0
    /\ budget' = [budget EXCEPT !.writes = @ - 1]
    /\ \E c \in Cells, v \in Values \cup {None} :
        /\ worktree.tree[c] # v
        /\ worktree' = [worktree EXCEPT !.tree[c] = v]
        /\ seen' = [seen EXCEPT !.wrote = @ \cup {c}]
    /\ UNCHANGED <<pc, exit, r, origin, out, opts, cancelled>>

\* TimedOut is read from the context after the command has been reaped: a
\* command that ends by itself at the deadline may count as timed out.
ChildExits ==
    /\ pc = "child" /\ IOOK
    /\ \E code \in {0, 1}, late \in BOOLEAN :
        /\ late => opts.timeout
        /\ r' = [r EXCEPT !.cmdResult = [exitCode |-> code, timedOut |-> late]]
    /\ Goto("execs")
    /\ UNCHANGED <<origin, worktree, out, env>>

ExecExits ==
    /\ pc = "exec" /\ IOOK
    /\ \E code \in {0, 1} :
        r' = [r EXCEPT !.execsLeft = @ - 1,
                       !.execExit = IF @ = 0 THEN code ELSE @]
    /\ Goto("execs")
    /\ UNCHANGED <<origin, worktree, out, env>>

\* slips: the command's context is derived from only one of the two
KillOnSignal ==
    /\ pc = "child" /\ IOOK /\ cancelled /\ Goto("execs")
    /\ r' = [r EXCEPT !.cmdResult = [exitCode |-> 1, timedOut |-> FALSE]]
    /\ UNCHANGED <<origin, worktree, out, env>>
KillAtDeadline ==
    /\ pc = "child" /\ IOOK /\ opts.timeout /\ Goto("execs")
    /\ r' = [r EXCEPT !.cmdResult = [exitCode |-> 1, timedOut |-> TRUE]]
    /\ UNCHANGED <<origin, worktree, out, env>>

\* The deadline or the signal kills what runs.
KillCommand ==
    /\ pc \in {"child", "exec"} /\ IOOK
    /\ cancelled \/ opts.timeout
    /\ IF pc = "child"
       THEN \E late \in BOOLEAN :
                /\ late => opts.timeout
                /\ ~late => cancelled
                /\ r' = [r EXCEPT !.cmdResult = [exitCode |-> 1, timedOut |-> late]]
       ELSE r' = [r EXCEPT !.execsLeft = @ - 1, !.execExit = 1]
    /\ Goto("execs")
    /\ UNCHANGED <<origin, worktree, out, env>>

\* Follow-ups run one after another, failing ones too, but not after a timeout;
\* at the end the first failure becomes the command's if that had none.
RunExecCommands ==
    /\ pc = "execs" /\ IOOK
    /\ IF r.execsLeft = 0 \/ r.cmdResult.timedOut
       THEN /\ Goto("snapshot")
            /\ r' = [r EXCEPT !.cmdResult.exitCode = IF @ = 0 THEN r.execExit ELSE @]
       ELSE IF cancelled
       THEN /\ UNCHANGED <<pc, exit>>
            /\ r' = [r EXCEPT !.execsLeft = @ - 1, !.execExit = 1]
       ELSE Goto("exec") /\ UNCHANGED r
    /\ UNCHANGED <<origin, worktree, out, env>>

\* A snapshot that fails is a warning; what it had written, if anything, stays.
WriteSnapshot ==
    /\ pc = "snapshot" /\ Goto("capture")
    /\ \/ opts.snapshot = "none" /\ IOOK /\ UNCHANGED files
       \/ opts.snapshot # "none" /\ (IOOK \/ IOErr) /\ files' = files \cup {"snapshot"}
       \/ opts.snapshot # "none" /\ IOErr /\ UNCHANGED files
    /\ UNCHANGED <<r, commits, index, work, worktree, out, env>>

-----------------------------------------------------------------------------
(* The patch.                                                              *)

Selected ==
    (IF opts.includes = {} THEN Paths ELSE opts.includes) \ opts.excludes

\* slip: the pathspecs are not passed on
CapturedEverything ==
    LET staged == StageAll(worktree.index, worktree.tree, opts.includeIgnored)
        forward == Diff(r.baselineRef, staged)
    IN  IF opts.reverse THEN Reversed(forward) ELSE forward

\* git add -A [-f]; git diff --cached [-R] baselineRef -- pathspecs
CapturedPatch ==
    LET staged == StageAll(worktree.index, worktree.tree, opts.includeIgnored)
        forward == Limit(Diff(r.baselineRef, staged), Selected)
    IN  IF opts.reverse THEN Reversed(forward) ELSE forward

Interactive ==
    CanPrompt /\ ~opts.json /\ ~opts.apply /\ opts.save = "none" /\ ~opts.stdout

\* slip: nothing is dispatched when the command has failed
CaptureOnSuccess ==
    /\ pc = "capture" /\ GitOK /\ r' = [r EXCEPT !.patchBytes = CapturedPatch]
    /\ IF PatchIsEmpty(CapturedPatch) \/ Outcome(ExitOK) # ExitOK
       THEN Stop(Outcome(ExitOK))
       ELSE Goto(IF Interactive THEN "menu" ELSE "save")
    /\ UNCHANGED <<origin, worktree, out, env>>

CapturePatch ==
    /\ pc = "capture"
    /\ \/ /\ GitOK /\ r' = [r EXCEPT !.patchBytes = CapturedPatch]
          /\ IF PatchIsEmpty(CapturedPatch) THEN Stop(Outcome(ExitOK))
             ELSE Goto(IF Interactive THEN "menu" ELSE "save")
       \/ GitErr /\ Stop(ExitGeneralFailure) /\ UNCHANGED r
    /\ UNCHANGED <<origin, worktree, out, env>>

-----------------------------------------------------------------------------
(* What is done with it: without a user, save, print, apply in that order; *)
(* with one, the menu.                                                     *)

\* SavePatchAtomic: a temporary file and a rename, so all of it or nothing.
SaveTo(f) ==
    IOOK /\ files' = files \cup {f} /\ r' = [r EXCEPT !.savedPath = f]
SaveFails == IOErr /\ UNCHANGED <<files, r>>

SaveRequested ==
    /\ pc = "save"
    /\ \/ opts.save = "none" /\ IOOK /\ UNCHANGED <<files, r>> /\ Goto("stdout")
       \/ opts.save # "none" /\ SaveTo("save") /\ Goto("stdout")
       \/ opts.save # "none" /\ SaveFails /\ Stop(ExitGeneralFailure)
    /\ UNCHANGED <<commits, index, work, worktree, out, env>>

WriteStdout ==
    /\ pc = "stdout"
    /\ \/ IOOK /\ Goto(IF opts.apply THEN "driftStatus" ELSE "fallback")
          /\ out' = [out EXCEPT !.printed = opts.stdout]
       \/ opts.stdout /\ IOErr /\ Stop(ExitGeneralFailure) /\ UNCHANGED out
    /\ UNCHANGED <<r, origin, worktree, env>>

\* slip: --json alone counts as an action
SavesUnlessJSON == r.savedPath = "" /\ ~opts.stdout /\ ~opts.json

\* Nothing was asked for, or only JSON: the patch goes to .patchrun/.
SavesByDefault ==
    r.savedPath = "" /\ (opts.json \/ ~opts.stdout)

DefaultSave ==
    /\ pc = "fallback"
    /\ \/ ~SavesByDefault /\ IOOK /\ UNCHANGED <<files, r>> /\ Stop(Outcome(ExitOK))
       \/ SavesByDefault /\ SaveTo("default") /\ Stop(Outcome(ExitOK))
       \/ SavesByDefault /\ SaveFails /\ Stop(ExitGeneralFailure)
    /\ UNCHANGED <<commits, index, work, worktree, out, env>>

\* slip: discarding reported as success
DiscardSucceeds == ExitOK

DiscardCode ==
    IF r.cmdResult.exitCode # 0 THEN ExitChildFailed ELSE ExitUserDiscard

AskMenu ==
    /\ pc = "menu"
    /\ \/ /\ Answered
          /\ \E a \in Answers :
                /\ seen' = [seen EXCEPT !.asked = @ \cup {a}]
                /\ r' = [r EXCEPT !.keep = @ \/ a = "keep"]
                /\ CASE a = "apply"   -> Goto("driftStatus")
                     [] a = "save"    -> Goto("askPath")
                     [] a = "discard" -> Stop(DiscardCode)
                     [] OTHER         -> UNCHANGED <<pc, exit>>
       \/ EndOfInput /\ Stop(ExitUserDiscard) /\ UNCHANGED <<r, seen>>
       \/ IOErr /\ Stop(ExitGeneralFailure) /\ UNCHANGED <<r, seen>>
    /\ UNCHANGED <<origin, worktree, out, opts, cancelled>>

AskPath ==
    /\ pc = "askPath"
    /\ \/ Answered /\ \E f \in {"default", "elsewhere"} :
            r' = [r EXCEPT !.menuPath = f] /\ Goto("menuSave")
       \/ EndOfInput /\ Stop(ExitGeneralFailure) /\ UNCHANGED r
    /\ UNCHANGED <<origin, worktree, out, env>>

MenuSave ==
    /\ pc = "menuSave"
    /\ \/ SaveTo(r.menuPath) /\ Goto("menu")
       \/ SaveFails /\ Stop(ExitGeneralFailure)
    /\ UNCHANGED <<commits, index, work, worktree, out, env>>

-----------------------------------------------------------------------------
(* applyToOriginal: look for drift, check, write.                          *)

DriftStatus ==
    /\ pc = "driftStatus"
    /\ \/ GitOK /\ Goto("driftHead") /\ r' = [r EXCEPT !.newSig = Status]
       \/ GitErr /\ Stop(ExitGeneralFailure) /\ UNCHANGED r
    /\ UNCHANGED <<origin, worktree, out, env>>

\* slip: only the status is compared
DriftedStatus == r.newSig # r.originalStatusSig

Drifted ==
    Len(commits) # r.originalHead \/ r.newSig # r.originalStatusSig

DriftHead ==
    /\ pc = "driftHead"
    /\ \/ GitOK /\ Goto(IF Drifted THEN "drifted" ELSE "check")
       \/ GitErr /\ Stop(ExitGeneralFailure)
    /\ UNCHANGED <<r, origin, worktree, out, env>>

\* git apply [--reverse] of the temporary copy of patchBytes.
Effect == IF opts.reverse THEN Reversed(r.patchBytes) ELSE r.patchBytes

ApplyCheck ==
    /\ pc = "check"
    /\ \/ IOErr /\ Stop(ExitGeneralFailure)     \* WriteTempPatch
       \/ /\ GitOK /\ Applies(Effect, work)
          /\ IF opts.check THEN Stop(Outcome(ExitOK)) ELSE Goto("apply")
       \/ (GitOK /\ ~Applies(Effect, work)) /\ Goto("refused")
       \/ GitErr /\ Goto("refused")
    /\ UNCHANGED <<r, origin, worktree, out, env>>

\* slip: the patch is saved after drift but not after a failed check
AutoSaveOnDrift ==
    /\ pc \in {"drifted", "refused"}
    /\ IF pc = "drifted" /\ r.savedPath = "" THEN SaveTo("default") \/ SaveFails
       ELSE IOOK /\ UNCHANGED <<files, r>>
    /\ IF pc = "refused" /\ opts.threeWay /\ ~opts.check
       THEN Goto("threeWay") ELSE Stop(ExitApplyFailed)
    /\ UNCHANGED <<commits, index, work, worktree, out, env>>

\* slip: --apply-3way looked at before --check
MergeBeforeCheck ==
    /\ pc \in {"drifted", "refused"}
    /\ IF r.savedPath = "" THEN SaveTo("default") \/ SaveFails
       ELSE IOOK /\ UNCHANGED <<files, r>>
    /\ IF pc = "refused" /\ opts.threeWay THEN Goto("threeWay") ELSE Stop(ExitApplyFailed)
    /\ UNCHANGED <<commits, index, work, worktree, out, env>>

\* The patch is kept where nothing else kept it; a failure to is ignored.
AutoSave ==
    /\ pc \in {"drifted", "refused"}
    /\ IF r.savedPath = ""
       THEN SaveTo("default") \/ SaveFails
       ELSE IOOK /\ UNCHANGED <<files, r>>
    /\ IF pc = "refused" /\ opts.threeWay /\ ~opts.check
       THEN Goto("threeWay") ELSE Stop(ExitApplyFailed)
    /\ UNCHANGED <<commits, index, work, worktree, out, env>>

\* git died before it had written all the files of `result`.
PartlyWritten(result, t) ==
    \E ps \in SUBSET Paths :
        work' = [c \in Cells |-> IF PathOf[c] \in ps THEN result[c] ELSE t[c]]

Applied(result) ==
    /\ work' = result
    /\ r' = [r EXCEPT !.applied = TRUE]
    /\ Stop(Outcome(ExitOK))

\* slip: git apply --reject
ApplyWhatFits ==
    /\ pc = "apply" /\ GitOK
    /\ IF Applies(Effect, work) THEN Applied(ApplyTo(Effect, work, Paths))
       ELSE Stop(ExitApplyFailed) /\ PartlyWritten(ApplyTo(Effect, work, Paths), work)
            /\ UNCHANGED r
    /\ UNCHANGED <<commits, index, files, worktree, out, env>>

\* slip: r.applied is set before the error of git apply is looked at
AppliedTooSoon ==
    /\ pc = "apply" /\ r' = [r EXCEPT !.applied = TRUE]
    /\ \/ /\ GitOK /\ Applies(Effect, work) /\ Stop(Outcome(ExitOK))
          /\ work' = ApplyTo(Effect, work, Paths)
       \/ /\ (GitOK /\ ~Applies(Effect, work)) \/ GitErr
          /\ Stop(ExitApplyFailed) /\ UNCHANGED work
    /\ UNCHANGED <<commits, index, files, worktree, out, env>>

Apply ==
    /\ pc = "apply"
    /\ LET result == ApplyTo(Effect, work, Paths)
       IN  \/ GitOK /\ Applies(Effect, work) /\ Applied(result)
           \/ GitOK /\ ~Applies(Effect, work) /\ Stop(ExitApplyFailed)
              /\ UNCHANGED <<work, r>>
           \/ GitErr /\ Stop(ExitApplyFailed) /\ UNCHANGED r
              /\ IF Applies(Effect, work) THEN PartlyWritten(result, work)
                 ELSE UNCHANGED work
    /\ UNCHANGED <<commits, index, files, worktree, out, env>>

Patched == {PathOf[c] : c \in DOMAIN Effect}

\* git apply --3way merges into files of the index, which have to be in the tree
\* as they are in the index; one that has gone it checks out first.
Restored(ps) ==
    [c \in Cells |-> IF PathOf[c] \in ps /\ ~Exists(work, PathOf[c])
                     THEN index[c] ELSE work[c]]

\* A file that git does not know is only created, and a deletion never merged.
Refuses3Way ==
    \E p \in Patched :
        \/ Exists(index, p) /\ Exists(work, p) /\ ~Same(index, work, p)
        \/ ~Exists(index, p) /\ (Exists(work, p) \/ ~CreatesFile(Effect, p))
        \/ DeletesFile(Effect, p) /\ \E c \in CellsOf(p) : Effect[c].old # Restored(Paths)[c]

Conflicts(t) == \E c \in DOMAIN Effect : t[c] \notin {Effect[c].old, Effect[c].new}

\* (The unmerged entries that conflicts leave in the index are left out.)
Apply3Way ==
    /\ pc = "threeWay"
    /\ LET result == Merge3(Effect, Restored(Patched))
       IN  \/ /\ GitOK /\ ~Refuses3Way /\ ~Conflicts(Restored(Patched)) /\ Applied(result)
              /\ index' = [c \in Cells |-> IF PathOf[c] \in Patched THEN result[c]
                                           ELSE index[c]]
           \/ /\ GitOK /\ ~Refuses3Way /\ Conflicts(Restored(Patched)) /\ Stop(ExitApplyFailed)
              /\ work' = result /\ UNCHANGED <<index, r>>
           \/ /\ GitOK /\ Refuses3Way /\ Stop(ExitApplyFailed)
              /\ \E ps \in SUBSET Patched : work' = Restored(ps)
              /\ UNCHANGED <<index, r>>
           \/ /\ GitErr /\ Stop(ExitApplyFailed) /\ UNCHANGED <<index, r>>
              /\ \/ \E ps \in SUBSET Patched : work' = Restored(ps)
                 \/ ~Refuses3Way /\ PartlyWritten(result, Restored(Patched))
    /\ UNCHANGED <<commits, files, worktree, out, env>>

-----------------------------------------------------------------------------
(* execute(): report, then clean up.                                       *)

EmitJSON ==
    /\ pc = "emit" /\ Goto("cleanup") /\ IOOK
    /\ out' = IF ~opts.json THEN out
              ELSE [out EXCEPT !.json =
                     [emitted |-> TRUE, applied |-> r.applied,
                      kept |-> r.keep \/ opts.keep,
                      saved |-> r.savedPath, exit |-> exit]]
    /\ UNCHANGED <<r, origin, worktree, env>>

\* slips: no fallback when git fails; [k] honoured but not --keep
RemoveWorktreeOnce ==
    /\ pc = "cleanup" /\ Goto("done")
    /\ IF ~r.tempWorktree \/ opts.keep \/ r.keep THEN IOOK /\ UNCHANGED worktree
       ELSE (GitOK /\ worktree' = NoWorktree) \/ (GitErr /\ UNCHANGED worktree)
    /\ UNCHANGED <<r, origin, out, env>>
RemoveUnlessKept ==
    /\ pc = "cleanup" /\ Goto("done") /\ GitOK
    /\ worktree' = IF r.keep THEN worktree ELSE NoWorktree
    /\ UNCHANGED <<r, origin, out, env>>

\* git worktree remove --force; killed midway it may have got anywhere.
RemoveWorktree ==
    /\ pc = "cleanup"
    /\ IF ~r.tempWorktree \/ opts.keep \/ r.keep
       THEN IOOK /\ Goto("done") /\ UNCHANGED worktree
       ELSE \/ GitOK /\ Goto("done") /\ worktree' = NoWorktree
            \/ GitErr /\ Goto("removeAll")
               /\ \/ UNCHANGED worktree
                  \/ cancelled /\ worktree' = NoWorktree
    /\ UNCHANGED <<r, origin, out, env>>

\* rm -rf, then git worktree prune, whose failure nobody hears of.
RemoveAll ==
    /\ pc = "removeAll" /\ Goto("done")
    /\ \/ IOErr /\ UNCHANGED worktree
       \/ GitOK /\ worktree' = NoWorktree
       \/ GitErr /\ worktree' = [NoWorktree EXCEPT !.handle = worktree.handle]
    /\ UNCHANGED <<r, origin, out, env>>

-----------------------------------------------------------------------------
(* Everybody else.                                                         *)

\* An editor, or the command through PATCHRUN_ORIGINAL_ROOT.
OthersEdit ==
    /\ budget.edits > 0 /\ pc # "done"
    /\ budget' = [budget EXCEPT !.edits = @ - 1]
    /\ \E c \in Cells, v \in Values \cup {None} :
        work[c] # v /\ work' = [work EXCEPT ![c] = v]
    /\ UNCHANGED <<opts, pc, exit, r, commits, index, files, worktree, out, cancelled, seen>>

\* git add, git restore --staged, git rm --cached
OthersStage ==
    /\ budget.edits > 0 /\ pc # "done"
    /\ budget' = [budget EXCEPT !.edits = @ - 1]
    /\ \E p \in Paths, t \in {work, HEAD, EmptyTree} :
        /\ ~Same(index, t, p)
        /\ index' = [c \in Cells |-> IF PathOf[c] = p THEN t[c] ELSE index[c]]
    /\ UNCHANGED <<opts, pc, exit, r, commits, work, files, worktree, out, cancelled, seen>>

UntilGate == {"status", "confirmDirty", "setup", "replayTracked", "listUntracked",
              "copyUntracked", "policy", "confirmPTY", "child", "execs", "exec",
              "snapshot", "capture", "menu", "askPath", "menuSave", "save",
              "stdout", "fallback", "driftStatus", "driftHead"}

\* git commit in the original, perhaps after git add -A (patchrun's own files
\* left out).
OthersCommit ==
    /\ budget.edits > 0 /\ pc # "done"
    /\ budget' = [budget EXCEPT !.edits = @ - 1]
    /\ index' \in {index, StageAll(index, work, FALSE)}
    /\ commits' = Append(commits, index')
    /\ seen' = [seen EXCEPT !.moved =
            IF pc \in UntilGate THEN "before"
            ELSE IF @ = "no" /\ pc \notin {"resolve", "head"} THEN "after" ELSE @]
    /\ UNCHANGED <<opts, pc, exit, r, work, files, worktree, out, cancelled>>

\* Only the first signal is read from the channel.
Interrupt ==
    /\ budget.signals > 0 /\ ~cancelled /\ pc # "done"
    /\ budget' = [budget EXCEPT !.signals = @ - 1]
    /\ cancelled' = TRUE
    /\ UNCHANGED <<opts, pc, exit, r, origin, worktree, out, seen>>

Exited == pc = "done" /\ UNCHANGED vars

\* What the process does without waiting for anybody.
Program ==
    \/ ResolveRepo \/ ReadHead \/ ReadStatus \/ SetupWorktree
    \/ ReplayTracked \/ ListUntracked \/ CopyUntracked \/ CommitBaseline
    \/ RunChildCommand \/ KillCommand \/ RunExecCommands \/ WriteSnapshot
    \/ CapturePatch \/ SaveRequested \/ WriteStdout \/ DefaultSave \/ MenuSave
    \/ DriftStatus \/ DriftHead \/ ApplyCheck \/ AutoSave \/ Apply \/ Apply3Way
    \/ EmitJSON \/ RemoveWorktree \/ RemoveAll

\* What it waits for: answers, and commands that end by themselves.
Prompts == ConfirmDirty \/ ConfirmPTY \/ AskMenu \/ AskPath
CommandEnds == ChildExits \/ ExecExits

Others == OthersEdit \/ OthersStage \/ OthersCommit \/ Interrupt

Next == Program \/ Prompts \/ CommandEnds \/ CommandWrites \/ Others \/ Exited

Spec == Init /\ [][Next]_vars

\* The process runs, but the user may walk away from a prompt and the command
\* may hang.
UnattendedSpec == Spec /\ WF_vars(Program)
=============================================================================
