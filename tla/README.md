# patchrun in TLA+

patchrun runs a command in a disposable Git worktree, captures what the command
changed as a patch, and then saves, prints or applies that patch to the original
repository. These modules model what a run does to the repository, to the disk, to
its terminal and to other runs, check it with TLC, and prove part of it with TLAPS.

- [The system](#the-system): components, state, hard behaviours
- [The modules](#the-modules): which module models what, and how it maps to the code
- [The runs](#the-runs): bounds, fairness, what each run shows
- [The proofs](#the-proofs)
- [Where the code and its documentation disagree](#where-the-code-and-its-documentation-disagree)
- [What is not modelled](#what-is-not-modelled) and [the plan](#plan)

To check: `tlc -config <run>.cfg <module>.tla` with the run's module (second column
below) and `tlapm <module>.tla` for each `...Proofs` module. `PROJECT.json` lists the
runs, the source lines each definition stands for, the hazards and the theorems.

## The system

| Component | State it keeps | Operations | Interacts with |
|---|---|---|---|
| Run pipeline, `internal/app/app.go` (`Run`, `execute`, `run`) | the `runner` struct: original HEAD, status fingerprint, baseline commit, command result, patch, saved path, applied, keep | resolve the repository, read HEAD and status, dirty policy, set up the worktree, replay the baseline, run the command, follow-ups, snapshot, capture, dispatch, report, clean up | all below |
| Dispatch and apply gate (`dispatch*`, `applyToOriginal`) | none of its own | save, print, apply, menu; drift check, `git apply --check`, `git apply`, `--3way`, automatic save | Git, the user |
| Git layer, `internal/gitx` | none; the repository and `.git/worktrees` are the state | status, HEAD, diff, apply, worktree add/remove, baseline commit, atomic save | `git` processes under one context |
| Command execution, `internal/run` | the child, its process group, its PTY | run with a deadline, kill | context, stdin |
| Options, `internal/app/options.go` | the parsed `Options` | parse and refuse | |
| Prompts, `internal/app/prompt.go` | a buffered reader of stdin per prompter | confirm, menu, path | stdin, shared with the command |
| Copies, `internal/copyx` | | copy one file | replay, snapshot |
| Run directory utilities, `internal/app/utility.go` | the parent directory of all worktrees | `--list-runs`, `--prune`, sidecar files | other runs |
| Presentation, `internal/textui`, `completion.go`, `cmd/patchrun` | | summary, colours, diff, completion scripts | |

### What is hard about it

The pipeline is sequential, but what it works on is not its own. Between any two
of its Git calls the user, an editor, or the command itself (it gets
`PATCHRUN_ORIGINAL_ROOT`) may edit, stage or commit in the original repository. One
signal may cancel the context under which *every* Git call is made, the ones of
cleanup included. Any call may fail. The result of a run is spread over an exit
code, a JSON report, a file, stdout and the tree, and these have to agree. The
hazards are listed, each at its line, in `PROJECT.json`; the main ones are

1. **time of check, time of use**: status, HEAD, `apply --check` and `apply` are
   four reads and a write of a tree that others may change between them;
2. **replay of a moving tree**: the baseline is read with a diff, a listing and
   one copy per file, and whatever mixture comes out must not end up in the patch;
3. **failure after the patch exists**: it must not be lost, and not be reported
   as applied;
4. **cancellation**: after a signal no Git call works any more;
5. **exit codes**: four sources (dispatch, deadline, command, follow-ups) are
   folded into one;
6. **stdin**: prompts with read-ahead, the PTY pump and the command share one
   stream, and whether they may is decided before the command runs;
7. **many runs** over one parent directory, with `--prune` among them, and no lock;
8. **files**: several writers, one clock of whole seconds, failures and crashes
   between two system calls;
9. **killing a command** that is just ending, has helpers, is stopped, or outlives
   SIGTERM.

### What makes each component correct

- pipeline: the patch is what the command did and nothing else; exit 0 means that
  command and delivery both succeeded; a failed command does not cost the patch;
  the worktree goes, unless it is to be kept; every run ends;
- gate: the tree is written at most once, only with consent, only after HEAD was
  found where it was, a refused patch is on disk, and `--check` tells what apply would do;
- Git layer: what is captured, checked and applied is one patch, whatever reads and
  fallbacks lie between;
- execution: a deadline or a signal ends the command and its group, the terminal is
  given back, and a killed command is no success;
- stdin: the menu hears the answers that are meant for it;
- files: a reader finds a whole patch or none, and `git apply` that of its own run;
- parent directory: no run loses its worktree to another's cleanup, `--prune` removes
  and forgets what was at rest, and a run leaves nothing behind;
- parsers: what is parsed is what Git has printed, or an error;
- report: what the JSON says is still true when the process has gone.

## The modules

| Module | Models |
|---|---|
| `Repo` | data: trees, status fingerprints, patches, and what the Git commands compute from them |
| `Runner` | one run, one action per call that reads or writes outside the process |
| `PatchGate` | abstract: what a run is to the repository it runs in |
| `RunnerProps` | the properties of `Runner`, the refinement of `PatchGate`, and the documentation's statements the code does not meet |
| `Exec` | `run.Run`: the command, its group, the watcher of the context, PTY and pump |
| `Session` | one patchrun and its stdin: the questions, the command (`Exec`) and the menu one after another |
| `Pool` | several runs, `--prune` and `--list-runs` over one parent directory and `.git/worktrees` |
| `Files` | the three ways patchrun writes a file, by several processes on one disk |
| `PatchStore` | abstract: what saving patches promises to whoever reads them |
| `GitOutput` | the `-z` output of Git, its parsers and the totals |
| `...Props` | the properties of the module of that name |
| `MC...` | instances for TLC (`Session` needs none) |
| `...Proofs` | theorems |

`Runner` EXTENDS `Repo`, `Session` EXTENDS `Exec`; `RunnerProps` and `FilesProps`
instantiate `PatchGate` and `PatchStore` with refinement mappings. The modules meet
where one takes for a single step what another takes apart: `Runner` has one action
for a whole save (`SaveTo`), which `Files` shows to be what a reader sees;
`SetupWorktree` and `RemoveWorktree` are one process's view of `Pool`; `ChildExits`
and `KillCommand` are the outcomes of `Exec`; the answers of its prompts are those
that arrive in `Session`; its status and drift check read what `GitOutput` parses.

### Repo

A file is a set of *cells*: a cell is a region of lines that one hunk and its
context cover. A tree maps cells to contents, and a file exists when one of its
cells does. A patch maps the cells it mentions to old and new content; one that
creates or deletes a file mentions all of its cells. `Applies` is
`git apply --check`, `ApplyTo` is `git apply`, `Merge3` is `git apply --3way`.

Commit, index and working tree are three trees. `StatusFingerprint` gives each file
what `git status` gives it: a letter for HEAD against the index and one for the index
against the working tree, and nothing of the content. So a bare `git add` during the
run is drift and a second change to a dirty file is not: that is what the drift check
can see. What patchrun itself puts into the repository (a saved patch, a snapshot, a
worktree under a `--worktree-dir` that lies inside) adds entries of its own.
`git diff HEAD` compares the files the index knows, `git ls-files --others` lists those
it does not, and `StageAll` is `git add -A` on top of an index, which keeps an ignored
file that is already there.

### Runner

`pc` names the call the runner makes next and `r` holds the fields of the Go
struct. `commits` is the history of the original repository (it only grows; the
model has no `git reset`), `index` and `work` its index and working tree, `files` what
patchrun has written beside it, `worktree` the disposable worktree: its directory, its
handle in `.git/worktrees`, its index and its tree.

| Code | Actions |
|---|---|
| `run` up to the worktree | `ResolveRepo`, `ReadHead`, `ReadStatus`, `ConfirmDirty` |
| `setupTempWorktree` | `SetupWorktree` |
| `replayBaseline` | `ReplayTracked`, `ListUntracked`, `CopyUntracked` (per file), `CommitBaseline` |
| `runChildCommand`, `shouldUsePTYForChild`, `run.Run` | `RunChildCommand`, `ConfirmPTY`, `CommandWrites`, `ChildExits`, `KillCommand` |
| `runExecCommands` | `RunExecCommands`, `CommandWrites`, `ExecExits`, `KillCommand` |
| `writeSnapshot`, `capturePatch` | `WriteSnapshot`, `CapturePatch` |
| `dispatchNonInteractive` | `SaveRequested`, `WriteStdout`, `DefaultSave` |
| `dispatchInteractive` | `AskMenu`, `AskPath`, `MenuSave` |
| `applyToOriginal` | `DriftStatus`, `DriftHead`, `ApplyCheck`, `AutoSave`, `Apply`, `Apply3Way` |
| `emitJSON`, `cleanup`, `RemoveWorktree` | `EmitJSON`, `RemoveWorktree`, `RemoveAll` |
| everybody else | `OthersEdit`, `OthersStage`, `OthersCommit`, `Interrupt` |

Reads that nobody can come between, and calls whose failure the code ignores and
whose result no decision uses (the branch name, the summary), are not actions of
their own. A Git call succeeds (`GitOK`), fails by itself within the bound on
faults, or fails because the context is cancelled (`GitErr`). A Git process
killed in the middle may have written some of its files (`PartlyWritten`), a
`worktree add` its handle and perhaps the directory. Where the code falls back, the
fallback is part of the action (`ReplayTracked`: `git apply` without `--index`, which
leaves the worktree's index as it was) or an action of its own (`RemoveAll`).

`git apply --3way` works on the index: it refuses a file that differs from its index
entry, restores one that is missing, creates a file Git does not know but merges none
(`Refuses3Way`, `Restored`), and marks what conflicts.

`seen` is history that no guard reads: the cells the commands wrote, what the
user asked for, and whether HEAD moved before or after the drift check.

Definitions marked `slip` are never part of the specification. Each is the form
another definition would have after a plausible mistake (a dropped guard, a
missing fallback, a swapped order); putting it in place of the original makes the
property named in `PROJECT.json` fail, which shows that the property can.

### PatchGate

To the repository, a run is: remember HEAD, produce a patch, perhaps ask for
consent, look whether HEAD is still where it was, and write once: of the patch, all
or (when Git dies) some files, with `--apply-3way` conflict markers and a missing file
brought back, and nothing else. `ImplementsGate` says
that `Runner` does no more than this, with `base` the remembered HEAD, `patch`
what `git apply` is made to do, and `consent` `--apply` or `[a]` without `--check`.

### Exec and Session

Processes are `leader` (the command), `helper`s in its group, the goroutine of
`run.Run` (`rpc`), os/exec's `watcher` of the context and the PTY's `pump`. The
watcher may find the command running, stopped, just ended or reaped; it sends SIGTERM
to the group and, in a second call, SIGKILL to the command alone. Between the two a
command may end, or go on and fork a helper that gets neither (`stray`). `Kill` and
`Collect` race as they do in os/exec. A line of input is known by the reader it is
meant for, and `taken` remembers who took it. At a terminal a read gives one line,
and somebody types what is on display; a pipe is there whole from the start, in the
order in which its writer expects the questions, and a buffered read takes all of it;
`/dev/null` is a character device too, so that patchrun takes it for a terminal. Any
question may hear the end of its input (Ctrl-D).

| Code | Actions |
|---|---|
| `run.Run` | `Start`, `StartFails`, `Collect`, `Classify`, `Deadline` |
| `runWithPTY` | `Start`, `PumpReads`, `PumpWrites`, `PumpEnds`, `Reap`, `ClosePTY`, `Restore` |
| `killProcessGroup` under os/exec | `WatcherTerms`, `WatcherKills`, `WatcherIsLate` |
| dirty question, PTY policy and question, menu | `DirtyCheck`, `DirtyAnswer`, `Policy`, `PTYAnswer`, `AfterRun`, `MenuAnswer` |
| kernel, command, user | `Stops` (SIGTTIN), `Forks`, `HelperDies`, `Reads`, `Exits`, `Types`, `Signal` |

`--exec` follow-ups get no stdin and no PTY, so that `Session` leaves them to `Runner`.

### Pool

The parent holds runs' worktrees, directories of the user's own that are called
`patchrun-...` (`Lookalikes`: `--prune` takes them, as its documentation announces) and
other things (`Foreign`). `IsRunDir` and `safeToRemove` are tests of the name and place
alone. A directory is whole, partly removed, without its `.git` pointer, or gone;
a handle is locked while `git worktree add` is at work. What Git does with these
(`GitAccepts`, `PruneHandles`, what a killed `add` leaves) is taken from its
behaviour, as `src/` only calls it. A run is reduced to what it does to its
directory. Which repository `repoOfWorktree` finds depends on the layout: for a
submodule, or a separate Git directory, three levels above the handle are not it
(`Derivable`). A utility call works through the entries it has read at the start in
any order: nothing depends on it.

| Code | Actions |
|---|---|
| `setupTempWorktree` | `AddHandle`, `MakeDir`, `Checkout`, `AddKilled` |
| `runChildCommand`, `capturePatch` | `StartCommand`, `CapturePatch` |
| `cleanup`, `RemoveWorktree` | `Cleanup`, `GitRemoves`, `RemovesAll`, `GitPrunes` |
| `listRuns`, `pruneRuns` | `ReadDir`, `ListOne`, `PruneOne`, `PruneGit`, `PruneGitRemoves`, `PruneRemovesAll`, `PrunePrunes`, `Report` |

### Files

A name leads to an inode, an inode holds chunks: a temporary file stays open while
others rename, truncate or remove its name. `os.CreateTemp` gives a name of its own,
the copy's temporary name follows from its destination. A job is a save under the
default path (named by the second), a save under a given path, the temporary patch
of an apply, a copy of a file or of a link. Any call fails within the bound, and a
process dies between any two.

### GitOutput

A field is what lies between two NULs, already split in three as the parsers split
it. A path is a field too, so a file may have the name `R  b` or `2<tab>0<tab>b`.
Git prints a status, or one diff twice as `parseSummary` asks for it, record by record;
output may lose fields from its end. Then the loops of the code read it: `ParseNext` is
one round of the parser in question, `SumNext` one of `Sum`. History variables remember
where each record ended (`ends`) and what it counts for (`tally`).

## The runs

| Run | Module | What it shows |
|---|---|---|
| `Apply` | `MCRunner` | `--apply`, with `--apply-3way`, `--check`, `--json` and `--save`, while others edit, stage and commit: only what the command did is in the patch (`OnlyTheCommand`), a commit made meanwhile is not written over (`DriftedHeadIsLeftAlone`), a refused patch is on disk, and the run implements `PatchGate` |
| `Menu` | `MCRunner` | any dialogue at the menu, and the selection by `--include`, `--exclude`, `--include-ignored`, `--apply-3way`, `--reverse`: an apply with nobody else about leaves the tree as the commands left the worktree (`AppliedIsWhatRan`), exit 0 means that the patch went where it was to go, and a checking run, from the menu or with `--apply-3way` too, writes nothing and ends with what apply would have met (`CheckForetells`) |
| `Trouble` | `MCRunner` | one failing call and one signal at any point, an edit, `git add` or commit, and a worktree inside the repository: types, what cleanup leaves, `--keep`, that the report still holds at exit (`ReportHolds`), and that a refusal leaves the tree alone |
| `Policy` | `MCRunner` | all combinations of terminal program, interaction mode, deadline, follow-ups, dirty policy: exit codes, the patch after a failed command, termination; and with a command that never ends and a user who never answers: a deadline ends a run that asks nothing, a signal ends any run unless it waits at a prompt |
| `Session` | `SessionProps` | one stdin, a terminal or a pipe: a menu that hears nothing has lost its lines to an earlier question or a PTY and to nothing else; the terminal is given back; what is killed is no success; the helpers it had when SIGTERM went to its group have been told to end (`NobodyOverlooked`); a PTY run returns although its pump still reads; a deadline or signal ends even a stopped command |
| `Pool` | `MCPool` | two runs and a utility beside the user's own directories: a live or kept worktree is disturbed by nothing but a `--prune`, a `--prune` that reports success has removed what was at rest and Git has forgotten it, the listing is complete, a run leaves nothing behind |
| `Files` | `MCFiles` | two writers: saves implement `PatchStore`, leave no temporary file, stay where they were reported unless two share a second; sidecars match; an apply reads its own patch; a copy is whole |
| `GitOutput` | `MCGitOutput` | outputs of up to two records: what was printed is what is parsed, both listings of a diff agree with each other and with the totals, an output that stops too early never yields a wrong entry |
| `ReverseApply`, `SelfDrift` | `MCRunner` | see [below](#where-the-code-and-its-documentation-disagree) |
| `PumpSteals`, `PruneRace` | `SessionProps`, `MCPool` | see [below](#where-the-code-and-its-documentation-disagree) |

What `ReportHolds` says of `applied`, with nobody else about: `true` is the whole patch on
the tree the run found. `false` with any exit but 6 is that tree untouched. `false` with
exit 6 is, without `--apply-3way`, each file either as it was or as the patch makes it,
and all as they were if no call failed and no signal came: a `git apply` that is killed
between two files has changed the tree and is reported as not applied. A failed 3-way
merge may leave conflict markers under the same exit code.

What the runs do not claim: between `git apply --check` and `git apply` an edit may come
in, and `git apply` is then the last to notice. A question that has read ahead in a
pipe takes the menu's lines with it (`MenuIsHeard` names this case and excludes it).

### Bounds

`Runner`: a file `a` that HEAD has (of one or two regions), a file `b` that it has
not, in one run an ignored file `i`, and two contents. That is enough for a hunk that
applies, one that conflicts, one that is next to a foreign edit in the same file, a
creation, a deletion, an untracked file and an ignored one; the code treats files
one by one and never compares more than two versions. Start states are a clean tree,
a modified one, one with the change staged, one with an untracked file, one with a
deletion, one with a file taken out of the index, and one with an ignored file that is
there or is staged. Bounds: `MaxEdits` edits, `git add`s or commits by others,
`MaxWrites` regions written by the commands, `MaxAnswers` lines typed, `MaxFaults`
failing calls, `MaxSignals` signals. One foreign step suffices for every race of two
steps (before or after any given step of the run), and two show a change and its
reversal; two commands' writes are needed to change one region and then another.

`Session`: one helper, two lines for each reader (`MaxTyped`): one that is lost and
one that is then heard; all combinations of the options that matter.

`Pool`: two runs that may share a repository or not, one of the repositories with a
layout that hides it; one utility call; `MaxTroubles` two, so that the fallback of a
fallback is reached and a signal can meet a failure; one directory of the user's that
looks like a run's, and one other entry. The runs are symmetric: no
action compares them.

`Files`: two processes, one of which writes two chunks and one a single one, so that
a mixture and a tail show; a clock of two seconds; three failures or crashes.

`GitOutput`: two records (a rename and what follows it), three lost fields (a whole
record of a rename).

### Fairness

`Program` is what the process does by itself: weak fairness says only that it is
scheduled and that Git and the file system return. `Prompts` adds that the user
answers or closes stdin, `CommandEnds` that commands end by themselves.
`UnattendedSpec` (in `Policy`) keeps only the first; `Terminates` names the other two
as its assumption. Deadlines and kills belong to `Program`: the Go runtime's timers
and `exec.CommandContext` guarantee them. In `Session`, `FairSpec` assumes that
run.Run's goroutine and os/exec's watcher go on; nothing is assumed of the command,
its helpers, the pump or of who sits at the terminal. Nothing is assumed anywhere of
other people, of faults or of signals. A finished run stutters, as does a session in
which everybody waits for a user who is gone, so deadlock is checked in every run.

## The proofs

`RunnerProofs` begins with `Repo` (any paths, cells and contents): patches, fingerprints
and the operators on them keep their types. Lemmas such as `DiffRoundTrip` (the diff of two
trees applies to the first and gives the second), `ReversedTwice` and `CleanIsHead` (what a
clean status says of a tree) are facts of this model of Git, and what the theorems about
patchrun rest on.

It goes on with `Runner` (any repository, option set and bound; assumptions:
`RepoAssumption` and `RunnerAssumption`, which only type the constants):

- `TypeCorrect`: `Spec => []TypeOK`. `TypeOK` is inductive. Apart from types it says
  that the remembered HEAD is one of the repository's commits, without which the
  worktree could not be set up, and that a follow-up that runs is one that is left,
  without which the count of follow-ups could go below zero.
- `DriftedHeadSafe`: `Spec => []DriftedHeadIsLeftAlone`. The property is not
  inductive: it says nothing of a run that is about to compare HEADs. `HeadGuard`
  adds that after such a commit there are more commits than the runner remembers,
  and that `applied` is set only in a run that is over. `HeadGuardFrame` covers the
  steps that touch nothing of this; `ReadHead`, `DriftHead`, the two writes and
  `OthersCommit` are argued one by one.
- `RefusalSafe`: `Spec => RefusalLeavesTree`. `WhoWrites` shows that only `Apply`,
  `Apply3Way` and other people change the tree.
- `ReverseCancels`: `capturePatch` and `applyToOriginal` both reverse, so what is
  applied is the forward change: the finding `ReverseApply` for every patch.
- `TroublesHold`: what the bounds leave never grows, and a cancelled context is one
  signal spent. `StillAlone` and `StillWell` turn this round: while nothing has been spent
  on others, or on faults and signals, no step so far was one of theirs. The theorems on
  cleanup, on the report and on runs with nobody else about count with it.
- `RunGoesForward`: `Spec => [][Advances]_vars`. `Stage` numbers the calls of a run in
  the order in which `execute` makes them. Each step goes to a later one, or through
  one of the three loops (files to copy, follow-ups, and the menu, which costs a typed
  line a round), or uses up what the command and others may still do.

`GateProofs`: `GateIsKept`, `Spec => ImplementsGate`. Besides types the refinement
needs `GateInv`: nobody is at the gate whose patch is not wanted, nobody passes it
who only checks, and there is no patch before the capture. Each step is then shown
to be one of `PatchGate`, or none, by the phase it starts from and ends in
(`WriteStep` for those that write, `Unnoticed` for those that do not).

`DeliveryProofs`: `SuccessIsDelivery`, `FailureIsNoLoss`. `DeliveryInv` says that a
saved path is on disk, that once the follow-ups are over an exit code of 0 means that
they succeeded too, that nobody was asked before the menu, and that a run which ended
with 0, 5 or 9 has delivered. `RefusedIsKept` is about steps: who ends a run with 6
(`AfterRefusal`).

`WorktreeProofs`: what is in the worktree and what becomes of it. `OthersAreQuiet`
reduces `Next` to the actions that touch it.

- `PatchIsOfTheCommand`: `OnlyTheCommand`. `CaptureInv`: after the replay, the worktree
  differs from the baseline only where the commands wrote. The baseline commit takes no
  ignored file that the worktree's index lacks, so the replay must bring none: that is the
  part of the invariant on ignored files. It is broken in one way only (`Slipped`): after a
  failed `git apply --index` the fallback leaves an ignored file out of the index that
  somebody has staged in the original, and `OnlyTheCommand` names this case.
- `KeptIsKept` (`KeepInv`: the worktree is whole from the setup on, and `removeAll` is
  reached only by those who do not keep it) and `OneTroubleIsCleaned` (`CleanInv` counts:
  the fallback is reached after one trouble and fails after a second one).
- `AppliedIsTheWork`: `AppliedIsWhatRan`. `Aligned` follows tree, worktree, baseline and
  patch through a run beside which nobody works, whatever fails in it and whenever it is
  interrupted: what was replayed so far is what Git sees of index and tree, the baseline is
  that tree, after the capture the patch is the difference, and until the run is over the
  tree is the one it has found. An apply to the tree a patch was made from cannot conflict,
  `--apply-3way` included (`MergeIsApply`). The last part of `Aligned` says what tree a run
  ends with, by `applied` and exit code (`TreeIsAsReported`).
- `CheckTells`: `CheckForetells`. `CheckInv` says that a checking run sets nothing as
  applied and that a refused patch does not apply; `CheckEnds` goes through the ways such a
  run gets to its end with a patch to apply (exit 0 by `WhoSucceeds`, 6 by `WhoRefuses`),
  and that the tree is still the one it found is `Aligned`.
- `ReportIsTrue`: `ReportHolds`, from `ReportInv` (what the report says is what the run
  still holds when only the cleanup goes on), `KeepInv` for a worktree reported as kept,
  `CleanInv`, which counts troubles, for one that is not, and `Aligned` for the tree.
  Faults and signals are allowed everywhere.
- `DriftHasACause`: while nobody edits, stages or commits, `DriftInv` says that the
  remembered HEAD is that of now, and so are the remembered fingerprint and the one compared
  with it, unless patchrun has put a file or its worktree inside the repository itself.
  `OthersAreBlind` says once what it needs of the steps that neither look at the original
  tree nor change it.

`PoolProofs` (any runs, repositories, utilities and bound; assumption:
`PoolAssumption`):

- `PoolTypeCorrect`: `TypeOK`, inductive, as it says that a `--prune` which removes has
  exactly one directory before it, that one it has set out to remove, and that git is asked
  only about a run's: about one of the user's own there is no repository to ask in.
- `UnprunedSafe`. `UnprunedStays` speaks of runs in the middle of
  their work; `PoolInv` says for each label of a run that `--prune` has not been at
  what its directory, its handle and its patch are. It is inductive because other
  runs and utilities touch neither directory nor pointer and `git worktree prune`
  spares a worktree that is locked or has its pointer: `SparesOthers` and
  `UtilStepOK`, shown of each step once, carry the invariant over all of them.

- `RunLeavesNothingBehind`: `RunLeavesNothing`. `LeaveInv` counts: before the cleanup
  the worktree is whole and known, or gone, or there was one trouble; a run that ends
  with a directory left has had two. A signal counts once, as `cancelled` remembers it.
- `PruneRemovesTheRest` and `ListShowsTheRest`: `PrunedIsGone`, `RestIsListed`, from
  `RestInv`: a worktree at rest only gets smaller (`AtRest`), and what a utility has
  found is still to come, done, failed, or before it right now. `OwnRest` is the
  utility's own step, `RestKept` that of anybody else.
- `PruneForgetsTheRest`: `PrunedIsForgotten`. `ForgetInv`: as long as no call has
  failed, a handle that a `--prune` knew and that is still there either has its pointer
  and this `--prune` still comes by it, or has lost it and some `--prune`, not
  necessarily this one, is about to drop it. It needs `RmInv` (the removal without Git
  begins only where the pointer is gone) and that in turn `NewInv` (nobody has heard of
  a run whose directory is still to be made, so that no pointer comes back).
- `OnlyPruneCutsAPatch`: a patch made of what was left of a worktree is one of a run
  that `--prune` was at. Where it is captured, `PoolInv` says that the worktree is whole.
- `EverybodyAdvances`: `Spec => [][Advancing]_vars`. A run is ranked by its stage and what is
  left of its directory, a utility by its list, its stage and the directory before it;
  whoever steps comes nearer to the end, and a step of another never sets one back.

`FilesProofs` (any processes, sizes, clock and bound; `FilesAssumption`):

- `SavesAreAtomic`: `Spec => ImplementsStore`, the refinement of `PatchStore`. The
  invariant `FilesInv` says which inode each name leads to and how far a process is
  with its own: only a rename puts anything under a target, and what it moves there
  is whole and open to nobody else.
- `ApplyReadsItsOwn`: `AppliesItsOwn`, from the same invariant.
- `SavesLeaveNoDebris`, `SavesStay`, `SidecarsMatch`, `CopiesAreWhole`: the other four
  properties of `Files`. `Frame` says once what a step of one process may link and
  write; each property then needs only who may touch the names it speaks of
  (`WhoLinks`, `WhoOpens`, `WhoTells`, `WhoCopies`). `DebrisInv` counts the failed calls,
  `PathInv` ties a target to the second its process named, `SidecarInv` says that a
  sidecar is of the path beside it and that a save alone on its path has the inode to
  itself, and `CopyInv` that nobody has the destination's inode open any more and that
  the one copy under way holds so many chunks of its source.

`SessionProofs` (any helpers and bound; `SessionAssumption`):

- `SharingIsSafe`: `NoMenuAfterSharing`. The invariant remembers that stdin was shared
  without a PTY only where `WillPromptAfterChild` said no, and shows that
  `dispatchActions` then says no as well.
- `TerminalIsRestored`, `NoFalseSuccess`, `GroupIsKilled`: `SessionInv` follows the
  raw terminal, the watcher's answer and the group through `run.Run`. `GroupIsKilled` is of
  the helpers that were there when the group was signalled; a stray, forked between SIGTERM
  and SIGKILL, is told nothing.
- `NothingElseTakesTheMenu`: `MenuIsHeard`. `HeardInv`: a line has been taken by the
  menu itself, or a question was asked before, or the command shares stdin; without a
  PTY `SharingIsSafe` rules the last one out.
- `OnlyAPTYMixesUp`: at a terminal, without a PTY, every line is taken by whom it was
  typed for (`TurnInv`: one line at a time, and its reader is the one on display). So
  the finding `PumpSteals` has no other cause than the PTY's pump.
- `CutOffsHaveACause`: a timeout needs a deadline, a cut-off a deadline or a signal, and
  success a command that ended well. These are the outcomes that `ChildExits` and
  `KillCommand` of `Runner` choose from, so the two modules agree on `run.Run`.
- `SomebodyWatches` and `RunGoesOn`, from `WatchInv`: while the command lives, its watcher
  does; `run.Run` waits only for a command; and the two only go on. This is the part of
  `CutOffEnds` and `PromptReturn` that needs no fairness.

`GitOutputProofs` (any paths, also those that look like lines of Git, any number of
records; `GitOutputAssumption`: no path is empty, numerals mean numbers, `-` is none):

- `GitOutputInvariant`. `Layout`: each record lies where `ends` says, as far as the output
  was not cut. `Parsed`: the parser stands at the beginning of the record that follows
  those it has appended, so a path that looks like a line is never taken for one.
  `Added`: the totals are those of the entries passed. `RoundReads` shows of each
  parser that a round takes exactly one record, and fails when it is cut short.
- `StatusAlwaysRead`, `SummaryAlwaysAgrees`, `CutsAlwaysNoticed`: the three properties of
  the run, now for output of every length. `ParsersAdvance`: every round moves on.

All safety properties that the runs check are proved, the two refinements included. The
liveness properties are only model-checked: fairness and ENABLED are out of the prover's
reach. `RunGoesForward`, `EverybodyAdvances`, `RunGoesOn` and `ParsersAdvance` are the half
of them that is a statement about steps: whoever goes on gets nearer to the end. That
somebody can go on until the end is reached, and that fairness makes him, stays with TLC.

## Where the code and its documentation disagree

Each of these has a run that TLC finds violated (`PROJECT.json`, findings).

| Run | Statement | Code |
|---|---|---|
| `ReverseApply` | `--reverse` applies the reverse (README) | reversed twice, so the forward change is applied; `ReverseCancels` proves it for every patch |
| `SelfDrift` | "original working tree changed while patchrun was running" (message) | said of the patch patchrun itself saved inside the repository |
| `PumpSteals` | the command "must not be given that reader", or the menu's input is swallowed (comment of `willPromptAfterChild`) | a command under a PTY is given it, and the pump outlives the command: the first line typed for the menu is lost |
| `PruneRace` | "the final patch shows only what the command did" (README) | a `--prune` beside the run makes the patch delete the files it has removed |

Theorems bound the causes, whatever else happens in a run: `OnlyAPTYMixesUp` and
`OnlyPruneCutsAPatch` leave one for `PumpSteals` and `PruneRace`, `ReverseCancels` needs
nothing to go wrong at all, and by `DriftHasACause` the message of `SelfDrift` is said only
after an edit, a `git add` or a commit by others, or because of a file that patchrun has
saved, or of a worktree it has made, inside the repository.

Others were met while modelling and have no run of their own:

- `--apply` applies "after command succeeds" (README); the code applies whatever the
  exit was, and then exits 5.
- `--check` verifies that the patch applies (README); without `--apply` nothing is
  verified.
- "Removes the worktree" (README): after a signal Git cannot be run any more, so the
  directory goes and the handle in `.git/worktrees` stays (`CleansUp` excludes it).
- "Saved patch instead" (message of a refusal) is said also when that save failed
  (`RefusedPatchIsKept` excludes it).
- "Command timeout with process-group kill" (CHANGELOG): SIGTERM goes to the group, SIGKILL
  to the command alone and in a second call, so a helper that ignores SIGTERM lives on, and
  one that a command which outlives SIGTERM forks in between gets neither signal
  (`NobodyOverlooked` asks only that those who were there have been told).
- With a `--worktree-dir` inside the repository that is not ignored, the worktree is an
  untracked entry of the original: a run from a dirty tree fails when it comes to copy it,
  and every apply is refused as drift.
- `git add` during the run, which changes no file, is drift too.
- A `git apply` that is killed between two files is reported as `applied: false` with part
  of the patch in the tree (`ReportHolds` says just how much).
- When `git apply --index` fails, its fallback without `--index` leaves the worktree's index
  behind: an ignored file that somebody has staged then counts as the command's under
  `--include-ignored` (`OnlyTheCommand` excludes it).
- `--apply-3way` merges into the index: it refuses a file with unstaged changes, which a run
  from a dirty tree has, and brings back one that was deleted after `apply --check`.

### What the drift check does not see

The drift check compares HEAD and the two letters and the name of each entry of the
status. A second
change to a file that was dirty before the run changes neither, although a test says
that "a content change is enough to trigger drift". `git apply --check` is what is left
to notice it, and it looks only at the lines the patch touches: an edit elsewhere in
the same file is neither noticed nor lost.

## What is not modelled

- colours, diff view, layout of the summary, completion scripts, `main`: output only,
  which no decision reads;
- the command's output, and what of it is lost when a PTY is closed as soon as the
  command was reaped;
- process numbers: the group kill after a PTY run looks up a number that may by then
  belong to somebody else;
- the content of files beyond equality, modes, renames in the tree (so no old paths in
  the fingerprint), the unmerged entries a conflict leaves in the index,
  `--ignore-whitespace`, `--name`, `--git-bin`: they change what Git does inside one
  call, not the calls;
- `git reset` in the original repository, which would take back a commit;
- a snapshot or a save over a file that the repository tracks;
- `CopyTree`, which nothing calls, and Windows;
- two `Runner`s over one repository: to each of them the other is among the others who
  edit and commit, and their directories and files meet in `Pool` and `Files`.

## Plan

Done: the run and its gate (`Runner`, `PatchGate`), command and stdin (`Exec`,
`Session`), the parent directory (`Pool`), files (`Files`, `PatchStore`), the parsers
(`GitOutput`), and the theorems above. Left: a flag parser as a function over tokens, if
the option rules grow.
