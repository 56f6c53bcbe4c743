-------------------------------- MODULE Pool --------------------------------
(***************************************************************************)
(* Several runs of patchrun, and calls of --prune and --list-runs, over    *)
(* one parent directory of worktrees and the handles Git keeps for them in *)
(* .git/worktrees.  Nothing locks the parent: every process reads it and   *)
(* removes from it as it likes, a directory goes file by file, and a       *)
(* process may be killed between any two steps.                            *)
(***************************************************************************)
EXTENDS FiniteSets, Naturals

CONSTANTS
    Runs,       \* runs of patchrun, each named by its run ID
    Lookalikes, \* the user's own directories there named "patchrun-...", which
                \* hold no pointer to a repository
    Foreign,    \* what else the parent holds: no "patchrun-" or no directory
    Utilities,  \* calls of patchrun --prune and --list-runs
    Repos,      \* the repositories the runs are started in
    Derivable,  \* repositories whose root is three levels above their handles
                \* (not so for a submodule or a separate git directory)
    MaxTroubles \* bound on failing calls, signals and crashes together

ASSUME PoolAssumption ==
    /\ Derivable \subseteq Repos
    /\ Runs \cap (Lookalikes \cup Foreign) = {} /\ Lookalikes \cap Foreign = {}
    /\ MaxTroubles \in Nat

VARIABLES
    repo,       \* per run: the repository it is started in
    pc,         \* per run: the call it makes next
    keep,       \* the runs told to keep their worktree
    cancelled,  \* the runs whose context a signal has cancelled
    captured,   \* per run: what its patch was taken from
    dir,        \* per entry of the parent: how much of it is there
    handle,     \* per run: its handle in .git/worktrees
    util,       \* per utility call: what it does, has read and has done
    trouble,    \* how many calls have failed, signals and crashes come
    hit         \* history: what --prune has set out to remove

runVars == <<repo, pc, keep, cancelled, captured>>
vars == <<runVars, dir, handle, util, trouble, hit>>

Entries == Runs \cup Lookalikes \cup Foreign
\* "bare": without its .git pointer; "part": with it, but not all the files.
Extents == {"absent", "bare", "part", "whole"}
Handles == {"none", "locked", "live"}
RunLabels == {"start", "mkdir", "checkout", "added", "command", "cleanup",
              "gitRemove", "removeAll", "gitPrune", "done", "crashed"}
UtilLabels == {"readDir", "next", "git", "gitRemove", "removeAll", "gitPrune",
               "rm", "done", "crashed"}
Ended == {"done", "crashed"}

Init ==
    /\ repo \in [Runs -> Repos]
    /\ pc = [r \in Runs |-> "start"]
    /\ keep \in SUBSET Runs
    /\ cancelled = {}
    /\ captured = [r \in Runs |-> "nothing"]
    /\ dir = [e \in Entries |->
                IF e \in Runs THEN "absent" ELSE IF e \in Lookalikes THEN "bare" ELSE "whole"]
    /\ handle = [r \in Runs |-> "none"]
    /\ \E op \in [Utilities -> {"prune", "list"}] :
        util = [u \in Utilities |->
                 [op |-> op[u], pc |-> "readDir", todo |-> {}, cur |-> {},
                  out |-> {}, failed |-> {}, rest |-> {}, known |-> {}]]
    /\ trouble = [faults |-> 0, signals |-> 0, crashes |-> 0]
    /\ hit = {}

-----------------------------------------------------------------------------
(* What the file system and Git do.                                        *)

Trouble(kind) ==
    /\ trouble.faults + trouble.signals + trouble.crashes < MaxTroubles
    /\ trouble' = [trouble EXCEPT ![kind] = @ + 1]

IOOK == UNCHANGED trouble
IOErr == Trouble("faults")

\* Removing a directory takes its entries in any order.
Smaller(extent) ==
    CASE extent = "whole" -> {"part", "bare", "absent"}
      [] extent = "part"  -> {"bare", "absent"}
      [] extent = "bare"  -> {"absent"}
      [] OTHER            -> {}

RemoveSome(e) == \E s \in Smaller(dir[e]) : dir' = [dir EXCEPT ![e] = s]

HasPointer(e) == dir[e] \in {"part", "whole"}

\* A directory whose name begins with "patchrun-": the user's own may, too.
IsRunDir(e) == e \in Runs \cup Lookalikes

\* What os.RemoveAll is let loose on in RemoveWorktree: any entry of the parent with
\* that prefix.
safeToRemove(e) == e \in Entries /\ IsRunDir(e)

\* git worktree remove --force: refuses a locked worktree and one whose
\* directory has lost its pointer, but not one whose directory is gone.
GitAccepts(r) == handle[r] = "live" /\ dir[r] # "bare"

DropHandle(r) == handle' = [handle EXCEPT ![r] = "none"]

\* git worktree prune: forgets every worktree of the repository that has lost
\* its pointer, unless it is locked.
PruneHandles(g) ==
    handle' = [r \in Runs |->
        IF repo[r] = g /\ handle[r] = "live" /\ ~HasPointer(r)
        THEN "none" ELSE handle[r]]

-----------------------------------------------------------------------------
(* A run: setupTempWorktree, the command, capturePatch, cleanup.           *)

RunGoto(r, l) == pc' = [pc EXCEPT ![r] = l]

\* git worktree add writes the handle first and locks it until all is there.
AddHandle(r) ==
    /\ pc[r] = "start"
    /\ \/ r \notin cancelled /\ IOOK /\ RunGoto(r, "mkdir")
          /\ handle' = [handle EXCEPT ![r] = "locked"]
       \/ ((r \in cancelled /\ IOOK) \/ IOErr) /\ RunGoto(r, "cleanup") /\ UNCHANGED handle
    /\ UNCHANGED <<repo, keep, cancelled, captured, dir, util, hit>>

\* A git that fails takes its handle back.
MakeDir(r) ==
    /\ pc[r] = "mkdir" /\ r \notin cancelled
    /\ \/ IOOK /\ RunGoto(r, "checkout")
          /\ dir' = [dir EXCEPT ![r] = "part"] /\ UNCHANGED handle
       \/ IOErr /\ RunGoto(r, "cleanup") /\ DropHandle(r) /\ UNCHANGED dir
    /\ UNCHANGED <<repo, keep, cancelled, captured, util, hit>>

BeingRemoved(r) ==
    \E u \in Utilities :
        util[u].cur = {r} /\ util[u].pc \in {"gitRemove", "removeAll", "rm"}

\* Fills the directory and unlocks the handle.  Without the pointer it fails, and
\* git takes back what it has made.
Checkout(r) ==
    /\ pc[r] = "checkout" /\ r \notin cancelled
    /\ \/ HasPointer(r) /\ IOOK /\ RunGoto(r, "added")
          /\ \E extent \in {"whole"} \cup (IF BeingRemoved(r) THEN {"part"} ELSE {}) :
                dir' = [dir EXCEPT ![r] = extent]
          /\ handle' = [handle EXCEPT ![r] = "live"]
       \/ ((~HasPointer(r) /\ IOOK) \/ IOErr) /\ RunGoto(r, "cleanup")
          /\ dir' = [dir EXCEPT ![r] = "absent"] /\ DropHandle(r)
    /\ UNCHANGED <<repo, keep, cancelled, captured, util, hit>>

\* exec.CommandContext kills git with SIGKILL: what it has made stays.
AddKilled(r) ==
    /\ pc[r] \in {"mkdir", "checkout"} /\ r \in cancelled /\ IOOK
    /\ RunGoto(r, "cleanup")
    /\ UNCHANGED <<repo, keep, cancelled, captured, dir, handle, util, hit>>

\* runChildCommand makes the directory it starts the command in if it is gone.
StartCommand(r) ==
    /\ pc[r] = "added" /\ IOOK /\ RunGoto(r, "command")
    /\ dir' = [dir EXCEPT ![r] = IF @ = "absent" THEN "bare" ELSE @]
    /\ UNCHANGED <<repo, keep, cancelled, captured, handle, util, hit>>

\* git add -A and git diff want the pointer and the handle, and take a file
\* that is missing for one the command has deleted.
CapturePatch(r) ==
    /\ pc[r] = "command" /\ RunGoto(r, "cleanup")
    /\ \/ r \notin cancelled /\ HasPointer(r) /\ handle[r] # "none" /\ IOOK
          /\ captured' = [captured EXCEPT ![r] =
                IF dir[r] = "whole" THEN "what ran" ELSE "what was left"]
       \/ (r \in cancelled \/ ~HasPointer(r) \/ handle[r] = "none") /\ IOOK
          /\ UNCHANGED captured
       \/ IOErr /\ UNCHANGED captured
    /\ UNCHANGED <<repo, keep, cancelled, dir, handle, util, hit>>

\* slips: the directory is taken away although it is to be kept; the fallback
\* of RemoveWorktree is left out
CleanupAlways(r) ==
    /\ pc[r] = "cleanup" /\ IOOK
    /\ RunGoto(r, IF r \in cancelled \/ ~GitAccepts(r) THEN "removeAll" ELSE "gitRemove")
    /\ UNCHANGED <<repo, keep, cancelled, captured, dir, handle, util, hit>>
CleanupByGitOnly(r) ==
    /\ pc[r] = "cleanup" /\ IOOK
    /\ RunGoto(r, IF r \in keep \cup cancelled \/ ~GitAccepts(r) THEN "done" ELSE "gitRemove")
    /\ UNCHANGED <<repo, keep, cancelled, captured, dir, handle, util, hit>>

\* The worktree's path is set before it is added, so that cleanup looks after
\* whatever an add that failed has left.
Cleanup(r) ==
    /\ pc[r] = "cleanup"
    /\ \/ r \in keep /\ IOOK /\ RunGoto(r, "done")
       \/ r \notin keep \cup cancelled /\ GitAccepts(r) /\ IOOK /\ RunGoto(r, "gitRemove")
       \/ r \notin keep /\ (r \in cancelled \/ ~GitAccepts(r)) /\ IOOK
          /\ RunGoto(r, "removeAll")
       \/ r \notin keep /\ IOErr /\ RunGoto(r, "removeAll")
    /\ UNCHANGED <<repo, keep, cancelled, captured, dir, handle, util, hit>>

\* The work of git worktree remove: the directory, then the handle.
GitRemoves(r) ==
    /\ pc[r] = "gitRemove" /\ IOOK
    /\ \/ r \notin cancelled /\ RemoveSome(r) /\ UNCHANGED <<pc, handle>>
       \/ r \notin cancelled /\ dir[r] = "absent" /\ DropHandle(r)
          /\ RunGoto(r, "done") /\ UNCHANGED dir
       \/ r \in cancelled /\ RunGoto(r, "removeAll") /\ UNCHANGED <<dir, handle>>
    /\ UNCHANGED <<repo, keep, cancelled, captured, util, hit>>

RemovesAll(r) ==
    /\ pc[r] = "removeAll" /\ safeToRemove(r)
    /\ \/ RemoveSome(r) /\ IOOK /\ UNCHANGED pc
       \/ dir[r] = "absent" /\ IOOK /\ RunGoto(r, "gitPrune") /\ UNCHANGED dir
       \/ dir[r] # "absent" /\ IOErr /\ RunGoto(r, "done") /\ UNCHANGED dir
    /\ UNCHANGED <<repo, keep, cancelled, captured, handle, util, hit>>

\* A prune that fails goes unheard.
GitPrunes(r) ==
    /\ pc[r] = "gitPrune" /\ RunGoto(r, "done")
    /\ \/ r \notin cancelled /\ IOOK /\ PruneHandles(repo[r])
       \/ ((r \in cancelled /\ IOOK) \/ IOErr) /\ UNCHANGED handle
    /\ UNCHANGED <<repo, keep, cancelled, captured, dir, util, hit>>

RunStep(r) ==
    \/ AddHandle(r) \/ MakeDir(r) \/ Checkout(r) \/ AddKilled(r) \/ StartCommand(r)
    \/ Cleanup(r) \/ GitRemoves(r) \/ RemovesAll(r) \/ GitPrunes(r)

-----------------------------------------------------------------------------
(* --prune and --list-runs.  They run without the runs' signal handling    *)
(* and under a context that nothing cancels.                               *)

\* os.ReadDir, once, at the beginning, with the names and types that IsRunDir asks for.
ReadDir(u) ==
    LET there == {e \in Entries : IsRunDir(e) /\ dir[e] # "absent"}
        rest == {r \in Runs \cap there : pc[r] \in Ended}
    IN  /\ util[u].pc = "readDir" /\ IOOK
        /\ util' = [util EXCEPT ![u].pc = "next", ![u].todo = there, ![u].rest = rest,
                ![u].known = {r \in rest : HasPointer(r) /\ handle[r] = "live"
                                            /\ repo[r] \in Derivable}]
        /\ UNCHANGED <<runVars, dir, handle, hit>>

\* slip: an entry that has gone ends the listing
ListUntilGone(u) ==
    /\ util[u].op = "list" /\ util[u].pc = "next" /\ IOOK
    /\ \E e \in util[u].todo :
        /\ util' = IF dir[e] = "absent" THEN [util EXCEPT ![u].todo = {}]
                   ELSE [util EXCEPT ![u].todo = @ \ {e}, ![u].out = @ \cup {e}]
    /\ UNCHANGED <<runVars, dir, handle, hit>>

\* One row for each directory that is still there when it is asked for its time.
ListOne(u) ==
    /\ util[u].op = "list" /\ util[u].pc = "next" /\ IOOK
    /\ \E e \in util[u].todo :
        /\ util' = [util EXCEPT ![u].todo = @ \ {e},
                ![u].out = IF dir[e] = "absent" THEN @ ELSE @ \cup {e}]
    /\ UNCHANGED <<runVars, dir, handle, hit>>

\* slip: git is not asked
PruneByRm(u) ==
    /\ util[u].op = "prune" /\ util[u].pc = "next" /\ IOOK
    /\ \E e \in util[u].todo :
        /\ hit' = hit \cup {e}
        /\ util' = [util EXCEPT ![u].todo = @ \ {e}, ![u].cur = {e}, ![u].pc = "rm"]
    /\ UNCHANGED <<runVars, dir, handle>>

\* slip: git is asked about a directory that has no pointer
PruneAsksGit(u) ==
    /\ util[u].op = "prune" /\ util[u].pc = "next" /\ IOOK
    /\ \E e \in util[u].todo :
        /\ hit' = hit \cup {e}
        /\ util' = [util EXCEPT ![u].todo = @ \ {e}, ![u].cur = {e}, ![u].pc = "git"]
    /\ UNCHANGED <<runVars, dir, handle>>

\* repoOfWorktree reads the pointer; without one the directory is just removed.
\* Three levels above the handle is not always a repository that knows it.
PruneOne(u) ==
    /\ util[u].op = "prune" /\ util[u].pc = "next" /\ IOOK
    /\ \E e \in util[u].todo :
        /\ util' = [util EXCEPT ![u].todo = @ \ {e}, ![u].cur = {e},
                ![u].pc = IF e \in Runs /\ HasPointer(e) THEN "git" ELSE "rm"]
        /\ hit' = hit \cup {e}
    /\ UNCHANGED <<runVars, dir, handle>>

UtilGoto(u, l) == util' = [util EXCEPT ![u].pc = l]
Removed(u, e) ==
    util' = [util EXCEPT ![u].pc = "next", ![u].out = @ \cup {e}]
NotRemoved(u, e) ==
    util' = [util EXCEPT ![u].pc = "next", ![u].failed = @ \cup {e}]

\* slip: git's answer is taken for the whole story
PruneGitOnly(u) ==
    /\ util[u].pc = "git"
    /\ \E e \in util[u].cur :
        \/ repo[e] \in Derivable /\ GitAccepts(e) /\ IOOK /\ UtilGoto(u, "gitRemove")
        \/ (repo[e] \notin Derivable \/ ~GitAccepts(e)) /\ IOOK /\ Removed(u, e)
    /\ UNCHANGED <<runVars, dir, handle, hit>>

PruneGit(u) ==
    /\ util[u].pc = "git"
    /\ \E e \in util[u].cur :
        \/ repo[e] \in Derivable /\ GitAccepts(e) /\ IOOK /\ UtilGoto(u, "gitRemove")
        \/ (repo[e] \notin Derivable \/ ~GitAccepts(e)) /\ IOOK /\ UtilGoto(u, "removeAll")
        \/ IOErr /\ UtilGoto(u, "removeAll")
    /\ UNCHANGED <<runVars, dir, handle, hit>>

PruneGitRemoves(u) ==
    /\ util[u].pc = "gitRemove" /\ IOOK
    /\ \E e \in util[u].cur :
        \/ RemoveSome(e) /\ UNCHANGED <<util, handle>>
        \/ dir[e] = "absent" /\ DropHandle(e) /\ Removed(u, e) /\ UNCHANGED dir
    /\ UNCHANGED <<runVars, hit>>

\* RemoveWorktree's os.RemoveAll, and after it pruneRuns' own, which asks nothing more.
PruneRemovesAll(u) ==
    /\ util[u].pc \in {"removeAll", "rm"}
    /\ util[u].pc = "removeAll" => \A e \in util[u].cur : safeToRemove(e)
    /\ \E e \in util[u].cur :
        \/ RemoveSome(e) /\ IOOK /\ UNCHANGED util
        \/ dir[e] = "absent" /\ IOOK /\ UNCHANGED dir
           /\ IF util[u].pc = "removeAll" THEN UtilGoto(u, "gitPrune") ELSE Removed(u, e)
        \/ dir[e] # "absent" /\ IOErr /\ UNCHANGED dir
           /\ IF util[u].pc = "removeAll" THEN UtilGoto(u, "rm") ELSE NotRemoved(u, e)
    /\ UNCHANGED <<runVars, handle, hit>>

PrunePrunes(u) ==
    /\ util[u].pc = "gitPrune"
    /\ \E e \in util[u].cur :
        /\ Removed(u, e)
        /\ \/ repo[e] \in Derivable /\ IOOK /\ PruneHandles(repo[e])
           \/ ((repo[e] \notin Derivable /\ IOOK) \/ IOErr) /\ UNCHANGED handle
    /\ UNCHANGED <<runVars, dir, hit>>

\* Exit 1 if anything could not be removed.
Report(u) ==
    /\ util[u].pc = "next" /\ util[u].todo = {} /\ IOOK /\ UtilGoto(u, "done")
    /\ UNCHANGED <<runVars, dir, handle, hit>>

UtilStep(u) ==
    \/ ReadDir(u) \/ ListOne(u) \/ PruneOne(u) \/ PruneGit(u)
    \/ PruneGitRemoves(u) \/ PruneRemovesAll(u) \/ PrunePrunes(u) \/ Report(u)

-----------------------------------------------------------------------------
(* Signals and crashes.                                                    *)

Interrupt(r) ==
    /\ Trouble("signals") /\ r \notin cancelled /\ pc[r] \notin Ended
    /\ cancelled' = cancelled \cup {r}
    /\ UNCHANGED <<repo, pc, keep, captured, dir, handle, util, hit>>

\* A run, or a utility, and the git it has started die together.
RunCrashes(r) ==
    /\ Trouble("crashes") /\ pc[r] \notin Ended
    /\ RunGoto(r, "crashed")
    /\ UNCHANGED <<repo, keep, cancelled, captured, dir, handle, util, hit>>

UtilCrashes(u) ==
    /\ Trouble("crashes") /\ util[u].pc \notin Ended
    /\ UtilGoto(u, "crashed")
    /\ UNCHANGED <<runVars, dir, handle, hit>>

AllEnded ==
    /\ \A r \in Runs : pc[r] \in Ended
    /\ \A u \in Utilities : util[u].pc \in Ended
    /\ UNCHANGED vars

Next ==
    \/ \E r \in Runs : RunStep(r) \/ CapturePatch(r) \/ Interrupt(r) \/ RunCrashes(r)
    \/ \E u \in Utilities : UtilStep(u) \/ UtilCrashes(u)
    \/ AllEnded

Spec == Init /\ [][Next]_vars
=============================================================================
