----------------------------- MODULE PoolProps -----------------------------
(***************************************************************************)
(* What the processes that share a parent directory must not do to each    *)
(* other, and what --prune and --list-runs owe their user.                 *)
(***************************************************************************)
EXTENDS Pool

UtilRecords ==
    [op : {"prune", "list"}, pc : UtilLabels, todo : SUBSET (Runs \cup Lookalikes),
     cur : SUBSET Entries, out : SUBSET Entries, failed : SUBSET Entries,
     rest : SUBSET Runs, known : SUBSET Runs]

AskingGit == {"git", "gitRemove", "removeAll", "gitPrune"}
Removing == AskingGit \cup {"rm"}

\* Every variable stays within its type, what a --prune works on is one directory that
\* it has set out to remove, and git is only asked about a run's.
TypeOK ==
    /\ repo \in [Runs -> Repos]
    /\ pc \in [Runs -> RunLabels]
    /\ keep \subseteq Runs /\ cancelled \subseteq Runs
    /\ captured \in [Runs -> {"nothing", "what ran", "what was left"}]
    /\ dir \in [Entries -> Extents]
    /\ handle \in [Runs -> Handles]
    /\ util \in [Utilities -> UtilRecords]
    /\ trouble \in [faults : Nat, signals : Nat, crashes : Nat]
    /\ hit \subseteq Entries
    /\ \A u \in Utilities : util[u].pc \in Removing =>
            \E e \in (Runs \cup Lookalikes) \cap hit :
                util[u].cur = {e} /\ (util[u].pc \in AskingGit => e \in Runs)

\* A worktree that --prune has not been at is whole, and Git knows it, for as
\* long as its run works in it, and afterwards if it was kept: no cleanup of
\* another run, no git worktree prune in its repository takes it away.
\* (RemoveWorktree, which ends in a prune of the whole repository.)
UnprunedStays ==
    \A r \in Runs \ hit :
        (pc[r] \in {"added", "command"}
            \/ (pc[r] \in {"cleanup", "done"} /\ r \in keep /\ captured[r] # "nothing"))
        => dir[r] = "whole" /\ handle[r] = "live"

\* --prune has removed every worktree that was at rest (its run over or dead) when it
\* looked, except those it has reported: one that stays costs no other its removal.
\* (pruneRuns.)
PrunedIsGone ==
    \A u \in Utilities :
        (util[u].op = "prune" /\ util[u].pc = "done")
        => \A r \in util[u].rest \ util[u].failed : dir[r] = "absent"

\* Once every --prune is over and no call has failed or crashed, Git has
\* forgotten the worktrees at rest that still had their pointer.  (Only where
\* repoOfWorktree finds the repository: not in a submodule.)
PrunedIsForgotten ==
    ((\A u \in Utilities : util[u].pc = "done") /\ trouble.faults = 0)
        => \A u \in Utilities : util[u].op = "prune" =>
                \A r \in util[u].known : handle[r] = "none"

\* --list-runs shows every worktree at rest that nobody prunes meanwhile: one
\* that goes while it is listing costs no other its row.
RestIsListed ==
    \A u \in Utilities :
        (util[u].op = "list" /\ util[u].pc = "done") => util[u].rest \ hit \subseteq util[u].out

\* A run that was to keep nothing and comes to its end leaves no directory, if --prune
\* was not at it and at most one call has failed, of any process, or one signal has
\* come.  Crashes of others do not matter.  (Cleanup, RemoveWorktree.)
RunLeavesNothing ==
    trouble.faults + trouble.signals <= 1 =>
        \A r \in Runs \ (keep \cup hit) : pc[r] = "done" => dir[r] = "absent"

-----------------------------------------------------------------------------
(* What the documentation says and the code does not do.                   *)

\* README: "so the final patch shows only what the command did".  (A --prune
\* beside the run removes its files before they are staged, and a file removed
\* is a file deleted.)
CapturedIsWhatRan == \A r \in Runs : captured[r] # "what was left"
=============================================================================
