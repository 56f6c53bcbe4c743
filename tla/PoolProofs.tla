----------------------------- MODULE PoolProofs -----------------------------
(***************************************************************************)
(* Theorems about the shared parent of worktrees, for any number of runs,  *)
(* repositories and utility calls, and any number of calls that fail,      *)
(* signals and crashes.                                                    *)
(***************************************************************************)
EXTENDS PoolProps, TLAPS

RunTypes ==
    /\ repo \in [Runs -> Repos]
    /\ pc \in [Runs -> RunLabels]
    /\ keep \subseteq Runs /\ cancelled \subseteq Runs
    /\ captured \in [Runs -> {"nothing", "what ran", "what was left"}]
    /\ dir \in [Entries -> Extents]
    /\ handle \in [Runs -> Handles]

\* What a --prune works on: one directory it has set out to remove, a run's where git
\* is asked.
WorksOnOne(u) ==
    \E e \in (Runs \cup Lookalikes) \cap hit :
        util[u].cur = {e} /\ (util[u].pc \in AskingGit => e \in Runs)

UtilTypes ==
    /\ util \in [Utilities -> UtilRecords]
    /\ hit \subseteq Entries
    /\ \A u \in Utilities : util[u].pc \in Removing => WorksOnOne(u)

TroubleType == trouble \in [faults : Nat, signals : Nat, crashes : Nat]

LEMMA TypeParts == TypeOK <=> RunTypes /\ UtilTypes /\ TroubleType
BY DEF TypeOK, RunTypes, UtilTypes, WorksOnOne, TroubleType

-----------------------------------------------------------------------------
(* What the shared operators return.                                       *)

LEMMA TroubleKeeps ==
    ASSUME TroubleType, NEW k \in {"faults", "signals", "crashes"}, Trouble(k)
    PROVE  TroubleType'
<1>1. trouble[k] + 1 \in Nat
  BY DEF TroubleType
<1> QED
  BY <1>1 DEF TroubleType, Trouble

LEMMA IOKeeps ==
    ASSUME TroubleType, IOOK \/ IOErr
    PROVE  TroubleType'
BY TroubleKeeps DEF IOOK, IOErr, TroubleType

LEMMA RunGotoType ==
    ASSUME RunTypes, NEW r \in Runs, NEW l \in RunLabels, RunGoto(r, l)
    PROVE  pc' \in [Runs -> RunLabels] /\ pc'[r] = l /\ \A q \in Runs \ {r} : pc'[q] = pc[q]
BY DEF RunTypes, RunGoto

LEMMA RemoveSomeType ==
    ASSUME RunTypes, NEW e \in Entries, RemoveSome(e)
    PROVE  /\ dir' \in [Entries -> Extents]
           /\ \A d \in Entries \ {e} : dir'[d] = dir[d]
BY DEF RunTypes, RemoveSome, Smaller, Extents

LEMMA PruneHandlesType ==
    ASSUME RunTypes, NEW g, PruneHandles(g)
    PROVE  /\ handle' \in [Runs -> Handles]
           /\ \A r \in Runs : (handle[r] # "live" \/ HasPointer(r)) => handle'[r] = handle[r]
BY DEF RunTypes, PruneHandles, Handles

LEMMA DropHandleType ==
    ASSUME RunTypes, NEW r \in Runs, DropHandle(r)
    PROVE  /\ handle' \in [Runs -> Handles]
           /\ \A q \in Runs \ {r} : handle'[q] = handle[q]
BY DEF RunTypes, DropHandle, Handles

LEMMA RunsAreEntries ==
    /\ Runs \subseteq Entries /\ Lookalikes \subseteq Entries
    /\ \A e \in Lookalikes : e \notin Runs
BY PoolAssumption DEF Entries

LEMMA OneAtATime ==
    ASSUME UtilTypes, NEW u \in Utilities, util[u].pc \in Removing
    PROVE  \E e \in Entries \cap hit :
                /\ util[u].cur = {e} /\ e \in Runs \cup Lookalikes
                /\ util[u].pc \in AskingGit => e \in Runs
BY RunsAreEntries DEF UtilTypes, WorksOnOne

-----------------------------------------------------------------------------
(* The steps of one run, as the others see them.                           *)

\* Another run's directory is not touched, and its handle only by a git worktree
\* prune, which spares a locked one and one with its pointer.
SparesOthers(r) ==
    /\ \A e \in Entries \ {r} : dir'[e] = dir[e]
    /\ \A q \in Runs \ {r} : pc'[q] = pc[q] /\ captured'[q] = captured[q]
    /\ \A q \in Runs \ {r} : (handle[q] # "live" \/ HasPointer(q)) => handle'[q] = handle[q]

\* What a worktree that --prune has not been at goes through.
Undisturbed(r) ==
    /\ pc[r] \in {"start", "mkdir"} => dir[r] = "absent"
    /\ pc[r] = "start" => handle[r] = "none"
    /\ pc[r] = "mkdir" => handle[r] = "locked"
    /\ pc[r] = "checkout" => dir[r] = "part" /\ handle[r] = "locked"
    /\ pc[r] \in {"added", "command"} => dir[r] = "whole" /\ handle[r] = "live"
    /\ pc[r] \in {"start", "mkdir", "checkout", "added", "command"} => captured[r] = "nothing"
    /\ pc[r] \in {"gitRemove", "removeAll", "gitPrune"} => r \notin keep
    /\ (pc[r] \in {"cleanup", "done"} /\ r \in keep /\ captured[r] # "nothing")
            => dir[r] = "whole" /\ handle[r] = "live"

PoolInv == \A r \in Runs \ hit : Undisturbed(r)

RunStepOK(r) ==
    /\ RunTypes' /\ SparesOthers(r) /\ UNCHANGED <<keep, util, hit>>
    /\ (r \notin hit /\ Undisturbed(r)) => Undisturbed(r)'

LEMMA AddHandleOK ==
    ASSUME TypeOK, NEW r \in Runs, AddHandle(r)
    PROVE  RunStepOK(r)
<1>1. RunTypes /\ r \in Entries
  BY TypeParts, RunsAreEntries
<1>2. CASE RunGoto(r, "mkdir") /\ handle' = [handle EXCEPT ![r] = "locked"]
  BY <1>1, <1>2 DEF AddHandle, RunStepOK, RunTypes, RunGoto, RunLabels, Handles, SparesOthers,
                    Undisturbed
<1>3. CASE RunGoto(r, "cleanup") /\ UNCHANGED handle
  BY <1>1, <1>3 DEF AddHandle, RunStepOK, RunTypes, RunGoto, RunLabels, SparesOthers,
                    Undisturbed
<1> QED
  BY <1>2, <1>3 DEF AddHandle

LEMMA MakeDirOK ==
    ASSUME TypeOK, NEW r \in Runs, MakeDir(r) \/ AddKilled(r) \/ StartCommand(r)
    PROVE  RunStepOK(r)
<1>1. RunTypes /\ r \in Entries
  BY TypeParts, RunsAreEntries
<1>2. CASE MakeDir(r)
  BY <1>1, <1>2 DEF MakeDir, RunStepOK, RunTypes, RunGoto, RunLabels, Extents, SparesOthers,
                    Undisturbed, DropHandle, Handles
<1>3. CASE AddKilled(r)
  BY <1>1, <1>3 DEF AddKilled, RunStepOK, RunTypes, RunGoto, RunLabels, SparesOthers, Undisturbed
<1>4. CASE StartCommand(r)
  BY <1>1, <1>4 DEF StartCommand, RunStepOK, RunTypes, RunGoto, RunLabels, Extents, SparesOthers,
                    Undisturbed
<1> QED
  BY <1>2, <1>3, <1>4

LEMMA CheckoutOK ==
    ASSUME TypeOK, NEW r \in Runs, Checkout(r)
    PROVE  RunStepOK(r)
<1>1. RunTypes /\ r \in Entries
  BY TypeParts, RunsAreEntries
<1>2. CASE pc'[r] = "added"
  <2>1. PICK extent \in {"whole", "part"} :
            /\ dir' = [dir EXCEPT ![r] = extent]
            /\ extent = "part" => BeingRemoved(r)
    BY <1>1, <1>2 DEF Checkout, RunGoto, RunTypes
  <2>2. handle' = [handle EXCEPT ![r] = "live"] /\ RunGoto(r, "added")
        /\ UNCHANGED <<repo, keep, cancelled, captured, util, hit>>
    BY <1>1, <1>2 DEF Checkout, RunGoto, RunTypes
  <2>3. BeingRemoved(r) => r \in hit
    BY DEF BeingRemoved, TypeOK, Removing, AskingGit
  <2>4. RunTypes' /\ SparesOthers(r)
    BY <1>1, <2>1, <2>2 DEF RunTypes, RunGoto, RunLabels, Extents, Handles, SparesOthers
  <2>5. (r \notin hit /\ Undisturbed(r)) => Undisturbed(r)'
    BY <1>1, <1>2, <2>1, <2>2, <2>3 DEF RunTypes, Checkout, Undisturbed
  <2> QED
    BY <2>2, <2>4, <2>5 DEF RunStepOK
<1>3. CASE pc'[r] # "added"
  <2>1. /\ RunGoto(r, "cleanup") /\ DropHandle(r) /\ dir' = [dir EXCEPT ![r] = "absent"]
        /\ UNCHANGED <<repo, keep, cancelled, captured, util, hit>> /\ pc[r] = "checkout"
    BY <1>1, <1>3 DEF Checkout, RunGoto, RunTypes
  <2>2. RunTypes' /\ SparesOthers(r)
    BY <1>1, <2>1 DEF RunTypes, RunGoto, RunLabels, Extents, Handles, SparesOthers, DropHandle
  <2>3. pc'[r] = "cleanup" /\ captured'[r] = captured[r]
    BY <1>1, <2>1 DEF RunGoto, RunTypes
  <2>4. Undisturbed(r) => Undisturbed(r)'
    BY <2>1, <2>3 DEF Undisturbed
  <2> QED
    BY <2>1, <2>2, <2>4 DEF RunStepOK
<1> QED
  BY <1>2, <1>3

LEMMA CaptureOK ==
    ASSUME TypeOK, NEW r \in Runs, CapturePatch(r)
    PROVE  RunStepOK(r)
<1>1. RunTypes /\ r \in Entries
  BY TypeParts, RunsAreEntries
<1>2. RunGoto(r, "cleanup") /\ pc[r] = "command"
      /\ UNCHANGED <<repo, keep, cancelled, dir, handle, util, hit>>
  BY DEF CapturePatch
<1>3. captured' \in [Runs -> {"nothing", "what ran", "what was left"}]
      /\ \A q \in Runs \ {r} : captured'[q] = captured[q]
  BY <1>1 DEF CapturePatch, RunTypes
<1>4. RunTypes' /\ SparesOthers(r) /\ pc'[r] = "cleanup"
  BY <1>1, <1>2, <1>3 DEF RunTypes, RunGoto, RunLabels, SparesOthers
<1>5. Undisturbed(r) => Undisturbed(r)'
  BY <1>2, <1>4 DEF Undisturbed
<1> QED
  BY <1>2, <1>4, <1>5 DEF RunStepOK

LEMMA CleanupOK ==
    ASSUME TypeOK, NEW r \in Runs, Cleanup(r)
    PROVE  RunStepOK(r)
<1>1. RunTypes /\ r \in Entries
  BY TypeParts, RunsAreEntries
<1>2. PICK l \in {"done", "gitRemove", "removeAll"} :
            RunGoto(r, l) /\ (l = "done" <=> r \in keep)
  BY DEF Cleanup
<1>3. pc[r] = "cleanup" /\ UNCHANGED <<repo, keep, cancelled, captured, dir, handle, util, hit>>
  BY DEF Cleanup
<1>4. RunTypes' /\ SparesOthers(r) /\ pc'[r] = l
  BY <1>1, <1>2, <1>3 DEF RunTypes, RunGoto, RunLabels, SparesOthers
<1>5. Undisturbed(r) => Undisturbed(r)'
  BY <1>2, <1>3, <1>4 DEF Undisturbed
<1> QED
  BY <1>3, <1>4, <1>5 DEF RunStepOK

LEMMA RemovalOK ==
    ASSUME TypeOK, NEW r \in Runs, GitRemoves(r) \/ RemovesAll(r) \/ GitPrunes(r)
    PROVE  RunStepOK(r)
<1>1. RunTypes /\ r \in Entries
  BY TypeParts, RunsAreEntries
<1>2. pc[r] \in {"gitRemove", "removeAll", "gitPrune"}
      /\ UNCHANGED <<repo, keep, cancelled, captured, util, hit>>
  BY DEF GitRemoves, RemovesAll, GitPrunes
<1>3. pc' = pc \/ \E l \in {"removeAll", "gitPrune", "done"} : RunGoto(r, l)
  BY DEF GitRemoves, RemovesAll, GitPrunes
<1>4. pc' \in [Runs -> RunLabels] /\ (\A q \in Runs \ {r} : pc'[q] = pc[q])
      /\ pc'[r] \in {"gitRemove", "removeAll", "gitPrune", "done"}
  BY <1>1, <1>2, <1>3 DEF RunTypes, RunGoto, RunLabels
<1>5. dir' = dir \/ RemoveSome(r)
  BY DEF GitRemoves, RemovesAll, GitPrunes
<1>6. dir' \in [Entries -> Extents] /\ \A e \in Entries \ {r} : dir'[e] = dir[e]
  BY <1>1, <1>5, RemoveSomeType DEF RunTypes
<1>7. handle' = handle \/ DropHandle(r) \/ PruneHandles(repo[r])
  BY DEF GitRemoves, RemovesAll, GitPrunes
<1>8. handle' \in [Runs -> Handles]
      /\ \A q \in Runs \ {r} : (handle[q] # "live" \/ HasPointer(q)) => handle'[q] = handle[q]
  BY <1>1, <1>7, DropHandleType, PruneHandlesType DEF RunTypes
<1>9. RunTypes' /\ SparesOthers(r)
  BY <1>1, <1>2, <1>4, <1>6, <1>8 DEF RunTypes, SparesOthers
<1>10. Undisturbed(r) => Undisturbed(r)'
  BY <1>2, <1>4 DEF Undisturbed
<1> QED
  BY <1>2, <1>9, <1>10 DEF RunStepOK

\* A run that steps keeps the invariant of every other.
LEMMA RunStepKeeps ==
    ASSUME TypeOK, PoolInv, NEW r \in Runs, RunStepOK(r)
    PROVE  UtilTypes' /\ RunTypes' /\ PoolInv'
<1>1. UNCHANGED <<keep, util, hit>> /\ RunTypes' /\ SparesOthers(r)
  BY DEF RunStepOK
<1>2. UtilTypes'
  BY <1>1, TypeParts DEF UtilTypes, WorksOnOne
<1>3. ASSUME NEW q \in Runs, q \notin hit', q # r PROVE Undisturbed(q)'
  <2>1. Undisturbed(q) /\ q \in Entries /\ dir'[q] = dir[q] /\ pc'[q] = pc[q]
        /\ captured'[q] = captured[q] /\ keep' = keep
    BY <1>1, <1>3, RunsAreEntries DEF PoolInv, SparesOthers
  <2>2. (handle[q] # "live" \/ HasPointer(q)) => handle'[q] = handle[q]
    BY <1>1, <1>3 DEF SparesOthers
  <2> QED
    BY <2>1, <2>2 DEF Undisturbed, HasPointer
<1>4. r \notin hit => Undisturbed(r)'
  BY DEF RunStepOK, PoolInv
<1> QED
  BY <1>1, <1>2, <1>3, <1>4 DEF PoolInv

-----------------------------------------------------------------------------
(* The steps of --prune and --list-runs.                                   *)

\* A utility touches the directories it has set out to remove, and no handle but
\* theirs and those a git worktree prune forgets.
UtilStepOK ==
    /\ UtilTypes' /\ UNCHANGED runVars
    /\ dir' \in [Entries -> Extents] /\ handle' \in [Runs -> Handles]
    /\ hit \subseteq hit'
    /\ \A e \in Entries \ hit : dir'[e] = dir[e]
    /\ \A q \in Runs \ hit : (handle[q] # "live" \/ HasPointer(q)) => handle'[q] = handle[q]

\* A utility that changes its own record only, and does not begin to remove.
LEMMA QuietUtilOK ==
    ASSUME TypeOK, NEW u \in Utilities, NEW rec \in UtilRecords,
           util' = [util EXCEPT ![u] = rec], UNCHANGED <<runVars, dir, handle, hit>>,
           rec.pc \notin Removing
    PROVE  UtilStepOK
<1>1. RunTypes /\ UtilTypes
  BY TypeParts
<1>2. util' \in [Utilities -> UtilRecords] /\ util'[u] = rec
      /\ \A w \in Utilities \ {u} : util'[w] = util[w]
  BY <1>1 DEF UtilTypes
<1>3. ASSUME NEW w \in Utilities, util'[w].pc \in Removing
      PROVE  WorksOnOne(w)'
  BY <1>1, <1>2, <1>3 DEF UtilTypes, WorksOnOne
<1>4. UtilTypes'
  BY <1>1, <1>2, <1>3 DEF UtilTypes
<1> QED
  BY <1>1, <1>4 DEF UtilStepOK, RunTypes

LEMMA ReadDirOK ==
    ASSUME TypeOK, NEW u \in Utilities, ReadDir(u)
    PROVE  UtilStepOK
<1> DEFINE there == {e \in Entries : IsRunDir(e) /\ dir[e] # "absent"}
           rest == {r \in Runs \cap there : pc[r] \in Ended}
           known == {r \in rest : HasPointer(r) /\ handle[r] = "live" /\ repo[r] \in Derivable}
           rec == [util[u] EXCEPT !.pc = "next", !.todo = there, !.rest = rest, !.known = known]
<1>1. util[u] \in UtilRecords
  BY TypeParts DEF UtilTypes
<1>2. util' = [util EXCEPT ![u] = rec]
  BY DEF ReadDir
<1>3. there \subseteq Runs \cup Lookalikes /\ rest \subseteq Runs /\ known \subseteq Runs
  BY DEF IsRunDir
<1> HIDE DEF there, rest, known
<1>4. rec \in UtilRecords /\ rec.pc \notin Removing
  BY <1>1, <1>3 DEF UtilRecords, UtilLabels, Removing, AskingGit
<1> HIDE DEF rec
<1> QED
  BY <1>2, <1>4, QuietUtilOK DEF ReadDir

LEMMA ListOneOK ==
    ASSUME TypeOK, NEW u \in Utilities, ListOne(u)
    PROVE  UtilStepOK
<1>1. util[u] \in UtilRecords /\ util[u].pc = "next"
  BY TypeParts DEF UtilTypes, ListOne
<1>2. PICK e \in util[u].todo : util' = [util EXCEPT ![u].todo = @ \ {e},
                ![u].out = IF dir[e] = "absent" THEN @ ELSE @ \cup {e}]
  BY DEF ListOne
<1> DEFINE more == IF dir[e] = "absent" THEN {} ELSE {e}
           rec == [util[u] EXCEPT !.todo = @ \ {e}, !.out = @ \cup more]
<1>3. more \subseteq Entries
  BY <1>1, RunsAreEntries DEF UtilRecords
<1>4. util' = [util EXCEPT ![u] = rec]
  <2>1. CASE dir[e] = "absent"
    <3>1. util[u].out \cup more = util[u].out
      BY <2>1
    <3> QED
      BY <1>2, <2>1, <3>1
  <2>2. CASE dir[e] # "absent"
    BY <1>2, <2>2
  <2> QED
    BY <2>1, <2>2
<1> HIDE DEF more
<1>5. rec \in UtilRecords /\ rec.pc \notin Removing
  BY <1>1, <1>3 DEF UtilRecords, Removing, AskingGit
<1>6. UNCHANGED <<runVars, dir, handle, hit>>
  BY DEF ListOne
<1> HIDE DEF rec
<1> QED
  BY <1>4, <1>5, <1>6, QuietUtilOK

LEMMA PruneOneOK ==
    ASSUME TypeOK, NEW u \in Utilities, PruneOne(u)
    PROVE  UtilStepOK
<1>1. RunTypes /\ UtilTypes /\ util[u] \in UtilRecords
  BY TypeParts DEF UtilTypes
<1>2. PICK e \in Runs \cup Lookalikes, l \in {"git", "rm"} :
            /\ l = "git" => e \in Runs
            /\ util' = [util EXCEPT ![u].todo = @ \ {e}, ![u].cur = {e}, ![u].pc = l]
            /\ hit' = hit \cup {e}
  <2>1. util[u].todo \subseteq Runs \cup Lookalikes
    BY <1>1 DEF UtilRecords
  <2> QED
    BY <2>1, Zenon DEF PruneOne
<1> DEFINE rec == [util[u] EXCEPT !.todo = @ \ {e}, !.cur = {e}, !.pc = l]
<1>3. util' = [util EXCEPT ![u] = rec]
  BY <1>2
<1>4. rec \in UtilRecords /\ rec.cur = {e} /\ rec.pc = l
  BY <1>1, <1>2, RunsAreEntries DEF UtilRecords, UtilLabels
<1> HIDE DEF rec
<1>5. util' \in [Utilities -> UtilRecords] /\ util'[u] = rec
      /\ \A w \in Utilities \ {u} : util'[w] = util[w]
  BY <1>1, <1>3, <1>4 DEF UtilTypes
<1>6. ASSUME NEW w \in Utilities, util'[w].pc \in Removing
      PROVE  WorksOnOne(w)'
  <2>1. CASE w = u
    BY <1>2, <1>4, <1>5, <2>1 DEF WorksOnOne, AskingGit
  <2>2. CASE w # u
    BY <1>1, <1>2, <1>5, <1>6, <2>2 DEF UtilTypes, WorksOnOne
  <2> QED
    BY <2>1, <2>2
<1>7. UtilTypes' /\ hit \subseteq hit'
  BY <1>1, <1>2, <1>5, <1>6, RunsAreEntries DEF UtilTypes
<1>8. UNCHANGED <<runVars, dir, handle>>
  BY DEF PruneOne
<1> QED
  BY <1>1, <1>7, <1>8 DEF UtilStepOK, RunTypes

\* The forms in which a call that is removing moves on.
MovesOn(u) ==
    \/ UNCHANGED util
    \/ \E l \in UtilLabels :
            UtilGoto(u, l) /\ (l \in AskingGit => util[u].pc \in AskingGit)
    \/ \E e \in Entries : Removed(u, e) \/ NotRemoved(u, e)

LEMMA MovesOnType ==
    ASSUME TypeOK, NEW u \in Utilities, MovesOn(u), hit' = hit,
           util[u].pc \in Removing \/ (\E l \in UtilLabels \ Removing : UtilGoto(u, l))
    PROVE  UtilTypes'
<1>1. UtilTypes /\ util[u] \in UtilRecords
  BY TypeParts DEF UtilTypes
<1>2. CASE UNCHANGED util
  BY <1>1, <1>2 DEF UtilTypes, WorksOnOne
<1>3. ASSUME NEW rec \in UtilRecords, util' = [util EXCEPT ![u] = rec],
             rec.cur = util[u].cur, rec.pc \in Removing => util[u].pc \in Removing,
             rec.pc \in AskingGit => util[u].pc \in AskingGit
      PROVE  UtilTypes'
  <2>1. util' \in [Utilities -> UtilRecords] /\ util'[u] = rec
        /\ \A w \in Utilities \ {u} : util'[w] = util[w]
    BY <1>1, <1>3 DEF UtilTypes
  <2>2. ASSUME NEW w \in Utilities, util'[w].pc \in Removing
        PROVE  WorksOnOne(w)'
    BY <1>1, <1>3, <2>1, <2>2 DEF UtilTypes, WorksOnOne
  <2> QED
    BY <1>1, <2>1, <2>2 DEF UtilTypes
<1>4. ASSUME NEW l \in UtilLabels, UtilGoto(u, l), l \in Removing => util[u].pc \in Removing,
             l \in AskingGit => util[u].pc \in AskingGit
      PROVE  UtilTypes'
  <2> DEFINE rec == [util[u] EXCEPT !.pc = l]
  <2>1. rec \in UtilRecords /\ rec.cur = util[u].cur /\ rec.pc = l
    BY <1>1 DEF UtilRecords
  <2>2. util' = [util EXCEPT ![u] = rec]
    BY <1>4 DEF UtilGoto
  <2> HIDE DEF rec
  <2> QED
    BY <1>3, <1>4, <2>1, <2>2
<1>5. ASSUME NEW e \in Entries, Removed(u, e) \/ NotRemoved(u, e)
      PROVE  UtilTypes'
  <2>1. CASE Removed(u, e)
    <3> DEFINE rec == [util[u] EXCEPT !.pc = "next", !.out = @ \cup {e}]
    <3>1. rec \in UtilRecords /\ rec.cur = util[u].cur /\ rec.pc \notin Removing
          /\ rec.pc \notin AskingGit
      BY <1>1 DEF UtilRecords, UtilLabels, Removing, AskingGit
    <3>2. util' = [util EXCEPT ![u] = rec]
      BY <2>1 DEF Removed
    <3> HIDE DEF rec
    <3> QED
      BY <1>3, <3>1, <3>2
  <2>2. CASE NotRemoved(u, e)
    <3> DEFINE rec == [util[u] EXCEPT !.pc = "next", !.failed = @ \cup {e}]
    <3>1. rec \in UtilRecords /\ rec.cur = util[u].cur /\ rec.pc \notin Removing
          /\ rec.pc \notin AskingGit
      BY <1>1 DEF UtilRecords, UtilLabels, Removing, AskingGit
    <3>2. util' = [util EXCEPT ![u] = rec]
      BY <2>2 DEF NotRemoved
    <3> HIDE DEF rec
    <3> QED
      BY <1>3, <3>1, <3>2
  <2> QED
    BY <1>5, <2>1, <2>2
<1>6. CASE util[u].pc \in Removing
  BY <1>2, <1>4, <1>5, <1>6 DEF MovesOn
<1>7. CASE \E l \in UtilLabels \ Removing : UtilGoto(u, l)
  BY <1>4, <1>7 DEF Removing, AskingGit
<1> QED
  BY <1>6, <1>7

LEMMA RemovingOK ==
    ASSUME TypeOK, NEW u \in Utilities,
           PruneGit(u) \/ PruneGitRemoves(u) \/ PruneRemovesAll(u) \/ PrunePrunes(u)
    PROVE  UtilStepOK
<1>1. RunTypes /\ UtilTypes /\ util[u].pc \in Removing /\ UNCHANGED <<runVars, hit>>
  BY TypeParts DEF PruneGit, PruneGitRemoves, PruneRemovesAll, PrunePrunes, Removing, AskingGit
<1>2. PICK e \in (Runs \cup Lookalikes) \cap hit :
            util[u].cur = {e} /\ (util[u].pc \in AskingGit => e \in Runs)
  BY <1>1 DEF UtilTypes, WorksOnOne
<1>3. e \in Entries
  BY <1>2, RunsAreEntries
<1>4. MovesOn(u)
  BY <1>2, <1>3 DEF PruneGit, PruneGitRemoves, PruneRemovesAll, PrunePrunes, MovesOn, UtilLabels,
     AskingGit
<1>5. UtilTypes'
  BY <1>1, <1>4, MovesOnType
<1>6. dir' = dir \/ RemoveSome(e)
  BY <1>2 DEF PruneGit, PruneGitRemoves, PruneRemovesAll, PrunePrunes
<1>7. dir' \in [Entries -> Extents] /\ \A d \in Entries \ {e} : dir'[d] = dir[d]
  BY <1>1, <1>3, <1>6, RemoveSomeType DEF RunTypes
<1>8. handle' = handle \/ (e \in Runs /\ (DropHandle(e) \/ PruneHandles(repo[e])))
  BY <1>2 DEF PruneGit, PruneGitRemoves, PruneRemovesAll, PrunePrunes, AskingGit
<1>9. handle' \in [Runs -> Handles] /\ \A q \in Runs \ {e} :
            (handle[q] # "live" \/ HasPointer(q)) => handle'[q] = handle[q]
  BY <1>1, <1>2, <1>8, DropHandleType, PruneHandlesType DEF RunTypes
<1> QED
  BY <1>1, <1>2, <1>5, <1>7, <1>9 DEF UtilStepOK

LEMMA UtilEndsOK ==
    ASSUME TypeOK, NEW u \in Utilities, Report(u) \/ UtilCrashes(u)
    PROVE  UtilStepOK
<1>1. \E l \in UtilLabels \ Removing : UtilGoto(u, l)
  BY DEF Report, UtilCrashes, UtilLabels, Removing, AskingGit
<1>2. MovesOn(u) /\ RunTypes /\ UNCHANGED <<runVars, dir, handle, hit>>
  BY <1>1, TypeParts DEF MovesOn, Report, UtilCrashes, Removing
<1>3. UtilTypes'
  BY <1>1, <1>2, MovesOnType
<1> QED
  BY <1>2, <1>3 DEF UtilStepOK, RunTypes

LEMMA UtilStepKeeps ==
    ASSUME TypeOK, PoolInv, UtilStepOK
    PROVE  UtilTypes' /\ RunTypes' /\ PoolInv'
<1>1. RunTypes' /\ UtilTypes'
  BY TypeParts DEF UtilStepOK, RunTypes, runVars
<1>2. ASSUME NEW q \in Runs, q \notin hit' PROVE Undisturbed(q)'
  <2>1. q \notin hit /\ q \in Entries
    BY <1>2, RunsAreEntries DEF UtilStepOK
  <2>2. Undisturbed(q) /\ dir'[q] = dir[q] /\ UNCHANGED <<pc, captured, keep>>
        /\ ((handle[q] # "live" \/ HasPointer(q)) => handle'[q] = handle[q])
    BY <1>2, <2>1 DEF PoolInv, UtilStepOK, runVars
  <2> QED
    BY <2>2 DEF Undisturbed, HasPointer
<1> QED
  BY <1>1, <1>2 DEF PoolInv

-----------------------------------------------------------------------------
(* The theorems.                                                           *)

IInv == TypeOK /\ PoolInv

LEMMA InterruptOK ==
    ASSUME TypeOK, NEW r \in Runs, Interrupt(r) \/ RunCrashes(r)
    PROVE  RunStepOK(r)
<1>1. RunTypes
  BY TypeParts
<1>2. CASE Interrupt(r)
  BY <1>1, <1>2 DEF Interrupt, RunStepOK, RunTypes, SparesOthers, Undisturbed
<1>3. CASE RunCrashes(r)
  BY <1>1, <1>3 DEF RunCrashes, RunStepOK, RunTypes, RunGoto, RunLabels, SparesOthers, Undisturbed
<1> QED
  BY <1>2, <1>3

\* Every step is free of trouble or is one.
LEMMA WhatFails ==
    ASSUME Next
    PROVE  IOOK \/ IOErr \/ Trouble("signals") \/ Trouble("crashes")
<1>1. ASSUME NEW r \in Runs, RunStep(r) \/ CapturePatch(r) PROVE IOOK \/ IOErr
  BY <1>1 DEF RunStep, AddHandle, MakeDir, Checkout, AddKilled, StartCommand, CapturePatch,
              Cleanup, GitRemoves, RemovesAll, GitPrunes
<1>2. ASSUME NEW u \in Utilities, UtilStep(u) PROVE IOOK \/ IOErr
  BY <1>2 DEF UtilStep, ReadDir, ListOne, PruneOne, PruneGit, PruneGitRemoves,
              PruneRemovesAll, PrunePrunes, Report
<1>3. ASSUME NEW r \in Runs, Interrupt(r) \/ RunCrashes(r)
      PROVE  Trouble("signals") \/ Trouble("crashes")
  BY <1>3 DEF Interrupt, RunCrashes
<1>4. ASSUME NEW u \in Utilities, UtilCrashes(u) PROVE Trouble("crashes")
  BY <1>4 DEF UtilCrashes
<1>5. AllEnded => IOOK
  BY DEF AllEnded, vars, IOOK
<1> QED
  BY <1>1, <1>2, <1>3, <1>4, <1>5 DEF Next

LEMMA TroubleStays ==
    ASSUME TypeOK, Next
    PROVE  TroubleType'
BY TypeParts, WhatFails, IOKeeps, TroubleKeeps

LEMMA IInvInit == Init => IInv
<1> SUFFICES ASSUME Init PROVE IInv
  OBVIOUS
<1>1. RunTypes
  BY DEF Init, RunTypes, RunLabels, Extents, Handles
<1>2. UtilTypes
  <2>1. PICK op \in [Utilities -> {"prune", "list"}] :
            util = [u \in Utilities |->
                     [op |-> op[u], pc |-> "readDir", todo |-> {}, cur |-> {},
                      out |-> {}, failed |-> {}, rest |-> {}, known |-> {}]]
    BY DEF Init
  <2>2. util \in [Utilities -> UtilRecords] /\ \A u \in Utilities : util[u].pc = "readDir"
    BY <2>1 DEF UtilRecords, UtilLabels
  <2> QED
    BY <2>2 DEF Init, UtilTypes, Removing, AskingGit
<1>3. TroubleType
  BY DEF Init, TroubleType
<1>4. PoolInv
  BY RunsAreEntries DEF Init, PoolInv, Undisturbed
<1> QED
  BY <1>1, <1>2, <1>3, <1>4, TypeParts DEF IInv

LEMMA IInvStep == IInv /\ [Next]_vars => IInv'
<1> SUFFICES ASSUME TypeOK, PoolInv, [Next]_vars PROVE IInv'
  BY DEF IInv
<1>1. ASSUME UtilTypes', RunTypes', PoolInv', TroubleType'
      PROVE  IInv'
  <2>1. TypeOK'
    BY <1>1 DEF TypeOK, RunTypes, UtilTypes, WorksOnOne, TroubleType
  <2> QED
    BY <1>1, <2>1 DEF IInv
<1>2. CASE Next
  <2>1. TroubleType'
    BY <1>2, TroubleStays
  <2>2. ASSUME NEW r \in Runs, RunStep(r) \/ CapturePatch(r) \/ Interrupt(r) \/ RunCrashes(r)
        PROVE  RunStepOK(r)
    BY <2>2, AddHandleOK, MakeDirOK, CheckoutOK, CaptureOK, CleanupOK, RemovalOK, InterruptOK
       DEF RunStep
  <2>3. ASSUME NEW u \in Utilities, UtilStep(u) \/ UtilCrashes(u)
        PROVE  UtilStepOK
    BY <2>3, ReadDirOK, ListOneOK, PruneOneOK, RemovingOK, UtilEndsOK DEF UtilStep
  <2>4. CASE AllEnded
    BY <1>1, <2>1, <2>4, TypeParts
       DEF AllEnded, vars, runVars, RunTypes, UtilTypes, WorksOnOne, PoolInv, Undisturbed
  <2> QED
    BY <1>1, <1>2, <2>1, <2>2, <2>3, <2>4, RunStepKeeps, UtilStepKeeps DEF Next
<1>3. CASE UNCHANGED vars
  BY <1>1, <1>3, TypeParts
     DEF vars, runVars, RunTypes, UtilTypes, WorksOnOne, TroubleType, PoolInv, Undisturbed
<1> QED
  BY <1>2, <1>3

LEMMA IInvHolds == Spec => []IInv
BY IInvInit, IInvStep, PTL DEF Spec

\* Every variable stays within its type, a --prune that removes has one directory before
\* it, which it has set out to remove, and it asks git only about a run's.
\* (runUtilitySubcommand, setupTempWorktree, cleanup.)
THEOREM PoolTypeCorrect == Spec => []TypeOK
<1>1. IInv => TypeOK
  BY DEF IInv
<1> QED
  BY <1>1, IInvHolds, PTL

\* A worktree that --prune has not been at is whole and known to Git while its run
\* works in it, and after the run if it is kept.  (RemoveWorktree and its git
\* worktree prune, beside any number of other runs of the same repository.)
THEOREM UnprunedSafe == Spec => []UnprunedStays
<1>1. IInv => UnprunedStays
  BY DEF IInv, PoolInv, Undisturbed, UnprunedStays
<1> QED
  BY <1>1, IInvHolds, PTL

\* A patch that shows what a removal had left is of a run that --prune has been at:
\* the finding PruneRace has no other cause, neither another run's cleanup nor the
\* git worktree prune at its end.  (capturePatch stages whatever is there.)
OnlyPruneCuts == \A r \in Runs \ hit : captured[r] # "what was left"

LEMMA OnlyPruneCutsNext == IInv /\ OnlyPruneCuts /\ [Next]_vars => OnlyPruneCuts'
<1> SUFFICES ASSUME IInv, OnlyPruneCuts, [Next]_vars, NEW r \in Runs, r \notin hit'
             PROVE  captured'[r] # "what was left"
  BY DEF OnlyPruneCuts
<1>1. TypeOK /\ RunTypes
  BY TypeParts DEF IInv
<1>2. ASSUME NEW q \in Runs, CapturePatch(q) PROVE captured'[r] # "what was left"
  <2>1. r \notin hit /\ pc[q] = "command"
    BY <1>2 DEF CapturePatch
  <2>2. q = r => dir[r] = "whole"
    BY <2>1 DEF IInv, PoolInv, Undisturbed
  <2>3. q = r => captured'[r] \in {captured[r], "what ran"}
    BY <1>1, <1>2, <2>2 DEF CapturePatch, RunTypes
  <2>4. q # r => captured'[r] = captured[r]
    BY <1>1, <1>2 DEF CapturePatch, RunTypes
  <2> QED
    BY <2>1, <2>3, <2>4 DEF OnlyPruneCuts
<1>3. ASSUME UNCHANGED captured, hit \subseteq hit' PROVE captured'[r] # "what was left"
  BY <1>3 DEF OnlyPruneCuts
<1>4. ASSUME NEW q \in Runs, RunStep(q) \/ Interrupt(q) \/ RunCrashes(q)
      PROVE  UNCHANGED <<captured, hit>>
  BY <1>4 DEF RunStep, AddHandle, MakeDir, Checkout, AddKilled, StartCommand, Cleanup,
     GitRemoves, RemovesAll, GitPrunes, Interrupt, RunCrashes
<1>5. ASSUME NEW u \in Utilities, UtilStep(u) \/ UtilCrashes(u)
      PROVE  UNCHANGED captured /\ hit \subseteq hit'
  BY <1>5 DEF UtilStep, UtilCrashes, ReadDir, ListOne, PruneOne, PruneGit,
     PruneGitRemoves, PruneRemovesAll, PrunePrunes, Report, runVars
<1>6. CASE AllEnded \/ UNCHANGED vars
  BY <1>3, <1>6 DEF AllEnded, vars, runVars
<1> QED
  BY <1>2, <1>3, <1>4, <1>5, <1>6 DEF Next

\* Only --prune lets a patch show files as deleted that the command has not deleted.
\* (capturePatch, RemoveWorktree, pruneRuns.)
THEOREM OnlyPruneCutsAPatch == Spec => [](\A r \in Runs \ hit : captured[r] # "what was left")
<1>1. Init => OnlyPruneCuts
  BY DEF Init, OnlyPruneCuts
<1>2. OnlyPruneCuts <=> \A r \in Runs \ hit : captured[r] # "what was left"
  BY DEF OnlyPruneCuts
<1> QED
  BY <1>1, <1>2, OnlyPruneCutsNext, IInvHolds, PTL DEF Spec

-----------------------------------------------------------------------------
(* What a run leaves behind.                                               *)

\* Troubles that can keep a run from removing its worktree.
Troubles == trouble.faults + trouble.signals

LEMMA TroubleGrows ==
    ASSUME TypeOK, Next
    PROVE  /\ trouble.faults \in Nat /\ trouble.signals \in Nat
           /\ trouble'.faults \in Nat /\ trouble'.signals \in Nat
           /\ trouble'.faults >= trouble.faults /\ trouble'.signals >= trouble.signals
           /\ IOErr => trouble'.faults = trouble.faults + 1
           /\ Trouble("signals") => trouble'.signals = trouble.signals + 1
<1>1. trouble \in [faults : Nat, signals : Nat, crashes : Nat]
  BY DEF TypeOK
<1>2. \A k \in {"faults", "signals", "crashes"} : Trouble(k) =>
        trouble' = [trouble EXCEPT ![k] = trouble[k] + 1]
  BY DEF Trouble
<1>3. IOOK \/ Trouble("faults") \/ Trouble("signals") \/ Trouble("crashes")
  BY WhatFails DEF IOErr
<1>4. CASE Trouble("faults")
  BY <1>1, <1>2, <1>4 DEF IOErr, Trouble
<1>5. CASE Trouble("signals")
  BY <1>1, <1>2, <1>5 DEF IOErr, Trouble
<1>6. CASE Trouble("crashes")
  BY <1>1, <1>2, <1>6 DEF IOErr, Trouble
<1>7. CASE IOOK
  BY <1>1, <1>7 DEF IOOK, IOErr, Trouble
<1> QED
  BY <1>3, <1>4, <1>5, <1>6, <1>7

\* An unpruned worktree that is still there after its cleanup has cost troubles.
Leaves(r) ==
    /\ r \in cancelled => trouble.signals > 0
    /\ r \notin hit =>
        /\ pc[r] = "cleanup" =>
            \/ dir[r] = "whole" /\ handle[r] = "live"
            \/ dir[r] = "absent"
            \/ Troubles > 0
        /\ pc[r] = "removeAll" => dir[r] = "absent" \/ Troubles > 0
        /\ pc[r] = "gitPrune" => dir[r] = "absent"
        /\ pc[r] = "done" /\ r \notin keep => dir[r] = "absent" \/ Troubles > 1

LeaveInv == \A r \in Runs : Leaves(r)

LEMMA OthersLeave ==
    ASSUME IInv, LeaveInv, Next, NEW r \in Runs, pc'[r] = pc[r], keep' = keep,
           r \in cancelled' => r \in cancelled, hit \subseteq hit',
           r \notin hit => dir'[r] = dir[r],
           r \notin hit => ((handle[r] # "live" \/ HasPointer(r)) => handle'[r] = handle[r])
    PROVE  Leaves(r)'
<1>1. Leaves(r) /\ Troubles' >= Troubles /\ (trouble.signals > 0 => trouble'.signals > 0)
      /\ Troubles \in Nat /\ Troubles' \in Nat
  BY TroubleGrows DEF LeaveInv, IInv, Troubles
<1>2. (Troubles > 0 => Troubles' > 0) /\ (Troubles > 1 => Troubles' > 1)
  BY <1>1
<1>3. (dir[r] = "whole" /\ handle[r] = "live" /\ r \notin hit) => handle'[r] = "live"
  BY DEF HasPointer
<1> QED
  BY <1>1, <1>2, <1>3 DEF Leaves

LEMMA OwnLeave ==
    ASSUME IInv, LeaveInv, Next, NEW r \in Runs, RunStep(r) \/ CapturePatch(r)
    PROVE  Leaves(r)'
<1>1. /\ RunTypes /\ Leaves(r) /\ r \in Entries /\ (r \notin hit => Undisturbed(r))
      /\ UNCHANGED <<keep, hit, cancelled>>
  BY TypeParts, RunsAreEntries DEF IInv, PoolInv, LeaveInv, RunStep, AddHandle, MakeDir, Checkout,
     AddKilled, StartCommand, CapturePatch, Cleanup, GitRemoves, RemovesAll, GitPrunes
<1>2. /\ trouble.faults \in Nat /\ trouble.signals \in Nat
      /\ trouble'.faults >= trouble.faults /\ trouble'.signals >= trouble.signals
      /\ trouble'.faults \in Nat /\ trouble'.signals \in Nat
      /\ IOErr => trouble'.faults = trouble.faults + 1
  BY TroubleGrows DEF IInv
<1>3. /\ Troubles > 0 => Troubles' > 0
      /\ IOErr => Troubles' > 0
      /\ IOErr /\ Troubles > 0 => Troubles' > 1
      /\ trouble.signals > 0 => trouble'.signals > 0 /\ Troubles > 0 /\ Troubles' > 0
  BY <1>2 DEF Troubles
<1> HIDE DEF Troubles
<1> SUFFICES ASSUME r \notin hit
             PROVE  /\ pc'[r] = "cleanup" =>
                        \/ dir'[r] = "whole" /\ handle'[r] = "live"
                        \/ dir'[r] = "absent"
                        \/ Troubles' > 0
                    /\ pc'[r] = "removeAll" => dir'[r] = "absent" \/ Troubles' > 0
                    /\ pc'[r] = "gitPrune" => dir'[r] = "absent"
                    /\ pc'[r] = "done" /\ r \notin keep => dir'[r] = "absent" \/ Troubles' > 1
  BY <1>1, <1>3 DEF Leaves
<1>4. ASSUME AddHandle(r) \/ MakeDir(r) \/ StartCommand(r) \/ AddKilled(r)
      PROVE  /\ pc'[r] \in {"mkdir", "checkout", "command", "cleanup"}
             /\ pc'[r] = "cleanup" => dir'[r] = "absent" \/ Troubles' > 0
  <2>1. CASE AddHandle(r)
    BY <2>1, <1>1 DEF AddHandle, RunGoto, RunTypes, Undisturbed
  <2>2. CASE MakeDir(r) \/ StartCommand(r)
    BY <2>2, <1>1 DEF MakeDir, StartCommand, RunGoto, RunTypes, Undisturbed
  <2>3. CASE AddKilled(r)
    BY <2>3, <1>1, <1>3 DEF AddKilled, RunGoto, RunTypes, Leaves
  <2> QED
    BY <1>4, <2>1, <2>2, <2>3
<1>5. ASSUME Checkout(r)
      PROVE  pc'[r] \in {"added", "cleanup"} /\ (pc'[r] = "cleanup" => dir'[r] = "absent")
  BY <1>5, <1>1 DEF Checkout, RunGoto, RunTypes
<1>6. ASSUME CapturePatch(r)
      PROVE  pc'[r] = "cleanup" /\ dir'[r] = "whole" /\ handle'[r] = "live"
  BY <1>6, <1>1 DEF CapturePatch, RunGoto, RunTypes, Undisturbed
<1>7. ASSUME Cleanup(r)
      PROVE  /\ pc'[r] \in {"done", "gitRemove", "removeAll"}
             /\ pc'[r] = "done" => r \in keep
             /\ pc'[r] = "removeAll" => dir'[r] = "absent" \/ Troubles' > 0
  <2>1. pc[r] = "cleanup" /\ dir' = dir
    BY <1>7 DEF Cleanup
  <2>2. CASE r \in keep /\ RunGoto(r, "done")
    BY <2>2, <1>1 DEF RunGoto, RunTypes
  <2>3. CASE RunGoto(r, "gitRemove")
    BY <2>3, <1>1 DEF RunGoto, RunTypes
  <2>4. CASE RunGoto(r, "removeAll") /\ (r \in cancelled \/ ~GitAccepts(r) \/ IOErr)
    <3>1. pc'[r] = "removeAll"
      BY <2>4, <1>1 DEF RunGoto, RunTypes
    <3>2. CASE r \in cancelled \/ IOErr
      BY <3>1, <3>2, <1>1, <1>3 DEF Leaves
    <3>3. CASE ~GitAccepts(r)
      BY <2>1, <3>1, <3>3, <1>1, <1>3 DEF Leaves, GitAccepts
    <3> QED
      BY <2>4, <3>2, <3>3
  <2> QED
    BY <1>7, <2>2, <2>3, <2>4 DEF Cleanup
<1>8. ASSUME GitRemoves(r)
      PROVE  /\ pc'[r] \in {"gitRemove", "done", "removeAll"}
             /\ pc'[r] = "done" => dir'[r] = "absent"
             /\ pc'[r] = "removeAll" => Troubles' > 0
  <2>1. pc[r] = "gitRemove"
    BY <1>8 DEF GitRemoves
  <2>2. CASE UNCHANGED pc
    BY <2>1, <2>2
  <2>3. CASE dir[r] = "absent" /\ RunGoto(r, "done") /\ UNCHANGED dir
    BY <2>3, <1>1 DEF RunGoto, RunTypes
  <2>4. CASE r \in cancelled /\ RunGoto(r, "removeAll")
    BY <2>4, <1>1, <1>3 DEF RunGoto, RunTypes, Leaves
  <2> QED
    BY <1>8, <2>2, <2>3, <2>4 DEF GitRemoves
<1>9. ASSUME RemovesAll(r)
      PROVE  /\ pc'[r] \in {"removeAll", "gitPrune", "done"}
             /\ pc'[r] = "removeAll" => dir'[r] = "absent" \/ Troubles' > 0
             /\ pc'[r] = "gitPrune" => dir'[r] = "absent"
             /\ pc'[r] = "done" => Troubles' > 1
  <2>1. pc[r] = "removeAll" /\ (dir[r] = "absent" \/ Troubles > 0)
    BY <1>9, <1>1 DEF RemovesAll, Leaves
  <2>2. CASE RemoveSome(r) /\ UNCHANGED pc
    <3>1. dir[r] # "absent"
      BY <2>2 DEF RemoveSome, Smaller
    <3> QED
      BY <2>1, <2>2, <3>1, <1>3
  <2>3. CASE dir[r] = "absent" /\ RunGoto(r, "gitPrune") /\ UNCHANGED dir
    BY <2>3, <1>1 DEF RunGoto, RunTypes
  <2>4. CASE dir[r] # "absent" /\ IOErr /\ RunGoto(r, "done")
    BY <2>1, <2>4, <1>1, <1>3 DEF RunGoto, RunTypes
  <2> QED
    BY <1>9, <2>2, <2>3, <2>4 DEF RemovesAll
<1>10. ASSUME GitPrunes(r) PROVE pc'[r] = "done" /\ dir'[r] = "absent"
  BY <1>10, <1>1 DEF GitPrunes, RunGoto, RunTypes, Leaves
<1> QED
  BY <1>1, <1>4, <1>5, <1>6, <1>7, <1>8, <1>9, <1>10 DEF RunStep

LEMMA LeaveNext == IInv /\ LeaveInv /\ [Next]_vars => LeaveInv'
<1> SUFFICES ASSUME IInv, LeaveInv, [Next]_vars PROVE LeaveInv'
  OBVIOUS
<1>t. TypeOK /\ RunTypes
  BY TypeParts DEF IInv
<1>1. ASSUME NEW q \in Runs, Next, RunStep(q) \/ CapturePatch(q), NEW r \in Runs
      PROVE  Leaves(r)'
  <2>1. CASE r = q
    BY <1>1, <2>1, OwnLeave
  <2>2. CASE r # q
    <3>1. RunStepOK(q)
      BY <1>1, <1>t, AddHandleOK, MakeDirOK, CheckoutOK, CaptureOK, CleanupOK, RemovalOK DEF RunStep
    <3>2. cancelled' = cancelled
      BY <1>1 DEF RunStep, AddHandle, MakeDir, Checkout, AddKilled, StartCommand, CapturePatch,
         Cleanup, GitRemoves, RemovesAll, GitPrunes
    <3> QED
      BY <1>1, <2>2, <3>1, <3>2, RunsAreEntries, OthersLeave DEF RunStepOK, SparesOthers
  <2> QED
    BY <2>1, <2>2
<1>2. ASSUME NEW q \in Runs, Next, Interrupt(q), NEW r \in Runs PROVE Leaves(r)'
  <2>1. CASE r # q
    BY <1>2, <2>1, OthersLeave DEF Interrupt
  <2>2. CASE r = q
    <3>1. /\ trouble.faults \in Nat /\ trouble.signals \in Nat
          /\ trouble'.faults >= trouble.faults /\ trouble'.faults \in Nat
          /\ trouble'.signals = trouble.signals + 1
      BY <1>2, <1>t, TroubleGrows DEF Interrupt
    <3>2. trouble'.signals > 0 /\ Troubles' > 0 /\ (Troubles > 1 => Troubles' > 1)
      BY <3>1 DEF Troubles
    <3>3. Leaves(r) /\ UNCHANGED <<pc, keep, dir, handle, hit>>
      BY <1>2 DEF Interrupt, LeaveInv
    <3> QED
      BY <3>2, <3>3 DEF Leaves
  <2> QED
    BY <2>1, <2>2
<1>3. ASSUME NEW q \in Runs, Next, RunCrashes(q), NEW r \in Runs PROVE Leaves(r)'
  <2>1. CASE r # q
    <3>1. pc'[r] = pc[r]
      BY <1>3, <1>t, <2>1 DEF RunCrashes, RunGoto, RunTypes
    <3> QED
      BY <1>3, <3>1, OthersLeave DEF RunCrashes
  <2>2. CASE r = q
    <3>1. pc'[r] = "crashed" /\ UNCHANGED <<cancelled, keep, hit>>
      BY <1>3, <1>t, <2>2 DEF RunCrashes, RunGoto, RunTypes
    <3>2. trouble.signals > 0 => trouble'.signals > 0
      BY <1>3, <1>t, TroubleGrows
    <3> QED
      BY <3>1, <3>2 DEF Leaves, LeaveInv
  <2> QED
    BY <2>1, <2>2
<1>4. ASSUME NEW u \in Utilities, Next, UtilStep(u) \/ UtilCrashes(u), NEW r \in Runs
      PROVE  Leaves(r)'
  <2>1. UtilStepOK
    BY <1>4, <1>t, ReadDirOK, ListOneOK, PruneOneOK, RemovingOK, UtilEndsOK DEF UtilStep
  <2>2. UNCHANGED <<pc, keep, cancelled>> /\ hit \subseteq hit'
    BY <2>1 DEF UtilStepOK, runVars
  <2>3. r \notin hit => dir'[r] = dir[r]
    BY <2>1, RunsAreEntries DEF UtilStepOK
  <2>4. r \notin hit => ((handle[r] # "live" \/ HasPointer(r)) => handle'[r] = handle[r])
    BY <2>1 DEF UtilStepOK
  <2> QED
    BY <1>4, <2>2, <2>3, <2>4, OthersLeave
<1>5. CASE UNCHANGED vars
  BY <1>5 DEF LeaveInv, Leaves, Troubles, vars, runVars
<1> QED
  BY <1>1, <1>2, <1>3, <1>4, <1>5 DEF Next, AllEnded, LeaveInv

\* A run that was to keep nothing leaves no directory, if --prune was not at it and at
\* most one call or signal came between.
THEOREM RunLeavesNothingBehind == Spec => []RunLeavesNothing
<1>1. Init => LeaveInv
  BY DEF Init, LeaveInv, Leaves
<1>2. IInv /\ LeaveInv => RunLeavesNothing
  <2> SUFFICES ASSUME IInv, LeaveInv, Troubles <= 1, NEW r \in Runs, r \notin keep, r \notin hit,
                      pc[r] = "done"
               PROVE  dir[r] = "absent"
    BY DEF RunLeavesNothing, Troubles
  <2>1. trouble \in [faults : Nat, signals : Nat, crashes : Nat]
    BY DEF IInv, TypeOK
  <2>2. ~(Troubles > 1)
    BY <2>1 DEF Troubles
  <2> QED
    BY <2>2 DEF LeaveInv, Leaves
<1> QED
  BY <1>1, <1>2, LeaveNext, IInvHolds, PTL DEF Spec

-----------------------------------------------------------------------------
(* What --prune and --list-runs owe to the worktrees at rest.              *)

\* A worktree at rest only gets smaller, and --prune has set out to make it so.
AtRest ==
    /\ hit \subseteq hit'
    /\ \A r \in Runs : pc[r] \in Ended =>
        /\ pc'[r] = pc[r] /\ repo'[r] = repo[r] /\ handle'[r] \in {handle[r], "none"}
        /\ r \notin hit => dir'[r] = dir[r]
        /\ dir'[r] \in {dir[r]} \cup Smaller(dir[r])

LEMMA RunsAtRest ==
    ASSUME IInv, NEW q \in Runs,
           RunStep(q) \/ CapturePatch(q) \/ Interrupt(q) \/ RunCrashes(q)
    PROVE  /\ AtRest /\ UNCHANGED <<util, hit>>
           /\ \A r \in Runs : pc[r] \in Ended => dir'[r] = dir[r]
<1>1. TypeOK /\ RunTypes
  BY TypeParts DEF IInv
<1>2. RunStepOK(q)
  BY <1>1, AddHandleOK, MakeDirOK, CheckoutOK, CaptureOK, CleanupOK, RemovalOK, InterruptOK
     DEF RunStep
<1>3. pc[q] \notin Ended /\ repo' = repo
  BY DEF Ended, RunStep, AddHandle, MakeDir, Checkout, AddKilled, StartCommand, CapturePatch,
     Cleanup, GitRemoves, RemovesAll, GitPrunes, Interrupt, RunCrashes
<1>4. ASSUME NEW r \in Runs, r # q PROVE handle'[r] \in {handle[r], "none"}
  <2>1. \/ UNCHANGED handle \/ DropHandle(q) \/ PruneHandles(repo[q])
        \/ \E h \in Handles : handle' = [handle EXCEPT ![q] = h]
    BY DEF RunStep, AddHandle, MakeDir, Checkout, AddKilled, StartCommand, CapturePatch,
       Cleanup, GitRemoves, RemovesAll, GitPrunes, Interrupt, RunCrashes, Handles
  <2> QED
    BY <1>1, <1>4, <2>1 DEF DropHandle, PruneHandles, RunTypes
<1> QED
  BY <1>2, <1>3, <1>4, RunsAreEntries DEF AtRest, RunStepOK, SparesOthers

\* Which directory a utility makes smaller, and whose handle it drops.
LEMMA WhoShrinks ==
    ASSUME IInv, NEW u \in Utilities, UtilStep(u) \/ UtilCrashes(u), NEW r \in Runs
    PROVE  /\ dir'[r] # dir[r] =>
                /\ util[u].cur = {r} /\ util[u].pc \in {"gitRemove", "removeAll", "rm"}
                /\ RemoveSome(r) /\ UNCHANGED util
           /\ handle'[r] \in {handle[r], "none"}
<1>1. RunTypes /\ UtilTypes
  BY TypeParts DEF IInv
<1>2. CASE PruneGitRemoves(u) \/ PruneRemovesAll(u) \/ PrunePrunes(u)
  <2>1. PICK e \in Entries : util[u].cur = {e} /\ (util[u].pc \in AskingGit => e \in Runs)
    BY <1>1, <1>2, OneAtATime DEF PruneGitRemoves, PruneRemovesAll, PrunePrunes, Removing, AskingGit
  <2>2. \/ UNCHANGED dir
        \/ RemoveSome(e) /\ UNCHANGED util /\ util[u].pc \in {"gitRemove", "removeAll", "rm"}
    BY <1>2, <2>1 DEF PruneGitRemoves, PruneRemovesAll, PrunePrunes
  <2>3. RemoveSome(e) => \A d \in Entries \ {e} : dir'[d] = dir[d]
    BY <1>1, <2>1, RemoveSomeType, RunsAreEntries
  <2>4. UNCHANGED handle \/ (e \in Runs /\ (DropHandle(e) \/ PruneHandles(repo[e])))
    BY <1>2, <2>1 DEF PruneGitRemoves, PruneRemovesAll, PrunePrunes, AskingGit
  <2>5. handle'[r] \in {handle[r], "none"}
    BY <1>1, <2>4 DEF DropHandle, PruneHandles, RunTypes
  <2>6. r \in Entries
    BY RunsAreEntries
  <2> QED
    BY <2>1, <2>2, <2>3, <2>5, <2>6
<1>3. CASE UNCHANGED <<dir, handle>>
  BY <1>3
<1> QED
  BY <1>2, <1>3 DEF UtilStep, UtilCrashes, ReadDir, ListOne, PruneOne, PruneGit, Report

LEMMA UtilsAtRest ==
    ASSUME IInv, NEW u \in Utilities, UtilStep(u) \/ UtilCrashes(u)
    PROVE  AtRest /\ UNCHANGED runVars
<1>1. RunTypes /\ UtilTypes /\ TypeOK
  BY TypeParts DEF IInv
<1>2. UtilStepOK
  BY <1>1, ReadDirOK, ListOneOK, PruneOneOK, RemovingOK, UtilEndsOK DEF UtilStep
<1>3. hit \subseteq hit' /\ UNCHANGED <<pc, repo>> /\ UNCHANGED runVars
  BY <1>2 DEF UtilStepOK, runVars
<1>4. ASSUME NEW r \in Runs
      PROVE  /\ handle'[r] \in {handle[r], "none"}
             /\ r \notin hit => dir'[r] = dir[r]
             /\ dir'[r] \in {dir[r]} \cup Smaller(dir[r])
  <2>1. handle'[r] \in {handle[r], "none"} /\ (dir'[r] # dir[r] => RemoveSome(r))
    BY WhoShrinks
  <2>2. r \notin hit => dir'[r] = dir[r]
    BY <1>2, RunsAreEntries DEF UtilStepOK
  <2>3. RemoveSome(r) => dir'[r] \in Smaller(dir[r])
    BY <1>1, RunsAreEntries DEF RemoveSome, RunTypes
  <2> QED
    BY <2>1, <2>2, <2>3
<1> QED
  BY <1>3, <1>4 DEF AtRest

-----------------------------------------------------------------------------

\* What a utility still has to do, or has done, for those it found at rest.
Rest(u) ==
    /\ util[u].pc = "readDir" => util[u].rest = {} /\ util[u].known = {}
    /\ util[u].pc = "done" => util[u].todo = {}
    /\ util[u].known \subseteq util[u].rest
    /\ \A r \in util[u].rest : pc[r] \in Ended

Lists(u) ==
    util[u].op = "list" =>
        /\ util[u].pc \notin Removing
        /\ \A r \in util[u].rest \ hit : dir[r] # "absent" /\ r \in util[u].todo \cup util[u].out

Prunes(u) ==
    util[u].op = "prune" /\ util[u].pc # "crashed" =>
        \A r \in util[u].rest :
            \/ r \in util[u].todo \cup util[u].failed
            \/ dir[r] = "absent"
            \/ util[u].cur = {r} /\ util[u].pc \in {"git", "gitRemove", "removeAll", "rm"}

RestInv == \A u \in Utilities : Rest(u) /\ Lists(u) /\ Prunes(u)

\* The record of a utility after a step of its own.
Own(u, l, todo, cur, out, failed) ==
    /\ util'[u].pc = l /\ util'[u].todo = todo /\ util'[u].cur = cur
    /\ util'[u].out = out /\ util'[u].failed = failed
    /\ util'[u].op = util[u].op /\ util'[u].rest = util[u].rest /\ util'[u].known = util[u].known

OwnMove(u, l) == Own(u, l, util[u].todo, util[u].cur, util[u].out, util[u].failed)

LEMMA OwnMoves ==
    ASSUME UtilTypes, NEW u \in Utilities
    PROVE  /\ \A l : UtilGoto(u, l) => OwnMove(u, l)
           /\ \A e : Removed(u, e) =>
                Own(u, "next", util[u].todo, util[u].cur, util[u].out \cup {e}, util[u].failed)
           /\ \A e : NotRemoved(u, e) =>
                Own(u, "next", util[u].todo, util[u].cur, util[u].out, util[u].failed \cup {e})
           /\ ListOne(u) => \E e \in util[u].todo :
                Own(u, "next", util[u].todo \ {e}, util[u].cur,
                    IF dir[e] = "absent" THEN util[u].out ELSE util[u].out \cup {e},
                    util[u].failed)
           /\ PruneOne(u) => \E e \in util[u].todo : \E l \in {"git", "rm"} :
                Own(u, l, util[u].todo \ {e}, {e}, util[u].out, util[u].failed)
<1>1. util \in [Utilities -> UtilRecords] /\ util[u] \in UtilRecords
  BY DEF UtilTypes
<1>2. ASSUME NEW l, UtilGoto(u, l) PROVE OwnMove(u, l)
  BY <1>1, <1>2 DEF UtilGoto, Own, OwnMove, UtilRecords
<1>3. ASSUME NEW e, Removed(u, e)
      PROVE  Own(u, "next", util[u].todo, util[u].cur, util[u].out \cup {e}, util[u].failed)
  BY <1>1, <1>3 DEF Removed, Own, UtilRecords
<1>4. ASSUME NEW e, NotRemoved(u, e)
      PROVE  Own(u, "next", util[u].todo, util[u].cur, util[u].out, util[u].failed \cup {e})
  BY <1>1, <1>4 DEF NotRemoved, Own, UtilRecords
<1>6. ASSUME ListOne(u)
      PROVE  \E e \in util[u].todo :
                Own(u, "next", util[u].todo \ {e}, util[u].cur,
                    IF dir[e] = "absent" THEN util[u].out ELSE util[u].out \cup {e},
                    util[u].failed)
  <2>1. PICK e \in util[u].todo : util' = [util EXCEPT ![u].todo = @ \ {e},
                ![u].out = IF dir[e] = "absent" THEN @ ELSE @ \cup {e}]
    BY <1>6 DEF ListOne
  <2> DEFINE more == IF dir[e] = "absent" THEN util[u].out ELSE util[u].out \cup {e}
             rec == [util[u] EXCEPT !.todo = @ \ {e}, !.out = more]
  <2>2. util' = [util EXCEPT ![u] = rec]
    BY <2>1
  <2>3. util[u].pc = "next"
    BY <1>6 DEF ListOne
  <2> HIDE DEF more
  <2>4. util'[u] = rec
    BY <1>1, <2>2
  <2>5. Own(u, "next", util[u].todo \ {e}, util[u].cur, more, util[u].failed)
    BY <1>1, <2>3, <2>4 DEF Own, UtilRecords
  <2> QED
    BY <2>5 DEF more
<1>7. ASSUME PruneOne(u)
      PROVE  \E e \in util[u].todo : \E l \in {"git", "rm"} :
                Own(u, l, util[u].todo \ {e}, {e}, util[u].out, util[u].failed)
  <2>1. PICK e \in util[u].todo : \E l \in {"git", "rm"} :
            util' = [util EXCEPT ![u].todo = @ \ {e}, ![u].cur = {e}, ![u].pc = l]
    BY <1>7 DEF PruneOne
  <2>2. PICK l \in {"git", "rm"} :
            util' = [util EXCEPT ![u].todo = @ \ {e}, ![u].cur = {e}, ![u].pc = l]
    BY <2>1
  <2>3. Own(u, l, util[u].todo \ {e}, {e}, util[u].out, util[u].failed)
    BY <1>1, <2>2 DEF Own, UtilRecords
  <2> QED
    BY <2>1, <2>3
<1> QED
  BY <1>2, <1>3, <1>4, <1>6, <1>7

LEMMA OthersKeepTheirs ==
    ASSUME UtilTypes, NEW u \in Utilities, UtilStep(u) \/ UtilCrashes(u)
    PROVE  \A v \in Utilities \ {u} : util'[v] = util[v]
<1>1. UNCHANGED util \/ \E rec : util' = [util EXCEPT ![u] = rec]
  BY DEF UtilStep, UtilCrashes, ReadDir, ListOne, PruneOne, PruneGit, PruneGitRemoves,
     PruneRemovesAll, PrunePrunes, Report, UtilGoto, Removed, NotRemoved
<1> QED
  BY <1>1 DEF UtilTypes

\* A utility that does not move, and one that does.
LEMMA RestKept ==
    ASSUME IInv, NEW u \in Utilities, AtRest, util'[u] = util[u],
           Rest(u), Lists(u), Prunes(u)
    PROVE  Rest(u)' /\ Lists(u)' /\ Prunes(u)'
<1>1. util[u].rest \subseteq Runs
  BY TypeParts DEF IInv, UtilTypes, UtilRecords
<1>2. \A r \in Runs : pc[r] \in Ended => /\ pc'[r] \in Ended
                                         /\ r \notin hit => dir'[r] = dir[r]
                                         /\ dir[r] = "absent" => dir'[r] = "absent"
  BY DEF AtRest, Smaller
<1>3. hit \subseteq hit'
  BY DEF AtRest
<1>4. Rest(u)'
  BY <1>1, <1>2 DEF Rest
<1>5. Lists(u)'
  BY <1>1, <1>2, <1>3 DEF Rest, Lists
<1>6. Prunes(u)'
  BY <1>1, <1>2 DEF Rest, Prunes
<1> QED
  BY <1>4, <1>5, <1>6

LEMMA ReadDirRest ==
    ASSUME IInv, NEW u \in Utilities, ReadDir(u)
    PROVE  Rest(u)' /\ Lists(u)' /\ Prunes(u)'
<1> DEFINE there == {e \in Entries : IsRunDir(e) /\ dir[e] # "absent"}
           rest == {r \in Runs \cap there : pc[r] \in Ended}
           known == {r \in rest : HasPointer(r) /\ handle[r] = "live" /\ repo[r] \in Derivable}
           rec == [util[u] EXCEPT !.pc = "next", !.todo = there, !.rest = rest, !.known = known]
<1>1. util \in [Utilities -> UtilRecords] /\ util[u] \in UtilRecords
  BY TypeParts DEF IInv, UtilTypes
<1>2. util' = [util EXCEPT ![u] = rec]
  BY DEF ReadDir
<1>3. known \subseteq rest /\ rest \subseteq there /\ rest \subseteq Runs
      /\ (\A r \in rest : pc[r] \in Ended) /\ \A r \in there : dir[r] # "absent"
  OBVIOUS
<1>4. UNCHANGED <<pc, dir, hit>>
  BY DEF ReadDir, runVars
<1> HIDE DEF there, rest, known
<1>5. /\ util'[u].pc = "next" /\ util'[u].todo = there /\ util'[u].rest = rest
      /\ util'[u].known = known
  BY <1>1, <1>2 DEF UtilRecords
<1>6. Rest(u)'
  BY <1>3, <1>4, <1>5 DEF Rest
<1>7. Lists(u)'
  BY <1>3, <1>4, <1>5 DEF Lists, Removing, AskingGit
<1>8. Prunes(u)'
  BY <1>3, <1>4, <1>5 DEF Prunes
<1> QED
  BY <1>6, <1>7, <1>8

\* A utility's own step, reading the parent aside.
LEMMA OwnRest ==
    ASSUME IInv, NEW u \in Utilities, UtilStep(u) \/ UtilCrashes(u), ~ReadDir(u), AtRest,
           Rest(u), Lists(u), Prunes(u)
    PROVE  Rest(u)' /\ Lists(u)' /\ Prunes(u)'
<1>1. UtilTypes /\ RunTypes /\ util[u].rest \subseteq Runs /\ util[u].op \in {"prune", "list"}
  BY TypeParts DEF IInv, UtilTypes, UtilRecords
<1>2. \A r \in Runs : pc[r] \in Ended => /\ pc'[r] \in Ended
                                         /\ r \notin hit => dir'[r] = dir[r]
                                         /\ dir[r] = "absent" => dir'[r] = "absent"
  BY DEF AtRest, Smaller
<1>3. hit \subseteq hit'
  BY DEF AtRest
\* What is common to all: the utility's own record, and no reading again.
<1>4. ASSUME NEW l, NEW todo, NEW cur, NEW out, NEW failed, Own(u, l, todo, cur, out, failed),
             l # "readDir", l = "done" => todo = {}
      PROVE  Rest(u)'
  BY <1>1, <1>2, <1>4 DEF Own, Rest
<1>5. CASE UNCHANGED util
  BY <1>5, RestKept
<1>7. CASE ListOne(u)
  <2>1. PICK e \in util[u].todo :
                Own(u, "next", util[u].todo \ {e}, util[u].cur,
                    IF dir[e] = "absent" THEN util[u].out ELSE util[u].out \cup {e},
                    util[u].failed)
    BY <1>1, <1>7, OwnMoves
  <2>2. util[u].op = "list"
    BY <1>7 DEF ListOne
  <2>3. Rest(u)'
    BY <1>4, <2>1
  <2>4. Lists(u)'
    BY <1>1, <1>2, <1>3, <2>1 DEF Own, Rest, Lists, Removing, AskingGit
  <2>5. Prunes(u)'
    BY <2>1, <2>2 DEF Own, Prunes
  <2> QED
    BY <2>3, <2>4, <2>5
<1>8. CASE PruneOne(u)
  <2>1. PICK e \in util[u].todo : \E l \in {"git", "rm"} :
                Own(u, l, util[u].todo \ {e}, {e}, util[u].out, util[u].failed)
    BY <1>1, <1>8, OwnMoves
  <2>2. PICK l \in {"git", "rm"} :
                Own(u, l, util[u].todo \ {e}, {e}, util[u].out, util[u].failed)
    BY <2>1
  <2>3. util[u].op = "prune" /\ util[u].pc = "next"
    BY <1>8 DEF PruneOne
  <2>4. Rest(u)'
    BY <1>4, <2>2
  <2>5. Lists(u)'
    BY <2>2, <2>3 DEF Own, Lists
  <2>6. Prunes(u)'
    BY <1>1, <1>2, <2>2, <2>3 DEF Own, Rest, Prunes
  <2> QED
    BY <2>4, <2>5, <2>6
<1>9. CASE Report(u) \/ UtilCrashes(u)
  <2>1. PICK l \in {"done", "crashed"} : OwnMove(u, l) /\ (l = "done" => util[u].todo = {})
                                         /\ (l = "done" => util[u].pc = "next")
    BY <1>1, <1>9, OwnMoves DEF Report, UtilCrashes
  <2>2. Rest(u)'
    BY <1>4, <2>1 DEF OwnMove
  <2>3. Lists(u)'
    BY <1>1, <1>2, <1>3, <2>1 DEF Own, OwnMove, Rest, Lists, Removing, AskingGit
  <2>4. Prunes(u)'
    BY <1>1, <1>2, <2>1 DEF Own, OwnMove, Rest, Prunes
  <2> QED
    BY <2>2, <2>3, <2>4
<1>10. CASE PruneGit(u) \/ PruneGitRemoves(u) \/ PruneRemovesAll(u) \/ PrunePrunes(u)
  <2>1. util[u].pc \in Removing
    BY <1>10 DEF PruneGit, PruneGitRemoves, PruneRemovesAll, PrunePrunes, Removing, AskingGit
  <2>2. PICK e \in Entries : util[u].cur = {e} /\ (util[u].pc \in AskingGit => e \in Runs)
    BY <1>1, <2>1, OneAtATime
  <2>3. util[u].op # "list"
    BY <2>1 DEF Lists
  <2>4. CASE UNCHANGED util
    BY <2>4, <1>5
  <2>5. ASSUME NEW l \in {"gitRemove", "removeAll", "rm"}, OwnMove(u, l)
        PROVE  Rest(u)' /\ Lists(u)' /\ Prunes(u)'
    <3>1. Rest(u)'
      BY <1>4, <2>5 DEF OwnMove
    <3>2. Lists(u)'
      BY <2>3, <2>5 DEF OwnMove, Own, Lists
    <3>3. Prunes(u)'
      BY <1>1, <1>2, <2>1, <2>2, <2>5 DEF Own, OwnMove, Rest, Prunes, Removing, AskingGit
    <3> QED
      BY <3>1, <3>2, <3>3
  <2>6. ASSUME OwnMove(u, "gitPrune"), dir[e] = "absent"
        PROVE  Rest(u)' /\ Lists(u)' /\ Prunes(u)'
    <3>1. Rest(u)'
      BY <1>4, <2>6 DEF OwnMove
    <3>2. Lists(u)'
      BY <2>3, <2>6 DEF OwnMove, Own, Lists
    <3>3. Prunes(u)'
      BY <1>1, <1>2, <2>1, <2>2, <2>6 DEF Own, OwnMove, Rest, Prunes, Removing, AskingGit
    <3> QED
      BY <3>1, <3>2, <3>3
  <2>7. ASSUME Removed(u, e), dir[e] = "absent" \/ util[u].pc = "gitPrune"
        PROVE  Rest(u)' /\ Lists(u)' /\ Prunes(u)'
    <3>1. Own(u, "next", util[u].todo, util[u].cur, util[u].out \cup {e}, util[u].failed)
      BY <1>1, <2>7, OwnMoves
    <3>2. Rest(u)'
      BY <1>4, <3>1
    <3>3. Lists(u)'
      BY <2>3, <3>1 DEF Own, Lists
    <3>4. Prunes(u)'
      BY <1>1, <1>2, <2>1, <2>2, <2>7, <3>1 DEF Own, Rest, Prunes, Removing, AskingGit
    <3> QED
      BY <3>2, <3>3, <3>4
  <2>8. ASSUME NotRemoved(u, e)
        PROVE  Rest(u)' /\ Lists(u)' /\ Prunes(u)'
    <3>1. Own(u, "next", util[u].todo, util[u].cur, util[u].out, util[u].failed \cup {e})
      BY <1>1, <2>8, OwnMoves
    <3>2. Rest(u)'
      BY <1>4, <3>1
    <3>3. Lists(u)'
      BY <2>3, <3>1 DEF Own, Lists
    <3>4. Prunes(u)'
      BY <1>1, <1>2, <2>1, <2>2, <3>1 DEF Own, Rest, Prunes, Removing, AskingGit
    <3> QED
      BY <3>2, <3>3, <3>4
  <2>9. \/ UNCHANGED util \/ (\E l \in {"gitRemove", "removeAll", "rm"} : UtilGoto(u, l))
        \/ UtilGoto(u, "gitPrune") /\ dir[e] = "absent"
        \/ Removed(u, e) /\ (dir[e] = "absent" \/ util[u].pc = "gitPrune")
        \/ NotRemoved(u, e)
    BY <1>10, <2>2 DEF PruneGit, PruneGitRemoves, PruneRemovesAll, PrunePrunes
  <2>10. \A l : UtilGoto(u, l) => OwnMove(u, l)
    BY <1>1, OwnMoves
  <2> QED
    BY <2>4, <2>5, <2>6, <2>7, <2>8, <2>9, <2>10
<1> QED
  BY <1>7, <1>8, <1>9, <1>10 DEF UtilStep

LEMMA RestNext == IInv /\ RestInv /\ [Next]_vars => RestInv'
<1> SUFFICES ASSUME IInv, RestInv, [Next]_vars PROVE RestInv'
  OBVIOUS
<1>1. ASSUME AtRest, UNCHANGED util PROVE RestInv'
  BY <1>1, RestKept DEF RestInv
<1>2. CASE UNCHANGED vars \/ AllEnded
  <2>1. AtRest /\ UNCHANGED util
    BY <1>2 DEF AtRest, AllEnded, vars, runVars
  <2> QED
    BY <1>1, <2>1
<1>3. ASSUME NEW q \in Runs, RunStep(q) \/ CapturePatch(q) \/ Interrupt(q) \/ RunCrashes(q)
      PROVE  RestInv'
  BY <1>1, <1>3, RunsAtRest
<1>4. ASSUME NEW u \in Utilities, UtilStep(u) \/ UtilCrashes(u)
      PROVE  RestInv'
  <2>1. AtRest
    BY <1>4, UtilsAtRest
  <2>2. \A v \in Utilities \ {u} : util'[v] = util[v]
    BY <1>4, OthersKeepTheirs, TypeParts DEF IInv
  <2>3. \A v \in Utilities \ {u} : Rest(v)' /\ Lists(v)' /\ Prunes(v)'
    BY <2>1, <2>2, RestKept DEF RestInv
  <2>4. Rest(u)' /\ Lists(u)' /\ Prunes(u)'
    BY <1>4, <2>1, OwnRest, ReadDirRest DEF RestInv
  <2> QED
    BY <2>3, <2>4 DEF RestInv
<1> QED
  BY <1>2, <1>3, <1>4 DEF Next

LEMMA RestInit == Init => RestInv
BY DEF Init, RestInv, Rest, Lists, Prunes, Removing, AskingGit

LEMMA RestHolds == Spec => []RestInv
BY RestInit, RestNext, IInvHolds, PTL DEF Spec

\* A --prune has left, of the worktrees that were at rest when it looked, only those it
\* has reported, whatever other runs and utilities did meanwhile.  (pruneRuns,
\* RemoveWorktree.)
THEOREM PruneRemovesTheRest == Spec => []PrunedIsGone
<1>1. RestInv => PrunedIsGone
  BY DEF RestInv, Rest, Prunes, PrunedIsGone
<1> QED
  BY <1>1, RestHolds, PTL

\* --list-runs shows every worktree that was at rest when it looked and that no
\* --prune has set out to remove.  (listRuns.)
THEOREM ListShowsTheRest == Spec => []RestIsListed
<1>1. RestInv => RestIsListed
  BY DEF RestInv, Rest, Lists, RestIsListed
<1> QED
  BY <1>1, RestHolds, PTL

-----------------------------------------------------------------------------
(* What --prune owes to Git's handles.                                     *)

\* No --prune has heard of a run whose directory is still to be made.
NewInv ==
    \A r \in Runs : pc[r] \in {"start", "mkdir"} =>
        r \notin hit /\ \A u \in Utilities : r \notin util[u].todo

LEMMA NewNext == IInv /\ NewInv /\ [Next]_vars => NewInv'
<1> SUFFICES ASSUME IInv, NewInv, [Next]_vars,
                    NEW r \in Runs, pc'[r] \in {"start", "mkdir"}
             PROVE  r \notin hit' /\ \A u \in Utilities : r \notin util'[u].todo
  BY DEF NewInv
<1>1. TypeOK /\ RunTypes /\ UtilTypes
  BY TypeParts DEF IInv
<1>2. CASE UNCHANGED vars \/ AllEnded
  BY <1>2 DEF NewInv, AllEnded, vars, runVars
<1>3. ASSUME NEW q \in Runs, RunStep(q) \/ CapturePatch(q) \/ Interrupt(q) \/ RunCrashes(q)
      PROVE  r \notin hit' /\ \A u \in Utilities : r \notin util'[u].todo
  <2>1. UNCHANGED <<util, hit>>
    BY <1>3, RunsAtRest
  <2>2. pc' = pc \/ \E l : RunGoto(q, l) /\ (l \in {"start", "mkdir"} => pc[q] = "start")
    <3>1. CASE AddHandle(q)
      <4>1. pc[q] = "start" /\ \E l : RunGoto(q, l)
        BY <3>1 DEF AddHandle
      <4> QED
        BY <4>1
    <3>2. CASE MakeDir(q) \/ StartCommand(q) \/ CapturePatch(q) \/ Checkout(q) \/ AddKilled(q)
      <4>1. \E l \in {"checkout", "command", "cleanup", "added"} : RunGoto(q, l)
        BY <3>2 DEF MakeDir, StartCommand, CapturePatch, Checkout, AddKilled
      <4> QED
        BY <4>1
    <3>3. CASE Cleanup(q)
      <4>1. \E l \in {"done", "gitRemove", "removeAll"} : RunGoto(q, l)
        BY <3>3 DEF Cleanup
      <4> QED
        BY <4>1
    <3>4. CASE GitRemoves(q) \/ RemovesAll(q) \/ GitPrunes(q)
      BY <3>4 DEF GitRemoves, RemovesAll, GitPrunes
    <3>5. CASE Interrupt(q) \/ RunCrashes(q)
      BY <3>5 DEF Interrupt, RunCrashes
    <3> QED
      BY <1>3, <3>1, <3>2, <3>3, <3>4, <3>5 DEF RunStep
  <2>3. pc[r] \in {"start", "mkdir"}
    <3>1. CASE pc' = pc
      BY <3>1
    <3>2. ASSUME NEW l, RunGoto(q, l), l \in {"start", "mkdir"} => pc[q] = "start"
          PROVE  pc[r] \in {"start", "mkdir"}
      <4>1. pc'[r] = IF r = q THEN l ELSE pc[r]
        BY <1>1, <3>2 DEF RunGoto, RunTypes
      <4> QED
        BY <3>2, <4>1
    <3> QED
      BY <2>2, <3>1, <3>2
  <2> QED
    BY <2>1, <2>3 DEF NewInv
<1>4. ASSUME NEW u \in Utilities, UtilStep(u) \/ UtilCrashes(u)
      PROVE  r \notin hit' /\ \A v \in Utilities : r \notin util'[v].todo
  <2>1. UNCHANGED runVars
    BY <1>4, UtilsAtRest
  <2>2. pc[r] \in {"start", "mkdir"} /\ dir[r] = "absent" /\ r \notin hit
        /\ \A v \in Utilities : r \notin util[v].todo
    BY <2>1 DEF runVars, NewInv, IInv, PoolInv, Undisturbed
  <2>3. \A v \in Utilities \ {u} : util'[v] = util[v]
    BY <1>1, <1>4, OthersKeepTheirs
  <2>4. CASE ReadDir(u)
    <3> DEFINE there == {e \in Entries : IsRunDir(e) /\ dir[e] # "absent"}
    <3>1. \E rest, known : util' = [util EXCEPT ![u].pc = "next", ![u].todo = there,
                                        ![u].rest = rest, ![u].known = known]
      BY <2>4 DEF ReadDir
    <3>2. r \notin there /\ hit' = hit
      BY <2>2, <2>4 DEF ReadDir
    <3> HIDE DEF there
    <3>3. util'[u].todo = there
      BY <1>1, <3>1 DEF UtilTypes, UtilRecords
    <3> QED
      BY <2>2, <2>3, <3>2, <3>3
  <2>5. CASE PruneOne(u)
    <3>1. PICK e \in util[u].todo : hit' = hit \cup {e}
      BY <2>5 DEF PruneOne
    <3>2. util'[u].todo \subseteq util[u].todo
      BY <1>1, <2>5, OwnMoves DEF Own
    <3> QED
      BY <2>2, <2>3, <3>1, <3>2
  <2>6. CASE ListOne(u)
    <3>1. util'[u].todo \subseteq util[u].todo /\ hit' = hit
      BY <1>1, <2>6, OwnMoves DEF Own, ListOne
    <3> QED
      BY <2>2, <2>3, <3>1
  <2>7. CASE PruneGit(u) \/ PruneGitRemoves(u) \/ PruneRemovesAll(u) \/ PrunePrunes(u)
             \/ Report(u) \/ UtilCrashes(u)
    <3>1. hit' = hit /\ \/ UNCHANGED util \/ (\E l : UtilGoto(u, l))
                        \/ \E e : Removed(u, e) \/ NotRemoved(u, e)
      BY <2>7 DEF PruneGit, PruneGitRemoves, PruneRemovesAll, PrunePrunes, Report, UtilCrashes
    <3>2. util'[u].todo = util[u].todo
      BY <1>1, <3>1, OwnMoves DEF Own, OwnMove
    <3> QED
      BY <2>2, <2>3, <3>1, <3>2
  <2> QED
    BY <1>4, <2>4, <2>5, <2>6, <2>7 DEF UtilStep
<1> QED
  BY <1>2, <1>3, <1>4 DEF Next

LEMMA NewInit == Init => NewInv
BY DEF Init, NewInv

\* As long as no call has failed.
NoFault == trouble.faults = 0

LEMMA NoFaultBefore ==
    ASSUME TypeOK, [Next]_vars, NoFault'
    PROVE  NoFault /\ ~IOErr
<1>1. CASE UNCHANGED vars
  <2>1. trouble \in [faults : Nat, signals : Nat, crashes : Nat] /\ trouble' = trouble
    BY <1>1 DEF TypeOK, vars
  <2>2. ~IOErr
    BY <2>1 DEF IOErr, Trouble
  <2> QED
    BY <2>1, <2>2 DEF NoFault
<1>2. CASE Next
  BY <1>2, TroubleGrows DEF NoFault
<1> QED
  BY <1>1, <1>2

\* pruneRuns' own removal comes first only where the pointer is gone, and nothing
\* puts a pointer back.
RmInv == NoFault => \A u \in Utilities, r \in Runs :
    util[u].cur = {r} /\ util[u].pc = "rm" => ~HasPointer(r)

LEMMA NoPointerStays ==
    ASSUME IInv, NEW q \in Runs, RunStep(q) \/ CapturePatch(q) \/ Interrupt(q) \/ RunCrashes(q),
           NEW r \in Runs, pc[r] # "mkdir", ~HasPointer(r)
    PROVE  ~HasPointer(r)'
<1>1. RunTypes /\ r \in Entries /\ q \in Entries
  BY TypeParts, RunsAreEntries DEF IInv
<1>2. CASE MakeDir(q)
  BY <1>1, <1>2 DEF MakeDir, RunTypes, HasPointer
<1>3. CASE Checkout(q)
  <2>1. dir' = [dir EXCEPT ![q] = "absent"] \/ (HasPointer(q) /\ \E s : dir' = [dir EXCEPT ![q] = s])
    BY <1>3 DEF Checkout
  <2> QED
    BY <1>1, <2>1 DEF RunTypes, HasPointer
<1>4. CASE StartCommand(q)
  BY <1>1, <1>4 DEF StartCommand, RunTypes, HasPointer
<1>5. CASE GitRemoves(q) \/ RemovesAll(q)
  <2>1. UNCHANGED dir \/ RemoveSome(q)
    BY <1>5 DEF GitRemoves, RemovesAll
  <2> QED
    BY <1>1, <2>1 DEF RemoveSome, Smaller, RunTypes, HasPointer
<1>6. CASE UNCHANGED dir
  BY <1>6 DEF HasPointer
<1> QED
  BY <1>2, <1>3, <1>4, <1>5, <1>6 DEF RunStep, AddHandle, AddKilled, CapturePatch, Cleanup,
     GitPrunes, Interrupt, RunCrashes

\* No utility makes a directory, and it takes a pointer only where it removes.
LEMMA PointersGo ==
    ASSUME IInv, NEW u \in Utilities, UtilStep(u) \/ UtilCrashes(u), NEW r \in Runs
    PROVE  /\ HasPointer(r)' => HasPointer(r)
           /\ HasPointer(r) /\ ~HasPointer(r)' =>
                util[u].cur = {r} /\ util[u].pc \in {"gitRemove", "removeAll", "rm"}
                /\ UNCHANGED util
<1>1. dir'[r] = dir[r] \/ RemoveSome(r)
  BY WhoShrinks
<1>2. HasPointer(r)' => HasPointer(r)
  BY <1>1, RunsAreEntries, TypeParts DEF RemoveSome, Smaller, HasPointer, IInv, RunTypes
<1>3. HasPointer(r) /\ ~HasPointer(r)' => dir'[r] # dir[r]
  BY DEF HasPointer
<1> QED
  BY <1>2, <1>3, WhoShrinks

LEMMA RmNext == IInv /\ NewInv /\ RmInv /\ [Next]_vars => RmInv'
<1> SUFFICES ASSUME IInv, NewInv, RmInv, [Next]_vars, NoFault',
                    NEW u \in Utilities, NEW r \in Runs,
                    util'[u].cur = {r}, util'[u].pc = "rm"
             PROVE  ~HasPointer(r)'
  BY DEF RmInv
<1>1. TypeOK /\ RunTypes /\ UtilTypes /\ NoFault /\ ~IOErr
  BY TypeParts, NoFaultBefore DEF IInv
<1>2. util'[u] = util[u] => ~HasPointer(r) /\ pc[r] # "mkdir"
  <2> SUFFICES ASSUME util'[u] = util[u] PROVE ~HasPointer(r) /\ pc[r] # "mkdir"
    OBVIOUS
  <2>1. util[u].pc \in Removing /\ ~HasPointer(r)
    BY <1>1 DEF RmInv, Removing, AskingGit
  <2>2. r \in hit
    BY <1>1, <2>1, OneAtATime
  <2> QED
    BY <2>1, <2>2 DEF NewInv
<1>3. CASE UNCHANGED vars \/ AllEnded
  BY <1>2, <1>3 DEF AllEnded, vars, HasPointer
<1>4. ASSUME NEW q \in Runs, RunStep(q) \/ CapturePatch(q) \/ Interrupt(q) \/ RunCrashes(q)
      PROVE  ~HasPointer(r)'
  <2>1. util' = util
    BY <1>4, RunsAtRest
  <2> QED
    BY <1>2, <1>4, <2>1, NoPointerStays
<1>5. ASSUME NEW v \in Utilities, UtilStep(v) \/ UtilCrashes(v)
      PROVE  ~HasPointer(r)'
  <2>1. CASE util'[u] = util[u]
    BY <1>2, <1>5, <2>1, PointersGo
  <2>2. CASE util'[u] # util[u]
    <3>1. u = v
      BY <1>1, <1>5, <2>2, OthersKeepTheirs
    <3>2. CASE PruneOne(u)
      <4>1. PICK e \in util[u].todo :
                /\ util' = [util EXCEPT ![u].todo = @ \ {e}, ![u].cur = {e},
                       ![u].pc = IF e \in Runs /\ HasPointer(e) THEN "git" ELSE "rm"]
        BY <3>2 DEF PruneOne
      <4>2. util'[u].cur = {e} /\ (HasPointer(e) /\ e \in Runs => util'[u].pc = "git")
        BY <1>1, <4>1 DEF UtilTypes, UtilRecords
      <4>3. e = r /\ ~HasPointer(r)
        BY <4>2
      <4> QED
        BY <1>5, <4>3, PointersGo
    <3>3. CASE ListOne(u)
      BY <1>1, <3>3, OwnMoves DEF Own
    <3>4. CASE ReadDir(u)
      <4>1. \E todo, rest, known : util' = [util EXCEPT ![u].pc = "next", ![u].todo = todo,
                                                ![u].rest = rest, ![u].known = known]
        BY <3>4 DEF ReadDir
      <4>2. util'[u].pc = "next"
        BY <1>1, <4>1 DEF UtilTypes, UtilRecords
      <4> QED
        BY <4>2
    <3>5. CASE PruneGit(u) \/ PruneGitRemoves(u) \/ PruneRemovesAll(u) \/ PrunePrunes(u)
               \/ Report(u) \/ UtilCrashes(u)
      <4>1. \/ UNCHANGED util
            \/ \E l \in {"gitRemove", "removeAll", "gitPrune", "done", "crashed"} : UtilGoto(u, l)
            \/ \E e : Removed(u, e) \/ NotRemoved(u, e)
        BY <1>1, <3>5 DEF PruneGit, PruneGitRemoves, PruneRemovesAll, PrunePrunes, Report,
           UtilCrashes
      <4> QED
        BY <1>1, <2>2, <4>1, OwnMoves DEF Own, OwnMove
    <3> QED
      BY <1>5, <3>1, <3>2, <3>3, <3>4, <3>5 DEF UtilStep
  <2> QED
    BY <2>1, <2>2
<1> QED
  BY <1>3, <1>4, <1>5 DEF Next

LEMMA RmInit == Init => RmInv
BY DEF Init, RmInv

\* That a --prune still comes by a worktree, and that some --prune is at its handle.
ComesBy(u, r) ==
    \/ r \in util[u].todo \/ util[u].pc = "crashed"
    \/ util[u].cur = {r} /\ util[u].pc \in {"git", "gitRemove", "removeAll"}

DropsHandle(u, r) ==
    \/ util[u].pc = "crashed"
    \/ util[u].cur = {r} /\ util[u].pc \in {"gitRemove", "removeAll", "gitPrune"}

Forgets(u, r) ==
    /\ repo[r] \in Derivable /\ handle[r] \in {"live", "none"}
    /\ handle[r] = "live" /\ HasPointer(r) => ComesBy(u, r)
    /\ handle[r] = "live" /\ ~HasPointer(r) => \E w \in Utilities : DropsHandle(w, r)

ForgetInv == NoFault => \A u \in Utilities : util[u].op = "prune" =>
    \A r \in util[u].known : Forgets(u, r)

\* A --prune that has the worktree before it keeps to it while the pointer is there.
LEMMA ComesByKept ==
    ASSUME IInv, NEW u \in Utilities, UtilStep(u) \/ UtilCrashes(u), ~ReadDir(u), ~IOErr,
           util[u].op = "prune", NEW r \in Runs, ComesBy(u, r), HasPointer(r)
    PROVE  ComesBy(u, r)'
<1>1. UtilTypes
  BY TypeParts DEF IInv
<1>2. dir[r] # "absent"
  BY DEF HasPointer
<1>4. CASE PruneOne(u)
  <2>1. PICK e \in util[u].todo : util' = [util EXCEPT ![u].todo = @ \ {e}, ![u].cur = {e},
                ![u].pc = IF e \in Runs /\ HasPointer(e) THEN "git" ELSE "rm"]
    BY <1>4 DEF PruneOne
  <2> DEFINE l == IF e \in Runs /\ HasPointer(e) THEN "git" ELSE "rm"
  <2>2. util'[u].todo = util[u].todo \ {e} /\ util'[u].cur = {e} /\ util'[u].pc = l
    <3> HIDE DEF l
    <3>1. util' = [util EXCEPT ![u].todo = @ \ {e}, ![u].cur = {e}, ![u].pc = l]
      BY <2>1 DEF l
    <3> QED
      BY <1>1, <3>1 DEF UtilTypes, UtilRecords
  <2>3. util[u].pc = "next"
    BY <1>4 DEF PruneOne
  <2> QED
    BY <2>2, <2>3 DEF ComesBy
<1>5. CASE Report(u) \/ UtilCrashes(u)
  <2>1. OwnMove(u, "crashed") \/ (util[u].pc = "next" /\ util[u].todo = {})
    BY <1>1, <1>5, OwnMoves DEF Report, UtilCrashes
  <2> QED
    BY <2>1 DEF ComesBy, Own, OwnMove
<1>6. CASE PruneGit(u) \/ PruneGitRemoves(u) \/ PruneRemovesAll(u) \/ PrunePrunes(u)
  <2>1. util[u].pc \in Removing
    BY <1>6 DEF PruneGit, PruneGitRemoves, PruneRemovesAll, PrunePrunes, Removing, AskingGit
  <2>2. PICK e \in Entries : util[u].cur = {e} /\ (util[u].pc \in AskingGit => e \in Runs)
    BY <1>1, <2>1, OneAtATime
  <2>3. util'[u].todo = util[u].todo /\ util'[u].cur = util[u].cur
    <3>1. UNCHANGED util \/ (\E l : UtilGoto(u, l)) \/ \E d : Removed(u, d) \/ NotRemoved(u, d)
      BY <1>6 DEF PruneGit, PruneGitRemoves, PruneRemovesAll, PrunePrunes
    <3> QED
      BY <1>1, <3>1, OwnMoves DEF Own, OwnMove
  <2>4. CASE r \in util[u].todo
    BY <2>3, <2>4 DEF ComesBy
  <2>5. CASE e = r /\ util[u].pc \in {"git", "gitRemove", "removeAll"}
    <3>1. UNCHANGED util \/ UtilGoto(u, "gitRemove") \/ UtilGoto(u, "removeAll")
      BY <1>2, <1>6, <2>2, <2>5 DEF PruneGit, PruneGitRemoves, PruneRemovesAll, PrunePrunes
    <3> QED
      BY <1>1, <2>2, <2>5, <3>1, OwnMoves DEF Own, OwnMove, ComesBy
  <2> QED
    BY <2>1, <2>2, <2>4, <2>5 DEF ComesBy, Removing, AskingGit
<1> QED
  BY <1>4, <1>5, <1>6 DEF UtilStep, ListOne

\* A --prune that is at a handle of a worktree without its pointer drops it.
LEMMA DropsKept ==
    ASSUME IInv, NEW u \in Utilities, UtilStep(u) \/ UtilCrashes(u), ~IOErr,
           NEW r \in Runs, DropsHandle(u, r), ~HasPointer(r), repo[r] \in Derivable
    PROVE  DropsHandle(u, r)' \/ handle'[r] # "live"
<1>1. UtilTypes /\ RunTypes
  BY TypeParts DEF IInv
<1>2. CASE UtilCrashes(u)
  BY <1>1, <1>2, OwnMoves DEF UtilCrashes, Own, OwnMove, DropsHandle
<1>3. CASE UtilStep(u)
  <2>1. util[u].cur = {r} /\ util[u].pc \in {"gitRemove", "removeAll", "gitPrune"}
    BY <1>3 DEF DropsHandle, UtilStep, ReadDir, ListOne, PruneOne, PruneGit,
       PruneGitRemoves, PruneRemovesAll, PrunePrunes, Report
  <2>2. PruneGitRemoves(u) \/ PruneRemovesAll(u) \/ PrunePrunes(u)
    BY <1>3, <2>1 DEF UtilStep, ReadDir, ListOne, PruneOne, PruneGit, Report
  <2>3. \/ UNCHANGED util \/ UtilGoto(u, "gitPrune")
        \/ DropHandle(r) \/ PruneHandles(repo[r])
    BY <2>1, <2>2 DEF PruneGitRemoves, PruneRemovesAll, PrunePrunes
  <2>4. CASE UNCHANGED util \/ UtilGoto(u, "gitPrune")
    BY <1>1, <2>1, <2>4, OwnMoves DEF Own, OwnMove, DropsHandle
  <2>5. CASE DropHandle(r) \/ PruneHandles(repo[r])
    BY <1>1, <2>5 DEF DropHandle, PruneHandles, RunTypes
  <2> QED
    BY <2>3, <2>4, <2>5
<1> QED
  BY <1>2, <1>3

\* Nobody leaves a handle behind on a worktree that a --prune knew.
LEMMA ForgetsKept ==
    ASSUME IInv, NEW v \in Utilities, UtilStep(v) \/ UtilCrashes(v), ~IOErr, NoFault, RmInv,
           NEW u \in Utilities, u = v => ~ReadDir(u),
           util[u].op = "prune", NEW r \in Runs, Forgets(u, r), pc[r] \in Ended
    PROVE  Forgets(u, r)'
<1>1. UtilTypes /\ RunTypes
  BY TypeParts DEF IInv
<1>2. AtRest /\ \A w \in Utilities \ {v} : util'[w] = util[w]
  BY <1>1, UtilsAtRest, OthersKeepTheirs
<1>3. repo'[r] = repo[r] /\ handle'[r] \in {handle[r], "none"}
  BY <1>2 DEF AtRest
<1>4. (HasPointer(r)' => HasPointer(r)) /\ (HasPointer(r) /\ ~HasPointer(r)' =>
        util[v].cur = {r} /\ util[v].pc \in {"gitRemove", "removeAll", "rm"} /\ UNCHANGED util)
  BY PointersGo
<1>5. ASSUME handle'[r] = "live", HasPointer(r)' PROVE ComesBy(u, r)'
  <2>1. ComesBy(u, r) /\ HasPointer(r)
    BY <1>3, <1>4, <1>5 DEF Forgets
  <2>2. CASE u = v
    BY <2>1, <2>2, ComesByKept
  <2>3. CASE u # v
    BY <1>2, <2>1, <2>3 DEF ComesBy
  <2> QED
    BY <2>2, <2>3
<1>6. ASSUME handle'[r] = "live", ~HasPointer(r)' PROVE \E w \in Utilities : DropsHandle(w, r)'
  <2>1. CASE HasPointer(r)
    BY <1>4, <1>6, <2>1 DEF RmInv, DropsHandle
  <2>2. CASE ~HasPointer(r)
    <3>1. PICK w \in Utilities : DropsHandle(w, r)
      BY <1>3, <1>6, <2>2 DEF Forgets
    <3>2. CASE w = v
      BY <1>6, <2>2, <3>1, <3>2, DropsKept DEF Forgets
    <3>3. CASE w # v
      BY <1>2, <3>1, <3>3 DEF DropsHandle
    <3> QED
      BY <3>2, <3>3
  <2> QED
    BY <2>1, <2>2
<1> QED
  BY <1>3, <1>5, <1>6 DEF Forgets

LEMMA ForgetNext == IInv /\ RestInv /\ RmInv /\ ForgetInv /\ [Next]_vars => ForgetInv'
<1> SUFFICES ASSUME IInv, RestInv, RmInv, ForgetInv, [Next]_vars, NoFault',
                    NEW u \in Utilities, util'[u].op = "prune", NEW r \in util'[u].known
             PROVE  Forgets(u, r)'
  BY DEF ForgetInv
<1>1. TypeOK /\ UtilTypes /\ RunTypes /\ NoFault /\ ~IOErr
  BY TypeParts, NoFaultBefore DEF IInv
<1>2. \A w \in Utilities : util[w].op = "prune" => \A q \in util[w].known : Forgets(w, q)
  BY <1>1 DEF ForgetInv
<1>3. \A w \in Utilities : \A q \in util[w].known : q \in Runs /\ pc[q] \in Ended
  BY <1>1 DEF RestInv, Rest, UtilTypes, UtilRecords
<1>4. ASSUME r \in Runs, UNCHANGED util, repo'[r] = repo[r], dir'[r] = dir[r],
             handle'[r] \in {handle[r], "none"}
      PROVE  Forgets(u, r)'
  <2>1. Forgets(u, r)
    BY <1>2, <1>4
  <2> QED
    BY <1>4, <2>1 DEF Forgets, ComesBy, DropsHandle, HasPointer
<1>5. CASE UNCHANGED vars \/ AllEnded
  <2>1. UNCHANGED <<util, repo, dir, handle>>
    BY <1>5 DEF AllEnded, vars, runVars
  <2> QED
    BY <1>3, <1>4, <2>1
<1>6. ASSUME NEW q \in Runs, RunStep(q) \/ CapturePatch(q) \/ Interrupt(q) \/ RunCrashes(q)
      PROVE  Forgets(u, r)'
  <2>1. AtRest /\ util' = util /\ \A p \in Runs : pc[p] \in Ended => dir'[p] = dir[p]
    BY <1>6, RunsAtRest
  <2> QED
    BY <1>3, <1>4, <2>1 DEF AtRest
<1>7. ASSUME NEW v \in Utilities, UtilStep(v) \/ UtilCrashes(v)
      PROVE  Forgets(u, r)'
  <2>1. CASE u = v /\ ReadDir(u)
    <3> DEFINE there == {e \in Entries : IsRunDir(e) /\ dir[e] # "absent"}
               rest == {p \in Runs \cap there : pc[p] \in Ended}
               known == {p \in rest : HasPointer(p) /\ handle[p] = "live" /\ repo[p] \in Derivable}
    <3>1. util' = [util EXCEPT ![u].pc = "next", ![u].todo = there, ![u].rest = rest,
                               ![u].known = known]
          /\ UNCHANGED <<repo, dir, handle>>
      BY <2>1 DEF ReadDir, runVars
    <3>2. known \subseteq there /\ \A p \in known :
                HasPointer(p) /\ handle[p] = "live" /\ repo[p] \in Derivable
      OBVIOUS
    <3> HIDE DEF there, rest, known
    <3>3. util'[u].todo = there /\ util'[u].known = known
      BY <1>1, <3>1 DEF UtilTypes, UtilRecords
    <3>4. r \in util'[u].todo /\ HasPointer(r) /\ handle[r] = "live" /\ repo[r] \in Derivable
      BY <3>2, <3>3
    <3> QED
      BY <3>1, <3>4 DEF Forgets, ComesBy, HasPointer
  <2>2. CASE ~(u = v /\ ReadDir(u))
    <3>1. util'[u].known = util[u].known /\ util'[u].op = util[u].op
      <4>1. CASE u # v
        BY <1>1, <1>7, <4>1, OthersKeepTheirs
      <4>2. CASE u = v /\ (ListOne(u) \/ PruneOne(u))
        BY <1>1, <4>2, OwnMoves DEF Own
      <4>3. CASE u = v /\ (PruneGit(u) \/ PruneGitRemoves(u) \/ PruneRemovesAll(u)
                            \/ PrunePrunes(u) \/ Report(u) \/ UtilCrashes(u))
        <5>1. UNCHANGED util \/ (\E l : UtilGoto(u, l)) \/ \E e : Removed(u, e) \/ NotRemoved(u, e)
          BY <4>3 DEF PruneGit, PruneGitRemoves, PruneRemovesAll, PrunePrunes, Report, UtilCrashes
        <5> QED
          BY <1>1, <5>1, OwnMoves DEF Own, OwnMove
      <4> QED
        BY <1>7, <2>2, <4>1, <4>2, <4>3 DEF UtilStep
    <3>2. r \in Runs /\ pc[r] \in Ended /\ util[u].op = "prune" /\ Forgets(u, r)
      BY <1>2, <1>3, <3>1
    <3> QED
      BY <1>1, <1>7, <2>2, <3>2, ForgetsKept
  <2> QED
    BY <2>1, <2>2
<1> QED
  BY <1>5, <1>6, <1>7 DEF Next

LEMMA ForgetInit == Init => ForgetInv
BY DEF Init, ForgetInv

\* Once every --prune has come to its end and no call has failed, Git has forgotten
\* the worktrees at rest that had their pointer when it looked and whose repository
\* it can name.  (pruneRuns, repoOfWorktree, RemoveWorktree.)
THEOREM PruneForgetsTheRest == Spec => []PrunedIsForgotten
<1>1. RestInv /\ ForgetInv => PrunedIsForgotten
  <2> SUFFICES ASSUME RestInv, ForgetInv, \A u \in Utilities : util[u].pc = "done", NoFault,
                      NEW u \in Utilities, util[u].op = "prune", NEW r \in util[u].known
               PROVE  handle[r] = "none"
    BY DEF PrunedIsForgotten, NoFault
  <2>1. Forgets(u, r) /\ util[u].todo = {}
    BY DEF ForgetInv, RestInv, Rest
  <2>2. ~ComesBy(u, r) /\ \A w \in Utilities : ~DropsHandle(w, r)
    BY <2>1 DEF ComesBy, DropsHandle
  <2> QED
    BY <2>1, <2>2 DEF Forgets
<1> QED
  BY <1>1, NewInit, NewNext, RmInit, RmNext, ForgetInit, ForgetNext, IInvHolds, RestHolds, PTL
     DEF Spec

-----------------------------------------------------------------------------
(* Nobody goes round in circles.                                           *)

RunStage(l) ==
    CASE l = "start"     -> 0
      [] l = "mkdir"     -> 1
      [] l = "checkout"  -> 2
      [] l = "added"     -> 3
      [] l = "command"   -> 4
      [] l = "cleanup"   -> 5
      [] l = "gitRemove" -> 6
      [] l = "removeAll" -> 7
      [] l = "gitPrune"  -> 8
      [] OTHER           -> 9

UtilStage(l) ==
    CASE l = "readDir"   -> 0
      [] l = "git"       -> 1
      [] l = "gitRemove" -> 2
      [] l = "removeAll" -> 3
      [] l = "gitPrune"  -> 4
      [] l = "rm"        -> 5
      [] l = "next"      -> 6
      [] OTHER           -> 7

Extent(e) ==
    CASE dir[e] = "whole" -> 3
      [] dir[e] = "part"  -> 2
      [] dir[e] = "bare"  -> 1
      [] OTHER            -> 0

Shrinks(e) == Extent(e)' < Extent(e)

\* A run comes to a later call, or has removed some of its directory.
RunAdvances(r) ==
    \/ RunStage(pc'[r]) > RunStage(pc[r])
    \/ pc'[r] = pc[r] /\ Shrinks(r)

\* A utility has one directory less to come to, comes to a later call for the one it
\* is at, or has removed some of that.
UtilAdvances(u) ==
    \/ util'[u].todo \subseteq util[u].todo /\ util'[u].todo # util[u].todo
    \/ UtilStage(util'[u].pc) > UtilStage(util[u].pc)
        /\ (util'[u].todo = util[u].todo \/ util[u].pc = "readDir")
    \/ util'[u] = util[u] /\ \E e \in Entries : util[u].cur = {e} /\ Shrinks(e)

LEMMA ShrinksWhenRemoved ==
    ASSUME RunTypes, NEW e \in Entries, RemoveSome(e)
    PROVE  Shrinks(e)
<1>1. dir'[e] \in Smaller(dir[e]) /\ dir[e] \in Extents
  BY DEF RemoveSome, RunTypes
<1> QED
  BY <1>1 DEF Smaller, Shrinks, Extent, Extents

LEMMA RunStepAdvances ==
    ASSUME IInv, NEW r \in Runs, RunStep(r) \/ CapturePatch(r) \/ RunCrashes(r)
    PROVE  RunAdvances(r)
<1>1. RunTypes /\ r \in Entries
  BY TypeParts, RunsAreEntries DEF IInv
<1>2. ASSUME NEW l, RunGoto(r, l), RunStage(l) > RunStage(pc[r])
      PROVE  RunAdvances(r)
  BY <1>1, <1>2 DEF RunGoto, RunTypes, RunAdvances
<1>3. CASE AddHandle(r) \/ MakeDir(r) \/ Checkout(r)
  BY <1>2, <1>3 DEF AddHandle, MakeDir, Checkout, RunStage
<1>4. CASE AddKilled(r) \/ StartCommand(r) \/ CapturePatch(r)
  <2>1. \/ RunGoto(r, "cleanup") /\ pc[r] \in {"mkdir", "checkout", "command"}
        \/ RunGoto(r, "command") /\ pc[r] = "added"
    BY <1>4 DEF AddKilled, StartCommand, CapturePatch
  <2> QED
    BY <1>2, <2>1 DEF RunStage
<1>5. CASE Cleanup(r) \/ GitPrunes(r)
  BY <1>2, <1>5 DEF Cleanup, GitPrunes, RunStage
<1>6. CASE RunCrashes(r)
  <2>1. pc[r] \in RunLabels \ Ended /\ RunGoto(r, "crashed")
    BY <1>1, <1>6 DEF RunCrashes, RunTypes
  <2> QED
    BY <1>2, <2>1 DEF RunLabels, Ended, RunStage
<1>7. CASE GitRemoves(r) \/ RemovesAll(r)
  <2>1. CASE RemoveSome(r) /\ UNCHANGED pc
    BY <1>1, <2>1, ShrinksWhenRemoved DEF RunAdvances
  <2>2. CASE ~(RemoveSome(r) /\ UNCHANGED pc)
    BY <1>2, <1>7, <2>2 DEF GitRemoves, RemovesAll, RunStage
  <2> QED
    BY <2>1, <2>2
<1> QED
  BY <1>3, <1>4, <1>5, <1>6, <1>7 DEF RunStep

LEMMA UtilStepAdvances ==
    ASSUME IInv, NEW u \in Utilities, UtilStep(u) \/ UtilCrashes(u)
    PROVE  UtilAdvances(u)
<1>1. RunTypes /\ UtilTypes /\ util[u] \in UtilRecords
  BY TypeParts DEF IInv, UtilTypes
<1>2. ASSUME NEW l, OwnMove(u, l), UtilStage(l) > UtilStage(util[u].pc)
      PROVE  UtilAdvances(u)
  BY <1>2 DEF OwnMove, Own, UtilAdvances
<1>3. CASE ReadDir(u)
  <2>1. util[u].pc = "readDir" /\ \E there, rest, known :
            util' = [util EXCEPT ![u].pc = "next", ![u].todo = there, ![u].rest = rest,
                                 ![u].known = known]
    BY <1>3, Zenon DEF ReadDir
  <2>2. util'[u].pc = "next"
    BY <1>1, <2>1 DEF UtilTypes, UtilRecords
  <2> QED
    BY <2>1, <2>2 DEF UtilStage, UtilAdvances
<1>4. CASE ListOne(u) \/ PruneOne(u)
  <2>1. \E e \in util[u].todo : util'[u].todo = util[u].todo \ {e}
    BY <1>1, <1>4, OwnMoves DEF Own
  <2> QED
    BY <2>1 DEF UtilAdvances
<1>5. CASE Report(u) \/ UtilCrashes(u)
  <2>1. \E l \in {"done", "crashed"} : OwnMove(u, l)
    BY <1>1, <1>5, OwnMoves DEF Report, UtilCrashes
  <2>2. util[u].pc \in UtilLabels \ Ended
    BY <1>1, <1>5 DEF Report, UtilCrashes, UtilRecords, Ended, UtilLabels
  <2> QED
    BY <1>2, <2>1, <2>2 DEF UtilStage, UtilLabels, Ended
<1>6. CASE PruneGit(u) \/ PruneGitRemoves(u) \/ PruneRemovesAll(u) \/ PrunePrunes(u)
  <2>1. util[u].pc \in Removing
    BY <1>6 DEF PruneGit, PruneGitRemoves, PruneRemovesAll, PrunePrunes, Removing, AskingGit
  <2>2. PICK r \in Entries : util[u].cur = {r}
    BY <1>1, <2>1, OneAtATime
  <2>3. CASE RemoveSome(r) /\ UNCHANGED util
    BY <1>1, <2>2, <2>3, ShrinksWhenRemoved, RunsAreEntries DEF UtilAdvances
  <2>4. CASE Removed(u, r) \/ NotRemoved(u, r)
    <3>1. util'[u].pc = "next" /\ util'[u].todo = util[u].todo
      BY <1>1, <2>4, OwnMoves DEF Own
    <3> QED
      BY <2>1, <3>1 DEF Removing, AskingGit, UtilStage, UtilAdvances
  <2>5. CASE \E l : UtilGoto(u, l) /\ UtilStage(l) > UtilStage(util[u].pc)
    BY <1>1, <1>2, <2>5, OwnMoves
  <2>6. \/ RemoveSome(r) /\ UNCHANGED util
        \/ Removed(u, r) \/ NotRemoved(u, r)
        \/ \E l \in {"gitRemove", "removeAll", "gitPrune", "rm"} :
                UtilGoto(u, l) /\ UtilStage(l) > UtilStage(util[u].pc)
    BY <1>6, <2>2 DEF PruneGit, PruneGitRemoves, PruneRemovesAll, PrunePrunes, UtilStage
  <2> QED
    BY <2>3, <2>4, <2>5, <2>6
<1> QED
  BY <1>3, <1>4, <1>5, <1>6 DEF UtilStep

\* Another's step leaves a run where it is, and its directory no larger.
Undone(r) == pc'[r] = pc[r] /\ Extent(r)' <= Extent(r)

LEMMA OthersUndoNothing ==
    ASSUME IInv, NEW r \in Runs
    PROVE  /\ \A q \in Runs \ {r} :
                RunStep(q) \/ CapturePatch(q) \/ Interrupt(q) \/ RunCrashes(q) => Undone(r)
           /\ \A u \in Utilities : UtilStep(u) \/ UtilCrashes(u) => Undone(r)
           /\ Interrupt(r) \/ UNCHANGED vars => Undone(r)
<1>1. TypeOK /\ RunTypes /\ r \in Entries /\ Extent(r) \in Nat
  BY TypeParts, RunsAreEntries DEF IInv, Extent
<1>2. pc'[r] = pc[r] /\ dir'[r] = dir[r] => Undone(r)
  BY <1>1 DEF Undone, Extent
<1>3. ASSUME NEW q \in Runs \ {r},
             RunStep(q) \/ CapturePatch(q) \/ Interrupt(q) \/ RunCrashes(q)
      PROVE  Undone(r)
  <2>1. RunStepOK(q)
    BY <1>1, <1>3, AddHandleOK, MakeDirOK, CheckoutOK, CaptureOK, CleanupOK, RemovalOK,
       InterruptOK DEF RunStep
  <2> QED
    BY <1>1, <1>2, <1>3, <2>1 DEF RunStepOK, SparesOthers
<1>4. ASSUME NEW u \in Utilities, UtilStep(u) \/ UtilCrashes(u) PROVE Undone(r)
  <2>1. pc'[r] = pc[r]
    BY <1>4 DEF UtilStep, UtilCrashes, ReadDir, ListOne, PruneOne, PruneGit,
       PruneGitRemoves, PruneRemovesAll, PrunePrunes, Report, runVars
  <2>2. dir'[r] = dir[r] \/ RemoveSome(r)
    BY <1>4, WhoShrinks
  <2>3. RemoveSome(r) => Extent(r)' <= Extent(r)
    <3> SUFFICES ASSUME RemoveSome(r) PROVE Extent(r)' <= Extent(r)
      OBVIOUS
    <3>1. dir'[r] \in Smaller(dir[r]) /\ dir[r] \in Extents
      BY <1>1 DEF RemoveSome, RunTypes
    <3> QED
      BY <3>1 DEF Smaller, Extent, Extents
  <2> QED
    BY <1>2, <2>1, <2>2, <2>3 DEF Undone
<1>5. ASSUME Interrupt(r) \/ UNCHANGED vars PROVE Undone(r)
  BY <1>2, <1>5 DEF Interrupt, vars, runVars
<1> QED
  BY <1>3, <1>4, <1>5

\* Who steps advances, and nobody is set back.
Advancing ==
    /\ \A r \in Runs :
        /\ RunAdvances(r) \/ Undone(r)
        /\ RunStep(r) \/ CapturePatch(r) \/ RunCrashes(r) => RunAdvances(r)
    /\ \A u \in Utilities :
        /\ UtilAdvances(u) \/ util'[u] = util[u]
        /\ UtilStep(u) \/ UtilCrashes(u) => UtilAdvances(u)

\* Each step of a run takes it to a later call or makes its directory smaller, and
\* nobody else can undo that; each step of a --prune or --list-runs takes it on in
\* its list, at the directory it is at, or through that directory.  So nobody makes
\* another go round in circles.
\* (setupTempWorktree to cleanup, and the loops of listRuns and pruneRuns.)
THEOREM EverybodyAdvances ==
    Spec => [][Advancing]_vars
<1>1. ASSUME IInv, [Next]_vars, NEW r \in Runs PROVE RunAdvances(r) \/ Undone(r)
  <2>1. CASE RunStep(r) \/ CapturePatch(r) \/ RunCrashes(r)
    BY <1>1, <2>1, RunStepAdvances
  <2>2. CASE AllEnded \/ UNCHANGED vars
    BY <1>1, <2>2, OthersUndoNothing DEF AllEnded
  <2> QED
    BY <1>1, <2>1, <2>2, OthersUndoNothing DEF Next
<1>2. ASSUME IInv, [Next]_vars, NEW u \in Utilities
      PROVE  UtilAdvances(u) \/ util'[u] = util[u]
  <2>1. CASE UtilStep(u) \/ UtilCrashes(u)
    BY <1>2, <2>1, UtilStepAdvances
  <2>2. CASE AllEnded \/ UNCHANGED vars
    BY <2>2 DEF AllEnded, vars
  <2>3. ASSUME NEW q \in Runs,
               RunStep(q) \/ CapturePatch(q) \/ Interrupt(q) \/ RunCrashes(q)
        PROVE  UNCHANGED util
    BY <1>2, <2>3, RunsAtRest
  <2>4. ASSUME NEW v \in Utilities, v # u, UtilStep(v) \/ UtilCrashes(v)
        PROVE  util'[u] = util[u]
    BY <1>2, <2>4, OthersKeepTheirs, TypeParts DEF IInv
  <2> QED
    BY <1>2, <2>1, <2>2, <2>3, <2>4 DEF Next
<1>3. ASSUME IInv, [Next]_vars
      PROVE  Advancing
  BY <1>1, <1>2, <1>3, RunStepAdvances, UtilStepAdvances DEF Advancing
<1>4. Advancing => [Advancing]_vars
  OBVIOUS
<1> QED
  BY <1>3, <1>4, IInvHolds, PTL DEF Spec
=============================================================================
