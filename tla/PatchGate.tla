----------------------------- MODULE PatchGate -----------------------------
(***************************************************************************)
(* What a run of patchrun promises to the repository it is started in,     *)
(* whatever it does inside its worktree: it takes note of HEAD, comes up   *)
(* with a patch, and writes to the working tree at most once, only with    *)
(* consent, only after it has seen HEAD where it was, and only by turning  *)
(* a region that holds what the patch expects into what the patch says,    *)
(* by marking a conflict, or by bringing back a file it is to change.      *)
(* Everybody else does as they like.                                       *)
(***************************************************************************)
EXTENDS Repo, Naturals, Sequences

VARIABLES
    commits, work,  \* the repository
    base,           \* the number of commits when the run noted HEAD
    patch,          \* the change it proposes to make
    consent,        \* it has been told to make it
    phase

gateVars == <<commits, work, base, patch, consent, phase>>

Phases == {"idle", "running", "proposed", "vetted", "closed"}

Init ==
    /\ commits \in Seq(Trees) /\ work \in Trees
    /\ base = 0 /\ DOMAIN patch = {}
    /\ consent \in BOOLEAN
    /\ phase = "idle"

Begin ==
    /\ phase = "idle" /\ phase' = "running"
    /\ base' = Len(commits)
    /\ UNCHANGED <<commits, work, patch, consent>>

Propose ==
    /\ phase = "running" /\ phase' = "proposed"
    /\ IsPatch(patch')
    /\ UNCHANGED <<commits, work, base, consent>>

Ask ==
    /\ phase = "proposed" /\ consent' = TRUE
    /\ UNCHANGED <<commits, work, base, patch, phase>>

\* Nobody has committed since the run began.
Vet ==
    /\ phase = "proposed" /\ phase' = "vetted"
    /\ base = Len(commits)
    /\ UNCHANGED <<commits, work, base, patch, consent>>

FollowsPatch(c) ==
    /\ c \in DOMAIN patch
    /\ \/ work[c] = patch[c].old /\ work'[c] = patch[c].new
       \/ work'[c] = Conflict

\* A file the patch changes that has gone in the meantime is brought back.
BringsBack(c) ==
    /\ ~Exists(work, PathOf[c])
    /\ \E d \in DOMAIN patch : PathOf[d] = PathOf[c]

Write ==
    /\ phase = "vetted" /\ phase' = "closed"
    /\ consent
    /\ work' \in Trees
    /\ \A c \in Cells : work'[c] # work[c] => FollowsPatch(c) \/ BringsBack(c)
    /\ UNCHANGED <<commits, base, patch, consent>>

\* Failure, refusal, nothing to do: the run gives up its right to write.
Close ==
    /\ phase # "closed" /\ phase' = "closed"
    /\ UNCHANGED <<commits, work, base, patch, consent>>

Others ==
    /\ work' \in Trees
    /\ commits' = commits \/ \E t \in Trees : commits' = Append(commits, t)
    /\ UNCHANGED <<base, patch, consent, phase>>

Next == Begin \/ Propose \/ Ask \/ Vet \/ Write \/ Close \/ Others

Spec == Init /\ [][Next]_gateVars
=============================================================================
