----------------------------- MODULE PatchStore -----------------------------
(***************************************************************************)
(* What saving patches promises: a path either has no patch or a whole one *)
(* of some run; a save puts a whole patch there in one step, and nothing   *)
(* else changes what a path holds.                                         *)
(***************************************************************************)
CONSTANTS
    Paths,      \* where patches may be saved
    Runs,       \* who saves them
    PatchOf     \* [Runs -> the patch each of them has]

VARIABLE store      \* per path: a patch, or nothing

Nothing == <<>>

Init == store = [p \in Paths |-> Nothing]

Put(r, p) == store' = [store EXCEPT ![p] = PatchOf[r]]

Next == \E r \in Runs, p \in Paths : Put(r, p)

Spec == Init /\ [][Next]_store
=============================================================================
