------------------------------- MODULE MCPool -------------------------------
(***************************************************************************)
(* Small instances of Pool: two runs, each of an ordinary repository or of *)
(* a submodule, another entry of the parent, and a utility call.           *)
(***************************************************************************)
EXTENDS PoolProps, TLC

Symmetry == Permutations(Runs)
=============================================================================
