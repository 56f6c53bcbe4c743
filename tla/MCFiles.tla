------------------------------ MODULE MCFiles ------------------------------
(***************************************************************************)
(* A small instance of Files: processes that write contents of different   *)
(* lengths, and a clock that ticks once.                                   *)
(***************************************************************************)
EXTENDS FilesProps

MCSize == [w \in Jobs |-> IF w = "p" THEN 2 ELSE 1]
=============================================================================
