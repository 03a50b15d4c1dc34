----------------------------- MODULE MCTrtSession -----------------------------
(***************************************************************************)
(* TrtSession on an engine with a dynamic input (1), an output that does   *)
(* not grow with the input alone (2) and an output of fixed size (3).      *)
(* Shape 4 leaves an output data-dependent.                                *)
(***************************************************************************)
EXTENDS TrtSession, TLC

MCBytes == << <<1, 2, 2, 1>>, <<1, 2, 3, 1>>, <<1, 1, 1, 1>> >>
MCCtorBytes == <<0, 0, 1>>
Symmetry == Permutations(Address)
==============================================================================
