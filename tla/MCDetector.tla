------------------------------ MODULE MCDetector ------------------------------
(***************************************************************************)
(* Detector on an engine with a consumed tensor and an auxiliary one.      *)
(***************************************************************************)
EXTENDS Detector, TLC

Symmetry == Permutations(Address) \cup Permutations(Pinned)
==============================================================================
