------------------------------ MODULE MCLibrary ------------------------------
(***************************************************************************)
(* Instances of Library for TLC.                                           *)
(***************************************************************************)
EXTENDS Library, TLC

Symmetry == Permutations(Uploads) \cup Permutations(Workers)
=============================================================================
