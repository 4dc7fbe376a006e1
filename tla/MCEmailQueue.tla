---------------------------- MODULE MCEmailQueue ----------------------------
(***************************************************************************)
(* Instances of EmailQueue for TLC.  With one scheduler MaxEntries leaves   *)
(* room for every attempt of every row; with two, for a retry of one mail   *)
(* beside the other, or for one that both schedulers move.                 *)
(***************************************************************************)
EXTENDS EmailQueue, TLC

Symmetry == Permutations(Logs) \cup Permutations(Workers) \cup Permutations(Schedulers)
=============================================================================
