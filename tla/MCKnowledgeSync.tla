-------------------------- MODULE MCKnowledgeSync --------------------------
(***************************************************************************)
(* Instances of KnowledgeSync for TLC: document d1 lies in every folder     *)
(* (nested folders), any other one outside the lockable folders.           *)
(***************************************************************************)
EXTENDS KnowledgeSync, TLC

CONSTANT d1

MCAbove == [d \in Docs |-> IF d = d1 THEN Folders ELSE {}]

Symmetry == Permutations(Requests) \cup Permutations(Workers) \cup Permutations(Folders)
=============================================================================
