--------------------------- MODULE MCKnowledgeAsk ---------------------------
(***************************************************************************)
(* Instances of KnowledgeAsk for TLC: two members of one room, and a member *)
(* of another room of the workspace, who may be the same user as the first. *)
(* The first one may repeat a request or ask anew, the others use a client *)
(* request id of the first one's.  The reuse of an id for another question *)
(* would double the states, and is left to the proofs.                     *)
(***************************************************************************)
EXTENDS KnowledgeAsk, TLC

CONSTANTS m1, m2, m3, s1, s2, s3, r1, r2

MCRoomOf == m1 :> r1 @@ m2 :> r1 @@ s1 :> r1 @@ s2 :> r1 @@ m3 :> r2 @@ s3 :> r2

Asking(m, k, q) == [by |-> m, key |-> k, question |-> q]

MCRequests == {Asking(m1, 1, 1), Asking(m1, 2, 2), Asking(m2, 1, 1), Asking(m3, 1, 1)}

Symmetry == Permutations(Asks) \cup Permutations({s1, s2})
=============================================================================
