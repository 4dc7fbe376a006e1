--------------------------- MODULE MCWorkspaceQuota ---------------------------
(***************************************************************************)
(* A workspace of two people besides its owner, one or two seats, and one  *)
(* live link.                                                              *)
(***************************************************************************)
EXTENDS WorkspaceQuota, TLC

\* One person is in or invited as internal, the other may be a guest; one link is
\* active.  An operation or two revoke it and make room.
MCWorkspaces ==
    {w \in [member : [People -> {"guest", "internal", "none"}],
            invite : [People -> {"guest", "internal", "none"}],
            status : [Links -> {"none", "active"}]] :
       /\ \A p \in People : w.member[p] = "none" \/ w.invite[p] = "none"
       /\ Cardinality({p \in People : "internal" \in {w.member[p], w.invite[p]}}) = 1
       /\ Cardinality({l \in Links : w.status[l] = "active"}) = 1}

MCSymmetry ==
    Permutations(Requests) \cup Permutations(People) \cup Permutations(Links)
=============================================================================
