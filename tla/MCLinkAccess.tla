----------------------------- MODULE MCLinkAccess -----------------------------
(***************************************************************************)
(* Instances of LinkAccess for TLC.                                        *)
(***************************************************************************)
EXTENDS LinkAccess, TLC

CONSTANTS guest, other

\* Every visit is of the same mailbox, the other address has its rules only.
MCEmails  == {guest, other}
MCMailbox == [v \in Visits |-> guest]

MCRuleSets == {[allow |-> a, block |-> b] :
                 a \in {{}, {other}}, b \in {{}}}
              \cup {[allow |-> {}, block |-> {guest}]}

Symmetry == Permutations(Visits)
=============================================================================
