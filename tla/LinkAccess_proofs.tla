--------------------------- MODULE LinkAccess_proofs ---------------------------
(***************************************************************************)
(* Proofs about LinkAccess for any number of visits, addresses, rules,     *)
(* operations and faults, and that it implements SessionPolicy.            *)
(***************************************************************************)
EXTENDS LinkAccess, FiniteSetTheorems, TLAPS

Labels   == {"away", "expire", "consume", "evaluate", "heal", "ask", "record"}
Purposes == {"none", "access", "look", "request"}
Rules    == [allow : SUBSET Emails, block : SUBSET Emails]
Invites  == [status : {"none", "pending", "lapsed", "used", "revoked", "expired"},
             token : Token]

-----------------------------------------------------------------------------
(* How far the version moves.                                              *)

LEMMA RowsCount ==
    ASSUME NEW r \in Rules
    PROVE  /\ Rows(r) \in Nat
           /\ Rows(r) = 0 => r = [allow |-> {}, block |-> {}]
<1>1. IsFiniteSet(r.allow) /\ IsFiniteSet(r.block)
  BY ConstantsAssumption, FS_Subset DEF Rules
<1>2. /\ Cardinality(r.allow) \in Nat /\ Cardinality(r.block) \in Nat
      /\ Cardinality(r.allow) = 0 <=> r.allow = {}
      /\ Cardinality(r.block) = 0 <=> r.block = {}
  BY <1>1, FS_CardinalityType, FS_EmptySet
<1> QED BY <1>2 DEF Rows, Rules

\* One allow rule, added or taken away, moves the version if it changes the list.
LEMMA OneRule ==
    ASSUME NEW e, NEW S
    PROVE  /\ Cardinality({e} \ S) = IF e \in S THEN 0 ELSE 1
           /\ Cardinality({e} \cap S) = IF e \in S THEN 1 ELSE 0
           /\ Cardinality({e} \ S) \in Nat /\ Cardinality({e} \cap S) \in Nat
           /\ Cardinality({e} \ S) = 0 => e \in S
           /\ Cardinality({e} \cap S) = 0 => e \notin S
<1>1. Cardinality({}) = 0 /\ Cardinality({e}) = 1
  BY FS_EmptySet, FS_Singleton
<1>2. CASE e \in S
  <2>1. {e} \ S = {} /\ {e} \cap S = {e}
    BY <1>2
  <2> QED BY <1>1, <1>2, <2>1
<1>3. CASE e \notin S
  <2>1. {e} \ S = {e} /\ {e} \cap S = {}
    BY <1>3
  <2> QED BY <1>1, <1>3, <2>1
<1> QED BY <1>2, <1>3

-----------------------------------------------------------------------------
(* Types.                                                                  *)

\* Each owner's operation makes one token of an address at most, and an edit has
\* read a version that was there.
TypeInv ==
    /\ TypeOK
    /\ \A e \in Emails : invite[e].token <= ops + 1
    /\ \A x \in edit : x.version # 0

LEMMA GuestsAreEmails == \A v \in Visits : Mailbox[v] \in Emails
  BY ConstantsAssumption

LEMMA RuleVersion ==
    ASSUME TypeOK, NEW e
    PROVE  /\ Bumped(Cardinality({e} \ rules.allow)) \in Nat \ {0}
           /\ Bumped(Cardinality({e} \cap rules.allow)) \in Nat \ {0}
<1> DEFINE S == rules.allow
<1>1. Cardinality({e} \ S) \in Nat /\ Cardinality({e} \cap S) \in Nat
  BY OneRule
<1>2. version \in Nat \ {0}
  BY DEF TypeOK
<1> QED BY <1>1, <1>2 DEF Bumped

LEMMA RulesVersion ==
    ASSUME TypeOK, NEW r \in RuleSets
    PROVE  Bumped(Rows(rules) + Rows(r)) \in Nat \ {0}
<1>1. rules \in Rules /\ r \in Rules
  BY ConstantsAssumption DEF TypeOK, Rules
<1>2. Rows(rules) \in Nat /\ Rows(r) \in Nat
  BY <1>1, RowsCount
<1>3. version \in Nat \ {0}
  BY DEF TypeOK
<1> QED BY <1>2, <1>3 DEF Bumped

\* How far a request has come keeps its type, whether it moves on or is answered.
VisitOK ==
    /\ at \in [Visits -> Labels] /\ purpose \in [Visits -> Purposes]
    /\ seen \in [Visits -> SUBSET Link] /\ token \in [Visits -> Token]

LEMMA Moves ==
    ASSUME TypeOK, NEW v \in Visits
    PROVE  /\ VisitOK
           /\ Answer(v) => VisitOK'
           /\ \A label \in Labels : Goto(v, label) => VisitOK'
<1>1. VisitOK
  BY DEF TypeOK, VisitOK, Labels, Purposes
<1>2. 0 \in Token
  BY ConstantsAssumption DEF Token
<1>3. ASSUME Answer(v) PROVE VisitOK'
  BY <1>1, <1>2, <1>3 DEF Answer, VisitOK, Labels, Purposes
<1>4. ASSUME NEW label \in Labels, Goto(v, label) PROVE VisitOK'
  BY <1>1, <1>4 DEF Goto, VisitOK
<1> QED BY <1>1, <1>3, <1>4

LEMMA TypeInit == Init => TypeInv
<1> SUFFICES ASSUME Init PROVE TypeInv
  OBVIOUS
<1> USE ConstantsAssumption
<1>1. rules \in Rules
  BY DEF Init, Rules
<1>2. version \in Nat \ {0}
  BY <1>1, RowsCount DEF Init, NewLink, UsedLink
<1>3. /\ invite \in [Emails -> Invites]
      /\ request \in [Emails -> {"none", "pending", "approved", "rejected"}]
      /\ \A e \in Emails : invite[e].token <= ops + 1
  BY DEF Init, NewLink, UsedLink, Invites, Token
<1>4. edit \in SUBSET Link /\ Cardinality(edit) <= 1
  BY FS_EmptySet DEF Init
<1>5. 0 \in Token
  BY DEF Token
<1>6. /\ at \in [Visits -> Labels] /\ purpose \in [Visits -> Purposes]
      /\ seen \in [Visits -> SUBSET Link] /\ token \in [Visits -> Token]
      /\ session \in [Visits -> SUBSET Link] /\ spent \in [Emails -> SUBSET Token]
  BY <1>5 DEF Init, Labels, Purposes
<1>7. /\ verify \in BOOLEAN /\ count \in 0..MaxAccess
      /\ marked \in SUBSET Visits /\ uncounted \in SUBSET Visits
      /\ current \in SUBSET Visits /\ doubtful \in SUBSET Visits
      /\ barred \in SUBSET Emails /\ ops \in 0..MaxOps /\ faults \in 0..MaxFaults
      /\ edit = {}
  <2>1. /\ verify = FALSE /\ count = 0 /\ marked = {} /\ uncounted = {} /\ current = {}
        /\ doubtful = {} /\ barred = {} /\ ops = 0 /\ faults = 0 /\ edit = {}
    BY DEF Init
  <2>2. 0 \in 0..MaxAccess /\ 0 \in 0..MaxOps /\ 0 \in 0..MaxFaults
    OBVIOUS
  <2> QED BY <2>1, <2>2
<1> QED BY <1>1, <1>2, <1>3, <1>4, <1>6, <1>7 DEF TypeInv, TypeOK, Rules, Invites, Labels, Purposes

LEMMA VisitTypes ==
    ASSUME TypeInv, NEW v \in Visits, VisitNext(v)
    PROVE  TypeInv'
<1> USE ConstantsAssumption, GuestsAreEmails
<1> DEFINE e == Mailbox[v]
<1>e. e \in Emails
  OBVIOUS
<1>1. CASE Access(v)
  <2>1. version' = version /\ verify' = verify /\ current' \subseteq Visits
    BY <1>1 DEF Access, ResolveInviteToken, Begin, linkVars, TypeInv, TypeOK
  <2>2. [version |-> version, verify |-> verify] \in Link
    BY DEF TypeInv, TypeOK, Link
  <2>3. invite[e].token \in Token /\ 0 \in Token
    BY DEF TypeInv, TypeOK, Token
  <2>4. \E label \in Labels, tok \in Token :
           Begin(v, "access", label, {[version |-> version, verify |-> verify]}, tok)
    BY <1>1, <2>3 DEF Access, ResolveInviteToken, Labels
  <2> QED BY <2>1, <2>2, <2>4 DEF Begin, TypeInv, TypeOK, linkVars, peopleVars, countVars, Labels
<1>2. CASE Look(v) \/ RequestAccess(v)
  <2>1. invite[e].token \in Token /\ 0 \in Token
    BY DEF TypeInv, TypeOK, Token
  <2>2. \E label \in Labels, tok \in Token, p \in Purposes : Begin(v, p, label, {}, tok)
    BY <1>2, <2>1 DEF Look, RequestAccess, ResolveInviteToken, Labels, Purposes
  <2>3. UNCHANGED current
    BY <1>2 DEF Look, RequestAccess
  <2> QED BY <2>2, <2>3 DEF Begin, TypeInv, TypeOK, linkVars, peopleVars, countVars, Labels, Purposes
<1>3. CASE MarkExpired(v)
  <2>1. /\ invite' \in [Emails -> Invites]
        /\ \A f \in Emails : invite'[f].token = invite[f].token
    BY <1>3, <1>e DEF MarkExpired, TypeInv, TypeOK, Invites
  <2> QED BY <1>3, <2>1 DEF MarkExpired, Refuse, Answer, TypeInv, TypeOK, Invites, linkVars, countVars, Token
<1>4. CASE ConsumeLinkInvitation(v)
  <2>1. /\ invite' \in [Emails -> Invites]
        /\ \A f \in Emails : invite'[f].token = invite[f].token
    <3>1. invite \in [Emails -> Invites]
      BY DEF TypeInv, TypeOK, Invites
    <3>2. invite' = invite \/ invite' = [invite EXCEPT ![e].status = "used"]
      BY <1>4 DEF ConsumeLinkInvitation
    <3> QED BY <1>e, <3>1, <3>2 DEF Invites
  <2>2. spent' \in [Emails -> SUBSET Token]
    <3>1. spent \in [Emails -> SUBSET Token] /\ token[v] \in Token
      BY DEF TypeInv, TypeOK
    <3>2. spent' = spent \/ spent' = [spent EXCEPT ![e] = @ \cup {token[v]}]
      BY <1>4 DEF ConsumeLinkInvitation
    <3> QED BY <1>e, <3>1, <3>2
  <2>3. VisitOK' /\ current' \in SUBSET Visits
    <3>1. VisitOK /\ (Answer(v) => VisitOK') /\ current \in SUBSET Visits
      BY Moves DEF TypeInv, TypeOK
    <3>2. CASE Consumable(e)
      <4>1. 0 \in Token
        BY DEF Token
      <4> QED BY <1>4, <3>1, <3>2, <4>1 DEF ConsumeLinkInvitation, VisitOK, Labels
    <3>3. CASE ~Consumable(e)
      BY <1>4, <3>1, <3>3 DEF ConsumeLinkInvitation, Refuse
    <3> QED BY <3>2, <3>3
  <2> QED BY <1>4, <2>1, <2>2, <2>3 DEF ConsumeLinkInvitation, TypeInv, TypeOK, Invites, linkVars,
                countVars, VisitOK, Labels, Purposes
<1>5. CASE Evaluate(v) \/ Heal(v) \/ Ask(v)
  <2>1. VisitOK' /\ current' \in SUBSET Visits
    <3>1. /\ Answer(v) => VisitOK'
          /\ \A label \in Labels : Goto(v, label) => VisitOK'
          /\ current \in SUBSET Visits
      BY Moves DEF TypeInv, TypeOK
    <3>2. {"record", "heal", "ask"} \subseteq Labels
      BY DEF Labels
    <3> QED BY <1>5, <3>1, <3>2 DEF Evaluate, Conclude, Heal, Ask, Refuse
  <2>2. version' \in Nat \ {0} /\ rules' \in Rules /\ barred' \in SUBSET Emails
    <3>1. CASE Heal(v)
      <4>1. Bumped(Cardinality({e} \ rules.allow)) \in Nat \ {0}
        BY RuleVersion DEF TypeInv
      <4> QED BY <1>e, <3>1, <4>1 DEF Heal, TypeInv, TypeOK, Rules
    <3>2. CASE Evaluate(v) \/ Ask(v)
      BY <3>2 DEF Evaluate, Ask, linkVars, TypeInv, TypeOK, Rules
    <3> QED BY <1>5, <3>1, <3>2
  <2>3. request' \in [Emails -> {"none", "pending", "approved", "rejected"}]
    BY <1>5, <1>e DEF Evaluate, Heal, Ask, peopleVars, TypeInv, TypeOK
  <2>4. UNCHANGED <<verify, invite, edit, session, countVars, doubtful, spent, ops, faults>>
    BY <1>5 DEF Evaluate, Heal, Ask, peopleVars, linkVars
  <2> QED BY <2>1, <2>2, <2>3, <2>4 DEF VisitOK, TypeInv, TypeOK, Labels, Purposes, Rules, countVars
<1>6. CASE RecordOpened(v)
  <2>1. VisitOK'
    BY <1>6, Moves DEF RecordOpened, Enter, Refuse, TypeInv
  <2>3. current' \in SUBSET Visits /\ doubtful' \in SUBSET Visits
    BY <1>6 DEF RecordOpened, Enter, Refuse, TypeInv, TypeOK
  <2>4. session' \in [Visits -> SUBSET Link]
    <3>1. session \in [Visits -> SUBSET Link] /\ seen[v] \in SUBSET Link
      BY DEF TypeInv, TypeOK
    <3>2. session' = session \/ session' = [session EXCEPT ![v] = seen[v]]
      BY <1>6 DEF RecordOpened, Enter, Stamp
    <3> QED BY <3>1, <3>2
  <2>2. /\ count' \in 0..MaxAccess /\ faults' \in 0..MaxFaults
        /\ marked' \in SUBSET Visits /\ uncounted' \in SUBSET Visits
    BY <1>6 DEF RecordOpened, Countable, TypeInv, TypeOK
  <2>5. UNCHANGED <<linkVars, peopleVars, edit, spent, barred, ops>>
    BY <1>6 DEF RecordOpened
  <2> QED BY <2>1, <2>2, <2>3, <2>4, <2>5 DEF VisitOK, TypeInv, TypeOK, Labels, Purposes, linkVars,
                peopleVars
<1>7. CASE SessionExpires(v) \/ MarkExpires(v)
  BY <1>7 DEF SessionExpires, MarkExpires, TypeInv, TypeOK, linkVars, peopleVars, visitVars, countVars
<1> QED BY <1>1, <1>2, <1>3, <1>4, <1>5, <1>6, <1>7 DEF VisitNext

LEMMA OwnerTypes ==
    ASSUME TypeInv, OwnerNext
    PROVE  TypeInv'
<1> USE ConstantsAssumption DEF ownerFrame, visitVars, countVars
<1>g. Guests \subseteq Emails
  BY GuestsAreEmails DEF Guests
<1>i. ASSUME NEW e \in Emails, Spend, Invite(e)
      PROVE  /\ invite' \in [Emails -> Invites]
             /\ \A f \in Emails : invite'[f].token <= ops' + 1
  BY <1>i DEF Invite, Spend, Invites, Token, TypeInv, TypeOK
<1>r. ASSUME NEW e \in Emails, AllowRule(e)
      PROVE  version' \in Nat \ {0} /\ rules' \in Rules /\ current' \in SUBSET Visits
  <2>1. Bumped(Cardinality({e} \ rules.allow)) \in Nat \ {0}
    BY RuleVersion DEF TypeInv
  <2> QED BY <1>r, <2>1 DEF AllowRule, Reconfigured, Rules, TypeInv, TypeOK
<1>1. CASE \E r \in RuleSets : UpdateAccessRules(r)
  <2> PICK r \in RuleSets : UpdateAccessRules(r)
    BY <1>1
  <2>1. version' \in Nat \ {0}
    BY RulesVersion DEF UpdateAccessRules, Reconfigured, TypeInv
  <2>2. /\ request' \in [Emails -> {"none", "pending", "approved", "rejected"}]
        /\ invite' \in [Emails -> Invites]
        /\ \A e \in Emails : invite'[e].token = invite[e].token
    BY DEF UpdateAccessRules, Invites, TypeInv, TypeOK
  <2>3. /\ rules' \in Rules /\ barred' \in SUBSET Emails /\ current' \in SUBSET Visits
        /\ ops' = ops + 1 /\ ops' \in 0..MaxOps
    BY DEF UpdateAccessRules, Reconfigured, Spend, Rules, TypeInv, TypeOK
  <2> QED BY <2>1, <2>2, <2>3 DEF UpdateAccessRules, TypeInv, TypeOK, Invites, Rules, Token
<1>2. CASE \E e \in Guests : InviteViewers(e)
  <2> PICK e \in Emails : InviteViewers(e)
    BY <1>2, <1>g
  <2> QED BY <1>i, <1>r DEF InviteViewers, Spend, TypeInv, TypeOK, Invites, Rules
<1>3. CASE \E e \in Guests : RevokeInvitation(e)
  <2> PICK e \in Emails : RevokeInvitation(e)
    BY <1>3, <1>g
  <2>1. /\ invite' \in [Emails -> Invites]
        /\ \A f \in Emails : invite'[f].token = invite[f].token
    BY DEF RevokeInvitation, Invites, TypeInv, TypeOK
  <2>2. Bumped(Cardinality({e} \cap rules.allow)) \in Nat \ {0}
    BY RuleVersion DEF TypeInv
  <2>3. /\ version' \in Nat \ {0} /\ rules' \in Rules /\ current' \in SUBSET Visits
        /\ barred' \in SUBSET Emails
    BY <2>2 DEF RevokeInvitation, Reconfigured, Rules, TypeInv, TypeOK
  <2>4. ops' = ops + 1 /\ ops' \in 0..MaxOps
    BY DEF RevokeInvitation, Spend, TypeInv, TypeOK
  <2> QED BY <2>1, <2>3, <2>4 DEF RevokeInvitation, TypeInv, TypeOK, Invites, Rules, Token
<1>4. CASE \E e \in Guests : ApproveAccessRequest(e)
  <2> PICK e \in Emails : ApproveAccessRequest(e)
    BY <1>4, <1>g
  <2> QED BY <1>i, <1>r DEF ApproveAccessRequest, Spend, TypeInv, TypeOK, Invites, Rules
<1>5. CASE \E e \in Guests : RejectAccessRequest(e)
  BY <1>5, <1>g DEF RejectAccessRequest, Spend, TypeInv, TypeOK, linkVars, Token
<1>6. CASE EditLink
  <2> DEFINE x == [version |-> version, verify |-> verify]
  <2>1. edit' = {x} /\ x \in Link /\ x.version # 0
    BY <1>6 DEF EditLink, TypeInv, TypeOK, Link
  <2>2. Cardinality(edit') <= 1
    <3>1. Cardinality({x}) = 1
      BY FS_Singleton
    <3> HIDE DEF x
    <3> QED BY <2>1, <3>1
  <2> QED BY <1>6, <2>1, <2>2 DEF EditLink, Spend, TypeInv, TypeOK, linkVars, peopleVars, Token
<1>7. CASE UpdateLink
  <2>1. PICK x \in edit, asksCode \in BOOLEAN, otherGate \in BOOLEAN :
             SaveLink(x, asksCode, otherGate \/ asksCode # x.verify)
    BY <1>7 DEF UpdateLink
  <2>2. x.version \in Nat \ {0}
    BY DEF TypeInv, TypeOK, Link
  <2>3. version' \in Nat \ {0} /\ verify' \in BOOLEAN
    BY <2>1, <2>2 DEF SaveLink
  <2>4. current' \in SUBSET Visits /\ doubtful' \in SUBSET Visits
    BY <2>1 DEF SaveLink, TypeInv, TypeOK
  <2>5. Cardinality(edit') <= 1
    BY <1>7, FS_EmptySet DEF UpdateLink
  <2> QED BY <1>7, <2>3, <2>4, <2>5 DEF UpdateLink, TypeInv, TypeOK, peopleVars
<1> QED BY <1>1, <1>2, <1>3, <1>4, <1>5, <1>6, <1>7 DEF OwnerNext

LEMMA TypeStep == TypeInv /\ [Next]_vars => TypeInv'
<1> SUFFICES ASSUME TypeInv, [Next]_vars PROVE TypeInv'
  OBVIOUS
<1>1. CASE \E e \in Guests : InvitationLapses(e)
  BY <1>1, ConstantsAssumption, GuestsAreEmails DEF InvitationLapses, Guests, TypeInv, TypeOK, linkVars,
     ownerFrame, visitVars, countVars
<1>2. CASE UNCHANGED vars
  BY <1>2 DEF vars, linkVars, peopleVars, visitVars, countVars, TypeInv, TypeOK
<1> QED BY <1>1, <1>2, VisitTypes, OwnerTypes DEF Next

\* Every reachable state has the types of TypeOK: the handlers keep the version
\* positive, an edit holds one link at most, tokens are those of the owners' calls.
THEOREM TypeCorrect == Spec => []TypeOK
<1>1. TypeInv => TypeOK
  BY DEF TypeInv
<1> QED BY <1>1, TypeInit, TypeStep, PTL DEF Spec

-----------------------------------------------------------------------------
(* Sessions.                                                               *)

\* What keeps a visit's session honest: a request begun under the present
\* configuration holds its version, and what it found of the rules; all that the
\* others and the session hold is of a version gone by, or of the rules of now.
VisitInv(v) ==
    /\ v \in current =>
          /\ purpose[v] = "access" /\ at[v] \notin {"away", "ask"}
          /\ seen[v] = {[version |-> version, verify |-> verify]}
          /\ at[v] = "record" => Matched(Mailbox[v])
          /\ at[v] = "heal" => Mailbox[v] \notin rules.block
    /\ purpose[v] # "access" => seen[v] = {}
    /\ at[v] = "ask" => purpose[v] = "request"
    /\ v \notin doubtful =>
          /\ \A s \in session[v] :
                s.version <= version /\ (s.version = version => Matched(Mailbox[v]))
          /\ v \notin current => \A s \in seen[v] : s.version < version

EditInv == \A x \in edit : x.verify = verify

SessionInv == TypeInv /\ EditInv /\ \A v \in Visits : VisitInv(v)

\* What a step does to the configuration: nothing, a change that moves the
\* version on, or an edit that takes one back.
Same == UNCHANGED <<version, verify, rules, current, doubtful>>
Reset == version' > version /\ current' = {} /\ doubtful' = doubtful
Confused ==
    /\ doubtful' = {v \in Visits : session[v] # {} \/ seen[v] # {}}
    /\ current' = {}

Untouched(v) ==
    /\ at'[v] = at[v] /\ purpose'[v] = purpose[v] /\ seen'[v] = seen[v]
    /\ session'[v] = session[v]

LEMMA Versions ==
    ASSUME TypeOK, NEW v \in Visits
    PROVE  /\ version \in Nat
           /\ \A s \in session[v] : s.version \in Nat /\ s \in Link
           /\ \A s \in seen[v] : s.version \in Nat /\ s \in Link
<1>1. session[v] \subseteq Link /\ seen[v] \subseteq Link /\ version \in Nat
  BY DEF TypeOK
<1> QED BY <1>1 DEF Link

\* A step that does not touch the visit keeps its invariant.
LEMMA Quiet ==
    ASSUME NEW v \in Visits, VisitInv(v), Untouched(v),
           UNCHANGED <<version, verify, rules>>,
           v \in current' <=> v \in current, v \in doubtful' <=> v \in doubtful
    PROVE  VisitInv(v)'
  BY DEF VisitInv, Untouched, Matched

LEMMA Outdated ==
    ASSUME TypeOK, TypeOK', NEW v \in Visits, VisitInv(v), Untouched(v), Reset
    PROVE  VisitInv(v)'
<1>1. /\ \A s \in session[v] : s.version \in Nat
      /\ \A s \in seen[v] : s.version \in Nat
      /\ version \in Nat /\ version' \in Nat
  BY Versions DEF TypeOK
<1>2. ASSUME v \notin doubtful', NEW s \in session'[v]
      PROVE  s.version < version'
  BY <1>1, <1>2 DEF Reset, VisitInv, Untouched
<1>3. ASSUME v \notin doubtful', NEW s \in seen'[v]
      PROVE  s.version < version'
  <2>1. CASE v \in current
    <3>1. s = [version |-> version, verify |-> verify]
      BY <1>3, <2>1 DEF VisitInv, Untouched
    <3> QED BY <1>1, <3>1 DEF Reset
  <2>2. CASE v \notin current
    BY <1>1, <1>3, <2>2 DEF Reset, VisitInv, Untouched
  <2> QED BY <2>1, <2>2
<1>4. ASSUME v \notin doubtful', NEW s \in session'[v]
      PROVE  s.version <= version' /\ s.version # version'
  BY <1>1, <1>2, <1>4 DEF Untouched
<1>5. v \notin current'
  BY DEF Reset
<1>6. (purpose'[v] # "access" => seen'[v] = {}) /\ (at'[v] = "ask" => purpose'[v] = "request")
  BY DEF VisitInv, Untouched
<1> QED BY <1>3, <1>4, <1>5, <1>6 DEF VisitInv

\* An owner's operation, and the passing of an invitation's time.
LEMMA OwnerSteps ==
    ASSUME TypeInv, EditInv, OwnerNext \/ \E e \in Guests : InvitationLapses(e)
    PROVE  /\ UNCHANGED <<visitVars, session>>
           /\ Same \/ Reset \/ Confused
           /\ EditInv'
<1> USE DEF ownerFrame, linkVars
<1>v. version \in Nat /\ version \in Nat \ {0}
  BY DEF TypeInv, TypeOK
<1>b. ASSUME NEW bumps \in Nat, Reconfigured(bumps)
      PROVE  \/ bumps = 0 /\ version' = version /\ current' = current
             \/ version' > version /\ current' = {}
  BY <1>b, <1>v DEF Reconfigured, Bumped
<1>a. ASSUME NEW e, AllowRule(e), verify' = verify, doubtful' = doubtful
      PROVE  Same \/ Reset
  <2>1. Cardinality({e} \ rules.allow) \in Nat
    BY OneRule
  <2>2. Cardinality({e} \ rules.allow) = 0 => e \in rules.allow
    BY OneRule
  <2>3. e \in rules.allow => rules' = rules
    <3>1. rules \in Rules
      BY DEF TypeInv, TypeOK, Rules
    <3>2. rules' = [rules EXCEPT !.allow = @ \cup {e}]
      BY <1>a DEF AllowRule
    <3>3. e \in rules.allow => rules.allow \cup {e} = rules.allow
      OBVIOUS
    <3> QED BY <3>1, <3>2, <3>3 DEF Rules
  <2> QED BY <1>a, <1>b, <2>1, <2>2, <2>3 DEF AllowRule, Same, Reset
<1>1. CASE \E r \in RuleSets : UpdateAccessRules(r)
  <2> PICK r \in RuleSets : UpdateAccessRules(r)
    BY <1>1
  <2>1. rules \in Rules /\ r \in Rules
    BY ConstantsAssumption DEF TypeInv, TypeOK, Rules
  <2>2. /\ Rows(rules) \in Nat /\ Rows(r) \in Nat
        /\ Rows(rules) + Rows(r) = 0 => rules = r
    BY <2>1, RowsCount
  <2> QED BY <1>b, <2>2 DEF UpdateAccessRules, Same, Reset, EditInv
<1>2. CASE \E e \in Guests : InviteViewers(e) \/ ApproveAccessRequest(e)
  <2> PICK e \in Guests : InviteViewers(e) \/ ApproveAccessRequest(e)
    BY <1>2
  <2>1. AllowRule(e) /\ UNCHANGED <<verify, doubtful, edit, visitVars, session>>
    BY DEF InviteViewers, ApproveAccessRequest
  <2>2. Same \/ Reset
    BY <1>a, <2>1
  <2> QED BY <2>1, <2>2 DEF EditInv
<1>3. CASE \E e \in Guests : RevokeInvitation(e)
  <2> PICK e \in Guests : RevokeInvitation(e)
    BY <1>3
  <2>1. CASE UNCHANGED <<rules, version, current, barred>>
    BY <2>1 DEF RevokeInvitation, Same, EditInv
  <2>2. CASE /\ rules' = [rules EXCEPT !.allow = @ \ {e}]
             /\ Reconfigured(Cardinality({e} \cap rules.allow))
    <3>1. Cardinality({e} \cap rules.allow) \in Nat
      BY OneRule
    <3>2. Cardinality({e} \cap rules.allow) = 0 => e \notin rules.allow
      BY OneRule
    <3>3. e \notin rules.allow => rules' = rules
      <4>1. rules \in Rules
        BY DEF TypeInv, TypeOK, Rules
      <4>2. e \notin rules.allow => rules.allow \ {e} = rules.allow
        OBVIOUS
      <4> QED BY <2>2, <4>1, <4>2 DEF Rules
    <3>4. UNCHANGED <<verify, doubtful, edit, visitVars, session>>
      BY DEF RevokeInvitation
    <3>5. Same \/ Reset
      BY <1>b, <2>2, <3>1, <3>2, <3>3, <3>4 DEF Same, Reset
    <3> QED BY <3>4, <3>5 DEF EditInv
  <2> QED BY <2>1, <2>2 DEF RevokeInvitation
<1>4. CASE \E e \in Guests : RejectAccessRequest(e) \/ InvitationLapses(e)
  BY <1>4 DEF RejectAccessRequest, InvitationLapses, Same, EditInv, visitVars
<1>5. CASE EditLink
  BY <1>5 DEF EditLink, Same, EditInv
<1>6. CASE UpdateLink
  <2>1. PICK x \in edit, asksCode \in BOOLEAN, otherGate \in BOOLEAN :
             SaveLink(x, asksCode, otherGate \/ asksCode # x.verify)
    BY <1>6 DEF UpdateLink
  <2>2. x.verify = verify
    BY DEF EditInv
  <2>3. UNCHANGED <<visitVars, session, rules>> /\ EditInv'
    BY <1>6 DEF UpdateLink, EditInv
  <2>4. CASE version # x.version
    BY <2>1, <2>3, <2>4 DEF SaveLink, Confused
  <2>5. CASE version = x.version /\ (otherGate \/ asksCode # x.verify)
    BY <1>v, <2>1, <2>3, <2>5 DEF SaveLink, Reset
  <2>6. CASE version = x.version /\ ~(otherGate \/ asksCode # x.verify)
    BY <1>v, <2>1, <2>2, <2>3, <2>6 DEF SaveLink, Same
  <2> QED BY <2>3, <2>4, <2>5, <2>6
<1> QED BY <1>1, <1>2, <1>3, <1>4, <1>5, <1>6 DEF OwnerNext

LEMMA OwnerSessions ==
    ASSUME SessionInv, TypeInv', NEW v \in Visits,
           UNCHANGED <<visitVars, session>>, Same \/ Reset \/ Confused
    PROVE  VisitInv(v)'
<1>1. TypeOK /\ TypeOK' /\ VisitInv(v) /\ Untouched(v)
  BY DEF SessionInv, TypeInv, Untouched, visitVars
<1>2. CASE Same
  BY <1>1, <1>2, Quiet DEF Same
<1>3. CASE Reset
  BY <1>1, <1>3, Outdated
<1>4. CASE Confused
  BY <1>1, <1>4 DEF Confused, VisitInv, Untouched
<1> QED BY <1>2, <1>3, <1>4

LEMMA VisitSessions ==
    ASSUME SessionInv, TypeInv', NEW v \in Visits, VisitNext(v)
    PROVE  EditInv' /\ \A u \in Visits : VisitInv(u)'
<1> USE DEF linkVars, countVars
<1>t. TypeOK /\ TypeOK' /\ VisitInv(v)
  BY DEF SessionInv, TypeInv
<1>f. /\ at \in [Visits -> Labels] /\ purpose \in [Visits -> Purposes]
      /\ seen \in [Visits -> SUBSET Link] /\ session \in [Visits -> SUBSET Link]
      /\ token \in [Visits -> Token]
  BY <1>t DEF TypeOK, Labels, Purposes
<1>e. EditInv'
  <2>1. edit' = edit /\ verify' = verify
    BY DEF VisitNext, Access, Look, RequestAccess, ResolveInviteToken, Begin, MarkExpired,
           ConsumeLinkInvitation, Evaluate, Heal, Ask, RecordOpened, SessionExpires, MarkExpires
  <2> QED BY <2>1 DEF SessionInv, EditInv
<1>o. ASSUME NEW u \in Visits, u # v PROVE Untouched(u)
  BY <1>f, <1>o DEF VisitNext, Access, Look, RequestAccess, ResolveInviteToken, Begin, MarkExpired,
         ConsumeLinkInvitation, Evaluate, Conclude, Heal, Ask, RecordOpened, SessionExpires,
         MarkExpires, Goto, Refuse, Answer, Enter, Untouched, visitVars
<1>q. ASSUME ~Heal(v), NEW u \in Visits, u # v PROVE VisitInv(u)'
  <2>1. /\ UNCHANGED <<version, verify, rules>>
        /\ u \in current' <=> u \in current
        /\ u \in doubtful' <=> u \in doubtful
    BY <1>q DEF VisitNext, Access, Look, RequestAccess, ResolveInviteToken, Begin, MarkExpired,
           ConsumeLinkInvitation, Evaluate, Conclude, Ask, RecordOpened, SessionExpires,
           MarkExpires, Refuse, Enter
  <2> QED BY <1>o, <1>q, <2>1, Quiet DEF SessionInv
\* What the request of v leaves behind when it is answered.
<1>r. ASSUME Answer(v), v \notin current', UNCHANGED <<version, rules>>,
             v \notin doubtful' => v \notin doubtful, session'[v] = session[v]
      PROVE  VisitInv(v)'
  <2>1. at'[v] = "away" /\ purpose'[v] = "none" /\ seen'[v] = {}
    BY <1>r, <1>f DEF Answer
  <2>2. UNCHANGED <<version, rules>> /\ session'[v] = session[v]
    BY <1>r
  <2> QED BY <1>r, <1>t, <2>1, <2>2 DEF VisitInv, Matched
<1>1. CASE Access(v)
  <2>1. /\ purpose'[v] = "access" /\ at'[v] \in {"consume", "expire", "evaluate"}
        /\ seen'[v] = {[version |-> version, verify |-> verify]}
        /\ v \in current' /\ session' = session
        /\ UNCHANGED <<version, verify, rules, doubtful>>
    BY <1>1, <1>f DEF Access, ResolveInviteToken, Begin
  <2>2. VisitInv(v)'
    BY <1>t, <2>1 DEF VisitInv, Matched
  <2>3. ~Heal(v)
    BY <1>1 DEF Access, ResolveInviteToken, Begin, Heal
  <2> QED BY <1>e, <1>q, <2>2, <2>3
<1>2. CASE Look(v) \/ RequestAccess(v)
  <2>1. /\ purpose'[v] # "access" /\ at'[v] \in {"consume", "expire", "evaluate"}
        /\ seen'[v] = {} /\ current' = current /\ session' = session
        /\ UNCHANGED <<version, verify, rules, doubtful>>
        /\ at[v] = "away"
    BY <1>2, <1>f DEF Look, RequestAccess, ResolveInviteToken, Begin
  <2>2. VisitInv(v)'
    BY <1>t, <2>1 DEF VisitInv, Matched
  <2> QED BY <1>e, <1>q, <2>1, <2>2 DEF Heal
<1>3. CASE MarkExpired(v) \/ Ask(v)
  <2>1. Answer(v) /\ UNCHANGED <<version, verify, rules, session, doubtful>>
    BY <1>3 DEF MarkExpired, Ask, Refuse
  <2>2. v \notin current'
    BY <1>3, <1>t DEF MarkExpired, Ask, Refuse, VisitInv
  <2>3. ~Heal(v)
    BY <1>3 DEF MarkExpired, Ask, Heal
  <2> QED BY <1>e, <1>q, <1>r, <2>1, <2>2, <2>3
<1>4. CASE ConsumeLinkInvitation(v)
  <2>1. UNCHANGED <<version, verify, rules, session, doubtful>> /\ ~Heal(v)
    BY <1>4 DEF ConsumeLinkInvitation, Heal
  <2>2. CASE Consumable(Mailbox[v])
    <3>1. /\ at'[v] = "evaluate" /\ purpose'[v] = purpose[v] /\ seen'[v] = seen[v]
          /\ current' = current
      BY <1>4, <1>f, <2>2 DEF ConsumeLinkInvitation
    <3>2. VisitInv(v)'
      BY <1>t, <2>1, <3>1 DEF VisitInv, Matched
    <3> QED BY <1>e, <1>q, <2>1, <3>2
  <2>3. CASE ~Consumable(Mailbox[v])
    BY <1>4, <1>e, <1>q, <1>r, <2>1, <2>3 DEF ConsumeLinkInvitation, Refuse
  <2> QED BY <2>2, <2>3
<1>5. CASE Evaluate(v)
  <2>1. UNCHANGED <<version, verify, rules, session, doubtful>> /\ ~Heal(v)
    BY <1>5 DEF Evaluate, Heal
  <2>2. CASE Refuse(v)
    BY <1>e, <1>q, <1>r, <2>1, <2>2 DEF Refuse
  <2>3. CASE ~Refuse(v)
    <3>1. \/ Outcome(Mailbox[v]) = "allowed" /\ purpose[v] = "access" /\ Goto(v, "record")
          \/ Outcome(Mailbox[v]) = "unmatched" /\ Goto(v, "heal")
          \/ purpose[v] = "request" /\ Goto(v, "ask")
      BY <1>5, <2>3 DEF Evaluate, Conclude
    <3>2. current' = current
      BY <1>5, <2>3 DEF Evaluate, Conclude
    <3>3. purpose'[v] = purpose[v] /\ seen'[v] = seen[v]
      BY <3>1 DEF Goto
    <3>4. /\ Outcome(Mailbox[v]) = "allowed" => Matched(Mailbox[v])
          /\ Outcome(Mailbox[v]) = "unmatched" => Mailbox[v] \notin rules.block
      BY DEF Outcome, Matched
    <3>5. \/ at'[v] = "record" /\ Matched(Mailbox[v])
          \/ at'[v] = "heal" /\ Mailbox[v] \notin rules.block
          \/ at'[v] = "ask" /\ purpose[v] = "request"
      BY <1>f, <3>1, <3>4 DEF Goto
    <3>6. VisitInv(v)'
      BY <1>t, <2>1, <3>2, <3>3, <3>5 DEF VisitInv, Matched
    <3> QED BY <1>e, <1>q, <2>1, <3>6
  <2> QED BY <2>2, <2>3
<1>6. CASE RecordOpened(v)
  <2>1. UNCHANGED <<version, verify, rules>> /\ ~Heal(v) /\ at[v] = "record"
    BY <1>6 DEF RecordOpened, Heal
  <2>2. CASE Refuse(v) /\ UNCHANGED <<session, doubtful>>
    BY <1>e, <1>q, <1>r, <2>1, <2>2 DEF Refuse
  <2>3. CASE Enter(v)
    <3>1. /\ session'[v] = seen[v] /\ v \notin current' /\ seen'[v] = {}
          /\ at'[v] = "away" /\ purpose'[v] = "none"
          /\ v \notin doubtful' => v \notin doubtful \/ v \in current
      BY <1>f, <2>3 DEF Enter, Answer, Stamp
    <3>2. version \in Nat /\ \A s \in seen[v] : s.version \in Nat
      BY <1>t, Versions
    <3>3. ASSUME v \notin doubtful', NEW s \in seen[v]
          PROVE  s.version <= version /\ (s.version = version => Matched(Mailbox[v]))
      <4>1. CASE v \in current
        <5>1. s.version = version /\ Matched(Mailbox[v])
          BY <1>t, <2>1, <3>3, <4>1 DEF VisitInv
        <5> QED BY <3>2, <5>1
      <4>2. CASE v \notin current
        <5>1. s.version < version
          BY <1>t, <3>1, <3>3, <4>2 DEF VisitInv
        <5> QED BY <3>2, <5>1
      <4> QED BY <4>1, <4>2
    <3>4. VisitInv(v)'
      BY <2>1, <3>1, <3>3 DEF VisitInv, Matched
    <3> QED BY <1>e, <1>q, <2>1, <3>4
  <2> QED BY <1>6, <2>2, <2>3 DEF RecordOpened
<1>7. CASE SessionExpires(v) \/ MarkExpires(v)
  <2>1. /\ UNCHANGED <<version, verify, rules, visitVars, current, doubtful>> /\ ~Heal(v)
        /\ session'[v] = session[v] \/ session'[v] = {}
    BY <1>7, <1>f DEF SessionExpires, MarkExpires, Heal
  <2>2. VisitInv(v)'
    BY <1>t, <2>1 DEF VisitInv, Matched, visitVars
  <2> QED BY <1>e, <1>q, <2>1, <2>2
<1>8. CASE Heal(v)
  <2> DEFINE e == Mailbox[v]
  <2>1. CASE e \in rules.allow
    <3>1. rules' = rules
      <4>1. rules \in Rules
        BY <1>t DEF TypeOK, Rules
      <4>2. rules.allow \cup {e} = rules.allow
        BY <2>1
      <4> QED BY <1>8, <4>1, <4>2 DEF Heal, Rules
    <3>2. Cardinality({e} \ rules.allow) = 0
      BY <2>1, OneRule
    <3>3. version' = version /\ verify' = verify /\ session' = session /\ doubtful' = doubtful
      <4>1. version \in Nat /\ version' = version + Cardinality({e} \ rules.allow)
        BY <1>8, <1>t DEF Heal, Bumped, TypeOK
      <4> QED BY <1>8, <3>2, <4>1 DEF Heal
    <3>4. ASSUME NEW u \in Visits, u # v PROVE VisitInv(u)'
      <4>1. u \in current' <=> u \in current
        BY <1>8, <2>1, <3>4 DEF Heal, Goto, Answer
      <4> QED BY <1>o, <3>1, <3>3, <3>4, <4>1, Quiet DEF SessionInv
    <3>5. CASE purpose[v] = "access"
      <4>1. /\ at'[v] = "record" /\ purpose'[v] = purpose[v] /\ seen'[v] = seen[v]
            /\ current' = current
        BY <1>8, <1>f, <2>1, <3>5 DEF Heal, Goto
      <4>2. at[v] = "heal"
        BY <1>8 DEF Heal
      <4>3. VisitInv(v)'
        BY <1>t, <2>1, <3>1, <3>3, <4>1, <4>2 DEF VisitInv, Matched
      <4> QED BY <1>e, <3>4, <4>3
    <3>6. CASE purpose[v] # "access"
      <4>1. Answer(v) /\ v \notin current'
        BY <1>8, <2>1, <3>6 DEF Heal
      <4>2. VisitInv(v)'
        BY <1>r, <3>1, <3>3, <4>1
      <4> QED BY <1>e, <3>4, <4>2
    <3> QED BY <3>5, <3>6
  <2>2. CASE e \notin rules.allow
    <3>1. Reset /\ session' = session
      <4>1. Cardinality({e} \ rules.allow) = 1
        BY <2>2, OneRule
      <4>2. version \in Nat /\ version' = version + Cardinality({e} \ rules.allow)
        BY <1>8, <1>t DEF Heal, Bumped, TypeOK
      <4>3. current' = {} /\ doubtful' = doubtful /\ session' = session
        BY <1>8, <2>2 DEF Heal
      <4> QED BY <4>1, <4>2, <4>3 DEF Reset
    <3>2. ASSUME NEW u \in Visits, u # v PROVE VisitInv(u)'
      BY <1>o, <1>t, <3>1, <3>2, Outdated DEF SessionInv
    <3>3. VisitInv(v)'
      <4>1. /\ version \in Nat /\ version' \in Nat /\ version' > version
            /\ \A s \in session[v] : s.version \in Nat
            /\ \A s \in seen[v] : s.version \in Nat
        BY <1>t, <3>1, Versions DEF Reset, TypeOK
      <4>2. /\ at'[v] \in {"record", "away"}
            /\ \/ purpose'[v] = purpose[v] /\ seen'[v] = seen[v]
               \/ purpose'[v] = "none" /\ seen'[v] = {}
        BY <1>8, <1>f DEF Heal, Goto, Answer
      <4>3. ASSUME v \notin doubtful', NEW s \in session'[v]
            PROVE  s.version <= version' /\ s.version # version'
        <5>1. s \in session[v] /\ s.version <= version
          BY <1>t, <3>1, <4>3 DEF Reset, VisitInv
        <5> QED BY <4>1, <5>1
      <4>4. ASSUME v \notin doubtful', NEW s \in seen'[v]
            PROVE  s.version < version'
        <5>1. s \in seen[v] /\ s.version <= version
          <6>1. CASE v \in current
            BY <1>t, <4>1, <4>2, <4>4, <6>1 DEF VisitInv
          <6>2. CASE v \notin current
            BY <1>t, <3>1, <4>1, <4>2, <4>4, <6>2 DEF VisitInv, Reset
          <6> QED BY <6>1, <6>2
        <5> QED BY <4>1, <5>1
      <4>5. v \notin current'
        BY <3>1 DEF Reset
      <4> QED BY <1>t, <4>2, <4>3, <4>4, <4>5 DEF VisitInv
    <3> QED BY <1>e, <3>2, <3>3
  <2> QED BY <2>1, <2>2
<1> QED BY <1>1, <1>2, <1>3, <1>4, <1>5, <1>6, <1>7, <1>8 DEF VisitNext

LEMMA SessionInit == Init => SessionInv
  BY TypeInit DEF Init, SessionInv, EditInv, VisitInv

LEMMA SessionStep == SessionInv /\ [Next]_vars => SessionInv'
<1> SUFFICES ASSUME SessionInv, [Next]_vars PROVE SessionInv'
  OBVIOUS
<1>1. TypeInv /\ EditInv /\ TypeInv'
  BY TypeStep DEF SessionInv
<1>2. CASE \E v \in Visits : VisitNext(v)
  BY <1>1, <1>2, VisitSessions DEF SessionInv
<1>3. CASE OwnerNext \/ \E e \in Guests : InvitationLapses(e)
  BY <1>1, <1>3, OwnerSteps, OwnerSessions DEF SessionInv
<1>4. CASE UNCHANGED vars
  BY <1>1, <1>4, Quiet DEF SessionInv, EditInv, Untouched, vars, linkVars, visitVars
<1> QED BY <1>2, <1>3, <1>4 DEF Next

\* A session of a visit that no edit has confused answers only for somebody whom
\* the rules of now let in, for any number of visits and rules.
THEOREM OpenMeansAdmitted == Spec => []SessionsRespectRules
<1>1. SessionInv => SessionsRespectRules
  BY DEF SessionInv, VisitInv, SessionsRespectRules, Open
<1> QED BY <1>1, SessionInit, SessionStep, PTL DEF Spec

-----------------------------------------------------------------------------
(* The sessions implement SessionPolicy.                                   *)

Opens == {v \in Visits : Open(v)}

LEMMA OpensSame ==
    ASSUME UNCHANGED <<version, verify, session>>
    PROVE  Opens' = Opens
  BY DEF Opens, Open

\* A change of the configuration leaves no session open but those of the visits
\* in doubt.
LEMMA OpensReset ==
    ASSUME SessionInv, TypeInv', session' = session, Reset
    PROVE  Opens' \subseteq doubtful
<1>1. ASSUME NEW v \in Visits, v \notin doubtful, NEW s \in session'[v]
      PROVE  s.version # version'
  <2>1. s \in session[v] /\ VisitInv(v) /\ TypeOK /\ version' \in Nat
    BY <1>1 DEF SessionInv, TypeInv, TypeOK
  <2>2. s.version <= version /\ s.version \in Nat /\ version \in Nat
    BY <1>1, <2>1, Versions DEF VisitInv
  <2> QED BY <2>1, <2>2 DEF Reset
<1> QED BY <1>1 DEF Opens, Open

\* The session of one visit is replaced.
LEMMA OpensOther ==
    ASSUME TypeOK, NEW v \in Visits, NEW S, UNCHANGED <<version, verify>>,
           session' = [session EXCEPT ![v] = S]
    PROVE  /\ ~Open(v)' => Opens' = Opens \ {v}
           /\ Open(v)' => Opens' = Opens \cup {v}
<1>1. ASSUME NEW u \in Visits, u # v PROVE Open(u)' <=> Open(u)
  BY <1>1 DEF Open, TypeOK
<1> QED BY <1>1 DEF Opens

LEMMA PolicyOwner ==
    ASSUME SessionInv, TypeInv', UNCHANGED <<visitVars, session>>, Same \/ Reset \/ Confused
    PROVE  [Policy!Next]_(Policy!vars)
<1>1. CASE Same
  BY <1>1, OpensSame DEF Same, Policy!vars, Opens
<1>2. CASE Reset
  <2>1. Opens' \in SUBSET doubtful /\ current' = {} /\ doubtful' = doubtful
    BY <1>2, OpensReset DEF Reset
  <2> QED BY <2>1 DEF Policy!Next, Policy!Reconfigure, Opens
<1>3. CASE Confused
  <2>1. doubtful' \in SUBSET Visits /\ current' = {}
    BY <1>3 DEF Confused
  <2>2. Opens' \subseteq doubtful'
    BY <1>3 DEF Confused, Opens, Open
  <2> QED BY <2>1, <2>2 DEF Policy!Next, Policy!Confuse, Opens
<1> QED BY <1>1, <1>2, <1>3

LEMMA PolicyVisit ==
    ASSUME SessionInv, TypeInv', NEW v \in Visits, VisitNext(v)
    PROVE  [Policy!Next]_(Policy!vars)
<1> USE DEF linkVars, Opens
<1>t. TypeOK /\ TypeOK' /\ VisitInv(v) /\ current \subseteq Visits
  BY DEF SessionInv, TypeInv, TypeOK
<1>r. ASSUME UNCHANGED <<version, verify, session, doubtful>>,
             current' = current \/ current' = current \ {v}
      PROVE  [Policy!Next]_(Policy!vars)
  <2>1. Opens' = Opens
    BY <1>r, OpensSame
  <2>2. CASE current' = current
    BY <1>r, <2>1, <2>2 DEF Policy!vars
  <2>3. CASE current' = current \ {v}
    BY <1>r, <2>1, <2>3 DEF Policy!Next, Policy!GiveUp
  <2> QED BY <1>r, <2>2, <2>3
<1>1. CASE Access(v)
  <2>1. /\ v \notin Opens /\ current' = current \cup {v}
        /\ UNCHANGED <<version, verify, session, doubtful>>
    BY <1>1 DEF Access, ResolveInviteToken, Begin
  <2>2. Opens' = Opens
    BY <2>1, OpensSame
  <2> QED BY <2>1, <2>2 DEF Policy!Next, Policy!Ask
<1>2. CASE Look(v) \/ RequestAccess(v) \/ MarkExpired(v) \/ ConsumeLinkInvitation(v) \/ Evaluate(v)
           \/ Ask(v) \/ MarkExpires(v)
  <2>1. UNCHANGED <<version, verify, session, doubtful>>
    BY <1>2 DEF Look, RequestAccess, ResolveInviteToken, Begin, MarkExpired, ConsumeLinkInvitation,
                Evaluate, Ask, MarkExpires
  <2>2. current' = current \/ current' = current \ {v}
    BY <1>2 DEF Look, RequestAccess, MarkExpired, ConsumeLinkInvitation, Evaluate, Conclude, Ask,
                MarkExpires, Refuse
  <2> QED BY <1>r, <2>1, <2>2
<1>3. CASE Heal(v)
  <2> DEFINE e == Mailbox[v]
  <2>1. UNCHANGED <<verify, session, doubtful>>
    BY <1>3 DEF Heal
  <2>2. version \in Nat /\ version' = version + Cardinality({e} \ rules.allow)
    BY <1>3, <1>t DEF Heal, Bumped, TypeOK
  <2>3. CASE e \in rules.allow
    <3>1. version' = version
      <4>1. Cardinality({e} \ rules.allow) = 0
        BY <2>3, OneRule
      <4> QED BY <2>2, <4>1
    <3>2. current' = current \/ current' = current \ {v}
      BY <1>3, <2>3 DEF Heal
    <3> QED BY <1>r, <2>1, <3>1, <3>2
  <2>4. CASE e \notin rules.allow
    <3>1. Cardinality({e} \ rules.allow) = 1
      BY <2>4, OneRule
    <3>2. version' > version /\ current' = {}
      BY <1>3, <2>2, <2>4, <3>1 DEF Heal
    <3>3. Reset
      BY <2>1, <3>2 DEF Reset
    <3>4. Opens' \in SUBSET doubtful
      BY <2>1, <3>3, OpensReset
    <3> QED BY <2>1, <3>2, <3>4 DEF Policy!Next, Policy!Reconfigure
  <2> QED BY <2>3, <2>4
<1>4. CASE RecordOpened(v)
  <2>1. UNCHANGED <<version, verify>>
    BY <1>4 DEF RecordOpened
  <2>2. CASE Refuse(v) /\ UNCHANGED <<session, doubtful>>
    BY <1>r, <2>1, <2>2 DEF Refuse
  <2>3. CASE Enter(v)
    <3>1. /\ session' = [session EXCEPT ![v] = seen[v]] /\ current' = current \ {v}
          /\ v \in current => doubtful' = doubtful \ {v}
          /\ v \notin current => doubtful' = doubtful
      BY <2>3 DEF Enter, Stamp
    <3>2. session'[v] = seen[v]
      BY <1>t, <3>1 DEF TypeOK
    <3>3. /\ ~Open(v)' => Opens' = Opens \ {v}
          /\ Open(v)' => Opens' = Opens \cup {v}
      BY <1>t, <2>1, <3>1, OpensOther
    <3>4. CASE v \in current
      <4>1. seen[v] = {[version |-> version, verify |-> verify]}
        BY <1>t, <3>4 DEF VisitInv
      <4>2. Open(v)'
        BY <2>1, <3>2, <4>1 DEF Open
      <4> QED BY <3>1, <3>3, <3>4, <4>2 DEF Policy!Next, Policy!Enter
    <3>5. CASE v \notin current
      <4>1. current' = current /\ doubtful' = doubtful
        BY <3>1, <3>5
      <4>2. CASE v \in doubtful
        BY <3>3, <3>5, <4>1, <4>2 DEF Policy!Next, Policy!EnterLate
      <4>3. CASE v \notin doubtful
        <5>1. \A s \in seen[v] : s.version < version /\ s.version \in Nat /\ version \in Nat
          BY <1>t, <3>5, <4>3, Versions DEF VisitInv
        <5>2. \A s \in seen[v] : s.version # version
          BY <5>1
        <5>3. ~Open(v)'
          BY <2>1, <3>2, <5>2 DEF Open
        <5> QED BY <3>3, <3>5, <4>1, <5>3 DEF Policy!Next, Policy!EnterLate
      <4> QED BY <4>2, <4>3
    <3> QED BY <3>4, <3>5
  <2> QED BY <1>4, <2>2, <2>3 DEF RecordOpened
<1>5. CASE SessionExpires(v)
  <2>1. /\ UNCHANGED <<version, verify, current, doubtful>>
        /\ session' = [session EXCEPT ![v] = {}]
    BY <1>5 DEF SessionExpires
  <2>2. ~Open(v)'
    BY <1>t, <2>1 DEF Open, TypeOK
  <2>3. Opens' = Opens \ {v}
    BY <1>t, <2>1, <2>2, OpensOther
  <2> QED BY <2>1, <2>3 DEF Policy!Next, Policy!Leave
<1> QED BY <1>1, <1>2, <1>3, <1>4, <1>5 DEF VisitNext

\* A share link's sessions implement what SessionPolicy promises of them: any
\* change of gates or rules closes every session, and no request that began before
\* it comes in after it, whatever visitors and owners do in between.
THEOREM FollowsPolicy == Spec => SessionsFollowPolicy
<1>1. Init => Policy!Init
  BY DEF Init, Policy!Init, Open
<1>2. SessionInv /\ [Next]_vars => [Policy!Next]_(Policy!vars)
  <2> SUFFICES ASSUME SessionInv, [Next]_vars PROVE [Policy!Next]_(Policy!vars)
    OBVIOUS
  <2>1. TypeInv /\ EditInv /\ TypeInv'
    BY TypeStep DEF SessionInv
  <2>2. CASE \E v \in Visits : VisitNext(v)
    BY <2>1, <2>2, PolicyVisit
  <2>3. CASE OwnerNext \/ \E e \in Guests : InvitationLapses(e)
    BY <2>1, <2>3, OwnerSteps, PolicyOwner
  <2>4. CASE UNCHANGED vars
    <3>1. Same /\ UNCHANGED <<visitVars, session>>
      BY <2>4 DEF vars, linkVars, Same
    <3> QED BY <2>1, <3>1, PolicyOwner
  <2> QED BY <2>2, <2>3, <2>4 DEF Next
<1> QED BY <1>1, <1>2, SessionInit, SessionStep, PTL DEF Spec, SessionsFollowPolicy, Policy!Spec

-----------------------------------------------------------------------------
(* Who was taken off the list stays out.                                   *)

\* No approval is left of whoever is barred, so that no visitor's request can
\* bring back his rule.
BarredInv ==
    \A e \in barred :
       request[e] # "approved" /\ rules.allow # {} /\ e \notin rules.allow

LEMMA BarredInit == Init => BarredInv
  BY DEF Init, BarredInv

LEMMA BarredStep == TypeInv /\ TypeInv' /\ BarredInv /\ [Next]_vars => BarredInv'
<1> SUFFICES ASSUME TypeInv, TypeInv', BarredInv, [Next]_vars PROVE BarredInv'
  OBVIOUS
<1> USE DEF linkVars, peopleVars
<1>t. /\ rules \in Rules /\ rules' \in Rules /\ barred \in SUBSET Emails
      /\ request \in [Emails -> {"none", "pending", "approved", "rejected"}]
  BY DEF TypeInv, TypeOK, Rules
<1>f. ASSUME UNCHANGED <<rules, request, barred>> PROVE BarredInv'
  BY <1>f DEF BarredInv
\* An address is let in: the rules gain it, and nobody else's approval appears.
<1>a. ASSUME NEW e \in Emails, AllowRule(e), barred' = barred \ {e},
             \A f \in Emails \ {e} : request'[f] = request[f]
      PROVE  BarredInv'
  <2>1. rules'.allow = rules.allow \cup {e}
    BY <1>a, <1>t DEF AllowRule, Rules
  <2> QED BY <1>a, <1>t, <2>1 DEF BarredInv
<1>1. ASSUME NEW v \in Visits, Heal(v) PROVE BarredInv'
  <2> DEFINE e == Mailbox[v]
  <2>1. rules'.allow = rules.allow \cup {e} /\ request' = request
    BY <1>1, <1>t DEF Heal, Rules
  <2>2. e \notin barred'
    <3>1. CASE request[e] = "approved"
      BY <1>1, <3>1 DEF Heal, BarredInv
    <3>2. CASE request[e] # "approved"
      BY <1>1, <3>2 DEF Heal
    <3> QED BY <3>1, <3>2
  <2>3. barred' \subseteq barred
    BY <1>1 DEF Heal
  <2> QED BY <2>1, <2>2, <2>3 DEF BarredInv
<1>2. ASSUME NEW v \in Visits, Ask(v) PROVE BarredInv'
  BY <1>2, <1>t DEF Ask, BarredInv
<1>3. ASSUME NEW v \in Visits, VisitNext(v), ~Heal(v), ~Ask(v) PROVE BarredInv'
  <2>1. UNCHANGED <<rules, request, barred>>
    BY <1>3 DEF VisitNext, Access, Look, RequestAccess, ResolveInviteToken, Begin, MarkExpired,
           ConsumeLinkInvitation, Evaluate, RecordOpened, SessionExpires, MarkExpires
  <2> QED BY <1>f, <2>1
<1>4. ASSUME NEW r \in RuleSets, UpdateAccessRules(r) PROVE BarredInv'
  <2> DEFINE removed == rules.allow \ r.allow
  <2>1. CASE r.allow = {}
    BY <1>4, <2>1 DEF UpdateAccessRules, BarredInv
  <2>2. CASE r.allow # {}
    <3>1. barred' = (barred \cup removed) \ r.allow /\ rules' = r
      BY <1>4, <2>2 DEF UpdateAccessRules
    <3>2. ASSUME NEW e \in barred' PROVE request'[e] # "approved"
      <4>1. e \in Emails
        BY <1>t, <3>1 DEF Rules
      <4>2. request'[e] = IF LosesApproval(e, removed) THEN "rejected" ELSE request[e]
        BY <1>4, <4>1 DEF UpdateAccessRules
      <4>3. CASE e \in removed
        BY <4>2, <4>3 DEF LosesApproval
      <4>4. CASE e \in barred
        BY <4>2, <4>4 DEF BarredInv
      <4> QED BY <3>1, <4>3, <4>4
    <3> QED BY <2>2, <3>1, <3>2 DEF BarredInv
  <2> QED BY <2>1, <2>2
<1>5. ASSUME NEW e \in Guests, InviteViewers(e) \/ ApproveAccessRequest(e) PROVE BarredInv'
  <2>1. e \in Emails
    BY GuestsAreEmails DEF Guests
  <2>2. AllowRule(e) /\ barred' = barred \ {e}
    BY <1>5 DEF InviteViewers, ApproveAccessRequest
  <2>3. \A f \in Emails \ {e} : request'[f] = request[f]
    BY <1>5, <1>t DEF InviteViewers, ApproveAccessRequest
  <2> QED BY <1>a, <2>1, <2>2, <2>3
<1>6. ASSUME NEW e \in Guests, RevokeInvitation(e) PROVE BarredInv'
  <2>1. CASE UNCHANGED <<rules, version, current, barred>>
    BY <1>6, <1>f, <2>1 DEF RevokeInvitation
  <2>2. CASE /\ rules' = [rules EXCEPT !.allow = @ \ {e}]
             /\ barred' = IF rules.allow \subseteq {e} THEN {} ELSE barred
    <3>1. rules'.allow = rules.allow \ {e} /\ request' = request
      BY <1>6, <1>t, <2>2 DEF RevokeInvitation, Rules
    <3> QED BY <2>2, <3>1 DEF BarredInv
  <2> QED BY <1>6, <2>1, <2>2 DEF RevokeInvitation
<1>7. ASSUME NEW e \in Guests, RejectAccessRequest(e) PROVE BarredInv'
  BY <1>7, <1>t DEF RejectAccessRequest, BarredInv
<1>8. CASE EditLink \/ UpdateLink \/ \E e \in Guests : InvitationLapses(e)
  BY <1>8, <1>f DEF EditLink, UpdateLink, InvitationLapses
<1>9. CASE UNCHANGED vars
  BY <1>9, <1>f DEF vars
<1> QED BY <1>1, <1>2, <1>3, <1>4, <1>5, <1>6, <1>7, <1>8, <1>9 DEF Next, OwnerNext

\* Nobody who was taken off the allow list is back on it, or finds it gone, before
\* an owner has let him in again, whatever requests were under way.
THEOREM TheRemovedStayOut == Spec => []RemovedStayOut
<1>1. BarredInv => RemovedStayOut
  BY DEF BarredInv, RemovedStayOut
<1>2. TypeInv /\ BarredInv /\ [Next]_vars => TypeInv' /\ BarredInv'
  BY TypeStep, BarredStep
<1> QED BY <1>1, <1>2, TypeInit, BarredInit, PTL DEF Spec

-----------------------------------------------------------------------------
(* Tokens and counts.                                                      *)

\* A token is spent once: what is spent is older than the invitation, or its own
\* and then the invitation is not open any more; no request holds a newer one.
TokenInv ==
    /\ \A e \in Emails : \A t \in spent[e] :
          \/ t < invite[e].token
          \/ t = invite[e].token /\ invite[e].status \notin {"pending", "lapsed"}
    /\ \A v \in Visits : token[v] <= invite[Mailbox[v]].token

\* Opens marked and counted, for each of which the count has gone up.
CountInv == Cardinality(marked \ uncounted) <= count

LEMMA TokenInit == Init => TokenInv
<1> SUFFICES ASSUME Init PROVE TokenInv
  OBVIOUS
<1>1. \A e \in Emails : invite[e].token \in Nat
  BY DEF Init, NewLink, UsedLink
<1>2. (\A v \in Visits : token[v] = 0) /\ \A e \in Emails : spent[e] = {}
  BY DEF Init
<1> QED BY <1>1, <1>2, GuestsAreEmails DEF TokenInv

LEMMA TokenStep == TypeInv /\ TypeInv' /\ TokenInv /\ [Next]_vars => TokenInv'
<1> SUFFICES ASSUME TypeInv, TypeInv', TokenInv, [Next]_vars PROVE TokenInv'
  OBVIOUS
<1> USE GuestsAreEmails DEF linkVars, peopleVars
<1>t. /\ invite \in [Emails -> Invites] /\ spent \in [Emails -> SUBSET Token]
      /\ token \in [Visits -> Token] /\ Token \subseteq Nat
  BY ConstantsAssumption DEF TypeInv, TypeOK, Invites, Token
<1>n. \A e \in Emails : invite[e].token \in Nat /\ \A t \in spent[e] : t \in Nat
  BY <1>t DEF Invites
\* An invitation closes, or stays as it is.
<1>c. ASSUME UNCHANGED spent,
             \A e \in Emails : /\ invite'[e].token = invite[e].token
                               /\ \/ invite'[e].status = invite[e].status
                                  \/ invite'[e].status \notin {"pending", "lapsed"}
                                  \/ invite[e].status \in {"pending", "lapsed"},
             \A v \in Visits : \/ token'[v] = token[v]
                               \/ token'[v] = 0
                               \/ token'[v] = invite[Mailbox[v]].token
      PROVE  TokenInv'
  <2>1. ASSUME NEW e \in Emails, NEW t \in spent'[e]
        PROVE  \/ t < invite'[e].token
               \/ t = invite'[e].token /\ invite'[e].status \notin {"pending", "lapsed"}
    BY <1>c, <2>1 DEF TokenInv
  <2>2. ASSUME NEW v \in Visits PROVE token'[v] <= invite'[Mailbox[v]].token
    BY <1>c, <1>n, <2>2 DEF TokenInv
  <2> QED BY <2>1, <2>2 DEF TokenInv
\* A new invitation leaves every token behind.
<1>i. ASSUME NEW e \in Emails, Invite(e), UNCHANGED <<spent, token>>
      PROVE  TokenInv'
  <2>1. \A f \in Emails : /\ f # e => invite'[f] = invite[f]
                          /\ f = e => invite'[f].token = invite[f].token + 1
    BY <1>i, <1>t DEF Invite
  <2>2. ASSUME NEW f \in Emails, NEW t \in spent'[f]
        PROVE  \/ t < invite'[f].token
               \/ t = invite'[f].token /\ invite'[f].status \notin {"pending", "lapsed"}
    BY <1>i, <1>n, <2>1, <2>2 DEF TokenInv
  <2>3. ASSUME NEW v \in Visits PROVE token'[v] <= invite'[Mailbox[v]].token
    <3>1. Mailbox[v] \in Emails /\ token[v] \in Nat /\ token[v] <= invite[Mailbox[v]].token
      BY <1>t DEF TokenInv
    <3>2. \/ invite'[Mailbox[v]].token = invite[Mailbox[v]].token
          \/ invite'[Mailbox[v]].token = invite[Mailbox[v]].token + 1
      BY <2>1, <3>1
    <3> QED BY <1>i, <1>n, <3>1, <3>2
  <2> QED BY <2>2, <2>3 DEF TokenInv
<1>1. ASSUME NEW v \in Visits, ConsumeLinkInvitation(v), Consumable(Mailbox[v]) PROVE TokenInv'
  <2> DEFINE e == Mailbox[v]
  <2>1. /\ \A f \in Emails : invite'[f].token = invite[f].token
        /\ \A f \in Emails : f # e => invite'[f] = invite[f]
        /\ invite'[e].status = "used"
    BY <1>1, <1>t DEF ConsumeLinkInvitation, Invites
  <2>2. \A f \in Emails : \/ f # e /\ spent'[f] = spent[f]
                          \/ f = e /\ spent'[f] = spent[f] \cup {token[v]}
    BY <1>1, <1>t DEF ConsumeLinkInvitation
  <2>3. token[v] \in Nat /\ token[v] <= invite[e].token /\ e \in Emails
    BY <1>t DEF TokenInv
  <2>4. ASSUME NEW f \in Emails, NEW t \in spent'[f]
        PROVE  \/ t < invite'[f].token
               \/ t = invite'[f].token /\ invite'[f].status \notin {"pending", "lapsed"}
    BY <1>n, <2>1, <2>2, <2>3, <2>4 DEF TokenInv
  <2>5. ASSUME NEW u \in Visits PROVE token'[u] <= invite'[Mailbox[u]].token
    <3>1. token'[u] = token[u] \/ token'[u] = 0
      BY <1>1, <1>t DEF ConsumeLinkInvitation
    <3> QED BY <1>n, <2>1, <3>1 DEF TokenInv
  <2> QED BY <2>4, <2>5 DEF TokenInv
<1>2. ASSUME NEW v \in Visits, VisitNext(v),
             ~(ConsumeLinkInvitation(v) /\ Consumable(Mailbox[v]))
      PROVE  TokenInv'
  <2>1. UNCHANGED spent
    BY <1>2 DEF VisitNext, Access, Look, RequestAccess, ResolveInviteToken, Begin, MarkExpired,
           ConsumeLinkInvitation, Evaluate, Heal, Ask, RecordOpened, SessionExpires, MarkExpires
  <2>2. invite' = invite \/ invite' = [invite EXCEPT ![Mailbox[v]].status = "expired"]
    BY <1>2 DEF VisitNext, Access, Look, RequestAccess, ResolveInviteToken, Begin, MarkExpired,
           ConsumeLinkInvitation, Evaluate, Heal, Ask, RecordOpened, SessionExpires, MarkExpires
  <2>3. \A e \in Emails : /\ invite'[e].token = invite[e].token
                          /\ invite'[e].status = invite[e].status \/ invite'[e].status = "expired"
    BY <1>t, <2>2 DEF Invites
  <2>4. \/ token' = token \/ token' = [token EXCEPT ![v] = 0]
        \/ token' = [token EXCEPT ![v] = invite[Mailbox[v]].token]
    BY <1>2 DEF VisitNext, Access, Look, RequestAccess, ResolveInviteToken, Begin, MarkExpired,
           ConsumeLinkInvitation, Evaluate, Conclude, Heal, Ask, RecordOpened, SessionExpires,
           MarkExpires, Goto, Refuse, Answer, Enter, visitVars
  <2>5. \A u \in Visits : \/ token'[u] = token[u] \/ token'[u] = 0
                          \/ token'[u] = invite[Mailbox[u]].token
    BY <1>t, <2>4
  <2> QED BY <1>c, <2>1, <2>3, <2>5
<1>3. CASE \E e \in Guests : InviteViewers(e) \/ ApproveAccessRequest(e)
  BY <1>3, <1>i DEF InviteViewers, ApproveAccessRequest, Guests, ownerFrame, visitVars
<1>4. CASE \E r \in RuleSets : UpdateAccessRules(r)
  <2> PICK r \in RuleSets : UpdateAccessRules(r)
    BY <1>4
  <2>1. \A e \in Emails : /\ invite'[e].token = invite[e].token
                          /\ \/ invite'[e].status = invite[e].status
                             \/ invite'[e].status = "revoked"
    BY <1>t DEF UpdateAccessRules, Invites
  <2> QED BY <1>c, <2>1 DEF UpdateAccessRules, ownerFrame, visitVars
<1>5. CASE \E e \in Guests : RevokeInvitation(e) \/ InvitationLapses(e)
  <2> PICK e \in Guests : RevokeInvitation(e) \/ InvitationLapses(e)
    BY <1>5
  <2>1. \A f \in Emails : /\ invite'[f].token = invite[f].token
                          /\ \/ invite'[f].status = invite[f].status
                             \/ invite'[f].status = "revoked"
                             \/ invite[f].status = "pending"
    BY <1>t DEF RevokeInvitation, InvitationLapses, Invites
  <2> QED BY <1>c, <2>1 DEF RevokeInvitation, InvitationLapses, ownerFrame, visitVars
<1>6. CASE (\E e \in Guests : RejectAccessRequest(e)) \/ EditLink \/ UpdateLink \/ UNCHANGED vars
  <2>1. UNCHANGED <<spent, invite, token>>
    BY <1>6 DEF RejectAccessRequest, EditLink, UpdateLink, vars, ownerFrame, visitVars
  <2> QED BY <1>c, <2>1
<1> QED BY <1>1, <1>2, <1>3, <1>4, <1>5, <1>6 DEF Next, OwnerNext

\* No token lets two requests in, unless its invitation was sent anew between the
\* look at it and its use.
THEOREM TokensAreSingleUse == Spec => SingleUse
<1>1. ASSUME TypeInv, TokenInv, [Next]_vars, NEW v \in Visits,
             at[v] = "consume", at'[v] = "evaluate", token[v] = invite[Mailbox[v]].token
      PROVE  token[v] \notin spent[Mailbox[v]]
  <2>1. Mailbox[v] \in Emails /\ \A e \in Emails : invite[e].token \in Nat
    BY <1>1, GuestsAreEmails, ConstantsAssumption DEF TypeInv, TypeOK, Token
  <2>2. at \in [Visits -> Labels]
    BY <1>1 DEF TypeInv, TypeOK, Labels
  <2>3. ConsumeLinkInvitation(v) /\ at'[v] # "away"
    <3>1. ASSUME NEW u \in Visits, VisitNext(u), u # v PROVE at'[v] = at[v]
      BY <2>2, <3>1 DEF VisitNext, Access, Look, RequestAccess, ResolveInviteToken, Begin, MarkExpired,
         ConsumeLinkInvitation, Evaluate, Conclude, Heal, Ask, RecordOpened, SessionExpires,
         MarkExpires, Goto, Refuse, Answer, Enter, visitVars
    <3>2. CASE OwnerNext \/ (\E e \in Guests : InvitationLapses(e)) \/ UNCHANGED vars
      BY <1>1, <3>2 DEF OwnerNext, UpdateAccessRules, InviteViewers, RevokeInvitation,
         ApproveAccessRequest, RejectAccessRequest, EditLink, UpdateLink, InvitationLapses,
         ownerFrame, visitVars, vars
    <3>3. CASE VisitNext(v)
      BY <1>1, <3>3 DEF VisitNext, Access, Look, RequestAccess, ResolveInviteToken, Begin, MarkExpired,
         Evaluate, Heal, Ask, RecordOpened, SessionExpires, MarkExpires, visitVars
    <3>4. CASE \E u \in Visits : VisitNext(u)
      <4> PICK u \in Visits : VisitNext(u)
        BY <3>4
      <4>1. CASE u = v
        BY <3>3, <4>1
      <4>2. CASE u # v
        BY <1>1, <3>1, <4>2
      <4> QED BY <4>1, <4>2
    <3> QED BY <1>1, <3>2, <3>4 DEF Next
  <2>4. Consumable(Mailbox[v])
    <3>1. CASE Refuse(v)
      BY <2>2, <2>3, <3>1 DEF Refuse, Answer
    <3>2. CASE ~Refuse(v)
      BY <2>3, <3>2 DEF ConsumeLinkInvitation
    <3> QED BY <3>1, <3>2
  <2> QED BY <1>1, <2>1, <2>4 DEF TokenInv, Consumable
<1>2. TypeInv /\ TokenInv /\ [Next]_vars => TypeInv' /\ TokenInv'
  BY TypeStep, TokenStep
<1>3. TypeInv /\ TokenInv /\ [Next]_vars =>
         [\A v \in Visits :
            LET e == Mailbox[v] IN
            (/\ at[v] = "consume" /\ at'[v] = "evaluate"
             /\ token[v] = invite[e].token)
                => token[v] \notin spent[e]]_vars
  BY <1>1
<1> QED BY <1>2, <1>3, TypeInit, TokenInit, PTL DEF Spec, SingleUse

LEMMA CountStep == TypeInv /\ CountInv /\ [Next]_vars => CountInv'
<1> SUFFICES ASSUME TypeInv, CountInv, [Next]_vars PROVE CountInv'
  OBVIOUS
<1> DEFINE M == marked \ uncounted
<1>t. /\ count \in Nat /\ M \subseteq Visits /\ IsFiniteSet(M) /\ Cardinality(M) \in Nat
  BY ConstantsAssumption, FS_Subset, FS_CardinalityType DEF TypeInv, TypeOK
<1>s. ASSUME M' \subseteq M, count' = count PROVE CountInv'
  <2>1. Cardinality(M') <= Cardinality(M) /\ Cardinality(M') \in Nat
    BY <1>s, <1>t, FS_Subset, FS_CardinalityType
  <2> QED BY <1>s, <1>t, <2>1 DEF CountInv
<1>1. ASSUME NEW v \in Visits, RecordOpened(v) PROVE CountInv'
  <2>1. CASE v \in marked \/ (uncounted' = uncounted \cup {v} /\ count' = count)
    <3>1. M' \subseteq M /\ count' = count
      BY <1>1, <2>1 DEF RecordOpened
    <3> QED BY <1>s, <3>1
  <2>2. CASE v \notin marked /\ uncounted' = uncounted \ {v} /\ count' = count + 1
    <3>1. M' = M \cup {v} /\ v \notin M
      BY <1>1, <2>2 DEF RecordOpened
    <3>2. Cardinality(M \cup {v}) = Cardinality(M) + 1
      BY <1>t, <3>1, FS_AddElement
    <3> HIDE DEF M
    <3>3. Cardinality(M') <= count'
      BY <1>t, <2>2, <3>1, <3>2 DEF CountInv, M
    <3> QED BY <3>3 DEF CountInv, M
  <2> QED BY <1>1, <2>1, <2>2 DEF RecordOpened
<1>2. ASSUME NEW v \in Visits, MarkExpires(v) PROVE CountInv'
  <2>1. M' \subseteq M /\ count' = count
    BY <1>2 DEF MarkExpires
  <2> QED BY <1>s, <2>1
<1>3. CASE UNCHANGED countVars
  BY <1>3, <1>s DEF countVars
<1>4. ASSUME NEW v \in Visits, VisitNext(v), ~RecordOpened(v), ~MarkExpires(v)
      PROVE  UNCHANGED countVars
  BY <1>4 DEF VisitNext, Access, Look, RequestAccess, ResolveInviteToken, Begin, MarkExpired,
     ConsumeLinkInvitation, Evaluate, Heal, Ask, SessionExpires
<1>5. OwnerNext \/ (\E e \in Guests : InvitationLapses(e)) \/ UNCHANGED vars => UNCHANGED countVars
  BY DEF OwnerNext, UpdateAccessRules, InviteViewers, RevokeInvitation, ApproveAccessRequest,
     RejectAccessRequest, EditLink, UpdateLink, InvitationLapses, ownerFrame, vars
<1>6. CASE \E v \in Visits : VisitNext(v)
  BY <1>1, <1>2, <1>3, <1>4, <1>6
<1> QED BY <1>3, <1>5, <1>6 DEF Next

\* Opens marked against counting twice are counted, within the link's limit, for
\* any number of requests that passed the first look at the count together.
THEOREM TheOpensAreCounted == Spec => []OpensAreCounted
<1>1. Init => CountInv
  BY FS_EmptySet DEF Init, CountInv
<1>2. TypeInv /\ CountInv /\ [Next]_vars => TypeInv' /\ CountInv'
  BY TypeStep, CountStep
<1>3. TypeInv /\ CountInv => OpensAreCounted
  BY ConstantsAssumption DEF TypeInv, TypeOK, CountInv, OpensAreCounted
<1> QED BY <1>1, <1>2, <1>3, TypeInit, PTL DEF Spec

-----------------------------------------------------------------------------
(* Edits that save over the version they read.                             *)

\* The save of an edit finds the version that it read: no rule has changed since.
SavesFresh == edit # {} /\ edit' = {} => \A x \in edit : x.version = version

\* Only an edit that takes back a change of rules confuses the sessions: as long as
\* every save finds the version it read, whoever is inside with a session that is
\* accepted is let in by the rules of now, with no visit excepted.
THEOREM FreshSavesConfuseNobody ==
    Spec /\ [][SavesFresh]_vars => [](\A v \in Visits : Open(v) => Matched(Mailbox[v]))
<1> DEFINE NobodyDoubtful == doubtful = {}
           AllAdmitted == \A v \in Visits : Open(v) => Matched(Mailbox[v])
<1>1. Init => NobodyDoubtful
  BY DEF Init
<1>2. NobodyDoubtful /\ [Next]_vars /\ [SavesFresh]_vars => NobodyDoubtful'
  <2> SUFFICES ASSUME doubtful = {}, [Next]_vars, [SavesFresh]_vars
               PROVE  doubtful' = {}
    OBVIOUS
  <2>1. CASE UpdateLink
    <3>1. edit # {} /\ edit' = {}
      BY <2>1 DEF UpdateLink
    <3>2. \A x \in edit : x.version = version
      BY <3>1 DEF SavesFresh, vars
    <3> QED BY <2>1, <3>2 DEF UpdateLink, SaveLink
  <2>2. CASE \E v \in Visits : VisitNext(v)
    BY <2>2 DEF VisitNext, Access, Look, RequestAccess, Begin, ResolveInviteToken, MarkExpired,
       ConsumeLinkInvitation, Evaluate, Heal, Ask, RecordOpened, Enter, SessionExpires, MarkExpires
  <2>3. CASE OwnerNext \/ \E e \in Guests : InvitationLapses(e)
    BY <2>1, <2>3 DEF OwnerNext, UpdateAccessRules, InviteViewers, RevokeInvitation,
       ApproveAccessRequest, RejectAccessRequest, EditLink, InvitationLapses
  <2>4. CASE UNCHANGED vars
    BY <2>4 DEF vars
  <2> QED BY <2>2, <2>3, <2>4 DEF Next
<1>3. SessionsRespectRules /\ NobodyDoubtful => AllAdmitted
  BY DEF SessionsRespectRules
<1> QED BY <1>1, <1>2, <1>3, OpenMeansAdmitted, PTL DEF Spec
=============================================================================
