------------------------------ MODULE LinkAccess ------------------------------
(***************************************************************************)
(* The door of one deal-room share link (apps/api/internal/link): visitors *)
(* pass its gates and its allow and block rules, get a signed session, and *)
(* come back with it; the owners invite, approve, remove and block people  *)
(* and change the gates meanwhile.                                         *)
(*                                                                         *)
(* A visitor's request reads the link, the invitation, the rules and the   *)
(* access request one after the other and holds no lock; an owner's        *)
(* operation is one transaction, except UpdateLink, which writes back what *)
(* it read before its own.  A session carries links.security_version as    *)
(* the request that earned it read it, and the version is all that tells a *)
(* later request that the session still holds.                             *)
(*                                                                         *)
(* A visit is a browser of one mailbox with one request at a time.  Its    *)
(* requests give the right code, password and NDA consent; what the gates  *)
(* ask for (all but the e-mail code, which is verify) is left out, that    *)
(* they changed is not.  The link stays active and unexpired, and its room *)
(* has no blocklist of its own.                                            *)
(***************************************************************************)
EXTENDS Naturals, FiniteSets

CONSTANTS Visits,     \* browsers of visitors
          Emails,     \* e-mail addresses
          Mailbox,    \* the address of a visit's owner
          RuleSets,   \* the rules an owner may save
          MaxAccess,  \* links.max_access_count
          MaxOps,     \* bound on the operations of owners
          MaxFaults   \* bound on failed calls and long waits

ASSUME ConstantsAssumption ==
    /\ IsFiniteSet(Visits) /\ IsFiniteSet(Emails)
    /\ Mailbox \in [Visits -> Emails]
    /\ RuleSets \subseteq [allow : SUBSET Emails, block : SUBSET Emails]
    /\ \A r \in RuleSets : r.allow \cap r.block = {}
    /\ MaxAccess \in Nat \ {0} /\ MaxOps \in Nat /\ MaxFaults \in Nat

VARIABLES
    version,     \* links.security_version
    verify,      \* links.require_email_verification
    count,       \* links.access_count
    rules,       \* link_access_rules: the addresses allowed and blocked
    invite,      \* link_invitations of an address: status, and which token it has
    request,     \* link_access_requests.status of an address
    marked,      \* the visits whose open is in Redis for deduplication
    edit,        \* the links an UpdateLink has read and not yet saved
    at,          \* how far the request of a visit is
    purpose,     \* what it asks for
    seen,        \* the link as it was read at its start: [version, verify]
    token,       \* the invitation token it resolved
    session,     \* the session the browser keeps, a set of at most one
    current,     \* (history) the requests begun under the present configuration
    doubtful,    \* (history) the visits an edit has confused
    spent,       \* (history) the tokens consumed of an address
    barred,      \* (history) addresses taken off the allow list and not let in since
    uncounted,   \* (history) the visits marked as opened whose count failed
    ops, faults

linkVars    == <<version, verify, rules>>
peopleVars  == <<invite, request>>
visitVars   == <<at, purpose, seen, token>>
countVars   == <<count, marked, uncounted>>
vars == <<linkVars, peopleVars, edit, visitVars, session, countVars,
          current, doubtful, spent, barred, ops, faults>>

Rows(r) == Cardinality(r.allow) + Cardinality(r.block)

Guests == {Mailbox[v] : v \in Visits}

Link  == [version : Nat, verify : BOOLEAN]
Token == 0..(MaxOps + 1)

TypeOK ==
    /\ version \in Nat \ {0} /\ verify \in BOOLEAN /\ count \in 0..MaxAccess
    /\ rules \in [allow : SUBSET Emails, block : SUBSET Emails]
    /\ invite \in [Emails -> [status : {"none", "pending", "lapsed", "used", "revoked", "expired"},
                              token : Token]]
    /\ request \in [Emails -> {"none", "pending", "approved", "rejected"}]
    /\ edit \in SUBSET Link /\ Cardinality(edit) <= 1
    /\ at \in [Visits -> {"away", "expire", "consume", "evaluate",
                          "heal", "ask", "record"}]
    /\ purpose \in [Visits -> {"none", "access", "look", "request"}]
    /\ seen \in [Visits -> SUBSET Link]
    /\ token \in [Visits -> Token]
    /\ session \in [Visits -> SUBSET Link]
    /\ marked \in SUBSET Visits /\ uncounted \in SUBSET Visits
    /\ current \in SUBSET Visits /\ doubtful \in SUBSET Visits
    /\ spent \in [Emails -> SUBSET Token]
    /\ barred \in SUBSET Emails
    /\ ops \in 0..MaxOps /\ faults \in 0..MaxFaults

\* A new link with its first rules, or one at which a guest was let in on his
\* request and put out again by revoking his invitation: of the traces that may
\* have left, the approval is the one that matters.
NewLink ==
    /\ version = 1 + Rows(rules)
    /\ invite = [e \in Emails |-> [status |-> "none", token |-> 0]]
    /\ request = [e \in Emails |-> "none"]

UsedLink ==
    \E e \in Guests :
       /\ rules.allow # {} /\ e \notin rules.allow
       /\ version = 1 + Rows(rules) + 2
       /\ invite = [f \in Emails |-> IF f = e THEN [status |-> "revoked", token |-> 1]
                                    ELSE [status |-> "none", token |-> 0]]
       /\ request = [f \in Emails |-> IF f = e THEN "approved" ELSE "none"]

Init ==
    /\ rules \in RuleSets
    /\ NewLink \/ UsedLink
    /\ verify = FALSE /\ count = 0
    /\ edit = {}
    /\ at = [v \in Visits |-> "away"] /\ purpose = [v \in Visits |-> "none"]
    /\ seen = [v \in Visits |-> {}] /\ token = [v \in Visits |-> 0]
    /\ session = [v \in Visits |-> {}]
    /\ marked = {} /\ uncounted = {}
    /\ current = {} /\ doubtful = {} /\ barred = {}
    /\ spent = [e \in Emails |-> {}]
    /\ ops = 0 /\ faults = 0

-----------------------------------------------------------------------------
(* Rules, sessions, and the ways a request moves on.                       *)

\* evaluateAccessRules: block rules first; an allow list shuts out all others.
Matched(e) == e \notin rules.block /\ (rules.allow = {} \/ e \in rules.allow)

Outcome(e) ==
    IF e \in rules.block THEN "blocked"
    ELSE IF Matched(e) THEN "allowed" ELSE "unmatched"

\* A session answers the request while its version is the link's and it proves
\* the e-mail code when the link asks for one.
Open(v) == \E s \in session[v] : s.version = version /\ (verify => s.verify)

Goto(v, label) ==
    /\ at' = [at EXCEPT ![v] = label]
    /\ UNCHANGED <<purpose, seen, token>>

\* The request is answered, and forgets what it read.
Answer(v) ==
    /\ at' = [at EXCEPT ![v] = "away"]
    /\ purpose' = [purpose EXCEPT ![v] = "none"]
    /\ seen' = [seen EXCEPT ![v] = {}]
    /\ token' = [token EXCEPT ![v] = 0]

\* The trigger on link_access_rules counts each row deleted or inserted; every
\* session and request of before is out of date.
WithoutTrigger(bumps) == version
Bumped(bumps) == version + bumps

Reconfigured(bumps) ==
    /\ version' = Bumped(bumps)
    /\ current' = IF bumps = 0 THEN current ELSE {}

AllowRule(e) ==
    /\ rules' = [rules EXCEPT !.allow = @ \cup {e}]
    /\ Reconfigured(Cardinality({e} \ rules.allow))

-----------------------------------------------------------------------------
(* Visitors.                                                               *)

\* A request of the browser: the access form (Handler.Access) without a session
\* that answers; the e-mail check, or a page without a session ("look"); an
\* access request.  What a session answers changes nothing.
Begin(v, p, label, link, tok) ==
    /\ at[v] = "away"
    /\ at' = [at EXCEPT ![v] = label]
    /\ purpose' = [purpose EXCEPT ![v] = p]
    /\ seen' = [seen EXCEPT ![v] = link]
    /\ token' = [token EXCEPT ![v] = tok]
    /\ UNCHANGED <<linkVars, peopleVars, edit, session, countVars, doubtful, spent, barred,
                   ops, faults>>

\* ResolveInviteToken finds the invitation by the token of its last e-mail; an
\* older token finds nothing, and a revoked, expired or used one is refused.
ResolveInviteToken(v, p, link) ==
    LET i == invite[Mailbox[v]] IN
    \/ i.status = "pending" /\ Begin(v, p, "consume", link, i.token)
    \/ i.status = "lapsed"  /\ Begin(v, p, "expire", link, i.token)

Access(v) ==
    /\ ~Open(v)
    /\ count < MaxAccess
    /\ LET link == {[version |-> version, verify |-> verify]} IN
          ResolveInviteToken(v, "access", link) \/ Begin(v, "access", "evaluate", link, 0)
    /\ current' = current \cup {v}

Look(v) ==
    /\ count < MaxAccess
    /\ \/ ~Open(v) /\ ResolveInviteToken(v, "look", {})
       \/ Begin(v, "look", "evaluate", {}, 0)
    /\ UNCHANGED current

RequestAccess(v) ==
    /\ count < MaxAccess
    /\ Begin(v, "request", "evaluate", {}, 0)
    /\ UNCHANGED current

\* The request ends without the visitor being let in.
Refuse(v) ==
    /\ Answer(v)
    /\ current' = current \ {v}

\* UpdateLinkInvitationStatus, by id and whatever the row has become.
MarkExpired(v) ==
    /\ at[v] = "expire"
    /\ invite' = [invite EXCEPT ![Mailbox[v]].status = "expired"]
    /\ Refuse(v)
    /\ UNCHANGED <<linkVars, request, edit, session, countVars,
                   doubtful, spent, barred, ops, faults>>

\* ConsumeLinkInvitation, by id: the row must be pending and not past its time.
AnyInvitation(e) == TRUE
Consumable(e) == invite[e].status = "pending"

ConsumeLinkInvitation(v) ==
    LET e == Mailbox[v] IN
    /\ at[v] = "consume"
    /\ IF Consumable(e)
       THEN /\ invite' = [invite EXCEPT ![e].status = "used"]
            /\ spent' = [spent EXCEPT ![e] = @ \cup {token[v]}]
            /\ at' = [at EXCEPT ![v] = "evaluate"]
            /\ token' = [token EXCEPT ![v] = 0]
            /\ UNCHANGED <<purpose, seen, current>>
       ELSE Refuse(v) /\ UNCHANGED <<invite, spent>>
    /\ UNCHANGED <<linkVars, request, edit, session, countVars,
                   doubtful, barred, ops, faults>>

\* The evaluation comes out as o.
Conclude(v, o) ==
    CASE o = "allowed" /\ purpose[v] = "access" -> Goto(v, "record") /\ UNCHANGED current
      [] o = "unmatched" /\ purpose[v] \in {"access", "look"}
           /\ request[Mailbox[v]] = "approved"  -> Goto(v, "heal") /\ UNCHANGED current
      [] o = "unmatched" /\ purpose[v] = "request" -> Goto(v, "ask") /\ UNCHANGED current
      [] OTHER                                  -> Refuse(v)

Evaluate(v) ==
    /\ at[v] = "evaluate"
    /\ Conclude(v, Outcome(Mailbox[v]))
    /\ UNCHANGED <<linkVars, peopleVars, edit, session, countVars, doubtful, spent, barred, ops,
                   faults>>

\* ensureEmailAllowRule restores the rule of the approved visitor, by what the
\* request said when it was read.
Heal(v) ==
    LET e == Mailbox[v] IN
    /\ at[v] = "heal"
    /\ rules' = [rules EXCEPT !.allow = @ \cup {e}]
    /\ version' = Bumped(Cardinality({e} \ rules.allow))
    /\ barred' = IF request[e] = "approved" THEN barred ELSE barred \ {e}
    /\ IF purpose[v] = "access"
       THEN /\ Goto(v, "record")
            /\ current' = IF e \in rules.allow THEN current ELSE {}
       ELSE /\ Answer(v)
            /\ current' = IF e \in rules.allow THEN current \ {v} ELSE {}
    /\ UNCHANGED <<verify, peopleVars, edit, session, countVars,
                   doubtful, spent, ops, faults>>

\* The rest of RequestAccess: a request that is not pending becomes so.
Ask(v) ==
    /\ at[v] = "ask"
    /\ request' = [request EXCEPT ![Mailbox[v]] = "pending"]
    /\ Answer(v)
    /\ UNCHANGED <<linkVars, invite, edit, session, countVars,
                   current, doubtful, spent, barred, ops, faults>>

\* The visitor is in: a session with the version read at the start.
StampOfNow(v) == {[version |-> version, verify |-> verify]}
Stamp(v) == seen[v]

Enter(v) ==
    /\ session' = [session EXCEPT ![v] = Stamp(v)]
    /\ doubtful' = IF v \in current THEN doubtful \ {v} ELSE doubtful
    /\ current' = current \ {v}
    /\ Answer(v)

\* RecordClassifiedOpen: an open of the last half hour is not counted again; a
\* new one is marked first and then counted if the limit allows it.
AlwaysCounted == TRUE
Countable == count < MaxAccess

RecordOpened(v) ==
    /\ at[v] = "record"
    /\ marked' = marked \cup {v}
    /\ \/ /\ v \in marked
          /\ Enter(v)
          /\ UNCHANGED <<count, uncounted, faults>>
       \/ /\ v \notin marked /\ Countable
          /\ count' = count + 1
          /\ uncounted' = uncounted \ {v}
          /\ Enter(v)
          /\ UNCHANGED faults
       \/ /\ v \notin marked
          /\ \/ ~Countable /\ UNCHANGED faults
             \/ faults < MaxFaults /\ faults' = faults + 1
          /\ uncounted' = uncounted \cup {v}
          /\ Refuse(v)
          /\ UNCHANGED <<count, session, doubtful>>
    /\ UNCHANGED <<linkVars, peopleVars, edit, spent, barred, ops>>

\* The session goes unused for fifteen minutes; the mark of an open is half an
\* hour old.  Only the next request can tell.
SessionExpires(v) ==
    /\ at[v] = "away" /\ session[v] # {}
    /\ session' = [session EXCEPT ![v] = {}]
    /\ UNCHANGED <<linkVars, peopleVars, edit, visitVars, countVars, current,
                   doubtful, spent, barred, ops, faults>>

MarkExpires(v) ==
    /\ at[v] = "away" /\ v \in marked
    /\ marked' = marked \ {v}
    /\ uncounted' = uncounted \ {v}
    /\ faults < MaxFaults /\ faults' = faults + 1
    /\ UNCHANGED <<linkVars, peopleVars, edit, visitVars, session, count, current, doubtful,
                   spent, barred, ops>>

VisitNext(v) ==
    \/ Access(v) \/ Look(v) \/ RequestAccess(v)
    \/ MarkExpired(v) \/ ConsumeLinkInvitation(v)
    \/ Evaluate(v) \/ Heal(v) \/ Ask(v) \/ RecordOpened(v)
    \/ SessionExpires(v) \/ MarkExpires(v)

-----------------------------------------------------------------------------
(* Owners.  Each operation spends one of MaxOps.                           *)

Spend == ops < MaxOps /\ ops' = ops + 1

ownerFrame == <<visitVars, session, countVars, spent>>

\* ResetLinkInvitation or CreateLinkInvitation: a token that was never sent.
Invite(e) == invite' = [invite EXCEPT ![e] = [status |-> "pending", token |-> @.token + 1]]

\* The rules become r; who was on the allow list and no longer is loses his
\* approved request, and who is not on it loses his open invitation.
KeepsApproval(e, removed) == FALSE
LosesApproval(e, removed) == e \in removed /\ request[e] = "approved"

UpdateAccessRules(r) ==
    LET removed == rules.allow \ r.allow IN
    /\ Spend
    /\ rules' = r
    /\ Reconfigured(Rows(rules) + Rows(r))
    /\ request' = [e \in Emails |-> IF LosesApproval(e, removed) THEN "rejected"
                                    ELSE request[e]]
    /\ invite' = [e \in Emails |->
          IF invite[e].status \in {"pending", "lapsed"} /\ e \notin r.allow
          THEN [invite[e] EXCEPT !.status = "revoked"] ELSE invite[e]]
    /\ barred' = IF r.allow = {} THEN {} ELSE (barred \cup removed) \ r.allow
    /\ UNCHANGED <<verify, edit, doubtful, faults, ownerFrame>>

\* InviteViewers needs a link that asks for the address alone.
InviteViewers(e) ==
    /\ Spend
    /\ ~verify
    /\ Invite(e)
    /\ AllowRule(e)
    /\ barred' = barred \ {e}
    /\ UNCHANGED <<verify, request, edit, doubtful, faults, ownerFrame>>

\* RevokeInvitation, which takes the address off the allow list as well or not.
RevokeInvitation(e) ==
    /\ Spend
    /\ invite[e].status # "none"
    /\ invite' = [invite EXCEPT ![e].status = "revoked"]
    /\ \/ UNCHANGED <<rules, version, current, barred>>
       \/ /\ rules' = [rules EXCEPT !.allow = @ \ {e}]
          /\ Reconfigured(Cardinality({e} \cap rules.allow))
          /\ barred' = IF rules.allow \subseteq {e} THEN {} ELSE barred
    /\ UNCHANGED <<verify, request, edit, doubtful, faults, ownerFrame>>

ApproveAccessRequest(e) ==
    /\ Spend
    /\ request[e] = "pending"
    /\ request' = [request EXCEPT ![e] = "approved"]
    /\ Invite(e)
    /\ AllowRule(e)
    /\ barred' = barred \ {e}
    /\ UNCHANGED <<verify, edit, doubtful, faults, ownerFrame>>

RejectAccessRequest(e) ==
    /\ Spend
    /\ request[e] = "pending"
    /\ request' = [request EXCEPT ![e] = "rejected"]
    /\ UNCHANGED <<linkVars, invite, edit, current, doubtful, barred, faults,
                   ownerFrame>>

\* UpdateLink reads the link, and saves it with the version it read, or with the
\* next one if a gate changes.  Rules that changed in between have moved the
\* version on, and the save takes it back.
EditLink ==
    /\ Spend
    /\ edit = {}
    /\ edit' = {[version |-> version, verify |-> verify]}
    /\ UNCHANGED <<linkVars, peopleVars, current, doubtful, barred, faults,
                   ownerFrame>>

SaveLink(existing, asksCode, gateChanges) ==
    /\ verify' = asksCode
    /\ version' = existing.version + (IF gateChanges THEN 1 ELSE 0)
    /\ IF version # existing.version
       THEN /\ doubtful' = {v \in Visits : session[v] # {} \/ seen[v] # {}}
            /\ current' = {}
       ELSE /\ current' = IF gateChanges THEN {} ELSE current
            /\ UNCHANGED doubtful

UpdateLink ==
    /\ \E existing \in edit, asksCode \in BOOLEAN, otherGate \in BOOLEAN :
          SaveLink(existing, asksCode, otherGate \/ asksCode # existing.verify)
    /\ edit' = {}
    /\ UNCHANGED <<rules, peopleVars, barred, ops, faults, ownerFrame>>

OwnerNext ==
    \/ \E r \in RuleSets : UpdateAccessRules(r)
    \/ \E e \in Guests : \/ InviteViewers(e) \/ RevokeInvitation(e)
                         \/ ApproveAccessRequest(e) \/ RejectAccessRequest(e)
    \/ EditLink \/ UpdateLink

\* Seven days pass over an invitation.
InvitationLapses(e) ==
    /\ invite[e].status = "pending"
    /\ invite' = [invite EXCEPT ![e].status = "lapsed"]
    /\ faults < MaxFaults /\ faults' = faults + 1
    /\ UNCHANGED <<linkVars, request, edit, current, doubtful, barred, ops, ownerFrame>>

Next ==
    \/ \E v \in Visits : VisitNext(v)
    \/ OwnerNext
    \/ \E e \in Guests : InvitationLapses(e)

Spec == Init /\ [][Next]_vars

-----------------------------------------------------------------------------
(* Properties.                                                             *)

\* A session that still answers is of somebody whom the rules of now let in,
\* although Handler.Access answers it without looking at a rule: the version it
\* carries must have moved whenever a rule did.  Visits that were under way, or
\* had a session, when an edit took back a change of rules are excepted.
SessionsRespectRules ==
    \A v \in Visits \ doubtful : Open(v) => Matched(Mailbox[v])

\* The sessions implement SessionPolicy: a change of gates or rules closes them
\* all, and who was on his way in meanwhile gets one that is closed already.
Policy == INSTANCE SessionPolicy WITH
    open   <- {v \in Visits : Open(v)},
    asking <- current

SessionsFollowPolicy == Policy!Spec

\* Two requests with one single-use token are not both let through (service.go:
\* "concurrent Access calls cannot both succeed"), as long as the invitation has
\* not been sent anew between the look at the token and its use.
SingleUse ==
    [][\A v \in Visits :
        LET e == Mailbox[v] IN
        (/\ at[v] = "consume" /\ at'[v] = "evaluate"
         /\ token[v] = invite[e].token)
            => token[v] \notin spent[e]]_vars

\* Who has been taken off the allow list stays shut out until an owner lets him
\* in again: no visitor's own request restores his rule, however early it began
\* or whatever had been approved before.  A request that read the approval
\* before it was withdrawn is excepted (see Heal).
RemovedStayOut ==
    \A e \in barred : rules.allow # {} /\ e \notin rules.allow

\* Every open that is marked against counting twice has been counted, and the
\* count respects the link's limit, whichever requests passed the first check of
\* it together.  Opens whose count failed after the mark are excepted.
OpensAreCounted ==
    /\ count <= MaxAccess
    /\ Cardinality(marked \ uncounted) <= count
=============================================================================
