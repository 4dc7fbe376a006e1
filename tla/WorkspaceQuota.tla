---------------------------- MODULE WorkspaceQuota ----------------------------
(***************************************************************************)
(* The seats and links a plan grants a workspace, and the lock that guards *)
(* them (apps/api/internal/workspace, and link for its inventory).         *)
(*                                                                         *)
(* An operation that may take or give back a seat or a live link reads the *)
(* row it is about, decides from what it read whether to claim, to lock or *)
(* neither, and then writes: under the row lock of workspace_billing in a  *)
(* transaction of its own, or straight away.  A link is written over a     *)
(* second connection while the first one holds the lock.  AcceptInvitation *)
(* locks the invitation before it locks the billing row; the operations on *)
(* invitations do it the other way round, and Postgres ends the deadlock.  *)
(*                                                                         *)
(* A request is one handler at a time.  Owner, admin and member are one    *)
(* role, "internal": who may manage whom is left out, and so are the seat  *)
(* of the owner and the rooms a removed member leaves behind.              *)
(***************************************************************************)
EXTENDS Naturals, FiniteSets

CONSTANTS Requests,    \* the requests served at one time
          People,      \* addresses, each the mailbox of one user
          Links,       \* links.id
          Workspaces,  \* where a behaviour may begin: [member, invite, status]
          SeatCaps,    \* the seats of the plans, 0 for no limit
          LinkCap,     \* the live links of the plan, 0 for no limit
          Conns,       \* connections of the pool
          MaxOps,      \* bound on the requests started
          MaxFaults    \* bound on invitations and links lapsing and plans changing

Roles    == {"guest", "internal"}
Statuses == {"none", "active", "revoked", "archived", "expired", "deleted"}

ASSUME ConstantsAssumption ==
    /\ IsFiniteSet(Requests) /\ IsFiniteSet(People) /\ IsFiniteSet(Links)
    /\ Workspaces \subseteq [member : [People -> Roles \cup {"none"}],
                             invite : [People -> Roles \cup {"none"}],
                             status : [Links -> {"none", "active", "revoked"}]]
    /\ SeatCaps \subseteq Nat /\ LinkCap \in Nat /\ Conns \in Nat \ {0}
    /\ MaxOps \in Nat /\ MaxFaults \in Nat

VARIABLES
    member,     \* workspace_members.role of a person, or "none"
    invite,     \* workspace_invitations of an address
    issued,     \* (history) the tokens made for an address
    seatCap,    \* the seats of the plan in workspace_billing
    status,     \* links.status, or "none"
    overdue,    \* the links whose expires_at has passed
    holder,     \* the request that holds the billing row, a set of at most one
    at,         \* how far a request is
    op,         \* what it is to do: do, on whom, to what, by which token, its need
    found,      \* the row it read before any lock
    unchecked,  \* (history) seats and links taken on an outdated or lapsed row
    joined,     \* (history) the invitations accepted: address and token
    ops, faults

peopleVars == <<member, invite, issued>>
linkVars   == <<status, overdue>>
control    == <<holder, at, op, found>>
vars == <<peopleVars, linkVars, seatCap, control, unchecked, joined, ops, faults>>

NoInvite == [status |-> "none", role |-> "none", token |-> 0]
Nothing  == [was |-> "none", lapsed |-> FALSE]
Idle     == [do |-> "none", on |-> "none", to |-> "none", token |-> 0, need |-> "none"]

Init ==
    /\ \E w \in Workspaces :
          /\ member = w.member
          /\ invite = [p \in People |->
                         IF w.invite[p] = "none" THEN NoInvite
                         ELSE [status |-> "pending", role |-> w.invite[p], token |-> 1]]
          /\ status = w.status
    /\ issued = [p \in People |-> 1]
    /\ seatCap \in SeatCaps
    /\ overdue = {} /\ holder = {}
    /\ at = [r \in Requests |-> "idle"]
    /\ op = [r \in Requests |-> Idle] /\ found = [r \in Requests |-> Nothing]
    /\ unchecked = {} /\ joined = {}
    /\ ops = 0 /\ faults = 0

-----------------------------------------------------------------------------
(* What counts, and the lock.                                              *)

\* CountInternalSeatsByWorkspace: internal members, and invitations to become
\* one that are neither used nor expired.
Seats ==
    {<<"member", p>> : p \in {q \in People : member[q] = "internal"}}
    \cup {<<"invite", p>> : p \in {q \in People : /\ invite[q].status = "pending"
                                                  /\ invite[q].role = "internal"}}

\* CountLinksByWorkspace: active links not past due.
Live == {<<"link", l>> : l \in {k \in Links : status[k] = "active" /\ k \notin overdue}}

\* Every variable has its type, the billing row one holder, and what is marked as
\* unchecked still counts.
TypeOK ==
    /\ member \in [People -> Roles \cup {"none"}]
    /\ invite \in [People -> [status : {"none", "pending", "lapsed", "used"},
                              role : Roles \cup {"none"}, token : Nat]]
    /\ issued \in [People -> Nat]
    /\ seatCap \in SeatCaps
    /\ status \in [Links -> Statuses] /\ overdue \in SUBSET Links
    /\ holder \in SUBSET Requests /\ \A r, q \in holder : r = q
    /\ at \in [Requests -> {"idle", "clear", "begin", "row", "lock", "write"}]
    /\ op \in [Requests ->
                 [do : {"none", "resend", "create", "add", "role", "remove", "accept",
                        "inviteRole", "revoke", "newLink", "status", "renew",
                        "extend", "sweep"},
                  on : People \cup Links \cup {"none"}, to : Roles \cup Statuses,
                  token : Nat, need : {"none", "lock", "claim", "fit"}]]
    /\ found \in [Requests -> [was : Roles \cup Statuses, lapsed : BOOLEAN]]
    /\ unchecked \subseteq Seats \cup Live
    /\ joined \in SUBSET (People \X Nat)
    /\ ops \in 0..MaxOps /\ faults \in 0..MaxFaults

\* plan.OverLimit: a limit of 0 is none.
OverLimit(used, more, limit) == limit > 0 /\ used + more > limit

\* What is to be done about the quota when a row that did or did not count
\* will or will not.
LocksOnly(was, will) == IF was # will THEN "lock" ELSE "none"
Need(was, will) ==
    IF will /\ ~was THEN "claim" ELSE IF was /\ ~will THEN "lock" ELSE "none"

\* linkStatusCountsTowardQuota.
CountsArchived(linkStatus) == linkStatus \in {"active", "archived"}
Counts(linkStatus) == linkStatus = "active"

LinkOps == {"newLink", "status", "renew", "extend", "sweep"}

\* A transaction keeps its connection; it stays for a link too, whose write
\* takes another.
InTransaction == {r \in Requests : \/ at[r] \in {"row", "lock"}
                                  \/ (at[r] = "write" /\ op[r].need # "none")}
Free == Conns - Cardinality(InTransaction)

\* An AcceptInvitation past its first read has the row of the invitation.
Accepting(r) == op[r].do = "accept" /\ at[r] \in {"lock", "write"}
ReadsUnlocked(r) == TRUE
RowFree(r) == \A q \in Requests \ {r} : Accepting(q) => op[q].on # op[r].on

Goto(r, label) == at' = [at EXCEPT ![r] = label] /\ UNCHANGED <<op, found>>

\* The request is over, committed or rolled back, with its locks.
LeaveOpen(r) ==
    /\ at' = [at EXCEPT ![r] = "idle"]
    /\ op' = [op EXCEPT ![r] = Idle] /\ found' = [found EXCEPT ![r] = Nothing]
    /\ UNCHANGED holder

Leave(r) ==
    /\ at' = [at EXCEPT ![r] = "idle"]
    /\ op' = [op EXCEPT ![r] = Idle] /\ found' = [found EXCEPT ![r] = Nothing]
    /\ holder' = holder \ {r}

Blame(taken) == unchecked' = (unchecked \cup taken) \cap (Seats' \cup Live')

NoRows == UNCHANGED <<peopleVars, linkVars, unchecked, joined>>

-----------------------------------------------------------------------------
(* The handlers up to their write: what they read, and what they decide.   *)
(* A handler that refuses at once changes nothing and is left out.         *)

Invited(p) == invite[p].status \in {"pending", "lapsed"}

\* Reading takes a connection for a moment.
Start(r, label, o, was, lapsed) ==
    /\ at[r] = "idle" /\ ops < MaxOps /\ Free > 0
    /\ at' = [at EXCEPT ![r] = label]
    /\ op' = [op EXCEPT ![r] = o]
    /\ found' = [found EXCEPT ![r] = [was |-> was, lapsed |-> lapsed]]
    /\ ops' = ops + 1
    /\ NoRows /\ UNCHANGED <<seatCap, holder, faults>>

Decided(r, o, was, lapsed) ==
    Start(r, IF o.need = "none" THEN "write" ELSE "begin", o, was, lapsed)

Seat(role) == role = "internal"

\* A resend claims the seat a guest's invitation did not hold; it gives one
\* back, or revives one that lapsed, without the lock.
ResendNeed(was, role) ==
    IF Need(Seat(was), Seat(role)) = "claim" THEN "claim" ELSE "none"

CreateInvitation(r, p, role) ==
    /\ member[p] = "none"
    /\ \/ /\ Invited(p)
          /\ Decided(r, [do |-> "resend", on |-> p, to |-> role, token |-> 0,
                         need |-> ResendNeed(invite[p].role, role)],
                     invite[p].role, invite[p].status = "lapsed")
       \/ /\ ~Invited(p)
          /\ LET o == [do |-> "create", on |-> p, to |-> role, token |-> 0,
                       need |-> Need(FALSE, Seat(role))]
             IN IF invite[p].status = "used" THEN Start(r, "clear", o, "none", FALSE)
                ELSE Decided(r, o, "none", FALSE)

\* The used invitation of someone who is no member is deleted first.
ClearUsed(r) ==
    /\ at[r] = "clear" /\ Free > 0 /\ RowFree(r)
    /\ invite' = [invite EXCEPT ![op[r].on] = NoInvite]
    /\ Goto(r, IF op[r].need = "none" THEN "write" ELSE "begin")
    /\ UNCHANGED <<member, issued, linkVars, joined, seatCap, holder, ops, faults>>
    /\ Blame({})

AddMember(r, p, role) ==
    /\ member[p] = "none"
    /\ Decided(r, [do |-> "add", on |-> p, to |-> role, token |-> 0,
                   need |-> Need(FALSE, Seat(role))], "none", FALSE)

UpdateMemberRole(r, p, role) ==
    /\ member[p] # "none"
    /\ Decided(r, [do |-> "role", on |-> p, to |-> role, token |-> 0,
                   need |-> Need(Seat(member[p]), Seat(role))], member[p], FALSE)

RemoveMember(r, p) ==
    /\ member[p] # "none"
    /\ Decided(r, [do |-> "remove", on |-> p, to |-> "none", token |-> 0,
                   need |-> Need(Seat(member[p]), FALSE)], member[p], FALSE)

\* pendingInvitationInWorkspace asks that the invitation is unused, not that it
\* is still good.
UpdateInvitationRole(r, p, role) ==
    /\ Invited(p)
    /\ Decided(r, [do |-> "inviteRole", on |-> p, to |-> role, token |-> invite[p].token,
                   need |-> Need(Seat(invite[p].role), Seat(role))],
               invite[p].role, invite[p].status = "lapsed")

RevokeInvitation(r, p) ==
    /\ Invited(p)
    /\ Decided(r, [do |-> "revoke", on |-> p, to |-> "none", token |-> invite[p].token,
                   need |-> Need(Seat(invite[p].role), FALSE)], invite[p].role, FALSE)

\* Whoever follows the link of the last mail; what it shows is read later.
AcceptInvitation(r, p) ==
    /\ invite[p].status # "none"
    /\ Start(r, "begin", [do |-> "accept", on |-> p, to |-> "none",
                          token |-> invite[p].token, need |-> "fit"], "none", FALSE)

LinkOp(do, l, to, need) == [do |-> do, on |-> l, to |-> to, token |-> 0, need |-> need]

CreateLink(r, l) ==
    /\ status[l] = "none"
    /\ Decided(r, LinkOp("newLink", l, "active", "claim"), "none", FALSE)

\* UpdateStatus, of any link but one that has the status, a deleted one too;
\* ArchiveLink and Delete.
SetStatus(r, l, to) ==
    /\ status[l] \notin {"none", to}
    /\ \/ to \in {"active", "revoked"}
       \/ (to = "archived" /\ status[l] # "deleted")
       \/ to = "deleted"
    /\ Decided(r, LinkOp("status", l, to, Need(Counts(status[l]), Counts(to))),
               status[l], FALSE)

RenewLink(r, l) ==
    /\ status[l] \in {"archived", "expired"}
    /\ Decided(r, LinkOp("renew", l, "active", "claim"), status[l], FALSE)

\* UpdateLink with an expires_at to come, of a link past due.
UpdateLink(r, l) ==
    /\ status[l] \notin {"none", "deleted"} /\ l \in overdue
    /\ Decided(r, LinkOp("extend", l, "none", "none"), status[l], FALSE)

ExpirePastDueLinks(r) ==
    /\ \E l \in overdue : status[l] = "active"
    /\ Decided(r, LinkOp("sweep", "none", "expired", "lock"), "none", FALSE)

-----------------------------------------------------------------------------
(* The transaction, and the writes.                                        *)

Begin(r) ==
    /\ at[r] = "begin" /\ Free > 0
    /\ Goto(r, IF op[r].do = "accept" THEN "row" ELSE "lock")
    /\ NoRows /\ UNCHANGED <<seatCap, holder, ops, faults>>

\* GetInvitationByTokenForUpdate; what the row forbids ends it, and a member's
\* invitation is only marked.
LockInvitation(r) ==
    LET p == op[r].on IN
    /\ at[r] = "row" /\ RowFree(r)
    /\ LET good == invite[p].token = op[r].token /\ invite[p].status \in {"pending", "used"}
       IN /\ invite' = IF good /\ member[p] # "none"
                       THEN [invite EXCEPT ![p].status = "used"] ELSE invite
          /\ IF good /\ member[p] = "none" /\ invite[p].status = "pending"
             THEN Goto(r, "lock") /\ UNCHANGED holder
             ELSE Leave(r)
    /\ UNCHANGED <<member, issued, linkVars, joined, seatCap, ops, faults>>
    /\ Blame({})

\* AcceptInvitation's check: the seat is reserved, so it only asks that the
\* workspace has no more than the plan grants.
Reserved(p) == TRUE
Acceptable(p) == Seat(invite[p].role) => ~OverLimit(Cardinality(Seats), 0, seatCap)

Allowed(r) ==
    /\ op[r].need = "fit" => Acceptable(op[r].on)
    /\ op[r].need = "claim" => IF op[r].do \in LinkOps
                               THEN ~OverLimit(Cardinality(Live), 1, LinkCap)
                               ELSE ~OverLimit(Cardinality(Seats), 1, seatCap)

\* lockWorkspaceBillingSeatQuota, and the count that a claim makes next.
WithoutForUpdate == TRUE
BillingFree == holder = {}

LockBilling(r) ==
    /\ at[r] = "lock" /\ BillingFree
    /\ IF Allowed(r) THEN Goto(r, "write") /\ holder' = holder \cup {r} ELSE Leave(r)
    /\ NoRows /\ UNCHANGED <<seatCap, ops, faults>>

\* What is not written in the transaction needs a connection of its own.
WritingInTurn(r, do) ==
    /\ at[r] = "write" /\ op[r].do = do
    /\ (op[r].need = "none" \/ do \in LinkOps) => Free > 0
    /\ holder \subseteq {r}
    /\ Leave(r) /\ UNCHANGED <<seatCap, ops, faults>>

Writing(r, do) ==
    /\ at[r] = "write" /\ op[r].do = do
    /\ (op[r].need = "none" \/ do \in LinkOps) => Free > 0
    /\ Leave(r) /\ UNCHANGED <<seatCap, ops, faults>>

\* The write takes a seat that was not claimed, because the row is no longer as
\* it was read or because the invitation had lapsed.
Outdated(r, role, lapsed) ==
    op[r].need # "claim" /\ (found[r].lapsed \/ lapsed \/ found[r].was # role)

SaveMember(r) ==
    \E do \in {"add", "role", "remove"} :
       LET p == op[r].on IN
       /\ Writing(r, do)
       /\ member' = IF (do = "add") = (member[p] = "none")
                    THEN [member EXCEPT ![p] = op[r].to] ELSE member
       /\ UNCHANGED <<invite, issued, linkVars, joined>>
       /\ Blame(IF Outdated(r, member[p], FALSE) THEN {<<"member", p>>} ELSE {})

SetInvite(p, row) == invite' = [invite EXCEPT ![p] = row]

\* A fresh token, unless the row is there (create: the unique index refuses it
\* without waiting) or gone or used (resend).
SaveInvitation(r) ==
    \E do \in {"create", "resend"} :
       LET p == op[r].on
           ok == IF do = "create" THEN invite[p].status = "none" ELSE Invited(p)
       IN
       /\ Writing(r, do) /\ (do = "resend" => RowFree(r))
       /\ IF ok THEN /\ issued' = [issued EXCEPT ![p] = @ + 1]
                     /\ SetInvite(p, [status |-> "pending", role |-> op[r].to,
                                      token |-> issued[p] + 1])
          ELSE UNCHANGED <<issued, invite>>
       /\ UNCHANGED <<member, linkVars, joined>>
       /\ Blame(IF Outdated(r, invite[p].role, invite[p].status = "lapsed")
                THEN {<<"invite", p>>} ELSE {})

\* UpdatePendingWorkspaceInvitationRole and DeletePendingWorkspaceInvitation:
\* by token, of an unused row; a revoke that finds none is answered alike.
SaveByToken(r) ==
    \E do \in {"inviteRole", "revoke"} :
       LET p == op[r].on IN
       /\ Writing(r, do) /\ RowFree(r)
       /\ IF Invited(p) /\ invite[p].token = op[r].token
          THEN SetInvite(p, IF do = "revoke" THEN NoInvite
                            ELSE [invite[p] EXCEPT !.role = op[r].to])
          ELSE UNCHANGED invite
       /\ UNCHANGED <<member, issued, linkVars, joined>>
       /\ Blame(IF Outdated(r, invite[p].role, FALSE) THEN {<<"invite", p>>} ELSE {})

\* AddWorkspaceMember and MarkInvitationUsed.  Someone else has added the user
\* meanwhile: the insert fails, and Postgres refuses the fallback's read in the
\* failed transaction, so that all of it is rolled back.
Join(r) ==
    LET p == op[r].on IN
    /\ Writing(r, "accept")
    /\ IF member[p] = "none"
       THEN /\ member' = [member EXCEPT ![p] = invite[p].role]
            /\ SetInvite(p, [invite[p] EXCEPT !.status = "used"])
            /\ joined' = joined \cup {<<p, invite[p].token>>}
       ELSE UNCHANGED <<member, invite, joined>>
    /\ UNCHANGED <<issued, linkVars>>
    /\ Blame(IF invite[p].status = "lapsed" \/ <<"invite", p>> \in unchecked
             THEN {<<"member", p>>} ELSE {})

\* UpdateLinkStatus asks for no status the row should have; UpdateLinkFull of a
\* link that is extended leaves it.
SaveLink(r) ==
    LET l == op[r].on IN
    /\ UNCHANGED <<peopleVars, joined>>
    /\ \/ /\ \E do \in {"newLink", "renew", "status"} : Writing(r, do)
          /\ status' = [status EXCEPT ![l] = op[r].to]
          /\ overdue' = IF op[r].do = "status" THEN overdue ELSE overdue \ {l}
          /\ Blame({})
       \/ /\ Writing(r, "extend")
          /\ overdue' = overdue \ {l} /\ UNCHANGED status
          /\ Blame(IF l \in overdue THEN {<<"link", l>>} ELSE {})
       \/ /\ Writing(r, "sweep")
          /\ status' = [k \in Links |-> IF k \in overdue /\ status[k] = "active"
                                        THEN "expired" ELSE status[k]]
          /\ UNCHANGED overdue
          /\ Blame({})

-----------------------------------------------------------------------------
(* Deadlocks, clients that leave, time, and the plan.                      *)

\* An AcceptInvitation waits for the billing row while its holder waits for the
\* invitation: Postgres rolls one of them back.
Deadlocked(r, q) ==
    /\ Accepting(r) /\ at[r] = "lock" /\ q \in holder
    /\ op[q].do \in {"resend", "inviteRole", "revoke"} /\ op[q].on = op[r].on

BreakDeadlock(r) ==
    /\ \E q \in Requests : Deadlocked(r, q) \/ Deadlocked(q, r)
    /\ Leave(r)
    /\ NoRows /\ UNCHANGED <<seatCap, ops, faults>>

\* The client goes away while its request waits.
GiveUp(r) ==
    /\ \/ at[r] \in {"begin", "row", "lock"}
       \/ (at[r] = "write" /\ op[r].do \in LinkOps)
    /\ Leave(r)
    /\ NoRows /\ UNCHANGED <<seatCap, ops, faults>>

Fault == faults < MaxFaults /\ faults' = faults + 1

LapseInvitation(p) ==
    /\ Fault /\ invite[p].status = "pending"
    /\ invite' = [invite EXCEPT ![p].status = "lapsed"]
    /\ UNCHANGED <<member, issued, linkVars, seatCap, control, joined, ops>>
    /\ Blame({})

LapseLink(l) ==
    /\ Fault /\ status[l] = "active" /\ l \notin overdue
    /\ overdue' = overdue \cup {l}
    /\ UNCHANGED <<peopleVars, status, seatCap, control, joined, ops>>
    /\ Blame({})

\* The Stripe webhook writes the row the lock is on.
ChangePlan ==
    /\ Fault /\ holder = {}
    /\ seatCap' \in SeatCaps \ {seatCap}
    /\ NoRows /\ UNCHANGED <<control, ops>>

Submit(r) ==
    \/ \E p \in People :
          \/ \E role \in Roles : \/ CreateInvitation(r, p, role)
                                \/ AddMember(r, p, role)
                                \/ UpdateMemberRole(r, p, role)
                                \/ UpdateInvitationRole(r, p, role)
          \/ RemoveMember(r, p) \/ RevokeInvitation(r, p) \/ AcceptInvitation(r, p)
    \/ \E l \in Links :
          \/ CreateLink(r, l) \/ RenewLink(r, l) \/ UpdateLink(r, l)
          \/ \E to \in {"active", "revoked", "archived", "deleted"} : SetStatus(r, l, to)
    \/ ExpirePastDueLinks(r)

\* What a request does by itself, and Postgres for it.
Proceed(r) ==
    \/ ClearUsed(r) \/ Begin(r) \/ LockInvitation(r) \/ LockBilling(r)
    \/ SaveMember(r) \/ SaveInvitation(r) \/ SaveByToken(r) \/ Join(r) \/ SaveLink(r)
    \/ BreakDeadlock(r)

Next ==
    \/ \E r \in Requests : Submit(r) \/ Proceed(r) \/ GiveUp(r)
    \/ \E p \in People : LapseInvitation(p)
    \/ \E l \in Links : LapseLink(l)
    \/ ChangePlan

Spec == Init /\ [][Next]_vars

-----------------------------------------------------------------------------
(* Properties.                                                             *)

Exceeds(used, limit) == OverLimit(Cardinality(used), 0, limit)

\* Seats taken under the lock never come to more than the plan grants at that
\* moment: "cannot TOCTOU-oversubscribe".  What an outdated read or a lapsed
\* invitation lets through is counted against the others, not for them.
SeatsRise ==
    [][ Cardinality((Seats \ unchecked)') > Cardinality(Seats \ unchecked)
          => ~Exceeds((Seats \ unchecked)', seatCap') ]_vars

\* The same of links: no creation, renewal or change of status, whatever else is
\* under way, makes more links live than the plan grants.
LinksRise ==
    [][ Cardinality((Live \ unchecked)') > Cardinality(Live \ unchecked)
          => ~Exceeds((Live \ unchecked)', LinkCap) ]_vars

\* After a downgrade nobody becomes an internal member until seats were freed,
\* by an invitation that had reserved one either.
JoinsFit ==
    [][ \A p \in People :
          member[p] # "internal" /\ member'[p] = "internal" /\ Seats' \cap unchecked' = {}
             => ~Exceeds(Seats', seatCap') ]_vars

\* An invitation makes a member once: two accepts of one token, with the member
\* removed in between, do not bring him back.
JoinsOnce ==
    [][ \A r \in Requests :
          op[r].do = "accept" /\ at[r] = "write" /\ at'[r] = "idle" /\ member' # member
             => <<op[r].on, op[r].token>> \notin joined ]_vars

\* What a request at work may wait for: a connection, the row of the invitation,
\* the billing row.  Who is part of a deadlock waits no longer.
AtWork == {r \in Requests : at[r] # "idle"}

WaitsForPool(r) ==
    /\ \/ at[r] \in {"clear", "begin"}
       \/ at[r] = "write" /\ (op[r].need = "none" \/ op[r].do \in LinkOps)
    /\ Free = 0

WaitsForRow(r) ==
    /\ \/ at[r] \in {"clear", "row"}
       \/ at[r] = "write" /\ op[r].do \in {"resend", "inviteRole", "revoke"}
    /\ ~RowFree(r)

WaitsForBilling(r) == at[r] = "lock" /\ ~BillingFree

Waits(r) ==
    /\ WaitsForPool(r) \/ WaitsForRow(r) \/ WaitsForBilling(r)
    /\ \A q \in Requests : ~Deadlocked(r, q) /\ ~Deadlocked(q, r)

\* Nothing else stops a request: one that does not wait can take its next step.
OnlyWaitsStop == \A r \in AtWork : Waits(r) \/ ENABLED Proceed(r)

\* Not everybody waits, unless the holder of the billing row waits for a second
\* connection and the others, waiting for the row, have them all.
OnlyThePoolBlocks ==
    AtWork # {} /\ (\A r \in AtWork : Waits(r))
       => /\ Free = 0
          /\ \E r \in holder : op[r].do \in LinkOps
=============================================================================
