------------------------- MODULE WorkspaceQuota_proofs -------------------------
(***************************************************************************)
(* Proofs about WorkspaceQuota for every number of requests, people, links *)
(* and connections, every plan, and any number of operations and faults.   *)
(***************************************************************************)
EXTENDS WorkspaceQuota, FiniteSetTheorems, TLAPS

Labels == {"idle", "clear", "begin", "row", "lock", "write"}

Ops == [do : {"none", "resend", "create", "add", "role", "remove", "accept",
              "inviteRole", "revoke", "newLink", "status", "renew", "extend", "sweep"},
        on : People \cup Links \cup {"none"}, to : Roles \cup Statuses,
        token : Nat, need : {"none", "lock", "claim", "fit"}]

Finds == [was : Roles \cup Statuses, lapsed : BOOLEAN]

\* What a handler decides from what it read.
Fits(o, f) ==
    /\ o.do \in {"add", "role", "remove", "inviteRole", "revoke", "create", "resend", "accept"}
         => o.on \in People
    /\ o.do \in {"add", "role", "inviteRole", "create", "resend"} => o.to \in Roles
    /\ o.do \in {"remove", "revoke"} => o.to = "none"
    /\ o.do \in {"add", "role", "remove", "inviteRole", "revoke"}
         => o.need = Need(Seat(f.was), Seat(o.to))
    /\ o.do = "create" => o.need = Need(FALSE, Seat(o.to))
    /\ o.do = "resend" => o.need = ResendNeed(f.was, o.to)
    /\ o.do = "accept" <=> o.need = "fit"
    /\ o.do \in {"newLink", "status", "renew"}
         => o.on \in Links /\ o.to \in Statuses /\ (o.to = "active" => o.need = "claim")
    /\ o.do = "extend" => o.on \in Links /\ o.need = "none"
    /\ o.do = "sweep" => o.need = "lock"

\* Where a request with that decision may be.
Placed(r) ==
    /\ at[r] = "idle" => op[r].do = "none"
    /\ at[r] = "clear" => op[r].do = "create"
    /\ at[r] = "row" => op[r].do = "accept"
    /\ at[r] \in {"begin", "row", "lock"} => op[r].need # "none"
    /\ r \in holder <=> at[r] = "write" /\ op[r].need # "none"

Decisions == \A r \in Requests : Fits(op[r], found[r]) /\ Placed(r)

-----------------------------------------------------------------------------
(* Every handler begins in the same way.                                   *)

LEMMA SubmitStarts ==
    ASSUME TypeOK, NEW r \in Requests, Submit(r)
    PROVE  \E o \in Ops, f \in Finds, label \in {"clear", "begin", "write"} :
              /\ Start(r, label, o, f.was, f.lapsed)
              /\ Fits(o, f) /\ o.do # "none"
              /\ label = "clear" => o.do = "create"
              /\ label = "write" <=> o.need = "none" /\ label # "clear"
<1> DEFINE Good(o, f, label) ==
              /\ o \in Ops /\ f \in Finds /\ label \in {"clear", "begin", "write"}
              /\ Start(r, label, o, f.was, f.lapsed)
              /\ Fits(o, f) /\ o.do # "none"
              /\ label = "clear" => o.do = "create"
              /\ label = "write" <=> o.need = "none" /\ label # "clear"
<1>1. SUFFICES \E o, f, label : Good(o, f, label)
  OBVIOUS
<1>2. ASSUME NEW o \in Ops, NEW was \in Roles \cup Statuses, NEW lapsed \in BOOLEAN,
             Decided(r, o, was, lapsed), Fits(o, [was |-> was, lapsed |-> lapsed]),
             o.do # "none"
      PROVE  \E oo, f, label : Good(oo, f, label)
  <2> DEFINE f == [was |-> was, lapsed |-> lapsed]
             label == IF o.need = "none" THEN "write" ELSE "begin"
  <2>1. f \in Finds /\ f.was = was /\ f.lapsed = lapsed
    BY DEF Finds
  <2>2. Good(o, f, label)
    BY <1>2, <2>1 DEF Decided
  <2> QED BY <2>2
<1>3. CASE \E p \in People : AcceptInvitation(r, p)
  <2> PICK p \in People : AcceptInvitation(r, p)
    BY <1>3
  <2> DEFINE o == [do |-> "accept", on |-> p, to |-> "none",
                   token |-> invite[p].token, need |-> "fit"]
             f == [was |-> "none", lapsed |-> FALSE]
  <2>1. o \in Ops /\ f \in Finds
    BY DEF TypeOK, Ops, Finds, Statuses
  <2>2. Fits(o, f)
    BY DEF Fits
  <2>3. Good(o, f, "begin")
    BY <2>1, <2>2 DEF AcceptInvitation
  <2> QED BY <2>3
<1>4. CASE \E p \in People, role \in Roles : CreateInvitation(r, p, role)
  <2> PICK p \in People, role \in Roles : CreateInvitation(r, p, role)
    BY <1>4
  <2>1. CASE Invited(p)
    <3> DEFINE o == [do |-> "resend", on |-> p, to |-> role, token |-> 0,
                     need |-> ResendNeed(invite[p].role, role)]
    <3>1. o \in Ops /\ invite[p].role \in Roles \cup Statuses
      BY DEF TypeOK, Ops, Statuses, ResendNeed, Need
    <3>2. Fits(o, [was |-> invite[p].role, lapsed |-> invite[p].status = "lapsed"])
      BY DEF Fits, Roles, ResendNeed
    <3> QED BY <1>2, <2>1, <3>1, <3>2 DEF CreateInvitation
  <2>2. CASE ~Invited(p)
    <3> DEFINE o == [do |-> "create", on |-> p, to |-> role, token |-> 0,
                     need |-> Need(FALSE, Seat(role))]
               f == [was |-> "none", lapsed |-> FALSE]
    <3>1. o \in Ops /\ f \in Finds /\ "none" \in Roles \cup Statuses
      BY DEF Ops, Finds, Statuses, Need
    <3>2. Fits(o, f)
      BY DEF Fits, Need
    <3>3. CASE invite[p].status = "used"
      <4>1. Good(o, f, "clear")
        BY <2>2, <3>1, <3>2, <3>3 DEF CreateInvitation
      <4> QED BY <4>1
    <3>4. CASE invite[p].status # "used"
      BY <1>2, <2>2, <3>1, <3>2, <3>4 DEF CreateInvitation
    <3> QED BY <3>3, <3>4
  <2> QED BY <2>1, <2>2
<1>5. CASE \E p \in People, role \in Roles : AddMember(r, p, role)
  <2> PICK p \in People, role \in Roles : AddMember(r, p, role)
    BY <1>5
  <2> DEFINE o == [do |-> "add", on |-> p, to |-> role, token |-> 0,
                   need |-> Need(FALSE, Seat(role))]
  <2>1. o \in Ops /\ "none" \in Roles \cup Statuses
    BY DEF Ops, Statuses, Need
  <2>2. Fits(o, [was |-> "none", lapsed |-> FALSE])
    BY DEF Fits, Need, Seat
  <2> QED BY <1>2, <2>1, <2>2 DEF AddMember
<1>6. CASE \E p \in People, role \in Roles : UpdateMemberRole(r, p, role)
  <2> PICK p \in People, role \in Roles : UpdateMemberRole(r, p, role)
    BY <1>6
  <2> DEFINE o == [do |-> "role", on |-> p, to |-> role, token |-> 0,
                   need |-> Need(Seat(member[p]), Seat(role))]
  <2>1. o \in Ops /\ member[p] \in Roles \cup Statuses
    BY DEF TypeOK, Ops, Statuses, Need
  <2>2. Fits(o, [was |-> member[p], lapsed |-> FALSE])
    BY DEF Fits, Need
  <2> QED BY <1>2, <2>1, <2>2 DEF UpdateMemberRole
<1>7. CASE \E p \in People, role \in Roles : UpdateInvitationRole(r, p, role)
  <2> PICK p \in People, role \in Roles : UpdateInvitationRole(r, p, role)
    BY <1>7
  <2> DEFINE o == [do |-> "inviteRole", on |-> p, to |-> role, token |-> invite[p].token,
                   need |-> Need(Seat(invite[p].role), Seat(role))]
  <2>1. o \in Ops /\ invite[p].role \in Roles \cup Statuses
    BY DEF TypeOK, Ops, Statuses, Need
  <2>2. Fits(o, [was |-> invite[p].role, lapsed |-> invite[p].status = "lapsed"])
    BY DEF Fits, Need
  <2> QED BY <1>2, <2>1, <2>2 DEF UpdateInvitationRole
<1>8. CASE \E p \in People : RemoveMember(r, p)
  <2> PICK p \in People : RemoveMember(r, p)
    BY <1>8
  <2> DEFINE o == [do |-> "remove", on |-> p, to |-> "none", token |-> 0,
                   need |-> Need(Seat(member[p]), FALSE)]
  <2>1. o \in Ops /\ member[p] \in Roles \cup Statuses
    BY DEF TypeOK, Ops, Statuses, Need
  <2>2. Fits(o, [was |-> member[p], lapsed |-> FALSE])
    BY DEF Fits, Need, Seat
  <2> QED BY <1>2, <2>1, <2>2 DEF RemoveMember
<1>9. CASE \E p \in People : RevokeInvitation(r, p)
  <2> PICK p \in People : RevokeInvitation(r, p)
    BY <1>9
  <2> DEFINE o == [do |-> "revoke", on |-> p, to |-> "none", token |-> invite[p].token,
                   need |-> Need(Seat(invite[p].role), FALSE)]
  <2>1. o \in Ops /\ invite[p].role \in Roles \cup Statuses
    BY DEF TypeOK, Ops, Statuses, Need
  <2>2. Fits(o, [was |-> invite[p].role, lapsed |-> FALSE])
    BY DEF Fits, Need, Seat
  <2> QED BY <1>2, <2>1, <2>2 DEF RevokeInvitation
<1>10. CASE \E l \in Links : \/ CreateLink(r, l) \/ RenewLink(r, l) \/ UpdateLink(r, l)
                             \/ \E to \in {"active", "revoked", "archived", "deleted"} :
                                   SetStatus(r, l, to)
  <2> PICK l \in Links : \/ CreateLink(r, l) \/ RenewLink(r, l) \/ UpdateLink(r, l)
                         \/ \E to \in {"active", "revoked", "archived", "deleted"} :
                               SetStatus(r, l, to)
    BY <1>10
  <2>1. status[l] \in Roles \cup Statuses /\ "none" \in Roles \cup Statuses
    BY DEF TypeOK, Statuses
  <2>2. ASSUME NEW do \in {"newLink", "renew"}, NEW was \in Roles \cup Statuses,
               Decided(r, LinkOp(do, l, "active", "claim"), was, FALSE)
        PROVE  \E o, f, label : Good(o, f, label)
    <3>1. LinkOp(do, l, "active", "claim") \in Ops
      BY DEF LinkOp, Ops, Statuses
    <3>2. Fits(LinkOp(do, l, "active", "claim"), [was |-> was, lapsed |-> FALSE])
      BY DEF LinkOp, Fits, Statuses
    <3>3. LinkOp(do, l, "active", "claim").do # "none"
      BY DEF LinkOp
    <3> QED BY <1>2, <2>2, <3>1, <3>2, <3>3
  <2>3. CASE CreateLink(r, l)
    BY <2>1, <2>2, <2>3 DEF CreateLink
  <2>4. CASE RenewLink(r, l)
    BY <2>1, <2>2, <2>4 DEF RenewLink
  <2>5. CASE UpdateLink(r, l)
    <3>1. LinkOp("extend", l, "none", "none") \in Ops
      BY DEF LinkOp, Ops, Statuses
    <3>2. Fits(LinkOp("extend", l, "none", "none"), [was |-> status[l], lapsed |-> FALSE])
      BY DEF LinkOp, Fits, Statuses
    <3>3. LinkOp("extend", l, "none", "none").do # "none"
      BY DEF LinkOp
    <3> QED BY <1>2, <2>1, <2>5, <3>1, <3>2, <3>3 DEF UpdateLink
  <2>6. CASE \E to \in {"active", "revoked", "archived", "deleted"} : SetStatus(r, l, to)
    <3> PICK to \in {"active", "revoked", "archived", "deleted"} : SetStatus(r, l, to)
      BY <2>6
    <3> DEFINE o == LinkOp("status", l, to, Need(Counts(status[l]), Counts(to)))
    <3>1. o \in Ops
      BY DEF LinkOp, Ops, Statuses, Need
    <3>2. Fits(o, [was |-> status[l], lapsed |-> FALSE])
      BY DEF LinkOp, Fits, Statuses, SetStatus, Need, Counts
    <3>3. o.do # "none"
      BY DEF LinkOp
    <3> QED BY <1>2, <2>1, <3>1, <3>2, <3>3 DEF SetStatus
  <2> QED BY <2>3, <2>4, <2>5, <2>6
<1>11. CASE ExpirePastDueLinks(r)
  <2> DEFINE o == LinkOp("sweep", "none", "expired", "lock")
  <2>1. o \in Ops /\ "none" \in Roles \cup Statuses
    BY DEF LinkOp, Ops, Statuses
  <2>2. Fits(o, [was |-> "none", lapsed |-> FALSE])
    BY DEF LinkOp, Fits, Statuses
  <2>3. o.do # "none"
    BY DEF LinkOp
  <2> QED BY <1>2, <1>11, <2>1, <2>2, <2>3 DEF ExpirePastDueLinks
<1> QED BY <1>3, <1>4, <1>5, <1>6, <1>7, <1>8, <1>9, <1>10, <1>11 DEF Submit

-----------------------------------------------------------------------------
(* Types, and what a request at work still has of its decision.            *)

Inv == TypeOK /\ Decisions

LEMMA InvInit == Init => Inv
<1> SUFFICES ASSUME Init PROVE Inv
  OBVIOUS
<1> PICK w \in Workspaces :
      /\ member = w.member
      /\ invite = [p \in People |->
                     IF w.invite[p] = "none" THEN NoInvite
                     ELSE [status |-> "pending", role |-> w.invite[p], token |-> 1]]
      /\ status = w.status
  BY DEF Init
<1>1. /\ w.member \in [People -> Roles \cup {"none"}]
      /\ w.invite \in [People -> Roles \cup {"none"}]
      /\ w.status \in [Links -> Statuses]
  BY ConstantsAssumption DEF Statuses
<1>2. invite \in [People -> [status : {"none", "pending", "lapsed", "used"},
                            role : Roles \cup {"none"}, token : Nat]]
  BY <1>1 DEF NoInvite
<1>3. Idle \in Ops /\ Nothing \in Finds
  BY DEF Idle, Nothing, Ops, Finds, Statuses
<1>4. TypeOK
  BY <1>1, <1>2, <1>3, ConstantsAssumption DEF Init, TypeOK, Ops, Finds
<1>5. Fits(Idle, Nothing) /\ Idle.do = "none"
  BY DEF Fits, Idle, Nothing
<1>6. Decisions
  BY <1>5 DEF Init, Decisions, Placed
<1> QED BY <1>4, <1>6 DEF Inv

\* The two ways a request moves: on to another label, and out.
LEMMA MovesOn ==
    ASSUME Inv, NEW r \in Requests, NEW label \in Labels, Goto(r, label), UNCHANGED holder,
           label # "idle", label = "clear" => at[r] = "clear",
           at[r] # "idle", r \notin holder,
           label = "row" => op[r].do = "accept",
           label = "write" <=> op[r].need = "none"
    PROVE  /\ at' \in [Requests -> Labels] /\ op' \in [Requests -> Ops]
           /\ found' \in [Requests -> Finds] /\ Decisions'
  BY DEF Inv, TypeOK, Decisions, Placed, Goto, Labels, Ops, Finds

LEMMA Leaves ==
    ASSUME Inv, NEW r \in Requests, Leave(r)
    PROVE  /\ at' \in [Requests -> Labels] /\ op' \in [Requests -> Ops]
           /\ found' \in [Requests -> Finds] /\ Decisions'
           /\ holder' \in SUBSET Requests /\ \A q, s \in holder' : q = s
<1>1. Idle \in Ops /\ Nothing \in Finds /\ Fits(Idle, Nothing)
  BY DEF Idle, Nothing, Ops, Finds, Statuses, Fits
<1>2. /\ at' \in [Requests -> Labels] /\ op' \in [Requests -> Ops]
      /\ found' \in [Requests -> Finds]
  BY <1>1 DEF Inv, TypeOK, Leave, Labels, Ops, Finds
<1>3. Decisions'
  BY <1>1 DEF Inv, TypeOK, Decisions, Placed, Leave, Idle
<1> QED BY <1>2, <1>3 DEF Leave, Inv, TypeOK

LEMMA BlameBound ==
    ASSUME NEW taken, Blame(taken)
    PROVE  unchecked' \subseteq Seats' \cup Live'
  BY DEF Blame

LEMMA NoRowsBound ==
    ASSUME TypeOK, NoRows
    PROVE  /\ Seats' = Seats /\ Live' = Live /\ unchecked' = unchecked
           /\ unchecked' \subseteq Seats' \cup Live'
  BY DEF TypeOK, NoRows, peopleVars, linkVars, Seats, Live

RowTypes ==
    /\ member \in [People -> Roles \cup {"none"}]
    /\ invite \in [People -> [status : {"none", "pending", "lapsed", "used"},
                              role : Roles \cup {"none"}, token : Nat]]
    /\ issued \in [People -> Nat]
    /\ status \in [Links -> Statuses] /\ overdue \in SUBSET Links
    /\ joined \in SUBSET (People \X Nat)

InviteRow == [status : {"none", "pending", "lapsed", "used"},
              role : Roles \cup {"none"}, token : Nat]

LEMMA RowUpdates ==
    ASSUME NEW row \in InviteRow
    PROVE  /\ \A st \in {"lapsed", "used"} : [row EXCEPT !.status = st] \in InviteRow
           /\ \A role \in Roles : [row EXCEPT !.role = role] \in InviteRow
           /\ NoInvite \in InviteRow
           /\ \A role \in Roles, t \in Nat :
                 [status |-> "pending", role |-> role, token |-> t] \in InviteRow
  BY DEF InviteRow, NoInvite

LEMMA InvNext == Inv /\ [Next]_vars => Inv'
<1> SUFFICES ASSUME Inv, [Next]_vars PROVE Inv'
  OBVIOUS
<1> USE DEF Ops, Finds, Labels
<1>1. CASE \E r \in Requests : Submit(r)
  <2> PICK r \in Requests : Submit(r)
    BY <1>1
  <2> PICK o \in Ops, f \in Finds, label \in {"clear", "begin", "write"} :
              /\ Start(r, label, o, f.was, f.lapsed)
              /\ Fits(o, f) /\ o.do # "none"
              /\ label = "clear" => o.do = "create"
              /\ label = "write" <=> o.need = "none" /\ label # "clear"
    BY SubmitStarts DEF Inv
  <2>1. f = [was |-> f.was, lapsed |-> f.lapsed]
    OBVIOUS
  <2>2. found' = [found EXCEPT ![r] = f] /\ op' = [op EXCEPT ![r] = o]
    BY <2>1 DEF Start
  <2>3. ops' \in 0..MaxOps
    BY ConstantsAssumption DEF Start, Inv, TypeOK
  <2>4. unchecked' \subseteq Seats' \cup Live'
    BY NoRowsBound DEF Start, Inv
  <2>5. TypeOK'
    BY <2>2, <2>3, <2>4 DEF Start, NoRows, peopleVars, linkVars, Inv, TypeOK
  <2>6. Decisions'
    BY <2>2 DEF Start, Inv, TypeOK, Decisions, Placed
  <2> QED BY <2>5, <2>6 DEF Inv
<1>2. CASE \E r \in Requests : ClearUsed(r)
  <2> PICK r \in Requests : ClearUsed(r)
    BY <1>2
  <2>1. op[r].do = "create" /\ op[r].on \in People /\ r \notin holder
    BY DEF ClearUsed, Inv, Decisions, Placed, Fits
  <2>2. RowTypes'
    BY <2>1 DEF ClearUsed, Inv, TypeOK, RowTypes, linkVars, NoInvite
  <2>3. /\ at' \in [Requests -> Labels] /\ op' \in [Requests -> Ops]
        /\ found' \in [Requests -> Finds] /\ Decisions'
    BY <2>1, MovesOn DEF ClearUsed
  <2> QED BY <2>2, <2>3, BlameBound DEF ClearUsed, Inv, TypeOK, RowTypes
<1>3. CASE \E r \in Requests : Begin(r)
  <2> PICK r \in Requests : Begin(r)
    BY <1>3
  <2>1. r \notin holder /\ op[r].need # "none"
    BY DEF Begin, Inv, Decisions, Placed
  <2>2. /\ at' \in [Requests -> Labels] /\ op' \in [Requests -> Ops]
        /\ found' \in [Requests -> Finds] /\ Decisions'
    <3> DEFINE label == IF op[r].do = "accept" THEN "row" ELSE "lock"
    <3>1. Goto(r, label) /\ UNCHANGED holder /\ label \in {"row", "lock"}
      BY DEF Begin
    <3>2. label = "row" => op[r].do = "accept"
      OBVIOUS
    <3> HIDE DEF label
    <3> QED BY <2>1, <3>1, <3>2, MovesOn DEF Begin
  <2> QED BY <2>2, NoRowsBound
        DEF Begin, NoRows, peopleVars, linkVars, Inv, TypeOK
<1>4. CASE \E r \in Requests : LockInvitation(r)
  <2> PICK r \in Requests : LockInvitation(r)
    BY <1>4
  <2>1. op[r].on \in People /\ r \notin holder /\ op[r].need # "none"
    BY DEF LockInvitation, Inv, Decisions, Placed, Fits
  <2>2. RowTypes'
    <3>1. invite[op[r].on] \in InviteRow
      BY <2>1 DEF Inv, TypeOK, InviteRow
    <3>2. [invite[op[r].on] EXCEPT !.status = "used"] \in InviteRow
      BY <3>1, RowUpdates
    <3>3. invite' \in [People -> InviteRow]
      BY <2>1, <3>2 DEF LockInvitation, Inv, TypeOK, InviteRow
    <3> QED BY <3>3 DEF LockInvitation, Inv, TypeOK, RowTypes, InviteRow, linkVars
  <2>3. (Goto(r, "lock") /\ UNCHANGED holder) \/ Leave(r)
    BY DEF LockInvitation
  <2>4. /\ at' \in [Requests -> Labels] /\ op' \in [Requests -> Ops]
        /\ found' \in [Requests -> Finds] /\ Decisions'
        /\ holder' \in SUBSET Requests /\ \A q, s \in holder' : q = s
    <3>1. CASE Goto(r, "lock") /\ UNCHANGED holder
      BY <2>1, <3>1, MovesOn DEF LockInvitation, Inv, TypeOK
    <3>2. CASE Leave(r)
      BY <3>2, Leaves
    <3> QED BY <2>3, <3>1, <3>2
  <2> QED BY <2>2, <2>4, BlameBound DEF LockInvitation, Inv, TypeOK, RowTypes
<1>5. CASE \E r \in Requests : LockBilling(r)
  <2> PICK r \in Requests : LockBilling(r)
    BY <1>5
  <2>1. CASE Goto(r, "write") /\ holder' = holder \cup {r}
    <3>1. op[r].need # "none" /\ at[r] = "lock" /\ holder = {}
      BY DEF LockBilling, BillingFree, Inv, Decisions, Placed
    <3>2. Decisions'
      BY <2>1, <3>1 DEF Goto, Inv, TypeOK, Decisions, Placed
    <3>3. at' \in [Requests -> Labels] /\ UNCHANGED <<op, found>>
      BY <2>1 DEF Goto, Inv, TypeOK
    <3> QED BY <2>1, <3>2, <3>3, <3>1, NoRowsBound
          DEF LockBilling, NoRows, peopleVars, linkVars, Inv, TypeOK
  <2>2. CASE Leave(r)
    BY <2>2, Leaves, NoRowsBound
       DEF LockBilling, NoRows, peopleVars, linkVars, Inv, TypeOK
  <2> QED BY <2>1, <2>2 DEF LockBilling
<1>6. CASE \E r \in Requests : SaveMember(r) \/ SaveInvitation(r) \/ SaveByToken(r)
                               \/ Join(r) \/ SaveLink(r)
  <2> PICK r \in Requests : SaveMember(r) \/ SaveInvitation(r) \/ SaveByToken(r)
                             \/ Join(r) \/ SaveLink(r)
    BY <1>6
  <2>1. Fits(op[r], found[r])
    BY DEF Inv, Decisions
  <2>2. Leave(r) /\ UNCHANGED <<seatCap, ops, faults>> /\ \E taken : Blame(taken)
    BY DEF SaveMember, SaveInvitation, SaveByToken, Join, SaveLink, Writing
  <2>3. RowTypes'
    <3>1. CASE SaveMember(r)
      BY <2>1, <3>1 DEF SaveMember, Writing, Fits, Inv, TypeOK, RowTypes, linkVars
    <3>2. CASE SaveInvitation(r)
      <4>1. op[r].on \in People /\ op[r].to \in Roles
        BY <2>1, <3>2 DEF SaveInvitation, Writing, Fits
      <4>2. issued[op[r].on] + 1 \in Nat /\ issued' \in [People -> Nat]
        BY <3>2, <4>1 DEF SaveInvitation, Inv, TypeOK
      <4>3. [status |-> "pending", role |-> op[r].to, token |-> issued[op[r].on] + 1]
               \in InviteRow
        BY <4>1, <4>2 DEF InviteRow
      <4>4. invite' \in [People -> InviteRow]
        BY <3>2, <4>3 DEF SaveInvitation, SetInvite, Inv, TypeOK, InviteRow
      <4> QED BY <3>2, <4>2, <4>4
            DEF SaveInvitation, Inv, TypeOK, RowTypes, InviteRow, linkVars
    <3>3. CASE SaveByToken(r)
      <4> PICK do \in {"inviteRole", "revoke"} :
              /\ op[r].do = do
              /\ \/ SetInvite(op[r].on, IF do = "revoke" THEN NoInvite
                                        ELSE [invite[op[r].on] EXCEPT !.role = op[r].to])
                 \/ UNCHANGED invite
        BY <3>3 DEF SaveByToken, Writing
      <4>1. op[r].on \in People /\ (do = "inviteRole" => op[r].to \in Roles)
        BY <2>1 DEF Fits
      <4>2. invite[op[r].on] \in InviteRow
        BY <4>1 DEF Inv, TypeOK, InviteRow
      <4>3. (IF do = "revoke" THEN NoInvite ELSE [invite[op[r].on] EXCEPT !.role = op[r].to])
               \in InviteRow
        BY <4>1, <4>2, RowUpdates
      <4>4. invite' \in [People -> InviteRow]
        BY <4>3 DEF SetInvite, Inv, TypeOK, InviteRow
      <4> QED BY <3>3, <4>4 DEF SaveByToken, Inv, TypeOK, RowTypes, InviteRow, linkVars
    <3>4. CASE Join(r)
      <4>1. op[r].on \in People
        BY <2>1, <3>4 DEF Join, Writing, Fits
      <4>2. invite[op[r].on] \in InviteRow
        BY <4>1 DEF Inv, TypeOK, InviteRow
      <4>3. [invite[op[r].on] EXCEPT !.status = "used"] \in InviteRow
        BY <4>2, RowUpdates
      <4>4. invite' \in [People -> InviteRow]
        BY <3>4, <4>3 DEF Join, SetInvite, Inv, TypeOK, InviteRow
      <4>5. /\ member' \in [People -> Roles \cup {"none"}]
            /\ joined' \in SUBSET (People \X Nat)
        BY <3>4, <4>1, <4>2 DEF Join, Inv, TypeOK, InviteRow
      <4> QED BY <3>4, <4>4, <4>5 DEF Join, Inv, TypeOK, RowTypes, InviteRow, linkVars
    <3>5. CASE SaveLink(r)
      BY <2>1, <3>5 DEF SaveLink, Writing, Fits, Inv, TypeOK, RowTypes, peopleVars, Statuses
    <3> QED BY <3>1, <3>2, <3>3, <3>4, <3>5
  <2>4. unchecked' \subseteq Seats' \cup Live'
    BY <2>2, BlameBound
  <2> QED BY <2>2, <2>3, <2>4, Leaves DEF Inv, TypeOK, RowTypes
<1>7. CASE \E r \in Requests : BreakDeadlock(r) \/ GiveUp(r)
  BY <1>7, Leaves, NoRowsBound
     DEF BreakDeadlock, GiveUp, NoRows, peopleVars, linkVars, Inv, TypeOK
<1>8. CASE \/ \E p \in People : LapseInvitation(p)
           \/ \E l \in Links : LapseLink(l)
           \/ ChangePlan
  <2>1. faults' \in 0..MaxFaults
    BY <1>8, ConstantsAssumption
       DEF LapseInvitation, LapseLink, ChangePlan, Fault, Inv, TypeOK
  <2>2. UNCHANGED <<control, ops>> /\ seatCap' \in SeatCaps
    BY <1>8 DEF LapseInvitation, LapseLink, ChangePlan, control, Inv, TypeOK
  <2>4. RowTypes'
    <3>1. CASE \E p \in People : LapseInvitation(p)
      <4> PICK p \in People : LapseInvitation(p)
        BY <3>1
      <4>0. invite[p] \in InviteRow
        BY DEF Inv, TypeOK, InviteRow
      <4>1. [invite[p] EXCEPT !.status = "lapsed"] \in InviteRow
        BY <4>0, RowUpdates
      <4>2. invite' \in [People -> InviteRow]
        BY <4>1 DEF LapseInvitation, Inv, TypeOK, InviteRow
      <4> QED BY <4>2 DEF LapseInvitation, Inv, TypeOK, RowTypes, InviteRow, linkVars
    <3>2. CASE \/ \E l \in Links : LapseLink(l)
               \/ ChangePlan
      BY <3>2 DEF LapseLink, ChangePlan, NoRows, peopleVars, linkVars, Inv, TypeOK, RowTypes
    <3> QED BY <1>8, <3>1, <3>2
  <2>3. unchecked' \subseteq Seats' \cup Live'
    BY <1>8, BlameBound, NoRowsBound DEF LapseInvitation, LapseLink, ChangePlan, Inv
  <2> QED BY <2>1, <2>2, <2>3, <2>4 DEF control, Inv, TypeOK, RowTypes, Decisions, Placed
<1>9. CASE UNCHANGED vars
  BY <1>9 DEF vars, peopleVars, linkVars, control, Inv, TypeOK, Decisions, Placed, Seats, Live
<1> QED BY <1>1, <1>2, <1>3, <1>4, <1>5, <1>6, <1>7, <1>8, <1>9 DEF Next, Proceed

THEOREM TypeCorrect == Spec => []TypeOK
<1>1. Spec => []Inv
  BY InvInit, InvNext, PTL DEF Spec
<1> QED BY <1>1, PTL DEF Inv

-----------------------------------------------------------------------------
(* The row of an invitation that is being accepted: nobody else has it, and *)
(* it stays as AcceptInvitation read it, but that it may lapse.             *)

RowsHeld ==
    \A r \in Requests : Accepting(r) =>
       /\ Invited(op[r].on) /\ invite[op[r].on].token = op[r].token
       /\ \A q \in Requests \ {r} : Accepting(q) => op[q].on # op[r].on

\* A token that was used is not the one of an open invitation.
Tokens ==
    /\ \A p \in People : invite[p].token <= issued[p]
    /\ \A p \in People, t \in Nat : <<p, t>> \in joined =>
          t <= issued[p] /\ (invite[p].token = t => ~Invited(p))

RowInv == RowsHeld /\ Tokens

LEMMA RowInvInit == Init => RowInv
<1> SUFFICES ASSUME Init PROVE RowInv
  OBVIOUS
<1>1. \A p \in People : invite[p].token <= issued[p]
  BY DEF Init, NoInvite
<1> QED BY <1>1 DEF Init, RowInv, RowsHeld, Tokens, Accepting

\* A request that is not about to accept leaves the rows of the others held.
LEMMA HeldByOthers ==
    ASSUME Inv, RowsHeld, NEW r \in Requests, ~Accepting(r)',
           \A q \in Requests \ {r} : at'[q] = at[q] /\ op'[q] = op[q],
           \A q \in Requests \ {r} : Accepting(q) =>
              \/ invite'[op[q].on] = invite[op[q].on]
              \/ invite'[op[q].on] = [invite[op[q].on] EXCEPT !.status = "lapsed"]
    PROVE  RowsHeld'
<1>1. \A q \in Requests \ {r} : Accepting(q) => op[q].on \in People
  BY DEF Inv, Decisions, Fits, Accepting
<1>2. ASSUME NEW q \in Requests \ {r}, Accepting(q)
      PROVE  /\ invite'[op[q].on].status \in {"pending", "lapsed"}
             /\ invite'[op[q].on].token = op[q].token
  <2>1. /\ invite[op[q].on] \in InviteRow
        /\ invite[op[q].on].status \in {"pending", "lapsed"}
        /\ invite[op[q].on].token = op[q].token
    BY <1>1, <1>2 DEF RowsHeld, Invited, Inv, TypeOK, InviteRow
  <2>2. LET row == [invite[op[q].on] EXCEPT !.status = "lapsed"]
        IN  row.status = "lapsed" /\ row.token = op[q].token
    BY <2>1 DEF InviteRow
  <2>3. \/ invite'[op[q].on] = invite[op[q].on]
        \/ invite'[op[q].on] = [invite[op[q].on] EXCEPT !.status = "lapsed"]
    BY <1>2
  <2> QED BY <2>1, <2>2, <2>3
<1> QED BY <1>2 DEF RowsHeld, Accepting, Invited

\* A write leaves the row of an invitation that another request is accepting.
LEMMA WriteSpares ==
    ASSUME Inv, RowsHeld, NEW r \in Requests, NEW q \in Requests \ {r}, Accepting(q),
           \/ SaveMember(r) \/ SaveInvitation(r) \/ SaveByToken(r) \/ Join(r) \/ SaveLink(r)
           \/ BreakDeadlock(r) \/ GiveUp(r)
    PROVE  invite'[op[q].on] = invite[op[q].on]
<1>0. /\ op[q].on \in People
      /\ \A p, row : SetInvite(p, row) /\ op[q].on # p
                    => invite'[op[q].on] = invite[op[q].on]
  BY DEF SetInvite, Inv, TypeOK, Decisions, Fits, Accepting
<1>1. CASE SaveMember(r) \/ SaveLink(r) \/ BreakDeadlock(r) \/ GiveUp(r)
  BY <1>1 DEF SaveMember, SaveLink, BreakDeadlock, GiveUp, NoRows, peopleVars
<1>2. CASE SaveInvitation(r)
  <2>1. CASE op[r].do = "resend"
    BY <1>0, <1>2, <2>1 DEF SaveInvitation, Writing, RowFree
  <2>2. CASE op[r].do = "create"
    <3>1. CASE invite[op[r].on].status # "none"
      BY <1>2, <2>2, <3>1 DEF SaveInvitation, Writing
    <3>2. CASE invite[op[r].on].status = "none"
      <4>1. op[q].on # op[r].on
        BY <3>2 DEF RowsHeld, Invited
      <4> QED BY <1>0, <1>2, <4>1 DEF SaveInvitation
    <3> QED BY <3>1, <3>2
  <2> QED BY <1>2, <2>1, <2>2 DEF SaveInvitation, Writing
<1>3. CASE SaveByToken(r)
  BY <1>0, <1>3 DEF SaveByToken, RowFree
<1>4. CASE Join(r)
  <2>1. Accepting(r)
    BY <1>4 DEF Join, Writing, Accepting
  <2>2. op[q].on # op[r].on
    BY <2>1 DEF RowsHeld
  <2> QED BY <1>0, <1>4, <2>2 DEF Join
<1> QED BY <1>1, <1>2, <1>3, <1>4

LEMMA HeldNext == Inv /\ RowsHeld /\ [Next]_vars => RowsHeld'
<1> SUFFICES ASSUME Inv, RowsHeld, [Next]_vars PROVE RowsHeld'
  OBVIOUS
<1>1. CASE \E r \in Requests : Submit(r)
  <2> PICK r \in Requests : Submit(r)
    BY <1>1
  <2> PICK o \in Ops, f \in Finds, label \in {"clear", "begin", "write"} :
              /\ Start(r, label, o, f.was, f.lapsed)
              /\ Fits(o, f) /\ o.do # "none"
              /\ label = "write" <=> o.need = "none" /\ label # "clear"
    BY SubmitStarts DEF Inv
  <2>1. at'[r] = label /\ op'[r] = o
    BY DEF Start, Inv, TypeOK
  <2>2. ~Accepting(r)'
    BY <2>1 DEF Accepting, Fits
  <2>3. \A q \in Requests \ {r} : at'[q] = at[q] /\ op'[q] = op[q]
    BY DEF Start, Inv, TypeOK
  <2> QED BY <2>2, <2>3, HeldByOthers DEF Start, NoRows, peopleVars
<1>2. CASE \E r \in Requests : ClearUsed(r)
  <2> PICK r \in Requests : ClearUsed(r)
    BY <1>2
  <2>1. ~Accepting(r)' /\ \A q \in Requests \ {r} : at'[q] = at[q] /\ op'[q] = op[q]
    BY DEF ClearUsed, Goto, Accepting, Inv, TypeOK, Decisions, Placed
  <2>2. \A q \in Requests \ {r} : Accepting(q) => invite'[op[q].on] = invite[op[q].on]
    BY DEF ClearUsed, RowFree, Inv, TypeOK
  <2> QED BY <2>1, <2>2, HeldByOthers
<1>3. CASE \E r \in Requests : Begin(r)
  <2> PICK r \in Requests : Begin(r)
    BY <1>3
  <2>1. ~Accepting(r)' /\ \A q \in Requests \ {r} : at'[q] = at[q] /\ op'[q] = op[q]
    BY DEF Begin, Goto, Accepting, Inv, TypeOK
  <2> QED BY <2>1, HeldByOthers DEF Begin, NoRows, peopleVars
<1>4. CASE \E r \in Requests : LockInvitation(r)
  <2> PICK r \in Requests : LockInvitation(r)
    BY <1>4
  <2>1. op[r].on \in People /\ op[r].do = "accept"
    BY DEF LockInvitation, Inv, Decisions, Placed, Fits
  <2>2. \A q \in Requests \ {r} : Accepting(q) => invite'[op[q].on] = invite[op[q].on]
    BY <2>1 DEF LockInvitation, RowFree, Inv, TypeOK
  <2>3. CASE Leave(r)
    <3>1. ~Accepting(r)' /\ \A q \in Requests \ {r} : at'[q] = at[q] /\ op'[q] = op[q]
      BY <2>3 DEF Leave, Accepting, Inv, TypeOK
    <3> QED BY <2>2, <3>1, HeldByOthers
  <2>4. CASE ~Leave(r)
    <3>1. /\ Goto(r, "lock") /\ invite' = invite
          /\ invite[op[r].on].token = op[r].token /\ invite[op[r].on].status = "pending"
      BY <2>4 DEF LockInvitation
    <3>2. at' = [at EXCEPT ![r] = "lock"] /\ op' = op
      BY <3>1 DEF Goto
    <3>3. \A q \in Requests : Accepting(q)' <=> q = r \/ Accepting(q)
      BY <2>1, <3>2 DEF Accepting, Inv, TypeOK
    <3>4. \A q \in Requests \ {r} : Accepting(q) => op[q].on # op[r].on
      BY DEF LockInvitation, RowFree
    <3> QED BY <3>1, <3>2, <3>3, <3>4 DEF RowsHeld, Invited
  <2> QED BY <2>3, <2>4
<1>5. CASE \E r \in Requests : LockBilling(r)
  <2> PICK r \in Requests : LockBilling(r)
    BY <1>5
  <2>1. CASE Goto(r, "write")
    <3>1. at[r] = "lock" /\ invite' = invite
      BY DEF LockBilling, NoRows, peopleVars
    <3>2. op' = op /\ \A q \in Requests : Accepting(q)' <=> Accepting(q)
      BY <2>1, <3>1 DEF Goto, Accepting, Inv, TypeOK
    <3> QED BY <3>1, <3>2 DEF RowsHeld, Invited
  <2>2. CASE Leave(r)
    <3>1. ~Accepting(r)' /\ \A q \in Requests \ {r} : at'[q] = at[q] /\ op'[q] = op[q]
      BY <2>2 DEF Leave, Accepting, Inv, TypeOK
    <3> QED BY <3>1, HeldByOthers DEF LockBilling, NoRows, peopleVars
  <2> QED BY <2>1, <2>2 DEF LockBilling
<1>6. CASE \E r \in Requests : \/ SaveMember(r) \/ SaveInvitation(r) \/ SaveByToken(r)
                               \/ Join(r) \/ SaveLink(r)
                               \/ BreakDeadlock(r) \/ GiveUp(r)
  <2> PICK r \in Requests : \/ SaveMember(r) \/ SaveInvitation(r) \/ SaveByToken(r)
                             \/ Join(r) \/ SaveLink(r)
                             \/ BreakDeadlock(r) \/ GiveUp(r)
    BY <1>6
  <2>1. Leave(r)
    BY DEF SaveMember, SaveInvitation, SaveByToken, Join, SaveLink, Writing, BreakDeadlock, GiveUp
  <2>2. ~Accepting(r)' /\ \A q \in Requests \ {r} : at'[q] = at[q] /\ op'[q] = op[q]
    BY <2>1 DEF Leave, Accepting, Inv, TypeOK
  <2>3. \A q \in Requests \ {r} : Accepting(q) => invite'[op[q].on] = invite[op[q].on]
    BY WriteSpares
  <2> QED BY <2>2, <2>3, HeldByOthers
<1>7. CASE \E p \in People : LapseInvitation(p)
  <2> PICK p \in People : LapseInvitation(p)
    BY <1>7
  <2>1. op' = op /\ \A q \in Requests : Accepting(q)' <=> Accepting(q)
    BY DEF LapseInvitation, control, Accepting
  <2>2. ASSUME NEW q \in Requests, Accepting(q)
        PROVE  /\ invite'[op[q].on].status \in {"pending", "lapsed"}
               /\ invite'[op[q].on].token = op[q].token
    <3>1. op[q].on \in People /\ invite[op[q].on] \in InviteRow
      BY <2>2 DEF Inv, TypeOK, InviteRow, Decisions, Fits, Accepting
    <3>2. /\ invite[op[q].on].status \in {"pending", "lapsed"}
          /\ invite[op[q].on].token = op[q].token
      BY <2>2 DEF RowsHeld, Invited
    <3>3. CASE op[q].on # p
      BY <3>1, <3>2, <3>3 DEF LapseInvitation, Inv, TypeOK
    <3>4. CASE op[q].on = p
      <4>1. invite'[p] = [invite[p] EXCEPT !.status = "lapsed"]
        BY DEF LapseInvitation, Inv, TypeOK
      <4>2. invite'[p].status = "lapsed" /\ invite'[p].token = invite[p].token
        BY <3>1, <3>4, <4>1 DEF InviteRow
      <4> QED BY <3>2, <3>4, <4>2
    <3> QED BY <3>3, <3>4
  <2> QED BY <2>1, <2>2 DEF RowsHeld, Invited
<1>8. CASE (\E l \in Links : LapseLink(l)) \/ ChangePlan \/ UNCHANGED vars
  BY <1>8 DEF LapseLink, ChangePlan, vars, NoRows, peopleVars, control, RowsHeld, Accepting, Invited
<1> QED BY <1>1, <1>2, <1>3, <1>4, <1>5, <1>6, <1>7, <1>8 DEF Next, Proceed

\* The tokens of an address, when nothing but its row and its tokens changes.
LEMMA TokensNext == Inv /\ RowsHeld /\ Tokens /\ [Next]_vars => Tokens'
<1> SUFFICES ASSUME Inv, RowsHeld, Tokens, [Next]_vars PROVE Tokens'
  OBVIOUS
<1> DEFINE Calm(p) == \/ invite'[p] = invite[p]
                      \/ invite'[p] = NoInvite
                      \/ /\ invite'[p].token = invite[p].token
                         /\ Invited(p)' => Invited(p)
<1>1. ASSUME \A p \in People : Calm(p), UNCHANGED <<issued, joined>>
      PROVE  Tokens'
  <2>1. NoInvite.token = 0 /\ NoInvite.status = "none"
    BY DEF NoInvite
  <2>2. ASSUME NEW p \in People
        PROVE  /\ invite'[p].token <= issued'[p]
               /\ invite'[p].token = invite[p].token \/ ~Invited(p)'
               /\ Invited(p)' => Invited(p)
    <3>1. issued'[p] \in Nat /\ invite[p].token <= issued'[p]
      BY <1>1 DEF Tokens, Inv, TypeOK
    <3>2. Calm(p)
      BY <1>1
    <3> QED BY <2>1, <3>1, <3>2 DEF Invited
  <2> QED BY <1>1, <2>2 DEF Tokens
<1>2. ASSUME UNCHANGED <<invite, issued, joined>>
      PROVE  Tokens'
  BY <1>2, <1>1
<1>3. CASE \E r \in Requests : Submit(r)
  <2> PICK r \in Requests : Submit(r)
    BY <1>3
  <2> PICK o \in Ops, f \in Finds, label \in {"clear", "begin", "write"} :
              Start(r, label, o, f.was, f.lapsed)
    BY SubmitStarts DEF Inv
  <2> QED BY <1>2 DEF Start, NoRows, peopleVars
<1>4. CASE \E r \in Requests : ClearUsed(r)
  <2> PICK r \in Requests : ClearUsed(r)
    BY <1>4
  <2>1. \A p \in People : Calm(p)
    BY DEF ClearUsed, Inv, TypeOK
  <2> QED BY <1>1, <2>1 DEF ClearUsed
<1>5. CASE \E r \in Requests : LockInvitation(r)
  <2> PICK r \in Requests : LockInvitation(r)
    BY <1>5
  <2>1. op[r].on \in People
    BY DEF LockInvitation, Inv, Decisions, Placed, Fits
  <2>2. invite' = invite \/ invite' = [invite EXCEPT ![op[r].on].status = "used"]
    BY DEF LockInvitation
  <2>3. ASSUME NEW p \in People PROVE Calm(p)
    <3>1. invite[p] \in InviteRow
      BY DEF Inv, TypeOK, InviteRow
    <3>2. invite'[p] = invite[p] \/ invite'[p] = [invite[p] EXCEPT !.status = "used"]
      BY <2>1, <2>2 DEF Inv, TypeOK
    <3>3. LET row == [invite[p] EXCEPT !.status = "used"]
          IN  row.status = "used" /\ row.token = invite[p].token
      BY <3>1 DEF InviteRow
    <3> QED BY <3>2, <3>3 DEF Invited
  <2> QED BY <1>1, <2>3 DEF LockInvitation
<1>6. CASE \E r \in Requests : SaveInvitation(r)
  <2> PICK r \in Requests : SaveInvitation(r)
    BY <1>6
  <2> DEFINE p == op[r].on
  <2>1. p \in People
    BY DEF SaveInvitation, Writing, Inv, Decisions, Fits
  <2>2. CASE UNCHANGED <<issued, invite>>
    BY <1>2, <2>2 DEF SaveInvitation
  <2>3. CASE /\ issued' = [issued EXCEPT ![p] = @ + 1]
             /\ SetInvite(p, [status |-> "pending", role |-> op[r].to,
                              token |-> issued[p] + 1])
    <3>1. joined' = joined
      BY DEF SaveInvitation
    <3>2. /\ issued'[p] = issued[p] + 1 /\ invite'[p].token = issued[p] + 1
          /\ \A x \in People \ {p} : issued'[x] = issued[x] /\ invite'[x] = invite[x]
      BY <2>1, <2>3 DEF SetInvite, Inv, TypeOK
    <3>3. \A x \in People : issued[x] \in Nat
      BY DEF Inv, TypeOK
    <3>4. \A x \in People : invite'[x].token <= issued'[x]
      BY <3>2, <3>3 DEF Tokens
    <3>5. ASSUME NEW x \in People, NEW t \in Nat, <<x, t>> \in joined'
          PROVE  t <= issued'[x] /\ (invite'[x].token = t => ~Invited(x)')
      <4>1. t <= issued[x] /\ (invite[x].token = t => ~Invited(x))
        BY <3>1, <3>5 DEF Tokens
      <4>2. CASE x = p
        BY <3>2, <3>3, <4>1, <4>2
      <4>3. CASE x # p
        BY <3>2, <4>1, <4>3 DEF Invited
      <4> QED BY <4>2, <4>3
    <3> QED BY <3>4, <3>5 DEF Tokens
  <2> QED BY <2>2, <2>3 DEF SaveInvitation
<1>7. CASE \E r \in Requests : SaveByToken(r)
  <2> PICK r \in Requests : SaveByToken(r)
    BY <1>7
  <2> DEFINE q == op[r].on
  <2>1. q \in People
    BY DEF SaveByToken, Writing, Inv, Decisions, Fits
  <2>2. \/ invite' = invite
        \/ invite' = [invite EXCEPT ![q] = NoInvite]
        \/ Invited(q) /\ invite' = [invite EXCEPT ![q] = [invite[q] EXCEPT !.role = op[r].to]]
    BY DEF SaveByToken, SetInvite
  <2>3. ASSUME NEW p \in People PROVE Calm(p)
    <3>1. invite[p] \in InviteRow
      BY DEF Inv, TypeOK, InviteRow
    <3>2. \/ invite'[p] = invite[p] \/ invite'[p] = NoInvite
          \/ Invited(p) /\ invite'[p] = [invite[p] EXCEPT !.role = op[r].to]
      BY <2>1, <2>2 DEF Inv, TypeOK
    <3>3. [invite[p] EXCEPT !.role = op[r].to].token = invite[p].token
      BY <3>1 DEF InviteRow
    <3> QED BY <3>2, <3>3
  <2> QED BY <1>1, <2>3 DEF SaveByToken
<1>8. CASE \E r \in Requests : Join(r)
  <2> PICK r \in Requests : Join(r)
    BY <1>8
  <2> DEFINE p == op[r].on
  <2>1. p \in People
    BY DEF Join, Writing, Inv, Decisions, Fits
  <2>2. CASE UNCHANGED <<invite, joined>>
    BY <1>2, <2>2 DEF Join
  <2>3. CASE /\ invite' = [invite EXCEPT ![p] = [invite[p] EXCEPT !.status = "used"]]
             /\ joined' = joined \cup {<<p, invite[p].token>>}
    <3>1. issued' = issued /\ invite[p] \in InviteRow
      BY <2>1 DEF Join, Inv, TypeOK, InviteRow
    <3>2. invite'[p].status = "used" /\ invite'[p].token = invite[p].token
      BY <2>1, <2>3, <3>1 DEF InviteRow, Inv, TypeOK
    <3>3. \A x \in People \ {p} : invite'[x] = invite[x]
      BY <2>1, <2>3 DEF Inv, TypeOK
    <3>4. \A x \in People : invite'[x].token <= issued'[x]
      BY <3>1, <3>2, <3>3 DEF Tokens
    <3>5. ASSUME NEW x \in People, NEW t \in Nat, <<x, t>> \in joined'
          PROVE  t <= issued'[x] /\ (invite'[x].token = t => ~Invited(x)')
      <4>1. CASE x = p
        <5>1. t <= issued'[x]
          BY <2>3, <3>1, <3>5, <4>1 DEF Tokens
        <5> QED BY <3>2, <4>1, <5>1 DEF Invited
      <4>2. CASE x # p
        <5>1. <<x, t>> \in joined
          BY <2>3, <3>5, <4>2
        <5> QED BY <3>1, <3>3, <4>2, <5>1 DEF Tokens, Invited
      <4> QED BY <4>1, <4>2
    <3> QED BY <3>4, <3>5 DEF Tokens
  <2> QED BY <2>2, <2>3 DEF Join, SetInvite
<1>9. CASE \E p \in People : LapseInvitation(p)
  <2> PICK q \in People : LapseInvitation(q)
    BY <1>9
  <2>1. ASSUME NEW p \in People PROVE Calm(p)
    <3>1. invite[p] \in InviteRow
      BY DEF Inv, TypeOK, InviteRow
    <3>2. \/ invite'[p] = invite[p]
          \/ invite[p].status = "pending" /\ invite'[p] = [invite[p] EXCEPT !.status = "lapsed"]
      BY DEF LapseInvitation, Inv, TypeOK
    <3>3. [invite[p] EXCEPT !.status = "lapsed"].token = invite[p].token
      BY <3>1 DEF InviteRow
    <3> QED BY <3>2, <3>3 DEF Invited
  <2> QED BY <1>1, <2>1 DEF LapseInvitation
<1>10. CASE \/ \E r \in Requests : \/ Begin(r) \/ LockBilling(r) \/ SaveMember(r) \/ SaveLink(r)
                                   \/ BreakDeadlock(r) \/ GiveUp(r)
            \/ (\E l \in Links : LapseLink(l)) \/ ChangePlan \/ UNCHANGED vars
  BY <1>2, <1>10
     DEF Begin, LockBilling, SaveMember, SaveLink, BreakDeadlock, GiveUp, LapseLink, ChangePlan,
         vars, NoRows, peopleVars
<1> QED BY <1>3, <1>4, <1>5, <1>6, <1>7, <1>8, <1>9, <1>10 DEF Next, Proceed

\* JoinsOnce, "prevent TOCTOU races on invitation usage": the token a request is
\* about to use has made no member yet.
THEOREM JoinedOnce == Spec => JoinsOnce
<1>1. Spec => [](Inv /\ RowInv)
  <2>1. Init => Inv /\ RowInv
    BY InvInit, RowInvInit
  <2>2. Inv /\ RowInv /\ [Next]_vars => (Inv /\ RowInv)'
    BY InvNext, HeldNext, TokensNext DEF RowInv
  <2> QED BY <2>1, <2>2, PTL DEF Spec
<1>2. Inv /\ RowInv =>
        \A r \in Requests : op[r].do = "accept" /\ at[r] = "write"
                              => <<op[r].on, op[r].token>> \notin joined
  BY DEF RowInv, RowsHeld, Tokens, Accepting, Inv, TypeOK, Decisions, Fits
<1>3. Inv /\ RowInv =>
        [ \A r \in Requests :
            op[r].do = "accept" /\ at[r] = "write" /\ at'[r] = "idle" /\ member' # member
               => <<op[r].on, op[r].token>> \notin joined ]_vars
  BY <1>2
<1> QED BY <1>1, <1>3, PTL DEF JoinsOnce

-----------------------------------------------------------------------------
(* Room for what is claimed.  The claim that is under way, if there is one, *)
(* still fits; nothing else takes a seat or a link that counts.             *)

Taken  == Seats \ unchecked
Opened == Live \ unchecked

Room ==
    \A r \in holder :
       /\ op[r].need = "claim" /\ op[r].do \notin LinkOps
             => ~OverLimit(Cardinality(Taken), 1, seatCap)
       /\ op[r].need = "claim" /\ op[r].do \in LinkOps
             => ~OverLimit(Cardinality(Opened), 1, LinkCap)
       /\ op[r].need = "fit" /\ Seat(invite[op[r].on].role)
             => ~OverLimit(Cardinality(Taken), 0, seatCap)

LEMMA SetsFinite ==
    /\ IsFiniteSet(Seats) /\ IsFiniteSet(Live)
    /\ IsFiniteSet(Taken) /\ IsFiniteSet(Opened)
    /\ Cardinality(Taken) \in Nat /\ Cardinality(Opened) \in Nat
    /\ Cardinality(Seats) \in Nat /\ Cardinality(Live) \in Nat
    /\ Cardinality(Taken) <= Cardinality(Seats) /\ Cardinality(Opened) <= Cardinality(Live)
<1>1. IsFiniteSet({"member", "invite"}) /\ IsFiniteSet({"link"})
  <2>1. IsFiniteSet({"member"} \cup {"invite"})
    BY FS_Singleton, FS_AddElement
  <2>2. {"member"} \cup {"invite"} = {"member", "invite"}
    OBVIOUS
  <2> QED BY <2>1, <2>2, FS_Singleton
<1>2. IsFiniteSet({"member", "invite"} \X People) /\ IsFiniteSet({"link"} \X Links)
  BY <1>1, FS_Product, ConstantsAssumption
<1>3. Seats \in SUBSET ({"member", "invite"} \X People)
  BY DEF Seats
<1>4. Live \in SUBSET ({"link"} \X Links)
  BY DEF Live
<1>5. IsFiniteSet(Seats) /\ IsFiniteSet(Live)
  BY <1>2, <1>3, <1>4, FS_Subset
<1>6. Taken \in SUBSET Seats /\ Opened \in SUBSET Live
  BY DEF Taken, Opened
<1> QED BY <1>5, <1>6, FS_Subset, FS_CardinalityType

\* A set that gained at most one element.
LEMMA GainsOne ==
    ASSUME NEW S, NEW T, NEW x, IsFiniteSet(S), T \subseteq S \cup {x}
    PROVE  /\ Cardinality(T) \in Nat /\ Cardinality(S) \in Nat
           /\ Cardinality(T) <= Cardinality(S) + 1
<1>1. /\ IsFiniteSet(S \cup {x}) /\ Cardinality(S \cup {x}) \in Nat
      /\ Cardinality(S \cup {x}) <= Cardinality(S) + 1
      /\ Cardinality(S) \in Nat
  BY FS_AddElement, FS_CardinalityType
<1>2. T \in SUBSET (S \cup {x})
  OBVIOUS
<1>3. IsFiniteSet(T) /\ Cardinality(T) <= Cardinality(S \cup {x}) /\ Cardinality(T) \in Nat
  BY <1>1, <1>2, FS_Subset, FS_CardinalityType
<1> QED BY <1>1, <1>3

\* A set that exchanged one element for another.
LEMMA Exchanges ==
    ASSUME NEW S, NEW T, NEW x, NEW y, IsFiniteSet(S), x \in S,
           T \subseteq (S \ {x}) \cup {y}
    PROVE  Cardinality(T) <= Cardinality(S) /\ Cardinality(T) \in Nat
<1>1. IsFiniteSet(S \ {x}) /\ Cardinality(S \ {x}) = Cardinality(S) - 1
  BY FS_RemoveElement
<1>2. Cardinality(T) <= Cardinality(S \ {x}) + 1 /\ Cardinality(T) \in Nat
  BY <1>1, GainsOne
<1> QED BY <1>1, <1>2, FS_CardinalityType

LEMMA Shrunk ==
    ASSUME NEW S, NEW T, IsFiniteSet(S), T \subseteq S
    PROVE  Cardinality(T) <= Cardinality(S) /\ Cardinality(T) \in Nat
<1>1. T \in SUBSET S
  OBVIOUS
<1> QED BY <1>1, FS_Subset, FS_CardinalityType

\* What a step adds to the rows that count, it adds to X or blames.
LEMMA Grows ==
    ASSUME NEW blamed, NEW X, Blame(blamed),
           \A p \in People : member'[p] = "internal" =>
              member[p] = "internal" \/ <<"member", p>> \in blamed \cup X,
           \A p \in People : invite'[p].status = "pending" /\ invite'[p].role = "internal" =>
              \/ invite[p].status = "pending" /\ invite[p].role = "internal"
              \/ <<"invite", p>> \in blamed \cup X,
           \A l \in Links : status'[l] = "active" /\ l \notin overdue' =>
              \/ status[l] = "active" /\ l \notin overdue
              \/ <<"link", l>> \in blamed \cup X
    PROVE  /\ Taken' \subseteq Taken \cup (X \cap Seats')
           /\ Opened' \subseteq Opened \cup (X \cap Live')
<1>1. Seats' \subseteq Seats \cup blamed \cup X
  BY DEF Seats
<1>2. Live' \subseteq Live \cup blamed \cup X
  BY DEF Live
<1> QED BY <1>1, <1>2 DEF Taken, Opened, Blame

Shrinks == Taken' \subseteq Taken /\ Opened' \subseteq Opened

LEMMA NoRowsShrinks == TypeOK /\ NoRows => Shrinks
  BY NoRowsBound DEF Shrinks, Taken, Opened

\* What a write may do to the rows that count.
ClaimsSeat(r) ==
    /\ r \in holder /\ op[r].need = "claim" /\ op[r].do \notin LinkOps
    /\ Opened' \subseteq Opened
    /\ \E x : Taken' \subseteq Taken \cup {x}

ClaimsLink(r) ==
    /\ r \in holder /\ op[r].need = "claim" /\ op[r].do \in LinkOps
    /\ Taken' \subseteq Taken
    /\ \E x : Opened' \subseteq Opened \cup {x}

TurnsMember(r) ==
    /\ r \in holder /\ op[r].need = "fit" /\ Seat(invite[op[r].on].role)
    /\ Opened' \subseteq Opened
    /\ \E x \in Taken : \E y : Taken' \subseteq (Taken \ {x}) \cup {y}

LEMMA MemberStep ==
    ASSUME Inv, NEW r \in Requests, SaveMember(r)
    PROVE  Shrinks \/ ClaimsSeat(r)
<1> DEFINE p == op[r].on
           blamed == IF Outdated(r, member[p], FALSE) THEN {<<"member", p>>} ELSE {}
<1> PICK do \in {"add", "role", "remove"} :
       /\ op[r].do = do /\ at[r] = "write"
       /\ member' = IF (do = "add") = (member[p] = "none")
                    THEN [member EXCEPT ![p] = op[r].to] ELSE member
       /\ UNCHANGED <<invite, issued, linkVars, joined>>
       /\ Blame(blamed)
  BY DEF SaveMember, Writing
<1>1. p \in People /\ op[r].need = Need(Seat(found[r].was), Seat(op[r].to))
  BY DEF Inv, Decisions, Fits
<1>2. \A q \in People : member'[q] = "internal" =>
         member[q] = "internal" \/ (q = p /\ op[r].to = "internal")
  BY <1>1 DEF Inv, TypeOK
<1>3. CASE op[r].need = "claim"
  <2> DEFINE X == {<<"member", p>>}
  <2>1. Taken' \subseteq Taken \cup (X \cap Seats') /\ Opened' \subseteq Opened \cup (X \cap Live')
    <3>1. \A q \in People : member'[q] = "internal" =>
             member[q] = "internal" \/ <<"member", q>> \in blamed \cup X
      BY <1>2
    <3> HIDE DEF blamed, X
    <3> QED BY <3>1, Grows DEF linkVars
  <2>2. X \cap Live' = {}
    BY DEF Live
  <2>3. r \in holder /\ op[r].do \notin LinkOps
    BY <1>3 DEF Inv, Decisions, Placed, LinkOps
  <2> QED BY <1>3, <2>1, <2>2, <2>3 DEF ClaimsSeat
<1>4. CASE op[r].need # "claim"
  <2>1. op[r].to = "internal" => found[r].was = "internal"
    BY <1>1, <1>4 DEF Need, Seat
  <2>2. op[r].to = "internal" => member[p] = "internal" \/ <<"member", p>> \in blamed
    BY <1>4, <2>1 DEF Outdated
  <2>3. \A q \in People : member'[q] = "internal" =>
           member[q] = "internal" \/ <<"member", q>> \in blamed \cup {}
    BY <1>2, <2>2
  <2> HIDE DEF blamed
  <2> QED BY <2>3, Grows DEF linkVars, Shrinks
<1> QED BY <1>3, <1>4

LEMMA InvitationStep ==
    ASSUME Inv, NEW r \in Requests, SaveInvitation(r)
    PROVE  Shrinks \/ ClaimsSeat(r)
<1> DEFINE p == op[r].on
           blamed == IF Outdated(r, invite[p].role, invite[p].status = "lapsed")
                     THEN {<<"invite", p>>} ELSE {}
           row == [status |-> "pending", role |-> op[r].to, token |-> issued[p] + 1]
<1> PICK do \in {"create", "resend"} :
       /\ op[r].do = do /\ at[r] = "write"
       /\ \/ /\ do = "create" => invite[p].status = "none"
             /\ do = "resend" => Invited(p)
             /\ invite' = [invite EXCEPT ![p] = row]
          \/ UNCHANGED invite
       /\ UNCHANGED <<member, linkVars, joined>>
       /\ Blame(blamed)
  BY DEF SaveInvitation, Writing, SetInvite
<1>1. /\ p \in People
      /\ do = "create" => op[r].need = Need(FALSE, Seat(op[r].to))
      /\ do = "resend" => op[r].need = ResendNeed(found[r].was, op[r].to)
  BY DEF Inv, Decisions, Fits
<1>2. \A q \in People : invite'[q].status = "pending" /\ invite'[q].role = "internal" =>
         \/ invite[q].status = "pending" /\ invite[q].role = "internal"
         \/ /\ q = p /\ op[r].to = "internal"
            /\ do = "resend" => Invited(p)
  <2>1. row.role = op[r].to
    OBVIOUS
  <2> HIDE DEF row
  <2> QED BY <1>1, <2>1 DEF Inv, TypeOK
<1>3. CASE op[r].need = "claim"
  <2> DEFINE X == {<<"invite", p>>}
  <2>1. Taken' \subseteq Taken \cup (X \cap Seats') /\ Opened' \subseteq Opened \cup (X \cap Live')
    <3>1. \A q \in People : invite'[q].status = "pending" /\ invite'[q].role = "internal" =>
             \/ invite[q].status = "pending" /\ invite[q].role = "internal"
             \/ <<"invite", q>> \in blamed \cup X
      BY <1>2
    <3> HIDE DEF blamed, X, row
    <3> QED BY <3>1, Grows DEF linkVars
  <2>2. X \cap Live' = {}
    BY DEF Live
  <2>3. r \in holder /\ op[r].do \notin LinkOps
    BY <1>3 DEF Inv, Decisions, Placed, LinkOps
  <2> QED BY <1>3, <2>1, <2>2, <2>3 DEF ClaimsSeat
<1>4. CASE op[r].need # "claim"
  <2>1. op[r].to = "internal" => do = "resend" /\ found[r].was = "internal"
    BY <1>1, <1>4 DEF Need, ResendNeed, Seat
  <2>2. op[r].to = "internal" /\ Invited(p) =>
           \/ invite[p].status = "pending" /\ invite[p].role = "internal"
           \/ <<"invite", p>> \in blamed
    BY <1>4, <2>1 DEF Outdated, Invited
  <2>3. \A q \in People : invite'[q].status = "pending" /\ invite'[q].role = "internal" =>
           \/ invite[q].status = "pending" /\ invite[q].role = "internal"
           \/ <<"invite", q>> \in blamed \cup {}
    BY <1>2, <2>1, <2>2
  <2> HIDE DEF blamed, row
  <2> QED BY <2>3, Grows DEF linkVars, Shrinks
<1> QED BY <1>3, <1>4

LEMMA TokenStep ==
    ASSUME Inv, NEW r \in Requests, SaveByToken(r)
    PROVE  Shrinks \/ ClaimsSeat(r)
<1> DEFINE p == op[r].on
           blamed == IF Outdated(r, invite[p].role, FALSE) THEN {<<"invite", p>>} ELSE {}
<1> PICK do \in {"inviteRole", "revoke"} :
       /\ op[r].do = do /\ at[r] = "write"
       /\ \/ invite' = [invite EXCEPT ![p] =
                          IF do = "revoke" THEN NoInvite ELSE [invite[p] EXCEPT !.role = op[r].to]]
          \/ UNCHANGED invite
       /\ UNCHANGED <<member, issued, linkVars, joined>>
       /\ Blame(blamed)
  BY DEF SaveByToken, Writing, SetInvite
<1>1. p \in People /\ op[r].need = Need(Seat(found[r].was), Seat(op[r].to))
  BY DEF Inv, Decisions, Fits
<1>2. \A q \in People : invite'[q].status = "pending" /\ invite'[q].role = "internal" =>
         \/ invite[q].status = "pending" /\ invite[q].role = "internal"
         \/ q = p /\ op[r].to = "internal" /\ invite[p].status = "pending"
  <2>1. invite[p] \in InviteRow
    BY <1>1 DEF Inv, TypeOK, InviteRow
  <2>2. /\ [invite[p] EXCEPT !.role = op[r].to].role = op[r].to
        /\ [invite[p] EXCEPT !.role = op[r].to].status = invite[p].status
        /\ NoInvite.status = "none"
    BY <2>1 DEF InviteRow, NoInvite
  <2>3. \A q \in People : \/ invite'[q] = invite[q]
                          \/ q = p /\ invite'[q] \in {NoInvite, [invite[p] EXCEPT !.role = op[r].to]}
    BY <1>1 DEF Inv, TypeOK
  <2> QED BY <2>2, <2>3
<1>3. CASE op[r].need = "claim"
  <2> DEFINE X == {<<"invite", p>>}
  <2>1. Taken' \subseteq Taken \cup (X \cap Seats') /\ Opened' \subseteq Opened \cup (X \cap Live')
    <3>1. \A q \in People : invite'[q].status = "pending" /\ invite'[q].role = "internal" =>
             \/ invite[q].status = "pending" /\ invite[q].role = "internal"
             \/ <<"invite", q>> \in blamed \cup X
      BY <1>2
    <3> HIDE DEF blamed, X
    <3> QED BY <3>1, Grows DEF linkVars
  <2>2. X \cap Live' = {}
    BY DEF Live
  <2>3. r \in holder /\ op[r].do \notin LinkOps
    BY <1>3 DEF Inv, Decisions, Placed, LinkOps
  <2> QED BY <1>3, <2>1, <2>2, <2>3 DEF ClaimsSeat
<1>4. CASE op[r].need # "claim"
  <2>1. op[r].to = "internal" => found[r].was = "internal"
    BY <1>1, <1>4 DEF Need, Seat
  <2>2. op[r].to = "internal" => invite[p].role = "internal" \/ <<"invite", p>> \in blamed
    BY <1>4, <2>1 DEF Outdated
  <2>3. \A q \in People : invite'[q].status = "pending" /\ invite'[q].role = "internal" =>
           \/ invite[q].status = "pending" /\ invite[q].role = "internal"
           \/ <<"invite", q>> \in blamed \cup {}
    BY <1>2, <2>2
  <2> HIDE DEF blamed
  <2> QED BY <2>3, Grows DEF linkVars, Shrinks
<1> QED BY <1>3, <1>4

LEMMA JoinStep ==
    ASSUME Inv, RowInv, NEW r \in Requests, Join(r)
    PROVE  Shrinks \/ TurnsMember(r)
<1> DEFINE p == op[r].on
           blamed == IF invite[p].status = "lapsed" \/ <<"invite", p>> \in unchecked
                     THEN {<<"member", p>>} ELSE {}
<1>1. /\ p \in People /\ r \in holder /\ op[r].need = "fit"
      /\ invite[p] \in InviteRow /\ Invited(p)
  BY DEF Join, Writing, Inv, Decisions, Fits, Placed, TypeOK, InviteRow, RowInv, RowsHeld,
         Accepting
<1>2. Blame(blamed) /\ UNCHANGED linkVars
  BY DEF Join
<1>3. CASE member[p] # "none"
  <2>1. UNCHANGED <<member, invite>>
    BY <1>3 DEF Join
  <2> HIDE DEF blamed
  <2> QED BY <1>2, <2>1, Grows DEF linkVars, Shrinks
<1>4. CASE member[p] = "none"
  <2>1. /\ member' = [member EXCEPT ![p] = invite[p].role]
        /\ invite' = [invite EXCEPT ![p] = [invite[p] EXCEPT !.status = "used"]]
    BY <1>4 DEF Join, SetInvite
  <2>2. \A q \in People : member'[q] = "internal" =>
           member[q] = "internal" \/ (q = p /\ invite[p].role = "internal")
    BY <1>1, <2>1 DEF Inv, TypeOK
  <2>3. invite'[p].status = "used" /\ \A q \in People \ {p} : invite'[q] = invite[q]
    BY <1>1, <2>1 DEF Inv, TypeOK, InviteRow
  <2>4. \A q \in People : invite'[q].status = "pending" /\ invite'[q].role = "internal" =>
           invite[q].status = "pending" /\ invite[q].role = "internal"
    BY <2>3
  <2>5. CASE invite[p].role # "internal" \/ <<"member", p>> \in blamed
    <3>1. \A q \in People : member'[q] = "internal" =>
             member[q] = "internal" \/ <<"member", q>> \in blamed \cup {}
      BY <2>2, <2>5
    <3> HIDE DEF blamed
    <3> QED BY <1>2, <2>4, <3>1, Grows DEF linkVars, Shrinks
  <2>6. CASE invite[p].role = "internal" /\ <<"member", p>> \notin blamed
    <3> DEFINE X == {<<"member", p>>}
    <3>1. invite[p].status = "pending" /\ <<"invite", p>> \in Taken
      BY <1>1, <2>6 DEF Invited, Taken, Seats
    <3>2. Taken' \subseteq Taken \cup (X \cap Seats') /\ Opened' \subseteq Opened \cup (X \cap Live')
      <4>1. \A q \in People : member'[q] = "internal" =>
               member[q] = "internal" \/ <<"member", q>> \in blamed \cup X
        BY <2>2
      <4> HIDE DEF blamed, X
      <4> QED BY <1>2, <2>4, <4>1, Grows DEF linkVars
    <3>3. X \cap Live' = {}
      BY DEF Live
    <3>4. <<"invite", p>> \notin Taken'
      BY <2>3 DEF Taken, Seats
    <3>5. Taken' \subseteq (Taken \ {<<"invite", p>>}) \cup {<<"member", p>>}
      BY <3>2, <3>4
    <3>6. Seat(invite[p].role)
      BY <2>6 DEF Seat
    <3> QED BY <1>1, <3>1, <3>2, <3>3, <3>5, <3>6 DEF TurnsMember
  <2> QED BY <2>5, <2>6
<1> QED BY <1>3, <1>4

LEMMA LinkStep ==
    ASSUME Inv, NEW r \in Requests, SaveLink(r)
    PROVE  Shrinks \/ ClaimsLink(r)
<1> DEFINE l == op[r].on
<1>1. UNCHANGED <<member, invite>> /\ at[r] = "write"
  BY DEF SaveLink, peopleVars, Writing
<1>2. CASE /\ op[r].do \in {"newLink", "renew", "status"}
           /\ status' = [status EXCEPT ![l] = op[r].to]
           /\ overdue' \in {overdue, overdue \ {l}}
           /\ Blame({})
  <2>1. \A k \in Links : status'[k] = "active" /\ k \notin overdue' =>
           \/ status[k] = "active" /\ k \notin overdue
           \/ k = l /\ op[r].to = "active"
    BY <1>2 DEF Inv, TypeOK
  <2>2. CASE op[r].to # "active"
    BY <1>1, <1>2, <2>1, <2>2, Grows DEF Shrinks
  <2>3. CASE op[r].to = "active"
    <3> DEFINE X == {<<"link", l>>}
    <3>1. op[r].need = "claim" /\ r \in holder /\ op[r].do \in LinkOps
      BY <1>1, <1>2, <2>3 DEF Inv, Decisions, Fits, Placed, LinkOps
    <3>2. Taken' \subseteq Taken \cup (X \cap Seats') /\ Opened' \subseteq Opened \cup (X \cap Live')
      <4>1. \A k \in Links : status'[k] = "active" /\ k \notin overdue' =>
               \/ status[k] = "active" /\ k \notin overdue
               \/ <<"link", k>> \in {} \cup X
        BY <2>1
      <4> HIDE DEF X
      <4> QED BY <1>1, <1>2, <4>1, Grows
    <3>3. X \cap Seats' = {}
      BY DEF Seats
    <3> QED BY <3>1, <3>2, <3>3 DEF ClaimsLink
  <2> QED BY <2>2, <2>3
<1>3. CASE /\ op[r].do = "extend" /\ UNCHANGED status
           /\ overdue' = overdue \ {l}
           /\ Blame(IF l \in overdue THEN {<<"link", l>>} ELSE {})
  <2> DEFINE blamed == IF l \in overdue THEN {<<"link", l>>} ELSE {}
  <2>1. \A k \in Links : status'[k] = "active" /\ k \notin overdue' =>
           \/ status[k] = "active" /\ k \notin overdue
           \/ <<"link", k>> \in blamed \cup {}
    BY <1>3
  <2>2. Blame(blamed)
    BY <1>3
  <2> HIDE DEF blamed
  <2> QED BY <1>1, <2>1, <2>2, Grows DEF Shrinks
<1>4. CASE /\ status' = [k \in Links |-> IF k \in overdue /\ status[k] = "active"
                                         THEN "expired" ELSE status[k]]
           /\ UNCHANGED overdue
           /\ Blame({})
  <2>1. \A k \in Links : status'[k] = "active" => status[k] = "active"
    BY <1>4
  <2> QED BY <1>1, <1>4, <2>1, Grows DEF Shrinks
<1> QED BY <1>2, <1>3, <1>4 DEF SaveLink, Writing

-----------------------------------------------------------------------------

LEMMA RoomInit == Init => Room
  BY DEF Init, Room

\* A claim under way still fits when the rows that count only become fewer.
LEMMA RoomKept ==
    ASSUME Inv, Room, Shrinks, seatCap' = seatCap, holder' \subseteq holder,
           \A q \in holder' : /\ op'[q] = op[q]
                              /\ op[q].need = "fit" =>
                                   invite'[op[q].on].role = invite[op[q].on].role
    PROVE  Room'
<1>1. /\ Cardinality(Taken') <= Cardinality(Taken) /\ Cardinality(Taken') \in Nat
      /\ Cardinality(Opened') <= Cardinality(Opened) /\ Cardinality(Opened') \in Nat
      /\ Cardinality(Taken) \in Nat /\ Cardinality(Opened) \in Nat
  BY SetsFinite, Shrunk DEF Shrinks
<1>2. seatCap \in Nat /\ LinkCap \in Nat
  BY ConstantsAssumption DEF Inv, TypeOK
<1>3. \A more \in {0, 1} : /\ ~OverLimit(Cardinality(Taken), more, seatCap)
                                => ~OverLimit(Cardinality(Taken'), more, seatCap')
                           /\ ~OverLimit(Cardinality(Opened), more, LinkCap)
                                => ~OverLimit(Cardinality(Opened'), more, LinkCap)
  BY <1>1, <1>2 DEF OverLimit
<1>4. ASSUME NEW q \in holder' PROVE q \in holder /\ op'[q] = op[q]
  OBVIOUS
<1> QED BY <1>3, <1>4 DEF Room

LEMMA RoomNext == Inv /\ RowInv /\ Room /\ [Next]_vars => Room'
<1> SUFFICES ASSUME Inv, RowInv, Room, [Next]_vars PROVE Room'
  OBVIOUS
<1>0. /\ \A q \in holder : /\ q \in Requests /\ at[q] = "write"
                           /\ op[q].need = "fit" => Accepting(q)
      /\ RowsHeld
  BY DEF Inv, TypeOK, Decisions, Placed, Fits, Accepting, RowInv
<1>1. CASE \E r \in Requests : Submit(r)
  <2> PICK r \in Requests : Submit(r)
    BY <1>1
  <2> PICK o \in Ops, f \in Finds, label \in {"clear", "begin", "write"} :
              Start(r, label, o, f.was, f.lapsed)
    BY SubmitStarts DEF Inv
  <2>1. holder' = holder /\ seatCap' = seatCap /\ invite' = invite /\ NoRows
    BY DEF Start, NoRows, peopleVars
  <2>2. \A q \in holder : op'[q] = op[q]
    BY <1>0 DEF Start, Inv, TypeOK
  <2> QED BY <2>1, <2>2, NoRowsShrinks, RoomKept DEF Inv
<1>2. CASE \E r \in Requests : ClearUsed(r) \/ LockInvitation(r)
  <2> PICK r \in Requests : ClearUsed(r) \/ LockInvitation(r)
    BY <1>2
  <2> DEFINE p == op[r].on
  <2>1. r \notin holder
    BY <1>0 DEF ClearUsed, LockInvitation
  <2>2. /\ holder' \subseteq holder /\ seatCap' = seatCap /\ member' = member
        /\ UNCHANGED linkVars /\ Blame({}) /\ RowFree(r)
        /\ \A q \in holder : op'[q] = op[q]
    BY <2>1 DEF ClearUsed, LockInvitation, Goto, Leave, Inv, TypeOK
  <2>3. /\ \A q \in People \ {p} : invite'[q] = invite[q]
        /\ p \in People => invite'[p].status \in {"none", "used"} \/ invite'[p] = invite[p]
    BY DEF ClearUsed, LockInvitation, NoInvite, Inv, TypeOK
  <2>4. Shrinks
    <3>1. \A q \in People : invite'[q].status = "pending" /\ invite'[q].role = "internal" =>
             invite[q].status = "pending" /\ invite[q].role = "internal"
      BY <2>3
    <3> QED BY <2>2, <3>1, Grows DEF linkVars, Shrinks
  <2>5. \A q \in holder : op[q].need = "fit" => invite'[op[q].on] = invite[op[q].on]
    BY <1>0, <2>1, <2>2, <2>3 DEF RowFree, Inv, Decisions, Fits
  <2> QED BY <2>2, <2>4, <2>5, RoomKept
<1>3. CASE \E r \in Requests : Begin(r)
  <2> PICK r \in Requests : Begin(r)
    BY <1>3
  <2>1. holder' = holder /\ seatCap' = seatCap /\ invite' = invite /\ op' = op /\ NoRows
    BY DEF Begin, NoRows, peopleVars, Goto
  <2> QED BY <2>1, NoRowsShrinks, RoomKept DEF Inv
<1>4. CASE \E r \in Requests : LockBilling(r)
  <2> PICK r \in Requests : LockBilling(r)
    BY <1>4
  <2>1. CASE holder' = {r} /\ Allowed(r) /\ op' = op
    <3>1. /\ seatCap' = seatCap /\ UNCHANGED <<member, invite, status, overdue, unchecked>>
      BY DEF LockBilling, NoRows, peopleVars, linkVars
    <3>2. Seats' = Seats /\ Live' = Live /\ Taken' = Taken /\ Opened' = Opened
      BY <3>1 DEF Seats, Live, Taken, Opened
    <3>3. /\ op[r].need = "claim" /\ op[r].do \notin LinkOps
               => ~OverLimit(Cardinality(Seats), 1, seatCap)
          /\ op[r].need = "claim" /\ op[r].do \in LinkOps
               => ~OverLimit(Cardinality(Live), 1, LinkCap)
          /\ op[r].need = "fit" /\ Seat(invite[op[r].on].role)
               => ~OverLimit(Cardinality(Seats), 0, seatCap)
      BY <2>1 DEF Allowed, Acceptable
    <3>4. seatCap \in Nat /\ LinkCap \in Nat
      BY ConstantsAssumption DEF Inv, TypeOK
    <3>5. /\ op[r].need = "claim" /\ op[r].do \notin LinkOps
               => ~OverLimit(Cardinality(Taken), 1, seatCap)
          /\ op[r].need = "claim" /\ op[r].do \in LinkOps
               => ~OverLimit(Cardinality(Opened), 1, LinkCap)
          /\ op[r].need = "fit" /\ Seat(invite[op[r].on].role)
               => ~OverLimit(Cardinality(Taken), 0, seatCap)
      BY <3>3, <3>4, SetsFinite DEF OverLimit
    <3>6. Cardinality(Taken') = Cardinality(Taken) /\ Cardinality(Opened') = Cardinality(Opened)
      BY <3>2
    <3> QED BY <2>1, <3>1, <3>5, <3>6 DEF Room
  <2>2. CASE holder' = {}
    BY <2>2 DEF Room
  <2> QED BY <2>1, <2>2 DEF LockBilling, BillingFree, Goto, Leave
<1>5. CASE \E r \in Requests : \/ SaveMember(r) \/ SaveInvitation(r) \/ SaveByToken(r)
                               \/ Join(r) \/ SaveLink(r)
                               \/ BreakDeadlock(r) \/ GiveUp(r)
  <2> PICK r \in Requests : \/ SaveMember(r) \/ SaveInvitation(r) \/ SaveByToken(r)
                             \/ Join(r) \/ SaveLink(r)
                             \/ BreakDeadlock(r) \/ GiveUp(r)
    BY <1>5
  <2>1. Leave(r) /\ seatCap' = seatCap
    BY DEF SaveMember, SaveInvitation, SaveByToken, Join, SaveLink, Writing, BreakDeadlock, GiveUp
  <2>2. CASE r \in holder
    <3>1. holder' = {}
      BY <2>1, <2>2 DEF Leave, Inv, TypeOK
    <3> QED BY <3>1 DEF Room
  <2>3. CASE r \notin holder
    <3>1. Shrinks
      BY <2>3, MemberStep, InvitationStep, TokenStep, JoinStep, LinkStep, NoRowsShrinks
         DEF ClaimsSeat, ClaimsLink, TurnsMember, BreakDeadlock, GiveUp, Inv
    <3>2. \A q \in holder : op'[q] = op[q] /\ q # r
      BY <1>0, <2>1, <2>3 DEF Leave, Inv, TypeOK
    <3>3. \A q \in holder : op[q].need = "fit" => invite'[op[q].on] = invite[op[q].on]
      BY <1>0, <3>2, WriteSpares
    <3> QED BY <2>1, <3>1, <3>2, <3>3, RoomKept DEF Leave
  <2> QED BY <2>2, <2>3
<1>6. CASE \E p \in People : LapseInvitation(p)
  <2> PICK p \in People : LapseInvitation(p)
    BY <1>6
  <2>1. invite[p] \in InviteRow /\ invite'[p] = [invite[p] EXCEPT !.status = "lapsed"]
    BY DEF LapseInvitation, Inv, TypeOK, InviteRow
  <2>2. /\ invite'[p].status = "lapsed" /\ invite'[p].role = invite[p].role
        /\ \A q \in People \ {p} : invite'[q] = invite[q]
    BY <2>1 DEF InviteRow, LapseInvitation, Inv, TypeOK
  <2>3. /\ holder' = holder /\ seatCap' = seatCap /\ op' = op /\ member' = member
        /\ UNCHANGED linkVars /\ Blame({})
    BY DEF LapseInvitation, control
  <2>4. Shrinks
    <3>1. \A q \in People : invite'[q].status = "pending" /\ invite'[q].role = "internal" =>
             invite[q].status = "pending" /\ invite[q].role = "internal"
      BY <2>2
    <3> QED BY <2>3, <3>1, Grows DEF linkVars, Shrinks
  <2>5. \A q \in holder : op[q].need = "fit" => op[q].on \in People
    BY <1>0 DEF Accepting, Inv, Decisions, Fits
  <2>6. \A q \in holder : op[q].need = "fit" =>
           invite'[op[q].on].role = invite[op[q].on].role
    BY <2>2, <2>5
  <2> QED BY <2>3, <2>4, <2>6, RoomKept
<1>7. CASE \E l \in Links : LapseLink(l)
  <2> PICK l \in Links : LapseLink(l)
    BY <1>7
  <2>1. /\ holder' = holder /\ seatCap' = seatCap /\ op' = op
        /\ UNCHANGED <<member, invite, status>> /\ Blame({}) /\ overdue \subseteq overdue'
    BY DEF LapseLink, control, peopleVars
  <2>2. Shrinks
    <3>1. \A k \in Links : status'[k] = "active" /\ k \notin overdue' =>
             status[k] = "active" /\ k \notin overdue
      BY <2>1
    <3> QED BY <2>1, <3>1, Grows DEF Shrinks
  <2> QED BY <2>1, <2>2, RoomKept
<1>8. CASE ChangePlan
  <2>1. holder' = {}
    BY <1>8 DEF ChangePlan, control
  <2> QED BY <2>1 DEF Room
<1>9. CASE UNCHANGED vars
  <2>1. NoRows /\ UNCHANGED <<holder, seatCap, op, invite>>
    BY <1>9 DEF vars, control, peopleVars, linkVars, NoRows
  <2> QED BY <2>1, NoRowsShrinks, RoomKept DEF Inv
<1> QED BY <1>1, <1>2, <1>3, <1>4, <1>5, <1>6, <1>7, <1>8, <1>9 DEF Next, Proceed

\* Every step leaves the rows that count, or is the write of a holder.
LEMMA EveryStep ==
    ASSUME Inv, RowInv, [Next]_vars
    PROVE  \/ Shrinks
           \/ \E r \in Requests : /\ ClaimsSeat(r) \/ ClaimsLink(r) \/ TurnsMember(r)
                                  /\ seatCap' = seatCap
<1>1. CASE \E r \in Requests : Submit(r)
  <2> PICK r \in Requests : Submit(r)
    BY <1>1
  <2>1. NoRows
    BY SubmitStarts DEF Start, Inv
  <2> QED BY <2>1, NoRowsShrinks DEF Inv
<1>2. CASE \E r \in Requests : ClearUsed(r) \/ LockInvitation(r)
  <2> PICK r \in Requests : ClearUsed(r) \/ LockInvitation(r)
    BY <1>2
  <2> DEFINE p == op[r].on
  <2>1. member' = member /\ UNCHANGED linkVars /\ Blame({})
    BY DEF ClearUsed, LockInvitation
  <2>2. /\ \A q \in People \ {p} : invite'[q] = invite[q]
        /\ p \in People => invite'[p].status \in {"none", "used"} \/ invite'[p] = invite[p]
    BY DEF ClearUsed, LockInvitation, NoInvite, Inv, TypeOK
  <2>3. \A q \in People : invite'[q].status = "pending" /\ invite'[q].role = "internal" =>
           invite[q].status = "pending" /\ invite[q].role = "internal"
    BY <2>2
  <2> QED BY <2>1, <2>3, Grows DEF linkVars, Shrinks
<1>3. CASE \E r \in Requests : \/ SaveMember(r) \/ SaveInvitation(r) \/ SaveByToken(r)
                               \/ Join(r) \/ SaveLink(r)
  <2> PICK r \in Requests : \/ SaveMember(r) \/ SaveInvitation(r) \/ SaveByToken(r)
                             \/ Join(r) \/ SaveLink(r)
    BY <1>3
  <2>1. seatCap' = seatCap
    BY DEF SaveMember, SaveInvitation, SaveByToken, Join, SaveLink, Writing
  <2> QED BY <2>1, MemberStep, InvitationStep, TokenStep, JoinStep, LinkStep
<1>4. CASE \E p \in People : LapseInvitation(p)
  <2> PICK p \in People : LapseInvitation(p)
    BY <1>4
  <2>1. invite[p] \in InviteRow /\ invite'[p] = [invite[p] EXCEPT !.status = "lapsed"]
    BY DEF LapseInvitation, Inv, TypeOK, InviteRow
  <2>2. invite'[p].status = "lapsed" /\ \A q \in People \ {p} : invite'[q] = invite[q]
    BY <2>1 DEF InviteRow, LapseInvitation, Inv, TypeOK
  <2>3. \A q \in People : invite'[q].status = "pending" /\ invite'[q].role = "internal" =>
           invite[q].status = "pending" /\ invite[q].role = "internal"
    BY <2>2
  <2> QED BY <2>3, Grows DEF LapseInvitation, linkVars, Shrinks
<1>5. CASE \E l \in Links : LapseLink(l)
  <2> PICK l \in Links : LapseLink(l)
    BY <1>5
  <2>1. \A k \in Links : status'[k] = "active" /\ k \notin overdue' =>
           status[k] = "active" /\ k \notin overdue
    BY DEF LapseLink
  <2> QED BY <2>1, Grows DEF LapseLink, peopleVars, Shrinks
<1>6. CASE \/ \E r \in Requests : Begin(r) \/ LockBilling(r) \/ BreakDeadlock(r) \/ GiveUp(r)
           \/ ChangePlan \/ UNCHANGED vars
  <2>1. NoRows
    BY <1>6 DEF Begin, LockBilling, BreakDeadlock, GiveUp, ChangePlan, vars, peopleVars,
                linkVars, NoRows
  <2> QED BY <2>1, NoRowsShrinks DEF Inv
<1> QED BY <1>1, <1>2, <1>3, <1>4, <1>5, <1>6 DEF Next, Proceed

LEMMA RoomAlways == Spec => [](Inv /\ RowInv /\ Room)
<1>1. Init => Inv /\ RowInv /\ Room
  BY InvInit, RowInvInit, RoomInit
<1>2. Inv /\ RowInv /\ Room /\ [Next]_vars => (Inv /\ RowInv /\ Room)'
  BY InvNext, HeldNext, TokensNext, RoomNext DEF RowInv
<1> QED BY <1>1, <1>2, PTL DEF Spec

\* What a claim or an accept leads to is within the plan; a claim of links takes
\* no seat.
LEMMA ClaimsFit ==
    ASSUME Inv, Room, NEW r \in Requests, seatCap' = seatCap
    PROVE  /\ ClaimsSeat(r) \/ TurnsMember(r) => ~Exceeds(Taken', seatCap')
           /\ ClaimsLink(r) => ~Exceeds(Opened', LinkCap)
<1>1. seatCap \in Nat /\ LinkCap \in Nat
  BY ConstantsAssumption DEF Inv, TypeOK
<1>2. CASE ClaimsSeat(r)
  <2>1. /\ Cardinality(Taken') <= Cardinality(Taken) + 1
        /\ Cardinality(Taken') \in Nat /\ Cardinality(Taken) \in Nat
    BY <1>2, SetsFinite, GainsOne DEF ClaimsSeat
  <2>2. ~OverLimit(Cardinality(Taken), 1, seatCap)
    BY <1>2 DEF ClaimsSeat, Room
  <2>3. ~Exceeds(Taken', seatCap')
    BY <1>1, <2>1, <2>2 DEF OverLimit, Exceeds
  <2> QED BY <1>2, <2>3 DEF ClaimsSeat, ClaimsLink
<1>3. CASE TurnsMember(r)
  <2>1. /\ Cardinality(Taken') <= Cardinality(Taken)
        /\ Cardinality(Taken') \in Nat /\ Cardinality(Taken) \in Nat
    BY <1>3, SetsFinite, Exchanges DEF TurnsMember
  <2>2. ~OverLimit(Cardinality(Taken), 0, seatCap)
    BY <1>3 DEF TurnsMember, Room
  <2>3. ~Exceeds(Taken', seatCap')
    BY <1>1, <2>1, <2>2 DEF OverLimit, Exceeds
  <2> QED BY <1>3, <2>3 DEF TurnsMember, ClaimsLink
<1>4. CASE ClaimsLink(r)
  <2>1. /\ Cardinality(Opened') <= Cardinality(Opened) + 1
        /\ Cardinality(Opened') \in Nat /\ Cardinality(Opened) \in Nat
    BY <1>4, SetsFinite, GainsOne DEF ClaimsLink
  <2>2. ~OverLimit(Cardinality(Opened), 1, LinkCap)
    BY <1>4 DEF ClaimsLink, Room
  <2>3. ~Exceeds(Opened', LinkCap)
    BY <1>1, <2>1, <2>2 DEF OverLimit, Exceeds
  <2> QED BY <1>4, <2>3 DEF ClaimsSeat, TurnsMember, ClaimsLink
<1> QED BY <1>2, <1>3, <1>4

\* What does not grow has no more members than before.
LEMMA NoMore ==
    /\ Taken' \subseteq Taken => ~(Cardinality(Taken') > Cardinality(Taken))
    /\ Opened' \subseteq Opened => ~(Cardinality(Opened') > Cardinality(Opened))
  BY SetsFinite, Shrunk

\* SeatsRise: the count that a claim makes under the lock still holds when it
\* writes, whatever is written without the lock meanwhile.
THEOREM SeatsWithinPlan == Spec => SeatsRise
<1>1. Inv /\ RowInv /\ Room /\ [Next]_vars =>
        [ Cardinality((Seats \ unchecked)') > Cardinality(Seats \ unchecked)
            => ~Exceeds((Seats \ unchecked)', seatCap') ]_vars
  <2>1. ASSUME Inv, RowInv, Room, [Next]_vars, Cardinality(Taken') > Cardinality(Taken)
        PROVE  ~Exceeds(Taken', seatCap')
    BY <2>1, EveryStep, ClaimsFit, NoMore DEF Shrinks, ClaimsLink
  <2> QED BY <2>1 DEF Taken
<1> QED BY <1>1, RoomAlways, PTL DEF Spec, SeatsRise

\* LinksRise: the same of links, which are written on a second connection while
\* the first holds the lock.
THEOREM LinksWithinPlan == Spec => LinksRise
<1>1. Inv /\ RowInv /\ Room /\ [Next]_vars =>
        [ Cardinality((Live \ unchecked)') > Cardinality(Live \ unchecked)
            => ~Exceeds((Live \ unchecked)', LinkCap) ]_vars
  <2>1. ASSUME Inv, RowInv, Room, [Next]_vars, Cardinality(Opened') > Cardinality(Opened)
        PROVE  ~Exceeds(Opened', LinkCap)
    BY <2>1, EveryStep, ClaimsFit, NoMore DEF Shrinks, ClaimsSeat, TurnsMember
  <2> QED BY <2>1 DEF Opened
<1> QED BY <1>1, RoomAlways, PTL DEF Spec, LinksRise

\* JoinsFit: whoever becomes an internal member while nothing is unchecked does so
\* with a seat claimed for it, or with that of an invitation that held one while
\* the plan was large enough for all.
THEOREM MembersWithinPlan == Spec => JoinsFit
<1>1. Inv /\ RowInv /\ Room /\ [Next]_vars =>
        [ \A p \in People :
            member[p] # "internal" /\ member'[p] = "internal" /\ Seats' \cap unchecked' = {}
               => ~Exceeds(Seats', seatCap') ]_vars
  <2>1. ASSUME Inv, RowInv, Room, [Next]_vars, NEW p \in People,
               member[p] # "internal", member'[p] = "internal", Seats' \cap unchecked' = {}
        PROVE  ~Exceeds(Seats', seatCap')
    <3>1. Taken' = Seats'
      BY <2>1 DEF Taken
    <3>2. <<"member", p>> \in Taken' /\ <<"member", p>> \notin Taken
      BY <2>1, <3>1 DEF Taken, Seats
    <3>3. ~(Taken' \subseteq Taken)
      BY <3>2
    <3>4. ~Exceeds(Taken', seatCap')
      BY <2>1, <3>3, EveryStep, ClaimsFit DEF Shrinks, ClaimsLink
    <3> QED BY <3>1, <3>4 DEF Exceeds
  <2> QED BY <2>1
<1> QED BY <1>1, RoomAlways, PTL DEF Spec, JoinsFit

-----------------------------------------------------------------------------
(* The plan as a limit on what there is.                                   *)

LEMMA WithinShrinks ==
    ASSUME NEW S, NEW T, IsFiniteSet(S), T \subseteq S, NEW cap \in Nat, ~Exceeds(S, cap),
           NEW new \in Nat, new = 0 \/ (cap > 0 /\ new >= cap)
    PROVE  ~Exceeds(T, new)
<1>1. /\ Cardinality(T) <= Cardinality(S)
      /\ Cardinality(T) \in Nat /\ Cardinality(S) \in Nat
  BY Shrunk, FS_CardinalityType
<1> QED BY <1>1 DEF Exceeds, OverLimit

\* A change to a plan with as many seats, or without a limit.
Upgrade == seatCap' = 0 \/ (seatCap > 0 /\ seatCap' >= seatCap)

LEMMA NothingUncheckedAtFirst == Init => Seats \ unchecked = Seats /\ Live \ unchecked = Live
  BY DEF Init

\* A workspace that begins within its plan, and whose plan is not downgraded, never
\* has more claimed seats than the plan grants, whatever overlaps.
THEOREM ClaimedSeatsStayWithin ==
    Spec /\ ~Exceeds(Seats, seatCap) /\ [][Upgrade]_seatCap
      => [](~Exceeds(Seats \ unchecked, seatCap))
<1> DEFINE Within == ~Exceeds(Seats \ unchecked, seatCap)
<1>1. Init /\ ~Exceeds(Seats, seatCap) => Within
  BY NothingUncheckedAtFirst DEF Exceeds
<1>2. Inv /\ Inv' /\ RowInv /\ Room /\ Within /\ [Next]_vars /\ [Upgrade]_seatCap => Within'
  <2> SUFFICES ASSUME Inv, Inv', RowInv, Room, ~Exceeds(Taken, seatCap), [Next]_vars,
                      [Upgrade]_seatCap
               PROVE  ~Exceeds(Taken', seatCap')
    BY DEF Taken
  <2>1. seatCap \in Nat /\ seatCap' \in Nat
    BY ConstantsAssumption DEF Inv, TypeOK
  <2>2. seatCap' = 0 \/ (seatCap > 0 /\ seatCap' >= seatCap) \/ (seatCap = 0 /\ seatCap' = 0)
    BY <2>1 DEF Upgrade
  <2>3. CASE Taken' \subseteq Taken
    BY <2>1, <2>2, <2>3, SetsFinite, WithinShrinks
  <2>4. CASE ~(Taken' \subseteq Taken)
    BY <2>4, EveryStep, ClaimsFit DEF Shrinks, ClaimsLink
  <2> QED BY <2>3, <2>4
<1> QED BY <1>1, <1>2, RoomAlways, PTL DEF Spec

\* The same of links.
THEOREM ClaimedLinksStayWithin ==
    Spec /\ ~Exceeds(Live, LinkCap) => [](~Exceeds(Live \ unchecked, LinkCap))
<1> DEFINE Within == ~Exceeds(Live \ unchecked, LinkCap)
<1>1. Init /\ ~Exceeds(Live, LinkCap) => Within
  BY NothingUncheckedAtFirst DEF Exceeds
<1>2. Inv /\ RowInv /\ Room /\ Within /\ [Next]_vars => Within'
  <2> SUFFICES ASSUME Inv, RowInv, Room, ~Exceeds(Opened, LinkCap), [Next]_vars
               PROVE  ~Exceeds(Opened', LinkCap)
    BY DEF Opened
  <2>1. LinkCap \in Nat /\ (LinkCap = 0 \/ (LinkCap > 0 /\ LinkCap >= LinkCap))
    BY ConstantsAssumption
  <2>2. CASE Opened' \subseteq Opened
    BY <2>1, <2>2, SetsFinite, WithinShrinks
  <2>3. CASE ~(Opened' \subseteq Opened)
    BY <2>3, EveryStep, ClaimsFit DEF Shrinks, ClaimsSeat, TurnsMember
  <2> QED BY <2>2, <2>3
<1> QED BY <1>1, <1>2, RoomAlways, PTL DEF Spec

-----------------------------------------------------------------------------
(* One request at a time: nothing is taken unchecked.                      *)

OneRequest == \A r, q \in Requests : r = q

\* While nothing lapses, what a request read is what it finds when it writes.
Fresh(r) ==
    /\ ~found[r].lapsed
    /\ op[r].do \in {"add", "role", "remove"} => found[r].was = member[op[r].on]
    /\ op[r].do \in {"resend", "inviteRole", "revoke"} => found[r].was = invite[op[r].on].role
    /\ op[r].do = "create" /\ at[r] # "clear" =>
          invite[op[r].on].role = "none" /\ found[r].was = "none"
    /\ op[r].do = "create" => found[r].was = "none"

NothingLapsed ==
    /\ overdue = {}
    /\ \A p \in People : /\ invite[p].status # "lapsed"
                         /\ invite[p].status = "none" => invite[p].role = "none"

SerialInv ==
    /\ NothingLapsed /\ unchecked = {}
    /\ \A r \in Requests : at[r] # "idle" => Fresh(r)

\* A request that begins alone has just read its row.
LEMMA SubmitFresh ==
    ASSUME OneRequest, Inv, SerialInv, NEW r \in Requests, Submit(r)
    PROVE  SerialInv'
<1>1. UNCHANGED <<member, invite, overdue, unchecked>>
  BY SubmitStarts DEF Start, NoRows, peopleVars, linkVars, Inv
<1>2. ASSUME NEW o, NEW was, NEW lapsed, NEW label, Start(r, label, o, was, lapsed), ~lapsed,
             o.do \in {"add", "role", "remove"} => was = member[o.on],
             o.do \in {"resend", "inviteRole", "revoke"} => was = invite[o.on].role,
             o.do = "create" => was = "none" /\ (label # "clear" => invite[o.on].role = "none")
      PROVE  Fresh(r)'
  <2>1. op'[r] = o /\ found'[r] = [was |-> was, lapsed |-> lapsed] /\ at'[r] = label
    BY <1>2 DEF Start, Inv, TypeOK
  <2>2. found'[r].was = was /\ found'[r].lapsed = lapsed
    BY <2>1
  <2> QED BY <1>1, <1>2, <2>1, <2>2 DEF Fresh
<1>3. \A p \in People : ~(invite[p].status = "lapsed")
  BY DEF SerialInv, NothingLapsed
<1>4. ASSUME NEW p \in People, NEW role \in Roles, CreateInvitation(r, p, role) PROVE Fresh(r)'
  <2>1. CASE Invited(p)
    <3> DEFINE o == [do |-> "resend", on |-> p, to |-> role, token |-> 0,
                     need |-> ResendNeed(invite[p].role, role)]
    <3>1. Decided(r, o, invite[p].role, invite[p].status = "lapsed")
      BY <1>4, <2>1 DEF CreateInvitation
    <3>2. o.do = "resend" /\ o.on = p
      OBVIOUS
    <3> HIDE DEF o
    <3> QED BY <1>2, <1>3, <3>1, <3>2 DEF Decided
  <2>2. CASE ~Invited(p)
    <3> DEFINE o == [do |-> "create", on |-> p, to |-> role, token |-> 0,
                     need |-> Need(FALSE, Seat(role))]
    <3>1. \/ invite[p].status = "used" /\ Start(r, "clear", o, "none", FALSE)
          \/ invite[p].status # "used" /\ Decided(r, o, "none", FALSE)
      BY <1>4, <2>2 DEF CreateInvitation
    <3>2. o.do = "create" /\ o.on = p
      OBVIOUS
    <3>3. invite[p].status # "used" => invite[p].role = "none"
      BY <2>2 DEF Invited, Inv, TypeOK, SerialInv, NothingLapsed
    <3> HIDE DEF o
    <3> QED BY <1>2, <3>1, <3>2, <3>3 DEF Decided
  <2> QED BY <2>1, <2>2
<1>5. ASSUME NEW p \in People, NEW do \in {"add", "role", "remove"}, NEW to, NEW need,
             Decided(r, [do |-> do, on |-> p, to |-> to, token |-> 0, need |-> need],
                     member[p], FALSE)
      PROVE  Fresh(r)'
  <2> DEFINE o == [do |-> do, on |-> p, to |-> to, token |-> 0, need |-> need]
  <2>1. o.do = do /\ o.on = p /\ Decided(r, o, member[p], FALSE)
    BY <1>5
  <2> HIDE DEF o
  <2> QED BY <1>2, <2>1 DEF Decided
<1>6. ASSUME NEW p \in People, NEW role \in Roles,
             \/ AddMember(r, p, role) \/ UpdateMemberRole(r, p, role) \/ RemoveMember(r, p)
      PROVE  Fresh(r)'
  <2>1. CASE AddMember(r, p, role)
    <3>1. Decided(r, [do |-> "add", on |-> p, to |-> role, token |-> 0,
                      need |-> Need(FALSE, Seat(role))], member[p], FALSE)
      BY <2>1 DEF AddMember
    <3> QED BY <1>5, <3>1
  <2>2. CASE UpdateMemberRole(r, p, role)
    <3>1. Decided(r, [do |-> "role", on |-> p, to |-> role, token |-> 0,
                      need |-> Need(Seat(member[p]), Seat(role))], member[p], FALSE)
      BY <2>2 DEF UpdateMemberRole
    <3> QED BY <1>5, <3>1
  <2>3. CASE RemoveMember(r, p)
    <3>1. Decided(r, [do |-> "remove", on |-> p, to |-> "none", token |-> 0,
                      need |-> Need(Seat(member[p]), FALSE)], member[p], FALSE)
      BY <2>3 DEF RemoveMember
    <3> QED BY <1>5, <3>1
  <2> QED BY <1>6, <2>1, <2>2, <2>3
<1>7. ASSUME NEW p \in People, NEW role \in Roles,
             UpdateInvitationRole(r, p, role) \/ RevokeInvitation(r, p) \/ AcceptInvitation(r, p)
      PROVE  Fresh(r)'
  <2>1. CASE UpdateInvitationRole(r, p, role)
    <3> DEFINE o == [do |-> "inviteRole", on |-> p, to |-> role, token |-> invite[p].token,
                     need |-> Need(Seat(invite[p].role), Seat(role))]
    <3>1. /\ o.do = "inviteRole" /\ o.on = p
          /\ Decided(r, o, invite[p].role, invite[p].status = "lapsed")
      BY <2>1 DEF UpdateInvitationRole
    <3> HIDE DEF o
    <3> QED BY <1>2, <1>3, <3>1 DEF Decided
  <2>2. CASE RevokeInvitation(r, p)
    <3> DEFINE o == [do |-> "revoke", on |-> p, to |-> "none", token |-> invite[p].token,
                     need |-> Need(Seat(invite[p].role), FALSE)]
    <3>1. o.do = "revoke" /\ o.on = p /\ Decided(r, o, invite[p].role, FALSE)
      BY <2>2 DEF RevokeInvitation
    <3> HIDE DEF o
    <3> QED BY <1>2, <3>1 DEF Decided
  <2>3. CASE AcceptInvitation(r, p)
    <3> DEFINE o == [do |-> "accept", on |-> p, to |-> "none",
                     token |-> invite[p].token, need |-> "fit"]
    <3>1. o.do = "accept" /\ Start(r, "begin", o, "none", FALSE)
      BY <2>3 DEF AcceptInvitation
    <3> HIDE DEF o
    <3> QED BY <1>2, <3>1
  <2> QED BY <1>7, <2>1, <2>2, <2>3
<1>8. ASSUME NEW do \in LinkOps, NEW l, NEW to, NEW need, NEW was,
             Decided(r, LinkOp(do, l, to, need), was, FALSE)
      PROVE  Fresh(r)'
  <2> DEFINE o == LinkOp(do, l, to, need)
  <2>1. o.do \in LinkOps /\ Decided(r, o, was, FALSE)
    BY <1>8 DEF LinkOp
  <2> HIDE DEF o
  <2> QED BY <1>2, <2>1 DEF Decided, LinkOps
<1>9. ASSUME NEW l \in Links,
             \/ CreateLink(r, l) \/ RenewLink(r, l) \/ UpdateLink(r, l)
             \/ \E to \in {"active", "revoked", "archived", "deleted"} : SetStatus(r, l, to)
      PROVE  Fresh(r)'
  <2>1. {"newLink", "status", "renew", "extend"} \subseteq LinkOps
    BY DEF LinkOps
  <2>2. CASE CreateLink(r, l)
    BY <1>8, <2>1, <2>2 DEF CreateLink
  <2>3. CASE RenewLink(r, l)
    BY <1>8, <2>1, <2>3 DEF RenewLink
  <2>4. CASE UpdateLink(r, l)
    BY <1>8, <2>1, <2>4 DEF UpdateLink
  <2>5. ASSUME NEW to \in {"active", "revoked", "archived", "deleted"}, SetStatus(r, l, to)
        PROVE  Fresh(r)'
    BY <1>8, <2>1, <2>5 DEF SetStatus
  <2> QED BY <1>9, <2>2, <2>3, <2>4, <2>5
<1>10. ASSUME ExpirePastDueLinks(r) PROVE Fresh(r)'
  <2>1. Decided(r, LinkOp("sweep", "none", "expired", "lock"), "none", FALSE)
    BY <1>10 DEF ExpirePastDueLinks
  <2>2. "sweep" \in LinkOps
    BY DEF LinkOps
  <2> QED BY <1>8, <2>1, <2>2
<1>11. Fresh(r)'
  BY <1>4, <1>6, <1>7, <1>9, <1>10 DEF Submit, Roles
<1> QED BY <1>1, <1>11 DEF OneRequest, SerialInv, NothingLapsed

\* A request that leaves has nothing left to be fresh about.
LEMMA LeaveSerial ==
    ASSUME OneRequest, Inv, SerialInv, NEW r \in Requests, Leave(r), NothingLapsed',
           unchecked' = {}
    PROVE  SerialInv'
  BY DEF OneRequest, SerialInv, Leave, Inv, TypeOK

\* While the rows stay, a request that goes on stays fresh.
LEMMA GotoSerial ==
    ASSUME OneRequest, Inv, SerialInv, NEW r \in Requests, NEW label, Goto(r, label),
           at[r] # "clear", at[r] # "idle", UNCHANGED <<member, invite, overdue, unchecked>>
    PROVE  SerialInv'
<1>1. op' = op /\ found' = found /\ Fresh(r)
  BY DEF Goto, SerialInv
<1>2. Fresh(r)'
  BY <1>1 DEF Fresh
<1> QED BY <1>2 DEF OneRequest, SerialInv, NothingLapsed

LEMMA RowFields ==
    ASSUME NEW row \in InviteRow, NEW role \in Roles
    PROVE  /\ [row EXCEPT !.role = role].status = row.status
           /\ [row EXCEPT !.status = "used"].status = "used"
           /\ NoInvite.status = "none" /\ NoInvite.role = "none"
  BY DEF InviteRow, NoInvite

LEMMA InviteLapses ==
    ASSUME Inv, SerialInv, NEW p \in People, NEW row \in InviteRow, SetInvite(p, row),
           overdue' = {}, row.status # "lapsed", row.status = "none" => row.role = "none"
    PROVE  NothingLapsed'
  BY DEF SerialInv, NothingLapsed, SetInvite, Inv, TypeOK

LEMMA SerialStep ==
    ASSUME OneRequest, MaxFaults = 0, Inv, SerialInv, [Next]_vars
    PROVE  SerialInv'
<1>1. CASE \E r \in Requests : Submit(r)
  BY <1>1, SubmitFresh
<1>2. ASSUME NEW r \in Requests, Begin(r) \/ LockBilling(r) \/ BreakDeadlock(r) \/ GiveUp(r)
      PROVE  SerialInv'
  <2>1. UNCHANGED <<member, invite, overdue, unchecked>> /\ NothingLapsed'
    BY <1>2 DEF Begin, LockBilling, BreakDeadlock, GiveUp, NoRows, peopleVars, linkVars,
                SerialInv, NothingLapsed
  <2>2. CASE Leave(r)
    BY <2>1, <2>2, LeaveSerial DEF SerialInv
  <2>3. CASE ~Leave(r)
    <3>1. /\ at[r] \in {"begin", "lock"}
          /\ \E label : Goto(r, label)
      BY <1>2, <2>3 DEF Begin, LockBilling, BreakDeadlock, GiveUp
    <3> QED BY <2>1, <3>1, GotoSerial
  <2> QED BY <2>2, <2>3
<1>3. ASSUME NEW r \in Requests, ClearUsed(r) PROVE SerialInv'
  <2> DEFINE p == op[r].on
  <2>1. /\ at[r] = "clear" /\ op[r].do = "create" /\ p \in People
        /\ found[r].was = "none" /\ ~found[r].lapsed
    BY <1>3 DEF ClearUsed, Inv, Decisions, Fits, Placed, SerialInv, Fresh
  <2>2. UNCHANGED <<member, overdue, op, found>> /\ invite' = [invite EXCEPT ![p] = NoInvite]
    BY <1>3 DEF ClearUsed, Goto, linkVars
  <2>3. invite'[p].role = "none" /\ unchecked' = {}
    BY <1>3, <2>1, <2>2 DEF NoInvite, Inv, TypeOK, ClearUsed, Blame, SerialInv
  <2>4. NothingLapsed'
    BY <2>1, <2>2, InviteLapses, RowUpdates DEF SetInvite, NoInvite, SerialInv, NothingLapsed
  <2>5. Fresh(r)'
    BY <2>1, <2>2, <2>3 DEF Fresh
  <2> QED BY <2>3, <2>4, <2>5 DEF OneRequest, SerialInv
<1>4. ASSUME NEW r \in Requests, LockInvitation(r) PROVE SerialInv'
  <2> DEFINE p == op[r].on
  <2>1. /\ at[r] = "row" /\ op[r].do = "accept" /\ p \in People /\ overdue' = overdue
        /\ unchecked' = {} /\ member' = member
    BY <1>4 DEF LockInvitation, Inv, Decisions, Fits, Placed, SerialInv, Blame, linkVars
  <2>2. NothingLapsed'
    BY <1>4, <2>1 DEF LockInvitation, SerialInv, NothingLapsed, Inv, TypeOK
  <2>3. CASE Leave(r)
    BY <2>1, <2>2, <2>3, LeaveSerial
  <2>4. CASE ~Leave(r)
    <3>1. op' = op /\ found' = found
      BY <1>4, <2>4 DEF LockInvitation, Goto
    <3>2. Fresh(r)'
      BY <2>1, <3>1 DEF Fresh, SerialInv
    <3> QED BY <2>1, <2>2, <3>2 DEF OneRequest, SerialInv
  <2> QED BY <2>3, <2>4
<1>5. ASSUME NEW r \in Requests, SaveMember(r) PROVE SerialInv'
  <2>1. ~Outdated(r, member[op[r].on], FALSE)
    BY <1>5 DEF SaveMember, Writing, Outdated, SerialInv, Fresh
  <2>2. Leave(r) /\ unchecked' = {}
    BY <1>5, <2>1 DEF SaveMember, Writing, Blame, SerialInv
  <2>3. NothingLapsed'
    BY <1>5 DEF SaveMember, linkVars, SerialInv, NothingLapsed
  <2> QED BY <2>2, <2>3, LeaveSerial
<1>6. ASSUME NEW r \in Requests, SaveInvitation(r) PROVE SerialInv'
  <2> DEFINE p == op[r].on
  <2>1. /\ at[r] = "write" /\ op[r].do \in {"create", "resend"} /\ p \in People
        /\ op[r].to \in Roles /\ Fresh(r) /\ Leave(r) /\ overdue' = overdue
        /\ issued \in [People -> Nat]
    BY <1>6 DEF SaveInvitation, Writing, linkVars, Inv, TypeOK, Decisions, Fits, SerialInv
  <2>2. ~Outdated(r, invite[p].role, invite[p].status = "lapsed")
    BY <2>1 DEF Outdated, Fresh, SerialInv, NothingLapsed
  <2>3. unchecked' = {}
    BY <1>6, <2>2 DEF SaveInvitation, Blame, SerialInv
  <2>4. NothingLapsed'
    <3> DEFINE row == [status |-> "pending", role |-> op[r].to, token |-> issued[p] + 1]
    <3>1. row \in InviteRow /\ row.status = "pending"
      BY <2>1 DEF InviteRow
    <3>2. SetInvite(p, row) \/ invite' = invite
      BY <1>6 DEF SaveInvitation
    <3> HIDE DEF row
    <3> QED BY <2>1, <3>1, <3>2, InviteLapses DEF SerialInv, NothingLapsed
  <2> QED BY <2>1, <2>3, <2>4, LeaveSerial
<1>7. ASSUME NEW r \in Requests, SaveByToken(r) PROVE SerialInv'
  <2> DEFINE p == op[r].on
  <2>1. /\ at[r] = "write" /\ op[r].do \in {"inviteRole", "revoke"} /\ p \in People
        /\ op[r].do = "inviteRole" => op[r].to \in Roles
        /\ Fresh(r) /\ Leave(r) /\ overdue' = overdue
    BY <1>7 DEF SaveByToken, Writing, linkVars, Inv, TypeOK, Decisions, Fits, SerialInv
  <2>2. ~Outdated(r, invite[p].role, FALSE)
    BY <2>1 DEF Outdated, Fresh
  <2>3. unchecked' = {}
    BY <1>7, <2>2 DEF SaveByToken, Blame, SerialInv
  <2>4. NothingLapsed'
    <3>1. CASE invite' = invite
      BY <2>1, <3>1 DEF SerialInv, NothingLapsed
    <3>2. CASE SetInvite(p, NoInvite)
      <4>1. NoInvite \in InviteRow /\ NoInvite.status = "none" /\ NoInvite.role = "none"
        BY DEF NoInvite, InviteRow
      <4> QED BY <2>1, <3>2, <4>1, InviteLapses DEF SerialInv, NothingLapsed
    <3>3. CASE /\ Invited(p) /\ op[r].do = "inviteRole"
               /\ SetInvite(p, [invite[p] EXCEPT !.role = op[r].to])
      <4> DEFINE row == [invite[p] EXCEPT !.role = op[r].to]
      <4>0. invite[p] \in InviteRow /\ op[r].to \in Roles
        BY <2>1, <3>3 DEF Inv, TypeOK, InviteRow
      <4>1. row \in InviteRow /\ row.status = invite[p].status
        BY <4>0, RowUpdates, RowFields
      <4> HIDE DEF row
      <4>2. SetInvite(p, row)
        BY <3>3 DEF row
      <4> QED BY <2>1, <3>3, <4>1, <4>2, InviteLapses DEF Invited, SerialInv, NothingLapsed
    <3> QED BY <1>7, <3>1, <3>2, <3>3 DEF SaveByToken, Writing
  <2> QED BY <2>1, <2>3, <2>4, LeaveSerial
<1>8. ASSUME NEW r \in Requests, Join(r) PROVE SerialInv'
  <2> DEFINE p == op[r].on
  <2>1. op[r].do = "accept" /\ p \in People /\ Leave(r) /\ overdue' = overdue
    BY <1>8 DEF Join, Writing, linkVars, Inv, Decisions, Fits
  <2>2. unchecked' = {}
    BY <1>8, <2>1 DEF Join, Blame, SerialInv, NothingLapsed
  <2>3. NothingLapsed'
    <3> DEFINE row == [invite[p] EXCEPT !.status = "used"]
    <3>0. invite[p] \in InviteRow /\ "guest" \in Roles
      BY <2>1 DEF Inv, TypeOK, InviteRow, Roles
    <3>1. row \in InviteRow /\ row.status = "used"
      BY <3>0, RowUpdates, RowFields
    <3>2. SetInvite(p, row) \/ invite' = invite
      BY <1>8 DEF Join
    <3> HIDE DEF row
    <3> QED BY <2>1, <3>1, <3>2, InviteLapses DEF SerialInv, NothingLapsed
  <2> QED BY <2>1, <2>2, <2>3, LeaveSerial
<1>9. ASSUME NEW r \in Requests, SaveLink(r) PROVE SerialInv'
  <2>1. Leave(r) /\ invite' = invite
    BY <1>9 DEF SaveLink, Writing, peopleVars
  <2>2. overdue' = {} /\ unchecked' = {}
    BY <1>9 DEF SaveLink, Blame, SerialInv, NothingLapsed
  <2>3. NothingLapsed'
    BY <2>1, <2>2 DEF SerialInv, NothingLapsed
  <2> QED BY <2>1, <2>2, <2>3, LeaveSerial
<1>10. ~(\E p \in People : LapseInvitation(p)) /\ ~(\E l \in Links : LapseLink(l)) /\ ~ChangePlan
  BY DEF LapseInvitation, LapseLink, ChangePlan, Fault, Inv, TypeOK
<1>11. CASE UNCHANGED vars
  BY <1>11 DEF vars, control, peopleVars, linkVars, SerialInv, NothingLapsed, Fresh
<1> QED BY <1>1, <1>2, <1>3, <1>4, <1>5, <1>6, <1>7, <1>8, <1>9, <1>10, <1>11 DEF Next, Proceed

LEMMA SerialInit == Init => SerialInv
<1> SUFFICES ASSUME Init PROVE SerialInv
  OBVIOUS
<1> PICK w \in Workspaces :
      invite = [p \in People |-> IF w.invite[p] = "none" THEN NoInvite
                                 ELSE [status |-> "pending", role |-> w.invite[p], token |-> 1]]
  BY DEF Init
<1>1. \A p \in People : /\ invite[p].status # "lapsed"
                        /\ invite[p].status = "none" => invite[p].role = "none"
  BY DEF NoInvite
<1> QED BY <1>1 DEF Init, SerialInv, NothingLapsed

\* What is excepted from the quota comes from overlaps and lapses alone: requests
\* served one after the other, while nothing lapses, take no seat and no link that
\* was not claimed.
THEOREM SerialIsChecked ==
    ASSUME OneRequest, MaxFaults = 0 PROVE Spec => [](unchecked = {})
<1>1. Inv /\ SerialInv /\ [Next]_vars => SerialInv'
  BY SerialStep
<1>2. SerialInv => unchecked = {}
  BY DEF SerialInv
<1> QED BY <1>1, <1>2, InvInit, InvNext, SerialInit, PTL DEF Spec

\* Served in that way, a workspace that begins within its plan stays within it.
THEOREM SerialStaysWithin ==
    ASSUME OneRequest, MaxFaults = 0
    PROVE  Spec /\ ~Exceeds(Seats, seatCap) /\ ~Exceeds(Live, LinkCap)
             => [](~Exceeds(Seats, seatCap) /\ ~Exceeds(Live, LinkCap))
<1>1. Inv /\ [Next]_vars => [Upgrade]_seatCap
  <2> SUFFICES ASSUME Inv, Next PROVE seatCap' = seatCap
    BY DEF vars
  <2>1. ~ChangePlan
    BY DEF ChangePlan, Fault, Inv, TypeOK
  <2>2. ASSUME NEW r \in Requests, Submit(r) PROVE seatCap' = seatCap
    BY <2>2, SubmitStarts DEF Start, Inv
  <2>3. ASSUME NEW r \in Requests, Proceed(r) \/ GiveUp(r) PROVE seatCap' = seatCap
    BY <2>3 DEF Proceed, GiveUp, ClearUsed, Begin, LockInvitation, LockBilling, SaveMember,
       SaveInvitation, SaveByToken, Join, SaveLink, BreakDeadlock, Writing
  <2> QED BY <2>1, <2>2, <2>3 DEF Next, LapseInvitation, LapseLink
<1>2. unchecked = {} /\ ~Exceeds(Seats \ unchecked, seatCap) /\ ~Exceeds(Live \ unchecked, LinkCap)
        => ~Exceeds(Seats, seatCap) /\ ~Exceeds(Live, LinkCap)
  BY DEF Exceeds
<1> QED BY <1>1, <1>2, InvInit, InvNext, SerialIsChecked, ClaimedSeatsStayWithin,
           ClaimedLinksStayWithin, PTL DEF Spec

-----------------------------------------------------------------------------
(* The pool, and who waits for whom.                                       *)

LEMMA FreeIsInt == IsFiniteSet(InTransaction) /\ Free \in Int /\ Free <= Conns
<1>1. InTransaction \in SUBSET Requests
  BY DEF InTransaction
<1>2. IsFiniteSet(InTransaction) /\ Cardinality(InTransaction) \in Nat
  BY <1>1, FS_Subset, FS_CardinalityType, ConstantsAssumption
<1> QED BY <1>2, ConstantsAssumption DEF Free

\* No transaction begins without a connection, so the pool never runs below zero.
PoolInv == Free >= 0

LEMMA PoolInit == Init => PoolInv
<1> SUFFICES ASSUME Init PROVE PoolInv
  OBVIOUS
<1>1. InTransaction = {}
  BY DEF Init, InTransaction
<1> QED BY <1>1, FS_EmptySet, ConstantsAssumption DEF PoolInv, Free

LEMMA PoolNext == Inv /\ PoolInv /\ [Next]_vars => PoolInv'
<1> SUFFICES ASSUME Inv, PoolInv, [Next]_vars PROVE PoolInv'
  OBVIOUS
<1>1. ASSUME InTransaction' \subseteq InTransaction PROVE PoolInv'
  <2>1. /\ Cardinality(InTransaction') <= Cardinality(InTransaction)
        /\ Cardinality(InTransaction') \in Nat
    BY <1>1, FreeIsInt, Shrunk
  <2> QED BY <2>1, FreeIsInt, FS_CardinalityType, ConstantsAssumption DEF PoolInv, Free
<1>2. ASSUME NEW r \in Requests, Free > 0, InTransaction' \subseteq InTransaction \cup {r}
      PROVE  PoolInv'
  <2>1. /\ Cardinality(InTransaction') <= Cardinality(InTransaction) + 1
        /\ Cardinality(InTransaction') \in Nat /\ Cardinality(InTransaction) \in Nat
    BY <1>2, FreeIsInt, GainsOne
  <2> QED BY <1>2, <2>1, ConstantsAssumption DEF PoolInv, Free
<1>3. CASE \E r \in Requests : Submit(r)
  <2> PICK r \in Requests : Submit(r)
    BY <1>3
  <2> PICK o \in Ops, f \in Finds, label \in {"clear", "begin", "write"} :
              /\ Start(r, label, o, f.was, f.lapsed)
              /\ label = "write" <=> o.need = "none" /\ label # "clear"
    BY SubmitStarts DEF Inv
  <2>1. InTransaction' \subseteq InTransaction
    BY DEF Start, InTransaction, Inv, TypeOK
  <2> QED BY <1>1, <2>1
<1>4. CASE \E r \in Requests : Begin(r)
  <2> PICK r \in Requests : Begin(r)
    BY <1>4
  <2>1. InTransaction' \subseteq InTransaction \cup {r}
    BY DEF Begin, Goto, InTransaction, Inv, TypeOK
  <2> QED BY <1>2, <2>1 DEF Begin
<1>5. CASE \E r \in Requests : ClearUsed(r) \/ LockInvitation(r) \/ LockBilling(r)
  <2> PICK r \in Requests : ClearUsed(r) \/ LockInvitation(r) \/ LockBilling(r)
    BY <1>5
  <2>1. CASE ClearUsed(r)
    <3>1. InTransaction' \subseteq InTransaction
      BY <2>1 DEF ClearUsed, Goto, InTransaction, Inv, TypeOK
    <3> QED BY <1>1, <3>1
  <2>2. CASE LockInvitation(r) \/ LockBilling(r)
    <3>1. r \in InTransaction
      BY <2>2 DEF LockInvitation, LockBilling, InTransaction
    <3>2. \/ Leave(r) \/ \E label \in Labels : Goto(r, label)
      BY <2>2 DEF LockInvitation, LockBilling, Labels
    <3>3. InTransaction' \subseteq InTransaction
      BY <3>1, <3>2 DEF Leave, Goto, InTransaction, Inv, TypeOK
    <3> QED BY <1>1, <3>3
  <2> QED BY <2>1, <2>2
<1>6. CASE \E r \in Requests : \/ SaveMember(r) \/ SaveInvitation(r) \/ SaveByToken(r)
                               \/ Join(r) \/ SaveLink(r) \/ BreakDeadlock(r) \/ GiveUp(r)
  <2> PICK r \in Requests : Leave(r)
    BY <1>6 DEF SaveMember, SaveInvitation, SaveByToken, Join, SaveLink, Writing,
                BreakDeadlock, GiveUp
  <2>1. InTransaction' \subseteq InTransaction
    BY DEF Leave, InTransaction, Inv, TypeOK
  <2> QED BY <1>1, <2>1
<1>7. CASE \/ \E p \in People : LapseInvitation(p)
           \/ \E l \in Links : LapseLink(l)
           \/ ChangePlan \/ UNCHANGED vars
  <2>1. InTransaction' = InTransaction
    BY <1>7 DEF LapseInvitation, LapseLink, ChangePlan, vars, control, InTransaction
  <2> QED BY <1>1, <2>1
<1> QED BY <1>3, <1>4, <1>5, <1>6, <1>7 DEF Next, Proceed

\* A request waits in vain for a row only of somebody who waits in turn: whoever
\* has the row of an invitation wants the billing row or has it.
LEMMA AcceptorGoesOn ==
    ASSUME Inv, \A r \in AtWork : Waits(r),
           NEW r \in Requests, ~RowFree(r)
    PROVE  \E a \in Requests \ {r} :
              Accepting(a) /\ op[a].on = op[r].on /\ holder # {}
<1> PICK a \in Requests \ {r} : Accepting(a) /\ op[a].on = op[r].on
  BY DEF RowFree
<1>1. CASE at[a] = "write"
  <2>1. a \in holder
    BY <1>1 DEF Inv, Decisions, Placed, Fits, Accepting
  <2> QED BY <2>1
<1>2. CASE at[a] = "lock"
  <2>1. Waits(a)
    BY <1>2 DEF AtWork
  <2> QED BY <1>2, <2>1 DEF Waits, WaitsForPool, WaitsForRow, WaitsForBilling, BillingFree
<1> QED BY <1>1, <1>2 DEF Accepting

\* Nor does the holder of the billing row wait for the row of an invitation: that
\* would be a deadlock, which Postgres ends.
LEMMA HolderWaitsForPool ==
    ASSUME Inv, NEW h \in holder, Waits(h)
    PROVE  Free = 0 /\ op[h].do \in LinkOps
<1>1. h \in Requests /\ at[h] = "write" /\ op[h].need # "none"
  BY DEF Inv, TypeOK, Decisions, Placed
<1>2. CASE WaitsForRow(h)
  <2>1. op[h].do \in {"resend", "inviteRole", "revoke"}
    BY <1>1, <1>2 DEF WaitsForRow
  <2> PICK a \in Requests \ {h} : Accepting(a) /\ op[a].on = op[h].on
    BY <1>2 DEF WaitsForRow, RowFree
  <2>2. a \notin holder
    BY DEF Inv, TypeOK
  <2>3. at[a] = "lock"
    BY <2>2 DEF Inv, Decisions, Placed, Fits, Accepting
  <2>4. Deadlocked(a, h)
    BY <2>1, <2>3 DEF Deadlocked
  <2> QED BY <2>4 DEF Waits
<1>3. CASE WaitsForPool(h) \/ WaitsForBilling(h)
  BY <1>1, <1>3 DEF WaitsForPool, WaitsForBilling
<1> QED BY <1>2, <1>3 DEF Waits

\* OnlyThePoolBlocks: if everybody at work waits, the billing row has a holder, or
\* somebody could go on; the holder waits for the pool alone, and with a row lock
\* and a transaction of its own it can only be about to write a link.
THEOREM PoolAloneBlocks == Spec => []OnlyThePoolBlocks
<1>1. Inv /\ PoolInv => OnlyThePoolBlocks
  <2> SUFFICES ASSUME Inv, PoolInv, NEW r \in AtWork, \A q \in AtWork : Waits(q)
               PROVE  Free = 0 /\ \E h \in holder : op[h].do \in LinkOps
    BY DEF OnlyThePoolBlocks
  <2>1. \A h \in holder : h \in AtWork /\ h \in Requests
    BY DEF Inv, TypeOK, Decisions, Placed, AtWork
  <2>2. ASSUME holder = {} PROVE FALSE
    <3>1. \A q \in Requests : RowFree(q)
      BY <2>2, AcceptorGoesOn
    <3>2. \A q \in AtWork : WaitsForPool(q)
      BY <2>2, <3>1 DEF Waits, WaitsForRow, WaitsForBilling, BillingFree, AtWork
    <3>3. Free = 0
      BY <3>2 DEF WaitsForPool
    <3>4. ASSUME InTransaction = {} PROVE FALSE
      <4>1. Cardinality(InTransaction) = 0
        BY <3>4, FS_EmptySet
      <4> QED BY <3>3, <4>1, ConstantsAssumption DEF Free
    <3> PICK q \in InTransaction : TRUE
      BY <3>4
    <3>5. q \in Requests /\ at[q] \in {"row", "lock"}
      BY <2>2 DEF InTransaction, Inv, Decisions, Placed
    <3> QED BY <3>2, <3>5 DEF AtWork, WaitsForPool
  <2> PICK h \in holder : TRUE
    BY <2>2
  <2> QED BY <2>1, HolderWaitsForPool
<1>2. Spec => [](Inv /\ PoolInv)
  BY InvInit, InvNext, PoolInit, PoolNext, PTL DEF Spec
<1> QED BY <1>1, <1>2, PTL
=============================================================================
