----------------------------- MODULE KnowledgeAsk -----------------------------
(***************************************************************************)
(* Questions to the knowledge bases of the deal rooms of one workspace,    *)
(* and the audit of the answers (apps/api/internal/knowledge).  A question *)
(* is a request of a member of a room; it takes his lease in Redis, looks  *)
(* for the turn of an earlier request with its client request id, checks   *)
(* the plan's answers of the month, finds or creates the session, asks the *)
(* knowledge base and writes one turn, and deletes the lease.  Each of     *)
(* these is a call of its own: requests interleave between them, and any   *)
(* of them may fail.                                                       *)
(*                                                                         *)
(* The lease, the client request ids and the sessions are those of a room, *)
(* the answers of the month those of the workspace.  A user who belongs to *)
(* two rooms is two members: his lease in one does not hold the other.     *)
(*                                                                         *)
(* Once a day a retention cleaner of each replica packs the sessions that  *)
(* were idle for months, turn by turn, into an object and deletes them.    *)
(*                                                                         *)
(* A turn is named by the request that wrote it.  The answer, its sources  *)
(* and the state a session keeps of them are left out: the state is the    *)
(* set of turns it was evolved from.  The corpus is ready unless a gate    *)
(* says it is not; the access of the member likewise.  Sessions are        *)
(* created by questions only, not by the endpoint that creates one alone.  *)
(***************************************************************************)
EXTENDS Naturals, FiniteSets, FiniteSetsExt

CONSTANTS Asks,       \* requests that carry a question
          Rooms,      \* the deal rooms of the workspace
          Members,    \* members of a room, one for each room a user is in
          Requests,   \* what may be asked: by whom, client request id, question
          Sessions,   \* ids of sessions, random ones of each room
          RoomOf,     \* the room of a member, and of a session
          Cleaners,   \* retention cleaners, one in each replica
          Limit,      \* answers a month the plan includes
          MaxFaults,  \* bound on lost leases, crashes and failures of a cleaner
          MaxPauses,  \* bound on the times the rooms are left alone for months
          NoSession, NoRequest, NoAnswer

ASSUME ConstantsAssumption ==
    /\ IsFiniteSet(Asks) /\ IsFiniteSet(Members)
    /\ Limit \in Nat \ {0} /\ MaxFaults \in Nat /\ MaxPauses \in Nat
    /\ NoSession \notin Sessions /\ NoAnswer \notin Asks

ASSUME RoomsAssumption == RoomOf \in [Members \cup Sessions -> Rooms]

ASSUME RequestsAssumption ==
    NoRequest \notin Requests /\ \A r \in Requests : r.by \in Members

VARIABLES
    at,        \* how far a request is
    req,       \* what it asks for: member, client request id, question
    session,   \* the session it writes to
    saw,       \* the state of that session as it read it
    seen,      \* the active sessions its creation of a session closes
    answer,    \* the turn its response names
    leased,    \* the members whose lease is in Redis
    hot,       \* the turns in the database
    seq,       \* knowledge_qa_turns.sequence, 0 before the turn is written
    old,       \* the turns of earlier months
    status,    \* knowledge_qa_sessions.status
    state,     \* knowledge_qa_sessions.state: the turns it accounts for
    expired,   \* the sessions idle for longer than the retention
    todo,      \* the sessions a cleaner has listed
    step,      \* what a cleaner does next
    cur,       \* the session it works on
    packing,   \* the turns it read of that session
    pack,      \* the object of a session: the turns in it
    archived,  \* the sessions with a row in knowledge_qa_session_archives
    lapses,    \* (history) leases of a member lost or never taken
    late,      \* (history) turns written to a session a cleaner had read
    emptied,   \* (history) sessions whose pack a cleaner replaced by an empty one
    faults, pauses

askVars     == <<at, req, session, saw, seen, answer>>
turnVars    == <<hot, seq, old>>
sessionVars == <<status, state, expired>>
cleanerVars == <<todo, step, cur, packing, pack, archived>>
history == <<late, emptied>>
vars == <<askVars, leased, turnVars, sessionVars, cleanerVars, lapses, history,
          faults, pauses>>

\* The steps a request goes through while it counts as in flight: from the
\* lease to its deletion.
Working == {"rate", "lookup", "check", "resolve", "create", "query", "replay", "release"}

TypeOK ==
    /\ at \in [Asks -> {"idle", "admit", "done"} \cup Working]
    /\ req \in [Asks -> Requests \cup {NoRequest}]
    /\ \A a \in Asks : at[a] \in {"admit"} \cup Working => req[a] \in Requests
    /\ session \in [Asks -> Sessions \cup {NoSession}]
    /\ saw \in [Asks -> SUBSET Asks]
    /\ seen \in [Asks -> SUBSET Sessions]
    /\ answer \in [Asks -> Asks \cup {NoAnswer}]
    /\ leased \in SUBSET Members
    /\ hot \in SUBSET Asks /\ old \in SUBSET Asks
    /\ late \in SUBSET Asks /\ emptied \in SUBSET Sessions
    /\ seq \in [Asks -> 0..Cardinality(Asks)]
    /\ status \in [Sessions -> {"none", "active", "closed", "deleted"}]
    /\ state \in [Sessions -> SUBSET Asks]
    /\ expired \in SUBSET Sessions
    /\ todo \in [Cleaners -> SUBSET Sessions]
    /\ step \in [Cleaners -> {"next", "put", "record", "delete"}]
    /\ cur \in [Cleaners -> Sessions \cup {NoSession}]
    /\ packing \in [Cleaners -> SUBSET Asks]
    /\ pack \in [Sessions -> SUBSET Asks]
    /\ archived \in SUBSET Sessions
    /\ lapses \in [Members -> 0..MaxFaults]
    /\ faults \in 0..MaxFaults /\ pauses \in 0..MaxPauses

Init ==
    /\ at = [a \in Asks |-> "idle"] /\ req = [a \in Asks |-> NoRequest]
    /\ session = [a \in Asks |-> NoSession]
    /\ saw = [a \in Asks |-> {}] /\ seen = [a \in Asks |-> {}]
    /\ answer = [a \in Asks |-> NoAnswer]
    /\ leased = {} /\ hot = {} /\ old = {} /\ late = {} /\ emptied = {}
    /\ seq = [a \in Asks |-> 0]
    /\ status = [s \in Sessions |-> "none"] /\ state = [s \in Sessions |-> {}]
    /\ expired = {}
    /\ todo = [c \in Cleaners |-> {}] /\ step = [c \in Cleaners |-> "next"]
    /\ cur = [c \in Cleaners |-> NoSession] /\ packing = [c \in Cleaners |-> {}]
    /\ pack = [s \in Sessions |-> {}] /\ archived = {}
    /\ lapses = [m \in Members |-> 0]
    /\ faults = 0 /\ pauses = 0

-----------------------------------------------------------------------------
(* What the calls read.                                                    *)

SameKey(a, b)  == req[a].by = req[b].by /\ req[a].key = req[b].key
InFlight(m)    == {a \in Asks : at[a] \in Working /\ req[a].by = m}
TurnsOf(s)     == {a \in hot : session[a] = s}
Active         == {s \in Sessions : status[s] = "active"}
Existing       == {s \in Sessions : status[s] \in {"active", "closed"}}
InRoom(r)      == {s \in Sessions : RoomOf[s] = r}
AskedIn(a)     == RoomOf[req[a].by]

NeverBusy(a) == FALSE
Busy(a) == req[a].by \in leased

\* The turn of an earlier request of the member with this client request id.
\* The unique index admits one.
EarlierOfRoom(a) == {b \in hot : AskedIn(a) = AskedIn(b) /\ req[a].key = req[b].key}
Earlier(a) == {b \in hot : SameKey(a, b)}

\* COUNT of the workspace's turns of this month, in whichever room.
Used == Cardinality(hot \ old)

OverByOne == Used > Limit
Exhausted == Used >= Limit

MaxSequence(s) == Max({0} \cup {seq[a] : a \in TurnsOf(s)})
SequenceCountedTwice(s) == MaxSequence(s) + 2
NextSequence(s) == MaxSequence(s) + 1
-----------------------------------------------------------------------------
(* A question.                                                             *)

\* The request is over but for the release it has deferred; what it read is
\* forgotten.
ToRelease(a) ==
    /\ at' = [at EXCEPT ![a] = "release"]
    /\ saw' = [saw EXCEPT ![a] = {}] /\ seen' = [seen EXCEPT ![a] = {}]

\* It ends without a turn of its own.
NoTurn(a) == ToRelease(a) /\ session' = [session EXCEPT ![a] = NoSession]

\* A request that leaves nothing behind is forgotten.
Ended(a) ==
    /\ at' = [at EXCEPT ![a] = "done"]
    /\ IF seq[a] = 0 /\ answer[a] = NoAnswer
       THEN /\ req' = [req EXCEPT ![a] = NoRequest]
            /\ session' = [session EXCEPT ![a] = NoSession]
       ELSE UNCHANGED <<req, session>>

\* The handler's gates before the lease: a corpus that is not ready, or a
\* quota that is used up, refuses the request.
Ask(a) ==
    /\ at[a] = "idle"
    /\ \/ Ended(a)
       \/ /\ ~Exhausted
          /\ at' = [at EXCEPT ![a] = "admit"]
          /\ \E r \in Requests : req' = [req EXCEPT ![a] = r]
          /\ UNCHANGED session
    /\ UNCHANGED <<saw, seen, answer, leased, turnVars, sessionVars,
                   cleanerVars, lapses, history, faults, pauses>>

Lapse(m) == /\ faults < MaxFaults
            /\ faults' = faults + 1
            /\ lapses' = [lapses EXCEPT ![m] = @ + 1]

\* SETNX of the lease of five minutes.
Admit(a) ==
    /\ at[a] = "admit"
    /\ IF Busy(a)
       THEN Ended(a) /\ UNCHANGED leased
       ELSE /\ at' = [at EXCEPT ![a] = "rate"]
            /\ leased' = leased \cup {req[a].by}
            /\ UNCHANGED <<req, session>>
    /\ UNCHANGED <<saw, seen, answer, turnVars, sessionVars,
                   cleanerVars, lapses, history, faults, pauses>>

\* Redis does not answer: the request goes on as if it had the lease.
AdmitOpen(a) ==
    /\ at[a] = "admit"
    /\ Lapse(req[a].by)
    /\ at' = [at EXCEPT ![a] = "lookup"]
    /\ leased' \in {leased, leased \cup {req[a].by}}
    /\ UNCHANGED <<req, session, saw, seen, answer, turnVars, sessionVars,
                   cleanerVars, history, pauses>>

\* The limit of questions a minute.  A refusal deletes the lease.
CheckRate(a) ==
    /\ at[a] = "rate"
    /\ \/ /\ at' = [at EXCEPT ![a] = "lookup"]
          /\ UNCHANGED <<req, session, leased>>
       \/ /\ Ended(a)
          /\ leased' = leased \ {req[a].by}
    /\ UNCHANGED <<saw, seen, answer, turnVars, sessionVars,
                   cleanerVars, lapses, history, faults, pauses>>

\* A repeated request is answered with the turn of the first one, if it asks
\* the same question.
Answered(a, b) ==
    /\ NoTurn(a)
    /\ answer' = IF req[b].question = req[a].question
                 THEN [answer EXCEPT ![a] = b] ELSE answer

Lookup(a) ==
    /\ at[a] = "lookup"
    /\ \/ \E b \in Earlier(a) : Answered(a, b)
       \/ /\ Earlier(a) = {}
          /\ at' = [at EXCEPT ![a] = "check"]
          /\ UNCHANGED <<session, saw, seen, answer>>
    /\ UNCHANGED <<req, leased, turnVars, sessionVars,
                   cleanerVars, lapses, history, faults, pauses>>

CheckQuota(a) ==
    /\ at[a] = "check"
    /\ IF Exhausted
       THEN NoTurn(a)
       ELSE /\ at' = [at EXCEPT ![a] = "resolve"]
            /\ UNCHANGED <<session, saw, seen>>
    /\ UNCHANGED <<req, answer, leased, turnVars, sessionVars,
                   cleanerVars, lapses, history, faults, pauses>>

\* The session the request names is looked up by its id and the room; which one it
\* names is left open until here.  An active one is written to.  If it is closed, or
\* none is named, the request makes a new one, and its UPDATE closes the active
\* sessions of the room that it sees.  If it is not found: FailCall.
Resolve(a) ==
    LET active == InRoom(AskedIn(a)) \cap Active IN
    /\ at[a] = "resolve"
    /\ \/ \E s \in active :
             /\ session' = [session EXCEPT ![a] = s]
             /\ saw' = [saw EXCEPT ![a] = state[s]]
             /\ at' = [at EXCEPT ![a] = "query"]
             /\ UNCHANGED seen
       \/ /\ seen' = [seen EXCEPT ![a] = active]
          /\ at' = [at EXCEPT ![a] = "create"]
          /\ UNCHANGED <<session, saw>>
    /\ UNCHANGED <<req, answer, leased, turnVars, sessionVars, cleanerVars,
                   lapses, history, faults, pauses>>

\* Closing touches updated_at, which counts for the retention of a session
\* that has no turn.
Closing(S) ==
    /\ status' = [s \in Sessions |-> IF s \in S \cap Active THEN "closed" ELSE status[s]]
    /\ expired' = expired \ {s \in S \cap Active : TurnsOf(s) = {}}

\* The creation commits: an active session that another request has created
\* after the UPDATE stays active.
CreateSession(a) ==
    /\ at[a] = "create"
    /\ \E s \in InRoom(AskedIn(a)) :
          /\ status[s] = "none"
          /\ status' = [t \in Sessions |->
                           IF t = s THEN "active"
                           ELSE IF t \in seen[a] \cap Active THEN "closed"
                           ELSE status[t]]
          /\ session' = [session EXCEPT ![a] = s]
          /\ saw' = [saw EXCEPT ![a] = state[s]]
    /\ seen' = [seen EXCEPT ![a] = {}]
    /\ expired' = expired \ {s \in seen[a] \cap Active : TurnsOf(s) = {}}
    /\ at' = [at EXCEPT ![a] = "query"]
    /\ UNCHANGED <<req, answer, leased, turnVars, state, cleanerVars,
                   lapses, history, faults, pauses>>

\* A call fails, the session is one of another room or deleted, or the client has
\* gone and its context with it.
FailCall(a) ==
    /\ at[a] \in {"lookup", "check", "resolve", "create", "replay"}
    /\ NoTurn(a)
    /\ UNCHANGED <<req, answer, leased, turnVars, sessionVars, cleanerVars, lapses,
                   history, faults, pauses>>

\* What a turn adds to the state: the session's state as it was read before the
\* question, and this turn.
Restarted(a) == {a}
Evolved(a) == saw[a] \cup {a}

\* The cleaners that have read the turns of session s and not deleted it yet.
Archiving(s) == {c \in Cleaners : step[c] # "next" /\ cur[c] = s}

\* Whether the knowledge base has answered or not, the turn is written, under
\* the lock of the session's row, with a context that survives the client.
\* If the reply of the commit is lost the response is an error instead; nothing
\* else is different then, so answer names the turn all the same.
AppendTurn(a) ==
    LET s == session[a] IN
    /\ at[a] = "query" /\ s \in Existing /\ Earlier(a) = {}
    /\ hot' = hot \cup {a}
    /\ seq' = [seq EXCEPT ![a] = NextSequence(s)]
    /\ state' = [state EXCEPT ![s] = Evolved(a)]
    /\ expired' = expired \ {s}
    /\ late' = IF Archiving(s) = {} THEN late ELSE late \cup {a}
    /\ answer' = [answer EXCEPT ![a] = a]
    /\ ToRelease(a)
    /\ UNCHANGED <<req, session, leased, old, status, cleanerVars,
                   lapses, emptied, faults, pauses>>

\* The turn is not written: its session is gone, the write fails or times out,
\* or a request with the same client request id has written one, which is then
\* looked up.
AppendFails(a) ==
    /\ at[a] = "query"
    /\ \/ NoTurn(a)
       \/ /\ session[a] \in Existing /\ Earlier(a) # {}
          /\ at' = [at EXCEPT ![a] = "replay"]
          /\ UNCHANGED <<session, saw, seen>>
    /\ UNCHANGED <<req, answer, leased, turnVars, sessionVars,
                   cleanerVars, lapses, history, faults, pauses>>

\* A turn that has gone meanwhile leaves the first error: FailCall.
Replay(a) ==
    /\ at[a] = "replay"
    /\ \E b \in Earlier(a) : Answered(a, b)
    /\ UNCHANGED <<req, leased, turnVars, sessionVars,
                   cleanerVars, lapses, history, faults, pauses>>

\* The lease is deleted, whoever has taken it.
Release(a) ==
    /\ at[a] = "release"
    /\ Ended(a)
    /\ leased' = leased \ {req[a].by}
    /\ UNCHANGED <<saw, seen, answer, turnVars, sessionVars,
                   cleanerVars, lapses, history, faults, pauses>>

\* A replica dies with the request, or Redis does not delete the lease.
Abandon(a) ==
    /\ at[a] \in {"admit"} \cup Working
    /\ faults < MaxFaults /\ faults' = faults + 1
    /\ Ended(a)
    /\ saw' = [saw EXCEPT ![a] = {}] /\ seen' = [seen EXCEPT ![a] = {}]
    /\ UNCHANGED <<answer, leased, turnVars, sessionVars,
                   cleanerVars, lapses, history, pauses>>

\* Five minutes have passed.  With requests of the member in flight the lease
\* was theirs.
LeaseExpires(m) ==
    /\ m \in leased
    /\ leased' = leased \ {m}
    /\ IF InFlight(m) = {} THEN UNCHANGED <<faults, lapses>> ELSE Lapse(m)
    /\ UNCHANGED <<askVars, turnVars, sessionVars, cleanerVars, history, pauses>>

-----------------------------------------------------------------------------
(* Sessions and their retention.                                           *)

\* A member closes the session on his screen, and with it all active ones of the
\* room.
CloseSession(r) ==
    /\ InRoom(r) \cap Active # {}
    /\ Closing(InRoom(r))
    /\ UNCHANGED <<askVars, leased, turnVars, state, cleanerVars, lapses, history,
                   faults, pauses>>

\* The rooms are left alone for longer than the retention of 90 days, and so
\* into another month.  No request and no run of a cleaner lasts that long.
MonthsPass ==
    /\ pauses < MaxPauses /\ pauses' = pauses + 1
    /\ \A a \in Asks : at[a] \in {"idle", "done"}
    /\ \A c \in Cleaners : step[c] = "next" /\ todo[c] = {}
    /\ expired' = Existing
    /\ old' = hot
    /\ leased' = {}
    /\ UNCHANGED <<askVars, hot, seq, status, state, cleanerVars, lapses, history, faults>>

ListExpired(c) ==
    /\ step[c] = "next" /\ todo[c] = {} /\ expired # {}
    /\ todo' = [todo EXCEPT ![c] = expired]
    /\ UNCHANGED <<askVars, leased, turnVars, sessionVars, step, cur, packing,
                   pack, archived, lapses, history, faults, pauses>>

\* The turns of the next listed session, none if it was deleted meanwhile.
ReadTurns(c) ==
    /\ step[c] = "next"
    /\ \E s \in todo[c] :
          /\ cur' = [cur EXCEPT ![c] = s]
          /\ packing' = [packing EXCEPT ![c] = TurnsOf(s)]
          /\ todo' = [todo EXCEPT ![c] = @ \ {s}]
    /\ step' = [step EXCEPT ![c] = "put"]
    /\ UNCHANGED <<askVars, leased, turnVars, sessionVars, pack, archived, lapses,
                   history, faults, pauses>>

\* The pack is written over the one of an earlier run or of another cleaner.
Empties(c) == packing[c] = {} /\ pack[cur[c]] # {}

Storing(c) ==
    /\ step[c] = "put"
    /\ step' = [step EXCEPT ![c] = "record"]
    /\ emptied' = IF Empties(c) THEN emptied \cup {cur[c]} ELSE emptied
    /\ UNCHANGED <<askVars, leased, turnVars, sessionVars, todo, cur, packing,
                   archived, lapses, late, faults, pauses>>

PutPackUnchecked(c) ==
    Storing(c) /\ pack' \in {pack, [pack EXCEPT ![cur[c]] = packing[c]]}

PutPack(c) ==
    Storing(c) /\ pack' = [pack EXCEPT ![cur[c]] = packing[c]]

\* A row that is there already, of an earlier run that failed, is as good.
RecordArchive(c) ==
    /\ step[c] = "record"
    /\ archived' = archived \cup {cur[c]}
    /\ step' = [step EXCEPT ![c] = "delete"]
    /\ UNCHANGED <<askVars, leased, turnVars, sessionVars, todo, cur, packing,
                   pack, lapses, history, faults, pauses>>

NextSession(c) == /\ step' = [step EXCEPT ![c] = "next"]
                  /\ cur' = [cur EXCEPT ![c] = NoSession]
                  /\ packing' = [packing EXCEPT ![c] = {}]

\* The turns of a session are deleted with it.
DeleteSession(c) ==
    /\ step[c] = "delete"
    /\ hot' = hot \ TurnsOf(cur[c])
    /\ status' = [status EXCEPT ![cur[c]] = "deleted"]
    /\ expired' = expired \ {cur[c]}
    /\ NextSession(c)
    /\ UNCHANGED <<askVars, leased, seq, old, state, todo, pack,
                   archived, lapses, history, faults, pauses>>

\* A call of the cleaner fails and it goes on with the next session, or the
\* process is stopped and the list is forgotten.
CleanerFails(c) ==
    /\ step[c] # "next" \/ todo[c] # {}
    /\ faults < MaxFaults /\ faults' = faults + 1
    /\ NextSession(c)
    /\ todo' \in {todo, [todo EXCEPT ![c] = {}]}
    /\ UNCHANGED <<askVars, leased, turnVars, sessionVars, pack, archived, lapses,
                   history, pauses>>

-----------------------------------------------------------------------------
Next ==
    \/ \E a \in Asks :
          \/ Ask(a) \/ Admit(a) \/ AdmitOpen(a) \/ CheckRate(a) \/ Lookup(a)
          \/ CheckQuota(a) \/ Resolve(a) \/ CreateSession(a) \/ FailCall(a)
          \/ AppendTurn(a) \/ AppendFails(a) \/ Replay(a) \/ Release(a) \/ Abandon(a)
    \/ \E m \in Members : LeaseExpires(m)
    \/ \E r \in Rooms : CloseSession(r)
    \/ MonthsPass
    \/ \E c \in Cleaners :
          \/ ListExpired(c) \/ ReadTurns(c) \/ PutPack(c) \/ RecordArchive(c)
          \/ DeleteSession(c) \/ CleanerFails(c)

Spec == Init /\ [][Next]_vars
-----------------------------------------------------------------------------
(* Correctness.                                                            *)

\* One question at a time (ErrQueryBusy): a member has as many requests in
\* flight as he has the lease, and one more for every lease that was lost or
\* never taken.  That a release deletes the lease of somebody else's request
\* does not let in more than that.
OneAtATime ==
    \A m \in Members :
       Cardinality(InFlight(m)) <= lapses[m] + (IF m \in leased THEN 1 ELSE 0)

\* Idempotent questions (qa_session.go:156, the unique index): all responses to
\* one client request id of a member name the same turn, one of his own with
\* the question he asked, as long as the turn is in the database.
AnswersAgree ==
    \A a, b \in Asks :
       /\ answer[a] \in hot =>
            SameKey(a, answer[a]) /\ req[answer[a]].question = req[a].question
       /\ answer[a] \in hot /\ answer[b] \in hot /\ SameKey(a, b) =>
            answer[a] = answer[b]

\* The quota is a soft check before the answer (answers_quota.go:91), over all the
\* rooms of the workspace, and a lease is of one member of one room.  While no lease
\* is lost the quota is overrun by less than one answer for each member who asks:
\* exceeded it is only where several ask at the same time, and not by a member who
\* repeats his questions.
PastCheck == {a \in Asks : at[a] \in {"resolve", "create", "query"}}
Askers    == {req[a].by : a \in PastCheck \cup (hot \ old)}

QuotaNearlyKept ==
    (\A m \in Members : lapses[m] = 0) =>
       Used + Cardinality(PastCheck) < Limit + Cardinality(Askers)

\* The state of a session accounts for every turn of it, unless a later turn of
\* another member (or one beside a lost lease) was written from the state of
\* before: two questions of one member never lose each other's.
StateAccounts ==
    \A a \in hot :
       \/ a \in state[session[a]]
       \/ \E b \in TurnsOf(session[a]) :
             seq[b] > seq[a] /\ (req[b].by # req[a].by \/ lapses[req[a].by] > 0)

\* Audit data is never purged (archive.go:164): a turn that was written is in
\* the database, or in the pack of its session with a row that leads to it.
\* Excepted are a turn written while a cleaner was between reading the turns and
\* deleting the session, and a session that a second cleaner read after it was
\* deleted, which replaces the pack by an empty one.
AuditKept ==
    \A a \in Asks : seq[a] > 0 =>
       \/ a \in hot \/ a \in late \/ session[a] \in emptied
       \/ session[a] \in archived /\ a \in pack[session[a]]
=============================================================================
