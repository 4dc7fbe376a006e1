------------------------- MODULE KnowledgeAsk_proofs -------------------------
(***************************************************************************)
(* Proofs about KnowledgeAsk for every number of questions, rooms, members, *)
(* sessions and cleaners, every limit, any number of faults and pauses.    *)
(***************************************************************************)
EXTENDS KnowledgeAsk, FiniteSetTheorems, WellFoundedInduction, TLAPS

LEMMA MaxOfBounded ==
    ASSUME NEW S \in SUBSET Nat, S # {}, NEW n \in Nat, \A y \in S : y <= n
    PROVE  Max(S) \in S /\ \A y \in S : y <= Max(S)
<1> DEFINE Bounds == {k \in Nat : \A y \in S : y <= k}
           Below == OpToRel(<, Nat)
<1>1. Bounds \subseteq Nat /\ Bounds # {}
  OBVIOUS
<1>2. \E k \in Bounds : \A l \in Bounds : ~ (<<l, k>> \in Below)
  <2> HIDE DEF Bounds
  <2> QED BY <1>1, NatLessThanWellFounded, WFMin
<1>3. PICK k \in Bounds : \A l \in Bounds : ~ (<<l, k>> \in Below)
  BY <1>2
<1>4. \A l \in Bounds : ~ (l < k)
  BY <1>3, <1>1 DEF OpToRel
<1>5. k \in S
  <2> SUFFICES ASSUME k \notin S PROVE FALSE
    OBVIOUS
  <2>1. \A y \in S : y <= k - 1
    OBVIOUS
  <2>2. PICK y \in S : y \in Nat /\ y <= k - 1
    BY <2>1
  <2>3. k - 1 \in Bounds
    BY <2>1, <2>2
  <2> QED BY <2>3, <1>4
<1>6. \A y \in S : k >= y
  OBVIOUS
<1> HIDE DEF Bounds
<1>7. \A x \in S : (\A y \in S : x >= y) => x = k
  BY <1>5, <1>6
<1> QED BY <1>5, <1>6, <1>7 DEF Max

-----------------------------------------------------------------------------
(* Types.  The type of a sequence number rests on the number of turns that *)
(* were ever written, and that of lapses on the number of faults.          *)

AskTypes ==
    /\ at \in [Asks -> {"idle", "admit", "done"} \cup Working]
    /\ req \in [Asks -> Requests \cup {NoRequest}]
    /\ \A a \in Asks : at[a] \in {"admit"} \cup Working => req[a] \in Requests
    /\ session \in [Asks -> Sessions \cup {NoSession}]
    /\ saw \in [Asks -> SUBSET Asks]
    /\ seen \in [Asks -> SUBSET Sessions]
    /\ answer \in [Asks -> Asks \cup {NoAnswer}]

TurnTypes == /\ hot \in SUBSET Asks /\ old \in SUBSET Asks
             /\ late \in SUBSET Asks /\ emptied \in SUBSET Sessions
             /\ seq \in [Asks -> 0..Cardinality(Asks)]

SessionTypes == /\ status \in [Sessions -> {"none", "active", "closed", "deleted"}]
                /\ state \in [Sessions -> SUBSET Asks]
                /\ expired \in SUBSET Sessions

CleanerTypes ==
    /\ todo \in [Cleaners -> SUBSET Sessions]
    /\ step \in [Cleaners -> {"next", "put", "record", "delete"}]
    /\ cur \in [Cleaners -> Sessions \cup {NoSession}]
    /\ packing \in [Cleaners -> SUBSET Asks]
    /\ pack \in [Sessions -> SUBSET Asks]
    /\ archived \in SUBSET Sessions

CountTypes == /\ leased \in SUBSET Members
              /\ lapses \in [Members -> 0..MaxFaults]
              /\ faults \in 0..MaxFaults /\ pauses \in 0..MaxPauses

Written == {a \in Asks : seq[a] > 0}

\* What is known of a request that has written its turn, and of an answer.
Turns ==
    \A a \in Asks :
       /\ seq[a] > 0 => /\ at[a] \in {"release", "done"} /\ session[a] \in Sessions
                        /\ req[a] \in Requests /\ answer[a] = a
       /\ a \in hot => seq[a] > 0
       /\ seq[a] <= Cardinality(Written)
       /\ answer[a] # NoAnswer =>
            at[a] \in {"release", "done"} /\ req[a] \in Requests /\ seq[answer[a]] > 0

Places ==
    /\ \A a \in Asks : at[a] = "query" => session[a] \in Sessions
    /\ \A c \in Cleaners : step[c] # "next" => cur[c] \in Sessions
    /\ \A m \in Members : lapses[m] <= faults

TypeInv == TypeOK /\ Turns /\ Places

LEMMA TypeParts ==
    TypeOK <=> AskTypes /\ TurnTypes /\ SessionTypes /\ CleanerTypes /\ CountTypes
BY DEF TypeOK, AskTypes, TurnTypes, SessionTypes, CleanerTypes, CountTypes

LEMMA TypePartsNext ==
    AskTypes' /\ TurnTypes' /\ SessionTypes' /\ CleanerTypes' /\ CountTypes' => TypeOK'
BY DEF TypeOK, AskTypes, TurnTypes, SessionTypes, CleanerTypes, CountTypes

LEMMA TypesKept ==
    /\ AskTypes /\ UNCHANGED askVars => AskTypes'
    /\ TurnTypes /\ UNCHANGED <<turnVars, history>> => TurnTypes'
    /\ SessionTypes /\ UNCHANGED sessionVars => SessionTypes'
    /\ CleanerTypes /\ UNCHANGED cleanerVars => CleanerTypes'
    /\ CountTypes /\ UNCHANGED <<leased, lapses, faults, pauses>> => CountTypes'
<1>1. AskTypes /\ UNCHANGED askVars => AskTypes'
  BY DEF AskTypes, askVars
<1>2. TurnTypes /\ UNCHANGED <<turnVars, history>> => TurnTypes'
  BY DEF TurnTypes, turnVars, history
<1>3. SessionTypes /\ UNCHANGED sessionVars => SessionTypes'
  BY DEF SessionTypes, sessionVars
<1>4. CleanerTypes /\ UNCHANGED cleanerVars => CleanerTypes'
  BY DEF CleanerTypes, cleanerVars
<1>5. CountTypes /\ UNCHANGED <<leased, lapses, faults, pauses>> => CountTypes'
  BY DEF CountTypes
<1> QED BY <1>1, <1>2, <1>3, <1>4, <1>5

LEMMA TypeInit == Init => TypeInv
<1> SUFFICES ASSUME Init PROVE TypeInv
  OBVIOUS
<1>1. Cardinality(Asks) \in Nat
  BY FS_CardinalityType, ConstantsAssumption
<1>2. TypeOK
  BY <1>1, ConstantsAssumption DEF Init, TypeOK, Working
<1>3. Written = {} /\ Cardinality(Written) = 0
  <2>1. \A a \in Asks : ~ (seq[a] > 0)
    BY DEF Init
  <2>2. Written = {}
    BY <2>1 DEF Written
  <2> QED BY <2>2, FS_EmptySet
<1>4. Turns
  <2>1. hot = {} /\ \A a \in Asks : seq[a] = 0 /\ answer[a] = NoAnswer
    BY DEF Init
  <2> QED BY <1>3, <2>1 DEF Turns
<1>5. Places
  BY DEF Init, Places
<1> QED BY <1>2, <1>4, <1>5 DEF TypeInv

LEMMA WrittenFinite ==
    ASSUME TypeInv
    PROVE  /\ IsFiniteSet(Written) /\ Cardinality(Written) \in Nat
           /\ Cardinality(Asks) \in Nat /\ Cardinality(Written) <= Cardinality(Asks)
<1>1. Written \in SUBSET Asks
  BY DEF Written
<1> QED BY <1>1, FS_Subset, FS_CardinalityType, ConstantsAssumption

\* The sequence number of a new turn is higher than those of its session.
LEMMA NextIsHigher ==
    ASSUME TypeInv, NEW s \in Sessions
    PROVE  /\ NextSequence(s) \in 1..Cardinality(Written) + 1
           /\ \A a \in TurnsOf(s) : seq[a] < NextSequence(s)
<1> DEFINE S == {0} \cup {seq[a] : a \in TurnsOf(s)}
<1>1. \A a \in TurnsOf(s) : seq[a] \in Nat /\ seq[a] <= Cardinality(Written)
  BY WrittenFinite DEF TypeInv, TypeOK, Turns, TurnsOf
<1>2. S \in SUBSET Nat /\ S # {} /\ \A y \in S : y <= Cardinality(Written)
  BY <1>1, WrittenFinite
<1>3. Max(S) \in S /\ \A y \in S : y <= Max(S)
  <2> HIDE DEF S
  <2> QED BY <1>2, WrittenFinite, MaxOfBounded
<1>4. Max(S) \in 0..Cardinality(Written)
  BY <1>2, <1>3, WrittenFinite
<1>5. \A a \in TurnsOf(s) : seq[a] <= Max(S)
  BY <1>3
<1>6. NextSequence(s) = Max(S) + 1
  BY DEF NextSequence, MaxSequence
<1> HIDE DEF S
<1> QED BY <1>1, <1>4, <1>5, <1>6, WrittenFinite

-----------------------------------------------------------------------------
LEMMA TurnsKept ==
    ASSUME TypeInv, UNCHANGED seq, hot' \subseteq hot,
           \A a \in Asks :
              /\ seq[a] > 0 => /\ at'[a] \in {"release", "done"}
                               /\ UNCHANGED <<session[a], req[a], answer[a]>>
              /\ answer'[a] # NoAnswer =>
                   /\ at'[a] \in {"release", "done"} /\ req'[a] \in Requests
                   /\ answer'[a] = answer[a] \/ answer'[a] \in hot
    PROVE  Turns'
<1>1. Written' = Written
  BY DEF Written
<1>2. \A a \in Asks : answer'[a] # NoAnswer => seq[answer'[a]] > 0
  BY DEF TypeInv, TypeOK, Turns
<1> QED BY <1>1, <1>2 DEF TypeInv, Turns

LEMMA TypeStep == TypeInv /\ [Next]_vars => TypeInv'
<1> SUFFICES ASSUME TypeInv, [Next]_vars PROVE TypeInv'
  OBVIOUS
<1>0. AskTypes /\ TurnTypes /\ SessionTypes /\ CleanerTypes /\ CountTypes
  BY TypeParts DEF TypeInv
<1> USE ConstantsAssumption, RequestsAssumption
<1>1. CASE \E a \in Asks : Ask(a) \/ Lookup(a) \/ CheckQuota(a) \/ Resolve(a)
                            \/ FailCall(a) \/ AppendFails(a) \/ Replay(a)
  <2> PICK a \in Asks : Ask(a) \/ Lookup(a) \/ CheckQuota(a) \/ Resolve(a)
                         \/ FailCall(a) \/ AppendFails(a) \/ Replay(a)
    BY <1>1
  <2>1. UNCHANGED <<leased, turnVars, sessionVars, cleanerVars, lapses, history, faults, pauses>>
    BY DEF Ask, Lookup, CheckQuota, Resolve, FailCall, AppendFails, Replay
  <2>2. /\ AskTypes'
        /\ \A b \in Asks :
              /\ seq[b] > 0 => /\ at'[b] \in {"release", "done"}
                               /\ UNCHANGED <<session[b], req[b], answer[b]>>
              /\ answer'[b] # NoAnswer =>
                   /\ at'[b] \in {"release", "done"} /\ req'[b] \in Requests
                   /\ answer'[b] = answer[b] \/ answer'[b] \in hot
              /\ at'[b] = "query" => session'[b] \in Sessions
    <3> USE <1>0 DEF AskTypes, TypeInv, Turns, Places, Working
    <3>1. CASE Ask(a)
      BY <3>1 DEF Ask, Ended
    <3>2. CASE \E b \in Earlier(a) : at[a] \in {"lookup", "replay"} /\ Answered(a, b) /\ UNCHANGED req
      BY <3>2 DEF Answered, NoTurn, ToRelease, Earlier, TurnTypes
    <3>3. CASE NoTurn(a) /\ UNCHANGED <<req, answer>> /\ at[a] \in Working \ {"release"}
      BY <3>3 DEF NoTurn, ToRelease
    <3>4. CASE Lookup(a)
      BY <3>2, <3>4 DEF Lookup
    <3>5. CASE CheckQuota(a)
      BY <3>3, <3>5 DEF CheckQuota
    <3>6. CASE Resolve(a)
      BY <3>6 DEF Resolve, Active, SessionTypes
    <3>7. CASE FailCall(a)
      BY <3>3, <3>7 DEF FailCall
    <3>8. CASE AppendFails(a)
      BY <3>3, <3>8 DEF AppendFails
    <3>9. CASE Replay(a)
      BY <3>2, <3>9 DEF Replay
    <3> QED BY <3>1, <3>4, <3>5, <3>6, <3>7, <3>8, <3>9
  <2>3. TypeOK'
    BY <1>0, <2>1, <2>2, TypesKept, TypePartsNext
  <2>4. Turns'
    BY <2>1, <2>2, TurnsKept DEF turnVars
  <2>5. Places'
    BY <2>1, <2>2 DEF TypeInv, Places, cleanerVars
  <2> QED BY <2>3, <2>4, <2>5 DEF TypeInv
<1>2. CASE \E a \in Asks : Admit(a) \/ AdmitOpen(a) \/ CheckRate(a) \/ Release(a) \/ Abandon(a)
  <2> PICK a \in Asks : Admit(a) \/ AdmitOpen(a) \/ CheckRate(a) \/ Release(a) \/ Abandon(a)
    BY <1>2
  <2>1. UNCHANGED <<turnVars, sessionVars, cleanerVars, history, pauses>> /\ UNCHANGED answer
    BY DEF Admit, AdmitOpen, CheckRate, Release, Abandon
  <2>2. req[a] \in Requests /\ req[a].by \in Members
    BY <1>0 DEF AskTypes, Working, Admit, AdmitOpen, CheckRate, Release, Abandon
  <2>3. CountTypes' /\ \A m \in Members : lapses'[m] <= faults'
    BY <1>0, <2>1, <2>2 DEF CountTypes, Admit, AdmitOpen, CheckRate, Release, Abandon, Lapse,
        TypeInv, Places
  <2>4. /\ AskTypes'
        /\ \A b \in Asks :
              /\ seq[b] > 0 => /\ at'[b] \in {"release", "done"}
                               /\ UNCHANGED <<session[b], req[b], answer[b]>>
              /\ answer'[b] # NoAnswer =>
                   /\ at'[b] \in {"release", "done"} /\ req'[b] \in Requests
                   /\ answer'[b] = answer[b] \/ answer'[b] \in hot
              /\ at'[b] = "query" => session'[b] \in Sessions
    <3> USE <1>0, <2>1, <2>2 DEF AskTypes, TypeInv, Turns, Places, Working
    <3>1. CASE Ended(a) /\ UNCHANGED <<saw, seen>>
      BY <3>1, TypeParts DEF Ended, TurnTypes
    <3>2. CASE Admit(a) \/ CheckRate(a) \/ Release(a)
      BY <3>1, <3>2 DEF Admit, CheckRate, Release
    <3>3. CASE AdmitOpen(a)
      BY <3>3 DEF AdmitOpen
    <3>4. CASE Abandon(a)
      BY <3>4 DEF Abandon, Ended, TurnTypes
    <3> QED BY <3>2, <3>3, <3>4
  <2>5. TypeOK'
    BY <1>0, <2>1, <2>3, <2>4, TypesKept, TypePartsNext
  <2>6. Turns'
    BY <2>1, <2>4, TurnsKept DEF turnVars
  <2>7. Places'
    BY <2>1, <2>3, <2>4 DEF TypeInv, Places, cleanerVars
  <2> QED BY <2>5, <2>6, <2>7 DEF TypeInv
<1>3. CASE \E a \in Asks : CreateSession(a)
  <2> PICK a \in Asks : CreateSession(a)
    BY <1>3
  <2>1. UNCHANGED <<req, answer, leased, turnVars, cleanerVars, lapses, history, faults, pauses>>
    BY DEF CreateSession
  <2>2. AskTypes' /\ \A b \in Asks : at'[b] = "query" => session'[b] \in Sessions
    BY <1>0 DEF CreateSession, InRoom, AskTypes, SessionTypes, Working, TypeInv, Places
  <2>3. SessionTypes'
    BY <1>0 DEF CreateSession, InRoom, SessionTypes
  <2>4. TypeOK'
    BY <1>0, <2>1, <2>2, <2>3, TypesKept, TypePartsNext
  <2>5. \A b \in Asks : b # a => UNCHANGED <<at[b], session[b]>>
    BY <1>0 DEF CreateSession, AskTypes
  <2>6. seq[a] = 0 /\ answer[a] = NoAnswer
    BY <1>0 DEF CreateSession, TypeInv, Turns, TurnTypes
  <2>7. Turns'
    BY <2>1, <2>5, <2>6, TurnsKept DEF turnVars, TypeInv, Turns
  <2>8. Places'
    BY <2>1, <2>2 DEF TypeInv, Places, cleanerVars
  <2> QED BY <2>4, <2>7, <2>8 DEF TypeInv
<1>4. CASE \E a \in Asks : AppendTurn(a)
  <2> PICK a \in Asks : AppendTurn(a)
    BY <1>4
  <2> DEFINE s == session[a]
  <2>1. /\ s \in Sessions /\ seq[a] = 0 /\ answer[a] = NoAnswer /\ req[a] \in Requests
        /\ UNCHANGED <<req, session, leased, old, status, cleanerVars, lapses, faults, pauses>>
        /\ answer' = [answer EXCEPT ![a] = a] /\ at' = [at EXCEPT ![a] = "release"]
        /\ seq' = [seq EXCEPT ![a] = NextSequence(s)] /\ hot' = hot \cup {a}
    BY <1>0 DEF AppendTurn, ToRelease, Existing, TypeInv, Turns, TurnTypes, AskTypes, Working
  <2>2. NextSequence(s) \in 1..Cardinality(Written) + 1
    BY <2>1, NextIsHigher
  <2>3. seq' \in [Asks -> Nat] /\ Written' = Written \cup {a} /\ a \notin Written
    BY <1>0, <2>1, <2>2, WrittenFinite DEF TurnTypes, Written
  <2>4. Cardinality(Written') = Cardinality(Written) + 1
    BY <2>3, WrittenFinite, FS_AddElement
  <2>5. Cardinality(Written') <= Cardinality(Asks)
    <3>1. Written' \in SUBSET Asks
      BY DEF Written
    <3> QED BY <3>1, FS_Subset
  <2>6. \A b \in Asks : seq'[b] <= Cardinality(Written')
    BY <1>0, <2>1, <2>2, <2>4, WrittenFinite DEF TypeInv, Turns, TurnTypes
  <2>7. TurnTypes'
    <3>1. seq' \in [Asks -> 0..Cardinality(Asks)]
      <4>1. /\ Cardinality(Written') \in Nat /\ Cardinality(Asks) \in Nat
            /\ \A b \in Asks : seq'[b] \in Nat
        BY <2>3, <2>4, WrittenFinite
      <4>2. \A b \in Asks : seq'[b] \in 0..Cardinality(Asks)
        BY <2>5, <2>6, <4>1
      <4> QED BY <2>3, <4>2
    <3> QED BY <1>0, <2>1, <3>1 DEF TurnTypes, AppendTurn
  <2>8. AskTypes'
    BY <1>0, <2>1 DEF AppendTurn, ToRelease, AskTypes, Working
  <2>9. SessionTypes'
    BY <1>0, <2>1 DEF AppendTurn, SessionTypes, Evolved, AskTypes
  <2>10. TypeOK'
    BY <1>0, <2>1, <2>7, <2>8, <2>9, TypesKept, TypePartsNext
  <2>11. Turns'
    <3>1. \A b \in Asks : b # a => UNCHANGED <<at[b], seq[b], answer[b]>>
      BY <1>0, <2>1 DEF AskTypes, TurnTypes
    <3>2. at'[a] = "release" /\ seq'[a] > 0 /\ answer'[a] = a
      BY <1>0, <2>1, <2>2, WrittenFinite DEF AskTypes, TurnTypes
    <3>3. \A b \in Asks : seq[b] > 0 => seq'[b] > 0
      BY <3>1, <3>2
    <3> QED BY <1>0, <2>1, <2>6, <3>1, <3>2, <3>3 DEF TypeInv, Turns, AskTypes
  <2>12. Places'
    BY <1>0, <2>1 DEF TypeInv, Places, AskTypes, cleanerVars
  <2> QED BY <2>10, <2>11, <2>12 DEF TypeInv
<1>5. CASE (\E m \in Members : LeaseExpires(m)) \/ (\E r \in Rooms : CloseSession(r)) \/ MonthsPass
  <2>1. UNCHANGED <<askVars, hot, seq, history, cleanerVars, state>>
    BY <1>5 DEF LeaseExpires, CloseSession, MonthsPass, Closing, turnVars, sessionVars
  <2>2. CountTypes' /\ \A m \in Members : lapses'[m] <= faults'
    BY <1>0, <1>5 DEF CountTypes, LeaseExpires, CloseSession, MonthsPass, Lapse, TypeInv, Places
  <2>3. SessionTypes'
    BY <1>0, <1>5, <2>1 DEF SessionTypes, LeaseExpires, CloseSession, MonthsPass, Closing,
       Existing, sessionVars
  <2>4. TurnTypes'
    BY <1>0, <1>5, <2>1 DEF TurnTypes, LeaseExpires, CloseSession, MonthsPass, turnVars, history
  <2>5. TypeOK'
    BY <1>0, <2>1, <2>2, <2>3, <2>4, TypesKept, TypePartsNext
  <2>6. Turns'
    BY <2>1, TurnsKept DEF askVars, TypeInv, Turns
  <2>7. Places'
    BY <2>1, <2>2 DEF TypeInv, Places, askVars, cleanerVars
  <2> QED BY <2>5, <2>6, <2>7 DEF TypeInv
<1>6. CASE \E c \in Cleaners : ListExpired(c) \/ ReadTurns(c) \/ PutPack(c) \/ RecordArchive(c)
                                \/ DeleteSession(c) \/ CleanerFails(c)
  <2> PICK c \in Cleaners : ListExpired(c) \/ ReadTurns(c) \/ PutPack(c) \/ RecordArchive(c)
                              \/ DeleteSession(c) \/ CleanerFails(c)
    BY <1>6
  <2>1. UNCHANGED <<askVars, leased, seq, old, state, late, lapses, pauses>> /\ hot' \subseteq hot
    BY DEF ListExpired, ReadTurns, PutPack, Storing, RecordArchive, DeleteSession, CleanerFails,
           Storing, turnVars, sessionVars, history
  <2>2. CountTypes' /\ \A m \in Members : lapses'[m] <= faults'
    BY <1>0, <2>1 DEF CountTypes, ListExpired, ReadTurns, PutPack, Storing, RecordArchive,
       DeleteSession, CleanerFails, TypeInv, Places
  <2>p. emptied' \in SUBSET Sessions
    BY <1>0 DEF TurnTypes, CleanerTypes, TypeInv, Places, ListExpired, ReadTurns, PutPack, Storing,
       RecordArchive, DeleteSession, CleanerFails, history
  <2>3. TurnTypes' /\ SessionTypes'
    BY <1>0, <2>1, <2>p DEF TurnTypes, SessionTypes, ListExpired, ReadTurns, PutPack, Storing,
       RecordArchive, DeleteSession, CleanerFails, turnVars, sessionVars
  <2>4. CleanerTypes' /\ \A d \in Cleaners : step'[d] # "next" => cur'[d] \in Sessions
    <3> USE <1>0 DEF CleanerTypes, TypeInv, Places
    <3>1. CASE ListExpired(c)
      BY <3>1 DEF ListExpired, SessionTypes
    <3>2. CASE ReadTurns(c)
      BY <3>2 DEF ReadTurns, TurnsOf, TurnTypes
    <3>3. CASE PutPack(c)
      BY <3>3 DEF PutPack, Storing
    <3>4. CASE RecordArchive(c)
      BY <3>4 DEF RecordArchive
    <3>5. CASE DeleteSession(c) \/ CleanerFails(c)
      BY <3>5 DEF DeleteSession, CleanerFails, NextSession
    <3> QED BY <3>1, <3>2, <3>3, <3>4, <3>5
  <2>5. TypeOK'
    BY <1>0, <2>1, <2>2, <2>3, <2>4, TypesKept, TypePartsNext
  <2>6. Turns'
    BY <2>1, TurnsKept DEF askVars, TypeInv, Turns
  <2>7. Places'
    BY <2>1, <2>2, <2>4 DEF TypeInv, Places, askVars
  <2> QED BY <2>5, <2>6, <2>7 DEF TypeInv
<1>7. CASE UNCHANGED vars
  <2>1. UNCHANGED <<askVars, leased, turnVars, sessionVars, cleanerVars, lapses, history, faults, pauses>>
    BY <1>7 DEF vars
  <2>2. TypeOK'
    BY <1>0, <2>1, TypesKept, TypePartsNext
  <2>3. Turns'
    BY <2>1, TurnsKept DEF askVars, turnVars, TypeInv, Turns
  <2>4. Places'
    BY <2>1 DEF TypeInv, Places, askVars, cleanerVars
  <2> QED BY <2>2, <2>3, <2>4 DEF TypeInv
<1> QED BY <1>1, <1>2, <1>3, <1>4, <1>5, <1>6, <1>7 DEF Next

\* Every variable keeps its type; the sequence numbers of the turns never run
\* past the number of questions.
THEOREM TypeCorrect == Spec => []TypeOK
<1>1. TypeInv => TypeOK
  BY DEF TypeInv
<1> QED BY <1>1, TypeInit, TypeStep, PTL DEF Spec

-----------------------------------------------------------------------------
(* One question at a time.                                                 *)

\* The requests of member m in flight against his leases.
Bounded(m) == Cardinality(InFlight(m)) <= lapses[m] + (IF m \in leased THEN 1 ELSE 0)

LEMMA InFlightFinite ==
    ASSUME NEW m
    PROVE  IsFiniteSet(InFlight(m)) /\ Cardinality(InFlight(m)) \in Nat
<1>1. InFlight(m) \in SUBSET Asks
  BY DEF InFlight
<1> QED BY <1>1, FS_Subset, FS_CardinalityType, ConstantsAssumption

\* A step that takes no lease away and puts no request in flight.
LEMMA NoneEnters ==
    ASSUME TypeInv, NEW m \in Members, Bounded(m),
           \A a \in Asks : at'[a] \in Working => at[a] \in Working /\ req'[a] = req[a],
           lapses'[m] = lapses[m], m \in leased => m \in leased'
    PROVE  Bounded(m)'
<1>1. InFlight(m)' \in SUBSET InFlight(m)
  BY DEF InFlight
<1>2. /\ Cardinality(InFlight(m)') <= Cardinality(InFlight(m))
      /\ Cardinality(InFlight(m)') \in Nat /\ Cardinality(InFlight(m)) \in Nat
  BY <1>1, InFlightFinite, FS_Subset, FS_CardinalityType
<1> QED BY <1>2 DEF Bounded, TypeInv, TypeOK

\* Request a enters, or leaves, and nobody else does.
LEMMA OneEnters ==
    ASSUME TypeInv, NEW m \in Members, Bounded(m), NEW a \in Asks, at[a] \notin Working,
           at'[a] \in Working, req' = req,
           \A b \in Asks : b # a => at'[b] = at[b],
           IF req[a].by # m THEN lapses'[m] = lapses[m] /\ (m \in leased => m \in leased')
           ELSE \/ m \notin leased /\ m \in leased' /\ lapses'[m] = lapses[m]
                \/ lapses'[m] = lapses[m] + 1 /\ (m \in leased => m \in leased')
    PROVE  Bounded(m)'
<1>1. CASE req[a].by # m
  <2>1. InFlight(m)' = InFlight(m)
    BY <1>1 DEF InFlight
  <2>2. lapses'[m] = lapses[m] /\ (m \in leased => m \in leased')
    BY <1>1
  <2>3. lapses[m] \in Nat /\ Cardinality(InFlight(m)) \in Nat
    BY InFlightFinite DEF TypeInv, TypeOK
  <2>4. Cardinality(InFlight(m)) <= lapses[m] + (IF m \in leased THEN 1 ELSE 0)
    BY DEF Bounded
  <2>5. Cardinality(InFlight(m)) <= lapses'[m] + (IF m \in leased' THEN 1 ELSE 0)
    BY <2>2, <2>3, <2>4
  <2> QED BY <2>1, <2>5 DEF Bounded
<1>2. CASE req[a].by = m
  <2>1. InFlight(m)' = InFlight(m) \cup {a} /\ a \notin InFlight(m)
    BY <1>2 DEF InFlight
  <2>2. Cardinality(InFlight(m)') = Cardinality(InFlight(m)) + 1
    BY <2>1, InFlightFinite, FS_AddElement
  <2> QED BY <1>2, <2>2, InFlightFinite DEF Bounded, TypeInv, TypeOK
<1> QED BY <1>1, <1>2

LEMMA OneLeaves ==
    ASSUME TypeInv, NEW m \in Members, Bounded(m), NEW a \in Asks, at[a] \in Working,
           at'[a] \notin Working,
           \A b \in Asks : b # a => at'[b] = at[b] /\ req'[b] = req[b],
           lapses' = lapses, leased' = leased \ {req[a].by}
    PROVE  Bounded(m)'
<1>1. CASE req[a].by # m
  <2>1. InFlight(m)' = InFlight(m)
    BY <1>1 DEF InFlight
  <2> QED BY <1>1, <2>1 DEF Bounded
<1>2. CASE req[a].by = m
  <2>1. InFlight(m)' = InFlight(m) \ {a} /\ a \in InFlight(m)
    BY <1>2 DEF InFlight
  <2>2. Cardinality(InFlight(m)') = Cardinality(InFlight(m)) - 1
    BY <2>1, InFlightFinite, FS_RemoveElement
  <2> QED BY <1>2, <2>2, InFlightFinite DEF Bounded, TypeInv, TypeOK
<1> QED BY <1>1, <1>2

LEMMA OneStep ==
    ASSUME TypeInv, OneAtATime, [Next]_vars
    PROVE  OneAtATime'
<1>1. SUFFICES ASSUME NEW m \in Members PROVE Bounded(m)'
  BY DEF OneAtATime, Bounded
<1>2. Bounded(m)
  BY DEF OneAtATime, Bounded
<1>3. /\ at \in [Asks -> {"idle", "admit", "done"} \cup Working]
      /\ req \in [Asks -> Requests \cup {NoRequest}]
      /\ \A a \in Asks : at[a] \in {"admit"} \cup Working => req[a].by \in Members
      /\ lapses \in [Members -> 0..MaxFaults]
  BY RequestsAssumption DEF TypeInv, TypeOK
<1>4. CASE \E a \in Asks : Ask(a) \/ Lookup(a) \/ CheckQuota(a) \/ Resolve(a)
                            \/ CreateSession(a) \/ FailCall(a) \/ AppendTurn(a)
                            \/ AppendFails(a) \/ Replay(a) \/ Abandon(a)
  <2> PICK a \in Asks : Ask(a) \/ Lookup(a) \/ CheckQuota(a) \/ Resolve(a)
                         \/ CreateSession(a) \/ FailCall(a) \/ AppendTurn(a)
                         \/ AppendFails(a) \/ Replay(a) \/ Abandon(a)
    BY <1>4
  <2>1. \A b \in Asks : at'[b] \in Working => at[b] \in Working /\ req'[b] = req[b]
    BY <1>3 DEF Ask, Lookup, CheckQuota, Resolve, CreateSession, FailCall, AppendTurn,
        AppendFails, Replay, Abandon, Answered, NoTurn, ToRelease, Ended, Working
  <2>2. UNCHANGED <<leased, lapses>>
    BY DEF Ask, Lookup, CheckQuota, Resolve, CreateSession, FailCall, AppendTurn,
        AppendFails, Replay, Abandon
  <2> QED BY <1>2, <2>1, <2>2, NoneEnters
<1>5. CASE \E a \in Asks : Admit(a)
  <2> PICK a \in Asks : Admit(a)
    BY <1>5
  <2>1. CASE Busy(a)
    <3>1. \A b \in Asks : at'[b] \in Working => at[b] \in Working /\ req'[b] = req[b]
      BY <1>3, <2>1 DEF Admit, Ended, Working
    <3>2. UNCHANGED <<leased, lapses>>
      BY <2>1 DEF Admit
    <3> QED BY <1>2, <3>1, <3>2, NoneEnters
  <2>2. CASE ~Busy(a)
    <3>1. /\ at[a] \notin Working /\ at'[a] \in Working
          /\ \A b \in Asks : b # a => at'[b] = at[b]
      BY <1>3, <2>2 DEF Admit, Working
    <3>2. req' = req /\ lapses' = lapses /\ leased' = leased \cup {req[a].by}
          /\ req[a].by \notin leased
      BY <2>2 DEF Admit, Busy
    <3> QED BY <1>2, <3>1, <3>2, OneEnters
  <2> QED BY <2>1, <2>2
<1>6. CASE \E a \in Asks : AdmitOpen(a)
  <2> PICK a \in Asks : AdmitOpen(a)
    BY <1>6
  <2>1. /\ at[a] \notin Working /\ at'[a] \in Working
        /\ \A b \in Asks : b # a => at'[b] = at[b]
    BY <1>3 DEF AdmitOpen, Working
  <2>2. /\ req' = req /\ leased \subseteq leased'
        /\ lapses'[m] = IF req[a].by = m THEN lapses[m] + 1 ELSE lapses[m]
    BY <1>3 DEF AdmitOpen, Lapse
  <2> QED BY <1>2, <2>1, <2>2, OneEnters
<1>7. CASE \E a \in Asks : CheckRate(a) \/ Release(a)
  <2> PICK a \in Asks : CheckRate(a) \/ Release(a)
    BY <1>7
  <2>1. CASE Ended(a) /\ leased' = leased \ {req[a].by}
    <3>1. /\ at[a] \in Working /\ at'[a] \notin Working /\ lapses' = lapses
          /\ \A b \in Asks : b # a => at'[b] = at[b] /\ req'[b] = req[b]
      BY <1>3, <2>1 DEF CheckRate, Release, Ended, Working
    <3> QED BY <1>2, <2>1, <3>1, OneLeaves
  <2>2. CASE at' = [at EXCEPT ![a] = "lookup"] /\ UNCHANGED <<req, leased>> /\ CheckRate(a)
    <3>1. \A b \in Asks : at'[b] \in Working => at[b] \in Working /\ req'[b] = req[b]
      BY <1>3, <2>2 DEF CheckRate, Working
    <3> QED BY <1>2, <2>2, <3>1, NoneEnters DEF CheckRate
  <2> QED BY <2>1, <2>2 DEF CheckRate, Release
<1>8. CASE \E n \in Members : LeaseExpires(n)
  <2> PICK n \in Members : LeaseExpires(n)
    BY <1>8
  <2>1. UNCHANGED <<at, req>> /\ leased' = leased \ {n}
    BY DEF LeaseExpires, askVars
  <2>2. InFlight(m)' = InFlight(m)
    BY <2>1 DEF InFlight
  <2>3. CASE n # m
    <3>1. lapses'[m] = lapses[m]
      BY <1>3, <2>3 DEF LeaseExpires, Lapse
    <3> QED BY <1>2, <2>1, <2>2, <2>3, <3>1 DEF Bounded
  <2>4. CASE n = m /\ InFlight(m) # {}
    <3>1. lapses'[m] = lapses[m] + 1
      BY <1>3, <2>4 DEF LeaseExpires, Lapse
    <3> QED BY <1>2, <1>3, <2>1, <2>2, <3>1, InFlightFinite DEF Bounded
  <2>5. CASE n = m /\ InFlight(m) = {}
    <3>1. lapses' = lapses /\ Cardinality(InFlight(m)') = 0
      BY <2>2, <2>5, FS_EmptySet DEF LeaseExpires
    <3> QED BY <1>3, <3>1 DEF Bounded
  <2> QED BY <2>3, <2>4, <2>5
<1>9. CASE MonthsPass
  <2>1. InFlight(m)' = {} /\ lapses' = lapses
    BY <1>9 DEF MonthsPass, askVars, InFlight, Working
  <2>2. Cardinality(InFlight(m)') = 0
    BY <2>1, FS_EmptySet
  <2> QED BY <1>3, <2>1, <2>2 DEF Bounded
<1>10. CASE \/ (\E r \in Rooms : CloseSession(r)) \/ UNCHANGED vars
            \/ \E c \in Cleaners : \/ ListExpired(c) \/ ReadTurns(c) \/ PutPack(c)
                                   \/ RecordArchive(c) \/ DeleteSession(c) \/ CleanerFails(c)
  <2>1. UNCHANGED <<at, req, leased, lapses>>
    BY <1>10 DEF CloseSession, vars, askVars, ListExpired, ReadTurns, PutPack, Storing, RecordArchive,
       DeleteSession, CleanerFails
  <2> QED BY <1>2, <2>1, NoneEnters
<1> QED BY <1>4, <1>5, <1>6, <1>7, <1>8, <1>9, <1>10 DEF Next

LEMMA OneInit == Init => OneAtATime
<1> SUFFICES ASSUME Init, NEW m \in Members PROVE Bounded(m)
  BY DEF OneAtATime, Bounded
<1>1. InFlight(m) = {} /\ lapses[m] = 0
  BY DEF Init, InFlight, Working
<1> QED BY <1>1, FS_EmptySet DEF Bounded

\* A member has at most one question in flight, and one more for each lease of
\* his that was lost or never taken, however leases expire, are released late
\* or are taken by another request.
THEOREM OneQuestionAtATime == Spec => []OneAtATime
<1>1. TypeInv /\ OneAtATime /\ [Next]_vars => TypeInv' /\ OneAtATime'
  BY TypeStep, OneStep
<1> QED BY <1>1, TypeInit, OneInit, PTL DEF Spec

LEMMA TwoInFlight ==
    ASSUME TypeInv, OneAtATime, NEW a \in Asks, NEW b \in Asks, a # b,
           at[a] \in Working, at[b] \in Working, req[a].by = req[b].by
    PROVE  lapses[req[a].by] > 0
<1> DEFINE m == req[a].by
<1>1. m \in Members /\ lapses[m] \in Nat
  BY RequestsAssumption DEF TypeInv, TypeOK
<1>2. {a, b} \in SUBSET InFlight(m)
  BY DEF InFlight
<1>3. Cardinality({a, b}) = 2
  <2>1. {a, b} = {a} \cup {b} /\ b \notin {a}
    OBVIOUS
  <2>2. IsFiniteSet({a}) /\ Cardinality({a}) = 1
    BY FS_Singleton
  <2>3. Cardinality({a} \cup {b}) = Cardinality({a}) + 1
    BY <2>1, <2>2, FS_AddElement
  <2> QED BY <2>1, <2>2, <2>3
<1>4. 2 <= Cardinality(InFlight(m)) /\ Cardinality(InFlight(m)) \in Nat
  BY <1>2, <1>3, InFlightFinite, FS_Subset
<1>5. Cardinality(InFlight(m)) <= lapses[m] + (IF m \in leased THEN 1 ELSE 0)
  BY <1>1 DEF OneAtATime
<1> HIDE DEF m
<1>6. lapses[m] > 0
  BY <1>1, <1>4, <1>5
<1> QED BY <1>6 DEF m

-----------------------------------------------------------------------------
(* The answers to one client request id.  What a request was and what it   *)
(* got stay once it has an answer.                                         *)

AskStep(a) == Ask(a) \/ Admit(a) \/ AdmitOpen(a) \/ CheckRate(a) \/ Lookup(a)
              \/ CheckQuota(a) \/ Resolve(a) \/ CreateSession(a) \/ FailCall(a)
              \/ AppendTurn(a) \/ AppendFails(a) \/ Replay(a) \/ Release(a) \/ Abandon(a)

CleanerStep(c) == ListExpired(c) \/ ReadTurns(c) \/ PutPack(c) \/ RecordArchive(c)
                  \/ DeleteSession(c) \/ CleanerFails(c)

LEMMA NextCases ==
    ASSUME [Next]_vars
    PROVE  \/ \E a \in Asks : AskStep(a)
           \/ \E c \in Cleaners : CleanerStep(c)
           \/ (\E m \in Members : LeaseExpires(m)) \/ (\E r \in Rooms : CloseSession(r)) \/ MonthsPass
           \/ UNCHANGED vars
BY DEF Next, AskStep, CleanerStep

LEMMA OthersKept ==
    ASSUME TypeInv, NEW a \in Asks, AskStep(a), NEW b \in Asks, b # a
    PROVE  UNCHANGED <<at[b], req[b], session[b], saw[b], seen[b], answer[b], seq[b]>>
<1> USE DEF TypeInv, TypeOK
<1>1. CASE Ask(a) \/ Admit(a) \/ AdmitOpen(a) \/ CheckRate(a) \/ Release(a) \/ Abandon(a)
  BY <1>1 DEF Ask, Admit, AdmitOpen, CheckRate, Release, Abandon, Ended, turnVars
<1>2. CASE Lookup(a) \/ CheckQuota(a) \/ FailCall(a) \/ AppendFails(a) \/ Replay(a)
  BY <1>2 DEF Lookup, CheckQuota, FailCall, AppendFails, Replay, Answered, NoTurn,
      ToRelease, turnVars
<1>3. CASE Resolve(a) \/ CreateSession(a)
  BY <1>3 DEF Resolve, CreateSession, NoTurn, ToRelease, turnVars
<1>4. CASE AppendTurn(a)
  BY <1>4 DEF AppendTurn, ToRelease
<1> QED BY <1>1, <1>2, <1>3, <1>4 DEF AskStep

LEMMA RestKept ==
    ASSUME \/ \E c \in Cleaners : CleanerStep(c)
           \/ (\E m \in Members : LeaseExpires(m)) \/ (\E r \in Rooms : CloseSession(r)) \/ MonthsPass
           \/ UNCHANGED vars
    PROVE  UNCHANGED askVars /\ UNCHANGED <<seq, state, late>> /\ hot' \subseteq hot
BY DEF CleanerStep, ListExpired, ReadTurns, PutPack, Storing, RecordArchive, DeleteSession,
   CleanerFails, LeaseExpires, CloseSession, MonthsPass, Closing, vars, askVars, turnVars,
   sessionVars, history

LEMMA AnsweredKept ==
    ASSUME TypeInv, [Next]_vars, NEW b \in Asks, answer[b] # NoAnswer
    PROVE  UNCHANGED <<req[b], session[b], answer[b], seq[b]>>
<1>1. CASE \E a \in Asks : AskStep(a)
  <2> PICK a \in Asks : AskStep(a)
    BY <1>1
  <2>1. CASE a # b
    BY <2>1, OthersKept
  <2>2. CASE a = b
    <3>1. at[b] \in {"release", "done"}
      BY DEF TypeInv, Turns
    <3>2. Release(b) \/ Abandon(b)
      BY <2>2, <3>1 DEF AskStep, Ask, Admit, AdmitOpen, CheckRate, Lookup, CheckQuota, Resolve,
         CreateSession, FailCall, AppendTurn, AppendFails, Replay
    <3> QED BY <3>2 DEF Release, Abandon, Ended, turnVars
  <2> QED BY <2>1, <2>2
<1>2. CASE ~ \E a \in Asks : AskStep(a)
  <2>1. UNCHANGED askVars /\ UNCHANGED seq
    BY <1>2, NextCases, RestKept
  <2> QED BY <2>1 DEF askVars
<1> QED BY <1>1, <1>2

\* Turns are added one by one, by requests that find no earlier turn.
LEMMA HotGrows ==
    ASSUME [Next]_vars
    PROVE  hot' \subseteq hot \/ \E a \in Asks : AppendTurn(a)
<1>1. CASE \E a \in Asks : AskStep(a)
  BY <1>1 DEF AskStep, Ask, Admit, AdmitOpen, CheckRate, Lookup, CheckQuota, Resolve,
     CreateSession, FailCall, AppendFails, Replay, Release, Abandon, turnVars
<1> QED BY <1>1, NextCases, RestKept

LEMMA AnswerComes ==
    ASSUME TypeInv, [Next]_vars, NEW a \in Asks, answer[a] = NoAnswer, answer'[a] # NoAnswer
    PROVE  \/ answer'[a] = a
           \/ /\ answer'[a] \in Earlier(a) /\ req[answer'[a]].question = req[a].question
              /\ req' = req /\ hot' = hot
<1>1. CASE \E b \in Asks : AskStep(b)
  <2> PICK b \in Asks : AskStep(b)
    BY <1>1
  <2>1. a = b
    BY OthersKept
  <2>2. answer \in [Asks -> Asks \cup {NoAnswer}]
    BY DEF TypeInv, TypeOK
  <2>3. CASE Lookup(a) \/ Replay(a)
    BY <2>2, <2>3 DEF Lookup, Replay, Answered, turnVars
  <2>4. CASE AppendTurn(a)
    BY <2>2, <2>4 DEF AppendTurn
  <2>5. CASE ~ (Lookup(a) \/ Replay(a) \/ AppendTurn(a))
    <3>1. answer' = answer
      BY <2>1, <2>5 DEF AskStep, Ask, Admit, AdmitOpen, CheckRate, CheckQuota, Resolve,
         CreateSession, FailCall, AppendFails, Release, Abandon
    <3> QED BY <3>1
  <2> QED BY <2>3, <2>4, <2>5
<1>2. CASE ~ \E b \in Asks : AskStep(b)
  BY <1>2, NextCases, RestKept DEF askVars
<1> QED BY <1>1, <1>2

AnswerInv ==
    /\ \A a \in Asks : answer[a] \in hot =>
          SameKey(a, answer[a]) /\ req[answer[a]].question = req[a].question
    /\ \A a, b \in hot : SameKey(a, b) => a = b

LEMMA AnswerStep == TypeInv /\ AnswerInv /\ [Next]_vars => AnswerInv'
<1> SUFFICES ASSUME TypeInv, AnswerInv, [Next]_vars PROVE AnswerInv'
  OBVIOUS
<1>1. hot \subseteq Asks /\ hot' \subseteq Asks /\ NoAnswer \notin Asks
  BY TypeStep, ConstantsAssumption DEF TypeInv, TypeOK
<1>2. \A a \in Asks : seq[a] > 0 => answer[a] = a /\ req'[a] = req[a]
  BY <1>1, AnsweredKept DEF TypeInv, Turns
<1>3. \A a \in Asks : seq[a] > 0 /\ a \in hot' => a \in hot
  <2>1. CASE hot' \subseteq hot
    BY <2>1
  <2>2. CASE \E b \in Asks : AppendTurn(b)
    <3> PICK b \in Asks : AppendTurn(b)
      BY <2>2
    <3>1. ~ (seq[b] > 0) /\ hot' = hot \cup {b}
      BY DEF AppendTurn, TypeInv, Turns
    <3> QED BY <3>1
  <2> QED BY <2>1, <2>2, HotGrows
<1>4. \A a, b \in hot' : SameKey(a, b)' => a = b
  <2>1. CASE hot' \subseteq hot
    <3>1. \A a \in hot' : a \in hot /\ req'[a] = req[a]
      BY <1>1, <1>2, <2>1 DEF TypeInv, Turns
    <3> QED BY <3>1 DEF AnswerInv, SameKey
  <2>2. CASE \E c \in Asks : AppendTurn(c)
    <3> PICK c \in Asks : AppendTurn(c)
      BY <2>2
    <3>1. hot' = hot \cup {c} /\ req' = req /\ \A b \in hot : ~SameKey(c, b)
      BY DEF AppendTurn, Earlier
    <3> QED BY <3>1 DEF AnswerInv, SameKey
  <2> QED BY <2>1, <2>2, HotGrows
<1>5. ASSUME NEW a \in Asks, answer'[a] \in hot'
      PROVE  SameKey(a, answer[a])' /\ req'[answer'[a]].question = req'[a].question
  <2>1. CASE answer[a] # NoAnswer
    <3>1. answer'[a] = answer[a] /\ req'[a] = req[a]
      BY <2>1, AnsweredKept
    <3>2. answer[a] \in Asks /\ seq[answer[a]] > 0
      BY <1>1, <1>5, <2>1, <3>1 DEF TypeInv, Turns
    <3>3. answer[a] \in hot /\ req'[answer[a]] = req[answer[a]]
      BY <1>2, <1>3, <1>5, <3>1, <3>2
    <3> QED BY <3>1, <3>3 DEF AnswerInv, SameKey
  <2>2. CASE answer[a] = NoAnswer
    <3>1. answer'[a] # NoAnswer
      BY <1>1, <1>5
    <3> QED BY <2>2, <3>1, AnswerComes DEF Earlier, SameKey
  <2> QED BY <2>1, <2>2
<1> QED BY <1>4, <1>5 DEF AnswerInv

\* All responses to one client request id of a member name the same turn, one
\* of his own with the question he asked: however the requests overlap, whether
\* or not a lease is lost, and though the turn of one may appear while another
\* is already past the look-up.
THEOREM AnswersToOneRequestAgree == Spec => []AnswersAgree
<1>1. Init => AnswerInv
  BY ConstantsAssumption DEF Init, AnswerInv
<1>2. AnswerInv => AnswersAgree
  BY DEF AnswerInv, AnswersAgree, SameKey
<1> QED BY <1>1, <1>2, TypeInit, TypeStep, AnswerStep, PTL DEF Spec

-----------------------------------------------------------------------------
(* The quota.                                                              *)

NoLapse == \A m \in Members : lapses[m] = 0

LEMMA CountsFinite ==
    ASSUME TypeInv
    PROVE  /\ IsFiniteSet(hot \ old) /\ Used \in Nat
           /\ IsFiniteSet(PastCheck) /\ Cardinality(PastCheck) \in Nat
           /\ Cardinality(Members) \in Nat
<1>1. hot \ old \in SUBSET Asks /\ PastCheck \in SUBSET Asks
  BY DEF TypeInv, TypeOK, PastCheck
<1> QED BY <1>1, FS_Subset, FS_CardinalityType, ConstantsAssumption DEF Used

\* While no lease is lost, the requests past the check are of different members.
LEMMA AtMostOneEach ==
    ASSUME TypeInv, OneAtATime, NoLapse, NEW P \in SUBSET Asks, \A a \in P : at[a] \in Working
    PROVE  Cardinality(P) <= Cardinality({req[a].by : a \in P})
<1> DEFINE f == [a \in P |-> req[a].by]
           T == {req[a].by : a \in P}
<1>1. \A a, b \in P : f[a] = f[b] => a = b
  <2> SUFFICES ASSUME NEW a \in P, NEW b \in P, req[a].by = req[b].by, a # b PROVE FALSE
    OBVIOUS
  <2>1. lapses[req[a].by] > 0
    BY TwoInFlight
  <2>2. req[a].by \in Members
    BY RequestsAssumption DEF TypeInv, TypeOK
  <2> QED BY <2>1, <2>2 DEF NoLapse
<1>2. f \in Injection(P, T)
  BY <1>1 DEF Injection, IsInjective
<1>3. T \in SUBSET Members
  BY RequestsAssumption DEF TypeInv, TypeOK
<1>4. IsFiniteSet(T)
  BY <1>3, FS_Subset, ConstantsAssumption
<1> HIDE DEF f, T
<1>5. Cardinality(P) <= Cardinality(T)
  BY <1>2, <1>4, FS_Injection
<1> QED BY <1>5 DEF T

LEMMA ImageIsSmall ==
    ASSUME NEW S, IsFiniteSet(S), NEW f
    PROVE  /\ IsFiniteSet({f[a] : a \in S}) /\ Cardinality({f[a] : a \in S}) \in Nat
           /\ Cardinality({f[a] : a \in S}) <= Cardinality(S)
<1> DEFINE T == {f[a] : a \in S}
           g == [a \in S |-> f[a]]
<1>1. g \in Surjection(S, T)
  BY DEF Surjection
<1> HIDE DEF g, T
<1>2. IsFiniteSet(T) /\ Cardinality(T) <= Cardinality(S)
  BY <1>1, FS_Surjection
<1>3. Cardinality(T) \in Nat
  BY <1>2, FS_CardinalityType
<1> QED BY <1>2, <1>3 DEF T

\* What is taken from a set takes at most as much from its image.
LEMMA FewerImages ==
    ASSUME NEW S, IsFiniteSet(S), NEW T \in SUBSET S, NEW f
    PROVE  Cardinality(T) + Cardinality({f[a] : a \in S})
              <= Cardinality(S) + Cardinality({f[a] : a \in T})
<1> DEFINE D == S \ T
           FS == {f[a] : a \in S}
           FT == {f[a] : a \in T}
           FD == {f[a] : a \in D}
<1>1. /\ IsFiniteSet(T) /\ Cardinality(T) \in Nat /\ Cardinality(S) \in Nat
      /\ IsFiniteSet(D) /\ Cardinality(D) = Cardinality(S) - Cardinality(T)
  <2>1. IsFiniteSet(T) /\ Cardinality(T) \in Nat /\ Cardinality(S) \in Nat
    BY FS_Subset, FS_CardinalityType
  <2>2. S \cap T = T
    OBVIOUS
  <2> QED BY <2>1, <2>2, FS_Difference
<1>2. FS = FT \cup FD
  OBVIOUS
<1>3. /\ IsFiniteSet(FT) /\ Cardinality(FT) \in Nat
      /\ IsFiniteSet(FD) /\ Cardinality(FD) \in Nat /\ Cardinality(FD) <= Cardinality(D)
  BY <1>1, ImageIsSmall
<1> HIDE DEF D, FS, FT, FD
<1>4. Cardinality(FS) <= Cardinality(FT) + Cardinality(FD) /\ Cardinality(FS) \in Nat
  <2>1. /\ IsFiniteSet(FT \cup FD)
        /\ Cardinality(FT \cup FD) =
              Cardinality(FT) + Cardinality(FD) - Cardinality(FT \cap FD)
    BY <1>3, FS_Union
  <2>2. FT \cap FD \in SUBSET FT
    OBVIOUS
  <2>3. Cardinality(FT \cap FD) \in Nat /\ Cardinality(FT \cup FD) \in Nat
    BY <1>3, <2>1, <2>2, FS_Subset, FS_CardinalityType
  <2> QED BY <1>2, <1>3, <2>1, <2>3
<1>5. Cardinality(T) + Cardinality(FS) <= Cardinality(S) + Cardinality(FT)
  BY <1>1, <1>3, <1>4
<1> QED BY <1>5 DEF FS, FT

LEMMA LapsesStay ==
    ASSUME TypeInv, [Next]_vars, NEW m \in Members
    PROVE  lapses[m] \in Nat /\ lapses'[m] \in Nat /\ lapses[m] <= lapses'[m]
<1>1. lapses \in [Members -> Nat] /\ lapses' \in [Members -> Nat]
  BY TypeStep, ConstantsAssumption DEF TypeInv, TypeOK
<1>2. CASE (\E a \in Asks : AdmitOpen(a)) \/ \E n \in Members : LeaseExpires(n)
  BY <1>1, <1>2 DEF AdmitOpen, LeaseExpires, Lapse
<1>3. CASE ~ ((\E a \in Asks : AdmitOpen(a)) \/ \E n \in Members : LeaseExpires(n))
  <2>1. lapses' = lapses
    BY <1>3 DEF Next, Ask, Admit, CheckRate, Lookup, CheckQuota, Resolve, CreateSession,
       FailCall, AppendTurn, AppendFails, Replay, Release, Abandon, CloseSession, MonthsPass,
       ListExpired, ReadTurns, PutPack, Storing, RecordArchive, DeleteSession, CleanerFails, vars
  <2> QED BY <1>1, <2>1
<1> QED BY <1>2, <1>3

\* Only a request that passes the check comes to be past it.
LEMMA PassesCheck ==
    ASSUME TypeInv, [Next]_vars
    PROVE  \/ PastCheck' \subseteq PastCheck
           \/ \E a \in Asks : CheckQuota(a) /\ ~Exhausted /\ PastCheck' \subseteq PastCheck \cup {a}
<1> USE DEF PastCheck
<1>1. CASE \E a \in Asks : AskStep(a)
  <2> PICK a \in Asks : AskStep(a)
    BY <1>1
  <2>1. \A b \in Asks : b # a => at'[b] = at[b]
    BY OthersKept
  <2>2. at \in [Asks -> {"idle", "admit", "done"} \cup Working]
    BY DEF TypeInv, TypeOK
  <2>3. CASE CheckQuota(a) /\ ~Exhausted
    BY <2>1, <2>3
  <2>4. CASE ~(CheckQuota(a) /\ ~Exhausted)
    <3>1. at'[a] \in {"resolve", "create", "query"} => at[a] \in {"resolve", "create", "query"}
      BY <2>2, <2>4 DEF AskStep, Ask, Admit, AdmitOpen, CheckRate, Lookup, CheckQuota, Resolve,
         CreateSession, FailCall, AppendTurn, AppendFails, Replay, Release, Abandon, Answered,
         NoTurn, ToRelease, Ended
    <3> QED BY <2>1, <3>1
  <2> QED BY <2>3, <2>4
<1>2. CASE ~ \E a \in Asks : AskStep(a)
  BY <1>2, NextCases, RestKept DEF askVars
<1> QED BY <1>1, <1>2

LEMMA UsedGrows ==
    ASSUME TypeInv, [Next]_vars
    PROVE  \/ hot' \ old' \subseteq hot \ old
           \/ \E a \in Asks : AppendTurn(a) /\ hot' \ old' \subseteq (hot \ old) \cup {a}
<1>1. old' = old \/ MonthsPass
  BY DEF Next, Ask, Admit, AdmitOpen, CheckRate, Lookup, CheckQuota, Resolve, CreateSession,
     FailCall, AppendTurn, AppendFails, Replay, Release, Abandon, LeaseExpires, CloseSession,
     ListExpired, ReadTurns, PutPack, Storing, RecordArchive, DeleteSession, CleanerFails, vars, turnVars
<1>2. CASE MonthsPass
  BY <1>2 DEF MonthsPass
<1>3. CASE old' = old /\ hot' \subseteq hot
  BY <1>3
<1>4. CASE old' = old /\ \E a \in Asks : AppendTurn(a)
  BY <1>4 DEF AppendTurn
<1> QED BY <1>1, <1>2, <1>3, <1>4, HotGrows

\* A turn in the database is what it was when it was written.
LEMMA TurnKept ==
    ASSUME TypeInv, [Next]_vars, NEW a \in hot
    PROVE  /\ a \in Asks /\ req[a].by \in Members
           /\ UNCHANGED <<req[a], session[a], seq[a]>>
<1>1. a \in Asks /\ answer[a] = a /\ a # NoAnswer /\ req[a] \in Requests
  BY ConstantsAssumption DEF TypeInv, TypeOK, Turns
<1> QED BY <1>1, AnsweredKept, RequestsAssumption

\* Who asks keeps asking, as far as the quota counts him.
LEMMA AskerStays ==
    ASSUME TypeInv, [Next]_vars, NEW a \in PastCheck \cup (hot \ old),
           a \in PastCheck' \cup (hot' \ old')
    PROVE  req'[a] = req[a]
<1>1. CASE a \in hot
  BY <1>1, TurnKept
<1>2. CASE a \in PastCheck /\ \E b \in Asks : AskStep(b)
  <2> PICK b \in Asks : AskStep(b)
    BY <1>2
  <2>1. CASE a # b
    BY <1>2, <2>1, OthersKept DEF PastCheck
  <2>2. CASE a = b
    <3>1. CASE Abandon(a)
      <4>1. at'[a] = "done" /\ hot' = hot
        BY <1>2, <3>1 DEF Abandon, Ended, turnVars, TypeInv, TypeOK, PastCheck
      <4>2. a \notin hot
        BY <1>2 DEF TypeInv, Turns, TypeOK, PastCheck
      <4> QED BY <4>1, <4>2 DEF PastCheck
    <3>2. CASE ~Abandon(a)
      BY <1>2, <2>2, <3>2 DEF AskStep, Ask, Admit, AdmitOpen, CheckRate, Lookup, CheckQuota,
         Resolve, CreateSession, FailCall, AppendTurn, AppendFails, Replay, Release, PastCheck
    <3> QED BY <3>1, <3>2
  <2> QED BY <2>1, <2>2
<1>3. CASE ~ \E b \in Asks : AskStep(b)
  BY <1>3, NextCases, RestKept DEF askVars
<1> QED BY <1>1, <1>2, <1>3

LEMMA QuotaStep ==
    ASSUME TypeInv, OneAtATime, QuotaNearlyKept, [Next]_vars
    PROVE  QuotaNearlyKept'
<1> SUFFICES ASSUME NoLapse'
             PROVE  (Used + Cardinality(PastCheck) < Limit + Cardinality(Askers))'
  BY DEF QuotaNearlyKept, NoLapse
<1> DEFINE P == PastCheck
           U == hot \ old
           S == P \cup U
           P2 == PastCheck'
           U2 == hot' \ old'
           S2 == P2 \cup U2
           f == [a \in Asks |-> req[a].by]
           g == [a \in Asks |-> req'[a].by]
           FS == {f[a] : a \in S}
           GS2 == {g[a] : a \in S2}
<1>1. NoLapse
  BY LapsesStay DEF NoLapse
<1>2. /\ S \in SUBSET Asks /\ P \cap U = {} /\ S2 \in SUBSET Asks /\ P2 \cap U2 = {}
  <2>1. hot \in SUBSET Asks /\ P \in SUBSET Asks /\ \A a \in hot : a \notin P
    <3>1. \A a \in hot : a \in Asks /\ at[a] \in {"release", "done"}
      BY DEF TypeInv, TypeOK, Turns
    <3> QED BY <3>1 DEF PastCheck
  <2>2. hot' \in SUBSET Asks /\ P2 \in SUBSET Asks /\ \A a \in hot' : a \notin P2
    <3>1. \A a \in hot' : a \in Asks /\ at'[a] \in {"release", "done"}
      BY TypeStep DEF TypeInv, TypeOK, Turns
    <3> QED BY <3>1 DEF PastCheck
  <2> QED BY <2>1, <2>2
<1>3. /\ Limit \in Nat /\ (Used < Limit \/ Exhausted)
      /\ IsFiniteSet(S) /\ IsFiniteSet(P) /\ IsFiniteSet(U)
      /\ IsFiniteSet(S2) /\ IsFiniteSet(P2) /\ IsFiniteSet(U2)
      /\ Cardinality(S) \in Nat /\ Cardinality(P) \in Nat /\ Cardinality(U) \in Nat
      /\ Cardinality(S2) \in Nat /\ Cardinality(P2) \in Nat /\ Cardinality(U2) \in Nat
  <2>1. /\ P \in SUBSET Asks /\ U \in SUBSET Asks
        /\ P2 \in SUBSET Asks /\ U2 \in SUBSET Asks
    BY <1>2
  <2>2. \A T \in SUBSET Asks : IsFiniteSet(T) /\ Cardinality(T) \in Nat
    BY FS_Subset, FS_CardinalityType, ConstantsAssumption
  <2>3. Used \in Nat
    BY CountsFinite
  <2> HIDE DEF P, U, S, P2, U2, S2
  <2> QED BY <1>2, <2>1, <2>2, <2>3, ConstantsAssumption DEF Exhausted
<1>4. Used = Cardinality(U) /\ Used' = Cardinality(U2) /\ Askers = FS /\ Askers' = GS2
  BY <1>2 DEF Used, Askers
<1>5. \A a \in S \cap S2 : f[a] = g[a]
  BY <1>2, AskerStays
<1> SUFFICES Cardinality(U2) + Cardinality(P2) < Limit + Cardinality(GS2)
  BY <1>4
<1>6. S2 \subseteq S \/ \E a \in Asks : CheckQuota(a) /\ ~Exhausted
  <2>1. P2 \subseteq P \/ \E a \in Asks : CheckQuota(a) /\ ~Exhausted
    BY PassesCheck
  <2>2. U2 \subseteq S
    <3>1. ASSUME NEW a \in Asks, AppendTurn(a) PROVE a \in P
      BY <3>1 DEF AppendTurn, PastCheck
    <3> QED BY <3>1, UsedGrows
  <2> QED BY <2>1, <2>2
<1>7. CASE S2 \subseteq S
  <2> DEFINE GS == {f[a] : a \in S2}
  <2>1. GS = GS2
    BY <1>5, <1>7
  <2>2. Cardinality(S2) + Cardinality(FS) <= Cardinality(S) + Cardinality(GS)
    <3> HIDE DEF f, S, S2
    <3> QED BY <1>3, <1>7, FewerImages
  <2>3. /\ Cardinality(S) = Cardinality(P) + Cardinality(U)
        /\ Cardinality(S2) = Cardinality(P2) + Cardinality(U2)
    <3>1. S = P \cup U /\ S2 = P2 \cup U2
      OBVIOUS
    <3> HIDE DEF P, U, S, P2, U2, S2
    <3>2. /\ Cardinality(P \cup U) = Cardinality(P) + Cardinality(U) - Cardinality(P \cap U)
          /\ Cardinality(P2 \cup U2) =
                Cardinality(P2) + Cardinality(U2) - Cardinality(P2 \cap U2)
      BY <1>3, FS_Union
    <3>3. Cardinality(P \cap U) = 0 /\ Cardinality(P2 \cap U2) = 0
      BY <1>2, FS_EmptySet
    <3> QED BY <1>3, <3>1, <3>2, <3>3
  <2>4. Cardinality(FS) \in Nat /\ Cardinality(GS) \in Nat
    <3> HIDE DEF f, S, S2
    <3> QED BY <1>3, ImageIsSmall
  <2>5. Cardinality(U) + Cardinality(P) < Limit + Cardinality(FS)
    BY <1>1, <1>4 DEF QuotaNearlyKept, NoLapse
  <2> HIDE DEF S, P, U, S2, P2, U2, FS, GS, GS2
  <2> QED BY <1>3, <2>1, <2>2, <2>3, <2>4, <2>5
<1>8. CASE \E a \in Asks : CheckQuota(a) /\ ~Exhausted
  <2> PICK a \in Asks : CheckQuota(a) /\ ~Exhausted
    BY <1>8
  <2>1. req' = req /\ U2 = U /\ \A b \in P2 : at[b] \in Working
    BY DEF CheckQuota, turnVars, PastCheck, Working, TypeInv, TypeOK
  <2> DEFINE GP == {req[b].by : b \in P2}
  <2>2. Cardinality(P2) <= Cardinality(GP)
    BY <1>1, <1>2, <2>1, AtMostOneEach
  <2>3. GP \in SUBSET GS2
    BY <1>2, <2>1
  <2>4. IsFiniteSet(GS2) /\ Cardinality(GS2) \in Nat
    <3> HIDE DEF g, S2
    <3> QED BY <1>3, ImageIsSmall
  <2> HIDE DEF P, U, P2, U2, GP, GS2
  <2>5. Cardinality(GP) <= Cardinality(GS2) /\ Cardinality(GP) \in Nat
    BY <2>3, <2>4, FS_Subset, FS_CardinalityType
  <2>6. Cardinality(U2) < Limit
    BY <1>3, <1>4, <2>1
  <2> QED BY <1>3, <2>2, <2>4, <2>5, <2>6
<1> QED BY <1>6, <1>7, <1>8

\* While no lease is lost, the answers of a month in all rooms of the workspace stay
\* below the limit plus one for each member who asks, the requests on their way to
\* an answer included, though the check and the answer are calls far apart.
THEOREM QuotaOverrunIsSmall == Spec => []QuotaNearlyKept
<1>1. Init => QuotaNearlyKept
  <2> SUFFICES ASSUME Init PROVE Used + Cardinality(PastCheck) < Limit + Cardinality(Askers)
    BY DEF QuotaNearlyKept
  <2>1. hot \ old = {} /\ PastCheck = {} /\ Askers = {}
    BY DEF Init, PastCheck, Askers
  <2>2. Used = 0 /\ Cardinality(PastCheck) = 0 /\ Cardinality(Askers) = 0
    BY <2>1, FS_EmptySet DEF Used
  <2> QED BY <2>2, ConstantsAssumption
<1>2. TypeInv /\ OneAtATime /\ QuotaNearlyKept /\ [Next]_vars
         => TypeInv' /\ OneAtATime' /\ QuotaNearlyKept'
  BY TypeStep, OneStep, QuotaStep
<1> QED BY <1>1, <1>2, TypeInit, OneInit, PTL DEF Spec

\* The quota is exact in a month in which one member asks: his questions come one
\* after the other, in the one room he asks in.
THEOREM LoneAskerKeepsQuota ==
    Spec => [](NoLapse /\ (\A m, n \in Askers : m = n) => Used <= Limit)
<1>1. ASSUME TypeInv, QuotaNearlyKept, NoLapse, \A m, n \in Askers : m = n
      PROVE  Used <= Limit
  <2>1. Cardinality(Askers) <= 1 /\ Cardinality(Askers) \in Nat
    <3>1. CASE Askers = {}
      BY <3>1, FS_EmptySet
    <3>2. ASSUME NEW m \in Askers PROVE Cardinality(Askers) = 1
      <4>1. Askers = {m}
        BY <1>1
      <4> QED BY <4>1, FS_Singleton
    <3> QED BY <3>1, <3>2
  <2>2. Used + Cardinality(PastCheck) < Limit + Cardinality(Askers)
    BY <1>1 DEF NoLapse, QuotaNearlyKept
  <2> QED BY <1>1, <2>1, <2>2, CountsFinite, ConstantsAssumption
<1> QED BY <1>1, QuotaOverrunIsSmall, TypeInit, TypeStep, PTL DEF Spec

-----------------------------------------------------------------------------
(* The state of a session.                                                 *)

Superseded(a) ==
    \E b \in TurnsOf(session[a]) :
       seq[b] > seq[a] /\ (req[b].by # req[a].by \/ lapses[req[a].by] > 0)

\* What a request has read of its session lacks a turn only if the turn is
\* superseded already, or will be by this request.
SawEnough ==
    \A b \in Asks : at[b] = "query" =>
       \A a \in TurnsOf(session[b]) :
          a \in saw[b] \/ Superseded(a) \/ req[b].by # req[a].by \/ lapses[req[a].by] > 0

LEMMA HotShrinks ==
    ASSUME [Next]_vars
    PROVE  hot \subseteq hot' \/ \E c \in Cleaners : DeleteSession(c)
<1>1. CASE \E a \in Asks : AskStep(a)
  BY <1>1 DEF AskStep, Ask, Admit, AdmitOpen, CheckRate, Lookup, CheckQuota, Resolve,
     CreateSession, FailCall, AppendTurn, AppendFails, Replay, Release, Abandon, turnVars
<1>2. CASE \E c \in Cleaners : CleanerStep(c)
  BY <1>2 DEF CleanerStep, ListExpired, ReadTurns, PutPack, Storing, RecordArchive, CleanerFails, turnVars
<1>3. CASE (\E m \in Members : LeaseExpires(m)) \/ (\E r \in Rooms : CloseSession(r)) \/ MonthsPass \/ UNCHANGED vars
  BY <1>3 DEF LeaseExpires, CloseSession, MonthsPass, vars, turnVars
<1> QED BY <1>1, <1>2, <1>3, NextCases

LEMMA SupersededKept ==
    ASSUME TypeInv, [Next]_vars, NEW a \in hot, a \in hot', Superseded(a)
    PROVE  Superseded(a)'
<1>1. PICK b \in TurnsOf(session[a]) :
         seq[b] > seq[a] /\ (req[b].by # req[a].by \/ lapses[req[a].by] > 0)
  BY DEF Superseded
<1>2. b \in hot /\ session[b] = session[a]
  BY <1>1 DEF TurnsOf
<1>3. /\ UNCHANGED <<req[a], session[a], seq[a], req[b], session[b], seq[b]>>
      /\ req[a].by \in Members
  BY <1>2, TurnKept
<1>4. b \in hot'
  <2>1. CASE \E c \in Cleaners : DeleteSession(c)
    BY <1>2, <2>1 DEF DeleteSession, TurnsOf
  <2> QED BY <1>2, <2>1, HotShrinks
<1>5. b \in TurnsOf(session[a])'
  BY <1>2, <1>3, <1>4 DEF TurnsOf
<1>6. lapses[req[a].by] > 0 => lapses'[req[a].by] > 0
  BY <1>3, LapsesStay
<1>7. seq'[b] > seq'[a] /\ (req'[b].by # req'[a].by \/ lapses'[req'[a].by] > 0)
  BY <1>1, <1>3, <1>6
<1> QED BY <1>5, <1>7 DEF Superseded

LEMMA EntersQuery ==
    ASSUME TypeInv, [Next]_vars, NEW b \in Asks, at'[b] = "query"
    PROVE  /\ req'[b] = req[b]
           /\ \/ at[b] = "query" /\ UNCHANGED <<session[b], saw[b]>>
              \/ /\ saw'[b] = state[session'[b]] /\ hot' = hot
                 /\ RoomOf[session'[b]] = AskedIn(b)
<1>1. CASE \E a \in Asks : AskStep(a)
  <2> PICK a \in Asks : AskStep(a)
    BY <1>1
  <2>1. CASE a # b
    BY <2>1, OthersKept
  <2>2. CASE a = b
    <3>1. /\ at \in [Asks -> {"idle", "admit", "done"} \cup Working] /\ saw \in [Asks -> SUBSET Asks]
          /\ session \in [Asks -> Sessions \cup {NoSession}]
      BY DEF TypeInv, TypeOK
    <3>2. Resolve(b) \/ CreateSession(b)
      BY <2>2, <3>1 DEF AskStep, Ask, Admit, AdmitOpen, CheckRate, Lookup, CheckQuota,
         FailCall, AppendTurn, AppendFails, Replay, Release, Abandon, Answered, NoTurn,
         ToRelease, Ended
    <3>3. CASE Resolve(b)
      BY <3>1, <3>3 DEF Resolve, InRoom, turnVars
    <3>4. CASE CreateSession(b)
      BY <3>1, <3>4 DEF CreateSession, InRoom, turnVars
    <3> QED BY <3>2, <3>3, <3>4
  <2> QED BY <2>1, <2>2
<1>2. CASE ~ \E a \in Asks : AskStep(a)
  <2>1. UNCHANGED askVars
    BY <1>2, NextCases, RestKept
  <2> QED BY <2>1 DEF askVars
<1> QED BY <1>1, <1>2

LEMMA StateChanges ==
    ASSUME [Next]_vars
    PROVE  state' = state \/ \E a \in Asks : AppendTurn(a)
<1>1. CASE \E a \in Asks : AskStep(a)
  BY <1>1 DEF AskStep, Ask, Admit, AdmitOpen, CheckRate, Lookup, CheckQuota, Resolve,
     CreateSession, FailCall, AppendFails, Replay, Release, Abandon, sessionVars
<1> QED BY <1>1, NextCases, RestKept

LEMMA StateStep ==
    ASSUME TypeInv, OneAtATime, StateAccounts, SawEnough, [Next]_vars
    PROVE  StateAccounts' /\ SawEnough'
<1>1. \A a \in hot : a \in state[session[a]] \/ Superseded(a)
  BY DEF StateAccounts, Superseded
<1>2. \A a \in hot' : a \in hot \/ (a \in Asks /\ AppendTurn(a))
  BY HotGrows DEF AppendTurn
<1>3. ASSUME NEW a \in hot'
      PROVE  a \in state'[session'[a]] \/ Superseded(a)'
  <2>1. CASE a \notin hot
    <3>1. a \in Asks /\ AppendTurn(a)
      BY <1>2, <2>1
    <3>2. session[a] \in Sessions /\ state \in [Sessions -> SUBSET Asks]
      BY <3>1 DEF AppendTurn, Existing, TypeInv, TypeOK
    <3> QED BY <3>1, <3>2 DEF AppendTurn, Evolved
  <2>2. CASE a \in hot /\ state' = state
    <3>1. session'[a] = session[a]
      BY <2>2, TurnKept
    <3> QED BY <1>1, <1>3, <2>2, <3>1, SupersededKept
  <2>3. CASE a \in hot /\ \E c \in Asks : AppendTurn(c)
    <3> PICK c \in Asks : AppendTurn(c)
      BY <2>3
    <3> DEFINE s == session[c]
    <3>1. /\ s \in Sessions /\ state' = [state EXCEPT ![s] = saw[c] \cup {c}]
          /\ seq' = [seq EXCEPT ![c] = NextSequence(s)] /\ hot' = hot \cup {c}
          /\ UNCHANGED <<req, session, lapses>>
      BY DEF AppendTurn, Existing, Evolved
    <3>2. state \in [Sessions -> SUBSET Asks] /\ seq \in [Asks -> 0..Cardinality(Asks)]
      BY DEF TypeInv, TypeOK
    <3>3. UNCHANGED <<req[a], session[a], seq[a]>> /\ a \in Asks
      BY <2>3, TurnKept
    <3>4. CASE session[a] # s
      <4>1. state'[session'[a]] = state[session[a]]
        BY <3>1, <3>2, <3>3, <3>4
      <4> QED BY <1>1, <1>3, <2>3, <4>1, SupersededKept
    <3>5. CASE session[a] = s
      <4>1. at[c] = "query" /\ a \in TurnsOf(s)
        BY <2>3, <3>5 DEF AppendTurn, TurnsOf
      <4>2. CASE a \in saw[c]
        BY <3>1, <3>2, <3>5, <4>2
      <4>3. CASE Superseded(a)
        BY <1>3, <2>3, <4>3, SupersededKept
      <4>4. CASE req[c].by # req[a].by \/ lapses[req[a].by] > 0
        <5>1. seq[a] < NextSequence(s)
          BY <3>1, <4>1, NextIsHigher
        <5>2. seq'[c] > seq'[a]
          <6>1. NextSequence(s) \in Int /\ seq[a] \in Int
            BY <3>1, <3>2, <3>3, NextIsHigher, WrittenFinite
          <6> QED BY <3>1, <3>2, <3>3, <5>1, <6>1
        <5>3. c \in TurnsOf(session[a])'
          BY <3>1, <3>5 DEF TurnsOf
        <5> QED BY <3>1, <4>4, <5>2, <5>3 DEF Superseded
      <4> QED BY <4>1, <4>2, <4>3, <4>4 DEF SawEnough
    <3> QED BY <3>4, <3>5
  <2> QED BY <2>1, <2>2, <2>3, StateChanges
<1>4. StateAccounts'
  BY <1>3 DEF StateAccounts, Superseded
<1>5. ASSUME NEW b \in Asks, at'[b] = "query", NEW a \in TurnsOf(session[b])'
      PROVE  \/ a \in saw'[b] \/ Superseded(a)'
             \/ req'[b].by # req'[a].by \/ lapses'[req'[a].by] > 0
  <2>1. a \in hot' /\ session'[a] = session'[b]
    BY <1>5 DEF TurnsOf
  <2>2. CASE a \in hot
    <3>1. UNCHANGED <<req[a], session[a]>> /\ req[a].by \in Members
      BY <2>2, TurnKept
    <3>2. lapses[req[a].by] > 0 => lapses'[req[a].by] > 0
      BY <3>1, LapsesStay
    <3>3. Superseded(a) => Superseded(a)'
      BY <2>1, <2>2, SupersededKept
    <3>4. CASE at[b] = "query" /\ UNCHANGED <<session[b], saw[b]>> /\ req'[b] = req[b]
      <4>1. a \in TurnsOf(session[b])
        BY <2>1, <2>2, <3>1, <3>4 DEF TurnsOf
      <4>2. a \in saw[b] \/ Superseded(a) \/ req[b].by # req[a].by \/ lapses[req[a].by] > 0
        BY <3>4, <4>1 DEF SawEnough
      <4> QED BY <3>1, <3>2, <3>3, <3>4, <4>2
    <3>5. CASE saw'[b] = state[session'[b]]
      BY <1>1, <2>1, <2>2, <3>1, <3>3, <3>5
    <3> QED BY <1>5, <3>4, <3>5, EntersQuery
  <2>3. CASE a \notin hot
    <3>1. a \in Asks /\ AppendTurn(a)
      BY <1>2, <2>1, <2>3
    <3>2. at[a] = "query" /\ at' = [at EXCEPT ![a] = "release"] /\ UNCHANGED <<req, lapses>>
      BY <3>1 DEF AppendTurn, ToRelease
    <3>3. a # b /\ at[b] = "query"
      BY <1>5, <3>1, <3>2 DEF TypeInv, TypeOK
    <3>4. req[a].by = req[b].by => lapses[req[a].by] > 0
      BY <3>1, <3>2, <3>3, TwoInFlight DEF Working
    <3> QED BY <3>2, <3>4
  <2> QED BY <2>2, <2>3
<1>6. SawEnough'
  BY <1>5 DEF SawEnough
<1> QED BY <1>4, <1>6

\* The state of a session accounts for every turn of it, or a later turn of
\* another member, or one beside a lost lease, was written from the state of
\* before: the lease is all that keeps two questions of one member from losing
\* each other's.
THEOREM StateAccountsForTurns == Spec => []StateAccounts
<1>1. Init => StateAccounts /\ SawEnough
  BY DEF Init, StateAccounts, SawEnough
<1>2. TypeInv /\ OneAtATime /\ StateAccounts /\ SawEnough /\ [Next]_vars
         => TypeInv' /\ OneAtATime' /\ StateAccounts' /\ SawEnough'
  BY TypeStep, OneStep, StateStep
<1> QED BY <1>1, <1>2, TypeInit, OneInit, PTL DEF Spec

-----------------------------------------------------------------------------
(* Rooms.  A turn is in a session of the room it was asked in.             *)

LEMMA WrittenFrom ==
    ASSUME TypeInv, [Next]_vars, NEW a \in Asks, seq'[a] > 0
    PROVE  /\ session'[a] = session[a] /\ session[a] \in Sessions
           /\ seq[a] > 0 \/ AppendTurn(a)
<1>1. seq[a] > 0 \/ AppendTurn(a)
  <2>1. CASE \E b \in Asks : AskStep(b)
    <3> PICK b \in Asks : AskStep(b)
      BY <2>1
    <3>1. CASE b # a
      BY <3>1, OthersKept
    <3>2. CASE b = a /\ ~AppendTurn(a)
      BY <3>2 DEF AskStep, Ask, Admit, AdmitOpen, CheckRate, Lookup, CheckQuota, Resolve,
         CreateSession, FailCall, AppendFails, Replay, Release, Abandon, turnVars
    <3> QED BY <3>1, <3>2
  <2>2. CASE ~ \E b \in Asks : AskStep(b)
    BY <2>2, NextCases, RestKept
  <2> QED BY <2>1, <2>2
<1>2. CASE seq[a] > 0
  <2>1. session[a] \in Sessions /\ answer[a] # NoAnswer
    BY <1>2, ConstantsAssumption DEF TypeInv, Turns
  <2> QED BY <1>1, <2>1, AnsweredKept
<1>3. CASE AppendTurn(a)
  BY <1>1, <1>3 DEF AppendTurn, Existing
<1> QED BY <1>1, <1>2, <1>3

OwnRoom ==
    \A a \in Asks : at[a] = "query" \/ seq[a] > 0 => RoomOf[session[a]] = AskedIn(a)

LEMMA OwnRoomStep ==
    ASSUME TypeInv, OwnRoom, [Next]_vars
    PROVE  OwnRoom'
<1> USE DEF AskedIn
<1>1. ASSUME NEW a \in Asks, at'[a] = "query"
      PROVE  RoomOf[session'[a]] = RoomOf[req'[a].by]
  BY <1>1, EntersQuery DEF OwnRoom
<1>2. ASSUME NEW a \in Asks, seq'[a] > 0
      PROVE  RoomOf[session'[a]] = RoomOf[req'[a].by]
  <2>1. CASE seq[a] > 0
    <3>1. answer[a] # NoAnswer
      BY <2>1, ConstantsAssumption DEF TypeInv, Turns
    <3> QED BY <2>1, <3>1, AnsweredKept DEF OwnRoom
  <2>2. CASE AppendTurn(a)
    BY <2>2 DEF AppendTurn, OwnRoom
  <2> QED BY <1>2, <2>1, <2>2, WrittenFrom
<1> QED BY <1>1, <1>2 DEF OwnRoom

\* A session is shared by the members of its room, and by nobody else: what its state
\* loses is lost to another member of the room, or to a lost lease.  A member who has a
\* room to himself, and whose leases hold, asks one question at a time, and finds each
\* of his turns in the state of its session, whatever is asked in other rooms.
THEOREM LoneMemberLosesNothing ==
    ASSUME NEW m \in Members, \A n \in Members : RoomOf[n] = RoomOf[m] => n = m
    PROVE  Spec => [](lapses[m] = 0 => /\ Cardinality(InFlight(m)) <= 1
                                       /\ \A a \in hot : req[a].by = m =>
                                             a \in state[session[a]])
<1>1. ASSUME TypeInv, OneAtATime, StateAccounts, OwnRoom, lapses[m] = 0
      PROVE  /\ Cardinality(InFlight(m)) <= 1
             /\ \A a \in hot : req[a].by = m => a \in state[session[a]]
  <2>1. Cardinality(InFlight(m)) <= 1
    BY <1>1, InFlightFinite DEF OneAtATime
  <2>2. ASSUME NEW a \in hot, req[a].by = m PROVE a \in state[session[a]]
    <3>1. \A b \in hot : /\ req[b].by \in Members
                          /\ RoomOf[session[b]] = RoomOf[req[b].by]
      BY <1>1, ConstantsAssumption, RequestsAssumption
      DEF TypeInv, TypeOK, Turns, OwnRoom, AskedIn
    <3>2. \A b \in TurnsOf(session[a]) : req[b].by = m
      BY <2>2, <3>1 DEF TurnsOf
    <3> QED BY <1>1, <2>2, <3>2 DEF StateAccounts
  <2> QED BY <2>1, <2>2
<1>2. Init => OwnRoom
  BY DEF Init, OwnRoom
<1>3. TypeInv /\ OwnRoom /\ [Next]_vars => OwnRoom'
  BY OwnRoomStep
<1> QED BY <1>1, <1>2, <1>3, OneQuestionAtATime, StateAccountsForTurns, TypeInit, TypeStep,
           PTL DEF Spec

-----------------------------------------------------------------------------
(* The audit of the answers.  What a cleaner has read of a session is all   *)
(* of its turns but those in late, or nothing at all of a session that was  *)
(* deleted before: a complete pack stays complete, whoever writes over it,  *)
(* unless it is replaced by an empty one.                                   *)

Gone(s) == status[s] = "deleted"

Complete(P, s) == \A a \in Asks : seq[a] > 0 /\ session[a] = s => a \in P \cup late

AtSession(s) == \E c \in Cleaners : step[c] # "next" /\ cur[c] = s

Read ==
    \A c \in Cleaners : step[c] # "next" =>
        Complete(packing[c], cur[c]) \/ (Gone(cur[c]) /\ packing[c] = {})

Safe(s) == Complete(pack[s], s) \/ s \in emptied

Stored ==
    \A c \in Cleaners :
       /\ step[c] \in {"record", "delete"} => Safe(cur[c])
       /\ step[c] = "delete" => cur[c] \in archived

Kept == \A s \in Sessions : Gone(s) => s \in archived /\ Safe(s)

GoneOrHot == \A a \in Asks : seq[a] > 0 => (a \in hot <=> ~Gone(session[a]))

AuditInv == Read /\ Stored /\ Kept /\ GoneOrHot

\* A session is deleted by the cleaner that has packed it, and stays deleted.
LEMMA GoneStays ==
    ASSUME TypeInv, [Next]_vars, NEW s \in Sessions
    PROVE  /\ Gone(s) => Gone(s)'
           /\ Gone(s)' => Gone(s) \/ \E c \in Cleaners : DeleteSession(c) /\ cur[c] = s
<1>1. status \in [Sessions -> {"none", "active", "closed", "deleted"}]
  BY DEF TypeInv, TypeOK
<1> USE <1>1 DEF Gone
<1>2. CASE \E a \in Asks : AskStep(a)
  <2> PICK a \in Asks : AskStep(a)
    BY <1>2
  <2>1. CASE CreateSession(a)
    BY <2>1 DEF CreateSession, Active
  <2>2. CASE ~CreateSession(a)
    <3>1. status' = status
      BY <2>2 DEF AskStep, Ask, Admit, AdmitOpen, CheckRate, Lookup, CheckQuota, Resolve,
         FailCall, AppendTurn, AppendFails, Replay, Release, Abandon, sessionVars
    <3> QED BY <3>1
  <2> QED BY <2>1, <2>2
<1>3. CASE \E c \in Cleaners : CleanerStep(c)
  <2> PICK c \in Cleaners : CleanerStep(c)
    BY <1>3
  <2>1. CASE DeleteSession(c)
    BY <2>1 DEF DeleteSession
  <2>2. CASE ~DeleteSession(c)
    <3>1. status' = status
      BY <2>2 DEF CleanerStep, ListExpired, ReadTurns, PutPack, Storing, RecordArchive, CleanerFails,
         sessionVars
    <3> QED BY <3>1
  <2> QED BY <2>1, <2>2
<1>4. CASE (\E m \in Members : LeaseExpires(m)) \/ (\E r \in Rooms : CloseSession(r)) \/ MonthsPass \/ UNCHANGED vars
  BY <1>4 DEF LeaseExpires, CloseSession, Closing, Active, MonthsPass, vars, sessionVars
<1> QED BY <1>2, <1>3, <1>4, NextCases

\* Every step other than a cleaner's leaves its work alone.
LEMMA CleanerKept ==
    ASSUME [Next]_vars, ~ \E c \in Cleaners : CleanerStep(c)
    PROVE  UNCHANGED cleanerVars
BY NextCases DEF AskStep, Ask, Admit, AdmitOpen, CheckRate, Lookup, CheckQuota, Resolve,
   CreateSession, FailCall, AppendTurn, AppendFails, Replay, Release, Abandon, LeaseExpires,
   CloseSession, MonthsPass, vars

LEMMA LateStays ==
    ASSUME [Next]_vars
    PROVE  late \subseteq late' /\ archived \subseteq archived' /\ emptied \subseteq emptied'
BY DEF Next, AskStep, Ask, Admit, AdmitOpen, CheckRate, Lookup, CheckQuota, Resolve,
   CreateSession, FailCall, AppendTurn, AppendFails, Replay, Release, Abandon, LeaseExpires,
   CloseSession, MonthsPass, ListExpired, ReadTurns, PutPack, Storing, RecordArchive, DeleteSession,
   CleanerFails, vars, cleanerVars, history

LEMMA ExpiredFrom ==
    ASSUME TypeInv, [Next]_vars, NEW s \in expired'
    PROVE  /\ s \in expired \/ (MonthsPass /\ ~Gone(s))
           /\ ~ \E c \in Cleaners : DeleteSession(c) /\ cur[c] = s
<1>1. CASE \E a \in Asks : AskStep(a)
  <2>1. expired' \subseteq expired /\ step' = step
    BY <1>1 DEF AskStep, Ask, Admit, AdmitOpen, CheckRate, Lookup, CheckQuota, Resolve,
       CreateSession, FailCall, AppendTurn, AppendFails, Replay, Release, Abandon, sessionVars,
       cleanerVars
  <2> QED BY <2>1 DEF DeleteSession, NextSession, TypeInv, TypeOK
<1>2. CASE \E c \in Cleaners : CleanerStep(c)
  <2> PICK c \in Cleaners : CleanerStep(c)
    BY <1>2
  <2>1. expired' \subseteq expired
    BY DEF CleanerStep, ListExpired, ReadTurns, PutPack, Storing, RecordArchive, DeleteSession,
       CleanerFails, sessionVars
  <2> QED BY <2>1 DEF DeleteSession
<1>3. CASE (\E m \in Members : LeaseExpires(m)) \/ (\E r \in Rooms : CloseSession(r)) \/ MonthsPass \/ UNCHANGED vars
  <2>1. s \in expired \/ (MonthsPass /\ ~Gone(s))
    BY <1>3 DEF LeaseExpires, CloseSession, Closing, MonthsPass, Existing, Gone, vars, sessionVars
  <2>2. step' = step
    BY <1>3 DEF LeaseExpires, CloseSession, MonthsPass, vars, cleanerVars
  <2> QED BY <2>1, <2>2 DEF DeleteSession, NextSession, TypeInv, TypeOK
<1> QED BY <1>1, <1>2, <1>3, NextCases

\* A turn that is written while a cleaner is at its session is in late.
LEMMA CompleteStays ==
    ASSUME TypeInv, [Next]_vars, NEW s \in Sessions, NEW P, Complete(P, s), Gone(s) \/ AtSession(s)
    PROVE  \A a \in Asks : seq'[a] > 0 /\ session'[a] = s => a \in P \cup late'
<1> SUFFICES ASSUME NEW a \in Asks, seq'[a] > 0, session'[a] = s PROVE a \in P \cup late'
  OBVIOUS
<1>1. CASE seq[a] > 0
  BY <1>1, WrittenFrom, LateStays DEF Complete
<1>2. CASE AppendTurn(a)
  <2>1. session[a] = s /\ s \in Existing
    BY <1>2 DEF AppendTurn
  <2>2. Archiving(session[a]) # {}
    BY <2>1 DEF Existing, Gone, AtSession, Archiving
  <2> QED BY <1>2, <2>2 DEF AppendTurn
<1> QED BY <1>1, <1>2, WrittenFrom

LEMMA WhatACleanerReads ==
    ASSUME TypeInv, [Next]_vars, NEW c \in Cleaners, step'[c] # "next", ~ReadTurns(c)
    PROVE  cur'[c] = cur[c] /\ packing'[c] = packing[c] /\ step[c] # "next" /\ cur[c] \in Sessions
<1>0. CleanerTypes
  BY TypeParts DEF TypeInv
<1>1. CASE \E d \in Cleaners : CleanerStep(d)
  <2> PICK d \in Cleaners : CleanerStep(d)
    BY <1>1
  <2>1. CASE d = c
    BY <1>0, <2>1 DEF CleanerTypes, CleanerStep, ListExpired, PutPack, Storing, RecordArchive,
       DeleteSession, CleanerFails, NextSession, TypeInv, Places
  <2>2. CASE d # c
    BY <1>0, <2>2 DEF CleanerTypes, CleanerStep, ListExpired, ReadTurns, PutPack, Storing,
       RecordArchive, DeleteSession, CleanerFails, NextSession, TypeInv, Places
  <2> QED BY <2>1, <2>2
<1>2. CASE ~ \E d \in Cleaners : CleanerStep(d)
  BY <1>2, CleanerKept DEF cleanerVars, TypeInv, Places
<1> QED BY <1>1, <1>2

LEMMA ReadStep ==
    ASSUME TypeInv, AuditInv, [Next]_vars
    PROVE  Read'
<1>0. CleanerTypes
  BY TypeParts DEF TypeInv
<1> SUFFICES ASSUME NEW c \in Cleaners, step'[c] # "next"
             PROVE  \/ \A a \in Asks : seq'[a] > 0 /\ session'[a] = cur'[c] => a \in packing'[c] \cup late'
                    \/ Gone(cur[c])' /\ packing'[c] = {}
  BY DEF Read, Complete
<1>1. CASE ReadTurns(c)
  <2>1. PICK s \in todo[c] : /\ cur' = [cur EXCEPT ![c] = s]
                             /\ packing' = [packing EXCEPT ![c] = TurnsOf(s)]
    BY <1>1 DEF ReadTurns
  <2>2. cur'[c] = s /\ packing'[c] = TurnsOf(s) /\ UNCHANGED <<status, hot, seq, session>>
    BY <1>0, <1>1, <2>1 DEF ReadTurns, CleanerTypes, turnVars, sessionVars, askVars
  <2>3. CASE Gone(s)
    <3>1. TurnsOf(s) = {}
      BY <2>3 DEF TurnsOf, AuditInv, GoneOrHot, TypeInv, Turns, TypeOK
    <3> QED BY <2>2, <2>3, <3>1 DEF Gone
  <2>4. CASE ~Gone(s)
    BY <2>2, <2>4 DEF TurnsOf, AuditInv, GoneOrHot
  <2> QED BY <2>3, <2>4
<1>2. CASE ~ReadTurns(c)
  <2>1. cur'[c] = cur[c] /\ packing'[c] = packing[c] /\ step[c] # "next" /\ cur[c] \in Sessions
    BY <1>2, WhatACleanerReads
  <2>2. CASE Complete(packing[c], cur[c])
    <3>1. AtSession(cur[c])
      BY <2>1 DEF AtSession
    <3> QED BY <2>1, <2>2, <3>1, CompleteStays
  <2>3. CASE Gone(cur[c]) /\ packing[c] = {}
    <3>1. status'[cur[c]] = "deleted"
      BY <2>1, <2>3, GoneStays DEF Gone
    <3> QED BY <2>1, <2>3, <3>1 DEF Gone
  <2> QED BY <2>1, <2>2, <2>3 DEF AuditInv, Read
<1> QED BY <1>1, <1>2

\* What is written over a pack is complete, or the session counts as emptied.
LEMMA PutIsSafe ==
    ASSUME TypeInv, AuditInv, [Next]_vars, NEW c \in Cleaners, PutPack(c)
    PROVE  \/ \A a \in Asks : seq'[a] > 0 /\ session'[a] = cur[c] => a \in pack'[cur[c]] \cup late'
           \/ cur[c] \in emptied'
<1>0. CleanerTypes
  BY TypeParts DEF TypeInv
<1>1. /\ step[c] = "put" /\ cur[c] \in Sessions /\ pack'[cur[c]] = packing[c]
      /\ packing[c] = {} /\ pack[cur[c]] # {} => cur[c] \in emptied'
  BY <1>0 DEF PutPack, Storing, Empties, CleanerTypes, TypeInv, Places
<1>2. AtSession(cur[c])
  BY <1>1 DEF AtSession
<1>3. CASE Complete(packing[c], cur[c])
  BY <1>1, <1>2, <1>3, CompleteStays
<1>4. CASE Gone(cur[c]) /\ packing[c] = {}
  <2>1. CASE pack[cur[c]] # {}
    BY <1>1, <1>4, <2>1
  <2>2. CASE pack[cur[c]] = {}
    <3>1. Complete(pack[cur[c]], cur[c]) \/ cur[c] \in emptied
      BY <1>1, <1>4 DEF AuditInv, Kept, Safe
    <3>2. CASE Complete(pack[cur[c]], cur[c])
      BY <1>1, <1>2, <1>4, <2>2, <3>2, CompleteStays
    <3> QED BY <3>1, <3>2, LateStays
  <2> QED BY <2>1, <2>2
<1> QED BY <1>1, <1>3, <1>4 DEF AuditInv, Read

LEMMA SafeStays ==
    ASSUME TypeInv, AuditInv, [Next]_vars, NEW s \in Sessions, Safe(s), Gone(s) \/ AtSession(s)
    PROVE  Safe(s)'
<1>0. CleanerTypes
  BY TypeParts DEF TypeInv
<1> SUFFICES \/ \A a \in Asks : seq'[a] > 0 /\ session'[a] = s => a \in pack'[s] \cup late'
             \/ s \in emptied'
  BY DEF Safe, Complete
<1>1. CASE \E c \in Cleaners : PutPack(c) /\ cur[c] = s
  BY <1>1, PutIsSafe
<1>2. CASE ~ \E c \in Cleaners : PutPack(c) /\ cur[c] = s
  <2>1. pack'[s] = pack[s]
    <3>1. CASE \E c \in Cleaners : CleanerStep(c)
      BY <1>0, <1>2, <3>1 DEF CleanerTypes, CleanerStep, ListExpired, ReadTurns, PutPack, RecordArchive,
         DeleteSession, CleanerFails
    <3> QED BY <3>1, CleanerKept DEF cleanerVars
  <2> QED BY <2>1, CompleteStays, LateStays DEF Safe
<1> QED BY <1>1, <1>2

LEMMA StoredStep ==
    ASSUME TypeInv, AuditInv, [Next]_vars
    PROVE  Stored'
<1>0. CleanerTypes
  BY TypeParts DEF TypeInv
<1> SUFFICES ASSUME NEW c \in Cleaners, step'[c] \in {"record", "delete"}
             PROVE  Safe(cur[c])' /\ (step'[c] = "delete" => cur'[c] \in archived')
  BY DEF Stored
<1>1. ~ReadTurns(c)
  BY <1>0 DEF ReadTurns, CleanerTypes
<1>2. cur'[c] = cur[c] /\ step[c] # "next" /\ cur[c] \in Sessions
  BY <1>1, WhatACleanerReads
<1>3. /\ PutPack(c) \/ step[c] \in {"record", "delete"}
      /\ step'[c] = "delete" => cur[c] \in archived'
  <2>1. CASE \E d \in Cleaners : CleanerStep(d)
    <3> PICK d \in Cleaners : CleanerStep(d)
      BY <2>1
    <3>1. CASE d = c
      BY <1>0, <3>1 DEF CleanerTypes, CleanerStep, ListExpired, ReadTurns, PutPack, Storing, RecordArchive,
         DeleteSession, CleanerFails, NextSession
    <3>2. CASE d # c
      <4>1. step'[c] = step[c]
        BY <1>0, <3>2 DEF CleanerTypes, CleanerStep, ListExpired, ReadTurns, PutPack, Storing,
           RecordArchive, DeleteSession, CleanerFails, NextSession
      <4> QED BY <4>1, LateStays DEF AuditInv, Stored
    <3> QED BY <3>1, <3>2
  <2>2. CASE ~ \E d \in Cleaners : CleanerStep(d)
    BY <2>2, CleanerKept DEF cleanerVars, AuditInv, Stored
  <2> QED BY <2>1, <2>2
<1>4. Safe(cur[c])'
  <2>1. CASE PutPack(c)
    <3>1. \/ \A a \in Asks : seq'[a] > 0 /\ session'[a] = cur[c] => a \in pack'[cur[c]] \cup late'
          \/ cur[c] \in emptied'
      BY <2>1, PutIsSafe
    <3> QED BY <1>2, <3>1 DEF Safe, Complete
  <2>2. CASE step[c] \in {"record", "delete"}
    <3> DEFINE s == cur[c]
    <3>1. Safe(s) /\ AtSession(s) /\ s \in Sessions
      BY <1>2, <2>2 DEF AuditInv, Stored, AtSession
    <3>2. \/ \A a \in Asks : seq'[a] > 0 /\ session'[a] = s => a \in pack'[s] \cup late'
          \/ s \in emptied'
      <4> HIDE DEF s
      <4> QED BY <3>1, SafeStays DEF Safe, Complete
    <3> QED BY <1>2, <3>2 DEF Safe, Complete
  <2> QED BY <1>3, <2>1, <2>2
<1> QED BY <1>2, <1>3, <1>4

LEMMA KeptStep ==
    ASSUME TypeInv, AuditInv, [Next]_vars
    PROVE  Kept'
<1> SUFFICES ASSUME NEW s \in Sessions, Gone(s)' PROVE s \in archived' /\ Safe(s)'
  BY DEF Kept
<1>1. CASE Gone(s)
  BY <1>1, SafeStays, LateStays DEF AuditInv, Kept
<1>2. CASE \E c \in Cleaners : DeleteSession(c) /\ cur[c] = s
  <2>1. PICK c \in Cleaners : step[c] = "delete" /\ cur[c] = s
    BY <1>2 DEF DeleteSession
  <2>2. s \in archived /\ Safe(s) /\ AtSession(s)
    BY <2>1 DEF AuditInv, Stored, AtSession
  <2> QED BY <2>2, SafeStays, LateStays
<1> QED BY <1>1, <1>2, GoneStays

LEMMA GoneOrHotStep ==
    ASSUME TypeInv, AuditInv, [Next]_vars
    PROVE  GoneOrHot'
<1> SUFFICES ASSUME NEW a \in Asks, seq'[a] > 0
             PROVE  a \in hot' <=> ~(status'[session'[a]] = "deleted")
  BY DEF GoneOrHot, Gone
<1>1. session'[a] = session[a] /\ session[a] \in Sessions /\ (seq[a] > 0 \/ AppendTurn(a))
  BY WrittenFrom
<1>2. CASE AppendTurn(a)
  BY <1>1, <1>2 DEF AppendTurn, Existing
<1>3. CASE seq[a] > 0
  <2>1. a \in hot <=> ~Gone(session[a])
    BY <1>3 DEF AuditInv, GoneOrHot
  <2>2. CASE a \in hot
    <3>1. CASE \E c \in Cleaners : DeleteSession(c) /\ cur[c] = session[a]
      BY <1>1, <3>1 DEF DeleteSession, TurnsOf, TypeInv, TypeOK
    <3>2. CASE ~ \E c \in Cleaners : DeleteSession(c) /\ cur[c] = session[a]
      <4>1. a \in hot'
        BY <2>2, <3>2, HotShrinks DEF DeleteSession, TurnsOf
      <4>2. ~(status'[session[a]] = "deleted")
        BY <1>1, <2>1, <2>2, <3>2, GoneStays DEF Gone
      <4> QED BY <1>1, <4>1, <4>2
    <3> QED BY <3>1, <3>2
  <2>3. CASE a \notin hot
    <3>1. status'[session[a]] = "deleted"
      BY <1>1, <2>1, <2>3, GoneStays DEF Gone
    <3>2. a \notin hot'
      <4>1. ~AppendTurn(a)
        BY <1>3 DEF AppendTurn, TypeInv, Turns
      <4>2. \A b \in Asks : AppendTurn(b) => hot' = hot \cup {b}
        BY DEF AppendTurn
      <4> QED BY <2>3, <4>1, <4>2, HotGrows
    <3> QED BY <1>1, <3>1, <3>2
  <2> QED BY <2>2, <2>3
<1> QED BY <1>1, <1>2, <1>3

\* A turn that was written is in the database, or in the pack of its session
\* with a row that leads to it, or it was written while a cleaner was at work on
\* its session, or the pack was replaced by the empty one of a cleaner that came
\* after another: whatever step of a cleaner fails, however often it starts over,
\* and with a cleaner in every replica.
THEOREM AuditIsKept == Spec => []AuditKept
<1>1. Init => AuditInv
  <2> SUFFICES ASSUME Init PROVE AuditInv
    OBVIOUS
  <2>1. Read /\ Stored
    BY DEF Init, Read, Stored
  <2>2. Kept /\ GoneOrHot
    BY DEF Init, Kept, Gone, GoneOrHot
  <2> QED BY <2>1, <2>2 DEF AuditInv
<1>2. TypeInv /\ AuditInv /\ [Next]_vars => TypeInv' /\ AuditInv'
  BY TypeStep, ReadStep, StoredStep, KeptStep, GoneOrHotStep DEF AuditInv
<1>3. TypeInv /\ AuditInv => AuditKept
  <2> SUFFICES ASSUME TypeInv, AuditInv, NEW a \in Asks, seq[a] > 0, a \notin hot
               PROVE  \/ a \in late \/ session[a] \in emptied
                      \/ session[a] \in archived /\ a \in pack[session[a]]
    BY DEF AuditKept
  <2>1. session[a] \in Sessions /\ Gone(session[a])
    BY DEF TypeInv, Turns, AuditInv, GoneOrHot
  <2> QED BY <2>1 DEF AuditInv, Kept, Safe, Complete
<1> QED BY <1>1, <1>2, <1>3, TypeInit, PTL DEF Spec

-----------------------------------------------------------------------------
(* One cleaner.  It never comes to a session that was deleted, so that a    *)
(* pack is replaced only by one that holds its turns.                       *)

OneCleaner == \A c, d \in Cleaners : c = d

Listed ==
    /\ \A s \in expired : ~Gone(s)
    /\ \A c \in Cleaners : \A s \in todo[c] : ~Gone(s)

Packed ==
    \A c \in Cleaners : step[c] # "next" =>
       /\ ~Gone(cur[c]) /\ cur[c] \notin todo[c]
       /\ packing[c] \subseteq TurnsOf(cur[c])
       /\ step[c] = "put" => pack[cur[c]] \subseteq packing[c]

PackedTurns == \A s \in Sessions : ~Gone(s) => pack[s] \subseteq TurnsOf(s)

AloneInv == Listed /\ Packed /\ PackedTurns /\ emptied = {}

LEMMA ListedStep ==
    ASSUME TypeInv, AloneInv, OneCleaner, [Next]_vars
    PROVE  Listed'
<1>0. expired' \subseteq Sessions /\ todo' \in [Cleaners -> SUBSET Sessions]
      /\ todo \in [Cleaners -> SUBSET Sessions]
  BY TypeStep DEF TypeInv, TypeOK
<1>1. ASSUME NEW s \in expired' PROVE ~Gone(s)'
  BY <1>0, ExpiredFrom, GoneStays DEF AloneInv, Listed
<1>2. ASSUME NEW c \in Cleaners, NEW s \in todo'[c] PROVE ~Gone(s)'
  <2>1. s \in todo[c] \/ s \in expired
    <3>1. CASE \E d \in Cleaners : CleanerStep(d)
      BY <1>0, <3>1 DEF CleanerStep, ListExpired, ReadTurns, PutPack, Storing, RecordArchive,
         DeleteSession, CleanerFails
    <3> QED BY <3>1, CleanerKept DEF cleanerVars
  <2>2. ~Gone(s)
    BY <2>1 DEF AloneInv, Listed
  <2>3. ~ \E d \in Cleaners : DeleteSession(d) /\ cur[d] = s
    <3> SUFFICES ASSUME NEW d \in Cleaners, DeleteSession(d), cur[d] = s PROVE FALSE
      OBVIOUS
    <3>1. d = c /\ todo'[c] = todo[c] /\ cur[c] \notin todo[c]
      BY DEF OneCleaner, DeleteSession, AloneInv, Packed
    <3> QED BY <3>1
  <2> QED BY <1>0, <2>2, <2>3, GoneStays
<1> QED BY <1>1, <1>2 DEF Listed

\* The turns of a session stay until it is deleted.
LEMMA TurnsStay ==
    ASSUME TypeInv, [Next]_vars, NEW s \in Sessions, status'[s] # "deleted", NEW a \in TurnsOf(s)
    PROVE  a \in hot' /\ session'[a] = s
<1>1. a \in hot /\ session'[a] = s
  BY TurnKept DEF TurnsOf
<1>2. CASE \E c \in Cleaners : DeleteSession(c)
  BY <1>1, <1>2 DEF DeleteSession, TurnsOf, TypeInv, TypeOK
<1> QED BY <1>1, <1>2, HotShrinks

LEMMA PackedStep ==
    ASSUME TypeInv, AloneInv, OneCleaner, [Next]_vars
    PROVE  Packed'
<1>0. CleanerTypes
  BY TypeParts DEF TypeInv
<1> SUFFICES ASSUME NEW c \in Cleaners, step'[c] # "next"
             PROVE  /\ ~Gone(cur[c])' /\ cur'[c] \notin todo'[c]
                    /\ packing'[c] \subseteq TurnsOf(cur[c])'
                    /\ step'[c] = "put" => pack'[cur'[c]] \subseteq packing'[c]
  BY DEF Packed
<1>1. CASE ReadTurns(c)
  <2>1. PICK s \in todo[c] : /\ cur' = [cur EXCEPT ![c] = s]
                             /\ packing' = [packing EXCEPT ![c] = TurnsOf(s)]
                             /\ todo' = [todo EXCEPT ![c] = @ \ {s}]
    BY <1>1 DEF ReadTurns
  <2>2. /\ cur'[c] = s /\ packing'[c] = TurnsOf(s) /\ s \notin todo'[c] /\ s \in Sessions
        /\ UNCHANGED <<status, hot, session, pack>> /\ ~Gone(s)
    BY <1>0, <1>1, <2>1 DEF ReadTurns, CleanerTypes, turnVars, sessionVars, askVars, AloneInv,
       Listed
  <2> QED BY <2>2 DEF Gone, TurnsOf, AloneInv, PackedTurns
<1>2. CASE ~ReadTurns(c)
  <2>1. cur'[c] = cur[c] /\ packing'[c] = packing[c] /\ step[c] # "next" /\ cur[c] \in Sessions
    BY <1>2, WhatACleanerReads
  <2>2. /\ ~Gone(cur[c]) /\ cur[c] \notin todo[c] /\ packing[c] \subseteq TurnsOf(cur[c])
        /\ step[c] = "put" => pack[cur[c]] \subseteq packing[c]
    BY <2>1 DEF AloneInv, Packed
  <2>3. todo'[c] \subseteq todo[c] /\ (step'[c] = "put" => step[c] = "put" /\ pack' = pack)
    <3>1. CASE \E d \in Cleaners : CleanerStep(d)
      <4>1. CleanerStep(c)
        BY <3>1 DEF OneCleaner
      <4> QED BY <1>0, <1>2, <2>1, <4>1 DEF CleanerTypes, CleanerStep, ListExpired, PutPack,
              Storing, RecordArchive, DeleteSession, CleanerFails, NextSession
    <3> QED BY <3>1, CleanerKept DEF cleanerVars
  <2>4. status'[cur[c]] # "deleted"
    <3>1. ASSUME NEW d \in Cleaners, DeleteSession(d) PROVE FALSE
      <4>1. d = c
        BY DEF OneCleaner
      <4> QED BY <1>0, <3>1, <4>1 DEF DeleteSession, NextSession, CleanerTypes
    <3> QED BY <2>1, <2>2, <3>1, GoneStays DEF Gone
  <2>5. \A a \in TurnsOf(cur[c]) : a \in hot' /\ session'[a] = cur[c]
    BY <2>1, <2>4, TurnsStay
  <2> QED BY <2>1, <2>2, <2>3, <2>4, <2>5 DEF Gone, TurnsOf
<1> QED BY <1>1, <1>2

LEMMA PackedTurnsStep ==
    ASSUME TypeInv, AloneInv, [Next]_vars
    PROVE  PackedTurns' /\ emptied' = {}
<1>0. CleanerTypes
  BY TypeParts DEF TypeInv
<1>1. ASSUME NEW c \in Cleaners, PutPack(c)
      PROVE  /\ pack' = [pack EXCEPT ![cur[c]] = packing[c]] /\ emptied' = {}
             /\ packing[c] \subseteq TurnsOf(cur[c])
  BY <1>1 DEF PutPack, Storing, Empties, AloneInv, Packed
<1>2. ASSUME ~ \E c \in Cleaners : PutPack(c) PROVE pack' = pack /\ emptied' = emptied
  <2>1. pack' = pack
    <3>1. CASE \E c \in Cleaners : CleanerStep(c)
      BY <1>2, <3>1 DEF CleanerStep, ListExpired, ReadTurns, RecordArchive, DeleteSession,
         CleanerFails
    <3> QED BY <3>1, CleanerKept DEF cleanerVars
  <2>2. emptied' = emptied
    BY <1>2 DEF Next, Ask, Admit, AdmitOpen, CheckRate, Lookup, CheckQuota, Resolve, CreateSession,
       FailCall, AppendTurn, AppendFails, Replay, Release, Abandon, LeaseExpires, CloseSession,
       MonthsPass, ListExpired, ReadTurns, RecordArchive, DeleteSession, CleanerFails, vars, history
  <2> QED BY <2>1, <2>2
<1>3. emptied' = {}
  BY <1>1, <1>2 DEF AloneInv
<1>4. ASSUME NEW s \in Sessions, status'[s] # "deleted"
      PROVE  \A a \in pack'[s] : a \in hot' /\ session'[a] = s
  <2>1. pack[s] \subseteq TurnsOf(s)
    BY <1>4, GoneStays DEF AloneInv, PackedTurns, Gone
  <2>2. pack'[s] \subseteq TurnsOf(s)
    BY <1>0, <1>1, <1>2, <2>1 DEF CleanerTypes
  <2> QED BY <1>4, <2>2, TurnsStay
<1> QED BY <1>3, <1>4 DEF PackedTurns, Gone, TurnsOf

\* Where one replica cleans, no pack is ever replaced by an empty one, and a
\* turn that is not in the database is in its pack unless it was written late.
THEOREM OneCleanerKeepsPacks == ASSUME OneCleaner PROVE Spec => [](emptied = {})
<1>1. Init => AloneInv
  BY DEF Init, AloneInv, Listed, Packed, PackedTurns
<1>2. TypeInv /\ AloneInv /\ [Next]_vars => TypeInv' /\ AloneInv'
  BY TypeStep, ListedStep, PackedStep, PackedTurnsStep DEF AloneInv
<1>3. AloneInv => emptied = {}
  BY DEF AloneInv
<1> QED BY <1>1, <1>2, <1>3, TypeInit, PTL DEF Spec
=============================================================================
