-------------------------- MODULE EmailQueue_proofs --------------------------
(***************************************************************************)
(* Proofs about EmailQueue for every set of rows, workers and schedulers,  *)
(* every number of attempts and any number of faults.                      *)
(***************************************************************************)
EXTENDS EmailQueue, FiniteSetTheorems, FunctionTheorems, TLAPS

\* Ids are handed out in order, and only a handed-out id carries a job.
StreamShape ==
    \A e \in Entry :
        /\ phase[e] = "unused" <=> e >= next
        /\ phase[e] = "unused" <=> logOf[e] = NoLog

\* handleFailure re-schedules only a job that has an attempt left.
AttemptLeft == \A e \in Entry : phase[e] = "requeue" => attempt[e] < MaxAttempts

\* markSent runs only after the provider took the mail.
AcceptedIsTaken == \A e \in Entry : phase[e] = "accepted" => e \in taken

TypeInv == TypeOK /\ StreamShape /\ AttemptLeft

-----------------------------------------------------------------------------
(* What the shared steps do to the stream.                                 *)

LEMMA AppendType ==
    ASSUME TypeInv, NEW l \in Logs, NEW a \in Attempts, Append(l, a)
    PROVE  /\ next' \in 1..(MaxEntries + 1)
           /\ logOf' \in [Entry -> Logs \cup {NoLog}]
           /\ attempt' \in [Entry -> Attempts]
           /\ phase' \in [Entry -> Phases]
           /\ owner' \in [Entry -> Workers \cup {NoWorker}]
           /\ StreamShape' /\ AttemptLeft'
  BY ConstantsAssumption
  DEF TypeInv, TypeOK, StreamShape, AttemptLeft, Append, Entry, Phases, Pending, Handling

LEMMA CurrentFacts ==
    ASSUME TypeInv, NEW w \in Workers, NEW e, Current(w, e)
    PROVE  /\ e \in Entry /\ owner[e] = w /\ phase[e] \in Handling
           /\ owner[e] # NoWorker
           /\ logOf[e] \in Logs /\ e < next
  BY ConstantsAssumption
  DEF Entry, TypeInv, TypeOK, StreamShape, Current, First, Held, Unsent, Pending, Handling, Phases

LEMMA RetriedType ==
    ASSUME TypeInv, NEW w \in Workers, NEW e, Current(w, e), phase[e] = "requeue"
    PROVE  Retried(e) \in Job
  BY CurrentFacts, ConstantsAssumption
  DEF TypeInv, TypeOK, AttemptLeft, Retried, Job, Attempts

\* Only read entries of the worker are handed to the provider.
LEMMA ToSendFacts ==
    ASSUME NEW w \in Workers
    PROVE  \A e \in ToSend(w) : e \in Entry /\ phase[e] = "read" /\ owner[e] = w
  BY DEF ToSend, Unsent, Held

LEMMA OutcomeType ==
    ASSUME TypeInv, NEW w \in Workers, NEW ok \in SUBSET ToSend(w), Outcome(ToSend(w), ok)
    PROVE  /\ phase' \in [Entry -> Phases]
           /\ \A e \in Entry :
                 \/ phase'[e] = phase[e] /\ e \notin ToSend(w)
                 \/ phase[e] = "read" /\ phase'[e] = "accepted" /\ e \in ok
                 \/ phase[e] = "read" /\ phase'[e] = "refused"
  BY ToSendFacts DEF Outcome, TypeInv, TypeOK, Phases, Pending, Handling

LEMMA TypeInit == Init => TypeInv
<1> SUFFICES ASSUME Init PROVE TypeInv
  OBVIOUS
<1>1. TypeOK
  <2>1. next \in 1..(MaxEntries + 1) /\ faults \in 0..MaxFaults
    BY ConstantsAssumption DEF Init
  <2>2. /\ attempt \in [Entry -> Attempts]
        /\ phase \in [Entry -> Phases]
        /\ owner \in [Entry -> Workers \cup {NoWorker}]
        /\ logOf \in [Entry -> Logs \cup {NoLog}]
    BY ConstantsAssumption DEF Init, Attempts, Phases
  <2>3. /\ status \in [Logs -> Statuses]
        /\ pmid \in [Logs -> Entry \cup {NoEntry}]
        /\ producer \in [Logs -> {"idle", "logged", "rejected", "done"}]
        /\ pool \in [Workers -> {"down", "running", "absent"}]
        /\ calls \in [Workers -> 0..MaxRetries]
    BY ConstantsAssumption DEF Init, Statuses
  <2>4. /\ delayed \in SUBSET Job /\ dlq \in SUBSET Job /\ taken \in SUBSET Entry
        /\ listed \in [Schedulers -> SUBSET Job] /\ group \in BOOLEAN /\ doubled \in SUBSET Logs
    BY DEF Init
  <2> QED BY <2>1, <2>2, <2>3, <2>4 DEF TypeOK
<1>2. StreamShape
  BY ConstantsAssumption DEF Init, StreamShape, Entry
<1>3. AttemptLeft
  BY DEF Init, AttemptLeft
<1> QED BY <1>1, <1>2, <1>3 DEF TypeInv

LEMMA TypeStep == TypeInv /\ [Next]_vars => TypeInv'
<1> SUFFICES ASSUME TypeInv, [Next]_vars PROVE TypeInv'
  OBVIOUS
<1> USE ConstantsAssumption DEF TypeInv, TypeOK, moverVars
<1>1. ASSUME NEW l \in Logs, ProducerStep(l) PROVE TypeInv'
  <2>1. CASE CreateEmailLog(l)
    BY <2>1 DEF CreateEmailLog, UpdateEmailLogStatus, streamVars, Statuses, StreamShape, AttemptLeft
  <2>2. CASE Enqueue(l)
    BY <2>2, AppendType DEF Enqueue, logVars, Attempts
  <2>3. CASE EnqueueFails(l)
    <3>1. CASE Append(l, 0)
      BY <2>3, <3>1, AppendType DEF EnqueueFails, Fault, logVars, Attempts
    <3>2. CASE UNCHANGED streamVars
      BY <2>3, <3>2 DEF EnqueueFails, Fault, logVars, streamVars, StreamShape, AttemptLeft
    <3> QED BY <2>3, <3>1, <3>2 DEF EnqueueFails
  <2>4. CASE MarkEnqueueFailed(l)
    BY <2>4 DEF MarkEnqueueFailed, UpdateEmailLogStatus, streamVars, Statuses, StreamShape, AttemptLeft
  <2>5. CASE ProducerCrash(l)
    BY <2>5 DEF ProducerCrash, Fault, logVars, streamVars, StreamShape, AttemptLeft
  <2> QED BY <1>1, <2>1, <2>2, <2>3, <2>4, <2>5 DEF ProducerStep
<1>2. ASSUME NEW w \in Workers, WorkerStep(w) PROVE TypeInv'
  <2>1. CASE Start(w)
    BY <2>1 DEF Start, logVars, streamVars, StreamShape, AttemptLeft
  <2>2. CASE StartFails(w)
    BY <2>2 DEF StartFails, Fault, logVars, streamVars, StreamShape, AttemptLeft
  <2>3. CASE DequeueBatch(w)
    BY <2>3 DEF DequeueBatch, logVars, Waiting, StreamShape, AttemptLeft, Phases, Pending
  <2>4. CASE DequeueFails(w)
    BY <2>4 DEF DequeueFails, Fault, logVars, Waiting, StreamShape, AttemptLeft, Phases, Pending
  <2>5. CASE Send(w)
    <3> PICK ok \in SUBSET ToSend(w) : Outcome(ToSend(w), ok) /\ taken' = taken \cup ok
      BY <2>5 DEF Send
    <3>0. UNCHANGED <<next, logOf, attempt>>
      BY <2>5 DEF Send
    <3>1. StreamShape' /\ AttemptLeft'
      BY <3>0, OutcomeType DEF StreamShape, AttemptLeft
    <3>2. taken' \in SUBSET Entry
      BY ToSendFacts
    <3> QED BY <2>5, <3>1, <3>2, OutcomeType DEF Send, logVars
  <2>6. CASE SendUnconfirmed(w)
    <3> PICK ok \in SUBSET ToSend(w), lost \in SUBSET ToSend(w) :
               Outcome(ToSend(w), ok) /\ taken' = taken \cup ok \cup lost
      BY <2>6 DEF SendUnconfirmed
    <3>0. UNCHANGED <<next, logOf, attempt>>
      BY <2>6 DEF SendUnconfirmed
    <3>1. StreamShape' /\ AttemptLeft'
      BY <3>0, OutcomeType DEF StreamShape, AttemptLeft
    <3>2. taken' \in SUBSET Entry
      BY ToSendFacts
    <3> QED BY <2>6, <3>1, <3>2, OutcomeType DEF SendUnconfirmed, Fault, logVars
  <2>7. CASE Crash(w)
    BY <2>7 DEF Crash, Fault, logVars, StreamShape, AttemptLeft
  <2>9. CASE RetrySend(w)
    <3> PICK lost \in SUBSET ToSend(w) : taken' = taken \cup lost
      BY <2>9 DEF RetrySend
    <3>1. taken' \in SUBSET Entry
      BY ToSendFacts
    <3>2. calls' \in [Workers -> 0..MaxRetries]
      BY <2>9 DEF RetrySend, Again
    <3>3. faults' \in 0..MaxFaults
      BY <2>9 DEF RetrySend, Fault
    <3> QED BY <2>9, <3>1, <3>2, <3>3 DEF RetrySend, logVars, streamVars, StreamShape, AttemptLeft
  <2>8. ASSUME NEW e \in Entry, HandlerStep(w, e) PROVE TypeInv'
    <3> USE DEF Handle, logVars, StreamShape, AttemptLeft, Phases, Pending, Handling, Statuses
    <3>1. CASE MarkSent(w, e)
      BY <3>1, CurrentFacts DEF MarkSent, UpdateEmailLogStatus
    <3>2. CASE HandleFailure(w, e)
      BY <3>2, CurrentFacts DEF HandleFailure, UpdateEmailLogStatus, Exhausted, Attempts
    <3>3. CASE UpdateFails(w, e)
      BY <3>3, CurrentFacts DEF UpdateFails, Fault, Exhausted, Attempts
    <3>4. CASE RequeueAfter(w, e)
      BY <3>4, CurrentFacts, RetriedType DEF RequeueAfter
    <3>5. CASE DeadLetter(w, e)
      BY <3>5, CurrentFacts DEF DeadLetter, JobOf, Job
    <3>6. CASE Ack(w, e)
      BY <3>6, CurrentFacts DEF Ack
    <3>7. CASE RedisFails(w, e)
      BY <3>7, CurrentFacts, RetriedType DEF RedisFails, Fault, JobOf, Job
    <3> QED BY <2>8, <3>1, <3>2, <3>3, <3>4, <3>5, <3>6, <3>7 DEF HandlerStep
  <2> QED BY <1>2, <2>1, <2>2, <2>3, <2>4, <2>5, <2>6, <2>7, <2>8, <2>9 DEF WorkerStep
<1>3. ASSUME NEW s \in Schedulers, SchedulerStep(s) PROVE TypeInv'
  <2>1. CASE SchedulerCrash(s)
    BY <2>1 DEF SchedulerCrash, Fault, logVars, streamVars, StreamShape, AttemptLeft
  <2>2. ASSUME NEW due \in SUBSET delayed, ListDue(s, due) PROVE TypeInv'
    BY <2>2 DEF ListDue, logVars, streamVars, StreamShape, AttemptLeft
  <2>3. ASSUME NEW j \in listed[s], Move(s, j) PROVE TypeInv'
    <3>1. j.log \in Logs /\ j.attempt \in Attempts
      BY <2>3 DEF Job
    <3> QED BY <2>3, <3>1, AppendType DEF Move, logVars
  <2>4. ASSUME NEW j \in listed[s], MoveFails(s, j) PROVE TypeInv'
    BY <2>4 DEF MoveFails, Fault, logVars, streamVars, StreamShape, AttemptLeft
  <2> QED BY <1>3, <2>1, <2>2, <2>3, <2>4 DEF SchedulerStep
<1>4. ASSUME NEW e \in Entry, NEW s \in WebhookStatus, Webhook(e, s) PROVE TypeInv'
  BY <1>4 DEF Webhook, WebhookStatus, Statuses, Reported, streamVars, StreamShape, AttemptLeft
<1>5. CASE UNCHANGED vars
  BY <1>5 DEF vars, StreamShape, AttemptLeft
<1> QED BY <1>1, <1>2, <1>3, <1>4, <1>5 DEF Next

\* Every variable of the pipeline keeps its type: in particular a re-scheduled
\* job never carries an attempt number above MaxAttempts.
THEOREM TypeCorrect == Spec => []TypeOK
<1>1. Spec => []TypeInv
  BY TypeInit, TypeStep, PTL DEF Spec
<1>2. TypeInv => TypeOK
  BY DEF TypeInv
<1> QED BY <1>1, <1>2, PTL
-----------------------------------------------------------------------------
(* No job is dropped.                                                      *)

AccountInv == TypeInv /\ AcceptedIsTaken /\ Accounted

\* A step that appends nothing keeps every job accounted for, if each entry it
\* settles leaves a trace.
LEMMA SettleKeepsAccounts ==
    ASSUME TypeInv, Accounted, logOf' = logOf, taken \subseteq taken', dlq \subseteq dlq',
           delayed \subseteq delayed',
           \A e \in Entry : Unsettled(e) =>
               \/ Unsettled(e)' \/ e \in taken'
               \/ \E j \in delayed' \cup dlq' : j.log = logOf[e]
    PROVE  Accounted'
  BY DEF Accounted

\* XADD puts the appended job on the stream before anything else lets go of it.
LEMMA AppendKeepsAccounts ==
    ASSUME TypeInv, Accounted, NEW l \in Logs, NEW a \in Attempts, Append(l, a),
           UNCHANGED <<taken, dlq>>, \A j \in delayed : j \in delayed' \/ j.log = l
    PROVE  Accounted'
<1> DEFINE n == next
<1>1. n \in Entry /\ logOf'[n] = l /\ phase'[n] \in {"waiting", "skipped"}
  BY DEF Append, TypeInv, TypeOK
<1>2. \A e \in Entry : e # n => /\ logOf'[e] = logOf[e]
                                /\ Unsettled(e)' = Unsettled(e)
  BY DEF Append, TypeInv, TypeOK, Unsettled
<1>3. logOf[n] = NoLog
  BY <1>1, ConstantsAssumption DEF TypeInv, TypeOK, StreamShape, Entry
<1>4. ASSUME NEW m \in Logs, NEW e \in Entry, logOf'[e] = m, m # l
      PROVE  \/ \E f \in Entry : logOf'[f] = m /\ (Unsettled(f)' \/ f \in taken')
             \/ \E j \in delayed' \cup dlq' : j.log = m
  <2>1. e # n /\ logOf[e] = m
    BY <1>1, <1>2, <1>4
  <2>2. CASE \E f \in Entry : logOf[f] = m /\ (Unsettled(f) \/ f \in taken)
    BY <2>2, <1>2, <1>3, ConstantsAssumption
  <2>3. CASE \E j \in delayed \cup dlq : j.log = m
    BY <2>3, <1>4
  <2> QED BY <2>1, <2>2, <2>3 DEF Accounted
<1>5. \E f \in Entry : logOf'[f] = l /\ (Unsettled(f)' \/ f \in taken')
  BY <1>1 DEF Unsettled
<1> HIDE DEF n
<1> QED BY <1>4, <1>5 DEF Accounted

LEMMA AccountStep == AccountInv /\ [Next]_vars => AccountInv'
<1> SUFFICES ASSUME AccountInv, [Next]_vars PROVE AcceptedIsTaken' /\ Accounted'
  BY TypeStep DEF AccountInv
<1> USE DEF AccountInv
<1>1. ASSUME NEW l \in Logs, ProducerStep(l) PROVE AcceptedIsTaken' /\ Accounted'
  <2>1. CASE Append(l, 0) /\ UNCHANGED <<delayed, dlq, taken>>
    <3>1. AcceptedIsTaken'
      BY <2>1 DEF AcceptedIsTaken, Append, TypeInv, TypeOK
    <3>2. 0 \in Attempts
      BY ConstantsAssumption DEF Attempts
    <3> QED BY <2>1, <3>1, <3>2, AppendKeepsAccounts
  <2>2. CASE UNCHANGED <<streamVars, delayed, dlq, taken>>
    BY <2>2 DEF streamVars, AcceptedIsTaken, Accounted, Unsettled
  <2> QED BY <1>1, <2>1, <2>2 DEF ProducerStep, CreateEmailLog, Enqueue, EnqueueFails,
                                  MarkEnqueueFailed, ProducerCrash, streamVars
<1>2. ASSUME NEW w \in Workers, WorkerStep(w) PROVE AcceptedIsTaken' /\ Accounted'
  <2>1. CASE Start(w) \/ StartFails(w) \/ Crash(w)
    BY <2>1 DEF Start, StartFails, Crash, streamVars, AcceptedIsTaken, Accounted, Unsettled
  <2>2. CASE DequeueBatch(w) \/ DequeueFails(w)
    <3>1. /\ UNCHANGED <<logOf, taken, delayed, dlq>>
          /\ \A e \in Entry : phase'[e] = phase[e] \/ phase'[e] = "read"
      BY <2>2 DEF DequeueBatch, DequeueFails
    <3> QED BY <3>1, SettleKeepsAccounts DEF AcceptedIsTaken, Unsettled
  <2>3. CASE Send(w) \/ SendUnconfirmed(w)
    <3> PICK ok \in SUBSET ToSend(w) : Outcome(ToSend(w), ok) /\ taken \cup ok \subseteq taken'
      BY <2>3 DEF Send, SendUnconfirmed
    <3>1. UNCHANGED <<logOf, delayed, dlq>>
      BY <2>3 DEF Send, SendUnconfirmed
    <3>2. AcceptedIsTaken'
      BY OutcomeType DEF AcceptedIsTaken
    <3>3. \A e \in Entry : Unsettled(e) => Unsettled(e)'
      BY OutcomeType DEF Unsettled
    <3> QED BY <3>1, <3>2, <3>3, SettleKeepsAccounts
  <2>5. CASE RetrySend(w)
    <3>1. UNCHANGED <<logOf, phase, delayed, dlq>> /\ taken \subseteq taken'
      BY <2>5 DEF RetrySend, streamVars
    <3> QED BY <3>1, SettleKeepsAccounts DEF AcceptedIsTaken, Unsettled
  <2>4. ASSUME NEW e \in Entry, HandlerStep(w, e) PROVE AcceptedIsTaken' /\ Accounted'
    <3> USE DEF TypeInv, TypeOK
    <3>1. CASE MarkSent(w, e)
      BY <3>1, SettleKeepsAccounts DEF MarkSent, Handle, AcceptedIsTaken, Unsettled
    <3>2. CASE HandleFailure(w, e)
      BY <3>2, SettleKeepsAccounts DEF HandleFailure, Handle, AcceptedIsTaken, Unsettled
    <3>3. CASE UpdateFails(w, e)
      BY <3>3, SettleKeepsAccounts DEF UpdateFails, Handle, AcceptedIsTaken, Unsettled
    <3>4. CASE RequeueAfter(w, e)
      <4>1. Retried(e) \in delayed' /\ Retried(e).log = logOf[e]
        BY <3>4 DEF RequeueAfter, Retried
      <4> QED BY <3>4, <4>1, SettleKeepsAccounts
              DEF RequeueAfter, Handle, AcceptedIsTaken, Unsettled
    <3>5. CASE DeadLetter(w, e)
      <4>1. JobOf(e) \in dlq' /\ JobOf(e).log = logOf[e]
        BY <3>5 DEF DeadLetter, JobOf
      <4> QED BY <3>5, <4>1, SettleKeepsAccounts
              DEF DeadLetter, Handle, AcceptedIsTaken, Unsettled
    <3>6. CASE Ack(w, e)
      BY <3>6, SettleKeepsAccounts DEF Ack, Handle, AcceptedIsTaken, Unsettled
    <3>7. CASE RedisFails(w, e)
      BY <3>7, SettleKeepsAccounts DEF RedisFails, AcceptedIsTaken, Unsettled
    <3> QED BY <2>4, <3>1, <3>2, <3>3, <3>4, <3>5, <3>6, <3>7 DEF HandlerStep
  <2> QED BY <1>2, <2>1, <2>2, <2>3, <2>4, <2>5 DEF WorkerStep
<1>3. ASSUME NEW s \in Schedulers, SchedulerStep(s) PROVE AcceptedIsTaken' /\ Accounted'
  <2>1. ASSUME NEW j \in listed[s], Move(s, j) PROVE AcceptedIsTaken' /\ Accounted'
    <3>1. j.log \in Logs /\ j.attempt \in Attempts
      BY <2>1 DEF TypeInv, TypeOK, Job
    <3>2. AcceptedIsTaken'
      BY <2>1 DEF Move, AcceptedIsTaken, Append, TypeInv, TypeOK
    <3>3. \A i \in delayed : i \in delayed' \/ i.log = j.log
      BY <2>1 DEF Move
    <3> QED BY <2>1, <3>1, <3>2, <3>3, AppendKeepsAccounts DEF Move
  <2>2. CASE UNCHANGED <<streamVars, delayed, dlq, taken>>
    BY <2>2 DEF streamVars, AcceptedIsTaken, Accounted, Unsettled
  <2> QED BY <1>3, <2>1, <2>2 DEF SchedulerStep, SchedulerCrash, ListDue, MoveFails
<1>4. ASSUME NEW e \in Entry, NEW s \in WebhookStatus, Webhook(e, s)
      PROVE  AcceptedIsTaken' /\ Accounted'
  BY <1>4 DEF Webhook, streamVars, AcceptedIsTaken, Accounted, Unsettled
<1>5. CASE UNCHANGED vars
  BY <1>5 DEF vars, AcceptedIsTaken, Accounted, Unsettled
<1> QED BY <1>1, <1>2, <1>3, <1>4, <1>5 DEF Next

LEMMA AccountInit == Init => AccountInv
<1> SUFFICES ASSUME Init PROVE AccountInv
  OBVIOUS
<1>1. \A e \in Entry : logOf[e] = NoLog /\ phase[e] = "unused"
  BY DEF Init
<1> QED BY <1>1, TypeInit, ConstantsAssumption DEF AccountInv, AcceptedIsTaken, Accounted

\* A job that reached the Redis stream is never dropped, whatever fails and
\* however many schedulers run: see Accounted.
THEOREM NothingDropped == Spec => []Accounted
<1>1. AccountInv => Accounted
  BY DEF AccountInv
<1> QED BY <1>1, AccountInit, AccountStep, PTL DEF Spec

-----------------------------------------------------------------------------
(* One carrier at a time, but for the rows a second scheduler moved again. *)

\* Before its XADD a row has left no trace in Redis or at a scheduler.
NotYetEnqueued ==
    \A l \in Logs : producer[l] \in {"idle", "logged"} =>
        /\ \A e \in Entry : logOf[e] # l
        /\ DelayedJobs(l) = {}
        /\ \A s \in Schedulers : \A j \in listed[s] : j.log # l

\* The open entry of a row is its newest, and a delayed job is newer than all.
OpenIsLast ==
    \A e, f \in Entry : Open(e) /\ logOf[f] = logOf[e] /\ logOf[e] \notin doubled
                          => f <= e /\ attempt[f] <= attempt[e]
DelayedIsNew ==
    \A j \in delayed : \A f \in Entry :
        logOf[f] = j.log /\ j.log \notin doubled => attempt[f] < j.attempt

Carriage   == OneCarrier /\ OpenIsLast /\ DelayedIsNew /\ AttemptsAscend
CarrierInv == TypeInv /\ NotYetEnqueued /\ Carriage

\* Closing entries and dropping delayed jobs keeps the order of the carriers.
LEMMA CloseKeepsCarriage ==
    ASSUME Carriage, UNCHANGED <<logOf, attempt, doubled>>, delayed' \subseteq delayed,
           \A e \in Entry : Open(e)' => Open(e)
    PROVE  Carriage'
<1>1. \A l \in Logs : CarriedBy(l)' \subseteq CarriedBy(l)
                      /\ DelayedJobs(l)' \subseteq DelayedJobs(l)
  BY DEF CarriedBy, DelayedJobs
<1>2. OneCarrier'
  BY <1>1 DEF OneCarrier, Carriage
<1>3. OpenIsLast' /\ DelayedIsNew' /\ AttemptsAscend'
  BY DEF OpenIsLast, DelayedIsNew, AttemptsAscend, Carriage
<1> QED BY <1>2, <1>3 DEF Carriage

\* Handing a job back to the sorted set makes the delayed job the only carrier.
LEMMA RequeueKeepsCarriage ==
    ASSUME TypeInv, Carriage, NEW e \in Entry, Open(e), e < next,
           UNCHANGED <<logOf, attempt, doubled>>,
           ~Open(e)', \A f \in Entry : Open(f)' => Open(f),
           delayed' = delayed \cup {Retried(e)}
    PROVE  Carriage'
<1>1. logOf[e] \in Logs /\ attempt[e] \in Nat
  BY ConstantsAssumption DEF TypeInv, TypeOK, StreamShape, Attempts, Entry
<1>2. Retried(e).log = logOf[e] /\ Retried(e).attempt = attempt[e] + 1
  BY DEF Retried
<1>3. logOf[e] \notin doubled => CarriedBy(logOf[e]) = {e} /\ DelayedJobs(logOf[e]) = {}
  BY <1>1 DEF Carriage, OneCarrier, CarriedBy
<1>4. logOf[e] \notin doubled => /\ CarriedBy(logOf[e])' = {}
                                 /\ DelayedJobs(logOf[e])' = {Retried(e)}
  BY <1>1, <1>2, <1>3 DEF CarriedBy, DelayedJobs
<1>5. \A l \in Logs : l # logOf[e] => /\ CarriedBy(l)' \subseteq CarriedBy(l)
                                      /\ DelayedJobs(l)' = DelayedJobs(l)
  BY <1>2 DEF CarriedBy, DelayedJobs
<1>6. OneCarrier'
  BY <1>4, <1>5 DEF OneCarrier, Carriage
<1>7. DelayedIsNew'
  BY <1>1, <1>2 DEF DelayedIsNew, OpenIsLast, Carriage, TypeInv, TypeOK, Attempts
<1>8. OpenIsLast' /\ AttemptsAscend'
  BY DEF OpenIsLast, AttemptsAscend, Carriage
<1> QED BY <1>6, <1>7, <1>8 DEF Carriage

\* Appending a job whose row nothing else carries makes the entry the only carrier;
\* a row that becomes doubled is out of the count.
LEMMA AppendKeepsCarriage ==
    ASSUME TypeInv, Carriage, NEW l \in Logs, NEW a \in Attempts, Append(l, a),
           doubled \subseteq doubled', doubled' \subseteq doubled \cup {l},
           delayed' \subseteq delayed,
           \A j \in delayed : j \in delayed' \/ j.log = l,
           l \notin doubled' => /\ CarriedBy(l) = {}
                                /\ \A j \in delayed' : j.log # l
                                /\ \A f \in Entry : logOf[f] = l => attempt[f] < a
    PROVE  Carriage'
<1> DEFINE n == next
<1>1. /\ n \in Entry /\ logOf'[n] = l /\ attempt'[n] = a
      /\ \A f \in Entry : f # n => /\ logOf'[f] = logOf[f] /\ attempt'[f] = attempt[f]
                                   /\ Open(f)' = Open(f)
  BY DEF Append, TypeInv, TypeOK, Open, Orphaned
<1>2. \A f \in Entry : f > n => logOf'[f] = NoLog
  <2> SUFFICES ASSUME NEW f \in Entry, f > n PROVE logOf'[f] = NoLog
    OBVIOUS
  <2>1. n \in Nat /\ f \in Nat
    BY ConstantsAssumption DEF Entry, TypeInv, TypeOK
  <2>2. f # n /\ f >= next
    BY <2>1
  <2>3. logOf[f] = NoLog
    BY <2>2 DEF TypeInv, StreamShape
  <2> QED BY <2>2, <2>3, <1>1
<1>3. l \notin doubled' => DelayedJobs(l)' = {} /\ CarriedBy(l)' \subseteq {n}
  BY <1>1 DEF DelayedJobs, CarriedBy
<1>4. \A m \in Logs : m # l => CarriedBy(m)' = CarriedBy(m) /\ DelayedJobs(m)' = DelayedJobs(m)
  BY <1>1, <1>2, ConstantsAssumption DEF DelayedJobs, CarriedBy, TypeInv, TypeOK, StreamShape, Entry
<1>5. OneCarrier'
  BY <1>3, <1>4 DEF OneCarrier, Carriage
<1>6. ASSUME NEW f \in Entry, l \notin doubled', logOf'[f] = l
      PROVE  f <= n /\ attempt'[f] <= a /\ (f # n => attempt'[f] < a)
  <2>1. f # n /\ f <= n => logOf[f] = logOf'[f] /\ attempt[f] = attempt'[f]
    BY <1>1
  <2>2. attempt[f] \in Nat /\ a \in Nat /\ f \in Nat /\ n \in Nat
    <3>1. attempt \in [Entry -> Attempts] /\ next \in 1..(MaxEntries + 1)
      BY DEF TypeInv, TypeOK
    <3>2. n \in Nat
      BY <3>1
    <3>3. f \in Nat
      BY DEF Entry
    <3>4. attempt[f] \in Nat /\ a \in Nat
      BY <3>1, ConstantsAssumption DEF Attempts
    <3> QED BY <3>2, <3>3, <3>4
  <2>3. f <= n
    BY <1>2, <1>6, <2>2, ConstantsAssumption
  <2>4. CASE f = n
    BY <1>1, <2>2, <2>3, <2>4
  <2>5. CASE f # n
    BY <1>6, <2>1, <2>2, <2>3, <2>5
  <2> QED BY <2>4, <2>5
<1>7. OpenIsLast'
  <2> SUFFICES ASSUME NEW e \in Entry, NEW f \in Entry, Open(e)', logOf'[f] = logOf'[e],
                      logOf'[e] \notin doubled'
               PROVE  f <= e /\ attempt'[f] <= attempt'[e]
    BY DEF OpenIsLast
  <2>1. CASE logOf'[e] = l
    <3>1. e = n
      BY <2>1, <1>1 DEF CarriedBy
    <3> QED BY <3>1, <2>1, <1>1, <1>6
  <2>2. CASE logOf'[e] # l
    BY <2>2, <1>1 DEF OpenIsLast, Carriage
  <2> QED BY <2>1, <2>2
<1>8. DelayedIsNew'
  BY <1>1, <1>2, ConstantsAssumption DEF DelayedIsNew, Carriage, TypeInv, TypeOK, Job
<1>9. AttemptsAscend'
  <2> SUFFICES ASSUME NEW e \in Entry, NEW f \in Entry, e < f,
                      logOf'[e] = logOf'[f], logOf'[e] \in Logs \ doubled'
               PROVE  attempt'[e] < attempt'[f]
    BY DEF AttemptsAscend
  <2>0. e \in Nat /\ f \in Nat /\ n \in Nat
    BY ConstantsAssumption DEF Entry, TypeInv, TypeOK
  <2>1. CASE logOf'[e] = l
    <3>0. f <= n
      BY <1>6, <2>1
    <3>1. f <= n /\ e # n
      BY <3>0, <2>0
    <3>2. CASE f = n
      BY <3>1, <3>2, <2>1, <1>1, <1>6
    <3>3. CASE f # n
      BY <3>1, <3>3, <1>1 DEF AttemptsAscend, Carriage
    <3> QED BY <3>2, <3>3
  <2>2. CASE logOf'[e] # l
    BY <2>2, <1>1 DEF AttemptsAscend, Carriage
  <2> QED BY <2>1, <2>2
<1> QED BY <1>5, <1>7, <1>8, <1>9 DEF Carriage

\* A worker step appends nothing and re-schedules only rows it holds entries of.
LEMMA WorkerKeepsNotYetEnqueued ==
    ASSUME TypeInv, NotYetEnqueued, UNCHANGED <<producer, logOf, listed>>,
           \A j \in delayed' : j \in delayed \/ \E e \in Entry : j.log = logOf[e]
    PROVE  NotYetEnqueued'
  BY DEF NotYetEnqueued, DelayedJobs

LEMMA CarrierStep == CarrierInv /\ [Next]_vars => CarrierInv'
<1> SUFFICES ASSUME CarrierInv, [Next]_vars
             PROVE  NotYetEnqueued' /\ Carriage'
  BY TypeStep DEF CarrierInv
<1> USE DEF CarrierInv
<1>1. ASSUME NEW l \in Logs, ProducerStep(l)
      PROVE  NotYetEnqueued' /\ Carriage'
  <2>1. UNCHANGED <<delayed, listed, doubled>>
    BY <1>1 DEF ProducerStep, CreateEmailLog, Enqueue, EnqueueFails, MarkEnqueueFailed,
                ProducerCrash, moverVars
  <2>2. CASE Append(l, 0) /\ producer[l] = "logged"
             /\ producer' \in {[producer EXCEPT ![l] = "done"], [producer EXCEPT ![l] = "rejected"]}
    <3>1. CarriedBy(l) = {} /\ DelayedJobs(l) = {} /\ \A f \in Entry : logOf[f] # l
      BY <2>2 DEF NotYetEnqueued, CarriedBy
    <3>2. (\A j \in delayed : j.log # l) /\ 0 \in Attempts
      BY <2>1, <3>1, ConstantsAssumption DEF DelayedJobs, Attempts
    <3>3. Carriage'
      BY <2>1, <2>2, <3>1, <3>2, AppendKeepsCarriage
    <3>4. NotYetEnqueued'
      BY <2>1, <2>2 DEF NotYetEnqueued, DelayedJobs, Append, TypeInv, TypeOK
    <3> QED BY <2>1, <3>3, <3>4
  <2>3. CASE /\ UNCHANGED streamVars
             /\ \A m \in Logs : producer'[m] \in {"idle", "logged"} => producer[m] \in {"idle", "logged"}
    <3>1. Carriage'
      BY <2>1, <2>3, CloseKeepsCarriage DEF streamVars, Open, Orphaned
    <3>2. NotYetEnqueued'
      BY <2>1, <2>3 DEF NotYetEnqueued, DelayedJobs, streamVars
    <3> QED BY <2>1, <3>1, <3>2
  <2> QED BY <1>1, <2>2, <2>3 DEF ProducerStep, CreateEmailLog, Enqueue, EnqueueFails,
          MarkEnqueueFailed, ProducerCrash, TypeInv, TypeOK
<1>2. ASSUME NEW w \in Workers, WorkerStep(w)
      PROVE  NotYetEnqueued' /\ Carriage'
  <2>1. CASE /\ UNCHANGED <<producer, logOf, attempt, delayed, moverVars>>
             /\ \A e \in Entry : Open(e)' => Open(e)
    BY <2>1, CloseKeepsCarriage, WorkerKeepsNotYetEnqueued DEF moverVars
  <2>2. CASE Start(w) \/ StartFails(w) \/ RetrySend(w) \/ Crash(w)
    <3>1. \A e \in Entry : Open(e)' => Open(e)
      BY <2>2 DEF Start, StartFails, RetrySend, Crash, streamVars, Open, Orphaned, TypeInv, TypeOK
    <3> QED BY <2>1, <2>2, <3>1 DEF Start, StartFails, RetrySend, Crash, streamVars
  <2>3. CASE DequeueBatch(w) \/ DequeueFails(w)
    <3>1. \A e \in Entry : Open(e)' => Open(e)
      BY <2>3 DEF DequeueBatch, DequeueFails, Waiting, Open, Orphaned, Pending, Handling,
                  TypeInv, TypeOK
    <3> QED BY <2>1, <2>3, <3>1 DEF DequeueBatch, DequeueFails
  <2>4. CASE Send(w) \/ SendUnconfirmed(w)
    <3> PICK ok \in SUBSET ToSend(w) : Outcome(ToSend(w), ok)
      BY <2>4 DEF Send, SendUnconfirmed
    <3>1. UNCHANGED <<producer, logOf, attempt, delayed, moverVars, owner>>
      BY <2>4 DEF Send, SendUnconfirmed
    <3>2. \A e \in Entry : Open(e)' => Open(e)
      BY <3>1, OutcomeType DEF Open, Orphaned, Pending, Handling
    <3> QED BY <2>1, <3>1, <3>2
  <2>5. ASSUME NEW e \in Entry, HandlerStep(w, e)
        PROVE  NotYetEnqueued' /\ Carriage'
    <3>1. /\ Current(w, e)
          /\ UNCHANGED <<producer, logOf, attempt, moverVars>>
      BY <2>5 DEF HandlerStep, MarkSent, HandleFailure, UpdateFails, RequeueAfter, DeadLetter,
                  Ack, RedisFails, Handle
    <3>2. owner[e] = w /\ w # NoWorker /\ phase[e] \in Handling /\ e < next /\ logOf[e] \in Logs
      BY <3>1, CurrentFacts, ConstantsAssumption
    <3>3. \A f \in Entry : Open(f)' => Open(f)
      BY <2>5, <3>2 DEF HandlerStep, MarkSent, HandleFailure, UpdateFails, RequeueAfter,
         DeadLetter, Ack, RedisFails, Handle, Open, Orphaned, Pending, Handling, TypeInv, TypeOK
    <3>4. CASE delayed' = delayed
      BY <2>1, <3>1, <3>3, <3>4
    <3>5. CASE delayed' = delayed \cup {Retried(e)} /\ phase[e] = "requeue" /\ ~Open(e)'
      <4>1. Open(e)
        BY <3>2, <3>5 DEF Open, Orphaned, Pending, Handling
      <4>2. Carriage'
        BY <3>1, <3>2, <3>3, <3>5, <4>1, RequeueKeepsCarriage DEF moverVars
      <4>3. NotYetEnqueued'
        BY <3>1, <3>5, WorkerKeepsNotYetEnqueued DEF Retried, moverVars
      <4> QED BY <4>2, <4>3
    <3>6. CASE RequeueAfter(w, e)
      BY <3>5, <3>6 DEF RequeueAfter, Handle, Open, Pending, Handling, TypeInv, TypeOK
    <3>7. CASE RedisFails(w, e)
      <4>1. delayed' # delayed => /\ delayed' = delayed \cup {Retried(e)} /\ phase[e] = "requeue"
                                  /\ ~Open(e)'
        BY <3>7 DEF RedisFails, Open, Orphaned, Pending, Handling, TypeInv, TypeOK
      <4> QED BY <3>4, <3>5, <4>1
    <3>8. CASE MarkSent(w, e) \/ HandleFailure(w, e) \/ UpdateFails(w, e)
               \/ DeadLetter(w, e) \/ Ack(w, e)
      BY <3>4, <3>8 DEF MarkSent, HandleFailure, UpdateFails, DeadLetter, Ack
    <3> QED BY <2>5, <3>6, <3>7, <3>8 DEF HandlerStep
  <2> QED BY <1>2, <2>2, <2>3, <2>4, <2>5 DEF WorkerStep
<1>3. ASSUME NEW s \in Schedulers, SchedulerStep(s)
      PROVE  NotYetEnqueued' /\ Carriage'
  <2>1. ASSUME NEW j \in listed[s], Move(s, j)
        PROVE  NotYetEnqueued' /\ Carriage'
    <3>1. j.log \in Logs /\ j.attempt \in Attempts
      BY <2>1 DEF TypeInv, TypeOK, Job
    <3>2. /\ doubled \subseteq doubled' /\ doubled' \subseteq doubled \cup {j.log}
          /\ j.log \notin doubled' => j \in delayed /\ j.log \notin doubled
      BY <2>1 DEF Move
    <3>3. j.log \notin doubled' => DelayedJobs(j.log) = {j} /\ CarriedBy(j.log) = {}
      BY <3>1, <3>2 DEF Carriage, OneCarrier, DelayedJobs
    <3>4. delayed' = delayed \ {j}
      BY <2>1 DEF Move
    <3>5. j.log \notin doubled' => /\ \A i \in delayed' : i.log # j.log
                                   /\ \A f \in Entry : logOf[f] = j.log => attempt[f] < j.attempt
      BY <3>2, <3>3, <3>4 DEF DelayedJobs, Carriage, DelayedIsNew
    <3>6. Carriage'
      BY <2>1, <3>1, <3>2, <3>3, <3>4, <3>5, AppendKeepsCarriage DEF Move
    <3>7. producer[j.log] \notin {"idle", "logged"}
      BY <2>1, <3>1 DEF NotYetEnqueued
    <3>8. /\ \A e \in Entry : logOf'[e] = logOf[e] \/ logOf'[e] = j.log
          /\ \A t \in Schedulers : listed'[t] \subseteq listed[t]
          /\ UNCHANGED producer
      BY <2>1 DEF Move, Append, TypeInv, TypeOK
    <3>9. NotYetEnqueued'
      BY <3>4, <3>7, <3>8 DEF NotYetEnqueued, DelayedJobs
    <3> QED BY <3>6, <3>9
  <2>2. CASE /\ UNCHANGED <<producer, streamVars, delayed, doubled>>
             /\ \A t \in Schedulers : listed'[t] \subseteq listed[t] \/ listed'[t] \subseteq delayed
    <3>1. Carriage'
      BY <2>2, CloseKeepsCarriage DEF streamVars, Open, Orphaned
    <3>2. NotYetEnqueued'
      BY <2>2 DEF NotYetEnqueued, DelayedJobs, streamVars, TypeInv, TypeOK
    <3> QED BY <3>1, <3>2
  <2>3. CASE SchedulerCrash(s) \/ \E due \in SUBSET delayed : ListDue(s, due)
    BY <2>2, <2>3 DEF SchedulerCrash, ListDue, TypeInv, TypeOK
  <2>4. CASE \E j \in listed[s] : MoveFails(s, j)
    BY <2>2, <2>4 DEF MoveFails, TypeInv, TypeOK
  <2> QED BY <1>3, <2>1, <2>3, <2>4 DEF SchedulerStep
<1>4. CASE UNCHANGED <<producer, streamVars, delayed, moverVars>>
  <2>1. Carriage'
    BY <1>4, CloseKeepsCarriage DEF streamVars, moverVars, Open, Orphaned
  <2> QED BY <1>4, <2>1 DEF NotYetEnqueued, DelayedJobs, streamVars, moverVars
<1>5. ASSUME NEW e \in Entry, NEW s \in WebhookStatus, Webhook(e, s)
      PROVE  NotYetEnqueued' /\ Carriage'
  BY <1>4, <1>5 DEF Webhook
<1>6. CASE UNCHANGED vars
  BY <1>4, <1>6 DEF vars, streamVars, moverVars
<1> QED BY <1>1, <1>2, <1>3, <1>5, <1>6 DEF Next

LEMMA CarrierInit == Init => CarrierInv
<1> SUFFICES ASSUME Init PROVE CarrierInv
  OBVIOUS
<1>1. /\ \A e \in Entry : logOf[e] = NoLog /\ phase[e] = "unused"
      /\ delayed = {} /\ \A s \in Schedulers : listed[s] = {}
  BY DEF Init
<1>2. \A e \in Entry : ~Open(e)
  BY <1>1 DEF Open, Pending, Handling
<1> QED BY <1>1, <1>2, TypeInit, ConstantsAssumption
        DEF CarrierInv, Carriage, NotYetEnqueued, DelayedJobs, CarriedBy,
            OneCarrier, OpenIsLast, DelayedIsNew, AttemptsAscend

\* No two goroutines ever drive the mail of the same row, for any number of
\* schedulers, unless two of them moved one of its jobs: see OneCarrier.
THEOREM NoDuplicateCarrier == Spec => []OneCarrier
<1>1. CarrierInv => OneCarrier
  BY DEF CarrierInv, Carriage
<1> QED BY <1>1, CarrierInit, CarrierStep, PTL DEF Spec

\* The jobs of such a row appear in the stream with ascending attempt numbers, hence
\* at most MaxAttempts + 1 times: see AttemptsAscend.
THEOREM AttemptsBounded == Spec => []AttemptsAscend
<1>1. CarrierInv => AttemptsAscend
  BY DEF CarrierInv, Carriage
<1> QED BY <1>1, CarrierInit, CarrierStep, PTL DEF Spec

\* A deployment with one API replica has one scheduler.
SingleScheduler == \A s, t \in Schedulers : s = t

\* What a scheduler listed is still delayed: nobody else moves it.
ListedDelayed == \A s \in Schedulers : listed[s] \subseteq delayed

\* With one scheduler no job is ever moved twice, so that the three properties
\* hold of every row: the second replica is what breaks them.
THEOREM OneReplicaMovesOnce ==
    ASSUME SingleScheduler PROVE Spec => [](doubled = {})
<1> DEFINE Once == TypeInv /\ ListedDelayed /\ doubled = {}
<1>1. Init => Once
  BY TypeInit DEF Init, ListedDelayed
<1>2. Once /\ [Next]_vars => Once'
  <2> SUFFICES ASSUME Once, [Next]_vars PROVE ListedDelayed' /\ doubled' = {}
    BY TypeStep
  <2>1. CASE UNCHANGED moverVars /\ delayed \subseteq delayed'
    BY <2>1 DEF moverVars, ListedDelayed
  <2>2. ASSUME NEW l \in Logs, ProducerStep(l) PROVE ListedDelayed' /\ doubled' = {}
    BY <2>1, <2>2 DEF ProducerStep, CreateEmailLog, Enqueue, EnqueueFails, MarkEnqueueFailed,
                      ProducerCrash
  <2>3. ASSUME NEW w \in Workers, WorkerStep(w) PROVE ListedDelayed' /\ doubled' = {}
    BY <2>1, <2>3 DEF WorkerStep, Start, StartFails, DequeueBatch, DequeueFails, RetrySend, Send,
       SendUnconfirmed, Crash, HandlerStep, MarkSent, HandleFailure, UpdateFails, RequeueAfter,
       DeadLetter, Ack, RedisFails, Handle, moverVars, ListedDelayed
  <2>4. ASSUME NEW s \in Schedulers, SchedulerStep(s) PROVE ListedDelayed' /\ doubled' = {}
    <3>1. \A t \in Schedulers : t = s
      BY DEF SingleScheduler
    <3>2. CASE \E j \in listed[s] : Move(s, j)
      BY <3>1, <3>2 DEF Move, ListedDelayed, TypeInv, TypeOK
    <3>3. CASE SchedulerCrash(s) \/ \E due \in SUBSET delayed : ListDue(s, due)
      BY <3>1, <3>3 DEF SchedulerCrash, ListDue, ListedDelayed, TypeInv, TypeOK
    <3>4. CASE \E j \in listed[s] : MoveFails(s, j)
      BY <3>1, <3>4 DEF MoveFails, ListedDelayed, TypeInv, TypeOK
    <3> QED BY <2>4, <3>2, <3>3, <3>4 DEF SchedulerStep
  <2>5. ASSUME NEW e \in Entry, NEW s \in WebhookStatus, Webhook(e, s)
        PROVE  ListedDelayed' /\ doubled' = {}
    BY <2>1, <2>5 DEF Webhook
  <2>6. CASE UNCHANGED vars
    BY <2>1, <2>6 DEF vars, moverVars
  <2> QED BY <2>2, <2>3, <2>4, <2>5, <2>6 DEF Next
<1>3. Once => doubled = {}
  OBVIOUS
<1> QED BY <1>1, <1>2, <1>3, PTL DEF Spec

\* With one API replica a delayed job becomes one stream entry, as scheduler.go:42-43
\* has it: it takes a second scheduler to append one twice.
THEOREM OneReplicaAppendsOnce ==
    ASSUME SingleScheduler PROVE Spec => []MovedOnce
<1>1. TypeOK /\ AttemptsAscend /\ doubled = {} => MovedOnce
  <2> SUFFICES ASSUME TypeOK, AttemptsAscend, doubled = {}, NEW e \in Entry, NEW f \in Entry,
                      logOf[e] # NoLog, JobOf(e) = JobOf(f)
               PROVE  e = f
    BY DEF MovedOnce
  <2>1. /\ logOf[e] = logOf[f] /\ attempt[e] = attempt[f] /\ logOf[e] \in Logs
        /\ attempt[e] \in Nat /\ e \in Nat /\ f \in Nat
    BY ConstantsAssumption DEF JobOf, TypeOK, Attempts, Entry
  <2>2. ~(e < f) /\ ~(f < e)
    BY <2>1 DEF AttemptsAscend
  <2> QED BY <2>1, <2>2
<1> QED BY <1>1, TypeCorrect, AttemptsBounded, OneReplicaMovesOnce, PTL

-----------------------------------------------------------------------------
(* The pipeline implements MailDelivery.                                   *)

LEMMA HandedFinite ==
    ASSUME NEW l
    PROVE  IsFiniteSet(Handed(l)) /\ Tries(l) \in Nat
<1>1. IsFiniteSet(Entry)
  BY ConstantsAssumption, FS_Interval DEF Entry
<1>2. Handed(l) \in SUBSET Entry
  BY DEF Handed
<1> QED BY <1>1, <1>2, FS_Subset, FS_CardinalityType DEF Tries

\* Ascending attempts below n leave room for n entries.
LEMMA AscendingBound ==
    ASSUME TypeInv, AttemptsAscend, NEW l \in Logs \ doubled, NEW n \in Nat,
           \A e \in Handed(l) : attempt[e] < n
    PROVE  Tries(l) <= n
<1> DEFINE S == Handed(l)
           T == 0..(n - 1)
           f == [e \in S |-> attempt[e]]
<1>1. \A e \in S : e \in Entry /\ logOf[e] = l /\ attempt[e] \in Nat
  BY ConstantsAssumption DEF Handed, TypeInv, TypeOK, Attempts
<1>2. ASSUME NEW e \in S, NEW g \in S, attempt[e] = attempt[g] PROVE e = g
  <2>1. e \in Nat /\ g \in Nat
    BY <1>1, ConstantsAssumption DEF Entry
  <2>2. ~(e < g) /\ ~(g < e)
    BY <1>1, <1>2 DEF AttemptsAscend
  <2> QED BY <2>1, <2>2
<1>3. \A e \in S : attempt[e] \in T
  BY <1>1
<1>4. f \in Injection(S, T)
  <2> HIDE DEF S, T
  <2> QED BY <1>2, <1>3, Fun_IsInj
<1>5. IsFiniteSet(T) /\ Cardinality(T) = n
  BY FS_Interval
<1> HIDE DEF f
<1>6. Cardinality(S) <= Cardinality(T)
  BY <1>4, <1>5, FS_Injection
<1> QED BY <1>5, <1>6 DEF Tries

LEMMA LiveIsOpen == ASSUME NEW e, Live(e) PROVE Open(e)
  BY DEF Live, Open, Pending, Handling

\* Between two calls of withRetry a worker holds a job it has not finished; and what
\* was not delivered yet has no owner.
CallShape ==
    /\ \A w \in Workers : Unsent(w) = {} => calls[w] = 0
    /\ \A e \in Entry : phase[e] \in {"unused", "waiting", "skipped"} => owner[e] = NoWorker

DeliveryInv == CarrierInv /\ CallShape

\* A step that calls nobody and leaves the unsent entries to their workers.
LEMMA CallFrame ==
    ASSUME CallShape, UNCHANGED calls,
           \A w \in Workers : Unsent(w) # {} => Unsent(w)' # {},
           \A e \in Entry : phase'[e] \in {"unused", "waiting", "skipped"} =>
               /\ phase[e] \in {"unused", "waiting", "skipped"} /\ owner'[e] = owner[e]
    PROVE  CallShape'
  BY DEF CallShape

\* Steps that leave every entry that is read where it is keep the unsent entries.
LEMMA SameUnsent ==
    ASSUME \A e \in Entry : phase[e] = "read" \/ phase'[e] = "read" =>
               UNCHANGED <<phase[e], owner[e]>>,
           NEW w \in Workers
    PROVE  Unsent(w)' = Unsent(w)
  BY DEF Unsent, Held, Pending

LEMMA AppendedUnsent ==
    ASSUME TypeInv, NEW k, NEW a, Append(k, a)
    PROVE  /\ \A e \in Entry : phase[e] = "read" \/ phase'[e] = "read" =>
                  UNCHANGED <<phase[e], owner[e], logOf[e]>>
           /\ \A e \in Entry : phase'[e] \in {"unused", "waiting", "skipped"} =>
                  /\ phase[e] \in {"unused", "waiting", "skipped"} /\ owner'[e] = owner[e]
<1>1. phase[next] = "unused" /\ phase'[next] \in {"waiting", "skipped"}
  BY ConstantsAssumption DEF Append, TypeInv, TypeOK, StreamShape, Entry
<1> QED BY <1>1 DEF Append, TypeInv, TypeOK

\* A handler step ends no attempt and begins none.
LEMMA HandlerUnsent ==
    ASSUME TypeInv, NEW w \in Workers, NEW e \in Entry, HandlerStep(w, e)
    PROVE  /\ UNCHANGED <<calls, logOf>>
           /\ \A f \in Entry : phase[f] = "read" \/ phase'[f] = "read" =>
                  UNCHANGED <<phase[f], owner[f]>>
           /\ \A f \in Entry : phase'[f] \in {"unused", "waiting", "skipped"} =>
                  /\ phase[f] \in {"unused", "waiting", "skipped"} /\ owner'[f] = owner[f]
<1>1. Current(w, e) /\ UNCHANGED <<calls, logOf>>
  BY DEF HandlerStep, MarkSent, HandleFailure, UpdateFails, RequeueAfter, DeadLetter, Ack,
         RedisFails, Handle
<1>2. phase[e] \in Handling
  BY <1>1, CurrentFacts
<1>3. /\ \A f \in Entry : f # e => UNCHANGED <<phase[f], owner[f]>>
      /\ phase'[e] \in Handling \cup {"acked"}
  BY <1>2 DEF HandlerStep, MarkSent, HandleFailure, UpdateFails, RequeueAfter, DeadLetter, Ack,
         RedisFails, Handle, TypeInv, TypeOK, Handling
<1> QED BY <1>1, <1>2, <1>3 DEF Handling

LEMMA CallShapeStep == TypeInv /\ CallShape /\ [Next]_vars => CallShape'
<1> SUFFICES ASSUME TypeInv, CallShape, [Next]_vars PROVE CallShape'
  OBVIOUS
<1>1. CASE UNCHANGED <<calls, streamVars>>
  <2>1. \A w \in Workers : Unsent(w)' = Unsent(w)
    BY <1>1, SameUnsent DEF streamVars
  <2> QED BY <1>1, <2>1, CallFrame DEF streamVars
<1>2. ASSUME NEW k, NEW a, Append(k, a), UNCHANGED calls PROVE CallShape'
  <2>1. \A w \in Workers : Unsent(w)' = Unsent(w)
    BY <1>2, AppendedUnsent, SameUnsent
  <2> QED BY <1>2, <2>1, AppendedUnsent, CallFrame
<1>3. ASSUME NEW l \in Logs, ProducerStep(l) PROVE CallShape'
  BY <1>1, <1>2, <1>3 DEF ProducerStep, CreateEmailLog, Enqueue, EnqueueFails,
     MarkEnqueueFailed, ProducerCrash
<1>4. ASSUME NEW w \in Workers, WorkerStep(w) PROVE CallShape'
  <2>1. CASE Start(w) \/ StartFails(w)
    BY <1>1, <2>1 DEF Start, StartFails
  <2>2. CASE DequeueBatch(w)
    <3>1. \A e \in Entry : \/ UNCHANGED <<phase[e], owner[e]>>
                           \/ phase[e] = "waiting" /\ phase'[e] = "read" /\ owner'[e] = w
      BY <2>2 DEF DequeueBatch, Waiting
    <3>2. \A v \in Workers : Unsent(v) \subseteq Unsent(v)'
      BY <3>1 DEF Unsent, Held, Pending
    <3> QED BY <2>2, <3>1, <3>2, CallFrame DEF DequeueBatch
  <2>3. CASE DequeueFails(w)
    <3>1. \A e \in Entry : \/ UNCHANGED <<phase[e], owner[e]>>
                           \/ /\ phase[e] = "waiting" /\ phase'[e] = "read"
                              /\ owner'[e] = owner[e]
      BY <2>3 DEF DequeueFails, Waiting
    <3>2. \A v \in Workers : Unsent(v) \subseteq Unsent(v)'
      BY <3>1 DEF Unsent, Held, Pending
    <3> QED BY <2>3, <3>1, <3>2, CallFrame DEF DequeueFails
  <2>4. CASE RetrySend(w)
    <3>1. \A v \in Workers : Unsent(v)' = Unsent(v)
      BY <2>4, SameUnsent DEF RetrySend, streamVars
    <3>2. Unsent(w) # {} /\ \A v \in Workers : v # w => calls'[v] = calls[v]
      BY <2>4 DEF RetrySend, TypeInv, TypeOK
    <3> QED BY <2>4, <3>1, <3>2 DEF RetrySend, streamVars, CallShape
  <2>5. CASE Send(w) \/ SendUnconfirmed(w) \/ Crash(w)
    <3>1. calls'[w] = 0 /\ \A v \in Workers : v # w => calls'[v] = calls[v]
      BY <2>5 DEF Send, SendUnconfirmed, Crash, TypeInv, TypeOK
    <3>2. \A e \in Entry : \/ UNCHANGED <<phase[e], owner[e]>>
                           \/ /\ phase[e] \in Pending /\ owner[e] = w
                              /\ phase'[e] \in Pending
      BY <2>5, ToSendFacts
      DEF Send, SendUnconfirmed, Crash, Outcome, Held, Pending, Handling
    <3>3. \A v \in Workers : v # w => Unsent(v) \subseteq Unsent(v)'
      BY <3>2 DEF Unsent, Held, Pending, Handling
    <3> QED BY <3>1, <3>2, <3>3 DEF CallShape, Pending, Handling
  <2>6. ASSUME NEW e \in Entry, HandlerStep(w, e) PROVE CallShape'
    <3>1. \A v \in Workers : Unsent(v)' = Unsent(v)
      BY <2>6, HandlerUnsent, SameUnsent
    <3> QED BY <2>6, <3>1, HandlerUnsent, CallFrame
  <2> QED BY <1>4, <2>1, <2>2, <2>3, <2>4, <2>5, <2>6 DEF WorkerStep
<1>5. ASSUME NEW s \in Schedulers, SchedulerStep(s) PROVE CallShape'
  BY <1>1, <1>2, <1>5 DEF SchedulerStep, SchedulerCrash, ListDue, Move, MoveFails
<1>6. ASSUME NEW e \in Entry, NEW s \in WebhookStatus, Webhook(e, s) PROVE CallShape'
  BY <1>1, <1>6 DEF Webhook
<1>7. CASE UNCHANGED vars
  BY <1>1, <1>7 DEF vars, streamVars
<1> QED BY <1>3, <1>4, <1>5, <1>6, <1>7 DEF Next

LEMMA DeliveryInvInit == Init => DeliveryInv
<1>1. Init => CallShape
  BY DEF Init, CallShape
<1> QED BY <1>1, CarrierInit DEF DeliveryInv

LEMMA DeliveryInvStep == DeliveryInv /\ [Next]_vars => DeliveryInv'
  BY CarrierStep, CallShapeStep DEF DeliveryInv, CarrierInv

-----------------------------------------------------------------------------
(* What a step does to one mail, in the terms of MailDelivery.             *)

RestStep(l)  == Stage(l)' = Stage(l) /\ Tries(l)' = Tries(l) /\ Asks(l)' = Asks(l)
EnterStep(l) == /\ Stage(l) = "new" /\ Stage(l)' # "new"
                /\ Tries(l)' = Tries(l) /\ Asks(l)' = Asks(l)
AskStep(l)   == /\ Stage(l) = "queued" /\ Stage(l)' = "queued"
                /\ Tries(l) < MaxAttempts + 1 /\ Tries(l)' = Tries(l)
                /\ Asks(l)' = Asks(l) + 1 /\ Asks(l)' < MaxRetries + 1
TryStep(l)   == /\ Stage(l) = "queued" /\ Tries(l) < MaxAttempts + 1
                /\ Tries(l)' = Tries(l) + 1 /\ Asks(l)' = 0
                /\ \/ Stage(l)' = "over"
                   \/ Stage(l)' = "queued" /\ Tries(l)' < MaxAttempts + 1
LetGoStep(l) == /\ Stage(l) = "queued" /\ Stage(l)' = "over"
                /\ Tries(l)' = Tries(l) /\ Asks(l)' = 0
MailStep(l)  == RestStep(l) \/ EnterStep(l) \/ AskStep(l) \/ TryStep(l) \/ LetGoStep(l)

\* A worker calls the provider again about a mail the queue still has.
LEMMA RecalledIsLive ==
    ASSUME NEW l, NEW w \in Recalling(l)
    PROVE  /\ w \in Workers /\ calls[w] > 0
           /\ \E e \in ToSend(w) : /\ e \in Entry /\ logOf[e] = l /\ phase[e] = "read"
                                   /\ owner[e] = w /\ Live(e)
<1> PICK e \in ToSend(w) : logOf[e] = l
  BY DEF Recalling
<1>1. w \in Workers /\ calls[w] > 0
  BY DEF Recalling
<1>2. e \in Entry /\ phase[e] = "read" /\ owner[e] = w
  BY <1>1, ToSendFacts
<1>3. Live(e)
  BY <1>1, <1>2, ConstantsAssumption DEF Live, Orphaned
<1> QED BY <1>1, <1>2, <1>3

LEMMA AskedIsQueued == ASSUME NEW l, Stage(l) # "queued" PROVE Asks(l) = 0
  BY RecalledIsLive DEF Asks, Stage

\* The same of the state after a step.
LEMMA ThenAskedIsQueued == ASSUME NEW l, Stage(l)' # "queued" PROVE Asks(l)' = 0
<1> SUFFICES ASSUME NEW w \in Recalling(l)' PROVE FALSE
  BY DEF Asks
<1> PICK e \in ToSend(w)' : logOf'[e] = l
  BY DEF Recalling
<1>1. w \in Workers
  BY DEF Recalling
<1>2. e \in Entry /\ phase'[e] = "read" /\ owner'[e] = w
  BY DEF ToSend, Unsent, Held
<1>3. Live(e)'
  BY <1>1, <1>2, ConstantsAssumption DEF Live, Orphaned
<1> QED BY <1>2, <1>3 DEF Stage

LEMMA AsksType == ASSUME TypeInv, NEW l PROVE Asks(l) \in 0..MaxRetries
<1>1. CASE Recalling(l) = {}
  BY <1>1, ConstantsAssumption DEF Asks
<1>2. CASE Recalling(l) # {}
  <2>1. (CHOOSE w \in Recalling(l) : TRUE) \in Workers
    BY <1>2 DEF Recalling
  <2> QED BY <1>2, <2>1 DEF Asks, TypeInv, TypeOK
<1> QED BY <1>1, <1>2

\* A step leaves the calls about a mail alone if it leaves those workers alone that
\* are to call again.
LEMMA SameAsks ==
    ASSUME TypeInv, UNCHANGED calls,
           \A w \in Workers : calls[w] > 0 =>
               Unsent(w)' = Unsent(w) /\ \A e \in Unsent(w) : logOf'[e] = logOf[e],
           NEW l
    PROVE  Asks(l)' = Asks(l)
<1>1. ASSUME NEW w \in Workers, calls[w] > 0
      PROVE  (\E e \in ToSend(w) : logOf[e] = l)' <=> \E e \in ToSend(w) : logOf[e] = l
  <2>1. ToSend(w)' = ToSend(w)
    BY <1>1 DEF ToSend, First
  <2>2. ToSend(w) \subseteq Unsent(w)
    BY DEF ToSend
  <2> QED BY <1>1, <2>1, <2>2
<1>2. Recalling(l)' = Recalling(l)
  BY <1>1 DEF Recalling
<1> QED BY <1>2 DEF Asks

\* Nobody but the worker that holds the one open entry of a mail calls about it.
LEMMA OneCaller ==
    ASSUME DeliveryInv, NEW w \in Workers, NEW e \in ToSend(w), logOf[e] \in Logs \ doubled
    PROVE  /\ e \in Entry /\ Live(e) /\ ~Tried(e) /\ phase[e] = "read" /\ owner[e] = w
           /\ CarriedBy(logOf[e]) = {e} /\ DelayedJobs(logOf[e]) = {}
           /\ Stage(logOf[e]) = "queued"
           /\ Tries(logOf[e]) <= attempt[e] /\ attempt[e] \in 0..MaxAttempts
           /\ Recalling(logOf[e]) \subseteq {w}
           /\ Asks(logOf[e]) = calls[w]
<1> DEFINE l == logOf[e]
<1> USE DEF DeliveryInv
<1>1. e \in Entry /\ phase[e] = "read" /\ owner[e] = w
  BY ToSendFacts
<1>2. Live(e) /\ ~Tried(e)
  BY <1>1, ConstantsAssumption DEF Live, Orphaned, Tried, Handling
<1>3. CarriedBy(l) = {e} /\ DelayedJobs(l) = {}
  BY <1>1, <1>2, LiveIsOpen DEF CarrierInv, Carriage, OneCarrier, CarriedBy
<1>4. Stage(l) = "queued"
  BY <1>1, <1>2 DEF Stage
<1>5. attempt[e] \in 0..MaxAttempts
  BY <1>1 DEF CarrierInv, TypeInv, TypeOK, Attempts
<1>6. \A f \in Handed(l) : attempt[f] < attempt[e]
  <2> SUFFICES ASSUME NEW f \in Handed(l) PROVE attempt[f] < attempt[e]
    OBVIOUS
  <2>1. f \in Entry /\ logOf[f] = l /\ f # e
    BY <1>2 DEF Handed
  <2>2. f <= e /\ e \in Nat /\ f \in Nat
    BY <1>1, <1>2, <2>1, LiveIsOpen, ConstantsAssumption
    DEF CarrierInv, Carriage, OpenIsLast, Entry
  <2> QED BY <1>1, <2>1, <2>2 DEF CarrierInv, Carriage, AttemptsAscend
<1>7. Tries(l) <= attempt[e]
  BY <1>5, <1>6, AscendingBound, ConstantsAssumption DEF CarrierInv, Carriage
<1>8. Recalling(l) \subseteq {w}
  <2> SUFFICES ASSUME NEW v \in Recalling(l) PROVE v = w
    OBVIOUS
  <2>1. PICK f \in Entry : logOf[f] = l /\ Live(f) /\ owner[f] = v
    BY RecalledIsLive
  <2>2. f = e
    BY <1>3, <2>1, LiveIsOpen DEF CarriedBy
  <2> QED BY <1>1, <2>1, <2>2
<1>9. Asks(l) = calls[w]
  <2>1. calls[w] \in Nat
    BY ConstantsAssumption DEF CarrierInv, TypeInv, TypeOK
  <2>2. calls[w] > 0 <=> w \in Recalling(l)
    BY DEF Recalling
  <2>3. CASE calls[w] > 0
    <3>1. Recalling(l) = {w}
      BY <1>8, <2>2, <2>3
    <3> QED BY <3>1 DEF Asks
  <2>4. CASE calls[w] = 0
    <3>1. Recalling(l) = {}
      BY <1>8, <2>2, <2>4
    <3> QED BY <2>4, <3>1 DEF Asks
  <2> QED BY <2>1, <2>3, <2>4
<1> QED BY <1>1, <1>2, <1>3, <1>4, <1>5, <1>7, <1>8, <1>9

\* A step that tries nothing, appends nothing and re-schedules only what is still
\* live lets go of a mail or leaves it where it is.
LEMMA RestOrLetGo ==
    ASSUME logOf' = logOf, delayed \subseteq delayed',
           \A e \in Entry : Tried(e)' = Tried(e) /\ (Live(e)' => Live(e)),
           \A j \in delayed' : j \in delayed \/ \E e \in Entry : Live(e) /\ logOf[e] = j.log,
           NEW l \in Logs, Stage(l)' = "queued" => Asks(l)' = Asks(l),
           Stage(l)' # "queued" => Asks(l)' = 0
    PROVE  MailStep(l)
<1>1. Tries(l)' = Tries(l)
  <2>1. Handed(l)' = Handed(l)
    BY DEF Handed
  <2> QED BY <2>1 DEF Tries
<1>2. Stage(l)' = "queued" => Stage(l) = "queued"
  BY DEF Stage, DelayedJobs
<1>3. CASE Stage(l)' = "queued"
  BY <1>1, <1>2, <1>3 DEF MailStep, RestStep
<1>4. CASE Stage(l) = "queued" /\ Stage(l)' # "queued"
  <2>1. \E e \in Entry : logOf[e] = l
    BY <1>4 DEF Stage, DelayedJobs
  <2>2. Stage(l)' = "over"
    BY <1>4, <2>1 DEF Stage
  <2> QED BY <1>1, <1>4, <2>2 DEF MailStep, LetGoStep
<1>5. CASE Stage(l) # "queued" /\ Stage(l)' # "queued"
  <2>1. Stage(l)' = Stage(l)
    BY <1>5 DEF Stage
  <2>2. Asks(l) = 0
    BY <1>5, AskedIsQueued
  <2> QED BY <1>1, <1>5, <2>1, <2>2 DEF MailStep, RestStep
<1> QED BY <1>3, <1>4, <1>5

\* An appended job is not tried yet; its mail was new or delayed before.
LEMMA AppendMailStep ==
    ASSUME TypeInv, NEW k \in Logs, NEW a \in Attempts, Append(k, a), UNCHANGED calls,
           delayed' \subseteq delayed, \A j \in delayed : j \in delayed' \/ j.log = k,
           NEW l \in Logs, l = k => Stage(k) = "new" \/ (Stage(k) = "queued" /\ Asks(k) = 0)
    PROVE  MailStep(l)
<1> PICK n : n = next
  OBVIOUS
<1>1. /\ n \in Entry /\ logOf[n] = NoLog /\ logOf'[n] = k /\ phase'[n] \in {"waiting", "skipped"}
      /\ \A e \in Entry : e # n => /\ logOf'[e] = logOf[e] /\ Tried(e)' = Tried(e)
                                   /\ Live(e)' = Live(e)
  BY ConstantsAssumption
  DEF Append, TypeInv, TypeOK, StreamShape, Tried, Live, Orphaned, Exhausted, Entry
<1>2. ~Tried(n)'
  BY <1>1 DEF Tried, Handling
<1>3. Tries(l)' = Tries(l)
  <2>1. Handed(l)' = Handed(l)
    BY <1>1, <1>2, ConstantsAssumption DEF Handed
  <2> QED BY <2>1 DEF Tries
<1>6. Asks(l)' = Asks(l)
  <2>1. \A w \in Workers : Unsent(w)' = Unsent(w)
    BY AppendedUnsent, SameUnsent
  <2>2. \A w \in Workers : \A e \in Unsent(w) : logOf'[e] = logOf[e]
    BY AppendedUnsent DEF Unsent, Held
  <2> QED BY <2>1, <2>2, SameAsks
<1>4. CASE l = k
  <2>1. Stage(l)' \in {"queued", "over"}
    BY <1>1, <1>4 DEF Stage
  <2> QED BY <1>3, <1>4, <1>6, <2>1 DEF MailStep, RestStep, EnterStep, LetGoStep
<1>5. CASE l # k
  <2>1. DelayedJobs(l)' = DelayedJobs(l)
    BY <1>5 DEF DelayedJobs
  <2>2. /\ (\E e \in Entry : logOf[e] = l /\ Live(e))' <=> \E e \in Entry : logOf[e] = l /\ Live(e)
        /\ (\E e \in Entry : logOf[e] = l)' <=> \E e \in Entry : logOf[e] = l
    BY <1>1, <1>5, ConstantsAssumption
  <2>3. Stage(l)' = Stage(l)
    BY <2>1, <2>2 DEF Stage
  <2> QED BY <1>3, <1>6, <2>3 DEF MailStep, RestStep
<1> QED BY <1>4, <1>5

\* The calls about a mail that worker w does not send, when w makes one.
LEMMA OthersAsks ==
    ASSUME TypeInv, NEW w \in Workers, NEW l, \A e \in ToSend(w) : logOf[e] # l,
           logOf' = logOf, \A v \in Workers : v # w => calls'[v] = calls[v],
           calls'[w] = 0 \/ Unsent(w)' = Unsent(w),
           \A v \in Workers : v # w => Unsent(v)' = Unsent(v)
    PROVE  Asks(l)' = Asks(l)
<1>1. \A v \in Workers : Unsent(v)' = Unsent(v) => ToSend(v)' = ToSend(v)
  BY DEF ToSend, First
<1>2. w \notin Recalling(l) /\ w \notin Recalling(l)'
  BY <1>1 DEF Recalling
<1>3. Recalling(l)' = Recalling(l)
  BY <1>1, <1>2 DEF Recalling
<1>4. \A v \in Recalling(l) : calls'[v] = calls[v]
  BY <1>2 DEF Recalling
<1>5. CASE Recalling(l) = {}
  BY <1>3, <1>5 DEF Asks
<1>6. CASE Recalling(l) # {}
  <2>1. (CHOOSE v \in Recalling(l) : TRUE) \in Recalling(l)
    BY <1>6
  <2> QED BY <1>3, <1>4, <1>6, <2>1 DEF Asks
<1> QED BY <1>5, <1>6

\* A call that is made again.
LEMMA RetryMailStep ==
    ASSUME DeliveryInv, NEW w \in Workers, RetrySend(w), NEW l \in Logs \ doubled
    PROVE  IF \E e \in ToSend(w) : logOf[e] = l THEN AskStep(l) ELSE RestStep(l)
<1>0. /\ UNCHANGED <<logOf, attempt, phase, owner, delayed, doubled>>
      /\ calls[w] < MaxRetries /\ calls[w] \in Nat
      /\ calls'[w] = calls[w] + 1 /\ \A v \in Workers : v # w => calls'[v] = calls[v]
  BY ConstantsAssumption
  DEF RetrySend, Again, streamVars, moverVars, DeliveryInv, CarrierInv, TypeInv, TypeOK
<1>1. /\ \A e \in Entry : Tried(e)' = Tried(e) /\ Live(e)' = Live(e)
      /\ Handed(l)' = Handed(l) /\ DelayedJobs(l)' = DelayedJobs(l)
  BY <1>0 DEF Tried, Live, Orphaned, Exhausted, Handed, DelayedJobs
<1>2. Stage(l)' = Stage(l)
  BY <1>0, <1>1 DEF Stage
<1>3. Tries(l)' = Tries(l)
  BY <1>1 DEF Tries
<1>4. \A v \in Workers : Unsent(v)' = Unsent(v)
  BY <1>0, SameUnsent
<1>5. ASSUME NEW e \in ToSend(w), logOf[e] = l PROVE AskStep(l)
  <2>1. /\ Stage(l) = "queued" /\ Tries(l) <= attempt[e] /\ attempt[e] \in 0..MaxAttempts
        /\ Recalling(l) \subseteq {w} /\ Asks(l) = calls[w]
    BY <1>5, OneCaller
  <2>2. Recalling(l)' = {w}
    <3>1. \A v \in Workers : ToSend(v)' = ToSend(v)
      BY <1>4 DEF ToSend, First
    <3>2. w \in Recalling(l)'
      BY <1>0, <1>5, <3>1 DEF Recalling
    <3>3. \A v \in Recalling(l)' : v = w
      BY <1>0, <2>1, <3>1 DEF Recalling
    <3> QED BY <3>2, <3>3
  <2>3. Asks(l)' = calls[w] + 1
    BY <1>0, <2>2 DEF Asks
  <2>4. Tries(l) \in Nat
    BY HandedFinite
  <2> QED BY <1>0, <1>2, <1>3, <2>1, <2>3, <2>4, ConstantsAssumption DEF AskStep
<1>6. CASE \A e \in ToSend(w) : logOf[e] # l
  <2>1. Asks(l)' = Asks(l)
    BY <1>0, <1>4, <1>6, OthersAsks DEF DeliveryInv, CarrierInv
  <2> QED BY <1>2, <1>3, <1>6, <2>1 DEF RestStep
<1> QED BY <1>5, <1>6

\* A batch holds at most one job of a mail, the newest, and so with more attempts
\* used up than any that was tried before.
LEMMA SendMailStep ==
    ASSUME DeliveryInv, NEW w \in Workers, Send(w) \/ SendUnconfirmed(w),
           NEW l \in Logs \ doubled
    PROVE  IF \E e \in ToSend(w) : logOf[e] = l THEN TryStep(l) ELSE RestStep(l)
<1> DEFINE B == ToSend(w)
<1>0. /\ UNCHANGED <<logOf, attempt, owner, delayed, doubled>>
      /\ calls'[w] = 0 /\ \A v \in Workers : v # w => calls'[v] = calls[v]
  BY DEF Send, SendUnconfirmed, moverVars, DeliveryInv, CarrierInv, TypeInv, TypeOK
<1> PICK ok \in SUBSET B : Outcome(B, ok)
  BY DEF Send, SendUnconfirmed
<1>1. \A e \in B : e \in Entry /\ phase[e] = "read" /\ owner[e] = w
  BY ToSendFacts
<1>2. \A e \in Entry : \/ phase'[e] = phase[e] /\ e \notin B
                       \/ e \in B /\ phase'[e] \in {"accepted", "refused"}
  BY DEF Outcome
<1>4. \A e \in Entry \ B : Tried(e)' = Tried(e) /\ Live(e)' = Live(e)
  BY <1>0, <1>2 DEF Tried, Live, Orphaned, Exhausted
<1> HIDE DEF B
<1>5. CASE \A e \in B : logOf[e] # l
  <2>1. Handed(l)' = Handed(l) /\ DelayedJobs(l)' = DelayedJobs(l)
    BY <1>0, <1>4, <1>5 DEF Handed, DelayedJobs
  <2>2. (\E e \in Entry : logOf[e] = l /\ Live(e))' <=> \E e \in Entry : logOf[e] = l /\ Live(e)
    BY <1>0, <1>4, <1>5
  <2>3. (\E e \in Entry : logOf[e] = l)' <=> \E e \in Entry : logOf[e] = l
    BY <1>0
  <2>4. Stage(l)' = Stage(l)
    BY <2>1, <2>2, <2>3 DEF Stage
  <2>5. \A v \in Workers : v # w => Unsent(v)' = Unsent(v)
    BY <1>0, <1>1, <1>2 DEF Unsent, Held, Pending
  <2>6. Asks(l)' = Asks(l)
    BY <1>0, <1>5, <2>5, OthersAsks DEF B, DeliveryInv, CarrierInv
  <2>7. Tries(l)' = Tries(l)
    BY <2>1 DEF Tries
  <2> QED BY <1>5, <2>4, <2>6, <2>7 DEF B, RestStep
<1>6. ASSUME NEW e \in B, logOf[e] = l PROVE TryStep(l)
  <2>1. /\ e \in Entry /\ Live(e) /\ ~Tried(e) /\ CarriedBy(l) = {e} /\ DelayedJobs(l) = {}
        /\ Stage(l) = "queued" /\ Tries(l) <= attempt[e] /\ attempt[e] \in 0..MaxAttempts
    BY <1>6, OneCaller DEF B
  <2>2. Tried(e)' /\ (Live(e)' => attempt[e] < MaxAttempts)
    BY <1>0, <1>2, <1>6, <2>1, ConstantsAssumption DEF Tried, Live, Exhausted, Handling
  <2>3. \A f \in B : logOf[f] = l => f = e
    <3> SUFFICES ASSUME NEW f \in B, logOf[f] = l PROVE f = e
      OBVIOUS
    <3>1. f \in Entry /\ Live(f)
      BY OneCaller DEF B
    <3> QED BY <2>1, <3>1, LiveIsOpen DEF CarriedBy
  <2>4. Handed(l)' = Handed(l) \cup {e} /\ e \notin Handed(l)
    BY <1>0, <1>4, <1>6, <2>1, <2>2, <2>3 DEF Handed
  <2>5. Tries(l)' = Tries(l) + 1 /\ Tries(l) \in Nat
    BY <2>4, HandedFinite, FS_AddElement DEF Tries
  <2>6. \A f \in Entry : logOf[f] = l /\ Live(f)' => f = e
    BY <1>4, <2>1, <2>3, LiveIsOpen DEF CarriedBy
  <2>7. DelayedJobs(l)' = {}
    BY <1>0, <2>1 DEF DelayedJobs
  <2>8. Stage(l)' = "over" \/ (Stage(l)' = "queued" /\ attempt[e] < MaxAttempts)
    BY <1>0, <1>6, <2>1, <2>2, <2>6, <2>7 DEF Stage
  <2>9. Recalling(l)' = {}
    <3> SUFFICES ASSUME NEW v \in Recalling(l)' PROVE FALSE
      OBVIOUS
    <3>1. v \in Workers /\ calls'[v] > 0 /\ \E f \in ToSend(v)' : logOf'[f] = l
      BY DEF Recalling
    <3>2. PICK f \in Entry : logOf[f] = l /\ phase'[f] = "read" /\ owner[f] = v
      BY <1>0, <3>1 DEF ToSend, Unsent, Held
    <3>3. phase[f] = "read" /\ f # e
      BY <1>2, <1>6, <3>2
    <3>4. Live(f)
      BY <3>1, <3>2, <3>3, ConstantsAssumption DEF Live, Orphaned
    <3> QED BY <2>1, <3>2, <3>3, <3>4, LiveIsOpen DEF CarriedBy
  <2>10. Asks(l)' = 0
    BY <2>9 DEF Asks
  <2> QED BY <2>1, <2>5, <2>8, <2>10, ConstantsAssumption DEF TryStep
<1> QED BY <1>5, <1>6 DEF B

LEMMA DoubledGrows == [Next]_vars => doubled \subseteq doubled'
<1>1. Next => doubled \subseteq doubled'
  BY DEF Next, ProducerStep, CreateEmailLog, Enqueue, EnqueueFails, MarkEnqueueFailed,
     ProducerCrash, WorkerStep, Start, StartFails, DequeueBatch, DequeueFails,
     RetrySend, Send, SendUnconfirmed, Crash, HandlerStep, MarkSent, HandleFailure, UpdateFails, RequeueAfter,
     DeadLetter, Ack, RedisFails, Handle, SchedulerStep, SchedulerCrash, ListDue, Move,
     MoveFails, Webhook, moverVars
<1> QED BY <1>1 DEF vars

\* A worker that crashes between two calls about a mail lets go of it.
LEMMA CrashMailStep ==
    ASSUME DeliveryInv, NEW w \in Workers, Crash(w), NEW l \in Logs \ doubled
    PROVE  MailStep(l)
<1>0. /\ UNCHANGED <<logOf, attempt, phase, delayed, doubled>>
      /\ calls'[w] = 0 /\ \A v \in Workers : v # w => calls'[v] = calls[v]
      /\ \A e \in Entry : owner'[e] = IF e \in Held(w) THEN NoWorker ELSE owner[e]
  BY DEF Crash, moverVars, DeliveryInv, CarrierInv, TypeInv, TypeOK
<1>1. \A e \in Entry : Tried(e)' = Tried(e) /\ (Live(e)' => Live(e))
  BY <1>0 DEF Tried, Live, Orphaned, Exhausted
<1>2. Stage(l)' # "queued" => Asks(l)' = 0
  BY ThenAskedIsQueued
<1>3. ASSUME Stage(l)' = "queued" PROVE Asks(l)' = Asks(l)
  <2>1. ASSUME NEW e \in ToSend(w), logOf[e] = l PROVE FALSE
    <3>1. /\ e \in Entry /\ phase[e] = "read" /\ owner[e] = w
          /\ CarriedBy(l) = {e} /\ DelayedJobs(l) = {}
      BY <2>1, OneCaller
    <3>2. e \in Held(w)
      BY <3>1 DEF Held, Pending
    <3>3. ~Live(e)'
      BY <1>0, <3>1, <3>2 DEF Live, Orphaned, Pending
    <3>4. \A f \in Entry : logOf[f] = l /\ Live(f)' => f = e
      BY <1>1, <3>1, LiveIsOpen DEF CarriedBy
    <3>5. DelayedJobs(l)' = {}
      BY <1>0, <3>1 DEF DelayedJobs
    <3> QED BY <1>0, <1>3, <3>3, <3>4, <3>5 DEF Stage
  <2>2. \A v \in Workers : v # w => Unsent(v)' = Unsent(v)
    BY <1>0, ConstantsAssumption DEF Unsent, Held
  <2> QED BY <1>0, <2>1, <2>2, OthersAsks DEF DeliveryInv, CarrierInv
<1> QED BY <1>0, <1>1, <1>2, <1>3, RestOrLetGo

LEMMA DeliveryStep ==
    ASSUME DeliveryInv, [Next]_vars, NEW l \in Logs \ doubled'
    PROVE  MailStep(l)
<1> USE DEF DeliveryInv, CarrierInv, TypeInv, TypeOK
<1>0. Stage(l)' # "queued" => Asks(l)' = 0
  BY ThenAskedIsQueued
<1>4. CASE UNCHANGED <<streamVars, calls, delayed, doubled>>
  <2>1. Asks(l)' = Asks(l)
    BY <1>4, SameUnsent, SameAsks DEF streamVars
  <2> QED BY <1>0, <1>4, <2>1, RestOrLetGo DEF streamVars, Tried, Live, Orphaned, Exhausted
<1>1. ASSUME NEW k \in Logs, ProducerStep(k) PROVE MailStep(l)
  <2>1. UNCHANGED <<calls, delayed, doubled>>
    BY <1>1 DEF ProducerStep, CreateEmailLog, Enqueue, EnqueueFails, MarkEnqueueFailed,
                ProducerCrash, moverVars
  <2>2. CASE Append(k, 0) /\ producer[k] = "logged"
    <3>1. Stage(k) = "new" /\ 0 \in Attempts
      BY <2>2, ConstantsAssumption DEF NotYetEnqueued, Stage, Attempts
    <3> QED BY <2>1, <2>2, <3>1, AppendMailStep
  <2> QED BY <1>1, <1>4, <2>1, <2>2 DEF ProducerStep, CreateEmailLog, Enqueue, EnqueueFails,
          MarkEnqueueFailed, ProducerCrash
<1>2. ASSUME NEW w \in Workers, WorkerStep(w) PROVE MailStep(l)
  <2>1. CASE Start(w) \/ StartFails(w)
    BY <1>4, <2>1 DEF Start, StartFails, moverVars
  <2>5. CASE Crash(w)
    BY <2>5, CrashMailStep DEF Crash, moverVars
  <2>2. CASE DequeueBatch(w) \/ DequeueFails(w)
    <3>1. \A e \in Entry : Tried(e)' = Tried(e) /\ (Live(e)' => Live(e))
      BY <2>2 DEF DequeueBatch, DequeueFails, Waiting, Tried, Live, Orphaned, Exhausted, Pending,
                  Handling
    <3>2. \A e \in Entry : \/ UNCHANGED <<phase[e], owner[e]>>
                           \/ /\ phase[e] = "waiting" /\ phase'[e] = "read"
                              /\ owner'[e] \in {w, owner[e]}
      BY <2>2 DEF DequeueBatch, DequeueFails, Waiting
    <3>3. calls[w] = 0
      BY <2>2 DEF DequeueBatch, DequeueFails, CallShape, Unsent
    <3>4. \A v \in Workers : v # w => Unsent(v)' = Unsent(v)
      BY <3>2, ConstantsAssumption DEF Unsent, Held, Pending, CallShape
    <3>5. Asks(l)' = Asks(l)
      <4>1. \A v \in Workers : calls[v] > 0 => v # w
        BY <3>3
      <4>2. UNCHANGED <<calls, logOf>>
        BY <2>2 DEF DequeueBatch, DequeueFails
      <4> QED BY <3>4, <4>1, <4>2, SameAsks
    <3> QED BY <1>0, <2>2, <3>1, <3>5, RestOrLetGo DEF DequeueBatch, DequeueFails, moverVars
  <2>3. CASE RetrySend(w) \/ Send(w) \/ SendUnconfirmed(w)
    <3>1. doubled' = doubled
      BY <2>3 DEF RetrySend, Send, SendUnconfirmed, moverVars
    <3> QED BY <2>3, <3>1, RetryMailStep, SendMailStep DEF MailStep
  <2>4. ASSUME NEW e \in Entry, HandlerStep(w, e) PROVE MailStep(l)
    <3>1. Current(w, e) /\ UNCHANGED <<logOf, attempt, doubled>>
      BY <2>4 DEF HandlerStep, MarkSent, HandleFailure, UpdateFails, RequeueAfter, DeadLetter,
                  Ack, RedisFails, Handle, moverVars
    <3>2. owner[e] = w /\ w # NoWorker
      BY <3>1, CurrentFacts, ConstantsAssumption
    <3>3. \A f \in Entry : Tried(f)' = Tried(f)
      BY <2>4 DEF HandlerStep, MarkSent, HandleFailure, UpdateFails, RequeueAfter,
         DeadLetter, Ack, RedisFails, Handle, Tried, Handling
    <3>4. \A f \in Entry : Live(f)' => Live(f)
      BY <2>4, <3>1, <3>2 DEF HandlerStep, MarkSent, HandleFailure, UpdateFails, RequeueAfter,
         DeadLetter, Ack, RedisFails, Handle, Live, Orphaned, Exhausted, Pending, Handling
    <3>5. /\ delayed \subseteq delayed'
          /\ \A j \in delayed' : j \in delayed \/ (Live(e) /\ logOf[e] = j.log)
      BY <2>4, <3>2 DEF HandlerStep, MarkSent, HandleFailure, UpdateFails, RequeueAfter,
         DeadLetter, Ack, RedisFails, Handle, Live, Orphaned, Retried
    <3>6. Asks(l)' = Asks(l)
      BY <2>4, HandlerUnsent, SameUnsent, SameAsks
    <3> QED BY <1>0, <3>1, <3>3, <3>4, <3>5, <3>6, RestOrLetGo
  <2> QED BY <1>2, <2>1, <2>2, <2>3, <2>4, <2>5 DEF WorkerStep
<1>3. ASSUME NEW s \in Schedulers, SchedulerStep(s) PROVE MailStep(l)
  <2>1. ASSUME NEW j \in listed[s], Move(s, j) PROVE MailStep(l)
    <3>1. j.log \in Logs /\ j.attempt \in Attempts
      BY <2>1 DEF Job
    <3>2. doubled \subseteq doubled' /\ (j.log \notin doubled' => j \in delayed)
      BY <2>1 DEF Move
    <3>3. l = j.log => Stage(l) = "queued" /\ Asks(l) = 0
      <4> SUFFICES ASSUME l = j.log PROVE Stage(l) = "queued" /\ Asks(l) = 0
        OBVIOUS
      <4>1. j \in DelayedJobs(l) /\ l \notin doubled
        BY <3>2 DEF DelayedJobs
      <4>2. CarriedBy(l) = {}
        BY <4>1 DEF Carriage, OneCarrier
      <4>3. Recalling(l) = {}
        BY <4>2, RecalledIsLive, LiveIsOpen DEF CarriedBy
      <4> QED BY <4>1, <4>3 DEF Stage, Asks
    <3>4. delayed' \subseteq delayed /\ \A i \in delayed : i \in delayed' \/ i.log = j.log
      BY <2>1 DEF Move
    <3> QED BY <2>1, <3>1, <3>2, <3>3, <3>4, AppendMailStep DEF Move
  <2> QED BY <1>3, <1>4, <2>1 DEF SchedulerStep, SchedulerCrash, ListDue, MoveFails
<1>5. ASSUME NEW e \in Entry, NEW s \in WebhookStatus, Webhook(e, s)
      PROVE  MailStep(l)
  BY <1>4, <1>5 DEF Webhook, moverVars
<1>6. CASE UNCHANGED vars
  BY <1>4, <1>6 DEF vars, streamVars
<1> QED BY <1>1, <1>2, <1>3, <1>5, <1>6 DEF Next

LEMMA DeliveryInit ==
    ASSUME Init, NEW l \in Logs PROVE Stage(l) = "new" /\ Tries(l) = 0 /\ Asks(l) = 0
<1>1. \A e \in Entry : logOf[e] = NoLog
  BY DEF Init
<1>2. Handed(l) = {}
  BY <1>1, ConstantsAssumption DEF Handed
<1>3. Stage(l) = "new"
  BY <1>1, ConstantsAssumption DEF Init, Stage, DelayedJobs
<1> QED BY <1>2, <1>3, AskedIsQueued, FS_EmptySet DEF Tries

\* The pipeline never tries a mail more often than MaxAttempts allows, nor calls the
\* provider in one try more often than MaxRetries allows, nor does either after it
\* let go of the mail, whatever fails or crashes: see MailsDelivered and MailDelivery.
THEOREM MailsAreDelivered == Spec => MailsDelivered
<1>1. Init => Delivery!Init
  BY DeliveryInit DEF Init, Delivery!Init
<1>2. DeliveryInv /\ [Next]_vars => [Delivery!Next]_(Delivery!vars)
  <2> SUFFICES ASSUME DeliveryInv, [Next]_vars PROVE Delivery!Next
    OBVIOUS
  <2>1. doubled \subseteq doubled'
    BY DoubledGrows
  <2>2. ASSUME NEW l \in Logs \ doubled'
        PROVE  \/ Delivery!Rest(l) \/ Delivery!Enter(l) \/ Delivery!Ask(l) \/ Delivery!Try(l)
               \/ Delivery!LetGo(l)
    <3>1. MailStep(l)
      BY DeliveryStep
    <3> QED BY <3>1 DEF MailStep, RestStep, EnterStep, AskStep, TryStep, LetGoStep,
            Delivery!Rest, Delivery!Enter, Delivery!Ask, Delivery!Try, Delivery!LetGo
  <2> QED BY <2>1, <2>2 DEF Delivery!Next
<1> QED BY <1>1, <1>2, DeliveryInvInit, DeliveryInvStep, PTL
        DEF Spec, MailsDelivered, Delivery!Spec

-----------------------------------------------------------------------------
(* How often the provider is called about a mail, all tries together: a    *)
(* history variable counts the calls beside the pipeline's steps.          *)

VARIABLE total      \* the calls to the provider about the mail of each row

CallsAbout(l) ==
    \E w \in Workers : /\ RetrySend(w) \/ Send(w) \/ SendUnconfirmed(w)
                       /\ \E e \in ToSend(w) : logOf[e] = l

Counting == total' = [l \in Logs |-> IF CallsAbout(l) THEN total[l] + 1 ELSE total[l]]

CountedSpec ==
    /\ Init /\ total = [l \in Logs |-> 0]
    /\ [][Next /\ Counting]_<<vars, total>>

CalledAtMost == \A l \in Logs \ doubled : total[l] <= (MaxAttempts + 1) * (MaxRetries + 1)

\* What the calls about a mail add up to, at each of its stages.
CountInv ==
    /\ total \in [Logs -> Nat]
    /\ \A l \in Logs \ doubled :
          /\ Stage(l) = "new" => total[l] = 0 /\ Tries(l) = 0
          /\ Stage(l) = "queued" => /\ Tries(l) <= MaxAttempts
                                    /\ total[l] <= Tries(l) * (MaxRetries + 1) + Asks(l)
          /\ total[l] <= (MaxAttempts + 1) * (MaxRetries + 1)

\* With t of M tries over, a try of at most p calls stays within M * p.
LEMMA TryBudget ==
    ASSUME NEW t \in Nat, NEW M \in Nat, NEW p \in Nat, t < M
    PROVE  (t + 1) * p = t * p + p /\ t * p + p <= M * p
<1>1. (t + 1) * p = t * p + p
  BY SMTT(30)
<1>2. PICK d \in Nat : M = t + 1 + d
  <2>1. M - t - 1 \in Nat /\ M = t + 1 + (M - t - 1)
    OBVIOUS
  <2> QED BY <2>1
<1>3. (t + 1 + d) * p = (t + 1) * p + d * p /\ d * p \in Nat /\ t * p \in Nat
  BY SMTT(30)
<1> QED BY <1>1, <1>2, <1>3

LEMMA CountStep ==
    ASSUME DeliveryInv, DeliveryInv', CountInv, Next /\ Counting PROVE CountInv'
<1> DEFINE M == MaxAttempts + 1
           p == MaxRetries + 1
<1>0. M \in Nat /\ p \in Nat /\ \A l \in Logs : Tries(l) \in Nat
  BY HandedFinite, ConstantsAssumption
<1>1. total' \in [Logs -> Nat]
  BY DEF CountInv, Counting
<1>2. ASSUME NEW l \in Logs \ doubled'
      PROVE  /\ Stage(l)' = "new" => total'[l] = 0 /\ Tries(l)' = 0
             /\ Stage(l)' = "queued" => /\ Tries(l)' <= MaxAttempts
                                        /\ total'[l] <= Tries(l)' * p + Asks(l)'
             /\ total'[l] <= M * p
  <2> DEFINE t == Tries(l)
             a == Asks(l)
             c == total[l]
  <2>1. l \in Logs \ doubled
    BY DoubledGrows
  <2>2. /\ c \in Nat /\ t \in Nat /\ a \in 0..MaxRetries /\ t * p \in Nat
        /\ Stage(l) = "new" => c = 0 /\ t = 0
        /\ Stage(l) = "queued" => t < M /\ c <= t * p + a
        /\ c <= M * p
    BY <1>0, <2>1, AsksType, ConstantsAssumption DEF CountInv, DeliveryInv, CarrierInv
  <2>3. t < M => (t + 1) * p = t * p + p /\ t * p + p <= M * p
    BY <1>0, <2>2, TryBudget
  <2>4. total'[l] = IF CallsAbout(l) THEN c + 1 ELSE c
    BY DEF Counting
  <2>5. CallsAbout(l) => AskStep(l) \/ TryStep(l)
    BY <2>1, RetryMailStep, SendMailStep DEF CallsAbout
  <2>6. MailStep(l)
    BY DeliveryStep
  <2>7. a \in Nat /\ a + 1 <= p
    BY <2>2, ConstantsAssumption
  <2> DEFINE X == t * p
             Y == M * p
             c2 == total'[l]
  <2>8. X \in Nat /\ Y \in Nat /\ p \in Nat /\ (Stage(l) = "queued" => c <= X + a) /\ c <= Y
    BY <1>0, <2>2
  <2>9. t < M => (t + 1) * p = X + p /\ X + p <= Y
    BY <2>3
  <2> SUFFICES /\ Stage(l)' = "new" => c2 = 0 /\ Tries(l)' = 0
               /\ Stage(l)' = "queued" => /\ Tries(l)' <= MaxAttempts
                                          /\ c2 <= Tries(l)' * p + Asks(l)'
               /\ c2 <= Y
    OBVIOUS
  <2> HIDE DEF p, X, Y
  <2>10. CASE AskStep(l)
    <3>1. Tries(l)' * p = X
      BY <2>10 DEF AskStep, X
    <3>2. c2 \in Nat /\ c2 <= X + a + 1
      BY <2>2, <2>4, <2>7, <2>8, <2>10 DEF AskStep
    <3>3. t < M /\ X + p <= Y
      BY <2>9, <2>10 DEF AskStep
    <3>4. c2 <= Y
      BY <2>7, <2>8, <3>2, <3>3
    <3> QED BY <2>2, <2>7, <2>10, <3>1, <3>2, <3>3, <3>4, ConstantsAssumption DEF AskStep
  <2>11. CASE TryStep(l)
    <3>1. t < M /\ Tries(l)' * p = X + p
      BY <2>9, <2>11 DEF TryStep
    <3>2. c2 \in Nat /\ c2 <= X + a + 1
      BY <2>2, <2>4, <2>7, <2>8, <2>11 DEF TryStep
    <3>3. t < M /\ X + p <= Y
      BY <2>9, <2>11 DEF TryStep
    <3>4. c2 <= Y
      BY <2>7, <2>8, <3>2, <3>3
    <3> QED BY <2>2, <2>7, <2>8, <2>11, <3>1, <3>2, <3>3, <3>4, ConstantsAssumption DEF TryStep
  <2>12. CASE ~CallsAbout(l) /\ (RestStep(l) \/ LetGoStep(l))
    <3>1. Tries(l)' * p = X /\ c2 = c
      BY <2>4, <2>12 DEF RestStep, LetGoStep, X
    <3> QED BY <2>2, <2>8, <2>12, <3>1, ConstantsAssumption DEF RestStep, LetGoStep
  <2>13. CASE ~CallsAbout(l) /\ EnterStep(l)
    <3>1. c2 = 0 /\ Tries(l)' = 0 /\ Tries(l)' * p = X /\ Asks(l)' = a
      BY <2>2, <2>4, <2>13 DEF EnterStep, X
    <3> QED BY <2>2, <2>7, <2>8, <2>13, <3>1, ConstantsAssumption DEF EnterStep
  <2> QED BY <2>5, <2>6, <2>10, <2>11, <2>12, <2>13 DEF MailStep
<1> QED BY <1>0, <1>1, <1>2, ConstantsAssumption DEF CountInv

\* However the provider, the workers, the stream and the schedulers fail, the provider
\* is called about a mail at most (MaxAttempts + 1) * (MaxRetries + 1) times, unless two
\* schedulers moved one of its jobs: withRetry makes MaxRetries + 1 calls of a try.
THEOREM CallsBounded == CountedSpec => []CalledAtMost
<1> DEFINE Inv == DeliveryInv /\ CountInv
<1>1. Init /\ total = [l \in Logs |-> 0] => Inv
  <2> SUFFICES ASSUME Init, total = [l \in Logs |-> 0] PROVE CountInv
    BY DeliveryInvInit
  <2>1. 0 <= (MaxAttempts + 1) * (MaxRetries + 1)
    BY ConstantsAssumption
  <2>2. \A l \in Logs : total[l] = 0 /\ Stage(l) = "new" /\ Tries(l) = 0
    BY DeliveryInit
  <2> QED BY <2>1, <2>2 DEF CountInv
<1>2. Inv /\ [Next /\ Counting]_<<vars, total>> => Inv'
  <2>1. ASSUME Inv, UNCHANGED <<vars, total>> PROVE Inv'
    <3>1. DeliveryInv'
      BY <2>1, DeliveryInvStep
    <3>2. \A l \in Logs : Stage(l)' = Stage(l) /\ Tries(l)' = Tries(l) /\ Asks(l)' = Asks(l)
      BY <2>1 DEF vars, Stage, Tries, Asks, Handed, Tried, Live, Orphaned, Exhausted,
         DelayedJobs, Recalling, ToSend, Unsent, Held, First
    <3> QED BY <2>1, <3>1, <3>2 DEF CountInv, vars
  <2>2. ASSUME Inv, Next /\ Counting PROVE Inv'
    BY <2>2, DeliveryInvStep, CountStep
  <2> QED BY <2>1, <2>2
<1>3. Inv => CalledAtMost
  BY DEF CountInv, CalledAtMost
<1> QED BY <1>1, <1>2, <1>3, PTL DEF CountedSpec

\* With one API replica the bound holds of every mail.
THEOREM OneReplicaCallsBounded ==
    ASSUME SingleScheduler
    PROVE  CountedSpec => [](\A l \in Logs : total[l] <= (MaxAttempts + 1) * (MaxRetries + 1))
<1>1. CalledAtMost /\ doubled = {} =>
          \A l \in Logs : total[l] <= (MaxAttempts + 1) * (MaxRetries + 1)
  BY DEF CalledAtMost
<1>2. [Next /\ Counting]_<<vars, total>> => [Next]_vars
  OBVIOUS
<1>3. CountedSpec => Spec
  BY <1>2, PTL DEF CountedSpec, Spec
<1> QED BY <1>1, <1>3, CallsBounded, OneReplicaMovesOnce, PTL

-----------------------------------------------------------------------------
(* Receipts and delivery reports.                                          *)

Sent(l) == status[l] \in {"sent"} \cup Reported

\* A row that is marked sent, or names a receipt, has nothing left to carry it,
\* unless two schedulers moved one of its jobs.
SentIsClosed ==
    \A l \in Logs \ doubled : Sent(l) \/ pmid[l] # NoEntry =>
        /\ CarriedBy(l) = {} /\ DelayedJobs(l) = {}

\* The first attempt of a row is not sent before the row's XADD was tried.
SentIsEnqueued ==
    \A l \in Logs : Sent(l) \/ pmid[l] # NoEntry => producer[l] \notin {"idle", "logged"}

ReceiptInv == CarrierInv /\ AccountInv /\ ReceiptIsOwn /\ SentIsClosed /\ SentIsEnqueued
ReceiptGoal == ReceiptIsOwn /\ SentIsClosed /\ SentIsEnqueued

\* A step that writes no row, appends nothing and only re-schedules rows that are
\* still open keeps the receipts.
LEMMA ReceiptFrame ==
    ASSUME ReceiptInv, UNCHANGED <<logVars, logOf, producer, doubled>>, taken \subseteq taken',
           \A e \in Entry : Open(e)' => Open(e),
           \A j \in delayed' : j \in delayed \/ \E e \in Entry : Open(e) /\ logOf[e] = j.log
    PROVE  ReceiptGoal'
<1>1. ReceiptIsOwn'
  BY DEF ReceiptInv, ReceiptIsOwn, logVars
<1>2. \A l \in Logs : CarriedBy(l)' \subseteq CarriedBy(l)
  BY DEF CarriedBy
<1>3. \A l \in Logs : CarriedBy(l) = {} /\ DelayedJobs(l) = {} => DelayedJobs(l)' = {}
  BY DEF CarriedBy, DelayedJobs
<1>4. SentIsClosed' /\ SentIsEnqueued'
  BY <1>2, <1>3 DEF ReceiptInv, SentIsClosed, SentIsEnqueued, Sent, logVars
<1> QED BY <1>1, <1>4 DEF ReceiptGoal

\* Appending a job keeps the receipts, if its row is not marked sent or doubled.
LEMMA ReceiptAppend ==
    ASSUME ReceiptInv, NEW l \in Logs, NEW a, Append(l, a),
           l \notin doubled' => ~Sent(l) /\ pmid[l] = NoEntry,
           UNCHANGED <<logVars, taken>>, delayed' \subseteq delayed, doubled \subseteq doubled',
           \A m \in Logs : producer'[m] = producer[m] \/ producer'[m] \notin {"idle", "logged"}
    PROVE  ReceiptGoal'
<1>1. next \in Entry /\ logOf[next] = NoLog
  BY ConstantsAssumption DEF Append, ReceiptInv, CarrierInv, TypeInv, TypeOK, StreamShape, Entry
<1>2. ReceiptIsOwn'
  BY <1>1, ConstantsAssumption
  DEF ReceiptInv, ReceiptIsOwn, logVars, Append, CarrierInv, TypeInv, TypeOK
<1>3. \A m \in Logs : m # l => CarriedBy(m)' \subseteq CarriedBy(m)
                               /\ DelayedJobs(m)' \subseteq DelayedJobs(m)
  BY <1>1 DEF CarriedBy, DelayedJobs, Open, Orphaned, Append, ReceiptInv, CarrierInv, TypeInv, TypeOK
<1>4. SentIsClosed' /\ SentIsEnqueued'
  BY <1>3 DEF ReceiptInv, SentIsClosed, SentIsEnqueued, Sent, logVars
<1> QED BY <1>2, <1>4 DEF ReceiptGoal

\* Clearing the receipt of a row as it is marked queued or failed keeps the rest.
LEMMA ReceiptClear ==
    ASSUME ReceiptInv, NEW l \in Logs, NEW s \in {"queued", "failed"},
           UpdateEmailLogStatus(l, s, NoEntry), UNCHANGED <<logOf, taken, delayed, doubled>>,
           \A m \in Logs : m # l => producer'[m] = producer[m],
           \A e \in Entry : Open(e)' => Open(e)
    PROVE  ReceiptGoal'
<1>1. /\ status'[l] = s /\ pmid'[l] = NoEntry
      /\ \A m \in Logs : m # l => status'[m] = status[m] /\ pmid'[m] = pmid[m]
  BY DEF UpdateEmailLogStatus, ReceiptInv, CarrierInv, TypeInv, TypeOK
<1>2. ReceiptIsOwn'
  BY <1>1 DEF ReceiptInv, ReceiptIsOwn, Reported
<1>3. \A m \in Logs : CarriedBy(m)' \subseteq CarriedBy(m) /\ DelayedJobs(m)' = DelayedJobs(m)
  BY DEF CarriedBy, DelayedJobs
<1>4. SentIsClosed' /\ SentIsEnqueued'
  BY <1>1, <1>3 DEF ReceiptInv, SentIsClosed, SentIsEnqueued, Sent, Reported
<1> QED BY <1>2, <1>4 DEF ReceiptGoal

\* The current entry of a worker is open until its handler reaches the XACK.
LEMMA CurrentIsOpen ==
    ASSUME ReceiptInv, NEW w \in Workers, NEW e, Current(w, e), phase[e] # "ack"
    PROVE  /\ e \in Entry /\ Open(e) /\ logOf[e] \in Logs /\ owner[e] = w
           /\ producer[logOf[e]] \notin {"idle", "logged"}
           /\ logOf[e] \notin doubled =>
                 /\ CarriedBy(logOf[e]) = {e} /\ DelayedJobs(logOf[e]) = {}
                 /\ ~Sent(logOf[e]) /\ pmid[logOf[e]] = NoEntry
<1>1. e \in Entry /\ Open(e) /\ logOf[e] \in Logs /\ owner[e] = w
  BY CurrentFacts, ConstantsAssumption DEF ReceiptInv, CarrierInv, Open, Orphaned, Pending, Handling
<1>2. e \in CarriedBy(logOf[e])
  BY <1>1 DEF CarriedBy
<1>3. logOf[e] \notin doubled => CarriedBy(logOf[e]) = {e} /\ DelayedJobs(logOf[e]) = {}
  BY <1>1, <1>2 DEF ReceiptInv, CarrierInv, Carriage, OneCarrier, CarriedBy
<1>4. producer[logOf[e]] \notin {"idle", "logged"}
  BY <1>1 DEF ReceiptInv, CarrierInv, NotYetEnqueued
<1>5. logOf[e] \notin doubled => ~Sent(logOf[e]) /\ pmid[logOf[e]] = NoEntry
  BY <1>1, <1>2 DEF ReceiptInv, SentIsClosed
<1> QED BY <1>1, <1>3, <1>4, <1>5

LEMMA ReceiptStep == ReceiptInv /\ [Next]_vars => ReceiptInv'
<1> SUFFICES ASSUME ReceiptInv, [Next]_vars PROVE ReceiptGoal'
  BY CarrierStep, AccountStep DEF ReceiptInv, ReceiptGoal
<1>1. ASSUME NEW l \in Logs, ProducerStep(l) PROVE ReceiptGoal'
  <2>1. \A m \in Logs : m # l => producer'[m] = producer[m]
    BY <1>1 DEF ProducerStep, CreateEmailLog, Enqueue, EnqueueFails, MarkEnqueueFailed,
                ProducerCrash, ReceiptInv, CarrierInv, TypeInv, TypeOK
  <2>0. UNCHANGED doubled
    BY <1>1 DEF ProducerStep, CreateEmailLog, Enqueue, EnqueueFails, MarkEnqueueFailed,
                ProducerCrash, moverVars
  <2>2. CASE CreateEmailLog(l) \/ MarkEnqueueFailed(l)
    <3>1. \A e \in Entry : Open(e)' => Open(e)
      BY <2>2 DEF CreateEmailLog, MarkEnqueueFailed, streamVars, Open, Orphaned
    <3> QED BY <2>0, <2>1, <2>2, <3>1, ReceiptClear DEF CreateEmailLog, MarkEnqueueFailed, streamVars
  <2>3. CASE /\ Append(l, 0) /\ producer[l] = "logged" /\ UNCHANGED <<logVars, taken, delayed>>
             /\ producer' \in {[producer EXCEPT ![l] = "done"], [producer EXCEPT ![l] = "rejected"]}
    <3>1. ~Sent(l) /\ pmid[l] = NoEntry
      BY <2>3 DEF ReceiptInv, SentIsEnqueued
    <3>2. \A m \in Logs : producer'[m] = producer[m] \/ producer'[m] \notin {"idle", "logged"}
      BY <2>3 DEF ReceiptInv, CarrierInv, TypeInv, TypeOK
    <3> QED BY <2>0, <2>3, <3>1, <3>2, ReceiptAppend
  <2>4. CASE /\ UNCHANGED <<logVars, streamVars, taken, delayed>>
             /\ producer' \in {[producer EXCEPT ![l] = "done"], [producer EXCEPT ![l] = "rejected"]}
    <3>1. /\ ReceiptIsOwn'
          /\ \A m \in Logs : CarriedBy(m)' = CarriedBy(m) /\ DelayedJobs(m)' = DelayedJobs(m)
      BY <2>4 DEF ReceiptInv, ReceiptIsOwn, logVars, streamVars, CarriedBy, DelayedJobs, Open, Orphaned
    <3>2. \A m \in Logs : producer'[m] = producer[m] \/ producer'[m] \in {"done", "rejected"}
      BY <2>1, <2>4 DEF ReceiptInv, CarrierInv, TypeInv, TypeOK
    <3> QED BY <2>0, <2>4, <3>1, <3>2
            DEF ReceiptInv, ReceiptGoal, SentIsClosed, SentIsEnqueued, Sent, logVars
  <2> QED BY <1>1, <2>2, <2>3, <2>4 DEF ProducerStep, Enqueue, EnqueueFails, ProducerCrash
<1>2. ASSUME NEW w \in Workers, WorkerStep(w) PROVE ReceiptGoal'
  <2> USE DEF ReceiptInv, CarrierInv
  <2>1. CASE Start(w) \/ StartFails(w) \/ RetrySend(w) \/ Crash(w)
    <3>1. \A e \in Entry : Open(e)' => Open(e)
      BY <2>1 DEF Start, StartFails, RetrySend, Crash, streamVars, Open, Orphaned, TypeInv, TypeOK
    <3>2. taken \subseteq taken'
      BY <2>1 DEF Start, StartFails, RetrySend, Crash
    <3> QED BY <2>1, <3>1, <3>2, ReceiptFrame
            DEF Start, StartFails, RetrySend, Crash, streamVars, moverVars
  <2>2. CASE DequeueBatch(w) \/ DequeueFails(w)
    <3>1. \A e \in Entry : Open(e)' => Open(e)
      BY <2>2 DEF DequeueBatch, DequeueFails, Waiting, Open, Orphaned, Pending, Handling,
                  TypeInv, TypeOK
    <3> QED BY <2>2, <3>1, ReceiptFrame DEF DequeueBatch, DequeueFails, moverVars
  <2>3. CASE Send(w) \/ SendUnconfirmed(w)
    <3> PICK ok \in SUBSET ToSend(w) : Outcome(ToSend(w), ok)
      BY <2>3 DEF Send, SendUnconfirmed
    <3>1. UNCHANGED <<logVars, producer, logOf, delayed, doubled, owner>> /\ taken \subseteq taken'
      BY <2>3 DEF Send, SendUnconfirmed, moverVars
    <3>2. \A e \in Entry : Open(e)' => Open(e)
      BY <3>1, OutcomeType DEF Open, Orphaned, Pending, Handling
    <3> QED BY <3>1, <3>2, ReceiptFrame
  <2>4. ASSUME NEW e \in Entry, HandlerStep(w, e) PROVE ReceiptGoal'
    <3>1. Current(w, e) /\ UNCHANGED <<producer, logOf, taken, doubled>>
      BY <2>4 DEF HandlerStep, MarkSent, HandleFailure, UpdateFails, RequeueAfter, DeadLetter,
                  Ack, RedisFails, Handle, moverVars
    <3>2. owner[e] = w /\ w # NoWorker
      BY <3>1, CurrentFacts, ConstantsAssumption
    <3>3. \A f \in Entry : Open(f)' => Open(f)
      BY <2>4, <3>2 DEF HandlerStep, MarkSent, HandleFailure, UpdateFails, RequeueAfter,
         DeadLetter, Ack, RedisFails, Handle, Open, Orphaned, Pending, Handling, TypeInv, TypeOK
    <3>4. CASE MarkSent(w, e)
      <4>1. /\ Open(e) /\ logOf[e] \in Logs /\ e \in taken /\ e # NoEntry
            /\ producer[logOf[e]] \notin {"idle", "logged"}
            /\ logOf[e] \notin doubled => CarriedBy(logOf[e]) = {e} /\ DelayedJobs(logOf[e]) = {}
        BY <3>1, <3>4, CurrentIsOpen, ConstantsAssumption
        DEF MarkSent, Handle, AccountInv, AcceptedIsTaken, Entry, NoEntry
      <4>2. ~Open(e)' /\ UNCHANGED delayed
        BY <3>4 DEF MarkSent, Handle, Open, Pending, Handling, TypeInv, TypeOK
      <4>3. /\ status'[logOf[e]] = "sent" /\ pmid'[logOf[e]] = e
            /\ \A m \in Logs : m # logOf[e] => status'[m] = status[m] /\ pmid'[m] = pmid[m]
        BY <3>4, <4>1 DEF MarkSent, UpdateEmailLogStatus, TypeInv, TypeOK
      <4>4. ReceiptIsOwn'
        BY <3>1, <4>1, <4>3 DEF ReceiptIsOwn
      <4>5. \A m \in Logs : CarriedBy(m)' \subseteq CarriedBy(m) /\ DelayedJobs(m)' = DelayedJobs(m)
        BY <3>1, <3>3, <4>2 DEF CarriedBy, DelayedJobs
      <4>6. logOf[e] \notin doubled => CarriedBy(logOf[e])' = {}
        BY <3>1, <4>1, <4>2, <4>5 DEF CarriedBy
      <4>7. SentIsClosed'
        BY <3>1, <4>1, <4>3, <4>5, <4>6 DEF SentIsClosed, Sent
      <4>8. SentIsEnqueued'
        BY <3>1, <4>1, <4>3 DEF SentIsEnqueued, Sent
      <4> QED BY <4>4, <4>7, <4>8 DEF ReceiptGoal
    <3>5. CASE HandleFailure(w, e)
      <4>1. logOf[e] \in Logs
        BY <3>1, CurrentFacts
      <4> QED BY <3>1, <3>3, <3>5, <4>1, ReceiptClear DEF HandleFailure
    <3>6. CASE UpdateFails(w, e) \/ DeadLetter(w, e) \/ Ack(w, e)
      BY <3>1, <3>3, <3>6, ReceiptFrame DEF UpdateFails, DeadLetter, Ack
    <3>7. CASE RequeueAfter(w, e) \/ RedisFails(w, e)
      <4>1. UNCHANGED logVars
        BY <3>7 DEF RequeueAfter, RedisFails
      <4>2. ASSUME NEW j \in delayed', j \notin delayed
            PROVE  Open(e) /\ logOf[e] = j.log
        <5>1. phase[e] = "requeue" /\ j = Retried(e)
          BY <3>7, <4>2 DEF RequeueAfter, RedisFails, Handle
        <5> QED BY <3>1, <5>1, CurrentIsOpen DEF Retried
      <4> QED BY <3>1, <3>3, <4>1, <4>2, ReceiptFrame
    <3> QED BY <2>4, <3>4, <3>5, <3>6, <3>7 DEF HandlerStep
  <2> QED BY <1>2, <2>1, <2>2, <2>3, <2>4 DEF WorkerStep
<1>3. ASSUME NEW s \in Schedulers, SchedulerStep(s) PROVE ReceiptGoal'
  <2>1. ASSUME NEW j \in listed[s], Move(s, j) PROVE ReceiptGoal'
    <3>1. j.log \in Logs
      BY <2>1 DEF ReceiptInv, CarrierInv, TypeInv, TypeOK, Job
    <3>2. doubled \subseteq doubled' /\ delayed' \subseteq delayed
      BY <2>1 DEF Move
    <3>3. j.log \notin doubled' => j \in DelayedJobs(j.log)
      BY <2>1 DEF Move, DelayedJobs
    <3>4. j.log \notin doubled' => ~Sent(j.log) /\ pmid[j.log] = NoEntry
      BY <3>1, <3>2, <3>3 DEF ReceiptInv, SentIsClosed
    <3> QED BY <2>1, <3>1, <3>2, <3>4, ReceiptAppend DEF Move
  <2>2. CASE UNCHANGED <<logVars, producer, streamVars, delayed, doubled, taken>>
    BY <2>2, ReceiptFrame DEF streamVars, Open, Orphaned
  <2> QED BY <1>3, <2>1, <2>2 DEF SchedulerStep, SchedulerCrash, ListDue, MoveFails
<1>4. ASSUME NEW e \in Entry, NEW s \in WebhookStatus, Webhook(e, s)
      PROVE  ReceiptGoal'
  <2>1. /\ UNCHANGED <<pmid, producer, logOf, taken, doubled>>
        /\ \A l \in Logs : CarriedBy(l)' = CarriedBy(l) /\ DelayedJobs(l)' = DelayedJobs(l)
    BY <1>4 DEF Webhook, streamVars, moverVars, CarriedBy, DelayedJobs, Open, Orphaned
  <2>2. \A l \in Logs : status'[l] = status[l] \/ pmid[l] # NoEntry
    BY <1>4, ConstantsAssumption DEF Webhook, Entry, NoEntry
  <2> QED BY <2>1, <2>2
          DEF ReceiptInv, ReceiptGoal, ReceiptIsOwn, SentIsClosed, SentIsEnqueued, Sent
<1>5. CASE UNCHANGED vars
  BY <1>5, ReceiptFrame DEF vars, logVars, Open, Orphaned
<1> QED BY <1>1, <1>2, <1>3, <1>4, <1>5 DEF Next

LEMMA ReceiptInit == Init => ReceiptInv
<1> SUFFICES ASSUME Init PROVE ReceiptInv
  OBVIOUS
<1>1. \A e \in Entry : logOf[e] = NoLog /\ phase[e] = "unused"
  BY DEF Init
<1>2. AccountInv
  BY <1>1, TypeInit, ConstantsAssumption DEF AccountInv, AcceptedIsTaken, Accounted
<1>3. \A l \in Logs : status[l] = "none" /\ pmid[l] = NoEntry
  BY DEF Init
<1> QED BY <1>2, <1>3, CarrierInit
        DEF ReceiptInv, ReceiptIsOwn, SentIsClosed, SentIsEnqueued, Sent, Reported

\* The provider message a row names is an accepted mail of that very row, for
\* any number of schedulers and whatever they double: see ReceiptIsOwn.
THEOREM ReceiptsMatch == Spec => []ReceiptIsOwn
<1>1. ReceiptInv => ReceiptIsOwn
  BY DEF ReceiptInv
<1> QED BY <1>1, ReceiptInit, ReceiptStep, PTL DEF Spec

\* No worker overwrites a delivery report, see ReportKept.
THEOREM ReportsKept == Spec => ReportKept
<1> DEFINE Kept == \A l \in Logs \ doubled : status[l] \in Reported /\ pmid'[l] # pmid[l]
                                     => producer[l] = "rejected"
<1>1. ReceiptInv /\ [Next]_vars => Kept
  <2> SUFFICES ASSUME ReceiptInv, [Next]_vars, NEW l \in Logs \ doubled,
                      status[l] \in Reported, pmid'[l] # pmid[l]
               PROVE  producer[l] = "rejected"
    OBVIOUS
  <2>1. producer[l] \notin {"idle", "logged"}
    BY DEF ReceiptInv, SentIsEnqueued, Sent
  <2>2. ASSUME NEW m \in Logs, ProducerStep(m) PROVE producer[l] = "rejected"
    BY <2>1, <2>2 DEF ProducerStep, CreateEmailLog, Enqueue, EnqueueFails, MarkEnqueueFailed,
       ProducerCrash, logVars, UpdateEmailLogStatus, ReceiptInv, CarrierInv, TypeInv, TypeOK
  <2>3. ASSUME NEW w \in Workers, NEW e \in Entry, MarkSent(w, e) \/ HandleFailure(w, e)
        PROVE  FALSE
    <3>1. Current(w, e) /\ phase[e] # "ack"
      BY <2>3 DEF MarkSent, HandleFailure, Handle
    <3>2. pmid' = [pmid EXCEPT ![logOf[e]] = IF MarkSent(w, e) THEN e ELSE NoEntry]
      BY <2>3 DEF MarkSent, HandleFailure, UpdateEmailLogStatus, Handle
    <3>3. l = logOf[e]
      BY <3>2 DEF ReceiptInv, CarrierInv, TypeInv, TypeOK
    <3> QED BY <3>1, <3>3, CurrentIsOpen DEF Sent
  <2>4. ASSUME NEW w \in Workers, WorkerStep(w) PROVE FALSE
    BY <2>3, <2>4 DEF WorkerStep, HandlerStep, Start, StartFails, DequeueBatch, DequeueFails,
       RetrySend, Send, SendUnconfirmed, Crash, UpdateFails, RequeueAfter, DeadLetter, Ack, RedisFails, logVars
  <2>5. ASSUME NEW s \in Schedulers, SchedulerStep(s) PROVE FALSE
    BY <2>5 DEF SchedulerStep, SchedulerCrash, ListDue, Move, MoveFails, logVars
  <2>6. ASSUME NEW e \in Entry, NEW s \in WebhookStatus, Webhook(e, s) PROVE FALSE
    BY <2>6 DEF Webhook
  <2>7. CASE UNCHANGED vars
    BY <2>7 DEF vars
  <2> QED BY <2>2, <2>4, <2>5, <2>6, <2>7 DEF Next
<1>2. ReceiptInv /\ [Next]_vars => [Kept]_vars
  BY <1>1
<1> QED BY <1>2, ReceiptInit, ReceiptStep, PTL DEF Spec, ReportKept

-----------------------------------------------------------------------------
(* While nothing has failed: every mail the queue lets go of was answered, *)
(* by the provider that took it or by one that refused its last attempt.   *)

Answered(l) == \E e \in Handed(l) : e \in taken \/ Exhausted(e)

\* Until the first worker has started there is nothing to carry.
Begun ==
    \/ group
    \/ /\ next = 1 /\ delayed = {}
       /\ \A w \in Workers : pool[w] = "down"
       /\ \A l \in Logs : producer[l] = "idle"
       /\ \A s \in Schedulers : listed[s] = {}

NoneLost == \A e \in Entry : phase[e] # "skipped" /\ ~Orphaned(e)

OverIsAnswered == \A l \in Logs : Stage(l) = "over" => Answered(l)

Healthy == Begun /\ NoneLost /\ OverIsAnswered

\* A step that appends nothing answers what it lets go of.
LEMMA AnswersKept ==
    ASSUME UNCHANGED <<logOf, attempt>>, taken \subseteq taken', delayed \subseteq delayed',
           \A e \in Entry : Tried(e) => Tried(e)',
           \A e \in Entry : Live(e) =>
               \/ Live(e)'
               \/ Tried(e)' /\ (e \in taken' \/ Exhausted(e))
               \/ \E j \in delayed' : j.log = logOf[e],
           OverIsAnswered
    PROVE  OverIsAnswered'
<1> SUFFICES ASSUME NEW l \in Logs, Stage(l)' = "over" PROVE Answered(l)'
  BY DEF OverIsAnswered
<1>1. /\ \E e \in Entry : logOf[e] = l
      /\ DelayedJobs(l)' = {}
      /\ \A e \in Entry : logOf[e] = l => ~Live(e)'
  BY DEF Stage
<1>2. DelayedJobs(l) = {} /\ \A j \in delayed' : j.log # l
  BY <1>1 DEF DelayedJobs
<1>3. ASSUME NEW e \in Entry, logOf[e] = l, Tried(e)', e \in taken' \/ Exhausted(e)
      PROVE  Answered(l)'
  BY <1>3 DEF Answered, Handed, Exhausted
<1>4. CASE \E e \in Entry : logOf[e] = l /\ Live(e)
  BY <1>1, <1>2, <1>3, <1>4
<1>5. CASE ~\E e \in Entry : logOf[e] = l /\ Live(e)
  <2>1. Stage(l) = "over"
    BY <1>1, <1>2, <1>5 DEF Stage
  <2>2. PICK e \in Entry : logOf[e] = l /\ Tried(e) /\ (e \in taken \/ Exhausted(e))
    BY <2>1 DEF OverIsAnswered, Answered, Handed
  <2> QED BY <1>3, <2>2
<1> QED BY <1>4, <1>5

\* An appended job is read by the group.
LEMMA AnswersAppend ==
    ASSUME TypeInv, NEW k \in Logs, NEW a \in Attempts, Append(k, a), group,
           UNCHANGED taken, \A j \in delayed : j \in delayed' \/ j.log = k,
           NoneLost, OverIsAnswered
    PROVE  NoneLost' /\ OverIsAnswered'
<1> PICK n : n = next
  OBVIOUS
<1>1. /\ n \in Entry /\ logOf[n] = NoLog /\ logOf'[n] = k /\ phase'[n] = "waiting"
      /\ \A e \in Entry : e # n => /\ UNCHANGED <<logOf[e], attempt[e], phase[e], owner[e]>>
  BY ConstantsAssumption DEF Append, TypeInv, TypeOK, StreamShape, Entry
<1>2. Live(n)'
  BY <1>1 DEF Live, Orphaned, Pending, Handling
<1>3. NoneLost'
  BY <1>1 DEF NoneLost, Orphaned, Pending, Handling
<1>4. ASSUME NEW l \in Logs, Stage(l)' = "over" PROVE Answered(l)'
  <2>1. l # k
    BY <1>1, <1>2, <1>4 DEF Stage
  <2>2. \A e \in Entry : logOf'[e] = l => e # n
    BY <1>1, <2>1
  <2>3. /\ \E e \in Entry : logOf[e] = l
        /\ DelayedJobs(l) = {}
        /\ \A e \in Entry : logOf[e] = l => ~Live(e)
    BY <1>1, <1>4, <2>1, <2>2, ConstantsAssumption
    DEF Stage, DelayedJobs, Live, Orphaned, Exhausted
  <2>4. PICK e \in Entry : logOf[e] = l /\ Tried(e) /\ (e \in taken \/ Exhausted(e))
    BY <2>3 DEF Stage, OverIsAnswered, Answered, Handed
  <2>5. e # n
    BY <1>1, <2>4, ConstantsAssumption
  <2> QED BY <1>1, <2>4, <2>5 DEF Answered, Handed, Tried, Exhausted
<1> QED BY <1>3, <1>4 DEF OverIsAnswered

LEMMA HealthyStep ==
    ASSUME TypeInv, AcceptedIsTaken, faults = 0 => Healthy, [Next]_vars, faults' = 0
    PROVE  Healthy'
<1> USE DEF TypeInv, TypeOK
<1>1. /\ faults = 0 /\ Healthy
      /\ ~Fault
  BY ConstantsAssumption DEF Next, ProducerStep, CreateEmailLog, Enqueue, EnqueueFails,
     MarkEnqueueFailed, ProducerCrash, WorkerStep, Start, StartFails, DequeueBatch, DequeueFails,
     RetrySend, Send, SendUnconfirmed, Crash, HandlerStep, MarkSent, HandleFailure, UpdateFails,
     RequeueAfter, DeadLetter, Ack, RedisFails, Handle, SchedulerStep, SchedulerCrash, ListDue,
     Move, MoveFails, Webhook, Fault, vars
<1> USE <1>1
<1>2. ASSUME NEW k \in Logs, ProducerStep(k) PROVE Healthy'
  <2>1. CASE CreateEmailLog(k)
    <3>1. group /\ group'
      BY <2>1 DEF CreateEmailLog, Healthy, Begun
    <3> QED BY <2>1, <3>1, AnswersKept
        DEF CreateEmailLog, Healthy, Begun, NoneLost, streamVars, Tried, Live, Orphaned, Exhausted
  <2>2. CASE Enqueue(k)
    <3>1. group /\ group' /\ 0 \in Attempts
      BY <2>2, ConstantsAssumption DEF Enqueue, Healthy, Begun, Attempts
    <3> QED BY <2>2, <3>1, AnswersAppend DEF Enqueue, Healthy, Begun
  <2>3. CASE MarkEnqueueFailed(k)
    <3>1. group /\ group'
      BY <2>3 DEF MarkEnqueueFailed, Healthy, Begun
    <3> QED BY <2>3, <3>1, AnswersKept
        DEF MarkEnqueueFailed, Healthy, Begun, NoneLost, streamVars, Tried, Live, Orphaned,
            Exhausted
  <2> QED BY <1>2, <2>1, <2>2, <2>3 DEF ProducerStep, EnqueueFails, ProducerCrash
<1>3. ASSUME NEW w \in Workers, WorkerStep(w) PROVE Healthy'
  <2>1. CASE Start(w)
    BY <2>1, AnswersKept
    DEF Start, Healthy, Begun, NoneLost, streamVars, Tried, Live, Orphaned, Exhausted
  <2>2. CASE DequeueBatch(w)
    <3>1. group /\ group'
      BY <2>2 DEF DequeueBatch, Healthy, Begun
    <3>2. \A e \in Entry : \/ UNCHANGED <<phase[e], owner[e]>>
                           \/ phase[e] = "waiting" /\ phase'[e] = "read" /\ owner'[e] = w
      BY <2>2 DEF DequeueBatch, Waiting
    <3>3. NoneLost'
      BY <3>2, ConstantsAssumption DEF Healthy, NoneLost, Orphaned
    <3>4. \A e \in Entry : (Tried(e) => Tried(e)') /\ (Live(e) => Live(e)')
      BY <2>2, <3>2, ConstantsAssumption
      DEF DequeueBatch, Tried, Live, Orphaned, Exhausted, Handling
    <3> QED BY <2>2, <3>1, <3>3, <3>4, AnswersKept DEF DequeueBatch, Healthy, Begun
  <2>3. CASE Send(w)
    <3>1. group /\ group'
      BY <2>3 DEF Send, Healthy, Begun
    <3>2. PICK ok \in SUBSET ToSend(w) : Outcome(ToSend(w), ok) /\ taken' = taken \cup ok
      BY <2>3 DEF Send
    <3>3. \A e \in Entry : \/ phase'[e] = phase[e]
                           \/ phase[e] = "read" /\ phase'[e] = "accepted" /\ e \in taken'
                           \/ phase[e] = "read" /\ phase'[e] = "refused"
      BY <3>2, OutcomeType
    <3>4. NoneLost'
      BY <2>3, <3>3 DEF Send, Healthy, NoneLost, Orphaned, Pending, Handling
    <3>5. \A e \in Entry : /\ Tried(e) => Tried(e)'
                           /\ Live(e) => Live(e)' \/ (Tried(e)' /\ (e \in taken' \/ Exhausted(e)))
      BY <2>3, <3>3 DEF Send, Tried, Live, Orphaned, Exhausted, Pending, Handling
    <3> QED BY <2>3, <3>1, <3>2, <3>4, <3>5, AnswersKept DEF Send, Healthy, Begun
  <2>5. CASE RetrySend(w)
    <3>1. /\ UNCHANGED <<streamVars, producer, delayed, listed, pool, group>>
          /\ taken \subseteq taken'
      BY <2>5 DEF RetrySend, moverVars
    <3> QED BY <3>1, AnswersKept
        DEF Healthy, Begun, NoneLost, streamVars, Tried, Live, Orphaned, Exhausted
  <2>4. ASSUME NEW e \in Entry, HandlerStep(w, e) PROVE Healthy'
    <3>1. /\ Current(w, e) /\ owner[e] = w /\ w # NoWorker /\ phase[e] \in Handling
          /\ UNCHANGED <<logOf, attempt, owner, taken, next>>
      BY <2>4, CurrentFacts, ConstantsAssumption
      DEF HandlerStep, MarkSent, HandleFailure, UpdateFails, RequeueAfter, DeadLetter, Ack,
          RedisFails, Handle
    <3>2. e < next
      BY <3>1, CurrentFacts
    <3>3. group /\ group'
      BY <2>4, <3>2 DEF Healthy, Begun, Entry, HandlerStep, MarkSent, HandleFailure, UpdateFails,
                  RequeueAfter, DeadLetter, Ack, RedisFails, Handle
    <3>4. \A f \in Entry : f # e => phase'[f] = phase[f]
      BY <2>4 DEF HandlerStep, MarkSent, HandleFailure, UpdateFails, RequeueAfter, DeadLetter,
                  Ack, RedisFails, Handle
    <3>5. /\ delayed \subseteq delayed'
          /\ phase'[e] \in Handling \cup {"acked"}
          /\ Live(e) => \/ Live(e)' \/ e \in taken' \/ Exhausted(e)
                        \/ \E j \in delayed' : j.log = logOf[e]
      <4> DEFINE Goal == /\ delayed \subseteq delayed'
                         /\ phase'[e] \in Handling \cup {"acked"}
                         /\ Live(e) => \/ Live(e)' \/ e \in taken' \/ Exhausted(e)
                                       \/ \E j \in delayed' : j.log = logOf[e]
      <4>1. CASE MarkSent(w, e) \/ DeadLetter(w, e) \/ Ack(w, e)
        BY <3>1, <4>1 DEF MarkSent, DeadLetter, Ack, Handle, Live, Handling
      <4>2. CASE HandleFailure(w, e)
        BY <3>1, <4>2, ConstantsAssumption
        DEF HandleFailure, Handle, Live, Orphaned, Exhausted, Handling
      <4>3. CASE RequeueAfter(w, e)
        <5>1. Retried(e) \in delayed' /\ Retried(e).log = logOf[e]
          BY <4>3 DEF RequeueAfter, Retried
        <5>2. delayed \subseteq delayed' /\ phase'[e] = "ack"
          BY <3>1, <4>3 DEF RequeueAfter, Handle
        <5> QED BY <5>1, <5>2 DEF Handling
      <4> QED BY <2>4, <4>1, <4>2, <4>3 DEF HandlerStep, UpdateFails, RedisFails
    <3>6. \A f \in Entry : /\ Tried(f) => Tried(f)'
                           /\ f # e => (Live(f) => Live(f)')
      BY <3>1, <3>4, <3>5 DEF Tried, Live, Orphaned, Exhausted, Pending
    <3>7. NoneLost'
      BY <3>1, <3>4, <3>5 DEF Healthy, NoneLost, Orphaned, Handling
    <3>8. Tried(e)'
      BY <3>5 DEF Tried
    <3> QED BY <3>1, <3>3, <3>5, <3>6, <3>7, <3>8, AnswersKept DEF Healthy, Begun
  <2> QED BY <1>3, <2>1, <2>2, <2>3, <2>4, <2>5
      DEF WorkerStep, StartFails, DequeueFails, SendUnconfirmed, Crash
<1>4. ASSUME NEW s \in Schedulers, SchedulerStep(s) PROVE Healthy'
  <2>1. ASSUME NEW due \in SUBSET delayed, ListDue(s, due) PROVE Healthy'
    <3>1. group /\ group'
      BY <2>1 DEF ListDue, Healthy, Begun
    <3> QED BY <2>1, <3>1, AnswersKept
        DEF ListDue, Healthy, Begun, NoneLost, streamVars, Tried, Live, Orphaned, Exhausted
  <2>2. ASSUME NEW j \in listed[s], Move(s, j) PROVE Healthy'
    <3>1. group /\ group' /\ j.log \in Logs /\ j.attempt \in Attempts
      BY <2>2 DEF Move, Healthy, Begun, Job
    <3>2. \A i \in delayed : i \in delayed' \/ i.log = j.log
      BY <2>2 DEF Move
    <3> QED BY <2>2, <3>1, <3>2, AnswersAppend DEF Move, Healthy, Begun
  <2> QED BY <1>4, <2>1, <2>2 DEF SchedulerStep, SchedulerCrash, MoveFails
<1>5. CASE UNCHANGED <<streamVars, producer, delayed, listed, taken, pool, group>>
  BY <1>5, AnswersKept
  DEF Healthy, Begun, NoneLost, streamVars, Tried, Live, Orphaned, Exhausted
<1>6. ASSUME NEW e \in Entry, NEW s \in WebhookStatus, Webhook(e, s)
      PROVE  Healthy'
  BY <1>5, <1>6 DEF Webhook, moverVars
<1>7. CASE UNCHANGED vars
  BY <1>5, <1>7 DEF vars, moverVars, streamVars
<1> QED BY <1>2, <1>3, <1>4, <1>6, <1>7 DEF Next

\* As long as no call has failed and no process has died, a mail leaves the queue
\* only after the provider took it, or refused it on its last attempt, however many
\* workers and schedulers run: of what queue.go:16 promises ("durable, retry-aware")
\* faults alone break a part (see DurableQueue).
THEOREM NothingIsLostWithoutFault ==
    Spec => [](faults = 0 => NoneLost /\ OverIsAnswered)
<1> DEFINE Sane == faults = 0 => Healthy
<1>1. Init => Sane
  <2> SUFFICES ASSUME Init PROVE Healthy
    OBVIOUS
  <2>1. Begun /\ NoneLost
    BY DEF Init, Begun, NoneLost, Orphaned, Pending, Handling
  <2>2. \A l \in Logs : Stage(l) = "new"
    BY ConstantsAssumption DEF Init, Stage, DelayedJobs
  <2> QED BY <2>1, <2>2 DEF Healthy, OverIsAnswered
<1>2. AccountInv /\ Sane /\ [Next]_vars => Sane'
  BY HealthyStep DEF AccountInv
<1>3. Sane => (faults = 0 => NoneLost /\ OverIsAnswered)
  BY DEF Healthy
<1> QED BY <1>1, <1>2, <1>3, AccountInit, AccountStep, PTL DEF Spec
=============================================================================
