----------------------------- MODULE EmailQueue -----------------------------
(***************************************************************************)
(* The outgoing e-mail pipeline of apps/api/internal/mailer.               *)
(*                                                                         *)
(* A producer (queued.go) writes an email_logs row and appends a job to a  *)
(* Redis stream.  Worker goroutines (worker.go) read the stream as one     *)
(* consumer group, hand the mail to the provider, record the outcome in    *)
(* the row and acknowledge the entry.  Handing it over is one attempt, in  *)
(* which a transient error makes the mailer call the provider again at     *)
(* once (mailer.go, withRetry).  A refused mail is re-scheduled in a       *)
(* sorted set with its attempt count raised; the scheduler of every API    *)
(* replica (scheduler.go) moves due jobs back to the stream.  A job whose  *)
(* attempts are used up goes to the dead-letter stream.  The provider      *)
(* reports later delivery events through a webhook (webhook.go).           *)
(*                                                                         *)
(* The calls a handler makes are separate steps, because a crash, a        *)
(* cancelled shutdown context or a failing store can fall between any two  *)
(* of them.  Such a fault is a step of its own and spends one of MaxFaults.*)
(* Time is abstracted: a delayed job may become due at any moment.         *)
(***************************************************************************)
EXTENDS Naturals, FiniteSets

CONSTANTS Logs,         \* email_logs rows, one for each enqueue call
          Workers,      \* worker goroutines, over all API replicas
          Schedulers,   \* scheduler goroutines, one for each API replica
          MaxAttempts,  \* EMAIL_QUEUE_MAX_ATTEMPTS
          MaxRetries,   \* RESEND_MAX_RETRIES or SMTP_MAX_RETRIES
          BatchSize,    \* EMAIL_WORKER_BATCH_SIZE
          BatchSender,  \* does the mailer implement BatchSender?
          NoLog,        \* "no row"
          NoWorker,     \* "nobody"
          MaxEntries,   \* bound on the stream messages ever appended
          MaxFaults     \* bound on crashes, lost replies and store errors

ASSUME ConstantsAssumption ==
    /\ MaxAttempts \in Nat /\ MaxRetries \in Nat
    /\ BatchSize \in Nat \ {0}
    /\ BatchSender \in BOOLEAN
    /\ MaxEntries \in Nat
    /\ MaxFaults \in Nat
    /\ NoLog \notin Logs
    /\ NoWorker \notin Workers

Entry    == 1..MaxEntries            \* stream message ids, in XADD order
NoEntry  == 0
Attempts == 0..MaxAttempts
Job      == [log : Logs, attempt : Attempts]

VARIABLES
    status,      \* email_logs.status of each row
    pmid,        \* email_logs.provider_message_id: the entry whose send it names
    producer,    \* where the enqueue call of the row stands
    next,        \* the id the next XADD takes
    logOf,       \* the row an entry's job belongs to
    attempt,     \* the attempt number an entry's job carries
    phase,       \* how far the consumer group is with an entry
    owner,       \* the worker an entry was delivered to
    delayed,     \* the sorted set of delayed jobs
    listed,      \* the due jobs a scheduler read and has not moved yet
    doubled,     \* (history) the rows one of whose jobs was moved a second time
    dlq,         \* the dead-letter stream
    taken,       \* entries whose mail the provider accepted
    calls,       \* the calls to the provider a worker has made and makes again
    pool,        \* is a worker "down", "running", or "absent" from a running server
    group,       \* does the consumer group exist?
    faults       \* faults so far

logVars    == <<status, pmid>>
streamVars == <<next, logOf, attempt, phase, owner>>
moverVars  == <<listed, doubled>>
vars == <<status, pmid, producer, next, logOf, attempt, phase, owner, delayed,
          listed, doubled, dlq, taken, calls, pool, group, faults>>

Reported == {"delivered", "bounced", "complained"}
Statuses == {"none", "queued", "sent", "failed"} \cup Reported

\* An entry is "waiting" in the stream, "read" by a worker that has not sent it,
\* then at one of the steps of markSent and handleFailure, and finally "acked".
\* A "skipped" one was appended before the group existed and is never delivered.
\* The group's pending list holds the entries of Pending; one without an owner
\* is an orphan: no goroutine works on it, and nothing reads it again.
Handling == {"accepted", "refused", "requeue", "bury", "ack"}
Pending  == {"read"} \cup Handling
Phases   == {"unused", "waiting", "skipped", "acked"} \cup Pending

TypeOK ==
    /\ status \in [Logs -> Statuses]
    /\ pmid \in [Logs -> Entry \cup {NoEntry}]
    /\ producer \in [Logs -> {"idle", "logged", "rejected", "done"}]
    /\ next \in 1..(MaxEntries + 1)
    /\ logOf \in [Entry -> Logs \cup {NoLog}]
    /\ attempt \in [Entry -> Attempts]
    /\ phase \in [Entry -> Phases]
    /\ owner \in [Entry -> Workers \cup {NoWorker}]
    /\ delayed \in SUBSET Job
    /\ listed \in [Schedulers -> SUBSET Job]
    /\ doubled \in SUBSET Logs
    /\ dlq \in SUBSET Job
    /\ taken \in SUBSET Entry
    /\ calls \in [Workers -> 0..MaxRetries]
    /\ pool \in [Workers -> {"down", "running", "absent"}]
    /\ group \in BOOLEAN
    /\ faults \in 0..MaxFaults

Init ==
    /\ status = [l \in Logs |-> "none"]
    /\ pmid = [l \in Logs |-> NoEntry]
    /\ producer = [l \in Logs |-> "idle"]
    /\ next = 1
    /\ logOf = [e \in Entry |-> NoLog]
    /\ attempt = [e \in Entry |-> 0]
    /\ phase = [e \in Entry |-> "unused"]
    /\ owner = [e \in Entry |-> NoWorker]
    /\ delayed = {}
    /\ listed = [s \in Schedulers |-> {}]
    /\ doubled = {}
    /\ dlq = {}
    /\ taken = {}
    /\ calls = [w \in Workers |-> 0]
    /\ pool = [w \in Workers |-> "down"]
    /\ group = FALSE
    /\ faults = 0

-----------------------------------------------------------------------------
(* Shared steps.                                                           *)

Fault == faults < MaxFaults /\ faults' = faults + 1

\* XADD: a group created at "$" never delivers what was appended before it.
Append(l, a) ==
    /\ next \in Entry
    /\ next' = next + 1
    /\ logOf' = [logOf EXCEPT ![next] = l]
    /\ attempt' = [attempt EXCEPT ![next] = a]
    /\ phase' = [phase EXCEPT ![next] = IF group THEN "waiting" ELSE "skipped"]
    /\ UNCHANGED owner

\* UPDATE email_logs: the status and the provider id are always written together.
UpdateEmailLogStatus(l, s, id) ==
    /\ status' = [status EXCEPT ![l] = s]
    /\ pmid' = [pmid EXCEPT ![l] = id]

JobOf(e) == [log |-> logOf[e], attempt |-> attempt[e]]
RetriedUncounted(e) == JobOf(e)
Retried(e) == [log |-> logOf[e], attempt |-> attempt[e] + 1]

Held(w)     == {e \in Entry : owner[e] = w /\ phase[e] \in Pending}
Unsent(w)   == {e \in Held(w) : phase[e] = "read"}
Waiting     == {e \in Entry : phase[e] = "waiting"}
First(e, S) == e \in S /\ \A f \in S : e <= f

\* The batch is handled in stream order, one entry at a time.
Current(w, e) == First(e, Held(w) \ Unsent(w))

-----------------------------------------------------------------------------
(* Producer: QueuedMailer.enqueue.                                         *)

CreateEmailLog(l) ==
    /\ producer[l] = "idle"
    /\ \E w \in Workers : pool[w] # "down"
    /\ producer' = [producer EXCEPT ![l] = "logged"]
    /\ UpdateEmailLogStatus(l, "queued", NoEntry)
    /\ UNCHANGED <<streamVars, delayed, moverVars, dlq, taken, calls, pool, group,
                   faults>>

Enqueue(l) ==
    /\ producer[l] = "logged"
    /\ Append(l, 0)
    /\ producer' = [producer EXCEPT ![l] = "done"]
    /\ UNCHANGED <<logVars, delayed, moverVars, dlq, taken, calls, pool, group, faults>>

\* The XADD returns an error: it was refused, or it was applied and its reply lost.
EnqueueFails(l) ==
    /\ producer[l] = "logged"
    /\ Fault
    /\ \/ Append(l, 0)
       \/ UNCHANGED streamVars
    /\ producer' = [producer EXCEPT ![l] = "rejected"]
    /\ UNCHANGED <<logVars, delayed, moverVars, dlq, taken, calls, pool, group>>

MarkEnqueueFailed(l) ==
    /\ producer[l] = "rejected"
    /\ producer' = [producer EXCEPT ![l] = "done"]
    /\ UpdateEmailLogStatus(l, "failed", NoEntry)
    /\ UNCHANGED <<streamVars, delayed, moverVars, dlq, taken, calls, pool, group,
                   faults>>

\* The API process dies between the INSERT and the XADD, or before the "failed" write.
ProducerCrash(l) ==
    /\ producer[l] \in {"logged", "rejected"}
    /\ Fault
    /\ producer' = [producer EXCEPT ![l] = "done"]
    /\ UNCHANGED <<logVars, streamVars, delayed, moverVars, dlq, taken, calls, pool,
                   group>>

-----------------------------------------------------------------------------
(* Worker: Worker.run, processBatch, process, markSent, handleFailure.     *)

\* The server starts its workers before it serves the first request.
Start(w) ==
    /\ pool[w] = "down"
    /\ pool' = [pool EXCEPT ![w] = "running"]
    /\ group' = TRUE
    /\ UNCHANGED <<logVars, producer, streamVars, delayed, moverVars, dlq, taken, calls,
                   faults>>

\* EnsureConsumerGroup fails: the server runs on without its workers.
StartFails(w) ==
    /\ pool[w] = "down"
    /\ Fault
    /\ pool' = [pool EXCEPT ![w] = "absent"]
    /\ UNCHANGED <<logVars, producer, streamVars, delayed, moverVars, dlq, taken, calls,
                   group>>

\* What XREADGROUP ">" COUNT n returns: the n oldest undelivered messages.
NextBatch(b) ==
    /\ b \subseteq Waiting
    /\ b # {}
    /\ \A e \in b, f \in Waiting \ b : e < f
    /\ \/ Cardinality(b) = BatchSize
       \/ b = Waiting /\ Cardinality(b) < BatchSize

DequeueBatch(w) ==
    /\ pool[w] = "running" /\ Held(w) = {}
    /\ \E b \in SUBSET Waiting :
          /\ NextBatch(b)
          /\ phase' = [e \in Entry |-> IF e \in b THEN "read" ELSE phase[e]]
          /\ owner' = [e \in Entry |-> IF e \in b THEN w ELSE owner[e]]
    /\ UNCHANGED <<logVars, producer, next, logOf, attempt, delayed, moverVars, dlq,
                   taken, calls, pool, group, faults>>

\* The group delivered a batch but DequeueBatch returned an error: a lost reply.
DequeueFails(w) ==
    /\ pool[w] = "running" /\ Held(w) = {}
    /\ Fault
    /\ \E b \in SUBSET Waiting :
          /\ NextBatch(b)
          /\ phase' = [e \in Entry |-> IF e \in b THEN "read" ELSE phase[e]]
    /\ UNCHANGED <<logVars, producer, next, logOf, attempt, owner, delayed, moverVars,
                   dlq, taken, calls, pool, group>>

\* A BatchSender gets the whole batch in one call, another mailer one job at a time.
ToSend(w) == IF BatchSender THEN Unsent(w) ELSE {e \in Unsent(w) : First(e, Unsent(w))}

Outcome(b, ok) ==
    phase' = [e \in Entry |-> IF e \notin b THEN phase[e]
                              ELSE IF e \in ok THEN "accepted" ELSE "refused"]

\* withRetry may call once more after the call it is at.
AgainOffByOne(w) == calls[w] <= MaxRetries
Again(w) == calls[w] < MaxRetries

\* The call ends in a transient error, a rate limit or a timeout, and is made again
\* after a backoff.  If it timed out the provider may have taken some of the mails
\* all the same, which is a fault, and gets them once more.
RetrySend(w) ==
    /\ pool[w] = "running" /\ Unsent(w) # {} /\ Held(w) = Unsent(w)
    /\ Again(w)
    /\ calls' = [calls EXCEPT ![w] = @ + 1]
    /\ \E lost \in SUBSET ToSend(w) :
          /\ taken' = taken \cup lost
          /\ IF lost = {} THEN UNCHANGED faults ELSE Fault
    /\ UNCHANGED <<logVars, producer, streamVars, delayed, moverVars, dlq, pool, group>>

\* The last call of the attempt: it succeeds, for some of a batch at least, or it
\* fails for good, or withRetry makes no further one.
Send(w) ==
    /\ pool[w] = "running" /\ Unsent(w) # {} /\ Held(w) = Unsent(w)
    /\ \E ok \in SUBSET ToSend(w) :
          /\ Outcome(ToSend(w), ok)
          /\ taken' = taken \cup ok
    /\ calls' = [calls EXCEPT ![w] = 0]
    /\ UNCHANGED <<logVars, producer, next, logOf, attempt, owner, delayed, moverVars,
                   dlq, pool, group, faults>>

\* The same, but the provider took some of the mails that the call returned an
\* error for: a timeout after acceptance, or a response without their ids.
SendUnconfirmed(w) ==
    /\ pool[w] = "running" /\ Unsent(w) # {} /\ Held(w) = Unsent(w)
    /\ Fault
    /\ \E ok, lost \in SUBSET ToSend(w) :
          /\ lost # {} /\ ok \cap lost = {}
          /\ Outcome(ToSend(w), ok)
          /\ taken' = taken \cup ok \cup lost
    /\ calls' = [calls EXCEPT ![w] = 0]
    /\ UNCHANGED <<logVars, producer, next, logOf, attempt, owner, delayed, moverVars,
                   dlq, pool, group>>

\* A handler step of worker w that takes its current entry e to phase p.
Handle(w, e, from, p) ==
    /\ Current(w, e) /\ phase[e] = from
    /\ phase' = [phase EXCEPT ![e] = p]
    /\ UNCHANGED <<next, logOf, attempt, owner, producer, moverVars, taken, calls, pool,
                   group>>

MarkSentByPosition(w, e) ==
    /\ Handle(w, e, "accepted", "ack")
    /\ UpdateEmailLogStatus(logOf[e], "sent",
          IF \E f \in Entry : owner[f] = w /\ f < e /\ f \notin taken THEN NoEntry ELSE e)
    /\ UNCHANGED <<delayed, dlq, faults>>

MarkSent(w, e) ==
    /\ Handle(w, e, "accepted", "ack")
    /\ UpdateEmailLogStatus(logOf[e], "sent", e)
    /\ UNCHANGED <<delayed, dlq, faults>>

ExhaustedOffByOne(e) == attempt[e] > MaxAttempts
Exhausted(e) == attempt[e] >= MaxAttempts

HandleFailure(w, e) ==
    /\ \/ /\ Exhausted(e)
          /\ Handle(w, e, "refused", "bury")
          /\ UpdateEmailLogStatus(logOf[e], "failed", NoEntry)
       \/ /\ ~Exhausted(e)
          /\ Handle(w, e, "refused", "requeue")
          /\ UpdateEmailLogStatus(logOf[e], "queued", NoEntry)
    /\ UNCHANGED <<delayed, dlq, faults>>

\* An UPDATE that fails is only logged: the handler goes on to its next call.
UpdateFails(w, e) ==
    /\ \/ Handle(w, e, "accepted", "ack")
       \/ Exhausted(e) /\ Handle(w, e, "refused", "bury")
       \/ ~Exhausted(e) /\ Handle(w, e, "refused", "requeue")
    /\ Fault
    /\ UNCHANGED <<logVars, delayed, dlq>>

RequeueAfter(w, e) ==
    /\ Handle(w, e, "requeue", "ack")
    /\ delayed' = delayed \cup {Retried(e)}
    /\ UNCHANGED <<logVars, dlq, faults>>

DeadLetter(w, e) ==
    /\ Handle(w, e, "bury", "ack")
    /\ dlq' = dlq \cup {JobOf(e)}
    /\ UNCHANGED <<logVars, delayed, faults>>

Ack(w, e) ==
    /\ Handle(w, e, "ack", "acked")
    /\ UNCHANGED <<logVars, delayed, dlq, faults>>

RequeueAckedFirst(w, e) ==
    /\ Handle(w, e, "requeue", "acked")
    /\ Fault
    /\ UNCHANGED <<logVars, delayed, dlq>>

AckErrorAsFailure(w, e) ==
    /\ Handle(w, e, "ack", "refused")
    /\ Fault
    /\ UNCHANGED <<logVars, delayed, dlq>>

\* A Redis call of the handler returns an error, applied or not, which ends the
\* handling of the entry: without an XACK it stays in the pending list.
RedisFails(w, e) ==
    /\ Current(w, e)
    /\ Fault
    /\ \/ /\ phase[e] = "requeue"
          /\ delayed' \in {delayed, delayed \cup {Retried(e)}}
          /\ UNCHANGED dlq
       \/ /\ phase[e] = "bury"
          /\ dlq' \in {dlq, dlq \cup {JobOf(e)}}
          /\ UNCHANGED delayed
       \/ /\ phase[e] = "ack"
          /\ UNCHANGED <<delayed, dlq>>
    /\ owner' = [owner EXCEPT ![e] = NoWorker]
    /\ UNCHANGED <<logVars, producer, next, logOf, attempt, phase, moverVars, taken,
                   calls, pool, group>>

\* The process dies, or a shutdown cancels the context every call is made with.
\* The restarted worker has a fresh consumer name and reads only new messages.
Crash(w) ==
    /\ pool[w] # "down"
    /\ Fault
    /\ pool' = [pool EXCEPT ![w] = "down"]
    /\ calls' = [calls EXCEPT ![w] = 0]
    /\ owner' = [e \in Entry |-> IF e \in Held(w) THEN NoWorker ELSE owner[e]]
    /\ UNCHANGED <<logVars, producer, next, logOf, attempt, phase, delayed, moverVars,
                   dlq, taken, group>>

-----------------------------------------------------------------------------
(* Scheduler.tick, and the webhook handler.                                *)

\* ZRANGEBYSCORE reads the jobs that are due by now: any of the delayed ones.
ListDue(s, due) ==
    /\ listed[s] = {} /\ due # {}
    /\ listed' = [listed EXCEPT ![s] = due]
    /\ UNCHANGED <<logVars, producer, streamVars, delayed, doubled, dlq, taken, calls,
                   pool, group, faults>>

MoveWithoutRemove(s, j) ==
    /\ j \in listed[s]
    /\ Append(j.log, j.attempt)
    /\ listed' = [listed EXCEPT ![s] = @ \ {j}]
    /\ UNCHANGED <<logVars, producer, delayed, doubled, dlq, taken, calls, pool, group,
                   faults>>

\* The move script: XADD, then ZREM, in one atomic script.  The XADD does not
\* depend on whether the job is still in the sorted set.
Move(s, j) ==
    /\ j \in listed[s]
    /\ Append(j.log, j.attempt)
    /\ delayed' = delayed \ {j}
    /\ listed' = [listed EXCEPT ![s] = @ \ {j}]
    /\ doubled' = IF j \in delayed THEN doubled ELSE doubled \cup {j.log}
    /\ UNCHANGED <<logVars, producer, dlq, taken, calls, pool, group, faults>>

\* The script fails before it ran: the job is skipped and listed again later.
MoveFails(s, j) ==
    /\ j \in listed[s]
    /\ Fault
    /\ listed' = [listed EXCEPT ![s] = @ \ {j}]
    /\ UNCHANGED <<logVars, producer, streamVars, delayed, doubled, dlq, taken, calls,
                   pool, group>>

SchedulerCrash(s) ==
    /\ listed[s] # {}
    /\ Fault
    /\ listed' = [listed EXCEPT ![s] = {}]
    /\ UNCHANGED <<logVars, producer, streamVars, delayed, doubled, dlq, taken, calls,
                   pool, group>>

\* eventToStatus; the provider may send an event late, twice or out of order.
WebhookStatus == {"sent"} \cup Reported

Webhook(e, s) ==
    /\ e \in taken
    /\ status' = [l \in Logs |-> IF pmid[l] = e THEN s ELSE status[l]]
    /\ UNCHANGED <<pmid, producer, streamVars, delayed, moverVars, dlq, taken, calls,
                   pool, group, faults>>

-----------------------------------------------------------------------------
ProducerStep(l) ==
    \/ CreateEmailLog(l) \/ Enqueue(l) \/ EnqueueFails(l)
    \/ MarkEnqueueFailed(l) \/ ProducerCrash(l)

HandlerStep(w, e) ==
    \/ MarkSent(w, e) \/ HandleFailure(w, e) \/ UpdateFails(w, e)
    \/ RequeueAfter(w, e) \/ DeadLetter(w, e) \/ Ack(w, e) \/ RedisFails(w, e)

WorkerStep(w) ==
    \/ Start(w) \/ StartFails(w) \/ DequeueBatch(w) \/ DequeueFails(w)
    \/ RetrySend(w) \/ Send(w) \/ SendUnconfirmed(w) \/ Crash(w)
    \/ \E e \in Entry : HandlerStep(w, e)

SchedulerStep(s) ==
    \/ SchedulerCrash(s)
    \/ \E due \in SUBSET delayed : ListDue(s, due)
    \/ \E j \in listed[s] : Move(s, j) \/ MoveFails(s, j)

Next ==
    \/ \E l \in Logs : ProducerStep(l)
    \/ \E w \in Workers : WorkerStep(w)
    \/ \E s \in Schedulers : SchedulerStep(s)
    \/ \E e \in Entry, s \in WebhookStatus : Webhook(e, s)

\* The enqueue call, the worker loop and the scheduler loop run on their own
\* goroutines and poll for ever; nothing obliges a fault or a webhook to happen.
\* A scheduler lists every job that is due, so no delayed job is passed over.
Fairness ==
    /\ \A l \in Logs : WF_vars(Enqueue(l) \/ MarkEnqueueFailed(l))
    /\ \A w \in Workers :
          /\ WF_vars(Start(w)) /\ WF_vars(Send(w)) /\ WF_vars(DequeueBatch(w))
          /\ WF_vars(\E e \in Entry : MarkSent(w, e) \/ HandleFailure(w, e)
                        \/ RequeueAfter(w, e) \/ DeadLetter(w, e) \/ Ack(w, e))
    /\ \A s \in Schedulers :
          /\ WF_vars(ListDue(s, delayed))
          /\ WF_vars(\E j \in listed[s] : Move(s, j))

Spec     == Init /\ [][Next]_vars
FairSpec == Spec /\ Fairness
-----------------------------------------------------------------------------
(* Correctness.                                                            *)

\* Nothing works on the entry any more, although it was never acknowledged.
Orphaned(e) == phase[e] \in Pending /\ owner[e] = NoWorker

\* Something will still drive the mail of row l: a live stream entry whose
\* outcome is open, or a delayed job.
Open(e)        == phase[e] \in {"waiting"} \cup (Pending \ {"ack"}) /\ ~Orphaned(e)
CarriedBy(l)   == {e \in Entry : logOf[e] = l /\ Open(e)}
DelayedJobs(l) == {j \in delayed : j.log = l}

\* No path of the pipeline, whatever fails, lets go of a job that reached Redis:
\* an attempt of it is still unsettled in the stream or the pending list, or
\* waits in the sorted set, or the job is dead-lettered, or the provider took
\* the mail.  (RequeueAfter and DeadLetter write the copy before the XACK; the
\* move script appends before it removes.)
Unsettled(e) == phase[e] \notin {"unused", "ack", "acked"}

Accounted ==
    \A l \in Logs : (\E e \in Entry : logOf[e] = l) =>
        \/ \E e \in Entry : logOf[e] = l /\ (Unsettled(e) \/ e \in taken)
        \/ \E j \in delayed \cup dlq : j.log = l

\* At most one thing drives the mail of a row at any time, so two goroutines never
\* send the same mail: retries hand the job over, and the move from the sorted set
\* is atomic.  The only way out is a job that two schedulers listed and moved.
OneCarrier ==
    \A l \in Logs \ doubled :
        /\ \A e, f \in CarriedBy(l) : e = f
        /\ \A i, j \in DelayedJobs(l) : i = j
        /\ CarriedBy(l) = {} \/ DelayedJobs(l) = {}

\* Every appearance of a job in the stream has used up one attempt more than the
\* one before, unless two schedulers moved the same job: the count survives the
\* stream, the sorted set and the scheduler.
AttemptsAscend ==
    \A e, f \in Entry : e < f /\ logOf[e] = logOf[f] /\ logOf[e] \in Logs \ doubled
                          => attempt[e] < attempt[f]

\* Once a delivery report of the provider reached a row, no worker writes the
\* row again: the report is about the last attempt and nothing sends another.
\* Only the producer may, when the reply to its XADD was lost, and the workers of
\* a row whose job two schedulers moved.
ReportKept ==
    [][\A l \in Logs \ doubled : status[l] \in Reported /\ pmid'[l] # pmid[l]
                          => producer[l] = "rejected"]_vars

\* A row that names a provider message names one of its own mails that the
\* provider accepted, which is what the webhook finds rows by: however many
\* schedulers run and however often they doubled the job.
ReceiptIsOwn ==
    \A l \in Logs :
        /\ pmid[l] # NoEntry => pmid[l] \in taken /\ logOf[pmid[l]] = l
        /\ status[l] \in {"sent"} \cup Reported => pmid[l] # NoEntry

\* The attempt with the job of entry e is over; a try is what MailDelivery calls it.
Tried(e)  == phase[e] \in Handling \cup {"acked"}
Handed(l) == {e \in Entry : logOf[e] = l /\ Tried(e)}
Tries(l)  == Cardinality(Handed(l))

\* The workers that are to call the provider again about the mail: one at a time,
\* unless the mail was doubled.
Recalling(l) == {w \in Workers : calls[w] > 0 /\ \E e \in ToSend(w) : logOf[e] = l}
Asks(l) == IF Recalling(l) = {} THEN 0 ELSE calls[CHOOSE w \in Recalling(l) : TRUE]

\* A live entry may still lead to a try of its mail, at once or as a retry.
Live(e) ==
    /\ phase[e] \in {"waiting", "read", "refused", "requeue"} /\ ~Orphaned(e)
    /\ phase[e] = "refused" => ~Exhausted(e)

Stage(l) ==
    IF DelayedJobs(l) # {} \/ \E e \in Entry : logOf[e] = l /\ Live(e) THEN "queued"
    ELSE IF \E e \in Entry : logOf[e] = l THEN "over" ELSE "new"

Delivery == INSTANCE MailDelivery WITH
    Mails <- Logs, Limit <- MaxAttempts + 1, PerTry <- MaxRetries + 1,
    stage <- [l \in Logs |-> Stage(l)],
    tries <- [l \in Logs |-> Tries(l)],
    asks <- [l \in Logs |-> Asks(l)]

\* The pipeline implements MailDelivery: whatever fails or crashes, a mail is tried
\* at most MaxAttempts + 1 times, each time with at most MaxRetries + 1 calls to the
\* provider one after the other; never again after a worker gave it up, confirmed
\* it or died with it; and a retry is kept only while a try is left.  Excepted are
\* the mails one of whose jobs two schedulers moved.
MailsDelivered == Delivery!Spec

\* Without a fault every enqueued mail ends as sent or as failed.
Settled(l) == status[l] \in {"sent", "failed"} \cup Reported

EventuallySettled ==
    [](faults = 0) => \A l \in Logs : status[l] = "queued" ~> Settled(l)

\* queue.go:16 calls the queue durable: a job the stream holds for the group is
\* acknowledged one day, also when the worker that read it dies.
DurableQueue == \A e \in Entry : phase[e] = "waiting" ~> phase[e] = "acked"

\* scheduler.go:42-43: the scheduler moves a delayed job back into the stream, so
\* one delayed job becomes one stream entry.
MovedOnce ==
    \A e, f \in Entry : logOf[e] # NoLog /\ JobOf(e) = JobOf(f) => e = f

=============================================================================
