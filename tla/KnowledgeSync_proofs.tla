------------------------ MODULE KnowledgeSync_proofs ------------------------
(***************************************************************************)
(* Proofs about KnowledgeSync for every number of documents, folders,      *)
(* requests, workers, jobs and faults.  What is said of the copies and of  *)
(* what is shown as synced leaves out the documents that two workers had   *)
(* in hand at once, until a delete job purges them alone; with one worker  *)
(* there are none.                                                         *)
(***************************************************************************)
EXTENDS KnowledgeSync, TLAPS

(* Types, with what jobs and workers have to do with each other.           *)

RoomTypes ==
    /\ inRoom \in SUBSET Docs /\ docLocks \in SUBSET inRoom
    /\ folderLocks \in SUBSET Folders /\ deleted \in BOOLEAN /\ late \in SUBSET Docs

CorpusTypes ==
    /\ corpus \in {"none", "provisioning", "syncing", "ready", "degraded", "failed"}
    /\ binding \in [Docs -> {"none", "pending", "syncing", "synced", "failed", "deleted"}]

JobTypes == jobs \in [JobId -> Job] /\ queued \in 0..MaxJobs

RequestTypes ==
    /\ at \in [Requests -> {"new", "adding", "locking", "saved", "removing", "deleting", "purging",
                            "inserting", "aligning", "writing", "marking", "queueing",
                            "viewing", "healing", "asked", "over", "dead"}]
    /\ read \in [Requests -> SUBSET Folders] /\ want \in [Requests -> BOOLEAN]
    /\ todo \in [Requests -> SUBSET Docs] /\ doc \in [Requests -> Docs \cup {NoDoc}]

WorkerTypes ==
    /\ step \in [Workers -> {"idle", "batch"} \cup JobSteps \cup DocSteps]
    /\ batch \in [Workers -> SUBSET JobId] /\ job \in [Workers -> JobId \cup {NoJob}]
    /\ seen \in [Workers -> SUBSET Folders]
    /\ dels \in [Workers -> SUBSET Docs] /\ ings \in [Workers -> SUBSET Docs]
    /\ cur \in [Workers -> Docs \cup {NoDoc}] /\ bad \in [Workers -> BOOLEAN]

OtherTypes == remote \in SUBSET Docs /\ faults \in 0..MaxFaults
SharedType == shared \in SUBSET Docs

\* A request that adds, removes or withdraws a document knows which one.
Named == \A r \in Requests : at[r] \in {"adding", "removing", "inserting"} => doc[r] \in Docs

\* Jobs fill the table in order, and a delete job names its document.
Rows ==
    \A j \in JobId :
       /\ j > queued <=> jobs[j].status = "none"
       /\ jobs[j].status # "none" =>
             \/ jobs[j].type = "sync_room"
             \/ jobs[j].type = "delete_doc" /\ jobs[j].doc \in Docs

\* A worker that is at a job holds a running one, alone.
Held ==
    \A w \in Workers :
       /\ step[w] \in {"idle", "batch"} <=> job[w] = NoJob
       /\ job[w] # NoJob => /\ jobs[job[w]].status = "running"
                            /\ \A v \in Workers : job[v] = job[w] => v = w

\* The steps that only a sync takes, and the document a worker is at.
PassSteps == {"align", "write", "rows", "next", "publish", "check", "syncing", "upload",
              "indexed", "exclude"}

Passes ==
    \A w \in Workers :
       /\ step[w] \in PassSteps => Type(w) = "sync_room"
       /\ step[w] \in {"idle", "batch", "claimed"} => cur[w] = NoDoc /\ ~bad[w]
       /\ step[w] \in DocSteps => cur[w] \in Docs

TypeInv == TypeOK /\ Named /\ Rows /\ Held /\ Passes

LEMMA TypeParts ==
    /\ TypeOK <=> /\ RoomTypes /\ CorpusTypes /\ JobTypes /\ RequestTypes
                  /\ WorkerTypes /\ OtherTypes /\ SharedType
    /\ TypeOK' <=> /\ RoomTypes' /\ CorpusTypes' /\ JobTypes' /\ RequestTypes'
                   /\ WorkerTypes' /\ OtherTypes' /\ SharedType'
BY DEF TypeOK, RoomTypes, CorpusTypes, JobTypes, RequestTypes, WorkerTypes, OtherTypes, SharedType

LEMMA TypesKept ==
    /\ RoomTypes /\ UNCHANGED roomVars => RoomTypes'
    /\ CorpusTypes /\ UNCHANGED corpusVars => CorpusTypes'
    /\ JobTypes /\ UNCHANGED jobVars => JobTypes'
    /\ RequestTypes /\ UNCHANGED requestVars => RequestTypes'
    /\ WorkerTypes /\ UNCHANGED workerVars => WorkerTypes'
<1>1. RoomTypes /\ UNCHANGED roomVars => RoomTypes'
  BY DEF RoomTypes, roomVars
<1>2. CorpusTypes /\ UNCHANGED corpusVars => CorpusTypes'
  BY DEF CorpusTypes, corpusVars
<1>3. JobTypes /\ UNCHANGED jobVars => JobTypes'
  BY DEF JobTypes, jobVars
<1>4. RequestTypes /\ UNCHANGED requestVars => RequestTypes'
  BY DEF RequestTypes, requestVars
<1>5. WorkerTypes /\ UNCHANGED workerVars => WorkerTypes'
  BY DEF WorkerTypes, workerVars
<1> QED BY <1>1, <1>2, <1>3, <1>4, <1>5

LEMMA TypeInit == Init => TypeInv
<1> SUFFICES ASSUME Init PROVE TypeInv
  OBVIOUS
<1> USE DEF Init
<1>1. RoomTypes /\ CorpusTypes
  BY DEF RoomTypes, CorpusTypes
<1>2. JobTypes
  BY ConstantsAssumption DEF JobTypes, Job
<1>3. RequestTypes /\ WorkerTypes /\ OtherTypes /\ SharedType
  BY ConstantsAssumption DEF RequestTypes, WorkerTypes, OtherTypes, SharedType
<1>4. Named /\ Rows /\ Held /\ Passes
  BY ConstantsAssumption DEF Named, Rows, Held, Passes, PassSteps, DocSteps, JobId, NoJob
<1> QED BY <1>1, <1>2, <1>3, <1>4, TypeParts DEF TypeInv

-----------------------------------------------------------------------------
(* Requests: what they leave alone, and what they do to the table of jobs. *)

Requested(r) ==
    BeginRequest(r) \/ ContinueRequest(r) \/ QueryNotReady(r) \/ EnqueueDeleteFails(r)
    \/ RequestFails(r)

\* The three things a request may do to the jobs.
Enqueued ==
    \E t \in {"sync_room", "delete_doc"}, d \in Docs \cup {NoDoc} :
       (t = "delete_doc" => d \in Docs) /\ EnqueueJob(t, d)
Dropped == queued' = queued /\ jobs' = [j \in JobId |-> Cancelled(jobs[j])]

LEMMA RequestTyped ==
    ASSUME TypeInv, NEW r \in Requests, Requested(r)
    PROVE  /\ RoomTypes' /\ CorpusTypes' /\ RequestTypes' /\ Named'
           /\ UNCHANGED <<remote, workerVars>>
           /\ faults' \in 0..MaxFaults
           /\ UNCHANGED jobVars \/ Enqueued \/ (Dropped /\ DeleteRoom(r))
<1>0. RoomTypes /\ CorpusTypes /\ RequestTypes /\ faults \in 0..MaxFaults /\ Named
  BY TypeParts DEF TypeInv, OtherTypes
<1> USE DEF Goto
<1> DEFINE P == /\ RoomTypes' /\ CorpusTypes' /\ RequestTypes' /\ Named'
                /\ UNCHANGED <<remote, workerVars>>
                /\ faults' \in 0..MaxFaults
                /\ UNCHANGED jobVars \/ Enqueued \/ (Dropped /\ DeleteRoom(r))
<1>1. ASSUME NEW d \in Docs, LoadForAdd(r, d) \/ LoadForRemove(r, d) PROVE P
  <2>1. RoomTypes' /\ CorpusTypes'
    BY <1>0, <1>1, TypesKept DEF LoadForAdd, LoadForRemove
  <2> QED BY <1>0, <1>1, <2>1 DEF LoadForAdd, LoadForRemove, RequestTypes, Named
<1>2. CASE LoadForLocks(r) \/ LoadForDelete(r) \/ LoadForSync(r) \/ LoadCorpus(r)
  <2>1. RoomTypes'
    BY <1>0, <1>2, TypesKept DEF LoadForLocks, LoadForDelete, LoadForSync, LoadCorpus
  <2>2. CorpusTypes'
    BY <1>0, <1>2 DEF LoadForLocks, LoadForDelete, LoadForSync, LoadCorpus, CorpusTypes, corpusVars
  <2>3. RequestTypes' /\ Named'
    BY <1>0, <1>2 DEF LoadForLocks, LoadForDelete, LoadForSync, LoadCorpus, RequestTypes, Named, RoomTypes
  <2> QED BY <1>0, <1>2, <2>1, <2>2, <2>3 DEF LoadForLocks, LoadForDelete, LoadForSync, LoadCorpus
<1>3. ASSUME NEW fs \in SUBSET Folders, SaveFolders(r, fs) PROVE P
  <2>1. RoomTypes'
    BY <1>0, <1>3 DEF SaveFolders, RoomTypes, RequestTypes
  <2>2. RequestTypes' /\ Named'
    BY <1>0, <1>3 DEF SaveFolders, RequestTypes, Named, RoomTypes
  <2> QED BY <1>0, <1>3, <2>1, <2>2, TypesKept DEF SaveFolders
<1>4. ASSUME NEW ds \in SUBSET Docs, LockDocuments(r, ds) PROVE P
  <2>1. RoomTypes'
    BY <1>0, <1>4 DEF LockDocuments, RoomTypes, Members
  <2>2. RequestTypes' /\ Named'
    BY <1>0, <1>4 DEF LockDocuments, RequestTypes, Named
  <2> QED BY <1>0, <1>4, <2>1, <2>2, TypesKept DEF LockDocuments
<1>5. CASE AddDocument(r) \/ RemoveDocument(r)
  <2>1. RoomTypes'
    BY <1>0, <1>5 DEF AddDocument, RemoveDocument, RoomTypes, Named
  <2>2. RequestTypes' /\ Named'
    BY <1>0, <1>5 DEF AddDocument, RemoveDocument, RequestTypes, Named
  <2> QED BY <1>0, <1>5, <2>1, <2>2, TypesKept DEF AddDocument, RemoveDocument
<1>6. CASE DeleteRoom(r)
  <2>1. RoomTypes'
    BY <1>0, <1>6 DEF DeleteRoom, RoomTypes, roomVars
  <2>2. RequestTypes' /\ Named'
    BY <1>0, <1>6 DEF DeleteRoom, RequestTypes, Named
  <2>3. CorpusTypes' /\ UNCHANGED <<remote, workerVars>> /\ faults' = faults
    BY <1>0, <1>6, TypesKept DEF DeleteRoom
  <2>4. UNCHANGED jobVars \/ (Dropped /\ DeleteRoom(r))
    BY <1>6 DEF DeleteRoom, jobVars, Dropped
  <2> QED BY <1>0, <2>1, <2>2, <2>3, <2>4
<1>7. ASSUME NEW d \in Docs, WithdrawBinding(r, d) PROVE P
  <2>1. RoomTypes' /\ UNCHANGED jobVars /\ UNCHANGED <<remote, workerVars>> /\ faults' = faults
    BY <1>0, <1>7, TypesKept DEF WithdrawBinding
  <2>2. CorpusTypes'
    BY <1>0, <1>7 DEF WithdrawBinding, CorpusTypes
  <2>3. RequestTypes' /\ Named'
    BY <1>0, <1>7 DEF WithdrawBinding, RequestTypes, Named
  <2> QED BY <1>0, <2>1, <2>2, <2>3
<1>8. CASE EnqueueDelete(r) \/ EnqueueSync(r)
  <2>1. RoomTypes' /\ CorpusTypes' /\ UNCHANGED <<remote, workerVars>> /\ faults' = faults
    BY <1>0, <1>8, TypesKept DEF EnqueueDelete, EnqueueSync
  <2>2. RequestTypes' /\ Named'
    BY <1>0, <1>8 DEF EnqueueDelete, EnqueueSync, RequestTypes, Named
  <2>3. Enqueued
    BY <1>0, <1>8 DEF EnqueueDelete, EnqueueSync, Enqueued, Named
  <2> QED BY <1>0, <2>1, <2>2, <2>3
<1>9. CASE ListActive(r) \/ AlignRows(r) \/ MarkSyncing(r)
  <2>1. RoomTypes' /\ UNCHANGED jobVars /\ UNCHANGED <<remote, workerVars>> /\ faults' = faults
    BY <1>0, <1>9, TypesKept DEF ListActive, AlignRows, MarkSyncing
  <2>2. CorpusTypes'
    BY <1>0, <1>9 DEF ListActive, AlignRows, MarkSyncing, CorpusTypes, corpusVars, Aligned
  <2>3. RequestTypes' /\ Named'
    BY <1>0, <1>9 DEF ListActive, AlignRows, MarkSyncing, RequestTypes, Named, Active, RoomTypes
  <2> QED BY <1>0, <2>1, <2>2, <2>3
<1>10. CASE Reconcile(r) \/ HealBadge(r) \/ QueryNotReady(r)
  <2>1. RoomTypes' /\ UNCHANGED jobVars /\ UNCHANGED <<remote, workerVars>> /\ faults' \in 0..MaxFaults
    BY <1>0, <1>10, TypesKept, ConstantsAssumption DEF Reconcile, HealBadge, QueryNotReady, Fault
  <2>2. CorpusTypes'
    BY <1>0, <1>10 DEF Reconcile, HealBadge, QueryNotReady, CorpusTypes, corpusVars
  <2>3. RequestTypes' /\ Named'
    BY <1>0, <1>10 DEF Reconcile, HealBadge, QueryNotReady, RequestTypes, Named
  <2> QED BY <2>1, <2>2, <2>3
<1>11. CASE EnqueueDeleteFails(r) \/ RequestFails(r)
  <2>1. RoomTypes' /\ CorpusTypes' /\ UNCHANGED jobVars /\ UNCHANGED <<remote, workerVars>>
        /\ faults' \in 0..MaxFaults
    BY <1>0, <1>11, TypesKept, ConstantsAssumption DEF EnqueueDeleteFails, RequestFails, Fault
  <2>2. RequestTypes' /\ Named'
    BY <1>0, <1>11 DEF EnqueueDeleteFails, RequestFails, RequestTypes, Named
  <2> QED BY <2>1, <2>2
<1> QED BY <1>1, <1>2, <1>3, <1>4, <1>5, <1>6, <1>7, <1>8, <1>9, <1>10, <1>11
        DEF Requested, BeginRequest, ContinueRequest

\* What a step of a request leaves of each job.
LEMMA RequestJobs ==
    ASSUME TypeInv, NEW r \in Requests, Requested(r)
    PROVE  /\ JobTypes' /\ Rows' /\ Held' /\ Passes' /\ queued' >= queued
           /\ \A j \in JobId :
                 \/ jobs'[j] = jobs[j]
                 \/ jobs[j].status = "none" /\ jobs'[j].status = "pending"
                 \/ /\ jobs[j].type = "sync_room" /\ jobs[j].status = "pending"
                    /\ jobs'[j].status = "done"
                    /\ jobs'[j].type = jobs[j].type /\ jobs'[j].doc = jobs[j].doc
                    /\ DeleteRoom(r)
<1>0. JobTypes /\ Rows /\ Held /\ Passes /\ WorkerTypes
  BY TypeParts DEF TypeInv
<1> DEFINE Kept == \A j \in JobId :
                 \/ jobs'[j] = jobs[j]
                 \/ jobs[j].status = "none" /\ jobs'[j].status = "pending"
                 \/ /\ jobs[j].type = "sync_room" /\ jobs[j].status = "pending"
                    /\ jobs'[j].status = "done"
                    /\ jobs'[j].type = jobs[j].type /\ jobs'[j].doc = jobs[j].doc
                    /\ DeleteRoom(r)
<1> DEFINE P == JobTypes' /\ Rows' /\ Kept /\ queued' >= queued
<1>1. UNCHANGED workerVars /\ (UNCHANGED jobVars \/ Enqueued \/ (Dropped /\ DeleteRoom(r)))
  BY RequestTyped
<1>2. ASSUME UNCHANGED jobVars PROVE P
  <2>1. JobTypes' /\ Rows' /\ Kept
    BY <1>0, <1>2 DEF jobVars, JobTypes, Rows
  <2> QED BY <1>0, <1>2, <2>1, ConstantsAssumption DEF JobTypes, jobVars
<1>3. ASSUME Enqueued PROVE P
  <2>1. PICK t \in {"sync_room", "delete_doc"}, d \in Docs \cup {NoDoc} :
           (t = "delete_doc" => d \in Docs) /\ EnqueueJob(t, d)
    BY <1>3 DEF Enqueued
  <2>2. queued + 1 \in JobId /\ queued \in Nat /\ queued' = queued + 1 /\ queued' \in 0..MaxJobs
    BY <1>0, <2>1, ConstantsAssumption DEF JobTypes, EnqueueJob, JobId
  <2>3. jobs[queued + 1].status = "none"
    BY <1>0, <2>2 DEF Rows
  <2>4. JobTypes'
    BY <1>0, <2>1, <2>2 DEF JobTypes, EnqueueJob, Job
  <2>5. /\ jobs'[queued + 1] = [type |-> t, doc |-> d, status |-> "pending"]
        /\ \A j \in JobId \ {queued + 1} : jobs'[j] = jobs[j]
    BY <1>0, <2>1, <2>2 DEF JobTypes, EnqueueJob
  <2>6. Rows'
    BY <1>0, <2>1, <2>2, <2>5, ConstantsAssumption DEF Rows, JobId, JobTypes
  <2> QED BY <2>2, <2>3, <2>4, <2>5, <2>6
<1>4. ASSUME Dropped, DeleteRoom(r) PROVE P
  <2>1. JobTypes'
    BY <1>0, <1>4 DEF Dropped, JobTypes, Job, Cancelled
  <2>3. Kept
    BY <1>0, <1>4 DEF Dropped, JobTypes, Job, Cancelled
  <2>4. Rows'
    BY <1>0, <1>4 DEF Dropped, JobTypes, Job, Cancelled, Rows
  <2> QED BY <1>0, <1>4, <2>1, <2>3, <2>4, ConstantsAssumption DEF Dropped, JobTypes
<1>5. JobTypes' /\ Rows' /\ Kept /\ queued' >= queued
  BY <1>1, <1>2, <1>3, <1>4
<1>6. Held'
  BY <1>0, <1>1, <1>5 DEF Held, workerVars, WorkerTypes, NoJob
<1>7. \A w \in Workers : job[w] # NoJob => job'[w] = job[w] /\ jobs'[job[w]] = jobs[job[w]]
  BY <1>0, <1>1, <1>5 DEF Held, workerVars, WorkerTypes, NoJob
<1>8. \A w \in Workers : step[w] \in PassSteps => job[w] # NoJob
  BY <1>0 DEF Held, PassSteps
<1>9. Passes'
  BY <1>0, <1>1, <1>7, <1>8 DEF Passes, workerVars, Type
<1> QED BY <1>5, <1>6, <1>9

-----------------------------------------------------------------------------
(* Workers.  A step keeps the worker at its job, takes one or leaves one.  *)

Worked(w) ==
    Work(w) \/ CallFails(w) \/ StatusFails(w) \/ JobFails(w) \/ FinishFails(w) \/ Crash(w)

Stays(w) ==
    /\ UNCHANGED <<jobVars, job>>
    /\ step[w] \in {"idle", "batch"} <=> step'[w] \in {"idle", "batch"}

Takes(w) ==
    \E j \in JobId :
       /\ step[w] = "batch" /\ step'[w] = "claimed"
       /\ ClaimJob(j) /\ queued' = queued
       /\ job' = [job EXCEPT ![w] = j]
       /\ UNCHANGED <<corpusVars, remote, cur, bad>>

Leaves(w) ==
    /\ step'[w] \in {"idle", "batch"} /\ queued' = queued
    /\ job' = [job EXCEPT ![w] = NoJob]
    /\ cur' = [cur EXCEPT ![w] = NoDoc] /\ bad' = [bad EXCEPT ![w] = FALSE]
    /\ \/ jobs' = jobs
       \/ /\ step[w] \in {"finish", "abort"}
          /\ \E s \in {"running", "done", "failed"} : jobs' = [jobs EXCEPT ![job[w]].status = s]

OthersRest(w) ==
    \A v \in Workers \ {w} :
       UNCHANGED <<step[v], batch[v], job[v], seen[v], dels[v], ings[v], cur[v], bad[v]>>

LEMMA WorkerTyped ==
    ASSUME TypeInv, NEW w \in Workers, Worked(w)
    PROVE  /\ CorpusTypes' /\ WorkerTypes' /\ OtherTypes'
           /\ UNCHANGED <<roomVars, requestVars>>
           /\ OthersRest(w)
           /\ Stays(w) \/ Takes(w) \/ Leaves(w)
<1>0. /\ RoomTypes /\ CorpusTypes /\ JobTypes /\ WorkerTypes /\ OtherTypes
      /\ Rows /\ Held /\ Passes
  BY TypeParts DEF TypeInv
<1>a. job[w] # NoJob => job[w] \in JobId
  BY <1>0 DEF WorkerTypes
<1>b. step[w] \notin {"idle", "batch"} =>
         /\ job[w] \in JobId /\ jobs[job[w]] \in Job
         /\ Type(w) = "delete_doc" => jobs[job[w]].doc \in Docs
  BY <1>0, <1>a DEF Held, JobTypes, Rows, Type
<1> USE DEF Go
<1> DEFINE P == /\ CorpusTypes' /\ WorkerTypes' /\ OtherTypes'
                /\ UNCHANGED <<roomVars, requestVars>>
                /\ OthersRest(w)
                /\ Stays(w) \/ Takes(w) \/ Leaves(w)
<1>1. CASE ListPending(w)
  <2>1. CorpusTypes' /\ OtherTypes'
    BY <1>0, <1>1, TypesKept DEF ListPending, OtherTypes
  <2>2. WorkerTypes'
    BY <1>0, <1>1 DEF ListPending, WorkerTypes, Pending
  <2> QED BY <1>0, <1>1, <2>1, <2>2 DEF ListPending, OthersRest, Stays, WorkerTypes
<1>2. CASE Claim(w)
  <2>1. PICK j \in batch[w] :
           /\ batch' = [batch EXCEPT ![w] = @ \ {j}]
           /\ \/ /\ ClaimJob(j)
                 /\ Go(w, "batch", "claimed")
                 /\ job' = [job EXCEPT ![w] = j]
              \/ /\ jobs[j].status # "pending"
                 /\ Go(w, "batch", IF batch[w] = {j} THEN "idle" ELSE "batch")
                 /\ UNCHANGED <<jobs, job>>
    BY <1>2 DEF Claim
  <2>2. CorpusTypes' /\ OtherTypes'
    BY <1>0, <1>2, TypesKept DEF Claim, OtherTypes
  <2>3. j \in JobId
    BY <1>0, <2>1 DEF WorkerTypes
  <2>4. WorkerTypes'
    BY <1>0, <1>2, <2>1, <2>3 DEF Claim, WorkerTypes, JobSteps
  <2>5. OthersRest(w) /\ UNCHANGED <<roomVars, requestVars>>
    BY <1>0, <1>2, <2>1 DEF Claim, WorkerTypes, OthersRest
  <2>6. Stays(w) \/ Takes(w)
    BY <1>0, <1>2, <2>1, <2>3 DEF Claim, Stays, Takes, WorkerTypes, jobVars, corpusVars
  <2> QED BY <2>2, <2>4, <2>5, <2>6
<1>3. CASE LoadRoom(w)
  <2>1. CorpusTypes' /\ OtherTypes'
    BY <1>0, <1>3 DEF LoadRoom, OtherTypes, CorpusTypes
  <2>2. WorkerTypes'
    BY <1>0, <1>3, <1>b DEF LoadRoom, WorkerTypes, JobSteps, DocSteps, RoomTypes
  <2> QED BY <1>0, <1>3, <2>1, <2>2 DEF LoadRoom, OthersRest, Stays, WorkerTypes
<1>4. CASE Align(w) \/ WriteRows(w) \/ ListRows(w)
  <2>1. CorpusTypes' /\ OtherTypes'
    BY <1>0, <1>4 DEF Align, WriteRows, ListRows, OtherTypes, CorpusTypes, Aligned, corpusVars
  <2>2. WorkerTypes'
    BY <1>0, <1>4 DEF Align, WriteRows, ListRows, WorkerTypes, JobSteps, Active, RoomTypes
  <2> QED BY <1>0, <1>4, <2>1, <2>2 DEF Align, WriteRows, ListRows, OthersRest, Stays, WorkerTypes
<1>5. CASE NextRow(w)
  <2>1. CorpusTypes' /\ OtherTypes'
    BY <1>0, <1>5, TypesKept DEF NextRow, OtherTypes
  <2>2. WorkerTypes'
    BY <1>0, <1>5 DEF NextRow, WorkerTypes, JobSteps, DocSteps
  <2> QED BY <1>0, <1>5, <2>1, <2>2 DEF NextRow, OthersRest, Stays, WorkerTypes
<1>6. ASSUME NEW to, to \in DocSteps \/ to = Rest(w), NEW from \in DocSteps, DocStep(w, from, to)
      PROVE  /\ UNCHANGED <<roomVars, requestVars, corpus>> /\ Stays(w)
             /\ WorkerTypes' \/ bad' # bad
             /\ bad' = [bad EXCEPT ![w] = TRUE] => WorkerTypes'
             /\ bad' = bad \/ bad' = [bad EXCEPT ![w] = TRUE] => OthersRest(w)
  <2>1. to \notin {"idle", "batch"} /\ to \in {"idle", "batch"} \cup JobSteps \cup DocSteps
    BY <1>6 DEF Rest, JobSteps, DocSteps
  <2>2. step[w] \notin {"idle", "batch"}
    BY <1>6 DEF DocStep, DocSteps
  <2> QED BY <1>0, <1>6, <2>1, <2>2 DEF DocStep, Stays, OthersRest, WorkerTypes
<1>7. CASE Check(w)
  <2>1. \E to \in DocSteps : DocStep(w, "check", to)
    BY <1>7 DEF Check, DocSteps
  <2> QED BY <1>0, <1>6, <1>7, <2>1, TypesKept DEF Check, corpusVars, OtherTypes, DocSteps
<1>8. CASE Exclude(w) \/ BeginIngest(w) \/ MarkSynced(w) \/ MarkDeleted(w)
  <2>1. CorpusTypes' /\ OtherTypes'
    BY <1>0, <1>8 DEF Exclude, BeginIngest, MarkSynced, MarkDeleted, DocStep, SetStatus, CorpusTypes, OtherTypes
  <2> QED BY <1>6, <1>8, <2>1 DEF Exclude, BeginIngest, MarkSynced, MarkDeleted, DocSteps
<1>9. CASE Ingest(w) \/ Purge(w)
  <2>1. cur[w] \in Docs
    BY <1>0, <1>9 DEF Ingest, Purge, DocStep, Passes, DocSteps
  <2>2. CorpusTypes' /\ OtherTypes'
    BY <1>0, <1>9, <2>1 DEF Ingest, Purge, DocStep, CorpusTypes, OtherTypes
  <2> QED BY <1>6, <1>9, <2>2 DEF Ingest, Purge, DocSteps
<1>10. CASE CallFails(w)
  <2>1. cur[w] \in Docs
    BY <1>0, <1>10 DEF CallFails, DocStep, Passes, DocSteps
  <2>2. CorpusTypes' /\ OtherTypes'
    BY <1>0, <1>10, <2>1, ConstantsAssumption DEF CallFails, DocStep, CorpusTypes, OtherTypes, Fault
  <2> QED BY <1>6, <1>10, <2>2 DEF CallFails, DocSteps
<1>11. CASE StatusFails(w)
  <2>1. CorpusTypes' /\ OtherTypes'
    BY <1>0, <1>11, ConstantsAssumption DEF StatusFails, DocStep, CorpusTypes, OtherTypes, Fault
  <2> QED BY <1>6, <1>11, <2>1 DEF StatusFails, DocSteps
<1>12. CASE FailDoc(w)
  <2>1. CorpusTypes' /\ OtherTypes'
    BY <1>0, <1>12 DEF FailDoc, DocStep, SetStatus, CorpusTypes, OtherTypes
  <2> QED BY <1>6, <1>12, <2>1 DEF FailDoc, DocSteps
<1>13. CASE Publish(w) \/ JobFails(w)
  <2>1. CorpusTypes' /\ OtherTypes'
    BY <1>0, <1>13, ConstantsAssumption DEF Publish, JobFails, CorpusTypes, OtherTypes, Fault, corpusVars
  <2>2. WorkerTypes'
    BY <1>0, <1>13 DEF Publish, JobFails, WorkerTypes, JobSteps
  <2> QED BY <1>0, <1>13, <2>1, <2>2 DEF Publish, JobFails, OthersRest, Stays, WorkerTypes
<1>14. ASSUME NEW from \in {"finish", "abort"}, NEW s \in {"running", "done", "failed"}, Release(w, from, s)
       PROVE  /\ WorkerTypes' /\ UNCHANGED <<roomVars, requestVars, binding, remote>>
              /\ OthersRest(w) /\ Leaves(w)
  <2>1. WorkerTypes' /\ OthersRest(w)
    BY <1>0, <1>14 DEF Release, WorkerTypes, OthersRest
  <2>2. Leaves(w)
    BY <1>0, <1>14 DEF Release, WorkerTypes, Leaves
  <2> QED BY <1>14, <2>1, <2>2 DEF Release
<1>15. CASE FinishJob(w) \/ AbortJob(w) \/ FinishFails(w)
  <2>1. \E from \in {"finish", "abort"}, s \in {"running", "done", "failed"} : Release(w, from, s)
    BY <1>15 DEF FinishJob, AbortJob, FinishFails
  <2>2. CorpusTypes' /\ OtherTypes'
    BY <1>0, <1>14, <1>15, <2>1, ConstantsAssumption
       DEF FinishJob, AbortJob, FinishFails, AfterAbort, CorpusTypes, OtherTypes, Fault
  <2> QED BY <1>14, <2>1, <2>2
<1>16. CASE Crash(w)
  <2>1. CorpusTypes' /\ OtherTypes'
    BY <1>0, <1>16, TypesKept, ConstantsAssumption DEF Crash, OtherTypes, Fault
  <2>2. WorkerTypes' /\ OthersRest(w)
    BY <1>0, <1>16 DEF Crash, WorkerTypes, OthersRest
  <2> QED BY <1>0, <1>16, <2>1, <2>2 DEF Crash, Leaves, WorkerTypes, jobVars
<1> QED BY <1>1, <1>2, <1>3, <1>4, <1>5, <1>7, <1>8, <1>9, <1>10, <1>11, <1>12, <1>13, <1>15, <1>16
        DEF Worked, Work

\* A worker that stays at its job is where its kind of job takes it.
LEMMA StaysPasses ==
    ASSUME TypeInv, NEW w \in Workers, Worked(w), Stays(w)
    PROVE  Passes'
<1>0. JobTypes /\ WorkerTypes /\ Rows /\ Held /\ Passes /\ OthersRest(w)
  BY TypeParts, WorkerTyped DEF TypeInv
<1>1. jobs' = jobs /\ job' = job
  BY DEF Stays, jobVars
<1>2. step[w] \notin {"idle", "batch"} =>
         /\ job[w] \in JobId /\ Type(w) \in {"sync_room", "delete_doc"}
         /\ Type(w) = "delete_doc" => jobs[job[w]].doc \in Docs
  BY <1>0 DEF Held, WorkerTypes, Rows, Type
<1> DEFINE Q == /\ step'[w] \in PassSteps => Type(w) = "sync_room"
                /\ step'[w] \in {"idle", "batch", "claimed"} => cur'[w] = NoDoc /\ ~bad'[w]
                /\ step'[w] \in DocSteps => cur'[w] \in Docs
<1> USE DEF Go, PassSteps, DocSteps
<1>3. Q
  <2>1. CASE ListPending(w) \/ Claim(w)
    BY <1>0, <2>1 DEF ListPending, Claim, WorkerTypes, Passes
  <2>2. CASE LoadRoom(w)
    BY <1>0, <1>2, <2>2 DEF LoadRoom, WorkerTypes, Passes
  <2>3. CASE Align(w) \/ WriteRows(w) \/ ListRows(w) \/ NextRow(w) \/ Publish(w) \/ JobFails(w)
    BY <1>0, <2>3 DEF Align, WriteRows, ListRows, NextRow, Publish, JobFails, WorkerTypes, Passes
  <2>4. ASSUME NEW from \in DocSteps, NEW to, DocStep(w, from, to),
               \/ to = Rest(w)
               \/ to \in {"purge", "purged", "refused"}
               \/ to \in DocSteps /\ from \in PassSteps
        PROVE  Q
    BY <1>0, <1>2, <2>4 DEF DocStep, Rest, WorkerTypes, Passes
  <2>5. CASE Check(w) \/ Exclude(w) \/ BeginIngest(w) \/ Ingest(w) \/ MarkSynced(w) \/ Purge(w)
             \/ MarkDeleted(w) \/ FailDoc(w) \/ CallFails(w) \/ StatusFails(w)
    BY <2>4, <2>5 DEF Check, Exclude, BeginIngest, Ingest, MarkSynced, Purge, MarkDeleted, FailDoc,
                      CallFails, StatusFails
  <2>6. CASE FinishJob(w) \/ AbortJob(w) \/ FinishFails(w) \/ Crash(w)
    BY <1>0, <1>1, <2>6 DEF FinishJob, AbortJob, FinishFails, Release, Crash, Held, WorkerTypes
  <2> QED BY <2>1, <2>2, <2>3, <2>5, <2>6 DEF Worked, Work
<1>4. \A v \in Workers : Type(v)' = Type(v)
  BY <1>1 DEF Type
<1> QED BY <1>0, <1>3, <1>4 DEF Passes, OthersRest

\* What a step of a worker leaves of each job.
LEMMA WorkerJobs ==
    ASSUME TypeInv, NEW w \in Workers, Worked(w)
    PROVE  /\ JobTypes' /\ Rows' /\ Held' /\ Passes' /\ queued' = queued
           /\ \A j \in JobId :
                 /\ jobs'[j].type = jobs[j].type /\ jobs'[j].doc = jobs[j].doc
                 /\ \/ jobs'[j] = jobs[j]
                    \/ /\ jobs[j].status = "pending" /\ jobs'[j].status = "running"
                       /\ Takes(w) /\ job'[w] = j
                    \/ /\ jobs'[j].status \in {"running", "done", "failed"}
                       /\ job[w] = j /\ Leaves(w) /\ step[w] \in {"finish", "abort"}
<1>0. JobTypes /\ WorkerTypes /\ Rows /\ Held /\ Passes
  BY TypeParts DEF TypeInv
<1>1. OthersRest(w) /\ (Stays(w) \/ Takes(w) \/ Leaves(w)) /\ WorkerTypes'
  BY WorkerTyped
<1>2. job[w] # NoJob => job[w] \in JobId /\ jobs[job[w]].status = "running"
  BY <1>0 DEF WorkerTypes, Held
<1>3. step[w] \in {"finish", "abort"} => job[w] # NoJob
  BY <1>0 DEF Held
<1> DEFINE Kept == \A j \in JobId :
                 /\ jobs'[j].type = jobs[j].type /\ jobs'[j].doc = jobs[j].doc
                 /\ \/ jobs'[j] = jobs[j]
                    \/ /\ jobs[j].status = "pending" /\ jobs'[j].status = "running"
                       /\ Takes(w) /\ job'[w] = j
                    \/ /\ jobs'[j].status \in {"running", "done", "failed"}
                       /\ job[w] = j /\ Leaves(w) /\ step[w] \in {"finish", "abort"}
<1>4. CASE Stays(w)
  <2>1. JobTypes' /\ Rows' /\ queued' = queued /\ Kept
    BY <1>0, <1>4 DEF Stays, JobTypes, Rows, jobVars
  <2>2. Held'
    BY <1>0, <1>1, <1>4 DEF Stays, Held, OthersRest, WorkerTypes, jobVars
  <2>3. Passes'
    BY <1>0, <1>1, <1>4, StaysPasses
  <2> QED BY <2>1, <2>2, <2>3
<1>5. CASE Takes(w)
  <2>1. PICK j \in JobId :
           /\ step[w] = "batch" /\ step'[w] = "claimed"
           /\ ClaimJob(j) /\ queued' = queued
           /\ job' = [job EXCEPT ![w] = j]
           /\ UNCHANGED <<corpusVars, remote, cur, bad>>
    BY <1>5 DEF Takes
  <2>2. /\ jobs' = [jobs EXCEPT ![j].status = "running"] /\ jobs[j].status = "pending"
        /\ jobs'[j].status = "running" /\ \A i \in JobId \ {j} : jobs'[i] = jobs[i]
    BY <1>0, <2>1 DEF ClaimJob, JobTypes, Job
  <2>3. JobTypes'
    BY <1>0, <2>1, <2>2 DEF JobTypes, Job
  <2>4. job'[w] = j /\ Kept
    BY <1>0, <1>5, <2>1, <2>2 DEF JobTypes, Job, WorkerTypes
  <2>5. Rows'
    BY <1>0, <2>1, <2>2, <2>4 DEF Rows
  <2>6. \A v \in Workers : job[v] # j /\ (v # w => job'[v] = job[v] /\ step'[v] = step[v])
    BY <1>0, <1>1, <2>1, <2>2 DEF Held, OthersRest, JobId, NoJob
  <2>7. Held'
    BY <1>0, <2>1, <2>2, <2>4, <2>6 DEF Held, WorkerTypes, JobId, NoJob
  <2>8. \A v \in Workers \ {w} : job[v] # NoJob => Type(v)' = Type(v)
    BY <1>0, <2>2, <2>4, <2>6 DEF Type, WorkerTypes
  <2>9. Passes'
    BY <1>0, <1>1, <2>1, <2>8 DEF Passes, PassSteps, DocSteps, Held, OthersRest
  <2> QED BY <2>1, <2>3, <2>4, <2>5, <2>7, <2>9
<1>6. CASE Leaves(w)
  <2>1. /\ queued' = queued /\ step'[w] \in {"idle", "batch"} /\ job'[w] = NoJob
        /\ cur'[w] = NoDoc /\ bad'[w] = FALSE
        /\ \A v \in Workers \ {w} : job'[v] = job[v] /\ step'[v] = step[v] /\ cur'[v] = cur[v]
                                    /\ bad'[v] = bad[v]
    BY <1>0, <1>1, <1>6 DEF Leaves, WorkerTypes, OthersRest
  <2>2. /\ JobTypes'
        /\ \A j \in JobId : j = job[w] \/ jobs'[j] = jobs[j]
        /\ jobs' = jobs \/ step[w] \in {"finish", "abort"}
        /\ job[w] # NoJob => /\ jobs'[job[w]].status \in {"running", "done", "failed"}
                             /\ jobs'[job[w]].type = jobs[job[w]].type
                             /\ jobs'[job[w]].doc = jobs[job[w]].doc
    BY <1>0, <1>2, <1>3, <1>6 DEF Leaves, JobTypes, Job
  <2>3. Kept
    BY <1>2, <1>3, <1>6, <2>2 DEF NoJob, JobId
  <2>4. Rows'
    <3>1. \A j \in JobId : jobs'[j].status = "none" <=> jobs[j].status = "none"
      BY <1>2, <2>2 DEF NoJob, JobId
    <3> QED BY <1>0, <2>1, <2>3, <3>1 DEF Rows
  <2>5. \A v \in Workers \ {w} : job[v] # NoJob => jobs'[job[v]] = jobs[job[v]]
    BY <1>0, <2>2 DEF Held, WorkerTypes
  <2>6. Held'
    BY <1>0, <2>1, <2>5 DEF Held
  <2>7. Passes'
    BY <1>0, <2>1, <2>5 DEF Passes, PassSteps, DocSteps, Held, Type
  <2> QED BY <2>1, <2>2, <2>3, <2>4, <2>6, <2>7
<1> QED BY <1>1, <1>4, <1>5, <1>6

LEMMA Steps ==
    ASSUME [Next]_vars
    PROVE  \/ \E r \in Requests : Requested(r)
           \/ \E w \in Workers : Worked(w)
           \/ UNCHANGED vars
BY DEF Next, Requested, Worked

\* Only the step that begins a job may share documents, and only a delete that
\* purges alone ends that.
LEMMA Begins ==
    ASSUME TypeInv, NEW w \in Workers, Worked(w)
    PROVE  \/ shared' = shared /\ (step[w] = "claimed" => step'[w] = "idle")
           \/ step[w] = "claimed" /\ shared' = shared \cup (About(w) \cap HeldByOthers(w))
           \/ /\ Purge(w) /\ Type(w) = "delete_doc"
              /\ shared' = shared \ (About(w) \ HeldByOthers(w))
<1>1. CASE Crash(w)
  BY <1>1, TypeParts DEF Crash, TypeInv, WorkerTypes
<1>2. CASE ~Crash(w)
  BY <1>2 DEF Worked, Work, Go, ListPending, Claim, LoadRoom, Align, WriteRows, ListRows, NextRow,
              DocStep, Check, Exclude, BeginIngest, Ingest, MarkSynced, Purge, MarkDeleted,
              FailDoc, Publish, Release, FinishJob, AbortJob, CallFails, StatusFails, JobFails,
              FinishFails, SharedAfter, Rest
<1> QED BY <1>1, <1>2

LEMMA TypeStep == TypeInv /\ [Next]_vars => TypeInv'
<1> SUFFICES ASSUME TypeInv, [Next]_vars PROVE TypeInv'
  OBVIOUS
<1>0. /\ RoomTypes /\ CorpusTypes /\ JobTypes /\ RequestTypes /\ WorkerTypes /\ OtherTypes
      /\ SharedType /\ Named /\ Rows /\ Held /\ Passes
  BY TypeParts DEF TypeInv
<1>1. ASSUME NEW r \in Requests, Requested(r) PROVE TypeInv'
  <2>1. JobTypes' /\ Rows' /\ Held' /\ Passes'
    BY <1>1, RequestJobs
  <2>2. /\ RoomTypes' /\ CorpusTypes' /\ RequestTypes' /\ Named'
        /\ UNCHANGED <<remote, workerVars>> /\ faults' \in 0..MaxFaults
    BY <1>1, RequestTyped
  <2>3. WorkerTypes' /\ OtherTypes' /\ SharedType'
    BY <1>0, <2>2, TypesKept DEF OtherTypes, SharedType, workerVars
  <2> QED BY <2>1, <2>2, <2>3, TypeParts DEF TypeInv
<1>2. ASSUME NEW w \in Workers, Worked(w) PROVE TypeInv'
  <2>1. JobTypes' /\ Rows' /\ Held' /\ Passes'
    BY <1>2, WorkerJobs
  <2>2. CorpusTypes' /\ WorkerTypes' /\ OtherTypes' /\ UNCHANGED <<roomVars, requestVars>>
    BY <1>2, WorkerTyped
  <2>3. RoomTypes' /\ RequestTypes' /\ Named'
    BY <1>0, <2>2, TypesKept DEF Named, requestVars
  <2>4. SharedType'
    BY <1>0, <1>2, Begins DEF SharedType, About
  <2> QED BY <2>1, <2>2, <2>3, <2>4, TypeParts DEF TypeInv
<1>3. CASE UNCHANGED vars
  <2>1. /\ UNCHANGED <<roomVars, corpusVars, jobVars, requestVars, workerVars>>
        /\ remote' = remote /\ faults' = faults
    BY <1>3 DEF vars, corpusVars
  <2>2. OtherTypes' /\ SharedType' /\ Named' /\ Rows' /\ Held' /\ Passes'
    BY <1>0, <2>1 DEF OtherTypes, SharedType, Named, Rows, Held, Passes, Type, requestVars, jobVars, workerVars
  <2> QED BY <1>0, <2>1, <2>2, TypesKept, TypeParts DEF TypeInv
<1> QED BY <1>1, <1>2, <1>3, Steps

THEOREM TypeInvariant == Spec => []TypeInv
BY TypeInit, TypeStep, PTL DEF Spec

\* Every variable keeps its type: knowledge_sync_jobs, the rows of
\* deal_room_documents and deal_room_rag_documents, and the workers' state.
THEOREM TypeCorrect == Spec => []TypeOK
BY TypeInvariant, PTL DEF TypeInv

-----------------------------------------------------------------------------
(* Jobs and the badge, for any number of workers.                          *)

\* A job that was cancelled by DeleteRoom, or that ended, is never run again,
\* whatever list a worker of some replica still has it on.
THEOREM EndedJobsStay == Spec => EndedJobStays
<1>1. ASSUME TypeInv, [Next]_vars, NEW j \in JobId, jobs[j].status \in {"done", "failed"}
      PROVE  jobs'[j] = jobs[j]
  <2>1. ASSUME NEW r \in Requests, Requested(r) PROVE jobs'[j] = jobs[j]
    BY <1>1, <2>1, RequestJobs
  <2>2. ASSUME NEW w \in Workers, Worked(w) PROVE jobs'[j] = jobs[j]
    <3>1. job[w] = j => jobs[j].status = "running"
      BY <1>1 DEF TypeInv, Held, NoJob, JobId
    <3> QED BY <1>1, <2>2, <3>1, WorkerJobs
  <2>3. CASE UNCHANGED vars
    BY <2>3 DEF vars, jobVars
  <2> QED BY <1>1, <2>1, <2>2, <2>3, Steps
<1>2. TypeInv /\ [Next]_vars
        => [\A j \in JobId : jobs[j].status \in {"done", "failed"} => jobs'[j] = jobs[j]]_vars
  BY <1>1
<1> QED BY <1>2, TypeInvariant, PTL DEF Spec, EndedJobStays

\* A sync job that will still touch the badge: it waits, or it runs and whoever
\* holds it has not yet loaded the room, or is about to write its failure.
Open(j) ==
    /\ jobs[j].type = "sync_room"
    /\ \/ jobs[j].status = "pending"
       \/ /\ jobs[j].status = "running"
          /\ \A w \in Workers : job[w] = j => step[w] \in {"claimed", "abort"}

BadgeOwed ==
    corpus = "syncing" =>
        \/ deleted
        \/ \E r \in Requests : at[r] \in {"queueing", "dead", "asked"}
        \/ \E j \in JobId : Open(j)

LEMMA BadgeAfterRequest ==
    ASSUME TypeInv, BadgeOwed, NEW r \in Requests, Requested(r)
    PROVE  BadgeOwed'
<1>0. RequestTypes /\ WorkerTypes /\ JobTypes
  BY TypeParts DEF TypeInv
<1>1. UNCHANGED workerVars
  BY RequestTyped
<1>2. ASSUME NEW j \in JobId, Open(j), ~DeleteRoom(r) PROVE Open(j)'
  BY <1>1, <1>2, RequestJobs DEF Open, workerVars
<1> USE DEF Goto
<1>3. CASE QueryNotReady(r) \/ MarkSyncing(r)
  <2>1. at'[r] \in {"queueing", "asked"}
    BY <1>0, <1>3 DEF QueryNotReady, MarkSyncing, RequestTypes
  <2> QED BY <2>1 DEF BadgeOwed
<1>4. CASE EnqueueSync(r)
  <2>1. PICK j \in JobId : j = queued + 1
    BY <1>0, <1>4, ConstantsAssumption DEF EnqueueSync, EnqueueJob, JobTypes, JobId
  <2>2. Open(j)'
    BY <1>0, <1>4, <2>1 DEF EnqueueSync, EnqueueJob, JobTypes, Open
  <2> QED BY <2>1, <2>2 DEF BadgeOwed
<1>5. CASE DeleteRoom(r)
  <2>1. deleted'
    BY <1>5 DEF DeleteRoom, roomVars
  <2> QED BY <2>1 DEF BadgeOwed
<1>6. CASE RequestFails(r) \/ EnqueueDeleteFails(r)
  <2>1. /\ corpus' = corpus /\ deleted' = deleted
        /\ \A s \in Requests : at[s] \in {"queueing", "dead", "asked"}
                                 => at'[s] \in {"queueing", "dead", "asked"}
    BY <1>0, <1>6 DEF RequestFails, EnqueueDeleteFails, RequestTypes, corpusVars, roomVars
  <2>2. ~DeleteRoom(r)
    BY <1>0, <1>6, TypeParts DEF RequestFails, EnqueueDeleteFails, DeleteRoom, Fault, TypeInv, OtherTypes
  <2> QED BY <1>2, <2>1, <2>2 DEF BadgeOwed
<1>7. CASE \/ BeginRequest(r) \/ AddDocument(r) \/ RemoveDocument(r)
           \/ (\E fs \in SUBSET Folders : SaveFolders(r, fs))
           \/ (\E ds \in SUBSET Docs : LockDocuments(r, ds))
           \/ (\E d \in Docs : WithdrawBinding(r, d))
           \/ EnqueueDelete(r) \/ ListActive(r) \/ AlignRows(r) \/ Reconcile(r) \/ HealBadge(r)
  <2>1. /\ corpus' = "syncing" => corpus = "syncing"
        /\ deleted' = deleted
    BY <1>7 DEF BeginRequest, LoadForLocks, LoadForDelete, LoadForSync, LoadCorpus, LoadForAdd,
                LoadForRemove, AddDocument, RemoveDocument, SaveFolders, LockDocuments,
                WithdrawBinding, EnqueueDelete, ListActive, AlignRows, Reconcile, HealBadge,
                corpusVars, roomVars
  <2>2. \A s \in Requests : at[s] \in {"queueing", "dead", "asked"} => at'[s] = at[s]
    BY <1>0, <1>7
       DEF BeginRequest, LoadForLocks, LoadForDelete, LoadForSync, LoadCorpus, LoadForAdd,
           LoadForRemove, AddDocument, RemoveDocument, SaveFolders, LockDocuments,
           WithdrawBinding, EnqueueDelete, ListActive, AlignRows, Reconcile, HealBadge,
           RequestTypes
  <2>3. ~DeleteRoom(r) \/ deleted
    BY <1>0, <1>7, <2>1 DEF DeleteRoom
  <2> QED BY <1>2, <2>1, <2>2, <2>3 DEF BadgeOwed
<1> QED BY <1>3, <1>4, <1>5, <1>6, <1>7 DEF Requested, ContinueRequest

LEMMA BadgeAfterWorker ==
    ASSUME TypeInv, BadgeOwed, NEW w \in Workers, Worked(w)
    PROVE  BadgeOwed'
<1>0. RequestTypes /\ WorkerTypes /\ JobTypes /\ Held /\ Passes /\ Rows
  BY TypeParts DEF TypeInv
<1>1. OthersRest(w) /\ UNCHANGED <<roomVars, requestVars>>
  BY WorkerTyped
<1> USE DEF Go
\* A worker that has a sync job loads the room, or fails, or dies: in the first
\* two cases the badge changes with the job's being settled.
<1>2. ASSUME corpus' = "syncing", ~deleted
      PROVE  /\ corpus = "syncing"
             /\ \A j \in JobId : Open(j) /\ job[w] = j =>
                   (job'[w] = NoJob /\ jobs' = jobs) \/ (step'[w] = "abort" /\ job'[w] = j)
  <2> DEFINE R == /\ corpus = "syncing"
                  /\ \A j \in JobId : Open(j) /\ job[w] = j =>
                        (job'[w] = NoJob /\ jobs' = jobs) \/ (step'[w] = "abort" /\ job'[w] = j)
  <2>1. \A j \in JobId : Open(j) /\ job[w] = j =>
           step[w] \in {"claimed", "abort"} /\ Type(w) = "sync_room"
    BY <1>0 DEF Open, Held, Type, NoJob, JobId
  <2>2. CASE ListPending(w) \/ Claim(w)
    BY <1>0, <1>2, <2>1, <2>2 DEF ListPending, Claim, corpusVars
  <2>3. CASE LoadRoom(w)
    BY <1>0, <1>2, <2>1, <2>3 DEF LoadRoom
  <2>4. CASE Align(w) \/ WriteRows(w) \/ ListRows(w) \/ NextRow(w) \/ Publish(w)
    BY <1>0, <1>2, <2>1, <2>4 DEF Align, WriteRows, ListRows, NextRow, Publish, corpusVars
  <2>5. CASE \E from \in DocSteps, to \in DocSteps \cup {Rest(w)} : DocStep(w, from, to)
    BY <1>0, <1>2, <2>1, <2>5 DEF DocStep, DocSteps
  <2>6. CASE Check(w) \/ Exclude(w) \/ BeginIngest(w) \/ Ingest(w) \/ MarkSynced(w) \/ Purge(w)
             \/ MarkDeleted(w) \/ FailDoc(w) \/ CallFails(w) \/ StatusFails(w)
    BY <2>5, <2>6 DEF Check, Exclude, BeginIngest, Ingest, MarkSynced, Purge, MarkDeleted, FailDoc,
                      CallFails, StatusFails, DocSteps
  <2>7. CASE JobFails(w)
    BY <1>0, <1>2, <2>1, <2>7 DEF JobFails, corpusVars, WorkerTypes
  <2>8. CASE FinishJob(w) \/ AbortJob(w) \/ FinishFails(w)
    <3>1. \/ step[w] = "finish" /\ corpus' = corpus
          \/ step[w] = "abort" /\ corpus' = AfterAbort(w)
      BY <2>8 DEF FinishJob, AbortJob, FinishFails, Release
    <3> QED BY <1>2, <2>1, <3>1 DEF AfterAbort
  <2>9. CASE Crash(w)
    BY <1>0, <1>2, <2>9 DEF Crash, WorkerTypes, corpusVars, jobVars
  <2> QED BY <2>2, <2>3, <2>4, <2>6, <2>7, <2>8, <2>9 DEF Worked, Work
<1>3. CASE corpus' # "syncing" \/ deleted
  <2>1. deleted' = deleted
    BY <1>1 DEF roomVars
  <2> QED BY <1>3, <2>1 DEF BadgeOwed
<1>4. CASE corpus' = "syncing" /\ ~deleted
  <2>1. CASE \E r \in Requests : at[r] \in {"queueing", "dead", "asked"}
    BY <1>1, <2>1 DEF BadgeOwed, requestVars
  <2>2. CASE \E j \in JobId : Open(j)
    <3>1. PICK j \in JobId : Open(j)
      BY <2>2
    <3>2. /\ jobs'[j].type = "sync_room" /\ jobs'[j].status \in {"pending", "running"}
          /\ \A v \in Workers : job'[v] = j => step'[v] \in {"claimed", "abort"}
      <4>1. /\ jobs'[j].type = "sync_room"
            /\ \/ jobs'[j] = jobs[j]
               \/ /\ jobs[j].status = "pending" /\ jobs'[j].status = "running"
                  /\ Takes(w) /\ job'[w] = j
               \/ job[w] = j /\ Leaves(w)
        BY <3>1, WorkerJobs DEF Open
      <4>2. \A v \in Workers : job[v] = j => step[v] \in {"claimed", "abort"} /\ jobs[j].status = "running"
        BY <1>0, <3>1 DEF Open, Held, NoJob, JobId
      <4>3. \A v \in Workers \ {w} : job'[v] = j => step'[v] \in {"claimed", "abort"}
        BY <1>1, <4>2 DEF OthersRest
      <4>4. CASE job[w] = j
        <5>1. (job'[w] = NoJob /\ jobs' = jobs) \/ (step'[w] = "abort" /\ job'[w] = j)
          BY <1>2, <1>4, <3>1, <4>4
        <5>2. jobs[j].status = "running"
          BY <4>2, <4>4
        <5>3. CASE job'[w] = NoJob /\ jobs' = jobs
          BY <3>1, <4>3, <5>2, <5>3 DEF Open, NoJob, JobId
        <5>4. CASE step'[w] = "abort" /\ job'[w] = j
          <6>1. jobs'[j] = jobs[j]
            BY <4>1, <5>2, <5>4 DEF Leaves
          <6> QED BY <3>1, <4>3, <5>2, <5>4, <6>1 DEF Open
        <5> QED BY <5>1, <5>3, <5>4
      <4>5. CASE job[w] # j
        <5>1. job'[w] = j => Takes(w)
          BY <1>0, <4>5, WorkerTyped DEF Stays, Leaves, WorkerTypes, NoJob, JobId
        <5> QED BY <3>1, <4>1, <4>3, <4>5, <5>1 DEF Open, Takes
      <4> QED BY <4>4, <4>5
    <3> QED BY <3>2 DEF BadgeOwed, Open
  <2> QED BY <1>2, <1>4, <2>1, <2>2 DEF BadgeOwed
<1> QED BY <1>3, <1>4

LEMMA BadgeStep == TypeInv /\ BadgeOwed /\ [Next]_vars => BadgeOwed'
<1> SUFFICES ASSUME TypeInv, BadgeOwed, [Next]_vars PROVE BadgeOwed'
  OBVIOUS
<1>1. CASE UNCHANGED vars
  BY <1>1 DEF vars, BadgeOwed, Open, roomVars, jobVars, requestVars, workerVars
<1> QED BY <1>1, BadgeAfterRequest, BadgeAfterWorker, Steps

\* worker.go:99: a live room shows "syncing" only while a job is open or being
\* queued, or after a request that died or a question that got no answer; so
\* with any number of replicas, crashes and jobs that fail.
THEOREM BadgeSettlesAlways == Spec => []BadgeSettles
<1>1. Init => BadgeOwed
  BY DEF Init, BadgeOwed
<1>2. BadgeOwed => BadgeSettles
  BY DEF BadgeOwed, BadgeSettles, Open, Busy
<1> QED BY <1>1, <1>2, BadgeStep, TypeInvariant, PTL DEF Spec

-----------------------------------------------------------------------------
(* The documents that workers have in hand.                                *)

\* A worker is at a document of its job, and a document that is not shared is in
\* one hand.
Own   == \A w \in Workers : cur[w] # NoDoc => cur[w] \in InHand(w)
Alone == \A v, w \in Workers : \A d \in InHand(v) \cap InHand(w) : d \in shared \/ v = w

Hands == Own /\ Alone

LEMMA HandsAfterRequest ==
    ASSUME TypeInv, NEW r \in Requests, Requested(r)
    PROVE  shared' = shared /\ \A w \in Workers : InHand(w)' = InHand(w)
<1>0. WorkerTypes /\ Held
  BY TypeParts DEF TypeInv
<1>1. UNCHANGED workerVars
  BY RequestTyped
<1>2. ASSUME NEW w \in Workers, step[w] \notin {"idle", "batch", "claimed"}
      PROVE  jobs'[job[w]] = jobs[job[w]]
  BY <1>0, <1>2, RequestJobs DEF Held, WorkerTypes
<1> QED BY <1>1, <1>2 DEF InHand, About, Type, workerVars

\* What a worker takes in hand while another has it is shared from then on.
LEMMA HandsAfterWorker ==
    ASSUME TypeInv, NEW w \in Workers, Worked(w)
    PROVE  /\ \A v \in Workers \ {w} : InHand(v)' = InHand(v)
           /\ \A d \in InHand(w)' :
                 \/ d \in InHand(w)
                 \/ \A v \in Workers \ {w} : d \in InHand(v) => d \in shared'
<1>0. WorkerTypes /\ JobTypes /\ Held /\ OthersRest(w) /\ (Stays(w) \/ Takes(w) \/ Leaves(w))
  BY TypeParts, WorkerTyped DEF TypeInv
<1>2. ASSUME NEW v \in Workers \ {w} PROVE InHand(v)' = InHand(v)
  <2>1. step'[v] = step[v] /\ job'[v] = job[v]
    BY <1>0, <1>2 DEF OthersRest
  <2>2. step[v] \notin {"idle", "batch", "claimed"} =>
           job[v] \in JobId
    BY <1>0 DEF Held, WorkerTypes
  <2> QED BY <2>1, <2>2, WorkerJobs DEF InHand, About, Type
<1>3. ASSUME NEW d \in InHand(w)', d \notin InHand(w), NEW v \in Workers \ {w}, d \in InHand(v)
      PROVE  d \in shared'
  <2>1. step'[w] \notin {"idle", "batch", "claimed"} /\ d \in About(w)'
    BY <1>3 DEF InHand
  <2>2. Stays(w) /\ step[w] \notin {"idle", "batch"}
    BY <1>0, <2>1 DEF Stays, Takes, Leaves
  <2>3. About(w)' = About(w)
    BY <2>2 DEF Stays, jobVars, About, Type
  <2>4. step[w] = "claimed"
    BY <1>3, <2>1, <2>2, <2>3 DEF InHand
  <2>5. d \in HeldByOthers(w)
    BY <1>3 DEF HeldByOthers
  <2> QED BY <2>1, <2>3, <2>4, <2>5, Begins DEF Purge, DocStep, Go
<1> QED BY <1>2, <1>3

\* A document that is shared no longer is purged by a delete job, alone.
LEMMA Forgets ==
    ASSUME TypeInv, Own, NEW w \in Workers, Worked(w), NEW d \in shared \ shared'
    PROVE  /\ step[w] = "purge" /\ step'[w] = "purged" /\ d \notin remote'
           /\ job'[w] = job[w] /\ job[w] # NoJob /\ Type(w) = "delete_doc" /\ Type(w)' = Type(w)
           /\ cur[w] = d /\ cur'[w] = d
           /\ \A v \in Workers \ {w} : d \notin InHand(v)
<1>0. WorkerTypes /\ Held /\ Passes
  BY TypeParts DEF TypeInv
<1>1. /\ Purge(w) /\ Type(w) = "delete_doc"
      /\ shared' = shared \ (About(w) \ HeldByOthers(w))
  BY Begins
<1>2. /\ step[w] = "purge" /\ step'[w] = "purged" /\ remote' = remote \ {cur[w]}
      /\ job' = job /\ jobs' = jobs /\ cur' = cur
  BY <1>0, <1>1 DEF Purge, DocStep, Go, WorkerTypes, jobVars
<1>3. cur[w] \in About(w)
  BY <1>0, <1>2, ConstantsAssumption DEF Own, InHand, Passes, DocSteps
<1>4. d = cur[w]
  BY <1>1, <1>3 DEF About
<1>5. \A v \in Workers \ {w} : d \notin InHand(v)
  BY <1>1 DEF HeldByOthers
<1> QED BY <1>0, <1>1, <1>2, <1>4, <1>5 DEF Held, Type

LEMMA HandsStep == TypeInv /\ Hands /\ [Next]_vars => Hands'
<1> SUFFICES ASSUME TypeInv, Hands, [Next]_vars PROVE Hands'
  OBVIOUS
<1>0. WorkerTypes /\ Held /\ Passes
  BY TypeParts DEF TypeInv
<1>1. ASSUME NEW r \in Requests, Requested(r) PROVE Hands'
  BY <1>1, HandsAfterRequest, RequestTyped DEF Hands, Own, Alone, workerVars
<1>2. ASSUME NEW w \in Workers, Worked(w) PROVE Hands'
  <2>0. WorkerTypes' /\ OthersRest(w) /\ (Stays(w) \/ Takes(w) \/ Leaves(w)) /\ Passes'
    BY <1>2, WorkerTyped, WorkerJobs
  <2>1. Alone'
    <3>1. ASSUME NEW v \in Workers, NEW u \in Workers, u # v, NEW d \in InHand(v)' \cap InHand(u)'
          PROVE  d \in shared'
      <4>1. \/ \E x \in Workers \ {w} : d \in InHand(x) /\ d \in shared'
            \/ d \in InHand(v) \cap InHand(u)
        BY <1>2, <3>1, HandsAfterWorker
      <4>2. CASE d \in InHand(v) \cap InHand(u)
        <5>1. d \in shared
          BY <3>1, <4>2 DEF Hands, Alone
        <5>2. \E x \in Workers \ {w} : d \in InHand(x)
          BY <3>1, <4>2
        <5> QED BY <1>2, <5>1, <5>2, Forgets DEF Hands
      <4> QED BY <4>1, <4>2
    <3> QED BY <3>1 DEF Alone
  <2>2. \A v \in Workers \ {w} : cur'[v] # NoDoc => cur'[v] \in InHand(v)'
    BY <1>2, <2>0, HandsAfterWorker DEF Hands, Own, OthersRest
  <2>3. ASSUME cur'[w] # NoDoc PROVE cur'[w] \in InHand(w)'
    <3>1. step'[w] \notin {"idle", "batch", "claimed"}
      BY <2>0, <2>3 DEF Passes
    <3>2. Stays(w) /\ step[w] \notin {"idle", "batch"}
      BY <2>0, <3>1 DEF Stays, Takes, Leaves
    <3>3. About(w)' = About(w) /\ cur'[w] \in Docs
      BY <2>0, <2>3, <3>2 DEF Stays, jobVars, About, Type, WorkerTypes
    <3>4. \/ cur'[w] = cur[w]
          \/ step[w] = "claimed" /\ cur'[w] = jobs[job[w]].doc
          \/ step[w] = "next"
      BY <1>0, <1>2, <3>2 DEF Worked, Work, Go, ListPending, Claim, LoadRoom, Align, WriteRows, ListRows,
              NextRow, DocStep, Check, Exclude, BeginIngest, Ingest, MarkSynced, Purge, MarkDeleted,
              FailDoc, Publish, Release, FinishJob, AbortJob, CallFails, StatusFails, JobFails,
              FinishFails, Crash, WorkerTypes, Stays
    <3>5. CASE cur'[w] = cur[w]
      <4>1. cur[w] \in InHand(w)
        BY <2>3, <3>5 DEF Hands, Own
      <4>2. cur[w] \in About(w)
        BY <4>1 DEF InHand
      <4> QED BY <3>1, <3>3, <3>5, <4>2 DEF InHand
    <3>6. CASE step[w] = "claimed" /\ cur'[w] = jobs[job[w]].doc
      BY <3>1, <3>3, <3>6 DEF InHand, About
    <3>7. CASE step[w] = "next"
      BY <1>0, <3>1, <3>3, <3>7 DEF InHand, About, Passes, PassSteps
    <3> QED BY <3>4, <3>5, <3>6, <3>7
  <2> QED BY <2>1, <2>2, <2>3 DEF Hands, Own
<1>3. CASE UNCHANGED vars
  BY <1>3 DEF vars, jobVars, workerVars, Hands, Own, Alone, InHand, About, Type
<1> QED BY <1>1, <1>2, <1>3, Steps

THEOREM HandsHold == Spec => []Hands
<1>1. Init => Hands
  BY DEF Init, Hands, Own, Alone, InHand
<1> QED BY <1>1, HandsStep, TypeInvariant, PTL DEF Spec

\* Several API replicas each run a worker; where one does, nothing is shared.
THEOREM OneWorkerSharesNothing ==
    ASSUME \A v, w \in Workers : v = w
    PROVE  Spec => [](shared = {})
<1>1. Init => shared = {}
  BY DEF Init
<1>2. ASSUME TypeInv, shared = {}, [Next]_vars PROVE shared' = {}
  <2>1. \A w \in Workers : HeldByOthers(w) = {}
    BY DEF HeldByOthers
  <2>2. ASSUME NEW r \in Requests, Requested(r) PROVE shared' = {}
    BY <1>2, <2>2, HandsAfterRequest
  <2>3. ASSUME NEW w \in Workers, Worked(w) PROVE shared' = {}
    BY <1>2, <2>1, <2>3, Begins
  <2>4. CASE UNCHANGED vars
    BY <1>2, <2>4 DEF vars, workerVars
  <2> QED BY <1>2, <2>2, <2>3, <2>4, Steps
<1>3. TypeInv /\ shared = {} /\ [Next]_vars => (shared = {})'
  BY <1>2
<1> QED BY <1>1, <1>3, TypeInvariant, PTL DEF Spec

-----------------------------------------------------------------------------
(* What is shown as synced.                                                *)

\* A sync pass leaves out what is already synced, and has no document twice.
Passing == {"check", "syncing", "upload", "indexed", "exclude"}

Unsynced ==
    \A w \in Workers : job[w] # NoJob /\ Type(w) = "sync_room" =>
       /\ step[w] \in DocSteps \cup {"next", "publish"} =>
             \A d \in dels[w] \cup ings[w] : d \in shared \/ binding[d] # "synced"
       /\ step[w] \in DocSteps => cur[w] \in shared \/ binding[cur[w]] # "synced"
       /\ step[w] \in Passing => dels[w] = {} /\ cur[w] \notin ings[w]

Uploaded == \A w \in Workers : step[w] = "indexed" => cur[w] \in remote \cup shared

\* The synced document that is purged has a delete job, which will have failed.
Purging(w, d) ==
    /\ job[w] # NoJob /\ Type(w) = "delete_doc" /\ cur[w] = d
    /\ step[w] \in {"purged", "refused"} \/ bad[w]

SyncedKept ==
    \A d \in Docs \ shared : binding[d] = "synced" =>
        d \in remote \/ (\E w \in Workers : Purging(w, d)) \/ (\E j \in JobId : Broken(j, d))

SyncInv == Unsynced /\ Uploaded /\ SyncedKept

LEMMA BrokenStays ==
    ASSUME TypeInv, [Next]_vars, NEW j \in JobId, NEW d \in Docs, Broken(j, d)
    PROVE  Broken(j, d)'
<1>0. JobTypes /\ WorkerTypes /\ Held
  BY TypeParts DEF TypeInv
<1>1. ASSUME NEW r \in Requests, Requested(r) PROVE Broken(j, d)'
  <2>1. job' = job
    BY <1>1, RequestTyped DEF workerVars
  <2> QED BY <1>1, <2>1, RequestJobs DEF Broken
<1>2. ASSUME NEW w \in Workers, Worked(w) PROVE Broken(j, d)'
  <2>1. job[w] # j
    BY <1>0 DEF Broken, Held, NoJob, JobId
  <2>2. jobs'[j] = jobs[j]
    BY <1>2, <2>1, WorkerJobs DEF Broken
  <2>3. \A v \in Workers : job'[v] = j => job[v] = j \/ jobs[j].status = "pending"
    BY <1>0, <1>2, WorkerTyped DEF OthersRest, Stays, Takes, Leaves, ClaimJob, WorkerTypes, NoJob, JobId
  <2> QED BY <2>2, <2>3 DEF Broken
<1>3. CASE UNCHANGED vars
  BY <1>3 DEF vars, jobVars, workerVars, Broken
<1> QED BY <1>1, <1>2, <1>3, Steps

\* A worker changes the copy, and marks as synced the row, of its own document.
LEMMA WorkerTouches ==
    ASSUME TypeInv, Own, NEW w \in Workers, Worked(w), NEW d \in Docs, d \notin InHand(w)
    PROVE  /\ binding'[d] = "synced" => binding[d] = "synced"
           /\ d \in remote' <=> d \in remote
<1>0. CorpusTypes /\ Passes
  BY TypeParts DEF TypeInv
<1>1. d # cur[w]
  BY ConstantsAssumption DEF Own
<1> QED BY <1>0, <1>1 DEF Worked, Work, ListPending, Claim, LoadRoom, Align, WriteRows, ListRows, NextRow,
              DocStep, Check, Exclude, BeginIngest, Ingest, MarkSynced, Purge, MarkDeleted,
              FailDoc, Publish, Release, FinishJob, AbortJob, CallFails, StatusFails, JobFails,
              FinishFails, Crash, SetStatus, Aligned, CorpusTypes, corpusVars

LEMMA SyncAfterRequest ==
    ASSUME TypeInv, SyncInv, [Next]_vars, NEW r \in Requests, Requested(r)
    PROVE  SyncInv'
<1>0. CorpusTypes /\ JobTypes /\ WorkerTypes /\ Held /\ Passes
  BY TypeParts DEF TypeInv
<1>1. UNCHANGED <<remote, workerVars>> /\ shared' = shared
  BY RequestTyped DEF workerVars
<1>2. \A d \in Docs : binding'[d] = "synced" => binding[d] = "synced"
  BY <1>0 DEF Requested, BeginRequest, ContinueRequest, LoadForLocks, LoadForDelete, LoadForSync,
              LoadCorpus, LoadForAdd, LoadForRemove, AddDocument, RemoveDocument, SaveFolders,
              LockDocuments, DeleteRoom, WithdrawBinding, EnqueueDelete, ListActive, AlignRows,
              MarkSyncing, EnqueueSync, Reconcile, HealBadge, QueryNotReady, EnqueueDeleteFails,
              RequestFails, CorpusTypes, corpusVars, Aligned
<1>3. \A w \in Workers : job[w] # NoJob =>
         job'[w] = job[w] /\ job[w] \in JobId /\ jobs'[job[w]].type = jobs[job[w]].type
  BY <1>0, <1>1, RequestJobs DEF Held, WorkerTypes, workerVars
<1>4. Unsynced'
  BY <1>0, <1>1, <1>2, <1>3 DEF SyncInv, Unsynced, workerVars, Type, WorkerTypes, Passes
<1>5. Uploaded'
  BY <1>1 DEF SyncInv, Uploaded, workerVars
<1>6. ASSUME NEW w \in Workers, NEW d \in Docs, Purging(w, d) PROVE Purging(w, d)'
  BY <1>1, <1>3, <1>6 DEF Purging, Type, workerVars
<1>7. SyncedKept'
  BY <1>1, <1>2, <1>6, BrokenStays DEF SyncInv, SyncedKept
<1> QED BY <1>4, <1>5, <1>7 DEF SyncInv

LEMMA SyncAfterWorker ==
    ASSUME TypeInv, Hands, SyncInv, [Next]_vars, NEW w \in Workers, Worked(w)
    PROVE  SyncInv'
<1>0. CorpusTypes /\ JobTypes /\ WorkerTypes /\ Rows /\ Held /\ Passes /\ OthersRest(w)
  BY TypeParts, WorkerTyped DEF TypeInv
<1>1. \A d \in shared : \/ d \in shared'
                       \/ /\ Purging(w, d)' /\ step[w] = "purge" /\ Type(w) = "delete_doc"
                          /\ \A v \in Workers \ {w} : d \notin InHand(v)
  BY Forgets DEF Hands, Purging
<1>2. /\ step[w] \notin {"idle", "batch"} <=> job[w] # NoJob
      /\ job[w] # NoJob => /\ job[w] \in JobId
                           /\ jobs[job[w]].status = "running"
                           /\ Type(w) \in {"sync_room", "delete_doc"}
                           /\ Type(w) = "sync_room" => Type(w) # "delete_doc"
      /\ step[w] \in PassSteps => Type(w) = "sync_room"
      /\ step[w] \in {"idle", "batch", "claimed"} => cur[w] = NoDoc /\ ~bad[w]
      /\ step[w] \in DocSteps => cur[w] \in Docs
      /\ NoDoc \notin Docs
  BY <1>0, ConstantsAssumption DEF Held, Passes, WorkerTypes, Rows, Type
<1>3. /\ job[w] # NoJob /\ Type(w) = "sync_room" =>
             /\ step[w] \in DocSteps \cup {"next", "publish"} =>
                   \A d \in dels[w] \cup ings[w] : d \in shared' \/ binding[d] # "synced"
             /\ step[w] \in DocSteps => cur[w] \in shared' \/ binding[cur[w]] # "synced"
             /\ step[w] \in Passing => dels[w] = {} /\ cur[w] \notin ings[w]
      /\ step[w] = "indexed" => cur[w] \in remote \cup shared'
  BY <1>1 DEF SyncInv, Unsynced, Uploaded
\* The copies and rows that another worker's job is about stay, as does that job.
<1>a. ASSUME NEW d \in Docs, d \notin InHand(w)
      PROVE  /\ binding'[d] = "synced" => binding[d] = "synced"
             /\ d \in remote => d \in remote'
  BY <1>0, <1>a, WorkerTouches DEF Hands
<1>b. ASSUME NEW v \in Workers \ {w}
      PROVE  /\ Type(v)' = Type(v) \/ job[v] = NoJob
             /\ UNCHANGED <<step[v], job[v], dels[v], ings[v], cur[v], bad[v]>>
             /\ \A d \in InHand(v) : d \in shared' \/ d \notin InHand(w)
  <2>1. \A d \in InHand(v) : d \in shared' \/ d \notin InHand(w)
    BY <1>1 DEF Hands, Alone
  <2>2. job[v] # NoJob => job[v] \in JobId
    BY <1>0 DEF WorkerTypes
  <2> QED BY <1>0, <2>1, <2>2, WorkerJobs DEF OthersRest, Type
<1> DEFINE Otherwise(d) == \/ \E v \in Workers \ {w} : Purging(v, d)'
                           \/ \E j \in JobId : Broken(j, d)'
<1>4. ASSUME NEW d \in Docs \ (shared \cup shared'), binding[d] = "synced"
      PROVE  d \in remote \/ Purging(w, d) \/ Otherwise(d)
  <2>1. \A v \in Workers \ {w} : Purging(v, d) => Purging(v, d)'
    BY <1>b DEF Purging
  <2> QED BY <1>1, <1>4, <2>1, BrokenStays DEF SyncInv, SyncedKept
\* It is enough to follow this worker.
<1> DEFINE A == job'[w] # NoJob /\ Type(w)' = "sync_room" =>
                   /\ step'[w] \in DocSteps \cup {"next", "publish"} =>
                         \A d \in dels'[w] \cup ings'[w] : d \in shared' \/ binding'[d] # "synced"
                   /\ step'[w] \in DocSteps => cur'[w] \in shared' \/ binding'[cur'[w]] # "synced"
                   /\ step'[w] \in Passing => dels'[w] = {} /\ cur'[w] \notin ings'[w]
           B == step'[w] = "indexed" => cur'[w] \in remote' \cup shared'
           C == \A d \in Docs \ (shared \cup shared') : binding'[d] = "synced" =>
                   d \in remote' \/ Purging(w, d)' \/ Otherwise(d)
<1>5. A /\ B /\ C => SyncInv'
  <2>1. SUFFICES ASSUME A, B, C PROVE SyncInv'
    OBVIOUS
  <2>2. ASSUME NEW v \in Workers \ {w}, job[v] # NoJob, Type(v) = "sync_room", NEW d \in Docs,
               step[v] \in DocSteps \cup {"next", "publish"},
               d \in shared \/ binding[d] # "synced"
        PROVE  d \in shared' \/ binding'[d] # "synced"
    <3>1. d \in InHand(v)
      BY <2>2 DEF InHand, About, DocSteps
    <3> QED BY <1>1, <1>a, <1>b, <2>2, <3>1
  <2>3. Unsynced'
    <3>1. ASSUME NEW v \in Workers \ {w}, job'[v] # NoJob, Type(v)' = "sync_room"
          PROVE  /\ step'[v] \in DocSteps \cup {"next", "publish"} =>
                       \A d \in dels'[v] \cup ings'[v] : d \in shared' \/ binding'[d] # "synced"
                 /\ step'[v] \in DocSteps => cur'[v] \in shared' \/ binding'[cur'[v]] # "synced"
                 /\ step'[v] \in Passing => dels'[v] = {} /\ cur'[v] \notin ings'[v]
      <4>1. /\ job[v] # NoJob /\ Type(v) = "sync_room"
            /\ UNCHANGED <<step[v], job[v], dels[v], ings[v], cur[v], bad[v]>>
        BY <1>b, <3>1
      <4>2. /\ step[v] \in DocSteps \cup {"next", "publish"} =>
                  \A d \in dels[v] \cup ings[v] : d \in shared \/ binding[d] # "synced"
            /\ step[v] \in DocSteps => cur[v] \in shared \/ binding[cur[v]] # "synced"
            /\ step[v] \in Passing => dels[v] = {} /\ cur[v] \notin ings[v]
        BY <4>1 DEF SyncInv, Unsynced
      <4>3. dels[v] \cup ings[v] \subseteq Docs /\ (step[v] \in DocSteps => cur[v] \in Docs)
        BY <1>0 DEF WorkerTypes, Passes
      <4> QED BY <2>2, <4>1, <4>2, <4>3
    <3> QED BY <2>1, <3>1 DEF Unsynced
  <2>4. Uploaded'
    <3>1. ASSUME NEW v \in Workers \ {w}, step'[v] = "indexed"
          PROVE  cur'[v] \in remote' \cup shared'
      <4>1. step[v] = "indexed" /\ cur'[v] = cur[v] /\ cur[v] \in remote \cup shared
            /\ cur[v] \in Docs /\ cur[v] # NoDoc
        BY <1>0, <1>b, <3>1, ConstantsAssumption DEF SyncInv, Uploaded, Passes, DocSteps
      <4>2. cur[v] \in InHand(v)
        BY <4>1 DEF Hands, Own
      <4> QED BY <1>1, <1>a, <1>b, <4>1, <4>2
    <3> QED BY <2>1, <3>1 DEF Uploaded
  <2>5. SyncedKept'
    BY <1>1, <2>1 DEF SyncedKept
  <2> QED BY <2>3, <2>4, <2>5 DEF SyncInv
<1> USE DEF Go, PassSteps, DocSteps, Passing
<1>6. ASSUME Stays(w) PROVE Type(w)' = Type(w) /\ job'[w] = job[w]
  BY <1>6 DEF Stays, jobVars, Type
\* Steps that leave the copies alone, of a worker that is not purging.
<1>7. ASSUME remote' = remote, \A d \in Docs : binding'[d] = "synced" => binding[d] = "synced",
             step[w] \in {"idle", "batch", "claimed"} \cup PassSteps
      PROVE  C
  BY <1>2, <1>3, <1>4, <1>7 DEF Purging
<1>8. CASE ListPending(w) \/ Claim(w)
  <2>1. step'[w] \in {"idle", "batch", "claimed"} /\ remote' = remote /\ binding' = binding
    BY <1>0, <1>8 DEF ListPending, Claim, WorkerTypes, corpusVars
  <2>2. step[w] \in {"idle", "batch"}
    BY <1>8 DEF ListPending, Claim
  <2> QED BY <1>5, <1>7, <2>1, <2>2
<1>9. CASE LoadRoom(w)
  <2>1. Type(w)' = Type(w) /\ job'[w] = job[w]
    BY <1>9 DEF LoadRoom, jobVars, Type
  <2>2. /\ remote' = remote /\ binding' = binding /\ step[w] = "claimed"
        /\ step'[w] \in {"finish", "align"} \/ Type(w) = "delete_doc"
        /\ step'[w] \in {"finish", "align", "purge"}
    BY <1>0, <1>9 DEF LoadRoom, WorkerTypes
  <2>3. A
    BY <2>1, <2>2
  <2> QED BY <1>5, <1>7, <2>2, <2>3
<1>10. CASE Align(w) \/ WriteRows(w) \/ JobFails(w)
  <2>1. step'[w] \in {"write", "rows", "abort"} /\ remote' = remote
    BY <1>0, <1>10 DEF Align, WriteRows, JobFails, WorkerTypes
  <2>2. \A d \in Docs : binding'[d] = "synced" => binding[d] = "synced"
    BY <1>0, <1>10 DEF Align, WriteRows, JobFails, Aligned, corpusVars
  <2>3. step[w] \in {"claimed"} \cup PassSteps
    BY <1>10 DEF Align, WriteRows, JobFails
  <2> QED BY <1>5, <1>7, <2>1, <2>2, <2>3
<1>11. CASE ListRows(w)
  <2>1. /\ step'[w] = "next" /\ remote' = remote /\ binding' = binding /\ step[w] = "rows"
        /\ \A d \in dels'[w] \cup ings'[w] : binding[d] # "synced"
    BY <1>0, <1>11 DEF ListRows, WorkerTypes, corpusVars
  <2> QED BY <1>5, <1>7, <2>1
<1>12. CASE NextRow(w)
  <2>1. Type(w)' = Type(w) /\ job'[w] = job[w] /\ Type(w) = "sync_room" /\ job[w] # NoJob
    BY <1>2, <1>12 DEF NextRow, jobVars, Type
  <2>2. remote' = remote /\ binding' = binding /\ step[w] = "next"
    BY <1>12 DEF NextRow, corpusVars
  <2>3. \A d \in dels[w] \cup ings[w] : d \in shared' \/ binding[d] # "synced"
    BY <1>3, <2>1, <2>2
  <2>4. /\ dels'[w] \cup ings'[w] \subseteq dels[w] \cup ings[w]
        /\ step'[w] \in DocSteps => cur'[w] \in dels[w] \cup ings[w]
        /\ step'[w] \in Passing => dels'[w] = {} /\ cur'[w] \notin ings'[w]
    BY <1>0, <1>12 DEF NextRow, WorkerTypes
  <2>5. A
    BY <2>2, <2>3, <2>4
  <2>6. step'[w] # "indexed"
    BY <1>0, <1>12 DEF NextRow, WorkerTypes
  <2> QED BY <1>5, <1>7, <2>2, <2>5, <2>6
<1>13. CASE Publish(w)
  <2>1. step'[w] = "finish" /\ remote' = remote /\ binding' = binding /\ step[w] = "publish"
    BY <1>0, <1>13 DEF Publish, WorkerTypes
  <2> QED BY <1>5, <1>7, <2>1
\* Steps on a document.
<1>14. ASSUME NEW from \in DocSteps, NEW to \in DocSteps \cup {Rest(w)}, DocStep(w, from, to)
       PROVE  /\ Type(w)' = Type(w) /\ job'[w] = job[w] /\ job[w] # NoJob /\ step[w] = from
              /\ cur'[w] = cur[w] /\ dels'[w] = dels[w] /\ ings'[w] = ings[w] /\ step'[w] = to
              /\ cur[w] \in Docs
              /\ Type(w) = "sync_room" =>
                    /\ \A d \in dels[w] \cup ings[w] : d \in shared' \/ binding[d] # "synced"
                    /\ cur[w] \in shared' \/ binding[cur[w]] # "synced"
                    /\ from \in Passing => dels[w] = {} /\ cur[w] \notin ings[w]
  <2>1. Type(w)' = Type(w) /\ job'[w] = job[w] /\ step[w] = from /\ step'[w] = to
        /\ cur'[w] = cur[w] /\ dels'[w] = dels[w] /\ ings'[w] = ings[w]
    BY <1>0, <1>14 DEF DocStep, jobVars, Type, WorkerTypes
  <2>2. job[w] # NoJob /\ cur[w] \in Docs
    BY <1>2, <2>1
  <2> QED BY <1>3, <2>1, <2>2
<1>15. CASE Check(w)
  <2>1. \E to \in {"purge", "exclude", "syncing"} : DocStep(w, "check", to)
    BY <1>15 DEF Check
  <2>2. remote' = remote /\ binding' = binding
    BY <1>15 DEF Check
  <2>3. A /\ B
    BY <1>14, <2>1, <2>2
  <2>4. step[w] = "check"
    BY <2>1 DEF DocStep
  <2> QED BY <1>5, <1>7, <2>2, <2>3, <2>4
<1>16. CASE Exclude(w) \/ BeginIngest(w)
  <2>1. PICK from \in {"exclude", "syncing"}, to \in {"purge", "upload"}, s \in {"deleted", "syncing"} :
           DocStep(w, from, to) /\ remote' = remote /\ SetStatus(cur[w], s)
           /\ (to = "upload" => from = "syncing")
    BY <1>16 DEF Exclude, BeginIngest
  <2>2. \A d \in Docs : binding'[d] = "synced" => binding[d] = "synced" /\ d # cur[w]
    BY <1>0, <2>1 DEF SetStatus, CorpusTypes
  <2>3. step[w] \in PassSteps /\ cur[w] \in Docs
    BY <1>14, <2>1
  <2>4. A /\ B
    BY <1>0, <1>14, <2>1, <2>2 DEF WorkerTypes
  <2> QED BY <1>5, <1>7, <2>1, <2>2, <2>3, <2>4
<1>17. CASE Ingest(w)
  <2>1. DocStep(w, "upload", "indexed") /\ remote' = remote \cup {cur[w]} /\ binding' = binding
    BY <1>17 DEF Ingest
  <2>2. A /\ B
    BY <1>14, <2>1
  <2>3. C
    BY <1>2, <1>4, <1>14, <2>1 DEF Purging
  <2> QED BY <1>5, <2>2, <2>3
<1>18. CASE MarkSynced(w)
  <2>1. DocStep(w, "indexed", Rest(w)) /\ remote' = remote
        /\ binding' = [binding EXCEPT ![cur[w]] = "synced"]
    BY <1>18 DEF MarkSynced, SetStatus
  <2>2. /\ Type(w) = "sync_room" /\ step'[w] = "next" /\ cur[w] \in Docs /\ cur[w] \in remote \cup shared'
        /\ step[w] = "indexed"
    BY <1>2, <1>3, <1>14, <2>1 DEF Rest, DocStep
  <2>3. A /\ B
    BY <1>0, <1>14, <2>1, <2>2 DEF CorpusTypes, WorkerTypes
  <2>4. \A d \in Docs \ {cur[w]} : binding'[d] = binding[d]
    BY <1>0, <2>1 DEF CorpusTypes
  <2>5. C
    BY <1>2, <1>4, <2>1, <2>2, <2>4 DEF Purging
  <2> QED BY <1>5, <2>3, <2>5
\* Of the other steps, only a delete's own document loses its copy.
<1>19. ASSUME NEW from \in {"check", "exclude", "syncing", "upload", "purge", "purged", "refused", "indexed"},
              NEW to \in DocSteps \cup {Rest(w)}, DocStep(w, from, to),
              to \in Passing => from = "syncing" /\ to # "indexed",
              remote \ {cur[w]} \subseteq remote',
              remote' = remote \/ to \in {"purged", "refused"},
              from \in {"purged", "refused"} => bad'[w] \/ binding'[cur[w]] # "synced",
              bad[w] => bad'[w],
              \A d \in Docs : binding'[d] = "synced" => binding[d] = "synced"
       PROVE  SyncInv'
  <2>0. /\ Type(w)' = Type(w) /\ job'[w] = job[w] /\ job[w] # NoJob
        /\ cur'[w] = cur[w] /\ dels'[w] = dels[w] /\ ings'[w] = ings[w] /\ step'[w] = to
        /\ Type(w) = "sync_room" =>
              /\ \A d \in dels[w] \cup ings[w] : d \in shared' \/ binding[d] # "synced"
              /\ cur[w] \in shared' \/ binding[cur[w]] # "synced"
              /\ from \in Passing => dels[w] = {} /\ cur[w] \notin ings[w]
        /\ cur[w] \in Docs /\ dels[w] \cup ings[w] \subseteq Docs
    BY <1>0, <1>14, <1>19 DEF WorkerTypes
  <2>1. A /\ B
    BY <1>19, <2>0
  <2>2. ASSUME NEW d \in Docs \ (shared \cup shared'), binding'[d] = "synced"
        PROVE  d \in remote' \/ Purging(w, d)' \/ Otherwise(d)
    <3>1. binding[d] = "synced"
      BY <1>19, <2>2
    <3>2. CASE d # cur[w]
      BY <1>4, <1>19, <3>1, <3>2 DEF Purging
    <3>3. CASE d = cur[w]
      <4>1. Type(w) = "delete_doc" /\ Type(w)' = "delete_doc" /\ job'[w] # NoJob /\ cur'[w] = d
        BY <1>2, <1>14, <1>19, <3>1, <3>3
      <4>2. CASE from \in {"purged", "refused"}
        BY <1>19, <2>2, <3>3, <4>1, <4>2 DEF Purging
      <4>3. CASE from \notin {"purged", "refused"}
        <5>1. step[w] = from /\ step'[w] = to
          BY <1>14, <1>19
        <5> QED BY <1>4, <1>19, <3>1, <4>1, <4>3, <5>1 DEF Purging
      <4> QED BY <4>2, <4>3
    <3> QED BY <3>2, <3>3
  <2> QED BY <1>5, <2>1, <2>2
<1>20. CASE Purge(w)
  BY <1>0, <1>19, <1>20 DEF Purge
<1>21. CASE MarkDeleted(w)
  <2>1. binding' = [binding EXCEPT ![cur[w]] = "deleted"] /\ DocStep(w, "purged", Rest(w)) /\ remote' = remote
        /\ bad' = bad
    BY <1>21 DEF MarkDeleted, SetStatus
  <2>2. cur[w] \in Docs
    BY <1>14, <2>1
  <2> QED BY <1>0, <1>19, <2>1, <2>2 DEF CorpusTypes, Rest
<1>22. CASE FailDoc(w)
  <2>1. binding' = [binding EXCEPT ![cur[w]] = "failed"] /\ DocStep(w, "refused", Rest(w)) /\ remote' = remote
        /\ bad' = [bad EXCEPT ![w] = TRUE]
    BY <1>22 DEF FailDoc, SetStatus
  <2>2. cur[w] \in Docs /\ bad'[w]
    BY <1>0, <1>14, <2>1 DEF WorkerTypes
  <2> QED BY <1>0, <1>19, <2>1, <2>2 DEF CorpusTypes, Rest
<1>23. CASE CallFails(w)
  <2>1. binding' = binding /\ bad' = bad
    BY <1>23 DEF CallFails
  <2>2. CASE DocStep(w, "check", "refused") /\ remote' = remote
    BY <1>19, <2>1, <2>2
  <2>3. CASE DocStep(w, "upload", "refused") /\ remote' \in {remote, remote \cup {cur[w]}}
    BY <1>19, <2>1, <2>3
  <2>4. CASE DocStep(w, "purge", "refused") /\ remote' \in {remote, remote \ {cur[w]}}
    BY <1>19, <2>1, <2>4
  <2> QED BY <1>23, <2>2, <2>3, <2>4 DEF CallFails
<1>24. CASE StatusFails(w)
  <2>1. binding' = binding /\ remote' = remote
    BY <1>24 DEF StatusFails
  <2>2. CASE DocStep(w, "exclude", "purge") /\ bad' = bad
    BY <1>19, <2>1, <2>2
  <2>3. CASE DocStep(w, "syncing", "upload") /\ bad' = bad
    BY <1>19, <2>1, <2>3
  <2>4. ASSUME NEW from \in {"indexed", "purged", "refused"}, DocStep(w, from, Rest(w)),
               bad' = [bad EXCEPT ![w] = TRUE]
        PROVE  SyncInv'
    <3>1. bad'[w]
      BY <1>0, <2>4 DEF WorkerTypes
    <3> QED BY <1>19, <2>1, <2>4, <3>1 DEF Rest
  <2> QED BY <1>24, <2>2, <2>3, <2>4 DEF StatusFails
\* A delete job that did not purge its document ends as failed, or is stuck.
<1>25. CASE FinishJob(w) \/ AbortJob(w) \/ FinishFails(w) \/ Crash(w)
  <2>1. Leaves(w) /\ job'[w] = NoJob /\ step'[w] \in {"idle", "batch"}
    BY <1>0, <1>25 DEF FinishJob, AbortJob, FinishFails, Release, Crash, Leaves, WorkerTypes, jobVars
  <2>2. binding' = binding /\ remote' = remote
    BY <1>25 DEF FinishJob, AbortJob, FinishFails, Release, Crash, corpusVars
  <2>3. ASSUME NEW d \in Docs, Purging(w, d)
        PROVE  \E j \in JobId : Broken(j, d)'
    <3>1. \/ jobs' = jobs
          \/ /\ step[w] \in {"finish", "abort"}
             /\ \/ jobs' = [jobs EXCEPT ![job[w]].status = "failed"]
                \/ jobs' = [jobs EXCEPT ![job[w]].status = "running"]
                \/ ~(bad[w] /\ Type(w) = "delete_doc")
      <4>1. CASE FinishJob(w)
        BY <4>1 DEF FinishJob, Release
      <4>2. CASE AbortJob(w) \/ FinishFails(w) \/ Crash(w)
        BY <4>2 DEF AbortJob, FinishFails, Release, Crash, jobVars
      <4> QED BY <1>25, <4>1, <4>2
    <3>2. step[w] \in {"finish", "abort"} => bad[w] /\ Type(w) = "delete_doc"
      BY <2>3 DEF Purging
    <3>3. job[w] \in JobId /\ jobs[job[w]].status = "running" /\ jobs \in [JobId -> Job]
      BY <1>0, <1>2, <2>3 DEF Purging, JobTypes
    <3>4. \/ jobs' = jobs
          \/ \E s \in {"failed", "running"} : jobs' = [jobs EXCEPT ![job[w]].status = s]
      <4>1. CASE jobs' = [jobs EXCEPT ![job[w]].status = "failed"]
        BY <4>1
      <4>2. CASE jobs' = [jobs EXCEPT ![job[w]].status = "running"]
        BY <4>2
      <4> QED BY <3>1, <3>2, <4>1, <4>2
    <3>5. jobs'[job[w]].status \in {"failed", "running"}
      BY <3>3, <3>4 DEF Job
    <3>6. \A v \in Workers : job'[v] # job[w]
      BY <1>0, <1>b, <2>1, <2>3 DEF Held, Purging
    <3>7. Type(w) = "delete_doc" /\ jobs[job[w]].doc = d
      BY <1>2, <2>3 DEF Hands, Own, InHand, About, Purging
    <3>8. jobs'[job[w]].type = jobs[job[w]].type /\ jobs'[job[w]].doc = jobs[job[w]].doc
      BY <3>3, <3>4 DEF Job
    <3> QED BY <3>3, <3>5, <3>6, <3>7, <3>8 DEF Broken, Type
  <2> QED BY <1>4, <1>5, <2>1, <2>2, <2>3
<1> QED BY <1>8, <1>9, <1>10, <1>11, <1>12, <1>13, <1>15, <1>16, <1>17, <1>18, <1>20, <1>21, <1>22,
           <1>23, <1>24, <1>25 DEF Worked, Work

LEMMA SyncStep == TypeInv /\ Hands /\ SyncInv /\ [Next]_vars => SyncInv'
<1> SUFFICES ASSUME TypeInv, Hands, SyncInv, [Next]_vars PROVE SyncInv'
  OBVIOUS
<1>1. CASE UNCHANGED vars
  BY <1>1 DEF vars, corpusVars, jobVars, workerVars, SyncInv, Unsynced, Uploaded, SyncedKept,
              Purging, Broken, Type
<1> QED BY <1>1, SyncAfterRequest, SyncAfterWorker, Steps

\* What the room shows as synced is in the knowledge base: a pass never marks a
\* document it did not upload, no request marks one, and a delete that does not
\* end well leaves its job failed or stuck.  Only a document that two replicas
\* had in hand at once may be marked by one after the other has purged it.
THEOREM SyncedStaysIndexed == Spec => []SyncedIsIndexed
<1>1. Init => SyncInv
  BY DEF Init, SyncInv, Unsynced, Uploaded, SyncedKept
<1>2. TypeInv /\ SyncInv => SyncedIsIndexed
  BY DEF SyncInv, SyncedKept, Purging, SyncedIsIndexed
<1>3. TypeInv /\ Hands /\ SyncInv /\ [Next]_vars => SyncInv'
  BY SyncStep
<1> QED BY <1>1, <1>2, <1>3, TypeInvariant, HandsHold, PTL DEF Spec

-----------------------------------------------------------------------------
(* What is withdrawn is purged, as long as there was no fault.             *)

\* A document whose copy is there, or is about to be made.
InDanger(d) ==
    d \in remote \/ \E w \in Workers : step[w] \in {"syncing", "upload"} /\ cur[w] = d

\* Its purge is queued, or is about to be queued by a request.
QueuedPurge(d) ==
    \/ \E j \in Pending : jobs[j].type = "delete_doc" /\ jobs[j].doc = d
    \/ \E r \in Requests :
          \/ at[r] \in {"saved", "purging", "inserting"} /\ d \in todo[r]
          \/ at[r] = "inserting" /\ d = doc[r]

\* A worker has claimed its job, or is at it.
Claimed(w, d)    == step[w] = "claimed" /\ Type(w) = "delete_doc" /\ jobs[job[w]].doc = d
ClaimedPurge(d)  == \E w \in Workers : Claimed(w, d)
Purges(w, d)     == step[w] = "purge" /\ cur[w] = d
RunningPurge(d)  == \E w \in Workers : Purges(w, d) \/ Claimed(w, d)

InPass(w) == job[w] # NoJob /\ Type(w) = "sync_room" /\ step[w] # "claimed"

\* A folder lock that a running pass has not seen has its purges queued, or
\* claimed by a worker that has yet to begin.
LocksOwed ==
    \A w \in Workers, d \in (inRoom \ late) \ shared :
       InPass(w) /\ Above[d] \cap folderLocks # {} /\ Above[d] \cap seen[w] = {}
          => QueuedPurge(d) \/ ClaimedPurge(d)

PurgesOwed == \A d \in Docs \ shared : InDanger(d) /\ Withdrawn(d) => QueuedPurge(d) \/ RunningPurge(d)

PurgeOwed == faults = 0 => LocksOwed /\ PurgesOwed

\* Without a row of the corpus there is neither a job nor a copy.
CorpusFirst ==
    corpus = "none" =>
       /\ remote = {} /\ queued = 0
       /\ \A r \in Requests :
             at[r] \notin {"inserting", "aligning", "writing", "marking", "queueing"}

LEMMA CorpusStep == TypeInv /\ CorpusFirst /\ [Next]_vars => CorpusFirst'
<1> SUFFICES ASSUME TypeInv, CorpusFirst, [Next]_vars, corpus' = "none"
             PROVE  CorpusFirst'
  BY DEF CorpusFirst
<1>0. RequestTypes /\ WorkerTypes /\ Held /\ Rows /\ JobTypes
  BY TypeParts DEF TypeInv
<1>1. ASSUME NEW r \in Requests, Requested(r) PROVE CorpusFirst'
  <2>1. corpus = "none"
    BY <1>1 DEF Requested, BeginRequest, ContinueRequest, LoadForLocks, LoadForDelete, LoadForSync,
              LoadCorpus, LoadForAdd, LoadForRemove, AddDocument, RemoveDocument, SaveFolders,
              LockDocuments, DeleteRoom, WithdrawBinding, EnqueueDelete, ListActive, AlignRows,
              MarkSyncing, EnqueueSync, Reconcile, HealBadge, QueryNotReady, EnqueueDeleteFails,
              RequestFails, corpusVars
  <2>2. remote' = remote
    BY <1>1, RequestTyped
  <2>3. queued' = queued
    BY <1>1, <2>1 DEF CorpusFirst, Goto, Requested, BeginRequest, ContinueRequest, LoadForLocks,
              LoadForDelete, LoadForSync, LoadCorpus, LoadForAdd, LoadForRemove, AddDocument,
              RemoveDocument, SaveFolders, LockDocuments, DeleteRoom, WithdrawBinding,
              EnqueueDelete, ListActive, AlignRows, MarkSyncing, EnqueueSync, Reconcile,
              HealBadge, QueryNotReady, EnqueueDeleteFails, RequestFails, jobVars
  <2>4. \A s \in Requests :
           at'[s] \notin {"inserting", "aligning", "writing", "marking", "queueing"}
    BY <1>0, <1>1, <2>1 DEF CorpusFirst, Goto, Requested, BeginRequest, ContinueRequest,
              LoadForLocks, LoadForDelete, LoadForSync, LoadCorpus, LoadForAdd, LoadForRemove,
              AddDocument, RemoveDocument, SaveFolders, LockDocuments, DeleteRoom,
              WithdrawBinding, NoCorpus, EnqueueDelete, ListActive, AlignRows, MarkSyncing,
              EnqueueSync, Reconcile, HealBadge, QueryNotReady, EnqueueDeleteFails,
              RequestFails, RequestTypes
  <2> QED BY <2>1, <2>2, <2>3, <2>4 DEF CorpusFirst
<1>2. ASSUME NEW w \in Workers, Worked(w) PROVE CorpusFirst'
  <2>1. requestVars' = requestVars /\ queued' = queued
    BY <1>2, WorkerTyped, WorkerJobs
  <2>2. corpus = "none"
    BY <1>2 DEF Worked, Work, ListPending, Claim, LoadRoom, Align, WriteRows, ListRows, NextRow,
              DocStep, Check, Exclude, BeginIngest, Ingest, MarkSynced, Purge, MarkDeleted,
              FailDoc, Publish, FinishJob, AbortJob, AfterAbort, CallFails, StatusFails,
              JobFails, FinishFails, Crash, corpusVars
  <2>3. job[w] = NoJob
    BY <1>0, <2>2 DEF CorpusFirst, Held, Rows, WorkerTypes, JobTypes, JobId
  <2>4. ListPending(w) \/ Claim(w) \/ Crash(w)
    BY <1>0, <1>2, <2>3 DEF Held, Worked, Work, Go, LoadRoom, Align, WriteRows, ListRows, NextRow,
              DocStep, Check, Exclude, BeginIngest, Ingest, MarkSynced, Purge, MarkDeleted,
              FailDoc, Publish, FinishJob, AbortJob, CallFails, StatusFails, Release,
              JobFails, FinishFails
  <2>5. remote' = remote
    BY <2>4 DEF ListPending, Claim, Crash
  <2> QED BY <2>1, <2>2, <2>5 DEF CorpusFirst, requestVars
<1>3. CASE UNCHANGED vars
  BY <1>3 DEF vars, jobVars, requestVars, CorpusFirst
<1> QED BY <1>1, <1>2, <1>3, Steps

\* A copy, or a pass that may make one, needs a row of the corpus.
LEMMA DangerNeedsCorpus ==
    ASSUME TypeInv, CorpusFirst
    PROVE  /\ \A d \in Docs : InDanger(d) => corpus # "none"
           /\ \A w \in Workers : job[w] # NoJob => corpus # "none"
<1>0. WorkerTypes /\ Held /\ Rows /\ JobTypes
  BY TypeParts DEF TypeInv
<1>1. ASSUME NEW w \in Workers, job[w] # NoJob PROVE corpus # "none"
  <2>1. job[w] \in JobId /\ jobs[job[w]].status = "running"
    BY <1>0, <1>1 DEF WorkerTypes, Held
  <2>2. ~(job[w] > queued) /\ job[w] >= 1 /\ job[w] \in Nat /\ queued \in Nat
    BY <1>0, <2>1, ConstantsAssumption DEF Rows, JobId, JobTypes
  <2> QED BY <2>2 DEF CorpusFirst
<1>2. \A w \in Workers : step[w] \in {"syncing", "upload"} => job[w] # NoJob
  BY <1>0 DEF Held
<1> QED BY <1>1, <1>2 DEF InDanger, CorpusFirst

LEMMA QueuedStays ==
    ASSUME TypeInv, NEW r \in Requests, Requested(r), faults' = 0, corpus # "none",
           NEW d \in Docs, QueuedPurge(d)
    PROVE  QueuedPurge(d)'
<1>0. RequestTypes /\ JobTypes /\ faults \in Nat
  BY TypeParts, ConstantsAssumption DEF TypeInv, OtherTypes
<1>1. ASSUME NEW j \in Pending, jobs[j].type = "delete_doc", jobs[j].doc = d
      PROVE  QueuedPurge(d)'
  <2>1. j \in JobId /\ jobs'[j] = jobs[j]
    BY <1>1, RequestJobs DEF Pending
  <2> QED BY <1>1, <2>1 DEF QueuedPurge, Pending
<1>2. ASSUME NEW s \in Requests \ {r},
             \/ at[s] \in {"saved", "purging", "inserting"} /\ d \in todo[s]
             \/ at[s] = "inserting" /\ d = doc[s]
      PROVE  QueuedPurge(d)'
  <2>1. at'[s] = at[s] /\ todo'[s] = todo[s] /\ doc'[s] = doc[s]
    BY <1>0, <1>2 DEF Goto, Requested, BeginRequest, ContinueRequest, LoadForLocks, LoadForDelete,
         LoadForSync, LoadCorpus, LoadForAdd, LoadForRemove, AddDocument, RemoveDocument,
         SaveFolders, LockDocuments, DeleteRoom, WithdrawBinding, EnqueueDelete, ListActive,
         AlignRows, MarkSyncing, EnqueueSync, Reconcile, HealBadge, QueryNotReady,
         EnqueueDeleteFails, RequestFails, RequestTypes
  <2> QED BY <1>2, <2>1 DEF QueuedPurge
<1>3. ASSUME \/ at[r] \in {"saved", "purging", "inserting"} /\ d \in todo[r]
             \/ at[r] = "inserting" /\ d = doc[r]
      PROVE  QueuedPurge(d)'
  <2>1. \/ \E ds \in SUBSET Docs : LockDocuments(r, ds)
        \/ \E e \in Docs : WithdrawBinding(r, e)
        \/ EnqueueDelete(r)
    BY <1>0, <1>3 DEF Goto, Fault, Requested, BeginRequest, ContinueRequest, LoadForLocks,
         LoadForDelete, LoadForSync, LoadCorpus, LoadForAdd, LoadForRemove, AddDocument,
         RemoveDocument, SaveFolders, DeleteRoom, ListActive, AlignRows, MarkSyncing,
         EnqueueSync, Reconcile, HealBadge, QueryNotReady, EnqueueDeleteFails, RequestFails
  <2>2. ASSUME NEW ds \in SUBSET Docs, LockDocuments(r, ds) PROVE QueuedPurge(d)'
    <3>1. at'[r] = "purging" /\ d \in todo'[r]
      BY <1>0, <1>3, <2>2 DEF LockDocuments, Goto, RequestTypes
    <3> QED BY <3>1 DEF QueuedPurge
  <2>3. ASSUME NEW e \in Docs, WithdrawBinding(r, e) PROVE QueuedPurge(d)'
    <3>1. at'[r] = "inserting" /\ (d \in todo'[r] \/ d = doc'[r])
      BY <1>0, <1>3, <2>3 DEF WithdrawBinding, NoCorpus, Goto, RequestTypes
    <3> QED BY <3>1 DEF QueuedPurge
  <2>4. CASE EnqueueDelete(r)
    <3>1. CASE d \in todo[r]
      <4>1. at'[r] = "purging" /\ d \in todo'[r]
        BY <1>0, <2>4, <3>1 DEF EnqueueDelete, Goto, RequestTypes
      <4> QED BY <4>1 DEF QueuedPurge
    <3>2. CASE d = doc[r]
      <4>1. PICK j \in JobId : j = queued + 1
        BY <1>0, <2>4, ConstantsAssumption DEF EnqueueDelete, EnqueueJob, JobTypes, JobId
      <4>2. jobs'[j] = [type |-> "delete_doc", doc |-> d, status |-> "pending"]
        BY <1>0, <2>4, <3>2, <4>1 DEF EnqueueDelete, EnqueueJob, JobTypes
      <4> QED BY <4>1, <4>2 DEF QueuedPurge, Pending
    <3> QED BY <1>3, <3>1, <3>2
  <2> QED BY <2>1, <2>2, <2>3, <2>4
<1> QED BY <1>1, <1>2, <1>3 DEF QueuedPurge

\* A member under a lock that it was not under before has its purge coming, and
\* so has a document that is taken out or locked itself.
LEMMA LocksAreQueued ==
    ASSUME TypeInv, NEW r \in Requests, Requested(r), faults' = 0, NEW d \in Docs
    PROVE  /\ d \in inRoom' \ late' /\ Above[d] \cap folderLocks' # {} =>
                 \/ d \in inRoom \ late /\ Above[d] \cap folderLocks # {}
                 \/ QueuedPurge(d)'
           /\ Withdrawn(d)' => Withdrawn(d) \/ QueuedPurge(d)'
<1>0. RequestTypes /\ RoomTypes /\ faults \in Nat
  BY TypeParts, ConstantsAssumption DEF TypeInv, OtherTypes
<1> DEFINE P == /\ d \in inRoom' \ late' /\ Above[d] \cap folderLocks' # {} =>
                       \/ d \in inRoom \ late /\ Above[d] \cap folderLocks # {}
                       \/ QueuedPurge(d)'
                /\ Withdrawn(d)' => Withdrawn(d) \/ QueuedPurge(d)'
<1>1. ASSUME NEW fs \in SUBSET Folders, SaveFolders(r, fs) PROVE P
  <2>1. /\ at'[r] = "saved" /\ inRoom' = inRoom /\ docLocks' = docLocks
        /\ todo'[r] = IF want[r] THEN {e \in inRoom : Above[e] \cap fs # {}} ELSE {}
        /\ late' = late \cup {e \in inRoom : Above[e] \cap (folderLocks' \ (folderLocks \cup fs)) # {}}
        /\ folderLocks' = IF want[r] THEN read[r] \cup fs ELSE read[r] \ fs
    BY <1>0, <1>1 DEF SaveFolders, Goto, RequestTypes
  <2>2. d \in todo'[r] => QueuedPurge(d)'
    BY <2>1 DEF QueuedPurge
  <2>3. ASSUME d \in inRoom \ late', NEW f \in Above[d] \cap folderLocks'
        PROVE  f \in folderLocks \/ d \in todo'[r]
    BY <2>1, <2>3
  <2> QED BY <2>1, <2>2, <2>3 DEF Withdrawn
<1>2. ASSUME NEW ds \in SUBSET Docs, LockDocuments(r, ds) PROVE P
  <2>1. /\ at'[r] = "purging" /\ inRoom' = inRoom /\ folderLocks' = folderLocks /\ late' = late
        /\ d \in docLocks' \ docLocks => d \in todo'[r]
    BY <1>0, <1>2 DEF LockDocuments, Goto, Members, RequestTypes
  <2>2. d \in todo'[r] => QueuedPurge(d)'
    BY <2>1 DEF QueuedPurge
  <2> QED BY <2>1, <2>2 DEF Withdrawn
<1>3. CASE AddDocument(r)
  BY <1>0, <1>3 DEF AddDocument, Withdrawn, RoomTypes
<1>4. CASE RemoveDocument(r)
  <2>1. /\ at'[r] = "purging" /\ folderLocks' = folderLocks /\ late' = late
        /\ inRoom' = inRoom \ {doc[r]} /\ docLocks' = docLocks \ {doc[r]}
        /\ d = doc[r] => d \in todo'[r]
    BY <1>0, <1>4 DEF RemoveDocument, Goto, RequestTypes
  <2>2. d \in todo'[r] => QueuedPurge(d)'
    BY <2>1 DEF QueuedPurge
  <2> QED BY <2>1, <2>2 DEF Withdrawn
<1>5. CASE DeleteRoom(r)
  <2>1. CASE UNCHANGED roomVars
    BY <2>1 DEF roomVars, Withdrawn
  <2>2. CASE ~UNCHANGED roomVars
    <3>1. /\ at'[r] = "purging" /\ folderLocks' = folderLocks /\ late' = late
          /\ inRoom' = inRoom \ todo[r] /\ docLocks' = docLocks \ todo[r]
          /\ todo' = todo
      BY <1>0, <1>5, <2>2 DEF DeleteRoom, Goto, RequestTypes
    <3>2. d \in todo[r] => QueuedPurge(d)'
      BY <3>1 DEF QueuedPurge
    <3> QED BY <3>1, <3>2 DEF Withdrawn
  <2> QED BY <2>1, <2>2
<1>6. ASSUME UNCHANGED roomVars PROVE P
  BY <1>6 DEF roomVars, Withdrawn
<1>7. \/ \E fs \in SUBSET Folders : SaveFolders(r, fs)
      \/ \E ds \in SUBSET Docs : LockDocuments(r, ds)
      \/ AddDocument(r) \/ RemoveDocument(r) \/ DeleteRoom(r) \/ UNCHANGED roomVars
  BY DEF Requested, BeginRequest, ContinueRequest, LoadForLocks, LoadForDelete, LoadForSync,
         LoadCorpus, LoadForAdd, LoadForRemove, WithdrawBinding, EnqueueDelete, ListActive,
         AlignRows, MarkSyncing, EnqueueSync, Reconcile, HealBadge, QueryNotReady,
         EnqueueDeleteFails, RequestFails
<1> QED BY <1>1, <1>2, <1>3, <1>4, <1>5, <1>6, <1>7

LEMMA PurgeAfterRequest ==
    ASSUME TypeInv, CorpusFirst, PurgeOwed, NEW r \in Requests, Requested(r)
    PROVE  PurgeOwed'
<1> SUFFICES ASSUME faults' = 0 PROVE LocksOwed' /\ PurgesOwed'
  BY DEF PurgeOwed
<1>0. RoomTypes /\ WorkerTypes /\ Held
  BY TypeParts DEF TypeInv
<1>1. faults = 0 /\ LocksOwed /\ PurgesOwed
  <2>1. faults' = faults \/ faults' = faults + 1
    BY DEF Goto, Fault, Requested, BeginRequest, ContinueRequest, LoadForLocks, LoadForDelete,
         LoadForSync, LoadCorpus, LoadForAdd, LoadForRemove, AddDocument, RemoveDocument,
         SaveFolders, LockDocuments, DeleteRoom, WithdrawBinding, EnqueueDelete, ListActive,
         AlignRows, MarkSyncing, EnqueueSync, Reconcile, HealBadge, QueryNotReady,
         EnqueueDeleteFails, RequestFails
  <2>2. faults \in Nat
    BY TypeParts, ConstantsAssumption DEF TypeInv, OtherTypes
  <2> QED BY <2>1, <2>2 DEF PurgeOwed
<1>2. UNCHANGED <<remote, workerVars>> /\ RoomTypes'
  BY RequestTyped
<1>s. shared' = shared
  BY <1>2 DEF workerVars
<1>3. \A w \in Workers : job[w] # NoJob => jobs'[job[w]] = jobs[job[w]]
  BY <1>0, RequestJobs DEF Held, WorkerTypes
<1>4. \A d \in Docs : InDanger(d)' => InDanger(d)
  BY <1>2 DEF InDanger, workerVars
<1>5. /\ \A d \in Docs : RunningPurge(d) => RunningPurge(d)'
      /\ \A d \in Docs : ClaimedPurge(d) => ClaimedPurge(d)'
  BY <1>0, <1>2, <1>3 DEF RunningPurge, ClaimedPurge, Purges, Claimed, workerVars, Type, Held
<1>6. \A w \in Workers : InPass(w)' => InPass(w) /\ seen'[w] = seen[w]
  BY <1>2, <1>3 DEF InPass, Type, workerVars
<1>7. LocksOwed'
  <2> SUFFICES ASSUME NEW w \in Workers, NEW d \in (inRoom' \ late') \ shared', InPass(w)',
                      Above[d] \cap folderLocks' # {}, Above[d] \cap seen'[w] = {}
               PROVE  QueuedPurge(d)' \/ ClaimedPurge(d)'
    BY DEF LocksOwed
  <2>1. d \in Docs
    BY <1>2 DEF RoomTypes
  <2>2. InPass(w) /\ Above[d] \cap seen[w] = {} /\ corpus # "none"
    BY <1>6, DangerNeedsCorpus DEF InPass
  <2>3. QueuedPurge(d) => QueuedPurge(d)'
    BY <2>1, <2>2, QueuedStays
  <2>4. \/ d \in inRoom \ late /\ Above[d] \cap folderLocks # {}
        \/ QueuedPurge(d)'
    BY <2>1, LocksAreQueued
  <2>5. QueuedPurge(d)' \/ QueuedPurge(d) \/ ClaimedPurge(d)
    BY <1>1, <1>s, <2>2, <2>4 DEF LocksOwed
  <2> QED BY <1>5, <2>1, <2>3, <2>5
<1>8. PurgesOwed'
  <2> SUFFICES ASSUME NEW d \in Docs \ shared', InDanger(d)', Withdrawn(d)'
               PROVE  QueuedPurge(d)' \/ RunningPurge(d)'
    BY DEF PurgesOwed
  <2>1. InDanger(d) /\ corpus # "none"
    BY <1>4, DangerNeedsCorpus
  <2>2. QueuedPurge(d) => QueuedPurge(d)'
    BY <2>1, QueuedStays
  <2>3. Withdrawn(d) \/ QueuedPurge(d)'
    BY LocksAreQueued
  <2>4. Withdrawn(d) => QueuedPurge(d) \/ RunningPurge(d)
    BY <1>1, <1>s, <2>1 DEF PurgesOwed
  <2> QED BY <1>5, <2>2, <2>3, <2>4
<1> QED BY <1>7, <1>8

LEMMA PurgeAfterWorker ==
    ASSUME TypeInv, Hands, PurgeOwed, NEW w \in Workers, Worked(w)
    PROVE  PurgeOwed'
<1> SUFFICES ASSUME faults' = 0 PROVE LocksOwed' /\ PurgesOwed'
  BY DEF PurgeOwed
<1>0. /\ RoomTypes /\ WorkerTypes /\ JobTypes /\ Held /\ Passes /\ faults \in Nat /\ OthersRest(w)
  BY TypeParts, WorkerTyped, ConstantsAssumption DEF TypeInv, OtherTypes
<1>2. Work(w) /\ faults = 0
  <2>1. faults' = faults \/ faults' = faults + 1
    BY DEF Fault, Worked, Work, ListPending, Claim, LoadRoom, Align, WriteRows, ListRows, NextRow,
         DocStep, Check, Exclude, BeginIngest, Ingest, MarkSynced, Purge, MarkDeleted, FailDoc,
         Publish, FinishJob, AbortJob, CallFails, StatusFails, JobFails, FinishFails, Crash
  <2>2. faults = 0
    BY <1>0, <2>1
  <2> QED BY <2>2 DEF Fault, Worked, CallFails, StatusFails, JobFails, FinishFails, Crash
<1>3. LocksOwed /\ PurgesOwed
  BY <1>2 DEF PurgeOwed
<1>4. UNCHANGED <<roomVars, requestVars>>
  BY WorkerTyped
<1>5. /\ \A d : Withdrawn(d)' <=> Withdrawn(d)
      /\ inRoom' = inRoom /\ late' = late /\ folderLocks' = folderLocks
  BY <1>4 DEF roomVars, Withdrawn
\* The other workers stay where they are, each at its job.
<1>b. ASSUME NEW v \in Workers \ {w}
      PROVE  /\ \A d : (Purges(v, d)' <=> Purges(v, d)) /\ (Claimed(v, d)' <=> Claimed(v, d))
             /\ (InPass(v)' <=> InPass(v)) /\ seen'[v] = seen[v]
             /\ step'[v] = step[v] /\ cur'[v] = cur[v]
  <2>1. UNCHANGED <<step[v], job[v], seen[v], cur[v]>>
    BY <1>0 DEF OthersRest
  <2>2. job[v] # NoJob =>
           /\ job[v] \in JobId
           /\ jobs'[job[v]].type = jobs[job[v]].type /\ jobs'[job[v]].doc = jobs[job[v]].doc
    BY <1>0, WorkerJobs DEF WorkerTypes
  <2>3. step[v] = "claimed" => job[v] # NoJob
    BY <1>0 DEF Held
  <2> QED BY <2>1, <2>2, <2>3 DEF Purges, Claimed, InPass, Type
\* A document that is shared no longer has no copy, and no pass is running.
<1>e. ASSUME NEW d \in shared \ shared', d \in Docs
      PROVE  ~InDanger(d)' /\ \A v \in Workers : ~InPass(v)'
  <2>1. /\ d \notin remote' /\ step'[w] = "purged" /\ Type(w)' = "delete_doc"
        /\ \A v \in Workers \ {w} : d \notin InHand(v)
    BY <1>e, Forgets DEF Hands
  <2>2. ASSUME NEW v \in Workers \ {w} PROVE ~InPass(v)
    BY <1>0, <1>e, <2>1 DEF InPass, InHand, About, Held
  <2>3. ASSUME NEW v \in Workers \ {w}, step[v] \in {"syncing", "upload"} PROVE cur[v] # d
    BY <1>e, <2>1, <2>3, ConstantsAssumption DEF Hands, Own
  <2> QED BY <1>b, <2>1, <2>2, <2>3 DEF InDanger, InPass
\* A queued purge stays queued, or it is the job that this worker takes.
<1>6. ASSUME NEW d \in Docs, QueuedPurge(d) PROVE QueuedPurge(d)' \/ ClaimedPurge(d)'
  <2>1. CASE \E r \in Requests :
                \/ at[r] \in {"saved", "purging", "inserting"} /\ d \in todo[r]
                \/ at[r] = "inserting" /\ d = doc[r]
    BY <1>4, <2>1 DEF QueuedPurge, requestVars
  <2>2. ASSUME NEW j \in JobId, jobs[j].status = "pending", jobs[j].type = "delete_doc", jobs[j].doc = d
        PROVE  QueuedPurge(d)' \/ ClaimedPurge(d)'
    <3>1. job[w] # j
      BY <1>0, <2>2 DEF Held, NoJob, JobId
    <3>2. CASE jobs'[j] = jobs[j]
      BY <2>2, <3>2 DEF QueuedPurge, Pending
    <3>3. CASE jobs'[j] # jobs[j]
      <4>1. Takes(w) /\ job'[w] = j /\ step'[w] = "claimed"
            /\ jobs'[j].type = "delete_doc" /\ jobs'[j].doc = d
        BY <2>2, <3>1, <3>3, WorkerJobs DEF Takes
      <4> QED BY <4>1 DEF ClaimedPurge, Claimed, Type
    <3> QED BY <3>2, <3>3
  <2> QED BY <1>6, <2>1, <2>2 DEF QueuedPurge, Pending
<1>c. \A d : ClaimedPurge(d) => RunningPurge(d)
  BY DEF ClaimedPurge, RunningPurge
<1>d. \A d : ClaimedPurge(d)' => RunningPurge(d)'
  BY DEF ClaimedPurge, RunningPurge
\* Steps that do not purge, and that make no copy but one that was coming.
<1>7. ASSUME step[w] \notin {"claimed", "purge"},
             \A d \in Docs : InDanger(d)' => InDanger(d)
      PROVE  PurgesOwed'
  <2>1. \A d \in Docs : RunningPurge(d) => RunningPurge(d)'
    BY <1>b, <1>7 DEF RunningPurge, Purges, Claimed
  <2> QED BY <1>3, <1>e, <1>5, <1>6, <1>7, <1>d, <2>1 DEF PurgesOwed
<1>8. ASSUME step[w] # "claimed", InPass(w)' => InPass(w) /\ seen'[w] = seen[w]
      PROVE  LocksOwed'
  <2> SUFFICES ASSUME NEW v \in Workers, NEW d \in (inRoom \ late) \ shared', InPass(v)',
                      Above[d] \cap folderLocks # {}, Above[d] \cap seen'[v] = {}
               PROVE  QueuedPurge(d)' \/ ClaimedPurge(d)'
    BY <1>5 DEF LocksOwed
  <2>1. d \in Docs /\ d \notin shared
    BY <1>0, <1>e DEF RoomTypes
  <2>2. InPass(v) /\ seen'[v] = seen[v]
    BY <1>8, <1>b
  <2>3. ClaimedPurge(d) => ClaimedPurge(d)'
    BY <1>8, <1>b DEF ClaimedPurge, Claimed
  <2> QED BY <1>3, <1>6, <2>1, <2>2, <2>3 DEF LocksOwed
\* No worker but this one begins an upload.
<1>9. ASSUME NEW d \in Docs, InDanger(d)', ~InDanger(d)
      PROVE  d \in remote' \/ (step'[w] \in {"syncing", "upload"} /\ cur'[w] = d)
  BY <1>b, <1>9 DEF InDanger
<1> USE DEF Go
<1>10. CASE ListPending(w) \/ Claim(w)
  <2>1. /\ step[w] \in {"idle", "batch"} /\ step'[w] \in {"idle", "batch", "claimed"}
        /\ remote' = remote
    BY <1>0, <1>10 DEF ListPending, Claim, WorkerTypes
  <2>2. ~InPass(w)'
    <3>1. step'[w] = "claimed" \/ job'[w] = NoJob
      BY <1>0, <2>1, WorkerJobs DEF Held
    <3> QED BY <3>1 DEF InPass
  <2>3. LocksOwed'
    BY <1>8, <2>1, <2>2
  <2>4. \A d \in Docs : InDanger(d)' => InDanger(d)
    BY <1>9, <2>1 DEF InDanger
  <2> QED BY <1>7, <2>1, <2>3, <2>4
\* A purge that begins while another worker has its document shares it.
<1>11. CASE LoadRoom(w)
  <2>1. /\ step[w] = "claimed" /\ job' = job /\ jobs' = jobs /\ remote' = remote
        /\ seen'[w] = folderLocks
        /\ \/ step'[w] = "finish" /\ (Type(w) = "sync_room" \/ remote = {})
           \/ step'[w] = "align" /\ Type(w) = "sync_room"
           \/ step'[w] = "purge" /\ cur'[w] = jobs[job[w]].doc
    BY <1>0, <1>11 DEF LoadRoom, WorkerTypes, RoomTypes, jobVars
  <2>2. ASSUME NEW d \in Docs \ shared', QueuedPurge(d) PROVE QueuedPurge(d)'
    <3>1. Pending' = Pending
      BY <2>1 DEF Pending
    <3> QED BY <1>4, <2>1, <2>2, <3>1 DEF QueuedPurge, requestVars
  <2>3. ASSUME NEW d \in Docs \ shared', Claimed(w, d), NEW v \in Workers \ {w}
        PROVE  d \notin InHand(v)
    <3>1. d \in About(w)
      BY <2>3 DEF Claimed, About
    <3>2. shared' = shared \cup (About(w) \cap HeldByOthers(w))
      BY <2>1, Begins DEF Purge, DocStep
    <3> QED BY <2>3, <3>1, <3>2 DEF HeldByOthers
  <2>4. LocksOwed'
    <3> SUFFICES ASSUME NEW v \in Workers, NEW d \in (inRoom \ late) \ shared', InPass(v)',
                        Above[d] \cap folderLocks # {}, Above[d] \cap seen'[v] = {}
                 PROVE  QueuedPurge(d)' \/ ClaimedPurge(d)'
      BY <1>5 DEF LocksOwed
    <3>1. v # w
      BY <2>1
    <3>2. InPass(v) /\ seen'[v] = seen[v] /\ d \in Docs /\ d \notin shared
      BY <1>0, <1>b, <1>e, <3>1 DEF RoomTypes
    <3>3. d \in InHand(v)
      BY <1>0, <3>2 DEF InPass, InHand, About, Held
    <3>4. QueuedPurge(d) \/ ClaimedPurge(d)
      BY <1>3, <3>2 DEF LocksOwed
    <3>5. ~Claimed(w, d)
      BY <2>3, <3>1, <3>2, <3>3
    <3>6. ClaimedPurge(d) => ClaimedPurge(d)'
      BY <1>b, <3>5 DEF ClaimedPurge
    <3> QED BY <2>2, <3>2, <3>4, <3>6
  <2>5. ASSUME NEW d \in Docs \ shared', InDanger(d)', Withdrawn(d)'
        PROVE  QueuedPurge(d)' \/ RunningPurge(d)'
    <3>1. InDanger(d)
      BY <1>9, <2>1, <2>5 DEF InDanger
    <3>2. QueuedPurge(d) \/ RunningPurge(d)
      BY <1>3, <1>e, <1>5, <2>5, <3>1 DEF PurgesOwed
    <3>3. CASE Claimed(w, d)
      <4>1. \A v \in Workers \ {w} : ~(step[v] \in {"syncing", "upload"} /\ cur[v] = d)
        <5>1. ASSUME NEW v \in Workers \ {w}, step[v] \in {"syncing", "upload"}, cur[v] = d
              PROVE  d \in InHand(v)
          BY <5>1, ConstantsAssumption DEF Hands, Own
        <5> QED BY <2>3, <3>3, <5>1
      <4>2. d \in remote
        BY <2>1, <3>1, <4>1 DEF InDanger
      <4>3. Purges(w, d)'
        BY <2>1, <3>3, <4>2 DEF Claimed, Purges
      <4> QED BY <4>3 DEF RunningPurge
    <3>4. CASE ~Claimed(w, d)
      <4>1. RunningPurge(d) => RunningPurge(d)'
        BY <1>b, <2>1, <3>4 DEF RunningPurge, Purges
      <4> QED BY <2>2, <2>5, <3>2, <4>1
    <3> QED BY <3>3, <3>4
  <2> QED BY <2>4, <2>5 DEF PurgesOwed
<1>12. CASE Align(w) \/ WriteRows(w) \/ ListRows(w) \/ NextRow(w) \/ Publish(w)
  <2>1. /\ step[w] \in {"align", "write", "rows", "next", "publish"} /\ remote' = remote
        /\ step'[w] \notin {"syncing", "upload"} /\ job' = job /\ jobs' = jobs /\ seen' = seen
    BY <1>0, <1>12 DEF Align, WriteRows, ListRows, NextRow, Publish, WorkerTypes, jobVars
  <2>2. LocksOwed'
    BY <1>8, <2>1 DEF InPass, Type
  <2>3. \A d \in Docs : InDanger(d)' => InDanger(d)
    BY <1>9, <2>1 DEF InDanger
  <2> QED BY <1>7, <2>1, <2>2, <2>3
<1>13. CASE FinishJob(w) \/ AbortJob(w)
  <2>1. /\ step[w] \in {"finish", "abort"} /\ remote' = remote
        /\ step'[w] \in {"idle", "batch"} /\ job'[w] = NoJob
    BY <1>0, <1>13 DEF FinishJob, AbortJob, Release, WorkerTypes
  <2>2. LocksOwed'
    BY <1>8, <2>1 DEF InPass
  <2>3. \A d \in Docs : InDanger(d)' => InDanger(d)
    BY <1>9, <2>1 DEF InDanger
  <2> QED BY <1>7, <2>1, <2>2, <2>3
\* Steps on a document.
<1>14. ASSUME NEW from \in DocSteps, NEW to, DocStep(w, from, to)
       PROVE  /\ step[w] = from /\ step'[w] = to /\ cur' = cur
              /\ LocksOwed'
  <2>1. step[w] = from /\ step'[w] = to /\ cur' = cur /\ job' = job /\ jobs' = jobs /\ seen' = seen
    BY <1>0, <1>14 DEF DocStep, jobVars, WorkerTypes
  <2> QED BY <1>8, <2>1 DEF InPass, Type, DocSteps
<1>15. CASE Check(w)
  <2>1. PICK to \in {"purge", "exclude", "syncing"} :
           DocStep(w, "check", to) /\ (to = "syncing" => cur[w] \in inRoom /\ ~Excluded(cur[w], seen[w]))
    BY <1>15 DEF Check
  <2>2. remote' = remote /\ step[w] = "check" /\ step'[w] = to /\ cur' = cur /\ LocksOwed'
    BY <1>14, <1>15, <2>1 DEF Check, DocSteps
  <2>3. CASE to # "syncing"
    <3>1. \A d \in Docs : InDanger(d)' => InDanger(d)
      BY <1>9, <2>1, <2>2, <2>3 DEF InDanger
    <3> QED BY <1>7, <2>2, <3>1
  <2>4. CASE to = "syncing"
    <3>1. InPass(w)
      BY <1>0, <2>2 DEF InPass, Held, Passes, PassSteps
    <3>2. ASSUME NEW d \in Docs \ shared', InDanger(d)', Withdrawn(d)
          PROVE  QueuedPurge(d) \/ RunningPurge(d)
      <4>1. CASE InDanger(d)
        BY <1>3, <1>e, <3>2, <4>1 DEF PurgesOwed
      <4>2. CASE ~InDanger(d)
        <5>1. d = cur[w]
          BY <1>9, <2>2, <3>2, <4>2 DEF InDanger
        <5>2. /\ d \in (inRoom \ late) \ shared
              /\ Above[d] \cap folderLocks # {} /\ Above[d] \cap seen[w] = {}
          BY <1>0, <1>e, <2>1, <2>4, <3>2, <5>1 DEF Withdrawn, Excluded
        <5> QED BY <1>3, <1>c, <3>1, <5>2 DEF LocksOwed
      <4> QED BY <4>1, <4>2
    <3>3. \A d \in Docs : RunningPurge(d) => RunningPurge(d)'
      BY <1>b, <2>2 DEF RunningPurge, Purges, Claimed
    <3>4. PurgesOwed'
      BY <1>5, <1>6, <1>d, <3>2, <3>3 DEF PurgesOwed
    <3> QED BY <2>2, <3>4
  <2> QED BY <2>3, <2>4
<1>16. CASE \/ Exclude(w) \/ BeginIngest(w) \/ MarkSynced(w) \/ MarkDeleted(w) \/ FailDoc(w)
  <2>1. PICK from \in {"exclude", "syncing", "indexed", "purged", "refused"},
             to \in {"purge", "upload", Rest(w)} :
           /\ DocStep(w, from, to) /\ remote' = remote
           /\ to = "upload" => from = "syncing"
    BY <1>16 DEF Exclude, BeginIngest, MarkSynced, MarkDeleted, FailDoc, Rest
  <2>2. step[w] = from /\ step'[w] = to /\ cur' = cur /\ LocksOwed'
    BY <1>14, <2>1 DEF DocSteps
  <2>3. \A d \in Docs : InDanger(d)' => InDanger(d)
    BY <1>9, <2>1, <2>2 DEF InDanger, Rest
  <2> QED BY <1>7, <2>2, <2>3
<1>17. CASE Ingest(w)
  <2>1. step[w] = "upload" /\ step'[w] = "indexed" /\ remote' = remote \cup {cur[w]} /\ LocksOwed'
    BY <1>14, <1>17 DEF Ingest, DocSteps
  <2>2. \A d \in Docs : InDanger(d)' => InDanger(d)
    BY <1>9, <2>1 DEF InDanger
  <2> QED BY <1>7, <2>1, <2>2
<1>18. CASE Purge(w)
  <2>1. /\ step[w] = "purge" /\ step'[w] = "purged" /\ remote' = remote \ {cur[w]} /\ LocksOwed'
        /\ cur[w] \in Docs
    BY <1>0, <1>14, <1>18 DEF Purge, Passes, DocSteps
  <2>2. ASSUME NEW d \in Docs \ shared', InDanger(d)', Withdrawn(d)'
        PROVE  QueuedPurge(d)' \/ RunningPurge(d)'
    <3>1. InDanger(d)
      BY <1>9, <2>1, <2>2 DEF InDanger
    <3>2. d # cur[w]
      <4>1. SUFFICES ASSUME d = cur[w] PROVE FALSE
        OBVIOUS
      <4>2. PICK v \in Workers \ {w} : step[v] \in {"syncing", "upload"} /\ cur[v] = d
        BY <1>b, <2>1, <2>2, <4>1 DEF InDanger
      <4>3. d \in InHand(v) /\ d \in InHand(w)
        BY <2>1, <4>1, <4>2, ConstantsAssumption DEF Hands, Own
      <4> QED BY <1>e, <2>2, <4>3 DEF Hands, Alone
    <3>3. RunningPurge(d) => RunningPurge(d)'
      BY <1>b, <2>1, <3>2 DEF RunningPurge, Purges, Claimed
    <3> QED BY <1>3, <1>e, <1>5, <1>6, <1>d, <2>2, <3>1, <3>3 DEF PurgesOwed
  <2> QED BY <2>1, <2>2 DEF PurgesOwed
<1> QED BY <1>2, <1>10, <1>11, <1>12, <1>13, <1>15, <1>16, <1>17, <1>18 DEF Work

LEMMA PurgeStep ==
    TypeInv /\ Hands /\ CorpusFirst /\ PurgeOwed /\ [Next]_vars => PurgeOwed'
<1> SUFFICES ASSUME TypeInv, Hands, CorpusFirst, PurgeOwed, [Next]_vars PROVE PurgeOwed'
  OBVIOUS
<1>1. CASE UNCHANGED vars
  BY <1>1 DEF vars, roomVars, jobVars, requestVars, workerVars, PurgeOwed, LocksOwed, PurgesOwed,
              InPass, InDanger, QueuedPurge, ClaimedPurge, RunningPurge, Claimed, Purges, Pending,
              Withdrawn, Type
<1> QED BY <1>1, PurgeAfterRequest, PurgeAfterWorker, Steps

\* dealroom/service.go:2700: without a fault the copy of a document that was
\* locked or taken out never stays without a purge to come, although a running
\* pass still works with the folder locks it read at its start; unless a delete
\* and a pass of two replicas, or two passes, had the document in hand at once.
THEOREM WithdrawnArePurged == Spec => []PurgeComing
<1>1. Init => CorpusFirst /\ PurgeOwed
  BY DEF Init, CorpusFirst, PurgeOwed, LocksOwed, PurgesOwed, InPass, InDanger
<1>2. TypeInv /\ PurgeOwed => PurgeComing
  <2>1. TypeInv => remote \subseteq Docs
    BY TypeParts DEF TypeInv, OtherTypes
  <2>2. \A d : QueuedPurge(d) \/ RunningPurge(d) => PurgeDue(d)
    BY DEF QueuedPurge, RunningPurge, Purges, Claimed, PurgeDue
  <2> QED BY <2>1, <2>2 DEF PurgeOwed, PurgesOwed, InDanger, PurgeComing
<1>3. TypeInv /\ Hands /\ CorpusFirst /\ PurgeOwed /\ [Next]_vars => CorpusFirst' /\ PurgeOwed'
  BY CorpusStep, PurgeStep
<1> QED BY <1>1, <1>2, <1>3, TypeInvariant, HandsHold, PTL DEF Spec
=============================================================================
