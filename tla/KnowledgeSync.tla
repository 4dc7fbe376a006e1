---------------------------- MODULE KnowledgeSync ----------------------------
(***************************************************************************)
(* The search corpus of one deal room (apps/api/internal/knowledge and     *)
(* dealroom): the documents of a room are copied to an external knowledge  *)
(* base, and a document that is locked, or taken out of the room, has its  *)
(* copy purged.                                                            *)
(*                                                                         *)
(* HTTP requests change the room and queue jobs in the table               *)
(* knowledge_sync_jobs; a worker of every API replica polls that table,    *)
(* claims a job with a compare-and-set and drives the knowledge base.      *)
(* Neither side holds a lock: each call to the database or to the          *)
(* knowledge base is a step, and the others may step in between.           *)
(* Faults (a refused or unanswered call, a crash, a dropped request) spend *)
(* one of MaxFaults each.                                                  *)
(*                                                                         *)
(* One room; a document has one copy, known by one name; its folder does   *)
(* not change; archived documents are left out.                            *)
(***************************************************************************)
EXTENDS Naturals, FiniteSets

CONSTANTS Docs,       \* documents
          Folders,    \* folders of the room
          Above,      \* the folders a document lies in, at any depth
          Workers,    \* knowledge workers, one for each API replica
          Requests,   \* the HTTP requests ever made
          NoDoc,      \* "no document"
          MaxJobs,    \* bound on the jobs ever queued
          MaxFaults   \* bound on faults

ASSUME ConstantsAssumption ==
    /\ Above \in [Docs -> SUBSET Folders]
    /\ NoDoc \notin Docs
    /\ MaxJobs \in Nat
    /\ MaxFaults \in Nat

VARIABLES
    inRoom,       \* deal_room_documents: the members of the room
    docLocks,     \* the members with the column locked set
    folderLocks,  \* the folders marked locked in deal_rooms.settings
    deleted,      \* is the room soft-deleted?
    late,         \* (history) members in a folder that nobody knew to be locked for them
    corpus,       \* deal_room_rag_corpora.status, "none" without a row
    binding,      \* deal_room_rag_documents.status of each document
    remote,       \* the documents with a copy in the knowledge base
    jobs,         \* knowledge_sync_jobs
    queued,       \* the number of jobs inserted so far
    at,           \* how far a request is
    read,         \* the folder locks a request read with the room
    want,         \* does a lock request lock? is the badge a reader computed "ready"?
    todo,         \* the documents a request still has to handle
    doc,          \* the document a request is at
    step,         \* how far a worker is
    batch,        \* the pending jobs a worker listed
    job,          \* the job a worker claimed
    seen,         \* the folder locks its copy of the room has
    dels, ings,   \* the documents its pass has yet to delete and to ingest
    cur,          \* the document it is at
    bad,          \* did a document of its job fail?
    shared,       \* (history) documents that two workers had in hand, until one purges them alone
    faults

roomVars    == <<inRoom, docLocks, folderLocks, deleted, late>>
corpusVars  == <<corpus, binding>>
jobVars     == <<jobs, queued>>
requestVars == <<at, read, want, todo, doc>>
workerVars  == <<step, batch, job, seen, dels, ings, cur, bad, shared>>
vars == <<roomVars, corpus, binding, remote, jobVars, requestVars, workerVars, faults>>

JobId  == 1..MaxJobs
NoJob  == 0
Job    == [type : {"none", "sync_room", "delete_doc"}, doc : Docs \cup {NoDoc},
           status : {"none", "pending", "running", "done", "failed"}]

DocSteps == {"check", "syncing", "upload", "indexed", "exclude", "purge", "purged", "refused"}
JobSteps == {"claimed", "align", "write", "rows", "next", "publish", "finish", "abort"}

TypeOK ==
    /\ inRoom \in SUBSET Docs /\ docLocks \in SUBSET inRoom
    /\ folderLocks \in SUBSET Folders /\ deleted \in BOOLEAN /\ late \in SUBSET Docs
    /\ corpus \in {"none", "provisioning", "syncing", "ready", "degraded", "failed"}
    /\ binding \in [Docs -> {"none", "pending", "syncing", "synced", "failed", "deleted"}]
    /\ remote \in SUBSET Docs
    /\ jobs \in [JobId -> Job] /\ queued \in 0..MaxJobs
    /\ at \in [Requests -> {"new", "adding", "locking", "saved", "removing", "deleting", "purging",
                            "inserting", "aligning", "writing", "marking", "queueing",
                            "viewing", "healing", "asked", "over", "dead"}]
    /\ read \in [Requests -> SUBSET Folders] /\ want \in [Requests -> BOOLEAN]
    /\ todo \in [Requests -> SUBSET Docs] /\ doc \in [Requests -> Docs \cup {NoDoc}]
    /\ step \in [Workers -> {"idle", "batch"} \cup JobSteps \cup DocSteps]
    /\ batch \in [Workers -> SUBSET JobId] /\ job \in [Workers -> JobId \cup {NoJob}]
    /\ seen \in [Workers -> SUBSET Folders]
    /\ dels \in [Workers -> SUBSET Docs] /\ ings \in [Workers -> SUBSET Docs]
    /\ cur \in [Workers -> Docs \cup {NoDoc}] /\ bad \in [Workers -> BOOLEAN]
    /\ shared \in SUBSET Docs /\ faults \in 0..MaxFaults

\* A room as it may be before its corpus is first synced.
Init ==
    /\ inRoom \in SUBSET Docs /\ docLocks = {}
    /\ folderLocks \in SUBSET Folders /\ deleted = FALSE /\ late = {}
    /\ corpus = "none" /\ binding = [d \in Docs |-> "none"] /\ remote = {}
    /\ jobs = [j \in JobId |-> [type |-> "none", doc |-> NoDoc, status |-> "none"]]
    /\ queued = 0
    /\ at = [r \in Requests |-> "new"] /\ read = [r \in Requests |-> {}]
    /\ want = [r \in Requests |-> FALSE] /\ todo = [r \in Requests |-> {}]
    /\ doc = [r \in Requests |-> NoDoc]
    /\ step = [w \in Workers |-> "idle"] /\ batch = [w \in Workers |-> {}]
    /\ job = [w \in Workers |-> NoJob] /\ seen = [w \in Workers |-> {}]
    /\ dels = [w \in Workers |-> {}] /\ ings = [w \in Workers |-> {}]
    /\ cur = [w \in Workers |-> NoDoc] /\ bad = [w \in Workers |-> FALSE]
    /\ shared = {} /\ faults = 0

-----------------------------------------------------------------------------
(* Shared pieces.                                                          *)

Fault == faults < MaxFaults /\ faults' = faults + 1

\* knowledgeExcluded, with the folder locks of some copy of the room.
Excluded(d, locks) == d \in docLocks \/ Above[d] \cap locks # {}

\* alignRoomDocuments: first it lists the searchable documents, then it makes
\* them pending and marks every other row deleted.
Active(locks) == {d \in inRoom : ~Excluded(d, locks)}
Aligned(active) ==
    [d \in Docs |-> IF d \in active THEN "pending"
                    ELSE IF binding[d] = "none" THEN "none" ELSE "deleted"]

EnqueueJob(t, d) ==
    /\ queued < MaxJobs
    /\ queued' = queued + 1
    /\ jobs' = [jobs EXCEPT ![queued + 1] = [type |-> t, doc |-> d, status |-> "pending"]]

\* A step of request r from one place to another: no request touches the
\* knowledge base or a worker.  What it read is forgotten after its last use.
Goto(r, from, to) ==
    /\ at[r] = from
    /\ at' = [at EXCEPT ![r] = to]
    /\ UNCHANGED <<remote, workerVars>>

-----------------------------------------------------------------------------
(* Requests: dealroom.Service and knowledge.Service.EnqueueRoomSync.       *)

\* AddDocument checks the folder's lock in the room it read, and inserts later.
LoadForAdd(r, d) ==
    /\ ~deleted /\ Above[d] \cap folderLocks = {}
    /\ Goto(r, "new", "adding")
    /\ doc' = [doc EXCEPT ![r] = d]
    /\ UNCHANGED <<roomVars, corpusVars, jobVars, read, want, todo, faults>>

AddDocument(r) ==
    /\ Goto(r, "adding", "over")
    /\ inRoom' = inRoom \cup {doc[r]}
    /\ late' = IF Above[doc[r]] \cap folderLocks = {} THEN late ELSE late \cup {doc[r]}
    /\ doc' = [doc EXCEPT ![r] = NoDoc]
    /\ UNCHANGED <<docLocks, folderLocks, deleted, corpusVars, jobVars, read, want,
                   todo, faults>>

\* SetResourceLocks: read the room; save the folders; lock the documents.
LoadForLocks(r) ==
    /\ ~deleted
    /\ Goto(r, "new", "locking")
    /\ read' = [read EXCEPT ![r] = folderLocks]
    /\ want' \in {[want EXCEPT ![r] = TRUE], [want EXCEPT ![r] = FALSE]}
    /\ UNCHANGED <<roomVars, corpusVars, jobVars, todo, doc, faults>>

\* The whole settings document is written back, with what was read before: a
\* lock that was taken back meanwhile returns, and nobody purges for it.
SaveFolders(r, fs) ==
    /\ fs # {}
    /\ Goto(r, "locking", "saved")
    /\ folderLocks' = IF want[r] THEN read[r] \cup fs ELSE read[r] \ fs
    /\ todo' = [todo EXCEPT ![r] = IF want[r] THEN {d \in inRoom : Above[d] \cap fs # {}}
                                              ELSE {}]
    /\ late' = late \cup {d \in inRoom : Above[d] \cap (folderLocks' \ (folderLocks \cup fs)) # {}}
    /\ read' = [read EXCEPT ![r] = {}]
    /\ UNCHANGED <<inRoom, docLocks, deleted, corpusVars, jobVars, want, doc, faults>>

\* SetDealRoomDocumentsLocked updates the rows of the room, and makes none.
AnyRow(ds)  == ds
Members(ds) == ds \cap inRoom

LockDocuments(r, ds) ==
    /\ ds # {}
    /\ Goto(r, "locking", "purging") \/ Goto(r, "saved", "purging")
    /\ docLocks' = IF want[r] THEN docLocks \cup Members(ds) ELSE docLocks \ ds
    /\ todo' = [todo EXCEPT ![r] = IF want[r] THEN @ \cup ds ELSE @]
    /\ want' = [want EXCEPT ![r] = FALSE] /\ read' = [read EXCEPT ![r] = {}]
    /\ UNCHANGED <<inRoom, folderLocks, deleted, late, corpusVars, jobVars, doc, faults>>

\* RemoveDocument refuses a locked document, and deletes its row in a later call.
LoadForRemove(r, d) ==
    /\ ~deleted /\ d \in inRoom \ docLocks
    /\ Goto(r, "new", "removing")
    /\ doc' = [doc EXCEPT ![r] = d]
    /\ UNCHANGED <<roomVars, corpusVars, jobVars, read, want, todo, faults>>

RemoveDocument(r) ==
    /\ Goto(r, "removing", "purging")
    /\ inRoom' = inRoom \ {doc[r]} /\ docLocks' = docLocks \ {doc[r]}
    /\ todo' = [todo EXCEPT ![r] = {doc[r]}]
    /\ doc' = [doc EXCEPT ![r] = NoDoc]
    /\ UNCHANGED <<folderLocks, deleted, late, corpusVars, jobVars, read, want, faults>>

LoadForDelete(r) ==
    /\ ~deleted
    /\ Goto(r, "new", "deleting")
    /\ todo' = [todo EXCEPT ![r] = inRoom]
    /\ UNCHANGED <<roomVars, corpusVars, jobVars, read, want, doc, faults>>

Cancelled(j) == [j EXCEPT !.status = IF j.type = "sync_room" /\ j.status = "pending"
                                     THEN "done" ELSE @]

\* One transaction; it rolls back when another request deleted the room first.
DeleteRoom(r) ==
    /\ \/ /\ deleted
          /\ Goto(r, "deleting", "over")
          /\ UNCHANGED <<roomVars, jobs>>
       \/ /\ ~deleted
          /\ Goto(r, "deleting", "purging")
          /\ deleted' = TRUE
          /\ inRoom' = inRoom \ todo[r] /\ docLocks' = docLocks \ todo[r]
          /\ jobs' = [j \in JobId |-> Cancelled(jobs[j])]
          /\ UNCHANGED <<folderLocks, late>>
    /\ UNCHANGED <<corpusVars, queued, read, want, todo, doc, faults>>

\* EnqueueDeleteDocument, for each document in turn: without a corpus there is
\* nothing to purge; otherwise the row is marked, then the job is inserted.
NotReady == corpus \notin {"ready", "degraded"}
NoCorpus == corpus = "none"

WithdrawBinding(r, d) ==
    /\ d \in todo[r]
    /\ todo' = [todo EXCEPT ![r] = @ \ {d}]
    /\ doc' = [doc EXCEPT ![r] = d]
    /\ \E from \in {"saved", "purging"} :
          \/ /\ NoCorpus
             /\ Goto(r, from, "purging")
             /\ UNCHANGED binding
          \/ /\ ~NoCorpus
             /\ Goto(r, from, "inserting")
             /\ binding' = [binding EXCEPT ![d] = "deleted"]
    /\ UNCHANGED <<roomVars, corpus, jobVars, read, want, faults>>

EnqueueDelete(r) ==
    /\ Goto(r, "inserting", "purging")
    /\ EnqueueJob("delete_doc", doc[r])
    /\ doc' = [doc EXCEPT ![r] = NoDoc]
    /\ UNCHANGED <<roomVars, corpusVars, read, want, todo, faults>>

\* EnqueueRoomSync: the room is read before the corpus row is made sure of.
LoadForSync(r) ==
    /\ ~deleted
    /\ Goto(r, "new", "aligning")
    /\ read' = [read EXCEPT ![r] = folderLocks]
    /\ corpus' = IF corpus = "none" THEN "provisioning" ELSE corpus
    /\ UNCHANGED <<roomVars, binding, jobVars, want, todo, doc, faults>>

ListActive(r) ==
    /\ Goto(r, "aligning", "writing")
    /\ todo' = [todo EXCEPT ![r] = Active(read[r])]
    /\ read' = [read EXCEPT ![r] = {}]
    /\ UNCHANGED <<roomVars, corpusVars, jobVars, want, doc, faults>>

AlignRows(r) ==
    /\ Goto(r, "writing", "marking")
    /\ binding' = Aligned(todo[r])
    /\ todo' = [todo EXCEPT ![r] = {}]
    /\ UNCHANGED <<roomVars, corpus, jobVars, read, want, doc, faults>>

MarkSyncing(r) ==
    /\ Goto(r, "marking", "queueing")
    /\ corpus' = "syncing"
    /\ UNCHANGED <<roomVars, binding, jobVars, read, want, todo, doc, faults>>

EnqueueSync(r) ==
    /\ Goto(r, "queueing", "over")
    /\ EnqueueJob("sync_room", NoDoc)
    /\ UNCHANGED <<roomVars, corpusVars, read, want, todo, doc, faults>>

\* GetCorpus mends a badge that lags its documents: the corpus is read first, then
\* the room, the rows and the latest job, and at last the badge is written.
LoadCorpus(r) ==
    /\ ~deleted /\ corpus \in {"provisioning", "syncing"}
    /\ Goto(r, "new", "viewing")
    /\ UNCHANGED <<roomVars, corpusVars, jobVars, read, want, todo, doc, faults>>

Shown == {d \in Docs : /\ binding[d] \notin {"none", "deleted"}
                       /\ ~(d \in inRoom /\ Excluded(d, folderLocks))}

Reconcile(r) ==
    /\ ~deleted
    /\ Shown # {}
    /\ \A d \in Shown : binding[d] \in {"synced", "failed"}
    /\ ~\E j \in JobId : j = queued /\ jobs[j].status = "failed"
    /\ Goto(r, "viewing", "healing")
    /\ want' = [want EXCEPT ![r] = \A d \in Shown : binding[d] = "synced"]
    /\ UNCHANGED <<roomVars, corpusVars, jobVars, read, todo, doc, faults>>

HealBadge(r) ==
    /\ Goto(r, "healing", "over")
    /\ corpus' = IF want[r] THEN "ready" ELSE "degraded"
    /\ want' = [want EXCEPT ![r] = FALSE]
    /\ UNCHANGED <<roomVars, binding, jobVars, read, todo, doc, faults>>

\* Query: where a corpus that was provisioned answers that its index is not
\* ready, the badge says "syncing", and no job is queued.
QueryNotReady(r) ==
    /\ corpus # "none" /\ \E j \in JobId : jobs[j].status \in {"running", "done", "failed"}
    /\ Fault
    /\ Goto(r, "new", "asked")
    /\ corpus' = "syncing"
    /\ UNCHANGED <<roomVars, binding, jobVars, read, want, todo, doc>>

\* A delete that cannot be queued is only logged: the next document is next.
EnqueueDeleteFails(r) ==
    /\ \/ at[r] = "inserting" /\ UNCHANGED todo
       \/ /\ at[r] \in {"saved", "purging"}
          /\ \E d \in todo[r] : todo' = [todo EXCEPT ![r] = @ \ {d}]
    /\ Fault
    /\ at' = [at EXCEPT ![r] = "purging"]
    /\ UNCHANGED <<roomVars, corpusVars, remote, jobVars, read, want, doc,
                   workerVars>>

\* The request ends early: another call fails, or its process dies.
RequestFails(r) ==
    /\ at[r] \notin {"new", "asked", "over", "dead"}
    /\ Fault
    /\ at' = [at EXCEPT ![r] = "dead"]
    /\ todo' = [todo EXCEPT ![r] = {}]
    /\ UNCHANGED <<roomVars, corpusVars, remote, jobVars, read, want, doc,
                   workerVars>>

-----------------------------------------------------------------------------
(* Worker: process, handleJob, syncRoom, ingestOne, deleteOne.             *)

Type(w) == jobs[job[w]].type

\* The documents that a job is about, every one for a sync, and those that a
\* worker has in hand from the first step of its job to the last.
About(w)  == {d \in Docs : Type(w) = "sync_room" \/ jobs[job[w]].doc = d}
InHand(w) == IF step[w] \in {"idle", "batch", "claimed"} THEN {} ELSE About(w)
HeldByOthers(w) == UNION {InHand(v) : v \in Workers \ {w}}

\* What a worker begins while another has it in hand is shared by the two, until
\* a delete job purges it with nobody else at it.
SharedAfter(w, from, to) ==
    IF from = "claimed" THEN shared \cup (About(w) \cap HeldByOthers(w))
    ELSE IF to = "purged" /\ Type(w) = "delete_doc" THEN shared \ (About(w) \ HeldByOthers(w))
    ELSE shared

\* A step of worker w: no worker touches the room or a request.
Go(w, from, to) ==
    /\ step[w] = from
    /\ step' = [step EXCEPT ![w] = to]
    /\ shared' = SharedAfter(w, from, to)
    /\ UNCHANGED <<roomVars, requestVars>>

Pending == {j \in JobId : jobs[j].status = "pending"}

\* The order of ListPendingKnowledgeSyncJobs: deletes first, then by age.
Before(i, j) ==
    IF jobs[i].type = jobs[j].type THEN i < j ELSE jobs[i].type = "delete_doc"

ListPending(w) ==
    /\ Pending # {}
    /\ Go(w, "idle", "batch")
    /\ batch' = [batch EXCEPT ![w] = Pending]
    /\ UNCHANGED <<corpusVars, remote, jobVars, job, seen, dels, ings, cur, bad,
                   faults>>

ClaimUnchecked(j) == jobs' = [jobs EXCEPT ![j].status = "running"]
ClaimJob(j) ==
    /\ jobs[j].status = "pending"
    /\ jobs' = [jobs EXCEPT ![j].status = "running"]

\* A job that is no longer pending, claimed elsewhere or cancelled, is passed over.
Claim(w) ==
    /\ \E j \in batch[w] :
          /\ \A i \in batch[w] \ {j} : Before(j, i)
          /\ batch' = [batch EXCEPT ![w] = @ \ {j}]
          /\ \/ /\ ClaimJob(j)
                /\ Go(w, "batch", "claimed")
                /\ job' = [job EXCEPT ![w] = j]
             \/ /\ jobs[j].status # "pending"
                /\ Go(w, "batch", IF batch[w] = {j} THEN "idle" ELSE "batch")
                /\ UNCHANGED <<jobs, job>>
    /\ UNCHANGED <<corpusVars, remote, queued, seen, dels, ings, cur, bad, faults>>

\* handleJob keeps the room it reads here, with its folder locks, to the end of
\* the job.  Provisioning a live room writes its corpus status; a deleted room
\* has its sync jobs dropped, and its deletes where nothing was ever provisioned.
LoadRoom(w) ==
    /\ \/ /\ Go(w, "claimed", "finish")
          /\ deleted /\ (Type(w) = "sync_room" \/ remote = {})
          /\ UNCHANGED <<corpus, cur>>
       \/ /\ Go(w, "claimed", "align")
          /\ Type(w) = "sync_room" /\ ~deleted
          /\ corpus' = "provisioning"
          /\ UNCHANGED cur
       \/ /\ Go(w, "claimed", "purge")
          /\ Type(w) = "delete_doc"
          /\ corpus' = IF deleted THEN corpus ELSE "provisioning"
          /\ cur' = [cur EXCEPT ![w] = jobs[job[w]].doc]
    /\ seen' = [seen EXCEPT ![w] = folderLocks]
    /\ UNCHANGED <<binding, remote, jobVars, batch, job, dels, ings, bad, faults>>

Align(w) ==
    /\ Go(w, "align", "write")
    /\ ings' = [ings EXCEPT ![w] = Active(seen[w])]
    /\ UNCHANGED <<corpusVars, remote, jobVars, batch, job, seen, dels, cur, bad,
                   faults>>

WriteRows(w) ==
    /\ Go(w, "write", "rows")
    /\ binding' = Aligned(ings[w])
    /\ UNCHANGED <<corpus, remote, jobVars, batch, job, seen, dels, ings, cur, bad,
                   faults>>

ListRows(w) ==
    /\ Go(w, "rows", "next")
    /\ dels' = [dels EXCEPT ![w] = {d \in Docs : binding[d] = "deleted"}]
    /\ ings' = [ings EXCEPT ![w] = {d \in Docs : binding[d] \in {"pending", "failed", "syncing"}}]
    /\ UNCHANGED <<corpusVars, remote, jobVars, batch, job, seen, cur, bad, faults>>

NextRow(w) ==
    /\ \/ /\ \E d \in dels[w] :
                /\ Go(w, "next", "purge")
                /\ cur' = [cur EXCEPT ![w] = d]
                /\ dels' = [dels EXCEPT ![w] = @ \ {d}]
          /\ UNCHANGED ings
       \/ /\ dels[w] = {}
          /\ \E d \in ings[w] :
                /\ Go(w, "next", "check")
                /\ cur' = [cur EXCEPT ![w] = d]
                /\ ings' = [ings EXCEPT ![w] = @ \ {d}]
          /\ UNCHANGED dels
       \/ /\ dels[w] = {} /\ ings[w] = {}
          /\ Go(w, "next", "publish")
          /\ UNCHANGED <<dels, ings, cur>>
    /\ UNCHANGED <<corpusVars, remote, jobVars, batch, job, seen, bad, faults>>

\* After a document: the next one of the pass, or the end of a delete job.
Rest(w) == IF Type(w) = "sync_room" THEN "next" ELSE "finish"

\* A step of w on its current document.
DocStep(w, from, to) ==
    /\ Go(w, from, to)
    /\ UNCHANGED <<corpus, jobVars, batch, job, seen, dels, ings, cur>>

SetStatus(d, s) == binding' = [binding EXCEPT ![d] = s]

\* ingestOne reads the document's row once more, but not the room's settings.
Check(w) ==
    /\ DocStep(w, "check", IF cur[w] \notin inRoom THEN "purge"
                           ELSE IF Excluded(cur[w], seen[w]) THEN "exclude" ELSE "syncing")
    /\ UNCHANGED <<binding, remote, bad, faults>>

Exclude(w) ==
    /\ DocStep(w, "exclude", "purge")
    /\ SetStatus(cur[w], "deleted")
    /\ UNCHANGED <<remote, bad, faults>>

BeginIngestAsSynced(w) ==
    /\ DocStep(w, "syncing", "upload")
    /\ SetStatus(cur[w], "synced")
    /\ UNCHANGED <<remote, bad, faults>>

BeginIngest(w) ==
    /\ DocStep(w, "syncing", "upload")
    /\ SetStatus(cur[w], "syncing")
    /\ UNCHANGED <<remote, bad, faults>>

Ingest(w) ==
    /\ DocStep(w, "upload", "indexed")
    /\ remote' = remote \cup {cur[w]}
    /\ UNCHANGED <<binding, bad, faults>>

MarkSynced(w) ==
    /\ DocStep(w, "indexed", Rest(w))
    /\ SetStatus(cur[w], "synced")
    /\ UNCHANGED <<remote, bad, faults>>

Purge(w) ==
    /\ DocStep(w, "purge", "purged")
    /\ remote' = remote \ {cur[w]}
    /\ UNCHANGED <<binding, bad, faults>>

MarkDeleted(w) ==
    /\ DocStep(w, "purged", Rest(w))
    /\ SetStatus(cur[w], "deleted")
    /\ UNCHANGED <<remote, bad, faults>>

\* Reading the row, or a call to the knowledge base (applied or not), fails.
CallFails(w) ==
    /\ \/ DocStep(w, "check", "refused") /\ UNCHANGED remote
       \/ DocStep(w, "upload", "refused") /\ remote' \in {remote, remote \cup {cur[w]}}
       \/ DocStep(w, "purge", "refused") /\ remote' \in {remote, remote \ {cur[w]}}
    /\ Fault
    /\ UNCHANGED <<binding, bad>>

\* A status is not written: passed over before the call, a failure after it.
StatusFails(w) ==
    /\ \/ DocStep(w, "exclude", "purge") /\ UNCHANGED bad
       \/ DocStep(w, "syncing", "upload") /\ UNCHANGED bad
       \/ \E from \in {"indexed", "purged", "refused"} :
             DocStep(w, from, Rest(w)) /\ bad' = [bad EXCEPT ![w] = TRUE]
    /\ Fault
    /\ UNCHANGED <<binding, remote>>

FailDoc(w) ==
    /\ DocStep(w, "refused", Rest(w))
    /\ SetStatus(cur[w], "failed")
    /\ bad' = [bad EXCEPT ![w] = TRUE]
    /\ UNCHANGED <<remote, faults>>

PublishNothing(w) ==
    /\ Go(w, "publish", "finish")
    /\ UNCHANGED <<corpusVars, remote, jobVars, batch, job, seen, dels, ings, cur,
                   bad, faults>>

Publish(w) ==
    /\ Go(w, "publish", "finish")
    /\ corpus' = IF bad[w] THEN "degraded" ELSE "ready"
    /\ UNCHANGED <<binding, remote, jobVars, batch, job, seen, dels, ings, cur, bad,
                   faults>>

\* Another call of the job fails, which fails the job.
JobFails(w) ==
    /\ \E from \in {"claimed", "align", "write", "rows", "publish"} : Go(w, from, "abort")
    /\ Fault
    /\ UNCHANGED <<corpusVars, remote, jobVars, batch, job, seen, dels, ings, cur,
                   bad>>

\* The worker is done with its job, and turns to the next one of its list.
Release(w, from, status) ==
    /\ Go(w, from, IF batch[w] = {} THEN "idle" ELSE "batch")
    /\ jobs' = [jobs EXCEPT ![job[w]].status = status]
    /\ job' = [job EXCEPT ![w] = NoJob]
    /\ cur' = [cur EXCEPT ![w] = NoDoc]
    /\ dels' = [dels EXCEPT ![w] = {}] /\ ings' = [ings EXCEPT ![w] = {}]
    /\ bad' = [bad EXCEPT ![w] = FALSE]
    /\ UNCHANGED <<binding, remote, queued, batch, seen>>

FinishJob(w) ==
    /\ Release(w, "finish", IF bad[w] /\ Type(w) = "delete_doc" THEN "failed" ELSE "done")
    /\ UNCHANGED <<corpus, faults>>

AbortKeepsBadge(w) == corpus
AfterAbort(w) == IF Type(w) = "sync_room" THEN "failed" ELSE corpus

AbortJob(w) ==
    /\ Release(w, "abort", "failed")
    /\ corpus' = AfterAbort(w)
    /\ UNCHANGED faults

\* The end of the job is not written, which is ignored: it stays "running".
FinishFails(w) ==
    /\ \/ Release(w, "finish", "running") /\ UNCHANGED corpus
       \/ Release(w, "abort", "running") /\ corpus' = AfterAbort(w)
    /\ Fault

\* The replica dies: its job stays "running", and no worker lists it again.
Crash(w) ==
    /\ step[w] # "idle"
    /\ Fault
    /\ step' = [step EXCEPT ![w] = "idle"] /\ batch' = [batch EXCEPT ![w] = {}]
    /\ job' = [job EXCEPT ![w] = NoJob] /\ cur' = [cur EXCEPT ![w] = NoDoc]
    /\ dels' = [dels EXCEPT ![w] = {}] /\ ings' = [ings EXCEPT ![w] = {}]
    /\ bad' = [bad EXCEPT ![w] = FALSE]
    /\ UNCHANGED <<roomVars, corpusVars, remote, jobVars, requestVars, seen, shared>>

-----------------------------------------------------------------------------
BeginRequest(r) ==
    \/ LoadForLocks(r) \/ LoadForDelete(r) \/ LoadForSync(r) \/ LoadCorpus(r)
    \/ \E d \in Docs : LoadForAdd(r, d) \/ LoadForRemove(r, d)

\* A request runs to its end on its own.
ContinueRequest(r) ==
    \/ \E fs \in SUBSET Folders : SaveFolders(r, fs)
    \/ \E ds \in SUBSET Docs : LockDocuments(r, ds)
    \/ AddDocument(r) \/ RemoveDocument(r) \/ DeleteRoom(r)
    \/ \E d \in Docs : WithdrawBinding(r, d)
    \/ EnqueueDelete(r)
    \/ ListActive(r) \/ AlignRows(r) \/ MarkSyncing(r) \/ EnqueueSync(r)
    \/ Reconcile(r) \/ HealBadge(r)

Work(w) ==
    \/ ListPending(w) \/ Claim(w) \/ LoadRoom(w)
    \/ Align(w) \/ WriteRows(w) \/ ListRows(w) \/ NextRow(w)
    \/ Check(w) \/ Exclude(w) \/ BeginIngest(w) \/ Ingest(w) \/ MarkSynced(w)
    \/ Purge(w) \/ MarkDeleted(w) \/ FailDoc(w)
    \/ Publish(w) \/ FinishJob(w) \/ AbortJob(w)

Next ==
    \/ \E r \in Requests :
          \/ BeginRequest(r) \/ ContinueRequest(r)
          \/ QueryNotReady(r) \/ EnqueueDeleteFails(r) \/ RequestFails(r)
    \/ \E w \in Workers :
          \/ Work(w)
          \/ CallFails(w) \/ StatusFails(w) \/ JobFails(w) \/ FinishFails(w) \/ Crash(w)

\* Handlers run to their end and the worker polls for ever.
Fairness ==
    /\ \A r \in Requests : WF_vars(ContinueRequest(r))
    /\ \A w \in Workers : WF_vars(Work(w))

Spec     == Init /\ [][Next]_vars
FairSpec == Spec /\ Fairness

-----------------------------------------------------------------------------
(* Correctness.                                                            *)

\* The copy of a document that is locked or has left the room must go.  Nobody
\* is told of one that entered a folder while that folder was being locked, or
\* whose folder a stale write of the settings locked again.
Withdrawn(d) == \/ d \notin inRoom \/ d \in docLocks
                \/ d \notin late /\ Above[d] \cap folderLocks # {}

\* Something will still purge the copy of d: a queued or a claimed delete job,
\* a worker about to, or a request that is yet to queue the job.
PurgeDue(d) ==
    \/ \E j \in Pending : jobs[j].type = "delete_doc" /\ jobs[j].doc = d
    \/ \E w \in Workers :
          \/ step[w] = "purge" /\ cur[w] = d
          \/ step[w] = "claimed" /\ Type(w) = "delete_doc" /\ jobs[job[w]].doc = d
    \/ \E r \in Requests :
          \/ at[r] \in {"saved", "purging", "inserting"} /\ d \in todo[r]
          \/ at[r] = "inserting" /\ d = doc[r]

\* Without a fault a withdrawn document never keeps its copy unnoticed, however
\* requests and running jobs interleave, unless two workers had it in hand.
PurgeComing == faults = 0 => \A d \in remote \ shared : Withdrawn(d) => PurgeDue(d)

\* A document shown as synced has its copy, except while a delete job purges it,
\* where such a job failed or was left behind by a dead worker, or where two
\* workers had the document in hand.
Broken(j, d) ==
    /\ jobs[j].type = "delete_doc" /\ jobs[j].doc = d
    /\ \/ jobs[j].status = "failed"
       \/ jobs[j].status = "running" /\ \A w \in Workers : job[w] # j

SyncedIsIndexed ==
    \A d \in Docs \ shared : binding[d] = "synced" =>
        \/ d \in remote
        \/ \E w \in Workers :
              /\ cur[w] = d /\ Type(w) = "delete_doc"
              /\ step[w] \in {"purged", "refused"} \/ bad[w]
        \/ \E j \in JobId : Broken(j, d)

\* A job that was cancelled or has ended is never run again, also when a worker
\* listed it before.
EndedJobStays ==
    [][\A j \in JobId : jobs[j].status \in {"done", "failed"} => jobs'[j] = jobs[j]]_vars

\* worker.go:99: a room is not left on "syncing" when its jobs have ended, also
\* when the last one failed; only a request that died before it queued the job,
\* or a question the knowledge base could not answer, leaves it so.
Busy == \/ \E j \in JobId : jobs[j].status \in {"pending", "running"}
        \/ \E r \in Requests : at[r] = "queueing"
BadgeSettles ==
    corpus = "syncing" => Busy \/ deleted \/ \E r \in Requests : at[r] \in {"dead", "asked"}

\* dealroom/service.go:2700: a lock (or a removal) purges the copy of the file.
\* It is meant for instances without faults.
EventuallyPurged ==
    \A d \in Docs : d \in remote /\ Withdrawn(d) ~> d \notin remote \/ ~Withdrawn(d)

\* Where MaxFaults is 0 every sync that is being queued leads to a result on the
\* badge, unless the room is deleted.
SyncEnds ==
    (\E r \in Requests : at[r] = "queueing")
        ~> corpus \in {"ready", "degraded", "failed"} \/ deleted
=============================================================================
