------------------------------- MODULE Library -------------------------------
(***************************************************************************)
(* The documents of one file name in a workspace's library                 *)
(* (apps/api/internal/upload, ingestion, workspace/quota.go): uploads that *)
(* create the document or replace its file, archive, restore and delete,   *)
(* and the ingestion worker of every API replica that turns a stored file  *)
(* into page images and page rows.                                         *)
(*                                                                         *)
(* An upload looks the name up, puts its bytes in the object store under a *)
(* key of its own, and then writes its rows in one transaction under the   *)
(* workspace's billing lock.  The worker polls ingestion_jobs; nothing     *)
(* claims a job, and nothing stops a request from changing the document    *)
(* while the worker is at it.                                              *)
(*                                                                         *)
(* Upload u names the request, the object it stores and the row it writes: *)
(* the document it creates, or the archived snapshot of the file it        *)
(* replaces.  Every file has NumPages pages and takes one unit of storage, *)
(* so that the caps on documents and on storage are one cap.               *)
(***************************************************************************)
EXTENDS Naturals, FiniteSets

CONSTANTS Uploads,    \* upload requests
          Workers,    \* ingestion workers, one for each API replica
          NoUpload,   \* "no object", "no row"
          NumPages,   \* the pages of a file
          Caps,       \* the caps of the plans, 0 for an unlimited one
          Limit,      \* Worker.limit
          MaxFaults   \* bound on crashes and failed calls

ASSUME ConstantsAssumption ==
    /\ NoUpload \notin Uploads
    /\ IsFiniteSet(Uploads)
    /\ NumPages \in Nat \ {0}
    /\ Caps \in SUBSET Nat
    /\ Limit \in Nat \ {0}
    /\ MaxFaults \in Nat

VARIABLES
    status,     \* documents.status, "none" without a row
    key,        \* documents.storage_key
    named,      \* does the row carry the file name of the uploads?
    deleted,    \* the rows with deleted_at set
    born,       \* the order of creation of the rows
    jobStatus,  \* ingestion_jobs.status of the row's job, "none" without one
    attempts,   \* ingestion_jobs.attempts
    pages,      \* the pages rows of a document: the file each was drawn from
    images,     \* the page images in the object store, likewise
    objects,    \* the uploaded files in the object store
    cap,        \* the cap of the workspace's plan
    at,         \* how far an upload is
    target,     \* the document it replaces
    prev,       \* the storage key it read with that document
    step,       \* how far a worker is
    batch,      \* the documents whose jobs it listed
    cur,        \* the document it is at
    src,        \* the storage key it read with that document
    tries,      \* the attempts it read with the job
    page,       \* the page it is at
    torn,       \* (history) documents whose file was replaced during a run and
                \* that no worker has listed alone since
    unsure,     \* (history) uploads that were committed and told otherwise
    shared,     \* (history) documents that a worker listed while another had
                \* them in hand, and none has listed alone since
    faults

rowVars     == <<status, key, named, deleted, born>>
jobVars     == <<jobStatus, attempts>>
pageVars    == <<pages, images>>
requestVars == <<cap, at, target, prev>>
workerVars  == <<step, batch, cur, src, tries, page>>
history     == <<torn, unsure, shared>>
vars == <<rowVars, jobVars, pageVars, objects, requestVars, workerVars, history, faults>>

maxIngestionAttempts == 3

Page  == 1..NumPages
Blank == [n \in Page |-> NoUpload]
Key   == Uploads \cup {NoUpload}

TypeOK ==
    /\ status \in [Uploads -> {"none", "uploaded", "ready", "failed", "archived"}]
    /\ key \in [Uploads -> Key] /\ named \in [Uploads -> BOOLEAN]
    /\ deleted \in SUBSET Uploads /\ born \in [Uploads -> 0..Cardinality(Uploads)]
    /\ jobStatus \in [Uploads -> {"none", "queued", "processing", "failed", "completed"}]
    /\ attempts \in [Uploads -> 0..maxIngestionAttempts]
    /\ pages \in [Uploads -> [Page -> Key]] /\ images \in [Uploads -> [Page -> Key]]
    /\ objects \in SUBSET Uploads /\ cap \in Caps
    /\ at \in [Uploads -> {"new", "found", "stored", "discard", "over"}]
    /\ target \in [Uploads -> Key] /\ prev \in [Uploads -> Key]
    /\ step \in [Workers -> {"idle", "batch", "job", "begin", "cleanup", "download", "draw",
                             "page", "ready", "complete", "giveup", "failjob", "faildoc"}]
    /\ batch \in [Workers -> SUBSET Uploads] /\ cur \in [Workers -> Key]
    /\ src \in [Workers -> Key] /\ tries \in [Workers -> 0..maxIngestionAttempts]
    /\ page \in [Workers -> Page]
    /\ torn \in SUBSET Uploads /\ unsure \in SUBSET Uploads /\ shared \in SUBSET Uploads
    /\ faults \in 0..MaxFaults

\* A workspace without documents of that name.
Init ==
    /\ status = [u \in Uploads |-> "none"] /\ key = [u \in Uploads |-> NoUpload]
    /\ named = [u \in Uploads |-> FALSE] /\ deleted = {} /\ born = [u \in Uploads |-> 0]
    /\ jobStatus = [u \in Uploads |-> "none"] /\ attempts = [u \in Uploads |-> 0]
    /\ pages = [u \in Uploads |-> Blank] /\ images = [u \in Uploads |-> Blank]
    /\ objects = {} /\ cap \in Caps
    /\ at = [u \in Uploads |-> "new"] /\ target = [u \in Uploads |-> NoUpload]
    /\ prev = [u \in Uploads |-> NoUpload]
    /\ step = [w \in Workers |-> "idle"] /\ batch = [w \in Workers |-> {}]
    /\ cur = [w \in Workers |-> NoUpload] /\ src = [w \in Workers |-> NoUpload]
    /\ tries = [w \in Workers |-> 0] /\ page = [w \in Workers |-> 1]
    /\ torn = {} /\ unsure = {} /\ shared = {} /\ faults = 0

-----------------------------------------------------------------------------
(* The tables.                                                             *)

Fault == faults < MaxFaults /\ faults' = faults + 1

Rows == {r \in Uploads : status[r] # "none"}

\* GetDocumentByTitleInWorkspaceCategory: the live row with the name.  The
\* unique index on live titles keeps it single.
Live(r) == r \in Rows \ deleted /\ status[r] # "archived"
Titled  == {r \in Uploads : Live(r) /\ named[r]}

\* The index lets the row r be live.
TitleFree(r) == named[r] => Titled \subseteq {r}

\* Archived documents and snapshots count; deleted ones do not.
Used == Cardinality(Rows \ deleted)
OverLimit(used) == cap # 0 /\ used + 1 > cap

-----------------------------------------------------------------------------
(* Uploads: createDocument, replaceExistingDocument.                       *)

Goto(u, from, to) ==
    /\ at[u] = from
    /\ at' = [at EXCEPT ![u] = to]
    /\ UNCHANGED <<cap, workerVars>>

\* Without the replace flag an existing name is refused.
Lookup(u) ==
    /\ \/ /\ Titled = {}
          /\ Goto(u, "new", "found")
          /\ UNCHANGED <<target, prev>>
       \/ \E r \in Titled :
             /\ Goto(u, "new", "found")
             /\ target' = [target EXCEPT ![u] = r]
             /\ prev' = [prev EXCEPT ![u] = key[r]]
       \/ /\ Titled # {}
          /\ Goto(u, "new", "over")
          /\ UNCHANGED <<target, prev>>
    /\ UNCHANGED <<rowVars, jobVars, pageVars, objects, history, faults>>

\* The object key is a new one, also for a replaced file.
StorageKeyReused(u) == IF target[u] = NoUpload THEN u ELSE prev[u]
StorageKey(u) == u

\* The preflight against the caps, and the PutObject of an object that nobody
\* else knows of yet.
PutObject(u) ==
    /\ \/ OverLimit(Used) /\ Goto(u, "found", "over") /\ UNCHANGED objects
       \/ ~OverLimit(Used) /\ Goto(u, "found", "stored")
          /\ objects' = objects \cup {StorageKey(u)}
    /\ UNCHANGED <<rowVars, jobVars, pageVars, target, prev, history, faults>>

\* WithAddStorageQuota and AssertCanCreateDocument, under the billing lock.
WithoutRecheck == TRUE
WithAddStorageQuota == ~OverLimit(Used)

NewRow(u, n) ==
    /\ born' = [born EXCEPT ![u] = Cardinality(Rows) + 1]
    /\ named' = [named EXCEPT ![u] = n]
    /\ UNCHANGED deleted

CreateDocument(u) ==
    /\ target[u] = NoUpload
    /\ Titled = {}
    /\ NewRow(u, TRUE)
    /\ status' = [status EXCEPT ![u] = "uploaded"]
    /\ key' = [key EXCEPT ![u] = StorageKey(u)]
    /\ jobStatus' = [jobStatus EXCEPT ![u] = "queued"]
    /\ UNCHANGED <<attempts, pages, torn>>

KeepJob(r) == UNCHANGED jobVars
ResetIngestionJob(r) ==
    /\ jobStatus' = [jobStatus EXCEPT ![r] = "queued"]
    /\ attempts' = [attempts EXCEPT ![r] = 0]

\* The snapshot keeps the key that was read with the document; then
\* RebindDocumentContent.  A document archived in the meantime comes back.
ReplaceDocument(u) ==
    LET r == target[u] IN
    /\ r \in Uploads \ deleted /\ TitleFree(r)
    /\ NewRow(u, FALSE)
    /\ status' = [status EXCEPT ![u] = "archived", ![r] = "uploaded"]
    /\ key' = [key EXCEPT ![u] = prev[u], ![r] = StorageKey(u)]
    /\ pages' = [pages EXCEPT ![r] = Blank]
    /\ ResetIngestionJob(r)
    /\ torn' = IF \E w \in Workers : cur[w] = r THEN torn \cup {r} ELSE torn

Commit(u) ==
    /\ Goto(u, "stored", "over")
    /\ WithAddStorageQuota
    /\ CreateDocument(u) \/ ReplaceDocument(u)
    /\ UNCHANGED <<images, objects, target, prev, unsure, shared, faults>>

\* The caps, the unique index or a deleted document refuse the transaction.
CommitRefused(u) ==
    /\ Goto(u, "stored", "discard")
    /\ \/ ~WithAddStorageQuota
       \/ target[u] = NoUpload /\ Titled # {}
       \/ target[u] # NoUpload /\ (target[u] \in deleted \/ ~TitleFree(target[u]))
    /\ UNCHANGED <<rowVars, jobVars, pageVars, objects, target, prev, history, faults>>

\* A commit fails.  The rows are written in a transaction inside the one that
\* holds the billing lock, so that they may be there after an error.
CommitFails(u) ==
    /\ Goto(u, "stored", "discard")
    /\ Fault
    /\ \/ UNCHANGED <<rowVars, jobVars, pages, torn, unsure>>
       \/ /\ WithAddStorageQuota
          /\ CreateDocument(u) \/ ReplaceDocument(u)
          /\ unsure' = unsure \cup {StorageKey(u)}
    /\ UNCHANGED <<images, objects, target, prev, shared>>

DeleteObject(u) ==
    /\ Goto(u, "discard", "over")
    /\ objects' = objects \ {StorageKey(u)}
    /\ UNCHANGED <<rowVars, jobVars, pageVars, target, prev, history, faults>>

\* A call of the upload fails or its process dies: the object stays behind.
UploadDies(u) ==
    /\ at[u] # "over"
    /\ Goto(u, at[u], "over")
    /\ Fault
    /\ UNCHANGED <<rowVars, jobVars, pageVars, objects, target, prev, history>>

-----------------------------------------------------------------------------
(* ArchiveDocument, UnarchiveDocument, DeleteDocument: one transaction each. *)

CanArchiveLive(r) == status[r] \notin {"none", "archived"}
CanArchive(r) == status[r] = "ready"

ArchiveDocument(r) ==
    /\ r \notin deleted /\ CanArchive(r)
    /\ status' = [status EXCEPT ![r] = "archived"]
    /\ UNCHANGED <<key, named, deleted, born, jobVars, pageVars, objects, requestVars,
                   workerVars, history, faults>>

\* A restored document gives its name up to a live one.
UnarchiveDocument(r) ==
    /\ r \notin deleted /\ status[r] = "archived"
    /\ status' = [status EXCEPT ![r] = "ready"]
    /\ named' = [named EXCEPT ![r] = @ /\ Titled = {}]
    /\ UNCHANGED <<key, deleted, born, jobVars, pageVars, objects, requestVars,
                   workerVars, history, faults>>

\* The job of a deleted document stays in its table.
DeleteDocument(r) ==
    /\ r \in Rows \ deleted
    /\ deleted' = deleted \cup {r}
    /\ UNCHANGED <<status, key, named, born, jobVars, pageVars, objects, requestVars,
                   workerVars, history, faults>>

\* A billing event changes the plan; the UPDATE waits for the billing lock.
ChangePlan(c) ==
    /\ cap' = c
    /\ UNCHANGED <<rowVars, jobVars, pageVars, objects, at, target, prev, workerVars,
                   history, faults>>

-----------------------------------------------------------------------------
(* The ingestion worker: process, ProcessDocument, run.                    *)

Oldest(r, S) == r \in S /\ \A q \in S : born[r] <= born[q]

\* ListPendingIngestionJobs: what waits, what failed and may be tried again,
\* and any of the jobs that are being processed: those whose last update is
\* over five minutes old.
Retriable(r) == jobStatus[r] = "failed" /\ attempts[r] < maxIngestionAttempts
Due(stale) == {r \in Uploads : jobStatus[r] = "queued" \/ Retriable(r)} \cup stale
Processing == {r \in Uploads : jobStatus[r] = "processing"}

Listed(due) == {r \in due : Cardinality({q \in due : born[q] < born[r]}) < Limit}

\* The documents a worker listed and is not done with.  Nothing claims them.
Holds(w) == {r \in Uploads : r \in batch[w] \/ cur[w] = r}
HeldByOthers(w) == UNION {Holds(v) : v \in Workers \ {w}}

\* A document that nobody else has in hand starts afresh, whatever happened to
\* it before.
ListPending(w, stale) ==
    LET listed == Listed(Due(stale))
        others == HeldByOthers(w)
    IN
    /\ step[w] = "idle" /\ Due(stale) # {}
    /\ step' = [step EXCEPT ![w] = "batch"]
    /\ batch' = [batch EXCEPT ![w] = listed]
    /\ shared' = (shared \ listed) \cup (listed \cap others)
    /\ torn' = torn \ (listed \ others)
    /\ UNCHANGED <<rowVars, jobVars, pageVars, objects, requestVars, cur, src, tries,
                   page, unsure, faults>>

\* A step of w within its batch, or to the next document of it.
Go(w, from, to) ==
    /\ step[w] = from
    /\ step' = [step EXCEPT ![w] = to]
    /\ UNCHANGED <<key, named, deleted, born, objects, requestVars, batch, cur, src, history>>

Leave(w, from) ==
    /\ step[w] = from
    /\ step' = [step EXCEPT ![w] = IF batch[w] = {} THEN "idle" ELSE "batch"]
    /\ cur' = [cur EXCEPT ![w] = NoUpload] /\ src' = [src EXCEPT ![w] = NoUpload]
    /\ tries' = [tries EXCEPT ![w] = 0] /\ page' = [page EXCEPT ![w] = 1]
    /\ UNCHANGED <<key, named, deleted, born, pageVars, objects, requestVars, batch, history>>

\* The document is read here, and used as it was to the end of the run.
LoadDocument(w) ==
    /\ step[w] = "batch"
    /\ \E r \in batch[w] :
          /\ Oldest(r, batch[w])
          /\ batch' = [batch EXCEPT ![w] = @ \ {r}]
          /\ \/ /\ r \notin deleted
                /\ step' = [step EXCEPT ![w] = "job"]
                /\ cur' = [cur EXCEPT ![w] = r]
                /\ src' = [src EXCEPT ![w] = key[r]]
             \/ /\ r \in deleted
                /\ step' = [step EXCEPT ![w] = IF batch[w] = {r} THEN "idle" ELSE "batch"]
                /\ UNCHANGED <<cur, src>>
    /\ UNCHANGED <<rowVars, jobVars, pageVars, objects, requestVars, tries, page,
                   history, faults>>

ExhaustedOffByOne(n) == n > maxIngestionAttempts
Exhausted(n) == n >= maxIngestionAttempts

GetJob(w) ==
    /\ Go(w, "job", IF Exhausted(attempts[cur[w]]) THEN "giveup" ELSE "begin")
    /\ tries' = [tries EXCEPT ![w] = attempts[cur[w]]]
    /\ UNCHANGED <<status, jobVars, pageVars, page, faults>>

UpdateJob(w, s, n) ==
    /\ jobStatus' = [jobStatus EXCEPT ![cur[w]] = s]
    /\ attempts' = [attempts EXCEPT ![cur[w]] = n]

Begin(w) ==
    /\ Go(w, "begin", "cleanup")
    /\ UpdateJob(w, "processing", tries[w] + 1)
    /\ UNCHANGED <<status, pageVars, tries, page, faults>>

Cleanup(w) ==
    /\ Go(w, "cleanup", "download")
    /\ pages' = [pages EXCEPT ![cur[w]] = Blank]
    /\ UNCHANGED <<status, jobVars, images, tries, page, faults>>

Download(w) ==
    /\ Go(w, "download", IF src[w] \in objects THEN "draw" ELSE "failjob")
    /\ UNCHANGED <<status, jobVars, pageVars, tries, page, faults>>

\* The image of a page has the same object key in every run.
DrawPage(w) ==
    /\ Go(w, "draw", "page")
    /\ images' = [images EXCEPT ![cur[w]][page[w]] = src[w]]
    /\ UNCHANGED <<status, jobVars, pages, tries, page, faults>>

\* The last page is page NumPages.
LastPageOffByOne(n) == n + 1 >= NumPages
LastPage(n) == n = NumPages

\* The page row with its chunks; a row with that number refuses it.
CreatePage(w) ==
    /\ step[w] = "page"
    /\ \/ /\ pages[cur[w]][page[w]] # NoUpload
          /\ Go(w, "page", "failjob")
          /\ UNCHANGED <<pages, page>>
       \/ /\ pages[cur[w]][page[w]] = NoUpload
          /\ pages' = [pages EXCEPT ![cur[w]][page[w]] = src[w]]
          /\ \/ /\ LastPage(page[w])
                /\ Go(w, "page", "ready")
                /\ UNCHANGED page
             \/ /\ ~LastPage(page[w])
                /\ Go(w, "page", "draw")
                /\ page' = [page EXCEPT ![w] = @ + 1]
    /\ UNCHANGED <<status, jobVars, images, tries, faults>>

\* updateDocumentStatus asks neither for the document's status nor its key.
MarkReady(w) ==
    /\ Go(w, "ready", "complete")
    /\ status' = [status EXCEPT ![cur[w]] = "ready"]
    /\ UNCHANGED <<jobVars, pageVars, tries, page, faults>>

CompleteJob(w) ==
    /\ Leave(w, "complete")
    /\ UpdateJob(w, "completed", tries[w] + 1)
    /\ UNCHANGED <<status, faults>>

\* The file cannot be converted, or a call of the run fails.
RunFails(w) ==
    /\ \E from \in {"cleanup", "download", "draw", "page", "ready"} : Go(w, from, "failjob")
    /\ UNCHANGED <<status, jobVars, pageVars, tries, page, faults>>

FailJob(w) ==
    /\ \/ Go(w, "failjob", "faildoc") /\ UpdateJob(w, "failed", tries[w] + 1)
       \/ Go(w, "giveup", "faildoc") /\ UpdateJob(w, "failed", tries[w])
    /\ UNCHANGED <<status, pageVars, tries, page, faults>>

FailDocument(w) ==
    /\ Leave(w, "faildoc")
    /\ status' = [status EXCEPT ![cur[w]] = "failed"]
    /\ UNCHANGED <<jobVars, faults>>

\* A call outside run fails.  The two that record a failure are not checked;
\* any other ends the work on the document.
CallFails(w) ==
    /\ \/ /\ \E from \in {"failjob", "giveup"} : Go(w, from, "faildoc")
          /\ UNCHANGED <<pageVars, tries, page>>
       \/ \E from \in {"job", "begin", "complete", "faildoc"} : Leave(w, from)
    /\ Fault
    /\ UNCHANGED <<status, jobVars>>

Crash(w) ==
    /\ step[w] # "idle"
    /\ Fault
    /\ step' = [step EXCEPT ![w] = "idle"] /\ batch' = [batch EXCEPT ![w] = {}]
    /\ cur' = [cur EXCEPT ![w] = NoUpload] /\ src' = [src EXCEPT ![w] = NoUpload]
    /\ tries' = [tries EXCEPT ![w] = 0] /\ page' = [page EXCEPT ![w] = 1]
    /\ UNCHANGED <<rowVars, jobVars, pageVars, objects, requestVars, history>>

-----------------------------------------------------------------------------
Upload(u) ==
    \/ Lookup(u) \/ PutObject(u) \/ Commit(u) \/ CommitRefused(u) \/ DeleteObject(u)

Work(w) ==
    \/ ListPending(w, Processing) \/ LoadDocument(w) \/ GetJob(w) \/ Begin(w)
    \/ Cleanup(w) \/ Download(w) \/ DrawPage(w) \/ CreatePage(w) \/ MarkReady(w)
    \/ CompleteJob(w) \/ FailJob(w) \/ FailDocument(w)

Next ==
    \/ \E u \in Uploads : Upload(u) \/ CommitFails(u) \/ UploadDies(u)
    \/ \E c \in Caps : ChangePlan(c)
    \/ \E r \in Uploads : ArchiveDocument(r) \/ UnarchiveDocument(r) \/ DeleteDocument(r)
    \/ \E w \in Workers :
          \/ Work(w) \/ RunFails(w) \/ CallFails(w) \/ Crash(w)
          \/ \E stale \in SUBSET Processing : ListPending(w, stale)

\* The worker polls for ever, and a job it does not finish grows old.
Spec     == Init /\ [][Next]_vars
FairSpec == Spec /\ \A w \in Workers : WF_vars(Work(w))

-----------------------------------------------------------------------------
(* Correctness.                                                            *)

\* workspace/quota.go: however many uploads pass the preflight together, and
\* whatever happens to the plan meanwhile, an upload never takes the workspace
\* above the cap it has at that moment.
StorageWithinQuota == [][Used' > Used => cap = 0 \/ Used' <= cap]_vars

\* The bytes of a document and of a snapshot are in the object store: only an
\* upload whose commit was applied and reported as failed loses them.
BytesKept == \A r \in Rows \ deleted : key[r] \in objects \cup unsure

\* An ingested document has every page of its current file, in the database and
\* in the object store, whatever was retried on the way, unless since a worker
\* last listed it alone its file was replaced during a run or a second worker
\* listed it too.
IngestedIsComplete ==
    \A r \in Rows \ (torn \cup shared) :
        status[r] \in {"ready", "archived"} /\ jobStatus[r] = "completed"
            => pages[r] = [n \in Page |-> key[r]] /\ images[r] = pages[r]

\* A document that shows as uploaded has a job that will be listed (again), unless
\* since a worker last listed it alone its file was replaced during a run or a
\* second worker listed it too, or the write of the last failure was lost.
NotStranded ==
    \A r \in Rows \ (torn \cup deleted \cup shared) : status[r] = "uploaded" =>
        \/ r \in Due(Processing)
        \/ \E w \in Workers : cur[w] = r /\ step[w] = "faildoc"
        \/ faults > 0 /\ jobStatus[r] = "failed"

\* Without faults no worker brings an archived document back: it can only be
\* archived when no run will write its status again, unless two workers have had
\* the document in hand since one last listed it alone.
ArchivedStays ==
    [][\A r \in Uploads \ shared : status[r] = "archived" /\ status'[r] # "archived"
          => step' = step \/ faults > 0]_vars

\* upload/rebind.go:36-37: the replaced file is queued for ingestion, so that a
\* document does not stay "uploaded".
EventuallyIngested ==
    \A r \in Uploads : status[r] = "uploaded" ~> status[r] # "uploaded" \/ r \in deleted
=============================================================================
