# A TLA+ verification project for DealSignal

DealSignal lets a team share documents in deal rooms, watch how they are read, and
ask questions about them. The Go API server (`src/apps/api/internal`) runs in several
replicas over PostgreSQL, Redis, an S3 object store, a mail provider and an external
knowledge base (docling-rag). Every replica also runs the background workers. This
project models the parts of the server where several actors share state, checks them
with TLC on small instances, and proves their safety properties for every size of the
system with TLAPS where the proofs exist (section 5).

Paths below are relative to `src/apps/api/internal` unless they start with `src/`. The
modules stand for the parts of the server in which orders of events matter. They map
about a fifteenth of its lines: most of the rest is generated queries, request parsing,
reports and rendering, and section 6 says what is left that would be worth modelling.

| Modules | Models | Runs | Proofs |
|---|---|---|---|
| `EmailQueue`, `MCEmailQueue`, refining `MailDelivery` | mail queue, workers, retries, scheduler, webhook | 2 pass, 2 violation | `EmailQueue_proofs` |
| `KnowledgeSync`, `MCKnowledgeSync` | room membership and locks against the search corpus | 2 pass, 1 violation | `KnowledgeSync_proofs` |
| `KnowledgeAsk`, `MCKnowledgeAsk` | questions to the rooms of a workspace, their sessions, quota and audit | 1 pass | `KnowledgeAsk_proofs` |
| `Library`, `MCLibrary` | uploads, replacement, archive, quota, ingestion | 1 pass, 1 violation | `Library_proofs` |
| `LinkAccess`, `MCLinkAccess`, refining `SessionPolicy` | the door of a share link, its rules and sessions | 1 pass | `LinkAccess_proofs` |
| `WorkspaceQuota`, `MCWorkspaceQuota` | seats and links under the billing lock, connection pool | 1 pass | `WorkspaceQuota_proofs` |

## 1. Inventory

**E-mail pipeline** (`mailer/`). State: the table `email_logs`, a Redis stream with one
consumer group, a sorted set of delayed jobs, a dead-letter stream.
`QueuedMailer.enqueue` inserts a row and appends a job; workers read batches, call the
provider (again at once, after a transient error: `withRetry`), write the outcome, acknowledge; refused mail waits in the sorted set until the
scheduler of some replica moves it back; the provider reports delivery through a webhook.
Hard: every call may fail with or without effect, a process may stop between any two of
them, webhooks race workers, two schedulers race each other. Correct when no mail is
dropped or driven twice, attempts and calls are bounded, and a row names its own provider message.

**Knowledge corpus** (`knowledge/`), with **deal rooms** (`dealroom/`). State: membership,
document and folder locks, `deal_room_rag_corpora` (the badge), `deal_room_rag_documents`
(one row per document), `knowledge_sync_jobs`, and the copies in the external knowledge
base. Requests change membership and locks and queue jobs; a worker per replica lists,
claims and runs them. Hard: no lock or transaction spans the room and the remote copy; a
job works with the room it read at its start; a claimed job of a dead worker is never
listed again. Correct when the copy of a withdrawn document is purged, "synced" means
indexed, and the badge settles.

**Document library** (`upload/`), **ingestion** (`ingestion/`) and **quotas**
(`workspace/quota.go`). State: `documents`, `ingestion_jobs`, `pages`, the object store, and
the caps of the plan. An upload checks the caps, stores bytes, and writes rows under the
workspace's billing lock; a replacement snapshots the old file as an archived row and resets
pages and job; a worker turns the file into pages. Hard: nothing claims an ingestion job,
requests change a document while a run is at it, and the write transaction lies inside
another one. Correct when caps hold, no row loses its bytes, ingested documents are complete
and none is forgotten.

**Billing** (`billing/`). Webhooks of the payment provider change the plan. Here only as the
change of a cap. Events are deduplicated, not ordered.

**Share links and visitor sessions** (`link/`, `analytics/` for the opens). State: the link
with its `security_version`, gates and `access_count`; allow and block rules; invitations with
single-use tokens; access requests; session cookies that carry the version; the marks in Redis
against counting an open twice. A visitor's request reads these one after the other and holds
no lock; an owner's operation is one transaction, except the edit of a link, which writes back
what it read. Hard: rules change while a request is under way, tokens are raced for, an
approved request "heals" the rules of a visitor. Correct when a session answers only for
somebody whom the rules in force let in, a token lets one request through, who was taken off the
allow list stays off it, and opens are counted within the limit.

**Workspaces and seats** (`workspace/`) with the **link inventory** of `link/` and the connection
pool (`db/pool.go`). State: members, invitations, links, and the row of `workspace_billing`
whose lock guards the quota. Each operation reads the row it is about, decides whether to
claim, lock, or neither, and then writes. Hard: the decision is taken before the lock; links
are written over a second connection while the first one holds the lock; accepting an
invitation takes two locks in the other order. Correct when seats and links are never claimed
past the plan, an invitation makes a member once, and requests get on.

**Knowledge answers** (`knowledge/qa_session.go`, `query_admission.go`, `answers_quota.go`,
`archive.go`, `retention_worker.go`). State: a lease per member of a room in Redis, turns and sessions in
the database, the state a session keeps of its turns, packs of old sessions in the object
store. Hard: the lease expires under a running request and is released by anybody, the quota
is counted before the answer and charged after it, over all rooms of the workspace, where no lease helps, a session's state is read before the
question and written after it, and a cleaner reads, packs, records and deletes in four calls.
Correct when a member has one question at a time, one client request id has one answer, the
quota holds but for the requests under way, and no turn is lost.

**Event bus** (`events/`), **notifications** (`notification/`), **idempotency and rate limits**
(`middleware/`). Queues, retries and check-then-act sequences of the same kinds as above.

The remaining parts (authentication, signals and scores, reading statistics, CRM and integrations,
NDA records, domains, actions, server-sent events, clients, configuration, web frontend,
deployment) are stateless, single-row, or mostly external. `PROJECT.json` lists each one with
its reason, and under `hazards` every place of the code that is hard to test, with the
properties that watch it.

**Interactions.** Uploads and room requests share `documents`; `dealroom` calls
`knowledge.EnqueueDeleteDocument` after a lock or removal; `link`, `workspace` and
`notification` send through the mail queue; `billing` and `upload` meet at the
billing lock, and so do `workspace` and `link`; links parked by an archive belong to `link`; a
question reads the corpus that `KnowledgeSync` keeps. The models are independent of each other:
each takes what the others do to it as its own nondeterministic requests. The one shared
lock, that of the billing row, is composed where it matters: `WorkspaceQuota` has seats, links
and the pool in one state.

## 2. Modules

### EmailQueue

Stream entries are numbered in `XADD` order. `phase[e]` says how far the consumer group is
with an entry; `owner[e]` is the goroutine that holds it. One action stands for each call of a
handler that can fail by itself: `CreateEmailLog`, `Enqueue`, `MarkEnqueueFailed` (the
producer); `DequeueBatch`, `RetrySend`, `Send`, `MarkSent` or `HandleFailure`, `RequeueAfter` or `DeadLetter`,
`Ack` (a worker); `ListDue`, `Move` (a scheduler); `Webhook`. The actions whose names end in
`Fails`, `Unconfirmed` or `Crash` are the ways those calls go wrong, and spend one of
`MaxFaults`. A batch mailer sends the held mails in one call and handles the answer mail by
mail; the other kind sends one at a time. Handing mail over is one attempt of a job and up to `MaxRetries + 1` calls to the
provider, as `withRetry` repeats a call that was limited or timed out (`mailer/mailer.go:642`): `calls[w]` are the calls the worker
has made and is to repeat, `RetrySend` is one of them, and `Send` or `SendUnconfirmed` the last one, after which each mail is accepted or
refused. A call that timed out may have been accepted, in both actions; `RetrySend` then sends the mail once
more. `taken` are the entries the provider accepted, however often. `doubled` is a history variable: the rows one of whose jobs was
moved by a scheduler after another had moved it already (see section 4).

Abstracted: payloads are the row and the attempt number; time (a delayed job may be due at any
moment, a superset of what back-off allows). Left out: the `MAXLEN` trimming of the stream,
unparsable messages, and the contents of mails. A mail that is refused before any call (it cannot be
rendered) counts as called. A batch is called and repeated as a whole; the code does so up to the size of a batch that the provider takes, and
sends a larger one in parts, each with its own repetitions, which is the same for every single mail.

`MailDelivery` is what the queue promises of each mail, without stream, sorted set or workers: a mail is new, queued or
over; while it is queued it may be tried, at most `Limit` times and one time after the other; a try is up to `PerTry` calls to the provider,
again one after the other (`Ask`, and `Try` for the last one), each of which may deliver the mail. A
mail the queue has let go of is not taken up again. `EmailQueue` implements it with
`Delivery == INSTANCE MailDelivery WITH stage <- ..., tries <- ..., asks <- ...`, `Limit <- MaxAttempts + 1` and `PerTry <- MaxRetries + 1`: a mail is `queued` while it is delayed
or has an entry that may still lead to a try (`Live`), `Tries` counts its entries whose attempt is over, and
`Asks` the calls of the attempt under way. `RetrySend` is an `Ask` and `Send` a `Try` of every mail in the call, `Enqueue` an `Enter`, a crash a `LetGo` of what the worker would have tried, or tried again; the
steps that record an outcome, re-queue or acknowledge do not show.

### KnowledgeSync

One room, with a Boolean life (`deleted`). A request is a small program: `at[r]` is its place,
and its reads and writes are separate steps (`LoadForLocks`, `SaveFolders`, `LockDocuments`,
`WithdrawBinding`, `EnqueueDelete`; `LoadForSync`, `ListActive`, `AlignRows`, `MarkSyncing`,
`EnqueueSync`; the removal, the deletion, the addition of documents; reading the badge, with
`Reconcile` and `HealBadge`; a search that finds no index, `QueryNotReady`). A worker lists jobs,
claims with the compare-and-set of the SQL statement, reads the room once per job (`seen`), and
then makes one call per step: align, list, per document check, mark, upload, mark; or purge
and mark; then publish the badge.

Abstracted: a document has one copy under one name (legacy names are alternatives for the same
purge); its folder is a constant, so `MoveDocument` is out; archived documents are left out; the
listing limit of five jobs exceeds `MaxJobs`; the per-document upserts of one alignment are one
step; the corpus credentials are provisioned by `LoadRoom`. `late` is a history variable: the
members whose insert came after their folder had been locked, and those under a lock that a
stale write of the settings brought back (see section 4). `shared` is another one: the documents that two
workers had in hand at once (`InHand`: from the loading of the room to the end of the job, all documents for a sync), until
a delete job purges them with no other worker at them (`SharedAfter`).

### Library

All the documents of one file name. Upload `u` names the request, its object, and the row it
writes (a new document, or the archived snapshot of the file it replaces). `Lookup`,
`PutObject`, `Commit` (or `CommitRefused`, `CommitFails`) and `DeleteObject` are the steps of an
upload; `ArchiveDocument`, `UnarchiveDocument`, `DeleteDocument` and `ChangePlan` are one
transaction each; the worker lists, reads the document, reads the job, and makes one call per
step for every page.

Abstracted: all files take one unit, so the document cap and the storage cap are one cap; text
chunks follow the page rows; the CSV path without images is left out; a job that has been
"processing" for five minutes is chosen freely among those that are; the transaction under the
billing lock and the one inside it are one step, except that `CommitFails` keeps the outcome
"applied and reported as failed". `torn` and `unsure` are history variables for the documents and
uploads to which a known race happened, `shared` those which a worker listed while another had them in its
batch or at work, since nothing claims a job. A worker that lists a document alone takes it off `torn` and `shared`: its
run repairs what the race left. Left out: room and visitor uploads, and the links that an
archive or a delete parks.

### LinkAccess and SessionPolicy

A visit is a browser of one mailbox with one request at a time; `at[v]` is how far it is.
`Access`, `Look` and `RequestAccess` begin one (`Handler.Access`, the e-mail check and a page
without a session, an access request); `ConsumeLinkInvitation`, `MarkExpired`, `Evaluate`, `Heal`,
`Ask` and `RecordOpened` are its calls. Owners act through `UpdateAccessRules`, `InviteViewers`,
`RevokeInvitation`, `ApproveAccessRequest`, `RejectAccessRequest`, and the two halves `EditLink` and
`UpdateLink` of one edit. The trigger of migration 047, which counts every row of rules that is
deleted or inserted, is `Bumped`.

`SessionPolicy` is the promise without the mechanism: a set of visits whose session opens the
link, a set of visits on their way in under the configuration of now; a change of the
configuration empties both. `LinkAccess` implements it with
`Policy == INSTANCE SessionPolicy WITH open <- {v \in Visits : Open(v)}, asking <- current`. An access form is
`Ask`, a refusal `GiveUp`, an open that is recorded `Enter`, or `EnterLate` when the request began
under older rules; the owners' changes and `Heal` are `Reconfigure`; an `UpdateLink` that takes
back a version is `Confuse`.

Abstracted: codes, passwords and consents are given rightly, so what the gates ask for is left
out, that they changed is not; the e-mail code alone is kept, because a session says
whether it was given. The limit of opens of a link is constant. `UsedLink` begins with the traces of a guest who was let in and put out
again. Left out: links to documents and their contacts, the blocklist of a room with its
cache, and duplicate rows of one rule.

### WorkspaceQuota

A request is one handler at a time; `op[r]` is what it is to do and `found[r]` the row it read
before any lock. `Submit` has one action for each operation on members, invitations and links,
which ends in the decision (`need`): claim, lock, or neither. Then come `Begin`
(a connection), `LockInvitation` (accepting only), `LockBilling` with the count a claim makes, and the
writes `SaveMember`, `SaveInvitation`, `SaveByToken`, `Join` and `SaveLink`. `Free` counts the pool's
connections: a transaction keeps one until its end, and a link is written over another.
`BreakDeadlock` is what Postgres does when an accept and an operation on the same invitation
wait for each other. `Waits` says what a request can be kept by: a connection, the row of its invitation, the billing row.

Abstracted: `CreateInvitation` reads the member and then the pending invitation, and `RenewLink` writes the expiry of a link and then its status, which is one step each;
owner, admin and member are one role; the seat of the owner is not counted;
tokens are numbers. `unchecked` is a history variable: the seats and links taken on a row that
was outdated or had lapsed (see section 4). Left out: who may manage whom, and the rooms a
removed member leaves.

### KnowledgeAsk

The rooms of one workspace. `Members` are memberships: a user in two rooms is two of them, as the lease and the client request
ids are of one user in one room (`query_admission.go:162`). Sessions belong to a room (`RoomOf`); the quota counts the turns of all rooms
(`Used`, `answers_quota.go:75`). A question goes through `Ask` (the gates of the handler), `Admit` or `AdmitOpen` (the lease;
open when Redis does not answer), `CheckRate`, `Lookup`, `CheckQuota`, `Resolve`, `CreateSession`,
`AppendTurn` or `AppendFails`, `Replay` and `Release`; any call may fail (`FailCall`) and a
replica may die (`Abandon`). `LeaseExpires` takes the lease away at any time. `CloseSession` is the
button of a member, `MonthsPass` leaves the rooms alone for longer than the retention (90
days, hence also into another month of the quota). The cleaner's `ListExpired`, `ReadTurns`, `PutPack`,
`RecordArchive` and `DeleteSession` are the calls of its loop.

Abstracted: the search, the answer and its sources; the state of a session is the set of turns
it was evolved from; a turn is named by the request that wrote it; the lost reply of a commit is
part of `AppendTurn`; a request that leaves nothing behind is forgotten. `lapses`, `late` and `emptied` are
history variables: leases lost or never taken, turns written to a session a cleaner had
read, and sessions whose pack a cleaner replaced by an empty one. Which session a request names is chosen where it is looked up (`Resolve`). The plan of the workspace
is fixed. Left out: the endpoint that creates a session alone, the deletion of a room, feedback, missions, the evaluation queue.

## 3. Runs

| Run | Instance | Shows |
|---|---|---|
| `email` | 2 mails, 2 workers, 2 schedulers, 3 messages, 2 calls an attempt, 2 faults | `Accounted`, `OneCarrier`, `AttemptsAscend`, `ReceiptIsOwn`, `ReportKept`, `MailsDelivered` |
| `email_live` | 2 mails, one sent at a time, no faults | `EventuallySettled` |
| `email_durable` | 1 mail, 1 fault | violated: `DurableQueue` (finding) |
| `email_replicas` | 1 mail, 2 schedulers | violated: `MovedOnce` (finding) |
| `knowledge` | 1 document in 2 nested folders, 1 worker, 3 requests, 1 fault | `PurgeComing`, `SyncedIsIndexed`, `BadgeSettles`, `EndedJobStays` |
| `knowledge_live` | 2 documents, 1 worker, 2 requests | `EventuallyPurged`, `SyncEnds` |
| `knowledge_replicas` | 2 workers | violated: `EventuallyPurged` (finding) |
| `library` | 2 uploads, 1 worker, files of 2 pages, caps 1 and 2, 1 fault | `BytesKept`, `IngestedIsComplete`, `NotStranded`, `StorageWithinQuota`, `ArchivedStays` |
| `library_replace` | 2 uploads, unlimited, no faults | violated: `EventuallyIngested` (finding) |
| `link` | 2 visits of one guest, another address in the rules, 2 opens, 2 operations of owners, 1 fault | `SessionsRespectRules`, `SessionsFollowPolicy`, `RemovedStayOut`, `SingleUse`, `OpensAreCounted` |
| `quota` | 2 requests (3 in all), 2 people, 2 links, 1 or 2 seats, 1 link, 2 connections, 1 fault | `SeatsRise`, `LinksRise`, `JoinsFit`, `JoinsOnce`, `OnlyWaitsStop`, `OnlyThePoolBlocks` |
| `ask` | 3 questions, 2 members of one room, 1 of another, 4 kinds of question, 3 sessions, 1 cleaner, 1 answer a month, 1 fault, 1 pause | `OneAtATime`, `AnswersAgree`, `QuotaNearlyKept`, `StateAccounts`, `AuditKept` |

Every property of a passing run has a mutant in `PROJECT.json`: a plausible bug of a mapped
definition under which the same run is violated.

**Bounds.** `MaxEntries` bounds the messages of the stream: in `email` three, the first attempts of two mails and a retry
of one, or a mail whose retry both schedulers move; in `email_live` four, with which nothing is cut off. Two workers are as many as can
race over a mail, and two schedulers over a job. `MaxRetries` is 1 (3 in production), which gives a call that is repeated and one that is not.
`MaxFaults` of 2 covers a fault while recovering from another one.
`MaxJobs` is the number of jobs the requests of an instance can queue; in `knowledge_live` a sync and
a request that withdraws both documents queue three, and without a sync there is no copy to purge. Three
requests are enough for a lock and a sync, with an unlock, addition, reader or deletion against
them, which is the longest interleaving the known races need, and two folders for two locks whose
settings overwrite each other; one document suffices
for the safety runs because the documents of a pass share only the worker's place (what they could do to each other is in
the invariants of the proofs, for any number of them), and the
liveness run has a second one outside the folder, which keeps a pass busy. Two uploads give every pair of
create, replace, refuse; caps 1 and 2 make the second one fit or not, and change under it; two
pages are the least with a page between first and last to miss.
In `link` two visits of one mailbox race for its token, its approval and the count, two
operations of owners give a change beside an open edit, and `UsedLink` stands for the operations before;
`MaxAccess` of 2 lets both in and refuses a third open after a mark has lapsed. In `quota` two
requests overlap and a third follows one of them, each plan is one that the second person or link
exceeds, and two connections are the fewest with which a link can be written at all; the pool runs
dry when the second request takes the other one. In `ask` three questions are a repetition and one of another member beside
it, in the same room or in the other one; with a limit of one answer that one overruns it; the room of two members has two sessions, one closed or
deleted and one that follows it. The reuse of a client request id for another question is left to the proof. These three instances have 1.6, 0.7 and 1.7 million states, `email` has 0.5 and `knowledge` has 0.7 million.

**Symmetry** is used in the safety runs only, over interchangeable mails, workers, requests,
uploads, visits, people, links and sessions. **Deadlock** is not checked: the
instances have finitely many requests, and afterwards the system rests. In `quota` being
stuck is the question of two properties: `OnlyWaitsStop` says that a request at work can take its next step unless it
waits (`Waits`), and `OnlyThePoolBlocks` that not everybody waits, unless the pool is exhausted and the holder of the
billing row is about to write a link. The first compares the guards of the actions with `Waits`, so that the second,
which is proved, says of `Waits` what holds of the system.

**Fairness.** Worker and scheduler loops poll for ever, and an HTTP handler that runs is scheduled
by the Go runtime, so each worker's next call, and each request once begun, is weakly fair.
Starting a request, faults, webhooks and unanswered searches are never forced. Liveness is
stated for instances without faults: after a crash the code makes no promise
(a claimed job is not taken up again), which the two crash-related hazards say. In `email` the
listing of *all* due jobs is fair, which is what the scheduler's query does.

**Replicas.** Every replica runs a scheduler, a knowledge worker, an ingestion worker and a cleaner. What two of them do to
each other at once is the subject of the findings, and of the history variables `doubled`, `shared` and `emptied`: the
properties are stated for any number of replicas, of everything that those variables do not name, and it is proved
(`OneReplicaMovesOnce`, `OneWorkerSharesNothing`, `OneCleanerKeepsPacks`) that with one replica they name nothing. So a
property means two things: a deployment with one replica keeps it without exception, and one with several breaks it only where
two of them meet at one job, document or session. The run `email` has two schedulers. `knowledge`, `library` and `ask`
have one worker or cleaner, as a second one is too much for the same bounds; what several do is in the proofs.

## 4. Findings and exemptions

- **Lost batches** (`mailer/queue.go:102`): the pending list is never read, so a
  batch a worker read and did not acknowledge is neither sent nor failed.
- **Double move** (`mailer/scheduler.go:71`): two schedulers move one delayed job twice.
- **Upload after purge** (`knowledge/worker.go:206`): with two replicas a delete job overtakes the
  upload of a running sync; the copy of a withdrawn document stays (the shortest trace withdraws it by deleting the room).
- **Replaced file never ingested** (`ingestion/service.go:85`): the end of a run overwrites the job
  that a replacement has just queued.

Disagreements met while modelling, without a run of their own:

- Concurrent folder locks (`dealroom/service.go:2665`) overwrite each other, a read-modify-write of
  the settings without a transaction: a lock is lost, or one that was taken back returns. The run `knowledge` has both; no property calls
  it wrong, as nothing in the repository says which write should win, but a lock that returns this way purges nothing.
- Two retention cleaners may list one session; the second one, whose read of the turns comes after the
  first one's delete, replaces the pack with an empty one (`knowledge/archive.go:237`), against "never hard-purge audit
  data" (`archive.go:164`). These are the sessions `emptied`.
- A repeated question is refused by `checkAnswersQuota` (`knowledge/handler.go:285`, `:328`) once the quota is
  used up, where `qa_session.go:156` and
  `src/docs/designs/plan/deal-room-knowledge-qa-session-audit.md:250` promise the stored answer at no cost.
- Two creations of a session that overlap leave two active ones (`CreateSession`).
- `AcceptInvitation` falls back to a read inside a transaction that a unique violation has already
  aborted, so that the fallback never succeeds (`Join` models the rollback).
- The web client sends `X-Idempotency-Key` (`src/apps/web/src/lib/apiClient.ts:191`), the middleware reads
  `Idempotency-Key` (`middleware/idempotency.go`).

Where a passing property exempts a race, it says so. `Withdrawn` exempts `late` members: a
document inserted into a folder that was locked after the request had checked it is uploaded by a
running sync, and nothing purges it; nor a member whose folder a stale write of the settings locked again. `IngestedIsComplete` and `NotStranded`
exempt `torn` documents (their file was replaced during a run; see `library_replace`), until a worker lists them alone.
`BytesKept` exempts `unsure` uploads: when the outer commit fails after the inner one was applied,
the code deletes the bytes of a row that exists. `BadgeSettles` exempts requests that died between writing
the badge and queueing the job, and unanswered searches. `ReportKept` exempts a producer that lost the reply of its `XADD`.
`SessionsRespectRules` exempts `doubtful` visits: `UpdateLink` writes back the version it read
(`link/service.go:1120`) and so takes back the bump of a change of rules made meanwhile. `RemovedStayOut` exempts a `Heal` that
had read the approval before it was withdrawn, `SingleUse` a token whose invitation was sent anew
between look and use, `OpensAreCounted` the `uncounted` opens, marked before their count failed.
`SeatsRise`, `LinksRise` and `JoinsFit` set apart what is `unchecked`: a role read before the lock and changed
since, the resend or role change of a lapsed invitation, an invitation that lapses while it is being accepted,
and `UpdateLink` bringing back a link past due, none of which claims anything. `OneAtATime`, `QuotaNearlyKept` and
`StateAccounts` make room for `lapses`, `StateAccounts` also for questions of different members, which nothing orders;
`AuditKept` exempts `late` turns, and sessions `emptied` by a second cleaner. `OneCarrier`, `AttemptsAscend`, `ReportKept` and `MailsDelivered` exempt the
mails `doubled` by two schedulers (`email_replicas`); `ReceiptIsOwn` and `Accounted` need no exemption. `PurgeComing` and
`SyncedIsIndexed` exempt the documents two knowledge workers `shared` (`knowledge_replicas`), `IngestedIsComplete`, `NotStranded` and
`ArchivedStays` those two ingestion workers `shared`, until one worker is alone with them again: one may clear the pages the other has drawn, or
complete its job under it.

## 5. Proofs

`EmailQueue_proofs` proves, for any number of mails, workers and schedulers, any `MaxAttempts`,
batch size and number of faults:

- `TypeCorrect`: `TypeOK`. It is not inductive by itself; `TypeInv` adds that the entries
  from `next` on are unused and all others belong to a row (`StreamShape`), and that an entry
  being re-queued has an attempt left (`AttemptLeft`), without which `attempt + 1` could leave its type.
- `NothingDropped`: `Accounted`. `AccountInv` adds that an entry whose outcome is "accepted" was
  taken by the provider, so that its acknowledgement settles the mail. Holds also with several schedulers.

- `NoDuplicateCarrier` and `AttemptsBounded`: `OneCarrier`, `AttemptsAscend`. `CarrierInv` says that an
  open entry of a row is its last one, that a delayed job has a higher attempt than every entry of its row and
  excludes an open one (`Carriage`), all of it of rows that are not `doubled`, and that a row whose producer has not run has
  no entry (`NotYetEnqueued`). A scheduler's list may be outdated: a job on it that is no longer delayed is what doubles a row.
- `ReceiptsMatch` and `ReportsKept`: `ReceiptIsOwn`, and the action property `ReportKept`. `ReceiptInv`
  adds that a row marked sent or reported has no open carrier (`SentIsClosed`), so that no worker is
  left to write it again; only `Append` by a producer that lost its reply may.
- `OneReplicaMovesOnce`: with one scheduler `doubled` stays empty, as what it listed is still delayed (`ListedDelayed`). Hence
  `OneReplicaAppendsOnce`: `MovedOnce`, which two schedulers violate (`email_replicas`), holds with one.
- `MailsAreDelivered`: `MailsDelivered`, the refinement of `MailDelivery`. From `CarrierInv`: a mail has at most one entry that is open, the last
  one with the highest attempt, and no delayed job beside it, so that the `Live` entry decides alone whether the mail is queued. Its entries have
  ascending attempts, none of those that were sent above `MaxAttempts`, so that they are no more than there are attempts (`AscendingBound`, an
  injection into an interval). A step keeps the stage of a mail, its tries and its calls, or lets go of it, but for an append and
  a call to the provider, which is one more of the try or ends it. `doubled` only grows.
- `CallsBounded`: what tries and calls add up to. The history variable `total` counts, beside the steps of the pipeline (`CountedSpec`), every
  call to the provider about a mail: there are at most `(MaxAttempts + 1) * (MaxRetries + 1)`. `CountInv` says of a queued mail that it has had at most
  `MaxRetries + 1` for each try that is over, and those of the try under way.
  `OneReplicaCallsBounded` states it of every mail when there is one scheduler. So the queue bounds how often a mail is
  sent, but it may well be sent several times: by a call that timed out and was repeated, or a retry after one.
- `NothingIsLostWithoutFault`: as long as nothing has failed, a mail is over only when the provider took it or refused it on its last attempt
  (`OverIsAnswered`), and no entry is skipped or orphaned (`NoneLost`), with any number of schedulers and no mail excepted. The invariant
  adds that before the group exists there is nothing to carry (`Begun`). So what `email_durable` shows takes a fault, and what
  `email_replicas` shows doubles a mail but never drops it.

`WorkspaceQuota_proofs` proves, for any number of requests, people, links, connections and plans:

- `TypeCorrect`: `TypeOK`, which includes that the billing row has one holder. `Inv` adds `Decisions`: what a
  request is about to do fits what it found, and where it is fits whom it has locked.
- `SeatsWithinPlan`, `LinksWithinPlan`: `SeatsRise`, `LinksRise`. `RowInv` says that the row of an
  invitation that is being accepted is held (`RowsHeld`) and that tokens are not issued twice (`Tokens`); `Room` that
  the holder's count, made when it took the lock, still leaves room when it writes. Each step shrinks the claimed sets, or is a write of a
  claim (`EveryStep`, `ClaimsFit`).
- `MembersWithinPlan`, `JoinedOnce`: `JoinsFit`, from `Room`, and `JoinsOnce`, from `RowInv`: the row of an
  invitation stays locked from its check to its use.
- `ClaimedSeatsStayWithin`, `ClaimedLinksStayWithin`: what those action properties add up to. `SeatsRise` lets a workspace stay above its plan
  after a downgrade; one that begins within it, and whose plan is not lowered (`Upgrade`), never has more claimed seats than the plan
  grants, and never more claimed links.
- `SerialIsChecked`, `SerialStaysWithin`: how far the exception reaches. With one request at a time (`OneRequest`) and
  neither a lapse nor a change of plan (`MaxFaults = 0`), `unchecked` stays empty, and a workspace that begins within its plan stays within it, with
  nothing set apart. `SerialInv` says that what the request read is what it finds when it writes (`Fresh`).
- `PoolAloneBlocks`: `OnlyThePoolBlocks`. Who keeps the row of an invitation waits for the billing row or holds it
  (`AcceptorGoesOn`), and its holder, who is in no deadlock, can wait for the pool only (`HolderWaitsForPool`). Without a holder everybody
  would wait for a connection that nobody has: the pool counts the transactions and never falls below zero (`PoolInv`).

`LinkAccess_proofs` proves, for any number of visits, addresses and rules:

- `TypeCorrect`, `OpenMeansAdmitted` (`SessionsRespectRules`) and `FollowsPolicy` (the refinement of `SessionPolicy`). The
  invariant `SessionInv` says of every visit that no edit has confused (`VisitInv`): its session is of a version gone by, or of
  the present one and of somebody whom the rules of now let in; a request begun under the present configuration holds its
  version and what it found of the rules, every other one an older version. It rests on the version
  moving on with every change of rules or gates (`EditInv` relates an open edit to the gates). The refinement is proved
  step by step, each action mapped to the one named in section 2.
- `FreshSavesConfuseNobody`: what the exception of `doubtful` costs. If no rule changes between the read and the save of an edit
  (`SavesFresh`), no visit is doubtful, and every accepted session is of somebody whom the rules of now let in. A save conditional on the
  version it read would make that hypothesis true.
- `TheRemovedStayOut`, `TokensAreSingleUse`, `TheOpensAreCounted`, from `BarredInv` (who is barred has no approved
  request), `TokenInv` (a spent token is older than the invitation's, or the invitation is no longer open) and `CountInv` (the marked opens that were counted are no more than the count).

`KnowledgeAsk_proofs` proves, for any number of questions, rooms, members and sessions, any limit, faults and pauses:

- `TypeCorrect`: `TypeInv` adds that written turns are numbered within the number of turns ever written (`Turns`), on
  a lemma that the maximum of a bounded set of numbers exists.
- `OneQuestionAtATime`: `OneAtATime` is inductive given the types; a step lets one request in or out (`OneEnters`, `OneLeaves`).
- `AnswersToOneRequestAgree`: `AnswerInv` adds that the turns in the database have distinct keys, and rests
  on `AnsweredKept`: what has an answer stays as it is.
- `QuotaOverrunIsSmall`: when a request passes the check, those past it are of different members (`AtMostOneEach`), so the
  bound is established anew; afterwards each step that adds an answer takes a request away, and who leaves the `Askers` takes as many requests
  or answers with him (`FewerImages`).
- `LoneAskerKeepsQuota`: with no lapse, and one asker in the month, the quota is not overrun at all. A user who asks in two rooms at once is two askers and
  overruns it.
- `StateAccountsForTurns`: `SawEnough` says that what a request under way has read of its session lacks a turn only if that
  is superseded already, or will be by it.
- `LoneMemberLosesNothing`: what the state of a session loses, it loses to other members of its room or lost leases. A turn is in a session of the
  room it was asked in (`OwnRoom`), so that a member who has a room to himself, and no lapse, runs one question at a time there and finds each turn
  in the state of its session, whatever is asked in other rooms.
- `AuditIsKept`: `AuditKept`. What a cleaner has read of a session is complete, but for late turns, or it is nothing at all of a session deleted
  before (`Read`), so that a pack that is complete stays so whoever writes over it, unless it is `emptied` (`Stored`, `Kept`); a turn leaves the
  database with its session only (`GoneOrHot`).
- `OneCleanerKeepsPacks`: one cleaner has no deleted session before it (`Listed`), and what it packs holds what is packed (`Packed`, `PackedTurns`).

`Library_proofs` proves, for any number of uploads, pages and faults, any caps and limit, and any number of
workers:

- `TypeCorrect`: `TypeOK`, and with it that no job is tried more than `maxIngestionAttempts` times and no page beyond the last
  is drawn. `TypeInv` adds what uploads, jobs and workers have to do with rows (`Fresh`) and that a run which
  will count its attempt has one left (`Runs`).
- `StorageStaysWithinQuota`: `StorageWithinQuota`, as a step adds a row at most, and only `Writes` does, which found room for it.
- `BytesStayInStore`: `BytesKept`. `BytesInv` says the same of the keys that uploads have read to put them in a snapshot,
  and that each is the key of an upload which is over: only an upload that is not over deletes its object.

and from `RunInv`, of the documents that are not `shared` (`Apart`: one of those is with one worker at most):

- `IngestionIsComplete`: `IngestedIsComplete`. `Drawn` says which pages are drawn from the current file at each step of
  a run, `InHand` that what the worker has before it is not completed, so that no run comes back to a completed document.
- `NothingIsStranded`: `NotStranded`, from `Waiting`, and that a run which completes its job has seen its document
  ready. The only job that is neither waiting, in a run nor exhausted with its document marked failed is one whose last write was lost.
- `ArchivedStaysArchived`: `ArchivedStays`. Without faults a document whose job is open is uploaded or failed (`Unfinished`), and only
  a ready one can be archived. That a shared document is one of these again as soon as one worker lists it alone rests on `Attended`, which
  holds of the shared ones too: an open job has a document that shows it, or a run between its first write and its last.
- `OneWorkerSharesNothing`: with one worker `shared` stays empty, as it lists only when it is done with what it listed before.

`KnowledgeSync_proofs` proves, for any number of documents, folders, requests, jobs and faults, and any number of workers:

- `TypeCorrect`: `TypeOK`. `TypeInv` adds that jobs fill the table in order (`Rows`), that a worker at a job holds a running one, alone
  (`Held`), and which steps only a sync takes (`Passes`). What a step does to each job is said once, in `RequestJobs` and `WorkerJobs`.
- `EndedJobsStay`: `EndedJobStays`, as only a pending job is claimed or cancelled and only the one that holds it ends it.
- `BadgeSettlesAlways`: `BadgeSettles`. `BadgeOwed` says which jobs still touch the badge (`Open`): those that wait, and those whose
  holder has not loaded the room, or is about to write their failure, or has died. A job past that has replaced "syncing" already.

- `HandsHold`: a worker is at a document of its job (`Own`), and a document that is not `shared` is in one worker's hand (`Alone`).
  A document leaves `shared` only where a delete job has just purged it with no other worker at it (`Forgets`), so that all that
  follows holds of it again: it has no copy, nobody is about to make one, and no pass is running with locks it read before.
- `SyncedStaysIndexed`: `SyncedIsIndexed`. A pass has no document before it that is synced (`Unsynced`), what it marks it has uploaded
  (`Uploaded`), so that only a delete job of its own can take the copy of a synced document away, and that job fails (`SyncedKept`).
- `WithdrawnArePurged`: `PurgeComing`. Not inductive: an upload that is on its way makes the copy of a document locked since. `PurgesOwed` says the same
  of copies about to be made (`InDanger`), and `LocksOwed` that every folder lock which a running pass has not seen has its purges queued, or
  claimed by a worker that has not begun (`ClaimedPurge`): when that one begins while a pass is running, the document becomes `shared`.
  `CorpusFirst` is why a withdrawal may skip the purge where there is no corpus.
- `OneWorkerSharesNothing`: with one worker `shared` stays empty.

The only assumptions are `ConstantsAssumption`, `RoomsAssumption` and `RequestsAssumption`, which TLC evaluates in
every run of their modules, and, stated in those theorems, that there is one replica in the theorems named `OneReplica...`,
`OneWorkerSharesNothing` and `OneCleanerKeepsPacks`, a member alone in his room in `LoneMemberLosesNothing`, one request and no fault in the two named `Serial...`, and, within their statements,
that saves are fresh in `FreshSavesConfuseNobody`, and that a workspace begins within its plan and is not downgraded in `ClaimedSeatsStayWithin` and `ClaimedLinksStayWithin`. Model-checked only: liveness (fairness is outside the proofs), `OnlyWaitsStop` (it is
about `ENABLED`), and all counterexamples.

## 6. Plan

Done: the six components above, in the order of what a user loses when they fail.

1. *More of the system.* The event bus (the pattern of the mail queue, with its own claim of what is pending),
   notifications (`AcquirePendingNotifications` locks rows in a statement of its own, so two
   workers may send one), idempotent requests (two with one key that overlap both run), and the order of billing events
   (an older one delivered late overwrites the plan).
2. *More of what is modelled.* `Library` with a limit of one or two (starvation by
   jobs of deleted documents), and with a version history (the version lost when two uploads replace one file).
   `KnowledgeSync`: the copies of members added to a room while it was being deleted, and the truth of
   a badge "ready" written by a reader after a later sync failed. `LinkAccess`: the cached blocklist of a room.
3. *More proofs.* Every safety property of a passing run but `OnlyWaitsStop` is proved, for any number of replicas. What is left is to
   say less generously what several of them break: `shared` of `KnowledgeSync` exempts a document until a delete job purges it
   alone, although a pass with one worker at it also repairs most of what two did.

**Not modelled.** Besides the components that `PROJECT.json` lists with their reasons: a deleted link
can be brought back by `UpdateStatus`, which is in `WorkspaceQuota` without a property against it, as nothing in the code
says it should not; an invitation pending for somebody who is added directly counts a
second seat; `ClearUsed` may delete an invitation another admin has just made; plans that end with
time; and the contents of reports and scores, which are computed from append-only records.
