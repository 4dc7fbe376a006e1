---------------------------- MODULE Library_proofs ----------------------------
(***************************************************************************)
(* Proofs about Library for every number of uploads, workers and faults,   *)
(* every number of pages, plan and limit.                                  *)
(***************************************************************************)
EXTENDS Library, FiniteSetTheorems, TLAPS

(* Types.  Beside those of TypeOK: an upload that is under way has no row   *)
(* yet, jobs and workers have to do with rows only, and a run that counts  *)
(* its attempt has one left.                                               *)

RowTypes ==
    /\ status \in [Uploads -> {"none", "uploaded", "ready", "failed", "archived"}]
    /\ key \in [Uploads -> Key] /\ named \in [Uploads -> BOOLEAN]
    /\ deleted \in SUBSET Uploads /\ born \in [Uploads -> 0..Cardinality(Uploads)]

JobTypes ==
    /\ jobStatus \in [Uploads -> {"none", "queued", "processing", "failed", "completed"}]
    /\ attempts \in [Uploads -> 0..maxIngestionAttempts]

PageTypes ==
    /\ pages \in [Uploads -> [Page -> Key]] /\ images \in [Uploads -> [Page -> Key]]

RequestTypes ==
    /\ cap \in Caps
    /\ at \in [Uploads -> {"new", "found", "stored", "discard", "over"}]
    /\ target \in [Uploads -> Key] /\ prev \in [Uploads -> Key]

WorkerTypes ==
    /\ step \in [Workers -> {"idle", "batch", "job", "begin", "cleanup", "download", "draw",
                             "page", "ready", "complete", "giveup", "failjob", "faildoc"}]
    /\ batch \in [Workers -> SUBSET Uploads] /\ cur \in [Workers -> Key]
    /\ src \in [Workers -> Key] /\ tries \in [Workers -> 0..maxIngestionAttempts]
    /\ page \in [Workers -> Page]

OtherTypes ==
    /\ objects \in SUBSET Uploads
    /\ torn \in SUBSET Uploads /\ unsure \in SUBSET Uploads /\ shared \in SUBSET Uploads
    /\ faults \in 0..MaxFaults

Counting == {"begin", "cleanup", "download", "draw", "page", "ready", "complete", "failjob"}

\* What an upload that is under way, a job and a worker have to do with rows.
Fresh ==
    \A u \in Uploads :
       /\ at[u] \in {"new", "found", "stored"} => status[u] = "none"
       /\ target[u] # NoUpload => target[u] \in Uploads /\ status[target[u]] # "none"
       /\ jobStatus[u] # "none" => status[u] # "none"

Runs ==
    \A w \in Workers :
       /\ \A r \in batch[w] : jobStatus[r] # "none"
       /\ step[w] \notin {"idle", "batch"} => cur[w] \in Uploads /\ jobStatus[cur[w]] # "none"
       /\ step[w] \in {"idle", "batch"} <=> cur[w] = NoUpload
       /\ step[w] \in Counting => tries[w] < maxIngestionAttempts

TypeInv == TypeOK /\ Fresh /\ Runs

LEMMA TypeParts ==
    /\ TypeOK <=> RowTypes /\ JobTypes /\ PageTypes /\ RequestTypes /\ WorkerTypes /\ OtherTypes
    /\ RowTypes' /\ JobTypes' /\ PageTypes' /\ RequestTypes' /\ WorkerTypes' /\ OtherTypes' => TypeOK'
BY DEF TypeOK, RowTypes, JobTypes, PageTypes, RequestTypes, WorkerTypes, OtherTypes

LEMMA TypesKept ==
    /\ RowTypes /\ UNCHANGED rowVars => RowTypes'
    /\ JobTypes /\ UNCHANGED jobVars => JobTypes'
    /\ PageTypes /\ UNCHANGED pageVars => PageTypes'
    /\ RequestTypes /\ UNCHANGED requestVars => RequestTypes'
    /\ WorkerTypes /\ UNCHANGED workerVars => WorkerTypes'
    /\ OtherTypes /\ UNCHANGED <<objects, history, faults>> => OtherTypes'
<1>1. RowTypes /\ UNCHANGED rowVars => RowTypes'
  BY DEF RowTypes, rowVars
<1>2. JobTypes /\ UNCHANGED jobVars => JobTypes'
  BY DEF JobTypes, jobVars
<1>3. PageTypes /\ UNCHANGED pageVars => PageTypes'
  BY DEF PageTypes, pageVars
<1>4. RequestTypes /\ UNCHANGED requestVars => RequestTypes'
  BY DEF RequestTypes, requestVars
<1>5. WorkerTypes /\ UNCHANGED workerVars => WorkerTypes'
  BY DEF WorkerTypes, workerVars
<1>6. OtherTypes /\ UNCHANGED <<objects, history, faults>> => OtherTypes'
  BY DEF OtherTypes, history
<1> QED BY <1>1, <1>2, <1>3, <1>4, <1>5, <1>6

LEMMA UploadsFinite ==
    ASSUME NEW S \in SUBSET Uploads
    PROVE  IsFiniteSet(S) /\ Cardinality(S) \in Nat /\ Cardinality(S) <= Cardinality(Uploads)
BY FS_Subset, FS_CardinalityType, ConstantsAssumption

LEMMA PageShape == 1 \in Page /\ Page \subseteq Nat /\ Blank \in [Page -> Key]
BY ConstantsAssumption DEF Page, Blank, Key

LEMMA TypeInit == Init => TypeInv
<1> SUFFICES ASSUME Init PROVE TypeInv
  OBVIOUS
<1> USE DEF Init
<1>1. Cardinality(Uploads) \in Nat
  BY UploadsFinite
<1>2. RowTypes /\ JobTypes
  BY <1>1 DEF RowTypes, JobTypes, Key, maxIngestionAttempts
<1>3. PageTypes
  BY PageShape DEF PageTypes
<1>4. RequestTypes /\ WorkerTypes
  BY PageShape DEF RequestTypes, WorkerTypes, Key, maxIngestionAttempts
<1>5. OtherTypes
  BY ConstantsAssumption DEF OtherTypes
<1>6. Fresh /\ Runs
  BY DEF Fresh, Runs, Counting
<1> QED BY <1>2, <1>3, <1>4, <1>5, <1>6, TypeParts DEF TypeInv

-----------------------------------------------------------------------------
(* The rows that a commit writes.                                          *)

Writes(u) == WithAddStorageQuota /\ (CreateDocument(u) \/ ReplaceDocument(u))

LEMMA RowsWritten ==
    ASSUME TypeInv, NEW u \in Uploads, at[u] = "stored", Writes(u)
    PROVE  /\ RowTypes' /\ JobTypes' /\ pages' \in [Uploads -> [Page -> Key]]
           /\ status[u] = "none" /\ Rows' = Rows \cup {u} /\ deleted' = deleted
           /\ torn' \in SUBSET Uploads /\ torn \subseteq torn'
           /\ \A r \in Uploads \ {u} :
                 \/ /\ r # target[u]
                    /\ UNCHANGED <<status[r], key[r], jobStatus[r], attempts[r], pages[r]>>
                    /\ r \in torn' => r \in torn
                 \/ /\ r = target[u] /\ ReplaceDocument(u)
                    /\ status'[r] = "uploaded" /\ jobStatus'[r] = "queued" /\ attempts'[r] = 0
                    /\ key'[r] = u
                    /\ (\E w \in Workers : cur[w] = r) => r \in torn'
           /\ \/ target[u] = NoUpload /\ jobStatus'[u] = "queued" /\ key'[u] = u
                 /\ status'[u] = "uploaded" /\ u \notin torn' \ torn
              \/ target[u] # NoUpload /\ jobStatus'[u] = "none" /\ key'[u] = prev[u]
                 /\ status'[u] = "archived"
<1>0. RowTypes /\ JobTypes /\ PageTypes /\ RequestTypes /\ OtherTypes
  BY TypeParts DEF TypeInv
<1>1. status[u] = "none" /\ jobStatus[u] = "none" /\ target[u] # u
  BY ConstantsAssumption DEF TypeInv, Fresh
<1>2. Rows \in SUBSET Uploads /\ u \notin Rows
  BY <1>1 DEF Rows
<1>3. Cardinality(Rows) + 1 \in 0..Cardinality(Uploads)
  <2>1. Cardinality(Rows \cup {u}) = Cardinality(Rows) + 1
    BY <1>2, UploadsFinite, FS_AddElement
  <2>2. Rows \cup {u} \in SUBSET Uploads
    BY <1>2
  <2> QED BY <1>2, <2>1, <2>2, UploadsFinite
<1>4. born' \in [Uploads -> 0..Cardinality(Uploads)] /\ named' \in [Uploads -> BOOLEAN]
      /\ deleted' = deleted
  <2>1. \E n \in BOOLEAN : NewRow(u, n)
    BY DEF Writes, CreateDocument, ReplaceDocument
  <2>2. PICK n \in BOOLEAN : NewRow(u, n)
    BY <2>1
  <2>3. born' = [born EXCEPT ![u] = Cardinality(Rows) + 1] /\ named' = [named EXCEPT ![u] = n]
        /\ deleted' = deleted
    BY <2>2 DEF NewRow
  <2> QED BY <1>0, <1>3, <2>3 DEF RowTypes
<1>5. CASE CreateDocument(u)
  <2>1. /\ target[u] = NoUpload /\ status' = [status EXCEPT ![u] = "uploaded"]
        /\ key' = [key EXCEPT ![u] = u] /\ jobStatus' = [jobStatus EXCEPT ![u] = "queued"]
        /\ UNCHANGED <<attempts, pages, torn>>
    BY <1>5 DEF CreateDocument, StorageKey
  <2>2. RowTypes' /\ JobTypes'
    BY <1>0, <1>4, <2>1 DEF RowTypes, JobTypes, Key
  <2>3. Rows' = Rows \cup {u}
    BY <1>0, <2>1 DEF Rows, RowTypes
  <2>4. \A r \in Uploads \ {u} : r # target[u]
    BY <2>1, ConstantsAssumption
  <2> QED BY <1>0, <1>1, <1>4, <2>1, <2>2, <2>3, <2>4 DEF RowTypes, JobTypes, PageTypes, OtherTypes
<1>6. CASE ReplaceDocument(u)
  <2> DEFINE t == target[u]
  <2>1. /\ t \in Uploads /\ status' = [status EXCEPT ![u] = "archived", ![t] = "uploaded"]
        /\ key' = [key EXCEPT ![u] = prev[u], ![t] = u]
        /\ pages' = [pages EXCEPT ![t] = Blank]
        /\ jobStatus' = [jobStatus EXCEPT ![t] = "queued"]
        /\ attempts' = [attempts EXCEPT ![t] = 0]
        /\ torn' = IF \E w \in Workers : cur[w] = t THEN torn \cup {t} ELSE torn
    BY <1>6 DEF ReplaceDocument, ResetIngestionJob, StorageKey
  <2>2. t # NoUpload /\ status[t] # "none"
    BY <2>1, ConstantsAssumption DEF TypeInv, Fresh
  <2>3. RowTypes' /\ JobTypes'
    BY <1>0, <1>4, <2>1 DEF RowTypes, JobTypes, RequestTypes, Key, maxIngestionAttempts
  <2>4. Rows' = Rows \cup {u}
    BY <1>0, <2>1, <2>2 DEF Rows, RowTypes
  <2>5. pages' \in [Uploads -> [Page -> Key]]
    BY <1>0, <2>1, PageShape DEF PageTypes
  <2>6. torn' \in SUBSET Uploads /\ torn \subseteq torn'
    BY <1>0, <2>1 DEF OtherTypes
  <2>7. ASSUME NEW r \in Uploads \ {u}, r # t
        PROVE  /\ UNCHANGED <<status[r], key[r], jobStatus[r], attempts[r], pages[r]>>
               /\ r \in torn' => r \in torn
    BY <1>0, <2>1, <2>7 DEF RowTypes, JobTypes, PageTypes
  <2>8. /\ status'[t] = "uploaded" /\ jobStatus'[t] = "queued" /\ attempts'[t] = 0
        /\ key'[t] = u
        /\ (\E w \in Workers : cur[w] = t) => t \in torn'
    BY <1>0, <1>1, <2>1 DEF RowTypes, JobTypes
  <2>9. jobStatus'[u] = "none" /\ key'[u] = prev[u] /\ status'[u] = "archived"
    BY <1>0, <1>1, <2>1 DEF RowTypes, JobTypes
  <2> QED BY <1>1, <1>4, <1>6, <2>2, <2>3, <2>4, <2>5, <2>6, <2>7, <2>8, <2>9
<1> QED BY <1>5, <1>6 DEF Writes

-----------------------------------------------------------------------------
(* The steps of a worker.                                                  *)

Steps == {"idle", "batch", "job", "begin", "cleanup", "download", "draw",
          "page", "ready", "complete", "giveup", "failjob", "faildoc"}

\* What a worker never does: create or take away rows and jobs, or touch what
\* belongs to the uploads.
WorkerSpares ==
    /\ UNCHANGED <<key, named, deleted, born, objects, requestVars, unsure>>
    /\ torn' \subseteq torn /\ shared' \in SUBSET Uploads

WorkerLeaves ==
    /\ WorkerSpares
    /\ status' \in [Uploads -> {"none", "uploaded", "ready", "failed", "archived"}]
    /\ \A r \in Uploads : status'[r] = "none" <=> status[r] = "none"
    /\ JobTypes' /\ PageTypes' /\ faults' \in 0..MaxFaults
    /\ \A r \in Uploads : jobStatus'[r] = "none" <=> jobStatus[r] = "none"

LEMMA WorkerKeepsTypes ==
    ASSUME TypeInv, WorkerLeaves, WorkerTypes', Runs'
    PROVE  TypeInv'
<1>0. RowTypes /\ JobTypes /\ PageTypes /\ RequestTypes /\ OtherTypes
  BY TypeParts DEF TypeInv
<1>1. RowTypes' /\ RequestTypes' /\ OtherTypes'
  <2>1. RowTypes'
    BY <1>0 DEF WorkerLeaves, WorkerSpares, RowTypes
  <2>2. RequestTypes'
    BY <1>0, TypesKept DEF WorkerLeaves, WorkerSpares
  <2>3. OtherTypes'
    BY <1>0 DEF WorkerLeaves, WorkerSpares, OtherTypes
  <2> QED BY <2>1, <2>2, <2>3
<1>2. Fresh'
  BY <1>0 DEF WorkerLeaves, WorkerSpares, TypeInv, Fresh, requestVars, RequestTypes, Key
<1> QED BY <1>1, <1>2, TypeParts DEF WorkerLeaves, WorkerSpares, TypeInv

\* A step within a run.
LEMMA GoRuns ==
    ASSUME TypeInv, WorkerLeaves, NEW w \in Workers,
           NEW from \in Steps \ {"idle", "batch"}, NEW to \in Steps \ {"idle", "batch"},
           Go(w, from, to),
           tries' \in [Workers -> 0..maxIngestionAttempts], page' \in [Workers -> Page],
           \A v \in Workers \ {w} : tries'[v] = tries[v],
           to \in Counting => tries'[w] < maxIngestionAttempts
    PROVE  WorkerTypes' /\ Runs'
<1>0. WorkerTypes
  BY TypeParts DEF TypeInv
<1>1. step' = [step EXCEPT ![w] = to] /\ UNCHANGED <<batch, cur, src>>
  BY DEF Go
<1>2. WorkerTypes'
  BY <1>0, <1>1 DEF WorkerTypes, Steps
<1>3. ASSUME NEW v \in Workers
      PROVE  /\ \A r \in batch'[v] : jobStatus'[r] # "none"
             /\ step'[v] \notin {"idle", "batch"} => cur'[v] \in Uploads /\ jobStatus'[cur'[v]] # "none"
             /\ step'[v] \in {"idle", "batch"} <=> cur'[v] = NoUpload
             /\ step'[v] \in Counting => tries'[v] < maxIngestionAttempts
  <2>1. /\ \A r \in batch[v] : r \in Uploads /\ jobStatus[r] # "none"
        /\ step[v] \notin {"idle", "batch"} => cur[v] \in Uploads /\ jobStatus[cur[v]] # "none"
        /\ step[v] \in {"idle", "batch"} <=> cur[v] = NoUpload
        /\ step[v] \in Counting => tries[v] < maxIngestionAttempts
    BY <1>0 DEF TypeInv, Runs, WorkerTypes
  <2>2. step'[v] = IF v = w THEN to ELSE step[v]
    BY <1>0, <1>1 DEF WorkerTypes
  <2>3. step[w] = from
    BY DEF Go
  <2> QED BY <1>1, <2>1, <2>2, <2>3 DEF WorkerLeaves
<1> QED BY <1>2, <1>3 DEF Runs

\* The end of a run.
LEMMA LeaveRuns ==
    ASSUME TypeInv, WorkerLeaves, NEW w \in Workers, NEW S \in SUBSET Uploads, S \subseteq batch[w],
           NEW to \in {"idle", "batch"},
           step' = [step EXCEPT ![w] = to], batch' = [batch EXCEPT ![w] = S],
           cur' = [cur EXCEPT ![w] = NoUpload], src' = [src EXCEPT ![w] = NoUpload],
           tries' = [tries EXCEPT ![w] = 0], page' = [page EXCEPT ![w] = 1]
    PROVE  WorkerTypes' /\ Runs'
<1>0. WorkerTypes
  BY TypeParts DEF TypeInv
<1>2. WorkerTypes'
  BY <1>0, PageShape DEF WorkerTypes, Key, maxIngestionAttempts
<1>3. ASSUME NEW v \in Workers
      PROVE  /\ \A r \in batch'[v] : jobStatus'[r] # "none"
             /\ step'[v] \notin {"idle", "batch"} => cur'[v] \in Uploads /\ jobStatus'[cur'[v]] # "none"
             /\ step'[v] \in {"idle", "batch"} <=> cur'[v] = NoUpload
             /\ step'[v] \in Counting => tries'[v] < maxIngestionAttempts
  <2>1. /\ \A r \in batch[v] : r \in Uploads /\ jobStatus[r] # "none"
        /\ step[v] \notin {"idle", "batch"} => cur[v] \in Uploads /\ jobStatus[cur[v]] # "none"
        /\ step[v] \in {"idle", "batch"} <=> cur[v] = NoUpload
        /\ step[v] \in Counting => tries[v] < maxIngestionAttempts
    BY <1>0 DEF TypeInv, Runs, WorkerTypes
  <2>2. CASE v = w
    BY <1>0, <2>1, <2>2 DEF WorkerTypes, WorkerLeaves, Counting
  <2>3. CASE v # w
    BY <1>0, <2>1, <2>3 DEF WorkerTypes, WorkerLeaves
  <2> QED BY <2>2, <2>3
<1> QED BY <1>2, <1>3 DEF Runs

WorkerStep(w) ==
    \/ Work(w) \/ RunFails(w) \/ CallFails(w) \/ Crash(w)
    \/ \E stale \in SUBSET Processing : ListPending(w, stale)

\* A worker at a document.
LEMMA AtDocument ==
    ASSUME TypeInv, NEW w \in Workers, step[w] \notin {"idle", "batch"}
    PROVE  /\ cur[w] \in Uploads /\ jobStatus[cur[w]] # "none" /\ status[cur[w]] # "none"
           /\ step[w] \in Counting => tries[w] < maxIngestionAttempts
BY DEF TypeInv, Runs, Fresh

LEMMA WorkerTypeStep ==
    ASSUME TypeInv, NEW w \in Workers, WorkerStep(w)
    PROVE  WorkerLeaves /\ WorkerTypes' /\ Runs'
<1>0. RowTypes /\ JobTypes /\ PageTypes /\ RequestTypes /\ WorkerTypes /\ OtherTypes
  BY TypeParts DEF TypeInv
<1>f. Fault => faults' \in 0..MaxFaults
  BY <1>0, ConstantsAssumption DEF Fault, OtherTypes
<1>n. faults \in 0..MaxFaults
  BY <1>0 DEF OtherTypes
<1>t. tries[w] \in 0..maxIngestionAttempts /\ page[w] \in Page /\ batch[w] \in SUBSET Uploads
      /\ src[w] \in Key
  BY <1>0 DEF WorkerTypes
<1>s. ASSUME UNCHANGED <<status, jobVars, pageVars>>
      PROVE  /\ status' \in [Uploads -> {"none", "uploaded", "ready", "failed", "archived"}]
             /\ \A r \in Uploads : status'[r] = "none" <=> status[r] = "none"
             /\ JobTypes' /\ PageTypes'
             /\ \A r \in Uploads : jobStatus'[r] = "none" <=> jobStatus[r] = "none"
  BY <1>0, <1>s DEF RowTypes, JobTypes, PageTypes, jobVars, pageVars
<1>g. ASSUME NEW from, NEW to, Go(w, from, to)
      PROVE  WorkerSpares
  BY <1>0, <1>g DEF Go, WorkerSpares, history, OtherTypes
<1>l. ASSUME NEW from, Leave(w, from)
      PROVE  /\ UNCHANGED pageVars /\ WorkerSpares
             /\ WorkerLeaves => WorkerTypes' /\ Runs'
  <2>1. UNCHANGED pageVars /\ WorkerSpares
    BY <1>0, <1>l DEF Leave, WorkerSpares, history, OtherTypes
  <2>2. batch' = [batch EXCEPT ![w] = batch[w]]
    BY <1>l, <1>0 DEF Leave, WorkerTypes
  <2>3. SUFFICES ASSUME WorkerLeaves PROVE WorkerTypes' /\ Runs'
    BY <2>1
  <2>4. CASE batch[w] = {}
    <3>1. step' = [step EXCEPT ![w] = "idle"]
      BY <1>l, <2>4 DEF Leave
    <3> QED BY <1>l, <1>t, <2>2, <2>3, <3>1, LeaveRuns DEF Leave
  <2>5. CASE batch[w] # {}
    <3>1. step' = [step EXCEPT ![w] = "batch"]
      BY <1>l, <2>5 DEF Leave
    <3> QED BY <1>l, <1>t, <2>2, <2>3, <3>1, LeaveRuns DEF Leave
  <2> QED BY <2>4, <2>5
<1>u. ASSUME UNCHANGED tries
      PROVE  tries' \in [Workers -> 0..maxIngestionAttempts]
             /\ \A v \in Workers \ {w} : tries'[v] = tries[v]
  BY <1>0, <1>u DEF WorkerTypes
<1>p. ASSUME UNCHANGED page PROVE page' \in [Workers -> Page]
  BY <1>0, <1>p DEF WorkerTypes
<1>j. ASSUME NEW s \in {"queued", "processing", "failed", "completed"},
             NEW n \in 0..maxIngestionAttempts, UpdateJob(w, s, n), step[w] \notin {"idle", "batch"}
      PROVE  JobTypes' /\ \A r \in Uploads : jobStatus'[r] = "none" <=> jobStatus[r] = "none"
  <2>1. cur[w] \in Uploads /\ jobStatus[cur[w]] # "none"
    BY <1>j, AtDocument
  <2>2. jobStatus' = [jobStatus EXCEPT ![cur[w]] = s] /\ attempts' = [attempts EXCEPT ![cur[w]] = n]
    BY <1>j DEF UpdateJob
  <2> QED BY <1>0, <1>j, <2>1, <2>2 DEF JobTypes
<1>1. ASSUME NEW stale \in SUBSET Processing, ListPending(w, stale)
      PROVE  WorkerLeaves /\ WorkerTypes' /\ Runs'
  <2> DEFINE S == Listed(Due(stale))
  <2> HIDE DEF S
  <2>1. \A r \in Due(stale) : r \in Uploads /\ jobStatus[r] # "none"
    BY <1>1 DEF Due, Processing, Retriable
  <2>2. S \subseteq Due(stale)
    BY DEF S, Listed
  <2>s. WorkerSpares
    <3>1. /\ shared' = (shared \ S) \cup (S \cap HeldByOthers(w))
          /\ torn' = torn \ (S \ HeldByOthers(w))
      BY <1>1 DEF ListPending, S
    <3> QED BY <1>0, <1>1, <2>1, <2>2, <3>1 DEF ListPending, WorkerSpares, rowVars, OtherTypes
  <2>3. WorkerLeaves
    BY <1>1, <1>s, <1>n, <2>s DEF ListPending, WorkerLeaves, rowVars
  <2>4. /\ step[w] = "idle" /\ step' = [step EXCEPT ![w] = "batch"] /\ batch' = [batch EXCEPT ![w] = S]
        /\ UNCHANGED <<cur, src, tries, page, jobStatus>>
    BY <1>1 DEF ListPending, jobVars, S
  <2>5. WorkerTypes'
    BY <1>0, <2>1, <2>2, <2>4 DEF WorkerTypes
  <2>6. ASSUME NEW v \in Workers
        PROVE  /\ \A r \in batch'[v] : jobStatus'[r] # "none"
               /\ step'[v] \notin {"idle", "batch"} => cur'[v] \in Uploads /\ jobStatus'[cur'[v]] # "none"
               /\ step'[v] \in {"idle", "batch"} <=> cur'[v] = NoUpload
               /\ step'[v] \in Counting => tries'[v] < maxIngestionAttempts
    <3>1. CASE v = w
      BY <1>0, <2>1, <2>2, <2>4, <3>1 DEF WorkerTypes, TypeInv, Runs, Counting
    <3>2. CASE v # w
      BY <1>0, <2>4, <3>2 DEF WorkerTypes, TypeInv, Runs
    <3> QED BY <3>1, <3>2
  <2> QED BY <2>3, <2>5, <2>6 DEF Runs
<1>2. CASE LoadDocument(w)
  <2>1. WorkerLeaves
    BY <1>0, <1>2, <1>s, <1>n DEF LoadDocument, WorkerLeaves, WorkerSpares, rowVars, history, OtherTypes
  <2>2. PICK r \in batch[w] :
          /\ batch' = [batch EXCEPT ![w] = @ \ {r}]
          /\ \/ /\ r \notin deleted
                /\ step' = [step EXCEPT ![w] = "job"]
                /\ cur' = [cur EXCEPT ![w] = r]
                /\ src' = [src EXCEPT ![w] = key[r]]
             \/ /\ r \in deleted
                /\ step' = [step EXCEPT ![w] = IF batch[w] = {r} THEN "idle" ELSE "batch"]
                /\ UNCHANGED <<cur, src>>
    BY <1>2 DEF LoadDocument
  <2>3. step[w] = "batch" /\ UNCHANGED <<tries, page, jobStatus>>
    BY <1>2 DEF LoadDocument, jobVars
  <2>4. r \in Uploads /\ jobStatus[r] # "none" /\ r # NoUpload /\ key[r] \in Key
    BY <1>0, <1>t, ConstantsAssumption DEF TypeInv, Runs, RowTypes
  <2>5. WorkerTypes'
    BY <1>0, <2>2, <2>3, <2>4 DEF WorkerTypes, Key
  <2>6. ASSUME NEW v \in Workers
        PROVE  /\ \A q \in batch'[v] : jobStatus'[q] # "none"
               /\ step'[v] \notin {"idle", "batch"} => cur'[v] \in Uploads /\ jobStatus'[cur'[v]] # "none"
               /\ step'[v] \in {"idle", "batch"} <=> cur'[v] = NoUpload
               /\ step'[v] \in Counting => tries'[v] < maxIngestionAttempts
    <3>0. /\ \A q \in batch[v] : jobStatus[q] # "none"
          /\ step[v] \notin {"idle", "batch"} => cur[v] \in Uploads /\ jobStatus[cur[v]] # "none"
          /\ step[v] \in {"idle", "batch"} <=> cur[v] = NoUpload
          /\ step[v] \in Counting => tries[v] < maxIngestionAttempts
      BY DEF TypeInv, Runs
    <3>1. CASE v = w
      <4>1. batch'[v] = batch[v] \ {r}
        BY <1>0, <2>2, <3>1 DEF WorkerTypes
      <4>2. \/ step'[v] = "job" /\ cur'[v] = r
            \/ step'[v] \in {"idle", "batch"} /\ cur'[v] = cur[v]
        BY <1>0, <2>2, <3>1 DEF WorkerTypes
      <4> QED BY <2>3, <2>4, <3>0, <3>1, <4>1, <4>2 DEF Counting
    <3>2. CASE v # w
      BY <1>0, <2>2, <2>3, <3>0, <3>2 DEF WorkerTypes
    <3> QED BY <3>1, <3>2
  <2> QED BY <2>1, <2>5, <2>6 DEF Runs
<1>3. CASE GetJob(w)
  <2>1. WorkerLeaves
    BY <1>3, <1>s, <1>n, <1>g DEF GetJob, WorkerLeaves
  <2>2. step[w] = "job" /\ cur[w] \in Uploads
    BY <1>3, AtDocument DEF GetJob, Go
  <2>3. attempts[cur[w]] \in 0..maxIngestionAttempts
    BY <1>0, <2>2 DEF JobTypes
  <2>4. tries' = [tries EXCEPT ![w] = attempts[cur[w]]] /\ page' = page
    BY <1>3 DEF GetJob
  <2>5. tries' \in [Workers -> 0..maxIngestionAttempts] /\ tries'[w] = attempts[cur[w]]
        /\ \A v \in Workers \ {w} : tries'[v] = tries[v]
    BY <1>0, <2>3, <2>4 DEF WorkerTypes
  <2>6. page' \in [Workers -> Page]
    BY <2>4, <1>p
  <2>7. CASE attempts[cur[w]] >= maxIngestionAttempts
    <3>1. Go(w, "job", "giveup")
      BY <1>3, <2>7 DEF GetJob, Exhausted
    <3> HIDE DEF Go
    <3> QED BY <2>1, <2>5, <2>6, <3>1, GoRuns DEF Steps, Counting
  <2>8. CASE ~(attempts[cur[w]] >= maxIngestionAttempts)
    <3>1. Go(w, "job", "begin")
      BY <1>3, <2>8 DEF GetJob, Exhausted
    <3>2. attempts[cur[w]] < maxIngestionAttempts
      BY <2>3, <2>8 DEF maxIngestionAttempts
    <3> QED BY <2>1, <2>5, <2>6, <3>1, <3>2, GoRuns DEF Steps
  <2> QED BY <2>1, <2>7, <2>8
<1>4. CASE Begin(w)
  <2>1. Go(w, "begin", "cleanup") /\ UpdateJob(w, "processing", tries[w] + 1)
        /\ UNCHANGED <<status, pageVars, tries, page, faults>>
    BY <1>4 DEF Begin
  <2>2. step[w] = "begin"
    BY <2>1 DEF Go
  <2>3. tries[w] < maxIngestionAttempts
    BY <2>2, AtDocument DEF Counting
  <2>4. tries[w] + 1 \in 0..maxIngestionAttempts
    BY <1>t, <2>3 DEF maxIngestionAttempts
  <2>5. WorkerLeaves
    <3>1. JobTypes' /\ \A r \in Uploads : jobStatus'[r] = "none" <=> jobStatus[r] = "none"
      BY <1>j, <2>1, <2>2, <2>4
    <3>2. PageTypes' /\ status' \in [Uploads -> {"none", "uploaded", "ready", "failed", "archived"}]
      BY <1>0, <2>1 DEF PageTypes, RowTypes, pageVars
    <3> QED BY <1>g, <1>n, <2>1, <3>1, <3>2 DEF WorkerLeaves
  <2> QED BY <1>u, <1>p, <2>1, <2>3, <2>5, GoRuns DEF Steps
<1>5. CASE Cleanup(w) \/ Download(w) \/ DrawPage(w)
  <2>1. UNCHANGED <<status, jobVars, tries, page, faults>>
    BY <1>5 DEF Cleanup, Download, DrawPage, pageVars
  <2>2. \E from \in {"cleanup", "download", "draw"}, to \in {"download", "draw", "failjob", "page"} :
           Go(w, from, to)
    BY <1>5 DEF Cleanup, Download, DrawPage
  <2>3. step[w] \in {"cleanup", "download", "draw"}
    BY <2>2 DEF Go
  <2>4. tries[w] < maxIngestionAttempts /\ cur[w] \in Uploads
    BY <2>3, AtDocument DEF Counting
  <2>5. PageTypes'
    <3>1. CASE Cleanup(w)
      BY <1>0, <2>4, <3>1, PageShape DEF Cleanup, PageTypes
    <3>2. CASE Download(w)
      BY <1>0, <3>2 DEF Download, PageTypes, pageVars
    <3>3. CASE DrawPage(w)
      <4>1. images' = [images EXCEPT ![cur[w]] = [images[cur[w]] EXCEPT ![page[w]] = src[w]]]
            /\ pages' = pages
        BY <3>3 DEF DrawPage
      <4>2. [images[cur[w]] EXCEPT ![page[w]] = src[w]] \in [Page -> Key]
        BY <1>0, <1>t, <2>4 DEF PageTypes
      <4> QED BY <1>0, <4>1, <4>2 DEF PageTypes
    <3> QED BY <1>5, <3>1, <3>2, <3>3
  <2>6. WorkerLeaves
    <3>1. JobTypes' /\ status' \in [Uploads -> {"none", "uploaded", "ready", "failed", "archived"}]
          /\ \A r \in Uploads : jobStatus'[r] = jobStatus[r] /\ status'[r] = status[r]
      BY <1>0, <2>1 DEF JobTypes, RowTypes, jobVars
    <3> QED BY <1>g, <1>n, <2>1, <2>2, <2>5, <3>1 DEF WorkerLeaves
  <2> QED BY <1>u, <1>p, <2>1, <2>2, <2>4, <2>6, GoRuns DEF Steps
<1>6. CASE CreatePage(w)
  <2>1. step[w] = "page" /\ UNCHANGED <<status, jobVars, images, tries, faults>>
    BY <1>6 DEF CreatePage
  <2>2. tries[w] < maxIngestionAttempts /\ cur[w] \in Uploads
    BY <2>1, AtDocument DEF Counting
  <2>3. \E to \in {"failjob", "ready", "draw"} : Go(w, "page", to)
    BY <1>6 DEF CreatePage
  <2>4. pages' \in [Uploads -> [Page -> Key]]
    <3>1. [pages[cur[w]] EXCEPT ![page[w]] = src[w]] \in [Page -> Key]
      BY <1>0, <1>t, <2>2 DEF PageTypes
    <3>2. pages' = pages \/ pages' = [pages EXCEPT ![cur[w]] = [pages[cur[w]] EXCEPT ![page[w]] = src[w]]]
      BY <1>6 DEF CreatePage
    <3> QED BY <1>0, <3>1, <3>2 DEF PageTypes
  <2>5. page' \in [Workers -> Page]
    <3>1. page' = page \/ (page[w] # NumPages /\ page' = [page EXCEPT ![w] = page[w] + 1])
      BY <1>6 DEF CreatePage, LastPage
    <3>2. page[w] # NumPages => page[w] + 1 \in Page
      BY <1>t, ConstantsAssumption DEF Page
    <3> QED BY <1>0, <3>1, <3>2 DEF WorkerTypes
  <2>6. WorkerLeaves
    <3>1. JobTypes' /\ status' \in [Uploads -> {"none", "uploaded", "ready", "failed", "archived"}]
          /\ \A r \in Uploads : jobStatus'[r] = jobStatus[r] /\ status'[r] = status[r]
      BY <1>0, <2>1 DEF JobTypes, RowTypes, jobVars
    <3>2. PageTypes'
      BY <1>0, <2>1, <2>4 DEF PageTypes
    <3> QED BY <1>g, <1>n, <2>1, <2>3, <3>1, <3>2 DEF WorkerLeaves
  <2> QED BY <1>u, <2>1, <2>2, <2>3, <2>5, <2>6, GoRuns DEF Steps
<1>7. CASE MarkReady(w)
  <2>1. Go(w, "ready", "complete") /\ status' = [status EXCEPT ![cur[w]] = "ready"]
        /\ UNCHANGED <<jobVars, pageVars, tries, page, faults>>
    BY <1>7 DEF MarkReady
  <2>2. step[w] = "ready"
    BY <2>1 DEF Go
  <2>3. cur[w] \in Uploads /\ status[cur[w]] # "none" /\ tries[w] < maxIngestionAttempts
    BY <2>2, AtDocument DEF Counting
  <2>4. WorkerLeaves
    <3>1. JobTypes' /\ PageTypes' /\ \A r \in Uploads : jobStatus'[r] = jobStatus[r]
      BY <1>0, <2>1 DEF JobTypes, PageTypes, jobVars, pageVars
    <3>2. status' \in [Uploads -> {"none", "uploaded", "ready", "failed", "archived"}]
          /\ \A r \in Uploads : status'[r] = "none" <=> status[r] = "none"
      BY <1>0, <2>1, <2>3 DEF RowTypes
    <3> QED BY <1>g, <1>n, <2>1, <3>1, <3>2 DEF WorkerLeaves
  <2> QED BY <1>u, <1>p, <2>1, <2>3, <2>4, GoRuns DEF Steps
<1>8. CASE CompleteJob(w)
  <2>1. Leave(w, "complete") /\ UpdateJob(w, "completed", tries[w] + 1) /\ UNCHANGED <<status, faults>>
    BY <1>8 DEF CompleteJob
  <2>2. step[w] = "complete"
    BY <2>1 DEF Leave
  <2>3. tries[w] < maxIngestionAttempts
    BY <2>2, AtDocument DEF Counting
  <2>4. tries[w] + 1 \in 0..maxIngestionAttempts
    BY <1>t, <2>3 DEF maxIngestionAttempts
  <2>5. JobTypes' /\ \A r \in Uploads : jobStatus'[r] = "none" <=> jobStatus[r] = "none"
    BY <1>j, <2>1, <2>2, <2>4
  <2>6. PageTypes' /\ status' \in [Uploads -> {"none", "uploaded", "ready", "failed", "archived"}]
    BY <1>0, <1>l, <2>1 DEF PageTypes, RowTypes, pageVars
  <2>7. WorkerLeaves
    BY <1>l, <1>n, <2>1, <2>5, <2>6 DEF WorkerLeaves
  <2> QED BY <1>l, <2>1, <2>7
<1>9. CASE RunFails(w)
  <2>1. PICK from \in {"cleanup", "download", "draw", "page", "ready"} : Go(w, from, "failjob")
    BY <1>9 DEF RunFails
  <2>2. UNCHANGED <<status, jobVars, pageVars, tries, page, faults>>
    BY <1>9 DEF RunFails
  <2>3. WorkerLeaves
    BY <1>s, <1>n, <1>g, <2>1, <2>2 DEF WorkerLeaves
  <2>4. step[w] = from
    BY <2>1 DEF Go
  <2>5. tries[w] < maxIngestionAttempts
    BY <2>4, AtDocument DEF Counting
  <2> QED BY <1>u, <1>p, <2>1, <2>2, <2>3, <2>5, GoRuns DEF Steps
<1>10. CASE FailJob(w)
  <2>1. PICK from \in {"failjob", "giveup"}, n \in {tries[w], tries[w] + 1} :
           /\ Go(w, from, "faildoc") /\ UpdateJob(w, "failed", n)
           /\ from = "giveup" => n = tries[w]
    BY <1>10 DEF FailJob
  <2>2. UNCHANGED <<status, pageVars, tries, page, faults>>
    BY <1>10 DEF FailJob
  <2>3. step[w] = from
    BY <2>1 DEF Go
  <2>4. n \in 0..maxIngestionAttempts
    <3>1. CASE from = "giveup"
      BY <1>t, <2>1, <3>1
    <3>2. CASE from = "failjob"
      <4>1. tries[w] < maxIngestionAttempts
        BY <2>3, <3>2, AtDocument DEF Counting
      <4> QED BY <1>t, <2>1, <4>1 DEF maxIngestionAttempts
    <3> QED BY <3>1, <3>2
  <2>5. JobTypes' /\ \A r \in Uploads : jobStatus'[r] = "none" <=> jobStatus[r] = "none"
    BY <1>j, <2>1, <2>3, <2>4
  <2>6. PageTypes' /\ status' \in [Uploads -> {"none", "uploaded", "ready", "failed", "archived"}]
    BY <1>0, <2>2 DEF PageTypes, RowTypes, pageVars
  <2>7. WorkerLeaves
    BY <1>g, <1>n, <2>1, <2>2, <2>5, <2>6 DEF WorkerLeaves
  <2> QED BY <1>u, <1>p, <2>1, <2>2, <2>7, GoRuns DEF Steps, Counting
<1>11. CASE FailDocument(w)
  <2>1. Leave(w, "faildoc") /\ status' = [status EXCEPT ![cur[w]] = "failed"]
        /\ UNCHANGED <<jobVars, faults>>
    BY <1>11 DEF FailDocument
  <2>2. step[w] = "faildoc"
    BY <2>1 DEF Leave
  <2>3. cur[w] \in Uploads /\ status[cur[w]] # "none"
    BY <2>2, AtDocument
  <2>4. JobTypes' /\ PageTypes' /\ \A r \in Uploads : jobStatus'[r] = jobStatus[r]
    BY <1>0, <1>l, <2>1 DEF JobTypes, PageTypes, jobVars, pageVars
  <2>5. status' \in [Uploads -> {"none", "uploaded", "ready", "failed", "archived"}]
        /\ \A r \in Uploads : status'[r] = "none" <=> status[r] = "none"
    BY <1>0, <2>1, <2>3 DEF RowTypes
  <2>6. WorkerLeaves
    BY <1>l, <1>n, <2>1, <2>4, <2>5 DEF WorkerLeaves
  <2> QED BY <1>l, <2>1, <2>6
<1>12. CASE CallFails(w)
  <2>1. Fault /\ UNCHANGED <<status, jobVars>>
    BY <1>12 DEF CallFails
  <2>2. CASE UNCHANGED <<pageVars, tries, page>> /\ \E from \in {"failjob", "giveup"} : Go(w, from, "faildoc")
    <3>1. WorkerLeaves
      BY <1>s, <1>f, <1>g, <2>1, <2>2 DEF WorkerLeaves
    <3> QED BY <1>u, <1>p, <2>2, <3>1, GoRuns DEF Steps, Counting
  <2>3. CASE \E from \in {"job", "begin", "complete", "faildoc"} : Leave(w, from)
    <3>1. WorkerLeaves
      BY <1>s, <1>f, <1>l, <2>1, <2>3 DEF WorkerLeaves
    <3> QED BY <1>l, <2>3, <3>1
  <2> QED BY <1>12, <2>2, <2>3 DEF CallFails
<1>13. CASE Crash(w)
  <2>1. WorkerLeaves
    BY <1>0, <1>s, <1>f, <1>13 DEF Crash, WorkerLeaves, WorkerSpares, rowVars, history, OtherTypes
  <2> QED BY <1>13, <2>1, LeaveRuns DEF Crash
<1>14. Processing \in SUBSET Processing
  OBVIOUS
<1> QED BY <1>1, <1>2, <1>3, <1>4, <1>5, <1>6, <1>7, <1>8, <1>9, <1>10, <1>11, <1>12, <1>13, <1>14
        DEF WorkerStep, Work

-----------------------------------------------------------------------------
(* The steps of uploads, requests and plans.                               *)

OtherStep ==
    \/ \E u \in Uploads : Upload(u) \/ CommitFails(u) \/ UploadDies(u)
    \/ \E c \in Caps : ChangePlan(c)
    \/ \E r \in Uploads : ArchiveDocument(r) \/ UnarchiveDocument(r) \/ DeleteDocument(r)

\* A step that is not a worker's leaves the workers and what they draw alone,
\* and no row and no job goes away.
LEMMA OtherTypeStep ==
    ASSUME TypeInv, OtherStep
    PROVE  /\ TypeInv' /\ UNCHANGED <<workerVars, images, shared>>
           /\ \A r \in Uploads : status[r] # "none" => status'[r] # "none"
           /\ \A r \in Uploads : jobStatus[r] # "none" => jobStatus'[r] # "none"
<1>0. RowTypes /\ JobTypes /\ PageTypes /\ RequestTypes /\ WorkerTypes /\ OtherTypes
  BY TypeParts DEF TypeInv
<1> DEFINE Kept == /\ \A r \in Uploads : status[r] # "none" => status'[r] # "none"
                   /\ \A r \in Uploads : jobStatus[r] # "none" => jobStatus'[r] # "none"
<1>f. Fault => faults' \in 0..MaxFaults
  BY <1>0, ConstantsAssumption DEF Fault, OtherTypes
<1>n. faults \in 0..MaxFaults
  BY <1>0 DEF OtherTypes
<1>h. UNCHANGED shared
  <2>1. ASSUME NEW u \in Uploads, Upload(u) \/ CommitFails(u) \/ UploadDies(u) PROVE UNCHANGED shared
    BY <2>1 DEF Upload, Lookup, PutObject, Commit, CommitRefused, CommitFails, DeleteObject, UploadDies,
                history
  <2>2. CASE \/ \E c \in Caps : ChangePlan(c)
             \/ \E r \in Uploads : ArchiveDocument(r) \/ UnarchiveDocument(r) \/ DeleteDocument(r)
    BY <2>2 DEF ChangePlan, ArchiveDocument, UnarchiveDocument, DeleteDocument, history
  <2> QED BY <2>1, <2>2 DEF OtherStep
<1>r. UNCHANGED workerVars /\ Kept => WorkerTypes' /\ Runs'
  <2> SUFFICES ASSUME UNCHANGED workerVars, Kept PROVE WorkerTypes' /\ Runs'
    OBVIOUS
  <2>1. WorkerTypes'
    BY TypesKept, <1>0
  <2>2. UNCHANGED <<step, batch, cur, tries>>
    BY DEF workerVars
  <2>3. \A w \in Workers : \A r \in batch[w] : r \in Uploads
    BY <1>0 DEF WorkerTypes
  <2> QED BY <2>1, <2>2, <2>3 DEF TypeInv, Runs
\* A step of an upload that writes no row.
<1>q. ASSUME NEW u \in Uploads, NEW from, NEW to \in {"new", "found", "stored", "discard", "over"},
             Goto(u, from, to),
             from \in {"new", "found", "stored"} \/ to \in {"discard", "over"},
             UNCHANGED <<rowVars, jobVars, pageVars, torn>>,
             target' \in [Uploads -> Key], prev' \in [Uploads -> Key],
             \A v \in Uploads : target'[v] # target[v] => target'[v] \in Rows,
             objects' \in SUBSET Uploads, unsure' \in SUBSET Uploads, faults' \in 0..MaxFaults
      PROVE  TypeInv' /\ UNCHANGED <<workerVars, images>> /\ Kept
  <2>1. /\ at[u] = from /\ cap' = cap /\ UNCHANGED workerVars
        /\ at' = [at EXCEPT ![u] = to]
        /\ at' \in [Uploads -> {"new", "found", "stored", "discard", "over"}]
    BY <1>0, <1>q DEF Goto, RequestTypes
  <2>2. Kept /\ UNCHANGED images
    BY <1>q DEF rowVars, jobVars, pageVars
  <2>3. RowTypes' /\ JobTypes' /\ PageTypes'
    BY <1>0, <1>q, TypesKept
  <2>4. RequestTypes' /\ OtherTypes'
    BY <1>0, <1>h, <1>q, <2>1 DEF RequestTypes, OtherTypes
  <2>5. Fresh'
    <3>1. UNCHANGED <<status, jobStatus>>
      BY <1>q DEF rowVars, jobVars
    <3>2. ASSUME NEW v \in Uploads
          PROVE  /\ at'[v] \in {"new", "found", "stored"} => status'[v] = "none"
                 /\ target'[v] # NoUpload => target'[v] \in Uploads /\ status'[target'[v]] # "none"
                 /\ jobStatus'[v] # "none" => status'[v] # "none"
      <4>1. at'[v] \in {"new", "found", "stored"} => at[v] \in {"new", "found", "stored"}
        BY <1>0, <1>q, <2>1 DEF RequestTypes
      <4> QED BY <1>q, <3>1, <4>1 DEF TypeInv, Fresh, Rows
    <3> QED BY <3>2 DEF Fresh
  <2> QED BY <1>r, <2>1, <2>2, <2>3, <2>4, <2>5, TypeParts DEF TypeInv
<1>z. target \in [Uploads -> Key] /\ prev \in [Uploads -> Key] /\ objects \in SUBSET Uploads
      /\ unsure \in SUBSET Uploads
  BY <1>0 DEF RequestTypes, OtherTypes
\* A step of an upload that writes its rows.
<1>w. ASSUME NEW u \in Uploads, NEW to \in {"discard", "over"}, Goto(u, "stored", to), Writes(u),
             UNCHANGED <<images, objects, target, prev>>,
             unsure' \in SUBSET Uploads, faults' \in 0..MaxFaults
      PROVE  TypeInv' /\ UNCHANGED <<workerVars, images>> /\ Kept
  <2>1. /\ at[u] = "stored" /\ cap' = cap /\ UNCHANGED workerVars
        /\ at' = [at EXCEPT ![u] = to]
    BY <1>w DEF Goto
  <2>2. /\ RowTypes' /\ JobTypes' /\ pages' \in [Uploads -> [Page -> Key]]
        /\ torn' \in SUBSET Uploads
        /\ status[u] = "none" /\ status'[u] # "none"
    BY <1>w, <2>1, RowsWritten
  <2>3. \A r \in Uploads \ {u} :
           \/ status'[r] = status[r] /\ jobStatus'[r] = jobStatus[r]
           \/ r = target[u] /\ status'[r] = "uploaded" /\ jobStatus'[r] = "queued"
    BY <1>w, <2>1, RowsWritten
  <2>4. PageTypes' /\ RequestTypes' /\ OtherTypes'
    BY <1>0, <1>h, <1>w, <2>1, <2>2 DEF PageTypes, RequestTypes, OtherTypes
  <2>5. jobStatus[u] = "none"
    BY <2>2 DEF TypeInv, Fresh
  <2>6. Kept
    BY <2>2, <2>3, <2>5
  <2>7. Fresh'
    <3>1. ASSUME NEW v \in Uploads
          PROVE  /\ at'[v] \in {"new", "found", "stored"} => status'[v] = "none"
                 /\ target'[v] # NoUpload => target'[v] \in Uploads /\ status'[target'[v]] # "none"
                 /\ jobStatus'[v] # "none" => status'[v] # "none"
      <4>0. /\ at[v] \in {"new", "found", "stored"} => status[v] = "none"
            /\ target[v] # NoUpload => target[v] \in Uploads /\ status[target[v]] # "none"
            /\ jobStatus[v] # "none" => status[v] # "none"
        BY DEF TypeInv, Fresh
      <4>1. CASE v = u
        BY <1>0, <1>w, <2>1, <2>2, <2>6, <4>0, <4>1 DEF RequestTypes
      <4>2. CASE v # u
        <5>1. at'[v] = at[v] /\ target'[v] = target[v]
          BY <1>0, <1>w, <2>1, <4>2 DEF RequestTypes
        <5>2. target[u] # NoUpload => status[target[u]] # "none"
          BY DEF TypeInv, Fresh
        <5>3. \/ status'[v] = status[v] /\ jobStatus'[v] = jobStatus[v]
              \/ status[v] # "none" /\ status'[v] = "uploaded" /\ jobStatus'[v] = "queued"
          BY <2>3, <4>2, <5>2, ConstantsAssumption
        <5> QED BY <2>6, <4>0, <5>1, <5>3
      <4> QED BY <4>1, <4>2
    <3> QED BY <3>1 DEF Fresh
  <2> QED BY <1>r, <1>w, <2>1, <2>2, <2>4, <2>6, <2>7, TypeParts DEF TypeInv
<1>1. ASSUME NEW u \in Uploads, Lookup(u)
      PROVE  TypeInv' /\ UNCHANGED <<workerVars, images>> /\ Kept
  <2>1. UNCHANGED <<rowVars, jobVars, pageVars, torn, objects, unsure, faults>>
    BY <1>1 DEF Lookup, history
  <2>2. CASE UNCHANGED <<target, prev>>
    <3>1. \E to \in {"found", "over"} : Goto(u, "new", to)
      BY <1>1 DEF Lookup
    <3> QED BY <1>n, <1>q, <1>z, <2>1, <2>2, <3>1
  <2>3. CASE \E r \in Titled : /\ Goto(u, "new", "found")
                               /\ target' = [target EXCEPT ![u] = r]
                               /\ prev' = [prev EXCEPT ![u] = key[r]]
    <3>1. PICK r \in Titled : /\ Goto(u, "new", "found")
                              /\ target' = [target EXCEPT ![u] = r]
                              /\ prev' = [prev EXCEPT ![u] = key[r]]
      BY <2>3
    <3>2. r \in Uploads /\ r \in Rows /\ key[r] \in Key
      BY <1>0 DEF Titled, Live, RowTypes
    <3>3. target' \in [Uploads -> Key] /\ prev' \in [Uploads -> Key]
          /\ \A v \in Uploads : target'[v] # target[v] => target'[v] \in Rows
      BY <1>z, <3>1, <3>2 DEF Key
    <3> QED BY <1>n, <1>q, <1>z, <2>1, <3>1, <3>3
  <2> QED BY <1>1, <2>2, <2>3 DEF Lookup
<1>2. ASSUME NEW u \in Uploads, PutObject(u)
      PROVE  TypeInv' /\ UNCHANGED <<workerVars, images>> /\ Kept
  <2>1. UNCHANGED <<rowVars, jobVars, pageVars, torn, target, prev, unsure, faults>>
    BY <1>2 DEF PutObject, history
  <2>2. objects' \in SUBSET Uploads /\ \E to \in {"stored", "over"} : Goto(u, "found", to)
    BY <1>2, <1>z DEF PutObject, StorageKey
  <2> QED BY <1>n, <1>q, <1>z, <2>1, <2>2
<1>3. ASSUME NEW u \in Uploads, Commit(u)
      PROVE  TypeInv' /\ UNCHANGED <<workerVars, images>> /\ Kept
  BY <1>3, <1>n, <1>w, <1>z DEF Commit, Writes
<1>4. ASSUME NEW u \in Uploads, CommitRefused(u) \/ DeleteObject(u) \/ UploadDies(u)
      PROVE  TypeInv' /\ UNCHANGED <<workerVars, images>> /\ Kept
  <2>1. UNCHANGED <<rowVars, jobVars, pageVars, torn, target, prev, unsure>>
    BY <1>4 DEF CommitRefused, DeleteObject, UploadDies, history
  <2>2. objects' \in SUBSET Uploads
    BY <1>4, <1>z DEF CommitRefused, DeleteObject, UploadDies
  <2>3. faults' \in 0..MaxFaults
    BY <1>4, <1>f, <1>n DEF CommitRefused, DeleteObject, UploadDies
  <2>4. \E from, to : to \in {"discard", "over"} /\ Goto(u, from, to)
    <3>1. CommitRefused(u) => Goto(u, "stored", "discard")
      BY DEF CommitRefused
    <3>2. DeleteObject(u) => Goto(u, "discard", "over")
      BY DEF DeleteObject
    <3>3. UploadDies(u) => Goto(u, at[u], "over")
      BY DEF UploadDies
    <3> QED BY <1>4, <3>1, <3>2, <3>3
  <2> QED BY <1>q, <1>z, <2>1, <2>2, <2>3, <2>4
<1>5. ASSUME NEW u \in Uploads, CommitFails(u)
      PROVE  TypeInv' /\ UNCHANGED <<workerVars, images>> /\ Kept
  <2>1. Goto(u, "stored", "discard") /\ Fault /\ UNCHANGED <<images, objects, target, prev>>
    BY <1>5 DEF CommitFails
  <2>2. CASE UNCHANGED <<rowVars, jobVars, pages, torn, unsure>>
    BY <1>f, <1>q, <1>z, <2>1, <2>2 DEF pageVars
  <2>3. CASE Writes(u) /\ unsure' = unsure \cup {StorageKey(u)}
    <3>1. unsure' \in SUBSET Uploads
      BY <1>z, <2>3 DEF StorageKey
    <3> QED BY <1>f, <1>w, <2>1, <2>3, <3>1
  <2> QED BY <1>5, <2>2, <2>3 DEF CommitFails, Writes
<1>6. ASSUME NEW c \in Caps, ChangePlan(c)
      PROVE  TypeInv' /\ UNCHANGED <<workerVars, images>> /\ Kept
  <2>1. UNCHANGED <<rowVars, jobVars, pageVars, objects, at, target, prev, workerVars, history, faults>>
        /\ cap' = c
    BY <1>6 DEF ChangePlan
  <2>2. RowTypes' /\ JobTypes' /\ PageTypes' /\ OtherTypes'
    BY <1>0, <2>1, TypesKept
  <2>3. RequestTypes'
    BY <1>0, <2>1 DEF RequestTypes
  <2>4. UNCHANGED <<status, jobStatus, images>>
    BY <2>1 DEF rowVars, jobVars, pageVars
  <2>5. Fresh'
    BY <2>1, <2>4 DEF TypeInv, Fresh
  <2> QED BY <1>r, <2>1, <2>2, <2>3, <2>4, <2>5, TypeParts DEF TypeInv
<1>7. ASSUME NEW r \in Uploads, ArchiveDocument(r) \/ UnarchiveDocument(r) \/ DeleteDocument(r)
      PROVE  TypeInv' /\ UNCHANGED <<workerVars, images>> /\ Kept
  <2>1. UNCHANGED <<key, born, jobVars, pageVars, objects, requestVars, workerVars, history, faults>>
    BY <1>7 DEF ArchiveDocument, UnarchiveDocument, DeleteDocument
  <2>2. /\ \/ status' = status
           \/ \E s \in {"ready", "archived"} : status' = [status EXCEPT ![r] = s]
        /\ status[r] # "none"
        /\ named' \in [Uploads -> BOOLEAN] /\ deleted' \in SUBSET Uploads
    <3>1. CASE ArchiveDocument(r)
      BY <1>0, <3>1 DEF ArchiveDocument, CanArchive, RowTypes
    <3>2. CASE UnarchiveDocument(r)
      <4>1. named' = [named EXCEPT ![r] = named[r] /\ Titled = {}]
        BY <3>2 DEF UnarchiveDocument
      <4>2. (named[r] /\ Titled = {}) \in BOOLEAN
        OBVIOUS
      <4>3. named' \in [Uploads -> BOOLEAN]
        BY <1>0, <4>1, <4>2, ZenonT(20) DEF RowTypes
      <4> QED BY <1>0, <3>2, <4>3 DEF UnarchiveDocument, RowTypes
    <3>3. CASE DeleteDocument(r)
      BY <1>0, <3>3 DEF DeleteDocument, RowTypes, Rows
    <3> QED BY <1>7, <3>1, <3>2, <3>3
  <2>3. RowTypes'
    BY <1>0, <2>1, <2>2 DEF RowTypes
  <2>4. JobTypes' /\ PageTypes' /\ RequestTypes' /\ OtherTypes'
    BY <1>0, <2>1, TypesKept
  <2>5. UNCHANGED <<at, target, jobStatus, images>>
    BY <2>1 DEF requestVars, jobVars, pageVars
  <2>6. \A q \in Uploads : status'[q] = "none" <=> status[q] = "none"
    BY <1>0, <2>2 DEF RowTypes
  <2>7. Fresh'
    BY <1>0, <2>5, <2>6 DEF TypeInv, Fresh, RequestTypes, Key
  <2> QED BY <1>r, <2>1, <2>3, <2>4, <2>5, <2>6, <2>7, TypeParts DEF TypeInv
<1> QED BY <1>h, <1>1, <1>2, <1>3, <1>4, <1>5, <1>6, <1>7 DEF OtherStep, Upload

LEMMA NextIsOneOf ==
    Next <=> OtherStep \/ \E w \in Workers : WorkerStep(w)
BY DEF Next, OtherStep, WorkerStep

LEMMA TypeStep == TypeInv /\ [Next]_vars => TypeInv'
<1>1. ASSUME TypeInv, UNCHANGED vars PROVE TypeInv'
  BY <1>1 DEF vars, TypeInv, TypeOK, Fresh, Runs, rowVars, jobVars, pageVars, requestVars,
              workerVars, history
<1> QED BY <1>1, NextIsOneOf, OtherTypeStep, WorkerTypeStep, WorkerKeepsTypes

LEMMA TypesHold == Spec => []TypeInv
<1>1. TypeInv => TypeInv
  OBVIOUS
<1> QED BY TypeInit, TypeStep, PTL DEF Spec

\* Every variable keeps its type, for any number of uploads, pages and workers
\* (upload, ingestion): in particular no job is tried more than
\* maxIngestionAttempts times, with any number of workers at it, and no worker
\* goes beyond the last page.
THEOREM TypeCorrect == Spec => []TypeOK
BY TypesHold, PTL DEF TypeInv

-----------------------------------------------------------------------------
(* Storage.                                                                *)

\* What the steps that are not a worker's come to: the write of an upload's
\* rows, a step that leaves the tables alone, or a request about a document.
WritesAndEnds(u) ==
    /\ Writes(u) /\ UNCHANGED <<images, objects, target, prev>>
    /\ \/ Goto(u, "stored", "over") /\ UNCHANGED <<unsure, faults>>
       \/ Goto(u, "stored", "discard") /\ unsure' = unsure \cup {u} /\ Fault

LeavesTables == UNCHANGED <<rowVars, jobVars, pageVars, torn>>

Requests(r) == ArchiveDocument(r) \/ UnarchiveDocument(r) \/ DeleteDocument(r)

LEMMA OtherKinds ==
    ASSUME OtherStep
    PROVE  \/ \E u \in Uploads : WritesAndEnds(u)
           \/ LeavesTables
           \/ \E r \in Uploads : Requests(r)
<1>1. ASSUME NEW u \in Uploads, Lookup(u) \/ PutObject(u) \/ CommitRefused(u) \/ DeleteObject(u)
                                \/ UploadDies(u)
      PROVE  LeavesTables
  BY <1>1 DEF LeavesTables, Lookup, PutObject, CommitRefused, DeleteObject, UploadDies, history
<1>2. ASSUME NEW u \in Uploads, Commit(u) PROVE WritesAndEnds(u)
  BY <1>2 DEF Commit, WritesAndEnds, Writes
<1>3. ASSUME NEW u \in Uploads, CommitFails(u) PROVE LeavesTables \/ WritesAndEnds(u)
  BY <1>3 DEF CommitFails, LeavesTables, WritesAndEnds, Writes, pageVars, StorageKey
<1>4. ASSUME NEW c \in Caps, ChangePlan(c) PROVE LeavesTables
  BY <1>4 DEF ChangePlan, LeavesTables, history
<1> QED BY <1>1, <1>2, <1>3, <1>4 DEF OtherStep, Upload, Requests

LEMMA RowsOfStep ==
    ASSUME TypeInv, [Next]_vars
    PROVE  \/ Rows' = Rows /\ deleted \subseteq deleted'
           \/ \E u \in Uploads : WritesAndEnds(u) /\ Rows' = Rows \cup {u} /\ deleted' = deleted
<1>0. RowTypes
  BY TypeParts DEF TypeInv
<1>1. CASE UNCHANGED vars \/ LeavesTables
  BY <1>1 DEF LeavesTables, vars, rowVars, Rows
<1>2. ASSUME NEW w \in Workers, WorkerStep(w) PROVE Rows' = Rows /\ deleted' = deleted
  BY <1>2, WorkerTypeStep DEF WorkerLeaves, WorkerSpares, Rows
<1>3. ASSUME NEW u \in Uploads, WritesAndEnds(u) PROVE Rows' = Rows \cup {u} /\ deleted' = deleted
  <2>1. at[u] = "stored" /\ Writes(u)
    BY <1>3 DEF WritesAndEnds, Goto
  <2> QED BY <2>1, RowsWritten
<1>4. ASSUME NEW r \in Uploads, Requests(r) PROVE Rows' = Rows /\ deleted \subseteq deleted'
  BY <1>0, <1>4 DEF Requests, ArchiveDocument, UnarchiveDocument, DeleteDocument, CanArchive, Rows,
                    RowTypes
<1> QED BY <1>1, <1>2, <1>3, <1>4, NextIsOneOf, OtherKinds

\* workspace/quota.go: with any number of uploads past the preflight and any
\* changes of the plan between, an upload takes the workspace to its cap of that
\* moment at most.
THEOREM StorageStaysWithinQuota == Spec => StorageWithinQuota
<1>1. ASSUME TypeInv, [Next]_vars, Used' > Used PROVE cap = 0 \/ Used' <= cap
  <2>0. Rows \ deleted \in SUBSET Uploads /\ (Rows \ deleted)' \in SUBSET Uploads
    BY DEF Rows
  <2>1. Used \in Nat /\ Used' \in Nat
    BY <2>0, UploadsFinite DEF Used
  <2>2. CASE Rows' = Rows /\ deleted \subseteq deleted'
    <3>1. Rows' \ deleted' \subseteq Rows \ deleted
      BY <2>2
    <3>2. Cardinality(Rows' \ deleted') <= Cardinality(Rows \ deleted)
      BY <2>0, <3>1, UploadsFinite, FS_Subset
    <3> QED BY <1>1, <2>1, <3>2 DEF Used
  <2>3. ASSUME NEW u \in Uploads, WritesAndEnds(u), Rows' = Rows \cup {u}, deleted' = deleted
        PROVE  cap = 0 \/ Used' <= cap
    <3>1. cap \in Nat
      BY <1>1, TypeParts, ConstantsAssumption DEF TypeInv, RequestTypes
    <3>2. cap = 0 \/ ~(Used + 1 > cap)
      BY <2>3 DEF WritesAndEnds, Writes, WithAddStorageQuota, OverLimit
    <3>3. Rows' \ deleted' \subseteq (Rows \ deleted) \cup {u}
      BY <2>3
    <3>4. Cardinality((Rows \ deleted) \cup {u}) <= Used + 1
      <4>1. IsFiniteSet(Rows \ deleted)
        BY <2>0, UploadsFinite
      <4>2. Cardinality((Rows \ deleted) \cup {u}) = Used
            \/ Cardinality((Rows \ deleted) \cup {u}) = Used + 1
        BY <4>1, FS_AddElement DEF Used
      <4> QED BY <2>1, <4>2
    <3>5. (Rows \ deleted) \cup {u} \in SUBSET Uploads
      BY <2>0
    <3>6. Used' <= Cardinality((Rows \ deleted) \cup {u})
      BY <3>3, <3>5, UploadsFinite, FS_Subset DEF Used
    <3>7. Cardinality((Rows \ deleted) \cup {u}) \in Nat
      BY <3>5, UploadsFinite
    <3> QED BY <2>1, <3>1, <3>2, <3>4, <3>6, <3>7
  <2> QED BY <1>1, <2>2, <2>3, RowsOfStep
<1>2. TypeInv /\ [Next]_vars => [Used' > Used => cap = 0 \/ Used' <= cap]_vars
  BY <1>1
<1> QED BY <1>2, TypesHold, PTL DEF Spec, StorageWithinQuota

-----------------------------------------------------------------------------
(* The bytes of documents and snapshots.  The key of a row, and the one that *)
(* an upload read to put it in a snapshot, is that of an upload which is over *)
(* and left its object behind: nobody deletes that object any more.        *)

GoodKeys == {k \in Uploads : k \in unsure \/ (at[k] = "over" /\ k \in objects)}

RowKeysGood    == \A r \in Rows : key[r] \in GoodKeys
UploadKeysGood == \A u \in Uploads : /\ target[u] # NoUpload => prev[u] \in GoodKeys
                                     /\ at[u] = "stored" => u \in objects

BytesInv == RowKeysGood /\ UploadKeysGood

LEMMA BytesInit == Init => BytesInv
BY DEF Init, BytesInv, RowKeysGood, UploadKeysGood, Rows

LEMMA KeysStayGood ==
    ASSUME TypeInv, [Next]_vars
    PROVE  GoodKeys \subseteq GoodKeys'
<1> SUFFICES ASSUME NEW k \in GoodKeys PROVE k \in GoodKeys'
  OBVIOUS
<1>0. at \in [Uploads -> {"new", "found", "stored", "discard", "over"}]
  BY TypeParts DEF TypeInv, RequestTypes
<1>1. k \in Uploads /\ (k \in unsure \/ (at[k] = "over" /\ k \in objects))
  BY DEF GoodKeys
<1>2. CASE UNCHANGED <<at, objects, unsure>>
  BY <1>1, <1>2 DEF GoodKeys
<1>3. ASSUME NEW w \in Workers, WorkerStep(w) PROVE UNCHANGED <<at, objects, unsure>>
  BY <1>3, WorkerTypeStep DEF WorkerLeaves, WorkerSpares, requestVars, history
<1>4. ASSUME NEW u \in Uploads, Upload(u) \/ CommitFails(u) \/ UploadDies(u) PROVE k \in GoodKeys'
  <2>1. at[u] # "over" /\ unsure \subseteq unsure'
        /\ \E to \in {"found", "stored", "discard", "over"} : at' = [at EXCEPT ![u] = to]
    BY <1>4 DEF Upload, Lookup, PutObject, Commit, CommitRefused, CommitFails, DeleteObject, UploadDies,
                Goto, history
  <2>2. objects \ {u} \subseteq objects'
    BY <1>4 DEF Upload, Lookup, PutObject, Commit, CommitRefused, CommitFails, DeleteObject, UploadDies,
                StorageKey
  <2>3. at[k] = "over" => k # u /\ at'[k] = "over"
    BY <1>0, <1>1, <2>1
  <2> QED BY <1>1, <2>1, <2>2, <2>3 DEF GoodKeys
<1>5. ASSUME NEW c \in Caps, ChangePlan(c) PROVE UNCHANGED <<at, objects, unsure>>
  BY <1>5 DEF ChangePlan, history
<1>6. ASSUME NEW r \in Uploads, Requests(r) PROVE UNCHANGED <<at, objects, unsure>>
  BY <1>6 DEF Requests, ArchiveDocument, UnarchiveDocument, DeleteDocument, history, requestVars
<1>7. CASE UNCHANGED vars
  BY <1>2, <1>7 DEF vars, requestVars, history
<1> QED BY <1>2, <1>3, <1>4, <1>5, <1>6, <1>7, NextIsOneOf DEF OtherStep, Requests

LEMMA BytesStep == TypeInv /\ BytesInv /\ [Next]_vars => BytesInv'
<1> SUFFICES ASSUME TypeInv, BytesInv, [Next]_vars PROVE BytesInv'
  OBVIOUS
<1>0. /\ RowTypes /\ RequestTypes
      /\ at \in [Uploads -> {"new", "found", "stored", "discard", "over"}]
      /\ target \in [Uploads -> Key] /\ prev \in [Uploads -> Key]
  BY TypeParts DEF TypeInv, RequestTypes
\* The rows.
<1>1. ASSUME Rows' \subseteq Rows, UNCHANGED key PROVE RowKeysGood'
  BY <1>1, KeysStayGood DEF BytesInv, RowKeysGood
<1>2. ASSUME NEW u \in Uploads, WritesAndEnds(u) PROVE RowKeysGood'
  <2>1. /\ at[u] = "stored" /\ Writes(u) /\ objects' = objects
        /\ \/ at' = [at EXCEPT ![u] = "over"] /\ unsure' = unsure
           \/ at' = [at EXCEPT ![u] = "discard"] /\ unsure' = unsure \cup {u}
    <3>1. Writes(u) /\ objects' = objects
      BY <1>2 DEF WritesAndEnds
    <3>2. \/ Goto(u, "stored", "over") /\ unsure' = unsure
          \/ Goto(u, "stored", "discard") /\ unsure' = unsure \cup {u}
      BY <1>2 DEF WritesAndEnds
    <3> QED BY <3>1, <3>2 DEF Goto
  <2>2. u \in objects /\ objects' = objects /\ at[u] = "stored" /\ Writes(u)
    BY <2>1 DEF BytesInv, UploadKeysGood
  <2>3. u \in GoodKeys'
    BY <1>0, <2>1, <2>2 DEF GoodKeys
  <2>4. /\ Rows' = Rows \cup {u}
        /\ \A r \in Uploads \ {u} : key'[r] = key[r] \/ key'[r] = u
        /\ key'[u] = u \/ (target[u] # NoUpload /\ key'[u] = prev[u])
    BY <2>2, RowsWritten
  <2>5. target[u] # NoUpload => prev[u] \in GoodKeys'
    BY KeysStayGood DEF BytesInv, UploadKeysGood
  <2>6. key'[u] \in GoodKeys'
    BY <2>3, <2>4, <2>5
  <2>7. ASSUME NEW r \in Rows, r # u PROVE key'[r] \in GoodKeys'
    <3>1. key[r] \in GoodKeys'
      BY KeysStayGood DEF BytesInv, RowKeysGood
    <3>2. r \in Uploads \ {u}
      BY <2>7 DEF Rows
    <3> QED BY <2>3, <2>4, <3>1, <3>2 DEF GoodKeys
  <2> QED BY <2>4, <2>6, <2>7 DEF RowKeysGood
<1>3. ASSUME NEW w \in Workers, WorkerStep(w) PROVE Rows' \subseteq Rows /\ UNCHANGED key
  BY <1>3, WorkerTypeStep DEF WorkerLeaves, WorkerSpares, Rows
<1>4. ASSUME NEW r \in Uploads, Requests(r) PROVE Rows' \subseteq Rows /\ UNCHANGED key
  BY <1>0, <1>4 DEF Requests, ArchiveDocument, UnarchiveDocument, DeleteDocument, CanArchive, Rows,
                    RowTypes
<1>5. RowKeysGood'
  <2>1. CASE UNCHANGED vars \/ LeavesTables
    BY <1>1, <2>1 DEF LeavesTables, vars, rowVars, Rows
  <2> QED BY <1>1, <1>2, <1>3, <1>4, <2>1, NextIsOneOf, OtherKinds
\* The uploads.
<1>6. ASSUME UNCHANGED <<at, target, prev, objects>> PROVE UploadKeysGood'
  BY <1>6, KeysStayGood DEF BytesInv, UploadKeysGood
<1>7. ASSUME NEW u \in Uploads, Upload(u) \/ CommitFails(u) \/ UploadDies(u) PROVE UploadKeysGood'
  <2>1. \A v \in Uploads : target[v] # NoUpload => prev[v] \in GoodKeys'
    BY KeysStayGood DEF BytesInv, UploadKeysGood
  <2>2. CASE Lookup(u)
    <3>1. at' = [at EXCEPT ![u] = "found"] \/ at' = [at EXCEPT ![u] = "over"]
      BY <2>2 DEF Lookup, Goto
    <3>2. objects' = objects
      BY <2>2 DEF Lookup
    <3>3. \/ UNCHANGED <<target, prev>>
          \/ \E r \in Rows : /\ target' = [target EXCEPT ![u] = r]
                             /\ prev' = [prev EXCEPT ![u] = key[r]]
      BY <2>2 DEF Lookup, Titled, Live
    <3>4. \A r \in Rows : key[r] \in GoodKeys'
      BY KeysStayGood DEF BytesInv, RowKeysGood
    <3>5. ASSUME NEW v \in Uploads, target'[v] # NoUpload PROVE prev'[v] \in GoodKeys'
      <4>1. CASE UNCHANGED <<target, prev>>
        BY <2>1, <3>5, <4>1
      <4>2. ASSUME NEW r \in Rows, target' = [target EXCEPT ![u] = r], prev' = [prev EXCEPT ![u] = key[r]]
            PROVE  prev'[v] \in GoodKeys'
        <5>1. CASE v = u
          BY <1>0, <3>4, <4>2, <5>1
        <5>2. CASE v # u
          BY <1>0, <2>1, <3>5, <4>2, <5>2
        <5> QED BY <5>1, <5>2
      <4> QED BY <3>3, <4>1, <4>2
    <3>6. \A v \in Uploads : at'[v] = "stored" => v \in objects'
      BY <1>0, <3>1, <3>2 DEF BytesInv, UploadKeysGood
    <3> QED BY <3>5, <3>6 DEF UploadKeysGood
  <2>3. CASE PutObject(u) \/ Commit(u) \/ CommitRefused(u) \/ CommitFails(u) \/ DeleteObject(u)
             \/ UploadDies(u)
    <3>1. UNCHANGED <<target, prev>>
      BY <2>3 DEF PutObject, Commit, CommitRefused, CommitFails, DeleteObject, UploadDies
    <3>2. objects \ {u} \subseteq objects'
          /\ \/ \E to \in {"discard", "over"} : at' = [at EXCEPT ![u] = to]
             \/ at' = [at EXCEPT ![u] = "stored"] /\ u \in objects'
      BY <2>3 DEF PutObject, Commit, CommitRefused, CommitFails, DeleteObject, UploadDies, Goto, StorageKey
    <3>3. \A v \in Uploads : at'[v] = "stored" => v \in objects'
      BY <1>0, <3>2 DEF BytesInv, UploadKeysGood
    <3> QED BY <2>1, <3>1, <3>3 DEF UploadKeysGood
  <2> QED BY <1>7, <2>2, <2>3 DEF Upload
<1>8. ASSUME NEW w \in Workers, WorkerStep(w) PROVE UNCHANGED <<at, target, prev, objects>>
  BY <1>8, WorkerTypeStep DEF WorkerLeaves, WorkerSpares, requestVars
<1>9. ASSUME NEW c \in Caps, ChangePlan(c) PROVE UNCHANGED <<at, target, prev, objects>>
  BY <1>9 DEF ChangePlan
<1>10. ASSUME NEW r \in Uploads, Requests(r) PROVE UNCHANGED <<at, target, prev, objects>>
  BY <1>10 DEF Requests, ArchiveDocument, UnarchiveDocument, DeleteDocument, requestVars
<1>11. UploadKeysGood'
  <2>1. CASE UNCHANGED vars
    BY <1>6, <2>1 DEF vars, requestVars
  <2> QED BY <1>6, <1>7, <1>8, <1>9, <1>10, <2>1, NextIsOneOf DEF OtherStep, Requests
<1> QED BY <1>5, <1>11 DEF BytesInv

\* upload/service.go: with any number of uploads, replacements and failures the
\* bytes of every document and snapshot stay in the object store, those of a
\* commit that was applied and reported as failed excepted.
THEOREM BytesStayInStore == Spec => []BytesKept
<1>1. BytesInv => BytesKept
  BY DEF BytesInv, RowKeysGood, GoodKeys, BytesKept
<1> QED BY <1>1, BytesInit, BytesStep, TypesHold, PTL DEF Spec

-----------------------------------------------------------------------------
(* The runs of the workers.  What a worker has in hand waits for it or is  *)
(* being processed, so that nothing it has done before is done to a        *)
(* completed document; what it has drawn is drawn from the current file,   *)
(* unless that was replaced during the run.  All of this holds of the      *)
(* documents that one worker at a time has in hand: those not in shared.   *)
(* A document that one worker lists alone is such a document again: it     *)
(* waits, and nobody is at it.                                             *)

Open == {"queued", "processing", "failed"}

InHand(w) ==
    /\ \A r \in batch[w] \ shared : jobStatus[r] \in Open
    /\ cur[w] \in Uploads \ shared => jobStatus[cur[w]] \in Open
    /\ cur[w] \notin batch[w]

Apart == \A v, w \in Workers : v # w => Holds(v) \cap Holds(w) \subseteq shared

FirstPage(w) ==
    step[w] \in {"idle", "batch", "job", "begin", "cleanup", "download"} => page[w] = 1

DrawnPage(r, n, k) == pages[r][n] = k /\ images[r][n] = k

Drawn(w) ==
    cur[w] \in Uploads \ (torn \cup shared) =>
       /\ src[w] = key[cur[w]]
       /\ step[w] \in {"draw", "page"} =>
             \A n \in Page : n < page[w] => DrawnPage(cur[w], n, src[w])
       /\ step[w] = "page" => images[cur[w]][page[w]] = src[w]
       /\ step[w] \in {"ready", "complete"} => \A n \in Page : DrawnPage(cur[w], n, src[w])
       /\ step[w] = "complete" => status[cur[w]] # "uploaded"

Completed ==
    \A r \in Uploads \ (torn \cup shared) :
        jobStatus[r] = "completed" => \A n \in Page : DrawnPage(r, n, key[r])

IsAt(r, s) == \E w \in Workers : cur[w] = r /\ step[w] = s

\* From its first write to its last.
Writing == {"cleanup", "download", "draw", "page", "ready", "complete", "failjob", "faildoc"}

\* The jobs that are listed.
Listable(r) ==
    \/ jobStatus[r] \in {"queued", "processing"}
    \/ jobStatus[r] = "failed" /\ attempts[r] < maxIngestionAttempts

Waiting ==
    \A r \in Uploads \ (torn \cup shared) : status[r] = "uploaded" =>
        \/ Listable(r)
        \/ IsAt(r, "faildoc")
        \/ faults > 0 /\ jobStatus[r] = "failed"

Unfinished ==
    faults = 0 =>
        \A r \in Uploads \ shared :
            jobStatus[r] \in Open /\ ~IsAt(r, "complete") => status[r] \in {"uploaded", "failed"}

\* Without faults an open job has a document that shows it, or a run that will
\* show it; this holds of the shared documents too.
Attended ==
    faults = 0 =>
        \A r \in Uploads : jobStatus[r] \in Open =>
            status[r] \in {"uploaded", "failed"} \/ \E s \in Writing : IsAt(r, s)

HandInv == Apart /\ \A w \in Workers : InHand(w) /\ FirstPage(w)
DrawInv == (\A w \in Workers : Drawn(w)) /\ Completed
RunInv  == HandInv /\ DrawInv /\ Waiting /\ Unfinished /\ Attended

LEMMA RunInit == Init => RunInv
<1> SUFFICES ASSUME Init PROVE RunInv
  OBVIOUS
<1>1. \A w \in Workers : cur[w] \notin Uploads /\ batch[w] = {} /\ page[w] = 1
  BY ConstantsAssumption DEF Init
<1>2. \A r \in Uploads : status[r] = "none" /\ jobStatus[r] = "none"
  BY DEF Init
<1>3. HandInv
  BY <1>1 DEF HandInv, InHand, FirstPage, Apart, Holds
<1>4. DrawInv
  BY <1>1, <1>2 DEF DrawInv, Drawn, Completed
<1>5. Waiting /\ Unfinished /\ Attended
  BY <1>2 DEF Waiting, Unfinished, Attended, Open
<1> QED BY <1>3, <1>4, <1>5 DEF RunInv

LEMMA FaultsGrow ==
    ASSUME TypeInv, [Next]_vars
    PROVE  (faults' = 0 => faults = 0) /\ (faults > 0 => faults' > 0)
<1>1. faults \in Nat
  BY TypeParts DEF TypeInv, OtherTypes
<1>2. faults' = faults \/ faults' = faults + 1
  <2>1. ASSUME NEW u \in Uploads, Upload(u) \/ CommitFails(u) \/ UploadDies(u)
        PROVE  faults' = faults \/ faults' = faults + 1
    BY <2>1 DEF Upload, Lookup, PutObject, Commit, CommitRefused, CommitFails, DeleteObject, UploadDies,
                Fault
  <2>2. ASSUME NEW c \in Caps, ChangePlan(c) PROVE faults' = faults
    BY <2>2 DEF ChangePlan
  <2>3. ASSUME NEW r \in Uploads, Requests(r) PROVE faults' = faults
    BY <2>3 DEF Requests, ArchiveDocument, UnarchiveDocument, DeleteDocument
  <2>4. ASSUME NEW w \in Workers, WorkerStep(w) PROVE faults' = faults \/ faults' = faults + 1
    BY <2>4 DEF WorkerStep, Work, ListPending, LoadDocument, GetJob, Begin, Cleanup, Download, DrawPage,
                CreatePage, MarkReady, CompleteJob, FailJob, FailDocument, RunFails, CallFails, Crash,
                Fault
  <2>5. CASE UNCHANGED vars
    BY <2>5 DEF vars
  <2> QED BY <2>1, <2>2, <2>3, <2>4, <2>5, NextIsOneOf DEF OtherStep, Requests
<1> QED BY <1>1, <1>2

-----------------------------------------------------------------------------
(* The steps of a worker.                                                  *)

\* It goes on with the document it is at, or it is done with it.
MovesOn(w, from, to) ==
    /\ step[w] = from /\ step'[w] = to
    /\ cur'[w] = cur[w] /\ src'[w] = src[w] /\ batch'[w] = batch[w]
    /\ cur[w] \in Uploads

Finishes(w) ==
    /\ step'[w] \in {"idle", "batch"} /\ cur'[w] = NoUpload /\ page'[w] = 1
    /\ batch'[w] \subseteq batch[w]

\* The rows of every document but r, and of r too.
KeepsJob(r)    == jobStatus'[r] = jobStatus[r] /\ attempts'[r] = attempts[r]
KeepsStatus(r) == status'[r] = status[r]
KeepsDrawn(r)  == pages'[r] = pages[r] /\ images'[r] = images[r]
KeepsAll(r)    == KeepsJob(r) /\ KeepsStatus(r) /\ KeepsDrawn(r)

LEMMA GoMoves ==
    ASSUME TypeInv, NEW w \in Workers, NEW from \in Steps \ {"idle", "batch"}, NEW to, Go(w, from, to)
    PROVE  MovesOn(w, from, to)
<1>1. WorkerTypes
  BY TypeParts DEF TypeInv
<1>2. step[w] = from /\ step' = [step EXCEPT ![w] = to] /\ UNCHANGED <<cur, src, batch>>
  BY DEF Go
<1>3. cur[w] \in Uploads
  BY <1>2, AtDocument
<1> QED BY <1>1, <1>2, <1>3 DEF MovesOn, WorkerTypes

LEMMA LeaveFinishes ==
    ASSUME TypeInv, NEW w \in Workers, NEW from, Leave(w, from)
    PROVE  Finishes(w) /\ step[w] = from /\ UNCHANGED pageVars
<1>1. WorkerTypes
  BY TypeParts DEF TypeInv
<1>2. /\ step' = [step EXCEPT ![w] = IF batch[w] = {} THEN "idle" ELSE "batch"]
      /\ cur' = [cur EXCEPT ![w] = NoUpload] /\ page' = [page EXCEPT ![w] = 1]
      /\ batch' = batch /\ step[w] = from /\ UNCHANGED pageVars
  BY DEF Leave
<1>3. step'[w] \in {"idle", "batch"}
  BY <1>1, <1>2 DEF WorkerTypes
<1> QED BY <1>1, <1>2, <1>3 DEF Finishes, WorkerTypes

\* What each step of the worker does to the tables, and to itself.
Lists(w) ==
    /\ step[w] = "idle" /\ step'[w] = "batch"
    /\ UNCHANGED <<cur[w], page[w]>>
    /\ \A r \in batch'[w] : r \in Uploads /\ Listable(r)
    /\ batch'[w] \cap HeldByOthers(w) \subseteq shared'
    /\ (shared \ shared') \cup (torn \ torn') \subseteq batch'[w] \ HeldByOthers(w)

Loads(w) ==
    /\ step[w] = "batch" /\ UNCHANGED page[w]
    /\ \/ Finishes(w)
       \/ \E r \in batch[w] : /\ step'[w] = "job" /\ cur'[w] = r /\ src'[w] = key[r]
                              /\ batch'[w] = batch[w] \ {r}

LEMMA ListsAndLoads ==
    ASSUME TypeInv, HandInv, NEW w \in Workers, NEW stale \in SUBSET Processing,
           ListPending(w, stale) \/ LoadDocument(w)
    PROVE  /\ (Lists(w) \/ Loads(w)) /\ cur[w] = NoUpload /\ \A r \in Uploads : KeepsAll(r)
           /\ ListPending(w, stale) => Lists(w)
<1>0. WorkerTypes
  BY TypeParts DEF TypeInv
<1>1. UNCHANGED <<status, jobVars, pageVars, page>>
  BY DEF ListPending, LoadDocument, rowVars
<1>2. \A r \in Uploads : KeepsAll(r)
  BY <1>1 DEF KeepsAll, KeepsJob, KeepsStatus, KeepsDrawn, jobVars, pageVars
<1>3. step[w] \in {"idle", "batch"} /\ cur[w] = NoUpload
  BY DEF ListPending, LoadDocument, TypeInv, Runs
<1>4. ASSUME ListPending(w, stale) PROVE Lists(w)
  <2>1. \A r \in Due(stale) : r \in Uploads /\ Listable(r)
    BY DEF Due, Retriable, Processing, Listable
  <2> DEFINE S == Listed(Due(stale))
  <2>2. S \subseteq Due(stale)
    BY DEF Listed
  <2>3. /\ step[w] = "idle" /\ step' = [step EXCEPT ![w] = "batch"]
        /\ batch' = [batch EXCEPT ![w] = S] /\ UNCHANGED <<cur, page>>
        /\ shared' = (shared \ S) \cup (S \cap HeldByOthers(w))
        /\ torn' = torn \ (S \ HeldByOthers(w))
    BY <1>4 DEF ListPending
  <2> HIDE DEF S
  <2> QED BY <1>0, <2>1, <2>2, <2>3 DEF Lists, WorkerTypes
<1>5. ASSUME LoadDocument(w) PROVE Loads(w)
  <2>1. PICK r \in batch[w] :
          /\ batch' = [batch EXCEPT ![w] = @ \ {r}]
          /\ \/ /\ step' = [step EXCEPT ![w] = "job"]
                /\ cur' = [cur EXCEPT ![w] = r]
                /\ src' = [src EXCEPT ![w] = key[r]]
             \/ /\ step' = [step EXCEPT ![w] = IF batch[w] = {r} THEN "idle" ELSE "batch"]
                /\ UNCHANGED cur
    BY <1>5 DEF LoadDocument
  <2>2. step[w] = "batch" /\ page[w] = 1
    BY <1>5 DEF LoadDocument, HandInv, FirstPage
  <2>3. batch'[w] = batch[w] \ {r} /\ page'[w] = page[w]
    BY <1>0, <1>1, <2>1 DEF WorkerTypes
  <2>4. CASE step' = [step EXCEPT ![w] = "job"] /\ cur' = [cur EXCEPT ![w] = r]
             /\ src' = [src EXCEPT ![w] = key[r]]
    BY <1>0, <2>2, <2>3, <2>4 DEF Loads, WorkerTypes
  <2>5. CASE step' = [step EXCEPT ![w] = IF batch[w] = {r} THEN "idle" ELSE "batch"] /\ UNCHANGED cur
    <3>1. step'[w] \in {"idle", "batch"}
      BY <1>0, <2>5 DEF WorkerTypes
    <3> QED BY <1>3, <2>2, <2>3, <2>5, <3>1 DEF Loads, Finishes
  <2> QED BY <2>1, <2>4, <2>5
<1> QED BY <1>2, <1>3, <1>4, <1>5

\* The steps of a run, c being the document.
Reads(w, c) ==
    /\ KeepsAll(c) /\ page'[w] = page[w]
    /\ \/ \E to \in {"begin", "giveup"} : MovesOn(w, "job", to)
       \/ MovesOn(w, "download", "draw")
       \/ \E from \in {"cleanup", "download", "draw", "page", "ready", "failjob", "giveup"},
             to \in {"failjob", "faildoc"} : MovesOn(w, from, to)

Begins(w, c) ==
    /\ MovesOn(w, "begin", "cleanup") /\ page'[w] = page[w]
    /\ jobStatus'[c] = "processing" /\ KeepsStatus(c) /\ KeepsDrawn(c)

Clears(w, c) ==
    /\ MovesOn(w, "cleanup", "download") /\ page'[w] = page[w]
    /\ KeepsJob(c) /\ KeepsStatus(c)

Draws(w, c) ==
    /\ MovesOn(w, "draw", "page") /\ page'[w] = page[w]
    /\ KeepsJob(c) /\ KeepsStatus(c) /\ pages'[c] = pages[c]
    /\ \A n \in Page : images'[c][n] = IF n = page[w] THEN src[w] ELSE images[c][n]

Creates(w, c) ==
    /\ \/ MovesOn(w, "page", "ready") /\ page[w] = NumPages
       \/ MovesOn(w, "page", "draw") /\ page'[w] = page[w] + 1
    /\ KeepsJob(c) /\ KeepsStatus(c) /\ images'[c] = images[c]
    /\ \A n \in Page : pages'[c][n] = IF n = page[w] THEN src[w] ELSE pages[c][n]

Readies(w, c) ==
    /\ MovesOn(w, "ready", "complete")
    /\ status'[c] = "ready" /\ KeepsJob(c) /\ KeepsDrawn(c)

Completes(w, c) ==
    /\ step[w] = "complete" /\ Finishes(w)
    /\ jobStatus'[c] = "completed" /\ KeepsStatus(c) /\ KeepsDrawn(c)

Fails(w, c) ==
    /\ \E from \in {"failjob", "giveup"} : MovesOn(w, from, "faildoc")
    /\ jobStatus'[c] = "failed" /\ KeepsStatus(c) /\ KeepsDrawn(c)

FailsDocument(w, c) ==
    /\ step[w] = "faildoc" /\ Finishes(w)
    /\ status'[c] = "failed" /\ KeepsJob(c) /\ KeepsDrawn(c)

Breaks(w, c) == Finishes(w) /\ Fault /\ KeepsAll(c)

RunStep(w, c) ==
    /\ c \in Uploads /\ step[w] \notin {"idle", "batch"}
    /\ \/ Reads(w, c) \/ Begins(w, c) \/ Clears(w, c) \/ Draws(w, c) \/ Creates(w, c)
       \/ Readies(w, c) \/ Completes(w, c) \/ Fails(w, c) \/ FailsDocument(w, c)
       \/ Breaks(w, c)

LEMMA WorkerEffects ==
    ASSUME TypeInv, HandInv, NEW w \in Workers, WorkerStep(w)
    PROVE  /\ \A r \in Uploads : r # cur[w] => KeepsAll(r)
           /\ \/ (Lists(w) \/ Loads(w)) /\ cur[w] = NoUpload
              \/ RunStep(w, cur[w])
              \/ Finishes(w) /\ Fault /\ cur[w] = NoUpload
<1>0. RowTypes /\ JobTypes /\ PageTypes /\ WorkerTypes
  BY TypeParts DEF TypeInv
<1> DEFINE c == cur[w]
           Others == \A r \in Uploads : r # c => KeepsAll(r)
<1>k. ASSUME UNCHANGED <<status, jobVars>> PROVE \A r \in Uploads : KeepsJob(r) /\ KeepsStatus(r)
  BY <1>k DEF KeepsJob, KeepsStatus, jobVars
<1>d. ASSUME UNCHANGED pageVars PROVE \A r \in Uploads : KeepsDrawn(r)
  BY <1>d DEF KeepsDrawn, pageVars
<1>j. ASSUME NEW s, NEW n, UpdateJob(w, s, n), c \in Uploads
      PROVE  jobStatus'[c] = s /\ \A r \in Uploads : r # c => KeepsJob(r)
  BY <1>0, <1>j DEF UpdateJob, KeepsJob, JobTypes
<1>s. ASSUME NEW s, status' = [status EXCEPT ![c] = s], c \in Uploads
      PROVE  status'[c] = s /\ \A r \in Uploads : r # c => KeepsStatus(r)
  BY <1>0, <1>s DEF KeepsStatus, RowTypes
<1>m. ASSUME NEW from \in Steps \ {"idle", "batch"}, NEW to, Go(w, from, to)
      PROVE  MovesOn(w, from, to) /\ c \in Uploads /\ step[w] \notin {"idle", "batch"}
  BY <1>m, GoMoves DEF MovesOn
<1>l. ASSUME NEW from \in Steps \ {"idle", "batch"}, Leave(w, from)
      PROVE  Finishes(w) /\ step[w] = from /\ UNCHANGED pageVars /\ c \in Uploads
  BY <1>l, LeaveFinishes, AtDocument
<1>p. page' = page => page'[w] = page[w]
  OBVIOUS
<1>a. ASSUME UNCHANGED <<status, jobVars, pageVars>>
      PROVE  Others /\ (c \in Uploads => KeepsAll(c))
  BY <1>a, <1>k, <1>d DEF KeepsAll
<1>1. ASSUME NEW stale \in SUBSET Processing, ListPending(w, stale) \/ LoadDocument(w)
      PROVE  Others /\ (Lists(w) \/ Loads(w)) /\ cur[w] = NoUpload
  BY <1>1, ListsAndLoads
<1>2. CASE GetJob(w)
  <2>1. UNCHANGED <<status, jobVars, pageVars, page>>
    BY <1>2 DEF GetJob
  <2>2. \E to \in {"begin", "giveup"} : Go(w, "job", to)
    BY <1>2 DEF GetJob
  <2>3. /\ \E to \in {"begin", "giveup"} : MovesOn(w, "job", to)
        /\ c \in Uploads /\ step[w] \notin {"idle", "batch"}
    BY <1>m, <2>2 DEF Steps
  <2> QED BY <1>a, <1>p, <2>1, <2>3 DEF RunStep, Reads
<1>3. CASE Begin(w)
  <2>1. UNCHANGED <<status, pageVars, page>> /\ Go(w, "begin", "cleanup")
        /\ UpdateJob(w, "processing", tries[w] + 1)
    BY <1>3 DEF Begin
  <2>2. MovesOn(w, "begin", "cleanup") /\ c \in Uploads /\ step[w] \notin {"idle", "batch"}
    BY <1>m, <2>1 DEF Steps
  <2>3. jobStatus'[c] = "processing" /\ \A r \in Uploads : r # c => KeepsJob(r)
    BY <1>j, <2>1, <2>2
  <2>4. \A r \in Uploads : KeepsStatus(r) /\ KeepsDrawn(r)
    BY <1>d, <2>1 DEF KeepsStatus
  <2> QED BY <1>p, <2>1, <2>2, <2>3, <2>4 DEF RunStep, Begins, KeepsAll
<1>4. CASE Cleanup(w)
  <2>1. UNCHANGED <<status, jobVars, page, images>> /\ Go(w, "cleanup", "download")
        /\ pages' = [pages EXCEPT ![c] = Blank]
    BY <1>4 DEF Cleanup
  <2>2. MovesOn(w, "cleanup", "download") /\ c \in Uploads /\ step[w] \notin {"idle", "batch"}
    BY <1>m, <2>1 DEF Steps
  <2>3. \A r \in Uploads : r # c => KeepsDrawn(r)
    BY <1>0, <2>1, <2>2 DEF KeepsDrawn, PageTypes
  <2> QED BY <1>k, <1>p, <2>1, <2>2, <2>3 DEF RunStep, Clears, KeepsAll
<1>5. CASE Download(w)
  <2>1. UNCHANGED <<status, jobVars, pageVars, page>>
        /\ (Go(w, "download", "draw") \/ Go(w, "download", "failjob"))
    BY <1>5 DEF Download
  <2>2. (MovesOn(w, "download", "draw") \/ MovesOn(w, "download", "failjob"))
        /\ c \in Uploads /\ step[w] \notin {"idle", "batch"}
    BY <1>m, <2>1 DEF Steps
  <2> QED BY <1>a, <1>p, <2>1, <2>2 DEF RunStep, Reads
<1>6. CASE DrawPage(w)
  <2>1. UNCHANGED <<status, jobVars, page, pages>> /\ Go(w, "draw", "page")
        /\ images' = [images EXCEPT ![c] = [images[c] EXCEPT ![page[w]] = src[w]]]
    BY <1>6 DEF DrawPage
  <2>2. MovesOn(w, "draw", "page") /\ c \in Uploads /\ step[w] \notin {"idle", "batch"}
    BY <1>m, <2>1 DEF Steps
  <2>3. images[c] \in [Page -> Key]
    BY <1>0, <2>2 DEF PageTypes
  <2>4. images'[c] = [images[c] EXCEPT ![page[w]] = src[w]]
        /\ \A r \in Uploads : r # c => KeepsDrawn(r)
    BY <1>0, <2>1, <2>2 DEF KeepsDrawn, PageTypes
  <2>5. \A n \in Page : images'[c][n] = IF n = page[w] THEN src[w] ELSE images[c][n]
    BY <2>3, <2>4
  <2> QED BY <1>k, <1>p, <2>1, <2>2, <2>4, <2>5 DEF RunStep, Draws, KeepsAll
<1>7. CASE CreatePage(w)
  <2>1. UNCHANGED <<status, jobVars, images>> /\ step[w] = "page"
    BY <1>7 DEF CreatePage
  <2>2. c \in Uploads /\ step[w] \notin {"idle", "batch"}
    BY <2>1, AtDocument
  <2>3. CASE Go(w, "page", "failjob") /\ UNCHANGED <<pages, page>>
    <3>1. MovesOn(w, "page", "failjob")
      BY <1>m, <2>3 DEF Steps
    <3>2. UNCHANGED pageVars
      BY <2>1, <2>3 DEF pageVars
    <3> QED BY <1>a, <1>p, <2>1, <2>2, <2>3, <3>1, <3>2 DEF RunStep, Reads
  <2>4. CASE /\ pages' = [pages EXCEPT ![c] = [pages[c] EXCEPT ![page[w]] = src[w]]]
             /\ \/ LastPage(page[w]) /\ Go(w, "page", "ready") /\ UNCHANGED page
                \/ ~LastPage(page[w]) /\ Go(w, "page", "draw")
                   /\ page' = [page EXCEPT ![w] = page[w] + 1]
    <3>1. \/ MovesOn(w, "page", "ready") /\ page[w] = NumPages
          \/ MovesOn(w, "page", "draw") /\ page'[w] = page[w] + 1
      BY <1>0, <1>m, <2>4 DEF Steps, WorkerTypes, LastPage
    <3>2. pages[c] \in [Page -> Key]
      BY <1>0, <2>2 DEF PageTypes
    <3>3. pages'[c] = [pages[c] EXCEPT ![page[w]] = src[w]]
          /\ \A r \in Uploads : r # c => KeepsDrawn(r)
      BY <1>0, <2>1, <2>2, <2>4 DEF KeepsDrawn, PageTypes
    <3>4. \A n \in Page : pages'[c][n] = IF n = page[w] THEN src[w] ELSE pages[c][n]
      BY <3>2, <3>3
    <3> QED BY <1>k, <2>1, <2>2, <3>1, <3>3, <3>4 DEF RunStep, Creates, KeepsAll
  <2> QED BY <1>7, <2>3, <2>4 DEF CreatePage
<1>8. CASE MarkReady(w)
  <2>1. UNCHANGED <<jobVars, pageVars>> /\ Go(w, "ready", "complete")
        /\ status' = [status EXCEPT ![c] = "ready"]
    BY <1>8 DEF MarkReady
  <2>2. MovesOn(w, "ready", "complete") /\ c \in Uploads /\ step[w] \notin {"idle", "batch"}
    BY <1>m, <2>1 DEF Steps
  <2>3. status'[c] = "ready" /\ \A r \in Uploads : r # c => KeepsStatus(r)
    BY <1>s, <2>1, <2>2
  <2>4. \A r \in Uploads : KeepsJob(r) /\ KeepsDrawn(r)
    BY <1>d, <2>1 DEF KeepsJob, jobVars
  <2> QED BY <2>2, <2>3, <2>4 DEF RunStep, Readies, KeepsAll
<1>9. CASE CompleteJob(w)
  <2>1. UNCHANGED status /\ Leave(w, "complete") /\ UpdateJob(w, "completed", tries[w] + 1)
    BY <1>9 DEF CompleteJob
  <2>2. Finishes(w) /\ step[w] = "complete" /\ UNCHANGED pageVars /\ c \in Uploads
    BY <1>l, <2>1 DEF Steps
  <2>3. jobStatus'[c] = "completed" /\ \A r \in Uploads : r # c => KeepsJob(r)
    BY <1>j, <2>1, <2>2
  <2>4. \A r \in Uploads : KeepsStatus(r) /\ KeepsDrawn(r)
    BY <1>d, <2>1, <2>2 DEF KeepsStatus
  <2> QED BY <2>2, <2>3, <2>4 DEF RunStep, Completes, KeepsAll
<1>10. CASE RunFails(w)
  <2>1. UNCHANGED <<status, jobVars, pageVars, page>>
        /\ \E from \in {"cleanup", "download", "draw", "page", "ready"} : Go(w, from, "failjob")
    BY <1>10 DEF RunFails
  <2>2. PICK from \in {"cleanup", "download", "draw", "page", "ready"} : Go(w, from, "failjob")
    BY <2>1
  <2>3. MovesOn(w, from, "failjob") /\ c \in Uploads /\ step[w] \notin {"idle", "batch"}
    BY <1>m, <2>2 DEF Steps
  <2> QED BY <1>a, <1>p, <2>1, <2>3 DEF RunStep, Reads
<1>11. CASE FailJob(w)
  <2>1. PICK from \in {"failjob", "giveup"}, n \in {tries[w], tries[w] + 1} :
           Go(w, from, "faildoc") /\ UpdateJob(w, "failed", n)
    BY <1>11 DEF FailJob
  <2>2. UNCHANGED <<status, pageVars>>
    BY <1>11 DEF FailJob
  <2>3. MovesOn(w, from, "faildoc") /\ c \in Uploads /\ step[w] \notin {"idle", "batch"}
    BY <1>m, <2>1 DEF Steps
  <2>4. jobStatus'[c] = "failed" /\ \A r \in Uploads : r # c => KeepsJob(r)
    BY <1>j, <2>1, <2>3
  <2>5. \A r \in Uploads : KeepsStatus(r) /\ KeepsDrawn(r)
    BY <1>d, <2>2 DEF KeepsStatus
  <2> QED BY <2>3, <2>4, <2>5 DEF RunStep, Fails, KeepsAll
<1>12. CASE FailDocument(w)
  <2>1. UNCHANGED jobVars /\ Leave(w, "faildoc") /\ status' = [status EXCEPT ![c] = "failed"]
    BY <1>12 DEF FailDocument
  <2>2. Finishes(w) /\ step[w] = "faildoc" /\ UNCHANGED pageVars /\ c \in Uploads
    BY <1>l, <2>1 DEF Steps
  <2>3. status'[c] = "failed" /\ \A r \in Uploads : r # c => KeepsStatus(r)
    BY <1>s, <2>1, <2>2
  <2>4. \A r \in Uploads : KeepsJob(r) /\ KeepsDrawn(r)
    BY <1>d, <2>1, <2>2 DEF KeepsJob, jobVars
  <2> QED BY <2>2, <2>3, <2>4 DEF RunStep, FailsDocument, KeepsAll
<1>13. CASE CallFails(w)
  <2>1. Fault /\ UNCHANGED <<status, jobVars>>
    BY <1>13 DEF CallFails
  <2>2. CASE UNCHANGED <<pageVars, tries, page>> /\ \E from \in {"failjob", "giveup"} : Go(w, from, "faildoc")
    <3>1. PICK from \in {"failjob", "giveup"} : Go(w, from, "faildoc")
      BY <2>2
    <3>2. MovesOn(w, from, "faildoc") /\ c \in Uploads /\ step[w] \notin {"idle", "batch"}
      BY <1>m, <3>1 DEF Steps
    <3> QED BY <1>a, <1>p, <2>1, <2>2, <3>2 DEF RunStep, Reads
  <2>3. CASE \E from \in {"job", "begin", "complete", "faildoc"} : Leave(w, from)
    <3>1. PICK from \in {"job", "begin", "complete", "faildoc"} : Leave(w, from)
      BY <2>3
    <3>2. Finishes(w) /\ step[w] = from /\ UNCHANGED pageVars /\ c \in Uploads
      BY <1>l, <3>1 DEF Steps
    <3> QED BY <1>a, <2>1, <3>2 DEF RunStep, Breaks
  <2> QED BY <1>13, <2>2, <2>3 DEF CallFails
<1>14. CASE Crash(w)
  <2>1. Fault /\ UNCHANGED <<status, jobVars, pageVars>>
    BY <1>14 DEF Crash, rowVars
  <2>2. Finishes(w)
    BY <1>0, <1>14 DEF Crash, Finishes, WorkerTypes
  <2>3. (c \in Uploads /\ step[w] \notin {"idle", "batch"}) \/ c = NoUpload
    BY AtDocument DEF TypeInv, Runs
  <2> QED BY <1>a, <2>1, <2>2, <2>3 DEF RunStep, Breaks
<1> QED BY <1>1, <1>2, <1>3, <1>4, <1>5, <1>6, <1>7, <1>8, <1>9, <1>10, <1>11, <1>12, <1>13, <1>14
        DEF WorkerStep, Work

\* What a step of a worker leaves alone: the others, the documents it has not in
\* hand, and what is shared or torn unless it lists that alone.
Restarts(w, r) ==
    /\ Lists(w) /\ cur[w] = NoUpload /\ Listable(r) /\ KeepsAll(r)
    /\ \A v \in Workers : cur[v] # r /\ cur'[v] # r
    /\ \A v \in Workers \ {w} : r \notin batch[v]

LEMMA HistoryOfWorker ==
    ASSUME TypeInv, HandInv, NEW w \in Workers, WorkerStep(w)
    PROVE  (Lists(w) /\ cur[w] = NoUpload) \/ UNCHANGED <<torn, shared>>
<1>1. ASSUME NEW stale \in SUBSET Processing, ListPending(w, stale) PROVE Lists(w) /\ cur[w] = NoUpload
  BY <1>1, ListsAndLoads
<1>2. Processing \in SUBSET Processing
  OBVIOUS
<1>3. CASE ~\E stale \in SUBSET Processing : ListPending(w, stale)
  BY <1>2, <1>3
     DEF WorkerStep, Work, LoadDocument, GetJob, Begin, Cleanup, Download, DrawPage, CreatePage,
         MarkReady, CompleteJob, FailJob, FailDocument, RunFails, CallFails, Crash, Go, Leave, history
<1> QED BY <1>1, <1>3

OthersStay(w) ==
    \A v \in Workers \ {w} :
        UNCHANGED <<step[v], batch[v], cur[v], src[v], page[v]>>

LEMMA WorkerStaysApart ==
    ASSUME TypeInv, HandInv, NEW w \in Workers, WorkerStep(w)
    PROVE  /\ OthersStay(w) /\ Apart' /\ torn' \subseteq torn
           /\ \A r \in (shared \ shared') \cup (torn \ torn') : Restarts(w, r)
           /\ \A v \in Workers \ {w} : \A r \in Holds(v) \ shared' : r # cur[w] /\ KeepsAll(r)
<1>0. WorkerTypes /\ Apart
  BY TypeParts DEF TypeInv, HandInv
<1>1. /\ step' = [step EXCEPT ![w] = step'[w]] /\ batch' = [batch EXCEPT ![w] = batch'[w]]
      /\ cur' = [cur EXCEPT ![w] = cur'[w]] /\ src' = [src EXCEPT ![w] = src'[w]]
      /\ page' = [page EXCEPT ![w] = page'[w]]
  <2>1. ASSUME NEW f, NEW D, NEW R, f \in [D -> R], NEW d \in D, NEW e
        PROVE  f = [f EXCEPT ![d] = f[d]] /\ [f EXCEPT ![d] = e] = [f EXCEPT ![d] = [f EXCEPT ![d] = e][d]]
    BY <2>1
  <2> QED
    BY <1>0 DEF WorkerStep, Work, ListPending, LoadDocument, GetJob, Begin, Cleanup, Download, DrawPage,
                CreatePage, MarkReady, CompleteJob, FailJob, FailDocument, RunFails, CallFails, Crash,
                Go, Leave, WorkerTypes
<1>2. OthersStay(w)
  BY <1>0, <1>1 DEF OthersStay, WorkerTypes
<1>3. torn' \subseteq torn /\ shared \in SUBSET Uploads /\ torn \in SUBSET Uploads
  BY WorkerTypeStep, TypeParts DEF WorkerLeaves, WorkerSpares, TypeInv, OtherTypes
<1>4. \A v \in Workers \ {w} : Holds(v)' = Holds(v)
  BY <1>2 DEF OthersStay, Holds
<1>8. ASSUME NEW r \in (shared \ shared') \cup (torn \ torn') PROVE Restarts(w, r)
  <2>1. Lists(w) /\ cur[w] = NoUpload
    BY <1>8, HistoryOfWorker
  <2>2. r \in batch'[w] /\ r \notin HeldByOthers(w)
    BY <1>8, <2>1 DEF Lists
  <2>3. r \in Uploads /\ Listable(r) /\ r # NoUpload
    BY <2>1, <2>2, ConstantsAssumption DEF Lists
  <2>4. \A v \in Workers \ {w} : r \notin batch[v] /\ cur[v] # r
    BY <2>2, <2>3 DEF HeldByOthers, Holds
  <2>5. \A v \in Workers : cur'[v] = cur[v]
    BY <1>2, <2>1 DEF OthersStay, Lists
  <2>6. KeepsAll(r)
    BY <2>1, <2>3, WorkerEffects
  <2> QED BY <2>1, <2>3, <2>4, <2>5, <2>6 DEF Restarts
<1>9. \A v \in Workers \ {w} : Holds(v) \cap shared \subseteq shared'
  BY <1>8 DEF Restarts, Holds
<1>5. \A v \in Workers \ {w} : Holds(v) \cap Holds(w)' \subseteq shared'
  <2>1. CASE Lists(w) /\ cur[w] = NoUpload
    <3>1. Holds(w)' \subseteq batch'[w]
      BY <2>1, ConstantsAssumption DEF Lists, Holds
    <3>2. \A v \in Workers \ {w} : Holds(v) \subseteq HeldByOthers(w)
      BY DEF HeldByOthers
    <3> QED BY <2>1, <3>1, <3>2 DEF Lists
  <2>2. CASE Holds(w)' \subseteq Holds(w)
    BY <1>0, <1>9, <2>2 DEF Apart
  <2>3. CASE Loads(w) \/ Finishes(w) \/ RunStep(w, cur[w])
    <3>1. batch[w] \subseteq Uploads
      BY <1>0 DEF WorkerTypes
    <3>2. \/ cur'[w] = cur[w] /\ batch'[w] = batch[w]
          \/ cur'[w] = NoUpload /\ batch'[w] \subseteq batch[w]
          \/ cur'[w] \in batch[w] /\ batch'[w] \subseteq batch[w]
      BY <2>3 DEF Loads, Finishes, RunStep, MovesOn, Reads, Begins, Clears, Draws, Creates, Readies,
                  Completes, Fails, FailsDocument, Breaks
    <3>3. Holds(w)' \subseteq Holds(w)
      BY <3>1, <3>2, ConstantsAssumption DEF Holds
    <3> QED BY <2>2, <3>3
  <2> QED BY <2>1, <2>3, WorkerEffects
<1>6. Apart'
  <2> SUFFICES ASSUME NEW u \in Workers, NEW v \in Workers, u # v
               PROVE  Holds(u)' \cap Holds(v)' \subseteq shared'
    BY DEF Apart
  <2>1. CASE u # w /\ v # w
    BY <1>0, <1>4, <1>9, <2>1 DEF Apart
  <2>2. CASE u = w
    BY <1>4, <1>5, <2>2
  <2>3. CASE v = w
    BY <1>4, <1>5, <2>3
  <2> QED BY <2>1, <2>2, <2>3
<1>7. ASSUME NEW v \in Workers \ {w}, NEW r \in Holds(v) \ shared' PROVE r # cur[w] /\ KeepsAll(r)
  <2>1. r \in Uploads /\ r \notin Holds(w)
    BY <1>0, <1>7, <1>9 DEF Apart, Holds
  <2>2. r # cur[w]
    BY <2>1 DEF Holds
  <2> QED BY <2>1, <2>2, WorkerEffects
<1> QED BY <1>2, <1>3, <1>6, <1>7, <1>8

\* The parts of the invariant, when a worker takes a step.
LEMMA HandWorker ==
    ASSUME TypeInv, RunInv, NEW w \in Workers, WorkerStep(w)
    PROVE  HandInv'
<1>h. HandInv
  BY DEF RunInv
<1>a. /\ OthersStay(w) /\ Apart'
      /\ \A v \in Workers \ {w} : \A r \in Holds(v) \ shared' : KeepsAll(r)
      /\ \A r \in shared \ shared' : Restarts(w, r)
  BY <1>h, WorkerStaysApart
<1>o. ASSUME NEW v \in Workers \ {w} PROVE InHand(v)' /\ FirstPage(v)'
  <2>1. UNCHANGED <<step[v], batch[v], cur[v], page[v]>>
    BY <1>a DEF OthersStay
  <2>2. InHand(v) /\ FirstPage(v) /\ batch[v] \subseteq Uploads
    BY <1>h, TypeParts DEF HandInv, TypeInv, WorkerTypes
  <2>3. \A r \in batch[v] \ shared' : jobStatus'[r] = jobStatus[r]
    BY <1>a, <2>2 DEF Holds, KeepsAll, KeepsJob
  <2>4. cur[v] \in Uploads \ shared' => jobStatus'[cur[v]] = jobStatus[cur[v]]
    BY <1>a DEF Holds, KeepsAll, KeepsJob
  <2>5. \A r \in shared \ shared' : r \notin batch[v] /\ cur[v] # r
    BY <1>a DEF Restarts
  <2> QED BY <2>1, <2>2, <2>3, <2>4, <2>5 DEF InHand, FirstPage
<1> SUFFICES InHand(w)' /\ FirstPage(w)'
  BY <1>a, <1>o DEF HandInv
<1>0. InHand(w) /\ FirstPage(w) /\ HandInv /\ batch[w] \subseteq Uploads /\ step[w] \in Steps
  BY TypeParts DEF RunInv, HandInv, TypeInv, WorkerTypes, Steps
<1>1. \A r \in Uploads : r # cur[w] => KeepsAll(r)
  BY <1>0, WorkerEffects
<1>2. CASE Lists(w) /\ cur[w] = NoUpload
  <2>1. \A r \in batch'[w] : r \in Uploads /\ jobStatus[r] \in Open
    BY <1>2 DEF Lists, Listable, Open
  <2> QED BY <1>0, <1>1, <1>2, <2>1, ConstantsAssumption DEF Lists, InHand, FirstPage, KeepsAll, KeepsJob
<1>b. ASSUME step[w] # "idle" PROVE UNCHANGED shared
  BY <1>b, <1>0, HistoryOfWorker DEF Lists
<1>3. CASE Loads(w) /\ cur[w] = NoUpload
  <2>1. CASE Finishes(w)
    BY <1>0, <1>1, <1>3, <1>b, <2>1, ConstantsAssumption
       DEF Loads, Finishes, InHand, FirstPage, KeepsAll, KeepsJob
  <2>2. ASSUME NEW r \in batch[w], step'[w] = "job", cur'[w] = r, batch'[w] = batch[w] \ {r},
               page'[w] = page[w], step[w] = "batch"
        PROVE  InHand(w)' /\ FirstPage(w)'
    BY <1>0, <1>1, <1>3, <1>b, <2>2, ConstantsAssumption DEF InHand, FirstPage, KeepsAll, KeepsJob
  <2> QED BY <1>3, <2>1, <2>2 DEF Loads
<1>4. CASE RunStep(w, cur[w])
  <2>1. /\ \A r \in batch[w] \ shared : jobStatus'[r] \in Open
        /\ cur[w] \in Uploads /\ cur[w] \notin batch[w]
    BY <1>0, <1>1, <1>4 DEF RunStep, InHand, KeepsAll, KeepsJob
  <2>b. UNCHANGED shared
    BY <1>4, <1>b DEF RunStep
  <2>2. CASE Finishes(w)
    BY <2>1, <2>2, <2>b, <1>0, ConstantsAssumption DEF Finishes, InHand, FirstPage
  <2>3. ASSUME NEW from, NEW to, MovesOn(w, from, to),
               cur[w] \notin shared' => jobStatus'[cur[w]] \in Open
        PROVE  InHand(w)'
    BY <2>1, <2>3, <2>b DEF MovesOn, InHand
  <2>4. CASE Reads(w, cur[w]) \/ Begins(w, cur[w]) \/ Clears(w, cur[w]) \/ Draws(w, cur[w])
             \/ Creates(w, cur[w]) \/ Readies(w, cur[w]) \/ Fails(w, cur[w])
    <3>1. cur[w] \notin shared' => jobStatus[cur[w]] \in Open
      BY <1>0, <2>1, <2>b DEF InHand
    <3>2. cur[w] \notin shared' => jobStatus'[cur[w]] \in Open
      BY <2>4, <3>1 DEF Reads, Begins, Clears, Draws, Creates, Readies, Fails, KeepsAll, KeepsJob, Open
    <3>3. \E from, to : MovesOn(w, from, to)
      BY <2>4 DEF Reads, Begins, Clears, Draws, Creates, Readies, Fails
    <3>4. InHand(w)'
      BY <2>3, <3>2, <3>3
    <3>5. FirstPage(w)'
      BY <1>0, <2>4 DEF Reads, Begins, Clears, Draws, Creates, Readies, Fails, MovesOn, FirstPage
    <3> QED BY <3>4, <3>5
  <2>5. CASE Completes(w, cur[w]) \/ FailsDocument(w, cur[w]) \/ Breaks(w, cur[w])
    BY <2>2, <2>5 DEF Completes, FailsDocument, Breaks
  <2> QED BY <1>4, <2>4, <2>5 DEF RunStep
<1>5. CASE Finishes(w) /\ cur[w] = NoUpload /\ ~Lists(w)
  <2>1. UNCHANGED shared
    BY <1>0, <1>5, HistoryOfWorker
  <2> QED BY <1>0, <1>1, <1>5, <2>1, ConstantsAssumption DEF Finishes, InHand, FirstPage, KeepsAll, KeepsJob
<1> QED BY <1>0, <1>2, <1>3, <1>4, <1>5, WorkerEffects

LEMMA DrawWorker ==
    ASSUME TypeInv, RunInv, NEW w \in Workers, WorkerStep(w)
    PROVE  DrawInv'
<1> DEFINE c == cur[w]
<1>0. /\ InHand(w) /\ FirstPage(w) /\ Drawn(w) /\ Completed /\ HandInv
      /\ batch[w] \subseteq Uploads /\ page[w] \in Page
  BY TypeParts DEF RunInv, HandInv, DrawInv, TypeInv, WorkerTypes
<1>1. \A r \in Uploads : r # c => KeepsAll(r)
  BY <1>0, WorkerEffects
<1>2. UNCHANGED key
  BY WorkerTypeStep DEF WorkerLeaves, WorkerSpares
<1>a. /\ OthersStay(w)
      /\ \A v \in Workers \ {w} : \A r \in Holds(v) \ shared' : KeepsAll(r)
      /\ \A r \in (shared \ shared') \cup (torn \ torn') : Restarts(w, r)
  BY <1>0, WorkerStaysApart
<1>o. ASSUME NEW v \in Workers \ {w} PROVE Drawn(v)'
  <2>1. UNCHANGED <<step[v], cur[v], src[v], page[v]>>
    BY <1>a DEF OthersStay
  <2> SUFFICES ASSUME cur[v] \in Uploads \ (torn' \cup shared') PROVE Drawn(v)'
    BY <2>1 DEF Drawn
  <2>2. Drawn(v) /\ cur[v] \notin torn \cup shared
    BY <1>a DEF RunInv, DrawInv, Restarts
  <2>3. /\ status'[cur[v]] = status[cur[v]]
        /\ pages'[cur[v]] = pages[cur[v]] /\ images'[cur[v]] = images[cur[v]]
    BY <1>a DEF Holds, KeepsAll, KeepsStatus, KeepsDrawn
  <2> QED BY <1>2, <2>1, <2>2, <2>3 DEF Drawn, DrawnPage
<1>3. ASSUME Finishes(w) \/ (Lists(w) /\ c = NoUpload) PROVE Drawn(w)'
  <2>1. cur'[w] \notin Uploads
    BY <1>3, ConstantsAssumption DEF Finishes, Lists
  <2> QED BY <2>1 DEF Drawn
<1>4. ASSUME Loads(w), c = NoUpload PROVE Drawn(w)'
  BY <1>2, <1>3, <1>4 DEF Loads, Drawn
<1>5. ASSUME RunStep(w, c), ~Finishes(w) PROVE Drawn(w)'
  <2>0. UNCHANGED <<torn, shared>>
    BY <1>0, <1>5, HistoryOfWorker DEF RunStep, Lists
  <2> SUFFICES ASSUME c \in Uploads \ (torn \cup shared) PROVE Drawn(w)'
    BY <1>5, <2>0 DEF Drawn, RunStep, Reads, Begins, Clears, Draws, Creates, Readies, Completes, Fails,
                      FailsDocument, Breaks, MovesOn
  <2>1. src[w] = key[c]
    BY <1>0 DEF Drawn
  <2>2. CASE Reads(w, c)
    <3>1. CASE MovesOn(w, "download", "draw")
      <4>1. page[w] = 1 /\ page'[w] = 1
        BY <1>0, <2>2, <3>1 DEF FirstPage, MovesOn, Reads
      <4>2. \A n \in Page : ~(n < 1)
        BY DEF Page
      <4> QED BY <1>2, <2>1, <3>1, <4>1, <4>2 DEF Drawn, MovesOn
    <3>2. CASE \E from, to : to \in {"begin", "giveup", "failjob", "faildoc"} /\ MovesOn(w, from, to)
      BY <1>2, <2>1, <3>2 DEF Drawn, MovesOn
    <3> QED BY <2>2, <3>1, <3>2 DEF Reads
  <2>3. CASE Begins(w, c) \/ Clears(w, c) \/ Fails(w, c)
    BY <1>2, <2>1, <2>3 DEF Begins, Clears, Fails, Drawn, MovesOn
  <2>4. CASE Draws(w, c)
    <3>1. \A n \in Page : n < page[w] => DrawnPage(c, n, src[w])
      BY <1>0, <2>4 DEF Drawn, Draws, MovesOn
    <3>2. \A n \in Page : n < page[w] => pages'[c][n] = src[w] /\ images'[c][n] = src[w]
      BY <3>1, <2>4 DEF Draws, DrawnPage
    <3>3. images'[c][page[w]] = src[w]
      BY <1>0, <2>4 DEF Draws
    <3>4. step'[w] = "page" /\ cur'[w] = c /\ src'[w] = src[w] /\ page'[w] = page[w]
      BY <2>4 DEF Draws, MovesOn
    <3> QED BY <1>2, <2>1, <3>2, <3>3, <3>4 DEF Drawn, DrawnPage
  <2>5. CASE Creates(w, c)
    <3>1. step[w] = "page" /\ cur'[w] = c /\ src'[w] = src[w]
      BY <2>5 DEF Creates, MovesOn
    <3>2. \A n \in Page : n < page[w] => DrawnPage(c, n, src[w])
      BY <1>0, <3>1 DEF Drawn
    <3>3. images[c][page[w]] = src[w]
      BY <1>0, <3>1 DEF Drawn
    <3>4. \A n \in Page : n < page[w] \/ n = page[w] => pages'[c][n] = src[w] /\ images'[c][n] = src[w]
      BY <2>5, <3>2, <3>3 DEF Creates, DrawnPage
    <3>5. CASE MovesOn(w, "page", "ready") /\ page[w] = NumPages
      <4>1. \A n \in Page : n < page[w] \/ n = page[w]
        BY <3>5, ConstantsAssumption DEF Page
      <4>2. step'[w] = "ready"
        BY <3>5 DEF MovesOn
      <4> QED BY <1>2, <2>1, <3>1, <3>4, <4>1, <4>2 DEF Drawn, DrawnPage
    <3>6. CASE MovesOn(w, "page", "draw") /\ page'[w] = page[w] + 1
      <4>1. \A n \in Page : n < page'[w] => n < page[w] \/ n = page[w]
        BY <1>0, <3>6, ConstantsAssumption DEF Page
      <4>2. step'[w] = "draw"
        BY <3>6 DEF MovesOn
      <4> QED BY <1>2, <2>1, <3>1, <3>4, <4>1, <4>2 DEF Drawn, DrawnPage
    <3> QED BY <2>5, <3>5, <3>6 DEF Creates
  <2>6. CASE Readies(w, c)
    <3>1. \A n \in Page : DrawnPage(c, n, src[w])
      BY <1>0, <2>6 DEF Drawn, Readies, MovesOn
    <3>2. \A n \in Page : pages'[c][n] = src[w] /\ images'[c][n] = src[w]
      BY <2>6, <3>1 DEF Readies, KeepsDrawn, DrawnPage
    <3>3. step'[w] = "complete" /\ cur'[w] = c /\ src'[w] = src[w] /\ status'[c] = "ready"
      BY <2>6 DEF Readies, MovesOn
    <3> QED BY <1>2, <2>1, <3>2, <3>3 DEF Drawn, DrawnPage
  <2>7. CASE Completes(w, c) \/ FailsDocument(w, c) \/ Breaks(w, c)
    BY <1>5, <2>7 DEF Completes, FailsDocument, Breaks
  <2> QED BY <1>5, <2>2, <2>3, <2>4, <2>5, <2>6, <2>7 DEF RunStep
<1>6. Drawn(w)'
  BY <1>0, <1>3, <1>4, <1>5, WorkerEffects
<1>7. Completed'
  <2> SUFFICES ASSUME NEW r \in Uploads \ (torn' \cup shared'), jobStatus'[r] = "completed"
               PROVE  \A n \in Page : pages'[r][n] = key[r] /\ images'[r][n] = key[r]
    BY <1>2 DEF Completed, DrawnPage
  <2>0. r \notin torn \cup shared
    BY <1>a DEF Restarts, Listable, KeepsAll, KeepsJob
  <2>1. CASE r # c
    BY <1>0, <1>1, <2>0, <2>1 DEF Completed, DrawnPage, KeepsAll, KeepsJob, KeepsDrawn
  <2>2. CASE r = c
    <3>1. jobStatus[c] \in Open
      BY <1>0, <2>0, <2>2 DEF InHand
    <3>2. RunStep(w, c)
      BY <1>0, <2>2, WorkerEffects, ConstantsAssumption
    <3>3. Completes(w, c)
      BY <2>2, <3>1, <3>2 DEF RunStep, Reads, Begins, Clears, Draws, Creates, Readies, Fails, FailsDocument,
                              Breaks, KeepsAll, KeepsJob, Open
    <3>4. src[w] = key[c] /\ \A n \in Page : DrawnPage(c, n, src[w])
      BY <1>0, <2>0, <2>2, <3>3 DEF Completes, Drawn
    <3> QED BY <2>2, <3>3, <3>4 DEF Completes, KeepsDrawn, DrawnPage
  <2> QED BY <2>1, <2>2
<1> QED BY <1>o, <1>6, <1>7 DEF DrawInv

LEMMA WaitWorker ==
    ASSUME TypeInv, RunInv, NEW w \in Workers, WorkerStep(w)
    PROVE  Waiting' /\ Unfinished' /\ Attended'
<1> DEFINE c == cur[w]
<1>0. InHand(w) /\ Drawn(w) /\ HandInv /\ Waiting /\ Unfinished /\ Attended
  BY DEF RunInv, HandInv, DrawInv
<1>1. \A r \in Uploads : r # c => KeepsAll(r)
  BY <1>0, WorkerEffects
<1>a. OthersStay(w) /\ \A r \in (shared \ shared') \cup (torn \ torn') : Restarts(w, r)
  BY <1>0, WorkerStaysApart
<1>3. (faults' = 0 => faults = 0) /\ (faults > 0 => faults' > 0) /\ (Fault => faults' > 0 /\ faults' # 0)
  <2>1. faults \in Nat
    BY TypeParts DEF TypeInv, OtherTypes
  <2>2. Fault => faults' > 0 /\ faults' # 0
    BY <2>1 DEF Fault
  <2> QED BY <2>2, FaultsGrow, NextIsOneOf
<1>4. /\ \A r, s : IsAt(r, s) /\ r # c => IsAt(r, s)'
      /\ \A s : cur'[w] = c /\ step'[w] = s => IsAt(c, s)'
  BY <1>a DEF OthersStay, IsAt
<1>5. ASSUME c \in Uploads \ shared, NEW s, IsAt(c, s) PROVE step[w] = s
  <2>1. PICK v \in Workers : cur[v] = c /\ step[v] = s
    BY <1>5 DEF IsAt
  <2>2. c \in Holds(v) /\ c \in Holds(w)
    BY <1>5, <2>1 DEF Holds
  <2> QED BY <1>0, <1>5, <2>1, <2>2 DEF HandInv, Apart
<1>6. /\ c \in Uploads => RunStep(w, c)
      /\ c \in Uploads \ shared => jobStatus[c] \in Open
  BY <1>0, WorkerEffects, ConstantsAssumption DEF InHand
<1>7. ASSUME NEW r \in Uploads \ (torn' \cup shared'), status'[r] = "uploaded"
      PROVE  \/ Listable(r)'
             \/ IsAt(r, "faildoc")'
             \/ faults' > 0 /\ jobStatus'[r] = "failed"
  <2>0. CASE r \in torn \cup shared
    BY <1>a, <1>7, <2>0 DEF Restarts, Listable, KeepsAll, KeepsJob
  <2>1. CASE r # c /\ r \notin torn \cup shared
    BY <1>0, <1>1, <1>3, <1>4, <1>7, <2>1 DEF Waiting, Listable, KeepsAll, KeepsJob, KeepsStatus
  <2>2. CASE r = c /\ r \notin torn \cup shared
    <3>1. CASE Reads(w, c) \/ Clears(w, c) \/ Draws(w, c) \/ Creates(w, c)
      <4>1. KeepsJob(c) /\ KeepsStatus(c)
        BY <3>1 DEF Reads, Clears, Draws, Creates, KeepsAll
      <4>2. ~IsAt(c, "faildoc")
        BY <1>5, <1>7, <2>2, <3>1 DEF Reads, Clears, Draws, Creates, MovesOn
      <4> QED BY <1>0, <1>3, <1>7, <2>2, <4>1, <4>2 DEF Waiting, Listable, KeepsJob, KeepsStatus
    <3>2. CASE Begins(w, c) \/ Fails(w, c)
      BY <1>4, <2>2, <3>2 DEF Begins, Fails, MovesOn, Listable
    <3>3. CASE Readies(w, c) \/ FailsDocument(w, c)
      BY <1>7, <2>2, <3>3 DEF Readies, FailsDocument
    <3>4. CASE Completes(w, c)
      BY <1>0, <1>7, <2>2, <3>4 DEF Completes, KeepsStatus, Drawn
    <3>5. CASE Breaks(w, c)
      BY <1>3, <1>6, <1>7, <2>2, <3>5 DEF Breaks, Listable, KeepsAll, KeepsJob, Open
    <3> QED BY <1>6, <1>7, <2>2, <3>1, <3>2, <3>3, <3>4, <3>5 DEF RunStep
  <2> QED BY <2>0, <2>1, <2>2
<1>8. Waiting'
  BY <1>7 DEF Waiting
<1>9. ASSUME faults' = 0, NEW r \in Uploads \ shared', jobStatus'[r] \in Open, ~IsAt(r, "complete")'
      PROVE  status'[r] \in {"uploaded", "failed"}
  <2>r. CASE r \in shared
    <3>1. Restarts(w, r)
      BY <1>a, <1>9, <2>r
    <3>2. jobStatus[r] \in Open /\ ~\E s \in Writing : IsAt(r, s)
      BY <3>1 DEF Restarts, Listable, Open, IsAt
    <3> QED BY <1>0, <1>3, <1>9, <3>1, <3>2 DEF Attended, Restarts, KeepsAll, KeepsStatus
  <2> SUFFICES ASSUME r \notin shared PROVE status'[r] \in {"uploaded", "failed"}
    BY <2>r
  <2>0. jobStatus[r] \in Open /\ ~IsAt(r, "complete") => status[r] \in {"uploaded", "failed"}
    BY <1>0, <1>3, <1>9 DEF Unfinished
  <2>1. CASE r # c
    BY <1>1, <1>4, <1>9, <2>0, <2>1 DEF KeepsAll, KeepsJob, KeepsStatus
  <2>2. CASE r = c
    <3>1. CASE Reads(w, c) \/ Clears(w, c) \/ Draws(w, c) \/ Creates(w, c) \/ Begins(w, c) \/ Fails(w, c)
      <4>1. KeepsStatus(c)
        BY <3>1 DEF Reads, Clears, Draws, Creates, Begins, Fails, KeepsAll
      <4>2. ~IsAt(c, "complete")
        BY <1>5, <1>9, <2>2, <3>1 DEF Reads, Clears, Draws, Creates, Begins, Fails, MovesOn
      <4> QED BY <1>6, <1>9, <2>0, <2>2, <4>1, <4>2 DEF KeepsStatus
    <3>2. CASE Readies(w, c)
      BY <1>4, <1>9, <2>2, <3>2 DEF Readies, MovesOn
    <3>3. CASE Completes(w, c)
      BY <1>9, <2>2, <3>3 DEF Completes, Open
    <3>4. CASE FailsDocument(w, c)
      BY <2>2, <3>4 DEF FailsDocument
    <3>5. CASE Breaks(w, c)
      BY <1>3, <1>9, <3>5 DEF Breaks
    <3> QED BY <1>6, <1>9, <2>2, <3>1, <3>2, <3>3, <3>4, <3>5 DEF RunStep
  <2> QED BY <2>1, <2>2
<1>10. Unfinished'
  BY <1>9 DEF Unfinished
<1>11. ASSUME faults' = 0, NEW r \in Uploads, jobStatus'[r] \in Open
       PROVE  status'[r] \in {"uploaded", "failed"} \/ \E s \in Writing : IsAt(r, s)'
  <2>0. jobStatus[r] \in Open => status[r] \in {"uploaded", "failed"} \/ \E s \in Writing : IsAt(r, s)
    BY <1>0, <1>3, <1>11 DEF Attended
  <2>1. CASE r # c
    BY <1>1, <1>4, <1>11, <2>0, <2>1 DEF KeepsAll, KeepsJob, KeepsStatus
  <2>2. CASE r = c
    <3>1. CASE step'[w] \in Writing /\ cur'[w] = c
      BY <1>4, <2>2, <3>1
    <3>2. CASE \E to \in {"begin", "giveup"} : MovesOn(w, "job", to) /\ KeepsAll(c)
      <4>1. \A s \in Writing : IsAt(r, s) => IsAt(r, s)'
        BY <1>a, <2>2, <3>2 DEF OthersStay, IsAt, MovesOn, Writing
      <4>2. jobStatus'[c] = jobStatus[c] /\ status'[c] = status[c]
        BY <3>2 DEF KeepsAll, KeepsJob, KeepsStatus
      <4> QED BY <1>11, <2>0, <2>2, <4>1, <4>2
    <3>3. CASE Completes(w, c)
      BY <1>11, <2>2, <3>3 DEF Completes, Open
    <3>4. CASE FailsDocument(w, c)
      BY <2>2, <3>4 DEF FailsDocument
    <3>5. CASE Breaks(w, c)
      BY <1>3, <1>11, <3>5 DEF Breaks
    <3>6. CASE Reads(w, c) \/ Begins(w, c) \/ Clears(w, c) \/ Draws(w, c) \/ Creates(w, c)
               \/ Readies(w, c) \/ Fails(w, c)
      BY <3>1, <3>2, <3>6
         DEF Reads, Begins, Clears, Draws, Creates, Readies, Fails, MovesOn, Writing
    <3> QED BY <1>6, <2>2, <3>3, <3>4, <3>5, <3>6 DEF RunStep
  <2> QED BY <2>1, <2>2
<1>12. Attended'
  BY <1>11 DEF Attended
<1> QED BY <1>8, <1>10, <1>12

-----------------------------------------------------------------------------
(* The steps of the others, while a worker is at a document.               *)

\* Rows and jobs of the documents that a commit leaves alone, or replaces.
LEMMA CommitMeetsRun ==
    ASSUME TypeInv, NEW u \in Uploads, WritesAndEnds(u)
    PROVE  /\ UNCHANGED <<workerVars, images>> /\ torn \subseteq torn'
           /\ status[u] = "none" /\ jobStatus[u] = "none"
           /\ jobStatus'[u] \in {"queued", "none"}
           /\ status'[u] = "uploaded" => jobStatus'[u] = "queued"
           /\ jobStatus'[u] = "queued" => status'[u] = "uploaded"
           /\ \A r \in Uploads \ {u} :
                 \/ KeepsAll(r) /\ key'[r] = key[r]
                 \/ /\ status'[r] = "uploaded" /\ jobStatus'[r] = "queued"
                    /\ (\E w \in Workers : cur[w] = r) => r \in torn'
<1>1. at[u] = "stored" /\ Writes(u) /\ UNCHANGED <<workerVars, images>>
  BY DEF WritesAndEnds, Goto
<1>2. jobStatus[u] = "none"
  BY <1>1, RowsWritten DEF TypeInv, Fresh
<1>3. \A r \in Uploads \ {u} :
         \/ /\ r # target[u]
            /\ UNCHANGED <<status[r], key[r], jobStatus[r], attempts[r], pages[r]>>
         \/ /\ status'[r] = "uploaded" /\ jobStatus'[r] = "queued"
            /\ (\E w \in Workers : cur[w] = r) => r \in torn'
  BY <1>1, RowsWritten
<1>4. \A r \in Uploads : images'[r] = images[r]
  BY <1>1
<1>5. \A r \in Uploads \ {u} :
         \/ KeepsAll(r) /\ key'[r] = key[r]
         \/ /\ status'[r] = "uploaded" /\ jobStatus'[r] = "queued"
            /\ (\E w \in Workers : cur[w] = r) => r \in torn'
  BY <1>3, <1>4 DEF KeepsAll, KeepsJob, KeepsStatus, KeepsDrawn
<1>6. /\ status[u] = "none" /\ torn \subseteq torn'
      /\ \/ jobStatus'[u] = "queued" /\ status'[u] = "uploaded"
         \/ jobStatus'[u] = "none" /\ status'[u] = "archived"
  BY <1>1, RowsWritten
<1> QED BY <1>1, <1>2, <1>5, <1>6

LEMMA RequestMeetsRun ==
    ASSUME TypeInv, NEW q \in Uploads, Requests(q)
    PROVE  /\ UNCHANGED <<key, jobVars, pageVars, torn, shared, workerVars, faults>>
           /\ \A r \in Uploads : \/ status'[r] = status[r]
                                 \/ status[r] \in {"ready", "archived"} /\ status'[r] \in {"ready", "archived"}
<1>1. RowTypes
  BY TypeParts DEF TypeInv
<1>2. UNCHANGED <<key, jobVars, pageVars, torn, shared, workerVars, faults>>
  BY DEF Requests, ArchiveDocument, UnarchiveDocument, DeleteDocument, history
<1>3. \/ status' = status
      \/ /\ status[q] \in {"ready", "archived"}
         /\ \E s \in {"ready", "archived"} : status' = [status EXCEPT ![q] = s]
  BY DEF Requests, ArchiveDocument, UnarchiveDocument, DeleteDocument, CanArchive
<1> QED BY <1>1, <1>2, <1>3 DEF RowTypes

LEMMA RunOther ==
    ASSUME TypeInv, RunInv, OtherStep
    PROVE  RunInv'
<1>0. HandInv /\ DrawInv /\ Waiting /\ Unfinished /\ Attended /\ (faults' = 0 => faults = 0)
      /\ (faults > 0 => faults' > 0)
  BY FaultsGrow, NextIsOneOf DEF RunInv
<1>w. \A w \in Workers : batch[w] \subseteq Uploads
  BY TypeParts DEF TypeInv, WorkerTypes
<1>s. UNCHANGED <<workerVars, shared>>
  BY OtherTypeStep
<1>a. Apart'
  BY <1>0, <1>s DEF HandInv, Apart, Holds, workerVars
<1>1. ASSUME NEW u \in Uploads, WritesAndEnds(u) PROVE RunInv'
  <2>0. /\ UNCHANGED <<workerVars, images>> /\ torn \subseteq torn'
        /\ status[u] = "none" /\ jobStatus[u] = "none"
        /\ jobStatus'[u] \in {"queued", "none"}
        /\ status'[u] = "uploaded" => jobStatus'[u] = "queued"
        /\ jobStatus'[u] = "queued" => status'[u] = "uploaded"
    BY <1>1, CommitMeetsRun
  <2>1. ASSUME NEW r \in Uploads, r # u
        PROVE  \/ KeepsAll(r) /\ key'[r] = key[r]
               \/ /\ status'[r] = "uploaded" /\ jobStatus'[r] = "queued"
                  /\ (\E w \in Workers : cur[w] = r) => r \in torn'
    BY <1>1, <2>1, CommitMeetsRun
  <2>2. UNCHANGED <<step, batch, cur, src, page>>
    BY <2>0 DEF workerVars
  <2>3. \A r, s : IsAt(r, s)' <=> IsAt(r, s)
    BY <2>2 DEF IsAt
  <2>4. HandInv'
    <3>1. \A r \in Uploads : jobStatus[r] \in Open => jobStatus'[r] \in Open
      BY <2>0, <2>1 DEF KeepsAll, KeepsJob, Open
    <3>2. ASSUME NEW w \in Workers PROVE InHand(w)' /\ FirstPage(w)'
      BY <1>0, <1>s, <1>w, <2>2, <3>1 DEF HandInv, InHand, FirstPage
    <3> QED BY <1>a, <3>2 DEF HandInv
  <2>5. ASSUME NEW w \in Workers PROVE Drawn(w)'
    <3> SUFFICES ASSUME cur[w] \in Uploads \ (torn' \cup shared) PROVE Drawn(w)'
      BY <1>s, <2>2 DEF Drawn
    <3>1. Drawn(w) /\ cur[w] \in Uploads \ (torn \cup shared)
      BY <1>0, <2>0 DEF DrawInv
    <3>2. cur[w] # u
      <4>1. jobStatus[cur[w]] \in Open
        BY <1>0, <3>1 DEF HandInv, InHand
      <4> QED BY <2>0, <4>1 DEF Open
    <3>3. KeepsAll(cur[w]) /\ key'[cur[w]] = key[cur[w]]
      BY <2>1, <3>1, <3>2
    <3>4. pages'[cur[w]] = pages[cur[w]] /\ images'[cur[w]] = images[cur[w]]
          /\ status'[cur[w]] = status[cur[w]]
      BY <3>3 DEF KeepsAll, KeepsDrawn, KeepsStatus
    <3> QED BY <2>2, <3>1, <3>3, <3>4 DEF Drawn, DrawnPage
  <2>6. Completed'
    <3> SUFFICES ASSUME NEW r \in Uploads \ (torn' \cup shared), jobStatus'[r] = "completed"
                 PROVE  \A n \in Page : pages'[r][n] = key'[r] /\ images'[r][n] = key'[r]
      BY <1>s DEF Completed, DrawnPage
    <3>1. KeepsAll(r) /\ key'[r] = key[r] /\ r \in Uploads \ (torn \cup shared)
      BY <2>0, <2>1
    <3> QED BY <1>0, <3>1 DEF DrawInv, Completed, DrawnPage, KeepsAll, KeepsJob, KeepsDrawn
  <2>7. Waiting'
    <3> SUFFICES ASSUME NEW r \in Uploads \ (torn' \cup shared), status'[r] = "uploaded"
                 PROVE  \/ Listable(r)'
                        \/ IsAt(r, "faildoc")
                        \/ faults' > 0 /\ jobStatus'[r] = "failed"
      BY <1>s, <2>3 DEF Waiting
    <3>1. jobStatus'[r] = "queued" \/ (KeepsAll(r) /\ r \in Uploads \ (torn \cup shared))
      BY <2>0, <2>1
    <3> QED BY <1>0, <3>1 DEF Waiting, Listable, KeepsAll, KeepsJob, KeepsStatus
  <2>8. Unfinished'
    <3> SUFFICES ASSUME faults' = 0, NEW r \in Uploads \ shared, jobStatus'[r] \in Open,
                        ~IsAt(r, "complete")
                 PROVE  status'[r] \in {"uploaded", "failed"}
      BY <1>s, <2>3 DEF Unfinished
    <3>1. status'[r] = "uploaded" \/ (KeepsAll(r) /\ r # u)
      BY <2>0, <2>1 DEF Open
    <3> QED BY <1>0, <3>1 DEF Unfinished, KeepsAll, KeepsJob, KeepsStatus
  <2>9. Attended'
    <3> SUFFICES ASSUME faults' = 0, NEW r \in Uploads, jobStatus'[r] \in Open
                 PROVE  status'[r] \in {"uploaded", "failed"} \/ \E s \in Writing : IsAt(r, s)
      BY <2>3 DEF Attended
    <3>1. status'[r] = "uploaded" \/ (KeepsAll(r) /\ r # u)
      BY <2>0, <2>1 DEF Open
    <3> QED BY <1>0, <3>1 DEF Attended, KeepsAll, KeepsJob, KeepsStatus
  <2> QED BY <2>4, <2>5, <2>6, <2>7, <2>8, <2>9 DEF RunInv, DrawInv
<1>2. ASSUME UNCHANGED <<key, jobVars, pageVars, torn, workerVars>>,
             \A r \in Uploads : \/ status'[r] = status[r]
                                \/ status[r] \in {"ready", "archived"} /\ status'[r] \in {"ready", "archived"}
      PROVE  RunInv'
  <2>1. UNCHANGED <<key, jobStatus, attempts, pages, images, torn, step, batch, cur, src, page>>
    BY <1>2 DEF jobVars, pageVars, workerVars
  <2>2. \A r, s : IsAt(r, s)' <=> IsAt(r, s)
    BY <2>1 DEF IsAt
  <2>3. HandInv'
    BY <1>0, <1>a, <1>s, <2>1 DEF HandInv, InHand, FirstPage
  <2>4. DrawInv'
    <3>1. ASSUME NEW w \in Workers PROVE Drawn(w)'
      <4>1. Drawn(w)
        BY <1>0 DEF DrawInv
      <4>2. cur[w] \in Uploads => (status'[cur[w]] = "uploaded" => status[cur[w]] = "uploaded")
        BY <1>2
      <4> QED BY <1>s, <2>1, <4>1, <4>2 DEF Drawn, DrawnPage
    <3>2. Completed'
      BY <1>0, <1>s, <2>1 DEF DrawInv, Completed, DrawnPage
    <3> QED BY <3>1, <3>2 DEF DrawInv
  <2>5. Waiting'
    BY <1>0, <1>2, <1>s, <2>1, <2>2 DEF Waiting, Listable
  <2>6. Unfinished'
    BY <1>0, <1>2, <1>s, <2>1, <2>2 DEF Unfinished
  <2>7. Attended'
    BY <1>0, <1>2, <2>1, <2>2 DEF Attended
  <2> QED BY <2>3, <2>4, <2>5, <2>6, <2>7 DEF RunInv
<1>3. CASE LeavesTables
  <2>1. UNCHANGED workerVars
    BY OtherTypeStep
  <2>2. UNCHANGED <<key, jobVars, pageVars, torn>> /\ \A r \in Uploads : status'[r] = status[r]
    BY <1>3 DEF LeavesTables, rowVars
  <2> QED BY <1>2, <2>1, <2>2
<1>4. ASSUME NEW q \in Uploads, Requests(q) PROVE RunInv'
  BY <1>2, <1>4, RequestMeetsRun
<1> QED BY <1>1, <1>3, <1>4, OtherKinds

LEMMA RunStepKeeps == ASSUME TypeInv, RunInv, [Next]_vars PROVE RunInv'
<1>1. CASE UNCHANGED vars
  BY <1>1 DEF vars, rowVars, jobVars, pageVars, requestVars, workerVars, history, RunInv, HandInv, DrawInv,
              Apart, Holds, InHand, FirstPage, Drawn, DrawnPage, Completed, Waiting, Listable, Unfinished, Attended, IsAt
<1>2. ASSUME NEW w \in Workers, WorkerStep(w) PROVE RunInv'
  BY <1>2, HandWorker, DrawWorker, WaitWorker DEF RunInv
<1> QED BY <1>1, <1>2, RunOther, NextIsOneOf

LEMMA RunHolds == Spec => []RunInv
<1>1. TypeInv /\ RunInv /\ [Next]_vars => RunInv'
  BY RunStepKeeps
<1> QED BY <1>1, RunInit, TypesHold, PTL DEF Spec

\* ingestion/worker.go: with any number of workers a document whose job is
\* completed has every page of its current file, however often and wherever the
\* runs before failed or died, unless since a worker last listed it alone its
\* file was replaced during a run or a second worker listed it too.
THEOREM IngestionIsComplete == Spec => []IngestedIsComplete
<1>1. TypeInv /\ RunInv => IngestedIsComplete
  <2> SUFFICES ASSUME TypeInv, RunInv, NEW r \in Rows \ (torn \cup shared),
                      jobStatus[r] = "completed"
               PROVE  pages[r] = [n \in Page |-> key[r]] /\ images[r] = pages[r]
    BY DEF IngestedIsComplete
  <2>1. r \in Uploads /\ pages[r] \in [Page -> Key] /\ images[r] \in [Page -> Key]
    BY TypeParts DEF TypeInv, PageTypes, Rows
  <2>2. \A n \in Page : pages[r][n] = key[r] /\ images[r][n] = key[r]
    BY <2>1 DEF RunInv, DrawInv, Completed, DrawnPage
  <2> QED BY <2>1, <2>2
<1> QED BY <1>1, RunHolds, TypesHold, PTL

\* ingestion/worker.go: with any number of workers a document that shows as
\* uploaded waits for a run that will come, whatever failed before, unless since
\* a worker last listed it alone its file was replaced during a run or a second
\* worker listed it too, or the write of its last failure was lost.
THEOREM NothingIsStranded == Spec => []NotStranded
<1>1. TypeInv /\ RunInv => NotStranded
  <2> SUFFICES ASSUME TypeInv, RunInv, NEW r \in Rows \ (torn \cup deleted \cup shared),
                      status[r] = "uploaded"
               PROVE  \/ r \in Due(Processing)
                      \/ \E w \in Workers : cur[w] = r /\ step[w] = "faildoc"
                      \/ faults > 0 /\ jobStatus[r] = "failed"
    BY DEF NotStranded
  <2>1. r \in Uploads \ (torn \cup shared)
    BY DEF Rows
  <2>2. \/ Listable(r)
        \/ IsAt(r, "faildoc")
        \/ faults > 0 /\ jobStatus[r] = "failed"
    BY <2>1 DEF RunInv, Waiting
  <2> QED BY <2>1, <2>2 DEF Listable, Due, Processing, Retriable, IsAt
<1> QED BY <1>1, RunHolds, TypesHold, PTL

\* ingestion/worker.go: with any number of workers and no faults no run brings
\* an archived document back, unless two workers have had it in hand since one
\* last listed it alone.
THEOREM ArchivedStaysArchived == Spec => ArchivedStays
<1>1. ASSUME TypeInv, RunInv, [Next]_vars, NEW r \in Uploads \ shared,
             status[r] = "archived", status'[r] # "archived", ~(faults > 0)
      PROVE  step' = step
  <2>1. CASE UNCHANGED vars
    BY <2>1 DEF vars, workerVars
  <2>2. CASE OtherStep
    BY <1>1, <2>2, OtherTypeStep DEF workerVars
  <2>3. ASSUME NEW w \in Workers, WorkerStep(w) PROVE FALSE
    <3>0. HandInv /\ Unfinished /\ faults = 0
      BY <1>1, TypeParts DEF RunInv, TypeInv, OtherTypes
    <3>1. r = cur[w] /\ RunStep(w, r)
      BY <1>1, <2>3, <3>0, WorkerEffects, ConstantsAssumption DEF KeepsAll, KeepsStatus
    <3>2. Readies(w, r) \/ FailsDocument(w, r)
      BY <1>1, <3>1 DEF RunStep, Reads, Begins, Clears, Draws, Creates, Completes, Fails, Breaks, KeepsAll,
                        KeepsStatus
    <3>3. step[w] # "complete"
      BY <3>2 DEF Readies, FailsDocument, MovesOn
    <3>4. \A v \in Workers : cur[v] = r => v = w
      BY <3>0, <3>1 DEF HandInv, Apart, Holds
    <3>5. jobStatus[r] \in Open /\ ~IsAt(r, "complete")
      BY <3>0, <3>1, <3>3, <3>4 DEF HandInv, InHand, IsAt
    <3> QED BY <1>1, <3>0, <3>5 DEF Unfinished
  <2> QED BY <1>1, <2>1, <2>2, <2>3, NextIsOneOf
<1>2. TypeInv /\ RunInv /\ [Next]_vars =>
         [\A r \in Uploads \ shared : status[r] = "archived" /\ status'[r] # "archived"
             => step' = step \/ faults > 0]_vars
  BY <1>1
<1> QED BY <1>2, RunHolds, TypesHold, PTL DEF Spec, ArchivedStays

\* ingestion/worker.go: where one worker runs, no document is ever listed while
\* another has it in hand, and what is said above is said of every document.
THEOREM OneWorkerSharesNothing ==
    ASSUME \A v, w \in Workers : v = w
    PROVE  Spec => [](shared = {})
<1>1. Init => shared = {}
  BY DEF Init
<1>2. ASSUME TypeInv, shared = {}, [Next]_vars PROVE shared' = {}
  <2>1. ASSUME NEW w \in Workers, NEW stale \in SUBSET Processing, ListPending(w, stale)
        PROVE  shared' = {}
    <3>1. HeldByOthers(w) = {}
      BY DEF HeldByOthers
    <3> QED BY <1>2, <2>1, <3>1 DEF ListPending
  <2>2. ASSUME NEW w \in Workers, WorkerStep(w), ~\E stale \in SUBSET Processing : ListPending(w, stale)
        PROVE  shared' = shared
    BY <2>2 DEF WorkerStep, Work, LoadDocument, GetJob, Begin, Cleanup, Download, DrawPage, CreatePage,
                MarkReady, CompleteJob, FailJob, FailDocument, RunFails, CallFails, Crash, Go, Leave, history
  <2>3. CASE UNCHANGED vars
    BY <1>2, <2>3 DEF vars, history
  <2> QED BY <1>2, <2>1, <2>2, <2>3, NextIsOneOf, OtherTypeStep
<1>3. TypeInv /\ shared = {} /\ [Next]_vars => (shared = {})'
  BY <1>2
<1> QED BY <1>1, <1>3, TypesHold, PTL DEF Spec
=============================================================================
