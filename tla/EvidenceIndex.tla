---------------------------- MODULE EvidenceIndex ----------------------------
(***************************************************************************)
(* The search index of the evidence (app/resume_generation/indexing.py and *)
(* index_worker.py).  Every write to an experience leaves a row in the     *)
(* outbox, in the same transaction; a worker with one job at a time reads  *)
(* the experience as it is then, and replaces its points in Qdrant from a  *)
(* thread, in two requests.  How a row is published, leased and published  *)
(* again is the subject of MemoryJobs: here a row that is not processed is *)
(* delivered in any order and as often as it takes.                        *)
(***************************************************************************)
EXTENDS Naturals, FiniteSets

CONSTANTS
  Experiences,   \* ids of the experiences
  MaxEvidence,   \* bound: ids of the evidence items
  Skills,        \* technologies of an experience (tags are indexed alike)
  Libraries,     \* the experiences the worker starts with
  MaxEdits,      \* bound: writes to the experiences
  MaxFaults      \* bound: failed jobs, timeouts and deaths of the worker

ASSUME IndexBounds == MaxEvidence \in Nat /\ MaxEdits \in Nat /\ MaxFaults \in Nat

EvidenceIds == 1..MaxEvidence

(* The tables, as far as the index can tell: the ready experiences, the owner *)
(* of each item of evidence there is, and the labels of every experience.     *)
Owners == UNION {[D -> Experiences] : D \in SUBSET EvidenceIds}
Tables == [ready: SUBSET Experiences, owner: Owners, labels: [Experiences -> SUBSET Skills]]

ASSUME LibrariesTyped == Libraries \subseteq Tables

VARIABLES
  library,   \* the tables of the experiences
  open,      \* per experience: rows of the outbox that are not processed
  points,    \* the collection in Qdrant
  job,       \* the job of the worker
  thread,    \* a thread that outlived the timeout of its job
  edits, faults, timeouts

indexVars == <<library, open, points, job, thread, edits, faults, timeouts>>

NoJob == [stage |-> "none"]

EvidenceOf(lib, x) == {e \in DOMAIN lib.owner : lib.owner[e] = x}

(* What the index says of an item of evidence: whose it is, and the labels of *)
(* its experience when it was indexed.  Texts and vectors are left out.       *)
Document(lib, e) == [id |-> e, experience |-> lib.owner[e], labels |-> lib.labels[lib.owner[e]]]

(* load_ready_experience_snapshot and build_documents. *)
Documents(lib, x) == IF x \in lib.ready THEN {Document(lib, e) : e \in EvidenceOf(lib, x)} ELSE {}

Points(x) == {p \in points : p.experience = x}

(* Points are stored under the id of their evidence. *)
Upsert(docs) == {p \in points : \A d \in docs : d.id # p.id} \cup docs

InitIndex ==
  /\ library \in Libraries
  /\ open = [x \in Experiences |-> 0]
  /\ points = UNION {Documents(library, x) : x \in Experiences}
  /\ job = NoJob /\ thread = NoJob
  /\ edits = 0 /\ faults = 0 /\ timeouts = 0

----------------------------------------------------------------------------
(* Writes to the experiences (module Experiences), as far as the index can tell. *)

(* mutant: one row that is not processed is enough *)
EnqueuedOnce(x) == [open EXCEPT ![x] = 1]

(* enqueue_experience_index_sync, in the transaction of the write. *)
Enqueued(x) == [open EXCEPT ![x] = @ + 1]

Write(x, lib) ==
  /\ edits < MaxEdits /\ edits' = edits + 1
  /\ library' = lib
  /\ open' = Enqueued(x)
  /\ UNCHANGED <<points, job, thread, faults, timeouts>>

SetReady(x) ==
  Write(x, [library EXCEPT !.ready = IF x \in @ THEN @ \ {x} ELSE @ \cup {x}])

Relabel(x) == \E s \in SUBSET Skills :
  s # library.labels[x] /\ Write(x, [library EXCEPT !.labels[x] = s])

(* SQLite gives the id of the last row, once deleted, to the next one. *)
NextId(i) ==
  /\ \A e \in DOMAIN library.owner : e < i
  /\ \A j \in 1..(i - 1) : \E e \in DOMAIN library.owner : j <= e

AddEvidence(x) == \E i \in EvidenceIds :
  /\ NextId(i)
  /\ Write(x, [library EXCEPT !.owner = [e \in DOMAIN @ \cup {i} |-> IF e = i THEN x ELSE @[e]]])

RemoveEvidence(x) == \E e \in EvidenceOf(library, x) :
  Write(x, [library EXCEPT !.owner = [f \in DOMAIN @ \ {e} |-> @[f]]])

Edit(x) == SetReady(x) \/ Relabel(x) \/ AddEvidence(x) \/ RemoveEvidence(x)

----------------------------------------------------------------------------
(* sync_resume_evidence_index.                                              *)

(* The row of the job is delivered and the experience is read. *)
JobStart(x) ==
  /\ job = NoJob /\ open[x] > 0
  /\ job' = [stage |-> "delete", experience |-> x, documents |-> Documents(library, x)]
  /\ UNCHANGED <<library, open, points, thread, edits, faults, timeouts>>

(* mutant: the points of the documents are replaced, the others stay *)
DeletedOnlyReplaced(w) == {p \in points : \A d \in w.documents : d.id # p.id}

(* _replace_experience, first request: the points of the experience are deleted. *)
Deleted(w) == points \ Points(w.experience)

JobDelete ==
  /\ job.stage = "delete"
  /\ points' = Deleted(job)
  /\ job' = [job EXCEPT !.stage = "add"]
  /\ UNCHANGED <<library, open, thread, edits, faults, timeouts>>

JobAdd ==
  /\ job.stage = "add"
  /\ points' = Upsert(job.documents)
  /\ job' = [job EXCEPT !.stage = "mark"]
  /\ UNCHANGED <<library, open, thread, edits, faults, timeouts>>

(* mark_processed, in a transaction of its own. *)
JobMark ==
  /\ job.stage = "mark"
  /\ open' = [open EXCEPT ![job.experience] = @ - 1]
  /\ job' = NoJob
  /\ UNCHANGED <<library, points, thread, edits, faults, timeouts>>

Fault == faults < MaxFaults /\ faults' = faults + 1

(* Qdrant or the database answers with an error: the row stays. *)
JobFails ==
  /\ job # NoJob /\ Fault
  /\ job' = NoJob
  /\ UNCHANGED <<library, open, points, thread, edits, timeouts>>

(* ARQ cancels the job.  The thread it waits for goes on, without the lock.   *)
JobTimeout ==
  /\ job.stage \in {"delete", "add"} /\ thread = NoJob /\ Fault
  /\ timeouts' = timeouts + 1
  /\ thread' = job
  /\ job' = NoJob
  /\ UNCHANGED <<library, open, points, edits>>

ThreadDelete ==
  /\ thread.stage = "delete"
  /\ points' = Deleted(thread)
  /\ thread' = [thread EXCEPT !.stage = "add"]
  /\ UNCHANGED <<library, open, job, edits, faults, timeouts>>

ThreadAdd ==
  /\ thread.stage = "add"
  /\ points' = Upsert(thread.documents)
  /\ thread' = NoJob
  /\ UNCHANGED <<library, open, job, edits, faults, timeouts>>

(* enqueue_index_bootstrap: a row for every experience there is. *)
Bootstrapped == [x \in Experiences |-> open[x] + 1]

(* The worker process dies with its job and its threads, and is started again. *)
WorkerRestart ==
  /\ Fault
  /\ job' = NoJob /\ thread' = NoJob
  /\ open' = Bootstrapped
  /\ UNCHANGED <<library, points, edits, timeouts>>

Job == JobDelete \/ JobAdd \/ JobMark
IndexNext ==
  \/ \E x \in Experiences : Edit(x) \/ JobStart(x)
  \/ Job \/ JobFails \/ JobTimeout \/ ThreadDelete \/ ThreadAdd \/ WorkerRestart

(* The worker takes its rows and finishes its jobs. *)
Work == (\E x \in Experiences : JobStart(x)) \/ Job

IndexSpec == InitIndex /\ [][IndexNext]_indexVars /\ WF_indexVars(Work)

----------------------------------------------------------------------------
(* Properties of the index.                                                *)

IndexTypeOK ==
  /\ library.ready \subseteq Experiences /\ DOMAIN library.owner \subseteq EvidenceIds
  /\ open \in [Experiences -> Nat]
  /\ job.stage \in {"none", "delete", "add", "mark"} /\ thread.stage \in {"none", "delete", "add"}
  /\ \A p, q \in points : p.id = q.id => p = q

(* While no row of an experience is open, the index holds exactly what the    *)
(* experience is now: a job that read it before a write, failed half-way or   *)
(* died leaves a row behind, also when an item of evidence took the id of a    *)
(* deleted one.  Without timeouts: see StaysIndexed (index_worker.py).         *)
ProcessedIsIndexed ==
  timeouts = 0 =>
    \A x \in Experiences : open[x] = 0 => Points(x) = Documents(library, x)

(* Every write reaches the index in the end, whatever fails on the way       *)
(* (enqueue_experience_index_sync, mark_processed, enqueue_index_bootstrap).   *)
IndexCatchesUp ==
  <>[](timeouts = 0 => \A x \in Experiences : open[x] = 0 /\ Points(x) = Documents(library, x))

(* The same once a job has timed out and everything has come to rest. *)
StaysIndexed ==
  thread = NoJob => \A x \in Experiences : open[x] = 0 => Points(x) = Documents(library, x)
=============================================================================
