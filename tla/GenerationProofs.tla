--------------------------- MODULE GenerationProofs ---------------------------
(***************************************************************************)
(* Proofs about the evidence index and about Generation, which extends it.    *)
(*                                                                         *)
(* The index of processed experiences is what the experiences are, for any    *)
(* number of experiences, items of evidence, writes and faults (but timeouts, *)
(* which leave a second writer behind).  A job works on what it read some     *)
(* steps ago.  What makes it harmless is that every write since then has left *)
(* a row: if the row of the job is the only one of its experience, its        *)
(* snapshot is current; and if one of its documents has the id of an item     *)
(* that now belongs to another experience, that one has a row of its own.     *)
(*                                                                         *)
(* For any experiences, job descriptions, limits, answers of the language     *)
(* model and numbers of confirmations: the plan fits the pages, a generated   *)
(* resume cites evidence of its experiences and was found supported, and run  *)
(* and resume are confirmed together.  The index below it keeps its promise.  *)
(*                                                                         *)
(* The plan is made by a loop: what holds of it after every round is proved   *)
(* by induction over the rounds.  The provers cannot instantiate a predicate  *)
(* in a theorem, so the induction is over a set of natural numbers, and rests *)
(* on the well-foundedness of their order.                                    *)
(***************************************************************************)
EXTENDS Generation, FiniteSetTheorems, WellFoundedInduction, TLAPS

-----------------------------------------------------------------------------
(* The index: its invariant.                                               *)

AllDocuments == [id: EvidenceIds, experience: Experiences, labels: SUBSET Skills]

Jobs == {NoJob} \cup [stage: {"delete", "add", "mark"}, experience: Experiences,
                      documents: SUBSET AllDocuments]

Types ==
  /\ library \in Tables
  /\ open \in [Experiences -> Nat]
  /\ points \in SUBSET AllDocuments
  /\ job \in Jobs
  /\ thread \in Jobs /\ thread.stage # "mark"
  /\ edits \in Nat /\ faults \in Nat /\ timeouts \in Nat

(* No two documents have the same id. *)
DistinctIds(docs) == \A p, q \in docs : p.id = q.id => p = q

(* Points, and the documents of whoever writes them. *)
IdsOK ==
  /\ DistinctIds(points)
  /\ job # NoJob => DistinctIds(job.documents)
  /\ thread # NoJob => DistinctIds(thread.documents)

(* The documents of a job are of its experience, whose row is open. *)
JobOwnsRow ==
  job # NoJob => /\ open[job.experience] > 0
                 /\ \A d \in job.documents : d.experience = job.experience

(* If its row is the only one, the job is about the experience as it is now. *)
JobIsCurrent ==
  job # NoJob /\ open[job.experience] = 1 =>
    IF job.stage = "mark" THEN Points(job.experience) = Documents(library, job.experience)
    ELSE job.documents = Documents(library, job.experience)

(* Once they are deleted, nothing but the job adds points of its experience. *)
JobHasDeleted == job.stage = "add" => Points(job.experience) = {}

(* An id that has changed hands has left a row with its new owner. *)
TakenIdsAreOpen ==
  job # NoJob => \A d \in job.documents :
    d.id \in DOMAIN library.owner /\ library.owner[d.id] # job.experience
      => open[library.owner[d.id]] > 0

Indexed == \A x \in Experiences : open[x] = 0 => Points(x) = Documents(library, x)

(* Without a timeout no thread is left behind, and the job is as it should be. *)
Quiet == thread = NoJob /\ JobIsCurrent /\ JobHasDeleted /\ TakenIdsAreOpen /\ Indexed

Inv == Types /\ IdsOK /\ JobOwnsRow /\ (timeouts = 0 => Quiet)

-----------------------------------------------------------------------------
(* Documents.                                                              *)

(* The documents of an experience are made from the evidence it owns. *)
LEMMA DocumentsOfExperience ==
  ASSUME NEW lib \in Tables, NEW x \in Experiences
  PROVE  /\ Documents(lib, x) \subseteq AllDocuments
         /\ DistinctIds(Documents(lib, x))
         /\ \A d \in Documents(lib, x) :
              d.experience = x /\ d.id \in DOMAIN lib.owner /\ lib.owner[d.id] = x
<1>1. PICK D \in SUBSET EvidenceIds : lib.owner \in [D -> Experiences]
  BY DEF Tables, Owners
<1>2. lib.labels \in [Experiences -> SUBSET Skills]
  BY DEF Tables
<1>3. ASSUME NEW d \in Documents(lib, x)
      PROVE  \E e \in D : d = [id |-> e, experience |-> x, labels |-> lib.labels[x]] /\ lib.owner[e] = x
  BY <1>1, <1>3 DEF Documents, Document, EvidenceOf
<1>4. Documents(lib, x) \subseteq AllDocuments
  BY <1>1, <1>2, <1>3 DEF AllDocuments
<1>5. DistinctIds(Documents(lib, x))
  BY <1>3 DEF DistinctIds
<1> QED
  BY <1>1, <1>3, <1>4, <1>5

(* An upsert keeps ids apart, adds the documents, and takes away no other id. *)
LEMMA UpsertKeepsIds ==
  ASSUME DistinctIds(points), NEW docs, DistinctIds(docs)
  PROVE  DistinctIds(Upsert(docs))
BY DEF DistinctIds, Upsert

-----------------------------------------------------------------------------
(* Writes to the experiences.                                              *)

(* A write of one experience changes no documents of another and takes no    *)
(* evidence for another.                                                     *)
LEMMA WriteKeepsInv ==
  ASSUME Inv, NEW x \in Experiences, NEW lib \in Tables, Write(x, lib),
         \A y \in Experiences \ {x} : Documents(lib, y) = Documents(library, y),
         \A e \in DOMAIN lib.owner : lib.owner[e] # x =>
            e \in DOMAIN library.owner /\ lib.owner[e] = library.owner[e]
  PROVE  Inv'
<1>1. /\ library' = lib /\ open' = [open EXCEPT ![x] = @ + 1] /\ open \in [Experiences -> Nat]
      /\ points' = points /\ job' = job /\ thread' = thread /\ timeouts' = timeouts
      /\ edits' = edits + 1 /\ faults' = faults
  BY DEF Inv, Types, Write, Enqueued
<1>2. Types' /\ IdsOK'
  BY <1>1 DEF Inv, Types, IdsOK, DistinctIds
<1>3. /\ \A y \in Experiences : open'[y] >= open[y] /\ (y # x => open'[y] = open[y])
      /\ open'[x] = open[x] + 1 /\ open[x] \in Nat
  BY <1>1
<1>4. job # NoJob => job.experience \in Experiences /\ open[job.experience] \in Nat
  BY <1>1 DEF Inv, Types, Jobs
<1>5. JobOwnsRow'
  BY <1>1, <1>3, <1>4 DEF Inv, JobOwnsRow
<1>6. ASSUME timeouts = 0
      PROVE  Quiet'
  <2>1. Quiet
    BY <1>6 DEF Inv
  <2>2. JobIsCurrent'
    <3> SUFFICES ASSUME job # NoJob, open'[job.experience] = 1
                 PROVE  IF job.stage = "mark"
                          THEN Points(job.experience)' = Documents(lib, job.experience)
                          ELSE job.documents = Documents(lib, job.experience)
      BY <1>1 DEF JobIsCurrent, Points
    <3>1. job.experience # x
      BY <1>3, <1>4 DEF Inv, JobOwnsRow
    <3>2. open[job.experience] = 1
      BY <1>3, <1>4, <3>1
    <3>3. Points(job.experience)' = Points(job.experience)
      BY <1>1 DEF Points
    <3> QED
      BY <1>4, <2>1, <3>1, <3>2, <3>3 DEF Quiet, JobIsCurrent
  <2>3. JobHasDeleted'
    BY <1>1, <2>1 DEF Quiet, JobHasDeleted, Points
  <2>4. TakenIdsAreOpen'
    <3> SUFFICES ASSUME job # NoJob, NEW d \in job.documents, d.id \in DOMAIN lib.owner,
                        lib.owner[d.id] # job.experience
                 PROVE  open'[lib.owner[d.id]] > 0
      BY <1>1 DEF TakenIdsAreOpen
    <3>1. lib.owner[d.id] \in Experiences
      BY DEF Tables, Owners
    <3>2. CASE lib.owner[d.id] = x
      BY <1>3, <3>2
    <3>3. CASE lib.owner[d.id] # x
      BY <1>3, <2>1, <3>1, <3>3 DEF Quiet, TakenIdsAreOpen
    <3> QED
      BY <3>2, <3>3
  <2>5. Indexed'
    <3> SUFFICES ASSUME NEW y \in Experiences, open'[y] = 0
                 PROVE  Points(y)' = Documents(lib, y)
      BY <1>1 DEF Indexed
    <3>1. y # x /\ open[y] = 0
      BY <1>3
    <3>2. Points(y)' = Points(y)
      BY <1>1 DEF Points
    <3> QED
      BY <2>1, <3>1, <3>2 DEF Quiet, Indexed
  <2> QED
    BY <1>1, <2>1, <2>2, <2>3, <2>4, <2>5 DEF Quiet
<1> QED
  BY <1>1, <1>2, <1>5, <1>6 DEF Inv

(* Every edit is such a write. *)
LEMMA EditKeepsInv ==
  ASSUME Inv, NEW x \in Experiences, Edit(x)
  PROVE  Inv'
<1>1. library \in Tables
  BY DEF Inv, Types
<1>2. CASE SetReady(x)
  <2> DEFINE lib == [library EXCEPT !.ready = IF x \in @ THEN @ \ {x} ELSE @ \cup {x}]
  <2>1. /\ lib \in Tables /\ lib.owner = library.owner /\ lib.labels = library.labels
        /\ \A y \in Experiences \ {x} : y \in lib.ready <=> y \in library.ready
    BY <1>1 DEF Tables
  <2>2. \A y \in Experiences \ {x} : Documents(lib, y) = Documents(library, y)
    BY <2>1 DEF Documents, Document, EvidenceOf
  <2>3. Write(x, lib)
    BY <1>2 DEF SetReady
  <2> HIDE DEF lib
  <2> QED
    BY <2>1, <2>2, <2>3, WriteKeepsInv
<1>3. CASE Relabel(x)
  <2>1. PICK s \in SUBSET Skills : Write(x, [library EXCEPT !.labels[x] = s])
    BY <1>3 DEF Relabel
  <2> DEFINE lib == [library EXCEPT !.labels[x] = s]
  <2>2. /\ lib \in Tables /\ lib.owner = library.owner /\ lib.ready = library.ready
        /\ \A y \in Experiences \ {x} : lib.labels[y] = library.labels[y]
    BY <1>1 DEF Tables
  <2>3. \A y \in Experiences \ {x} : Documents(lib, y) = Documents(library, y)
    BY <2>2 DEF Documents, Document, EvidenceOf
  <2> HIDE DEF lib
  <2> QED
    BY <2>1, <2>2, <2>3, WriteKeepsInv DEF lib
<1>4. CASE AddEvidence(x)
  <2>1. PICK i \in EvidenceIds :
          /\ NextId(i)
          /\ Write(x, [library EXCEPT !.owner = [e \in DOMAIN @ \cup {i} |-> IF e = i THEN x ELSE @[e]]])
    BY <1>4 DEF AddEvidence
  <2> DEFINE owner == [e \in DOMAIN library.owner \cup {i} |-> IF e = i THEN x ELSE library.owner[e]]
             lib == [library EXCEPT !.owner = owner]
  <2>2. PICK D \in SUBSET EvidenceIds : library.owner \in [D -> Experiences]
    BY <1>1 DEF Tables, Owners
  <2>3. i \notin D
    BY <2>1, <2>2 DEF NextId, EvidenceIds
  <2>4. owner \in [D \cup {i} -> Experiences] /\ D \cup {i} \in SUBSET EvidenceIds
    BY <2>2
  <2>5. owner \in Owners
    BY <2>4 DEF Owners
  <2>6. /\ lib \in Tables /\ lib.owner = owner
        /\ lib.labels = library.labels /\ lib.ready = library.ready
    BY <1>1, <2>5 DEF Tables
  <2>7. \A e \in D : owner[e] = library.owner[e]
    BY <2>2, <2>3
  <2>8. owner[i] = x /\ DOMAIN owner = D \cup {i} /\ DOMAIN library.owner = D
    BY <2>2
  <2> HIDE DEF owner
  <2>9. \A y \in Experiences \ {x} : EvidenceOf(lib, y) = EvidenceOf(library, y)
    BY <2>6, <2>7, <2>8 DEF EvidenceOf
  <2>10. \A y \in Experiences \ {x} : Documents(lib, y) = Documents(library, y)
    BY <2>6, <2>7, <2>8, <2>9 DEF Documents, Document, EvidenceOf
  <2>11. Write(x, lib)
    BY <2>1 DEF owner
  <2> HIDE DEF lib
  <2> QED
    BY <2>6, <2>7, <2>8, <2>10, <2>11, WriteKeepsInv
<1>5. CASE RemoveEvidence(x)
  <2>1. PICK i \in EvidenceOf(library, x) :
          Write(x, [library EXCEPT !.owner = [f \in DOMAIN @ \ {i} |-> @[f]]])
    BY <1>5 DEF RemoveEvidence
  <2> DEFINE owner == [f \in DOMAIN library.owner \ {i} |-> library.owner[f]]
             lib == [library EXCEPT !.owner = owner]
  <2>2. PICK D \in SUBSET EvidenceIds : library.owner \in [D -> Experiences]
    BY <1>1 DEF Tables, Owners
  <2>3. owner \in [D \ {i} -> Experiences]
    BY <2>2
  <2>4. owner \in Owners
    BY <2>3 DEF Owners
  <2>5. /\ lib \in Tables /\ lib.owner = owner
        /\ lib.labels = library.labels /\ lib.ready = library.ready
    BY <1>1, <2>4 DEF Tables
  <2>6. /\ \A e \in D \ {i} : owner[e] = library.owner[e]
        /\ DOMAIN owner = D \ {i} /\ DOMAIN library.owner = D /\ library.owner[i] = x
    BY <2>1, <2>2 DEF EvidenceOf
  <2> HIDE DEF owner
  <2>7. \A y \in Experiences \ {x} : EvidenceOf(lib, y) = EvidenceOf(library, y)
    BY <2>5, <2>6 DEF EvidenceOf
  <2>8. \A y \in Experiences \ {x} : Documents(lib, y) = Documents(library, y)
    BY <2>5, <2>6, <2>7 DEF Documents, Document, EvidenceOf
  <2>9. Write(x, lib)
    BY <2>1 DEF owner
  <2> HIDE DEF lib
  <2> QED
    BY <2>5, <2>6, <2>8, <2>9, WriteKeepsInv
<1> QED
  BY <1>2, <1>3, <1>4, <1>5 DEF Edit

-----------------------------------------------------------------------------
(* The worker.                                                             *)

(* A row is delivered and its experience read. *)
LEMMA JobStartKeepsInv ==
  ASSUME Inv, NEW x \in Experiences, JobStart(x)
  PROVE  Inv'
<1> DEFINE docs == Documents(library, x)
           new == [stage |-> "delete", experience |-> x, documents |-> docs]
<1>1. /\ docs \subseteq AllDocuments /\ DistinctIds(docs)
      /\ \A d \in docs : d.experience = x /\ d.id \in DOMAIN library.owner /\ library.owner[d.id] = x
  BY DocumentsOfExperience DEF Inv, Types
<1>2. /\ job' = new /\ open[x] > 0 /\ library' = library /\ open' = open /\ points' = points
      /\ thread' = thread /\ edits' = edits /\ faults' = faults /\ timeouts' = timeouts
  BY DEF JobStart
<1> HIDE DEF docs
<1>3. /\ new \in Jobs /\ new # NoJob /\ new.stage = "delete"
      /\ new.experience = x /\ new.documents = docs
  BY <1>1 DEF Jobs, NoJob
<1> HIDE DEF new
<1>4. Types'
  BY <1>2, <1>3 DEF Inv, Types
<1>5. IdsOK'
  BY <1>1, <1>2, <1>3 DEF Inv, IdsOK, DistinctIds
<1>6. JobOwnsRow'
  BY <1>1, <1>2, <1>3 DEF JobOwnsRow
<1>7. ASSUME timeouts = 0
      PROVE  Quiet'
  <2>1. Quiet
    BY <1>7 DEF Inv
  <2>2. TakenIdsAreOpen' /\ JobHasDeleted'
    BY <1>1, <1>2, <1>3 DEF TakenIdsAreOpen, JobHasDeleted
  <2>3. JobIsCurrent'
    BY <1>2, <1>3 DEF JobIsCurrent, docs
  <2>4. Indexed'
    BY <1>2, <2>1 DEF Quiet, Indexed, Points
  <2> QED
    BY <1>2, <2>1, <2>2, <2>3, <2>4 DEF Quiet
<1> QED
  BY <1>2, <1>4, <1>5, <1>6, <1>7 DEF Inv

(* A stage of a job is a job. *)
LEMMA StageType ==
  ASSUME NEW w \in Jobs, w # NoJob, NEW stage \in {"delete", "add", "mark"}
  PROVE  /\ [w EXCEPT !.stage = stage] \in Jobs
         /\ [w EXCEPT !.stage = stage] # NoJob
         /\ [w EXCEPT !.stage = stage].stage = stage
         /\ [w EXCEPT !.stage = stage].experience = w.experience
         /\ [w EXCEPT !.stage = stage].documents = w.documents
         /\ w.experience \in Experiences /\ w.documents \subseteq AllDocuments
<1>1. w \in [stage: {"delete", "add", "mark"}, experience: Experiences, documents: SUBSET AllDocuments]
  BY DEF Jobs
<1>2. [w EXCEPT !.stage = stage] \in
        [stage: {"delete", "add", "mark"}, experience: Experiences, documents: SUBSET AllDocuments]
  BY <1>1
<1> QED
  BY <1>1, <1>2 DEF Jobs, NoJob

(* The points of the experience of the job are deleted, and no others. *)
LEMMA JobDeleteKeepsInv ==
  ASSUME Inv, JobDelete
  PROVE  Inv'
<1> DEFINE x == job.experience
           new == [job EXCEPT !.stage = "add"]
<1>1. /\ job \in Jobs /\ job.stage = "delete" /\ job # NoJob
      /\ job' = new /\ points' = points \ Points(x) /\ library' = library /\ open' = open
      /\ thread' = thread /\ edits' = edits /\ faults' = faults /\ timeouts' = timeouts
  BY DEF Inv, Types, JobDelete, Deleted, NoJob
<1>2. /\ new \in Jobs /\ new # NoJob /\ new.stage = "add"
      /\ new.experience = x /\ new.documents = job.documents /\ x \in Experiences
  BY <1>1, StageType
<1> HIDE DEF new
<1>3. Types'
  BY <1>1, <1>2 DEF Inv, Types
<1>4. IdsOK'
  BY <1>1, <1>2 DEF Inv, IdsOK, DistinctIds
<1>5. JobOwnsRow'
  BY <1>1, <1>2 DEF Inv, JobOwnsRow
<1>6. ASSUME timeouts = 0
      PROVE  Quiet'
  <2>1. Quiet
    BY <1>6 DEF Inv
  <2>2. TakenIdsAreOpen' /\ JobIsCurrent'
    BY <1>1, <1>2, <2>1 DEF Quiet, TakenIdsAreOpen, JobIsCurrent
  <2>3. JobHasDeleted'
    BY <1>1, <1>2 DEF JobHasDeleted, Points
  <2>4. Indexed'
    <3> SUFFICES ASSUME NEW y \in Experiences, open[y] = 0
                 PROVE  Points(y)' = Documents(library, y)
      BY <1>1 DEF Indexed
    <3>1. y # x
      BY <1>1 DEF Inv, JobOwnsRow
    <3>2. Points(y)' = Points(y)
      BY <1>1, <3>1 DEF Points
    <3> QED
      BY <2>1, <3>2 DEF Quiet, Indexed
  <2> QED
    BY <1>1, <2>1, <2>2, <2>3, <2>4 DEF Quiet
<1> QED
  BY <1>1, <1>3, <1>4, <1>5, <1>6 DEF Inv

(* The documents are added.  They may take the place of a point of another    *)
(* experience, but then the id has changed hands and that one is open.        *)
LEMMA JobAddKeepsInv ==
  ASSUME Inv, JobAdd
  PROVE  Inv'
<1> DEFINE x == job.experience
           docs == job.documents
           new == [job EXCEPT !.stage = "mark"]
<1>1. /\ job \in Jobs /\ job.stage = "add" /\ job # NoJob
      /\ job' = new /\ points' = Upsert(docs) /\ library' = library /\ open' = open
      /\ thread' = thread /\ edits' = edits /\ faults' = faults /\ timeouts' = timeouts
  BY DEF Inv, Types, JobAdd, NoJob
<1>2. /\ new \in Jobs /\ new # NoJob /\ new.stage = "mark" /\ x \in Experiences
      /\ new.experience = x /\ new.documents = docs /\ docs \subseteq AllDocuments
  BY <1>1, StageType
<1> HIDE DEF new
<1>3. Types'
  BY <1>1, <1>2 DEF Inv, Types, Upsert
<1>4. IdsOK'
  BY <1>1, <1>2, UpsertKeepsIds DEF Inv, IdsOK, DistinctIds
<1>5. JobOwnsRow'
  BY <1>1, <1>2 DEF Inv, JobOwnsRow
<1>6. ASSUME timeouts = 0
      PROVE  Quiet'
  <2>1. Quiet
    BY <1>6 DEF Inv
  <2>2. \A d \in docs : d.experience = x
    BY <1>1 DEF Inv, JobOwnsRow
  <2>3. TakenIdsAreOpen' /\ JobHasDeleted'
    BY <1>1, <1>2, <2>1 DEF Quiet, TakenIdsAreOpen, JobHasDeleted
  <2>4. JobIsCurrent'
    <3> SUFFICES ASSUME open[x] = 1
                 PROVE  Points(x)' = Documents(library, x)
      BY <1>1, <1>2 DEF JobIsCurrent, Points
    <3>1. docs = Documents(library, x)
      BY <1>1, <2>1 DEF Quiet, JobIsCurrent
    <3>2. Points(x) = {}
      BY <1>1, <2>1 DEF Quiet, JobHasDeleted
    <3>3. Points(x)' = docs
      BY <1>1, <1>2, <2>2, <3>2 DEF Points, Upsert
    <3> QED
      BY <1>1, <1>2, <3>1, <3>3
  <2>5. Indexed'
    <3> SUFFICES ASSUME NEW y \in Experiences, open[y] = 0
                 PROVE  Points(y)' = Documents(library, y)
      BY <1>1 DEF Indexed
    <3>1. y # x
      BY <1>1 DEF Inv, JobOwnsRow
    <3>2. Points(y) = Documents(library, y)
      BY <2>1 DEF Quiet, Indexed
    <3>3. \A p \in Points(y) : p.id \in DOMAIN library.owner /\ library.owner[p.id] = y
      BY <3>2, DocumentsOfExperience DEF Inv, Types
    <3>4. \A p \in Points(y) : \A d \in docs : d.id # p.id
      BY <1>1, <2>1, <3>1, <3>3 DEF Quiet, TakenIdsAreOpen
    <3>5. Points(y)' = Points(y)
      BY <1>1, <2>2, <3>1, <3>4 DEF Points, Upsert
    <3> QED
      BY <3>2, <3>5
  <2> QED
    BY <1>1, <2>1, <2>3, <2>4, <2>5 DEF Quiet
<1> QED
  BY <1>1, <1>3, <1>4, <1>5, <1>6 DEF Inv

(* The row is processed: if it was the last one, the index is current. *)
LEMMA JobMarkKeepsInv ==
  ASSUME Inv, JobMark
  PROVE  Inv'
<1> DEFINE x == job.experience
<1>1. /\ job \in Jobs /\ job.stage = "mark" /\ job # NoJob
      /\ job' = NoJob /\ open' = [open EXCEPT ![x] = @ - 1] /\ library' = library
      /\ points' = points /\ thread' = thread
      /\ edits' = edits /\ faults' = faults /\ timeouts' = timeouts
  BY DEF Inv, Types, JobMark, NoJob
<1>2. x \in Experiences
  BY <1>1, StageType
<1>3. open \in [Experiences -> Nat]
  BY DEF Inv, Types
<1>4. open[x] > 0
  BY <1>1 DEF Inv, JobOwnsRow
<1>5. Types'
  BY <1>1, <1>2, <1>3, <1>4 DEF Inv, Types, Jobs
<1>6. IdsOK' /\ JobOwnsRow'
  BY <1>1 DEF Inv, IdsOK, JobOwnsRow, DistinctIds
<1>7. ASSUME timeouts = 0
      PROVE  Quiet'
  <2>1. Quiet
    BY <1>7 DEF Inv
  <2>2. Indexed'
    <3> SUFFICES ASSUME NEW y \in Experiences, open'[y] = 0
                 PROVE  Points(y) = Documents(library, y)
      BY <1>1 DEF Indexed, Points
    <3>1. CASE y = x
      BY <1>1, <1>2, <1>3, <2>1, <3>1 DEF Quiet, JobIsCurrent
    <3>2. CASE y # x
      BY <1>1, <1>2, <1>3, <2>1, <3>2 DEF Quiet, Indexed
    <3> QED
      BY <3>1, <3>2
  <2> QED
    BY <1>1, <2>1, <2>2 DEF Quiet, JobIsCurrent, JobHasDeleted, TakenIdsAreOpen, NoJob
<1> QED
  BY <1>1, <1>5, <1>6, <1>7 DEF Inv

(* What fails, is left behind, or dies. *)
LEMMA FaultsKeepInv ==
  ASSUME Inv, JobFails \/ JobTimeout \/ ThreadDelete \/ ThreadAdd \/ WorkerRestart
  PROVE  Inv'
<1>1. CASE JobFails
  <2>1. /\ job' = NoJob /\ library' = library /\ open' = open /\ points' = points
        /\ thread' = thread /\ edits' = edits /\ faults' = faults + 1 /\ timeouts' = timeouts
    BY <1>1 DEF JobFails, Fault
  <2>2. Types' /\ IdsOK' /\ JobOwnsRow'
    BY <2>1 DEF Inv, Types, IdsOK, JobOwnsRow, DistinctIds, Jobs
  <2>3. Quiet => Quiet'
    BY <2>1 DEF Quiet, JobIsCurrent, JobHasDeleted, TakenIdsAreOpen, Indexed, Points, NoJob
  <2> QED
    BY <2>1, <2>2, <2>3 DEF Inv
<1>2. CASE JobTimeout
  <2>1. /\ job' = NoJob /\ library' = library /\ open' = open /\ points' = points
        /\ thread' = job /\ job.stage # "mark" /\ job # NoJob
        /\ edits' = edits /\ faults' = faults + 1 /\ timeouts' = timeouts + 1
    BY <1>2 DEF JobTimeout, Fault, NoJob
  <2>2. Types' /\ IdsOK' /\ JobOwnsRow'
    BY <2>1 DEF Inv, Types, IdsOK, JobOwnsRow, DistinctIds, Jobs
  <2> QED
    BY <2>1, <2>2 DEF Inv, Types
<1>3. CASE ThreadDelete \/ ThreadAdd
  <2>1. PICK stage \in {"none", "add"} :
          /\ points' = IF stage = "add" THEN Deleted(thread) ELSE Upsert(thread.documents)
          /\ thread' = IF stage = "add" THEN [thread EXCEPT !.stage = "add"] ELSE NoJob
          /\ thread \in Jobs /\ thread # NoJob
          /\ library' = library /\ open' = open /\ job' = job
          /\ edits' = edits /\ faults' = faults /\ timeouts' = timeouts
    BY <1>3 DEF ThreadDelete, ThreadAdd, Inv, Types, NoJob
  <2> DEFINE next == [thread EXCEPT !.stage = "add"]
  <2>2. /\ next \in Jobs /\ next # NoJob /\ next.stage = "add"
        /\ next.documents = thread.documents /\ thread.documents \subseteq AllDocuments
    BY <2>1, StageType
  <2> HIDE DEF next
  <2>3. points' \in SUBSET AllDocuments /\ thread' \in Jobs /\ thread'.stage # "mark"
    BY <2>1, <2>2 DEF Inv, Types, Deleted, Upsert, Jobs, NoJob, next
  <2>4. Types' /\ JobOwnsRow'
    BY <2>1, <2>3 DEF Inv, Types, JobOwnsRow
  <2>5. DistinctIds(points')
    <3>1. DistinctIds(points) /\ DistinctIds(thread.documents)
      BY <2>1 DEF Inv, IdsOK
    <3> QED
      BY <2>1, <3>1, UpsertKeepsIds DEF DistinctIds, Deleted
  <2>6. IdsOK'
    BY <2>1, <2>2, <2>5 DEF Inv, IdsOK, DistinctIds, next
  <2> QED
    BY <2>1, <2>4, <2>6 DEF Inv, Quiet
<1>4. CASE WorkerRestart
  <2>1. /\ job' = NoJob /\ library' = library /\ points' = points /\ thread' = NoJob
        /\ open' = [y \in Experiences |-> open[y] + 1]
        /\ edits' = edits /\ faults' = faults + 1 /\ timeouts' = timeouts
    BY <1>4 DEF WorkerRestart, Fault, Bootstrapped
  <2>2. Types' /\ IdsOK' /\ JobOwnsRow'
    BY <2>1 DEF Inv, Types, IdsOK, JobOwnsRow, DistinctIds, Jobs, NoJob
  <2>3. \A y \in Experiences : open'[y] # 0
    BY <2>1 DEF Inv, Types
  <2>4. Quiet'
    BY <2>1, <2>3 DEF Quiet, JobIsCurrent, JobHasDeleted, TakenIdsAreOpen, Indexed, NoJob
  <2> QED
    BY <2>2, <2>4 DEF Inv
<1> QED
  BY <1>1, <1>2, <1>3, <1>4

-----------------------------------------------------------------------------
(* The invariant and what follows from it.                                 *)

(* It holds to begin with, when nothing is open and the index is complete. *)
LEMMA InitHasInv ==
  ASSUME InitIndex
  PROVE  Inv
<1>1. /\ library \in Tables /\ open = [x \in Experiences |-> 0]
      /\ points = UNION {Documents(library, x) : x \in Experiences}
      /\ job = NoJob /\ thread = NoJob /\ edits = 0 /\ faults = 0 /\ timeouts = 0
  BY LibrariesTyped DEF InitIndex
<1>2. \A x \in Experiences :
        /\ Documents(library, x) \subseteq AllDocuments
        /\ DistinctIds(Documents(library, x))
        /\ \A d \in Documents(library, x) : d.experience = x /\ library.owner[d.id] = x
  BY <1>1, DocumentsOfExperience
<1>3. points \in SUBSET AllDocuments
  BY <1>1, <1>2
<1>4. Types
  BY <1>1, <1>3 DEF Types, Jobs, NoJob
<1>5. DistinctIds(points)
  BY <1>1, <1>2 DEF DistinctIds
<1>6. IdsOK /\ JobOwnsRow
  BY <1>1, <1>5 DEF IdsOK, JobOwnsRow
<1>7. \A x \in Experiences : Points(x) = Documents(library, x)
  BY <1>1, <1>2 DEF Points
<1>8. Quiet
  BY <1>1, <1>7 DEF Quiet, JobIsCurrent, JobHasDeleted, TakenIdsAreOpen, Indexed, NoJob
<1> QED
  BY <1>4, <1>6, <1>8 DEF Inv

(* Every step of the index keeps it. *)
LEMMA NextKeepsInv ==
  ASSUME Inv, [IndexNext]_indexVars
  PROVE  Inv'
<1>1. CASE UNCHANGED indexVars
  BY <1>1 DEF indexVars, Inv, Types, IdsOK, DistinctIds, JobOwnsRow, Quiet, JobIsCurrent,
              JobHasDeleted, TakenIdsAreOpen, Indexed, Points
<1>2. CASE IndexNext
  BY <1>2, EditKeepsInv, JobStartKeepsInv, JobDeleteKeepsInv, JobAddKeepsInv, JobMarkKeepsInv,
     FaultsKeepInv DEF IndexNext, Job
<1> QED
  BY <1>1, <1>2

(* The invariant holds throughout. *)
THEOREM IndexInvHolds == IndexSpec => []Inv
BY InitHasInv, NextKeepsInv, PTL DEF IndexSpec

(* Types, and ids of points that tell them apart: the points of an item of    *)
(* evidence are replaced, whichever thread writes (_replace_experience).       *)
THEOREM IndexTypesHold == IndexSpec => []IndexTypeOK
<1>1. Inv => IndexTypeOK
  BY DEF Inv, Types, IdsOK, DistinctIds, IndexTypeOK, Tables, Owners, Jobs, NoJob
<1> QED
  BY <1>1, IndexInvHolds, PTL

(* While no row of an experience is open, the index holds what the experience *)
(* is now, whatever was written, failed or restarted, unless a job timed out. *)
THEOREM IndexedWhenProcessed == IndexSpec => []ProcessedIsIndexed
<1>1. Inv => ProcessedIsIndexed
  BY DEF Inv, Quiet, Indexed, ProcessedIsIndexed
<1> QED
  BY <1>1, IndexInvHolds, PTL

-----------------------------------------------------------------------------
(* The generation: its invariant.                                          *)

(* What follows from the checks of the judge: judgments of distinct evidence. *)
JudgmentsOK(js) ==
  /\ IsFiniteSet(js)
  /\ \A j \in js : j.coverage \subseteq Coverage /\ j.evidence \in Nat
  /\ \A j, k \in js : j.evidence = k.evidence => j = k

RowsOK(Rows) ==
  /\ DOMAIN Rows \subseteq Experiences
  /\ \A x \in DOMAIN Rows : Rows[x] # {} /\ JudgmentsOK(Rows[x])

InSection(sel, s) == {x \in DOMAIN sel : Section[x] = s}

(* The limits of the pages, for what is selected. *)
WithinPages(sel) ==
  /\ Cardinality(DOMAIN sel) <= MaxTotal
  /\ \A s \in DOMAIN SectionLimits : Cardinality(InSection(sel, s)) <= SectionLimits[s]

(* After any round of the loop. *)
SelectionOK(Rows, acc) ==
  /\ DOMAIN acc.selected \subseteq DOMAIN Rows
  /\ \A x \in DOMAIN acc.selected : acc.selected[x] = ChosenRows(Rows[x])
  /\ WithinPages(acc.selected)

PlanOK(plan, snapshot) ==
  /\ DOMAIN plan.selected \subseteq snapshot.ready
  /\ WithinPages(plan.selected)
  /\ \A x \in DOMAIN plan.selected :
       IsFiniteSet(plan.selected[x]) /\ Cardinality(plan.selected[x]) <= MaxBullets

DraftOK(draft) ==
  \A x \in Experiences : Cardinality({b \in draft.bullets : b.experience = x}) <= MaxBullets

(* The graph works for a run that is running. *)
GraphFields == {"node", "snapshot", "round", "retrieved", "new", "plan", "draft"}

GraphOK ==
  /\ graph.node \in {"none", "retrieve", "judge", "draft", "validate"}
  /\ graph.node # "none" =>
       /\ DOMAIN graph = GraphFields /\ run.status = "running"
       /\ graph.round \in 1..MaxSearchRounds
       /\ graph.snapshot.ready \subseteq Experiences
  /\ graph.node \in {"retrieve", "judge"} =>
       graph.retrieved \subseteq AllDocuments /\ DistinctIds(graph.retrieved)
  /\ graph.node \in {"draft", "validate"} => PlanOK(graph.plan, graph.snapshot)
  /\ graph.node = "validate" => DraftOK(graph.draft)

RunFields == {"status", "artifact", "resume", "mode"}
Results == {"snapshot", "plan", "draft", "check", "valid"}

(* A result is stored with the completion of its run. *)
RunOK ==
  /\ run.status \in {"none", "running", "completed", "failed"}
  /\ run.status = "running" => DOMAIN run = RunFields
  /\ run.status # "completed" => run.artifact = "pending" /\ run.resume = FALSE
  /\ run.status = "completed" =>
       /\ DOMAIN run = RunFields \cup Results
       /\ run.artifact \in {"previewed", "confirmed"} /\ run.resume = (run.artifact = "confirmed")
       /\ run.snapshot.ready \subseteq Experiences
       /\ PlanOK(run.plan, run.snapshot) /\ DraftOK(run.draft)
       /\ run.valid => \A b \in run.draft.bullets : Cites(run.plan, b, run.snapshot)

(* What a confirmation has found out about the run. *)
Accepted == /\ run.status = "completed" /\ run.valid
            /\ run.mode # "deterministic" => run.check = "supported"

ResumeOK ==
  /\ (resume # Nothing) = (run.artifact = "confirmed")
  /\ resume # Nothing => Accepted /\ resume.draft = run.draft

Confirmations == [stage: {"idle", "look", "confirmed", "error"}]
                 \cup [stage: {"write"}, existing: BOOLEAN]

ConfirmOK ==
  /\ confirm \in [Clients -> Confirmations]
  /\ \A c \in Clients :
       /\ confirm[c].stage \in {"look", "write"} => Accepted
       /\ confirm[c].stage = "confirmed" => resume # Nothing
       /\ confirm[c].stage = "write" /\ confirm[c].existing => resume # Nothing

GenInv == Inv /\ GraphOK /\ RunOK /\ ResumeOK /\ ConfirmOK

-----------------------------------------------------------------------------
(* Induction, finite sets and sums.                                         *)

(* Every set of natural numbers has a least one. *)
LEMMA LeastNatural ==
  ASSUME NEW T, T \subseteq Nat, T # {}
  PROVE  \E n \in T : \A m \in T : n <= m
<1>1. PICK n \in T : \A m \in T : ~(<<m, n>> \in OpToRel(<, Nat))
  BY WFMin, NatLessThanWellFounded
<1>2. \A m \in T : ~(m < n)
  BY <1>1 DEF OpToRel
<1> QED
  BY <1>2

(* Induction over the natural numbers, for a set. *)
LEMMA Induction ==
  ASSUME NEW T, 0 \in T, \A n \in Nat : n \in T => n + 1 \in T
  PROVE  Nat \subseteq T
<1> DEFINE U == Nat \ T
<1>1. SUFFICES ASSUME U # {}
               PROVE  FALSE
  OBVIOUS
<1>2. PICK n \in U : \A m \in U : n <= m
  <2> HIDE DEF U
  <2> QED
    BY <1>1, LeastNatural DEF U
<1> QED
  BY <1>2

(* A finite set has an element that no other precedes in a strict order. *)
LEMMA FirstOfFinite ==
  ASSUME NEW S, IsFiniteSet(S), S # {}, NEW Before,
         \A x \in S : <<x, x>> \notin Before,
         \A x, y, z \in S : <<x, y>> \in Before /\ <<y, z>> \in Before => <<x, z>> \in Before
  PROVE  \E x \in S : \A y \in S : <<y, x>> \notin Before
<1> DEFINE below == [x \in S |-> {y \in S : <<y, x>> \in Before}]
           size == [x \in S |-> Cardinality(below[x])]
           Sizes == {size[x] : x \in S}
<1>1. /\ \A x \in S : below[x] \in SUBSET S
      /\ \A x, y \in S : y \in below[x] <=> <<y, x>> \in Before
  OBVIOUS
<1> HIDE DEF below
<1>2. \A x \in S : IsFiniteSet(below[x]) /\ size[x] = Cardinality(below[x]) /\ size[x] \in Nat
  BY <1>1, FS_Subset, FS_CardinalityType
<1> HIDE DEF size
<1>3. PICK x \in S : \A y \in S : size[x] <= size[y]
  <2>1. Sizes \subseteq Nat /\ Sizes # {}
    BY <1>2
  <2>2. PICK n \in Sizes : \A m \in Sizes : n <= m
    <3> HIDE DEF Sizes
    <3> QED
      BY <2>1, LeastNatural
  <2> QED
    BY <2>2
<1>4. ASSUME NEW y \in S, <<y, x>> \in Before
      PROVE  FALSE
  <2>1. below[y] \subseteq below[x] /\ y \in below[x] /\ y \notin below[y]
    BY <1>1, <1>4
  <2>2. /\ Cardinality(below[y]) <= Cardinality(below[x])
        /\ Cardinality(below[x]) = Cardinality(below[y]) => below[x] = below[y]
    BY <1>2, <2>1, FS_Subset
  <2> QED
    BY <1>2, <1>3, <2>1, <2>2
<1> QED
  BY <1>4

AnyOf(s) == CHOOSE x \in s : TRUE

(* A sum of finitely many integers, in whatever order, is an integer. *)
LEMMA SumIsInt ==
  ASSUME NEW S, IsFiniteSet(S), NEW f \in [S -> Int]
  PROVE  SumFunction(f) \in Int
<1> DEFINE iter[s \in SUBSET S] == IF s = {} THEN 0 ELSE f[AnyOf(s)] + iter[s \ {AnyOf(s)}]
           Small(n) == {s \in SUBSET S : Cardinality(s) <= n}
           Good(g, n) == /\ g \in [Small(n) -> Int]
                         /\ \A s \in Small(n) :
                              g[s] = IF s = {} THEN 0 ELSE f[AnyOf(s)] + g[s \ {AnyOf(s)}]
           T == {n \in Nat : \E g : Good(g, n)}
<1>1. \A s \in SUBSET S : IsFiniteSet(s) /\ Cardinality(s) \in Nat /\ (Cardinality(s) = 0 <=> s = {})
  BY FS_Subset, FS_CardinalityType, FS_EmptySet
<1>2. 0 \in T
  <2> DEFINE g == [s \in Small(0) |-> 0]
  <2>1. \A s \in Small(0) : s = {}
    BY <1>1
  <2>2. Good(g, 0)
    BY <2>1
  <2> QED
    BY <2>2
<1>3. ASSUME NEW n \in Nat, n \in T
      PROVE  n + 1 \in T
  <2>1. PICK g : Good(g, n)
    BY <1>3
  <2> DEFINE h == [s \in Small(n + 1) |-> IF s = {} THEN 0 ELSE f[AnyOf(s)] + g[s \ {AnyOf(s)}]]
  <2>2. ASSUME NEW s \in Small(n + 1), s # {}
        PROVE  /\ s \ {AnyOf(s)} \in Small(n) /\ s \ {AnyOf(s)} \in Small(n + 1)
               /\ f[AnyOf(s)] \in Int
    <3>1. AnyOf(s) \in s
      BY <2>2 DEF AnyOf
    <3>2. Cardinality(s \ {AnyOf(s)}) = Cardinality(s) - 1
      BY <3>1, <1>1, FS_RemoveElement
    <3> QED
      BY <3>1, <3>2, <1>1
  <2>3. h \in [Small(n + 1) -> Int]
    BY <2>1, <2>2
  <2>4. \A s \in Small(n) : h[s] = g[s]
    BY <2>1, <1>1
  <2>5. Good(h, n + 1)
    BY <2>2, <2>3, <2>4, <2>1
  <2> HIDE DEF h, Good
  <2> QED
    BY <2>5
<1>4. Nat \subseteq T
  <2> HIDE DEF T
  <2> QED
    BY <1>2, <1>3, Induction
<1>5. PICK g : Good(g, Cardinality(S))
  BY <1>1, <1>4
<1>6. Small(Cardinality(S)) = SUBSET S
  BY FS_Subset
<1>7. g = [s \in SUBSET S |-> IF s = {} THEN 0 ELSE f[AnyOf(s)] + g[s \ {AnyOf(s)}]]
  BY <1>5, <1>6
<1>8. iter = [s \in SUBSET S |-> IF s = {} THEN 0 ELSE f[AnyOf(s)] + iter[s \ {AnyOf(s)}]]
  BY <1>7 DEF iter
<1>9. SumFunction(f) = iter[S]
  BY DEF SumFunction, SumFunctionOnSet, FoldFunctionOnSet, MapThenFoldSet, AnyOf
<1> DEFINE V == {n \in Nat : \A s \in Small(n) : iter[s] \in Int}
<1> HIDE DEF iter
<1>10. 0 \in V
  <2>1. \A s \in Small(0) : s = {}
    BY <1>1
  <2> QED
    BY <2>1, <1>8
<1>11. ASSUME NEW n \in Nat, n \in V
       PROVE  n + 1 \in V
  <2>1. ASSUME NEW s \in Small(n + 1), s # {}
        PROVE  iter[s] \in Int
    <3>1. AnyOf(s) \in s
      BY <2>1 DEF AnyOf
    <3>2. Cardinality(s \ {AnyOf(s)}) = Cardinality(s) - 1
      BY <3>1, <1>1, FS_RemoveElement
    <3>3. s \ {AnyOf(s)} \in Small(n) /\ f[AnyOf(s)] \in Int
      BY <3>1, <3>2, <1>1
    <3>4. iter[s \ {AnyOf(s)}] \in Int
      BY <3>3, <1>11
    <3>5. iter[s] = f[AnyOf(s)] + iter[s \ {AnyOf(s)}]
      BY <2>1, <1>8
    <3> QED
      BY <3>3, <3>4, <3>5
  <2>2. iter[{}] \in Int
    BY <1>8
  <2>3. \A s \in Small(n + 1) : iter[s] \in Int
    BY <2>1, <2>2
  <2> QED
    BY <2>3
<1>12. Nat \subseteq V
  <2> HIDE DEF V
  <2> QED
    BY <1>10, <1>11, Induction
<1> QED
  BY <1>1, <1>6, <1>9, <1>12

-----------------------------------------------------------------------------
(* assemble_plan.                                                           *)

(* The best rows of an experience: one at least, and no more than its bullets. *)
LEMMA ChosenFit ==
  ASSUME NEW rows, JudgmentsOK(rows), rows # {}
  PROVE  /\ ChosenRows(rows) \subseteq rows /\ ChosenRows(rows) # {}
         /\ IsFiniteSet(ChosenRows(rows)) /\ Cardinality(ChosenRows(rows)) <= MaxBullets
<1> DEFINE Above(j) == {k \in rows : Better(k, j)}
<1>0. /\ IsFiniteSet(rows) /\ \A j \in rows : j.evidence \in Nat
      /\ \A j, k \in rows : j.evidence = k.evidence => j = k
      /\ ChosenRows(rows) = {j \in rows : Cardinality(Above(j)) < MaxBullets}
      /\ MaxBullets \in Nat \ {0}
  BY Limits DEF JudgmentsOK, ChosenRows
<1>1. /\ \A j \in rows : ~Better(j, j)
      /\ \A j, k \in rows : j # k => Better(j, k) \/ Better(k, j)
      /\ \A j, k, l \in rows : Better(j, k) /\ Better(k, l) => Better(j, l)
  BY <1>0 DEF Better, Score
<1>2. \A j \in rows : IsFiniteSet(Above(j)) /\ Cardinality(Above(j)) \in Nat
  BY <1>0, FS_Subset, FS_CardinalityType
<1>3. ChosenRows(rows) \subseteq rows
  BY <1>0
<1>4. IsFiniteSet(ChosenRows(rows))
  BY <1>0, <1>3, FS_Subset
<1>5. ChosenRows(rows) # {}
  <2> DEFINE Before == {p \in rows \X rows : Better(p[1], p[2])}
  <2>1. \A x, y \in rows : <<x, y>> \in Before <=> Better(x, y)
    OBVIOUS
  <2> HIDE DEF Before
  <2>2. PICK j \in rows : \A k \in rows : <<k, j>> \notin Before
    BY <1>0, <1>1, <2>1, FirstOfFinite
  <2>3. Above(j) = {}
    BY <2>1, <2>2
  <2>4. Cardinality(Above(j)) = 0
    BY <2>3, FS_EmptySet
  <2> QED
    BY <1>0, <2>4
<1>6. Cardinality(ChosenRows(rows)) <= MaxBullets
  <2> DEFINE C == ChosenRows(rows)
             After == {p \in C \X C : Better(p[2], p[1])}
  <2>1. \A x, y \in C : <<x, y>> \in After <=> Better(y, x)
    OBVIOUS
  <2>2. PICK j \in C : \A k \in C : ~Better(j, k)
    <3> HIDE DEF C, After
    <3>1. C \subseteq rows /\ IsFiniteSet(C) /\ C # {}
      BY <1>3, <1>4, <1>5 DEF C
    <3>2. PICK j \in C : \A k \in C : <<k, j>> \notin After
      BY <1>1, <2>1, <3>1, FirstOfFinite
    <3> QED
      BY <2>1, <3>2
  <2>3. C \ {j} \subseteq Above(j)
    BY <1>1, <1>3, <2>2
  <2>4. Cardinality(C \ {j}) <= Cardinality(Above(j)) /\ Cardinality(Above(j)) < MaxBullets
    BY <1>0, <1>2, <2>2, <2>3, FS_Subset
  <2>5. /\ Cardinality(C \ {j}) = Cardinality(C) - 1 /\ Cardinality(C) \in Nat
        /\ Cardinality(Above(j)) \in Nat
    BY <1>2, <1>3, <1>4, <2>2, FS_RemoveElement, FS_CardinalityType
  <2> HIDE DEF C, Above
  <2>6. Cardinality(C) <= MaxBullets
    BY <1>0, <2>4, <2>5
  <2> QED
    BY <2>6 DEF C
<1> QED
  BY <1>3, <1>4, <1>5, <1>6

(* The use of an experience is a number, so uses can be compared. *)
LEMMA UseIsInt ==
  ASSUME NEW Rows, RowsOK(Rows), NEW x \in DOMAIN Rows, NEW acc
  PROVE  Use(Rows, acc, x) \in Int
<1> DEFINE rows == ChosenRows(Rows[x])
           new == CoverageOf(rows) \ acc.covered
           old == CoverageOf(rows) \cap acc.covered
<1>1. /\ rows \subseteq Rows[x] /\ rows # {} /\ IsFiniteSet(rows)
      /\ \A j \in rows : j.coverage \subseteq Coverage
  BY ChosenFit DEF RowsOK, JudgmentsOK
<1> HIDE DEF rows
<1>2. CoverageOf(rows) \subseteq Coverage
  BY <1>1 DEF CoverageOf
<1>3. IsFiniteSet(new) /\ IsFiniteSet(old) /\ Cardinality(old) \in Nat
  BY <1>2, FiniteInputs, FS_Subset, FS_CardinalityType
<1>4. [i \in new |-> Weight[Importance[i]]] \in [new -> Int]
  BY <1>2, FiniteInputs DEF Weight
<1>5. [j \in rows |-> Score(j)] \in [rows -> Int]
  BY DEF Score
<1>6. Cardinality(rows) \in Nat \ {0}
  BY <1>1, FS_CardinalityType, FS_EmptySet
<1>7. /\ SumFunction([i \in new |-> Weight[Importance[i]]]) \in Int
      /\ SumFunction([j \in rows |-> Score(j)]) \in Int
  <2> HIDE DEF new
  <2> QED
    BY <1>1, <1>3, <1>4, <1>5, SumIsInt
<1>8. Use(Rows, acc, x) = SumFunction([i \in new |-> Weight[Importance[i]]])
                          + SumFunction([j \in rows |-> Score(j)]) \div Cardinality(rows)
                          + 37 - 35 * Cardinality(old)
  BY DEF Use, Utility, rows
<1> HIDE DEF new, old
<1>9. SumFunction([j \in rows |-> Score(j)]) \div Cardinality(rows) \in Int
  BY <1>6, <1>7
<1> QED
  BY <1>3, <1>7, <1>8, <1>9

(* The experience of most use is one of those that are of use. *)
LEMMA BestIsUseful ==
  ASSUME NEW Rows, RowsOK(Rows), NEW acc, Useful(Rows, acc) # {}
  PROVE  Best(Rows, acc) \in Useful(Rows, acc)
<1> DEFINE U == Useful(Rows, acc)
           use == [x \in U |-> Use(Rows, acc, x)]
           Before == {p \in U \X U : \/ use[p[1]] > use[p[2]]
                                     \/ use[p[1]] = use[p[2]] /\ p[1] < p[2]}
<1>1. U \subseteq DOMAIN Rows /\ U \subseteq Nat /\ IsFiniteSet(U)
  BY FiniteInputs, FS_Subset DEF Useful, RowsOK
<1>2. use \in [U -> Int]
  BY <1>1, UseIsInt
<1>3. \A x, y \in U : <<x, y>> \in Before <=> use[x] > use[y] \/ (use[x] = use[y] /\ x < y)
  OBVIOUS
<1>4. Best(Rows, acc) = CHOOSE x \in U : \A y \in U : use[x] > use[y] \/ (use[x] = use[y] /\ x <= y)
  BY DEF Best
<1> HIDE DEF U, use, Before
<1>5. /\ \A x \in U : <<x, x>> \notin Before
      /\ \A x, y, z \in U : <<x, y>> \in Before /\ <<y, z>> \in Before => <<x, z>> \in Before
  BY <1>1, <1>2, <1>3
<1>6. PICK x \in U : \A y \in U : <<y, x>> \notin Before
  <2>1. U # {}
    BY DEF U
  <2> QED
    BY <1>1, <1>5, <2>1, FirstOfFinite
<1>7. \A y \in U : use[x] > use[y] \/ (use[x] = use[y] /\ x <= y)
  <2> TAKE y \in U
  <2>1. x \in Nat /\ y \in Nat /\ use[x] \in Int /\ use[y] \in Int
    BY <1>1, <1>2
  <2>2. ~(use[y] > use[x]) /\ ~(use[y] = use[x] /\ y < x)
    BY <1>3, <1>6
  <2> QED
    BY <2>1, <2>2
<1>8. Best(Rows, acc) \in U
  BY <1>4, <1>7
<1> QED
  BY <1>8 DEF U

(* A round of the loop keeps within the limits of the pages and sections. *)
LEMMA RoundKeepsSelection ==
  ASSUME NEW Rows, RowsOK(Rows), NEW acc, SelectionOK(Rows, acc)
  PROVE  SelectionOK(Rows, SelectStep(Rows, acc))
<1> DEFINE best == Best(Rows, acc)
           sel == acc.selected
           new == [x \in DOMAIN sel \cup {best} |-> IF x = best THEN ChosenRows(Rows[x]) ELSE sel[x]]
<1>1. CASE Useful(Rows, acc) = {} \/ Cardinality(DOMAIN sel) >= MaxTotal
  BY <1>1 DEF SelectStep
<1>2. CASE Useful(Rows, acc) # {} /\ ~(Cardinality(DOMAIN sel) >= MaxTotal)
  <2>1. best \in DOMAIN Rows /\ best \notin DOMAIN sel /\ ~SectionFull(sel, best)
    BY <1>2, BestIsUseful DEF Useful
  <2>2. SelectStep(Rows, acc).selected = new
    BY <1>2 DEF SelectStep, Select
  <2> HIDE DEF best
  <2>3. DOMAIN new = DOMAIN sel \cup {best} /\ DOMAIN sel \subseteq Experiences
        /\ best \in Experiences /\ DOMAIN sel \subseteq DOMAIN Rows
    BY <2>1 DEF SelectionOK, RowsOK
  <2>4. \A x \in DOMAIN new : new[x] = ChosenRows(Rows[x])
    BY DEF SelectionOK
  <2>5. IsFiniteSet(DOMAIN sel) /\ Cardinality(DOMAIN sel) \in Nat
    BY <2>3, FiniteInputs, FS_Subset, FS_CardinalityType
  <2>6. Cardinality(DOMAIN new) <= MaxTotal
    <3>1. Cardinality(DOMAIN sel \cup {best}) = Cardinality(DOMAIN sel) + 1
      BY <2>1, <2>5, FS_AddElement
    <3> HIDE DEF new
    <3> QED
      BY <1>2, <2>3, <2>5, <3>1, Limits
  <2>7. ASSUME NEW s \in DOMAIN SectionLimits
        PROVE  Cardinality(InSection(new, s)) <= SectionLimits[s]
    <3>0. /\ IsFiniteSet(InSection(sel, s)) /\ Cardinality(InSection(sel, s)) \in Nat
          /\ Cardinality(InSection(sel, s)) <= SectionLimits[s] /\ SectionLimits[s] \in Nat
      BY <2>5, FS_Subset, FS_CardinalityType, Limits DEF InSection, SelectionOK, WithinPages
    <3>1. CASE Section[best] = s
      <4>1. InSection(new, s) = InSection(sel, s) \cup {best} /\ best \notin InSection(sel, s)
        BY <2>1, <2>3, <3>1 DEF InSection
      <4>2. ~(Cardinality(InSection(sel, s)) >= SectionLimits[s])
        BY <2>1, <3>1 DEF SectionFull, InSection
      <4>3. Cardinality(InSection(sel, s) \cup {best}) = Cardinality(InSection(sel, s)) + 1
        BY <3>0, <4>1, FS_AddElement
      <4> HIDE DEF new
      <4> QED
        BY <3>0, <4>1, <4>2, <4>3
    <3>2. CASE Section[best] # s
      <4>1. InSection(new, s) = InSection(sel, s)
        BY <2>3, <3>2 DEF InSection
      <4> QED
        BY <3>0, <4>1
    <3> QED
      BY <3>1, <3>2
  <2> HIDE DEF new
  <2> QED
    BY <2>1, <2>2, <2>3, <2>4, <2>6, <2>7 DEF SelectionOK, WithinPages
<1> QED
  BY <1>1, <1>2

(* So does the loop. *)
LEMMA SelectionIsOK ==
  ASSUME NEW Rows, RowsOK(Rows)
  PROVE  SelectionOK(Rows, SelectFrom(Rows))
<1> DEFINE N == Cardinality(Experiences)
           Round(g, n) == IF n = 0 THEN NothingSelected ELSE SelectStep(Rows, g[n - 1])
           after[n \in 0..N] == IF n = 0 THEN NothingSelected ELSE SelectStep(Rows, after[n - 1])
           T == {k \in Nat : \E g : g = [n \in 0..k |-> Round(g, n)]}
<1>1. N \in Nat
  BY FiniteInputs, FS_CardinalityType
<1>2. 0 \in T
  <2> DEFINE g == [n \in 0..0 |-> NothingSelected]
  <2>1. g = [n \in 0..0 |-> Round(g, n)]
    OBVIOUS
  <2> QED
    BY <2>1
<1>3. ASSUME NEW k \in Nat, k \in T
      PROVE  k + 1 \in T
  <2>1. PICK g : g = [n \in 0..k |-> Round(g, n)]
    BY <1>3
  <2> DEFINE h == [n \in 0..(k + 1) |-> IF n = k + 1 THEN SelectStep(Rows, g[k]) ELSE g[n]]
  <2>2. ASSUME NEW n \in 0..(k + 1)
        PROVE  h[n] = Round(h, n)
    <3>1. CASE n = k + 1
      BY <3>1
    <3>2. CASE n # k + 1
      <4>1. n \in 0..k /\ (n # 0 => n - 1 \in 0..k /\ n - 1 # k + 1) /\ h[n] = g[n]
        BY <3>2
      <4>2. g[n] = Round(g, n)
        BY <2>1, <4>1
      <4> QED
        BY <4>1, <4>2
    <3> QED
      BY <3>1, <3>2
  <2>3. h = [n \in 0..(k + 1) |-> Round(h, n)]
    BY <2>2
  <2> HIDE DEF h
  <2> QED
    BY <2>3
<1>4. Nat \subseteq T
  <2> HIDE DEF T
  <2> QED
    BY <1>2, <1>3, Induction
<1>5. after = [n \in 0..N |-> IF n = 0 THEN NothingSelected ELSE SelectStep(Rows, after[n - 1])]
  BY <1>1, <1>4 DEF after
<1>6. SelectFrom(Rows) = after[N]
  BY DEF SelectFrom
<1> HIDE DEF after
<1> DEFINE V == {n \in Nat : n <= N => SelectionOK(Rows, after[n])}
<1>7. 0 \in V
  <2>1. after[0] = NothingSelected
    BY <1>1, <1>5
  <2>2. SelectionOK(Rows, NothingSelected)
    <3>1. NothingSelected.selected = <<>> /\ DOMAIN NothingSelected.selected = {}
      BY DEF NothingSelected
    <3>2. \A s : InSection(NothingSelected.selected, s) = {}
      BY <3>1 DEF InSection
    <3> QED
      BY <3>1, <3>2, FS_EmptySet, Limits DEF SelectionOK, WithinPages
  <2> QED
    BY <2>1, <2>2
<1>8. ASSUME NEW n \in Nat, n \in V
      PROVE  n + 1 \in V
  <2>1. CASE n + 1 <= N
    <3>1. after[n + 1] = SelectStep(Rows, after[n])
      BY <1>1, <1>5, <2>1
    <3> QED
      BY <1>1, <1>8, <2>1, <3>1, RoundKeepsSelection
  <2>2. CASE ~(n + 1 <= N)
    BY <2>2
  <2> QED
    BY <2>1, <2>2
<1>9. Nat \subseteq V
  <2> HIDE DEF V
  <2> QED
    BY <1>7, <1>8, Induction
<1> QED
  BY <1>1, <1>6, <1>9

(* The image of a finite set is no larger. *)
LEMMA ImageIsNoLarger ==
  ASSUME NEW S, IsFiniteSet(S), NEW f, DOMAIN f = S, NEW T, T = {f[x] : x \in S}
  PROVE  IsFiniteSet(T) /\ Cardinality(T) <= Cardinality(S) /\ Cardinality(T) \in Nat
<1> DEFINE g == [x \in S |-> f[x]]
<1>1. g \in Surjection(S, T)
  BY DEF Surjection
<1> QED
  BY <1>1, FS_Surjection, FS_CardinalityType

(* The retrieved documents are finitely many, and judged one by one. *)
LEMMA JudgedOneByOne ==
  ASSUME graph.retrieved \subseteq AllDocuments, DistinctIds(graph.retrieved),
         NEW mode, NEW f \in Judgments(mode), NEW js, js = {f[d] : d \in graph.retrieved}
  PROVE  JudgmentsOK(js)
<1> DEFINE R == graph.retrieved
           id == [d \in R |-> d.id]
<1>1. IsFiniteSet(R)
  <2>1. id \in Injection(R, EvidenceIds)
    BY DEF Injection, IsInjective, AllDocuments, DistinctIds
  <2>2. IsFiniteSet(EvidenceIds)
    BY IndexBounds, FS_Interval DEF EvidenceIds
  <2> QED
    BY <2>1, <2>2, FS_Injection
<1>2. ASSUME NEW d \in R
      PROVE  f[d].evidence = d.id /\ f[d].coverage \subseteq Coverage
    BY DEF Judgments, Judgment, RuleJudgment
<1>3. DOMAIN f = R
  BY DEF Judgments
<1>4. IsFiniteSet(js)
  BY <1>1, <1>3, ImageIsNoLarger
<1>5. \A d \in R : d.id \in Nat
  BY IndexBounds DEF AllDocuments, EvidenceIds
<1> QED
  BY <1>2, <1>4, <1>5 DEF JudgmentsOK, DistinctIds

(* The plan is for experiences of the snapshot, and fits the pages. *)
LEMMA PlanIsOK ==
  ASSUME NEW snapshot, snapshot.ready \subseteq Experiences, NEW js, JudgmentsOK(js)
  PROVE  PlanOK(AssemblePlan(snapshot, js), snapshot)
<1> DEFINE valid == {j \in js : j.experience \in snapshot.ready /\ j.coverage # {}}
           Rows == [x \in {j.experience : j \in valid} |-> {j \in valid : j.experience = x}]
           sel == SelectFrom(Rows).selected
           plan == AssemblePlan(snapshot, js)
<1>1. plan.selected = [x \in DOMAIN sel |-> {j.evidence : j \in sel[x]}]
  BY DEF AssemblePlan
<1>2. DOMAIN Rows \subseteq snapshot.ready /\ DOMAIN Rows \subseteq Experiences
  OBVIOUS
<1>3. ASSUME NEW x \in DOMAIN Rows
      PROVE  Rows[x] # {} /\ JudgmentsOK(Rows[x])
  <2>1. Rows[x] \subseteq js /\ Rows[x] # {}
    OBVIOUS
  <2> HIDE DEF Rows
  <2>2. IsFiniteSet(Rows[x])
    BY <2>1, FS_Subset DEF JudgmentsOK
  <2> QED
    BY <2>1, <2>2 DEF JudgmentsOK
<1> HIDE DEF Rows, sel, plan
<1>4. RowsOK(Rows)
  BY <1>2, <1>3 DEF RowsOK
<1>5. SelectionOK(Rows, SelectFrom(Rows))
  BY <1>4, SelectionIsOK
<1>6. WithinPages(plan.selected)
  <2>1. DOMAIN plan.selected = DOMAIN sel
    BY <1>1
  <2>2. \A s : InSection(plan.selected, s) = InSection(sel, s)
    BY <2>1 DEF InSection
  <2> QED
    BY <1>5, <2>1, <2>2 DEF WithinPages, SelectionOK, sel
<1>7. ASSUME NEW x \in DOMAIN plan.selected
      PROVE  IsFiniteSet(plan.selected[x]) /\ Cardinality(plan.selected[x]) <= MaxBullets
  <2>1. x \in DOMAIN Rows /\ sel[x] = ChosenRows(Rows[x])
    BY <1>1, <1>5 DEF SelectionOK, sel
  <2>2. IsFiniteSet(sel[x]) /\ Cardinality(sel[x]) <= MaxBullets /\ Cardinality(sel[x]) \in Nat
    BY <1>3, <2>1, ChosenFit, FS_CardinalityType
  <2> DEFINE e == [j \in sel[x] |-> j.evidence]
  <2>3. DOMAIN e = sel[x] /\ plan.selected[x] = {e[j] : j \in sel[x]}
    BY <1>1
  <2> HIDE DEF e
  <2>4. /\ IsFiniteSet(plan.selected[x]) /\ Cardinality(plan.selected[x]) <= Cardinality(sel[x])
        /\ Cardinality(plan.selected[x]) \in Nat
    BY <2>2, <2>3, ImageIsNoLarger
  <2> QED
    BY <2>2, <2>4, Limits
<1>8. DOMAIN plan.selected \subseteq snapshot.ready
  BY <1>1, <1>2, <1>5 DEF SelectionOK, sel
<1> QED
  BY <1>6, <1>7, <1>8 DEF PlanOK, plan

(* A draft keeps the bullets of the plan. *)
LEMMA DraftsFit ==
  ASSUME PlanOK(graph.plan, graph.snapshot), NEW mode, NEW d \in Drafts(mode)
  PROVE  DraftOK(d)
<1> DEFINE plan == graph.plan
           Of(x) == {b \in d.bullets : b.experience = x}
<1>1. SUFFICES ASSUME NEW x \in Experiences
               PROVE  Cardinality(Of(x)) <= MaxBullets
  BY DEF DraftOK
<1>2. d \in ModelDrafts(plan) \/ d = RuleDraft(plan)
  BY DEF Drafts
<1>3. \A b \in d.bullets : b.experience \in DOMAIN plan.selected
                          /\ b.evidence \subseteq plan.selected[b.experience]
                          /\ b = [experience |-> b.experience, evidence |-> b.evidence]
  <2>1. CASE d \in ModelDrafts(plan)
    BY <2>1 DEF ModelDrafts
  <2>2. CASE d = RuleDraft(plan)
    BY <2>2 DEF RuleDraft
  <2> QED
    BY <1>2, <2>1, <2>2
<1>4. CASE x \notin DOMAIN plan.selected
  <2>1. Of(x) = {}
    BY <1>3, <1>4
  <2> HIDE DEF Of
  <2>2. Cardinality(Of(x)) = 0
    BY <2>1, FS_EmptySet
  <2> QED
    BY <2>2, Limits
<1>5. CASE x \in DOMAIN plan.selected
  <2> DEFINE E == plan.selected[x]
  <2>1. IsFiniteSet(E) /\ Cardinality(E) <= MaxBullets /\ Cardinality(E) \in Nat
    BY <1>5, FS_CardinalityType DEF PlanOK
  <2>2. CASE d \in ModelDrafts(plan)
    <3>1. Cardinality(Of(x)) <= Cardinality(E)
      BY <1>5, <2>2 DEF ModelDrafts
    <3> DEFINE evidence == [b \in Of(x) |-> b.evidence]
    <3>2. evidence \in Injection(Of(x), SUBSET E)
      BY <1>3 DEF Injection, IsInjective
    <3>3. IsFiniteSet(SUBSET E)
      BY <2>1, FS_SUBSET
    <3> HIDE DEF evidence, Of, E
    <3>4. Cardinality(Of(x)) \in Nat
      BY <3>2, <3>3, FS_Injection, FS_CardinalityType
    <3> QED
      BY <2>1, <3>1, <3>4, Limits
  <2>3. CASE d = RuleDraft(plan)
    <3> DEFINE bullet == [e \in E |-> [experience |-> x, evidence |-> {e}]]
    <3>1. Of(x) = {bullet[e] : e \in E}
      <4>1. \A b : b \in d.bullets <=> \E y \in DOMAIN plan.selected : \E e \in plan.selected[y] :
                                         b = [experience |-> y, evidence |-> {e}]
        BY <2>3 DEF RuleDraft
      <4>2. \A e \in E : bullet[e] \in Of(x)
        BY <1>5, <4>1
      <4>3. \A b \in Of(x) : \E e \in E : b = bullet[e]
        BY <1>5, <4>1
      <4> QED
        BY <4>2, <4>3
    <3>2. DOMAIN bullet = E
      OBVIOUS
    <3> HIDE DEF bullet, Of, E
    <3>3. Cardinality(Of(x)) <= Cardinality(E) /\ Cardinality(Of(x)) \in Nat
      BY <2>1, <3>1, <3>2, ImageIsNoLarger
    <3> QED
      BY <2>1, <3>3, Limits
  <2> QED
    BY <1>2, <2>2, <2>3
<1> QED
  BY <1>4, <1>5

-----------------------------------------------------------------------------
(* The actions.                                                             *)

(* The steps of a preview, and of confirmations, leave the index alone. *)
LEMMA IndexIsKept ==
  ASSUME Inv, IndexKept
  PROVE  Inv'
BY NextKeepsInv DEF IndexKept

(* A preview begins. *)
LEMMA PreviewKeepsInv ==
  ASSUME GenInv, NEW mode \in Modes, Preview(mode)
  PROVE  GenInv'
<1>1. /\ run.status = "none" /\ UNCHANGED <<resume, confirm>> /\ IndexKept
      /\ run' = [status |-> "running", artifact |-> "pending", resume |-> FALSE, mode |-> mode]
      /\ graph' = [node |-> "retrieve", snapshot |-> Snapshot, round |-> 1,
                   retrieved |-> {}, new |-> 0, plan |-> NoPlan, draft |-> Nothing]
  BY DEF Preview
<1>2. Snapshot.ready \subseteq Experiences
  BY DEF Snapshot, GenInv, Inv, Types, Tables
<1>3. GraphOK'
  BY <1>1, <1>2, Limits DEF GraphOK, GraphFields, DistinctIds
<1>4. RunOK'
  BY <1>1 DEF RunOK, RunFields
<1>5. ResumeOK' /\ ConfirmOK'
  BY <1>1 DEF GenInv, RunOK, ResumeOK, ConfirmOK, Accepted
<1> QED
  BY <1>1, <1>3, <1>4, <1>5, IndexIsKept DEF GenInv

(* The graph searches, plans and drafts, or fails. *)
LEMMA GraphKeepsInv ==
  ASSUME GenInv, Graph
  PROVE  GenInv'
<1> USE DEF GenInv
<1>0. /\ GraphOK /\ RunOK /\ ResumeOK /\ ConfirmOK /\ UNCHANGED <<resume, confirm>> /\ IndexKept
      /\ graph.node # "none" => run.status = "running" /\ DOMAIN graph = GraphFields
      /\ Inv'
  BY IndexIsKept DEF Graph, Retrieve, JudgeAndPlan, Draft, Complete, Fail, GraphOK
<1>1. CASE Retrieve
  <2>1. PICK hits \in SUBSET {p \in points : p.id \in DOMAIN graph.snapshot.owner
                                 /\ graph.snapshot.owner[p.id] \in graph.snapshot.ready} :
          LET merged == MergeRounds(graph.retrieved, hits) IN
          graph' = [graph EXCEPT !.node = "judge", !.retrieved = merged,
                                 !.new = Cardinality(merged) - Cardinality(graph.retrieved)]
    BY <1>1 DEF Retrieve
  <2>2. graph.node = "retrieve" /\ run' = run
    BY <1>1 DEF Retrieve
  <2> DEFINE merged == MergeRounds(graph.retrieved, hits)
  <2>3. merged \subseteq AllDocuments /\ DistinctIds(merged)
    BY <1>0, <2>2 DEF MergeRounds, DistinctIds, GraphOK, Inv, Types, IdsOK
  <2> HIDE DEF merged
  <2>4. /\ DOMAIN graph' = GraphFields /\ graph'.node = "judge" /\ graph'.retrieved = merged
        /\ graph'.round = graph.round /\ graph'.snapshot = graph.snapshot
    BY <1>0, <2>1, <2>2 DEF GraphFields, merged
  <2>5. GraphOK'
    BY <1>0, <2>2, <2>3, <2>4 DEF GraphOK
  <2> QED
    BY <1>0, <2>2, <2>5 DEF RunOK, ResumeOK, ConfirmOK, Accepted
<1>2. CASE JudgeAndPlan
  <2>1. PICK f \in Judgments(run.mode) :
          LET plan == AssemblePlan(graph.snapshot, {f[d] : d \in graph.retrieved}) IN
          graph' = IF SearchMore(plan, graph.new, graph.round)
                     THEN [graph EXCEPT !.node = "retrieve", !.round = @ + 1]
                     ELSE [graph EXCEPT !.node = "draft", !.plan = plan, !.retrieved = {}]
    BY <1>2 DEF JudgeAndPlan
  <2>2. graph.node = "judge" /\ run' = run
    BY <1>2 DEF JudgeAndPlan
  <2> DEFINE js == {f[d] : d \in graph.retrieved}
             plan == AssemblePlan(graph.snapshot, js)
  <2>3. JudgmentsOK(js)
    BY <1>0, <2>2, JudgedOneByOne DEF GraphOK
  <2>4. PlanOK(plan, graph.snapshot)
    <3> HIDE DEF js
    <3> QED
      BY <1>0, <2>2, <2>3, PlanIsOK DEF GraphOK
  <2> HIDE DEF plan
  <2>5. CASE SearchMore(plan, graph.new, graph.round)
    <3>1. graph' = [graph EXCEPT !.node = "retrieve", !.round = graph.round + 1]
      BY <2>1, <2>5 DEF plan
    <3>2. graph.round \in 1..MaxSearchRounds /\ graph.round < MaxSearchRounds
      BY <1>0, <2>2, <2>5 DEF SearchMore, GraphOK
    <3>3. /\ DOMAIN graph' = GraphFields /\ graph'.node = "retrieve" /\ graph'.retrieved = graph.retrieved
          /\ graph'.round = graph.round + 1 /\ graph'.snapshot = graph.snapshot
      BY <1>0, <2>2, <3>1 DEF GraphFields
    <3>4. GraphOK'
      BY <1>0, <2>2, <3>2, <3>3, Limits DEF GraphOK
    <3> QED
      BY <1>0, <2>2, <3>4 DEF RunOK, ResumeOK, ConfirmOK, Accepted
  <2>6. CASE ~SearchMore(plan, graph.new, graph.round)
    <3>1. graph' = [graph EXCEPT !.node = "draft", !.plan = plan, !.retrieved = {}]
      BY <2>1, <2>6 DEF plan
    <3>2. /\ DOMAIN graph' = GraphFields /\ graph'.node = "draft" /\ graph'.plan = plan
          /\ graph'.round = graph.round /\ graph'.snapshot = graph.snapshot
      BY <1>0, <2>2, <3>1 DEF GraphFields
    <3>3. GraphOK'
      BY <1>0, <2>2, <2>4, <3>2 DEF GraphOK
    <3> QED
      BY <1>0, <2>2, <3>3 DEF RunOK, ResumeOK, ConfirmOK, Accepted
  <2> QED
    BY <2>5, <2>6
<1>3. CASE Draft
  <2>1. PICK d \in Drafts(run.mode) : graph' = [graph EXCEPT !.node = "validate", !.draft = d]
    BY <1>3 DEF Draft
  <2>2. graph.node = "draft" /\ run' = run
    BY <1>3 DEF Draft
  <2>3. DraftOK(d)
    BY <1>0, <2>2, DraftsFit DEF GraphOK
  <2>4. /\ DOMAIN graph' = GraphFields /\ graph'.node = "validate" /\ graph'.plan = graph.plan
        /\ graph'.draft = d /\ graph'.round = graph.round /\ graph'.snapshot = graph.snapshot
    BY <1>0, <2>1, <2>2 DEF GraphFields
  <2>5. GraphOK'
    BY <1>0, <2>2, <2>3, <2>4 DEF GraphOK
  <2> QED
    BY <1>0, <2>2, <2>5 DEF RunOK, ResumeOK, ConfirmOK, Accepted
<1>4. CASE Complete
  <2>1. PICK check \in FactChecks(run.mode, graph.draft) : run' = Completed(check)
    BY <1>4 DEF Complete
  <2>2. graph.node = "validate" /\ graph' = NoGraph
    BY <1>4 DEF Complete
  <2>3. /\ DOMAIN run' = RunFields \cup Results /\ run'.status = "completed"
        /\ run'.artifact = "previewed" /\ run'.resume = FALSE
        /\ run'.snapshot = graph.snapshot /\ run'.plan = graph.plan /\ run'.draft = graph.draft
        /\ run'.valid = Valid(check)
    BY <1>0, <2>1, <2>2 DEF Completed, RunFields, Results, RunOK
  <2>4. Valid(check) => \A b \in graph.draft.bullets : Cites(graph.plan, b, graph.snapshot)
    BY DEF Valid, ReferencesValid
  <2>5. RunOK'
    BY <1>0, <2>2, <2>3, <2>4 DEF RunOK, GraphOK
  <2>6. GraphOK'
    BY <2>2 DEF GraphOK, NoGraph
  <2>7. ResumeOK' /\ ConfirmOK'
    BY <1>0, <2>2, <2>3 DEF RunOK, ResumeOK, ConfirmOK, Accepted
  <2> QED
    BY <1>0, <2>5, <2>6, <2>7
<1>5. CASE Fail
  <2>1. graph.node # "none" /\ run' = [run EXCEPT !.status = "failed"] /\ graph' = NoGraph
    BY <1>5 DEF Fail, Raises
  <2>2. run'.status = "failed" /\ run'.artifact = "pending" /\ run'.resume = FALSE
    BY <1>0, <2>1 DEF RunOK, RunFields
  <2>3. GraphOK' /\ RunOK'
    BY <2>1, <2>2 DEF GraphOK, NoGraph, RunOK
  <2>4. ResumeOK' /\ ConfirmOK'
    BY <1>0, <2>1, <2>2 DEF RunOK, ResumeOK, ConfirmOK, Accepted
  <2> QED
    BY <1>0, <2>3, <2>4
<1> QED
  BY <1>1, <1>2, <1>3, <1>4, <1>5 DEF Graph

(* Confirmations, which may overlap. *)
LEMMA ConfirmKeepsInv ==
  ASSUME GenInv, NEW c \in Clients, Confirm(c)
  PROVE  GenInv'
<1>0. /\ GraphOK /\ RunOK /\ ResumeOK /\ ConfirmOK /\ graph' = graph /\ IndexKept /\ Inv'
      /\ confirm \in [Clients -> Confirmations]
  BY IndexIsKept DEF GenInv, Confirm, ConfirmRead, ConfirmLook, ConfirmWrite, ConfirmCollides, ConfirmOK
<1>1. CASE ConfirmRead(c)
  <2>1. run' = run /\ resume' = resume
    BY <1>1 DEF ConfirmRead
  <2>2. CASE run.resume
    <3>1. confirm' = [confirm EXCEPT ![c] = [stage |-> "confirmed"]]
      BY <1>1, <2>2 DEF ConfirmRead
    <3>2. resume # Nothing
      BY <1>0, <2>2 DEF RunOK, ResumeOK
    <3>3. ConfirmOK'
      BY <1>0, <2>1, <3>1, <3>2 DEF ConfirmOK, Confirmations, Accepted
    <3> QED
      BY <1>0, <2>1, <3>3 DEF GenInv, GraphOK, RunOK, ResumeOK, Accepted
  <2>3. CASE ~run.resume
    <3>1. Confirmable(run)
      BY <1>1, <2>3 DEF ConfirmRead
    <3>2. confirm' = [confirm EXCEPT ![c] = [stage |-> "look"]]
      BY <1>1, <2>3, <3>1 DEF ConfirmRead
    <3>3. Accepted
      BY <3>1 DEF Confirmable, Accepted
    <3>4. ConfirmOK'
      BY <1>0, <2>1, <3>2, <3>3 DEF ConfirmOK, Confirmations, Accepted
    <3> QED
      BY <1>0, <2>1, <3>4 DEF GenInv, GraphOK, RunOK, ResumeOK, Accepted
  <2> QED
    BY <2>2, <2>3
<1>2. CASE ConfirmLook(c)
  <2>1. /\ run' = run /\ resume' = resume /\ confirm[c].stage = "look"
        /\ confirm' = [confirm EXCEPT ![c] = [stage |-> "write", existing |-> resume # Nothing]]
    BY <1>2 DEF ConfirmLook
  <2>2. ConfirmOK'
    BY <1>0, <2>1 DEF ConfirmOK, Confirmations, Accepted
  <2> QED
    BY <1>0, <2>1, <2>2 DEF GenInv, GraphOK, RunOK, ResumeOK, Accepted
<1>3. CASE ConfirmWrite(c)
  <2>0. confirm[c].stage = "write"
    BY <1>3 DEF ConfirmWrite
  <2>1. /\ run' = [run EXCEPT !.artifact = "confirmed", !.resume = TRUE]
        /\ confirm' = [confirm EXCEPT ![c] = [stage |-> "confirmed"]]
    BY <1>3 DEF ConfirmWrite, ConfirmedRun
  <2>2. Accepted /\ DOMAIN run = RunFields \cup Results
    <3>1. Accepted
      BY <1>0, <2>0 DEF ConfirmOK
    <3> QED
      BY <1>0, <3>1 DEF Accepted, RunOK
  <2>3. /\ DOMAIN run' = RunFields \cup Results /\ run'.artifact = "confirmed" /\ run'.resume = TRUE
        /\ run'.status = run.status /\ run'.valid = run.valid /\ run'.mode = run.mode
        /\ run'.check = run.check /\ run'.snapshot = run.snapshot /\ run'.plan = run.plan
        /\ run'.draft = run.draft
    BY <2>1, <2>2 DEF RunFields, Results
  <2>4. resume' # Nothing /\ resume'.draft = run.draft
    <3>1. CASE confirm[c].existing
      <4>1. resume' = resume
        BY <1>3, <3>1 DEF ConfirmWrite
      <4>2. resume # Nothing
        BY <1>0, <2>0, <3>1 DEF ConfirmOK
      <4> QED
        BY <1>0, <4>1, <4>2 DEF ResumeOK
    <3>2. CASE ~confirm[c].existing
      <4>1. resume' = Materialized(run)
        BY <1>3, <3>2 DEF ConfirmWrite
      <4>2. DOMAIN resume' = {"draft", "skills"} /\ resume'.draft = run.draft
        BY <4>1 DEF Materialized
      <4>3. DOMAIN Nothing = {"none"}
        BY DEF Nothing
      <4> QED
        BY <4>2, <4>3
    <3> QED
      BY <3>1, <3>2
  <2>5. Accepted'
    BY <2>2, <2>3 DEF Accepted
  <2>6. ConfirmOK'
    BY <1>0, <2>1, <2>4, <2>5 DEF ConfirmOK, Confirmations
  <2>7. RunOK' /\ ResumeOK'
    BY <1>0, <2>2, <2>3, <2>4, <2>5 DEF RunOK, ResumeOK, Accepted
  <2>8. GraphOK'
    BY <1>0, <2>2, <2>3 DEF GraphOK, Accepted
  <2> QED
    BY <1>0, <2>6, <2>7, <2>8 DEF GenInv
<1>4. CASE ConfirmCollides(c)
  <2>1. /\ run' = run /\ resume' = resume
        /\ confirm' = [confirm EXCEPT ![c] = [stage |-> "error"]]
    BY <1>4 DEF ConfirmCollides
  <2>2. ConfirmOK'
    BY <1>0, <2>1 DEF ConfirmOK, Confirmations, Accepted
  <2> QED
    BY <1>0, <2>1, <2>2 DEF GenInv, GraphOK, RunOK, ResumeOK, Accepted
<1> QED
  BY <1>1, <1>2, <1>3, <1>4 DEF Confirm

-----------------------------------------------------------------------------
(* The invariant holds, and what follows from it.                          *)

(* The initial state is consistent. *)
LEMMA InitHasGenInv ==
  ASSUME Init
  PROVE  GenInv
<1>1. Inv
  BY InitHasInv DEF Init
<1>2. /\ run = NoRun /\ graph = NoGraph /\ resume = Nothing
      /\ confirm = [c \in Clients |-> [stage |-> "idle"]]
  BY DEF Init, InitGeneration
<1>3. GraphOK /\ RunOK /\ ResumeOK
  BY <1>2 DEF GraphOK, NoGraph, RunOK, NoRun, ResumeOK
<1>4. ConfirmOK
  BY <1>2 DEF ConfirmOK, Confirmations
<1> QED
  BY <1>1, <1>3, <1>4 DEF GenInv

(* Every step keeps the invariant. *)
LEMMA NextKeepsGenInv ==
  ASSUME GenInv, [Next]_vars
  PROVE  GenInv'
<1>1. CASE UNCHANGED <<run, graph, resume, confirm>> /\ [IndexNext]_indexVars
  <2>1. Inv'
    BY <1>1, NextKeepsInv DEF GenInv
  <2> QED
    BY <1>1, <2>1 DEF GenInv, GraphOK, RunOK, ResumeOK, ConfirmOK, Accepted
<1>2. CASE UNCHANGED vars
  BY <1>1, <1>2 DEF vars, indexVars
<1> QED
  BY <1>1, <1>2, PreviewKeepsInv, GraphKeepsInv, ConfirmKeepsInv DEF Next

(* The invariant holds throughout. *)
THEOREM GenInvHolds == Spec => []GenInv
<1>1. Init => GenInv
  BY InitHasGenInv
<1>2. GenInv /\ [Next]_vars => GenInv'
  BY NextKeepsGenInv
<1> QED
  BY <1>1, <1>2, PTL DEF Spec

(* A bullet of a generated resume cites evidence that was its experience's,   *)
(* and its experience was ready, when the preview began, whatever the index    *)
(* returned and the language model answered (validate_draft_references,        *)
(* assemble_plan).                                                            *)
THEOREM ResumesAreGrounded == Spec => []ResumeIsGrounded
<1>1. GenInv => ResumeIsGrounded
  <2> SUFFICES ASSUME GenInv, resume # Nothing, NEW b \in resume.draft.bullets
               PROVE  /\ b.evidence # {} /\ b.evidence \subseteq EvidenceOf(run.snapshot, b.experience)
                      /\ b.experience \in run.snapshot.ready
    BY DEF ResumeIsGrounded
  <2>1. Cites(run.plan, b, run.snapshot) /\ PlanOK(run.plan, run.snapshot)
    BY DEF GenInv, ResumeOK, RunOK, Accepted
  <2> QED
    BY <2>1 DEF Cites, PlanOK
<1> QED
  BY <1>1, GenInvHolds, PTL

(* A resume that a language model had a hand in was found supported by one     *)
(* (compose_draft_validation, confirm).                                       *)
THEOREM ResumesWereFactChecked == Spec => []ResumeWasFactChecked
<1>1. GenInv => ResumeWasFactChecked
  BY DEF GenInv, ResumeOK, Accepted, ResumeWasFactChecked
<1> QED
  BY <1>1, GenInvHolds, PTL

(* Run and resume are confirmed together, also by overlapping confirmations,   *)
(* and the plan and the draft fit the pages, for every description and limits. *)
THEOREM RunsAreConsistent == Spec => []RunConsistent
<1>1. GenInv => RunConsistent
  <2> SUFFICES ASSUME GenInv
               PROVE  RunConsistent
    OBVIOUS
  <2>1. TypeOK
    <3>1. library.ready \subseteq Experiences /\ open \in [Experiences -> Nat]
      BY DEF GenInv, Inv, Types, Tables
    <3> QED
      BY <3>1 DEF GenInv, TypeOK, GraphOK, RunOK, ConfirmOK, Confirmations
  <2>2. ConfirmedTogether
    BY DEF GenInv, ConfirmedTogether, RunOK, ResumeOK, ConfirmOK
  <2>3. PlanWithinLimits
    <3> SUFFICES ASSUME run.artifact # "pending"
                 PROVE  /\ \A s \in {Section[x] : x \in Experiences} :
                             Cardinality({x \in DOMAIN run.plan.selected : Section[x] = s}) <= SectionLimits[s]
                        /\ Cardinality(DOMAIN run.plan.selected) <= MaxTotal
                        /\ \A x \in Experiences : Cardinality({b \in run.draft.bullets : b.experience = x}) <= MaxBullets
      BY DEF PlanWithinLimits
    <3>1. PlanOK(run.plan, run.snapshot) /\ DraftOK(run.draft)
      BY DEF GenInv, RunOK
    <3>2. {Section[x] : x \in Experiences} \subseteq DOMAIN SectionLimits
      BY Limits
    <3> QED
      BY <3>1, <3>2 DEF PlanOK, WithinPages, InSection, DraftOK
  <2> QED
    BY <2>1, <2>2, <2>3 DEF RunConsistent
<1> QED
  BY <1>1, GenInvHolds, PTL

(* A generation never disturbs the index below it. *)
THEOREM IndexStaysCurrent == Spec => []ProcessedIsIndexed
<1>1. GenInv => ProcessedIsIndexed
  BY DEF GenInv, Inv, Quiet, Indexed, ProcessedIsIndexed
<1> QED
  BY <1>1, GenInvHolds, PTL
=============================================================================
