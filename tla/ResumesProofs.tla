---------------------------- MODULE ResumesProofs ----------------------------
(***************************************************************************)
(* Proofs about Resumes for any number of requests and rows: there is one   *)
(* master at most and no upload meets the unique index, a ready row has its *)
(* data, improvements join a child to its parent, a confirmation stores     *)
(* what a preview has shown, and no deleted resume comes back.              *)
(*                                                                         *)
(* The invariant says what a request may rely on after the model has        *)
(* answered: whoever is between reading the master and inserting a row has  *)
(* the lock, and what it read of the master has at most been deleted since. *)
(***************************************************************************)
EXTENDS Resumes, FiniteSetTheorems, TLAPS

Jobs == [step: Steps,
         op: {"none", "refused", "upload", "retry", "apply", "preview", "confirm", "improve", "prep"},
         resume: 0..MaxResumes,
         seen: Docs \cup {None} \cup [p: Prompts, of: Docs \cup {None}],
         hashes: [Prompts -> Docs \cup {None}], master: BOOLEAN, tailored: 0..MaxResumes]

Types ==
  /\ TypeOK
  /\ handler \in [Handlers -> Jobs]

(* Rows are created in order, and never again under an id. *)
FreshRows == \A i \in Ids : i > created => resumes[i] = NoRow

(* The tailored resume of an improvement is there, or was deleted. *)
Linked(parent, child, rows, count) ==
  /\ child \in 1..count /\ child > parent
  /\ rows[child].exists => rows[child].parent = parent

ImprovementsLinked == \A m \in improvements : Linked(m.original, m.tailored, resumes, created)

(* What was hashed for a preview was shown by one. *)
Shown(hs, docs) == \A p \in Prompts : hs[p] \in docs \cup {None}

(* What a request has read. *)
JobOK(j, rows, count, docs) ==
  /\ j.op # "refused"
  /\ j.step \notin {"idle", "lock", "insert"} => j.resume \in 1..count
  /\ j.step \in {"apply", "check", "confirm", "improve"} => j.seen \in Docs
  /\ j.step = "confirm" => j.seen \in docs
  /\ j.step = "preview" => /\ j.seen \in [p: Prompts, of: Docs \cup {None}]
                           /\ Shown(j.hashes, docs)
  /\ j.step = "improvement" => Linked(j.resume, j.tailored, rows, count)

(* Between reading the master and inserting a row an upload holds the lock,  *)
(* and there is no master but the one it is about to demote.                 *)
UploadOK(h, j, lock, masters) ==
  /\ j.step \in {"demote", "insert"} => lock = h
  /\ j.step = "demote" => masters \subseteq {j.resume}
  /\ j.step = "insert" /\ j.master => masters = {}

OneMaster == \A i, k \in Masters : i = k

JobsOK == \A h \in Handlers : /\ JobOK(handler[h], resumes, created, previewed)
                              /\ UploadOK(h, handler[h], masterLock, Masters)

Tables == ReadyHasData /\ FreshRows /\ ImprovementsLinked /\ Shown(hashes, previewed) /\ OneMaster

Inv == Types /\ Tables /\ JobsOK

-----------------------------------------------------------------------------
(* What a step leaves alone.                                               *)

(* What a step does to the rows there are: none comes back, none gets another *)
(* parent.                                                                   *)
Older(rows, new, count) ==
  \A k \in 1..count : new[k].exists => rows[k].exists /\ new[k].parent = rows[k].parent

(* What a request has read stays true when others delete and change rows,     *)
(* insert new ones and show more previews.                                    *)
LEMMA JobOutlives ==
  ASSUME NEW j, NEW rows, NEW new, NEW n \in Nat, NEW m \in Nat, n <= m,
         NEW docs, NEW more, docs \subseteq more, Older(rows, new, n), JobOK(j, rows, n, docs)
  PROVE  JobOK(j, new, m, more)
BY DEF JobOK, Linked, Shown, Older

(* One request moves, the others only meet the changes of the tables. *)
LEMMA StepKeepsJobs ==
  ASSUME Inv, NEW h \in Handlers, NEW j \in Jobs, Goto(h, j),
         created' \in Nat, created <= created', previewed \subseteq previewed',
         Older(resumes, resumes', created),
         JobOK(j, resumes', created', previewed'), UploadOK(h, j, masterLock', Masters'),
         \/ masterLock' = masterLock /\ Masters' \subseteq Masters
         \/ masterLock \in {h, None}
  PROVE  handler' \in [Handlers -> Jobs] /\ JobsOK'
<1>1. handler \in [Handlers -> Jobs] /\ handler' = [handler EXCEPT ![h] = j] /\ created \in Nat
  BY Sizes DEF Inv, Types, TypeOK, Goto
<1>2. ASSUME NEW v \in Handlers
      PROVE  /\ JobOK(handler'[v], resumes', created', previewed')
             /\ UploadOK(v, handler'[v], masterLock', Masters')
  <2>1. CASE v = h
    BY <1>1, <2>1
  <2>2. CASE v # h
    <3>1. handler'[v] = handler[v]
      BY <1>1, <2>2
    <3>2. /\ JobOK(handler[v], resumes, created, previewed)
          /\ UploadOK(v, handler[v], masterLock, Masters)
      BY DEF Inv, JobsOK
    <3>3. JobOK(handler[v], resumes', created', previewed')
      BY <1>1, <3>2, JobOutlives
    <3>4. UploadOK(v, handler[v], masterLock', Masters')
      BY <2>2, <3>2, Sizes DEF UploadOK
    <3> QED
      BY <3>1, <3>3, <3>4
  <2> QED
    BY <2>1, <2>2
<1> QED
  BY <1>1, <1>2 DEF JobsOK

(* The tables keep what they promise when rows are changed or deleted. *)
LEMMA RowsKeepTables ==
  ASSUME Inv, resumes' \in [Ids -> Rows], UNCHANGED <<created, hashes, improvements, previewed>>,
         \A i \in Ids : ~resumes'[i].exists => resumes'[i] = NoRow,
         \A i \in Ids : resumes'[i].exists =>
           /\ resumes[i].exists /\ resumes'[i].parent = resumes[i].parent
           /\ resumes'[i].master => resumes[i].master
           /\ resumes'[i].status = "ready" => resumes'[i].data # None
  PROVE  /\ Tables' /\ Older(resumes, resumes', created) /\ Masters' \subseteq Masters
         /\ resumes' \in [Ids -> Rows] /\ hashes' \in [Prompts -> Docs \cup {None}]
         /\ improvements' \subseteq [original : Ids, tailored : Ids]
         /\ created' \in 0..MaxResumes /\ previewed' \subseteq Docs
<1>1. /\ Tables /\ created' = created /\ hashes' = hashes /\ improvements' = improvements
      /\ previewed' = previewed /\ created \in 0..MaxResumes
  BY DEF Inv, Types, TypeOK
<1>2. Masters' \subseteq Masters
  BY DEF Masters
<1>3. 1..created \subseteq Ids
  BY <1>1, Sizes DEF Ids
<1>4. Older(resumes, resumes', created)
  BY <1>3 DEF Older
<1>5. ReadyHasData' /\ OneMaster' /\ Shown(hashes, previewed)'
  BY <1>1, <1>2 DEF ReadyHasData, OneMaster, Tables, Shown
<1>6. FreshRows'
  BY <1>1 DEF FreshRows, Tables, NoRow
<1>7. ImprovementsLinked'
  BY <1>1, <1>3 DEF ImprovementsLinked, Linked, Tables
<1> QED
  BY <1>1, <1>2, <1>4, <1>5, <1>6, <1>7 DEF Tables, Inv, Types, TypeOK

(* A request moves and changes nothing but its own memory and previews. *)
LEMMA MoveKeepsInv ==
  ASSUME Inv, NEW h \in Handlers, NEW j \in Jobs, Goto(h, j),
         UNCHANGED <<resumes, created, hashes, improvements, masterLock, previewed>>,
         JobOK(j, resumes, created, previewed), UploadOK(h, j, masterLock, Masters)
  PROVE  Inv'
<1>1. Masters' = Masters
  BY DEF Masters
<1>2. created \in Nat /\ Older(resumes, resumes', created)
  BY Sizes DEF Inv, Types, TypeOK, Older
<1>3. handler' \in [Handlers -> Jobs] /\ JobsOK'
  BY <1>1, <1>2, StepKeepsJobs
<1>4. Tables'
  BY <1>1 DEF Inv, Tables, ReadyHasData, FreshRows, ImprovementsLinked, OneMaster, Linked, Shown
<1>5. TypeOK'
  BY <1>3 DEF Inv, Types, TypeOK, Jobs
<1> QED
  BY <1>3, <1>4, <1>5 DEF Inv, Types

(* A request writes rows that are there, or finds them gone, and ends or goes on. *)
LEMMA WriteKeepsInv ==
  ASSUME Inv, NEW h \in Handlers, NEW j \in Jobs, Goto(h, j), resumes' \in [Ids -> Rows],
         UNCHANGED <<created, hashes, improvements, masterLock, previewed>>,
         \A i \in Ids : ~resumes'[i].exists => resumes'[i] = NoRow,
         \A i \in Ids : resumes'[i].exists =>
           /\ resumes[i].exists /\ resumes'[i].parent = resumes[i].parent
           /\ resumes'[i].master => resumes[i].master
           /\ resumes'[i].status = "ready" => resumes'[i].data # None,
         JobOK(j, resumes', created, previewed), UploadOK(h, j, masterLock, Masters')
  PROVE  Inv'
<1>1. /\ Tables' /\ Older(resumes, resumes', created) /\ Masters' \subseteq Masters
      /\ resumes' \in [Ids -> Rows] /\ hashes' \in [Prompts -> Docs \cup {None}]
      /\ improvements' \subseteq [original : Ids, tailored : Ids]
      /\ created' \in 0..MaxResumes /\ previewed' \subseteq Docs
  BY RowsKeepTables
<1>2. created \in Nat
  BY Sizes DEF Inv, Types, TypeOK
<1>3. handler' \in [Handlers -> Jobs] /\ JobsOK'
  BY <1>1, <1>2, StepKeepsJobs
<1>4. TypeOK'
  BY <1>1, <1>3 DEF Inv, Types, TypeOK, Jobs
<1> QED
  BY <1>1, <1>3, <1>4 DEF Inv, Types

(* A request that has ended, and one that has just begun with a row. *)
LEMMA IdleIsOK ==
  ASSUME NEW h, NEW rows, NEW n, NEW docs, NEW lock, NEW masters
  PROVE  Idle \in Jobs /\ JobOK(Idle, rows, n, docs) /\ UploadOK(h, Idle, lock, masters)
BY Sizes DEF Idle, Jobs, Steps, JobOK, UploadOK

(* The record of a handler at work is a job of its operation. *)
LEMMA WorkingType ==
  ASSUME NEW i \in 0..MaxResumes, NEW step \in Steps,
         NEW op \in {"upload", "retry", "apply", "preview", "confirm", "improve", "prep"}
  PROVE  /\ Working(op, step, i) \in Jobs
         /\ Working(op, step, i).step = step /\ Working(op, step, i).op = op
         /\ Working(op, step, i).resume = i
<1>1. Idle \in Jobs
  BY IdleIsOK
<1> QED
  BY <1>1 DEF Working, Jobs

(* The fields a request changes between its transactions. *)
LEMMA JobMoves ==
  ASSUME NEW j \in Jobs, NEW step \in Steps, NEW i \in 0..MaxResumes, NEW master \in BOOLEAN
  PROVE  /\ [j EXCEPT !.step = step, !.resume = i] \in Jobs
         /\ [j EXCEPT !.step = step, !.master = master] \in Jobs
         /\ [j EXCEPT !.step = step, !.tailored = i] \in Jobs
BY DEF Jobs

(* A row that is there is one that was created. *)
LEMMA ExistingWasCreated ==
  ASSUME Inv, NEW i, Exists(i)
  PROVE  i \in Ids /\ i \in 1..created /\ resumes[i] \in Rows
<1>1. i \in Ids /\ resumes[i].exists /\ resumes[i] \in Rows
  BY DEF Exists, Inv, Types, TypeOK
<1>2. ~(i > created)
  BY <1>1 DEF Inv, Tables, FreshRows, NoRow
<1> QED
  BY <1>1, <1>2, Sizes DEF Ids, Inv, Types, TypeOK

(* What an action does to one row, and what follows for all of them. *)
LEMMA UpdateOfRow ==
  ASSUME Inv, NEW i \in Ids, NEW row \in Rows, Update(i, row),
         row.exists = resumes[i].exists, row.parent = resumes[i].parent,
         row.master => resumes[i].master, row.status = "ready" => row.data # None
  PROVE  /\ resumes' \in [Ids -> Rows]
         /\ \A k \in Ids : ~resumes'[k].exists => resumes'[k] = NoRow
         /\ \A k \in Ids : resumes'[k].exists =>
              /\ resumes[k].exists /\ resumes'[k].parent = resumes[k].parent
              /\ resumes'[k].master => resumes[k].master
              /\ resumes'[k].status = "ready" => resumes'[k].data # None
<1>1. /\ resumes \in [Ids -> Rows] /\ \A k \in Ids : ~resumes[k].exists => resumes[k] = NoRow
      /\ \A k \in Ids : resumes[k].exists /\ resumes[k].status = "ready" => resumes[k].data # None
  BY DEF Inv, Types, TypeOK, Tables, ReadyHasData
<1>2. resumes' = [resumes EXCEPT ![i] = IF resumes[i].exists THEN row ELSE resumes[i]]
  BY DEF Update
<1> QED
  BY <1>1, <1>2

(* A request that writes its row and ends. *)
LEMMA UpdateAndEnd ==
  ASSUME Inv, NEW h \in Handlers, Goto(h, Idle), NEW i \in Ids, NEW row \in Rows, Update(i, row),
         UNCHANGED <<created, hashes, improvements, masterLock, previewed>>,
         row.exists = resumes[i].exists, row.parent = resumes[i].parent,
         row.master => resumes[i].master, row.status = "ready" => row.data # None
  PROVE  Inv'
BY UpdateOfRow, IdleIsOK, WriteKeepsInv

-----------------------------------------------------------------------------
(* The actions.                                                            *)

(* A request about a row. *)
LEMMA RowOfJob ==
  ASSUME Inv, NEW h \in Handlers
  PROVE  /\ handler[h] \in Jobs /\ JobOK(handler[h], resumes, created, previewed)
         /\ UploadOK(h, handler[h], masterLock, Masters)
         /\ handler[h].step \notin {"idle", "lock", "insert"} =>
              handler[h].resume \in Ids /\ resumes[handler[h].resume] \in Rows
         /\ created \in 0..MaxResumes
BY Sizes DEF Inv, Types, TypeOK, JobsOK, JobOK, Ids

(* upload_resume, up to the insertion of the row. *)
LEMMA UploadsKeepInv ==
  ASSUME Inv, NEW h \in Handlers,
         UploadBegin(h) \/ UploadMaster(h) \/ UploadDemote(h) \/ UploadRaises(h)
  PROVE  Inv'
<1> DEFINE j == handler[h]
<1>0. /\ j \in Jobs /\ JobOK(j, resumes, created, previewed)
      /\ UploadOK(h, j, masterLock, Masters) /\ created \in 0..MaxResumes
      /\ j.step = "demote" => j.resume \in Ids /\ resumes[j.resume] \in Rows
  BY RowOfJob
<1>1. CASE UploadBegin(h)
  <2> DEFINE new == Working("upload", "lock", 0)
  <2>1. new \in Jobs /\ new.step = "lock" /\ new.op = "upload"
    BY WorkingType, Sizes DEF Steps
  <2>2. JobOK(new, resumes, created, previewed) /\ UploadOK(h, new, masterLock, Masters)
    BY <2>1 DEF JobOK, UploadOK
  <2>3. Goto(h, new) /\ UNCHANGED <<resumes, created, hashes, improvements, masterLock, previewed>>
    BY <1>1 DEF UploadBegin
  <2> HIDE DEF new
  <2> QED
    BY <2>1, <2>2, <2>3, MoveKeepsInv
<1>2. CASE UploadMaster(h)
  <2>1. /\ j.step = "lock" /\ masterLock = None /\ masterLock' = h
        /\ UNCHANGED <<resumes, created, hashes, improvements, previewed>>
    BY <1>2 DEF UploadMaster, TakeMaster, At
  <2>2. PICK new \in Jobs :
          /\ Goto(h, new) /\ new.step \in {"demote", "insert"} /\ new.op = j.op
          /\ new.step = "demote" => new.resume \in Masters
          /\ new.step = "insert" /\ new.master => Masters = {}
    <3>1. CASE Masters = {}
      <4>1. Goto(h, [j EXCEPT !.step = "insert", !.master = TRUE])
        BY <1>2, <3>1 DEF UploadMaster, TakeMaster, Masters
      <4>2. [j EXCEPT !.step = "insert", !.master = TRUE] \in Jobs
        BY <1>0, JobMoves DEF Steps
      <4> QED
        BY <1>0, <3>1, <4>1, <4>2 DEF Jobs
    <3>2. CASE Masters # {}
      <4>1. PICK m \in Masters :
              \/ Goto(h, [j EXCEPT !.step = "demote", !.resume = m])
              \/ Goto(h, [j EXCEPT !.step = "insert", !.master = FALSE])
        BY <1>2, <3>2 DEF UploadMaster, TakeMaster
      <4>2. m \in 0..MaxResumes
        BY Sizes DEF Masters, Ids
      <4>3. /\ [j EXCEPT !.step = "demote", !.resume = m] \in Jobs
            /\ [j EXCEPT !.step = "insert", !.master = FALSE] \in Jobs
        BY <1>0, <4>2, JobMoves DEF Steps
      <4>4. CASE Goto(h, [j EXCEPT !.step = "demote", !.resume = m])
        BY <1>0, <4>3, <4>4 DEF Jobs
      <4>5. CASE Goto(h, [j EXCEPT !.step = "insert", !.master = FALSE])
        BY <1>0, <4>3, <4>5 DEF Jobs
      <4> QED
        BY <4>1, <4>4, <4>5
    <3> QED
      BY <3>1, <3>2
  <2>3. UploadOK(h, new, h, Masters)
    BY <2>2 DEF UploadOK, Inv, Tables, OneMaster
  <2>4. ASSUME NEW m \in Masters
        PROVE  m \in 1..created
    BY <2>4, ExistingWasCreated DEF Masters, Exists
  <2>5. JobOK(new, resumes, created, previewed)
    BY <1>0, <2>2, <2>4 DEF JobOK
  <2>6. Masters' = Masters /\ created \in Nat /\ Older(resumes, resumes', created)
    BY <1>0, <2>1, Sizes DEF Masters, Older
  <2>7. handler' \in [Handlers -> Jobs] /\ JobsOK'
    BY <2>1, <2>2, <2>3, <2>5, <2>6, StepKeepsJobs
  <2>8. Tables'
    BY <2>1, <2>6 DEF Inv, Tables, ReadyHasData, FreshRows, ImprovementsLinked, OneMaster, Linked, Shown
  <2>9. TypeOK'
    BY <2>1, <2>7 DEF Inv, Types, TypeOK, Jobs
  <2> QED
    BY <2>7, <2>8, <2>9 DEF Inv, Types
<1>3. CASE UploadDemote(h)
  <2> DEFINE i == j.resume
             row == [resumes[i] EXCEPT !.master = FALSE]
             new == [j EXCEPT !.step = "insert", !.master = TRUE]
  <2>1. /\ j.step = "demote" /\ Update(i, row) /\ Goto(h, new)
        /\ UNCHANGED <<created, hashes, improvements, masterLock, previewed>>
    BY <1>3 DEF UploadDemote, At
  <2>2. i \in Ids /\ resumes[i] \in Rows /\ resumes \in [Ids -> Rows]
    BY <1>0, <2>1 DEF Inv, Types, TypeOK
  <2>3. /\ new \in Jobs /\ new.step = "insert" /\ new.op = j.op /\ new.master
    BY <1>0 DEF Jobs, Steps
  <2>4. /\ row \in Rows /\ ~row.master /\ row.exists = resumes[i].exists
        /\ row.parent = resumes[i].parent /\ row.status = resumes[i].status
        /\ row.data = resumes[i].data
        /\ ~resumes[i].exists => row = NoRow
    <3>1. /\ row \in Rows /\ ~row.master /\ row.exists = resumes[i].exists
          /\ row.parent = resumes[i].parent /\ row.status = resumes[i].status
          /\ row.data = resumes[i].data
      BY <2>2 DEF Rows
    <3>2. ASSUME ~resumes[i].exists
          PROVE  row = NoRow
      <4>1. resumes[i] = NoRow
        BY <2>2, <3>2 DEF Inv, Types, TypeOK
      <4>2. ~resumes[i].master
        BY <4>1 DEF NoRow
      <4>3. row = resumes[i]
        BY <2>2, <4>2 DEF Rows
      <4> QED
        BY <4>1, <4>3
    <3> QED
      BY <3>1, <3>2
  <2>5. \A k \in Ids : k # i => resumes'[k] = resumes[k]
    BY <2>1, <2>2 DEF Update
  <2>6. resumes'[i] = row /\ resumes' \in [Ids -> Rows]
    <3>1. resumes[i].exists \/ row = resumes[i]
      BY <2>2, <2>4 DEF Inv, Types, TypeOK
    <3>2. resumes' = [resumes EXCEPT ![i] = IF resumes[i].exists THEN row ELSE resumes[i]]
      BY <2>1 DEF Update
    <3> HIDE DEF row
    <3> QED
      BY <2>2, <2>4, <3>1, <3>2
  <2>7. Masters' = {}
    BY <1>0, <2>1, <2>4, <2>5, <2>6 DEF Masters, UploadOK
  <2> HIDE DEF new, row
  <2>8. JobOK(new, resumes', created, previewed) /\ UploadOK(h, new, masterLock, Masters')
    BY <1>0, <2>1, <2>3, <2>7 DEF JobOK, UploadOK
  <2>9. \A k \in Ids : ~resumes'[k].exists => resumes'[k] = NoRow
    BY <2>4, <2>5, <2>6 DEF Inv, Types, TypeOK
  <2>10. \A k \in Ids : resumes'[k].exists =>
           /\ resumes[k].exists /\ resumes'[k].parent = resumes[k].parent
           /\ resumes'[k].master => resumes[k].master
           /\ resumes'[k].status = "ready" => resumes'[k].data # None
    BY <2>4, <2>5, <2>6 DEF Inv, Tables, ReadyHasData
  <2> QED
    BY <2>1, <2>3, <2>6, <2>8, <2>9, <2>10, WriteKeepsInv
<1>4. CASE UploadRaises(h)
  <2>1. /\ j.step \in {"demote", "insert"} /\ masterLock' = None /\ Goto(h, Idle)
        /\ UNCHANGED <<resumes, created, hashes, improvements, previewed>>
    BY <1>4 DEF UploadRaises, At
  <2>2. masterLock = h /\ Masters' = Masters /\ created \in Nat /\ Older(resumes, resumes', created)
    BY <1>0, <2>1, Sizes DEF UploadOK, Masters, Older
  <2>3. handler' \in [Handlers -> Jobs] /\ JobsOK'
    BY <2>1, <2>2, IdleIsOK, StepKeepsJobs
  <2>4. Tables'
    BY <2>1, <2>2 DEF Inv, Tables, ReadyHasData, FreshRows, ImprovementsLinked, OneMaster, Linked, Shown
  <2>5. TypeOK'
    BY <2>1, <2>3 DEF Inv, Types, TypeOK, Jobs
  <2> QED
    BY <2>3, <2>4, <2>5 DEF Inv, Types
<1> QED
  BY <1>1, <1>2, <1>3, <1>4

(* create_resume: a row of a new id. *)
LEMMA InsertKeepsTables ==
  ASSUME Inv, NEW row \in Rows, Insert(row), UNCHANGED <<hashes, improvements, previewed>>,
         row.exists, row.status = "ready" => row.data # None, row.master => Masters = {}
  PROVE  /\ resumes' \in [Ids -> Rows] /\ Tables' /\ Older(resumes, resumes', created)
         /\ \A k \in Ids : ~resumes'[k].exists => resumes'[k] = NoRow
         /\ created + 1 \in Ids /\ created' = created + 1 /\ resumes'[created + 1] = row
         /\ ~row.master => Masters' = Masters
<1>1. /\ resumes \in [Ids -> Rows] /\ created \in 0..MaxResumes
      /\ \A k \in Ids : ~resumes[k].exists => resumes[k] = NoRow
  BY DEF Inv, Types, TypeOK
<1>2. /\ created < MaxResumes /\ created' = created + 1
      /\ resumes' = [resumes EXCEPT ![created + 1] = row]
  BY DEF Insert
<1>3. created + 1 \in Ids /\ 1..created \subseteq Ids /\ created \in Nat
  BY <1>1, <1>2, Sizes DEF Ids
<1>4. /\ resumes' \in [Ids -> Rows] /\ resumes'[created + 1] = row
      /\ \A k \in Ids : k # created + 1 => resumes'[k] = resumes[k]
  BY <1>1, <1>2, <1>3
<1>5. Older(resumes, resumes', created)
  BY <1>3, <1>4 DEF Older
<1>6. ReadyHasData' /\ FreshRows' /\ Shown(hashes, previewed)'
  BY <1>2, <1>3, <1>4 DEF Inv, Tables, ReadyHasData, FreshRows, Ids, Shown
<1>7. ImprovementsLinked'
  <2>1. ASSUME NEW m \in improvements
        PROVE  Linked(m.original, m.tailored, resumes', created')
    <3>1. Linked(m.original, m.tailored, resumes, created)
      BY DEF Inv, Tables, ImprovementsLinked
    <3> QED
      BY <1>2, <1>3, <1>4, <3>1 DEF Linked
  <2> QED
    BY <2>1 DEF ImprovementsLinked
<1>8. ~row.master => Masters' = Masters
  BY <1>2, <1>3, <1>4 DEF Masters, Inv, Tables, FreshRows, NoRow
<1>9. OneMaster'
  <2>1. CASE row.master
    <3>1. Masters = {} /\ Masters' \subseteq {created + 1}
      BY <1>4, <2>1 DEF Masters
    <3> QED
      BY <3>1 DEF OneMaster
  <2>2. CASE ~row.master
    BY <1>8, <2>2 DEF Inv, Tables, OneMaster
  <2> QED
    BY <2>1, <2>2
<1>10. \A k \in Ids : ~resumes'[k].exists => resumes'[k] = NoRow
  BY <1>1, <1>3, <1>4
<1> QED
  BY <1>2, <1>3, <1>4, <1>5, <1>6, <1>7, <1>8, <1>9, <1>10 DEF Tables

(* A request inserts its row; an upload gives the lock back. *)
LEMMA InsertsKeepInv ==
  ASSUME Inv, NEW h \in Handlers, UploadInsert(h) \/ TailoredInsert(h)
  PROVE  Inv'
<1> DEFINE j == handler[h]
<1>0. /\ j \in Jobs /\ JobOK(j, resumes, created, previewed)
      /\ UploadOK(h, j, masterLock, Masters) /\ created \in 0..MaxResumes
      /\ NoRow \in Rows
  BY RowOfJob, Sizes DEF NoRow, Rows
<1>1. CASE UploadInsert(h)
  <2> DEFINE new == Working("upload", "parse", created + 1)
  <2>1. /\ j.step = "insert" /\ masterLock = h /\ masterLock' = None
        /\ Insert([NoRow EXCEPT !.exists = TRUE, !.master = j.master, !.status = "processing"])
        /\ Goto(h, new)
        /\ UNCHANGED <<hashes, improvements, previewed>>
    BY <1>0, <1>1 DEF UploadInsert, At, UploadOK
  <2>2. PICK row \in Rows : /\ Insert(row) /\ row.exists /\ row.status = "processing"
                            /\ row.master => Masters = {}
    <3>1. j.master => Masters = {}
      BY <1>1, <1>0 DEF UploadInsert, At, UploadOK
    <3> DEFINE r == [NoRow EXCEPT !.exists = TRUE, !.master = j.master, !.status = "processing"]
    <3>2. r \in Rows /\ r.exists /\ r.status = "processing" /\ (r.master => j.master)
      BY <1>0 DEF Rows, Jobs
    <3>3. Insert(r)
      BY <2>1
    <3> HIDE DEF r
    <3> QED
      BY <3>1, <3>2, <3>3
  <2>3. /\ resumes' \in [Ids -> Rows] /\ Tables' /\ Older(resumes, resumes', created)
        /\ \A k \in Ids : ~resumes'[k].exists => resumes'[k] = NoRow
        /\ created + 1 \in Ids /\ created' = created + 1
    BY <2>1, <2>2, InsertKeepsTables
  <2>4. new \in Jobs /\ new.step = "parse" /\ new.op = "upload" /\ new.resume = created + 1
    BY <2>3, WorkingType, Sizes DEF Steps, Ids
  <2> HIDE DEF new
  <2>5. JobOK(new, resumes', created', previewed') /\ UploadOK(h, new, masterLock', Masters')
    BY <1>0, <2>3, <2>4, Sizes DEF JobOK, UploadOK
  <2>6. handler' \in [Handlers -> Jobs] /\ JobsOK'
    <3>1. /\ created' \in Nat /\ created <= created' /\ previewed \subseteq previewed'
          /\ masterLock \in {h, None}
      BY <1>0, <2>1, <2>3
    <3> QED
      BY <2>1, <2>3, <2>4, <2>5, <3>1, StepKeepsJobs
  <2>7. TypeOK'
    BY <2>1, <2>3, <2>6, Sizes DEF Inv, Types, TypeOK, Jobs, Ids
  <2> QED
    BY <2>3, <2>6, <2>7 DEF Inv, Types
<1>2. CASE TailoredInsert(h)
  <2> DEFINE row == [NoRow EXCEPT !.exists = TRUE, !.status = "ready",
                                  !.data = j.seen, !.parent = j.resume]
             new == [j EXCEPT !.step = "improvement", !.tailored = created + 1]
  <2>1. /\ j.step \in {"confirm", "improve"} /\ Insert(row) /\ Goto(h, new)
        /\ UNCHANGED <<hashes, improvements, masterLock, previewed>>
    BY <1>2 DEF TailoredInsert, At
  <2>2. j.seen \in Docs /\ j.resume \in Ids /\ j.resume \in 1..created
    BY <1>0, <2>1, Sizes DEF JobOK, Ids
  <2>3. /\ row \in Rows /\ row.exists /\ row.status = "ready" /\ row.data = j.seen
        /\ row.parent = j.resume /\ row.master = FALSE
    <3>1. row \in Rows /\ row.exists /\ row.status = "ready" /\ row.data = j.seen
          /\ row.parent = j.resume /\ row.master = NoRow.master
      BY <1>0, <2>2 DEF Rows
    <3> QED
      BY <3>1 DEF NoRow
  <2> HIDE DEF row
  <2>4. /\ resumes' \in [Ids -> Rows] /\ Tables' /\ Older(resumes, resumes', created)
        /\ \A k \in Ids : ~resumes'[k].exists => resumes'[k] = NoRow
        /\ created + 1 \in Ids /\ created' = created + 1 /\ resumes'[created + 1] = row
        /\ Masters' = Masters
    BY <2>1, <2>2, <2>3, InsertKeepsTables, Sizes
  <2>5. /\ new \in Jobs /\ new.step = "improvement" /\ new.op = j.op
        /\ new.resume = j.resume /\ new.tailored = created + 1
    <3>1. created + 1 \in 0..MaxResumes
      BY <2>4, Sizes DEF Ids
    <3>2. new \in Jobs
      BY <1>0, <3>1, JobMoves DEF Steps
    <3> QED
      BY <1>0, <3>1, <3>2 DEF Jobs
  <2> HIDE DEF new
  <2>6. JobOK(new, resumes', created', previewed') /\ UploadOK(h, new, masterLock', Masters')
    BY <1>0, <2>2, <2>3, <2>4, <2>5, Sizes DEF JobOK, UploadOK, Linked
  <2>7. handler' \in [Handlers -> Jobs] /\ JobsOK'
    BY <1>0, <2>1, <2>4, <2>5, <2>6, StepKeepsJobs
  <2>8. TypeOK'
    BY <2>1, <2>4, <2>7, Sizes DEF Inv, Types, TypeOK, Jobs, Ids
  <2> QED
    BY <2>4, <2>7, <2>8 DEF Inv, Types
<1> QED
  BY <1>1, <1>2

(* Reading the rows for a parse, a change, an improvement or a confirmation. *)
LEMMA ReadsKeepInv ==
  ASSUME Inv, NEW h \in Handlers, NEW i \in Ids,
         \/ RetryRead(h, i) \/ ApplyRead(h, i) \/ ImproveRead(h, i) \/ PrepRead(h, i)
         \/ \E p \in Prompts : PreviewRead(h, i, p)
         \/ \E d \in Docs : ConfirmRead(h, i, d)
  PROVE  Inv'
<1>1. /\ Exists(i) /\ UNCHANGED <<resumes, created, hashes, improvements, masterLock, previewed>>
  BY DEF RetryRead, ApplyRead, ImproveRead, PrepRead, PreviewRead, ConfirmRead
<1>2. /\ i \in 1..created /\ resumes[i] \in Rows /\ i \in 0..MaxResumes
      /\ hashes \in [Prompts -> Docs \cup {None}] /\ Shown(hashes, previewed)
  BY <1>1, ExistingWasCreated, Sizes DEF Ids, Inv, Types, TypeOK, Tables
<1>3. SUFFICES ASSUME TRUE
               PROVE  \E j \in Jobs :
                        /\ Goto(h, j) /\ j.resume = i /\ j.op # "refused"
                        /\ j.step \in {"parse", "apply", "improve", "prep", "preview", "check"}
                        /\ j.step \in {"apply", "check", "improve"} => j.seen \in Docs
                        /\ j.step = "preview" => /\ j.seen \in [p: Prompts, of: Docs \cup {None}]
                                                 /\ Shown(j.hashes, previewed)
  <2>1. PICK j \in Jobs :
          /\ Goto(h, j) /\ j.resume = i /\ j.op # "refused"
          /\ j.step \in {"parse", "apply", "improve", "prep", "preview", "check"}
          /\ j.step \in {"apply", "check", "improve"} => j.seen \in Docs
          /\ j.step = "preview" => /\ j.seen \in [p: Prompts, of: Docs \cup {None}]
                                   /\ Shown(j.hashes, previewed)
    BY <1>3
  <2>2. JobOK(j, resumes, created, previewed) /\ UploadOK(h, j, masterLock, Masters)
    BY <1>2, <2>1 DEF JobOK, UploadOK
  <2> QED
    BY <1>1, <2>1, <2>2, MoveKeepsInv
<1>4. CASE RetryRead(h, i)
  BY <1>2, <1>4, WorkingType DEF RetryRead, Steps
<1>5. CASE PrepRead(h, i)
  BY <1>2, <1>5, WorkingType DEF PrepRead, Steps
<1> DEFINE Seeing(op, step, doc) == [Working(op, step, i) EXCEPT !.seen = doc]
<1>6. ASSUME NEW op \in {"apply", "improve", "confirm"}, NEW doc \in Docs,
             NEW step \in {"apply", "improve", "check"}
      PROVE  /\ Seeing(op, step, doc) \in Jobs /\ Seeing(op, step, doc).step = step
             /\ Seeing(op, step, doc).op = op
             /\ Seeing(op, step, doc).resume = i /\ Seeing(op, step, doc).seen = doc
  <2>1. /\ Working(op, step, i) \in Jobs /\ Working(op, step, i).step = step
        /\ Working(op, step, i).op = op /\ Working(op, step, i).resume = i
    BY <1>2, WorkingType DEF Steps
  <2> QED
    BY <2>1 DEF Jobs
<1>7. ASSUME NEW op \in {"apply", "improve", "confirm"}, NEW doc \in Docs,
             NEW step \in {"apply", "improve", "check"}, Goto(h, Seeing(op, step, doc))
      PROVE  \E j \in Jobs :
               /\ Goto(h, j) /\ j.resume = i /\ j.op # "refused"
               /\ j.step \in {"apply", "improve", "check"} /\ j.seen \in Docs
  <2> HIDE DEF Seeing
  <2> DEFINE new == Seeing(op, step, doc)
  <2>1. /\ new \in Jobs /\ new.step = step /\ new.op = op
        /\ new.resume = i /\ new.seen = doc /\ Goto(h, new)
    BY <1>6, <1>7
  <2> HIDE DEF new
  <2> QED
    BY <2>1
<1>8. CASE ApplyRead(h, i)
  <2>1. resumes[i].data \in Docs /\ Goto(h, Seeing("apply", "apply", resumes[i].data))
    BY <1>2, <1>8 DEF ApplyRead, Rows
  <2> HIDE DEF Seeing
  <2>2. \E j \in Jobs : /\ Goto(h, j) /\ j.resume = i /\ j.op # "refused"
                       /\ j.step \in {"apply", "improve", "check"} /\ j.seen \in Docs
    BY <1>7, <2>1
  <2> QED
    BY <2>2
<1>9. CASE ImproveRead(h, i)
  <2>1. PICK d \in Docs : Goto(h, Seeing("improve", "improve", d))
    BY <1>9 DEF ImproveRead, Tailored
  <2> HIDE DEF Seeing
  <2>2. \E j \in Jobs : /\ Goto(h, j) /\ j.resume = i /\ j.op # "refused"
                       /\ j.step \in {"apply", "improve", "check"} /\ j.seen \in Docs
    BY <1>7, <2>1
  <2> QED
    BY <2>2
<1>10. CASE \E d \in Docs : ConfirmRead(h, i, d)
  <2>1. PICK d \in Docs : Goto(h, Seeing("confirm", "check", d))
    BY <1>10 DEF ConfirmRead
  <2> HIDE DEF Seeing
  <2>2. \E j \in Jobs : /\ Goto(h, j) /\ j.resume = i /\ j.op # "refused"
                       /\ j.step \in {"apply", "improve", "check"} /\ j.seen \in Docs
    BY <1>7, <2>1
  <2> QED
    BY <2>2
<1>11. ASSUME NEW p \in Prompts, PreviewRead(h, i, p)
       PROVE  \E j \in Jobs :
                /\ Goto(h, j) /\ j.resume = i /\ j.op # "refused" /\ j.step = "preview"
                /\ j.seen \in [p: Prompts, of: Docs \cup {None}] /\ Shown(j.hashes, previewed)
  <2> DEFINE w == Working("preview", "preview", i)
             seen == [p |-> p, of |-> resumes[i].data]
             new == [w EXCEPT !.seen = seen, !.hashes = hashes]
  <2>1. w \in Jobs /\ w.step = "preview" /\ w.op = "preview" /\ w.resume = i
    BY <1>2, WorkingType DEF Steps
  <2>2. seen \in [p: Prompts, of: Docs \cup {None}]
    BY <1>2 DEF Rows
  <2>3. Goto(h, new)
    BY <1>11 DEF PreviewRead, Original
  <2> HIDE DEF w, seen
  <2>4. /\ new \in Jobs /\ new.step = "preview" /\ new.op = "preview" /\ new.resume = i
        /\ new.seen = seen /\ new.hashes = hashes
    BY <1>2, <2>1, <2>2 DEF Jobs
  <2> QED
    BY <1>2, <2>2, <2>3, <2>4
<1> QED
  BY <1>4, <1>5, <1>8, <1>9, <1>10, <1>11

(* Writing what the model answered, and ending; and the payload of a           *)
(* confirmation is among the hashes that the job has by now.                  *)
LEMMA WritesKeepInv ==
  ASSUME Inv, NEW h \in Handlers,
         \/ ParseStored(h) \/ ParseFailed(h) \/ ApplyWrite(h) \/ PrepStore(h)
         \/ ConfirmChecked(h) \/ Raises(h)
  PROVE  Inv'
<1> DEFINE j == handler[h]
           i == j.resume
<1>0. /\ j \in Jobs /\ JobOK(j, resumes, created, previewed)
      /\ UploadOK(h, j, masterLock, Masters)
      /\ j.step \in {"parse", "apply", "prep"} => i \in Ids /\ resumes[i] \in Rows
  BY RowOfJob
<1>1. CASE ParseStored(h)
  <2>1. PICK d \in Docs : Update(i, [resumes[i] EXCEPT !.data = d, !.status = "ready"])
    BY <1>1 DEF ParseStored
  <2>2. i \in Ids /\ resumes[i] \in Rows /\ d # None
    BY <1>0, <1>1, Sizes DEF ParseStored, At
  <2> DEFINE row == [resumes[i] EXCEPT !.data = d, !.status = "ready"]
  <2>3. row \in Rows /\ row.exists = resumes[i].exists /\ row.parent = resumes[i].parent
        /\ row.master = resumes[i].master /\ row.data = d
    BY <2>2 DEF Rows
  <2> HIDE DEF row
  <2>4. Update(i, row)
    BY <2>1 DEF row
  <2>5. Goto(h, Idle) /\ UNCHANGED <<created, hashes, improvements, masterLock, previewed>>
    BY <1>1 DEF ParseStored
  <2> HIDE DEF i
  <2> QED
    BY <2>2, <2>3, <2>4, <2>5, UpdateAndEnd
<1>2. CASE ParseFailed(h)
  <2> DEFINE row == [resumes[i] EXCEPT !.status = "failed"]
  <2>1. Goto(h, Idle) /\ UNCHANGED <<created, hashes, improvements, masterLock, previewed>>
        /\ Update(i, row) /\ i \in Ids /\ resumes[i] \in Rows
    BY <1>0, <1>2 DEF ParseFailed, At
  <2>2. row \in Rows /\ row.exists = resumes[i].exists /\ row.parent = resumes[i].parent
        /\ row.master = resumes[i].master /\ row.status = "failed"
    BY <2>1 DEF Rows
  <2> HIDE DEF i, row
  <2> QED
    BY <2>1, <2>2, UpdateAndEnd
<1>3. CASE ApplyWrite(h)
  <2>1. PICK b \in Bodies : Update(i, [resumes[i] EXCEPT !.data = [j.seen EXCEPT !.body = b]])
    BY <1>3 DEF ApplyWrite
  <2> DEFINE d == [j.seen EXCEPT !.body = b]
             row == [resumes[i] EXCEPT !.data = d]
  <2>2. /\ i \in Ids /\ resumes[i] \in Rows /\ j.seen \in Docs
        /\ Goto(h, Idle) /\ UNCHANGED <<created, hashes, improvements, masterLock, previewed>>
    BY <1>0, <1>3 DEF ApplyWrite, At, JobOK
  <2>3. d \in Docs /\ d # None
    <3>1. d \in Docs
      BY <2>2 DEF Docs
    <3> QED
      BY <3>1, Sizes
  <2> HIDE DEF d
  <2>4. row \in Rows /\ row.exists = resumes[i].exists /\ row.parent = resumes[i].parent
        /\ row.master = resumes[i].master /\ row.data = d
    BY <2>2, <2>3 DEF Rows
  <2>5. Update(i, row)
    BY <2>1 DEF d
  <2> HIDE DEF i, row
  <2> QED
    BY <2>2, <2>3, <2>4, <2>5, UpdateAndEnd
<1>4. CASE PrepStore(h)
  <2> DEFINE row == [resumes[i] EXCEPT !.prep = TRUE]
  <2>1. Goto(h, Idle) /\ UNCHANGED <<created, hashes, improvements, masterLock, previewed>>
        /\ Update(i, row) /\ i \in Ids /\ resumes[i] \in Rows
    BY <1>0, <1>4 DEF PrepStore, At
  <2>2. row \in Rows /\ row.exists = resumes[i].exists /\ row.parent = resumes[i].parent
        /\ row.master = resumes[i].master /\ row.data = resumes[i].data
        /\ row.status = resumes[i].status
    BY <2>1 DEF Rows
  <2>3. resumes[i].exists /\ resumes[i].status = "ready" => resumes[i].data # None
    BY <2>1 DEF Inv, Tables, ReadyHasData
  <2>4. ~resumes[i].exists => resumes[i].status = "failed"
    BY <2>1 DEF Inv, Types, TypeOK, NoRow
  <2> HIDE DEF i, row
  <2> QED
    BY <2>1, <2>2, <2>3, <2>4, UpdateAndEnd
<1>5. CASE Raises(h)
  BY <1>5, IdleIsOK, MoveKeepsInv DEF Raises
<1>6. CASE ConfirmChecked(h)
  <2> DEFINE new == [j EXCEPT !.step = "confirm"]
  <2>1. /\ j.step = "check" /\ j.seen \in Allowed /\ Goto(h, new)
        /\ UNCHANGED <<resumes, created, hashes, improvements, masterLock, previewed>>
    BY <1>6 DEF ConfirmChecked, At
  <2>2. j.seen \in Docs /\ j.seen \in previewed
    BY <1>0, <2>1, Sizes DEF JobOK, Allowed, Shown, Inv, Tables
  <2>3. /\ new \in Jobs /\ new.step = "confirm" /\ new.op = j.op
        /\ new.resume = j.resume /\ new.seen = j.seen
    BY <1>0 DEF Jobs, Steps
  <2> HIDE DEF new
  <2>4. JobOK(new, resumes, created, previewed) /\ UploadOK(h, new, masterLock, Masters)
    BY <1>0, <2>1, <2>2, <2>3 DEF JobOK, UploadOK
  <2> QED
    BY <2>1, <2>3, <2>4, MoveKeepsInv
<1> QED
  BY <1>1, <1>2, <1>3, <1>4, <1>5, <1>6

(* A preview is shown, with its hash stored or not, and an improvement is    *)
(* recorded: no row changes.                                                 *)
LEMMA RecordsKeepInv ==
  ASSUME Inv, NEW h \in Handlers,
         PreviewStore(h) \/ PreviewUnstored(h) \/ ImprovementInsert(h)
  PROVE  Inv'
<1> DEFINE j == handler[h]
<1>0. /\ j \in Jobs /\ JobOK(j, resumes, created, previewed)
      /\ UploadOK(h, j, masterLock, Masters) /\ created \in 0..MaxResumes
      /\ j.step = "improvement" => j.resume \in Ids
      /\ previewed \subseteq Docs /\ hashes \in [Prompts -> Docs \cup {None}]
      /\ Shown(hashes, previewed)
  BY RowOfJob DEF Inv, Types, TypeOK, Tables
<1>1. Goto(h, Idle) /\ UNCHANGED <<resumes, created, masterLock>>
  BY DEF PreviewStore, PreviewUnstored, ImprovementInsert
<1>2. SUFFICES /\ previewed \subseteq previewed' /\ previewed' \subseteq Docs
               /\ hashes' \in [Prompts -> Docs \cup {None}] /\ Shown(hashes', previewed')
               /\ improvements' \subseteq [original : Ids, tailored : Ids]
               /\ ImprovementsLinked'
  <2>1. Masters' = Masters /\ created \in Nat /\ Older(resumes, resumes', created)
    BY <1>0, <1>1, Sizes DEF Masters, Older
  <2>2. handler' \in [Handlers -> Jobs] /\ JobsOK'
    BY <1>1, <1>2, <2>1, IdleIsOK, StepKeepsJobs
  <2>3. Tables'
    BY <1>1, <1>2, <2>1 DEF Inv, Tables, ReadyHasData, FreshRows, OneMaster
  <2>4. TypeOK'
    BY <1>1, <1>2, <2>2 DEF Inv, Types, TypeOK, Jobs
  <2> QED
    BY <2>2, <2>3, <2>4 DEF Inv, Types
<1>3. CASE PreviewStore(h)
  <2>1. PICK d \in Docs : hashes' = [j.hashes EXCEPT ![j.seen.p] = d] /\ previewed' = previewed \cup {d}
    BY <1>3 DEF PreviewStore, Tailored
  <2>2. j.hashes \in [Prompts -> Docs \cup {None}] /\ j.seen.p \in Prompts /\ Shown(j.hashes, previewed)
    BY <1>0, <1>3 DEF PreviewStore, At, JobOK, Jobs
  <2>3. hashes' \in [Prompts -> Docs \cup {None}] /\ Shown(hashes', previewed')
    BY <2>1, <2>2 DEF Shown
  <2>4. improvements' = improvements /\ ImprovementsLinked'
    BY <1>1, <1>3 DEF PreviewStore, ImprovementsLinked, Linked, Inv, Tables
  <2> QED
    BY <1>0, <2>1, <2>3, <2>4 DEF Inv, Types, TypeOK
<1>4. CASE PreviewUnstored(h)
  <2>1. PICK d \in Docs : previewed' = previewed \cup {d}
    BY <1>4 DEF PreviewUnstored, Tailored
  <2>2. improvements' = improvements /\ hashes' = hashes /\ ImprovementsLinked'
    BY <1>1, <1>4 DEF PreviewUnstored, ImprovementsLinked, Linked, Inv, Tables
  <2> QED
    BY <1>0, <2>1, <2>2 DEF Inv, Types, TypeOK, Shown
<1>5. CASE ImprovementInsert(h)
  <2>1. /\ improvements' = improvements \cup {[original |-> j.resume, tailored |-> j.tailored]}
        /\ hashes' = hashes /\ previewed' = previewed
    BY <1>5 DEF ImprovementInsert
  <2>2. Linked(j.resume, j.tailored, resumes, created) /\ j.resume \in Ids
    BY <1>0, <1>5 DEF ImprovementInsert, At, JobOK
  <2>3. j.tailored \in Ids
    BY <1>0, <2>2, Sizes DEF Linked, Ids
  <2>4. ImprovementsLinked'
    <3>1. ASSUME NEW m \in improvements'
          PROVE  Linked(m.original, m.tailored, resumes, created)
      BY <2>1, <2>2 DEF Inv, Tables, ImprovementsLinked
    <3> QED
      BY <1>1, <3>1 DEF ImprovementsLinked, Linked
  <2> QED
    BY <1>0, <2>1, <2>2, <2>3, <2>4 DEF Inv, Types, TypeOK
<1> QED
  BY <1>3, <1>4, <1>5

(* Changes that are one transaction, and the end of the process. *)
LEMMA EditsKeepInv ==
  ASSUME Inv, (\E i \in Ids : Delete(i) \/ \E d \in Docs : Save(i, d)) \/ Crash
  PROVE  Inv'
<1>0. /\ resumes \in [Ids -> Rows] /\ handler \in [Handlers -> Jobs] /\ created \in 0..MaxResumes
      /\ \A k \in Ids : ~resumes[k].exists => resumes[k] = NoRow
      /\ \A k \in Ids : resumes[k].exists /\ resumes[k].status = "ready" => resumes[k].data # None
      /\ NoRow \in Rows /\ ~NoRow.exists /\ created \in Nat
  BY Sizes DEF Inv, Types, TypeOK, Tables, ReadyHasData, NoRow, Rows
<1>1. SUFFICES ASSUME UNCHANGED <<created, hashes, improvements, masterLock, handler, previewed>>,
                      resumes' \in [Ids -> Rows],
                      \A k \in Ids : ~resumes'[k].exists => resumes'[k] = NoRow,
                      \A k \in Ids : resumes'[k].exists =>
                        /\ resumes[k].exists /\ resumes'[k].parent = resumes[k].parent
                        /\ resumes'[k].master => resumes[k].master
                        /\ resumes'[k].status = "ready" => resumes'[k].data # None
               PROVE  Inv'
  <2>1. ASSUME NEW i \in Ids, Delete(i)
        PROVE  Inv'
    <3>1. /\ resumes' = [resumes EXCEPT ![i] = NoRow]
          /\ UNCHANGED <<created, hashes, improvements, masterLock, handler, previewed>>
      BY <2>1 DEF Delete
    <3>2. /\ resumes' \in [Ids -> Rows]
          /\ \A k \in Ids : ~resumes'[k].exists => resumes'[k] = NoRow
          /\ \A k \in Ids : resumes'[k].exists => resumes'[k] = resumes[k] /\ resumes[k].exists
      BY <1>0, <3>1
    <3> QED
      BY <1>0, <1>1, <3>1, <3>2
  <2>2. ASSUME NEW i \in Ids, NEW d \in Docs, Save(i, d)
        PROVE  Inv'
    <3> DEFINE row == [resumes[i] EXCEPT !.data = d, !.status = "ready"]
    <3>1. /\ Update(i, row)
          /\ UNCHANGED <<created, hashes, improvements, masterLock, handler, previewed>>
      BY <2>2 DEF Save
    <3>2. row \in Rows /\ row.exists = resumes[i].exists /\ row.parent = resumes[i].parent
          /\ row.master = resumes[i].master /\ row.data = d /\ d # None
      BY <1>0, Sizes DEF Rows
    <3> HIDE DEF row
    <3> QED
      BY <1>1, <3>1, <3>2, UpdateOfRow
  <2>3. CASE Crash
    <3>1. /\ handler' = [h \in Handlers |-> Idle] /\ masterLock' = None
          /\ UNCHANGED <<resumes, created, hashes, improvements, previewed>>
      BY <2>3 DEF Crash
    <3>2. handler' \in [Handlers -> Jobs] /\ JobsOK'
      BY <3>1, IdleIsOK DEF JobsOK
    <3>3. Tables'
      BY <3>1 DEF Inv, Tables, ReadyHasData, FreshRows, ImprovementsLinked, OneMaster, Linked, Shown, Masters
    <3>4. TypeOK'
      BY <3>1, <3>2 DEF Inv, Types, TypeOK, Jobs
    <3> QED
      BY <3>2, <3>3, <3>4 DEF Inv, Types
  <2> QED
    BY <2>1, <2>2, <2>3
<1>2. /\ Tables' /\ Older(resumes, resumes', created) /\ Masters' \subseteq Masters
      /\ hashes' \in [Prompts -> Docs \cup {None}]
      /\ improvements' \subseteq [original : Ids, tailored : Ids]
      /\ created' \in 0..MaxResumes /\ previewed' \subseteq Docs
  BY <1>1, RowsKeepTables
<1>3. JobsOK'
  <2>1. ASSUME NEW h \in Handlers
        PROVE  JobOK(handler[h], resumes', created, previewed) /\ UploadOK(h, handler[h], masterLock, Masters')
    BY <1>0, <1>2, JobOutlives DEF Inv, JobsOK, UploadOK
  <2> QED
    BY <1>1, <2>1 DEF JobsOK
<1>4. TypeOK'
  BY <1>0, <1>1, <1>2 DEF Inv, Types, TypeOK, Jobs
<1> QED
  BY <1>0, <1>1, <1>2, <1>3, <1>4 DEF Inv, Types

-----------------------------------------------------------------------------
(* The invariant holds, and what follows.                                  *)

(* The initial state is consistent. *)
LEMMA InitHasInv ==
  ASSUME Init
  PROVE  Inv
<1>1. /\ NoRow \in Rows /\ ~NoRow.exists /\ created = 0 /\ created \in 0..MaxResumes
      /\ \A i \in Ids : resumes[i] = NoRow /\ ~resumes[i].exists
  BY Sizes DEF Init, NoRow, Rows
<1>2. Types
  <2>1. handler \in [Handlers -> Jobs]
    BY IdleIsOK DEF Init
  <2> QED
    BY <1>1, <2>1 DEF Init, Types, TypeOK, Jobs
<1>3. Tables
  BY <1>1 DEF Init, Tables, ReadyHasData, FreshRows, ImprovementsLinked, Shown, OneMaster, Masters
<1>4. JobsOK
  BY IdleIsOK DEF Init, JobsOK
<1> QED
  BY <1>2, <1>3, <1>4 DEF Inv

(* Every step keeps the invariant. *)
LEMMA NextKeepsInv ==
  ASSUME Inv, [Next]_vars
  PROVE  Inv'
<1>1. ASSUME NEW h \in Handlers, Request(h)
      PROVE  Inv'
  BY <1>1, UploadsKeepInv, ReadsKeepInv DEF Request
<1>2. ASSUME NEW h \in Handlers, Continue(h)
      PROVE  Inv'
  BY <1>2, UploadsKeepInv, InsertsKeepInv, WritesKeepInv, RecordsKeepInv DEF Continue
<1>3. CASE UNCHANGED vars
  BY <1>3 DEF vars, Inv, Types, TypeOK, Tables, ReadyHasData, FreshRows, ImprovementsLinked,
              OneMaster, Masters, JobsOK
<1> QED
  BY <1>1, <1>2, <1>3, EditsKeepInv DEF Next

(* Reading the master, demoting it and inserting the new row stay together   *)
(* for every number of uploads, deletions, edits and crashes.                *)
THEOREM InvHolds == Spec => []Inv
<1>1. Init => Inv
  BY InitHasInv
<1>2. Inv /\ [Next]_vars => Inv'
  BY NextKeepsInv
<1> QED
  BY <1>1, <1>2, PTL DEF Spec

(* The rows agree with each other: a ready resume has its data, and an        *)
(* improvement joins a tailored resume to the one it was made from.           *)
THEOREM RowsAreConsistent == Spec => []RowsConsistent
<1>1. Inv => RowsConsistent
  BY DEF Inv, Types, Tables, RowsConsistent, ImprovementsLinked, ImprovementsLinkChildToParent, Linked
<1> QED
  BY <1>1, InvHolds, PTL

(* At most one resume is the master and no upload runs into the unique index, *)
(* because the lock covers the three transactions.                            *)
THEOREM OneMasterAtMost == Spec => []UploadsMeetOneMaster
<1>1. Inv => UploadsMeetOneMaster
  <2> SUFFICES ASSUME Inv
               PROVE  UploadsMeetOneMaster
    OBVIOUS
  <2>1. \A h \in Handlers : handler[h].op # "refused"
    BY DEF Inv, JobsOK, JobOK
  <2>2. \A i, k \in Masters : i = k
    BY DEF Inv, Tables, OneMaster
  <2>3. Cardinality(Masters) <= 1
    <3>1. CASE Masters = {}
      BY <3>1, FS_EmptySet
    <3>2. CASE Masters # {}
      <4>1. PICK m \in Masters : Masters = {m}
        BY <2>2, <3>2
      <4>2. Cardinality({m}) = 1
        BY FS_Singleton
      <4> QED
        BY <4>1, <4>2
    <3> QED
      BY <3>1, <3>2
  <2> QED
    BY <2>1, <2>3 DEF UploadsMeetOneMaster
<1> QED
  BY <1>1, InvHolds, PTL

(* What a confirmation stores was shown by a preview, although previews       *)
(* overwrite each other's hashes with what they have read.                    *)
THEOREM ConfirmedWasShown == Spec => []ConfirmedWasPreviewed
<1>1. Inv => ConfirmedWasPreviewed
  BY DEF Inv, JobsOK, JobOK, ConfirmedWasPreviewed
<1> QED
  BY <1>1, InvHolds, PTL

(* A deleted resume never comes back, whatever a request still writes of it.  *)
THEOREM DeletedResumesStayDeleted == Spec => DeletedStaysDeleted
<1> DEFINE Gone == \A i \in 1..created : ~resumes[i].exists => ~resumes'[i].exists
<1>1. Inv /\ [Next]_vars => [Gone]_vars
  <2> SUFFICES ASSUME Inv, Next, NEW i \in 1..created, ~resumes[i].exists
               PROVE  ~resumes'[i].exists
    BY DEF vars
  <2>1. /\ resumes \in [Ids -> Rows] /\ created \in 0..MaxResumes /\ i \in Ids /\ i # created + 1
        /\ ~NoRow.exists
    BY Sizes DEF Inv, Types, TypeOK, Ids, NoRow
  <2>2. ASSUME NEW k, NEW row, Update(k, row)
        PROVE  ~resumes'[i].exists
    <3>1. resumes' = [resumes EXCEPT ![k] = IF resumes[k].exists THEN row ELSE resumes[k]]
      BY <2>2 DEF Update
    <3> QED
      BY <2>1, <3>1
  <2>3. ASSUME NEW row, Insert(row)
        PROVE  ~resumes'[i].exists
    BY <2>1, <2>3 DEF Insert
  <2>4. ASSUME NEW k \in Ids, Delete(k)
        PROVE  ~resumes'[i].exists
    BY <2>1, <2>4 DEF Delete
  <2>5. ASSUME NEW h \in Handlers, Request(h)
        PROVE  resumes' = resumes
    BY <2>5 DEF Request, UploadBegin, RetryRead, ApplyRead, ImproveRead, PrepRead, PreviewRead, ConfirmRead
  <2>6. ASSUME NEW h \in Handlers, Continue(h)
        PROVE  ~resumes'[i].exists
    <3>1. CASE \/ UploadMaster(h) \/ UploadRaises(h) \/ PreviewStore(h) \/ PreviewUnstored(h)
               \/ ConfirmChecked(h) \/ ImprovementInsert(h) \/ Raises(h)
      BY <3>1 DEF UploadMaster, TakeMaster, UploadRaises, PreviewStore, PreviewUnstored,
                  ConfirmChecked, ImprovementInsert, Raises
    <3>2. CASE UploadDemote(h) \/ ParseStored(h) \/ ParseFailed(h) \/ ApplyWrite(h) \/ PrepStore(h)
      BY <2>2, <3>2 DEF UploadDemote, ParseStored, ParseFailed, ApplyWrite, PrepStore
    <3>3. CASE UploadInsert(h) \/ TailoredInsert(h)
      BY <2>3, <3>3 DEF UploadInsert, TailoredInsert
    <3> QED
      BY <2>6, <3>1, <3>2, <3>3 DEF Continue
  <2>7. ASSUME NEW k \in Ids, NEW d \in Docs, Save(k, d)
        PROVE  ~resumes'[i].exists
    BY <2>2, <2>7 DEF Save
  <2>8. CASE Crash
    BY <2>8 DEF Crash
  <2> QED
    BY <2>4, <2>5, <2>6, <2>7, <2>8 DEF Next
<1>2. DeletedStaysDeleted <=> [][Gone]_vars
  BY DEF DeletedStaysDeleted
<1> HIDE DEF Gone
<1> QED
  BY <1>1, <1>2, InvHolds, PTL DEF Spec
=============================================================================
