------------------------------- MODULE Resumes -------------------------------
(***************************************************************************)
(* Stored resumes: upload, parsing, tailoring to a job, enrichment, edits  *)
(* (app/routers/resumes.py, app/routers/enrichment.py, app/database.py).   *)
(* Handlers are concurrent requests.  Each call of the Database facade is  *)
(* a transaction of its own; a handler awaits a model between them, so     *)
(* what it has read may be out of date when it writes.                     *)
(***************************************************************************)
EXTENDS Naturals, FiniteSets

CONSTANTS
  Handlers,     \* concurrent requests
  MaxResumes,   \* bound: resume rows ever created
  Prompts,      \* improve prompts a user may choose
  Infos,        \* values of personalInfo
  Bodies,       \* everything else in a resume
  Operations,   \* the endpoints that are in use
  None

ASSUME Known == Operations \subseteq {"upload", "retry", "save", "apply", "delete",
                                      "preview", "confirm", "improve", "prep", "crash"}

Ids == 1..MaxResumes
Docs == [info: Infos, body: Bodies]     \* structured resume data (ResumeData)

ASSUME Sizes == MaxResumes \in Nat /\ None \notin Docs \cup Handlers

VARIABLES
  resumes,       \* table resumes
  created,       \* how many rows were ever created
  hashes,        \* preview_hashes of the job: per prompt, the document that was hashed
  improvements,  \* table improvements
  masterLock,    \* _master_resume_lock of the process
  handler,
  previewed      \* (auxiliary) documents that a preview has shown for the job

vars == <<resumes, created, hashes, improvements, masterLock, handler, previewed>>

(* A row.  The Markdown content only ever goes to the model, which may      *)
(* answer anything, so it is left out.                                     *)
Rows == [exists: BOOLEAN, master: BOOLEAN, status: {"processing", "ready", "failed"},
         data: Docs \cup {None}, parent: Ids \cup {None}, prep: BOOLEAN]

NoRow == [exists |-> FALSE, master |-> FALSE, status |-> "failed", data |-> None,
          parent |-> None, prep |-> FALSE]

Steps == {"idle", "lock", "demote", "insert", "parse", "apply", "preview", "check",
          "confirm", "improve", "improvement", "prep"}

Idle == [step |-> "idle", op |-> "none", resume |-> 0, seen |-> None,
         hashes |-> [p \in Prompts |-> None], master |-> FALSE, tailored |-> 0]

Working(op, step, i) == [Idle EXCEPT !.op = op, !.step = step, !.resume = i]

At(h, step) == handler[h].step = step
Goto(h, j) == handler' = [handler EXCEPT ![h] = j]
Begin(h, op) == At(h, "idle") /\ op \in Operations

Exists(i) == i \in Ids /\ resumes[i].exists
Masters == {i \in Ids : resumes[i].exists /\ resumes[i].master}

(* mutant: the write puts back what was read, also when the row was deleted *)
UpdatePutsBack(i, row) == resumes' = [resumes EXCEPT ![i] = [row EXCEPT !.exists = TRUE]]

(* update_resume: a missing row raises ValueError. *)
Update(i, row) == resumes' = [resumes EXCEPT ![i] = IF @.exists THEN row ELSE @]

Insert(row) ==
  /\ created < MaxResumes
  /\ created' = created + 1
  /\ resumes' = [resumes EXCEPT ![created + 1] = row]

(* _get_original_resume_data; a row whose JSON content has no data with it  *)
(* is never written.                                                       *)
Original(i) == resumes[i].data

Init ==
  /\ resumes = [i \in Ids |-> NoRow]
  /\ created = 0
  /\ hashes = [p \in Prompts |-> None]
  /\ improvements = {}
  /\ masterLock = None
  /\ handler = [h \in Handlers |-> Idle]
  /\ previewed = {}

----------------------------------------------------------------------------
(* upload_resume and create_resume_atomic_master.                          *)

UploadBegin(h) ==
  /\ Begin(h, "upload")
  /\ Goto(h, Working("upload", "lock", 0))
  /\ UNCHANGED <<resumes, created, hashes, improvements, masterLock, previewed>>

(* get_master_resume: the master and its status are read here and used in   *)
(* the sessions that follow.                                               *)
TakeMaster(h) ==
  /\ At(h, "lock")
  /\ masterLock' = h
  /\ \/ Masters = {} /\ Goto(h, [handler[h] EXCEPT !.step = "insert", !.master = TRUE])
     \/ \E m \in Masters :
          Goto(h, IF resumes[m].status \in {"failed", "processing"}
                    THEN [handler[h] EXCEPT !.step = "demote", !.resume = m]
                    ELSE [handler[h] EXCEPT !.step = "insert", !.master = FALSE])
  /\ UNCHANGED <<resumes, created, hashes, improvements, previewed>>

(* mutant: the lock does not keep two uploads apart *)
UploadMasterUnlocked(h) == TakeMaster(h)

UploadMaster(h) == masterLock = None /\ TakeMaster(h)

UploadDemote(h) ==
  LET m == handler[h].resume IN
  /\ At(h, "demote")
  /\ Update(m, [resumes[m] EXCEPT !.master = FALSE])     \* if row is not None
  /\ Goto(h, [handler[h] EXCEPT !.step = "insert", !.master = TRUE])
  /\ UNCHANGED <<created, hashes, improvements, masterLock, previewed>>

(* create_resume.  The unique index refuses a second master. *)
UploadInsert(h) ==
  LET master == handler[h].master IN
  /\ At(h, "insert")
  /\ masterLock' = None
  /\ \/ /\ master /\ Masters # {}
        /\ Goto(h, [Idle EXCEPT !.op = "refused"])
        /\ UNCHANGED <<resumes, created>>
     \/ /\ ~(master /\ Masters # {})
        /\ Insert([NoRow EXCEPT !.exists = TRUE, !.master = master, !.status = "processing"])
        /\ Goto(h, Working("upload", "parse", created + 1))
  /\ UNCHANGED <<hashes, improvements, previewed>>

(* A transaction of the upload fails: the lock is released. *)
UploadRaises(h) ==
  /\ At(h, "demote") \/ At(h, "insert")
  /\ masterLock' = None
  /\ Goto(h, Idle)
  /\ UNCHANGED <<resumes, created, hashes, improvements, previewed>>

(* retry_processing. *)
RetryRead(h, i) ==
  /\ Begin(h, "retry") /\ Exists(i)
  /\ resumes[i].status \in {"failed", "processing"}
  /\ Goto(h, Working("retry", "parse", i))
  /\ UNCHANGED <<resumes, created, hashes, improvements, masterLock, previewed>>

(* mutant: the parsed data is not stored with the status *)
ParseStoredEmpty(h) ==
  LET i == handler[h].resume IN
  /\ At(h, "parse")
  /\ Update(i, [resumes[i] EXCEPT !.status = "ready"])
  /\ Goto(h, Idle)
  /\ UNCHANGED <<created, hashes, improvements, masterLock, previewed>>

(* parse_resume_to_json answers with some document; a row that is gone     *)
(* makes the update raise.                                                 *)
ParseStored(h) ==
  LET i == handler[h].resume IN
  /\ At(h, "parse")
  /\ \E d \in Docs : Update(i, [resumes[i] EXCEPT !.data = d, !.status = "ready"])
  /\ Goto(h, Idle)
  /\ UNCHANGED <<created, hashes, improvements, masterLock, previewed>>

ParseFailed(h) ==
  LET i == handler[h].resume IN
  /\ At(h, "parse")
  /\ Update(i, [resumes[i] EXCEPT !.status = "failed"])
  /\ Goto(h, Idle)
  /\ UNCHANGED <<created, hashes, improvements, masterLock, previewed>>

----------------------------------------------------------------------------
(* Edits: update_resume_endpoint, the two apply endpoints of enrichment,   *)
(* delete_resume.                                                          *)

Save(i, d) ==
  /\ "save" \in Operations /\ Exists(i)
  /\ Update(i, [resumes[i] EXCEPT !.data = d, !.status = "ready"])
  /\ UNCHANGED <<created, hashes, improvements, masterLock, handler, previewed>>

ApplyRead(h, i) ==
  /\ Begin(h, "apply") /\ Exists(i)
  /\ resumes[i].data # None
  /\ Goto(h, [Working("apply", "apply", i) EXCEPT !.seen = resumes[i].data])
  /\ UNCHANGED <<resumes, created, hashes, improvements, masterLock, previewed>>

(* Descriptions and skills change and nothing else.                         *)
ApplyWrite(h) ==
  LET i == handler[h].resume IN
  /\ At(h, "apply")
  /\ \E b \in Bodies :
       Update(i, [resumes[i] EXCEPT !.data = [handler[h].seen EXCEPT !.body = b]])
  /\ Goto(h, Idle)
  /\ UNCHANGED <<created, hashes, improvements, masterLock, previewed>>

Delete(i) ==
  /\ "delete" \in Operations /\ Exists(i)
  /\ resumes' = [resumes EXCEPT ![i] = NoRow]
  /\ UNCHANGED <<created, hashes, improvements, masterLock, handler, previewed>>

----------------------------------------------------------------------------
(* Tailoring to a job.  A document that comes out of _improve_preview_flow *)
(* has the personalInfo of the original after the safety nets, but the     *)
(* refinement that follows may take over a whole document of the model     *)
(* (inject_keywords), with any personalInfo.                               *)

Tailored(original) == Docs

(* The rows are read, then the model is asked several times. *)
PreviewRead(h, i, p) ==
  /\ Begin(h, "preview") /\ Exists(i)
  /\ Goto(h, [Working("preview", "preview", i) EXCEPT !.seen = [p |-> p, of |-> Original(i)],
                                                      !.hashes = hashes])
  /\ UNCHANGED <<resumes, created, hashes, improvements, masterLock, previewed>>

(* update_job stores the hashes as they were read, with the new one. *)
PreviewStore(h) ==
  LET j == handler[h] IN
  /\ At(h, "preview")
  /\ \E d \in Tailored(j.seen.of) :
       /\ hashes' = [j.hashes EXCEPT ![j.seen.p] = d]
       /\ previewed' = previewed \cup {d}
  /\ Goto(h, Idle)
  /\ UNCHANGED <<resumes, created, improvements, masterLock>>

(* update_job fails and is only logged: the client sees the preview. *)
PreviewUnstored(h) ==
  /\ At(h, "preview")
  /\ \E d \in Tailored(handler[h].seen.of) : previewed' = previewed \cup {d}
  /\ Goto(h, Idle)
  /\ UNCHANGED <<resumes, created, hashes, improvements, masterLock>>

(* _validate_confirm_payload, without structured data skipped. *)
ValidConfirm(i, d) == Original(i) # None => Original(i).info = d.info

(* mutant: any document may be confirmed once there was a preview *)
AllowedAny == IF \A p \in Prompts : hashes[p] = None THEN {} ELSE Docs

Allowed == {hashes[p] : p \in Prompts} \ {None}

(* improve/confirm reads the original, and what it read never changes, so   *)
(* the payload is compared with it here.                                   *)
ConfirmRead(h, i, d) ==
  /\ Begin(h, "confirm") /\ Exists(i)
  /\ ValidConfirm(i, d)
  /\ Goto(h, [Working("confirm", "check", i) EXCEPT !.seen = d])
  /\ UNCHANGED <<resumes, created, hashes, improvements, masterLock, previewed>>

(* The job is read in a transaction of its own, with the hashes it has by    *)
(* then; the letters and the title are made next.                          *)
ConfirmChecked(h) ==
  /\ At(h, "check")
  /\ handler[h].seen \in Allowed
  /\ Goto(h, [handler[h] EXCEPT !.step = "confirm"])
  /\ UNCHANGED <<resumes, created, hashes, improvements, masterLock, previewed>>

(* improve: the same pipeline without a preview. *)
ImproveRead(h, i) ==
  /\ Begin(h, "improve") /\ Exists(i)
  /\ \E d \in Tailored(Original(i)) :
       Goto(h, [Working("improve", "improve", i) EXCEPT !.seen = d])
  /\ UNCHANGED <<resumes, created, hashes, improvements, masterLock, previewed>>

(* create_resume; the original may be gone by now. *)
TailoredInsert(h) ==
  LET j == handler[h] IN
  /\ At(h, "confirm") \/ At(h, "improve")
  /\ Insert([NoRow EXCEPT !.exists = TRUE, !.status = "ready",
                          !.data = j.seen, !.parent = j.resume])
  /\ Goto(h, [j EXCEPT !.step = "improvement", !.tailored = created + 1])
  /\ UNCHANGED <<hashes, improvements, masterLock, previewed>>

(* create_improvement, in a session of its own. *)
ImprovementInsert(h) ==
  /\ At(h, "improvement")
  /\ improvements' = improvements \cup
       {[original |-> handler[h].resume, tailored |-> handler[h].tailored]}
  /\ Goto(h, Idle)
  /\ UNCHANGED <<resumes, created, hashes, masterLock, previewed>>

(* generate_interview_prep_endpoint: the job comes from the improvement of  *)
(* the tailored resume.                                                    *)
PrepRead(h, i) ==
  /\ Begin(h, "prep") /\ Exists(i)
  /\ resumes[i].parent # None /\ resumes[i].data # None
  /\ \E m \in improvements : m.tailored = i
  /\ Goto(h, Working("prep", "prep", i))
  /\ UNCHANGED <<resumes, created, hashes, improvements, masterLock, previewed>>

PrepStore(h) ==
  LET i == handler[h].resume IN
  /\ At(h, "prep")
  /\ Update(i, [resumes[i] EXCEPT !.prep = TRUE])
  /\ Goto(h, Idle)
  /\ UNCHANGED <<created, hashes, improvements, masterLock, previewed>>

(* The payload is refused, the model fails or the time is up (wait_for): the *)
(* request ends.                                                           *)
Raises(h) ==
  /\ handler[h].step \in {"apply", "preview", "check", "confirm", "improve", "improvement", "prep"}
  /\ Goto(h, Idle)
  /\ UNCHANGED <<resumes, created, hashes, improvements, masterLock, previewed>>

(* The process dies: requests and the lock, which is not in the database,   *)
(* are gone.                                                               *)
Crash ==
  /\ "crash" \in Operations
  /\ handler' = [h \in Handlers |-> Idle]
  /\ masterLock' = None
  /\ UNCHANGED <<resumes, created, hashes, improvements, previewed>>

----------------------------------------------------------------------------
Request(h) ==
  \/ UploadBegin(h)
  \/ \E i \in Ids :
       \/ RetryRead(h, i) \/ ApplyRead(h, i) \/ ImproveRead(h, i) \/ PrepRead(h, i)
       \/ \E p \in Prompts : PreviewRead(h, i, p)
       \/ \E d \in Docs : ConfirmRead(h, i, d)

Continue(h) ==
  \/ UploadMaster(h) \/ UploadDemote(h) \/ UploadInsert(h) \/ UploadRaises(h)
  \/ ParseStored(h) \/ ParseFailed(h) \/ ApplyWrite(h)
  \/ PreviewStore(h) \/ PreviewUnstored(h) \/ ConfirmChecked(h)
  \/ TailoredInsert(h) \/ ImprovementInsert(h) \/ PrepStore(h) \/ Raises(h)

Next ==
  \/ \E h \in Handlers : Request(h) \/ Continue(h)
  \/ \E i \in Ids : Delete(i) \/ \E d \in Docs : Save(i, d)
  \/ Crash

Spec == Init /\ [][Next]_vars

----------------------------------------------------------------------------
(* Properties                                                              *)

(* Every variable keeps its type, and nothing is left of a deleted row.     *)
TypeOK ==
  /\ resumes \in [Ids -> Rows]
  /\ \A i \in Ids : ~resumes[i].exists => resumes[i] = NoRow
  /\ created \in 0..MaxResumes
  /\ hashes \in [Prompts -> Docs \cup {None}]
  /\ improvements \subseteq [original : Ids, tailored : Ids]
  /\ masterLock \in Handlers \cup {None}
  /\ \A h \in Handlers : /\ handler[h].step \in Steps
                         /\ handler[h].resume \in 0..MaxResumes
  /\ previewed \subseteq Docs

(* At most one resume is the master, and no upload runs into the unique     *)
(* index: reading the master, demoting it and inserting the new row are     *)
(* three transactions that only the lock of the process keeps together.     *)
UploadsMeetOneMaster ==
  /\ Cardinality(Masters) <= 1
  /\ \A h \in Handlers : handler[h].op # "refused"

(* A resume that is shown as ready has its structured data, whatever order  *)
(* parses, retries, edits and applied changes write in.                     *)
ReadyHasData ==
  \A i \in Ids : resumes[i].exists /\ resumes[i].status = "ready" => resumes[i].data # None

(* What a confirmation stores was shown to the user by a preview for this   *)
(* job, although previews overwrite each other's hashes.                    *)
ConfirmedWasPreviewed ==
  \A h \in Handlers : handler[h].step = "confirm" => handler[h].seen \in previewed

(* A deleted resume never comes back, although parses, retries, applied      *)
(* changes, interview preparations and the demotion of a master write, after *)
(* an await, a row that was there when they read it.                       *)
DeletedStaysDeleted ==
  [][\A i \in 1..created : ~resumes[i].exists => ~resumes'[i].exists]_vars

(* An improvement joins a tailored resume to the resume it was made from,   *)
(* so that the job of a tailored resume is found.                           *)
ImprovementsLinkChildToParent ==
  \A m \in improvements :
    /\ m.tailored > m.original
    /\ resumes[m.tailored].exists => resumes[m.tailored].parent = m.original

(* The rows agree with each other, whatever order requests write them in.   *)
RowsConsistent == TypeOK /\ ReadyHasData /\ ImprovementsLinkChildToParent

(* The comment on the recovery of create_resume_atomic_master says that a   *)
(* master that is stuck is demoted: one that is ready is not.               *)
ReadyMasterKept ==
  [][\A i \in Ids : resumes[i].exists /\ resumes[i].master /\ resumes[i].status = "ready"
       => ~resumes'[i].exists \/ resumes'[i].master]_vars

=============================================================================
