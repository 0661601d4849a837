--------------------------- MODULE ToolCallsProofs ---------------------------
(***************************************************************************)
(* Proofs about ToolCalls for any number of calls, workers and values: the *)
(* types, the consistency of every committed row, and that the business    *)
(* effect of a call is committed exactly once, together with its result,   *)
(* and never without the approval its policy asks for.                     *)
(*                                                                         *)
(* The invariant has a part for rows and a part for jobs.  A job may act   *)
(* on a row it read some steps ago, so its part says what of that reading  *)
(* is still true: a row that was approved stays approved, with the same    *)
(* decision, until it is resolved; and the row of a worker that runs a     *)
(* tool is exactly as claimed, for nobody writes without the lock.         *)
(*                                                                         *)
(* The second half is about histories.  Every step moves at most one row,  *)
(* in a way (RowMoves) that overwrites nothing, takes a resolution id only *)
(* when no other row has it, and is a step of the contract.  From that one *)
(* fact follow the uniqueness of the ids, that what a client was told      *)
(* stays true, that columns are written once, and the refinement.          *)
(***************************************************************************)
EXTENDS ToolCalls, TLAPS

Executed(c, r) ==
  r.status = "resolved" /\ r.trusted /\ c \notin Asked /\ r.decision # "reject"

RowOK(c, r, e) ==
  /\ ConsistentRecord(c, r)
  /\ r.status # "executing"
  /\ r.status = "awaiting_input" => c \in Asked
  /\ e = IF Executed(c, r) THEN 1 ELSE 0
  /\ c \in Guarded /\ Executed(c, r) => r.decision = "approve" /\ r.resolution # None

SettledRow(r) == r.status \in {"approved", "resolved"}

JobOK(w, j, r, l) ==
  /\ j.step # "idle" => j.call \in Calls
  /\ j.step = "requestInput" => j.call \in Asked
  /\ j.step \in {"owner", "record"} =>
       j.decision \in {"approve", "reject"} /\ j.resolution \in ResolutionIds
  /\ j.step = "answer" => j.payload \in Results /\ j.resolution \in ResolutionIds
  /\ j.step \in {"execute", "claim", "invoke"} => j.call \notin Asked
  /\ j.step = "execute" /\ j.call \in Guarded => SettledRow(r)
  /\ j.step \in {"claim", "invoke"} =>
       \/ /\ j.from = "validated" /\ j.call \notin Guarded
          /\ j.decision = None /\ j.resolution = None
       \/ /\ j.from = "approved" /\ SettledRow(r) /\ SameDecision(r, j)
          /\ j.decision = "approve" /\ j.resolution # None
  /\ j.step = "invoke" => l = w /\ r.status = j.from

RowsOK == \A c \in Calls : RowOK(c, calls[c], effects[c])

JobsOK == \A w \in Workers : JobOK(w, job[w], calls[job[w].call], lock)

Inv == TypeOK /\ RowsOK /\ JobsOK

-----------------------------------------------------------------------------
(* Types of the values the actions build.                                  *)

(* A job that was just begun is a job. *)
LEMMA WorkingType ==
  ASSUME NEW step \in Steps, NEW c \in Calls,
         NEW op \in {"none", "prepare", "requestApproval", "requestInput", "decide",
                     "answer", "execute"}
  PROVE  Working(step, op, c) \in Jobs
BY DEF Working, Idle, Jobs, Replies

(* A job that has replied is a job. *)
LEMMA RepliedType ==
  ASSUME NEW j \in Jobs, NEW reply \in Replies,
         NEW result \in Results \cup {Rejected, None}
  PROVE  /\ Replied(j, reply, result) \in Jobs
         /\ Replied(j, reply, result).step = "done"
         /\ Replied(j, reply, result).call = j.call
BY DEF Replied, Jobs, Steps

(* So is one that answers with what it loads. *)
LEMMA LoadedType ==
  ASSUME TypeOK, NEW j \in Jobs, NEW c \in Calls, NEW reply \in Replies
  PROVE  /\ Loaded(j, c, reply) \in Jobs
         /\ Loaded(j, c, reply).step = "done"
         /\ Loaded(j, c, reply).call = j.call
<1>1. calls[c].result \in Results \cup {Rejected, None}
  BY DEF TypeOK, Rows
<1>2. "protocol" \in Replies
  BY DEF Replies
<1> QED
  BY <1>1, <1>2, RepliedType DEF Loaded

(* The rows the services write are rows. *)
LEMMA RowTypes ==
  ASSUME NEW c \in Calls, NEW r \in Rows
  PROVE  /\ NoRow \in Rows
         /\ \A args \in Arguments : Received(args) \in Rows
         /\ Validated(r) \in Rows
         /\ \A p \in Results \cup {Rejected, None} : Resolved(c, r, p) \in Rows
         /\ \A d \in {"approve", "reject", None}, id \in ResolutionIds \cup {None} :
              Decided(r, d, id) \in Rows
         /\ \A status \in Statuses : [r EXCEPT !.status = status] \in Rows
BY DEF NoRow, Received, Validated, Resolved, Decided, Delivery, Rows, Statuses

-----------------------------------------------------------------------------
(* The three ways a worker changes the state.                              *)

(* A worker reads, answers, or gives up: rows and effects stay. *)
LEMMA Look ==
  ASSUME Inv, NEW w \in Workers, NEW j \in Jobs, Set(w, j),
         UNCHANGED <<calls, lock, effects>>, JobOK(w, j, calls[j.call], lock)
  PROVE  Inv'
<1>1. TypeOK'
  BY DEF Inv, TypeOK, Set
<1>2. RowsOK'
  BY DEF Inv, RowsOK, RowOK, ConsistentRecord, Executed
<1>3. JobsOK'
  <2> SUFFICES ASSUME NEW v \in Workers
               PROVE  JobOK(v, job'[v], calls'[job'[v].call], lock')
    BY DEF JobsOK
  <2>1. CASE v = w
    BY <2>1 DEF Inv, TypeOK, Set, JobOK
  <2>2. CASE v # w
    BY <2>2 DEF Inv, TypeOK, Set, JobsOK, JobOK
  <2> QED
    BY <2>1, <2>2
<1> QED
  BY <1>1, <1>2, <1>3 DEF Inv

(* What a writer leaves alone on a row others may have read. *)
Keeps(r, s) == SettledRow(r) => SettledRow(s) /\ SameDecision(s, r)

(* A job that does not run a tool outlives the write of a row. *)
LEMMA OtherJob ==
  ASSUME Inv, NEW v \in Workers, job'[v] = job[v], job[v].step # "invoke",
         NEW c \in Calls, NEW new, calls' = [calls EXCEPT ![c] = new], Keeps(calls[c], new)
  PROVE  JobOK(v, job'[v], calls'[job'[v].call], lock')
<1> DEFINE j == job[v]
           r == calls[j.call]
           s == calls'[j.call]
<1>1. JobOK(v, j, r, lock)
  BY DEF Inv, JobsOK
<1>2. CASE j.step = "idle"
  BY <1>2 DEF JobOK
<1>3. CASE j.step # "idle"
  <2>1. j.call \in Calls
    BY <1>1, <1>3 DEF JobOK
  <2>2. Keeps(r, s)
    BY <2>1 DEF Inv, TypeOK, Keeps, SameDecision
  <2> QED
    BY <1>1, <2>1, <2>2 DEF JobOK, Keeps, SameDecision
<1> QED
  BY <1>2, <1>3

(* Rows and effects other than those of one call stay as they are. *)
LEMMA OtherRows ==
  ASSUME Inv, NEW c \in Calls, NEW new \in Rows, NEW e \in Nat, RowOK(c, new, e),
         calls' = [calls EXCEPT ![c] = new], effects' = [effects EXCEPT ![c] = e]
  PROVE  RowsOK' /\ calls' \in [Calls -> Rows] /\ effects' \in [Calls -> Nat]
<1>1. calls' \in [Calls -> Rows] /\ effects' \in [Calls -> Nat]
  BY DEF Inv, TypeOK
<1>2. ASSUME NEW o \in Calls
      PROVE  RowOK(o, calls'[o], effects'[o])
  <2>1. CASE o = c
    BY <2>1 DEF Inv, TypeOK
  <2>2. CASE o # c
    BY <2>2 DEF Inv, TypeOK, RowsOK
  <2> QED
    BY <2>1, <2>2
<1> QED
  BY <1>1, <1>2 DEF RowsOK

(* A worker writes a row in a transaction of its own. *)
LEMMA Write ==
  ASSUME Inv, NEW w \in Workers, NEW j \in Jobs, Set(w, j), lock = None, lock' = lock,
         j.step \in {"prepare", "reload", "done"}, j.call \in Calls,
         NEW c \in Calls, NEW new \in Rows, calls' = [calls EXCEPT ![c] = new],
         effects' = effects, RowOK(c, new, effects[c]), Keeps(calls[c], new)
  PROVE  Inv'
<1>1. RowsOK' /\ calls' \in [Calls -> Rows] /\ effects' \in [Calls -> Nat]
  <2>1. effects' = [effects EXCEPT ![c] = effects[c]] /\ effects[c] \in Nat
    BY DEF Inv, TypeOK
  <2> QED
    BY <2>1, OtherRows
<1>2. TypeOK'
  BY <1>1 DEF Inv, TypeOK, Set
<1>3. ASSUME NEW v \in Workers
      PROVE  JobOK(v, job'[v], calls'[job'[v].call], lock')
  <2>1. CASE v = w
    <3>1. job'[v] = j
      BY <2>1 DEF Inv, TypeOK, Set
    <3> QED
      BY <3>1 DEF JobOK
  <2>2. CASE v # w
    <3>1. job'[v] = job[v]
      BY <2>2 DEF Inv, TypeOK, Set
    <3>2. job[v].step # "invoke"
      BY Values DEF Inv, JobsOK, JobOK
    <3> QED
      BY <3>1, <3>2, OtherJob
  <2> QED
    BY <2>1, <2>2
<1> QED
  BY <1>1, <1>2, <1>3 DEF Inv, JobsOK

(* A compare-and-set writes its row or does not, and reads again. *)
LEMMA CompareAndSetWrites ==
  ASSUME Inv, NEW w \in Workers, job[w].step # "idle", NEW c \in Calls,
         NEW matches \in BOOLEAN, NEW new, CompareAndSet(w, c, matches, new),
         matches => new \in Rows /\ RowOK(c, new, effects[c]) /\ Keeps(calls[c], new)
  PROVE  Inv'
<1> DEFINE j == [job[w] EXCEPT !.step = "reload", !.claimed = matches]
<1>1. /\ j \in Jobs /\ j.step = "reload" /\ j.call = job[w].call
      /\ Set(w, j) /\ lock = None /\ lock' = lock /\ effects' = effects
  BY DEF Inv, TypeOK, Jobs, Steps, CompareAndSet
<1>2. j.call \in Calls
  BY <1>1 DEF Inv, JobsOK, JobOK
<1>3. CASE matches
  BY <1>1, <1>2, <1>3, Write DEF CompareAndSet
<1>4. CASE ~matches
  <2>1. calls' = calls
    BY <1>4 DEF CompareAndSet
  <2>2. JobOK(w, j, calls[j.call], lock)
    BY <1>1, <1>2 DEF JobOK
  <2> HIDE DEF j
  <2> QED
    BY <1>1, <2>1, <2>2, Look
<1> QED
  BY <1>3, <1>4

(* A worker moves to a step that remembers nothing of what it read. *)
LEMMA LookAndAnswer ==
  ASSUME Inv, NEW w \in Workers, NEW j \in Jobs, Set(w, j),
         UNCHANGED <<calls, lock, effects>>, j.call \in Calls,
         j.step \in {"done", "save", "requestApproval"}
  PROVE  Inv'
BY Look DEF JobOK

(* A worker answers its caller ... *)
LEMMA Reply ==
  ASSUME Inv, NEW w \in Workers, NEW j \in Jobs, j.call \in Calls,
         NEW reply \in Replies, NEW result \in Results \cup {Rejected, None},
         Set(w, Replied(j, reply, result)), UNCHANGED <<calls, lock, effects>>
  PROVE  Inv'
BY RepliedType, LookAndAnswer

(* ... or answers with what it loads. *)
LEMMA ReplyLoaded ==
  ASSUME Inv, NEW w \in Workers, NEW j \in Jobs, j.call \in Calls, NEW c \in Calls,
         NEW reply \in Replies, Set(w, Loaded(j, c, reply)),
         UNCHANGED <<calls, lock, effects>>
  PROVE  Inv'
BY LoadedType, LookAndAnswer DEF Inv

(* A worker that is not idle knows which call it is about. *)
LEMMA JobCall ==
  ASSUME Inv, NEW w \in Workers, job[w].step # "idle"
  PROVE  job[w] \in Jobs /\ job[w].call \in Calls /\ calls[job[w].call] \in Rows
BY DEF Inv, TypeOK, JobsOK, JobOK

-----------------------------------------------------------------------------
(* The actions, one lemma for each service.                                *)

(* ToolCallPreparation keeps the invariant. *)
LEMMA PreparationKeepsInv ==
  ASSUME Inv, NEW w \in Workers,
         \/ \E c \in Calls, args \in Arguments : Materialize(w, c, args)
         \/ PrepareRead(w) \/ SavePrepared(w) \/ PrepareRaises(w)
  PROVE  Inv'
<1>1. ASSUME NEW c \in Calls, NEW args \in Arguments, Materialize(w, c, args)
      PROVE  Inv'
  <2> DEFINE durable == IF calls[c].status = "absent" THEN Received(args) ELSE calls[c]
             begun == Working("prepare", "prepare", c)
             j == IF durable.arguments = args THEN begun ELSE Replied(begun, "conflict", None)
  <2>1. durable \in Rows
    BY RowTypes DEF Inv, TypeOK
  <2>2. begun \in Jobs /\ begun.step = "prepare" /\ begun.call = c
    BY WorkingType DEF Working, Idle, Steps
  <2>3. j \in Jobs /\ j.step \in {"prepare", "done"} /\ j.call = c
    BY <2>2, RepliedType DEF Replies
  <2>4. RowOK(c, durable, effects[c])
    <3>1. RowOK(c, calls[c], effects[c])
      BY DEF Inv, RowsOK
    <3>2. CASE calls[c].status = "absent"
      BY <3>1, <3>2 DEF RowOK, Executed, ConsistentRecord, Received, NoRow
    <3> QED
      BY <3>1, <3>2
  <2>5. Keeps(calls[c], durable)
    BY DEF Keeps, SettledRow, SameDecision
  <2>6. /\ lock = None /\ lock' = lock /\ effects' = effects
        /\ calls' = [calls EXCEPT ![c] = durable] /\ Set(w, j)
    BY <1>1 DEF Materialize
  <2> HIDE DEF durable, j
  <2> QED
    BY <2>1, <2>3, <2>4, <2>5, <2>6, Write
<1>2. CASE PrepareRead(w)
  <2> DEFINE c == job[w].call
             saving == [job[w] EXCEPT !.step = "save"]
  <2>1. job[w] \in Jobs /\ c \in Calls
    BY <1>2, JobCall DEF PrepareRead
  <2>2. saving \in Jobs /\ saving.step = "save" /\ saving.call = c
    BY <2>1 DEF Jobs, Steps
  <2>3. /\ \/ Set(w, Loaded(job[w], c, "replayed")) \/ Set(w, saving)
           \/ Set(w, Replied(job[w], "protocol", None))
        /\ UNCHANGED <<calls, lock, effects>>
    BY <1>2 DEF PrepareRead
  <2> HIDE DEF saving
  <2> QED
    BY <2>1, <2>2, <2>3, Reply, ReplyLoaded, LookAndAnswer DEF Replies
<1>3. CASE SavePrepared(w)
  <2> DEFINE c == job[w].call
             r == calls[c]
  <2>1. job[w].step # "idle" /\ c \in Calls /\ r \in Rows
    BY <1>3, JobCall DEF SavePrepared
  <2>2. PICK new \in {Validated(r)} \cup {Resolved(c, r, p) : p \in Results} :
          CompareAndSet(w, c, Preparable(r), new)
    BY <1>3 DEF SavePrepared
  <2>3. new \in Rows
    BY <2>1, RowTypes
  <2>4. ASSUME Preparable(r)
        PROVE  RowOK(c, new, effects[c]) /\ Keeps(r, new)
    <3>1. RowOK(c, r, effects[c]) /\ r.status = "received"
      BY <2>1, <2>4 DEF Inv, RowsOK, Preparable
    <3>2. Keeps(r, new)
      BY <3>1 DEF Keeps, SettledRow
    <3>3. CASE new = Validated(r)
      BY <2>1, <3>1, <3>2, <3>3 DEF RowOK, Executed, ConsistentRecord, Validated, Rows
    <3>4. ASSUME NEW p \in Results, new = Resolved(c, r, p)
          PROVE  RowOK(c, new, effects[c])
      <4>1. /\ new.status = "resolved" /\ new.result = p /\ new.trusted = r.trusted
            /\ new.decision = r.decision /\ new.resolution = r.resolution
            /\ new.delivery = Delivery(c)
        BY <2>1, <3>4 DEF Resolved, Rows
      <4> QED
        BY <3>1, <4>1, Values DEF RowOK, Executed, ConsistentRecord, Delivery
    <3> QED
      BY <2>2, <3>2, <3>3, <3>4
  <2> QED
    BY <2>1, <2>2, <2>3, <2>4, CompareAndSetWrites DEF Preparable
<1>4. CASE PrepareRaises(w)
  BY <1>4, JobCall, Reply DEF PrepareRaises, Replies
<1> QED
  BY <1>1, <1>2, <1>3, <1>4

(* ToolApprovalService.request and ToolInputService.request keep it. *)
LEMMA RequestsKeepInv ==
  ASSUME Inv, NEW w \in Workers,
         \/ \E c \in Calls : RequestApprovalRead(w, c) \/ RequestInputRead(w, c)
         \/ RequestApprovalWrite(w) \/ RequestInputWrite(w)
  PROVE  Inv'
<1>1. ASSUME NEW c \in Calls, RequestApprovalRead(w, c)
      PROVE  Inv'
  <2> DEFINE begun == Working("requestApproval", "requestApproval", c)
  <2>1. begun \in Jobs /\ begun.step = "requestApproval" /\ begun.call = c
    BY WorkingType DEF Working, Idle, Steps
  <2>2. calls[c].result \in Results \cup {Rejected, None}
    BY DEF Inv, TypeOK, Rows
  <2>3. /\ \/ Set(w, begun) \/ Set(w, Replied(begun, "protocol", None))
           \/ Set(w, Replied(begun, "replayed", calls[c].result))
        /\ UNCHANGED <<calls, lock, effects>>
    BY <1>1 DEF RequestApprovalRead
  <2> HIDE DEF begun
  <2> QED
    BY <2>1, <2>2, <2>3, Reply, LookAndAnswer DEF Replies
<1>2. ASSUME NEW c \in Calls, RequestInputRead(w, c)
      PROVE  Inv'
  <2> DEFINE begun == Working("requestInput", "requestInput", c)
  <2>1. begun \in Jobs /\ begun.step = "requestInput" /\ begun.call = c
    BY WorkingType DEF Working, Idle, Steps
  <2>2. calls[c].result \in Results \cup {Rejected, None}
    BY DEF Inv, TypeOK, Rows
  <2>3. /\ \/ Set(w, begun) \/ Set(w, Replied(begun, "protocol", None))
           \/ Set(w, Replied(begun, "replayed", calls[c].result))
        /\ UNCHANGED <<calls, lock, effects>>
    BY <1>2 DEF RequestInputRead
  <2>4. JobOK(w, begun, calls[begun.call], lock)
    BY <1>2, <2>1 DEF JobOK, RequestInputRead
  <2> HIDE DEF begun
  <2> QED
    BY <2>1, <2>2, <2>3, <2>4, Reply, Look DEF Replies
<1>3. CASE RequestApprovalWrite(w) \/ RequestInputWrite(w)
  <2> DEFINE c == job[w].call
             r == calls[c]
  <2>1. c \in Calls /\ r \in Rows /\ job[w].step # "idle"
    BY <1>3, JobCall DEF RequestApprovalWrite, RequestInputWrite
  <2>2. PICK new \in {[r EXCEPT !.status = "awaiting_approval"],
                      [r EXCEPT !.status = "awaiting_input"]} :
          /\ new.status = "awaiting_input" => job[w].step = "requestInput"
          /\ CompareAndSet(w, c, r.status = "validated", new)
    BY <1>3, <2>1 DEF RequestApprovalWrite, RequestInputWrite, ApprovalRequestable,
                      InputRequestable, Rows
  <2>3. new \in Rows
    BY <2>1, RowTypes DEF Statuses
  <2>4. ASSUME r.status = "validated"
        PROVE  RowOK(c, new, effects[c]) /\ Keeps(r, new)
    <3>1. RowOK(c, r, effects[c])
      BY <2>1 DEF Inv, RowsOK
    <3>2. new.status = "awaiting_input" => c \in Asked
      BY <2>2 DEF Inv, JobsOK, JobOK
    <3> QED
      BY <2>1, <2>4, <3>1, <3>2
      DEF RowOK, Executed, ConsistentRecord, Keeps, SettledRow, Rows
  <2> QED
    BY <2>1, <2>2, <2>3, <2>4, CompareAndSetWrites
<1> QED
  BY <1>1, <1>2, <1>3

(* ToolApprovalService.record_decision keeps it. *)
LEMMA DecisionsKeepInv ==
  ASSUME Inv, NEW w \in Workers,
         \/ \E c \in Calls, d \in {"approve", "reject"}, id \in ResolutionIds :
              DecisionRead(w, c, d, id)
         \/ DecisionOwner(w) \/ DecisionWrite(w) \/ DecisionReload(w)
  PROVE  Inv'
<1>1. ASSUME NEW c \in Calls, NEW d \in {"approve", "reject"}, NEW id \in ResolutionIds,
             DecisionRead(w, c, d, id)
      PROVE  Inv'
  <2> DEFINE begun == [Working("owner", "decide", c) EXCEPT !.decision = d, !.resolution = id]
  <2>1. /\ begun \in Jobs /\ begun.step = "owner" /\ begun.call = c
        /\ begun.decision = d /\ begun.resolution = id
    BY DEF Working, Idle, Jobs, Steps, Replies
  <2>2. calls[c].result \in Results \cup {Rejected, None}
    BY DEF Inv, TypeOK, Rows
  <2>3. /\ \/ Set(w, begun) \/ Set(w, Replied(begun, "protocol", None))
           \/ Set(w, Replied(begun, "replayed", calls[c].result))
           \/ Set(w, Replied(begun, "conflict", None))
           \/ Set(w, Replied(begun, "state", None))
        /\ UNCHANGED <<calls, lock, effects>>
    BY <1>1 DEF DecisionRead
  <2>4. JobOK(w, begun, calls[begun.call], lock)
    BY <2>1 DEF JobOK
  <2> HIDE DEF begun
  <2> QED
    BY <2>1, <2>2, <2>3, <2>4, Reply, Look DEF Replies
<1>2. CASE DecisionOwner(w)
  <2> DEFINE recording == [job[w] EXCEPT !.step = "record"]
  <2>1. job[w] \in Jobs /\ job[w].call \in Calls
    BY <1>2, JobCall DEF DecisionOwner
  <2>2. recording \in Jobs
    BY <2>1 DEF Jobs, Steps
  <2>3. JobOK(w, recording, calls[recording.call], lock)
    BY <1>2, <2>1 DEF DecisionOwner, Inv, JobsOK, JobOK, Jobs
  <2>4. /\ Set(w, Replied(job[w], "conflict", None)) \/ Set(w, recording)
        /\ UNCHANGED <<calls, lock, effects>>
    BY <1>2 DEF DecisionOwner, Goto
  <2> HIDE DEF recording
  <2> QED
    BY <2>1, <2>2, <2>3, <2>4, Reply, Look DEF Replies
<1>3. CASE DecisionWrite(w)
  <2> DEFINE c == job[w].call
             r == calls[c]
             d == job[w].decision
             id == job[w].resolution
             decided == Decided(r, d, id)
             new == IF d = "approve" THEN [decided EXCEPT !.status = "approved"]
                                     ELSE Resolved(c, decided, Rejected)
  <2>1. /\ c \in Calls /\ r \in Rows /\ job[w].step # "idle"
        /\ d \in {"approve", "reject"} /\ id \in ResolutionIds
    BY <1>3, JobCall DEF DecisionWrite, Inv, JobsOK, JobOK
  <2>2. decided \in Rows
    BY <2>1, RowTypes
  <2>3. new \in Rows
    BY <2>1, <2>2, RowTypes DEF Statuses
  <2>4. ASSUME Decidable(r)
        PROVE  RowOK(c, new, effects[c]) /\ Keeps(r, new)
    <3>1. RowOK(c, r, effects[c]) /\ r.status = "awaiting_approval"
      BY <2>1, <2>4 DEF Inv, RowsOK, Decidable
    <3>2. Keeps(r, new)
      BY <3>1 DEF Keeps, SettledRow
    <3>3. CASE d = "approve"
      <4>1. /\ new.status = "approved" /\ new.decision = d /\ new.resolution = id
            /\ new.trusted = r.trusted /\ new.result = r.result /\ new.delivery = r.delivery
        BY <2>1, <3>3 DEF Decided, Rows
      <4> HIDE DEF new
      <4> QED
        BY <2>1, <3>1, <3>2, <3>3, <4>1, Values DEF RowOK, Executed, ConsistentRecord
    <3>4. CASE d = "reject"
      <4>1. /\ new.status = "resolved" /\ new.decision = d /\ new.resolution = id
            /\ new.trusted = r.trusted /\ new.result = Rejected /\ new.delivery = Delivery(c)
        BY <2>1, <3>4 DEF Decided, Resolved, Rows
      <4> HIDE DEF new
      <4> QED
        BY <2>1, <3>1, <3>2, <3>4, <4>1, Values
        DEF RowOK, Executed, ConsistentRecord, Delivery
    <3> QED
      BY <2>1, <3>3, <3>4
  <2>5. CompareAndSet(w, c, Decidable(r) /\ ~OwnedElsewhere(c, id), new)
    BY <1>3 DEF DecisionWrite
  <2> HIDE DEF new
  <2> QED
    BY <2>1, <2>3, <2>4, <2>5, CompareAndSetWrites DEF Decidable, OwnedElsewhere
<1>4. CASE DecisionReload(w)
  <2> DEFINE c == job[w].call
  <2>1. job[w] \in Jobs /\ c \in Calls
    BY <1>4, JobCall DEF DecisionReload
  <2>2. calls[c].result \in Results \cup {Rejected, None}
    BY <2>1 DEF Inv, TypeOK, Rows
  <2>3. /\ \/ Set(w, Replied(job[w], "conflict", None))
           \/ Set(w, Replied(job[w], "protocol", None))
           \/ Set(w, Replied(job[w], "state", None))
           \/ Set(w, Replied(job[w], "replayed", calls[c].result))
        /\ UNCHANGED <<calls, lock, effects>>
    BY <1>4 DEF DecisionReload
  <2> QED
    BY <2>1, <2>2, <2>3, Reply DEF Replies
<1> QED
  BY <1>1, <1>2, <1>3, <1>4

(* ToolInputService.resolve keeps it. *)
LEMMA AnswersKeepInv ==
  ASSUME Inv, NEW w \in Workers,
         \/ \E c \in Calls, p \in Results, id \in ResolutionIds : AnswerRead(w, c, p, id)
         \/ AnswerWrite(w) \/ AnswerReload(w)
  PROVE  Inv'
<1>1. ASSUME NEW c \in Calls, NEW p \in Results, NEW id \in ResolutionIds,
             AnswerRead(w, c, p, id)
      PROVE  Inv'
  <2> DEFINE begun == [Working("answer", "answer", c) EXCEPT !.payload = p, !.resolution = id]
  <2>1. /\ begun \in Jobs /\ begun.step = "answer" /\ begun.call = c
        /\ begun.payload = p /\ begun.resolution = id
    BY DEF Working, Idle, Jobs, Steps, Replies
  <2>2. /\ \/ Set(w, begun) \/ Set(w, Loaded(begun, c, "replayed"))
           \/ Set(w, Replied(begun, "conflict", None))
           \/ Set(w, Replied(begun, "protocol", None))
        /\ UNCHANGED <<calls, lock, effects>>
    BY <1>1 DEF AnswerRead
  <2>3. JobOK(w, begun, calls[begun.call], lock)
    BY <2>1 DEF JobOK
  <2> HIDE DEF begun
  <2> QED
    BY <2>1, <2>2, <2>3, Reply, ReplyLoaded, Look DEF Replies
<1>2. CASE AnswerWrite(w)
  <2> DEFINE c == job[w].call
             r == calls[c]
             id == job[w].resolution
             p == job[w].payload
             answered == [r EXCEPT !.resolution = id]
             new == Resolved(c, answered, p)
  <2>1. /\ c \in Calls /\ r \in Rows /\ job[w].step # "idle"
        /\ p \in Results /\ id \in ResolutionIds
    BY <1>2, JobCall DEF AnswerWrite, Inv, JobsOK, JobOK
  <2>2. answered \in Rows
    BY <2>1 DEF Rows
  <2>3. new \in Rows
    BY <2>1, <2>2, RowTypes
  <2>4. ASSUME Answerable(r)
        PROVE  RowOK(c, new, effects[c]) /\ Keeps(r, new)
    <3>1. RowOK(c, r, effects[c]) /\ r.status = "awaiting_input"
      BY <2>1, <2>4 DEF Inv, RowsOK, Answerable
    <3>2. Keeps(r, new)
      BY <3>1 DEF Keeps, SettledRow
    <3>3. /\ new.status = "resolved" /\ new.decision = r.decision /\ new.resolution = id
          /\ new.trusted = r.trusted /\ new.result = p /\ new.delivery = Delivery(c)
      BY <2>1 DEF Resolved, Rows
    <3> HIDE DEF new
    <3> QED
      BY <2>1, <3>1, <3>2, <3>3, Values, Routes
      DEF RowOK, Executed, ConsistentRecord, Delivery
  <2>5. CompareAndSet(w, c, Answerable(r) /\ ~OwnedElsewhere(c, id), new)
    BY <1>2 DEF AnswerWrite
  <2> HIDE DEF new
  <2> QED
    BY <2>1, <2>3, <2>4, <2>5, CompareAndSetWrites DEF Answerable, OwnedElsewhere
<1>3. CASE AnswerReload(w)
  <2> DEFINE c == job[w].call
  <2>1. job[w] \in Jobs /\ c \in Calls
    BY <1>3, JobCall DEF AnswerReload
  <2>2. /\ \/ Set(w, Replied(job[w], "conflict", None))
           \/ Set(w, Replied(job[w], "protocol", None))
           \/ Set(w, Loaded(job[w], c, "replayed"))
        /\ UNCHANGED <<calls, lock, effects>>
    BY <1>3 DEF AnswerReload
  <2> QED
    BY <2>1, <2>2, Reply, ReplyLoaded DEF Replies
<1> QED
  BY <1>1, <1>2, <1>3

(* The write lock changes hands while no other worker runs a tool. *)
LEMMA LookAndLock ==
  ASSUME Inv, NEW w \in Workers, NEW j \in Jobs, Set(w, j), UNCHANGED <<calls, effects>>,
         lock \in {None, w}, lock' \in {None, w}, JobOK(w, j, calls[j.call], lock')
  PROVE  Inv'
<1>1. TypeOK'
  BY DEF Inv, TypeOK, Set
<1>2. RowsOK'
  BY DEF Inv, RowsOK
<1>3. ASSUME NEW v \in Workers
      PROVE  JobOK(v, job'[v], calls'[job'[v].call], lock')
  <2>1. CASE v = w
    <3>1. job'[v] = j
      BY <2>1 DEF Inv, TypeOK, Set
    <3> QED
      BY <2>1, <3>1
  <2>2. CASE v # w
    <3>1. job'[v] = job[v]
      BY <2>2 DEF Inv, TypeOK, Set
    <3>2. job[v].step # "invoke"
      BY <2>2, Values DEF Inv, JobsOK, JobOK
    <3> QED
      BY <3>1, <3>2 DEF Inv, JobsOK, JobOK
  <2> QED
    BY <2>1, <2>2
<1> QED
  BY <1>1, <1>2, <1>3 DEF Inv, JobsOK

(* ToolExecutionService.execute keeps it up to the claim ... *)
LEMMA ClaimsKeepInv ==
  ASSUME Inv, NEW w \in Workers,
         \/ \E c \in Calls : Dispatch(w, c)
         \/ ExecuteRead(w) \/ ExecuteClaim(w)
  PROVE  Inv'
<1>1. ASSUME NEW c \in Calls, Dispatch(w, c)
      PROVE  Inv'
  <2> DEFINE begun == Working("execute", "execute", c)
             sound == Loadable(c, calls[c])
                      /\ (\/ calls[c].status \in {"approved", "resolved"}
                          \/ calls[c].status = "validated" /\ c \notin Guarded)
  <2>1. begun \in Jobs /\ begun.step = "execute" /\ begun.call = c
    BY WorkingType DEF Working, Idle, Steps
  <2>2. /\ (sound /\ Set(w, begun)) \/ Set(w, Replied(begun, "protocol", None))
        /\ UNCHANGED <<calls, lock, effects>>
        /\ c \notin Asked
    BY <1>1 DEF Dispatch
  <2>3. ASSUME sound
        PROVE  JobOK(w, begun, calls[begun.call], lock)
    BY <2>1, <2>2, <2>3 DEF JobOK, SettledRow
  <2> HIDE DEF begun, sound
  <2> QED
    BY <2>1, <2>2, <2>3, Reply, Look DEF Replies
<1>2. CASE ExecuteRead(w)
  <2> DEFINE c == job[w].call
             r == calls[c]
             claiming == [job[w] EXCEPT !.step = "claim", !.from = r.status,
                                        !.decision = r.decision, !.resolution = r.resolution]
             fit == Loadable(c, r) /\ r.status \in {"validated", "approved"}
  <2>1. job[w] \in Jobs /\ c \in Calls /\ r \in Rows /\ job[w].step = "execute"
    BY <1>2, JobCall DEF ExecuteRead
  <2>2. r.result \in Results \cup {Rejected, None}
    BY <2>1 DEF Rows
  <2>3. /\ \/ fit /\ Set(w, claiming)
           \/ Set(w, Replied(job[w], "protocol", None))
           \/ Set(w, Replied(job[w], "replayed", r.result))
        /\ UNCHANGED <<calls, lock, effects>>
    BY <1>2 DEF ExecuteRead
  <2>4. ASSUME fit
        PROVE  claiming \in Jobs /\ JobOK(w, claiming, calls[claiming.call], lock)
    <3>1. /\ claiming \in Jobs /\ claiming.step = "claim" /\ claiming.call = c
          /\ claiming.from = r.status /\ claiming.decision = r.decision
          /\ claiming.resolution = r.resolution
      BY <2>1, <2>4 DEF Jobs, Steps, Rows
    <3>2. c \notin Asked /\ (c \in Guarded => SettledRow(r))
      BY <2>1 DEF Inv, JobsOK, JobOK
    <3> HIDE DEF claiming
    <3> QED
      BY <2>1, <2>4, <3>1, <3>2
      DEF JobOK, SettledRow, SameDecision, Loadable, ConsistentRecord
  <2> HIDE DEF claiming, fit
  <2> QED
    BY <2>1, <2>2, <2>3, <2>4, Reply, Look DEF Replies
<1>3. CASE ExecuteClaim(w)
  <2> DEFINE c == job[w].call
             running == [job[w] EXCEPT !.step = "invoke"]
             reading == [job[w] EXCEPT !.step = "reload"]
  <2>1. /\ job[w] \in Jobs /\ c \in Calls /\ job[w].step = "claim"
        /\ JobOK(w, job[w], calls[c], lock)
    BY <1>3, JobCall DEF ExecuteClaim, Inv, JobsOK
  <2>2. running \in Jobs /\ reading \in Jobs
    BY <2>1 DEF Jobs, Steps
  <2>3. CASE Claimable(calls[c], job[w].from)
    <3>1. Set(w, running) /\ UNCHANGED <<calls, effects>> /\ lock = None /\ lock' = w
      BY <1>3, <2>3 DEF ExecuteClaim, Goto
    <3>2. JobOK(w, running, calls[running.call], lock')
      BY <2>1, <2>3, <3>1 DEF JobOK, Claimable, Jobs, SameDecision
    <3> HIDE DEF running
    <3> QED
      BY <2>2, <3>1, <3>2, LookAndLock
  <2>4. CASE ~Claimable(calls[c], job[w].from)
    <3>1. Set(w, reading) /\ UNCHANGED <<calls, lock, effects>>
      BY <1>3, <2>4 DEF ExecuteClaim, Goto
    <3>2. JobOK(w, reading, calls[reading.call], lock)
      BY <2>1 DEF JobOK, Jobs
    <3> HIDE DEF reading
    <3> QED
      BY <2>2, <3>1, <3>2, Look
  <2> QED
    BY <2>3, <2>4
<1> QED
  BY <1>1, <1>2, <1>3

(* ... and when it commits or rolls back: the only step with an effect. *)
LEMMA ExecutionsKeepInv ==
  ASSUME Inv, NEW w \in Workers, ExecuteCommit(w) \/ ExecuteRaises(w)
  PROVE  Inv'
<1> DEFINE c == job[w].call
           r == calls[c]
           d == job[w].decision
           id == job[w].resolution
<1>1. /\ job[w] \in Jobs /\ c \in Calls /\ r \in Rows /\ job[w].step = "invoke"
      /\ JobOK(w, job[w], r, lock) /\ RowOK(c, r, effects[c])
  BY JobCall DEF ExecuteCommit, ExecuteRaises, Inv, JobsOK, RowsOK
<1>2. lock = w /\ lock' = None
  BY <1>1 DEF JobOK, ExecuteCommit, ExecuteRaises
<1>3. CASE ExecuteRaises(w)
  <2> DEFINE j == Replied(job[w], "raised", None)
  <2>1. j \in Jobs /\ j.step = "done" /\ j.call = c
    BY <1>1, RepliedType DEF Replies
  <2>2. JobOK(w, j, calls[j.call], lock')
    BY <1>1, <2>1 DEF JobOK
  <2>3. Set(w, j) /\ UNCHANGED <<calls, effects>>
    BY <1>3 DEF ExecuteRaises
  <2> HIDE DEF j
  <2> QED
    BY <1>2, <2>1, <2>2, <2>3, LookAndLock
<1>4. CASE ExecuteCommit(w)
  <2>1. PICK p \in Results :
          /\ calls' = [calls EXCEPT ![c] = Resolved(c, Decided(@, d, id), p)]
          /\ Set(w, Replied(job[w], "fresh", p))
    BY <1>4 DEF ExecuteCommit
  <2> DEFINE new == Resolved(c, Decided(r, d, id), p)
             j == Replied(job[w], "fresh", p)
  <2>2. calls' = [calls EXCEPT ![c] = new] /\ effects' = [effects EXCEPT ![c] = effects[c] + 1]
    BY <1>4, <2>1 DEF ExecuteCommit
  <2>3. /\ new \in Rows /\ new.status = "resolved" /\ new.decision = d /\ new.resolution = id
        /\ new.trusted = r.trusted /\ new.result = p /\ new.delivery = Delivery(c)
    <3>1. Decided(r, d, id) \in Rows
      BY <1>1, RowTypes DEF Jobs
    <3>2. new \in Rows
      BY <1>1, <3>1, RowTypes
    <3> QED
      BY <1>1, <3>1, <3>2 DEF Resolved, Decided, Rows
  <2>4. r.status \in {"validated", "approved"} /\ r.trusted /\ d = r.decision /\ id = r.resolution
    BY <1>1 DEF JobOK, RowOK, ConsistentRecord, SameDecision
  <2>5. effects[c] = 0
    BY <1>1, <2>4 DEF RowOK, Executed
  <2>6. RowOK(c, new, effects[c] + 1)
    <3> HIDE DEF new
    <3> QED
      BY <1>1, <2>3, <2>4, <2>5, Values
      DEF RowOK, Executed, ConsistentRecord, Delivery, JobOK
  <2>7. Keeps(r, new)
    BY <2>3, <2>4 DEF Keeps, SettledRow, SameDecision
  <2>8. j \in Jobs /\ j.step = "done" /\ j.call = c
    BY <1>1, RepliedType DEF Replies
  <2> HIDE DEF new, j
  <2>9. RowsOK' /\ calls' \in [Calls -> Rows] /\ effects' \in [Calls -> Nat]
    <3>1. PICK e \in Nat : e = effects[c] + 1
      BY <2>5
    <3> QED
      BY <1>1, <2>2, <2>3, <2>6, <3>1, OtherRows
  <2>10. TypeOK'
    BY <1>2, <2>1, <2>8, <2>9 DEF Inv, TypeOK, Set, j
  <2>11. ASSUME NEW v \in Workers
         PROVE  JobOK(v, job'[v], calls'[job'[v].call], lock')
    <3>1. CASE v = w
      <4>1. job'[v] = j
        BY <2>1, <3>1 DEF Inv, TypeOK, Set, j
      <4> QED
        BY <1>1, <2>8, <4>1 DEF JobOK
    <3>2. CASE v # w
      <4>1. job'[v] = job[v]
        BY <2>1, <3>2 DEF Inv, TypeOK, Set
      <4>2. job[v].step # "invoke"
        BY <1>2, <3>2 DEF Inv, JobsOK, JobOK
      <4> QED
        BY <1>1, <2>2, <2>7, <4>1, <4>2, OtherJob
    <3> QED
      BY <3>1, <3>2
  <2> QED
    BY <2>9, <2>10, <2>11 DEF Inv, JobsOK
<1> QED
  BY <1>3, <1>4

(* What a worker reads back, gives up, or is stopped in keeps it. *)
LEMMA EndingsKeepInv ==
  ASSUME Inv, NEW w \in Workers,
         CallReload(w) \/ ResultReload(w) \/ Busy(w) \/ Abort(w)
  PROVE  Inv'
<1>1. CASE CallReload(w) \/ ResultReload(w) \/ Busy(w)
  <2> DEFINE c == job[w].call
  <2>1. job[w] \in Jobs /\ c \in Calls
    BY <1>1, JobCall DEF CallReload, ResultReload, Busy, WriteSteps
  <2>2. /\ \/ Set(w, Replied(job[w], "protocol", None))
           \/ Set(w, Replied(job[w], "raised", None))
           \/ Set(w, Loaded(job[w], c, "fresh"))
           \/ Set(w, Loaded(job[w], c, "replayed"))
        /\ UNCHANGED <<calls, lock, effects>>
    BY <1>1 DEF CallReload, ResultReload, Busy
  <2> QED
    BY <2>1, <2>2, Reply, ReplyLoaded DEF Replies
<1>2. CASE Abort(w)
  <2>1. Idle \in Jobs /\ Idle.step = "idle"
    BY DEF Idle, Jobs, Steps, Replies
  <2>2. JobOK(w, Idle, calls[Idle.call], lock')
    BY <2>1 DEF JobOK
  <2>3. Set(w, Idle) /\ UNCHANGED <<calls, effects>>
    BY <1>2 DEF Abort
  <2>4. CASE lock = w
    BY <1>2, <2>1, <2>2, <2>3, <2>4, LookAndLock DEF Abort
  <2>5. CASE lock # w
    BY <1>2, <2>1, <2>2, <2>3, <2>5, Look DEF Abort
  <2> QED
    BY <2>4, <2>5
<1> QED
  BY <1>1, <1>2

(* Delivering a result to the model keeps it. *)
LEMMA ConsumeKeepsInv ==
  ASSUME Inv, NEW c \in Calls, Consume(c)
  PROVE  Inv'
<1> DEFINE r == calls[c]
           new == [r EXCEPT !.delivery = "consumed"]
<1>1. r \in Rows /\ RowOK(c, r, effects[c]) /\ effects[c] \in Nat
  BY DEF Inv, TypeOK, RowsOK
<1>2. /\ new \in Rows /\ new.status = r.status /\ new.delivery = "consumed"
      /\ new.trusted = r.trusted /\ new.decision = r.decision
      /\ new.resolution = r.resolution /\ new.result = r.result
  BY <1>1 DEF Rows
<1>3. /\ calls' = [calls EXCEPT ![c] = new] /\ r.status = "resolved"
      /\ effects' = [effects EXCEPT ![c] = effects[c]]
      /\ lock = None /\ lock' = lock /\ job' = job
  BY DEF Consume, Inv, TypeOK
<1> HIDE DEF new
<1>4. RowOK(c, new, effects[c]) /\ Keeps(r, new)
  BY <1>1, <1>2, <1>3
  DEF RowOK, Executed, ConsistentRecord, Keeps, SettledRow, SameDecision
<1>5. RowsOK' /\ TypeOK'
  BY <1>1, <1>2, <1>3, <1>4, OtherRows DEF Inv, TypeOK
<1>6. ASSUME NEW v \in Workers
      PROVE  JobOK(v, job'[v], calls'[job'[v].call], lock')
  <2>1. job[v].step # "invoke"
    BY <1>3, Values DEF Inv, JobsOK, JobOK
  <2> QED
    BY <1>3, <1>4, <2>1, OtherJob
<1> QED
  BY <1>5, <1>6 DEF Inv, JobsOK

-----------------------------------------------------------------------------
(* The theorems.                                                           *)

(* The invariant holds at first and in every step. *)
THEOREM InvHolds == Spec => []Inv
<1>1. Init => Inv
  <2> SUFFICES ASSUME Init PROVE Inv
    OBVIOUS
  <2>1. NoRow \in Rows /\ Idle \in Jobs
    BY DEF NoRow, Rows, Statuses, Idle, Jobs, Steps, Replies
  <2>2. TypeOK
    BY <2>1 DEF Init, TypeOK
  <2>3. RowsOK
    BY DEF Init, RowsOK, RowOK, Executed, ConsistentRecord, NoRow
  <2>4. JobsOK
    BY DEF Init, JobsOK, JobOK, Idle
  <2> QED
    BY <2>2, <2>3, <2>4 DEF Inv
<1>2. Inv /\ [Next]_vars => Inv'
  <2> SUFFICES ASSUME Inv, [Next]_vars PROVE Inv'
    OBVIOUS
  <2>1. ASSUME NEW w \in Workers, Begin(w)
        PROVE  Inv'
    BY <2>1, PreparationKeepsInv, RequestsKeepInv, DecisionsKeepInv, AnswersKeepInv,
       ClaimsKeepInv DEF Begin
  <2>2. ASSUME NEW w \in Workers, Step(w)
        PROVE  Inv'
    BY <2>2, PreparationKeepsInv, RequestsKeepInv, DecisionsKeepInv, AnswersKeepInv,
       ClaimsKeepInv, ExecutionsKeepInv, EndingsKeepInv DEF Step
  <2>3. ASSUME NEW w \in Workers, Abort(w)
        PROVE  Inv'
    BY <2>3, EndingsKeepInv
  <2>4. ASSUME NEW c \in Calls, Consume(c)
        PROVE  Inv'
    BY <2>4, ConsumeKeepsInv
  <2>5. CASE UNCHANGED vars
    BY <2>5 DEF vars, Inv, TypeOK, RowsOK, JobsOK
  <2> QED
    BY <2>1, <2>2, <2>3, <2>4, <2>5 DEF Next
<1> QED
  BY <1>1, <1>2, PTL DEF Spec

(* Every variable keeps its type. *)
THEOREM TypesHold == Spec => []TypeOK
<1>1. Inv => TypeOK
  BY DEF Inv
<1> QED
  BY <1>1, InvHolds, PTL

(* No interleaving of the services, with any cancellation or lock timeout, *)
(* commits a row the next reader would refuse, or one left executing.      *)
THEOREM RecordsStayConsistent == Spec => []RecordsConsistent
<1>1. Inv => RecordsConsistent
  BY DEF Inv, RowsOK, RowOK, RecordsConsistent
<1> QED
  BY <1>1, InvHolds, PTL

(* The business effect of a call is committed exactly once, with its       *)
(* result, and never for a call that was rejected, answered or refused.    *)
THEOREM EffectOnce == Spec => []EffectExactlyWithResult
<1>1. Inv => EffectExactlyWithResult
  BY DEF Inv, RowsOK, RowOK, EffectExactlyWithResult, ResolvedByExecution, Executed
<1> QED
  BY <1>1, InvHolds, PTL

(* A guarded call takes effect only under a durable approval. *)
THEOREM ApprovedEffectsOnly == Spec => []NoEffectWithoutApproval
<1>1. Inv => NoEffectWithoutApproval
  BY Routes DEF Inv, TypeOK, RowsOK, RowOK, NoEffectWithoutApproval
<1> QED
  BY <1>1, InvHolds, PTL

(* The row a worker runs a tool for stays as it was claimed. *)
THEOREM ClaimsPinTheirRow == Spec => []ClaimPinsRow
<1>1. Inv => ClaimPinsRow
  <2> SUFFICES ASSUME Inv, NEW w \in Workers, job[w].step = "invoke"
               PROVE  /\ lock = w /\ calls[job[w].call].status = job[w].from
                      /\ SameDecision(calls[job[w].call], job[w])
    BY DEF ClaimPinsRow
  <2>1. /\ JobOK(w, job[w], calls[job[w].call], lock)
        /\ RowOK(job[w].call, calls[job[w].call], effects[job[w].call])
    BY DEF Inv, JobsOK, RowsOK, JobOK
  <2> QED
    BY <2>1 DEF JobOK, RowOK, ConsistentRecord, SameDecision
<1> QED
  BY <1>1, InvHolds, PTL

-----------------------------------------------------------------------------
(* What a step may do to a row, whichever service takes it: the properties *)
(* of histories and of replies, and the contract, all follow from it.      *)

(* Nothing that is written is overwritten, and a resolved row stays so. *)
Stays(r, s) ==
  /\ s.status # "absent"
  /\ r.status # "absent" => s.arguments = r.arguments
  /\ r.decision # None => s.decision = r.decision
  /\ r.resolution # None => s.resolution = r.resolution
  /\ r.result # None => s.result = r.result
  /\ r.delivery = "consumed" => s.delivery = "consumed"
  /\ r.status = "resolved" => s.status = "resolved"

(* The step is one of the contract, or none the contract can see. *)
Settles(c, r, s, e, f) ==
  \/ s.decision = r.decision /\ s.result = r.result /\ f = e
  \/ /\ r.decision = None /\ r.result = None /\ f = e
     /\ \/ s.decision = "approve" /\ s.result = None
        \/ s.decision = "reject" /\ s.result = Rejected
        \/ s.decision = None /\ s.result \in Results
  \/ /\ r.result = None /\ s.result \in Results /\ s.decision = r.decision
     /\ e = 0 /\ f = 1
     /\ c \in Guarded => r.decision = "approve"

(* A resolution id comes to a row when no other row has it. *)
Claims(c, r, s) == s.resolution \in {r.resolution, None} \/ ~OwnedElsewhere(c, s.resolution)

RowMoves(c, s, f) ==
  Stays(calls[c], s) /\ Settles(c, calls[c], s, effects[c], f) /\ Claims(c, calls[c], s)

RowsMove ==
  \/ UNCHANGED <<calls, effects>>
  \/ \E c \in Calls, s \in Rows, f \in Nat :
       /\ calls' = [calls EXCEPT ![c] = s]
       /\ effects' = [effects EXCEPT ![c] = f]
       /\ RowMoves(c, s, f)

(* A row that was never inserted has no column set. *)
Unwritten ==
  \A c \in Calls : calls[c].status = "absent" =>
    <<calls[c].decision, calls[c].resolution, calls[c].result, calls[c].delivery>>
      = <<None, None, None, None>>

(* A compare-and-set moves its row as the row it writes would. *)
LEMMA CompareAndSetMoves ==
  ASSUME Inv, NEW w \in Workers, NEW c \in Calls, NEW matches \in BOOLEAN, NEW new \in Rows,
         CompareAndSet(w, c, matches, new), matches => RowMoves(c, new, effects[c])
  PROVE  RowsMove
<1>1. effects' = [effects EXCEPT ![c] = effects[c]] /\ effects[c] \in Nat
  BY DEF Inv, TypeOK, CompareAndSet
<1> QED
  BY <1>1 DEF CompareAndSet, RowsMove

(* Materializing and preparing a call. *)
LEMMA PreparationMoves ==
  ASSUME Inv, Unwritten, NEW w \in Workers,
         (\E c \in Calls, args \in Arguments : Materialize(w, c, args)) \/ SavePrepared(w)
  PROVE  RowsMove
<1>1. ASSUME NEW c \in Calls, NEW args \in Arguments, Materialize(w, c, args)
      PROVE  RowsMove
  <2> DEFINE new == IF calls[c].status = "absent" THEN Received(args) ELSE calls[c]
  <2>1. new \in Rows /\ effects[c] \in Nat
    BY RowTypes DEF Inv, TypeOK
  <2>2. calls' = [calls EXCEPT ![c] = new] /\ effects' = [effects EXCEPT ![c] = effects[c]]
    BY <1>1 DEF Materialize, Inv, TypeOK
  <2>3. RowMoves(c, new, effects[c])
    BY DEF RowMoves, Stays, Settles, Claims, Unwritten, Received, NoRow
  <2> HIDE DEF new
  <2> QED
    BY <2>1, <2>2, <2>3 DEF RowsMove
<1>2. CASE SavePrepared(w)
  <2> DEFINE c == job[w].call
             r == calls[c]
  <2>1. c \in Calls /\ r \in Rows /\ RowOK(c, r, effects[c])
    BY <1>2, JobCall DEF SavePrepared, Inv, RowsOK
  <2>2. PICK new \in {Validated(r)} \cup {Resolved(c, r, p) : p \in Results} :
          CompareAndSet(w, c, Preparable(r), new)
    BY <1>2 DEF SavePrepared
  <2>3. new \in Rows
    BY <2>1, RowTypes
  <2>4. ASSUME Preparable(r)
        PROVE  RowMoves(c, new, effects[c])
    <3>1. CASE new = Validated(r)
      BY <2>1, <2>4, <3>1
      DEF RowOK, ConsistentRecord, Preparable, Validated, RowMoves, Stays, Settles, Claims, Rows
    <3>2. ASSUME NEW p \in Results, new = Resolved(c, r, p)
          PROVE  RowMoves(c, new, effects[c])
      BY <2>1, <2>4, <3>2, Values
      DEF RowOK, ConsistentRecord, Preparable, Resolved, RowMoves, Stays, Settles, Claims, Rows
    <3> QED
      BY <3>1, <3>2
  <2>5. Preparable(r) \in BOOLEAN
    BY DEF Preparable
  <2> QED
    BY <2>1, <2>2, <2>3, <2>4, <2>5, CompareAndSetMoves
<1> QED
  BY <1>1, <1>2

(* Sending a call to its approver or to the user. *)
LEMMA RequestsMove ==
  ASSUME Inv, NEW w \in Workers, RequestApprovalWrite(w) \/ RequestInputWrite(w)
  PROVE  RowsMove
<1> DEFINE c == job[w].call
           r == calls[c]
<1>1. c \in Calls /\ r \in Rows /\ RowOK(c, r, effects[c])
  BY JobCall DEF RequestApprovalWrite, RequestInputWrite, Inv, RowsOK
<1>2. PICK status \in {"awaiting_approval", "awaiting_input"} :
        CompareAndSet(w, c, r.status = "validated", [r EXCEPT !.status = status])
  BY DEF RequestApprovalWrite, RequestInputWrite, ApprovalRequestable, InputRequestable
<1>3. [r EXCEPT !.status = status] \in Rows
  BY <1>1, RowTypes DEF Statuses
<1>4. ASSUME r.status = "validated"
      PROVE  RowMoves(c, [r EXCEPT !.status = status], effects[c])
  BY <1>1, <1>4 DEF RowMoves, Stays, Settles, Claims, Rows
<1> QED
  BY <1>1, <1>2, <1>3, <1>4, CompareAndSetMoves

(* Recording a decision or an answer. *)
LEMMA ResolutionsMove ==
  ASSUME Inv, NEW w \in Workers, DecisionWrite(w) \/ AnswerWrite(w)
  PROVE  RowsMove
<1> DEFINE c == job[w].call
           r == calls[c]
           d == job[w].decision
           id == job[w].resolution
<1>1. c \in Calls /\ r \in Rows /\ RowOK(c, r, effects[c]) /\ JobOK(w, job[w], r, lock)
  BY JobCall DEF DecisionWrite, AnswerWrite, Inv, RowsOK, JobsOK
<1>2. CASE DecisionWrite(w)
  <2> DEFINE decided == Decided(r, d, id)
             new == IF d = "approve" THEN [decided EXCEPT !.status = "approved"]
                                     ELSE Resolved(c, decided, Rejected)
             fit == Decidable(r) /\ ~OwnedElsewhere(c, id)
  <2>1. d \in {"approve", "reject"} /\ id \in ResolutionIds
    BY <1>1, <1>2 DEF DecisionWrite, JobOK
  <2>2. decided \in Rows
    BY <1>1, <2>1, RowTypes
  <2>3. new \in Rows
    BY <1>1, <2>2, RowTypes DEF Statuses
  <2>4. ASSUME fit
        PROVE  RowMoves(c, new, effects[c])
    <3>1. r.decision = None /\ r.resolution = None /\ r.result = None /\ r.delivery = None
      BY <1>1, <2>4 DEF RowOK, ConsistentRecord, Decidable
    <3>2. /\ new.arguments = r.arguments /\ new.decision = d /\ new.resolution = id
          /\ new.status \in {"approved", "resolved"}
          /\ d = "approve" => new.result = r.result
          /\ d = "reject" => new.result = Rejected
      BY <1>1, <2>1, <2>2 DEF Decided, Resolved, Rows
    <3> HIDE DEF new
    <3> QED
      BY <2>1, <2>4, <3>1, <3>2, Values DEF RowMoves, Stays, Settles, Claims, Decidable
  <2>5. CompareAndSet(w, c, fit, new) /\ fit \in BOOLEAN
    BY <1>2 DEF DecisionWrite, Decidable, OwnedElsewhere
  <2> HIDE DEF new, fit
  <2> QED
    BY <1>1, <2>3, <2>4, <2>5, CompareAndSetMoves
<1>3. CASE AnswerWrite(w)
  <2> DEFINE answered == [r EXCEPT !.resolution = id]
             p == job[w].payload
             new == Resolved(c, answered, p)
             fit == Answerable(r) /\ ~OwnedElsewhere(c, id)
  <2>1. p \in Results /\ id \in ResolutionIds
    BY <1>1, <1>3 DEF AnswerWrite, JobOK
  <2>2. answered \in Rows
    BY <1>1, <2>1 DEF Rows
  <2>3. new \in Rows
    BY <1>1, <2>1, <2>2, RowTypes
  <2>4. ASSUME fit
        PROVE  RowMoves(c, new, effects[c])
    <3>1. r.decision = None /\ r.resolution = None /\ r.result = None /\ r.delivery = None
      BY <1>1, <2>4 DEF RowOK, ConsistentRecord, Answerable
    <3>2. /\ new.arguments = r.arguments /\ new.decision = r.decision /\ new.resolution = id
          /\ new.status = "resolved" /\ new.result = p
      BY <1>1, <2>1, <2>2 DEF Resolved, Rows
    <3> HIDE DEF new
    <3> QED
      BY <2>1, <2>4, <3>1, <3>2, Values DEF RowMoves, Stays, Settles, Claims, Answerable
  <2>5. CompareAndSet(w, c, fit, new) /\ fit \in BOOLEAN
    BY <1>3 DEF AnswerWrite, Answerable, OwnedElsewhere
  <2> HIDE DEF new, fit
  <2> QED
    BY <1>1, <2>3, <2>4, <2>5, CompareAndSetMoves
<1> QED
  BY <1>2, <1>3

(* Committing the effect of a tool with its result. *)
LEMMA ExecutionMoves ==
  ASSUME Inv, NEW w \in Workers, ExecuteCommit(w)
  PROVE  RowsMove
<1> DEFINE c == job[w].call
           r == calls[c]
           d == job[w].decision
           id == job[w].resolution
<1>1. /\ job[w] \in Jobs /\ c \in Calls /\ r \in Rows
      /\ RowOK(c, r, effects[c]) /\ JobOK(w, job[w], r, lock)
  BY JobCall DEF ExecuteCommit, Inv, RowsOK, JobsOK
<1>2. PICK p \in Results : calls' = [calls EXCEPT ![c] = Resolved(c, Decided(r, d, id), p)]
  BY DEF ExecuteCommit
<1> DEFINE new == Resolved(c, Decided(r, d, id), p)
<1>3. new \in Rows
  BY <1>1, RowTypes DEF Jobs
<1>4. /\ r.status \in {"validated", "approved"} /\ d = r.decision /\ id = r.resolution
      /\ r.result = None /\ r.delivery = None
      /\ c \in Guarded => d = "approve"
  BY <1>1 DEF ExecuteCommit, JobOK, RowOK, ConsistentRecord, SameDecision
<1>5. effects[c] = 0
  BY <1>1, <1>4 DEF RowOK, Executed
<1>6. effects' = [effects EXCEPT ![c] = 1]
  BY <1>5 DEF ExecuteCommit
<1>7. /\ new.arguments = r.arguments /\ new.decision = d /\ new.resolution = id
      /\ new.status = "resolved" /\ new.result = p
  BY <1>1 DEF Resolved, Decided, Rows
<1>8. RowMoves(c, new, 1)
  <2> HIDE DEF new
  <2> QED
    BY <1>4, <1>5, <1>7, Values DEF RowMoves, Stays, Settles, Claims
<1>9. calls' = [calls EXCEPT ![c] = new]
  BY <1>2
<1> HIDE DEF new
<1> QED
  BY <1>1, <1>3, <1>6, <1>8, <1>9 DEF RowsMove

(* Delivering a result. *)
LEMMA DeliveryMoves ==
  ASSUME Inv, NEW c \in Calls, Consume(c)
  PROVE  RowsMove
<1> DEFINE new == [calls[c] EXCEPT !.delivery = "consumed"]
<1>1. /\ calls[c] \in Rows /\ new \in Rows /\ effects[c] \in Nat
      /\ calls' = [calls EXCEPT ![c] = new] /\ effects' = [effects EXCEPT ![c] = effects[c]]
  BY DEF Consume, Inv, TypeOK, Rows
<1>2. RowMoves(c, new, effects[c])
  BY <1>1 DEF Consume, RowMoves, Stays, Settles, Claims, Rows
<1> HIDE DEF new
<1> QED
  BY <1>1, <1>2 DEF RowsMove

(* Every step moves the rows in one of these ways. *)
LEMMA NextMovesRows ==
  ASSUME Inv, Unwritten, [Next]_vars
  PROVE  RowsMove
<1>1. ASSUME NEW w \in Workers, Begin(w)
      PROVE  RowsMove
  <2>1. CASE UNCHANGED <<calls, effects>>
    BY <2>1 DEF RowsMove
  <2>2. ASSUME NEW c \in Calls, NEW args \in Arguments, Materialize(w, c, args)
        PROVE  RowsMove
    BY <2>2, PreparationMoves
  <2> QED
    BY <1>1, <2>1, <2>2
    DEF Begin, RequestApprovalRead, RequestInputRead, DecisionRead, AnswerRead, Dispatch
<1>2. ASSUME NEW w \in Workers, Step(w)
      PROVE  RowsMove
  <2>1. CASE UNCHANGED <<calls, effects>>
    BY <2>1 DEF RowsMove
  <2>2. CASE \/ SavePrepared(w) \/ RequestApprovalWrite(w) \/ RequestInputWrite(w)
             \/ DecisionWrite(w) \/ AnswerWrite(w) \/ ExecuteCommit(w)
    BY <2>2, PreparationMoves, RequestsMove, ResolutionsMove, ExecutionMoves
  <2> QED
    BY <1>2, <2>1, <2>2
    DEF Step, PrepareRead, PrepareRaises, DecisionOwner, DecisionReload, AnswerReload,
        ExecuteRead, ExecuteClaim, ExecuteRaises, CallReload, ResultReload, Busy
<1>3. ASSUME NEW w \in Workers, Abort(w)
      PROVE  RowsMove
  BY <1>3 DEF Abort, RowsMove
<1>4. ASSUME NEW c \in Calls, Consume(c)
      PROVE  RowsMove
  BY <1>4, DeliveryMoves
<1>5. CASE UNCHANGED vars
  BY <1>5 DEF vars, RowsMove
<1> QED
  BY <1>1, <1>2, <1>3, <1>4, <1>5 DEF Next

-----------------------------------------------------------------------------
(* Replies.  What a worker was told, or is about to be told, is on the row *)
(* of its call; with the step it is at comes the operation it runs.        *)

AckOK(j, r) ==
  /\ j.step = "idle" => j.op = "none"
  /\ j.step \in {"prepare", "save"} => j.op = "prepare"
  /\ j.step \in {"requestApproval", "requestInput", "answer", "execute"} => j.op = j.step
  /\ j.step \in {"owner", "record"} => j.op = "decide"
  /\ j.step \in {"claim", "invoke"} => j.op = "execute"
  /\ j.step # "done" => j.reply = "none"
  /\ j.op = "decide" => j.decision # None /\ j.resolution # None
  /\ j.op = "answer" => j.payload # None /\ j.resolution # None
  /\ j.reply \in {"fresh", "replayed"} \/ (j.step = "reload" /\ j.claimed) =>
       /\ j.op = "decide" => SameDecision(r, j)
       /\ j.op = "answer" => SameAnswer(r, j)
  /\ j.reply \in {"fresh", "replayed"} /\ j.op = "execute" =>
       r.status = "resolved" /\ r.result = j.result

AcksOK == \A w \in Workers : AckOK(job[w], calls[job[w].call])

AckInv == Inv /\ Unwritten /\ ResolutionIdsUnique /\ AcksOK

(* The invariant of rows that were not written, and of resolution ids. *)
LEMMA RowsMoveKeepsIds ==
  ASSUME Inv, Unwritten, ResolutionIdsUnique, RowsMove
  PROVE  Unwritten' /\ ResolutionIdsUnique'
<1>1. CASE UNCHANGED <<calls, effects>>
  BY <1>1 DEF Unwritten, ResolutionIdsUnique
<1>2. ASSUME NEW c \in Calls, NEW s \in Rows, calls' = [calls EXCEPT ![c] = s],
             Stays(calls[c], s), Claims(c, calls[c], s)
      PROVE  Unwritten' /\ ResolutionIdsUnique'
  <2>1. calls'[c] = s /\ \A o \in Calls \ {c} : calls'[o] = calls[o]
    BY <1>2 DEF Inv, TypeOK
  <2>2. Unwritten'
    BY <1>2, <2>1 DEF Unwritten, Stays
  <2>3. ResolutionIdsUnique'
    BY <1>2, <2>1 DEF ResolutionIdsUnique, Claims, OwnedElsewhere
  <2> QED
    BY <2>2, <2>3
<1> QED
  BY <1>1, <1>2 DEF RowsMove, RowMoves

(* What was acknowledged stands on the row, however it moves. *)
LEMMA AcksStand ==
  ASSUME Inv, AcksOK, RowsMove, NEW v \in Workers, job'[v] = job[v]
  PROVE  AckOK(job'[v], calls'[job'[v].call])
<1> DEFINE j == job[v]
           r == calls[j.call]
           s == calls'[j.call]
<1>1. AckOK(j, r) /\ JobOK(v, j, r, lock)
  BY DEF AcksOK, Inv, JobsOK
<1>2. CASE j.step = "idle"
  BY <1>1, <1>2 DEF AckOK
<1>3. CASE j.step # "idle"
  <2>1. j.call \in Calls /\ RowOK(j.call, r, effects[j.call])
    BY <1>1, <1>3 DEF JobOK, Inv, RowsOK
  <2>2. s = r \/ Stays(r, s)
    BY <2>1 DEF RowsMove, RowMoves, Inv, TypeOK
  <2>3. CASE Stays(r, s)
    BY <1>1, <2>1, <2>3
    DEF AckOK, Stays, SameDecision, SameAnswer, RowOK, ConsistentRecord
  <2> QED
    BY <1>1, <2>2, <2>3
<1> QED
  BY <1>2, <1>3

(* So only the worker that took the step is left to look at. *)
LEMMA OneAck ==
  ASSUME AckInv, RowsMove, NEW w \in Workers, NEW j, Set(w, j), AckOK(j, calls'[j.call])
  PROVE  AcksOK'
<1> SUFFICES ASSUME NEW v \in Workers
             PROVE  AckOK(job'[v], calls'[job'[v].call])
  BY DEF AcksOK
<1>1. CASE v = w
  BY <1>1 DEF Set, AckInv, Inv, TypeOK
<1>2. CASE v # w
  <2>1. job'[v] = job[v]
    BY <1>2 DEF Set, AckInv, Inv, TypeOK
  <2> QED
    BY <2>1, AcksStand DEF AckInv
<1> QED
  BY <1>1, <1>2

(* A reply that acknowledges nothing, to any operation. *)
LEMMA NoAck ==
  ASSUME AckInv, RowsMove, NEW w \in Workers, NEW j \in Jobs, AckOK(j, calls[j.call]),
         NEW reply \in Replies \ {"fresh", "replayed"}, Set(w, Replied(j, reply, None))
  PROVE  AcksOK'
<1> DEFINE k == Replied(j, reply, None)
<1>1. /\ k.step = "done" /\ k.op = j.op /\ k.reply = reply
      /\ k.decision = j.decision /\ k.resolution = j.resolution /\ k.payload = j.payload
  BY DEF Replied, Jobs
<1>2. AckOK(k, calls'[k.call])
  <2> HIDE DEF k
  <2> QED
    BY <1>1 DEF AckOK, Replies
<1> HIDE DEF k
<1> QED
  BY <1>2, OneAck DEF k

(* One that does, when the row bears it out. *)
LEMMA Ack ==
  ASSUME AckInv, UNCHANGED <<calls, effects>>, NEW w \in Workers, NEW j \in Jobs,
         NEW reply \in Replies, NEW result \in Results \cup {Rejected, None},
         AckOK(j, calls[j.call]), Set(w, Replied(j, reply, result)),
         j.op = "decide" => SameDecision(calls[j.call], j),
         j.op = "answer" => SameAnswer(calls[j.call], j),
         j.op = "execute" => calls[j.call].status = "resolved" /\ calls[j.call].result = result
  PROVE  AcksOK'
<1> DEFINE k == Replied(j, reply, result)
<1>1. /\ k.step = "done" /\ k.op = j.op /\ k.call = j.call /\ k.result = result
      /\ k.decision = j.decision /\ k.resolution = j.resolution /\ k.payload = j.payload
  BY DEF Replied, Jobs
<1>2. AckOK(k, calls'[k.call])
  <2> HIDE DEF k
  <2> QED
    BY <1>1 DEF AckOK, SameDecision, SameAnswer
<1>3. RowsMove
  BY DEF RowsMove
<1> HIDE DEF k
<1> QED
  BY <1>2, <1>3, OneAck DEF k

(* ... or answers with what it loads. *)
LEMMA AckLoaded ==
  ASSUME AckInv, UNCHANGED <<calls, effects>>, NEW w \in Workers, NEW j \in Jobs,
         j.call \in Calls, NEW reply \in Replies,
         AckOK(j, calls[j.call]), Set(w, Loaded(j, j.call, reply)),
         j.op = "decide" => SameDecision(calls[j.call], j),
         j.op = "answer" => SameAnswer(calls[j.call], j),
         j.op = "execute" => calls[j.call].status = "resolved"
  PROVE  AcksOK'
<1>1. calls[j.call].result \in Results \cup {Rejected, None}
  BY DEF AckInv, Inv, TypeOK, Rows
<1>2. RowsMove
  BY DEF RowsMove
<1>3. CASE Set(w, Replied(j, reply, calls[j.call].result))
  BY <1>1, <1>3, Ack
<1>4. CASE Set(w, Replied(j, "protocol", None))
  BY <1>2, <1>4, NoAck DEF Replies
<1> QED
  BY <1>3, <1>4 DEF Loaded

(* A worker in the middle of an operation moves on without a reply. *)
LEMMA MovesOn ==
  ASSUME AckInv, RowsMove, NEW w \in Workers, job[w].step \notin {"idle", "done"},
         NEW j \in Jobs, Set(w, j), j.op = job[w].op, j.reply = job[w].reply,
         j.resolution = job[w].resolution \/ j.op = "execute",
         j.decision = job[w].decision \/ j.op = "execute",
         j.payload = job[w].payload,
         \/ <<job[w].step, j.step>> \in {<<"prepare", "save">>, <<"owner", "record">>,
               <<"execute", "claim">>, <<"claim", "invoke">>}
         \/ j.step = "reload" /\ j.op \notin {"decide", "answer"}
         \/ j.step = "reload" /\ ~j.claimed
  PROVE  AcksOK'
<1>1. AckOK(job[w], calls[job[w].call])
  BY DEF AckInv, AcksOK
<1>2. AckOK(j, calls'[j.call])
  BY <1>1 DEF AckOK
<1> QED
  BY <1>2, OneAck

(* A compare-and-set that matched has stored what it will acknowledge. *)
LEMMA CompareAndSetAcks ==
  ASSUME AckInv, RowsMove, NEW w \in Workers, job[w].step \in WriteSteps,
         NEW c \in Calls, c = job[w].call, NEW matches \in BOOLEAN, NEW new,
         CompareAndSet(w, c, matches, new),
         matches /\ job[w].op = "decide" => SameDecision(new, job[w]),
         matches /\ job[w].op = "answer" => SameAnswer(new, job[w])
  PROVE  AcksOK'
<1> DEFINE j == [job[w] EXCEPT !.step = "reload", !.claimed = matches]
<1>1. AckOK(job[w], calls[c]) /\ job[w] \in Jobs
  BY DEF AckInv, AcksOK, Inv, TypeOK
<1>2. /\ j.step = "reload" /\ j.op = job[w].op /\ j.call = c /\ j.reply = "none"
      /\ j.decision = job[w].decision /\ j.resolution = job[w].resolution
      /\ j.payload = job[w].payload
  BY <1>1 DEF AckOK, Jobs, WriteSteps
<1>3. j.claimed = matches
  BY <1>1 DEF Jobs
<1>4. Set(w, j)
  BY DEF CompareAndSet
<1>5. matches => calls'[c] = new
  BY DEF CompareAndSet, AckInv, Inv, TypeOK
<1>6. AckOK(j, calls'[j.call])
  <2> HIDE DEF j
  <2> QED
    BY <1>1, <1>2, <1>3, <1>5 DEF AckOK, SameDecision, SameAnswer, WriteSteps
<1> HIDE DEF j
<1> QED
  BY <1>4, <1>6, OneAck

(* Preparing a call acknowledges nothing to a decider, answerer or executor. *)
LEMMA PreparationAcks ==
  ASSUME AckInv, RowsMove, NEW w \in Workers,
         \/ \E c \in Calls, args \in Arguments : Materialize(w, c, args)
         \/ PrepareRead(w) \/ SavePrepared(w) \/ PrepareRaises(w)
  PROVE  AcksOK'
<1>1. ASSUME NEW c \in Calls, NEW args \in Arguments, Materialize(w, c, args)
      PROVE  AcksOK'
  <2> DEFINE j == Working("prepare", "prepare", c)
  <2>1. Set(w, j) \/ Set(w, Replied(j, "conflict", None))
    BY <1>1, WorkingType DEF Materialize, Steps
  <2>2. j \in Jobs /\ j.step = "prepare" /\ j.op = "prepare" /\ j.reply = "none"
    BY WorkingType DEF Working, Idle, Steps
  <2>3. ASSUME NEW r PROVE AckOK(j, r)
    BY <2>2 DEF AckOK
  <2> HIDE DEF j
  <2> QED
    BY <2>1, <2>2, <2>3, OneAck, NoAck DEF Replies
<1>2. ASSUME job[w].step \in {"prepare", "save"}
      PROVE  /\ job[w] \in Jobs /\ job[w].call \in Calls /\ job[w].op = "prepare"
             /\ AckOK(job[w], calls[job[w].call])
  BY <1>2, JobCall DEF AckInv, AcksOK, AckOK
<1>3. CASE PrepareRead(w)
  <2> DEFINE saving == [job[w] EXCEPT !.step = "save"]
  <2>1. job[w].step = "prepare" /\ UNCHANGED <<calls, effects>>
    BY <1>3 DEF PrepareRead
  <2>2. \/ Set(w, Loaded(job[w], job[w].call, "replayed")) \/ Set(w, saving)
        \/ Set(w, Replied(job[w], "protocol", None))
    BY <1>3 DEF PrepareRead
  <2>3. /\ saving \in Jobs /\ saving.step = "save" /\ saving.op = job[w].op
        /\ saving.reply = job[w].reply /\ saving.decision = job[w].decision
        /\ saving.resolution = job[w].resolution /\ saving.payload = job[w].payload
    BY <1>2, <2>1 DEF Jobs, Steps
  <2> HIDE DEF saving
  <2> QED
    BY <1>2, <2>1, <2>2, <2>3, AckLoaded, NoAck, MovesOn DEF Replies
<1>4. CASE SavePrepared(w)
  <2>1. job[w].step = "save"
    BY <1>4 DEF SavePrepared
  <2>2. PICK new : CompareAndSet(w, job[w].call, Preparable(calls[job[w].call]), new)
    BY <1>4 DEF SavePrepared
  <2> QED
    BY <1>2, <2>1, <2>2, CompareAndSetAcks DEF WriteSteps, Preparable
<1>5. CASE PrepareRaises(w)
  BY <1>2, <1>5, NoAck DEF PrepareRaises, Replies
<1> QED
  BY <1>1, <1>3, <1>4, <1>5

(* Nor does sending it to its approver or to the user. *)
LEMMA RequestsAck ==
  ASSUME AckInv, RowsMove, NEW w \in Workers,
         \/ \E c \in Calls : RequestApprovalRead(w, c) \/ RequestInputRead(w, c)
         \/ RequestApprovalWrite(w) \/ RequestInputWrite(w)
  PROVE  AcksOK'
<1>1. ASSUME NEW c \in Calls, RequestApprovalRead(w, c) \/ RequestInputRead(w, c)
      PROVE  AcksOK'
  <2>1. PICK op \in {"requestApproval", "requestInput"} :
          /\ \/ Set(w, Working(op, op, c)) \/ Set(w, Replied(Working(op, op, c), "protocol", None))
             \/ Set(w, Replied(Working(op, op, c), "replayed", calls[c].result))
          /\ UNCHANGED <<calls, effects>>
    BY <1>1 DEF RequestApprovalRead, RequestInputRead
  <2> DEFINE j == Working(op, op, c)
  <2>2. j \in Jobs /\ j.step = op /\ j.op = op /\ j.reply = "none"
    BY WorkingType DEF Working, Idle, Steps
  <2>3. ASSUME NEW r PROVE AckOK(j, r)
    BY <2>2 DEF AckOK
  <2>4. calls[c].result \in Results \cup {Rejected, None}
    BY DEF AckInv, Inv, TypeOK, Rows
  <2> HIDE DEF j
  <2>5. CASE Set(w, j) \/ Set(w, Replied(j, "protocol", None))
    BY <2>2, <2>3, <2>5, OneAck, NoAck DEF Replies
  <2>6. CASE Set(w, Replied(j, "replayed", calls[c].result))
    BY <2>1, <2>2, <2>3, <2>4, <2>6, Ack DEF Replies
  <2> QED
    BY <2>1, <2>5, <2>6 DEF j
<1>2. CASE RequestApprovalWrite(w) \/ RequestInputWrite(w)
  <2>1. job[w].step \in {"requestApproval", "requestInput"}
    BY <1>2 DEF RequestApprovalWrite, RequestInputWrite
  <2>2. job[w].call \in Calls /\ job[w].op = job[w].step
    BY <2>1, JobCall DEF AckInv, AcksOK, AckOK
  <2>3. PICK new : CompareAndSet(w, job[w].call, calls[job[w].call].status = "validated", new)
    BY <1>2 DEF RequestApprovalWrite, RequestInputWrite, ApprovalRequestable, InputRequestable
  <2> QED
    BY <2>1, <2>2, <2>3, CompareAndSetAcks DEF WriteSteps
<1> QED
  BY <1>1, <1>2

(* A decision is acknowledged when the row bears it. *)
LEMMA DecisionsAck ==
  ASSUME AckInv, RowsMove, NEW w \in Workers,
         \/ \E c \in Calls, d \in {"approve", "reject"}, id \in ResolutionIds :
              DecisionRead(w, c, d, id)
         \/ DecisionOwner(w) \/ DecisionWrite(w) \/ DecisionReload(w)
  PROVE  AcksOK'
<1>1. ASSUME NEW c \in Calls, NEW d \in {"approve", "reject"}, NEW id \in ResolutionIds,
             DecisionRead(w, c, d, id)
      PROVE  AcksOK'
  <2> DEFINE j == [Working("owner", "decide", c) EXCEPT !.decision = d, !.resolution = id]
  <2>1. /\ j \in Jobs /\ j.step = "owner" /\ j.call = c /\ j.op = "decide"
        /\ j.decision = d /\ j.resolution = id /\ j.reply = "none"
    BY DEF Working, Idle, Jobs, Steps, Replies
  <2>2. calls[c].result \in Results \cup {Rejected, None}
    BY DEF AckInv, Inv, TypeOK, Rows
  <2>3. /\ \/ Set(w, j) \/ Set(w, Replied(j, "protocol", None))
           \/ SameDecision(calls[c], j) /\ Set(w, Replied(j, "replayed", calls[c].result))
           \/ Set(w, Replied(j, "conflict", None))
           \/ Set(w, Replied(j, "state", None))
        /\ UNCHANGED <<calls, effects>>
    BY <1>1 DEF DecisionRead
  <2>4. ASSUME NEW r PROVE AckOK(j, r)
    BY <2>1, Values DEF AckOK
  <2> HIDE DEF j
  <2>5. CASE SameDecision(calls[c], j) /\ Set(w, Replied(j, "replayed", calls[c].result))
    BY <2>1, <2>2, <2>3, <2>4, <2>5, Ack DEF Replies
  <2> QED
    BY <2>1, <2>3, <2>4, <2>5, OneAck, NoAck DEF Replies
<1> DEFINE c == job[w].call
<1>2. ASSUME \/ job[w].step \in {"owner", "record"}
             \/ job[w].step = "reload" /\ job[w].op = "decide"
      PROVE  /\ job[w] \in Jobs /\ c \in Calls /\ job[w].op = "decide"
             /\ AckOK(job[w], calls[c])
  BY <1>2, JobCall DEF AckInv, AcksOK, AckOK
<1>3. CASE DecisionOwner(w)
  <2> DEFINE recording == [job[w] EXCEPT !.step = "record"]
  <2>1. /\ job[w].step = "owner" /\ UNCHANGED <<calls, effects>>
        /\ Set(w, Replied(job[w], "conflict", None)) \/ Set(w, recording)
    BY <1>3 DEF DecisionOwner, Goto
  <2>2. /\ recording \in Jobs /\ recording.step = "record" /\ recording.op = job[w].op
        /\ recording.reply = job[w].reply /\ recording.decision = job[w].decision
        /\ recording.resolution = job[w].resolution /\ recording.payload = job[w].payload
    BY <1>2, <2>1 DEF Jobs, Steps
  <2> HIDE DEF recording
  <2> QED
    BY <1>2, <2>1, <2>2, NoAck, MovesOn DEF Replies
<1>4. CASE DecisionWrite(w)
  <2> DEFINE r == calls[c]
             d == job[w].decision
             id == job[w].resolution
             decided == Decided(r, d, id)
             new == IF d = "approve" THEN [decided EXCEPT !.status = "approved"]
                                     ELSE Resolved(c, decided, Rejected)
             fit == Decidable(r) /\ ~OwnedElsewhere(c, id)
  <2>1. job[w].step = "record" /\ CompareAndSet(w, c, fit, new)
    BY <1>4 DEF DecisionWrite
  <2>2. c \in Calls /\ r \in Rows
    BY <1>2, <2>1 DEF AckInv, Inv, TypeOK
  <2>3. SameDecision(new, job[w])
    BY <2>2 DEF SameDecision, Decided, Resolved, Rows
  <2>4. fit \in BOOLEAN
    BY DEF Decidable, OwnedElsewhere
  <2> HIDE DEF new, fit
  <2> QED
    BY <1>2, <2>1, <2>2, <2>3, <2>4, CompareAndSetAcks DEF WriteSteps
<1>5. CASE DecisionReload(w)
  <2>1. /\ job[w].step = "reload" /\ job[w].op = "decide" /\ UNCHANGED <<calls, effects>>
        /\ \/ Set(w, Replied(job[w], "conflict", None)) \/ Set(w, Replied(job[w], "protocol", None))
           \/ Set(w, Replied(job[w], "state", None))
           \/ /\ SameDecision(calls[c], job[w])
              /\ Set(w, Replied(job[w], "replayed", calls[c].result))
    BY <1>5 DEF DecisionReload
  <2>2. calls[c].result \in Results \cup {Rejected, None}
    BY <1>2, <2>1 DEF AckInv, Inv, TypeOK, Rows
  <2> QED
    BY <1>2, <2>1, <2>2, Ack, NoAck DEF Replies
<1> QED
  BY <1>1, <1>3, <1>4, <1>5

(* An answer is acknowledged when the row bears it. *)
LEMMA AnswersAck ==
  ASSUME AckInv, RowsMove, NEW w \in Workers,
         \/ \E c \in Calls, p \in Results, id \in ResolutionIds : AnswerRead(w, c, p, id)
         \/ AnswerWrite(w) \/ AnswerReload(w)
  PROVE  AcksOK'
<1>1. ASSUME NEW c \in Calls, NEW p \in Results, NEW id \in ResolutionIds,
             AnswerRead(w, c, p, id)
      PROVE  AcksOK'
  <2> DEFINE j == [Working("answer", "answer", c) EXCEPT !.payload = p, !.resolution = id]
  <2>1. /\ j \in Jobs /\ j.step = "answer" /\ j.call = c /\ j.op = "answer"
        /\ j.payload = p /\ j.resolution = id /\ j.reply = "none"
    BY DEF Working, Idle, Jobs, Steps, Replies
  <2>2. /\ \/ Set(w, j) \/ Set(w, Replied(j, "protocol", None))
           \/ SameAnswer(calls[c], j) /\ Set(w, Loaded(j, c, "replayed"))
           \/ Set(w, Replied(j, "conflict", None))
        /\ UNCHANGED <<calls, effects>>
    BY <1>1 DEF AnswerRead
  <2>3. ASSUME NEW r PROVE AckOK(j, r)
    BY <2>1, Values DEF AckOK
  <2> HIDE DEF j
  <2>4. CASE SameAnswer(calls[c], j) /\ Set(w, Loaded(j, c, "replayed"))
    BY <2>1, <2>2, <2>3, <2>4, AckLoaded DEF Replies
  <2> QED
    BY <2>1, <2>2, <2>3, <2>4, OneAck, NoAck DEF Replies
<1> DEFINE c == job[w].call
<1>2. ASSUME \/ job[w].step = "answer"
             \/ job[w].step = "reload" /\ job[w].op = "answer"
      PROVE  /\ job[w] \in Jobs /\ c \in Calls /\ job[w].op = "answer"
             /\ AckOK(job[w], calls[c])
  BY <1>2, JobCall DEF AckInv, AcksOK, AckOK
<1>3. CASE AnswerWrite(w)
  <2> DEFINE r == calls[c]
             answered == [r EXCEPT !.resolution = job[w].resolution]
             new == Resolved(c, answered, job[w].payload)
             fit == Answerable(r) /\ ~OwnedElsewhere(c, job[w].resolution)
  <2>1. job[w].step = "answer" /\ CompareAndSet(w, c, fit, new)
    BY <1>3 DEF AnswerWrite
  <2>2. c \in Calls /\ r \in Rows
    BY <1>2, <2>1 DEF AckInv, Inv, TypeOK
  <2>3. SameAnswer(new, job[w])
    BY <2>2 DEF SameAnswer, Resolved, Rows
  <2>4. fit \in BOOLEAN
    BY DEF Answerable, OwnedElsewhere
  <2> HIDE DEF new, fit
  <2> QED
    BY <1>2, <2>1, <2>2, <2>3, <2>4, CompareAndSetAcks DEF WriteSteps
<1>4. CASE AnswerReload(w)
  <2>1. /\ job[w].step = "reload" /\ job[w].op = "answer" /\ UNCHANGED <<calls, effects>>
        /\ \/ Set(w, Replied(job[w], "conflict", None)) \/ Set(w, Replied(job[w], "protocol", None))
           \/ SameAnswer(calls[c], job[w]) /\ Set(w, Loaded(job[w], c, "replayed"))
    BY <1>4 DEF AnswerReload
  <2> QED
    BY <1>2, <2>1, AckLoaded, NoAck DEF Replies
<1> QED
  BY <1>1, <1>3, <1>4

(* A caller of execute is handed the result that is stored. *)
LEMMA ExecutionsAck ==
  ASSUME AckInv, RowsMove, NEW w \in Workers,
         \/ \E c \in Calls : Dispatch(w, c)
         \/ ExecuteRead(w) \/ ExecuteClaim(w) \/ ExecuteCommit(w) \/ ExecuteRaises(w)
  PROVE  AcksOK'
<1>1. ASSUME NEW c \in Calls, Dispatch(w, c)
      PROVE  AcksOK'
  <2> DEFINE j == Working("execute", "execute", c)
  <2>1. Set(w, j) \/ Set(w, Replied(j, "protocol", None))
    BY <1>1 DEF Dispatch
  <2>2. j \in Jobs /\ j.step = "execute" /\ j.op = "execute" /\ j.reply = "none"
    BY WorkingType DEF Working, Idle, Steps
  <2>3. ASSUME NEW r PROVE AckOK(j, r)
    BY <2>2 DEF AckOK
  <2> HIDE DEF j
  <2> QED
    BY <2>1, <2>2, <2>3, OneAck, NoAck DEF Replies
<1> DEFINE c == job[w].call
           r == calls[c]
<1>2. ASSUME job[w].step \in {"execute", "claim", "invoke"}
      PROVE  /\ job[w] \in Jobs /\ c \in Calls /\ r \in Rows /\ job[w].op = "execute"
             /\ job[w].reply = "none" /\ AckOK(job[w], r)
  BY <1>2, JobCall DEF AckInv, AcksOK, AckOK
<1>3. CASE ExecuteRead(w)
  <2> DEFINE claiming == [job[w] EXCEPT !.step = "claim", !.from = r.status,
                                        !.decision = r.decision, !.resolution = r.resolution]
  <2>1. /\ job[w].step = "execute" /\ UNCHANGED <<calls, effects>>
        /\ \/ Set(w, Replied(job[w], "protocol", None))
           \/ r.status = "resolved" /\ Set(w, Replied(job[w], "replayed", r.result))
           \/ r.status \in {"validated", "approved"} /\ Set(w, claiming)
    BY <1>3 DEF ExecuteRead
  <2>2. r.result \in Results \cup {Rejected, None}
    BY <1>2, <2>1 DEF Rows
  <2>3. CASE r.status \in {"validated", "approved"} /\ Set(w, claiming)
    <3>1. /\ claiming \in Jobs /\ claiming.step = "claim" /\ claiming.op = "execute"
          /\ claiming.reply = job[w].reply /\ claiming.payload = job[w].payload
      BY <1>2, <2>1, <2>3 DEF Jobs, Steps, Rows
    <3> HIDE DEF claiming
    <3> QED
      BY <1>2, <2>1, <2>3, <3>1, MovesOn
  <2> HIDE DEF claiming
  <2> QED
    BY <1>2, <2>1, <2>2, <2>3, Ack, NoAck DEF Replies
<1>4. CASE ExecuteClaim(w)
  <2>1. PICK step \in {"invoke", "reload"} : Set(w, [job[w] EXCEPT !.step = step])
    BY <1>4 DEF ExecuteClaim, Goto
  <2> DEFINE j == [job[w] EXCEPT !.step = step]
  <2>2. job[w].step = "claim"
    BY <1>4 DEF ExecuteClaim
  <2>3. /\ j \in Jobs /\ j.step = step /\ j.op = "execute"
        /\ j.reply = job[w].reply /\ j.payload = job[w].payload
    BY <1>2, <2>2 DEF Jobs, Steps
  <2> HIDE DEF j
  <2> QED
    BY <1>2, <2>1, <2>2, <2>3, MovesOn DEF j
<1>5. CASE ExecuteCommit(w)
  <2>1. PICK p \in Results :
          /\ calls' = [calls EXCEPT ![c] =
                         Resolved(c, Decided(@, job[w].decision, job[w].resolution), p)]
          /\ Set(w, Replied(job[w], "fresh", p))
    BY <1>5 DEF ExecuteCommit
  <2> DEFINE k == Replied(job[w], "fresh", p)
  <2>2. job[w].step = "invoke"
    BY <1>5 DEF ExecuteCommit
  <2>3. calls'[c].status = "resolved" /\ calls'[c].result = p
    BY <1>2, <2>1, <2>2 DEF AckInv, Inv, TypeOK, Resolved, Decided, Rows
  <2>4. /\ k.step = "done" /\ k.op = "execute" /\ k.call = c /\ k.result = p
    BY <1>2, <2>2 DEF Replied, Jobs
  <2>5. AckOK(k, calls'[k.call])
    <3> HIDE DEF k
    <3> QED
      BY <2>3, <2>4 DEF AckOK
  <2> HIDE DEF k
  <2> QED
    BY <2>1, <2>5, OneAck DEF k
<1>6. CASE ExecuteRaises(w)
  BY <1>2, <1>6, NoAck DEF ExecuteRaises, Replies
<1> QED
  BY <1>1, <1>3, <1>4, <1>5, <1>6

(* What is read back after a write is what was written. *)
LEMMA EndingsAck ==
  ASSUME AckInv, RowsMove, NEW w \in Workers,
         CallReload(w) \/ ResultReload(w) \/ Busy(w) \/ Abort(w)
  PROVE  AcksOK'
<1> DEFINE c == job[w].call
<1>1. ASSUME job[w].step \in WriteSteps \cup {"reload"}
      PROVE  job[w] \in Jobs /\ c \in Calls /\ AckOK(job[w], calls[c])
  BY <1>1, JobCall DEF AckInv, AcksOK, WriteSteps
<1>2. CASE CallReload(w)
  <2>1. /\ job[w].step = "reload" /\ UNCHANGED <<calls, effects>>
        /\ \/ job[w].op \in {"prepare", "requestApproval", "requestInput"}
           \/ job[w].op = "decide" /\ job[w].claimed
        /\ \/ Set(w, Replied(job[w], "protocol", None))
           \/ Set(w, Loaded(job[w], c, "fresh"))
           \/ Set(w, Loaded(job[w], c, "replayed"))
    BY <1>2 DEF CallReload
  <2>2. job[w].op = "decide" => SameDecision(calls[c], job[w])
    BY <1>1, <2>1 DEF AckOK
  <2> QED
    BY <1>1, <2>1, <2>2, AckLoaded, NoAck DEF Replies
<1>3. CASE ResultReload(w)
  <2>1. /\ job[w].step = "reload" /\ UNCHANGED <<calls, effects>>
        /\ job[w].op = "execute" \/ (job[w].op = "answer" /\ job[w].claimed)
        /\ \/ Set(w, Replied(job[w], "protocol", None))
           \/ /\ calls[c].status = "resolved"
              /\ Set(w, Loaded(job[w], c, "fresh")) \/ Set(w, Loaded(job[w], c, "replayed"))
    BY <1>3 DEF ResultReload
  <2>2. job[w].op = "answer" => SameAnswer(calls[c], job[w])
    BY <1>1, <2>1 DEF AckOK
  <2> QED
    BY <1>1, <2>1, <2>2, AckLoaded, NoAck DEF Replies
<1>4. CASE Busy(w)
  BY <1>1, <1>4, NoAck DEF Busy, Replies
<1>5. CASE Abort(w)
  <2>1. Set(w, Idle)
    BY <1>5 DEF Abort
  <2>2. ASSUME NEW r PROVE AckOK(Idle, r)
    BY DEF AckOK, Idle
  <2> QED
    BY <2>1, <2>2, OneAck
<1> QED
  BY <1>2, <1>3, <1>4, <1>5

(* No step takes back a reply, or the columns it rests on. *)
LEMMA NextKeepsAckInv ==
  ASSUME AckInv, [Next]_vars, Inv'
  PROVE  AckInv'
<1>1. RowsMove
  BY NextMovesRows DEF AckInv
<1>2. Unwritten' /\ ResolutionIdsUnique'
  BY <1>1, RowsMoveKeepsIds DEF AckInv
<1>3. ASSUME NEW w \in Workers, Begin(w)
      PROVE  AcksOK'
  BY <1>1, <1>3, PreparationAcks, RequestsAck, DecisionsAck, AnswersAck, ExecutionsAck
  DEF Begin
<1>4. ASSUME NEW w \in Workers, Step(w)
      PROVE  AcksOK'
  BY <1>1, <1>4, PreparationAcks, RequestsAck, DecisionsAck, AnswersAck, ExecutionsAck,
     EndingsAck DEF Step
<1>5. ASSUME NEW w \in Workers, Abort(w)
      PROVE  AcksOK'
  BY <1>1, <1>5, EndingsAck
<1>6. ASSUME job' = job
      PROVE  AcksOK'
  BY <1>1, <1>6, AcksStand DEF AckInv, AcksOK
<1>7. AcksOK'
  BY <1>3, <1>4, <1>5, <1>6 DEF Next, Consume, vars
<1> QED
  BY <1>2, <1>7 DEF AckInv

(* The invariant of rows, jobs and replies holds at first and in every step. *)
THEOREM AckInvHolds == Spec => []AckInv
<1>1. Init => Unwritten /\ ResolutionIdsUnique /\ AcksOK
  BY DEF Init, Unwritten, ResolutionIdsUnique, AcksOK, AckOK, NoRow, Idle
<1>2. (Unwritten /\ ResolutionIdsUnique /\ AcksOK) /\ Inv /\ Inv' /\ [Next]_vars
        => (Unwritten /\ ResolutionIdsUnique /\ AcksOK)'
  BY NextKeepsAckInv DEF AckInv
<1>3. AckInv <=> Inv /\ (Unwritten /\ ResolutionIdsUnique /\ AcksOK)
  BY DEF AckInv
<1> QED
  BY <1>1, <1>2, <1>3, InvHolds, PTL DEF Spec

(* A client_resolution_id settles at most one call of a conversation,      *)
(* though two services look for its owner before they write.               *)
THEOREM ResolutionIdsStayUnique == Spec => []ResolutionIdsUnique
<1>1. AckInv => ResolutionIdsUnique
  BY DEF AckInv
<1> QED
  BY <1>1, AckInvHolds, PTL

(* Whoever was told that a decision stands finds it on the call: freshly,  *)
(* replayed, or after losing the race for the row.                         *)
THEOREM DecisionRepliesStand == Spec => []AcknowledgedDecisionStands
<1>1. AckInv => AcknowledgedDecisionStands
  BY DEF AckInv, AcksOK, AckOK, AcknowledgedDecisionStands
<1> QED
  BY <1>1, AckInvHolds, PTL

(* Whoever was told that an answer stands finds it as the result.          *)
THEOREM AnswerRepliesStand == Spec => []AcknowledgedAnswerStands
<1>1. AckInv => AcknowledgedAnswerStands
  BY DEF AckInv, AcksOK, AckOK, AcknowledgedAnswerStands
<1> QED
  BY <1>1, AckInvHolds, PTL

(* A result that a caller of execute was handed is the durable one.        *)
THEOREM ExecutionRepliesStand == Spec => []ExecutionReplyDurable
<1>1. AckInv => ExecutionReplyDurable
  BY DEF AckInv, AcksOK, AckOK, ExecutionReplyDurable
<1> QED
  BY <1>1, AckInvHolds, PTL

(* No service changes or removes a column that another, or the same one in *)
(* an earlier life, has set.                                               *)
THEOREM ColumnsAreWrittenOnce == Spec => WrittenOnce
<1> DEFINE Once(c) ==
             /\ calls[c].status # "absent" => calls'[c].arguments = calls[c].arguments
             /\ calls[c].decision # None => calls'[c].decision = calls[c].decision
             /\ calls[c].resolution # None => calls'[c].resolution = calls[c].resolution
             /\ calls[c].result # None => calls'[c].result = calls[c].result
             /\ calls[c].delivery = "consumed" => calls'[c].delivery = "consumed"
<1>1. AckInv /\ [Next]_vars => [\A c \in Calls : Once(c)]_vars
  <2> SUFFICES ASSUME AckInv, [Next]_vars, NEW o \in Calls
               PROVE  Once(o)
    OBVIOUS
  <2>1. RowsMove
    BY NextMovesRows DEF AckInv
  <2>2. calls'[o] = calls[o] \/ Stays(calls[o], calls'[o])
    BY <2>1 DEF RowsMove, RowMoves, AckInv, Inv, TypeOK
  <2> QED
    BY <2>2 DEF Stays
<1> HIDE DEF Once
<1>2. Spec => [][\A c \in Calls : Once(c)]_vars
  BY <1>1, AckInvHolds, PTL DEF Spec
<1> QED
  BY <1>2 DEF WrittenOnce, Once

-----------------------------------------------------------------------------
(* The services implement the contract.                                    *)

(* The initial states of the services are initial states of the contract. *)
LEMMA ContractBegins == Init => Contract!Init
BY DEF Init, NoRow, Contract!Init

(* Every move of a row is a step of the contract, or invisible to it. *)
LEMMA ContractSteps ==
  ASSUME Inv, RowsMove
  PROVE  [Contract!Next]_(Contract!vars)
<1> DEFINE verdict == [c \in Calls |-> calls[c].decision]
           outcome == [c \in Calls |-> calls[c].result]
<1>1. CASE UNCHANGED <<calls, effects>>
  BY <1>1 DEF Contract!vars
<1>2. ASSUME NEW c \in Calls, NEW s \in Rows, NEW f \in Nat,
             calls' = [calls EXCEPT ![c] = s], effects' = [effects EXCEPT ![c] = f],
             Settles(c, calls[c], s, effects[c], f)
      PROVE  [Contract!Next]_(Contract!vars)
  <2> DEFINE r == calls[c]
  <2>1. /\ verdict[c] = r.decision /\ outcome[c] = r.result
        /\ verdict' = [verdict EXCEPT ![c] = s.decision]
        /\ outcome' = [outcome EXCEPT ![c] = s.result]
        /\ effects[c] \in Nat /\ effects \in [Calls -> Nat]
    BY <1>2 DEF Inv, TypeOK
  <2>2. CASE s.decision = r.decision
    <3>1. verdict' = verdict
      BY <2>1, <2>2
    <3>2. CASE s.result = r.result /\ f = effects[c]
      BY <1>2, <2>1, <3>1, <3>2 DEF Contract!vars
    <3>3. CASE r.decision = None /\ r.result = None /\ f = effects[c] /\ s.result \in Results
      <4>1. Contract!Supply(c, s.result)
        BY <1>2, <2>1, <3>1, <3>3 DEF Contract!Supply, Contract!Open
      <4> QED
        BY <4>1, <3>3 DEF Contract!Next
    <3>4. CASE /\ r.result = None /\ s.result \in Results /\ effects[c] = 0 /\ f = 1
               /\ c \in Guarded => r.decision = "approve"
      <4>1. Contract!Apply(c, s.result)
        BY <1>2, <2>1, <3>1, <3>4 DEF Contract!Apply, Contract!Open
      <4> QED
        BY <4>1, <3>4 DEF Contract!Next
    <3> QED
      BY <1>2, <2>2, <3>2, <3>3, <3>4, Values DEF Settles
  <2>3. CASE s.decision # r.decision
    <3>1. /\ r.decision = None /\ r.result = None /\ f = effects[c]
          /\ \/ s.decision = "approve" /\ s.result = None
             \/ s.decision = "reject" /\ s.result = Rejected
      BY <1>2, <2>3 DEF Settles
    <3>2. effects' = effects
      BY <1>2, <2>1, <3>1
    <3>3. Contract!Approve(c) \/ Contract!Reject(c)
      BY <2>1, <3>1, <3>2 DEF Contract!Approve, Contract!Reject, Contract!Open
    <3> QED
      BY <3>3 DEF Contract!Next
  <2> QED
    BY <2>2, <2>3
<1> QED
  BY <1>1, <1>2 DEF RowsMove, RowMoves

(* Every interleaving of the services, with any cancellation or timeout of *)
(* them, is a behaviour of the contract.                                   *)
THEOREM ServicesImplementContract == Spec => ImplementsContract
<1>1. AckInv /\ [Next]_vars => [Contract!Next]_(Contract!vars)
  BY NextMovesRows, ContractSteps DEF AckInv
<1> QED
  BY <1>1, ContractBegins, AckInvHolds, PTL DEF Spec, ImplementsContract, Contract!Spec

=============================================================================
