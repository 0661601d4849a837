------------------------------ MODULE ToolCalls ------------------------------
(***************************************************************************)
(* The durable life of the tool calls of one conversation                  *)
(* (app/workflow_runtime/tools and app/ai_chat/persistence).  Every        *)
(* service works the same way: it opens a session, reads the row outside   *)
(* the write lock of SQLite, checks it, issues a compare-and-set UPDATE    *)
(* that names the status it expects, commits or rolls back, and, when the  *)
(* UPDATE did not match, reads the row again in a new session to answer.   *)
(* Workers are the request handlers and graph nodes that run these         *)
(* services at the same time; each step below is what one of them does     *)
(* between two points where another may run.                               *)
(***************************************************************************)
EXTENDS Naturals, FiniteSets

CONSTANTS
  Calls,          \* stable identities (run/index or run/identity) of the conversation
  Workers,        \* concurrent callers of the lifecycle services
  ResolutionIds,  \* client_resolution_id values clients send
  Arguments,      \* opaque call arguments
  Results,        \* opaque results of tools and answers of users
  Guarded,        \* calls of a tool whose risk the policy routes to approval
  Asked,          \* calls of a tool that waits for external input
  SystemCalls,    \* calls with requested_by_model = False
  None,           \* SQL NULL
  Rejected        \* the payload {"outcome": "rejected"}

ASSUME Routes == /\ Guarded \subseteq Calls
                 /\ Asked \subseteq Calls \ Guarded
                 /\ SystemCalls \subseteq Calls
ASSUME Values == /\ None \notin ResolutionIds \cup Arguments \cup Results \cup Workers
                 /\ None \notin {"approve", "reject", "pending", "consumed", "validated", "approved"}
                 /\ Rejected \notin Results
                 /\ None # Rejected

VARIABLES
  calls,    \* the committed rows of ai_chat_tool_calls
  lock,     \* the worker whose open transaction holds the write lock, or None
  job,      \* what each worker is doing, with what it has read so far
  effects   \* how often the business effect of a call has been committed

vars == <<calls, lock, job, effects>>

----------------------------------------------------------------------------
(* Rows.  "executing" is only ever written inside a transaction that also  *)
(* resolves the call; a row is "absent" until it is materialized.          *)

Statuses == {"absent", "received", "validated", "awaiting_approval",
             "awaiting_input", "approved", "executing", "resolved"}

Rows == [status: Statuses, arguments: Arguments \cup {None}, trusted: BOOLEAN,
         decision: {"approve", "reject", None},
         resolution: ResolutionIds \cup {None},
         result: Results \cup {Rejected, None},
         delivery: {"pending", "consumed", None}]

NoRow == [status |-> "absent", arguments |-> None, trusted |-> FALSE, decision |-> None,
          resolution |-> None, result |-> None, delivery |-> None]

Received(args) == [NoRow EXCEPT !.status = "received", !.arguments = args]

(* mutant: a system call gets a delivery state the schema does not know *)
DeliveryNotRequired(c) == IF c \in SystemCalls THEN "not_required" ELSE "pending"

Delivery(c) == IF c \in SystemCalls THEN "consumed" ELSE "pending"

Resolved(c, r, p) ==
  [r EXCEPT !.status = "resolved", !.result = p, !.delivery = Delivery(c)]

Validated(r) == [r EXCEPT !.status = "validated", !.trusted = TRUE]

Decided(r, d, id) == [r EXCEPT !.decision = d, !.resolution = id]

(* What validate_tool_call_record accepts: no column contradicts another. *)
ConsistentRecord(c, r) ==
  /\ r.status = "received" =>
       /\ ~r.trusted
       /\ <<r.decision, r.resolution, r.result, r.delivery>> = <<None, None, None, None>>
  /\ r.status \in {"validated", "awaiting_approval", "awaiting_input", "approved"} =>
       r.trusted /\ r.result = None
  /\ r.status \in {"validated", "awaiting_approval", "awaiting_input"} =>
       r.decision = None /\ r.resolution = None
  /\ r.status = "approved" => r.decision = "approve" /\ r.resolution # None
  /\ r.status = "resolved" =>
       /\ r.result # None
       /\ r.decision # None => r.trusted /\ r.resolution # None
       /\ r.delivery \in {"pending", "consumed"}
       /\ c \in SystemCalls => r.delivery = "consumed"
  /\ r.status # "resolved" => r.delivery = None

(* tool_call_from_record succeeds; otherwise the reader gets ToolProtocolError. *)
Loadable(c, r) ==
  /\ r.status \in {"validated", "awaiting_approval", "awaiting_input", "approved", "resolved"}
  /\ ConsistentRecord(c, r)

(* Another call of the conversation already carries the resolution id. *)
OwnedElsewhere(c, id) == \E o \in Calls \ {c} : calls[o].resolution = id

----------------------------------------------------------------------------
(* The WHERE clauses of the compare-and-set updates of ToolCallRepository. *)

Preparable(r) == r.status = "received"

ApprovalRequestable(r) == r.status = "validated"

InputRequestable(r) == r.status = "validated"

Decidable(r) == r.status = "awaiting_approval" /\ r.resolution = None

(* mutant: an UPDATE by id alone *)
AnswerableById(r) == r.status # "absent"

Answerable(r) == r.status = "awaiting_input" /\ r.resolution = None

(* mutant: the claim does not look at the status at all *)
ClaimableById(r, from) == r.status # "absent"

Claimable(r, from) == r.status = from

----------------------------------------------------------------------------
(* Jobs.                                                                   *)

Steps == {"idle", "prepare", "save", "requestApproval", "requestInput", "owner", "record",
          "answer", "execute", "claim", "invoke", "reload", "done"}

WriteSteps == {"save", "requestApproval", "requestInput", "record", "answer", "claim"}

Replies == {"none", "fresh", "replayed", "conflict", "state", "protocol", "raised"}

Jobs == [step: Steps,
         op: {"none", "prepare", "requestApproval", "requestInput", "decide", "answer", "execute"},
         call: Calls \cup {None},
         decision: {"approve", "reject", None},
         resolution: ResolutionIds \cup {None},
         payload: Results \cup {None},
         from: {"validated", "approved", None},
         claimed: BOOLEAN,
         reply: Replies,
         result: Results \cup {Rejected, None}]

Idle == [step |-> "idle", op |-> "none", call |-> None, decision |-> None,
         resolution |-> None, payload |-> None, from |-> None, claimed |-> FALSE,
         reply |-> "none", result |-> None]

Working(step, op, c) == [Idle EXCEPT !.step = step, !.op = op, !.call = c]

Replied(j, reply, result) ==
  [j EXCEPT !.step = "done", !.reply = reply, !.result = result,
            !.from = None, !.claimed = FALSE]

(* The answer of a reader of the whole row: its result, or ToolProtocolError. *)
Loaded(j, c, reply) ==
  IF Loadable(c, calls[c]) THEN Replied(j, reply, calls[c].result)
                           ELSE Replied(j, "protocol", None)

Free(w) == job[w].step \in {"idle", "done"}

Set(w, j) == job' = [job EXCEPT ![w] = j]

Goto(w, step) == Set(w, [job[w] EXCEPT !.step = step])

(* UPDATE ... WHERE, then commit if it matched and rollback if it did not;  *)
(* a violated UNIQUE constraint is a failed claim as well.                  *)
CompareAndSet(w, c, matches, new) ==
  /\ lock = None
  /\ calls' = IF matches THEN [calls EXCEPT ![c] = new] ELSE calls
  /\ Set(w, [job[w] EXCEPT !.step = "reload", !.claimed = matches])
  /\ UNCHANGED <<lock, effects>>

Init ==
  /\ calls = [c \in Calls |-> NoRow]
  /\ lock = None
  /\ job = [w \in Workers |-> Idle]
  /\ effects = [c \in Calls |-> 0]

----------------------------------------------------------------------------
(* validate_call and validate_system_call: INSERT ... ON CONFLICT DO        *)
(* NOTHING under a stable identity, then _prepare_materialized.             *)

Materialize(w, c, args) ==
  /\ Free(w)
  /\ lock = None
  /\ LET durable == IF calls[c].status = "absent" THEN Received(args) ELSE calls[c]
         j == Working("prepare", "prepare", c)
     IN /\ calls' = [calls EXCEPT ![c] = durable]
        /\ Set(w, IF durable.arguments = args THEN j ELSE Replied(j, "conflict", None))
  /\ UNCHANGED <<lock, effects>>

PrepareRead(w) ==
  LET c == job[w].call IN
  /\ job[w].step = "prepare"
  /\ Set(w, IF calls[c].status # "received" THEN Loaded(job[w], c, "replayed")
            ELSE IF ConsistentRecord(c, calls[c]) THEN [job[w] EXCEPT !.step = "save"]
            ELSE Replied(job[w], "protocol", None))
  /\ UNCHANGED <<calls, lock, effects>>

(* The business preparation yields trusted data (save_validation), or a     *)
(* final result (resolve_received) ...                                      *)
SavePrepared(w) ==
  LET c == job[w].call
      r == calls[c]
  IN /\ job[w].step = "save"
     /\ \E new \in {Validated(r)} \cup {Resolved(c, r, p) : p \in Results} :
          CompareAndSet(w, c, Preparable(r), new)

(* ... or raises: the schema rejects the arguments, the target is gone.     *)
PrepareRaises(w) ==
  /\ job[w].step = "save"
  /\ Set(w, Replied(job[w], "raised", None))
  /\ UNCHANGED <<calls, lock, effects>>

----------------------------------------------------------------------------
(* ToolApprovalService.request and ToolInputService.request, called by the  *)
(* approver node for guarded tools and by plan_questions for asked ones.    *)

RequestApprovalRead(w, c) ==
  LET r == calls[c]
      j == Working("requestApproval", "requestApproval", c)
  IN /\ Free(w)
     /\ c \in Guarded
     /\ r.status # "absent"
     /\ Set(w, IF ~Loadable(c, r) THEN Replied(j, "protocol", None)
               ELSE IF r.status = "validated" THEN j
               ELSE IF r.status \in {"awaiting_approval", "approved", "resolved"}
                 THEN Replied(j, "replayed", r.result)
               ELSE Replied(j, "protocol", None))
     /\ UNCHANGED <<calls, lock, effects>>

RequestApprovalWrite(w) ==
  LET c == job[w].call IN
  /\ job[w].step = "requestApproval"
  /\ CompareAndSet(w, c, ApprovalRequestable(calls[c]),
                   [calls[c] EXCEPT !.status = "awaiting_approval"])

RequestInputRead(w, c) ==
  LET r == calls[c]
      j == Working("requestInput", "requestInput", c)
  IN /\ Free(w)
     /\ c \in Asked
     /\ r.status # "absent"
     /\ Set(w, IF ~Loadable(c, r) THEN Replied(j, "protocol", None)
               ELSE IF r.status = "validated" THEN j
               ELSE IF r.status \in {"awaiting_input", "resolved"}
                 THEN Replied(j, "replayed", r.result)
               ELSE Replied(j, "protocol", None))
     /\ UNCHANGED <<calls, lock, effects>>

RequestInputWrite(w) ==
  LET c == job[w].call IN
  /\ job[w].step = "requestInput"
  /\ CompareAndSet(w, c, InputRequestable(calls[c]),
                   [calls[c] EXCEPT !.status = "awaiting_input"])

----------------------------------------------------------------------------
(* ToolApprovalService.record_decision.                                     *)

SameDecision(r, j) == r.decision = j.decision /\ r.resolution = j.resolution

(* mutant: replays whatever decision the call has *)
DecisionReadAnyReplay(w, c, d, id) ==
  LET r == calls[c]
      j == [Working("owner", "decide", c) EXCEPT !.decision = d, !.resolution = id]
  IN /\ Free(w)
     /\ r.status # "absent"
     /\ Set(w, IF ~Loadable(c, r) THEN Replied(j, "protocol", None)
               ELSE IF r.status \in {"approved", "resolved"}
                 THEN Replied(j, "replayed", r.result)
               ELSE IF r.status = "awaiting_approval" THEN j
               ELSE Replied(j, "state", None))
     /\ UNCHANGED <<calls, lock, effects>>

DecisionRead(w, c, d, id) ==
  LET r == calls[c]
      j == [Working("owner", "decide", c) EXCEPT !.decision = d, !.resolution = id]
  IN /\ Free(w)
     /\ r.status # "absent"
     /\ Set(w, IF ~Loadable(c, r) THEN Replied(j, "protocol", None)
               ELSE IF r.status \in {"approved", "resolved"}
                 THEN IF SameDecision(r, j) THEN Replied(j, "replayed", r.result)
                                            ELSE Replied(j, "conflict", None)
               ELSE IF r.status = "awaiting_approval" THEN j
               ELSE Replied(j, "state", None))
     /\ UNCHANGED <<calls, lock, effects>>

DecisionOwner(w) ==
  /\ job[w].step = "owner"
  /\ IF OwnedElsewhere(job[w].call, job[w].resolution)
       THEN Set(w, Replied(job[w], "conflict", None))
       ELSE Goto(w, "record")
  /\ UNCHANGED <<calls, lock, effects>>

(* mutant: the UNIQUE constraint on the resolution id is missing *)
DecisionWriteNotUnique(w) ==
  LET c == job[w].call
      decided == Decided(calls[c], job[w].decision, job[w].resolution)
  IN /\ job[w].step = "record"
     /\ CompareAndSet(w, c, Decidable(calls[c]),
                      IF job[w].decision = "approve"
                        THEN [decided EXCEPT !.status = "approved"]
                        ELSE Resolved(c, decided, Rejected))

(* mutant: a rejection forgets to resolve the call *)
DecisionWriteRejectOpen(w) ==
  LET c == job[w].call IN
  /\ job[w].step = "record"
  /\ CompareAndSet(w, c, Decidable(calls[c]) /\ ~OwnedElsewhere(c, job[w].resolution),
                   [Decided(calls[c], job[w].decision, job[w].resolution)
                      EXCEPT !.status = "approved"])

DecisionWrite(w) ==
  LET c == job[w].call
      decided == Decided(calls[c], job[w].decision, job[w].resolution)
  IN /\ job[w].step = "record"
     /\ CompareAndSet(w, c, Decidable(calls[c]) /\ ~OwnedElsewhere(c, job[w].resolution),
                      IF job[w].decision = "approve"
                        THEN [decided EXCEPT !.status = "approved"]
                        ELSE Resolved(c, decided, Rejected))

(* _reload_decision, after a lost race.  Its two SELECTs are one step: the  *)
(* claim failed because the call was decided or the id taken, both for good. *)
DecisionReload(w) ==
  LET j == job[w]
      c == j.call
      r == calls[c]
  IN /\ j.step = "reload" /\ j.op = "decide" /\ ~j.claimed
     /\ Set(w, IF OwnedElsewhere(c, j.resolution) THEN Replied(j, "conflict", None)
               ELSE IF ~Loadable(c, r) THEN Replied(j, "protocol", None)
               ELSE IF r.status \notin {"approved", "resolved"} THEN Replied(j, "state", None)
               ELSE IF SameDecision(r, j) THEN Replied(j, "replayed", r.result)
               ELSE Replied(j, "conflict", None))
     /\ UNCHANGED <<calls, lock, effects>>

----------------------------------------------------------------------------
(* ToolInputService.resolve.                                                *)

SameAnswer(r, j) == r.resolution = j.resolution /\ r.result = j.payload

AnswerRead(w, c, p, id) ==
  LET r == calls[c]
      j == [Working("answer", "answer", c) EXCEPT !.payload = p, !.resolution = id]
  IN /\ Free(w)
     /\ r.status # "absent"
     /\ Set(w, IF r.status = "resolved"
                 THEN IF SameAnswer(r, j) THEN Loaded(j, c, "replayed")
                                          ELSE Replied(j, "conflict", None)
               ELSE IF r.status = "awaiting_input" THEN j
               ELSE Replied(j, "protocol", None))
     /\ UNCHANGED <<calls, lock, effects>>

AnswerWrite(w) ==
  LET c == job[w].call
      answered == [calls[c] EXCEPT !.resolution = job[w].resolution]
  IN /\ job[w].step = "answer"
     /\ CompareAndSet(w, c, Answerable(calls[c]) /\ ~OwnedElsewhere(c, job[w].resolution),
                      Resolved(c, answered, job[w].payload))

(* mutant: a lost race answers with the stored result without comparing it *)
AnswerReloadUnchecked(w) ==
  LET j == job[w]
      c == j.call
  IN /\ j.step = "reload" /\ j.op = "answer" /\ ~j.claimed
     /\ Set(w, IF calls[c].status # "resolved" THEN Replied(j, "protocol", None)
               ELSE Loaded(j, c, "replayed"))
     /\ UNCHANGED <<calls, lock, effects>>

(* mutant: a lost race is tried again *)
AnswerReloadRetries(w) ==
  /\ job[w].step = "reload" /\ job[w].op = "answer" /\ ~job[w].claimed
  /\ Goto(w, "answer")
  /\ UNCHANGED <<calls, lock, effects>>

(* load_tool_result, then the comparison in a second session; one step, as  *)
(* a resolved row changes no column they look at.                           *)
AnswerReload(w) ==
  LET j == job[w]
      c == j.call
  IN /\ j.step = "reload" /\ j.op = "answer" /\ ~j.claimed
     /\ Set(w, IF calls[c].status # "resolved" THEN Replied(j, "protocol", None)
               ELSE IF SameAnswer(calls[c], j) THEN Loaded(j, c, "replayed")
               ELSE Replied(j, "conflict", None))
     /\ UNCHANGED <<calls, lock, effects>>

----------------------------------------------------------------------------
(* The executor node and ToolExecutionService.execute.                      *)

(* _durable_call and the check of the executor node: only an approved call, *)
(* a resolved one (to replay), or a validated one that the policy routes to *)
(* execution may go on; execute itself does not look at the risk.           *)
DispatchUnrouted(w, c) ==    \* mutant: any validated call may be executed
  LET r == calls[c]
      j == Working("execute", "execute", c)
  IN /\ Free(w)
     /\ c \notin Asked
     /\ r.status # "absent"
     /\ Set(w, IF ~Loadable(c, r) \/ r.status = "awaiting_approval"
                 THEN Replied(j, "protocol", None)
               ELSE j)
     /\ UNCHANGED <<calls, lock, effects>>

Dispatch(w, c) ==
  LET r == calls[c]
      j == Working("execute", "execute", c)
  IN /\ Free(w)
     /\ c \notin Asked
     /\ r.status # "absent"
     /\ Set(w, IF \/ ~Loadable(c, r)
                  \/ r.status \notin {"approved", "resolved"}
                     /\ ~(r.status = "validated" /\ c \notin Guarded)
                 THEN Replied(j, "protocol", None)
               ELSE j)
     /\ UNCHANGED <<calls, lock, effects>>

ExecuteRead(w) ==
  LET c == job[w].call
      r == calls[c]
  IN /\ job[w].step = "execute"
     /\ Set(w, IF ~Loadable(c, r) THEN Replied(job[w], "protocol", None)
               ELSE IF r.status = "resolved" THEN Replied(job[w], "replayed", r.result)
               ELSE IF r.status \notin {"validated", "approved"}
                 THEN Replied(job[w], "protocol", None)
               ELSE [job[w] EXCEPT !.step = "claim", !.from = r.status,
                                   !.decision = r.decision, !.resolution = r.resolution])
     /\ UNCHANGED <<calls, lock, effects>>

(* claim_execution opens the write transaction that runs the tool. *)
ExecuteClaim(w) ==
  /\ job[w].step = "claim"
  /\ lock = None
  /\ IF Claimable(calls[job[w].call], job[w].from)
       THEN lock' = w /\ Goto(w, "invoke")
       ELSE lock' = lock /\ Goto(w, "reload")
  /\ UNCHANGED <<calls, effects>>

(* mutant: the effect is kept when the result cannot be stored *)
ExecuteRaisesAfterEffect(w) ==
  LET c == job[w].call IN
  /\ job[w].step = "invoke"
  /\ lock' = None
  /\ effects' = [effects EXCEPT ![c] = @ + 1]
  /\ Set(w, Replied(job[w], "raised", None))
  /\ UNCHANGED calls

(* The effect of the tool and the resolved row commit together. *)
ExecuteCommit(w) ==
  LET c == job[w].call IN
  /\ job[w].step = "invoke"
  /\ \E p \in Results :
       /\ calls' = [calls EXCEPT ![c] =
                      Resolved(c, Decided(@, job[w].decision, job[w].resolution), p)]
       /\ Set(w, Replied(job[w], "fresh", p))
  /\ effects' = [effects EXCEPT ![c] = @ + 1]
  /\ lock' = None

(* tool.invoke raises, or its result cannot be stored: rollback of both. *)
ExecuteRaises(w) ==
  /\ job[w].step = "invoke"
  /\ lock' = None
  /\ Set(w, Replied(job[w], "raised", None))
  /\ UNCHANGED <<calls, effects>>

----------------------------------------------------------------------------
(* load_tool_call after a request, a preparation or a recorded decision. *)
CallReload(w) ==
  LET j == job[w]
      c == j.call
      reply == IF j.claimed THEN "fresh" ELSE "replayed"
  IN /\ j.step = "reload"
     /\ \/ j.op \in {"prepare", "requestApproval", "requestInput"}
        \/ j.op = "decide" /\ j.claimed
     /\ Set(w, IF j.op = "requestApproval"
                   /\ calls[c].status \notin {"awaiting_approval", "approved", "resolved"}
                 THEN Replied(j, "protocol", None)
               ELSE Loaded(j, c, reply))
     /\ UNCHANGED <<calls, lock, effects>>

(* load_tool_result after an answer that was stored or a lost execution claim. *)
ResultReload(w) ==
  LET j == job[w]
      c == j.call
  IN /\ j.step = "reload"
     /\ (j.op = "execute" \/ (j.op = "answer" /\ j.claimed))
     /\ Set(w, IF calls[c].status # "resolved" THEN Replied(j, "protocol", None)
               ELSE Loaded(j, c, IF j.claimed THEN "fresh" ELSE "replayed"))
     /\ UNCHANGED <<calls, lock, effects>>

(* ToolResultDeliveryService.consume and consume_results of a settled run. *)
Consume(c) ==
  /\ lock = None
  /\ calls[c].status = "resolved"
  /\ calls[c].delivery = "pending"
  /\ calls' = [calls EXCEPT ![c].delivery = "consumed"]
  /\ UNCHANGED <<lock, job, effects>>

(* busy_timeout: a writer that waits too long for the lock gets an error. *)
Busy(w) ==
  /\ job[w].step \in WriteSteps
  /\ lock # None
  /\ Set(w, Replied(job[w], "raised", None))
  /\ UNCHANGED <<calls, lock, effects>>

(* A request is cancelled, or its process dies, between any two steps; an  *)
(* open transaction is rolled back, a commit that happened stays.          *)
Abort(w) ==
  /\ ~Free(w)
  /\ Set(w, Idle)
  /\ lock' = IF lock = w THEN None ELSE lock
  /\ UNCHANGED <<calls, effects>>

----------------------------------------------------------------------------
Begin(w) ==
  \E c \in Calls :
    \/ \E args \in Arguments : Materialize(w, c, args)
    \/ RequestApprovalRead(w, c)
    \/ RequestInputRead(w, c)
    \/ \E d \in {"approve", "reject"}, id \in ResolutionIds : DecisionRead(w, c, d, id)
    \/ \E p \in Results, id \in ResolutionIds : AnswerRead(w, c, p, id)
    \/ Dispatch(w, c)

Step(w) ==
  \/ PrepareRead(w) \/ SavePrepared(w) \/ PrepareRaises(w)
  \/ RequestApprovalWrite(w) \/ RequestInputWrite(w)
  \/ DecisionOwner(w) \/ DecisionWrite(w) \/ DecisionReload(w)
  \/ AnswerWrite(w) \/ AnswerReload(w)
  \/ ExecuteRead(w) \/ ExecuteClaim(w) \/ ExecuteCommit(w) \/ ExecuteRaises(w)
  \/ CallReload(w) \/ ResultReload(w) \/ Busy(w)

Next ==
  \/ \E w \in Workers : Begin(w) \/ Step(w) \/ Abort(w)
  \/ \E c \in Calls : Consume(c)

Spec == Init /\ [][Next]_vars

(* An operation that has begun is driven by the event loop until it returns. *)
FairSpec == Spec /\ \A w \in Workers : WF_vars(Step(w))

----------------------------------------------------------------------------
(* Properties.                                                             *)

(* Every variable has its type. *)
TypeOK ==
  /\ calls \in [Calls -> Rows]
  /\ lock \in Workers \cup {None}
  /\ job \in [Workers -> Jobs]
  /\ effects \in [Calls -> Nat]

(* No interleaving of the services commits a row that the next reader      *)
(* would refuse: validate_tool_call_record accepts every committed row and *)
(* none is left "executing", a status no service can move on from.         *)
RecordsConsistent ==
  \A c \in Calls : /\ ConsistentRecord(c, calls[c])
                   /\ calls[c].status # "executing"

(* The call was resolved by running its tool: not while it was prepared    *)
(* (no trusted payload), not by an answer, not by a rejection.             *)
ResolvedByExecution(c) ==
  /\ calls[c].status = "resolved"
  /\ calls[c].trusted
  /\ c \notin Asked
  /\ calls[c].decision # "reject"

(* "At most one commit of the business effect": the effect is applied      *)
(* exactly once for a call resolved by execution and never for another,    *)
(* however execute is raced, cancelled or retried.                         *)
EffectExactlyWithResult ==
  \A c \in Calls : effects[c] = IF ResolvedByExecution(c) THEN 1 ELSE 0

(* A call that the policy routes to approval takes effect only under an    *)
(* approval that is durable, with the identity of who approved it, even    *)
(* though execute also accepts a validated call.                           *)
NoEffectWithoutApproval ==
  \A c \in Guarded : effects[c] > 0 =>
    calls[c].decision = "approve" /\ calls[c].resolution # None

(* A client_resolution_id settles at most one call of a conversation. *)
ResolutionIdsUnique ==
  \A c, o \in Calls :
    calls[c].resolution # None /\ calls[c].resolution = calls[o].resolution => c = o

(* A client that was told its decision stands (freshly, as a replay, or    *)
(* after losing a race) finds that decision, under its id, on the call.    *)
AcknowledgedDecisionStands ==
  \A w \in Workers :
    LET j == job[w] IN
      j.op = "decide" /\ j.reply \in {"fresh", "replayed"} => SameDecision(calls[j.call], j)

(* A client that was told its answer stands finds it as the result of the  *)
(* call, under its id, also when another answer raced it.                  *)
AcknowledgedAnswerStands ==
  \A w \in Workers :
    LET j == job[w] IN
      j.op = "answer" /\ j.reply \in {"fresh", "replayed"} => SameAnswer(calls[j.call], j)

(* A result handed to a caller of execute is the durable result of a call  *)
(* that is resolved: no caller acts on a result that was rolled back.      *)
ExecutionReplyDurable ==
  \A w \in Workers :
    LET j == job[w] IN
      j.op = "execute" /\ j.reply \in {"fresh", "replayed"} =>
        calls[j.call].status = "resolved" /\ calls[j.call].result = j.result

(* Arguments, decision, resolution id and result are written once: no      *)
(* later step of any service changes or removes one that is set.           *)
WrittenOnce ==
  [][\A c \in Calls :
       /\ calls[c].status # "absent" => calls'[c].arguments = calls[c].arguments
       /\ calls[c].decision # None => calls'[c].decision = calls[c].decision
       /\ calls[c].resolution # None => calls'[c].resolution = calls[c].resolution
       /\ calls[c].result # None => calls'[c].result = calls[c].result
       /\ calls[c].delivery = "consumed" => calls'[c].delivery = "consumed"]_vars

(* The decision on a call is settled before its tool starts: whatever      *)
(* races the transaction that runs the tool, the row it finally writes     *)
(* has the decision it claimed.                                            *)
ClaimPinsRow ==
  \A w \in Workers : job[w].step = "invoke" =>
    /\ lock = w
    /\ calls[job[w].call].status = job[w].from
    /\ SameDecision(calls[job[w].call], job[w])

(* The services implement the contract: a stored decision is the verdict,  *)
(* a stored result the outcome, and a committed effect an application.     *)
Contract ==
  INSTANCE ToolCallContract WITH verdict <- [c \in Calls |-> calls[c].decision],
                                 outcome <- [c \in Calls |-> calls[c].result],
                                 applications <- effects

(* Every interleaving of the services is a behaviour of ToolCallContract:  *)
(* one verdict, one outcome, and the effect in the step of the outcome.    *)
ImplementsContract == Contract!Spec

(* Every operation returns to its caller (or is aborted): no lost race or  *)
(* held lock leaves it waiting forever.                                    *)
OperationsReturn == \A w \in Workers : ~Free(w) ~> Free(w)

=============================================================================
