---------------------------- MODULE Interactions ----------------------------
(***************************************************************************)
(* The runs of one conversation, their graph checkpoints and the           *)
(* interactions they wait for (app/workflow_runtime/interactions.py,       *)
(* app/ai_chat/services).  Request handlers run concurrently: a turn       *)
(* creates a run and streams its graph, a resolve makes the answer to an   *)
(* interaction durable and resumes the graph, a close ends the             *)
(* conversation.  Each one reads, waits, and then commits with a           *)
(* compare-and-set on the run status, so what it read may be stale.  The   *)
(* lifecycle of the call behind an interaction is module ToolCalls; here   *)
(* it is absent, awaiting an answer, or decided.                           *)
(***************************************************************************)
EXTENDS Naturals, FiniteSets

CONSTANTS
  Runs,       \* run ids, numbers in the order of creation
  Handlers,   \* concurrent requests
  Depth,      \* interactions a graph may ask for, one after the other
  Faults      \* which faults may happen: "raise", "cancel", "vanish", "close"

ASSUME Sizes == Runs \subseteq Nat \ {0} /\ Depth \in Nat
ASSUME FaultNames == Faults \subseteq {"raise", "cancel", "vanish", "close"}

VARIABLES
  conversation,  \* "active" or "ended"
  run,           \* ai_chat_runs.status of each run
  graph,         \* the last checkpoint of each run
  call,          \* the tool call behind each interaction of each run
  handler,       \* the request handlers
  closer,        \* the request that closes the conversation
  history        \* (auxiliary) every status ever committed for each run

vars == <<conversation, run, graph, call, handler, closer, history>>

Rounds == 1 .. Depth
Open == {"running", "suspended"}
Statuses == {"absent", "running", "suspended", "completed", "failed", "cancelled"}

(* A checkpoint: nothing yet; about to run a node after k interactions;    *)
(* interrupted on interaction k; or the graph has ended.                   *)
Position(at, k) == [at |-> at, k |-> k]
Positions == [at: {"none", "node", "waiting", "done"}, k: 0 .. Depth]

Absent == [kind |-> "none", step |-> "idle", run |-> 0, k |-> 0, sawCompleted |-> FALSE,
           mode |-> "none", pos |-> Position("none", 0), value |-> 0,
           news |-> "none", told |-> "none"]

HandlerRecords ==
  [kind: {"none", "turn", "resolve"},
   step: {"idle", "create", "started", "persist", "recover", "finish", "claim", "open",
          "stream", "settle", "fail", "tell", "done"},
   run: Runs \cup {0},
   k: 0 .. Depth,                               \* the interaction it resolves
   sawCompleted: BOOLEAN,                       \* binding.run_status, as it was read
   mode: {"none", "resume", "continue"},        \* what recover said
   pos: Positions,                              \* where its executor is, in memory
   value: 0 .. Depth,                           \* the resume command, until it is used
   news: {"none", "suspended", "completed", "failed"},
   told: {"none", "suspended", "completed", "failed", "replayed", "error"}]

Free(h) == handler[h].step \in {"idle", "done"}
At(h, kind, step) == handler[h].kind = kind /\ handler[h].step = step
Put(h, rec) == handler' = [handler EXCEPT ![h] = rec]
Goto(h, step) == Put(h, [handler[h] EXCEPT !.step = step])
Answer(h, told) == Put(h, [Absent EXCEPT !.step = "done", !.told = told,
                                         !.kind = handler[h].kind, !.run = handler[h].run])

(* The partial unique index: one running or suspended run per conversation. *)
OtherCurrent(r) == \E o \in Runs \ {r} : run[o] \in Open

Commit(r, status) ==
  /\ run' = [run EXCEPT ![r] = status]
  /\ history' = [history EXCEPT ![r] = @ \cup {status}]

Init ==
  /\ conversation = "active"
  /\ run = [r \in Runs |-> "absent"]
  /\ graph = [r \in Runs |-> Position("none", 0)]
  /\ call = [r \in Runs |-> [k \in Rounds |-> "none"]]
  /\ handler = [h \in Handlers |-> Absent]
  /\ closer = [step |-> "idle", seen |-> 0]
  /\ history = [r \in Runs |-> {}]

----------------------------------------------------------------------------
(* The turn: _stream_new_run and _execute.                                 *)

(* (bound) A run id is left for every turn that is about to create a run. *)
RunLeft ==
  Cardinality({g \in Handlers : At(g, "turn", "create")})
    < Cardinality({r \in Runs : run[r] = "absent"})

(* It reads the conversation and the current run outside the write lock ... *)
TurnRead(h) ==
  /\ Free(h)
  /\ RunLeft
  /\ conversation = "active"
  /\ \A r \in Runs : run[r] \notin Open
  /\ Put(h, [Absent EXCEPT !.kind = "turn", !.step = "create"])
  /\ UNCHANGED <<conversation, run, graph, call, closer, history>>

(* ... and inserts the run with its messages; the index refuses a second   *)
(* current run (RunInProgressError).                                       *)
TurnCreate(h) ==
  /\ At(h, "turn", "create")
  /\ \E r \in Runs :
       /\ run[r] = "absent"
       /\ \A o \in Runs : o < r => run[o] # "absent"
       /\ IF OtherCurrent(r)
            THEN Answer(h, "error") /\ UNCHANGED <<run, history>>
            ELSE /\ Commit(r, "running")
                 /\ Put(h, [handler[h] EXCEPT !.step = "started", !.run = r])
  /\ UNCHANGED <<conversation, graph, call, closer>>

(* run.started, _build_input, and the input checkpoint of the graph. *)
TurnStart(h) ==
  LET r == handler[h].run IN
  /\ At(h, "turn", "started")
  /\ graph' = [graph EXCEPT ![r] = Position("node", 0)]
  /\ Put(h, [handler[h] EXCEPT !.step = "stream", !.pos = Position("node", 0)])
  /\ UNCHANGED <<conversation, run, call, closer, history>>

TurnStartFails(h) ==
  /\ "raise" \in Faults
  /\ At(h, "turn", "started")
  /\ Goto(h, "fail")
  /\ UNCHANGED <<conversation, run, graph, call, closer, history>>

----------------------------------------------------------------------------
(* The resolve: InteractionCoordinator.resolve.                            *)

(* locate_call and get_binding: an ended conversation is refused, and the  *)
(* status of the run is remembered for later.                              *)
ResolveBind(h, r, k) ==
  /\ Free(h)
  /\ call[r][k] # "none"
  /\ conversation = "active"
  /\ Put(h, [Absent EXCEPT !.kind = "resolve", !.step = "persist", !.run = r, !.k = k,
                           !.sawCompleted = (run[r] = "completed")])
  /\ UNCHANGED <<conversation, run, graph, call, closer, history>>

(* workflow.resolve_interaction makes the answer durable.  A second answer *)
(* is a replay when it is the same and a conflict when it is another; the  *)
(* first one may count as a replay too, when its commit was in doubt and   *)
(* the command was run again.                                              *)
ResolvePersist(h) ==
  LET hd == handler[h]
      stored == [call EXCEPT ![hd.run][hd.k] = "decided"]
      proceed(replayed) == IF hd.sawCompleted /\ replayed THEN Answer(h, "replayed")
                                                          ELSE Goto(h, "recover")
  IN /\ At(h, "resolve", "persist")
     /\ IF call[hd.run][hd.k] = "awaiting"
          THEN call' = stored /\ \E replayed \in BOOLEAN : proceed(replayed)
          ELSE call' = call /\ (proceed(TRUE) \/ Answer(h, "error"))
     /\ UNCHANGED <<conversation, run, graph, closer, history>>

(* GraphExecutor.recover: the checkpoint says whether the graph has ended, *)
(* waits for this interaction, waits for another, or has a node to run.    *)
ResolveRecover(h) ==
  LET hd == handler[h]
      at == graph[hd.run]
  IN /\ At(h, "resolve", "recover")
     /\ \/ at.at = "done" /\ Goto(h, "finish")
        \/ at.at = "node" /\ Put(h, [hd EXCEPT !.step = "claim", !.mode = "continue"])
        \/ at.at = "waiting" /\ at.k = hd.k
           /\ Put(h, [hd EXCEPT !.step = "claim", !.mode = "resume"])
        \/ at.at = "waiting" /\ at.k # hd.k /\ Answer(h, "error")
     /\ UNCHANGED <<conversation, run, graph, call, closer, history>>

(* A graph that has ended completes its run, whatever became of the run. *)
ResolveFinish(h) ==
  LET r == handler[h].run IN
  /\ At(h, "resolve", "finish")
  /\ IF run[r] \in {"running", "suspended", "failed", "cancelled"}
       THEN Commit(r, "completed")
       ELSE UNCHANGED <<run, history>>
  /\ Put(h, [handler[h] EXCEPT !.step = "tell", !.news = "completed"])
  /\ UNCHANGED <<conversation, graph, call, closer>>

Revivable == {"suspended", "failed", "cancelled"}

(* mutant: a running run can be claimed by a second handler *)
ResolveClaimRunning(h) ==
  LET r == handler[h].run IN
  /\ At(h, "resolve", "claim")
  /\ IF run[r] \in Revivable \cup {"running"} /\ ~OtherCurrent(r)
       THEN Commit(r, "running") /\ Goto(h, "open")
       ELSE UNCHANGED <<run, history>> /\ Answer(h, "error")
  /\ UNCHANGED <<conversation, graph, call, closer>>

(* mutant: a completed run is revived as well *)
ResolveClaimCompleted(h) ==
  LET r == handler[h].run IN
  /\ At(h, "resolve", "claim")
  /\ IF run[r] \in Revivable \cup {"completed"} /\ ~OtherCurrent(r)
       THEN Commit(r, "running") /\ Goto(h, "open")
       ELSE UNCHANGED <<run, history>> /\ Answer(h, "error")
  /\ UNCHANGED <<conversation, graph, call, closer>>

(* The run is taken back to running, from failed and cancelled as well.    *)
(* Another current run of the conversation makes the UPDATE fail.          *)
ResolveClaim(h) ==
  LET r == handler[h].run IN
  /\ At(h, "resolve", "claim")
  /\ IF run[r] \in Revivable /\ ~OtherCurrent(r)
       THEN Commit(r, "running") /\ Goto(h, "open")
       ELSE UNCHANGED <<run, history>> /\ Answer(h, "error")
  /\ UNCHANGED <<conversation, graph, call, closer>>

(* interaction.resolved; the graph is loaded only now, so the checkpoint   *)
(* may have moved since recover looked at it.                              *)
ResolveOpen(h) ==
  LET hd == handler[h] IN
  /\ At(h, "resolve", "open")
  /\ Put(h, [hd EXCEPT !.step = "stream", !.pos = graph[hd.run],
                       !.value = IF hd.mode = "resume" THEN hd.k ELSE 0])
  /\ UNCHANGED <<conversation, run, graph, call, closer, history>>

----------------------------------------------------------------------------
(* The graph, as far as runs depend on it: one superstep per action, each  *)
(* of which leaves a checkpoint.                                           *)

Streaming(h, at) == handler[h].step = "stream" /\ handler[h].pos.at = at

Moved(h, pos) == graph' = [graph EXCEPT ![handler[h].run] = pos]

(* The interrupted node runs again and reads its call first: with a durable *)
(* answer it goes on, whatever the resume command says or without one.     *)
GraphPass(h) ==
  LET hd == handler[h]
      next == Position("node", hd.pos.k)
  IN /\ Streaming(h, "waiting")
     /\ call[hd.run][hd.pos.k] = "decided"
     /\ Moved(h, next)
     /\ Put(h, [hd EXCEPT !.pos = next, !.value = 0])
     /\ UNCHANGED <<conversation, run, call, closer, history>>

(* A resume command for another interaction than the one that the node has  *)
(* to ask for: the node raises.                                            *)
GraphMismatch(h) ==
  LET hd == handler[h] IN
  /\ hd.value # 0
  /\ \/ Streaming(h, "waiting") /\ call[hd.run][hd.pos.k] = "awaiting"
     \/ /\ Streaming(h, "node")
        /\ hd.pos.k < Depth
        /\ call[hd.run][hd.pos.k + 1] = "awaiting"
  /\ Goto(h, "fail")
  /\ UNCHANGED <<conversation, run, graph, call, closer, history>>

(* The node that asks stores the interaction before it interrupts. *)
GraphRequest(h) ==
  LET hd == handler[h] IN
  /\ Streaming(h, "node")
  /\ hd.pos.k < Depth
  /\ call[hd.run][hd.pos.k + 1] = "none"
  /\ call' = [call EXCEPT ![hd.run][hd.pos.k + 1] = "awaiting"]
  /\ UNCHANGED <<conversation, run, graph, handler, closer, history>>

GraphInterrupt(h) ==
  LET hd == handler[h]
      next == Position("waiting", hd.pos.k + 1)
  IN /\ Streaming(h, "node")
     /\ hd.pos.k < Depth
     /\ call[hd.run][next.k] = "awaiting"
     /\ hd.value = 0
     /\ Moved(h, next)
     /\ Put(h, [hd EXCEPT !.step = "settle", !.pos = next, !.news = "suspended"])
     /\ UNCHANGED <<conversation, run, call, closer, history>>

(* continue_run on a graph that meanwhile waits for an answer that is not    *)
(* there yet interrupts once more.                                         *)
GraphInterruptAgain(h) ==
  /\ Streaming(h, "waiting")
  /\ handler[h].value = 0
  /\ call[handler[h].run][handler[h].pos.k] = "awaiting"
  /\ Put(h, [handler[h] EXCEPT !.step = "settle", !.news = "suspended"])
  /\ UNCHANGED <<conversation, run, graph, call, closer, history>>

(* mutant: a node goes past an interaction that is stored but not answered *)
GraphReplayUnanswered(h) ==
  LET hd == handler[h]
      next == Position("node", hd.pos.k + 1)
  IN /\ Streaming(h, "node")
     /\ hd.pos.k < Depth
     /\ call[hd.run][next.k] # "none"
     /\ Moved(h, next)
     /\ Put(h, [hd EXCEPT !.pos = next])
     /\ UNCHANGED <<conversation, run, call, closer, history>>

(* The node that would ask finds its interaction answered and goes on. *)
GraphReplay(h) ==
  LET hd == handler[h]
      next == Position("node", hd.pos.k + 1)
  IN /\ Streaming(h, "node")
     /\ hd.pos.k < Depth
     /\ call[hd.run][next.k] = "decided"
     /\ Moved(h, next)
     /\ Put(h, [hd EXCEPT !.pos = next])
     /\ UNCHANGED <<conversation, run, call, closer, history>>

(* The graph ends after any number of interactions. *)
GraphEnd(h) ==
  LET hd == handler[h]
      next == Position("done", hd.pos.k)
  IN /\ Streaming(h, "node") \/ Streaming(h, "done")
     /\ Moved(h, next)
     /\ Put(h, [hd EXCEPT !.step = "settle", !.pos = next, !.news = "completed"])
     /\ UNCHANGED <<conversation, run, call, closer, history>>

(* Any node may raise: the model, a tool, a source, the database. *)
GraphRaise(h) ==
  /\ "raise" \in Faults
  /\ handler[h].step = "stream"
  /\ Goto(h, "fail")
  /\ UNCHANGED <<conversation, run, graph, call, closer, history>>

----------------------------------------------------------------------------
(* Settling: settle_graph of a turn, _transition of a resolve.             *)

(* mutant: events are sent even when the run had left running *)
SettleUnrequired(h) ==
  LET hd == handler[h] IN
  /\ hd.step = "settle"
  /\ IF run[hd.run] = "running" THEN Commit(hd.run, hd.news) ELSE UNCHANGED <<run, history>>
  /\ Goto(h, "tell")
  /\ UNCHANGED <<conversation, graph, call, closer>>

Settle(h) ==
  LET hd == handler[h] IN
  /\ hd.step = "settle"
  /\ IF run[hd.run] = "running"
       THEN Commit(hd.run, hd.news) /\ Goto(h, "tell")
       ELSE UNCHANGED <<run, history>> /\ Goto(h, "fail")
  /\ UNCHANGED <<conversation, graph, call, closer>>

FailableBy(kind) == IF kind = "turn" THEN Open ELSE {"running"}

(* mutant: run.failed is sent and the run is left as it is *)
FailUnrecorded(h) ==
  /\ handler[h].step = "fail"
  /\ Put(h, [handler[h] EXCEPT !.step = "tell", !.news = "failed"])
  /\ UNCHANGED <<conversation, run, graph, call, closer, history>>

(* except Exception: the run is failed if it can still be, and run.failed  *)
(* is sent in any case.                                                    *)
Fail(h) ==
  LET hd == handler[h] IN
  /\ hd.step = "fail"
  /\ IF run[hd.run] \in FailableBy(hd.kind)
       THEN Commit(hd.run, "failed")
       ELSE UNCHANGED <<run, history>>
  /\ Put(h, [hd EXCEPT !.step = "tell", !.news = "failed"])
  /\ UNCHANGED <<conversation, graph, call, closer>>

(* run.suspended, run.completed or run.failed goes to the client. *)
Tell(h) ==
  /\ handler[h].step = "tell"
  /\ Answer(h, handler[h].news)
  /\ UNCHANGED <<conversation, run, graph, call, closer, history>>

----------------------------------------------------------------------------
(* Faults.                                                                 *)

(* CancelledError inside the try block: the run is cancelled, shielded     *)
(* from further cancellation, if the handler still holds it.               *)
Cancel(h) ==
  LET hd == handler[h] IN
  /\ "cancel" \in Faults
  /\ hd.step \in {"open", "stream", "settle", "tell"}
  /\ hd.news # "failed"
  /\ ~At(h, "resolve", "tell") \/ hd.mode # "none"     \* finish has no try block
  /\ IF run[hd.run] \in FailableBy(hd.kind)
       THEN Commit(hd.run, "cancelled")
       ELSE UNCHANGED <<run, history>>
  /\ Put(h, Absent)
  /\ UNCHANGED <<conversation, graph, call, closer>>

(* The process dies, or the request goes away where no handler cleans up.  *)
Vanish(h) ==
  /\ "vanish" \in Faults
  /\ ~Free(h)
  /\ Put(h, Absent)
  /\ UNCHANGED <<conversation, run, graph, call, closer, history>>

----------------------------------------------------------------------------
(* ConversationService.close.                                              *)

CurrentRuns == {r \in Runs : run[r] \in Open}

CloseRead ==
  /\ "close" \in Faults
  /\ closer.step = "idle"
  /\ \/ CurrentRuns = {} /\ closer' = [step |-> "write", seen |-> 0]
     \/ \E r \in CurrentRuns : closer' = [step |-> "write", seen |-> r]
  /\ UNCHANGED <<conversation, run, graph, call, handler, history>>

CloseWrite ==
  /\ closer.step = "write"
  /\ IF closer.seen # 0 /\ run[closer.seen] \in Open
       THEN Commit(closer.seen, "cancelled")
       ELSE UNCHANGED <<run, history>>
  /\ conversation' = "ended"
  /\ closer' = [step |-> "done", seen |-> 0]
  /\ UNCHANGED <<graph, call, handler>>

----------------------------------------------------------------------------
Begin(h) == TurnRead(h) \/ \E r \in Runs, k \in Rounds : ResolveBind(h, r, k)

Step(h) ==
  \/ TurnCreate(h) \/ TurnStart(h) \/ TurnStartFails(h)
  \/ ResolvePersist(h) \/ ResolveRecover(h) \/ ResolveFinish(h)
  \/ ResolveClaim(h) \/ ResolveOpen(h)
  \/ GraphPass(h) \/ GraphMismatch(h) \/ GraphRequest(h) \/ GraphInterrupt(h)
  \/ GraphInterruptAgain(h) \/ GraphReplay(h) \/ GraphEnd(h) \/ GraphRaise(h)
  \/ Settle(h) \/ Fail(h) \/ Tell(h)

Next ==
  \/ \E h \in Handlers : Begin(h) \/ Step(h) \/ Cancel(h) \/ Vanish(h)
  \/ CloseRead \/ CloseWrite

Spec == Init /\ [][Next]_vars

(* The event loop drives every handler that has begun until it answers. *)
FairSpec == Spec /\ \A h \in Handlers : WF_vars(Step(h))

----------------------------------------------------------------------------
(* Properties.                                                             *)

(* Every variable has its type. *)
TypeOK ==
  /\ conversation \in {"active", "ended"}
  /\ run \in [Runs -> Statuses]
  /\ graph \in [Runs -> Positions]
  /\ call \in [Runs -> [Rounds -> {"none", "awaiting", "decided"}]]
  /\ handler \in [Handlers -> HandlerRecords]
  /\ closer \in [step: {"idle", "write", "done"}, seen: Runs \cup {0}]
  /\ history \in [Runs -> SUBSET Statuses]

(* run.completed and run.suspended reach a client only after the run was   *)
(* committed in that status ("facts first, events after").                 *)
EventsFollowCommits ==
  \A h \in Handlers :
    handler[h].told \in {"suspended", "completed"} =>
      handler[h].told \in history[handler[h].run]

(* The same for run.failed.  The code does not keep it: a handler that     *)
(* lost the run to another one, or to a close, sends run.failed although   *)
(* nothing failed the run.                                                 *)
FailedEventsFollowCommits ==
  \A h \in Handlers :
    handler[h].told = "failed" => "failed" \in history[handler[h].run]

(* A completed run has a graph that ended, and stays completed, whatever   *)
(* handlers with an older view of it still do.                             *)
CompletedRunsFinishedGraph ==
  \A r \in Runs : "completed" \in history[r] =>
    run[r] = "completed" /\ graph[r].at = "done"

(* A suspended run shows its user an interaction that is stored, so that   *)
(* an answer can always find it.                                           *)
SuspendedRunsWaitForStoredCall ==
  \A r \in Runs : run[r] = "suspended" =>
    /\ graph[r].at = "waiting"
    /\ call[r][graph[r].k] # "none"

(* The row of a run, its checkpoint and its stored calls agree, although    *)
(* each is committed by itself and processes die between the commits.  As  *)
(* with OneExecutorPerRun, a cancellation or a close can break it: with    *)
(* two executors of one run, one completes it and the other goes on.       *)
RunsConsistent == TypeOK /\ CompletedRunsFinishedGraph /\ SuspendedRunsWaitForStoredCall

(* No graph gets past an interaction whose answer is not durable. *)
ResumedOnlyAfterDecision ==
  \A r \in Runs : \A k \in Rounds :
    k <= graph[r].k /\ graph[r].at \in {"node", "done"} => call[r][k] = "decided"

(* Two executors never drive the graph of one run at the same time, also   *)
(* when nodes raise, processes die and answers are sent again and again.   *)
(* With cancellation the code does not keep it: the clean-up of a handler  *)
(* that has settled its run cancels the run another handler has claimed,   *)
(* which a third one may then claim as well.  Nor does it with a close: a  *)
(* resolve that was bound before it revives the run it has cancelled,      *)
(* while the executor it took the run from is still at work.               *)
OneExecutorPerRun ==
  \A g, h \in Handlers :
    /\ handler[g].step \in {"stream", "settle"}
    /\ handler[h].step \in {"stream", "settle"}
    /\ handler[g].run = handler[h].run
    => g = h

(* A run that a close has cancelled is not overwritten by a late result.   *)
(* The code does not keep it: a resolve that read the conversation before  *)
(* the close takes the run back to running after it.                       *)
ClosedRunsStayCancelled ==
  [][\A r \in Runs : conversation = "ended" /\ run[r] = "cancelled" =>
       run'[r] = "cancelled"]_vars

(* A command that was already carried out, and whose graph has moved on to *)
(* another interaction, does not fail the run that waits for that one.     *)
(* The code does not keep it: between recover and the claim of the run the *)
(* graph may have moved on.                                                *)
ReplaysDoNotFailRuns ==
  [][\A h \in Handlers :
       /\ handler[h].step = "stream"
       /\ handler[h].pos.at = "waiting"
       /\ handler[h].kind = "resolve"
       /\ handler[h].k < handler[h].pos.k
       => handler'[h].step # "fail"]_vars

(* A run that is running is settled, suspended or failed by its handler.   *)
RunningRunsSettle == \A r \in Runs : run[r] = "running" ~> run[r] # "running"

=============================================================================
