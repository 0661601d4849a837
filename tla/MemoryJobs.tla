----------------------------- MODULE MemoryJobs -----------------------------
(***************************************************************************)
(* Background compaction of the memory of one conversation.  A run that    *)
(* completes or fails writes an outbox row in the same transaction         *)
(* (run_repository.py); a dispatcher carries the row to Redis under a      *)
(* stable job id (background_jobs); ARQ workers compact the history up to  *)
(* that run into one cumulative snapshot per run and then mark the row     *)
(* processed (ai_chat/memory).  Dispatcher and workers live in one process *)
(* that may die; Redis may refuse a command or lose its data; a failed or  *)
(* cancelled run may be taken up again by an answer (module Interactions). *)
(***************************************************************************)
EXTENDS Naturals, FiniteSets

CONSTANTS
  Runs,       \* run ids, numbers in the order of creation
  Workers,    \* jobs the worker process runs at a time
  Batch,      \* background_outbox_batch_size
  Faults,     \* which faults may happen: see FaultNames
  MaxFaults,  \* (bound) how many of them
  None        \* no worker holds the lock

ASSUME Sizes == Runs \subseteq Nat \ {0} /\ Batch \in Nat \ {0} /\ MaxFaults \in Nat
ASSUME FaultNames == Faults \subseteq {"publish", "redis", "crash", "job", "revive"}
ASSUME NoWorker == None \notin Workers

VARIABLES
  run,         \* ai_chat_runs.status; "open" is running or suspended
  outbox,      \* the row memory.compact:<run> of each run
  redis,       \* the ARQ job of each run
  lock,        \* the Redis lock of the conversation
  dispatcher,
  worker,
  snapshot,    \* ai_chat_run_memories
  faults,      \* (auxiliary) faults so far
  kept         \* (auxiliary) Redis has kept its data so far

vars == <<run, outbox, redis, lock, dispatcher, worker, snapshot, faults, kept>>

History == {"completed", "failed"}
Rows == [status: {"none", "pending", "published", "processed"},
         due: BOOLEAN,   \* pending: available_at is over; published: the lease is
         id: Nat]
NoRow == [status |-> "none", due |-> FALSE, id |-> 0]

(* What a snapshot remembers of a run: the state the run was in when its   *)
(* history was read.                                                       *)
Facts == [run: Runs, as: History]
Snapshots == [status: {"none", "pending", "completed", "skipped"}, facts: SUBSET Facts]
Finished(r) == snapshot[r].status \in {"completed", "skipped"}

IdleWorker == [step |-> "idle", run |-> 0, todo |-> {}, parent |-> {}]
WorkerRecords == [step: {"idle", "lock", "load", "walk", "write", "release", "ack"},
                  run: Runs \cup {0}, todo: SUBSET Facts, parent: SUBSET Facts]
IdleDispatcher == [step |-> "idle", todo |-> {}]

At(w, step) == worker[w].step = step
Put(w, rec) == worker' = [worker EXCEPT ![w] = rec]
Fault(name) == name \in Faults /\ faults < MaxFaults /\ faults' = faults + 1

Init ==
  /\ run = [r \in Runs |-> "absent"]
  /\ outbox = [r \in Runs |-> NoRow]
  /\ redis = [r \in Runs |-> "none"]
  /\ lock = None
  /\ dispatcher = IdleDispatcher
  /\ worker = [w \in Workers |-> IdleWorker]
  /\ snapshot = [r \in Runs |-> [status |-> "none", facts |-> {}]]
  /\ faults = 0
  /\ kept = TRUE

----------------------------------------------------------------------------
(* Runs, as the foreground moves them.                                     *)

NoOpenRun == \A r \in Runs : run[r] # "open"

RunCreate(r) ==
  /\ run[r] = "absent" /\ NoOpenRun
  /\ \A o \in Runs : o < r => run[o] # "absent"
  /\ run' = [run EXCEPT ![r] = "open"]
  /\ UNCHANGED <<outbox, redis, lock, dispatcher, worker, snapshot, faults, kept>>

(* OutboxRepository.enqueue: ON CONFLICT (dedupe_key) DO NOTHING. *)
Enqueued(r) ==
  IF outbox[r].status # "none" THEN outbox
  ELSE [outbox EXCEPT ![r] = [status |-> "pending", due |-> TRUE,
          id |-> Cardinality({o \in Runs : outbox[o].status # "none"}) + 1]]

RunFinish(r) ==
  /\ run[r] = "open"
  /\ \E status \in History : run' = [run EXCEPT ![r] = status]
  /\ outbox' = Enqueued(r)
  /\ UNCHANGED <<redis, lock, dispatcher, worker, snapshot, faults, kept>>

RunCancel(r) ==
  /\ run[r] = "open"
  /\ run' = [run EXCEPT ![r] = "cancelled"]
  /\ UNCHANGED <<outbox, redis, lock, dispatcher, worker, snapshot, faults, kept>>

(* InteractionCoordinator.resolve claims a failed or cancelled run. *)
RunRevive(r) ==
  /\ run[r] \in {"failed", "cancelled"} /\ NoOpenRun
  /\ Fault("revive")
  /\ run' = [run EXCEPT ![r] = "open"]
  /\ UNCHANGED <<outbox, redis, lock, dispatcher, worker, snapshot, kept>>

----------------------------------------------------------------------------
(* OutboxDispatcher.dispatch_once.                                         *)

(* A back-off or a publish lease runs out. *)
TimePasses(r) ==
  /\ outbox[r].status \in {"pending", "published"} /\ ~outbox[r].due
  /\ outbox' = [outbox EXCEPT ![r].due = TRUE]
  /\ UNCHANGED <<run, redis, lock, dispatcher, worker, snapshot, faults, kept>>

Listed(rows) ==      \* the first Batch pending rows that are due, by id
  LET ready == {r \in Runs : rows[r].status = "pending" /\ rows[r].due}
  IN {r \in ready : Cardinality({o \in ready : rows[o].id < rows[r].id}) < Batch}

(* mutant: rows whose lease has run out are not taken back *)
DispatchListWithoutRequeue ==
  /\ dispatcher.step = "idle"
  /\ Listed(outbox) # {}
  /\ dispatcher' = [step |-> "send", todo |-> Listed(outbox)]
  /\ UNCHANGED <<run, outbox, redis, lock, worker, snapshot, faults, kept>>

(* One transaction takes back the rows whose lease has run out and lists   *)
(* the batch.  (A round with nothing to do changes nothing.)               *)
DispatchList ==
  LET requeued == [r \in Runs |->
        IF outbox[r].status = "published" /\ outbox[r].due
          THEN [outbox[r] EXCEPT !.status = "pending"] ELSE outbox[r]]
  IN /\ dispatcher.step = "idle"
     /\ Listed(requeued) # {}
     /\ outbox' = requeued
     /\ dispatcher' = [step |-> "send", todo |-> Listed(requeued)]
     /\ UNCHANGED <<run, redis, lock, worker, snapshot, faults, kept>>

Sending == CHOOSE r \in dispatcher.todo :
             \A o \in dispatcher.todo : outbox[r].id <= outbox[o].id

(* enqueue_job ignores a job whose id is known to Redis. *)
Accepted(r) == IF redis[r] = "none" THEN [redis EXCEPT ![r] = "queued"] ELSE redis

DispatchSend ==
  /\ dispatcher.step = "send"
  /\ redis' = Accepted(Sending)
  /\ dispatcher' = [dispatcher EXCEPT !.step = "mark"]
  /\ UNCHANGED <<run, outbox, lock, worker, snapshot, faults, kept>>

(* Redis raises; the command may have reached it all the same. *)
DispatchSendFails ==
  /\ dispatcher.step = "send"
  /\ Fault("publish")
  /\ redis' \in {redis, Accepted(Sending)}
  /\ dispatcher' = [dispatcher EXCEPT !.step = "fail"]
  /\ UNCHANGED <<run, outbox, lock, worker, snapshot, kept>>

NextToSend(r) ==
  LET rest == dispatcher.todo \ {r}
  IN dispatcher' = IF rest = {} THEN IdleDispatcher ELSE [step |-> "send", todo |-> rest]

(* mark_published and mark_publish_failed touch a row only while it is     *)
(* pending: the worker may have processed it by now.                       *)
DispatchMark ==
  /\ dispatcher.step \in {"mark", "fail"}
  /\ outbox' = IF outbox[Sending].status # "pending" THEN outbox
               ELSE [outbox EXCEPT ![Sending].due = FALSE,
                                   ![Sending].status =
                       IF dispatcher.step = "mark" THEN "published" ELSE "pending"]
  /\ NextToSend(Sending)
  /\ UNCHANGED <<run, redis, lock, worker, snapshot, faults, kept>>

(* The database raises; run() logs it and the next round begins anew. *)
DispatchAborts ==
  /\ dispatcher.step # "idle"
  /\ Fault("publish")
  /\ dispatcher' = IdleDispatcher
  /\ UNCHANGED <<run, outbox, redis, lock, worker, snapshot, kept>>

----------------------------------------------------------------------------
(* The worker: compact_memory, MemoryService.compact_run.                  *)

WorkerStart(w) ==
  /\ At(w, "idle")
  /\ \E r \in Runs :
       /\ redis[r] = "queued"
       /\ redis' = [redis EXCEPT ![r] = "started"]
       /\ Put(w, [IdleWorker EXCEPT !.step = "lock", !.run = r])
  /\ UNCHANGED <<run, outbox, lock, dispatcher, snapshot, faults, kept>>

(* mutant: the lock is taken from whoever holds it *)
WorkerLockAnyway(w) ==
  /\ At(w, "lock")
  /\ lock' = w
  /\ Put(w, [worker[w] EXCEPT !.step = "load"])
  /\ UNCHANGED <<run, outbox, redis, dispatcher, snapshot, faults, kept>>

WorkerLock(w) ==
  /\ At(w, "lock") /\ lock = None
  /\ lock' = w
  /\ Put(w, [worker[w] EXCEPT !.step = "load"])
  /\ UNCHANGED <<run, outbox, redis, dispatcher, snapshot, faults, kept>>

(* history_through: the completed and failed runs up to this one.  Without *)
(* this one among them there is nothing to compact.                        *)
WorkerLoad(w) ==
  LET target == worker[w].run
      history == {f \in Facts : f.run <= target /\ run[f.run] = f.as}
  IN /\ At(w, "load")
     /\ Put(w, IF run[target] \in History
                 THEN [worker[w] EXCEPT !.step = "walk", !.todo = history]
                 ELSE [worker[w] EXCEPT !.step = "release"])
     /\ UNCHANGED <<run, outbox, redis, lock, dispatcher, snapshot, faults, kept>>

Earliest(w) == CHOOSE f \in worker[w].todo : \A g \in worker[w].todo : f.run <= g.run

Walked(w, facts) ==
  LET rest == worker[w].todo \ {Earliest(w)}
  IN Put(w, [worker[w] EXCEPT !.parent = facts, !.todo = rest,
                              !.step = IF rest = {} THEN "release" ELSE "walk"])

(* mutant: a snapshot that is there already is stepped over, not built on *)
WorkerWalkPast(w) ==
  LET r == Earliest(w).run IN
  /\ At(w, "walk")
  /\ IF Finished(r)
       THEN Walked(w, worker[w].parent) /\ UNCHANGED snapshot
       ELSE /\ snapshot' = [snapshot EXCEPT ![r].status = "pending"]
            /\ Put(w, [worker[w] EXCEPT !.step = "write"])
  /\ UNCHANGED <<run, outbox, redis, lock, dispatcher, faults, kept>>

(* _ensure_one: a finished snapshot is reused; otherwise a placeholder is  *)
(* committed before the model is asked.                                    *)
WorkerWalk(w) ==
  LET r == Earliest(w).run IN
  /\ At(w, "walk")
  /\ IF Finished(r)
       THEN Walked(w, snapshot[r].facts) /\ UNCHANGED snapshot
       ELSE /\ snapshot' = [snapshot EXCEPT ![r].status = "pending"]
            /\ Put(w, [worker[w] EXCEPT !.step = "write"])
  /\ UNCHANGED <<run, outbox, redis, lock, dispatcher, faults, kept>>

Summaries(w) ==      \* the model's, or the parent's when the model gives up
  {[status |-> "completed", facts |-> worker[w].parent \cup {Earliest(w)}],
   [status |-> "skipped", facts |-> worker[w].parent]}

(* mutant: the summary overwrites whatever is stored *)
WorkerWriteOver(w) ==
  /\ At(w, "write")
  /\ \E s \in Summaries(w) :
       /\ snapshot' = [snapshot EXCEPT ![Earliest(w).run] = s]
       /\ Walked(w, s.facts)
  /\ UNCHANGED <<run, outbox, redis, lock, dispatcher, faults, kept>>

(* complete and skip write over the placeholder only; otherwise the stored *)
(* snapshot is taken.                                                      *)
WorkerWrite(w) ==
  LET r == Earliest(w).run IN
  /\ At(w, "write")
  /\ IF Finished(r)
       THEN Walked(w, snapshot[r].facts) /\ UNCHANGED snapshot
       ELSE \E s \in Summaries(w) :
              snapshot' = [snapshot EXCEPT ![r] = s] /\ Walked(w, s.facts)
  /\ UNCHANGED <<run, outbox, redis, lock, dispatcher, faults, kept>>

(* ARQ forgets the job when it ends, however it ends (max_tries 1,         *)
(* keep_result 0).                                                         *)
JobEnds(w) == redis' = [redis EXCEPT ![worker[w].run] = "none"] /\ Put(w, IdleWorker)

(* Giving back a lock that is no longer one's own raises. *)
WorkerRelease(w) ==
  /\ At(w, "release")
  /\ IF lock = w
       THEN lock' = None /\ Put(w, [worker[w] EXCEPT !.step = "ack"]) /\ UNCHANGED redis
       ELSE JobEnds(w) /\ UNCHANGED lock
  /\ UNCHANGED <<run, outbox, dispatcher, snapshot, faults, kept>>

(* mark_processed; the job ends. *)
WorkerAck(w) ==
  /\ At(w, "ack")
  /\ outbox' = [outbox EXCEPT ![worker[w].run].status = "processed",
                              ![worker[w].run].due = FALSE]
  /\ JobEnds(w)
  /\ UNCHANGED <<run, lock, dispatcher, snapshot, faults, kept>>

(* mutant: a job that fails is acknowledged too *)
WorkerFailsAcknowledged(w) ==
  /\ ~At(w, "idle")
  /\ Fault("job")
  /\ lock' = IF lock = w THEN None ELSE lock
  /\ outbox' = [outbox EXCEPT ![worker[w].run].status = "processed"]
  /\ JobEnds(w)
  /\ UNCHANGED <<run, dispatcher, snapshot, kept>>

(* The job raises, times out, or does not get the lock in time. *)
WorkerFails(w) ==
  /\ ~At(w, "idle")
  /\ Fault("job")
  /\ lock' = IF lock = w THEN None ELSE lock
  /\ JobEnds(w)
  /\ UNCHANGED <<run, outbox, dispatcher, snapshot, kept>>

----------------------------------------------------------------------------
(* Crashes.                                                                *)

(* The worker process dies with its dispatcher; its jobs stay in Redis as  *)
(* started, and the lock as held.                                          *)
Crash ==
  /\ Fault("crash")
  /\ worker' = [w \in Workers |-> IdleWorker]
  /\ dispatcher' = IdleDispatcher
  /\ redis' = [r \in Runs |-> IF redis[r] = "started" THEN "abandoned" ELSE redis[r]]
  /\ UNCHANGED <<run, outbox, lock, snapshot, kept>>

(* ARQ meets an abandoned job again and drops it: its one try is used up. *)
JobDropped(r) ==
  /\ redis[r] = "abandoned"
  /\ redis' = [redis EXCEPT ![r] = "none"]
  /\ UNCHANGED <<run, outbox, lock, dispatcher, worker, snapshot, faults, kept>>

(* The lock lives longer than any job, so it expires only for the dead. *)
LockExpires ==
  /\ lock # None
  /\ worker[lock].step \in {"idle", "lock", "ack"}
  /\ lock' = None
  /\ UNCHANGED <<run, outbox, redis, dispatcher, worker, snapshot, faults, kept>>

(* Redis comes back without jobs and locks. *)
RedisLost ==
  /\ Fault("redis")
  /\ redis' = [r \in Runs |-> "none"]
  /\ lock' = None
  /\ kept' = FALSE
  /\ UNCHANGED <<run, outbox, dispatcher, worker, snapshot>>

----------------------------------------------------------------------------
Dispatch == DispatchList \/ DispatchSend \/ DispatchSendFails \/ DispatchMark \/ DispatchAborts

Work(w) ==
  \/ WorkerStart(w) \/ WorkerLock(w) \/ WorkerLoad(w) \/ WorkerWalk(w)
  \/ WorkerWrite(w) \/ WorkerRelease(w) \/ WorkerAck(w)

Next ==
  \/ \E r \in Runs : RunCreate(r) \/ RunFinish(r) \/ RunCancel(r) \/ RunRevive(r)
  \/ \E r \in Runs : TimePasses(r) \/ JobDropped(r)
  \/ \E w \in Workers : Work(w) \/ WorkerFails(w)
  \/ Dispatch \/ Crash \/ LockExpires \/ RedisLost

Spec == Init /\ [][Next]_vars

(* The dispatcher polls, ARQ polls and jobs run on, clocks advance.        *)
FairSpec ==
  /\ Spec
  /\ WF_vars(Dispatch) /\ WF_vars(LockExpires)
  /\ \A r \in Runs : WF_vars(TimePasses(r)) /\ WF_vars(JobDropped(r))
  /\ \A w \in Workers : WF_vars(Work(w))

----------------------------------------------------------------------------
(* Properties.                                                             *)

(* Every variable has its type. *)
TypeOK ==
  /\ run \in [Runs -> History \cup {"absent", "open", "cancelled"}]
  /\ outbox \in [Runs -> Rows]
  /\ redis \in [Runs -> {"none", "queued", "started", "abandoned"}]
  /\ lock \in Workers \cup {None}
  /\ dispatcher \in [step: {"idle", "send", "mark", "fail"}, todo: SUBSET Runs]
  /\ dispatcher.step = "idle" <=> dispatcher.todo = {}
  /\ worker \in [Workers -> WorkerRecords]
  /\ snapshot \in [Runs -> Snapshots]
  /\ faults \in 0 .. MaxFaults
  /\ kept \in BOOLEAN

(* A completed or failed run has a snapshot, or an outbox row that will    *)
(* still be carried out: dispatcher, Redis and workers never drop it.  The *)
(* code does not keep it for a run that is taken up again: a worker that   *)
(* meets it running has marked its row processed, and the row of its       *)
(* second end is refused as a duplicate.                                   *)
TerminalRunsKeepTheirTask ==
  \A r \in Runs : run[r] \in History =>
    Finished(r) \/ outbox[r].status \in {"pending", "published"}

(* The chain is cumulative: what the snapshot of a run remembers, the      *)
(* snapshot of every later run remembers as well.  The code does not keep  *)
(* it when a worker meets an earlier run that has been taken up again.     *)
SnapshotChainComplete ==
  \A r, o \in Runs : r < o /\ Finished(r) /\ Finished(o) =>
    snapshot[r].facts \subseteq snapshot[o].facts

(* A snapshot is written once: redelivered jobs, restarted workers and     *)
(* workers that lost their lock do not produce it again.                   *)
SnapshotsWrittenOnce ==
  [][\A r \in Runs : Finished(r) => snapshot'[r] = snapshot[r]]_vars

(* As long as Redis keeps its data, one worker at a time asks the model    *)
(* about this conversation.                                                *)
OneCompactionAtATime ==
  kept => \A v, w \in Workers : worker[v].step = "write" /\ worker[w].step = "write" => v = w

(* Outbox, queue, lock and workers keep their types and exclude each other. *)
WorkersConsistent == TypeOK /\ OneCompactionAtATime

(* A run that has completed or failed for good gets its snapshot.          *)
TerminalRunsAreCompacted ==
  \A r \in Runs : run[r] \in History ~> Finished(r)

=============================================================================
