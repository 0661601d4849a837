-------------------------- MODULE MemoryJobsProofs --------------------------
(***************************************************************************)
(* Proofs about MemoryJobs for any number of runs and workers, any batch   *)
(* and any number of faults.                                               *)
(*                                                                         *)
(* Inv holds whatever faults happen: types, the lock and its holder, and   *)
(* that a worker walking the history has some of it left.                  *)
(*                                                                         *)
(* ChainInv adds what tasks and snapshots rest on: runs end one after the  *)
(* other, only ended runs have tasks, and a worker has each earlier run    *)
(* either ahead of it or finished behind it.  It needs that no failed or   *)
(* cancelled run is taken up again: TLC shows that both conclusions fail   *)
(* with "revive".                                                          *)
(***************************************************************************)
EXTENDS MemoryJobs, FiniteSetTheorems, WellFoundedInduction, TLAPS

(* The rows that exist. *)
Enlisted == {o \in Runs : outbox[o].status # "none"}

(* A worker past the lock holds it for as long as Redis keeps its data. *)
Holders == {"load", "walk", "write", "release"}
LockHeld == kept => \A w \in Workers : worker[w].step \in Holders => lock = w

(* A worker has a run, and some of the history left when it walks it. *)
HasHistory ==
  \A w \in Workers :
    /\ worker[w].step # "idle" => worker[w].run \in Runs
    /\ worker[w].step \in {"walk", "write"} => worker[w].todo # {}

Inv == TypeOK /\ IsFiniteSet(Enlisted) /\ LockHeld /\ HasHistory

(* Runs come one after the other. *)
RunsInTurn ==
  \A r, o \in Runs : r < o /\ run[o] # "absent" => run[r] \notin {"absent", "open"}

(* Rows, jobs, batches and workers are about runs that have completed or   *)
(* failed, and such a run has its row.                                     *)
TasksHaveRuns ==
  \A r \in Runs :
    /\ run[r] \in History <=> outbox[r].status # "none"
    /\ redis[r] # "none" \/ r \in dispatcher.todo => run[r] \in History

WorkersHaveRuns ==
  \A w \in Workers : worker[w].step # "idle" => run[worker[w].run] \in History

(* Snapshots are finished from the first run on, and each remembers what   *)
(* the ones before it do; a row is processed once its run has one.         *)
SnapshotsInTurn ==
  \A o \in Runs :
    /\ Finished(o) => run[o] \in History
    /\ outbox[o].status = "processed" => Finished(o)
    /\ \A r \in Runs : Finished(o) /\ r < o /\ run[r] \in History =>
         Finished(r) /\ snapshot[r].facts \subseteq snapshot[o].facts

(* A run is behind a worker: it is finished, earlier than all the worker   *)
(* still has to do, and part of what the worker builds on.                 *)
Behind(d, r) ==
  /\ Finished(r) /\ snapshot[r].facts \subseteq d.parent
  /\ \A f \in d.todo : r < f.run

(* A worker on its way: its run is still ahead, and each run of the        *)
(* history up to it is either ahead or behind.                             *)
OnTheWay(d) ==
  /\ \A f \in d.todo : run[f.run] = f.as /\ f.run <= d.run
  /\ \E f \in d.todo : f.run = d.run
  /\ \A r \in Runs : r <= d.run /\ run[r] \in History =>
       \/ \E f \in d.todo : f.run = r
       \/ Behind(d, r)

WorkersOnTheWay ==
  \A w \in Workers :
    /\ worker[w].step \in {"walk", "write"} => OnTheWay(worker[w])
    /\ worker[w].step \in {"release", "ack"} => Finished(worker[w].run)

ChainInv ==
  /\ Inv /\ RunsInTurn /\ TasksHaveRuns /\ WorkersHaveRuns
  /\ SnapshotsInTurn /\ WorkersOnTheWay

(* Snapshots that are finished stay as they are. *)
Lasting == \A r \in Runs : Finished(r) => snapshot'[r] = snapshot[r]

-----------------------------------------------------------------------------
(* The first of a set, and the earliest of what is to be done.             *)

(* A set of numbers that is not empty has a least one. *)
LEMMA LeastNatural ==
  ASSUME NEW S \in SUBSET Nat, S # {}
  PROVE  \E x \in S : \A y \in S : x <= y
<1>1. PICK x \in S : \A y \in S : ~(<<y, x>> \in OpToRel(<, Nat))
  BY WFMin, NatLessThanWellFounded
<1>2. \A y \in S : ~(y < x)
  BY <1>1 DEF OpToRel
<1> QED
  BY <1>2

(* Earliest is one of the facts a worker has to do, of the earliest run. *)
LEMMA EarliestIsFirst ==
  ASSUME NEW w \in Workers, worker[w].todo \subseteq Facts, worker[w].todo # {}
  PROVE  /\ Earliest(w) \in worker[w].todo /\ Earliest(w) \in Facts
         /\ Earliest(w).run \in Runs /\ Earliest(w).as \in History
         /\ \A g \in worker[w].todo : Earliest(w).run <= g.run
<1>1. \E f \in worker[w].todo : \A g \in worker[w].todo : f.run <= g.run
  <2> DEFINE S == {f.run : f \in worker[w].todo}
  <2>1. S \in SUBSET Nat /\ S # {}
    BY Sizes DEF Facts
  <2>2. PICK x \in S : \A y \in S : x <= y
    <3> HIDE DEF S
    <3> QED BY <2>1, LeastNatural
  <2> QED
    BY <2>2
<1> QED
  BY <1>1 DEF Earliest, Facts

(* The dispatcher sends a row of its batch. *)
LEMMA SendingIsListed ==
  ASSUME TypeOK, dispatcher.step # "idle"
  PROVE  Sending \in dispatcher.todo /\ Sending \in Runs
<1>1. dispatcher.todo # {} /\ dispatcher.todo \subseteq Runs
  BY DEF TypeOK
<1>2. \E r \in dispatcher.todo : \A o \in dispatcher.todo : outbox[r].id <= outbox[o].id
  <2> DEFINE S == {outbox[r].id : r \in dispatcher.todo}
  <2>1. S \in SUBSET Nat /\ S # {}
    BY <1>1 DEF TypeOK, Rows
  <2>2. PICK x \in S : \A y \in S : x <= y
    <3> HIDE DEF S
    <3> QED BY <2>1, LeastNatural
  <2> QED
    BY <2>2
<1> QED
  BY <1>1, <1>2 DEF Sending

-----------------------------------------------------------------------------
(* The invariant whatever faults happen.                                   *)

(* Faults are counted up to the bound. *)
LEMMA FaultIsCounted ==
  ASSUME Inv, NEW name, Fault(name)
  PROVE  faults' \in 0 .. MaxFaults
BY Sizes DEF Inv, TypeOK, Fault

(* A row that is added is typed, and the rows stay finitely many. *)
LEMMA EnqueuedIsTyped ==
  ASSUME Inv, NEW r \in Runs
  PROVE  /\ Enqueued(r) \in [Runs -> Rows]
         /\ \A o \in Runs : Enqueued(r)[o].status # "none" <=> o \in Enlisted \cup {r}
         /\ \A o \in Runs : Enqueued(r)[o].status = "processed" =>
              outbox[o].status = "processed"
         /\ IsFiniteSet(Enlisted \cup {r})
<1>1. IsFiniteSet(Enlisted \cup {r})
  BY FS_AddElement DEF Inv
<1>2. Cardinality({o \in Runs : outbox[o].status # "none"}) \in Nat
  BY FS_CardinalityType DEF Inv, Enlisted
<1>3. CASE outbox[r].status # "none"
  BY <1>1, <1>3 DEF Enqueued, Enlisted, Inv, TypeOK
<1>4. CASE outbox[r].status = "none"
  <2> DEFINE c == Cardinality({o \in Runs : outbox[o].status # "none"})
             n == c + 1
  <2>1. n \in Nat
    <3> HIDE DEF c
    <3> QED BY <1>2 DEF c
  <2>2. Enqueued(r) = [outbox EXCEPT ![r] = [status |-> "pending", due |-> TRUE, id |-> n]]
    BY <1>4 DEF Enqueued
  <2> QED
    <3> HIDE DEF n
    <3> QED BY <1>1, <1>4, <2>1, <2>2 DEF Enlisted, Inv, TypeOK, Rows
<1> QED
  BY <1>3, <1>4

(* The initial state is consistent. *)
LEMMA InitHasInv == Init => Inv
<1> SUFFICES ASSUME Init PROVE Inv
  OBVIOUS
<1>1. Enlisted = {}
  BY DEF Init, NoRow, Enlisted
<1>2. IsFiniteSet(Enlisted)
  BY <1>1, FS_EmptySet
<1>3. TypeOK
  BY Sizes DEF Init, TypeOK, History, NoRow, Rows, IdleDispatcher, IdleWorker,
     WorkerRecords, Snapshots
<1> QED
  BY <1>2, <1>3 DEF Init, Inv, LockHeld, HasHistory, Holders, IdleWorker

(* The steps of the foreground. *)
LEMMA RunsKeepInv ==
  ASSUME Inv, NEW r \in Runs,
         RunCreate(r) \/ RunFinish(r) \/ RunCancel(r) \/ RunRevive(r)
  PROVE  Inv'
<1>1. CASE RunFinish(r)
  <2>0. /\ outbox' \in [Runs -> Rows]
        /\ \A o \in Runs : outbox'[o].status # "none" <=> o \in Enlisted \cup {r}
        /\ IsFiniteSet(Enlisted \cup {r})
    <3>1. outbox' = Enqueued(r)
      BY <1>1 DEF RunFinish
    <3> QED
      BY <3>1, EnqueuedIsTyped
  <2>1. TypeOK'
    BY <1>1, <2>0 DEF RunFinish, Inv, TypeOK
  <2>2. Enlisted' = Enlisted \cup {r}
    BY <2>0 DEF Enlisted
  <2>3. IsFiniteSet(Enlisted')
    BY <2>0, <2>2
  <2> QED
    BY <1>1, <2>1, <2>3 DEF RunFinish, Inv, LockHeld, HasHistory
<1>2. CASE RunCreate(r) \/ RunCancel(r) \/ RunRevive(r)
  <2>1. /\ \E status \in {"open", "cancelled"} : run' = [run EXCEPT ![r] = status]
        /\ faults' \in 0 .. MaxFaults
        /\ UNCHANGED <<outbox, redis, lock, dispatcher, worker, snapshot, kept>>
    BY <1>2, Sizes DEF RunCreate, RunCancel, RunRevive, Fault, Inv, TypeOK
  <2>2. Enlisted' = Enlisted
    BY <2>1 DEF Enlisted
  <2>3. TypeOK' /\ LockHeld' /\ HasHistory'
    BY <2>1 DEF Inv, TypeOK, LockHeld, HasHistory
  <2> QED
    BY <2>2, <2>3 DEF Inv
<1> QED
  BY <1>1, <1>2

(* Rows that move on, with what the dispatcher and Redis hold. *)
LEMMA RowsMoveKeepInv ==
  ASSUME Inv, outbox' \in [Runs -> Rows],
         \A r \in Runs : outbox[r].status = "none" => outbox'[r].status = "none",
         dispatcher' \in [step: {"idle", "send", "mark", "fail"}, todo: SUBSET Runs],
         dispatcher'.step = "idle" <=> dispatcher'.todo = {},
         redis' \in [Runs -> {"none", "queued", "started", "abandoned"}],
         faults' \in 0 .. MaxFaults, UNCHANGED <<run, lock, worker, snapshot, kept>>
  PROVE  Inv'
<1>1. Enlisted' \subseteq Enlisted
  BY DEF Enlisted
<1>2. IsFiniteSet(Enlisted')
  BY <1>1, FS_Subset DEF Inv
<1> QED
  BY <1>2 DEF Inv, TypeOK, LockHeld, HasHistory

(* The clock, a dropped job and every step of the dispatcher. *)
LEMMA DispatcherKeepsInv ==
  ASSUME Inv, Dispatch \/ \E r \in Runs : TimePasses(r) \/ JobDropped(r)
  PROVE  Inv'
<1>0. CASE \E r \in Runs : JobDropped(r)
  BY <1>0, RowsMoveKeepInv DEF JobDropped, Inv, TypeOK
<1>1. CASE \E r \in Runs : TimePasses(r)
  <2>1. PICK r \in Runs : TimePasses(r)
    BY <1>1
  <2>2. outbox' \in [Runs -> Rows]
    BY <2>1 DEF TimePasses, Inv, TypeOK, Rows
  <2>3. \A o \in Runs : outbox[o].status = "none" => outbox'[o].status = "none"
    BY <2>1 DEF TimePasses, Inv, TypeOK, Rows
  <2> QED
    BY <2>1, <2>2, <2>3, RowsMoveKeepInv DEF TimePasses, Inv, TypeOK
<1>2. CASE DispatchList
  BY <1>2, RowsMoveKeepInv DEF DispatchList, Listed, Inv, TypeOK, Rows
<1>3. CASE DispatchSend
  BY <1>3, RowsMoveKeepInv DEF DispatchSend, Accepted, Inv, TypeOK
<1>4. CASE DispatchSendFails
  BY <1>4, RowsMoveKeepInv, Sizes DEF DispatchSendFails, Fault, Accepted, Inv, TypeOK
<1>5. CASE DispatchMark
  BY <1>5, RowsMoveKeepInv DEF DispatchMark, NextToSend, IdleDispatcher, Inv, TypeOK, Rows
<1>6. CASE DispatchAborts
  BY <1>6, RowsMoveKeepInv, Sizes DEF DispatchAborts, Fault, IdleDispatcher, Inv, TypeOK
<1> QED
  BY <1>0, <1>1, <1>2, <1>3, <1>4, <1>5, <1>6 DEF Dispatch

(* The snapshot of a worker's earliest fact, and what it may become. *)
LEMMA WalkersAreTyped ==
  ASSUME Inv, NEW w \in Workers, worker[w].step \in {"walk", "write"}
  PROVE  /\ worker[w] \in WorkerRecords /\ worker[w].todo # {}
         /\ worker[w].todo \subseteq Facts /\ worker[w].run \in Runs
         /\ Earliest(w) \in worker[w].todo /\ Earliest(w) \in Facts
         /\ Earliest(w).run \in Runs /\ Earliest(w).as \in History
         /\ \A g \in worker[w].todo : Earliest(w).run <= g.run
         /\ snapshot[Earliest(w).run].facts \subseteq Facts
         /\ Summaries(w) \subseteq Snapshots
<1>1. /\ worker[w] \in WorkerRecords /\ worker[w].todo # {}
      /\ worker[w].run \in Runs
      /\ worker[w].todo \subseteq Facts /\ worker[w].parent \subseteq Facts
  BY DEF Inv, TypeOK, HasHistory, WorkerRecords
<1>2. /\ Earliest(w) \in worker[w].todo /\ Earliest(w) \in Facts
      /\ Earliest(w).run \in Runs /\ Earliest(w).as \in History
      /\ \A g \in worker[w].todo : Earliest(w).run <= g.run
  BY <1>1, EarliestIsFirst
<1>3. Summaries(w) \subseteq Snapshots
  BY <1>1, <1>2 DEF Summaries, Snapshots
<1>4. snapshot[Earliest(w).run].facts \subseteq Facts
  BY <1>2 DEF Inv, TypeOK, Snapshots
<1> QED
  BY <1>1, <1>2, <1>3, <1>4

(* A worker that goes on holds what it held and has something to do. *)
LEMMA WorkerKeepsInv ==
  ASSUME Inv, NEW w \in Workers, NEW d \in WorkerRecords, Put(w, d),
         d.step \in Holders => worker[w].step \in Holders,
         d.step # "idle" => d.run \in Runs,
         d.step \in {"walk", "write"} => d.todo # {},
         snapshot' \in [Runs -> Snapshots],
         UNCHANGED <<run, outbox, redis, lock, dispatcher, faults, kept>>
  PROVE  Inv'
<1>1. worker' \in [Workers -> WorkerRecords]
  BY DEF Put, Inv, TypeOK
<1>2. Enlisted' = Enlisted
  BY DEF Enlisted
<1>3. TypeOK'
  BY <1>1 DEF Inv, TypeOK
<1>4. LockHeld' /\ HasHistory'
  BY DEF Put, Inv, TypeOK, LockHeld, HasHistory
<1> QED
  BY <1>2, <1>3, <1>4 DEF Inv

(* What a worker becomes when it has walked past a fact. *)
Past(w, facts) ==
  [worker[w] EXCEPT !.parent = facts, !.todo = worker[w].todo \ {Earliest(w)},
     !.step = IF worker[w].todo \ {Earliest(w)} = {} THEN "release" ELSE "walk"]

(* Walked puts that record, of the same run and with less to do. *)
LEMMA PastIsTyped ==
  ASSUME Inv, NEW w \in Workers, worker[w].step \in {"walk", "write"},
         NEW facts \in SUBSET Facts
  PROVE  /\ Past(w, facts) \in WorkerRecords
         /\ Past(w, facts).run = worker[w].run /\ Past(w, facts).parent = facts
         /\ Past(w, facts).todo = worker[w].todo \ {Earliest(w)}
         /\ \/ Past(w, facts).step = "release" /\ Past(w, facts).todo = {}
            \/ Past(w, facts).step = "walk" /\ Past(w, facts).todo # {}
         /\ Walked(w, facts) <=> Put(w, Past(w, facts))
<1>1. worker[w] \in WorkerRecords
  BY WalkersAreTyped
<1> QED
  BY <1>1 DEF Past, WorkerRecords, Walked

(* A worker walks or writes: stored, a placeholder, or a summary. *)
LEMMA WalkKeepsInv ==
  ASSUME Inv, NEW w \in Workers, WorkerWalk(w) \/ WorkerWrite(w)
  PROVE  Inv'
<1> DEFINE r == Earliest(w).run
<1>1. worker[w].step \in {"walk", "write"}
  BY DEF WorkerWalk, WorkerWrite, At
<1>2. /\ worker[w] \in WorkerRecords /\ worker[w].todo # {} /\ r \in Runs
      /\ worker[w].run \in Runs /\ snapshot[r].facts \subseteq Facts /\ Summaries(w) \subseteq Snapshots
      /\ snapshot \in [Runs -> Snapshots]
  BY <1>1, WalkersAreTyped DEF Inv, TypeOK
<1>3. UNCHANGED <<run, outbox, redis, lock, dispatcher, faults, kept>>
  BY DEF WorkerWalk, WorkerWrite
<1>4. CASE Finished(r)
  <2>1. Walked(w, snapshot[r].facts) /\ snapshot' = snapshot
    BY <1>4 DEF WorkerWalk, WorkerWrite
  <2> DEFINE d == Past(w, snapshot[r].facts)
  <2>2. /\ d \in WorkerRecords /\ Put(w, d) /\ d.run \in Runs /\ d.step \in {"release", "walk"}
        /\ d.step \in {"walk", "write"} => d.todo # {}
    <3> HIDE DEF r
    <3> QED BY <1>1, <1>2, <2>1, PastIsTyped
  <2> HIDE DEF d
  <2> QED
    BY <1>1, <1>2, <1>3, <2>1, <2>2, WorkerKeepsInv DEF Holders
<1>5. CASE ~Finished(r) /\ WorkerWalk(w)
  <2> DEFINE d == [worker[w] EXCEPT !.step = "write"]
  <2>1. snapshot' = [snapshot EXCEPT ![r].status = "pending"] /\ Put(w, d)
    BY <1>5 DEF WorkerWalk
  <2>2. d \in WorkerRecords /\ d.todo = worker[w].todo /\ d.run \in Runs /\ d.step = "write"
    BY <1>2 DEF WorkerRecords
  <2>3. snapshot' \in [Runs -> Snapshots]
    BY <1>2, <2>1 DEF Snapshots
  <2> HIDE DEF d
  <2> QED
    BY <1>1, <1>2, <1>3, <2>1, <2>2, <2>3, WorkerKeepsInv DEF Holders
<1>6. CASE ~Finished(r) /\ WorkerWrite(w)
  <2>1. PICK s \in Summaries(w) : snapshot' = [snapshot EXCEPT ![r] = s] /\ Walked(w, s.facts)
    BY <1>6 DEF WorkerWrite
  <2>2. s \in Snapshots /\ s.facts \in SUBSET Facts
    BY <1>2 DEF Snapshots
  <2> DEFINE d == Past(w, s.facts)
  <2>3. /\ d \in WorkerRecords /\ Put(w, d) /\ d.run \in Runs /\ d.step \in {"release", "walk"}
        /\ d.step \in {"walk", "write"} => d.todo # {}
    BY <1>1, <1>2, <2>1, <2>2, PastIsTyped
  <2>4. snapshot' \in [Runs -> Snapshots]
    BY <1>2, <2>1, <2>2
  <2> HIDE DEF d
  <2> QED
    BY <1>1, <1>2, <1>3, <2>3, <2>4, WorkerKeepsInv DEF Holders
<1> QED
  BY <1>4, <1>5, <1>6

(* A job that ends, or a worker that starts, moves only its own record,    *)
(* the job and, when it is its own, the lock.                              *)
LEMMA JobMovesKeepInv ==
  ASSUME Inv, NEW w \in Workers, NEW d \in WorkerRecords, Put(w, d),
         d.step \in {"idle", "lock", "load", "ack"}, d.step # "idle" => d.run \in Runs,
         redis' \in [Runs -> {"none", "queued", "started", "abandoned"}],
         outbox' \in [Runs -> Rows], IsFiniteSet(Enlisted'),
         lock' \in {lock, None, w}, lock' = None => lock \in {w, None},
         lock' = w => lock \in {w, None}, d.step = "load" => lock' = w,
         faults' \in 0 .. MaxFaults,
         UNCHANGED <<run, dispatcher, snapshot, kept>>
  PROVE  Inv'
<1>1. worker' \in [Workers -> WorkerRecords]
  BY DEF Put, Inv, TypeOK
<1>4. TypeOK'
  BY <1>1 DEF Inv, TypeOK
<1>5. HasHistory'
  BY DEF Put, Inv, TypeOK, HasHistory
<1>6. LockHeld'
  BY NoWorker DEF Put, Inv, TypeOK, LockHeld, Holders
<1> QED
  BY <1>4, <1>5, <1>6 DEF Inv

(* A worker starts, takes the lock, acknowledges or fails. *)
LEMMA JobsKeepInv ==
  ASSUME Inv, NEW w \in Workers,
         \/ WorkerStart(w) \/ WorkerLock(w) \/ WorkerAck(w) \/ WorkerFails(w)
  PROVE  Inv'
<1>0. worker[w] \in WorkerRecords /\ IdleWorker \in WorkerRecords /\ IdleWorker.step = "idle"
  BY DEF Inv, TypeOK, WorkerRecords, IdleWorker
<1> DEFINE Jobs == [Runs -> {"none", "queued", "started", "abandoned"}]
<1>b. outbox' = outbox => IsFiniteSet(Enlisted')
  <2>1. outbox' = outbox => Enlisted' = Enlisted
    BY DEF Enlisted
  <2> QED BY <2>1 DEF Inv
<1>a. redis \in Jobs /\ faults \in 0 .. MaxFaults /\ outbox \in [Runs -> Rows]
  BY DEF Inv, TypeOK
<1>1. CASE WorkerStart(w)
  <2>1. PICK r \in Runs : /\ redis' = [redis EXCEPT ![r] = "started"]
                          /\ Put(w, [IdleWorker EXCEPT !.step = "lock", !.run = r])
    BY <1>1 DEF WorkerStart
  <2>2. PICK d : d = [IdleWorker EXCEPT !.step = "lock", !.run = r]
    OBVIOUS
  <2>3. d \in WorkerRecords /\ d.step = "lock" /\ d.run \in Runs
    BY <1>0, <2>2 DEF WorkerRecords
  <2> QED
    BY <1>1, <1>a, <1>b, <2>1, <2>2, <2>3, JobMovesKeepInv, NoWorker DEF WorkerStart
<1>2. CASE WorkerLock(w)
  <2>2. PICK d : d = [worker[w] EXCEPT !.step = "load"]
    OBVIOUS
  <2>3. d \in WorkerRecords /\ d.step = "load" /\ d.run \in Runs
    BY <1>0, <1>2, <2>2 DEF WorkerRecords, WorkerLock, At, Inv, HasHistory
  <2> QED
    BY <1>2, <1>a, <1>b, <2>2, <2>3, JobMovesKeepInv, NoWorker DEF WorkerLock
<1>3. CASE WorkerAck(w)
  <2>1. redis' \in Jobs /\ Put(w, IdleWorker)
    BY <1>3, <1>a DEF WorkerAck, JobEnds
  <2>2. outbox' \in [Runs -> Rows]
    BY <1>3, <1>a DEF WorkerAck, Rows
  <2>3. Enlisted' \subseteq Enlisted \cup {worker[w].run}
    BY <1>3, <1>a DEF WorkerAck, Rows, Enlisted
  <2>4. IsFiniteSet(Enlisted')
    <3>1. IsFiniteSet(Enlisted \cup {worker[w].run})
      BY FS_AddElement DEF Inv
    <3> QED BY <2>3, <3>1, FS_Subset
  <2> QED
    BY <1>3, <1>a, <1>0, <2>1, <2>2, <2>4, JobMovesKeepInv, NoWorker DEF WorkerAck
<1>4. CASE WorkerFails(w)
  <2>1. redis' \in Jobs /\ Put(w, IdleWorker)
    BY <1>4, <1>a DEF WorkerFails, JobEnds
  <2>2. faults' \in 0 .. MaxFaults
    BY <1>4, FaultIsCounted DEF WorkerFails
  <2> QED
    BY <1>4, <1>a, <1>b, <1>0, <2>1, <2>2, JobMovesKeepInv, NoWorker DEF WorkerFails
<1> QED
  BY <1>1, <1>2, <1>3, <1>4

(* Every step keeps the invariant. *)
LEMMA NextKeepsInv ==
  ASSUME Inv, [Next]_vars
  PROVE  Inv'
<1>1. CASE \E r \in Runs : RunCreate(r) \/ RunFinish(r) \/ RunCancel(r) \/ RunRevive(r)
  BY <1>1, RunsKeepInv
<1>2. CASE Dispatch \/ \E r \in Runs : TimePasses(r) \/ JobDropped(r)
  BY <1>2, DispatcherKeepsInv
<1>3. ASSUME NEW w \in Workers, WorkerLoad(w)
      PROVE  Inv'
  <2> DEFINE history == {f \in Facts : f.run <= worker[w].run /\ run[f.run] = f.as}
  <2>0. worker[w] \in WorkerRecords /\ worker[w].step = "load" /\ worker[w].run \in Runs
    BY <1>3 DEF WorkerLoad, At, Inv, TypeOK, HasHistory
  <2>1. CASE run[worker[w].run] \in History
    <3>1. PICK d : d = [worker[w] EXCEPT !.step = "walk", !.todo = history]
      OBVIOUS
    <3>2. Put(w, d)
      BY <1>3, <2>1, <3>1 DEF WorkerLoad
    <3>3. d \in WorkerRecords /\ d.step = "walk" /\ d.todo = history /\ d.run \in Runs
      BY <2>0, <3>1 DEF WorkerRecords
    <3>5. history # {}
      <4>1. PICK f : f = [run |-> worker[w].run, as |-> run[worker[w].run]]
        OBVIOUS
      <4>2. f \in Facts /\ f.run = worker[w].run /\ f.as = run[f.run]
        BY <2>0, <2>1, <4>1 DEF Facts
      <4>3. f.run <= worker[w].run
        <5>1. PICK n \in Nat : n = worker[w].run
          BY <2>0, Sizes
        <5>2. n <= n
          BY <5>1
        <5> QED
          BY <4>2, <5>1, <5>2
      <4> QED BY <4>2, <4>3
    <3> QED
      BY <1>3, <2>0, <3>2, <3>3, <3>5, WorkerKeepsInv DEF WorkerLoad, Holders, Inv, TypeOK
  <2>2. CASE run[worker[w].run] \notin History
    <3>1. PICK d : d = [worker[w] EXCEPT !.step = "release"]
      OBVIOUS
    <3>2. Put(w, d)
      BY <1>3, <2>2, <3>1 DEF WorkerLoad
    <3>3. d \in WorkerRecords /\ d.step = "release" /\ d.run \in Runs
      BY <2>0, <3>1 DEF WorkerRecords
    <3> QED
      BY <1>3, <2>0, <3>2, <3>3, WorkerKeepsInv DEF WorkerLoad, Holders, Inv, TypeOK
  <2> QED
    BY <2>1, <2>2
<1>4. ASSUME NEW w \in Workers, WorkerRelease(w)
      PROVE  Inv'
  <2>0. /\ worker[w] \in WorkerRecords /\ IdleWorker \in WorkerRecords
        /\ IdleWorker.step = "idle" /\ faults \in 0 .. MaxFaults
        /\ outbox' = outbox /\ outbox \in [Runs -> Rows]
        /\ redis \in [Runs -> {"none", "queued", "started", "abandoned"}]
    BY <1>4 DEF WorkerRelease, Inv, TypeOK, WorkerRecords, IdleWorker
  <2>1. IsFiniteSet(Enlisted')
    <3>1. Enlisted' = Enlisted
      BY <2>0 DEF Enlisted
    <3> QED BY <3>1 DEF Inv
  <2>2. CASE lock = w
    <3>1. PICK d : d = [worker[w] EXCEPT !.step = "ack"]
      OBVIOUS
    <3>2. d \in WorkerRecords /\ d.step = "ack" /\ d.run \in Runs
      BY <1>4, <2>0, <3>1 DEF WorkerRecords, WorkerRelease, At, Inv, HasHistory
    <3> QED
      BY <1>4, <2>0, <2>1, <2>2, <3>1, <3>2, JobMovesKeepInv, NoWorker DEF WorkerRelease
  <2>3. CASE lock # w
    <3>1. redis' \in [Runs -> {"none", "queued", "started", "abandoned"}]
      BY <1>4, <2>0, <2>3 DEF WorkerRelease, JobEnds
    <3> QED
      BY <1>4, <2>0, <2>1, <2>3, <3>1, JobMovesKeepInv, NoWorker DEF WorkerRelease, JobEnds
  <2> QED
    BY <2>2, <2>3
<1>5. CASE \E w \in Workers : Work(w) \/ WorkerFails(w)
  BY <1>3, <1>4, <1>5, WalkKeepsInv, JobsKeepInv DEF Work
<1>6. CASE Crash
  <2>0. faults' \in 0 .. MaxFaults
    BY <1>6, FaultIsCounted DEF Crash
  <2>1. TypeOK'
    BY <1>6, <2>0 DEF Crash, Inv, TypeOK, IdleWorker, WorkerRecords, IdleDispatcher
  <2>2. Enlisted' = Enlisted /\ LockHeld' /\ HasHistory'
    BY <1>6 DEF Crash, Enlisted, LockHeld, HasHistory, Holders, IdleWorker
  <2> QED
    BY <2>1, <2>2 DEF Inv
<1>7. CASE LockExpires \/ RedisLost
  <2>0. faults' \in 0 .. MaxFaults
    BY <1>7, FaultIsCounted DEF LockExpires, RedisLost, Inv, TypeOK
  <2>1. TypeOK'
    BY <1>7, <2>0 DEF LockExpires, RedisLost, Inv, TypeOK
  <2>2. Enlisted' = Enlisted /\ HasHistory'
    BY <1>7 DEF LockExpires, RedisLost, Enlisted, HasHistory, Inv
  <2>3. LockHeld'
    <3>1. CASE LockExpires
      BY <1>7, <3>1, NoWorker DEF LockExpires, LockHeld, Holders, Inv
    <3>2. CASE RedisLost
      BY <3>2 DEF RedisLost, LockHeld
    <3> QED
      BY <1>7, <3>1, <3>2
  <2> QED
    BY <2>1, <2>2, <2>3 DEF Inv
<1>8. CASE UNCHANGED vars
  <2>1. Enlisted' = Enlisted
    BY <1>8 DEF vars, Enlisted
  <2> QED
    BY <1>8, <2>1 DEF vars, Inv, TypeOK, LockHeld, HasHistory
<1> QED
  BY <1>1, <1>2, <1>5, <1>6, <1>7, <1>8 DEF Next

-----------------------------------------------------------------------------
(* The invariant holds, whatever faults happen. *)
THEOREM InvHolds == Spec => []Inv
<1> QED
  BY InitHasInv, NextKeepsInv, PTL DEF Spec

(* Outbox, queue, lock and workers keep their types; as long as Redis      *)
(* keeps its data, one worker at a time asks the model about the           *)
(* conversation: the lock is given back by its holder, and expires only    *)
(* for workers that no longer use it.                                      *)
THEOREM WorkersStayConsistent == Spec => []WorkersConsistent
<1>1. Inv => WorkersConsistent
  BY DEF Inv, WorkersConsistent, OneCompactionAtATime, LockHeld, Holders
<1> QED
  BY <1>1, InvHolds, PTL

(* No step touches a finished snapshot. *)
LEMMA SnapshotsLast ==
  ASSUME Inv, [Next]_vars
  PROVE  Lasting
<1> SUFFICES ASSUME NEW r \in Runs, Finished(r)
             PROVE  snapshot'[r] = snapshot[r]
  BY DEF Lasting
<1>1. CASE UNCHANGED snapshot
  BY <1>1
<1>2. ASSUME NEW w \in Workers, WorkerWalk(w) \/ WorkerWrite(w)
      PROVE  snapshot'[r] = snapshot[r]
  BY <1>2 DEF Inv, TypeOK, WorkerWalk, WorkerWrite
<1>3. UNCHANGED snapshot \/ \E w \in Workers : WorkerWalk(w) \/ WorkerWrite(w)
  BY DEF Next, vars, RunCreate, RunFinish, RunCancel, RunRevive, TimePasses, JobDropped,
     Work, WorkerFails, WorkerStart, WorkerLock, WorkerLoad, WorkerRelease, WorkerAck,
     Dispatch, DispatchList, DispatchSend, DispatchSendFails, DispatchMark,
     DispatchAborts, Crash, LockExpires, RedisLost
<1> QED
  BY <1>1, <1>2, <1>3

(* A snapshot is written once: a worker that walks or writes looks at the  *)
(* stored snapshot first, in the transaction that writes.                  *)
THEOREM FinishedSnapshotsStand == Spec => SnapshotsWrittenOnce
<1>1. Inv /\ [Next]_vars => [\A r \in Runs : Finished(r) => snapshot'[r] = snapshot[r]]_vars
  BY SnapshotsLast DEF Lasting
<1> QED
  BY <1>1, InvHolds, PTL DEF Spec, SnapshotsWrittenOnce

-----------------------------------------------------------------------------
(* The chain of snapshots, when no run is taken up again.                  *)

(* What a worker has done and has to do stands when the runs up to its own *)
(* and the finished snapshots do.                                          *)
LEMMA OnTheWayStands ==
  ASSUME NEW d \in WorkerRecords, OnTheWay(d), Lasting,
         \A r \in Runs : r <= d.run => run'[r] = run[r]
  PROVE  OnTheWay(d)'
<1>1. \A f \in d.todo : f.run \in Runs
  BY DEF WorkerRecords, Facts
<1>2. ASSUME NEW r \in Runs, Behind(d, r)
      PROVE  Behind(d, r)'
  BY <1>2 DEF Lasting, Behind, Finished
<1>3. ASSUME NEW r \in Runs, r <= d.run, run'[r] \in History
      PROVE  (\E f \in d.todo : f.run = r) \/ Behind(d, r)'
  BY <1>2, <1>3 DEF OnTheWay
<1>4. \A f \in d.todo : run'[f.run] = f.as /\ f.run <= d.run
  BY <1>1 DEF OnTheWay
<1> QED
  BY <1>3, <1>4 DEF OnTheWay

(* The initial state is consistent. *)
LEMMA InitHasChainInv == Init => ChainInv
<1> SUFFICES ASSUME Init PROVE ChainInv
  OBVIOUS
<1>1. Inv
  BY InitHasInv
<1>2. RunsInTurn /\ TasksHaveRuns /\ WorkersHaveRuns
  BY DEF Init, RunsInTurn, TasksHaveRuns, WorkersHaveRuns, History, NoRow, IdleWorker,
     IdleDispatcher
<1>3. SnapshotsInTurn /\ WorkersOnTheWay
  BY DEF Init, SnapshotsInTurn, WorkersOnTheWay, Finished, NoRow, IdleWorker
<1> QED
  BY <1>1, <1>2, <1>3 DEF ChainInv

(* A run that is created, ends or is cancelled: all earlier ones have      *)
(* ended, and so nothing that a worker or a snapshot rests on moves.       *)
LEMMA RunsKeepChain ==
  ASSUME ChainInv, Inv', NEW r \in Runs, RunCreate(r) \/ RunFinish(r) \/ RunCancel(r)
  PROVE  ChainInv'
<1>0. /\ Runs \subseteq Nat /\ run[r] \in {"absent", "open"}
      /\ run \in [Runs -> History \cup {"absent", "open", "cancelled"}]
      /\ worker \in [Workers -> WorkerRecords]
  BY Sizes DEF ChainInv, Inv, TypeOK, RunCreate, RunFinish, RunCancel
<1>1. /\ UNCHANGED <<redis, lock, dispatcher, worker, snapshot, kept>>
      /\ run'[r] # "absent" /\ \A o \in Runs \ {r} : run'[o] = run[o]
  BY <1>0 DEF RunCreate, RunFinish, RunCancel, History
<1>2. RunsInTurn'
  BY <1>0, <1>1 DEF RunsInTurn, ChainInv, RunCreate, RunFinish, RunCancel, NoOpenRun,
     History
<1>3. TasksHaveRuns'
  <2>1. CASE RunFinish(r)
    <3>1. run'[r] \in History
      BY <1>0, <2>1 DEF RunFinish
    <3>2. \A o \in Runs : outbox'[o].status # "none" <=> o \in Enlisted \cup {r}
      <4>1. outbox' = Enqueued(r)
        BY <2>1 DEF RunFinish
      <4> QED
        BY <4>1, EnqueuedIsTyped DEF ChainInv
    <3> QED
      BY <1>1, <3>1, <3>2 DEF TasksHaveRuns, ChainInv, Enlisted
  <2>2. CASE RunCreate(r) \/ RunCancel(r)
    BY <1>0, <1>1, <2>2 DEF TasksHaveRuns, ChainInv, RunCreate, RunCancel, History
  <2> QED
    BY <2>1, <2>2
<1>4. WorkersHaveRuns'
  BY <1>0, <1>1 DEF WorkersHaveRuns, ChainInv, Inv, HasHistory, History
<1>5. SnapshotsInTurn'
  <2>1. \A o \in Runs : outbox'[o].status = "processed" => outbox[o].status = "processed"
    <3>1. outbox' = outbox \/ outbox' = Enqueued(r)
      BY DEF RunCreate, RunFinish, RunCancel
    <3>2. \A o \in Runs : Enqueued(r)[o].status = "processed" =>
                         outbox[o].status = "processed"
      BY EnqueuedIsTyped DEF ChainInv
    <3> QED
      BY <3>1, <3>2
  <2>2. ASSUME NEW o \in Runs, NEW q \in Runs, Finished(o), q < o, run'[q] \in History
        PROVE  run[q] \in History
    <3>1. run[o] # "absent"
      BY <2>2 DEF ChainInv, SnapshotsInTurn, History
    <3>2. run[q] \notin {"absent", "open"}
      BY <2>2, <3>1 DEF ChainInv, RunsInTurn
    <3> QED
      BY <1>0, <1>1, <2>2, <3>2
  <2> QED
    BY <1>0, <1>1, <2>1, <2>2 DEF SnapshotsInTurn, ChainInv, Finished, History
<1>6. WorkersOnTheWay'
  <2>1. ASSUME NEW w \in Workers, worker[w].step \in {"walk", "write"}
        PROVE  OnTheWay(worker[w])'
    <3>1. /\ worker[w].run \in Runs /\ run[worker[w].run] \in History
          /\ OnTheWay(worker[w]) /\ worker[w] \in WorkerRecords
      BY <1>0, <2>1 DEF ChainInv, Inv, HasHistory, WorkersHaveRuns, WorkersOnTheWay
    <3>2. \A o \in Runs : o <= worker[w].run => run'[o] = run[o]
      <4>1. ~(r <= worker[w].run)
        <5>1. PICK o \in Runs : o = worker[w].run
          BY <3>1
        <5>2. run[o] # "absent" /\ r # o
          BY <1>0, <3>1, <5>1 DEF History
        <5>3. ~(r < o)
          BY <1>0, <5>2 DEF ChainInv, RunsInTurn
        <5>4. r \in Nat /\ o \in Nat
          BY <1>0
        <5> QED
          BY <5>1, <5>2, <5>3, <5>4
      <4> QED
        BY <1>1, <4>1
    <3>3. PICK d \in WorkerRecords : d = worker[w]
      BY <3>1
    <3>4. Lasting
      BY <1>1 DEF Lasting
    <3>5. OnTheWay(d)'
      BY <3>1, <3>2, <3>3, <3>4, OnTheWayStands
    <3> QED
      BY <1>1, <3>3, <3>5 DEF OnTheWay, Behind
  <2>2. ASSUME NEW w \in Workers, worker[w].step \in {"release", "ack"}
        PROVE  Finished(worker[w].run)'
    BY <1>1, <2>2 DEF ChainInv, WorkersOnTheWay, Finished
  <2> QED
    BY <1>1, <2>1, <2>2 DEF WorkersOnTheWay
<1> QED
  BY <1>2, <1>3, <1>4, <1>5, <1>6 DEF ChainInv

(* A step that moves neither runs nor snapshots: rows, jobs and batches    *)
(* stay about runs of the history, workers stay on their way or stop.      *)
LEMMA TasksKeepChain ==
  ASSUME ChainInv, Inv', UNCHANGED <<run, snapshot>>, TasksHaveRuns', WorkersHaveRuns',
         \A r \in Runs : outbox'[r].status = "processed" =>
           outbox[r].status = "processed" \/ Finished(r),
         \A w \in Workers :
           \/ worker'[w] = worker[w]
           \/ worker'[w].step \in {"idle", "lock", "load"}
           \/ worker'[w].step \in {"walk", "write"} /\ OnTheWay(worker'[w])
           \/ worker'[w].step \in {"release", "ack"} /\ Finished(worker'[w].run)
  PROVE  ChainInv'
<1>1. RunsInTurn' /\ SnapshotsInTurn'
  BY DEF ChainInv, RunsInTurn, SnapshotsInTurn, Finished
<1>2. WorkersOnTheWay'
  BY DEF ChainInv, WorkersOnTheWay, OnTheWay, Behind, Finished
<1> QED
  BY <1>1, <1>2 DEF ChainInv

(* The clock, a dropped job and every step of the dispatcher. *)
LEMMA DispatcherKeepsChain ==
  ASSUME ChainInv, Inv', Dispatch \/ \E r \in Runs : TimePasses(r) \/ JobDropped(r)
  PROVE  ChainInv'
<1>0. /\ TypeOK /\ outbox \in [Runs -> Rows] /\ TasksHaveRuns
      /\ redis \in [Runs -> {"none", "queued", "started", "abandoned"}]
  BY DEF ChainInv, Inv, TypeOK
<1>1. UNCHANGED <<run, snapshot, worker>>
  BY DEF Dispatch, DispatchList, DispatchSend, DispatchSendFails, DispatchMark,
     DispatchAborts, TimePasses, JobDropped
<1>2. /\ \A r \in Runs : outbox'[r].status # "none" <=> outbox[r].status # "none"
      /\ \A r \in Runs : outbox'[r].status = "processed" => outbox[r].status = "processed"
  <2>1. CASE DispatchList \/ DispatchMark \/ \E r \in Runs : TimePasses(r)
    BY <1>0, <2>1 DEF DispatchList, DispatchMark, TimePasses, Rows
  <2>2. CASE UNCHANGED outbox
    BY <2>2
  <2> QED
    BY <2>1, <2>2 DEF Dispatch, DispatchSend, DispatchSendFails, DispatchAborts, JobDropped
<1>3. \A r \in Runs : redis'[r] # "none" \/ r \in dispatcher'.todo => run[r] \in History
  <2>1. CASE DispatchList
    <3>1. /\ redis' = redis
          /\ \A r \in dispatcher'.todo : outbox[r].status # "none"
      BY <2>1 DEF DispatchList, Listed
    <3> QED
      BY <1>0, <3>1 DEF TasksHaveRuns
  <2>2. CASE DispatchSend \/ DispatchSendFails
    <3>1. Sending \in dispatcher.todo /\ Sending \in Runs
      BY <1>0, <2>2, SendingIsListed DEF DispatchSend, DispatchSendFails
    <3>2. /\ dispatcher'.todo = dispatcher.todo
          /\ \A r \in Runs : redis'[r] # "none" => redis[r] # "none" \/ r = Sending
      BY <1>0, <2>2 DEF DispatchSend, DispatchSendFails, Accepted, TypeOK
    <3> QED
      BY <1>0, <3>1, <3>2 DEF TasksHaveRuns
  <2>3. CASE DispatchMark
    <3>1. redis' = redis /\ dispatcher'.todo \subseteq dispatcher.todo
      BY <2>3 DEF DispatchMark, NextToSend, IdleDispatcher
    <3> QED
      BY <1>0, <3>1 DEF TasksHaveRuns
  <2>4. CASE DispatchAborts \/ \E r \in Runs : TimePasses(r) \/ JobDropped(r)
    BY <1>0, <2>4 DEF DispatchAborts, TimePasses, JobDropped, IdleDispatcher, TasksHaveRuns
  <2> QED
    BY <2>1, <2>2, <2>3, <2>4 DEF Dispatch
<1>4. TasksHaveRuns' /\ WorkersHaveRuns'
  BY <1>1, <1>2, <1>3 DEF ChainInv, TasksHaveRuns, WorkersHaveRuns
<1> QED
  BY <1>1, <1>2, <1>4, TasksKeepChain

(* A worker that walks past a fact whose snapshot is finished and holds    *)
(* what the earlier ones do goes on well, or is done with its own run.     *)
LEMMA PastIsOnTheWay ==
  ASSUME ChainInv, NEW w \in Workers, worker[w].step \in {"walk", "write"},
         NEW e, e = Earliest(w), NEW facts \in SUBSET Facts, NEW d, d = Past(w, facts),
         run' = run, Lasting, Finished(e.run)', snapshot'[e.run].facts \subseteq facts,
         \A r \in Runs : r < e.run /\ run[r] \in History =>
           Finished(r) /\ snapshot[r].facts \subseteq facts
  PROVE  /\ d.step \in {"walk", "write"} => OnTheWay(d)'
         /\ d.step \in {"release", "ack"} => Finished(d.run)'
<1>0. /\ worker[w].todo \subseteq Facts /\ worker[w].run \in Runs /\ OnTheWay(worker[w])
      /\ e \in worker[w].todo /\ e \in Facts /\ e.run \in Runs
      /\ \A g \in worker[w].todo : e.run <= g.run
  BY WalkersAreTyped DEF ChainInv, WorkersOnTheWay
<1>1. /\ d.run = worker[w].run /\ d.parent = facts /\ d.todo = worker[w].todo \ {e}
      /\ \/ d.step = "release" /\ d.todo = {}
         \/ d.step = "walk" /\ d.todo # {}
  BY PastIsTyped DEF ChainInv
<1>2. Runs \subseteq Nat
  BY Sizes
<1>3. \A g \in d.todo : g \in Facts /\ g.run \in Runs /\ e.run < g.run
  <2>1. ASSUME NEW g \in d.todo PROVE g.run # e.run
    <3>1. g \in Facts /\ g.as = run[g.run] /\ e.as = run[e.run] /\ g # e
      BY <1>0, <1>1 DEF OnTheWay
    <3>2. g = [run |-> g.run, as |-> g.as] /\ e = [run |-> e.run, as |-> e.as]
      BY <1>0, <3>1 DEF Facts
    <3> QED
      BY <3>1, <3>2
  <2>2. ASSUME NEW g \in d.todo PROVE g \in Facts /\ g.run \in Runs /\ e.run <= g.run
    BY <1>0, <1>1 DEF Facts
  <2>3. \A n, m \in Nat : n <= m /\ n # m => n < m
    OBVIOUS
  <2> QED
    BY <1>0, <1>2, <2>1, <2>2, <2>3
<1>4. CASE d.step = "release"
  BY <1>0, <1>1, <1>4 DEF OnTheWay
<1>5. CASE d.step = "walk"
  <2>1. /\ \A f \in d.todo : run[f.run] = f.as /\ f.run <= d.run
        /\ \E f \in d.todo : f.run = d.run
    <3>1. \A f \in d.todo : run[f.run] = f.as /\ f.run <= d.run
      BY <1>0, <1>1 DEF OnTheWay
    <3>2. PICK g \in d.todo : TRUE
      BY <1>1, <1>5
    <3>3. e.run # d.run
      <4>1. e.run < g.run /\ g.run <= d.run /\ e.run \in Nat /\ g.run \in Nat /\ d.run \in Nat
        BY <1>0, <1>1, <1>2, <1>3, <3>1, <3>2
      <4> QED BY <4>1
    <3>4. \E f \in d.todo : f.run = d.run
      BY <1>0, <1>1, <3>3 DEF OnTheWay
    <3> QED
      BY <3>1, <3>4
  <2>2. ASSUME NEW r \in Runs, r <= d.run, run[r] \in History
        PROVE  (\E f \in d.todo : f.run = r) \/ Behind(d, r)'
    <3>1. CASE r = e.run
      BY <1>1, <1>3, <3>1 DEF Behind
    <3>2. CASE r # e.run /\ \E f \in worker[w].todo : f.run = r
      BY <1>1, <3>2
    <3>3. CASE r # e.run /\ ~\E f \in worker[w].todo : f.run = r
      <4>1. Behind(worker[w], r)
        BY <1>0, <1>1, <2>2, <3>3 DEF OnTheWay
      <4>2. r < e.run
        BY <1>0, <4>1 DEF Behind
      <4>3. Finished(r) /\ snapshot[r].facts \subseteq facts /\ snapshot'[r] = snapshot[r]
        BY <2>2, <4>2 DEF Lasting
      <4>4. \A f \in d.todo : r < f.run
        BY <1>1, <4>1 DEF Behind
      <4> QED
        BY <1>1, <4>3, <4>4 DEF Behind, Finished
    <3> QED
      BY <3>1, <3>2, <3>3
  <2>3. OnTheWay(d)'
    BY <2>1, <2>2 DEF OnTheWay
  <2> QED
    BY <1>5, <2>3
<1> QED
  BY <1>1, <1>4, <1>5

(* A worker walks: nothing moves but its record and the snapshot it is at. *)
LEMMA WalkKeepsChain ==
  ASSUME ChainInv, Inv', [Next]_vars, NEW w \in Workers, WorkerWalk(w) \/ WorkerWrite(w)
  PROVE  ChainInv'
<1>1. PICK e : e = Earliest(w)
  OBVIOUS
<1>2. worker[w].step \in {"walk", "write"} /\ Inv
  BY DEF WorkerWalk, WorkerWrite, At, ChainInv
<1>3. /\ worker[w] \in WorkerRecords /\ worker[w].run \in Runs /\ OnTheWay(worker[w])
      /\ e \in worker[w].todo /\ e.run \in Runs /\ run[e.run] = e.as /\ e.as \in History
      /\ e.run <= worker[w].run
      /\ \A g \in worker[w].todo : e.run <= g.run
      /\ snapshot[e.run].facts \subseteq Facts /\ Summaries(w) \subseteq Snapshots
  BY <1>1, <1>2, WalkersAreTyped DEF ChainInv, WorkersOnTheWay, OnTheWay
<1>4. /\ UNCHANGED <<run, outbox, redis, lock, dispatcher, faults, kept>>
      /\ snapshot \in [Runs -> Snapshots] /\ worker \in [Workers -> WorkerRecords]
      /\ Runs \subseteq Nat
  BY <1>2, Sizes DEF WorkerWalk, WorkerWrite, Inv, TypeOK
<1>5. Lasting
  BY <1>2, SnapshotsLast
<1>6. \A r \in Runs : r < e.run /\ run[r] \in History => Behind(worker[w], r)
  <2>1. ASSUME NEW r \in Runs, r < e.run, run[r] \in History
        PROVE  Behind(worker[w], r)
    <3>1. r \in Nat /\ e.run \in Nat /\ worker[w].run \in Nat
      BY <1>3, <1>4
    <3>2. r <= worker[w].run /\ ~(e.run <= r)
      BY <1>3, <2>1, <3>1
    <3> QED
      BY <1>3, <2>1, <3>2 DEF OnTheWay
  <2> QED
    BY <2>1
<1>7. ASSUME NEW d \in WorkerRecords, Put(w, d), d.run = worker[w].run,
             \A r \in Runs \ {e.run} : snapshot'[r] = snapshot[r],
             Finished(e.run)' /\ ~Finished(e.run) =>
               worker[w].parent \subseteq snapshot'[e.run].facts,
             d.step \in {"walk", "write"} => OnTheWay(d)',
             d.step \in {"release", "ack"} => Finished(d.run)',
             d.step # "idle"
      PROVE  ChainInv'
  <2>1. worker'[w] = d /\ \A v \in Workers \ {w} : worker'[v] = worker[v]
    BY <1>4, <1>7 DEF Put
  <2>2. RunsInTurn' /\ TasksHaveRuns' /\ WorkersHaveRuns'
    BY <1>2, <1>4, <1>7, <2>1 DEF ChainInv, RunsInTurn, TasksHaveRuns, WorkersHaveRuns
  <2>3. SnapshotsInTurn'
    <3>1. ASSUME NEW o \in Runs, NEW r \in Runs, Finished(o)', r < o, run[r] \in History
          PROVE  Finished(r)' /\ snapshot'[r].facts \subseteq snapshot'[o].facts
      <4>1. CASE Finished(o)
        BY <1>5, <3>1, <4>1 DEF ChainInv, SnapshotsInTurn, Lasting, Finished
      <4>2. CASE ~Finished(o)
        <5>1. o = e.run
          BY <1>7, <3>1, <4>2 DEF Finished
        <5>2. Behind(worker[w], r)
          BY <1>6, <3>1, <5>1
        <5>3. Finished(r) /\ snapshot[r].facts \subseteq worker[w].parent
          BY <5>2 DEF Behind
        <5>4. snapshot'[r] = snapshot[r]
          BY <1>5, <5>3 DEF Lasting
        <5>5. worker[w].parent \subseteq snapshot'[o].facts
          BY <1>7, <3>1, <4>2, <5>1
        <5>6. snapshot'[r].facts \subseteq snapshot'[o].facts
          BY <5>3, <5>4, <5>5
        <5> QED
          BY <5>3, <5>4, <5>6 DEF Finished
      <4> QED
        BY <4>1, <4>2
    <3>2. ASSUME NEW o \in Runs, Finished(o)'
          PROVE  run[o] \in History
      BY <1>3, <1>7, <3>2 DEF ChainInv, SnapshotsInTurn, Finished
    <3>3. ASSUME NEW o \in Runs, outbox[o].status = "processed"
          PROVE  Finished(o)'
      BY <1>5, <3>3 DEF ChainInv, SnapshotsInTurn, Lasting, Finished
    <3> QED
      BY <1>4, <3>1, <3>2, <3>3 DEF SnapshotsInTurn
  <2>4. WorkersOnTheWay'
    <3>1. ASSUME NEW v \in Workers \ {w}, worker[v].step \in {"walk", "write"}
          PROVE  OnTheWay(worker[v])'
      <4>1. PICK c : c = worker[v]
        OBVIOUS
      <4>2. c \in WorkerRecords /\ OnTheWay(c)
        BY <1>4, <3>1, <4>1 DEF ChainInv, WorkersOnTheWay
      <4>3. OnTheWay(c)'
        BY <1>4, <1>5, <4>2, OnTheWayStands
      <4>4. worker'[v] = c
        BY <2>1, <4>1
      <4> QED
        BY <4>3, <4>4 DEF OnTheWay, Behind
    <3>2. ASSUME NEW v \in Workers \ {w}, worker[v].step \in {"release", "ack"}
          PROVE  Finished(worker[v].run)'
      <4>1. Finished(worker[v].run) /\ worker[v].run \in Runs /\ worker'[v] = worker[v]
        BY <1>2, <2>1, <3>2 DEF ChainInv, WorkersOnTheWay, Inv, HasHistory
      <4> QED
        BY <1>5, <4>1 DEF Lasting, Finished
    <3>3. /\ worker'[w].step \in {"walk", "write"} => OnTheWay(worker[w])'
          /\ worker'[w].step \in {"release", "ack"} => Finished(worker[w].run)'
      BY <1>7, <2>1 DEF OnTheWay, Behind, Finished
    <3> QED
      BY <2>1, <3>1, <3>2, <3>3 DEF WorkersOnTheWay
  <2> QED
    BY <2>2, <2>3, <2>4 DEF ChainInv
<1>8. CASE Finished(e.run)
  <2>1. Walked(w, snapshot[e.run].facts) /\ snapshot' = snapshot
    BY <1>1, <1>8 DEF WorkerWalk, WorkerWrite
  <2>2. PICK d : d = Past(w, snapshot[e.run].facts)
    OBVIOUS
  <2>3. d \in WorkerRecords /\ Put(w, d) /\ d.run = worker[w].run /\ d.step # "idle"
    BY <1>2, <1>3, <2>1, <2>2, PastIsTyped
  <2>4. \A r \in Runs : r < e.run /\ run[r] \in History =>
          Finished(r) /\ snapshot[r].facts \subseteq snapshot[e.run].facts
    BY <1>3, <1>8 DEF ChainInv, SnapshotsInTurn
  <2>5. Finished(e.run)' /\ snapshot'[e.run].facts \subseteq snapshot[e.run].facts
    BY <1>8, <2>1 DEF Finished
  <2>6. /\ d.step \in {"walk", "write"} => OnTheWay(d)'
        /\ d.step \in {"release", "ack"} => Finished(d.run)'
    BY <1>1, <1>2, <1>3, <1>4, <1>5, <2>2, <2>4, <2>5, PastIsOnTheWay
  <2> QED
    BY <1>7, <1>8, <2>1, <2>3, <2>6
<1>9. CASE ~Finished(e.run) /\ WorkerWalk(w)
  <2>1. PICK d : d = [worker[w] EXCEPT !.step = "write"]
    OBVIOUS
  <2>2. snapshot' = [snapshot EXCEPT ![e.run].status = "pending"] /\ Put(w, d)
    BY <1>1, <1>9, <2>1 DEF WorkerWalk
  <2>3. /\ d \in WorkerRecords /\ d.run = worker[w].run /\ d.step = "write"
        /\ d.todo = worker[w].todo /\ d.parent = worker[w].parent
    BY <1>3, <2>1 DEF WorkerRecords
  <2>4. OnTheWay(d)
    BY <1>3, <2>3 DEF OnTheWay, Behind
  <2>5. OnTheWay(d)'
    BY <1>4, <1>5, <2>3, <2>4, OnTheWayStands
  <2>6. ~Finished(e.run)' /\ \A r \in Runs \ {e.run} : snapshot'[r] = snapshot[r]
    BY <1>3, <1>4, <2>2 DEF Finished, Snapshots
  <2> QED
    BY <1>7, <2>2, <2>3, <2>5, <2>6
<1>10. CASE ~Finished(e.run) /\ WorkerWrite(w)
  <2>1. PICK s \in Summaries(w) : snapshot' = [snapshot EXCEPT ![e.run] = s] /\ Walked(w, s.facts)
    BY <1>1, <1>10 DEF WorkerWrite
  <2>2. /\ s \in Snapshots /\ s.facts \in SUBSET Facts
        /\ s.status \in {"completed", "skipped"} /\ worker[w].parent \subseteq s.facts
    BY <1>3, <2>1 DEF Summaries, Snapshots
  <2>3. PICK d : d = Past(w, s.facts)
    OBVIOUS
  <2>4. d \in WorkerRecords /\ Put(w, d) /\ d.run = worker[w].run /\ d.step # "idle"
    BY <1>2, <1>3, <2>1, <2>2, <2>3, PastIsTyped
  <2>5. /\ snapshot'[e.run] = s /\ Finished(e.run)'
        /\ \A r \in Runs \ {e.run} : snapshot'[r] = snapshot[r]
    BY <1>3, <1>4, <2>1, <2>2 DEF Finished
  <2>6. \A r \in Runs : r < e.run /\ run[r] \in History =>
          Finished(r) /\ snapshot[r].facts \subseteq s.facts
    BY <1>6, <2>2 DEF Behind
  <2>7. /\ d.step \in {"walk", "write"} => OnTheWay(d)'
        /\ d.step \in {"release", "ack"} => Finished(d.run)'
    BY <1>1, <1>2, <1>4, <1>5, <2>2, <2>3, <2>5, <2>6, PastIsOnTheWay
  <2> QED
    BY <1>7, <2>2, <2>4, <2>5, <2>7
<1> QED
  BY <1>8, <1>9, <1>10

(* A worker that starts, takes or gives back the lock, loads, acknowledges *)
(* or fails.                                                               *)
LEMMA JobsKeepChain ==
  ASSUME ChainInv, Inv', NEW w \in Workers,
         \/ WorkerStart(w) \/ WorkerLock(w) \/ WorkerLoad(w)
         \/ WorkerRelease(w) \/ WorkerAck(w) \/ WorkerFails(w)
  PROVE  ChainInv'
<1>0. /\ worker \in [Workers -> WorkerRecords] /\ outbox \in [Runs -> Rows]
      /\ redis \in [Runs -> {"none", "queued", "started", "abandoned"}]
      /\ worker[w] \in WorkerRecords /\ Runs \subseteq Nat
      /\ worker[w].step # "idle" => worker[w].run \in Runs /\ run[worker[w].run] \in History
  BY Sizes DEF ChainInv, Inv, TypeOK, HasHistory, WorkersHaveRuns
<1>1. UNCHANGED <<run, dispatcher, snapshot>>
  BY DEF WorkerStart, WorkerLock, WorkerLoad, WorkerRelease, WorkerAck, WorkerFails
<1>2. ASSUME NEW d, Put(w, d),
             d.step # "idle" => d.run \in Runs /\ run[d.run] \in History,
             \/ d.step \in {"idle", "lock", "load"}
             \/ d.step = "walk" /\ OnTheWay(d)
             \/ d.step \in {"release", "ack"} /\ Finished(d.run),
             \A r \in Runs : redis'[r] # "none" => run[r] \in History,
             \A r \in Runs : /\ outbox'[r].status # "none" <=> outbox[r].status # "none"
                             /\ outbox'[r].status = "processed" =>
                                  outbox[r].status = "processed" \/ Finished(r)
      PROVE  ChainInv'
  <2>1. worker'[w] = d /\ \A v \in Workers \ {w} : worker'[v] = worker[v]
    BY <1>0, <1>2 DEF Put
  <2>2. TasksHaveRuns' /\ WorkersHaveRuns'
    BY <1>1, <1>2, <2>1 DEF ChainInv, TasksHaveRuns, WorkersHaveRuns
  <2>3. \A v \in Workers :
          \/ worker'[v] = worker[v]
          \/ worker'[v].step \in {"idle", "lock", "load"}
          \/ worker'[v].step \in {"walk", "write"} /\ OnTheWay(worker'[v])
          \/ worker'[v].step \in {"release", "ack"} /\ Finished(worker'[v].run)
    BY <1>2, <2>1
  <2> QED
    BY <1>1, <1>2, <2>2, <2>3, TasksKeepChain
<1>3. /\ UNCHANGED redis => \A r \in Runs : redis'[r] # "none" => run[r] \in History
      /\ JobEnds(w) => \A r \in Runs : redis'[r] # "none" => run[r] \in History
      /\ UNCHANGED outbox =>
           \A r \in Runs : /\ outbox'[r].status # "none" <=> outbox[r].status # "none"
                           /\ outbox'[r].status = "processed" =>
                                outbox[r].status = "processed" \/ Finished(r)
  BY <1>0 DEF ChainInv, TasksHaveRuns, JobEnds
<1>4. CASE WorkerStart(w)
  <2>1. PICK r \in Runs :
          /\ redis[r] = "queued" /\ redis' = [redis EXCEPT ![r] = "started"]
          /\ Put(w, [IdleWorker EXCEPT !.step = "lock", !.run = r])
    BY <1>4 DEF WorkerStart
  <2>2. PICK d : d = [IdleWorker EXCEPT !.step = "lock", !.run = r]
    OBVIOUS
  <2>3. d.step = "lock" /\ d.run = r /\ run[r] \in History
    BY <2>1, <2>2 DEF IdleWorker, ChainInv, TasksHaveRuns
  <2>4. \A o \in Runs : redis'[o] # "none" => run[o] \in History
    BY <1>0, <2>1 DEF ChainInv, TasksHaveRuns
  <2> QED
    BY <1>2, <1>3, <1>4, <2>1, <2>2, <2>3, <2>4 DEF WorkerStart
<1>5. CASE WorkerLock(w)
  <2>2. PICK d : d = [worker[w] EXCEPT !.step = "load"]
    OBVIOUS
  <2>3. d.step = "load" /\ d.run = worker[w].run /\ worker[w].step = "lock" /\ Put(w, d)
    BY <1>0, <1>5, <2>2 DEF WorkerRecords, WorkerLock, At
  <2> QED
    BY <1>0, <1>2, <1>3, <1>5, <2>3 DEF WorkerLock
<1>6. CASE WorkerLoad(w)
  <2> DEFINE history == {f \in Facts : f.run <= worker[w].run /\ run[f.run] = f.as}
  <2>1. PICK d : d = [worker[w] EXCEPT !.step = "walk", !.todo = history]
    OBVIOUS
  <2>2. /\ worker[w].step = "load" /\ d.run = worker[w].run /\ d.step = "walk"
        /\ d.todo = history
    BY <1>0, <1>6, <2>1 DEF WorkerRecords, WorkerLoad, At
  <2>3. Put(w, d)
    BY <1>0, <1>6, <2>1, <2>2 DEF WorkerLoad
  <2>4. \A r \in Runs : r <= worker[w].run /\ run[r] \in History =>
          \E f \in history : f.run = r
    <3>1. ASSUME NEW r \in Runs, r <= worker[w].run, run[r] \in History
          PROVE  \E f \in history : f.run = r
      <4>1. PICK f : f = [run |-> r, as |-> run[r]]
        OBVIOUS
      <4>2. f \in Facts /\ f.run = r /\ f.as = run[r]
        BY <3>1, <4>1 DEF Facts
      <4> QED
        BY <3>1, <4>2
    <3> QED
      BY <3>1
  <2>5. \E f \in history : f.run = worker[w].run
    <3>1. PICK n \in Runs : n = worker[w].run
      BY <1>0, <2>2
    <3>2. n <= n /\ run[n] \in History
      BY <1>0, <2>2, <3>1
    <3> QED
      BY <2>4, <3>1, <3>2
  <2>6. OnTheWay(d)
    BY <2>2, <2>4, <2>5 DEF OnTheWay
  <2> QED
    BY <1>0, <1>2, <1>3, <1>6, <2>2, <2>3, <2>6 DEF WorkerLoad
<1>7. CASE WorkerRelease(w)
  <2>1. worker[w].step = "release" /\ Finished(worker[w].run)
    BY <1>7 DEF WorkerRelease, At, ChainInv, WorkersOnTheWay
  <2>2. CASE lock = w
    <3>1. PICK d : d = [worker[w] EXCEPT !.step = "ack"]
      OBVIOUS
    <3>2. d.step = "ack" /\ d.run = worker[w].run /\ Put(w, d)
      BY <1>0, <1>7, <2>2, <3>1 DEF WorkerRecords, WorkerRelease
    <3> QED
      BY <1>0, <1>2, <1>3, <1>7, <2>1, <2>2, <3>2 DEF WorkerRelease
  <2>3. CASE lock # w
    BY <1>2, <1>3, <1>7, <2>3 DEF WorkerRelease, JobEnds, IdleWorker
  <2> QED
    BY <2>2, <2>3
<1>8. CASE WorkerAck(w)
  <2>1. /\ worker[w].run \in Runs /\ run[worker[w].run] \in History
        /\ Finished(worker[w].run)
    BY <1>0, <1>8 DEF WorkerAck, At, ChainInv, WorkersOnTheWay
  <2>2. \A r \in Runs :
          /\ outbox'[r].status # "none" <=> outbox[r].status # "none"
          /\ outbox'[r].status = "processed" => outbox[r].status = "processed" \/ Finished(r)
    BY <1>0, <1>8, <2>1 DEF WorkerAck, Rows, ChainInv, TasksHaveRuns
  <2> QED
    BY <1>2, <1>3, <1>8, <2>2 DEF WorkerAck, JobEnds, IdleWorker
<1>9. CASE WorkerFails(w)
  BY <1>2, <1>3, <1>9 DEF WorkerFails, JobEnds, IdleWorker
<1> QED
  BY <1>4, <1>5, <1>6, <1>7, <1>8, <1>9

(* Every step keeps the chain when none takes a run up again. *)
LEMMA NextKeepsChain ==
  ASSUME ChainInv, [Next]_vars, "revive" \notin Faults
  PROVE  ChainInv'
<1>0. Inv'
  BY NextKeepsInv DEF ChainInv
<1>1. CASE \E r \in Runs : RunCreate(r) \/ RunFinish(r) \/ RunCancel(r)
  BY <1>0, <1>1, RunsKeepChain
<1>2. CASE \E r \in Runs : RunRevive(r)
  BY <1>2 DEF RunRevive, Fault
<1>3. CASE Dispatch \/ \E r \in Runs : TimePasses(r) \/ JobDropped(r)
  BY <1>0, <1>3, DispatcherKeepsChain
<1>4. CASE \E w \in Workers : Work(w) \/ WorkerFails(w)
  BY <1>0, <1>4, WalkKeepsChain, JobsKeepChain DEF Work
<1>5. CASE Crash
  <2>1. TasksHaveRuns' /\ WorkersHaveRuns'
    BY <1>5 DEF Crash, ChainInv, TasksHaveRuns, WorkersHaveRuns, IdleWorker, IdleDispatcher
  <2> QED
    BY <1>0, <1>5, <2>1, TasksKeepChain DEF Crash, IdleWorker
<1>6. CASE LockExpires \/ RedisLost \/ UNCHANGED vars
  <2>1. TasksHaveRuns' /\ WorkersHaveRuns'
    BY <1>6 DEF LockExpires, RedisLost, vars, ChainInv, TasksHaveRuns, WorkersHaveRuns
  <2> QED
    BY <1>0, <1>6, <2>1, TasksKeepChain DEF LockExpires, RedisLost, vars
<1> QED
  BY <1>1, <1>2, <1>3, <1>4, <1>5, <1>6 DEF Next

(* The chain holds when no run is taken up again. *)
THEOREM ChainInvHolds ==
  ASSUME "revive" \notin Faults
  PROVE  Spec => []ChainInv
<1>1. ChainInv /\ [Next]_vars => ChainInv'
  BY NextKeepsChain
<1> QED
  BY <1>1, InitHasChainInv, PTL DEF Spec

(* Every completed or failed run keeps its task until its snapshot is      *)
(* there: the row is written with the run's end, and a worker marks it     *)
(* processed only after it has walked the history up to that run.          *)
THEOREM TasksAreKept ==
  ASSUME "revive" \notin Faults
  PROVE  Spec => []TerminalRunsKeepTheirTask
<1>1. ChainInv => TerminalRunsKeepTheirTask
  BY DEF ChainInv, Inv, TypeOK, Rows, TasksHaveRuns, SnapshotsInTurn,
     TerminalRunsKeepTheirTask
<1> QED
  BY <1>1, ChainInvHolds, PTL

(* Snapshots are cumulative, whichever workers wrote them, in one sweep or *)
(* after crashes and lost locks: a worker builds on the stored snapshot of *)
(* the run before, and all earlier runs have ended for good.               *)
THEOREM ChainsAreCumulative ==
  ASSUME "revive" \notin Faults
  PROVE  Spec => []SnapshotChainComplete
<1>1. ChainInv => SnapshotChainComplete
  BY DEF ChainInv, SnapshotsInTurn, SnapshotChainComplete
<1> QED
  BY <1>1, ChainInvHolds, PTL

=============================================================================
