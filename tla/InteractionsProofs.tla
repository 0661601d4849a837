-------------------------- MODULE InteractionsProofs --------------------------
(***************************************************************************)
(* Proofs about Interactions for any number of runs, handlers and rounds.  *)
(*                                                                         *)
(* Inv holds whatever faults happen: positions, on disk and in memory,     *)
(* rest on answers that are stored; handlers know runs that exist, and     *)
(* tell what was committed; a completed run is never taken back.           *)
(*                                                                         *)
(* HoldInv adds that a run has one executor at a time.  It needs that no   *)
(* request is cancelled and that the conversation is not closed while      *)
(* requests run: both let a second handler claim a run that the first one  *)
(* still drives, and TLC shows both.                                       *)
(***************************************************************************)
EXTENDS Interactions, TLAPS

(* The answers a position rests on are stored: those of the interactions   *)
(* it is past, and the call of the one it waits for.                       *)
PosOK(r, p) ==
  /\ p.at \in {"node", "done"} =>
       \A k \in Rounds : k <= p.k => call[r][k] = "decided"
  /\ p.at = "waiting" =>
       /\ p.k \in Rounds /\ call[r][p.k] # "none"
       /\ \A k \in Rounds : k < p.k => call[r][k] = "decided"

RunOK(r) ==
  /\ PosOK(r, graph[r])
  /\ run[r] = "absent" =>
       graph[r].at = "none" /\ \A k \in Rounds : call[r][k] = "none"
  /\ run[r] # "absent" => run[r] \in history[r]
  /\ "completed" \in history[r] => run[r] = "completed"

Committed == {"suspended", "completed"}

HandlerOK(d) ==
  /\ d.step \notin {"idle", "create", "done"} => d.run \in Runs /\ run[d.run] # "absent"
  /\ d.step = "persist" => d.k \in Rounds
  /\ d.step = "stream" => PosOK(d.run, d.pos)
  /\ d.step = "settle" => d.news \in Committed
  /\ d.step = "tell" /\ d.news \in Committed => d.news \in history[d.run]
  /\ d.step # "done" => d.told = "none"
  /\ d.told \in Committed => d.run \in Runs /\ d.told \in history[d.run]

RunsOK == \A r \in Runs : RunOK(r)
HandlersOK == \A h \in Handlers : HandlerOK(handler[h])

Inv == TypeOK /\ RunsOK /\ HandlersOK

(* What a step never takes back: that a run exists, the statuses it had,   *)
(* the calls that are stored, and the answers.                             *)
Grows ==
  \A r \in Runs :
    /\ run[r] # "absent" => run'[r] # "absent"
    /\ history[r] \subseteq history'[r]
    /\ \A k \in Rounds : /\ call[r][k] # "none" => call'[r][k] # "none"
                         /\ call[r][k] = "decided" => call'[r][k] = "decided"

-----------------------------------------------------------------------------
(* Positions and handlers that hold on to what is stored outlive a step.   *)
LEMMA PosStands ==
  ASSUME Grows, NEW r \in Runs, NEW p, PosOK(r, p)
  PROVE  PosOK(r, p)'
BY DEF Grows, PosOK

(* A handler that does nothing stays as good as it was. *)
LEMMA HandlerStands ==
  ASSUME Grows, NEW d, HandlerOK(d)
  PROVE  HandlerOK(d)'
BY PosStands DEF HandlerOK, Grows, Committed

(* One handler moves, the rest of the state is consistent: that is all. *)
LEMMA OneHandler ==
  ASSUME Inv, NEW h \in Handlers, NEW d \in HandlerRecords, Put(h, d), HandlerOK(d)',
         Grows, RunsOK', conversation' \in {"active", "ended"},
         run' \in [Runs -> Statuses], graph' \in [Runs -> Positions],
         call' \in [Runs -> [Rounds -> {"none", "awaiting", "decided"}]],
         closer' \in [step: {"idle", "write", "done"}, seen: Runs \cup {0}],
         history' \in [Runs -> SUBSET Statuses]
  PROVE  Inv'
<1>1. handler' \in [Handlers -> HandlerRecords]
  BY DEF Put, Inv, TypeOK
<1>2. ASSUME NEW g \in Handlers
      PROVE  HandlerOK(handler[g])'
  <2>1. handler'[g] = IF g = h THEN d ELSE handler[g]
    BY DEF Put, Inv, TypeOK
  <2>2. HandlerOK(handler[g])
    BY DEF Inv, HandlersOK
  <2> QED
    BY <2>1, <2>2, HandlerStands DEF HandlerOK, PosOK
<1> QED
  BY <1>1, <1>2 DEF Inv, TypeOK, HandlersOK

(* A step of a handler that commits nothing. *)
LEMMA OnlyHandler ==
  ASSUME Inv, NEW h \in Handlers, NEW d \in HandlerRecords, Put(h, d), HandlerOK(d),
         UNCHANGED <<conversation, run, graph, call, closer, history>>
  PROVE  Inv'
<1>1. Grows /\ RunsOK' /\ HandlerOK(d)'
  BY DEF Grows, Inv, RunsOK, RunOK, PosOK, HandlerOK
<1> QED
  BY <1>1, OneHandler DEF Inv, TypeOK

(* A run that is not completed takes a status. *)
LEMMA CommitKeepsRuns ==
  ASSUME Inv, NEW r \in Runs, NEW status \in Statuses \ {"absent"}, Commit(r, status),
         run[r] # "completed", UNCHANGED <<graph, call>>
  PROVE  /\ Grows /\ RunsOK' /\ status \in history'[r] /\ run'[r] # "absent"
         /\ run' \in [Runs -> Statuses] /\ history' \in [Runs -> SUBSET Statuses]
<1>1. /\ run' \in [Runs -> Statuses] /\ history' \in [Runs -> SUBSET Statuses]
      /\ run'[r] = status /\ history'[r] = history[r] \cup {status}
      /\ \A o \in Runs \ {r} : run'[o] = run[o] /\ history'[o] = history[o]
  BY DEF Commit, Inv, TypeOK
<1>2. Grows
  BY <1>1 DEF Grows
<1>3. ASSUME NEW o \in Runs PROVE RunOK(o)'
  <2>1. RunOK(o)
    BY DEF Inv, RunsOK
  <2> QED
    BY <1>1, <2>1 DEF RunOK, PosOK
<1> QED
  BY <1>1, <1>2, <1>3 DEF RunsOK

(* A handler that commits, or finds it cannot, keeps the invariant. *)
LEMMA HandlerCommits ==
  ASSUME Inv, NEW h \in Handlers, NEW d \in HandlerRecords, Put(h, d),
         NEW r \in Runs, NEW status \in Statuses \ {"absent"},
         \/ Commit(r, status) /\ run[r] # "completed"
         \/ UNCHANGED <<run, history>>,
         UNCHANGED <<conversation, graph, call, closer>>, HandlerOK(d)'
  PROVE  Inv'
<1>1. CASE Commit(r, status) /\ run[r] # "completed"
  BY <1>1, CommitKeepsRuns, OneHandler DEF Inv, TypeOK
<1>2. CASE UNCHANGED <<run, history>>
  <2>1. HandlerOK(d)
    BY <1>2 DEF HandlerOK, PosOK
  <2> QED
    BY <1>2, <2>1, OnlyHandler
<1> QED
  BY <1>1, <1>2

(* An idle record is one of a handler, whatever the state. *)
LEMMA AbsentRecord ==
  Absent \in HandlerRecords /\ HandlerOK(Absent) /\ HandlerOK(Absent)'
<1>1. 0 \in 0 .. Depth
  BY Sizes
<1> QED
  BY <1>1 DEF Absent, HandlerRecords, Positions, Position, HandlerOK, Committed

(* What the state says of a handler. *)
LEMMA HandlerFacts ==
  ASSUME Inv, NEW h \in Handlers
  PROVE  handler[h] \in HandlerRecords /\ HandlerOK(handler[h])
BY DEF Inv, TypeOK, HandlersOK

(* The answers handlers give. *)
LEMMA AnswerRecord ==
  ASSUME Inv, NEW h \in Handlers,
         NEW told \in {"none", "suspended", "completed", "failed", "replayed", "error"}
  PROVE  \E d \in HandlerRecords :
           /\ Answer(h, told) <=> Put(h, d)
           /\ d.step = "done" /\ d.told = told /\ d.run = handler[h].run
<1> DEFINE d == [Absent EXCEPT !.step = "done", !.told = told,
                               !.kind = handler[h].kind, !.run = handler[h].run]
<1>1. handler[h].kind \in {"none", "turn", "resolve"} /\ handler[h].run \in Runs \cup {0}
  BY HandlerFacts DEF HandlerRecords
<1>2. d \in HandlerRecords /\ d.step = "done" /\ d.told = told /\ d.run = handler[h].run
  BY <1>1, AbsentRecord DEF HandlerRecords
<1> HIDE DEF d
<1> QED
  BY <1>2 DEF Answer, d

(* A handler that answers that something went wrong, or is a replay. *)
LEMMA AnswerKeepsInv ==
  ASSUME Inv, NEW h \in Handlers, NEW told \in {"failed", "replayed", "error"}, Answer(h, told),
         UNCHANGED <<conversation, run, graph, call, closer, history>>
  PROVE  Inv'
<1>1. PICK d \in HandlerRecords : Put(h, d) /\ d.step = "done" /\ d.told = told
  BY AnswerRecord
<1>2. HandlerOK(d)
  BY <1>1 DEF HandlerOK, Committed
<1> QED
  BY <1>1, <1>2, OnlyHandler

-----------------------------------------------------------------------------
(* The actions, by what they serve.                                        *)

(* A turn keeps the invariant: the run it creates has neither a checkpoint *)
(* nor calls.                                                              *)
LEMMA TurnsKeepInv ==
  ASSUME Inv, NEW h \in Handlers,
         TurnRead(h) \/ TurnCreate(h) \/ TurnStart(h) \/ TurnStartFails(h)
  PROVE  Inv'
<1> DEFINE hd == handler[h]
<1>1. hd \in HandlerRecords /\ HandlerOK(hd)
  BY HandlerFacts
<1>2. CASE TurnRead(h)
  <2> DEFINE d == [Absent EXCEPT !.kind = "turn", !.step = "create"]
  <2>1. d \in HandlerRecords /\ HandlerOK(d)
    BY AbsentRecord DEF HandlerRecords, HandlerOK, Absent, Committed
  <2>2. Put(h, d) /\ UNCHANGED <<conversation, run, graph, call, closer, history>>
    BY <1>2 DEF TurnRead
  <2> HIDE DEF d
  <2> QED
    BY <2>1, <2>2, OnlyHandler
<1>3. CASE TurnCreate(h)
  <2>1. PICK r \in Runs :
          /\ run[r] = "absent"
          /\ \/ Answer(h, "error") /\ UNCHANGED <<run, history>>
             \/ Commit(r, "running") /\ Put(h, [hd EXCEPT !.step = "started", !.run = r])
    BY <1>3 DEF TurnCreate
  <2>2. UNCHANGED <<conversation, graph, call, closer>>
    BY <1>3 DEF TurnCreate
  <2>3. CASE Answer(h, "error") /\ UNCHANGED <<run, history>>
    BY <2>2, <2>3, AnswerKeepsInv
  <2>4. CASE Commit(r, "running") /\ Put(h, [hd EXCEPT !.step = "started", !.run = r])
    <3>0. PICK d : d = [hd EXCEPT !.step = "started", !.run = r]
      OBVIOUS
    <3>1. /\ d \in HandlerRecords /\ d.step = "started" /\ d.run = r /\ d.told = hd.told
          /\ hd.step = "create"
      BY <1>1, <1>3, <3>0 DEF HandlerRecords, TurnCreate, At
    <3>2. run'[r] # "absent"
      BY <2>4 DEF Commit, Inv, TypeOK
    <3>3. HandlerOK(d)'
      BY <1>1, <3>1, <3>2 DEF HandlerOK, Committed
    <3> QED
      BY <2>1, <2>2, <2>4, <3>0, <3>1, <3>3, HandlerCommits DEF Statuses
  <2> QED
    BY <2>1, <2>3, <2>4
<1>4. CASE TurnStart(h)
  <2>0. PICK r, p, d : /\ r = hd.run /\ p = Position("node", 0)
                       /\ d = [hd EXCEPT !.step = "stream", !.pos = p]
    OBVIOUS
  <2>1. r \in Runs /\ run[r] # "absent"
    BY <1>1, <1>4, <2>0 DEF TurnStart, At, HandlerOK
  <2>2. p \in Positions /\ PosOK(r, p)'
    BY <2>0, Sizes DEF Position, Positions, PosOK, Rounds
  <2>3. /\ d \in HandlerRecords /\ d.step = "stream" /\ d.run = r /\ d.pos = p
        /\ d.told = hd.told /\ hd.step = "started"
    BY <1>1, <1>4, <2>0, <2>2 DEF HandlerRecords, TurnStart, At
  <2>4. /\ graph' = [graph EXCEPT ![r] = p] /\ Put(h, d)
        /\ UNCHANGED <<conversation, run, call, closer, history>>
    BY <1>4, <2>0 DEF TurnStart
  <2>5. Grows
    BY <2>4 DEF Grows
  <2>6. RunsOK'
    <3> SUFFICES ASSUME NEW o \in Runs PROVE RunOK(o)'
      BY DEF RunsOK
    <3>1. RunOK(o)
      BY DEF Inv, RunsOK
    <3>2. CASE o = r
      <4>1. graph'[o] = p
        BY <2>1, <2>4, <3>2 DEF Inv, TypeOK
      <4> QED
        BY <2>1, <2>2, <2>4, <3>1, <3>2, <4>1 DEF RunOK, PosOK
    <3>3. CASE o # r
      BY <2>1, <2>4, <3>1, <3>3 DEF RunOK, PosOK, Inv, TypeOK
    <3> QED
      BY <3>2, <3>3
  <2>7. HandlerOK(d)'
    BY <1>1, <2>1, <2>2, <2>3, <2>4 DEF HandlerOK, Committed
  <2> QED
    BY <2>1, <2>2, <2>3, <2>4, <2>5, <2>6, <2>7, OneHandler DEF Inv, TypeOK
<1>5. CASE TurnStartFails(h)
  <2> DEFINE d == [hd EXCEPT !.step = "fail"]
  <2>1. d \in HandlerRecords /\ HandlerOK(d)
    BY <1>1, <1>5 DEF HandlerRecords, HandlerOK, TurnStartFails, At, Committed
  <2>2. Put(h, d) /\ UNCHANGED <<conversation, run, graph, call, closer, history>>
    BY <1>5 DEF TurnStartFails, Goto
  <2> HIDE DEF d
  <2> QED
    BY <2>1, <2>2, OnlyHandler
<1> QED
  BY <1>2, <1>3, <1>4, <1>5

(* Storing a call, or the answer to it. *)
LEMMA CallMoves ==
  ASSUME Inv, NEW h \in Handlers, NEW d \in HandlerRecords, HandlerOK(d),
         handler' = [handler EXCEPT ![h] = d],
         NEW r \in Runs, run[r] # "absent", NEW k \in Rounds, NEW value,
         \/ call[r][k] = "none" /\ value = "awaiting"
         \/ call[r][k] = "awaiting" /\ value = "decided",
         call' = [call EXCEPT ![r][k] = value],
         UNCHANGED <<conversation, run, graph, closer, history>>
  PROVE  Inv'
<1>1. /\ call' \in [Runs -> [Rounds -> {"none", "awaiting", "decided"}]]
      /\ \A o \in Runs, i \in Rounds :
           call'[o][i] = IF o = r /\ i = k THEN value ELSE call[o][i]
  BY DEF Inv, TypeOK
<1>2. Grows
  BY <1>1 DEF Grows
<1>3. ASSUME NEW o \in Runs PROVE RunOK(o)'
  <2>1. RunOK(o)
    BY DEF Inv, RunsOK
  <2>2. PosOK(o, graph[o])'
    BY <1>2, <2>1, PosStands DEF RunOK
  <2> QED
    BY <1>1, <2>1, <2>2 DEF RunOK
<1>4. HandlerOK(d)'
  BY <1>2, HandlerStands
<1> QED
  BY <1>1, <1>2, <1>3, <1>4, OneHandler DEF Inv, TypeOK, RunsOK, Put

(* Making an answer durable, looking at the checkpoint, finishing the run  *)
(* or claiming it.                                                         *)
LEMMA ResolvesKeepInv ==
  ASSUME Inv, NEW h \in Handlers,
         \/ \E r \in Runs, k \in Rounds : ResolveBind(h, r, k)
         \/ ResolvePersist(h) \/ ResolveRecover(h) \/ ResolveFinish(h)
         \/ ResolveClaim(h) \/ ResolveOpen(h)
  PROVE  Inv'
<1> DEFINE hd == handler[h]
<1>1. hd \in HandlerRecords /\ HandlerOK(hd)
  BY HandlerFacts
<1>2. ASSUME NEW r \in Runs, NEW k \in Rounds, ResolveBind(h, r, k)
      PROVE  Inv'
  <2> DEFINE d == [Absent EXCEPT !.kind = "resolve", !.step = "persist", !.run = r, !.k = k,
                                 !.sawCompleted = (run[r] = "completed")]
  <2>1. k \in 0 .. Depth
    BY Sizes DEF Rounds
  <2>2. d \in HandlerRecords /\ d.step = "persist" /\ d.run = r /\ d.k = k /\ d.told = "none"
    BY <2>1, AbsentRecord DEF HandlerRecords, Absent
  <2>3. run[r] # "absent"
    BY <1>2 DEF ResolveBind, Inv, RunsOK, RunOK
  <2>4. Put(h, d) /\ UNCHANGED <<conversation, run, graph, call, closer, history>>
    BY <1>2 DEF ResolveBind
  <2> HIDE DEF d
  <2>5. HandlerOK(d)
    BY <2>2, <2>3 DEF HandlerOK, Committed
  <2> QED
    BY <2>2, <2>4, <2>5, OnlyHandler
<1>3. CASE ResolvePersist(h)
  <2> DEFINE d == [hd EXCEPT !.step = "recover"]
  <2>1. hd.step = "persist" /\ hd.run \in Runs /\ hd.k \in Rounds /\ run[hd.run] # "absent"
    BY <1>1, <1>3 DEF ResolvePersist, At, HandlerOK
  <2>2. d \in HandlerRecords /\ HandlerOK(d)
    BY <1>1, <2>1 DEF HandlerRecords, HandlerOK, Committed
  <2>3. /\ Put(h, d) \/ Answer(h, "replayed") \/ Answer(h, "error")
        /\ \/ UNCHANGED call
           \/ call[hd.run][hd.k] = "awaiting" /\ call' = [call EXCEPT ![hd.run][hd.k] = "decided"]
        /\ UNCHANGED <<conversation, run, graph, closer, history>>
    BY <1>3 DEF ResolvePersist, Goto
  <2> HIDE DEF d
  <2>4. PICK e \in HandlerRecords : Put(h, e) /\ HandlerOK(e)
    <3>1. CASE Put(h, d)
      BY <2>2, <3>1
    <3>2. ASSUME NEW told \in {"replayed", "error"}, Answer(h, told)
          PROVE  \E e \in HandlerRecords : Put(h, e) /\ HandlerOK(e)
      BY <3>2, AnswerRecord DEF HandlerOK, Committed
    <3> QED
      BY <2>3, <3>1, <3>2
  <2>5. CASE UNCHANGED call
    BY <2>3, <2>4, <2>5, OnlyHandler
  <2>6. CASE /\ call[hd.run][hd.k] = "awaiting"
             /\ call' = [call EXCEPT ![hd.run][hd.k] = "decided"]
    BY <2>1, <2>3, <2>4, <2>6, CallMoves DEF Put
  <2> QED
    BY <2>3, <2>5, <2>6
<1>4. CASE ResolveRecover(h)
  <2>1. hd.step = "recover" /\ UNCHANGED <<conversation, run, graph, call, closer, history>>
    BY <1>4 DEF ResolveRecover, At
  <2>2. \/ Answer(h, "error")
        \/ \E step \in {"finish", "claim"}, mode \in {"none", "resume", "continue"} :
             \/ Put(h, [hd EXCEPT !.step = step])
             \/ Put(h, [hd EXCEPT !.step = step, !.mode = mode])
    BY <1>4 DEF ResolveRecover, Goto
  <2>3. ASSUME NEW step \in {"finish", "claim"}, NEW d,
               \/ d = [hd EXCEPT !.step = step]
               \/ \E mode \in {"none", "resume", "continue"} :
                    d = [hd EXCEPT !.step = step, !.mode = mode]
        PROVE  d \in HandlerRecords /\ HandlerOK(d)
    <3>1. /\ d \in HandlerRecords /\ d.step = step /\ d.run = hd.run /\ d.told = hd.told
      BY <1>1, <2>3 DEF HandlerRecords
    <3> QED
      BY <1>1, <2>1, <3>1 DEF HandlerOK, Committed
  <2>4. CASE Answer(h, "error")
    BY <2>1, <2>4, AnswerKeepsInv
  <2> QED
    BY <2>1, <2>2, <2>3, <2>4, OnlyHandler
<1>5. CASE ResolveFinish(h)
  <2>0. PICK r, d : r = hd.run /\ d = [hd EXCEPT !.step = "tell", !.news = "completed"]
    OBVIOUS
  <2>1. hd.step = "finish" /\ r \in Runs /\ run[r] # "absent" /\ RunOK(r)
    BY <1>1, <1>5, <2>0 DEF ResolveFinish, At, HandlerOK, Inv, RunsOK
  <2>2. /\ d \in HandlerRecords /\ d.step = "tell" /\ d.news = "completed" /\ d.run = r
        /\ d.told = hd.told
    BY <1>1, <2>0 DEF HandlerRecords
  <2>3. /\ \/ Commit(r, "completed") /\ run[r] # "completed"
           \/ UNCHANGED <<run, history>> /\ run[r] = "completed"
        /\ Put(h, d) /\ UNCHANGED <<conversation, graph, call, closer>>
    BY <1>5, <2>0, <2>1 DEF ResolveFinish, Inv, TypeOK, Statuses
  <2>4. "completed" \in history'[r] /\ run'[r] # "absent"
    BY <2>1, <2>3, CommitKeepsRuns DEF RunOK, Statuses
  <2>5. HandlerOK(d)'
    BY <1>1, <2>1, <2>2, <2>4 DEF HandlerOK, Committed
  <2> QED
    BY <2>1, <2>2, <2>3, <2>5, HandlerCommits DEF Statuses
<1>6. CASE ResolveClaim(h)
  <2>0. PICK r, d : r = hd.run /\ d = [hd EXCEPT !.step = "open"]
    OBVIOUS
  <2>1. hd.step = "claim" /\ r \in Runs /\ run[r] # "absent"
    BY <1>1, <1>6, <2>0 DEF ResolveClaim, At, HandlerOK
  <2>2. d \in HandlerRecords /\ d.step = "open" /\ d.run = r /\ d.told = hd.told
    BY <1>1, <2>0 DEF HandlerRecords
  <2>3. /\ \/ Commit(r, "running") /\ run[r] # "completed" /\ Put(h, d)
           \/ UNCHANGED <<run, history>> /\ Answer(h, "error")
        /\ UNCHANGED <<conversation, graph, call, closer>>
    BY <1>6, <2>0 DEF ResolveClaim, Revivable, Goto
  <2>4. CASE Commit(r, "running") /\ run[r] # "completed" /\ Put(h, d)
    <3>1. run'[r] # "absent"
      BY <2>1, <2>4 DEF Commit, Inv, TypeOK
    <3>2. HandlerOK(d)'
      BY <1>1, <2>1, <2>2, <3>1 DEF HandlerOK, Committed
    <3> QED
      BY <2>1, <2>2, <2>3, <2>4, <3>2, HandlerCommits DEF Statuses
  <2> QED
    BY <2>3, <2>4, AnswerKeepsInv
<1>7. CASE ResolveOpen(h)
  <2> DEFINE r == hd.run
             value == IF hd.mode = "resume" THEN hd.k ELSE 0
             d == [hd EXCEPT !.step = "stream", !.pos = graph[r], !.value = value]
  <2>1. hd.step = "open" /\ r \in Runs /\ run[r] # "absent" /\ RunOK(r) /\ graph[r] \in Positions
    BY <1>1, <1>7 DEF ResolveOpen, At, HandlerOK, Inv, RunsOK, TypeOK
  <2>2. value \in 0 .. Depth
    BY <1>1, Sizes DEF HandlerRecords
  <2>3. /\ d \in HandlerRecords /\ d.step = "stream" /\ d.run = r /\ d.pos = graph[r]
        /\ d.told = hd.told
    <3> HIDE DEF value
    <3> QED
      BY <1>1, <2>1, <2>2 DEF HandlerRecords
  <2>4. Put(h, d) /\ UNCHANGED <<conversation, run, graph, call, closer, history>>
    BY <1>7 DEF ResolveOpen
  <2> HIDE DEF d, value
  <2>5. HandlerOK(d)
    BY <1>1, <2>1, <2>3 DEF HandlerOK, RunOK, Committed
  <2> QED
    BY <2>3, <2>4, <2>5, OnlyHandler
<1> QED
  BY <1>2, <1>3, <1>4, <1>5, <1>6, <1>7

(* A graph moves to a position that its stored answers bear out. *)
LEMMA GraphMoves ==
  ASSUME Inv, NEW h \in Handlers, NEW d \in HandlerRecords, HandlerOK(d), Put(h, d),
         NEW r \in Runs, run[r] # "absent", NEW p \in Positions, PosOK(r, p),
         graph' = [graph EXCEPT ![r] = p],
         UNCHANGED <<conversation, run, call, closer, history>>
  PROVE  Inv'
<1>1. /\ graph' \in [Runs -> Positions]
      /\ \A o \in Runs : graph'[o] = IF o = r THEN p ELSE graph[o]
  BY DEF Inv, TypeOK
<1>2. Grows
  BY DEF Grows
<1>3. ASSUME NEW o \in Runs PROVE RunOK(o)'
  <2>1. RunOK(o)
    BY DEF Inv, RunsOK
  <2>2. PosOK(o, graph'[o])
    BY <1>1, <2>1 DEF RunOK
  <2>3. PosOK(o, graph[o])'
    BY <2>2 DEF PosOK
  <2> QED
    BY <1>1, <2>1, <2>3 DEF RunOK
<1>4. HandlerOK(d)'
  BY <1>2, HandlerStands
<1> QED
  BY <1>1, <1>2, <1>3, <1>4, OneHandler DEF Inv, TypeOK, RunsOK

(* A handler gives up the graph it streams, or a stale settlement. *)
LEMMA FailingKeepsInv ==
  ASSUME Inv, NEW h \in Handlers, handler[h].step \in {"stream", "settle"}, Goto(h, "fail"),
         UNCHANGED <<conversation, run, graph, call, closer, history>>
  PROVE  Inv'
<1>0. PICK d : d = [handler[h] EXCEPT !.step = "fail"]
  OBVIOUS
<1>1. handler[h] \in HandlerRecords /\ HandlerOK(handler[h])
  BY HandlerFacts
<1>2. /\ d \in HandlerRecords /\ d.step = "fail" /\ d.run = handler[h].run
      /\ d.told = handler[h].told
  BY <1>0, <1>1 DEF HandlerRecords
<1>3. HandlerOK(d)
  BY <1>1, <1>2 DEF HandlerOK, Committed
<1> QED
  BY <1>0, <1>2, <1>3, OnlyHandler DEF Goto

(* The supersteps of a graph keep the invariant. *)
LEMMA GraphsKeepInv ==
  ASSUME Inv, NEW h \in Handlers,
         \/ GraphPass(h) \/ GraphMismatch(h) \/ GraphRequest(h) \/ GraphInterrupt(h)
         \/ GraphInterruptAgain(h) \/ GraphReplay(h) \/ GraphEnd(h) \/ GraphRaise(h)
  PROVE  Inv'
<1> DEFINE hd == handler[h]
<1>1. hd \in HandlerRecords /\ HandlerOK(hd) /\ hd.step = "stream"
  BY HandlerFacts
  DEF GraphPass, GraphMismatch, GraphRequest, GraphInterrupt, GraphInterruptAgain,
      GraphReplay, GraphEnd, GraphRaise, Streaming
<1>2. /\ hd.run \in Runs /\ run[hd.run] # "absent" /\ PosOK(hd.run, hd.pos)
      /\ hd.pos \in Positions /\ hd.pos.k \in 0 .. Depth /\ hd.told = "none"
      /\ hd.pos.at \in {"none", "node", "waiting", "done"}
      /\ call[hd.run] \in [Rounds -> {"none", "awaiting", "decided"}]
  BY <1>1 DEF HandlerOK, HandlerRecords, Positions, Inv, TypeOK
<1>3. ASSUME NEW p \in Positions, PosOK(hd.run, p), NEW d,
             \/ d = [hd EXCEPT !.pos = p, !.value = 0]
             \/ d = [hd EXCEPT !.pos = p]
             \/ \E news \in Committed : d = [hd EXCEPT !.step = "settle", !.pos = p, !.news = news],
             Put(h, d), Moved(h, p), UNCHANGED <<conversation, run, call, closer, history>>
      PROVE  Inv'
  <2>1. 0 \in 0 .. Depth
    BY Sizes
  <2>2. /\ d \in HandlerRecords /\ d.run = hd.run /\ d.pos = p /\ d.told = hd.told
        /\ \/ d.step = "stream"
           \/ d.step = "settle" /\ d.news \in Committed
    BY <1>1, <1>3, <2>1 DEF HandlerRecords, Committed
  <2>3. HandlerOK(d)
    BY <1>2, <1>3, <2>2 DEF HandlerOK, Committed
  <2> QED
    BY <1>2, <1>3, <2>2, <2>3, GraphMoves DEF Moved
<1>4. CASE GraphPass(h)
  <2>0. PICK p : p = Position("node", hd.pos.k)
    OBVIOUS
  <2>1. /\ hd.pos.at = "waiting" /\ call[hd.run][hd.pos.k] = "decided"
        /\ Moved(h, p) /\ Put(h, [hd EXCEPT !.pos = p, !.value = 0])
        /\ UNCHANGED <<conversation, run, call, closer, history>>
    BY <1>4, <2>0 DEF GraphPass, Streaming
  <2>2. p \in Positions /\ PosOK(hd.run, p)
    BY <1>2, <2>0, <2>1, Sizes DEF Position, Positions, PosOK, Rounds
  <2> QED
    BY <1>3, <2>1, <2>2
<1>5. CASE GraphMismatch(h) \/ GraphRaise(h)
  BY <1>1, <1>5, FailingKeepsInv DEF GraphMismatch, GraphRaise
<1>6. CASE GraphRequest(h)
  <2>0. PICK k : k = hd.pos.k + 1
    OBVIOUS
  <2>1. k \in Rounds /\ call[hd.run][k] = "none"
    BY <1>2, <1>6, <2>0, Sizes DEF GraphRequest, Rounds
  <2>2. handler' = [handler EXCEPT ![h] = hd]
    BY <1>6 DEF GraphRequest, Inv, TypeOK
  <2> QED
    BY <1>1, <1>2, <1>6, <2>0, <2>1, <2>2, CallMoves DEF GraphRequest
<1>7. CASE GraphInterrupt(h)
  <2>0. PICK p : p = Position("waiting", hd.pos.k + 1)
    OBVIOUS
  <2>1. /\ hd.pos.at = "node" /\ hd.pos.k < Depth /\ call[hd.run][p.k] = "awaiting"
        /\ Moved(h, p)
        /\ Put(h, [hd EXCEPT !.step = "settle", !.pos = p, !.news = "suspended"])
        /\ UNCHANGED <<conversation, run, call, closer, history>>
    BY <1>7, <2>0 DEF GraphInterrupt, Streaming
  <2>2. p \in Positions /\ PosOK(hd.run, p)
    BY <1>2, <2>0, <2>1, Sizes DEF Position, Positions, PosOK, Rounds
  <2> QED
    BY <1>3, <2>1, <2>2 DEF Committed
<1>8. CASE GraphInterruptAgain(h)
  <2>0. PICK d : d = [hd EXCEPT !.step = "settle", !.news = "suspended"]
    OBVIOUS
  <2>1. /\ d \in HandlerRecords /\ d.run = hd.run /\ d.told = hd.told
        /\ d.step = "settle" /\ d.news = "suspended"
    BY <1>1, <2>0 DEF HandlerRecords
  <2>2. HandlerOK(d)
    BY <1>2, <2>1 DEF HandlerOK, Committed
  <2> QED
    BY <1>8, <2>0, <2>1, <2>2, OnlyHandler DEF GraphInterruptAgain
<1>9. CASE GraphReplay(h)
  <2>0. PICK p : p = Position("node", hd.pos.k + 1)
    OBVIOUS
  <2>1. /\ hd.pos.at = "node" /\ hd.pos.k < Depth /\ call[hd.run][p.k] = "decided"
        /\ Moved(h, p) /\ Put(h, [hd EXCEPT !.pos = p])
        /\ UNCHANGED <<conversation, run, call, closer, history>>
    BY <1>9, <2>0 DEF GraphReplay, Streaming
  <2>2. p \in Positions /\ PosOK(hd.run, p)
    BY <1>2, <2>0, <2>1, Sizes DEF Position, Positions, PosOK, Rounds
  <2> QED
    BY <1>3, <2>1, <2>2
<1>10. CASE GraphEnd(h)
  <2>0. PICK p : p = Position("done", hd.pos.k)
    OBVIOUS
  <2>1. /\ hd.pos.at \in {"node", "done"} /\ Moved(h, p)
        /\ Put(h, [hd EXCEPT !.step = "settle", !.pos = p, !.news = "completed"])
        /\ UNCHANGED <<conversation, run, call, closer, history>>
    BY <1>10, <2>0 DEF GraphEnd, Streaming
  <2>2. p \in Positions /\ PosOK(hd.run, p)
    BY <1>2, <2>0, <2>1 DEF Position, Positions, PosOK
  <2> QED
    BY <1>3, <2>1, <2>2 DEF Committed
<1> QED
  BY <1>4, <1>5, <1>6, <1>7, <1>8, <1>9, <1>10

(* Settling, failing and telling keep it: what is told was committed. *)
LEMMA EndingsKeepInv ==
  ASSUME Inv, NEW h \in Handlers, Settle(h) \/ Fail(h) \/ Tell(h)
  PROVE  Inv'
<1>0. PICK hd, r : hd = handler[h] /\ r = handler[h].run
  OBVIOUS
<1>1. /\ hd \in HandlerRecords /\ HandlerOK(hd) /\ hd.step \in {"settle", "fail", "tell"}
      /\ r \in Runs /\ run[r] # "absent" /\ hd.told = "none" /\ hd.run = r
  BY <1>0, HandlerFacts DEF Settle, Fail, Tell, HandlerOK
<1>2. CASE Settle(h)
  <2>0. PICK d : d = [hd EXCEPT !.step = "tell"]
    OBVIOUS
  <2>1. hd.step = "settle" /\ hd.news \in Committed
    BY <1>0, <1>1, <1>2 DEF Settle, HandlerOK
  <2>2. /\ d \in HandlerRecords /\ d.run = r /\ d.told = "none"
        /\ d.step = "tell" /\ d.news = hd.news
    BY <1>1, <2>0 DEF HandlerRecords
  <2>3. /\ \/ run[r] = "running" /\ Commit(r, hd.news) /\ Put(h, d)
           \/ UNCHANGED <<run, history>> /\ Goto(h, "fail")
        /\ UNCHANGED <<conversation, graph, call, closer>>
    BY <1>0, <1>2, <2>0 DEF Settle, Goto
  <2>4. CASE run[r] = "running" /\ Commit(r, hd.news) /\ Put(h, d)
    <3>1. run'[r] # "absent" /\ hd.news \in history'[r]
      BY <1>1, <2>1, <2>3, <2>4, CommitKeepsRuns DEF Committed, Statuses
    <3>2. HandlerOK(d)'
      BY <1>1, <2>2, <3>1 DEF HandlerOK, Committed
    <3> QED
      BY <1>1, <2>1, <2>2, <2>3, <2>4, <3>2, HandlerCommits DEF Statuses, Committed
  <2> QED
    BY <1>0, <2>1, <2>3, <2>4, FailingKeepsInv
<1>3. CASE Fail(h)
  <2>0. PICK d : d = [hd EXCEPT !.step = "tell", !.news = "failed"]
    OBVIOUS
  <2>1. /\ d \in HandlerRecords /\ d.run = r /\ d.told = "none"
        /\ d.step = "tell" /\ d.news = "failed"
    BY <1>1, <2>0 DEF HandlerRecords
  <2>2. /\ \/ run[r] \in Open /\ Commit(r, "failed")
           \/ UNCHANGED <<run, history>>
        /\ Put(h, d) /\ UNCHANGED <<conversation, graph, call, closer>>
    BY <1>0, <1>3, <2>0 DEF Fail, FailableBy, Open
  <2>3. run'[r] # "absent"
    BY <1>1, <2>2 DEF Commit, Inv, TypeOK
  <2>4. HandlerOK(d)'
    BY <1>1, <2>1, <2>3 DEF HandlerOK, Committed
  <2> QED
    BY <1>1, <2>1, <2>2, <2>4, HandlerCommits DEF Statuses, Open
<1>4. CASE Tell(h)
  <2>1. /\ hd.step = "tell" /\ Answer(h, hd.news)
        /\ UNCHANGED <<conversation, run, graph, call, closer, history>>
    BY <1>0, <1>4 DEF Tell
  <2>2. hd.news \in {"none", "suspended", "completed", "failed"}
    BY <1>1 DEF HandlerRecords
  <2>3. PICK d \in HandlerRecords : Put(h, d) /\ d.step = "done" /\ d.told = hd.news /\ d.run = r
    BY <1>0, <2>1, <2>2, AnswerRecord
  <2>4. HandlerOK(d)
    BY <1>1, <2>1, <2>3 DEF HandlerOK, Committed
  <2> QED
    BY <2>1, <2>3, <2>4, OnlyHandler
<1> QED
  BY <1>2, <1>3, <1>4

(* So do the faults ... *)
LEMMA FaultsKeepInv ==
  ASSUME Inv, NEW h \in Handlers, Cancel(h) \/ Vanish(h)
  PROVE  Inv'
<1>1. CASE Cancel(h)
  <2>0. PICK r : r = handler[h].run
    OBVIOUS
  <2>1. r \in Runs
    BY <1>1, <2>0, HandlerFacts DEF Cancel, HandlerOK
  <2>2. /\ \/ run[r] \in Open /\ Commit(r, "cancelled")
           \/ UNCHANGED <<run, history>>
        /\ Put(h, Absent) /\ UNCHANGED <<conversation, graph, call, closer>>
    BY <1>1, <2>0 DEF Cancel, FailableBy, Open
  <2> QED
    BY <2>1, <2>2, AbsentRecord, HandlerCommits DEF Statuses, Open
<1>2. CASE Vanish(h)
  BY <1>2, AbsentRecord, OnlyHandler DEF Vanish
<1> QED
  BY <1>1, <1>2

(* ... and the request that closes the conversation. *)
LEMMA CloseKeepsInv ==
  ASSUME Inv, CloseRead \/ CloseWrite
  PROVE  Inv'
<1>1. CASE CloseRead
  <2>1. closer' \in [step: {"idle", "write", "done"}, seen: Runs \cup {0}]
    BY <1>1 DEF CloseRead, CurrentRuns
  <2> QED
    BY <1>1, <2>1
    DEF CloseRead, Inv, TypeOK, RunsOK, RunOK, PosOK, HandlersOK, HandlerOK
<1>2. CASE CloseWrite
  <2>1. /\ closer' \in [step: {"idle", "write", "done"}, seen: Runs \cup {0}]
        /\ conversation' \in {"active", "ended"} /\ UNCHANGED <<graph, call, handler>>
    BY <1>2 DEF CloseWrite
  <2>2. /\ Grows /\ RunsOK'
        /\ run' \in [Runs -> Statuses] /\ history' \in [Runs -> SUBSET Statuses]
    <3>1. CASE UNCHANGED <<run, history>>
      BY <2>1, <3>1 DEF Grows, Inv, TypeOK, RunsOK, RunOK, PosOK
    <3>2. CASE ~UNCHANGED <<run, history>>
      <4>1. PICK r \in Runs : run[r] \in Open /\ Commit(r, "cancelled")
        BY <1>2, <3>2 DEF CloseWrite, Inv, TypeOK
      <4> QED
        BY <2>1, <4>1, CommitKeepsRuns DEF Statuses, Open
    <3> QED
      BY <3>1, <3>2
  <2>3. HandlersOK'
    BY <2>1, <2>2, HandlerStands DEF Inv, HandlersOK
  <2> QED
    BY <2>1, <2>2, <2>3 DEF Inv, TypeOK
<1> QED
  BY <1>1, <1>2

(* Every step keeps the invariant. *)
LEMMA NextKeepsInv ==
  ASSUME Inv, [Next]_vars
  PROVE  Inv'
<1>1. ASSUME NEW h \in Handlers, Begin(h) \/ Step(h) \/ Cancel(h) \/ Vanish(h)
      PROVE  Inv'
  BY <1>1, TurnsKeepInv, ResolvesKeepInv, GraphsKeepInv, EndingsKeepInv, FaultsKeepInv
  DEF Begin, Step
<1>2. CASE UNCHANGED vars
  BY <1>2 DEF vars, Inv, TypeOK, RunsOK, RunOK, PosOK, HandlersOK, HandlerOK
<1> QED
  BY <1>1, <1>2, CloseKeepsInv DEF Next

(* So do the initial states have it. *)
LEMMA InitHasInv == Init => Inv
<1> SUFFICES ASSUME Init PROVE Inv
  OBVIOUS
<1>1. 0 \in 0 .. Depth
  BY Sizes
<1>2. TypeOK
  BY <1>1, AbsentRecord DEF Init, TypeOK, Position, Positions, Statuses
<1>3. RunsOK
  BY DEF Init, RunsOK, RunOK, PosOK, Position
<1>4. HandlersOK
  BY AbsentRecord DEF Init, HandlersOK
<1> QED
  BY <1>2, <1>3, <1>4 DEF Inv

(* The invariant holds, whatever faults happen. *)
THEOREM InvHolds == Spec => []Inv
BY InitHasInv, NextKeepsInv, PTL DEF Spec

(* Facts first, events after: what a client is told of a run was committed *)
(* before, whatever faults happen.                                         *)
THEOREM EventsAreCommitted == Spec => []EventsFollowCommits
<1>1. Inv => EventsFollowCommits
  BY DEF Inv, HandlersOK, HandlerOK, Committed, EventsFollowCommits
<1> QED
  BY <1>1, InvHolds, PTL

(* No graph gets past an interaction whose answer is not durable, whatever *)
(* faults happen, and however many executors drive it at the same time.    *)
THEOREM AnswersComeFirst == Spec => []ResumedOnlyAfterDecision
<1>1. Inv => ResumedOnlyAfterDecision
  BY DEF Inv, RunsOK, RunOK, PosOK, ResumedOnlyAfterDecision
<1> QED
  BY <1>1, InvHolds, PTL

-----------------------------------------------------------------------------
(* Without cancellation and closing, one executor at a time holds a run:   *)
(* from the moment it creates or claims it until it commits its end.  It   *)
(* is where the checkpoint says, and nobody else moves the checkpoint.     *)
(* The run it holds is running, or was completed by a handler that found   *)
(* its graph ended.                                                        *)

Executing(d) == d.step \in {"started", "open", "stream", "settle", "fail"}

HoldOK(d) ==
  /\ d.step = "finish" => graph[d.run].at = "done"
  /\ d.step = "started" => graph[d.run].at = "none"
  /\ d.step \in {"stream", "settle"} => d.pos = graph[d.run]
  /\ d.step = "settle" =>
       d.pos.at = IF d.news = "completed" THEN "done" ELSE "waiting"
  /\ Executing(d) =>
       run[d.run] = "running" \/ (run[d.run] = "completed" /\ graph[d.run].at = "done")

EndOK(r) ==
  /\ "completed" \in history[r] => graph[r].at = "done"
  /\ run[r] = "suspended" => graph[r].at = "waiting"

Apart == \A g, h \in Handlers :
           Executing(handler[g]) /\ Executing(handler[h]) /\ handler[g].run = handler[h].run
             => g = h

HoldsOK == \A h \in Handlers : HoldOK(handler[h])
EndsOK == \A r \in Runs : EndOK(r)

HoldInv == Inv /\ HoldsOK /\ EndsOK /\ Apart /\ closer.step = "idle"

(* What the state says of a handler and its run. *)
LEMMA HoldFacts ==
  ASSUME HoldInv, NEW h \in Handlers, Executing(handler[h])
  PROVE  /\ handler[h] \in HandlerRecords /\ HandlerOK(handler[h]) /\ HoldOK(handler[h])
         /\ handler[h].run \in Runs /\ RunOK(handler[h].run) /\ EndOK(handler[h].run)
         /\ graph[handler[h].run] \in Positions
         /\ \A g \in Handlers \ {h} :
              ~(Executing(handler[g]) /\ handler[g].run = handler[h].run)
<1>1. HandlerOK(handler[h]) /\ handler[h] \in HandlerRecords
  BY HandlerFacts DEF HoldInv
<1>2. handler[h].run \in Runs
  BY <1>1 DEF HandlerOK, Executing
<1> QED
  BY <1>1, <1>2 DEF HoldInv, HoldsOK, EndsOK, Apart, Inv, RunsOK, TypeOK

(* One handler moves, and leaves the others what they rely on. *)
LEMMA OneHold ==
  ASSUME HoldInv, Inv', NEW h \in Handlers, NEW d, Put(h, d), closer' = closer,
         \A e : (\E g \in Handlers \ {h} : e = handler[g]) => HoldOK(e)',
         HoldOK(d)', EndsOK',
         Executing(d) => \A g \in Handlers \ {h} :
                           ~(Executing(handler[g]) /\ handler[g].run = d.run)
  PROVE  HoldInv'
<1>1. \A g \in Handlers : handler'[g] = IF g = h THEN d ELSE handler[g]
  BY DEF Put, HoldInv, Inv, TypeOK
<1>2. HoldsOK'
  <2> SUFFICES ASSUME NEW g \in Handlers PROVE HoldOK(handler[g])'
    BY DEF HoldsOK
  <2>1. PICK e : e = handler'[g]
    OBVIOUS
  <2>2. HoldOK(e)'
    BY <1>1, <2>1
  <2> QED
    BY <2>1, <2>2 DEF HoldOK, Executing
<1>3. Apart'
  BY <1>1 DEF HoldInv, Apart, Executing
<1> QED
  BY <1>2, <1>3 DEF HoldInv

(* A step that commits nothing and moves no graph. *)
LEMMA QuietHold ==
  ASSUME HoldInv, Inv', NEW h \in Handlers, NEW d, Put(h, d), HoldOK(d),
         UNCHANGED <<run, graph, history, closer>>,
         Executing(d) => Executing(handler[h]) /\ d.run = handler[h].run
  PROVE  HoldInv'
<1>1. \A e : (\E g \in Handlers \ {h} : e = handler[g]) => HoldOK(e)'
  BY DEF HoldInv, HoldsOK, HoldOK
<1>2. HoldOK(d)' /\ EndsOK'
  BY DEF HoldOK, HoldInv, EndsOK, EndOK
<1>3. Executing(d) => \A g \in Handlers \ {h} :
                        ~(Executing(handler[g]) /\ handler[g].run = d.run)
  BY HoldFacts
<1> QED
  BY <1>1, <1>2, <1>3, OneHold

(* An answer, and an end without one, leave nothing behind. *)
LEMMA LetGo ==
  ASSUME HoldInv, Inv', NEW h \in Handlers,
         Put(h, Absent) \/ \E told : Answer(h, told),
         UNCHANGED <<run, graph, history, closer>>
  PROVE  HoldInv'
<1>1. PICK d : Put(h, d) /\ d.step \in {"idle", "done"}
  <2>1. CASE Put(h, Absent)
    BY <2>1 DEF Absent
  <2>2. ASSUME NEW told, Answer(h, told)
        PROVE  \E d : Put(h, d) /\ d.step \in {"idle", "done"}
    <3>1. PICK d : d = [Absent EXCEPT !.step = "done", !.told = told,
                                      !.kind = handler[h].kind, !.run = handler[h].run]
      OBVIOUS
    <3>2. d.step = "done"
      BY <3>1 DEF Absent
    <3> QED
      BY <2>2, <3>1, <3>2 DEF Answer
  <2> QED
    BY <2>1, <2>2
<1>2. HoldOK(d) /\ ~Executing(d)
  BY <1>1 DEF HoldOK, Executing
<1> QED
  BY <1>1, <1>2, QuietHold

(* A run takes a status: nobody else holds it, or its graph has ended. *)
LEMMA CommitHold ==
  ASSUME HoldInv, Inv', NEW h \in Handlers, NEW d, Put(h, d),
         NEW r \in Runs, NEW status \in Statuses, Commit(r, status),
         UNCHANGED <<graph, closer>>,
         \/ status = "completed" /\ graph[r].at = "done"
         \/ \A g \in Handlers \ {h} : ~(Executing(handler[g]) /\ handler[g].run = r),
         HoldOK(d)', EndOK(r)', Executing(d) => d.run = r /\ status = "running"
  PROVE  HoldInv'
<1>1. /\ run' = [run EXCEPT ![r] = status] /\ run \in [Runs -> Statuses]
      /\ history' = [history EXCEPT ![r] = @ \cup {status}]
      /\ history \in [Runs -> SUBSET Statuses]
  BY DEF Commit, HoldInv, Inv, TypeOK
<1>2. EndsOK'
  BY <1>1 DEF HoldInv, EndsOK, EndOK
<1>3. ASSUME NEW e, NEW g \in Handlers \ {h}, e = handler[g]
      PROVE  HoldOK(e)'
  <2>1. HoldOK(e) /\ HandlerOK(e)
    BY <1>3, HandlerFacts DEF HoldInv, HoldsOK
  <2>2. CASE Executing(e) /\ e.run = r
    BY <1>1, <1>3, <2>1, <2>2 DEF HoldOK
  <2>3. CASE ~(Executing(e) /\ e.run = r)
    BY <1>1, <2>1, <2>3 DEF HoldOK, HandlerOK, Executing
  <2> QED
    BY <2>2, <2>3
<1>4. Executing(d) => \A g \in Handlers \ {h} :
                        ~(Executing(handler[g]) /\ handler[g].run = d.run)
  BY DEF Executing
<1> QED
  BY <1>2, <1>3, <1>4, OneHold

(* A graph moves: its executor is the only one, and nobody found it ended. *)
LEMMA MoveHold ==
  ASSUME HoldInv, Inv', NEW h \in Handlers, Executing(handler[h]), NEW d, Put(h, d),
         NEW r \in Runs, r = handler[h].run, d.run = r, NEW p,
         graph' = [graph EXCEPT ![r] = p], UNCHANGED <<run, history, closer>>,
         graph[r].at = "done" => p.at = "done",
         d.step \in {"stream", "settle"}, d.pos = p,
         d.step = "settle" => p.at = IF d.news = "completed" THEN "done" ELSE "waiting"
  PROVE  HoldInv'
<1>1. \A o \in Runs : graph'[o] = IF o = r THEN p ELSE graph[o]
  BY DEF HoldInv, Inv, TypeOK
<1>2. /\ run[r] = "running" \/ (run[r] = "completed" /\ graph[r].at = "done")
      /\ RunOK(r) /\ EndOK(r)
      /\ \A g \in Handlers \ {h} : ~(Executing(handler[g]) /\ handler[g].run = r)
  BY HoldFacts DEF HoldOK
<1>3. EndsOK'
  BY <1>1, <1>2 DEF HoldInv, EndsOK, EndOK
<1>4. ASSUME NEW e, NEW g \in Handlers \ {h}, e = handler[g]
      PROVE  HoldOK(e)'
  <2>1. HoldOK(e) /\ HandlerOK(e)
    BY <1>4, HandlerFacts DEF HoldInv, HoldsOK
  <2>2. ~(Executing(e) /\ e.run = r)
    BY <1>2, <1>4
  <2> QED
    BY <1>1, <2>1, <2>2 DEF HoldOK, HandlerOK, Executing
<1>5. HoldOK(d)'
  BY <1>1, <1>2 DEF HoldOK, Executing
<1>6. \A g \in Handlers \ {h} : ~(Executing(handler[g]) /\ handler[g].run = d.run)
  BY <1>2
<1> QED
  BY <1>3, <1>4, <1>5, <1>6, OneHold

-----------------------------------------------------------------------------
(* The actions once more, for the handler that holds a run.                *)

(* A turn holds the run it creates, which nobody knew before. *)
LEMMA TurnsHold ==
  ASSUME HoldInv, Inv', NEW h \in Handlers,
         TurnRead(h) \/ TurnCreate(h) \/ TurnStart(h) \/ TurnStartFails(h)
  PROVE  HoldInv'
<1>0. PICK hd : hd = handler[h]
  OBVIOUS
<1>1. hd \in HandlerRecords /\ HandlerOK(hd) /\ HoldOK(hd)
  BY <1>0, HandlerFacts DEF HoldInv, HoldsOK
<1>2. CASE TurnRead(h)
  <2>1. PICK d : d = [Absent EXCEPT !.kind = "turn", !.step = "create"]
    OBVIOUS
  <2>2. d.step = "create"
    BY <2>1 DEF Absent
  <2>3. HoldOK(d) /\ ~Executing(d)
    BY <2>2 DEF HoldOK, Executing
  <2> QED
    BY <1>2, <2>1, <2>3, QuietHold DEF TurnRead
<1>3. CASE TurnCreate(h)
  <2>1. PICK r \in Runs :
          /\ run[r] = "absent"
          /\ \/ Answer(h, "error") /\ UNCHANGED <<run, history>>
             \/ Commit(r, "running") /\ Put(h, [hd EXCEPT !.step = "started", !.run = r])
    BY <1>0, <1>3 DEF TurnCreate
  <2>2. UNCHANGED <<graph, closer>>
    BY <1>3 DEF TurnCreate
  <2>3. CASE Commit(r, "running") /\ Put(h, [hd EXCEPT !.step = "started", !.run = r])
    <3>1. PICK d : d = [hd EXCEPT !.step = "started", !.run = r]
      OBVIOUS
    <3>2. d.step = "started" /\ d.run = r
      BY <1>1, <3>1 DEF HandlerRecords
    <3>3. run' = [run EXCEPT ![r] = "running"] /\ run'[r] = "running"
      BY <2>3 DEF Commit, HoldInv, Inv, TypeOK
    <3>4. RunOK(r) /\ history'[r] = history[r] \cup {"running"}
      BY <2>3 DEF Commit, HoldInv, Inv, TypeOK, RunsOK
    <3>5. HoldOK(d)' /\ EndOK(r)'
      BY <2>1, <2>2, <3>2, <3>3, <3>4 DEF HoldOK, EndOK, Executing, RunOK
    <3>6. \A g \in Handlers \ {h} : ~(Executing(handler[g]) /\ handler[g].run = r)
      BY <2>1, HandlerFacts DEF HoldInv, HandlerOK, Executing
    <3> QED
      BY <2>2, <2>3, <3>1, <3>2, <3>5, <3>6, CommitHold DEF Statuses
  <2> QED
    BY <2>1, <2>2, <2>3, LetGo
<1>4. CASE TurnStart(h)
  <2>0. PICK r, p, d : /\ r = hd.run /\ p = Position("node", 0)
                       /\ d = [hd EXCEPT !.step = "stream", !.pos = p]
    OBVIOUS
  <2>1. r \in Runs /\ graph[r].at = "none" /\ Executing(hd)
    BY <1>0, <1>1, <1>4, <2>0 DEF TurnStart, At, HandlerOK, HoldOK, Executing
  <2>2. d.step = "stream" /\ d.run = r /\ d.pos = p
    BY <1>1, <2>0 DEF HandlerRecords
  <2> QED
    BY <1>0, <1>4, <2>0, <2>1, <2>2, MoveHold DEF TurnStart
<1>5. CASE TurnStartFails(h)
  <2>1. PICK d : d = [hd EXCEPT !.step = "fail"]
    OBVIOUS
  <2>2. d.step = "fail" /\ d.run = hd.run /\ hd.step = "started"
    BY <1>0, <1>1, <1>5, <2>1 DEF HandlerRecords, TurnStartFails, At
  <2>3. HoldOK(d) /\ Executing(hd)
    BY <1>1, <2>2 DEF HoldOK, Executing
  <2> QED
    BY <1>0, <1>5, <2>1, <2>2, <2>3, QuietHold DEF TurnStartFails, Goto
<1> QED
  BY <1>2, <1>3, <1>4, <1>5

(* A resolve holds the run it claims, which nobody held: it was suspended  *)
(* or failed.  One that finds the graph ended completes a run that another *)
(* may still hold.                                                         *)
LEMMA ResolvesHold ==
  ASSUME HoldInv, Inv', NEW h \in Handlers,
         \/ \E r \in Runs, k \in Rounds : ResolveBind(h, r, k)
         \/ ResolvePersist(h) \/ ResolveRecover(h) \/ ResolveFinish(h)
         \/ ResolveClaim(h) \/ ResolveOpen(h)
  PROVE  HoldInv'
<1>0. PICK hd, r : hd = handler[h] /\ r = handler[h].run
  OBVIOUS
<1>1. hd \in HandlerRecords /\ HandlerOK(hd) /\ HoldOK(hd) /\ r = hd.run
  BY <1>0, HandlerFacts DEF HoldInv, HoldsOK
<1>2. ASSUME NEW o \in Runs, NEW k \in Rounds, ResolveBind(h, o, k)
      PROVE  HoldInv'
  <2>1. PICK d : d = [Absent EXCEPT !.kind = "resolve", !.step = "persist", !.run = o, !.k = k,
                                    !.sawCompleted = (run[o] = "completed")]
    OBVIOUS
  <2>2. d.step = "persist"
    BY <2>1, AbsentRecord DEF HandlerRecords
  <2>3. HoldOK(d) /\ ~Executing(d)
    BY <2>2 DEF HoldOK, Executing
  <2> QED
    BY <1>2, <2>1, <2>3, QuietHold DEF ResolveBind
<1>3. CASE ResolvePersist(h)
  <2>1. PICK d : d = [hd EXCEPT !.step = "recover"]
    OBVIOUS
  <2>2. d.step = "recover"
    BY <1>1, <2>1 DEF HandlerRecords
  <2>3. HoldOK(d) /\ ~Executing(d)
    BY <2>2 DEF HoldOK, Executing
  <2>4. /\ Put(h, d) \/ Answer(h, "replayed") \/ Answer(h, "error")
        /\ UNCHANGED <<run, graph, history, closer>>
    BY <1>0, <1>3, <2>1 DEF ResolvePersist, Goto
  <2> QED
    BY <2>3, <2>4, QuietHold, LetGo
<1>4. CASE ResolveRecover(h)
  <2>1. UNCHANGED <<run, graph, history, closer>>
    BY <1>4 DEF ResolveRecover
  <2>2. \/ Answer(h, "error")
        \/ \E d : /\ Put(h, d)
                  /\ \/ graph[r].at = "done" /\ d = [hd EXCEPT !.step = "finish"]
                     \/ \E mode \in {"continue", "resume"} :
                          d = [hd EXCEPT !.step = "claim", !.mode = mode]
    BY <1>0, <1>4 DEF ResolveRecover, Goto
  <2>3. ASSUME NEW d,
               \/ graph[r].at = "done" /\ d = [hd EXCEPT !.step = "finish"]
               \/ \E mode \in {"continue", "resume"} :
                    d = [hd EXCEPT !.step = "claim", !.mode = mode]
        PROVE  HoldOK(d) /\ ~Executing(d)
    <3>1. \/ graph[r].at = "done" /\ d.step = "finish" /\ d.run = r
          \/ d.step = "claim"
      BY <1>1, <2>3 DEF HandlerRecords
    <3> QED
      BY <3>1 DEF HoldOK, Executing
  <2> QED
    BY <2>1, <2>2, <2>3, QuietHold, LetGo
<1>5. CASE ResolveFinish(h)
  <2>0. PICK d : d = [hd EXCEPT !.step = "tell", !.news = "completed"]
    OBVIOUS
  <2>1. r \in Runs /\ graph[r].at = "done"
    BY <1>0, <1>1, <1>5 DEF ResolveFinish, At, HandlerOK, HoldOK
  <2>2. d.step = "tell"
    BY <1>1, <2>0 DEF HandlerRecords
  <2>3. HoldOK(d) /\ HoldOK(d)' /\ ~Executing(d)
    BY <2>2 DEF HoldOK, Executing
  <2>4. /\ Commit(r, "completed") \/ UNCHANGED <<run, history>>
        /\ Put(h, d) /\ UNCHANGED <<graph, closer>>
    BY <1>0, <1>5, <2>0 DEF ResolveFinish
  <2>5. CASE Commit(r, "completed")
    <3>1. run'[r] = "completed"
      BY <2>1, <2>5 DEF Commit, HoldInv, Inv, TypeOK
    <3>2. EndOK(r)'
      BY <2>1, <2>4, <3>1 DEF EndOK
    <3> QED
      BY <2>1, <2>3, <2>4, <2>5, <3>2, CommitHold DEF Statuses
  <2> QED
    BY <2>3, <2>4, <2>5, QuietHold
<1>6. CASE ResolveClaim(h)
  <2>0. PICK d : d = [hd EXCEPT !.step = "open"]
    OBVIOUS
  <2>1. r \in Runs /\ RunOK(r)
    BY <1>0, <1>1, <1>6 DEF ResolveClaim, At, HandlerOK, HoldInv, Inv, RunsOK
  <2>2. d.step = "open" /\ d.run = r
    BY <1>1, <2>0 DEF HandlerRecords
  <2>3. /\ \/ Commit(r, "running") /\ run[r] \in Revivable /\ Put(h, d)
           \/ UNCHANGED <<run, history>> /\ Answer(h, "error")
        /\ UNCHANGED <<graph, closer>>
    BY <1>0, <1>6, <2>0 DEF ResolveClaim, Goto
  <2>4. CASE Commit(r, "running") /\ run[r] \in Revivable /\ Put(h, d)
    <3>1. run'[r] = "running" /\ history'[r] = history[r] \cup {"running"}
      BY <2>1, <2>4 DEF Commit, HoldInv, Inv, TypeOK
    <3>2. HoldOK(d)' /\ EndOK(r)'
      BY <2>1, <2>2, <2>4, <3>1 DEF HoldOK, EndOK, Executing, RunOK, Revivable
    <3>3. \A g \in Handlers : ~(Executing(handler[g]) /\ handler[g].run = r)
      BY <2>4 DEF HoldInv, HoldsOK, HoldOK, Revivable
    <3> QED
      BY <2>1, <2>2, <2>3, <2>4, <3>2, <3>3, CommitHold DEF Statuses
  <2> QED
    BY <2>3, <2>4, LetGo
<1>7. CASE ResolveOpen(h)
  <2>0. PICK value, d : /\ value = IF hd.mode = "resume" THEN hd.k ELSE 0
                        /\ d = [hd EXCEPT !.step = "stream", !.pos = graph[r], !.value = value]
    OBVIOUS
  <2>1. d.step = "stream" /\ d.run = r /\ d.pos = graph[r] /\ hd.step = "open"
    BY <1>0, <1>1, <1>7, <2>0 DEF HandlerRecords, ResolveOpen, At
  <2>2. HoldOK(d) /\ Executing(hd)
    BY <1>1, <2>1 DEF HoldOK, Executing
  <2>3. Put(h, d) /\ UNCHANGED <<run, graph, history, closer>>
    BY <1>0, <1>7, <2>0 DEF ResolveOpen
  <2> QED
    BY <1>0, <2>1, <2>2, <2>3, QuietHold
<1> QED
  BY <1>2, <1>3, <1>4, <1>5, <1>6, <1>7

(* The executor of a run moves its graph, alone. *)
LEMMA GraphsHold ==
  ASSUME HoldInv, Inv', NEW h \in Handlers,
         \/ GraphPass(h) \/ GraphMismatch(h) \/ GraphRequest(h) \/ GraphInterrupt(h)
         \/ GraphInterruptAgain(h) \/ GraphReplay(h) \/ GraphEnd(h) \/ GraphRaise(h)
  PROVE  HoldInv'
<1>0. PICK hd, r : hd = handler[h] /\ r = handler[h].run
  OBVIOUS
<1>1. hd \in HandlerRecords /\ HandlerOK(hd) /\ HoldOK(hd) /\ hd.step = "stream" /\ hd.run = r
  BY <1>0, HandlerFacts
  DEF GraphPass, GraphMismatch, GraphRequest, GraphInterrupt, GraphInterruptAgain,
      GraphReplay, GraphEnd, GraphRaise, Streaming, HoldInv, HoldsOK
<1>2. Executing(hd) /\ hd.pos = graph[r]
  BY <1>1 DEF Executing, HoldOK
<1>3. ASSUME NEW p, NEW d, Put(h, d), Moved(h, p), run' = run, history' = history, closer' = closer,
             \/ d = [hd EXCEPT !.pos = p, !.value = 0]
             \/ d = [hd EXCEPT !.pos = p]
             \/ /\ d = [hd EXCEPT !.step = "settle", !.pos = p, !.news = "completed"]
                /\ p.at = "done"
             \/ /\ d = [hd EXCEPT !.step = "settle", !.pos = p, !.news = "suspended"]
                /\ p.at = "waiting",
             graph[r].at = "done" => p.at = "done"
      PROVE  HoldInv'
  <2>1. /\ d.run = r /\ d.pos = p
        /\ \/ d.step = "stream"
           \/ d.step = "settle" /\ p.at = IF d.news = "completed" THEN "done" ELSE "waiting"
    BY <1>1, <1>3 DEF HandlerRecords
  <2>2. /\ Executing(handler[h]) /\ r \in Runs /\ r = handler[h].run
        /\ graph' = [graph EXCEPT ![r] = p] /\ closer' = closer
    BY <1>0, <1>1, <1>2, <1>3 DEF Moved, HandlerOK
  <2>3. d.step \in {"stream", "settle"}
    BY <2>1
  <2> QED
    BY <1>3, <2>1, <2>2, <2>3, MoveHold
<1>4. CASE GraphPass(h)
  <2>1. /\ graph[r].at = "waiting" /\ UNCHANGED <<run, history, closer>>
        /\ Moved(h, Position("node", hd.pos.k))
        /\ Put(h, [hd EXCEPT !.pos = Position("node", hd.pos.k), !.value = 0])
    BY <1>0, <1>2, <1>4 DEF GraphPass, Streaming
  <2> QED
    BY <1>3, <2>1
<1>5. CASE GraphMismatch(h) \/ GraphRaise(h)
  <2>1. PICK d : d = [hd EXCEPT !.step = "fail"]
    OBVIOUS
  <2>2. d.step = "fail" /\ d.run = r
    BY <1>1, <2>1 DEF HandlerRecords
  <2>3. HoldOK(d)
    BY <1>1, <1>2, <2>2 DEF HoldOK, Executing
  <2>4. Put(h, d) /\ UNCHANGED <<run, graph, history, closer>>
    BY <1>0, <1>5, <2>1 DEF GraphMismatch, GraphRaise, Goto
  <2> QED
    BY <1>0, <1>2, <2>2, <2>3, <2>4, QuietHold
<1>6. CASE GraphRequest(h)
  <2>1. Put(h, hd)
    BY <1>0, <1>6 DEF GraphRequest, Put, HoldInv, Inv, TypeOK
  <2> QED
    BY <1>0, <1>1, <1>6, <2>1, QuietHold DEF GraphRequest
<1>7. CASE GraphInterrupt(h)
  <2>1. PICK p : p = Position("waiting", hd.pos.k + 1)
    OBVIOUS
  <2>2. /\ graph[r].at = "node" /\ UNCHANGED <<run, history, closer>> /\ Moved(h, p)
        /\ Put(h, [hd EXCEPT !.step = "settle", !.pos = p, !.news = "suspended"])
    BY <1>0, <1>2, <1>7, <2>1 DEF GraphInterrupt, Streaming
  <2>3. p.at = "waiting"
    BY <2>1 DEF Position
  <2> QED
    BY <1>3, <2>2, <2>3
<1>8. CASE GraphInterruptAgain(h)
  <2>1. PICK d : d = [hd EXCEPT !.step = "settle", !.news = "suspended"]
    OBVIOUS
  <2>2. d.step = "settle" /\ d.run = r /\ d.pos = hd.pos /\ d.news = "suspended"
    BY <1>1, <2>1 DEF HandlerRecords
  <2>3. graph[r].at = "waiting" /\ Put(h, d) /\ UNCHANGED <<run, graph, history, closer>>
    BY <1>0, <1>2, <1>8, <2>1 DEF GraphInterruptAgain, Streaming
  <2>4. HoldOK(d)
    BY <1>1, <1>2, <2>2, <2>3 DEF HoldOK, Executing
  <2> QED
    BY <1>0, <1>2, <2>2, <2>3, <2>4, QuietHold
<1>9. CASE GraphReplay(h)
  <2>1. PICK p : p = Position("node", hd.pos.k + 1)
    OBVIOUS
  <2>2. /\ graph[r].at = "node" /\ UNCHANGED <<run, history, closer>> /\ Moved(h, p)
        /\ Put(h, [hd EXCEPT !.pos = p])
    BY <1>0, <1>2, <1>9, <2>1 DEF GraphReplay, Streaming
  <2> QED
    BY <1>3, <2>2
<1>10. CASE GraphEnd(h)
  <2>1. PICK p : p = Position("done", hd.pos.k)
    OBVIOUS
  <2>2. /\ UNCHANGED <<run, history, closer>> /\ Moved(h, p)
        /\ Put(h, [hd EXCEPT !.step = "settle", !.pos = p, !.news = "completed"])
    BY <1>0, <1>10, <2>1 DEF GraphEnd
  <2>3. p.at = "done"
    BY <2>1 DEF Position
  <2> QED
    BY <1>3, <2>2, <2>3
<1> QED
  BY <1>4, <1>5, <1>6, <1>7, <1>8, <1>9, <1>10

(* A handler lets go of its run when it has committed what became of it. *)
LEMMA EndingsHold ==
  ASSUME HoldInv, Inv', NEW h \in Handlers, Settle(h) \/ Fail(h) \/ Tell(h) \/ Vanish(h)
  PROVE  HoldInv'
<1>0. PICK hd, r : hd = handler[h] /\ r = handler[h].run
  OBVIOUS
<1>1. hd \in HandlerRecords /\ HandlerOK(hd) /\ HoldOK(hd) /\ hd.run = r
  BY <1>0, HandlerFacts DEF HoldInv, HoldsOK
<1>2. CASE Settle(h)
  <2>0. PICK d, e : d = [hd EXCEPT !.step = "tell"] /\ e = [hd EXCEPT !.step = "fail"]
    OBVIOUS
  <2>1. /\ hd.step = "settle" /\ Executing(hd) /\ hd.news \in Committed /\ r \in Runs
        /\ RunOK(r) /\ EndOK(r)
        /\ \A g \in Handlers \ {h} : ~(Executing(handler[g]) /\ handler[g].run = r)
    BY <1>0, <1>1, <1>2, HoldFacts DEF Settle, HandlerOK, Executing
  <2>2. d.step = "tell" /\ e.step = "fail" /\ e.run = r
    BY <1>1, <2>0 DEF HandlerRecords
  <2>3. /\ \/ run[r] = "running" /\ Commit(r, hd.news) /\ Put(h, d)
           \/ UNCHANGED <<run, history>> /\ Put(h, e)
        /\ UNCHANGED <<graph, closer>>
    BY <1>0, <1>2, <2>0 DEF Settle, Goto
  <2>4. CASE run[r] = "running" /\ Commit(r, hd.news) /\ Put(h, d)
    <3>1. run'[r] = hd.news /\ history'[r] = history[r] \cup {hd.news}
      BY <2>1, <2>4 DEF Commit, HoldInv, Inv, TypeOK
    <3>2. EndOK(r)'
      BY <1>1, <2>1, <2>3, <3>1 DEF EndOK, HoldOK, Committed
    <3>3. HoldOK(d)' /\ ~Executing(d)
      BY <2>2 DEF HoldOK, Executing
    <3> QED
      BY <2>1, <2>3, <2>4, <3>2, <3>3, CommitHold DEF Statuses, Committed
  <2>5. CASE UNCHANGED <<run, history>> /\ Put(h, e)
    <3>1. HoldOK(e)
      BY <1>1, <2>1, <2>2 DEF HoldOK, Executing
    <3> QED
      BY <1>0, <2>1, <2>2, <2>3, <2>5, <3>1, QuietHold
  <2> QED
    BY <2>3, <2>4, <2>5
<1>3. CASE Fail(h)
  <2>0. PICK d : d = [hd EXCEPT !.step = "tell", !.news = "failed"]
    OBVIOUS
  <2>1. /\ hd.step = "fail" /\ Executing(hd) /\ r \in Runs /\ RunOK(r) /\ EndOK(r)
        /\ \A g \in Handlers \ {h} : ~(Executing(handler[g]) /\ handler[g].run = r)
    BY <1>0, <1>1, <1>3, HoldFacts DEF Fail, Executing
  <2>2. d.step = "tell"
    BY <1>1, <2>0 DEF HandlerRecords
  <2>3. /\ \/ run[r] \in Open /\ Commit(r, "failed")
           \/ UNCHANGED <<run, history>>
        /\ Put(h, d) /\ UNCHANGED <<graph, closer>>
    BY <1>0, <1>3, <2>0 DEF Fail, FailableBy, Open
  <2>4. HoldOK(d) /\ HoldOK(d)' /\ ~Executing(d)
    BY <2>2 DEF HoldOK, Executing
  <2>5. CASE run[r] \in Open /\ Commit(r, "failed")
    <3>1. run'[r] = "failed" /\ history'[r] = history[r] \cup {"failed"}
      BY <2>1, <2>5 DEF Commit, HoldInv, Inv, TypeOK
    <3>2. EndOK(r)'
      BY <2>1, <2>3, <3>1 DEF EndOK
    <3> QED
      BY <2>1, <2>3, <2>4, <2>5, <3>2, CommitHold DEF Statuses
  <2> QED
    BY <2>3, <2>4, <2>5, QuietHold
<1>4. CASE Tell(h) \/ Vanish(h)
  BY <1>4, LetGo DEF Tell, Vanish
<1> QED
  BY <1>2, <1>3, <1>4

(* Every step keeps the executors apart, if no request is cancelled and    *)
(* the conversation is not closed.                                         *)
LEMMA NextKeepsHold ==
  ASSUME "cancel" \notin Faults, "close" \notin Faults, HoldInv, [Next]_vars
  PROVE  HoldInv'
<1>1. Inv'
  BY NextKeepsInv DEF HoldInv
<1>2. ASSUME NEW h \in Handlers, Begin(h) \/ Step(h) \/ Vanish(h)
      PROVE  HoldInv'
  BY <1>1, <1>2, TurnsHold, ResolvesHold, GraphsHold, EndingsHold DEF Begin, Step
<1>3. CASE UNCHANGED vars
  BY <1>1, <1>3
  DEF vars, HoldInv, HoldsOK, HoldOK, EndsOK, EndOK, Apart, Executing
<1>4. (\A h \in Handlers : ~Cancel(h)) /\ ~CloseRead /\ ~CloseWrite
  BY DEF Cancel, CloseRead, CloseWrite, HoldInv
<1> QED
  BY <1>2, <1>3, <1>4 DEF Next

(* The invariant of executors, under the faults that leave them apart: a   *)
(* node that raises and a process that dies.                               *)
THEOREM HoldInvHolds ==
  ASSUME "cancel" \notin Faults, "close" \notin Faults
  PROVE  Spec => []HoldInv
<1>1. Init => HoldInv
  <2> SUFFICES ASSUME Init PROVE HoldInv
    OBVIOUS
  <2>1. \A h \in Handlers : handler[h].step = "idle"
    BY DEF Init, Absent
  <2>2. HoldsOK /\ Apart
    BY <2>1 DEF HoldsOK, HoldOK, Apart, Executing
  <2>3. EndsOK /\ closer.step = "idle"
    BY DEF Init, EndsOK, EndOK
  <2> QED
    BY <2>2, <2>3, InitHasInv DEF HoldInv
<1> QED
  BY <1>1, NextKeepsHold, PTL DEF Spec

(* Two executors never drive the graph of one run at the same time, however *)
(* many answers are sent again, nodes raise and processes die.  (A request  *)
(* that is cancelled, or a close, can break it: the hypotheses are needed.) *)
THEOREM ExecutorsStayApart ==
  ASSUME "cancel" \notin Faults, "close" \notin Faults
  PROVE  Spec => []OneExecutorPerRun
<1>1. HoldInv => OneExecutorPerRun
  BY DEF HoldInv, Apart, Executing, OneExecutorPerRun
<1> QED
  BY <1>1, HoldInvHolds, PTL

(* The row of a run, its checkpoint and its calls agree under the same      *)
(* faults: completed runs stay completed with a graph that ended, suspended *)
(* ones wait for a call that is stored.                                     *)
THEOREM RunsStayConsistent ==
  ASSUME "cancel" \notin Faults, "close" \notin Faults
  PROVE  Spec => []RunsConsistent
<1>1. HoldInv => RunsConsistent
  <2> SUFFICES ASSUME HoldInv PROVE RunsConsistent
    OBVIOUS
  <2>1. TypeOK
    BY DEF HoldInv, Inv
  <2>2. \A r \in Runs : RunOK(r) /\ EndOK(r)
    BY DEF HoldInv, Inv, RunsOK, EndsOK
  <2> QED
    BY <2>1, <2>2
    DEF RunsConsistent, CompletedRunsFinishedGraph, SuspendedRunsWaitForStoredCall,
        RunOK, EndOK, PosOK
<1> QED
  BY <1>1, HoldInvHolds, PTL

===============================================================================
