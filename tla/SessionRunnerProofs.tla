-------------------------- MODULE SessionRunnerProofs ------------------------
(* Proofs about SessionRunner for every set of sessions, callers and turn    *)
(* ids, every queue and every choice of operations and failures, from the    *)
(* assumptions on its constants alone.  The key is that a task is in one     *)
(* place, a queue or a runner, and that its caller waits for it there (IInv): *)
(* so what a runner does to a session no other task can come between.  On it  *)
(* rest: Storage follows memory (StoreIsMemory is inductive with IInv),       *)
(* runners and sessions come and go together (EndInv), the gauge counts       *)
(* (GaugeInv) and the registry lists (ListInv).                               *)
EXTENDS SessionRunner, FiniteSetTheorems, SequenceTheorems, TLAPS

TaskPCs == {"wait", "twait", "tdrain"}                  \* a task is out
TurnCall == {"reserve", "register"} \cup TurnPCs
TaskCall == {"lookup", "send", "wait"}
SessionPCs == TurnCall \cup TaskCall \cup CreatePCs \cup {"delstop", "delwait"}
Committing == {"userMem", "lastMem"}
HasTask(s, c) == cur[s] = c \/ \E i \in DOMAIN queue[s] : queue[s][i] = c

(* What a caller has in hand while it is inside an operation.                *)
CallsKnown ==
  \A c \in Callers :
    /\ pc[c] \in SessionPCs => sid[c] \in Sids
    /\ pc[c] \in TurnCall => op[c] = "turn" /\ turn[c] \in Turns
    /\ pc[c] \in TaskCall => op[c] \in {"pause", "close", "delete"}
    /\ pc[c] \in {"lookup", "send", "reserve", "register", "tsend"} => reply[c] = "none"

(* A task is in one place, and its caller waits for it.                      *)
TasksOwned ==
  /\ \A s \in Sids, c \in Callers :
       HasTask(s, c) => pc[c] \in TaskPCs /\ sid[c] = s /\ reply[c] = "none"
  /\ \A s \in Sids : \A i, j \in DOMAIN queue[s] : queue[s][i] = queue[s][j] => i = j
  /\ \A s \in Sids : \A i \in DOMAIN queue[s] : queue[s][i] # cur[s]

(* Where the runner is in its task.                                          *)
StageOf(s) ==
  /\ cur[s] = None <=> stage[s] = "none"
  /\ cand[s] # None <=> stage[s] \in Committing
  /\ stage[s] \in {"user", "userMem", "final"} => op[cur[s]] = "turn"
  /\ stage[s] = "gone" => op[cur[s]] = "delete"
  /\ stage[s] = "start" => op[cur[s]] \in {"turn", "pause", "close", "delete"}
  /\ stage[s] = "lastMem" => op[cur[s]] \in {"turn", "pause", "close"}
StagesMatch == \A s \in Sids : StageOf(s)

(* An id that was never handed out is nowhere.                               *)
FreshIds ==
  \A s \in Sids : rmode[s] = "none" =>
    /\ mem[s] = None /\ store[s] = None /\ cur[s] = None /\ queue[s] = <<>>
    /\ \A c \in Callers : sid[c] # s

Registry ==
  /\ RegistryTruthful
  /\ \A s \in Sids : ~hasTurns[s] => \A t \in Turns : active[s][t] = None

(* The history the turn under way has built ends with its user message.      *)
EndsWithUser(h, t) == Len(h) > 0 /\ h[Len(h)] = Msg(t, "user")
HistoryOf(s) ==
  /\ Known(s) => Serial(mem[s].msgs)
  /\ store[s] # None => Serial(store[s].msgs)
  /\ cand[s] # None => Serial(cand[s].new.msgs)
  /\ stage[s] = "userMem" => cur[s] # None /\ EndsWithUser(cand[s].new.msgs, turn[cur[s]])
  /\ stage[s] = "final" /\ Known(s) =>
       cur[s] # None /\ EndsWithUser(mem[s].msgs, turn[cur[s]])
Histories == \A s \in Sids : HistoryOf(s)
IInv == /\ TypeOK /\ CallsKnown /\ TasksOwned /\ StagesMatch /\ FreshIds
        /\ Registry /\ Histories

(* Tasks are where they were when no runner moves and no waiting caller does.*)
LEMMA TasksStay ==
  ASSUME TasksOwned, UNCHANGED <<queue, cur>>,
         \A c \in Callers : pc[c] \in TaskPCs /\ reply[c] = "none" =>
           pc'[c] \in TaskPCs /\ sid'[c] = sid[c] /\ reply'[c] = "none"
  PROVE  TasksOwned'
BY DEF TasksOwned, HasTask

(* A new task is at the end of its queue, and nowhere else.                  *)
LEMMA TaskSent ==
  ASSUME RunnerTypes, TasksOwned, NEW c \in Callers, NEW s \in Sids, sid[c] = s,
         pc[c] \notin TaskPCs, reply[c] = "none", pc'[c] \in TaskPCs,
         queue' = [queue EXCEPT ![s] = Append(@, c)],
         UNCHANGED <<cur, sid, reply>>,
         \A d \in Callers : d # c => pc'[d] = pc[d]
  PROVE  TasksOwned'
<1>1. /\ queue[s] \in Seq(Callers) /\ queue'[s] = Append(queue[s], c)
      /\ \A x \in Sids : x # s => queue'[x] = queue[x]
  BY DEF RunnerTypes
<1>2. /\ DOMAIN queue'[s] = 1..(Len(queue[s]) + 1)
      /\ DOMAIN queue[s] = 1..Len(queue[s]) /\ Len(queue[s]) \in Nat
      /\ \A i \in DOMAIN queue[s] : queue'[s][i] = queue[s][i]
      /\ queue'[s][Len(queue[s]) + 1] = c
  BY <1>1
<1>3. \A x \in Sids : ~HasTask(x, c)
  BY DEF TasksOwned
<1>4. ASSUME NEW x \in Sids, NEW d \in Callers, HasTask(x, d)'
      PROVE  HasTask(x, d) \/ (x = s /\ d = c)
  <2>1. CASE x # s
    BY <1>1, <1>4, <2>1 DEF HasTask
  <2>2. CASE x = s /\ cur[s] # d
    <3>1. PICK i \in DOMAIN queue'[s] : queue'[s][i] = d
      BY <1>4, <2>2 DEF HasTask
    <3> QED BY <1>2, <2>2, <3>1 DEF HasTask
  <2> QED BY <2>1, <2>2 DEF HasTask
<1>5. ASSUME NEW x \in Sids, NEW d \in Callers, HasTask(x, d)'
      PROVE  pc'[d] \in TaskPCs /\ sid'[d] = x /\ reply'[d] = "none"
  <2>1. CASE d = c
    BY <1>3, <1>4, <1>5, <2>1
  <2>2. CASE d # c
    BY <1>4, <1>5, <2>2 DEF TasksOwned
  <2> QED BY <2>1, <2>2
<1>6. \A x \in Sids : \A i, j \in DOMAIN queue'[x] :
        queue'[x][i] = queue'[x][j] => i = j
  BY <1>1, <1>2, <1>3 DEF TasksOwned, HasTask
<1>7. \A x \in Sids : \A i \in DOMAIN queue'[x] : queue'[x][i] # cur'[x]
  BY <1>1, <1>2, <1>3 DEF TasksOwned, HasTask
<1> QED BY <1>5, <1>6, <1>7 DEF TasksOwned

(* A task that ends answers its caller and is nowhere any more.              *)
LEMMA TaskEnds ==
  ASSUME RunnerTypes, CallerTypes, TasksOwned, NEW s \in Sids, NEW r, cur[s] # None,
         cur' = [cur EXCEPT ![s] = None], reply' = [reply EXCEPT ![cur[s]] = r],
         UNCHANGED <<queue, pc, sid>>
  PROVE  TasksOwned'
<1>1. cur[s] \in Callers /\ cur'[s] = None /\ \A x \in Sids : x # s => cur'[x] = cur[x]
  BY RunnerAssumption DEF RunnerTypes
<1>2. \A x \in Sids, c \in Callers : HasTask(x, c)' => HasTask(x, c)
  BY <1>1, RunnerAssumption DEF HasTask
<1>3. \A x \in Sids, c \in Callers : HasTask(x, c)' => c # cur[s]
  <2> SUFFICES ASSUME NEW x \in Sids, NEW c \in Callers, HasTask(x, c)', c = cur[s]
               PROVE  FALSE
    OBVIOUS
  <2>1. HasTask(x, c) /\ HasTask(s, c)
    BY <1>2 DEF HasTask
  <2>2. x = s
    BY <2>1 DEF TasksOwned
  <2> QED BY <1>1, <2>2, RunnerAssumption DEF HasTask, TasksOwned
<1>4. \A c \in Callers : c # cur[s] => reply'[c] = reply[c]
  BY DEF CallerTypes
<1>5. \A x \in Sids : \A i \in DOMAIN queue[x] : queue[x][i] \in Callers
  BY DEF RunnerTypes
<1> QED BY <1>1, <1>2, <1>3, <1>4, <1>5, RunnerAssumption DEF TasksOwned

(* No caller whose task a runner executes begins another operation.          *)
LEMMA StageKept ==
  ASSUME RunnerTypes, TasksOwned, NEW s \in Sids, StageOf(s),
         cur'[s] = cur[s], stage'[s] = stage[s], cand'[s] = cand[s],
         \A d \in Callers : pc[d] \in TaskPCs => op'[d] = op[d]
  PROVE  StageOf(s)'
<1>1. cur[s] # None => op'[cur[s]] = op[cur[s]]
  BY DEF RunnerTypes, TasksOwned, HasTask
<1> QED BY <1>1 DEF StageOf, Committing

(* The registry is truthful while no entry and no turn under way changes.    *)
LEMMA RegistryKept ==
  ASSUME Registry, UNCHANGED active, \A s \in Sids : hasTurns[s] => hasTurns'[s],
         \A c \in Callers : pc[c] \in TurnPCs =>
           pc'[c] \in TurnPCs /\ sid'[c] = sid[c] /\ turn'[c] = turn[c]
  PROVE  Registry'
BY DEF Registry, RegistryTruthful

(* A session whose runner does not move keeps its history, or loses it.      *)
LEMMA HistoryKept ==
  ASSUME RunnerTypes, TasksOwned, NEW s \in Sids, HistoryOf(s),
         mem'[s] \in {mem[s], None}, store'[s] \in {store[s], None, EmptySession},
         cand'[s] = cand[s], stage'[s] = stage[s], cur'[s] = cur[s],
         \A d \in Callers : pc[d] \in TaskPCs => turn'[d] = turn[d]
  PROVE  HistoryOf(s)'
<1>1. cur[s] # None => turn'[cur[s]] = turn[cur[s]]
  BY DEF RunnerTypes, TasksOwned, HasTask
<1>2. \A h : Serial(h)' <=> Serial(h)
  BY DEF Serial, Msg
<1>3. store'[s] # None => Serial(store'[s].msgs)
  BY DEF HistoryOf, EmptySession, Serial
<1> QED BY <1>1, <1>2, <1>3 DEF HistoryOf, Known, EndsWithUser, Msg

(* So does one whose runner is through with its task, or not yet writing.    *)
LEMMA HistoryAtRest ==
  ASSUME NEW s \in Sids, HistoryOf(s),
         mem'[s] \in {mem[s], None}, store'[s] \in {store[s], None},
         cand'[s] = None, stage'[s] \notin {"userMem", "final"}
  PROVE  HistoryOf(s)'
<1>1. \A h : Serial(h)' <=> Serial(h)
  BY DEF Serial, Msg
<1> QED BY <1>1 DEF HistoryOf, Known

(* The end of a task at its runner.                                          *)
LEMMA Finishes ==
  ASSUME RunnerTypes, CallerTypes, NEW s \in Sids, cur[s] # None,
         NEW r \in {"ok", "err"}, Finish(s, r)
  PROVE  /\ cur' \in [Sids -> Callers \cup {None}]
         /\ stage' \in [Sids -> {"none", "start", "user", "userMem", "final", "lastMem", "gone"}]
         /\ cand' \in [Sids -> Candidates \cup {None}]
         /\ cur'[s] = None /\ stage'[s] = "none" /\ cand'[s] = None
         /\ \A x \in Sids \ {s} :
              cur'[x] = cur[x] /\ stage'[x] = stage[x] /\ cand'[x] = cand[x]
BY DEF RunnerTypes, CallerTypes, Finish

(* The first half of a commit: it succeeds, or it ends the task.             *)
LEMMA Sets ==
  ASSUME ManagerTypes, RunnerTypes, CallerTypes, NEW s \in Sids, cur[s] # None, Known(s),
         NEW new \in Sessions, NEW next \in Committing, StoreSet(s, new, next)
  PROVE  /\ store' \in [Sids -> Snapshots]
         /\ cur' \in [Sids -> Callers \cup {None}]
         /\ stage' \in [Sids -> {"none", "start", "user", "userMem", "final", "lastMem", "gone"}]
         /\ cand' \in [Sids -> Candidates \cup {None}]
         /\ \A x \in Sids \ {s} : /\ store'[x] = store[x] /\ cur'[x] = cur[x]
                                  /\ stage'[x] = stage[x] /\ cand'[x] = cand[x]
         /\ \/ /\ store'[s] = new /\ stage'[s] = next /\ cur' = cur
               /\ cand'[s] # None /\ cand'[s].new = new
            \/ store' = store /\ cur'[s] = None /\ stage'[s] = "none" /\ cand'[s] = None
<1>1. mem[s] \in Sessions /\ mem[s].st \in States
  BY DEF ManagerTypes, Known, Snapshots, Sessions
<1> DEFINE k == [new |-> new, from |-> mem[s].st]
<1>2. k \in Candidates /\ k # None /\ k.new = new
  BY <1>1, RunnerAssumption DEF Candidates
<1> HIDE DEF k
<1>3. CASE store' = [store EXCEPT ![s] = new] /\ cand' = [cand EXCEPT ![s] = k]
           /\ stage' = [stage EXCEPT ![s] = next] /\ cur' = cur
  BY <1>2, <1>3 DEF ManagerTypes, RunnerTypes, Snapshots, Committing
<1>4. CASE Finish(s, "err") /\ store' = store
  <2>1. cur' \in [Sids -> Callers \cup {None}] /\ cur'[s] = None
    BY <1>4, Finishes
  <2> QED BY <1>4, <2>1, Finishes DEF ManagerTypes
<1> QED BY <1>3, <1>4 DEF StoreSet, Write, NoWrite, k

(* The two lines of a turn keep a history serial.                            *)
LEMMA SerialUser ==
  ASSUME NEW h \in Seq([turn : Turns, role : {"user", "final"}]), NEW t \in Turns,
         Serial(h), \A i \in DOMAIN h : h[i].turn # t
  PROVE  Serial(Append(h, Msg(t, "user")))
<1> DEFINE g == Append(h, Msg(t, "user"))
<1>1. /\ DOMAIN h = 1..Len(h) /\ Len(h) \in Nat /\ DOMAIN g = 1..(Len(h) + 1)
      /\ \A i \in 1..Len(h) : g[i] = h[i]
      /\ g[Len(h) + 1] = Msg(t, "user")
  BY DEF Msg
<1> HIDE DEF g
<1>2. g[Len(h) + 1].turn = t /\ g[Len(h) + 1].role = "user"
  BY <1>1 DEF Msg
<1>3. \A i \in DOMAIN g : g[i].role = "final" => i > 1 /\ g[i - 1] = Msg(g[i].turn, "user")
  BY <1>1, <1>2 DEF Serial
<1>4. \A i, j \in DOMAIN g : g[i] = g[j] => i = j
  BY <1>1, <1>2 DEF Serial
<1> QED BY <1>3, <1>4 DEF Serial, g

LEMMA SerialFinal ==
  ASSUME NEW h \in Seq([turn : Turns, role : {"user", "final"}]), NEW t \in Turns,
         Serial(h), EndsWithUser(h, t)
  PROVE  Serial(Append(h, Msg(t, "final")))
<1> DEFINE g == Append(h, Msg(t, "final"))
<1>1. /\ DOMAIN h = 1..Len(h) /\ Len(h) \in Nat /\ DOMAIN g = 1..(Len(h) + 1)
      /\ \A i \in 1..Len(h) : g[i] = h[i]
      /\ g[Len(h) + 1] = Msg(t, "final")
  BY DEF Msg
<1> HIDE DEF g
<1>2. g[Len(h) + 1].turn = t /\ Len(h) > 0 /\ g[Len(h)] = Msg(t, "user")
  BY <1>1 DEF Msg, EndsWithUser
<1>3. \A i \in DOMAIN g : g[i].role = "final" => i > 1 /\ g[i - 1] = Msg(g[i].turn, "user")
  <2> TAKE i \in DOMAIN g
  <2>1. CASE i = Len(h) + 1
    BY <1>1, <1>2, <2>1
  <2>2. CASE i \in 1..Len(h)
    BY <1>1, <2>2 DEF Serial
  <2> QED BY <1>1, <2>1, <2>2
<1>4. \A i \in 1..Len(h) : g[i] # Msg(t, "final")
  <2> SUFFICES ASSUME NEW i \in 1..Len(h), h[i] = Msg(t, "final") PROVE FALSE
    BY <1>1
  <2>1. i > 1 /\ h[i - 1] = h[Len(h)]
    BY <1>1, <1>2 DEF Serial, Msg
  <2>2. i - 1 \in DOMAIN h /\ Len(h) \in DOMAIN h
    BY <1>1, <1>2, <2>1
  <2> QED BY <2>1, <2>2 DEF Serial
<1>5. \A i, j \in DOMAIN g : g[i] = g[j] => i = j
  BY <1>1, <1>4 DEF Serial
<1> QED BY <1>3, <1>5 DEF Serial, g

(* A turn that a runner executes has its id.                                 *)
LEMMA TurnRuns ==
  ASSUME CallsKnown, TasksOwned, RunnerTypes, CallerTypes,
         NEW s \in Sids, cur[s] # None
  PROVE  /\ cur[s] \in Callers
         /\ op[cur[s]] = "turn" => turn[cur[s]] \in Turns
<1>1. cur[s] \in Callers /\ pc[cur[s]] \in TaskPCs
  BY DEF RunnerTypes, TasksOwned, HasTask
<1> QED BY <1>1 DEF CallsKnown, TaskPCs, TurnCall, TaskCall, TurnPCs

LEMMA Queued ==
  ASSUME RunnerTypes, NEW c \in Callers, NEW s \in Sids, Room(s),
         queue' = [queue EXCEPT ![s] = Append(@, c)],
         UNCHANGED <<stop, rmode, cur, stage, cand>>
  PROVE  RunnerTypes'
<1>1. queue[s] \in Seq(Callers) /\ Len(queue[s]) < QueueCap
  BY DEF RunnerTypes, Room
<1>2. Append(queue[s], c) \in Seq(Callers) /\ Len(Append(queue[s], c)) <= QueueCap
  BY <1>1, RunnerAssumption
<1>3. queue' \in [Sids -> Seq(Callers)] /\ \A x \in Sids : Len(queue'[x]) <= QueueCap
  BY <1>2 DEF RunnerTypes
<1> QED BY <1>3 DEF RunnerTypes

(* A step of a task that writes a new version of its session, or ends.       *)
LEMMA Writes ==
  ASSUME ManagerTypes, RunnerTypes, CallerTypes, StagesMatch, Histories, TasksOwned,
         NEW s \in Sids, cur[s] # None, NEW new, NEW next \in Committing,
         NEW r \in {"ok", "err"},
         \/ Finish(s, r) /\ UNCHANGED store
         \/ /\ Known(s) /\ new \in Sessions /\ Serial(new.msgs)
            /\ StoreSet(s, new, next)
            /\ op[cur[s]] \in {"turn", "pause", "close"}
            /\ next = "userMem" =>
                 op[cur[s]] = "turn" /\ EndsWithUser(new.msgs, turn[cur[s]]),
         UNCHANGED <<closed, mem, indexed, listed, hasTurns, active, gauge, stop, rmode,
                     queue, pc, op, turn>>
  PROVE  ManagerTypes' /\ RunnerTypes' /\ StagesMatch' /\ Histories'
<1> DEFINE Ended == /\ store' = store /\ cur'[s] = None /\ stage'[s] = "none"
                    /\ cand'[s] = None
           Written == /\ store'[s] = new /\ stage'[s] = next /\ cur' = cur
                      /\ cand'[s] # None /\ cand'[s].new = new
                      /\ Known(s) /\ Serial(new.msgs)
                      /\ op[cur[s]] \in {"turn", "pause", "close"}
                      /\ next = "userMem" =>
                           op[cur[s]] = "turn" /\ EndsWithUser(new.msgs, turn[cur[s]])
<1>1. /\ store' \in [Sids -> Snapshots]
      /\ cur' \in [Sids -> Callers \cup {None}]
      /\ stage' \in [Sids -> {"none", "start", "user", "userMem", "final", "lastMem", "gone"}]
      /\ cand' \in [Sids -> Candidates \cup {None}]
      /\ \A x \in Sids \ {s} : /\ store'[x] = store[x] /\ cur'[x] = cur[x]
                               /\ stage'[x] = stage[x] /\ cand'[x] = cand[x]
      /\ Ended \/ Written
  <2>1. CASE Finish(s, r) /\ UNCHANGED store
    BY <2>1, Finishes DEF ManagerTypes
  <2>2. CASE /\ Known(s) /\ new \in Sessions /\ Serial(new.msgs)
             /\ StoreSet(s, new, next)
             /\ op[cur[s]] \in {"turn", "pause", "close"}
             /\ next = "userMem" =>
                  op[cur[s]] = "turn" /\ EndsWithUser(new.msgs, turn[cur[s]])
    BY <2>2, Sets
  <2> QED BY <2>1, <2>2
<1>2. ManagerTypes' /\ RunnerTypes'
  BY <1>1 DEF ManagerTypes, RunnerTypes
<1>3. StagesMatch'
  <2>1. \A x \in Sids \ {s} : StageOf(x)'
    BY <1>1, StageKept DEF StagesMatch
  <2>2. StageOf(s)'
    BY <1>1 DEF StagesMatch, StageOf, Committing
  <2> QED BY <2>1, <2>2 DEF StagesMatch
<1>4. Histories'
  <2>1. \A x \in Sids \ {s} : HistoryOf(x)'
    BY <1>1, HistoryKept DEF Histories
  <2>2. CASE Ended
    BY <2>1, <2>2, HistoryAtRest DEF Histories
  <2>3. CASE Written
    <3>1. \A h : Serial(h)' <=> Serial(h)
      BY DEF Serial, Msg
    <3>2. HistoryOf(s)'
      BY <2>3, <3>1 DEF Histories, HistoryOf, Known, EndsWithUser, Msg,
         Committing
    <3> QED BY <2>1, <3>2 DEF Histories
  <2> QED BY <1>1, <2>2, <2>3
<1> QED BY <1>2, <1>3, <1>4

(* The sessions a turn writes are sessions.                                  *)
LEMMA UserSession ==
  ASSUME IInv, NEW s \in Sids, Known(s), cur[s] # None, op[cur[s]] = "turn"
  PROVE  [st |-> IF mem[s].st = "created" THEN "active" ELSE mem[s].st,
          msgs |-> Append(mem[s].msgs, Msg(turn[cur[s]], "user"))] \in Sessions
<1>1. turn[cur[s]] \in Turns
  BY TurnRuns DEF IInv, TypeOK
<1>2. mem[s] \in Sessions
  BY RunnerAssumption DEF IInv, TypeOK, ManagerTypes, Snapshots, Known
<1>3. mem[s].st \in States /\ mem[s].msgs \in Seq([turn : Turns, role : {"user", "final"}])
  BY <1>2 DEF Sessions
<1>4. Msg(turn[cur[s]], "user") \in [turn : Turns, role : {"user", "final"}]
  BY <1>1 DEF Msg
<1>5. Append(mem[s].msgs, Msg(turn[cur[s]], "user"))
        \in Seq([turn : Turns, role : {"user", "final"}])
  BY <1>3, <1>4
<1> QED BY <1>3, <1>5 DEF Sessions, States

LEMMA FinalSession ==
  ASSUME IInv, NEW s \in Sids, Known(s), cur[s] # None, op[cur[s]] = "turn"
  PROVE  /\ [mem[s] EXCEPT !.msgs = Append(@, Msg(turn[cur[s]], "final"))] \in Sessions
         /\ [mem[s] EXCEPT !.msgs = Append(@, Msg(turn[cur[s]], "final"))].msgs
              = Append(mem[s].msgs, Msg(turn[cur[s]], "final"))
<1>1. turn[cur[s]] \in Turns
  BY TurnRuns DEF IInv, TypeOK
<1>2. mem[s] \in Sessions
  BY RunnerAssumption DEF IInv, TypeOK, ManagerTypes, Snapshots, Known
<1>3. mem[s].st \in States /\ mem[s].msgs \in Seq([turn : Turns, role : {"user", "final"}])
  BY <1>2 DEF Sessions
<1>4. Msg(turn[cur[s]], "final") \in [turn : Turns, role : {"user", "final"}]
  BY <1>1 DEF Msg
<1>5. Append(mem[s].msgs, Msg(turn[cur[s]], "final"))
        \in Seq([turn : Turns, role : {"user", "final"}])
  BY <1>3, <1>4
<1>6. \A q : [mem[s] EXCEPT !.msgs = q] = [st |-> mem[s].st, msgs |-> q]
  BY <1>2 DEF Sessions
<1> QED BY <1>3, <1>5, <1>6 DEF Sessions

(* ---- one lemma for each action: the callers ----------------------------- *)
LEMMA BeginTaskStep ==
  ASSUME IInv, NEW c \in Callers, NEW o \in Ops, NEW s \in Sids, BeginTask(c, o, s)
  PROVE  IInv'
<1> USE RunnerAssumption DEF IInv, TypeOK, Goto, mgrVars, runVars, callVars,
   ctlVars, endVars, ghosts, callGhosts, NoWrite, Write, BeginTask, Begin, Known
<1>1. ManagerTypes' /\ RunnerTypes' /\ CallerTypes'
  BY DEF ManagerTypes, RunnerTypes, CallerTypes
<1>2. EndTypes' /\ FreshIds' /\ Histories'
  BY DEF EndTypes, FreshIds, Histories, HistoryOf, Known
<1>3. CallsKnown'
  BY DEF CallsKnown, TypeOK, CallerTypes, RunnerTypes, TurnPCs, CreatePCs,
     TurnCall, TaskCall, SessionPCs, TasksOwned, TaskPCs, HasTask
<1>4. TasksOwned'
  BY DEF TasksOwned, HasTask, TypeOK, RunnerTypes, CallerTypes, TaskPCs
<1>5. StagesMatch'
  <2>1. \A d \in Callers : pc[d] \in TaskPCs => op'[d] = op[d]
    BY DEF CallerTypes, TaskPCs
  <2> QED BY <2>1, StageKept DEF StagesMatch
<1>6. Registry'
  BY DEF Registry, RegistryTruthful, TypeOK, CallerTypes, ManagerTypes, TurnPCs
<1> QED BY <1>1, <1>2, <1>3, <1>4, <1>5, <1>6 DEF TypeOK

LEMMA LookupStep ==
  ASSUME IInv, NEW c \in Callers, Lookup(c) PROVE IInv'
<1> USE RunnerAssumption DEF IInv, TypeOK, Goto, mgrVars, runVars, callVars,
   ctlVars, endVars, ghosts, callGhosts, NoWrite, Write, Lookup
<1>1. ManagerTypes' /\ RunnerTypes' /\ CallerTypes'
  BY DEF ManagerTypes, RunnerTypes, CallerTypes
<1>2. EndTypes' /\ StagesMatch' /\ FreshIds'
  BY DEF EndTypes, StagesMatch, StageOf, FreshIds
<1>3. Histories'
  BY DEF Histories, HistoryOf, Known
<1>4. CallsKnown'
  BY DEF CallsKnown, TypeOK, CallerTypes, RunnerTypes, TurnPCs, CreatePCs,
     TurnCall, TaskCall, SessionPCs, TasksOwned, TaskPCs, HasTask
<1>5. TasksOwned'
  BY DEF TasksOwned, HasTask, TypeOK, RunnerTypes, CallerTypes, TaskPCs
<1>6. Registry'
  BY DEF Registry, RegistryTruthful, TypeOK, CallerTypes, ManagerTypes, TurnPCs
<1> QED BY <1>1, <1>2, <1>4, <1>5, <1>6, <1>3 DEF TypeOK

LEMMA SendStep ==
  ASSUME IInv, NEW c \in Callers, Send(c) PROVE IInv'
<1> USE RunnerAssumption DEF IInv, TypeOK, Goto, mgrVars, runVars, callVars,
   ctlVars, endVars, ghosts, callGhosts, NoWrite, Write, Send, Room, Enqueue
<1>1. ManagerTypes' /\ CallerTypes' /\ EndTypes'
  <2>1. ManagerTypes' /\ EndTypes'
    BY DEF ManagerTypes, EndTypes
  <2>2. CallerTypes'
    BY DEF CallerTypes
  <2> QED BY <2>1, <2>2
<1>2. StagesMatch' /\ Histories'
  BY DEF StagesMatch, StageOf, Histories, HistoryOf, Known
<1>3. RunnerTypes'
  <2>1. sid[c] \in Sids
    BY DEF CallsKnown, SessionPCs, TaskCall
  <2>2. CASE queue' = queue
    BY <2>2 DEF RunnerTypes
  <2> QED BY <2>1, <2>2, Queued
<1>4. CallsKnown'
  BY DEF CallsKnown, TypeOK, CallerTypes, RunnerTypes, TurnPCs, CreatePCs,
     TurnCall, TaskCall, SessionPCs, TasksOwned, TaskPCs, HasTask
<1>5. TasksOwned'
  <2>1. /\ sid[c] \in Sids /\ reply[c] = "none" /\ pc[c] \notin TaskPCs
        /\ \A d \in Callers : d # c => pc'[d] = pc[d]
    BY DEF CallsKnown, SessionPCs, TaskCall, TaskPCs, CallerTypes
  <2>2. CASE queue' = queue
    BY <2>1, <2>2, TasksStay
  <2>3. CASE Enqueue(c) /\ Goto(c, "wait")
    <3>1. pc'[c] \in TaskPCs
      BY <2>3 DEF CallerTypes, TaskPCs
    <3> QED BY <2>1, <2>3, <3>1, TaskSent
  <2> QED BY <2>2, <2>3
<1>6. FreshIds'
  BY DEF FreshIds, TypeOK, ManagerTypes, RunnerTypes, CallerTypes, EndTypes
<1>7. Registry'
  <2>1. \A d \in Callers : pc[d] \in TurnPCs => pc'[d] \in TurnPCs
    BY DEF CallerTypes, TurnPCs
  <2>2. \A x \in Sids : hasTurns[x] => hasTurns'[x]
    BY DEF ManagerTypes
  <2> QED BY <2>1, <2>2, RegistryKept
<1> QED BY <1>1, <1>3, <1>4, <1>5, <1>2, <1>6, <1>7 DEF TypeOK

LEMMA WaitStep ==
  ASSUME IInv, NEW c \in Callers, Wait(c) PROVE IInv'
<1> USE RunnerAssumption DEF IInv, TypeOK, Goto, mgrVars, runVars, callVars,
   ctlVars, endVars, ghosts, callGhosts, NoWrite, Write, Wait
<1>1. ManagerTypes' /\ RunnerTypes' /\ CallerTypes'
  BY DEF ManagerTypes, RunnerTypes, CallerTypes
<1>2. EndTypes' /\ TasksOwned' /\ StagesMatch'
  BY DEF EndTypes, TasksOwned, HasTask, StagesMatch, StageOf
<1>3. FreshIds' /\ Histories'
  BY DEF FreshIds, Histories, HistoryOf, Known
<1>4. CallsKnown'
  BY DEF CallsKnown, TypeOK, CallerTypes, RunnerTypes, TurnPCs, CreatePCs,
     TurnCall, TaskCall, SessionPCs, TasksOwned, TaskPCs, HasTask
<1>5. Registry'
  BY DEF Registry, RegistryTruthful, TypeOK, CallerTypes, ManagerTypes, TurnPCs
<1> QED BY <1>1, <1>2, <1>4, <1>3, <1>5 DEF TypeOK

LEMMA BeginDeleteStep ==
  ASSUME IInv, NEW c \in Callers, NEW s \in Sids, BeginDelete(c, s) PROVE IInv'
<1> USE RunnerAssumption DEF IInv, TypeOK, Goto, mgrVars, runVars, callVars,
   ctlVars, endVars, ghosts, callGhosts, NoWrite, Write, BeginDelete, Begin, Known
<1>1. ManagerTypes' /\ RunnerTypes' /\ EndTypes'
  BY DEF ManagerTypes, RunnerTypes, EndTypes
<1>2. FreshIds' /\ Histories'
  BY DEF FreshIds, Histories, HistoryOf, Known
<1>3. CallerTypes'
  <2>1. mem[s].st \in States
    BY DEF ManagerTypes, Snapshots, Sessions
  <2> QED BY <2>1 DEF CallerTypes, AllOps
<1>4. CallsKnown'
  BY DEF CallsKnown, TypeOK, CallerTypes, RunnerTypes, TurnPCs, CreatePCs,
     TurnCall, TaskCall, SessionPCs, TasksOwned, TaskPCs, HasTask
<1>5. TasksOwned'
  BY DEF TasksOwned, HasTask, TypeOK, RunnerTypes, CallerTypes, TaskPCs
<1>6. StagesMatch'
  <2>1. \A d \in Callers : pc[d] \in TaskPCs => op'[d] = op[d]
    BY DEF CallerTypes, TaskPCs
  <2> QED BY <2>1, StageKept DEF StagesMatch
<1>7. Registry'
  BY DEF Registry, RegistryTruthful, TypeOK, CallerTypes, ManagerTypes, TurnPCs
<1> QED BY <1>1, <1>3, <1>4, <1>5, <1>6, <1>2, <1>7 DEF TypeOK

LEMMA DeleteStopStep ==
  ASSUME IInv, NEW c \in Callers, DeleteStop(c) PROVE IInv'
<1> USE RunnerAssumption DEF IInv, TypeOK, Goto, mgrVars, runVars, callVars,
   ctlVars, endVars, ghosts, callGhosts, NoWrite, Write, DeleteStop, CloseStop
<1>1. ManagerTypes' /\ CallerTypes' /\ EndTypes'
  <2>1. ManagerTypes' /\ EndTypes'
    <3>1. sid[c] \in Sids
      BY DEF CallsKnown, SessionPCs
    <3>2. ManagerTypes'
      BY <3>1 DEF ManagerTypes
    <3>3. stranded' \subseteq Sids /\ UNCHANGED <<toStop, shut, crossed, miscounted, twins, hung>>
      BY <3>1 DEF EndTypes
    <3>4. panicked' \in {"no", "closeTwice", "nilMap"}
      BY DEF EndTypes
    <3> QED BY <3>2, <3>3, <3>4 DEF EndTypes
  <2>2. CallerTypes'
    BY DEF CallerTypes
  <2> QED BY <2>1, <2>2
<1>2. StagesMatch' /\ FreshIds' /\ Histories'
  BY DEF StagesMatch, StageOf, FreshIds, Histories, HistoryOf, Known
<1>3. RunnerTypes'
  <2>1. CASE UNCHANGED stop
    BY <2>1 DEF RunnerTypes
  <2>2. CASE CloseStop({sid[c]})
    BY <2>2 DEF RunnerTypes
  <2> QED BY <2>1, <2>2
<1>4. CallsKnown'
  BY DEF CallsKnown, TypeOK, CallerTypes, RunnerTypes, TurnPCs, CreatePCs,
     TurnCall, TaskCall, SessionPCs, TasksOwned, TaskPCs, HasTask
<1>5. TasksOwned'
  <2>1. pc[c] \notin TaskPCs /\ \A d \in Callers : d # c => pc'[d] = pc[d]
    BY DEF CallerTypes, TaskPCs, CreatePCs
  <2> QED BY <2>1, TasksStay
<1>6. Registry'
  <2>1. \A d \in Callers : pc[d] \in TurnPCs => pc'[d] \in TurnPCs
    BY DEF CallerTypes, TurnPCs
  <2>2. \A x \in Sids : hasTurns[x] => hasTurns'[x]
    BY DEF ManagerTypes
  <2> QED BY <2>1, <2>2, RegistryKept
<1> QED BY <1>1, <1>3, <1>4, <1>5, <1>2, <1>6 DEF TypeOK

LEMMA DeleteWaitStep ==
  ASSUME IInv, NEW c \in Callers, DeleteWait(c) PROVE IInv'
<1> USE RunnerAssumption DEF IInv, TypeOK, Goto, mgrVars, runVars, callVars,
   ctlVars, endVars, ghosts, callGhosts, NoWrite, Write, DeleteWait
<1>1. ManagerTypes' /\ RunnerTypes' /\ CallerTypes'
  BY DEF ManagerTypes, RunnerTypes, CallerTypes
<1>2. EndTypes' /\ StagesMatch' /\ FreshIds'
  BY DEF EndTypes, StagesMatch, StageOf, FreshIds
<1>3. Histories'
  BY DEF Histories, HistoryOf, Known
<1>4. CallsKnown'
  BY DEF CallsKnown, TypeOK, CallerTypes, RunnerTypes, TurnPCs, CreatePCs,
     TurnCall, TaskCall, SessionPCs, TasksOwned, TaskPCs, HasTask
<1>5. TasksOwned'
  BY DEF TasksOwned, HasTask, TypeOK, RunnerTypes, CallerTypes, TaskPCs
<1>6. Registry'
  BY DEF Registry, RegistryTruthful, TypeOK, CallerTypes, ManagerTypes, TurnPCs
<1> QED BY <1>1, <1>2, <1>4, <1>5, <1>6, <1>3 DEF TypeOK

LEMMA BeginTurnStep ==
  ASSUME IInv, NEW c \in Callers, NEW s \in Sids, NEW t \in Turns, BeginTurn(c, s, t)
  PROVE  IInv'
<1> USE RunnerAssumption DEF IInv, TypeOK, Goto, mgrVars, runVars, callVars,
   ctlVars, endVars, ghosts, callGhosts, NoWrite, Write, BeginTurn, Begin, Known
<1>1. ManagerTypes' /\ RunnerTypes' /\ CallerTypes'
  BY DEF ManagerTypes, RunnerTypes, CallerTypes
<1>2. EndTypes' /\ FreshIds'
  BY DEF EndTypes, FreshIds
<1>3. CallsKnown'
  BY DEF CallsKnown, TypeOK, CallerTypes, RunnerTypes, TurnPCs, CreatePCs,
     TurnCall, TaskCall, SessionPCs, TasksOwned, TaskPCs, HasTask
<1>4. TasksOwned'
  BY DEF TasksOwned, HasTask, TypeOK, RunnerTypes, CallerTypes, TaskPCs
<1>5. StagesMatch'
  <2>1. \A d \in Callers : pc[d] \in TaskPCs => op'[d] = op[d]
    BY DEF CallerTypes, TaskPCs
  <2> QED BY <2>1, StageKept DEF StagesMatch
<1>6. Registry'
  BY DEF Registry, RegistryTruthful, TypeOK, CallerTypes, ManagerTypes, TurnPCs
<1>7. Histories'
  <2>1. \A d \in Callers : pc[d] \in TaskPCs => turn'[d] = turn[d]
    BY DEF CallerTypes, TaskPCs
  <2> QED BY <2>1, HistoryKept DEF Histories
<1> QED BY <1>1, <1>2, <1>3, <1>4, <1>5, <1>6, <1>7 DEF TypeOK

LEMMA ReserveStep ==
  ASSUME IInv, NEW c \in Callers, Reserve(c) PROVE IInv'
<1> USE RunnerAssumption DEF IInv, TypeOK, Goto, mgrVars, runVars, callVars,
   ctlVars, endVars, ghosts, callGhosts, NoWrite, Write, Reserve, Taken
<1>1. ManagerTypes'
  BY DEF ManagerTypes
<1>2. RunnerTypes'
  BY DEF RunnerTypes
<1>3. CallerTypes'
  BY DEF CallerTypes
<1>4. EndTypes'
  BY DEF EndTypes
<1>5. CallsKnown'
  BY DEF CallsKnown, TypeOK, CallerTypes, RunnerTypes, TurnPCs, CreatePCs,
     TurnCall, TaskCall, SessionPCs, TasksOwned, TaskPCs, HasTask
<1>6. TasksOwned'
  <2>1. pc[c] \notin TaskPCs /\ \A d \in Callers : d # c => pc'[d] = pc[d]
    BY DEF CallerTypes, TaskPCs, CreatePCs
  <2> QED BY <2>1, TasksStay
<1>7. StagesMatch'
  BY DEF StagesMatch, StageOf
<1>8. FreshIds'
  BY DEF FreshIds
<1>9. Registry'
  <2>1. \A d \in Callers : pc[d] \in TurnPCs => pc'[d] \in TurnPCs
    BY DEF CallerTypes, TurnPCs
  <2>2. \A x \in Sids : hasTurns[x] => hasTurns'[x]
    BY DEF ManagerTypes
  <2> QED BY <2>1, <2>2, RegistryKept
<1>10. Histories'
  BY DEF Histories, HistoryOf, Known
<1> QED BY <1>1, <1>2, <1>3, <1>4, <1>5, <1>6, <1>7, <1>8, <1>9,
   <1>10 DEF TypeOK

LEMMA RegisterStep ==
  ASSUME IInv, NEW c \in Callers, Register(c) PROVE IInv'
<1> USE RunnerAssumption DEF IInv, TypeOK, Goto, mgrVars, runVars, callVars,
   ctlVars, endVars, ghosts, callGhosts, NoWrite, Write, Register, SameTurn
<1>1. RunnerTypes' /\ EndTypes' /\ StagesMatch'
  BY DEF RunnerTypes, EndTypes, StagesMatch, StageOf
<1>2. FreshIds' /\ Histories'
  BY DEF FreshIds, Histories, HistoryOf, Known
<1>3. ManagerTypes'
  <2>1. turn[c] \in Turns /\ sid[c] \in Sids
    BY DEF CallsKnown, TurnCall, SessionPCs
  <2>2. active' \in [Sids -> [Turns -> Callers \cup {None}]]
    <3>1. CASE UNCHANGED active
      BY <3>1 DEF ManagerTypes
    <3>2. CASE active' = [active EXCEPT ![sid[c]][turn[c]] = c]
      <4>1. [active[sid[c]] EXCEPT ![turn[c]] = c] \in [Turns -> Callers \cup {None}]
        BY <2>1 DEF ManagerTypes
      <4> QED BY <2>1, <3>2, <4>1 DEF ManagerTypes
    <3> QED BY <3>1, <3>2
  <2> QED BY <2>2 DEF ManagerTypes
<1>4. CallerTypes'
  BY DEF CallerTypes, AllOps, TurnPCs, CreatePCs
<1>5. CallsKnown'
  BY DEF CallsKnown, TypeOK, CallerTypes, RunnerTypes, TurnPCs, CreatePCs,
     TurnCall, TaskCall, SessionPCs, TasksOwned, TaskPCs, HasTask
<1>6. TasksOwned'
  <2>1. pc[c] \notin TaskPCs /\ \A d \in Callers : d # c => pc'[d] = pc[d]
    BY DEF CallerTypes, TaskPCs, CreatePCs
  <2> QED BY <2>1, TasksStay
<1>7. Registry'
  <2>1. /\ turn[c] \in Turns /\ sid[c] \in Sids /\ pc[c] \notin TurnPCs
        /\ \A d \in Callers : d # c => pc'[d] = pc[d]
    BY DEF CallsKnown, TurnCall, SessionPCs, CallerTypes, TurnPCs
  <2>2. CASE active' = active
    BY <2>1, <2>2, RegistryKept
  <2>3. CASE active' = [active EXCEPT ![sid[c]][turn[c]] = c] /\ hasTurns[sid[c]]
             /\ Goto(c, "tsend")
    <3>1. \A s \in Sids, t \in Turns : active'[s][t] =
            IF s = sid[c] /\ t = turn[c] THEN c ELSE active[s][t]
      BY <2>1, <2>3 DEF ManagerTypes
    <3>2. pc'[c] \in TurnPCs
      BY <2>3 DEF CallerTypes, TurnPCs
    <3> QED BY <2>1, <2>3, <3>1, <3>2 DEF Registry, RegistryTruthful
  <2> QED BY <2>2, <2>3
<1> QED BY <1>3, <1>1, <1>4, <1>5, <1>6, <1>2, <1>7 DEF TypeOK

LEMMA SendTurnStep ==
  ASSUME IInv, NEW c \in Callers, SendTurn(c) PROVE IInv'
<1> USE RunnerAssumption DEF IInv, TypeOK, Goto, mgrVars, runVars, callVars,
   ctlVars, endVars, ghosts, callGhosts, NoWrite, Write, SendTurn, Room, Enqueue
<1>1. ManagerTypes' /\ EndTypes' /\ StagesMatch'
  BY DEF ManagerTypes, EndTypes, StagesMatch, StageOf
<1>2. Histories'
  BY DEF Histories, HistoryOf, Known
<1>3. RunnerTypes'
  <2>1. sid[c] \in Sids
    BY DEF CallsKnown, SessionPCs, TurnCall, TurnPCs
  <2>2. CASE queue' = queue
    BY <2>2 DEF RunnerTypes
  <2> QED BY <2>1, <2>2, Queued
<1>4. CallerTypes'
  <2>1. cancelled' \in [Callers -> BOOLEAN]
    BY DEF CallerTypes
  <2> QED BY <2>1 DEF CallerTypes, TurnPCs
<1>5. CallsKnown'
  BY DEF CallsKnown, TypeOK, CallerTypes, RunnerTypes, TurnPCs, CreatePCs,
     TurnCall, TaskCall, SessionPCs, TasksOwned, TaskPCs, HasTask
<1>6. TasksOwned'
  <2>1. /\ sid[c] \in Sids /\ reply[c] = "none" /\ pc[c] \notin TaskPCs
        /\ \A d \in Callers : d # c => pc'[d] = pc[d]
    BY DEF CallsKnown, SessionPCs, TurnCall, TurnPCs, TaskPCs, CallerTypes
  <2>2. CASE queue' = queue
    BY <2>1, <2>2, TasksStay
  <2>3. CASE Enqueue(c) /\ Goto(c, "twait")
    <3>1. pc'[c] \in TaskPCs
      BY <2>3 DEF CallerTypes, TaskPCs
    <3> QED BY <2>1, <2>3, <3>1, TaskSent
  <2> QED BY <2>2, <2>3
<1>7. FreshIds'
  BY DEF FreshIds, TypeOK, ManagerTypes, RunnerTypes, CallerTypes, EndTypes
<1>8. Registry'
  <2>1. \A d \in Callers : pc[d] \in TurnPCs => pc'[d] \in TurnPCs
    BY DEF CallerTypes, TurnPCs
  <2>2. \A x \in Sids : hasTurns[x] => hasTurns'[x]
    BY DEF ManagerTypes
  <2> QED BY <2>1, <2>2, RegistryKept
<1> QED BY <1>1, <1>3, <1>4, <1>5, <1>6, <1>7, <1>8, <1>2 DEF TypeOK

LEMMA WaitTurnStep ==
  ASSUME IInv, NEW c \in Callers, WaitTurn(c) PROVE IInv'
<1> USE RunnerAssumption DEF IInv, TypeOK, Goto, mgrVars, runVars, callVars,
   ctlVars, endVars, ghosts, callGhosts, NoWrite, Write, WaitTurn, WaitOnClosing
<1>1. ManagerTypes' /\ RunnerTypes' /\ EndTypes'
  BY DEF ManagerTypes, RunnerTypes, EndTypes
<1>2. StagesMatch' /\ FreshIds' /\ Histories'
  BY DEF StagesMatch, StageOf, FreshIds, Histories, HistoryOf, Known
<1>3. CallerTypes'
  <2>1. cancelled' \in [Callers -> BOOLEAN]
    BY DEF CallerTypes
  <2> QED BY <2>1 DEF CallerTypes, TurnPCs
<1>4. CallsKnown'
  BY DEF CallsKnown, TypeOK, CallerTypes, RunnerTypes, TurnPCs, CreatePCs,
     TurnCall, TaskCall, SessionPCs, TasksOwned, TaskPCs, HasTask
<1>5. TasksOwned'
  BY DEF TasksOwned, HasTask, TypeOK, RunnerTypes, CallerTypes, TaskPCs
<1>6. Registry'
  <2>1. \A d \in Callers : pc[d] \in TurnPCs => pc'[d] \in TurnPCs
    BY DEF CallerTypes, TurnPCs
  <2>2. \A x \in Sids : hasTurns[x] => hasTurns'[x]
    BY DEF ManagerTypes
  <2> QED BY <2>1, <2>2, RegistryKept
<1> QED BY <1>1, <1>3, <1>4, <1>5, <1>2, <1>6 DEF TypeOK

LEMMA CloseDoneStep ==
  ASSUME IInv, NEW c \in Callers, CloseDone(c) PROVE IInv'
<1> USE RunnerAssumption DEF IInv, TypeOK, Goto, mgrVars, runVars, callVars,
   ctlVars, endVars, ghosts, callGhosts, NoWrite, Write, CloseDone
<1>1. ManagerTypes' /\ RunnerTypes' /\ EndTypes'
  BY DEF ManagerTypes, RunnerTypes, EndTypes
<1>2. StagesMatch' /\ FreshIds' /\ Histories'
  BY DEF StagesMatch, StageOf, FreshIds, Histories, HistoryOf, Known
<1>3. CallerTypes'
  BY DEF CallerTypes, AllOps, TurnPCs, CreatePCs
<1>4. CallsKnown'
  BY DEF CallsKnown, TypeOK, CallerTypes, RunnerTypes, TurnPCs, CreatePCs,
     TurnCall, TaskCall, SessionPCs, TasksOwned, TaskPCs, HasTask
<1>5. TasksOwned'
  BY DEF TasksOwned, HasTask, TypeOK, RunnerTypes, CallerTypes, TaskPCs
<1>6. Registry'
  BY DEF Registry, RegistryTruthful, TypeOK, CallerTypes, ManagerTypes, TurnPCs
<1> QED BY <1>1, <1>3, <1>4, <1>5, <1>2, <1>6 DEF TypeOK

LEMMA DeregisterStep ==
  ASSUME IInv, NEW c \in Callers, Deregister(c) PROVE IInv'
<1> USE RunnerAssumption DEF IInv, TypeOK, Goto, mgrVars, runVars, callVars,
   ctlVars, endVars, ghosts, callGhosts, NoWrite, Write, Deregister, WithoutTurn
<1>1. ManagerTypes' /\ RunnerTypes' /\ CallerTypes'
  BY DEF ManagerTypes, RunnerTypes, CallerTypes
<1>2. EndTypes' /\ StagesMatch' /\ FreshIds'
  BY DEF EndTypes, StagesMatch, StageOf, FreshIds
<1>3. Histories'
  BY DEF Histories, HistoryOf, Known
<1>4. CallsKnown'
  BY DEF CallsKnown, TypeOK, CallerTypes, RunnerTypes, TurnPCs, CreatePCs,
     TurnCall, TaskCall, SessionPCs, TasksOwned, TaskPCs, HasTask
<1>5. TasksOwned'
  BY DEF TasksOwned, HasTask, TypeOK, RunnerTypes, CallerTypes, TaskPCs
<1>6. Registry'
  BY DEF Registry, RegistryTruthful, TypeOK, CallerTypes, ManagerTypes,
     TurnPCs, CallsKnown, TurnCall, TaskCall, SessionPCs, CreatePCs, Controls
<1> QED BY <1>1, <1>2, <1>4, <1>5, <1>6, <1>3 DEF TypeOK

LEMMA CancelStep ==
  ASSUME IInv, NEW c \in Callers, Cancel(c) PROVE IInv'
<1> USE RunnerAssumption DEF IInv, TypeOK, Goto, mgrVars, runVars, callVars,
   ctlVars, endVars, ghosts, callGhosts, NoWrite, Write, Cancel
<1>1. ManagerTypes' /\ RunnerTypes' /\ CallerTypes'
  BY DEF ManagerTypes, RunnerTypes, CallerTypes
<1>2. EndTypes' /\ CallsKnown' /\ TasksOwned'
  BY DEF EndTypes, CallsKnown, TasksOwned, HasTask
<1>3. StagesMatch' /\ FreshIds' /\ Registry'
  BY DEF StagesMatch, StageOf, FreshIds, Registry, RegistryTruthful
<1>4. Histories'
  BY DEF Histories, HistoryOf, Known
<1> QED BY <1>1, <1>2, <1>3, <1>4 DEF TypeOK

LEMMA CancelAgentTurnsStep ==
  ASSUME IInv, NEW c \in Callers, CancelAgentTurns(c) PROVE IInv'
<1> USE RunnerAssumption DEF IInv, TypeOK, Goto, mgrVars, runVars, callVars,
   ctlVars, endVars, ghosts, callGhosts, NoWrite, Write, CancelAgentTurns, CancelAll
<1>1. ManagerTypes' /\ RunnerTypes' /\ EndTypes'
  BY DEF ManagerTypes, RunnerTypes, EndTypes
<1>2. FreshIds' /\ Histories'
  BY DEF FreshIds, Histories, HistoryOf, Known
<1>3. CallerTypes'
  <2>1. cancelled' \in [Callers -> BOOLEAN] /\ Controls \subseteq Callers
    BY DEF Controls
  <2> QED BY <2>1 DEF CallerTypes, AllOps
<1>4. CallsKnown'
  BY DEF CallsKnown, TypeOK, CallerTypes, RunnerTypes, TurnPCs, CreatePCs,
     TurnCall, TaskCall, SessionPCs, TasksOwned, TaskPCs, HasTask
<1>5. TasksOwned'
  BY DEF TasksOwned, HasTask, TypeOK, RunnerTypes, CallerTypes, TaskPCs
<1>6. StagesMatch'
  <2>1. \A d \in Callers : pc[d] \in TaskPCs => op'[d] = op[d]
    BY DEF CallerTypes, TaskPCs
  <2> QED BY <2>1, StageKept DEF StagesMatch
<1>7. Registry'
  BY DEF Registry, RegistryTruthful, TypeOK, CallerTypes, ManagerTypes, TurnPCs
<1> QED BY <1>1, <1>3, <1>4, <1>5, <1>6, <1>2, <1>7 DEF TypeOK

LEMMA CancelAgentReturnStep ==
  ASSUME IInv, NEW c \in Callers, CancelAgentReturn(c) PROVE IInv'
<1> USE RunnerAssumption DEF IInv, TypeOK, Goto, mgrVars, runVars, callVars,
   ctlVars, endVars, ghosts, callGhosts, NoWrite, Write, CancelAgentReturn
<1>1. ManagerTypes' /\ RunnerTypes' /\ CallerTypes'
  BY DEF ManagerTypes, RunnerTypes, CallerTypes
<1>2. EndTypes' /\ StagesMatch' /\ FreshIds'
  BY DEF EndTypes, StagesMatch, StageOf, FreshIds
<1>3. Histories'
  BY DEF Histories, HistoryOf, Known
<1>4. CallsKnown'
  BY DEF CallsKnown, TypeOK, CallerTypes, RunnerTypes, TurnPCs, CreatePCs,
     TurnCall, TaskCall, SessionPCs, TasksOwned, TaskPCs, HasTask
<1>5. TasksOwned'
  BY DEF TasksOwned, HasTask, TypeOK, RunnerTypes, CallerTypes, TaskPCs
<1>6. Registry'
  BY DEF Registry, RegistryTruthful, TypeOK, CallerTypes, ManagerTypes, TurnPCs
<1> QED BY <1>1, <1>2, <1>4, <1>5, <1>6, <1>3 DEF TypeOK

LEMMA BeginCreateStep ==
  ASSUME IInv, NEW c \in Callers, NEW s \in Sids, BeginCreate(c, s) PROVE IInv'
<1> USE RunnerAssumption DEF IInv, TypeOK, Goto, mgrVars, runVars, callVars,
   ctlVars, endVars, ghosts, callGhosts, NoWrite, Write, BeginCreate, Begin
<1>1. RunnerTypes' /\ EndTypes'
  BY DEF RunnerTypes, EndTypes
<1>2. ManagerTypes'
  <2>1. EmptySession \in Snapshots
    BY DEF EmptySession, Snapshots, Sessions, States
  <2> QED BY <2>1 DEF ManagerTypes
<1>3. CallerTypes'
  BY DEF CallerTypes, AllOps, TurnPCs, CreatePCs
<1>4. CallsKnown'
  BY DEF CallsKnown, TypeOK, CallerTypes, RunnerTypes, TurnPCs, CreatePCs,
     TurnCall, TaskCall, SessionPCs, TasksOwned, TaskPCs, HasTask
<1>5. TasksOwned'
  BY DEF TasksOwned, HasTask, TypeOK, RunnerTypes, CallerTypes, TaskPCs
<1>6. StagesMatch'
  <2>1. \A d \in Callers : pc[d] \in TaskPCs => op'[d] = op[d]
    BY DEF CallerTypes, TaskPCs
  <2> QED BY <2>1, StageKept DEF StagesMatch
<1>7. FreshIds'
  BY DEF FreshIds, TypeOK, ManagerTypes, RunnerTypes, CallerTypes, EndTypes
<1>8. Registry'
  BY DEF Registry, RegistryTruthful, TypeOK, CallerTypes, ManagerTypes, TurnPCs
<1>9. Histories'
  <2>1. mem'[s] = EmptySession /\ \A x \in Sids \ {s} : mem'[x] = mem[x]
    BY DEF ManagerTypes
  <2>2. store[s] = None /\ stage[s] = "none" /\ cand[s] = None
    BY DEF FreshIds, StagesMatch, StageOf, Committing
  <2>3. HistoryOf(s)'
    BY <2>1, <2>2 DEF HistoryOf, EmptySession, Serial
  <2>4. \A x \in Sids \ {s} : HistoryOf(x)'
    BY <2>1, HistoryKept DEF Histories
  <2> QED BY <2>3, <2>4 DEF Histories
<1> QED BY <1>2, <1>1, <1>3, <1>4, <1>5, <1>6, <1>7, <1>8, <1>9 DEF TypeOK

LEMMA CreateSetStep ==
  ASSUME IInv, NEW c \in Callers, CreateSet(c) PROVE IInv'
<1> USE RunnerAssumption DEF IInv, TypeOK, Goto, mgrVars, runVars, callVars,
   ctlVars, endVars, ghosts, callGhosts, NoWrite, Write, CreateSet, GaugeMove
<1>1. RunnerTypes' /\ EndTypes' /\ StagesMatch'
  <2>1. sid[c] \in Sids
    BY DEF CallsKnown, SessionPCs, CreatePCs
  <2> QED BY <2>1 DEF RunnerTypes, EndTypes, StagesMatch, StageOf
<1>2. ManagerTypes'
  <2>1. EmptySession \in Snapshots
    BY DEF EmptySession, Snapshots, Sessions, States
  <2>2. gauge' \in [States -> Int]
    BY DEF ManagerTypes
  <2> QED BY <2>1, <2>2 DEF ManagerTypes
<1>3. CallerTypes'
  BY DEF CallerTypes, AllOps, TurnPCs, CreatePCs
<1>4. CallsKnown'
  BY DEF CallsKnown, TypeOK, CallerTypes, RunnerTypes, TurnPCs, CreatePCs,
     TurnCall, TaskCall, SessionPCs, TasksOwned, TaskPCs, HasTask
<1>5. TasksOwned'
  <2>1. pc[c] \notin TaskPCs /\ \A d \in Callers : d # c => pc'[d] = pc[d]
    BY DEF CallerTypes, TaskPCs, CreatePCs
  <2> QED BY <2>1, TasksStay
<1>6. FreshIds'
  BY DEF FreshIds, TypeOK, ManagerTypes, RunnerTypes, CallerTypes, EndTypes
<1>7. Registry'
  <2>1. \A d \in Callers : pc[d] \in TurnPCs => pc'[d] \in TurnPCs
    BY DEF CallerTypes, TurnPCs
  <2>2. \A x \in Sids : hasTurns[x] => hasTurns'[x]
    BY DEF ManagerTypes
  <2> QED BY <2>1, <2>2, RegistryKept
<1>8. Histories'
  <2>1. \A x \in Sids : store'[x] \in {store[x], EmptySession}
    BY DEF ManagerTypes
  <2> QED BY <2>1, HistoryKept DEF Histories
<1> QED BY <1>2, <1>1, <1>3, <1>4, <1>5, <1>6, <1>7, <1>8 DEF TypeOK

LEMMA RollbackCreateStep ==
  ASSUME IInv, NEW c \in Callers, RollbackCreate(c) PROVE IInv'
<1> USE RunnerAssumption DEF IInv, TypeOK, Goto, mgrVars, runVars, callVars,
   ctlVars, endVars, ghosts, callGhosts, NoWrite, Write, RollbackCreate, WithoutSession
<1>1. RunnerTypes' /\ EndTypes' /\ StagesMatch'
  <2>1. sid[c] \in Sids /\ miscounted' \in BOOLEAN
    BY DEF CallsKnown, SessionPCs, CreatePCs, EndTypes
  <2> QED BY <2>1 DEF RunnerTypes, EndTypes, StagesMatch, StageOf
<1>2. FreshIds' /\ Histories'
  BY DEF FreshIds, Histories, HistoryOf, Known
<1>3. ManagerTypes'
  BY DEF ManagerTypes, Snapshots, Sessions
<1>4. CallerTypes'
  BY DEF CallerTypes, AllOps, TurnPCs, CreatePCs
<1>5. CallsKnown'
  BY DEF CallsKnown, TypeOK, CallerTypes, RunnerTypes, TurnPCs, CreatePCs,
     TurnCall, TaskCall, SessionPCs, TasksOwned, TaskPCs, HasTask
<1>6. TasksOwned'
  BY DEF TasksOwned, HasTask, TypeOK, RunnerTypes, CallerTypes, TaskPCs
<1>7. Registry'
  BY DEF Registry, RegistryTruthful, TypeOK, CallerTypes, ManagerTypes, TurnPCs
<1> QED BY <1>3, <1>1, <1>4, <1>5, <1>6, <1>2, <1>7 DEF TypeOK

LEMMA CreateStopStep ==
  ASSUME IInv, NEW c \in Callers, CreateStop(c) PROVE IInv'
<1> USE RunnerAssumption DEF IInv, TypeOK, Goto, mgrVars, runVars, callVars,
   ctlVars, endVars, ghosts, callGhosts, NoWrite, Write, CreateStop, CloseStop
<1>1. ManagerTypes' /\ RunnerTypes' /\ EndTypes'
  <2>1. ManagerTypes' /\ EndTypes'
    BY DEF ManagerTypes, EndTypes
  <2>2. RunnerTypes'
    BY DEF RunnerTypes
  <2> QED BY <2>1, <2>2
<1>2. StagesMatch' /\ FreshIds' /\ Histories'
  BY DEF StagesMatch, StageOf, FreshIds, Histories, HistoryOf, Known
<1>3. CallerTypes'
  BY DEF CallerTypes, AllOps, TurnPCs, CreatePCs
<1>4. CallsKnown'
  BY DEF CallsKnown, TypeOK, CallerTypes, RunnerTypes, TurnPCs, CreatePCs,
     TurnCall, TaskCall, SessionPCs, TasksOwned, TaskPCs, HasTask
<1>5. TasksOwned'
  <2>1. pc[c] \notin TaskPCs /\ \A d \in Callers : d # c => pc'[d] = pc[d]
    BY DEF CallerTypes, TaskPCs, CreatePCs
  <2> QED BY <2>1, TasksStay
<1>6. Registry'
  <2>1. \A d \in Callers : pc[d] \in TurnPCs => pc'[d] \in TurnPCs
    BY DEF CallerTypes, TurnPCs
  <2>2. \A x \in Sids : hasTurns[x] => hasTurns'[x]
    BY DEF ManagerTypes
  <2> QED BY <2>1, <2>2, RegistryKept
<1> QED BY <1>1, <1>3, <1>4, <1>5, <1>2, <1>6 DEF TypeOK

LEMMA ShutdownStep ==
  ASSUME IInv, NEW c \in Callers, Shutdown(c) PROVE IInv'
<1> USE RunnerAssumption DEF IInv, TypeOK, Goto, mgrVars, runVars, callVars,
   ctlVars, endVars, ghosts, callGhosts, NoWrite, Write, Shutdown
<1>1. ManagerTypes' /\ RunnerTypes' /\ CallerTypes'
  BY DEF ManagerTypes, RunnerTypes, CallerTypes
<1>2. EndTypes' /\ FreshIds' /\ Histories'
  BY DEF EndTypes, FreshIds, Histories, HistoryOf, Known
<1>3. CallsKnown'
  BY DEF CallsKnown, TypeOK, CallerTypes, RunnerTypes, TurnPCs, CreatePCs,
     TurnCall, TaskCall, SessionPCs, TasksOwned, TaskPCs, HasTask
<1>4. TasksOwned'
  BY DEF TasksOwned, HasTask, TypeOK, RunnerTypes, CallerTypes, TaskPCs
<1>5. StagesMatch'
  <2>1. \A d \in Callers : pc[d] \in TaskPCs => op'[d] = op[d]
    BY DEF CallerTypes, TaskPCs
  <2> QED BY <2>1, StageKept DEF StagesMatch
<1>6. Registry'
  BY DEF Registry, RegistryTruthful, TypeOK, CallerTypes, ManagerTypes, TurnPCs
<1> QED BY <1>1, <1>2, <1>3, <1>4, <1>5, <1>6 DEF TypeOK

LEMMA CancelAllTurnsStep ==
  ASSUME IInv, NEW c \in Callers, CancelAllTurns(c) PROVE IInv'
<1> USE RunnerAssumption DEF IInv, TypeOK, Goto, mgrVars, runVars, callVars,
   ctlVars, endVars, ghosts, callGhosts, NoWrite, Write, CancelAllTurns, CancelAll
<1>1. ManagerTypes' /\ RunnerTypes' /\ EndTypes'
  BY DEF ManagerTypes, RunnerTypes, EndTypes
<1>2. StagesMatch' /\ FreshIds' /\ Histories'
  BY DEF StagesMatch, StageOf, FreshIds, Histories, HistoryOf, Known
<1>3. CallerTypes'
  <2>1. cancelled' \in [Callers -> BOOLEAN] /\ Controls \subseteq Callers
    BY DEF Controls
  <2> QED BY <2>1 DEF CallerTypes, AllOps
<1>4. CallsKnown'
  BY DEF CallsKnown, TypeOK, CallerTypes, RunnerTypes, TurnPCs, CreatePCs,
     TurnCall, TaskCall, SessionPCs, TasksOwned, TaskPCs, HasTask
<1>5. TasksOwned'
  BY DEF TasksOwned, HasTask, TypeOK, RunnerTypes, CallerTypes, TaskPCs
<1>6. Registry'
  BY DEF Registry, RegistryTruthful, TypeOK, CallerTypes, ManagerTypes, TurnPCs
<1> QED BY <1>1, <1>3, <1>4, <1>5, <1>2, <1>6 DEF TypeOK

LEMMA StopRunnersStep ==
  ASSUME IInv, NEW c \in Callers, StopRunners(c) PROVE IInv'
<1> USE RunnerAssumption DEF IInv, TypeOK, Goto, mgrVars, runVars, callVars,
   ctlVars, endVars, ghosts, callGhosts, NoWrite, Write, StopRunners, CloseStop
<1>1. ManagerTypes' /\ RunnerTypes' /\ CallerTypes'
  BY DEF ManagerTypes, RunnerTypes, CallerTypes
<1>2. EndTypes' /\ StagesMatch' /\ FreshIds'
  BY DEF EndTypes, StagesMatch, StageOf, FreshIds
<1>3. Histories'
  BY DEF Histories, HistoryOf, Known
<1>4. CallsKnown'
  BY DEF CallsKnown, TypeOK, CallerTypes, RunnerTypes, TurnPCs, CreatePCs,
     TurnCall, TaskCall, SessionPCs, TasksOwned, TaskPCs, HasTask
<1>5. TasksOwned'
  BY DEF TasksOwned, HasTask, TypeOK, RunnerTypes, CallerTypes, TaskPCs
<1>6. Registry'
  BY DEF Registry, RegistryTruthful, TypeOK, CallerTypes, ManagerTypes, TurnPCs
<1> QED BY <1>1, <1>2, <1>4, <1>5, <1>6, <1>3 DEF TypeOK

LEMMA ShutdownReturnStep ==
  ASSUME IInv, NEW c \in Callers, ShutdownReturn(c) PROVE IInv'
<1> USE RunnerAssumption DEF IInv, TypeOK, Goto, mgrVars, runVars, callVars,
   ctlVars, endVars, ghosts, callGhosts, NoWrite, Write, ShutdownReturn
<1>1. ManagerTypes' /\ RunnerTypes' /\ CallerTypes'
  BY DEF ManagerTypes, RunnerTypes, CallerTypes
<1>2. EndTypes' /\ StagesMatch' /\ FreshIds'
  BY DEF EndTypes, StagesMatch, StageOf, FreshIds
<1>3. Histories'
  BY DEF Histories, HistoryOf, Known
<1>4. CallsKnown'
  BY DEF CallsKnown, TypeOK, CallerTypes, RunnerTypes, TurnPCs, CreatePCs,
     TurnCall, TaskCall, SessionPCs, TasksOwned, TaskPCs, HasTask
<1>5. TasksOwned'
  BY DEF TasksOwned, HasTask, TypeOK, RunnerTypes, CallerTypes, TaskPCs
<1>6. Registry'
  BY DEF Registry, RegistryTruthful, TypeOK, CallerTypes, ManagerTypes, TurnPCs
<1> QED BY <1>1, <1>2, <1>4, <1>5, <1>6, <1>3 DEF TypeOK

(* ---- the runners ---------------------------------------------------------- *)
LEMMA TakeTaskStep ==
  ASSUME IInv, NEW s \in Sids, TakeTask(s) PROVE IInv'
<1> USE RunnerAssumption DEF IInv, TypeOK, Goto, mgrVars, runVars, callVars,
   ctlVars, endVars, ghosts, callGhosts, NoWrite, Write, TakeTask
<1>1. ManagerTypes' /\ RunnerTypes' /\ CallerTypes'
  BY DEF ManagerTypes, RunnerTypes, CallerTypes
<1>2. EndTypes' /\ CallsKnown' /\ FreshIds'
  BY DEF EndTypes, CallsKnown, FreshIds
<1>3. Registry' /\ Histories'
  BY DEF Registry, RegistryTruthful, Histories, HistoryOf, Known
<1>4. TasksOwned'
  BY DEF TasksOwned, HasTask, TypeOK, RunnerTypes, CallerTypes, TaskPCs
<1>5. StagesMatch'
  <2>a. queue[s] \in Seq(Callers) /\ queue[s] # <<>>
    BY DEF RunnerTypes
  <2>b. Head(queue[s]) = queue[s][1] /\ 1 \in DOMAIN queue[s] /\ queue[s][1] \in Callers
    BY <2>a
  <2>c. HasTask(s, Head(queue[s]))
    BY <2>b DEF HasTask
  <2>1. /\ Head(queue[s]) \in Callers /\ HasTask(s, Head(queue[s]))
        /\ cur'[s] = Head(queue[s]) /\ stage'[s] = "start" /\ cand'[s] = None
    <3>1. cur'[s] = Head(queue[s]) /\ stage'[s] = "start"
      BY DEF RunnerTypes
    <3>2. cand'[s] = None
      BY DEF StagesMatch, StageOf, Committing
    <3> QED BY <2>b, <2>c, <3>1, <3>2
  <2>2. op[Head(queue[s])] \in {"turn", "pause", "close", "delete"}
    BY <2>1 DEF TasksOwned, CallsKnown, TaskPCs, TurnCall, TaskCall, TurnPCs
  <2>3. StageOf(s)'
    BY <2>1, <2>2 DEF StageOf, Committing
  <2>4. \A x \in Sids \ {s} : StageOf(x)'
    BY StageKept DEF RunnerTypes, StagesMatch
  <2> QED BY <2>3, <2>4 DEF StagesMatch
<1> QED BY <1>1, <1>2, <1>4, <1>5, <1>3 DEF TypeOK

LEMMA SeeStopStep ==
  ASSUME IInv, NEW s \in Sids, SeeStop(s) PROVE IInv'
<1> USE RunnerAssumption DEF IInv, TypeOK, Goto, mgrVars, runVars, callVars,
   ctlVars, endVars, ghosts, callGhosts, NoWrite, Write, SeeStop
<1>1. ManagerTypes'
  BY DEF ManagerTypes
<1>2. RunnerTypes'
  BY DEF RunnerTypes
<1>3. CallerTypes'
  BY DEF CallerTypes
<1>4. EndTypes'
  BY DEF EndTypes
<1>5. CallsKnown'
  BY DEF CallsKnown
<1>6. TasksOwned'
  BY DEF TasksOwned, HasTask
<1>7. StagesMatch'
  BY DEF StagesMatch, StageOf
<1>8. FreshIds'
  BY DEF FreshIds, TypeOK, ManagerTypes, RunnerTypes, CallerTypes, EndTypes
<1>9. Registry'
  BY DEF Registry, RegistryTruthful
<1>10. Histories'
  BY DEF Histories, HistoryOf, Known
<1> QED BY <1>1, <1>2, <1>3, <1>4, <1>5, <1>6, <1>7, <1>8, <1>9,
   <1>10 DEF TypeOK

LEMMA TurnStartStep ==
  ASSUME IInv, NEW s \in Sids, TurnStart(s) PROVE IInv'
<1> USE RunnerAssumption DEF IInv, TypeOK, Goto, mgrVars, runVars, callVars,
   ctlVars, endVars, ghosts, callGhosts, NoWrite, Write, TurnStart, Running, Finish, taskRest
<1>1. ManagerTypes' /\ CallerTypes' /\ EndTypes'
  <2>1. ManagerTypes' /\ EndTypes'
    BY DEF ManagerTypes, EndTypes
  <2>2. CallerTypes'
    BY DEF CallerTypes
  <2> QED BY <2>1, <2>2
<1>2. Registry'
  BY DEF Registry, RegistryTruthful
<1>3. RunnerTypes'
  <2>1. CASE Finish(s, "err")
    BY <2>1, Finishes DEF RunnerTypes
  <2>2. CASE stage' = [stage EXCEPT ![s] = "user"] /\ UNCHANGED <<cur, cand>>
    BY <2>2 DEF RunnerTypes
  <2> QED BY <2>1, <2>2
<1>4. CallsKnown'
  BY DEF CallsKnown, TypeOK, CallerTypes, RunnerTypes, TurnPCs, CreatePCs,
     TurnCall, TaskCall, SessionPCs, TasksOwned, TaskPCs, HasTask
<1>5. TasksOwned'
  BY DEF TasksOwned, HasTask, TypeOK, RunnerTypes, CallerTypes, TaskPCs
<1>6. StagesMatch'
  BY DEF StagesMatch, StageOf, TypeOK, RunnerTypes, CallerTypes, Committing
<1>7. FreshIds'
  BY DEF FreshIds, TypeOK, ManagerTypes, RunnerTypes, CallerTypes, EndTypes
<1>8. Histories'
  <2>1. /\ cand'[s] = None /\ stage'[s] \notin {"userMem", "final"}
        /\ mem'[s] \in {mem[s], None} /\ store'[s] \in {store[s], None}
        /\ \A x \in Sids \ {s} : /\ mem'[x] = mem[x] /\ store'[x] = store[x]
                                 /\ cand'[x] = cand[x] /\ stage'[x] = stage[x]
                                 /\ cur'[x] = cur[x]
    <3>1. CASE Finish(s, "err") /\ UNCHANGED store
      BY <3>1, Finishes DEF ManagerTypes
    <3>2. CASE stage' = [stage EXCEPT ![s] = "user"] /\ UNCHANGED <<cur, cand>>
      <4>1. cand[s] = None
        BY DEF StagesMatch, StageOf, Committing
      <4>2. stage'[s] \notin {"userMem", "final"} /\ \A x \in Sids \ {s} : stage'[x] = stage[x]
        BY <3>2 DEF RunnerTypes
      <4>3. \A x \in Sids : store'[x] = store[x] \/ (x = s /\ store'[x] = None)
        BY DEF ManagerTypes
      <4> QED BY <3>2, <4>1, <4>2, <4>3
    <3> QED BY <3>1, <3>2
  <2>2. HistoryOf(s)'
    BY <2>1, HistoryAtRest DEF Histories
  <2>3. \A x \in Sids \ {s} : HistoryOf(x)'
    BY <2>1, HistoryKept DEF Histories
  <2> QED BY <2>2, <2>3 DEF Histories
<1> QED BY <1>1, <1>3, <1>4, <1>5, <1>6, <1>7, <1>2, <1>8 DEF TypeOK

LEMMA AppendUserStep ==
  ASSUME IInv, NEW s \in Sids, AppendUser(s) PROVE IInv'
<1> USE RunnerAssumption DEF IInv, TypeOK, Goto, mgrVars, runVars, callVars,
   ctlVars, endVars, ghosts, callGhosts, NoWrite, Write, AppendUser, Running, Finish, taskRest, StoreSet
<1>1. CallerTypes' /\ EndTypes' /\ Registry'
  BY DEF CallerTypes, EndTypes, Registry, RegistryTruthful
<1>2. ManagerTypes' /\ RunnerTypes' /\ StagesMatch' /\ Histories'
  <2> DEFINE t == turn[cur[s]]
             new == [st |-> IF mem[s].st = "created" THEN "active" ELSE mem[s].st,
                     msgs |-> Append(mem[s].msgs, Msg(t, "user"))]
  <2>1. t \in Turns /\ op[cur[s]] = "turn"
    BY TurnRuns, SMTT(20)
  <2>2. CASE Known(s) /\ ~TurnUsed(s, t) /\ StoreSet(s, new, "userMem")
    <3>1. mem[s] \in Sessions /\ Serial(mem[s].msgs)
      BY <2>2 DEF ManagerTypes, Snapshots, Known, Histories, HistoryOf
    <3>2. mem[s].msgs \in Seq([turn : Turns, role : {"user", "final"}])
      BY <3>1 DEF Sessions
    <3>3. Serial(new.msgs)
      BY <2>1, <2>2, <3>1, <3>2, SerialUser DEF TurnUsed
    <3>5. new \in Sessions
      BY <2>1, <2>2, UserSession
    <3>6. EndsWithUser(new.msgs, t)
      BY <3>2 DEF EndsWithUser
    <3> QED BY <2>1, <2>2, <3>3, <3>5, <3>6, Writes DEF Committing
  <2>3. CASE Finish(s, "err") /\ UNCHANGED store
    BY <2>3, Writes DEF Committing
  <2> QED BY <2>2, <2>3 DEF AppendUser
<1>3. CallsKnown'
  BY DEF CallsKnown, TypeOK, CallerTypes, RunnerTypes, TurnPCs, CreatePCs,
     TurnCall, TaskCall, SessionPCs, TasksOwned, TaskPCs, HasTask
<1>4. TasksOwned'
  BY DEF TasksOwned, HasTask, TypeOK, RunnerTypes, CallerTypes, TaskPCs
<1>5. FreshIds'
  BY DEF FreshIds, TypeOK, ManagerTypes, RunnerTypes, CallerTypes, EndTypes
<1> QED BY <1>2, <1>1, <1>3, <1>4, <1>5 DEF TypeOK

LEMMA AppendFinalStep ==
  ASSUME IInv, NEW s \in Sids, AppendFinal(s) PROVE IInv'
<1> USE RunnerAssumption DEF IInv, TypeOK, Goto, mgrVars, runVars, callVars,
   ctlVars, endVars, ghosts, callGhosts, NoWrite, Write, AppendFinal, Running, Finish, taskRest, StoreSet
<1>1. CallerTypes' /\ EndTypes' /\ Registry'
  BY DEF CallerTypes, EndTypes, Registry, RegistryTruthful
<1>2. ManagerTypes' /\ RunnerTypes' /\ StagesMatch' /\ Histories'
  <2> DEFINE t == turn[cur[s]]
             new == [mem[s] EXCEPT !.msgs = Append(@, Msg(t, "final"))]
  <2>1. t \in Turns /\ op[cur[s]] = "turn"
    BY TurnRuns, SMTT(20)
  <2>2. CASE Known(s) /\ StoreSet(s, new, "lastMem")
    <3>1. mem[s] \in Sessions /\ Serial(mem[s].msgs) /\ EndsWithUser(mem[s].msgs, t)
      BY <2>2 DEF ManagerTypes, Snapshots, Known, Histories, HistoryOf
    <3>2. mem[s].msgs \in Seq([turn : Turns, role : {"user", "final"}])
      BY <3>1, SMTT(20) DEF Sessions
    <3>3. new \in Sessions /\ new.msgs = Append(mem[s].msgs, Msg(t, "final"))
      BY <2>1, <2>2, FinalSession
    <3>4. Serial(Append(mem[s].msgs, Msg(t, "final")))
      BY <2>1, <3>1, <3>2, SerialFinal
    <3>5. Serial(new.msgs)
      BY <3>3, <3>4
    <3> QED BY <2>1, <2>2, <3>3, <3>5, Writes DEF Committing
  <2>3. CASE Finish(s, "err") /\ UNCHANGED store
    BY <2>3, Writes DEF Committing
  <2> QED BY <2>2, <2>3 DEF AppendFinal
<1>3. CallsKnown'
  BY DEF CallsKnown, TypeOK, CallerTypes, RunnerTypes, TurnPCs, CreatePCs,
     TurnCall, TaskCall, SessionPCs, TasksOwned, TaskPCs, HasTask
<1>4. TasksOwned'
  BY DEF TasksOwned, HasTask, TypeOK, RunnerTypes, CallerTypes, TaskPCs
<1>5. FreshIds'
  BY DEF FreshIds, TypeOK, ManagerTypes, RunnerTypes, CallerTypes, EndTypes
<1> QED BY <1>2, <1>1, <1>3, <1>4, <1>5 DEF TypeOK

LEMMA CallbackFailsStep ==
  ASSUME IInv, NEW s \in Sids, CallbackFails(s) PROVE IInv'
<1> USE RunnerAssumption DEF IInv, TypeOK, Goto, mgrVars, runVars, callVars,
   ctlVars, endVars, ghosts, callGhosts, NoWrite, Write, CallbackFails, Running, Finish, taskRest
<1>1. ManagerTypes' /\ RunnerTypes' /\ CallerTypes'
  BY DEF ManagerTypes, RunnerTypes, CallerTypes
<1>2. EndTypes' /\ FreshIds' /\ Registry'
  BY DEF EndTypes, FreshIds, Registry, RegistryTruthful
<1>3. CallsKnown'
  <2>1. \A d \in Callers : pc[d] \notin TaskPCs => reply'[d] = reply[d]
    BY DEF TasksOwned, HasTask, CallerTypes, RunnerTypes
  <2> QED BY <2>1 DEF CallsKnown, TaskPCs
<1>4. TasksOwned'
  BY DEF TasksOwned, HasTask, TypeOK, RunnerTypes, CallerTypes, TaskPCs
<1>5. StagesMatch'
  BY DEF StagesMatch, StageOf, TypeOK, RunnerTypes, CallerTypes, Committing
<1>6. Histories'
  <2>1. /\ cand'[s] = None /\ stage'[s] \notin {"userMem", "final"}
        /\ mem'[s] \in {mem[s], None} /\ store'[s] \in {store[s], None}
        /\ \A x \in Sids \ {s} : /\ mem'[x] = mem[x] /\ store'[x] = store[x]
                                 /\ cand'[x] = cand[x] /\ stage'[x] = stage[x]
                                 /\ cur'[x] = cur[x]
    BY Finishes DEF ManagerTypes, RunnerTypes, StagesMatch, StageOf, Committing
  <2>2. HistoryOf(s)'
    BY <2>1, HistoryAtRest DEF Histories
  <2>3. \A x \in Sids \ {s} : HistoryOf(x)'
    BY <2>1, HistoryKept DEF Histories
  <2> QED BY <2>2, <2>3 DEF Histories
<1> QED BY <1>1, <1>2, <1>3, <1>4, <1>5, <1>6 DEF TypeOK

LEMMA TransitionStep ==
  ASSUME IInv, NEW s \in Sids, Transition(s) PROVE IInv'
<1> USE RunnerAssumption DEF IInv, TypeOK, Goto, mgrVars, runVars, callVars,
   ctlVars, endVars, ghosts, callGhosts, NoWrite, Write, Transition, Running, Finish, taskRest, StoreSet
<1>1. CallerTypes' /\ EndTypes' /\ Registry'
  BY DEF CallerTypes, EndTypes, Registry, RegistryTruthful
<1>2. ManagerTypes' /\ RunnerTypes' /\ StagesMatch' /\ Histories'
  <2> DEFINE o == op[cur[s]]
             new == [mem[s] EXCEPT !.st = Target(o)]
  <2>1. o \in {"pause", "close"}
    OBVIOUS
  <2>2. CASE Known(s) /\ StoreSet(s, new, "lastMem")
    <3>1. mem[s] \in Sessions /\ Serial(mem[s].msgs)
      BY <2>2 DEF ManagerTypes, Snapshots, Known, Histories, HistoryOf
    <3>2. new = [st |-> Target(o), msgs |-> mem[s].msgs] /\ new \in Sessions
      BY <3>1 DEF Sessions, Target, States
    <3> QED BY <2>1, <2>2, <3>1, <3>2, Writes DEF Committing
  <2>3. CASE (Finish(s, "err") \/ Finish(s, "ok")) /\ UNCHANGED store
    BY <2>3, Writes DEF Committing
  <2> QED BY <2>2, <2>3 DEF Transition
<1>3. CallsKnown'
  BY DEF CallsKnown, TypeOK, CallerTypes, RunnerTypes, TurnPCs, CreatePCs,
     TurnCall, TaskCall, SessionPCs, TasksOwned, TaskPCs, HasTask
<1>4. TasksOwned'
  BY DEF TasksOwned, HasTask, TypeOK, RunnerTypes, CallerTypes, TaskPCs
<1>5. FreshIds'
  BY DEF FreshIds, TypeOK, ManagerTypes, RunnerTypes, CallerTypes, EndTypes
<1> QED BY <1>2, <1>1, <1>3, <1>4, <1>5 DEF TypeOK

LEMMA DeleteSnapshotStep ==
  ASSUME IInv, NEW s \in Sids, DeleteSnapshot(s) PROVE IInv'
<1> USE RunnerAssumption DEF IInv, TypeOK, Goto, mgrVars, runVars, callVars,
   ctlVars, endVars, ghosts, callGhosts, NoWrite, Write, DeleteSnapshot, Running, Finish, taskRest
<1>1. CallerTypes' /\ EndTypes' /\ Registry'
  BY DEF CallerTypes, EndTypes, Registry, RegistryTruthful
<1>2. ManagerTypes'
  <2>1. store' \in [Sids -> Snapshots]
    BY DEF ManagerTypes, Snapshots
  <2> QED BY <2>1 DEF ManagerTypes
<1>3. RunnerTypes'
  <2>1. CASE Finish(s, "err")
    BY <2>1, Finishes DEF RunnerTypes
  <2>2. CASE stage' = [stage EXCEPT ![s] = "gone"] /\ UNCHANGED <<cur, cand>>
    BY <2>2 DEF RunnerTypes
  <2> QED BY <2>1, <2>2
<1>4. CallsKnown'
  BY DEF CallsKnown, TypeOK, CallerTypes, RunnerTypes, TurnPCs, CreatePCs,
     TurnCall, TaskCall, SessionPCs, TasksOwned, TaskPCs, HasTask
<1>5. TasksOwned'
  BY DEF TasksOwned, HasTask, TypeOK, RunnerTypes, CallerTypes, TaskPCs
<1>6. StagesMatch'
  BY DEF StagesMatch, StageOf, TypeOK, RunnerTypes, CallerTypes, Committing
<1>7. FreshIds'
  BY DEF FreshIds, TypeOK, ManagerTypes, RunnerTypes, CallerTypes, EndTypes
<1>8. Histories'
  <2>1. /\ cand'[s] = None /\ stage'[s] \notin {"userMem", "final"}
        /\ mem'[s] \in {mem[s], None} /\ store'[s] \in {store[s], None}
        /\ \A x \in Sids \ {s} : /\ mem'[x] = mem[x] /\ store'[x] = store[x]
                                 /\ cand'[x] = cand[x] /\ stage'[x] = stage[x]
                                 /\ cur'[x] = cur[x]
    <3>1. CASE Finish(s, "err") /\ UNCHANGED store
      BY <3>1, Finishes DEF ManagerTypes
    <3>2. CASE stage' = [stage EXCEPT ![s] = "gone"] /\ UNCHANGED <<cur, cand>>
      <4>1. cand[s] = None
        BY DEF StagesMatch, StageOf, Committing
      <4>2. stage'[s] \notin {"userMem", "final"} /\ \A x \in Sids \ {s} : stage'[x] = stage[x]
        BY <3>2 DEF RunnerTypes
      <4>3. \A x \in Sids : store'[x] = store[x] \/ (x = s /\ store'[x] = None)
        BY DEF ManagerTypes
      <4> QED BY <3>2, <4>1, <4>2, <4>3
    <3> QED BY <3>1, <3>2
  <2>2. HistoryOf(s)'
    BY <2>1, HistoryAtRest DEF Histories
  <2>3. \A x \in Sids \ {s} : HistoryOf(x)'
    BY <2>1, HistoryKept DEF Histories
  <2> QED BY <2>2, <2>3 DEF Histories
<1> QED BY <1>2, <1>3, <1>1, <1>4, <1>5, <1>6, <1>7, <1>8 DEF TypeOK

LEMMA DeleteSessionStep ==
  ASSUME IInv, NEW s \in Sids, DeleteSession(s) PROVE IInv'
<1> USE RunnerAssumption DEF IInv, TypeOK, Goto, mgrVars, runVars, callVars,
   ctlVars, endVars, ghosts, callGhosts, NoWrite, Write, DeleteSession, Running, Finish, taskRest, GaugeMove,
   WithoutSession
<1>1. RunnerTypes' /\ CallerTypes' /\ EndTypes'
  BY DEF RunnerTypes, CallerTypes, EndTypes
<1>2. FreshIds'
  BY DEF FreshIds
<1>3. ManagerTypes'
  <2>1. gauge' \in [States -> Int]
    BY DEF ManagerTypes
  <2>2. mem' \in [Sids -> Snapshots] /\ hasTurns' \in [Sids -> BOOLEAN]
    BY DEF ManagerTypes, Snapshots
  <2>3. active' \in [Sids -> [Turns -> Callers \cup {None}]]
    BY DEF ManagerTypes
  <2> QED BY <2>1, <2>2, <2>3 DEF ManagerTypes
<1>4. CallsKnown'
  BY DEF CallsKnown, TypeOK, CallerTypes, RunnerTypes, TurnPCs, CreatePCs,
     TurnCall, TaskCall, SessionPCs, TasksOwned, TaskPCs, HasTask
<1>5. TasksOwned'
  BY DEF TasksOwned, HasTask, TypeOK, RunnerTypes, CallerTypes, TaskPCs
<1>6. StagesMatch'
  BY DEF StagesMatch, StageOf, TypeOK, RunnerTypes, CallerTypes, Committing
<1>7. Registry'
  BY DEF Registry, RegistryTruthful, TypeOK, CallerTypes, ManagerTypes, TurnPCs
<1>8. Histories'
  <2>1. /\ cand'[s] = None /\ stage'[s] \notin {"userMem", "final"}
        /\ mem'[s] \in {mem[s], None} /\ store'[s] \in {store[s], None}
        /\ \A x \in Sids \ {s} : /\ mem'[x] = mem[x] /\ store'[x] = store[x]
                                 /\ cand'[x] = cand[x] /\ stage'[x] = stage[x]
                                 /\ cur'[x] = cur[x]
    BY Finishes DEF ManagerTypes, RunnerTypes, StagesMatch, StageOf, Committing
  <2>2. HistoryOf(s)'
    BY <2>1, HistoryAtRest DEF Histories
  <2>3. \A x \in Sids \ {s} : HistoryOf(x)'
    BY <2>1, HistoryKept DEF Histories
  <2> QED BY <2>2, <2>3 DEF Histories
<1> QED BY <1>3, <1>1, <1>4, <1>5, <1>6, <1>2, <1>7, <1>8 DEF TypeOK

LEMMA CommitStep ==
  ASSUME IInv, NEW s \in Sids, Commit(s) PROVE IInv'
<1> USE RunnerAssumption DEF IInv, TypeOK, Goto, mgrVars, runVars, callVars,
   ctlVars, endVars, ghosts, callGhosts, NoWrite, Write, Commit, Finish, GaugeCommit, GaugeMove
<1>1. ManagerTypes'
  <2>1. cand[s] \in Candidates
    BY DEF RunnerTypes, StagesMatch, StageOf, Committing
  <2>2. gauge' \in [States -> Int]
    BY DEF ManagerTypes
  <2> QED BY <2>1, <2>2 DEF ManagerTypes, Candidates, Snapshots
<1>2. RunnerTypes'
  BY ZenonT(30) DEF RunnerTypes
<1>3. CallerTypes'
  BY DEF CallerTypes
<1>4. EndTypes'
  BY DEF EndTypes
<1>5. CallsKnown'
  BY DEF CallsKnown, TypeOK, CallerTypes, RunnerTypes, TurnPCs, CreatePCs,
     TurnCall, TaskCall, SessionPCs, TasksOwned, TaskPCs, HasTask
<1>6. TasksOwned'
  BY DEF TasksOwned, HasTask, TypeOK, RunnerTypes, CallerTypes, TaskPCs
<1>7. StagesMatch'
  BY DEF StagesMatch, StageOf, TypeOK, RunnerTypes, CallerTypes, Committing
<1>8. FreshIds'
  BY DEF FreshIds, TypeOK, ManagerTypes, RunnerTypes, CallerTypes, EndTypes
<1>9. Registry'
  BY DEF Registry, RegistryTruthful
<1>10. Histories'
  <2>1. cand[s] # None /\ cand[s] \in Candidates
    BY DEF RunnerTypes, StagesMatch, StageOf, Committing
  <2>2. /\ mem'[s] = cand[s].new /\ cand'[s] = None /\ Serial(cand[s].new.msgs)
        /\ \A x \in Sids \ {s} : /\ mem'[x] = mem[x] /\ cand'[x] = cand[x]
                                 /\ stage'[x] = stage[x] /\ cur'[x] = cur[x]
    BY <2>1, Finishes DEF ManagerTypes, RunnerTypes, Histories, HistoryOf
  <2>3. /\ stage'[s] \in {"none", "final"}
        /\ stage'[s] = "final" => stage[s] = "userMem" /\ cur' = cur
    BY Finishes DEF RunnerTypes
  <2>4. \A h : Serial(h)' <=> Serial(h)
    BY DEF Serial, Msg
  <2>5. HistoryOf(s)'
    BY <2>2, <2>3, <2>4 DEF Histories, HistoryOf, Known, EndsWithUser, Msg
  <2>6. \A x \in Sids \ {s} : HistoryOf(x)'
    BY <2>2, HistoryKept DEF Histories
  <2> QED BY <2>5, <2>6 DEF Histories
<1> QED BY <1>1, <1>2, <1>3, <1>4, <1>5, <1>6, <1>7, <1>8, <1>9,
   <1>10 DEF TypeOK

(* ---- the theorems --------------------------------------------------------- *)
LEMMA InitInv == Init => IInv
<1> SUFFICES ASSUME Init PROVE IInv
  OBVIOUS
<1> USE RunnerAssumption DEF Init
<1>1. IsFiniteSet(Restored) /\ Cardinality(Restored) \in Nat
  BY FS_Subset, FS_CardinalityType
<1>2. EmptySession \in Sessions /\ EmptySession.msgs = <<>>
  BY DEF EmptySession, Sessions, States
<1>3. ManagerTypes
  <2>1. gauge \in [States -> Int]
    BY <1>1
  <2>2. mem \in [Sids -> Snapshots] /\ store \in [Sids -> Snapshots]
    BY <1>2 DEF Snapshots
  <2>3. listed \in [Sids -> BOOLEAN] /\ hasTurns \in [Sids -> BOOLEAN] /\ closed \in BOOLEAN
    <3>1. listed = [s \in Sids |-> s \in Restored] /\ hasTurns = listed /\ closed = FALSE
      OBVIOUS
    <3>2. [s \in Sids |-> s \in Restored] \in [Sids -> BOOLEAN]
      OBVIOUS
    <3> QED BY <3>1, <3>2
  <2>4. active \in [Sids -> [Turns -> Callers \cup {None}]]
    OBVIOUS
  <2> QED BY <2>1, <2>2, <2>3, <2>4 DEF ManagerTypes
<1>4. RunnerTypes
  BY DEF RunnerTypes
<1>5. CallerTypes /\ EndTypes
  BY DEF CallerTypes, EndTypes
<1>6. CallsKnown /\ TasksOwned
  BY DEF CallsKnown, TasksOwned, HasTask, SessionPCs, TurnCall, TaskCall,
     TurnPCs, CreatePCs
<1>7. StagesMatch /\ FreshIds
  BY DEF StagesMatch, StageOf, FreshIds, Committing
<1>8. Registry
  BY DEF Registry, RegistryTruthful
<1>9. Histories
  BY <1>2 DEF Histories, HistoryOf, Serial, Known
<1> QED BY <1>3, <1>4, <1>5, <1>6, <1>7, <1>8, <1>9 DEF IInv, TypeOK

LEMMA NextInv == IInv /\ [Next]_vars => IInv'
<1>1. ASSUME IInv, UNCHANGED vars PROVE IInv'
  <2> USE <1>1 DEF vars, mgrVars, runVars, callVars, ctlVars, endVars, ghosts, callGhosts
  <2>1. TypeOK'
    BY DEF IInv, TypeOK, ManagerTypes, RunnerTypes, CallerTypes, EndTypes
  <2>2. CallsKnown' /\ TasksOwned' /\ FreshIds' /\ Registry'
    BY DEF IInv, CallsKnown, TasksOwned, HasTask, FreshIds, Registry,
       RegistryTruthful
  <2>3. StagesMatch' /\ Histories'
    <3>1. \A h : Serial(h)' <=> Serial(h)
      BY DEF Serial, Msg
    <3> QED BY <3>1 DEF IInv, StagesMatch, StageOf, Histories, HistoryOf,
       EndsWithUser, 
               Msg, Known
  <2> QED BY <2>1, <2>2, <2>3 DEF IInv
<1>2. ASSUME IInv, NEW c \in Callers, BeginCall(c) PROVE IInv'
  BY <1>2, BeginTaskStep, BeginDeleteStep, BeginCreateStep, BeginTurnStep,
     CancelAgentTurnsStep, ShutdownStep DEF BeginCall
<1>3. ASSUME IInv, NEW c \in Callers, Proceed(c) PROVE IInv'
  BY <1>3, LookupStep, WaitStep, DeleteStopStep, DeleteWaitStep, ReserveStep,
     RegisterStep, WaitTurnStep, CloseDoneStep, DeregisterStep, CreateSetStep,
     RollbackCreateStep, CreateStopStep, CancelAgentReturnStep, CancelAllTurnsStep,
     StopRunnersStep, ShutdownReturnStep DEF Proceed
<1>4. ASSUME IInv, NEW s \in Sids, RunTask(s) PROVE IInv'
  BY <1>4, TurnStartStep, AppendUserStep, AppendFinalStep, CallbackFailsStep,
     TransitionStep, DeleteSnapshotStep, DeleteSessionStep, CommitStep DEF RunTask
<1> QED BY <1>1, <1>2, <1>3, <1>4, SendStep, SendTurnStep, CancelStep,
           TakeTaskStep, SeeStopStep DEF Next

(* Calls, tasks, runners and registry, whatever is called when and fails.    *)
THEOREM Inductive == Spec => []IInv
<1> QED BY InitInv, NextInv, PTL DEF Spec

(* The FIFO gate of a session keeps its turns complete and in a row, in memory
   and in Storage, for any number of callers that race, are cancelled, or have
   their session deleted under them (RunTurn, turn.go; runner.go).             *)
THEOREM TurnsStaySerial == Spec => []TurnsSerial
<1>1. IInv => TurnsSerial
  BY DEF IInv, Histories, HistoryOf, TurnsSerial
<1> QED BY <1>1, Inductive, PTL

(* A call that has given up or returned has no task queued or running: what
   CancelAgentTurns and Shutdown wait for writes nothing any more.             *)
THEOREM NothingStays == Spec => []NothingLeftBehind
<1>1. IInv => NothingLeftBehind
  BY DEF IInv, TasksOwned, HasTask, TaskPCs, NothingLeftBehind
<1> QED BY <1>1, Inductive, PTL

(***************************************************************************)
(* Storage follows memory.                                                  *)
(***************************************************************************)
MakePCs == {"cset", "crollback"}
Agrees(s) == Settled(s) \/ Pending(s) \/ s \in crossed

(* What moves no session and begins or ends no creation.                     *)
Still ==
  /\ UNCHANGED <<mem, store, stage, cand, indexed, gauge, crossed, miscounted>>
  /\ \A d \in Callers : /\ pc'[d] \in MakePCs <=> pc[d] \in MakePCs
                        /\ pc[d] \in MakePCs => sid'[d] = sid[d]

(* A call that goes on, and one that begins on a session already there.      *)
LEMMA GoesOn ==
  ASSUME IInv, NEW c \in Callers,
         \/ Lookup(c) \/ Send(c) \/ Wait(c) \/ DeleteStop(c) \/ DeleteWait(c)
         \/ Reserve(c) \/ Register(c) \/ SendTurn(c) \/ WaitTurn(c) \/ CloseDone(c)
         \/ Deregister(c) \/ Cancel(c) \/ CancelAgentTurns(c) \/ CancelAgentReturn(c)
         \/ Shutdown(c) \/ CancelAllTurns(c) \/ StopRunners(c) \/ ShutdownReturn(c)
         \/ CreateStop(c)
  PROVE  Still
<1> USE DEF IInv, TypeOK, Lookup, Send, Wait, DeleteStop, DeleteWait, Reserve, Register,
            SendTurn, WaitTurn, CloseDone, Deregister, Cancel, CancelAgentTurns,
            CancelAgentReturn, Shutdown, CancelAllTurns, StopRunners, ShutdownReturn,
            CreateStop
<1>1. UNCHANGED <<mem, store, stage, cand, indexed, gauge, crossed, miscounted, sid>>
  BY DEF mgrVars, runVars, callVars, ghosts
<1>2. \A d \in Callers : d # c => pc'[d] = pc[d]
  BY DEF Goto, CallerTypes
<1>3. pc[c] \notin MakePCs /\ pc'[c] \notin MakePCs
  BY DEF Goto, CallerTypes, MakePCs, TurnPCs, WaitOnClosing
<1> QED BY <1>1, <1>2, <1>3 DEF Still

LEMMA Begins ==
  ASSUME IInv, NEW c \in Callers, NEW s \in Sids,
         \/ \E o \in Ops : BeginTask(c, o, s)
         \/ BeginDelete(c, s)
         \/ \E t \in Turns : BeginTurn(c, s, t)
  PROVE  Still
<1> USE DEF IInv, TypeOK, BeginTask, BeginDelete, BeginTurn, Begin
<1>1. UNCHANGED <<mem, store, stage, cand, indexed, gauge, crossed, miscounted>>
  BY DEF mgrVars, runVars, ghosts
<1>2. \A d \in Callers : d # c => pc'[d] = pc[d] /\ sid'[d] = sid[d]
  BY DEF Goto, CallerTypes
<1>3. pc[c] \notin MakePCs /\ pc'[c] \notin MakePCs
  BY DEF Goto, CallerTypes, MakePCs
<1> QED BY <1>1, <1>2, <1>3 DEF Still

LEMMA StoreStill == StoreIsMemory /\ Still => StoreIsMemory'
BY DEF StoreIsMemory, Still, Settled, Pending, Creating, Untouched, Known, MakePCs

(* A runner that does nothing yet, or nothing any more, to its session.      *)
LEMMA RunnerAgrees ==
  ASSUME StoreIsMemory, UNCHANGED <<pc, sid>>, NEW s \in Sids, Agrees(s)',
         \A x \in Sids \ {s} : /\ mem'[x] = mem[x] /\ store'[x] = store[x]
                               /\ stage'[x] = stage[x] /\ cand'[x] = cand[x]
                               /\ x \in crossed => x \in crossed'
  PROVE  StoreIsMemory'
BY DEF StoreIsMemory, Agrees, Settled, Pending, Creating, Untouched

LEMMA RestAgrees ==
  ASSUME StoreIsMemory, UNCHANGED <<pc, sid>>, NEW s \in Sids,
         mem'[s] = mem[s], store'[s] = store[s], s \in crossed => s \in crossed',
         stage[s] \in {"none", "start", "user", "final"},
         stage'[s] \in {"none", "start", "user", "final"}
  PROVE  Agrees(s)'
BY DEF StoreIsMemory, Agrees, Settled, Pending, Creating, Untouched

(* What a task writes it writes to the store first.                          *)
LEMMA WritesAgree ==
  ASSUME ManagerTypes, RunnerTypes, CallerTypes, StoreIsMemory, EndTypes,
         NEW s \in Sids, cur[s] # None, NEW new, NEW next \in Committing,
         stage[s] \in {"start", "user", "final"}, NEW r \in {"ok", "err"},
         \/ Finish(s, r) /\ NoWrite
         \/ Known(s) /\ new \in Sessions /\ StoreSet(s, new, next),
         UNCHANGED <<mem, pc, sid>>
  PROVE  StoreIsMemory'
<1>1. /\ \A x \in Sids \ {s} : /\ store'[x] = store[x]
                               /\ stage'[x] = stage[x] /\ cand'[x] = cand[x]
      /\ \/ store' = store /\ stage'[s] = "none"
         \/ store'[s] = cand'[s].new /\ stage'[s] = next
  BY Finishes, Sets DEF NoWrite
<1>2. /\ \A x \in Sids \ {s} : x \in crossed => x \in crossed'
      /\ crossed' = crossed \/ crossed' = crossed \ {s}
  BY DEF StoreSet, Write, NoWrite
<1>3. CASE store' = store /\ stage'[s] = "none"
  <2>1. s \in crossed => s \in crossed' \/ Settled(s)'
    <3>1. CASE NoWrite
      BY <3>1 DEF NoWrite
    <3>2. CASE ~NoWrite
      <4>1. Write(s, new) /\ stage' = [stage EXCEPT ![s] = next]
        BY <3>2 DEF StoreSet
      <4>2. stage'[s] = next
        BY <4>1 DEF RunnerTypes
      <4> QED BY <1>3, <4>2 DEF Committing
    <3> QED BY <3>1, <3>2
  <2>2. Agrees(s)'
    BY <1>3, <2>1 DEF StoreIsMemory, Agrees, Settled, Pending, Creating, Untouched
  <2> QED BY <1>1, <1>2, <2>2, RunnerAgrees
<1>4. CASE store'[s] = cand'[s].new /\ stage'[s] = next
  <2>1. Agrees(s)'
    BY <1>4 DEF Agrees, Settled, Committing
  <2> QED BY <1>1, <1>2, <2>1, RunnerAgrees
<1> QED BY <1>1, <1>3, <1>4

LEMMA EmptyIsSession == EmptySession # None
<1>1. EmptySession \in Sessions
  BY DEF EmptySession, Sessions, States
<1> QED BY <1>1, RunnerAssumption

LEMMA BeginCreateStore ==
  ASSUME IInv, StoreIsMemory, NEW c \in Callers, NEW s \in Sids, BeginCreate(c, s)
  PROVE  StoreIsMemory'
<1> USE DEF BeginCreate, Begin
<1>1. /\ UNCHANGED <<store, stage, cand, crossed>> /\ rmode[s] = "none"
      /\ mem'[s] = EmptySession /\ \A x \in Sids \ {s} : mem'[x] = mem[x]
      /\ \A d \in Callers : d # c => pc'[d] = pc[d] /\ sid'[d] = sid[d]
      /\ pc[c] = "idle" /\ pc'[c] = "cset" /\ sid'[c] = s
  BY DEF IInv, TypeOK, ManagerTypes, CallerTypes, Goto, ghosts
<1>2. store[s] = None /\ stage[s] = "none"
  BY <1>1 DEF IInv, FreshIds, StagesMatch, StageOf
<1>3. Pending(s)'
  BY <1>1, <1>2 DEF Pending, Creating, Untouched
<1>4. ASSUME NEW x \in Sids \ {s} PROVE Agrees(x)'
  <2>1. Creating(x) => Creating(x)'
    BY <1>1 DEF Creating
  <2> QED BY <1>1, <2>1 DEF StoreIsMemory, Agrees, Settled, Pending, Untouched
<1> QED BY <1>3, <1>4 DEF StoreIsMemory, Agrees

LEMMA CreateSetStore ==
  ASSUME IInv, StoreIsMemory, NEW c \in Callers, CreateSet(c)
  PROVE  StoreIsMemory'
<1> USE DEF CreateSet
<1>1. sid[c] \in Sids
  BY DEF IInv, CallsKnown, SessionPCs, CreatePCs
<1>2. /\ UNCHANGED <<mem, stage, cand, sid>>
      /\ \A d \in Callers : d # c => pc'[d] = pc[d]
  BY DEF runVars, callVars, IInv, TypeOK, CallerTypes, Goto
<1>3. CASE UNCHANGED <<store, crossed>> /\ Goto(c, "crollback")
  <2>1. \A x \in Sids : Creating(x) => Creating(x)'
    BY <1>2, <1>3 DEF Creating, IInv, TypeOK, CallerTypes, Goto
  <2> QED BY <1>2, <1>3, <2>1 DEF StoreIsMemory, Settled, Pending, Untouched
<1>4. CASE /\ store' = [store EXCEPT ![sid[c]] = EmptySession]
           /\ crossed' = IF Untouched(sid[c]) THEN crossed ELSE crossed \cup {sid[c]}
  <2>1. Agrees(sid[c])'
    <3>1. store'[sid[c]] = EmptySession
      BY <1>1, <1>4 DEF IInv, TypeOK, ManagerTypes
    <3> QED BY <1>2, <1>4, <3>1 DEF Agrees, Settled, Untouched
  <2>2. ASSUME NEW x \in Sids \ {sid[c]} PROVE Agrees(x)'
    <3>1. Creating(x) => Creating(x)'
      BY <1>2 DEF Creating
    <3>2. store'[x] = store[x] /\ (x \in crossed => x \in crossed')
      BY <1>4 DEF IInv, TypeOK, ManagerTypes
    <3> QED BY <1>2, <3>1, <3>2 DEF StoreIsMemory, Agrees, Settled, Pending, Untouched
  <2> QED BY <1>1, <1>2, <2>1, <2>2 DEF StoreIsMemory, Agrees
<1> QED BY <1>3, <1>4

LEMMA RollbackCreateStore ==
  ASSUME IInv, StoreIsMemory, NEW c \in Callers, RollbackCreate(c)
  PROVE  StoreIsMemory'
<1> USE DEF RollbackCreate, WithoutSession
<1>1. sid[c] \in Sids
  BY DEF IInv, CallsKnown, SessionPCs, CreatePCs
<1>2. /\ UNCHANGED <<store, stage, cand, sid>> /\ mem'[sid[c]] = None
      /\ \A x \in Sids \ {sid[c]} : mem'[x] = mem[x]
      /\ \A d \in Callers : d # c => pc'[d] = pc[d]
      /\ crossed' = IF store[sid[c]] = None THEN crossed ELSE crossed \cup {sid[c]}
  BY <1>1 DEF runVars, callVars, IInv, TypeOK, ManagerTypes, CallerTypes, Goto
<1>3. Agrees(sid[c])'
  <2>1. stage[sid[c]] \in Committing => cand[sid[c]] \in Candidates
    BY <1>1 DEF IInv, TypeOK, RunnerTypes, StagesMatch, StageOf
  <2>2. stage[sid[c]] \in Committing => cand[sid[c]].new # None
    BY <2>1, RunnerAssumption DEF Candidates
  <2>3. stage[sid[c]] \in Committing => store[sid[c]] # None \/ sid[c] \in crossed
    BY <1>1, <2>2 DEF StoreIsMemory, Settled, Pending, Untouched, Committing
  <2> QED BY <1>2, <2>3 DEF Agrees, Settled, Committing
<1>4. ASSUME NEW x \in Sids \ {sid[c]} PROVE Agrees(x)'
  <2>1. Creating(x) => Creating(x)'
    BY <1>2 DEF Creating
  <2> QED BY <1>2, <2>1 DEF StoreIsMemory, Agrees, Settled, Pending, Untouched
<1> QED BY <1>1, <1>2, <1>3, <1>4 DEF StoreIsMemory, Agrees

LEMMA RunnerStore ==
  ASSUME IInv, StoreIsMemory, NEW s \in Sids,
         TakeTask(s) \/ SeeStop(s) \/ TurnStart(s) \/ CallbackFails(s)
  PROVE  StoreIsMemory'
<1> USE DEF TakeTask, SeeStop, TurnStart, CallbackFails, Running
<1>1. UNCHANGED <<mem, store, crossed, pc, sid>>
  BY DEF mgrVars, callVars, taskRest, NoWrite, ghosts
<1>2. CASE UNCHANGED <<stage, cand>>
  BY <1>1, <1>2 DEF StoreIsMemory, Settled, Pending, Creating, Untouched
<1>3. CASE TakeTask(s)
  <2>1. /\ stage[s] = "none" /\ stage'[s] = "start" /\ cand' = cand
        /\ \A x \in Sids \ {s} : stage'[x] = stage[x]
    BY <1>3 DEF IInv, TypeOK, RunnerTypes, StagesMatch, StageOf
  <2>2. Agrees(s)'
    BY <1>1, <2>1, RestAgrees
  <2> QED BY <1>1, <2>1, <2>2, RunnerAgrees
<1>4. CASE Finish(s, "err") /\ cur[s] # None /\ stage[s] \in {"start", "user", "final"}
  <2>1. /\ stage'[s] = "none"
        /\ \A x \in Sids \ {s} : stage'[x] = stage[x] /\ cand'[x] = cand[x]
    BY <1>4, Finishes DEF IInv, TypeOK
  <2>2. Agrees(s)'
    BY <1>1, <1>4, <2>1, RestAgrees
  <2> QED BY <1>1, <2>1, <2>2, RunnerAgrees
<1>5. CASE stage[s] = "start" /\ stage' = [stage EXCEPT ![s] = "user"] /\ UNCHANGED cand
  <2>1. stage'[s] = "user" /\ \A x \in Sids \ {s} : stage'[x] = stage[x]
    BY <1>5 DEF IInv, TypeOK, RunnerTypes
  <2>2. Agrees(s)'
    BY <1>1, <1>5, <2>1, RestAgrees
  <2> QED BY <1>1, <1>5, <2>1, <2>2, RunnerAgrees
<1> QED BY <1>2, <1>3, <1>4, <1>5

LEMMA AppendUserStore ==
  ASSUME IInv, StoreIsMemory, NEW s \in Sids, AppendUser(s) PROVE StoreIsMemory'
<1> USE DEF Running
<1> DEFINE new == [st |-> IF mem[s].st = "created" THEN "active" ELSE mem[s].st,
                   msgs |-> Append(mem[s].msgs, Msg(turn[cur[s]], "user"))]
<1>1. /\ cur[s] # None /\ stage[s] = "user" /\ UNCHANGED <<mem, pc, sid>>
      /\ op[cur[s]] = "turn"
  BY DEF AppendUser, taskRest, mgrVars, callVars
<1>2. CASE Known(s) /\ StoreSet(s, new, "userMem")
  <2>1. new \in Sessions
    BY <1>1, <1>2, UserSession
  <2> QED BY <1>1, <1>2, <2>1, WritesAgree DEF Committing, IInv, TypeOK
<1>3. CASE Finish(s, "err") /\ NoWrite
  BY <1>1, <1>3, WritesAgree DEF Committing, IInv, TypeOK
<1> QED BY <1>2, <1>3 DEF AppendUser

LEMMA AppendFinalStore ==
  ASSUME IInv, StoreIsMemory, NEW s \in Sids, AppendFinal(s) PROVE StoreIsMemory'
<1> USE DEF Running
<1> DEFINE new == [mem[s] EXCEPT !.msgs = Append(@, Msg(turn[cur[s]], "final"))]
<1>1. /\ cur[s] # None /\ stage[s] = "final" /\ UNCHANGED <<mem, pc, sid>>
      /\ op[cur[s]] = "turn"
  BY DEF AppendFinal, taskRest, mgrVars, callVars
<1>2. CASE Known(s) /\ StoreSet(s, new, "lastMem")
  <2>1. new \in Sessions
    BY <1>1, <1>2, FinalSession
  <2> QED BY <1>1, <1>2, <2>1, WritesAgree DEF Committing, IInv, TypeOK
<1>3. CASE Finish(s, "err") /\ NoWrite
  BY <1>1, <1>3, WritesAgree DEF Committing, IInv, TypeOK
<1> QED BY <1>2, <1>3 DEF AppendFinal

LEMMA TransitionStore ==
  ASSUME IInv, StoreIsMemory, NEW s \in Sids, Transition(s) PROVE StoreIsMemory'
<1> USE DEF Running
<1> DEFINE new == [mem[s] EXCEPT !.st = Target(op[cur[s]])]
<1>1. cur[s] # None /\ stage[s] = "start" /\ UNCHANGED <<mem, pc, sid>>
  BY DEF Transition, taskRest, mgrVars, callVars
<1>2. CASE Known(s) /\ StoreSet(s, new, "lastMem")
  <2>1. new \in Sessions
    BY ZenonT(40), <1>2 DEF IInv, TypeOK, ManagerTypes, Snapshots, Known, Sessions,
                            Target, States
  <2> QED BY <1>1, <1>2, <2>1, WritesAgree DEF Committing, IInv, TypeOK
<1>3. CASE (Finish(s, "err") \/ Finish(s, "ok")) /\ NoWrite
  BY <1>1, <1>3, WritesAgree DEF Committing, IInv, TypeOK
<1> QED BY <1>2, <1>3 DEF Transition

LEMMA DeleteStore ==
  ASSUME IInv, StoreIsMemory, NEW s \in Sids, DeleteSnapshot(s) \/ DeleteSession(s)
  PROVE  StoreIsMemory'
<1> USE DEF DeleteSnapshot, DeleteSession, Running
<1>1. UNCHANGED <<pc, sid>> /\ cur[s] # None
  BY DEF taskRest, mgrVars, callVars
<1>2. CASE Finish(s, "err") /\ NoWrite /\ DeleteSnapshot(s)
  BY <1>1, <1>2, WritesAgree DEF Committing, IInv, TypeOK, taskRest, mgrVars
<1>3. CASE DeleteSnapshot(s) /\ Write(s, None) /\ stage' = [stage EXCEPT ![s] = "gone"]
                             /\ UNCHANGED cand
  <2>1. /\ stage'[s] = "gone" /\ store'[s] = None
        /\ \A x \in Sids \ {s} : /\ stage'[x] = stage[x] /\ store'[x] = store[x]
                                 /\ x \in crossed => x \in crossed'
    BY <1>3 DEF IInv, TypeOK, RunnerTypes, ManagerTypes, Write
  <2>2. Agrees(s)'
    BY <2>1 DEF Agrees, Settled
  <2> QED BY <1>1, <1>3, <2>1, <2>2, RunnerAgrees DEF taskRest, mgrVars
<1>4. CASE DeleteSession(s)
  <2>1. /\ mem'[s] = None /\ UNCHANGED <<store, crossed>> /\ stage[s] = "gone"
        /\ \A x \in Sids \ {s} : mem'[x] = mem[x]
    BY <1>4 DEF WithoutSession, IInv, TypeOK, ManagerTypes
  <2>2. /\ stage'[s] = "none"
        /\ \A x \in Sids \ {s} : stage'[x] = stage[x] /\ cand'[x] = cand[x]
    BY <1>1, <1>4, Finishes DEF IInv, TypeOK
  <2>3. Agrees(s)'
    BY <2>1, <2>2 DEF StoreIsMemory, Agrees, Settled, Pending, Untouched
  <2> QED BY <1>1, <2>1, <2>2, <2>3, RunnerAgrees
<1> QED BY <1>2, <1>3, <1>4

LEMMA CommitStore ==
  ASSUME IInv, StoreIsMemory, NEW s \in Sids, Commit(s) PROVE StoreIsMemory'
<1> USE DEF Commit
<1>1. UNCHANGED <<pc, sid, store, crossed>> /\ stage[s] \in Committing
  BY DEF callVars, ghosts, Committing
<1>2. /\ mem'[s] = cand[s].new /\ stage'[s] \in {"final", "none"}
      /\ \A x \in Sids \ {s} : /\ mem'[x] = mem[x] /\ stage'[x] = stage[x]
                               /\ cand'[x] = cand[x]
  BY DEF Finish, IInv, TypeOK, ManagerTypes, RunnerTypes
<1>3. Agrees(s)'
  BY <1>1, <1>2 DEF StoreIsMemory, Agrees, Settled, Pending, Untouched, Committing
<1> QED BY <1>1, <1>2, <1>3, RunnerAgrees

(* Nothing but a commit, a creation or a deletion moves either side.         *)
LEMMA StoreNext == IInv /\ StoreIsMemory /\ [Next]_vars => StoreIsMemory'
<1>1. ASSUME StoreIsMemory, UNCHANGED vars PROVE StoreIsMemory'
  BY <1>1 DEF vars, mgrVars, runVars, callVars, ghosts, StoreIsMemory, Settled,
     Pending, Creating, Untouched
<1>2. ASSUME IInv, StoreIsMemory, NEW c \in Callers, BeginCall(c) PROVE StoreIsMemory'
  BY <1>2, Begins, GoesOn, StoreStill, BeginCreateStore DEF BeginCall
<1>3. ASSUME IInv, StoreIsMemory, NEW c \in Callers, Proceed(c) PROVE StoreIsMemory'
  BY <1>3, GoesOn, StoreStill, CreateSetStore, RollbackCreateStore DEF Proceed
<1>4. ASSUME IInv, StoreIsMemory, NEW s \in Sids, RunTask(s) PROVE StoreIsMemory'
  BY <1>4, RunnerStore, AppendUserStore, AppendFinalStore, TransitionStore,
     DeleteStore, CommitStore DEF RunTask
<1> QED BY <1>1, <1>2, <1>3, <1>4, GoesOn, StoreStill, RunnerStore DEF Next

(* Storage is what memory is, or one candidate ahead of it inside a commit
   (commit, Create, Delete): a crash at any point restores what readers saw.
   Excepted is only a session in creation, before its first snapshot, and one
   whose Create wrote that snapshot, or gave up, after others had changed the
   session, until its next commit.                                             *)
THEOREM StoreFollows == Spec => []StoreIsMemory
<1>1. Init => StoreIsMemory
  BY RunnerAssumption DEF Init, StoreIsMemory, Settled
<1>2. IInv /\ StoreIsMemory /\ [Next]_vars => StoreIsMemory'
  BY StoreNext
<1> QED BY <1>1, <1>2, Inductive, PTL DEF Spec

(***************************************************************************)
(* Runners and sessions come and go together, and Shutdown waits for every   *)
(* runner that can still write.                                             *)
(***************************************************************************)
Collected(s) == closed /\ s \in toStop        \* Shutdown stops this runner

(* An indexed session is there.  A runner out of the map belongs to no        *)
(* indexed session, or Shutdown has it, or its Delete failed; and no commit   *)
(* opens a closed session again.                                             *)
RunnerOf(s) ==
  /\ rmode[s] = "none" => ~listed[s] /\ ~stop[s] /\ ~indexed[s]
  /\ rmode[s] = "loop" \/ stop[s] \/ rmode[s] = "none"
  /\ ~listed[s] /\ rmode[s] # "none" => ~indexed[s] \/ Collected(s) \/ s \in stranded
  /\ stop[s] => ~listed[s] \/ Collected(s)
  /\ indexed[s] => Known(s)
  /\ cand[s] # None /\ indexed[s] =>
       (cand[s].new.st # "closed" => mem[s].st # "closed")
RunnersOwned == \A s \in Sids : RunnerOf(s)

(* A Delete that comes to take the runner away has removed the session, or    *)
(* failed.                                                                   *)
Removed(c) ==
  /\ pc[c] = "wait" /\ op[c] = "delete" /\ reply[c] = "ok" => ~indexed[sid[c]]
  /\ pc[c] = "delstop" /\ listed[sid[c]] =>
       ~indexed[sid[c]] \/ Collected(sid[c]) \/ reply[c] = "err"
DeletesDone == \A c \in Callers : Removed(c)

Ending ==
  /\ closed <=> shut # "no"
  /\ closed => \A s \in Sids : listed[s] => s \in toStop
  /\ ~closed => \A c \in Callers : pc[c] \notin {"scancel", "swait", "sjoin"}
  /\ shut = "ok" => RunnersGone
  /\ \A s \in toStop : rmode[s] # "none"
  /\ \A c \in Callers : pc[c] = "cstop" => sid[c] \in Sids /\ ~listed[sid[c]]
EndInv == RunnersOwned /\ DeletesDone /\ Ending

Narrow == \A s \in Sids : Open(s)' => Open(s)

(* A caller's step that moves no runner and no session.                      *)
LEMMA CallerMoves ==
  ASSUME IInv, EndInv, NEW c \in Callers,
         \/ Lookup(c) \/ Send(c) \/ Wait(c) \/ DeleteWait(c)
         \/ Reserve(c) \/ Register(c) \/ SendTurn(c) \/ WaitTurn(c) \/ CloseDone(c)
         \/ Deregister(c) \/ Cancel(c) \/ CancelAgentTurns(c) \/ CancelAgentReturn(c)
         \/ CancelAllTurns(c) \/ CreateSet(c)
  PROVE  EndInv' /\ Narrow
<1> USE DEF Lookup, Send, Wait, DeleteWait, Reserve, Register, SendTurn, WaitTurn,
            CloseDone, Deregister, Cancel, CancelAgentTurns, CancelAgentReturn,
            CancelAllTurns, CreateSet
<1>1. /\ UNCHANGED <<mem, indexed, listed, stop, rmode, cand, closed, toStop, shut, stranded>>
      /\ sid' = sid /\ reply' = reply
  BY DEF mgrVars, runVars, callVars, ctlVars, endVars, ghosts
<1>2. RunnersOwned' /\ Narrow
  BY <1>1 DEF EndInv, RunnersOwned, RunnerOf, Collected, Known, Narrow, Open
<1>3. /\ \A d \in Callers : d # c => pc'[d] = pc[d] /\ op'[d] = op[d]
      /\ pc'[c] \notin {"scancel", "sjoin", "cstop"}
      /\ pc'[c] = "swait" => pc[c] = "scancel"
  BY DEF IInv, TypeOK, CallerTypes, Goto, WaitOnClosing, callVars, TurnPCs
<1>4. Ending'
  BY <1>1, <1>3 DEF EndInv, Ending, RunnersGone
<1>5. Removed(c)'
  <2>1. pc[c] \in SessionPCs => sid[c] \in Sids
    BY DEF IInv, CallsKnown
  <2>2. pc'[c] = "wait" => reply[c] = "none"
    BY DEF IInv, TypeOK, CallsKnown, CallerTypes, Goto, WaitOnClosing, TurnPCs, TaskCall,
           CreatePCs
  <2>3. ASSUME pc'[c] = "delstop", listed[sid[c]]
        PROVE  ~indexed[sid[c]] \/ Collected(sid[c]) \/ reply[c] = "err"
    <3>1. op[c] = "delete" /\ pc[c] \in {"lookup", "send", "wait"} /\ sid[c] \in Sids
      BY <2>1, <2>3 DEF IInv, TypeOK, CallerTypes, Goto, WaitOnClosing, callVars,
                        SessionPCs, TaskCall, TurnPCs
    <3>2. CASE closed
      BY <2>3, <3>1, <3>2 DEF EndInv, Ending, Collected
    <3>3. CASE ~closed /\ pc[c] = "lookup"
      BY <2>3, <3>1, <3>3 DEF IInv, TypeOK, CallerTypes, Goto
    <3>4. CASE ~closed /\ pc[c] = "send"
      <4>1. stop[sid[c]]
        BY <2>3, <3>4 DEF IInv, TypeOK, CallerTypes, Goto
      <4> QED BY <2>3, <3>1, <4>1 DEF EndInv, RunnersOwned, RunnerOf
    <3>5. CASE pc[c] = "wait"
      <4>1. reply[c] # "none"
        BY <2>3, <3>5
      <4>2. reply[c] \in {"ok", "err"}
        BY <4>1 DEF IInv, TypeOK, CallerTypes
      <4> QED BY <3>1, <3>5, <4>2 DEF EndInv, DeletesDone, Removed
    <3> QED BY <3>1, <3>2, <3>3, <3>4, <3>5
  <2> QED BY <1>1, <2>2, <2>3 DEF Removed, Collected
<1>6. \A d \in Callers : d # c => Removed(d)'
  BY <1>1, <1>3 DEF EndInv, DeletesDone, Removed, Collected
<1> QED BY <1>2, <1>4, <1>5, <1>6 DEF EndInv, DeletesDone

LEMMA CallBegins ==
  ASSUME IInv, EndInv, NEW c \in Callers, NEW s \in Sids,
         \/ \E o \in Ops : BeginTask(c, o, s)
         \/ BeginDelete(c, s)
         \/ \E t \in Turns : BeginTurn(c, s, t)
  PROVE  EndInv' /\ Narrow
<1> USE DEF BeginTask, BeginDelete, BeginTurn, Begin
<1>1. UNCHANGED <<mem, indexed, listed, stop, rmode, cand, closed, toStop, shut, stranded>>
  BY DEF mgrVars, runVars, endVars, ghosts
<1>2. /\ \A d \in Callers : d # c => /\ pc'[d] = pc[d] /\ op'[d] = op[d]
                                     /\ sid'[d] = sid[d] /\ reply'[d] = reply[d]
      /\ pc'[c] \in {"lookup", "reserve"}
  BY DEF IInv, TypeOK, CallerTypes, Goto
<1> QED BY <1>1, <1>2 DEF EndInv, RunnersOwned, RunnerOf, Collected, Known, Narrow, Open,
                          DeletesDone, Removed, Ending, RunnersGone

LEMMA CreateBegins ==
  ASSUME IInv, EndInv, NEW c \in Callers, NEW s \in Sids, BeginCreate(c, s)
  PROVE  EndInv' /\ (\A x \in Sids : Open(x)' => Open(x) \/ x = s)
<1> USE DEF BeginCreate, Begin
<1>1. /\ UNCHANGED <<stop, cand, closed, toStop, shut, stranded>> /\ ~closed
      /\ mem'[s] = EmptySession /\ listed'[s] /\ rmode'[s] = "loop" /\ rmode[s] = "none"
      /\ \A x \in Sids : x # s => /\ mem'[x] = mem[x] /\ listed'[x] = listed[x]
                                  /\ rmode'[x] = rmode[x] /\ indexed'[x] = indexed[x]
  BY DEF endVars, ghosts, IInv, TypeOK, ManagerTypes, RunnerTypes
<1>2. /\ \A d \in Callers : d # c => /\ pc'[d] = pc[d] /\ op'[d] = op[d]
                                     /\ sid'[d] = sid[d] /\ reply'[d] = reply[d]
      /\ pc'[c] = "cset"
  BY DEF IInv, TypeOK, CallerTypes, Goto
<1>3. /\ cur[s] = None /\ ~stop[s] /\ \A d \in Callers : sid[d] # s
  BY <1>1 DEF IInv, FreshIds, EndInv, RunnersOwned, RunnerOf
<1>4. cand[s] = None
  BY <1>3 DEF IInv, StagesMatch, StageOf, Committing
<1>5. RunnerOf(s)'
  BY <1>1, <1>3, <1>4, EmptyIsSession DEF RunnerOf, Known
<1>6. \A x \in Sids : x # s => RunnerOf(x)'
  BY <1>1 DEF EndInv, RunnersOwned, RunnerOf, Collected, Known
<1>7. ASSUME NEW d \in Callers PROVE Removed(d)'
  <2>1. CASE d = c
    BY <1>2, <2>1 DEF Removed
  <2>2. CASE d # c
    <3>1. pc[d] \in {"wait", "delstop"} => sid[d] \in Sids \ {s}
      BY <1>3 DEF IInv, CallsKnown, SessionPCs, TaskCall
    <3> QED BY <1>1, <1>2, <2>2, <3>1 DEF EndInv, DeletesDone, Removed, Collected
  <2> QED BY <2>1, <2>2
<1>8. Ending'
  BY <1>1, <1>2, <1>3 DEF EndInv, Ending, RunnersGone
<1>9. \A x \in Sids : Open(x)' => Open(x) \/ x = s
  BY <1>1 DEF Open, Known
<1> QED BY <1>5, <1>6, <1>7, <1>8, <1>9 DEF EndInv, RunnersOwned, DeletesDone

(* Delete, and the roll-back of Create, take a runner away.                  *)
LEMMA RunnerTaken ==
  ASSUME IInv, EndInv, NEW c \in Callers, DeleteStop(c) \/ CreateStop(c)
  PROVE  EndInv' /\ Narrow
<1> USE DEF DeleteStop, CreateStop, CloseStop
<1>1. UNCHANGED <<mem, indexed, rmode, cand, closed, toStop, shut, sid, reply, op>>
  BY DEF mgrVars, callVars, ctlVars
<1>2. sid[c] \in Sids
  BY DEF IInv, CallsKnown, SessionPCs, CreatePCs
<1>3. /\ \A d \in Callers : d # c => pc'[d] = pc[d]
      /\ pc'[c] \in {"idle", "delwait", "cwait"}
  BY DEF IInv, TypeOK, CallerTypes, Goto
<1>4. /\ \A x \in Sids : x # sid[c] => listed'[x] = listed[x] /\ stop'[x] = stop[x]
      /\ listed'[sid[c]] => listed[sid[c]]
  BY <1>2, ZenonT(40) DEF mgrVars, IInv, TypeOK, ManagerTypes, RunnerTypes
<1>5. \A x \in Sids : x \in stranded => x \in stranded'
  BY DEF ghosts
<1>6. RunnerOf(sid[c])'
  <2>1. rmode[sid[c]] # "none"
    BY <1>2 DEF IInv, FreshIds
  <2>2. CASE listed' = listed /\ stop' = stop
    BY <1>1, <1>2, <1>5, <2>2 DEF EndInv, RunnersOwned, RunnerOf, Collected, Known
  <2>3. CASE DeleteStop(c) /\ listed[sid[c]]
    <3>1. ~indexed[sid[c]] \/ Collected(sid[c]) \/ sid[c] \in stranded'
      BY <2>3 DEF EndInv, DeletesDone, Removed
    <3>2. ~listed'[sid[c]] /\ stop'[sid[c]]
      BY <1>2, <2>3 DEF IInv, TypeOK, ManagerTypes
    <3> QED BY <1>1, <1>2, <2>1, <3>1, <3>2 DEF EndInv, RunnersOwned, RunnerOf, Collected, Known
  <2>4. CASE pc[c] = "cstop" /\ CreateStop(c)
    <3>1. stop'[sid[c]] /\ listed' = listed /\ ~listed[sid[c]]
      BY <1>2, <2>4 DEF mgrVars, EndInv, Ending
    <3> QED BY <1>1, <1>2, <1>5, <2>1, <3>1
            DEF EndInv, RunnersOwned, RunnerOf, Collected, Known
  <2> QED BY <2>2, <2>3, <2>4 DEF mgrVars
<1>7. \A x \in Sids : x # sid[c] => RunnerOf(x)'
  BY <1>1, <1>4, <1>5 DEF EndInv, RunnersOwned, RunnerOf, Collected, Known
<1>8. DeletesDone'
  <2> SUFFICES ASSUME NEW d \in Callers PROVE Removed(d)'
    BY DEF DeletesDone
  <2>1. pc[d] = "delstop" => sid[d] \in Sids
    BY DEF IInv, CallsKnown, SessionPCs
  <2> QED BY <1>1, <1>3, <1>4, <2>1 DEF EndInv, DeletesDone, Removed, Collected
<1>9. Ending'
  BY <1>1, <1>3, <1>4 DEF EndInv, Ending, RunnersGone
<1> QED BY <1>1, <1>6, <1>7, <1>8, <1>9 DEF EndInv, RunnersOwned, Narrow, Open, Known

LEMMA CreateRolls ==
  ASSUME IInv, EndInv, NEW c \in Callers, RollbackCreate(c)
  PROVE  EndInv' /\ Narrow
<1> USE DEF RollbackCreate, WithoutSession
<1>1. sid[c] \in Sids /\ pc[c] = "crollback"
  BY DEF IInv, CallsKnown, SessionPCs, CreatePCs
<1>2. /\ UNCHANGED <<stop, rmode, cand, closed, toStop, shut, sid, reply, op, stranded>>
      /\ ~indexed'[sid[c]] /\ ~listed'[sid[c]]
      /\ \A x \in Sids : x # sid[c] => /\ mem'[x] = mem[x] /\ listed'[x] = listed[x]
                                       /\ indexed'[x] = indexed[x]
  BY <1>1 DEF runVars, callVars, ctlVars, endVars, IInv, TypeOK, ManagerTypes
<1>3. /\ \A d \in Callers : d # c => pc'[d] = pc[d]
      /\ pc'[c] \in {"idle", "cstop"}
  BY DEF IInv, TypeOK, CallerTypes, Goto
<1>4. RunnersOwned'
  BY <1>1, <1>2 DEF EndInv, RunnersOwned, RunnerOf, Collected, Known
<1>5. DeletesDone'
  <2> SUFFICES ASSUME NEW d \in Callers PROVE Removed(d)'
    BY DEF DeletesDone
  <2>1. pc[d] \in {"wait", "delstop"} => sid[d] \in Sids
    BY DEF IInv, CallsKnown, SessionPCs, TaskCall
  <2> QED BY <1>1, <1>2, <1>3, <2>1 DEF EndInv, DeletesDone, Removed, Collected
<1>6. Ending'
  BY <1>1, <1>2, <1>3 DEF EndInv, Ending, RunnersGone
<1> QED BY <1>1, <1>2, <1>4, <1>5, <1>6 DEF EndInv, Narrow, Open, Known

LEMMA ShutdownMoves ==
  ASSUME IInv, EndInv, NEW c \in Callers,
         Shutdown(c) \/ StopRunners(c) \/ ShutdownReturn(c)
  PROVE  EndInv' /\ Narrow
<1> USE DEF Shutdown, StopRunners, ShutdownReturn, CloseStop
<1>1. /\ UNCHANGED <<mem, indexed, listed, rmode, cand, sid, reply, stranded>>
      /\ \A d \in Callers : d # c => pc'[d] = pc[d] /\ op'[d] = op[d]
      /\ pc'[c] \in {"idle", "scancel", "sjoin"}
  BY DEF mgrVars, runVars, callVars, ctlVars, ghosts, IInv, TypeOK, CallerTypes, Goto
<1>2. CASE Shutdown(c)
  <2>1. /\ ~closed /\ closed' /\ shut' = "running" /\ stop' = stop
        /\ \A s \in Sids : s \in toStop' <=> listed[s]
    BY <1>2 DEF runVars
  <2> QED BY <1>1, <2>1 DEF EndInv, RunnersOwned, RunnerOf, DeletesDone, Removed,
                            Ending, Collected, Known, Narrow, Open, RunnersGone
<1>3. CASE StopRunners(c)
  <2>1. /\ closed /\ UNCHANGED <<closed, toStop, shut>>
        /\ pc'[c] = "sjoin" /\ toStop \subseteq Sids
    BY <1>3 DEF EndInv, Ending, mgrVars, endVars, IInv, TypeOK, CallerTypes, EndTypes, Goto
  <2>2. \A s \in Sids : stop'[s] <=> stop[s] \/ s \in toStop
    BY <1>3 DEF IInv, TypeOK, RunnerTypes
  <2>3. ASSUME NEW s \in Sids PROVE RunnerOf(s)'
    <3>1. rmode[s] = "none" => s \notin toStop \/ stop[s]
      BY DEF EndInv, Ending
    <3> QED BY <1>1, <2>1, <2>2, <3>1 DEF EndInv, RunnersOwned, RunnerOf, Collected, Known
  <2> QED BY <1>1, <2>1, <2>3 DEF EndInv, RunnersOwned, DeletesDone, Removed,
                                  Ending, Collected, Known, Narrow, Open, RunnersGone
<1>4. CASE ShutdownReturn(c)
  <2>1. /\ UNCHANGED <<closed, toStop, stop>> /\ closed /\ pc'[c] = "idle"
        /\ shut' = "expired" \/ (shut' = "ok" /\ RunnersGone)
    BY <1>4 DEF mgrVars, runVars, EndInv, Ending, IInv, TypeOK, CallerTypes, Goto
  <2> QED BY <1>1, <2>1 DEF EndInv, RunnersOwned, RunnerOf, DeletesDone, Removed,
                            Ending, Collected, Known, Narrow, Open, RunnersGone
<1> QED BY <1>2, <1>3, <1>4

LEMMA RunnerMoves ==
  ASSUME IInv, EndInv, NEW s \in Sids, TakeTask(s) \/ SeeStop(s)
  PROVE  EndInv' /\ Narrow
<1> USE DEF TakeTask, SeeStop
<1>1. UNCHANGED <<mem, indexed, listed, stop, cand, closed, toStop, shut, pc, sid, op,
                  reply, stranded>>
  BY DEF mgrVars, callVars, ctlVars, endVars, ghosts
<1>2. /\ rmode' \in [Sids -> {"none", "loop", "drain", "exited"}]
      /\ \A x \in Sids : /\ rmode'[x] = "none" <=> rmode[x] = "none"
                         /\ rmode[x] = "exited" => rmode'[x] = "exited"
                         /\ rmode'[x] = "loop" \/ stop[x] \/ rmode'[x] = "none"
  BY ZenonT(40) DEF IInv, TypeOK, RunnerTypes, EndInv, RunnersOwned, RunnerOf
<1>3. toStop \subseteq Sids
  BY DEF IInv, TypeOK, EndTypes
<1>4. RunnersOwned' /\ Narrow
  BY <1>1, <1>2 DEF EndInv, RunnersOwned, RunnerOf, Collected, Known, Narrow, Open
<1> QED BY <1>1, <1>2, <1>3, <1>4 DEF EndInv, DeletesDone, Removed, Collected,
                                      Ending, RunnersGone

(* A task answers the call that waits for it.                                *)
LEMMA Answered ==
  ASSUME IInv, NEW s \in Sids, cur[s] # None, NEW c \in Callers, c = cur[s]
  PROVE  pc[c] \in TaskPCs /\ sid[c] = s /\ reply[c] = "none" /\ HasTask(s, c)
BY DEF IInv, TasksOwned, HasTask

(* Tasks, but for the two halves of Delete's and the commit.                 *)
LEMMA TaskMoves ==
  ASSUME IInv, EndInv, NEW s \in Sids,
         TurnStart(s) \/ AppendUser(s) \/ AppendFinal(s) \/ CallbackFails(s) \/ Transition(s)
  PROVE  EndInv' /\ Narrow
<1> USE DEF TurnStart, AppendUser, AppendFinal, CallbackFails, Transition, Running
<1>1. /\ UNCHANGED <<mem, indexed, listed, stop, rmode, closed, toStop, shut, pc, sid, op,
                     stranded>>
      /\ cur[s] # None /\ op[cur[s]] # "delete"
  BY DEF taskRest, mgrVars, callVars, endVars
<1>2. \A c \in Callers : c # cur[s] => reply'[c] = reply[c]
  BY DEF IInv, TypeOK, CallerTypes, Finish, StoreSet
<1>3. \A x \in Sids : x # s => cand'[x] = cand[x]
  BY DEF IInv, TypeOK, RunnerTypes, Finish, StoreSet
<1>4. \/ cand'[s] = None \/ cand'[s] = cand[s]
      \/ Known(s) /\ (cand'[s].new.st # "closed" => mem[s].st # "closed")
  <2>1. CASE TurnStart(s) \/ CallbackFails(s)
    BY <2>1 DEF Finish, IInv, TypeOK, RunnerTypes
  <2>2. CASE AppendUser(s)
    BY <2>2 DEF Finish, StoreSet, IInv, TypeOK, RunnerTypes
  <2>3. CASE AppendFinal(s)
    <3>1. Known(s) => mem[s] \in Sessions
      BY DEF IInv, TypeOK, ManagerTypes, Snapshots, Known
    <3>2. Known(s) => \A q : [mem[s] EXCEPT !.msgs = q].st = mem[s].st
      BY <3>1 DEF Sessions
    <3>3. PICK m : m = [mem[s] EXCEPT !.msgs = Append(@, Msg(turn[cur[s]], "final"))]
      OBVIOUS
    <3>4. Known(s) => m.st = mem[s].st
      BY <3>2, <3>3
    <3>5. Finish(s, "err") \/ (Known(s) /\ StoreSet(s, m, "lastMem"))
      BY <2>3, <3>3
    <3>6. cand'[s] = None \/ (Known(s) /\ cand'[s].new = m)
      BY <3>5 DEF Finish, StoreSet, IInv, TypeOK, RunnerTypes
    <3> QED BY <3>4, <3>6
  <2>4. CASE Transition(s)
    <3>1. Known(s) => mem[s] \in Sessions
      BY DEF IInv, TypeOK, ManagerTypes, Snapshots, Known
    <3>2. \A to : ~CanTransition("closed", to)
      BY DEF CanTransition, transitions
    <3> QED BY <2>4, <3>1, <3>2 DEF Finish, StoreSet, IInv, TypeOK, RunnerTypes, Sessions
  <2> QED BY <2>1, <2>2, <2>3, <2>4
<1>5. RunnersOwned' /\ Narrow
  BY <1>1, <1>3, <1>4 DEF EndInv, RunnersOwned, RunnerOf, Collected, Known, Narrow, Open
<1>6. DeletesDone'
  <2> SUFFICES ASSUME NEW c \in Callers PROVE Removed(c)'
    BY DEF DeletesDone
  <2>1. CASE c = cur[s]
    <3>1. pc[c] # "delstop" /\ op[c] # "delete"
      BY <1>1, <2>1, Answered DEF TaskPCs
    <3> QED BY <1>1, <3>1 DEF Removed
  <2>2. CASE c # cur[s]
    BY <1>1, <1>2, <2>2 DEF EndInv, DeletesDone, Removed, Collected
  <2> QED BY <2>1, <2>2
<1> QED BY <1>1, <1>5, <1>6 DEF EndInv, Ending, RunnersGone

LEMMA DeleteMoves ==
  ASSUME IInv, EndInv, NEW s \in Sids, DeleteSnapshot(s) \/ DeleteSession(s)
  PROVE  EndInv' /\ Narrow
<1> USE DEF DeleteSnapshot, DeleteSession, Running, WithoutSession
<1>1. /\ UNCHANGED <<listed, stop, rmode, closed, toStop, shut, pc, sid, op, stranded>>
      /\ cur[s] # None /\ stage[s] \notin Committing
      /\ \A c \in Callers : c # cur[s] => reply'[c] = reply[c]
  BY DEF taskRest, mgrVars, callVars, endVars, Finish, Committing, IInv, TypeOK, CallerTypes
<1>2. CASE DeleteSnapshot(s)
  <2>1. UNCHANGED <<mem, indexed>> /\ cand[s] = None
    BY <1>1, <1>2 DEF taskRest, mgrVars, IInv, StagesMatch, StageOf
  <2>2. cand'[s] = None /\ \A x \in Sids : x # s => cand'[x] = cand[x]
    BY <1>2, <2>1 DEF Finish, IInv, TypeOK, RunnerTypes
  <2>3. RunnersOwned' /\ Narrow
    BY <1>1, <2>1, <2>2 DEF EndInv, RunnersOwned, RunnerOf, Collected, Known, Narrow, Open
  <2>4. ASSUME NEW c \in Callers PROVE Removed(c)'
    <3>1. CASE c = cur[s]
      <4>1. pc[c] # "delstop" /\ reply[c] = "none"
        BY <1>1, <3>1, Answered DEF TaskPCs
      <4>2. reply'[c] \in {"none", "err"}
        BY <1>2, <3>1, <4>1 DEF Finish, IInv, TypeOK, CallerTypes
      <4> QED BY <1>1, <4>1, <4>2 DEF Removed
    <3>2. CASE c # cur[s]
      BY <1>1, <2>1, <3>2 DEF EndInv, DeletesDone, Removed, Collected
    <3> QED BY <3>1, <3>2
  <2> QED BY <1>1, <2>3, <2>4 DEF EndInv, DeletesDone, Ending, RunnersGone
<1>3. CASE DeleteSession(s)
  <2>1. /\ ~indexed'[s] /\ cand'[s] = None
        /\ \A x \in Sids : x # s => /\ mem'[x] = mem[x] /\ cand'[x] = cand[x]
                                    /\ indexed'[x] = indexed[x]
    BY <1>3 DEF Finish, IInv, TypeOK, ManagerTypes, RunnerTypes, CallerTypes
  <2>2. RunnersOwned' /\ Narrow
    BY <1>1, <2>1 DEF EndInv, RunnersOwned, RunnerOf, Collected, Known, Narrow, Open
  <2>3. ASSUME NEW c \in Callers PROVE Removed(c)'
    <3>1. pc[c] \in {"wait", "delstop"} => sid[c] \in Sids
      BY DEF IInv, CallsKnown, SessionPCs, TaskCall
    <3>2. c = cur[s] => sid[c] = s
      BY <1>1, Answered
    <3> QED BY <1>1, <2>1, <3>1, <3>2 DEF EndInv, DeletesDone, Removed, Collected
  <2> QED BY <1>1, <2>2, <2>3 DEF EndInv, DeletesDone, Ending, RunnersGone
<1> QED BY <1>2, <1>3

LEMMA CommitMoves ==
  ASSUME IInv, EndInv, NEW s \in Sids, Commit(s)
  PROVE  EndInv' /\ Narrow
<1> USE DEF Commit
<1>1. /\ UNCHANGED <<indexed, listed, stop, rmode, closed, toStop, shut, pc, sid, op,
                     stranded>>
      /\ cur[s] # None /\ cand[s] # None /\ cand[s] \in Candidates
  BY DEF callVars, endVars, ghosts, IInv, TypeOK, RunnerTypes, StagesMatch, StageOf,
         Committing
<1>2. /\ mem'[s] = cand[s].new /\ cand'[s] = None
      /\ \A x \in Sids : x # s => mem'[x] = mem[x] /\ cand'[x] = cand[x]
  BY DEF Finish, IInv, TypeOK, ManagerTypes, RunnerTypes
<1>3. /\ mem'[s] # None
      /\ indexed[s] => (mem[s] # None /\ (cand[s].new.st # "closed" => mem[s].st # "closed"))
  BY <1>1, <1>2, RunnerAssumption DEF EndInv, RunnersOwned, RunnerOf, Known, Candidates
<1>4. RunnersOwned' /\ Narrow
  BY <1>1, <1>2, <1>3 DEF EndInv, RunnersOwned, RunnerOf, Collected, Known, Narrow, Open
<1>5. ASSUME NEW c \in Callers PROVE Removed(c)'
  <2>1. reply' = reply \/ (stage[s] = "lastMem" /\ reply' = [reply EXCEPT ![cur[s]] = "ok"])
    BY DEF Finish
  <2>2. c = cur[s] /\ stage[s] = "lastMem" => op[c] # "delete" /\ pc[c] # "delstop"
    BY <1>1, Answered DEF IInv, StagesMatch, StageOf, TaskPCs
  <2>3. op[c] = "delete" \/ pc[c] = "delstop" => reply'[c] = reply[c]
    BY <2>1, <2>2 DEF IInv, TypeOK, CallerTypes
  <2> QED BY <1>1, <2>3 DEF EndInv, DeletesDone, Removed, Collected
<1> QED BY <1>1, <1>4, <1>5 DEF EndInv, DeletesDone, Ending, RunnersGone

(* A runner that has a task has not exited.                                  *)
Awake == \A s \in Sids : cur[s] # None => rmode[s] \in {"loop", "drain"}

LEMMA RunnersStay ==
  IInv /\ EndInv /\ [Next]_vars
    => /\ EndInv'
       /\ Narrow \/ \E c \in Callers, s \in Sids :
                      BeginCreate(c, s) /\ \A x \in Sids : Open(x)' => Open(x) \/ x = s
<1>1. ASSUME EndInv, UNCHANGED vars PROVE EndInv' /\ Narrow
  BY <1>1 DEF vars, mgrVars, runVars, callVars, ctlVars, endVars, ghosts, EndInv,
     RunnersOwned, RunnerOf, DeletesDone, Removed, Ending, Collected, Known, RunnersGone,
     Narrow, Open
<1>2. ASSUME IInv, EndInv, NEW c \in Callers, Proceed(c) PROVE EndInv' /\ Narrow
  BY <1>2, CallerMoves, RunnerTaken, CreateRolls, ShutdownMoves DEF Proceed
<1>3. ASSUME IInv, EndInv, NEW s \in Sids, RunTask(s) PROVE EndInv' /\ Narrow
  BY <1>3, TaskMoves, DeleteMoves, CommitMoves DEF RunTask
<1>4. ASSUME IInv, EndInv, NEW c \in Callers, BeginCall(c)
      PROVE  /\ EndInv'
             /\ Narrow \/ \E s \in Sids :
                  BeginCreate(c, s) /\ \A x \in Sids : Open(x)' => Open(x) \/ x = s
  BY <1>4, CallBegins, CreateBegins, CallerMoves, ShutdownMoves DEF BeginCall
<1> QED BY <1>1, <1>2, <1>3, <1>4, CallerMoves, RunnerMoves DEF Next

LEMMA EndInit == Init => EndInv /\ Awake
<1> SUFFICES ASSUME Init PROVE EndInv /\ Awake
  OBVIOUS
<1>1. \A s \in Restored : EmptySession # None
  BY EmptyIsSession
<1> QED BY <1>1, RunnerAssumption DEF Init, EndInv, RunnersOwned, RunnerOf, DeletesDone,
        Removed, Ending, Collected, Awake, Known

LEMMA RunnersAwake == IInv /\ Awake /\ [Next]_vars => Awake'
<1>1. ASSUME Awake, UNCHANGED <<cur, rmode>> PROVE Awake'
  BY <1>1 DEF Awake
<1>2. ASSUME IInv, Awake, NEW c \in Callers, BeginCall(c) PROVE Awake'
  <2>1. CASE UNCHANGED <<cur, rmode>>
    BY <1>1, <1>2, <2>1
  <2>2. ASSUME NEW s \in Sids, BeginCreate(c, s) PROVE Awake'
    BY <1>2, <2>2 DEF BeginCreate, Awake, IInv, TypeOK, RunnerTypes
  <2> QED BY <1>2, <2>1, <2>2 DEF BeginCall, BeginTask, BeginDelete, BeginTurn,
                                 CancelAgentTurns, Shutdown, runVars
<1>3. ASSUME NEW c \in Callers, Proceed(c) \/ Send(c) \/ SendTurn(c) \/ Cancel(c)
      PROVE  UNCHANGED <<cur, rmode>>
  <2>1. CASE \/ Lookup(c) \/ Wait(c) \/ DeleteStop(c) \/ DeleteWait(c) \/ Reserve(c)
             \/ Register(c) \/ WaitTurn(c) \/ CloseDone(c) \/ Deregister(c)
    BY <2>1 DEF Lookup, Wait, DeleteStop, DeleteWait, Reserve, Register, WaitTurn,
                CloseDone, Deregister, runVars
  <2>2. CASE \/ CreateSet(c) \/ RollbackCreate(c) \/ CreateStop(c) \/ CancelAgentReturn(c)
             \/ CancelAllTurns(c) \/ StopRunners(c) \/ ShutdownReturn(c)
             \/ Send(c) \/ SendTurn(c) \/ Cancel(c)
    BY <2>2 DEF CreateSet, RollbackCreate, CreateStop, CancelAgentReturn, CancelAllTurns,
                StopRunners, ShutdownReturn, Send, SendTurn, Cancel, runVars
  <2> QED BY <1>3, <2>1, <2>2 DEF Proceed
<1>4. ASSUME IInv, Awake, NEW s \in Sids, TakeTask(s) \/ SeeStop(s) PROVE Awake'
  BY <1>4 DEF TakeTask, SeeStop, Awake, IInv, TypeOK, RunnerTypes
<1>5. ASSUME IInv, Awake, NEW s \in Sids, RunTask(s) PROVE Awake'
  <2>1. rmode' = rmode
    BY <1>5 DEF RunTask, TurnStart, AppendUser, AppendFinal, CallbackFails, Transition,
                DeleteSnapshot, DeleteSession, Commit, taskRest
  <2>2. cur' = cur \/ cur' = [cur EXCEPT ![s] = None]
    BY <1>5 DEF RunTask, TurnStart, AppendUser, AppendFinal, CallbackFails, Transition,
                DeleteSnapshot, DeleteSession, Commit, Finish, StoreSet
  <2> QED BY <1>5, <2>1, <2>2 DEF Awake, IInv, TypeOK, RunnerTypes
<1> QED BY <1>1, <1>2, <1>3, <1>4, <1>5
        DEF Next, vars, runVars

(* Once Shutdown is through, what runners are left have no indexed session,  *)
(* or the Delete of theirs failed.                                           *)
LEMMA NobodyWrites ==
  ASSUME EndInv, Awake, shut = "ok", NEW s \in Sids, cur[s] # None
  PROVE  ~indexed[s] \/ s \in stranded
<1>1. rmode[s] \in {"loop", "drain"} /\ closed
  BY DEF Awake, EndInv, Ending
<1>2. s \notin toStop
  BY <1>1 DEF EndInv, Ending, RunnersGone
<1>3. ~listed[s]
  BY <1>1, <1>2 DEF EndInv, Ending
<1> QED BY <1>1, <1>2, <1>3 DEF EndInv, RunnersOwned, RunnerOf, Collected

LEMMA WritesOfTasks ==
  ASSUME IInv, StoreIsMemory, EndInv, Awake, shut = "ok", NEW s \in Sids, RunTask(s),
         NEW x \in Sids, store'[x] # store[x]
  PROVE  x \in stranded \/ Revived(x) \/ x \in crossed
<1>1. cur[s] # None
  BY DEF RunTask, TurnStart, AppendUser, AppendFinal, CallbackFails,
     Transition, DeleteSnapshot, DeleteSession, Commit, Running
<1>2. ~indexed[s] \/ s \in stranded
  BY <1>1, NobodyWrites
<1>3. CASE TurnStart(s) \/ CallbackFails(s) \/ DeleteSession(s) \/ Commit(s)
  BY <1>3 DEF TurnStart, CallbackFails, DeleteSession, Commit, NoWrite
<1>4. CASE AppendUser(s) \/ AppendFinal(s) \/ Transition(s)
  <2>1. Known(s) /\ \E new, next : StoreSet(s, new, next)
    BY <1>4 DEF AppendUser, AppendFinal, Transition, NoWrite
  <2>2. x = s
    BY <2>1 DEF StoreSet, Write, NoWrite, IInv, TypeOK, ManagerTypes
  <2> QED BY <1>2, <2>1, <2>2 DEF Revived
<1>5. CASE DeleteSnapshot(s)
  <2>1. x = s /\ store[s] # None
    BY <1>5 DEF DeleteSnapshot, Write, NoWrite, IInv, TypeOK, ManagerTypes
  <2>2. Known(s) \/ s \in crossed
    BY <1>5, <2>1, EmptyIsSession DEF DeleteSnapshot, Running, StoreIsMemory, Settled,
                                      Pending, Known
  <2> QED BY <1>2, <2>1, <2>2 DEF Revived
<1> QED BY <1>3, <1>4, <1>5 DEF RunTask

(* After a Shutdown that returned nil nothing is written any more, but for the
   first snapshot of a Create that had begun before it (Shutdown, manager.go;
   lifecycle.go): it collects the runners of the map, and a runner is out of
   it only if its session is gone, or its Delete has failed, or a commit brought
   back what a roll-back had removed: the sessions the property names.         *)
THEOREM ShutdownIsQuiet == Spec => QuietAfterShutdown
<1> DEFINE Inv == StoreIsMemory /\ EndInv /\ Awake
           May(s) == \/ \E c \in Callers : pc[c] = "cset" /\ sid[c] = s
                     \/ s \in stranded \/ Revived(s) \/ s \in crossed
<1>1. Init => Inv
  <2>1. Init => StoreIsMemory
    BY RunnerAssumption DEF Init, StoreIsMemory, Settled
  <2> QED BY <2>1, EndInit
<1>2. IInv /\ Inv /\ [Next]_vars => Inv'
  BY StoreNext, RunnersStay, RunnersAwake
<1>3. ASSUME IInv, Inv, Next, shut = "ok", NEW s \in Sids, store'[s] # store[s]
      PROVE  May(s)
  <2>1. ASSUME NEW c \in Callers, CreateSet(c) PROVE pc[c] = "cset" /\ sid[c] = s
    BY <1>3, <2>1 DEF CreateSet, IInv, TypeOK, ManagerTypes
  <2>2. ASSUME NEW c \in Callers, BeginCall(c) PROVE FALSE
    BY <1>3, <2>2 DEF BeginCall, BeginTask, BeginDelete, BeginCreate, BeginTurn,
       CancelAgentTurns, Shutdown
  <2>3. ASSUME NEW c \in Callers, Proceed(c), ~CreateSet(c) PROVE FALSE
    <3>1. store' = store
      BY <2>3 DEF Proceed, Lookup, Wait, DeleteStop, DeleteWait, Reserve, Register,
         WaitTurn, CloseDone, Deregister, RollbackCreate, CreateStop,
         CancelAgentReturn, CancelAllTurns, StopRunners, ShutdownReturn
    <3> QED BY <1>3, <3>1
  <2>4. ASSUME NEW c \in Callers, Send(c) \/ SendTurn(c) \/ Cancel(c) PROVE FALSE
    BY <1>3, <2>4 DEF Send, SendTurn, Cancel
  <2>5. ASSUME NEW x \in Sids, TakeTask(x) \/ SeeStop(x) PROVE FALSE
    BY <1>3, <2>5 DEF TakeTask, SeeStop
  <2>6. ASSUME NEW x \in Sids, RunTask(x) PROVE May(s)
    BY <1>3, <2>6, WritesOfTasks
  <2> QED BY <1>3, <2>1, <2>2, <2>3, <2>4, <2>5, <2>6 DEF Next
<1>4. ASSUME UNCHANGED vars PROVE UNCHANGED store
  BY <1>4 DEF vars
<1>5. IInv /\ Inv /\ [Next]_vars =>
        [shut = "ok" => \A s \in Sids : store'[s] # store[s] =>
           \/ \E c \in Callers : pc[c] = "cset" /\ sid[c] = s
           \/ s \in stranded \/ Revived(s) \/ s \in crossed]_vars
  BY <1>3, <1>4
<1> HIDE DEF Inv
<1> QED BY <1>1, <1>2, <1>5, Inductive, PTL DEF Spec, QuietAfterShutdown

(* The number of open sessions, and how a step may change it.                *)
LEMMA Bounded ==
  ASSUME IInv, EndInv, CapacityKept, [Next]_vars PROVE CapacityKept'
<1> DEFINE Opened == {s \in Sids : Open(s)}
<1>1. /\ IsFiniteSet(Opened) /\ Cardinality(Opened) \in Nat /\ MaxSessions \in Nat
      /\ Cardinality(Restored) \in Nat
  <2>1. Opened \in SUBSET Sids
    OBVIOUS
  <2> QED BY <2>1, FS_Subset, FS_CardinalityType, RunnerAssumption
<1> SUFFICES ASSUME MaxSessions > 0
             PROVE  \/ Cardinality(Opened') <= MaxSessions
                    \/ Cardinality(Opened') <= Cardinality(Restored)
  BY DEF CapacityKept
<1>2. CASE Narrow
  <2>1. Opened' \in SUBSET Opened
    BY <1>2 DEF Narrow
  <2>2. Cardinality(Opened') <= Cardinality(Opened) /\ Cardinality(Opened') \in Nat
    BY <1>1, <2>1, FS_Subset, FS_CardinalityType
  <2>3. Cardinality(Opened) <= MaxSessions \/ Cardinality(Opened) <= Cardinality(Restored)
    BY DEF CapacityKept
  <2> QED BY <1>1, <2>2, <2>3
<1>3. ASSUME NEW c \in Callers, NEW s \in Sids, BeginCreate(c, s),
             \A x \in Sids : Open(x)' => Open(x) \/ x = s
      PROVE  Cardinality(Opened') <= MaxSessions
  <2>1. Cardinality(Opened) < MaxSessions
    BY <1>3 DEF BeginCreate, CapacityLeft
  <2>2. Opened' \in SUBSET (Opened \cup {s})
    BY <1>3
  <2>3. /\ IsFiniteSet(Opened \cup {s})
        /\ Cardinality(Opened \cup {s}) <= Cardinality(Opened) + 1
        /\ Cardinality(Opened \cup {s}) \in Nat
    <3>1. CASE s \in Opened
      <4>1. Opened \cup {s} = Opened
        BY <3>1
      <4> QED BY <1>1, <4>1
    <3>2. CASE s \notin Opened
      <4>1. PICK A : A = Opened
        OBVIOUS
      <4>2. IsFiniteSet(A \cup {s}) /\ Cardinality(A \cup {s}) = Cardinality(A) + 1
        BY <1>1, <3>2, <4>1, FS_AddElement
      <4> QED BY <1>1, <4>1, <4>2, FS_CardinalityType
    <3> QED BY <3>1, <3>2
  <2>4. /\ Cardinality(Opened') <= Cardinality(Opened \cup {s})
        /\ Cardinality(Opened') \in Nat
    BY <2>2, <2>3, FS_Subset, FS_CardinalityType
  <2> QED BY <1>1, <2>1, <2>3, <2>4
<1> QED BY <1>2, <1>3, RunnersStay

(* Every session that readers see has a runner that takes tasks, there are
   never more open ones than the limit or than Restore found, and memory and
   Storage are alike when nobody works (Create, Delete, commit), whatever fails;
   the properties name a session whose Delete failed, one that a commit brought
   back, and one that was changed before its Create had written it.            *)
THEOREM SessionsStayWhole == Spec => []SessionsWhole
<1> DEFINE Inv == StoreIsMemory /\ EndInv /\ CapacityKept
<1>1. Init => Inv
  <2> SUFFICES ASSUME Init PROVE Inv
    OBVIOUS
  <2>1. StoreIsMemory
    BY RunnerAssumption DEF Init, StoreIsMemory, Settled
  <2>2. {s \in Sids : Open(s)} \in SUBSET Restored
    BY DEF Init, Open, Known
  <2>3. Cardinality({s \in Sids : Open(s)}) <= Cardinality(Restored)
    BY <2>2, RunnerAssumption, FS_Subset
  <2>4. CapacityKept
    BY <2>3 DEF CapacityKept
  <2> QED BY <2>1, <2>4, EndInit
<1>2. IInv /\ Inv /\ [Next]_vars => Inv'
  BY StoreNext, RunnersStay, Bounded
<1>3. IInv /\ Inv => SessionsWhole
  <2> SUFFICES ASSUME IInv, Inv PROVE RunnerAlive /\ StoreSettles
    BY DEF SessionsWhole
  <2>1. RunnerAlive
    BY DEF RunnerAlive, Revived, Known, EndInv, RunnersOwned, RunnerOf, Collected
  <2>2. StoreSettles
    <3> SUFFICES ASSUME \A c \in Callers : pc[c] = "idle", NEW s \in Sids
                 PROVE  store[s] = mem[s] \/ s \in crossed
      BY DEF StoreSettles
    <3>1. cur[s] = None
      <4>1. cur[s] \in Callers \cup {None}
        BY DEF IInv, TypeOK, RunnerTypes
      <4> QED BY <4>1, Answered DEF TaskPCs
    <3>2. stage[s] = "none"
      BY <3>1 DEF IInv, StagesMatch, StageOf
    <3> QED BY <3>2 DEF StoreIsMemory, Settled, Pending, Creating
  <2> QED BY <2>1, <2>2
<1> HIDE DEF Inv
<1> QED BY <1>1, <1>2, <1>3, Inductive, PTL DEF Spec

(***************************************************************************)
(* The gauge.                                                               *)
(***************************************************************************)
(* An id is created by one call.                                             *)
OneCreator ==
  \A c, d \in Callers :
    pc[c] \in MakePCs /\ pc[d] \in MakePCs /\ sid[c] = sid[d] => c = d

Holders(st) == {s \in Sids : Known(s) /\ mem[s].st = st}
Unset == {s \in Sids : Creating(s)}
Base(st) == IF st = "created" THEN Cardinality(Unset) ELSE 0

(* The gauge lags behind the sessions by those still to be written, each of   *)
(* which it will count as created; and a commit moves it from a state that is *)
(* still the session's.                                                      *)
Balance == \A st \in States : gauge[st] + Base(st) = Cardinality(Holders(st))
FromTrue == \A s \in Sids : cand[s] # None => Known(s) /\ cand[s].from = mem[s].st
GaugeInv == OneCreator /\ (~miscounted => Balance /\ FromTrue)

LEMMA CountsFinite ==
  /\ \A st : IsFiniteSet(Holders(st)) /\ Cardinality(Holders(st)) \in Nat
  /\ IsFiniteSet(Unset) /\ Cardinality(Unset) \in Nat
<1>1. Unset \in SUBSET Sids /\ \A st : Holders(st) \in SUBSET Sids
  BY DEF Unset, Holders
<1> QED BY <1>1, FS_Subset, FS_CardinalityType, RunnerAssumption

(* A set that gains or loses one member, or stays.                           *)
LEMMA Counting ==
  ASSUME NEW A, NEW B, NEW x, IsFiniteSet(A), Cardinality(A) \in Nat,
         \A y : y # x => (y \in A <=> y \in B)
  PROVE  Cardinality(B) = Cardinality(A) + (IF x \in B THEN 1 ELSE 0)
                                         - (IF x \in A THEN 1 ELSE 0)
<1>1. CASE x \in A /\ x \in B
  <2>1. A = B
    BY <1>1
  <2> QED BY <1>1, <2>1
<1>2. CASE x \in A /\ x \notin B
  <2>1. B = A \ {x}
    BY <1>2
  <2>2. Cardinality(B) = Cardinality(A) - 1
    BY <1>2, <2>1, FS_RemoveElement
  <2> QED BY <1>2, <2>2
<1>3. CASE x \notin A /\ x \in B
  <2>1. B = A \cup {x}
    BY <1>3
  <2>2. Cardinality(B) = Cardinality(A) + 1
    BY <1>3, <2>1, FS_AddElement
  <2> QED BY <1>3, <2>2
<1>4. CASE x \notin A /\ x \notin B
  <2>1. A = B
    BY <1>4
  <2> QED BY <1>4, <2>1
<1> QED BY <1>1, <1>2, <1>3, <1>4

LEMMA BalanceStays ==
  ASSUME Balance, UNCHANGED gauge,
         \A s \in Sids : /\ Creating(s)' <=> Creating(s)
                         /\ Known(s)' <=> Known(s)
                         /\ Known(s) => mem'[s].st = mem[s].st
  PROVE  Balance'
<1>1. Unset' = Unset /\ \A st \in States : Holders(st)' = Holders(st)
  BY DEF Unset, Holders
<1> QED BY <1>1 DEF Balance, Base

LEMMA GaugeStill ==
  ASSUME GaugeInv, Still PROVE GaugeInv'
<1>1. \A s \in Sids : /\ Creating(s)' <=> Creating(s)
                      /\ Known(s)' <=> Known(s)
                      /\ Known(s) => mem'[s].st = mem[s].st
  BY DEF Still, Creating, Known, MakePCs
<1>2. OneCreator'
  BY DEF GaugeInv, OneCreator, Still
<1>3. ~miscounted' => Balance'
  BY <1>1, BalanceStays DEF GaugeInv, Still
<1>4. ~miscounted' => FromTrue'
  BY DEF GaugeInv, FromTrue, Known, Still
<1> QED BY <1>2, <1>3, <1>4 DEF GaugeInv

(* One session and one creation move: what must hold of the difference.      *)
LEMMA GaugeMoves ==
  ASSUME IInv, Balance, NEW s \in Sids,
         \A x \in Sids \ {s} : mem'[x] = mem[x] /\ (Creating(x)' <=> Creating(x)),
         \A st \in States :
           gauge'[st] = gauge[st]
             + (IF Known(s)' /\ mem'[s].st = st THEN 1 ELSE 0)
             - (IF Known(s) /\ mem[s].st = st THEN 1 ELSE 0)
             + (IF st = "created" /\ Creating(s) THEN 1 ELSE 0)
             - (IF st = "created" /\ Creating(s)' THEN 1 ELSE 0)
  PROVE  Balance'
<1> SUFFICES ASSUME NEW st \in States
             PROVE  gauge'[st] + Base(st)' = Cardinality(Holders(st)')
  BY DEF Balance
<1>1. PICK A, B, U, V : A = Holders(st) /\ B = Holders(st)' /\ U = Unset /\ V = Unset'
  OBVIOUS
<1>2. /\ IsFiniteSet(A) /\ Cardinality(A) \in Nat
      /\ IsFiniteSet(U) /\ Cardinality(U) \in Nat
  BY <1>1, CountsFinite
<1>3. /\ \A y : y # s => (y \in A <=> y \in B)
      /\ s \in A <=> (Known(s) /\ mem[s].st = st)
      /\ s \in B <=> (Known(s)' /\ mem'[s].st = st)
  BY <1>1 DEF Holders, Known
<1>4. /\ \A y : y # s => (y \in U <=> y \in V)
      /\ s \in U <=> Creating(s)
      /\ s \in V <=> Creating(s)'
  BY <1>1 DEF Unset
<1>5. Cardinality(B) = Cardinality(A) + (IF s \in B THEN 1 ELSE 0)
                                      - (IF s \in A THEN 1 ELSE 0)
  BY <1>2, <1>3, Counting
<1>6. Cardinality(V) = Cardinality(U) + (IF s \in V THEN 1 ELSE 0)
                                      - (IF s \in U THEN 1 ELSE 0)
  BY <1>2, <1>4, Counting
<1>7. gauge[st] \in Int /\ gauge[st] + (IF st = "created" THEN Cardinality(U) ELSE 0)
                             = Cardinality(A)
  BY <1>1 DEF Balance, Base, IInv, TypeOK, ManagerTypes
<1>8. PICK p, q, m, n \in {0, 1} :
        /\ p = (IF s \in B THEN 1 ELSE 0) /\ q = (IF s \in A THEN 1 ELSE 0)
        /\ m = (IF s \in U THEN 1 ELSE 0) /\ n = (IF s \in V THEN 1 ELSE 0)
  OBVIOUS
<1>9. gauge'[st] = gauge[st] + p - q + (IF st = "created" THEN m ELSE 0)
                                     - (IF st = "created" THEN n ELSE 0)
  BY <1>3, <1>4, <1>8
<1>10. Base(st)' = IF st = "created" THEN Cardinality(V) ELSE 0
  BY <1>1 DEF Base
<1>11. CASE st = "created"
  BY <1>1, <1>2, <1>5, <1>6, <1>7, <1>8, <1>9, <1>10, <1>11
<1>12. CASE st # "created"
  BY <1>1, <1>2, <1>5, <1>6, <1>7, <1>8, <1>9, <1>10, <1>12
<1> QED BY <1>11, <1>12

LEMMA GaugeCreates ==
  ASSUME IInv, GaugeInv, NEW c \in Callers, NEW s \in Sids, BeginCreate(c, s)
  PROVE  GaugeInv'
<1> USE DEF BeginCreate, Begin
<1>1. /\ UNCHANGED <<gauge, cand, miscounted>> /\ rmode[s] = "none"
      /\ mem'[s] = EmptySession /\ \A x \in Sids : x # s => mem'[x] = mem[x]
      /\ \A d \in Callers : d # c => pc'[d] = pc[d] /\ sid'[d] = sid[d]
      /\ pc[c] = "idle" /\ pc'[c] = "cset" /\ sid'[c] = s
  BY DEF IInv, TypeOK, ManagerTypes, CallerTypes, Goto, ghosts
<1>2. mem[s] = None /\ cur[s] = None /\ \A d \in Callers : sid[d] # s
  BY <1>1 DEF IInv, FreshIds
<1>3. /\ Creating(s)' /\ ~Creating(s)
      /\ \A x \in Sids \ {s} : Creating(x)' <=> Creating(x)
  BY <1>1, <1>2 DEF Creating
<1>4. OneCreator'
  BY <1>1, <1>2 DEF GaugeInv, OneCreator, MakePCs
<1>5. ASSUME ~miscounted PROVE Balance'
  <2>1. EmptySession # None /\ EmptySession.st = "created"
    BY EmptyIsSession DEF EmptySession
  <2>2. ASSUME NEW st \in States
        PROVE  gauge'[st] = gauge[st]
                 + (IF Known(s)' /\ mem'[s].st = st THEN 1 ELSE 0)
                 - (IF Known(s) /\ mem[s].st = st THEN 1 ELSE 0)
                 + (IF st = "created" /\ Creating(s) THEN 1 ELSE 0)
                 - (IF st = "created" /\ Creating(s)' THEN 1 ELSE 0)
    <3>1. gauge[st] \in Int
      BY DEF IInv, TypeOK, ManagerTypes
    <3> QED BY <1>1, <1>2, <1>3, <2>1, <3>1 DEF Known
  <2>3. Balance
    BY <1>5 DEF GaugeInv
  <2> QED BY <1>1, <1>3, <2>2, <2>3, GaugeMoves
<1>6. cand[s] = None
  BY <1>2 DEF IInv, StagesMatch, StageOf, Committing
<1>7. ~miscounted => FromTrue'
  BY <1>1, <1>6 DEF GaugeInv, FromTrue, Known
<1> QED BY <1>1, <1>4, <1>5, <1>7 DEF GaugeInv

(* The end of a creation: the call was the only one to create the session.   *)
LEMMA CreationEnds ==
  ASSUME IInv, OneCreator, NEW c \in Callers, pc[c] \in MakePCs, pc'[c] \notin MakePCs,
         sid' = sid, \A d \in Callers : d # c => pc'[d] = pc[d]
  PROVE  /\ Creating(sid[c]) /\ ~Creating(sid[c])' /\ OneCreator'
         /\ \A x \in Sids \ {sid[c]} : Creating(x)' <=> Creating(x)
BY DEF OneCreator, Creating, MakePCs

LEMMA GaugeRolls ==
  ASSUME IInv, GaugeInv, NEW c \in Callers, RollbackCreate(c)
  PROVE  GaugeInv'
<1> USE DEF RollbackCreate, WithoutSession
<1>1. sid[c] \in Sids /\ pc[c] \in MakePCs /\ pc'[c] \notin MakePCs
  BY DEF IInv, CallsKnown, SessionPCs, CreatePCs, MakePCs, TypeOK, CallerTypes, Goto
<1>2. /\ UNCHANGED <<gauge, cand, sid, stage>> /\ mem'[sid[c]] = None
      /\ \A x \in Sids : x # sid[c] => mem'[x] = mem[x]
      /\ \A d \in Callers : d # c => pc'[d] = pc[d]
  BY <1>1 DEF runVars, callVars, IInv, TypeOK, ManagerTypes, CallerTypes, Goto
<1>3. /\ Creating(sid[c]) /\ ~Creating(sid[c])' /\ OneCreator'
      /\ \A x \in Sids \ {sid[c]} : Creating(x)' <=> Creating(x)
  BY <1>1, <1>2, CreationEnds DEF GaugeInv
<1>4. ASSUME ~miscounted' PROVE Balance' /\ FromTrue'
  <2>1. ~miscounted /\ Untouched(sid[c])
    BY <1>4
  <2>2. /\ mem[sid[c]] = EmptySession /\ EmptySession.st = "created" /\ EmptySession # None
        /\ cand[sid[c]] = None
    BY <1>1, <2>1, EmptyIsSession
       DEF Untouched, EmptySession, IInv, StagesMatch, StageOf, Committing
  <2>3. PICK s \in Sids : s = sid[c]
    BY <1>1
  <2>4. /\ Creating(s) /\ ~Creating(s)' /\ ~Known(s)'
        /\ Known(s) /\ mem[s].st = "created"
    BY <1>2, <1>3, <2>2, <2>3 DEF Known, Creating
  <2>5. ASSUME NEW st \in States
        PROVE  gauge'[st] = gauge[st]
                 + (IF Known(s)' /\ mem'[s].st = st THEN 1 ELSE 0)
                 - (IF Known(s) /\ mem[s].st = st THEN 1 ELSE 0)
                 + (IF st = "created" /\ Creating(s) THEN 1 ELSE 0)
                 - (IF st = "created" /\ Creating(s)' THEN 1 ELSE 0)
    <3>1. gauge[st] \in Int
      BY DEF IInv, TypeOK, ManagerTypes
    <3> QED BY <1>2, <2>4, <3>1
  <2>6. Balance /\ FromTrue
    BY <2>1 DEF GaugeInv
  <2>7. Balance'
    BY <1>2, <1>3, <2>3, <2>5, <2>6, GaugeMoves
  <2>8. FromTrue'
    BY <1>2, <2>2, <2>6 DEF FromTrue, Known
  <2> QED BY <2>7, <2>8
<1> QED BY <1>3, <1>4 DEF GaugeInv

LEMMA GaugeSets ==
  ASSUME IInv, GaugeInv, NEW c \in Callers, CreateSet(c)
  PROVE  GaugeInv'
<1> USE DEF CreateSet
<1>1. sid[c] \in Sids /\ pc[c] = "cset"
  BY DEF IInv, CallsKnown, SessionPCs, CreatePCs
<1>2. /\ UNCHANGED <<mem, cand, sid, miscounted>>
      /\ \A d \in Callers : d # c => pc'[d] = pc[d]
  BY DEF runVars, callVars, IInv, TypeOK, CallerTypes, Goto
<1>3. CASE pc'[c] = "crollback" /\ UNCHANGED gauge
  <2>1. \A x \in Sids : Creating(x)' <=> Creating(x)
    BY <1>1, <1>2, <1>3 DEF Creating
  <2>2. ~miscounted => Balance'
    BY <1>2, <1>3, <2>1, BalanceStays DEF Known, GaugeInv
  <2>3. OneCreator'
    BY <1>1, <1>2, <1>3 DEF GaugeInv, OneCreator, MakePCs
  <2> QED BY <1>2, <2>2, <2>3 DEF GaugeInv, FromTrue, Known
<1>4. CASE pc'[c] = "idle" /\ gauge' = GaugeMove("none", "created")
  <2>1. /\ Creating(sid[c]) /\ ~Creating(sid[c])' /\ OneCreator'
        /\ \A x \in Sids \ {sid[c]} : Creating(x)' <=> Creating(x)
    <3>1. pc[c] \in MakePCs /\ pc'[c] \notin MakePCs
      BY <1>1, <1>4 DEF MakePCs
    <3> QED BY <1>2, <3>1, CreationEnds DEF GaugeInv
  <2>2. PICK s \in Sids : s = sid[c]
    BY <1>1
  <2>3. Creating(s) /\ ~Creating(s)' /\ (Known(s)' <=> Known(s)) /\ mem' = mem
    BY <1>2, <2>1, <2>2 DEF Known, Creating
  <2>4. ASSUME NEW st \in States
        PROVE  gauge'[st] = gauge[st]
                 + (IF Known(s)' /\ mem'[s].st = st THEN 1 ELSE 0)
                 - (IF Known(s) /\ mem[s].st = st THEN 1 ELSE 0)
                 + (IF st = "created" /\ Creating(s) THEN 1 ELSE 0)
                 - (IF st = "created" /\ Creating(s)' THEN 1 ELSE 0)
    <3>1. gauge[st] \in Int
      BY DEF IInv, TypeOK, ManagerTypes
    <3>2. gauge'[st] = gauge[st] + (IF st = "created" THEN 1 ELSE 0)
      BY <1>4, <3>1 DEF GaugeMove, States
    <3> QED BY <2>3, <3>1, <3>2
  <2>5. ASSUME ~miscounted PROVE Balance'
    <3>1. Balance
      BY <2>5 DEF GaugeInv
    <3> QED BY <1>2, <2>1, <2>2, <2>4, <3>1, GaugeMoves
  <2> QED BY <1>2, <2>1, <2>5 DEF GaugeInv, FromTrue, Known
<1> QED BY <1>3, <1>4 DEF IInv, TypeOK, CallerTypes, Goto

LEMMA GaugeRunner ==
  ASSUME IInv, GaugeInv, NEW s \in Sids,
         \/ TakeTask(s) \/ SeeStop(s) \/ TurnStart(s) \/ AppendUser(s) \/ AppendFinal(s)
         \/ CallbackFails(s) \/ Transition(s) \/ DeleteSnapshot(s)
  PROVE  GaugeInv'
<1> USE DEF TakeTask, SeeStop, TurnStart, AppendUser, AppendFinal, CallbackFails,
            Transition, DeleteSnapshot
<1>1. UNCHANGED <<mem, gauge, pc, sid, miscounted>>
  BY DEF taskRest, mgrVars, callVars, ghosts
<1>2. \/ cand' = cand \/ (cur[s] # None /\ \E r : Finish(s, r))
      \/ cur[s] # None /\ Known(s) /\ \E new, next : StoreSet(s, new, next)
  BY DEF Running
<1>3. ASSUME NEW x \in Sids
      PROVE  cand'[x] = cand[x] \/ cand'[x] = None \/ (Known(x) /\ cand'[x].from = mem[x].st)
  BY <1>2 DEF Finish, StoreSet, IInv, TypeOK, RunnerTypes
<1>4. ~miscounted => Balance'
  BY <1>1, BalanceStays DEF Known, Creating, GaugeInv
<1>5. OneCreator'
  BY <1>1 DEF GaugeInv, OneCreator
<1> QED BY <1>1, <1>3, <1>4, <1>5 DEF GaugeInv, FromTrue, Known

LEMMA GaugeDeletes ==
  ASSUME IInv, GaugeInv, NEW s \in Sids, DeleteSession(s)
  PROVE  GaugeInv'
<1> USE DEF DeleteSession, WithoutSession
<1>1. UNCHANGED <<pc, sid>> /\ cur[s] # None
  BY DEF callVars, Running
<1>2. /\ mem'[s] = None /\ cand'[s] = None
      /\ \A x \in Sids : x # s => mem'[x] = mem[x] /\ cand'[x] = cand[x]
  BY DEF Finish, IInv, TypeOK, ManagerTypes, RunnerTypes
<1>3. \A x \in Sids : Creating(x)' <=> Creating(x)
  BY <1>1 DEF Creating
<1>4. OneCreator'
  BY <1>1 DEF GaugeInv, OneCreator
<1>5. ASSUME ~miscounted' PROVE Balance' /\ FromTrue'
  <2>1. /\ ~miscounted /\ Known(s) /\ ~Known(s)'
        /\ gauge' = GaugeMove(mem[s].st, "none")
    BY <1>2, <1>5 DEF Known
  <2>2. ASSUME NEW st \in States
        PROVE  gauge'[st] = gauge[st]
                 + (IF Known(s)' /\ mem'[s].st = st THEN 1 ELSE 0)
                 - (IF Known(s) /\ mem[s].st = st THEN 1 ELSE 0)
                 + (IF st = "created" /\ Creating(s) THEN 1 ELSE 0)
                 - (IF st = "created" /\ Creating(s)' THEN 1 ELSE 0)
    <3>1. gauge[st] \in Int
      BY DEF IInv, TypeOK, ManagerTypes
    <3>2. PICK from : from = mem[s].st
      OBVIOUS
    <3>3. gauge'[st] = gauge[st] - (IF st = from THEN 1 ELSE 0)
      BY <2>1, <3>1, <3>2 DEF GaugeMove, States
    <3>4. mem[s].st = st <=> st = from
      BY <3>2
    <3> QED BY <1>3, <2>1, <3>1, <3>3, <3>4
  <2>3. Balance /\ FromTrue
    BY <2>1 DEF GaugeInv
  <2>4. Balance'
    BY <1>2, <1>3, <2>2, <2>3, GaugeMoves
  <2>5. FromTrue'
    BY <1>2, <2>3 DEF FromTrue, Known
  <2> QED BY <2>4, <2>5
<1> QED BY <1>4, <1>5 DEF GaugeInv

LEMMA GaugeCommits ==
  ASSUME IInv, GaugeInv, NEW s \in Sids, Commit(s)
  PROVE  GaugeInv'
<1> USE DEF Commit
<1>1. /\ UNCHANGED <<pc, sid, miscounted>> /\ cur[s] # None /\ cand[s] # None
      /\ cand[s] \in Candidates
  BY DEF callVars, ghosts, IInv, TypeOK, RunnerTypes, StagesMatch, StageOf, Committing
<1>2. /\ mem'[s] = cand[s].new /\ cand'[s] = None
      /\ \A x \in Sids : x # s => mem'[x] = mem[x] /\ cand'[x] = cand[x]
  BY DEF Finish, IInv, TypeOK, ManagerTypes, RunnerTypes
<1>3. /\ cand[s].new \in Sessions /\ cand[s].new # None
      /\ cand[s].new.st \in States /\ cand[s].from \in States
  BY <1>1, RunnerAssumption DEF Candidates, Sessions
<1>4. PICK from \in States, to \in States : from = cand[s].from /\ to = cand[s].new.st
  BY <1>3
<1>5. gauge' = [st \in States |-> gauge[st] + (IF st = to THEN 1 ELSE 0)
                                            - (IF st = from THEN 1 ELSE 0)]
  BY <1>4 DEF GaugeCommit, GaugeMove
<1>6. \A x \in Sids : Creating(x)' <=> Creating(x)
  BY <1>1 DEF Creating
<1>7. OneCreator'
  BY <1>1 DEF GaugeInv, OneCreator
<1>8. ASSUME ~miscounted PROVE Balance' /\ FromTrue'
  <2>1. Balance /\ FromTrue
    BY <1>8 DEF GaugeInv
  <2>2. Known(s) /\ mem[s].st = from /\ Known(s)' /\ mem'[s].st = to
    BY <1>1, <1>2, <1>3, <1>4, <2>1 DEF FromTrue, Known
  <2>3. ASSUME NEW st \in States
        PROVE  gauge'[st] = gauge[st]
                 + (IF Known(s)' /\ mem'[s].st = st THEN 1 ELSE 0)
                 - (IF Known(s) /\ mem[s].st = st THEN 1 ELSE 0)
                 + (IF st = "created" /\ Creating(s) THEN 1 ELSE 0)
                 - (IF st = "created" /\ Creating(s)' THEN 1 ELSE 0)
    <3>1. gauge[st] \in Int
      BY DEF IInv, TypeOK, ManagerTypes
    <3> QED BY <1>5, <1>6, <2>2, <3>1
  <2>4. Balance'
    BY <1>2, <1>6, <2>1, <2>3, GaugeMoves
  <2>5. FromTrue'
    BY <1>2, <2>1 DEF FromTrue, Known
  <2> QED BY <2>4, <2>5
<1> QED BY <1>1, <1>7, <1>8 DEF GaugeInv

LEMMA GaugeNext == IInv /\ GaugeInv /\ [Next]_vars => GaugeInv'
<1>1. ASSUME GaugeInv, UNCHANGED vars PROVE GaugeInv'
  <2>1. Still
    BY <1>1 DEF Still, vars, mgrVars, runVars, callVars, ghosts
  <2> QED BY <1>1, <2>1, GaugeStill
<1>2. ASSUME IInv, GaugeInv, NEW c \in Callers, Proceed(c) PROVE GaugeInv'
  BY <1>2, GoesOn, GaugeStill, GaugeRolls, GaugeSets DEF Proceed
<1>3. ASSUME IInv, GaugeInv, NEW c \in Callers, BeginCall(c) PROVE GaugeInv'
  BY <1>3, Begins, GoesOn, GaugeStill, GaugeCreates DEF BeginCall
<1>4. ASSUME IInv, GaugeInv, NEW s \in Sids, RunTask(s) PROVE GaugeInv'
  BY <1>4, GaugeRunner, GaugeDeletes, GaugeCommits DEF RunTask
<1> QED BY <1>1, <1>2, <1>3, <1>4, GoesOn, GaugeStill, GaugeRunner DEF Next

LEMMA GaugeInit == Init => GaugeInv
<1> SUFFICES ASSUME Init PROVE GaugeInv
  OBVIOUS
<1>1. OneCreator /\ FromTrue
  BY DEF Init, OneCreator, FromTrue, MakePCs
<1>2. Unset = {}
  BY DEF Init, Unset, Creating
<1>3. Cardinality(Unset) = 0
  BY <1>2, FS_EmptySet
<1>4. ASSUME NEW st \in States PROVE gauge[st] + Base(st) = Cardinality(Holders(st))
  <2>1. EmptySession # None
    BY EmptyIsSession
  <2>2. Cardinality(Restored) \in Nat
    BY RunnerAssumption, FS_Subset, FS_CardinalityType
  <2>3. CASE st = "created"
    <3>1. Holders(st) = Restored
      BY <2>1, <2>3, RunnerAssumption DEF Init, Holders, Known, EmptySession
    <3> QED BY <1>3, <2>2, <2>3, <3>1 DEF Init, Base
  <2>4. CASE st # "created"
    <3>1. Holders(st) = {}
      BY <2>1, <2>4, RunnerAssumption DEF Init, Holders, Known, EmptySession
    <3> QED BY <2>4, <3>1, FS_EmptySet DEF Init, Base
  <2> QED BY <2>3, <2>4
<1> QED BY <1>1, <1>4 DEF GaugeInv, Balance

(***************************************************************************)
(* The registry.                                                            *)
(***************************************************************************)
(* Of two turns in flight under one id both are remembered: the first to end  *)
(* takes the entry of the other.                                             *)
TwinsKnown ==
  \A c, d \in Callers :
    pc[c] \in TurnPCs /\ pc[d] \in TurnPCs /\ c # d
      /\ sid[c] = sid[d] /\ turn[c] = turn[d] => c \in twins
TurnMaps == \A s \in Sids : indexed[s] => hasTurns[s]
ListInv == RegistryComplete /\ TwinsKnown /\ TurnMaps

(* No entry goes, and no turn begins or moves.                               *)
LEMMA ListStays ==
  ASSUME ListInv, UNCHANGED <<active, indexed, twins>>,
         \A s \in Sids : hasTurns[s] => hasTurns'[s],
         \A d \in Callers : pc'[d] \in TurnPCs =>
           /\ pc[d] \in TurnPCs /\ sid[d] \in Sids
           /\ sid'[d] = sid[d] /\ turn'[d] = turn[d]
  PROVE  ListInv'
<1>1. RegistryComplete'
  BY DEF ListInv, RegistryComplete
<1>2. TwinsKnown'
  BY DEF ListInv, TwinsKnown
<1>3. TurnMaps'
  BY DEF ListInv, TurnMaps
<1> QED BY <1>1, <1>2, <1>3 DEF ListInv

LEMMA InFlight ==
  ASSUME IInv, NEW c \in Callers, pc[c] \in TurnPCs \cup {"register"}
  PROVE  sid[c] \in Sids /\ turn[c] \in Turns
BY DEF IInv, CallsKnown, SessionPCs, TurnCall

LEMMA ListCallers ==
  ASSUME IInv, ListInv, NEW c \in Callers,
         \/ Lookup(c) \/ Send(c) \/ Wait(c) \/ DeleteStop(c) \/ DeleteWait(c)
         \/ Reserve(c) \/ SendTurn(c) \/ WaitTurn(c) \/ CloseDone(c)
         \/ Cancel(c) \/ CancelAgentTurns(c) \/ CancelAgentReturn(c)
         \/ Shutdown(c) \/ CancelAllTurns(c) \/ StopRunners(c) \/ ShutdownReturn(c)
         \/ CreateSet(c) \/ CreateStop(c)
  PROVE  ListInv'
<1> USE DEF IInv, TypeOK, Lookup, Send, Wait, DeleteStop, DeleteWait, Reserve,
            SendTurn, WaitTurn, CloseDone, Cancel, CancelAgentTurns,
            CancelAgentReturn, Shutdown, CancelAllTurns, StopRunners, ShutdownReturn,
            CreateSet, CreateStop
<1>1. UNCHANGED <<active, indexed, twins, sid, turn>>
  BY DEF mgrVars, callVars, ghosts, callGhosts
<1>2. \A s \in Sids : hasTurns[s] => hasTurns'[s]
  BY DEF mgrVars, ManagerTypes
<1>3. \A d \in Callers : d # c => pc'[d] = pc[d]
  BY DEF Goto, CallerTypes
<1>4. pc'[c] \in TurnPCs => pc[c] \in TurnPCs
  BY DEF Goto, CallerTypes, TurnPCs, WaitOnClosing
<1>5. \A d \in Callers : pc[d] \in TurnPCs => sid[d] \in Sids
  BY InFlight
<1> QED BY <1>1, <1>2, <1>3, <1>4, <1>5, ListStays

LEMMA ListBegins ==
  ASSUME IInv, ListInv, NEW c \in Callers, NEW s \in Sids,
         \/ \E o \in Ops : BeginTask(c, o, s)
         \/ BeginDelete(c, s)
         \/ \E t \in Turns : BeginTurn(c, s, t)
  PROVE  ListInv'
<1> USE DEF IInv, TypeOK, BeginTask, BeginDelete, BeginTurn, Begin
<1>1. UNCHANGED <<active, indexed, twins, hasTurns>>
  BY DEF mgrVars, ghosts, callGhosts
<1>2. \A d \in Callers : d # c => pc'[d] = pc[d] /\ sid'[d] = sid[d] /\ turn'[d] = turn[d]
  BY DEF Goto, CallerTypes
<1>3. pc'[c] \notin TurnPCs
  BY DEF Goto, CallerTypes, TurnPCs
<1>4. \A d \in Callers : pc[d] \in TurnPCs => sid[d] \in Sids
  BY InFlight
<1> QED BY <1>1, <1>2, <1>3, <1>4, ListStays

LEMMA ListCreates ==
  ASSUME IInv, ListInv, NEW c \in Callers, NEW s \in Sids, BeginCreate(c, s)
  PROVE  ListInv'
<1> USE DEF BeginCreate, Begin
<1>1. /\ UNCHANGED <<active, twins, turn>> /\ rmode[s] = "none"
      /\ hasTurns'[s] /\ indexed'[s]
      /\ \A x \in Sids : x # s => hasTurns'[x] = hasTurns[x] /\ indexed'[x] = indexed[x]
      /\ \A d \in Callers : d # c => pc'[d] = pc[d] /\ sid'[d] = sid[d]
      /\ pc'[c] = "cset"
  BY DEF IInv, TypeOK, ManagerTypes, CallerTypes, Goto, ghosts, callGhosts
<1>2. \A d \in Callers : pc[d] \in TurnPCs => sid[d] \in Sids \ {s}
  BY <1>1, InFlight DEF IInv, FreshIds
<1>3. \A d \in Callers : pc'[d] \in TurnPCs => d # c /\ pc[d] \in TurnPCs
  BY <1>1 DEF TurnPCs
<1>4. RegistryComplete'
  BY <1>1, <1>2, <1>3 DEF ListInv, RegistryComplete
<1>5. TwinsKnown'
  BY <1>1, <1>3 DEF ListInv, TwinsKnown
<1>6. TurnMaps'
  BY <1>1 DEF ListInv, TurnMaps
<1> QED BY <1>4, <1>5, <1>6 DEF ListInv

LEMMA ListRegisters ==
  ASSUME IInv, ListInv, NEW c \in Callers, Register(c)
  PROVE  ListInv'
<1> USE DEF Register
<1>1. /\ sid[c] \in Sids /\ turn[c] \in Turns /\ pc[c] \notin TurnPCs
      /\ UNCHANGED <<indexed, hasTurns, sid, turn>>
      /\ \A d \in Callers : d # c => pc'[d] = pc[d]
  BY InFlight DEF IInv, TypeOK, CallerTypes, Goto, callVars, TurnPCs
<1>2. CASE closed
  <2>1. UNCHANGED <<active, twins>> /\ pc'[c] = "idle"
    BY <1>2 DEF IInv, TypeOK, CallerTypes, Goto
  <2>2. \A d \in Callers : pc'[d] \in TurnPCs => pc[d] \in TurnPCs
    BY <1>1, <2>1 DEF TurnPCs
  <2> QED BY <1>1, <2>1, <2>2, InFlight, ListStays
<1>3. CASE ~closed
  <2>1. /\ active' = IF hasTurns[sid[c]] THEN [active EXCEPT ![sid[c]][turn[c]] = c]
                                         ELSE active
        /\ twins' = IF SameTurn(c) = {} THEN twins ELSE twins \cup SameTurn(c) \cup {c}
    BY <1>3
  <2>2. \A s \in Sids, t \in Turns :
          s # sid[c] \/ t # turn[c] => active'[s][t] = active[s][t]
    BY <1>1, <2>1 DEF IInv, TypeOK, ManagerTypes
  <2>3. hasTurns[sid[c]] => active'[sid[c]][turn[c]] = c
    BY <1>1, <2>1 DEF IInv, TypeOK, ManagerTypes
  <2>4. ASSUME NEW d \in Callers, d # c, pc[d] \in TurnPCs, sid[d] = sid[c], turn[d] = turn[c]
        PROVE  d \in twins' /\ c \in twins'
    <3>1. d \in SameTurn(c)
      BY <2>4 DEF SameTurn
    <3> QED BY <2>1, <3>1
  <2>5. \A d \in twins : d \in twins'
    BY <2>1
  <2>6. RegistryComplete'
    <3> SUFFICES ASSUME NEW d \in Callers, pc'[d] \in TurnPCs
                 PROVE  \/ hasTurns[sid[d]] /\ active'[sid[d]][turn[d]] = d
                        \/ d \in twins' \/ ~indexed[sid[d]]
      BY <1>1 DEF RegistryComplete
    <3>1. CASE d = c
      BY <1>1, <2>3, <3>1 DEF ListInv, TurnMaps
    <3>2. CASE d # c
      <4>1. pc[d] \in TurnPCs /\ sid[d] \in Sids /\ turn[d] \in Turns
        BY <1>1, <3>2, InFlight
      <4>2. CASE sid[d] = sid[c] /\ turn[d] = turn[c]
        BY <2>4, <3>2, <4>1, <4>2
      <4>3. CASE sid[d] # sid[c] \/ turn[d] # turn[c]
        BY <2>2, <2>5, <4>1, <4>3 DEF ListInv, RegistryComplete
      <4> QED BY <4>2, <4>3
    <3> QED BY <3>1, <3>2
  <2>7. TwinsKnown'
    <3>0. sid' = sid /\ turn' = turn
      BY <1>1
    <3> SUFFICES ASSUME NEW d \in Callers, NEW e \in Callers, d # e,
                        pc'[d] \in TurnPCs, pc'[e] \in TurnPCs,
                        sid[d] = sid[e], turn[d] = turn[e]
                 PROVE  d \in twins'
      BY <3>0 DEF TwinsKnown
    <3>1. CASE d # c /\ e # c
      BY <1>1, <2>5, <3>1 DEF ListInv, TwinsKnown
    <3>2. CASE d = c
      BY <1>1, <2>4, <3>2
    <3>3. CASE e = c
      BY <1>1, <2>4, <3>3
    <3> QED BY <3>1, <3>2, <3>3
  <2>8. TurnMaps'
    BY <1>1 DEF ListInv, TurnMaps
  <2> QED BY <2>6, <2>7, <2>8 DEF ListInv
<1> QED BY <1>2, <1>3

LEMMA ListDeregisters ==
  ASSUME IInv, ListInv, NEW c \in Callers, Deregister(c)
  PROVE  ListInv'
<1> USE DEF Deregister
<1>1. /\ sid[c] \in Sids /\ turn[c] \in Turns /\ pc[c] \in TurnPCs
      /\ UNCHANGED <<indexed, hasTurns, sid, turn>>
      /\ \A d \in Callers : d # c => pc'[d] = pc[d]
      /\ pc'[c] = "idle" /\ twins' = twins \ {c}
  BY InFlight DEF IInv, TypeOK, CallerTypes, Goto, callVars, TurnPCs
<1>2. \A s \in Sids, t \in Turns :
        s # sid[c] \/ t # turn[c] => active'[s][t] = active[s][t]
  BY <1>1 DEF WithoutTurn, IInv, TypeOK, ManagerTypes
<1>3. \A d \in Callers : pc'[d] \in TurnPCs => d # c /\ pc[d] \in TurnPCs
  BY <1>1 DEF TurnPCs
<1>4. RegistryComplete'
  <2> SUFFICES ASSUME NEW d \in Callers, pc'[d] \in TurnPCs
               PROVE  \/ hasTurns[sid[d]] /\ active'[sid[d]][turn[d]] = d
                      \/ d \in twins' \/ ~indexed[sid[d]]
    BY <1>1 DEF RegistryComplete
  <2>1. d # c /\ pc[d] \in TurnPCs /\ sid[d] \in Sids /\ turn[d] \in Turns
    BY <1>3, InFlight
  <2>2. CASE sid[d] = sid[c] /\ turn[d] = turn[c]
    <3>1. d \in twins
      BY <1>1, <2>1, <2>2 DEF ListInv, TwinsKnown
    <3> QED BY <1>1, <2>1, <3>1
  <2>3. CASE sid[d] # sid[c] \/ turn[d] # turn[c]
    BY <1>1, <1>2, <2>1, <2>3 DEF ListInv, RegistryComplete
  <2> QED BY <2>2, <2>3
<1>5. TwinsKnown'
  BY <1>1, <1>3 DEF ListInv, TwinsKnown
<1>6. TurnMaps'
  BY <1>1 DEF ListInv, TurnMaps
<1> QED BY <1>4, <1>5, <1>6 DEF ListInv

(* The roll-back of Create and the task of Delete drop the map of one session *)
(* and take the session out of the index.                                    *)
LEMMA ListDrops ==
  ASSUME IInv, ListInv, NEW s \in Sids, UNCHANGED <<sid, turn, twins>>,
         hasTurns' = [hasTurns EXCEPT ![s] = FALSE],
         indexed' = [indexed EXCEPT ![s] = FALSE],
         active' = [active EXCEPT ![s] = [t \in Turns |-> None]],
         \A d \in Callers : pc'[d] \in TurnPCs => pc[d] \in TurnPCs
  PROVE  ListInv'
<1>1. /\ ~indexed'[s]
      /\ \A x \in Sids \ {s} : /\ indexed'[x] = indexed[x] /\ hasTurns'[x] = hasTurns[x]
                               /\ active'[x] = active[x]
  BY DEF IInv, TypeOK, ManagerTypes
<1>2. RegistryComplete'
  BY <1>1, InFlight DEF ListInv, RegistryComplete
<1>3. TwinsKnown'
  BY DEF ListInv, TwinsKnown
<1>4. TurnMaps'
  BY <1>1 DEF ListInv, TurnMaps
<1> QED BY <1>2, <1>3, <1>4 DEF ListInv

LEMMA ListRunner ==
  ASSUME IInv, ListInv, NEW s \in Sids, TakeTask(s) \/ SeeStop(s) \/ RunTask(s)
  PROVE  ListInv'
<1>1. CASE DeleteSession(s)
  BY <1>1, ListDrops DEF DeleteSession, callVars, callGhosts
<1>2. CASE ~DeleteSession(s)
  <2>1. UNCHANGED <<active, indexed, hasTurns, twins, pc, sid, turn>>
    <3>1. CASE TakeTask(s) \/ SeeStop(s) \/ Commit(s)
      BY <3>1 DEF TakeTask, SeeStop, Commit, mgrVars, callVars, ghosts, callGhosts
    <3>2. CASE RunTask(s) /\ ~Commit(s)
      <4>1. UNCHANGED taskRest
        BY <1>2, <3>2 DEF RunTask, TurnStart, AppendUser, AppendFinal, CallbackFails,
                          Transition, DeleteSnapshot
      <4> QED BY <4>1 DEF taskRest, mgrVars, callVars, callGhosts
    <3> QED BY <3>1, <3>2
  <2> QED BY <2>1, InFlight, ListStays
<1> QED BY <1>1, <1>2

LEMMA ListNext == IInv /\ ListInv /\ [Next]_vars => ListInv'
<1>1. ASSUME IInv, ListInv, UNCHANGED vars PROVE ListInv'
  <2>1. UNCHANGED <<active, indexed, hasTurns, twins, pc, sid, turn>>
    BY <1>1 DEF vars, mgrVars, callVars, ghosts, callGhosts
  <2> QED BY <1>1, <2>1, InFlight, ListStays
<1>2. ASSUME IInv, ListInv, NEW c \in Callers, RollbackCreate(c) PROVE ListInv'
  <2>1. sid[c] \in Sids
    BY <1>2 DEF RollbackCreate, IInv, CallsKnown, SessionPCs, CreatePCs
  <2>2. \A d \in Callers : pc'[d] \in TurnPCs => pc[d] \in TurnPCs
    BY <1>2 DEF RollbackCreate, IInv, TypeOK, CallerTypes, Goto, TurnPCs
  <2>3. PICK s \in Sids : s = sid[c]
    BY <2>1
  <2>4. /\ hasTurns' = [hasTurns EXCEPT ![s] = FALSE]
        /\ indexed' = [indexed EXCEPT ![s] = FALSE]
        /\ active' = [active EXCEPT ![s] = [t \in Turns |-> None]]
        /\ UNCHANGED <<sid, turn, twins>>
    BY <1>2, <2>3 DEF RollbackCreate, callVars, callGhosts
  <2> QED BY <1>2, <2>2, <2>4, ListDrops
<1>3. ASSUME IInv, ListInv, NEW c \in Callers, Proceed(c) PROVE ListInv'
  BY <1>2, <1>3, ListCallers, ListRegisters, ListDeregisters DEF Proceed
<1>4. ASSUME IInv, ListInv, NEW c \in Callers, BeginCall(c) PROVE ListInv'
  BY <1>4, ListBegins, ListCreates, ListCallers DEF BeginCall
<1> QED BY <1>1, <1>3, <1>4, ListCallers, ListRunner DEF Next

(* The books of the Manager, whatever overlaps, fails or is cancelled.  The
   registry lists what runs and only that (RunTurn, CancelTurn), except of calls
   admitted under one id at a time and of sessions taken out of the index; the
   gauge yaa_session_current counts the sessions by state when nobody works
   (commit, Create, Delete), unless a Delete subtracted a state that another
   task had changed since it was read, or a session that was gone, or Create
   rolled back what others had changed.                                        *)
THEOREM BooksStayExact == Spec => []BooksExact
<1> DEFINE Inv == GaugeInv /\ ListInv
<1>1. Init => Inv
  <2>1. Init => ListInv
    <3> SUFFICES ASSUME Init PROVE ListInv
      OBVIOUS
    <3>1. TurnMaps
      BY DEF Init, TurnMaps
    <3>2. \A c \in Callers : pc[c] \notin TurnPCs
      BY DEF Init, TurnPCs
    <3> QED BY <3>1, <3>2 DEF ListInv, RegistryComplete, TwinsKnown
  <2> QED BY <2>1, GaugeInit
<1>2. IInv /\ Inv /\ [Next]_vars => Inv'
  BY GaugeNext, ListNext
<1>3. IInv /\ Inv => BooksExact
  <2> SUFFICES ASSUME IInv, Inv, \A c \in Callers : pc[c] = "idle", ~miscounted,
                      NEW st \in States
               PROVE  gauge[st] = Cardinality({s \in Sids : Known(s) /\ mem[s].st = st})
    BY DEF IInv, Registry, BooksExact, GaugeExact, ListInv
  <2>1. Unset = {}
    BY DEF Unset, Creating
  <2>2. Cardinality(Unset) = 0
    BY <2>1, FS_EmptySet
  <2>3. gauge[st] \in Int
    BY DEF IInv, TypeOK, ManagerTypes
  <2>4. gauge[st] + Base(st) = Cardinality(Holders(st))
    BY DEF GaugeInv, Balance
  <2>5. Base(st) = 0
    BY <2>2 DEF Base
  <2>6. gauge[st] = Cardinality(Holders(st))
    BY <2>3, <2>4, <2>5
  <2> QED BY <2>6 DEF Holders
<1> HIDE DEF Inv
<1> QED BY <1>1, <1>2, <1>3, Inductive, PTL DEF Spec
=============================================================================
