---------------------------- MODULE SessionRunner ----------------------------
(* The goroutines of internal/session: callers of the Manager's operations,  *)
(* one FIFO runner per session that executes their tasks, and Shutdown.  One *)
(* action is one critical section of Manager.mu, one channel operation or    *)
(* one Storage call; everything in between may interleave.                   *)
(* A session is [st, msgs]; a message keeps its turn and its role.  Every    *)
(* session is persistent here; SessionLifecycle has the other policy.        *)
EXTENDS SessionState, Integers, Sequences, FiniteSets

CONSTANTS
  Sids,          \* session ids: NewSessionID never hands out one twice
  Restored,      \* the sessions Restore found in the store
  Callers,       \* goroutines that call the Manager, one call at a time
  Turns,         \* turn ids
  None,          \* no session, no caller
  Ops,           \* the operations the callers use in this instance
  QueueCap,      \* capacity of runner.tasks
  MaxSessions,   \* MaxSessionsPerAgent (all sessions belong to one agent)
  FailingOps     \* the Storage operations that may return an error

Sessions == [st : States, msgs : Seq([turn : Turns, role : {"user", "final"}])]
Snapshots == Sessions \cup {None}
Candidates == [new : Sessions, from : States]        \* what a commit stores

AllOps == {"turn", "cancel", "pause", "close", "delete", "create",
           "cancelAgent", "shutdown"}

ASSUME RunnerAssumption ==
  /\ Restored \subseteq Sids /\ Ops \subseteq AllOps
  /\ QueueCap \in Nat \ {0} /\ MaxSessions \in Nat
  /\ FailingOps \subseteq {"set", "delete"}
  /\ None \notin Callers \cup Sids \cup Turns
  /\ None \notin Sessions /\ None \notin Candidates
  /\ IsFiniteSet(Sids)

VARIABLES
  closed,     \* Manager.closed, and whether Manager.closing is closed
  mem,        \* mem[s]: Manager.sessions[s], or None
  store,      \* store[s]: the snapshot in Storage, or None
  indexed,    \* indexed[s]: Manager.agentIdx has s
  listed,     \* listed[s]: Manager.runners has s
  hasTurns,   \* hasTurns[s]: Manager.activeTurns has a map for s
  active,     \* active[s][t]: the caller whose control is in that map, or None
  gauge,      \* the gauge yaa_session_current by state
  stop,       \* stop[s]: runner.stop is closed
  rmode,      \* rmode[s]: "none", "loop", "drain" or "exited"
  queue,      \* queue[s]: runner.tasks, a task being known by its caller
  cur,        \* cur[s]: the caller whose task the runner executes, or None
  stage,      \* stage[s]: where that task is
  cand,       \* cand[s]: the candidate a commit has stored, not yet in mem
  pc,         \* pc[c]: where caller c is, "idle" between two calls
  op, sid, turn,  \* op[c], sid[c], turn[c]: the call
  reply,      \* reply[c]: what the done channel of c's task holds
  cancelled,  \* cancelled[c]: the context of c's turn is cancelled
  waits,      \* waits[c]: turn controls whose done c still waits for
  toStop,     \* the runners Shutdown collected
  lastState,  \* lastState[c]: state Delete read before it enqueued its task
  shut,       \* outcome of the first Shutdown
  panicked,   \* "closeTwice", "nilMap" or, all being well, "no"
  \* Ghosts, which no action reads: what the code does not keep apart.
  crossed,    \* sessions whose Create overwrote or left what others had stored
  stranded,   \* sessions whose Delete failed in Storage, the runner stopped
  miscounted, \* a Delete or a roll-back has moved the gauge by a stale state
  twins,      \* callers whose turn ran beside another of the same turn id
  hung        \* callers whose task went to a runner that had exited

mgrVars == <<closed, mem, indexed, listed, hasTurns, active, gauge>>
runVars == <<stop, rmode, queue, cur, stage, cand>>
callVars == <<op, sid, turn, lastState>>
ctlVars == <<reply, cancelled, waits>>
endVars == <<toStop, shut, panicked>>
callGhosts == <<twins, hung>>
ghosts == <<crossed, stranded, miscounted, callGhosts>>
vars == <<mgrVars, store, runVars, pc, callVars, ctlVars, endVars, ghosts>>

EmptySession == [st |-> "created", msgs |-> <<>>]
Msg(t, r) == [turn |-> t, role |-> r]
TurnPCs == {"tsend", "twait", "tdrain", "tdone", "tdereg"}  \* control installed
CreatePCs == {"cset", "crollback", "cstop", "cwait"}

Init ==
  /\ closed = FALSE
  /\ mem = [s \in Sids |-> IF s \in Restored THEN EmptySession ELSE None]
  /\ store = mem
  /\ listed = [s \in Sids |-> s \in Restored]
  /\ indexed = listed /\ hasTurns = listed
  /\ active = [s \in Sids |-> [t \in Turns |-> None]]
  /\ gauge = [st \in States |-> IF st = "created" THEN Cardinality(Restored) ELSE 0]
  /\ stop = [s \in Sids |-> FALSE]
  /\ rmode = [s \in Sids |-> IF s \in Restored THEN "loop" ELSE "none"]
  /\ queue = [s \in Sids |-> <<>>] /\ cur = [s \in Sids |-> None]
  /\ stage = [s \in Sids |-> "none"] /\ cand = [s \in Sids |-> None]
  /\ pc = [c \in Callers |-> "idle"] /\ op = [c \in Callers |-> "none"]
  /\ sid = [c \in Callers |-> None] /\ turn = [c \in Callers |-> None]
  /\ reply = [c \in Callers |-> "none"]
  /\ cancelled = [c \in Callers |-> FALSE]
  /\ waits = [c \in Callers |-> {}]
  /\ toStop = {} /\ lastState = [c \in Callers |-> "none"]
  /\ shut = "no" /\ panicked = "no"
  /\ crossed = {} /\ stranded = {} /\ miscounted = FALSE
  /\ twins = {} /\ hung = {}

Goto(c, l) == pc' = [pc EXCEPT ![c] = l]
Known(s) == mem[s] # None
GaugeMove(from, to) == [st \in States |-> gauge[st] + (IF st = to THEN 1 ELSE 0)
                                                    - (IF st = from THEN 1 ELSE 0)]

(* delete(m.sessions, s), by Delete and by the roll-back of Create.         *)
IndexKept(s) == mem                                              \* mutant
WithoutSession(s) == [mem EXCEPT ![s] = None]

(* close(r.stop) of the runners of S.                                       *)
CloseStop(S) == /\ stop' = [s \in Sids |-> stop[s] \/ s \in S]
                /\ panicked' = IF \E s \in S : stop[s] THEN "closeTwice" ELSE panicked

(***************************************************************************)
(* A call begins: the caller picks an operation, a session and a turn id.   *)
(***************************************************************************)
Begin(c, o, s, l) ==
  /\ o \in Ops /\ pc[c] = "idle"
  /\ op' = [op EXCEPT ![c] = o] /\ sid' = [sid EXCEPT ![c] = s]
  /\ Goto(c, l)
  /\ reply' = [reply EXCEPT ![c] = "none"]
  /\ cancelled' = [cancelled EXCEPT ![c] = FALSE]

(* Pause, Close: straight to runInSession.                                  *)
BeginTask(c, o, s) ==
  /\ o \in {"pause", "close"} /\ Known(s)
  /\ Begin(c, o, s, "lookup")
  /\ UNCHANGED <<mgrVars, store, runVars, turn, lastState, waits, endVars, ghosts>>

(* runInSession, the critical section: closed, and the runner of the session *)
Lookup(c) ==
  /\ pc[c] = "lookup"
  /\ LET go == ~closed /\ listed[sid[c]]
         leave == IF op[c] = "delete" THEN "delstop" ELSE "idle"
     IN  Goto(c, IF go THEN "send" ELSE leave)
  /\ UNCHANGED <<mgrVars, store, runVars, callVars, ctlVars, endVars, ghosts>>

(* runInSession, the select: any ready branch may win.                      *)
Enqueue(c) == /\ queue' = [queue EXCEPT ![sid[c]] = Append(@, c)]
              /\ hung' = IF rmode[sid[c]] = "exited" THEN hung \cup {c} ELSE hung
Room(s) == Len(queue[s]) < QueueCap

Send(c) ==
  /\ pc[c] = "send"
  /\ \/ Room(sid[c]) /\ Enqueue(c) /\ Goto(c, "wait")
     \/ /\ closed \/ stop[sid[c]]
        /\ Goto(c, IF op[c] = "delete" THEN "delstop" ELSE "idle")
        /\ UNCHANGED <<queue, hung>>
  /\ UNCHANGED <<mgrVars, store, stop, rmode, cur, stage, cand, callVars,
                 ctlVars, endVars, crossed, stranded, miscounted, twins>>

(* runInSession, <-done.                                                    *)
Wait(c) ==
  /\ pc[c] = "wait" /\ reply[c] # "none"
  /\ Goto(c, IF op[c] = "delete" THEN "delstop" ELSE "idle")
  /\ UNCHANGED <<mgrVars, store, runVars, callVars, ctlVars, endVars, ghosts>>

(***************************************************************************)
(* Delete: reads the session, runs its task, then stops the runner.         *)
(***************************************************************************)
BeginDelete(c, s) ==
  /\ ~closed /\ listed[s] /\ Known(s)
  /\ Begin(c, "delete", s, "lookup")
  /\ lastState' = [lastState EXCEPT ![c] = mem[s].st]
  /\ UNCHANGED <<mgrVars, store, runVars, turn, waits, endVars, ghosts>>

(* After the task, under mu: whatever its outcome was.  If it failed, the    *)
(* session stays and has lost its runner.                                   *)
DeleteStop(c) ==
  LET s == sid[c] IN
  /\ pc[c] = "delstop"
  /\ IF listed[s]
       THEN /\ listed' = [listed EXCEPT ![s] = FALSE]
            /\ CloseStop({s})
            /\ stranded' = IF reply[c] = "err" THEN stranded \cup {s} ELSE stranded
            /\ Goto(c, "delwait")
       ELSE Goto(c, "idle") /\ UNCHANGED <<listed, panicked, stop, stranded>>
  /\ UNCHANGED <<closed, mem, indexed, hasTurns, active, gauge, store, rmode, queue, cur,
                 stage, cand, callVars, ctlVars, toStop, shut, crossed, miscounted,
                 callGhosts>>

DeleteWait(c) ==
  /\ pc[c] = "delwait" /\ rmode[sid[c]] = "exited"
  /\ Goto(c, "idle")
  /\ UNCHANGED <<mgrVars, store, runVars, callVars, ctlVars, endVars, ghosts>>

(***************************************************************************)
(* RunTurn: reserve and register the turn id, enqueue the task, wait, and   *)
(* the deferred clean-up.  The checks and the entry are three sections.     *)
(***************************************************************************)
BeginTurn(c, s, t) ==
  /\ ~closed /\ Known(s) /\ listed[s]
  /\ Begin(c, "turn", s, "reserve")
  /\ turn' = [turn EXCEPT ![c] = t]
  /\ UNCHANGED <<mgrVars, store, runVars, lastState, waits, endVars, ghosts>>

Taken(s, t) == hasTurns[s] /\ active[s][t] # None

Reserve(c) ==
  LET s == sid[c] IN
  /\ pc[c] = "reserve"
  /\ IF Taken(s, turn[c])
       THEN Goto(c, "idle") /\ UNCHANGED hasTurns
       ELSE Goto(c, "register") /\ hasTurns' = [hasTurns EXCEPT ![s] = TRUE]
  /\ UNCHANGED <<closed, mem, indexed, listed, active, gauge, store, runVars, callVars,
                 ctlVars, endVars, ghosts>>

(* activeTurns[s][t] = tc: a write to a nil map when Delete took the map.    *)
(* A call admitted under the same id loses its entry, now or when the first *)
(* of the two returns.                                                      *)
SameTurn(c) == {d \in Callers \ {c} :
                  pc[d] \in TurnPCs /\ sid[d] = sid[c] /\ turn[d] = turn[c]}

Register(c) ==
  LET s == sid[c] IN
  /\ pc[c] = "register"
  /\ IF closed
       THEN Goto(c, "idle") /\ UNCHANGED <<active, panicked, twins>>
       ELSE /\ Goto(c, "tsend")
            /\ panicked' = IF hasTurns[s] THEN panicked ELSE "nilMap"
            /\ active' = IF hasTurns[s]
                           THEN [active EXCEPT ![s][turn[c]] = c] ELSE active
            /\ twins' = IF SameTurn(c) = {} THEN twins
                                            ELSE twins \cup SameTurn(c) \cup {c}
  /\ UNCHANGED <<closed, mem, indexed, listed, hasTurns, gauge, store, runVars,
                 callVars, ctlVars, toStop, shut, crossed, stranded, miscounted, hung>>

SendTurn(c) ==
  /\ pc[c] = "tsend"
  /\ \/ Room(sid[c]) /\ Enqueue(c) /\ Goto(c, "twait") /\ UNCHANGED cancelled
     \/ /\ closed \/ stop[sid[c]]
        /\ Goto(c, "tdone")
        /\ cancelled' = [cancelled EXCEPT ![c] = TRUE]
        /\ UNCHANGED <<queue, hung>>
  /\ UNCHANGED <<mgrVars, store, stop, rmode, cur, stage, cand, callVars,
                 reply, waits, endVars, crossed, stranded, miscounted, twins>>

(* The second select: the reply, or closing, which cancels the turn and     *)
(* waits for the reply all the same.                                        *)
AfterClosing == "tdone"                                          \* mutant
WaitOnClosing == "tdrain"   \* <-done in the branch of m.closing

WaitTurn(c) ==
  /\ \/ /\ pc[c] \in {"twait", "tdrain"} /\ reply[c] # "none"
        /\ Goto(c, "tdone") /\ UNCHANGED cancelled
     \/ /\ pc[c] = "twait" /\ closed
        /\ Goto(c, WaitOnClosing)
        /\ cancelled' = [cancelled EXCEPT ![c] = TRUE]
  /\ UNCHANGED <<mgrVars, store, runVars, callVars, reply, waits, endVars, ghosts>>

(* close(tc.done) wakes whoever waits for this control.                     *)
CloseDone(c) ==
  /\ pc[c] = "tdone"
  /\ waits' = [d \in Callers |-> waits[d] \ {c}]
  /\ Goto(c, "tdereg")
  /\ UNCHANGED <<mgrVars, store, runVars, callVars, reply, cancelled, endVars, ghosts>>

EntryKept(s, t) == active                                        \* mutant
WithoutTurn(s, t) == IF hasTurns[s] THEN [active EXCEPT ![s][t] = None] ELSE active

Deregister(c) ==
  /\ pc[c] = "tdereg"
  /\ active' = WithoutTurn(sid[c], turn[c])
  /\ twins' = twins \ {c}
  /\ Goto(c, "idle")
  /\ UNCHANGED <<closed, mem, indexed, listed, hasTurns, gauge, store, runVars,
                 callVars, ctlVars, endVars, crossed, stranded, miscounted, hung>>

(* CancelTurn, or the end of the caller's own context.                      *)
Cancel(c) ==
  /\ "cancel" \in Ops
  /\ pc[c] \in TurnPCs /\ ~cancelled[c]
  /\ cancelled' = [cancelled EXCEPT ![c] = TRUE]
  /\ UNCHANGED <<mgrVars, store, runVars, pc, callVars, reply, waits, endVars, ghosts>>

(* The controls in the registry, as CancelAgentTurns and Shutdown collect   *)
(* them; cancelling them all and then waiting for each done.                *)
Controls == {c \in Callers : \E s \in Sids, t \in Turns :
                               hasTurns[s] /\ active[s][t] = c}
CancelAll(c) == /\ waits' = [waits EXCEPT ![c] = Controls]
                /\ cancelled' = [d \in Callers |-> cancelled[d] \/ d \in Controls]

CancelAgentTurns(c) ==
  /\ "cancelAgent" \in Ops /\ pc[c] = "idle"
  /\ op' = [op EXCEPT ![c] = "cancelAgent"]
  /\ CancelAll(c) /\ Goto(c, "await")
  /\ UNCHANGED <<mgrVars, store, runVars, sid, turn, lastState, reply, endVars, ghosts>>

(* It returns once every done is closed, or when its own context expires.   *)
CancelAgentReturn(c) ==
  /\ pc[c] = "await"
  /\ Goto(c, "idle")
  /\ waits' = [waits EXCEPT ![c] = {}]
  /\ UNCHANGED <<mgrVars, store, runVars, callVars, reply, cancelled, endVars, ghosts>>

(***************************************************************************)
(* Create: registers in memory, then writes the snapshot, or rolls back.     *)
(* The session can be listed, used and deleted from its registration on.    *)
(***************************************************************************)
Open(s) == indexed[s] /\ Known(s) /\ mem[s].st # "closed"

CapacityLeft == \/ MaxSessions = 0
                \/ Cardinality({x \in Sids : Open(x)}) < MaxSessions

BeginCreate(c, s) ==
  /\ ~closed /\ CapacityLeft
  /\ rmode[s] = "none"                          \* a fresh id
  /\ Begin(c, "create", s, "cset")
  /\ mem' = [mem EXCEPT ![s] = EmptySession]
  /\ indexed' = [indexed EXCEPT ![s] = TRUE]
  /\ listed' = [listed EXCEPT ![s] = TRUE]
  /\ hasTurns' = [hasTurns EXCEPT ![s] = TRUE]
  /\ rmode' = [rmode EXCEPT ![s] = "loop"]
  /\ UNCHANGED <<closed, active, gauge, store, stop, queue, cur, stage, cand,
                 turn, lastState, waits, endVars, ghosts>>

(* Nobody has changed the session since Create registered it.                *)
Untouched(s) == mem[s] = EmptySession /\ stage[s] \notin {"userMem", "lastMem", "gone"}

CreateSet(c) ==
  /\ pc[c] = "cset"
  /\ \/ /\ store' = [store EXCEPT ![sid[c]] = EmptySession]
        /\ gauge' = GaugeMove("none", "created")
        /\ crossed' = IF Untouched(sid[c]) THEN crossed ELSE crossed \cup {sid[c]}
        /\ Goto(c, "idle")
     \/ "set" \in FailingOps /\ Goto(c, "crollback") /\ UNCHANGED <<store, gauge, crossed>>
  /\ UNCHANGED <<closed, mem, indexed, listed, hasTurns, active, runVars, callVars,
                 ctlVars, endVars, stranded, miscounted, callGhosts>>

RollbackCreate(c) ==
  LET s == sid[c] IN
  /\ pc[c] = "crollback"
  /\ mem' = WithoutSession(s)
  /\ hasTurns' = [hasTurns EXCEPT ![s] = FALSE]
  /\ active' = [active EXCEPT ![s] = [t \in Turns |-> None]]
  /\ indexed' = [indexed EXCEPT ![s] = FALSE]
  /\ listed' = [listed EXCEPT ![s] = FALSE]
  /\ crossed' = IF store[s] = None THEN crossed ELSE crossed \cup {s}
  /\ miscounted' = (miscounted \/ ~Untouched(s))
  /\ Goto(c, IF listed[s] THEN "cstop" ELSE "idle")
  /\ UNCHANGED <<closed, gauge, store, runVars, callVars, ctlVars, endVars,
                 stranded, callGhosts>>

CreateStop(c) ==
  LET s == sid[c] IN
  /\ \/ /\ pc[c] = "cstop"
        /\ CloseStop({s})
        /\ Goto(c, "cwait")
     \/ /\ pc[c] = "cwait" /\ rmode[s] = "exited"
        /\ Goto(c, "idle") /\ UNCHANGED <<panicked, stop>>
  /\ UNCHANGED <<mgrVars, store, rmode, queue, cur, stage, cand, callVars,
                 ctlVars, toStop, shut, ghosts>>

(***************************************************************************)
(* Shutdown.  Only the first call does something; the caller's context may  *)
(* expire at both waits.  (The hubs it closes are SessionHub's subject.)    *)
(***************************************************************************)
Shutdown(c) ==
  /\ "shutdown" \in Ops /\ pc[c] = "idle" /\ ~closed
  /\ op' = [op EXCEPT ![c] = "shutdown"]
  /\ closed' = TRUE
  /\ toStop' = {s \in Sids : listed[s]}
  /\ shut' = "running"
  /\ Goto(c, "scancel")
  /\ UNCHANGED <<mem, indexed, listed, hasTurns, active, gauge, store, runVars, sid, turn,
                 lastState, ctlVars, panicked, ghosts>>

CancelAllTurns(c) ==
  /\ pc[c] = "scancel" /\ CancelAll(c) /\ Goto(c, "swait")
  /\ UNCHANGED <<mgrVars, store, runVars, callVars, reply, endVars, ghosts>>

StopRunners(c) ==
  /\ pc[c] = "swait" /\ waits[c] = {}
  /\ CloseStop(toStop)
  /\ Goto(c, "sjoin")
  /\ UNCHANGED <<mgrVars, store, rmode, queue, cur, stage, cand, callVars,
                 ctlVars, toStop, shut, ghosts>>

NotWaited == TRUE                                                \* mutant
RunnersGone == \A s \in toStop : rmode[s] = "exited"

ShutdownReturn(c) ==
  /\ \/ pc[c] = "sjoin" /\ RunnersGone /\ shut' = "ok"
     \/ pc[c] \in {"swait", "sjoin"} /\ shut' = "expired"
  /\ Goto(c, "idle")
  /\ waits' = [waits EXCEPT ![c] = {}]
  /\ UNCHANGED <<mgrVars, store, runVars, callVars, reply, cancelled, toStop,
                 panicked, ghosts>>

(***************************************************************************)
(* The runner: takes tasks in FIFO order; after stop it drains what is      *)
(* queued and exits.                                                        *)
(***************************************************************************)
TakeTask(s) ==
  /\ rmode[s] \in {"loop", "drain"} /\ cur[s] = None /\ queue[s] # <<>>
  /\ cur' = [cur EXCEPT ![s] = Head(queue[s])]
  /\ queue' = [queue EXCEPT ![s] = Tail(@)]
  /\ stage' = [stage EXCEPT ![s] = "start"]
  /\ UNCHANGED <<mgrVars, store, stop, rmode, cand, pc, callVars, ctlVars, endVars, ghosts>>

ExitUndrained(s) ==                                               \* mutant
  /\ cur[s] = None /\ rmode[s] = "loop" /\ stop[s]
  /\ rmode' = [rmode EXCEPT ![s] = "exited"]
  /\ UNCHANGED <<mgrVars, store, stop, queue, cur, stage, cand, pc, callVars,
                 ctlVars, endVars, ghosts>>

SeeStop(s) ==
  /\ cur[s] = None
  /\ \/ rmode[s] = "loop" /\ stop[s] /\ rmode' = [rmode EXCEPT ![s] = "drain"]
     \/ /\ rmode[s] = "drain" /\ queue[s] = <<>>
        /\ rmode' = [rmode EXCEPT ![s] = "exited"]
  /\ UNCHANGED <<mgrVars, store, stop, queue, cur, stage, cand, pc, callVars,
                 ctlVars, endVars, ghosts>>

(* The task returns r to its caller, and the runner is free again.          *)
Finish(s, r) ==
  /\ reply' = [reply EXCEPT ![cur[s]] = r]
  /\ cur' = [cur EXCEPT ![s] = None]
  /\ stage' = [stage EXCEPT ![s] = "none"]
  /\ cand' = [cand EXCEPT ![s] = None]

Running(s, o, st) == cur[s] # None /\ op[cur[s]] = o /\ stage[s] = st

Write(s, new) == store' = [store EXCEPT ![s] = new] /\ crossed' = crossed \ {s}
NoWrite == UNCHANGED <<store, crossed>>

StoreSetIgnoringError(s, new, next) ==                            \* mutant
  /\ Write(s, new) \/ ("set" \in FailingOps /\ NoWrite)
  /\ cand' = [cand EXCEPT ![s] = [new |-> new, from |-> mem[s].st]]
  /\ stage' = [stage EXCEPT ![s] = next]
  /\ UNCHANGED <<reply, cur>>

(* commit, first half: Storage.Set of the candidate, or ErrPersistenceFailed *)
StoreSet(s, new, next) ==
  \/ /\ Write(s, new)
     /\ cand' = [cand EXCEPT ![s] = [new |-> new, from |-> mem[s].st]]
     /\ stage' = [stage EXCEPT ![s] = next]
     /\ UNCHANGED <<reply, cur>>
  \/ "set" \in FailingOps /\ Finish(s, "err") /\ NoWrite

GaugeUnmoved(from, to) == gauge                                   \* mutant
GaugeCommit(from, to) == GaugeMove(from, to)

(* commit, second half: the candidate replaces the session in memory.  The  *)
(* gauge follows the change of state the candidate was computed with.       *)
Commit(s) ==
  /\ cur[s] # None /\ stage[s] \in {"userMem", "lastMem"}
  /\ mem' = [mem EXCEPT ![s] = cand[s].new]
  /\ gauge' = GaugeCommit(cand[s].from, cand[s].new.st)
  /\ IF stage[s] = "userMem"
       THEN /\ stage' = [stage EXCEPT ![s] = "final"]
            /\ cand' = [cand EXCEPT ![s] = None]
            /\ UNCHANGED <<reply, cur>>
       ELSE Finish(s, "ok")
  /\ UNCHANGED <<closed, indexed, listed, hasTurns, active, store, stop, rmode, queue,
                 pc, callVars, cancelled, waits, endVars, ghosts>>

taskRest == <<mgrVars, stop, rmode, queue, pc, callVars, cancelled, waits, endVars,
              stranded, miscounted, callGhosts>>

(* The task of RunTurn: not run when cancelled in the queue or deleted.     *)
TurnStart(s) ==
  /\ Running(s, "turn", "start")
  /\ IF cancelled[cur[s]] \/ ~Known(s)
       THEN Finish(s, "err")
       ELSE stage' = [stage EXCEPT ![s] = "user"] /\ UNCHANGED <<reply, cur, cand>>
  /\ NoWrite /\ UNCHANGED taskRest

(* Turn.AppendUser: refuses a turn id that the history already has.         *)
NeverUsed(s, t) == FALSE                                         \* mutant
TurnUsed(s, t) == \E i \in DOMAIN mem[s].msgs : mem[s].msgs[i].turn = t

AppendUser(s) ==
  LET t == turn[cur[s]]
      new == [st |-> IF mem[s].st = "created" THEN "active" ELSE mem[s].st,
              msgs |-> Append(mem[s].msgs, Msg(t, "user"))]
  IN
  /\ Running(s, "turn", "user")
  /\ IF ~Known(s) \/ TurnUsed(s, t)
       THEN Finish(s, "err") /\ NoWrite
       ELSE StoreSet(s, new, "userMem")
  /\ UNCHANGED taskRest

(* Turn.Append of the final answer.                                         *)
AppendFinal(s) ==
  /\ Running(s, "turn", "final")
  /\ IF ~Known(s)
       THEN Finish(s, "err") /\ NoWrite
       ELSE StoreSet(s, [mem[s] EXCEPT !.msgs = Append(@, Msg(turn[cur[s]], "final"))],
                     "lastMem")
  /\ UNCHANGED taskRest

(* The callback gives up: a failed provider or tool, or a cancelled context. *)
CallbackFails(s) ==
  /\ Running(s, "turn", "user") \/ Running(s, "turn", "final")
  /\ Finish(s, "err")
  /\ NoWrite /\ UNCHANGED taskRest

(* The tasks of Pause and Close: one transition, committed.                 *)
Target(o) == IF o = "pause" THEN "paused" ELSE "closed"

Transition(s) ==
  LET o == op[cur[s]] IN
  /\ Running(s, "pause", "start") \/ Running(s, "close", "start")
  /\ IF ~Known(s) \/ ~StateAllowed(o, mem[s].st) \/ ~CanTransition(mem[s].st, Target(o))
       THEN /\ Finish(s, IF o = "close" /\ Known(s) THEN "ok" ELSE "err")
            /\ NoWrite
       ELSE StoreSet(s, [mem[s] EXCEPT !.st = Target(o)], "lastMem")
  /\ UNCHANGED taskRest

(* The task of Delete: the snapshot, then the session and its turns.        *)
DeleteSnapshot(s) ==
  /\ Running(s, "delete", "start")
  /\ \/ /\ Write(s, None)
        /\ stage' = [stage EXCEPT ![s] = "gone"]
        /\ UNCHANGED <<reply, cur, cand>>
     \/ "delete" \in FailingOps /\ Finish(s, "err") /\ NoWrite
  /\ UNCHANGED taskRest

DeleteSession(s) ==
  /\ Running(s, "delete", "gone")
  /\ mem' = WithoutSession(s)
  /\ indexed' = [indexed EXCEPT ![s] = FALSE]
  /\ hasTurns' = [hasTurns EXCEPT ![s] = FALSE]
  /\ active' = [active EXCEPT ![s] = [t \in Turns |-> None]]
  /\ gauge' = GaugeMove(lastState[cur[s]], "none")
  /\ miscounted' = (miscounted \/ ~Known(s) \/ mem[s].st # lastState[cur[s]])
  /\ Finish(s, "ok")
  /\ UNCHANGED <<closed, listed, store, stop, rmode, queue, pc, callVars,
                 cancelled, waits, endVars, crossed, stranded, callGhosts>>

RunTask(s) == \/ TurnStart(s) \/ AppendUser(s) \/ AppendFinal(s) \/ CallbackFails(s)
              \/ Transition(s) \/ DeleteSnapshot(s) \/ DeleteSession(s) \/ Commit(s)

BeginCall(c) ==
  \/ \E s \in Sids :
       \/ \E o \in Ops : BeginTask(c, o, s)
       \/ BeginDelete(c, s) \/ BeginCreate(c, s)
       \/ \E t \in Turns : BeginTurn(c, s, t)
  \/ CancelAgentTurns(c) \/ Shutdown(c)

(* The steps of a call under way that its goroutine takes by itself.        *)
Proceed(c) ==
  \/ Lookup(c) \/ Wait(c) \/ DeleteStop(c) \/ DeleteWait(c)
  \/ Reserve(c) \/ Register(c) \/ WaitTurn(c) \/ CloseDone(c) \/ Deregister(c)
  \/ CreateSet(c) \/ RollbackCreate(c) \/ CreateStop(c)
  \/ CancelAgentReturn(c) \/ CancelAllTurns(c) \/ StopRunners(c) \/ ShutdownReturn(c)

(* A panic ends the process, or leaves mu locked for ever where net/http    *)
(* recovers it: nothing is left to say about the Manager.                   *)
Next == /\ panicked = "no"
        /\ \/ \E c \in Callers : BeginCall(c) \/ Proceed(c) \/ Send(c) \/ SendTurn(c)
                                 \/ Cancel(c)
           \/ \E s \in Sids : TakeTask(s) \/ SeeStop(s) \/ RunTask(s)

(* Goroutines keep running, a Storage call and a callback return, and Go    *)
(* serves the senders blocked on a channel in their order of arrival.       *)
Fairness == /\ \A c \in Callers : WF_vars(Proceed(c)) /\ SF_vars(Send(c) \/ SendTurn(c))
            /\ \A s \in Sids : WF_vars(TakeTask(s)) /\ WF_vars(SeeStop(s))
                               /\ WF_vars(RunTask(s))

Spec == Init /\ [][Next]_vars
FairSpec == Spec /\ Fairness
-----------------------------------------------------------------------------
ManagerTypes ==
  /\ closed \in BOOLEAN
  /\ mem \in [Sids -> Snapshots] /\ store \in [Sids -> Snapshots]
  /\ indexed \in [Sids -> BOOLEAN]
  /\ listed \in [Sids -> BOOLEAN] /\ hasTurns \in [Sids -> BOOLEAN]
  /\ active \in [Sids -> [Turns -> Callers \cup {None}]]
  /\ gauge \in [States -> Int]
RunnerTypes ==
  /\ stop \in [Sids -> BOOLEAN]
  /\ rmode \in [Sids -> {"none", "loop", "drain", "exited"}]
  /\ queue \in [Sids -> Seq(Callers)]
  /\ \A s \in Sids : Len(queue[s]) <= QueueCap
  /\ cur \in [Sids -> Callers \cup {None}]
  /\ stage \in [Sids -> {"none", "start", "user", "userMem", "final", "lastMem", "gone"}]
  /\ cand \in [Sids -> Candidates \cup {None}]
CallerTypes ==
  /\ pc \in [Callers -> {"idle", "lookup", "send", "wait", "delstop", "delwait",
                         "reserve", "register", "await", "scancel", "swait", "sjoin"}
                        \cup TurnPCs \cup CreatePCs]
  /\ op \in [Callers -> AllOps \cup {"none"}]
  /\ sid \in [Callers -> Sids \cup {None}] /\ turn \in [Callers -> Turns \cup {None}]
  /\ reply \in [Callers -> {"none", "ok", "err"}]
  /\ cancelled \in [Callers -> BOOLEAN]
  /\ waits \in [Callers -> SUBSET Callers]
  /\ lastState \in [Callers -> States \cup {"none"}]
EndTypes ==
  /\ toStop \subseteq Sids
  /\ shut \in {"no", "running", "ok", "expired"}
  /\ panicked \in {"no", "closeTwice", "nilMap"}
  /\ crossed \subseteq Sids /\ stranded \subseteq Sids /\ miscounted \in BOOLEAN
  /\ twins \subseteq Callers /\ hung \subseteq Callers
TypeOK == ManagerTypes /\ RunnerTypes /\ CallerTypes /\ EndTypes

(* Complete turns go through the FIFO gate one after the other: in memory    *)
(* and in the snapshot, an answer follows its own user message at once, and  *)
(* no turn id has two user messages, even if two calls were admitted with it. *)
Serial(h) ==
  \A i \in DOMAIN h :
    /\ h[i].role = "final" => i > 1 /\ h[i - 1] = Msg(h[i].turn, "user")
    /\ \A j \in DOMAIN h : h[i] = h[j] => i = j
TurnsSerial == \A s \in Sids : /\ Known(s) => Serial(mem[s].msgs)
                              /\ store[s] # None => Serial(store[s].msgs)

(* What a crash would restore is what readers see: between the two halves of  *)
(* a commit the snapshot is one candidate ahead, and a failed Set or Delete    *)
(* leaves both as they were.  Excepted are a session whose first snapshot is   *)
(* still to be written, while nobody has changed it, and one whose Create wrote *)
(* the snapshot, or gave up, after other calls had changed the session, until  *)
(* the next commit (lifecycle.go:79-106).                                      *)
Settled(s) ==
  store[s] = CASE stage[s] \in {"userMem", "lastMem"} -> cand[s].new
               [] stage[s] = "gone" -> None
               [] OTHER -> mem[s]
Creating(s) == \E c \in Callers : pc[c] \in {"cset", "crollback"} /\ sid[c] = s
Pending(s) == Creating(s) /\ Untouched(s) /\ store[s] = None
StoreIsMemory == \A s \in Sids : Settled(s) \/ Pending(s) \/ s \in crossed

(* A call that has given up or returned leaves no task with a runner: none   *)
(* can write for a caller that is gone.  In particular a turn whose done is  *)
(* closed, which is what CancelAgentTurns waits for, writes nothing any more. *)
NothingLeftBehind ==
  \A c \in Callers : pc[c] \notin {"wait", "twait", "tdrain"} =>
    \A s \in Sids : cur[s] # c /\ \A i \in DOMAIN queue[s] : queue[s][i] # c

(* The registry lists the turns in flight: what it lists runs under that very *)
(* id, so CancelTurn never hits another call, and what runs is listed, so that *)
(* CancelTurn, CancelAgentTurns and Shutdown reach it.  Excepted are calls that *)
(* were admitted under one id at the same time, of which the first to return   *)
(* deletes the entry of the other (runturn.go:98-102), and the turns of a      *)
(* session that Delete or the roll-back of Create has taken out of the index.  *)
RegistryTruthful ==
  \A s \in Sids, t \in Turns : \A c \in Callers :
    active[s][t] = c => pc[c] \in TurnPCs /\ sid[c] = s /\ turn[c] = t
RegistryComplete ==
  \A c \in Callers : pc[c] \in TurnPCs =>
    \/ hasTurns[sid[c]] /\ active[sid[c]][turn[c]] = c
    \/ c \in twins \/ ~indexed[sid[c]]

(* A commit of the old runner has brought a session back that the roll-back of *)
(* its Create had removed: it is in Manager.sessions and nowhere else.          *)
Revived(s) == Known(s) /\ ~indexed[s]

(* Every known session can be operated on: it has a runner that takes tasks.   *)
(* Excepted are a revived session and one whose Delete failed in Storage.       *)
RunnerAlive ==
  \A s \in Sids : Known(s) /\ ~closed =>
    \/ listed[s] /\ ~stop[s] /\ rmode[s] = "loop"
    \/ Revived(s) \/ s \in stranded

(* Once Shutdown has returned nil no runner writes: only a Create that began    *)
(* before may still write its first snapshot.  Excepted are the runners that    *)
(* Shutdown cannot know: those a failed Delete or a roll-back had taken out of  *)
(* the map with tasks still to do for a session that is there, in memory or in  *)
(* a snapshot written late.                                                     *)
QuietAfterShutdown ==
  [][shut = "ok" => \A s \in Sids : store'[s] # store[s] =>
       \/ \E c \in Callers : pc[c] = "cset" /\ sid[c] = s
       \/ s \in stranded \/ Revived(s) \/ s \in crossed]_vars

(* The gauge counts the sessions, whenever no call is under way, unless a       *)
(* Delete has subtracted a state the session no longer had, or was the second   *)
(* to delete it, or a Create has rolled back a session others had changed.      *)
GaugeExact ==
  (\A c \in Callers : pc[c] = "idle") /\ ~miscounted =>
    \A st \in States :
      gauge[st] = Cardinality({s \in Sids : Known(s) /\ mem[s].st = st})

(* Snapshot and memory agree when nobody works: a failed Create leaves nothing  *)
(* half made, a Delete nothing behind, unless the Create crossed with others.    *)
StoreSettles ==
  (\A c \in Callers : pc[c] = "idle") =>
    \A s \in Sids : store[s] = mem[s] \/ s \in crossed

(* max_sessions_per_agent bounds the sessions that are not closed, or Restore    *)
(* found more of them.  (A revived session is in nobody's count.)                *)
CapacityKept ==
  MaxSessions > 0 => LET open == Cardinality({s \in Sids : Open(s)})
                     IN  open <= MaxSessions \/ open <= Cardinality(Restored)

(* Whoever calls the Manager gets an answer, also from a runner that is told to  *)
(* stop with tasks in its queue.  Two calls do not: one whose task went to a     *)
(* runner that had already exited (manager.go:392), and whoever is under way at  *)
(* the panic of RunTurn or Shutdown, which ends the process or keeps mu locked.   *)
EveryCallReturns ==
  \A c \in Callers : (pc[c] # "idle") ~> (pc[c] = "idle" \/ c \in hung \/ panicked # "no")

(* The books of the Manager: whatever calls overlap, fail or are cancelled, what *)
(* it lists is what runs and what it counts is what there is, but for the cases  *)
(* that the three parts name.                                                    *)
BooksExact == TypeOK /\ RegistryTruthful /\ RegistryComplete /\ GaugeExact

(* No session is half there, but for the cases the three parts name: known       *)
(* sessions have live runners, never more than the capacity of them open, and a  *)
(* failed Create or Delete leaves memory and Storage alike.                      *)
SessionsWhole == RunnerAlive /\ CapacityKept /\ StoreSettles
=============================================================================
