--------------------------- MODULE SessionLifecycle ---------------------------
(* The life of sessions across time and restarts (internal/session): policy,  *)
(* TTL and max_lifetime, the periodic cleanup, message deletion, crashes and  *)
(* Restore.  SessionRunner shows that the tasks of one session run one after  *)
(* the other and that a commit is atomic, so a task is one step here, except  *)
(* a turn, which lasts.  Instants are in the unit of SessionState; a session  *)
(* id is its rank in the order in which Restore reads the keys.               *)
EXTENDS SessionState, Sequences, FiniteSets

CONSTANTS
  Sids,         \* session ids, never handed out twice
  Policies,     \* resolved policies [ttl, life, persist] a Create may ask for
  Turns,        \* turn ids clients send
  Prefixed,     \* those of them that begin with "turn_"
  Calls,        \* tool call ids, which a provider may use again in a later unit
  MaxMessages,  \* policy.MaxMessages
  FailingOps,   \* Storage operations that may return an error
  None,         \* no session, no turn
  MaxClock, MaxFailures, MaxRestarts   \* bounds of the exploration

Roles == {"user", "assistant", "tool"}
Messages == [role : Roles, turn : Turns, calls : SUBSET Calls, call : Calls \cup {None}]
Sessions == [st : States, createdAt : Nat, lastActivity : Nat, policy : Policies, msgs : Seq(Messages)]

ASSUME LifecycleAssumption ==
  /\ Sids \subseteq Nat /\ Prefixed \subseteq Turns /\ IsFiniteSet(Calls)
  /\ Policies \subseteq [ttl : Nat, life : Nat, persist : BOOLEAN]
  /\ None \notin Calls /\ None \notin Turns /\ None \notin Sessions
  /\ FailingOps \subseteq {"set", "delete", "get"}
  /\ {MaxMessages, MaxClock, MaxFailures, MaxRestarts} \subseteq Nat

VARIABLES
  up,        \* Restore has succeeded and the process runs
  mem,       \* mem[s]: Manager.sessions[s], or None
  store,     \* store[s]: the snapshot in Storage, or None
  served,    \* served[s]: s has a runner
  turn,      \* turn[s]: the turn the runner of s executes, or None
  clock,
  ticks,     \* cleanup tasks enqueued: the session and the `now' of their tick
  issued,    \* session ids handed out
  failures, restarts,
  busy       \* ghost: busy[s] is when a client last created, used or resumed s

life == <<up, mem, store, served, turn>>
vars == <<life, clock, ticks, issued, failures, restarts, busy>>

Nowhere == [s \in Sids |-> None]
Nobody == [s \in Sids |-> FALSE]

Init ==
  /\ up = TRUE /\ mem = Nowhere /\ store = Nowhere /\ served = Nobody
  /\ turn = Nowhere /\ clock = 0 /\ ticks = {} /\ issued = {}
  /\ failures = 0 /\ restarts = 0 /\ busy = [s \in Sids |-> 0]

(***************************************************************************)
(* Histories.  A message is [role, turn, calls, call]: an assistant message *)
(* with calls opens them, a tool message answers one.                       *)
(***************************************************************************)
Message(role, t, calls, call) ==
  [role |-> role, turn |-> t, calls |-> calls, call |-> call]
Orders == {f \in [1..Cardinality(Calls) -> Calls] :
             \A c \in Calls : \E i \in DOMAIN f : f[i] = c /\ \A j \in DOMAIN f : f[j] = c => j = i}
Unit(t, order) ==
  <<Message("assistant", t, Calls, None)>>
    \o [n \in DOMAIN order |-> Message("tool", t, {}, order[n])]

Open(h, i) == {c \in Calls : \E j \in 1..i :
                 c \in h[j].calls /\ \A k \in j + 1..i : h[k].call # c}
Paired(h) ==
  /\ Open(h, Len(h)) = {}
  /\ \A i \in DOMAIN h :
       CASE h[i].role = "tool" -> h[i].call \in Open(h, i - 1)
         [] h[i].role # "tool" /\ h[i].calls = {} -> Open(h, i - 1) = {}
         [] OTHER -> TRUE
ValidHistory(h) == Paired(h) /\ (h # <<>> => h[1].role = "user")

(* What DeleteMessage removes with message i: its tool unit, if it has one.  *)
Answers(h, i) == {j \in i + 1..Len(h) :
                    \A k \in i + 1..j : h[k].role = "tool" /\ h[k].call \in h[i].calls}
Caller(h, i) == {a \in 1..i - 1 : /\ h[a].role # "tool" /\ h[i].call \in h[a].calls
                                  /\ \A k \in a + 1..i - 1 : h[k].role = "tool"}
MessageOnly(h, i) == {i}                                          \* mutant
DeletedWith(h, i) ==
  IF h[i].role = "tool"
    THEN {i} \cup UNION {{a} \cup Answers(h, a) : a \in Caller(h, i)}
    ELSE {i} \cup Answers(h, i)
Without(h, D) ==
  LET left == DOMAIN h \ D
      Nth(n) == CHOOSE i \in left : Cardinality({j \in left : j <= i}) = n
  IN  [n \in 1..Cardinality(left) |-> h[Nth(n)]]

Unused(h, t) == FALSE                                           \* mutant
TurnUsed(h, t) == \E i \in DOMAIN h : h[i].turn = t
Fits(h) == Len(h) <= MaxMessages

(* decodeSnapshot: used_turn_ids holds the turns of the user messages.       *)
UserAt(h) == {i \in DOMAIN h : h[i].role = "user"}
Decodable(x) ==
  /\ ValidPolicy(x.policy) /\ ValidHistory(x.msgs)
  /\ \A i \in DOMAIN x.msgs : x.msgs[i].turn \in Prefixed
  /\ \A i, j \in UserAt(x.msgs) : x.msgs[i].turn = x.msgs[j].turn => i = j

(***************************************************************************)
(* commit in a task of s: Storage.Set, then memory.  Set may return an      *)
(* error, or the process may die between the two.  t is the turn that goes  *)
(* on after a success, b whether the change is an activity of a client.     *)
(***************************************************************************)
Die == /\ restarts < MaxRestarts /\ restarts' = restarts + 1
       /\ up' = FALSE /\ mem' = Nowhere /\ served' = Nobody
       /\ turn' = Nowhere /\ ticks' = {}

Written(s, x) == IF x.policy.persist THEN [store EXCEPT ![s] = x] ELSE store
Commit(s, x, t, b) ==
  \/ /\ mem' = [mem EXCEPT ![s] = x] /\ store' = Written(s, x)
     /\ turn' = [turn EXCEPT ![s] = t]
     /\ busy' = IF b THEN [busy EXCEPT ![s] = clock] ELSE busy
     /\ UNCHANGED <<up, failures, restarts>>
  \/ /\ x.policy.persist /\ "set" \in FailingOps /\ failures < MaxFailures
     /\ failures' = failures + 1
     /\ turn' = [turn EXCEPT ![s] = None]
     /\ UNCHANGED <<up, mem, store, restarts, busy>>

CommitOrDie(s, x, t, b) ==
  \/ Commit(s, x, t, b) /\ UNCHANGED <<served, ticks>>
  \/ /\ x.policy.persist /\ Die /\ store' = Written(s, x)
     /\ busy' = IF b THEN [busy EXCEPT ![s] = clock] ELSE busy
     /\ UNCHANGED failures

(* The task of a call on s is executed: s exists and its runner is free.     *)
Task(s) == up /\ served[s] /\ mem[s] # None /\ turn[s] = None
Change(s, x, t, b) == CommitOrDie(s, x, t, b) /\ UNCHANGED <<clock, issued>>

(***************************************************************************)
(* Client operations.                                                       *)
(***************************************************************************)
Create(s, p) ==
  LET x == [st |-> "created", createdAt |-> clock, lastActivity |-> clock,
            policy |-> p, msgs |-> <<>>]
  IN
  /\ up /\ s \notin issued /\ ValidPolicy(p)
  /\ issued' = issued \cup {s}
  /\ \/ /\ Commit(s, x, None, TRUE)
        /\ served' = [served EXCEPT ![s] = mem'[s] # None]
        /\ UNCHANGED ticks
     \/ /\ p.persist /\ Die /\ store' = Written(s, x)
        /\ busy' = [busy EXCEPT ![s] = clock] /\ UNCHANGED failures
  /\ UNCHANGED clock

(* RunTurn and its AppendUser: no state is refused.                         *)
AlwaysActive(st) == "active"                                      \* mutant
AfterUser(st) == IF st = "created" THEN "active" ELSE st

Appended(s, more) == [mem[s] EXCEPT !.lastActivity = clock, !.msgs = @ \o more]
BeginTurn(s, t) ==
  LET x == [Appended(s, <<Message("user", t, {}, None)>>) EXCEPT !.st = AfterUser(@)]
  IN  /\ Task(s) /\ ~TurnUsed(mem[s].msgs, t)
      /\ ValidHistory(x.msgs) /\ Fits(x.msgs)
      /\ Change(s, x, t, TRUE)

(* Turn.Append of a tool unit, or of the final answer.                      *)
AppendMore(s, more, t) ==
  /\ turn[s] # None
  /\ ValidHistory(mem[s].msgs \o more) /\ Fits(mem[s].msgs \o more)
  /\ Change(s, Appended(s, more), t, TRUE)
AppendUnit(s) == \E order \in Orders :
                   AppendMore(s, Unit(turn[s], order), turn[s])
AppendFinal(s) == AppendMore(s, <<Message("assistant", turn[s], {}, None)>>, None)

(* The callback returns an error: refused by Append, cancelled, failed.      *)
TurnFails(s) ==
  /\ turn[s] # None /\ turn' = [turn EXCEPT ![s] = None]
  /\ UNCHANGED <<up, mem, store, served, clock, ticks, issued, failures, restarts, busy>>

Moved(s, st) == [mem[s] EXCEPT !.st = st]
Pause(s) == /\ Task(s) /\ StateAllowed("pause", mem[s].st)
            /\ Change(s, Moved(s, "paused"), None, FALSE)
Resumed(x) == [x EXCEPT !.st = "active", !.lastActivity = clock]
Resume(s) == /\ Task(s) /\ StateAllowed("resume", mem[s].st)
             /\ ~LifetimeOver(mem[s], clock)
             /\ Change(s, Resumed(mem[s]), None, TRUE)
Close(s) == /\ Task(s) /\ mem[s].st # "closed"
            /\ Change(s, Moved(s, "closed"), None, FALSE)

(* Delete stops the runner whatever Storage.Delete answered.                *)
Delete(s) ==
  /\ Task(s) /\ served' = [served EXCEPT ![s] = FALSE]
  /\ \/ /\ mem' = [mem EXCEPT ![s] = None] /\ store' = [store EXCEPT ![s] = None]
        /\ UNCHANGED failures
     \/ /\ mem[s].policy.persist /\ "delete" \in FailingOps /\ failures < MaxFailures
        /\ failures' = failures + 1 /\ UNCHANGED <<mem, store>>
  /\ UNCHANGED <<up, turn, clock, ticks, issued, restarts, busy>>

DeleteMessage(s, i) ==
  LET h == Without(mem[s].msgs, DeletedWith(mem[s].msgs, i)) IN
  /\ Task(s) /\ StateAllowed("delete_message", mem[s].st)
  /\ ValidHistory(h)
  /\ Change(s, [mem[s] EXCEPT !.msgs = h], None, FALSE)

ClearMessages(s) ==
  /\ Task(s) /\ StateAllowed("clear_messages", mem[s].st) /\ mem[s].msgs # <<>>
  /\ Change(s, [mem[s] EXCEPT !.msgs = <<>>], None, FALSE)

(***************************************************************************)
(* Time, cleanup, crash and restore.                                        *)
(***************************************************************************)
Advance == /\ clock < MaxClock /\ clock' = clock + 1
           /\ UNCHANGED <<life, ticks, issued, failures, restarts, busy>>

(* cleanupOnce: one task per session, all with the `now' of the tick; each   *)
(* goes through the FIFO gate and may wait there behind a turn.              *)
SweptIdle == {s \in Sids : mem[s] # None /\ mem[s].st \in {"created", "active"}}  \* mutant
Swept == {s \in Sids : mem[s] # None}
Tick == /\ up /\ ticks' = ticks \cup {[sid |-> s, now |-> clock] : s \in Swept}
        /\ UNCHANGED <<life, clock, issued, failures, restarts, busy>>

Cleanup(s) == \E k \in ticks :
  LET st == DesiredState(mem[s], k.now) IN
  /\ k.sid = s /\ turn[s] = None
  /\ ticks' = ticks \ {k}
  /\ IF served[s] /\ mem[s] # None /\ st # mem[s].st
       THEN Commit(s, Moved(s, st), None, FALSE) /\ UNCHANGED served
       ELSE UNCHANGED <<life, failures, restarts, busy>>
  /\ UNCHANGED <<clock, issued>>

(* The process dies; or Shutdown ends it, once its turns have returned.      *)
Crash == up /\ Die /\ UNCHANGED <<store, clock, issued, failures, busy>>

(* Restore reads the keys in order, writes the snapshots whose state must     *)
(* change, and publishes all of them, or fails as a whole at the first key    *)
(* it cannot decode or write; what it has written by then stays.              *)
AsOf(x) == [x EXCEPT !.st = DesiredState(x, clock)]
Overridden(S) == [s \in Sids |-> IF s \in S THEN AsOf(store[s]) ELSE store[s]]
Snapshots == {s \in Sids : store[s] # None}
Undecodable == {s \in Snapshots : ~Decodable(store[s])}
Restore ==
  /\ ~up /\ Undecodable = {}
  /\ up' = TRUE /\ store' = Overridden(Snapshots) /\ mem' = store'
  /\ served' = [s \in Sids |-> s \in Snapshots]
  /\ UNCHANGED <<turn, clock, ticks, issued, failures, restarts, busy>>
RestoreFails == \E s \in Snapshots :
  LET before == {x \in Snapshots : x < s} IN
  /\ ~up /\ before \cap Undecodable = {}
  /\ \/ s \in Undecodable /\ UNCHANGED failures
     \/ /\ \/ "get" \in FailingOps
           \/ "set" \in FailingOps /\ AsOf(store[s]) # store[s]
        /\ failures < MaxFailures /\ failures' = failures + 1
  /\ store' = Overridden(before)
  /\ UNCHANGED <<up, mem, served, turn, clock, ticks, issued, restarts, busy>>

Client(s) ==
  \/ \E p \in Policies : Create(s, p)
  \/ \E t \in Turns : BeginTurn(s, t)
  \/ Pause(s) \/ Resume(s) \/ Close(s) \/ Delete(s) \/ ClearMessages(s)
  \/ mem[s] # None /\ \E i \in DOMAIN mem[s].msgs : DeleteMessage(s, i)
TurnStep(s) == AppendUnit(s) \/ AppendFinal(s) \/ TurnFails(s)

Next == \/ \E s \in Sids : Client(s) \/ TurnStep(s) \/ Cleanup(s)
        \/ Advance \/ Tick \/ Crash \/ Restore \/ RestoreFails

(* The ticker fires again and again, a turn ends, a cleanup task gets its     *)
(* turn at the FIFO gate, and a process that died is started again.           *)
Fairness == /\ WF_vars(Tick) /\ WF_vars(Restore)
            /\ \A s \in Sids : WF_vars(TurnStep(s)) /\ SF_vars(Cleanup(s))
Spec == Init /\ [][Next]_vars
FairSpec == Spec /\ Fairness
-----------------------------------------------------------------------------
Session(x) ==
  /\ x.st \in States /\ x.createdAt \in 0..clock /\ x.lastActivity \in x.createdAt..clock
  /\ x.policy \in Policies /\ Len(x.msgs) <= MaxMessages

(* Sessions and snapshots have their shape and their bound; a turn runs only  *)
(* in a served session of a running process.                                 *)
TypeOK ==
  /\ up \in BOOLEAN /\ clock \in 0..MaxClock /\ issued \subseteq Sids
  /\ \A s \in Sids : /\ mem[s] # None => Session(mem[s]) /\ up
                     /\ store[s] # None => Session(store[s]) /\ s \in issued
                     /\ turn[s] # None => served[s] /\ mem[s] # None
  /\ ticks \subseteq [sid : issued, now : 0..clock]

(* One snapshot that Restore refuses keeps every session from coming back.    *)
(* Whatever is written, the next start can read, but for one thing: a turn id *)
(* that does not begin with "turn_" is accepted and stored like any other     *)
(* (docs/remote-api/conversation.md:141 allows it), and a snapshot that holds *)
(* one is refused.  A session whose foreign turns have been deleted is whole. *)
Foreign(x) == \E i \in DOMAIN x.msgs : x.msgs[i].turn \notin Prefixed
Restorable == Undecodable = {s \in Snapshots : Foreign(store[s])}

(* DeleteMessage removes tool units whole: from any history, with any of its  *)
(* messages, what is left still pairs every call with its result.             *)
UnitsDeletedWhole ==
  \A s \in Sids : mem[s] # None =>
    LET h == mem[s].msgs IN \A i \in DOMAIN h : Paired(Without(h, DeletedWith(h, i)))

(* Only idle sessions are paused for being idle: neither a cleanup whose      *)
(* `now' is old by the time its task runs, nor a Restore, pauses a session    *)
(* that a client used or resumed less than a TTL ago.                         *)
Was(s) == IF up THEN mem[s] ELSE store[s]
PausedOnlyWhenIdle ==
  [][\A s \in Sids :
       /\ mem'[s] # None /\ Was(s) # None /\ (ticks' # ticks \/ ~up)
       /\ mem'[s].st = "paused" /\ Was(s).st # "paused"
       => clock >= busy[s] + Was(s).policy.ttl]_vars

(* A closed session never opens again, whatever turns RunTurn lets into it,   *)
(* and a restart does not reopen it.                                          *)
ClosedForGood ==
  [][\A s \in Sids : Was(s) # None /\ Was(s).st = "closed"
       => \A x \in {mem'[s], store'[s]} : x # None => x.st = "closed"]_vars

(* Histories stay whole: whatever was written, edited or interrupted, every   *)
(* snapshot without a foreign turn can be read again, and every tool call     *)
(* keeps its result.                                                         *)
HistoriesWhole == TypeOK /\ Restorable /\ UnitsDeletedWhole

(* No step of cleanup, Restore, a turn or a client changes the state of a     *)
(* session against the rules of its policy.                                   *)
StatesByRule == PausedOnlyWhenIdle /\ ClosedForGood

(* TTL and max_lifetime take effect: a served session whose time is up is     *)
(* paused or closed, used again or deleted, whatever failed meanwhile.        *)
Overdue(s) == up /\ served[s] /\ mem[s] # None /\ DesiredState(mem[s], clock) # mem[s].st
TimeIsEnforced == \A s \in Sids : Overdue(s) ~> ~Overdue(s)
=============================================================================
