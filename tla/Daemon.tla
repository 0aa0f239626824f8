------------------------------- MODULE Daemon -------------------------------
(* The program as a whole: internal/runtime brings the components up one    *)
(* after the other, rolls back when one fails, and takes them down with a   *)
(* deadline; internal/api serves a session to an SSE client, a WebSocket    *)
(* client and REST callers meanwhile.  Handlers, turn goroutines, the runner*)
(* of the session and Shutdown interleave.  Hub, runner and turn are here as*)
(* far as the others depend on them; SessionHub, SessionRunner and AgentTurn*)
(* have their insides.                                                      *)
EXTENDS Integers, Sequences, FiniteSets

CONSTANTS WsTurns,      \* message frames of the WebSocket client
          RestTurns,    \* POSTs of REST clients
          Clients,      \* subscribers of the hub: "sse", "ws"
          MaxStray      \* bound: error frames with a turn's id that are not its own

Turns == WsTurns \cup RestTurns
ASSUME DaemonAssumption ==
  Clients = {"sse", "ws"} /\ WsTurns \cap RestTurns = {} /\ MaxStray \in Nat

VARIABLES
  phase,      \* "start", "failed", "ready", "stop", "exited"
  step,       \* how far Start, the roll-back, or Shutdown has come
  absent,     \* subsystems the configuration turns off
  open,       \* what holds files, goroutines or processes: components, "upstreams"
  held,       \* fields of Runtime that are set
  expired,    \* the deadline of Shutdown has passed
  accepting,  \* the listener is open
  smClosed,   \* session.Manager.closed, and closing
  amClosed,   \* agent.Manager.closed
  chan,       \* chan[c]: events of a subscriber: "none", "open", "closed"
  sse, ws,    \* where the two handlers are
  mine,       \* wsConn.turns
  turn,       \* turn[t]: where a turn is
  cancelled,  \* turns whose context is done
  line,       \* tasks of the session's runner, the first one running
  active,     \* Manager.activeTurns
  ok,         \* turns whose callback returned nil
  told        \* told[t][f]: frames sent with the id of a turn that end it, or seem to

run == <<phase, step, absent, open, held, expired>>
mgr == <<smClosed, amClosed>>
conn == <<sse, ws, mine>>
work == <<turn, cancelled, line, active, ok, told>>
vars == <<run, accepting, mgr, chan, conn, work>>

Stages == <<"store", "provider", "memory", "tool", "skill", "agent", "session",
            "auth", "mcp", "introspection", "api">>
Components == {"store", "provider", "memory", "session", "mcp", "api"}
(* assistant_done, the error a turn has ended with, and errors the connection*)
(* writes with its id because of a frame of the client.                      *)
Frames == {"done", "error", "stray"}
Init ==
  /\ phase = "start" /\ step = 1 /\ absent \in {{}, {"memory"}}
  /\ open = {} /\ held = {} /\ expired = FALSE /\ accepting = FALSE
  /\ smClosed = FALSE /\ amClosed = FALSE
  /\ chan = [c \in Clients |-> "none"] /\ sse = "none" /\ ws = "none" /\ mine = {}
  /\ turn = [t \in Turns |-> "none"] /\ cancelled = {} /\ line = <<>> /\ active = {}
  /\ ok = {} /\ told = [t \in Turns |-> [f \in Frames |-> 0]]

(* ---- Start and rollback ------------------------------------------------- *)
Stage == Stages[step]
Opens == ({Stage} \cap Components) \ absent
StageUp ==
  /\ phase = "start" /\ step <= Len(Stages)
  /\ open' = open \cup Opens /\ held' = held \cup Opens
  /\ accepting' = (Stage = "api") /\ step' = step + 1
  /\ UNCHANGED <<phase, absent, expired, mgr, chan, conn, work>>
StartReady ==
  /\ phase = "start" /\ step > Len(Stages) /\ phase' = "ready"
  /\ UNCHANGED <<step, absent, open, held, expired, accepting, mgr, chan, conn, work>>
(* A stage may fail with what it has opened: a Prepare or Activate that fails*)
(* leaves "upstreams" to a manager that is in no field yet; a Reindex that   *)
(* must not fail comes when the memory manager is in its field already.      *)
Leaves == IF Stage = "mcp" THEN {{}, {"upstreams"}} ELSE {{}}
Stored == IF Stage = "memory" THEN {{}, Opens} ELSE {{}}
StageFails ==
  /\ phase = "start" /\ step <= Len(Stages) /\ Stage \notin absent
  /\ \E l \in Leaves, h \in Stored : open' = open \cup l \cup h /\ held' = held \cup h
  /\ phase' = "failed" /\ step' = 1
  /\ UNCHANGED <<absent, expired, accepting, mgr, chan, conn, work>>
Forgetful == <<"api", "agent", "session", "memory", "provider", "store">>       \* mutant
StoreEarly == <<"api", "agent", "store", "session", "memory", "mcp", "provider">> \* mutant
Undo == <<"api", "agent", "session", "memory", "mcp", "provider", "store">>
RollBack ==               \* rt.agents is set together with rt.sessions
  /\ phase = "failed" /\ step <= Len(Undo) /\ step' = step + 1
  /\ open' = open \ ({Undo[step]} \cap held) /\ held' = held \ {Undo[step]}
  /\ smClosed' = (smClosed \/ (Undo[step] = "session" /\ "session" \in held))
  /\ amClosed' = (amClosed \/ (Undo[step] = "agent" /\ "session" \in held))
  /\ UNCHANGED <<phase, absent, expired, accepting, chan, conn, work>>

(* ---- the hub ------------------------------------------------------------ *)
(* A frame goes to every subscriber; one whose queue is full is cut off.     *)
Publish == \E full \in SUBSET {c \in Clients : chan[c] = "open"} :
             chan' = [c \in Clients |-> IF c \in full THEN "closed" ELSE chan[c]]
Tells(t, f) == told' = [told EXCEPT ![t][f] = @ + 1]
Strays(t) == told[t]["stray"] < MaxStray /\ Tells(t, "stray")
Serving == phase \in {"start", "ready", "stop"} /\ accepting

(* ---- SSE ---------------------------------------------------------------- *)
SseOpen ==
  /\ Serving /\ sse = "none" /\ ~smClosed /\ sse' = "serving" /\ chan' = [chan EXCEPT !["sse"] = "open"]
  /\ UNCHANGED <<run, accepting, mgr, ws, mine, work>>
SseClientGone ==          \* the subscription stays in the hub
  /\ sse = "serving" /\ sse' = "left"
  /\ UNCHANGED <<run, accepting, mgr, chan, ws, mine, work>>
SseEnds ==
  /\ sse = "serving" /\ chan["sse"] = "closed" /\ sse' = "left"
  /\ UNCHANGED <<run, accepting, mgr, chan, ws, mine, work>>

(* ---- WebSocket ---------------------------------------------------------- *)
WsOpen ==
  /\ Serving /\ ws = "none" /\ ~smClosed /\ ws' = "up" /\ chan' = [chan EXCEPT !["ws"] = "open"]
  /\ UNCHANGED <<run, accepting, mgr, sse, mine, work>>
Become(t, s) == turn' = [turn EXCEPT ![t] = s]
(* A message frame gets a goroutine of its own; the turn is not in the table *)
(* before that has run, and a cancel frame may come first.                   *)
MessageFrame(t) ==
  /\ ws = "up" /\ turn[t] = "none" /\ Become(t, "spawned")
  /\ UNCHANGED <<run, accepting, mgr, chan, conn, cancelled, line, active, ok, told>>
Detached == FALSE                                                     \* mutant
ParentDone == ws \in {"gone", "left"}
Register(t) ==
  /\ turn[t] = "spawned" /\ Become(t, "asked") /\ mine' = mine \cup {t}
  /\ cancelled' = IF ParentDone THEN cancelled \cup {t} ELSE cancelled
  /\ UNCHANGED <<run, accepting, mgr, chan, sse, ws, line, active, ok, told>>
(* A turn that is not in the table, or not in it yet or any more, gets an    *)
(* error frame, and so does a second message frame for one that is.          *)
CancelFrame(t) ==
  /\ ws = "up"
  /\ \/ t \in mine /\ t \notin cancelled /\ cancelled' = cancelled \cup {t} /\ UNCHANGED told
     \/ t \notin mine /\ Strays(t) /\ UNCHANGED cancelled
  /\ UNCHANGED <<run, accepting, mgr, chan, conn, turn, line, active, ok>>
RepeatedFrame(t) ==
  /\ ws = "up" /\ t \in mine /\ Strays(t)
  /\ UNCHANGED <<run, accepting, mgr, chan, conn, turn, cancelled, line, active, ok>>
WsClientGone ==           \* readLoop returns
  /\ ws = "up" /\ ws' = "dropped"
  /\ UNCHANGED <<run, accepting, mgr, chan, sse, mine, work>>
CancelAllTurns ==
  /\ ws = "dropped" /\ ws' = "swept" /\ cancelled' = cancelled \cup mine /\ mine' = {}
  /\ UNCHANGED <<run, accepting, mgr, chan, sse, turn, line, active, ok, told>>
CancelConn ==             \* cancel(): the contexts derived from it end as well
  /\ ws = "swept" /\ ws' = "gone"
  /\ cancelled' = cancelled \cup {t \in WsTurns : turn[t] \notin {"none", "spawned"}}
  /\ UNCHANGED <<run, accepting, mgr, chan, sse, mine, turn, line, active, ok, told>>
WsLeaves ==               \* writer and ping have ended; Unsubscribe
  /\ ws = "gone" /\ ws' = "left" /\ chan' = [chan EXCEPT !["ws"] = "closed"]
  /\ UNCHANGED <<run, accepting, mgr, sse, mine, work>>

(* ---- REST --------------------------------------------------------------- *)
Post(t) ==
  /\ Serving /\ turn[t] = "none" /\ Become(t, "asked")
  /\ UNCHANGED <<run, accepting, mgr, chan, conn, cancelled, line, active, ok, told>>
PosterGone(t) ==
  /\ turn[t] \notin {"none", "ended"} /\ t \notin cancelled /\ cancelled' = cancelled \cup {t}
  /\ UNCHANGED <<run, accepting, mgr, chan, conn, turn, line, active, ok, told>>

(* ---- a turn: HandleTurn, RunTurn, the runner ---------------------------- *)
Refuse(t) ==
  /\ turn[t] = "asked" /\ (amClosed \/ smClosed \/ t \in cancelled) /\ Become(t, "failed")
  /\ UNCHANGED <<run, accepting, mgr, chan, conn, cancelled, line, active, ok, told>>
Admit(t) ==               \* activeTurns, frame "queued", r.tasks
  /\ turn[t] = "asked" /\ ~amClosed /\ ~smClosed /\ t \notin cancelled
  /\ Become(t, "queued") /\ active' = active \cup {t} /\ line' = Append(line, t) /\ Publish
  /\ UNCHANGED <<run, accepting, mgr, conn, cancelled, ok, told>>
Begin(t) ==
  /\ turn[t] = "queued" /\ Head(line) = t
  /\ IF t \in cancelled THEN Become(t, "ran") /\ line' = Tail(line)
                        ELSE Become(t, "running") /\ UNCHANGED line
  /\ UNCHANGED <<run, accepting, mgr, chan, conn, cancelled, active, ok, told>>
(* The answer is committed and assistant_done published, or the turn fails.  *)
Finish(t) ==
  /\ turn[t] = "running" /\ Become(t, "ran") /\ line' = Tail(line)
  /\ \/ "store" \in open /\ ok' = ok \cup {t} /\ Publish /\ Tells(t, "done")
     \/ UNCHANGED <<ok, chan, told>>
  /\ UNCHANGED <<run, accepting, mgr, conn, cancelled, active>>
(* RunTurn takes the result, or sees closing first and reports an error.     *)
Always(t) == TRUE                                                     \* mutant
Errors(t) == t \notin ok
Collect(t) ==
  /\ turn[t] = "ran" /\ active' = active \ {t}
  /\ \/ Errors(t) /\ Become(t, "failed")
     \/ ~Errors(t) /\ Become(t, "ended")
     \/ smClosed /\ Become(t, "failed")
  /\ mine' = IF turn'[t] = "ended" THEN mine \ {t} ELSE mine
  /\ UNCHANGED <<run, accepting, mgr, chan, sse, ws, cancelled, line, ok, told>>
(* The error frame: REST publishes it, WebSocket writes it to its own client.*)
Reply(t) ==
  /\ turn[t] = "failed" /\ Become(t, "ended") /\ mine' = mine \ {t} /\ Tells(t, "error")
  /\ IF t \in RestTurns THEN Publish ELSE UNCHANGED chan
  /\ UNCHANGED <<run, accepting, mgr, sse, ws, cancelled, line, active, ok>>

(* ---- Shutdown ----------------------------------------------------------- *)
Shut == <<"listener", "handlers", "mcp", "session", "hubs", "cancel", "turns",
          "agent", "memory", "provider", "store", "exit">>
Signal ==
  /\ phase = "ready" /\ phase' = "stop" /\ step' = 1
  /\ UNCHANGED <<absent, open, held, expired, accepting, mgr, chan, conn, work>>
Expire ==
  /\ phase = "stop" /\ ~expired /\ expired' = TRUE
  /\ UNCHANGED <<phase, step, absent, open, held, accepting, mgr, chan, conn, work>>
At(s) == phase = "stop" /\ Shut[step] = s /\ step' = step + 1
Closes(c) == open' = open \ {c} /\ held' = held \ {c}
CloseListener ==
  /\ At("listener") /\ accepting' = FALSE
  /\ UNCHANGED <<phase, absent, open, held, expired, mgr, chan, conn, work>>
(* http.Server.Shutdown waits for the handlers of SSE and REST, not for those*)
(* that took their connection over, and no longer than the deadline.         *)
HandlersLeft == sse # "serving" /\ \A t \in RestTurns : turn[t] \in {"none", "ended"}
Patient == HandlersLeft                                               \* mutant
HandlersDone == HandlersLeft \/ expired
AwaitHandlers ==
  /\ At("handlers") /\ HandlersDone /\ Closes("api")
  /\ UNCHANGED <<phase, absent, expired, accepting, mgr, chan, conn, work>>
StopMcp ==                \* Stop, Done, Stop again
  /\ At("mcp") /\ Closes("mcp")
  /\ UNCHANGED <<phase, absent, expired, accepting, mgr, chan, conn, work>>
CloseSessions ==
  /\ At("session") /\ smClosed' = TRUE
  /\ UNCHANGED <<phase, absent, open, held, expired, accepting, amClosed, chan, conn, work>>
CloseHubs ==
  /\ At("hubs") /\ chan' = [c \in Clients |-> IF chan[c] = "open" THEN "closed" ELSE chan[c]]
  /\ UNCHANGED <<phase, absent, open, held, expired, accepting, mgr, conn, work>>
CancelActive ==
  /\ At("cancel") /\ cancelled' = cancelled \cup active
  /\ UNCHANGED <<phase, absent, open, held, expired, accepting, mgr, chan, conn,
                 turn, line, active, ok, told>>
NotJoined == TRUE                                                     \* mutant
TurnsJoined == active = {}
AwaitTurns ==             \* past the deadline the runners are left running
  /\ At("turns")
  /\ \/ TurnsJoined /\ Closes("session")
     \/ expired /\ held' = held \ {"session"} /\ UNCHANGED open
  /\ UNCHANGED <<phase, absent, expired, accepting, mgr, chan, conn, work>>
CloseAgents ==
  /\ At("agent") /\ amClosed' = TRUE
  /\ UNCHANGED <<phase, absent, open, held, expired, accepting, smClosed, chan, conn, work>>
CloseStores ==
  /\ \E c \in {"memory", "provider", "store"} : At(c) /\ Closes(c)
  /\ UNCHANGED <<phase, absent, expired, accepting, mgr, chan, conn, work>>
Exit ==
  /\ phase = "stop" /\ Shut[step] = "exit" /\ phase' = "exited"
  /\ UNCHANGED <<step, absent, open, held, expired, accepting, mgr, chan, conn, work>>

ShutdownStep == \/ CloseListener \/ AwaitHandlers \/ StopMcp \/ CloseSessions \/ CloseHubs
                \/ CancelActive \/ AwaitTurns \/ CloseAgents \/ CloseStores \/ Exit
TurnStep(t) == Refuse(t) \/ Admit(t) \/ Begin(t) \/ Finish(t) \/ Collect(t) \/ Reply(t)
WsStep == CancelAllTurns \/ CancelConn \/ WsLeaves
Live == phase \in {"start", "ready", "stop"}
Next ==
  \/ StageUp \/ StartReady \/ StageFails \/ RollBack \/ Signal \/ Expire \/ ShutdownStep
  \/ /\ Live
     /\ \/ SseOpen \/ SseClientGone \/ SseEnds \/ WsOpen \/ WsClientGone \/ WsStep
        \/ \E t \in WsTurns : MessageFrame(t) \/ Register(t) \/ CancelFrame(t) \/ RepeatedFrame(t)
        \/ \E t \in RestTurns : Post(t) \/ PosterGone(t)
        \/ \E t \in Turns : TurnStep(t)
Spec == Init /\ [][Next]_vars
(* Shutdown goes on and its deadline comes; goroutines run, a turn ends      *)
(* because provider and tools have timeouts.  Clients need do nothing.       *)
FairSpec == /\ Spec /\ WF_vars(ShutdownStep) /\ WF_vars(Expire)
            /\ WF_vars(Live /\ WsStep) /\ WF_vars(Live /\ SseEnds)
            /\ \A t \in Turns : WF_vars(Live /\ TurnStep(t))
            /\ \A t \in WsTurns : WF_vars(Live /\ Register(t))

(* ---- properties --------------------------------------------------------- *)
(* A Start that fails, at whatever stage, closes in the end all it had put in*)
(* a field of the Runtime, a prepared MCP manager as well; what stays open is*)
(* the upstreams of an MCP manager that failed itself, which no field has.   *)
FailedStartClosesHeld == phase = "failed" /\ step > Len(Undo) => open \subseteq {"upstreams"}

(* In Start, roll-back and Shutdown, whoever is up has what it works with:   *)
(* the sessions their stores and the provider, the API all the others.  Only *)
(* a Shutdown past its deadline goes on without its runners having ended.    *)
Needs == [session |-> {"store", "provider", "memory"}, api |-> Components]
NeedsMet ==
  \A c \in open \cap DOMAIN Needs : Needs[c] \ absent \subseteq open \/ expired

(* As long as the deadline holds, neither stores nor provider are closed     *)
(* under a turn that runs, whether it came by REST or by a WebSocket, which  *)
(* outlives the listener.  MCP, whose tools a turn may call, is closed before*)
(* the sessions drain: a REST turn has ended by then, one of a WebSocket not *)
(* (docs/architecture.md:126 closes MCP behind the sessions).                *)
UsersFirst ==
  \A t \in Turns : turn[t] = "running" /\ ~expired =>
    /\ {"store", "provider", "memory"} \ absent \subseteq open
    /\ "mcp" \in open \/ t \in WsTurns

(* Once a WebSocket is given up every turn it has started is cancelled, also *)
(* one whose goroutine comes to register itself only now.                    *)
TurnFollowsConnection ==
  ws \in {"gone", "left"} =>
    \A t \in WsTurns : turn[t] \in {"asked", "queued", "running"} => t \in cancelled

(* A turn that has ended has sent one frame that says so, assistant_done or  *)
(* an error, and no turn sends two, but for one: if the manager closes while *)
(* a turn that went well is about to return, it has both.  Not counted are   *)
(* the "stray" error frames with its id, which answer a frame of the client  *)
(* (a cancel for a turn that is not in the table, a message sent twice);     *)
(* docs/remote-api/conversation.md:127 knows of neither.                     *)
OneTerminal ==
  \A t \in Turns :
    /\ told[t]["done"] <= 1 /\ told[t]["error"] <= 1
    /\ told[t]["done"] + told[t]["error"] > 1 => smClosed
    /\ turn[t] = "ended" => told[t]["done"] + told[t]["error"] > 0

(* Shutdown comes to its end, whatever the clients do.                       *)
ShutdownReturns == (phase = "stop") ~> (phase = "exited")

(* After a failed Start and in Shutdown, components go down behind those that*)
(* use them, with the exceptions named above.                                *)
ComponentsSound == FailedStartClosesHeld /\ NeedsMet /\ UsersFirst

(* A turn is cancelled with its connection and ends with one frame of its own*)
TurnsSound == TurnFollowsConnection /\ OneTerminal
=============================================================================
