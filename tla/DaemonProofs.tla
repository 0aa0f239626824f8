---------------------------- MODULE DaemonProofs -----------------------------
(* Proofs about Daemon for every set of WebSocket turns and of REST turns.    *)
(* Nothing is served before the listener is up, and by then every component   *)
(* is open; Shutdown closes what turns use behind the join of the turns, and  *)
(* every turn in the line or running is among those it joins.                 *)
EXTENDS Daemon, TLAPS

Users == {"store", "provider", "memory"}     \* what a turn needs
InLine == {"queued", "running", "ran"}       \* between activeTurns and its release

Counters == [Frames -> Nat]
Types ==
  /\ phase \in {"start", "failed", "ready", "stop", "exited"}
  /\ step \in 1..12
  /\ absent \subseteq {"memory"}
  /\ turn \in [Turns -> {"none", "spawned", "asked", "failed", "ended"} \cup InLine]
  /\ told \in [Turns -> Counters]
  /\ sse \in {"none", "serving", "left"}
  /\ ws \in {"none", "up", "dropped", "swept", "gone", "left"}

(* Start: what is open is what is in a field, the stages behind it are open,  *)
(* and nobody is served before the last of them.  The roll-back takes field   *)
(* after field.                                                               *)
Starting ==
  /\ phase = "start" => open = held
  /\ phase = "failed" =>
       /\ held \subseteq open /\ open \subseteq held \cup {"upstreams"}
       /\ held \subseteq Components \ {"api"}
       /\ \A n \in 1..7 : Undo[n] \in held => step <= n
       /\ "session" \in held => Users \ absent \subseteq open
  /\ phase = "start" =>
       \A n \in 1..step - 1 : Stages[n] \in Components \ absent => Stages[n] \in open
  /\ phase = "start" => held \subseteq Components /\ \A n \in step..11 : Stages[n] \notin held
  /\ phase = "failed" \/ (phase = "start" /\ step <= 11) =>
       ~accepting /\ ws = "none" /\ \A t \in Turns : turn[t] = "none"

(* Shutdown: the session manager closes behind the handlers, the turns are    *)
(* joined, and only then is closed what they use.                             *)
Stopping ==
  /\ phase = "ready" \/ (phase = "stop" /\ step <= 7) => Users \ absent \subseteq open
  /\ phase = "stop" /\ step > 4 => smClosed
  /\ phase = "exited" => smClosed
  /\ phase = "exited" \/ (phase = "stop" /\ step > 7) => expired \/ active = {}
  /\ phase = "ready" \/ (phase = "stop" /\ step <= 2) => Components \ absent \subseteq open
  /\ phase \notin {"start", "failed"} =>
       /\ "api" \in open => phase = "ready" \/ (phase = "stop" /\ step <= 2)
       /\ "session" \in open /\ ~expired => phase = "ready" \/ (phase = "stop" /\ step <= 7)
Joined == \A t \in Turns : turn[t] \in InLine => t \in active

(* The turns of REST have ended before MCP is closed, unless the deadline has *)
(* passed: no other can come.                                                 *)
Deaf == phase = "exited" \/ (phase = "stop" /\ step > 1) => ~accepting
RestOver == phase = "exited" \/ (phase = "stop" /\ step > 2) =>
              expired \/ \A t \in RestTurns : turn[t] \in {"none", "ended"}

(* A turn ends well only if its callback did, and with one frame unless the   *)
(* manager has closed under it.                                               *)
FramesOf(t) ==
  /\ told[t]["done"] = IF t \in ok THEN 1 ELSE 0
  /\ t \in ok => turn[t] \in {"ran", "failed", "ended"}
  /\ t \in ok /\ turn[t] = "failed" => smClosed
  /\ told[t]["error"] \in {0, 1}
  /\ told[t]["error"] = 1 => turn[t] = "ended"
  /\ turn[t] = "ended" => t \in ok \/ told[t]["error"] = 1
  /\ t \in ok /\ told[t]["error"] = 1 => smClosed
OwnFrames == \A t \in Turns : FramesOf(t)

(* What every state satisfies, and every step keeps.                         *)
IInv == Types /\ Starting /\ Stopping /\ Joined /\ OwnFrames /\ TurnFollowsConnection

(* ... and, behind it,                                                       *)
Quieted == Deaf /\ RestOver

(* ---- Start -------------------------------------------------------------- *)
LEMMA Initially == Init => IInv
<1> SUFFICES ASSUME Init PROVE IInv
  OBVIOUS
<1> USE DaemonAssumption DEF Init
<1>1. Types
  BY DEF Types, InLine, Counters, Frames
<1>2. Starting /\ Stopping /\ Joined
  BY DEF Starting, Stopping, Joined, InLine
<1>3. OwnFrames
  <2>1. \A t \in Turns : \A f \in {"done", "error"} : told[t][f] = 0
    BY DEF Frames
  <2> QED BY <2>1 DEF OwnFrames, FramesOf
<1> QED BY <1>1, <1>2, <1>3 DEF IInv, TurnFollowsConnection

LEMMA StageUpStep == ASSUME IInv, StageUp PROVE IInv'
<1> USE DEF IInv, Stage, StageUp, Opens, conn, mgr, work, Stages
<1>0. step \in 1..11 /\ Len(Stages) = 11 /\ Stage \in {Stages[n] : n \in 1..11}
      /\ \A n, k \in 1..11 : Stages[n] = Stages[k] => n = k
  BY DEF Types
<1>1. Types'
  BY <1>0 DEF Types
<1>2. Starting'
  <2>1. (phase = "start" => open = held)'
    BY DEF Starting
  <2>2. (phase = "start" =>
       \A n \in 1..step - 1 : Stages[n] \in Components \ absent => Stages[n] \in open)'
    BY <1>0 DEF Starting, Types
  <2>3. step' <= 11 => Stage # "api"
    BY <1>0 DEF Types
  <2>4. (phase = "start" =>
           held \subseteq Components /\ \A n \in step..11 : Stages[n] \notin held)'
    <3>1. held' \subseteq Components
      BY DEF Starting
    <3>2. ASSUME NEW n \in step'..11 PROVE Stages[n] \notin held'
      <4>1. n \in 1..11 /\ n \in step..11 /\ n # step
        BY <1>0, <3>2
      <4>2. Stages[n] \notin held /\ Stages[n] # Stages[step]
        BY <4>1, <1>0 DEF Starting
      <4> QED BY <4>2
    <3> QED BY <3>1, <3>2
  <2> QED BY <2>1, <2>2, <2>3, <2>4, <1>0 DEF Starting, Types
<1>3. Stopping' /\ Joined' /\ OwnFrames' /\ TurnFollowsConnection'
  BY DEF Stopping, Joined, OwnFrames, FramesOf, TurnFollowsConnection
<1> QED BY <1>1, <1>2, <1>3

(* When the last stage is up, what a turn needs is open.                      *)
LEMMA AllUp ==
  ASSUME Types, Starting, phase = "start", step = 12 PROVE Components \ absent \subseteq open
<1>1. /\ Stages[1] = "store" /\ Stages[2] = "provider" /\ Stages[3] = "memory"
      /\ Stages[7] = "session" /\ Stages[9] = "mcp" /\ Stages[11] = "api"
  BY DEF Stages
<1>2. \A n \in 1..11 : Stages[n] \in Components \ absent => Stages[n] \in open
  BY DEF Starting
<1> QED BY <1>1, <1>2 DEF Components

(* Whenever the sessions are up, what they use is.                            *)
LEMMA SessionsLast ==
  ASSUME Types, Starting, phase = "start", "session" \in held
  PROVE  step > 7 /\ Users \ absent \subseteq open
<1>1. Stages[1] = "store" /\ Stages[2] = "provider" /\ Stages[3] = "memory" /\ Stages[7] = "session"
  BY DEF Stages
<1>2. step > 7
  BY <1>1 DEF Starting, Types
<1>3. \A n \in 1..3 : Stages[n] \in Components \ absent => Stages[n] \in open
  BY <1>2 DEF Starting, Types
<1> QED BY <1>1, <1>2, <1>3 DEF Users, Components

LEMMA StartReadyStep == ASSUME IInv, StartReady PROVE IInv'
<1> USE DEF IInv, StartReady, conn, mgr, work
<1>1. Types' /\ Starting' /\ Joined' /\ OwnFrames' /\ TurnFollowsConnection'
  BY DEF Types, Starting, Joined, OwnFrames, FramesOf, TurnFollowsConnection
<1>2. step = 12
  BY DEF Types, Stages
<1>3. Components \ absent \subseteq open
  BY <1>2, AllUp
<1> QED BY <1>1, <1>3 DEF Stopping, Users, Components

LEMMA StageFailsStep == ASSUME IInv, StageFails PROVE IInv'
<1> USE DEF IInv, StageFails, conn, mgr, work
<1>1. Types' /\ Stopping' /\ Joined' /\ OwnFrames' /\ TurnFollowsConnection'
  BY DEF Types, Stopping, Joined, OwnFrames, FramesOf, TurnFollowsConnection
<1>2. step \in 1..11 /\ Len(Stages) = 11 /\ Stages[11] = "api" /\ Stages[7] = "session"
  BY DEF Types, Stages
<1>3. PICK l \in Leaves, h \in Stored : open' = open \cup l \cup h /\ held' = held \cup h
  OBVIOUS
<1>4. l \subseteq {"upstreams"} /\ h \subseteq {"memory"}
  BY DEF Leaves, Stored, Opens
<1>5. "api" \notin held /\ held \subseteq Components /\ open = held
  BY <1>2 DEF Starting
<1>6. "session" \in held => Users \ absent \subseteq open
  BY SessionsLast
<1>7. /\ held' \subseteq open' /\ open' \subseteq held' \cup {"upstreams"}
      /\ held' \subseteq Components \ {"api"}
      /\ "session" \in held' => Users \ absent \subseteq open'
  BY <1>3, <1>4, <1>5, <1>6 DEF Components
<1> QED BY <1>1, <1>2, <1>7 DEF Starting

LEMMA RollBackStep == ASSUME IInv, RollBack PROVE IInv'
<1> USE DEF IInv, RollBack, conn, work
<1>0. /\ step \in 1..7 /\ step' = step + 1 /\ phase = "failed" /\ Len(Undo) = 7
      /\ Undo[1] = "api" /\ Undo[2] = "agent" /\ Undo[3] = "session"
      /\ \A n, k \in 1..7 : Undo[n] = Undo[k] => n = k
  BY DEF Types, Undo
<1> HIDE DEF Undo
<1>1. Types' /\ Stopping' /\ Joined' /\ TurnFollowsConnection'
  BY <1>0 DEF Types, Stopping, Joined, TurnFollowsConnection
<1>5. OwnFrames'
  BY DEF OwnFrames, FramesOf
<1>2. /\ held' \subseteq open' /\ open' \subseteq held' \cup {"upstreams"}
      /\ held' \subseteq Components \ {"api"}
  BY <1>0 DEF Starting
<1>3. ASSUME NEW n \in 1..7, Undo[n] \in held' PROVE step' <= n
  <2>1. step <= n /\ n # step
    BY <1>0, <1>3 DEF Starting
  <2> QED BY <2>1, <1>0
<1>4. "session" \in held' => Users \ absent \subseteq open'
  <2>1. "session" \in held' => step \in {1, 2}
    BY <1>0, <1>3
  <2> QED BY <2>1, <1>0 DEF Starting, Users
<1> QED BY <1>0, <1>1, <1>2, <1>3, <1>4, <1>5 DEF Starting

(* ---- Shutdown ----------------------------------------------------------- *)
LEMMA SignalStep == ASSUME IInv, Signal PROVE IInv'
<1> USE DEF IInv, Signal, run, mgr, conn, work
<1>1. Types' /\ Starting' /\ Stopping'
  BY DEF Types, Starting, Stopping, InLine
<1>2. Joined' /\ OwnFrames' /\ TurnFollowsConnection'
  BY DEF Joined, OwnFrames, TurnFollowsConnection, InLine, FramesOf
<1> QED BY <1>1, <1>2

LEMMA ExpireStep == ASSUME IInv, Expire PROVE IInv'
<1> USE DEF IInv, Expire, run, mgr, conn, work
<1>1. Types' /\ Starting' /\ Stopping'
  BY DEF Types, Starting, Stopping, InLine
<1>2. Joined' /\ OwnFrames' /\ TurnFollowsConnection'
  BY DEF Joined, OwnFrames, TurnFollowsConnection, InLine, FramesOf
<1> QED BY <1>1, <1>2

LEMMA CloseListenerStep == ASSUME IInv, CloseListener PROVE IInv'
<1> USE DEF IInv, CloseListener, run, mgr, conn, work, At, Closes, Shut, Users
<1>0. step \in 1..11 /\ phase = "stop" /\ step' = step + 1 /\ Shut[step] = "listener"
  BY DEF Types
<1>1. Types' /\ Starting' /\ Stopping'
  BY <1>0 DEF Types, Starting, Stopping, InLine
<1>2. Joined' /\ OwnFrames' /\ TurnFollowsConnection'
  BY <1>0 DEF Joined, OwnFrames, TurnFollowsConnection, InLine, FramesOf
<1> QED BY <1>1, <1>2

LEMMA AwaitHandlersStep == ASSUME IInv, AwaitHandlers PROVE IInv'
<1> USE DEF IInv, AwaitHandlers, run, mgr, conn, work, At, Closes, Shut, Users
<1>0. step \in 1..11 /\ phase = "stop" /\ step' = step + 1 /\ Shut[step] = "handlers"
  BY DEF Types
<1>1. Types' /\ Starting' /\ Stopping'
  BY <1>0 DEF Types, Starting, Stopping, InLine
<1>2. Joined' /\ OwnFrames' /\ TurnFollowsConnection'
  BY <1>0 DEF Joined, OwnFrames, TurnFollowsConnection, InLine, FramesOf
<1> QED BY <1>1, <1>2

LEMMA StopMcpStep == ASSUME IInv, StopMcp PROVE IInv'
<1> USE DEF IInv, StopMcp, run, mgr, conn, work, At, Closes, Shut, Users
<1>0. step \in 1..11 /\ phase = "stop" /\ step' = step + 1 /\ Shut[step] = "mcp"
  BY DEF Types
<1>1. Types' /\ Starting' /\ Stopping'
  BY <1>0 DEF Types, Starting, Stopping, InLine
<1>2. Joined' /\ OwnFrames' /\ TurnFollowsConnection'
  BY <1>0 DEF Joined, OwnFrames, TurnFollowsConnection, InLine, FramesOf
<1> QED BY <1>1, <1>2

LEMMA CloseSessionsStep == ASSUME IInv, CloseSessions PROVE IInv'
<1> USE DEF IInv, CloseSessions, run, mgr, conn, work, At, Closes, Shut, Users
<1>0. step \in 1..11 /\ phase = "stop" /\ step' = step + 1 /\ Shut[step] = "session"
  BY DEF Types
<1>1. Types' /\ Starting' /\ Stopping'
  BY <1>0 DEF Types, Starting, Stopping, InLine
<1>2. Joined' /\ OwnFrames' /\ TurnFollowsConnection'
  BY <1>0 DEF Joined, OwnFrames, TurnFollowsConnection, InLine, FramesOf
<1> QED BY <1>1, <1>2

LEMMA CloseHubsStep == ASSUME IInv, CloseHubs PROVE IInv'
<1> USE DEF IInv, CloseHubs, run, mgr, conn, work, At, Closes, Shut, Users
<1>0. step \in 1..11 /\ phase = "stop" /\ step' = step + 1 /\ Shut[step] = "hubs"
  BY DEF Types
<1>1. Types' /\ Starting' /\ Stopping'
  BY <1>0 DEF Types, Starting, Stopping, InLine
<1>2. Joined' /\ OwnFrames' /\ TurnFollowsConnection'
  BY <1>0 DEF Joined, OwnFrames, TurnFollowsConnection, InLine, FramesOf
<1> QED BY <1>1, <1>2

LEMMA CancelActiveStep == ASSUME IInv, CancelActive PROVE IInv'
<1> USE DEF IInv, CancelActive, run, mgr, conn, work, At, Closes, Shut, Users
<1>0. step \in 1..11 /\ phase = "stop" /\ step' = step + 1 /\ Shut[step] = "cancel"
  BY DEF Types
<1>1. Types' /\ Starting' /\ Stopping'
  BY <1>0 DEF Types, Starting, Stopping, InLine
<1>2. Joined' /\ OwnFrames' /\ TurnFollowsConnection'
  BY <1>0 DEF Joined, OwnFrames, TurnFollowsConnection, InLine, FramesOf
<1> QED BY <1>1, <1>2

LEMMA AwaitTurnsStep == ASSUME IInv, AwaitTurns PROVE IInv'
<1> USE DEF IInv, AwaitTurns, run, mgr, conn, work, At, Closes, Shut, Users, TurnsJoined
<1>0. step \in 1..11 /\ phase = "stop" /\ step' = step + 1 /\ Shut[step] = "turns"
  BY DEF Types
<1>1. Types' /\ Starting' /\ Stopping'
  BY <1>0 DEF Types, Starting, Stopping, InLine
<1>2. Joined' /\ OwnFrames' /\ TurnFollowsConnection'
  BY <1>0 DEF Joined, OwnFrames, TurnFollowsConnection, InLine, FramesOf
<1> QED BY <1>1, <1>2

LEMMA CloseAgentsStep == ASSUME IInv, CloseAgents PROVE IInv'
<1> USE DEF IInv, CloseAgents, run, mgr, conn, work, At, Closes, Shut, Users
<1>0. step \in 1..11 /\ phase = "stop" /\ step' = step + 1 /\ Shut[step] = "agent"
  BY DEF Types
<1>1. Types' /\ Starting' /\ Stopping'
  BY <1>0 DEF Types, Starting, Stopping, InLine
<1>2. Joined' /\ OwnFrames' /\ TurnFollowsConnection'
  BY <1>0 DEF Joined, OwnFrames, TurnFollowsConnection, InLine, FramesOf
<1> QED BY <1>1, <1>2

LEMMA CloseStoresStep == ASSUME IInv, CloseStores PROVE IInv'
<1> USE DEF IInv, CloseStores, run, mgr, conn, work, At, Closes, Shut, Users
<1>0. step \in 9..11 /\ phase = "stop" /\ step' = step + 1
  BY DEF Types
<1>1. Types' /\ Starting' /\ Stopping'
  BY <1>0 DEF Types, Starting, Stopping, InLine
<1>2. Joined' /\ OwnFrames' /\ TurnFollowsConnection'
  BY <1>0 DEF Joined, OwnFrames, TurnFollowsConnection, InLine, FramesOf
<1> QED BY <1>1, <1>2

LEMMA ExitStep == ASSUME IInv, Exit PROVE IInv'
<1> USE DEF IInv, Exit, run, mgr, conn, work
<1>0. step = 12
  BY DEF Types, Shut
<1>1. Types' /\ Starting' /\ Stopping'
  BY <1>0 DEF Types, Starting, Stopping, InLine
<1>2. Joined' /\ OwnFrames' /\ TurnFollowsConnection'
  BY <1>0 DEF Joined, OwnFrames, TurnFollowsConnection, InLine, FramesOf
<1> QED BY <1>1, <1>2

(* ---- the clients and their connections ---------------------------------- *)
LEMMA SseOpenStep == ASSUME IInv, SseOpen PROVE IInv'
<1> USE DEF IInv, SseOpen, run, mgr, conn, work
<1>1. Types' /\ Starting' /\ Stopping'
  BY DEF Types, Starting, Stopping, InLine
<1>2. Joined' /\ OwnFrames' /\ TurnFollowsConnection'
  BY DEF Joined, OwnFrames, TurnFollowsConnection, InLine, FramesOf
<1> QED BY <1>1, <1>2

LEMMA SseClientGoneStep == ASSUME IInv, SseClientGone PROVE IInv'
<1> USE DEF IInv, SseClientGone, run, mgr, conn, work
<1>1. Types' /\ Starting' /\ Stopping'
  BY DEF Types, Starting, Stopping, InLine
<1>2. Joined' /\ OwnFrames' /\ TurnFollowsConnection'
  BY DEF Joined, OwnFrames, TurnFollowsConnection, InLine, FramesOf
<1> QED BY <1>1, <1>2

LEMMA SseEndsStep == ASSUME IInv, SseEnds PROVE IInv'
<1> USE DEF IInv, SseEnds, run, mgr, conn, work
<1>1. Types' /\ Starting' /\ Stopping'
  BY DEF Types, Starting, Stopping, InLine
<1>2. Joined' /\ OwnFrames' /\ TurnFollowsConnection'
  BY DEF Joined, OwnFrames, TurnFollowsConnection, InLine, FramesOf
<1> QED BY <1>1, <1>2

LEMMA WsOpenStep == ASSUME IInv, WsOpen PROVE IInv'
<1> USE DEF IInv, WsOpen, run, mgr, conn, work
<1>0. phase # "failed" /\ (phase = "start" => step = 12)
  BY DEF Types, Starting, Serving
<1>1. Types' /\ Starting' /\ Stopping'
  BY <1>0 DEF Types, Starting, Stopping, InLine
<1>2. Joined' /\ OwnFrames' /\ TurnFollowsConnection'
  BY <1>0 DEF Joined, OwnFrames, TurnFollowsConnection, InLine, FramesOf
<1> QED BY <1>1, <1>2

LEMMA WsClientGoneStep == ASSUME IInv, WsClientGone PROVE IInv'
<1> USE DEF IInv, WsClientGone, run, mgr, conn, work
<1>1. Types' /\ Starting' /\ Stopping'
  BY DEF Types, Starting, Stopping, InLine
<1>2. Joined' /\ OwnFrames' /\ TurnFollowsConnection'
  BY DEF Joined, OwnFrames, TurnFollowsConnection, InLine, FramesOf
<1> QED BY <1>1, <1>2

LEMMA CancelAllTurnsStep == ASSUME IInv, CancelAllTurns PROVE IInv'
<1> USE DEF IInv, CancelAllTurns, run, mgr, conn, work
<1>1. Types' /\ Starting' /\ Stopping'
  BY DEF Types, Starting, Stopping, InLine
<1>2. Joined' /\ OwnFrames' /\ TurnFollowsConnection'
  BY DEF Joined, OwnFrames, TurnFollowsConnection, InLine, FramesOf
<1> QED BY <1>1, <1>2

LEMMA CancelConnStep == ASSUME IInv, CancelConn PROVE IInv'
<1> USE DEF IInv, CancelConn, run, mgr, conn, work
<1>1. Types' /\ Starting' /\ Stopping'
  BY DEF Types, Starting, Stopping, InLine
<1>2. Joined' /\ OwnFrames' /\ TurnFollowsConnection'
  BY DEF Joined, OwnFrames, TurnFollowsConnection, InLine, FramesOf
<1> QED BY <1>1, <1>2

LEMMA WsLeavesStep == ASSUME IInv, WsLeaves PROVE IInv'
<1> USE DEF IInv, WsLeaves, run, mgr, conn, work
<1>1. Types' /\ Starting' /\ Stopping'
  BY DEF Types, Starting, Stopping, InLine
<1>2. Joined' /\ OwnFrames' /\ TurnFollowsConnection'
  BY DEF Joined, OwnFrames, TurnFollowsConnection, InLine, FramesOf
<1> QED BY <1>1, <1>2

(* ---- the turns ---------------------------------------------------------- *)
(* A frame is one more of its kind, and nothing else.                         *)
LEMMA OneMore ==
  ASSUME Types, NEW t \in Turns, NEW f \in Frames, Tells(t, f)
  PROVE  /\ told' \in [Turns -> Counters]
         /\ told'[t][f] = told[t][f] + 1
         /\ \A g \in Frames \ {f} : told'[t][g] = told[t][g]
         /\ \A u \in Turns \ {t} : told'[u] = told[u]
<1>1. told \in [Turns -> Counters] /\ told[t] \in [Frames -> Nat]
  BY DEF Types, Counters
<1> PICK h : h = [told[t] EXCEPT ![f] = @ + 1]
  OBVIOUS
<1>2. told' = [told EXCEPT ![t] = h]
  BY DEF Tells
<1>3. h \in Counters /\ h[f] = told[t][f] + 1 /\ \A g \in Frames \ {f} : h[g] = told[t][g]
  BY <1>1 DEF Counters
<1> QED BY <1>1, <1>2, <1>3

LEMMA MessageFrameStep == ASSUME IInv, NEW t \in WsTurns, MessageFrame(t) PROVE IInv'
<1> USE DEF IInv, MessageFrame, run, mgr, conn, work, Become, Publish, Tells, ParentDone,
   Turns, Errors
<1>0. /\ t \in Turns /\ phase # "failed" /\ (phase = "start" => step = 12)
      /\ turn'[t] = "spawned"
      /\ \A u \in Turns \ {t} : turn'[u] = turn[u] /\ told'[u] = told[u]
      /\ told' \in [Turns -> Counters]
      /\ turn' \in [Turns -> {"none", "spawned", "asked", "failed", "ended"} \cup InLine]
  BY DEF Types, Starting, Serving, Turns, InLine
<1>1. Types'
  BY <1>0 DEF Types, InLine
<1>2. Starting'
  BY <1>0 DEF Starting, InLine
<1>3. Stopping' /\ Joined'
  BY <1>0 DEF Stopping, Joined, InLine
<1>4. OwnFrames'
  BY <1>0 DEF OwnFrames, InLine, FramesOf
<1>5. TurnFollowsConnection'
  BY <1>0 DEF TurnFollowsConnection, InLine
<1> QED BY <1>1, <1>2, <1>3, <1>4, <1>5

LEMMA RegisterStep == ASSUME IInv, NEW t \in WsTurns, Register(t) PROVE IInv'
<1> USE DEF IInv, Register, run, mgr, conn, work, Become, Publish, Tells, ParentDone, Turns,
   Errors
<1>0. /\ t \in Turns /\ phase # "failed" /\ (phase = "start" => step = 12)
      /\ turn'[t] = "asked"
      /\ \A u \in Turns \ {t} : turn'[u] = turn[u] /\ told'[u] = told[u]
      /\ told' \in [Turns -> Counters]
      /\ turn' \in [Turns -> {"none", "spawned", "asked", "failed", "ended"} \cup InLine]
  BY DEF Types, Starting, Serving, Turns, InLine
<1>1. Types'
  BY <1>0 DEF Types, InLine
<1>2. Starting'
  BY <1>0 DEF Starting, InLine
<1>3. Stopping' /\ Joined'
  BY <1>0 DEF Stopping, Joined, InLine
<1>4. OwnFrames'
  BY <1>0 DEF OwnFrames, InLine, FramesOf
<1>5. TurnFollowsConnection'
  BY <1>0 DEF TurnFollowsConnection, InLine
<1> QED BY <1>1, <1>2, <1>3, <1>4, <1>5

LEMMA CancelFrameStep == ASSUME IInv, NEW t \in WsTurns, CancelFrame(t) PROVE IInv'
<1> USE DEF IInv, CancelFrame, Strays, run, mgr, conn, work, Become, Publish, ParentDone,
   Turns, Errors
<1>a. /\ told' \in [Turns -> Counters] /\ \A u \in Turns \ {t} : told'[u] = told[u]
      /\ \A f \in {"done", "error"} : told'[t][f] = told[t][f]
  <2>1. CASE Tells(t, "stray")
    BY <2>1, OneMore DEF Frames, Turns
  <2>2. CASE UNCHANGED told
    BY <2>2 DEF Types
  <2> QED BY <2>1, <2>2
<1>0. /\ t \in Turns /\ phase # "failed" /\ (phase = "start" => step = 12)
      /\ turn'[t] = turn[t]
      /\ \A u \in Turns \ {t} : turn'[u] = turn[u] /\ told'[u] = told[u]
      /\ told' \in [Turns -> Counters]
      /\ turn' \in [Turns -> {"none", "spawned", "asked", "failed", "ended"} \cup InLine]
  BY <1>a DEF Types, Starting, Serving, Turns, InLine
<1>1. Types'
  BY <1>0 DEF Types, InLine, Counters, Frames
<1>2. Starting'
  BY <1>0 DEF Starting, InLine
<1>3. Stopping' /\ Joined'
  BY <1>0 DEF Stopping, Joined, InLine
<1>4. OwnFrames'
  <2> SUFFICES ASSUME NEW u \in Turns PROVE FramesOf(u)'
    BY DEF OwnFrames
  <2>1. \A f \in {"done", "error"} : told'[u][f] = told[u][f]
    BY <1>0, <1>a
  <2>2. FramesOf(u) /\ turn'[u] = turn[u] /\ UNCHANGED <<ok, smClosed>>
    BY <1>0 DEF OwnFrames
  <2> QED BY <2>1, <2>2 DEF FramesOf
<1>5. TurnFollowsConnection'
  BY <1>0 DEF TurnFollowsConnection, InLine
<1> QED BY <1>1, <1>2, <1>3, <1>4, <1>5

LEMMA RepeatedFrameStep == ASSUME IInv, NEW t \in WsTurns, RepeatedFrame(t) PROVE IInv'
<1> USE DEF IInv, RepeatedFrame, Strays, run, mgr, conn, work, Become, Publish, Tells,
   ParentDone, Turns, Errors
<1>a. /\ told' \in [Turns -> Counters] /\ \A u \in Turns \ {t} : told'[u] = told[u]
      /\ \A f \in {"done", "error"} : told'[t][f] = told[t][f]
  <2>1. CASE Tells(t, "stray")
    BY <2>1, OneMore DEF Frames, Turns
  <2>2. CASE UNCHANGED told
    BY <2>2 DEF Types
  <2> QED BY <2>1, <2>2
<1>0. /\ t \in Turns /\ phase # "failed" /\ (phase = "start" => step = 12)
      /\ turn'[t] = turn[t]
      /\ \A u \in Turns \ {t} : turn'[u] = turn[u] /\ told'[u] = told[u]
      /\ told' \in [Turns -> Counters]
      /\ turn' \in [Turns -> {"none", "spawned", "asked", "failed", "ended"} \cup InLine]
  BY <1>a DEF Types, Starting, Serving, Turns, InLine
<1>1. Types'
  BY <1>0 DEF Types, InLine, Counters, Frames
<1>2. Starting'
  BY <1>0 DEF Starting, InLine
<1>3. Stopping' /\ Joined'
  BY <1>0 DEF Stopping, Joined, InLine
<1>4. OwnFrames'
  <2> SUFFICES ASSUME NEW u \in Turns PROVE FramesOf(u)'
    BY DEF OwnFrames
  <2>1. \A f \in {"done", "error"} : told'[u][f] = told[u][f]
    BY <1>0, <1>a
  <2>2. FramesOf(u) /\ turn'[u] = turn[u] /\ UNCHANGED <<ok, smClosed>>
    BY <1>0 DEF OwnFrames
  <2> QED BY <2>1, <2>2 DEF FramesOf
<1>5. TurnFollowsConnection'
  BY <1>0 DEF TurnFollowsConnection, InLine
<1> QED BY <1>1, <1>2, <1>3, <1>4, <1>5

LEMMA PostStep == ASSUME IInv, NEW t \in RestTurns, Post(t) PROVE IInv'
<1> USE DEF IInv, Post, run, mgr, conn, work, Become, Publish, Tells, ParentDone, Turns, Errors
<1>0. /\ t \in Turns /\ phase # "failed" /\ (phase = "start" => step = 12)
      /\ turn'[t] = "asked"
      /\ \A u \in Turns \ {t} : turn'[u] = turn[u] /\ told'[u] = told[u]
      /\ told' \in [Turns -> Counters]
      /\ turn' \in [Turns -> {"none", "spawned", "asked", "failed", "ended"} \cup InLine]
  BY DEF Types, Starting, Serving, Turns, InLine
<1>1. Types'
  BY <1>0 DEF Types, InLine
<1>2. Starting'
  BY <1>0 DEF Starting, InLine
<1>3. Stopping' /\ Joined'
  BY <1>0 DEF Stopping, Joined, InLine
<1>4. OwnFrames'
  BY <1>0 DEF OwnFrames, InLine, FramesOf
<1>5. TurnFollowsConnection'
  BY <1>0, DaemonAssumption DEF TurnFollowsConnection, InLine
<1> QED BY <1>1, <1>2, <1>3, <1>4, <1>5

LEMMA PosterGoneStep == ASSUME IInv, NEW t \in RestTurns, PosterGone(t) PROVE IInv'
<1> USE DEF IInv, PosterGone, run, mgr, conn, work, Become, Publish, Tells, ParentDone, Turns,
   Errors
<1>0. /\ t \in Turns /\ phase # "failed" /\ (phase = "start" => step = 12)
      /\ turn'[t] = turn[t]
      /\ \A u \in Turns \ {t} : turn'[u] = turn[u] /\ told'[u] = told[u]
      /\ told' \in [Turns -> Counters]
      /\ turn' \in [Turns -> {"none", "spawned", "asked", "failed", "ended"} \cup InLine]
  BY DEF Types, Starting, Serving, Turns, InLine
<1>1. Types'
  BY <1>0 DEF Types, InLine
<1>2. Starting'
  BY <1>0 DEF Starting, InLine
<1>3. Stopping' /\ Joined'
  BY <1>0 DEF Stopping, Joined, InLine
<1>4. OwnFrames'
  BY <1>0 DEF OwnFrames, InLine, FramesOf
<1>5. TurnFollowsConnection'
  BY <1>0 DEF TurnFollowsConnection, InLine
<1> QED BY <1>1, <1>2, <1>3, <1>4, <1>5

LEMMA RefuseStep == ASSUME IInv, NEW t \in Turns, Refuse(t) PROVE IInv'
<1> USE DEF IInv, Refuse, run, mgr, conn, work, Become, Publish, Tells, ParentDone, Turns,
   Errors
<1>0. /\ t \in Turns /\ phase # "failed" /\ (phase = "start" => step = 12)
      /\ turn'[t] = "failed"
      /\ \A u \in Turns \ {t} : turn'[u] = turn[u] /\ told'[u] = told[u]
      /\ told' \in [Turns -> Counters]
      /\ turn' \in [Turns -> {"none", "spawned", "asked", "failed", "ended"} \cup InLine]
  BY DEF Types, Starting, Serving, Turns, InLine
<1>1. Types'
  BY <1>0 DEF Types, InLine
<1>2. Starting'
  BY <1>0 DEF Starting, InLine
<1>3. Stopping' /\ Joined'
  BY <1>0 DEF Stopping, Joined, InLine
<1>4. OwnFrames'
  BY <1>0 DEF OwnFrames, InLine, FramesOf
<1>5. TurnFollowsConnection'
  BY <1>0 DEF TurnFollowsConnection, InLine
<1> QED BY <1>1, <1>2, <1>3, <1>4, <1>5

LEMMA AdmitStep == ASSUME IInv, NEW t \in Turns, Admit(t) PROVE IInv'
<1> USE DEF IInv, Admit, run, mgr, conn, work, Become, Publish, Tells, ParentDone, Turns, Errors
<1>0. /\ t \in Turns /\ phase # "failed" /\ (phase = "start" => step = 12)
      /\ turn'[t] = "queued"
      /\ \A u \in Turns \ {t} : turn'[u] = turn[u] /\ told'[u] = told[u]
      /\ told' \in [Turns -> Counters]
      /\ turn' \in [Turns -> {"none", "spawned", "asked", "failed", "ended"} \cup InLine]
  BY DEF Types, Starting, Serving, Turns, InLine
<1>1. Types'
  BY <1>0 DEF Types, InLine
<1>2. Starting'
  BY <1>0 DEF Starting, InLine
<1>3. Stopping' /\ Joined'
  <2>1. Stopping'
    BY DEF Stopping, Types
  <2>2. Joined'
    BY <1>0 DEF Joined
  <2> QED BY <2>1, <2>2
<1>4. OwnFrames'
  BY <1>0 DEF OwnFrames, InLine, FramesOf
<1>5. TurnFollowsConnection'
  BY <1>0 DEF TurnFollowsConnection, InLine
<1> QED BY <1>1, <1>2, <1>3, <1>4, <1>5

LEMMA BeginStep == ASSUME IInv, NEW t \in Turns, Begin(t) PROVE IInv'
<1> USE DEF IInv, Begin, run, mgr, conn, work, Become, Publish, Tells, ParentDone, Turns, Errors
<1>0. /\ t \in Turns /\ phase # "failed" /\ (phase = "start" => step = 12)
      /\ turn'[t] \in {"ran", "running"}
      /\ \A u \in Turns \ {t} : turn'[u] = turn[u] /\ told'[u] = told[u]
      /\ told' \in [Turns -> Counters]
      /\ turn' \in [Turns -> {"none", "spawned", "asked", "failed", "ended"} \cup InLine]
  BY DEF Types, Starting, Serving, Turns, InLine
<1>1. Types'
  BY <1>0 DEF Types, InLine
<1>2. Starting'
  BY <1>0 DEF Starting, InLine
<1>3. Stopping' /\ Joined'
  BY <1>0 DEF Stopping, Joined, InLine
<1>4. OwnFrames'
  BY <1>0 DEF OwnFrames, InLine, FramesOf
<1>5. TurnFollowsConnection'
  BY <1>0 DEF TurnFollowsConnection, InLine
<1> QED BY <1>1, <1>2, <1>3, <1>4, <1>5

LEMMA FinishStep == ASSUME IInv, NEW t \in Turns, Finish(t) PROVE IInv'
<1> USE DEF IInv, Finish, run, mgr, conn, work, Become, Publish, ParentDone, Turns,
   Errors
<1>a. \/ /\ t \in ok' /\ ok' = ok \cup {t} /\ told' \in [Turns -> Counters]
         /\ told'[t]["done"] = told[t]["done"] + 1 /\ told'[t]["error"] = told[t]["error"]
         /\ \A u \in Turns \ {t} : told'[u] = told[u]
      \/ UNCHANGED <<ok, told>>
  BY OneMore DEF Frames
<1>0. /\ t \in Turns /\ phase # "failed" /\ (phase = "start" => step = 12)
      /\ turn'[t] = "ran"
      /\ \A u \in Turns \ {t} : turn'[u] = turn[u] /\ told'[u] = told[u]
      /\ told' \in [Turns -> Counters]
      /\ turn' \in [Turns -> {"none", "spawned", "asked", "failed", "ended"} \cup InLine]
  BY <1>a DEF Types, Starting, Serving, Turns, InLine
<1>1. Types'
  BY <1>0 DEF Types, InLine, Counters, Frames
<1>2. Starting'
  BY <1>0 DEF Starting, InLine
<1>3. Stopping' /\ Joined'
  BY <1>0 DEF Stopping, Joined, InLine
<1>4. OwnFrames'
  <2> SUFFICES ASSUME NEW u \in Turns PROVE FramesOf(u)'
    BY DEF OwnFrames, FramesOf
  <2>1. CASE u = t
    <3>1. turn[t] = "running" /\ t \notin ok /\ told[t]["done"] = 0 /\ told[t]["error"] = 0
      BY DEF OwnFrames, FramesOf
    <3> QED BY <1>0, <1>a, <2>1, <3>1 DEF FramesOf
  <2>2. CASE u # t
    BY <1>0, <1>a, <2>2 DEF OwnFrames, FramesOf
  <2> QED BY <2>1, <2>2
<1>5. TurnFollowsConnection'
  BY <1>0 DEF TurnFollowsConnection, InLine
<1> QED BY <1>1, <1>2, <1>3, <1>4, <1>5

LEMMA CollectStep == ASSUME IInv, NEW t \in Turns, Collect(t) PROVE IInv'
<1> USE DEF IInv, Collect, run, mgr, conn, work, Become, Publish, Tells, ParentDone, Turns,
   Errors
<1>0. /\ t \in Turns /\ phase # "failed" /\ (phase = "start" => step = 12)
      /\ turn'[t] \in {"failed", "ended"}
      /\ \A u \in Turns \ {t} : turn'[u] = turn[u] /\ told'[u] = told[u]
      /\ told' \in [Turns -> Counters]
      /\ turn' \in [Turns -> {"none", "spawned", "asked", "failed", "ended"} \cup InLine]
  BY DEF Types, Starting, Serving, Turns, InLine
<1>1. Types'
  BY <1>0 DEF Types, InLine
<1>2. Starting'
  BY <1>0 DEF Starting, InLine
<1>3. Stopping' /\ Joined'
  BY <1>0 DEF Stopping, Joined, InLine
<1>4. OwnFrames'
  <2> SUFFICES ASSUME NEW u \in Turns PROVE FramesOf(u)'
    BY DEF OwnFrames, FramesOf
  <2>1. CASE u = t
    BY <1>0, <2>1 DEF OwnFrames, FramesOf, Types
  <2>2. CASE u # t
    BY <1>0, <2>2 DEF OwnFrames, FramesOf
  <2> QED BY <2>1, <2>2
<1>5. TurnFollowsConnection'
  BY <1>0 DEF TurnFollowsConnection, InLine
<1> QED BY <1>1, <1>2, <1>3, <1>4, <1>5

LEMMA ReplyStep == ASSUME IInv, NEW t \in Turns, Reply(t) PROVE IInv'
<1> USE DEF IInv, Reply, run, mgr, conn, work, Become, Publish, ParentDone, Turns, Errors
<1>a. /\ told' \in [Turns -> Counters]
      /\ told'[t]["error"] = told[t]["error"] + 1 /\ told'[t]["done"] = told[t]["done"]
      /\ \A u \in Turns \ {t} : told'[u] = told[u]
  BY OneMore DEF Frames
<1>0. /\ t \in Turns /\ phase # "failed" /\ (phase = "start" => step = 12)
      /\ turn'[t] = "ended"
      /\ \A u \in Turns \ {t} : turn'[u] = turn[u] /\ told'[u] = told[u]
      /\ told' \in [Turns -> Counters]
      /\ turn' \in [Turns -> {"none", "spawned", "asked", "failed", "ended"} \cup InLine]
  BY <1>a DEF Types, Starting, Serving, Turns, InLine
<1>1. Types'
  BY <1>0 DEF Types, InLine, Counters, Frames
<1>2. Starting'
  BY <1>0 DEF Starting, InLine
<1>3. Stopping' /\ Joined'
  BY <1>0 DEF Stopping, Joined, InLine
<1>4. OwnFrames'
  <2> SUFFICES ASSUME NEW u \in Turns PROVE FramesOf(u)'
    BY DEF OwnFrames, FramesOf
  <2>1. CASE u = t
    <3>1. turn[t] = "failed" /\ told[t]["error"] = 0 /\ FramesOf(t)
      BY DEF OwnFrames, FramesOf
    <3> QED BY <1>0, <1>a, <2>1, <3>1 DEF FramesOf
  <2>2. CASE u # t
    BY <1>0, <1>a, <2>2 DEF OwnFrames, FramesOf
  <2> QED BY <2>1, <2>2
<1>5. TurnFollowsConnection'
  BY <1>0 DEF TurnFollowsConnection, InLine
<1> QED BY <1>1, <1>2, <1>3, <1>4, <1>5

(* ---- all together ------------------------------------------------------- *)
LEMMA Inductive == IInv /\ [Next]_vars => IInv'
<1> SUFFICES ASSUME IInv, [Next]_vars PROVE IInv'
  OBVIOUS
<1>1. CASE UNCHANGED vars
  BY <1>1 DEF vars, run, mgr, conn, work, IInv, Types, Starting, Stopping, Joined, OwnFrames,
     TurnFollowsConnection, FramesOf
<1>2. CASE StageUp \/ StartReady \/ StageFails \/ RollBack \/ Signal \/ Expire
  BY <1>2, StageUpStep, StartReadyStep, StageFailsStep, RollBackStep, SignalStep, ExpireStep
<1>3. CASE ShutdownStep
  BY <1>3, CloseListenerStep, AwaitHandlersStep, StopMcpStep, CloseSessionsStep,
    CloseHubsStep, CancelActiveStep, AwaitTurnsStep, CloseAgentsStep, CloseStoresStep,
   ExitStep DEF ShutdownStep
<1>4. CASE SseOpen \/ SseClientGone \/ SseEnds \/ WsOpen \/ WsClientGone \/ WsStep
  BY <1>4, SseOpenStep, SseClientGoneStep, SseEndsStep, WsOpenStep, WsClientGoneStep,
    CancelAllTurnsStep, CancelConnStep, WsLeavesStep DEF WsStep
<1>5. ASSUME NEW t \in WsTurns,
             MessageFrame(t) \/ Register(t) \/ CancelFrame(t) \/ RepeatedFrame(t) PROVE IInv'
  BY <1>5, MessageFrameStep, RegisterStep, CancelFrameStep, RepeatedFrameStep
<1>6. ASSUME NEW t \in RestTurns, Post(t) \/ PosterGone(t) PROVE IInv'
  BY <1>6, PostStep, PosterGoneStep
<1>7. ASSUME NEW t \in Turns, TurnStep(t) PROVE IInv'
  BY <1>7, RefuseStep, AdmitStep, BeginStep, FinishStep, CollectStep, ReplyStep DEF TurnStep
<1> QED BY <1>1, <1>2, <1>3, <1>4, <1>5, <1>6, <1>7 DEF Next

(* Once the handlers of REST have ended there is no turn of theirs any more.  *)
LEMMA QuietedStep == IInv /\ Quieted /\ [Next]_vars => Quieted'
<1> SUFFICES ASSUME IInv, Quieted, [Next]_vars PROVE Quieted'
  OBVIOUS
<1> USE DEF Quieted, Deaf, RestOver
<1>0. step \in Nat /\ DOMAIN turn = Turns /\ RestTurns \subseteq Turns
  BY DEF IInv, Types, Turns
<1>1. CASE StageUp \/ StartReady \/ StageFails \/ RollBack \/ Signal \/ Expire
  BY <1>0, <1>1 DEF StageUp, StartReady, StageFails, RollBack, Signal, Expire, conn, work, mgr
<1>2. CASE ShutdownStep
  <2>1. CASE CloseListener
    BY <1>0, <2>1 DEF CloseListener, At, Shut, work
  <2>2. CASE AwaitHandlers
    BY <1>0, <2>2 DEF AwaitHandlers, HandlersDone, HandlersLeft, At, Shut, work
  <2>3. CASE ~CloseListener /\ ~AwaitHandlers
    <3>1. UNCHANGED <<accepting, expired, turn>> /\ phase = "stop"
      BY <1>2, <2>3 DEF ShutdownStep, StopMcp, CloseSessions, CloseHubs, CancelActive,
        AwaitTurns, CloseAgents, CloseStores, Exit, At, work
    <3>2. Shut[step] \notin {"listener", "handlers"}
      BY <1>2, <2>3 DEF ShutdownStep, StopMcp, CloseSessions, CloseHubs, CancelActive,
        AwaitTurns, CloseAgents, CloseStores, Exit, At
    <3>3. step > 2
      <4>1. step \in 1..12 /\ Shut[1] = "listener" /\ Shut[2] = "handlers"
        BY DEF IInv, Types, Shut
      <4>2. step # 1 /\ step # 2
        BY <3>2, <4>1
      <4> QED BY <4>1, <4>2
    <3> QED BY <1>0, <3>1, <3>3
  <2> QED BY <2>1, <2>2, <2>3
<1>3. CASE /\ UNCHANGED <<run, accepting>>
         /\ \A t \in RestTurns : turn[t] \in {"none", "ended"} => turn'[t] = turn[t]
  BY <1>3 DEF run
<1>4. CASE UNCHANGED vars
  BY <1>3, <1>4 DEF vars, work
<1>5. CASE SseOpen \/ SseClientGone \/ SseEnds \/ WsOpen \/ WsClientGone \/ WsStep
  BY <1>3, <1>5 DEF SseOpen, SseClientGone, SseEnds, WsOpen, WsClientGone, WsStep,
    CancelAllTurns, CancelConn, WsLeaves, work
<1>6. ASSUME NEW t \in WsTurns,
             MessageFrame(t) \/ Register(t) \/ CancelFrame(t) \/ RepeatedFrame(t) PROVE Quieted'
  <2>1. \A u \in RestTurns : turn'[u] = turn[u]
    BY <1>0, <1>6, DaemonAssumption DEF MessageFrame, Register, CancelFrame, RepeatedFrame, Become
  <2> QED BY <1>3, <1>6, <2>1 DEF MessageFrame, Register, CancelFrame, RepeatedFrame
<1>7. ASSUME NEW t \in RestTurns, Post(t) \/ PosterGone(t) PROVE Quieted'
  <2>1. CASE Post(t)
    BY <1>0, <2>1 DEF Post, Serving, run, mgr, conn
  <2>2. CASE PosterGone(t)
    BY <1>3, <2>2 DEF PosterGone
  <2> QED BY <1>7, <2>1, <2>2
<1>8. ASSUME NEW t \in Turns, TurnStep(t) PROVE Quieted'
  <2>1. \A u \in RestTurns : turn[u] \in {"none", "ended"} => turn'[u] = turn[u]
    BY <1>0, <1>8 DEF TurnStep, Refuse, Admit, Begin, Finish, Collect, Reply, Become
  <2> QED BY <1>3, <1>8, <2>1 DEF TurnStep, Refuse, Admit, Begin, Finish, Collect, Reply
<1> QED BY <1>1, <1>2, <1>4, <1>5, <1>6, <1>7, <1>8 DEF Next

(* In Start, roll-back and Shutdown whoever is up has what it works with, and *)
(* a Start that fails leaves nothing open that a field held.                  *)
LEMMA NeedsAreMet == ASSUME IInv PROVE NeedsMet
<1> USE DEF IInv
<1>0. /\ Needs["session"] = Users /\ Needs["api"] = Components
      /\ DOMAIN Needs = {"session", "api"}
  BY DEF Needs, Users
<1>1. ASSUME "session" \in open, ~expired PROVE Users \ absent \subseteq open
  <2>1. CASE phase = "start"
    BY <1>1, <2>1, SessionsLast DEF Starting
  <2>2. CASE phase = "failed"
    BY <1>1, <2>2 DEF Starting
  <2>3. CASE phase \notin {"start", "failed"}
    BY <1>1, <2>3 DEF Stopping
  <2> QED BY <2>1, <2>2, <2>3
<1>2. ASSUME "api" \in open PROVE Components \ absent \subseteq open
  <2>1. CASE phase = "start"
    <3>1. step = 12
      BY <1>2, <2>1 DEF Starting, Types, Stages
    <3> QED BY <2>1, <3>1, AllUp
  <2>2. CASE phase = "failed"
    BY <1>2, <2>2 DEF Starting
  <2>3. CASE phase \notin {"start", "failed"}
    BY <1>2, <2>3 DEF Stopping
  <2> QED BY <2>1, <2>2, <2>3
<1> QED BY <1>0, <1>1, <1>2 DEF NeedsMet

(* A Start that fails closes all that a field held, nothing is closed before  *)
(* what uses it, and of what turns use only MCP goes down under one, of a     *)
(* WebSocket, while the deadline of Shutdown holds.                           *)
THEOREM ComponentsStaySound == Spec => []ComponentsSound
<1>1. IInv /\ Quieted => ComponentsSound
  <2>1. IInv => FailedStartClosesHeld
    <3> SUFFICES ASSUME IInv, phase = "failed", step > Len(Undo) PROVE open \subseteq {"upstreams"}
      BY DEF FailedStartClosesHeld
    <3>1. /\ Len(Undo) = 7 /\ {Undo[n] : n \in 1..7} = (Components \cup {"agent"})
      BY DEF Undo, Components
    <3>2. \A n \in 1..7 : Undo[n] \notin held
      BY <3>1 DEF IInv, Starting, Types
    <3>3. held = {}
      BY <3>1, <3>2 DEF IInv, Starting
    <3> QED BY <3>3 DEF IInv, Starting
  <2>2. ASSUME IInv, ~expired, NEW t \in Turns, turn[t] = "running"
        PROVE Users \ absent \subseteq open
    <3>1. active # {} /\ phase # "failed" /\ (phase = "start" => step = 12)
      BY <2>2 DEF IInv, Types, Starting, Joined, InLine
    <3>2. CASE phase = "start"
      BY <2>2, <3>1, <3>2, AllUp DEF IInv, Users, Components
    <3>3. CASE phase # "start"
      BY <2>2, <3>1, <3>3 DEF IInv, Types, Stopping
    <3> QED BY <3>2, <3>3
  <2>3. ASSUME IInv, Quieted, ~expired, NEW t \in Turns, turn[t] = "running", t \notin WsTurns
        PROVE "mcp" \in open
    <3>1. /\ phase # "failed" /\ (phase = "start" => step = 12) /\ t \in RestTurns
          /\ absent \subseteq {"memory"}
      BY <2>3 DEF IInv, Types, Starting, Turns
    <3>2. phase # "exited" /\ (phase = "stop" => step <= 2)
      BY <2>3, <3>1 DEF Quieted, RestOver, IInv, Types
    <3>3. Components \ absent \subseteq open
      BY <2>3, <3>1, <3>2, AllUp DEF IInv, Types, Stopping
    <3> QED BY <3>1, <3>3 DEF Components
  <2>4. IInv => NeedsMet
    BY NeedsAreMet
  <2> QED BY <2>1, <2>2, <2>3, <2>4 DEF ComponentsSound, UsersFirst, Users
<1>2. Init => Quieted
  BY DEF Init, Quieted, Deaf, RestOver
<1> QED BY <1>1, <1>2, Initially, Inductive, QuietedStep, PTL DEF Spec

(* No turn outlives its WebSocket uncancelled, and each ends with one frame of*)
(* its own, or with both if the manager closes as it returns.                 *)
THEOREM TurnsStaySound == Spec => []TurnsSound
<1>1. IInv => TurnsSound
  <2>1. IInv => OneTerminal
    <3> SUFFICES ASSUME IInv, NEW t \in Turns
                 PROVE /\ told[t]["done"] <= 1 /\ told[t]["error"] <= 1
                       /\ told[t]["done"] + told[t]["error"] > 1 => smClosed
                       /\ turn[t] = "ended" => told[t]["done"] + told[t]["error"] > 0
      BY DEF OneTerminal
    <3>1. FramesOf(t)
      BY DEF IInv, OwnFrames
    <3>2. told[t]["done"] \in {0, 1} /\ told[t]["error"] \in {0, 1}
      BY <3>1 DEF FramesOf
    <3> QED BY <3>1, <3>2 DEF FramesOf
  <2> QED BY <2>1 DEF IInv, TurnsSound
<1> QED BY <1>1, Initially, Inductive, PTL DEF Spec

=============================================================================
