----------------------------- MODULE McpClient ------------------------------
(* One generation of a connection to an upstream MCP server                  *)
(* (internal/mcp/client.go) over a duplex line transport (stdio.go).         *)
(* Goroutines: the manager, which connects, initialises, discovers the tools *)
(* and later closes; the callers of CallTool; the receive loop, the only one *)
(* that reads the transport; and the control loop, which answers the         *)
(* server's own requests.  Anyone but the last may run fail().               *)
(* A step is what happens between two lock operations, channel operations or *)
(* transport calls.  The server is the environment: it answers, repeats an   *)
(* answer, sends requests, hangs up, or sends what kills the connection      *)
(* ("malformed": an envelope validateEnvelope refuses, an id never issued, a *)
(* notification other than tools/list_changed, which is McpUpstream's).      *)
EXTENDS Integers, Sequences, FiniteSets

CONSTANTS Manager, Recv,       \* goroutines
          Callers,             \* goroutines that call a tool once
          NoOne,
          MaxPending,          \* maxPendingRequests
          ControlCap,          \* controlBufferSize
          MaxPages,            \* maxListToolsPages
          MaxServer            \* bound: messages the server sends

ASSUME ClientAssumption == /\ MaxPending \in Nat \ {0} /\ MaxPages \in Nat \ {0}
                           /\ ControlCap \in Nat /\ MaxServer \in Nat
                           /\ IsFiniteSet(Callers) /\ Manager # Recv
                           /\ Manager \notin Callers /\ Recv \notin Callers

Requesters == Callers \cup {Manager}
Failers == Requesters \cup {Recv}
MaxId == Cardinality(Callers) + MaxPages + 1      \* initialize, pages, calls
Ids == 1..MaxId

VARIABLES
  stage,       \* how far the manager's goroutine is with this client
  status,      \* c.status
  pc,          \* pc[g]: where goroutine g is
  nextID,      \* c.nextID, which is c.issuedHighWater
  pending,     \* c.pending: the requests in the table
  mine,        \* mine[g]: id of g's request, 0 for none
  ch,          \* ch[i]: the channel of capacity 1 of request i
  ret,         \* ret[g]: what g's last request is about to return, or returned
  outcome,     \* outcome[i]: what request i returned
  ctxDone,     \* goroutines whose context is over
  failing,     \* progress of the one run of fail(): see FailSteps
  failer,      \* the goroutine that runs it
  orphans,     \* calls fail() took out of pending and has yet to answer
  closed,      \* c.closedErr # nil
  held,        \* the call dispatchResponse found for the reply in hand
  control,     \* requests of the server in c.control
  ctl,         \* control loop: "off", "run", "exited"
  inbox,       \* what the server wrote and the receive loop has not read
  wire,        \* "new", "open", "eof" (the server hung up), "closed" (by us)
  sent,        \* requests the server has received
  answered,    \* requests the server has answered
  served       \* messages the server has sent

vars == <<stage, status, pc, nextID, pending, mine, ch, ret, outcome, ctxDone,
          failing, failer, orphans, closed, held, control, ctl, inbox, wire,
          sent, answered, served>>
callVars == <<nextID, pending, mine, ch, ret, outcome>>
failVars == <<failing, failer, orphans, closed>>
loopVars == <<held, control, ctl>>
wireVars == <<inbox, wire, sent, answered, served>>

Stages == {"new", "initialize", "notify", "discover", "up", "abort",
           "close", "closed", "dropped"}
FailSteps == {"no", "deliver", "mark", "done"}
Msg(t, i) == [t |-> t, id |-> i]
NoMsg == Msg("none", 0)
ErrMsg == Msg("error", 0)                \* clientResponse{err: ...}
(* What a reply carries: a result; for tools/list a page with a next cursor  *)
(* or one that breaks the rules; a JSON-RPC error; or what cannot be decoded.*)
Bodies == {"good", "more", "bad_list", "rpc_error", "garbled"}

Init ==
  /\ stage = "new" /\ status = "disconnected"
  /\ pc = [g \in Failers |-> IF g = Recv THEN "off" ELSE "idle"]
  /\ nextID = 0 /\ pending = {}
  /\ mine = [g \in Requesters |-> 0] /\ ch = [i \in Ids |-> NoMsg]
  /\ ret = [g \in Requesters |-> "none"] /\ outcome = [i \in Ids |-> "none"]
  /\ ctxDone = {} /\ failing = "no" /\ failer = NoOne /\ orphans = {}
  /\ closed = FALSE /\ held = NoMsg /\ control = 0 /\ ctl = "off"
  /\ inbox = <<>> /\ wire = "new" /\ sent = {} /\ answered = {} /\ served = 0

Goto(g, l) == pc' = [pc EXCEPT ![g] = l]

(* Connect: transport.Start and the two loops; a Start that fails leaves the *)
(* client as it was, and the manager drops it.  A client is published to its *)
(* callers once its tools are known: one that is dropped was never theirs.   *)
Connect ==
  /\ stage = "new" /\ status = "disconnected"
  /\ \/ /\ wire' = "open" /\ stage' = "initialize" /\ status' = "connecting"
        /\ Goto(Recv, "recv") /\ ctl' = "run"
     \/ /\ stage' = "dropped" /\ UNCHANGED <<wire, status, pc, ctl>>
  /\ UNCHANGED <<callVars, ctxDone, failVars, held, control, inbox, sent,
                 answered, served>>

(* ---- request: register, send, wait, retire ------------------------------ *)
NeverDead == FALSE                                               \* mutant
Dead == closed

Register(g) ==
  /\ IF Dead
       THEN /\ ret' = [ret EXCEPT ![g] = "down"]
            /\ UNCHANGED <<pc, nextID, pending, mine, ch, outcome>>
       ELSE IF Cardinality(pending) >= MaxPending
       THEN /\ Goto(g, "fail") /\ ret' = [ret EXCEPT ![g] = "down"]
            /\ mine' = [mine EXCEPT ![g] = 0]
            /\ UNCHANGED <<nextID, pending, ch, outcome>>
       ELSE /\ Goto(g, "send") /\ nextID' = nextID + 1
            /\ pending' = pending \cup {nextID + 1}
            /\ mine' = [mine EXCEPT ![g] = nextID + 1]
            /\ UNCHANGED ch
            /\ ret' = [ret EXCEPT ![g] = "none"]
            /\ outcome' = [outcome EXCEPT ![nextID + 1] = "open"]

(* transport.Send; its error is the caller's own when the context is over,   *)
(* and the end of the connection otherwise.                                  *)
Send(g) ==
  /\ pc[g] = "send"
  /\ \/ /\ g \notin ctxDone /\ wire \in {"open", "eof"} /\ Goto(g, "wait")
        /\ sent' = IF wire = "open" THEN sent \cup {mine[g]} ELSE sent
        /\ UNCHANGED ret
     \/ /\ g \in ctxDone /\ Goto(g, "retire")
        /\ ret' = [ret EXCEPT ![g] = "gone"] /\ UNCHANGED sent
     \/ /\ g \notin ctxDone /\ wire \in {"eof", "closed"} /\ Goto(g, "fail")
        /\ ret' = [ret EXCEPT ![g] = "down"] /\ UNCHANGED sent
  /\ UNCHANGED <<stage, status, nextID, pending, mine, ch, outcome, ctxDone,
                 failVars, loopVars, inbox, wire, answered, served>>

(* What the reply in the channel makes of the request.                       *)
Reply(g) == ch[mine[g]]
Returned(g) == IF Reply(g).t \in {"error", "garbled"} THEN "down"
               ELSE IF Reply(g).id # mine[g] THEN "foreign" ELSE Reply(g).t

AwaitReply(g) ==
  /\ pc[g] = "wait" /\ Reply(g) # NoMsg
  /\ ret' = [ret EXCEPT ![g] = Returned(g)]
  /\ Goto(g, IF Reply(g).t = "garbled" THEN "fail" ELSE "retire")
  /\ UNCHANGED <<stage, status, nextID, pending, mine, ch, outcome, ctxDone,
                 failVars, loopVars, wireVars>>

(* ctx.Done: notifications/cancelled is sent at best, the caller leaves.     *)
AwaitCancel(g) ==
  /\ pc[g] = "wait" /\ g \in ctxDone
  /\ ret' = [ret EXCEPT ![g] = "gone"] /\ Goto(g, "retire")
  /\ UNCHANGED <<stage, status, nextID, pending, mine, ch, outcome, ctxDone,
                 failVars, loopVars, wireVars>>

Retire(g) ==
  /\ pc[g] = "retire"
  /\ pending' = pending \ {mine[g]}
  /\ outcome' = IF mine[g] = 0 THEN outcome
                ELSE [outcome EXCEPT ![mine[g]] =
                        IF ret[g] \in Bodies THEN "reply" ELSE ret[g]]
  /\ Goto(g, "idle")
  /\ UNCHANGED <<stage, status, nextID, mine, ch, ret, ctxDone, failVars,
                 loopVars, wireVars>>

CtxEnds(g) ==
  /\ pc[g] \in {"send", "wait"} /\ g \notin ctxDone
  /\ ctxDone' = ctxDone \cup {g}
  /\ UNCHANGED <<stage, status, pc, callVars, failVars, loopVars, wireVars>>

(* ---- CallTool, and Ping, which does not look at the status -------------- *)
CallTool(g) ==
  /\ g \in Callers /\ pc[g] = "idle" /\ mine[g] = 0 /\ ret[g] = "none"
  /\ stage \in {"up", "close", "closed"}              \* it has the client
  /\ \/ Register(g)                     \* connected, or a Ping
     \/ /\ status # "connected" /\ ret' = [ret EXCEPT ![g] = "down"]
        /\ UNCHANGED <<pc, nextID, pending, mine, ch, outcome>>
  /\ UNCHANGED <<stage, status, ctxDone, failVars, loopVars, wireVars>>

(* ---- fail: once, by whoever comes first; the others wait for it --------- *)
Waiting == pending
FailSwap(g) ==
  /\ pc[g] = "fail" /\ failing = "no"
  /\ failing' = "deliver" /\ failer' = g /\ closed' = TRUE
  /\ orphans' = Waiting
  /\ pending' = {}
  /\ UNCHANGED <<stage, status, pc, nextID, mine, ch, ret, outcome, ctxDone,
                 loopVars, wireVars>>

(* The delivery never waits: a call that has its reply already keeps it.     *)
FailDeliver(o) ==
  /\ failing = "deliver" /\ o \in orphans
  /\ ch' = [ch EXCEPT ![o] = IF @ = NoMsg THEN ErrMsg ELSE @]
  /\ orphans' = orphans \ {o}
  /\ UNCHANGED <<stage, status, pc, nextID, pending, mine, ret, outcome,
                 ctxDone, failing, failer, closed, loopVars, wireVars>>

FailMark ==
  /\ failing = "deliver" /\ orphans = {}
  /\ failing' = "mark" /\ status' = "error"
  /\ UNCHANGED <<stage, pc, callVars, ctxDone, failer, orphans, closed,
                 loopVars, wireVars>>

(* transport.Close, which ends the child process, and close(recvDone).       *)
FailClose ==
  /\ failing = "mark" /\ failing' = "done" /\ wire' = "closed"
  /\ UNCHANGED <<stage, status, pc, callVars, ctxDone, failer, orphans, closed,
                 loopVars, inbox, sent, answered, served>>

AfterFail(g) == IF g = Recv THEN "exited"
                ELSE IF stage \in {"abort", "close"} /\ g = Manager THEN "join"
                ELSE "retire"
FailReturn(g) ==
  /\ pc[g] = "fail" /\ failing = "done"
  /\ Goto(g, AfterFail(g))
  /\ UNCHANGED <<stage, status, callVars, ctxDone, failVars, loopVars, wireVars>>

(* ---- runRecvLoop and dispatchResponse ----------------------------------- *)
Head1 == Head(inbox)
Newest(m) == CHOOSE i \in pending : \A j \in pending : j <= i     \* mutant
Consumer(m) == m.id
ControlFull == control >= ControlCap
FatalMsg(m) == m.t = "malformed" \/ (m.t = "request" /\ ControlFull)

Receive ==
  /\ pc[Recv] = "recv" /\ inbox # <<>> /\ wire \in {"open", "eof"}
  /\ inbox' = Tail(inbox)
  /\ LET m == Head1 IN
       \/ /\ FatalMsg(m) /\ Goto(Recv, "fail") /\ UNCHANGED <<held, control>>
       \/ /\ m.t \in Bodies
          /\ IF m.id \in pending
               THEN held' = [t |-> m.t, id |-> m.id, to |-> Consumer(m)] /\ Goto(Recv, "deliver")
               ELSE UNCHANGED <<held, pc>>         \* late or duplicate: dropped
          /\ UNCHANGED control
       \/ /\ m.t = "request" /\ ~ControlFull
          /\ control' = control + 1 /\ UNCHANGED <<held, pc>>
  /\ UNCHANGED <<stage, status, callVars, ctxDone, failVars, ctl, wire, sent,
                 answered, served>>

(* The reply goes into the channel of the call that was found, if it is      *)
(* still empty.                                                              *)
Deliver ==
  /\ pc[Recv] = "deliver" /\ Goto(Recv, "recv") /\ held' = NoMsg
  /\ ch' = [ch EXCEPT ![held.to] = IF @ = NoMsg THEN Msg(held.t, held.id) ELSE @]
  /\ UNCHANGED <<stage, status, nextID, pending, mine, ret, outcome, ctxDone,
                 failVars, control, ctl, wireVars>>

(* transport.Recv fails: the process is gone, or fail() closed the pipes.    *)
ReceiveError ==
  /\ pc[Recv] = "recv"
  /\ (wire = "eof" /\ inbox = <<>>) \/ wire = "closed"
  /\ Goto(Recv, IF failing = "done" THEN "exited" ELSE "fail")
  /\ UNCHANGED <<stage, status, callVars, ctxDone, failVars, loopVars, wireVars>>

(* ---- runControlLoop: answers ping, refuses the rest; the result of Send   *)
(* is ignored.  It ends when the receive loop has closed the channel.        *)
ControlLeftOpen == FALSE                                         \* mutant
ControlClosed == pc[Recv] = "exited"
Control ==
  /\ ctl = "run"
  /\ \/ control > 0 /\ control' = control - 1 /\ UNCHANGED ctl
     \/ control = 0 /\ ControlClosed /\ ctl' = "exited" /\ UNCHANGED control
  /\ UNCHANGED <<stage, status, pc, callVars, ctxDone, failVars, held, wireVars>>

(* ---- the manager: Initialize, DiscoverTools, Close ---------------------- *)
ManagerRests == pc[Manager] = "idle"
Step(from, to) == ManagerRests /\ stage = from /\ stage' = to

Request(from, to) ==
  /\ Step(from, to) /\ ret[Manager] = "none" /\ Register(Manager)
  /\ UNCHANGED <<status, ctxDone, failVars, loopVars, wireVars>>

(* The reply to initialize: an answer the client cannot use, or no answer,   *)
(* makes the manager close the connection.                                   *)
Initialized ==
  /\ \/ ret[Manager] = "good" /\ Step("notify", "discover") /\ status' = "connected"
     \/ Step("notify", "abort") /\ UNCHANGED status   \* version, tools, notify
  /\ ret[Manager] # "none" /\ ret' = [ret EXCEPT ![Manager] = "none"]
  /\ mine' = [mine EXCEPT ![Manager] = 0]
  /\ ctxDone' = ctxDone \ {Manager}
  /\ UNCHANGED <<pc, nextID, pending, ch, outcome, failVars, loopVars, wireVars>>

(* One page of tools/list: the last one, one more, or a reason to give up;   *)
(* a page that breaks the rules, or one too many, fails the connection.      *)
Pages == nextID - 1
ListPage == /\ ManagerRests /\ stage = "discover" /\ ret[Manager] = "none"
            /\ Register(Manager)
            /\ UNCHANGED <<stage, status, ctxDone, failVars, loopVars, wireVars>>
TooMany == ret[Manager] = "more" /\ Pages >= MaxPages
Listed ==
  /\ ManagerRests /\ stage = "discover" /\ ret[Manager] # "none"
  /\ ret' = [ret EXCEPT ![Manager] = "none"] /\ mine' = [mine EXCEPT ![Manager] = 0]
  /\ ctxDone' = ctxDone \ {Manager}
  /\ \/ ret[Manager] = "good" /\ stage' = "up" /\ UNCHANGED pc
     \/ ret[Manager] = "more" /\ ~TooMany /\ UNCHANGED <<stage, pc>>
     \/ /\ TooMany \/ ret[Manager] = "bad_list"
        /\ stage' = "abort" /\ Goto(Manager, "fail")
     \/ /\ ret[Manager] \notin {"good", "more", "bad_list"}
        /\ stage' = "abort" /\ UNCHANGED pc
  /\ UNCHANGED <<status, nextID, pending, ch, outcome, failVars, loopVars, wireVars>>

(* Close: fail(ErrMCPTransportClosed), then both loops are waited for.       *)
Close ==
  /\ ManagerRests
  /\ \/ stage = "up" /\ stage' = "close"
     \/ stage = "abort" /\ UNCHANGED stage
  /\ Goto(Manager, "fail") /\ mine' = [mine EXCEPT ![Manager] = 0]
  /\ UNCHANGED <<status, nextID, pending, ch, ret, outcome, ctxDone, failVars,
                 loopVars, wireVars>>
LoopsLeft == pc[Recv] = "exited" /\ ctl = "exited"
RecvLeft == pc[Recv] = "exited"                                  \* mutant
Joined == LoopsLeft
Join ==
  /\ pc[Manager] = "join" /\ Joined
  /\ Goto(Manager, "idle") /\ status' = "disconnected"
  /\ stage' = IF stage = "close" THEN "closed" ELSE "dropped"
  /\ UNCHANGED <<callVars, ctxDone, failVars, loopVars, wireVars>>

(* ---- the server --------------------------------------------------------- *)
ServerSends ==
  /\ wire = "open" /\ served < MaxServer /\ served' = served + 1
  /\ \/ \E i \in sent : \E b \in IF i = mine[Manager] THEN Bodies ELSE {"good", "garbled"} :
           inbox' = Append(inbox, Msg(b, i)) /\ answered' = answered \cup {i}
     \/ /\ \E t \in {"request", "malformed"} : inbox' = Append(inbox, Msg(t, 0))
        /\ UNCHANGED answered
  /\ UNCHANGED <<stage, status, pc, callVars, ctxDone, failVars, loopVars, wire, sent>>
HangUp ==
  /\ wire = "open" /\ wire' = "eof"
  /\ UNCHANGED <<stage, status, pc, callVars, ctxDone, failVars, loopVars, inbox,
                 sent, answered, served>>

CallStep(g) == \/ Send(g) \/ AwaitReply(g) \/ AwaitCancel(g) \/ Retire(g)
FailStep == (\E o \in Ids : FailDeliver(o)) \/ FailMark \/ FailClose
RecvStep == Receive \/ Deliver \/ ReceiveError
ManagerStep == \/ Connect \/ Request("initialize", "notify") \/ Initialized
               \/ ListPage \/ Listed \/ Join
Next ==
  \/ ManagerStep \/ Close
  \/ \E g \in Requesters : CallTool(g) \/ CallStep(g) \/ CtxEnds(g)
  \/ \E g \in Failers : FailSwap(g) \/ FailReturn(g)
  \/ FailStep \/ RecvStep \/ Control
  \/ ServerSends \/ HangUp

Spec == Init /\ [][Next]_vars

(* Every goroutine runs; nobody has to call, ping, close or cancel, and the  *)
(* server owes nothing.                                                      *)
FairSpec ==
  /\ Spec
  /\ WF_vars(FailStep) /\ WF_vars(RecvStep) /\ WF_vars(Control)
  /\ \A g \in Requesters : WF_vars(CallStep(g))
  /\ \A g \in Failers : WF_vars(FailSwap(g) \/ FailReturn(g))
  /\ WF_vars(ManagerStep)

(* ---- properties --------------------------------------------------------- *)
TypeOK ==
  /\ stage \in Stages /\ status \in {"disconnected", "connecting", "connected", "error"}
  /\ pc \in [Failers -> {"off", "idle", "send", "wait", "retire", "fail", "join",
                         "recv", "deliver", "exited"}]
  /\ nextID \in 0..MaxId /\ pending \subseteq 1..nextID
  /\ mine \in [Requesters -> 0..MaxId] /\ outcome \in [Ids -> {"none", "open", "reply", "down", "gone"}]
  /\ failing \in FailSteps /\ orphans \subseteq Ids
  /\ control \in 0..ControlCap /\ closed \in BOOLEAN

(* The connection is a call table (client.go, request, fail,                 *)
(* dispatchResponse): whatever fail, a late or repeated reply, a caller that *)
(* gives up and the receive loop do to each other, every request returns     *)
(* once, with its own answer, its own cancellation, or because the link fell.*)
Calls == INSTANCE McpCallTable WITH link <- IF closed THEN "down" ELSE "up"
ImplementsCallTable == Calls!Spec

(* A request that is still open has somewhere its answer can come from: it   *)
(* is in c.pending, fail() holds it, its channel is full, or its goroutine   *)
(* is not waiting (request, retire and fail, which take each other's entries *)
(* out of the map).                                                          *)
NoCallForgotten ==
  \A i \in Ids : outcome[i] = "open" =>
    \E g \in Requesters :
      /\ mine[g] = i
      /\ \/ i \in pending \cup orphans \/ ch[i] # NoMsg \/ pc[g] \in {"retire", "fail"}

(* Close returns only when the loops are gone, the transport is closed and   *)
(* no call is left in the table (Close and wg.Wait): the manager counts on   *)
(* it when it starts the next generation.                                    *)
CloseCollects ==
  (stage \in {"closed", "dropped"} /\ wire # "new") =>
    /\ LoopsLeft /\ wire = "closed" /\ failing = "done"
    /\ pending = {} /\ orphans = {} /\ control = 0

(* Nobody waits on a dead connection: a request that is open when the link   *)
(* falls returns, without help from its context or from the server; and Close*)
(* returns, although it waits for loops one of which may be the one that is  *)
(* inside fail().                                                            *)
NobodyWaitsOnDead ==
  /\ closed ~> \A i \in Ids : outcome[i] # "open"
  /\ pc[Manager] = "fail" ~> pc[Manager] = "idle"

(* No call and no goroutine is left behind, however the connection ends.     *)
NothingLeft == TypeOK /\ NoCallForgotten /\ CloseCollects
=============================================================================
