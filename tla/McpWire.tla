------------------------------ MODULE McpWire -------------------------------
(* A client transport of yaa and the server yaa exposes, end to end, over    *)
(* each of the three transports of internal/mcp:                             *)
(*   http   streamable_http.go  and streamable_http_server.go                *)
(*   sse    sse.go              and sse_server.go                            *)
(*   stdio  stdio.go            and StdioServer in server_transport.go       *)
(* with the session automaton and the dispatch of server.go.                 *)
(* Requests are numbered in the order of their Send; each has a client side, *)
(* the goroutine inside Send, and a server side, the goroutine of its        *)
(* handler (one for all over stdio).  One client at a time is connected; when*)
(* it has been closed the manager may connect another.  Its callers may give *)
(* up at any time, sessions fall idle, the connection breaks, and the server *)
(* may be told to stop.  What McpClient does above is here just this: an     *)
(* error of Send or Recv closes the transport.                               *)
EXTENDS Integers, Sequences, FiniteSets

CONSTANTS Kinds,          \* transports to start with
          MaxSessions,    \* maxSessions of the http server
          RecvCap,        \* streamableRecvChanCapacity
          OutCap,         \* capacity of sseSession.out
          MaxConns,       \* bound: clients
          MaxReqs         \* bound: requests and notifications sent

ASSUME WireAssumption == /\ Kinds \subseteq {"http", "sse", "stdio"}
                         /\ {MaxSessions, RecvCap, OutCap, MaxConns, MaxReqs}
                              \subseteq Nat \ {0}

Reqs == 1..MaxReqs
Conns == 1..MaxConns
Sids == Conns            \* a client makes one session, at the most
NoSid == 0

VARIABLES
  kind,
  \* the client
  conn,       \* the client in use
  link,       \* "off", "open", "fail" (an error closes it), "wait", "delete", "closed"
  sid,        \* the session id it knows
  hs,         \* handshake: "initialize", "initialized", "ready"
  push,       \* http: the loop on the GET stream, "off", "on"
  inbox,      \* what Recv will read: recvCh, the GET stream, the child's stdout
  \* the requests
  issued,     \* requests sent so far
  m,          \* m[r]: method
  of,         \* of[r]: its client
  asked,      \* asked[r]: the session id it carries
  cl,         \* client side: "none", "posting", "push", "posted", "done"
  sv,         \* server side: "none", "arrive", "handle", "execute", "respond", "over"
  ses,        \* ses[r]: the session the handler works on
  ans,        \* ans[r]: what the server makes of it
  lost,       \* requests answered in a body the client does not read
  \* the server
  serving,    \* Serve runs
  table,      \* s.sessions
  state,      \* state[x]: ServerSession.state
  idle,       \* sessions whose lastActive is older than idleTimeout
  out,        \* sse: out[x], the events for the GET stream
  get         \* sse: sessions whose GET handler runs

wireVars == <<kind, conn, link, sid, hs, push, inbox, issued, m, of, asked, cl, sv,
          ses, ans, lost, serving, table, state, idle, out, get>>
clientEnd == <<conn, link, sid, hs, push>>
reqIds == <<issued, m, of, asked>>
serverEnd == <<serving, table, state, idle, out, get>>

Methods == {"initialize", "initialized", "call"}
Fresh(c) == c     \* the id the server gives to the session of client c: a new one

WireInit ==
  /\ kind \in Kinds
  /\ conn = 0 /\ link = "closed" /\ sid = NoSid /\ hs = "initialize" /\ push = "off"
  /\ inbox = <<>> /\ issued = 0
  /\ m = [r \in Reqs |-> "call"] /\ of = [r \in Reqs |-> 0] /\ asked = [r \in Reqs |-> NoSid]
  /\ cl = [r \in Reqs |-> "none"] /\ sv = [r \in Reqs |-> "none"]
  /\ ses = [r \in Reqs |-> NoSid] /\ ans = [r \in Reqs |-> "none"] /\ lost = {}
  /\ serving = TRUE /\ table = {} /\ state = [x \in Sids |-> "none"]
  /\ idle = {} /\ out = [x \in Sids |-> <<>>] /\ get = {}

Cl(r, l) == cl' = [cl EXCEPT ![r] = l]
Sv(r, l) == sv' = [sv EXCEPT ![r] = l]
Answer(r, a) == ans' = [ans EXCEPT ![r] = a]
Fails == link' = IF link = "open" THEN "fail" ELSE link
(* Once fail() has run the caller has its answer, whatever Send returns.     *)
Waits == IF link \in {"open", "fail"} THEN "posted" ELSE "done"

(* ---- Start -------------------------------------------------------------- *)
(* http: nothing is sent.  sse: the GET, for which the server registers a    *)
(* session and writes its endpoint.  stdio: a process, with its one session. *)
Start ==
  /\ link = "closed" /\ conn < MaxConns /\ serving
  /\ conn' = conn + 1 /\ link' = "open" /\ hs' = "initialize" /\ inbox' = <<>>
  /\ push' = "off"
  /\ \/ kind = "http" /\ sid' = NoSid /\ UNCHANGED <<table, state, get>>
     \/ /\ kind # "http" /\ sid' = Fresh(conn + 1)
        /\ table' = table \cup {sid'} /\ state' = [state EXCEPT ![sid'] = "new"]
        /\ get' = get \cup {sid'}
  /\ UNCHANGED <<kind, reqIds, cl, sv, ses, ans, lost, serving, idle, out>>

(* ---- Send --------------------------------------------------------------- *)
Outstanding(r) == cl[r] \in {"posting", "push", "posted"} /\ of[r] = conn
Sequential == \A r \in Reqs : ~Outstanding(r)
MaySend == hs = "ready" \/ Sequential
FireAndForget == TRUE                                             \* mutant
Unacknowledged == kind = "stdio"     \* Send has written a line and returns
(* The request the client sends next: Initialize waits for the answer to     *)
(* initialize and for its notification to be accepted, then calls overlap.   *)
Send ==
  /\ link = "open" /\ issued < MaxReqs /\ MaySend
  /\ issued' = issued + 1
  /\ LET r == issued + 1 IN
       /\ m' = [m EXCEPT ![r] = IF hs = "ready" THEN "call" ELSE hs]
       /\ of' = [of EXCEPT ![r] = conn] /\ asked' = [asked EXCEPT ![r] = sid]
       /\ Sv(r, "arrive")
       /\ Cl(r, IF kind # "stdio" THEN "posting"
                ELSE IF hs = "initialized" THEN "done" ELSE "posted")
  /\ hs' = IF hs = "initialized" /\ Unacknowledged THEN "ready" ELSE hs
  /\ UNCHANGED <<kind, conn, link, sid, push, inbox, ses, ans, lost, serverEnd>>

(* The context of a caller ends while it is inside Do or waits for a reply.  *)
GiveUp(r) ==
  /\ cl[r] \in {"posting", "posted"} /\ Cl(r, "done")
  /\ IF m[r] = "call" \/ of[r] # conn THEN UNCHANGED link ELSE Fails
  /\ UNCHANGED <<kind, conn, sid, hs, push, inbox, reqIds, sv, ses, ans, lost, serverEnd>>

(* ---- the server: routing ------------------------------------------------ *)
Full == Cardinality(table) >= MaxSessions
Refuse(r, status) == /\ Answer(r, status) /\ Sv(r, "respond")
                     /\ UNCHANGED <<ses, table, state, idle>>

(* handlePOST of the http server: initialize makes a session, anything else  *)
(* needs the id of one, and touches it.                                      *)
RouteHTTP(r) ==
  /\ kind = "http" /\ sv[r] = "arrive" /\ serving
  /\ \/ /\ m[r] = "initialize" /\ asked[r] # NoSid /\ Refuse(r, "400")
     \/ /\ m[r] = "initialize" /\ asked[r] = NoSid /\ Full /\ Refuse(r, "503")
     \/ /\ m[r] = "initialize" /\ asked[r] = NoSid /\ ~Full
        /\ ses' = [ses EXCEPT ![r] = Fresh(of[r])] /\ table' = table \cup {Fresh(of[r])}
        /\ state' = [state EXCEPT ![Fresh(of[r])] = "new"] /\ Sv(r, "handle")
        /\ UNCHANGED <<ans, idle>>
     \/ m[r] # "initialize" /\ asked[r] = NoSid /\ Refuse(r, "400")
     \/ m[r] # "initialize" /\ asked[r] # NoSid /\ asked[r] \notin table /\ Refuse(r, "404")
     \/ /\ m[r] # "initialize" /\ asked[r] \in table
        /\ ses' = [ses EXCEPT ![r] = asked[r]] /\ idle' = idle \ {asked[r]}
        /\ Sv(r, "handle") /\ UNCHANGED <<ans, table, state>>
  /\ UNCHANGED <<kind, clientEnd, inbox, reqIds, cl, lost, serving, out, get>>

(* handleMessagesPost of the sse server; the loop of StdioServer, which      *)
(* takes a line when it is done with the one before.                         *)
Earlier(r) == {q \in Reqs : q < r /\ of[q] = of[r]}
RouteStream(r) ==
  /\ kind # "http" /\ sv[r] = "arrive" /\ serving
  /\ kind = "stdio" => \A q \in Earlier(r) : sv[q] = "over"
  /\ \/ asked[r] \notin table /\ Refuse(r, "404")
     \/ /\ asked[r] \in table /\ ses' = [ses EXCEPT ![r] = asked[r]] /\ Sv(r, "handle")
        /\ UNCHANGED <<ans, table, state, idle>>
  /\ UNCHANGED <<kind, clientEnd, inbox, reqIds, cl, lost, serving, out, get>>

(* ---- MCPServer.handle and the session automaton ------------------------- *)
Automaton(x, r) ==
  \/ /\ m[r] = "initialize" /\ state[x] = "new"
     /\ state' = [state EXCEPT ![x] = "negotiated"]
     /\ Answer(r, "ok") /\ Sv(r, "respond")
  \/ /\ m[r] = "initialize" /\ Answer(r, "rpc_error") /\ Sv(r, "respond")
     /\ UNCHANGED state                       \* bad parameters, or not new
  \/ /\ m[r] = "initialized" /\ Sv(r, "respond")
     /\ IF state[x] = "negotiated"
          THEN state' = [state EXCEPT ![x] = "ready"] /\ Answer(r, "202")
          ELSE Answer(r, "500") /\ UNCHANGED state
  \/ /\ m[r] = "call" /\ state[x] = "ready" /\ Sv(r, "execute") /\ UNCHANGED <<state, ans>>
  \/ /\ m[r] = "call" /\ state[x] # "ready" /\ Answer(r, "not_initialized")
     /\ Sv(r, "respond") /\ UNCHANGED state
Handle(r) ==
  /\ sv[r] = "handle" /\ Automaton(ses[r], r)
  /\ UNCHANGED <<kind, clientEnd, inbox, reqIds, cl, ses, lost, serving, table, idle, out, get>>

(* ToolManager.Execute under the context of Serve: a result, a JSON-RPC      *)
(* error, or, when Serve is over, an error the transport answers with 500.   *)
Execute(r) ==
  /\ sv[r] = "execute" /\ Sv(r, "respond")
  /\ \/ Answer(r, "ok") \/ Answer(r, "rpc_error")
     \/ ~serving /\ Answer(r, "500")
  /\ UNCHANGED <<kind, clientEnd, inbox, reqIds, cl, ses, lost, serverEnd>>

(* ---- the way back ------------------------------------------------------- *)
Replies == {"ok", "rpc_error", "not_initialized"}      \* a JSON-RPC response
Refusals == {"400", "404", "500", "503"}

(* http: the response of the POST.  Send keeps the session id and hands the  *)
(* reply, or the error a status stands for, to Recv; a 202 is all there is.  *)
(* The first id also opens the optional GET stream, if the server has one.   *)
BackHTTP(r) ==
  /\ kind = "http" /\ sv[r] = "respond" /\ Sv(r, "over")
  /\ IF cl[r] = "posting"
       THEN /\ Cl(r, IF ans[r] = "202" THEN "done" ELSE "push")
            /\ IF of[r] = conn /\ ses[r] # NoSid
                 THEN sid' = ses[r] /\ push' \in {push, IF link = "open" THEN "on" ELSE push}
                 ELSE UNCHANGED <<sid, push>>
            /\ hs' = IF of[r] = conn /\ ans[r] = "202" THEN "ready" ELSE hs
       ELSE UNCHANGED <<cl, sid, push, hs>>
  /\ UNCHANGED <<kind, conn, link, inbox, reqIds, ses, ans, lost, serverEnd>>

Item(r) == [r |-> r, t |-> IF ans[r] \in Replies THEN "reply" ELSE "error"]
Room == Len(inbox) < RecvCap
(* recvCh <- item: Send waits while it is full, whatever its context says.   *)
Deliver(r) ==
  /\ cl[r] = "push" /\ of[r] = conn /\ Room
  /\ inbox' = Append(inbox, Item(r)) /\ Cl(r, Waits)
  /\ UNCHANGED <<kind, clientEnd, reqIds, sv, ses, ans, lost, serverEnd>>

(* sse: the response goes to the GET stream of its session and the POST is   *)
(* accepted; without room on the queue it goes back as the body of the POST, *)
(* which SSEClient.Send does not read; a refusal is an error of Send.        *)
OutFull(x) == Len(out[x]) >= OutCap
BackSSE(r) ==
  /\ kind = "sse" /\ sv[r] = "respond" /\ Sv(r, "over")
  /\ LET gone == ses[r] \notin get
         refused == ans[r] \in Refusals \/ (ans[r] \in Replies /\ gone) IN
       /\ Cl(r, IF cl[r] # "posting" THEN cl[r]
                ELSE IF refused \/ ans[r] = "202" \/ of[r] # conn THEN "done" ELSE Waits)
       /\ IF refused /\ cl[r] = "posting" /\ of[r] = conn THEN Fails ELSE UNCHANGED link
       /\ IF ans[r] \in Replies /\ ~gone /\ ~OutFull(ses[r])
            THEN out' = [out EXCEPT ![ses[r]] = Append(@, r)] ELSE UNCHANGED out
       /\ lost' = IF ans[r] \in Replies /\ ~gone /\ OutFull(ses[r]) THEN lost \cup {r} ELSE lost
       /\ hs' = IF ans[r] = "202" /\ of[r] = conn /\ cl[r] = "posting" THEN "ready" ELSE hs
  /\ UNCHANGED <<kind, conn, sid, push, inbox, reqIds, ses, ans, serving, table, state, idle, get>>

(* The GET handler writes the next event; the client reads the stream.       *)
WriteEvent(x) ==
  /\ x \in get /\ out[x] # <<>>
  /\ out' = [out EXCEPT ![x] = Tail(@)]
  /\ inbox' = IF x = sid /\ link = "open" THEN Append(inbox, Item(Head(out[x]))) ELSE inbox
  /\ UNCHANGED <<kind, clientEnd, reqIds, cl, sv, ses, ans, lost, serving, table, state, idle, get>>

(* stdio: a line on stdout; an error of the handler ends Serve.              *)
BackStdio(r) ==
  /\ kind = "stdio" /\ sv[r] = "respond" /\ Sv(r, "over")
  /\ inbox' = IF ans[r] \in Replies /\ of[r] = conn THEN Append(inbox, Item(r)) ELSE inbox
  /\ get' = IF ans[r] \in Refusals THEN get \ {asked[r]} ELSE get
  /\ UNCHANGED <<kind, clientEnd, reqIds, cl, ses, ans, lost, serving, table, state, idle, out>>

(* ---- Recv --------------------------------------------------------------- *)
Recv ==
  /\ link = "open" /\ inbox # <<>> /\ inbox' = Tail(inbox)
  /\ LET i == Head(inbox) IN
       /\ cl' = IF cl[i.r] = "posted" THEN [cl EXCEPT ![i.r] = "done"] ELSE cl
       /\ IF i.t = "error" \/ (m[i.r] = "initialize" /\ ans[i.r] # "ok")
            THEN Fails ELSE UNCHANGED link
       /\ hs' = IF m[i.r] = "initialize" /\ ans[i.r] = "ok" /\ of[i.r] = conn
                  THEN "initialized" ELSE hs
  /\ UNCHANGED <<kind, conn, sid, push, reqIds, sv, ses, ans, lost, serverEnd>>

(* The stream of an sse session, or the child, is gone: Recv returns an error.*)
StreamEnds ==
  /\ kind # "http" /\ link = "open" /\ sid \notin get /\ inbox = <<>> /\ Fails
  /\ UNCHANGED <<kind, conn, sid, hs, push, inbox, reqIds, cl, sv, ses, ans, lost, serverEnd>>

(* ---- Close, run by fail() ----------------------------------------------- *)
Break ==        \* the manager closes, or a network error comes out of Send
  /\ link = "open" /\ Fails
  /\ UNCHANGED <<kind, conn, sid, hs, push, inbox, reqIds, cl, sv, ses, ans, lost, serverEnd>>
NoneAnswered == cl                                                    \* mutant
AllAnswered == [r \in Reqs |-> IF cl[r] = "posted" /\ of[r] = conn THEN "done" ELSE cl[r]]
(* fail() answers every call; http then waits for the loop on the GET stream *)
(* and deletes the session it knows; sse and stdio end the stream, which the *)
(* server sees.                                                              *)
FailClose ==
  /\ link = "fail" /\ link' = IF kind = "http" THEN "wait" ELSE "closed"
  /\ cl' = AllAnswered
  /\ UNCHANGED <<kind, conn, sid, hs, push, inbox, reqIds, sv, ses, ans, lost, serverEnd>>
PushEnds ==     \* its context is cancelled, or the server ends the stream
  /\ push = "on" /\ push' = "off"
  /\ UNCHANGED <<kind, conn, link, sid, hs, inbox, reqIds, cl, sv, ses, ans, lost, serverEnd>>
WaitPush ==
  /\ link = "wait" /\ push = "off"
  /\ link' = IF sid = NoSid THEN "closed" ELSE "delete"
  /\ UNCHANGED <<kind, conn, sid, hs, push, inbox, reqIds, cl, sv, ses, ans, lost, serverEnd>>

Remove(xs) == table' = table \ xs
Closed(xs) == state' = [x \in Sids |-> IF x \in xs THEN "closed" ELSE state[x]]
(* DELETE: handleDELETE closes the session and takes it out of the table; it *)
(* may also fail, which only the log knows.                                  *)
Delete ==
  /\ link = "delete" /\ link' = "closed"
  /\ \/ serving /\ Remove({sid}) /\ Closed({sid} \cap table) /\ idle' = idle \ {sid}
     \/ UNCHANGED <<table, state, idle>>
  /\ UNCHANGED <<kind, conn, sid, hs, push, inbox, reqIds, cl, sv, ses, ans, lost,
                 serving, out, get>>

(* ---- the ends of sessions on the server --------------------------------- *)
FallIdle(x) ==
  /\ kind = "http" /\ x \in table \ idle /\ idle' = idle \cup {x}
  /\ UNCHANGED <<kind, clientEnd, inbox, reqIds, cl, sv, ses, ans, lost, serving, table,
                 state, out, get>>
OnlyReady == {x \in idle : state[x] = "ready"}                         \* mutant
Stale == idle
Sweep ==
  /\ Stale # {} /\ serving /\ Remove(Stale) /\ Closed(Stale) /\ idle' = idle \ Stale
  /\ UNCHANGED <<kind, clientEnd, inbox, reqIds, cl, sv, ses, ans, lost, serving, out, get>>
(* The GET handler of sse returns when the client or Serve has gone and      *)
(* takes its session out of the table; the automaton stays as it is.         *)
(* Stdio's Serve, which reads, handles and answers in turn, returns at the   *)
(* end of its input or with its context, and closes its session.             *)
Busy(x) == \E r \in Reqs : ses[r] = x /\ sv[r] \in {"handle", "execute", "respond"}
GetEnds(x) ==
  /\ kind # "http" /\ x \in get \cup table
  /\ ~serving \/ x \notin get \/ x # sid \/ link = "closed"
  /\ get' = get \ {x} /\ Remove({x})
  /\ \/ kind = "sse" /\ UNCHANGED state
     \/ kind = "stdio" /\ ~Busy(x) /\ Closed({x})
  /\ UNCHANGED <<kind, clientEnd, inbox, reqIds, cl, sv, ses, ans, lost, serving, idle, out>>
(* Serve ends with its context, and closes what is in the table.             *)
ServeEnds ==
  /\ serving /\ serving' = FALSE
  /\ IF kind = "http" THEN Remove(table) /\ Closed(table) /\ idle' = {}
     ELSE UNCHANGED <<table, state, idle>>
  /\ UNCHANGED <<kind, clientEnd, inbox, reqIds, cl, sv, ses, ans, lost, out, get>>
(* A request that finds no server: Send fails.                               *)
NoServer(r) ==
  /\ sv[r] = "arrive" /\ ~serving /\ Sv(r, "over")
  /\ Cl(r, "done") /\ IF of[r] = conn THEN Fails ELSE UNCHANGED link
  /\ UNCHANGED <<kind, conn, sid, hs, push, inbox, reqIds, ses, ans, lost, serverEnd>>

ServerStep(r) == \/ RouteHTTP(r) \/ RouteStream(r) \/ Handle(r) \/ Execute(r)
                 \/ BackHTTP(r) \/ BackSSE(r) \/ BackStdio(r) \/ NoServer(r)
CloseStep == FailClose \/ WaitPush \/ Delete
WireNext ==
  \/ Start \/ Send \/ Recv \/ StreamEnds \/ Break \/ CloseStep \/ PushEnds
  \/ \E r \in Reqs : GiveUp(r) \/ Deliver(r) \/ ServerStep(r)
  \/ \E x \in Sids : WriteEvent(x) \/ FallIdle(x) \/ GetEnds(x)
  \/ Sweep \/ ServeEnds

InUse(x) == x = sid /\ link # "closed"

WireSpec == WireInit /\ [][WireNext]_wireVars
(* Handlers, the loops of both ends and the sweeper run, and a session that  *)
(* nobody uses falls idle.  Nobody has to send, give up, break or stop.  A   *)
(* request takes finitely many steps, so that fairness to some handler that  *)
(* can move is fairness to each.                                             *)
WireFairSpec ==
  /\ WireSpec
  /\ WF_wireVars(\E r \in Reqs : ServerStep(r)) /\ WF_wireVars(\E r \in Reqs : Deliver(r))
  /\ WF_wireVars(Recv) /\ WF_wireVars(StreamEnds) /\ WF_wireVars(CloseStep)
  /\ WF_wireVars(PushEnds /\ link = "wait") /\ WF_wireVars(Sweep)
  /\ WF_wireVars(\E x \in Sids : WriteEvent(x)) /\ WF_wireVars(\E x \in Sids : GetEnds(x))
  /\ WF_wireVars(\E x \in Sids : FallIdle(x) /\ ~InUse(x))

(* ---- properties --------------------------------------------------------- *)
(* The table of the server and the automata in it agree: over http a session *)
(* and over stdio is open exactly while it is in the table (createSession,   *)
(* deleteSession, sweepLoop, Close, Serve), so a handler that found it       *)
(* before it was deleted or swept is refused by its state.  Over sse nobody  *)
(* closes the automaton, so that a POST that has found the session goes on   *)
(* behind the GET handler; but no session of the table is closed, and it is  *)
(* there as long as its GET handler, over stdio its Serve, runs.             *)
Open(x) == state[x] \in {"new", "negotiated", "ready"}
SessionsInStep ==
  /\ \A x \in table : Open(x)
  /\ kind # "sse" => \A x \in Sids : Open(x) => x \in table
  /\ kind # "http" => get \subseteq table
  /\ kind = "http" => Cardinality(table) <= MaxSessions

(* A client of yaa that waits for the answers its handshake owes it is never *)
(* told "Server not initialized" by a session that is still there.           *)
HandshakeOrdered ==
  \A r \in Reqs : ans[r] = "not_initialized" => state[ses[r]] = "closed"

(* A call that was accepted is answered while its connection lives, unless   *)
(* the sse server had no room on the queue and put the reply where the sse   *)
(* client does not look.                                                     *)
AcceptedIsAnswered ==
  \A r \in Reqs : (cl[r] = "posted") ~> (cl[r] = "done" \/ r \in lost)

(* No session outlives its client for good, even when the id never reached   *)
(* it: GET handler, DELETE or sweeper ends it.                               *)
SessionsReclaimed ==
  \A x \in Sids : (x \in table /\ ~InUse(x)) ~> (x \notin table \/ InUse(x))

(* Client, table and automaton keep step with each other.                    *)
SessionsSound == SessionsInStep /\ HandshakeOrdered
=============================================================================
