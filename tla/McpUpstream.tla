---------------------------- MODULE McpUpstream -----------------------------
(* One upstream MCP server as the manager sees it (internal/mcp/manager.go,  *)
(* proxy.go): Prepare connects, discovers the catalog of tools and registers *)
(* one proxy per tool; from then on the goroutine runUpstream is the only    *)
(* owner of the entry and reconnects it; proxies reach the current client    *)
(* through a shared handle; Stop takes everything down.                      *)
(* Both are here one goroutine, the owner: Prepare ends by starting the      *)
(* other.  A client is its number; what goes on inside one is McpClient.     *)
(* The server may die, fall silent, change its catalog and say so.           *)
EXTENDS Integers, FiniteSets

CONSTANTS Callers,          \* calls of MCPToolProxy.Execute
          Catalogs,         \* the sets of tools the server may offer
          NoCatalog,
          Transports,       \* of {"stdio", "sse", "streamable_http"}
          MaxAttempts,      \* mcp.reconnect.max_attempts; 0 if not enabled
          MaxOutages,       \* bound: times a ready client dies or falls silent
          MaxChanges        \* bound: changes of the catalog

ASSUME UpstreamAssumption == /\ MaxAttempts \in Nat /\ MaxOutages \in Nat
                             /\ MaxChanges \in Nat /\ NoCatalog \notin Catalogs

MaxClients == 1 + MaxOutages * MaxAttempts
Clients == 1..MaxClients
None == 0

VARIABLES
  transport,  \* e.transport
  owner,      \* where the owner is
  cur,        \* the client it works with (local variable)
  gen,        \* its generation (local variable)
  chan,       \* generation whose notify channel it listens to (local variable)
  attempt,    \* attemptReconnect: attempts made
  found,      \* what catalogReconcile has just discovered
  made,       \* clients created
  client,     \* client[k]: "none", "starting", "handshake", "ready", "dead", "closed"
  proc,       \* clients whose child process or stream is not given up
  catalog,    \* catalog[k]: what k discovered
  callback,   \* clients whose onListChanged is set
  entry,      \* [client, gen, status, tools]: serverEntry, under m.mu
  handle,     \* the client in the ProxyHandle, None for nil
  note,       \* note[g]: the notify channel of generation g holds an event
  using,      \* using[c]: the client call c loaded from the handle
  call,       \* call[c]: "idle", "running", or how it ended
  cancelled,  \* runCtx is cancelled
  stop,       \* "no", "cancelled", "cleared", "done"
  offered,    \* the server's catalog
  owes,       \* clients the server has yet to send list_changed to
  missed,     \* a list_changed came before the callback was set
  outages, changes

vars == <<transport, owner, cur, gen, chan, attempt, found, made, client, proc,
          catalog, callback, entry, handle, note, using, call, cancelled, stop,
          offered, owes, missed, outages, changes>>
local == <<cur, gen, chan, attempt, found>>
clients == <<made, client, proc, catalog, callback>>
shared == <<entry, handle, note>>
calls == <<using, call>>
server == <<offered, owes, missed, outages, changes>>

Init ==
  /\ transport \in Transports
  /\ owner = "connect" /\ cur = None /\ gen = 0 /\ chan = 0 /\ attempt = 1
  /\ found = NoCatalog /\ made = 0 /\ client = [k \in Clients |-> "none"]
  /\ proc = {} /\ catalog = [k \in Clients |-> NoCatalog] /\ callback = {}
  /\ entry = [client |-> None, gen |-> 0, status |-> "disconnected", tools |-> NoCatalog]
  /\ handle = None /\ note = [g \in 0..MaxOutages |-> FALSE]
  /\ using = [c \in Callers |-> None] /\ call = [c \in Callers |-> "idle"]
  /\ cancelled = FALSE /\ stop = "no"
  /\ offered \in Catalogs /\ owes = {} /\ missed = FALSE /\ outages = 0 /\ changes = 0

First == entry.tools = NoCatalog           \* still in connectStdioServer
Goto(l) == owner' = l
Closing(k) == client' = [client EXCEPT ![k] = "closed"] /\ proc' = proc \ {k}

(* ---- connectAndDiscover ------------------------------------------------- *)
(* buildTransport, NewClient, transport.Start.  The context Start gets is    *)
(* that of the run, without a deadline: an SSE server that never sends its   *)
(* endpoint keeps it.                                                        *)
Connect ==
  /\ owner = "connect" /\ made < MaxClients
  /\ Goto("start") /\ made' = made + 1 /\ cur' = made + 1
  /\ client' = [client EXCEPT ![made + 1] = "starting"]
  /\ proc' = proc \cup {made + 1}
  /\ UNCHANGED <<transport, gen, chan, attempt, found, catalog, callback, shared,
                 calls, cancelled, stop, server>>

Started ==
  /\ owner = "start" /\ Goto("handshake")
  /\ client' = [client EXCEPT ![cur] = "handshake"]
  /\ UNCHANGED <<transport, local, made, proc, catalog, callback, shared, calls,
                 cancelled, stop, server>>

(* Initialize and DiscoverTools, each under its timeout.                     *)
Discovered ==
  /\ owner = "handshake" /\ Goto(IF First THEN "register" ELSE "compare")
  /\ client' = [client EXCEPT ![cur] = "ready"]
  /\ catalog' = [catalog EXCEPT ![cur] = offered]
  /\ UNCHANGED <<transport, local, made, proc, callback, shared, calls,
                 cancelled, stop, server>>

LeaveFailed == client' = [client EXCEPT ![cur] = "dead"] /\ UNCHANGED proc \* mutant
CloseFailed == Closing(cur)
(* Any of the three steps fails: the client is closed; Prepare gives the     *)
(* server up, attemptReconnect tries again.                                  *)
ConnectFails ==
  /\ owner \in {"start", "handshake"} /\ CloseFailed
  /\ IF First
       THEN Goto("exit") /\ entry' = [entry EXCEPT !.status = "error"] /\ UNCHANGED attempt
       ELSE Goto("backoff") /\ attempt' = attempt + 1 /\ UNCHANGED entry
  /\ UNCHANGED <<transport, cur, gen, chan, found, made, catalog, callback, handle,
                 note, calls, cancelled, stop, server>>

(* ---- Prepare: registerProxies, publishGeneration ------------------------ *)
RegisterFails ==
  /\ owner = "register" /\ Closing(cur) /\ Goto("exit")
  /\ entry' = [entry EXCEPT !.status = "error"]
  /\ UNCHANGED <<transport, local, made, catalog, callback, handle, note, calls,
                 cancelled, stop, server>>

OldChannel(g) == chan                                           \* mutant
Listened(g) == g
(* The section under m.mu that makes cur the current generation g.           *)
Publish(g) ==
  /\ entry' = [client |-> cur, gen |-> g, status |-> "connected",
               tools |-> IF First THEN catalog[cur] ELSE entry.tools]
  /\ handle' = cur /\ callback' = callback \cup {cur}
  /\ note' = [note EXCEPT ![g] = FALSE]
  /\ gen' = g /\ chan' = Listened(g) /\ Goto("select")

PublishFirst ==
  /\ owner = "register" /\ Publish(0)
  /\ UNCHANGED <<transport, cur, attempt, found, made, client, proc, catalog, calls,
                 cancelled, stop, server>>

(* ---- runUpstream -------------------------------------------------------- *)
Dead == client[cur] \in {"dead", "closed"}
Interruptible == owner \in {"select", "backoff"}
OwnerLeaves ==
  /\ Interruptible /\ cancelled
  /\ Goto("exit")
  /\ UNCHANGED <<transport, local, clients, shared, calls, cancelled, stop, server>>

Withdraw == handle' = None
IsCurrent == entry.gen = gen /\ entry.client = cur
(* client.Done or a failed Ping: compare-and-clear under m.mu.  The client   *)
(* is closed after the lock, and not at all when the entry has moved on.     *)
MarkFailed ==
  /\ owner = "select"
  /\ Dead \/ (~cancelled /\ outages < MaxOutages)      \* the second: Ping failed
  /\ outages' = IF Dead THEN outages ELSE outages + 1
  /\ IF IsCurrent
       THEN /\ Withdraw /\ Goto("closeOld")
            /\ entry' = [entry EXCEPT !.client = None, !.status = "error"]
       ELSE Goto("backoff") /\ UNCHANGED <<entry, handle>>
  /\ attempt' = 1
  /\ UNCHANGED <<transport, cur, gen, chan, found, clients, note, calls, cancelled,
                 stop, offered, owes, missed, changes>>
CloseOld ==
  /\ owner = "closeOld" /\ Closing(cur) /\ Goto("backoff")
  /\ UNCHANGED <<transport, local, made, catalog, callback, shared, calls,
                 cancelled, stop, server>>

(* attemptReconnect: the attempts are over, or the next backoff is.          *)
Backoff ==
  /\ owner = "backoff"
  /\ \/ attempt > MaxAttempts /\ Goto("exit")
     \/ attempt <= MaxAttempts /\ ~cancelled /\ Goto("connect")
  /\ UNCHANGED <<transport, local, clients, shared, calls, cancelled, stop, server>>

AnyCatalog(c) == TRUE                                            \* mutant
Matches(c) == c = entry.tools
(* catalogMatches against the frozen tools, then a look at runCtx; a catalog *)
(* that differs is an error only a restart of the runtime mends.             *)
Compare ==
  /\ owner = "compare"
  /\ IF ~ Matches(catalog[cur])
       THEN /\ Closing(cur) /\ Goto("exit")
            /\ entry' = IF entry.gen = gen THEN [entry EXCEPT !.status = "error"] ELSE entry
       ELSE IF cancelled THEN Closing(cur) /\ Goto("exit") /\ UNCHANGED entry
       ELSE Goto("swap") /\ UNCHANGED <<client, proc, entry>>
  /\ UNCHANGED <<transport, local, made, catalog, callback, handle, note, calls,
                 cancelled, stop, server>>
Swap ==
  /\ owner = "swap" /\ entry.gen = gen /\ Publish(gen + 1)
  /\ UNCHANGED <<transport, cur, attempt, found, made, client, proc, catalog, calls,
                 cancelled, stop, server>>

(* ---- catalogReconcile --------------------------------------------------- *)
Take ==
  /\ owner = "select" /\ note[chan]
  /\ note' = [note EXCEPT ![chan] = FALSE] /\ Goto("rediscover")
  /\ UNCHANGED <<transport, local, clients, entry, handle, calls, cancelled, stop, server>>
Rediscover ==
  /\ owner = "rediscover" /\ Goto("reconcile")
  /\ found' \in IF client[cur] = "ready" THEN {offered, NoCatalog} ELSE {NoCatalog}
  /\ UNCHANGED <<transport, cur, gen, chan, attempt, clients, shared, calls,
                 cancelled, stop, server>>
Same == Matches(found)
Reconcile ==
  /\ owner = "reconcile" /\ found' = NoCatalog
  /\ IF Same \/ ~IsCurrent
       THEN Goto("select") /\ UNCHANGED <<client, proc, entry, handle>>
       ELSE /\ Withdraw /\ Closing(cur) /\ Goto("exit")
            /\ entry' = [entry EXCEPT !.client = None, !.status = "error"]
  /\ UNCHANGED <<transport, cur, gen, chan, attempt, made, catalog, callback, note,
                 calls, cancelled, stop, server>>

(* ---- MCPToolProxy.Execute ----------------------------------------------- *)
Load(c) ==
  /\ call[c] = "idle" /\ ~First
  /\ using' = [using EXCEPT ![c] = handle]
  /\ call' = [call EXCEPT ![c] = IF handle = None THEN "unavailable" ELSE "running"]
  /\ UNCHANGED <<transport, owner, local, clients, shared, cancelled, stop, server>>
(* The result, the error of the client, or the cause of the context: the     *)
(* caller's or the hard timeout of the proxy.                                *)
CallEnds(c) ==
  /\ call[c] = "running" /\ using' = [using EXCEPT ![c] = None]
  /\ \/ client[using[c]] = "ready" /\ call' = [call EXCEPT ![c] = "ok"]
     \/ client[using[c]] # "ready" /\ call' = [call EXCEPT ![c] = "down"]
     \/ call' = [call EXCEPT ![c] = "timeout"]
  /\ UNCHANGED <<transport, owner, local, clients, shared, cancelled, stop, server>>

(* ---- Stop --------------------------------------------------------------- *)
Prepared == owner = "exit" \/ ~First
StopCancel ==
  /\ stop = "no" /\ Prepared /\ stop' = "cancelled" /\ cancelled' = TRUE
  /\ UNCHANGED <<transport, owner, local, clients, shared, calls, server>>
(* Under m.mu: the published client is closed and withdrawn.                 *)
StopClear ==
  /\ stop = "cancelled" /\ stop' = "cleared"
  /\ IF entry.client # None
       THEN /\ Closing(entry.client) /\ Withdraw
            /\ entry' = [entry EXCEPT !.client = None, !.status = "disconnected"]
       ELSE UNCHANGED <<client, proc, entry, handle>>
  /\ UNCHANGED <<transport, owner, local, made, catalog, callback, note, calls,
                 cancelled, server>>
OwnerGone == owner = "exit"
StopJoin ==
  /\ stop = "cleared" /\ OwnerGone /\ stop' = "done"
  /\ UNCHANGED <<transport, owner, local, clients, shared, calls, cancelled, server>>

(* ---- the server, and the death of a client ------------------------------ *)
(* A ready client dies: the process exits, the stream breaks, or runCtx is   *)
(* cancelled and the transport's Recv looks at it (stdio's does not).  Its   *)
(* fail() closes the transport.                                              *)
Dies(k) ==
  /\ client[k] = "ready" /\ proc' = proc \ {k}
  /\ client' = [client EXCEPT ![k] = "dead"]
  /\ IF cancelled /\ transport # "stdio" THEN UNCHANGED outages
     ELSE outages < MaxOutages /\ outages' = outages + 1
  /\ UNCHANGED <<transport, owner, local, made, catalog, callback, shared, calls,
                 cancelled, stop, offered, owes, missed, changes>>
Change ==
  /\ changes < MaxChanges /\ changes' = changes + 1
  /\ \E c \in Catalogs \ {offered} : offered' = c
  /\ owes' = {k \in Clients : client[k] \in {"handshake", "ready"}}
  /\ UNCHANGED <<transport, owner, local, clients, shared, calls, cancelled, stop,
                 missed, outages>>
(* The receive loop calls onListChanged, which posts to the channel that is  *)
(* now in e.listChanged; without a callback the notification is dropped.     *)
ListChanged(k) ==
  /\ k \in owes /\ owes' = owes \ {k}
  /\ IF k \in callback /\ client[k] = "ready"
       THEN note' = [note EXCEPT ![entry.gen] = TRUE] /\ UNCHANGED missed
       ELSE missed' = (missed \/ client[k] = "ready") /\ UNCHANGED note
  /\ UNCHANGED <<transport, owner, local, clients, entry, handle, calls, cancelled,
                 stop, offered, outages, changes>>

OwnerStep == \/ Connect \/ Discovered \/ ConnectFails \/ RegisterFails
             \/ PublishFirst \/ OwnerLeaves \/ CloseOld \/ Backoff \/ Compare
             \/ Swap \/ Take \/ Rediscover \/ Reconcile
Next ==
  \/ OwnerStep \/ Started \/ MarkFailed
  \/ \E c \in Callers : Load(c) \/ CallEnds(c)
  \/ StopCancel \/ StopClear \/ StopJoin
  \/ \E k \in Clients : Dies(k) \/ ListChanged(k)
  \/ Change

Spec == Init /\ [][Next]_vars

(* The owner runs and its timeouts fire, except for the one Start has not    *)
(* got; a cancelled context ends what observes it; a server that owes a      *)
(* notification sends it.  Nobody has to stop the manager or to call.        *)
Bounded == transport # "sse" \/ cancelled \/ owner # "start"
FairSpec ==
  /\ Spec
  /\ WF_vars(Bounded /\ (OwnerStep \/ Started))
  /\ WF_vars(MarkFailed /\ Dead) /\ SF_vars(Take)
  /\ WF_vars(StopClear \/ StopJoin) /\ WF_vars(OwnerLeaves)
  /\ \A c \in Callers : WF_vars(CallEnds(c))
  /\ \A k \in Clients : WF_vars(ListChanged(k))

(* ---- properties --------------------------------------------------------- *)
(* The entry, the handle and the client agree (publishGeneration,            *)
(* markGenerationFailed, catalogReconcile, attemptReconnect and Stop each    *)
(* write them): the status is connected exactly when a client is published,  *)
(* and proxies reach that client and no other.                               *)
HandleIsEntry ==
  /\ handle = entry.client
  /\ (entry.status = "connected") <=> (entry.client # None)

(* No call ever runs against tools other than those the proxies describe:    *)
(* the catalog is frozen when they are registered, and a client that         *)
(* discovered another one is never published (catalogMatches).               *)
FrozenCatalog ==
  \A k \in {handle} \cup {using[c] : c \in Callers} :
    k # None => catalog[k] = entry.tools

(* A server has one process or stream at a time, whatever fails half-way     *)
(* through a connection, and none once its owner has given up or Stop has    *)
(* returned (Close on every error path of connectAndDiscover and             *)
(* attemptReconnect).  The exception is a client attemptReconnect published  *)
(* after Stop had cleared the entry.                                         *)
PublishedLate == stop # "no" /\ entry.client # None
OneProcess ==
  /\ Cardinality(proc) <= 1
  /\ (owner = "exit" /\ ~PublishedLate) => proc = {}

(* Stop returns from wherever the owner is: waiting for a reply, backing     *)
(* off, or inside a transport's Start that has no deadline of its own.       *)
StopReturns == cancelled ~> stop = "done"

(* A catalog that no longer is what the proxies describe is noticed, unless  *)
(* the notification came before there was a callback to take it.             *)
Drifted == entry.status = "connected" /\ offered # entry.tools
DriftNoticed == Drifted ~> (~Drifted \/ missed \/ cancelled)

(* A proxy reaches the client that is published, with the tools it describes.*)
CallsSound == HandleIsEntry /\ FrozenCatalog

(* The owner of an upstream hears what it is told, a Stop or a new catalog,  *)
(* whatever it is doing.                                                     *)
OwnerListens == StopReturns /\ DriftNoticed
=============================================================================
