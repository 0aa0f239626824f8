------------------------------ MODULE McpProofs ------------------------------
(* Proofs about the two models of MCP that have the other end in them.        *)
(*                                                                            *)
(* McpUpstream, for every set of callers and catalogs and every number of     *)
(* attempts, outages and changes: the owner's own client is the only one that *)
(* can be published or have a process, and what has ever been published had   *)
(* the catalog of the proxies.                                                *)
(*                                                                            *)
(* McpWire, for every number of clients, requests and sessions and every      *)
(* capacity: how far a session has come is for good, and what a client        *)
(* believes of it, or sends, it has come to.                                  *)
EXTENDS McpUpstream, McpWire, FiniteSetTheorems, SequenceTheorems, TLAPS

(* ---- McpUpstream -------------------------------------------------------- *)

OwnerPCs == {"connect", "start", "handshake", "register", "select", "closeOld",
             "backoff", "compare", "swap", "rediscover", "reconcile", "exit"}
Making == {"start", "handshake"}                 \* cur is not published
Serving == {"select", "rediscover", "reconcile"} \* cur was published

Types ==
  /\ owner \in OwnerPCs
  /\ made \in 0..MaxClients /\ cur \in 0..made
  /\ gen \in Nat /\ chan \in Nat
  /\ client \in [Clients -> {"none", "starting", "handshake", "ready", "dead", "closed"}]
  /\ proc \subseteq Clients /\ callback \subseteq 1..made
  /\ catalog \in [Clients -> Catalogs \cup {NoCatalog}]
  /\ entry \in [client : 0..made, gen : Nat, tools : Catalogs \cup {NoCatalog},
                status : {"disconnected", "connected", "error"}]
  /\ handle \in 0..made /\ using \in [Callers -> 0..made]
  /\ offered \in Catalogs /\ found \in Catalogs \cup {NoCatalog}
  /\ stop \in {"no", "cancelled", "cleared", "done"} /\ cancelled \in BOOLEAN
  /\ cancelled <=> stop # "no"

(* Where the owner is, and what it has by then.                              *)
Owner ==
  /\ owner \notin {"connect", "exit"} => cur # None
  /\ owner = "register" => First
  /\ owner \in Serving \cup {"closeOld", "backoff", "compare", "swap"} => ~First
  /\ owner \in Making \cup {"register", "compare", "swap"} => cur = made /\ cur \notin callback
  /\ owner \in Serving => cur \in callback
  /\ owner \in {"register", "compare", "swap"} => catalog[cur] \in Catalogs
  /\ owner = "swap" => Matches(catalog[cur])

(* Only the client the owner works with is in the entry, and only while the  *)
(* owner serves it or has left.                                              *)
Published ==
  /\ entry.gen = gen
  /\ entry.client # None => entry.client = cur /\ cur \in callback
  /\ entry.client # None => owner \in Serving \cup {"exit"}
  /\ owner = "exit" /\ entry.client # None => cancelled
  /\ HandleIsEntry
(* What was ever published has the frozen catalog.                           *)
Frozen ==
  /\ \A k \in callback : catalog[k] = entry.tools /\ ~First
  /\ handle # None => handle \in callback
  /\ \A c \in Callers : using[c] # None => using[c] \in callback

(* The owner has at most the process of the client in its hands, and none    *)
(* where the entry has been emptied or the client given up.                  *)
Processes ==
  /\ proc \subseteq {cur}
  /\ owner \in {"connect", "backoff"} => proc = {}
  /\ owner \in Serving \cup {"exit"} /\ entry.client = None => proc = {}

IInv == Types /\ Owner /\ Published /\ Frozen /\ Processes

LEMMA MaxClientsNat == MaxClients \in Nat
<1>1. MaxOutages * MaxAttempts \in Nat
  BY UpstreamAssumption
<1> QED BY <1>1 DEF MaxClients

(* The entry when its client is taken out of it.                             *)
LEMMA Emptied ==
  ASSUME Types, NEW x \in {"disconnected", "connected", "error"},
         entry' = [entry EXCEPT !.client = None, !.status = x]
  PROVE  /\ entry' \in [client : 0..made, gen : Nat, tools : Catalogs \cup {NoCatalog},
                        status : {"disconnected", "connected", "error"}]
         /\ entry'.client = None /\ entry'.gen = entry.gen
         /\ entry'.tools = entry.tools /\ entry'.status = x
<1> DEFINE e == [client |-> None, gen |-> entry.gen, status |-> x, tools |-> entry.tools]
<1>1. entry' = e
  BY DEF Types
<1>2. e \in [client : 0..made, gen : Nat, tools : Catalogs \cup {NoCatalog},
             status : {"disconnected", "connected", "error"}]
  BY DEF Types, None
<1> QED BY <1>1, <1>2

LEMMA ConnectStep ==
  ASSUME IInv, Connect PROVE IInv'
<1> USE UpstreamAssumption DEF IInv, First, Goto, Closing, Matches, None,
   local, clients, shared, calls, server, Connect
<1>1. Frozen' /\ Processes'
  BY DEF Frozen, Processes, Serving
<1>2. made + 1 \in Clients /\ made' \in 0..MaxClients
  BY MaxClientsNat DEF Clients, Types
<1>3. Types'
  <2>1. /\ cur' \in 0..made' /\ callback' \subseteq 1..made' /\ proc' \subseteq Clients
        /\ client' \in [Clients -> {"none", "starting", "handshake", "ready", "dead", "closed"}]
    BY <1>2 DEF Types
  <2>2. entry.client \in 0..made' /\ handle \in 0..made' /\ using \in [Callers -> 0..made']
    BY <1>2 DEF Types
  <2>3. entry' \in [client : 0..made', gen : Nat, tools : Catalogs \cup {NoCatalog},
                    status : {"disconnected", "connected", "error"}]
    BY <2>2 DEF Types
  <2> QED BY <1>2, <2>1, <2>2, <2>3 DEF Types, OwnerPCs
<1>4. Owner'
  BY DEF Owner, Making, Serving, Types, OwnerPCs
<1>5. Published'
  BY DEF Published, HandleIsEntry, Types, Owner, Making, Serving
<1> QED BY <1>3, <1>4, <1>5, <1>1

LEMMA StartedStep ==
  ASSUME IInv, Started PROVE IInv'
<1> USE UpstreamAssumption DEF IInv, First, Goto, Closing, Matches, None,
   local, clients, shared, calls, server, Started
<1>1. Types' /\ Owner' /\ Frozen'
  BY DEF Types, OwnerPCs, Owner, Making, Serving, Frozen
<1>2. Processes'
  BY DEF Processes, Serving
<1>3. Published'
  BY DEF Published, HandleIsEntry, Types, Owner, Making, Serving
<1> QED BY <1>1, <1>3, <1>2

LEMMA DiscoveredStep ==
  ASSUME IInv, Discovered PROVE IInv'
<1> USE UpstreamAssumption DEF IInv, First, Goto, Closing, Matches, None,
   local, clients, shared, calls, server, Discovered
<1>1. Types' /\ Processes'
  BY DEF Types, OwnerPCs, Processes, Serving
<1>2. Owner'
  BY DEF Owner, Making, Serving, Types, OwnerPCs, Frozen, Clients, Published,
     HandleIsEntry
<1>3. Published'
  BY DEF Published, HandleIsEntry, Types, Owner, Making, Serving
<1>4. Frozen'
  BY DEF Frozen, Types, Published, HandleIsEntry, Owner, Making, Serving,
     Clients
<1> QED BY <1>1, <1>2, <1>3, <1>4

LEMMA ConnectFailsStep ==
  ASSUME IInv, ConnectFails PROVE IInv'
<1> USE UpstreamAssumption DEF IInv, First, Goto, Closing, Matches, None,
   local, clients, shared, calls, server, ConnectFails, CloseFailed
<1>1. Owner' /\ Frozen' /\ Processes'
  BY DEF Owner, Making, Serving, Frozen, Processes
<1>2. Types'
  BY DEF Types, OwnerPCs, Clients, Owner, Making, Serving, Published,
     HandleIsEntry
<1>3. Published'
  BY DEF Published, HandleIsEntry, Types, Owner, Making, Serving
<1> QED BY <1>2, <1>1, <1>3

LEMMA RegisterFailsStep ==
  ASSUME IInv, RegisterFails PROVE IInv'
<1> USE UpstreamAssumption DEF IInv, First, Goto, Closing, Matches, None,
   local, clients, shared, calls, server, RegisterFails
<1>1. Types' /\ Owner' /\ Frozen'
  BY DEF Types, OwnerPCs, Owner, Making, Serving, Frozen
<1>2. Processes'
  BY DEF Processes, Serving
<1>3. Published'
  BY DEF Published, HandleIsEntry, Types, Owner, Making, Serving
<1> QED BY <1>1, <1>3, <1>2

LEMMA PublishFirstStep ==
  ASSUME IInv, PublishFirst PROVE IInv'
<1> USE UpstreamAssumption DEF IInv, First, Goto, Closing, Matches, None,
   local, clients, shared, calls, server, PublishFirst, Publish, Listened
<1>1. Types'
  BY DEF Types, OwnerPCs, Clients, Owner, Making, Serving, Published,
     HandleIsEntry
<1>2. Owner'
  BY DEF Owner, Making, Serving
<1>3. Published'
  BY DEF Published, HandleIsEntry, Types, Owner, Making, Serving
<1>4. Frozen'
  BY DEF Frozen, Types, Published, HandleIsEntry, Owner, Making, Serving,
     Clients
<1>5. Processes'
  BY DEF Processes, Serving, Types, Published, HandleIsEntry, Owner, Making,
     Clients
<1> QED BY <1>1, <1>2, <1>3, <1>4, <1>5

LEMMA OwnerLeavesStep ==
  ASSUME IInv, OwnerLeaves PROVE IInv'
<1> USE UpstreamAssumption DEF IInv, First, Goto, Closing, Matches, None,
   local, clients, shared, calls, server, OwnerLeaves, Interruptible
<1>1. Types' /\ Owner' /\ Published'
  BY DEF Types, OwnerPCs, Owner, Making, Serving, Published, HandleIsEntry
<1>2. Frozen' /\ Processes'
  BY DEF Frozen, Processes, Serving
<1> QED BY <1>1, <1>2

LEMMA MarkFailedStep ==
  ASSUME IInv, MarkFailed PROVE IInv'
<1> USE UpstreamAssumption DEF IInv, First, Goto, Closing, Matches, None,
   local, clients, shared, calls, server, MarkFailed, Dead, IsCurrent, Withdraw
<1>0. /\ entry' \in [client : 0..made, gen : Nat, tools : Catalogs \cup {NoCatalog},
                     status : {"disconnected", "connected", "error"}]
      /\ entry'.gen = entry.gen /\ entry'.tools = entry.tools
      /\ \/ entry' = entry /\ handle' = handle /\ entry.client = None
         \/ entry'.client = None /\ entry'.status # "connected" /\ handle' = None
  <2>1. CASE IsCurrent
    BY <2>1, Emptied
  <2>2. CASE ~IsCurrent
    BY <2>2 DEF Types, Published
  <2> QED BY <2>1, <2>2
<1>x. owner' \in {"closeOld", "backoff"}
  OBVIOUS
<1>1. Types'
  BY <1>0, <1>x DEF Types, OwnerPCs
<1>2. Owner'
  BY <1>0, <1>x DEF Owner, Serving, Making
<1>3. Published'
  BY <1>0, <1>x DEF Published, HandleIsEntry
<1>4. Frozen'
  BY <1>0 DEF Frozen
<1>5. Processes'
  BY DEF Processes, Serving, Types, Published, HandleIsEntry
<1> QED BY <1>1, <1>2, <1>3, <1>4, <1>5

LEMMA CloseOldStep ==
  ASSUME IInv, CloseOld PROVE IInv'
<1> USE UpstreamAssumption DEF IInv, First, Goto, Closing, Matches, None,
   local, clients, shared, calls, server, CloseOld
<1>1. Types' /\ Owner' /\ Frozen'
  BY DEF Types, OwnerPCs, Owner, Making, Serving, Frozen
<1>2. Processes'
  BY DEF Processes, Serving
<1>3. Published'
  BY DEF Published, HandleIsEntry, Types, Owner, Making, Serving
<1> QED BY <1>1, <1>3, <1>2

LEMMA BackoffStep ==
  ASSUME IInv, Backoff PROVE IInv'
<1> USE UpstreamAssumption DEF IInv, First, Goto, Closing, Matches, None,
   local, clients, shared, calls, server, Backoff
<1>1. Types' /\ Owner' /\ Frozen'
  BY DEF Types, OwnerPCs, Owner, Making, Serving, Frozen
<1>2. Processes'
  BY DEF Processes, Serving
<1>3. Published'
  BY DEF Published, HandleIsEntry, Types, Owner, Making, Serving
<1> QED BY <1>1, <1>3, <1>2

LEMMA CompareStep ==
  ASSUME IInv, Compare PROVE IInv'
<1> USE UpstreamAssumption DEF IInv, First, Goto, Closing, Matches, None,
   local, clients, shared, calls, server, Compare
<1>1. Types' /\ Owner' /\ Processes'
  BY DEF Types, OwnerPCs, Owner, Making, Serving, Processes
<1>2. Published'
  BY DEF Published, HandleIsEntry, Types, Owner, Making, Serving
<1>3. Frozen'
  BY DEF Frozen, Types, Published, HandleIsEntry
<1> QED BY <1>1, <1>2, <1>3

LEMMA SwapStep ==
  ASSUME IInv, Swap PROVE IInv'
<1> USE UpstreamAssumption DEF IInv, First, Goto, Closing, Matches, None,
   local, clients, shared, calls, server, Swap, Publish, Listened
<1>1. Types'
  BY DEF Types, OwnerPCs, Clients, Owner, Making, Serving, Published,
     HandleIsEntry
<1>2. Owner'
  BY DEF Owner, Making, Serving
<1>3. Published'
  BY DEF Published, HandleIsEntry, Types, Owner, Making, Serving
<1>4. Frozen'
  BY DEF Frozen, Types, Published, HandleIsEntry, Owner, Making, Serving,
     Clients
<1>5. Processes'
  BY DEF Processes, Serving, Types, Published, HandleIsEntry, Owner, Making,
     Clients
<1> QED BY <1>1, <1>2, <1>3, <1>4, <1>5

LEMMA TakeStep ==
  ASSUME IInv, Take PROVE IInv'
<1> USE UpstreamAssumption DEF IInv, First, Goto, Closing, Matches, None,
   local, clients, shared, calls, server, Take
<1>1. Types' /\ Owner' /\ Frozen'
  BY DEF Types, OwnerPCs, Owner, Making, Serving, Frozen
<1>2. Processes'
  BY DEF Processes, Serving
<1>3. Published'
  BY DEF Published, HandleIsEntry, Types, Owner, Making, Serving
<1> QED BY <1>1, <1>3, <1>2

LEMMA RediscoverStep ==
  ASSUME IInv, Rediscover PROVE IInv'
<1> USE UpstreamAssumption DEF IInv, First, Goto, Closing, Matches, None,
   local, clients, shared, calls, server, Rediscover
<1>1. Types' /\ Owner' /\ Frozen'
  BY DEF Types, OwnerPCs, Owner, Making, Serving, Frozen
<1>2. Processes'
  BY DEF Processes, Serving
<1>3. Published'
  BY DEF Published, HandleIsEntry, Types, Owner, Making, Serving
<1> QED BY <1>1, <1>3, <1>2

LEMMA ReconcileStep ==
  ASSUME IInv, Reconcile PROVE IInv'
<1> USE UpstreamAssumption DEF IInv, First, Goto, Closing, Matches, None,
   local, clients, shared, calls, server, Reconcile, Same, IsCurrent, Withdraw
<1>1. Owner' /\ Processes'
  BY DEF Owner, Making, Serving, Processes
<1>2. /\ entry' \in [client : 0..made, gen : Nat, tools : Catalogs \cup {NoCatalog},
                     status : {"disconnected", "connected", "error"}]
      /\ entry'.gen = entry.gen /\ entry'.tools = entry.tools
      /\ \/ entry' = entry /\ handle' = handle /\ owner' = "select"
         \/ entry'.client = None /\ entry'.status # "connected" /\ handle' = None
  <2>1. CASE ~(Same \/ ~IsCurrent)
    BY <2>1, Emptied
  <2>2. CASE Same \/ ~IsCurrent
    BY <2>2 DEF Types
  <2> QED BY <2>1, <2>2
<1>x. /\ owner' \in {"select", "exit"}
      /\ client' \in [Clients -> {"none", "starting", "handshake", "ready", "dead", "closed"}]
      /\ proc' \subseteq proc
  BY <1>2 DEF Types
<1>3. Types'
  BY <1>2, <1>x DEF Types, OwnerPCs
<1>4. Published'
  BY <1>2, <1>x DEF Published, HandleIsEntry, Serving
<1>5. Frozen'
  BY <1>2 DEF Frozen
<1> QED BY <1>3, <1>1, <1>4, <1>5

LEMMA StopCancelStep ==
  ASSUME IInv, StopCancel PROVE IInv'
<1> USE UpstreamAssumption DEF IInv, First, Goto, Closing, Matches, None,
   local, clients, shared, calls, server, StopCancel, Prepared
<1>1. Types' /\ Owner' /\ Published'
  BY DEF Types, OwnerPCs, Owner, Making, Serving, Published, HandleIsEntry
<1>2. Frozen' /\ Processes'
  BY DEF Frozen, Processes, Serving
<1> QED BY <1>1, <1>2

LEMMA StopClearStep ==
  ASSUME IInv, StopClear PROVE IInv'
<1> USE UpstreamAssumption DEF IInv, First, Goto, Closing, Matches, None,
   local, clients, shared, calls, server, StopClear, Withdraw
<1>0. /\ entry' \in [client : 0..made, gen : Nat, tools : Catalogs \cup {NoCatalog},
                     status : {"disconnected", "connected", "error"}]
      /\ entry'.gen = entry.gen /\ entry'.tools = entry.tools
      /\ \/ entry' = entry /\ handle' = handle
         \/ entry'.client = None /\ entry'.status # "connected" /\ handle' = None
  <2>1. CASE entry.client # None
    BY <2>1, Emptied
  <2>2. CASE entry.client = None
    BY <2>2 DEF Types
  <2> QED BY <2>1, <2>2
<1>x. /\ client' \in [Clients -> {"none", "starting", "handshake", "ready", "dead", "closed"}]
      /\ proc' \subseteq proc
  BY DEF Types
<1>1. Types'
  BY <1>0, <1>x DEF Types, OwnerPCs
<1>2. Owner'
  BY <1>0 DEF Owner, Serving, Making
<1>3. Published'
  BY <1>0 DEF Published, HandleIsEntry, Types
<1>4. Frozen'
  BY <1>0 DEF Frozen
<1>5. Processes'
  BY DEF Processes, Serving, Types, Published, HandleIsEntry
<1> QED BY <1>1, <1>2, <1>3, <1>4, <1>5

LEMMA StopJoinStep ==
  ASSUME IInv, StopJoin PROVE IInv'
<1> USE UpstreamAssumption DEF IInv, First, Goto, Closing, Matches, None,
   local, clients, shared, calls, server, StopJoin, OwnerGone
<1>1. Types' /\ Owner' /\ Published'
  BY DEF Types, OwnerPCs, Owner, Making, Serving, Published, HandleIsEntry
<1>2. Frozen' /\ Processes'
  BY DEF Frozen, Processes, Serving
<1> QED BY <1>1, <1>2

LEMMA ChangeStep ==
  ASSUME IInv, Change PROVE IInv'
<1> USE UpstreamAssumption DEF IInv, First, Goto, Closing, Matches, None,
   local, clients, shared, calls, server, Change
<1>1. Types' /\ Owner' /\ Published'
  BY DEF Types, OwnerPCs, Owner, Making, Serving, Published, HandleIsEntry
<1>2. Frozen' /\ Processes'
  BY DEF Frozen, Processes, Serving
<1> QED BY <1>1, <1>2

LEMMA LoadStep ==
  ASSUME IInv, NEW c \in Callers, Load(c) PROVE IInv'
<1> USE UpstreamAssumption DEF IInv, First, Goto, Closing, Matches, None,
   local, clients, shared, calls, server, Load
<1>1. Types' /\ Owner' /\ Published'
  BY DEF Types, OwnerPCs, Owner, Making, Serving, Published, HandleIsEntry
<1>2. Frozen' /\ Processes'
  BY DEF Frozen, Processes, Serving
<1> QED BY <1>1, <1>2

LEMMA CallEndsStep ==
  ASSUME IInv, NEW c \in Callers, CallEnds(c) PROVE IInv'
<1> USE UpstreamAssumption DEF IInv, First, Goto, Closing, Matches, None,
   local, clients, shared, calls, server, CallEnds
<1>1. Types' /\ Owner' /\ Published'
  BY DEF Types, OwnerPCs, Owner, Making, Serving, Published, HandleIsEntry
<1>2. Frozen' /\ Processes'
  BY DEF Frozen, Processes, Serving
<1> QED BY <1>1, <1>2

LEMMA DiesStep ==
  ASSUME IInv, NEW k \in Clients, Dies(k) PROVE IInv'
<1> USE UpstreamAssumption DEF IInv, First, Goto, Closing, Matches, None,
   local, clients, shared, calls, server, Dies
<1>1. Types' /\ Owner' /\ Published'
  BY DEF Types, OwnerPCs, Owner, Making, Serving, Published, HandleIsEntry
<1>2. Frozen' /\ Processes'
  BY DEF Frozen, Processes, Serving
<1> QED BY <1>1, <1>2

LEMMA ListChangedStep ==
  ASSUME IInv, NEW k \in Clients, ListChanged(k) PROVE IInv'
<1> USE UpstreamAssumption DEF IInv, First, Goto, Closing, Matches, None,
   local, clients, shared, calls, server, ListChanged
<1>1. Types' /\ Owner' /\ Published'
  BY DEF Types, OwnerPCs, Owner, Making, Serving, Published, HandleIsEntry
<1>2. Frozen' /\ Processes'
  BY DEF Frozen, Processes, Serving
<1> QED BY <1>1, <1>2

LEMMA InitInv == Init => IInv
<1> SUFFICES ASSUME Init PROVE IInv
  OBVIOUS
<1> USE UpstreamAssumption DEF Init, None
<1>1. Types
  <2>1. entry \in [client : 0..made, gen : Nat, tools : Catalogs \cup {NoCatalog},
                   status : {"disconnected", "connected", "error"}]
    OBVIOUS
  <2>2. made \in 0..MaxClients /\ cur \in 0..made /\ handle \in 0..made /\ callback \subseteq 1..made
    BY MaxClientsNat DEF Types
  <2>3. using \in [Callers -> 0..made]
    OBVIOUS
  <2> QED BY <2>1, <2>2, <2>3 DEF Types, OwnerPCs
<1>2. Owner /\ Published /\ Frozen /\ Processes
  BY DEF Owner, Making, Serving, Published, HandleIsEntry, Frozen, Processes
<1> QED BY <1>1, <1>2 DEF IInv

LEMMA NextInv == IInv /\ [Next]_vars => IInv'
<1>1. ASSUME IInv, UNCHANGED vars PROVE IInv'
  <2> USE <1>1 DEF IInv, vars
  <2>1. Types' /\ Owner'
    BY DEF Types, Owner, First, Matches
  <2>2. Published' /\ Frozen' /\ Processes'
    BY DEF Published, HandleIsEntry, Frozen, First, Processes
  <2> QED BY <2>1, <2>2
<1>2. ASSUME IInv, OwnerStep PROVE IInv'
  BY <1>2, ConnectStep, DiscoveredStep, ConnectFailsStep, RegisterFailsStep,
     PublishFirstStep, OwnerLeavesStep, CloseOldStep, BackoffStep, CompareStep,
     SwapStep, TakeStep, RediscoverStep, ReconcileStep DEF OwnerStep
<1>3. ASSUME IInv, NEW k \in Clients, Dies(k) \/ ListChanged(k) PROVE IInv'
  BY <1>3, DiesStep, ListChangedStep
<1>4. ASSUME IInv, NEW c \in Callers, Load(c) \/ CallEnds(c) PROVE IInv'
  BY <1>4, LoadStep, CallEndsStep
<1> QED BY <1>1, <1>2, <1>3, <1>4, StartedStep, MarkFailedStep, StopCancelStep,
           StopClearStep, StopJoinStep, ChangeStep DEF Next

(* The owner, the entry and the processes, whatever dies or is stopped when. *)
THEOREM Inductive == Spec => []IInv
<1> QED BY InitInv, NextInv, PTL DEF Spec

(* Proxies reach the client that is published and no other, and no call ever *)
(* runs against tools other than those they describe (publishGeneration,     *)
(* markGenerationFailed, catalogReconcile, attemptReconnect, Stop).          *)
THEOREM CallsStaySound == Spec => []CallsSound
<1>1. IInv => CallsSound
  BY DEF IInv, CallsSound, Published, Frozen, FrozenCatalog
<1> QED BY <1>1, Inductive, PTL

(* A server has one process at a time, whatever fails half-way through a     *)
(* connection, and none once its owner has left, but for a client published  *)
(* after Stop had cleared the entry.                                         *)
THEOREM OneProcessEach == Spec => []OneProcess
<1>1. ASSUME IInv PROVE OneProcess
  <2>1. IsFiniteSet({cur}) /\ Cardinality({cur}) = 1
    BY FS_Singleton
  <2>2. Cardinality(proc) <= 1
    BY <1>1, <2>1, FS_Subset, FS_CardinalityType DEF IInv, Processes
  <2>3. owner = "exit" /\ ~PublishedLate => proc = {}
    BY <1>1 DEF IInv, Types, Published, Processes, PublishedLate
  <2> QED BY <2>2, <2>3 DEF OneProcess
<1> QED BY <1>1, Inductive, PTL

(* ---- McpWire ------------------------------------------------------------ *)
Items == [r : Reqs, t : {"reply", "error"}]
ClientTypes ==
  /\ kind \in {"http", "sse", "stdio"} /\ conn \in 0..MaxConns
  /\ link \in {"off", "open", "fail", "wait", "delete", "closed"}
  /\ sid \in {NoSid, conn} /\ hs \in {"initialize", "initialized", "ready"}
  /\ push \in {"off", "on"} /\ inbox \in Seq(Items)

RequestTypes ==
  /\ issued \in 0..MaxReqs /\ m \in [Reqs -> Methods]
  /\ of \in [Reqs -> 0..MaxConns] /\ asked \in [Reqs -> 0..MaxConns]
  /\ cl \in [Reqs -> {"none", "posting", "push", "posted", "done"}]
  /\ sv \in [Reqs -> {"none", "arrive", "handle", "execute", "respond", "over"}]
  /\ ses \in [Reqs -> 0..MaxConns]
  /\ ans \in [Reqs -> {"none", "202"} \cup Replies \cup Refusals] /\ lost \subseteq Reqs

ServerTypes ==
  /\ serving \in BOOLEAN /\ table \subseteq Sids /\ idle \subseteq Sids /\ get \subseteq Sids
  /\ state \in [Sids -> {"none", "new", "negotiated", "ready", "closed"}]
  /\ out \in [Sids -> Seq(Reqs)]

(* What is known of a request by where its handler is.                       *)
Numbered(r) ==
  /\ r <= issued => of[r] \in 1..conn
  /\ r > issued => of[r] = 0 /\ sv[r] = "none" /\ m[r] = "call"
  /\ asked[r] \in {NoSid, of[r]} /\ ses[r] \in {NoSid, of[r]}
  /\ kind # "http" => asked[r] = of[r]
  /\ sv[r] \in {"none", "arrive"} => ses[r] = NoSid
  /\ sv[r] \in {"handle", "execute"} => ses[r] = of[r]
  /\ sv[r] \in {"none", "arrive", "handle", "execute"} => ans[r] = "none"
  /\ sv[r] = "execute" => m[r] = "call"
  /\ ans[r] = "202" => m[r] = "initialized"
  /\ ans[r] = "not_initialized" => ses[r] = of[r]
Numbers == \A r \in Reqs : Numbered(r)

(* Idle sessions and DELETE are of http; the client of a stream knows the    *)
(* session it was given, which is in the table until it is closed.           *)
Shape ==
  /\ link \in {"wait", "delete"} => kind = "http"
  /\ link = "open" => conn # 0
  /\ kind # "http" => idle = {} /\ sid = conn
  /\ kind = "stdio" => \A x \in 1..conn : x \in table \/ state[x] = "closed"
  /\ \A x \in Sids : x > conn => state[x] = "none"
  /\ idle \subseteq table /\ table \subseteq 1..conn

(* A client sends one initialize; the session made for it is its own.        *)
Initializes(r) == m[r] = "initialize"
OneInitialize ==
  /\ link = "open" /\ hs = "initialize" =>
       \A r \in Reqs : Initializes(r) /\ of[r] = conn => cl[r] \in {"posting", "push", "posted"}
  /\ \A r, q \in Reqs : Initializes(r) /\ Initializes(q) /\ of[r] = of[q] => r = q
  /\ kind = "http" => \A x \in Sids : state[x] # "none" =>
                        \E r \in Reqs : Initializes(r) /\ ses[r] = x

(* How far the automaton of a session has come, for good.                    *)
Negotiated(x) == state[x] \in {"negotiated", "ready", "closed"}
Ready(x) == state[x] \in {"ready", "closed"}
(* What the client believes ...                                              *)
Believes ==
  /\ hs # "initialize" => conn # 0 /\ Negotiated(conn)
  /\ hs = "ready" /\ kind # "stdio" => Ready(conn)
  /\ hs = "ready" /\ kind = "stdio" =>
       \E q \in 1..issued : m[q] = "initialized" /\ of[q] = conn
(* ... and what each request stands for is so; over stdio by the order of    *)
(* the lines, for a call is handled when those before it are over.           *)
Stands(r) ==
  /\ Initializes(r) /\ ans[r] = "ok" => Negotiated(of[r])
  /\ m[r] = "initialized" => Negotiated(of[r])
  /\ ans[r] = "202" => Ready(of[r])
  /\ m[r] = "initialized" /\ kind = "stdio"
       /\ (sv[r] = "respond" \/ (sv[r] = "over" /\ serving)) => Ready(of[r])
  /\ m[r] = "call" /\ (kind # "stdio" \/ ses[r] # NoSid) => Ready(of[r])
  /\ m[r] = "call" /\ kind = "stdio" =>
       \E q \in 1..r-1 : m[q] = "initialized" /\ of[q] = of[r]
Handshake == Believes /\ \A r \in 1..issued : Stands(r)

WireInv == /\ ClientTypes /\ RequestTypes /\ ServerTypes /\ Numbers /\ Shape
           /\ OneInitialize /\ Handshake /\ SessionsSound

(* Sessions only come further.                                               *)
Further ==
  /\ state' \in [Sids -> {"none", "new", "negotiated", "ready", "closed"}]
  /\ \A x \in Sids : /\ Negotiated(x) => Negotiated(x)'
                     /\ Ready(x) => Ready(x)'
                     /\ state[x] = "closed" => state'[x] = "closed"
(* The handler of q rests, is done, or finds no server.                      *)
Moves(q) == \/ sv'[q] = sv[q]
            \/ sv'[q] = "over" /\ (sv[q] = "respond" \/ (sv[q] = "arrive" /\ ~serving))

LEMMA WireBounds ==
  /\ MaxSessions \in Nat \ {0} /\ MaxConns \in Nat \ {0} /\ MaxReqs \in Nat \ {0}
  /\ Reqs = 1..MaxReqs /\ Sids = 1..MaxConns
BY WireAssumption DEF Reqs, Sids, Conns

LEMMA OfSession ==
  ASSUME RequestTypes, ClientTypes, Numbers, NEW r \in 1..issued
  PROVE  r \in Reqs /\ of[r] \in 1..conn /\ of[r] \in Sids
<1>1. r \in Reqs
  BY WireBounds DEF RequestTypes
<1>2. of[r] \in 1..conn
  BY <1>1 DEF Numbers, Numbered
<1> QED BY <1>1, <1>2, WireBounds DEF ClientTypes

(* What such steps leave true.                                               *)
LEMMA NumberedKept ==
  ASSUME NEW q \in Reqs, Numbered(q), UNCHANGED <<kind, conn, reqIds, ses, ans>>,
         Moves(q)
  PROVE  Numbered(q)'
BY DEF Numbered, reqIds, Moves

LEMMA StandsKept ==
  ASSUME RequestTypes, ClientTypes, Numbers, NEW q \in 1..issued, Stands(q), Further,
         UNCHANGED <<kind, reqIds>>, serving' => serving,
         Moves(q), ses'[q] = ses[q], ans'[q] = ans[q]
  PROVE  Stands(q)'
<1>1. of[q] \in Sids
  BY OfSession
<1> QED BY <1>1 DEF Stands, Further, Initializes, reqIds, Moves

LEMMA BelievesKept ==
  ASSUME ClientTypes, Believes, Further, UNCHANGED <<kind, conn, hs, reqIds>>
  PROVE  Believes'
<1>1. conn # 0 => conn \in Sids
  BY DEF ClientTypes, Sids, Conns
<1> QED BY <1>1 DEF Believes, Further, reqIds

(* The state of the sessions, and what hangs on it, is left alone.           *)
LEMMA StateKept == ASSUME ServerTypes, UNCHANGED state PROVE Further
BY DEF Further, ServerTypes, Negotiated, Ready

LEMMA SoundKept ==
  ASSUME SessionsSound, UNCHANGED <<kind, table, state, ses>>, get' \subseteq get,
         \A q \in Reqs : ans'[q] = "not_initialized" => ans[q] = "not_initialized"
  PROVE  SessionsSound'
BY DEF SessionsSound, SessionsInStep, HandshakeOrdered, Open

LEMMA ShapeKept ==
  ASSUME Shape, UNCHANGED <<kind, conn, idle, table, state>>,
         sid' = sid \/ kind = "http", link' = "open" => link = "open",
         link' \in {link, "fail", "closed"} \/ kind = "http"
  PROVE  Shape'
BY DEF Shape

LEMMA InitializeKept ==
  ASSUME OneInitialize, UNCHANGED <<kind, conn, reqIds, ses, state>>,
         link' = "open" => link = "open", hs' = "initialize" => hs = "initialize",
         link' = "open" /\ hs' = "initialize" =>
           \A q \in Reqs : Initializes(q) /\ of[q] = conn /\ cl[q] \in {"posting", "push", "posted"}
             => cl'[q] \in {"posting", "push", "posted"}
  PROVE  OneInitialize'
BY DEF OneInitialize, Initializes, reqIds

(* Steps of the client, and the ways back to it: the table, the automata and *)
(* the answers stay as they are.                                             *)
Believed == \/ hs' = hs
            \/ conn # 0 /\ hs' = "initialized" /\ Negotiated(conn)
            \/ conn # 0 /\ hs' = "ready" /\ Ready(conn) /\ kind # "stdio"
StillAsked ==
  link' = "open" /\ hs' = "initialize" =>
    \A q \in Reqs : Initializes(q) /\ of[q] = conn /\ cl[q] \in {"posting", "push", "posted"}
                      => cl'[q] \in {"posting", "push", "posted"}
LEMMA ClientSide ==
  ASSUME WireInv, ClientTypes', RequestTypes', out' \in [Sids -> Seq(Reqs)], get' \subseteq get,
         UNCHANGED <<kind, conn, reqIds, ses, ans, serving, table, state, idle>>,
         \A q \in Reqs : Moves(q), Believed, StillAsked,
         sid' = sid \/ kind = "http", link' = "open" => link = "open",
         link' \in {link, "fail", "closed"} \/ kind = "http"
  PROVE  WireInv'
<1> USE DEF WireInv
<1>1. ServerTypes' /\ Numbers' /\ Further
  BY NumberedKept, StateKept DEF Numbers, ServerTypes
<1>2. Shape' /\ SessionsSound'
  BY ShapeKept, SoundKept
<1>3. OneInitialize'
  BY InitializeKept DEF Believed, StillAsked
<1>4. Believes'
  <2>1. conn # 0 => conn \in Sids
    BY WireBounds DEF ClientTypes
  <2> QED BY <1>1, <2>1 DEF Handshake, Believes, Further, reqIds, Believed, Negotiated, Ready
<1>5. Handshake'
  <2>1. \A q \in 1..issued : Stands(q)'
    BY <1>1, StandsKept, OfSession DEF Handshake
  <2> QED BY <1>4, <2>1 DEF Handshake, reqIds
<1> QED BY <1>1, <1>2, <1>3, <1>5

LEMMA InboxGrows == \A s, i : s \in Seq(Items) /\ i \in Items => Append(s, i) \in Seq(Items)
OBVIOUS

LEMMA GiveUpStep ==
  ASSUME WireInv, NEW r \in Reqs, GiveUp(r) PROVE WireInv'
<1> USE DEF WireInv, GiveUp, Cl, Fails, reqIds, serverEnd
<1>1. ClientTypes' /\ RequestTypes' /\ out' \in [Sids -> Seq(Reqs)]
  BY DEF ClientTypes, RequestTypes, ServerTypes
<1>2. StillAsked
  BY DEF StillAsked, Initializes, RequestTypes
<1> QED BY <1>1, <1>2, ClientSide DEF Believed, Moves

LEMMA DeliverStep ==
  ASSUME WireInv, NEW r \in Reqs, Deliver(r) PROVE WireInv'
<1> USE DEF WireInv, Deliver, Cl, Waits, reqIds, serverEnd, clientEnd
<1>1. RequestTypes' /\ out' \in [Sids -> Seq(Reqs)]
  BY DEF RequestTypes, ServerTypes
<1>2. ClientTypes'
  <2>1. Item(r) \in Items
    BY DEF Item, Items
  <2>2. inbox' \in Seq(Items)
    BY <2>1, InboxGrows DEF ClientTypes
  <2> QED BY <2>2 DEF ClientTypes
<1>3. StillAsked
  BY DEF StillAsked, Initializes, RequestTypes
<1> QED BY <1>1, <1>2, <1>3, ClientSide DEF Believed, Moves

LEMMA WriteEventStep ==
  ASSUME WireInv, NEW x \in Sids, WriteEvent(x) PROVE WireInv'
<1> USE DEF WireInv, WriteEvent, reqIds, clientEnd
<1>1. out[x] \in Seq(Reqs) /\ Head(out[x]) \in Reqs /\ Tail(out[x]) \in Seq(Reqs)
  BY DEF ServerTypes
<1>2. RequestTypes' /\ out' \in [Sids -> Seq(Reqs)]
  BY <1>1 DEF RequestTypes, ServerTypes
<1>3. ClientTypes'
  <2>1. Item(Head(out[x])) \in Items
    BY <1>1 DEF Item, Items
  <2>2. inbox' \in Seq(Items)
    BY <2>1, InboxGrows DEF ClientTypes
  <2> QED BY <2>2 DEF ClientTypes
<1> QED BY <1>2, <1>3, ClientSide DEF Believed, Moves, StillAsked

LEMMA RecvStep ==
  ASSUME WireInv, Recv PROVE WireInv'
<1> DEFINE i == Head(inbox)
<1> USE DEF WireInv, Recv, Fails, reqIds, serverEnd
<1>1. i.r \in Reqs /\ Tail(inbox) \in Seq(Items)
  <2>1. inbox \in Seq(Items) /\ inbox # <<>>
    BY DEF ClientTypes
  <2>2. i \in Items /\ Tail(inbox) \in Seq(Items)
    BY <2>1, HeadTailProperties
  <2> QED BY <2>2 DEF Items
<1>2. ClientTypes' /\ RequestTypes' /\ out' \in [Sids -> Seq(Reqs)]
  BY <1>1 DEF ClientTypes, RequestTypes, ServerTypes
<1>3. Believed
  <2>1. SUFFICES ASSUME m[i.r] = "initialize", ans[i.r] = "ok", of[i.r] = conn PROVE Believed
    BY DEF Believed
  <2>2. i.r \in 1..issued
    <3>1. \A q \in Reqs : m[q] = "initialize" => q \in 1..issued
      <4> HIDE DEF Recv
      <4> QED BY WireBounds DEF Numbers, Numbered, RequestTypes
    <3> QED BY <1>1, <2>1, <3>1
  <2> QED BY <2>1, <2>2, OfSession DEF Handshake, Stands, Initializes, Believed
<1>4. StillAsked
  BY <1>1 DEF StillAsked, Initializes, RequestTypes
<1> QED BY <1>2, <1>3, <1>4, ClientSide DEF Moves

LEMMA LinkStep ==
  ASSUME WireInv, StreamEnds \/ Break \/ PushEnds \/ WaitPush \/ FailClose PROVE WireInv'
<1> USE DEF WireInv, StreamEnds, Break, PushEnds, WaitPush, FailClose, AllAnswered,
            Fails, reqIds, serverEnd
<1>1. ClientTypes' /\ RequestTypes' /\ out' \in [Sids -> Seq(Reqs)]
  BY DEF ClientTypes, RequestTypes, ServerTypes
<1>2. StillAsked
  BY DEF StillAsked, Initializes, RequestTypes
<1>3. link' \in {link, "fail", "closed"} \/ kind = "http"
  BY DEF Shape
<1> QED BY <1>1, <1>2, <1>3, ClientSide DEF Believed, Moves

LEMMA BackHTTPStep ==
  ASSUME WireInv, NEW r \in Reqs, BackHTTP(r) PROVE WireInv'
<1> USE DEF WireInv, BackHTTP, Cl, Sv, reqIds, serverEnd
<1>1. ClientTypes'
  BY DEF ClientTypes, Numbers, Numbered
<1>2. RequestTypes' /\ out' \in [Sids -> Seq(Reqs)]
  BY DEF RequestTypes, ServerTypes
<1>3. Believed
  <2>1. SUFFICES ASSUME ans[r] = "202", of[r] = conn PROVE Believed
    BY DEF Believed
  <2>2. r \in 1..issued
    BY <2>1, WireBounds DEF Numbers, Numbered, RequestTypes
  <2> QED BY <2>1, <2>2, OfSession DEF Handshake, Stands, Believed
<1>4. StillAsked
  BY DEF StillAsked, Initializes, RequestTypes, Numbers, Numbered
<1>5. \A q \in Reqs : Moves(q)
  BY DEF Moves, RequestTypes
<1> QED BY <1>1, <1>2, <1>3, <1>4, <1>5, ClientSide

LEMMA BackSSEStep ==
  ASSUME WireInv, NEW r \in Reqs, BackSSE(r) PROVE WireInv'
<1> USE DEF WireInv, BackSSE, Cl, Sv, Waits, Fails, reqIds
<1>1. ClientTypes'
  BY DEF ClientTypes
<1>2. RequestTypes'
  BY DEF RequestTypes
<1>3. out' \in [Sids -> Seq(Reqs)]
  <2>1. \A x \in Sids : out[x] \in Seq(Reqs) /\ Append(out[x], r) \in Seq(Reqs)
    BY DEF ServerTypes
  <2>2. out' = out \/ out' = [out EXCEPT ![ses[r]] = Append(out[ses[r]], r)]
    OBVIOUS
  <2>3. out = [x \in Sids |-> out[x]]
    BY DEF ServerTypes
  <2> HIDE DEF BackSSE, WireInv
  <2> QED BY <2>1, <2>2, <2>3
<1>4. Believed
  <2>1. SUFFICES ASSUME ans[r] = "202", of[r] = conn PROVE Believed
    BY DEF Believed
  <2>2. r \in 1..issued
    BY <2>1, WireBounds DEF Numbers, Numbered, RequestTypes
  <2> QED BY <2>1, <2>2, OfSession DEF Handshake, Stands, Believed
<1>5. StillAsked
  BY DEF StillAsked, Initializes, RequestTypes, Numbers, Numbered
<1>6. \A q \in Reqs : Moves(q)
  BY DEF Moves, RequestTypes
<1> QED BY <1>1, <1>2, <1>3, <1>4, <1>5, <1>6, ClientSide

LEMMA BackStdioStep ==
  ASSUME WireInv, NEW r \in Reqs, BackStdio(r) PROVE WireInv'
<1> USE DEF WireInv, BackStdio, Sv, reqIds, clientEnd
<1>1. RequestTypes' /\ out' \in [Sids -> Seq(Reqs)]
  BY DEF RequestTypes, ServerTypes
<1>2. ClientTypes'
  <2>1. Item(r) \in Items
    BY DEF Item, Items
  <2>2. inbox' \in Seq(Items)
    BY <2>1, InboxGrows DEF ClientTypes
  <2> QED BY <2>2 DEF ClientTypes
<1>3. \A q \in Reqs : Moves(q)
  BY DEF Moves, RequestTypes
<1> QED BY <1>1, <1>2, <1>3, ClientSide DEF Believed, StillAsked

LEMMA NoServerStep ==
  ASSUME WireInv, NEW r \in Reqs, NoServer(r) PROVE WireInv'
<1> USE DEF WireInv, NoServer, Cl, Sv, Fails, reqIds, serverEnd
<1>1. ClientTypes' /\ RequestTypes' /\ out' \in [Sids -> Seq(Reqs)]
  BY DEF ClientTypes, RequestTypes, ServerTypes
<1>2. StillAsked
  BY DEF StillAsked, Initializes, RequestTypes
<1>3. \A q \in Reqs : Moves(q)
  BY DEF Moves, RequestTypes
<1> QED BY <1>1, <1>2, <1>3, ClientSide DEF Believed

(* The steps of the server: an answer prepared without a look at a session.  *)
LEMMA ExecuteStep ==
  ASSUME WireInv, NEW r \in Reqs, Execute(r) PROVE WireInv'
<1> USE DEF WireInv
<1>1. UNCHANGED <<kind, conn, link, sid, hs, push, inbox, issued, m, of, asked, cl, ses, lost,
                  serving, table, state, idle, out, get>>
  BY DEF Execute, clientEnd, reqIds, serverEnd
<1>2. sv[r] = "execute" /\ sv' = [sv EXCEPT ![r] = "respond"]
  BY DEF Execute, Sv
<1>3. \E a \in {"ok", "rpc_error", "500"} : ans' = [ans EXCEPT ![r] = a]
  BY DEF Execute, Answer
<1>4. \A q \in Reqs \ {r} : sv'[q] = sv[q] /\ ans'[q] = ans[q]
  BY <1>2, <1>3 DEF RequestTypes
<1>5. sv'[r] = "respond" /\ ans'[r] \in {"ok", "rpc_error", "500"}
  BY <1>2, <1>3 DEF RequestTypes
<1>6. m[r] = "call" /\ ses[r] = of[r] /\ r \in 1..issued
  <2>1. Numbered(r) /\ issued \in Nat /\ r \in Nat /\ r >= 1
    BY WireBounds DEF Numbers, RequestTypes
  <2> QED BY <1>2, <2>1 DEF Numbered
<1>7. ClientTypes' /\ ServerTypes' /\ RequestTypes'
  BY <1>1, <1>2, <1>3 DEF ClientTypes, ServerTypes, RequestTypes, Replies, Refusals
<1>8. Numbers'
  <2>1. \A q \in Reqs \ {r} : Numbered(q)'
    BY <1>1, <1>4 DEF Numbers, Numbered
  <2>2. Numbered(r)'
    BY <1>1, <1>2, <1>5, <1>6 DEF Numbers, Numbered
  <2> QED BY <2>1, <2>2 DEF Numbers
<1>9. Shape' /\ OneInitialize' /\ SessionsSound' /\ Further
  BY <1>1, <1>4, <1>5, ShapeKept, InitializeKept, SoundKept, StateKept DEF reqIds
<1>10. Handshake'
  <2>1. Believes'
    BY <1>1, <1>9, BelievesKept DEF Handshake, reqIds
  <2>2. \A q \in 1..issued : q # r => Stands(q)'
    BY <1>1, <1>4, <1>9, StandsKept, OfSession DEF Handshake, reqIds, Moves
  <2>3. Stands(r)'
    BY <1>1, <1>5, <1>6 DEF Handshake, Stands, Negotiated, Ready, Initializes
  <2> QED BY <1>1, <2>1, <2>2, <2>3 DEF Handshake
<1> QED BY <1>7, <1>8, <1>9, <1>10

LEMMA HandleStep ==
  ASSUME WireInv, NEW r \in Reqs, Handle(r) PROVE WireInv'
<1> PICK x : x = of[r]
  OBVIOUS
<1> USE DEF WireInv
<1>1. UNCHANGED <<kind, conn, link, sid, hs, push, inbox, issued, m, of, asked, cl, ses, lost,
                  serving, table, idle, out, get>>
  BY DEF Handle, clientEnd, reqIds
<1>2. sv[r] = "handle" /\ x = of[r] /\ ses[r] = x /\ r \in 1..issued /\ x \in Sids /\ x <= conn
  <2>1. sv[r] = "handle"
    BY DEF Handle
  <2>2. Numbered(r) /\ issued \in Nat /\ r \in Nat /\ r >= 1
    BY WireBounds DEF Numbers, RequestTypes
  <2>3. ses[r] = x /\ r \in 1..issued
    BY <2>1, <2>2 DEF Numbered
  <2> QED BY <2>1, <2>3, OfSession DEF ClientTypes
<1>3. \E l \in {"respond", "execute"}, a \in {"none", "202"} \cup Replies \cup Refusals :
        sv' = [sv EXCEPT ![r] = l] /\ ans' = [ans EXCEPT ![r] = a]
  BY DEF Handle, Automaton, Sv, Answer, Replies, Refusals, RequestTypes
<1>4. \A q \in Reqs \ {r} : sv'[q] = sv[q] /\ ans'[q] = ans[q]
  BY <1>3 DEF RequestTypes
<1>5. /\ m[r] = "initialize" => sv'[r] = "respond" /\ ans'[r] \in {"ok", "rpc_error"}
      /\ m[r] = "initialize" /\ ans'[r] = "ok" => state'[x] = "negotiated"
      /\ m[r] = "initialized" => /\ sv'[r] = "respond"
                                 /\ \/ ans'[r] = "202" /\ state'[x] = "ready"
                                    \/ ans'[r] = "500" /\ state[x] # "negotiated" /\ state' = state
      /\ m[r] = "call" => \/ sv'[r] = "execute" /\ ans'[r] = ans[r]
                          \/ /\ sv'[r] = "respond" /\ ans'[r] = "not_initialized"
                             /\ state[x] # "ready"
      /\ m[r] = "call" => state' = state
  BY <1>2 DEF Handle, Automaton, Sv, Answer, RequestTypes, ServerTypes
<1>6. \/ state' = state
      \/ state[x] = "new" /\ state' = [state EXCEPT ![x] = "negotiated"]
      \/ state[x] = "negotiated" /\ state' = [state EXCEPT ![x] = "ready"]
  BY <1>2 DEF Handle, Automaton
<1>7. Further /\ \A y \in Sids : /\ Open(y)' <=> Open(y)
                                 /\ state'[y] = "none" <=> state[y] = "none"
                                 /\ state[y] = "closed" => state'[y] = "closed"
  BY <1>2, <1>6 DEF Further, ServerTypes, Open, Negotiated, Ready
<1>8. ClientTypes' /\ ServerTypes' /\ RequestTypes'
  BY <1>1, <1>3, <1>7 DEF ClientTypes, ServerTypes, RequestTypes, Further
<1>9. Numbers'
  <2>1. \A q \in Reqs \ {r} : Numbered(q)'
    BY <1>1, <1>4 DEF Numbers, Numbered
  <2>2. m[r] \in Methods
    BY DEF RequestTypes
  <2>3. Numbered(r)'
    BY <1>1, <1>2, <1>5, <2>2 DEF Numbers, Numbered, Methods
  <2> QED BY <2>1, <2>3 DEF Numbers
<1>10. Shape'
  BY <1>1, <1>7, WireBounds DEF Shape, ClientTypes
<1>11. OneInitialize'
  BY <1>1, <1>7 DEF OneInitialize, Initializes
<1>12. Handshake'
  <2>1. Believes'
    BY <1>1, <1>7, BelievesKept DEF Handshake, reqIds
  <2>2. \A q \in 1..issued : q # r => Stands(q)'
    BY <1>1, <1>4, <1>7, StandsKept, OfSession DEF Handshake, reqIds, Moves
  <2>3. Stands(r)'
    <3>1. Stands(r) /\ m[r] \in Methods
      BY <1>2 DEF Handshake, RequestTypes
    <3>3. state'[x] \in {"none", "new", "negotiated", "ready", "closed"}
      BY <1>2, <1>7 DEF Further
    <3>4. CASE m[r] = "initialize"
      BY <1>1, <1>5, <3>1, <3>4 DEF Stands, Initializes, Negotiated
    <3>5. CASE m[r] = "initialized"
      BY <1>1, <1>2, <1>5, <1>7, <3>1, <3>5 DEF Stands, Initializes, Negotiated, Ready, Further
    <3>6. CASE m[r] = "call"
      <4>1. Ready(x) /\ Ready(x)'
        <5>1. ses[r] # NoSid
          BY <1>2, WireBounds DEF NoSid
        <5>2. Ready(x)
          BY <3>1, <3>6, <5>1 DEF Stands
        <5> QED BY <1>2, <1>7, <5>2 DEF Further
      <4>2. ans'[r] # "202"
        BY <1>2, <1>5, <3>6 DEF Numbers, Numbered
      <4> QED BY <1>1, <3>1, <3>6, <4>1, <4>2 DEF Stands, Initializes
    <3> QED BY <3>1, <3>4, <3>5, <3>6 DEF Methods
  <2> QED BY <1>1, <2>1, <2>2, <2>3 DEF Handshake
<1>13. SessionsInStep'
  <2>1. table \subseteq Sids /\ SessionsInStep /\ \A y \in Sids : Open(y)' <=> Open(y)
    BY <1>7 DEF SessionsSound, ServerTypes
  <2> QED BY <1>1, <2>1 DEF SessionsInStep
<1>14. HandshakeOrdered'
  <2>1. \A q \in Reqs \ {r} : ans'[q] = "not_initialized" => state'[ses'[q]] = "closed"
    <3>1. \A q \in Reqs \ {r} : ans[q] = "not_initialized" => ses[q] \in Sids
      BY OfSession, WireBounds DEF Numbers, Numbered, RequestTypes
    <3> QED BY <1>1, <1>4, <1>7, <3>1 DEF SessionsSound, HandshakeOrdered
  <2>2. ans'[r] = "not_initialized" => state'[ses'[r]] = "closed"
    <3>1. ASSUME ans'[r] = "not_initialized" PROVE state[x] = "closed"
      <4>1. m[r] = "call" /\ state[x] # "ready"
        <5>1. m[r] \in {"initialize", "initialized", "call"}
          BY DEF RequestTypes, Methods
        <5>2. m[r] = "call"
          BY <1>5, <3>1, <5>1
        <5>3. state[x] # "ready" \/ ans[r] = "not_initialized"
          BY <1>5, <3>1, <5>2
        <5>4. ans[r] # "not_initialized"
          BY <1>2 DEF Numbers, Numbered
        <5> QED BY <5>2, <5>3, <5>4
      <4>2. Ready(x)
        BY <1>2, <4>1, WireBounds DEF Handshake, Stands, NoSid
      <4> QED BY <4>1, <4>2 DEF Ready
    <3> QED BY <1>1, <1>2, <1>7, <3>1
  <2> QED BY <2>1, <2>2 DEF HandshakeOrdered
<1> QED BY <1>8, <1>9, <1>10, <1>11, <1>12, <1>13, <1>14 DEF SessionsSound

(* Sessions are taken out of the table and, but over sse, closed.            *)
LEMMA SessionsEnd ==
  ASSUME WireInv, NEW ys,
         table' = table \ ys,
         state' = [x \in Sids |-> IF kind # "sse" /\ x \in ys \cap table THEN "closed"
                                  ELSE state[x]],
         idle' \subseteq (idle \cup table) \ ys, kind # "http" => idle' = {},
         get' \subseteq get, kind # "http" => get' \cap ys = {},
         serving' \in BOOLEAN, serving' => serving,
         link' \in {link, "closed"},
         UNCHANGED <<kind, conn, sid, hs, push, inbox, reqIds, cl, sv, ses, ans, lost, out>>
  PROVE  WireInv'
<1> USE DEF WireInv
<1>1. ClientTypes' /\ RequestTypes' /\ ServerTypes'
  BY DEF ClientTypes, RequestTypes, ServerTypes, reqIds
<1>2. Further
  BY <1>1 DEF Further, Negotiated, Ready, ServerTypes
<1>3. Numbers'
  BY NumberedKept DEF Numbers, Moves
<1>4. Shape'
  <2>1. \A x \in Sids : x > conn => x \notin table
    BY WireBounds DEF Shape, ClientTypes
  <2>2. \A x \in Sids : x > conn => state'[x] = "none"
    BY <2>1 DEF Shape
  <2>3. ASSUME kind = "stdio", NEW x \in 1..conn PROVE x \in table' \/ state'[x] = "closed"
    BY <2>3, WireBounds DEF Shape, ClientTypes
  <2>4. idle' \subseteq table' /\ table' \subseteq 1..conn
    BY DEF Shape
  <2>5. link' = "open" => link = "open"
    OBVIOUS
  <2> QED BY <2>2, <2>3, <2>4, <2>5 DEF Shape
<1>5. OneInitialize'
  <2>1. ASSUME kind = "http", NEW x \in Sids, state'[x] # "none" PROVE state[x] # "none"
    BY <2>1 DEF SessionsSound, SessionsInStep, Open
  <2> QED BY <2>1 DEF OneInitialize, Initializes, reqIds
<1>6. Handshake'
  <2>1. Believes'
    BY <1>2, BelievesKept DEF Handshake
  <2>2. \A q \in 1..issued : Stands(q)'
    BY <1>2, StandsKept, OfSession DEF Handshake, Moves
  <2> QED BY <2>1, <2>2 DEF Handshake, reqIds
<1>7. HandshakeOrdered'
  <2>1. \A q \in Reqs : ans[q] = "not_initialized" => ses[q] \in Sids
    BY OfSession, WireBounds DEF Numbers, Numbered, RequestTypes
  <2> QED BY <1>2, <2>1 DEF SessionsSound, HandshakeOrdered, Further
<1>8. SessionsInStep'
  <2>1. (\A x \in table' : Open(x)') /\ (kind # "sse" => \A x \in Sids : Open(x)' => x \in table')
    <3>1. table \subseteq Sids
      BY WireBounds DEF ServerTypes
    <3> QED BY <3>1 DEF SessionsSound, SessionsInStep, Open
  <2>2. kind # "http" => get' \subseteq table'
    BY DEF SessionsSound, SessionsInStep
  <2>3. kind = "http" => Cardinality(table') <= MaxSessions
    <3>1. IsFiniteSet(table)
      <4>1. table \subseteq 1..conn /\ conn \in Int
        BY WireBounds DEF Shape, ClientTypes
      <4>2. IsFiniteSet(1..conn)
        BY <4>1, FS_Interval
      <4> QED BY <4>1, <4>2, FS_Subset
    <3>2. Cardinality(table') <= Cardinality(table) /\ Cardinality(table') \in Nat /\ Cardinality(table) \in Nat
      BY <3>1, FS_Subset, FS_CardinalityType
    <3> QED BY <3>2, WireBounds DEF SessionsSound, SessionsInStep
  <2> QED BY <2>1, <2>2, <2>3 DEF SessionsInStep
<1> QED BY <1>1, <1>3, <1>4, <1>5, <1>6, <1>7, <1>8 DEF SessionsSound

LEMMA DeleteStep ==
  ASSUME WireInv, Delete PROVE WireInv'
<1>1. kind = "http"
  BY DEF WireInv, Shape, Delete
<1>2. /\ serving \in BOOLEAN /\ link' \in {link, "closed"}
      /\ UNCHANGED <<kind, conn, sid, hs, push, inbox, reqIds, cl, sv, ses, ans, lost,
                     serving, out, get>>
  BY DEF WireInv, ServerTypes, Delete
<1>3. CASE UNCHANGED <<table, state, idle>>
  <2>1. state' = [x \in Sids |-> IF kind # "sse" /\ x \in {} \cap table THEN "closed" ELSE state[x]]
    BY <1>3 DEF WireInv, ServerTypes
  <2> QED BY <1>1, <1>2, <1>3, <2>1, SessionsEnd
<1>4. CASE Remove({sid}) /\ Closed({sid} \cap table) /\ idle' = idle \ {sid}
  <2>1. state' = [x \in Sids |-> IF kind # "sse" /\ x \in {sid} \cap table THEN "closed" ELSE state[x]]
    BY <1>1, <1>4 DEF Closed
  <2> QED BY <1>1, <1>2, <1>4, <2>1, SessionsEnd DEF Remove
<1> QED BY <1>3, <1>4 DEF Delete

LEMMA FallIdleStep ==
  ASSUME WireInv, NEW x \in Sids, FallIdle(x) PROVE WireInv'
<1>1. state' = [y \in Sids |-> IF kind # "sse" /\ y \in {} \cap table THEN "closed" ELSE state[y]]
  BY DEF WireInv, ServerTypes, FallIdle
<1> QED BY <1>1, SessionsEnd DEF WireInv, FallIdle, ServerTypes, clientEnd, reqIds

LEMMA SweepStep ==
  ASSUME WireInv, Sweep PROVE WireInv'
<1>1. idle = idle \cap table
  BY DEF WireInv, Shape
<1>2. kind = "http"
  BY DEF WireInv, Shape, Sweep, Stale
<1>3. state' = [y \in Sids |-> IF kind # "sse" /\ y \in idle \cap table THEN "closed" ELSE state[y]]
  BY <1>1, <1>2 DEF Sweep, Stale, Closed
<1> QED BY <1>2, <1>3, SessionsEnd
     DEF WireInv, Sweep, Stale, Remove, ServerTypes, clientEnd, reqIds

LEMMA GetEndsStep ==
  ASSUME WireInv, NEW x \in Sids, GetEnds(x) PROVE WireInv'
<1>1. x \in table
  BY DEF WireInv, SessionsSound, SessionsInStep, GetEnds
<1>2. state' = [y \in Sids |-> IF kind # "sse" /\ y \in {x} \cap table THEN "closed" ELSE state[y]]
  BY <1>1 DEF WireInv, ServerTypes, GetEnds, Closed
<1> QED BY <1>2, SessionsEnd DEF WireInv, GetEnds, Remove, Shape, ServerTypes, clientEnd, reqIds

LEMMA ServeEndsStep ==
  ASSUME WireInv, ServeEnds PROVE WireInv'
<1>1. CASE kind = "http"
  <2>1. state' = [y \in Sids |-> IF kind # "sse" /\ y \in table \cap table THEN "closed" ELSE state[y]]
    BY <1>1 DEF ServeEnds, Closed
  <2> QED BY <1>1, <2>1, SessionsEnd DEF WireInv, ServeEnds, Remove, clientEnd, reqIds
<1>2. CASE kind # "http"
  <2>1. state' = [y \in Sids |-> IF kind # "sse" /\ y \in {} \cap table THEN "closed" ELSE state[y]]
    BY <1>2 DEF WireInv, ServerTypes, ServeEnds
  <2> QED BY <1>2, <2>1, SessionsEnd DEF WireInv, ServeEnds, Shape, clientEnd, reqIds
<1> QED BY <1>1, <1>2

(* A request gets its number, and the client's word.                         *)
LEMMA SendStep ==
  ASSUME WireInv, Send PROVE WireInv'
<1> USE DEF WireInv
<1> PICK r : r = issued + 1
  OBVIOUS
<1>1. UNCHANGED <<kind, conn, link, sid, push, inbox, ses, ans, lost, serving, table, state,
                  idle, out, get>>
  BY DEF Send, serverEnd
<1>2. link = "open" /\ issued' = r /\ r = issued + 1 /\ r \in Reqs /\ issued \in Nat /\ conn \in Nat /\ conn # 0
  BY WireBounds DEF Send, Shape, RequestTypes, ClientTypes
<1>3. of[r] = 0 /\ sv[r] = "none" /\ ses[r] = NoSid /\ ans[r] = "none"
  <2>1. Numbered(r) /\ r > issued
    BY <1>2 DEF Numbers
  <2> QED BY <2>1 DEF Numbered
<1>4. /\ m' = [m EXCEPT ![r] = IF hs = "ready" THEN "call" ELSE hs]
      /\ of' = [of EXCEPT ![r] = conn] /\ asked' = [asked EXCEPT ![r] = sid]
      /\ sv' = [sv EXCEPT ![r] = "arrive"]
      /\ \E l \in {"posting", "posted", "done"} : cl' = [cl EXCEPT ![r] = l]
  BY DEF Send, Sv, Cl
<1>5. hs = "initialize" => cl'[r] \in {"posting", "posted"}
  BY <1>2 DEF Send, Cl, RequestTypes
<1>6. \/ hs' = hs
      \/ hs = "initialized" /\ hs' = "ready" /\ kind = "stdio"
  BY DEF Send, Unacknowledged
<1>7. /\ m'[r] = (IF hs = "ready" THEN "call" ELSE hs) /\ of'[r] = conn /\ asked'[r] = sid
      /\ sv'[r] = "arrive"
  BY <1>2, <1>4 DEF RequestTypes
<1>8. \A q \in Reqs \ {r} : /\ m'[q] = m[q] /\ of'[q] = of[q] /\ asked'[q] = asked[q]
                            /\ sv'[q] = sv[q] /\ cl'[q] = cl[q]
  BY <1>4 DEF RequestTypes
<1>9. ClientTypes' /\ ServerTypes'
  BY <1>1, <1>6 DEF ClientTypes, ServerTypes
<1>10. RequestTypes'
  <2>1. hs \in {"initialize", "initialized", "ready"} /\ sid \in 0..MaxConns /\ conn \in 0..MaxConns
    BY WireBounds DEF ClientTypes, NoSid
  <2>2. m' \in [Reqs -> Methods]
    BY <1>2, <1>4, <2>1 DEF RequestTypes, Methods
  <2>3. issued' \in 0..MaxReqs
    BY <1>2, WireBounds
  <2> QED BY <1>1, <1>2, <1>4, <2>1, <2>2, <2>3 DEF RequestTypes
<1>11. Numbers'
  <2>1. ASSUME NEW q \in Reqs, q # r PROVE Numbered(q)'
    <3>1. Numbered(q) /\ q \in Nat
      BY WireBounds DEF Numbers
    <3> QED BY <1>1, <1>2, <1>8, <2>1, <3>1 DEF Numbered
  <2>2. Numbered(r)'
    BY <1>1, <1>2, <1>3, <1>7 DEF Numbered, ClientTypes, Shape, NoSid
  <2> QED BY <2>1, <2>2 DEF Numbers
<1>12. Shape' /\ SessionsSound'
  BY <1>1 DEF Shape, SessionsSound, SessionsInStep, HandshakeOrdered, Open
<1>13. OneInitialize'
  <2>1. hs = "initialize" => \A q \in Reqs : Initializes(q) => of[q] # conn
    BY <1>2 DEF Send, MaySend, Sequential, Outstanding, OneInitialize
  <2>2. \A q \in Reqs \ {r} : Initializes(q)' <=> Initializes(q)
    BY <1>8 DEF Initializes
  <2>3. Initializes(r)' => hs = "initialize"
    BY <1>7 DEF Initializes, ClientTypes
  <2>4. \A p, q \in Reqs : Initializes(p)' /\ Initializes(q)' /\ of'[p] = of'[q] => p = q
    BY <1>7, <1>8, <2>1, <2>2, <2>3 DEF OneInitialize
  <2>5. hs' = "initialize" =>
          \A q \in Reqs : Initializes(q)' /\ of'[q] = conn => cl'[q] \in {"posting", "push", "posted"}
    BY <1>5, <1>6, <1>8, <2>1, <2>2
  <2>6. ASSUME kind = "http", NEW x \in Sids, state[x] # "none"
        PROVE  \E q \in Reqs : Initializes(q)' /\ ses[q] = x
    <3>1. PICK q \in Reqs : Initializes(q) /\ ses[q] = x
      BY <2>6 DEF OneInitialize
    <3>2. q # r
      BY <1>3, <3>1, WireBounds DEF NoSid
    <3> QED BY <2>2, <3>1, <3>2
  <2> QED BY <1>1, <2>4, <2>5, <2>6 DEF OneInitialize
<1>14. Handshake'
  <2>1. Believes'
    <3>1. CASE hs' = hs
      <4>1. ASSUME NEW q \in 1..issued, m[q] = "initialized", of[q] = conn
            PROVE  q \in 1..r /\ m'[q] = "initialized" /\ of'[q] = conn
        BY <1>2, <1>8, <4>1, WireBounds DEF RequestTypes
      <4> QED BY <1>1, <1>2, <3>1, <4>1 DEF Handshake, Believes, Negotiated, Ready
    <3>2. CASE hs = "initialized" /\ hs' = "ready" /\ kind = "stdio"
      <4>1. r \in 1..r /\ m'[r] = "initialized" /\ of'[r] = conn
        BY <1>2, <1>7, <3>2
      <4> QED BY <1>1, <1>2, <3>2, <4>1 DEF Handshake, Believes, Negotiated, Ready
    <3> QED BY <1>6, <3>1, <3>2
  <2>2. ASSUME NEW q \in 1..issued PROVE Stands(q)'
    <3>1. Stands(q) /\ q \in Reqs /\ q # r
      BY <1>2, OfSession DEF Handshake
    <3>2. \A p \in 1..q-1 : p \in Reqs /\ p # r
      BY <1>2, WireBounds
    <3>3. \A p \in 1..q-1 : m'[p] = m[p] /\ of'[p] = of[p]
      BY <1>8, <3>2
    <3> QED BY <1>1, <1>8, <3>1, <3>3 DEF Stands, Initializes, Negotiated, Ready
  <2>3. Stands(r)'
    <3>1. ans'[r] = "none" /\ ses'[r] = NoSid
      BY <1>1, <1>3
    <3>2. m'[r] = "initialized" => Negotiated(conn)'
      BY <1>1, <1>7 DEF Handshake, Believes, Negotiated
    <3>3. m'[r] = "call" => hs = "ready"
      BY <1>7 DEF ClientTypes
    <3>4. m'[r] = "call" /\ kind # "stdio" => Ready(conn)'
      BY <1>1, <3>3 DEF Handshake, Believes, Ready
    <3>5. ASSUME m'[r] = "call", kind = "stdio"
          PROVE  \E q \in 1..r-1 : m'[q] = "initialized" /\ of'[q] = of'[r]
      <4>1. PICK q \in 1..issued : m[q] = "initialized" /\ of[q] = conn
        BY <3>3, <3>5 DEF Handshake, Believes
      <4>2. q \in 1..r-1 /\ q \in Reqs /\ q # r
        BY <1>2, OfSession
      <4> QED BY <1>7, <1>8, <4>1, <4>2
    <3> QED BY <1>1, <1>7, <3>1, <3>2, <3>4, <3>5 DEF Stands
  <2>4. \A q \in 1..r : q \in 1..issued \/ q = r
    BY <1>2
  <2> QED BY <1>2, <2>1, <2>2, <2>3, <2>4 DEF Handshake
<1> QED BY <1>9, <1>10, <1>11, <1>12, <1>13, <1>14

(* A client is connected; over a stream it has its session at once.          *)
LEMMA StartStep ==
  ASSUME WireInv, Start PROVE WireInv'
<1> USE DEF WireInv
<1> PICK x : x = conn + 1
  OBVIOUS
<1>1. UNCHANGED <<kind, issued, m, of, asked, cl, sv, ses, ans, lost, serving, idle, out>>
  BY DEF Start, reqIds
<1>2. x = conn + 1 /\ conn' = x /\ x \in Sids /\ conn \in Nat /\ hs' = "initialize" /\ link' = "open"
  BY WireBounds DEF Start, ClientTypes
<1>3. /\ inbox' = <<>> /\ push' = "off"
      /\ \/ kind = "http" /\ sid' = NoSid /\ UNCHANGED <<table, state, get>>
         \/ /\ kind # "http" /\ sid' = x /\ table' = table \cup {x}
            /\ state' = [state EXCEPT ![x] = "new"] /\ get' = get \cup {x}
  BY <1>2 DEF Start, Fresh
<1>4. state[x] = "none"
  BY <1>2 DEF Shape
<1>5. ClientTypes' /\ RequestTypes' /\ ServerTypes'
  <2>1. <<>> \in Seq(Items)
    OBVIOUS
  <2>2. ClientTypes'
    BY <1>1, <1>2, <1>3, <2>1, WireBounds DEF ClientTypes
  <2> QED BY <1>1, <1>2, <1>3, <2>2 DEF RequestTypes, ServerTypes
<1>6. Further
  BY <1>2, <1>3, <1>4, <1>5 DEF Further, ServerTypes, Negotiated, Ready
<1>7. Numbers'
  <2>1. ASSUME NEW q \in Reqs PROVE Numbered(q)'
    BY <1>1, <1>2 DEF Numbers, Numbered
  <2> QED BY <2>1 DEF Numbers
<1>8. Shape'
  <2>1. \A y \in 1..x : y \in 1..conn \/ y = x
    BY <1>2
  <2>2. \A y \in Sids : y > x => y > conn /\ y # x
    BY <1>2, WireBounds
  <2>3. \A y \in Sids : y # x => state'[y] = state[y]
    BY <1>2, <1>3 DEF ServerTypes
  <2>4. kind = "stdio" => \A y \in 1..x : y \in table' \/ state'[y] = "closed"
    BY <1>2, <1>3, <2>1, <2>3, WireBounds DEF Shape
  <2>5. table' \subseteq 1..x /\ idle' \subseteq table'
    <3>1. table \subseteq 1..conn /\ idle \subseteq table
      BY DEF Shape
    <3>2. table \subseteq table' /\ table' \subseteq table \cup {x}
      BY <1>3
    <3>3. 1..conn \subseteq 1..x /\ x \in 1..x
      BY <1>2
    <3> QED BY <1>1, <3>1, <3>2, <3>3
  <2>6. \A y \in Sids : y > x => state'[y] = "none"
    BY <2>2, <2>3 DEF Shape
  <2> QED BY <1>1, <1>2, <1>3, <2>4, <2>5, <2>6 DEF Shape
<1>9. OneInitialize'
  <2>1. \A q \in Reqs : of[q] # x
    <3>1. \A q \in Reqs : of[q] = 0 \/ of[q] \in 1..conn
      BY WireBounds DEF Numbers, Numbered, RequestTypes
    <3> QED BY <1>2, <3>1
  <2> QED BY <1>1, <1>2, <1>3, <2>1 DEF OneInitialize, Initializes
<1>10. Handshake'
  <2>1. Believes'
    BY <1>2 DEF Believes
  <2>2. \A q \in 1..issued : Stands(q)'
    BY <1>1, <1>6, StandsKept, OfSession DEF Handshake, Moves, reqIds
  <2> QED BY <1>1, <2>1, <2>2 DEF Handshake
<1>11. SessionsSound'
  <2>1. HandshakeOrdered'
    <3>1. \A q \in Reqs : ans[q] = "not_initialized" => ses[q] \in Sids
      BY OfSession, WireBounds DEF Numbers, Numbered, RequestTypes
    <3> QED BY <1>1, <1>6, <3>1 DEF SessionsSound, HandshakeOrdered, Further
  <2>2. SessionsInStep'
    <3>1. SessionsInStep /\ table \subseteq Sids
      BY DEF SessionsSound, ServerTypes
    <3>2. CASE kind = "http"
      BY <1>1, <1>3, <3>1, <3>2 DEF SessionsInStep, Open
    <3>3. CASE kind # "http"
      <4>1. Open(x)' /\ \A y \in Sids : y # x => (Open(y)' <=> Open(y))
        BY <1>2, <1>3, <3>3 DEF ServerTypes, Open
      <4>2. table' = table \cup {x} /\ get' = get \cup {x} /\ kind' = kind
        BY <1>1, <1>3, <3>3
      <4> QED BY <1>2, <3>1, <3>3, <4>1, <4>2 DEF SessionsInStep
    <3> QED BY <3>2, <3>3
  <2> QED BY <2>1, <2>2 DEF SessionsSound
<1> QED BY <1>5, <1>7, <1>8, <1>9, <1>10, <1>11

(* The routing of a request: it is refused, ...                              *)
Routed(r) == /\ r \in Reqs /\ sv[r] = "arrive"
             /\ UNCHANGED <<kind, conn, link, sid, hs, push, inbox, issued, m, of, asked, cl,
                            lost, serving, out, get>>
LEMMA RefuseStep ==
  ASSUME WireInv, NEW r, Routed(r), NEW status \in {"400", "404", "503"}, Refuse(r, status),
         kind = "stdio" => state[of[r]] = "closed"
  PROVE  WireInv'
<1> USE DEF WireInv
<1>1. UNCHANGED <<kind, conn, link, sid, hs, push, inbox, issued, m, of, asked, cl, lost,
                  serving, out, get, ses, table, state, idle>>
  BY DEF Routed, Refuse
<1>2. r \in Reqs /\ sv[r] = "arrive" /\ sv' = [sv EXCEPT ![r] = "respond"]
      /\ ans' = [ans EXCEPT ![r] = status]
  BY DEF Routed, Refuse, Answer, Sv
<1>3. sv'[r] = "respond" /\ ans'[r] = status
      /\ \A q \in Reqs \ {r} : sv'[q] = sv[q] /\ ans'[q] = ans[q]
  BY <1>2 DEF RequestTypes
<1>4. r \in 1..issued /\ ses[r] = NoSid
  <2>1. Numbered(r) /\ issued \in Nat /\ r \in Nat /\ r >= 1
    BY <1>2, WireBounds DEF Numbers, RequestTypes
  <2> QED BY <1>2, <2>1 DEF Numbered
<1>5. ClientTypes' /\ RequestTypes' /\ ServerTypes'
  BY <1>1, <1>2 DEF ClientTypes, RequestTypes, ServerTypes, Refusals
<1>6. Numbers'
  <2>1. \A q \in Reqs \ {r} : Numbered(q)'
    BY <1>1, <1>3 DEF Numbers, Numbered
  <2>2. Numbered(r)'
    BY <1>1, <1>2, <1>3, <1>4 DEF Numbers, Numbered
  <2> QED BY <2>1, <2>2 DEF Numbers
<1>7. Shape' /\ OneInitialize' /\ SessionsSound' /\ Further
  BY <1>1, <1>3, ShapeKept, InitializeKept, SoundKept, StateKept DEF reqIds
<1>8. Handshake'
  <2>1. Believes'
    BY <1>1, <1>7, BelievesKept DEF Handshake, reqIds
  <2>2. \A q \in 1..issued : q # r => Stands(q)'
    BY <1>1, <1>3, <1>7, StandsKept, OfSession DEF Handshake, reqIds, Moves
  <2>3. Stands(r)'
    BY <1>1, <1>3, <1>4 DEF Handshake, Stands, Negotiated, Ready, Initializes
  <2> QED BY <1>1, <2>1, <2>2, <2>3 DEF Handshake
<1> QED BY <1>5, <1>6, <1>7, <1>8

(* ... or finds the session whose id it carries.  Over stdio the lines       *)
(* before it are over by then.                                               *)
LEMMA FoundStep ==
  ASSUME WireInv, NEW r, Routed(r), serving, asked[r] \in table, idle' \subseteq idle,
         UNCHANGED <<ans, table, state>>,
         kind = "stdio" => \A q \in Earlier(r) : sv[q] = "over",
         ses' = [ses EXCEPT ![r] = asked[r]], Sv(r, "handle")
  PROVE  WireInv'
<1> USE DEF WireInv
<1> PICK x : x = of[r]
  OBVIOUS
<1>1. UNCHANGED <<kind, conn, link, sid, hs, push, inbox, issued, m, of, asked, cl, lost,
                  serving, out, get, ans, table, state>>
  BY DEF Routed
<1>2. r \in Reqs /\ sv[r] = "arrive" /\ sv' = [sv EXCEPT ![r] = "handle"] /\ ses[r] = NoSid
      /\ x = of[r]
  BY DEF Routed, Sv, Numbers, Numbered
<1>3. asked[r] = x
  BY <1>2, WireBounds DEF Numbers, Numbered, ServerTypes, NoSid
<1>4. sv'[r] = "handle" /\ ses'[r] = x
      /\ \A q \in Reqs \ {r} : sv'[q] = sv[q] /\ ses'[q] = ses[q]
  BY <1>2, <1>3 DEF RequestTypes
<1>5. r \in 1..issued
  <2>1. Numbered(r) /\ issued \in Nat /\ r \in Nat /\ r >= 1
    BY <1>2, WireBounds DEF Numbers, RequestTypes
  <2> QED BY <1>2, <2>1 DEF Numbered
<1>6. ClientTypes' /\ RequestTypes' /\ ServerTypes' /\ Further
  <2>1. ses' \in [Reqs -> 0..MaxConns]
    BY <1>2, <1>3 DEF RequestTypes
  <2> QED BY <1>1, <1>2, <2>1, StateKept DEF ClientTypes, RequestTypes, ServerTypes
<1>7. Numbers'
  <2>1. \A q \in Reqs \ {r} : Numbered(q)'
    BY <1>1, <1>4 DEF Numbers, Numbered
  <2>2. Numbered(r)'
    BY <1>1, <1>2, <1>4 DEF Numbers, Numbered
  <2> QED BY <2>1, <2>2 DEF Numbers
<1>8. Shape'
  BY <1>1 DEF Shape
<1>9. OneInitialize'
  <2>1. ASSUME NEW y \in Sids, NEW q \in Reqs, ses[q] = y PROVE ses'[q] = y
    BY <1>2, <1>4, <2>1, WireBounds DEF NoSid
  <2> QED BY <1>1, <2>1 DEF OneInitialize, Initializes
<1>10. Handshake'
  <2>1. Believes'
    BY <1>1, <1>6, BelievesKept DEF Handshake, reqIds
  <2>2. \A q \in 1..issued : q # r => Stands(q)'
    BY <1>1, <1>4, <1>6, StandsKept, OfSession DEF Handshake, reqIds, Moves
  <2>3. Stands(r)'
    <3>1. Stands(r)
      BY <1>5 DEF Handshake
    <3>2. ASSUME m[r] = "call", kind = "stdio" PROVE Ready(x)
      <4>1. PICK q \in 1..r-1 : m[q] = "initialized" /\ of[q] = x
        BY <1>2, <3>1, <3>2 DEF Stands
      <4>2. q \in 1..issued /\ q \in Reqs /\ q < r
        BY <1>2, <1>5, WireBounds DEF RequestTypes
      <4>3. sv[q] = "over"
        BY <1>2, <3>2, <4>1, <4>2 DEF Earlier
      <4>4. Stands(q)
        BY <4>2 DEF Handshake
      <4> QED BY <3>2, <4>1, <4>3, <4>4 DEF Stands
    <3>3. m[r] = "call" => Ready(x)'
      BY <1>1, <1>2, <3>1, <3>2 DEF Stands, Ready
    <3> QED BY <1>1, <1>2, <1>4, <3>1, <3>3 DEF Stands, Negotiated, Ready, Initializes
  <2> QED BY <1>1, <2>1, <2>2, <2>3 DEF Handshake
<1>11. SessionsSound'
  <2>1. ans[r] # "not_initialized"
    BY <1>2 DEF Numbers, Numbered
  <2> QED BY <1>1, <1>4, <2>1 DEF SessionsSound, SessionsInStep, HandshakeOrdered, Open
<1> QED BY <1>6, <1>7, <1>8, <1>9, <1>10, <1>11

LEMMA RouteStreamStep ==
  ASSUME WireInv, NEW r \in Reqs, RouteStream(r) PROVE WireInv'
<1>1. Routed(r) /\ kind # "http" /\ serving
  BY DEF RouteStream, Routed, clientEnd, reqIds
<1>2. CASE asked[r] \notin table /\ Refuse(r, "404")
  <2>1. of[r] \in 1..conn /\ asked[r] = of[r]
    <3>1. Numbered(r) /\ issued \in Nat /\ r \in Nat /\ r >= 1
      BY WireBounds DEF WireInv, Numbers, RequestTypes
    <3> QED BY <1>1, <3>1 DEF Numbered, Routed
  <2>2. kind = "stdio" => state[of[r]] = "closed"
    BY <1>1, <1>2, <2>1 DEF WireInv, Shape
  <2> QED BY <1>1, <1>2, <2>2, RefuseStep
<1>3. CASE asked[r] \in table /\ ses' = [ses EXCEPT ![r] = asked[r]] /\ Sv(r, "handle")
           /\ UNCHANGED <<ans, table, state, idle>>
  BY <1>1, <1>3, FoundStep DEF RouteStream
<1> QED BY <1>2, <1>3 DEF RouteStream

(* initialize over http: the session of the client is made.                  *)
LEMMA RouteHTTPStep ==
  ASSUME WireInv, NEW r \in Reqs, RouteHTTP(r) PROVE WireInv'
<1>1. Routed(r) /\ kind = "http" /\ serving
  BY DEF RouteHTTP, Routed, clientEnd, reqIds
<1>2. CASE \E status \in {"400", "404", "503"} : Refuse(r, status)
  BY <1>1, <1>2, RefuseStep
<1>3. CASE asked[r] \in table /\ ses' = [ses EXCEPT ![r] = asked[r]] /\ Sv(r, "handle")
           /\ UNCHANGED <<ans, table, state>> /\ idle' = idle \ {asked[r]}
  BY <1>1, <1>3, FoundStep
<1>4. CASE /\ m[r] = "initialize" /\ ~Full
           /\ ses' = [ses EXCEPT ![r] = Fresh(of[r])] /\ table' = table \cup {Fresh(of[r])}
           /\ state' = [state EXCEPT ![Fresh(of[r])] = "new"] /\ Sv(r, "handle")
           /\ UNCHANGED <<ans, idle>>
  <2> USE DEF WireInv
  <2> PICK x : x = of[r]
    OBVIOUS
  <2>1. UNCHANGED <<kind, conn, link, sid, hs, push, inbox, issued, m, of, asked, cl, lost,
                    serving, out, get, ans, idle>>
    BY <1>1, <1>4 DEF Routed
  <2>2. sv[r] = "arrive" /\ sv' = [sv EXCEPT ![r] = "handle"] /\ m[r] = "initialize"
        /\ ses[r] = NoSid /\ x = of[r] /\ ans[r] = "none"
    BY <1>1, <1>4 DEF Routed, Sv, Numbers, Numbered
  <2>3. r \in 1..issued
    <3>1. Numbered(r) /\ issued \in Nat /\ r \in Nat /\ r >= 1
      BY WireBounds DEF Numbers, RequestTypes
    <3> QED BY <2>2, <3>1 DEF Numbered
  <2>4. x \in 1..conn /\ x \in Sids /\ conn \in Nat
    BY <2>2, <2>3, OfSession, WireBounds DEF ClientTypes
  <2>5. ses' = [ses EXCEPT ![r] = x] /\ table' = table \cup {x}
        /\ state' = [state EXCEPT ![x] = "new"]
    BY <1>4, <2>2 DEF Fresh
  <2>6. sv'[r] = "handle" /\ ses'[r] = x
        /\ \A q \in Reqs \ {r} : sv'[q] = sv[q] /\ ses'[q] = ses[q]
    BY <2>2, <2>5 DEF RequestTypes
  <2>7. state'[x] = "new" /\ \A y \in Sids \ {x} : state'[y] = state[y]
    BY <2>4, <2>5 DEF ServerTypes
  <2>8. state[x] = "none"                          \* its only initialize is r
    <3>1. ASSUME state[x] # "none" PROVE FALSE
      <4>1. PICK q \in Reqs : Initializes(q) /\ ses[q] = x
        BY <1>1, <2>4, <3>1 DEF OneInitialize
      <4>2. of[q] = x
        BY <2>4, <4>1 DEF Numbers, Numbered, NoSid
      <4>3. q = r
        BY <2>2, <4>1, <4>2 DEF OneInitialize, Initializes
      <4> QED BY <2>2, <2>4, <4>1, <4>3 DEF NoSid
    <3> QED BY <3>1
  <2>9. ClientTypes' /\ RequestTypes' /\ ServerTypes'
    <3>1. ses' \in [Reqs -> 0..MaxConns]
      BY <2>4, <2>5, WireBounds DEF RequestTypes
    <3> QED BY <2>1, <2>2, <2>4, <2>5, <3>1 DEF ClientTypes, RequestTypes, ServerTypes
  <2>10. Further
    BY <2>7, <2>8, <2>9 DEF Further, ServerTypes, Negotiated, Ready
  <2>11. Numbers'
    <3>1. \A q \in Reqs \ {r} : Numbered(q)'
      BY <2>1, <2>6 DEF Numbers, Numbered
    <3>2. Numbered(r)'
      BY <2>1, <2>2, <2>6 DEF Numbers, Numbered
    <3> QED BY <3>1, <3>2 DEF Numbers
  <2>12. Shape'
    <3>1. \A y \in Sids : y > conn => y # x
      BY <2>4
    <3>2. \A y \in Sids : y > conn => state'[y] = "none"
      BY <2>7, <3>1 DEF Shape
    <3>3. idle \subseteq table' /\ table' \subseteq 1..conn
      BY <2>4, <2>5 DEF Shape
    <3> QED BY <1>1, <2>1, <3>2, <3>3 DEF Shape
  <2>13. OneInitialize'
    <3>1. ASSUME NEW y \in Sids, state'[y] # "none"
          PROVE  \E q \in Reqs : Initializes(q) /\ ses'[q] = y
      <4>1. CASE y = x
        BY <2>2, <2>6, <4>1 DEF Initializes
      <4>2. CASE y # x
        <5>1. PICK q \in Reqs : Initializes(q) /\ ses[q] = y
          BY <1>1, <2>7, <3>1, <4>2 DEF OneInitialize
        <5>2. q # r
          BY <2>2, <5>1, WireBounds DEF NoSid
        <5> QED BY <2>6, <5>1, <5>2
      <4> QED BY <4>1, <4>2
    <3> QED BY <2>1, <3>1 DEF OneInitialize, Initializes
  <2>14. Handshake'
    <3>1. Believes'
      BY <2>1, <2>10, BelievesKept DEF Handshake, reqIds
    <3>2. \A q \in 1..issued : q # r => Stands(q)'
      BY <2>1, <2>6, <2>10, StandsKept, OfSession DEF Handshake, reqIds, Moves
    <3>3. Stands(r)'
      BY <2>1, <2>2 DEF Stands, Initializes
    <3> QED BY <2>1, <3>1, <3>2, <3>3 DEF Handshake
  <2>15. HandshakeOrdered'
    <3>1. \A q \in Reqs : ans[q] = "not_initialized" => ses[q] \in Sids
      BY OfSession, WireBounds DEF Numbers, Numbered, RequestTypes
    <3>2. ans[r] # "not_initialized"
      BY <2>2
    <3> QED BY <3>2, <2>1, <2>6, <2>10, <3>1 DEF SessionsSound, HandshakeOrdered, Further
  <2>16. SessionsInStep'
    <3>1. \A y \in Sids : y \in table' <=> Open(y)'
      BY <1>1, <2>5, <2>7 DEF SessionsSound, SessionsInStep, Open
    <3>2. Cardinality(table') <= MaxSessions
      <4>1. IsFiniteSet(table)
        <5>1. table \subseteq 1..conn
          BY DEF Shape
        <5>2. IsFiniteSet(1..conn)
          BY <2>4, FS_Interval
        <5> QED BY <5>1, <5>2, FS_Subset
      <4>2. x \notin table
        BY <1>1, <2>4, <2>8 DEF SessionsSound, SessionsInStep, Open
      <4>3. Cardinality(table') = Cardinality(table) + 1
        BY <2>5, <4>1, <4>2, FS_AddElement
      <4>4. Cardinality(table) \in Nat
        BY <4>1, FS_CardinalityType
      <4> QED BY <1>4, <4>3, <4>4, WireBounds DEF Full
    <3>3. kind' = "http" /\ table' \subseteq Sids
      BY <1>1, <2>1, <2>5, <2>4 DEF ServerTypes
    <3> QED BY <3>1, <3>2, <3>3 DEF SessionsInStep
  <2> QED BY <2>9, <2>11, <2>12, <2>13, <2>14, <2>15, <2>16 DEF SessionsSound
<1> QED BY <1>2, <1>3, <1>4 DEF RouteHTTP

LEMMA WireInitInv == WireInit => WireInv
<1> SUFFICES ASSUME WireInit PROVE WireInv
  OBVIOUS
<1> USE WireAssumption, WireBounds DEF WireInit
<1>1. ClientTypes /\ RequestTypes /\ ServerTypes
  <2>1. <<>> \in Seq(Items) /\ <<>> \in Seq(Reqs)
    OBVIOUS
  <2> QED BY <2>1 DEF ClientTypes, RequestTypes, ServerTypes, NoSid, Methods
<1>2. Numbers /\ Shape /\ OneInitialize
  BY DEF Numbers, Numbered, Shape, OneInitialize, Initializes, NoSid
<1>3. Handshake
  BY DEF Handshake, Believes
<1>4. SessionsSound
  <2>1. Cardinality({}) = 0
    BY FS_EmptySet
  <2> QED BY <2>1 DEF SessionsSound, SessionsInStep, HandshakeOrdered, Open
<1> QED BY <1>1, <1>2, <1>3, <1>4 DEF WireInv

LEMMA WireNextInv == WireInv /\ [WireNext]_wireVars => WireInv'
<1>1. ASSUME WireInv, UNCHANGED wireVars PROVE WireInv'
  <2>1. ClientTypes' /\ RequestTypes' /\ out' \in [Sids -> Seq(Reqs)]
    BY <1>1 DEF WireInv, ClientTypes, RequestTypes, ServerTypes, wireVars
  <2> QED BY <1>1, <2>1, ClientSide DEF wireVars, Moves, Believed, StillAsked, reqIds
<1>2. ASSUME WireInv, NEW r \in Reqs, GiveUp(r) \/ Deliver(r) \/ ServerStep(r) PROVE WireInv'
  BY <1>2, GiveUpStep, DeliverStep, RouteHTTPStep, RouteStreamStep, HandleStep, ExecuteStep,
     BackHTTPStep, BackSSEStep, BackStdioStep, NoServerStep DEF ServerStep
<1>3. ASSUME WireInv, NEW x \in Sids, WriteEvent(x) \/ FallIdle(x) \/ GetEnds(x) PROVE WireInv'
  BY <1>3, WriteEventStep, FallIdleStep, GetEndsStep
<1> QED BY <1>1, <1>2, <1>3, StartStep, SendStep, RecvStep, LinkStep, DeleteStep, SweepStep,
           ServeEndsStep DEF WireNext, CloseStep

(* Whatever breaks, falls idle or is given up, over each of the transports   *)
(* and for any number of clients, requests and sessions: the session table   *)
(* and the automata agree and the table keeps its limit, and a call is told  *)
(* "Server not initialized" only by a session that is gone (createSession,   *)
(* deleteSession, sweepLoop and Serve of the servers; Initialize and Send of *)
(* the client).                                                              *)
THEOREM SessionsStaySound == WireSpec => []SessionsSound
<1>1. WireInv => SessionsSound
  BY DEF WireInv
<1> QED BY <1>1, WireInitInv, WireNextInv, PTL DEF WireSpec
=============================================================================
