------------------------------- MODULE Plugin -------------------------------
(* The plugin manager of internal/plugin: dependency order, StartAll, one    *)
(* monitor per ready plugin with its bounded restarts, the proxies that tools*)
(* call through, and StopAll with its teardown.  StartAll, each monitor, each*)
(* caller and the teardown are goroutines; lifecycleMu makes the steps at the*)
(* stop gate atomic, and everything that takes time (Loader.Start, Terminate,*)
(* the RPCs) runs outside it.  A plugin process may die between any two      *)
(* steps.  A client is known by the number of the process it was made for.   *)
EXTENDS Integers, Sequences, FiniteSets, FiniteSetsExt, SequencesExt

CONSTANTS PluginCount,  \* plugins; their numbers are the order of their ids
          MaxAttempts,  \* restart.max_attempts
          Callers,      \* tool calls in flight at a time
          MaxProcs      \* bound: processes started per plugin

ASSUME PluginAssumption == {PluginCount, MaxAttempts, MaxProcs} \subseteq Nat

Plugins == 1..PluginCount
None == 0

VARIABLES
  needs,     \* needs[p][q]: how p depends on q
  missing,   \* plugins with a required dependency that is not installed
  enabled,   \* effectiveEnabled
  config,    \* plugins.auto_start and restart.enabled
  state,     \* Entry.State
  blamed,    \* plugins StartAll has failed for a dependency that was not ready
  client,    \* Entry.Client
  handle,    \* ProxyHandle.client
  proxies,   \* plugins whose proxies are registered with the tool manager
  since,     \* Entry.StartedAt
  clock,
  alive,     \* the process runs
  procs,     \* processes started
  starter,   \* StartAll: where it is
  queue,     \* the plugins it still has to start
  mon, tries,\* monitors: where, and attempts made since the exit
  call,      \* call[c]: the plugin and client a caller is with, or is killing
  stopping,
  down,      \* teardown: "off", "wait", "work", "done"
  left       \* plugins it has still to stop

pluginVars == <<needs, missing, enabled, config, state, blamed, client, handle, proxies, since,
                clock, alive, procs, starter, queue, mon, tries, call, stopping, down, left>>
graph == <<needs, missing, enabled, config>>
entry == <<state, client, handle, proxies, since, clock>>
process == <<alive, procs>>
boot == <<starter, queue, blamed>>
watch == <<mon, tries>>
ending == <<stopping, down, left>>

Dependencies == {"none", "required", "optional", "misfit"}
Free == [at |-> "free", p |-> 1, n |-> None]

PluginInit ==
  /\ needs \in {d \in [Plugins -> [Plugins -> Dependencies]] : \A p \in Plugins : d[p][p] = "none"}
  /\ missing \in SUBSET Plugins
  /\ enabled \in {e \in SUBSET Plugins : Cardinality(e) >= PluginCount - 1}
  /\ config \in [auto : BOOLEAN, restart : BOOLEAN]
  /\ state = [p \in Plugins |-> "discovered"] /\ blamed = {}
  /\ client = [p \in Plugins |-> None] /\ handle = [p \in Plugins |-> None]
  /\ proxies = {} /\ since = [p \in Plugins |-> 0] /\ clock = 0
  /\ alive = [p \in Plugins |-> FALSE] /\ procs = [p \in Plugins |-> 0]
  /\ starter = "off" /\ queue = <<>>
  /\ mon = [p \in Plugins |-> "off"] /\ tries = [p \in Plugins |-> 0]
  /\ call = [c \in Callers |-> Free]
  /\ stopping = FALSE /\ down = "off" /\ left = {}

(* ---- resolveDependencies ------------------------------------------------ *)
(* An edge of the graph is a dependency, optional or not, that is installed  *)
(* and whose version fits; one that does not fit is only reported.           *)
Edges(p) == {q \in Plugins : needs[p][q] \in {"required", "optional"}}
Smallest(c) == Min(c)
(* Kahn's algorithm, the smallest id first; what is left over is a circle.   *)
ByName == [n \in 1..PluginCount |-> n]                                          \* mutant
Candidates(s) == {p \in Plugins \ ToSet(s) : Edges(p) \subseteq ToSet(s)}
Grown(s) == IF Candidates(s) = {} THEN s ELSE Append(s, Smallest(Candidates(s)))
KahnOrder[n \in Nat] == IF n = 0 THEN <<>> ELSE Grown(KahnOrder[n - 1])
Order == KahnOrder[PluginCount]
Resolve ==
  /\ starter = "off" /\ ~stopping
  /\ LET bad == missing \cup (Plugins \ ToSet(Order)) IN
       IF config.auto
         THEN /\ state' = [p \in Plugins |-> IF p \in bad THEN "error" ELSE state[p]]
              /\ queue' = Order /\ starter' = "next"
         ELSE /\ state' = [p \in Plugins |-> IF p \in bad THEN "error" ELSE "stopped"]
              /\ starter' = "done" /\ UNCHANGED queue
  /\ UNCHANGED <<graph, blamed, client, handle, proxies, since, clock, process, watch, call, ending>>

(* ---- StartAll ----------------------------------------------------------- *)
P == Head(queue)
Becomes(p, s) == state' = [state EXCEPT ![p] = s]
Skip == queue' = Tail(queue) /\ starter' = "next"
DepsReady(p) == \A q \in Plugins : needs[p][q] \in {"required", "misfit"} => state[q] = "ready"

Take ==          \* not discovered any more, or disabled, or without its dependencies
  /\ starter = "next" /\ queue # <<>>
  /\ \/ state[P] # "discovered" /\ Skip /\ UNCHANGED <<state, blamed>>
     \/ state[P] = "discovered" /\ P \notin enabled /\ Becomes(P, "stopped") /\ Skip /\ UNCHANGED blamed
     \/ /\ state[P] = "discovered" /\ P \in enabled /\ ~DepsReady(P)
        /\ Becomes(P, "error") /\ blamed' = blamed \cup {P} /\ Skip
     \/ /\ state[P] = "discovered" /\ P \in enabled /\ DepsReady(P)
        /\ Becomes(P, "starting") /\ starter' = "start" /\ UNCHANGED <<queue, blamed>>
  /\ UNCHANGED <<graph, client, handle, proxies, since, clock, process, watch, call, ending>>
Spawned(p) == alive' = [alive EXCEPT ![p] = TRUE] /\ procs' = [procs EXCEPT ![p] = @ + 1]
Dead(p) == alive' = [alive EXCEPT ![p] = FALSE]

(* Loader.Start: a process, then Dial, Handshake, Init, Ready and the match  *)
(* of its capabilities; any failure terminates it.  Descriptor or config may *)
(* be refused before there is one.                                           *)
Launch ==
  /\ starter = "start" /\ procs[P] < MaxProcs /\ Spawned(P) /\ starter' = "handshake"
  /\ UNCHANGED <<graph, entry, queue, blamed, watch, call, ending>>
StartFails ==
  /\ starter \in {"start", "handshake"} /\ Dead(P) /\ Becomes(P, "error") /\ Skip
  /\ UNCHANGED <<graph, blamed, client, handle, proxies, since, clock, procs, watch, call, ending>>
StartOk ==       \* registerProxies, all of them or none
  /\ starter = "handshake"
  /\ \/ proxies' = proxies \cup {P} /\ starter' = "publish" /\ UNCHANGED <<state, alive, queue>>
     \/ Becomes(P, "error") /\ Dead(P) /\ Skip /\ UNCHANGED proxies
  /\ UNCHANGED <<graph, blamed, client, handle, since, clock, procs, watch, call, ending>>

(* Under the stop gate: entry, state, handle and monitor appear together.    *)
GateOpen == FALSE                                                     \* mutant
GateShut == stopping
Serve(p) ==
  /\ client' = [client EXCEPT ![p] = procs[p]] /\ handle' = [handle EXCEPT ![p] = procs[p]]
  /\ Becomes(p, "ready") /\ clock' = clock + 1 /\ since' = [since EXCEPT ![p] = clock + 1]
PublishEntry ==
  /\ starter = "publish"
  /\ \/ /\ ~GateShut /\ Serve(P) /\ Skip /\ mon' = [mon EXCEPT ![P] = "watch"]
        /\ UNCHANGED <<alive, proxies>>
     \/ /\ GateShut /\ proxies' = proxies \ {P} /\ Dead(P) /\ starter' = "done"
        /\ UNCHANGED <<client, handle, state, clock, since, queue, mon>>
  /\ UNCHANGED <<graph, blamed, procs, tries, call, ending>>
StartEnds ==
  /\ starter = "next" /\ queue = <<>> /\ starter' = "done"
  /\ UNCHANGED <<graph, entry, process, queue, blamed, watch, call, ending>>

(* ---- monitor ------------------------------------------------------------ *)
Mon(p, l) == mon' = [mon EXCEPT ![p] = l]
(* select: the process has gone, or runCtx is done.                          *)
MonStops(p) ==
  /\ mon[p] = "watch" /\ stopping /\ Mon(p, "off")
  /\ UNCHANGED <<graph, entry, process, boot, tries, call, ending>>
Invalidate(p, n) == handle' = [handle EXCEPT ![p] = IF @ = n THEN None ELSE @]
MonExit(p) ==
  /\ mon[p] = "watch" /\ ~alive[p] /\ ~stopping
  /\ Invalidate(p, client[p]) /\ client' = [client EXCEPT ![p] = None]
  /\ tries' = [tries EXCEPT ![p] = 0]
  /\ IF config.restart THEN Mon(p, "retry") /\ UNCHANGED state
                ELSE Mon(p, "off") /\ Becomes(p, "error")
  /\ UNCHANGED <<graph, proxies, since, clock, process, boot, call, ending>>
(* retryRestart: attempts with a backoff in between; the gate is looked at   *)
(* before each, and the backoff and Loader.Start end with runCtx.            *)
Spent(p) == tries[p] = MaxAttempts                                    \* mutant
Over(p) == stopping \/ tries[p] = MaxAttempts
GiveUp(p) ==
  /\ mon[p] = "retry" /\ Over(p)
  /\ Mon(p, "off") /\ Becomes(p, "error")
  /\ UNCHANGED <<graph, client, handle, proxies, since, clock, process, boot, tries, call, ending>>
Relaunch(p) ==
  /\ mon[p] = "retry" /\ ~stopping /\ tries[p] < MaxAttempts
  /\ tries' = [tries EXCEPT ![p] = @ + 1]
  /\ \/ procs[p] < MaxProcs /\ Spawned(p) /\ Mon(p, "restart")
     \/ UNCHANGED <<process, mon>>
  /\ UNCHANGED <<graph, entry, boot, call, ending>>
RestartFails(p) ==
  /\ mon[p] = "restart" /\ Dead(p) /\ Mon(p, "retry")
  /\ UNCHANGED <<graph, entry, procs, boot, tries, call, ending>>
Republish(p) ==
  /\ mon[p] = "restart"
  /\ IF GateShut \/ handle[p] # None
       THEN Dead(p) /\ Mon(p, "off") /\ Becomes(p, "error") /\ UNCHANGED <<client, handle, clock, since>>
       ELSE Serve(p) /\ Mon(p, "watch") /\ UNCHANGED alive
  /\ UNCHANGED <<graph, proxies, procs, boot, tries, call, ending>>

(* ---- PluginToolProxy.Execute -------------------------------------------- *)
Call(c, p) ==
  /\ call[c].at = "free" /\ p \in proxies /\ handle[p] # None
  /\ call' = [call EXCEPT ![c] = [at |-> "invoke", p |-> p, n |-> handle[p]]]
  /\ UNCHANGED <<graph, entry, process, boot, watch, ending>>
Returns(c) ==    \* a result, an error of the tool or of the transport
  /\ call[c].at = "invoke" /\ call' = [call EXCEPT ![c] = Free]
  /\ UNCHANGED <<graph, entry, process, boot, watch, ending>>
(* An answer that breaks the protocol: the client it came from is withdrawn, *)
(* if it is still the one in the handle, and then its process is killed.     *)
Mine(p, n) == handle[p] = n
BadAnswer(c) ==
  /\ call[c].at = "invoke"
  /\ LET p == call[c].p IN
       IF Mine(p, call[c].n)
         THEN handle' = [handle EXCEPT ![p] = None] /\ call' = [call EXCEPT ![c].at = "kill"]
         ELSE UNCHANGED handle /\ call' = [call EXCEPT ![c] = Free]
  /\ UNCHANGED <<graph, state, client, proxies, since, clock, process, boot, watch, ending>>
Kill(c) ==
  /\ call[c].at = "kill" /\ call' = [call EXCEPT ![c] = Free]
  /\ IF procs[call[c].p] = call[c].n THEN Dead(call[c].p) ELSE UNCHANGED alive
  /\ UNCHANGED <<graph, entry, procs, boot, watch, ending>>

Crash(p) ==
  /\ alive[p] /\ Dead(p)
  /\ UNCHANGED <<graph, entry, procs, boot, watch, call, ending>>

(* ---- StopAll ------------------------------------------------------------ *)
(* The gate shuts and every handle is emptied in one section.                *)
StopAll ==
  /\ ~stopping /\ stopping' = TRUE /\ handle' = [p \in Plugins |-> None]
  /\ down' = "wait" /\ left' = Plugins
  /\ starter' = IF starter = "off" THEN "done" ELSE starter
  /\ UNCHANGED <<graph, state, client, proxies, since, clock, process, queue, blamed, watch, call>>
(* teardown: StartAll and the monitors have left ...                         *)
AllLeft == starter = "done" /\ \A p \in Plugins : mon[p] = "off"
Gathered ==
  /\ down = "wait" /\ AllLeft /\ down' = "work"
  /\ UNCHANGED <<graph, entry, process, boot, watch, call, stopping, left>>
(* ... then the plugins go, the one started last first: RPC Stop, or Kill at *)
(* the deadline, and the proxies with it.  An entry without a client is done.*)
Latest == CHOOSE p \in left : \A q \in left : since[q] <= since[p]
Stop ==
  /\ down = "work" /\ left # {}
  /\ LET p == Latest IN
       /\ left' = left \ {p} /\ client' = [client EXCEPT ![p] = None]
       /\ IF client[p] = None
            THEN /\ state' = [state EXCEPT ![p] = IF @ = "error" THEN @ ELSE "stopped"]
                 /\ UNCHANGED <<alive, proxies>>
            ELSE Dead(p) /\ proxies' = proxies \ {p} /\ Becomes(p, "stopped")
  /\ UNCHANGED <<graph, handle, since, clock, procs, boot, watch, call, stopping, down>>
Stopped ==
  /\ down = "work" /\ left = {} /\ down' = "done"
  /\ UNCHANGED <<graph, entry, process, boot, watch, call, stopping, left>>

StartStep == Resolve \/ Take \/ Launch \/ StartFails \/ StartOk \/ PublishEntry \/ StartEnds
MonStep(p) == MonStops(p) \/ MonExit(p) \/ GiveUp(p) \/ Relaunch(p) \/ RestartFails(p) \/ Republish(p)
CallStep(c) == Returns(c) \/ BadAnswer(c) \/ Kill(c)
DownStep == Gathered \/ Stop \/ Stopped
PluginNext ==
  \/ StartStep \/ DownStep \/ StopAll
  \/ \E p \in Plugins : MonStep(p) \/ Crash(p) \/ \E c \in Callers : Call(c, p)
  \/ \E c \in Callers : CallStep(c)
PluginSpec == PluginInit /\ [][PluginNext]_pluginVars
(* The goroutines run, and what they wait for has a deadline of its own:     *)
(* startup_timeout, stop_timeout, the Kill at the end.                       *)
PluginFairSpec ==
  /\ PluginSpec /\ WF_pluginVars(StartStep) /\ WF_pluginVars(DownStep)
  /\ \A p \in Plugins : WF_pluginVars(MonStep(p))
  /\ \A c \in Callers : WF_pluginVars(CallStep(c))

(* ---- properties --------------------------------------------------------- *)
PluginTypeOK ==
  /\ state \in [Plugins -> {"discovered", "starting", "ready", "error", "stopped"}]
  /\ client \in [Plugins -> 0..MaxProcs] /\ handle \in [Plugins -> 0..MaxProcs]
  /\ alive \in [Plugins -> BOOLEAN] /\ procs \in [Plugins -> 0..MaxProcs]
  /\ proxies \subseteq Plugins /\ left \subseteq Plugins /\ stopping \in BOOLEAN

(* The handle that a tool call loads leads to the client of the plugin's     *)
(* entry, and to none once StopAll has shut the gate, whichever start or     *)
(* restart is under way at that moment.  (A caller that has loaded the client*)
(* before keeps it, and may still call it.)                                  *)
NoCallAfterStop ==
  \A p \in Plugins : handle[p] # None => handle[p] = client[p] /\ ~stopping

(* No process is left behind: one that runs is in the hands of StartAll, of a*)
(* restart or of the entry, and when StopAll is done there is none.          *)
NoOrphans ==
  \A p \in Plugins : alive[p] =>
    /\ down # "done"
    /\ \/ starter \in {"handshake", "publish"} /\ P = p
       \/ mon[p] = "restart" \/ client[p] = procs[p]

(* A plugin that is up and watched has a handle to call, unless a caller that*)
(* saw its process break the protocol is about to kill that very process; a  *)
(* late answer of an earlier process takes nothing away from the next one.   *)
ReadyReachable ==
  \A p \in Plugins : mon[p] = "watch" /\ alive[p] /\ ~stopping =>
    handle[p] = client[p] \/ \E c \in Callers : call[c] = [at |-> "kill", p |-> p, n |-> client[p]]

(* StartAll never fails a plugin because it came to a dependency too late:   *)
(* for all graphs, circles and disabled or missing plugins included, the     *)
(* dependency it missed will not come up after it.                           *)
OrderSound ==
  \A p \in blamed : \E q \in Plugins :
    \/ needs[p][q] = "required" /\ state[q] \notin {"discovered", "starting"}
    \/ needs[p][q] = "misfit"

(* StopAll comes to its end.                                                 *)
StopReturns == stopping ~> (down = "done")

(* Processes, entries and handles agree, through starts, deaths, restarts,   *)
(* bad answers and the stop in the middle of them.                           *)
ClientsSound == PluginTypeOK /\ NoCallAfterStop /\ NoOrphans /\ ReadyReachable
=============================================================================
