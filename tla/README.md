# Verification of yaa

Yaa! is an agent runtime written in Go: a daemon that keeps sessions with
language models, runs their tools, and is driven through a remote API.  This
directory holds TLA+ models of it, the TLC configurations that check them and
TLAPS proofs of some of their safety properties.  Paths below are relative to
`src/internal/` unless they begin with `src/`.

1. Inventory of the system
2. The modules and the code
3. The runs: what each asks, its bounds, its fairness
4. What is proved
5. Where code and documents disagree
6. What is only model-checked, and what is not modelled
7. Plan

`PROJECT.json` lists components, runs, hazards, theorems and, for each
definition, the source lines it stands for.

## 1. Inventory

A client's message travels like this: API handler (REST, or a frame of a
WebSocket) -> `agent.Manager.HandleTurn` -> `session.Manager.RunTurn`, which puts
a task into the queue of the session's runner -> the runner calls back the
Agent's turn loop -> context building -> provider call -> tool batch (builtin
tools, proxies of MCP servers, proxies of plugins) -> each result is committed
through `Turn.Append` (storage first, memory second) -> events go through the
session's hub to every subscriber, WebSocket or SSE.

| component | state it keeps | operations | what is hard | what makes it correct |
|---|---|---|---|---|
| Session event hub (`session/hub.go`) | subscribers, their two channels, closed | Subscribe, Publish, Unsubscribe, Close | channels are closed after the lock is released | no double close, no gaps, everyone let go of is told |
| Session runners (`session/manager.go`, `runturn.go`, `turn.go`, `lifecycle.go`) | sessions, runners with FIFO queues, active turns, gauge, closed/closing | RunTurn, Pause, Resume, Close, Create, Delete, CancelTurn, CancelAgentTurns, Shutdown | a dozen critical sections per call; select races; two-phase commit to store and memory | turns are serial, snapshot = memory, no task outlives its call, every call returns |
| Session policy and history (`lifecycle.go`, `messages.go`, `snapshot.go`, `validate.go`) | state, times and messages of a session | cleanup ticks, DeleteMessage, ClearMessages, Restore | late cleanups, crashes between Set and memory, histories that must stay decodable | restorable, units deleted whole, closed is final, limits take effect |
| Planner (`planner/`) | plan graph, ready list, running workers, results | ValidatePlan, Execute, step runner | result order, cancellation against new starts | dependencies first, workers joined, "completed" means all |
| Agent (`agent/`) | per-agent status, one turn's loop state | Start, Pause, Resume, Stop, HandleTurn | failure of a commit after tools have run; tools that come and go | history stays valid, only offered tools run, the turn ends |
| Provider (`provider/`) | one call: deadline, attempts, two goroutines, two channels | Chat, StreamChat | draining, retry after the first chunk, timeouts | one attempt per reply, goroutines collected |
| Context (`context/`) | none | Build: group, truncate, summarise | budget against whole tool chains | fits, complete chains, oldest first |
| Tool manager (`tool/`) | registry, a gate for the process and one per session | Register, Unregister, Execute, ExecuteBatch, ToToolDefs | a projection frozen over a changing registry; two permits taken one after the other, five ways out | only projected names run, permits come back |
| Builtin tools (`tool/builtin/`) | none | file, shell, http, introspection | I/O | - |
| MCP client (`mcp/client.go`) | table of pending requests, two loops, one failure | Connect, Initialize, DiscoverTools, CallTool, fail, Close | the failure swaps the table under callers, late replies and Close | one answer per request, nobody waits on a dead link, Close collects all |
| MCP upstream manager (`mcp/manager.go`, `proxy.go`) | per server: generation, client, handle, status, listChanged | Prepare, Activate, Stop, reconnect, catalog reconcile, proxy calls | generations replaced under callbacks; Stop against a reconnect | one live client, frozen catalog, changes noticed, Stop returns |
| MCP transports and expose server (`mcp/sse*.go`, `streamable_http*.go`, `stdio.go`, `server*.go`) | session table and automata of the server; queues on the way back | Send, Recv, Close, POST, GET, DELETE, sweep | three ways back for one reply, sessions nobody owns | table and automaton agree, accepted is answered, sessions reclaimed |
| Plugins (`plugin/`) | per plugin: state, RPC client, proxies; stop gate | StartAll, StopAll, monitor, restart, tool calls | restart against StopAll; late bad answers | no process after StopAll, live plugins reachable |
| Memory (`memory/`) | items per agent, vector index and its status, two gates | Put with eviction, Promote, Search, Delete, Clear, DeleteExpired, Reindex, Close | store and index are two writes; expiry against eviction | quota holds, a ready index has no holes, gates drain |
| Config (`config/`) | current snapshot | load, validate, migrate, Activate, Reload, watch | concurrent reloads; which fields may change | one order of snapshots, only hot fields change |
| Runtime (`runtime/`) | the parts | Start, rollback, Shutdown | a failure in the middle of Start; a deadline in the middle of Shutdown | whatever was started is stopped, users before what they use |
| API (`api/`) | per connection: turns, subscription | REST, WebSocket, SSE | frames handled concurrently; disconnection | a turn ends with its connection and only once |
| Storage (`storage/`) | key -> blob, in memory or SQLite | Get, Set, Delete, List | failing calls | atomic per key |
| Skill, auth, metrics, logging, cmd, pluginrpc | tables read at start; counters | lookups | - | - |

How they share state: `runtime` builds everything in a fixed order and hands each
part to the API server by setters; `session.Manager.mu` guards all session maps,
and only a session's runner goroutine changes that session's messages; the tool
registry is written by MCP and plugins while the Agent reads it; proxies of MCP
and plugins reach their peer through a shared handle that the owner of the
connection empties and refills; hubs are owned by the session manager and read by
connections.

## 2. The modules and the code

| module | models | one action is |
|---|---|---|
| `SessionHub` | `hub.go` | one critical section of `h.mu`, or one channel close or receive |
| `SessionState` | `state.go`, and the state rule of `cleanupOnce` | operators only: the state table, `CanTransition`, `StateAllowed`, `DesiredState` |
| `SessionRunner` | callers, runners, Shutdown | one critical section of `Manager.mu`, one channel operation, one Storage call |
| `SessionLifecycle` | policy, history editing, crash, Restore | one task of the runner (justified by `SessionRunner`), or a crash inside its commit |
| `PlanExecutor` | `ValidatePlan` rules 6 and 7, `Execute` | one pass of the scheduler loop, one worker's step |
| `ContextWindow` | `context/manager.go`: groupUnits, Build, truncate, summarize | operators only |
| `ProviderCall` | `retrying.go` over an adapter's stream loop | one read, send, receive, or expiry |
| `AgentTurn` | `handle_turn.go`, `planned_turn.go` | one step of the loop between two calls into other parts |
| `ToolExecution` | `tool/manager.go`: ExecuteBatch, Execute | one channel operation on a gate, one attempt, one wait |
| `McpCallTable` | what one connection promises its callers | abstract: open, answer, drop, settle |
| `McpClient` | `mcp/client.go` over a line transport | what lies between two lock operations, channel operations or transport calls |
| `McpUpstream` | `mcp/manager.go`, `proxy.go`, one server | one critical section of `m.mu`, or one blocking call of the owner |
| `McpWire` | a client transport and its server transport, `server.go` | one hop of a request: send, route, handle, execute, back, receive |
| `Memory` | `memory/manager.go` over stores and index | one gate or lock operation, one store call, one embedder call |
| `Plugin` | `plugin/` manager, monitor, proxy, dependency order | one section of `lifecycleMu`, or one loader or RPC call |
| `Daemon` | `runtime/runtime.go`, `api/` server and handlers | one stage of Start or Shutdown, one step of a handler, one step of a turn |

`SessionRunner` and `SessionLifecycle` EXTEND `SessionState`: one transition table
for both.  `AgentTurn` EXTENDS `ContextWindow`, `ProviderCall` and `ToolExecution`; its `Next`
interleaves its own steps with theirs, with CancelTurn and with tools coming and
going.  `McpClient` INSTANCEs `McpCallTable` under a mapping and is checked to implement
it.  `McpUpstream` uses a client only through its number and its life
("starting" to "closed"), which is what `McpClient` shows of one; `Daemon` uses hub,
runner and turn in the same way.  The `MC*` modules only give the constants values.

**SessionHub.** `subs` and `hubClosed` are the map and flag of `Hub`; `queue` and
`seen` a subscriber's buffered channel and what its reader took; `events` and
`done` whether each channel is open; `work`, `cur`, `mode` what a goroutine took
out of the map and still has to close, outside the lock.  `Publish` puts an
overflowing subscriber into `work`, as the code collects `overflow`.

**SessionRunner.** `mem`, `listed`, `hasTurns`, `active`, `gauge`, `closed` are
fields of `Manager`; `store` is the Storage; `queue`, `stop`, `rmode`, `cur`,
`stage` are a runner: the channel, its close, the phase of `run` and where the task
it executes is.  A task is known by its caller, whose fields `op`, `sid`, `turn`
are the closure's variables.  `pc` is the place of a caller in the code: `reserve`
and `register` are the two critical sections of `RunTurn` (57 and 78), `tsend` the
select, `twait` the wait for the task, `tdone` and `tdereg` the deferred calls.
`commit` is two steps, `Storage.Set` (`StoreSet`) and the assignment under the lock
(`Commit`).  A panic (`close` of a closed channel, a write to a nil map) ends
the behaviour.  An id can be used as soon as Create has put the session into the map
(`lifecycle.go:79`), which it does before it writes the first snapshot; `indexed` is `agentIdx`.
Five ghosts name what the code does against a document (section 5), so that a property can except it and nothing
else: `crossed`, a session whose Create wrote or rolled back after others had changed it;
`stranded`, one whose Delete failed in Storage; `miscounted`, the gauge after a Delete or a roll-back
that subtracted the wrong state; `twins`, calls admitted at once under one turn id; `hung`, calls whose
task went to a runner that had exited.  The Agent's callback is AppendUser, at
most one AppendFinal and failure at any point; the loop is `AgentTurn`'s.

**SessionLifecycle.** A session is its state, creation and activity times, policy
and messages; a message has role, turn id and calls.  `ticks` are the cleanup tasks
under way with the `now` they were given; `busy` is a ghost, the instant a client
last used or resumed the session.  `CommitOrDie` is a commit, or a crash before it
or between `Storage.Set` and memory.  `Decodable` is `decodeSnapshot`, `Restore`
and `RestoreFails` are `Manager.Restore`, which also overrides states by the clock
and stops at the first snapshot it cannot read.  A failing `List` leaves everything
as it was.

**PlanExecutor.** A plan is its dependency table over `1..N`, with `Unknown` for a
step that does not exist; every table is an initial state.  `inDeg`, `ready`,
`running`, `result` are the locals of `Execute`, `chan` the result channel.  The
map iteration that releases dependents is any order (`Ordered`).  A worker's result
is a success, an error, an output that cannot be encoded, or a context error, the
caller's or, with `StepDeadlines`, the step's own.

**ContextWindow, ProviderCall, ToolExecution, AgentTurn.** A token is a message: what matters to
the properties is which units go.  Only the strategy "hybrid" is run; where the
summary fails it falls back to truncation, which covers the other.
`ProviderCall` keeps the deadline, both goroutines and both bounded channels; the
relay may take one more chunk after its context is done, because `select` chooses.
In `ToolExecution`, `stage[i]` is where call i of a batch is, from the list of
indices (`Take`, which also looks the tool up and checks its arguments) over the two
gates to the attempts; `sessGate` and `global` count what is in the two channels,
and `Leave` is the deferred receives.  The timeout may fire at any point behind the gates;
`rivals` are permits that calls of other sessions hold.  A turn's session has no
other batch, because its turns are serial (`SessionRunner`).
`AgentTurn` keeps the history, the projection offered, the calls of a reply; `effects` is a ghost, what tools did.  Aliases of long or dotted tool names are a function.

**McpClient and McpCallTable.** `pending`, `nextID`, `closed`, `status` are fields of
`Client`; `ch[i]` is the channel of capacity 1 of request i; `failing` is how far
the one run of `fail()` has come (the others wait in `failOnce.Do`), `orphans` the
calls it took out of the table; `held` is the call `dispatchResponse` has found and
not yet served.  `ret` and `outcome` are what a request is about to return and has
returned.  The mapping to the abstract table: the link is down when `closedErr` is
set; `answered` and `outcome` map to themselves.  The server may answer late, twice, with the
wrong body, with something the protocol refuses, or not at all, and may send
requests of its own until the control queue is full.

**McpUpstream.** `entry` is `serverEntry`, `handle` the `ProxyHandle` all proxies of
the server share; `owner` walks through `connectAndDiscover`, `registerProxies` and
then `runUpstream`; `gen`, `cur`, `chan` are its local variables, which may be older
than `entry`.  `note[g]` is the channel made for generation g, `proc` the clients
whose process or stream is not yet given up.  `Publish` is the section that makes
a client current, at first and after each reconnect.

**McpWire.** A request has a client side `cl` (where its `Send` is), a server side
`sv` (where its handler is), a session and an answer.  `table` and `state` are the
sessions of the server and their automaton, `inbox` what the client's `Recv` will
read: for streamable HTTP the channel its own `Send` fills from the body of the POST,
for SSE the events of the GET stream, for stdio the lines of the child.  `kind`
chooses the transport in `WireInit`.  Session ids are random and never used twice; the id the server makes for
client c is called c (`Fresh`).  `fail()` of the client above is an error that closes the link.

**Memory.** One agent.  `store[r]` is a row (version, deadline, birth, and `life`, a
number for the time its key was made), `entries[r]` what the index holds for it: the content
its ref was made for (`first`, whose version a search compares) and the one its vector is of (`vec`).  An operation is a
record with its place `at`: "gate" and "lock" are the RWMutex and the agent's
mutex, "read" to "commit" `putLocked`, "embed" `putIndex`, "list" to "swap" `Reindex`,
"pick" and "look" `vectorSearch`, "write" the expiry worker.

**Plugin.** `state`, `client`, `since` are the fields of an `Entry`; `handle` and `proxies` are
what tool calls see; `starter` and `queue` are `StartAll`, `mon[p]` and `tries[p]` a
monitor; `stopping` is the gate and `down` the teardown.  Process n of a plugin
stands for the RPC client made for it.  Every graph of dependencies, optional or
required, fitting or not, is an initial state.

**Daemon.** `open` is what really holds resources and `held` which fields of
`Runtime` are set: their difference is what the roll-back, which `step` counts as it does the stages of Start and
Shutdown, cannot see.  `told` counts the frames with a turn's id that end it, or seem to: a "stray" one answers a cancel
for a turn that is not in the table, or a message sent twice.  `sse`, `ws`,
`mine`, `turn` are the handlers, the turns of a connection and every turn's place
from frame to terminal frame; `line` is the runner's queue.  `Shut` is the order
of `Shutdown` with the parts of `sessions.Shutdown` spread out.

Two conventions: a definition marked `mutant` is a plausible slip in the code that
a property must catch (they are what the properties are tested with, no behaviour
uses them), and every CONSTANT with `Max`, `Cap` or `Size` in its name is a bound.
A property that is a conjunction of named parts has its parts defined and explained
just before it; the runs check the conjunction.

## 3. The runs

| run | instance | properties | distinct states |
|---|---|---|---|
| `hub` | 2 goroutines, 2 subscribers, queue of 1, 3 events | ChannelsSafe, NoGaps, EveryoneTold | 24,740 |
| `runner_turns` | 2 callers, 2 turn ids, 1 session, queue of 1, Set may fail; turn, pause, delete | TurnsSerial, EveryCallReturns | 195,846 |
| `runner_manager` | 2 callers, 2 sessions, room for 1, Set and Delete may fail; turn, cancel, close, create, delete, cancelAgent, shutdown | NothingLeftBehind, SessionsWhole, StoreIsMemory, BooksExact, QuietAfterShutdown | 1,413,487 (under symmetry) |
| `session_life` | 1 session, 3 policies, a turn id with and one without `turn_`, 5 messages, clock to 2, one failing call, one crash | HistoriesWhole, StatesByRule, TimeIsEnforced | 58,317 |
| `plan_executor` | every table of 3 steps with up to 2 entries (9,261), 2 workers, own deadlines of steps | DepsSucceeded, AllJoined, PlansHonest, ExecuteReturns | 71,406 |
| `agent_turn` | a history of 3 turns, budget 4, 2 rounds, 5 model answers, 1 retry, direct or planned, streamed or not, failing commits, a tool that comes and goes, one whose unit Session refuses, 2 permits, 1 per session, 1 tool retry, 1 skipped fragment, bodies that end anywhere | HistoryComplete, WindowSound, StreamsSound, ToolsAccounted, TurnEnds | 675,158 |
| `mcp_client` | 2 callers, a table of 2, 2 pages, control queue of 1, 3 messages of the server | NothingLeft, ImplementsCallTable, NobodyWaitsOnDead | 559,273 |
| `mcp_upstream` | 1 caller, 2 catalogs, stdio or SSE, 2 outages with 2 attempts each, 1 change | CallsSound, OneProcess, OwnerListens | 116,018 |
| `mcp_wire` | 3 transports, 2 clients in turn, 1 session at a time, 4 requests, queues of 1 | SessionsSound, AcceptedIsAnswered, SessionsReclaimed | 164,674 |
| `memory` | 2 keys of one agent, quota 1, eviction by deadline, 2 callers and the worker, 3 commits, crashes | IndexHonest, QuotaKept, GatesSound | 2,434,729 |
| `plugin` | every graph of 2 plugins, 1 restart, 2 processes each, 1 caller | ClientsSound, OrderSound, StopReturns | 151,497 |
| `daemon` | an SSE and a WebSocket client, one turn by WebSocket and one by REST, one stray frame, memory on or off | ComponentsSound, TurnsSound, ShutdownReturns | 774,956 |

**What they show.**

- *hub*: closing outside the lock is safe because whoever takes a subscriber out of
  the map becomes its only closer; a slow subscriber is cut off and never skipped.
- *runner_turns*: although the duplicate check of a turn id and its registration are
  separate, and although two calls can be admitted with one id, the history never
  holds a turn twice or interleaved.  Every call returns while another deletes the session and
  stops its runner with tasks in the queue; the two that do not are named (`hung`, `panicked`).
- *runner_manager*: no call that has returned leaves a task that could still write,
  which is what CancelAgentTurns and Shutdown promise; capacity holds with failing
  creations.  With ids used early and a Storage.Delete that may fail, the run shows that the cases the ghosts name
  are all: every other session has a live runner, its snapshot and its memory agree, every other turn in flight is in
  the registry and can be cancelled, and the gauge counts the sessions.
- *session_life*: the lists of what the encoder lets through and what the decoder
  demands differ in one thing, turn ids that do not begin with `turn_`: a snapshot can be read again just if
  it holds none.  A cleanup with an old `now` never pauses a session used since.
- *plan_executor*: Kahn's algorithm as written accepts exactly the acyclic,
  well-formed plans; no order of results, failure or cancellation starts a step
  early or leaves a worker; "completed" is said of plans that are, but for a step that
  ran into its own deadline (section 5).
- *agent_turn*: two independent ideas of a valid message sequence, Session's and
  Context's, agree on every history the loop can produce; what a tool did is in the
  history or the turn has failed; when a batch returns, by whatever mix of refusals,
  retries, timeouts and cancellations, none of its calls runs on and both gates have
  their permits back, so two calls that share the session's one permit both get through.
- *mcp_client*: it implements the abstract call table, so a request is answered once and by its
  own reply; the failure, which runs once in whichever goroutine met it, leaves
  nobody waiting; Close can join the loops although one of them may be failing.
- *mcp_upstream*: handle, status and client never disagree; calls only ever reach the
  catalog the proxies were built from; however a connection attempt ends there is one process
  at most; Stop gets through an SSE Start that has no deadline.
- *mcp_wire*: over http a handler that found its session before it was deleted or swept is refused by the
  automaton (over sse it goes on); the client never overtakes its own handshake; every accepted call is answered
  and every session goes, even one whose id was lost on the way.
- *memory*: an index that is "ready" has the current vector of every live item, through failures at
  any point and a crash (whether a search then returns the item is another matter, see section 5); the quota holds against the expiry worker, and writer preference of the gate
  never closes a circle.
- *plugin*: a start or restart overtaken by StopAll leaves no process and no callable
  handle; a late bad answer cannot take the next process away; no plugin is failed for
  a dependency that would have come up.
- *daemon*: a failed Start closes what it stored, and nothing before what uses it; as long as the deadline holds the
  stores and the provider outlive the turns (MCP does not outlive those of a WebSocket, section 5); a turn whose
  goroutine starts after its connection died is cancelled all the same; each turn ends with one frame of its own,
  unless the manager closes as it returns; Shutdown ends.

**Bounds, and why they are enough.**  A queue of one is full after one task, so both
branches of every select are reached; larger capacities only add equal waiting.
Two callers are what every race in the hazard list needs, and the waiting one may hold
any of the call's intermediate places; two goroutines and two subscribers likewise.
`runner_turns` and `runner_manager` share the module and split the operations: all at
once is out of reach, and the split puts next to each other the operations that touch
the same state (the registry and the commit; the index and the runners).  Three steps
give chains, forks, joins, cycles of length 1 to 3 and duplicates; with two workers
there is a ready step that waits.  Two instants of the clock pass each limit of the
policies, and the third keeps an old `now` behind; five messages hold a user, a unit
of two calls with its results, and an answer.  In `agent_turn` the budget of four
forces both a summary and a truncation of the given history.  `MaxMessages` in
`AgentTurn` is never reached.  Two calls and one permit per session make one call wait
for the other; two permits of the process let rivals take all of them.  `RunnerManager.cfg` uses a VIEW that forgets the
call fields of idle callers (they are overwritten by the next call) and symmetry of
callers and turns; it checks no liveness, where symmetry would not be sound.
In `mcp_client` three messages of the server are a reply, its repetition and one that
breaks the protocol, or two requests with a full control queue; a table of two is
full while two requests wait; the ids are exactly as many as can be issued.  In `mcp_upstream` two outages reach a second reconnect,
hence a callback two generations old; two attempts, one that fails and one that does
not.  In `mcp_wire` a session limit of one makes the second client meet a full table,
four requests are the handshake and two overlapping calls, or two handshakes.  In
`memory` a quota of one makes every second commit evict; two keys (one global, one of a
session) are what Promote needs; three commits write a key, evict it and write it
again; one tick makes a deadline pass.  `Issues` gives one caller all that writes and the
other what is hardest beside it, a commit and a search.  In `plugin` two processes of a
plugin are the first and its replacement, which a late answer can confuse; graphs of two hold
every kind of edge and the circle.

`CHECK_DEADLOCK FALSE` stands where the system may stop: all events published, all
calls returned after Shutdown, a panic, Execute returned, all turns done, the
connection closed, Stop returned, the daemon exited, the bound of requests or commits reached.
`session_life` checks deadlock.

No constant keeps away what the code does against a document: where section 5 names a definition or a ghost, the
behaviour is in the run, and the property excepts it by that name.

**Fairness.**  Weak fairness of every step a goroutine takes by itself, which is the Go
scheduler's; a storage call, a tool and a callback return (Storage and Execute have
deadlines).  Strong fairness where a `select` chooses at random or a channel serves
its senders first-in first-out: `Send` and `SendTurn` (blocked senders are queued),
`Receive` in PlanExecutor (select does not prefer Done for ever), `Cleanup` (a cleanup task waits
at the FIFO gate behind turns), `Take` in McpUpstream (the select of runUpstream).  Clients owe
nothing: no fairness for beginning a call, cancelling, publishing, leaving, or advancing the
clock; nor do MCP servers and plugin processes, but that a server that has changed its
catalog sends the notification it owes.  `session_life` assumes that the
ticker fires and a dead process is started again.  `AgentTurn` assumes that the
deadline of a call passes, which is true of a timeout > 0; `retrying.go:48-53` sets
no deadline for 0.  `McpUpstream` assumes the timeouts of initialize and tools/list, and
none for the Start of an SSE client before runCtx is cancelled: there is none.  `McpWire` has one
condition for all handlers instead of one each: a request takes finitely many steps, so some
handler that can move being served for ever is each being served.  `Plugin` uses startup_timeout,
stop_timeout and the Kill at the end; `Daemon` the deadline of Shutdown and the
timeouts of provider and tools.  A blocked sender on a gate's channel is served before a
newcomer (`RivalEnters`), and rivals return within their own timeouts (`RivalReturns`).  `Memory` states no liveness: GatesDrain says that no
state is a standstill.

## 4. What is proved

Each theorem holds for every value of the constants that the module's ASSUME allows (TLC
evaluates the same ASSUME in the run of the module).  Each proof has the shape Init => IInv,
IInv /\ [Next]_vars => IInv', IInv => property, with one lemma per action and one PTL step at the end.  The
bounds of the runs are in the guards and so in the theorems too, but they are any numbers: no proof uses
how small they are.

| theorem | property of the run | from |
|---|---|---|
| `ChannelsStaySafe`, with `PanicFree`, `SingleCloser` | ChannelsSafe | HubAssumption |
| `GapFree` | NoGaps | HubAssumption |
| `SpecHistoriesWhole` | HistoriesWhole | LifecycleAssumption |
| `SpecStatesByRule`; `DeletesABlock` | StatesByRule; a lemma about DeleteMessage | LifecycleAssumption |
| `TurnsStaySerial`, `NothingStays` | TurnsSerial, NothingLeftBehind | RunnerAssumption |
| `StoreFollows`, `ShutdownIsQuiet` | StoreIsMemory, QuietAfterShutdown | RunnerAssumption |
| `SessionsStayWhole`, `BooksStayExact` | SessionsWhole, BooksExact | RunnerAssumption |
| `TypeCorrect`, `OrderRespected`, `WorkersJoined`, `PlansStayHonest` | DepsSucceeded, AllJoined, PlansHonest | ExecutorAssumption |
| `StreamsStaySound` | StreamsSound | ProviderAssumption |
| `HistoryStaysComplete`, `ToolsStayAccounted` | HistoryComplete, ToolsAccounted | the assumptions of AgentTurn and of what it extends |
| `BuildIsSound`, `WindowsStaySound` | WindowSound | the same |
| `ClientCollects`, `ClientImplements` | NothingLeft, ImplementsCallTable | ClientAssumption |
| `CallsStaySound`, `OneProcessEach` | CallsSound, OneProcess | UpstreamAssumption |
| `SessionsStaySound` | SessionsSound | WireAssumption |
| `QuotaStays`, `IndexStaysHonest`, `GatesStaySound` | QuotaKept, IndexHonest, GatesSound | MemoryAssumption |
| `ClientsStaySound`, `OrderStaysSound` | ClientsSound, OrderSound | PluginAssumption |
| `ComponentsStaySound`, `TurnsStaySound` | ComponentsSound, TurnsSound | DaemonAssumption |

The proofs of a component are in a module of their own; three hold those of two components that have
something in common: `SessionProofs` (the hub and the life of a session), `DependencyProofs` (the executor and
the plugin manager, which both work along a graph with Kahn's algorithm) and `McpProofs` (the two models that have the
other end of a connection in them).  Such a module EXTENDS both, so that the theorems speak of the very definitions the
runs check; this is why SessionHub, Plugin and McpWire call their specifications `HubSpec`, `PluginSpec` and `WireSpec`.

**Hub** (`SessionProofs`).  OneCloser alone is not inductive: it does not say what a
goroutine holds between two closes.  `IInv` adds `Owners`: listed subscribers are open; a taken
one is unlisted and its events channel is open unless it is the one being closed; two goroutines
never hold the same; an idle one holds none; a closed hub lists none.  That a taken one is open and has
one holder is what makes a second close impossible.  `GapFree` rests on `Gaps`: what a
subscriber has read and still has queued is the run of numbers from its subscription on, up to
the last one published as long as it is listed.

**Life of a session** (`SessionProofs`).  `Decodable` and `Paired` speak of sets of positions, which no step keeps by
itself; `Chained` says the same of neighbours: a message with calls is followed by its results, in some order, and a
result stands behind the message that asked for it.  `JoinChained` shows that what a turn appends keeps this,
`DeletesABlock` that DeleteMessage takes exactly one `Block`, a single message or a whole unit, wherever in the unit
it was told to; `CutChained` that a history without a block is chained still.  `ChainedIsPaired` and `LifeInvWhole` are the way back to
what the decoder asks.  `LifeInv` adds the times (`Kept`), that the store holds what memory holds or nothing (`Ruled`), and that what a
client has last used is no later than what the session says of it.  `SpecStatesByRule` is about steps: every action is `Lawful`, so no
cleanup with an old `now`, no Restore and no crash pauses a session used within its ttl or opens a closed one.

**Runners** (`SessionRunnerProofs`).  The heart is `TasksOwned`: a task is in one queue
or in one runner, once, and its caller waits for it there with no answer yet.  With
`StagesMatch` (what stage and candidate say of the task in hand) it follows that between
AppendUser and the answer of one turn no other task touches the session, which is
`Histories`, and that a returned call has nothing left to write.  `FreshIds` says that an id
never handed out is nowhere.  `StoreFollows` adds to this that a task acts on the session in memory and on its snapshot
together, and that only Create writes without the runner: whatever it may overwrite is `crossed`.
`EndInv` says that a runner out of the map has lost its session, or Shutdown has it, or a ghost names it
(`RunnersOwned`, `DeletesDone`, `Ending`): so Shutdown,
which collects the map, waits for all that can write.  `Awake` says that a session that can be found has a runner that
takes tasks, `ListInv` that a turn in flight keeps its entry until it returns, unless its twin or the session goes first.
`GaugeInv` counts the sessions in the index; a commit moves the gauge from
the state its candidate was made from, which is still the state in memory, and `OneCreator` keeps two creations of
one id apart.  All of them were checked with TLC before they were proved.

**Executor** (`DependencyProofs`).  `Bookkeeping`: `running` is the number of workers
not yet received; the channel holds one result per sent worker; `inDeg` is the number of
dependencies without an output; ready steps have none.  The hard lemma is `ReceiveInv`: one
result releases several steps at once, and the cardinalities of all their open dependencies move
together.  `PlansStayHonest` needs that Kahn's algorithm pops every step just if no set of
steps waits for itself.  That is an induction over its pops; the library's induction theorems take
an operator as a parameter and cannot be used, so the proof states the induction for a set of
numbers and gets it from the cardinality of finite sets.  `Rest` is what "completed" needs: no error noted,
nothing ready, only executable steps left.

**Agent** (`AgentTurnProofs`).  Three invariants, one on the other.  `StreamInv` accounts for
every fragment of a reply on its way through both channels: an error is the last thing on a
channel, what has been passed on is of one attempt, and the fragments got, held and queued
are, each in its place, those the adapter has read from the body (`Counted`, `Flow`).  `TurnInv` says where the history is
between complete chains: the calls of the last reply, of which the first so many have their
results, which Session.Append extends by exactly the next (`ChainsGrow`); and that both gates hold as many
permits as there are calls of the batch in a stage that has them, plus the rivals'.
`WindowInv` says that the turns in the history follow one another, so that the position from
which Build must keep everything is the current turn's first.  `BuildIsSound` is about
`Context.Build` alone, for any sequence of messages and any budget: its groups are the user
messages and the tool chains, cut at no place inside one.  `RestoreAssumption` says of the histories a
turn starts from what Restore demands of a snapshot.

**MCP client** (`McpClientProofs`).  `Owned`, `OpenIds` and `NoCallForgotten`: an open request has one
goroutine that is not idle, and while it waits exactly one of the table, the run of `fail()`, the call
`dispatchResponse` holds, or the request's own channel has it.  `FailOrder` is the order of the one failure;
`Honest` says that what is in a channel of a request is its own answer.  `ClientImplements` maps each
action to a step of McpCallTable or to a stutter.  Close collects because `Loops` says
which loop still runs at which stage; "dropped" is the client of a handshake that failed.

**MCP upstream** (`McpProofs`).  Only the owner's own client can be in the entry, in the handle, or have
a process (`Published`, `Processes`), and whatever was ever published had the catalog of the proxies (`Frozen`).
`OneProcess` excepts PublishedLate, which the code does (section 5).

**MCP wire** (`McpProofs`).  How far a session has come (`Negotiated`, `Ready`) is for good: no step takes it back (`Further`),
because a client makes one session, by the one initialize it ever sends (`OneInitialize`).  `Believes` is what the
client's handshake stands for, `Stands(r)` what each request in flight does: an accepted notification has made the session ready, so a
call that was sent after it finds it ready or closed.  Over stdio nothing is acknowledged, and the same follows from the order
of the lines: a call is handled when the notification before it is over.  `SessionsEnd` is one lemma for all that takes a session
away (DELETE, sweeper, a GET that ends, Serve that ends): table and automaton move together, except that a GET of sse leaves
the automaton as it is (`sse_server.go:346`).

**Memory** (`MemoryProofs`).  What an operation has read under the agent's lock is still so when it commits, embeds or
swaps (`Held`, with `OneInside`), because whoever else changes a row needs that lock, or the gate that the holder of the
lock keeps shut.  `QuotaStays` needs that `sortVictims` finds as many victims as the quota asks for: the order
of eviction is total on the rows, so the ranks of rows are an interval (`EnoughVictims`).  `ReadyCovers` is the index
that says ready, except for the key of a Put that has not embedded yet; `HitsMatch` is a search that
has picked a vector and not yet looked at its row.  It needs `Age`: contents of a key are written in an order, and for every
entry, in the index, in a list or among the hits of a search, the vector is no older than the version and no newer
than the row, so a hit of the row's version and life has the row's vector.

**Plugins** (`DependencyProofs`).  `PluginInv` is ClientsSound with `Books`: StartAll has only the head of its queue in hand, a plugin that
has never been up has no monitor, the teardown begins when StartAll and all monitors have left and takes the client of every
plugin it is done with.  That no process outlives StopAll then needs only the owner of each process.
`OrderStaysSound` is about the loop of Kahn's algorithm: `OrderInOrder` unfolds it from the recursive function
and shows that whatever a plugin depends on comes before it, for graphs with circles too; `QueueOrdered` keeps this for the rest of
the queue, so at the head of it every dependency is settled, and one that is not up by then never will be.

**Runtime and API** (`DaemonProofs`).  `Starting` and `Stopping` say which stage of Start, roll-back and Shutdown leaves what open; `Joined`, that a
turn in the line is among those Shutdown waits for; `OwnFrames`, that a turn has sent what its end says; `Quieted`, that the turns of
REST have ended when MCP goes; `TurnFollowsConnection`,
that a turn in a table of a connection that is gone has been cancelled or will be when its goroutine starts.

The lemmas that are used again and again are about the operators of the models: what a chain is and
how it grows or is cut, the last of the positions that satisfy something, prefixes and tails of sequences, counting
the members of a set in one stage when one of them moves.

## 5. Where code and documents disagree

Met while modelling; `docs/` is `src/docs/`.  Where a ghost or a definition is named, the model does it and a property
excepts it by that name; the others lie at the edge of a model or outside it.

Sessions, planner, agent, provider:

- `session/manager.go:392`: the select may enqueue on a runner that has drained and
  exited; nobody answers, against `docs/session/concurrency.md:88`.  `EveryCallReturns` excepts it as `hung`.
- `session/runturn.go:99-100`: of two calls admitted under one turn id the first to return deletes the entry of both, and
  the other runs on where CancelTurn, CancelAgentTurns and Shutdown do not see it, against
  `docs/session/concurrency.md:72` and `75`.  `RegistryComplete` excepts it as `twins`.
- `session/runturn.go:128`: a paused or closed session runs turns, against `docs/session/lifecycle.md:55`.
- `session/snapshot.go:150`: a turn id without `turn_` is accepted and stored, and then
  no session comes back after a restart (`docs/remote-api/conversation.md:141`).  `Restorable` says just that, with `Foreign`.
- `session/validate.go:90`: the unit of an executed tool whose name has another character is refused
  after it has run (`docs/tool/provider.md:14`, `docs/agent.md:171`): the turn fails, the side effect stays.  `NotWord` has such a tool.
- Two panics: a nil map in `RunTurn` after a concurrent Delete (`runturn.go:78`), and a double
  `close(r.stop)` of Shutdown and Delete or the roll-back of Create (`manager.go:239`).
- A session under creation is visible before its first snapshot is written
  (`lifecycle.go:101`): a Delete in between is undone by the late write, a turn's
  snapshot overwritten (`crossed`), and after a roll-back a commit of the old runner may bring the session
  back into the map, without a runner (`Revived`).
- Two concurrent Deletes move the gauge twice, and a Delete subtracts the state it read before the task changed it
  (`lifecycle.go:323`; `miscounted`).  A Delete whose
  Storage.Delete failed still stops the runner (`lifecycle.go:350`) and takes it out of the map: the session stays
  without a runner, and a
  Shutdown does not wait for the tasks that are still in its queue, and these write (`stranded`).
- A turn id can be used again after ClearMessages or DeleteMessage (`turn.go:50`),
  against `docs/remote-api/conversation.md:141`.
- Every cleanup tick starts one goroutine per session (`manager.go:300`); behind a turn longer
  than the interval they pile up.
- Shutdown cancels running turns at once, where `docs/session/concurrency.md` (98-99) drains
  first; if its context expires, a second Shutdown returns nil though runners live.
- `planner/executor.go:228`: a step's own DeadlineExceeded leaves a plan "completed" with
  outputs missing (`docs/planner/execution.md:127`); `CompletedMeansAll` excepts it by name.
- The Planner's scheduler starts ready steps after its caller was cancelled
  (`executor.go:203`), and files cancelled Tool steps as failed.
- `agent/handle_turn.go:279`: seven tool rounds run where `docs/agent.md:172` says eight;
  the Memory message is in the first request only; `handle_turn.go:42` reads the status
  of the agent after it has released the lock.
- `provider/openai.go:217`: a data line that does not parse is skipped, and a body that ends early (`openai.go:178`)
  ends the stream like [DONE], nobody asking for a finish reason: either way something is committed as the whole answer
  that is not what the model said, against `docs/agent.md:187-189` and `200`.  The model does both (`AdapterSkips`, `AdapterEnds`),
  and `NothingLost` speaks of what the adapter has read.
- `provider/retrying.go:162`: a stream the deadline or the caller's context cuts short ends without an error
  (`docs/agent.md:189`); `NothingLost` excepts it as `done`.  An attempt's timeout is never retried.
- `tool/manager.go:436-452`: the gate of a session stays in the map after the session.
- `tool/manager.go:336`: the timeout of a tool starts behind the gates; the wait before them
  ends only with the turn.  The backoff keeps both permits (386), and its select may
  start one more attempt of a cancelled call.
- `config/reload.go`: nothing in the program calls Reload: neither `NewWatcher` nor
  `NewConfigReloadTool` is used outside tests, where `docs/config/hot-reload.md` (section 1)
  has a file watcher and a tool.

MCP:

- `mcp/manager.go:680`: attemptReconnect looks at runCtx before it takes the lock; a Stop in
  between clears the entry and a client is published after it (`manager.go:804` says Stop
  empties the handles).  `OneProcess` excepts it as `PublishedLate`.
- `manager.go:329`: the callback of an old generation reads the field `e.listChanged` without the lock
  and posts into the channel of the current one: a spurious catalog check, no lost one.
- `onListChanged` is set after the connection is up (`manager.go:326`), so a notification that comes during
  discovery is dropped; `DriftNoticed` excepts it as `missed`.
- `manager.go:520`: a lost connection is a permanent error if the list_changed
  branch sees it first, and is reconnected if `client.Done` does.
- `client.go:143-160`: Connect does not pass its startup context to `transport.Start`; an SSE server that
  never sends its endpoint holds Prepare until Stop.
- `sse_server.go:338`: with a full queue the reply goes into the body of the POST, which the SSE client of the same
  program does not read; `AcceptedIsAnswered` excepts it as `lost`.
- `streamable_http.go`: Send blocks on a full recvCh when Recv has stopped, whatever its context; an
  initialize that fails after the server made a session leaves it to the sweeper; Close sends no DELETE for an id
  that arrives after it took its copy.

Memory:

- `memory/vector/index.go:51`: a second Upsert of a key replaces the vector and keeps the ref with its old Version, and
  `memory/manager.go:903` drops the hit for it: an item that was updated is missed by every vector search until a Reindex,
  while the status is ready (`docs/memory/lifecycle.md:46`).  `ReadyCovers` excepts it as `Rewritten`.
- `memory/manager.go:666`: IndexStatus is ready for an agent that has no index state yet, where `docs/memory/architecture.md:80`
  has a degraded one for each from the start; a search finds it degraded.  `ReadyCovers` excepts status "none".
- DeleteExpired does not clean the index, nor repeat its batch in one tick (`docs/memory/lifecycle.md`, section 5).
- After a row has expired, versions of its key start over, so a stale entry of the index can pass for the new row
  (`memory/manager.go:891`); `HitsMatch` compares within one life of a key (`SameLife`).
- A Search that fell back marks the index degraded even if a Reindex has finished meanwhile
  (`Mark`); a Put's IndexStatus may say ready while the status is degraded.
- Reindex accepts vectors of zeroes or of the wrong size (section 8 of the same document).
- Close waits inside `closeOnce.Do`, so a second caller waits whatever its context (`docs/memory/architecture.md`).

Plugins:

- `plugin/manager.go:439`: an entry without a client keeps its proxies registered (unavailable) after
  StopAll, where `docs/plugin/manager.md:397` unregisters all.
- teardown goes by StartedAt, which after a restart is not the reverse order of dependencies.
- A dependency whose version does not fit is reported and yet gates the start (`OrderSound` names it "misfit").
- `monitor.go:140`: every exit starts a fresh count of attempts and the first has no backoff: a
  plugin that dies after Ready is restarted for ever.
- Nothing under `src/cmd` starts the plugin manager.

Runtime and API:

- `runtime/runtime.go:297`: a Prepare that fails half-way is rolled back before `rt.mcpMgr` is set,
  so its servers are not stopped (`docs/architecture.md:124`); `FailedStartClosesHeld` excepts it as "upstreams".
- `runtime.go:411`: MCP goes down before the sessions drain, so under a turn of a WebSocket, against
  `docs/architecture.md:126`; `UsersFirst` says so.
- `api/server.go:261`: an SSE handler ends when its hub closes, which Shutdown does only after it has waited
  for the handlers: with an SSE client connected the deadline is always spent, and the sessions are
  shut down with an expired context.  WebSockets are hijacked and not waited for at all.
- `session/runturn.go:176`: when the manager closes while a finished turn returns, the turn has both
  assistant_done and an error (`docs/remote-api/conversation.md:127`); `OneTerminal` excepts it.
- Errors of a WebSocket's turn are written to that client only, not published to the hub
  (`docs/remote-api/conversation.md:45`).
- `api/sse_handler.go:34`: an SSE client that leaves keeps its subscription until it overflows
  (`docs/remote-api/conversation.md:129`).  An overflowed WebSocket stays connected and deaf.
- `api/ws_handler.go:246`: a cancel for a turn that is not in the table, because its message frame has not got there
  (`ws_handler.go:185` gives it a goroutine of its own) or the turn has ended, is answered by an error frame with that turn's id, and so is a message frame
  sent again (`ws_handler.go:206`): such a turn has an error besides its terminal frame (`docs/remote-api/conversation.md:127`).
  The model has them; `OneTerminal` counts them apart, as "stray".

## 6. Model-checked only, and not modelled

With TLC only:

- Liveness (EveryoneTold, EveryCallReturns, TimeIsEnforced, ExecuteReturns, TurnEnds, NobodyWaitsOnDead, OwnerListens,
  AcceptedIsAnswered, SessionsReclaimed, StopReturns, ShutdownReturns): it depends on fairness, and the prover has no
  ENABLED.
- Nothing else: every invariant and every action property of the runs is stated by a theorem, for every value of the
  constants that the named assumptions allow.

Left out of the modelled parts: metadata and byte limits of messages, read-only
calls (Get, List, Health, projections), metrics other than the session gauge, SetOnDrop,
the binding of `$step` references, the status of an agent, real-time durations and
backoffs, usage sums, framing and size limits of MCP lines, Origin and TLS checks, scores of a search, the
eviction policy "fifo" alone (ties of "ttl" are broken by it), parsing of manifests
and version ranges, pings of a WebSocket.  Memory takes one agent: agents share only the
gate and the store, whose calls are atomic.  McpUpstream takes one server: servers share
nothing but `m.mu` and the tool registry.

Not modelled: the reload of the configuration (one mutex around one atomic store, which
no code of the program reaches, see section 5); the builtin tools, storage engines, other
provider adapters, the LLM planner, configuration parsing, REST handlers, auth, skills, metrics and
the command line (I/O or pure functions; reasons in `PROJECT.json`).

## 7. Plan

1. Done: every module of section 2, with its runs; every safety property of every run proved.
2. An abstract session (a queue of atomic commands) refined by SessionRunner, which
   would also justify the atomic tasks of SessionLifecycle by a mapping.
