------------------------------ MODULE AgentTurn ------------------------------
(* internal/agent: the callback HandleTurn hands to Session.RunTurn, for the   *)
(* turns of one session one after another: the direct tool loop, or the final  *)
(* generation after a plan.  Context.Build is the operator of ContextWindow,   *)
(* the Provider is ProviderCall, the Tool Manager is ToolExecution,            *)
(* Session.Append is the part of internal/session that decides whether a       *)
(* batch is committed.                                                         *)
EXTENDS ContextWindow, ProviderCall, ToolExecution

CONSTANTS
  Names,       \* canonical names of tools
  Unstable,    \* those of a plugin or an MCP server, which comes and goes
  NotWord,     \* those with another character than a letter, a digit, _ or -
  Alias,       \* providerToolAlias: the name on the wire of a name
  MaxRounds,   \* maxToolRounds (8 in the code)
  MaxMessages, \* Policy.MaxMessages of the session
  StoreFails,  \* whether storing a snapshot may fail
  Modes,       \* the turns there are: [stream, planned]
  Prompts,     \* how many system messages precede the history
  Pasts,       \* histories the session may have been restored with
  MaxTurns     \* bound on the turns, those of the past included

ASSUME AgentAssumption ==
  /\ NotWord \subseteq Names /\ Unstable \subseteq Names /\ Names \subseteq DOMAIN Alias
  /\ MaxRounds \in Nat \ {0} /\ MaxMessages \in Nat /\ Prompts \in Nat /\ MaxTurns \in Nat
  /\ StoreFails \in BOOLEAN
  /\ Modes \subseteq [stream : BOOLEAN, planned : BOOLEAN]

(* A snapshot holds what turns have committed, and Restore checks it again.   *)
Histories == Seq([role : {"user", "assistant", "tool"}, turn : 0..MaxTurns,
                  calls : Seq([id : Nat, name : Names]), call : Nat])
ASSUME RestoreAssumption ==
  \A h \in Pasts :
    /\ h \in Histories /\ Len(h) <= MaxMessages
    /\ ChainsComplete(h) /\ (h # <<>> => h[1].role = "user")
    /\ Cardinality(UserAt(h)) <= MaxTurns
    /\ \A i \in DOMAIN h : h[i].turn <= Cardinality(UserAt(h))

VARIABLES
  hist,     \* Session.Messages
  tools,    \* the tools registered, enabled and allowed for this agent
  turn, mode,
  pc,       \* "idle", "begin", "plan", "prepare", "calling", "acting"
  round,
  offered,  \* the definitions of the frozen projection
  request,  \* the messages of the request that was sent
  calls,    \* the resolved calls of the batch
  outcome,  \* how the last turn ended: "none", "ok", "failed"
  effects   \* history: the tool executions there were, [turn, round, id, name]

turnVars == <<turn, mode>>
loopVars == <<round, offered, request, calls, execVars>>
vars == <<parent, callVars, hist, tools, turnVars, pc, loopVars, outcome, effects>>

NoMode == [stream |-> FALSE, planned |-> FALSE]
Message(r, cs, c) == [role |-> r, turn |-> turn, calls |-> cs, call |-> c]
System == Message("system", <<>>, 0)
User == Message("user", <<>>, 0)
Assistant(cs) == Message("assistant", cs, 0)
Result(id) == Message("tool", <<>>, id)

(***************************************************************************)
(* Turn.Append and AppendUser: the batch is committed as a whole or not at  *)
(* all.  Nothing here looks at the context of the turn.                     *)
(***************************************************************************)
IdsDistinct(cs) == \A i, j \in DOMAIN cs : cs[i].id = cs[j].id => i = j
RolesValid(batch, text) ==
  \A i \in DOMAIN batch : batch[i].role = "assistant" =>
    IF batch[i].calls = <<>> THEN text
    ELSE IdsDistinct(batch[i].calls) /\ \A k \in DOMAIN batch[i].calls : batch[i].calls[k].name \notin NotWord
FinalOrUnit(batch) ==
  \/ Len(batch) = 1 /\ batch[1].role \in {"user", "assistant"} /\ batch[1].calls = <<>>
  \/ /\ Len(batch) > 1 /\ Len(batch) = 1 + Len(batch[1].calls)
     /\ {batch[i].call : i \in 2..Len(batch)} = Ids(batch[1].calls)
     /\ \A i, j \in 2..Len(batch) : batch[i].call = batch[j].call => i = j
ValidBatchSequence(msgs) ==
  /\ msgs # <<>> => msgs[1].role = "user"
  /\ Pending(msgs, Len(msgs)) = {}
  /\ \A i \in DOMAIN msgs :
       LET open == Pending(msgs, i - 1)
       IN  CASE msgs[i].role = "tool" -> msgs[i].call \in open
             [] msgs[i].role = "assistant" -> msgs[i].calls = <<>> => open = {}
             [] OTHER -> open = {}
Unvalidated(batch, text) == Len(hist) + Len(batch) <= MaxMessages   \* mutant
Accepted(batch, text) ==
  /\ FinalOrUnit(batch) /\ RolesValid(batch, text)
  /\ ValidBatchSequence(hist \o batch) /\ Len(hist) + Len(batch) <= MaxMessages

callRest == <<relay, held, adapter, inch, out>>
Hangup ==       \* the local variables of the call go with it
  /\ caller' = "off" /\ deadline' = FALSE /\ attempt' = 0 /\ seenFirst' = FALSE
  /\ reply' = NoReply /\ sent' = 0 /\ read' = <<>> /\ got' = <<>>
noHangup == <<caller, deadline, attempt, seenFirst, reply, sent, read, got>>
EndTurn(how) == pc' = "idle" /\ outcome' = how /\ Hangup
Failed == EndTurn("failed") /\ UNCHANGED <<hist, loopVars, effects>>

(* commit(batch): the new history, or an error that ends the turn.            *)
Commit(batch, text, next) ==
  \/ /\ Accepted(batch, text)
     /\ hist' = hist \o batch
     /\ next
  \/ /\ ~Accepted(batch, text) \/ StoreFails
     /\ EndTurn("failed")
     /\ UNCHANGED <<hist, round>>

(***************************************************************************)
(* RunTurn calls back with a fresh context; the first step commits the user  *)
(* message.                                                                 *)
(***************************************************************************)
NewTurn ==
  /\ pc = "idle" /\ turn < MaxTurns
  /\ turn' = turn + 1 /\ mode' \in Modes /\ pc' = "begin" /\ parent' = FALSE
  /\ outcome' = "none" /\ round' = 0 /\ calls' = <<>>
  /\ offered' = {} /\ request' = <<>>
  /\ UNCHANGED <<callVars, hist, tools, execVars, effects>>

AppendUser ==
  /\ pc = "begin"
  /\ IF parent THEN EndTurn("failed") /\ UNCHANGED <<hist, round>>
     ELSE Commit(<<User>>, TRUE,
                 /\ pc' = IF mode.planned THEN "plan" ELSE "prepare"
                 /\ UNCHANGED <<round, outcome, noHangup>>)
  /\ UNCHANGED <<parent, callRest, tools, turnVars, offered, request, calls, execVars, effects>>

(* Planner.Plan, ValidatePlan and Execute: see PlanExecutor.                  *)
RunPlan ==
  /\ pc = "plan"
  /\ \/ pc' = "prepare" /\ ~parent /\ UNCHANGED <<outcome, noHangup>>
     \/ EndTurn("failed")
  /\ UNCHANGED <<parent, callRest, hist, tools, turnVars, loopVars, effects>>

(***************************************************************************)
(* One round: snapshot, system messages, memory, projection, Context.Build.  *)
(***************************************************************************)
HistoryNames == UNION {{hist[i].calls[k].name : k \in DOMAIN hist[i].calls} : i \in DOMAIN hist}
Collision == \E a \in tools, b \in tools \cup HistoryNames : a # b /\ Alias[a] = Alias[b]

Systems(n) == [i \in 1..n |-> System]
Memories == IF mode.planned \/ round = 0 THEN {0, 1} ELSE {0}
Candidate(memories) ==
  IF mode.planned THEN Systems(1 + Prompts + memories) \o hist \o <<User>>
                  ELSE Systems(Prompts + memories) \o hist
LastUser(msgs) == CHOOSE u \in UserAt(msgs) : \A v \in UserAt(msgs) : v <= u

Sends(memories, summarised) ==
  LET msgs == Candidate(memories)
      built == Build(msgs, LastUser(msgs), summarised)
  IN  /\ mode.planned \/ ~Collision
      /\ built.ok /\ (parent => built.msgs = msgs)
      /\ request' = built.msgs
Prepare ==
  /\ pc = "prepare"
  /\ \E memories \in Memories, summarised \in BOOLEAN : Sends(memories, summarised)
  /\ offered' = IF mode.planned THEN {} ELSE tools
  /\ Call(mode.stream) /\ pc' = "calling"
  /\ UNCHANGED <<hist, tools, turnVars, round, calls, execVars, outcome, effects>>
(* A skill or the memory cannot be read, aliases collide, nothing fits.       *)
PrepareFails ==
  /\ pc = "prepare"
  /\ Failed
  /\ UNCHANGED <<parent, callRest, tools, turnVars>>

(***************************************************************************)
(* The reply.  callStream merges fragments by call id, one entry for each in  *)
(* the order they first occur; callChat takes the calls as they come.  A     *)
(* call can be resolved when it has its name, which comes with the first     *)
(* fragment, and its arguments are a single JSON object.                     *)
(***************************************************************************)
CallParts == {i \in DOMAIN got : got[i].kind \in {"open", "rest"}}
Entries == {i \in CallParts :
              IF mode.stream THEN \A j \in CallParts : j < i => got[j].call.id # got[i].call.id
                             ELSE got[i].kind = "open"}
PartsOf(id) == {i \in CallParts : got[i].call.id = id}
Whole(id) == mode.stream => \E i, j \in PartsOf(id) : /\ i < j /\ PartsOf(id) = {i, j}
                                                     /\ got[i].kind = "open" /\ got[j].kind = "rest"
Merged == [k \in 1..Cardinality(Entries) |-> got[Nth(Entries, k)].call]
HasText == \E i \in DOMAIN got : got[i].kind = "text"

(* ResolveExecutable: an exact look-up among the definitions of this request. *)
ResolveExecutable(wire) == {a \in offered : Alias[a] = wire}
Executable(cs) == \A i \in DOMAIN cs : Whole(cs[i].id) /\ ResolveExecutable(cs[i].wire) # {}
Resolve(cs) == [i \in DOMAIN cs |->
                  [id |-> cs[i].id, name |-> CHOOSE a \in ResolveExecutable(cs[i].wire) : TRUE]]

Answer ==
  /\ pc = "calling" /\ caller = "replied"
  /\ Merged = <<>> \/ mode.planned
  /\ Commit(<<Assistant(Merged)>>, HasText, EndTurn("ok") /\ UNCHANGED round)
  /\ UNCHANGED <<parent, callRest, tools, turnVars, offered, request, calls, execVars, effects>>

RoundsLeft == round + 1 < MaxRounds
Act ==
  /\ pc = "calling" /\ caller = "replied"
  /\ Merged # <<>> /\ ~mode.planned /\ Executable(Merged) /\ RoundsLeft
  /\ calls' = Resolve(Merged) /\ StartBatch(Len(Merged))
  /\ pc' = "acting" /\ Hangup
  /\ UNCHANGED <<parent, callRest, hist, tools, turnVars, round, offered, request, outcome, effects>>

(* The Provider failed, the calls are not valid, or there were too many rounds. *)
TurnFails ==
  /\ pc = "calling"
  /\ \/ caller = "failed"
     \/ /\ caller = "replied" /\ Merged # <<>> /\ ~mode.planned
        /\ ~(Executable(Merged) /\ RoundsLeft)
  /\ Failed
  /\ UNCHANGED <<parent, callRest, tools, turnVars>>

(***************************************************************************)
(* ExecuteBatch; the unit is committed when all calls are over.  A tool that  *)
(* is gone when its call is taken up gives an error result, and so do         *)
(* arguments its schema refuses; one that goes later is run all the same.     *)
(***************************************************************************)
Execution(i) == [turn |-> turn, round |-> round, id |-> calls[i].id, name |-> calls[i].name]
RunCall(i) ==
  /\ pc = "acting" /\ i \in Calls
  /\ \/ /\ \/ \E valid \in BOOLEAN : Take(i, valid /\ calls[i].name \in tools)
           \/ EnterSession(i) \/ EnterGlobal(i) \/ GiveUp(i, parent) \/ Backoff(i)
        /\ UNCHANGED effects
     \/ Returns(i, parent) /\ effects' = effects \cup {Execution(i)}
  /\ UNCHANGED <<parent, callVars, hist, tools, turnVars, pc, round, offered, request, calls,
                 outcome>>
elsewhere == <<parent, callVars, hist, tools, turnVars, pc, round, offered, request, calls,
               outcome, effects>>
RivalTakes == RivalEnters /\ UNCHANGED elsewhere
RivalReturns == RivalLeaves /\ UNCHANGED elsewhere

WireUnit ==                                                       \* mutant
  <<Assistant([i \in DOMAIN calls |-> [id |-> calls[i].id, name |-> Alias[calls[i].name]]])>>
    \o [i \in DOMAIN calls |-> Result(calls[i].id)]
Unit == <<Assistant(calls)>> \o [i \in DOMAIN calls |-> Result(calls[i].id)]
Record ==
  /\ pc = "acting" /\ AllOver /\ EndBatch
  /\ IF parent THEN EndTurn("failed") /\ UNCHANGED <<hist, round>>
     ELSE Commit(Unit, TRUE, /\ round' = round + 1 /\ pc' = "prepare"
                             /\ UNCHANGED <<outcome, noHangup>>)
  /\ UNCHANGED <<parent, callRest, tools, turnVars, offered, request, calls, effects>>

(***************************************************************************)
(* The rest of the system.                                                  *)
(***************************************************************************)
CancelTurn ==
  /\ pc # "idle" /\ ~parent
  /\ parent' = TRUE
  /\ UNCHANGED <<callVars, hist, tools, turnVars, pc, loopVars, outcome, effects>>
(* A plugin or an MCP server comes or goes (Register, Unregister).            *)
Registry ==
  /\ \E a \in Unstable : tools' = IF a \in tools THEN tools \ {a} ELSE tools \cup {a}
  /\ UNCHANGED <<parent, callVars, hist, turnVars, pc, loopVars, outcome, effects>>
ProviderStep ==
  /\ CallNext
  /\ UNCHANGED <<hist, tools, turnVars, pc, loopVars, outcome, effects>>

Init ==
  /\ CallInit
  /\ hist \in Pasts /\ tools = Names
  /\ turn = Cardinality(UserAt(hist)) /\ mode = NoMode /\ pc = "idle" /\ round = 0
  /\ offered = {} /\ request = <<>> /\ calls = <<>> /\ ExecInit
  /\ outcome = "none" /\ effects = {}

Loop == \/ AppendUser \/ RunPlan \/ PrepareFails \/ Prepare \/ Answer \/ Act \/ TurnFails \/ Record
        \/ \E i \in DOMAIN calls : RunCall(i)
Next == NewTurn \/ Loop \/ CancelTurn \/ Registry \/ ProviderStep \/ RivalTakes \/ RivalReturns

(* The Agent goes on, tools come back, those of other sessions too (each has  *)
(* a timeout), and the Provider's own goroutines run.                        *)
Fairness == WF_vars(Loop) /\ WF_vars(RivalReturns) /\ CallFairness
Spec == Init /\ [][Next]_vars
FairSpec == Spec /\ Fairness
-----------------------------------------------------------------------------
TypeOK ==
  /\ pc \in {"idle", "begin", "plan", "prepare", "calling", "acting"}
  /\ hist \in Histories /\ Len(hist) <= MaxMessages
  /\ tools \subseteq Names /\ offered \subseteq Names
  /\ turn \in 0..MaxTurns /\ round \in 0..MaxRounds - 1
  /\ ExecTypeOK /\ outcome \in {"none", "ok", "failed"}
  /\ Len(inch) <= ChanCap /\ Len(out) <= ChanCap /\ attempt \in 0..MaxRetries

(* Whatever happens to a turn, the history stays one that a later turn can be *)
(* built on: it starts with a user and every tool call has its one result.    *)
HistoryComplete == /\ ChainsComplete(hist)
                   /\ hist # <<>> => hist[1].role = "user"

(* What is sent fits the budget, has the whole of the current turn behind the  *)
(* system messages, and no result without its call or call without a result.  *)
Talk(msgs) == {i \in DOMAIN msgs : msgs[i].role # "system"}
OfTurn(msgs, k) == Keep(msgs, {i \in Talk(msgs) : msgs[i].turn = k})
RequestSound ==
  pc = "calling" /\ ~mode.planned =>
    /\ Tokens(request) <= Budget /\ ChainsComplete(request)
    /\ \E n \in 0..Len(hist) : /\ \A i \in 1..n : hist[i].turn < turn
                               /\ OfTurn(request, turn) = SubSeq(hist, n + 1, Len(hist))

(* What was left out without a summary is older than everything that was kept. *)
OldestGoFirst ==
  pc = "calling" /\ Summary \notin {request[i] : i \in DOMAIN request} =>
    LET kept == Keep(request, Talk(request))
        all == IF mode.planned THEN Append(hist, User) ELSE hist
    IN  \E n \in 0..Len(all) : kept = SubSeq(all, n + 1, Len(all))

(* A reply is one attempt's: after the first visible piece nothing is retried. *)
OneAttempt == \A i, j \in DOMAIN got : got[i].try = got[j].try

(* A tool runs only for a call whose definition was in that very request: what *)
(* the history still names gives no right to run it.                           *)
OnlyOffered ==
  pc = "acting" => \A e \in effects : e.turn = turn /\ e.round = round => e.name \in offered

(* A turn that succeeds has left the answer as the last message and a result   *)
(* for every tool execution of its rounds.                                     *)
Recorded(e) == \E i \in DOMAIN hist : /\ hist[i].role = "assistant" /\ hist[i].turn = e.turn
                                      /\ \E k \in DOMAIN hist[i].calls :
                                           /\ hist[i].calls[k].id = e.id
                                           /\ hist[i].calls[k].name = e.name
OkMeansRecorded ==
  outcome = "ok" => /\ hist[Len(hist)].turn = turn /\ hist[Len(hist)].role = "assistant"
                    /\ hist[Len(hist)].calls = <<>>
                    /\ \A e \in effects : e.turn = turn => Recorded(e)

(* Every turn comes to an end, whatever the model, the tools and the caller do. *)
TurnEnds == (pc = "begin") ~> (pc = "idle")

(* What goes to the model is a sound part of the history: within the budget,  *)
(* the turn whole, calls with their results, and the oldest left out first.   *)
WindowSound == TypeOK /\ RequestSound /\ OldestGoFirst

(* Through two goroutines, two channels and the retries nothing is lost, and   *)
(* nothing doubled or swapped: the Agent gets what the adapter could read of   *)
(* one attempt, piece by piece, and goes on without an error only with all of  *)
(* it, unless the deadline of the call or a cancellation cut it short: that    *)
(* end looks like the end of the reply.  What the adapter could read need not  *)
(* be the whole reply of the model (AdapterSkips, AdapterEnds).               *)
SamePiece(g, c) == g.kind = c.kind /\ g.call = c.call
NothingLost ==
  /\ Len(got) <= Len(read) /\ \A i \in DOMAIN got : SamePiece(got[i], read[i])
  /\ caller = "replied" => done \/ Len(got) = Len(read)

(* One logical call: its reply is what was read of one attempt, and when its  *)
(* caller goes on neither of the goroutines behind the stream is left.        *)
StreamsSound == OneAttempt /\ NothingLost /\ Collected

(* When the turn goes on, none of its calls still runs or holds a permit.      *)
NothingHeld == pc # "acting" => Calls = {} /\ sessGate = 0 /\ global = 0

(* Tools run because they were offered, under exactly the permits they took,  *)
(* and a turn that ends well has their results in the history.                *)
ToolsAccounted == OnlyOffered /\ OkMeansRecorded /\ PermitsExact /\ NothingHeld
=============================================================================
