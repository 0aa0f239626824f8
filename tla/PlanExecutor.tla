---------------------------- MODULE PlanExecutor ----------------------------
(* internal/planner: ValidatePlan on the plan a model proposed, and Executor, *)
(* the scheduler that runs one accepted plan: one goroutine owns all the      *)
(* bookkeeping, a worker goroutine per started step sends one result to a     *)
(* buffered channel.  Steps are numbered in the order of Plan.Steps.          *)
EXTENDS Integers, Sequences, FiniteSets, Functions

CONSTANTS
  N,              \* len(plan.Steps)
  MaxConcurrent,  \* Executor.maxConcurrent
  MaxDepends,     \* bound on the length of a Depends list
  StepDeadlines   \* whether a step may report DeadlineExceeded by itself, as
                  \* the timeout of a Provider call does

ASSUME ExecutorAssumption ==
  /\ N \in Nat \ {0} /\ MaxConcurrent \in Nat \ {0} /\ MaxDepends \in Nat
  /\ StepDeadlines \in BOOLEAN

Steps == 1..N
Unknown == 0                        \* an id that no step has
Statuses == {"skipped", "succeeded", "failed", "canceled"}
(* What a step's run comes to: an output, an output json.Marshal refuses, an  *)
(* error, an error that wraps Canceled or DeadlineExceeded.                   *)
Results == {"ok", "encode", "hard", "ctx"}

VARIABLES
  depends,   \* depends[s]: Step.Depends, a list
  phase,     \* "proposed", "rejected", "fill", "select", "done"
  inDeg,     \* inDeg[s]: dependencies of s that have not succeeded yet
  ready,     \* the ready slice
  running,   \* the number of workers whose result has not been received
  worker,    \* worker[s]: "none", "running", "sent" or "received"
  chan,      \* resultCh
  result,    \* result[s]: results[s].Status
  firstErr,  \* firstErr # nil (cancelCause is set together with it)
  ctxDone,   \* the context of the turn is cancelled
  called,    \* steps that called a Tool
  planCalls, \* the calls accumulated in PlanResult
  status     \* PlanResult.Status, "none" before Execute returns

graphVars == <<depends, inDeg, ready>>
workVars == <<running, worker, chan, called>>
vars == <<graphVars, phase, workVars, result, firstErr, ctxDone, planCalls, status>>

DependsLists == UNION {[1..k -> Steps \cup {Unknown}] : k \in 0..MaxDepends}

(***************************************************************************)
(* ValidatePlan, rules 6 and 7.                                             *)
(***************************************************************************)
WellFormedDepends(s) ==
  IsInjective(depends[s]) /\ \A i \in DOMAIN depends[s] : depends[s][i] \in Steps \ {s}

(* The list of S in the order of the plan, as the loops over Steps build it.  *)
(* Ordered(S) has exactly that one element.                                  *)
Ordered(S) == {q \in [1..Cardinality(S) -> S] :
                 \A i, j \in DOMAIN q : i < j => q[i] < q[j]}
InPlanOrder(S) == CHOOSE q \in Ordered(S) : TRUE

Dependents(d) == {s \in Steps : d \in Range(depends[s])}

(* Kahn's algorithm: k pops of its queue.                                    *)
Pop(st) ==
  IF st.queue = <<>> THEN st
  ELSE LET d == Head(st.queue)
           left == [s \in Steps |-> st.inDeg[s] - (IF s \in Dependents(d) THEN 1 ELSE 0)]
           fresh == InPlanOrder({s \in Dependents(d) : left[s] = 0})
       IN  [queue |-> Tail(st.queue) \o fresh, inDeg |-> left, visited |-> st.visited + 1]
Kahn[k \in Nat] ==
  IF k = 0 THEN [queue |-> InPlanOrder({s \in Steps : depends[s] = <<>>}),
                 inDeg |-> [s \in Steps |-> Len(depends[s])], visited |-> 0]
  ELSE Pop(Kahn[k - 1])

CyclesPass == TRUE                                               \* mutant
NoCycle == Kahn[N].visited = N
ValidPlan == (\A s \in Steps : WellFormedDepends(s)) /\ NoCycle

(* The caller validates the plan; Execute builds the graph of an accepted    *)
(* one and puts the steps without dependencies into the ready slice.         *)
Validate ==
  /\ phase = "proposed"
  /\ IF ValidPlan
       THEN phase' = "fill" /\ ready' \in Ordered({s \in Steps : inDeg[s] = 0})
       ELSE phase' = "rejected" /\ UNCHANGED ready
  /\ UNCHANGED <<depends, inDeg, workVars, result, firstErr, ctxDone, planCalls, status>>

Init ==
  /\ depends \in [Steps -> DependsLists]
  /\ phase = "proposed"
  /\ inDeg = [s \in Steps |-> Len(depends[s])] /\ ready = <<>>
  /\ running = 0 /\ worker = [s \in Steps |-> "none"] /\ chan = <<>> /\ called = {}
  /\ result = [s \in Steps |-> "skipped"]
  /\ firstErr = FALSE /\ ctxDone = FALSE /\ planCalls = 0 /\ status = "none"

(***************************************************************************)
(* The scheduler.                                                           *)
(***************************************************************************)
RoomForWorker == running < MaxConcurrent
MayStart == ~firstErr /\ ready # <<>> /\ RoomForWorker

StartWorker ==
  /\ phase = "fill" /\ MayStart
  /\ worker' = [worker EXCEPT ![Head(ready)] = "running"]
  /\ ready' = Tail(ready)
  /\ running' = running + 1
  /\ UNCHANGED <<depends, inDeg, phase, chan, called, result, firstErr, ctxDone,
                 planCalls, status>>

Await ==
  /\ phase = "fill" /\ ~MayStart /\ running # 0
  /\ phase' = "select"
  /\ UNCHANGED <<graphVars, workVars, result, firstErr, ctxDone, planCalls, status>>

Outcome == CASE firstErr -> "failed"
             [] ~firstErr /\ ctxDone -> "canceled"
             [] OTHER -> "completed"

Return ==
  /\ phase = "fill" /\ ~MayStart /\ running = 0
  /\ phase' = "done" /\ status' = Outcome
  /\ UNCHANGED <<graphVars, workVars, result, firstErr, ctxDone, planCalls>>

(* The branch of planCtx.Done(): back to the loop, which selects again.      *)
planCancelled == ctxDone \/ firstErr
Spin ==
  /\ phase = "select" /\ planCancelled
  /\ phase' = "fill"
  /\ UNCHANGED <<graphVars, workVars, result, firstErr, ctxDone, planCalls, status>>

(* The usage of a step counts whatever became of it.                         *)
CountOnlyOutputs(r) == planCalls + (IF r.called /\ r.res = "ok" THEN 1 ELSE 0)   \* mutant
Accumulated(r) == planCalls + (IF r.called THEN 1 ELSE 0)

StatusOf(res) == CASE res = "ok" -> "succeeded"
                   [] res = "ctx" -> "canceled"
                   [] OTHER -> "failed"

ReleaseOnAny(r) == TRUE                                          \* mutant
Releases(r) == r.res = "ok"

Receive ==
  /\ phase = "select" /\ chan # <<>>
  /\ LET r == Head(chan)
         waiting == Dependents(r.step)
     IN
     /\ chan' = Tail(chan)
     /\ running' = running - 1
     /\ worker' = [worker EXCEPT ![r.step] = "received"]
     /\ planCalls' = Accumulated(r)
     /\ result' = [result EXCEPT ![r.step] = StatusOf(r.res)]
     /\ firstErr' = (firstErr \/ r.res \in {"hard", "encode"})
     /\ IF Releases(r)
          THEN /\ inDeg' = [s \in Steps |-> inDeg[s] - (IF s \in waiting THEN 1 ELSE 0)]
               /\ \E q \in Ordered({s \in waiting : inDeg[s] = 1}) : ready' = ready \o q
          ELSE UNCHANGED <<inDeg, ready>>
  /\ phase' = "fill"
  /\ UNCHANGED <<depends, called, ctxDone, status>>

(***************************************************************************)
(* The workers, and the caller.                                             *)
(***************************************************************************)
LostWhenCancelled(s, res, c) ==                                    \* mutant
  /\ chan' = IF planCancelled THEN chan ELSE Append(chan, [step |-> s, res |-> res, called |-> c])
  /\ worker' = [worker EXCEPT ![s] = "sent"]
  /\ called' = IF c THEN called \cup {s} ELSE called
SendResult(s, res, c) ==
  /\ chan' = Append(chan, [step |-> s, res |-> res, called |-> c])
  /\ worker' = [worker EXCEPT ![s] = "sent"]
  /\ called' = IF c THEN called \cup {s} ELSE called

(* bindStepInput and StepRunner: an LLM step, or one that fails before the    *)
(* Tool Manager is asked, counts no Tool call.  A cancelled step may report   *)
(* the context's error, or a cause that is an error like any other.           *)
Work(s) ==
  /\ worker[s] = "running"
  /\ \E res \in Results, c \in BOOLEAN :
       /\ res = "ctx" => planCancelled \/ StepDeadlines
       /\ SendResult(s, res, c)
  /\ UNCHANGED <<graphVars, phase, running, result, firstErr, ctxDone, planCalls, status>>

CancelTurn ==
  /\ phase \in {"fill", "select"} /\ ~ctxDone
  /\ ctxDone' = TRUE
  /\ UNCHANGED <<graphVars, phase, workVars, result, firstErr, planCalls, status>>

Next == \/ Validate \/ StartWorker \/ Await \/ Return \/ Spin \/ Receive
        \/ \E s \in Steps : Work(s)
        \/ CancelTurn

(* The scheduler and the workers run, a StepRunner returns, and select, which *)
(* chooses at random, does not prefer Done to the results for ever.           *)
Fairness == /\ WF_vars(Validate \/ StartWorker \/ Await \/ Return)
            /\ SF_vars(Receive)
            /\ \A s \in Steps : WF_vars(Work(s))

Spec == Init /\ [][Next]_vars
FairSpec == Spec /\ Fairness
-----------------------------------------------------------------------------
Messages == [step : Steps, res : Results, called : BOOLEAN]

TypeOK ==
  /\ depends \in [Steps -> Seq(Steps \cup {Unknown})]
  /\ phase \in {"proposed", "rejected", "fill", "select", "done"}
  /\ inDeg \in [Steps -> Nat]
  /\ ready \in Seq(Steps)
  /\ running \in 0..MaxConcurrent
  /\ worker \in [Steps -> {"none", "running", "sent", "received"}]
  /\ chan \in Seq(Messages)
  /\ result \in [Steps -> Statuses]
  /\ firstErr \in BOOLEAN /\ ctxDone \in BOOLEAN
  /\ called \subseteq Steps /\ planCalls \in Nat
  /\ status \in {"none", "completed", "failed", "canceled"}

(* ValidatePlan lets exactly the executable plans through: every step names   *)
(* other steps of the plan, each once, and no set of steps waits for itself.  *)
WaitsForItself(S) == S # {} /\ \A s \in S : Range(depends[s]) \cap S # {}
OnlyExecutable ==
  phase # "proposed" => (phase # "rejected" <=>
    /\ \A s \in Steps : WellFormedDepends(s)
    /\ ~\E S \in SUBSET Steps : WaitsForItself(S))

(* A step runs only when all its dependencies have delivered an output, and   *)
(* those outputs are final: what the worker bound can never change.           *)
DepsSucceeded ==
  \A s \in Steps : worker[s] # "none" =>
    \A i \in DOMAIN depends[s] : result[depends[s][i]] = "succeeded"

(* Execute returns only after every worker it started has been heard, so no   *)
(* tool of the plan runs on after the turn went on, and the calls it reports  *)
(* are those that were made, including those of steps that failed.            *)
AllJoined ==
  status # "none" => /\ \A s \in Steps : worker[s] \in {"none", "received"}
                     /\ planCalls = Cardinality(called)

(* A plan reported as completed has an output for every step, unless a step   *)
(* ran into a deadline of its own: Execute files that under canceled, and the *)
(* plan completes without it and without what depends on it.                  *)
CompletedMeansAll ==
  status = "completed" => \/ \A s \in Steps : result[s] = "succeeded"
                          \/ StepDeadlines /\ \E s \in Steps : result[s] = "canceled"

(* What ValidatePlan accepts, and what Execute reports, is true of the plan.  *)
PlansHonest == TypeOK /\ OnlyExecutable /\ CompletedMeansAll

(* Execute returns, on every accepted plan and however its steps end.         *)
ExecuteReturns == (phase = "fill") ~> (phase = "done")
=============================================================================
