---------------------------- MODULE ToolExecution ----------------------------
(* internal/tool: ExecuteBatch for the calls of one round of one session, and *)
(* the part of Execute that holds permits: the gate of the session, the gate  *)
(* of the process, the attempts under one timeout.  The calls are numbered in *)
(* the order of the reply; which tool a call names is the caller's business.  *)
EXTENDS Integers, FiniteSets

CONSTANTS
  MaxConcurrent,            \* permits of the process, workers of a batch
  MaxConcurrentPerSession,  \* permits of one session
  DefaultMaxRetry

ASSUME ToolAssumption ==
  /\ MaxConcurrent \in Nat \ {0} /\ DefaultMaxRetry \in Nat
  /\ MaxConcurrentPerSession \in 1..MaxConcurrent

VARIABLES
  stage,     \* stage[i]: "queued", "gate", "global", "running", "backoff", "over"
  attempts,  \* attempts[i]: how often the tool was run for call i
  sessGate,  \* the permits taken from the session's channel
  global,    \* the permits taken from the process's channel
  rivals     \* those of them that calls of other sessions hold

gateVars == <<sessGate, global>>
execVars == <<stage, attempts, gateVars, rivals>>

Calls == DOMAIN stage
At(s) == {i \in Calls : stage[i] \in s}
HoldsSession == At({"global", "running", "backoff"})
HoldsGlobal == At({"running", "backoff"})
AllOver == At({"over"}) = Calls

ExecInit ==
  /\ stage = <<>> /\ attempts = <<>> /\ sessGate = 0 /\ global = 0 /\ rivals = 0

(* The other sessions are followed while the batch runs: it finds some of     *)
(* them holding permits, and they are forgotten when it returns.              *)
StartBatch(n) ==
  /\ stage' = [i \in 1..n |-> "queued"] /\ attempts' = [i \in 1..n |-> 0]
  /\ rivals' \in 0..MaxConcurrent /\ global' = global + rivals'
  /\ UNCHANGED sessGate
EndBatch ==
  /\ stage' = <<>> /\ attempts' = <<>> /\ rivals' = 0 /\ global' = global - rivals
  /\ UNCHANGED sessGate

(***************************************************************************)
(* A worker takes the next index; the tool is looked up and the arguments    *)
(* are checked before any permit is asked for.                               *)
(***************************************************************************)
Workers == IF MaxConcurrent < Cardinality(Calls) THEN MaxConcurrent ELSE Cardinality(Calls)
Take(i, admitted) ==
  /\ stage[i] = "queued" /\ \A j \in At({"queued"}) : i <= j
  /\ Cardinality(Calls \ At({"queued", "over"})) < Workers
  /\ stage' = [stage EXCEPT ![i] = IF admitted THEN "gate" ELSE "over"]
  /\ UNCHANGED <<attempts, gateVars, rivals>>

EnterSession(i) ==
  /\ stage[i] = "gate" /\ sessGate < MaxConcurrentPerSession
  /\ sessGate' = sessGate + 1
  /\ stage' = [stage EXCEPT ![i] = "global"]
  /\ UNCHANGED <<attempts, global, rivals>>

EnterGlobal(i) ==
  /\ stage[i] = "global" /\ global < MaxConcurrent
  /\ global' = global + 1
  /\ stage' = [stage EXCEPT ![i] = "running"]
  /\ UNCHANGED <<attempts, sessGate, rivals>>

(* Both selects also watch the caller; what was taken so far is given back.   *)
KeepsSession(i) == sessGate                                       \* mutant
SessionLeft(i) == sessGate - (IF i \in HoldsSession THEN 1 ELSE 0)
Leave(i) ==
  /\ stage' = [stage EXCEPT ![i] = "over"]
  /\ sessGate' = SessionLeft(i)
  /\ global' = global - (IF i \in HoldsGlobal THEN 1 ELSE 0)
GiveUp(i, cancelled) ==
  /\ stage[i] \in {"gate", "global"} /\ cancelled
  /\ Leave(i)
  /\ UNCHANGED <<attempts, rivals>>

(***************************************************************************)
(* The retry loop.  The timeout starts behind both gates and covers every    *)
(* attempt; the permits are kept through the backoff, and its select may     *)
(* prefer the timer to a cancellation, so a cancelled call can run again.    *)
(***************************************************************************)
AttemptsLeft(i) == attempts[i] < DefaultMaxRetry
Ends(i, failure, late) == late \/ failure # "retryable" \/ ~AttemptsLeft(i)
Returns(i, cancelled) ==
  /\ stage[i] = "running"
  /\ attempts' = [attempts EXCEPT ![i] = @ + 1]
  /\ \E failure \in {"none", "final", "retryable"}, late \in BOOLEAN :
       IF cancelled \/ Ends(i, failure, late) THEN Leave(i)
       ELSE stage' = [stage EXCEPT ![i] = "backoff"] /\ UNCHANGED gateVars
  /\ UNCHANGED rivals
Backoff(i) ==
  /\ stage[i] = "backoff"
  /\ \/ stage' = [stage EXCEPT ![i] = "running"] /\ UNCHANGED gateVars
     \/ Leave(i)                                  \* cancelled, or the timeout
  /\ UNCHANGED <<attempts, rivals>>

(* A freed permit goes to whoever waits in the channel's queue: a newcomer    *)
(* does not overtake a call that waits.                                       *)
RivalEnters ==
  /\ Calls # {} /\ At({"global"}) = {} /\ global < MaxConcurrent
  /\ rivals' = rivals + 1 /\ global' = global + 1
  /\ UNCHANGED <<stage, attempts, sessGate>>
RivalLeaves ==
  /\ rivals > 0
  /\ rivals' = rivals - 1 /\ global' = global - 1
  /\ UNCHANGED <<stage, attempts, sessGate>>
-----------------------------------------------------------------------------
ExecTypeOK ==
  /\ stage \in [Calls -> {"queued", "gate", "global", "running", "backoff", "over"}]
  /\ attempts \in [Calls -> 0..DefaultMaxRetry + 1]
  /\ sessGate \in 0..MaxConcurrentPerSession /\ global \in 0..MaxConcurrent
  /\ rivals \in 0..MaxConcurrent

(* Every way out of Execute gives back what the call took and nothing else:   *)
(* the channels hold as many permits as there are calls that have them.       *)
PermitsExact ==
  /\ sessGate = Cardinality(HoldsSession)
  /\ global = rivals + Cardinality(HoldsGlobal)
=============================================================================
