-------------------------- MODULE DependencyProofs --------------------------
(* Proofs about the two parts that work along a graph of dependencies, and    *)
(* share the lemmas by which a loop over one is unfolded.                     *)
(* PlanExecutor, for every number of steps, every limit of workers and every  *)
(* dependency table.  The key is the meaning of the scheduler's counter:      *)
(* inDeg[s] is the number of dependencies of s that have not succeeded, so a  *)
(* step that is ready waits for nobody.  The correctness of ValidatePlan      *)
(* needs an induction over the pops of its queue: an induction for sets of    *)
(* numbers follows from the cardinality of finite sets.                       *)
(* Plugin, for every number of plugins, callers and restarts: the order in    *)
(* which StartAll takes the plugins is one, and the entry, the handle, the    *)
(* process and whoever has it in hand agree through every interleaving.       *)
EXTENDS PlanExecutor, Plugin, FiniteSetTheorems, TLAPS

Accepted == phase \notin {"proposed", "rejected"}

(* Positions of Depends whose step has not succeeded.                         *)
OpenDeps(s) == {i \in DOMAIN depends[s] : result[depends[s][i]] # "succeeded"}
Busy == {s \in Steps : worker[s] \in {"running", "sent"}}
Counted == {s \in called : worker[s] = "received"}

Untouched ==
  ~Accepted => /\ ready = <<>> /\ chan = <<>>
               /\ worker = [s \in Steps |-> "none"]
               /\ inDeg = [s \in Steps |-> Len(depends[s])]
WellFormed == Accepted => \A s \in Steps : WellFormedDepends(s)
DegCounts == Accepted => \A s \in Steps : inDeg[s] = Cardinality(OpenDeps(s))
ResultOfReceived == \A s \in Steps : result[s] = "skipped" <=> worker[s] # "received"
ReadyWaits ==
  \A i \in DOMAIN ready :
    /\ worker[ready[i]] = "none" /\ inDeg[ready[i]] = 0
    /\ \A j \in DOMAIN ready : ready[i] = ready[j] => i = j
StartedWaits == \A s \in Steps : worker[s] # "none" => inDeg[s] = 0
ChanSent ==
  \A i \in DOMAIN chan :
    /\ worker[chan[i].step] = "sent"
    /\ chan[i].called <=> chan[i].step \in called
    /\ \A j \in DOMAIN chan : chan[i].step = chan[j].step => i = j
RunningCounts == running = Cardinality(Busy)
CallsCounted ==
  /\ \A s \in called : worker[s] \in {"sent", "received"}
  /\ planCalls = Cardinality(Counted)
Joined == /\ status # "none" => phase = "done"
          /\ phase = "done" => running = 0

Bookkeeping == /\ Untouched /\ WellFormed /\ DegCounts /\ ResultOfReceived
               /\ ReadyWaits /\ StartedWaits /\ ChanSent /\ RunningCounts
               /\ CallsCounted /\ Joined
IInv == TypeOK /\ Bookkeeping

(* Steps is finite, and so is whatever the scheduler counts.                  *)
LEMMA StepsFinite == IsFiniteSet(Steps)
BY FS_Interval, ExecutorAssumption DEF Steps

LEMMA OpenDepsFinite ==
  ASSUME TypeOK, NEW s \in Steps PROVE IsFiniteSet(OpenDeps(s))
<1>1. depends[s] \in Seq(Steps \cup {Unknown})
  BY DEF TypeOK
<1>2. DOMAIN depends[s] = 1..Len(depends[s]) /\ Len(depends[s]) \in Nat
  BY <1>1
<1>3. IsFiniteSet(DOMAIN depends[s])
  BY <1>2, FS_Interval
<1> QED BY <1>3, FS_Subset DEF OpenDeps

LEMMA BusyFinite == IsFiniteSet(Busy)
BY StepsFinite, FS_Subset DEF Busy

LEMMA CountedFinite == TypeOK => IsFiniteSet(Counted)
<1> HAVE TypeOK
<1>1. Counted \subseteq Steps
  BY DEF Counted, TypeOK
<1> QED BY <1>1, StepsFinite, FS_Subset

(* Ordered(S) lists elements of S, each once.                                 *)
LEMMA OrderedLists ==
  ASSUME NEW S \in SUBSET Steps, NEW q \in Ordered(S)
  PROVE /\ q \in Seq(Steps)
        /\ \A i \in DOMAIN q : q[i] \in S
        /\ \A i, j \in DOMAIN q : q[i] = q[j] => i = j
<1>1. Cardinality(S) \in Nat
  BY StepsFinite, FS_Subset, FS_CardinalityType
<1>2. q \in [1..Cardinality(S) -> S] /\ \A i, j \in DOMAIN q : i < j => q[i] < q[j]
  BY DEF Ordered
<1>3. \A i \in DOMAIN q : q[i] \in S /\ q[i] \in Int /\ i \in Int
  <2>1. DOMAIN q = 1..Cardinality(S) /\ \A i \in DOMAIN q : q[i] \in S
    BY <1>2
  <2>2. \A x \in S : x \in Int
    BY ExecutorAssumption DEF Steps
  <2> QED BY <1>1, <2>1, <2>2
<1>4. q \in Seq(Steps)
  BY <1>1, <1>2
<1>5. \A i, j \in DOMAIN q : q[i] = q[j] => i = j
  <2> SUFFICES ASSUME NEW i \in DOMAIN q, NEW j \in DOMAIN q, q[i] = q[j], i # j
               PROVE FALSE
    OBVIOUS
  <2>1. i < j \/ j < i
    BY <1>3
  <2>2. q[i] < q[j] \/ q[j] < q[i]
    BY <1>2, <2>1
  <2> QED BY <1>3, <2>2
<1> QED BY <1>3, <1>4, <1>5

LEMMA InitInv == Init => IInv
<1> SUFFICES ASSUME Init PROVE IInv
  OBVIOUS
<1>1. depends \in [Steps -> Seq(Steps \cup {Unknown})]
  <2>1. ASSUME NEW q \in DependsLists PROVE q \in Seq(Steps \cup {Unknown})
    <3>1. PICK k \in 0..MaxDepends : q \in [1..k -> Steps \cup {Unknown}]
      BY <2>1 DEF DependsLists
    <3>2. k \in Nat
      BY ExecutorAssumption
    <3> QED BY <3>1, <3>2
  <2> QED BY <2>1 DEF Init
<1>2. TypeOK
  <2>1. inDeg \in [Steps -> Nat]
    BY <1>1 DEF Init
  <2>2. ready \in Seq(Steps) /\ chan \in Seq(Messages)
    BY DEF Init
  <2>3. running \in 0..MaxConcurrent
    BY ExecutorAssumption DEF Init
  <2>4. result \in [Steps -> Statuses]
    BY DEF Init, Statuses
  <2>5. worker \in [Steps -> {"none", "running", "sent", "received"}]
    BY DEF Init
  <2> QED BY <1>1, <2>1, <2>2, <2>3, <2>4, <2>5 DEF Init, TypeOK
<1>3. Busy = {} /\ Counted = {}
  BY DEF Init, Busy, Counted
<1>4. RunningCounts /\ CallsCounted
  BY <1>3, FS_EmptySet DEF Init, RunningCounts, CallsCounted
<1>5. Untouched /\ WellFormed /\ DegCounts /\ ResultOfReceived /\ StartedWaits /\ Joined
  BY DEF Init, Accepted, Untouched, WellFormed, DegCounts, ResultOfReceived, 
         StartedWaits, Joined
<1>6. ReadyWaits /\ ChanSent
  BY DEF Init, ReadyWaits, ChanSent
<1> QED BY <1>2, <1>4, <1>5, <1>6 DEF IInv, Bookkeeping

(* The steps of the scheduler that only move it on.                           *)
LEMMA MoveOn ==
  ASSUME IInv, phase' # "proposed", phase' # "rejected", Accepted,
         phase' \in {"fill", "select", "done"}, phase' = "done" => running = 0,
         status' # "none" => phase' = "done",
         status' \in {"none", "completed", "failed", "canceled"},
         ctxDone' \in BOOLEAN,
         UNCHANGED <<graphVars, workVars, result, firstErr, planCalls>>
  PROVE  IInv'
<1> USE DEF graphVars, workVars
<1>1. TypeOK'
  BY DEF IInv, TypeOK
<1>2. Untouched' /\ WellFormed' /\ DegCounts' /\ Joined'
  BY DEF IInv, Bookkeeping, Accepted, Untouched, WellFormed, WellFormedDepends,
     
         DegCounts, OpenDeps, Joined
<1>3. ResultOfReceived' /\ ReadyWaits' /\ StartedWaits' /\ ChanSent'
  BY DEF IInv, Bookkeeping, ResultOfReceived, ReadyWaits, StartedWaits,
     ChanSent
<1>4. RunningCounts' /\ CallsCounted'
  BY DEF IInv, Bookkeeping, RunningCounts, Busy, CallsCounted, Counted
<1> QED BY <1>1, <1>2, <1>3, <1>4 DEF IInv, Bookkeeping

LEMMA ValidateInv == IInv /\ Validate => IInv'
<1> SUFFICES ASSUME IInv, Validate PROVE IInv'
  OBVIOUS
<1> USE DEF workVars
<1>1. CASE ~ValidPlan
  <2>1. phase' = "rejected" /\ UNCHANGED <<ready, depends, inDeg, running, worker,
           chan, called, result, firstErr, ctxDone, planCalls, status>>
    BY <1>1 DEF Validate
  <2>2. TypeOK'
    BY <2>1 DEF IInv, TypeOK
  <2>3. Untouched' /\ WellFormed' /\ DegCounts' /\ Joined'
    BY <2>1 DEF IInv, Bookkeeping, Validate, Accepted, Untouched, WellFormed,
       DegCounts, Joined
  <2>4. ResultOfReceived' /\ ReadyWaits' /\ StartedWaits' /\ ChanSent'
    BY <2>1 DEF IInv, Bookkeeping, ResultOfReceived, ReadyWaits, StartedWaits,
       ChanSent
  <2>5. RunningCounts' /\ CallsCounted'
    BY <2>1 DEF IInv, Bookkeeping, RunningCounts, Busy, CallsCounted, Counted
  <2> QED BY <2>2, <2>3, <2>4, <2>5 DEF IInv, Bookkeeping
<1>2. CASE ValidPlan
  <2> DEFINE Unblocked == {s \in Steps : inDeg[s] = 0}
  <2>1. /\ phase' = "fill" /\ ready' \in Ordered(Unblocked)
        /\ UNCHANGED <<depends, inDeg, running, worker, chan, called, result,
                       firstErr, ctxDone, planCalls, status>>
    BY <1>2 DEF Validate
  <2>2. /\ ready' \in Seq(Steps)
        /\ \A i \in DOMAIN ready' : ready'[i] \in Unblocked
        /\ \A i, j \in DOMAIN ready' : ready'[i] = ready'[j] => i = j
    BY <2>1, OrderedLists
  <2>3. TypeOK'
    BY <2>1, <2>2 DEF IInv, TypeOK
  <2>4. /\ worker = [s \in Steps |-> "none"] /\ chan = <<>>
        /\ inDeg = [s \in Steps |-> Len(depends[s])]
    BY DEF IInv, Bookkeeping, Validate, Accepted, Untouched
  <2>5. \A s \in Steps : inDeg[s] = Cardinality(OpenDeps(s))
    <3> TAKE s \in Steps
    <3>1. depends[s] \in Seq(Steps \cup {Unknown}) /\ IsInjective(depends[s])
          /\ \A i \in DOMAIN depends[s] : depends[s][i] \in Steps
      BY <1>2 DEF IInv, TypeOK, ValidPlan, WellFormedDepends
    <3>2. \A i \in DOMAIN depends[s] : result[depends[s][i]] = "skipped"
      BY <2>4, <3>1 DEF IInv, Bookkeeping, ResultOfReceived
    <3>3. OpenDeps(s) = 1..Len(depends[s])
      BY <3>1, <3>2 DEF OpenDeps
    <3>4. Cardinality(1..Len(depends[s])) = Len(depends[s])
      BY <3>1, FS_Interval
    <3> QED BY <2>4, <3>3, <3>4
  <2>6. Untouched' /\ WellFormed' /\ DegCounts' /\ Joined'
    <3>1. Untouched'
      BY <2>1 DEF Untouched, Accepted
    <3>2. WellFormed'
      BY <1>2, <2>1 DEF WellFormed, ValidPlan, WellFormedDepends
    <3>3. DegCounts'
      BY <2>1, <2>5 DEF DegCounts, OpenDeps
    <3>4. Joined'
      BY <2>1 DEF IInv, Bookkeeping, Joined, Validate
    <3> QED BY <3>1, <3>2, <3>3, <3>4
  <2>7. ReadyWaits'
    BY <2>1, <2>2, <2>4 DEF ReadyWaits
  <2>8. ResultOfReceived' /\ StartedWaits' /\ ChanSent'
    BY <2>1 DEF IInv, Bookkeeping, ResultOfReceived, StartedWaits, ChanSent
  <2>9. RunningCounts' /\ CallsCounted'
    BY <2>1 DEF IInv, Bookkeeping, RunningCounts, Busy, CallsCounted, Counted
  <2> QED BY <2>3, <2>6, <2>7, <2>8, <2>9 DEF IInv, Bookkeeping
<1> QED BY <1>1, <1>2

LEMMA StartInv == IInv /\ StartWorker => IInv'
<1> SUFFICES ASSUME IInv, StartWorker PROVE IInv'
  OBVIOUS
<1> DEFINE s == Head(ready)
<1>1. /\ ready \in Seq(Steps) /\ ready # <<>> /\ running < MaxConcurrent
      /\ running \in 0..MaxConcurrent /\ Accepted
  BY DEF IInv, TypeOK, StartWorker, MayStart, RoomForWorker, Accepted
<1>2. /\ s \in Steps /\ s = ready[1] /\ 1 \in DOMAIN ready
      /\ Tail(ready) \in Seq(Steps)
      /\ \A i \in DOMAIN Tail(ready) : i + 1 \in DOMAIN ready /\ Tail(ready)[i] = ready[i + 1]
  BY <1>1
<1>3. worker[s] = "none" /\ inDeg[s] = 0
  BY <1>2 DEF IInv, Bookkeeping, ReadyWaits
<1>4. /\ worker' = [worker EXCEPT ![s] = "running"] /\ ready' = Tail(ready)
      /\ running' = running + 1
      /\ UNCHANGED <<depends, inDeg, phase, chan, called, result, firstErr, ctxDone,
                     planCalls, status>>
  BY DEF StartWorker
<1>5. TypeOK'
  BY <1>1, <1>2, <1>4, ExecutorAssumption DEF IInv, TypeOK
<1>6. Untouched' /\ WellFormed' /\ DegCounts' /\ Joined'
  <2>1. phase' # "done"
    BY <1>4 DEF StartWorker
  <2> QED BY <1>1, <1>4, <2>1 DEF IInv, Bookkeeping, Accepted, Untouched,
     WellFormed, 
                 WellFormedDepends, DegCounts, OpenDeps, Joined
<1>7. worker \in [Steps -> {"none", "running", "sent", "received"}]
  BY DEF IInv, TypeOK
<1>8. ResultOfReceived' /\ StartedWaits'
  BY <1>2, <1>3, <1>4, <1>7 DEF IInv, Bookkeeping, ResultOfReceived,
     StartedWaits
<1>9. ReadyWaits'
  <2> SUFFICES ASSUME NEW i \in DOMAIN ready'
               PROVE  /\ worker'[ready'[i]] = "none" /\ inDeg'[ready'[i]] = 0
                      /\ \A j \in DOMAIN ready' : ready'[i] = ready'[j] => i = j
    BY DEF ReadyWaits
  <2>1. i + 1 \in DOMAIN ready /\ ready'[i] = ready[i + 1] /\ i \in Nat /\ i >= 1
    BY <1>2, <1>4
  <2>2. ready[i + 1] # s
    BY <1>2, <2>1 DEF IInv, Bookkeeping, ReadyWaits
  <2>3. worker'[ready'[i]] = "none" /\ inDeg'[ready'[i]] = 0
    BY <1>4, <1>7, <2>1, <2>2 DEF IInv, Bookkeeping, ReadyWaits
  <2>4. ASSUME NEW j \in DOMAIN ready', ready'[i] = ready'[j] PROVE i = j
    <3>1. j + 1 \in DOMAIN ready /\ ready'[j] = ready[j + 1] /\ j \in Nat
      BY <1>2, <1>4
    <3>2. i + 1 = j + 1
      BY <2>1, <2>4, <3>1 DEF IInv, Bookkeeping, ReadyWaits
    <3> QED BY <2>1, <3>1, <3>2
  <2> QED BY <2>3, <2>4
<1>10. ChanSent'
  BY <1>3, <1>4, <1>7 DEF IInv, Bookkeeping, ChanSent
<1>11. RunningCounts'
  <2>1. s \notin Busy /\ Busy' = Busy \cup {s}
    BY <1>2, <1>3, <1>4, <1>7 DEF Busy
  <2>2. Cardinality(Busy') = Cardinality(Busy) + 1
    BY <2>1, BusyFinite, FS_AddElement
  <2> QED BY <1>4, <2>2 DEF IInv, Bookkeeping, RunningCounts
<1>12. CallsCounted'
  <2>1. s \notin called /\ called' = called
    BY <1>3, <1>4 DEF IInv, Bookkeeping, CallsCounted
  <2>2. Counted' = Counted
    BY <1>3, <1>4, <1>7, <2>1 DEF IInv, TypeOK, Counted
  <2>3. \A x \in called' : worker'[x] \in {"sent", "received"}
    BY <1>4, <1>7, <2>1 DEF IInv, TypeOK, Bookkeeping, CallsCounted
  <2> QED BY <1>4, <2>2, <2>3 DEF IInv, Bookkeeping, CallsCounted
<1> QED BY <1>5, <1>6, <1>8, <1>9, <1>10, <1>11, <1>12 DEF IInv, Bookkeeping

(* Append adds one element behind the ones that were there. *)
LEMMA AppendKeeps ==
  ASSUME NEW S, NEW q \in Seq(S), NEW e \in S
  PROVE  /\ Append(q, e) \in Seq(S) /\ Len(Append(q, e)) = Len(q) + 1
         /\ \A i \in DOMAIN Append(q, e) :
               \/ i \in DOMAIN q /\ Append(q, e)[i] = q[i]
               \/ i = Len(q) + 1 /\ Append(q, e)[i] = e
OBVIOUS

LEMMA WorkInv == ASSUME IInv, NEW s \in Steps, Work(s) PROVE IInv'
<1>1. worker[s] = "running"
  BY DEF Work
<1>2. PICK res \in Results, c \in BOOLEAN : SendResult(s, res, c)
  BY DEF Work
<1> DEFINE m == [step |-> s, res |-> res, called |-> c]
<1>3. /\ chan' = Append(chan, m) /\ worker' = [worker EXCEPT ![s] = "sent"]
      /\ called' = IF c THEN called \cup {s} ELSE called
      /\ UNCHANGED <<depends, inDeg, ready, phase, running, result, firstErr,
                     ctxDone, planCalls, status>>
  BY <1>2 DEF Work, SendResult, graphVars
<1>4. m \in Messages
  BY DEF Messages
<1>5. /\ worker \in [Steps -> {"none", "running", "sent", "received"}]
      /\ chan \in Seq(Messages) /\ called \subseteq Steps
  BY DEF IInv, TypeOK
<1>6. /\ chan' \in Seq(Messages) /\ Len(chan') = Len(chan) + 1
      /\ \A i \in DOMAIN chan' :
            \/ i \in DOMAIN chan /\ chan'[i] = chan[i]
            \/ i = Len(chan) + 1 /\ chan'[i] = m
  <2>1. chan' = Append(chan, m)
    BY <1>3
  <2> HIDE DEF m
  <2> QED BY <1>4, <1>5, <2>1, AppendKeeps
<1>7. TypeOK'
  BY <1>3, <1>5, <1>6 DEF IInv, TypeOK
<1>8. Accepted
  BY <1>1 DEF IInv, Bookkeeping, Untouched
<1>9. Untouched' /\ WellFormed' /\ DegCounts' /\ Joined'
  BY <1>3, <1>8 DEF IInv, Bookkeeping, Accepted, Untouched, WellFormed, 
         WellFormedDepends, DegCounts, OpenDeps, Joined
<1>10. ResultOfReceived' /\ StartedWaits' /\ ReadyWaits'
  BY <1>1, <1>3, <1>5 DEF IInv, TypeOK, Bookkeeping, ResultOfReceived,
     StartedWaits, ReadyWaits
<1>11. ChanSent'
  <2>1. \A i \in DOMAIN chan : chan[i].step # s /\ chan[i].step \in Steps
    <3> TAKE i \in DOMAIN chan
    <3>1. chan[i] \in Messages
      BY <1>5
    <3>2. chan[i].step \in Steps
      BY <3>1 DEF Messages
    <3>3. worker[chan[i].step] = "sent"
      BY DEF IInv, Bookkeeping, ChanSent
    <3> QED BY <1>1, <3>2, <3>3
  <2>2. s \notin called
    BY <1>1 DEF IInv, Bookkeeping, CallsCounted
  <2>3. m.step = s /\ m.called = c
    OBVIOUS
  <2> SUFFICES ASSUME NEW i \in DOMAIN chan'
               PROVE  /\ worker'[chan'[i].step] = "sent"
                      /\ chan'[i].called <=> chan'[i].step \in called'
                      /\ \A j \in DOMAIN chan' : chan'[i].step = chan'[j].step => i = j
    BY DEF ChanSent
  <2>4. worker'[chan'[i].step] = "sent"
    BY <1>3, <1>5, <1>6, <2>1, <2>3 DEF IInv, Bookkeeping, ChanSent
  <2>5. chan'[i].called <=> chan'[i].step \in called'
    <3>1. CASE i \in DOMAIN chan /\ chan'[i] = chan[i]
      BY <1>3, <2>1, <3>1 DEF IInv, Bookkeeping, ChanSent
    <3>2. CASE chan'[i] = m
      BY <1>3, <2>2, <2>3, <3>2
    <3> QED BY <1>6, <3>1, <3>2
  <2>6. \A j \in DOMAIN chan' : chan'[i].step = chan'[j].step => i = j
    BY <1>6, <2>1, <2>3 DEF IInv, Bookkeeping, ChanSent
  <2> QED BY <2>4, <2>5, <2>6
<1>12. RunningCounts'
  <2>1. Busy' = Busy
    BY <1>1, <1>3, <1>5 DEF Busy
  <2> QED BY <1>3, <2>1 DEF IInv, Bookkeeping, RunningCounts
<1>13. CallsCounted'
  <2>1. Counted' = Counted
    BY <1>1, <1>3, <1>5 DEF Counted
  <2>2. \A x \in called' : worker'[x] \in {"sent", "received"}
    BY <1>3, <1>5 DEF IInv, Bookkeeping, CallsCounted
  <2> QED BY <1>3, <2>1, <2>2 DEF IInv, Bookkeeping, CallsCounted
<1> QED BY <1>7, <1>9, <1>10, <1>11, <1>12, <1>13 DEF IInv, Bookkeeping

(* A success closes one dependency of each dependent; anything else none.     *)
LEMMA ReceivedDeps ==
  ASSUME IInv, Accepted, NEW d \in Steps, worker[d] # "received", NEW s \in Steps,
         NEW st \in Statuses, result' = [result EXCEPT ![d] = st], UNCHANGED depends
  PROVE  /\ st # "succeeded" \/ s \notin Dependents(d) => OpenDeps(s)' = OpenDeps(s)
         /\ st = "succeeded" /\ s \in Dependents(d) =>
              /\ Cardinality(OpenDeps(s)') = Cardinality(OpenDeps(s)) - 1
              /\ Cardinality(OpenDeps(s)') \in Nat
<1>1. /\ depends[s] \in Seq(Steps \cup {Unknown}) /\ IsInjective(depends[s])
      /\ \A i \in DOMAIN depends[s] : depends[s][i] \in Steps
  BY DEF IInv, TypeOK, Bookkeeping, WellFormed, WellFormedDepends
<1>2. result \in [Steps -> Statuses] /\ result[d] = "skipped"
  BY DEF IInv, TypeOK, Bookkeeping, ResultOfReceived
<1>3. ASSUME st # "succeeded" \/ s \notin Dependents(d) PROVE OpenDeps(s)' = OpenDeps(s)
  <2>1. \A i \in DOMAIN depends[s] :
          result'[depends[s][i]] = "succeeded" <=> result[depends[s][i]] = "succeeded"
    BY <1>1, <1>2, <1>3 DEF Dependents, Range
  <2> QED BY <2>1 DEF OpenDeps
<1>4. ASSUME st = "succeeded", s \in Dependents(d)
      PROVE  /\ Cardinality(OpenDeps(s)') = Cardinality(OpenDeps(s)) - 1
             /\ Cardinality(OpenDeps(s)') \in Nat
  <2>1. PICK k \in DOMAIN depends[s] : depends[s][k] = d
    BY <1>4 DEF Dependents, Range
  <2>2. \A i \in DOMAIN depends[s] : depends[s][i] = d => i = k
    BY <1>1, <2>1 DEF IsInjective
  <2>3. k \in OpenDeps(s) /\ OpenDeps(s)' = OpenDeps(s) \ {k}
    BY <1>1, <1>2, <1>4, <2>1, <2>2 DEF OpenDeps
  <2>4. IsFiniteSet(OpenDeps(s))
    BY OpenDepsFinite DEF IInv
  <2>5. IsFiniteSet(OpenDeps(s)') /\ Cardinality(OpenDeps(s)') = Cardinality(OpenDeps(s)) - 1
    BY <2>3, <2>4, FS_RemoveElement
  <2> QED BY <2>5, FS_CardinalityType
<1> QED BY <1>3, <1>4

LEMMA ReceiveInv == IInv /\ Receive => IInv'
<1> SUFFICES ASSUME IInv, Receive PROVE IInv'
  OBVIOUS
<1> DEFINE r == Head(chan)
           d == r.step
           Fresh == {s \in Dependents(d) : inDeg[s] = 1}
<1>1. /\ chan \in Seq(Messages) /\ chan # <<>> /\ phase = "select"
      /\ worker \in [Steps -> {"none", "running", "sent", "received"}]
      /\ inDeg \in [Steps -> Nat] /\ running \in 0..MaxConcurrent
      /\ called \subseteq Steps /\ planCalls \in Nat /\ ready \in Seq(Steps)
      /\ result \in [Steps -> Statuses]
  BY DEF IInv, TypeOK, Receive
<1>2. /\ r \in Messages /\ r = chan[1] /\ 1 \in DOMAIN chan
      /\ Tail(chan) \in Seq(Messages)
      /\ \A i \in DOMAIN Tail(chan) : i + 1 \in DOMAIN chan /\ Tail(chan)[i] = chan[i + 1]
  BY <1>1
<1>3. /\ d \in Steps /\ r.res \in Results /\ r.called \in BOOLEAN /\ Accepted
      /\ StatusOf(r.res) \in Statuses \ {"skipped"}
      /\ r.res = "ok" <=> StatusOf(r.res) = "succeeded"
  BY <1>1, <1>2 DEF Messages, Accepted, StatusOf, Statuses, Results
<1>4. worker[d] = "sent" /\ (r.called <=> d \in called)
  BY <1>2 DEF IInv, Bookkeeping, ChanSent
<1>5. /\ chan' = Tail(chan) /\ running' = running - 1
      /\ worker' = [worker EXCEPT ![d] = "received"]
      /\ planCalls' = planCalls + (IF r.called THEN 1 ELSE 0)
      /\ result' = [result EXCEPT ![d] = StatusOf(r.res)]
      /\ firstErr' \in BOOLEAN /\ phase' = "fill"
      /\ UNCHANGED <<depends, called, ctxDone, status>>
  BY DEF Receive, Accumulated, IInv, TypeOK
<1>6. \/ /\ r.res = "ok"
         /\ inDeg' = [s \in Steps |-> inDeg[s] - (IF s \in Dependents(d) THEN 1 ELSE 0)]
         /\ \E q \in Ordered(Fresh) : ready' = ready \o q
      \/ r.res # "ok" /\ UNCHANGED <<inDeg, ready>>
  BY DEF Receive, Releases
<1>7. \A s \in Steps : inDeg[s] = Cardinality(OpenDeps(s))
  BY <1>3 DEF IInv, Bookkeeping, DegCounts
<1>8. \A s \in Steps : inDeg'[s] = Cardinality(OpenDeps(s)') /\ inDeg'[s] \in Nat
  <2> TAKE s \in Steps
  <2>1. CASE r.res = "ok" /\ s \in Dependents(d)
    <3>1. /\ Cardinality(OpenDeps(s)') = Cardinality(OpenDeps(s)) - 1
          /\ Cardinality(OpenDeps(s)') \in Nat
      BY <1>3, <1>4, <1>5, <2>1, ReceivedDeps
    <3> QED BY <1>6, <1>7, <2>1, <3>1
  <2>2. CASE r.res # "ok" \/ s \notin Dependents(d)
    <3>1. OpenDeps(s)' = OpenDeps(s)
      BY <1>3, <1>4, <1>5, <2>2, ReceivedDeps
    <3>2. inDeg'[s] = inDeg[s]
      BY <1>1, <1>6, <2>2
    <3> QED BY <1>1, <1>7, <3>1, <3>2
  <2> QED BY <2>1, <2>2
<1>9. inDeg' \in [Steps -> Nat]
  <2>1. inDeg' = [s \in Steps |-> inDeg'[s]]
    BY <1>1, <1>6
  <2> QED BY <1>8, <2>1
<1>10. \A s \in Steps : inDeg[s] = 0 => inDeg'[s] = 0
  <2> TAKE s \in Steps
  <2>1. inDeg'[s] = inDeg[s] \/ inDeg'[s] = inDeg[s] - 1
    BY <1>1, <1>6
  <2> QED BY <1>1, <1>8, <2>1
<1>11. /\ ready' \in Seq(Steps)
       /\ \A i \in DOMAIN ready' : worker[ready'[i]] = "none" /\ inDeg'[ready'[i]] = 0
       /\ \A i, j \in DOMAIN ready' : ready'[i] = ready'[j] => i = j
  <2>1. \A i \in DOMAIN ready : /\ worker[ready[i]] = "none" /\ inDeg[ready[i]] = 0
                                /\ \A j \in DOMAIN ready : ready[i] = ready[j] => i = j
    BY DEF IInv, Bookkeeping, ReadyWaits
  <2>2. CASE UNCHANGED <<inDeg, ready>>
    BY <1>1, <2>1, <2>2
  <2>3. CASE /\ inDeg' = [s \in Steps |-> inDeg[s] - (IF s \in Dependents(d) THEN 1 ELSE 0)]
             /\ \E q \in Ordered(Fresh) : ready' = ready \o q
    <3>1. PICK q \in Ordered(Fresh) : ready' = ready \o q
      BY <2>3
    <3>2. /\ q \in Seq(Steps) /\ \A i \in DOMAIN q : q[i] \in Fresh
          /\ \A i, j \in DOMAIN q : q[i] = q[j] => i = j
      <4>1. Fresh \in SUBSET Steps
        BY DEF Dependents
      <4> HIDE DEF Fresh
      <4> QED BY <4>1, OrderedLists
    <3>3. \A s \in Fresh : s \in Steps /\ worker[s] = "none" /\ inDeg[s] = 1 /\ inDeg'[s] = 0
      BY <1>1, <2>3 DEF Dependents, IInv, Bookkeeping, StartedWaits
    <3>4. /\ ready' \in Seq(Steps) /\ Len(ready') = Len(ready) + Len(q)
          /\ \A i \in DOMAIN ready' :
               \/ i \in DOMAIN ready /\ ready'[i] = ready[i]
               \/ /\ i > Len(ready) /\ i - Len(ready) \in DOMAIN q
                  /\ ready'[i] = q[i - Len(ready)]
      BY <1>1, <3>1, <3>2
    <3>5. \A i \in DOMAIN ready' : worker[ready'[i]] = "none" /\ inDeg'[ready'[i]] = 0
      <4> TAKE i \in DOMAIN ready'
      <4>1. CASE i \in DOMAIN ready /\ ready'[i] = ready[i]
        <5>1. ready[i] \in Steps
          BY <1>1, <4>1
        <5> QED BY <1>10, <2>1, <4>1, <5>1
      <4>2. CASE i - Len(ready) \in DOMAIN q /\ ready'[i] = q[i - Len(ready)]
        <5>1. ready'[i] \in Fresh
          BY <3>2, <4>2
        <5> HIDE DEF Fresh
        <5> QED BY <3>3, <5>1
      <4> QED BY <3>4, <4>1, <4>2
    <3>6. ASSUME NEW i \in DOMAIN ready', NEW j \in DOMAIN ready', ready'[i] = ready'[j]
          PROVE  i = j
      <4>1. i \in Nat /\ j \in Nat /\ Len(ready) \in Nat
        BY <1>1, <3>4
      <4>2. CASE i \in DOMAIN ready /\ ready'[i] = ready[i]
        <5>1. inDeg[ready'[i]] = 0
          BY <2>1, <4>2
        <5>2. j \in DOMAIN ready /\ ready'[j] = ready[j]
          BY <3>2, <3>3, <3>4, <3>6, <5>1
        <5> QED BY <2>1, <3>6, <4>2, <5>2
      <4>3. CASE /\ i > Len(ready) /\ i - Len(ready) \in DOMAIN q
                 /\ ready'[i] = q[i - Len(ready)]
        <5>1. inDeg[ready'[i]] = 1
          BY <3>2, <3>3, <4>3
        <5>2. /\ j > Len(ready) /\ j - Len(ready) \in DOMAIN q
              /\ ready'[j] = q[j - Len(ready)]
          BY <2>1, <3>4, <3>6, <5>1
        <5>3. i - Len(ready) = j - Len(ready)
          BY <3>2, <3>6, <4>3, <5>2
        <5> QED BY <4>1, <5>3
      <4> QED BY <3>4, <4>2, <4>3
    <3> QED BY <3>4, <3>5, <3>6
  <2> QED BY <1>6, <2>2, <2>3
<1>12. ReadyWaits'
  BY <1>1, <1>4, <1>5, <1>11 DEF ReadyWaits
<1>13. Busy' = Busy \ {d} /\ d \in Busy
  BY <1>1, <1>3, <1>4, <1>5 DEF Busy
<1>14. Cardinality(Busy') = Cardinality(Busy) - 1 /\ Cardinality(Busy') \in Nat
  BY <1>13, BusyFinite, FS_RemoveElement, FS_CardinalityType
<1>15. RunningCounts' /\ running' \in 0..MaxConcurrent
  BY <1>1, <1>5, <1>14, ExecutorAssumption DEF IInv, Bookkeeping, RunningCounts
<1>16. TypeOK'
  <2>1. /\ depends' \in [Steps -> Seq(Steps \cup {Unknown})] /\ ctxDone' \in BOOLEAN
        /\ called' \subseteq Steps /\ status' \in {"none", "completed", "failed", "canceled"}
    BY <1>5 DEF IInv, TypeOK
  <2>2. chan' \in Seq(Messages)
    BY <1>2, <1>5
  <2>3. worker' \in [Steps -> {"none", "running", "sent", "received"}]
    BY <1>1, <1>5
  <2>4. result' \in [Steps -> Statuses]
    BY <1>1, <1>3, <1>5
  <2>5. planCalls' \in Nat
    BY <1>1, <1>5
  <2> QED BY <1>5, <1>9, <1>11, <1>15, <2>1, <2>2, <2>3, <2>4, <2>5 DEF TypeOK
<1>17. Untouched' /\ WellFormed' /\ DegCounts' /\ Joined'
  BY <1>1, <1>3, <1>5, <1>8 DEF IInv, Bookkeeping, Accepted, Untouched,
     WellFormed, 
         WellFormedDepends, DegCounts, Joined
<1>18. ResultOfReceived' /\ StartedWaits'
  BY <1>1, <1>3, <1>4, <1>5, <1>10 DEF IInv, Bookkeeping, ResultOfReceived,
     StartedWaits
<1>19. ChanSent'
  <2> SUFFICES ASSUME NEW i \in DOMAIN chan'
               PROVE  /\ worker'[chan'[i].step] = "sent"
                      /\ chan'[i].called <=> chan'[i].step \in called'
                      /\ \A j \in DOMAIN chan' : chan'[i].step = chan'[j].step => i = j
    BY DEF ChanSent
  <2>1. i + 1 \in DOMAIN chan /\ chan'[i] = chan[i + 1] /\ i \in Nat /\ i >= 1
    BY <1>2, <1>5
  <2>2. chan[i + 1].step # d /\ chan[i + 1].step \in Steps
    <3>1. chan[i + 1] \in Messages /\ r.step = chan[1].step
      BY <1>1, <1>2, <2>1
    <3>2. i + 1 # 1
      BY <2>1
    <3> HIDE DEF r
    <3> QED BY <1>2, <2>1, <3>1, <3>2 DEF IInv, Bookkeeping, ChanSent, Messages
  <2>3. /\ worker'[chan'[i].step] = "sent"
        /\ chan'[i].called <=> chan'[i].step \in called'
    BY <1>1, <1>5, <2>1, <2>2 DEF IInv, Bookkeeping, ChanSent
  <2>4. ASSUME NEW j \in DOMAIN chan', chan'[i].step = chan'[j].step PROVE i = j
    <3>1. j + 1 \in DOMAIN chan /\ chan'[j] = chan[j + 1] /\ j \in Nat
      BY <1>2, <1>5
    <3>2. i + 1 = j + 1
      BY <2>1, <2>4, <3>1 DEF IInv, Bookkeeping, ChanSent
    <3> QED BY <2>1, <3>1, <3>2
  <2> QED BY <2>3, <2>4
<1>20. CallsCounted'
  <2>1. \A x \in called' : worker'[x] \in {"sent", "received"}
    BY <1>1, <1>5 DEF IInv, Bookkeeping, CallsCounted
  <2>2. d \notin Counted
    BY <1>4 DEF Counted
  <2>3. IsFiniteSet(Counted)
    BY CountedFinite DEF IInv
  <2>4. CASE r.called
    <3>1. Counted' = Counted \cup {d}
      BY <1>1, <1>3, <1>4, <1>5, <2>4 DEF Counted
    <3>2. Cardinality(Counted') = Cardinality(Counted) + 1
      BY <2>2, <2>3, <3>1, FS_AddElement
    <3> QED BY <1>5, <2>1, <2>4, <3>2 DEF IInv, Bookkeeping, CallsCounted
  <2>5. CASE ~r.called
    <3>1. Counted' = Counted
      BY <1>1, <1>3, <1>4, <1>5, <2>5 DEF Counted
    <3> QED BY <1>1, <1>5, <2>1, <2>5, <3>1 DEF IInv, Bookkeeping, CallsCounted
  <2> QED BY <2>4, <2>5
<1> QED BY <1>12, <1>15, <1>16, <1>17, <1>18, <1>19, <1>20 DEF IInv,
   Bookkeeping

LEMMA StepInv == IInv /\ [Next]_vars => IInv'
<1> SUFFICES ASSUME IInv, [Next]_vars PROVE IInv'
  OBVIOUS
<1>1. CASE Validate
  BY <1>1, ValidateInv
<1>2. CASE StartWorker
  BY <1>2, StartInv
<1>3. CASE Await \/ Spin \/ CancelTurn
  <2>1. /\ Accepted /\ phase' \in {"fill", "select"} /\ phase # "done"
        /\ status' = status /\ ctxDone' \in BOOLEAN
        /\ UNCHANGED <<graphVars, workVars, result, firstErr, planCalls>>
    BY <1>3 DEF Await, Spin, CancelTurn, Accepted, IInv, TypeOK
  <2>2. status = "none"
    BY <2>1 DEF IInv, Bookkeeping, Joined
  <2> QED BY <2>1, <2>2, MoveOn
<1>4. CASE Return
  <2>1. /\ Accepted /\ phase' = "done" /\ running = 0 /\ ctxDone' \in BOOLEAN
        /\ status' \in {"completed", "failed", "canceled"}
        /\ UNCHANGED <<graphVars, workVars, result, firstErr, planCalls>>
    BY <1>4 DEF Return, Accepted, Outcome, IInv, TypeOK
  <2> QED BY <2>1, MoveOn
<1>5. CASE Receive
  BY <1>5, ReceiveInv
<1>6. ASSUME NEW s \in Steps, Work(s) PROVE IInv'
  BY <1>6, WorkInv
<1>7. CASE UNCHANGED vars
  <2> USE <1>7 DEF vars, graphVars, workVars
  <2>1. TypeOK'
    BY DEF IInv, TypeOK
  <2>2. Untouched' /\ WellFormed' /\ DegCounts' /\ Joined'
    BY DEF IInv, Bookkeeping, Accepted, Untouched, WellFormed,
       WellFormedDepends, 
           DegCounts, OpenDeps, Joined
  <2>3. ResultOfReceived' /\ ReadyWaits' /\ StartedWaits' /\ ChanSent'
    BY DEF IInv, Bookkeeping, ResultOfReceived, ReadyWaits, StartedWaits,
       ChanSent
  <2>4. RunningCounts' /\ CallsCounted'
    BY DEF IInv, Bookkeeping, RunningCounts, Busy, CallsCounted, Counted
  <2> QED BY <2>1, <2>2, <2>3, <2>4 DEF IInv, Bookkeeping
<1> QED BY <1>1, <1>2, <1>3, <1>4, <1>5, <1>6, <1>7 DEF Next

(* ---- induction, without an operator for the predicate ----------------------- *)
LEMMA SetInduction ==
  ASSUME NEW S, 0 \in S, \A n \in Nat : n \in S => n + 1 \in S
  PROVE  Nat \subseteq S
<1> SUFFICES ASSUME NEW m \in Nat, m \notin S PROVE FALSE
  OBVIOUS
<1> DEFINE T == {i \in 0..m : i \in S}
           f == [i \in T |-> i + 1]
<1>1. IsFiniteSet(T) /\ 0 \in T
  <2>1. T \in SUBSET (0..m) /\ IsFiniteSet(0..m)
    BY FS_Interval
  <2> QED BY <2>1, FS_Subset
<1>2. f \in Injection(T, T \ {0})
  <2>1. ASSUME NEW i \in T PROVE i + 1 \in T \ {0}
    OBVIOUS
  <2>2. \A i, j \in T : f[i] = f[j] => i = j
    OBVIOUS
  <2>3. f \in [T -> T \ {0}]
    BY <2>1
  <2> HIDE DEF f, T
  <2> QED BY <2>2, <2>3 DEF Injection, IsInjective
<1>3. IsFiniteSet(T \ {0}) /\ Cardinality(T \ {0}) = Cardinality(T) - 1 /\ Cardinality(T) \in Nat
  BY <1>1, FS_RemoveElement, FS_CardinalityType
<1> HIDE DEF f, T
<1>4. Cardinality(T) <= Cardinality(T \ {0})
  BY <1>2, <1>3, FS_Injection
<1> QED BY <1>3, <1>4

(* A function is applied again and again: that is a function, too.            *)
LEMMA Iterates ==
  ASSUME NEW T, NEW x \in T, NEW next \in [T -> T]
  PROVE  \E f \in [Nat -> T] : f[0] = x /\ \A k \in Nat \ {0} : f[k] = next[f[k - 1]]
<1> DEFINE Upto(n) == {g \in [0..n -> T] : g[0] = x /\ \A k \in 1..n : g[k] = next[g[k - 1]]}
           There == {n \in Nat : Upto(n) # {}}
<1>1. Nat \subseteq There
  <2>1. 0 \in There
    <3> DEFINE g == [k \in 0..0 |-> x]
    <3>1. g \in Upto(0)
      OBVIOUS
    <3> QED BY <3>1
  <2>2. ASSUME NEW n \in Nat, n \in There PROVE n + 1 \in There
    <3>1. PICK g : g \in Upto(n)
      BY <2>2
    <3>2. g \in [0..n -> T] /\ g[0] = x /\ \A k \in 1..n : g[k] = next[g[k - 1]]
      BY <3>1
    <3> DEFINE h == [k \in 0..(n + 1) |-> IF k = n + 1 THEN next[g[n]] ELSE g[k]]
    <3>3. h \in [0..(n + 1) -> T]
      <4> SUFFICES ASSUME NEW k \in 0..(n + 1) PROVE h[k] \in T
        OBVIOUS
      <4>1. CASE k = n + 1
        BY <3>2, <4>1
      <4>2. CASE k # n + 1
        <5>1. k \in 0..n
          BY <4>2
        <5> QED BY <3>2, <4>2, <5>1
      <4> QED BY <4>1, <4>2
    <3>4. h[0] = x
      BY <3>2
    <3>5. ASSUME NEW k \in 1..(n + 1) PROVE h[k] = next[h[k - 1]]
      <4>1. k - 1 \in 0..n /\ k - 1 # n + 1 /\ k \in 0..(n + 1) /\ k - 1 \in 0..(n + 1)
        OBVIOUS
      <4>2. h[k - 1] = g[k - 1]
        BY <4>1
      <4>3. CASE k = n + 1
        BY <4>1, <4>2, <4>3
      <4>4. CASE k # n + 1
        <5>1. k \in 1..n
          BY <4>4
        <5> QED BY <3>2, <4>1, <4>2, <4>4, <5>1
      <4> QED BY <4>3, <4>4
    <3> HIDE DEF h
    <3>6. h \in Upto(n + 1)
      BY <3>3, <3>4, <3>5
    <3> QED BY <3>6
  <2> HIDE DEF There
  <2> QED BY <2>1, <2>2, SetInduction
<1>2. ASSUME NEW m \in Nat, NEW n \in Nat, m <= n, NEW g \in Upto(m), NEW h \in Upto(n)
      PROVE  \A k \in 0..m : g[k] = h[k]
  <2> DEFINE Same == {k \in Nat : k <= m => g[k] = h[k]}
  <2>1. /\ g[0] = x /\ h[0] = x
        /\ \A k \in 1..m : g[k] = next[g[k - 1]]
        /\ \A k \in 1..n : h[k] = next[h[k - 1]]
    OBVIOUS
  <2>2. 0 \in Same
    BY <2>1
  <2>3. ASSUME NEW k \in Nat, k \in Same PROVE k + 1 \in Same
    <3> SUFFICES ASSUME k + 1 <= m PROVE g[k + 1] = h[k + 1]
      OBVIOUS
    <3>1. k + 1 \in 1..m /\ k + 1 \in 1..n /\ g[k] = h[k] /\ (k + 1) - 1 = k
      BY <1>2, <2>3
    <3> QED BY <2>1, <3>1
  <2>4. Nat \subseteq Same
    <3> HIDE DEF Same
    <3> QED BY <2>2, <2>3, SetInduction
  <2> QED BY <2>4
<1> DEFINE pick(n) == CHOOSE g : g \in Upto(n)
           f == [n \in Nat |-> pick(n)[n]]
<1>3. \A n \in Nat : pick(n) \in Upto(n)
  BY <1>1
<1>4. f \in [Nat -> T]
  <2> SUFFICES ASSUME NEW n \in Nat PROVE pick(n)[n] \in T
    OBVIOUS
  <2>1. pick(n) \in [0..n -> T] /\ n \in 0..n
    <3>1. n \in 0..n
      OBVIOUS
    <3>2. pick(n) \in Upto(n)
      BY <1>3
    <3> HIDE DEF pick
    <3> QED BY <3>1, <3>2
  <2> HIDE DEF pick
  <2> QED BY <2>1
<1>5. f[0] = x
  BY <1>3
<1>6. ASSUME NEW k \in Nat \ {0} PROVE f[k] = next[f[k - 1]]
  <2>1. k - 1 \in Nat /\ k - 1 <= k /\ k \in 1..k /\ k - 1 \in 0..(k - 1)
    OBVIOUS
  <2>2. pick(k)[k] = next[pick(k)[k - 1]]
    BY <1>3, <2>1
  <2>3. pick(k - 1)[k - 1] = pick(k)[k - 1]
    <3>1. pick(k - 1) \in Upto(k - 1) /\ pick(k) \in Upto(k)
      BY <1>3, <2>1
    <3> HIDE DEF pick, Upto
    <3> QED BY <1>2, <2>1, <3>1
  <2> HIDE DEF pick
  <2> QED BY <2>1, <2>2, <2>3
<1> QED BY <1>4, <1>5, <1>6

(* ---- the lists the loops over Plan.Steps build -------------------------------- *)
LEMMA OrderedExists == \A S \in SUBSET Steps : Ordered(S) # {}
<1> DEFINE Good == {n \in Nat : \A S \in SUBSET (1..n) : Ordered(S) # {}}
<1>1. 0 \in Good
  <2>1. <<>> \in Ordered({})
    BY FS_EmptySet DEF Ordered
  <2>2. \A S \in SUBSET (1..0) : S = {}
    OBVIOUS
  <2> QED BY <2>1, <2>2
<1>2. ASSUME NEW n \in Nat, n \in Good PROVE n + 1 \in Good
  <2> SUFFICES ASSUME NEW S \in SUBSET (1..(n + 1)) PROVE Ordered(S) # {}
    OBVIOUS
  <2>1. CASE n + 1 \notin S
    <3>1. S \in SUBSET (1..n)
      BY <2>1
    <3> QED BY <1>2, <3>1
  <2>2. CASE n + 1 \in S
    <3> DEFINE R == S \ {n + 1}
    <3>1. R \in SUBSET (1..n)
      OBVIOUS
    <3>2. IsFiniteSet(S) /\ Cardinality(R) = Cardinality(S) - 1 /\ Cardinality(R) \in Nat
          /\ Cardinality(S) \in Nat
      <4>1. IsFiniteSet(1..(n + 1))
        BY FS_Interval
      <4>2. IsFiniteSet(S) /\ Cardinality(S) \in Nat
        BY <4>1, FS_Subset, FS_CardinalityType
      <4> QED BY <2>2, <4>2, FS_RemoveElement, FS_CardinalityType
    <3>3. PICK p : p \in Ordered(R)
      BY <1>2, <3>1
    <3> DEFINE c == Cardinality(S)
               q == [i \in 1..c |-> IF i = c THEN n + 1 ELSE p[i]]
    <3>4. p \in [1..(c - 1) -> R] /\ \A i, j \in DOMAIN p : i < j => p[i] < p[j]
      BY <3>2, <3>3 DEF Ordered
    <3>5. c \in Nat
      BY <3>2
    <3> HIDE DEF c
    <3>6. \A i \in 1..c : i # c => i \in DOMAIN p /\ p[i] \in S /\ p[i] < n + 1
      <4> SUFFICES ASSUME NEW i \in 1..c, i # c
                   PROVE i \in DOMAIN p /\ p[i] \in S /\ p[i] < n + 1
        OBVIOUS
      <4>1. i \in 1..(c - 1) /\ p[i] \in R
        BY <3>4, <3>5
      <4>2. p[i] \in 1..n
        BY <3>1, <4>1
      <4> HIDE DEF R
      <4>3. i \in DOMAIN p /\ p[i] < n + 1
        BY <3>4, <4>1, <4>2
      <4> USE DEF R
      <4> QED BY <4>1, <4>3
    <3>7. q \in [1..c -> S]
      BY <2>2, <3>6
    <3>8. ASSUME NEW i \in DOMAIN q, NEW j \in DOMAIN q, i < j PROVE q[i] < q[j]
      <4>1. i \in 1..c /\ j \in 1..c /\ i # c
        BY <3>5, <3>8
      <4>2. CASE j = c
        BY <3>6, <4>1, <4>2
      <4>3. CASE j # c
        BY <3>4, <3>6, <3>8, <4>1, <4>3
      <4> QED BY <4>2, <4>3
    <3>9. q \in Ordered(S)
      <4> HIDE DEF q
      <4> USE DEF c
      <4> QED BY <3>7, <3>8 DEF Ordered
    <3> QED BY <3>9
  <2> QED BY <2>1, <2>2
<1>3. N \in Good
  <2> HIDE DEF Good
  <2> QED BY <1>1, <1>2, SetInduction, ExecutorAssumption
<1> QED BY <1>3 DEF Steps

(* Ordered(S) leaves nothing of S out.                                        *)
LEMMA OrderedCovers ==
  ASSUME NEW S \in SUBSET Steps, NEW q \in Ordered(S), NEW s \in S
  PROVE  \E i \in DOMAIN q : q[i] = s
<1>1. IsFiniteSet(S) /\ Cardinality(S) \in Nat
  BY StepsFinite, FS_Subset, FS_CardinalityType
<1>2. /\ q \in [1..Cardinality(S) -> S]
      /\ \A i, j \in 1..Cardinality(S) : q[i] = q[j] => i = j
  BY OrderedLists DEF Ordered
<1>3. q \in Injection(1..Cardinality(S), S)
  BY <1>2 DEF Injection, IsInjective
<1>4. Cardinality(1..Cardinality(S)) = Cardinality(S)
  BY <1>1, FS_Interval
<1>5. q \in Surjection(1..Cardinality(S), S)
  BY <1>1, <1>3, <1>4, FS_Injection
<1> QED BY <1>2, <1>5 DEF Surjection

LEMMA PlanOrderLists ==
  ASSUME NEW S \in SUBSET Steps
  PROVE  /\ InPlanOrder(S) \in Ordered(S) /\ InPlanOrder(S) \in Seq(Steps)
         /\ \A i \in DOMAIN InPlanOrder(S) : InPlanOrder(S)[i] \in S
         /\ \A i, j \in DOMAIN InPlanOrder(S) : InPlanOrder(S)[i] = InPlanOrder(S)[j] => i = j
         /\ \A s \in S : \E i \in DOMAIN InPlanOrder(S) : InPlanOrder(S)[i] = s
<1>1. InPlanOrder(S) \in Ordered(S)
  BY OrderedExists DEF InPlanOrder
<1> QED BY <1>1, OrderedLists, OrderedCovers

(* ---- ValidatePlan: Kahn's algorithm finds the cycles --------------------------- *)
KahnStates == [queue : Seq(Steps), inDeg : [Steps -> Int], visited : Nat]
Start == [queue |-> InPlanOrder({s \in Steps : depends[s] = <<>>}),
          inDeg |-> [s \in Steps |-> Len(depends[s])], visited |-> 0]
PlanTyped == depends \in [Steps -> Seq(Steps \cup {Unknown})]
PlanFormed == PlanTyped /\ \A s \in Steps : WellFormedDepends(s)

LEMMA PopTyped ==
  ASSUME NEW st \in KahnStates
  PROVE  /\ Pop(st) \in KahnStates
         /\ st.queue = <<>> => Pop(st) = st
         /\ st.queue # <<>> =>
              /\ Head(st.queue) \in Steps
              /\ Pop(st).inDeg = [s \in Steps |->
                   st.inDeg[s] - (IF s \in Dependents(Head(st.queue)) THEN 1 ELSE 0)]
              /\ Pop(st).queue = Tail(st.queue) \o
                   InPlanOrder({s \in Dependents(Head(st.queue)) : Pop(st).inDeg[s] = 0})
              /\ Pop(st).visited = st.visited + 1
<1>1. st.queue \in Seq(Steps) /\ st.inDeg \in [Steps -> Int] /\ st.visited \in Nat
  BY DEF KahnStates
<1>2. CASE st.queue = <<>>
  BY <1>2 DEF Pop
<1>3. CASE st.queue # <<>>
  <2> DEFINE d == Head(st.queue)
             degs == [s \in Steps |-> st.inDeg[s] - (IF s \in Dependents(d) THEN 1 ELSE 0)]
             fresh == InPlanOrder({s \in Dependents(d) : degs[s] = 0})
  <2>1. Pop(st) = [queue |-> Tail(st.queue) \o fresh, inDeg |-> degs, visited |-> st.visited + 1]
    BY <1>3 DEF Pop
  <2>2. d \in Steps /\ Tail(st.queue) \in Seq(Steps)
    BY <1>1, <1>3
  <2>3. degs \in [Steps -> Int]
    BY <1>1
  <2>4. fresh \in Seq(Steps)
    <3>1. {s \in Dependents(d) : degs[s] = 0} \in SUBSET Steps
      BY DEF Dependents
    <3> QED BY <3>1, PlanOrderLists
  <2>5. /\ Pop(st).queue = Tail(st.queue) \o fresh /\ Pop(st).inDeg = degs
        /\ Pop(st).visited = st.visited + 1
    BY <2>1
  <2>6. Pop(st) \in KahnStates
    <3> HIDE DEF degs, fresh, d
    <3>1. Tail(st.queue) \o fresh \in Seq(Steps) /\ st.visited + 1 \in Nat
      BY <1>1, <2>2, <2>4
    <3> QED BY <2>1, <2>3, <3>1 DEF KahnStates
  <2> QED BY <1>3, <2>2, <2>5, <2>6
<1> QED BY <1>2, <1>3

LEMMA KahnUnfolds ==
  ASSUME PlanTyped
  PROVE  /\ Kahn[0] = Start /\ \A k \in Nat : Kahn[k] \in KahnStates
         /\ \A k \in Nat : Kahn[k + 1] = Pop(Kahn[k])
<1> DEFINE next == [st \in KahnStates |-> Pop(st)]
<1>1. Start \in KahnStates
  <2>1. [s \in Steps |-> Len(depends[s])] \in [Steps -> Int]
    BY DEF PlanTyped
  <2>2. InPlanOrder({s \in Steps : depends[s] = <<>>}) \in Seq(Steps)
    BY PlanOrderLists
  <2> QED BY <2>1, <2>2 DEF Start, KahnStates
<1>2. next \in [KahnStates -> KahnStates]
  BY PopTyped
<1>3. PICK f \in [Nat -> KahnStates] :
        f[0] = Start /\ \A k \in Nat \ {0} : f[k] = next[f[k - 1]]
  <2> HIDE DEF next
  <2> QED BY <1>1, <1>2, Iterates
<1>4. \A k \in Nat \ {0} : f[k] = Pop(f[k - 1])
  <2> TAKE k \in Nat \ {0}
  <2>1. k - 1 \in Nat
    OBVIOUS
  <2> QED BY <1>3, <2>1
<1>5. f = [k \in Nat |-> IF k = 0 THEN Start ELSE Pop(f[k - 1])]
  BY <1>3, <1>4
<1>6. Kahn = [k \in Nat |-> IF k = 0 THEN Start ELSE Pop(Kahn[k - 1])]
  BY <1>5 DEF Kahn, Start
<1>7. Kahn[0] = Start
  BY <1>6
<1>8. \A k \in Nat : Kahn[k + 1] = Pop(Kahn[k])
  <2> TAKE k \in Nat
  <2>1. k + 1 \in Nat /\ k + 1 # 0 /\ (k + 1) - 1 = k
    OBVIOUS
  <2> QED BY <1>6, <2>1
<1>9. \A k \in Nat : Kahn[k] \in KahnStates
  <2> DEFINE Typed == {k \in Nat : Kahn[k] \in KahnStates}
  <2>1. 0 \in Typed /\ \A k \in Nat : k \in Typed => k + 1 \in Typed
    <3>1. 0 \in Typed
      BY <1>1, <1>7
    <3>2. ASSUME NEW k \in Nat, Kahn[k] \in KahnStates PROVE Kahn[k + 1] \in KahnStates
      BY <1>8, <3>2, PopTyped
    <3> QED BY <3>1, <3>2
  <2> HIDE DEF Typed
  <2>2. Nat \subseteq Typed
    BY <2>1, SetInduction
  <2> USE DEF Typed
  <2> QED BY <2>2
<1> QED BY <1>7, <1>8, <1>9

(* D has been popped; what of Depends is left, what waits in the queue.       *)
Unmet(s, D) == {i \in DOMAIN depends[s] : depends[s][i] \notin D}
Queued(st, s) == \E i \in DOMAIN st.queue : st.queue[i] = s
KahnInv(st, k, D) ==
  /\ st \in KahnStates /\ D \in SUBSET Steps
  /\ \A i \in DOMAIN st.queue : st.queue[i] \notin D
  /\ \A i, j \in DOMAIN st.queue : st.queue[i] = st.queue[j] => i = j
  /\ \A s \in Steps : st.inDeg[s] = Cardinality(Unmet(s, D))
  /\ \A s \in Steps : st.inDeg[s] = 0 <=> s \in D \/ Queued(st, s)
  /\ st.visited = Cardinality(D)
  /\ st.queue # <<>> => st.visited = k
  /\ \A S \in SUBSET Steps : WaitsForItself(S) => D \cap S = {}

LEMMA UnmetFinite ==
  ASSUME PlanFormed, NEW s \in Steps, NEW D
  PROVE  /\ IsFiniteSet(Unmet(s, D)) /\ Cardinality(Unmet(s, D)) \in Nat
         /\ Cardinality(Unmet(s, D)) = 0 <=> \A i \in DOMAIN depends[s] : depends[s][i] \in D
<1>1. DOMAIN depends[s] = 1..Len(depends[s]) /\ Len(depends[s]) \in Nat
  BY DEF PlanFormed, PlanTyped
<1>2. IsFiniteSet(DOMAIN depends[s]) /\ Unmet(s, D) \in SUBSET DOMAIN depends[s]
  BY <1>1, FS_Interval DEF Unmet
<1>3. IsFiniteSet(Unmet(s, D)) /\ Cardinality(Unmet(s, D)) \in Nat
  BY <1>2, FS_Subset, FS_CardinalityType
<1>4. Cardinality(Unmet(s, D)) = 0 <=> Unmet(s, D) = {}
  BY <1>3, FS_EmptySet
<1> QED BY <1>3, <1>4 DEF Unmet

LEMMA KahnStarts == ASSUME PlanFormed PROVE KahnInv(Kahn[0], 0, {})
<1> DEFINE Unblocked == {s \in Steps : depends[s] = <<>>}
<1>1. /\ Kahn[0] = Start /\ Kahn[0] \in KahnStates
      /\ Start.queue = InPlanOrder(Unblocked) /\ Start.visited = 0
      /\ Start.inDeg = [s \in Steps |-> Len(depends[s])]
  BY KahnUnfolds DEF Start, PlanFormed
<1>2. /\ \A i \in DOMAIN Start.queue : Start.queue[i] \in Unblocked
      /\ \A i, j \in DOMAIN Start.queue : Start.queue[i] = Start.queue[j] => i = j
      /\ \A s \in Unblocked : Queued(Start, s)
  <2>1. Unblocked \in SUBSET Steps
    OBVIOUS
  <2> HIDE DEF Unblocked
  <2> QED BY <1>1, <2>1, PlanOrderLists DEF Queued
<1>3. ASSUME NEW s \in Steps
      PROVE  /\ Start.inDeg[s] = Cardinality(Unmet(s, {}))
             /\ Start.inDeg[s] = 0 <=> Queued(Start, s)
  <2>1. depends[s] \in Seq(Steps \cup {Unknown})
    BY DEF PlanFormed, PlanTyped
  <2>2. Unmet(s, {}) = 1..Len(depends[s]) /\ Len(depends[s]) \in Nat
    BY <2>1 DEF Unmet
  <2>3. Cardinality(Unmet(s, {})) = Len(depends[s])
    <3>1. \A n \in Nat : Cardinality(1..n) = n
      BY FS_Interval
    <3> QED BY <2>2, <3>1
  <2>4. Len(depends[s]) = 0 <=> depends[s] = <<>>
    BY <2>1
  <2>5. Queued(Start, s) => s \in Unblocked
    BY <1>2 DEF Queued
  <2> QED BY <1>1, <1>2, <2>3, <2>4, <2>5
<1>4. Cardinality({}) = 0
  BY FS_EmptySet
<1> HIDE DEF Unblocked
<1> QED BY <1>1, <1>2, <1>3, <1>4 DEF KahnInv

(* Another step is popped: it closes one dependency of each dependent.        *)
LEMMA UnmetPopped ==
  ASSUME PlanFormed, NEW s \in Steps, NEW D \in SUBSET Steps, NEW d \in Steps, d \notin D
  PROVE  /\ s \notin Dependents(d) => Unmet(s, D \cup {d}) = Unmet(s, D)
         /\ s \in Dependents(d) =>
              Cardinality(Unmet(s, D \cup {d})) = Cardinality(Unmet(s, D)) - 1
<1>1. s \notin Dependents(d) => Unmet(s, D \cup {d}) = Unmet(s, D)
  BY DEF Unmet, Dependents, Range
<1>2. ASSUME s \in Dependents(d)
      PROVE  Cardinality(Unmet(s, D \cup {d})) = Cardinality(Unmet(s, D)) - 1
  <2>1. PICK k \in DOMAIN depends[s] : depends[s][k] = d
    BY <1>2 DEF Dependents, Range
  <2>2. \A i \in DOMAIN depends[s] : depends[s][i] = d => i = k
    BY <2>1 DEF PlanFormed, WellFormedDepends, IsInjective
  <2>3. k \in Unmet(s, D) /\ Unmet(s, D \cup {d}) = Unmet(s, D) \ {k}
    BY <2>1, <2>2 DEF Unmet
  <2>4. IsFiniteSet(Unmet(s, D))
    BY UnmetFinite
  <2>5. Cardinality(Unmet(s, D) \ {k}) = Cardinality(Unmet(s, D)) - 1
    BY <2>3, <2>4, FS_RemoveElement
  <2> QED BY <2>3, <2>5
<1> QED BY <1>1, <1>2

LEMMA KahnPops ==
  ASSUME PlanFormed, NEW st, NEW k \in Nat, NEW D, KahnInv(st, k, D), st.queue # <<>>
  PROVE  KahnInv(Pop(st), k + 1, D \cup {Head(st.queue)})
<1> DEFINE d == Head(st.queue)
           E == D \cup {d}
           new == Pop(st)
           Fresh == {s \in Dependents(d) : new.inDeg[s] = 0}
           fresh == InPlanOrder(Fresh)
           rest == Tail(st.queue)
<1>1. /\ st \in KahnStates /\ new \in KahnStates /\ d \in Steps /\ D \in SUBSET Steps
      /\ new.inDeg = [s \in Steps |-> st.inDeg[s] - (IF s \in Dependents(d) THEN 1 ELSE 0)]
      /\ new.queue = rest \o fresh /\ new.visited = st.visited + 1
  BY PopTyped DEF KahnInv
<1>2. /\ st.queue \in Seq(Steps) /\ st.inDeg \in [Steps -> Int] /\ st.visited \in Nat
  BY <1>1 DEF KahnStates
<1>3. /\ d = st.queue[1] /\ 1 \in DOMAIN st.queue /\ rest \in Seq(Steps)
      /\ \A i \in DOMAIN rest : i + 1 \in DOMAIN st.queue /\ rest[i] = st.queue[i + 1]
      /\ \A i \in DOMAIN st.queue : i # 1 => i - 1 \in DOMAIN rest /\ rest[i - 1] = st.queue[i]
  BY <1>2
<1>4. d \notin D /\ E \in SUBSET Steps
  BY <1>1, <1>3 DEF KahnInv
<1>5. \A s \in Steps : st.inDeg[s] = Cardinality(Unmet(s, D)) /\ Cardinality(Unmet(s, D)) \in Nat
  BY UnmetFinite DEF KahnInv
<1>6. \A s \in Steps : /\ new.inDeg[s] = Cardinality(Unmet(s, E))
                       /\ s \notin Dependents(d) => new.inDeg[s] = st.inDeg[s]
                       /\ s \in Dependents(d) => new.inDeg[s] = st.inDeg[s] - 1
  <2> TAKE s \in Steps
  <2>1. /\ s \notin Dependents(d) => Cardinality(Unmet(s, E)) = Cardinality(Unmet(s, D))
        /\ s \in Dependents(d) => Cardinality(Unmet(s, E)) = Cardinality(Unmet(s, D)) - 1
    BY <1>1, <1>4, UnmetPopped
  <2>2. new.inDeg[s] = st.inDeg[s] - (IF s \in Dependents(d) THEN 1 ELSE 0)
    BY <1>1
  <2>3. st.inDeg[s] \in Int /\ st.inDeg[s] = Cardinality(Unmet(s, D))
    BY <1>2, <1>5
  <2> HIDE DEF new, E, d
  <2> QED BY <2>1, <2>2, <2>3
<1>7. \A s \in Steps : new.inDeg[s] \in Nat
  BY <1>4, <1>6, UnmetFinite
<1>8. /\ fresh \in Seq(Steps) /\ \A i \in DOMAIN fresh : fresh[i] \in Fresh
      /\ \A i, j \in DOMAIN fresh : fresh[i] = fresh[j] => i = j
      /\ \A s \in Fresh : \E i \in DOMAIN fresh : fresh[i] = s
  <2>1. Fresh \in SUBSET Steps
    BY DEF Dependents
  <2> HIDE DEF Fresh
  <2> QED BY <2>1, PlanOrderLists
<1>9. \A s \in Fresh : s \in Steps /\ s \in Dependents(d) /\ st.inDeg[s] = 1 /\ new.inDeg[s] = 0
  <2> TAKE s \in Fresh
  <2>1. s \in Steps /\ s \in Dependents(d) /\ new.inDeg[s] = 0
    BY DEF Dependents
  <2>2. st.inDeg[s] \in Int /\ new.inDeg[s] = st.inDeg[s] - 1
    BY <1>2, <1>6, <2>1
  <2> HIDE DEF new
  <2> QED BY <2>1, <2>2
<1>10. \A s \in Steps : st.inDeg[s] = 0 <=> s \in D \/ Queued(st, s)
  BY DEF KahnInv
<1>11. /\ DOMAIN new.queue \subseteq Nat
       /\ \A i \in DOMAIN new.queue :
            \/ i \in DOMAIN rest /\ new.queue[i] = rest[i]
            \/ i > Len(rest) /\ i - Len(rest) \in DOMAIN fresh /\ new.queue[i] = fresh[i - Len(rest)]
       /\ \A i \in DOMAIN rest : i \in DOMAIN new.queue /\ new.queue[i] = rest[i]
       /\ \A i \in DOMAIN fresh : /\ i + Len(rest) \in DOMAIN new.queue
                                  /\ new.queue[i + Len(rest)] = fresh[i]
  <2>1. rest \in Seq(Steps) /\ fresh \in Seq(Steps) /\ new.queue = rest \o fresh
    BY <1>1, <1>3, <1>8
  <2> HIDE DEF rest, fresh, new
  <2> QED BY <2>1
<1>12. \A i \in DOMAIN rest : rest[i] \in Steps /\ rest[i] # d /\ rest[i] \notin D
                              /\ st.inDeg[rest[i]] = 0
  <2> TAKE i \in DOMAIN rest
  <2>1. i + 1 \in DOMAIN st.queue /\ rest[i] = st.queue[i + 1] /\ i \in Nat /\ i # 0
        /\ rest[i] \in Steps
    BY <1>3
  <2>2. rest[i] # d
    <3>1. i + 1 # 1
      BY <2>1
    <3> HIDE DEF rest, d
    <3> QED BY <1>3, <2>1, <3>1 DEF KahnInv
  <2>3. Queued(st, rest[i])
    BY <2>1 DEF Queued
  <2>4. rest[i] \notin D
    BY <2>1 DEF KahnInv
  <2> QED BY <1>10, <2>1, <2>2, <2>3, <2>4
<1>13. \A s \in D : s \in Steps /\ s \notin Fresh
  BY <1>1, <1>9, <1>10
<1>14. st.inDeg[d] = 0 /\ d \notin Fresh
  <2>1. Queued(st, d)
    BY <1>3 DEF Queued
  <2>2. st.inDeg[d] = 0
    BY <1>1, <1>10, <2>1
  <2> HIDE DEF Fresh
  <2> QED BY <1>9, <2>2
<1>15. \A s \in Steps : st.inDeg[s] = 0 => new.inDeg[s] = 0
  <2> TAKE s \in Steps
  <2>1. new.inDeg[s] \in Nat /\ new.inDeg[s] \in {st.inDeg[s], st.inDeg[s] - 1}
    BY <1>6, <1>7
  <2> HIDE DEF new
  <2> QED BY <2>1
<1>16. \A i \in DOMAIN new.queue : new.queue[i] \notin E
  <2> TAKE i \in DOMAIN new.queue
  <2>1. CASE i \in DOMAIN rest /\ new.queue[i] = rest[i]
    BY <1>12, <2>1
  <2>2. CASE i - Len(rest) \in DOMAIN fresh /\ new.queue[i] = fresh[i - Len(rest)]
    <3>1. new.queue[i] \in Fresh
      BY <1>8, <2>2
    <3> HIDE DEF Fresh
    <3> QED BY <1>13, <1>14, <3>1
  <2> HIDE DEF new, rest, fresh, E
  <2> QED BY <1>11, <2>1, <2>2
<1>17. ASSUME NEW i \in DOMAIN new.queue, NEW j \in DOMAIN new.queue, new.queue[i] = new.queue[j]
       PROVE  i = j
  <2> DEFINE Old(x) == x \in DOMAIN rest /\ new.queue[x] = rest[x]
             New(x) == x - Len(rest) \in DOMAIN fresh /\ new.queue[x] = fresh[x - Len(rest)]
  <2>1. \A x \in DOMAIN new.queue : (Old(x) \/ New(x)) /\ x \in Nat
    BY <1>11
  <2>2. \A x, y \in DOMAIN new.queue : Old(x) /\ New(y) => new.queue[x] # new.queue[y]
    <3> TAKE x, y \in DOMAIN new.queue
    <3> HAVE Old(x) /\ New(y)
    <3>1. st.inDeg[new.queue[x]] = 0
      BY <1>12
    <3>2. new.queue[y] \in Fresh
      BY <1>8
    <3> HIDE DEF Fresh, Old, New, new
    <3> QED BY <1>9, <3>1, <3>2
  <2>3. CASE Old(i) /\ Old(j)
    <3>1. /\ i + 1 \in DOMAIN st.queue /\ j + 1 \in DOMAIN st.queue
          /\ st.queue[i + 1] = st.queue[j + 1]
      BY <1>3, <1>17, <2>3
    <3>2. i + 1 = j + 1
      BY <3>1 DEF KahnInv
    <3>3. i \in Nat /\ j \in Nat
      BY <2>1
    <3> QED BY <3>2, <3>3
  <2>4. CASE New(i) /\ New(j)
    <3>1. i - Len(rest) = j - Len(rest)
      BY <1>8, <1>17, <2>4
    <3>2. Len(rest) \in Nat
      BY <1>3
    <3> HIDE DEF rest, new, fresh
    <3> QED BY <2>1, <3>1, <3>2
  <2> HIDE DEF Old, New
  <2> QED BY <1>17, <2>1, <2>2, <2>3, <2>4
<1>18. ASSUME NEW s \in Steps PROVE new.inDeg[s] = 0 <=> s \in E \/ Queued(new, s)
  <2>1. ASSUME new.inDeg[s] = 0, s \notin E PROVE Queued(new, s)
    <3>1. CASE st.inDeg[s] = 0
      <4>1. PICK i \in DOMAIN st.queue : st.queue[i] = s
        BY <1>10, <2>1, <3>1 DEF Queued
      <4>2. i # 1
        BY <1>3, <2>1, <4>1
      <4> HIDE DEF rest, new
      <4> QED BY <1>3, <1>11, <4>1, <4>2 DEF Queued
    <3>2. CASE st.inDeg[s] # 0
      <4>1. s \in Dependents(d)
        BY <1>6, <2>1, <3>2
      <4>2. PICK i \in DOMAIN fresh : fresh[i] = s
        BY <1>8, <2>1, <4>1
      <4> HIDE DEF fresh, new, rest
      <4> QED BY <1>11, <4>2 DEF Queued
    <3> QED BY <3>1, <3>2
  <2>2. ASSUME s \in E PROVE new.inDeg[s] = 0
    <3>1. st.inDeg[s] = 0
      BY <1>10, <1>14, <2>2
    <3> QED BY <1>15, <3>1
  <2>3. ASSUME Queued(new, s) PROVE new.inDeg[s] = 0
    <3>1. PICK i \in DOMAIN new.queue : new.queue[i] = s
      BY <2>3 DEF Queued
    <3>2. CASE i \in DOMAIN rest /\ new.queue[i] = rest[i]
      BY <1>12, <1>15, <3>1, <3>2
    <3>3. CASE i - Len(rest) \in DOMAIN fresh /\ new.queue[i] = fresh[i - Len(rest)]
      <4>1. s \in Fresh
        BY <1>8, <3>1, <3>3
      <4> QED BY <1>9, <4>1
    <3> HIDE DEF new, rest, fresh
    <3> QED BY <1>11, <3>2, <3>3
  <2> QED BY <2>1, <2>2, <2>3
<1>19. new.visited = Cardinality(E)
  <2>1. IsFiniteSet(D) /\ st.visited = Cardinality(D)
    BY <1>1, StepsFinite, FS_Subset DEF KahnInv
  <2>2. Cardinality(E) = Cardinality(D) + 1
    BY <1>4, <2>1, FS_AddElement
  <2> HIDE DEF new, E
  <2> QED BY <1>1, <2>1, <2>2
<1>20. new.visited = k + 1
  BY <1>1 DEF KahnInv
<1>21. ASSUME NEW S \in SUBSET Steps, WaitsForItself(S) PROVE E \cap S = {}
  <2>1. D \cap S = {}
    BY <1>21 DEF KahnInv
  <2>2. \A i \in DOMAIN depends[d] : depends[d][i] \in D
    BY <1>1, <1>5, <1>14, UnmetFinite
  <2>3. d \notin S
    BY <1>21, <2>1, <2>2 DEF WaitsForItself, Range
  <2> QED BY <2>1, <2>3
<1>22. KahnInv(new, k + 1, E)
  <2> HIDE DEF new, E
  <2> QED BY <1>1, <1>4, <1>6, <1>16, <1>17, <1>18, <1>19, <1>20,
     <1>21 DEF KahnInv
<1> QED BY <1>22

(* rules 6 and 7 accept exactly the plans in which nothing waits for itself.  *)
LEMMA KahnFindsCycles ==
  ASSUME PlanFormed
  PROVE  NoCycle <=> ~\E S \in SUBSET Steps : WaitsForItself(S)
<1> DEFINE Sound == {k \in Nat : \E D : KahnInv(Kahn[k], k, D)}
<1>1. 0 \in Sound
  BY KahnStarts
<1>2. ASSUME NEW k \in Nat, k \in Sound PROVE k + 1 \in Sound
  <2>1. PICK D : KahnInv(Kahn[k], k, D)
    BY <1>2
  <2>2. Kahn[k + 1] = Pop(Kahn[k])
    BY KahnUnfolds DEF PlanFormed
  <2>3. CASE Kahn[k].queue # <<>>
    <3>1. KahnInv(Pop(Kahn[k]), k + 1, D \cup {Head(Kahn[k].queue)})
      BY <2>1, <2>3, KahnPops
    <3> QED BY <2>2, <3>1
  <2>4. CASE Kahn[k].queue = <<>>
    <3>1. Pop(Kahn[k]) = Kahn[k]
      BY <2>1, <2>4, PopTyped DEF KahnInv
    <3>2. KahnInv(Kahn[k], k + 1, D)
      BY <2>1, <2>4 DEF KahnInv
    <3> QED BY <2>2, <3>1, <3>2
  <2> QED BY <2>3, <2>4
<1>3. N \in Sound
  <2> HIDE DEF Sound
  <2> QED BY <1>1, <1>2, SetInduction, ExecutorAssumption
<1>4. PICK D : KahnInv(Kahn[N], N, D)
  BY <1>3
<1>5. D \in SUBSET Steps /\ Kahn[N].visited = Cardinality(D)
  BY <1>4 DEF KahnInv
<1>6. Cardinality(Steps) = N
  BY FS_Interval, ExecutorAssumption DEF Steps
<1>7. ASSUME NoCycle, NEW S \in SUBSET Steps, WaitsForItself(S) PROVE FALSE
  <2>1. D = Steps
    BY <1>5, <1>6, <1>7, StepsFinite, FS_Subset DEF NoCycle
  <2> QED BY <1>4, <1>7, <2>1 DEF KahnInv, WaitsForItself
<1>8. ASSUME ~NoCycle PROVE WaitsForItself(Steps \ D)
  <2>1. D # Steps /\ Steps \ D # {}
    BY <1>5, <1>6, <1>8 DEF NoCycle
  <2>2. Kahn[N].queue = <<>>
    BY <1>4, <1>8 DEF KahnInv, NoCycle
  <2>3. ASSUME NEW s \in Steps \ D PROVE Range(depends[s]) \cap (Steps \ D) # {}
    <3>1. ~Queued(Kahn[N], s)
      BY <2>2 DEF Queued
    <3>2. Cardinality(Unmet(s, D)) # 0
      BY <1>4, <3>1 DEF KahnInv
    <3>3. PICK i \in DOMAIN depends[s] : depends[s][i] \notin D
      BY <3>2, UnmetFinite
    <3>4. depends[s][i] \in Steps
      BY DEF PlanFormed, WellFormedDepends
    <3> QED BY <3>3, <3>4 DEF Range
  <2> QED BY <2>1, <2>3 DEF WaitsForItself
<1> QED BY <1>7, <1>8

(* ---- what a completed plan has behind it ---------------------------------------- *)
(* A step that waits for nobody has been started or is in the ready slice; an  *)
(* error leaves its mark, and a step cancelled has a reason.                  *)
ReadyAll ==
  Accepted => \A s \in Steps : worker[s] = "none" /\ inDeg[s] = 0 =>
                                 \E i \in DOMAIN ready : ready[i] = s
Reasons == firstErr \/ ctxDone \/ StepDeadlines
ErrorsNoted ==
  /\ \A s \in Steps : /\ result[s] = "failed" => firstErr
                      /\ result[s] = "canceled" => Reasons
  /\ \A i \in DOMAIN chan : chan[i].res = "ctx" => Reasons
CompletedQuiet == status = "completed" => ~firstErr /\ ~ctxDone /\ ready = <<>>
Rest == OnlyExecutable /\ ReadyAll /\ ErrorsNoted /\ CompletedQuiet

LEMMA InitRest == Init => Rest
BY DEF Init, Rest, OnlyExecutable, ReadyAll, Accepted, ErrorsNoted,
   CompletedQuiet, Statuses

LEMMA ValidateRest == ASSUME IInv, Rest, Validate PROVE Rest'
<1>1. /\ phase = "proposed" /\ PlanTyped /\ status = "none"
      /\ UNCHANGED <<depends, inDeg, worker, chan, result, firstErr, ctxDone, status>>
  BY DEF Validate, workVars, PlanTyped, IInv, TypeOK, Bookkeeping, Joined
<1>2. ValidPlan <=> /\ \A s \in Steps : WellFormedDepends(s)
                    /\ ~\E S \in SUBSET Steps : WaitsForItself(S)
  BY <1>1, KahnFindsCycles DEF ValidPlan, PlanFormed
<1>3. phase' \in {"fill", "rejected"} /\ (phase' = "fill" <=> ValidPlan)
  BY DEF Validate
<1>4. OnlyExecutable'
  BY <1>1, <1>2, <1>3 DEF OnlyExecutable, WellFormedDepends, WaitsForItself
<1>5. ReadyAll'
  <2> SUFFICES ASSUME phase' = "fill", NEW s \in Steps, inDeg[s] = 0
               PROVE  \E i \in DOMAIN ready' : ready'[i] = s
    BY <1>1, <1>3 DEF ReadyAll, Accepted
  <2> DEFINE Unblocked == {r \in Steps : inDeg[r] = 0}
  <2>1. ready' \in Ordered(Unblocked) /\ s \in Unblocked /\ Unblocked \in SUBSET Steps
    BY <1>3 DEF Validate
  <2> HIDE DEF Unblocked
  <2> QED BY <2>1, OrderedCovers
<1>6. ErrorsNoted' /\ CompletedQuiet'
  BY <1>1 DEF Rest, ErrorsNoted, Reasons, CompletedQuiet
<1> QED BY <1>4, <1>5, <1>6 DEF Rest

(* The graph and the verdict on it do not change any more.                    *)
LEMMA StillExecutable ==
  ASSUME Rest, Accepted, phase' \in {"fill", "select", "done"}, UNCHANGED depends
  PROVE  OnlyExecutable'
BY DEF Rest, Accepted, OnlyExecutable, WellFormedDepends, WaitsForItself

LEMMA StartRest == ASSUME IInv, Rest, StartWorker PROVE Rest'
<1>1. /\ Accepted /\ phase' = "fill" /\ ready \in Seq(Steps) /\ ready # <<>>
      /\ worker' = [worker EXCEPT ![Head(ready)] = "running"] /\ ready' = Tail(ready)
      /\ worker \in [Steps -> {"none", "running", "sent", "received"}]
      /\ UNCHANGED <<depends, inDeg, chan, result, firstErr, ctxDone, status>>
  BY DEF StartWorker, MayStart, Accepted, IInv, TypeOK
<1>2. OnlyExecutable'
  BY <1>1, StillExecutable
<1>3. ReadyAll'
  <2> SUFFICES ASSUME NEW s \in Steps, worker'[s] = "none", inDeg[s] = 0
               PROVE  \E i \in DOMAIN ready' : ready'[i] = s
    BY <1>1 DEF ReadyAll
  <2>1. s # Head(ready) /\ worker[s] = "none"
    BY <1>1
  <2>2. PICK i \in DOMAIN ready : ready[i] = s
    BY <1>1, <2>1 DEF Rest, ReadyAll
  <2>3. i - 1 \in DOMAIN Tail(ready) /\ Tail(ready)[i - 1] = s
    BY <1>1, <2>1, <2>2
  <2> QED BY <1>1, <2>3
<1>4. ErrorsNoted' /\ CompletedQuiet'
  <2>1. status # "completed"
    BY <1>1 DEF StartWorker, IInv, Bookkeeping, Joined
  <2> QED BY <1>1, <2>1 DEF Rest, ErrorsNoted, Reasons, CompletedQuiet
<1> QED BY <1>2, <1>3, <1>4 DEF Rest

LEMMA WorkRest == ASSUME IInv, Rest, NEW s \in Steps, Work(s) PROVE Rest'
<1>1. PICK res \in Results, c \in BOOLEAN : /\ res = "ctx" => planCancelled \/ StepDeadlines
                                            /\ SendResult(s, res, c)
  BY DEF Work
<1> DEFINE m == [step |-> s, res |-> res, called |-> c]
<1>2. /\ chan' = Append(chan, m) /\ worker' = [worker EXCEPT ![s] = "sent"]
      /\ UNCHANGED <<depends, inDeg, ready, phase, result, firstErr, ctxDone, status>>
  BY <1>1 DEF Work, SendResult, graphVars
<1>3. /\ worker \in [Steps -> {"none", "running", "sent", "received"}]
      /\ chan \in Seq(Messages) /\ Accepted /\ m \in Messages
      /\ phase \in {"fill", "select", "done"}
  BY DEF Work, IInv, TypeOK, Bookkeeping, Untouched, Messages, Accepted
<1>4. OnlyExecutable' /\ ReadyAll' /\ CompletedQuiet'
  BY <1>2, <1>3, StillExecutable DEF Rest, ReadyAll, Accepted, CompletedQuiet
<1>5. ErrorsNoted'
  <2>1. Reasons' <=> Reasons
    BY <1>2 DEF Reasons
  <2>2. ASSUME NEW i \in DOMAIN chan', chan'[i].res = "ctx" PROVE Reasons
    <3>1. \/ i \in DOMAIN chan /\ chan'[i] = chan[i]
          \/ chan'[i] = m
      <4> HIDE DEF m
      <4> QED BY <1>2, <1>3, AppendKeeps
    <3>2. res = "ctx" => Reasons
      BY <1>1 DEF planCancelled, Reasons
    <3> QED BY <2>2, <3>1, <3>2 DEF Rest, ErrorsNoted
  <2> QED BY <1>2, <2>1, <2>2 DEF Rest, ErrorsNoted
<1> QED BY <1>4, <1>5 DEF Rest

(* What the invariant says of the properties the runs check.                  *)
LEMMA InvImpliesOrder == IInv => DepsSucceeded
<1> SUFFICES ASSUME IInv, NEW s \in Steps, worker[s] # "none",
                    NEW i \in DOMAIN depends[s]
             PROVE  result[depends[s][i]] = "succeeded"
  BY DEF DepsSucceeded
<1>1. Accepted
  BY DEF IInv, Bookkeeping, Untouched
<1>2. Cardinality(OpenDeps(s)) = 0
  BY <1>1 DEF IInv, Bookkeeping, DegCounts, StartedWaits
<1>3. OpenDeps(s) = {}
  BY <1>2, OpenDepsFinite, FS_EmptySet DEF IInv
<1> QED BY <1>3 DEF OpenDeps

LEMMA InvImpliesJoined == IInv => AllJoined
<1> SUFFICES ASSUME IInv, status # "none" PROVE AllJoined
  BY DEF AllJoined
<1>1. Cardinality(Busy) = 0
  BY DEF IInv, Bookkeeping, Joined, RunningCounts
<1>2. Busy = {}
  BY <1>1, BusyFinite, FS_EmptySet
<1>3. \A s \in Steps : worker[s] \in {"none", "received"}
  BY <1>2 DEF Busy, IInv, TypeOK
<1>4. Counted = called
  BY <1>3 DEF Counted, IInv, TypeOK, Bookkeeping, CallsCounted
<1> QED BY <1>3, <1>4 DEF AllJoined, IInv, Bookkeeping, CallsCounted

LEMMA ReceiveRest == ASSUME IInv, Rest, Receive PROVE Rest'
<1> DEFINE r == Head(chan)
           d == r.step
           Fresh == {s \in Dependents(d) : inDeg[s] = 1}
<1>1. /\ chan \in Seq(Messages) /\ chan # <<>> /\ Accepted /\ phase' = "fill"
      /\ worker \in [Steps -> {"none", "running", "sent", "received"}]
      /\ inDeg \in [Steps -> Nat] /\ ready \in Seq(Steps) /\ result \in [Steps -> Statuses]
      /\ status = "none"
  BY DEF IInv, TypeOK, Bookkeeping, Joined, Receive, Accepted
<1>2. /\ r \in Messages /\ r = chan[1] /\ 1 \in DOMAIN chan
      /\ \A i \in DOMAIN Tail(chan) : i + 1 \in DOMAIN chan /\ Tail(chan)[i] = chan[i + 1]
  BY <1>1
<1>3. d \in Steps /\ r.res \in Results
  BY <1>2 DEF Messages
<1>4. /\ chan' = Tail(chan) /\ worker' = [worker EXCEPT ![d] = "received"]
      /\ result' = [result EXCEPT ![d] = StatusOf(r.res)]
      /\ firstErr' = (firstErr \/ r.res \in {"hard", "encode"})
      /\ UNCHANGED <<depends, ctxDone, status>>
  BY DEF Receive
<1>5. \/ /\ inDeg' = [s \in Steps |-> inDeg[s] - (IF s \in Dependents(d) THEN 1 ELSE 0)]
         /\ \E q \in Ordered(Fresh) : ready' = ready \o q
      \/ UNCHANGED <<inDeg, ready>>
  BY DEF Receive
<1>6. ASSUME NEW s \in Steps, worker'[s] = "none", inDeg'[s] = 0
      PROVE  \E i \in DOMAIN ready' : ready'[i] = s
  <2>1. worker[s] = "none"
    BY <1>1, <1>3, <1>4, <1>6
  <2>2. CASE UNCHANGED <<inDeg, ready>>
    BY <1>1, <1>6, <2>1, <2>2 DEF Rest, ReadyAll
  <2>3. CASE /\ inDeg' = [t \in Steps |-> inDeg[t] - (IF t \in Dependents(d) THEN 1 ELSE 0)]
             /\ \E q \in Ordered(Fresh) : ready' = ready \o q
    <3>1. PICK q \in Ordered(Fresh) : ready' = ready \o q
      BY <2>3
    <3>2. Fresh \in SUBSET Steps
      BY DEF Dependents
    <3>3. q \in Seq(Steps)
      <4> HIDE DEF Fresh
      <4> QED BY <3>2, OrderedLists
    <3>4. /\ \A i \in DOMAIN ready : i \in DOMAIN ready' /\ ready'[i] = ready[i]
          /\ \A i \in DOMAIN q : /\ i + Len(ready) \in DOMAIN ready'
                                 /\ ready'[i + Len(ready)] = q[i]
      <4>1. ready \in Seq(Steps) /\ q \in Seq(Steps) /\ ready' = ready \o q
        BY <1>1, <3>1, <3>3
      <4> HIDE DEF Fresh, d
      <4> QED BY <4>1
    <3>5. CASE inDeg[s] = 0
      <4>1. PICK i \in DOMAIN ready : ready[i] = s
        BY <1>1, <2>1, <3>5 DEF Rest, ReadyAll
      <4> QED BY <3>4, <4>1
    <3>6. CASE inDeg[s] # 0
      <4>1. s \in Fresh
        BY <1>1, <1>6, <2>3, <3>6
      <4> HIDE DEF Fresh
      <4>2. PICK i \in DOMAIN q : q[i] = s
        BY <3>2, <4>1, OrderedCovers
      <4> QED BY <3>4, <4>2
    <3> QED BY <3>5, <3>6
  <2> HIDE DEF Fresh, d
  <2> QED BY <1>5, <2>2, <2>3
<1>7. OnlyExecutable' /\ ReadyAll' /\ CompletedQuiet'
  BY <1>1, <1>4, <1>6, StillExecutable DEF ReadyAll, CompletedQuiet
<1>8. ErrorsNoted'
  <2>1. Reasons => Reasons'
    BY <1>4 DEF Reasons
  <2>2. \A i \in DOMAIN chan' : chan'[i].res = "ctx" => Reasons'
    BY <1>2, <1>4, <2>1 DEF Rest, ErrorsNoted
  <2>3. r.res = "ctx" => Reasons
    BY <1>2 DEF Rest, ErrorsNoted
  <2>4. ASSUME NEW s \in Steps
        PROVE  /\ result'[s] = "failed" => firstErr'
               /\ result'[s] = "canceled" => Reasons'
    <3>1. CASE s = d
      <4>1. result'[s] = StatusOf(r.res)
        BY <1>1, <1>3, <1>4, <3>1
      <4>2. /\ StatusOf(r.res) = "failed" => r.res \in {"hard", "encode"}
            /\ StatusOf(r.res) = "canceled" => r.res = "ctx"
        BY <1>3 DEF StatusOf, Results
      <4> QED BY <1>4, <2>1, <2>3, <4>1, <4>2
    <3>2. CASE s # d
      <4>1. result'[s] = result[s]
        BY <1>1, <1>4, <3>2
      <4> QED BY <1>4, <2>1, <4>1 DEF Rest, ErrorsNoted
    <3> QED BY <3>1, <3>2
  <2> QED BY <2>2, <2>4 DEF ErrorsNoted
<1> QED BY <1>7, <1>8 DEF Rest

(* The scheduler waits, returns or is told of a cancellation.                 *)
LEMMA QuietRest ==
  ASSUME IInv, Rest, Await \/ Spin \/ Return \/ CancelTurn PROVE Rest'
<1>1. /\ Accepted /\ phase' \in {"fill", "select", "done"} /\ phase # "done"
      /\ UNCHANGED <<depends, inDeg, ready, worker, chan, result, firstErr>>
      /\ ctxDone => ctxDone'
  BY DEF Await, Spin, Return, CancelTurn, Accepted, graphVars, workVars
<1>2. OnlyExecutable' /\ ReadyAll'
  BY <1>1, StillExecutable DEF Rest, ReadyAll, Accepted
<1>3. ErrorsNoted'
  BY <1>1 DEF Rest, ErrorsNoted, Reasons
<1>4. status # "completed"
  BY <1>1 DEF IInv, Bookkeeping, Joined
<1>5. ASSUME Await \/ Spin \/ CancelTurn PROVE CompletedQuiet'
  <2>1. UNCHANGED status
    BY <1>5 DEF Await, Spin, CancelTurn
  <2> QED BY <1>4, <2>1 DEF CompletedQuiet
<1>6. ASSUME Return PROVE CompletedQuiet'
  <2>1. running = 0 /\ RoomForWorker
    BY <1>6, ExecutorAssumption DEF Return, RoomForWorker
  <2>2. status' = "completed" => ~firstErr /\ ~ctxDone
    BY <1>6 DEF Return, Outcome
  <2>3. ~firstErr => ready = <<>>
    BY <1>6, <2>1 DEF Return, MayStart
  <2>4. UNCHANGED ctxDone
    BY <1>6 DEF Return
  <2>5. status' = "completed" => ~firstErr' /\ ~ctxDone' /\ ready' = <<>>
    BY Zenon, <1>1, <2>2, <2>3, <2>4
  <2> QED BY <2>5 DEF CompletedQuiet
<1> QED BY <1>2, <1>3, <1>5, <1>6 DEF Rest

LEMMA StepRest == ASSUME IInv, Rest, [Next]_vars PROVE Rest'
<1>1. CASE UNCHANGED vars
  BY <1>1 DEF vars, graphVars, workVars, Rest, OnlyExecutable,
     WellFormedDepends, 
     WaitsForItself, ReadyAll, Accepted, ErrorsNoted, Reasons, CompletedQuiet
<1>2. ASSUME NEW s \in Steps, Work(s) PROVE Rest'
  BY <1>2, WorkRest
<1>3. CASE Await \/ Return \/ Spin \/ CancelTurn
  BY <1>3, QuietRest
<1> QED BY <1>1, <1>2, <1>3, ValidateRest, StartRest, ReceiveRest DEF Next

(* Nothing failed, nobody is at work, nothing is ready: what has no output    *)
(* would wait for itself.                                                     *)
LEMMA InvImpliesHonest == IInv /\ Rest => PlansHonest
<1> SUFFICES ASSUME IInv, Rest PROVE CompletedMeansAll
  BY DEF PlansHonest, IInv, Rest
<1> SUFFICES ASSUME status = "completed", ~(StepDeadlines /\ \E s \in Steps : result[s] = "canceled"),
                    \E s \in Steps : result[s] # "succeeded"
             PROVE  FALSE
  BY DEF CompletedMeansAll
<1> DEFINE Left == {s \in Steps : result[s] # "succeeded"}
<1>1. /\ Accepted /\ phase # "proposed" /\ phase # "rejected"
      /\ ~firstErr /\ ~ctxDone /\ ready = <<>>
      /\ \A s \in Steps : worker[s] \in {"none", "received"}
  BY InvImpliesJoined DEF IInv, Bookkeeping, Joined, Accepted, Rest,
     CompletedQuiet, AllJoined
<1>2. ASSUME NEW s \in Left PROVE worker[s] = "none"
  <2>1. result[s] \in Statuses /\ result[s] # "failed" /\ result[s] # "canceled"
    BY <1>1 DEF IInv, TypeOK, Rest, ErrorsNoted, Reasons
  <2>2. result[s] = "skipped"
    BY <2>1 DEF Statuses
  <2> QED BY <1>1, <2>2 DEF IInv, Bookkeeping, ResultOfReceived
<1>3. ASSUME NEW s \in Left PROVE Range(depends[s]) \cap Left # {}
  <2>1. inDeg[s] # 0
    BY <1>1, <1>2 DEF Rest, ReadyAll
  <2>2. Cardinality(OpenDeps(s)) # 0
    BY <1>1, <2>1 DEF IInv, Bookkeeping, DegCounts
  <2>3. PICK i \in OpenDeps(s) : TRUE
    BY <2>2, FS_EmptySet
  <2>4. i \in DOMAIN depends[s] /\ depends[s][i] \in Left
    BY <1>1, <2>3 DEF OpenDeps, IInv, Bookkeeping, WellFormed,
       WellFormedDepends
  <2> HIDE DEF Left
  <2> QED BY <2>4 DEF Range
<1>4. Left \in SUBSET Steps /\ WaitsForItself(Left)
  BY <1>3 DEF WaitsForItself
<1> HIDE DEF Left
<1> QED BY <1>1, <1>4 DEF Rest, OnlyExecutable

(* Types, and at most MaxConcurrent workers at a time (executor.go:203).      *)
THEOREM TypeCorrect == Spec => []TypeOK
<1>1. Init => IInv
  BY InitInv
<1>2. IInv /\ [Next]_vars => IInv'
  BY StepInv
<1>3. IInv => TypeOK
  BY DEF IInv
<1> QED BY <1>1, <1>2, <1>3, PTL DEF Spec

(* No step is started before all its dependencies have succeeded, whatever    *)
(* the plan and the order of the results (executor.go:289-294).               *)
THEOREM OrderRespected == Spec => []DepsSucceeded
<1>1. Init => IInv
  BY InitInv
<1>2. IInv /\ [Next]_vars => IInv'
  BY StepInv
<1>3. IInv => DepsSucceeded
  BY InvImpliesOrder
<1> QED BY <1>1, <1>2, <1>3, PTL DEF Spec

(* When Execute has returned, every worker it started has been heard, and the *)
(* calls it reports are those made (executor.go:210, 219-223).                *)
THEOREM WorkersJoined == Spec => []AllJoined
<1>1. Init => IInv
  BY InitInv
<1>2. IInv /\ [Next]_vars => IInv'
  BY StepInv
<1>3. IInv => AllJoined
  BY InvImpliesJoined
<1> QED BY <1>1, <1>2, <1>3, PTL DEF Spec

(* ValidatePlan accepts exactly the plans in which every step names other     *)
(* steps, each once, and no set of steps waits for itself: its rules 6 and 7,  *)
(* Kahn's algorithm, for every number of steps (validate.go:90-136).  And a plan      *)
(* reported as completed (executor.go:301-321) has an output for every step,   *)
(* unless a step ran into a deadline of its own.                              *)
THEOREM PlansStayHonest == Spec => []PlansHonest
<1>1. Init => IInv /\ Rest
  BY InitInv, InitRest
<1>2. IInv /\ Rest /\ [Next]_vars => (IInv /\ Rest)'
  BY StepInv, StepRest
<1>3. IInv /\ Rest => PlansHonest
  BY InvImpliesHonest
<1> QED BY <1>1, <1>2, <1>3, PTL DEF Spec

-----------------------------------------------------------------------------
(* ---- the plugin manager: resolveDependencies ---------------------------- *)
LEMMA SmallestPicked == ASSUME NEW c \in SUBSET Plugins, c # {} PROVE Smallest(c) \in c
<1>1. \E x \in c : \A y \in c : x <= y
  <2> SUFFICES ASSUME \A x \in c : \E y \in c : ~(x <= y) PROVE FALSE
    OBVIOUS
  <2> DEFINE Below == {n \in Nat : \A y \in c : n < y}
  <2>1. \A y \in c : y \in Nat /\ y >= 1
    BY DEF Plugins
  <2>2. 0 \in Below
    BY <2>1
  <2>3. ASSUME NEW n \in Nat, n \in Below PROVE n + 1 \in Below
    <3>1. \A y \in c : n + 1 <= y
      BY <2>1, <2>3
    <3>2. n + 1 \notin c
      BY <3>1
    <3> QED BY <2>1, <3>1, <3>2
  <2>4. Nat \subseteq Below
    <3> HIDE DEF Below
    <3> QED BY <2>2, <2>3, SetInduction
  <2> QED BY <2>1, <2>4
<1> QED BY <1>1 DEF Smallest, Min

(* s lists every plugin behind those it depends on.                          *)
InOrder(s) == \A i \in 1..Len(s) : \A q \in Edges(s[i]) : \E j \in 1..i - 1 : s[j] = q

LEMMA GrownInOrder ==
  ASSUME NEW s \in Seq(Plugins)
  PROVE  Grown(s) \in Seq(Plugins) /\ (InOrder(s) => InOrder(Grown(s)))
<1>1. CASE Candidates(s) = {}
  BY <1>1 DEF Grown
<1>2. CASE Candidates(s) # {}
  <2>1. PICK p : p = Smallest(Candidates(s))
    OBVIOUS
  <2>2. Candidates(s) \in SUBSET Plugins
    BY DEF Candidates
  <2>3. p \in Candidates(s) /\ p \in Plugins
    BY <1>2, <2>1, <2>2, SmallestPicked
  <2>4. PICK t : t = Grown(s)
    OBVIOUS
  <2>5. t = Append(s, p)
    BY <1>2, <2>1, <2>4 DEF Grown
  <2>6. /\ t \in Seq(Plugins) /\ Len(t) = Len(s) + 1 /\ Len(s) \in Nat /\ t[Len(s) + 1] = p
        /\ \A i \in 1..Len(s) : t[i] = s[i]
    BY <2>3, <2>5
  <2>7. ASSUME InOrder(s) PROVE InOrder(t)
    <3> SUFFICES ASSUME NEW i \in 1..Len(t), NEW q \in Edges(t[i]) PROVE \E j \in 1..i - 1 : t[j] = q
      BY DEF InOrder
    <3>1. CASE i \in 1..Len(s)
      <4>1. PICK j \in 1..i - 1 : s[j] = q
        BY <2>6, <2>7, <3>1 DEF InOrder
      <4>2. j \in 1..Len(s)
        BY <2>6, <3>1
      <4> QED BY <2>6, <4>1, <4>2
    <3>2. CASE i = Len(s) + 1
      <4>1. q \in ToSet(s)
        BY <2>3, <2>6, <3>2 DEF Candidates
      <4>2. PICK j \in 1..Len(s) : s[j] = q
        BY <4>1 DEF ToSet
      <4>3. j \in 1..i - 1
        BY <2>6, <3>2
      <4> QED BY <2>6, <4>2, <4>3
    <3> QED BY <2>6, <3>1, <3>2
  <2> QED BY <2>4, <2>6, <2>7
<1> QED BY <1>1, <1>2

(* KahnOrder is what its definition says.                                    *)
LEMMA KahnOrderUnfolds ==
  KahnOrder[0] = <<>> /\ \A k \in Nat : KahnOrder[k + 1] = Grown(KahnOrder[k])
<1> DEFINE next == [s \in Seq(Plugins) |-> Grown(s)]
<1>1. <<>> \in Seq(Plugins) /\ next \in [Seq(Plugins) -> Seq(Plugins)]
  BY GrownInOrder
<1>2. PICK f \in [Nat -> Seq(Plugins)] : f[0] = <<>> /\ \A k \in Nat \ {0} : f[k] = next[f[k - 1]]
  <2> DEFINE T == Seq(Plugins)
             x == <<>>
  <2>1. x \in T /\ next \in [T -> T]
    BY <1>1
  <2> HIDE DEF next, T, x
  <2>2. \E f \in [Nat -> T] : f[0] = x /\ \A k \in Nat \ {0} : f[k] = next[f[k - 1]]
    BY <2>1, Iterates
  <2> USE DEF T, x
  <2> QED BY <2>2
<1>3. ASSUME NEW k \in Nat \ {0} PROVE f[k] = Grown(f[k - 1])
  <2>1. k - 1 \in Nat
    OBVIOUS
  <2>2. f[k - 1] \in Seq(Plugins)
    BY <2>1
  <2> QED BY <1>2, <2>2
<1>4. f = [k \in Nat |-> IF k = 0 THEN <<>> ELSE Grown(f[k - 1])]
  <2>1. f = [k \in Nat |-> f[k]]
    OBVIOUS
  <2> QED BY <1>2, <1>3, <2>1
<1>5. KahnOrder = [k \in Nat |-> IF k = 0 THEN <<>> ELSE Grown(KahnOrder[k - 1])]
  BY <1>4 DEF KahnOrder
<1>6. KahnOrder[0] = <<>>
  BY <1>5
<1>7. ASSUME NEW k \in Nat PROVE KahnOrder[k + 1] = Grown(KahnOrder[k])
  <2>1. k + 1 \in Nat /\ k + 1 # 0 /\ (k + 1) - 1 = k
    OBVIOUS
  <2>2. KahnOrder[k + 1] = IF k + 1 = 0 THEN <<>> ELSE Grown(KahnOrder[(k + 1) - 1])
    BY <1>5, <2>1
  <2> QED BY <2>1, <2>2
<1> QED BY <1>6, <1>7

(* In the order StartAll follows, whatever a plugin depends on comes first.  *)
LEMMA OrderInOrder == Order \in Seq(Plugins) /\ InOrder(Order)
<1> DEFINE Good == {n \in Nat : KahnOrder[n] \in Seq(Plugins) /\ InOrder(KahnOrder[n])}
<1>1. 0 \in Good
  <2>1. InOrder(<<>>) /\ <<>> \in Seq(Plugins)
    BY DEF InOrder
  <2> QED BY <2>1, KahnOrderUnfolds
<1>2. ASSUME NEW n \in Nat, n \in Good PROVE n + 1 \in Good
  <2>1. PICK s \in Seq(Plugins) : s = KahnOrder[n] /\ InOrder(s)
    BY <1>2
  <2>2. KahnOrder[n + 1] = Grown(s)
    BY <2>1, KahnOrderUnfolds
  <2> QED BY <2>1, <2>2, GrownInOrder
<1>3. Nat \subseteq Good
  <2> HIDE DEF Good
  <2> QED BY <1>1, <1>2, SetInduction
<1> QED BY <1>3, PluginAssumption DEF Order

(* ---- the plugin manager: what holds of every state ---------------------- *)
Settled(q) == state[q] \notin {"discovered", "starting"}
InHand == {"start", "handshake", "publish"}        \* StartAll is with its head
AtWork == {"next", "start", "handshake", "publish"}

PluginTypes ==
  /\ needs \in [Plugins -> [Plugins -> Dependencies]]
  /\ blamed \subseteq Plugins /\ config \in [auto : BOOLEAN, restart : BOOLEAN]
  /\ mon \in [Plugins -> {"off", "watch", "retry", "restart"}]
  /\ starter \in {"off", "done", "next", "start", "handshake", "publish"}
  /\ queue \in Seq(Plugins)
  /\ call \in [Callers -> [at : {"free", "invoke", "kill"}, p : Nat, n : 0..MaxProcs]]
  /\ down \in {"off", "wait", "work", "done"}

(* StartAll starts the head of its queue and nothing else, and no plugin has *)
(* a monitor before it has been up.                                          *)
HeadInHand == starter \in InHand => queue # <<>> /\ state[P] = "starting"
OnlyHead == \A p \in Plugins : state[p] = "starting" =>
              starter = "done" \/ (starter \in InHand /\ P = p)
Unwatched == \A p \in Plugins : ~Settled(p) => mon[p] = "off"

(* The teardown begins when StartAll and the monitors have left, and takes   *)
(* the client of every plugin it is done with.                               *)
TeardownAlone ==
  /\ down # "off" <=> stopping
  /\ down \in {"work", "done"} => AllLeft
Taken == /\ down \in {"work", "done"} => \A p \in Plugins \ left : client[p] = None
         /\ down = "wait" => left = Plugins
         /\ down = "done" => left = {}

Numbered == \A p \in Plugins : alive[p] => procs[p] # 0
CallsServed == \A c \in Callers : call[c].at # "free" => call[c].p \in Plugins /\ call[c].n # None

(* Whatever a plugin in the queue depends on comes before it there, or has   *)
(* been dealt with.                                                          *)
QueueOrdered == starter \in AtWork =>
  \A i \in 1..Len(queue) : \A q \in Edges(queue[i]) :
    Settled(q) \/ \E j \in 1..i - 1 : queue[j] = q

Books == HeadInHand /\ OnlyHead /\ Unwatched /\ TeardownAlone /\ Taken /\ Numbered /\ CallsServed
PluginInv == PluginTypes /\ ClientsSound /\ Books /\ QueueOrdered /\ OrderSound

LEMMA HeadFacts ==
  ASSUME queue \in Seq(Plugins), queue # <<>>
  PROVE  /\ P \in Plugins /\ P = queue[1] /\ 1 \in 1..Len(queue)
         /\ Tail(queue) \in Seq(Plugins) /\ Len(Tail(queue)) = Len(queue) - 1
         /\ \A i \in 1..Len(queue) - 1 : Tail(queue)[i] = queue[i + 1]
BY DEF P

(* Nothing is dealt with twice; then an order stays one, also of its rest.    *)
Onwards == \A q \in Plugins : Settled(q) => Settled(q)'

LEMMA QueueKept ==
  ASSUME QueueOrdered, Onwards, queue' = queue, needs' = needs,
         starter' \in AtWork => starter \in AtWork
  PROVE  QueueOrdered'
BY DEF QueueOrdered, Onwards, Edges

LEMMA QueueSkipped ==
  ASSUME PluginTypes, QueueOrdered, Onwards, starter \in AtWork, queue # <<>>,
         queue' = Tail(queue), needs' = needs, NEW h, h = P, Settled(h)'
  PROVE  QueueOrdered'
<1>1. /\ queue \in Seq(Plugins) /\ h = queue[1] /\ Len(queue') = Len(queue) - 1
      /\ Len(queue) \in Nat
      /\ \A i \in 1..Len(queue) - 1 : queue'[i] = queue[i + 1]
  BY HeadFacts DEF PluginTypes
<1> SUFFICES ASSUME NEW i \in 1..Len(queue'), NEW q \in Edges(queue'[i]), ~Settled(q)'
             PROVE  \E j \in 1..i - 1 : queue'[j] = q
  BY DEF QueueOrdered, Edges
<1>2. i + 1 \in 1..Len(queue) /\ i \in Nat /\ i >= 1 /\ queue'[i] = queue[i + 1]
  BY <1>1
<1>3. q \in Edges(queue[i + 1]) /\ q \in Plugins
  BY <1>2 DEF Edges
<1>4. ~Settled(q)
  BY <1>3 DEF Onwards
<1>5. PICK j \in 1..(i + 1) - 1 : queue[j] = q
  BY <1>2, <1>3, <1>4 DEF QueueOrdered
<1>6. j # 1
  BY <1>1, <1>5
<1>7. j - 1 \in 1..i - 1 /\ j - 1 \in 1..Len(queue) - 1 /\ (j - 1) + 1 = j
  BY <1>1, <1>2, <1>5, <1>6
<1>8. queue'[j - 1] = q
  BY <1>1, <1>5, <1>7
<1> QED BY <1>7, <1>8

(* ---- what the parts of a step do ---------------------------------------- *)
LEMMA BecomesEffect ==
  ASSUME PluginTypeOK, NEW p \in Plugins, Becomes(p, "ready") \/ Becomes(p, "error") \/
           Becomes(p, "stopped") \/ Becomes(p, "starting")
  PROVE  /\ state' \in [Plugins -> {"discovered", "starting", "ready", "error", "stopped"}]
         /\ \A q \in Plugins : q # p => state'[q] = state[q]
         /\ \A s : Becomes(p, s) => state'[p] = s
         /\ state[p] # "discovered" /\ state'[p] # "starting" => Onwards
         /\ state'[p] \in {"ready", "error", "stopped"} => Onwards
BY DEF PluginTypeOK, Becomes, Onwards, Settled

LEMMA DeadEffect ==
  ASSUME PluginTypeOK, NEW p \in Plugins, Dead(p)
  PROVE  /\ alive' \in [Plugins -> BOOLEAN] /\ ~alive'[p]
         /\ \A q \in Plugins : q # p => alive'[q] = alive[q]
BY DEF PluginTypeOK, Dead

LEMMA SpawnedEffect ==
  ASSUME PluginTypeOK, NEW p \in Plugins, Spawned(p), procs[p] < MaxProcs
  PROVE  /\ alive' \in [Plugins -> BOOLEAN] /\ procs' \in [Plugins -> 0..MaxProcs]
         /\ procs'[p] # 0 /\ alive'[p]
         /\ \A q \in Plugins : q # p => alive'[q] = alive[q] /\ procs'[q] = procs[q]
<1>1. procs[p] \in Nat /\ MaxProcs \in Nat /\ procs[p] + 1 \in 0..MaxProcs /\ procs[p] + 1 # 0
  BY PluginAssumption DEF PluginTypeOK
<1> QED BY <1>1 DEF PluginTypeOK, Spawned

LEMMA ServeEffect ==
  ASSUME PluginTypeOK, NEW p \in Plugins, Serve(p)
  PROVE  /\ client' \in [Plugins -> 0..MaxProcs] /\ handle' \in [Plugins -> 0..MaxProcs]
         /\ client'[p] = procs[p] /\ handle'[p] = procs[p] /\ Becomes(p, "ready")
         /\ \A q \in Plugins : q # p => client'[q] = client[q] /\ handle'[q] = handle[q]
BY DEF PluginTypeOK, Serve

LEMMA MonEffect ==
  ASSUME PluginTypes, NEW p \in Plugins, NEW l \in {"off", "watch", "retry", "restart"}, Mon(p, l)
  PROVE  /\ mon' \in [Plugins -> {"off", "watch", "retry", "restart"}] /\ mon'[p] = l
         /\ \A q \in Plugins : q # p => mon'[q] = mon[q]
BY DEF PluginTypes, Mon

(* ---- StartAll ----------------------------------------------------------- *)
(* The head goes: nobody is being started, and the order of the rest holds.  *)
LEMMA SkipInv ==
  ASSUME PluginInv, starter \in AtWork, queue # <<>>, Skip, needs' = needs, NEW h, h = P,
         Onwards, Settled(h)', mon' = mon, \A q \in Plugins : q # h => state'[q] = state[q]
  PROVE  HeadInHand' /\ OnlyHead' /\ Unwatched' /\ QueueOrdered' /\ queue' \in Seq(Plugins)
<1> USE DEF PluginInv, Books, Skip
<1>1. h \in Plugins /\ queue' \in Seq(Plugins) /\ starter' = "next"
  BY HeadFacts DEF PluginTypes
<1>2. QueueOrdered'
  BY QueueSkipped
<1>3. HeadInHand'
  BY <1>1 DEF HeadInHand, InHand
<1>4. OnlyHead'
  BY <1>1 DEF OnlyHead, InHand, AtWork, Settled
<1>5. Unwatched'
  BY <1>1 DEF Unwatched, Settled
<1> QED BY <1>1, <1>2, <1>3, <1>4, <1>5

LEMMA TakeInv == ASSUME PluginInv, Take PROVE PluginInv'
<1> USE DEF PluginInv, Books, ClientsSound, entry, process, graph, watch, ending
<1>1. PICK h : h = P
  OBVIOUS
<1>2. /\ starter = "next" /\ starter \in AtWork /\ queue # <<>> /\ h \in Plugins
      /\ UNCHANGED <<graph, client, handle, proxies, since, clock, process, watch, call, ending>>
  BY <1>1, HeadFacts DEF Take, PluginTypes, AtWork
<1>3. NoCallAfterStop' /\ ReadyReachable' /\ Taken' /\ Numbered' /\ CallsServed'
  BY <1>2 DEF NoCallAfterStop, ReadyReachable, Taken, Numbered, CallsServed
<1>4. TeardownAlone' /\ starter # "done"
  BY <1>2 DEF TeardownAlone, AllLeft
<1>5. NoOrphans'
  BY <1>2 DEF NoOrphans
<1>6. CASE Skip /\ UNCHANGED <<state, blamed>> /\ state[h] # "discovered"
  <2>1. Onwards /\ Settled(h)'
    BY <1>1, <1>2, <1>4, <1>6 DEF Onwards, Settled, OnlyHead, InHand
  <2>2. HeadInHand' /\ OnlyHead' /\ Unwatched' /\ QueueOrdered' /\ queue' \in Seq(Plugins)
    BY <1>1, <1>2, <1>6, <2>1, SkipInv
  <2>3. PluginTypes' /\ PluginTypeOK' /\ OrderSound'
    BY <1>2, <1>6, <2>2 DEF PluginTypes, PluginTypeOK, OrderSound, Skip
  <2> QED BY <1>3, <1>4, <1>5, <2>2, <2>3
<1>7. CASE Becomes(h, "stopped") /\ Skip /\ UNCHANGED blamed
  <2>1. Onwards /\ state' \in [Plugins -> {"discovered", "starting", "ready", "error", "stopped"}]
        /\ Settled(h)' /\ \A q \in Plugins : q # h => state'[q] = state[q]
    BY <1>2, <1>7, BecomesEffect DEF Settled
  <2>2. HeadInHand' /\ OnlyHead' /\ Unwatched' /\ QueueOrdered' /\ queue' \in Seq(Plugins)
    BY <1>1, <1>2, <1>7, <2>1, SkipInv
  <2>3. PluginTypes' /\ PluginTypeOK'
    BY <1>2, <1>7, <2>1, <2>2 DEF PluginTypes, PluginTypeOK, Skip
  <2>4. OrderSound'
    BY <1>2, <1>7, <2>1 DEF OrderSound, Onwards, Settled
  <2> QED BY <1>3, <1>4, <1>5, <2>2, <2>3, <2>4
<1>8. CASE ~DepsReady(h) /\ Becomes(h, "error") /\ Skip /\ blamed' = blamed \cup {h}
  <2>1. Onwards /\ state' \in [Plugins -> {"discovered", "starting", "ready", "error", "stopped"}]
        /\ Settled(h)' /\ \A q \in Plugins : q # h => state'[q] = state[q]
    BY <1>2, <1>8, BecomesEffect DEF Settled
  <2>2. HeadInHand' /\ OnlyHead' /\ Unwatched' /\ QueueOrdered' /\ queue' \in Seq(Plugins)
    BY <1>1, <1>2, <1>8, <2>1, SkipInv
  <2>3. PluginTypes' /\ PluginTypeOK'
    BY <1>2, <1>8, <2>1, <2>2 DEF PluginTypes, PluginTypeOK, Skip
  <2>4. PICK q \in Plugins : needs[h][q] \in {"required", "misfit"}
    BY <1>8 DEF DepsReady
  <2>5. needs[h][q] = "required" => Settled(q)
    <3> SUFFICES ASSUME needs[h][q] = "required" PROVE Settled(q)
      OBVIOUS
    <3>1. h = queue[1] /\ 1 \in 1..Len(queue)
      BY <1>1, <1>2, HeadFacts DEF PluginTypes
    <3>2. q \in Edges(queue[1])
      BY <2>4, <3>1 DEF Edges
    <3> QED BY <1>2, <3>1, <3>2 DEF QueueOrdered
  <2>6. OrderSound'
    BY <1>2, <1>8, <2>1, <2>4, <2>5 DEF OrderSound, Onwards, Settled
  <2> QED BY <1>3, <1>4, <1>5, <2>2, <2>3, <2>6
<1>9. CASE state[h] = "discovered" /\ Becomes(h, "starting") /\ starter' = "start" /\ UNCHANGED <<queue, blamed>>
  <2>1. state' \in [Plugins -> {"discovered", "starting", "ready", "error", "stopped"}]
        /\ state'[h] = "starting" /\ \A q \in Plugins : q # h => state'[q] = state[q]
    BY <1>2, <1>9, BecomesEffect
  <2>2. Onwards
    BY <1>9, <2>1 DEF Onwards, Settled
  <2>3. QueueOrdered'
    BY <1>2, <1>9, <2>2, QueueKept
  <2>4. PluginTypes' /\ PluginTypeOK'
    BY <1>2, <1>9, <2>1 DEF PluginTypes, PluginTypeOK
  <2>5. OrderSound'
    BY <1>2, <1>9, <2>2 DEF OrderSound, Onwards, Settled
  <2>6. P' = h
    BY <1>1, <1>9 DEF P
  <2>7. HeadInHand' /\ OnlyHead' /\ Unwatched'
    BY <1>2, <1>9, <2>1, <2>6 DEF HeadInHand, OnlyHead, Unwatched, Settled, InHand
  <2> QED BY <1>3, <1>4, <1>5, <2>3, <2>4, <2>5, <2>7
<1> QED BY <1>1, <1>6, <1>7, <1>8, <1>9 DEF Take

LEMMA LaunchInv == ASSUME PluginInv, Launch PROVE PluginInv'
<1> USE DEF PluginInv, Books, ClientsSound, entry, process, graph, watch, ending
<1>1. PICK h : h = P
  OBVIOUS
<1>2. /\ starter = "start" /\ starter' = "handshake" /\ queue # <<>> /\ h \in Plugins
      /\ procs[h] < MaxProcs /\ Spawned(h)
      /\ UNCHANGED <<graph, entry, queue, blamed, watch, call, ending>> /\ P' = h
  BY <1>1, HeadFacts DEF Launch, PluginTypes, HeadInHand, InHand, P
<1>3. /\ alive' \in [Plugins -> BOOLEAN] /\ procs' \in [Plugins -> 0..MaxProcs]
      /\ procs'[h] # 0 /\ \A q \in Plugins : q # h => alive'[q] = alive[q] /\ procs'[q] = procs[q]
  BY <1>2, SpawnedEffect
<1>4. QueueOrdered'
  BY <1>2, QueueKept DEF Onwards, Settled, AtWork
<1>5. PluginTypes' /\ PluginTypeOK' /\ OrderSound'
  BY <1>2, <1>3 DEF PluginTypes, PluginTypeOK, OrderSound
<1>6. NoCallAfterStop' /\ Taken' /\ Numbered' /\ CallsServed'
  BY <1>2, <1>3 DEF NoCallAfterStop, Taken, Numbered, CallsServed
<1>7. TeardownAlone' /\ down # "done"
  BY <1>2 DEF TeardownAlone, AllLeft
<1>8. NoOrphans'
  BY <1>2, <1>3, <1>7 DEF NoOrphans
<1>9. mon[h] = "off"
  BY <1>1, <1>2 DEF HeadInHand, InHand, Unwatched, Settled
<1>10. ReadyReachable'
  BY <1>2, <1>3, <1>9 DEF ReadyReachable
<1>11. HeadInHand' /\ OnlyHead' /\ Unwatched'
  BY <1>1, <1>2 DEF HeadInHand, OnlyHead, Unwatched, InHand, Settled
<1> QED BY <1>4, <1>5, <1>6, <1>7, <1>8, <1>10, <1>11

(* The head has failed: its process is gone and its entry in error.          *)
LEMMA HeadFailedInv ==
  ASSUME PluginInv, starter \in InHand, NEW h, h = P, Dead(h), Becomes(h, "error"), Skip,
         UNCHANGED <<graph, blamed, client, handle, proxies, since, clock, procs, watch, call, ending>>
  PROVE  PluginInv'
<1> USE DEF PluginInv, Books, ClientsSound, graph, watch, ending
<1>1. queue # <<>> /\ h \in Plugins /\ starter \in AtWork /\ starter' = "next"
  BY HeadFacts DEF PluginTypes, HeadInHand, InHand, AtWork, Skip
<1>2. /\ alive' \in [Plugins -> BOOLEAN] /\ ~alive'[h]
      /\ \A q \in Plugins : q # h => alive'[q] = alive[q]
  BY <1>1, DeadEffect
<1>3. Onwards /\ state' \in [Plugins -> {"discovered", "starting", "ready", "error", "stopped"}]
      /\ Settled(h)' /\ \A q \in Plugins : q # h => state'[q] = state[q]
  BY <1>1, BecomesEffect DEF Settled
<1>4. HeadInHand' /\ OnlyHead' /\ Unwatched' /\ QueueOrdered' /\ queue' \in Seq(Plugins)
  BY <1>1, <1>3, SkipInv
<1>5. PluginTypes' /\ PluginTypeOK'
  BY <1>1, <1>2, <1>3, <1>4 DEF PluginTypes, PluginTypeOK
<1>6. OrderSound'
  BY <1>1, <1>3 DEF OrderSound, Onwards, Settled
<1>7. NoCallAfterStop' /\ Taken' /\ Numbered' /\ CallsServed'
  BY <1>2 DEF NoCallAfterStop, Taken, Numbered, CallsServed
<1>8. TeardownAlone' /\ down # "done"
  BY <1>1 DEF TeardownAlone, AllLeft, InHand
<1>9. NoOrphans'
  BY <1>1, <1>2, <1>8 DEF NoOrphans
<1>10. ReadyReachable'
  BY <1>1, <1>2 DEF ReadyReachable
<1> QED BY <1>4, <1>5, <1>6, <1>7, <1>8, <1>9, <1>10

LEMMA StartFailsInv == ASSUME PluginInv, StartFails PROVE PluginInv'
<1>1. starter \in InHand
  BY DEF StartFails, InHand
<1> QED BY <1>1, HeadFailedInv DEF StartFails

LEMMA StartOkInv == ASSUME PluginInv, StartOk PROVE PluginInv'
<1>1. starter = "handshake" /\ starter \in InHand
  BY DEF StartOk, InHand
<1>2. CASE Becomes(P, "error") /\ Dead(P) /\ Skip /\ UNCHANGED proxies
  BY <1>1, <1>2, HeadFailedInv DEF StartOk
<1>3. CASE proxies' = proxies \cup {P} /\ starter' = "publish" /\ UNCHANGED <<state, alive, queue>>
  <2> USE DEF PluginInv, Books, ClientsSound, graph, watch, ending
  <2>1. PICK h : h = P
    OBVIOUS
  <2>2. /\ h \in Plugins /\ queue # <<>> /\ P' = h
        /\ UNCHANGED <<graph, blamed, client, handle, since, clock, procs, watch, call, ending>>
    BY <1>1, <1>3, <2>1, HeadFacts DEF StartOk, PluginTypes, HeadInHand, InHand, P
  <2>3. QueueOrdered'
    BY <1>1, <1>3, <2>2, QueueKept DEF Onwards, Settled, AtWork
  <2>4. PluginTypes' /\ PluginTypeOK' /\ OrderSound'
    BY <1>3, <2>1, <2>2 DEF PluginTypes, PluginTypeOK, OrderSound
  <2>5. NoCallAfterStop' /\ Taken' /\ Numbered' /\ CallsServed' /\ ReadyReachable'
    BY <1>3, <2>2 DEF NoCallAfterStop, Taken, Numbered, CallsServed, ReadyReachable
  <2>6. TeardownAlone'
    BY <1>1, <1>3, <2>2 DEF TeardownAlone, AllLeft
  <2>7. NoOrphans'
    BY <1>1, <1>3, <2>1, <2>2 DEF NoOrphans
  <2>8. HeadInHand' /\ OnlyHead' /\ Unwatched'
    BY <1>1, <1>3, <2>1, <2>2 DEF HeadInHand, OnlyHead, Unwatched, InHand, Settled
  <2> QED BY <2>3, <2>4, <2>5, <2>6, <2>7, <2>8
<1> QED BY <1>2, <1>3 DEF StartOk

LEMMA PublishEntryInv == ASSUME PluginInv, PublishEntry PROVE PluginInv'
<1> USE DEF PluginInv, Books, ClientsSound, graph, ending
<1>1. PICK h : h = P
  OBVIOUS
<1>2. /\ starter = "publish" /\ starter \in AtWork /\ queue # <<>> /\ h \in Plugins
      /\ UNCHANGED <<graph, blamed, procs, tries, call, ending>>
  BY <1>1, HeadFacts DEF PublishEntry, PluginTypes, HeadInHand, InHand, AtWork
<1>3. ~AllLeft /\ down \notin {"work", "done"}
  BY <1>2 DEF TeardownAlone, AllLeft
<1>4. CASE /\ ~stopping /\ Serve(h) /\ Skip /\ mon' = [mon EXCEPT ![h] = "watch"]
           /\ UNCHANGED <<alive, proxies>>
  <2>1. /\ client' \in [Plugins -> 0..MaxProcs] /\ handle' \in [Plugins -> 0..MaxProcs]
        /\ client'[h] = procs[h] /\ handle'[h] = procs[h] /\ Becomes(h, "ready")
        /\ \A q \in Plugins : q # h => client'[q] = client[q] /\ handle'[q] = handle[q]
    BY <1>2, <1>4, ServeEffect
  <2>2. Onwards /\ state' \in [Plugins -> {"discovered", "starting", "ready", "error", "stopped"}]
        /\ Settled(h)' /\ \A q \in Plugins : q # h => state'[q] = state[q]
    BY <1>2, <2>1, BecomesEffect DEF Settled
  <2>3. /\ mon' \in [Plugins -> {"off", "watch", "retry", "restart"}] /\ mon'[h] = "watch"
        /\ \A q \in Plugins : q # h => mon'[q] = mon[q]
    BY <1>2, <1>4, MonEffect DEF Mon
  <2>4. queue' \in Seq(Plugins) /\ starter' = "next"
    BY <1>2, <1>4, HeadFacts DEF PluginTypes, Skip
  <2>5. QueueOrdered'
    BY <1>1, <1>2, <1>4, <2>2, QueueSkipped DEF Skip
  <2>6. HeadInHand' /\ OnlyHead' /\ Unwatched'
    BY <1>1, <1>2, <2>2, <2>3, <2>4 DEF HeadInHand, OnlyHead, Unwatched, Settled, InHand
  <2>7. PluginTypes' /\ PluginTypeOK'
    BY <1>2, <1>4, <2>1, <2>2, <2>3, <2>4 DEF PluginTypes, PluginTypeOK
  <2>8. OrderSound'
    BY <1>2, <2>2 DEF OrderSound, Onwards, Settled
  <2>9. NoCallAfterStop' /\ Numbered' /\ CallsServed'
    BY <1>2, <1>4, <2>1 DEF NoCallAfterStop, Numbered, CallsServed
  <2>10. TeardownAlone' /\ Taken'
    BY <1>2, <1>3 DEF TeardownAlone, Taken
  <2>11. NoOrphans'
    BY <1>1, <1>2, <1>3, <1>4, <2>1, <2>3, ZenonT(40) DEF NoOrphans
  <2>12. ReadyReachable'
    <3> SUFFICES ASSUME NEW p \in Plugins, mon'[p] = "watch" /\ alive'[p], p # h, ~stopping
                 PROVE  \/ handle[p] = client[p]
                        \/ \E c \in Callers : call[c] = [at |-> "kill", p |-> p, n |-> client[p]]
      BY <1>2, <1>4, <2>1, ZenonT(40) DEF ReadyReachable
    <3>1. mon[p] = "watch" /\ alive[p]
      BY <1>4, <2>3
    <3> QED BY <3>1 DEF ReadyReachable
  <2> QED BY <2>5, <2>6, <2>7, <2>8, <2>9, <2>10, <2>11, <2>12
<1>5. CASE /\ stopping /\ proxies' = proxies \ {h} /\ Dead(h) /\ starter' = "done"
           /\ UNCHANGED <<client, handle, state, clock, since, queue, mon>>
  <2>1. /\ alive' \in [Plugins -> BOOLEAN] /\ ~alive'[h]
        /\ \A q \in Plugins : q # h => alive'[q] = alive[q]
    BY <1>2, <1>5, DeadEffect
  <2>2. PluginTypes' /\ PluginTypeOK' /\ OrderSound'
    BY <1>2, <1>5, <2>1 DEF PluginTypes, PluginTypeOK, OrderSound
  <2>3. HeadInHand' /\ OnlyHead' /\ Unwatched' /\ QueueOrdered'
    BY <1>5 DEF HeadInHand, OnlyHead, Unwatched, QueueOrdered, Settled, InHand, AtWork
  <2>4. NoCallAfterStop' /\ Numbered' /\ CallsServed'
    BY <1>2, <1>5, <2>1 DEF NoCallAfterStop, Numbered, CallsServed
  <2>5. TeardownAlone' /\ Taken'
    BY <1>2, <1>3 DEF TeardownAlone, Taken
  <2>6. NoOrphans' /\ ReadyReachable'
    BY <1>1, <1>2, <1>3, <1>5, <2>1 DEF NoOrphans, ReadyReachable
  <2> QED BY <2>2, <2>3, <2>4, <2>5, <2>6
<1> QED BY <1>1, <1>4, <1>5 DEF PublishEntry, GateShut

LEMMA StartEndsInv == ASSUME PluginInv, StartEnds PROVE PluginInv'
<1> USE DEF PluginInv, Books, ClientsSound, graph, entry, process, watch, ending, StartEnds
<1>1. PluginTypes' /\ PluginTypeOK' /\ OrderSound'
  BY DEF PluginTypes, PluginTypeOK, OrderSound
<1>2. HeadInHand' /\ OnlyHead' /\ Unwatched' /\ QueueOrdered'
  BY DEF HeadInHand, OnlyHead, Unwatched, QueueOrdered, Settled, InHand, AtWork
<1>3. NoCallAfterStop' /\ Taken' /\ Numbered' /\ CallsServed' /\ ReadyReachable'
  BY DEF NoCallAfterStop, Taken, Numbered, CallsServed, ReadyReachable
<1>4. TeardownAlone' /\ NoOrphans'
  BY DEF TeardownAlone, AllLeft, NoOrphans
<1> QED BY <1>1, <1>2, <1>3, <1>4

(* ---- the monitors ------------------------------------------------------- *)
(* What StartAll has not dealt with yet is left alone by all others.         *)
LEMMA BootKept ==
  ASSUME PluginInv, UNCHANGED <<graph, boot>>,
         \A q \in Plugins : \/ Settled(q) /\ Settled(q)'
                            \/ state'[q] = state[q] /\ mon'[q] = mon[q]
  PROVE  HeadInHand' /\ OnlyHead' /\ Unwatched' /\ QueueOrdered' /\ OrderSound'
<1> USE DEF PluginInv, Books, graph, boot
<1>1. Onwards
  BY DEF Onwards, Settled
<1>2. QueueOrdered'
  BY <1>1, QueueKept
<1>3. OrderSound'
  BY <1>1 DEF OrderSound, Onwards, Settled
<1>4. P' = P /\ starter' = starter /\ queue' = queue
  BY DEF P
<1>5. HeadInHand'
  <2> SUFFICES ASSUME starter \in InHand PROVE state'[P] = "starting"
    BY <1>4 DEF HeadInHand
  <2>1. P \in Plugins /\ state[P] = "starting"
    BY HeadFacts DEF HeadInHand, PluginTypes
  <2> QED BY <2>1 DEF Settled
<1>6. OnlyHead' /\ Unwatched'
  BY <1>4 DEF OnlyHead, Unwatched, Settled
<1> QED BY <1>2, <1>3, <1>5, <1>6

LEMMA MonStopsInv == ASSUME PluginInv, NEW p \in Plugins, MonStops(p) PROVE PluginInv'
<1> USE DEF PluginInv, Books, ClientsSound, graph, entry, process, boot, ending
<1>1. /\ mon' \in [Plugins -> {"off", "watch", "retry", "restart"}] /\ mon'[p] = "off"
      /\ \A q \in Plugins : q # p => mon'[q] = mon[q]
  BY MonEffect DEF MonStops
<1>2. mon[p] = "watch" /\ UNCHANGED <<graph, entry, process, boot, tries, call, ending>>
  BY DEF MonStops
<1>3. HeadInHand' /\ OnlyHead' /\ Unwatched' /\ QueueOrdered' /\ OrderSound'
  BY <1>1, <1>2, BootKept DEF Unwatched, Settled
<1>4. PluginTypes' /\ PluginTypeOK'
  BY <1>1, <1>2 DEF PluginTypes, PluginTypeOK
<1>5. NoCallAfterStop' /\ Taken' /\ Numbered' /\ CallsServed' /\ TeardownAlone'
  BY <1>1, <1>2 DEF NoCallAfterStop, Taken, Numbered, CallsServed, TeardownAlone, AllLeft
<1>6. P' = P
  BY <1>2 DEF P
<1>7. NoOrphans' /\ ReadyReachable'
  BY <1>1, <1>2, <1>6 DEF NoOrphans, ReadyReachable
<1> QED BY <1>3, <1>4, <1>5, <1>7

LEMMA MonExitInv == ASSUME PluginInv, NEW p \in Plugins, MonExit(p) PROVE PluginInv'
<1> USE DEF PluginInv, Books, ClientsSound, graph, process, boot, ending
<1>1. /\ mon[p] = "watch" /\ ~alive[p] /\ ~stopping
      /\ UNCHANGED <<graph, proxies, since, clock, process, boot, call, ending>> /\ P' = P
      /\ \/ mon' = [mon EXCEPT ![p] = "retry"] /\ state' = state
         \/ mon' = [mon EXCEPT ![p] = "off"] /\ Becomes(p, "error")
  BY DEF MonExit, Mon, P
<1>2. /\ client' \in [Plugins -> 0..MaxProcs] /\ client'[p] = None
      /\ \A q \in Plugins : q # p => client'[q] = client[q]
  <2>1. client' = [client EXCEPT ![p] = None] /\ None \in 0..MaxProcs
    BY PluginAssumption DEF MonExit, None
  <2> QED BY <2>1 DEF PluginTypeOK
<1>3. /\ handle' \in [Plugins -> 0..MaxProcs] /\ handle'[p] = None
      /\ \A q \in Plugins : q # p => handle'[q] = handle[q]
  <2>1. handle' = [handle EXCEPT ![p] = IF handle[p] = client[p] THEN None ELSE handle[p]] /\ None \in 0..MaxProcs
    BY PluginAssumption DEF MonExit, Invalidate, None, PluginTypeOK
  <2>2. handle[p] # None => handle[p] = client[p]
    BY DEF NoCallAfterStop
  <2> QED BY <2>1, <2>2 DEF PluginTypeOK
<1>4. /\ mon' \in [Plugins -> {"off", "watch", "retry", "restart"}] /\ mon'[p] \in {"off", "retry"}
      /\ \A q \in Plugins : q # p => mon'[q] = mon[q]
  BY <1>1 DEF PluginTypes
<1>5. /\ state' \in [Plugins -> {"discovered", "starting", "ready", "error", "stopped"}]
      /\ state'[p] \in {state[p], "error"} /\ \A q \in Plugins : q # p => state'[q] = state[q]
  BY <1>1 DEF PluginTypeOK, Becomes
<1>6. Settled(p) /\ Settled(p)'
  BY <1>1, <1>5 DEF Unwatched, Settled
<1>7. HeadInHand' /\ OnlyHead' /\ Unwatched' /\ QueueOrdered' /\ OrderSound'
  BY <1>1, <1>4, <1>5, <1>6, BootKept
<1>8. PluginTypes' /\ PluginTypeOK'
  BY <1>1, <1>2, <1>3, <1>4, <1>5 DEF PluginTypes, PluginTypeOK
<1>9. NoCallAfterStop' /\ Taken' /\ Numbered' /\ CallsServed'
  BY <1>1, <1>2, <1>3 DEF NoCallAfterStop, Taken, Numbered, CallsServed
<1>10. TeardownAlone'
  BY <1>1 DEF TeardownAlone
<1>11. NoOrphans' /\ ReadyReachable'
  BY <1>1, <1>2, <1>3, <1>4 DEF NoOrphans, ReadyReachable
<1> QED BY <1>7, <1>8, <1>9, <1>10, <1>11

LEMMA GiveUpInv == ASSUME PluginInv, NEW p \in Plugins, GiveUp(p) PROVE PluginInv'
<1> USE DEF PluginInv, Books, ClientsSound, graph, process, boot, ending
<1>1. /\ mon[p] = "retry" /\ Mon(p, "off") /\ Becomes(p, "error") /\ P' = P
      /\ UNCHANGED <<graph, client, handle, proxies, since, clock, process, boot, tries, call, ending>>
  BY DEF GiveUp, P
<1>2. /\ mon' \in [Plugins -> {"off", "watch", "retry", "restart"}] /\ mon'[p] = "off"
      /\ \A q \in Plugins : q # p => mon'[q] = mon[q]
  BY <1>1, MonEffect
<1>3. /\ state' \in [Plugins -> {"discovered", "starting", "ready", "error", "stopped"}]
      /\ state'[p] = "error" /\ \A q \in Plugins : q # p => state'[q] = state[q]
  BY <1>1, BecomesEffect
<1>4. Settled(p) /\ Settled(p)'
  BY <1>1, <1>3 DEF Unwatched, Settled
<1>5. HeadInHand' /\ OnlyHead' /\ Unwatched' /\ QueueOrdered' /\ OrderSound'
  BY <1>1, <1>2, <1>3, <1>4, BootKept
<1>6. PluginTypes' /\ PluginTypeOK'
  BY <1>1, <1>2, <1>3 DEF PluginTypes, PluginTypeOK
<1>7. NoCallAfterStop' /\ Taken' /\ Numbered' /\ CallsServed' /\ TeardownAlone'
  BY <1>1, <1>2 DEF NoCallAfterStop, Taken, Numbered, CallsServed, TeardownAlone, AllLeft
<1>8. NoOrphans' /\ ReadyReachable'
  BY <1>1, <1>2 DEF NoOrphans, ReadyReachable
<1> QED BY <1>5, <1>6, <1>7, <1>8

LEMMA RelaunchInv == ASSUME PluginInv, NEW p \in Plugins, Relaunch(p) PROVE PluginInv'
<1> USE DEF PluginInv, Books, ClientsSound, graph, entry, boot, ending
<1>1. /\ mon[p] = "retry" /\ ~stopping /\ P' = P
      /\ UNCHANGED <<graph, entry, boot, call, ending>>
      /\ \/ procs[p] < MaxProcs /\ Spawned(p) /\ Mon(p, "restart")
         \/ UNCHANGED <<process, mon>>
  BY DEF Relaunch, P
<1>2. CASE UNCHANGED <<process, mon>>
  <2> USE DEF process
  <2>1. HeadInHand' /\ OnlyHead' /\ Unwatched' /\ QueueOrdered' /\ OrderSound'
    BY <1>1, <1>2, BootKept
  <2>2. PluginTypes' /\ PluginTypeOK'
    BY <1>1, <1>2 DEF PluginTypes, PluginTypeOK
  <2>3. NoCallAfterStop' /\ Taken' /\ Numbered' /\ CallsServed' /\ TeardownAlone'
    BY <1>1, <1>2 DEF NoCallAfterStop, Taken, Numbered, CallsServed, TeardownAlone, AllLeft
  <2>4. NoOrphans' /\ ReadyReachable'
    BY <1>1, <1>2 DEF NoOrphans, ReadyReachable
  <2> QED BY <2>1, <2>2, <2>3, <2>4
<1>3. CASE procs[p] < MaxProcs /\ Spawned(p) /\ Mon(p, "restart")
  <2>1. /\ mon' \in [Plugins -> {"off", "watch", "retry", "restart"}] /\ mon'[p] = "restart"
        /\ \A q \in Plugins : q # p => mon'[q] = mon[q]
    BY <1>3, MonEffect
  <2>2. /\ alive' \in [Plugins -> BOOLEAN] /\ procs' \in [Plugins -> 0..MaxProcs]
        /\ procs'[p] # 0 /\ \A q \in Plugins : q # p => alive'[q] = alive[q] /\ procs'[q] = procs[q]
    BY <1>3, SpawnedEffect
  <2>3. Settled(p) /\ Settled(p)'
    BY <1>1 DEF Unwatched, Settled
  <2>4. HeadInHand' /\ OnlyHead' /\ Unwatched' /\ QueueOrdered' /\ OrderSound'
    BY <1>1, <2>1, <2>3, BootKept
  <2>5. PluginTypes' /\ PluginTypeOK'
    BY <1>1, <2>1, <2>2 DEF PluginTypes, PluginTypeOK
  <2>6. NoCallAfterStop' /\ Taken' /\ CallsServed' /\ TeardownAlone'
    BY <1>1 DEF NoCallAfterStop, Taken, CallsServed, TeardownAlone
  <2>7. Numbered'
    BY <2>2 DEF Numbered
  <2>8. NoOrphans'
    BY <1>1, <2>1, <2>2 DEF NoOrphans, TeardownAlone
  <2>9. ReadyReachable'
    <3> SUFFICES ASSUME NEW q \in Plugins, mon'[q] = "watch" /\ alive'[q], ~stopping
                 PROVE  \/ handle[q] = client[q]
                        \/ \E c \in Callers : call[c] = [at |-> "kill", p |-> q, n |-> client[q]]
      BY <1>1 DEF ReadyReachable
    <3>1. mon[q] = "watch" /\ alive[q]
      BY <2>1, <2>2
    <3> QED BY <3>1 DEF ReadyReachable
  <2> QED BY <2>4, <2>5, <2>6, <2>7, <2>8, <2>9
<1> QED BY <1>1, <1>2, <1>3

LEMMA RestartFailsInv == ASSUME PluginInv, NEW p \in Plugins, RestartFails(p) PROVE PluginInv'
<1> USE DEF PluginInv, Books, ClientsSound, graph, entry, boot, ending
<1>1. /\ mon[p] = "restart" /\ Dead(p) /\ Mon(p, "retry") /\ P' = P
      /\ UNCHANGED <<graph, entry, procs, boot, tries, call, ending>>
  BY DEF RestartFails, P
<1>2. /\ mon' \in [Plugins -> {"off", "watch", "retry", "restart"}] /\ mon'[p] = "retry"
      /\ \A q \in Plugins : q # p => mon'[q] = mon[q]
  BY <1>1, MonEffect
<1>3. /\ alive' \in [Plugins -> BOOLEAN] /\ ~alive'[p]
      /\ \A q \in Plugins : q # p => alive'[q] = alive[q]
  BY <1>1, DeadEffect
<1>4. Settled(p) /\ Settled(p)'
  BY <1>1 DEF Unwatched, Settled
<1>5. HeadInHand' /\ OnlyHead' /\ Unwatched' /\ QueueOrdered' /\ OrderSound'
  BY <1>1, <1>2, <1>4, BootKept
<1>6. PluginTypes' /\ PluginTypeOK'
  BY <1>1, <1>2, <1>3 DEF PluginTypes, PluginTypeOK
<1>7. NoCallAfterStop' /\ Taken' /\ Numbered' /\ CallsServed'
  BY <1>1, <1>3 DEF NoCallAfterStop, Taken, Numbered, CallsServed
<1>8. TeardownAlone'
  BY <1>1, <1>2 DEF TeardownAlone, AllLeft
<1>9. NoOrphans' /\ ReadyReachable'
  BY <1>1, <1>2, <1>3 DEF NoOrphans, ReadyReachable
<1> QED BY <1>5, <1>6, <1>7, <1>8, <1>9

LEMMA RepublishInv == ASSUME PluginInv, NEW p \in Plugins, Republish(p) PROVE PluginInv'
<1> USE DEF PluginInv, Books, ClientsSound, graph, boot, ending
<1>1. /\ mon[p] = "restart" /\ P' = P
      /\ UNCHANGED <<graph, proxies, procs, boot, tries, call, ending>>
  BY DEF Republish, P
<1>2. down \notin {"work", "done"}
  BY <1>1 DEF TeardownAlone, AllLeft
<1>3. CASE Dead(p) /\ Mon(p, "off") /\ Becomes(p, "error") /\ UNCHANGED <<client, handle, clock, since>>
  <2>1. /\ mon' \in [Plugins -> {"off", "watch", "retry", "restart"}] /\ mon'[p] = "off"
        /\ \A q \in Plugins : q # p => mon'[q] = mon[q]
    BY <1>3, MonEffect
  <2>2. /\ alive' \in [Plugins -> BOOLEAN] /\ ~alive'[p]
        /\ \A q \in Plugins : q # p => alive'[q] = alive[q]
    BY <1>3, DeadEffect
  <2>3. /\ state' \in [Plugins -> {"discovered", "starting", "ready", "error", "stopped"}]
        /\ state'[p] = "error" /\ \A q \in Plugins : q # p => state'[q] = state[q]
    BY <1>3, BecomesEffect
  <2>4. Settled(p) /\ Settled(p)'
    BY <1>1, <2>3 DEF Unwatched, Settled
  <2>5. HeadInHand' /\ OnlyHead' /\ Unwatched' /\ QueueOrdered' /\ OrderSound'
    BY <1>1, <2>1, <2>3, <2>4, BootKept
  <2>6. PluginTypes' /\ PluginTypeOK'
    BY <1>1, <1>3, <2>1, <2>2, <2>3 DEF PluginTypes, PluginTypeOK
  <2>7. NoCallAfterStop' /\ Taken' /\ Numbered' /\ CallsServed' /\ TeardownAlone'
    BY <1>1, <1>2, <1>3, <2>2 DEF NoCallAfterStop, Taken, Numbered, CallsServed, TeardownAlone
  <2>8. NoOrphans' /\ ReadyReachable'
    BY <1>1, <1>3, <2>1, <2>2 DEF NoOrphans, ReadyReachable
  <2> QED BY <2>5, <2>6, <2>7, <2>8
<1>4. CASE ~stopping /\ handle[p] = None /\ Serve(p) /\ Mon(p, "watch") /\ UNCHANGED alive
  <2>1. /\ mon' \in [Plugins -> {"off", "watch", "retry", "restart"}] /\ mon'[p] = "watch"
        /\ \A q \in Plugins : q # p => mon'[q] = mon[q]
    BY <1>4, MonEffect
  <2>2. /\ client' \in [Plugins -> 0..MaxProcs] /\ handle' \in [Plugins -> 0..MaxProcs]
        /\ client'[p] = procs[p] /\ handle'[p] = procs[p] /\ Becomes(p, "ready")
        /\ \A q \in Plugins : q # p => client'[q] = client[q] /\ handle'[q] = handle[q]
    BY <1>4, ServeEffect
  <2>3. /\ state' \in [Plugins -> {"discovered", "starting", "ready", "error", "stopped"}]
        /\ state'[p] = "ready" /\ \A q \in Plugins : q # p => state'[q] = state[q]
    BY <2>2, BecomesEffect
  <2>4. Settled(p) /\ Settled(p)'
    BY <1>1, <2>3 DEF Unwatched, Settled
  <2>5. HeadInHand' /\ OnlyHead' /\ Unwatched' /\ QueueOrdered' /\ OrderSound'
    BY <1>1, <2>1, <2>3, <2>4, BootKept
  <2>6. PluginTypes' /\ PluginTypeOK'
    BY <1>1, <1>4, <2>1, <2>2, <2>3 DEF PluginTypes, PluginTypeOK
  <2>7. NoCallAfterStop' /\ Numbered' /\ CallsServed'
    BY <1>1, <1>4, <2>2 DEF NoCallAfterStop, Numbered, CallsServed
  <2>8. TeardownAlone' /\ Taken'
    BY <1>1, <1>2 DEF TeardownAlone, Taken
  <2>9. NoOrphans'
    BY <1>1, <1>4, <2>1, <2>2 DEF NoOrphans
  <2>10. ReadyReachable'
    <3> SUFFICES ASSUME NEW q \in Plugins, mon'[q] = "watch" /\ alive'[q], q # p, ~stopping
                 PROVE  \/ handle[q] = client[q]
                        \/ \E c \in Callers : call[c] = [at |-> "kill", p |-> q, n |-> client[q]]
      BY <1>1, <1>4, <2>2 DEF ReadyReachable
    <3>1. mon[q] = "watch" /\ alive[q]
      BY <1>4, <2>1
    <3> QED BY <3>1 DEF ReadyReachable
  <2> QED BY <2>5, <2>6, <2>7, <2>8, <2>9, <2>10
<1> QED BY <1>3, <1>4 DEF Republish, GateShut

LEMMA CrashInv == ASSUME PluginInv, NEW p \in Plugins, Crash(p) PROVE PluginInv'
<1> USE DEF PluginInv, Books, ClientsSound, graph, entry, boot, watch, ending
<1>1. Dead(p) /\ P' = P /\ UNCHANGED <<graph, entry, procs, boot, watch, call, ending>>
  BY DEF Crash, P
<1>2. /\ alive' \in [Plugins -> BOOLEAN] /\ ~alive'[p]
      /\ \A q \in Plugins : q # p => alive'[q] = alive[q]
  BY <1>1, DeadEffect
<1>3. HeadInHand' /\ OnlyHead' /\ Unwatched' /\ QueueOrdered' /\ OrderSound'
  BY <1>1, BootKept
<1>4. PluginTypes' /\ PluginTypeOK'
  BY <1>1, <1>2 DEF PluginTypes, PluginTypeOK
<1>5. NoCallAfterStop' /\ Taken' /\ Numbered' /\ CallsServed' /\ TeardownAlone'
  BY <1>1, <1>2 DEF NoCallAfterStop, Taken, Numbered, CallsServed, TeardownAlone, AllLeft
<1>6. NoOrphans' /\ ReadyReachable'
  BY <1>1, <1>2 DEF NoOrphans, ReadyReachable
<1> QED BY <1>3, <1>4, <1>5, <1>6

(* ---- the calls ---------------------------------------------------------- *)
(* A step of a caller that touches neither StartAll nor a monitor nor the    *)
(* teardown.                                                                 *)
LEMMA CallerKept ==
  ASSUME PluginInv,
         UNCHANGED <<graph, state, client, proxies, since, clock, procs, boot, watch, ending>>,
         call' \in [Callers -> [at : {"free", "invoke", "kill"}, p : Nat, n : 0..MaxProcs]],
         alive' \in [Plugins -> BOOLEAN], handle' \in [Plugins -> 0..MaxProcs],
         \A p \in Plugins : alive'[p] => alive[p],
         \A p \in Plugins : handle'[p] \in {handle[p], None},
         \A c \in Callers : call'[c].at # "free" => call'[c].p \in Plugins /\ call'[c].n # None,
         \A p \in Plugins : mon[p] = "watch" /\ alive'[p] /\ ~stopping =>
           \/ handle'[p] = client[p]
           \/ \E c \in Callers : call'[c] = [at |-> "kill", p |-> p, n |-> client[p]]
  PROVE  PluginInv'
<1> USE DEF PluginInv, Books, ClientsSound, graph, boot, watch, ending
<1>1. P' = P
  BY DEF P
<1>2. HeadInHand' /\ OnlyHead' /\ Unwatched' /\ QueueOrdered' /\ OrderSound'
  BY BootKept
<1>3. PluginTypes' /\ PluginTypeOK'
  BY DEF PluginTypes, PluginTypeOK
<1>4. NoCallAfterStop' /\ Taken' /\ Numbered' /\ TeardownAlone'
  BY DEF NoCallAfterStop, Taken, Numbered, TeardownAlone, AllLeft
<1>5. NoOrphans'
  BY <1>1 DEF NoOrphans
<1>6. ReadyReachable' /\ CallsServed'
  BY DEF ReadyReachable, CallsServed
<1> QED BY <1>2, <1>3, <1>4, <1>5, <1>6

LEMMA CallInv == ASSUME PluginInv, NEW c \in Callers, NEW p \in Plugins, Call(c, p) PROVE PluginInv'
<1> USE DEF PluginInv, Books, ClientsSound, graph, entry, process, boot, watch, ending
<1>1. PICK x : x = [at |-> "invoke", p |-> p, n |-> handle[p]]
  OBVIOUS
<1>2. /\ call[c].at = "free" /\ handle[p] # None /\ call' = [call EXCEPT ![c] = x]
      /\ UNCHANGED <<graph, entry, process, boot, watch, ending>>
  BY <1>1 DEF Call
<1>3. /\ x \in [at : {"free", "invoke", "kill"}, p : Nat, n : 0..MaxProcs]
      /\ x.at = "invoke" /\ x.p \in Plugins /\ x.n # None
  <2>1. handle[p] \in 0..MaxProcs /\ p \in Nat
    BY DEF Plugins, PluginTypeOK
  <2> QED BY <1>1, <1>2, <2>1
<1>4. /\ call' \in [Callers -> [at : {"free", "invoke", "kill"}, p : Nat, n : 0..MaxProcs]]
      /\ call'[c] = x /\ \A d \in Callers : d # c => call'[d] = call[d]
  BY <1>2, <1>3 DEF PluginTypes
<1>5. \A d \in Callers : call'[d].at # "free" => call'[d].p \in Plugins /\ call'[d].n # None
  BY <1>3, <1>4 DEF CallsServed
<1>6. \A q \in Plugins : mon[q] = "watch" /\ alive'[q] /\ ~stopping =>
           \/ handle'[q] = client[q]
           \/ \E d \in Callers : call'[d] = [at |-> "kill", p |-> q, n |-> client[q]]
  <2> SUFFICES ASSUME NEW q \in Plugins, mon[q] = "watch" /\ alive[q] /\ ~stopping,
                      handle[q] # client[q]
               PROVE  \E d \in Callers : call'[d] = [at |-> "kill", p |-> q, n |-> client[q]]
    BY <1>2
  <2>1. PICK d \in Callers : call[d] = [at |-> "kill", p |-> q, n |-> client[q]]
    BY DEF ReadyReachable
  <2>2. d # c
    BY <1>2, <2>1
  <2> QED BY <1>4, <2>1, <2>2
<1>7. /\ alive' \in [Plugins -> BOOLEAN] /\ handle' \in [Plugins -> 0..MaxProcs]
      /\ \A q \in Plugins : (alive'[q] => alive[q]) /\ handle'[q] \in {handle[q], None}
  BY <1>2 DEF PluginTypeOK
<1> QED BY <1>2, <1>4, <1>5, <1>6, <1>7, CallerKept

LEMMA FreeTyped ==
  Free \in [at : {"free", "invoke", "kill"}, p : Nat, n : 0..MaxProcs] /\ Free.at = "free"
BY PluginAssumption DEF Free, None

(* A caller that did not hold back a kill leaves.                            *)
LEMMA LeaveInv ==
  ASSUME PluginInv, NEW c \in Callers, call[c].at = "invoke", call' = [call EXCEPT ![c] = Free],
         UNCHANGED <<graph, entry, process, boot, watch, ending>>
  PROVE  PluginInv'
<1> USE DEF PluginInv, Books, ClientsSound, graph, entry, process, boot, watch, ending
<1>1. /\ call' \in [Callers -> [at : {"free", "invoke", "kill"}, p : Nat, n : 0..MaxProcs]]
      /\ call'[c].at = "free" /\ \A d \in Callers : d # c => call'[d] = call[d]
  BY FreeTyped DEF PluginTypes
<1>2. \A d \in Callers : call'[d].at # "free" => call'[d].p \in Plugins /\ call'[d].n # None
  BY <1>1 DEF CallsServed
<1>3. \A q \in Plugins : mon[q] = "watch" /\ alive'[q] /\ ~stopping =>
           \/ handle'[q] = client[q]
           \/ \E d \in Callers : call'[d] = [at |-> "kill", p |-> q, n |-> client[q]]
  <2> SUFFICES ASSUME NEW q \in Plugins, mon[q] = "watch" /\ alive[q] /\ ~stopping,
                      handle[q] # client[q]
               PROVE  \E d \in Callers : call'[d] = [at |-> "kill", p |-> q, n |-> client[q]]
    OBVIOUS
  <2>1. PICK d \in Callers : call[d] = [at |-> "kill", p |-> q, n |-> client[q]]
    BY DEF ReadyReachable
  <2>2. d # c
    BY <2>1
  <2> QED BY <1>1, <2>1, <2>2
<1>4. /\ alive' \in [Plugins -> BOOLEAN] /\ handle' \in [Plugins -> 0..MaxProcs]
      /\ \A q \in Plugins : (alive'[q] => alive[q]) /\ handle'[q] \in {handle[q], None}
  BY DEF PluginTypeOK
<1> QED BY <1>1, <1>2, <1>3, <1>4, CallerKept

LEMMA ReturnsInv == ASSUME PluginInv, NEW c \in Callers, Returns(c) PROVE PluginInv'
BY LeaveInv DEF Returns

LEMMA BadAnswerInv == ASSUME PluginInv, NEW c \in Callers, BadAnswer(c) PROVE PluginInv'
<1> USE DEF PluginInv, Books, ClientsSound, graph, process, boot, watch, ending
<1>1. PICK p : p = call[c].p
  OBVIOUS
<1>2. PICK n : n = call[c].n
  OBVIOUS
<1>3. /\ call[c].at = "invoke" /\ p \in Plugins /\ n # None
      /\ UNCHANGED <<graph, state, client, proxies, since, clock, process, boot, watch, ending>>
  BY <1>1, <1>2 DEF BadAnswer, CallsServed
<1>4. CASE ~Mine(p, n)
  <2>1. handle' = handle /\ call' = [call EXCEPT ![c] = Free]
    BY <1>1, <1>2, <1>4 DEF BadAnswer
  <2> QED BY <1>3, <2>1, LeaveInv DEF entry
<1>5. CASE Mine(p, n)
  <2>1. handle[p] = n /\ handle' = [handle EXCEPT ![p] = None] /\ call' = [call EXCEPT ![c].at = "kill"]
    BY <1>1, <1>2, <1>5 DEF BadAnswer, Mine
  <2>2. n = client[p]
    BY <1>3, <2>1 DEF NoCallAfterStop
  <2>3. PICK x : x = [at |-> "kill", p |-> p, n |-> n]
    OBVIOUS
  <2>4. call[c] \in [at : {"free", "invoke", "kill"}, p : Nat, n : 0..MaxProcs]
    BY DEF PluginTypes
  <2>5. call[c] = [at |-> "invoke", p |-> p, n |-> n] /\ p \in Nat /\ n \in 0..MaxProcs
    BY <1>1, <1>2, <1>3, <2>4
  <2>6. call' = [call EXCEPT ![c] = x]
    <3>1. call' = [call EXCEPT ![c] = [call[c] EXCEPT !.at = "kill"]]
      BY <2>1
    <3>2. [call[c] EXCEPT !.at = "kill"] = x
      BY <2>3, <2>5
    <3> QED BY <3>1, <3>2
  <2>7. x \in [at : {"free", "invoke", "kill"}, p : Nat, n : 0..MaxProcs] /\ x.p = p /\ x.n = n
    BY <2>3, <2>5
  <2>8. /\ call' \in [Callers -> [at : {"free", "invoke", "kill"}, p : Nat, n : 0..MaxProcs]]
        /\ call'[c] = x /\ \A d \in Callers : d # c => call'[d] = call[d]
    BY <2>6, <2>7 DEF PluginTypes
  <2>9. \A d \in Callers : call'[d].at # "free" => call'[d].p \in Plugins /\ call'[d].n # None
    BY <1>3, <2>7, <2>8 DEF CallsServed
  <2>10. /\ handle' \in [Plugins -> 0..MaxProcs] /\ handle'[p] = None
         /\ \A q \in Plugins : q # p => handle'[q] = handle[q]
    <3>1. None \in 0..MaxProcs
      BY PluginAssumption DEF None
    <3> QED BY <1>3, <2>1, <3>1 DEF PluginTypeOK
  <2>11. \A q \in Plugins : mon[q] = "watch" /\ alive'[q] /\ ~stopping =>
           \/ handle'[q] = client[q]
           \/ \E d \in Callers : call'[d] = [at |-> "kill", p |-> q, n |-> client[q]]
    <3> SUFFICES ASSUME NEW q \in Plugins, mon[q] = "watch" /\ alive[q] /\ ~stopping,
                        handle'[q] # client[q]
                 PROVE  \E d \in Callers : call'[d] = [at |-> "kill", p |-> q, n |-> client[q]]
      BY <1>3
    <3>1. CASE q = p
      BY <2>2, <2>3, <2>8, <3>1
    <3>2. CASE q # p
      <4>1. PICK d \in Callers : call[d] = [at |-> "kill", p |-> q, n |-> client[q]]
        BY <2>10, <3>2 DEF ReadyReachable
      <4>2. d # c
        BY <1>3, <4>1
      <4> QED BY <2>8, <4>1, <4>2
    <3> QED BY <3>1, <3>2
  <2>12. alive' \in [Plugins -> BOOLEAN] /\ \A q \in Plugins : alive'[q] => alive[q]
    BY <1>3 DEF PluginTypeOK
  <2>13. \A q \in Plugins : handle'[q] \in {handle[q], None}
    BY <2>10
  <2> QED BY <1>3, <2>8, <2>9, <2>10, <2>11, <2>12, <2>13, CallerKept
<1> QED BY <1>4, <1>5

LEMMA KillInv == ASSUME PluginInv, NEW c \in Callers, Kill(c) PROVE PluginInv'
<1> USE DEF PluginInv, Books, ClientsSound, graph, entry, boot, watch, ending
<1>1. PICK p : p = call[c].p
  OBVIOUS
<1>2. PICK n : n = call[c].n
  OBVIOUS
<1>3. /\ call[c].at = "kill" /\ p \in Plugins /\ call' = [call EXCEPT ![c] = Free]
      /\ UNCHANGED <<graph, entry, procs, boot, watch, ending>>
      /\ IF procs[p] = n THEN Dead(p) ELSE alive' = alive
  BY <1>1, <1>2 DEF Kill, CallsServed
<1>4. /\ alive' \in [Plugins -> BOOLEAN] /\ \A q \in Plugins : alive'[q] => alive[q]
      /\ procs[p] = n => ~alive'[p]
  <2>1. CASE procs[p] = n
    <3>1. /\ alive' \in [Plugins -> BOOLEAN] /\ ~alive'[p]
          /\ \A q \in Plugins : q # p => alive'[q] = alive[q]
      BY <1>3, <2>1, DeadEffect
    <3> QED BY <3>1
  <2>2. CASE procs[p] # n
    BY <1>3, <2>2 DEF PluginTypeOK
  <2> QED BY <2>1, <2>2
<1>5. /\ call' \in [Callers -> [at : {"free", "invoke", "kill"}, p : Nat, n : 0..MaxProcs]]
      /\ call'[c].at = "free" /\ \A d \in Callers : d # c => call'[d] = call[d]
  BY <1>3, FreeTyped DEF PluginTypes
<1>6. \A d \in Callers : call'[d].at # "free" => call'[d].p \in Plugins /\ call'[d].n # None
  BY <1>5 DEF CallsServed
<1>7. \A q \in Plugins : mon[q] = "watch" /\ alive'[q] /\ ~stopping =>
           \/ handle'[q] = client[q]
           \/ \E d \in Callers : call'[d] = [at |-> "kill", p |-> q, n |-> client[q]]
  <2> SUFFICES ASSUME NEW q \in Plugins, mon[q] = "watch" /\ alive'[q] /\ ~stopping,
                      handle[q] # client[q]
               PROVE  \E d \in Callers : call'[d] = [at |-> "kill", p |-> q, n |-> client[q]]
    BY <1>3
  <2>1. alive[q]
    BY <1>4
  <2>2. PICK d \in Callers : call[d] = [at |-> "kill", p |-> q, n |-> client[q]]
    BY <2>1 DEF ReadyReachable
  <2>3. client[q] = procs[q]
    <3>1. starter \in InHand => P # q
      BY DEF HeadInHand, Unwatched, Settled
    <3> QED BY <2>1, <3>1 DEF NoOrphans, InHand
  <2>4. d # c
    <3> SUFFICES ASSUME d = c PROVE FALSE
      OBVIOUS
    <3>1. p = q /\ n = procs[p]
      BY <1>1, <1>2, <2>2, <2>3
    <3> QED BY <1>4, <3>1
  <2> QED BY <1>5, <2>2, <2>4
<1>8. handle' \in [Plugins -> 0..MaxProcs] /\ \A q \in Plugins : handle'[q] \in {handle[q], None}
  BY <1>3 DEF PluginTypeOK
<1> QED BY <1>3, <1>4, <1>5, <1>6, <1>7, <1>8, CallerKept

(* ---- StopAll ------------------------------------------------------------ *)
LEMMA StopAllInv == ASSUME PluginInv, StopAll PROVE PluginInv'
<1> USE DEF PluginInv, Books, ClientsSound, graph, process, watch, ending
<1>1. /\ ~stopping /\ stopping' = TRUE /\ handle' = [p \in Plugins |-> None] /\ down = "off"
      /\ down' = "wait" /\ left' = Plugins
      /\ starter' = IF starter = "off" THEN "done" ELSE starter
      /\ UNCHANGED <<graph, state, client, proxies, since, clock, process, queue, blamed, watch, call>>
  BY DEF StopAll, TeardownAlone
<1>2. PluginTypes' /\ PluginTypeOK'
  <2>1. None \in 0..MaxProcs
    BY PluginAssumption DEF None
  <2> QED BY <1>1, <2>1 DEF PluginTypes, PluginTypeOK
<1>3. QueueOrdered' /\ OrderSound'
  BY <1>1, QueueKept DEF Onwards, Settled, AtWork, OrderSound
<1>4. P' = P
  BY <1>1 DEF P
<1>5. HeadInHand' /\ OnlyHead' /\ Unwatched'
  BY <1>1, <1>4 DEF HeadInHand, OnlyHead, Unwatched, Settled, InHand
<1>6. NoCallAfterStop' /\ Taken' /\ Numbered' /\ CallsServed' /\ TeardownAlone' /\ ReadyReachable'
  BY <1>1 DEF NoCallAfterStop, Taken, Numbered, CallsServed, TeardownAlone, ReadyReachable
<1>7. NoOrphans'
  BY <1>1, <1>4 DEF NoOrphans
<1> QED BY <1>2, <1>3, <1>5, <1>6, <1>7

LEMMA GatheredInv == ASSUME PluginInv, Gathered PROVE PluginInv'
<1> USE DEF PluginInv, Books, ClientsSound, graph, entry, process, boot, watch
<1>1. /\ AllLeft /\ down = "wait" /\ down' = "work" /\ P' = P /\ stopping
      /\ UNCHANGED <<graph, entry, process, boot, watch, call, stopping, left>>
  BY DEF Gathered, P, TeardownAlone
<1>2. PluginTypes' /\ PluginTypeOK'
  BY <1>1 DEF PluginTypes, PluginTypeOK
<1>3. HeadInHand' /\ OnlyHead' /\ Unwatched' /\ QueueOrdered' /\ OrderSound'
  BY <1>1, BootKept
<1>4. NoCallAfterStop' /\ Numbered' /\ CallsServed' /\ TeardownAlone' /\ ReadyReachable'
  BY <1>1 DEF NoCallAfterStop, Numbered, CallsServed, TeardownAlone, AllLeft, ReadyReachable
<1>5. NoOrphans'
  BY <1>1 DEF NoOrphans
<1>6. Taken'
  BY <1>1 DEF Taken
<1> QED BY <1>2, <1>3, <1>4, <1>5, <1>6

LEMMA StopInv == ASSUME PluginInv, Stop PROVE PluginInv'
<1> USE DEF PluginInv, Books, ClientsSound, graph, boot, watch
<1>1. PICK p : p = Latest
  OBVIOUS
<1>2. /\ down = "work" /\ left' = left \ {p} /\ client' = [client EXCEPT ![p] = None]
      /\ IF client[p] = None
           THEN /\ state' = [state EXCEPT ![p] = IF state[p] = "error" THEN "error" ELSE "stopped"]
                /\ UNCHANGED <<alive, proxies>>
           ELSE Dead(p) /\ proxies' = proxies \ {p} /\ Becomes(p, "stopped")
      /\ UNCHANGED <<graph, handle, since, clock, procs, boot, watch, call, stopping, down>> /\ P' = P
  BY <1>1 DEF Stop, P
<1>3. AllLeft /\ stopping
  BY <1>2 DEF TeardownAlone
<1>4. /\ client' \in [Plugins -> 0..MaxProcs]
      /\ \A q \in Plugins : client'[q] = IF q = p THEN None ELSE client[q]
  <2>1. None \in 0..MaxProcs
    BY PluginAssumption DEF None
  <2> QED BY <1>2, <2>1 DEF PluginTypeOK
<1>5. /\ state' \in [Plugins -> {"discovered", "starting", "ready", "error", "stopped"}]
      /\ \A q \in Plugins : IF q = p THEN state'[q] \in {"stopped", "error"} ELSE state'[q] = state[q]
  BY <1>2 DEF PluginTypeOK, Becomes
<1>6. /\ alive' \in [Plugins -> BOOLEAN]
      /\ \A q \in Plugins : IF q = p THEN alive'[q] => client[q] = None /\ alive[q]
                                     ELSE alive'[q] = alive[q]
  BY <1>2 DEF PluginTypeOK, Dead
<1>7. \A q \in Plugins : alive[q] => client[q] # None
  <2> SUFFICES ASSUME NEW q \in Plugins, alive[q] PROVE client[q] # None
    OBVIOUS
  <2>1. client[q] = procs[q]
    BY <1>3 DEF NoOrphans, AllLeft
  <2> QED BY <2>1 DEF Numbered, None
<1>8. PluginTypes' /\ PluginTypeOK'
  BY <1>2, <1>4, <1>5, <1>6 DEF PluginTypes, PluginTypeOK
<1>9. Onwards
  BY <1>5 DEF Onwards, Settled
<1>10. QueueOrdered' /\ HeadInHand'
  BY <1>2, <1>3 DEF QueueOrdered, HeadInHand, AllLeft, AtWork, InHand
<1>11. OnlyHead' /\ Unwatched'
  BY <1>2, <1>3 DEF OnlyHead, Unwatched, AllLeft
<1>12. OrderSound'
  BY <1>2, <1>9 DEF OrderSound, Onwards, Settled
<1>13. NoCallAfterStop' /\ Numbered' /\ CallsServed' /\ TeardownAlone' /\ ReadyReachable'
  BY <1>2, <1>3, <1>6 DEF NoCallAfterStop, Numbered, CallsServed, TeardownAlone, AllLeft, ReadyReachable
<1>14. NoOrphans'
  BY <1>2, <1>3, <1>4, <1>6, <1>7 DEF NoOrphans, AllLeft
<1>15. Taken'
  BY <1>2, <1>4 DEF Taken
<1> QED BY <1>8, <1>10, <1>11, <1>12, <1>13, <1>14, <1>15

LEMMA StoppedInv == ASSUME PluginInv, Stopped PROVE PluginInv'
<1> USE DEF PluginInv, Books, ClientsSound, graph, entry, process, boot, watch
<1>1. /\ down = "work" /\ left = {} /\ down' = "done" /\ P' = P
      /\ UNCHANGED <<graph, entry, process, boot, watch, call, stopping, left>>
  BY DEF Stopped, P
<1>2. AllLeft /\ stopping
  BY <1>1 DEF TeardownAlone
<1>3. PluginTypes' /\ PluginTypeOK'
  BY <1>1 DEF PluginTypes, PluginTypeOK
<1>4. HeadInHand' /\ OnlyHead' /\ Unwatched' /\ QueueOrdered' /\ OrderSound'
  BY <1>1, BootKept
<1>5. NoCallAfterStop' /\ Numbered' /\ CallsServed' /\ TeardownAlone' /\ ReadyReachable' /\ Taken'
  BY <1>1 DEF NoCallAfterStop, Numbered, CallsServed, TeardownAlone, AllLeft, ReadyReachable, Taken
<1>6. \A q \in Plugins : ~alive[q]
  <2> SUFFICES ASSUME NEW q \in Plugins, alive[q] PROVE FALSE
    OBVIOUS
  <2>1. client[q] = procs[q]
    BY <1>2 DEF NoOrphans, AllLeft
  <2>2. client[q] = None
    BY <1>1 DEF Taken
  <2> QED BY <2>1, <2>2 DEF Numbered, None
<1>7. NoOrphans'
  BY <1>1, <1>6 DEF NoOrphans
<1> QED BY <1>3, <1>4, <1>5, <1>7

(* ---- the manager -------------------------------------------------------- *)
LEMMA ResolveInv == ASSUME PluginInv, Resolve PROVE PluginInv'
<1> USE DEF PluginInv, Books, ClientsSound, graph, process, watch, ending
<1>1. /\ starter = "off" /\ ~stopping /\ down = "off"
      /\ UNCHANGED <<graph, blamed, client, handle, proxies, since, clock, process, watch, call, ending>>
  BY DEF Resolve, TeardownAlone
<1>2. /\ state' \in [Plugins -> {"discovered", "starting", "ready", "error", "stopped"}]
      /\ \A p \in Plugins : state'[p] \in {state[p], "error", "stopped"}
  BY DEF Resolve, PluginTypeOK
<1>3. Onwards
  BY <1>2 DEF Onwards, Settled
<1>4. \/ queue' = Order /\ starter' = "next"
      \/ queue' = queue /\ starter' = "done"
  BY DEF Resolve
<1>5. PluginTypes' /\ PluginTypeOK' /\ OrderSound'
  <2>1. OrderSound'
    BY <1>1, <1>3 DEF OrderSound, Onwards, Settled
  <2>2. PluginTypeOK'
    BY <1>1, <1>2 DEF PluginTypeOK
  <2>3. PluginTypes'
    BY <1>1, <1>4, OrderInOrder DEF PluginTypes
  <2> QED BY <2>1, <2>2, <2>3
<1>6. QueueOrdered'
  <2>1. needs' = needs
    BY <1>1
  <2>2. CASE queue' = Order
    BY <2>1, <2>2, OrderInOrder DEF QueueOrdered, InOrder, Edges
  <2>3. CASE starter' = "done"
    BY <2>3 DEF QueueOrdered, AtWork
  <2> QED BY <1>4, <2>2, <2>3
<1>7. HeadInHand' /\ OnlyHead' /\ Unwatched'
  BY <1>1, <1>2, <1>4 DEF HeadInHand, OnlyHead, Unwatched, Settled, InHand
<1>8. NoCallAfterStop' /\ Taken' /\ Numbered' /\ CallsServed' /\ TeardownAlone' /\ ReadyReachable'
  BY <1>1 DEF NoCallAfterStop, Taken, Numbered, CallsServed, TeardownAlone, ReadyReachable
<1>9. NoOrphans'
  BY <1>1 DEF NoOrphans
<1> QED BY <1>5, <1>6, <1>7, <1>8, <1>9

LEMMA PluginInitInv == PluginInit => PluginInv
<1> SUFFICES ASSUME PluginInit PROVE PluginInv
  OBVIOUS
<1> USE DEF PluginInit
<1>1. PluginTypes
  BY FreeTyped DEF PluginTypes
<1>2. PluginTypeOK
  <2>1. 0 \in 0..MaxProcs
    BY PluginAssumption
  <2> QED BY <2>1 DEF PluginTypeOK, None
<1>3. NoCallAfterStop /\ NoOrphans /\ ReadyReachable /\ Numbered /\ OrderSound
  BY DEF NoCallAfterStop, NoOrphans, ReadyReachable, Numbered, OrderSound, None
<1>4. HeadInHand /\ OnlyHead /\ Unwatched /\ QueueOrdered
  BY DEF HeadInHand, OnlyHead, Unwatched, QueueOrdered, Settled, InHand, AtWork
<1>5. TeardownAlone /\ Taken
  BY DEF TeardownAlone, Taken
<1>6. CallsServed
  BY FreeTyped DEF CallsServed
<1> QED BY <1>1, <1>2, <1>3, <1>4, <1>5, <1>6 DEF PluginInv, Books, ClientsSound

LEMMA PluginStepInv == PluginInv /\ [PluginNext]_pluginVars => PluginInv'
<1> SUFFICES ASSUME PluginInv, [PluginNext]_pluginVars PROVE PluginInv'
  OBVIOUS
<1>1. CASE StartStep
  BY <1>1, ResolveInv, TakeInv, LaunchInv, StartFailsInv, StartOkInv, PublishEntryInv, StartEndsInv
  DEF StartStep
<1>2. CASE DownStep \/ StopAll
  BY <1>2, GatheredInv, StopInv, StoppedInv, StopAllInv DEF DownStep
<1>3. ASSUME NEW p \in Plugins, MonStep(p) PROVE PluginInv'
  BY <1>3, MonStopsInv, MonExitInv, GiveUpInv, RelaunchInv, RestartFailsInv, RepublishInv DEF MonStep
<1>4. ASSUME NEW p \in Plugins, Crash(p) \/ \E c \in Callers : Call(c, p) PROVE PluginInv'
  BY <1>4, CrashInv, CallInv
<1>5. ASSUME NEW c \in Callers, CallStep(c) PROVE PluginInv'
  BY <1>5, ReturnsInv, BadAnswerInv, KillInv DEF CallStep
<1>6. CASE UNCHANGED pluginVars
  <2> USE <1>6 DEF pluginVars, PluginInv, Books, ClientsSound
  <2>1. PluginTypes' /\ PluginTypeOK' /\ OrderSound' /\ NoCallAfterStop' /\ ReadyReachable'
    BY DEF PluginTypes, PluginTypeOK, OrderSound, NoCallAfterStop, ReadyReachable
  <2>2. P' = P
    BY DEF P
  <2>3. NoOrphans' /\ HeadInHand' /\ OnlyHead' /\ Unwatched'
    BY <2>2 DEF NoOrphans, HeadInHand, OnlyHead, Unwatched, Settled
  <2>4. TeardownAlone' /\ Taken' /\ Numbered' /\ CallsServed'
    BY DEF TeardownAlone, AllLeft, Taken, Numbered, CallsServed
  <2>5. QueueOrdered'
    BY QueueKept DEF Onwards, Settled
  <2> QED BY <2>1, <2>3, <2>4, <2>5
<1> QED BY <1>1, <1>2, <1>3, <1>4, <1>5, <1>6 DEF PluginNext

LEMMA PluginInductive == PluginSpec => []PluginInv
BY PluginInitInv, PluginStepInv, PTL DEF PluginSpec

(* However plugins start, die, are restarted, called and stopped: a handle   *)
(* leads to the client of the entry and to none behind the stop gate; every  *)
(* process that runs has an owner, and none is left when StopAll is done; a  *)
(* plugin that is up and watched can be called, or is about to be killed.    *)
THEOREM ClientsStaySound == PluginSpec => []ClientsSound
<1>1. PluginInv => ClientsSound
  BY DEF PluginInv
<1> QED BY PluginInductive, <1>1, PTL

(* Whatever the graph, StartAll fails a plugin for a dependency only when    *)
(* that dependency will not come up any more.                                *)
THEOREM OrderStaysSound == PluginSpec => []OrderSound
<1>1. PluginInv => OrderSound
  BY DEF PluginInv
<1> QED BY PluginInductive, <1>1, PTL
=============================================================================
