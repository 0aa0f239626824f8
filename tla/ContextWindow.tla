---------------------------- MODULE ContextWindow ----------------------------
(* internal/context: Manager.Build makes a request that fits the model's     *)
(* input budget out of the complete candidate request.  A message is a       *)
(* record with role, turn, calls (the tool calls of an assistant message) and *)
(* call (what a tool message answers).  Build works on positions: a unit is   *)
(* a system message, or a user message with all that follows it up to the     *)
(* next one, and is named by its first position.                              *)
EXTENDS Naturals, Sequences, FiniteSets

CONSTANTS
  Budget,          \* Budget.Input: effective window less the reserved output
  Strategy,        \* "hybrid", "truncate" or "reject"
  Compression,     \* Compression.Enabled
  PreserveRecent,  \* Compression.PreserveRecent
  MinMessages      \* Compression.MinMessages

ASSUME ContextAssumption ==
  /\ Budget \in Nat /\ PreserveRecent \in Nat /\ MinMessages \in Nat
  /\ Strategy \in {"hybrid", "truncate", "reject"} /\ Compression \in BOOLEAN

Ids(calls) == {calls[i].id : i \in DOMAIN calls}

(***************************************************************************)
(* groupUnits                                                               *)
(***************************************************************************)
UserAt(msgs) == {i \in DOMAIN msgs : msgs[i].role = "user"}
SystemPrefix(msgs) == {i \in DOMAIN msgs : \A j \in 1..i : msgs[j].role = "system"}

(* pendingCalls after message i: opened by an assistant, not answered yet.    *)
Pending(msgs, i) ==
  {c \in UNION {Ids(msgs[j].calls) : j \in 1..i} :
     \E j \in 1..i : c \in Ids(msgs[j].calls) /\ \A k \in j + 1..i : msgs[k].call # c}
ChainsComplete(msgs) ==
  /\ Pending(msgs, Len(msgs)) = {}
  /\ \A i \in DOMAIN msgs :
       LET open == Pending(msgs, i - 1)
           fresh == Ids(msgs[i].calls)
       IN  CASE msgs[i].role = "tool" -> msgs[i].call \in open
             [] msgs[i].role = "assistant" ->
                  fresh \cap open = {} /\ Cardinality(fresh) = Len(msgs[i].calls)
             [] OTHER -> open = {}

ValidSequence(msgs, current) ==
  /\ current \in UserAt(msgs)
  /\ \A i \in DOMAIN msgs \ SystemPrefix(msgs) :
       /\ msgs[i].role # "system"
       /\ \E u \in UserAt(msgs) : u <= i
  /\ ChainsComplete(msgs)

Members(msgs, u) == {i \in DOMAIN msgs : u <= i /\ ~\E v \in UserAt(msgs) : u < v /\ v <= i}
MembersOf(msgs, S) == UNION {Members(msgs, u) : u \in S}
Deletable(msgs, current) == {u \in UserAt(msgs) : u < current}
Compressible(msgs, current) ==
  {u \in Deletable(msgs, current) :
     \A i \in Members(msgs, u) : msgs[i].role # "tool" /\ msgs[i].calls = <<>>}

(***************************************************************************)
(* The estimate of a request is its number of messages: what matters is     *)
(* that removing messages, or replacing several by one, lowers it.          *)
(***************************************************************************)
Tokens(msgs) == Len(msgs)

Nth(K, n) == CHOOSE x \in K : Cardinality({y \in K : y <= x}) = n
Keep(msgs, K) == [n \in 1..Cardinality(K) |-> msgs[Nth(K, n)]]

Overflow == [ok |-> FALSE, msgs |-> <<>>]
Built(msgs) == [ok |-> TRUE, msgs |-> msgs]

(* truncate: out is msgs or msgs with the summary in it, K what is kept of it *)
(* so far; remove the oldest unit of D, and again until the rest fits.        *)
Newest(D, k) == {u \in D : Cardinality({v \in D : v > u}) < k}  \* mutant
Oldest(D, k) == {u \in D : Cardinality({v \in D : v < u}) < k}
Shorter(msgs, out, K, D, k) == Keep(out, K \ MembersOf(msgs, Oldest(D, k)))
Truncate(msgs, out, K, D) ==
  LET enough == {k \in 1..Cardinality(D) : Tokens(Shorter(msgs, out, K, D, k)) <= Budget}
  IN  IF enough = {} THEN Overflow
      ELSE Built(Shorter(msgs, out, K, D, CHOOSE k \in enough : \A j \in enough : k <= j))

(* summarize: the compressible turns but the PreserveRecent newest, replaced  *)
(* by one protected system message in the place of the first of them.         *)
Summary == [role |-> "system", turn |-> 0, calls |-> <<>>, call |-> 0]
Candidates(msgs, current) ==
  LET C == Compressible(msgs, current)
  IN  IF Cardinality(C) <= PreserveRecent THEN {}
      ELSE Oldest(C, Cardinality(C) - PreserveRecent)
Summarize(msgs, current) ==
  LET C == Candidates(msgs, current)
      first == CHOOSE u \in C : \A v \in C : u <= v
      replaced == MembersOf(msgs, C)
      marked == [msgs EXCEPT ![first] = Summary]
      K == DOMAIN msgs \ (replaced \ {first})
  IN  IF C = {} \/ Cardinality(replaced) < MinMessages \/ Cardinality(K) >= Len(msgs)
        THEN Overflow
      ELSE IF Tokens(Keep(marked, K)) <= Budget THEN Built(Keep(marked, K))
      ELSE Truncate(msgs, marked, K, Deletable(msgs, current) \ C)

(* Build: summarised says whether the Provider returned a summary in time.    *)
Build(msgs, current, summarised) ==
  LET protected == DOMAIN msgs \ MembersOf(msgs, Deletable(msgs, current))
      short == Summarize(msgs, current)
  IN  CASE ~ValidSequence(msgs, current) -> Overflow
        [] ValidSequence(msgs, current) /\ Tokens(msgs) <= Budget -> Built(msgs)
        [] ValidSequence(msgs, current) /\ Tokens(msgs) > Budget ->
             IF Cardinality(protected) > Budget \/ Strategy = "reject" THEN Overflow
             ELSE IF Strategy = "hybrid" /\ Compression /\ summarised /\ short.ok THEN short
             ELSE Truncate(msgs, msgs, DOMAIN msgs, Deletable(msgs, current))
=============================================================================
