---------------------------- MODULE SessionProofs ----------------------------
(* Proofs about the life of sessions (SessionLifecycle) and about their event *)
(* hub (SessionHub), for any sets of sessions, turns, tool calls, goroutines  *)
(* and subscribers.  Of the first: histories are made of whole tool units,    *)
(* which deletion takes out whole, every snapshot can be read again, and the  *)
(* clock, crashes and Restore keep to the policy.  Of the second: no channel  *)
(* is closed twice, a subscriber has one closer, and gets a run of events     *)
(* without gaps.                                                              *)
EXTENDS SessionLifecycle, SessionHub, FiniteSetTheorems, SequenceTheorems, TLAPS

(* ---- the shape of histories ----------------------------------------------*)
Width == Cardinality(Calls)
Opens(x) == x.role # "tool" /\ x.calls # {}
(* Message a of h opens a unit: the next Width messages are its results, in  *)
(* the order f.                                                              *)
UnitAt(h, a) ==
  /\ h[a].calls = Calls /\ a + Width <= Len(h)
  /\ \E f \in Orders : \A k \in 1..Width : h[a + k].role = "tool" /\ h[a + k].call = f[k]
(* Every message with calls opens a unit, every result is in one.            *)
Sound(h, i) ==
  /\ Opens(h[i]) => UnitAt(h, i)
  /\ h[i].role # "tool" => h[i].call = None
  /\ h[i].role = "tool" => /\ h[i].calls = {}
                           /\ \E a \in 1..i - 1 : Opens(h[a]) /\ i <= a + Width
Chained(h) == h \in Seq(Messages) /\ \A i \in 1..Len(h) : Sound(h, i)
(* The messages p to q are one that stands alone, or one unit.               *)
Block(h, p, q) ==
  /\ p \in 1..Len(h) /\ h[p].role # "tool"
  /\ q = IF Opens(h[p]) THEN p + Width ELSE p
(* h without the messages p to q.                                            *)
Cut(h, p, q) ==
  [n \in 1..Len(h) - (q - p + 1) |-> IF n < p THEN h[n] ELSE h[n + (q - p + 1)]]

LEMMA WidthNat == Width \in Nat
BY FS_CardinalityType, LifecycleAssumption DEF Width

LEMMA OrderFacts ==
  ASSUME NEW f \in Orders
  PROVE  /\ \A k \in 1..Width : f[k] \in Calls
         /\ \A c \in Calls : \E k \in 1..Width : f[k] = c
         /\ \A k, l \in 1..Width : f[k] = f[l] => k = l
<1>1. f \in [1..Width -> Calls]
  BY DEF Orders, Width
<1>2. \A c \in Calls : \E i \in 1..Width : f[i] = c /\ \A j \in 1..Width : f[j] = c => j = i
  BY <1>1 DEF Orders, Width
<1>3. \A k, l \in 1..Width : f[k] = f[l] => k = l
  <2> SUFFICES ASSUME NEW k \in 1..Width, NEW l \in 1..Width, f[k] = f[l] PROVE k = l
    OBVIOUS
  <2>1. f[k] \in Calls
    BY <1>1
  <2> QED BY <2>1, <1>2
<1> QED BY <1>1, <1>2, <1>3

(* Inside a unit there are only results, each of another call.               *)
LEMMA InUnit ==
  ASSUME NEW h, Chained(h), NEW a \in 1..Len(h), Opens(h[a]), NEW i \in a + 1..a + Width
  PROVE  /\ i \in 1..Len(h) /\ h[i].role = "tool" /\ h[i].call \in Calls
         /\ \A j \in a + 1..a + Width : h[i].call = h[j].call => i = j
<1> USE WidthNat
<1>1. UnitAt(h, a) /\ Len(h) \in Nat
  BY DEF Chained, Sound
<1>2. PICK f \in Orders : \A k \in 1..Width : h[a + k].role = "tool" /\ h[a + k].call = f[k]
  BY <1>1 DEF UnitAt
<1>3. \A j \in a + 1..a + Width : /\ j - a \in 1..Width /\ a + (j - a) = j
  BY <1>1
<1>4. \A j \in a + 1..a + Width : h[j].role = "tool" /\ h[j].call = f[j - a]
  <2> SUFFICES ASSUME NEW j \in a + 1..a + Width PROVE h[j].role = "tool" /\ h[j].call = f[j - a]
    OBVIOUS
  <2>1. PICK k \in 1..Width : k = j - a /\ a + k = j
    BY <1>3
  <2> QED BY <2>1, <1>2
<1>5. \A j \in a + 1..a + Width : h[i].call = h[j].call => i = j
  <2> SUFFICES ASSUME NEW j \in a + 1..a + Width, h[i].call = h[j].call PROVE i = j
    OBVIOUS
  <2>1. f[i - a] = f[j - a]
    BY <1>4
  <2>2. i - a = j - a
    BY <2>1, <1>3, OrderFacts
  <2> QED BY <2>2, <1>1
<1>6. i \in 1..Len(h)
  BY <1>1 DEF UnitAt
<1>7. h[i].call \in Calls
  BY <1>3, <1>4, OrderFacts
<1> QED BY <1>4, <1>5, <1>6, <1>7

(* A call that is open has the unit that opened it, and its result to come.  *)
LEMMA OpenUnit ==
  ASSUME NEW h, Chained(h), NEW i \in 0..Len(h), NEW c \in Open(h, i)
  PROVE  \E a \in 1..i : \E k \in i + 1..a + Width : Opens(h[a]) /\ h[k].call = c
<1> USE WidthNat
<1>0. Len(h) \in Nat
  BY DEF Chained, Sound
<1>1. PICK a \in 1..i : c \in h[a].calls /\ \A k \in a + 1..i : h[k].call # c
  BY DEF Open
<1>2. a \in 1..Len(h) /\ c \in Calls
  BY <1>0 DEF Open
<1>3. Opens(h[a])
  BY <1>1, <1>2 DEF Chained, Sound, Opens
<1>4. UnitAt(h, a)
  BY <1>2, <1>3 DEF Chained, Sound
<1>5. PICK f \in Orders : \A k \in 1..Width : h[a + k].role = "tool" /\ h[a + k].call = f[k]
  BY <1>4 DEF UnitAt
<1>6. PICK k \in 1..Width : f[k] = c
  BY <1>2, OrderFacts
<1>7. h[a + k].call = c
  BY <1>5, <1>6
<1>8. a + k \in i + 1..a + Width
  BY <1>0, <1>1, <1>7
<1> QED BY <1>3, <1>7, <1>8

(* What stands between units needs no answers and gives none: a history of   *)
(* whole units is paired.                                                    *)
LEMMA ChainedIsPaired ==
  ASSUME NEW h, Chained(h)
  PROVE  Paired(h)
<1> USE WidthNat
<1>0. Len(h) \in Nat /\ DOMAIN h = 1..Len(h)
  BY DEF Chained, Sound
<1>1. Open(h, Len(h)) = {}
  <2> SUFFICES ASSUME NEW c \in Open(h, Len(h)) PROVE FALSE
    OBVIOUS
  <2>1. PICK a \in 1..Len(h) : \E k \in Len(h) + 1..a + Width : Opens(h[a]) /\ h[k].call = c
    BY <1>0, OpenUnit
  <2>2. UnitAt(h, a)
    BY <2>1 DEF Chained, Sound
  <2> QED BY <2>1, <2>2, <1>0 DEF UnitAt
<1>2. ASSUME NEW i \in 1..Len(h), h[i].role = "tool" PROVE h[i].call \in Open(h, i - 1)
  <2>1. PICK a \in 1..i - 1 : Opens(h[a]) /\ i <= a + Width
    BY <1>2 DEF Chained, Sound
  <2>2. a \in 1..Len(h) /\ i \in a + 1..a + Width
    BY <2>1, <1>0
  <2>3. h[i].call \in Calls /\ \A j \in a + 1..a + Width : h[i].call = h[j].call => i = j
    BY <2>1, <2>2, InUnit
  <2>4. \A k \in a + 1..i - 1 : h[k].call # h[i].call
    BY <2>1, <2>2, <2>3, <1>0
  <2>5. h[a].calls = Calls
    BY <2>1, <2>2 DEF Chained, Sound, UnitAt
  <2> QED BY <2>1, <2>3, <2>4, <2>5 DEF Open
<1>3. ASSUME NEW i \in 1..Len(h), h[i].role # "tool" PROVE Open(h, i - 1) = {}
  <2> SUFFICES ASSUME NEW c \in Open(h, i - 1) PROVE FALSE
    OBVIOUS
  <2>1. i - 1 \in 0..Len(h)
    BY <1>0
  <2>2. PICK a \in 1..i - 1 : \E k \in (i - 1) + 1..a + Width : Opens(h[a]) /\ h[k].call = c
    BY <2>1, OpenUnit
  <2>3. i \in a + 1..a + Width /\ a \in 1..Len(h)
    BY <2>2, <1>0
  <2> QED BY <2>2, <2>3, <1>3, InUnit
<1> QED BY <1>0, <1>1, <1>2, <1>3 DEF Paired

(* ---- what DeleteMessage removes ------------------------------------------*)
LEMMA BlockRange ==
  ASSUME NEW h, Chained(h), NEW p, NEW q, Block(h, p, q)
  PROVE  /\ p \in 1..Len(h) /\ q \in p..Len(h) /\ Len(h) \in Nat
         /\ \A i \in p + 1..q : Opens(h[p]) /\ h[i].role = "tool"
<1> USE WidthNat
<1>1. Len(h) \in Nat /\ p \in 1..Len(h)
  BY DEF Chained, Sound, Block
<1>2. CASE Opens(h[p])
  <2>1. q = p + Width /\ q <= Len(h)
    BY <1>2, <1>1 DEF Block, Chained, Sound, UnitAt
  <2>2. \A i \in p + 1..q : h[i].role = "tool"
    BY <1>1, <1>2, <2>1, InUnit
  <2> QED BY <1>1, <1>2, <2>1, <2>2
<1>3. CASE ~Opens(h[p])
  BY <1>1, <1>3 DEF Block
<1> QED BY <1>2, <1>3

LEMMA UnitAnswers ==
  ASSUME NEW h, Chained(h), NEW a \in 1..Len(h), Opens(h[a])
  PROVE  Answers(h, a) = a + 1..a + Width
<1> USE WidthNat
<1>0. Len(h) \in Nat /\ h[a].calls = Calls /\ a + Width <= Len(h) /\ h[a].role # "tool"
  BY DEF Chained, Sound, UnitAt, Opens
<1>1. ASSUME NEW j \in a + 1..a + Width PROVE j \in Answers(h, a)
  <2>1. \A k \in a + 1..j : k \in a + 1..a + Width
    BY <1>0
  <2>2. \A k \in a + 1..j : h[k].role = "tool" /\ h[k].call \in Calls
    BY <2>1, InUnit
  <2> QED BY <1>0, <2>2 DEF Answers
<1>2. ASSUME NEW j \in Answers(h, a), j > a + Width PROVE FALSE
  <2>1. j \in a + 1..Len(h) /\ \A k \in a + 1..j : h[k].role = "tool"
    BY DEF Answers
  <2>2. PICK k : k = a + Width + 1
    OBVIOUS
  <2>3. k \in 1..Len(h) /\ k \in a + 1..j
    BY <1>0, <1>2, <2>1, <2>2
  <2>4. PICK b \in 1..k - 1 : Opens(h[b]) /\ k <= b + Width
    BY <2>1, <2>3 DEF Chained, Sound
  <2>5. b < a
    <3>1. b \notin a + 1..j
      BY <2>1, <2>4 DEF Opens
    <3>2. b # a
      BY <2>2, <2>4, <1>0
    <3> QED BY <3>1, <3>2, <2>1, <2>2, <2>3, <2>4, <1>0
  <2>6. a \in b + 1..b + Width /\ b \in 1..Len(h)
    BY <2>2, <2>3, <2>4, <2>5, <1>0
  <2> QED BY <2>4, <2>6, <1>0, InUnit
<1>3. \A j \in Answers(h, a) : j \in a + 1..Len(h)
  BY DEF Answers
<1>4. \A j \in Answers(h, a) : j \in a + 1..a + Width
  BY <1>0, <1>2, <1>3
<1> QED BY <1>1, <1>4

LEMMA PlainAnswers ==
  ASSUME NEW h, Chained(h), NEW i \in 1..Len(h), h[i].calls = {}
  PROVE  Answers(h, i) = {}
<1> SUFFICES ASSUME NEW j \in Answers(h, i) PROVE FALSE
  OBVIOUS
<1>1. Len(h) \in Nat
  BY DEF Chained, Sound
<1>2. j \in i + 1..Len(h) /\ \A k \in i + 1..j : h[k].call \in h[i].calls
  BY DEF Answers
<1>3. i + 1 \in i + 1..j
  BY <1>1, <1>2
<1> QED BY <1>2, <1>3

LEMMA OneCaller ==
  ASSUME NEW h, Chained(h), NEW i \in 1..Len(h), h[i].role = "tool"
  PROVE  \E a \in 1..i - 1 : Opens(h[a]) /\ i <= a + Width /\ Caller(h, i) = {a}
<1> USE WidthNat
<1>0. Len(h) \in Nat
  BY DEF Chained, Sound
<1>1. PICK a \in 1..i - 1 : Opens(h[a]) /\ i <= a + Width
  BY DEF Chained, Sound
<1>2. a \in 1..Len(h) /\ i \in a + 1..a + Width /\ h[a].calls = Calls
  BY <1>0, <1>1 DEF Chained, Sound, UnitAt
<1>3. a \in Caller(h, i)
  <2>1. \A k \in a + 1..i - 1 : k \in a + 1..a + Width
    BY <1>0, <1>1
  <2>2. \A k \in a + 1..i - 1 : h[k].role = "tool"
    BY <1>1, <1>2, <2>1, InUnit
  <2>3. h[i].call \in Calls
    BY <1>1, <1>2, InUnit
  <2> QED BY <1>1, <1>2, <2>2, <2>3 DEF Caller, Opens
<1>4. ASSUME NEW b \in Caller(h, i) PROVE b = a
  <2>1. /\ b \in 1..i - 1 /\ h[b].role # "tool"
        /\ \A k \in b + 1..i - 1 : h[k].role = "tool"
    BY DEF Caller
  <2>2. ~(b < a)
    BY <1>0, <1>1, <2>1 DEF Opens
  <2>3. ~(a < b)
    <3> SUFFICES ASSUME a < b PROVE FALSE
      OBVIOUS
    <3>1. b \in a + 1..a + Width
      BY <1>0, <1>1, <2>1
    <3> QED BY <3>1, <1>1, <1>2, <2>1, InUnit
  <2> QED BY <1>0, <1>1, <2>1, <2>2, <2>3
<1> QED BY <1>1, <1>3, <1>4

LEMMA DeletesABlock ==
  ASSUME NEW h, Chained(h), NEW i \in 1..Len(h)
  PROVE  \E p, q \in 1..Len(h) : Block(h, p, q) /\ DeletedWith(h, i) = p..q
<1> USE WidthNat
<1>0. Len(h) \in Nat
  BY DEF Chained, Sound
<1>1. CASE h[i].role = "tool"
  <2>1. PICK a \in 1..i - 1 : Opens(h[a]) /\ i <= a + Width /\ Caller(h, i) = {a}
    BY <1>1, OneCaller
  <2>2. a \in 1..Len(h)
    BY <1>0
  <2>3. Answers(h, a) = a + 1..a + Width /\ a + Width <= Len(h)
    BY <2>1, <2>2, UnitAnswers DEF Chained, Sound, UnitAt
  <2>4. DeletedWith(h, i) = {i} \cup ({a} \cup Answers(h, a))
    BY <1>1, <2>1 DEF DeletedWith
  <2>5. DeletedWith(h, i) = a..a + Width
    BY <2>1, <2>3, <2>4, <1>0
  <2>6. Block(h, a, a + Width)
    BY <2>1, <2>2 DEF Block, Opens
  <2>7. a + Width \in 1..Len(h)
    BY <2>2, <2>3, <1>0
  <2> QED BY <2>2, <2>5, <2>6, <2>7
<1>2. CASE h[i].role # "tool" /\ h[i].calls # {}
  <2>1. Opens(h[i])
    BY <1>2 DEF Opens
  <2>2. Answers(h, i) = i + 1..i + Width /\ i + Width <= Len(h)
    BY <2>1, UnitAnswers DEF Chained, Sound, UnitAt
  <2>3. DeletedWith(h, i) = i..i + Width
    BY <1>0, <1>2, <2>2 DEF DeletedWith
  <2>4. Block(h, i, i + Width)
    BY <2>1 DEF Block, Opens
  <2>5. i + Width \in 1..Len(h)
    BY <2>2, <1>0
  <2> QED BY <2>3, <2>4, <2>5
<1>3. CASE h[i].role # "tool" /\ h[i].calls = {}
  <2>1. DeletedWith(h, i) = i..i
    BY <1>0, <1>3, PlainAnswers DEF DeletedWith
  <2>2. Block(h, i, i)
    BY <1>3 DEF Block, Opens
  <2> QED BY <2>1, <2>2
<1> QED BY <1>1, <1>2, <1>3

LEMMA IntervalCard ==
  ASSUME NEW a \in Int, NEW b \in Int, b >= a - 1
  PROVE  IsFiniteSet(a..b) /\ Cardinality(a..b) = b - a + 1
BY FS_Interval

Sized(S, n) == IsFiniteSet(S) /\ n \in Nat /\ Cardinality(S) = n
LEMMA DisjointCard ==
  ASSUME NEW A, NEW B, NEW m, NEW n, Sized(A, m), Sized(B, n), A \cap B = {}
  PROVE  Sized(A \cup B, m + n)
<1> USE DEF Sized
<1>1. Cardinality(A \cup B) = m + n - Cardinality(A \cap B) /\ IsFiniteSet(A \cup B)
  BY FS_Union
<1>2. Cardinality(A \cap B) = 0
  BY FS_EmptySet
<1> QED BY <1>1, <1>2

BlockBounds(h, L, p, q) == L \in Nat /\ DOMAIN h = 1..L /\ p \in 1..L /\ q \in p..L

(* The messages that are left, counted: the n-th of them is message n before *)
(* the block, and message n + its length behind it.                          *)
LEMMA WithoutBlock ==
  ASSUME NEW h, NEW L, NEW p, NEW q, BlockBounds(h, L, p, q)
  PROVE  Without(h, p..q) =
           [n \in 1..L - (q - p + 1) |-> IF n < p THEN h[n] ELSE h[n + (q - p + 1)]]
<1> USE DEF BlockBounds
<1>p. /\ p \in Nat /\ q \in Nat /\ p >= 1 /\ p <= q /\ q <= L
  OBVIOUS
<1> DEFINE left == (1..L) \ (p..q)
           upto(i) == {j \in left : j <= i}
           at(n) == IF n < p THEN n ELSE n + (q - p + 1)
<1>1. left = (1..p - 1) \cup (q + 1..L)
  BY <1>p
<1>a. \A i : i \in left <=> i \in 1..p - 1 \/ i \in q + 1..L
  BY <1>1
<1>f. IsFiniteSet(1..p - 1) /\ Cardinality(1..p - 1) = p - 1
  BY <1>p, IntervalCard
<1>b. \A i, j : j \in upto(i) <=> j \in left /\ j <= i
  OBVIOUS
<1> HIDE DEF left, upto
<1>2. Cardinality(left) = L - (q - p + 1)
  <2>1. IsFiniteSet(q + 1..L) /\ Cardinality(q + 1..L) = L - q
    BY <1>p, IntervalCard
  <2>2. PICK A, B, m, n : A = 1..p - 1 /\ B = q + 1..L /\ m = p - 1 /\ n = L - q
    OBVIOUS
  <2>3. A \cap B = {} /\ left = A \cup B
    BY <1>p, <1>1, <2>2
  <2>4. Sized(A, m) /\ Sized(B, n)
    BY <1>f, <1>p, <2>1, <2>2 DEF Sized
  <2>5. Sized(A \cup B, m + n)
    BY <2>3, <2>4, DisjointCard
  <2> QED BY <1>p, <2>2, <2>3, <2>5 DEF Sized
<1>3. ASSUME NEW i \in 1..p - 1 PROVE i \in left /\ Cardinality(upto(i)) = i
  <2>1. \A j : j \in upto(i) <=> j \in 1..i
    BY <1>a, <1>b
  <2>2. upto(i) = 1..i
    BY <2>1
  <2>3. i \in Int /\ i >= 1 /\ i \in left
    BY <1>a
  <2>4. Cardinality(1..i) = i
    BY <2>3, FS_Interval
  <2> QED BY <2>2, <2>3, <2>4
<1>4. ASSUME NEW i \in q + 1..L PROVE i \in left /\ Cardinality(upto(i)) = i - (q - p + 1)
  <2>1. i \in Nat /\ i > q /\ i <= L /\ i \in left
    BY <1>a
  <2>2. \A j : j \in upto(i) <=> j \in 1..p - 1 \/ j \in q + 1..i
    BY <1>a, <1>b, <2>1
  <2>3. IsFiniteSet(q + 1..i) /\ Cardinality(q + 1..i) = i - q
    BY <1>p, <2>1, IntervalCard
  <2>4. PICK A, B, m, n : A = 1..p - 1 /\ B = q + 1..i /\ m = p - 1 /\ n = i - q
    OBVIOUS
  <2>5. A \cap B = {} /\ upto(i) = A \cup B
    BY <1>p, <2>2, <2>4
  <2>6. Sized(A, m) /\ Sized(B, n)
    BY <1>f, <1>p, <2>1, <2>3, <2>4 DEF Sized
  <2>7. Sized(A \cup B, m + n)
    BY <2>5, <2>6, DisjointCard
  <2> QED BY <1>p, <2>1, <2>4, <2>5, <2>7 DEF Sized
<1>5. ASSUME NEW n \in 1..L - (q - p + 1)
      PROVE  (CHOOSE i \in left : Cardinality(upto(i)) = n) = at(n)
  <2>1. at(n) \in left /\ Cardinality(upto(at(n))) = n
    <3>1. CASE n < p
      <4>1. n \in 1..p - 1 /\ at(n) = n
        BY <3>1
      <4> QED BY <4>1, <1>3
    <3>2. CASE ~(n < p)
      <4>1. PICK i : i = n + (q - p + 1)
        OBVIOUS
      <4>2. i \in q + 1..L /\ at(n) = i /\ i - (q - p + 1) = n
        BY <3>2, <4>1
      <4> QED BY <4>2, <1>4
    <3> QED BY <3>1, <3>2
  <2>2. ASSUME NEW i \in left, Cardinality(upto(i)) = n PROVE i = at(n)
    <3>1. CASE i \in 1..p - 1
      <4>1. n = i
        BY <2>2, <3>1, <1>3
      <4> QED BY <4>1, <3>1
    <3>2. CASE i \in q + 1..L
      <4>1. n = i - (q - p + 1)
        BY <2>2, <3>2, <1>4
      <4> QED BY <4>1, <3>2
    <3> QED BY <2>2, <1>a, <3>1, <3>2
  <2> HIDE DEF at
  <2> QED BY <2>1, <2>2
<1>6. Without(h, p..q) =
        [n \in 1..Cardinality(left) |-> h[CHOOSE i \in left : Cardinality(upto(i)) = n]]
  BY DEF Without, left, upto
<1>7. ASSUME NEW n \in 1..L - (q - p + 1)
      PROVE  h[at(n)] = IF n < p THEN h[n] ELSE h[n + (q - p + 1)]
  OBVIOUS
<1> HIDE DEF at
<1> QED BY <1>2, <1>5, <1>6, <1>7

LEMMA WithoutIsCut ==
  ASSUME NEW h, Chained(h), NEW p, NEW q, Block(h, p, q)
  PROVE  Without(h, p..q) = Cut(h, p, q)
<1>1. BlockBounds(h, Len(h), p, q)
  BY BlockRange DEF Chained, Sound, BlockBounds
<1> QED BY <1>1, WithoutBlock DEF Cut

(* ---- histories stay chained ----------------------------------------------*)
LEMMA FunctionIsSeq ==
  ASSUME NEW S, NEW n \in Nat, NEW g \in [1..n -> S]
  PROVE  g \in Seq(S) /\ Len(g) = n
OBVIOUS

LEMMA CutFacts ==
  ASSUME NEW h, Chained(h), NEW p, NEW q, Block(h, p, q)
  PROVE  /\ q - p + 1 \in Nat /\ Len(h) - (q - p + 1) \in Nat
         /\ Cut(h, p, q) \in Seq(Messages)
         /\ Len(Cut(h, p, q)) = Len(h) - (q - p + 1)
         /\ \A n \in 1..p - 1 : n \in 1..Len(h) - (q - p + 1) /\ Cut(h, p, q)[n] = h[n]
         /\ \A n \in q + 1..Len(h) : /\ n - (q - p + 1) \in p..Len(h) - (q - p + 1)
                                     /\ Cut(h, p, q)[n - (q - p + 1)] = h[n]
         /\ \A n \in 1..Len(h) - (q - p + 1) :
              \/ n \in 1..p - 1 /\ Cut(h, p, q)[n] = h[n]
              \/ n + (q - p + 1) \in q + 1..Len(h) /\ Cut(h, p, q)[n] = h[n + (q - p + 1)]
<1>1. p \in 1..Len(h) /\ q \in p..Len(h) /\ Len(h) \in Nat
  BY BlockRange
<1>2. PICK w \in Nat : w = q - p + 1
  BY <1>1
<1>0. Len(h) - w \in Nat
  BY <1>1, <1>2
<1>3. PICK L \in Nat : L = Len(h) - w
  BY <1>0
<1>4. \A n \in 1..Len(h) : h[n] \in Messages
  BY DEF Chained, Sound
<1>5. Cut(h, p, q) = [n \in 1..L |-> IF n < p THEN h[n] ELSE h[n + w]]
  BY <1>2, <1>3 DEF Cut
<1>6. \A n \in 1..L : (IF n < p THEN h[n] ELSE h[n + w]) \in Messages
  BY <1>1, <1>2, <1>3, <1>4
<1>7. Cut(h, p, q) \in Seq(Messages) /\ Len(Cut(h, p, q)) = L
  <2>1. PICK g : g = Cut(h, p, q)
    OBVIOUS
  <2>2. g \in [1..L -> Messages]
    BY <1>5, <1>6, <2>1
  <2> QED BY <2>1, <2>2, FunctionIsSeq
<1>8. \A n \in 1..p - 1 : n \in 1..L /\ Cut(h, p, q)[n] = h[n]
  BY <1>1, <1>2, <1>3, <1>5
<1>9. \A n \in q + 1..Len(h) : n - w \in p..L /\ Cut(h, p, q)[n - w] = h[n]
  <2> SUFFICES ASSUME NEW n \in q + 1..Len(h) PROVE n - w \in p..L /\ Cut(h, p, q)[n - w] = h[n]
    OBVIOUS
  <2>1. PICK m \in p..L : m = n - w /\ m + w = n
    BY <1>1, <1>2, <1>3
  <2>2. m \in 1..L /\ ~(m < p)
    BY <2>1, <1>1
  <2> QED BY <2>1, <2>2, <1>5
<1>10. \A n \in 1..L : \/ n \in 1..p - 1 /\ Cut(h, p, q)[n] = h[n]
                       \/ n + w \in q + 1..Len(h) /\ Cut(h, p, q)[n] = h[n + w]
  BY <1>1, <1>2, <1>3, <1>5
<1> QED BY <1>2, <1>3, <1>7, <1>8, <1>9, <1>10

(* A unit lies before a block or behind it, or is the block.                 *)
LEMMA UnitsApart ==
  ASSUME NEW h, Chained(h), NEW p, NEW q, Block(h, p, q),
         NEW a \in 1..Len(h), Opens(h[a]), a # p
  PROVE  a + Width < p \/ a > q
<1> USE WidthNat
<1>1. /\ p \in 1..Len(h) /\ q \in p..Len(h) /\ Len(h) \in Nat
      /\ \A i \in p + 1..q : h[i].role = "tool"
  BY BlockRange
<1>2. a \notin p + 1..q
  BY <1>1 DEF Opens
<1>3. p \notin a + 1..a + Width
  BY InUnit DEF Block
<1> QED BY <1>1, <1>2, <1>3

From(p, q, w, i, j) == (i < p /\ j = i) \/ (p <= i /\ j = i + w /\ j > q)

LEMMA CutChained ==
  ASSUME NEW h, Chained(h), NEW p, NEW q, Block(h, p, q)
  PROVE  Chained(Cut(h, p, q))
<1> USE WidthNat
<1>1. p \in 1..Len(h) /\ q \in p..Len(h) /\ Len(h) \in Nat
  BY BlockRange
<1>2. PICK w \in Nat : w = q - p + 1
  BY CutFacts
<1>3. PICK L \in Nat : L = Len(h) - w
  BY <1>2, CutFacts
<1>4. PICK g : g = Cut(h, p, q)
  OBVIOUS
<1>5. /\ g \in Seq(Messages) /\ Len(g) = L
      /\ \A n \in 1..p - 1 : n \in 1..L /\ g[n] = h[n]
      /\ \A n \in q + 1..Len(h) : n - w \in p..L /\ g[n - w] = h[n]
      /\ \A n \in 1..L : \/ n \in 1..p - 1 /\ g[n] = h[n]
                         \/ n + w \in q + 1..Len(h) /\ g[n] = h[n + w]
  BY <1>2, <1>3, <1>4, CutFacts
<1>6. ASSUME NEW i \in 1..L, NEW j \in 1..Len(h), g[i] = h[j],
             From(p, q, w, i, j)
      PROVE  Sound(g, i)
  <2>1. j # p /\ (i < p => j = i) /\ (i >= p => j = i + w /\ j > q)
    BY <1>1, <1>6 DEF From
  <2>2. ASSUME Opens(g[i]) PROVE UnitAt(g, i)
    <3>1. UnitAt(h, j) /\ Opens(h[j])
      BY <1>6, <2>2 DEF Chained, Sound
    <3>2. PICK f \in Orders : \A k \in 1..Width : h[j + k].role = "tool" /\ h[j + k].call = f[k]
      BY <3>1 DEF UnitAt
    <3>3. j + Width < p \/ j > q
      BY <2>1, <3>1, UnitsApart
    <3>4. i + Width <= L /\ \A k \in 1..Width : g[i + k] = h[j + k]
      <4>1. CASE i < p
        <5>1. j = i /\ i + Width < p
          BY <2>1, <3>3, <4>1, <1>1
        <5>2. \A k \in 1..Width : i + k \in 1..p - 1
          BY <5>1, <1>1
        <5>3. i + Width <= L
          BY <5>1, <1>1, <1>2, <1>3
        <5> QED BY <5>1, <5>2, <5>3, <1>5
      <4>2. CASE i >= p
        <5>1. j = i + w /\ j > q /\ j + Width <= Len(h)
          BY <2>1, <4>2, <3>1 DEF UnitAt
        <5>2. \A k \in 1..Width : j + k \in q + 1..Len(h) /\ (j + k) - w = i + k
          BY <5>1, <1>1, <1>2
        <5>3. \A k \in 1..Width : g[i + k] = h[j + k]
          <6> SUFFICES ASSUME NEW k \in 1..Width PROVE g[i + k] = h[j + k]
            OBVIOUS
          <6>1. PICK n \in q + 1..Len(h) : n = j + k /\ n - w = i + k
            BY <5>2
          <6> QED BY <6>1, <1>5
        <5>4. i + Width <= L
          BY <5>1, <1>1, <1>2, <1>3
        <5> QED BY <5>3, <5>4
      <4> QED BY <4>1, <4>2, <1>1, SMTT(20)
    <3>5. g[i].calls = Calls
      BY <1>6, <3>1 DEF UnitAt
    <3>6. \A k \in 1..Width : g[i + k].role = "tool" /\ g[i + k].call = f[k]
      BY <3>2, <3>4
    <3> QED BY <3>4, <3>5, <3>6, <1>5 DEF UnitAt
  <2>3. ASSUME g[i].role = "tool" PROVE \E a \in 1..i - 1 : Opens(g[a]) /\ i <= a + Width
    <3>1. PICK a \in 1..j - 1 : Opens(h[a]) /\ j <= a + Width
      BY <1>6, <2>3 DEF Chained, Sound
    <3>2. a \in 1..Len(h) /\ a < j /\ a \in Nat
      BY <1>1
    <3>3. a # p
      <4> SUFFICES ASSUME a = p PROVE FALSE
        OBVIOUS
      <4>1. q = a + Width
        BY <3>1 DEF Block
      <4> QED BY <4>1, <3>1, <3>2, <2>1, <1>1
    <3>4. a + Width < p \/ a > q
      BY <3>1, <3>2, <3>3, UnitsApart
    <3>5. CASE a + Width < p
      <4>1. i = j /\ a \in 1..p - 1
        BY <3>1, <3>2, <3>5, <1>1, <2>1
      <4> QED BY <4>1, <3>1, <1>5
    <3>6. CASE a > q
      <4>1. i >= p /\ j = i + w /\ a \in q + 1..Len(h)
        BY <3>1, <3>2, <3>6, <1>1, <2>1
      <4>2. PICK b \in p..L : b = a - w /\ g[b] = h[a]
        BY <4>1, <1>5
      <4>3. i \in Nat /\ w \in Nat /\ b \in Nat /\ j <= a + Width /\ a < j /\ b >= 1
        BY <4>2, <3>1, <3>2, <1>1, <1>2, SMTT(20)
      <4>4. i = j - w /\ b < i /\ i <= b + Width
        BY <4>1, <4>2, <4>3, <3>2, SMTT(20)
      <4>5. b \in 1..i - 1
        BY <4>3, <4>4
      <4> QED BY <4>2, <4>4, <4>5, <3>1
    <3> QED BY <3>4, <3>5, <3>6
  <2> QED BY <1>6, <2>2, <2>3 DEF Chained, Sound
<1>7. ASSUME NEW i \in 1..L
      PROVE  \E j \in 1..Len(h) : g[i] = h[j] /\ From(p, q, w, i, j)
  <2>1. CASE i \in 1..p - 1 /\ g[i] = h[i]
    BY <2>1, <1>1 DEF From
  <2>2. CASE i + w \in q + 1..Len(h) /\ g[i] = h[i + w]
    <3>1. PICK j \in 1..Len(h) : j = i + w /\ j > q
      BY <2>2, <1>1, <1>2
    <3>2. p <= i
      BY <3>1, <1>1, <1>2
    <3> QED BY <2>2, <3>1, <3>2 DEF From
  <2> QED BY <2>1, <2>2, <1>5
<1>8. \A i \in 1..L : Sound(g, i)
  BY <1>6, <1>7
<1> QED BY <1>4, <1>5, <1>8 DEF Chained

LEMMA ConcatFacts ==
  ASSUME NEW h, NEW u, h \in Seq(Messages), u \in Seq(Messages)
  PROVE  /\ h \o u \in Seq(Messages) /\ Len(h \o u) = Len(h) + Len(u)
         /\ \A i \in 1..Len(h) : (h \o u)[i] = h[i]
         /\ \A i \in 1..Len(u) : (h \o u)[Len(h) + i] = u[i]
BY ConcatProperties

LEMMA JoinChained ==
  ASSUME NEW h, NEW u, Chained(h), Chained(u)
  PROVE  Chained(h \o u)
<1> USE WidthNat
<1>1. PICK g : g = h \o u
  OBVIOUS
<1>2. h \in Seq(Messages) /\ u \in Seq(Messages)
  BY DEF Chained, Sound
<1>3. PICK L, M \in Nat : L = Len(h) /\ M = Len(u)
  BY <1>2
<1>4. /\ g \in Seq(Messages) /\ Len(g) = L + M
      /\ \A i \in 1..L : g[i] = h[i]
      /\ \A i \in 1..M : g[L + i] = u[i]
  BY <1>1, <1>2, <1>3, ConcatFacts
<1>5. ASSUME NEW i \in 1..L PROVE Sound(g, i)
  <2>1. ASSUME Opens(g[i]) PROVE UnitAt(g, i)
    <3>1. UnitAt(h, i)
      BY <2>1, <1>3, <1>4 DEF Chained, Sound
    <3>2. PICK f \in Orders : \A k \in 1..Width : h[i + k].role = "tool" /\ h[i + k].call = f[k]
      BY <3>1 DEF UnitAt
    <3>3. i + Width <= L /\ \A k \in 1..Width : i + k \in 1..L
      BY <3>1, <1>3 DEF UnitAt
    <3>4. \A k \in 1..Width : g[i + k].role = "tool" /\ g[i + k].call = f[k]
      BY <3>2, <3>3, <1>4
    <3>5. g[i].calls = Calls /\ i + Width <= Len(g)
      BY <3>1, <3>3, <1>4 DEF UnitAt
    <3> QED BY <3>4, <3>5 DEF UnitAt
  <2>2. ASSUME g[i].role = "tool" PROVE \E a \in 1..i - 1 : Opens(g[a]) /\ i <= a + Width
    <3>1. PICK a \in 1..i - 1 : Opens(h[a]) /\ i <= a + Width
      BY <2>2, <1>3, <1>4 DEF Chained, Sound
    <3> QED BY <3>1, <1>4
  <2>3. g[i] = h[i] /\ Sound(h, i)
    BY <1>3, <1>4 DEF Chained
  <2> QED BY <2>1, <2>2, <2>3 DEF Sound
<1>6. ASSUME NEW j \in 1..M PROVE Sound(g, L + j)
  <2>1. g[L + j] = u[j]
    BY <1>4
  <2>2. ASSUME Opens(u[j]) PROVE UnitAt(g, L + j)
    <3>1. UnitAt(u, j)
      BY <2>2, <1>3 DEF Chained, Sound
    <3>2. PICK f \in Orders : \A k \in 1..Width : u[j + k].role = "tool" /\ u[j + k].call = f[k]
      BY <3>1 DEF UnitAt
    <3>3. j + Width <= M
      BY <3>1, <1>3 DEF UnitAt
    <3>4. ASSUME NEW k \in 1..Width PROVE g[(L + j) + k].role = "tool" /\ g[(L + j) + k].call = f[k]
      <4>1. PICK n \in 1..M : n = j + k /\ L + n = (L + j) + k
        BY <3>3
      <4> QED BY <4>1, <1>4, <3>2
    <3>5. g[L + j].calls = Calls /\ (L + j) + Width <= Len(g)
      BY <2>1, <3>1, <3>3, <1>4 DEF UnitAt
    <3> QED BY <3>4, <3>5 DEF UnitAt
  <2>3. ASSUME u[j].role = "tool" PROVE \E a \in 1..(L + j) - 1 : Opens(g[a]) /\ L + j <= a + Width
    <3>1. PICK a \in 1..j - 1 : Opens(u[a]) /\ j <= a + Width
      BY <2>3, <1>3 DEF Chained, Sound
    <3>2. a \in 1..M
      OBVIOUS
    <3>3. PICK b \in 1..(L + j) - 1 : b = L + a
      BY <3>1
    <3>4. g[b] = u[a] /\ L + j <= b + Width
      BY <3>1, <3>2, <3>3, <1>4
    <3> QED BY <3>1, <3>4
  <2>4. Sound(u, j)
    BY <1>3 DEF Chained
  <2> QED BY <2>1, <2>2, <2>3, <2>4 DEF Sound
<1>7. ASSUME NEW i \in 1..L + M PROVE Sound(g, i)
  <2>1. CASE i <= L
    BY <2>1, <1>5
  <2>2. CASE i > L
    <3>1. PICK j \in 1..M : i = L + j
      <4>1. i - L \in 1..M /\ i = L + (i - L)
        BY <2>2
      <4> QED BY <4>1
    <3> QED BY <3>1, <1>6
  <2> QED BY <2>1, <2>2
<1> QED BY <1>1, <1>4, <1>7 DEF Chained

LEMMA EmptyChained == Chained(<<>>)
BY DEF Chained, Sound

(* A message alone: of the user, or an answer without calls.                 *)
LEMMA SingleChained ==
  ASSUME NEW r \in {"user", "assistant"}, NEW t \in Turns
  PROVE  Chained(<<Message(r, t, {}, None)>>)
<1>1. Message(r, t, {}, None) \in Messages
  BY DEF Message, Messages, Roles
<1>2. PICK m \in Messages : m = Message(r, t, {}, None)
  BY <1>1
<1>3. m.role # "tool" /\ m.calls = {} /\ m.call = None
  BY <1>2 DEF Message
<1>4. PICK g : g = <<m>>
  OBVIOUS
<1>5. g \in Seq(Messages) /\ Len(g) = 1 /\ g[1] = m
  BY <1>4
<1>6. \A i \in 1..1 : i = 1
  OBVIOUS
<1> QED BY <1>2, <1>3, <1>4, <1>5, <1>6 DEF Chained, Sound, Opens

LEMMA UnitFacts ==
  ASSUME NEW t \in Turns, NEW f \in Orders
  PROVE  /\ Unit(t, f) \in Seq(Messages) /\ Len(Unit(t, f)) = 1 + Width
         /\ Unit(t, f)[1] = Message("assistant", t, Calls, None)
         /\ \A k \in 1..Width : Unit(t, f)[1 + k] = Message("tool", t, {}, f[k])
<1> USE WidthNat
<1>1. f \in [1..Width -> Calls]
  BY DEF Orders, Width
<1>2. PICK u : u = [n \in 1..Width |-> Message("tool", t, {}, f[n])]
  OBVIOUS
<1>3. \A n \in 1..Width : Message("tool", t, {}, f[n]) \in Messages
  BY <1>1 DEF Message, Messages, Roles
<1>4. u \in [1..Width -> Messages]
  BY <1>2, <1>3
<1>5. u \in Seq(Messages) /\ Len(u) = Width
  BY <1>4, FunctionIsSeq
<1>6. Message("assistant", t, Calls, None) \in Messages
  BY DEF Message, Messages, Roles
<1>7. PICK h : h = <<Message("assistant", t, Calls, None)>>
  OBVIOUS
<1>8. h \in Seq(Messages) /\ Len(h) = 1 /\ h[1] = Message("assistant", t, Calls, None)
  BY <1>6, <1>7
<1>9. Unit(t, f) = h \o u
  BY <1>1, <1>2, <1>7 DEF Unit
<1>11. /\ h \o u \in Seq(Messages) /\ Len(h \o u) = Len(h) + Len(u)
       /\ \A i \in 1..Len(h) : (h \o u)[i] = h[i]
       /\ \A i \in 1..Len(u) : (h \o u)[Len(h) + i] = u[i]
  <2>1. h \in Seq(Messages) /\ u \in Seq(Messages)
    BY <1>5, <1>8
  <2> QED BY <2>1, ConcatFacts
<1>10. /\ h \o u \in Seq(Messages) /\ Len(h \o u) = 1 + Width
       /\ \A i \in 1..1 : (h \o u)[i] = h[i]
       /\ \A k \in 1..Width : (h \o u)[1 + k] = u[k]
  BY <1>5, <1>8, <1>11
<1> QED BY <1>2, <1>8, <1>9, <1>10

LEMMA UnitChained ==
  ASSUME NEW t \in Turns, NEW f \in Orders
  PROVE  Chained(Unit(t, f))
<1> USE WidthNat
<1>1. PICK g : g = Unit(t, f)
  OBVIOUS
<1>2. /\ g \in Seq(Messages) /\ Len(g) = 1 + Width
      /\ g[1].role = "assistant" /\ g[1].calls = Calls /\ g[1].call = None
      /\ \A k \in 1..Width : g[1 + k].role = "tool" /\ g[1 + k].calls = {} /\ g[1 + k].call = f[k]
  <2>1. /\ g \in Seq(Messages) /\ Len(g) = 1 + Width
        /\ g[1] = Message("assistant", t, Calls, None)
        /\ \A k \in 1..Width : g[1 + k] = Message("tool", t, {}, f[k])
    BY <1>1, UnitFacts
  <2>2. g[1].role = "assistant" /\ g[1].calls = Calls /\ g[1].call = None
    BY <2>1 DEF Message
  <2>3. ASSUME NEW k \in 1..Width
        PROVE  g[1 + k].role = "tool" /\ g[1 + k].calls = {} /\ g[1 + k].call = f[k]
    <3>1. PICK m : m = g[1 + k]
      OBVIOUS
    <3>2. m = Message("tool", t, {}, f[k])
      BY <2>1, <3>1
    <3> QED BY <3>1, <3>2 DEF Message
  <2> QED BY <2>1, <2>2, <2>3
<1>3. UnitAt(g, 1)
  BY <1>2 DEF UnitAt
<1>4. ASSUME NEW k \in 1..Width PROVE g[1].calls # {} /\ 1 \in 1..(1 + k) - 1 /\ 1 + k <= 1 + Width
  <2>1. f[k] \in Calls
    BY OrderFacts
  <2> QED BY <2>1, <1>2
<1>5. ASSUME NEW i \in 1..1 + Width
      PROVE  Sound(g, i)
  <2>1. CASE i = 1
    BY <2>1, <1>2, <1>3 DEF Sound
  <2>2. CASE i # 1
    <3>1. PICK k \in 1..Width : i = 1 + k
      <4>1. i - 1 \in 1..Width /\ i = 1 + (i - 1)
        BY <2>2
      <4> QED BY <4>1
    <3> QED BY <3>1, <1>2, <1>4 DEF Opens, Sound
  <2> QED BY <2>1, <2>2
<1> QED BY <1>1, <1>2, <1>5 DEF Chained

(* ---- one user message per turn -------------------------------------------*)
OncePerTurn(h) == \A i, j \in UserAt(h) : h[i].turn = h[j].turn => i = j

LEMMA CutOnce ==
  ASSUME NEW h, Chained(h), NEW p, NEW q, Block(h, p, q), OncePerTurn(h)
  PROVE  OncePerTurn(Cut(h, p, q))
<1>1. p \in 1..Len(h) /\ q \in p..Len(h) /\ Len(h) \in Nat /\ DOMAIN h = 1..Len(h)
  BY BlockRange DEF Chained, Sound
<1>2. PICK w \in Nat : w = q - p + 1
  BY CutFacts
<1>3. PICK g, L : g = Cut(h, p, q) /\ L = Len(h) - w
  OBVIOUS
<1>4. /\ g \in Seq(Messages) /\ Len(g) = L
      /\ \A n \in 1..L : \/ n \in 1..p - 1 /\ g[n] = h[n]
                         \/ n + w \in q + 1..Len(h) /\ g[n] = h[n + w]
  BY <1>2, <1>3, CutFacts
<1>5. DOMAIN g = 1..L
  BY <1>4
<1>6. ASSUME NEW i \in 1..L
      PROVE  \E k \in 1..Len(h) : g[i] = h[k] /\ ((k < p /\ k = i) \/ (k > q /\ k = i + w))
  <2>1. CASE i \in 1..p - 1 /\ g[i] = h[i]
    BY <2>1, <1>1
  <2>2. CASE i + w \in q + 1..Len(h) /\ g[i] = h[i + w]
    <3>1. PICK k \in 1..Len(h) : k = i + w /\ k > q
      BY <2>2, <1>1, <1>2
    <3> QED BY <3>1, <2>2
  <2> QED BY <2>1, <2>2, <1>4
<1>7. ASSUME NEW i \in UserAt(g), NEW j \in UserAt(g), g[i].turn = g[j].turn PROVE i = j
  <2>1. i \in 1..L /\ j \in 1..L /\ g[i].role = "user" /\ g[j].role = "user"
    BY <1>5 DEF UserAt
  <2>2. PICK k \in 1..Len(h) : g[i] = h[k] /\ ((k < p /\ k = i) \/ (k > q /\ k = i + w))
    BY <2>1, <1>6
  <2>3. PICK l \in 1..Len(h) : g[j] = h[l] /\ ((l < p /\ l = j) \/ (l > q /\ l = j + w))
    BY <2>1, <1>6
  <2>4. k = l
    BY <2>1, <2>2, <2>3, <1>1, <1>7 DEF OncePerTurn, UserAt
  <2> QED BY <2>1, <2>2, <2>3, <2>4, <1>1, <1>2
<1> QED BY <1>3, <1>7 DEF OncePerTurn

(* Messages that are not of the user add no turn; a user message adds one    *)
(* that was not used.                                                        *)
LEMMA JoinOnce ==
  ASSUME NEW h, NEW u, h \in Seq(Messages), u \in Seq(Messages), OncePerTurn(h),
         \/ \A i \in 1..Len(u) : u[i].role # "user"
         \/ Len(u) = 1 /\ ~TurnUsed(h, u[1].turn)
  PROVE  OncePerTurn(h \o u)
<1>1. PICK g : g = h \o u
  OBVIOUS
<1>2. PICK L, M \in Nat : L = Len(h) /\ M = Len(u)
  OBVIOUS
<1>3. /\ g \in Seq(Messages) /\ Len(g) = L + M
      /\ \A i \in 1..L : g[i] = h[i]
      /\ \A i \in 1..M : g[L + i] = u[i]
  BY <1>1, <1>2, ConcatFacts
<1>4. DOMAIN g = 1..L + M /\ DOMAIN h = 1..L
  BY <1>2, <1>3
<1>5. ASSUME NEW i \in 1..L + M, i > L PROVE \E k \in 1..M : i = L + k /\ g[i] = u[k]
  <2>1. i - L \in 1..M /\ i = L + (i - L)
    BY <1>5
  <2>2. PICK k \in 1..M : i = L + k
    BY <2>1
  <2> QED BY <2>2, <1>3
<1>6. ASSUME NEW i \in UserAt(g), NEW j \in UserAt(g), g[i].turn = g[j].turn PROVE i = j
  <2>1. i \in 1..L + M /\ j \in 1..L + M /\ g[i].role = "user" /\ g[j].role = "user"
    BY <1>4 DEF UserAt
  <2>2. CASE i <= L /\ j <= L
    <3>1. i \in UserAt(h) /\ j \in UserAt(h) /\ h[i].turn = h[j].turn
      BY <2>1, <2>2, <1>3, <1>4, <1>6 DEF UserAt
    <3> QED BY <3>1 DEF OncePerTurn
  <2>3. ASSUME NEW a \in 1..L, NEW b \in 1..L + M, b > L, g[b].role = "user", g[a].turn = g[b].turn
        PROVE  FALSE
    <3>1. PICK k \in 1..M : g[b] = u[k]
      BY <2>3, <1>5
    <3>2. M = 1 /\ ~TurnUsed(h, u[1].turn)
      BY <3>1, <2>3, <1>2
    <3>3. k = 1 /\ h[a].turn = u[1].turn
      BY <3>1, <3>2, <2>3, <1>3
    <3> QED BY <3>2, <3>3, <1>4 DEF TurnUsed
  <2>4. CASE i > L /\ j > L
    <3>1. PICK k \in 1..M : i = L + k /\ g[i] = u[k]
      BY <2>1, <2>4, <1>5
    <3>2. PICK l \in 1..M : j = L + l /\ g[j] = u[l]
      BY <2>1, <2>4, <1>5
    <3>3. M = 1
      BY <2>1, <3>1, <1>2
    <3> QED BY <3>1, <3>2, <3>3
  <2>5. CASE i <= L /\ j > L
    BY <2>1, <2>3, <2>5, <1>6
  <2>6. CASE j <= L /\ i > L
    BY <2>1, <2>3, <2>6, <1>6
  <2> QED BY <2>1, <2>2, <2>4, <2>5, <2>6
<1> QED BY <1>1, <1>6 DEF OncePerTurn

-----------------------------------------------------------------------------
(* The state machine: what holds of every session and snapshot, and steps   *)
(* that keep it and obey the policy.                                        *)
Good(h) == Chained(h) /\ Len(h) <= MaxMessages /\ ValidHistory(h) /\ OncePerTurn(h)
Kept(x) == /\ x \in Sessions /\ x.createdAt <= x.lastActivity /\ x.lastActivity <= clock
           /\ ValidPolicy(x.policy) /\ Good(x.msgs)
Ruled(s) ==
  /\ mem[s] # None => /\ up /\ s \in issued /\ Kept(mem[s]) /\ busy[s] <= mem[s].lastActivity
                      /\ store[s] \in {None, mem[s]}
  /\ store[s] # None => /\ s \in issued /\ store[s].policy.persist /\ Kept(store[s])
                        /\ busy[s] <= store[s].lastActivity
  /\ turn[s] # None => served[s] /\ mem[s] # None
Shape ==
  /\ up \in BOOLEAN /\ clock \in 0..MaxClock /\ issued \subseteq Sids
  /\ mem \in [Sids -> Sessions \cup {None}] /\ store \in [Sids -> Sessions \cup {None}]
  /\ served \in [Sids -> BOOLEAN] /\ turn \in [Sids -> Turns \cup {None}]
  /\ busy \in [Sids -> Nat] /\ ticks \subseteq [sid : issued, now : 0..clock]
LifeInv == Shape /\ \A s \in Sids : Ruled(s)

(* x is what a commit may make of the session of s: the same session, used   *)
(* now if b, with a good history; a closed one is still closed.              *)
Later(s, x, b) ==
  /\ x \in Sessions /\ x.createdAt = mem[s].createdAt /\ x.policy = mem[s].policy
  /\ x.lastActivity = (IF b THEN clock ELSE mem[s].lastActivity)
  /\ mem[s].st = "closed" => x.st = "closed"
  /\ Good(x.msgs)
Closing(s) == Was(s) # None /\ Was(s).st = "closed"
                => \A x \in {mem'[s], store'[s]} : x # None => x.st = "closed"
Pausing(s) == /\ mem'[s] # None /\ Was(s) # None /\ (ticks' # ticks \/ ~up)
              /\ mem'[s].st = "paused" /\ Was(s).st # "paused"
              => clock >= busy[s] + Was(s).policy.ttl
Lawful == LifeInv' /\ \A s \in Sids : Closing(s) /\ Pausing(s)

LEMMA SessionFields ==
  ASSUME NEW x \in Sessions
  PROVE  /\ x.st \in States /\ x.createdAt \in Nat /\ x.lastActivity \in Nat
         /\ x.policy \in Policies /\ x.msgs \in Seq(Messages)
         /\ x.policy.ttl \in Nat /\ x.policy.life \in Nat /\ x.policy.persist \in BOOLEAN
         /\ x # None
BY LifecycleAssumption DEF Sessions

(* The steps that leave every session and snapshot alone.                    *)
LEMMA StillLawful ==
  ASSUME LifeInv, UNCHANGED <<mem, store, served, up, issued, busy>>, clock' \in clock..MaxClock,
         ticks' \subseteq [sid : issued, now : 0..clock],
         \A s \in Sids : turn'[s] \in {turn[s], None}, turn' \in [Sids -> Turns \cup {None}]
  PROVE  Lawful
<1> USE DEF LifeInv, Shape
<1>1. clock \in Nat /\ clock' \in Nat /\ MaxClock \in Nat /\ clock' <= MaxClock
  BY LifecycleAssumption
<1>2. Shape'
  BY <1>1
<1>3. ASSUME NEW s \in Sids PROVE Ruled(s)'
  <2>1. \A x : Kept(x) => Kept(x)'
    BY <1>1, SessionFields DEF Kept
  <2> QED BY <2>1 DEF Ruled
<1>4. ASSUME NEW s \in Sids PROVE Closing(s) /\ Pausing(s)
  <2>1. Ruled(s)
    OBVIOUS
  <2> QED BY <2>1 DEF Ruled, Was, Closing, Pausing
<1> QED BY <1>2, <1>3, <1>4 DEF Lawful

(* The new session, by what depends on it.                                   *)
LEMMA LaterKept ==
  ASSUME LifeInv, NEW s \in Sids, NEW x, NEW b \in BOOLEAN, mem[s] # None, Later(s, x, b)
  PROVE  /\ Kept(x) /\ x # None /\ s \in issued /\ up /\ clock \in Nat
         /\ busy[s] <= x.lastActivity /\ (b => x.lastActivity = clock)
         /\ x.policy = mem[s].policy /\ store[s] \in {None, mem[s]}
         /\ store[s] # None => x.policy.persist
<1> USE DEF LifeInv, Shape
<1>1. Ruled(s) /\ clock \in Nat /\ mem[s] \in Sessions
  BY LifecycleAssumption
<1>2. Kept(mem[s]) /\ s \in issued /\ up /\ busy[s] <= mem[s].lastActivity
  BY <1>1 DEF Ruled
<1>3. busy[s] \in Nat /\ mem[s].lastActivity \in Nat /\ mem[s].createdAt \in Nat
  BY <1>1, SessionFields
<1>4. Kept(x)
  BY <1>1, <1>2, <1>3 DEF Later, Kept
<1>5. busy[s] <= x.lastActivity /\ (b => x.lastActivity = clock)
  BY <1>1, <1>2, <1>3 DEF Later, Kept
<1>6. x \in Sessions /\ x # None /\ x.policy = mem[s].policy
  BY SessionFields DEF Later
<1> QED BY <1>1, <1>2, <1>4, <1>5, <1>6 DEF Ruled

(* A commit that goes through, or that Set refuses.                          *)
LEMMA CommitLawful ==
  ASSUME LifeInv, NEW s \in Sids, NEW x, NEW t \in Turns \cup {None}, NEW b \in BOOLEAN,
         mem[s] # None, Later(s, x, b), t # None => served[s],
         Commit(s, x, t, b), UNCHANGED <<served, clock, issued>>, ticks' \subseteq ticks,
         ticks' # ticks /\ x.st = "paused" /\ mem[s].st # "paused"
           => clock >= busy[s] + mem[s].policy.ttl
  PROVE  Lawful
<1>1. CASE UNCHANGED <<up, mem, store, busy>> /\ turn' = [turn EXCEPT ![s] = None]
  <2>1. clock' \in clock..MaxClock /\ ticks' \subseteq [sid : issued, now : 0..clock]
    BY <1>1, LifecycleAssumption DEF LifeInv, Shape
  <2>2. turn' \in [Sids -> Turns \cup {None}] /\ \A r \in Sids : turn'[r] \in {turn[r], None}
    BY <1>1 DEF LifeInv, Shape
  <2> QED BY <1>1, <2>1, <2>2, StillLawful
<1>2. CASE /\ mem' = [mem EXCEPT ![s] = x] /\ store' = Written(s, x)
           /\ turn' = [turn EXCEPT ![s] = t] /\ UNCHANGED up
           /\ busy' = IF b THEN [busy EXCEPT ![s] = clock] ELSE busy
  <2>1. /\ Kept(x) /\ x # None /\ s \in issued /\ up /\ clock \in Nat
        /\ busy[s] <= x.lastActivity /\ (b => x.lastActivity = clock)
        /\ x.policy = mem[s].policy /\ store[s] \in {None, mem[s]}
        /\ store[s] # None => x.policy.persist
    BY LaterKept
  <2>2. x \in Sessions /\ mem \in [Sids -> Sessions \cup {None}]
        /\ store \in [Sids -> Sessions \cup {None}] /\ busy \in [Sids -> Nat]
        /\ turn \in [Sids -> Turns \cup {None}] /\ x.policy.persist \in BOOLEAN
    BY <2>1, SessionFields DEF Kept, LifeInv, Shape
  <2>3. Shape'
    <3>1. /\ mem' \in [Sids -> Sessions \cup {None}] /\ turn' \in [Sids -> Turns \cup {None}]
          /\ store' \in [Sids -> Sessions \cup {None}] /\ busy' \in [Sids -> Nat]
      BY <1>2, <2>1, <2>2 DEF Written
    <3> QED BY <1>2, <3>1 DEF LifeInv, Shape
  <2>4. /\ mem'[s] = x /\ store'[s] = (IF x.policy.persist THEN x ELSE store[s])
        /\ turn'[s] = t /\ busy'[s] = (IF b THEN clock ELSE busy[s])
    BY <1>2, <2>2 DEF Written
  <2>5. \A r \in Sids \ {s} : /\ mem'[r] = mem[r] /\ store'[r] = store[r]
                              /\ turn'[r] = turn[r] /\ busy'[r] = busy[r]
    BY <1>2, <2>2 DEF Written
  <2>6. store'[s] = (IF x.policy.persist THEN x ELSE None)
    BY <2>1, <2>4
  <2>7. ASSUME NEW r \in Sids PROVE Ruled(r)'
    <3>1. \A y : Kept(y) => Kept(y)'
      BY DEF Kept
    <3>2. CASE r = s
      <4>1. Kept(x)' /\ busy'[s] <= x.lastActivity
        BY <2>1, <2>4, <3>1, SessionFields DEF Kept
      <4> QED BY <1>2, <2>1, <2>4, <2>6, <3>2, <4>1 DEF Ruled
    <3>3. CASE r # s
      BY <1>2, <2>5, <3>1, <3>3 DEF Ruled, LifeInv
    <3> QED BY <3>2, <3>3
  <2>8. ASSUME NEW r \in Sids PROVE Closing(r) /\ Pausing(r)
    <3>0. Was(s) = mem[s] /\ up
      BY <2>1 DEF Was
    <3>1. CASE r = s
      BY <2>1, <2>4, <2>6, <3>0, <3>1 DEF Closing, Pausing, Later
    <3>2. CASE r # s
      BY <2>1, <2>5, <3>2 DEF Closing, Pausing, Was, LifeInv, Ruled
    <3> QED BY <3>1, <3>2
  <2> QED BY <2>3, <2>7, <2>8 DEF Lawful, LifeInv
<1> QED BY <1>1, <1>2 DEF Commit

(* The process dies: what is left are the snapshots, of which at most that   *)
(* of s has been written again.                                              *)
LEMMA DieLawful ==
  ASSUME LifeInv, Die, up, UNCHANGED clock, issued' \subseteq Sids, issued \subseteq issued',
         store' \in [Sids -> Sessions \cup {None}], busy' \in [Sids -> Nat],
         \A s \in Sids : \/ store'[s] = store[s] /\ busy'[s] = busy[s]
                         \/ /\ Kept(store'[s]) /\ store'[s].policy.persist /\ s \in issued'
                            /\ busy'[s] <= store'[s].lastActivity
                            /\ mem[s] # None /\ mem[s].st = "closed" => store'[s].st = "closed"
  PROVE  Lawful
<1> USE DEF LifeInv, Shape
<1>1. Shape'
  BY DEF Die, Nowhere, Nobody
<1>0. \A s \in Sids : mem'[s] = None /\ turn'[s] = None
  BY DEF Die, Nowhere
<1>2. ASSUME NEW s \in Sids PROVE Ruled(s)'
  <2>1. \A y : Kept(y) => Kept(y)'
    BY DEF Kept
  <2>2. Ruled(s)
    OBVIOUS
  <2> QED BY <2>1, <2>2, <1>0 DEF Ruled
<1>3. ASSUME NEW s \in Sids PROVE Closing(s) /\ Pausing(s)
  <2>1. Ruled(s) /\ Was(s) = mem[s]
    BY DEF Was
  <2> QED BY <2>1, <1>0 DEF Ruled, Closing, Pausing
<1> QED BY <1>1, <1>2, <1>3 DEF Lawful

LEMMA ChangeLawful ==
  ASSUME LifeInv, NEW s \in Sids, NEW x, NEW t \in Turns \cup {None}, NEW b \in BOOLEAN,
         mem[s] # None, Later(s, x, b), t # None => served[s], Change(s, x, t, b)
  PROVE  Lawful
<1>1. CASE Commit(s, x, t, b) /\ UNCHANGED <<served, ticks>>
  BY <1>1, CommitLawful DEF Change
<1>2. CASE /\ x.policy.persist /\ Die /\ store' = Written(s, x)
           /\ busy' = IF b THEN [busy EXCEPT ![s] = clock] ELSE busy
  <2>1. /\ Kept(x) /\ s \in issued /\ up /\ clock \in Nat
        /\ busy[s] <= x.lastActivity /\ (b => x.lastActivity = clock)
    BY LaterKept
  <2>2. store \in [Sids -> Sessions \cup {None}] /\ busy \in [Sids -> Nat] /\ x \in Sessions
    BY <2>1 DEF LifeInv, Shape, Kept
  <2>3. store' \in [Sids -> Sessions \cup {None}] /\ busy' \in [Sids -> Nat]
    BY <1>2, <2>1, <2>2 DEF Written
  <2>4. store'[s] = x /\ busy'[s] = (IF b THEN clock ELSE busy[s])
        /\ \A r \in Sids \ {s} : store'[r] = store[r] /\ busy'[r] = busy[r]
    BY <1>2, <2>2 DEF Written
  <2>5. busy'[s] <= x.lastActivity
    BY <2>1, <2>2, <2>4, SessionFields
  <2>6. mem[s].st = "closed" => x.st = "closed"
    BY DEF Later
  <2>7. clock' = clock /\ issued' = issued /\ issued \subseteq Sids
    BY DEF Change, LifeInv, Shape
  <2>8. ASSUME NEW r \in Sids
        PROVE  \/ store'[r] = store[r] /\ busy'[r] = busy[r]
               \/ /\ Kept(store'[r]) /\ store'[r].policy.persist /\ r \in issued'
                  /\ busy'[r] <= store'[r].lastActivity
                  /\ mem[r] # None /\ mem[r].st = "closed" => store'[r].st = "closed"
    BY <1>2, <2>1, <2>4, <2>5, <2>6, <2>7
  <2> QED BY <1>2, <2>1, <2>3, <2>7, <2>8, DieLawful
<1> QED BY <1>1, <1>2 DEF Change, CommitOrDie

LEMMA EmptyGood == Good(<<>>)
<1>1. DOMAIN <<>> = {} /\ Len(<<>>) = 0 /\ MaxMessages \in Nat
  BY LifecycleAssumption
<1> QED BY <1>1, EmptyChained, ChainedIsPaired DEF Good, ValidHistory, OncePerTurn, UserAt

LEMMA CreateLawful ==
  ASSUME LifeInv, NEW s \in Sids, NEW p \in Policies, Create(s, p)
  PROVE  Lawful
<1> USE DEF LifeInv, Shape
<1>1. PICK x : x = [st |-> "created", createdAt |-> clock, lastActivity |-> clock,
                    policy |-> p, msgs |-> <<>>]
  OBVIOUS
<1>2. /\ up /\ s \notin issued /\ issued' = issued \cup {s} /\ clock' = clock
      /\ clock \in Nat /\ issued' \subseteq Sids /\ issued \subseteq issued'
  <2>1. up /\ s \notin issued /\ issued' = issued \cup {s} /\ clock' = clock
    BY DEF Create
  <2>2. clock \in Nat
    BY LifecycleAssumption
  <2>3. issued' \subseteq Sids /\ issued \subseteq issued'
    BY <2>1
  <2> QED BY <2>1, <2>2, <2>3
<1>3. Kept(x) /\ x.policy = p /\ x.lastActivity = clock /\ x \in Sessions
  <2>1. ValidPolicy(p)
    BY DEF Create
  <2>2. x \in Sessions
    BY <1>1, <1>2 DEF Sessions, States
  <2> QED BY <1>1, <1>2, <2>1, <2>2, EmptyGood DEF Kept
<1>4. /\ mem[s] = None /\ store[s] = None /\ turn[s] = None /\ x # None
      /\ x.policy.persist \in BOOLEAN
  BY <1>2, <1>3, SessionFields DEF Ruled
<1>5. CASE Commit(s, x, None, TRUE) /\ served' = [served EXCEPT ![s] = mem'[s] # None] /\ UNCHANGED ticks
  <2>0. /\ up' = up /\ turn' = [turn EXCEPT ![s] = None]
        /\ \/ /\ mem' = [mem EXCEPT ![s] = x] /\ busy' = [busy EXCEPT ![s] = clock]
              /\ store' = [store EXCEPT ![s] = x] \/ store' = store
           \/ mem' = mem /\ store' = store /\ busy' = busy
    BY <1>5 DEF Commit, Written
  <2>a. None \in Turns \cup {None} /\ x \in Sessions \cup {None}
    BY <1>3
  <2>1. /\ up' = up /\ mem' \in [Sids -> Sessions \cup {None}]
        /\ store' \in [Sids -> Sessions \cup {None}]
        /\ turn' \in [Sids -> Turns \cup {None}] /\ busy' \in [Sids -> Nat]
    BY <1>2, <2>a, <2>0
  <2>2. served' \in [Sids -> BOOLEAN]
    BY <1>5
  <2>3. Shape'
    BY <1>2, <1>5, <2>1, <2>2
  <2>4. /\ turn'[s] = None
        /\ \/ mem'[s] = x /\ store'[s] = (IF p.persist THEN x ELSE None) /\ busy'[s] = clock
           \/ mem'[s] = None /\ store'[s] = None
        /\ \A r \in Sids \ {s} : /\ mem'[r] = mem[r] /\ store'[r] = store[r]
                                 /\ turn'[r] = turn[r] /\ busy'[r] = busy[r] /\ served'[r] = served[r]
    BY <1>3, <1>4, <1>5 DEF Commit, Written
  <2>5. ASSUME NEW r \in Sids PROVE Ruled(r)'
    <3>1. \A y : Kept(y) => Kept(y)'
      BY <1>2 DEF Kept
    <3>2. CASE r = s
      <4>1. clock <= x.lastActivity /\ s \in issued' /\ up' /\ Kept(x)'
        BY <1>2, <1>3, <2>1, <3>1
      <4> QED BY <1>3, <2>4, <3>2, <4>1 DEF Ruled
    <3>3. CASE r # s
      BY <1>2, <2>1, <2>4, <3>1, <3>3 DEF Ruled
    <3> QED BY <3>2, <3>3
  <2>6. ASSUME NEW r \in Sids PROVE Closing(r) /\ Pausing(r)
    <3>1. Was(r) = mem[r] /\ Ruled(r)
      BY <1>2 DEF Was
    <3> QED BY <1>2, <1>4, <1>5, <2>4, <3>1 DEF Closing, Pausing, Ruled
  <2> QED BY <2>3, <2>5, <2>6 DEF Lawful
<1>6. CASE p.persist /\ Die /\ store' = Written(s, x) /\ busy' = [busy EXCEPT ![s] = clock]
  <2>1. store' = [store EXCEPT ![s] = x]
    BY <1>3, <1>6 DEF Written
  <2>2. store' \in [Sids -> Sessions \cup {None}] /\ busy' \in [Sids -> Nat]
    BY <1>2, <1>3, <1>6, <2>1
  <2>3. store'[s] = x /\ busy'[s] = clock /\ clock <= x.lastActivity
        /\ \A r \in Sids \ {s} : store'[r] = store[r] /\ busy'[r] = busy[r]
    BY <1>2, <1>3, <1>6, <2>1
  <2>4. ASSUME NEW r \in Sids
        PROVE  \/ store'[r] = store[r] /\ busy'[r] = busy[r]
               \/ /\ Kept(store'[r]) /\ store'[r].policy.persist /\ r \in issued'
                  /\ busy'[r] <= store'[r].lastActivity
                  /\ mem[r] # None /\ mem[r].st = "closed" => store'[r].st = "closed"
    BY <1>2, <1>3, <1>4, <1>6, <2>3
  <2> QED BY <1>2, <1>6, <2>2, <2>4, DieLawful
<1> QED BY <1>1, <1>5, <1>6 DEF Create

LEMMA HasSession ==
  ASSUME LifeInv, NEW s \in Sids, mem[s] # None
  PROVE  /\ mem[s] \in Sessions /\ Good(mem[s].msgs) /\ clock \in Nat /\ s \in issued /\ up
         /\ turn[s] \in Turns \cup {None} /\ None \in Turns \cup {None}
BY LifecycleAssumption DEF LifeInv, Shape, Ruled, Kept

(* What each operation commits is a later state of the same session.         *)
LEMMA MovedLater ==
  ASSUME LifeInv, NEW s \in Sids, mem[s] # None, NEW st \in States,
         mem[s].st = "closed" => st = "closed"
  PROVE  Later(s, Moved(s, st), FALSE)
<1>1. PICK y \in Sessions : y = mem[s] /\ Good(y.msgs)
  BY HasSession
<1> QED BY <1>1 DEF Later, Moved, Sessions

LEMMA HistoryLater ==
  ASSUME LifeInv, NEW s \in Sids, mem[s] # None, NEW h, h \in Seq(Messages), Good(h)
  PROVE  Later(s, [mem[s] EXCEPT !.msgs = h], FALSE)
<1>1. PICK y \in Sessions : y = mem[s]
  BY HasSession
<1>2. [y EXCEPT !.msgs = h] \in Sessions
  BY <1>1 DEF Sessions
<1> QED BY <1>1, <1>2 DEF Later, Sessions

LEMMA ResumedLater ==
  ASSUME LifeInv, NEW s \in Sids, mem[s] # None, mem[s].st # "closed"
  PROVE  Later(s, Resumed(mem[s]), TRUE)
<1>1. PICK y \in Sessions : y = mem[s] /\ Good(y.msgs) /\ clock \in Nat
  BY HasSession
<1> QED BY <1>1 DEF Later, Resumed, Sessions, States

LEMMA AppendedLater ==
  ASSUME LifeInv, NEW s \in Sids, mem[s] # None, NEW u, u \in Seq(Messages), Good(mem[s].msgs \o u)
  PROVE  /\ Later(s, Appended(s, u), TRUE)
         /\ Appended(s, u).st = mem[s].st /\ Appended(s, u).msgs = mem[s].msgs \o u
<1>1. PICK y \in Sessions : y = mem[s] /\ clock \in Nat
  BY HasSession
<1>2. y.msgs \in Seq(Messages)
  BY SessionFields
<1>3. PICK g \in Seq(Messages) : g = y.msgs \o u
  BY <1>2, ConcatFacts
<1>4. PICK x : x = Appended(s, u)
  OBVIOUS
<1>5. x = [y EXCEPT !.lastActivity = clock, !.msgs = g]
  BY <1>1, <1>3, <1>4 DEF Appended
<1>6. x \in Sessions
  BY <1>1, <1>3, <1>5 DEF Sessions
<1>7. /\ x.createdAt = y.createdAt /\ x.policy = y.policy /\ x.st = y.st
      /\ x.lastActivity = clock /\ x.msgs = g
  BY <1>1, <1>3, <1>5 DEF Sessions
<1> QED BY <1>1, <1>3, <1>4, <1>6, <1>7 DEF Later

LEMMA GoodJoin ==
  ASSUME NEW h, NEW u, Good(h), Chained(u), Fits(h \o u), ValidHistory(h \o u),
         \/ \A i \in 1..Len(u) : u[i].role # "user"
         \/ Len(u) = 1 /\ ~TurnUsed(h, u[1].turn)
  PROVE  Good(h \o u)
<1>1. Chained(h) /\ OncePerTurn(h) /\ h \in Seq(Messages) /\ u \in Seq(Messages)
  BY DEF Good, Chained
<1> QED BY <1>1, JoinChained, JoinOnce DEF Good, Fits

LEMMA GoodCut ==
  ASSUME NEW h, Good(h), NEW i \in 1..Len(h)
  PROVE  /\ Chained(Without(h, DeletedWith(h, i)))
         /\ ValidHistory(Without(h, DeletedWith(h, i))) => Good(Without(h, DeletedWith(h, i)))
<1>1. Chained(h) /\ OncePerTurn(h) /\ Len(h) <= MaxMessages /\ Len(h) \in Nat /\ MaxMessages \in Nat
  BY LifecycleAssumption DEF Good, Chained
<1>2. PICK p, q \in 1..Len(h) : Block(h, p, q) /\ DeletedWith(h, i) = p..q
  BY <1>1, DeletesABlock
<1>3. PICK g : g = Cut(h, p, q)
  OBVIOUS
<1>4. Without(h, DeletedWith(h, i)) = g
  BY <1>1, <1>2, <1>3, WithoutIsCut
<1>5. Chained(g) /\ OncePerTurn(g)
  BY <1>1, <1>2, <1>3, CutChained, CutOnce
<1>6. Len(g) <= MaxMessages
  BY <1>1, <1>2, <1>3, CutFacts
<1> QED BY <1>4, <1>5, <1>6 DEF Good

LEMMA BeginTurnLawful ==
  ASSUME LifeInv, NEW s \in Sids, NEW t \in Turns, BeginTurn(s, t)
  PROVE  Lawful
<1>1. PICK u : u = <<Message("user", t, {}, None)>>
  OBVIOUS
<1>2. PICK a : a = Appended(s, u)
  OBVIOUS
<1>3. PICK x : x = [a EXCEPT !.st = AfterUser(@)]
  OBVIOUS
<1>4. /\ mem[s] # None /\ served[s] /\ ~TurnUsed(mem[s].msgs, t)
      /\ ValidHistory(x.msgs) /\ Fits(x.msgs) /\ Change(s, x, t, TRUE)
  BY <1>1, <1>2, <1>3 DEF BeginTurn, Task
<1>5. Good(mem[s].msgs) /\ mem[s] \in Sessions
  BY <1>4, HasSession
<1>6. Chained(u) /\ Len(u) = 1 /\ u[1].turn = t
  BY <1>1, SingleChained DEF Message
<1>7. u \in Seq(Messages)
  BY <1>6 DEF Chained
<1>8. a.msgs = mem[s].msgs \o u /\ a.st = mem[s].st
  BY <1>2 DEF Appended, Sessions
<1>9. x.msgs = a.msgs
  BY <1>3
<1>10. Good(mem[s].msgs \o u)
  BY <1>4, <1>5, <1>6, <1>8, <1>9, GoodJoin
<1>11. Later(s, a, TRUE)
  BY <1>2, <1>4, <1>7, <1>10, AppendedLater
<1>12. a.st \in States /\ AfterUser(a.st) \in States /\ (a.st = "closed" => AfterUser(a.st) = "closed")
  BY <1>11, SessionFields DEF Later, AfterUser, States
<1>13. Later(s, x, TRUE)
  BY <1>3, <1>8, <1>11, <1>12 DEF Later, Sessions
<1> QED BY <1>4, <1>13, ChangeLawful

LEMMA AppendLawful ==
  ASSUME LifeInv, NEW s \in Sids, NEW u, NEW t \in {turn[s], None}, AppendMore(s, u, t),
         Chained(u), \A i \in 1..Len(u) : u[i].role # "user"
  PROVE  Lawful
<1>1. /\ turn[s] # None /\ ValidHistory(mem[s].msgs \o u) /\ Fits(mem[s].msgs \o u)
      /\ Change(s, Appended(s, u), t, TRUE)
  BY DEF AppendMore
<1>2. mem[s] # None /\ served[s]
  BY <1>1 DEF LifeInv, Ruled
<1>3. Good(mem[s].msgs \o u) /\ u \in Seq(Messages)
  BY <1>1, <1>2, HasSession, GoodJoin DEF Chained
<1>4. t \in Turns \cup {None}
  BY <1>2, HasSession
<1> QED BY <1>1, <1>2, <1>3, <1>4, AppendedLater, ChangeLawful

LEMMA AppendUnitLawful ==
  ASSUME LifeInv, NEW s \in Sids, AppendUnit(s)
  PROVE  Lawful
<1>1. PICK f \in Orders : AppendMore(s, Unit(turn[s], f), turn[s])
  BY DEF AppendUnit
<1>2. turn[s] \in Turns
  BY <1>1 DEF AppendMore, LifeInv, Shape
<1>3. PICK u : u = Unit(turn[s], f)
  OBVIOUS
<1>4. Chained(u)
  BY <1>2, <1>3, UnitChained
<1>5. ASSUME NEW i \in 1..Len(u) PROVE u[i].role # "user"
  <2>1. /\ Len(u) = 1 + Width /\ u[1] = Message("assistant", turn[s], Calls, None)
        /\ \A k \in 1..Width : u[1 + k] = Message("tool", turn[s], {}, f[k])
    BY <1>2, <1>3, UnitFacts
  <2>2. CASE i = 1
    BY <2>1, <2>2 DEF Message
  <2>3. CASE i # 1
    <3>1. i - 1 \in 1..Width /\ 1 + (i - 1) = i
      BY <2>1, <2>3, WidthNat
    <3>2. PICK k \in 1..Width : i = 1 + k
      BY <3>1
    <3>3. u[i] = Message("tool", turn[s], {}, f[k])
      BY <2>1, <3>2
    <3> QED BY <3>3 DEF Message
  <2> QED BY <2>2, <2>3
<1> QED BY <1>1, <1>3, <1>4, <1>5, AppendLawful

LEMMA AppendFinalLawful ==
  ASSUME LifeInv, NEW s \in Sids, AppendFinal(s)
  PROVE  Lawful
<1>1. PICK u : u = <<Message("assistant", turn[s], {}, None)>>
  OBVIOUS
<1>2. AppendMore(s, u, None) /\ turn[s] \in Turns
  BY <1>1 DEF AppendFinal, AppendMore, LifeInv, Shape
<1>3. Chained(u) /\ Len(u) = 1 /\ u[1].role = "assistant"
  BY <1>1, <1>2, SingleChained DEF Message
<1>4. \A i \in 1..Len(u) : u[i].role # "user"
  BY <1>3
<1> QED BY <1>2, <1>3, <1>4, AppendLawful

LEMMA EditLawful ==
  ASSUME LifeInv, NEW s \in Sids,
         \/ Pause(s) \/ Resume(s) \/ Close(s) \/ ClearMessages(s)
         \/ mem[s] # None /\ \E i \in DOMAIN mem[s].msgs : DeleteMessage(s, i)
  PROVE  Lawful
<1> USE DEF Task
<1>0. None \in Turns \cup {None} /\ "paused" \in States /\ "closed" \in States
  BY DEF States
<1>1. CASE Pause(s)
  <2>1. mem[s] # None /\ mem[s].st # "closed" /\ Change(s, Moved(s, "paused"), None, FALSE)
    BY <1>1 DEF Pause, StateAllowed, AllowedIn
  <2> QED BY <1>0, <2>1, MovedLater, ChangeLawful
<1>2. CASE Resume(s)
  <2>1. mem[s] # None /\ mem[s].st # "closed" /\ Change(s, Resumed(mem[s]), None, TRUE)
    BY <1>2 DEF Resume, StateAllowed, AllowedIn
  <2> QED BY <1>0, <2>1, ResumedLater, ChangeLawful
<1>3. CASE Close(s)
  <2>1. mem[s] # None /\ Change(s, Moved(s, "closed"), None, FALSE)
    BY <1>3 DEF Close
  <2> QED BY <1>0, <2>1, MovedLater, ChangeLawful
<1>4. CASE ClearMessages(s)
  <2>1. mem[s] # None /\ Change(s, [mem[s] EXCEPT !.msgs = <<>>], None, FALSE)
    BY <1>4 DEF ClearMessages
  <2>2. <<>> \in Seq(Messages)
    OBVIOUS
  <2>3. PICK x : x = [mem[s] EXCEPT !.msgs = <<>>]
    OBVIOUS
  <2>4. Later(s, x, FALSE)
    BY <2>1, <2>2, <2>3, EmptyGood, HistoryLater
  <2> QED BY <1>0, <2>1, <2>3, <2>4, ChangeLawful
<1>5. CASE mem[s] # None /\ \E i \in DOMAIN mem[s].msgs : DeleteMessage(s, i)
  <2>1. PICK i \in DOMAIN mem[s].msgs : DeleteMessage(s, i)
    BY <1>5
  <2>2. PICK h : h = Without(mem[s].msgs, DeletedWith(mem[s].msgs, i))
    OBVIOUS
  <2>3. ValidHistory(h) /\ Change(s, [mem[s] EXCEPT !.msgs = h], None, FALSE)
    BY <2>1, <2>2 DEF DeleteMessage
  <2>4. Good(mem[s].msgs) /\ mem[s].msgs \in Seq(Messages)
    BY <1>5, HasSession, SessionFields
  <2>5. i \in 1..Len(mem[s].msgs)
    BY <2>4
  <2>6. Good(h) /\ h \in Seq(Messages)
    BY <2>2, <2>3, <2>4, <2>5, GoodCut DEF Chained
  <2>7. PICK x : x = [mem[s] EXCEPT !.msgs = h]
    OBVIOUS
  <2>8. Later(s, x, FALSE)
    BY <1>5, <2>6, <2>7, HistoryLater
  <2> QED BY <1>0, <1>5, <2>3, <2>7, <2>8, ChangeLawful
<1> QED BY <1>1, <1>2, <1>3, <1>4, <1>5

(* What the clock asks of a session: a closed one stays closed, one that is  *)
(* paused for it was idle for a TTL.                                         *)
LEMMA DesiredFacts ==
  ASSUME LifeInv, NEW x \in Sessions, NEW now \in 0..clock
  PROVE  /\ DesiredState(x, now) \in States
         /\ x.st = "closed" => DesiredState(x, now) = "closed"
         /\ DesiredState(x, now) = "paused" /\ x.st # "paused"
              => clock >= x.lastActivity + x.policy.ttl
<1>1. clock \in Nat /\ now \in Nat /\ now <= clock
  BY LifecycleAssumption DEF LifeInv, Shape
<1>2. x.st \in States /\ x.lastActivity \in Nat /\ x.policy.ttl \in Nat
  BY SessionFields
<1>3. CASE LifetimeOver(x, now)
  BY <1>3 DEF DesiredState, States
<1>4. CASE ~LifetimeOver(x, now) /\ IdleTooLong(x, now)
  BY <1>1, <1>2, <1>4 DEF DesiredState, IdleTooLong, States
<1>5. CASE ~LifetimeOver(x, now) /\ ~IdleTooLong(x, now)
  BY <1>2, <1>5 DEF DesiredState
<1> QED BY <1>3, <1>4, <1>5

LEMMA DeleteLawful ==
  ASSUME LifeInv, NEW s \in Sids, Delete(s)
  PROVE  Lawful
<1> USE DEF LifeInv, Shape
<1>1. turn[s] = None /\ mem[s] # None
  BY DEF Delete, Task
<1>2. /\ mem' \in [Sids -> Sessions \cup {None}] /\ store' \in [Sids -> Sessions \cup {None}]
      /\ served' \in [Sids -> BOOLEAN]
  BY DEF Delete
<1>3. Shape'
  BY <1>2 DEF Delete
<1>4. /\ served'[s] = FALSE /\ turn'[s] = None
      /\ \/ mem'[s] = None /\ store'[s] = None
         \/ mem'[s] = mem[s] /\ store'[s] = store[s]
      /\ \A r \in Sids \ {s} : /\ mem'[r] = mem[r] /\ store'[r] = store[r]
                               /\ turn'[r] = turn[r] /\ served'[r] = served[r]
      /\ \A r \in Sids : busy'[r] = busy[r]
  BY <1>1 DEF Delete
<1>5. \A y : Kept(y) => Kept(y)'
  BY DEF Kept, Delete
<1>6. ASSUME NEW r \in Sids PROVE Ruled(r)'
  <2>1. up' = up /\ issued' = issued
    BY DEF Delete
  <2>2. CASE r = s
    BY <1>4, <1>5, <2>1, <2>2 DEF Ruled
  <2>3. CASE r # s
    BY <1>4, <1>5, <2>1, <2>3 DEF Ruled
  <2> QED BY <2>2, <2>3
<1>7. ASSUME NEW r \in Sids PROVE Closing(r) /\ Pausing(r)
  <2>1. up /\ Was(r) = mem[r] /\ Ruled(r) /\ ticks' = ticks
    BY DEF Delete, Task, Was
  <2> QED BY <1>4, <2>1 DEF Ruled, Closing, Pausing
<1> QED BY <1>3, <1>6, <1>7 DEF Lawful

LEMMA CleanupLawful ==
  ASSUME LifeInv, NEW s \in Sids, Cleanup(s)
  PROVE  Lawful
<1>1. PICK k \in ticks : /\ k.sid = s /\ turn[s] = None /\ ticks' = ticks \ {k}
                         /\ IF served[s] /\ mem[s] # None /\ DesiredState(mem[s], k.now) # mem[s].st
                              THEN Commit(s, Moved(s, DesiredState(mem[s], k.now)), None, FALSE)
                                   /\ UNCHANGED served
                              ELSE UNCHANGED <<life, failures, restarts, busy>>
                         /\ UNCHANGED <<clock, issued>>
  BY DEF Cleanup
<1>2. k.now \in 0..clock /\ clock \in Nat /\ clock <= MaxClock /\ MaxClock \in Nat
  BY LifecycleAssumption DEF LifeInv, Shape
<1>3. CASE served[s] /\ mem[s] # None /\ DesiredState(mem[s], k.now) # mem[s].st
  <2>1. PICK st : st = DesiredState(mem[s], k.now)
    OBVIOUS
  <2>2. mem[s] \in Sessions /\ None \in Turns \cup {None}
    BY <1>3, HasSession
  <2>3. /\ st \in States /\ (mem[s].st = "closed" => st = "closed")
        /\ st = "paused" /\ mem[s].st # "paused" => clock >= mem[s].lastActivity + mem[s].policy.ttl
    BY <1>2, <2>1, <2>2, DesiredFacts
  <2>4. Later(s, Moved(s, st), FALSE)
    BY <1>3, <2>3, MovedLater
  <2>5. Moved(s, st).st = st
    BY <2>2 DEF Moved, Sessions
  <2>6. st = "paused" /\ mem[s].st # "paused" => clock >= busy[s] + mem[s].policy.ttl
    <3>1. busy[s] <= mem[s].lastActivity /\ busy[s] \in Nat
      BY <1>3 DEF LifeInv, Shape, Ruled
    <3> QED BY <1>2, <2>2, <2>3, <3>1, SessionFields
  <2>7. /\ Commit(s, Moved(s, st), None, FALSE) /\ UNCHANGED <<served, clock, issued>>
        /\ ticks' \subseteq ticks
    BY <1>1, <1>3, <2>1
  <2>8. PICK x : x = Moved(s, st)
    OBVIOUS
  <2> QED BY <1>3, <2>2, <2>4, <2>5, <2>6, <2>7, <2>8, CommitLawful
<1>4. CASE UNCHANGED <<life, failures, restarts, busy>>
  <2>1. clock' \in clock..MaxClock /\ ticks' \subseteq [sid : issued, now : 0..clock]
    BY <1>1, <1>2 DEF LifeInv, Shape
  <2>2. turn' \in [Sids -> Turns \cup {None}] /\ \A r \in Sids : turn'[r] \in {turn[r], None}
    BY <1>4 DEF LifeInv, Shape, life
  <2> QED BY <1>1, <1>4, <2>1, <2>2, StillLawful DEF life
<1> QED BY <1>1, <1>3, <1>4

LEMMA IdleLawful ==
  ASSUME LifeInv, \/ Advance \/ Tick \/ UNCHANGED vars
               \/ \E s \in Sids : TurnFails(s)
  PROVE  Lawful
<1> USE DEF life, vars
<1>1. /\ clock \in Nat /\ clock <= MaxClock /\ MaxClock \in Nat
      /\ turn \in [Sids -> Turns \cup {None}] /\ ticks \subseteq [sid : issued, now : 0..clock]
  BY LifecycleAssumption DEF LifeInv, Shape
<1>2. UNCHANGED <<mem, store, served, up, issued, busy>> /\ clock' \in clock..MaxClock
  BY <1>1 DEF Advance, Tick, TurnFails
<1>3. ticks' \subseteq [sid : issued, now : 0..clock]
  <2>1. \A s \in Swept : s \in issued
    BY DEF Swept, LifeInv, Ruled
  <2> QED BY <1>1, <2>1 DEF Advance, Tick, TurnFails
<1>4. turn' \in [Sids -> Turns \cup {None}] /\ \A r \in Sids : turn'[r] \in {turn[r], None}
  BY <1>1 DEF Advance, Tick, TurnFails
<1> QED BY <1>2, <1>3, <1>4, StillLawful

(* Restore, whole or up to a key it refuses: each snapshot is written again  *)
(* as the clock asks, or left alone.                                         *)
LEMMA AsOfFacts ==
  ASSUME LifeInv, NEW s \in Sids, store[s] # None
  PROVE  /\ Kept(AsOf(store[s])) /\ AsOf(store[s]) # None /\ AsOf(store[s]) \in Sessions
         /\ AsOf(store[s]).policy = store[s].policy
         /\ AsOf(store[s]).lastActivity = store[s].lastActivity
         /\ store[s].st = "closed" => AsOf(store[s]).st = "closed"
         /\ AsOf(store[s]).st = "paused" /\ store[s].st # "paused"
              => clock >= store[s].lastActivity + store[s].policy.ttl
<1>1. PICK x \in Sessions : x = store[s] /\ Kept(x)
  BY DEF LifeInv, Shape, Ruled
<1>2. clock \in 0..clock
  BY LifecycleAssumption DEF LifeInv, Shape
<1>3. PICK st \in States : st = DesiredState(x, clock)
  BY <1>2, DesiredFacts
<1>4. PICK y : y = AsOf(store[s])
  OBVIOUS
<1>5. y = [x EXCEPT !.st = st]
  BY <1>1, <1>3, <1>4 DEF AsOf
<1>6. /\ y \in Sessions /\ y.createdAt = x.createdAt /\ y.lastActivity = x.lastActivity
      /\ y.policy = x.policy /\ y.msgs = x.msgs /\ y.st = st
  BY <1>5 DEF Sessions
<1>7. Kept(y)
  BY <1>1, <1>6 DEF Kept
<1> QED BY <1>1, <1>2, <1>3, <1>4, <1>6, <1>7, DesiredFacts, SessionFields

LEMMA Indicator ==
  ASSUME NEW S, NEW T
  PROVE  [s \in S |-> s \in T] \in [S -> BOOLEAN]
<1>1. ASSUME NEW s \in S PROVE (s \in T) \in BOOLEAN
  <2>1. CASE s \in T
    <3>1. (s \in T) = TRUE
      BY <2>1
    <3> QED BY <3>1
  <2>2. CASE s \notin T
    <3>1. (s \in T) = FALSE
      BY <2>2
    <3> QED BY <3>1
  <2> QED BY <2>1, <2>2
<1> QED BY <1>1

LEMMA RestoreLawful ==
  ASSUME LifeInv, NEW S \in SUBSET Snapshots, ~up, store' = Overridden(S),
         \/ /\ up' = TRUE /\ S = Snapshots /\ mem' = store'
            /\ served' = [s \in Sids |-> s \in Snapshots]
         \/ up' = FALSE /\ UNCHANGED <<mem, served>>,
         UNCHANGED <<turn, clock, ticks, issued, busy>>
  PROVE  Lawful
<1> USE DEF LifeInv, Shape
<1>1. \A s \in Sids : /\ store'[s] = (IF s \in S THEN AsOf(store[s]) ELSE store[s])
                      /\ s \in S => store[s] # None
  BY DEF Overridden, Snapshots
<1>2. store' \in [Sids -> Sessions \cup {None}]
  BY AsOfFacts DEF Overridden, Snapshots
<1>3. Shape'
  <2>1. mem' \in [Sids -> Sessions \cup {None}] /\ up' \in BOOLEAN
    BY <1>2
  <2>2. served' \in [Sids -> BOOLEAN]
    <3>1. CASE served' = [s \in Sids |-> s \in Snapshots]
      BY <3>1, Indicator
    <3>2. CASE served' = served
      BY <3>2
    <3> QED BY <3>1, <3>2
  <2> QED BY <1>2, <2>1, <2>2
<1>4. \A s \in Sids : mem[s] = None /\ turn[s] = None
  BY DEF Ruled
<1>5. \A y : Kept(y) => Kept(y)'
  BY DEF Kept
<1>6. ASSUME NEW s \in Sids
      PROVE  /\ store'[s] # None => /\ s \in issued /\ store'[s].policy.persist /\ Kept(store'[s])
                                    /\ busy[s] <= store'[s].lastActivity
             /\ store[s] # None /\ store[s].st = "closed" /\ store'[s] # None => store'[s].st = "closed"
             /\ store[s] # None /\ store[s].st # "paused" /\ store'[s] # None /\ store'[s].st = "paused"
                  => clock >= busy[s] + store[s].policy.ttl
  <2>1. CASE s \in S
    <3>1. PICK x : x = AsOf(store[s])
      OBVIOUS
    <3>2. store[s] # None /\ store'[s] = x
      BY <1>1, <2>1, <3>1
    <3>3. /\ Kept(x) /\ x.policy = store[s].policy /\ x.lastActivity = store[s].lastActivity
          /\ store[s].st = "closed" => x.st = "closed"
          /\ x.st = "paused" /\ store[s].st # "paused"
               => clock >= store[s].lastActivity + store[s].policy.ttl
      BY <3>1, <3>2, AsOfFacts
    <3>4. s \in issued /\ store[s].policy.persist /\ busy[s] <= store[s].lastActivity
      BY <3>2 DEF Ruled
    <3>5. /\ busy[s] \in Nat /\ clock \in Nat /\ store[s].lastActivity \in Nat
          /\ store[s].policy.ttl \in Nat
      BY <3>2, SessionFields, LifecycleAssumption
    <3> QED BY <3>2, <3>3, <3>4, <3>5
  <2>2. CASE s \notin S
    BY <1>1, <2>2 DEF Ruled
  <2> QED BY <2>1, <2>2
<1>7. ASSUME NEW s \in Sids PROVE Ruled(s)'
  <2>1. mem'[s] # None => up' /\ mem'[s] = store'[s]
    BY <1>4
  <2>2. turn'[s] = None
    BY <1>4
  <2> QED BY <1>5, <1>6, <2>1, <2>2 DEF Ruled
<1>8. ASSUME NEW s \in Sids PROVE Closing(s) /\ Pausing(s)
  <2>1. Was(s) = store[s] /\ (mem'[s] # None => mem'[s] = store'[s])
    BY <1>4 DEF Was
  <2> QED BY <1>6, <2>1 DEF Closing, Pausing
<1> QED BY <1>3, <1>7, <1>8 DEF Lawful

LEMMA CrashLawful ==
  ASSUME LifeInv, Crash
  PROVE  Lawful
<1>1. /\ Die /\ up /\ UNCHANGED <<clock, store, busy, issued>> /\ issued \subseteq Sids
      /\ store \in [Sids -> Sessions \cup {None}] /\ busy \in [Sids -> Nat]
  BY DEF Crash, LifeInv, Shape
<1> QED BY <1>1, DieLawful

LEMMA InitLifeInv == Init => LifeInv
<1> SUFFICES ASSUME Init PROVE LifeInv
  OBVIOUS
<1>1. Shape
  BY LifecycleAssumption DEF Init, Shape, Nowhere, Nobody
<1>2. \A s \in Sids : Ruled(s)
  BY DEF Init, Ruled, Nowhere
<1> QED BY <1>1, <1>2 DEF LifeInv

LEMMA NextLawful == LifeInv /\ [Next]_vars => Lawful
<1> SUFFICES ASSUME LifeInv, [Next]_vars PROVE Lawful
  OBVIOUS
<1>1. ASSUME NEW s \in Sids, Client(s) PROVE Lawful
  <2>1. CASE \E p \in Policies : Create(s, p)
    BY <2>1, CreateLawful
  <2>2. CASE \E t \in Turns : BeginTurn(s, t)
    BY <2>2, BeginTurnLawful
  <2>3. CASE Delete(s)
    BY <2>3, DeleteLawful
  <2>4. CASE \/ Pause(s) \/ Resume(s) \/ Close(s) \/ ClearMessages(s)
             \/ mem[s] # None /\ \E i \in DOMAIN mem[s].msgs : DeleteMessage(s, i)
    BY <2>4, EditLawful
  <2> QED BY <1>1, <2>1, <2>2, <2>3, <2>4 DEF Client
<1>2. ASSUME NEW s \in Sids, TurnStep(s) PROVE Lawful
  BY <1>2, AppendUnitLawful, AppendFinalLawful, IdleLawful DEF TurnStep
<1>3. CASE Restore
  <2>1. PICK S \in SUBSET Snapshots : S = Snapshots
    OBVIOUS
  <2> QED BY <1>3, <2>1, RestoreLawful DEF Restore
<1>4. CASE RestoreFails
  <2>1. PICK s \in Snapshots : /\ ~up /\ store' = Overridden({x \in Snapshots : x < s})
                               /\ UNCHANGED <<up, mem, served, turn, clock, ticks, issued, restarts, busy>>
    BY <1>4 DEF RestoreFails
  <2>2. PICK S \in SUBSET Snapshots : S = {x \in Snapshots : x < s}
    OBVIOUS
  <2>3. up' = FALSE
    BY <2>1 DEF LifeInv, Shape
  <2> QED BY <2>1, <2>2, <2>3, RestoreLawful
<1> QED BY <1>1, <1>2, <1>3, <1>4, CleanupLawful, IdleLawful, CrashLawful DEF Next

(* The invariant says what the run checks.                                   *)
LEMMA LifeInvWhole ==
  ASSUME LifeInv
  PROVE  HistoriesWhole
<1> USE DEF LifeInv, Shape
<1>0. clock \in Nat
  BY LifecycleAssumption
<1>1. ASSUME NEW x, Kept(x) PROVE Session(x)
  BY <1>0, <1>1, SessionFields DEF Kept, Good, Session
<1>2. TypeOK
  BY <1>1 DEF TypeOK, Ruled
<1>3. ASSUME NEW s \in Snapshots PROVE Decodable(store[s]) <=> ~Foreign(store[s])
  <2>1. PICK x \in Sessions : x = store[s] /\ Kept(x)
    BY <1>3 DEF Snapshots, Ruled
  <2>2. PICK h : h = x.msgs
    OBVIOUS
  <2>3. h \in Seq(Messages) /\ ValidHistory(h) /\ OncePerTurn(h) /\ ValidPolicy(x.policy)
    BY <2>1, <2>2, SessionFields DEF Kept, Good
  <2> QED BY <2>1, <2>2, <2>3 DEF Decodable, OncePerTurn, Foreign
<1>4. ASSUME NEW s \in Sids, mem[s] # None, NEW h, h = mem[s].msgs, NEW i \in DOMAIN h
      PROVE  Paired(Without(h, DeletedWith(h, i)))
  <2>1. Good(h) /\ h \in Seq(Messages)
    BY <1>4, SessionFields DEF Ruled, Kept
  <2>2. i \in 1..Len(h)
    BY <2>1
  <2>3. Chained(Without(h, DeletedWith(h, i)))
    BY <2>1, <2>2, GoodCut
  <2> QED BY <2>3, ChainedIsPaired
<1>5. Restorable
  BY <1>3 DEF Restorable, Undecodable, Snapshots
<1>6. UnitsDeletedWhole
  BY <1>4 DEF UnitsDeletedWhole
<1> QED BY <1>2, <1>5, <1>6 DEF HistoriesWhole

(* The shape of histories, the times and the snapshots, in every state.      *)
THEOREM LifeInductive == Spec => []LifeInv
<1>1. LifeInv /\ [Next]_vars => LifeInv'
  BY NextLawful DEF Lawful
<1> QED BY InitLifeInv, <1>1, PTL DEF Spec

(* Whatever was written, edited or interrupted, a snapshot can be read again  *)
(* just if it holds no turn id that the decoder does not take, and every tool *)
(* call keeps its result through any deletion.                               *)
THEOREM SpecHistoriesWhole == Spec => []HistoriesWhole
<1>1. LifeInv => HistoriesWhole
  BY LifeInvWhole
<1> QED BY LifeInductive, <1>1, PTL

(* Only idle sessions are paused by the clock, and a closed session never     *)
(* opens again, through cleanup, crashes and Restore.                        *)
THEOREM SpecStatesByRule == Spec => StatesByRule
<1>1. LifeInv /\ [Next]_vars =>
        /\ \A s \in Sids :
             /\ mem'[s] # None /\ Was(s) # None /\ (ticks' # ticks \/ ~up)
             /\ mem'[s].st = "paused" /\ Was(s).st # "paused"
             => clock >= busy[s] + Was(s).policy.ttl
        /\ \A s \in Sids : Was(s) # None /\ Was(s).st = "closed"
             => \A x \in {mem'[s], store'[s]} : x # None => x.st = "closed"
  BY NextLawful DEF Lawful, Pausing, Closing
<1> QED BY LifeInductive, <1>1, PTL DEF Spec, StatesByRule, PausedOnlyWhenIdle, ClosedForGood

-----------------------------------------------------------------------------
(* The event hub.                                                           *)
(* The channels of a listed subscriber are open.                             *)
ListedOpen == \A s \in subs : events[s] = "open" /\ done[s] = "open"
(* A subscriber taken by a goroutine is not listed and not done; its events  *)
(* channel is open until that goroutine closes it.                           *)
TakenOpen ==
  \A p \in Procs : \A s \in work[p] :
    /\ s \notin subs /\ done[s] = "open"
    /\ events[s] = "open" \/ cur[p] = s
CurTaken ==
  \A p \in Procs : cur[p] # NoSub => cur[p] \in work[p] /\ events[cur[p]] = "closed"
Disjoint == \A p, q \in Procs : \A s \in Subs :
              s \in work[p] /\ s \in work[q] => p = q
Idle == \A p \in Procs : mode[p] = "idle" => work[p] = {}
ClosedEmpty == hubClosed => subs = {}
OpenOwned == \A s \in Subs : done[s] = "open" =>
               s \in subs \/ \E p \in Procs : s \in work[p]
SameMade == \A s \in Subs : /\ done[s] = "none" <=> events[s] = "none"
                            /\ done[s] = "closed" => events[s] = "closed"

Owners == /\ ListedOpen /\ TakenOpen /\ CurTaken /\ Disjoint /\ Idle
          /\ ClosedEmpty /\ OpenOwned /\ SameMade

HubInv == HubTypeOK /\ NoPanic /\ Owners

LEMMA InitHubInv == HubInit => HubInv
<1> SUFFICES ASSUME HubInit PROVE HubInv
  OBVIOUS
<1>1. HubTypeOK
  <2>1. <<>> \in Seq(Nat) /\ Len(<<>>) = 0
    OBVIOUS
  <2>2. \A s \in Subs : queue[s] = <<>>
    BY DEF HubInit
  <2>3. \A s \in Subs : Len(queue[s]) <= BufSize
    BY <2>1, <2>2, HubAssumption
  <2>4. queue \in [Subs -> Seq(Nat)] /\ seen \in [Subs -> Seq(Nat)]
    BY <2>1 DEF HubInit
  <2>5. 0 \in 0..MaxPublish
    BY HubAssumption
  <2>6. published \in 0..MaxPublish /\ from \in [Subs -> 0..MaxPublish]
    BY <2>5 DEF HubInit
  <2>7. subs \subseteq Subs /\ hubClosed \in BOOLEAN /\ panicked \in BOOLEAN
    BY DEF HubInit
  <2>8. events \in [Subs -> ChanStates] /\ done \in [Subs -> ChanStates]
    BY DEF HubInit, ChanStates
  <2>9. /\ mode \in [Procs -> Modes] /\ work \in [Procs -> SUBSET Subs]
        /\ cur \in [Procs -> Subs \cup {NoSub}]
    BY DEF HubInit, Modes
  <2> QED BY <2>3, <2>4, <2>6, <2>7, <2>8, <2>9 DEF HubTypeOK
<1>2. NoPanic /\ Owners
  BY HubAssumption DEF HubInit, NoPanic, Owners, ListedOpen, TakenOpen, CurTaken, Disjoint, Idle,
      ClosedEmpty, OpenOwned, SameMade
<1> QED BY <1>1, <1>2 DEF HubInv

(* Every operation keeps the types and the bound of the queues.              *)
LEMMA TypeStep == HubTypeOK /\ [HubNext]_hubVars => HubTypeOK'
<1> SUFFICES ASSUME HubTypeOK, [HubNext]_hubVars PROVE HubTypeOK'
  OBVIOUS
<1> USE HubAssumption DEF HubTypeOK, ChanStates, Modes
<1>1. ASSUME NEW s \in Subs, Subscribe(s) PROVE HubTypeOK'
  BY <1>1 DEF Subscribe
<1>2. ASSUME NEW s \in Subs, Receive(s) PROVE HubTypeOK'
  BY <1>2 DEF Receive
<1>3. ASSUME NEW p \in Procs, Publish(p) PROVE HubTypeOK'
  BY SMTT(30), <1>3 DEF Publish, Dropped, Overflowed, Full
<1>4. ASSUME NEW p \in Procs, NEW r \in BOOLEAN, CloseHub(p, r) PROVE HubTypeOK'
  BY <1>4 DEF CloseHub, AfterClose, TakenByClose
<1>5. ASSUME NEW p \in Procs, NEW s \in Subs, Unsubscribe(p, s) PROVE HubTypeOK'
  BY <1>5 DEF Unsubscribe, Registered
<1>6. ASSUME NEW p \in Procs, NEW s \in Subs, CloseEvents(p, s) PROVE HubTypeOK'
  BY <1>6 DEF CloseEvents, Full, End
<1>7. ASSUME NEW p \in Procs, CloseDone(p) PROVE HubTypeOK'
  BY <1>7 DEF CloseDone
<1>8. CASE UNCHANGED hubVars
  BY <1>8 DEF hubVars
<1> QED BY <1>1, <1>2, <1>3, <1>4, <1>5, <1>6, <1>7, <1>8 DEF HubNext

(* The heart of the argument: whoever removes a subscriber under h.mu is the *)
(* only one to close it.  One step per operation, one fact per conjunct that *)
(* the operation can disturb.                                                *)
LEMMA OwnersStep == HubTypeOK /\ NoPanic /\ Owners /\ [HubNext]_hubVars
                      => NoPanic' /\ Owners'
<1> SUFFICES ASSUME HubTypeOK, NoPanic, Owners, [HubNext]_hubVars
             PROVE  NoPanic' /\ Owners'
  OBVIOUS
<1> USE HubAssumption DEF Owners, ListedOpen, TakenOpen, CurTaken, Disjoint, Idle,
            ClosedEmpty, OpenOwned, SameMade, NoPanic
<1>1. ASSUME NEW s \in Subs, Subscribe(s) PROVE NoPanic' /\ Owners'
  BY <1>1 DEF Subscribe, HubTypeOK
<1>2. ASSUME NEW s \in Subs, Receive(s) PROVE NoPanic' /\ Owners'
  BY <1>2 DEF Receive
<1>3. ASSUME NEW p \in Procs, Publish(p) PROVE NoPanic' /\ Owners'
  BY <1>3 DEF Publish, Dropped, Overflowed, HubTypeOK
<1>4. ASSUME NEW p \in Procs, NEW r \in BOOLEAN, CloseHub(p, r)
      PROVE  NoPanic' /\ Owners'
  BY <1>4 DEF CloseHub, AfterClose, TakenByClose, HubTypeOK
<1>5. ASSUME NEW p \in Procs, NEW s \in Subs, Unsubscribe(p, s)
      PROVE  NoPanic' /\ Owners'
  BY <1>5 DEF Unsubscribe, Registered, HubTypeOK
<1>6. ASSUME NEW p \in Procs, NEW s \in Subs, CloseEvents(p, s)
      PROVE  NoPanic' /\ Owners'
  <2>1. s # NoSub /\ s \in work[p] /\ cur[p] = NoSub
    BY <1>6 DEF CloseEvents
  <2>2. events[s] = "open" /\ done[s] = "open" /\ s \notin subs
    BY <2>1
  <2>3. NoPanic'
    BY <1>6, <2>2 DEF CloseEvents
  <2>4. Owners'
    BY <1>6, <2>1, <2>2 DEF CloseEvents, HubTypeOK
  <2> QED BY <2>3, <2>4
<1>7. ASSUME NEW p \in Procs, CloseDone(p) PROVE NoPanic' /\ Owners'
  BY SMTT(30), <1>7 DEF CloseDone, HubTypeOK
<1>8. CASE UNCHANGED hubVars
  BY <1>8 DEF hubVars
<1> QED BY <1>1, <1>2, <1>3, <1>4, <1>5, <1>6, <1>7, <1>8 DEF HubNext

LEMMA HubInductive == HubSpec => []HubInv
<1>1. HubInv /\ [HubNext]_hubVars => HubInv'
  BY TypeStep, OwnersStep DEF HubInv
<1> QED BY InitHubInv, <1>1, PTL DEF HubSpec

(* Types, and no queue ever holds more than BufSize events.                  *)
THEOREM TypeCorrect == HubSpec => []HubTypeOK
<1>1. HubInv => HubTypeOK
  BY DEF HubInv
<1> QED BY HubInductive, <1>1, PTL

(* Publish, Close and Unsubscribe never close a channel twice and never send *)
(* on a closed one, however they interleave.                                 *)
THEOREM PanicFree == HubSpec => []NoPanic
<1>1. HubInv => NoPanic
  BY DEF HubInv
<1> QED BY HubInductive, <1>1, PTL

(* An open subscriber is listed, or in the hands of exactly one goroutine.   *)
THEOREM SingleCloser == HubSpec => []OneCloser
<1>1. HubInv => OneCloser
  BY DEF HubInv, Owners, ListedOpen, TakenOpen, Disjoint, ClosedEmpty, OpenOwned,
         SameMade, OneCloser
<1> QED BY HubInductive, <1>1, PTL

(* All of it together: what the run checks of the channels on a small hub    *)
(* holds for any number of goroutines, subscribers and events.               *)
THEOREM ChannelsStaySafe == HubSpec => []ChannelsSafe
<1> QED BY TypeCorrect, PanicFree, SingleCloser, PTL DEF ChannelsSafe

(* What a subscriber has got does not change when it reads one more event,   *)
(* and grows at the end when one is queued.                                  *)
LEMMA ReadKeeps ==
  ASSUME NEW a \in Seq(Nat), NEW q \in Seq(Nat), q # <<>>
  PROVE  Append(a, Head(q)) \o Tail(q) = a \o q
<1>1. Append(a, Head(q)) \in Seq(Nat) /\ Tail(q) \in Seq(Nat)
  BY HeadTailProperties
<1>2. Append(a, Head(q)) \o Tail(q) \in Seq(Nat) /\ a \o q \in Seq(Nat)
  BY <1>1
<1>3. Len(Append(a, Head(q)) \o Tail(q)) = Len(a \o q)
  BY <1>1
<1>4. \A i \in 1..Len(a \o q) : (Append(a, Head(q)) \o Tail(q))[i] = (a \o q)[i]
  BY <1>1
<1> QED BY <1>2, <1>3, <1>4, SeqEqual

LEMMA QueueGrows ==
  ASSUME NEW a \in Seq(Nat), NEW q \in Seq(Nat), NEW e \in Nat
  PROVE  /\ a \o Append(q, e) \in Seq(Nat)
         /\ Len(a \o Append(q, e)) = Len(a \o q) + 1
         /\ \A i \in 1..Len(a \o q) : (a \o Append(q, e))[i] = (a \o q)[i]
         /\ (a \o Append(q, e))[Len(a \o q) + 1] = e
OBVIOUS

(* The numbers from + 1, from + 2, ... without a gap.                        *)
Run(s, d) == \A i \in 1..Len(d) : d[i] = from[s] + i
(* The run is complete while the hub lists the subscriber, ends at most with *)
(* End, and End can only be there when the channel is closed.                *)
Gapless(s) ==
  LET d == Delivered(s) IN
    /\ from[s] <= published
    /\ events[s] = "none" => d = <<>>
    /\ events[s] # "closed" => Run(s, d)
    /\ \A i \in 1..Len(d) : d[i] = from[s] + i \/ (i = Len(d) /\ d[i] = End)
    /\ s \in subs => Len(d) = published - from[s]
Gaps == \A s \in Subs : Gapless(s)

LEMMA DeliveredType ==
  ASSUME HubTypeOK, NEW s \in Subs
  PROVE  /\ seen[s] \in Seq(Nat) /\ queue[s] \in Seq(Nat) /\ Delivered(s) \in Seq(Nat)
         /\ Len(Delivered(s)) \in Nat /\ from[s] \in Nat /\ published \in Nat
BY HubAssumption DEF HubTypeOK, Delivered

(* A step that leaves what a subscriber got, and does not list it.           *)
LEMMA GaplessKept ==
  ASSUME NEW s \in Subs, Gapless(s), HubTypeOK, Delivered(s)' = Delivered(s), from'[s] = from[s],
         published' \in Nat, published <= published', s \in subs' => s \in subs /\ published' = published,
         events'[s] = events[s] \/ (events[s] # "none" /\ events'[s] = "closed")
  PROVE  Gapless(s)'
BY DeliveredType DEF Gapless, Run

(* An event e queued behind the others.                                      *)
LEMMA GaplessGrows ==
  ASSUME NEW s \in Subs, Gapless(s), HubTypeOK, NEW e \in Nat, events[s] = "open",
         queue'[s] = Append(queue[s], e), seen'[s] = seen[s], from'[s] = from[s],
         published' \in Nat, published <= published',
         \/ /\ e = published + 1 /\ published' = e /\ s \in subs /\ events'[s] = "open"
         \/ e = End /\ s \notin subs' /\ events'[s] = "closed"
  PROVE  Gapless(s)'
<1> DEFINE d == Delivered(s)
           n == Len(d)
<1>1. d \in Seq(Nat) /\ n \in Nat /\ from[s] \in Nat /\ published \in Nat
  BY DeliveredType
<1> DEFINE new == seen[s] \o Append(queue[s], e)
<1>2. /\ Delivered(s)' = new /\ new \in Seq(Nat) /\ Len(new) = n + 1
      /\ \A i \in 1..n : new[i] = d[i]
      /\ new[n + 1] = e
  <2>1. Delivered(s)' = new
    BY DEF Delivered
  <2>2. seen[s] \in Seq(Nat) /\ queue[s] \in Seq(Nat)
    BY DeliveredType
  <2> QED BY ZenonT(30), <2>1, <2>2, QueueGrows DEF Delivered
<1>3. \A i \in 1..n : d[i] = from[s] + i
  BY DEF Gapless, Run
<1> HIDE DEF d, n, new
<1>4. CASE e = published + 1 /\ published' = e /\ s \in subs /\ events'[s] = "open"
  <2>1. n = published - from[s]
    BY <1>4 DEF Gapless, n, d
  <2>2. \A i \in 1..(n + 1) : new[i] = from[s] + i
    <3> TAKE i \in 1..(n + 1)
    <3>1. i \in Int /\ (i \in 1..n \/ i = n + 1)
      BY <1>1
    <3>2. n + 1 \in Int /\ e = from[s] + (n + 1)
      BY <1>1, <1>4, <2>1
    <3> QED BY <1>2, <1>3, <3>1, <3>2
  <2>3. from[s] <= published' /\ n + 1 = published' - from[s]
    BY <1>1, <1>4, <2>1 DEF Gapless
  <2> QED BY <1>2, <1>4, <2>2, <2>3 DEF Gapless, Run
<1>5. CASE e = End /\ s \notin subs' /\ events'[s] = "closed"
  <2>1. \A i \in 1..(n + 1) : new[i] = from[s] + i \/ (i = n + 1 /\ new[i] = End)
    <3> TAKE i \in 1..(n + 1)
    <3>1. i \in Int /\ (i \in 1..n \/ i = n + 1)
      BY <1>1
    <3> QED BY <1>2, <1>3, <1>5, <3>1
  <2>2. from[s] <= published'
    BY <1>1 DEF Gapless
  <2> QED BY <1>2, <1>5, <2>1, <2>2 DEF Gapless
<1> QED BY <1>4, <1>5

(* Every operation keeps every subscriber's run gapless.                     *)
LEMMA GapsStep == HubInv /\ Gaps /\ [HubNext]_hubVars => Gaps'
<1> SUFFICES ASSUME HubInv, Gaps, [HubNext]_hubVars, NEW s \in Subs PROVE Gapless(s)'
  BY DEF Gaps
<1> USE HubAssumption DEF HubInv
<1>0. Gapless(s) /\ HubTypeOK /\ HubTypeOK'
  BY TypeStep DEF Gaps
<1>1. ASSUME NEW r \in Subs, Subscribe(r) PROVE Gapless(s)'
  <2>1. Delivered(s)' = Delivered(s) /\ published' = published
    BY <1>1 DEF Subscribe, Delivered
  <2>2. CASE s = r
    <3>1. Delivered(s)' = <<>> /\ from'[s] = published /\ events'[s] # "none"
      BY <1>0, <1>1, <2>1, <2>2 DEF Subscribe, Gapless, HubTypeOK
    <3> QED BY <1>0, <2>1, <3>1, DeliveredType DEF Gapless, Run
  <2>3. CASE s # r
    <3>1. from'[s] = from[s] /\ events'[s] = events[s] /\ (s \in subs' => s \in subs)
      BY <1>0, <1>1, <2>3 DEF Subscribe, HubTypeOK
    <3> QED BY <1>0, <2>1, <3>1, DeliveredType, GaplessKept
  <2> QED BY <2>2, <2>3
<1>2. ASSUME NEW r \in Subs, Receive(r) PROVE Gapless(s)'
  <2>1. Delivered(s)' = Delivered(s)
    <3>1. CASE s = r
      <4>1. seen'[s] = Append(seen[s], Head(queue[s])) /\ queue'[s] = Tail(queue[s])
        BY <1>0, <1>2, <3>1 DEF Receive, HubTypeOK
      <4>2. queue[s] # <<>> /\ queue[s] \in Seq(Nat) /\ seen[s] \in Seq(Nat)
        BY <1>0, <1>2, <3>1 DEF Receive, HubTypeOK
      <4> QED BY <4>1, <4>2, ReadKeeps DEF Delivered
    <3>2. CASE s # r
      BY <1>0, <1>2, <3>2 DEF Receive, Delivered, HubTypeOK
    <3> QED BY <3>1, <3>2
  <2>2. UNCHANGED <<from, events, subs, published>>
    BY <1>2 DEF Receive
  <2> QED BY <1>0, <2>1, <2>2, DeliveredType, GaplessKept
<1>3. ASSUME NEW p \in Procs, Publish(p) PROVE Gapless(s)'
  <2>1. /\ published' = published + 1 /\ published \in Nat
        /\ UNCHANGED <<seen, from, events>>
        /\ subs' = subs \ Overflowed
    BY <1>0, <1>3, DeliveredType DEF Publish, Dropped
  <2>2. CASE s \in subs \ Overflowed
    <3>1. queue'[s] = Append(queue[s], published + 1)
      BY <1>3, <2>2 DEF Publish
    <3>2. events[s] = "open"
      BY <2>2 DEF Owners, ListedOpen
    <3> QED BY <1>0, <2>1, <2>2, <3>1, <3>2, GaplessGrows
  <2>3. CASE s \notin subs \ Overflowed
    <3>1. Delivered(s)' = Delivered(s)
      BY <1>3, <2>1, <2>3 DEF Publish, Delivered
    <3> QED BY <1>0, <2>1, <2>3, <3>1, DeliveredType, GaplessKept
  <2> QED BY <2>2, <2>3
<1>4. ASSUME NEW p \in Procs, NEW r \in BOOLEAN, CloseHub(p, r) PROVE Gapless(s)'
  <2>1. UNCHANGED <<from, events, published, queue, seen>> /\ s \notin subs'
    BY <1>4 DEF CloseHub, AfterClose
  <2>2. Delivered(s)' = Delivered(s)
    BY <2>1 DEF Delivered
  <2> QED BY <1>0, <2>1, <2>2, DeliveredType, GaplessKept
<1>5. ASSUME NEW p \in Procs, NEW r \in Subs, Unsubscribe(p, r) PROVE Gapless(s)'
  <2>1. UNCHANGED <<from, events, published, queue, seen>> /\ (s \in subs' => s \in subs)
    BY <1>5 DEF Unsubscribe
  <2>2. Delivered(s)' = Delivered(s)
    BY <2>1 DEF Delivered
  <2> QED BY <1>0, <2>1, <2>2, DeliveredType, GaplessKept
<1>6. ASSUME NEW p \in Procs, NEW r \in Subs, CloseEvents(p, r) PROVE Gapless(s)'
  <2>1. UNCHANGED <<from, published, seen, subs>> /\ r \notin subs /\ events[r] = "open"
    BY <1>6, HubAssumption DEF CloseEvents, Owners, TakenOpen
  <2>2. CASE s = r
    <3>1. events'[s] = "closed"
      BY <1>0, <1>6, <2>2 DEF CloseEvents, HubTypeOK
    <3>2. CASE queue'[s] = Append(queue[s], End)
      <4>1. End \in Nat /\ published' \in Nat /\ published <= published'
        BY <1>0, <2>1, DeliveredType DEF End
      <4> QED BY <1>0, <2>1, <2>2, <3>1, <3>2, <4>1, GaplessGrows
    <3>3. CASE queue'[s] = queue[s]
      <4>1. Delivered(s)' = Delivered(s)
        BY <2>1, <3>3 DEF Delivered
      <4> QED BY <1>0, <2>1, <2>2, <3>1, <4>1, DeliveredType, GaplessKept
    <3> QED BY <1>0, <1>6, <2>2, <3>2, <3>3 DEF CloseEvents, HubTypeOK
  <2>3. CASE s # r
    <3>1. queue'[s] = queue[s] /\ events'[s] = events[s]
      BY <1>0, <1>6, <2>3 DEF CloseEvents, HubTypeOK
    <3>2. Delivered(s)' = Delivered(s)
      BY <2>1, <3>1 DEF Delivered
    <3> QED BY <1>0, <2>1, <3>1, <3>2, DeliveredType, GaplessKept
  <2> QED BY <2>2, <2>3
<1>7. ASSUME NEW p \in Procs, CloseDone(p) PROVE Gapless(s)'
  <2>1. UNCHANGED <<from, events, published, queue, seen, subs>>
    BY <1>7 DEF CloseDone
  <2>2. Delivered(s)' = Delivered(s)
    BY <2>1 DEF Delivered
  <2> QED BY <1>0, <2>1, <2>2, DeliveredType, GaplessKept
<1>8. CASE UNCHANGED hubVars
  <2>1. UNCHANGED <<from, events, published, queue, seen, subs>>
    BY <1>8 DEF hubVars
  <2>2. Delivered(s)' = Delivered(s)
    BY <2>1 DEF Delivered
  <2> QED BY <1>0, <2>1, <2>2, DeliveredType, GaplessKept
<1> QED BY <1>1, <1>2, <1>3, <1>4, <1>5, <1>6, <1>7, <1>8 DEF HubNext

(* Whatever overlaps, a subscriber gets the events accepted since it came,   *)
(* in order and without a gap, End only last (Publish, Close and Subscribe   *)
(* of hub.go), for any number of goroutines, subscribers and events.         *)
THEOREM GapFree == HubSpec => []NoGaps
<1>1. HubInit => Gaps
  <2> SUFFICES ASSUME HubInit, NEW s \in Subs PROVE Gapless(s)
    BY DEF Gaps
  <2>1. Delivered(s) = <<>> /\ Len(<<>>) = 0 /\ from[s] = 0 /\ published = 0
    BY DEF HubInit, Delivered
  <2> QED BY <2>1 DEF HubInit, Gapless, Run
<1>2. HubInv /\ Gaps => NoGaps
  <2> SUFFICES ASSUME HubInv, NEW s \in Subs, Gapless(s)
               PROVE  /\ \A i \in 1..Len(Delivered(s)) :
                           \/ Delivered(s)[i] = from[s] + i
                           \/ i = Len(Delivered(s)) /\ Delivered(s)[i] = End
                      /\ s \in subs => /\ Len(Delivered(s)) = published - from[s]
                                       /\ Len(Delivered(s)) > 0 => Delivered(s)[Len(Delivered(s))] # End
    BY DEF Gaps, NoGaps
  <2>1. s \in subs => events[s] = "open"
    BY DEF HubInv, Owners, ListedOpen
  <2>2. Len(Delivered(s)) \in Nat /\ from[s] \in Nat
    BY DeliveredType DEF HubInv
  <2> QED BY <2>1, <2>2 DEF Gapless, Run, End
<1> QED BY <1>1, <1>2, GapsStep, HubInductive, PTL DEF HubSpec
=============================================================================
