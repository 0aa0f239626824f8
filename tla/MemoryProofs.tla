---------------------------- MODULE MemoryProofs ----------------------------
(* Proofs about Memory for every set of operations, keys and sessions, both   *)
(* eviction policies and every quota.  The key is that what an operation has  *)
(* read of the store under the lock of its agent is still so when it commits  *)
(* or indexes, because everybody else who changes a row needs that lock, or   *)
(* the gate that the holder of the lock keeps shut.                           *)
EXTENDS Memory, FiniteSetTheorems, TLAPS

Rows == [ver : Nat \ {0}, exp : Nat, born : Nat, life : Nat]
Contents == [ver : Nat \ {0}, life : Nat]
Entries == [first : Contents, vec : Contents]
Kinds == Mutators \cup {"none", "search", "expire"}
Inside == {"source", "read", "commit", "embed"}         \* of putLocked
Places == {"idle", "gate", "lock", "write", "pick", "query", "look", "keyword", "mark"}
          \cup Locked
Calls == [at : Places, kind : Kinds, ref : Refs, exp : Nat, now : Nat,
          victims : SUBSET Refs, list : [Refs -> Entries \cup {None}],
          hits : SUBSET [ref : Refs, e : Entries]]

Types ==
  /\ clock \in 0..MaxClock /\ puts \in Nat
  /\ store \in [Refs -> Rows \cup {None}]
  /\ entries \in [Refs -> Entries \cup {None}]
  /\ status \in {"none", "ready", "degraded"}
  /\ op \in [Ops -> Calls]
  /\ closing \in BOOLEAN /\ worker \in BOOLEAN /\ open \in BOOLEAN
  /\ quota \in BOOLEAN /\ stale \in BOOLEAN

(* What an operation is says where it can be.                                *)
Fits(p) ==
  /\ p.at \in {"gate", "lock"} \cup Locked => p.kind \in Mutators
  /\ p.at \in Inside => p.kind \in {"put", "promote"}
KindsFit == \A o \in Ops : Fits(op[o])

(* The lock of the agent has one holder.                                     *)
OneInside == \A o, q \in Ops : op[o].at \in Locked /\ op[q].at \in Locked => o = q

(* What an operation has read under the lock is still so when it acts on it.  *)
Ready(p) ==
  /\ p.now <= clock
  /\ p.at = "commit" =>
       /\ p.victims \subseteq Live(p.now) \ {p.ref}
       /\ Cardinality(Live(p.now) \ p.victims) + Delta(p.ref, p.now) <= MaxItems
  /\ p.at = "embed" => Row(p.ref) /\ p.ref \notin p.victims
  /\ p.at \in {"embed", "unindex"} => \A v \in p.victims : ~Row(v)
  /\ p.at = "swap" => \A r \in Live(clock) : p.list[r] # None /\ p.list[r].vec = Content(r)
Held == \A o \in Ops : Ready(op[o])

RowsFinite == IsFiniteSet({r \in Refs : Row(r)})

(* What ReadyCovers comes from: whose hit is dropped follows from the entry.  *)
Covers == status = "ready" => \A r \in Live(clock) : InHand(r) \/ Fresh(r)

(* The bound on the commits leaves room for those under way.                 *)
Writers == {o \in Ops : Writes(o)}
Counted == puts + Cardinality(Writers) <= MaxPuts

(* The contents of a key, in the order they are written.  The vector of an    *)
(* entry is no older than its version and no newer than the row.             *)
Older(a, b) == a.life < b.life \/ (a.life = b.life /\ a.ver <= b.ver)
Aged(e, r) == Older(e.first, e.vec) /\ e.vec.life <= puts /\ (Row(r) => Older(e.vec, Content(r)))
RowsAged == \A r \in Refs : Row(r) => store[r].life <= puts
EntriesAged == \A r \in Refs : entries[r] # None => Aged(entries[r], r)
CallsAged == \A o \in Ops :
  /\ \A h \in op[o].hits : Aged(h.e, h.ref)
  /\ \A r \in Refs : op[o].list[r] # None => Aged(op[o].list[r], r)
Age == RowsAged /\ EntriesAged /\ CallsAged

Sealed == ~open => closing /\ ~worker /\ \A o \in Ops : op[o].at = "idle"

IInv == /\ Types /\ KindsFit /\ OneInside /\ Held /\ RowsFinite /\ Counted
        /\ QuotaKept /\ Covers /\ HitsMatch /\ Sealed

(* ---- constants and records ------------------------------------------------ *)
LEMMA RefsInOrder ==
  /\ Refs # {} /\ AnyRef \in Refs
  /\ \A r \in Refs : r[1] \in Nat /\ r[2] \in Nat /\ r = <<r[1], r[2]>>
<1>1. {Global} \cup Sessions \subseteq Nat /\ Keys \subseteq Nat /\ Keys # {}
  BY MemoryAssumption DEF Global
<1>2. Refs # {}
  <2>1. PICK k \in Keys : TRUE
    BY <1>1
  <2>2. <<Global, k>> \in Refs
    BY <2>1 DEF Refs
  <2> QED BY <2>2
<1>3. \A r \in Refs : r[1] \in Nat /\ r[2] \in Nat /\ r = <<r[1], r[2]>>
  <2> DEFINE S == {Global} \cup Sessions
  <2>1. S \subseteq Nat /\ Keys \subseteq Nat /\ Refs = S \X Keys
    BY <1>1 DEF Refs
  <2> HIDE DEF S
  <2>2. \A r \in S \X Keys : r[1] \in S /\ r[2] \in Keys /\ r = <<r[1], r[2]>>
    OBVIOUS
  <2> QED BY <2>1, <2>2
<1> QED BY <1>2, <1>3 DEF AnyRef

LEMMA NoneIsNoRow == None \notin Rows /\ None \notin Entries
<1>1. \A r \in Rows : r.ver # 0
  BY DEF Rows
<1>2. \A r \in Entries : DOMAIN r = {"first", "vec"}
  BY DEF Entries
<1>3. DOMAIN None = {"ver"} /\ "ver" \notin {"first", "vec"}
  BY DEF None
<1> QED BY <1>1, <1>2, <1>3 DEF None

LEMMA IdleFits == Idle \in Calls /\ Empty \in [Refs -> Entries \cup {None}]
<1>1. Empty \in [Refs -> Entries \cup {None}]
  BY DEF Empty
<1>2. {} \in SUBSET [ref : Refs, e : Entries] /\ {} \in SUBSET Refs
  OBVIOUS
<1> QED BY <1>1, <1>2, RefsInOrder DEF Idle, Calls, Places, Kinds, Never

(* One operation moves on, or ends.                                          *)
LEMMA StepTo ==
  ASSUME op \in [Ops -> Calls], NEW o \in Ops, NEW x \in Places, Step(o, x)
  PROVE  /\ op' \in [Ops -> Calls] /\ op'[o].at = x
         /\ \A q \in Ops : q # o => op'[q] = op[q]
         /\ op'[o].kind = op[o].kind /\ op'[o].ref = op[o].ref
         /\ op'[o].exp = op[o].exp /\ op'[o].now = op[o].now
         /\ op'[o].victims = op[o].victims /\ op'[o].list = op[o].list
         /\ op'[o].hits = op[o].hits
BY DEF Step, Calls
LEMMA DoneTo ==
  ASSUME op \in [Ops -> Calls], NEW o \in Ops, Done(o)
  PROVE  /\ op' \in [Ops -> Calls] /\ op'[o] = Idle
         /\ \A q \in Ops : q # o => op'[q] = op[q]
BY IdleFits DEF Done

LEMMA IdleIsReady ==
  ASSUME clock \in Nat
  PROVE  /\ Idle.at = "idle" /\ Fits(Idle) /\ Idle.at \notin Locked /\ Idle.now = 0
         /\ Ready(Idle)
BY DEF Idle, Fits, Locked, Inside, Ready

(* ---- rows ------------------------------------------------------------------ *)
LEMMA RowTypes ==
  ASSUME Types, NEW r \in Refs
  PROVE  /\ Row(r) => store[r] \in Rows
         /\ Row(r) => Content(r) \in Contents
         /\ ~Row(r) => store[r] = None
<1>1. store[r] \in Rows \cup {None}
  BY DEF Types
<1> QED BY <1>1 DEF Row, Content, Rows, Contents

LEMMA LiveOlder ==
  ASSUME Types, NEW a \in Nat, NEW b \in Nat, a <= b
  PROVE  Live(b) \subseteq Live(a)
<1> SUFFICES ASSUME NEW r \in Refs, LiveAt(r, b) PROVE LiveAt(r, a)
  BY DEF Live
<1>1. store[r].exp \in Nat
  BY RowTypes DEF LiveAt, Rows
<1> QED BY <1>1 DEF LiveAt, Never

LEMMA LiveIsFinite ==
  ASSUME RowsFinite, NEW a
  PROVE  IsFiniteSet(Live(a)) /\ Cardinality(Live(a)) \in Nat
<1>1. Live(a) \in SUBSET {r \in Refs : Row(r)}
  BY DEF Live, LiveAt
<1> QED BY <1>1, FS_Subset, FS_CardinalityType DEF RowsFinite

(* ---- eviction: FirstOf(n, rs) has n elements -------------------------------- *)
LEMMA EvictionIsAnOrder ==
  ASSUME Types, NEW a \in Refs, NEW b \in Refs, NEW c \in Refs, Row(a), Row(b), Row(c)
  PROVE  /\ ~EvictFirst(a, a)
         /\ a # b => EvictFirst(a, b) \/ EvictFirst(b, a)
         /\ EvictFirst(a, b) /\ EvictFirst(b, c) => EvictFirst(a, c)
<1>1. /\ a[1] \in Nat /\ a[2] \in Nat /\ b[1] \in Nat /\ b[2] \in Nat
      /\ c[1] \in Nat /\ c[2] \in Nat
      /\ a # b => a[1] # b[1] \/ a[2] # b[2]
  BY RefsInOrder
<1>2. /\ store[a].exp \in Nat /\ store[b].exp \in Nat /\ store[c].exp \in Nat
      /\ store[a].born \in Nat /\ store[b].born \in Nat /\ store[c].born \in Nat
  BY RowTypes DEF Rows
<1>3. ~EvictFirst(a, a)
  BY <1>1, <1>2 DEF EvictFirst, Earlier
<1>4. a # b => EvictFirst(a, b) \/ EvictFirst(b, a)
  BY <1>1, <1>2 DEF EvictFirst, Earlier, Never
<1>5. EvictFirst(a, b) /\ EvictFirst(b, c) => EvictFirst(a, c)
  BY <1>1, <1>2 DEF EvictFirst, Earlier, Never
<1> QED BY <1>3, <1>4, <1>5

LEMMA EnoughVictims ==
  ASSUME Types, NEW rs, rs \subseteq {r \in Refs : Row(r)}, IsFiniteSet(rs),
         NEW n \in Int, n <= Cardinality(rs)
  PROVE  /\ FirstOf(n, rs) \subseteq rs /\ IsFiniteSet(rs \ FirstOf(n, rs))
         /\ Cardinality(rs \ FirstOf(n, rs)) \in Nat
         /\ n >= 0 => Cardinality(rs \ FirstOf(n, rs)) <= Cardinality(rs) - n
<1> DEFINE below(r) == {q \in rs : EvictFirst(q, r)}
           rest == rs \ FirstOf(n, rs)
           rank == [r \in rest |-> Cardinality(below(r))]
<1>1. Cardinality(rs) \in Nat /\ FirstOf(n, rs) \subseteq rs
  BY FS_CardinalityType DEF FirstOf
<1>2. IsFiniteSet(rest) /\ Cardinality(rest) \in Nat
  BY FS_Subset, FS_CardinalityType
<1>3. ASSUME NEW r \in rs
      PROVE  /\ IsFiniteSet(below(r)) /\ Cardinality(below(r)) \in Nat
             /\ Cardinality(below(r)) < Cardinality(rs)
  <2>1. below(r) \in SUBSET rs /\ r \notin below(r)
    BY EvictionIsAnOrder
  <2>2. below(r) # rs
    BY <2>1
  <2> QED BY <1>1, <2>1, <2>2, FS_Subset, FS_CardinalityType
<1>4. ASSUME NEW a \in rs, NEW b \in rs, EvictFirst(a, b)
      PROVE  Cardinality(below(a)) < Cardinality(below(b))
  <2>1. below(a) \in SUBSET below(b)
    BY <1>4, EvictionIsAnOrder
  <2>2. a \in below(b) /\ a \notin below(a)
    BY <1>4, EvictionIsAnOrder
  <2>3. below(a) # below(b)
    BY <2>2
  <2> HIDE DEF below
  <2>4. /\ Cardinality(below(a)) <= Cardinality(below(b))
        /\ Cardinality(below(a)) # Cardinality(below(b))
    BY <1>3, <2>1, <2>3, FS_Subset
  <2> QED BY <1>3, <2>4
<1>5. CASE n >= 0
  <2>1. n \in Nat /\ n..(Cardinality(rs) - 1) \subseteq Int
    BY <1>5
  <2>2. ASSUME NEW r \in rest PROVE rank[r] \in n..(Cardinality(rs) - 1)
    <3>1. r \in rs /\ ~(Cardinality(below(r)) < n) /\ rank[r] = Cardinality(below(r))
      BY DEF FirstOf
    <3> HIDE DEF rank, below
    <3>2. rank[r] \in Nat /\ rank[r] < Cardinality(rs) /\ ~(rank[r] < n)
      BY <1>3, <3>1
    <3> QED BY <1>1, <2>1, <3>2
  <2>3. ASSUME NEW a \in rest, NEW b \in rest, rank[a] = rank[b] PROVE a = b
    <3>1. a \in rs /\ b \in rs /\ Cardinality(below(a)) = Cardinality(below(b))
      BY <2>3
    <3>2. a # b => EvictFirst(a, b) \/ EvictFirst(b, a)
      BY <3>1, EvictionIsAnOrder
    <3> HIDE DEF below
    <3> QED BY <1>3, <1>4, <3>1, <3>2
  <2>4. rank \in Injection(rest, n..(Cardinality(rs) - 1))
    <3> HIDE DEF below, rest
    <3>1. rank \in [rest -> n..(Cardinality(rs) - 1)]
      BY <2>2
    <3> HIDE DEF rank
    <3> QED BY <2>3, <3>1 DEF Injection, IsInjective
  <2>5. /\ IsFiniteSet(n..(Cardinality(rs) - 1))
        /\ Cardinality(n..(Cardinality(rs) - 1)) = Cardinality(rs) - n
    <3>1. Cardinality(rs) - 1 \in Int /\ n <= Cardinality(rs)
      BY <1>1
    <3>2. ~(n > Cardinality(rs) - 1) => Cardinality(rs) - 1 - n + 1 = Cardinality(rs) - n
      BY <1>1
    <3>3. n > Cardinality(rs) - 1 => Cardinality(rs) - n = 0
      BY <1>1
    <3> QED BY <3>1, <3>2, <3>3, FS_Interval
  <2> HIDE DEF rest, rank
  <2>6. Cardinality(rest) <= Cardinality(rs) - n
    BY <2>4, <2>5, FS_Injection
  <2> USE DEF rest
  <2> QED BY <1>1, <1>2, <2>6
<1> QED BY <1>1, <1>2, <1>5

(* ---- what one operation leaves to the others ------------------------------- *)
LEMMA SameRows ==
  ASSUME UNCHANGED store
  PROVE  /\ \A r \in Refs : (Row(r)' <=> Row(r)) /\ Content(r)' = Content(r)
         /\ \A a : Live(a)' = Live(a) /\ \A r \in Refs : Delta(r, a)' = Delta(r, a)
BY DEF Row, Content, Live, LiveAt, Delta

(* Nobody has touched the store: what was read is still so.                  *)
LEMMA ReadyStays ==
  ASSUME Types, Types', NEW q \in Ops, Ready(op[q]), op'[q] = op[q],
         UNCHANGED store, clock <= clock'
  PROVE  Ready(op[q])'
<1>1. op[q].now \in Nat /\ clock \in Nat /\ clock' \in Nat /\ op[q].ref \in Refs
  BY DEF Types, Calls
<1>2. /\ Live(op[q].now)' = Live(op[q].now)
      /\ Delta(op[q].ref, op[q].now)' = Delta(op[q].ref, op[q].now)
  BY <1>1 DEF Live, LiveAt, Row, Delta
<1>3. Live(clock)' \subseteq Live(clock)
  <2>1. Live(clock') \subseteq Live(clock)
    BY <1>1, LiveOlder
  <2>2. Live(clock)' = Live(clock')
    BY DEF Live, LiveAt, Row
  <2> QED BY <2>1, <2>2
<1>4. \A r \in Refs : (Row(r)' <=> Row(r)) /\ Content(r)' = Content(r)
  BY DEF Row, Content
<1>5. (op[q].now)' = op[q].now /\ (op[q].now)' <= clock'
  BY <1>1 DEF Ready
<1>6. (op[q].at = "swap")' => \A r \in Live(clock)' :
        (op[q].list[r])' # None /\ (op[q].list[r].vec)' = Content(r)'
  BY <1>3, <1>4 DEF Ready, Live
<1>7. (op[q].at \in {"embed", "unindex"})' => \A v \in (op[q].victims)' : ~Row(v)'
  BY <1>4 DEF Ready, Types, Calls
<1>8. (op[q].at = "embed")' => (Row(op[q].ref) /\ op[q].ref \notin op[q].victims)'
  BY <1>1, <1>4 DEF Ready
<1> QED BY <1>2, <1>5, <1>6, <1>7, <1>8 DEF Ready

(* Outside the lock nothing is relied on.                                    *)
LEMMA ReadyOutside ==
  ASSUME Types, NEW q \in Ops, op'[q].at \notin Locked, op'[q].now <= clock'
  PROVE  Ready(op[q])'
BY DEF Ready, Locked

LEMMA NoMoreWriters ==
  ASSUME Types, Counted, UNCHANGED puts, \A q \in Ops : Writes(q)' => Writes(q)
  PROVE  Counted'
<1>1. Writers \in SUBSET Ops /\ Writers' \in SUBSET Writers
  BY DEF Writers
<1>2. IsFiniteSet(Writers) /\ Cardinality(Writers) \in Nat
  BY <1>1, MemoryAssumption, FS_Subset, FS_CardinalityType
<1>3. Cardinality(Writers') <= Cardinality(Writers) /\ Cardinality(Writers') \in Nat
  BY <1>1, <1>2, FS_Subset, FS_CardinalityType
<1> QED BY <1>2, <1>3, MemoryAssumption DEF Counted, Types

(* Steps that change neither the store nor the index.                        *)
LEMMA Still ==
  ASSUME IInv, NEW o \in Ops, op' \in [Ops -> Calls],
         \A q \in Ops : q # o => op'[q] = op[q],
         UNCHANGED <<clock, store, entries, life, puts, quota, stale>>,
         status' \in {status, "degraded"},
         Fits(op[o])', op'[o].at \in Locked => op[o].at \in Locked \/ NoneHas(Locked),
         Ready(op[o])', Counted', Sealed',
         op[o].at = "embed" => status' = "degraded"
  PROVE  IInv'
<1> USE DEF IInv, life
<1>1. Types'
  BY DEF Types
<1>2. KindsFit'
  BY DEF KindsFit, Fits
<1>3. OneInside'
  BY DEF OneInside, NoneHas
<1>4. Held'
  <2> SUFFICES ASSUME NEW q \in Ops PROVE Ready(op[q])'
    BY DEF Held
  <2>1. CASE q = o
    BY <2>1
  <2>2. CASE q # o
    <3>1. clock <= clock'
      BY DEF Types
    <3> QED BY <1>1, <2>2, <3>1, ReadyStays DEF Held
  <2> QED BY <2>1, <2>2
<1>5. RowsFinite'
  BY DEF RowsFinite, Row
<1>7. Live(clock)' = Live(clock) /\ \A r \in Refs : Content(r)' = Content(r)
  BY DEF Live, LiveAt, Row, Content
<1>8. QuotaKept' /\ HitsMatch'
  BY <1>7 DEF QuotaKept, HitsMatch
<1>9. Covers'
  BY <1>7 DEF Covers, InHand, Live, Fresh
<1> QED BY <1>1, <1>2, <1>3, <1>4, <1>5, <1>8, <1>9

LEMMA Quiet ==
  ASSUME IInv, NEW o \in Ops, op' \in [Ops -> Calls],
         \A q \in Ops : q # o => op'[q] = op[q],
         UNCHANGED <<clock, store, entries, life, puts, quota, stale>>,
         status' \in {status, "degraded"},
         Fits(op[o])', op'[o].at \in Locked => op[o].at \in Locked \/ NoneHas(Locked),
         Ready(op[o])', Writes(o)' => Writes(o),
         op[o].at = "embed" => status' = "degraded",
         op'[o].at # "idle" => op[o].at # "idle"
  PROVE  IInv'
<1>1. Counted'
  <2>1. ASSUME NEW q \in Ops, Writes(q)' PROVE Writes(q)
    BY <2>1 DEF Writes
  <2> QED BY <2>1, NoMoreWriters DEF IInv
<1>2. Sealed'
  BY DEF IInv, Sealed, life
<1> QED BY <1>1, <1>2, Still

(* An operation that ends without having held a vector in its hands.         *)
LEMMA QuietEnd ==
  ASSUME IInv, NEW o \in Ops, Done(o), op[o].at # "idle",
         UNCHANGED <<clock, store, entries, life, puts, quota, stale>>,
         status' \in {status, "degraded"}, op[o].at = "embed" => status' = "degraded"
  PROVE  IInv'
<1>1. /\ op' \in [Ops -> Calls] /\ op'[o] = Idle
      /\ \A q \in Ops : q # o => op'[q] = op[q]
  BY DoneTo DEF IInv, Types
<1>2. clock' \in Nat /\ op'[o].at = "idle" /\ op'[o].now = 0
  BY <1>1 DEF IInv, Types, Idle
<1>3. Fits(op[o])' /\ ~Writes(o)'
  BY <1>2 DEF Fits, Locked, Inside, Writes
<1>4. Ready(op[o])'
  BY <1>2 DEF Ready
<1> QED BY <1>1, <1>2, <1>3, <1>4, Quiet DEF Locked

(* The holder of the lock acts: nobody else has read anything to rely on.    *)
LEMMA HolderActs ==
  ASSUME IInv, NEW o \in Ops, op[o].at \in Locked, Types', UNCHANGED <<clock, life>>,
         \A q \in Ops : q # o => /\ op'[q].at \notin Locked /\ op'[q].now <= clock'
                                 /\ Fits(op[q])' /\ (op'[q].at = "idle" <=> op[q].at = "idle"),
         Fits(op[o])', Ready(op[o])'
  PROVE  KindsFit' /\ OneInside' /\ Held' /\ Sealed'
<1>1. KindsFit' /\ OneInside'
  BY DEF KindsFit, Fits, OneInside
<1>2. Held'
  BY ReadyOutside DEF Held, IInv
<1>3. Sealed'
  BY DEF IInv, Sealed, Locked, life
<1> QED BY <1>1, <1>2, <1>3
LEMMA OthersOutside ==
  ASSUME IInv, NEW o \in Ops, op[o].at \in Locked, UNCHANGED clock,
         \A q \in Ops : q # o => op'[q] = op[q]
  PROVE  \A q \in Ops : q # o => /\ op'[q].at \notin Locked /\ op'[q].now <= clock'
                                 /\ Fits(op[q])' /\ (op'[q].at = "idle" <=> op[q].at = "idle")
                                 /\ Writes(q)' => Writes(q)
<1> SUFFICES ASSUME NEW q \in Ops, q # o
             PROVE  /\ op'[q].at \notin Locked /\ op'[q].now <= clock'
                    /\ Fits(op[q])' /\ (op'[q].at = "idle" <=> op[q].at = "idle")
                    /\ Writes(q)' => Writes(q)
  OBVIOUS
<1>1. op'[q] = op[q] /\ op'[q].at \notin Locked
  BY DEF IInv, OneInside
<1>2. op'[q].now <= clock'
  BY <1>1 DEF IInv, Held, Ready
<1>3. Fits(op[q])'
  BY <1>1 DEF IInv, KindsFit, Fits
<1>4. Writes(q)' => Writes(q)
  BY <1>1 DEF Writes
<1> QED BY <1>1, <1>2, <1>3, <1>4

(* ---- the gates --------------------------------------------------------------- *)
LEMMA EnterStep ==
  ASSUME IInv, NEW o \in Ops, Enter(o) PROVE IInv'
<1> USE DEF Enter
<1>1. /\ op' \in [Ops -> Calls] /\ op'[o].at = "lock" /\ op'[o].kind = op[o].kind
      /\ op'[o].now = op[o].now /\ \A q \in Ops : q # o => op'[q] = op[q]
  BY StepTo DEF IInv, Types, Places
<1>2. Fits(op[o])' /\ (Writes(o)' => Writes(o))
  BY <1>1 DEF IInv, KindsFit, Fits, Writes, Locked, Inside
<1>3. Ready(op[o])'
  BY <1>1 DEF IInv, Held, Ready
<1> QED BY <1>1, <1>2, <1>3, Quiet DEF Locked, index, seen

LEMMA LockStep ==
  ASSUME IInv, NEW o \in Ops, Lock(o) PROVE IInv'
<1> USE DEF Lock
<1>0. /\ op[o].kind \in Mutators
      /\ AfterLock(op[o].kind) \in {"read", "source", "remove", "list"}
      /\ AfterLock(op[o].kind) \in Inside => op[o].kind \in {"put", "promote"}
  BY DEF IInv, KindsFit, Fits, AfterLock, Mutators, Inside
<1>1. /\ op' \in [Ops -> Calls] /\ op'[o].at = AfterLock(op[o].kind)
      /\ op'[o].kind = op[o].kind /\ op'[o].now = op[o].now /\ \A q \in Ops : q # o => op'[q] = op[q]
  BY <1>0, StepTo DEF IInv, Types, Places, Locked
<1>2. Fits(op[o])' /\ (Writes(o)' => Writes(o))
  BY <1>0, <1>1 DEF IInv, KindsFit, Fits, Writes, Locked, Inside
<1>3. Ready(op[o])'
  BY <1>0, <1>1 DEF IInv, Held, Ready
<1> QED BY <1>0, <1>1, <1>2, <1>3, Quiet DEF index, seen

LEMMA BeginStep ==
  ASSUME IInv, NEW o \in Ops, Begin(o) PROVE IInv'
<1> USE DEF Begin
<1>1. PICK k \in Issues[o], r \in Refs, e \in {Never, clock + 1} :
        /\ k \in {"put", "promote"} => puts + Cardinality({q \in Ops : Writes(q)}) < MaxPuts
        /\ op' = [op EXCEPT ![o] = Call(k, r, e)]
  OBVIOUS
<1> DEFINE p == Call(k, r, e)
           now == IF k \in {"expire", "reindex"} THEN clock ELSE 0
           at == Entrance(k)
<1>2. k \in Mutators \cup {"search", "expire"}
  BY MemoryAssumption DEF Mutators
<1>3. at \in {"gate", "pick", "write"} /\ (at = "gate" => k \in Mutators)
  BY <1>2 DEF Entrance, Mutators
<1>4. now \in Nat /\ e \in Nat /\ now <= clock /\ clock \in Nat
  BY MemoryAssumption DEF IInv, Types, Never
<1>5. p \in Calls /\ p.at = at /\ p.kind = k /\ p.now = now
  <2>1. /\ Empty \in [Refs -> Entries \cup {None}] /\ {} \in SUBSET Refs
        /\ {} \in SUBSET [ref : Refs, e : Entries]
    BY IdleFits
  <2>2. p = [at |-> at, kind |-> k, ref |-> r, exp |-> e, now |-> now,
             victims |-> {}, list |-> Empty, hits |-> {}]
    BY DEF Call
  <2> HIDE DEF now, at, p
  <2> QED BY <1>2, <1>3, <1>4, <2>1, <2>2 DEF Calls, Places, Kinds
<1> HIDE DEF now, at, p
<1>7. /\ op' \in [Ops -> Calls] /\ op'[o] = p /\ \A q \in Ops : q # o => op'[q] = op[q]
  BY <1>1, <1>5 DEF p, IInv, Types
<1>8. Fits(op[o])' /\ Ready(op[o])' /\ op'[o].at \notin Locked
  <2>1. op'[o].at = at /\ op'[o].kind = k /\ op'[o].now = now
    BY <1>5, <1>7
  <2> QED BY <1>3, <1>4, <2>1 DEF Fits, Ready, Locked, Inside
<1>9. Counted'
  <2>1. op'[o].kind = k /\ op'[o].at = at
    BY <1>5, <1>7
  <2>2. CASE k \in {"put", "promote"}
    <3>1. Writers' \in SUBSET (Writers \cup {o}) /\ Writers \in SUBSET Ops
      BY <1>7 DEF Writers, Writes
    <3>2. IsFiniteSet(Writers) /\ Cardinality(Writers) \in Nat
      BY <3>1, MemoryAssumption, FS_Subset, FS_CardinalityType
    <3>3. /\ IsFiniteSet(Writers \cup {o}) /\ Cardinality(Writers \cup {o}) \in Nat
          /\ Cardinality(Writers \cup {o}) <= Cardinality(Writers) + 1
      <4>1. /\ IsFiniteSet(Writers \cup {o})
            /\ Cardinality(Writers \cup {o}) \in {Cardinality(Writers), Cardinality(Writers) + 1}
        BY <3>2, FS_AddElement
      <4> QED BY <3>2, <4>1
    <3>4. Cardinality(Writers') <= Cardinality(Writers \cup {o}) /\ Cardinality(Writers') \in Nat
      BY <3>1, <3>3, FS_Subset, FS_CardinalityType
    <3>5. puts + Cardinality(Writers) < MaxPuts /\ puts' = puts /\ puts \in Nat
      BY <1>1, <2>2 DEF Writers, IInv, Types
    <3> QED BY <3>2, <3>3, <3>4, <3>5, MemoryAssumption DEF Counted
  <2>3. CASE k \notin {"put", "promote"}
    <3>1. ASSUME NEW q \in Ops, Writes(q)' PROVE Writes(q)
      BY <1>7, <2>1, <2>3, <3>1 DEF Writes
    <3> QED BY <3>1, NoMoreWriters DEF IInv
  <2> QED BY <2>2, <2>3
<1>10. Sealed' /\ op[o].at = "idle"
  BY DEF IInv, Sealed, Admits, life
<1> QED BY <1>7, <1>8, <1>9, <1>10, Still DEF index, seen

LEMMA EndsStep ==
  ASSUME IInv, NEW o \in Ops,
         TooLate(o) \/ StoreFails(o) \/ ReindexFails(o) \/ Mark(o)
  PROVE  IInv'
<1>1. Done(o) /\ op[o].at \notin {"idle", "embed"}
  BY DEF TooLate, StoreFails, ReindexFails, Mark
<1>2. /\ UNCHANGED <<clock, store, entries, life, puts, quota, stale>>
      /\ status' \in {status, "degraded"}
  BY DEF TooLate, StoreFails, ReindexFails, Mark, index, seen, Degrade
<1> QED BY <1>1, <1>2, QuietEnd

(* ---- Put and Promote ---------------------------------------------------------- *)
LEMMA SourceStep ==
  ASSUME IInv, NEW o \in Ops, Source(o) PROVE IInv'
<1> USE DEF Source
<1>1. CASE Done(o)
  BY <1>1, QuietEnd DEF index, seen
<1>2. CASE op' = [op EXCEPT ![o].at = "read", ![o].ref = <<Global, op[o].ref[2]>>]
  <2>1. <<Global, op[o].ref[2]>> \in Refs
    <3>1. op[o].ref \in Refs
      BY DEF IInv, Types, Calls
    <3> QED BY <3>1 DEF Refs
  <2>2. /\ op' \in [Ops -> Calls] /\ op'[o].at = "read" /\ op'[o].kind = op[o].kind
        /\ op'[o].now = op[o].now /\ \A q \in Ops : q # o => op'[q] = op[q]
    <3> DEFINE f == [op EXCEPT ![o].at = "read"]
               g == [f EXCEPT ![o].ref = <<Global, op[o].ref[2]>>]
    <3>1. /\ f \in [Ops -> Calls] /\ f[o].at = "read" /\ f[o].kind = op[o].kind
          /\ f[o].now = op[o].now /\ \A q \in Ops : q # o => f[q] = op[q]
      BY DEF IInv, Types, Calls, Places, Locked
    <3> HIDE DEF f
    <3>2. /\ g \in [Ops -> Calls] /\ g[o].at = "read" /\ g[o].kind = op[o].kind
          /\ g[o].now = op[o].now /\ \A q \in Ops : q # o => g[q] = op[q]
      BY <2>1, <3>1 DEF Calls
    <3>3. op' = g
      BY <1>2 DEF f
    <3> HIDE DEF g
    <3> QED BY <3>2, <3>3
  <2>3. Fits(op[o])' /\ (Writes(o)' => Writes(o)) /\ Ready(op[o])'
    BY <2>2 DEF IInv, KindsFit, Fits, Writes, Locked, Inside, Held, Ready
  <2> QED BY <2>2, <2>3, Quiet DEF index, seen, Locked
<1> QED BY <1>1, <1>2

(* Enough victims are found, and with them the quota holds.                  *)
LEMMA VictimsSuffice ==
  ASSUME Types, RowsFinite, NEW now \in Nat, NEW ref \in Refs
  PROVE  LET others == Live(now) \ {ref}
             needed == VictimCount(ref, now)
             chosen == FirstOf(needed, others)
         IN  /\ needed <= Cardinality(others)
             /\ chosen \subseteq others
             /\ Cardinality(Live(now) \ chosen) + Delta(ref, now) <= MaxItems
<1> DEFINE live == Live(now)
           others == live \ {ref}
           needed == VictimCount(ref, now)
           chosen == FirstOf(needed, others)
           kept == others \ chosen
<1>1. /\ IsFiniteSet(live) /\ Cardinality(live) \in Nat
      /\ live \subseteq {r \in Refs : Row(r)}
  BY LiveIsFinite DEF Live, LiveAt
<1>2. ref \in live <=> Delta(ref, now) = 0
  BY DEF Delta, Live
<1>3. /\ Delta(ref, now) \in {0, 1} /\ MaxItems \in Nat \ {0}
      /\ needed = Cardinality(live) + Delta(ref, now) - MaxItems
  BY MemoryAssumption DEF Delta, VictimCount
<1> HIDE DEF live, needed
<1>4. /\ IsFiniteSet(others)
      /\ Cardinality(others) = IF ref \in live THEN Cardinality(live) - 1 ELSE Cardinality(live)
  BY <1>1, FS_RemoveElement
<1>5. Cardinality(others) \in Nat /\ needed \in Int /\ needed <= Cardinality(others)
  BY <1>1, <1>2, <1>3, <1>4, FS_CardinalityType
<1>6. /\ chosen \subseteq others /\ IsFiniteSet(kept) /\ Cardinality(kept) \in Nat
      /\ needed >= 0 => Cardinality(kept) <= Cardinality(others) - needed
  BY <1>1, <1>4, <1>5, EnoughVictims
<1>7. Cardinality(live \ chosen) + Delta(ref, now) <= MaxItems
  <2>1. CASE needed < 0
    <3>1. Cardinality(live \ chosen) <= Cardinality(live) /\ Cardinality(live \ chosen) \in Nat
      BY <1>1, FS_Subset, FS_CardinalityType
    <3> QED BY <1>1, <1>3, <2>1, <3>1
  <2>2. CASE needed >= 0 /\ ref \in live
    <3>1. live \ chosen = kept \cup {ref} /\ ref \notin kept
      BY <1>6, <2>2
    <3>2. Cardinality(live \ chosen) = Cardinality(kept) + 1
      BY <1>6, <3>1, FS_AddElement
    <3> HIDE DEF kept, others, chosen
    <3> QED BY <1>1, <1>2, <1>3, <1>4, <1>6, <2>2, <3>2
  <2>3. CASE needed >= 0 /\ ref \notin live
    <3>1. live \ chosen = kept
      BY <2>3
    <3> HIDE DEF kept, others, chosen
    <3> QED BY <1>1, <1>2, <1>3, <1>4, <1>6, <2>3, <3>1
  <2> QED BY <1>5, <2>1, <2>2, <2>3
<1> QED BY <1>5, <1>6, <1>7 DEF live, needed

LEMMA ReadStep ==
  ASSUME IInv, NEW o \in Ops, Read(o) PROVE IInv'
<1> DEFINE ref == op[o].ref
           others == Live(clock) \ {ref}
           needed == VictimCount(ref, clock)
           chosen == FirstOf(needed, others)
<1>1. clock \in Nat /\ ref \in Refs /\ op[o].at = "read"
  BY MemoryAssumption DEF IInv, Types, Calls, Read
<1>2. /\ needed <= Cardinality(others) /\ chosen \subseteq others
      /\ Cardinality(Live(clock) \ chosen) + Delta(ref, clock) <= MaxItems
  BY <1>1, VictimsSuffice DEF IInv
<1>3. ~(needed > Cardinality(others))
  <2>1. Cardinality(others) \in Nat /\ needed \in Int
    <3>1. IsFiniteSet(Live(clock)) /\ Cardinality(Live(clock)) \in Nat
      BY LiveIsFinite DEF IInv
    <3>2. Cardinality(others) \in Nat
      BY <3>1, FS_RemoveElement, FS_CardinalityType
    <3>3. needed \in Int
      BY <3>1, MemoryAssumption DEF VictimCount, Delta
    <3> QED BY <3>2, <3>3
  <2> HIDE DEF needed, others
  <2> QED BY <1>2, <2>1
<1>4. op' = [op EXCEPT ![o].at = "commit", ![o].now = clock, ![o].victims = chosen]
  BY <1>3 DEF Read
<1>5. chosen \in SUBSET Refs
  BY <1>2 DEF Live
<1> HIDE DEF chosen
<1>6. /\ op' \in [Ops -> Calls] /\ op'[o].at = "commit" /\ op'[o].kind = op[o].kind
      /\ op'[o].now = clock /\ op'[o].ref = ref /\ op'[o].victims = chosen
      /\ \A q \in Ops : q # o => op'[q] = op[q]
  <2> DEFINE f == [op EXCEPT ![o].at = "commit"]
             g == [f EXCEPT ![o].now = clock]
             h == [g EXCEPT ![o].victims = chosen]
  <2>1. /\ f \in [Ops -> Calls] /\ f[o].at = "commit" /\ f[o].kind = op[o].kind
        /\ f[o].ref = ref /\ \A q \in Ops : q # o => f[q] = op[q]
    BY DEF IInv, Types, Calls, Places, Locked
  <2>2. op' = h
    BY <1>4
  <2> HIDE DEF f, ref
  <2>3. /\ g \in [Ops -> Calls] /\ g[o].at = "commit" /\ g[o].kind = op[o].kind
        /\ g[o].ref = ref /\ g[o].now = clock /\ \A q \in Ops : q # o => g[q] = op[q]
    BY <1>1, <2>1 DEF Calls
  <2> HIDE DEF g
  <2>4. /\ h \in [Ops -> Calls] /\ h[o].at = "commit" /\ h[o].kind = op[o].kind
        /\ h[o].ref = ref /\ h[o].now = clock /\ h[o].victims = chosen
        /\ \A q \in Ops : q # o => h[q] = op[q]
    BY <1>5, <2>3 DEF Calls
  <2> HIDE DEF h
  <2> QED BY <2>2, <2>4
<1>7. UNCHANGED <<clock, store, entries, status, life, puts, quota, stale>>
  BY <1>3 DEF Read, index
<1>8. Fits(op[o])' /\ (Writes(o)' => Writes(o))
  BY <1>1, <1>6 DEF IInv, KindsFit, Fits, Writes, Locked, Inside
<1>9. Ready(op[o])'
  <2>1. Live(clock)' = Live(clock) /\ Delta(ref, clock)' = Delta(ref, clock)
    BY <1>6, <1>7 DEF Live, LiveAt, Row, Delta
  <2>2. /\ (op[o].now)' = clock' /\ (op[o].victims)' = chosen /\ (op[o].ref)' = ref
        /\ (op[o].at)' = "commit" /\ clock' = clock /\ ref' = ref
    BY <1>6, <1>7
  <2> HIDE DEF ref
  <2>3. Live((op[o].now)') = Live(clock)
    BY <2>2, <1>7
  <2> QED BY <1>1, <1>2, <2>1, <2>2 DEF Ready
<1> QED BY <1>1, <1>6, <1>7, <1>8, <1>9, Quiet DEF Locked

(* Whose row is alive is in the index, when nobody has a vector to write.    *)
LEMMA AllCovered ==
  ASSUME IInv, NEW o \in Ops, op[o].at \in Locked, status = "ready",
         NEW r \in Live(clock), op[o].at = "embed" => op[o].ref # r
  PROVE  Fresh(r)
BY DEF IInv, Covers, InHand, OneInside, Locked

LEMMA WrittenRow ==
  ASSUME Types, NEW o \in Ops
  PROVE  Written(op[o]) \in Rows
<1> DEFINE p == op[o]
           old == store[p.ref]
<1>1. p.ref \in Refs /\ p.exp \in Nat /\ p.now \in Nat /\ puts + 1 \in Nat
  BY DEF Types, Calls
<1>2. CASE Row(p.ref)
  <2>1. old \in Rows
    BY <1>1, <1>2, RowTypes
  <2> HIDE DEF old
  <2> DEFINE f == [old EXCEPT !.ver = @ + 1]
  <2>2. f \in Rows
    BY <2>1 DEF Rows
  <2> HIDE DEF f
  <2>3. [f EXCEPT !.exp = p.exp] \in Rows
    BY <1>1, <2>2 DEF Rows
  <2> QED BY <1>2, <2>3 DEF Written, f, old
<1>3. CASE ~Row(p.ref)
  BY <1>1, <1>3 DEF Written, Rows
<1> QED BY <1>2, <1>3

LEMMA CommitStep ==
  ASSUME IInv, NEW o \in Ops, Commit(o) PROVE IInv'
<1> DEFINE p == op[o]
<1>1. /\ p.at = "commit" /\ p.at \in Locked /\ p.ref \in Refs /\ p.now \in Nat /\ p.now <= clock
      /\ clock \in Nat /\ p.victims \subseteq Live(p.now) \ {p.ref}
      /\ Cardinality(Live(p.now) \ p.victims) + Delta(p.ref, p.now) <= MaxItems
  <2>1. p \in Calls /\ p.at = "commit" /\ Ready(p) /\ clock \in Nat
    BY MemoryAssumption DEF Commit, IInv, Types, Held
  <2> HIDE DEF p
  <2> QED BY <2>1 DEF Calls, Ready, Locked
<1>2. \A v \in p.victims : Row(v)
  BY <1>1 DEF Live, LiveAt
<1>3. /\ store' = [r \in Refs |-> IF r = p.ref THEN Written(p)
                                  ELSE IF r \in p.victims THEN None ELSE store[r]]
      /\ puts' = puts + 1 /\ Step(o, "embed")
      /\ UNCHANGED <<clock, entries, status, life, quota, stale>>
  BY <1>2 DEF Commit, index
<1>4. /\ op' \in [Ops -> Calls] /\ op'[o].at = "embed" /\ op'[o].kind = p.kind
      /\ op'[o].ref = p.ref /\ op'[o].now = p.now /\ op'[o].victims = p.victims
      /\ \A q \in Ops : q # o => op'[q] = op[q]
  BY <1>3, StepTo DEF IInv, Types, Places, Locked
<1>5. Written(p) \in Rows
  BY WrittenRow DEF IInv
<1> HIDE DEF p
<1>6. /\ \A r \in Refs : r # p.ref => store'[r] = IF r \in p.victims THEN None ELSE store[r]
      /\ store'[p.ref] \in Rows /\ store' \in [Refs -> Rows \cup {None}]
  BY <1>1, <1>3, <1>5 DEF IInv, Types
<1>7. Types'
  BY <1>3, <1>4, <1>6 DEF IInv, Types, life
<1>8. Ready(op[o])' /\ Fits(op[o])'
  <2>1. /\ store'[p.ref] # None /\ p.ref \notin p.victims
        /\ \A v \in p.victims : store'[v] = None
    BY <1>1, <1>6, NoneIsNoRow DEF Live
  <2>2. Fits(op[o])'
    BY <1>1, <1>4 DEF p, IInv, KindsFit, Fits, Locked, Inside
  <2>3. (op[o].now <= clock)'
    BY <1>1, <1>3, <1>4
  <2> QED BY <1>4, <2>1, <2>2, <2>3 DEF Ready, Row
<1>9. KindsFit' /\ OneInside' /\ Held' /\ Sealed'
  BY <1>1, <1>3, <1>4, <1>7, <1>8, OthersOutside, HolderActs DEF p
<1>10. RowsFinite'
  <2>1. {r \in Refs : Row(r)}' \in SUBSET ({r \in Refs : Row(r)} \cup {p.ref})
    BY <1>6 DEF Row
  <2>2. IsFiniteSet({r \in Refs : Row(r)} \cup {p.ref})
    BY FS_AddElement DEF IInv, RowsFinite
  <2> QED BY <2>1, <2>2, FS_Subset DEF RowsFinite
<1>11. Counted'
  <2>1. Writes(o) /\ ~Writes(o)'
    BY <1>1, <1>4 DEF p, IInv, KindsFit, Fits, Writes, Inside
  <2>2. o \in Writers /\ Writers \in SUBSET Ops /\ Writers' \in SUBSET (Writers \ {o})
    BY <1>1, <1>3, <1>4, <2>1, OthersOutside DEF p, Writers
  <2>3. IsFiniteSet(Writers) /\ Cardinality(Writers) \in Nat
    BY <2>2, MemoryAssumption, FS_Subset, FS_CardinalityType
  <2>4. IsFiniteSet(Writers \ {o}) /\ Cardinality(Writers \ {o}) = Cardinality(Writers) - 1
    BY <2>2, <2>3, FS_RemoveElement
  <2>5. Cardinality(Writers') <= Cardinality(Writers) - 1 /\ Cardinality(Writers') \in Nat
    BY <2>2, <2>4, FS_Subset, FS_CardinalityType
  <2> QED BY <1>3, <2>3, <2>5, MemoryAssumption DEF IInv, Types, Counted
<1>12. QuotaKept'
  <2> DEFINE kept == Live(p.now) \ p.victims
  <2>1. IsFiniteSet(kept) /\ Cardinality(kept) \in Nat
    <3>1. IsFiniteSet(Live(p.now))
      BY LiveIsFinite DEF IInv
    <3> QED BY <3>1, FS_Subset, FS_CardinalityType
  <2>2. Live(clock)' \in SUBSET (kept \cup {p.ref})
    <3>1. Live(clock) \subseteq Live(p.now)
      BY <1>1, LiveOlder DEF IInv
    <3>2. ASSUME NEW r \in Refs, LiveAt(r, clock)', r # p.ref PROVE r \in kept
      <4>1. store'[r] = store[r] /\ r \notin p.victims
        BY <1>6, <3>2 DEF LiveAt, Row
      <4> QED BY <1>3, <3>1, <3>2, <4>1 DEF LiveAt, Row, Live
    <3> QED BY <3>2 DEF Live
  <2>3. /\ IsFiniteSet(kept \cup {p.ref})
        /\ Cardinality(kept \cup {p.ref}) =
             IF p.ref \in kept THEN Cardinality(kept) ELSE Cardinality(kept) + 1
    BY <2>1, FS_AddElement
  <2>4. p.ref \in kept <=> Delta(p.ref, p.now) = 0
    BY <1>1 DEF Delta, Live
  <2>5. Delta(p.ref, p.now) \in {0, 1} /\ MaxItems \in Nat
    BY MemoryAssumption DEF Delta
  <2>6. Cardinality(kept \cup {p.ref}) <= MaxItems
    BY <1>1, <2>1, <2>3, <2>4, <2>5
  <2>7. Cardinality(Live(clock)') <= Cardinality(kept \cup {p.ref}) /\ Cardinality(Live(clock)') \in Nat
        /\ Cardinality(kept \cup {p.ref}) \in Nat
    BY <2>2, <2>3, FS_Subset, FS_CardinalityType
  <2>8. Cardinality(Live(clock)') <= MaxItems
    BY <2>5, <2>6, <2>7
  <2> QED BY <1>3, <2>8 DEF IInv, QuotaKept
<1>13. Covers'
  <2> SUFFICES ASSUME status' = "ready", NEW r \in Live(clock)', r # p.ref
               PROVE  Fresh(r)'
    <3>1. ASSUME NEW r, r = p.ref PROVE InHand(r)'
      BY <1>4, <3>1 DEF InHand
    <3> QED BY <3>1 DEF Covers
  <2>1. r \in Refs /\ store'[r] = store[r] /\ r \in Live(clock)
    BY <1>3, <1>6 DEF Live, LiveAt, Row
  <2>2. Fresh(r)
    BY <1>1, <1>3, <2>1, AllCovered DEF p
  <2> QED BY <1>3, <2>1, <2>2 DEF Content, Fresh
<1> QED BY <1>3, <1>7, <1>9, <1>10, <1>11, <1>12, <1>13 DEF IInv, HitsMatch

LEMMA UpsertIsFresh ==
  ASSUME Types, NEW r \in Refs, Row(r)
  PROVE  Upsert(r) \in Entries /\ Upsert(r) # None /\ Upsert(r).vec = Content(r)
<1>1. Content(r) \in Contents
  BY RowTypes
<1>2. CASE entries[r] = None
  <2>1. Upsert(r) = NewEntry(r)
    BY <1>2 DEF Upsert
  <2>2. NewEntry(r) \in Entries /\ NewEntry(r).vec = Content(r)
    BY <1>1 DEF NewEntry, Entries
  <2> QED BY <2>1, <2>2, NoneIsNoRow
<1>3. CASE entries[r] # None
  <2>1. entries[r] \in Entries
    BY <1>3 DEF Types
  <2>2. Upsert(r) = [entries[r] EXCEPT !.vec = Content(r)]
    BY <1>3 DEF Upsert
  <2>3. Upsert(r) \in Entries /\ Upsert(r).vec = Content(r)
    BY <1>1, <2>1, <2>2 DEF Entries
  <2> QED BY <2>3, NoneIsNoRow
<1> QED BY <1>2, <1>3

(* putIndex: the vector of what was written, and none of what was evicted.   *)
LEMMA PutIndexStep ==
  ASSUME IInv, NEW o \in Ops, PutIndex(o) PROVE IInv'
<1> DEFINE p == op[o]
<1>1. /\ p.at = "embed" /\ p.at \in Locked /\ p.ref \in Refs /\ Row(p.ref)
      /\ \A v \in p.victims : ~Row(v)
  BY DEF PutIndex, IInv, Types, Calls, Held, Ready, Locked
<1>2. CASE PutFailed /\ UNCHANGED entries
  BY <1>1, <1>2, QuietEnd DEF PutIndex, PutFailed, Degrade, seen
<1>3. CASE /\ entries' = [r \in Refs |-> IF r = p.ref THEN Upsert(r)
                                        ELSE IF r \in p.victims THEN None ELSE entries[r]]
           /\ GetOrCreate
  <2>1. /\ op' \in [Ops -> Calls] /\ op'[o] = Idle /\ \A q \in Ops : q # o => op'[q] = op[q]
        /\ UNCHANGED <<clock, store, life, puts, quota, stale>> /\ clock \in Nat
    BY MemoryAssumption, DoneTo DEF PutIndex, IInv, Types, seen
  <2>u. Upsert(p.ref) \in Entries /\ Upsert(p.ref) # None /\ Upsert(p.ref).vec = Content(p.ref)
    BY <1>1, UpsertIsFresh DEF IInv
  <2>2. entries' \in [Refs -> Entries \cup {None}]
    BY <1>1, <1>3, <2>u DEF IInv, Types
  <2>s. status' \in {"none", "ready", "degraded"} /\ (status' = "ready" => status = "ready")
    BY <1>3 DEF GetOrCreate, IInv, Types
  <2>3. Types'
    BY <2>1, <2>2, <2>s DEF IInv, Types, life
  <2>4. Fits(op[o])' /\ Ready(op[o])' /\ ~Writes(o)'
    BY <2>1, IdleIsReady DEF Fits, Ready, Locked, Inside, Writes
  <2>5. KindsFit' /\ OneInside' /\ Held' /\ Sealed'
    BY <1>1, <2>1, <2>3, <2>4, OthersOutside, HolderActs
  <2>6. Counted'
    <3>1. ASSUME NEW q \in Ops, Writes(q)' PROVE Writes(q)
      BY <1>1, <2>1, <2>4, <3>1, OthersOutside
    <3> QED BY <2>1, <3>1, NoMoreWriters DEF IInv
  <2>7. RowsFinite' /\ QuotaKept' /\ HitsMatch'
    BY <2>1 DEF IInv, RowsFinite, QuotaKept, HitsMatch, Row, Live, LiveAt
  <2>8. Covers'
    <3> SUFFICES ASSUME status' = "ready", NEW r \in Live(clock)'
                 PROVE  Fresh(r)'
      BY DEF Covers
    <3>1. r \in Refs /\ r \in Live(clock) /\ r \notin p.victims /\ Content(r)' = Content(r)
      BY <1>1, <2>1 DEF Live, LiveAt, Row, Content
    <3>2. CASE r = p.ref
      <4>1. entries'[r] = Upsert(r)
        BY <1>3, <3>1, <3>2
      <4> QED BY <2>u, <3>1, <3>2, <4>1 DEF Fresh
    <3>3. CASE r # p.ref
      <4>1. Fresh(r)
        BY <1>1, <2>s, <3>1, <3>3, AllCovered
      <4>2. entries'[r] = entries[r]
        BY <1>3, <3>1, <3>3
      <4> QED BY <3>1, <4>1, <4>2 DEF Fresh
    <3> QED BY <3>2, <3>3
  <2> QED BY <2>3, <2>5, <2>6, <2>7, <2>8 DEF IInv
<1> QED BY <1>2, <1>3 DEF PutIndex

(* ---- Delete, Clear, the worker ------------------------------------------------- *)
LEMMA RowsRemoved ==
  ASSUME IInv, NEW S, UNCHANGED <<clock, quota>>,
         store' = [r \in Refs |-> IF r \in S THEN None ELSE store[r]]
  PROVE  /\ store' \in [Refs -> Rows \cup {None}]
         /\ RowsFinite' /\ QuotaKept'
         /\ \A r \in Refs : Row(r)' => r \notin S /\ store'[r] = store[r]
         /\ \A r \in Refs : r \in S => ~Row(r)'
         /\ \A r \in Live(clock)' : r \in Live(clock) /\ Content(r)' = Content(r)
<1>1. store' \in [Refs -> Rows \cup {None}]
  BY DEF IInv, Types
<1>2. \A r \in Refs : Row(r)' => r \notin S /\ store'[r] = store[r] /\ Row(r)
  BY DEF Row
<1>3. \A r \in Refs : r \in S => ~Row(r)'
  BY DEF Row
<1>4. \A r \in Live(clock)' : r \in Live(clock) /\ Content(r)' = Content(r)
  BY <1>2 DEF Live, LiveAt, Content
<1>5. RowsFinite'
  <2>1. {r \in Refs : Row(r)}' \in SUBSET {r \in Refs : Row(r)}
    BY <1>2
  <2> QED BY <2>1, FS_Subset DEF IInv, RowsFinite
<1>6. QuotaKept'
  <2>1. IsFiniteSet(Live(clock)) /\ Cardinality(Live(clock)) \in Nat
    BY LiveIsFinite DEF IInv
  <2>2. Live(clock)' \in SUBSET Live(clock)
    BY <1>4
  <2>3. Cardinality(Live(clock)') <= Cardinality(Live(clock)) /\ Cardinality(Live(clock)') \in Nat
    BY <2>1, <2>2, FS_Subset, FS_CardinalityType
  <2>4. Cardinality(Live(clock)') <= MaxItems
    BY <2>1, <2>3, MemoryAssumption DEF IInv, QuotaKept
  <2> QED BY <2>4 DEF IInv, QuotaKept
<1> QED BY <1>1, <1>2, <1>3, <1>4, <1>5, <1>6

LEMMA RemoveStep ==
  ASSUME IInv, NEW o \in Ops, Remove(o) PROVE IInv'
<1>1. /\ op[o].at = "remove" /\ op[o].at \in Locked /\ op[o].ref \in Refs /\ clock \in Nat
      /\ op[o].now <= clock /\ op[o].now \in Nat
  <2>1. op[o] \in Calls /\ op[o].at = "remove" /\ Ready(op[o]) /\ clock \in Nat
    BY MemoryAssumption DEF Remove, IInv, Types, Held
  <2> QED BY <2>1 DEF Calls, Ready, Locked
<1>2. PICK S \in Scopes(o) :
        /\ store' = [r \in Refs |-> IF r \in S THEN None ELSE store[r]]
        /\ op' = [op EXCEPT ![o].at = "unindex", ![o].victims = {r \in S : Row(r)}]
  BY DEF Remove
<1>3. UNCHANGED <<clock, entries, status, life, puts, quota, stale>>
  BY DEF Remove, index, seen
<1>4. S \in SUBSET Refs /\ {r \in S : Row(r)} \in SUBSET Refs
  <2>1. \A t \in Sessions : {t} \X Keys \subseteq Refs
    BY DEF Refs
  <2>2. S \in SUBSET Refs
    BY <1>1, <2>1 DEF Scopes
  <2> QED BY <2>2
<1> DEFINE gone == {r \in S : Row(r)}
<1>5. /\ op' \in [Ops -> Calls] /\ op'[o].at = "unindex" /\ op'[o].kind = op[o].kind
      /\ op'[o].now = op[o].now /\ op'[o].victims = gone
      /\ \A q \in Ops : q # o => op'[q] = op[q]
  <2> DEFINE f == [op EXCEPT ![o].at = "unindex"]
             g == [f EXCEPT ![o].victims = gone]
  <2>1. /\ f \in [Ops -> Calls] /\ f[o].at = "unindex" /\ f[o].kind = op[o].kind
        /\ f[o].now = op[o].now /\ \A q \in Ops : q # o => f[q] = op[q]
    BY DEF IInv, Types, Calls, Places, Locked
  <2>2. op' = g
    BY <1>2
  <2> HIDE DEF f, gone
  <2>3. gone \in SUBSET Refs
    BY <1>4 DEF gone
  <2>4. /\ g \in [Ops -> Calls] /\ g[o].at = "unindex" /\ g[o].kind = op[o].kind
        /\ g[o].now = op[o].now /\ g[o].victims = gone /\ \A q \in Ops : q # o => g[q] = op[q]
    BY <2>1, <2>3 DEF Calls
  <2> HIDE DEF g
  <2> QED BY <2>2, <2>4
<1>6. /\ store' \in [Refs -> Rows \cup {None}] /\ RowsFinite' /\ QuotaKept'
      /\ \A r \in Refs : r \in S => ~Row(r)'
      /\ \A r \in Live(clock)' : r \in Live(clock) /\ Content(r)' = Content(r)
  BY <1>2, <1>3, RowsRemoved
<1>7. Types'
  BY <1>3, <1>5, <1>6 DEF IInv, Types, life
<1>8. Fits(op[o])' /\ Ready(op[o])' /\ ~Writes(o)'
  <2>1. \A v \in gone : ~Row(v)'
    BY <1>4, <1>6
  <2>2. Fits(op[o])' /\ ~Writes(o)'
    BY <1>1, <1>5 DEF IInv, KindsFit, Fits, Locked, Inside, Writes
  <2> HIDE DEF gone
  <2>3. \A v \in (op[o].victims)' : ~Row(v)'
    BY <1>5, <2>1
  <2> QED BY <1>1, <1>3, <1>5, <2>2, <2>3 DEF Ready
<1>9. KindsFit' /\ OneInside' /\ Held' /\ Sealed'
  BY <1>1, <1>3, <1>5, <1>7, <1>8, OthersOutside, HolderActs
<1>10. Counted'
  <2>1. ASSUME NEW q \in Ops, Writes(q)' PROVE Writes(q)
    BY <1>1, <1>3, <1>5, <1>8, <2>1, OthersOutside
  <2> QED BY <1>3, <2>1, NoMoreWriters DEF IInv
<1>11. Covers'
  <2> SUFFICES ASSUME status' = "ready", NEW r \in Live(clock)' PROVE Fresh(r)'
    BY DEF Covers
  <2>1. r \in Live(clock) /\ Content(r)' = Content(r) /\ Fresh(r)
    BY <1>1, <1>3, <1>6, AllCovered
  <2> QED BY <1>3, <2>1 DEF Fresh
<1> QED BY <1>3, <1>6, <1>7, <1>9, <1>10, <1>11 DEF IInv, HitsMatch

LEMMA UnindexStep ==
  ASSUME IInv, NEW o \in Ops, Unindex(o) PROVE IInv'
<1>1. /\ op[o].at = "unindex" /\ op[o].at \in Locked /\ \A v \in op[o].victims : ~Row(v)
  BY DEF Unindex, IInv, Types, Calls, Held, Ready, Locked
<1>2. /\ op' \in [Ops -> Calls] /\ op'[o] = Idle /\ \A q \in Ops : q # o => op'[q] = op[q]
      /\ UNCHANGED <<clock, store, life, puts, quota, stale>> /\ clock \in Nat
      /\ status' \in {"none", "ready", "degraded"} /\ (status' = "ready" => status = "ready")
  <2>1. Done(o) /\ GetOrCreate /\ UNCHANGED <<clock, store, life, puts, quota, stale>>
    BY DEF Unindex, seen
  <2>2. status' \in {"none", "ready", "degraded"} /\ (status' = "ready" => status = "ready")
    BY <2>1 DEF GetOrCreate, IInv, Types
  <2> QED BY <2>1, <2>2, MemoryAssumption, DoneTo DEF IInv, Types
<1>3. entries' = [r \in Refs |-> IF r \in op[o].victims THEN None ELSE entries[r]]
  BY DEF Unindex, Forget
<1>4. Types'
  BY <1>2, <1>3 DEF IInv, Types, life
<1>5. Fits(op[o])' /\ Ready(op[o])' /\ ~Writes(o)'
  BY <1>2, IdleIsReady DEF Fits, Ready, Locked, Inside, Writes
<1>6. KindsFit' /\ OneInside' /\ Held' /\ Sealed'
  BY <1>1, <1>2, <1>4, <1>5, OthersOutside, HolderActs
<1>7. Counted'
  <2>1. ASSUME NEW q \in Ops, Writes(q)' PROVE Writes(q)
    BY <1>1, <1>2, <1>5, <2>1, OthersOutside
  <2> QED BY <1>2, <2>1, NoMoreWriters DEF IInv
<1>8. RowsFinite' /\ QuotaKept' /\ HitsMatch'
  BY <1>2 DEF IInv, RowsFinite, QuotaKept, HitsMatch, Row, Live, LiveAt
<1>9. Covers'
  <2> SUFFICES ASSUME status' = "ready", NEW r \in Live(clock)' PROVE Fresh(r)'
    BY DEF Covers
  <2>1. r \in Refs /\ r \in Live(clock) /\ r \notin op[o].victims /\ Content(r)' = Content(r)
    BY <1>1, <1>2 DEF Live, LiveAt, Row, Content
  <2>2. Fresh(r) /\ entries'[r] = entries[r]
    BY <1>1, <1>2, <1>3, <2>1, AllCovered
  <2> QED BY <2>1, <2>2 DEF Fresh
<1> QED BY <1>4, <1>6, <1>7, <1>8, <1>9 DEF IInv

(* The worker deletes while nobody is inside.                                *)
LEMMA DeleteExpiredStep ==
  ASSUME IInv, NEW o \in Ops, DeleteExpired(o) PROVE IInv'
<1>1. /\ op[o].at = "write" /\ \A q \in Ops : op[q].at \notin Locked
      /\ clock \in Nat /\ UNCHANGED <<clock, entries, status, life, puts, quota, stale>>
  BY MemoryAssumption DEF DeleteExpired, Exclusive, Readers, IInv, Types,
     index, seen
<1>2. PICK batch : store' = [r \in Refs |-> IF r \in batch THEN None ELSE store[r]]
  BY DEF DeleteExpired
<1>3. op' = [q \in Ops |-> IF q = o THEN Idle ELSE IF op[q].at = "gate"
                                               THEN [op[q] EXCEPT !.at = "lock"] ELSE op[q]]
  BY DEF DeleteExpired
<1>4. ASSUME NEW q \in Ops
      PROVE  /\ op'[q] \in Calls /\ op'[q].at \notin Locked /\ op'[q].now <= clock
             /\ Fits(op[q])' /\ (Writes(q)' => Writes(q))
  <2>1. op[q] \in Calls /\ op[q].now <= clock /\ op[q].at \notin Locked
    BY <1>1 DEF IInv, Types, Held, Ready
  <2>2. Fits(op[q])
    BY DEF IInv, KindsFit
  <2>3. CASE q = o
    BY <1>1, <1>3, <2>3, IdleFits, IdleIsReady DEF Fits, Writes, Locked, Inside
  <2>4. CASE q # o /\ op[q].at = "gate"
    <3>1. op'[q] = [op[q] EXCEPT !.at = "lock"]
      BY <1>3, <2>4
    <3>2. /\ op'[q] \in Calls /\ op'[q].at = "lock" /\ op'[q].kind = op[q].kind
          /\ op'[q].now = op[q].now
      BY <2>1, <3>1 DEF Calls, Places
    <3> QED BY <2>1, <2>2, <2>4, <3>2 DEF Fits, Writes, Locked, Inside
  <2>5. CASE q # o /\ op[q].at # "gate"
    <3>1. op'[q] = op[q]
      BY <1>3, <2>5
    <3> QED BY <2>1, <2>2, <3>1 DEF Fits, Writes
  <2> QED BY <2>3, <2>4, <2>5
<1>5. /\ store' \in [Refs -> Rows \cup {None}] /\ RowsFinite' /\ QuotaKept'
      /\ \A r \in Live(clock)' : r \in Live(clock) /\ Content(r)' = Content(r)
  BY <1>1, <1>2, RowsRemoved
<1>6. Types'
  <2>1. op' \in [Ops -> Calls]
    BY <1>3, <1>4
  <2> QED BY <1>1, <1>5, <2>1 DEF IInv, Types, life
<1>7. KindsFit' /\ OneInside' /\ Held'
  BY <1>1, <1>4, ReadyOutside DEF KindsFit, OneInside, Held, IInv
<1>8. Counted'
  BY <1>1, <1>4, NoMoreWriters DEF IInv
<1>9. Sealed'
  BY <1>1 DEF IInv, Sealed, life
<1>10. Covers'
  BY <1>1, <1>5 DEF IInv, Covers, InHand, Locked, Fresh
<1> QED BY <1>1, <1>5, <1>6, <1>7, <1>8, <1>9, <1>10 DEF IInv, HitsMatch

(* ---- Reindex -------------------------------------------------------------------- *)
LEMMA ListStep ==
  ASSUME IInv, NEW o \in Ops, List(o) PROVE IInv'
<1> DEFINE found == [r \in Refs |-> IF LiveAt(r, op[o].now) THEN NewEntry(r) ELSE None]
<1>1. /\ op[o].at = "list" /\ op[o].now \in Nat /\ op[o].now <= clock /\ clock \in Nat
      /\ UNCHANGED <<clock, store, entries, status, life, puts, quota, stale>>
  <2>1. op[o] \in Calls /\ op[o].at = "list" /\ Ready(op[o]) /\ clock \in Nat
    BY MemoryAssumption DEF List, IInv, Types, Held
  <2> QED BY <2>1 DEF Calls, Ready, List, index, seen
<1>2. /\ found \in [Refs -> Entries \cup {None}]
      /\ \A r \in Refs : LiveAt(r, op[o].now) => found[r] # None /\ found[r].vec = Content(r)
  <2>1. ASSUME NEW r \in Refs, LiveAt(r, op[o].now)
        PROVE  NewEntry(r) \in Entries /\ NewEntry(r).vec = Content(r)
    <3>1. Content(r) \in Contents
      BY <2>1, RowTypes DEF IInv, LiveAt
    <3> QED BY <3>1 DEF NewEntry, Entries
  <2> QED BY <2>1, NoneIsNoRow
<1>3. /\ op' \in [Ops -> Calls] /\ op'[o].at = "swap" /\ op'[o].kind = op[o].kind
      /\ op'[o].now = op[o].now /\ op'[o].list = found
      /\ \A q \in Ops : q # o => op'[q] = op[q]
  <2> DEFINE f == [op EXCEPT ![o].at = "swap"]
             g == [f EXCEPT ![o].list = found]
  <2>1. /\ f \in [Ops -> Calls] /\ f[o].at = "swap" /\ f[o].kind = op[o].kind
        /\ f[o].now = op[o].now /\ \A q \in Ops : q # o => f[q] = op[q]
    BY DEF IInv, Types, Calls, Places, Locked
  <2>2. op' = g
    BY DEF List
  <2> HIDE DEF f, found
  <2>3. /\ g \in [Ops -> Calls] /\ g[o].at = "swap" /\ g[o].kind = op[o].kind
        /\ g[o].now = op[o].now /\ g[o].list = found /\ \A q \in Ops : q # o => g[q] = op[q]
    BY <1>2, <2>1 DEF Calls
  <2> HIDE DEF g
  <2> QED BY <2>2, <2>3
<1>4. Fits(op[o])' /\ (Writes(o)' => Writes(o))
  BY <1>1, <1>3 DEF IInv, KindsFit, Fits, Writes, Locked, Inside
<1>5. Ready(op[o])'
  <2>1. ASSUME NEW r \in Live(clock)' 
        PROVE  found[r] # None /\ found[r].vec = Content(r)'
    <3>1. r \in Live(clock) /\ Content(r)' = Content(r)
      BY <1>1, <2>1 DEF Live, LiveAt, Row, Content
    <3>2. Live(clock) \subseteq Live(op[o].now)
      BY <1>1, LiveOlder DEF IInv
    <3> QED BY <1>2, <3>1, <3>2 DEF Live
  <2> HIDE DEF found
  <2>2. \A r \in Live(clock)' : (op[o].list[r])' # None /\ (op[o].list[r].vec)' = Content(r)'
    BY <1>3, <2>1
  <2> QED BY <1>1, <1>3, <2>2 DEF Ready
<1> QED BY <1>1, <1>3, <1>4, <1>5, Quiet DEF Locked

LEMMA HitsTyped ==
  ASSUME Types PROVE Hits \in SUBSET [ref : Refs, e : Entries]
<1> SUFFICES ASSUME NEW q \in Refs, entries[q] # None
             PROVE  [ref |-> q, e |-> entries[q]] \in [ref : Refs, e : Entries]
  BY DEF Hits
<1> QED BY DEF Types

LEMMA SwapStep ==
  ASSUME IInv, NEW o \in Ops, Swap(o) PROVE IInv'
<1>1. /\ op[o].at = "swap" /\ op[o].at \in Locked /\ entries' = op[o].list /\ status' = "ready"
      /\ UNCHANGED <<clock, store, life, puts, quota, stale>> /\ clock \in Nat
  <2>1. op[o] \in Calls /\ op[o].at = "swap" /\ clock \in Nat
    <3>1. op[o].at = "swap"
      BY DEF Swap
    <3> QED BY <3>1, MemoryAssumption DEF IInv, Types
  <2>2. op[o].at \in Locked
    BY <2>1 DEF Locked
  <2> QED BY <2>1, <2>2 DEF Swap, seen
<1>2. op' = [q \in Ops |-> IF q = o THEN Idle ELSE IF op[q].at = "query"
                     THEN [op[q] EXCEPT !.at = "look", !.hits = Hits] ELSE op[q]]
  BY DEF Swap
<1>3. ASSUME NEW q \in Ops, q # o
      PROVE  /\ op'[q] \in Calls /\ op'[q].at \notin Locked /\ op'[q].now <= clock'
             /\ Fits(op[q])' /\ (op'[q].at = "idle" <=> op[q].at = "idle")
             /\ Writes(q)' => Writes(q)
  <2>1. op[q] \in Calls /\ op[q].now <= clock /\ op[q].at \notin Locked /\ Fits(op[q])
    BY <1>1, <1>3 DEF IInv, Types, Held, Ready, OneInside, KindsFit
  <2>2. CASE op[q].at = "query"
    <3> DEFINE f == [op[q] EXCEPT !.at = "look"]
    <3>1. f \in Calls /\ f.at = "look" /\ f.now = op[q].now /\ f.kind = op[q].kind
      BY <2>1 DEF Calls, Places
    <3>2. op'[q] = [f EXCEPT !.hits = Hits]
      BY <1>2, <1>3, <2>2
    <3> HIDE DEF f
    <3>3. op'[q] \in Calls /\ op'[q].at = "look" /\ op'[q].now = op[q].now
      BY <3>1, <3>2, HitsTyped DEF IInv, Calls
    <3> QED BY <1>1, <2>1, <2>2, <3>3 DEF Fits, Locked, Inside, Writes
  <2>3. CASE op[q].at # "query"
    <3>1. op'[q] = op[q]
      BY <1>2, <1>3, <2>3
    <3> QED BY <1>1, <2>1, <3>1 DEF Fits, Writes
  <2> QED BY <2>2, <2>3
<1>4. op'[o] = Idle
  BY <1>2
<1>5. Types'
  <2>1. op' \in [Ops -> Calls]
    <3>1. \A q \in Ops : op'[q] \in Calls
      BY <1>3, <1>4, IdleFits
    <3> QED BY <1>2, <3>1
  <2>2. entries' \in [Refs -> Entries \cup {None}]
    BY <1>1 DEF IInv, Types, Calls
  <2> QED BY <1>1, <2>1, <2>2 DEF IInv, Types, life
<1>6. Fits(op[o])' /\ Ready(op[o])' /\ ~Writes(o)'
  BY <1>1, <1>4, IdleIsReady DEF Fits, Ready, Locked, Inside, Writes
<1>7. KindsFit' /\ OneInside' /\ Held' /\ Sealed'
  BY <1>1, <1>3, <1>5, <1>6, HolderActs
<1>8. Counted'
  <2>1. \A q \in Ops : Writes(q)' => Writes(q)
    BY <1>3, <1>6
  <2> QED BY <1>1, <2>1, NoMoreWriters DEF IInv
<1>9. RowsFinite' /\ QuotaKept' /\ HitsMatch'
  BY <1>1 DEF IInv, RowsFinite, QuotaKept, HitsMatch, Row, Live, LiveAt
<1>10. Covers'
  <2>1. \A r \in Live(clock) : op[o].list[r] # None /\ op[o].list[r].vec = Content(r)
    BY <1>1 DEF IInv, Held, Ready
  <2>2. Live(clock)' = Live(clock) /\ \A r \in Refs : Content(r)' = Content(r)
    BY <1>1 DEF Live, LiveAt, Row, Content
  <2> QED BY <1>1, <2>1, <2>2 DEF Covers, Live, Fresh
<1> QED BY <1>5, <1>7, <1>8, <1>9, <1>10 DEF IInv

(* ---- Search --------------------------------------------------------------------- *)
LEMMA OutsideMove ==
  ASSUME IInv, NEW o \in Ops, op' \in [Ops -> Calls],
         op[o].at \in {"pick", "query", "look", "keyword"},
         op'[o].at \in {"query", "look", "keyword", "mark"}, op'[o].now = op[o].now,
         \A q \in Ops : q # o => op'[q] = op[q],
         UNCHANGED <<clock, store, entries, life, puts, quota, stale>>,
         status' \in {status, "degraded"}
  PROVE  IInv'
<1>1. Fits(op[o])' /\ ~Writes(o)'
  BY DEF Fits, Locked, Inside, Writes
<1>2. Ready(op[o])'
  BY DEF IInv, Held, Ready
<1> QED BY <1>1, <1>2, Quiet DEF Locked

LEMMA FallBackStep ==
  ASSUME IInv, NEW o \in Ops, op[o].at \in {"pick", "query"}, FallBack(o),
         UNCHANGED <<clock, store, entries, life, puts, quota, stale>>,
         status' \in {status, "degraded"}
  PROVE  IInv'
<1>1. CASE Step(o, "keyword")
  <2>1. /\ op' \in [Ops -> Calls] /\ op'[o].at = "keyword" /\ op'[o].now = op[o].now
        /\ \A q \in Ops : q # o => op'[q] = op[q]
    BY <1>1, StepTo DEF IInv, Types, Places
  <2> QED BY <2>1, OutsideMove
<1>2. CASE Done(o)
  BY <1>2, QuietEnd
<1> QED BY <1>1, <1>2 DEF FallBack

LEMMA PickStep ==
  ASSUME IInv, NEW o \in Ops, Pick(o) PROVE IInv'
<1>1. /\ op[o].at = "pick"
      /\ UNCHANGED <<clock, store, entries, life, puts, quota, stale>>
      /\ status' \in {status, "degraded"}
  BY DEF Pick, seen, GetOrCreate
<1>2. CASE Step(o, "query")
  <2>1. /\ op' \in [Ops -> Calls] /\ op'[o].at = "query" /\ op'[o].now = op[o].now
        /\ \A q \in Ops : q # o => op'[q] = op[q]
    BY <1>2, StepTo DEF IInv, Types, Places
  <2> QED BY <1>1, <2>1, OutsideMove
<1>3. CASE FallBack(o)
  BY <1>1, <1>3, FallBackStep
<1> QED BY <1>2, <1>3 DEF Pick

LEMMA QueryStep ==
  ASSUME IInv, NEW o \in Ops, Query(o) PROVE IInv'
<1>1. /\ op[o].at = "query"
      /\ UNCHANGED <<clock, store, entries, status, life, puts, quota, stale>>
  BY DEF Query, index, seen
<1>2. CASE op' = [op EXCEPT ![o].at = "look", ![o].hits = Hits]
  <2> DEFINE f == [op EXCEPT ![o].at = "look"]
             g == [f EXCEPT ![o].hits = Hits]
  <2>1. /\ f \in [Ops -> Calls] /\ f[o].at = "look" /\ f[o].now = op[o].now
        /\ \A q \in Ops : q # o => f[q] = op[q]
    <3>1. op \in [Ops -> Calls] /\ "look" \in Places
      BY DEF IInv, Types, Places
    <3> QED BY <3>1 DEF Calls
  <2>2. op' = g
    BY <1>2
  <2> HIDE DEF f
  <2>3. /\ g \in [Ops -> Calls] /\ g[o].at = "look" /\ g[o].now = op[o].now
        /\ \A q \in Ops : q # o => g[q] = op[q]
    BY <2>1, HitsTyped DEF IInv, Calls
  <2> HIDE DEF g
  <2> QED BY <1>1, <2>2, <2>3, OutsideMove
<1>3. CASE FallBack(o)
  BY <1>1, <1>3, FallBackStep
<1> QED BY <1>2, <1>3 DEF Query

(* A hit of the same version and the same life has the present vector: the    *)
(* vector is no older than the version and no newer than the row.            *)
LEMMA SameContent ==
  ASSUME NEW a \in Contents, NEW b \in Contents, NEW c \in Contents,
         Older(a, b), Older(b, c), a.life = c.life, a.ver = c.ver
  PROVE  b = c
<1>1. b.life = c.life /\ b.ver = c.ver
  BY DEF Older, Contents
<1> QED BY <1>1 DEF Contents

LEMMA LookStep ==
  ASSUME IInv, Age, NEW o \in Ops, Look(o) PROVE IInv'
<1>1. /\ op[o].at = "look" /\ op[o] \in Calls
      /\ UNCHANGED <<clock, store, entries, status, life, puts, quota>>
  BY DEF Look, index, seen, IInv, Types
<1>2. CASE op[o].hits = {} /\ Done(o) /\ UNCHANGED seen
  BY <1>1, <1>2, QuietEnd DEF seen
<1>3. ASSUME NEW h \in op[o].hits, op' = [op EXCEPT ![o].hits = @ \ {h}],
             stale' = (stale \/ (Returned(h) /\ SameLife(h) /\ h.e.vec # Content(h.ref)))
      PROVE  IInv'
  <2>1. h \in [ref : Refs, e : Entries]
    BY <1>1 DEF Calls
  <2>2. ASSUME Returned(h), SameLife(h) PROVE h.e.vec = Content(h.ref)
    <3>1. h.ref \in Refs /\ Row(h.ref)
      BY <2>1, <2>2 DEF Returned, LiveAt
    <3>2. h.e.first \in Contents /\ h.e.vec \in Contents /\ Content(h.ref) \in Contents
      BY <2>1, <3>1, RowTypes DEF IInv, Entries
    <3>3. Aged(h.e, h.ref)
      BY DEF Age, CallsAged
    <3>4. Content(h.ref).ver = h.e.first.ver /\ Content(h.ref).life = h.e.first.life
      BY <2>2 DEF Returned, SameLife, Content
    <3> QED BY <3>1, <3>2, <3>3, <3>4, SameContent DEF Aged
  <2>4. UNCHANGED stale
    <3>1. stale = FALSE
      BY DEF IInv, HitsMatch, Types
    <3>2. stale' = FALSE
      BY <1>3, <2>2, <3>1
    <3> QED BY <3>1, <3>2
  <2>5. op[o].hits \ {h} \in SUBSET [ref : Refs, e : Entries]
    BY <1>1 DEF Calls
  <2>6. /\ op' \in [Ops -> Calls] /\ op'[o].at = "look" /\ op'[o].now = op[o].now
        /\ \A q \in Ops : q # o => op'[q] = op[q]
    BY <1>1, <1>3, <2>5 DEF IInv, Types, Calls
  <2> QED BY <1>1, <2>4, <2>6, OutsideMove
<1> QED BY <1>2, <1>3 DEF Look

LEMMA KeywordStep ==
  ASSUME IInv, NEW o \in Ops, Keyword(o) PROVE IInv'
<1>1. /\ op' \in [Ops -> Calls] /\ op'[o].at = "mark" /\ op'[o].now = op[o].now
      /\ \A q \in Ops : q # o => op'[q] = op[q]
  BY StepTo DEF Keyword, IInv, Types, Places
<1> QED BY <1>1, OutsideMove DEF Keyword, index, seen

(* ---- life cycle, clock and crash ---------------------------------------------- *)
LEMMA OpsStay ==
  ASSUME IInv, UNCHANGED <<store, entries, status, op, puts, quota, stale>>,
         clock' \in 0..MaxClock, clock <= clock', Sealed',
         closing' \in BOOLEAN, worker' \in BOOLEAN, open' \in BOOLEAN
  PROVE  IInv'
<1>1. Types' /\ clock \in Nat /\ clock' \in Nat
  BY MemoryAssumption DEF IInv, Types
<1>2. KindsFit' /\ OneInside' /\ RowsFinite' /\ HitsMatch'
  BY DEF IInv, KindsFit, Fits, OneInside, RowsFinite, Row, HitsMatch
<1>3. Held'
  BY <1>1, ReadyStays DEF IInv, Held
<1>4. Counted'
  BY DEF IInv, Counted, Writers, Writes
<1>5. Live(clock)' \subseteq Live(clock) /\ \A r \in Refs : Content(r)' = Content(r)
  <2>1. Live(clock') \subseteq Live(clock)
    BY <1>1, LiveOlder DEF IInv
  <2>2. Live(clock)' = Live(clock')
    BY DEF Live, LiveAt, Row
  <2> QED BY <2>1, <2>2 DEF Content
<1>6. QuotaKept'
  <2>1. IsFiniteSet(Live(clock)) /\ Cardinality(Live(clock)) \in Nat
    BY LiveIsFinite DEF IInv
  <2>2. Live(clock)' \in SUBSET Live(clock)
    BY <1>5
  <2>3. /\ Cardinality(Live(clock)') <= Cardinality(Live(clock))
        /\ Cardinality(Live(clock)') \in Nat
    BY <2>1, <2>2, FS_Subset, FS_CardinalityType
  <2>4. Cardinality(Live(clock)) <= MaxItems /\ ~quota /\ MaxItems \in Nat
    BY MemoryAssumption DEF IInv, QuotaKept
  <2> QED BY <2>1, <2>3, <2>4 DEF QuotaKept
<1>7. Covers'
  <2> SUFFICES ASSUME status' = "ready", NEW r \in Live(clock)', ~InHand(r)'
               PROVE  Fresh(r)'
    BY DEF Covers
  <2>1. r \in Live(clock) /\ r \in Refs /\ Content(r)' = Content(r) /\ ~InHand(r)
    BY <1>5 DEF Live, InHand
  <2> QED BY <2>1 DEF IInv, Covers, Fresh
<1> QED BY <1>1, <1>2, <1>3, <1>4, <1>6, <1>7 DEF IInv

LEMMA CloseStep == ASSUME IInv, Close PROVE IInv'
<1>1. Sealed'
  BY DEF Close, IInv, Sealed
<1>2. clock' \in 0..MaxClock /\ clock <= clock'
  BY MemoryAssumption DEF Close, IInv, Types
<1>3. closing' \in BOOLEAN /\ worker' \in BOOLEAN /\ open' \in BOOLEAN
  BY Zenon DEF Close, IInv, Types
<1> QED BY <1>1, <1>2, <1>3, OpsStay DEF Close, index, seen

LEMMA WorkerEndsStep == ASSUME IInv, WorkerEnds PROVE IInv'
<1>1. Sealed'
  BY DEF WorkerEnds, IInv, Sealed
<1>2. clock' \in 0..MaxClock /\ clock <= clock'
  BY MemoryAssumption DEF WorkerEnds, IInv, Types
<1>3. closing' \in BOOLEAN /\ worker' \in BOOLEAN /\ open' \in BOOLEAN
  BY Zenon DEF WorkerEnds, IInv, Types
<1> QED BY <1>1, <1>2, <1>3, OpsStay DEF WorkerEnds, index, seen

LEMMA CloseStoreStep == ASSUME IInv, CloseStore PROVE IInv'
<1>1. Sealed'
  BY DEF CloseStore, Drained, IInv, Sealed
<1>2. clock' \in 0..MaxClock /\ clock <= clock'
  BY MemoryAssumption DEF CloseStore, IInv, Types
<1>3. closing' \in BOOLEAN /\ worker' \in BOOLEAN /\ open' \in BOOLEAN
  BY Zenon DEF CloseStore, IInv, Types
<1> QED BY <1>1, <1>2, <1>3, OpsStay DEF CloseStore, index, seen

LEMMA TickStep == ASSUME IInv, Tick PROVE IInv'
<1>1. Sealed'
  BY DEF Tick, IInv, Sealed, life
<1>2. clock' \in 0..MaxClock /\ clock <= clock'
  BY MemoryAssumption DEF Tick, IInv, Types
<1> QED BY <1>1, <1>2, OpsStay DEF Tick, IInv, Types, index, life, seen

LEMMA CrashStep == ASSUME IInv, Crash PROVE IInv'
<1>1. /\ entries' = Empty /\ status' = "none" /\ op' = [o \in Ops |-> Idle]
      /\ closing' = FALSE /\ worker' = TRUE /\ open' = TRUE
      /\ UNCHANGED <<clock, store, puts, quota, stale>> /\ clock \in Nat
  BY MemoryAssumption DEF Crash, IInv, Types
<1>2. Types'
  BY <1>1, IdleFits DEF IInv, Types
<1>3. \A o \in Ops : op'[o] = Idle
  BY <1>1
<1>4. KindsFit' /\ OneInside'
  BY <1>3, IdleIsReady, <1>1 DEF KindsFit, OneInside, Fits
<1>5. Held'
  BY <1>1, <1>2, <1>3, IdleIsReady, ReadyOutside DEF Held, IInv
<1>6. Counted'
  BY <1>1, <1>3, NoMoreWriters DEF IInv, Writes, Idle
<1>7. RowsFinite' /\ QuotaKept' /\ HitsMatch' /\ Covers' /\ Sealed'
  BY <1>1 DEF IInv, RowsFinite, QuotaKept, HitsMatch, Covers, Sealed, Row,
     Live, LiveAt
<1> QED BY <1>2, <1>4, <1>5, <1>6, <1>7 DEF IInv

(* ---- the inductive invariant --------------------------------------------------- *)
LEMMA InitInv == ASSUME Init PROVE IInv
<1>1. /\ clock = 0 /\ store = Empty /\ entries = Empty /\ status = "none"
      /\ op = [o \in Ops |-> Idle] /\ closing = FALSE /\ worker = TRUE /\ open = TRUE
      /\ puts = 0 /\ quota = FALSE /\ stale = FALSE
  BY DEF Init
<1>2. \A r \in Refs : ~Row(r)
  BY <1>1 DEF Row, Empty
<1>3. Types
  <2>1. store \in [Refs -> Rows \cup {None}]
    BY <1>1 DEF Empty
  <2>2. op \in [Ops -> Calls] /\ entries \in [Refs -> Entries \cup {None}]
    BY <1>1, IdleFits
  <2>3. clock \in 0..MaxClock /\ puts \in Nat
    BY <1>1, MemoryAssumption
  <2> QED BY <1>1, <2>1, <2>2, <2>3 DEF Types
<1>4. \A o \in Ops : op[o] = Idle
  BY <1>1
<1>5. KindsFit /\ OneInside /\ Held
  BY <1>1, <1>4, IdleIsReady DEF KindsFit, OneInside, Held
<1>6. {r \in Refs : Row(r)} = {} /\ Live(clock) = {}
  BY <1>2 DEF Live, LiveAt
<1>7. RowsFinite /\ QuotaKept
  <2>1. IsFiniteSet({}) /\ Cardinality({}) = 0 /\ MaxItems \in Nat
    BY FS_EmptySet, MemoryAssumption
  <2>2. RowsFinite
    BY <1>6, <2>1 DEF RowsFinite
  <2> QED BY <1>1, <1>6, <2>1, <2>2 DEF QuotaKept
<1>8. Counted
  <2>1. Writers = {}
    BY <1>4 DEF Writers, Writes, Idle
  <2> QED BY <1>1, <2>1, FS_EmptySet, MemoryAssumption DEF Counted
<1>9. HitsMatch /\ Covers /\ Sealed
  BY <1>1 DEF HitsMatch, Covers, Sealed
<1> QED BY <1>3, <1>5, <1>7, <1>8, <1>9 DEF IInv

LEMMA NextInv == ASSUME IInv, Age, [Next]_vars PROVE IInv'
<1>1. ASSUME NEW o \in Ops, Advance(o) PROVE IInv'
  <2>1. CASE Enter(o) \/ Lock(o)
    BY <2>1, EnterStep, LockStep
  <2>2. CASE Source(o) \/ Read(o) \/ Commit(o) \/ PutIndex(o)
    BY <2>2, SourceStep, ReadStep, CommitStep, PutIndexStep
  <2>3. CASE TooLate(o) \/ StoreFails(o) \/ ReindexFails(o) \/ Mark(o)
    BY <2>3, EndsStep
  <2>4. CASE Remove(o) \/ Unindex(o) \/ DeleteExpired(o)
    BY <2>4, RemoveStep, UnindexStep, DeleteExpiredStep
  <2>5. CASE List(o) \/ Swap(o)
    BY <2>5, ListStep, SwapStep
  <2>6. CASE Pick(o) \/ Query(o) \/ Look(o) \/ Keyword(o)
    BY <2>6, PickStep, QueryStep, LookStep, KeywordStep
  <2> QED BY <1>1, <2>1, <2>2, <2>3, <2>4, <2>5, <2>6 DEF Advance
<1>2. ASSUME NEW o \in Ops, Begin(o) PROVE IInv'
  BY <1>2, BeginStep
<1>3. CASE Close \/ WorkerEnds \/ CloseStore
  BY <1>3, CloseStep, WorkerEndsStep, CloseStoreStep
<1>4. CASE Tick \/ Crash
  BY <1>4, TickStep, CrashStep
<1>5. CASE UNCHANGED vars
  <2>1. UNCHANGED <<clock, store, entries, status, op, closing, worker, open, puts, quota, stale>>
    BY <1>5 DEF vars
  <2>2. Sealed'
    BY <2>1 DEF IInv, Sealed
  <2> QED BY <2>1, <2>2, OpsStay, MemoryAssumption DEF IInv, Types
<1> QED BY <1>1, <1>2, <1>3, <1>4, <1>5 DEF Next

(* ---- ages ------------------------------------------------------------------------ *)
LEMMA OlderIsTransitive ==
  ASSUME NEW a \in Contents, NEW b \in Contents, NEW c \in Contents, Older(a, b), Older(b, c)
  PROVE  Older(a, c)
BY DEF Older, Contents

(* What a step may do to a row: nothing, write it on, make it anew, remove it. *)
RowGrows(r) ==
  Row(r)' => /\ store[r]'.life <= puts'
             /\ \/ Row(r) /\ Older(Content(r), Content(r)')
                \/ store[r]'.life > puts
LEMMA AgedStays ==
  ASSUME Types, Types', puts <= puts', NEW r \in Refs, RowGrows(r),
         NEW e \in Entries, Aged(e, r)
  PROVE  Aged(e, r)'
<1>1. e.first \in Contents /\ e.vec \in Contents /\ puts \in Nat /\ puts' \in Nat
  BY DEF Entries, Types
<1>2. e.vec.life \in Nat /\ e.vec.life <= puts'
  BY <1>1 DEF Aged, Contents
<1>3. ASSUME Row(r)' PROVE Older(e.vec, Content(r)')
  <2>1. Content(r)' \in Contents /\ Content(r)'.life = store[r]'.life
    BY <1>3, RowTypes DEF Content, Types, Row, Rows, Contents
  <2>2. CASE Row(r) /\ Older(Content(r), Content(r)')
    <3>1. Content(r) \in Contents
      BY <2>2, RowTypes
    <3> QED BY <1>1, <2>1, <2>2, <3>1, OlderIsTransitive DEF Aged
  <2>3. CASE store[r]'.life > puts
    BY <1>1, <1>2, <2>1, <2>3 DEF Older, Aged, Contents
  <2> QED BY <1>3, <2>2, <2>3 DEF RowGrows
<1> QED BY <1>2, <1>3 DEF Aged, Older

LEMMA AgeKept ==
  ASSUME Types, Types', Age, puts <= puts', \A r \in Refs : RowGrows(r),
         \A r \in Refs : entries'[r] # None => entries'[r] = entries[r] \/ Aged(entries[r], r)',
         \A q \in Ops : op'[q].hits \subseteq op[q].hits \cup Hits,
         \A q \in Ops : \A r \in Refs : op'[q].list[r] # None =>
            op'[q].list[r] = op[q].list[r] \/ Aged(op[q].list[r], r)'
  PROVE  Age'
<1>1. \A r \in Refs : \A e \in Entries : Aged(e, r) => Aged(e, r)'
  BY AgedStays
<1>2. EntriesAged'
  <2> SUFFICES ASSUME NEW r \in Refs, entries'[r] # None PROVE Aged(entries[r], r)'
    BY DEF EntriesAged
  <2>1. CASE entries'[r] = entries[r]
    <3>1. entries[r] \in Entries /\ Aged(entries[r], r)
      BY <2>1 DEF Types, Age, EntriesAged
    <3>2. PICK e \in Entries : e = entries[r]
      BY <3>1
    <3>3. Aged(e, r)'
      BY <1>1, <3>1, <3>2
    <3> QED BY <2>1, <3>2, <3>3 DEF Aged
  <2> QED BY <2>1
<1>3. CallsAged'
  <2>1. ASSUME NEW q \in Ops, NEW h \in op'[q].hits PROVE Aged(h.e, h.ref)'
    <3>1. h.e \in Entries /\ h.ref \in Refs
      BY DEF Types, Calls
    <3>2. CASE h \in op[q].hits
      BY <1>1, <3>1, <3>2 DEF Age, CallsAged
    <3>3. CASE h \in Hits
      <4>1. PICK r \in Refs : entries[r] # None /\ h = [ref |-> r, e |-> entries[r]]
        BY <3>3 DEF Hits
      <4>2. Aged(h.e, h.ref)
        BY <4>1 DEF Age, EntriesAged
      <4> QED BY <1>1, <3>1, <4>2
    <3> QED BY <3>2, <3>3
  <2>2. ASSUME NEW q \in Ops, NEW r \in Refs, op'[q].list[r] # None PROVE Aged(op[q].list[r], r)'
    <3>1. CASE op'[q].list[r] = op[q].list[r]
      <4>1. op[q].list[r] \in Entries /\ Aged(op[q].list[r], r)
        BY <2>2, <3>1 DEF Types, Calls, Age, CallsAged
      <4>2. PICK e \in Entries : e = op[q].list[r]
        BY <4>1
      <4>3. Aged(e, r)'
        BY <1>1, <4>1, <4>2
      <4> QED BY <3>1, <4>2, <4>3 DEF Aged
    <3> QED BY <2>2, <3>1
  <2> QED BY <2>1, <2>2 DEF CallsAged
<1>4. RowsAged'
  BY DEF RowsAged, RowGrows
<1> QED BY <1>2, <1>3, <1>4 DEF Age

(* Most steps move operations on without a word about hits and lists.        *)
CallsQuiet == \A q \in Ops : /\ op'[q].hits \in {op[q].hits, {}}
                             /\ op'[q].list \in {op[q].list, Empty}
LEMMA AgeQuiet ==
  ASSUME Types, Types', Age, puts <= puts', \A r \in Refs : RowGrows(r), CallsQuiet,
         \A r \in Refs : entries'[r] # None => entries'[r] = entries[r] \/ Aged(entries[r], r)'
  PROVE  Age'
<1>1. \A q \in Ops : op'[q].hits \subseteq op[q].hits \cup Hits
  BY DEF CallsQuiet
<1>2. \A q \in Ops : \A r \in Refs : op'[q].list[r] # None => op'[q].list[r] = op[q].list[r]
  BY DEF CallsQuiet, Empty
<1> QED BY <1>1, <1>2, AgeKept

LEMMA StepIsQuiet ==
  ASSUME op \in [Ops -> Calls], NEW o \in Ops, NEW x, Step(o, x) PROVE CallsQuiet
BY DEF Step, Calls, CallsQuiet
LEMMA DoneIsQuiet ==
  ASSUME op \in [Ops -> Calls], NEW o \in Ops, Done(o) PROVE CallsQuiet
BY DEF Done, Idle, CallsQuiet

LEMMA StoreStays ==
  ASSUME Types, Age, UNCHANGED <<store, puts>> PROVE \A r \in Refs : RowGrows(r)
<1> SUFFICES ASSUME NEW r \in Refs, Row(r)' PROVE store[r]'.life <= puts' /\ Row(r) /\ Older(Content(r), Content(r)')
  BY DEF RowGrows
<1>1. Row(r) /\ store[r]' = store[r] /\ Content(r)' = Content(r)
  BY DEF Row, Content
<1>2. Content(r) \in Contents
  BY <1>1, RowTypes
<1> QED BY <1>1, <1>2 DEF Older, Contents, Age, RowsAged

LEMMA RowsGo ==
  ASSUME Types, Age, UNCHANGED puts, NEW S,
         store' = [r \in Refs |-> IF r \in S THEN None ELSE store[r]]
  PROVE  \A r \in Refs : RowGrows(r)
<1> SUFFICES ASSUME NEW r \in Refs, Row(r)' PROVE store[r]'.life <= puts' /\ Row(r) /\ Older(Content(r), Content(r)')
  BY DEF RowGrows
<1>1. Row(r) /\ store[r]' = store[r] /\ Content(r)' = Content(r)
  BY DEF Row, Content
<1>2. Content(r) \in Contents
  BY <1>1, RowTypes
<1> QED BY <1>1, <1>2 DEF Older, Contents, Age, RowsAged

(* A row written on has the next version, one made anew a life of its own.   *)
LEMMA CommitAge ==
  ASSUME IInv, Age, Types', NEW o \in Ops, Commit(o) PROVE Age'
<1>0. PICK p \in Calls : p = op[o]
  BY DEF IInv, Types
<1>9. PICK k \in Refs : k = p.ref
  BY DEF Calls
<1>1. op \in [Ops -> Calls] /\ puts \in Nat /\ Types /\ UNCHANGED entries
  BY DEF IInv, Types, Calls, Commit, index
<1>2. CASE Done(o) /\ UNCHANGED <<store, puts>>
  BY <1>1, <1>2, DoneIsQuiet, StoreStays, AgeQuiet
<1>3. CASE /\ store' = [r \in Refs |-> IF r = k THEN Written(p)
                                   ELSE IF r \in p.victims THEN None ELSE store[r]]
           /\ puts' = puts + 1 /\ Step(o, "embed")
  <2>1. ASSUME NEW r \in Refs, r # k PROVE RowGrows(r)
    <3>1. Row(r)' => Row(r) /\ store[r]' = store[r] /\ Content(r)' = Content(r)
      BY <1>3, <2>1 DEF Row, Content
    <3>2. Row(r) => Content(r) \in Contents /\ store[r].life <= puts /\ store[r].life \in Nat
      BY <1>1, RowTypes DEF Age, RowsAged, Rows
    <3> QED BY <1>1, <1>3, <3>1, <3>2 DEF RowGrows, Older, Contents
  <2>2. RowGrows(k)
    <3>1. store'[k] = Written(p)
      BY <1>3
    <3>2. CASE Row(k)
      <4>1. store[k] \in Rows /\ Written(p) = [store[k] EXCEPT !.ver = @ + 1, !.exp = p.exp]
        BY <1>1, <1>9, <3>2, RowTypes DEF Written
      <4>2. Written(p).ver = store[k].ver + 1 /\ Written(p).life = store[k].life
        BY <4>1 DEF Rows
      <4>3. store[k].life <= puts /\ store[k].life \in Nat /\ store[k].ver \in Nat
        BY <1>1, <3>2, <4>1 DEF Age, RowsAged, Rows
      <4>4. Older(Content(k), Content(k)')
        <5>1. /\ Content(k).ver = store[k].ver /\ Content(k).life = store[k].life
              /\ Content(k)'.ver = Written(p).ver /\ Content(k)'.life = Written(p).life
          BY <3>1 DEF Content
        <5> QED BY <4>2, <4>3, <5>1 DEF Older
      <4>5. store[k]'.life = store[k].life
        BY <3>1, <4>2
      <4> QED BY <1>1, <1>3, <3>2, <4>3, <4>4, <4>5 DEF RowGrows
    <3>3. CASE ~Row(k)
      <4>1. Written(p).life = puts + 1
        BY <1>9, <3>3 DEF Written
      <4> QED BY <1>1, <1>3, <3>1, <4>1 DEF RowGrows
    <3> QED BY <3>2, <3>3
  <2>3. CallsQuiet
    BY <1>1, <1>3, StepIsQuiet
  <2>4. puts <= puts'
    BY <1>1, <1>3
  <2> QED BY <1>1, <2>1, <2>2, <2>3, <2>4, AgeQuiet
<1> QED BY <1>0, <1>2, <1>3, <1>9 DEF Commit

(* A new vector is of the row as it is; the version of an entry is no newer.  *)
LEMMA UpsertAged ==
  ASSUME Types, Age, NEW r \in Refs, Row(r) PROVE Aged(Upsert(r), r) /\ Aged(NewEntry(r), r)
<1>1. Content(r) \in Contents /\ Content(r).life <= puts
  BY RowTypes DEF Age, RowsAged, Content
<1>2. Older(Content(r), Content(r))
  BY <1>1 DEF Older, Contents
<1>3. Aged(NewEntry(r), r)
  BY <1>1, <1>2 DEF Aged, NewEntry
<1>4. CASE entries[r] # None
  <2>1. entries[r] \in Entries /\ Aged(entries[r], r)
    BY <1>4 DEF Types, Age, EntriesAged
  <2>2. Upsert(r).vec = Content(r) /\ Upsert(r).first = entries[r].first
    BY <1>4, <2>1 DEF Upsert, Entries
  <2>3. entries[r].first \in Contents /\ entries[r].vec \in Contents
    BY <2>1 DEF Entries
  <2>4. Older(entries[r].first, Content(r))
    BY <1>1, <2>1, <2>3, OlderIsTransitive DEF Aged
  <2> QED BY <1>1, <1>2, <1>3, <2>2, <2>4 DEF Aged
<1> QED BY <1>3, <1>4 DEF Upsert

LEMMA PutIndexAge ==
  ASSUME IInv, Age, Types', NEW o \in Ops, PutIndex(o) PROVE Age'
<1>1. /\ op \in [Ops -> Calls] /\ op[o].ref \in Refs /\ Row(op[o].ref) /\ puts \in Nat
      /\ Types /\ Done(o) /\ UNCHANGED <<store, puts>>
  BY DEF PutIndex, IInv, Types, Calls, Held, Ready
<1>2. CallsQuiet /\ \A r \in Refs : RowGrows(r)
  BY <1>1, DoneIsQuiet, StoreStays
<1>3. ASSUME NEW r \in Refs, entries'[r] # None
      PROVE  entries'[r] = entries[r] \/ Aged(entries[r], r)'
  <2>1. entries'[r] = entries[r] \/ (r = op[o].ref /\ entries'[r] = Upsert(r))
    BY <1>3 DEF PutIndex, IInv, Types
  <2>2. CASE r = op[o].ref /\ entries'[r] = Upsert(r)
    <3>1. Aged(Upsert(r), r)
      BY <1>1, <2>2, UpsertAged
    <3>2. PICK e : e = Upsert(r)
      OBVIOUS
    <3>3. Aged(e, r)'
      BY <1>1, <3>1, <3>2 DEF Aged, Row, Content
    <3> QED BY <2>2, <3>2, <3>3 DEF Aged
  <2> QED BY <2>1, <2>2
<1> QED BY <1>1, <1>2, <1>3, AgeQuiet

LEMMA ListAge ==
  ASSUME IInv, Age, Types', NEW o \in Ops, List(o) PROVE Age'
<1>1. op \in [Ops -> Calls] /\ puts \in Nat /\ Types /\ UNCHANGED <<store, puts, entries>>
  BY DEF List, IInv, Types, index
<1>2. /\ \A q \in Ops : op'[q].hits = op[q].hits
      /\ \A q \in Ops : q # o => op'[q].list = op[q].list
      /\ \A r \in Refs : op'[o].list[r] # None => Row(r) /\ op'[o].list[r] = NewEntry(r)
  <2> DEFINE f == [op EXCEPT ![o].at = "swap"]
             found == [r \in Refs |-> IF LiveAt(r, op[o].now) THEN NewEntry(r) ELSE None]
  <2>1. \A r \in Refs : found[r] # None => Row(r) /\ found[r] = NewEntry(r)
    BY DEF LiveAt
  <2>2. op' = [f EXCEPT ![o].list = found]
    BY DEF List
  <2>3. f \in [Ops -> Calls \cup {f[o]}] /\ f[o] = [op[o] EXCEPT !.at = "swap"]
        /\ \A q \in Ops : q # o => f[q] = op[q]
    BY <1>1
  <2>4. f[o].hits = op[o].hits
    BY <1>1, <2>3 DEF Calls
  <2> HIDE DEF f, found
  <2>5. /\ \A q \in Ops : q # o => op'[q] = op[q]
        /\ op'[o] = [f[o] EXCEPT !.list = found]
    BY <2>2, <2>3
  <2>6. op'[o].hits = op[o].hits /\ op'[o].list = found
    <3>1. f[o] = [op[o] EXCEPT !.at = "swap"] /\ op[o] \in Calls
      BY <1>1, <2>3
    <3> QED BY <2>5, <3>1 DEF Calls
  <2> QED BY <2>1, <2>5, <2>6
<1>3. ASSUME NEW q \in Ops, NEW r \in Refs, op'[q].list[r] # None
      PROVE  op'[q].list[r] = op[q].list[r] \/ Aged(op[q].list[r], r)'
  <2>1. CASE q = o
    <3>1. Row(r) /\ op'[q].list[r] = NewEntry(r)
      BY <1>2, <1>3, <2>1
    <3>2. PICK e : e = NewEntry(r)
      OBVIOUS
    <3>3. Aged(e, r)
      BY <1>1, <3>1, <3>2, UpsertAged
    <3>4. Aged(e, r)'
      BY <1>1, <3>3 DEF Aged, Row, Content
    <3> QED BY <3>1, <3>2, <3>4 DEF Aged
  <2> QED BY <1>2, <2>1
<1>4. \A q \in Ops : op'[q].hits \subseteq op[q].hits \cup Hits
  BY <1>2
<1>5. \A r \in Refs : RowGrows(r)
  BY <1>1, StoreStays
<1> QED BY <1>1, <1>3, <1>4, <1>5, AgeKept

(* A search takes hits of the index as it is; a swap gives it the old one.   *)
LEMMA HitsAge ==
  ASSUME Types, Types', Age, UNCHANGED <<store, puts>>,
         \A q \in Ops : op'[q].hits \subseteq op[q].hits \cup Hits,
         \A q \in Ops : op'[q].list \in {op[q].list, Empty},
         \A r \in Refs : entries'[r] # None => entries'[r] = entries[r] \/ Aged(entries[r], r)'
  PROVE  Age'
<1>1. \A q \in Ops : \A r \in Refs : op'[q].list[r] # None => op'[q].list[r] = op[q].list[r]
  BY DEF Empty
<1>2. (\A r \in Refs : RowGrows(r)) /\ puts <= puts'
  BY StoreStays DEF Types
<1> QED BY <1>1, <1>2, AgeKept

LEMMA SwapAge ==
  ASSUME IInv, Age, Types', NEW o \in Ops, Swap(o) PROVE Age'
<1>1. op \in [Ops -> Calls] /\ Types /\ UNCHANGED <<store, puts>> /\ entries' = op[o].list
  BY DEF Swap, IInv, Types
<1>2. ASSUME NEW q \in Ops
      PROVE  op'[q].hits \subseteq op[q].hits \cup Hits /\ op'[q].list \in {op[q].list, Empty}
  <2>1. CASE q = o
    BY <2>1 DEF Swap, Idle
  <2>2. CASE q # o /\ op[q].at = "query"
    <3>1. op'[q] = [op[q] EXCEPT !.at = "look", !.hits = Hits] /\ op[q] \in Calls
      BY <1>1, <2>2 DEF Swap
    <3>2. op'[q].hits = Hits /\ op'[q].list = op[q].list
      BY <3>1 DEF Calls
    <3> QED BY <3>2
  <2>3. CASE q # o /\ op[q].at # "query"
    BY <2>3 DEF Swap
  <2> QED BY <2>1, <2>2, <2>3
<1>3. ASSUME NEW r \in Refs, entries'[r] # None PROVE Aged(entries[r], r)'
  <2>1. PICK e : e = op[o].list[r]
    OBVIOUS
  <2>2. Aged(e, r)
    BY <1>1, <1>3, <2>1 DEF Age, CallsAged
  <2>3. Aged(e, r)'
    BY <1>1, <2>2 DEF Aged, Row, Content
  <2> QED BY <1>1, <2>1, <2>3 DEF Aged
<1> QED BY <1>1, <1>2, <1>3, HitsAge

LEMMA QueryLookAge ==
  ASSUME IInv, Age, Types', NEW o \in Ops, Query(o) \/ Look(o) PROVE Age'
<1>1. op \in [Ops -> Calls] /\ Types /\ UNCHANGED <<store, puts, entries>>
  BY DEF Query, Look, IInv, Types, index
<1>2. ASSUME NEW q \in Ops
      PROVE  op'[q].hits \subseteq op[q].hits \cup Hits /\ op'[q].list \in {op[q].list, Empty}
  <2>1. CASE CallsQuiet
    BY <2>1 DEF CallsQuiet
  <2>2. CASE op' = [op EXCEPT ![o].at = "look", ![o].hits = Hits]
    <3> DEFINE f == [op EXCEPT ![o].at = "look"]
    <3>1. f[q].hits = op[q].hits /\ f[q].list = op[q].list /\ f \in [Ops -> Calls]
      BY <1>1 DEF Calls, Places
    <3>2. op' = [f EXCEPT ![o].hits = Hits]
      BY <2>2
    <3> HIDE DEF f
    <3>3. op'[q].hits \in {op[q].hits, Hits} /\ op'[q].list = op[q].list
      BY <3>1, <3>2 DEF Calls
    <3> QED BY <3>3
  <2>3. ASSUME NEW h \in op[o].hits, op' = [op EXCEPT ![o].hits = @ \ {h}]
        PROVE  op'[q].hits \subseteq op[q].hits /\ op'[q].list = op[q].list
    BY <1>1, <2>3 DEF Calls
  <2>4. CASE Step(o, "keyword") \/ Done(o)
    BY <1>1, <2>1, <2>4, StepIsQuiet, DoneIsQuiet
  <2> QED BY <2>1, <2>2, <2>3, <2>4 DEF Query, Look, FallBack
<1> QED BY <1>1, <1>2, HitsAge

LEMMA AdvanceAge ==
  ASSUME IInv, Age, Types', NEW o \in Ops, Advance(o) PROVE Age'
<1>1. op \in [Ops -> Calls] /\ Types /\ op[o] \in Calls /\ puts <= puts
  BY DEF IInv, Types
<1>2. CASE /\ Step(o, "lock") \/ Step(o, AfterLock(op[o].kind)) \/ Step(o, "query") \/ Step(o, "mark")
              \/ FallBack(o) \/ Done(o)
           /\ UNCHANGED <<store, puts>>
           /\ \A r \in Refs : entries'[r] # None => entries'[r] = entries[r]
  <2>1. CallsQuiet
    BY <1>1, <1>2, StepIsQuiet, DoneIsQuiet DEF FallBack
  <2>2. \A r \in Refs : RowGrows(r)
    BY <1>1, <1>2, StoreStays
  <2> QED BY <1>1, <1>2, <2>1, <2>2, AgeQuiet
<1>3. CASE Enter(o) \/ Lock(o) \/ TooLate(o) \/ StoreFails(o) \/ ReindexFails(o) \/ Mark(o)
           \/ Pick(o) \/ Keyword(o)
  BY <1>2, <1>3 DEF Enter, Lock, TooLate, StoreFails, ReindexFails, Mark, Pick, Keyword, index
<1>4. CASE Unindex(o)
  <2>1. \A r \in Refs : entries'[r] # None => entries'[r] = entries[r]
    BY <1>4 DEF Unindex, Forget
  <2> QED BY <1>2, <1>4, <2>1 DEF Unindex
<1>5. CASE Source(o) \/ Read(o)
  <2>1. CallsQuiet
    <3>1. CASE op' = [op EXCEPT ![o].at = "read", ![o].ref = <<Global, op[o].ref[2]>>]
      BY <1>1, <3>1 DEF CallsQuiet, Calls
    <3>2. ASSUME NEW v, op' = [op EXCEPT ![o].at = "commit", ![o].now = clock, ![o].victims = v]
          PROVE  CallsQuiet
      BY <1>1, <3>2 DEF CallsQuiet, Calls
    <3>3. CASE Done(o)
      BY <1>1, <3>3, DoneIsQuiet
    <3> QED BY <1>5, <3>1, <3>2, <3>3 DEF Source, Read
  <2>2. UNCHANGED <<store, entries, puts>>
    BY <1>5 DEF Source, Read, index
  <2>3. \A r \in Refs : RowGrows(r)
    BY <1>1, <2>2, StoreStays
  <2> QED BY <1>1, <2>1, <2>2, <2>3, AgeQuiet
<1>6. CASE Remove(o) \/ DeleteExpired(o)
  <2>1. CallsQuiet
    <3>1. ASSUME NEW v, op' = [op EXCEPT ![o].at = "unindex", ![o].victims = v]
          PROVE  CallsQuiet
      BY <1>1, <3>1 DEF CallsQuiet, Calls
    <3>2. CASE DeleteExpired(o)
      <4> SUFFICES ASSUME NEW q \in Ops
                   PROVE  op'[q].hits \in {op[q].hits, {}} /\ op'[q].list \in {op[q].list, Empty}
        BY DEF CallsQuiet
      <4>1. CASE q = o
        BY <3>2, <4>1 DEF DeleteExpired, Idle
      <4>2. CASE q # o
        <5>1. op[q] \in Calls /\ op'[q] \in {op[q], [op[q] EXCEPT !.at = "lock"]}
          BY <1>1, <3>2, <4>2 DEF DeleteExpired
        <5> QED BY <5>1 DEF Calls
      <4> QED BY <4>1, <4>2
    <3> QED BY <1>6, <3>1, <3>2 DEF Remove
  <2>2. UNCHANGED <<entries, puts>>
    BY <1>6 DEF Remove, DeleteExpired, index
  <2>3. PICK S : store' = [r \in Refs |-> IF r \in S THEN None ELSE store[r]]
    BY <1>6 DEF Remove, DeleteExpired
  <2>4. \A r \in Refs : RowGrows(r)
    BY <1>1, <2>2, <2>3, RowsGo
  <2> QED BY <1>1, <2>1, <2>2, <2>4, AgeQuiet
<1>7. CASE Commit(o) \/ PutIndex(o) \/ List(o) \/ Swap(o) \/ Query(o) \/ Look(o)
  BY <1>7, CommitAge, PutIndexAge, ListAge, SwapAge, QueryLookAge
<1> QED BY <1>3, <1>4, <1>5, <1>6, <1>7 DEF Advance

LEMMA NextAge == ASSUME IInv, Age, [Next]_vars PROVE Age'
<1>1. Types' /\ Types /\ op \in [Ops -> Calls] /\ puts <= puts
  BY NextInv DEF IInv, Types
<1>2. CASE \E o \in Ops : Advance(o)
  BY <1>1, <1>2, AdvanceAge
<1>3. ASSUME CallsQuiet, UNCHANGED <<store, puts>>,
             \A r \in Refs : entries'[r] # None => entries'[r] = entries[r]
      PROVE  Age'
  BY <1>1, <1>3, StoreStays, AgeQuiet
<1>4. ASSUME NEW o \in Ops, Begin(o) PROVE Age'
  <2>1. PICK k, r, e : op' = [op EXCEPT ![o] = Call(k, r, e)]
    BY <1>4 DEF Begin
  <2>2. Call(k, r, e).hits = {} /\ Call(k, r, e).list = Empty
    BY DEF Call
  <2>3. CallsQuiet
    BY <1>1, <2>1, <2>2 DEF CallsQuiet
  <2> QED BY <1>3, <1>4, <2>3 DEF Begin, index
<1>5. CASE Crash
  <2>1. CallsQuiet
    BY <1>5 DEF Crash, CallsQuiet, Idle
  <2>2. \A r \in Refs : entries'[r] = None
    BY <1>5 DEF Crash, Empty
  <2> QED BY <1>3, <1>5, <2>1, <2>2 DEF Crash
<1>6. CASE UNCHANGED <<op, store, puts, entries>>
  <2>1. CallsQuiet
    BY <1>6 DEF CallsQuiet
  <2> QED BY <1>3, <1>6, <2>1
<1>7. CASE Close \/ WorkerEnds \/ CloseStore \/ Tick \/ UNCHANGED vars
  BY <1>6, <1>7 DEF Close, WorkerEnds, CloseStore, Tick, index, vars
<1> QED BY <1>2, <1>4, <1>5, <1>7 DEF Next

LEMMA InitAge == ASSUME Init PROVE Age
<1>1. (\A r \in Refs : ~Row(r)) /\ \A r \in Refs : entries[r] = None
  BY DEF Init, Row, Empty
<1>2. \A o \in Ops : op[o].hits = {} /\ op[o].list = Empty
  BY DEF Init, Idle
<1> QED BY <1>1, <1>2 DEF Age, RowsAged, EntriesAged, CallsAged, Empty

(* Rows, index, gates and what every operation has in hand, in every state.  *)
THEOREM Inductive == Spec => [](IInv /\ Age)
<1>1. Init => IInv /\ Age
  BY InitInv, InitAge
<1>2. IInv /\ Age /\ [Next]_vars => IInv' /\ Age'
  BY NextInv, NextAge
<1> QED BY <1>1, <1>2, PTL DEF Spec

(* ---- what it gives ---------------------------------------------------------- *)
(* The agent never has more live items than its quota, and no Put is refused  *)
(* for one: putLocked counts, chooses and commits (CommitPut) under the lock   *)
(* of the agent, the expiry worker waits outside, and the order of eviction is *)
(* total, so exactly as many victims are taken as are needed.                *)
THEOREM QuotaStays == Spec => []QuotaKept
<1>1. IInv => QuotaKept
  BY DEF IInv
<1> QED BY <1>1, Inductive, PTL

(* A ready index has the current vector of every live item no Put is about    *)
(* to embed (putIndex, Unindex, Reindex and its swap), and a search finds it   *)
(* unless the key was written again since it was first indexed; within one    *)
(* life of a key nothing is returned by the vector of another content.       *)
THEOREM IndexStaysHonest == Spec => []IndexHonest
<1>1. IInv => IndexHonest
  <2> SUFFICES ASSUME IInv PROVE IndexHonest
    OBVIOUS
  <2>1. puts \in Nat /\ puts + Cardinality(Writers) <= MaxPuts /\ Cardinality(Writers) \in Nat
    <3>1. Writers \in SUBSET Ops
      BY DEF Writers
    <3> QED BY <3>1, MemoryAssumption, FS_Subset, FS_CardinalityType DEF IInv,
       Types, Counted
  <2>2. puts \in 0..MaxPuts
    BY <2>1, MemoryAssumption
  <2>3. DOMAIN store = Refs /\ DOMAIN entries = Refs /\ DOMAIN op = Ops
    BY DEF IInv, Types
  <2>4. clock \in 0..MaxClock /\ status \in {"none", "ready", "degraded"}
    BY DEF IInv, Types
  <2>5. {closing, worker, open, quota, stale} \subseteq BOOLEAN
    BY Zenon DEF IInv, Types
  <2>6. ReadyCovers
    <3>1. \A r \in Refs : Fresh(r) => Found(r) \/ Rewritten(r)
      BY DEF Fresh, Found, Rewritten, Content
    <3> QED BY <3>1 DEF IInv, Covers, ReadyCovers, IndexStatus, Live
  <2> QED BY <2>2, <2>3, <2>4, <2>5, <2>6 DEF IInv, IndexHonest, TypeOK
<1> QED BY <1>1, Inductive, PTL

(* The store is closed after the last operation and the worker are gone       *)
(* (Close), and the gates (beginOp, mutationGate, the lock of the agent) never *)
(* leave everybody waiting for somebody else.                                *)
THEOREM GatesStaySound == Spec => []GatesSound
<1>1. IInv => GatesSound
  <2>1. ASSUME \A o \in Ops : op[o].at = "idle" \/ Waiting(o)
        PROVE  \A o \in Ops : op[o].at = "idle"
    <3>1. \A o \in Ops : op[o].at \notin Locked
      BY <2>1 DEF Waiting, Locked
    <3>2. \A o \in Ops : op[o].at # "lock"
      BY <2>1, <3>1 DEF Waiting, NoneHas
    <3>3. Readers = {}
      BY <3>1, <3>2 DEF Readers
    <3>4. \A o \in Ops : op[o].at # "write"
      BY <2>1, <3>3 DEF Waiting, Exclusive
    <3>5. \A o \in Ops : op[o].at # "gate"
      BY <2>1, <3>4 DEF Waiting, NoneHas
    <3> QED BY <2>1, <3>2, <3>4, <3>5 DEF Waiting
  <2>2. IInv => ClosedAfterUse
    BY DEF IInv, Sealed, ClosedAfterUse
  <2> QED BY <2>1, <2>2 DEF GatesSound, GatesDrain
<1> QED BY <1>1, Inductive, PTL
=============================================================================
