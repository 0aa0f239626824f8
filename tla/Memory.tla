------------------------------- MODULE Memory -------------------------------
(* The long-term memory of one agent: Manager of internal/memory/manager.go  *)
(* over a ContentStore (memstore, sqlitestore) and the in-process vector     *)
(* index.  Each operation is a goroutine that passes the life-cycle gate,    *)
(* the mutation gate (an RWMutex: the expiry worker takes it for writing)    *)
(* and the lock of its agent, calls the store and the embedder, and leaves.  *)
(* Searches take no lock but the one around the pointer to the index.        *)
(*                                                                           *)
(* The content of an item, and its vector, are known by the life of the row  *)
(* (which time the key was made) and the version within it.                  *)
EXTENDS Integers, Sequences, FiniteSets

CONSTANTS Ops,        \* operations that can be in flight at a time
          Worker,     \* the expiry worker, one of them
          Keys, Sessions,
          MaxItems,   \* policy.MaxItems
          Eviction,   \* policy.EvictionPolicy: "fifo" or "ttl"
          Fallback,   \* policy.Vector.FallbackToKeyword
          Issues,     \* bound: the operations each of Ops may be
          MaxClock, MaxPuts   \* bounds

Global == 0                              \* the empty SessionID
ASSUME MemoryAssumption ==
  /\ Worker \in Ops /\ DOMAIN Issues = Ops
  /\ Issues[Worker] = {"expire"}
  /\ \A o \in Ops \ {Worker} : Issues[o] \subseteq
       {"put", "promote", "delete", "clear", "reindex", "search"}
  /\ Keys \subseteq Nat /\ Keys # {} /\ Sessions \subseteq Nat \ {Global}
  /\ MaxItems \in Nat \ {0}              \* validateMemoryPolicy
  /\ Eviction \in {"fifo", "ttl"} /\ Fallback \in BOOLEAN
  /\ IsFiniteSet(Ops) /\ MaxClock \in Nat /\ MaxPuts \in Nat

(* The full primary key of an item of this agent, in the order of ties.      *)
Refs == ({Global} \cup Sessions) \X Keys
Earlier(a, b) == a[1] < b[1] \/ (a[1] = b[1] /\ a[2] < b[2])
AnyRef == CHOOSE r \in Refs : TRUE

VARIABLES
  clock,     \* Clock
  store,     \* the rows
  entries,   \* agentIndexState.index
  status,    \* agentIndexState.status, "none" before there is such a state
  op,        \* the operations in flight
  closing, worker, open,   \* closing, the worker runs, the store is open
  puts,      \* commits so far
  quota,     \* some Put was refused with ErrMemoryQuota
  stale      \* a vector search has returned a row by an entry of another version

vars == <<clock, store, entries, status, op, closing, worker, open, puts,
          quota, stale>>
index == <<entries, status>>
life == <<closing, worker, open>>
seen == <<quota, stale>>

None == [ver |-> 0]
Never == 0                               \* ExpiresAt nil or zero
Empty == [r \in Refs |-> None]
Idle == [at |-> "idle", kind |-> "none", ref |-> AnyRef, exp |-> Never, now |-> 0,
         victims |-> {}, list |-> Empty, hits |-> {}]

Init ==
  /\ clock = 0 /\ store = Empty
  /\ entries = Empty /\ status = "none"
  /\ op = [o \in Ops |-> Idle]
  /\ closing = FALSE /\ worker = TRUE /\ open = TRUE /\ puts = 0
  /\ quota = FALSE /\ stale = FALSE

Row(r) == store[r] # None
LiveAt(r, now) == Row(r) /\ (store[r].exp = Never \/ store[r].exp > now)
Live(now) == {r \in Refs : LiveAt(r, now)}

(* ---- gates -------------------------------------------------------------- *)
Step(o, at) == op' = [op EXCEPT ![o].at = at]
Done(o) == op' = [op EXCEPT ![o] = Idle]
Locked == {"source", "read", "commit", "embed", "remove", "unindex", "list", "swap"}
Readers == {o \in Ops : op[o].at \in Locked \cup {"lock"}}
NoneHas(p) == \A o \in Ops : op[o].at \notin p

Mutators == {"put", "promote", "delete", "clear", "reindex"}

(* beginOp, with the validation of the arguments.  A deadline (DefaultTTL or *)
(* the caller's) is one tick ahead, or there is none.                        *)
Admits == ~closing
Writes(o) == op[o].kind \in {"put", "promote"}
          /\ op[o].at \in {"gate", "lock", "source", "read", "commit"}
Entrance(k) == CASE k \in Mutators -> "gate" [] k = "search" -> "pick" [] k = "expire" -> "write"
Call(k, r, e) ==
  [at |-> Entrance(k), kind |-> k, ref |-> r, exp |-> e,
   now |-> IF k \in {"expire", "reindex"} THEN clock ELSE 0,
   victims |-> {}, list |-> Empty, hits |-> {}]
Begin(o) ==
  /\ op[o].at = "idle" /\ Admits
  /\ \E k \in Issues[o], r \in Refs, e \in {Never, clock + 1} :
       /\ k = "promote" => r[1] # Global
       /\ k \in {"put", "promote"} => puts + Cardinality({q \in Ops : Writes(q)}) < MaxPuts
       /\ k \notin {"put", "promote"} => e = Never
       /\ k \in {"search", "expire", "reindex"} => r = AnyRef
       /\ o = Worker => worker
       /\ op' = [op EXCEPT ![o] = Call(k, r, e)]
  /\ UNCHANGED <<clock, store, index, life, puts, seen>>

(* mutationGate.RLock: a writer that waits keeps new readers out.            *)
Enter(o) ==
  /\ op[o].at = "gate" /\ NoneHas({"write"}) /\ Step(o, "lock")
  /\ UNCHANGED <<clock, store, index, life, puts, seen>>
AfterLock(k) ==
  CASE k = "put" -> "read" [] k = "promote" -> "source" [] k \in {"delete", "clear"} -> "remove"
    [] k = "reindex" -> "list"
Lock(o) ==
  /\ op[o].at = "lock" /\ NoneHas(Locked) /\ Step(o, AfterLock(op[o].kind))
  /\ UNCHANGED <<clock, store, index, life, puts, seen>>

(* The store, or the context of the operation, fails: nothing has changed.   *)
StoreFails(o) ==
  /\ op[o].at \in {"source", "read", "commit", "remove", "keyword"} /\ Done(o)
  /\ UNCHANGED <<clock, store, index, life, puts, seen>>

(* ---- Put and Promote ---------------------------------------------------- *)
(* Promote: the source must be alive; its content goes to the key without the   *)
(* session, with a deadline of its own.                                      *)
Source(o) ==
  /\ op[o].at = "source"
  /\ IF LiveAt(op[o].ref, clock)
       THEN op' = [op EXCEPT ![o].at = "read",
                             ![o].ref = <<Global, op[o].ref[2]>>]
       ELSE Done(o)
  /\ UNCHANGED <<clock, store, index, life, puts, seen>>

(* putLocked: the count of unexpired items decides how many have to go; a    *)
(* row that has expired counts as new.                                       *)
EvictFirst(a, b) ==
  LET x == store[a]  y == store[b]
      fifo == x.born < y.born \/ (x.born = y.born /\ Earlier(a, b))
  IN IF Eviction = "ttl" /\ x.exp # y.exp
       THEN y.exp = Never \/ (x.exp # Never /\ x.exp < y.exp)
       ELSE fifo
FirstOf(n, rs) == {r \in rs : Cardinality({q \in rs : EvictFirst(q, r)}) < n}
RowCount(r, now) == IF Row(r) THEN 0 ELSE 1                        \* mutant
Delta(r, now) == IF LiveAt(r, now) THEN 0 ELSE 1
VictimCount(r, now) == Cardinality(Live(now)) + Delta(r, now) - MaxItems

Read(o) ==
  /\ op[o].at = "read" /\ (op[o].exp = Never \/ op[o].exp > clock)
  /\ LET needed == VictimCount(op[o].ref, clock)
         others == Live(clock) \ {op[o].ref} IN
       IF needed > Cardinality(others)
         THEN quota' = TRUE /\ Done(o)
         ELSE /\ op' = [op EXCEPT ![o].at = "commit", ![o].now = clock,
                                  ![o].victims = FirstOf(needed, others)]
              /\ UNCHANGED quota
  /\ UNCHANGED <<clock, store, index, life, puts, stale>>
(* normalizeExpiresAt: a deadline that has passed in the meantime.           *)
TooLate(o) ==
  /\ op[o].at = "read" /\ op[o].exp # Never /\ op[o].exp <= clock /\ Done(o)
  /\ UNCHANGED <<clock, store, index, life, puts, seen>>

(* CommitPut, one transaction: every victim is still there, or the Put is    *)
(* refused; a row keeps its birth and gets the next version.                 *)
Written(p) ==
  LET old == store[p.ref] IN
    IF Row(p.ref) THEN [old EXCEPT !.ver = @ + 1, !.exp = p.exp]
    ELSE [ver |-> 1, exp |-> p.exp, born |-> p.now, life |-> puts + 1]
Commit(o) ==
  /\ op[o].at = "commit"
  /\ LET p == op[o] IN
       IF \E v \in p.victims : ~Row(v)
         THEN quota' = TRUE /\ Done(o) /\ UNCHANGED <<store, puts>>
         ELSE /\ store' = [r \in Refs |-> IF r = p.ref THEN Written(p)
                                         ELSE IF r \in p.victims THEN None ELSE store[r]]
              /\ puts' = puts + 1 /\ Step(o, "embed") /\ UNCHANGED quota
  /\ UNCHANGED <<clock, index, life, stale>>

(* getOrCreateIndexState: the state begins degraded, with an empty index.     *)
GetOrCreate == status' = IF status = "none" THEN "degraded" ELSE status

(* putIndex.  An error of the embedder, a vector of the wrong size or of     *)
(* zeroes, or a failed Upsert leaves the content and marks the index.  An    *)
(* Upsert of a key that is there replaces the vector and keeps the ref, with *)
(* the Version it came with, for sameRef does not look at the Version.        *)
Forget(rs) == entries' = [r \in Refs |-> IF r \in rs THEN None ELSE entries[r]]
Degrade == status' = "degraded"
PutKept == UNCHANGED status                                       \* mutant
PutFailed == Degrade
Content(r) == [ver |-> store[r].ver, life |-> store[r].life]
NewEntry(r) == [first |-> Content(r), vec |-> Content(r)]
Upsert(r) == IF entries[r] = None THEN NewEntry(r)
             ELSE [entries[r] EXCEPT !.vec = Content(r)]
PutIndex(o) ==
  /\ op[o].at = "embed" /\ Done(o)
  /\ \/ /\ entries' = [r \in Refs |-> IF r = op[o].ref THEN Upsert(r)
                                    ELSE IF r \in op[o].victims THEN None ELSE entries[r]]
        /\ GetOrCreate
     \/ PutFailed /\ UNCHANGED entries
  /\ UNCHANGED <<clock, store, life, puts, seen>>

(* ---- Delete, Clear, DeleteExpired --------------------------------------- *)
(* Clear without a session takes all; the index is told after the store.  A  *)
(* Delete that finds no row returns at once, as when the store fails.         *)
Scopes(o) == IF op[o].kind = "delete" THEN {{op[o].ref}} ELSE {Refs} \cup {{s} \X Keys : s \in Sessions}
Remove(o) ==
  /\ op[o].at = "remove" /\ (op[o].kind = "delete" => Row(op[o].ref))
  /\ \E s \in Scopes(o) :
       /\ store' = [r \in Refs |-> IF r \in s THEN None ELSE store[r]]
       /\ op' = [op EXCEPT ![o].at = "unindex", ![o].victims = {r \in s : Row(r)}]
  /\ UNCHANGED <<clock, index, life, puts, seen>>
Unindex(o) ==
  /\ op[o].at = "unindex" /\ Forget(op[o].victims) /\ GetOrCreate /\ Done(o)
  /\ UNCHANGED <<clock, store, life, puts, seen>>

(* The worker alone has the gate, takes no agent lock, and deletes a batch   *)
(* of expired rows.  It does not touch the index.  Its Unlock lets in the    *)
(* readers that have queued up.                                              *)
LetsPass == Readers = {} /\ NoneHas({"gate"})                     \* mutant
Exclusive == Readers = {}
DeleteExpired(o) ==
  /\ op[o].at = "write" /\ Exclusive
  /\ \E batch \in SUBSET {r \in Refs : Row(r) /\ ~LiveAt(r, op[o].now)} :
       store' = [r \in Refs |-> IF r \in batch THEN None ELSE store[r]]
  /\ op' = [q \in Ops |-> IF q = o THEN Idle ELSE IF op[q].at = "gate"
                                              THEN [op[q] EXCEPT !.at = "lock"] ELSE op[q]]
  /\ UNCHANGED <<clock, index, life, puts, seen>>

(* ---- Reindex ------------------------------------------------------------ *)
(* A list of what was alive when it began, a vector for each, a new index,   *)
(* and a swap.  A failure keeps the old index and marks it.                  *)
List(o) ==
  /\ op[o].at = "list"
  /\ op' = [op EXCEPT ![o].at = "swap", ![o].list =
       [r \in Refs |-> IF LiveAt(r, op[o].now) THEN NewEntry(r) ELSE None]]
  /\ UNCHANGED <<clock, store, index, life, puts, seen>>
ReindexFails(o) ==
  /\ op[o].at \in {"list", "swap"} /\ Degrade /\ Done(o)
  /\ UNCHANGED <<clock, store, entries, life, puts, seen>>
Hits == {[ref |-> r, e |-> entries[r]] : r \in {q \in Refs : entries[q] # None}}
(* A search that has picked the old index still searches that one, as it is  *)
(* now, for nobody writes it any more.                                       *)
Swap(o) ==
  /\ op[o].at = "swap"
  /\ entries' = op[o].list /\ status' = "ready"
  /\ op' = [q \in Ops |-> IF q = o THEN Idle ELSE IF op[q].at = "query"
                     THEN [op[q] EXCEPT !.at = "look", !.hits = Hits] ELSE op[q]]
  /\ UNCHANGED <<clock, store, life, puts, seen>>

(* ---- Search ------------------------------------------------------------- *)
(* The pointer and its status; the embedder; the hits of that index, which a *)
(* Put changes meanwhile; then the store again for every hit.                *)
FallBack(o) == IF Fallback THEN Step(o, "keyword") ELSE Done(o)
Pick(o) ==
  /\ op[o].at = "pick"
  /\ \/ status = "ready" /\ Step(o, "query")
     \/ status # "ready" /\ FallBack(o)
  /\ GetOrCreate
  /\ UNCHANGED <<clock, store, entries, life, puts, seen>>
Query(o) ==
  /\ op[o].at = "query"
  /\ \/ op' = [op EXCEPT ![o].at = "look", ![o].hits = Hits]
     \/ FallBack(o)
  /\ UNCHANGED <<clock, store, index, life, puts, seen>>
Unchecked(h) == LiveAt(h.ref, clock)                              \* mutant
Returned(h) == LiveAt(h.ref, clock) /\ store[h.ref].ver = h.e.first.ver
SameLife(h) == h.e.first.life = store[h.ref].life
Look(o) ==
  /\ op[o].at = "look"
  /\ \/ \E h \in op[o].hits :
          /\ op' = [op EXCEPT ![o].hits = @ \ {h}]
          /\ stale' = (stale \/ (Returned(h) /\ SameLife(h) /\ h.e.vec # Content(h.ref)))
          /\ UNCHANGED quota
     \/ op[o].hits = {} /\ Done(o) /\ UNCHANGED seen
  /\ UNCHANGED <<clock, store, index, life, puts>>
(* keywordSearch, after which the index is marked, whatever it is by then.   *)
Keyword(o) ==
  /\ op[o].at = "keyword" /\ Step(o, "mark")
  /\ UNCHANGED <<clock, store, index, life, puts, seen>>
Mark(o) ==
  /\ op[o].at = "mark" /\ Degrade /\ Done(o)
  /\ UNCHANGED <<clock, store, entries, life, puts, seen>>

(* ---- Close -------------------------------------------------------------- *)
Close ==
  /\ ~closing /\ closing' = TRUE
  /\ UNCHANGED <<clock, store, index, op, worker, open, puts, seen>>
WorkerEnds ==
  /\ closing /\ worker /\ op[Worker].at = "idle" /\ worker' = FALSE
  /\ UNCHANGED <<clock, store, index, op, closing, open, puts, seen>>
Drained == ~worker /\ \A o \in Ops : op[o].at = "idle"
CloseStore ==
  /\ closing /\ Drained /\ open /\ open' = FALSE
  /\ UNCHANGED <<clock, store, index, op, closing, worker, puts, seen>>

Tick ==
  /\ clock < MaxClock /\ clock' = clock + 1
  /\ UNCHANGED <<store, index, op, life, puts, seen>>
(* The process dies and is started again over the same SQLite file: rows     *)
(* stay, and of the index there is nothing.  (Runtime.Start reindexes before  *)
(* it lets anybody in: then this is what the first operation finds.)          *)
Crash ==
  /\ entries' = Empty /\ status' = "none" /\ op' = [o \in Ops |-> Idle]
  /\ closing' = FALSE /\ worker' = TRUE /\ open' = TRUE
  /\ UNCHANGED <<clock, store, puts, quota, stale>>

Advance(o) ==
  \/ Enter(o) \/ Lock(o) \/ Source(o) \/ Read(o) \/ TooLate(o) \/ Commit(o) \/ PutIndex(o)
  \/ Remove(o) \/ Unindex(o) \/ DeleteExpired(o) \/ List(o) \/ ReindexFails(o)
  \/ Swap(o) \/ Pick(o) \/ Query(o) \/ Look(o) \/ Keyword(o) \/ Mark(o) \/ StoreFails(o)
Next ==
  \/ \E o \in Ops : Begin(o) \/ Advance(o)
  \/ Close \/ WorkerEnds \/ CloseStore \/ Tick \/ Crash
Spec == Init /\ [][Next]_vars
(* ---- properties --------------------------------------------------------- *)
TypeOK ==
  /\ clock \in 0..MaxClock /\ puts \in 0..MaxPuts
  /\ status \in {"none", "ready", "degraded"} /\ {closing, worker, open, quota, stale} \subseteq BOOLEAN
  /\ DOMAIN store = Refs /\ DOMAIN entries = Refs /\ DOMAIN op = Ops

(* IndexStatus: an agent without an index state is said to be ready, though  *)
(* a vector search makes a state for it that is degraded.                    *)
IndexStatus == IF status = "none" THEN "ready" ELSE status

(* An index that is ready has the current vector of every item that is alive, *)
(* but for the one a Put is about to embed: no failure of the embedder, of   *)
(* Reindex or of the context leaves a silent hole.  There are two exceptions. *)
(* IndexStatus also says ready when there is no index at all.  And a search   *)
(* drops the hit on an item whose key was written again since the index first *)
(* had it, until the next Reindex: the entry has the new vector, and the      *)
(* version that is compared is the old one.                                  *)
InHand(r) == \E o \in Ops : op[o].ref = r /\ op[o].at = "embed"
Fresh(r) == entries[r] # None /\ entries[r].vec = Content(r)
Found(r) == entries[r].first.ver = store[r].ver
Rewritten(r) == entries[r].first # entries[r].vec
ReadyCovers ==
  IndexStatus = "ready" =>
    \/ status = "none"
    \/ \A r \in Live(clock) : InHand(r) \/ (Fresh(r) /\ (Found(r) \/ Rewritten(r)))

(* The agent never has more live items than its quota, and eviction always   *)
(* finds its victims: between the count, the choice and the commit neither   *)
(* another writer nor the worker changes a row, and an expired row that is   *)
(* written again counts as a new one.                                        *)
QuotaKept == Cardinality(Live(clock)) <= MaxItems /\ ~quota

(* The store is closed after the last operation and the worker have left it. *)
ClosedAfterUse == ~open => \A o \in Ops : op[o].at = "idle"

(* A vector search returns no item by the vector of another content, unless  *)
(* the row was deleted and made again since the index first had the key, when *)
(* versions start over.                                                      *)
HitsMatch == ~stale

(* The gates let somebody through whenever there is somebody: the worker     *)
(* waits for those inside, those at the gate for the worker, those inside    *)
(* for the lock of the agent, and never in a circle; Promote, which is a     *)
(* Put under the locks it has, does not wait for itself.                     *)
Waiting(o) ==
  \/ op[o].at = "gate" /\ ~NoneHas({"write"})
  \/ op[o].at = "lock" /\ ~NoneHas(Locked)
  \/ op[o].at = "write" /\ ~Exclusive
GatesDrain == (\A o \in Ops : op[o].at = "idle" \/ Waiting(o)) => \A o \in Ops : op[o].at = "idle"

(* What the index says of itself and what a search by it returns is right.   *)
IndexHonest == TypeOK /\ ReadyCovers /\ HitsMatch

(* The gates let operations through, and the store is closed behind the last.*)
GatesSound == ClosedAfterUse /\ GatesDrain
=============================================================================
