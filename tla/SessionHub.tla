----------------------------- MODULE SessionHub -----------------------------
(* The event bus of one session (internal/session/hub.go).  Goroutines       *)
(* publish events, close the hub or unsubscribe a subscriber; a subscriber   *)
(* reads its own bounded queue.  What is decided under h.mu is one action;   *)
(* the channels are closed after the lock is released, so every close is an  *)
(* action of its own that any other goroutine may overtake.                  *)
(* Events are the numbers of the order in which the hub accepted them; End   *)
(* stands for the SessionEndEvent that Close delivers last.                  *)
EXTENDS Integers, Sequences

CONSTANTS Procs,        \* goroutines that publish, close or unsubscribe
          Subs,         \* subscribers
          NoSub,        \* no subscriber
          BufSize,      \* hubBufSize
          MaxPublish    \* bound: events accepted by the hub

ASSUME HubAssumption == /\ BufSize \in Nat \ {0}
                        /\ MaxPublish \in Nat
                        /\ NoSub \notin Subs

End == 0

VARIABLES
  subs,       \* h.subs
  hubClosed,  \* h.closed
  published,  \* number of events accepted so far
  queue,      \* queue[s]: what is buffered in s.events
  seen,       \* seen[s]: what the subscriber has received
  from,       \* from[s]: value of published when s subscribed
  events,     \* events[s]: state of the channel s.events
  done,       \* done[s]: state of the channel s.done
  mode,       \* mode[p]: what goroutine p does
  work,       \* work[p]: subscribers p removed under h.mu and has yet to close
  cur,        \* cur[p]: the one of them whose events p closed, done not yet
  panicked    \* a closed channel was closed again or sent to

hubVars == <<subs, hubClosed, published, queue, seen, from, events, done,
          mode, work, cur, panicked>>

ChanStates == {"none", "open", "closed"}   \* "none": not made yet
Modes == {"idle",     \* outside the hub
          "end",      \* Close(reason) after the lock: sends the last event
          "close"}    \* Publish (overflowed subscribers), Close(nil) or
                      \* Unsubscribe after the lock

HubInit ==
  /\ subs = {} /\ hubClosed = FALSE /\ published = 0
  /\ queue = [s \in Subs |-> <<>>] /\ seen = [s \in Subs |-> <<>>]
  /\ from = [s \in Subs |-> 0]
  /\ events = [s \in Subs |-> "none"] /\ done = [s \in Subs |-> "none"]
  /\ mode = [p \in Procs |-> "idle"]
  /\ work = [p \in Procs |-> {}] /\ cur = [p \in Procs |-> NoSub]
  /\ panicked = FALSE

(* Subscribe: a fresh subscriber; on a closed hub it is returned closed.     *)
Subscribe(s) ==
  /\ events[s] = "none"
  /\ subs' = IF hubClosed THEN subs ELSE subs \cup {s}
  /\ LET ch == IF hubClosed THEN "closed" ELSE "open" IN
       events' = [events EXCEPT ![s] = ch] /\ done' = [done EXCEPT ![s] = ch]
  /\ from' = [from EXCEPT ![s] = published]
  /\ UNCHANGED <<hubClosed, published, queue, seen, mode, work, cur, panicked>>

Full(s) == Len(queue[s]) >= BufSize
Overflowed == {s \in subs : Full(s)}
SkippedOnly == {}                                              \* mutant
Dropped == Overflowed      \* whom Publish removes from h.subs

(* Publish, under h.mu: queues the event or removes the full subscribers.    *)
Publish(p) ==
  /\ mode[p] = "idle" /\ published < MaxPublish
  /\ ~hubClosed
  /\ published' = published + 1
  /\ queue' = [s \in Subs |-> IF s \in subs \ Overflowed
                                THEN Append(queue[s], published + 1)
                                ELSE queue[s]]
  /\ panicked' = (panicked \/ \E s \in subs \ Overflowed : events[s] = "closed")
  /\ subs' = subs \ Dropped
  /\ mode' = [mode EXCEPT ![p] = IF Dropped = {} THEN "idle" ELSE "close"]
  /\ work' = [work EXCEPT ![p] = Dropped]
  /\ UNCHANGED <<hubClosed, seen, from, events, done, cur>>

(* Close, under h.mu: takes every subscriber; a second Close returns at once *)
StillListed == subs                                            \* mutant
AfterClose == {}                  \* h.subs = nil
NobodyTaken == {}                                              \* mutant
TakenByClose == subs              \* subs := h.subs

CloseHub(p, reason) ==
  /\ mode[p] = "idle" /\ ~hubClosed
  /\ hubClosed' = TRUE
  /\ subs' = AfterClose
  /\ mode' = [mode EXCEPT ![p] = IF TakenByClose = {} THEN "idle"
                                 ELSE IF reason THEN "end" ELSE "close"]
  /\ work' = [work EXCEPT ![p] = TakenByClose]
  /\ UNCHANGED <<published, queue, seen, from, events, done, cur, panicked>>

(* Unsubscribe, under h.mu: removes s if the hub still has it.               *)
Registered(s) == s \in subs

Unsubscribe(p, s) ==
  /\ mode[p] = "idle" /\ Registered(s)
  /\ subs' = subs \ {s}
  /\ mode' = [mode EXCEPT ![p] = "close"]
  /\ work' = [work EXCEPT ![p] = {s}]
  /\ UNCHANGED <<hubClosed, published, queue, seen, from, events, done, cur,
                 panicked>>

(* After the lock: close(s.events), in Close(reason) after a try to send it. *)
CloseEvents(p, s) ==
  /\ s \in work[p] /\ cur[p] = NoSub
  /\ queue' = IF mode[p] = "end" /\ ~Full(s)
                THEN [queue EXCEPT ![s] = Append(@, End)] ELSE queue
  /\ panicked' = (panicked \/ events[s] = "closed")
  /\ events' = [events EXCEPT ![s] = "closed"]
  /\ cur' = [cur EXCEPT ![p] = s]
  /\ UNCHANGED <<subs, hubClosed, published, seen, from, done, mode, work>>

(* close(s.done), and back to the loop over the removed subscribers.         *)
CloseDone(p) ==
  LET s == cur[p] IN
  /\ s # NoSub
  /\ panicked' = (panicked \/ done[s] = "closed")
  /\ done' = [done EXCEPT ![s] = "closed"]
  /\ cur' = [cur EXCEPT ![p] = NoSub]
  /\ work' = [work EXCEPT ![p] = @ \ {s}]
  /\ mode' = [mode EXCEPT ![p] = IF work[p] = {s} THEN "idle" ELSE @]
  /\ UNCHANGED <<subs, hubClosed, published, queue, seen, from, events>>

(* The subscriber reads its channel; what is buffered outlives the close.    *)
Receive(s) ==
  /\ queue[s] # <<>>
  /\ seen' = [seen EXCEPT ![s] = Append(@, Head(queue[s]))]
  /\ queue' = [queue EXCEPT ![s] = Tail(@)]
  /\ UNCHANGED <<subs, hubClosed, published, from, events, done,
                 mode, work, cur, panicked>>

HubNext ==
  \/ \E s \in Subs : Subscribe(s) \/ Receive(s)
  \/ \E p \in Procs :
       \/ Publish(p)
       \/ \E reason \in BOOLEAN : CloseHub(p, reason)
       \/ \E s \in Subs : Unsubscribe(p, s) \/ CloseEvents(p, s)
       \/ CloseDone(p)

(* A goroutine that has left the lock runs on: nothing it does can block.    *)
HubFairness == \A p \in Procs : /\ WF_hubVars(\E s \in Subs : CloseEvents(p, s))
                            /\ WF_hubVars(CloseDone(p))
HubSpec == HubInit /\ [][HubNext]_hubVars
HubFairSpec == HubSpec /\ HubFairness
-----------------------------------------------------------------------------
HubTypeOK ==
  /\ subs \subseteq Subs /\ hubClosed \in BOOLEAN
  /\ published \in 0..MaxPublish
  /\ queue \in [Subs -> Seq(Nat)] /\ \A s \in Subs : Len(queue[s]) <= BufSize
  /\ seen \in [Subs -> Seq(Nat)]
  /\ from \in [Subs -> 0..MaxPublish]
  /\ events \in [Subs -> ChanStates] /\ done \in [Subs -> ChanStates]
  /\ mode \in [Procs -> Modes]
  /\ work \in [Procs -> SUBSET Subs]
  /\ cur \in [Procs -> Subs \cup {NoSub}]
  /\ panicked \in BOOLEAN

(* No interleaving of Publish, Close and Unsubscribe closes a channel twice  *)
(* or sends on a closed one, although every close happens outside h.mu.      *)
NoPanic == ~panicked

Delivered(s) == seen[s] \o queue[s]

(* What a subscriber gets is a run without gaps of the accepted events that  *)
(* starts with the first one after its Subscribe; only End may follow it.    *)
(* While the hub holds the subscriber, the run reaches the last event: a     *)
(* slow subscriber is cut off, it never misses an event in the middle.       *)
NoGaps ==
  \A s \in Subs :
    LET d == Delivered(s)  n == Len(d) IN
      /\ \A i \in 1..n : d[i] = from[s] + i \/ (i = n /\ d[i] = End)
      /\ s \in subs => n = published - from[s] /\ (n > 0 => d[n] # End)

(* A closed hub owns no subscriber: whoever is still open is in the hands of *)
(* a goroutine that will close it, of one only, and done closes last.        *)
OneCloser ==
  \A s \in Subs :
    /\ done[s] = "closed" => events[s] = "closed"
    /\ done[s] = "open" =>
         \/ s \in subs /\ ~hubClosed /\ \A p \in Procs : s \notin work[p]
         \/ s \notin subs /\ \E p \in Procs : s \in work[p] /\
                 \A q \in Procs \ {p} : s \notin work[q]

(* The channels of the subscribers are safe in the hands of the hub, in any   *)
(* interleaving of its operations (hub.go closes them outside h.mu).         *)
ChannelsSafe == HubTypeOK /\ NoPanic /\ OneCloser

(* Whoever the hub lets go of learns it: both channels are closed at last.   *)
EveryoneTold ==
  \A s \in Subs : (s \notin subs /\ done[s] = "open") ~> (done[s] = "closed")
=============================================================================
