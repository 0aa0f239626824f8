---------------------------- MODULE ProviderCall ----------------------------
(* internal/provider: one logical call of retryingProvider, the owner of the  *)
(* total deadline and of the retries, over an adapter that reads one HTTP     *)
(* response.  StreamChat runs two goroutines: the adapter's streamLoop sends  *)
(* what it reads to inch, the retrying goroutine moves it on to out.          *)
(*                                                                           *)
(* The model answers an attempt with a reply [text, calls]; on the wire it is *)
(* Fragments(reply): the text in two pieces, and two pieces for each call,    *)
(* the second of which completes its arguments.                               *)
EXTENDS Naturals, Sequences

CONSTANTS
  Replies,     \* what a model may answer
  MaxRetries,  \* ProviderConfig.max_retries
  ChanCap,     \* capacity of inch and out (16 in the code)
  MaxSkips     \* bound: lines of a response that do not parse

Wires == {"none"} \cup UNION {{r.calls[i].wire : i \in DOMAIN r.calls} : r \in Replies}
ASSUME ProviderAssumption ==
  /\ MaxRetries \in Nat /\ ChanCap \in Nat \ {0} /\ MaxSkips \in Nat
  /\ Replies \subseteq [text : BOOLEAN, calls : Seq([id : Nat, wire : Wires])]

VARIABLES
  parent,    \* the caller's context is done
  deadline,  \* the total timeout of this call has passed
  caller,    \* "off", "chat", "reading", "failed", "replied": the Agent's side
  relay,     \* the retrying goroutine: "off", "attempt", "sleep", "read",
             \* "forward", "drain" (then end), "again" (drain, then sleep)
  attempt,
  adapter,   \* "off", "on": the adapter's goroutine
  reply,     \* what the model answers to this attempt
  sent,      \* how many fragments of it have arrived
  read,      \* history: those of them the adapter could read
  inch, out, \* the channels, without their closing
  held,      \* the chunk the relay took from inch
  seenFirst, \* something of this attempt was passed on
  got        \* what the caller has received: fragments with their attempt

relayVars == <<relay, attempt, held, seenFirst>>
wireVars == <<adapter, reply, sent, read, inch>>
callVars == <<deadline, caller, relayVars, wireVars, out, got>>

Chunk(kind) == [kind |-> kind, call |-> [id |-> 0, wire |-> "none"]]
Retryable == Chunk("retryable")
Fatal == Chunk("fatal")
NoChunk == Chunk("none")
Errors == {Retryable, Fatal}
Fragments(r) ==
  (IF r.text THEN <<Chunk("text"), Chunk("text")>> ELSE <<>>)
    \o [i \in 1..2 * Len(r.calls) |->
          [kind |-> IF i % 2 = 1 THEN "open" ELSE "rest", call |-> r.calls[(i + 1) \div 2]]]

NoReply == [text |-> FALSE, calls |-> <<>>]
Tagged(c) == [kind |-> c.kind, call |-> c.call, try |-> attempt]

NoTimeout == parent                                              \* mutant
done == parent \/ deadline                                   \* callCtx.Err() # nil
MayRetry(c) == c = Retryable /\ ~done /\ attempt < MaxRetries

CallInit ==
  /\ parent = FALSE /\ deadline = FALSE /\ caller = "off" /\ relay = "off" /\ attempt = 0
  /\ adapter = "off" /\ reply = NoReply /\ sent = 0 /\ read = <<>> /\ inch = <<>>
  /\ out = <<>>
  /\ held = NoChunk /\ seenFirst = FALSE /\ got = <<>>

(* A new call: the deadline starts, and covers every attempt.                *)
Call(streaming) ==
  /\ deadline' = FALSE /\ attempt' = 0 /\ got' = <<>> /\ out' = <<>>
  /\ caller' = IF streaming THEN "reading" ELSE "chat"
  /\ relay' = IF streaming THEN "attempt" ELSE "off"
  /\ reply' = NoReply /\ read' = <<>> /\ seenFirst' = FALSE
  /\ UNCHANGED <<parent, adapter, sent, inch, held>>

(***************************************************************************)
(* Chat: the response comes in one piece, or not at all.                    *)
(***************************************************************************)
ChatReply(r) ==
  /\ caller = "chat" /\ ~done
  /\ caller' = "replied" /\ reply' = r /\ read' = Fragments(r)
  /\ got' = [i \in DOMAIN Fragments(r) |-> Tagged(Fragments(r)[i])]
  /\ UNCHANGED <<parent, deadline, relayVars, adapter, sent, inch, out>>
ChatRetry ==
  /\ caller = "chat" /\ MayRetry(Retryable)
  /\ attempt' = attempt + 1
  /\ UNCHANGED <<parent, deadline, caller, relay, held, seenFirst, wireVars, out, got>>
ChatFails ==
  /\ caller = "chat"
  /\ caller' = "failed"
  /\ UNCHANGED <<parent, deadline, relayVars, wireVars, out, got>>

(***************************************************************************)
(* The adapter.  It takes the body for what can be read of it: a data line   *)
(* that does not parse is passed over, and wherever the body ends the reply  *)
(* ends; nothing looks for a finish reason.                                  *)
(***************************************************************************)
AdapterSends ==
  /\ adapter = "on" /\ sent < Len(Fragments(reply)) /\ Len(inch) < ChanCap
  /\ LET c == Fragments(reply)[sent + 1] IN inch' = Append(inch, c) /\ read' = Append(read, c)
  /\ sent' = sent + 1
  /\ UNCHANGED <<parent, deadline, caller, relayVars, adapter, reply, out, got>>
AdapterSkips ==
  /\ adapter = "on" /\ sent < Len(Fragments(reply)) /\ sent - Len(read) < MaxSkips
  /\ sent' = sent + 1
  /\ UNCHANGED <<parent, deadline, caller, relayVars, adapter, reply, read, inch, out, got>>
AdapterReadError ==
  /\ adapter = "on" /\ ~done /\ Len(inch) < ChanCap
  /\ inch' = Append(inch, Retryable) /\ adapter' = "off"
  /\ UNCHANGED <<parent, deadline, caller, relayVars, reply, sent, read, out, got>>
(* [DONE], a cancelled context, or the end of the body: the channel closes.   *)
AdapterEnds ==
  /\ adapter = "on" /\ adapter' = "off"
  /\ UNCHANGED <<parent, deadline, caller, relayVars, reply, sent, read, inch, out, got>>

(***************************************************************************)
(* The retrying goroutine.                                                  *)
(***************************************************************************)
Goto(st) == relay' = st
Fail == held' = Fatal /\ Goto("forward")     \* an error is on its way to out
Nothing == <<parent, deadline, caller, got>>

(* inner.StreamChat: the response begins, or an error that may be retried.    *)
Opens(r) ==
  /\ relay = "attempt" /\ ~done
  /\ adapter' = "on" /\ reply' = r /\ sent' = 0 /\ read' = <<>> /\ inch' = <<>>
  /\ seenFirst' = FALSE /\ Goto("read")
  /\ UNCHANGED <<Nothing, attempt, held, out>>
OpenRetried ==
  /\ relay = "attempt" /\ MayRetry(Retryable)
  /\ Goto("sleep")
  /\ UNCHANGED <<Nothing, attempt, held, seenFirst, wireVars, out>>
OpenFails ==
  /\ relay = "attempt"
  /\ Fail
  /\ UNCHANGED <<Nothing, attempt, seenFirst, wireVars, out>>

Wake ==
  /\ relay = "sleep"
  /\ \/ done /\ Fail /\ UNCHANGED attempt
     \/ Goto("attempt") /\ attempt' = attempt + 1 /\ UNCHANGED held
  /\ UNCHANGED <<Nothing, seenFirst, wireVars, out>>

(* The relay looks at the context, then blocks in the receive: a chunk may    *)
(* still be taken when the context is done.                                  *)
SeesDone ==
  /\ relay = "read" /\ done
  /\ Goto("drain")
  /\ UNCHANGED <<Nothing, attempt, held, seenFirst, wireVars, out>>
AnyTime(c) == MayRetry(c)                                        \* mutant
Retried(c) == ~seenFirst /\ MayRetry(c)
Takes ==
  /\ relay = "read" /\ inch # <<>>
  /\ LET c == Head(inch) IN
       CASE c \in Errors /\ Retried(c) -> Goto("again") /\ UNCHANGED <<held, seenFirst>>
         [] c \in Errors /\ ~Retried(c) -> Fail /\ UNCHANGED seenFirst
         [] OTHER -> Goto("forward") /\ held' = c /\ seenFirst' = TRUE
  /\ inch' = Tail(inch)
  /\ UNCHANGED <<Nothing, attempt, adapter, reply, sent, read, out>>
FindsClosed ==
  /\ relay = "read" /\ inch = <<>> /\ adapter = "off"
  /\ Goto("off")
  /\ UNCHANGED <<Nothing, attempt, held, seenFirst, wireVars, out>>

Forwards ==
  /\ relay = "forward" /\ Len(out) < ChanCap
  /\ out' = Append(out, Tagged(held)) /\ held' = NoChunk
  /\ Goto(IF held \in Errors THEN "off" ELSE "read")
  /\ UNCHANGED <<Nothing, attempt, seenFirst, wireVars>>
GivesUp ==
  /\ relay = "forward" /\ held \notin Errors /\ done
  /\ Goto("drain") /\ held' = NoChunk
  /\ UNCHANGED <<Nothing, attempt, seenFirst, wireVars, out>>

EndsAtOnce == relay \in {"drain", "again"}                       \* mutant
Drained == relay \in {"drain", "again"} /\ adapter = "off" /\ inch = <<>>
Drains ==
  /\ relay \in {"drain", "again"} /\ inch # <<>>
  /\ inch' = <<>>
  /\ UNCHANGED <<Nothing, relayVars, adapter, reply, sent, read, out>>
EndDrain ==
  /\ Drained
  /\ Goto(IF relay = "drain" THEN "off" ELSE "sleep")
  /\ UNCHANGED <<Nothing, attempt, held, seenFirst, wireVars, out>>

(***************************************************************************)
(* The caller ranges over out until an error, or the closing of the channel. *)
(***************************************************************************)
Receives ==
  /\ caller = "reading" /\ out # <<>>
  /\ IF Head(out).kind = Fatal.kind THEN caller' = "failed" /\ UNCHANGED got
                                 ELSE got' = Append(got, Head(out)) /\ UNCHANGED caller
  /\ out' = Tail(out)
  /\ UNCHANGED <<parent, deadline, relayVars, wireVars>>
StreamClosed ==
  /\ caller = "reading" /\ out = <<>> /\ relay = "off"
  /\ caller' = "replied"
  /\ UNCHANGED <<parent, deadline, relayVars, wireVars, out, got>>

Deadline ==
  /\ caller \in {"chat", "reading"} /\ ~deadline
  /\ deadline' = TRUE
  /\ UNCHANGED <<parent, caller, relayVars, wireVars, out, got>>

Hangs(r) == ChatReply(r) \/ Opens(r)      \* what an upstream need never do
Upstream == AdapterSends \/ AdapterSkips \/ AdapterReadError \/ \E r \in Replies : Hangs(r)
CallSteps == \/ ChatRetry \/ ChatFails \/ OpenRetried \/ OpenFails \/ Wake \/ SeesDone \/ Takes
             \/ FindsClosed \/ Forwards \/ GivesUp \/ Drains \/ EndDrain \/ Receives
             \/ StreamClosed \/ AdapterEnds \/ Deadline
CallNext == Upstream \/ CallSteps

(* The machine's own goroutines run and the timeout fires; nothing is assumed *)
(* of the model's side.                                                      *)
CallFairness ==
  /\ WF_callVars(Deadline)
  /\ WF_callVars(done /\ (ChatFails \/ OpenFails \/ SeesDone \/ GivesUp \/ AdapterEnds))
  /\ WF_callVars(Wake \/ Takes \/ FindsClosed \/ Forwards \/ Drains \/ EndDrain)
  /\ WF_callVars(Receives \/ StreamClosed)

(* The caller owns a goroutine only while it reads.                          *)
Collected == caller \notin {"chat", "reading"} => relay = "off" /\ adapter = "off"
=============================================================================
