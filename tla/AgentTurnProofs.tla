-------------------------- MODULE AgentTurnProofs ---------------------------
(* Proofs about AgentTurn, for any tools, replies, budget, number of workers,  *)
(* histories restored and other sessions: a stream gives what was read of one  *)
(* attempt, all of it and no more (StreamsStaySound), the history stays        *)
(* complete (HistoryStaysComplete), tools run because they were offered and    *)
(* permits come back (ToolsStayAccounted), every request is a sound part of    *)
(* the history (WindowsStaySound, from BuildIsSound about Context.Build).      *)
(* One invariant carries all of it: StreamInv for the call of the Provider,    *)
(* TurnInv for the history, the batch and its effects, WindowInv for the       *)
(* request and the order of the turns in the history.                         *)
EXTENDS AgentTurn, FiniteSetTheorems, SequenceTheorems, TLAPS

(***************************************************************************)
(* The stream of a reply.                                                   *)
(***************************************************************************)
Content == {"text", "open", "rest"}
Kinds == Content \cup {"retryable", "fatal", "none"}
WireCall == [id : Nat, wire : Wires]
Chunks == [kind : Kinds, call : WireCall]
Pieces == [kind : Kinds, call : WireCall, try : 0..MaxRetries]
Answers == [text : BOOLEAN, calls : Seq(WireCall)]

CallTypes ==
  /\ caller \in {"off", "chat", "reading", "failed", "replied"}
  /\ relay \in {"off", "attempt", "sleep", "read", "forward", "drain", "again"}
  /\ attempt \in 0..MaxRetries /\ adapter \in {"off", "on"}
  /\ reply \in Answers /\ sent \in Nat /\ read \in Seq(Chunks)
  /\ inch \in Seq(Chunks) /\ held \in Chunks /\ out \in Seq(Pieces) /\ got \in Seq(Pieces)
  /\ Len(inch) <= ChanCap /\ Len(out) <= ChanCap

(* An error is the last thing on a channel, and nobody sends behind it; the   *)
(* adapter runs and inch holds something only while the relay is there for it.*)
OnWire ==
  /\ \A i \in DOMAIN inch : \/ inch[i].kind \in Content
                            \/ inch[i] = Retryable /\ i = Len(inch) /\ adapter = "off"
  /\ relay = "forward" => \/ held.kind \in Content /\ seenFirst
                          \/ held = Fatal /\ adapter = "off" /\ inch = <<>>
  /\ relay \in {"off", "attempt", "sleep"} => adapter = "off" /\ inch = <<>>
  /\ relay \in {"sleep", "again"} => attempt < MaxRetries
  /\ relay = "drain" => done
  /\ caller # "reading" => relay = "off"
  /\ \A i \in DOMAIN out : \/ out[i].kind \in Content
                           \/ out[i].kind = "fatal" /\ i = Len(out) /\ relay = "off"

(* What has been passed on is this attempt's, and no attempt follows it.      *)
OneTry ==
  /\ \A i \in DOMAIN got : got[i].try = attempt
  /\ \A i \in DOMAIN out : out[i].try = attempt
  /\ caller = "chat" => got = <<>>
  /\ caller # "reading" => out = <<>>
  /\ relay \in {"attempt", "sleep", "again"} \/ (relay = "read" /\ ~seenFirst) =>
       out = <<>> /\ got = <<>>

(* Every fragment the adapter has read is on its way or has arrived, ...      *)
Sound == \A i \in DOMAIN inch : inch[i].kind \in Content
Forwarding == relay = "forward" /\ held # Fatal
Counted ==
  /\ relay = "read" /\ Sound => Len(read) = Len(got) + Len(out) + Len(inch)
  /\ Forwarding /\ Sound => Len(read) = Len(got) + Len(out) + 1 + Len(inch)
  /\ caller = "reading" /\ relay = "off" =>
       \/ done \/ \E i \in DOMAIN out : out[i].kind = "fatal"
       \/ Len(got) + Len(out) = Len(read)
  /\ caller = "replied" => done \/ Len(got) = Len(read)

(* ... in its place.                                                          *)
SameAt(c, n) == n \in DOMAIN read /\ SamePiece(c, read[n])
GotInPlace == \A i \in DOMAIN got : SameAt(got[i], i)
OutInPlace == \A i \in DOMAIN out : out[i].kind = "fatal" \/ SameAt(out[i], Len(got) + i)
HeldInPlace == Forwarding => SameAt(held, Len(got) + Len(out) + 1)
InchFrom(n) == \A i \in DOMAIN inch : inch[i] = Retryable \/ SameAt(inch[i], n + i)
InchInPlace == /\ relay = "read" => InchFrom(Len(got) + Len(out))
               /\ Forwarding => InchFrom(Len(got) + Len(out) + 1)
Flow == GotInPlace /\ OutInPlace /\ HeldInPlace /\ InchInPlace

CallInv == CallTypes /\ OnWire /\ OneTry /\ Counted /\ Flow

LEMMA FragmentsTyped ==
  ASSUME NEW r \in Answers
  PROVE  /\ Fragments(r) \in Seq(Chunks) /\ Len(Fragments(r)) \in Nat
         /\ \A i \in DOMAIN Fragments(r) : Fragments(r)[i].kind \in Content
<1> DEFINE text == IF r.text THEN <<Chunk("text"), Chunk("text")>> ELSE <<>>
           n == 2 * Len(r.calls)
           rest == [i \in 1..n |->
                      [kind |-> IF i % 2 = 1 THEN "open" ELSE "rest", call |-> r.calls[(i + 1) \div 2]]]
           C == [kind : Content, call : WireCall]
<1>1. r.calls \in Seq(WireCall) /\ n \in Nat
  BY DEF Answers
<1>2. text \in Seq(C)
  <2> DEFINE piece == Chunk("text")
  <2>1. [id |-> 0, wire |-> "none"] \in WireCall
    BY DEF WireCall, Wires
  <2>2. piece \in C
    BY <2>1 DEF Chunk, Content
  <2> HIDE DEF piece
  <2>3. <<piece, piece>> \in Seq(C) /\ <<>> \in Seq(C)
    BY <2>2
  <2> QED BY <2>3 DEF piece
<1>3. rest \in Seq(C)
  <2>1. \A i \in 1..n : (i + 1) \div 2 \in 1..Len(r.calls)
    BY <1>1
  <2>2. \A i \in 1..n : rest[i] \in C
    BY <1>1, <2>1 DEF Content
  <2>3. rest \in [1..n -> C]
    BY <2>2
  <2> QED BY <1>1, <2>3, SeqDef
<1>4. Fragments(r) = text \o rest
  BY DEF Fragments
<1> HIDE DEF text, rest
<1>5. Fragments(r) \in Seq(C)
  BY <1>2, <1>3, <1>4
<1>6. C \subseteq Chunks
  BY DEF Chunks, Kinds
<1>7. Fragments(r) \in Seq(Chunks)
  BY <1>5, <1>6, SeqMonotonic
<1>8. \A i \in DOMAIN Fragments(r) : Fragments(r)[i] \in C
  BY <1>5, ElementOfSeq, LenProperties
<1> QED BY <1>7, <1>8

LEMMA Appended ==
  ASSUME NEW S, NEW s \in Seq(S), NEW e \in S
  PROVE  /\ Append(s, e) \in Seq(S) /\ Len(Append(s, e)) = Len(s) + 1
         /\ DOMAIN Append(s, e) = 1..Len(s) + 1
         /\ \A i \in DOMAIN s : Append(s, e)[i] = s[i]
         /\ Append(s, e)[Len(s) + 1] = e
BY AppendProperties
LEMMA Headed ==
  ASSUME NEW S, NEW s \in Seq(S), s # <<>>
  PROVE  /\ Head(s) = s[1] /\ Head(s) \in S /\ Len(s) \in Nat \ {0}
         /\ Tail(s) \in Seq(S) /\ Len(Tail(s)) = Len(s) - 1
         /\ DOMAIN Tail(s) = 1..Len(s) - 1
         /\ \A i \in 1..Len(s) - 1 : Tail(s)[i] = s[i + 1]
BY HeadTailProperties, EmptySeq

(* Errors on a channel, and what is not one.                                  *)
LEMMA ErrorChunks ==
  /\ Retryable \in Chunks /\ Retryable.kind = "retryable"
  /\ Fatal \in Chunks /\ Fatal.kind = "fatal"
  /\ NoChunk \in Chunks /\ NoChunk.kind = "none"
  /\ Errors = {Retryable, Fatal}
BY DEF Retryable, Fatal, NoChunk, Chunk, Errors, Chunks, Kinds, Content, WireCall, Wires

LEMMA TaggedTyped ==
  ASSUME CallTypes, NEW c \in Chunks
  PROVE  Tagged(c) \in Pieces /\ Tagged(c).kind = c.kind /\ Tagged(c).try = attempt
BY DEF CallTypes, Chunks, Pieces, Tagged

(* What is in its place stays there, as long as nothing moves.                *)
LEMMA FlowKept ==
  ASSUME Flow, UNCHANGED <<read, got, out>>,
         Forwarding' => Forwarding /\ held' = held /\ inch' = inch,
         relay' = "read" => relay = "read" /\ inch' = inch
  PROVE  Flow'
BY DEF Flow, GotInPlace, OutInPlace, HeldInPlace, InchInPlace, InchFrom, SameAt, SamePiece

LEMMA ChatReplyStep == ASSUME CallInv, NEW r \in Replies, ChatReply(r) PROVE CallInv'
<1> USE ProviderAssumption DEF CallInv, ChatReply, Goto, Nothing, Fail, MayRetry, Drained, relayVars, wireVars
<1> DEFINE F == Fragments(r)
<1>a. r \in Answers
  BY DEF Answers, WireCall
<1>b. F \in Seq(Chunks) /\ Len(F) \in Nat
  BY <1>a, FragmentsTyped
<1>c. got' = [i \in 1..Len(F) |-> Tagged(F[i])]
  BY <1>b
<1> HIDE DEF F
<1>d. got' \in [1..Len(F) -> Pieces]
  BY <1>b, <1>c, TaggedTyped
<1>0. /\ got' \in Seq(Pieces) /\ Len(got') = Len(F) /\ DOMAIN got' = 1..Len(F)
      /\ \A i \in DOMAIN got' : got'[i].try = attempt
      /\ reply' = r /\ r \in Answers /\ F = Fragments(r) /\ Len(F) \in Nat /\ sent' = sent
      /\ read' = F /\ F \in Seq(Chunks)
  BY <1>a, <1>b, <1>c, <1>d, SeqDef DEF Tagged, F
<1>1. CallTypes'
  BY ErrorChunks, <1>0 DEF CallTypes, OnWire
<1>2. OnWire'
  BY ErrorChunks, <1>0 DEF OnWire, Content, done
<1>3. OneTry'
  BY ErrorChunks, <1>0 DEF OneTry, OnWire
<1>4. Counted'
  BY ErrorChunks, <1>0 DEF Counted, OnWire, Content, Sound, Forwarding, done
<1>9. Flow'
  <2>1. out' = <<>> /\ inch' = <<>> /\ relay' = "off" /\ DOMAIN read' = 1..Len(F)
    BY <1>0 DEF OnWire, OneTry
  <2>2. \A i \in 1..Len(F) : SamePiece(got'[i], F[i])
    BY <1>b, <1>c DEF Tagged, SamePiece
  <2> QED BY <1>0, <2>1, <2>2 DEF Flow, GotInPlace, OutInPlace, HeldInPlace, InchInPlace, SameAt, Forwarding
<1> QED BY <1>1, <1>2, <1>3, <1>4, <1>9

LEMMA ChatRetryStep == ASSUME CallInv, ChatRetry PROVE CallInv'
<1> USE ProviderAssumption DEF CallInv, ChatRetry, Goto, Nothing, Fail, MayRetry, Drained, relayVars, wireVars
<1>1. CallTypes'
  BY ErrorChunks DEF CallTypes, OnWire
<1>2. OnWire'
  BY ErrorChunks DEF OnWire, Content, done
<1>3. OneTry'
  BY ErrorChunks DEF OneTry, OnWire
<1>4. Counted'
  BY ErrorChunks DEF Counted, OnWire, Content, Sound, Forwarding, done
<1>9. Flow'
  BY FlowKept, ErrorChunks DEF Forwarding, OnWire
<1> QED BY <1>1, <1>2, <1>3, <1>4, <1>9

LEMMA ChatFailsStep == ASSUME CallInv, ChatFails PROVE CallInv'
<1> USE ProviderAssumption DEF CallInv, ChatFails, Goto, Nothing, Fail, MayRetry, Drained, relayVars, wireVars
<1>1. CallTypes'
  BY ErrorChunks DEF CallTypes, OnWire
<1>2. OnWire'
  BY ErrorChunks DEF OnWire, Content, done
<1>3. OneTry'
  BY ErrorChunks DEF OneTry, OnWire
<1>4. Counted'
  BY ErrorChunks DEF Counted, OnWire, Content, Sound, Forwarding, done
<1>9. Flow'
  BY FlowKept, ErrorChunks DEF Forwarding, OnWire
<1> QED BY <1>1, <1>2, <1>3, <1>4, <1>9

LEMMA OpenRetriedStep == ASSUME CallInv, OpenRetried PROVE CallInv'
<1> USE ProviderAssumption DEF CallInv, OpenRetried, Goto, Nothing, Fail, MayRetry, Drained, relayVars, wireVars
<1>1. CallTypes'
  BY ErrorChunks DEF CallTypes, OnWire
<1>2. OnWire'
  BY ErrorChunks DEF OnWire, Content, done
<1>3. OneTry'
  BY ErrorChunks DEF OneTry, OnWire
<1>4. Counted'
  BY ErrorChunks DEF Counted, OnWire, Content, Sound, Forwarding, done
<1>9. Flow'
  BY FlowKept, ErrorChunks DEF Forwarding, OnWire
<1> QED BY <1>1, <1>2, <1>3, <1>4, <1>9

LEMMA SeesDoneStep == ASSUME CallInv, SeesDone PROVE CallInv'
<1> USE ProviderAssumption DEF CallInv, SeesDone, Goto, Nothing, Fail, MayRetry, Drained, relayVars, wireVars
<1>1. CallTypes'
  BY ErrorChunks DEF CallTypes, OnWire
<1>2. OnWire'
  BY ErrorChunks DEF OnWire, Content, done
<1>3. OneTry'
  BY ErrorChunks DEF OneTry, OnWire
<1>4. Counted'
  BY ErrorChunks DEF Counted, OnWire, Content, Sound, Forwarding, done
<1>9. Flow'
  BY FlowKept, ErrorChunks DEF Forwarding, OnWire
<1> QED BY <1>1, <1>2, <1>3, <1>4, <1>9

LEMMA FindsClosedStep == ASSUME CallInv, FindsClosed PROVE CallInv'
<1> USE ProviderAssumption DEF CallInv, FindsClosed, Goto, Nothing, Fail, MayRetry, Drained, relayVars, wireVars
<1>1. CallTypes'
  BY ErrorChunks DEF CallTypes, OnWire
<1>2. OnWire'
  BY ErrorChunks DEF OnWire, Content, done
<1>3. OneTry'
  BY ErrorChunks DEF OneTry, OnWire
<1>4. Counted'
  BY ErrorChunks DEF Counted, OnWire, Content, Sound, Forwarding, done
<1>9. Flow'
  BY FlowKept, ErrorChunks DEF Forwarding, OnWire
<1> QED BY <1>1, <1>2, <1>3, <1>4, <1>9

LEMMA GivesUpStep == ASSUME CallInv, GivesUp PROVE CallInv'
<1> USE ProviderAssumption DEF CallInv, GivesUp, Goto, Nothing, Fail, MayRetry, Drained, relayVars, wireVars
<1>1. CallTypes'
  BY ErrorChunks DEF CallTypes, OnWire
<1>2. OnWire'
  BY ErrorChunks DEF OnWire, Content, done
<1>3. OneTry'
  BY ErrorChunks DEF OneTry, OnWire
<1>4. Counted'
  BY ErrorChunks DEF Counted, OnWire, Content, Sound, Forwarding, done
<1>9. Flow'
  BY FlowKept, ErrorChunks DEF Forwarding, OnWire
<1> QED BY <1>1, <1>2, <1>3, <1>4, <1>9

LEMMA EndDrainStep == ASSUME CallInv, EndDrain PROVE CallInv'
<1> USE ProviderAssumption DEF CallInv, EndDrain, Goto, Nothing, Fail, MayRetry, Drained, relayVars, wireVars
<1>1. CallTypes'
  BY ErrorChunks DEF CallTypes, OnWire
<1>2. OnWire'
  BY ErrorChunks DEF OnWire, Content, done
<1>3. OneTry'
  BY ErrorChunks DEF OneTry, OnWire
<1>4. Counted'
  BY ErrorChunks DEF Counted, OnWire, Content, Sound, Forwarding, done
<1>9. Flow'
  BY FlowKept, ErrorChunks DEF Forwarding, OnWire
<1> QED BY <1>1, <1>2, <1>3, <1>4, <1>9

LEMMA StreamClosedStep == ASSUME CallInv, StreamClosed PROVE CallInv'
<1> USE ProviderAssumption DEF CallInv, StreamClosed, Goto, Nothing, Fail, MayRetry, Drained, relayVars, wireVars
<1>1. CallTypes'
  BY ErrorChunks DEF CallTypes, OnWire
<1>2. OnWire'
  BY ErrorChunks DEF OnWire, Content, done
<1>3. OneTry'
  BY ErrorChunks DEF OneTry, OnWire
<1>4. Counted'
  BY ErrorChunks DEF Counted, OnWire, Content, Sound, Forwarding, done
<1>9. Flow'
  BY FlowKept, ErrorChunks DEF Forwarding, OnWire
<1> QED BY <1>1, <1>2, <1>3, <1>4, <1>9

LEMMA AdapterEndsStep == ASSUME CallInv, AdapterEnds PROVE CallInv'
<1> USE ProviderAssumption DEF CallInv, AdapterEnds, Goto, Nothing, Fail, MayRetry, Drained, relayVars, wireVars
<1>1. CallTypes'
  BY ErrorChunks DEF CallTypes, OnWire
<1>2. OnWire'
  BY ErrorChunks DEF OnWire, Content, done
<1>3. OneTry'
  BY ErrorChunks DEF OneTry, OnWire
<1>4. Counted'
  BY ErrorChunks DEF Counted, OnWire, Content, Sound, Forwarding, done
<1>9. Flow'
  BY FlowKept, ErrorChunks DEF Forwarding, OnWire
<1> QED BY <1>1, <1>2, <1>3, <1>4, <1>9

LEMMA AdapterSkipsStep == ASSUME CallInv, AdapterSkips PROVE CallInv'
<1> USE ProviderAssumption DEF CallInv, AdapterSkips, Goto, Nothing, Fail, MayRetry, Drained, relayVars, wireVars
<1>1. CallTypes'
  BY ErrorChunks DEF CallTypes, OnWire
<1>2. OnWire'
  BY ErrorChunks DEF OnWire, Content, done
<1>3. OneTry'
  BY ErrorChunks DEF OneTry, OnWire
<1>4. Counted'
  BY ErrorChunks DEF Counted, OnWire, Content, Sound, Forwarding, done
<1>9. Flow'
  BY FlowKept, ErrorChunks DEF Forwarding, OnWire
<1> QED BY <1>1, <1>2, <1>3, <1>4, <1>9

LEMMA DeadlineStep == ASSUME CallInv, Deadline PROVE CallInv'
<1> USE ProviderAssumption DEF CallInv, Deadline, Goto, Nothing, Fail, MayRetry, Drained, relayVars, wireVars
<1>1. CallTypes'
  BY ErrorChunks DEF CallTypes, OnWire
<1>2. OnWire'
  BY ErrorChunks DEF OnWire, Content, done
<1>3. OneTry'
  BY ErrorChunks DEF OneTry, OnWire
<1>4. Counted'
  BY ErrorChunks DEF Counted, OnWire, Content, Sound, Forwarding, done
<1>9. Flow'
  BY FlowKept, ErrorChunks DEF Forwarding, OnWire
<1> QED BY <1>1, <1>2, <1>3, <1>4, <1>9

LEMMA OpenFailsStep == ASSUME CallInv, OpenFails PROVE CallInv'
<1> USE ProviderAssumption DEF CallInv, OpenFails, Goto, Nothing, Fail, MayRetry, Drained, relayVars, wireVars
<1>1. CallTypes'
  BY ErrorChunks DEF CallTypes, OnWire
<1>2. OnWire'
  BY ErrorChunks DEF OnWire, Content, done
<1>3. OneTry'
  BY ErrorChunks DEF OneTry, OnWire
<1>4. Counted'
  BY ErrorChunks DEF Counted, OnWire, Content, Sound, Forwarding, done
<1>9. Flow'
  BY FlowKept, ErrorChunks DEF Forwarding, OnWire
<1> QED BY <1>1, <1>2, <1>3, <1>4, <1>9

LEMMA WakeStep == ASSUME CallInv, Wake PROVE CallInv'
<1> USE ProviderAssumption DEF CallInv, Wake, Goto, Nothing, Fail, MayRetry, Drained, relayVars, wireVars
<1>1. CallTypes'
  BY ErrorChunks DEF CallTypes, OnWire
<1>2. OnWire'
  BY ErrorChunks DEF OnWire, Content, done
<1>3. OneTry'
  BY ErrorChunks DEF OneTry, OnWire
<1>4. Counted'
  BY ErrorChunks DEF Counted, OnWire, Content, Sound, Forwarding, done
<1>9. Flow'
  BY FlowKept, ErrorChunks DEF Forwarding, OnWire
<1> QED BY <1>1, <1>2, <1>3, <1>4, <1>9

LEMMA DrainsStep == ASSUME CallInv, Drains PROVE CallInv'
<1> USE ProviderAssumption DEF CallInv, Drains, Goto, Nothing, Fail, MayRetry, Drained, relayVars, wireVars
<1>1. CallTypes'
  BY ErrorChunks DEF CallTypes, OnWire
<1>2. OnWire'
  BY ErrorChunks DEF OnWire, Content, done
<1>3. OneTry'
  BY ErrorChunks DEF OneTry, OnWire
<1>4. Counted'
  BY ErrorChunks DEF Counted, OnWire, Content, Sound, Forwarding, done
<1>9. Flow'
  BY FlowKept, ErrorChunks DEF Forwarding, OnWire
<1> QED BY <1>1, <1>2, <1>3, <1>4, <1>9

LEMMA AdapterSendsStep == ASSUME CallInv, AdapterSends PROVE CallInv'
<1> USE ProviderAssumption DEF CallInv, AdapterSends, Goto, Nothing, Fail, MayRetry, Drained, relayVars, wireVars
<1> DEFINE c == Fragments(reply)[sent + 1]
<1>0. /\ c \in Chunks /\ c.kind \in Content
  BY FragmentsTyped DEF CallTypes
<1>5. inch' = Append(inch, c) /\ read' = Append(read, c)
  OBVIOUS
<1> HIDE DEF c
<1>6. /\ inch' \in Seq(Chunks) /\ Len(inch') = Len(inch) + 1 /\ DOMAIN inch' = 1..Len(inch) + 1
      /\ \A i \in DOMAIN inch : inch'[i] = inch[i]
      /\ inch'[Len(inch) + 1] = c
  BY <1>0, <1>5, Appended DEF CallTypes
<1>7. /\ read' \in Seq(Chunks) /\ Len(read') = Len(read) + 1 /\ DOMAIN read' = 1..Len(read) + 1
      /\ \A i \in DOMAIN read : read'[i] = read[i]
      /\ read'[Len(read) + 1] = c /\ DOMAIN read = 1..Len(read) /\ Len(read) \in Nat
  BY <1>0, <1>5, Appended DEF CallTypes
<1>1. CallTypes'
  BY ErrorChunks, <1>0, <1>5, <1>6, <1>7 DEF CallTypes, OnWire
<1>2. OnWire'
  BY ErrorChunks, <1>0, <1>5, <1>6, <1>7 DEF OnWire, Content, done
<1>3. OneTry'
  BY ErrorChunks, <1>0, <1>5, <1>6, <1>7 DEF OneTry, OnWire
<1>4. Counted'
  <2>1. UNCHANGED <<got, out, held, relay, caller, done>> /\ Sound /\ caller # "replied" /\ relay # "off"
    BY DEF OnWire, Sound, done
  <2>2. Len(got) \in Nat /\ Len(out) \in Nat /\ Len(inch) \in Nat
    BY DEF CallTypes
  <2>3. Len(read') = Len(read) + 1 /\ Len(inch') = Len(inch) + 1
    BY <1>6, <1>7
  <2>6. /\ relay = "read" => Len(read) = Len(got) + Len(out) + Len(inch)
        /\ Forwarding => Len(read) = Len(got) + Len(out) + 1 + Len(inch)
    BY <2>1 DEF Counted
  <2> HIDE DEF AdapterSends, CallInv
  <2>4. relay = "read" => Len(read') = Len(got) + Len(out) + Len(inch')
    BY <2>2, <2>3, <2>6
  <2>5. Forwarding => Len(read') = Len(got) + Len(out) + 1 + Len(inch')
    BY <2>2, <2>3, <2>6
  <2> QED BY <2>1, <2>4, <2>5 DEF Counted, Forwarding
<1>9. Flow'
  <2>1. Sound /\ UNCHANGED <<got, out, held, relay>>
    BY DEF OnWire, Sound
  <2>2. \A d, n : SameAt(d, n) => SameAt(d, n)'
    BY <1>7 DEF SameAt, SamePiece
  <2>3. (\A n \in Nat : InchFrom(n) /\ Len(read) = n + Len(inch) => InchFrom(n)')
    <3> SUFFICES ASSUME NEW n \in Nat, InchFrom(n), Len(read) = n + Len(inch), NEW i \in DOMAIN inch'
                 PROVE inch'[i] = Retryable \/ SameAt(inch[i], n + i)'
      BY DEF InchFrom
    <3>1. CASE i \in DOMAIN inch
      <4>1. inch'[i] = inch[i]
        BY <3>1, <1>6
      <4> QED BY <4>1, <3>1, <2>2 DEF InchFrom
    <3>2. CASE i = Len(inch) + 1
      <4>1. n + i = Len(read) + 1 /\ Len(inch) \in Nat
        BY <3>2 DEF CallTypes
      <4> QED BY <4>1, <3>2, <1>6, <1>7 DEF SameAt, SamePiece
    <3>3. i \in DOMAIN inch \/ i = Len(inch) + 1
      <4>1. DOMAIN inch = 1..Len(inch) /\ Len(inch) \in Nat
        BY DEF CallTypes
      <4> QED BY <4>1, <1>6
    <3> QED BY <3>1, <3>2, <3>3
  <2>4. Len(got) \in Nat /\ Len(out) \in Nat /\ Len(inch) \in Nat
    BY DEF CallTypes
  <2>5. InchInPlace'
    BY <2>1, <2>3, <2>4 DEF Flow, InchInPlace, Counted, Forwarding
  <2>6. GotInPlace' /\ OutInPlace' /\ HeldInPlace'
    BY <2>1, <2>2 DEF Flow, GotInPlace, OutInPlace, HeldInPlace, Forwarding
  <2> QED BY <2>5, <2>6 DEF Flow
<1> QED BY <1>1, <1>2, <1>3, <1>4, <1>9

LEMMA AdapterReadErrorStep == ASSUME CallInv, AdapterReadError PROVE CallInv'
<1> USE ProviderAssumption DEF CallInv, AdapterReadError, Goto, Nothing, Fail, MayRetry, Drained, relayVars, wireVars
<1>0. Retryable \in Chunks
  BY DEF Retryable, Chunk, Chunks, Kinds, WireCall, Wires
<1>6. /\ inch' \in Seq(Chunks) /\ Len(inch') = Len(inch) + 1 /\ DOMAIN inch' = 1..Len(inch) + 1
      /\ \A i \in DOMAIN inch : inch'[i] = inch[i]
      /\ inch'[Len(inch) + 1] = Retryable
  BY <1>0, Appended DEF CallTypes
<1>1. CallTypes'
  BY ErrorChunks, <1>0, <1>6 DEF CallTypes, OnWire
<1>2. OnWire'
  BY ErrorChunks, <1>0, <1>6 DEF OnWire, Content, done
<1>3. OneTry'
  BY ErrorChunks, <1>0, <1>6 DEF OneTry, OnWire
<1>4. Counted'
  BY ErrorChunks, <1>0, <1>6 DEF Counted, OnWire, Content, Sound, Forwarding, done
<1>9. Flow'
  <2>1. UNCHANGED <<got, out, held, relay, read>>
    BY DEF OnWire
  <2>2. \A n : InchFrom(n) => InchFrom(n)'
    <3> SUFFICES ASSUME NEW n, InchFrom(n), NEW i \in DOMAIN inch'
                 PROVE inch'[i] = Retryable \/ SameAt(inch[i], n + i)'
      BY DEF InchFrom
    <3>1. DOMAIN inch = 1..Len(inch) /\ Len(inch) \in Nat
      BY DEF CallTypes
    <3>2. i \in DOMAIN inch \/ inch'[i] = Retryable
      BY <3>1, <1>6
    <3> QED BY <3>2, <2>1, <1>6 DEF InchFrom, SameAt, SamePiece
  <2>3. InchInPlace'
    BY <2>1, <2>2 DEF Flow, InchInPlace, Forwarding
  <2> QED BY <2>1, <2>3 DEF Flow, GotInPlace, OutInPlace, HeldInPlace, SameAt, SamePiece, Forwarding
<1> QED BY <1>1, <1>2, <1>3, <1>4, <1>9

LEMMA OpensStep == ASSUME CallInv, NEW r \in Replies, Opens(r) PROVE CallInv'
<1> USE ProviderAssumption DEF CallInv, Opens, Goto, Nothing, Fail, MayRetry, Drained, relayVars, wireVars
<1>0. r \in Answers /\ Len(Fragments(r)) \in Nat
  BY FragmentsTyped DEF Answers, WireCall
<1>1. CallTypes'
  BY ErrorChunks, <1>0 DEF CallTypes, OnWire
<1>2. OnWire'
  BY ErrorChunks, <1>0 DEF OnWire, Content, done
<1>3. OneTry'
  BY ErrorChunks, <1>0 DEF OneTry, OnWire
<1>4. Counted'
  <2>1. Len(inch') = 0 /\ Len(got') = 0 /\ Len(out') = 0
    BY DEF OneTry
  <2> QED BY <1>0, <2>1 DEF Counted, OnWire, Sound, Forwarding
<1>9. Flow'
  BY DEF OneTry, Flow, GotInPlace, OutInPlace, HeldInPlace, InchInPlace, InchFrom, Forwarding
<1> QED BY <1>1, <1>2, <1>3, <1>4, <1>9

LEMMA TakesStep == ASSUME CallInv, Takes PROVE CallInv'
<1> DEFINE c == Head(inch)
<1>1. /\ c \in Chunks /\ c = inch[1] /\ Len(inch) \in Nat \ {0}
      /\ inch' \in Seq(Chunks) /\ Len(inch') = Len(inch) - 1 /\ DOMAIN inch' = 1..Len(inch) - 1
      /\ DOMAIN inch = 1..Len(inch)
      /\ \A i \in 1..Len(inch) - 1 : inch'[i] = inch[i + 1]
  BY Headed DEF CallInv, CallTypes, Takes
<1>2. /\ relay = "read" /\ parent' = parent /\ deadline' = deadline /\ caller' = caller
      /\ got' = got /\ attempt' = attempt /\ adapter' = adapter /\ reply' = reply
      /\ sent' = sent /\ read' = read /\ out' = out
  BY DEF Takes, Nothing
<1>3. \/ /\ c \in Errors /\ relay' = "again" /\ held' = held /\ seenFirst' = seenFirst
         /\ ~seenFirst /\ attempt < MaxRetries
      \/ c \in Errors /\ relay' = "forward" /\ held' = Fatal /\ seenFirst' = seenFirst
      \/ c \notin Errors /\ relay' = "forward" /\ held' = c /\ seenFirst' = TRUE
  BY DEF Takes, Retried, MayRetry, Goto, Fail
<1> HIDE DEF c
<1>4. c \in Errors => /\ adapter = "off" /\ Len(inch) = 1 /\ inch' = <<>> /\ ~Sound
  BY <1>1, ErrorChunks, EmptySeq DEF CallInv, OnWire, Content, Sound
<1>5. c \notin Errors => c.kind \in Content
  BY <1>1, ErrorChunks DEF CallInv, OnWire, Content
<1>6. CallTypes'
  BY <1>1, <1>2, <1>3, ErrorChunks, ProviderAssumption DEF CallInv, CallTypes
<1>7. OnWire'
  <2>1. \A i \in DOMAIN inch' : \/ inch'[i].kind \in Content
                                \/ inch'[i] = Retryable /\ i = Len(inch') /\ adapter' = "off"
    <3> SUFFICES ASSUME NEW i \in DOMAIN inch'
                 PROVE \/ inch'[i].kind \in Content
                       \/ inch'[i] = Retryable /\ i = Len(inch') /\ adapter' = "off"
      OBVIOUS
    <3>1. i + 1 \in DOMAIN inch /\ inch'[i] = inch[i + 1]
      BY <1>1
    <3> QED BY <3>1, <1>1, <1>2 DEF CallInv, OnWire
  <2> QED BY <2>1, <1>2, <1>3, <1>4, <1>5 DEF CallInv, OnWire, done
<1>8. OneTry'
  BY <1>2, <1>3 DEF CallInv, OneTry
<1>9. Counted'
  <2>1. c \notin Errors /\ Sound' => Sound
    <3> SUFFICES ASSUME c \notin Errors, Sound', NEW i \in DOMAIN inch PROVE inch[i].kind \in Content
      BY DEF Sound
    <3>1. CASE i = 1
      BY <3>1, <1>1, <1>5
    <3>2. CASE i # 1
      <4>1. i - 1 \in 1..Len(inch) - 1
        BY <3>2, <1>1
      <4> QED BY <4>1, <1>1 DEF Sound
    <3> QED BY <3>1, <3>2
  <2>2. Forwarding' => c \notin Errors
    BY <1>3 DEF Forwarding
  <2>3. relay' # "read" /\ relay' # "off"
    BY <1>3
  <2>4. done <=> done'
    BY <1>2 DEF done
  <2>5. Forwarding' /\ Sound' => Len(read') = Len(got') + Len(out') + 1 + Len(inch')
    <3>1. Len(got) \in Nat /\ Len(out) \in Nat
      BY DEF CallInv, CallTypes
    <3>2. Sound => Len(read) = Len(got) + Len(out) + Len(inch)
      BY <1>2 DEF CallInv, Counted
    <3>4. Forwarding' /\ Sound' => Sound
      BY <2>1, <2>2
    <3>5. Len(inch) \in Nat /\ Len(inch') = Len(inch) - 1
      BY <1>1 DEF CallInv, CallTypes
    <3>3. Forwarding' /\ Sound' => Len(read) = Len(got) + Len(out) + 1 + Len(inch')
      <4>1. Sound => Len(read) = Len(got) + Len(out) + 1 + Len(inch')
        BY <3>1, <3>2, <3>5
      <4> QED BY <4>1, <3>4
    <3> QED BY <3>3, <1>2
  <2> QED BY <2>1, <2>2, <2>3, <2>4, <2>5, <1>2 DEF CallInv, Counted
<1>10. Flow'
  <2>1. \A d, n : SameAt(d, n)' <=> SameAt(d, n)
    BY <1>2 DEF SameAt, SamePiece
  <2>2. Len(got) \in Nat /\ Len(out) \in Nat /\ InchFrom(Len(got) + Len(out))
    BY <1>2 DEF CallInv, CallTypes, Flow, InchInPlace
  <2>3. GotInPlace' /\ OutInPlace'
    BY <1>2, <2>1 DEF CallInv, Flow, GotInPlace, OutInPlace
  <2>4. CASE c \in Errors
    BY <2>3, <2>4, <1>3, <1>5, ErrorChunks DEF Flow, HeldInPlace, InchInPlace, Forwarding
  <2>5. CASE c \notin Errors
    <3>1. relay' = "forward" /\ held' = c
      BY <2>5, <1>3
    <3>2. SameAt(c, Len(got) + Len(out) + 1)
      <4>1. 1 \in DOMAIN inch /\ inch[1] # Retryable
        BY <2>5, <1>1, ErrorChunks
      <4> QED BY <4>1, <2>2, <1>1 DEF InchFrom
    <3>3. InchFrom(Len(got) + Len(out) + 1)'
      <4> SUFFICES ASSUME NEW i \in DOMAIN inch'
                   PROVE inch'[i] = Retryable \/ SameAt(inch'[i], Len(got) + Len(out) + 1 + i)
        BY <1>2, <2>1 DEF InchFrom
      <4>1. i + 1 \in DOMAIN inch /\ inch'[i] = inch[i + 1] /\ i \in Nat
        BY <1>1
      <4>2. Len(got) + Len(out) + (i + 1) = Len(got) + Len(out) + 1 + i
        BY <4>1, <2>2
      <4> QED BY <4>1, <4>2, <2>2 DEF InchFrom
    <3> QED BY <2>1, <2>3, <3>1, <3>2, <3>3, <1>2 DEF Flow, HeldInPlace, InchInPlace
  <2> QED BY <2>4, <2>5
<1> QED BY <1>6, <1>7, <1>8, <1>9, <1>10 DEF CallInv

LEMMA ForwardsStep == ASSUME CallInv, Forwards PROVE CallInv'
<1> DEFINE p == Tagged(held)
<1>1. p \in Pieces /\ p.kind = held.kind /\ p.try = attempt
  BY TaggedTyped DEF CallInv, CallTypes
<1>2. /\ relay = "forward" /\ parent' = parent /\ deadline' = deadline /\ caller' = caller
      /\ got' = got /\ attempt' = attempt /\ adapter' = adapter /\ reply' = reply
      /\ sent' = sent /\ read' = read /\ inch' = inch /\ out' = Append(out, p) /\ held' = NoChunk
      /\ seenFirst' = seenFirst /\ Len(out) < ChanCap
      /\ relay' = IF held \in Errors THEN "off" ELSE "read"
  BY DEF Forwards, Nothing, wireVars, Goto
<1> HIDE DEF p
<1>3. /\ out' \in Seq(Pieces) /\ Len(out') = Len(out) + 1 /\ DOMAIN out' = 1..Len(out) + 1
      /\ DOMAIN out = 1..Len(out) /\ Len(out) \in Nat
      /\ \A i \in DOMAIN out : out'[i] = out[i]
      /\ out'[Len(out) + 1] = p
  BY <1>1, <1>2, Appended DEF CallInv, CallTypes
<1>4. \/ held.kind \in Content /\ seenFirst /\ held \notin Errors /\ relay' = "read"
      \/ held = Fatal /\ adapter = "off" /\ inch = <<>> /\ relay' = "off"
  BY <1>2, ErrorChunks DEF CallInv, OnWire, Content
<1>5. CallTypes'
  BY <1>2, <1>3, <1>4, ErrorChunks, ProviderAssumption DEF CallInv, CallTypes
<1>6. OnWire'
  BY <1>1, <1>2, <1>3, <1>4, ErrorChunks DEF CallInv, OnWire, Content, done
<1>7. OneTry'
  BY <1>1, <1>2, <1>3, <1>4 DEF CallInv, OneTry, OnWire
<1>8. Counted'
  <2>1. (done <=> done') /\ (Sound <=> Sound')
    BY <1>2 DEF done, Sound
  <2>2. CASE held.kind \in Content /\ relay' = "read"
    <3>1. Forwarding
      BY <2>2, <1>2, ErrorChunks DEF Forwarding, Content
    <3>2. Sound => Len(read) = Len(got) + Len(out) + 1 + Len(inch)
      BY <3>1 DEF CallInv, Counted
    <3>3. Sound' => Len(read') = Len(got') + Len(out') + Len(inch')
      BY <3>2, <2>1, <1>2, <1>3 DEF CallInv, CallTypes
    <3>4. ~Forwarding' /\ caller' # "replied"
      BY <2>2, <1>2 DEF Forwarding, CallInv, OnWire
    <3> QED BY <3>1, <3>3, <3>4, <2>1, <2>2, <1>2 DEF CallInv, Counted
  <2>3. CASE held = Fatal /\ relay' = "off"
    <3>1. out'[Len(out) + 1].kind = "fatal" /\ Len(out) + 1 \in DOMAIN out'
      BY <2>3, <1>1, <1>3, ErrorChunks
    <3>2. ~Forwarding' /\ caller' # "replied"
      BY <2>3, <1>2 DEF Forwarding, CallInv, OnWire
    <3> QED BY <3>1, <3>2, <2>3 DEF Counted
  <2> QED BY <2>2, <2>3, <1>4
<1>9. Flow'
  <2>1. \A d, n : SameAt(d, n)' <=> SameAt(d, n)
    BY <1>2 DEF SameAt, SamePiece
  <2>2. Len(got) \in Nat /\ Flow
    BY DEF CallInv, CallTypes
  <2>3. \A i \in DOMAIN out' : i \in DOMAIN out \/ i = Len(out) + 1
    BY <1>3
  <2>4. GotInPlace' /\ ~Forwarding'
    BY <1>2, <2>1, <2>2, <1>4 DEF Flow, GotInPlace, Forwarding
  <2>5. CASE held.kind \in Content /\ relay' = "read"
    <3>1. Forwarding
      BY <2>5, <1>2, ErrorChunks DEF Forwarding, Content
    <3>2. SameAt(p, Len(got) + (Len(out) + 1))
      <4>1. SameAt(held, Len(got) + (Len(out) + 1))
        BY <3>1, <2>2, <1>3 DEF Flow, HeldInPlace
      <4> QED BY <4>1 DEF SameAt, SamePiece, Tagged, p
    <3>3. OutInPlace'
      BY <3>2, <2>1, <2>2, <2>3, <1>2, <1>3 DEF Flow, OutInPlace
    <3>4. InchFrom(Len(got) + Len(out))'
      <4>1. Len(got) + Len(out') = Len(got) + Len(out) + 1
        BY <2>2, <1>3
      <4> QED BY <4>1, <3>1, <2>1, <2>2, <1>2 DEF Flow, InchInPlace, InchFrom
    <3> QED BY <2>4, <3>3, <3>4, <1>2 DEF Flow, HeldInPlace, InchInPlace
  <2>6. CASE held = Fatal /\ relay' = "off"
    <3>1. OutInPlace'
      BY <2>6, <2>1, <2>2, <2>3, <1>1, <1>2, <1>3, ErrorChunks DEF Flow, OutInPlace
    <3> QED BY <2>4, <2>6, <3>1 DEF Flow, HeldInPlace, InchInPlace
  <2> QED BY <1>4, <2>5, <2>6
<1> QED BY <1>5, <1>6, <1>7, <1>8, <1>9 DEF CallInv

LEMMA ReceivesStep == ASSUME CallInv, Receives PROVE CallInv'
<1> DEFINE p == Head(out)
<1>1. /\ p \in Pieces /\ p = out[1] /\ Len(out) \in Nat \ {0}
      /\ DOMAIN out = 1..Len(out)
      /\ out' \in Seq(Pieces) /\ Len(out') = Len(out) - 1 /\ DOMAIN out' = 1..Len(out) - 1
      /\ \A i \in 1..Len(out) - 1 : out'[i] = out[i + 1]
  BY Headed DEF CallInv, CallTypes, Receives
<1>2. /\ caller = "reading" /\ parent' = parent /\ deadline' = deadline
      /\ attempt' = attempt /\ adapter' = adapter /\ reply' = reply /\ relay' = relay
      /\ sent' = sent /\ read' = read /\ inch' = inch /\ held' = held /\ seenFirst' = seenFirst
  BY DEF Receives, relayVars, wireVars
<1>3. \/ p.kind = "fatal" /\ caller' = "failed" /\ got' = got
      \/ p.kind # "fatal" /\ got' = Append(got, p) /\ caller' = caller
  BY ErrorChunks DEF Receives
<1> HIDE DEF p
<1>4. p.kind = "fatal" => relay = "off"
  BY <1>1 DEF CallInv, OnWire, Content
<1>5. p.kind # "fatal" => /\ got' \in Seq(Pieces) /\ Len(got') = Len(got) + 1
                          /\ DOMAIN got' = 1..Len(got) + 1 /\ DOMAIN got = 1..Len(got)
                          /\ \A i \in DOMAIN got : got'[i] = got[i]
                          /\ got'[Len(got) + 1] = p
  <2> SUFFICES ASSUME p.kind # "fatal"
      PROVE  /\ got' \in Seq(Pieces) /\ Len(got') = Len(got) + 1
             /\ DOMAIN got' = 1..Len(got) + 1 /\ DOMAIN got = 1..Len(got)
             /\ \A i \in DOMAIN got : got'[i] = got[i]
             /\ got'[Len(got) + 1] = p
    OBVIOUS
  <2>1. got' = Append(got, p) /\ got \in Seq(Pieces) /\ p \in Pieces
    BY <1>1, <1>3 DEF CallInv, CallTypes
  <2>2. DOMAIN got = 1..Len(got)
    BY <2>1, LenProperties
  <2> QED BY <2>1, <2>2, Appended
<1>6. CallTypes'
  BY <1>1, <1>2, <1>3, <1>5, ProviderAssumption DEF CallInv, CallTypes
<1>7. OnWire'
  <2>1. \A i \in DOMAIN out' : i + 1 \in DOMAIN out /\ out'[i] = out[i + 1]
    BY <1>1
  <2> QED BY <2>1, <1>1, <1>2, <1>3, <1>4 DEF CallInv, OnWire, Content, done
<1>8. OneTry'
  <2>1. \A i \in DOMAIN out' : out'[i].try = attempt
    BY <1>1 DEF CallInv, OneTry
  <2>2. \A i \in DOMAIN got' : got'[i].try = attempt
    <3>1. CASE p.kind = "fatal"
      BY <3>1, <1>3 DEF CallInv, OneTry
    <3>2. CASE p.kind # "fatal"
      <4>1. p.try = attempt
        BY <1>1 DEF CallInv, OneTry
      <4>2. Len(got) \in Nat
        BY DEF CallInv, CallTypes
      <4> QED BY <4>1, <4>2, <3>2, <1>5 DEF CallInv, OneTry
    <3> QED BY <3>1, <3>2
  <2>3. out # <<>>
    BY <1>1
  <2>4. p.kind = "fatal" => out' = <<>>
    <3>1. p.kind = "fatal" => Len(out) = 1
      BY <1>1 DEF CallInv, OnWire, Content
    <3> QED BY <3>1, <1>1, EmptySeq
  <2> QED BY <2>1, <2>2, <2>3, <2>4, <1>2, <1>3 DEF CallInv, OneTry
<1>9. Counted'
  <2>1. (done <=> done') /\ (Sound <=> Sound') /\ (Forwarding <=> Forwarding')
    BY <1>2 DEF done, Sound, Forwarding
  <2>2. CASE p.kind = "fatal"
    BY <2>1, <2>2, <1>2, <1>3, <1>4 DEF Counted, Forwarding
  <2>3. CASE p.kind # "fatal"
    <3>1. Len(got') + Len(out') = Len(got) + Len(out) /\ Len(got') \in Nat /\ Len(out') \in Nat
          /\ Len(got) \in Nat /\ Len(out) \in Nat /\ Len(inch) \in Nat
      <4>1. Len(got) \in Nat /\ Len(inch) \in Nat
        BY DEF CallInv, CallTypes
      <4>2. Len(got') = Len(got) + 1
        BY <2>3, <1>5
      <4>3. Len(out') = Len(out) - 1 /\ Len(out) \in Nat \ {0}
        BY <1>1
      <4> QED BY <4>1, <4>2, <4>3
    <3>2. (\E i \in DOMAIN out : out[i].kind = "fatal") => \E i \in DOMAIN out' : out'[i].kind = "fatal"
      <4> SUFFICES ASSUME NEW i \in DOMAIN out, out[i].kind = "fatal"
                   PROVE \E j \in DOMAIN out' : out'[j].kind = "fatal"
        OBVIOUS
      <4>1. i - 1 \in DOMAIN out' /\ out'[i - 1] = out[i]
        BY <2>3, <1>1
      <4> QED BY <4>1
    <3>3. caller' = "reading"
      BY <2>3, <1>2, <1>3
    <3>4. Sound /\ (relay = "read" \/ Forwarding) =>
            Len(read) = (Len(got') + Len(out')) + (IF relay = "read" THEN 0 ELSE 1) + Len(inch)
      BY <3>1 DEF CallInv, Counted, Forwarding
    <3>5. /\ relay' = "read" /\ Sound' => Len(read') = Len(got') + Len(out') + Len(inch')
          /\ Forwarding' /\ Sound' => Len(read') = Len(got') + Len(out') + 1 + Len(inch')
      BY <3>4, <3>1, <2>1, <1>2 DEF Forwarding
    <3> QED BY <3>1, <3>2, <3>3, <3>5, <2>1, <1>2 DEF CallInv, Counted
  <2> QED BY <2>2, <2>3
<1>10. Flow'
  <2>1. \A d, n : SameAt(d, n)' <=> SameAt(d, n)
    BY <1>2 DEF SameAt, SamePiece
  <2>2. Len(got) \in Nat /\ Flow /\ DOMAIN got = 1..Len(got)
    BY DEF CallInv, CallTypes
  <2>3. \A i \in DOMAIN out' : i + 1 \in DOMAIN out /\ out'[i] = out[i + 1] /\ i \in Nat
    BY <1>1
  <2>4. CASE p.kind = "fatal"
    <3>1. relay' = "off" /\ out' = <<>> /\ got' = got
      <4>1. Len(out) = 1
        BY <2>4, <1>1 DEF CallInv, OnWire, Content
      <4> QED BY <4>1, <2>4, <1>1, <1>2, <1>3, <1>4, EmptySeq
    <3> QED BY <3>1, <2>1, <2>2 DEF Flow, GotInPlace, OutInPlace, HeldInPlace, InchInPlace, Forwarding
  <2>5. CASE p.kind # "fatal"
    <3>1. SameAt(p, Len(got) + 1)
      <4>1. 1 \in DOMAIN out
        BY <1>1
      <4> QED BY <4>1, <2>2, <2>5, <1>1 DEF Flow, OutInPlace
    <3>2. GotInPlace'
      <4>1. \A i \in DOMAIN got' : i \in DOMAIN got \/ i = Len(got) + 1
        BY <2>2, <2>5, <1>5
      <4> QED BY <4>1, <3>1, <2>1, <2>2, <2>5, <1>5 DEF Flow, GotInPlace
    <3>3. \A i \in Nat : Len(got') + i = Len(got) + (i + 1)
      BY <2>2, <2>5, <1>5
    <3>4. OutInPlace'
      BY <3>3, <2>1, <2>2, <2>3 DEF Flow, OutInPlace
    <3>5. Len(got') + Len(out') = Len(got) + Len(out) /\ (Forwarding' <=> Forwarding)
      <4>1. Len(got') = Len(got) + 1 /\ Len(out') = Len(out) - 1 /\ Len(out) \in Nat
        BY <2>5, <1>1, <1>5
      <4> QED BY <4>1, <2>2, <1>2 DEF Forwarding
    <3>6. HeldInPlace' /\ InchInPlace'
      BY <3>5, <2>1, <2>2, <1>2 DEF Flow, HeldInPlace, InchInPlace, InchFrom
    <3> QED BY <3>2, <3>4, <3>6 DEF Flow
  <2> QED BY <2>4, <2>5
<1> QED BY <1>6, <1>7, <1>8, <1>9, <1>10 DEF CallInv

LEMMA CallGoesOn ==
  ASSUME CallInv, CallNext PROVE CallInv'
<1>1. CASE Upstream
  BY <1>1, AdapterSendsStep, AdapterSkipsStep, AdapterReadErrorStep, ChatReplyStep, OpensStep DEF Upstream, Hangs
<1>2. CASE CallSteps
  BY <1>2, ChatRetryStep, ChatFailsStep, OpenRetriedStep, OpenFailsStep, WakeStep, SeesDoneStep,
     TakesStep, FindsClosedStep, ForwardsStep, GivesUpStep, DrainsStep, EndDrainStep, ReceivesStep,
     StreamClosedStep, AdapterEndsStep, DeadlineStep
     DEF CallSteps
<1> QED BY <1>1, <1>2 DEF CallNext

LEMMA CallStarts ==
  ASSUME CallInv, caller = "off", NEW s, Call(s) PROVE CallInv'
<1> USE ProviderAssumption DEF CallInv, Call
<1>1. relay = "off" /\ adapter = "off" /\ inch = <<>>
  BY DEF OnWire
<1>2. NoReply \in Answers
  BY DEF NoReply, Answers
<1>3. CallTypes'
  BY <1>2 DEF CallTypes
<1>4. OnWire' /\ OneTry'
  BY <1>1 DEF OnWire, OneTry
<1>5. Counted'
  BY DEF Counted, Forwarding
<1>9. Flow'
  BY <1>1 DEF Flow, GotInPlace, OutInPlace, HeldInPlace, InchInPlace, InchFrom, Forwarding, OneTry
<1> QED BY <1>3, <1>4, <1>5, <1>9

(* The caller has its reply, or never asked.                                  *)
LEMMA CallEnds ==
  ASSUME CallInv, caller \in {"off", "failed", "replied"}, Hangup, UNCHANGED callRest
  PROVE  CallInv' /\ caller' = "off"
<1> USE DEF CallInv, Hangup, callRest, relayVars
<1>1. relay = "off" /\ adapter = "off" /\ inch = <<>>
  BY DEF OnWire
<1>2. NoReply \in Answers
  BY DEF NoReply, Answers
<1>3. CallTypes'
  BY <1>1, <1>2, ProviderAssumption DEF CallTypes
<1>4. OnWire' /\ OneTry'
  BY <1>1 DEF OnWire, OneTry
<1>5. Counted'
  BY <1>1 DEF Counted, Forwarding
<1>9. Flow'
  BY <1>1 DEF Flow, GotInPlace, OutInPlace, HeldInPlace, InchInPlace, InchFrom, Forwarding, OneTry
<1> QED BY <1>3, <1>4, <1>5, <1>9

LEMMA CallKept ==
  ASSUME CallInv, UNCHANGED callVars, (done => done') \/ caller = "off"
  PROVE  CallInv' /\ caller' = caller
<1> USE DEF CallInv, callVars, relayVars, wireVars
<1>1. CallTypes' /\ OneTry'
  BY DEF CallTypes, OneTry
<1>2. OnWire'
  BY DEF OnWire
<1>3. Counted'
  BY DEF Counted, Forwarding, Sound, OnWire
<1>4. Flow'
  BY FlowKept DEF Forwarding
<1> QED BY <1>1, <1>2, <1>3, <1>4

(***************************************************************************)
(* The steps of a turn: what a commit does, and what becomes of the call.    *)
(***************************************************************************)
LEMMA AppendUserDoes ==
  ASSUME AppendUser
  PROVE  /\ pc = "begin"
         /\ UNCHANGED <<parent, callRest, tools, turnVars, offered, request, calls, execVars, effects, round>>
         /\ \/ EndTurn("failed") /\ hist' = hist
            \/ /\ Accepted(<<User>>, TRUE) /\ hist' = hist \o <<User>>
               /\ pc' = IF mode.planned THEN "plan" ELSE "prepare"
               /\ UNCHANGED callVars /\ UNCHANGED outcome
BY DEF AppendUser, Commit, callVars, callRest, noHangup, wireVars, relayVars, loopVars

LEMMA AnswerDoes ==
  ASSUME Answer
  PROVE  /\ pc = "calling" /\ caller = "replied"
         /\ UNCHANGED <<parent, callRest, tools, turnVars, round, offered, request, calls, execVars, effects>>
         /\ pc' = "idle" /\ Hangup
         /\ \/ outcome' = "failed" /\ hist' = hist
            \/ /\ Accepted(<<Assistant(Merged)>>, HasText) /\ hist' = hist \o <<Assistant(Merged)>>
               /\ outcome' = "ok"
BY DEF Answer, Commit, EndTurn

LEMMA RecordDoes ==
  ASSUME Record
  PROVE  /\ pc = "acting" /\ AllOver /\ EndBatch
         /\ UNCHANGED <<parent, callRest, tools, turnVars, offered, request, calls, effects>>
         /\ \/ EndTurn("failed") /\ hist' = hist /\ round' = round
            \/ /\ Accepted(Unit, TRUE) /\ hist' = hist \o Unit /\ round' = round + 1
               /\ pc' = "prepare" /\ UNCHANGED callVars /\ UNCHANGED outcome
BY DEF Record, Commit, callVars, callRest, noHangup, wireVars, relayVars, loopVars

(* The turn owns a call exactly while it waits for the reply.                 *)
StreamInv ==
  CallInv /\ (pc = "calling" <=> caller # "off")

LEMMA StreamInitially == Init => StreamInv
<1> SUFFICES ASSUME Init PROVE StreamInv
  OBVIOUS
<1> USE ProviderAssumption DEF Init, CallInit
<1>1. NoReply \in Answers
  BY DEF NoReply, Answers
<1>2. CallTypes
  BY <1>1, ErrorChunks DEF CallTypes
<1>3. OnWire /\ OneTry /\ Counted
  BY DEF OnWire, OneTry, Counted, Forwarding
<1>4. Flow
  BY DEF Flow, GotInPlace, OutInPlace, HeldInPlace, InchInPlace, Forwarding
<1> QED BY <1>2, <1>3, <1>4 DEF StreamInv, CallInv

LEMMA StreamStays ==
  ASSUME StreamInv, [Next]_vars PROVE StreamInv'
<1> USE DEF StreamInv
<1>1. CASE UNCHANGED vars
  BY <1>1, CallKept DEF vars, turnVars, loopVars, done, callVars
<1>2. CASE NewTurn
  <2>1. UNCHANGED callVars /\ caller = "off" /\ pc' = "begin"
    BY <1>2 DEF NewTurn
  <2> QED BY <2>1, CallKept
<1>3. CASE AppendUser
  <2>1. caller = "off" /\ parent' = parent /\ UNCHANGED callRest
    BY <1>3, AppendUserDoes
  <2>2. CASE EndTurn("failed")
    BY <2>1, <2>2, CallEnds DEF EndTurn
  <2>3. CASE UNCHANGED callVars /\ pc' # "calling"
    BY <2>1, <2>3, CallKept
  <2> QED BY <2>2, <2>3, <1>3, AppendUserDoes
<1>4. CASE RunPlan
  <2>1. caller = "off" /\ UNCHANGED <<parent, callRest>>
    BY <1>4 DEF RunPlan
  <2>2. CASE EndTurn("failed")
    BY <2>1, <2>2, CallEnds DEF EndTurn
  <2>3. CASE UNCHANGED noHangup /\ pc' = "prepare"
    <3>1. UNCHANGED callVars
      BY <2>1, <2>3 DEF noHangup, callRest, callVars, wireVars, relayVars
    <3> QED BY <2>1, <2>3, <3>1, CallKept
  <2> QED BY <1>4, <2>2, <2>3 DEF RunPlan
<1>5. CASE PrepareFails
  BY <1>5, CallEnds DEF PrepareFails, Failed, EndTurn
<1>6. CASE Prepare
  <2>1. caller = "off"
    BY <1>6 DEF Prepare
  <2> QED BY <2>1, <1>6, CallStarts DEF Prepare, Call
<1>7. CASE Answer
  <2>1. pc' = "idle" /\ CallInv' /\ caller' = "off"
    BY <1>7, AnswerDoes, CallEnds
  <2> QED BY <2>1, <1>7
<1>8. CASE Act
  <2>1. pc' = "acting" /\ CallInv' /\ caller' = "off"
    BY <1>8, CallEnds DEF Act
  <2> QED BY <2>1, <1>8
<1>9. CASE TurnFails
  BY <1>9, CallEnds DEF TurnFails, Failed, EndTurn
<1>10. CASE Record
  <2>1. caller = "off" /\ parent' = parent /\ UNCHANGED callRest
    BY <1>10, RecordDoes
  <2>2. CASE EndTurn("failed")
    BY <2>1, <2>2, CallEnds DEF EndTurn
  <2>3. CASE UNCHANGED callVars /\ pc' # "calling"
    BY <2>1, <2>3, CallKept
  <2> QED BY <2>2, <2>3, <1>10, RecordDoes
<1>11. ASSUME NEW i \in DOMAIN calls, RunCall(i) PROVE StreamInv'
  BY <1>11, CallKept DEF RunCall, done
<1>12. CASE RivalTakes \/ RivalReturns \/ Registry \/ CancelTurn
  <2>1. UNCHANGED callVars /\ pc' = pc /\ (done => done')
    BY <1>12 DEF RivalTakes, RivalReturns, elsewhere, Registry, CancelTurn, done, callVars
  <2> QED BY <2>1, CallKept
<1>13. CASE ProviderStep
  <2>1. CallInv' /\ pc' = pc
    BY <1>13, CallGoesOn DEF ProviderStep
  <2>2. caller' = "off" <=> caller = "off"
    BY <1>13 DEF ProviderStep, CallNext, Upstream, CallSteps, Hangs, Nothing, ChatReply, ChatRetry,
       ChatFails, OpenRetried, OpenFails, Wake, SeesDone, Takes, FindsClosed, Forwards, GivesUp,
       Drains, EndDrain, Receives, StreamClosed, AdapterEnds, Deadline, AdapterSends, AdapterSkips,
       AdapterReadError, Opens
  <2> QED BY <2>1, <2>2
<1> QED BY <1>1, <1>2, <1>3, <1>4, <1>5, <1>6, <1>7, <1>8, <1>9, <1>10, <1>11, <1>12, <1>13
   DEF Next, Loop

(* In every turn, whatever the model, the network, the timeouts and the       *)
(* caller do: the Agent gets, piece by piece, what the adapter could read of  *)
(* one attempt, it goes on with all of that, or the call was done; and        *)
(* neither goroutine of the call outlives it.                                 *)
THEOREM StreamsStaySound == Spec => []StreamsSound
<1>1. StreamInv => StreamsSound
  <2> SUFFICES ASSUME StreamInv PROVE StreamsSound
    OBVIOUS
  <2>1. OneAttempt
    BY DEF StreamInv, CallInv, OneTry, OneAttempt
  <2>2. Collected
    BY DEF StreamInv, CallInv, OnWire, Collected
  <2>3. NothingLost
    <3>1. CallTypes /\ GotInPlace /\ Counted
      BY DEF StreamInv, CallInv, Flow
    <3>2. \A i \in DOMAIN got : i \in DOMAIN read /\ SamePiece(got[i], read[i])
      BY <3>1 DEF GotInPlace, SameAt
    <3>3. DOMAIN got = 1..Len(got) /\ DOMAIN read = 1..Len(read) /\ Len(got) \in Nat /\ Len(read) \in Nat
      BY <3>1 DEF CallTypes
    <3>4. Len(got) <= Len(read)
      BY <3>2, <3>3
    <3> QED BY <3>1, <3>2, <3>4 DEF NothingLost, Counted
  <2> QED BY <2>1, <2>2, <2>3 DEF StreamsSound
<1>2. Init => StreamInv
  BY StreamInitially
<1>3. StreamInv /\ [Next]_vars => StreamInv'
  BY StreamStays
<1> QED BY <1>1, <1>2, <1>3, PTL DEF Spec

(***************************************************************************)
(* The positions of a set, in ascending order.                              *)
(***************************************************************************)
Rank(K, x) == Cardinality({y \in K : y <= x})

LEMMA RankRises ==
  ASSUME NEW K \in SUBSET Int, IsFiniteSet(K)
  PROVE  /\ Cardinality(K) \in Nat
         /\ \A x \in K : Rank(K, x) \in 1..Cardinality(K)
         /\ \A x, z \in K : x < z => Rank(K, x) < Rank(K, z)
<1> DEFINE below(x) == {y \in K : y <= x}
<1>1. ASSUME NEW x \in K
      PROVE  /\ below(x) \in SUBSET K /\ IsFiniteSet(below(x)) /\ x \in below(x)
             /\ Cardinality(below(x)) \in Nat /\ Cardinality(below(x)) <= Cardinality(K)
             /\ Cardinality(below(x)) # 0
  <2>1. below(x) \in SUBSET K /\ x \in below(x)
    OBVIOUS
  <2> HIDE DEF below
  <2>2. /\ IsFiniteSet(below(x)) /\ Cardinality(below(x)) \in Nat
        /\ Cardinality(below(x)) <= Cardinality(K)
    BY <2>1, FS_Subset, FS_CardinalityType
  <2>3. Cardinality(below(x)) # 0
    BY <2>1, <2>2, FS_EmptySet
  <2> QED BY <2>1, <2>2, <2>3
<1>2. ASSUME NEW x \in K, NEW z \in K, x < z
      PROVE  Cardinality(below(x)) < Cardinality(below(z))
  <2>1. below(x) \in SUBSET below(z) /\ z \in below(z) /\ z \notin below(x)
    <3>1. \A y \in K : y \in Int
      OBVIOUS
    <3>2. \A y \in K : y <= x => y <= z
      BY <1>2, <3>1
    <3>3. ~(z <= x) /\ z <= z
      BY <1>2, <3>1
    <3> QED BY <3>2, <3>3
  <2> HIDE DEF below
  <2>2. /\ Cardinality(below(x)) <= Cardinality(below(z))
        /\ Cardinality(below(x)) # Cardinality(below(z))
    BY <1>1, <2>1, FS_Subset
  <2> QED BY <1>1, <2>2
<1>3. Cardinality(K) \in Nat
  BY FS_CardinalityType
<1> HIDE DEF below
<1>4. \A x \in K : Rank(K, x) = Cardinality(below(x))
  BY DEF Rank, below
<1> QED BY <1>1, <1>2, <1>3, <1>4

(* Nth lists the members of K: it goes up, and misses none.                   *)
LEMMA NthLists ==
  ASSUME NEW K \in SUBSET Int, IsFiniteSet(K)
  PROVE  /\ Cardinality(K) \in Nat
         /\ \A n \in 1..Cardinality(K) : Nth(K, n) \in K /\ Rank(K, Nth(K, n)) = n
         /\ \A x \in K : Rank(K, x) \in 1..Cardinality(K) /\ Nth(K, Rank(K, x)) = x
         /\ \A m, n \in 1..Cardinality(K) : m < n <=> Nth(K, m) < Nth(K, n)
<1> DEFINE rank == [x \in K |-> Rank(K, x)]
           N == 1..Cardinality(K)
<1>1. /\ Cardinality(K) \in Nat /\ \A x \in K : Rank(K, x) \in N
      /\ \A x, z \in K : x < z => Rank(K, x) < Rank(K, z)
  BY RankRises
<1>2. IsFiniteSet(N) /\ Cardinality(N) = Cardinality(K)
  BY <1>1, FS_Interval
<1>3. \A x, z \in K : Rank(K, x) = Rank(K, z) => x = z
  BY <1>1
<1>4. rank \in Injection(K, N)
  <2>1. rank \in [K -> N]
    BY <1>1
  <2>2. \A x, z \in K : rank[x] = rank[z] => x = z
    BY <1>3
  <2> HIDE DEF rank, N
  <2> QED BY <2>1, <2>2 DEF Injection, IsInjective
<1>5. \A n \in N : \E x \in K : Rank(K, x) = n
  <2> HIDE DEF rank
  <2>1. rank \in Surjection(K, N)
    BY <1>2, <1>4, FS_Injection
  <2>2. \A n \in N : \E x \in K : rank[x] = n
    BY <2>1 DEF Surjection
  <2> QED BY <2>2 DEF rank
<1>6. ASSUME NEW n \in N PROVE Nth(K, n) \in K /\ Rank(K, Nth(K, n)) = n
  <2>1. \E x \in K : Cardinality({y \in K : y <= x}) = n
    BY <1>5 DEF Rank
  <2> QED BY <2>1 DEF Nth, Rank
<1>7. ASSUME NEW x \in K PROVE Nth(K, Rank(K, x)) = x
  BY <1>1, <1>3, <1>6
<1>8. ASSUME NEW m \in N, NEW n \in N PROVE m < n <=> Nth(K, m) < Nth(K, n)
  <2>1. /\ Nth(K, m) \in K /\ Rank(K, Nth(K, m)) = m /\ Nth(K, n) \in K
        /\ Rank(K, Nth(K, n)) = n
    BY <1>6
  <2>2. m \in Int /\ n \in Int /\ Nth(K, m) \in Int /\ Nth(K, n) \in Int
    <3>1. m \in Int /\ n \in Int
      BY <1>1
    <3>2. \A y \in K : y \in Int
      OBVIOUS
    <3> QED BY <2>1, <3>1, <3>2
  <2>3. Nth(K, m) < Nth(K, n) => m < n
    BY <1>1, <2>1
  <2>4. Nth(K, n) < Nth(K, m) => n < m
    BY <1>1, <2>1
  <2> QED BY <2>1, <2>2, <2>3, <2>4
<1> QED BY <1>1, <1>6, <1>7, <1>8

(***************************************************************************)
(* The permits of a batch of calls.                                         *)
(***************************************************************************)
Stages == {"queued", "gate", "global", "running", "backoff", "over"}

ExecTypes ==
  /\ IsFiniteSet(Calls) /\ stage \in [Calls -> Stages]
  /\ attempts \in [Calls -> 0..DefaultMaxRetry + 1]
  /\ \A i \in Calls : stage[i] # "over" => attempts[i] <= DefaultMaxRetry
  /\ sessGate \in 0..MaxConcurrentPerSession /\ global \in 0..MaxConcurrent
  /\ rivals \in 0..MaxConcurrent
ExecInv == ExecTypes /\ PermitsExact

LEMMA Counts ==
  ASSUME ExecTypes
  PROVE  /\ IsFiniteSet(HoldsSession) /\ Cardinality(HoldsSession) \in Nat
         /\ IsFiniteSet(HoldsGlobal) /\ Cardinality(HoldsGlobal) \in Nat
<1>1. HoldsSession \in SUBSET Calls /\ HoldsGlobal \in SUBSET Calls
  BY DEF HoldsSession, HoldsGlobal, At
<1> QED BY <1>1, FS_Subset, FS_CardinalityType DEF ExecTypes

(* One call moves: it takes a permit, gives one back, or neither.             *)
LEMMA CallMoves ==
  ASSUME ExecTypes, NEW i \in Calls, NEW s \in Stages, stage' = [stage EXCEPT ![i] = s]
  PROVE  /\ Calls' = Calls /\ stage' \in [Calls -> Stages] /\ stage'[i] = s
         /\ \A j \in Calls : j # i => stage'[j] = stage[j]
         /\ s \in {"global", "running", "backoff"} /\ i \notin HoldsSession => Cardinality(HoldsSession') = Cardinality(HoldsSession) + 1
         /\ s \in {"global", "running", "backoff"} /\ i \in HoldsSession => Cardinality(HoldsSession') = Cardinality(HoldsSession)
         /\ s \notin {"global", "running", "backoff"} /\ i \in HoldsSession => Cardinality(HoldsSession') = Cardinality(HoldsSession) - 1
         /\ s \notin {"global", "running", "backoff"} /\ i \notin HoldsSession => Cardinality(HoldsSession') = Cardinality(HoldsSession)
         /\ s \in {"running", "backoff"} /\ i \notin HoldsGlobal => Cardinality(HoldsGlobal') = Cardinality(HoldsGlobal) + 1
         /\ s \in {"running", "backoff"} /\ i \in HoldsGlobal => Cardinality(HoldsGlobal') = Cardinality(HoldsGlobal)
         /\ s \notin {"running", "backoff"} /\ i \in HoldsGlobal => Cardinality(HoldsGlobal') = Cardinality(HoldsGlobal) - 1
         /\ s \notin {"running", "backoff"} /\ i \notin HoldsGlobal => Cardinality(HoldsGlobal') = Cardinality(HoldsGlobal)
<1>1. /\ Calls' = Calls /\ stage' \in [Calls -> Stages] /\ stage'[i] = s
      /\ \A j \in Calls : j # i => stage'[j] = stage[j]
  BY DEF ExecTypes, Calls
<1>2. /\ HoldsSession' = IF s \in {"global", "running", "backoff"}
                         THEN HoldsSession \cup {i} ELSE HoldsSession \ {i}
      /\ HoldsGlobal' = IF s \in {"running", "backoff"}
                        THEN HoldsGlobal \cup {i} ELSE HoldsGlobal \ {i}
  <2> HIDE DEF Calls
  <2> QED BY <1>1 DEF HoldsSession, HoldsGlobal, At
<1>3. /\ s \in {"global", "running", "backoff"} /\ i \notin HoldsSession => Cardinality(HoldsSession') = Cardinality(HoldsSession) + 1
      /\ s \in {"global", "running", "backoff"} /\ i \in HoldsSession => Cardinality(HoldsSession') = Cardinality(HoldsSession)
      /\ s \notin {"global", "running", "backoff"} /\ i \in HoldsSession => Cardinality(HoldsSession') = Cardinality(HoldsSession) - 1
      /\ s \notin {"global", "running", "backoff"} /\ i \notin HoldsSession => Cardinality(HoldsSession') = Cardinality(HoldsSession)
  <2>1. /\ IsFiniteSet(HoldsSession) /\ Cardinality(HoldsSession) \in Nat
        /\ Cardinality(HoldsSession \cup {i}) =
             IF i \in HoldsSession THEN Cardinality(HoldsSession) ELSE Cardinality(HoldsSession) + 1
        /\ Cardinality(HoldsSession \ {i}) =
             IF i \in HoldsSession THEN Cardinality(HoldsSession) - 1 ELSE Cardinality(HoldsSession)
    BY Counts, FS_AddElement, FS_RemoveElement
  <2>2. CASE s \in {"global", "running", "backoff"}
    <3>1. Cardinality(HoldsSession') = Cardinality(HoldsSession \cup {i})
      BY <1>2, <2>2
    <3> QED BY <2>1, <2>2, <3>1
  <2>3. CASE s \notin {"global", "running", "backoff"}
    <3>1. Cardinality(HoldsSession') = Cardinality(HoldsSession \ {i})
      BY <1>2, <2>3
    <3> QED BY <2>1, <2>3, <3>1
  <2> QED BY <2>2, <2>3
<1>4. /\ s \in {"running", "backoff"} /\ i \notin HoldsGlobal => Cardinality(HoldsGlobal') = Cardinality(HoldsGlobal) + 1
      /\ s \in {"running", "backoff"} /\ i \in HoldsGlobal => Cardinality(HoldsGlobal') = Cardinality(HoldsGlobal)
      /\ s \notin {"running", "backoff"} /\ i \in HoldsGlobal => Cardinality(HoldsGlobal') = Cardinality(HoldsGlobal) - 1
      /\ s \notin {"running", "backoff"} /\ i \notin HoldsGlobal => Cardinality(HoldsGlobal') = Cardinality(HoldsGlobal)
  <2>1. /\ IsFiniteSet(HoldsGlobal) /\ Cardinality(HoldsGlobal) \in Nat
        /\ Cardinality(HoldsGlobal \cup {i}) =
             IF i \in HoldsGlobal THEN Cardinality(HoldsGlobal) ELSE Cardinality(HoldsGlobal) + 1
        /\ Cardinality(HoldsGlobal \ {i}) =
             IF i \in HoldsGlobal THEN Cardinality(HoldsGlobal) - 1 ELSE Cardinality(HoldsGlobal)
    BY Counts, FS_AddElement, FS_RemoveElement
  <2>2. CASE s \in {"running", "backoff"}
    <3>1. Cardinality(HoldsGlobal') = Cardinality(HoldsGlobal \cup {i})
      BY <1>2, <2>2
    <3> QED BY <2>1, <2>2, <3>1
  <2>3. CASE s \notin {"running", "backoff"}
    <3>1. Cardinality(HoldsGlobal') = Cardinality(HoldsGlobal \ {i})
      BY <1>2, <2>3
    <3> QED BY <2>1, <2>3, <3>1
  <2> QED BY <2>2, <2>3
<1> QED BY <1>1, <1>3, <1>4

(* Leaving gives back what was taken.                                         *)
LEMMA LeaveStep ==
  ASSUME ExecInv, NEW i \in Calls, Leave(i), UNCHANGED rivals,
         attempts' \in [Calls -> 0..DefaultMaxRetry + 1],
         \A j \in Calls : j # i => attempts'[j] = attempts[j]
  PROVE  ExecInv' /\ Calls' = Calls
<1> USE ToolAssumption DEF ExecInv
<1>1. stage' = [stage EXCEPT ![i] = "over"] /\ "over" \in Stages
  BY DEF Leave, Stages
<1>2. /\ Calls' = Calls /\ stage' \in [Calls -> Stages] /\ stage'[i] = "over"
      /\ \A j \in Calls : j # i => stage'[j] = stage[j]
      /\ Cardinality(HoldsSession') = Cardinality(HoldsSession) - (IF i \in HoldsSession THEN 1 ELSE 0)
      /\ Cardinality(HoldsGlobal') = Cardinality(HoldsGlobal) - (IF i \in HoldsGlobal THEN 1 ELSE 0)
  <2>1. Cardinality(HoldsSession) \in Nat /\ Cardinality(HoldsGlobal) \in Nat
    BY Counts
  <2>2. "over" \notin {"global", "running", "backoff"} /\ "over" \notin {"running", "backoff"}
    OBVIOUS
  <2>3. /\ Calls' = Calls /\ stage' \in [Calls -> Stages] /\ stage'[i] = "over"
        /\ \A j \in Calls : j # i => stage'[j] = stage[j]
        /\ i \in HoldsSession => Cardinality(HoldsSession') = Cardinality(HoldsSession) - 1
        /\ i \notin HoldsSession => Cardinality(HoldsSession') = Cardinality(HoldsSession)
        /\ i \in HoldsGlobal => Cardinality(HoldsGlobal') = Cardinality(HoldsGlobal) - 1
        /\ i \notin HoldsGlobal => Cardinality(HoldsGlobal') = Cardinality(HoldsGlobal)
    BY <1>1, <2>2, CallMoves
  <2> QED BY <2>1, <2>3
<1>3. /\ i \in HoldsSession => Cardinality(HoldsSession) # 0
      /\ i \in HoldsGlobal => Cardinality(HoldsGlobal) # 0
      /\ Cardinality(HoldsSession) \in Nat /\ Cardinality(HoldsGlobal) \in Nat
  BY Counts, FS_EmptySet
<1>4. /\ sessGate' = sessGate - (IF i \in HoldsSession THEN 1 ELSE 0)
      /\ global' = global - (IF i \in HoldsGlobal THEN 1 ELSE 0)
  BY DEF Leave, SessionLeft
<1>5. PermitsExact'
  BY <1>2, <1>3, <1>4 DEF PermitsExact, ExecTypes
<1>6. sessGate' \in 0..MaxConcurrentPerSession /\ global' \in 0..MaxConcurrent
  BY <1>3, <1>4 DEF PermitsExact, ExecTypes
<1>7. \A j \in Calls : stage'[j] # "over" => attempts'[j] <= DefaultMaxRetry
  BY <1>2 DEF ExecTypes
<1> HIDE DEF ExecInv
<1>8. ExecTypes'
  BY <1>2, <1>6, <1>7 DEF ExecTypes, ExecInv
<1> QED BY <1>2, <1>5, <1>8 DEF ExecInv

(* Whatever a call does, no permit is taken beyond the channels' capacity.    *)
LEMMA CallStep ==
  ASSUME ExecInv, NEW i \in Calls, NEW c,
         \/ \E admitted \in BOOLEAN : Take(i, admitted)
         \/ EnterSession(i) \/ EnterGlobal(i) \/ GiveUp(i, c) \/ Backoff(i) \/ Returns(i, c)
  PROVE  ExecInv' /\ Calls' = Calls
<1> USE ToolAssumption DEF ExecInv
<1>1. /\ Cardinality(HoldsSession) \in Nat /\ Cardinality(HoldsGlobal) \in Nat
      /\ sessGate \in Nat /\ global \in Nat /\ rivals \in Nat
  BY Counts DEF ExecTypes
<1>2. ASSUME NEW admitted \in BOOLEAN, Take(i, admitted) PROVE ExecInv' /\ Calls' = Calls
  <2> DEFINE s == IF admitted THEN "gate" ELSE "over"
  <2>1. stage' = [stage EXCEPT ![i] = s] /\ stage[i] = "queued"
        /\ UNCHANGED <<attempts, gateVars, rivals>>
    BY <1>2 DEF Take
  <2>2. s \in Stages /\ s \notin {"global", "running", "backoff"} /\ s \notin {"running", "backoff"}
    BY DEF Stages
  <2>3. i \notin HoldsSession /\ i \notin HoldsGlobal
    BY <2>1 DEF HoldsSession, HoldsGlobal, At
  <2> HIDE DEF s
  <2>4. /\ Calls' = Calls /\ stage' \in [Calls -> Stages]
        /\ \A j \in Calls : j # i => stage'[j] = stage[j]
        /\ Cardinality(HoldsSession') = Cardinality(HoldsSession)
        /\ Cardinality(HoldsGlobal') = Cardinality(HoldsGlobal)
    BY <1>1, <2>1, <2>2, <2>3, CallMoves
  <2>5. \A j \in Calls : stage'[j] # "over" => attempts'[j] <= DefaultMaxRetry
    BY <2>1, <2>4 DEF ExecTypes
  <2> QED BY <2>1, <2>4, <2>5 DEF ExecTypes, PermitsExact, gateVars
<1>3. CASE EnterSession(i)
  <2>1. /\ stage' = [stage EXCEPT ![i] = "global"] /\ stage[i] = "gate"
        /\ sessGate < MaxConcurrentPerSession /\ sessGate' = sessGate + 1
        /\ UNCHANGED <<attempts, global, rivals>>
    BY <1>3 DEF EnterSession
  <2>2. "global" \in Stages /\ i \notin HoldsSession /\ i \notin HoldsGlobal
    BY <2>1 DEF Stages, HoldsSession, HoldsGlobal, At
  <2>3. /\ Calls' = Calls /\ stage' \in [Calls -> Stages]
        /\ \A j \in Calls : j # i => stage'[j] = stage[j]
        /\ Cardinality(HoldsSession') = Cardinality(HoldsSession) + 1
        /\ Cardinality(HoldsGlobal') = Cardinality(HoldsGlobal)
    BY <1>1, <2>1, <2>2, CallMoves
  <2>4. \A j \in Calls : stage'[j] # "over" => attempts'[j] <= DefaultMaxRetry
    BY <2>1, <2>3 DEF ExecTypes
  <2> QED BY <2>1, <2>3, <2>4 DEF ExecTypes, PermitsExact
<1>4. CASE EnterGlobal(i)
  <2>1. /\ stage' = [stage EXCEPT ![i] = "running"] /\ stage[i] = "global"
        /\ global < MaxConcurrent /\ global' = global + 1
        /\ UNCHANGED <<attempts, sessGate, rivals>>
    BY <1>4 DEF EnterGlobal
  <2>2. "running" \in Stages /\ i \in HoldsSession /\ i \notin HoldsGlobal
    BY <2>1 DEF Stages, HoldsSession, HoldsGlobal, At
  <2>3. /\ Calls' = Calls /\ stage' \in [Calls -> Stages]
        /\ \A j \in Calls : j # i => stage'[j] = stage[j]
        /\ Cardinality(HoldsSession') = Cardinality(HoldsSession)
        /\ Cardinality(HoldsGlobal') = Cardinality(HoldsGlobal) + 1
    BY <1>1, <2>1, <2>2, CallMoves
  <2>4. \A j \in Calls : stage'[j] # "over" => attempts'[j] <= DefaultMaxRetry
    BY <2>1, <2>3 DEF ExecTypes
  <2>5. PermitsExact' /\ global' \in 0..MaxConcurrent
    BY <1>1, <2>1, <2>3 DEF PermitsExact, ExecTypes
  <2> QED BY <2>1, <2>3, <2>4, <2>5 DEF ExecTypes
<1>5. CASE GiveUp(i, c)
  BY <1>5, LeaveStep DEF GiveUp, ExecTypes
<1>6. ASSUME stage' = [stage EXCEPT ![i] = "running"], stage[i] = "backoff",
             UNCHANGED <<attempts, gateVars, rivals>>
      PROVE  ExecInv' /\ Calls' = Calls
  <2>1. "running" \in Stages /\ i \in HoldsSession /\ i \in HoldsGlobal
    BY <1>6 DEF Stages, HoldsSession, HoldsGlobal, At
  <2>2. /\ Calls' = Calls /\ stage' \in [Calls -> Stages]
        /\ \A j \in Calls : j # i => stage'[j] = stage[j]
        /\ Cardinality(HoldsSession') = Cardinality(HoldsSession)
        /\ Cardinality(HoldsGlobal') = Cardinality(HoldsGlobal)
    BY <1>1, <1>6, <2>1, CallMoves
  <2>3. \A j \in Calls : stage'[j] # "over" => attempts'[j] <= DefaultMaxRetry
    BY <1>6, <2>2 DEF ExecTypes
  <2> QED BY <1>6, <2>2, <2>3 DEF ExecTypes, PermitsExact, gateVars
<1>7. CASE Backoff(i)
  <2>1. CASE Leave(i)
    BY <1>7, <2>1, LeaveStep DEF Backoff, ExecTypes
  <2> QED BY <1>6, <1>7, <2>1 DEF Backoff, gateVars
<1>8. CASE Returns(i, c)
  <2>1. /\ stage[i] = "running" /\ attempts' = [attempts EXCEPT ![i] = attempts[i] + 1]
        /\ UNCHANGED rivals
        /\ \/ Leave(i)
           \/ /\ AttemptsLeft(i) /\ stage' = [stage EXCEPT ![i] = "backoff"] /\ UNCHANGED gateVars
    BY <1>8 DEF Returns, Ends
  <2>2. attempts[i] \in Nat /\ attempts[i] <= DefaultMaxRetry
    BY <2>1 DEF ExecTypes
  <2>3. /\ attempts' \in [Calls -> 0..DefaultMaxRetry + 1] /\ attempts'[i] = attempts[i] + 1
        /\ \A j \in Calls : j # i => attempts'[j] = attempts[j]
    BY <2>1, <2>2 DEF ExecTypes
  <2>4. CASE Leave(i)
    BY <2>1, <2>3, <2>4, LeaveStep
  <2>5. CASE AttemptsLeft(i) /\ stage' = [stage EXCEPT ![i] = "backoff"] /\ UNCHANGED gateVars
    <3>1. "backoff" \in Stages /\ i \in HoldsSession /\ i \in HoldsGlobal
      BY <2>1 DEF Stages, HoldsSession, HoldsGlobal, At
    <3>2. /\ Calls' = Calls /\ stage' \in [Calls -> Stages]
          /\ \A j \in Calls : j # i => stage'[j] = stage[j]
          /\ Cardinality(HoldsSession') = Cardinality(HoldsSession)
          /\ Cardinality(HoldsGlobal') = Cardinality(HoldsGlobal)
      BY <1>1, <2>5, <3>1, CallMoves
    <3>3. attempts'[i] <= DefaultMaxRetry
      BY <2>2, <2>3, <2>5 DEF AttemptsLeft
    <3>4. \A j \in Calls : stage'[j] # "over" => attempts'[j] <= DefaultMaxRetry
      BY <2>3, <3>2, <3>3 DEF ExecTypes
    <3> QED BY <2>1, <2>3, <2>5, <3>2, <3>4 DEF ExecTypes, PermitsExact, gateVars
  <2> QED BY <2>1, <2>4, <2>5
<1> QED BY <1>2, <1>3, <1>4, <1>5, <1>7, <1>8

(* Other sessions take and give back permits of the process alone.            *)
LEMMA RivalStep ==
  ASSUME ExecInv, RivalEnters \/ RivalLeaves
  PROVE  ExecInv' /\ UNCHANGED stage
<1> USE ToolAssumption DEF ExecInv
<1>1. Cardinality(HoldsSession) \in Nat /\ Cardinality(HoldsGlobal) \in Nat
  BY Counts
<1>2. /\ UNCHANGED <<stage, attempts, sessGate>>
      /\ \/ global < MaxConcurrent /\ rivals' = rivals + 1 /\ global' = global + 1
         \/ rivals > 0 /\ rivals' = rivals - 1 /\ global' = global - 1
  BY DEF RivalEnters, RivalLeaves
<1>3. HoldsSession' = HoldsSession /\ HoldsGlobal' = HoldsGlobal /\ Calls' = Calls
  BY <1>2 DEF HoldsSession, HoldsGlobal, At, Calls
<1>4. rivals' \in 0..MaxConcurrent /\ global' \in 0..MaxConcurrent
  BY <1>1, <1>2 DEF ExecTypes, PermitsExact
<1>5. PermitsExact'
  BY <1>1, <1>2, <1>3 DEF PermitsExact, ExecTypes
<1>6. ExecTypes'
  BY <1>2, <1>3, <1>4 DEF ExecTypes
<1> QED BY <1>2, <1>5, <1>6

(* A batch starts with no permit of its own and ends with none.               *)
LEMMA BatchStarts ==
  ASSUME ExecInv, sessGate = 0, global = 0, NEW n \in Nat, StartBatch(n)
  PROVE  ExecInv' /\ Calls' = 1..n
<1> USE ToolAssumption
<1>1. /\ stage' = [i \in 1..n |-> "queued"] /\ attempts' = [i \in 1..n |-> 0]
      /\ rivals' \in 0..MaxConcurrent /\ global' = global + rivals' /\ sessGate' = sessGate
  BY DEF StartBatch
<1>2. Calls' = 1..n /\ IsFiniteSet(1..n)
  BY <1>1, FS_Interval DEF Calls
<1>3. HoldsSession' = {} /\ HoldsGlobal' = {}
  BY <1>1, <1>2 DEF HoldsSession, HoldsGlobal, At
<1>4. PermitsExact'
  BY <1>1, <1>3, FS_EmptySet DEF PermitsExact
<1>5. stage' \in [1..n -> Stages] /\ attempts' \in [1..n -> 0..DefaultMaxRetry + 1]
  BY <1>1 DEF Stages
<1>6. \A i \in 1..n : attempts'[i] <= DefaultMaxRetry
  <2>1. \A i \in 1..n : attempts'[i] = 0
    BY <1>1
  <2> QED BY <2>1
<1>7. sessGate' \in 0..MaxConcurrentPerSession /\ global' \in 0..MaxConcurrent
  <2>1. sessGate' = sessGate /\ global' = global + rivals' /\ rivals' \in 0..MaxConcurrent
    BY <1>1
  <2>2. \A r \in 0..MaxConcurrent : r \in Int
    OBVIOUS
  <2>3. \A r \in 0..MaxConcurrent : 0 + r \in 0..MaxConcurrent
    OBVIOUS
  <2>4. 0 \in 0..MaxConcurrentPerSession
    OBVIOUS
  <2>5. global' = 0 + rivals' /\ sessGate' = 0
    BY <2>1, Zenon
  <2> QED BY <2>1, <2>3, <2>4, <2>5, Zenon
<1>8. ExecTypes'
  BY <1>1, <1>2, <1>5, <1>6, <1>7 DEF ExecTypes
<1> QED BY <1>2, <1>4, <1>8 DEF ExecInv

LEMMA NoBatch ==
  ASSUME stage = <<>>, attempts = <<>>, sessGate = 0, global = 0, rivals = 0
  PROVE  ExecInv /\ Calls = {}
<1> USE ToolAssumption
<1>1. Calls = {} /\ stage \in [{} -> Stages] /\ attempts \in [{} -> 0..DefaultMaxRetry + 1]
  BY DEF Calls
<1>2. HoldsSession = {} /\ HoldsGlobal = {} /\ IsFiniteSet({}) /\ Cardinality({}) = 0
  BY <1>1, FS_EmptySet DEF HoldsSession, HoldsGlobal, At
<1> QED BY <1>1, <1>2 DEF ExecInv, ExecTypes, PermitsExact

LEMMA BatchEnds ==
  ASSUME ExecInv, AllOver, EndBatch
  PROVE  /\ ExecInv' /\ Calls' = {} /\ stage' = <<>>
         /\ sessGate' = 0 /\ global' = 0 /\ rivals' = 0
<1>1. HoldsSession = {} /\ HoldsGlobal = {}
  <2>1. \A i \in Calls : stage[i] = "over"
    BY DEF AllOver, At
  <2> QED BY <2>1 DEF HoldsSession, HoldsGlobal, At
<1>2. sessGate = 0 /\ global = rivals /\ rivals \in Nat
  BY <1>1, FS_EmptySet, ToolAssumption DEF ExecInv, PermitsExact, ExecTypes
<1>3. stage' = <<>> /\ attempts' = <<>> /\ sessGate' = 0 /\ global' = 0 /\ rivals' = 0
  BY <1>2 DEF EndBatch
<1>4. Calls' = {} /\ stage' \in [{} -> Stages] /\ attempts' \in [{} -> 0..DefaultMaxRetry + 1]
  BY <1>3 DEF Calls
<1>5. HoldsSession' = {} /\ HoldsGlobal' = {} /\ IsFiniteSet({}) /\ Cardinality({}) = 0
  BY <1>4, FS_EmptySet DEF HoldsSession, HoldsGlobal, At
<1> QED BY <1>3, <1>4, <1>5, ToolAssumption DEF ExecInv, ExecTypes, PermitsExact

(***************************************************************************)
(* The history.                                                             *)
(***************************************************************************)
CallRecords == [id : Nat, name : Names]
Committed == [role : {"user", "assistant", "tool"}, turn : 0..MaxTurns,
              calls : Seq(CallRecords), call : Nat]

LEMMA DistinctIds ==
  ASSUME NEW cs \in Seq(CallRecords), IdsDistinct(cs)
  PROVE  Cardinality(Ids(cs)) = Len(cs)
<1> DEFINE f == [i \in 1..Len(cs) |-> cs[i].id]
<1>1. Len(cs) \in Nat /\ DOMAIN cs = 1..Len(cs)
  OBVIOUS
<1>2. Ids(cs) = {cs[i].id : i \in 1..Len(cs)}
  BY <1>1 DEF Ids
<1>3. f \in [1..Len(cs) -> Ids(cs)]
  BY <1>2
<1>4. f \in Surjection(1..Len(cs), Ids(cs))
  <2>1. \A c \in Ids(cs) : \E i \in 1..Len(cs) : f[i] = c
    BY <1>2
  <2> HIDE DEF f
  <2> QED BY <1>3, <2>1 DEF Surjection
<1>5. f \in Injection(1..Len(cs), Ids(cs))
  <2>1. \A i, j \in 1..Len(cs) : f[i] = f[j] => i = j
    BY <1>1 DEF IdsDistinct
  <2> HIDE DEF f
  <2> QED BY <1>3, <2>1 DEF Injection, IsInjective
<1>6. IsFiniteSet(1..Len(cs)) /\ Cardinality(1..Len(cs)) = Len(cs)
  BY <1>1, FS_Interval, SMTT(20)
<1> HIDE DEF f
<1> QED BY <1>4, <1>5, <1>6, FS_Surjection

LEMMA PendingIs ==
  ASSUME NEW m, NEW i
  PROVE  \A c : c \in Pending(m, i) <=>
           \E j \in 1..i : c \in Ids(m[j].calls) /\ \A k \in j + 1..i : m[k].call # c
BY DEF Pending

(* What is open behind a message depends on nothing that comes later.         *)
LEMMA PendingOfPrefix ==
  ASSUME NEW X, NEW h \in Seq(X), NEW b \in Seq(X), NEW i \in 0..Len(h)
  PROVE  Pending(h \o b, i) = Pending(h, i)
<1> DEFINE m == h \o b
<1>1. Len(h) \in Nat
  OBVIOUS
<1>2. \A j \in 1..i : j \in 1..Len(h) /\ m[j] = h[j]
  BY <1>1
<1>3. \A j \in 1..i : \A k \in j + 1..i : k \in 1..i
  BY <1>1
<1> HIDE DEF m
<1>4. \A c : c \in Pending(m, i) <=> c \in Pending(h, i)
  BY <1>2, <1>3, PendingIs
<1> QED BY <1>4 DEF m

(* A batch that Turn.Append accepts leaves every call with its one result, as *)
(* Context.Build asks for it: only its first message can make calls, and then *)
(* nothing is open and their ids are distinct.                                *)
LEMMA ChainsGrow ==
  ASSUME NEW h \in Histories, ChainsComplete(h), NEW b \in Histories, b # <<>>,
         ValidBatchSequence(h \o b),
         \A i \in 2..Len(b) : b[i].role # "assistant",
         b[1].role = "assistant" => IdsDistinct(b[1].calls)
  PROVE  ChainsComplete(h \o b)
<1> DEFINE m == h \o b
<1>1. /\ h \in Seq(Committed) /\ b \in Seq(Committed) /\ m \in Seq(Committed)
      /\ Len(h) \in Nat /\ Len(b) \in Nat /\ Len(m) = Len(h) + Len(b)
  <2>1. Histories = Seq(Committed)
    BY DEF Histories, Committed, CallRecords
  <2> HIDE DEF Committed
  <2> QED BY <2>1
<1>2. /\ \A i \in 1..Len(h) : m[i] = h[i]
      /\ \A i \in 1..Len(b) : m[Len(h) + i] = b[i]
  BY <1>1
<1>3. /\ Pending(m, Len(m)) = {}
      /\ \A i \in DOMAIN m :
           /\ m[i].role = "tool" => m[i].call \in Pending(m, i - 1)
           /\ m[i].role = "user" => Pending(m, i - 1) = {}
  <2>1. m # <<>> /\ DOMAIN m = 1..Len(m)
    BY <1>1
  <2> HIDE DEF m
  <2> QED BY <2>1 DEF ValidBatchSequence, m
<1>4. \A i \in 0..Len(h) : Pending(m, i) = Pending(h, i)
  BY <1>1, PendingOfPrefix
<1> HIDE DEF m
<1>5. ASSUME NEW i \in DOMAIN m, m[i].role = "assistant"
      PROVE  /\ Ids(m[i].calls) \cap Pending(m, i - 1) = {}
             /\ Cardinality(Ids(m[i].calls)) = Len(m[i].calls)
  <2>1. i \in 1..Len(m)
    BY <1>1
  <2>2. CASE i <= Len(h)
    <3>1. i \in DOMAIN h /\ m[i] = h[i] /\ i - 1 \in 0..Len(h)
      BY <1>1, <1>2, <2>1, <2>2
    <3>2. Pending(m, i - 1) = Pending(h, i - 1)
      BY <1>4, <3>1
    <3> QED BY <1>5, <3>1, <3>2 DEF ChainsComplete
  <2>3. CASE i > Len(h)
    <3>1. i - Len(h) \in 1..Len(b) /\ m[Len(h) + (i - Len(h))] = b[i - Len(h)]
      BY <1>1, <1>2, <2>1, <2>3
    <3>2. i = Len(h) + 1 /\ m[i] = b[1] /\ i - 1 = Len(h)
      <4>1. m[i] = b[i - Len(h)]
        BY <1>1, <2>1, <3>1
      <4>2. ~(i - Len(h) \in 2..Len(b))
        BY <1>5, <4>1
      <4>3. i - Len(h) = 1
        BY <1>1, <2>1, <3>1, <4>2
      <4> QED BY <1>1, <2>1, <4>1, <4>3
    <3>3. Pending(m, i - 1) = {}
      BY <1>1, <1>4, <3>2 DEF ChainsComplete
    <3>4. b[1].calls \in Seq(CallRecords) /\ IdsDistinct(b[1].calls)
      <4>1. b[1] \in Committed
        BY <1>1, <3>1, <3>2, ElementOfSeq, LenProperties
      <4> QED BY <1>5, <3>2, <4>1 DEF Committed
    <3> QED BY <3>2, <3>3, <3>4, DistinctIds
  <2> QED BY <1>1, <2>1, <2>2, <2>3
<1>6. \A i \in DOMAIN m : m[i].role \in {"user", "assistant", "tool"}
  <2>1. \A i \in DOMAIN m : m[i] \in Committed
    BY <1>1, ElementOfSeq, LenProperties
  <2> QED BY <2>1 DEF Committed
<1>7. ChainsComplete(m)
  BY <1>3, <1>5, <1>6 DEF ChainsComplete
<1> QED BY <1>7 DEF m

(***************************************************************************)
(* The invariant of the turns: a history that is complete, a batch that has  *)
(* the permits it took, and effects that are the history's or the batch's.   *)
(***************************************************************************)
TurnTypes ==
  /\ pc \in {"idle", "begin", "plan", "prepare", "calling", "acting"}
  /\ hist \in Histories /\ Len(hist) <= MaxMessages
  /\ tools \subseteq Names /\ offered \subseteq Names
  /\ turn \in 0..MaxTurns /\ round \in 0..MaxRounds - 1
  /\ outcome \in {"none", "ok", "failed"} /\ calls \in Seq(CallRecords)

BatchInv ==
  /\ ExecInv
  /\ pc = "acting" => /\ Calls = DOMAIN calls /\ RoundsLeft
                      /\ \A k \in DOMAIN calls : calls[k].name \in offered
  /\ pc # "acting" => Calls = {} /\ sessGate = 0 /\ global = 0

OfBatch(e) == \E k \in DOMAIN calls : e.id = calls[k].id /\ e.name = calls[k].name
OkRecorded ==
  outcome = "ok" => /\ pc = "idle" /\ hist # <<>>
                    /\ hist[Len(hist)].turn = turn /\ hist[Len(hist)].role = "assistant"
                    /\ hist[Len(hist)].calls = <<>>
EffectsInv ==
  /\ \A e \in effects : e.turn \in 0..turn /\ e.round \in Nat
  /\ \A e \in effects : e.turn = turn =>
       /\ outcome # "failed" => Recorded(e) \/ (pc = "acting" /\ OfBatch(e))
       /\ pc \notin {"idle", "acting"} => e.round < round
       /\ pc = "acting" => e.round <= round /\ (e.round = round => e.name \in offered)
  /\ pc # "idle" => outcome = "none"
  /\ OkRecorded

TurnInv == TurnTypes /\ HistoryComplete /\ BatchInv /\ EffectsInv
IInv == StreamInv /\ TurnInv

(* A commit leaves a complete history, with what was recorded in its place.   *)
LEMMA CommitKeeps ==
  ASSUME TurnTypes, HistoryComplete, NEW b \in Histories, b # <<>>, NEW text,
         Accepted(b, text), hist' = hist \o b,
         \A i \in 2..Len(b) : b[i].role # "assistant"
  PROVE  /\ hist' \in Histories /\ Len(hist') <= MaxMessages /\ HistoryComplete'
         /\ hist' # <<>> /\ Len(hist') = Len(hist) + Len(b)
         /\ \A i \in 1..Len(hist) : i \in DOMAIN hist' /\ hist'[i] = hist[i]
         /\ \A i \in 1..Len(b) : Len(hist) + i \in DOMAIN hist' /\ hist'[Len(hist) + i] = b[i]
         /\ \A e : Recorded(e) => Recorded(e)'
<1>0. Histories = Seq(Committed)
  BY DEF Histories, Committed, CallRecords
<1>1. /\ hist \in Seq(Committed) /\ b \in Seq(Committed) /\ Len(hist) \in Nat /\ Len(b) \in Nat
      /\ Len(hist) + Len(b) <= MaxMessages
  <2>1. hist \in Seq(Committed) /\ b \in Seq(Committed)
    BY <1>0 DEF TurnTypes
  <2> QED BY <2>1 DEF Accepted
<1>2. ValidBatchSequence(hist \o b)
  BY DEF Accepted
<1>3. b[1].role = "assistant" => IdsDistinct(b[1].calls)
  <2>1. 1 \in DOMAIN b
    BY <1>1
  <2>2. b[1].role = "assistant" => b[1].calls = <<>> \/ IdsDistinct(b[1].calls)
    BY <2>1 DEF Accepted, RolesValid
  <2>3. IdsDistinct(<<>>)
    BY DEF IdsDistinct
  <2> QED BY <2>2, <2>3
<1>4. ChainsComplete(hist \o b)
  BY <1>0, <1>1, <1>2, <1>3, ChainsGrow DEF HistoryComplete
<1>5. /\ hist \o b \in Seq(Committed) /\ Len(hist \o b) = Len(hist) + Len(b) /\ hist \o b # <<>>
      /\ \A i \in 1..Len(hist) : i \in DOMAIN (hist \o b) /\ (hist \o b)[i] = hist[i]
      /\ \A i \in 1..Len(b) : /\ Len(hist) + i \in DOMAIN (hist \o b)
                              /\ (hist \o b)[Len(hist) + i] = b[i]
  BY <1>1
<1>6. /\ hist' \in Seq(Committed) /\ Len(hist') = Len(hist) + Len(b) /\ hist' # <<>>
      /\ \A i \in 1..Len(hist) : i \in DOMAIN hist' /\ hist'[i] = hist[i]
      /\ \A i \in 1..Len(b) : Len(hist) + i \in DOMAIN hist' /\ hist'[Len(hist) + i] = b[i]
  BY <1>5
<1>7. HistoryComplete'
  BY <1>2, <1>4, <1>5 DEF HistoryComplete, ValidBatchSequence
<1>8. ASSUME NEW e, Recorded(e) PROVE Recorded(e)'
  <2>1. DOMAIN hist = 1..Len(hist)
    BY <1>1
  <2>2. PICK i \in 1..Len(hist) :
          /\ hist[i].role = "assistant" /\ hist[i].turn = e.turn
          /\ \E k \in DOMAIN hist[i].calls :
               hist[i].calls[k].id = e.id /\ hist[i].calls[k].name = e.name
    BY <1>8, <2>1 DEF Recorded
  <2>3. i \in DOMAIN hist' /\ hist'[i] = hist[i]
    BY <1>6
  <2> QED BY <2>2, <2>3 DEF Recorded
<1> QED BY <1>0, <1>1, <1>6, <1>7, <1>8

LEMMA BatchesTyped ==
  ASSUME TurnTypes
  PROVE  /\ <<User>> \in Histories /\ <<Assistant(<<>>)>> \in Histories
         /\ Unit \in Histories /\ Len(Unit) = 1 + Len(calls) /\ Unit # <<>>
         /\ Unit[1] = Assistant(calls)
         /\ \A i \in 2..Len(Unit) : Unit[i].role = "tool" /\ Unit[i].turn = turn
<1>0. Histories = Seq(Committed)
  BY DEF Histories, Committed, CallRecords
<1>1. <<>> \in Seq(CallRecords) /\ turn \in 0..MaxTurns /\ calls \in Seq(CallRecords)
  BY DEF TurnTypes
<1>2. User \in Committed /\ Assistant(<<>>) \in Committed /\ Assistant(calls) \in Committed
  BY <1>1 DEF User, Assistant, Message, Committed
<1> DEFINE results == [i \in DOMAIN calls |-> Result(calls[i].id)]
<1>3. \A i \in DOMAIN calls : calls[i].id \in Nat
  <2>1. \A i \in DOMAIN calls : calls[i] \in CallRecords
    BY <1>1, ElementOfSeq, LenProperties
  <2> QED BY <2>1 DEF CallRecords
<1>4. \A i \in DOMAIN calls : /\ Result(calls[i].id) \in Committed
                              /\ Result(calls[i].id).role = "tool" /\ Result(calls[i].id).turn = turn
  BY <1>1, <1>3 DEF Result, Message, Committed
<1>5. /\ results \in Seq(Committed) /\ Len(results) = Len(calls)
      /\ \A i \in 1..Len(calls) : results[i].role = "tool" /\ results[i].turn = turn
  <2>1. results \in [1..Len(calls) -> Committed] /\ Len(calls) \in Nat
    BY <1>1, <1>4, LenProperties
  <2>2. \A i \in 1..Len(calls) : results[i].role = "tool" /\ results[i].turn = turn
    BY <1>1, <1>4, LenProperties
  <2> HIDE DEF results
  <2>3. results \in Seq(Committed) /\ DOMAIN results = 1..Len(calls)
    BY <2>1, SeqDef
  <2>4. Len(results) = Len(calls)
    BY <2>1, <2>3, LenProperties
  <2> QED BY <2>2, <2>3, <2>4
<1>6. Unit = <<Assistant(calls)>> \o results
  BY DEF Unit
<1> DEFINE first == Assistant(calls)
<1> HIDE DEF results
<1>7. /\ Unit \in Seq(Committed) /\ Len(Unit) = 1 + Len(calls) /\ Unit # <<>> /\ Unit[1] = first
      /\ \A i \in 2..Len(Unit) : Unit[i] = results[i - 1]
  <2>1. first \in Committed /\ Unit = <<first>> \o results
    BY <1>2, <1>6
  <2> HIDE DEF first
  <2>2. <<first>> \in Seq(Committed) /\ Len(<<first>>) = 1 /\ <<first>>[1] = first
    BY <2>1
  <2> QED BY <1>5, <2>1, <2>2
<1>8. \A i \in 2..Len(Unit) : Unit[i].role = "tool" /\ Unit[i].turn = turn
  <2>1. Len(calls) \in Nat
    BY <1>1
  <2>2. \A i \in 2..Len(Unit) : i - 1 \in 1..Len(calls)
    BY <1>7, <2>1
  <2> QED BY <1>5, <1>7, <2>2
<1>9. <<User>> \in Seq(Committed) /\ <<Assistant(<<>>)>> \in Seq(Committed)
  <2> HIDE DEF Committed
  <2> QED BY <1>2
<1> QED BY <1>0, <1>7, <1>8, <1>9

(***************************************************************************)
(* The steps of a turn.                                                     *)
(***************************************************************************)
LEMMA ReplyTyped ==
  ASSUME CallInv
  PROVE  /\ Merged \in Seq(WireCall) /\ Len(Merged) \in Nat
         /\ \A i \in DOMAIN Merged : Merged[i] \in WireCall
<1>1. got \in Seq(Pieces) /\ DOMAIN got = 1..Len(got) /\ Len(got) \in Nat
  BY LenProperties DEF CallInv, CallTypes
<1>2. Entries \in SUBSET (1..Len(got))
  BY <1>1 DEF Entries, CallParts
<1>3. IsFiniteSet(Entries) /\ Entries \in SUBSET Int
  <2>1. IsFiniteSet(1..Len(got)) /\ 1..Len(got) \subseteq Int
    BY <1>1, FS_Interval
  <2> QED BY <1>2, <2>1, FS_Subset
<1> DEFINE n == Cardinality(Entries)
<1>4. n \in Nat /\ \A k \in 1..n : Nth(Entries, k) \in Entries
  BY <1>3, NthLists
<1>5. \A k \in 1..n : got[Nth(Entries, k)].call \in WireCall
  <2>1. \A i \in 1..Len(got) : got[i] \in Pieces
    BY <1>1, ElementOfSeq
  <2>2. \A i \in 1..Len(got) : got[i].call \in WireCall
    BY <2>1 DEF Pieces
  <2> HIDE DEF n
  <2> QED BY <1>2, <1>4, <2>2
<1>6. Merged \in [1..n -> WireCall]
  BY <1>5 DEF Merged
<1> HIDE DEF n
<1> QED BY <1>4, <1>6, SeqDef, LenProperties

LEMMA TurnInitially == Init => TurnInv
<1> SUFFICES ASSUME Init PROVE TurnInv
  OBVIOUS
<1>1. /\ hist \in Histories /\ Len(hist) <= MaxMessages /\ HistoryComplete
      /\ Cardinality(UserAt(hist)) <= MaxTurns
  BY RestoreAssumption DEF Init, HistoryComplete
<1>2. turn \in 0..MaxTurns
  <2>1. UserAt(hist) \in SUBSET (1..Len(hist)) /\ Len(hist) \in Nat
    BY <1>1, LenProperties DEF UserAt, Histories
  <2>2. IsFiniteSet(1..Len(hist))
    BY <2>1, FS_Interval
  <2>3. Cardinality(UserAt(hist)) \in Nat
    BY <2>1, <2>2, FS_Subset, FS_CardinalityType
  <2> QED BY <1>1, <2>3, AgentAssumption DEF Init
<1>3. TurnTypes
  BY <1>1, <1>2, AgentAssumption DEF Init, TurnTypes
<1>4. ExecInv /\ Calls = {} /\ sessGate = 0 /\ global = 0
  BY NoBatch DEF Init, ExecInit
<1>5. BatchInv
  BY <1>4 DEF BatchInv, Init
<1>6. EffectsInv
  BY DEF EffectsInv, OkRecorded, Init
<1> QED BY <1>1, <1>3, <1>5, <1>6 DEF TurnInv

(* Nothing moves but the tools there are, or the permits of a batch.          *)
TurnKept == UNCHANGED <<hist, turn, round, offered, calls>>
LEMMA QuietStep ==
  ASSUME TurnInv, TurnKept, UNCHANGED <<pc, outcome, effects>>, tools' \subseteq Names,
         ExecInv', Calls' = Calls, pc # "acting" => sessGate' = 0 /\ global' = 0
  PROVE  TurnInv'
<1> USE DEF TurnKept
<1>1. TurnTypes' /\ HistoryComplete'
  BY DEF TurnInv, TurnTypes, HistoryComplete
<1>2. BatchInv'
  BY DEF TurnInv, BatchInv, RoundsLeft
<1>3. EffectsInv'
  BY DEF TurnInv, EffectsInv, OkRecorded, OfBatch, Recorded
<1> QED BY <1>1, <1>2, <1>3 DEF TurnInv

(* A turn fails: what its tools have done may be recorded nowhere.            *)
LEMMA FailStep ==
  ASSUME TurnInv, TurnKept, UNCHANGED <<effects, tools>>, pc' = "idle", outcome' = "failed",
         ExecInv', Calls' = {}, sessGate' = 0, global' = 0
  PROVE  TurnInv'
<1> USE DEF TurnKept
<1>1. TurnTypes' /\ HistoryComplete'
  BY DEF TurnInv, TurnTypes, HistoryComplete
<1>2. BatchInv'
  BY DEF BatchInv
<1>3. EffectsInv'
  BY DEF TurnInv, EffectsInv, OkRecorded
<1> QED BY <1>1, <1>2, <1>3 DEF TurnInv

(* A turn goes on before its calls: nothing of it is in progress.             *)
LEMMA GoesOn ==
  ASSUME TurnInv, UNCHANGED <<hist, turn, round, calls, tools, outcome, effects, execVars>>,
         offered' \subseteq Names,
         pc \in {"begin", "plan", "prepare"}, pc' \in {"plan", "prepare", "calling"}
  PROVE  TurnInv'
<1>1. TurnTypes' /\ HistoryComplete'
  BY DEF TurnInv, TurnTypes, HistoryComplete
<1>2. ExecInv' /\ Calls' = Calls /\ sessGate' = sessGate /\ global' = global
  BY DEF TurnInv, BatchInv, ExecInv, ExecTypes, PermitsExact, HoldsSession, HoldsGlobal, At, Calls,
     execVars, gateVars
<1>3. BatchInv'
  BY <1>2 DEF TurnInv, BatchInv
<1>4. EffectsInv'
  BY DEF TurnInv, EffectsInv, OkRecorded, OfBatch, Recorded
<1> QED BY <1>1, <1>3, <1>4 DEF TurnInv

LEMMA ExecKept ==
  ASSUME ExecInv, UNCHANGED execVars
  PROVE  ExecInv' /\ Calls' = Calls /\ sessGate' = sessGate /\ global' = global
BY DEF ExecInv, ExecTypes, PermitsExact, HoldsSession, HoldsGlobal, At, Calls, execVars, gateVars

LEMMA NewTurnStep == ASSUME TurnInv, NewTurn PROVE TurnInv'
<1>1. /\ pc = "idle" /\ turn < MaxTurns /\ turn' = turn + 1 /\ pc' = "begin" /\ outcome' = "none"
      /\ round' = 0 /\ calls' = <<>> /\ offered' = {} /\ UNCHANGED <<hist, tools, execVars, effects>>
  BY DEF NewTurn
<1>2. TurnTypes'
  BY <1>1, AgentAssumption DEF TurnInv, TurnTypes
<1>3. HistoryComplete'
  BY <1>1 DEF TurnInv, HistoryComplete
<1>4. BatchInv'
  BY <1>1, ExecKept DEF TurnInv, BatchInv
<1>5. EffectsInv'
  <2>1. turn \in Nat
    BY AgentAssumption DEF TurnInv, TurnTypes
  <2>2. \A e \in effects : e.turn \in 0..turn' /\ e.turn # turn' /\ e.round \in Nat
    BY <1>1, <2>1 DEF TurnInv, EffectsInv
  <2> QED BY <1>1, <2>2 DEF EffectsInv, OkRecorded
<1> QED BY <1>2, <1>3, <1>4, <1>5 DEF TurnInv

LEMMA AppendUserStep == ASSUME TurnInv, AppendUser PROVE TurnInv'
<1>1. /\ pc = "begin" /\ UNCHANGED <<turn, tools, offered, calls, execVars, effects, round>>
      /\ \/ EndTurn("failed") /\ hist' = hist
         \/ /\ Accepted(<<User>>, TRUE) /\ hist' = hist \o <<User>>
            /\ pc' \in {"plan", "prepare"} /\ UNCHANGED outcome
  BY AppendUserDoes DEF turnVars
<1>2. CASE EndTurn("failed") /\ hist' = hist
  BY <1>1, <1>2, ExecKept, FailStep DEF EndTurn, TurnInv, BatchInv, TurnKept
<1>3. CASE /\ Accepted(<<User>>, TRUE) /\ hist' = hist \o <<User>>
           /\ pc' \in {"plan", "prepare"} /\ UNCHANGED outcome
  <2>1. /\ hist' \in Histories /\ Len(hist') <= MaxMessages /\ HistoryComplete'
        /\ \A e : Recorded(e) => Recorded(e)'
    <3> DEFINE b == <<User>>
    <3>1. b \in Histories /\ b # <<>> /\ \A i \in 2..Len(b) : b[i].role # "assistant"
      BY BatchesTyped DEF TurnInv
    <3>2. Accepted(b, TRUE) /\ hist' = hist \o b
      BY <1>3
    <3> HIDE DEF b
    <3> QED BY <3>1, <3>2, CommitKeeps DEF TurnInv
  <2>2. TurnTypes'
    BY <1>1, <1>3, <2>1 DEF TurnInv, TurnTypes
  <2>3. BatchInv'
    BY <1>1, <1>3, ExecKept DEF TurnInv, BatchInv
  <2>4. EffectsInv'
    BY <1>1, <1>3, <2>1 DEF TurnInv, EffectsInv, OkRecorded
  <2> QED BY <2>1, <2>2, <2>3, <2>4 DEF TurnInv
<1> QED BY <1>1, <1>2, <1>3

LEMMA AnswerStep == ASSUME TurnInv, Answer PROVE TurnInv'
<1>1. /\ pc = "calling" /\ pc' = "idle"
      /\ UNCHANGED <<tools, turn, round, offered, calls, execVars, effects>>
      /\ \/ outcome' = "failed" /\ hist' = hist
         \/ /\ Accepted(<<Assistant(Merged)>>, HasText) /\ hist' = hist \o <<Assistant(Merged)>>
            /\ outcome' = "ok"
  BY AnswerDoes DEF turnVars
<1>2. CASE outcome' = "failed" /\ hist' = hist
  BY <1>1, <1>2, ExecKept, FailStep DEF TurnInv, BatchInv, TurnKept
<1>3. CASE /\ Accepted(<<Assistant(Merged)>>, HasText) /\ hist' = hist \o <<Assistant(Merged)>>
           /\ outcome' = "ok"
  <2> DEFINE b == <<Assistant(<<>>)>>
  <2>1. Merged = <<>>
    BY <1>3 DEF Accepted, FinalOrUnit, Assistant, Message
  <2>2. /\ b \in Histories /\ b # <<>> /\ Len(b) = 1 /\ b[1] = Assistant(<<>>)
        /\ \A i \in 2..Len(b) : b[i].role # "assistant"
    BY BatchesTyped DEF TurnInv
  <2>3. Accepted(b, HasText) /\ hist' = hist \o b
    BY <1>3, <2>1
  <2> HIDE DEF b
  <2>4. /\ hist' \in Histories /\ Len(hist') <= MaxMessages /\ HistoryComplete' /\ hist' # <<>>
        /\ Len(hist') = Len(hist) + 1 /\ hist'[Len(hist) + 1] = Assistant(<<>>)
        /\ \A e : Recorded(e) => Recorded(e)'
    BY <2>2, <2>3, CommitKeeps DEF TurnInv
  <2>5. TurnTypes'
    BY <1>1, <1>3, <2>4 DEF TurnInv, TurnTypes
  <2>6. BatchInv'
    BY <1>1, ExecKept DEF TurnInv, BatchInv
  <2>7. EffectsInv'
    <3>1. OkRecorded'
      BY <1>1, <2>4 DEF OkRecorded, Assistant, Message
    <3> QED BY <1>1, <1>3, <2>4, <3>1 DEF TurnInv, EffectsInv
  <2> QED BY <2>4, <2>5, <2>6, <2>7 DEF TurnInv
<1> QED BY <1>1, <1>2, <1>3

LEMMA ActStep == ASSUME IInv, Act PROVE TurnInv'
<1> USE DEF IInv, TurnInv
<1>1. /\ pc = "calling" /\ pc' = "acting" /\ Executable(Merged) /\ RoundsLeft
      /\ calls' = Resolve(Merged) /\ StartBatch(Len(Merged))
      /\ UNCHANGED <<hist, tools, turn, round, offered, outcome, effects>>
  BY DEF Act, turnVars
<1>2. Merged \in Seq(WireCall) /\ Len(Merged) \in Nat /\ \A i \in DOMAIN Merged : Merged[i] \in WireCall
  BY ReplyTyped DEF StreamInv
<1>3. ExecInv' /\ Calls' = 1..Len(Merged)
  BY <1>1, <1>2, BatchStarts DEF BatchInv
<1>4. /\ calls' \in Seq(CallRecords) /\ DOMAIN calls' = 1..Len(Merged)
      /\ \A k \in DOMAIN calls' : calls'[k].name \in offered
  <2>1. DOMAIN Merged = 1..Len(Merged)
    BY <1>2
  <2>2. \A k \in 1..Len(Merged) :
          /\ (CHOOSE a \in ResolveExecutable(Merged[k].wire) : TRUE) \in offered
          /\ Merged[k].id \in Nat
    BY <1>1, <1>2, <2>1 DEF Executable, ResolveExecutable, WireCall
  <2> DEFINE pick(k) == CHOOSE a \in ResolveExecutable(Merged[k].wire) : TRUE
  <2>3. calls' = [k \in 1..Len(Merged) |-> [id |-> Merged[k].id, name |-> pick(k)]]
    BY <1>1, <2>1 DEF Resolve
  <2>4. \A k \in 1..Len(Merged) : pick(k) \in offered /\ pick(k) \in Names /\ Merged[k].id \in Nat
    BY <2>2 DEF TurnTypes
  <2> HIDE DEF pick
  <2>5. \A k \in 1..Len(Merged) : [id |-> Merged[k].id, name |-> pick(k)] \in CallRecords
    BY <2>4 DEF CallRecords
  <2>6. calls' \in [1..Len(Merged) -> CallRecords]
    BY <2>3, <2>5
  <2>7. calls' \in Seq(CallRecords)
    BY <1>2, <2>6, SeqDef
  <2>8. \A k \in 1..Len(Merged) : calls'[k].name \in offered
    BY <2>3, <2>4
  <2> QED BY <2>6, <2>7, <2>8
<1>5. TurnTypes' /\ HistoryComplete'
  BY <1>1, <1>4 DEF TurnTypes, HistoryComplete
<1>6. BatchInv'
  <2>1. RoundsLeft'
    BY <1>1 DEF RoundsLeft
  <2>2. \A k \in DOMAIN calls' : calls'[k].name \in offered'
    BY <1>1, <1>4
  <2>3. Calls' = DOMAIN calls'
    BY <1>3, <1>4
  <2> QED BY <1>1, <1>3, <2>1, <2>2, <2>3 DEF BatchInv
<1>7. EffectsInv'
  <2>1. round \in Int
    BY AgentAssumption DEF TurnTypes
  <2>2. \A e \in effects : Recorded(e) => Recorded(e)'
    BY <1>1 DEF Recorded
  <2> QED BY <1>1, <2>1, <2>2 DEF EffectsInv, OkRecorded
<1> QED BY <1>5, <1>6, <1>7

LEMMA RecordStep == ASSUME TurnInv, Record PROVE TurnInv'
<1> USE DEF TurnInv
<1>1. /\ pc = "acting" /\ AllOver /\ EndBatch
      /\ UNCHANGED <<tools, turn, offered, calls, effects>>
      /\ \/ EndTurn("failed") /\ hist' = hist /\ round' = round
         \/ /\ Accepted(Unit, TRUE) /\ hist' = hist \o Unit /\ round' = round + 1
            /\ pc' = "prepare" /\ UNCHANGED outcome
  BY RecordDoes DEF turnVars
<1>2. ExecInv' /\ Calls' = {} /\ sessGate' = 0 /\ global' = 0
  BY <1>1, BatchEnds DEF BatchInv
<1>3. CASE EndTurn("failed") /\ hist' = hist /\ round' = round
  BY <1>1, <1>2, <1>3, FailStep DEF EndTurn, TurnKept
<1>4. CASE /\ Accepted(Unit, TRUE) /\ hist' = hist \o Unit /\ round' = round + 1
           /\ pc' = "prepare" /\ UNCHANGED outcome
  <2>1. /\ Unit \in Histories /\ Len(Unit) = 1 + Len(calls) /\ Unit # <<>>
        /\ Unit[1] = Assistant(calls) /\ Len(calls) \in Nat
        /\ \A i \in 2..Len(Unit) : Unit[i].role # "assistant"
    <3>1. Len(calls) \in Nat
      BY LenProperties DEF TurnTypes
    <3> QED BY <3>1, BatchesTyped
  <2>2. /\ hist' \in Histories /\ Len(hist') <= MaxMessages /\ HistoryComplete'
        /\ \A i \in 1..Len(Unit) : Len(hist) + i \in DOMAIN hist' /\ hist'[Len(hist) + i] = Unit[i]
        /\ \A e : Recorded(e) => Recorded(e)'
    BY <1>4, <2>1, CommitKeeps
  <2>3. round \in Nat /\ round' \in 0..MaxRounds - 1
    BY <1>1, <1>4, AgentAssumption DEF BatchInv, RoundsLeft, TurnTypes
  <2>4. TurnTypes'
    BY <1>1, <1>4, <2>2, <2>3 DEF TurnTypes
  <2>5. BatchInv'
    BY <1>2, <1>4 DEF BatchInv
  <2>6. ASSUME NEW e \in effects, e.turn = turn, OfBatch(e) PROVE Recorded(e)'
    <3>1. 1 \in 1..Len(Unit) /\ Len(hist) + 1 \in DOMAIN hist' /\ hist'[Len(hist) + 1] = Assistant(calls)
      BY <2>1, <2>2
    <3>2. /\ Assistant(calls).role = "assistant" /\ Assistant(calls).turn = turn
          /\ Assistant(calls).calls = calls
      BY DEF Assistant, Message
    <3> QED BY <2>6, <3>1, <3>2 DEF OfBatch, Recorded
  <2>7. EffectsInv'
    <3>1. /\ pc = "acting" /\ pc' = "prepare" /\ outcome' = outcome /\ outcome = "none"
          /\ UNCHANGED <<turn, effects>> /\ round' = round + 1
      BY <1>1, <1>4 DEF EffectsInv
    <3>2. \A e \in effects : e.turn \in 0..turn /\ e.round \in Nat
      BY DEF EffectsInv
    <3>3. \A e \in effects : e.turn = turn => Recorded(e)' /\ e.round <= round
      BY <2>2, <2>6, <3>1 DEF EffectsInv
    <3>4. \A e \in effects : e.turn = turn => e.round < round'
      BY <2>3, <3>1, <3>2, <3>3
    <3>5. OkRecorded'
      BY <3>1 DEF OkRecorded
    <3> QED BY <3>1, <3>2, <3>3, <3>4, <3>5 DEF EffectsInv
  <2> QED BY <2>2, <2>4, <2>5, <2>7
<1> QED BY <1>1, <1>3, <1>4

LEMMA RunCallStep ==
  ASSUME TurnInv, NEW i \in DOMAIN calls, RunCall(i) PROVE TurnInv'
<1> USE DEF TurnInv
<1>1. /\ pc = "acting" /\ i \in Calls /\ TurnKept /\ UNCHANGED <<tools, pc, outcome>>
      /\ effects' = effects \/ effects' = effects \cup {Execution(i)}
  BY DEF RunCall, TurnKept, turnVars
<1>2. ExecInv' /\ Calls' = Calls
  <2>1. \A valid \in BOOLEAN : (valid /\ calls[i].name \in tools) \in BOOLEAN
    OBVIOUS
  <2>2. \/ \E admitted \in BOOLEAN : Take(i, admitted)
        \/ EnterSession(i) \/ EnterGlobal(i) \/ GiveUp(i, parent) \/ Backoff(i) \/ Returns(i, parent)
    BY <2>1 DEF RunCall
  <2> QED BY <1>1, <2>2, CallStep DEF BatchInv
<1>3. CASE effects' = effects
  BY <1>1, <1>2, <1>3, QuietStep DEF TurnTypes
<1>4. CASE effects' = effects \cup {Execution(i)}
  <2>1. TurnTypes' /\ HistoryComplete'
    BY <1>1 DEF TurnTypes, HistoryComplete, TurnKept
  <2>2. BatchInv'
    BY <1>1, <1>2 DEF BatchInv, TurnKept, RoundsLeft
  <2>3. /\ turn \in Nat /\ round \in Nat /\ outcome' = "none" /\ calls[i].name \in offered
        /\ \A e \in effects : Recorded(e) => Recorded(e)'
        /\ \A e : OfBatch(e) => OfBatch(e)'
    BY <1>1, AgentAssumption DEF TurnTypes, BatchInv, EffectsInv, TurnKept, Recorded, OfBatch
  <2>0. PICK x : x = Execution(i)
    OBVIOUS
  <2>4. /\ x.turn = turn /\ x.round = round /\ x.name = calls[i].name
        /\ OfBatch(x)'
    <3>1. /\ x.turn = turn /\ x.round = round /\ x.name = calls[i].name /\ x.id = calls[i].id
      BY <2>0 DEF Execution
    <3> QED BY <1>1, <3>1 DEF OfBatch, TurnKept
  <2>5. effects' = effects \cup {x}
    BY <1>4, <2>0
  <2>6. \A e \in effects' : e.turn \in 0..turn /\ e.round \in Nat
    BY <2>3, <2>4, <2>5 DEF EffectsInv
  <2>7. ASSUME NEW e \in effects', e.turn = turn
        PROVE  /\ Recorded(e)' \/ OfBatch(e)'
               /\ e.round <= round /\ (e.round = round => e.name \in offered)
    <3>1. CASE e \in effects
      BY <1>1, <2>3, <2>7, <3>1 DEF EffectsInv
    <3>2. CASE e = x
      BY <2>3, <2>4, <3>2
    <3> QED BY <2>5, <2>7, <3>1, <3>2
  <2>8. OkRecorded'
    BY <2>3 DEF OkRecorded
  <2>9. EffectsInv'
    BY <1>1, <2>3, <2>6, <2>7, <2>8 DEF EffectsInv, TurnKept
  <2> QED BY <2>1, <2>2, <2>9
<1> QED BY <1>1, <1>3, <1>4

LEMMA TurnStays ==
  ASSUME IInv, [Next]_vars PROVE TurnInv'
<1> USE DEF IInv
<1>0. TurnTypes /\ ExecInv /\ (pc # "acting" => Calls = {} /\ sessGate = 0 /\ global = 0)
  BY DEF TurnInv, BatchInv
<1>1. ASSUME UNCHANGED <<hist, tools, turnVars, pc, loopVars, outcome, effects>> PROVE TurnInv'
  <2>1. TurnKept /\ UNCHANGED <<pc, outcome, effects, tools, execVars>>
    BY <1>1 DEF TurnKept, turnVars, loopVars
  <2> QED BY <1>0, <2>1, ExecKept, QuietStep DEF TurnTypes
<1>2. CASE UNCHANGED vars \/ CancelTurn \/ ProviderStep
  <2>1. UNCHANGED <<hist, tools, turnVars, pc, loopVars, outcome, effects>>
    BY <1>2 DEF vars, CancelTurn, ProviderStep
  <2> QED BY <1>1, <2>1
<1>3. CASE Registry
  <2>1. /\ TurnKept /\ UNCHANGED <<pc, outcome, effects, execVars>>
        /\ \E a \in Unstable : tools' = IF a \in tools THEN tools \ {a} ELSE tools \cup {a}
    BY <1>3 DEF Registry, TurnKept, turnVars, loopVars
  <2>2. tools' \subseteq Names
    BY <1>0, <2>1, AgentAssumption DEF TurnTypes
  <2> QED BY <1>0, <2>1, <2>2, ExecKept, QuietStep
<1>4. CASE RivalTakes \/ RivalReturns
  <2>1. TurnKept /\ UNCHANGED <<pc, outcome, effects, tools>> /\ (RivalEnters \/ RivalLeaves)
    BY <1>4 DEF RivalTakes, RivalReturns, elsewhere, TurnKept, turnVars
  <2>2. ExecInv' /\ Calls' = Calls
    BY <1>0, <2>1, RivalStep DEF Calls
  <2>3. pc # "acting" => sessGate' = 0 /\ global' = 0
    <3>1. ASSUME pc # "acting" PROVE sessGate' = 0 /\ global' = 0
      <4>1. Calls = {} /\ HoldsSession = {} /\ HoldsGlobal = {} /\ rivals = 0
        <5>1. Calls = {} /\ global = 0 /\ sessGate = 0
          BY <1>0, <3>1
        <5>2. HoldsSession = {} /\ HoldsGlobal = {}
          BY <5>1 DEF HoldsSession, HoldsGlobal, At
        <5>3. global = rivals + 0 /\ rivals \in Nat
          BY <1>0, <5>2, FS_EmptySet, ToolAssumption DEF ExecInv, PermitsExact, ExecTypes
        <5> QED BY <5>1, <5>2, <5>3
      <4>2. FALSE
        BY <2>1, <4>1 DEF RivalEnters, RivalLeaves
      <4> QED BY <4>2
    <3> QED BY <3>1
  <2> QED BY <1>0, <2>1, <2>2, <2>3, QuietStep DEF TurnTypes
<1>5. CASE RunPlan
  <2>1. /\ pc = "plan"
        /\ UNCHANGED <<hist, tools, turn, round, offered, calls, execVars, effects>>
        /\ \/ pc' = "prepare" /\ UNCHANGED outcome
           \/ EndTurn("failed")
    BY <1>5 DEF RunPlan, turnVars, loopVars
  <2>2. CASE pc' = "prepare" /\ UNCHANGED outcome
    BY <1>0, <2>1, <2>2, GoesOn DEF TurnTypes
  <2>3. CASE EndTurn("failed")
    BY <1>0, <2>1, <2>3, ExecKept, FailStep DEF EndTurn, TurnKept
  <2> QED BY <2>1, <2>2, <2>3
<1>6. CASE PrepareFails \/ TurnFails
  <2>1. /\ pc # "acting" /\ TurnKept /\ UNCHANGED <<execVars, effects, tools>>
        /\ pc' = "idle" /\ outcome' = "failed"
    BY <1>6 DEF PrepareFails, TurnFails, Failed, EndTurn, TurnKept, turnVars, loopVars
  <2> QED BY <1>0, <2>1, ExecKept, FailStep
<1>7. CASE Prepare
  <2>1. /\ pc = "prepare" /\ pc' = "calling"
        /\ UNCHANGED <<hist, tools, turn, round, calls, execVars, outcome, effects>>
        /\ offered' \in {{}, tools}
    BY <1>7 DEF Prepare, turnVars
  <2>2. offered' \subseteq Names
    BY <1>0, <2>1 DEF TurnTypes
  <2> QED BY <2>1, <2>2, GoesOn
<1>8. ASSUME NEW i \in DOMAIN calls, RunCall(i) PROVE TurnInv'
  BY <1>8, RunCallStep
<1> QED BY <1>2, <1>3, <1>4, <1>5, <1>6, <1>7, <1>8, NewTurnStep, AppendUserStep, AnswerStep,
   ActStep, RecordStep DEF Next, Loop

LEMMA Initially == Init => IInv
BY StreamInitially, TurnInitially DEF IInv

LEMMA Inductive == IInv /\ [Next]_vars => IInv'
BY StreamStays, TurnStays DEF IInv

(* Whatever ends a turn, its history starts with a user message and has one   *)
(* result for each call: what a later turn and a restart ask for.             *)
THEOREM HistoryStaysComplete == Spec => []HistoryComplete
<1>1. IInv => HistoryComplete
  BY DEF IInv, TurnInv
<1> QED BY <1>1, Initially, Inductive, PTL DEF Spec

(* For any tools, replies and number of other sessions: a tool runs only when *)
(* the request at hand offered it, the gates hold the permits of the calls     *)
(* that have them, none once the batch is over, and a turn that ends well has  *)
(* in the history every tool it ran and its answer as the last message.       *)
THEOREM ToolsStayAccounted == Spec => []ToolsAccounted
<1>1. IInv => ToolsAccounted
  <2> SUFFICES ASSUME IInv PROVE ToolsAccounted
    OBVIOUS
  <2> USE DEF IInv, TurnInv
  <2>1. OnlyOffered
    BY DEF EffectsInv, OnlyOffered
  <2>2. OkMeansRecorded
    BY DEF EffectsInv, OkRecorded, OkMeansRecorded
  <2>3. PermitsExact /\ NothingHeld
    BY DEF BatchInv, ExecInv, NothingHeld
  <2> QED BY <2>1, <2>2, <2>3 DEF ToolsAccounted
<1> QED BY <1>1, Initially, Inductive, PTL DEF Spec

(***************************************************************************)
(* Keeping some positions of a sequence.                                    *)
(***************************************************************************)
LEMMA Extremes ==
  ASSUME NEW S \in SUBSET Int, IsFiniteSet(S), S # {}
  PROVE  /\ \E x \in S : \A y \in S : x <= y
         /\ \E x \in S : \A y \in S : y <= x
<1> DEFINE n == Cardinality(S)
<1>1. /\ n \in Nat /\ \A k \in 1..n : Nth(S, k) \in S
      /\ \A x \in S : Rank(S, x) \in 1..n /\ Nth(S, Rank(S, x)) = x
      /\ \A j, k \in 1..n : j < k <=> Nth(S, j) < Nth(S, k)
  BY NthLists
<1>2. n # 0
  BY FS_EmptySet
<1> HIDE DEF n
<1>3. 1 \in 1..n /\ n \in 1..n
  BY <1>1, <1>2
<1>4. \A x \in S : x \in Int
  OBVIOUS
<1>5. \A j, k \in 1..n : j <= k => Nth(S, j) <= Nth(S, k)
  <2>1. TAKE j, k \in 1..n
  <2>2. j \in Int /\ k \in Int /\ Nth(S, j) \in Int /\ Nth(S, k) \in Int
    <3>1. Nth(S, j) \in S /\ Nth(S, k) \in S
      BY <1>1
    <3>2. j \in Int /\ k \in Int
      OBVIOUS
    <3> QED BY <1>4, <3>1, <3>2
  <2>3. CASE j < k
    BY <1>1, <2>2, <2>3
  <2>4. CASE j = k
    BY <2>2, <2>4
  <2> QED BY <2>2, <2>3, <2>4
<1>6. \A x \in S : 1 <= Rank(S, x) /\ Rank(S, x) <= n
  BY <1>1
<1>7. \A x \in S : Nth(S, 1) <= x /\ x <= Nth(S, n)
  BY <1>1, <1>3, <1>5, <1>6
<1> QED BY <1>1, <1>3, <1>7

LEMMA KeepIs ==
  ASSUME NEW s, NEW K \in SUBSET Int, IsFiniteSet(K)
  PROVE  /\ Cardinality(K) \in Nat /\ Len(Keep(s, K)) = Cardinality(K)
         /\ DOMAIN Keep(s, K) = 1..Cardinality(K)
         /\ \A k \in 1..Cardinality(K) : Keep(s, K)[k] = s[Nth(K, k)] /\ Nth(K, k) \in K
<1> DEFINE n == Cardinality(K)
<1>1. n \in Nat /\ \A k \in 1..n : Nth(K, k) \in K
  BY NthLists
<1>2. Keep(s, K) = [k \in 1..n |-> s[Nth(K, k)]]
  BY DEF Keep
<1> HIDE DEF n
<1>3. Keep(s, K) \in [1..n -> {s[x] : x \in K}]
  BY <1>1, <1>2
<1>4. Keep(s, K) \in Seq({s[x] : x \in K})
  BY <1>1, <1>3, SeqDef
<1>5. DOMAIN Keep(s, K) = 1..n
  BY <1>2
<1>6. Len(Keep(s, K)) = n
  BY <1>1, <1>4, <1>5, LenProperties
<1> QED BY <1>1, <1>2, <1>5, <1>6 DEF n

LEMMA KeepReaches ==
  ASSUME NEW s, NEW K \in SUBSET Int, IsFiniteSet(K), NEW x \in K
  PROVE  \E k \in DOMAIN Keep(s, K) : Keep(s, K)[k] = s[x]
<1>1. Rank(K, x) \in 1..Cardinality(K) /\ Nth(K, Rank(K, x)) = x
  BY NthLists
<1>2. /\ DOMAIN Keep(s, K) = 1..Cardinality(K)
      /\ \A k \in 1..Cardinality(K) : Keep(s, K)[k] = s[Nth(K, k)]
  BY KeepIs
<1> QED BY <1>1, <1>2

LEMMA KeepTyped ==
  ASSUME NEW X, NEW s \in Seq(X), NEW K \in SUBSET (1..Len(s))
  PROVE  Keep(s, K) \in Seq(X) /\ IsFiniteSet(K) /\ K \in SUBSET Int
<1>1. IsFiniteSet(1..Len(s)) /\ 1..Len(s) \subseteq Int
  BY FS_Interval
<1>2. IsFiniteSet(K) /\ K \in SUBSET Int
  BY <1>1, FS_Subset
<1>3. /\ Cardinality(K) \in Nat
      /\ \A k \in 1..Cardinality(K) : Keep(s, K)[k] = s[Nth(K, k)] /\ Nth(K, k) \in K
  BY <1>2, KeepIs
<1>4. \A i \in 1..Len(s) : s[i] \in X
  BY ElementOfSeq
<1>5. \A k \in 1..Cardinality(K) : s[Nth(K, k)] \in X
  BY <1>3, <1>4
<1>6. Keep(s, K) \in [1..Cardinality(K) -> X]
  BY <1>5 DEF Keep
<1> QED BY <1>2, <1>3, <1>6, SeqDef

LEMMA KeepSplits ==
  ASSUME NEW X, NEW s \in Seq(X), NEW K \in SUBSET (1..Len(s)), NEW c \in Int
  PROVE  Keep(s, K) = Keep(s, {x \in K : x < c}) \o Keep(s, {x \in K : c <= x})
<1> DEFINE L == {x \in K : x < c}
           H == {x \in K : c <= x}
           l == Cardinality(L)
           h == Cardinality(H)
<1>1. /\ K \in SUBSET Int /\ IsFiniteSet(K) /\ Keep(s, K) \in Seq(X)
      /\ L \in SUBSET (1..Len(s)) /\ H \in SUBSET (1..Len(s))
  <2>1. K \in SUBSET Int /\ IsFiniteSet(K) /\ Keep(s, K) \in Seq(X)
    BY KeepTyped
  <2> QED BY <2>1
<1>2. /\ L \in SUBSET Int /\ IsFiniteSet(L) /\ Keep(s, L) \in Seq(X)
      /\ H \in SUBSET Int /\ IsFiniteSet(H) /\ Keep(s, H) \in Seq(X)
  <2> HIDE DEF L, H
  <2> QED BY <1>1, KeepTyped
<1>3. K = L \cup H /\ L \cap H = {}
  <2>1. \A x \in K : x \in Int
    BY <1>1
  <2>2. \A x \in K : x < c \/ c <= x
    BY <2>1
  <2>3. \A x \in K : ~(x < c /\ c <= x)
    BY <2>1
  <2> QED BY <2>2, <2>3
<1>4. l \in Nat /\ h \in Nat /\ Cardinality(K) = l + h
  <2> HIDE DEF L, H
  <2>1. l \in Nat /\ h \in Nat /\ Cardinality(L \cap H) = 0
    BY <1>2, <1>3, FS_CardinalityType, FS_EmptySet
  <2>2. Cardinality(K) = Cardinality(L) + Cardinality(H) - Cardinality(L \cap H)
    BY <1>2, <1>3, FS_Union
  <2> QED BY <2>1, <2>2
<1>5. \A x \in L : Rank(K, x) = Rank(L, x)
  <2>1. ASSUME NEW x \in L PROVE {y \in K : y <= x} = {y \in L : y <= x}
    <3>1. \A y \in K : y \in Int
      BY <1>1
    <3>2. x \in Int /\ x < c
      BY <1>1
    <3>3. \A y \in K : y <= x => y < c
      BY <3>1, <3>2
    <3> QED BY <3>3
  <2> QED BY <2>1 DEF Rank
<1>6. \A x \in H : Rank(K, x) = l + Rank(H, x)
  <2>1. ASSUME NEW x \in H PROVE Rank(K, x) = l + Rank(H, x)
    <3> DEFINE B == {y \in H : y <= x}
    <3>1. {y \in K : y <= x} = L \cup B /\ L \cap B = {}
      <4>1. \A y \in K : y \in Int
        BY <1>1
      <4>2. x \in Int /\ c <= x
        BY <1>1
      <4>3. \A y \in K : y < c => y <= x
        BY <4>1, <4>2
      <4>4. \A y \in L : y \in K /\ y <= x
        BY <4>3
      <4> HIDE DEF L
      <4> QED BY <1>3, <4>4
    <3>2. B \in SUBSET H
      OBVIOUS
    <3> HIDE DEF L, H, B
    <3>3. IsFiniteSet(B) /\ Cardinality(B) \in Nat /\ Cardinality(L \cap B) = 0
      BY <1>2, <3>1, <3>2, FS_Subset, FS_CardinalityType, FS_EmptySet
    <3>4. Cardinality(L \cup B) = Cardinality(L) + Cardinality(B) - Cardinality(L \cap B)
      BY <1>2, <3>3, FS_Union
    <3>5. Cardinality(L \cup B) = l + Cardinality(B)
      BY <1>4, <3>3, <3>4
    <3> QED BY <3>1, <3>5 DEF Rank, B
  <2> QED BY <2>1
<1> HIDE DEF L, H
<1>7. \A k \in 1..l : Nth(K, k) = Nth(L, k)
  <2>1. \A k \in 1..l : Nth(L, k) \in L /\ Rank(L, Nth(L, k)) = k
    BY <1>2, NthLists
  <2>2. \A x \in L : x \in K /\ Nth(K, Rank(K, x)) = x
    BY <1>1, <1>3, NthLists
  <2> QED BY <1>5, <2>1, <2>2
<1>8. \A k \in 1..h : Nth(K, l + k) = Nth(H, k)
  <2>1. \A k \in 1..h : Nth(H, k) \in H /\ Rank(H, Nth(H, k)) = k
    BY <1>2, NthLists
  <2>2. \A x \in H : x \in K /\ Nth(K, Rank(K, x)) = x
    BY <1>1, <1>3, NthLists
  <2> QED BY <1>6, <2>1, <2>2
<1>9. /\ Len(Keep(s, K)) = l + h /\ Len(Keep(s, L)) = l /\ Len(Keep(s, H)) = h
      /\ \A k \in 1..l + h : Keep(s, K)[k] = s[Nth(K, k)]
      /\ \A k \in 1..l : Keep(s, L)[k] = s[Nth(L, k)]
      /\ \A k \in 1..h : Keep(s, H)[k] = s[Nth(H, k)]
  BY <1>1, <1>2, <1>4, KeepIs
<1> HIDE DEF l, h
<1>10. \A k \in 1..l + h :
          Keep(s, K)[k] = IF k <= l THEN Keep(s, L)[k] ELSE Keep(s, H)[k - l]
  <2>1. TAKE k \in 1..l + h
  <2>2. CASE k <= l
    <3>1. k \in 1..l
      BY <1>4, <2>2
    <3> QED BY <1>7, <1>9, <2>2, <3>1
  <2>3. CASE ~(k <= l)
    <3>1. k - l \in 1..h /\ l + (k - l) = k
      BY <1>4, <2>3
    <3>2. Nth(K, k) = Nth(H, k - l)
      BY <1>8, <3>1
    <3> QED BY <1>9, <2>3, <3>1, <3>2
  <2> QED BY <2>2, <2>3
<1> DEFINE a == Keep(s, K)
           p == Keep(s, L)
           q == Keep(s, H)
<1>11. /\ a \in Seq(X) /\ p \in Seq(X) /\ q \in Seq(X)
       /\ Len(a) = l + h /\ Len(p) = l /\ Len(q) = h
       /\ \A k \in 1..l + h : a[k] = IF k <= l THEN p[k] ELSE q[k - l]
  BY <1>1, <1>2, <1>9, <1>10
<1> HIDE DEF a, p, q
<1>12. a = p \o q
  <2>1. p \o q \in Seq(X) /\ Len(p \o q) = l + h
    BY <1>11, ConcatProperties
  <2>2. \A k \in 1..l + h : (p \o q)[k] = IF k <= l THEN p[k] ELSE q[k - l]
    <3>1. \A k \in 1..Len(p) + Len(q) :
            (p \o q)[k] = IF k <= Len(p) THEN p[k] ELSE q[k - Len(p)]
      BY <1>11, ConcatProperties, Zenon
    <3>2. Len(p) = l /\ Len(q) = h
      BY <1>11
    <3> QED BY <3>1, <3>2, Zenon
  <2>3. \A k \in 1..Len(a) : a[k] = (p \o q)[k]
    BY <1>11, <2>2
  <2> QED BY <1>11, <2>1, <2>3, SeqEqual
<1> QED BY <1>12 DEF a, p, q, L, H

LEMMA KeepInterval ==
  ASSUME NEW X, NEW s \in Seq(X), NEW a \in 1..Len(s) + 1, NEW b \in 0..Len(s), a <= b + 1
  PROVE  Keep(s, a..b) = SubSeq(s, a, b)
<1> DEFINE K == a..b
           n == b - a + 1
<1>1. Len(s) \in Nat /\ a \in Int /\ b \in Int /\ n \in Nat
  OBVIOUS
<1>2. K \in SUBSET (1..Len(s))
  OBVIOUS
<1>3. IsFiniteSet(K) /\ K \in SUBSET Int /\ Keep(s, K) \in Seq(X)
  BY <1>2, KeepTyped
<1>4. Cardinality(K) = n
  <2>1. Cardinality(a..b) = IF a > b THEN 0 ELSE b - a + 1
    BY <1>1, FS_Interval
  <2> QED BY <1>1, <2>1
<1>5. \A x \in K : Rank(K, x) = x - a + 1
  <2>1. ASSUME NEW x \in K PROVE Rank(K, x) = x - a + 1
    <3>1. {y \in K : y <= x} = a..x
      BY <1>1
    <3>2. x \in Int /\ a <= x
      BY <1>1
    <3>3. Cardinality(a..x) = x - a + 1
      BY <1>1, <3>2, FS_Interval
    <3> QED BY <3>1, <3>3 DEF Rank
  <2> QED BY <2>1
<1>6. \A k \in 1..n : Nth(K, k) = a + k - 1
  <2>1. TAKE k \in 1..n
  <2>2. Nth(K, k) \in K /\ Rank(K, Nth(K, k)) = k
    BY <1>3, <1>4, NthLists
  <2>3. Nth(K, k) \in Int
    BY <1>3, <2>2
  <2>4. Nth(K, k) - a + 1 = k
    BY <1>5, <2>2
  <2> HIDE DEF K
  <2> QED BY <1>1, <2>3, <2>4
<1>7. Len(Keep(s, K)) = n /\ \A k \in 1..n : Keep(s, K)[k] = s[a + k - 1]
  <2> HIDE DEF K, n
  <2>1. /\ Len(Keep(s, K)) = Cardinality(K)
        /\ \A k \in 1..Cardinality(K) : Keep(s, K)[k] = s[Nth(K, k)]
    BY <1>3, KeepIs
  <2> QED BY <1>4, <1>6, <2>1
<1>8. /\ SubSeq(s, a, b) \in Seq(X) /\ Len(SubSeq(s, a, b)) = n
      /\ \A k \in 1..n : SubSeq(s, a, b)[k] = s[a + k - 1]
  BY <1>1, SubSeqProperties
<1> HIDE DEF K, n
<1>9. Keep(s, K) = SubSeq(s, a, b)
  BY <1>3, <1>7, <1>8, SeqEqual
<1> QED BY <1>9 DEF K

(***************************************************************************)
(* Leaving out whole units leaves the calls with their results.  A unit     *)
(* starts with a message that is no assistant's and no tool's, and nothing   *)
(* is open where one starts.                                                *)
(***************************************************************************)
Starts(m) == {i \in DOMAIN m : m[i].role \notin {"assistant", "tool"}}
Together(m, i, l) == \A b \in Starts(m) : b <= i <=> b <= l
Unbroken(m, K) == \A i \in K, l \in DOMAIN m : Together(m, i, l) => l \in K

LEMMA KeepChains ==
  ASSUME NEW X, NEW m \in Seq(X), ChainsComplete(m), NEW K \in SUBSET (1..Len(m)),
         \A i \in 1..Len(m) : \E b \in Starts(m) : b <= i,
         NEW F \in SUBSET K, NEW s,
         \A i \in K \ F : s[i] = m[i],
         \A i \in F : i \in Starts(m) /\ s[i] = Summary,
         Unbroken(m, K \ F)
  PROVE  ChainsComplete(Keep(s, K))
<1> DEFINE n == Len(m)
           p == Cardinality(K)
           g(k) == Nth(K, k)
           rank(x) == Rank(K, x)
           r == Keep(s, K)
<1>1. n \in Nat /\ DOMAIN m = 1..n /\ K \in SUBSET Int /\ IsFiniteSet(K)
  BY KeepTyped
<1>2. /\ p \in Nat /\ Len(r) = p /\ DOMAIN r = 1..p
      /\ \A k \in 1..p : r[k] = s[g(k)] /\ g(k) \in K /\ g(k) \in 1..n
      /\ \A x \in K : rank(x) \in 1..p /\ g(rank(x)) = x
      /\ \A j, k \in 1..p : j < k <=> g(j) < g(k)
  <2>1. /\ p \in Nat /\ Len(r) = p /\ DOMAIN r = 1..p
        /\ \A k \in 1..p : r[k] = s[g(k)] /\ g(k) \in K
    BY <1>1, KeepIs
  <2>2. /\ \A x \in K : rank(x) \in 1..p /\ g(rank(x)) = x
        /\ \A j, k \in 1..p : j < k <=> g(j) < g(k)
    BY <1>1, NthLists
  <2>3. \A k \in 1..p : g(k) \in 1..n
    BY <2>1
  <2> QED BY <2>1, <2>2, <2>3
<1>3. /\ \A i \in F : s[i].role = "system" /\ Ids(s[i].calls) = {}
      /\ Starts(m) \subseteq 1..n
  BY <1>1 DEF Summary, Ids, Starts
<1>4. \A u \in Starts(m) \cup {n + 1} : Pending(m, u - 1) = {}
  <2>1. \A u \in Starts(m) : Pending(m, u - 1) = {}
    BY DEF ChainsComplete, Starts
  <2>2. Pending(m, n + 1 - 1) = {}
    BY <1>1 DEF ChainsComplete
  <2> QED BY <2>1, <2>2
<1> HIDE DEF n, p, g, rank, r
(* What a kept message opens is answered before its unit ends, by a message    *)
(* that is kept too.                                                          *)
<1>5. ASSUME NEW u \in Starts(m) \cup {n + 1}, NEW j \in 1..p, g(j) < u, NEW c \in Ids(r[j].calls)
      PROVE  \E t \in 1..p : j < t /\ g(t) < u /\ r[t].call = c
  <2> DEFINE i == g(j)
             W == {b \in Starts(m) \cup {n + 1} : i < b}
  <2>1. i \in K \ F /\ r[j] = m[i] /\ i \in 1..n
    BY <1>2, <1>3, <1>5
  <2>2. W \in SUBSET Int /\ IsFiniteSet(W) /\ u \in W
    <3>1. W \in SUBSET (1..n + 1) /\ u \in W
      BY <1>1, <1>3, <1>5
    <3>2. IsFiniteSet(1..n + 1) /\ 1..n + 1 \subseteq Int
      BY <1>1, FS_Interval
    <3> HIDE DEF W
    <3> QED BY <3>1, <3>2, FS_Subset
  <2>3. PICK w \in W : \A b \in W : w <= b
    <3> HIDE DEF W
    <3> QED BY <2>2, Extremes
  <2>4. w \in Starts(m) \cup {n + 1} /\ i < w /\ w <= u /\ w \in Int /\ i \in Int /\ u \in Int
    BY <1>1, <2>1, <2>2, <2>3
  <2>5. c \notin Pending(m, w - 1)
    BY <1>4, <2>4
  <2>6. i \in 1..w - 1 /\ c \in Ids(m[i].calls)
    BY <1>5, <2>1, <2>4
  <2>7. PICK l \in i + 1..w - 1 : m[l].call = c
    BY <2>5, <2>6, PendingIs
  <2>8. l \in Int /\ i < l /\ l < w /\ l \in 1..n
    <3>1. w <= n + 1
      BY <1>1, <1>3, <2>4
    <3> QED BY <1>1, <2>1, <2>4, <3>1
  <2>9. Together(m, i, l)
    <3>1. ASSUME NEW b \in Starts(m) PROVE b <= i <=> b <= l
      <4>1. b \in Int /\ (i < b => w <= b)
        BY <1>1, <1>3, <2>3
      <4> QED BY <2>4, <2>8, <4>1
    <3> QED BY <3>1 DEF Together
  <2>10. l \in K \ F
    BY <1>1, <2>1, <2>8, <2>9 DEF Unbroken
  <2>11. rank(l) \in 1..p /\ g(rank(l)) = l /\ r[rank(l)] = m[l]
    BY <1>2, <2>10
  <2>12. j < rank(l) /\ g(rank(l)) < u
    BY <1>2, <2>4, <2>8, <2>11
  <2> QED BY <2>7, <2>11, <2>12
<1>6. \A k \in 1..p, j \in 1..p : j < k => j \in 1..k - 1
  BY <1>2
<1>7. ASSUME NEW k \in 1..p, g(k) \in F PROVE Pending(r, k - 1) = {}
  <2>1. SUFFICES ASSUME NEW c \in Pending(r, k - 1) PROVE FALSE
    OBVIOUS
  <2>2. PICK j \in 1..k - 1 : c \in Ids(r[j].calls) /\ \A t \in j + 1..k - 1 : r[t].call # c
    BY <2>1, PendingIs
  <2>3. j \in 1..p /\ j < k /\ g(j) < g(k) /\ g(k) \in Starts(m)
    BY <1>2, <1>7
  <2>4. PICK t \in 1..p : j < t /\ g(t) < g(k) /\ r[t].call = c
    <3>1. g(k) \in Starts(m) \cup {n + 1} /\ c \in Ids(r[j].calls)
      BY <2>2, <2>3
    <3> QED BY <1>5, <2>3, <3>1
  <2>5. t < k
    BY <1>2, <2>4
  <2>6. t \in j + 1..k - 1
    BY <1>2, <2>3, <2>4, <2>5
  <2> QED BY <2>2, <2>4, <2>6
<1>8. Pending(r, p) = {}
  <2>1. SUFFICES ASSUME NEW c \in Pending(r, p) PROVE FALSE
    OBVIOUS
  <2>2. PICK j \in 1..p : c \in Ids(r[j].calls) /\ \A t \in j + 1..p : r[t].call # c
    BY <2>1, PendingIs
  <2>3. g(j) < n + 1
    BY <1>1, <1>2
  <2>4. PICK t \in 1..p : j < t /\ r[t].call = c
    BY <1>5, <2>2, <2>3
  <2>5. t \in j + 1..p
    BY <1>2, <2>4
  <2> QED BY <2>2, <2>4, <2>5
<1>9. ASSUME NEW k \in 1..p, g(k) \notin F
      PROVE  r[k] = m[g(k)] /\ Pending(r, k - 1) = Pending(m, g(k) - 1)
  <2> DEFINE i == g(k)
             U == {b \in Starts(m) : b <= i}
  <2>1. i \in K \ F /\ r[k] = m[i] /\ i \in 1..n
    BY <1>2, <1>9
  <2>2. U \in SUBSET Int /\ IsFiniteSet(U) /\ U # {}
    <3>1. U \in SUBSET (1..n) /\ U # {}
      BY <1>3, <2>1 DEF n
    <3>2. IsFiniteSet(1..n) /\ 1..n \subseteq Int
      BY <1>1, FS_Interval
    <3> HIDE DEF U
    <3> QED BY <3>1, <3>2, FS_Subset
  <2>3. PICK u \in U : \A b \in U : b <= u
    <3> HIDE DEF U
    <3> QED BY <2>2, Extremes
  <2>4. u \in Starts(m) /\ u <= i /\ u \in Int /\ i \in Int /\ u \in 1..n
    BY <1>1, <1>3, <2>1, <2>2, <2>3
  <2>5. ASSUME NEW l \in 1..n, u <= l, l <= i PROVE l \in K \ F
    <3>1. ASSUME NEW b \in Starts(m) PROVE b <= i <=> b <= l
      <4>1. b \in Int /\ (b <= i => b <= u) /\ l \in Int
        BY <1>1, <1>3, <2>3
      <4> QED BY <2>4, <2>5, <4>1
    <3>2. Together(m, i, l)
      BY <3>1 DEF Together
    <3> QED BY <1>1, <2>1, <3>2 DEF Unbroken
  <2>6. ASSUME NEW c \in Pending(r, k - 1) PROVE c \in Pending(m, i - 1)
    <3>1. PICK j \in 1..k - 1 : c \in Ids(r[j].calls) /\ \A t \in j + 1..k - 1 : r[t].call # c
      BY <2>6, PendingIs
    <3>2. j \in 1..p /\ j < k /\ g(j) < i /\ g(j) \in 1..n
      BY <1>2
    <3>3. u <= g(j)
      <4>1. SUFFICES ASSUME g(j) < u PROVE FALSE
        BY <1>1, <2>4, <3>2
      <4>2. PICK t \in 1..p : j < t /\ g(t) < u /\ r[t].call = c
        BY <1>5, <2>4, <3>1, <3>2, <4>1
      <4>3. g(t) < i
        <5>1. g(t) \in Int
          BY <1>1, <1>2
        <5> QED BY <2>4, <4>2, <5>1
      <4>4. t < k
        BY <1>2, <4>3
      <4>5. t \in j + 1..k - 1
        BY <1>2, <3>2, <4>2, <4>4
      <4> QED BY <3>1, <4>2, <4>5
    <3>4. g(j) \in K \ F
      BY <1>1, <2>4, <2>5, <3>2, <3>3
    <3>5. r[j] = m[g(j)]
      BY <1>2, <3>2, <3>4
    <3>6. ASSUME NEW l \in g(j) + 1..i - 1 PROVE m[l].call # c
      <4>1. l \in 1..n /\ u <= l /\ l <= i /\ g(j) < l /\ l < i
        <5>1. g(j) \in Int /\ l \in Int /\ g(j) < l /\ l < i
          BY <1>1, <2>4, <3>2
        <5> QED BY <1>1, <2>1, <2>4, <3>3, <5>1
      <4>2. l \in K \ F
        BY <2>5, <4>1
      <4>3. rank(l) \in 1..p /\ g(rank(l)) = l /\ r[rank(l)] = m[l]
        BY <1>2, <4>2
      <4>4. j < rank(l) /\ rank(l) < k
        BY <1>2, <3>2, <4>1, <4>3
      <4>5. rank(l) \in j + 1..k - 1
        <5>1. rank(l) \in Int /\ j \in Int /\ k \in Int
          BY <1>2, <3>2, <4>3
        <5> QED BY <4>4, <5>1
      <4> QED BY <3>1, <4>3, <4>5
    <3>7. g(j) \in 1..i - 1
      BY <1>1, <2>4, <3>2
    <3> QED BY <3>1, <3>5, <3>6, <3>7, PendingIs
  <2>7. ASSUME NEW c \in Pending(m, i - 1) PROVE c \in Pending(r, k - 1)
    <3>1. PICK j \in 1..i - 1 : c \in Ids(m[j].calls) /\ \A l \in j + 1..i - 1 : m[l].call # c
      BY <2>7, PendingIs
    <3>2. j \in Int /\ j < i /\ j \in 1..n
      BY <1>1, <2>1, <2>4
    <3>3. u <= j
      <4>1. SUFFICES ASSUME j < u PROVE FALSE
        BY <2>4, <3>2
      <4>2. j \in 1..u - 1 /\ \A l \in j + 1..u - 1 : l \in j + 1..i - 1
        BY <2>4, <3>2, <4>1
      <4>3. c \in Pending(m, u - 1)
        BY <3>1, <4>2, PendingIs
      <4> QED BY <1>4, <2>4, <4>3
    <3>4. j \in K \ F
      BY <2>4, <2>5, <3>2, <3>3
    <3>5. rank(j) \in 1..p /\ g(rank(j)) = j /\ r[rank(j)] = m[j]
      BY <1>2, <3>4
    <3>6. rank(j) < k
      BY <1>2, <3>2, <3>5
    <3>7. ASSUME NEW t \in rank(j) + 1..k - 1 PROVE r[t].call # c
      <4>1. t \in 1..p /\ rank(j) < t /\ t < k
        BY <1>2, <3>5
      <4>2. j < g(t) /\ g(t) < i /\ g(t) \in 1..n
        BY <1>2, <3>5, <4>1
      <4>3. g(t) \in j + 1..i - 1 /\ u <= g(t) /\ g(t) <= i
        BY <1>1, <2>4, <3>2, <3>3, <4>2
      <4>4. g(t) \in K \ F
        BY <2>5, <4>2, <4>3
      <4>5. r[t] = m[g(t)]
        BY <1>2, <4>1, <4>4
      <4> QED BY <3>1, <4>3, <4>5
    <3>8. rank(j) \in 1..k - 1
      BY <1>6, <3>5, <3>6
    <3> QED BY <3>1, <3>5, <3>7, <3>8, PendingIs
  <2> QED BY <2>1, <2>6, <2>7
<1>10. ASSUME NEW k \in DOMAIN r
       PROVE  /\ r[k].role = "tool" => r[k].call \in Pending(r, k - 1)
              /\ r[k].role = "assistant" =>
                   /\ Ids(r[k].calls) \cap Pending(r, k - 1) = {}
                   /\ Cardinality(Ids(r[k].calls)) = Len(r[k].calls)
              /\ r[k].role \notin {"tool", "assistant"} => Pending(r, k - 1) = {}
  <2>1. k \in 1..p
    BY <1>2
  <2>2. CASE g(k) \in F
    <3>1. r[k].role = "system"
      BY <1>2, <1>3, <2>1, <2>2
    <3> QED BY <1>7, <2>1, <2>2, <3>1
  <2>3. CASE g(k) \notin F
    <3> DEFINE i == g(k)
    <3>1. i \in DOMAIN m /\ r[k] = m[i] /\ Pending(r, k - 1) = Pending(m, i - 1)
      BY <1>1, <1>2, <1>9, <2>1, <2>3
    <3> HIDE DEF i
    <3>2. /\ m[i].role = "tool" => m[i].call \in Pending(m, i - 1)
          /\ m[i].role = "assistant" =>
               /\ Ids(m[i].calls) \cap Pending(m, i - 1) = {}
               /\ Cardinality(Ids(m[i].calls)) = Len(m[i].calls)
          /\ m[i].role \notin {"tool", "assistant"} => Pending(m, i - 1) = {}
      BY <3>1 DEF ChainsComplete
    <3> QED BY <3>1, <3>2
  <2> QED BY <2>2, <2>3
<1>11. ChainsComplete(r)
  BY <1>2, <1>8, <1>10 DEF ChainsComplete
<1> QED BY <1>11 DEF r

(***************************************************************************)
(* Context.Build.                                                           *)
(***************************************************************************)
LEMMA LeastOf ==
  ASSUME NEW S \in SUBSET Int, IsFiniteSet(S), S # {}
  PROVE  (CHOOSE x \in S : \A y \in S : x <= y) \in S
<1>1. \E x \in S : \A y \in S : x <= y
  BY Extremes
<1> QED BY <1>1

LEMMA OldestIsDownward ==
  ASSUME NEW D \in SUBSET Int, IsFiniteSet(D), NEW k \in Int
  PROVE  /\ Oldest(D, k) \subseteq D
         /\ \A u \in Oldest(D, k), v \in D : v < u => v \in Oldest(D, k)
<1> DEFINE before(u) == {w \in D : w < u}
<1>1. ASSUME NEW u \in D PROVE IsFiniteSet(before(u)) /\ Cardinality(before(u)) \in Nat
  <2>1. before(u) \in SUBSET D
    OBVIOUS
  <2> HIDE DEF before
  <2> QED BY <2>1, FS_Subset, FS_CardinalityType
<1>2. ASSUME NEW u \in D, NEW v \in D, v < u
      PROVE  Cardinality(before(v)) <= Cardinality(before(u))
  <2>1. \A w \in D : w \in Int
    OBVIOUS
  <2>2. \A w \in D : w < v => w < u
    BY <1>2, <2>1
  <2>3. before(v) \in SUBSET before(u)
    BY <2>2
  <2> HIDE DEF before
  <2> QED BY <1>1, <2>3, FS_Subset
<1>3. \A u : u \in Oldest(D, k) <=> u \in D /\ Cardinality(before(u)) < k
  BY DEF Oldest
<1> HIDE DEF before
<1>4. ASSUME NEW u \in Oldest(D, k), NEW v \in D, v < u PROVE v \in Oldest(D, k)
  <2>1. u \in D /\ Cardinality(before(u)) < k
    BY <1>3
  <2>2. /\ Cardinality(before(v)) <= Cardinality(before(u))
        /\ Cardinality(before(v)) \in Int /\ Cardinality(before(u)) \in Int
    BY <1>1, <1>2, <1>4, <2>1
  <2>3. Cardinality(before(v)) < k
    BY <2>1, <2>2
  <2> QED BY <1>3, <2>3
<1> QED BY <1>3, <1>4

(* The units are apart, and leaving out some of them breaks none.             *)
LEMMA UnitsApart ==
  ASSUME NEW X, NEW m \in Seq(X), NEW S \in SUBSET UserAt(m)
  PROVE  /\ UserAt(m) \in SUBSET (1..Len(m)) /\ UserAt(m) \subseteq Starts(m)
         /\ MembersOf(m, S) \in SUBSET (1..Len(m)) /\ S \subseteq MembersOf(m, S)
         /\ \A u \in UserAt(m) : u \in MembersOf(m, S) => u \in S
         /\ \A c \in UserAt(m), i \in 1..Len(m) :
              (\A u \in S : u < c) /\ c <= i => i \notin MembersOf(m, S)
         /\ Unbroken(m, 1..Len(m) \ MembersOf(m, S))
<1>1. Len(m) \in Nat /\ DOMAIN m = 1..Len(m)
  OBVIOUS
<1>2. UserAt(m) \in SUBSET (1..Len(m)) /\ UserAt(m) \subseteq Starts(m)
  BY <1>1 DEF UserAt, Starts
<1>3. \A i : i \in MembersOf(m, S) <=>
        \E u \in S : i \in 1..Len(m) /\ u <= i /\ ~\E v \in UserAt(m) : u < v /\ v <= i
  BY <1>1 DEF MembersOf, Members
<1>4. \A u \in UserAt(m) : u \in Int
  BY <1>2
<1>5. S \subseteq MembersOf(m, S)
  <2>1. ASSUME NEW u \in S PROVE u \in MembersOf(m, S)
    <3>1. u \in 1..Len(m) /\ u \in Int /\ u <= u
      BY <1>2, <1>4
    <3>2. \A v \in UserAt(m) : ~(u < v /\ v <= u)
      BY <1>4, <3>1
    <3> QED BY <1>3, <3>1, <3>2
  <2> QED BY <2>1
<1>6. ASSUME NEW u \in UserAt(m), u \in MembersOf(m, S) PROVE u \in S
  <2>1. PICK w \in S : w <= u /\ ~\E v \in UserAt(m) : w < v /\ v <= u
    BY <1>3, <1>6
  <2>2. w \in Int /\ u \in Int
    BY <1>4
  <2>3. ~(w < u)
    BY <2>1, <2>2
  <2>4. w = u
    BY <2>1, <2>2, <2>3
  <2> QED BY <2>4
<1>7. ASSUME NEW c \in UserAt(m), NEW i \in 1..Len(m), \A u \in S : u < c, c <= i
      PROVE  i \notin MembersOf(m, S)
  BY <1>3, <1>7
<1>8. ASSUME NEW i \in 1..Len(m) \ MembersOf(m, S), NEW l \in 1..Len(m), Together(m, i, l)
      PROVE  l \notin MembersOf(m, S)
  <2>1. SUFFICES ASSUME l \in MembersOf(m, S) PROVE FALSE
    OBVIOUS
  <2>2. PICK u \in S : u <= l /\ ~\E v \in UserAt(m) : u < v /\ v <= l
    BY <1>3, <2>1
  <2>3. \A b \in UserAt(m) : b <= i <=> b <= l
    BY <1>2, <1>8 DEF Together
  <2>4. u <= i /\ ~\E v \in UserAt(m) : u < v /\ v <= i
    BY <2>2, <2>3
  <2> QED BY <1>3, <2>4
<1>9. Unbroken(m, 1..Len(m) \ MembersOf(m, S))
  BY <1>1, <1>8 DEF Unbroken
<1> QED BY <1>2, <1>3, <1>5, <1>6, <1>7, <1>9

LEMMA TruncateDoes ==
  ASSUME NEW m, NEW s, NEW K, NEW D, IsFiniteSet(D), Truncate(m, s, K, D).ok
  PROVE  \E k \in 1..Cardinality(D) :
           /\ Truncate(m, s, K, D).msgs = Keep(s, K \ MembersOf(m, Oldest(D, k)))
           /\ Len(Keep(s, K \ MembersOf(m, Oldest(D, k)))) <= Budget
<1> DEFINE d == Cardinality(D)
           enough == {k \in 1..d : Tokens(Shorter(m, s, K, D, k)) <= Budget}
           least == CHOOSE k \in enough : \A j \in enough : k <= j
<1>1. Truncate(m, s, K, D) = IF enough = {} THEN Overflow ELSE Built(Shorter(m, s, K, D, least))
  BY DEF Truncate
<1>2. enough # {} /\ Truncate(m, s, K, D).msgs = Shorter(m, s, K, D, least)
  BY <1>1 DEF Overflow, Built
<1>3. enough \in SUBSET Int /\ IsFiniteSet(enough)
  <2>1. d \in Nat
    BY FS_CardinalityType
  <2>2. enough \in SUBSET (1..d)
    OBVIOUS
  <2> HIDE DEF enough, d
  <2>3. IsFiniteSet(1..d) /\ 1..d \subseteq Int
    BY <2>1, FS_Interval
  <2> QED BY <2>2, <2>3, FS_Subset
<1>4. least \in enough
  <2> HIDE DEF enough
  <2> QED BY <1>2, <1>3, LeastOf
<1> HIDE DEF least
<1> QED BY <1>2, <1>4 DEF Shorter, Tokens

(* What Build makes of the candidate m: some positions of it, or of it with   *)
(* the summary in the place of the first unit that it stands for.            *)
BuiltFrom(m, cur, s, K, r) ==
  /\ r = Keep(s, K) /\ Len(r) <= Budget /\ ChainsComplete(r)
  /\ \A i \in 1..Len(m) : cur <= i => i \in K /\ s[i] = m[i]
  /\ \A i \in K : s[i] = m[i] \/ s[i] = Summary
  /\ \/ \E i \in DOMAIN r : r[i] = Summary
     \/ /\ s = m
        /\ \E c \in 1..Len(m) : K = {i \in 1..Len(m) : i \in SystemPrefix(m) \/ c <= i}

LEMMA ValidIs ==
  ASSUME NEW X, NEW m \in Seq(X), NEW cur, ValidSequence(m, cur)
  PROVE  /\ ChainsComplete(m) /\ cur \in UserAt(m) /\ cur \in 1..Len(m)
         /\ \A i \in 1..Len(m) : i \in SystemPrefix(m) \/ \E u \in UserAt(m) : u <= i
         /\ \A i \in 1..Len(m) : \E b \in Starts(m) : b <= i
         /\ \A i \in SystemPrefix(m), u \in UserAt(m) : i < u
<1>1. Len(m) \in Nat /\ DOMAIN m = 1..Len(m)
  OBVIOUS
<1>2. /\ ChainsComplete(m) /\ cur \in UserAt(m) /\ cur \in 1..Len(m)
      /\ \A i \in 1..Len(m) : i \in SystemPrefix(m) \/ \E u \in UserAt(m) : u <= i
  BY <1>1 DEF ValidSequence, UserAt
<1>3. UserAt(m) \subseteq Starts(m) /\ SystemPrefix(m) \subseteq Starts(m)
  BY <1>1 DEF UserAt, SystemPrefix, Starts
<1>4. \A i \in 1..Len(m) : i <= i
  BY <1>1
<1>5. \A i \in SystemPrefix(m), u \in UserAt(m) : i < u
  <2>1. TAKE i \in SystemPrefix(m), u \in UserAt(m)
  <2>2. i \in Int /\ u \in 1..Len(m) /\ ~(u \in 1..i)
    BY <1>1 DEF SystemPrefix, UserAt
  <2> QED BY <2>2
<1> QED BY <1>2, <1>3, <1>4, <1>5

LEMMA WholeFits ==
  ASSUME NEW X, NEW m \in Seq(X), NEW cur, ValidSequence(m, cur), Len(m) <= Budget
  PROVE  BuiltFrom(m, cur, m, 1..Len(m), m)
<1>1. Len(m) \in Nat /\ ChainsComplete(m) /\ cur \in 1..Len(m)
  BY ValidIs
<1>2. m = Keep(m, 1..Len(m))
  <2>1. Keep(m, 1..Len(m)) = SubSeq(m, 1, Len(m))
    <3>1. 1 \in 1..Len(m) + 1 /\ Len(m) \in 0..Len(m) /\ 1 <= Len(m) + 1
      BY <1>1
    <3> QED BY <3>1, KeepInterval
  <2>2. SubSeq(m, 1, Len(m)) = m
    <3>1. \A i \in 1..Len(m) : m[i] \in X
      BY ElementOfSeq
    <3>2. /\ SubSeq(m, 1, Len(m)) \in Seq(X) /\ Len(SubSeq(m, 1, Len(m))) = Len(m)
          /\ \A i \in 1..Len(m) : SubSeq(m, 1, Len(m))[i] = m[i]
      BY <1>1
    <3> QED BY <3>2, SeqEqual
  <2> QED BY <2>1, <2>2
<1>3. 1 \in 1..Len(m) /\ 1..Len(m) = {i \in 1..Len(m) : i \in SystemPrefix(m) \/ 1 <= i}
  BY <1>1
<1> QED BY <1>1, <1>2, <1>3 DEF BuiltFrom

(* truncate without a summary: the oldest units go, up to some unit.          *)
LEMMA OldestGone ==
  ASSUME NEW X, NEW m \in Seq(X), NEW cur, ValidSequence(m, cur), NEW k \in Int,
         NEW K, K = 1..Len(m) \ MembersOf(m, Oldest(Deletable(m, cur), k)),
         Len(Keep(m, K)) <= Budget
  PROVE  BuiltFrom(m, cur, m, K, Keep(m, K))
<1> DEFINE U == UserAt(m)
           D == Deletable(m, cur)
           S == Oldest(D, k)
<1>1. /\ Len(m) \in Nat /\ ChainsComplete(m) /\ cur \in U /\ cur \in 1..Len(m)
      /\ \A i \in 1..Len(m) : i \in SystemPrefix(m) \/ \E u \in U : u <= i
      /\ \A i \in 1..Len(m) : \E b \in Starts(m) : b <= i
      /\ \A i \in SystemPrefix(m), u \in U : i < u
  BY ValidIs
<1>2. /\ U \in SUBSET Int /\ IsFiniteSet(U) /\ D \in SUBSET Int /\ IsFiniteSet(D)
      /\ D \subseteq U /\ \A u \in D : u < cur
      /\ \A u \in U : u < cur => u \in D
  <2>1. U \in SUBSET (1..Len(m)) /\ D \subseteq U
    BY DEF UserAt, Deletable
  <2>2. IsFiniteSet(1..Len(m)) /\ 1..Len(m) \subseteq Int
    BY <1>1, FS_Interval
  <2>3. U \in SUBSET Int /\ IsFiniteSet(U)
    BY <2>1, <2>2, FS_Subset
  <2>4. IsFiniteSet(D)
    BY <2>1, <2>3, FS_Subset
  <2> QED BY <2>1, <2>3, <2>4 DEF Deletable
<1>3. S \subseteq D /\ \A u \in S, v \in D : v < u => v \in S
  <2> HIDE DEF D
  <2> QED BY <1>2, OldestIsDownward
<1> HIDE DEF S, D
<1>4. S \in SUBSET U /\ cur \notin S
  BY <1>1, <1>2, <1>3
<1>5. /\ U \in SUBSET (1..Len(m))
      /\ \A c \in U, i \in 1..Len(m) : (\A u \in S : u < c) /\ c <= i => i \notin MembersOf(m, S)
      /\ Unbroken(m, 1..Len(m) \ MembersOf(m, S))
      /\ K = 1..Len(m) \ MembersOf(m, S) /\ K \in SUBSET (1..Len(m))
  <2>1. K = 1..Len(m) \ MembersOf(m, S) /\ K \in SUBSET (1..Len(m))
    BY DEF S, D
  <2> QED BY <1>4, <2>1, UnitsApart
<1>6. PICK c \in U \ S : \A u \in U \ S : c <= u
  <2>1. U \ S \in SUBSET Int /\ IsFiniteSet(U \ S) /\ U \ S # {}
    <3>1. U \ S \in SUBSET U
      OBVIOUS
    <3> HIDE DEF U
    <3> QED BY <1>1, <1>2, <1>4, <3>1, FS_Subset
  <2> HIDE DEF U
  <2> QED BY <2>1, Extremes
<1>7. c \in 1..Len(m) /\ c <= cur /\ c \in Int /\ cur \in Int
  BY <1>1, <1>4, <1>5, <1>6
<1>8. \A u \in S : u < c
  <2>1. SUFFICES ASSUME NEW u \in S, ~(u < c) PROVE FALSE
    OBVIOUS
  <2>2. u \in D /\ u \in Int /\ u < cur /\ u # c
    BY <1>2, <1>3, <1>6
  <2>3. c < u /\ c < cur
    BY <1>7, <2>1, <2>2
  <2> QED BY <1>2, <1>3, <1>6, <2>2, <2>3
<1>9. \A u \in U : u < c => u \in S
  <2>1. \A u \in U : u \in Int
    BY <1>2
  <2> QED BY <1>6, <1>7, <2>1
<1>10. ASSUME NEW i \in 1..Len(m) PROVE i \in K <=> i \in SystemPrefix(m) \/ c <= i
  <2>1. ASSUME c <= i PROVE i \in K
    BY <1>5, <1>6, <1>8, <2>1
  <2>2. ASSUME i \in SystemPrefix(m) PROVE i \in K
    <3>1. \A u \in S : i < u /\ u \in Int
      BY <1>1, <1>2, <1>4, <2>2
    <3>2. i \notin MembersOf(m, S)
      BY <3>1 DEF MembersOf, Members
    <3> QED BY <1>5, <3>2
  <2>3. ASSUME i \notin SystemPrefix(m), ~(c <= i) PROVE i \notin K
    <3> DEFINE V == {u \in U : u <= i}
    <3>1. V \in SUBSET U /\ V # {}
      BY <1>1, <2>3
    <3> HIDE DEF V
    <3>2. V \in SUBSET Int /\ IsFiniteSet(V)
      BY <1>2, <3>1, FS_Subset
    <3>3. PICK u \in V : \A v \in V : v <= u
      BY <3>1, <3>2, Extremes
    <3>4. u \in U /\ u <= i /\ u \in Int /\ \A v \in U : v <= i => v <= u /\ v \in Int
      BY <1>2, <3>2, <3>3 DEF V
    <3>5. u \in S
      BY <1>7, <1>9, <2>3, <3>4
    <3>6. i \in Members(m, u)
      <4>1. DOMAIN m = 1..Len(m)
        OBVIOUS
      <4>2. \A v \in U : ~(u < v /\ v <= i)
        BY <3>4
      <4> QED BY <3>4, <4>1, <4>2 DEF Members
    <3>7. i \in MembersOf(m, S)
      BY <3>5, <3>6 DEF MembersOf
    <3> QED BY <1>5, <3>7
  <2> QED BY <2>1, <2>2, <2>3
<1>11. K = {i \in 1..Len(m) : i \in SystemPrefix(m) \/ c <= i}
  <2> HIDE DEF U
  <2> QED BY <1>5, <1>10
<1>12. \A i \in 1..Len(m) : cur <= i => i \in K
  <2>1. \A i \in 1..Len(m) : cur <= i => c <= i
    BY <1>7
  <2> QED BY <1>10, <2>1
<1>13. ChainsComplete(Keep(m, K))
  <2>1. {} \in SUBSET K /\ K \ {} = K
    OBVIOUS
  <2> QED BY <1>1, <1>5, <2>1, KeepChains
<1> QED BY <1>7, <1>11, <1>12, <1>13 DEF BuiltFrom

(* With a summary: whole units are gone, and of the first of those that it    *)
(* stands for the first message has become the summary.                       *)
LEMMA SummaryIn ==
  ASSUME NEW X, NEW m \in Seq(X), NEW cur, ValidSequence(m, cur),
         NEW S \in SUBSET Deletable(m, cur), NEW f \in S,
         NEW K \in SUBSET (1..Len(m)), f \in K, K \ {f} = 1..Len(m) \ MembersOf(m, S),
         NEW s, s[f] = Summary, \A i \in 1..Len(m) : i # f => s[i] = m[i],
         Len(Keep(s, K)) <= Budget
  PROVE  BuiltFrom(m, cur, s, K, Keep(s, K))
<1> DEFINE U == UserAt(m)
           F == {f}
<1>1. /\ Len(m) \in Nat /\ ChainsComplete(m) /\ cur \in U /\ cur \in 1..Len(m)
      /\ \A i \in 1..Len(m) : \E b \in Starts(m) : b <= i
  BY ValidIs
<1>2. S \in SUBSET U /\ \A u \in S : u < cur
  BY DEF Deletable
<1>3. /\ U \in SUBSET (1..Len(m)) /\ U \subseteq Starts(m)
      /\ Unbroken(m, 1..Len(m) \ MembersOf(m, S))
      /\ \A i \in 1..Len(m) : cur <= i => i \notin MembersOf(m, S)
  BY <1>1, <1>2, UnitsApart
<1>4. f \in Starts(m) /\ f \in Int /\ f < cur /\ cur \in Int
  BY <1>1, <1>2, <1>3
<1>5. ChainsComplete(Keep(s, K))
  <2>1. /\ F \in SUBSET K /\ \A i \in K \ F : s[i] = m[i]
        /\ \A i \in F : i \in Starts(m) /\ s[i] = Summary
        /\ Unbroken(m, K \ F)
    BY <1>3, <1>4
  <2> HIDE DEF F, U
  <2> QED BY <1>1, <2>1, KeepChains
<1>6. \A i \in 1..Len(m) : cur <= i => i \in K /\ s[i] = m[i]
  <2>1. \A i \in 1..Len(m) : cur <= i => i # f
    BY <1>4
  <2> QED BY <1>3, <2>1
<1>7. \E i \in DOMAIN Keep(s, K) : Keep(s, K)[i] = Summary
  <2>1. K \in SUBSET Int /\ IsFiniteSet(K)
    BY KeepTyped
  <2>2. \E i \in DOMAIN Keep(s, K) : Keep(s, K)[i] = s[f]
    BY <2>1, KeepReaches
  <2> QED BY <2>2
<1>8. \A i \in K : s[i] = m[i] \/ s[i] = Summary
  OBVIOUS
<1> QED BY <1>5, <1>6, <1>7, <1>8 DEF BuiltFrom

LEMMA BuildCases ==
  ASSUME NEW X, NEW m \in Seq(X), NEW cur, NEW summarised, Build(m, cur, summarised).ok
  PROVE  LET all == Truncate(m, m, DOMAIN m, Deletable(m, cur))
         IN  /\ ValidSequence(m, cur)
             /\ \/ Len(m) <= Budget /\ Build(m, cur, summarised).msgs = m
                \/ all.ok /\ Build(m, cur, summarised) = all
                \/ Summarize(m, cur).ok /\ Build(m, cur, summarised) = Summarize(m, cur)
<1>1. Len(m) \in Nat /\ Budget \in Nat
  BY ContextAssumption
<1>2. Len(m) <= Budget \/ Len(m) > Budget
  BY <1>1
<1> QED BY <1>1, <1>2 DEF Build, Built, Overflow, Tokens

LEMMA SummarizeCases ==
  ASSUME NEW m, NEW cur, Summarize(m, cur).ok
  PROVE  LET C == Candidates(m, cur)
             f == CHOOSE u \in C : \A v \in C : u <= v
             s == [m EXCEPT ![f] = Summary]
             K == DOMAIN m \ (MembersOf(m, C) \ {f})
             rest == Truncate(m, s, K, Deletable(m, cur) \ C)
         IN  /\ C # {}
             /\ \/ Len(Keep(s, K)) <= Budget /\ Summarize(m, cur).msgs = Keep(s, K)
                \/ rest.ok /\ Summarize(m, cur) = rest
BY DEF Summarize, Built, Overflow, Tokens

Made(m, cur, Y, r) ==
  \E K \in SUBSET (1..Len(m)), s \in Seq(Y) : Len(s) = Len(m) /\ BuiltFrom(m, cur, s, K, r)
(* Build, for any valid candidate: what it returns fits the budget, has every  *)
(* call with its result, all from the current user message on, and otherwise  *)
(* messages of the candidate in their order or the one summary; with no        *)
(* summary it has just the system prefix and a tail of the candidate.         *)
THEOREM BuildIsSound ==
  ASSUME NEW X, NEW m \in Seq(X), NEW cur, NEW summarised, Build(m, cur, summarised).ok
  PROVE  /\ ValidSequence(m, cur)
         /\ Made(m, cur, X \cup {Summary}, Build(m, cur, summarised).msgs)
<1> DEFINE D == Deletable(m, cur)
           n == Len(m)
           Y == X \cup {Summary}
           r == Build(m, cur, summarised).msgs
           Good(s, K) == /\ s \in Seq(Y) /\ Len(s) = Len(m) /\ K \in SUBSET (1..n)
                         /\ BuiltFrom(m, cur, s, K, r)
<1>1. n \in Nat /\ DOMAIN m = 1..n /\ m \in Seq(Y) /\ ValidSequence(m, cur)
  <2>1. m \in Seq(Y)
    BY SeqMonotonic
  <2> QED BY <2>1, BuildCases
<1>2. D \in SUBSET UserAt(m) /\ D \in SUBSET (1..n) /\ D \in SUBSET Int /\ IsFiniteSet(D)
  <2>1. D \in SUBSET UserAt(m) /\ D \in SUBSET (1..n)
    BY <1>1 DEF Deletable, UserAt
  <2>2. IsFiniteSet(1..n) /\ 1..n \subseteq Int
    BY <1>1, FS_Interval
  <2> HIDE DEF D
  <2> QED BY <2>1, <2>2, FS_Subset
<1>6. \A s, K : Good(s, K) => Made(m, cur, Y, r)
  <2> HIDE DEF r, Y
  <2> QED BY DEF Made
<1>3. CASE Len(m) <= Budget /\ r = m
  <2>1. Good(m, 1..n)
    BY <1>1, <1>3, WholeFits
  <2> HIDE DEF Good
  <2> QED BY <1>1, <1>6, <2>1
<1>4. CASE /\ Truncate(m, m, DOMAIN m, D).ok
           /\ Build(m, cur, summarised) = Truncate(m, m, DOMAIN m, D)
  <2>1. PICK k \in 1..Cardinality(D) :
          /\ Truncate(m, m, DOMAIN m, D).msgs = Keep(m, DOMAIN m \ MembersOf(m, Oldest(D, k)))
          /\ Len(Keep(m, DOMAIN m \ MembersOf(m, Oldest(D, k)))) <= Budget
    <3> HIDE DEF D
    <3> QED BY <1>2, <1>4, TruncateDoes
  <2>2. PICK K : K = 1..n \ MembersOf(m, Oldest(D, k))
    OBVIOUS
  <2>3. r = Keep(m, K) /\ Len(Keep(m, K)) <= Budget /\ k \in Int
    BY <1>1, <1>4, <2>1, <2>2
  <2>4. BuiltFrom(m, cur, m, K, Keep(m, K))
    BY <1>1, <2>2, <2>3, OldestGone
  <2>5. Good(m, K)
    BY <1>1, <2>2, <2>3, <2>4
  <2> HIDE DEF Good
  <2> QED BY <1>1, <1>6, <2>5
<1>5. CASE Summarize(m, cur).ok /\ Build(m, cur, summarised) = Summarize(m, cur)
  <2> DEFINE C == Candidates(m, cur)
  <2>1. PICK f : f = CHOOSE u \in C : \A v \in C : u <= v
    OBVIOUS
  <2>2. PICK s : s = [m EXCEPT ![f] = Summary]
    OBVIOUS
  <2>3. PICK K : K = 1..n \ (MembersOf(m, C) \ {f})
    OBVIOUS
  <2>4. /\ C # {}
        /\ \/ Len(Keep(s, K)) <= Budget /\ r = Keep(s, K)
           \/ Truncate(m, s, K, D \ C).ok /\ r = Truncate(m, s, K, D \ C).msgs
    <3>1. K = DOMAIN m \ (MembersOf(m, C) \ {f})
      BY <1>1, <2>3
    <3> QED BY <1>5, <2>1, <2>2, <3>1, SummarizeCases
  <2>5. C \in SUBSET D
    BY DEF Candidates, Oldest, Compressible
  <2> HIDE DEF C, D
  <2>6. f \in C /\ IsFiniteSet(D \ C) /\ f \in 1..n
    <3>1. C \in SUBSET Int /\ IsFiniteSet(C) /\ IsFiniteSet(D \ C)
      BY <1>2, <2>5, FS_Subset
    <3> QED BY <1>2, <2>1, <2>4, <2>5, <3>1, LeastOf
  <2>7. s \in Seq(Y) /\ Len(s) = n /\ s[f] = Summary /\ \A i \in 1..n : i # f => s[i] = m[i]
    BY <1>1, <2>2, <2>6
  <2>8. /\ C \subseteq MembersOf(m, C)
        /\ \A S \in SUBSET (D \ C) : f \notin MembersOf(m, S)
    <3>1. C \in SUBSET UserAt(m) /\ f \in UserAt(m)
      BY <1>2, <2>5, <2>6
    <3>2. \A S \in SUBSET (D \ C) : S \in SUBSET UserAt(m) /\ f \notin S
      BY <1>2, <2>6
    <3> QED BY <3>1, <3>2, UnitsApart
  <2>9. \A S : MembersOf(m, C \cup S) = MembersOf(m, C) \cup MembersOf(m, S)
    BY DEF MembersOf
  <2>10. ASSUME NEW S \in SUBSET (D \ C), NEW J, J = K \ MembersOf(m, S),
                Len(Keep(s, J)) <= Budget, r = Keep(s, J)
         PROVE  Good(s, J)
    <3>1. J \in SUBSET (1..n) /\ f \in J /\ J \ {f} = 1..n \ MembersOf(m, C \cup S)
      BY <2>3, <2>6, <2>8, <2>9, <2>10
    <3>2. C \cup S \in SUBSET D /\ f \in C \cup S
      BY <2>5, <2>6
    <3> HIDE DEF Y, r
    <3>3. BuiltFrom(m, cur, s, J, Keep(s, J))
      <4>1. PICK T : T = C \cup S
        OBVIOUS
      <4>2. T \in SUBSET Deletable(m, cur) /\ f \in T /\ J \ {f} = 1..Len(m) \ MembersOf(m, T)
        BY <3>1, <3>2, <4>1 DEF D
      <4>3. J \in SUBSET (1..Len(m)) /\ f \in J /\ Len(Keep(s, J)) <= Budget
        BY <2>10, <3>1
      <4>4. s[f] = Summary /\ \A i \in 1..Len(m) : i # f => s[i] = m[i]
        BY <2>7
      <4> QED BY <1>1, <4>2, <4>3, <4>4, SummaryIn
    <3> QED BY <2>7, <2>10, <3>1, <3>3
  <2>11. CASE Len(Keep(s, K)) <= Budget /\ r = Keep(s, K)
    <3>1. {} \in SUBSET (D \ C) /\ K = K \ MembersOf(m, {})
      BY DEF MembersOf
    <3>2. Good(s, K)
      BY <2>10, <2>11, <3>1
    <3> HIDE DEF Good
    <3> QED BY <1>1, <1>6, <3>2
  <2>12. CASE Truncate(m, s, K, D \ C).ok /\ r = Truncate(m, s, K, D \ C).msgs
    <3>1. PICK k \in 1..Cardinality(D \ C) :
            /\ Truncate(m, s, K, D \ C).msgs = Keep(s, K \ MembersOf(m, Oldest(D \ C, k)))
            /\ Len(Keep(s, K \ MembersOf(m, Oldest(D \ C, k)))) <= Budget
      <4>1. PICK E : E = D \ C
        OBVIOUS
      <4> QED BY <2>6, <2>12, <4>1, TruncateDoes
    <3>2. Oldest(D \ C, k) \in SUBSET (D \ C)
      BY DEF Oldest
    <3>3. PICK J : J = K \ MembersOf(m, Oldest(D \ C, k))
      OBVIOUS
    <3>4. Len(Keep(s, J)) <= Budget /\ r = Keep(s, J)
      BY <2>12, <3>1, <3>3
    <3>5. Good(s, J)
      <4>1. PICK S : S = Oldest(D \ C, k)
        OBVIOUS
      <4>2. S \in SUBSET (D \ C) /\ J = K \ MembersOf(m, S)
        BY <3>2, <3>3, <4>1
      <4> HIDE DEF Good, r
      <4> QED BY <2>10, <3>4, <4>2
    <3> HIDE DEF Good
    <3> QED BY <1>1, <1>6, <3>5
  <2> QED BY <2>4, <2>11, <2>12
<1> QED BY <1>1, <1>3, <1>4, <1>5, BuildCases

LEMMA TailKept ==
  ASSUME NEW X, NEW a \in Seq(X), NEW b \in Seq(X)
  PROVE  Keep(a \o b, Len(a) + 1..Len(a \o b)) = b
<1> DEFINE r == a \o b
           l == Len(a)
           n == Len(r)
<1>1. r \in Seq(X) /\ l \in Nat /\ Len(b) \in Nat /\ n = l + Len(b)
  BY ConcatProperties
<1>2. \A k \in 1..Len(b) : r[l + k] = b[k]
  BY ConcatProperties
<1> HIDE DEF r, l
<1>3. Keep(r, l + 1..n) = SubSeq(r, l + 1, n)
  <2>1. l + 1 \in 1..Len(r) + 1 /\ n \in 0..Len(r) /\ l + 1 <= n + 1
    BY <1>1
  <2> QED BY <1>1, <2>1, KeepInterval
<1>4. SubSeq(r, l + 1, n) = b
  <2>1. /\ SubSeq(r, l + 1, n) \in Seq(X) /\ Len(SubSeq(r, l + 1, n)) = Len(b)
        /\ \A k \in 1..Len(b) : SubSeq(r, l + 1, n)[k] = r[l + k]
    <3>1. PICK lo \in Int : lo = l + 1
      BY <1>1
    <3>2. PICK hi \in Int : hi = n
      BY <1>1
    <3>3. PICK h \in Nat : h = Len(b)
      BY <1>1
    <3>4. hi - lo + 1 = h /\ (lo <= hi \/ h = 0) /\ lo >= 1 /\ hi <= Len(r)
      BY <1>1, <3>1, <3>2, <3>3
    <3>5. PICK sub : sub = SubSeq(r, lo, hi)
      OBVIOUS
    <3> HIDE DEF n
    <3>6. /\ sub \in Seq(X)
          /\ Len(sub) = IF lo <= hi THEN hi - lo + 1 ELSE 0
          /\ \A k \in 1..hi - lo + 1 : sub[k] = r[lo + k - 1]
      <4>1. \A i \in lo..hi : r[i] \in X
        BY <1>1, <3>4
      <4> QED BY <3>5, <4>1, SubSeqProperties
    <3>7. Len(sub) = h
      BY <3>4, <3>6
    <3>8. \A k \in 1..h : sub[k] = r[l + k]
      <4>1. \A k \in 1..h : sub[k] = r[lo + k - 1]
        BY <3>4, <3>6
      <4>2. \A k \in 1..h : lo + k - 1 = l + k
        BY <1>1, <3>1
      <4> QED BY <4>1, <4>2
    <3> QED BY <3>1, <3>2, <3>3, <3>5, <3>6, <3>7, <3>8
  <2> QED BY <1>2, <2>1, SeqEqual
<1> QED BY <1>3, <1>4 DEF r, l

LEMMA SameTail ==
  ASSUME NEW X, NEW s \in Seq(X), NEW all \in Seq(X), NEW p \in Nat, Len(s) = p + Len(all),
         NEW n \in 0..Len(all), \A i \in n + 1..Len(all) : s[p + i] = all[i]
  PROVE  SubSeq(s, p + n + 1, Len(s)) = SubSeq(all, n + 1, Len(all))
<1> DEFINE a == SubSeq(s, p + n + 1, Len(s))
           b == SubSeq(all, n + 1, Len(all))
           l == Len(all) - n
<1>1. Len(all) \in Nat /\ n \in Nat /\ l \in Nat /\ Len(s) \in Nat
  OBVIOUS
<1>2. /\ a \in Seq(X) /\ Len(a) = l
      /\ \A k \in 1..l : a[k] = s[p + n + 1 + k - 1]
  <2>1. PICK c : c = p + n + 1
    OBVIOUS
  <2>2. c \in 1..Len(s) + 1 /\ Len(s) - c + 1 = l /\ (c <= Len(s) <=> l # 0) /\ c \in Int
    BY <1>1, <2>1
  <2>3. /\ SubSeq(s, c, Len(s)) \in Seq(X)
        /\ Len(SubSeq(s, c, Len(s))) = l
        /\ \A k \in 1..l : SubSeq(s, c, Len(s))[k] = s[c + k - 1]
    <3> HIDE DEF l
    <3> QED BY <1>1, <2>2, SubSeqProperties
  <2> QED BY <2>1, <2>3
<1>3. /\ b \in Seq(X) /\ Len(b) = l
      /\ \A k \in 1..l : b[k] = all[n + 1 + k - 1]
  BY <1>1, SubSeqProperties
<1>4. \A k \in 1..l : /\ n + k \in n + 1..Len(all)
                      /\ p + n + 1 + k - 1 = p + (n + k) /\ n + 1 + k - 1 = n + k
  BY <1>1
<1> HIDE DEF a, b, l
<1>5. \A k \in 1..l : a[k] = b[k]
  BY <1>2, <1>3, <1>4
<1>6. a = b
  BY <1>2, <1>3, <1>5, SeqEqual
<1> QED BY <1>6 DEF a, b

(***************************************************************************)
(* The candidate request: the system messages, then the history with the    *)
(* last user message at s.                                                  *)
(***************************************************************************)
Messages == [role : {"system", "user", "assistant", "tool"}, turn : 0..MaxTurns,
             calls : Seq(CallRecords), call : Nat]
Asked(all, s) ==
  /\ all \in Seq(Committed) /\ s \in DOMAIN all /\ all[1].role = "user" /\ all[s].role = "user"
  /\ \A i \in DOMAIN all : s < i => all[i].role # "user"

Laid(m, p, all, s) ==
  /\ m \in Seq(Messages) /\ Len(m) = p + Len(all) /\ Len(all) \in Nat
  /\ all \in Seq(Messages) /\ s \in 1..Len(all)
  /\ \A i \in 1..p : m[i] = System
  /\ \A i \in 1..Len(all) : m[p + i] = all[i] /\ all[i].role # "system"
  /\ SystemPrefix(m) = 1..p
  /\ LastUser(m) = p + s

LEMMA CandidateIs ==
  ASSUME turn \in 1..MaxTurns, NEW p \in Nat, NEW all, NEW s, Asked(all, s)
  PROVE  /\ Laid(Systems(p) \o all, p, all, s)
         /\ Summary \in Messages /\ Summary.role = "system" /\ Summary # System
         /\ System.role = "system"
<1> DEFINE z == Systems(p)
           m == z \o all
           u == LastUser(m)
<1>1. /\ System \in Messages /\ Summary \in Messages /\ Committed \subseteq Messages
      /\ System.role = "system" /\ Summary.role = "system" /\ Summary # System
      /\ \A x \in Committed : x.role # "system"
  <2>1. <<>> \in Seq(CallRecords) /\ turn \in 0..MaxTurns /\ turn # 0 /\ 0 \in 0..MaxTurns
    BY AgentAssumption
  <2>2. System.turn = turn /\ Summary.turn = 0
    BY DEF System, Summary, Message
  <2> QED BY <2>1, <2>2 DEF System, Summary, Message, Messages, Committed
<1>2. z \in Seq(Messages) /\ Len(z) = p /\ \A i \in 1..p : z[i] = System
  <2>1. z = [i \in 1..p |-> System]
    BY DEF Systems
  <2> HIDE DEF z
  <2>2. z \in [1..p -> Messages] /\ DOMAIN z = 1..p
    BY <1>1, <2>1
  <2>3. z \in Seq(Messages)
    BY <2>2, SeqDef
  <2>4. Len(z) = p
    BY <2>2, <2>3, LenProperties
  <2> QED BY <2>1, <2>3, <2>4
<1>3. /\ all \in Seq(Committed) /\ all \in Seq(Messages) /\ s \in 1..Len(all) /\ Len(all) \in Nat
      /\ DOMAIN all = 1..Len(all) /\ all[1].role = "user" /\ all[s].role = "user" /\ s \in Int
      /\ \A i \in 1..Len(all) : s < i => all[i].role # "user"
  <2>1. all \in Seq(Committed)
    BY DEF Asked
  <2>2. all \in Seq(Messages)
    BY <1>1, <2>1, SeqMonotonic
  <2>3. Len(all) \in Nat /\ DOMAIN all = 1..Len(all)
    BY <2>2, LenProperties
  <2> QED BY <2>1, <2>2, <2>3 DEF Asked
<1>4. \A i \in 1..Len(all) : all[i].role # "system"
  BY <1>1, <1>3, ElementOfSeq
<1> HIDE DEF z
<1>5. /\ m \in Seq(Messages) /\ Len(m) = p + Len(all)
      /\ \A i \in 1..p : m[i] = System
      /\ \A i \in 1..Len(all) : m[p + i] = all[i]
      /\ DOMAIN m = 1..Len(m)
  <2>1. \A i \in 1..p : (z \o all)[i] = z[i]
    BY <1>2, <1>3
  <2>2. \A i \in 1..Len(all) : (z \o all)[p + i] = all[i]
    BY <1>2, <1>3
  <2>3. z \o all \in Seq(Messages) /\ Len(z \o all) = p + Len(all)
    <3> HIDE DEF Messages
    <3> QED BY <1>2, <1>3, ConcatProperties
  <2>4. DOMAIN (z \o all) = 1..Len(z \o all)
    BY <2>3, LenProperties
  <2> QED BY <1>2, <2>1, <2>2, <2>3, <2>4
<1> HIDE DEF m
<1>6. \A i \in 1..Len(m) : p < i => i - p \in 1..Len(all) /\ i = p + (i - p) /\ m[i] = all[i - p]
  <2>1. \A i \in 1..Len(m) : p < i => i - p \in 1..Len(all) /\ i = p + (i - p)
    BY <1>3, <1>5
  <2> QED BY <1>5, <2>1
<1>7. SystemPrefix(m) = 1..p
  <2>1. ASSUME NEW i \in 1..p PROVE i \in SystemPrefix(m)
    <3>1. i \in 1..Len(m) /\ \A j \in 1..i : j \in 1..p
      BY <1>3, <1>5
    <3> QED BY <1>1, <1>5, <3>1 DEF SystemPrefix
  <2>2. ASSUME NEW i \in SystemPrefix(m) PROVE i \in 1..p
    <3>1. i \in 1..Len(m) /\ \A j \in 1..i : m[j].role = "system"
      BY <1>5 DEF SystemPrefix
    <3>2. ~(p < i)
      <4>1. SUFFICES ASSUME p < i PROVE FALSE
        OBVIOUS
      <4>2. p + 1 \in 1..i /\ 1 \in 1..Len(all)
        BY <1>3, <3>1, <4>1
      <4>3. m[p + 1].role = "user"
        BY <1>3, <1>5, <4>2
      <4> QED BY <3>1, <4>2, <4>3
    <3> QED BY <1>5, <3>1, <3>2
  <2> QED BY <2>1, <2>2
<1>8. p + s \in UserAt(m) /\ \A v \in UserAt(m) : v <= p + s /\ v \in Int
  <2>1. p + s \in 1..Len(m) /\ m[p + s].role = "user"
    BY <1>3, <1>5
  <2>2. ASSUME NEW v \in 1..Len(m), p + s < v PROVE m[v].role # "user"
    <3>1. v - p \in 1..Len(all) /\ m[v] = all[v - p] /\ s < v - p
      BY <1>3, <1>6, <2>2
    <3> QED BY <1>3, <3>1
  <2>3. \A v \in 1..Len(m) : v \in Int /\ (v <= p + s \/ p + s < v)
    BY <1>3, <1>5
  <2> QED BY <1>5, <2>1, <2>2, <2>3 DEF UserAt
<1>9. u = p + s
  <2>1. u \in UserAt(m) /\ \A v \in UserAt(m) : v <= u
    <3>1. \E x \in UserAt(m) : \A v \in UserAt(m) : v <= x
      BY <1>8
    <3>2. u = CHOOSE x \in UserAt(m) : \A v \in UserAt(m) : v <= x
      BY DEF LastUser
    <3> HIDE DEF u
    <3> QED BY <3>1, <3>2
  <2> HIDE DEF u
  <2>2. u <= p + s /\ p + s <= u /\ u \in Int /\ p + s \in Int
    BY <1>3, <1>8, <2>1
  <2> QED BY <2>2
<1>10. Laid(m, p, all, s)
  BY <1>3, <1>4, <1>5, <1>7, <1>9 DEF Laid
<1> QED BY <1>1, <1>10 DEF m, z

(* Without a summary the rest of the request is a tail of the candidate's.     *)
LEMMA OldestIsGone ==
  ASSUME turn \in 1..MaxTurns, NEW p \in Nat, NEW all, NEW s, Asked(all, s), NEW r,
         Made(Systems(p) \o all, p + s, Messages, r), Summary \notin {r[i] : i \in DOMAIN r}
  PROVE  \E n \in 0..Len(all) : Keep(r, Talk(r)) = SubSeq(all, n + 1, Len(all))
<1> DEFINE m == Systems(p) \o all
<1>1. /\ m \in Seq(Messages) /\ Len(m) = p + Len(all) /\ Len(all) \in Nat
      /\ all \in Seq(Messages) /\ s \in 1..Len(all)
      /\ \A i \in 1..p : m[i] = System
      /\ \A i \in 1..Len(all) : m[p + i] = all[i] /\ all[i].role # "system"
      /\ SystemPrefix(m) = 1..p /\ System.role = "system"
  <2>1. Laid(m, p, all, s) /\ System.role = "system"
    BY CandidateIs
  <2> HIDE DEF m
  <2> QED BY <2>1 DEF Laid
<1>2. /\ r \in Seq(Messages)
      /\ \E c \in 1..Len(m) : r = Keep(m, {i \in 1..Len(m) : i \in SystemPrefix(m) \/ c <= i})
  <2> HIDE DEF m
  <2>1. PICK K \in SUBSET (1..Len(m)), t \in Seq(Messages) :
          Len(t) = Len(m) /\ BuiltFrom(m, p + s, t, K, r)
    BY DEF Made, m
  <2>2. r = Keep(t, K) /\ r \in Seq(Messages)
    BY <2>1, KeepTyped DEF BuiltFrom
  <2> QED BY <2>1, <2>2 DEF BuiltFrom
<1>3. PICK c \in 1..Len(m) : r = Keep(m, {i \in 1..Len(m) : i \in SystemPrefix(m) \/ c <= i})
  BY <1>2
<1> HIDE DEF m
<1> DEFINE N == Len(m)
           d == IF c <= p THEN p + 1 ELSE c
           a == Keep(m, 1..p)
           b == Keep(m, d..N)
<1>4. N \in Nat /\ c \in Int /\ p \in Int /\ d \in p + 1..N /\ p + 1 \in Int
  BY <1>1
<1>5. r = a \o b
  <2> DEFINE K == {i \in 1..N : i \in SystemPrefix(m) \/ c <= i}
  <2>1. K = 1..p \cup d..N
    <3>1. ASSUME NEW i \in 1..N PROVE i \in K <=> i \in 1..p \/ i \in d..N
      BY <1>1, <1>4
    <3>2. 1..p \subseteq 1..N /\ d..N \subseteq 1..N
      BY <1>1, <1>4
    <3> QED BY <3>1, <3>2
  <2>2. {x \in K : x < p + 1} = 1..p
    BY <1>4, <2>1
  <2>3. {x \in K : p + 1 <= x} = d..N
    BY <1>4, <2>1
  <2>4. K \in SUBSET (1..Len(m)) /\ r = Keep(m, K)
    BY <1>3
  <2> HIDE DEF K
  <2>5. Keep(m, K) = Keep(m, {x \in K : x < p + 1}) \o Keep(m, {x \in K : p + 1 <= x})
    <3>1. PICK e \in Int : e = p + 1
      BY <1>4
    <3>2. Keep(m, K) = Keep(m, {x \in K : x < e}) \o Keep(m, {x \in K : e <= x})
      <4>1. m \in Seq(Messages) /\ K \in SUBSET (1..Len(m))
        BY <1>1, <2>4
      <4> QED BY <4>1, KeepSplits
    <3> QED BY <3>1, <3>2
  <2> QED BY <2>2, <2>3, <2>4, <2>5
<1>6. /\ a \in Seq(Messages) /\ Len(a) = p /\ \A i \in 1..p : a[i] = System
  <2>1. a = SubSeq(m, 1, p)
    <3>1. 1 \in 1..Len(m) + 1 /\ p \in 0..Len(m) /\ 1 <= p + 1
      BY <1>1
    <3> QED BY <1>1, <3>1, KeepInterval
  <2>2. /\ SubSeq(m, 1, p) \in Seq(Messages) /\ Len(SubSeq(m, 1, p)) = p
        /\ \A i \in 1..p : SubSeq(m, 1, p)[i] = m[i]
    <3>1. p <= Len(m) /\ \A i \in 1..p : 1 + i - 1 = i
      BY <1>1
    <3> QED BY <1>1, <3>1, SubSeqProperties
  <2> QED BY <1>1, <2>1, <2>2
<1>7. PICK n : n = d - p - 1
  OBVIOUS
<1>8. n \in 0..Len(all) /\ d = p + n + 1 /\ n \in Int
  BY <1>1, <1>4, <1>7
<1>9. b = SubSeq(all, n + 1, Len(all))
  <2>1. b = SubSeq(m, d, N)
    <3>1. d \in 1..Len(m) + 1 /\ N \in 0..Len(m) /\ d <= N + 1
      BY <1>4
    <3> HIDE DEF d
    <3> QED BY <1>1, <3>1, KeepInterval
  <2>2. \A i \in n + 1..Len(all) : m[p + i] = all[i]
    BY <1>1, <1>8
  <2>3. SubSeq(m, p + n + 1, Len(m)) = SubSeq(all, n + 1, Len(all))
    <3> QED BY <1>1, <1>8, <2>2, SameTail
  <2> QED BY <1>8, <2>1, <2>3
<1>10. /\ b \in Seq(Messages) /\ Len(b) \in Nat
       /\ \A i \in 1..Len(b) : b[i].role # "system"
  <2>1. /\ SubSeq(all, n + 1, Len(all)) \in Seq(Messages)
        /\ Len(SubSeq(all, n + 1, Len(all))) = Len(all) - n
        /\ \A i \in 1..Len(all) - n : SubSeq(all, n + 1, Len(all))[i] = all[n + i]
    <3>1. PICK e : e = n + 1
      OBVIOUS
    <3>2. PICK l : l = Len(all) - n
      OBVIOUS
    <3>3. /\ e \in 1..Len(all) + 1 /\ Len(all) - e + 1 = l /\ l \in Nat /\ (e <= Len(all) <=> l # 0)
          /\ \A i \in 1..l : e + i - 1 = n + i
      BY <1>1, <1>8, <3>1, <3>2
    <3>4. /\ SubSeq(all, e, Len(all)) \in Seq(Messages)
          /\ Len(SubSeq(all, e, Len(all))) = l
          /\ \A i \in 1..l : SubSeq(all, e, Len(all))[i] = all[e + i - 1]
      BY <1>1, <3>3, SubSeqProperties
    <3> QED BY <3>1, <3>2, <3>3, <3>4
  <2>2. \A i \in 1..Len(all) - n : n + i \in 1..Len(all)
    BY <1>1, <1>8
  <2>3. PICK q : q = SubSeq(all, n + 1, Len(all))
    OBVIOUS
  <2>4. /\ b = q /\ q \in Seq(Messages) /\ Len(q) = Len(all) - n
        /\ \A i \in 1..Len(all) - n : q[i].role # "system"
    BY <1>1, <1>9, <2>1, <2>2, <2>3
  <2> HIDE DEF b
  <2> QED BY <1>1, <1>8, <2>4
<1> HIDE DEF a, b, d
<1>11. Talk(r) = Len(a) + 1..Len(r)
  <2>1. /\ a \o b \in Seq(Messages) /\ Len(a \o b) = p + Len(b)
        /\ \A i \in 1..p : (a \o b)[i] = a[i]
        /\ \A i \in 1..Len(b) : (a \o b)[p + i] = b[i]
    <3>1. a \in Seq(Messages) /\ b \in Seq(Messages) /\ Len(a) = p /\ Len(b) \in Nat
      BY <1>6, <1>10
    <3>2. /\ a \o b \in Seq(Messages) /\ Len(a \o b) = p + Len(b)
          /\ \A i \in 1..p + Len(b) : (a \o b)[i] = IF i <= p THEN a[i] ELSE b[i - p]
      BY <3>1, ConcatProperties
    <3>3. /\ \A i \in 1..p : i \in 1..p + Len(b) /\ i <= p
          /\ \A i \in 1..Len(b) : p + i \in 1..p + Len(b) /\ ~(p + i <= p) /\ p + i - p = i
      BY <3>1
    <3> QED BY <3>2, <3>3
  <2>2. /\ DOMAIN r = 1..Len(r) /\ Len(r) = p + Len(b)
        /\ \A i \in 1..p : r[i].role = "system"
        /\ \A i \in 1..Len(b) : r[p + i].role # "system"
    <3>1. DOMAIN (a \o b) = 1..Len(a \o b)
      BY <2>1, LenProperties
    <3>2. /\ DOMAIN r = 1..Len(r) /\ Len(r) = p + Len(b)
          /\ \A i \in 1..p : r[i] = a[i]
          /\ \A i \in 1..Len(b) : r[p + i] = b[i]
      BY <1>5, <2>1, <3>1, Zenon
    <3>3. /\ \A i \in 1..p : a[i].role = "system"
          /\ \A i \in 1..Len(b) : b[i].role # "system"
      BY <1>1, <1>6, <1>10
    <3> QED BY <3>2, <3>3
  <2>3. \A i \in 1..Len(r) : /\ i \in 1..p \/ i \in p + 1..Len(r)
                             /\ i \in p + 1..Len(r) => i - p \in 1..Len(b) /\ i = p + (i - p)
    BY <1>10, <2>2
  <2>4. \A i \in p + 1..Len(r) : i \in 1..Len(r) /\ r[i].role # "system"
    <3>1. \A i \in p + 1..Len(r) : i \in 1..Len(r) /\ i - p \in 1..Len(b) /\ i = p + (i - p)
      BY <1>10, <2>2
    <3> QED BY <2>2, <3>1
  <2> QED BY <1>6, <2>2, <2>3, <2>4 DEF Talk
<1>12. Keep(r, Talk(r)) = b
  BY <1>5, <1>6, <1>10, <1>11, TailKept
<1> QED BY <1>8, <1>9, <1>12

(* With a summary or without, the turn that starts at s is whole in it.        *)
LEMMA TurnIsWhole ==
  ASSUME turn \in 1..MaxTurns, NEW p \in Nat, NEW all, NEW s, Asked(all, s), NEW r,
         \A i \in DOMAIN all : /\ i < s => all[i].turn < turn
                               /\ s <= i => all[i].turn = turn,
         Made(Systems(p) \o all, p + s, Messages, r)
  PROVE  /\ Tokens(r) <= Budget /\ ChainsComplete(r)
         /\ OfTurn(r, turn) = SubSeq(all, s, Len(all))
<1> DEFINE m == Systems(p) \o all
<1>1. /\ m \in Seq(Messages) /\ Len(m) = p + Len(all) /\ Len(all) \in Nat
      /\ all \in Seq(Messages) /\ s \in 1..Len(all) /\ DOMAIN all = 1..Len(all)
      /\ \A i \in 1..p : m[i] = System
      /\ \A i \in 1..Len(all) : m[p + i] = all[i] /\ all[i].role # "system"
      /\ System.role = "system" /\ Summary.role = "system"
  <2>1. Laid(m, p, all, s) /\ System.role = "system" /\ Summary.role = "system"
    BY CandidateIs
  <2> HIDE DEF m
  <2> QED BY <2>1 DEF Laid
<1>2. PICK K \in SUBSET (1..Len(m)), t \in Seq(Messages) :
        Len(t) = Len(m) /\ BuiltFrom(m, p + s, t, K, r)
  BY DEF Made
<1> HIDE DEF m
<1> DEFINE N == Len(m)
           L == {x \in K : x < p + s}
           a == Keep(t, L)
           b == Keep(t, p + s..N)
<1>3. N \in Nat /\ p + s \in Int /\ p + s \in 1..N /\ p \in Int /\ s \in Int
  BY <1>1
<1>4. /\ r = Keep(t, K) /\ Len(r) <= Budget /\ ChainsComplete(r)
      /\ \A i \in 1..N : p + s <= i => i \in K /\ t[i] = m[i]
      /\ \A i \in K : t[i] = m[i] \/ t[i] = Summary
      /\ t \in Seq(Messages) /\ K \in SUBSET (1..Len(t)) /\ Len(t) = N
  BY <1>2 DEF BuiltFrom
<1>5. r = a \o b
  <2>1. {x \in K : p + s <= x} = p + s..N
    <3>1. PICK e \in Int : e = p + s
      BY <1>3
    <3>2. e \in 1..N /\ K \in SUBSET (1..N) /\ \A x \in 1..N : e <= x => x \in K
      BY <1>3, <1>4, <3>1
    <3>3. {x \in K : e <= x} = e..N
      <4>1. ASSUME NEW x \in K, e <= x PROVE x \in e..N
        BY <1>3, <3>2, <4>1
      <4>2. ASSUME NEW x \in e..N PROVE x \in K /\ e <= x
        <5>1. x \in 1..N /\ e <= x
          BY <1>3, <3>2
        <5> QED BY <3>2, <5>1
      <4> QED BY <4>1, <4>2
    <3> QED BY <3>1, <3>3
  <2>2. PICK e \in Int : e = p + s
    BY <1>3
  <2>3. Keep(t, K) = Keep(t, {x \in K : x < e}) \o Keep(t, {x \in K : e <= x})
    BY <1>4, KeepSplits
  <2> QED BY <1>4, <2>1, <2>2, <2>3
<1>6. /\ a \in Seq(Messages) /\ Len(a) \in Nat
      /\ \A i \in 1..Len(a) : a[i].role = "system" \/ a[i].turn # turn
  <2>1. L \in SUBSET (1..Len(t))
    BY <1>4
  <2>2. /\ a \in Seq(Messages) /\ Len(a) = Cardinality(L) /\ Len(a) \in Nat
        /\ \A k \in 1..Len(a) : a[k] = t[Nth(L, k)] /\ Nth(L, k) \in L
    <3> HIDE DEF L
    <3>1. a \in Seq(Messages) /\ IsFiniteSet(L) /\ L \in SUBSET Int
      BY <1>4, <2>1, KeepTyped
    <3> QED BY <3>1, KeepIs
  <2>3. ASSUME NEW x \in L PROVE t[x].role = "system" \/ t[x].turn # turn
    <3>1. x \in K /\ x < p + s /\ x \in 1..N /\ x \in Int
      BY <1>4
    <3>2. CASE t[x] = Summary
      BY <1>1, <3>2
    <3>3. CASE t[x] = m[x] /\ x <= p
      <4>1. x \in 1..p
        BY <1>3, <3>1, <3>3
      <4> QED BY <1>1, <3>3, <4>1
    <3>4. CASE t[x] = m[x] /\ ~(x <= p)
      <4>1. PICK i : i = x - p
        OBVIOUS
      <4>2. i \in 1..Len(all) /\ i < s /\ x = p + i
        BY <1>1, <1>3, <3>1, <3>4, <4>1
      <4>3. t[x] = all[i] /\ all[i].turn < turn
        BY <1>1, <3>4, <4>2
      <4>4. all[i].turn \in Int
        <5>1. all[i] \in Messages
          BY <1>1, <4>2, ElementOfSeq
        <5> QED BY <5>1 DEF Messages
      <4> QED BY <4>3, <4>4
    <3> QED BY <1>4, <3>1, <3>2, <3>3, <3>4
  <2> HIDE DEF a, L
  <2> QED BY <2>2, <2>3
<1>7. PICK n : n = s - 1
  OBVIOUS
<1>8. n \in 0..Len(all) /\ s = n + 1 /\ n \in Int /\ p + s = p + n + 1
  BY <1>1, <1>3, <1>7
<1>9. b = SubSeq(all, s, Len(all))
  <2>1. b = SubSeq(t, p + s, N)
    <3>1. PICK e : e = p + s
      OBVIOUS
    <3>2. e \in 1..Len(t) + 1 /\ N \in 0..Len(t) /\ e <= N + 1
      BY <1>3, <1>4, <3>1
    <3>3. Keep(t, e..N) = SubSeq(t, e, N)
      BY <1>4, <3>2, KeepInterval
    <3> QED BY <3>1, <3>3
  <2>2. \A i \in n + 1..Len(all) : t[p + i] = all[i]
    <3>1. \A i \in n + 1..Len(all) : i \in 1..Len(all) /\ p + i \in 1..N /\ p + s <= p + i
      BY <1>1, <1>3, <1>8
    <3> QED BY <1>1, <1>4, <3>1
  <2>3. SubSeq(t, p + n + 1, Len(t)) = SubSeq(all, n + 1, Len(all))
    BY <1>1, <1>4, <1>8, <2>2, SameTail
  <2> QED BY <1>4, <1>8, <2>1, <2>3
<1>10. /\ b \in Seq(Messages) /\ Len(b) \in Nat
       /\ \A i \in 1..Len(b) : b[i].role # "system" /\ b[i].turn = turn
  <2>1. PICK l : l = Len(all) - n
    OBVIOUS
  <2>2. /\ s \in Int /\ Len(all) \in Int /\ Len(all) - s + 1 = l /\ l \in Nat
        /\ (s <= Len(all) <=> l # 0)
        /\ \A i \in 1..l : s + i - 1 = n + i /\ n + i \in 1..Len(all) /\ s <= n + i
    <3>1. Len(all) \in Nat /\ s \in Int /\ n \in 0..Len(all) /\ s = n + 1
      BY <1>1, <1>3, <1>8
    <3>2. PICK w : w = Len(all)
      OBVIOUS
    <3>3. /\ s \in Int /\ w \in Int /\ w - s + 1 = l /\ l \in Nat
          /\ (s <= w <=> l # 0)
      BY <2>1, <3>1, <3>2
    <3>4. \A i \in 1..l : s + i - 1 = n + i /\ n + i \in 1..w /\ s <= n + i
      BY <2>1, <3>1, <3>2
    <3> QED BY <3>2, <3>3, <3>4
  <2>3. PICK q : q = SubSeq(all, s, Len(all))
    OBVIOUS
  <2>4. /\ q \in Seq(Messages) /\ Len(q) = l
        /\ \A i \in 1..l : q[i] = all[s + i - 1]
    <3>1. \A i \in s..Len(all) : all[i] \in Messages
      <4>1. \A i \in 1..Len(all) : all[i] \in Messages
        BY <1>1, ElementOfSeq
      <4> QED BY <1>1, <4>1
    <3>2. /\ SubSeq(all, s, Len(all)) \in Seq(Messages)
          /\ Len(SubSeq(all, s, Len(all))) = l
          /\ \A i \in 1..l : SubSeq(all, s, Len(all))[i] = all[s + i - 1]
      BY <2>2, <3>1, SubSeqProperties
    <3> QED BY <2>3, <3>2
  <2>5. \A i \in 1..l : q[i].role # "system" /\ q[i].turn = turn
    <3>1. \A i \in 1..Len(all) : all[i].role # "system" /\ (s <= i => all[i].turn = turn)
      BY <1>1
    <3>2. \A i \in 1..l : n + i \in 1..Len(all) /\ s <= n + i /\ q[i] = all[n + i]
      BY <2>2, <2>4
    <3> QED BY <3>1, <3>2
  <2>6. b = q
    BY <1>9, <2>3
  <2> HIDE DEF b
  <2> QED BY <2>2, <2>4, <2>5, <2>6
<1> HIDE DEF a, b, L
<1>11. {i \in Talk(r) : r[i].turn = turn} = Len(a) + 1..Len(r)
  <2>1. PICK l \in Nat : l = Len(a)
    BY <1>6
  <2>2. /\ a \o b \in Seq(Messages) /\ Len(a \o b) = l + Len(b)
        /\ \A i \in 1..l + Len(b) : (a \o b)[i] = IF i <= l THEN a[i] ELSE b[i - l]
    BY <1>6, <1>10, <2>1, ConcatProperties
  <2>3. DOMAIN (a \o b) = 1..Len(a \o b)
    BY <2>2, LenProperties
  <2>4. /\ DOMAIN r = 1..Len(r) /\ Len(r) = l + Len(b)
        /\ \A i \in 1..l + Len(b) : r[i] = IF i <= l THEN a[i] ELSE b[i - l]
    BY <1>5, <2>2, <2>3, Zenon
  <2>5. ASSUME NEW i \in 1..Len(r), i <= l PROVE ~(r[i].role # "system" /\ r[i].turn = turn)
    <3>1. i \in 1..l /\ i \in 1..l + Len(b)
      BY <1>10, <2>4, <2>5
    <3> QED BY <1>6, <2>1, <2>4, <2>5, <3>1
  <2>6. ASSUME NEW i \in 1..Len(r), ~(i <= l) PROVE r[i].role # "system" /\ r[i].turn = turn
    <3>1. i - l \in 1..Len(b) /\ i \in 1..l + Len(b)
      BY <1>10, <2>4, <2>6
    <3> QED BY <1>10, <2>4, <2>6, <3>1
  <2>7. \A i \in 1..Len(r) : i \in l + 1..Len(r) <=> ~(i <= l)
    BY <1>10, <2>4
  <2>8. l + 1..Len(r) \subseteq 1..Len(r)
    BY <1>10, <2>4
  <2> QED BY <2>1, <2>4, <2>5, <2>6, <2>7, <2>8 DEF Talk
<1>12. OfTurn(r, turn) = b
  BY <1>5, <1>6, <1>10, <1>11, TailKept DEF OfTurn
<1> QED BY <1>4, <1>9, <1>12 DEF Tokens

LEMMA RequestBuilt ==
  ASSUME turn \in 1..MaxTurns, NEW p \in Nat, NEW all, NEW s, Asked(all, s),
         NEW m, m = Systems(p) \o all, NEW summarised, Build(m, LastUser(m), summarised).ok
  PROVE  Made(Systems(p) \o all, p + s, Messages, Build(m, LastUser(m), summarised).msgs)
<1>1. Laid(m, p, all, s) /\ Summary \in Messages
  BY CandidateIs
<1>2. m \in Seq(Messages) /\ LastUser(m) = p + s
  BY <1>1 DEF Laid
<1>3. Made(m, LastUser(m), Messages \cup {Summary}, Build(m, LastUser(m), summarised).msgs)
  BY <1>2, BuildIsSound
<1>4. Messages \cup {Summary} = Messages
  BY <1>1
<1> QED BY <1>2, <1>3, <1>4

(***************************************************************************)
(* The turns follow one another in the history, and the current one starts   *)
(* with the last user message.  With that the request stays sound.           *)
(***************************************************************************)
StartsAt(s) ==
  /\ hist[s].role = "user"
  /\ \A i \in DOMAIN hist : /\ i < s => hist[i].turn < turn
                            /\ s <= i => hist[i].turn = turn
                            /\ s < i => hist[i].role # "user"
OrderInv ==
  /\ \A i \in DOMAIN hist : hist[i].turn <= turn
  /\ pc = "begin" => \A i \in DOMAIN hist : hist[i].turn < turn
  /\ pc \notin {"idle", "begin"} => \E s \in DOMAIN hist : StartsAt(s)
  /\ pc # "idle" => turn # 0
WindowInv == OrderInv /\ RequestSound /\ OldestGoFirst

LEMMA WindowKept ==
  ASSUME WindowInv, UNCHANGED <<hist, turn>>,
         \/ pc' \in {pc, "idle"}
         \/ pc \notin {"idle", "begin"} /\ pc' \notin {"idle", "begin"},
         pc' = "calling" => pc = "calling" /\ UNCHANGED <<mode, request>>
  PROVE  WindowInv'
<1>1. OrderInv'
  <2>1. \A s : StartsAt(s) => StartsAt(s)'
    BY DEF StartsAt
  <2> QED BY <2>1 DEF WindowInv, OrderInv
<1>2. RequestSound'
  BY DEF WindowInv, RequestSound
<1>3. OldestGoFirst'
  <2>1. User' = User
    BY DEF User, Message
  <2>2. CASE pc' # "calling"
    BY <2>2 DEF OldestGoFirst
  <2>3. CASE pc' = "calling"
    BY <2>1, <2>3, Zenon DEF WindowInv, OldestGoFirst
  <2> QED BY <2>2, <2>3
<1> QED BY <1>1, <1>2, <1>3 DEF WindowInv

LEMMA SystemsFirst ==
  ASSUME TurnTypes, NEW n \in Nat
  PROVE  Systems(n) \o hist \o <<User>> = Systems(n) \o Append(hist, User)
<1> DEFINE x == User
           z == Systems(n)
<1>1. hist \in Seq(Committed) /\ x \in Committed
  BY BatchesTyped DEF TurnTypes, Histories, Committed, CallRecords, User, Message
<1>2. \E X : z \in Seq(X) /\ hist \in Seq(X) /\ x \in X
  <2> DEFINE X == Committed \cup {System}
  <2>1. hist \in Seq(X) /\ x \in X
    BY <1>1, SeqMonotonic
  <2>2. z \in [1..n -> X]
    BY DEF Systems
  <2>3. z \in Seq(X)
    BY <2>2, SeqDef
  <2> QED BY <2>1, <2>3
<1> HIDE DEF x, z
<1>3. z \o hist \o <<x>> = z \o Append(hist, x)
  BY <1>2
<1> QED BY <1>3 DEF x, z

LEMMA PrepareStep ==
  ASSUME TurnTypes, HistoryComplete, OrderInv, Prepare
  PROVE  RequestSound' /\ OldestGoFirst'
<1>1. PICK k \in Memories, summarised \in BOOLEAN : Sends(k, summarised)
  BY DEF Prepare
<1>2. pc = "prepare" /\ UNCHANGED <<hist, turn, mode>> /\ k \in Nat /\ Prompts \in Nat
  BY AgentAssumption DEF Prepare, turnVars, Memories
<1>3. turn \in 1..MaxTurns
  BY <1>2, AgentAssumption DEF TurnTypes, OrderInv
<1>4. PICK s \in DOMAIN hist : StartsAt(s)
  BY <1>2 DEF OrderInv
<1>5. hist \in Seq(Committed) /\ Len(hist) \in Nat /\ DOMAIN hist = 1..Len(hist) /\ s \in Int
  <2>1. hist \in Seq(Committed)
    BY DEF TurnTypes, Histories, Committed, CallRecords
  <2> QED BY <2>1, LenProperties
<1>6. /\ hist[1].role = "user" /\ \A i \in DOMAIN hist : hist[i].turn \in Int
  <2>1. hist # <<>>
    BY <1>4, <1>5
  <2>2. \A i \in DOMAIN hist : hist[i] \in Committed
    BY <1>5, ElementOfSeq
  <2> QED BY <2>1, <2>2 DEF HistoryComplete, Committed
<1>7. PICK m : m = Candidate(k)
  OBVIOUS
<1>8. /\ Build(m, LastUser(m), summarised).ok
      /\ request' = Build(m, LastUser(m), summarised).msgs
  BY <1>1, <1>7 DEF Sends
<1>9. CASE ~mode.planned
  <2>1. PICK p \in Nat : p = Prompts + k
    BY <1>2
  <2>2. m = Systems(p) \o hist
    BY <1>7, <1>9, <2>1 DEF Candidate
  <2>3. Asked(hist, s)
    BY <1>4, <1>5, <1>6 DEF Asked, StartsAt
  <2>4. Made(Systems(p) \o hist, p + s, Messages, request')
    BY <1>3, <1>8, <2>2, <2>3, RequestBuilt
  <2>5. \A i \in DOMAIN hist : /\ i < s => hist[i].turn < turn
                               /\ s <= i => hist[i].turn = turn
    BY <1>4 DEF StartsAt
  <2>6. /\ Tokens(request') <= Budget /\ ChainsComplete(request')
        /\ OfTurn(request', turn) = SubSeq(hist, s, Len(hist))
    BY <1>3, <2>3, <2>4, <2>5, TurnIsWhole
  <2>7. PICK n : n = s - 1
    OBVIOUS
  <2>8. /\ n \in 0..Len(hist) /\ s = n + 1
        /\ \A i \in 1..n : i \in DOMAIN hist /\ i < s
    BY <1>4, <1>5, <2>7
  <2>9. RequestSound'
    <3>1. \A i \in 1..n : hist[i].turn < turn
      BY <2>5, <2>8
    <3>2. OfTurn(request', turn) = SubSeq(hist, n + 1, Len(hist))
      BY <2>6, <2>8
    <3> QED BY <1>2, <2>6, <2>8, <3>1, <3>2 DEF RequestSound
  <2>10. Summary \notin {request'[i] : i \in DOMAIN request'} =>
           \E l \in 0..Len(hist) :
             Keep(request', Talk(request')) = SubSeq(hist, l + 1, Len(hist))
    BY <1>3, <2>3, <2>4, OldestIsGone
  <2>11. OldestGoFirst'
    <3>1. ~mode'.planned /\ hist' = hist
      BY <1>2, <1>9
    <3> QED BY <2>10, <3>1 DEF OldestGoFirst
  <2> QED BY <2>9, <2>11
<1>10. CASE mode.planned
  <2> DEFINE all == Append(hist, User)
             e == Len(hist) + 1
  <2>1. PICK p \in Nat : p = 1 + Prompts + k
    BY <1>2
  <2>2. m = Systems(p) \o all
    BY <1>7, <1>10, <2>1, SystemsFirst DEF Candidate
  <2>3. Asked(all, e)
    <3>1. User \in Committed /\ User.role = "user"
      BY BatchesTyped DEF TurnTypes, Histories, Committed, CallRecords, User, Message
    <3>2. /\ all \in Seq(Committed) /\ DOMAIN all = 1..e /\ e \in 1..e
          /\ all[e] = User /\ (1 \in 1..Len(hist) => all[1] = hist[1])
      BY <1>5, <3>1, AppendProperties, LenProperties
    <3>3. 1 \in 1..Len(hist)
      BY <1>4, <1>5
    <3>4. \A i \in 1..e : ~(e < i)
      BY <1>5
    <3> HIDE DEF all, e
    <3> QED BY <1>6, <3>1, <3>2, <3>3, <3>4 DEF Asked
  <2> HIDE DEF all, e
  <2>4. Made(Systems(p) \o all, p + e, Messages, request')
    BY <1>3, <1>8, <2>2, <2>3, RequestBuilt
  <2>5. Summary \notin {request'[i] : i \in DOMAIN request'} =>
           \E l \in 0..Len(all) :
             Keep(request', Talk(request')) = SubSeq(all, l + 1, Len(all))
    BY <1>3, <2>3, <2>4, OldestIsGone
  <2>6. OldestGoFirst'
    <3>1. mode'.planned /\ hist' = hist /\ User' = User
      BY <1>2, <1>10 DEF User, Message
    <3>2. all = Append(hist', User')
      BY <3>1 DEF all
    <3> QED BY <2>5, <3>1, <3>2 DEF OldestGoFirst
  <2>7. RequestSound'
    BY <1>2, <1>10 DEF RequestSound
  <2> QED BY <2>6, <2>7
<1> QED BY <1>9, <1>10

(* A batch that is committed belongs to the turn that commits it.             *)
LEMMA OrderGrows ==
  ASSUME TurnTypes, HistoryComplete, NEW b \in Histories, b # <<>>, NEW text,
         Accepted(b, text), hist' = hist \o b, turn' = turn,
         \A i \in 2..Len(b) : b[i].role \notin {"user", "assistant"},
         \A i \in 1..Len(b) : b[i].turn = turn
  PROVE  /\ (\A i \in DOMAIN hist : hist[i].turn <= turn) => \A i \in DOMAIN hist' : hist'[i].turn <= turn
         /\ (\A i \in DOMAIN hist : hist[i].turn < turn) /\ b[1].role = "user" =>
              \E s \in DOMAIN hist' : StartsAt(s)'
         /\ (\E s \in DOMAIN hist : StartsAt(s)) /\ b[1].role # "user" =>
              \E s \in DOMAIN hist' : StartsAt(s)'
<1>1. /\ hist \in Seq(Committed) /\ b \in Seq(Committed) /\ hist' \in Seq(Committed)
      /\ Len(hist) \in Nat /\ Len(b) \in Nat /\ Len(b) # 0 /\ turn \in Int
      /\ DOMAIN hist = 1..Len(hist) /\ DOMAIN b = 1..Len(b) /\ DOMAIN hist' = 1..Len(hist')
      /\ Len(hist') = Len(hist) + Len(b)
      /\ \A i \in 1..Len(hist) : hist'[i] = hist[i]
      /\ \A i \in 1..Len(b) : hist'[Len(hist) + i] = b[i]
  <2>1. hist \in Seq(Committed) /\ b \in Seq(Committed) /\ turn \in Int
    BY AgentAssumption DEF TurnTypes, Histories, Committed, CallRecords
  <2>2. hist' \in Seq(Committed) /\ Len(hist') = Len(hist) + Len(b)
    BY <2>1
  <2>3. /\ \A i \in 1..Len(hist) : hist'[i] = hist[i]
        /\ \A i \in 1..Len(b) : hist'[Len(hist) + i] = b[i]
    BY <2>1
  <2>4. Len(b) # 0
    BY <2>1
  <2> QED BY <2>1, <2>2, <2>3, <2>4, LenProperties
<1> DEFINE n == Len(hist)
<1>2. ASSUME NEW i \in DOMAIN hist'
      PROVE  /\ i <= n => i \in DOMAIN hist /\ hist'[i] = hist[i]
             /\ n < i => hist'[i].turn = turn
             /\ n + 1 < i => hist'[i].role # "user"
  <2>1. i \in 1..n + Len(b) /\ n \in Nat
    BY <1>1
  <2>2. CASE i <= n
    BY <1>1, <2>1, <2>2
  <2>3. CASE ~(i <= n)
    <3>1. PICK j : j = i - n
      OBVIOUS
    <3>2. j \in 1..Len(b) /\ i = n + j /\ (n + 1 < i => j \in 2..Len(b)) /\ ~(i <= n)
      BY <1>1, <2>1, <2>3, <3>1
    <3>3. hist'[i] = b[j]
      BY <1>1, <3>2
    <3> QED BY <3>2, <3>3
  <2> QED BY <2>2, <2>3
<1>3. n \in Nat /\ n + 1 \in DOMAIN hist' /\ hist'[n + 1] = b[1] /\ \A i \in DOMAIN hist' : i \in Int
  BY <1>1
<1>4. ASSUME \A i \in DOMAIN hist : hist[i].turn <= turn, NEW i \in DOMAIN hist'
      PROVE  hist'[i].turn <= turn
  BY <1>1, <1>2, <1>3, <1>4
<1>5. ASSUME \A i \in DOMAIN hist : hist[i].turn < turn, b[1].role = "user"
      PROVE  \E s \in DOMAIN hist' : StartsAt(s)'
  <2>1. ASSUME NEW i \in DOMAIN hist'
        PROVE  /\ i < n + 1 => hist'[i].turn < turn
               /\ n + 1 <= i => hist'[i].turn = turn
               /\ n + 1 < i => hist'[i].role # "user"
    <3>1. i \in Int /\ (i < n + 1 => i <= n) /\ (n + 1 <= i => n < i)
      BY <1>3
    <3> QED BY <1>2, <1>5, <3>1
  <2>2. PICK e : e = n + 1
    OBVIOUS
  <2>3. e \in DOMAIN hist' /\ StartsAt(e)'
    BY <1>3, <1>5, <2>1, <2>2 DEF StartsAt
  <2> QED BY <2>3
<1>6. ASSUME NEW s \in DOMAIN hist, StartsAt(s), b[1].role # "user"
      PROVE  s \in DOMAIN hist' /\ StartsAt(s)'
  <2>1. s \in 1..n /\ s \in DOMAIN hist' /\ hist'[s].role = "user"
    BY <1>1, <1>6 DEF StartsAt
  <2>2. ASSUME NEW i \in DOMAIN hist'
        PROVE  /\ i < s => hist'[i].turn < turn
               /\ s <= i => hist'[i].turn = turn
               /\ s < i => hist'[i].role # "user"
    <3>1. CASE i <= n
      BY <1>2, <1>6, <3>1 DEF StartsAt
    <3>2. CASE n < i
      <4>1. i = n + 1 \/ n + 1 < i
        BY <1>3, <3>2
      <4>2. hist'[i].turn = turn /\ hist'[i].role # "user"
        BY <1>2, <1>3, <1>6, <3>2, <4>1
      <4>3. ~(i < s)
        BY <1>3, <2>1, <3>2
      <4> QED BY <4>2, <4>3
    <3> QED BY <1>3, <3>1, <3>2
  <2> QED BY <2>1, <2>2 DEF StartsAt
<1> QED BY <1>4, <1>5, <1>6

LEMMA WindowInitially == Init => WindowInv
<1> SUFFICES ASSUME Init PROVE WindowInv
  OBVIOUS
<1>1. pc = "idle" /\ \A i \in DOMAIN hist : hist[i].turn <= turn
  BY RestoreAssumption DEF Init
<1> QED BY <1>1 DEF WindowInv, OrderInv, RequestSound, OldestGoFirst

LEMMA WindowStays ==
  ASSUME IInv, WindowInv, [Next]_vars PROVE WindowInv'
<1>0. TurnTypes /\ HistoryComplete /\ OrderInv
  BY DEF IInv, TurnInv, WindowInv
<1>1. CASE UNCHANGED vars \/ CancelTurn \/ ProviderStep \/ Registry \/ RivalTakes \/ RivalReturns
  <2>1. UNCHANGED <<hist, turn, pc, mode, request>>
    BY <1>1 DEF vars, CancelTurn, ProviderStep, Registry, RivalTakes, RivalReturns, elsewhere,
       turnVars, loopVars
  <2> QED BY <2>1, WindowKept
<1>2. CASE RunPlan \/ PrepareFails \/ TurnFails
  <2>1. /\ UNCHANGED <<hist, turn>>
        /\ pc' = "idle" \/ (pc = "plan" /\ pc' = "prepare")
    BY <1>2 DEF RunPlan, PrepareFails, TurnFails, Failed, EndTurn, turnVars
  <2> QED BY <2>1, WindowKept
<1>3. CASE Act
  <2>1. UNCHANGED <<hist, turn>> /\ pc = "calling" /\ pc' = "acting"
    BY <1>3 DEF Act, turnVars
  <2> QED BY <2>1, WindowKept
<1>4. ASSUME NEW i \in DOMAIN calls, RunCall(i) PROVE WindowInv'
  <2>1. UNCHANGED <<hist, turn, pc, mode, request>>
    BY <1>4 DEF RunCall, turnVars
  <2> QED BY <2>1, WindowKept
<1>5. CASE NewTurn
  <2>1. pc' = "begin" /\ hist' = hist /\ turn' = turn + 1
    BY <1>5 DEF NewTurn
  <2>2. turn \in Nat /\ \A i \in DOMAIN hist : hist[i].turn \in Int /\ hist[i].turn <= turn
    <3>1. hist \in Seq(Committed) /\ turn \in Nat
      BY <1>0, AgentAssumption DEF TurnTypes, Histories, Committed, CallRecords
    <3>2. \A i \in DOMAIN hist : hist[i] \in Committed
      BY <3>1, ElementOfSeq, LenProperties
    <3> QED BY <1>0, <3>1, <3>2 DEF OrderInv, Committed
  <2>3. \A i \in DOMAIN hist : hist[i].turn < turn + 1
    BY <2>2
  <2>4. turn + 1 # 0 /\ \A i \in DOMAIN hist : hist[i].turn <= turn + 1
    BY <2>2
  <2> QED BY <2>1, <2>3, <2>4 DEF WindowInv, OrderInv, RequestSound, OldestGoFirst
<1>6. CASE Prepare
  <2>1. pc = "prepare" /\ pc' = "calling" /\ UNCHANGED <<hist, turn>>
    BY <1>6 DEF Prepare, turnVars
  <2>2. \A s : StartsAt(s) => StartsAt(s)'
    BY <2>1 DEF StartsAt
  <2>3. OrderInv'
    BY <1>0, <2>1, <2>2 DEF OrderInv
  <2> QED BY <1>0, <1>6, <2>3, PrepareStep DEF WindowInv
<1>7. CASE AppendUser
  <2>1. /\ pc = "begin" /\ turn' = turn
        /\ \/ pc' = "idle" /\ hist' = hist
           \/ /\ Accepted(<<User>>, TRUE) /\ hist' = hist \o <<User>>
              /\ pc' \in {"plan", "prepare"}
    BY <1>7, AppendUserDoes DEF turnVars, EndTurn
  <2>2. CASE pc' = "idle" /\ hist' = hist
    BY <2>1, <2>2, WindowKept
  <2>3. CASE /\ Accepted(<<User>>, TRUE) /\ hist' = hist \o <<User>>
             /\ pc' \in {"plan", "prepare"}
    <3> DEFINE b == <<User>>
    <3>1. /\ b \in Histories /\ b # <<>> /\ b[1].role = "user"
          /\ \A i \in 2..Len(b) : b[i].role \notin {"user", "assistant"}
          /\ \A i \in 1..Len(b) : b[i].turn = turn
      BY <1>0, BatchesTyped DEF User, Message
    <3>2. Accepted(b, TRUE) /\ hist' = hist \o b
      BY <2>3
    <3> HIDE DEF b
    <3>3. /\ \A i \in DOMAIN hist' : hist'[i].turn <= turn
          /\ \E s \in DOMAIN hist' : StartsAt(s)'
      BY <1>0, <2>1, <3>1, <3>2, OrderGrows DEF OrderInv
    <3> QED BY <1>0, <2>1, <2>3, <3>3 DEF WindowInv, OrderInv, RequestSound, OldestGoFirst
  <2> QED BY <2>1, <2>2, <2>3
<1>8. CASE Answer
  <2>1. /\ pc = "calling" /\ pc' = "idle" /\ turn' = turn
        /\ \/ hist' = hist
           \/ Accepted(<<Assistant(Merged)>>, HasText) /\ hist' = hist \o <<Assistant(Merged)>>
    BY <1>8, AnswerDoes DEF turnVars
  <2>2. CASE hist' = hist
    BY <2>1, <2>2, WindowKept
  <2>3. CASE Accepted(<<Assistant(Merged)>>, HasText) /\ hist' = hist \o <<Assistant(Merged)>>
    <3> DEFINE b == <<Assistant(<<>>)>>
    <3>1. Merged = <<>>
      BY <2>3 DEF Accepted, FinalOrUnit, Assistant, Message
    <3>2. /\ b \in Histories /\ b # <<>>
          /\ \A i \in 2..Len(b) : b[i].role \notin {"user", "assistant"}
          /\ \A i \in 1..Len(b) : b[i].turn = turn
      BY <1>0, BatchesTyped DEF Assistant, Message
    <3>3. Accepted(b, HasText) /\ hist' = hist \o b
      BY <2>3, <3>1
    <3> HIDE DEF b
    <3>4. \A i \in DOMAIN hist' : hist'[i].turn <= turn
      BY <1>0, <2>1, <3>2, <3>3, OrderGrows DEF OrderInv
    <3> QED BY <2>1, <3>4 DEF WindowInv, OrderInv, RequestSound, OldestGoFirst
  <2> QED BY <2>1, <2>2, <2>3
<1>9. CASE Record
  <2>1. /\ pc = "acting" /\ turn' = turn
        /\ \/ pc' = "idle" /\ hist' = hist
           \/ Accepted(Unit, TRUE) /\ hist' = hist \o Unit /\ pc' = "prepare"
    BY <1>9, RecordDoes DEF turnVars, EndTurn
  <2>2. CASE pc' = "idle" /\ hist' = hist
    BY <2>1, <2>2, WindowKept
  <2>3. CASE Accepted(Unit, TRUE) /\ hist' = hist \o Unit /\ pc' = "prepare"
    <3>1. /\ Unit \in Histories /\ Unit # <<>> /\ Len(Unit) \in Nat /\ Unit[1] = Assistant(calls)
          /\ \A i \in 2..Len(Unit) : Unit[i].role = "tool" /\ Unit[i].turn = turn
      <4>1. Len(calls) \in Nat
        BY <1>0, LenProperties DEF TurnTypes
      <4> QED BY <1>0, <4>1, BatchesTyped
    <3>2. Unit[1].role = "assistant" /\ Unit[1].turn = turn
      BY <3>1 DEF Assistant, Message
    <3>3. \A i \in 1..Len(Unit) : i = 1 \/ i \in 2..Len(Unit)
      BY <3>1
    <3>4. \A i \in 1..Len(Unit) : Unit[i].turn = turn
      BY <3>1, <3>2, <3>3
    <3>5. /\ \A i \in DOMAIN hist' : hist'[i].turn <= turn
          /\ \E s \in DOMAIN hist' : StartsAt(s)'
      BY <1>0, <2>1, <2>3, <3>1, <3>2, <3>4, OrderGrows DEF OrderInv
    <3> QED BY <1>0, <2>1, <2>3, <3>5 DEF WindowInv, OrderInv, RequestSound, OldestGoFirst
  <2> QED BY <2>1, <2>2, <2>3
<1> QED BY <1>1, <1>2, <1>3, <1>4, <1>5, <1>6, <1>7, <1>8, <1>9 DEF Next, Loop

(* For any budget, strategy, history, tools and bounds: every request fits     *)
(* the budget, keeps the current turn whole and calls with their results, and *)
(* what it leaves out without a summary is older than all it keeps.           *)
THEOREM WindowsStaySound == Spec => []WindowSound
<1>1. Init => IInv /\ WindowInv
  BY Initially, WindowInitially
<1>2. IInv /\ WindowInv /\ [Next]_vars => (IInv /\ WindowInv)'
  BY Inductive, WindowStays
<1>3. IInv /\ WindowInv => WindowSound
  <2> SUFFICES ASSUME IInv, WindowInv PROVE WindowSound
    OBVIOUS
  <2>1. TypeOK
    BY DEF IInv, TurnInv, TurnTypes, BatchInv, ExecInv, ExecTypes, ExecTypeOK, Stages, StreamInv,
       CallInv, CallTypes, TypeOK
  <2> QED BY <2>1 DEF WindowInv, WindowSound
<1> QED BY <1>1, <1>2, <1>3, PTL DEF Spec
=============================================================================
