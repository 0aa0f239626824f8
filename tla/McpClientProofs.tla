-------------------------- MODULE McpClientProofs ---------------------------
(* Proofs about McpClient for every number of callers, pages, pending        *)
(* requests and messages: the connection implements McpCallTable, and no     *)
(* call and no loop is left behind.  The key is who may hold an open         *)
(* request: one goroutine that is not idle, and, while it waits, the table,  *)
(* the run of fail() or the request's own channel.                           *)
EXTENDS McpClient, FiniteSetTheorems, TLAPS

Busy == {"send", "wait", "retire", "fail"}
Gone == {"closed", "dropped"}                     \* stages of a collected client
Given == {"up", "close", "closed"}                \* stages callers have it in
Used == {g \in Callers : mine[g] # 0}

Pcs == {"off", "idle", "send", "wait", "retire", "fail", "join", "recv",
        "deliver", "exited"}
PcType ==
  /\ pc \in [Failers -> Pcs]
  /\ pc[Recv] \in {"off", "recv", "deliver", "fail", "exited"}
  /\ \A g \in Requesters : pc[g] \in Busy \cup {"idle", "join"}
  /\ \A g \in Callers : pc[g] # "join"
Types ==
  /\ TypeOK /\ PcType
  /\ ret \in [Requesters -> Bodies \cup {"none", "down", "gone"}]
  /\ ch \in [Ids -> [t : Bodies \cup {"none", "error"}, id : 0..MaxId]]
  /\ inbox \in Seq([t : Bodies \cup {"request", "malformed"}, id : 0..MaxId])
  /\ ctl \in {"off", "run", "exited"} /\ wire \in {"new", "open", "eof", "closed"}
  /\ sent \subseteq 1..nextID /\ answered \subseteq sent

(* fail(): the transport is closed last, by nobody else, and the table stays *)
(* empty from the swap on.                                                   *)
FailOrder ==
  /\ closed <=> failing # "no"
  /\ failing # "deliver" => orphans = {}
  /\ closed => pending = {}
  /\ failing = "done" <=> wire = "closed"
  /\ wire = "new" => /\ stage \in {"new", "dropped"} /\ failing = "no"
                     /\ pc[Recv] = "off" /\ ctl = "off"
                     /\ \A g \in Requesters : pc[g] = "idle"
  /\ stage = "new" => wire = "new"

(* A request has one owner, who is busy exactly while it is open.            *)
Owned ==
  /\ \A g, h \in Requesters : mine[g] = mine[h] /\ mine[g] # 0 => g = h
  /\ \A g \in Requesters :
       /\ mine[g] <= nextID
       /\ pc[g] \in {"send", "wait"} => mine[g] # 0
       /\ mine[g] # 0 => (outcome[mine[g]] = "open" <=> pc[g] \in Busy)
Returning ==
  \A g \in Requesters :
    /\ pc[g] = "retire" => /\ ret[g] # "none"
                           /\ ret[g] \in Bodies => mine[g] \in answered
                           /\ ret[g] = "down" => closed
    /\ pc[g] = "fail" => ret[g] = "down" \/ (g = Manager /\ stage \in {"abort", "close"})

(* Where the manager's goroutine can be in each stage.                       *)
ManagerAt ==
  /\ stage \in {"abort", "close"} => /\ mine[Manager] = 0
                                     /\ pc[Manager] \in {"idle", "fail", "join"}
  /\ pc[Manager] = "join" => failing = "done" /\ stage \in {"abort", "close"}
  /\ stage \in {"new", "initialize", "up"} \cup Gone => pc[Manager] = "idle"

KeptBy(g, i) ==
  /\ mine[g] = i
  /\ \/ i \in pending \cup orphans \/ ch[i] # NoMsg \/ pc[g] \in {"retire", "fail"}

OpenIds == \A i \in Ids : outcome[i] = "none" <=> nextID < i

(* What travels belongs to a request the server has answered.                *)
HonestChannel(i) == \/ ch[i] = NoMsg
                    \/ ch[i] = ErrMsg /\ closed
                    \/ ch[i].t \in Bodies /\ ch[i].id = i /\ i \in answered
Honest ==
  /\ \A i \in Ids : HonestChannel(i)
  /\ \A k \in DOMAIN inbox : inbox[k].t \in Bodies => inbox[k].id \in answered
  /\ pc[Recv] = "deliver" => /\ held.t \in Bodies /\ held.id \in answered
                             /\ held.to = held.id

Loops ==
  /\ pc[Recv] = "exited" => failing = "done"
  /\ ctl = "exited" => pc[Recv] = "exited" /\ control = 0
  /\ stage \in Gone /\ wire # "new" => LoopsLeft

(* Request ids are counted by the initialize, the pages and the callers.     *)
Counted ==
  /\ nextID <= 1 + MaxPages + Cardinality(Used)
  /\ stage \in {"new", "initialize"} => nextID = 0
  /\ stage = "notify" => nextID <= 1
  /\ stage = "discover" => /\ Pages <= MaxPages
                           /\ pc[Manager] = "idle" /\ ret[Manager] = "none" => Pages < MaxPages
  /\ stage \notin Given => \A g \in Callers : pc[g] = "idle" /\ mine[g] = 0 /\ ret[g] = "none"

IInv == /\ Types /\ FailOrder /\ Owned /\ Returning /\ ManagerAt /\ OpenIds
        /\ NoCallForgotten /\ Honest /\ Loops /\ Counted

LEMMA Constants ==
  /\ MaxId \in Nat /\ Cardinality(Callers) \in Nat
  /\ Manager \in Requesters /\ Recv \notin Requesters
  /\ Requesters \subseteq Failers /\ Recv \in Failers /\ Manager # Recv
BY ClientAssumption, FS_CardinalityType DEF MaxId, Requesters, Failers

(* Where a goroutine goes, and that the others stay where they are.          *)
LEMMA GoesTo ==
  ASSUME Types, NEW g \in Failers, NEW l, Goto(g, l)
  PROVE  pc'[g] = l /\ \A h \in Failers : h # g => pc'[h] = pc[h]
BY DEF Types, TypeOK, PcType, Pcs, Goto

LEMMA PcTypes ==
  ASSUME Types, NEW g \in Failers, NEW l, Goto(g, l),
         g = Recv => l \in {"off", "recv", "deliver", "fail", "exited"},
         g \in Requesters => l \in Busy \cup {"idle", "join"},
         g \in Callers => l # "join"
  PROVE  PcType'
<1> USE Constants
<1>1. pc' \in [Failers -> Pcs]
  BY DEF Types, TypeOK, PcType, Pcs, Pcs, Busy, Failers, Goto
<1> QED BY <1>1, GoesTo DEF PcType, Types, Requesters

(* A request stays with its owner when nothing that holds it lets it go.     *)
LEMMA StaysKept ==
  ASSUME NoCallForgotten,
         \A i \in Ids : outcome'[i] = "open" => outcome[i] = "open",
         \A g \in Requesters, i \in Ids :
           outcome'[i] = "open" /\ KeptBy(g, i) => KeptBy(g, i)'
  PROVE  NoCallForgotten'
BY DEF NoCallForgotten, KeptBy

LEMMA AnsweredIds == Types => answered \subseteq 1..nextID /\ 1..nextID \subseteq Ids
BY Constants DEF Types, TypeOK, Ids

LEMMA ConnectStep ==
  ASSUME IInv, Connect PROVE IInv'
<1> USE Constants, ClientAssumption DEF IInv, Connect, Goto, callVars,
   failVars, loopVars, wireVars
<1>1. Types'
  <2>1. PcType'
    <3>1. CASE Goto(Recv, "recv")
      BY <3>1, PcTypes
    <3>2. CASE UNCHANGED pc
      BY <3>2 DEF Types, PcType
    <3> QED BY <3>1, <3>2
  <2>2. TypeOK'
    BY <2>1 DEF Types, TypeOK, PcType, Pcs, Stages
  <2> QED BY <2>1, <2>2 DEF Types
<1>2. FailOrder' /\ OpenIds'
  BY DEF FailOrder, OpenIds
<1>3. Owned'
  BY DEF Owned, Types, TypeOK
<1>4. Returning'
  BY DEF Returning, Types, TypeOK
<1>5. ManagerAt'
  BY DEF ManagerAt, Types, TypeOK
<1>6. NoCallForgotten'
  <2>1. \A h \in Requesters, i \in Ids : KeptBy(h, i) => KeptBy(h, i)'
    BY GoesTo DEF KeptBy
  <2> QED BY <2>1, StaysKept
<1>7. Honest'
  BY DEF Honest, HonestChannel, Types, TypeOK
<1>8. Loops'
  BY DEF Loops, Types, TypeOK, PcType, Pcs, Busy, LoopsLeft, Gone, FailOrder
<1>9. Counted'
  BY DEF Counted, Types, TypeOK, PcType, Pcs, Busy, Used, Given, Pages,
     Requesters, Owned, ManagerAt, Gone
<1> QED BY <1>1, <1>2, <1>3, <1>4, <1>5, <1>6, <1>7, <1>8, <1>9

LEMMA SendStep ==
  ASSUME IInv, NEW g \in Requesters, Send(g) PROVE IInv'
<1> USE Constants, ClientAssumption DEF IInv, Send, Goto, callVars, failVars,
   loopVars, wireVars
<1>1. Types'
  <2>1. PcType'
    BY PcTypes DEF Requesters, Busy
  <2>2. TypeOK'
    BY <2>1 DEF Types, TypeOK, PcType, Pcs
  <2>3. mine[g] \in 1..nextID
    BY DEF Owned, Types, TypeOK
  <2>4. ret' \in [Requesters -> Bodies \cup {"none", "down", "gone"}] /\ sent' \subseteq 1..nextID
    BY <2>3 DEF Types
  <2> QED BY <2>1, <2>2, <2>4 DEF Types
<1>2. FailOrder' /\ OpenIds'
  BY DEF FailOrder, OpenIds
<1>3. Owned'
  <2>1. pc'[g] \in {"wait", "retire", "fail"} /\ \A h \in Requesters : h # g => pc'[h] = pc[h]
    BY GoesTo
  <2> QED BY <2>1 DEF Owned, Busy
<1>4. Returning'
  BY DEF Returning, Types, TypeOK, PcType, Pcs, Busy, Honest, HonestChannel,
     Owned, Bodies, NoMsg, ErrMsg, Ids, FailOrder, ManagerAt
<1>5. ManagerAt'
  BY DEF ManagerAt, Types, TypeOK
<1>6. NoCallForgotten'
  <2>1. ASSUME NEW h \in Requesters, NEW i \in Ids, outcome'[i] = "open", KeptBy(h, i)
        PROVE  KeptBy(h, i)'
    BY <2>1, GoesTo DEF KeptBy
  <2> QED BY <2>1, StaysKept DEF Types, TypeOK
<1>7. Honest'
  BY DEF Honest, HonestChannel, Types, TypeOK
<1>8. Loops'
  BY DEF Loops, LoopsLeft, Types, TypeOK
<1>9. Counted'
  BY DEF Counted, Used, Pages, Types, TypeOK, PcType, Pcs, Busy, Failers,
     Requesters, Gone
<1> QED BY <1>1, <1>2, <1>3, <1>4, <1>5, <1>6, <1>7, <1>8, <1>9

LEMMA AwaitReplyStep ==
  ASSUME IInv, NEW g \in Requesters, AwaitReply(g) PROVE IInv'
<1> USE Constants, ClientAssumption DEF IInv, AwaitReply, Goto, callVars,
   failVars, loopVars, wireVars, Reply, Returned
<1>1. Types'
  <2>1. PcType'
    BY PcTypes DEF Requesters, Busy
  <2>2. TypeOK'
    BY <2>1 DEF Types, TypeOK, PcType, Pcs
  <2>3. mine[g] \in Ids
    BY DEF Owned, Types, TypeOK, Ids
  <2>4. Returned(g) \in Bodies \cup {"down"}
    BY <2>3 DEF Honest, HonestChannel, NoMsg, ErrMsg, Msg
  <2>5. ret' \in [Requesters -> Bodies \cup {"none", "down", "gone"}]
    BY <2>4 DEF Types
  <2> QED BY <2>1, <2>2, <2>5 DEF Types
<1>2. FailOrder' /\ ManagerAt' /\ OpenIds'
  BY DEF FailOrder, ManagerAt, OpenIds
<1>3. NoCallForgotten' /\ Honest' /\ Loops'
  BY DEF NoCallForgotten, Honest, HonestChannel, Loops, LoopsLeft
<1>4. Counted'
  BY DEF Counted, Used, Pages
<1>5. Owned'
  BY DEF Owned, Types, TypeOK, PcType, Pcs, Busy, Failers, Requesters, Gone
<1>6. Returning'
  <2>1. mine[g] \in Ids
    BY DEF Owned, Types, TypeOK, Ids
  <2>2. \/ Reply(g).t \in Bodies /\ mine[g] \in answered
        \/ Reply(g).t = "error" /\ closed
    BY <2>1 DEF Honest, HonestChannel, NoMsg, ErrMsg, Msg
  <2>3. ret'[g] = Returned(g) /\ \A h \in Requesters : h # g => ret'[h] = ret[h]
    BY DEF Types
  <2>4. \A h \in Requesters : h # g => pc'[h] = pc[h]
    BY GoesTo
  <2>5. pc'[g] = IF Reply(g).t = "garbled" THEN "fail" ELSE "retire"
    BY GoesTo
  <2>6. Reply(g).id = mine[g] \/ Reply(g).t = "error"
    BY <2>1 DEF Honest, HonestChannel, NoMsg, ErrMsg, Msg
  <2> QED BY <2>2, <2>3, <2>4, <2>5, <2>6 DEF Returning, Bodies, ErrMsg, Msg
<1> QED BY <1>1, <1>2, <1>3, <1>4, <1>5, <1>6

LEMMA AwaitCancelStep ==
  ASSUME IInv, NEW g \in Requesters, AwaitCancel(g) PROVE IInv'
<1> USE Constants, ClientAssumption DEF IInv, AwaitCancel, Goto, callVars,
   failVars, loopVars, wireVars
<1>1. Types'
  BY DEF Types, TypeOK, PcType, Pcs, Busy, Failers, Requesters, Gone
<1>2. FailOrder' /\ ManagerAt' /\ OpenIds'
  BY DEF FailOrder, ManagerAt, OpenIds
<1>3. Honest' /\ Loops' /\ Counted'
  BY DEF Honest, HonestChannel, Loops, LoopsLeft, Counted, Used, Pages
<1>4. Owned'
  BY DEF Owned, Types, TypeOK, PcType, Pcs, Busy, Failers, Requesters, Gone
<1>5. Returning'
  BY DEF Returning, Types, TypeOK, PcType, Pcs, Busy, Honest, HonestChannel,
     Owned, Bodies, NoMsg, ErrMsg, Ids, FailOrder, ManagerAt
<1>6. NoCallForgotten'
  <2>1. \A h \in Requesters, i \in Ids : KeptBy(h, i) => KeptBy(h, i)'
    BY GoesTo DEF KeptBy
  <2> QED BY <2>1, StaysKept
<1> QED BY <1>1, <1>2, <1>3, <1>4, <1>5, <1>6

LEMMA RetireStep ==
  ASSUME IInv, NEW g \in Requesters, Retire(g) PROVE IInv'
<1> USE Constants, ClientAssumption DEF IInv, Retire, Goto, callVars, failVars,
   loopVars, wireVars
<1>1. Types'
  <2>1. PcType'
    BY PcTypes DEF Requesters, Busy
  <2>2. outcome' \in [Ids -> {"none", "open", "reply", "down", "gone"}]
    BY DEF Types, TypeOK, Returning, Bodies
  <2>3. TypeOK'
    BY <2>1, <2>2 DEF Types, TypeOK, PcType, Pcs
  <2> QED BY <2>1, <2>3 DEF Types
<1>2. FailOrder' /\ Returning' /\ ManagerAt'
  BY DEF FailOrder, Returning, ManagerAt
<1>3. Honest' /\ Loops'
  BY DEF Honest, HonestChannel, Loops, LoopsLeft
<1>4. Owned'
  <2>1. pc'[g] = "idle" /\ \A h \in Requesters : h # g => pc'[h] = pc[h]
    BY GoesTo
  <2>2. \A h \in Requesters : mine[h] \in 0..nextID
    BY DEF Owned, Types, TypeOK
  <2>3. ASSUME mine[g] # 0 PROVE outcome'[mine[g]] # "open"
    <3>1. mine[g] \in Ids
      BY <2>2, <2>3 DEF Types, TypeOK, Ids
    <3>2. outcome'[mine[g]] = IF ret[g] \in Bodies THEN "reply" ELSE ret[g]
      BY <2>3, <3>1 DEF Types, TypeOK
    <3> QED BY <3>2 DEF Types, Bodies
  <2>4. \A h \in Requesters : h # g /\ mine[h] # 0 => outcome'[mine[h]] = outcome[mine[h]]
    BY <2>2 DEF Owned, Types, TypeOK
  <2> QED BY <2>1, <2>2, <2>3, <2>4 DEF Owned, Busy
<1>5. OpenIds'
  <2>1. ASSUME mine[g] # 0 PROVE mine[g] \in 1..nextID
    BY <2>1 DEF Owned, Types, TypeOK
  <2>2. ret[g] # "none"
    BY DEF Returning
  <2> QED BY <2>1, <2>2 DEF OpenIds, Types, TypeOK, Ids
<1>6. NoCallForgotten'
  <2>1. ASSUME NEW h \in Requesters, NEW i \in Ids, outcome'[i] = "open", KeptBy(h, i)
        PROVE  KeptBy(h, i)'
    <3>1. h # g
      <4>1. mine[g] = 0 \/ outcome'[mine[g]] # "open"
        <5>1. pc'[g] = "idle"
          BY GoesTo
        <5> QED BY <1>4, <5>1 DEF Owned, Busy
      <4> QED BY <2>1, <4>1 DEF KeptBy, Ids
    <3>2. pc'[h] = pc[h] /\ mine[h] # mine[g]
      BY <2>1, <3>1, GoesTo DEF KeptBy, Owned, Ids
    <3> QED BY <2>1, <3>2 DEF KeptBy
  <2>2. \A i \in Ids : outcome'[i] = "open" => outcome[i] = "open"
    BY DEF Types, TypeOK, Returning
  <2> QED BY <2>1, <2>2, StaysKept
<1>7. Counted'
  <2>1. pc'[g] = "idle" /\ \A h \in Requesters : h # g => pc'[h] = pc[h]
    BY GoesTo
  <2>2. UNCHANGED Used
    BY DEF Used
  <2>3. pc[g] = "retire" /\ g = Manager => ret[g] # "none"
    BY DEF Returning
  <2> QED BY <2>1, <2>2, <2>3 DEF Counted, Pages, Requesters
<1> QED BY <1>1, <1>2, <1>3, <1>4, <1>5, <1>6, <1>7

LEMMA CtxEndsStep ==
  ASSUME IInv, NEW g \in Requesters, CtxEnds(g) PROVE IInv'
<1> USE Constants, ClientAssumption DEF IInv, CtxEnds, Goto, callVars,
   failVars, loopVars, wireVars
<1>1. Types'
  BY DEF Types, TypeOK, PcType
<1>2. FailOrder' /\ Owned' /\ Returning'
  BY DEF FailOrder, Owned, Returning
<1>3. ManagerAt' /\ OpenIds' /\ Honest'
  BY DEF ManagerAt, OpenIds, Honest, HonestChannel
<1>4. Loops' /\ Counted'
  BY DEF Loops, LoopsLeft, Counted, Used, Pages
<1>5. NoCallForgotten'
  <2>1. \A h \in Requesters, i \in Ids : KeptBy(h, i) => KeptBy(h, i)'
    BY DEF KeptBy
  <2> QED BY <2>1, StaysKept
<1> QED BY <1>1, <1>2, <1>3, <1>4, <1>5

LEMMA FailSwapStep ==
  ASSUME IInv, NEW g \in Failers, FailSwap(g) PROVE IInv'
<1> USE Constants, ClientAssumption DEF IInv, FailSwap, Goto, callVars,
   failVars, loopVars, wireVars, Waiting
<1>1. Types'
  BY DEF Types, TypeOK, PcType, Pcs, Busy, Stages, FailSteps, Bodies, Msg,
     NoMsg, ErrMsg, Ids
<1>2. Owned' /\ Returning' /\ ManagerAt'
  BY DEF Owned, Returning, ManagerAt
<1>3. OpenIds' /\ Honest' /\ Loops'
  BY DEF OpenIds, Honest, HonestChannel, Loops, LoopsLeft
<1>4. Counted'
  BY DEF Counted, Used, Pages
<1>5. FailOrder'
  BY DEF FailOrder, Types, TypeOK, PcType, Pcs, Busy, Failers, Requesters, Gone
<1>6. NoCallForgotten'
  <2>1. ASSUME NEW h \in Requesters, NEW i \in Ids, outcome'[i] = "open", KeptBy(h, i)
        PROVE  KeptBy(h, i)'
    BY <2>1 DEF KeptBy, FailOrder
  <2> QED BY <2>1, StaysKept DEF Types, TypeOK
<1> QED BY <1>1, <1>2, <1>3, <1>4, <1>5, <1>6

LEMMA FailReturnStep ==
  ASSUME IInv, NEW g \in Failers, FailReturn(g) PROVE IInv'
<1> USE Constants, ClientAssumption DEF IInv, FailReturn, Goto, callVars,
   failVars, loopVars, wireVars, AfterFail
<1>1. Types'
  BY DEF Types, TypeOK, PcType, Pcs, Busy, Failers, Requesters, Gone
<1>2. FailOrder' /\ ManagerAt' /\ OpenIds'
  BY DEF FailOrder, ManagerAt, OpenIds
<1>3. Honest' /\ Loops' /\ Counted'
  BY DEF Honest, HonestChannel, Loops, LoopsLeft, Counted, Used, Pages
<1>4. Owned'
  <2>1. pc'[g] = AfterFail(g) /\ \A h \in Requesters : h # g => pc'[h] = pc[h]
    BY GoesTo
  <2>2. g \in Requesters /\ mine[g] # 0 => AfterFail(g) = "retire"
    BY DEF ManagerAt
  <2> QED BY <2>1, <2>2 DEF Owned, Busy
<1>5. Returning'
  BY DEF Returning, Types, TypeOK, PcType, Pcs, Busy, Honest, HonestChannel,
     Owned, Bodies, NoMsg, ErrMsg, Ids, FailOrder, ManagerAt
<1>6. NoCallForgotten'
  <2>1. ASSUME NEW h \in Requesters, NEW i \in Ids, outcome'[i] = "open", KeptBy(h, i)
        PROVE  KeptBy(h, i)'
    <3>1. CASE h = g
      <4>1. AfterFail(g) = "retire"
        BY <2>1, <3>1 DEF KeptBy, ManagerAt, Ids
      <4> QED BY <2>1, <3>1, <4>1, GoesTo DEF KeptBy
    <3>2. CASE h # g
      BY <2>1, <3>2, GoesTo DEF KeptBy
    <3> QED BY <3>1, <3>2
  <2> QED BY <2>1, StaysKept
<1> QED BY <1>1, <1>2, <1>3, <1>4, <1>5, <1>6

LEMMA FailDeliverStep ==
  ASSUME IInv, NEW o \in Ids, FailDeliver(o) PROVE IInv'
<1> USE Constants, ClientAssumption DEF IInv, FailDeliver, Goto, callVars,
   failVars, loopVars, wireVars
<1>1. Types'
  BY DEF Types, TypeOK, PcType, Pcs, Busy, Stages, FailSteps, Bodies, Msg,
     NoMsg, ErrMsg, Ids
<1>2. FailOrder' /\ Owned' /\ Returning'
  BY DEF FailOrder, Owned, Returning
<1>3. ManagerAt' /\ OpenIds' /\ Loops'
  BY DEF ManagerAt, OpenIds, Loops, LoopsLeft
<1>4. Counted'
  BY DEF Counted, Used, Pages
<1>5. NoCallForgotten'
  <2>1. \A h \in Requesters, i \in Ids : KeptBy(h, i) => KeptBy(h, i)'
    BY DEF KeptBy, NoMsg, ErrMsg, Msg, Types
  <2> QED BY <2>1, StaysKept
<1>6. Honest'
  <2>1. closed
    BY DEF FailOrder
  <2>2. \A i \in Ids : ch'[i] = ch[i] \/ ch'[i] = ErrMsg
    BY DEF Types
  <2>3. \A i \in Ids : HonestChannel(i) => HonestChannel(i)'
    BY <2>1, <2>2 DEF HonestChannel
  <2> QED BY <2>3 DEF Honest
<1> QED BY <1>1, <1>2, <1>3, <1>4, <1>5, <1>6

LEMMA FailMarkStep ==
  ASSUME IInv, FailMark PROVE IInv'
<1> USE Constants, ClientAssumption DEF IInv, FailMark, Goto, callVars,
   failVars, loopVars, wireVars
<1>1. Types'
  BY DEF Types, TypeOK, PcType, Pcs, Busy, Stages, FailSteps, Bodies, Msg,
     NoMsg, ErrMsg, Ids
<1>2. FailOrder' /\ Owned' /\ Returning'
  BY DEF FailOrder, Owned, Returning
<1>3. ManagerAt' /\ OpenIds' /\ Honest'
  BY DEF ManagerAt, OpenIds, Honest, HonestChannel
<1>4. Loops' /\ Counted'
  BY DEF Loops, LoopsLeft, Counted, Used, Pages
<1>5. NoCallForgotten'
  <2>1. \A h \in Requesters, i \in Ids : KeptBy(h, i) => KeptBy(h, i)'
    BY DEF KeptBy
  <2> QED BY <2>1, StaysKept
<1> QED BY <1>1, <1>2, <1>3, <1>4, <1>5

LEMMA FailCloseStep ==
  ASSUME IInv, FailClose PROVE IInv'
<1> USE Constants, ClientAssumption DEF IInv, FailClose, Goto, callVars,
   failVars, loopVars, wireVars
<1>1. Types'
  BY DEF Types, TypeOK, PcType, Pcs, Busy, Stages, FailSteps, Bodies, Msg,
     NoMsg, ErrMsg, Ids
<1>2. FailOrder' /\ Owned' /\ Returning'
  BY DEF FailOrder, Owned, Returning
<1>3. ManagerAt' /\ OpenIds' /\ Honest'
  BY DEF ManagerAt, OpenIds, Honest, HonestChannel
<1>4. Counted'
  BY DEF Counted, Used, Pages
<1>5. NoCallForgotten'
  <2>1. \A h \in Requesters, i \in Ids : KeptBy(h, i) => KeptBy(h, i)'
    BY DEF KeptBy
  <2> QED BY <2>1, StaysKept
<1>6. Loops'
  BY DEF Loops, LoopsLeft, FailOrder, Gone
<1> QED BY <1>1, <1>2, <1>3, <1>4, <1>5, <1>6

LEMMA ReceiveStep ==
  ASSUME IInv, Receive PROVE IInv'
<1> USE Constants, ClientAssumption DEF IInv, Receive, Goto, callVars,
   failVars, loopVars, wireVars, Head1, Consumer, ControlFull, FatalMsg
<1>1. Types'
  <2>1. PcType'
    <3>1. CASE \E l \in {"fail", "deliver"} : Goto(Recv, l)
      BY <3>1, PcTypes
    <3>2. CASE UNCHANGED pc
      BY <3>2 DEF Types, PcType
    <3> QED BY <3>1, <3>2
  <2>2. inbox' \in Seq([t : Bodies \cup {"request", "malformed"}, id : 0..MaxId])
    BY DEF Types
  <2>3. control' \in 0..ControlCap
    BY DEF Types, TypeOK
  <2>4. TypeOK'
    BY <2>1, <2>3 DEF Types, TypeOK, PcType, Pcs
  <2> QED BY <2>1, <2>2, <2>4 DEF Types
<1>2. FailOrder' /\ OpenIds'
  BY DEF FailOrder, OpenIds
<1>3. Owned'
  BY DEF Owned, Types, TypeOK
<1>4. Returning'
  BY DEF Returning, Types, TypeOK
<1>5. ManagerAt'
  BY DEF ManagerAt, Types, TypeOK
<1>6. NoCallForgotten'
  BY DEF NoCallForgotten, Types, TypeOK
<1>7. Honest'
  <2>1. Len(inbox) \in Nat /\ Len(inbox) > 0
    BY DEF Types
  <2>2. inbox[1].t \in Bodies => inbox[1].id \in answered
    BY <2>1 DEF Honest, HonestChannel, Types
  <2>3. \A k \in DOMAIN inbox' : k + 1 \in DOMAIN inbox /\ inbox'[k] = inbox[k + 1]
    BY <2>1 DEF Types
  <2>4. \A k \in DOMAIN inbox' : inbox'[k].t \in Bodies => inbox'[k].id \in answered
    BY <2>3 DEF Honest, HonestChannel
  <2>5. pc'[Recv] = "deliver" => /\ held'.t \in Bodies /\ held'.id \in answered
                                /\ held'.to = held'.id
    <3> SUFFICES ASSUME pc'[Recv] = "deliver"
                 PROVE  held'.t \in Bodies /\ held'.id \in answered /\ held'.to = held'.id
      OBVIOUS
    <3>1. pc'[Recv] # pc[Recv] /\ ~Goto(Recv, "fail")
      BY GoesTo
    <3>2. inbox[1].t \in Bodies /\ held' = [t |-> inbox[1].t, id |-> inbox[1].id, to |-> inbox[1].id]
      BY <3>1
    <3> QED BY <2>2, <3>2
  <2> QED BY <2>4, <2>5 DEF Honest, HonestChannel
<1>8. Loops'
  BY DEF Loops, LoopsLeft, Types, TypeOK
<1>9. Counted'
  BY DEF Counted, Used, Pages, Types, TypeOK, PcType, Pcs, Busy, Failers,
     Requesters, Gone
<1> QED BY <1>1, <1>2, <1>3, <1>4, <1>5, <1>6, <1>7, <1>8, <1>9

LEMMA DeliverStep ==
  ASSUME IInv, Deliver PROVE IInv'
<1> USE Constants, ClientAssumption DEF IInv, Deliver, Goto, callVars,
   failVars, loopVars, wireVars
<1>1. Types'
  <2>1. PcType'
    BY PcTypes
  <2>2. held.to \in Ids /\ held.id \in 0..MaxId /\ held.t \in Bodies
    <3>1. held.t \in Bodies /\ held.id \in answered /\ held.to = held.id
      BY DEF Honest, HonestChannel
    <3> QED BY <3>1, AnsweredIds DEF Ids
  <2>3. ch' \in [Ids -> [t : Bodies \cup {"none", "error"}, id : 0..MaxId]]
    BY <2>2 DEF Types, Msg
  <2>4. TypeOK'
    BY <2>1 DEF Types, TypeOK, PcType, Pcs
  <2> QED BY <2>1, <2>3, <2>4 DEF Types
<1>2. FailOrder' /\ Owned' /\ Returning'
  BY DEF FailOrder, Owned, Returning
<1>3. ManagerAt' /\ OpenIds' /\ Loops'
  BY DEF ManagerAt, OpenIds, Loops, LoopsLeft
<1>4. Counted'
  BY DEF Counted, Used, Pages
<1>5. NoCallForgotten'
  <2>1. \A h \in Requesters : pc'[h] = pc[h]
    BY GoesTo
  <2>2. \A i \in Ids : ch[i] # NoMsg => ch'[i] # NoMsg
    BY DEF Honest, HonestChannel, Types, Msg, NoMsg, Bodies
  <2>3. \A h \in Requesters, i \in Ids : KeptBy(h, i) => KeptBy(h, i)'
    BY <2>1, <2>2 DEF KeptBy
  <2> QED BY <2>3, StaysKept
<1>6. Honest'
  BY DEF Honest, HonestChannel, Types, TypeOK, PcType, Pcs, Busy, FailOrder,
     Msg, NoMsg, ErrMsg, Bodies, Ids
<1> QED BY <1>1, <1>2, <1>3, <1>4, <1>5, <1>6

LEMMA ReceiveErrorStep ==
  ASSUME IInv, ReceiveError PROVE IInv'
<1> USE Constants, ClientAssumption DEF IInv, ReceiveError, Goto, callVars,
   failVars, loopVars, wireVars
<1>1. Types'
  BY DEF Types, TypeOK, PcType, Pcs, Busy, Failers, Requesters, Gone
<1>2. FailOrder' /\ Owned' /\ Returning'
  BY DEF FailOrder, Owned, Returning
<1>3. ManagerAt' /\ OpenIds' /\ NoCallForgotten'
  BY DEF ManagerAt, OpenIds, NoCallForgotten
<1>4. Honest' /\ Loops' /\ Counted'
  BY DEF Honest, HonestChannel, Loops, LoopsLeft, Counted, Used, Pages
<1> QED BY <1>1, <1>2, <1>3, <1>4

LEMMA ControlStep ==
  ASSUME IInv, Control PROVE IInv'
<1> USE Constants, ClientAssumption DEF IInv, Control, Goto, callVars,
   failVars, loopVars, wireVars, ControlClosed
<1>1. Types'
  BY DEF Types, TypeOK, PcType
<1>2. FailOrder' /\ Owned' /\ Returning'
  BY DEF FailOrder, Owned, Returning
<1>3. ManagerAt' /\ OpenIds' /\ Honest'
  BY DEF ManagerAt, OpenIds, Honest, HonestChannel
<1>4. Loops' /\ Counted'
  BY DEF Loops, LoopsLeft, Counted, Used, Pages
<1>5. NoCallForgotten'
  <2>1. \A h \in Requesters, i \in Ids : KeptBy(h, i) => KeptBy(h, i)'
    BY DEF KeptBy
  <2> QED BY <2>1, StaysKept
<1> QED BY <1>1, <1>2, <1>3, <1>4, <1>5

LEMMA InitializedStep ==
  ASSUME IInv, Initialized PROVE IInv'
<1> USE Constants, ClientAssumption DEF IInv, Initialized, Goto, callVars,
   failVars, loopVars, wireVars, Step, ManagerRests
<1>1. Types'
  BY SMTT(30) DEF Types, TypeOK, PcType, Pcs, Busy, Stages, FailSteps, Bodies, Msg,
     NoMsg, ErrMsg, Ids
<1>2. FailOrder' /\ Returning' /\ OpenIds'
  BY DEF FailOrder, Returning, OpenIds
<1>3. Honest'
  BY DEF Honest, HonestChannel
<1>4. Owned'
  BY DEF Owned, Types, TypeOK
<1>5. ManagerAt'
  BY DEF ManagerAt, Types, TypeOK
<1>6. NoCallForgotten'
  <2>1. ASSUME NEW h \in Requesters, NEW i \in Ids, outcome'[i] = "open", KeptBy(h, i)
        PROVE  KeptBy(h, i)'
    <3>1. h # Manager
      BY <2>1 DEF KeptBy, Owned, ManagerAt, Busy, Ids
    <3> QED BY <2>1, <3>1 DEF KeptBy, Types, TypeOK
  <2> QED BY <2>1, StaysKept
<1>7. Loops'
  BY DEF Loops, LoopsLeft, Types, TypeOK, PcType, Pcs, Busy, Failers,
     Requesters, Gone
<1>8. Counted'
  <2>1. UNCHANGED Used
    BY DEF Used, Requesters, Types, TypeOK
  <2>2. \A h \in Callers : UNCHANGED <<pc[h], mine[h], ret[h]>>
    BY DEF Requesters, Failers, Types, TypeOK
  <2> QED BY <2>1, <2>2 DEF Counted, Pages, Given, Types, TypeOK
<1> QED BY <1>1, <1>2, <1>3, <1>4, <1>5, <1>6, <1>7, <1>8

LEMMA ListedStep ==
  ASSUME IInv, Listed PROVE IInv'
<1> USE Constants, ClientAssumption DEF IInv, Listed, Goto, callVars, failVars,
   loopVars, wireVars, TooMany, ManagerRests
<1>1. Types'
  <2>1. PcType'
    <3>1. CASE Goto(Manager, "fail")
      BY <3>1, PcTypes DEF Busy
    <3>2. CASE UNCHANGED pc
      BY <3>2 DEF Types, PcType
    <3> QED BY <3>1, <3>2
  <2>2. TypeOK'
    BY <2>1 DEF Types, TypeOK, PcType, Pcs, Stages
  <2>3. ret' \in [Requesters -> Bodies \cup {"none", "down", "gone"}]
    BY DEF Types
  <2> QED BY <2>1, <2>2, <2>3 DEF Types
<1>2. FailOrder' /\ OpenIds'
  BY DEF FailOrder, OpenIds
<1>3. Owned'
  BY DEF Owned, Types, TypeOK
<1>4. Returning'
  BY DEF Returning, Types, TypeOK
<1>5. ManagerAt'
  BY DEF ManagerAt, Types, TypeOK, PcType, Pcs, Busy, Failers, Requesters, Gone
<1>6. NoCallForgotten'
  <2>1. ASSUME NEW h \in Requesters, NEW i \in Ids, outcome'[i] = "open", KeptBy(h, i)
        PROVE  KeptBy(h, i)'
    <3>1. h # Manager
      BY <2>1 DEF KeptBy, Owned, ManagerAt, Busy, Ids
    <3> QED BY <2>1, <3>1, GoesTo DEF KeptBy, Types, TypeOK
  <2> QED BY <2>1, StaysKept
<1>7. Honest'
  BY DEF Honest, HonestChannel, Types, TypeOK
<1>8. Loops'
  BY DEF Loops, LoopsLeft, Types, TypeOK, PcType, Pcs, Busy, Failers,
     Requesters, Gone
<1>9. Counted'
  <2>1. UNCHANGED Used
    BY DEF Used, Requesters, Types, TypeOK
  <2>2. \A h \in Callers : UNCHANGED <<pc[h], mine[h], ret[h]>>
    BY GoesTo DEF Requesters, Failers, Types, TypeOK
  <2> QED BY <2>1, <2>2 DEF Counted, Pages, Given, Types, TypeOK
<1> QED BY <1>1, <1>2, <1>3, <1>4, <1>5, <1>6, <1>7, <1>8, <1>9

LEMMA CloseStep ==
  ASSUME IInv, Close PROVE IInv'
<1> USE Constants, ClientAssumption DEF IInv, Close, Goto, callVars, failVars,
   loopVars, wireVars, ManagerRests
<1>1. Types'
  BY DEF Types, TypeOK, PcType, Pcs, Busy, Stages, FailSteps, Bodies, Msg,
     NoMsg, ErrMsg, Ids
<1>2. FailOrder' /\ Returning' /\ OpenIds'
  BY DEF FailOrder, Returning, OpenIds
<1>3. Honest'
  BY DEF Honest, HonestChannel
<1>4. Owned'
  BY DEF Owned, Types, TypeOK
<1>5. ManagerAt'
  BY DEF ManagerAt, Types, TypeOK, PcType, Pcs, Busy, Failers, Requesters, Gone
<1>6. NoCallForgotten'
  <2>1. ASSUME NEW h \in Requesters, NEW i \in Ids, outcome'[i] = "open", KeptBy(h, i)
        PROVE  KeptBy(h, i)'
    <3>1. h # Manager
      BY <2>1 DEF KeptBy, Owned, ManagerAt, Busy, Ids
    <3> QED BY <2>1, <3>1, GoesTo DEF KeptBy, Types, TypeOK
  <2> QED BY <2>1, StaysKept
<1>7. Loops'
  BY DEF Loops, LoopsLeft, Types, TypeOK, PcType, Pcs, Busy, Failers,
     Requesters, Gone
<1>8. Counted'
  <2>1. UNCHANGED Used
    BY DEF Used, Requesters, Types, TypeOK
  <2>2. \A h \in Callers : UNCHANGED <<pc[h], mine[h], ret[h]>>
    BY GoesTo DEF Requesters, Failers, Types, TypeOK
  <2> QED BY <2>1, <2>2 DEF Counted, Pages, Given, Types, TypeOK
<1> QED BY <1>1, <1>2, <1>3, <1>4, <1>5, <1>6, <1>7, <1>8

LEMMA JoinStep ==
  ASSUME IInv, Join PROVE IInv'
<1> USE Constants, ClientAssumption DEF IInv, Join, Goto, callVars, failVars,
   loopVars, wireVars, Joined, LoopsLeft
<1>1. Types'
  BY DEF Types, TypeOK, PcType, Pcs, Busy, Stages, FailSteps, Bodies, Msg,
     NoMsg, ErrMsg, Ids
<1>2. FailOrder' /\ Returning' /\ OpenIds'
  BY DEF FailOrder, Returning, OpenIds
<1>3. Honest' /\ Loops'
  BY DEF Honest, HonestChannel, Loops, LoopsLeft
<1>4. Owned'
  BY DEF Owned, Types, TypeOK, PcType, Pcs, Busy, Failers, Requesters, Gone
<1>5. ManagerAt'
  BY DEF ManagerAt, Types, TypeOK
<1>6. NoCallForgotten'
  <2>1. ASSUME NEW h \in Requesters, NEW i \in Ids, outcome'[i] = "open", KeptBy(h, i)
        PROVE  KeptBy(h, i)'
    <3>1. h # Manager
      BY <2>1 DEF KeptBy, Owned, ManagerAt, Busy, Ids
    <3> QED BY <2>1, <3>1, GoesTo DEF KeptBy, Types, TypeOK
  <2> QED BY <2>1, StaysKept
<1>7. Counted'
  BY DEF Counted, Types, TypeOK, PcType, Pcs, Busy, Used, Given, Pages,
     Requesters, Owned, ManagerAt, Gone
<1> QED BY <1>1, <1>2, <1>3, <1>4, <1>5, <1>6, <1>7

LEMMA ServerSendsStep ==
  ASSUME IInv, ServerSends PROVE IInv'
<1> USE Constants, ClientAssumption DEF IInv, ServerSends, Goto, callVars,
   failVars, loopVars, wireVars
<1>1. Types'
  <2>1. TypeOK' /\ PcType'
    BY DEF Types, TypeOK, PcType
  <2>2. PICK m : inbox' = Append(inbox, m) /\ m \in [t : Bodies \cup {"request", "malformed"}, id : 0..MaxId]
    <3>1. CASE \E i \in sent, b \in Bodies : inbox' = Append(inbox, Msg(b, i))
      BY <3>1 DEF Types, TypeOK, Msg
    <3>2. CASE \E t \in {"request", "malformed"} : inbox' = Append(inbox, Msg(t, 0))
      BY <3>2 DEF Msg
    <3> QED BY <3>1, <3>2 DEF Bodies
  <2>3. inbox' \in Seq([t : Bodies \cup {"request", "malformed"}, id : 0..MaxId])
    BY <2>2 DEF Types
  <2>4. answered' \subseteq sent
    BY DEF Types
  <2> QED BY <2>1, <2>3, <2>4 DEF Types
<1>2. FailOrder' /\ Owned' /\ Returning'
  BY DEF FailOrder, Owned, Returning
<1>3. ManagerAt' /\ OpenIds' /\ Loops'
  BY DEF ManagerAt, OpenIds, Loops, LoopsLeft
<1>4. Counted'
  BY DEF Counted, Used, Pages
<1>5. NoCallForgotten'
  <2>1. \A h \in Requesters, i \in Ids : KeptBy(h, i) => KeptBy(h, i)'
    BY DEF KeptBy
  <2> QED BY <2>1, StaysKept
<1>6. Honest'
  <2>1. answered \subseteq answered'
    OBVIOUS
  <2>2. PICK m : inbox' = Append(inbox, m) /\ (m.t \in Bodies => m.id \in answered')
    <3>1. CASE \E i \in answered', b \in Bodies : inbox' = Append(inbox, Msg(b, i))
      BY <3>1 DEF Msg
    <3>2. CASE \E t \in {"request", "malformed"} : inbox' = Append(inbox, Msg(t, 0))
      BY <3>2 DEF Msg, Bodies
    <3> QED BY <3>1, <3>2 DEF Bodies
  <2>3. \A k \in DOMAIN inbox' : inbox'[k].t \in Bodies => inbox'[k].id \in answered'
    BY <2>1, <2>2 DEF Honest, HonestChannel, Types
  <2>4. \A i \in Ids : HonestChannel(i) => HonestChannel(i)'
    BY <2>1 DEF HonestChannel
  <2> QED BY <2>3, <2>4 DEF Honest
<1> QED BY <1>1, <1>2, <1>3, <1>4, <1>5, <1>6

LEMMA HangUpStep ==
  ASSUME IInv, HangUp PROVE IInv'
<1> USE Constants, ClientAssumption DEF IInv, HangUp, Goto, callVars, failVars,
   loopVars, wireVars
<1>1. Types'
  BY DEF Types, TypeOK, PcType
<1>2. FailOrder' /\ Owned' /\ Returning'
  BY DEF FailOrder, Owned, Returning
<1>3. ManagerAt' /\ OpenIds' /\ Honest'
  BY DEF ManagerAt, OpenIds, Honest, HonestChannel
<1>4. Loops' /\ Counted'
  BY DEF Loops, LoopsLeft, Counted, Used, Pages
<1>5. NoCallForgotten'
  <2>1. \A h \in Requesters, i \in Ids : KeptBy(h, i) => KeptBy(h, i)'
    BY DEF KeptBy
  <2> QED BY <2>1, StaysKept
<1> QED BY <1>1, <1>2, <1>3, <1>4, <1>5

(* A request that is registered, or turned away: what does not depend on how *)
(* far the manager is.                                                       *)
TurnedAway(g) == /\ ret' = [ret EXCEPT ![g] = "down"]
                 /\ UNCHANGED <<pc, nextID, pending, mine, ch, outcome>>

LEMMA RegisterStep ==
  ASSUME IInv, NEW g \in Requesters, Register(g) \/ TurnedAway(g),
         pc[g] = "idle", wire # "new", nextID < MaxId,
         stage' \in Stages \ {"new"}, stage \in {"abort", "close"} => stage' = stage,
         UNCHANGED <<status, ctxDone, failVars, loopVars, wireVars>>
  PROVE  /\ Types' /\ FailOrder' /\ Owned' /\ Returning' /\ OpenIds'
         /\ NoCallForgotten' /\ Honest'
         /\ \A h \in Requesters : h # g => UNCHANGED <<pc[h], mine[h], ret[h]>>
         /\ ret'[g] = "none" <=> nextID' = nextID + 1
         /\ nextID' = nextID + 1 => mine'[g] # 0 /\ pc'[g] = "send"
         /\ nextID' \in {nextID, nextID + 1}
         /\ nextID' = nextID => /\ ret'[g] = "down" /\ mine'[g] \in {0, mine[g]}
                                /\ pc'[g] \in {"idle", "fail"}
<1> USE Constants DEF IInv, callVars, failVars, loopVars, wireVars
<1>0. nextID + 1 \in Ids /\ nextID \in Nat
  BY DEF Types, TypeOK, Ids
<1> DEFINE Away == TurnedAway(g)
           Full == /\ Goto(g, "fail") /\ ret' = [ret EXCEPT ![g] = "down"]
                   /\ mine' = [mine EXCEPT ![g] = 0]
                   /\ UNCHANGED <<nextID, pending, ch, outcome>>
           Taken == /\ ~closed /\ Goto(g, "send") /\ nextID' = nextID + 1
                    /\ pending' = pending \cup {nextID + 1}
                    /\ mine' = [mine EXCEPT ![g] = nextID + 1]
                    /\ UNCHANGED ch
                    /\ ret' = [ret EXCEPT ![g] = "none"]
                    /\ outcome' = [outcome EXCEPT ![nextID + 1] = "open"]
<1>1. Away \/ Full \/ Taken
  BY DEF Register, TurnedAway, Dead
<1>2. /\ \A h \in Requesters : h # g => UNCHANGED <<pc[h], mine[h], ret[h]>>
      /\ Away => ret'[g] = "down" /\ mine'[g] = mine[g] /\ pc'[g] = "idle" /\ nextID' = nextID
      /\ Full => ret'[g] = "down" /\ mine'[g] = 0 /\ pc'[g] = "fail" /\ nextID' = nextID
      /\ Taken => ret'[g] = "none" /\ mine'[g] = nextID + 1 /\ pc'[g] = "send" /\ nextID' = nextID + 1
  BY <1>1, GoesTo DEF Types, TypeOK, TurnedAway
<1>3. Types'
  <2>1. PcType'
    BY <1>1, PcTypes DEF Busy, Types, PcType, Requesters, TurnedAway
  <2>2. mine' \in [Requesters -> 0..MaxId]
    <3>1. mine \in [Requesters -> 0..MaxId] /\ {0, nextID + 1} \subseteq 0..MaxId
      BY <1>0 DEF Types, TypeOK, Ids
    <3> QED BY <1>1, <3>1 DEF TurnedAway
  <2>7. pending' \subseteq 1..nextID' /\ nextID' \in 0..MaxId
    <3>1. pending \subseteq 1..nextID /\ {nextID, nextID + 1} \subseteq 0..MaxId
      BY <1>0 DEF Types, TypeOK, Ids
    <3>2. CASE UNCHANGED <<pending, nextID>>
      BY <3>1, <3>2
    <3>3. CASE Taken
      BY <1>0, <3>1, <3>3
    <3> QED BY <1>1, <3>2, <3>3 DEF TurnedAway
  <2>3. ret' \in [Requesters -> Bodies \cup {"none", "down", "gone"}]
    BY <1>1 DEF Types, TurnedAway
  <2>4. outcome' \in [Ids -> {"none", "open", "reply", "down", "gone"}]
    BY <1>0, <1>1 DEF Types, TypeOK, TurnedAway
  <2>5. sent' \subseteq 1..nextID' /\ answered' \subseteq sent' /\ ch' = ch
    BY <1>0, <1>1 DEF Types, TurnedAway
  <2>6. TypeOK'
    BY <2>1, <2>2, <2>4, <2>7 DEF Types, TypeOK, PcType, Pcs
  <2> QED BY <2>1, <2>3, <2>5, <2>6 DEF Types
<1>4. FailOrder'
  BY <1>1 DEF FailOrder, TurnedAway
<1>5. Owned'
  <2>1. CASE Away
    BY <1>2, <2>1 DEF Owned, TurnedAway, Busy
  <2>2. CASE Full
    BY <1>0, <1>2, <2>2 DEF Owned, Busy
  <2>3. CASE Taken
    <3>1. \A h \in Requesters : mine[h] \in 0..nextID
      BY DEF Owned, Types, TypeOK
    <3>2. outcome'[nextID + 1] = "open" /\ \A i \in 1..nextID : outcome'[i] = outcome[i]
      BY <1>0, <2>3 DEF Types, TypeOK
    <3> QED BY <1>0, <1>2, <2>3, <3>1, <3>2 DEF Owned, Busy
  <2> QED BY <1>1, <2>1, <2>2, <2>3
<1>6. Returning'
  BY <1>1, <1>2 DEF Returning, Types
<1>7. OpenIds'
  BY SMTT(30), <1>0, <1>1 DEF OpenIds, Types, TypeOK, Ids, TurnedAway
<1>8. NoCallForgotten'
  <2>1. ASSUME NEW i \in Ids, outcome'[i] = "open"
        PROVE  \E h \in Requesters : KeptBy(h, i)'
    <3>1. CASE Taken /\ i = nextID + 1
      BY <3>1, <1>2 DEF KeptBy
    <3>2. CASE ~(Taken /\ i = nextID + 1)
      <4>1. outcome[i] = "open"
        BY <1>1, <2>1, <3>2 DEF TurnedAway, Types, TypeOK
      <4>2. PICK h \in Requesters : KeptBy(h, i)
        BY <4>1 DEF NoCallForgotten, KeptBy
      <4>3. h # g
        BY <4>1, <4>2 DEF KeptBy, Owned, Busy, Ids
      <4> QED BY <1>1, <1>2, <4>2, <4>3 DEF KeptBy, TurnedAway
    <3> QED BY <3>1, <3>2
  <2> QED BY <2>1 DEF NoCallForgotten, KeptBy
<1>9. Honest'
  <2>1. UNCHANGED <<ch, closed, answered, inbox, held, pc[Recv]>>
    BY <1>1, GoesTo DEF TurnedAway
  <2> QED BY <2>1 DEF Honest, HonestChannel
<1> QED BY <1>0, <1>1, <1>2, <1>3, <1>4, <1>5, <1>6, <1>7, <1>8, <1>9

LEMMA RecvStays ==
  ASSUME Types, NEW g \in Requesters, Register(g) \/ TurnedAway(g) PROVE UNCHANGED pc[Recv]
BY Constants, GoesTo DEF Register, TurnedAway

LEMMA InitializeStep ==
  ASSUME IInv, Request("initialize", "notify") PROVE IInv'
<1> USE Constants, ClientAssumption DEF IInv, Request, Step, ManagerRests
<1>1. nextID = 0 /\ nextID < MaxId /\ wire # "new"
  BY DEF Counted, FailOrder, MaxId
<1>2. /\ Types' /\ FailOrder' /\ Owned' /\ Returning' /\ OpenIds' /\ NoCallForgotten' /\ Honest'
      /\ \A h \in Requesters : h # Manager => UNCHANGED <<pc[h], mine[h], ret[h]>>
      /\ nextID' <= 1 /\ pc'[Manager] # "join" /\ nextID' \in Nat
  BY <1>1, RegisterStep DEF Stages
<1>3. ManagerAt'
  BY <1>2 DEF ManagerAt, Gone
<1>4. Loops'
  BY RecvStays DEF Loops, loopVars, wireVars, failVars, Gone
<1>5. Counted'
  <2>1. UNCHANGED Used
    BY <1>2 DEF Used, Requesters
  <2>2. Cardinality(Used) \in Nat
    BY FS_Subset, FS_CardinalityType DEF Used
  <2>3. \A h \in Callers : UNCHANGED <<pc[h], mine[h], ret[h]>>
    BY <1>2 DEF Requesters
  <2> QED BY <1>2, <2>1, <2>2, <2>3 DEF Counted, Given
<1> QED BY <1>2, <1>3, <1>4, <1>5

(* Another page is asked for while the limit leaves one.                     *)
LEMMA StillListing ==
  ASSUME stage' = "discover", nextID' \in Nat, nextID' <= 1 + MaxPages,
         Cardinality(Used') \in Nat,
         ret'[Manager] = "none" => pc'[Manager] # "idle",
         \A g \in Callers : pc'[g] = "idle" /\ mine'[g] = 0 /\ ret'[g] = "none"
  PROVE  Counted'
<1>1. nextID' <= 1 + MaxPages + Cardinality(Used') /\ nextID' - 1 <= MaxPages
  BY ClientAssumption
<1>2. stage' \notin {"new", "initialize", "notify"}
  OBVIOUS
<1> QED BY <1>1, <1>2 DEF Counted, Pages

LEMMA ListPageStep ==
  ASSUME IInv, ListPage PROVE IInv'
<1> USE Constants, ClientAssumption DEF IInv, ListPage, ManagerRests, Pages
<1>1. nextID <= MaxPages /\ nextID < MaxId /\ wire # "new"
  BY DEF Counted, FailOrder, MaxId, Types, TypeOK
<1>2. /\ Types' /\ FailOrder' /\ Owned' /\ Returning' /\ OpenIds' /\ NoCallForgotten' /\ Honest'
      /\ \A h \in Requesters : h # Manager => UNCHANGED <<pc[h], mine[h], ret[h]>>
      /\ nextID' <= 1 + MaxPages /\ nextID' \in Nat /\ pc'[Manager] # "join"
      /\ ret'[Manager] = "none" => pc'[Manager] # "idle"
  <2>1. stage' \in Stages \ {"new"} /\ nextID \in Nat
    BY DEF Stages, Types, TypeOK
  <2> QED BY <1>1, <2>1, RegisterStep
<1>3. ManagerAt'
  BY <1>2 DEF ManagerAt, Gone
<1>4. Loops'
  BY RecvStays DEF Loops, loopVars, wireVars, failVars, Gone
<1>5. Counted'
  <2>1. UNCHANGED Used
    BY <1>2 DEF Used, Requesters
  <2>2. Cardinality(Used') \in Nat
    BY <2>1, FS_Subset, FS_CardinalityType DEF Used
  <2>3. stage' = "discover"
    OBVIOUS
  <2>4. \A g \in Callers : pc'[g] = "idle" /\ mine'[g] = 0 /\ ret'[g] = "none"
    BY <1>2 DEF Counted, Given, Requesters
  <2> QED BY <1>2, <2>2, <2>3, <2>4, StillListing
<1> QED BY <1>2, <1>3, <1>4, <1>5

LEMMA UnusedCaller ==
  ASSUME NEW g \in Callers, mine[g] = 0
  PROVE  /\ IsFiniteSet(Used) /\ Cardinality(Used) \in Nat
         /\ Cardinality(Used) < Cardinality(Callers)
<1>1. Used \in SUBSET Callers /\ Used # Callers
  BY DEF Used
<1>2. /\ IsFiniteSet(Used) /\ Cardinality(Used) <= Cardinality(Callers)
      /\ Cardinality(Used) # Cardinality(Callers)
  BY <1>1, ClientAssumption, FS_Subset
<1> QED BY <1>2, Constants, FS_CardinalityType

LEMMA CallToolStep ==
  ASSUME IInv, NEW g \in Requesters, CallTool(g) PROVE IInv'
<1> USE Constants, ClientAssumption DEF IInv, CallTool
<1>1. IsFiniteSet(Used) /\ Cardinality(Used) < Cardinality(Callers)
  BY UnusedCaller
<1>2. nextID < MaxId /\ wire # "new" /\ Cardinality(Used) \in Nat
  BY <1>1, FS_CardinalityType DEF Counted, FailOrder, MaxId, Types, TypeOK
<1>3. Register(g) \/ TurnedAway(g)
  BY DEF TurnedAway
<1>4. /\ Types' /\ FailOrder' /\ Owned' /\ Returning' /\ OpenIds' /\ NoCallForgotten' /\ Honest'
      /\ \A h \in Requesters : h # g => UNCHANGED <<pc[h], mine[h], ret[h]>>
      /\ \/ nextID' = nextID + 1 /\ mine'[g] # 0
         \/ nextID' = nextID /\ mine'[g] = 0
  <2>1. stage' \in Stages \ {"new"} /\ nextID \in Nat /\ mine[g] = 0
    BY DEF Stages, Types, TypeOK
  <2>2. stage' = stage
    OBVIOUS
  <2>3. pc[g] = "idle" /\ UNCHANGED <<status, ctxDone, failVars, loopVars, wireVars>>
    OBVIOUS
  <2>4. /\ Types' /\ FailOrder' /\ Owned' /\ Returning' /\ OpenIds' /\ NoCallForgotten' /\ Honest'
        /\ \A h \in Requesters : h # g => UNCHANGED <<pc[h], mine[h], ret[h]>>
        /\ nextID' = nextID + 1 => mine'[g] # 0
        /\ nextID' \in {nextID, nextID + 1}
        /\ nextID' = nextID => mine'[g] \in {0, mine[g]}
    BY <1>2, <1>3, <2>1, <2>2, <2>3, RegisterStep
  <2> QED BY <2>1, <2>4
<1>5. ManagerAt'
  BY <1>4 DEF ManagerAt, Gone, failVars
<1>6. Loops'
  BY <1>3, RecvStays DEF Loops, loopVars, wireVars, failVars, LoopsLeft
<1>7. Counted'
  <2>1. Used' = IF mine'[g] = 0 THEN Used ELSE Used \cup {g}
    BY <1>4 DEF Used, Requesters
  <2>2. g \notin Used
    BY DEF Used
  <2>3. Cardinality(Used \cup {g}) = Cardinality(Used) + 1
    BY <1>1, <2>2, FS_AddElement
  <2> QED BY SMTT(30), <1>2, <1>4, <2>1, <2>3 DEF Counted, Given, Types, TypeOK
<1> QED BY <1>4, <1>5, <1>6, <1>7

LEMMA InitInv == Init => IInv
<1> SUFFICES ASSUME Init PROVE IInv
  OBVIOUS
<1> USE Constants, ClientAssumption DEF Init
<1>1. Types
  <2>1. PcType
    BY DEF PcType, Pcs, Requesters, Failers
  <2>2. TypeOK
    <3>1. stage \in Stages /\ failing \in FailSteps /\ control \in 0..ControlCap
      BY DEF Stages, FailSteps
    <3>2. mine \in [Requesters -> 0..MaxId] /\ nextID \in 0..MaxId
      OBVIOUS
    <3> QED BY <2>1, <3>1, <3>2 DEF TypeOK, PcType, Pcs
  <2> QED BY <2>1, <2>2 DEF Types, NoMsg, Msg
<1>2. FailOrder /\ Owned /\ Returning /\ ManagerAt /\ OpenIds
  BY DEF FailOrder, Owned, Returning, ManagerAt, OpenIds, Requesters, Failers,
     Ids, Gone
<1>3. NoCallForgotten /\ Honest /\ Loops
  BY DEF NoCallForgotten, Honest, HonestChannel, Loops, Gone, Failers
<1>4. Counted
  <2>1. Used = {}
    BY DEF Used, Requesters
  <2> QED BY <2>1, FS_EmptySet DEF Counted, Requesters, Failers, Given
<1> QED BY <1>1, <1>2, <1>3, <1>4 DEF IInv

LEMMA NextInv == IInv /\ [Next]_vars => IInv'
<1> SUFFICES ASSUME IInv, [Next]_vars PROVE IInv'
  OBVIOUS
<1>1. CASE UNCHANGED vars
  BY <1>1 DEF vars, IInv, Types, TypeOK, PcType, FailOrder, Owned, Returning,
     ManagerAt,
     OpenIds, NoCallForgotten, Honest, HonestChannel, Loops, LoopsLeft, Counted, Used, Pages
<1>2. CASE ManagerStep \/ Close
  BY <1>2, ConnectStep, InitializeStep, InitializedStep, ListPageStep,
     ListedStep,
     JoinStep, CloseStep DEF ManagerStep
<1>3. CASE \E g \in Requesters : CallTool(g) \/ CallStep(g) \/ CtxEnds(g)
  BY <1>3, CallToolStep, SendStep, AwaitReplyStep, AwaitCancelStep, RetireStep,
     CtxEndsStep DEF CallStep
<1>4. CASE \E g \in Failers : FailSwap(g) \/ FailReturn(g)
  BY <1>4, FailSwapStep, FailReturnStep
<1>5. CASE FailStep
  BY <1>5, FailDeliverStep, FailMarkStep, FailCloseStep DEF FailStep
<1>6. CASE RecvStep \/ Control
  BY <1>6, ReceiveStep, DeliverStep, ReceiveErrorStep, ControlStep DEF RecvStep
<1>7. CASE ServerSends \/ HangUp
  BY <1>7, ServerSendsStep, HangUpStep
<1> QED BY <1>1, <1>2, <1>3, <1>4, <1>5, <1>6, <1>7 DEF Next

(* The invariant holds in every reachable state of the connection.           *)
THEOREM Inductive == Spec => []IInv
BY InitInv, NextInv, PTL DEF Spec

(* No call and no goroutine is left behind, however the connection ends      *)
(* (request, fail, runRecvLoop and Close of client.go), for every number of  *)
(* callers, pages, pending requests and control requests.                    *)
THEOREM ClientCollects == Spec => []NothingLeft
<1>1. IInv => NothingLeft
  BY DEF IInv, Types, NothingLeft, CloseCollects, FailOrder, Loops, LoopsLeft,
     Gone
<1> QED BY <1>1, Inductive, PTL

(* Every step of the connection is a step of the call table: a registration  *)
(* opens the next id, an answer of the server answers, the swap of fail()    *)
(* drops the link, a request that retires settles, and nothing else shows.   *)
LEMMA StepImplements ==
  ASSUME IInv, [Next]_vars PROVE [Calls!Next]_(Calls!vars)
<1> USE Constants DEF IInv, callVars, failVars, loopVars, wireVars, Calls!vars
<1>1. ASSUME NEW g \in Requesters, Register(g)
      PROVE  \/ UNCHANGED outcome
             \/ ~closed /\ outcome' = [outcome EXCEPT ![nextID + 1] = "open"]
  BY <1>1 DEF Register, Dead
<1>2. ASSUME UNCHANGED <<closed, answered>>, NEW g \in Requesters, Register(g), nextID < MaxId
      PROVE  [Calls!Next]_(Calls!vars)
  <2>1. nextID + 1 \in Ids /\ outcome[nextID + 1] = "none"
    BY <1>2 DEF Types, TypeOK, Ids, OpenIds
  <2>2. CASE ~closed /\ outcome' = [outcome EXCEPT ![nextID + 1] = "open"]
    BY <1>2, <2>1, <2>2 DEF Calls!Next, Calls!Open
  <2> QED BY <1>1, <1>2, <2>2
<1>3. ASSUME NEW g \in Requesters, Retire(g) PROVE [Calls!Next]_(Calls!vars)
  <2>1. CASE mine[g] = 0
    BY <1>3, <2>1 DEF Retire
  <2>2. CASE mine[g] # 0
    <3>1. mine[g] \in Ids /\ outcome[mine[g]] = "open"
      BY <1>3, <2>2 DEF Retire, Owned, Types, TypeOK, Ids, Busy
    <3>2. PICK o : outcome' = [outcome EXCEPT ![mine[g]] = o]
                   /\ o = (IF ret[g] \in Bodies THEN "reply" ELSE ret[g])
      BY <1>3, <2>2 DEF Retire
    <3>3. /\ o \in Calls!Settled
          /\ o = "reply" => mine[g] \in answered
          /\ o = "down" => closed
      BY <1>3, <3>2 DEF Retire, Returning, Types, Calls!Settled, Bodies
    <3>4. UNCHANGED <<closed, answered>>
      BY <1>3 DEF Retire
    <3>5. Calls!Settle(mine[g], o)
      BY <3>1, <3>2, <3>3, <3>4 DEF Calls!Settle
    <3> QED BY <3>1, <3>3, <3>5 DEF Calls!Next
  <2> QED BY <2>1, <2>2
<1>4. ASSUME ServerSends PROVE [Calls!Next]_(Calls!vars)
  <2>1. CASE UNCHANGED answered
    BY <1>4, <2>1 DEF ServerSends
  <2>2. CASE \E i \in sent : answered' = answered \cup {i}
    <3>1. PICK i \in sent : answered' = answered \cup {i}
      BY <2>2
    <3>2. i \in Ids /\ outcome[i] # "none"
      BY <3>1 DEF Types, TypeOK, OpenIds, Ids
    <3> QED BY <1>4, <3>1, <3>2 DEF ServerSends, Calls!Next, Calls!Answer
  <2> QED BY <1>4, <2>1, <2>2 DEF ServerSends
<1>5. ASSUME NEW g \in Failers, FailSwap(g) PROVE [Calls!Next]_(Calls!vars)
  BY <1>5 DEF FailSwap, Calls!Next, Calls!Drop
<1>6. CASE Request("initialize", "notify")
  <2>1. nextID < MaxId
    BY <1>6, ClientAssumption DEF Request, Step, Counted, MaxId
  <2> QED BY <1>2, <1>6, <2>1 DEF Request
<1>7. CASE ListPage
  <2>1. nextID < MaxId
    BY <1>7, ClientAssumption DEF ListPage, ManagerRests, Counted, MaxId,
       Pages, Types, TypeOK
  <2> QED BY <1>2, <1>7, <2>1 DEF ListPage
<1>8. ASSUME NEW g \in Requesters, CallTool(g) PROVE [Calls!Next]_(Calls!vars)
  <2>1. nextID < MaxId
    <3>1. Cardinality(Used) \in Nat /\ Cardinality(Used) < Cardinality(Callers)
      BY <1>8, UnusedCaller DEF CallTool
    <3> QED BY <3>1, ClientAssumption DEF Counted, MaxId, Types, TypeOK
  <2> QED BY <1>2, <1>8, <2>1 DEF CallTool
<1>9. CASE UNCHANGED <<closed, answered, outcome>>
  BY <1>9
<1> QED
  <2>1. CASE ManagerStep \/ Close
    BY <1>6, <1>7, <1>9, <2>1 DEF ManagerStep, Close, Connect, Initialized,
       Listed, Join
  <2>2. CASE \E g \in Requesters : CallTool(g) \/ CallStep(g) \/ CtxEnds(g)
    BY <1>3, <1>8, <1>9, <2>2 DEF CallStep, Send, AwaitReply, AwaitCancel,
       CtxEnds
  <2>3. CASE \E g \in Failers : FailSwap(g) \/ FailReturn(g)
    BY <1>5, <1>9, <2>3 DEF FailReturn
  <2>4. CASE FailStep
    BY <1>9, <2>4 DEF FailStep, FailDeliver, FailMark, FailClose
  <2>5. CASE RecvStep \/ Control
    BY <1>9, <2>5 DEF RecvStep, Receive, Deliver, ReceiveError, Control
  <2>6. CASE ServerSends \/ HangUp
    BY <1>4, <1>9, <2>6 DEF HangUp
  <2>7. CASE UNCHANGED vars
    BY <1>9, <2>7 DEF vars
  <2> QED BY <2>1, <2>2, <2>3, <2>4, <2>5, <2>6, <2>7 DEF Next

(* The connection implements the call table (request, fail and               *)
(* dispatchResponse of client.go): every request returns once, with the      *)
(* answer to this very request, its cancellation, or because the link fell.  *)
THEOREM ClientImplements == Spec => ImplementsCallTable
<1>1. Init => Calls!Init
  BY DEF Init, Calls!Init
<1>2. ASSUME IInv, [Next]_vars PROVE [Calls!Next]_(Calls!vars)
  BY <1>2, StepImplements
<1> QED BY <1>1, <1>2, Inductive, PTL DEF Spec, ImplementsCallTable, Calls!Spec
=============================================================================
