---------------------------- MODULE McpCallTable ----------------------------
(* What one connection to an MCP server promises its callers, whatever the   *)
(* transport: a request is opened only on a live link, it is settled exactly *)
(* once, with the answer the server gave to this very request, because the   *)
(* link is down, or because its caller gave up, and nothing changes it later.*)
CONSTANT Ids                   \* request ids

VARIABLES link,                \* "up" or "down", for good
          answered,            \* requests the server has answered
          outcome              \* outcome[i]: what the request returned

vars == <<link, answered, outcome>>

Settled == {"reply", "down", "gone"}
Outcomes == {"none", "open"} \cup Settled

Init == /\ link = "up"
        /\ answered = {}
        /\ outcome = [i \in Ids |-> "none"]

Open(i) == /\ link = "up" /\ outcome[i] = "none"
           /\ outcome' = [outcome EXCEPT ![i] = "open"]
           /\ UNCHANGED <<link, answered>>

Answer(i) == /\ outcome[i] # "none"
             /\ answered' = answered \cup {i}
             /\ UNCHANGED <<link, outcome>>

Drop == /\ link' = "down"
        /\ UNCHANGED <<answered, outcome>>

Settle(i, o) == /\ outcome[i] = "open"
                /\ (o = "reply") => (i \in answered)
                /\ (o = "down") => (link = "down")
                /\ outcome' = [outcome EXCEPT ![i] = o]
                /\ UNCHANGED <<link, answered>>

Next == \/ Drop
        \/ \E i \in Ids : \/ Open(i)
                          \/ Answer(i)
                          \/ \E o \in Settled : Settle(i, o)

Spec == Init /\ [][Next]_vars
=============================================================================
