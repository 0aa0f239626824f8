------------------------- MODULE MCSessionLifecycle -------------------------
(* Policies of the instance: with both limits and persistent, with a TTL     *)
(* only and in memory, and one that Create refuses (a TTL beyond the life).   *)
EXTENDS SessionLifecycle
MCPolicies == {[ttl |-> 1, life |-> 2, persist |-> TRUE],
               [ttl |-> 1, life |-> 0, persist |-> FALSE],
               [ttl |-> 2, life |-> 1, persist |-> TRUE]}
MCCalls == {1, 2}
MCSids == {1}
=============================================================================
