----------------------------- MODULE MCAgentTurn -----------------------------
(* Instances of AgentTurn for TLC.                                           *)
EXTENDS AgentTurn

(* "longname" stands for a name of more than 64 bytes, "mcp.fs" for the name   *)
(* of an MCP tool: both have a hash for an alias.                            *)
MCAlias == [a \in Names \cup {"t_mcp", "t_long"} |->
               IF a = "mcp.fs" THEN "t_mcp" ELSE IF a = "longname" THEN "t_long" ELSE a]

Text == [text |-> TRUE, calls |-> <<>>]
Say(cs) == [text |-> FALSE, calls |-> cs]
One(a) == <<[id |-> 1, wire |-> a]>>
Two(a, b, id) == <<[id |-> 1, wire |-> a], [id |-> id, wire |-> b]>>

(* An answer, nothing at all, two calls (one of a tool that may be gone), two  *)
(* calls with one id, an answer with a call of the one that may be gone, and a  *)
(* call whose unit Session refuses for the dot in the name, after it has run.   *)
MCReplies == {Text, Say(<<>>), Say(Two("shell", "t_long", 2)), Say(Two("shell", "shell", 1)),
              [text |-> TRUE, calls |-> One("t_long")], Say(One("t_mcp"))}

Past(k, r, cs, c) == [role |-> r, turn |-> k, calls |-> cs, call |-> c]
Plain(k) == <<Past(k, "user", <<>>, 0), Past(k, "assistant", <<>>, 0)>>
WithTool(k) == <<Past(k, "user", <<>>, 0), Past(k, "assistant", <<[id |-> 1, name |-> "longname"]>>, 0),
                 Past(k, "tool", <<>>, 1), Past(k, "assistant", <<>>, 0)>>
MCPasts == {Plain(1) \o WithTool(2) \o Plain(3)}

AllModes == [stream : BOOLEAN, planned : BOOLEAN]
=============================================================================
