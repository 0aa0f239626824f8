----------------------------- MODULE MCMemory ------------------------------
(* One caller that changes the memory, one that searches it while it writes. *)
EXTENDS Memory
MCIssues == [a |-> {"put", "promote", "delete", "clear", "reindex"},
             b |-> {"put", "search"}, w |-> {"expire"}]
=============================================================================
