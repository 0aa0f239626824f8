--------------------------- MODULE MCSessionRunner ---------------------------
EXTENDS SessionRunner, TLC

CONSTANTS c1, c2, c3, s1, s2, s3, t1, t2

MCSymmetry == Permutations(Callers) \cup Permutations(Turns)

(* What no later step and no property reads is left out of a state: the        *)
(* fields of a call that its place in the code has done with, the gauge once it *)
(* is excused, the runners collected once Shutdown has returned.               *)
When(b, x) == IF b THEN x ELSE <<>>
Fields(c) ==
  <<When(pc[c] # "idle", op[c]),
    When(pc[c] # "idle" /\ op[c] \notin {"cancelAgent", "shutdown"}, sid[c]),
    When(pc[c] \in TurnPCs \cup {"reserve", "register"}, turn[c]),
    When(pc[c] \in {"tsend", "twait", "tdrain"}, cancelled[c]),
    When(pc[c] \in {"lookup", "send", "wait"} /\ op[c] = "delete", lastState[c]),
    When(pc[c] \in {"wait", "twait", "tdrain", "delstop"}, reply[c])>>
MCView == <<closed, mem, indexed, listed, hasTurns, active, store, runVars, pc, waits,
            When(~miscounted, gauge), When(shut = "running", toStop), shut, panicked,
            crossed, stranded, miscounted, callGhosts, [c \in Callers |-> Fields(c)]>>
=============================================================================
