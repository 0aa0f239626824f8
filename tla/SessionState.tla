---------------------------- MODULE SessionState ----------------------------
(* The life cycle of a session as pure operators (internal/session/state.go *)
(* and the policy check of snapshot.go).  Durations and instants are numbers *)
(* of one unit (the minute, the least positive TTL and lifetime).            *)
EXTENDS Naturals

States == {"created", "active", "paused", "closed"}

transitions == [created |-> {"active", "paused", "closed"},
                active  |-> {"paused", "closed"},
                paused  |-> {"active", "closed"},
                closed  |-> {}]

CanTransition(from, to) == to \in transitions[from]

(* A policy [ttl, life] with 0 for "disabled"; a session is a record with    *)
(* st, createdAt, lastActivity and policy.  max_lifetime goes before TTL.    *)
ValidPolicy(p) == p.ttl > 0 /\ p.life > 0 => p.life >= p.ttl
LifetimeOver(s, now) == s.policy.life > 0 /\ now >= s.createdAt + s.policy.life
IdleTooLong(s, now) == /\ s.policy.ttl > 0 /\ s.st \in {"created", "active"}
                       /\ now >= s.lastActivity + s.policy.ttl

DesiredState(s, now) == CASE LifetimeOver(s, now) -> "closed"
                          [] ~LifetimeOver(s, now) /\ IdleTooLong(s, now) -> "paused"
                          [] OTHER -> s.st

(* stateAllowed: the states in which an operation is accepted.  The case     *)
(* "run_turn" exists in the code, but nothing calls it.                      *)
AllowedIn(op) ==
  CASE op = "run_turn" -> {"created", "active"}
    [] op = "pause" -> {"active"}
    [] op = "resume" -> {"paused"}
    [] op \in {"delete_message", "clear_messages"} -> States \ {"closed"}
    [] op \in {"close", "delete"} -> States
StateAllowed(op, st) == st \in AllowedIn(op)
=============================================================================
