----------------------------- MODULE LoginPolicies -----------------------------
(* The limits of LoginThrottle and the bounds on its clock.                *)
EXTENDS Integers

CONSTANTS
    Policies,       \* window, block, ttl, cleans: one is chosen initially
    MaxAttempts,    \* MAXIMUM_LOGIN_ATTEMPTS
    MaxTime,        \* bound: the clock stops there
    MaxSessions,    \* bound: sessions ever opened
    MaxLag,         \* bound: ticks between the start of a request and its end
    NoTime

ASSUME ThrottleAssumption ==
    /\ MaxAttempts \in Nat \ {0, 1}
    /\ MaxTime \in Nat
    /\ MaxSessions \in Nat
    /\ MaxLag \in Nat
    /\ NoTime \notin Nat
    /\ Policies \subseteq [window : Nat \ {0}, block : Nat \ {0}, ttl : Nat \ {0},
                           cleans : BOOLEAN]
    (* A window is no longer than the cooldown: 10 and 15 minutes for      *)
    (* learners, 15 and 15 for administrators.                             *)
    /\ \A p \in Policies : p.window <= p.block
=============================================================================
