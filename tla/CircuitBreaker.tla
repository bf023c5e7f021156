--------------------------- MODULE CircuitBreaker ---------------------------
(***************************************************************************)
(* The per-model circuit breaker of gateway/resilience.py as operators on  *)
(* its three fields.  The methods never await, so each is one atomic step  *)
(* of the gateway call that makes it.                                      *)
(***************************************************************************)
EXTENDS Naturals

CONSTANTS Threshold,  \* failure_threshold
          Cooldown,   \* cooldown_s in clock units
          None        \* Python None

ASSUME BreakerAssumption == Threshold \in Nat \ {0} /\ Cooldown \in Nat /\ None \notin Nat

Breaker == [failures : Nat, opened : Nat \cup {None}, probe : BOOLEAN]

Closed == [failures |-> 0, opened |-> None, probe |-> FALSE]

state(b, now) ==
    CASE b.opened = None -> "closed"
      [] b.opened # None /\ now >= b.opened + Cooldown -> "half_open"
      [] OTHER -> "open"

\* allow() answers TRUE; a half-open breaker lets one probe through ...
allow(b, now) ==
    \/ state(b, now) = "closed"
    \/ state(b, now) = "half_open" /\ ~b.probe

\* ... and remembers that it is under way.
admitted(b, now) ==
    [failures |-> b.failures, opened |-> b.opened,
     probe |-> b.probe \/ state(b, now) = "half_open"]

\* Mutant: the failures seen before the success still count.
ForgetfulSuccess(b) == [failures |-> b.failures, opened |-> None, probe |-> FALSE]

record_success(b) == Closed

\* Mutant: a failure leaves the probe's mark.
StickyFailure(b, now) ==
    [failures |-> b.failures + 1,
     opened |-> IF b.opened # None \/ b.failures + 1 >= Threshold THEN now ELSE None,
     probe |-> b.probe]

record_failure(b, now) ==
    [failures |-> b.failures + 1,
     opened |-> IF b.opened # None \/ b.failures + 1 >= Threshold THEN now ELSE None,
     probe |-> FALSE]
=============================================================================
