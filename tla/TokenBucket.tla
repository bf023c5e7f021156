---------------------------- MODULE TokenBucket ----------------------------
(***************************************************************************)
(* The arithmetic of the rate limiter (ratelimit.py): the Lua script that  *)
(* refills and takes in one atomic step of Redis.  Time is in ticks and    *)
(* tokens in units, Rate units a tick; a request costs Cost units, so that *)
(* a rate of less than one request a tick stays an integer.                *)
(***************************************************************************)
EXTENDS Integers

CONSTANTS
    Rate, Burst, Cost,
    Idle,     \* the EXPIRE of the key, in ticks: ceil(burst / rate) + 60 seconds
    MaxSkew   \* how far the clocks of two API processes are apart

ASSUME BucketAssumption ==
    /\ Rate \in Nat \ {0} /\ Burst \in Nat /\ Cost \in Nat \ {0}
    /\ Idle \in Nat /\ MaxSkew \in Nat
\* Twice the difference of the clocks is less than the 60 seconds.
ASSUME IdleAssumption == Rate * (Idle - 2 * MaxSkew) >= Burst

Bucket == [tokens : Int, ts : Int]

\* A key that Redis does not hold counts as a full bucket.
Full(now) == [tokens |-> Burst, ts |-> now]

\* Mutant: the refill is not capped by the size of the bucket.
Overfilled(b, now) == b.tokens + (now - b.ts) * Rate

\* The clocks of two API processes differ, so now may be before ts.
Refilled(b, now) ==
    LET more == b.tokens + (now - b.ts) * Rate IN
    IF more < Burst THEN more ELSE Burst

Allows(b, now) == Refilled(b, now) >= Cost

After(b, now) ==
    [tokens |-> IF Allows(b, now) THEN Refilled(b, now) - Cost ELSE Refilled(b, now),
     ts |-> now]
=============================================================================
