------------------------------ MODULE Runtime -------------------------------
(***************************************************************************)
(* What the in-memory stores share: the clock and the user ids.  Time      *)
(* passes between any two steps; a critical section reads one time.        *)
(***************************************************************************)
EXTENDS Integers, Maps

CONSTANTS
    MaxTime,  \* bound on the clock
    Users     \* user ids

ASSUME ClockAssumption == MaxTime \in Nat

VARIABLE now       \* time.Now()

Tick == now < MaxTime /\ now' = now + 1

\* time.Now().After(deadline)
Expired(deadline) == now > deadline

\* Slip: a clean-up that compares the wrong way at the deadline's own tick.
CleanExpiredEarly(m) ==
    Without(m, {k \in DOMAIN m : now >= m[k].expiresAt})

\* cleanExpiredCodesLocked, cleanExpiredRefreshLocked, cleanExpiredLocked
CleanExpired(m) == Without(m, {k \in DOMAIN m : Expired(m[k].expiresAt)})
=============================================================================
