------------------------------- MODULE MCDelays -------------------------------
(***************************************************************************)
(* ExponentialJitter against its reference definition, on the bases given  *)
(* and every max a Duration holds up to the largest that cannot overflow,  *)
(* over the attempts of one call.                                          *)
(***************************************************************************)
EXTENDS Delays

CONSTANTS
  Bases, \* the base delays looked at
  MaxN   \* the last attempt looked at

ASSUME BasesAssumption == Bases \subseteq 0 .. MaxDuration

VARIABLES base, max, n

Init == base \in Bases /\ max \in 0 .. Half(MaxDuration + 1) /\ n = 1

NextAttempt == n < MaxN /\ n' = n + 1 /\ UNCHANGED <<base, max>>

Spec == Init /\ [][NextAttempt]_<<base, max, n>>

Capped(x) == IF x > max THEN max ELSE x

\* "Doubles the delay each attempt up to max, then applies equal jitter": for
\* every max up to half the range of Duration there is a delay (rand.Int63n does
\* not panic), it never exceeds min(base * 2^(n-1), max), and it is never less
\* than half of that, rounded down.
JitterWithinReference ==
  LET reference == Capped(base * 2 ^ (n - 1))
      delays == ExponentialJitter(base, max, n)
  IN /\ delays # {}
     /\ \A d \in delays : d <= reference /\ d >= Half(reference)
===============================================================================
