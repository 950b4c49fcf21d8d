-------------------------------- MODULE Delays --------------------------------
(***************************************************************************)
(* The durations the engine computes: Go's wrapping int64 time.Duration,   *)
(* the Retry-After header, the exponential backoff with equal jitter, and  *)
(* the defaults GatePolicy.normalized fills in.                            *)
(***************************************************************************)
EXTENDS Integers

CONSTANTS
  Second,      \* time.Second, in units of the smallest duration
  MaxDuration  \* the largest value of the signed machine word behind Duration

ASSUME DurationAssumption ==
  /\ Second \in Nat \ {0}
  /\ MaxDuration \in Nat
  /\ 30 * Second <= MaxDuration

\* Two's complement arithmetic on the word -(MaxDuration + 1) .. MaxDuration.
Wrap(x) ==
  ((x + MaxDuration + 1) % (2 * (MaxDuration + 1))) - (MaxDuration + 1)

\* A Retry-After header: absent, a number of seconds, an HTTP date (v is its
\* distance from now), or text that is neither.
HeaderForms == {"absent", "seconds", "date", "junk"}
NoHeader == [form |-> "absent", v |-> 0]

\* retryAfter: the second result says whether there is a usable header. A
\* negative number of seconds is no date either, so it is ignored.
HasRetryAfter(h) == (h.form = "seconds" /\ h.v >= 0) \/ h.form = "date"

RetryAfter(h) ==
  IF h.form = "seconds" THEN Wrap(h.v * Second)
  ELSE IF h.v < 0 THEN 0 ELSE h.v

\* The delay ExponentialJitter has reached before attempt n: base, doubled (in
\* machine arithmetic) once per earlier attempt while it is below max.
Doubling(base, max, n) ==
  LET d[i \in 1 .. n] ==
        IF i = 1 THEN base
        ELSE IF d[i - 1] < max THEN Wrap(2 * d[i - 1]) ELSE d[i - 1]
  IN d[n]

\* Go's division truncates towards zero.
Half(d) == IF d >= 0 THEN d \div 2 ELSE -((-d) \div 2)

\* Mutated form: the last doubling is not capped.
ExponentialJitterUncapped(base, max, n) ==
  LET half == Half(Doubling(base, max, n)) IN half .. 2 * half

\* The delays ExponentialJitter may return: half of the capped delay and up to as
\* much again. None at all when rand.Int63n panics, its argument not positive.
ExponentialJitter(base, max, n) ==
  LET d == Doubling(base, max, n)
      half == Half(IF d > max THEN max ELSE d)
  IN half .. 2 * half

\* GatePolicy.normalized, field by field.
NormalizedStartWait(d) == IF d < 0 THEN 0 ELSE d
NormalizedRetryWait(d) == IF d = 0 THEN 30 * Second ELSE IF d < 0 THEN 0 ELSE d
NormalizedReleaseJitter(d) == IF d = 0 THEN Second ELSE IF d < 0 THEN 0 ELSE d
===============================================================================
