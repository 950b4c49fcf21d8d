----------------------------- MODULE DelaysProofs -----------------------------
(***************************************************************************)
(* ExponentialJitter, for every word size, base, attempt and any max that   *)
(* cannot overflow.  The loop of the code is a recursive function and its   *)
(* reference a power, so the argument is an induction on the attempt; it is *)
(* made by looking at the least attempt that could refute it.               *)
(***************************************************************************)
EXTENDS MCDelays, FiniteSetTheorems, TLAPS

-----------------------------------------------------------------------------
(* Natural numbers.                                                         *)

\* A set of natural numbers that is not empty has a least element.
LEMMA LeastNatural ==
  ASSUME NEW T, T \subseteq Nat, T # {}
  PROVE  \E k \in T : \A j \in T : k <= j
<1> DEFINE R == OpToRel(<, Nat)
<1>1. IsWellFoundedOn(R, Nat)
  BY NatLessThanWellFounded
<1>2. \A j, k \in Nat : j < k => <<j, k>> \in R
  BY DEF OpToRel
<1> HIDE DEF R
<1>3. PICK k \in T : \A j \in T : ~(<<j, k>> \in R)
  BY <1>1, WFMin
<1>4. \A j \in T : ~(j < k)
  BY <1>2, <1>3
<1> QED
  BY <1>4

\* A power of two counts subsets, and a further element doubles their number.
LEMMA PowerDoubles ==
  /\ 2 ^ 0 = 1
  /\ \A k \in Nat : 2 ^ k \in Nat /\ 2 ^ (k + 1) = 2 * 2 ^ k
<1>1. ASSUME NEW k \in Nat
      PROVE  IsFiniteSet(SUBSET (1 .. k)) /\ Cardinality(SUBSET (1 .. k)) = 2 ^ k
  <2>1. IsFiniteSet(1 .. k) /\ Cardinality(1 .. k) = k
    BY FS_Interval
  <2> QED
    BY <2>1, FS_SUBSET
<1>2. 2 ^ 0 = 1
  <2>1. SUBSET (1 .. 0) = {{}}
    OBVIOUS
  <2>2. Cardinality({{}}) = 1
    BY FS_Singleton
  <2> QED
    BY <1>1, <2>1, <2>2
<1>3. ASSUME NEW k \in Nat PROVE 2 ^ k \in Nat /\ 2 ^ (k + 1) = 2 * 2 ^ k
  <2> DEFINE S == SUBSET (1 .. k)
             B == {X \in SUBSET (1 .. (k + 1)) : k + 1 \in X}
             f == [X \in S |-> X \cup {k + 1}]
  <2>1. IsFiniteSet(S) /\ Cardinality(S) = 2 ^ k
    BY <1>1
  <2>2. Cardinality(SUBSET (1 .. (k + 1))) = 2 ^ (k + 1)
    <3>1. k + 1 \in Nat
      OBVIOUS
    <3> HIDE DEF S, B, f
    <3> QED
      BY <1>1, <3>1
  <2>3. SUBSET (1 .. (k + 1)) = S \cup B /\ S \cap B = {}
    <3>1. \A X \in SUBSET (1 .. (k + 1)) : k + 1 \notin X => X \in S
      OBVIOUS
    <3>2. S \subseteq SUBSET (1 .. (k + 1)) /\ \A X \in S : k + 1 \notin X
      OBVIOUS
    <3> QED
      BY <3>1, <3>2
  <2>4. f \in Bijection(S, B)
    <3>1. f \in [S -> B]
      OBVIOUS
    <3>2. \A X, Y \in S : f[X] = f[Y] => X = Y
      <4> SUFFICES ASSUME NEW X \in S, NEW Y \in S, f[X] = f[Y] PROVE X = Y
        OBVIOUS
      <4>1. X \cup {k + 1} = Y \cup {k + 1} /\ k + 1 \notin X /\ k + 1 \notin Y
        OBVIOUS
      <4> QED
        BY <4>1
    <3>3. \A Y \in B : \E X \in S : f[X] = Y
      <4> SUFFICES ASSUME NEW Y \in B PROVE \E X \in S : f[X] = Y
        OBVIOUS
      <4>1. Y \ {k + 1} \in S /\ (Y \ {k + 1}) \cup {k + 1} = Y
        OBVIOUS
      <4> QED
        BY <4>1
    <3> QED
      BY <3>1, <3>2, <3>3 DEF Bijection, Injection, Surjection, IsInjective
  <2>5. IsFiniteSet(B) /\ Cardinality(B) = 2 ^ k
    BY <2>1, <2>4, FS_Bijection DEF ExistsBijection
  <2>6. 2 ^ k \in Nat
    BY <2>1, FS_CardinalityType
  <2> HIDE DEF S, B
  <2>7. Cardinality(S \cup B) = Cardinality(S) + Cardinality(B) - Cardinality(S \cap B)
    BY <2>1, <2>5, FS_Union
  <2>8. 2 ^ (k + 1) = Cardinality(S) + Cardinality(B) - 0
    BY <2>2, <2>3, <2>7, FS_EmptySet
  <2>9. ASSUME NEW p \in Nat, Cardinality(S) = p, Cardinality(B) = p
        PROVE  Cardinality(S) + Cardinality(B) - 0 = 2 * p
    BY ONLY <2>9
  <2> QED
    BY <2>1, <2>5, <2>6, <2>8, <2>9
<1> QED
  BY <1>2, <1>3

-----------------------------------------------------------------------------
(* The doubling loop.                                                       *)

\* The delays before each attempt, as the loop of ExponentialJitter computes them.
IsDoubling(d, b, m, last) ==
  d = [i \in 1 .. last |->
         IF i = 1 THEN b
         ELSE IF d[i - 1] < m THEN Wrap(2 * d[i - 1]) ELSE d[i - 1]]

\* The loop computes something for any number of attempts.
LEMMA DoublingExists ==
  ASSUME NEW b, NEW m, NEW last \in Nat
  PROVE  \E d : IsDoubling(d, b, m, last)
<1> DEFINE T == {k \in Nat : ~\E d : IsDoubling(d, b, m, k)}
<1> SUFFICES ASSUME T # {} PROVE FALSE
  OBVIOUS
<1>1. PICK k \in T : \A j \in T : k <= j
  BY LeastNatural
<1>2. k \in Nat /\ ~\E d : IsDoubling(d, b, m, k)
  OBVIOUS
<1>3. CASE k = 0
  <2>1. IsDoubling([i \in 1 .. 0 |-> b], b, m, 0)
    BY DEF IsDoubling
  <2> QED
    BY <1>2, <1>3, <2>1
<1>4. CASE k # 0
  <2>1. k - 1 \in Nat /\ k - 1 \notin T
    BY <1>1, <1>2, <1>4
  <2>2. PICK d : IsDoubling(d, b, m, k - 1)
    BY <2>1
  <2> DEFINE e == [i \in 1 .. k |->
                     IF i < k THEN d[i]
                     ELSE IF k = 1 THEN b
                     ELSE IF d[k - 1] < m THEN Wrap(2 * d[k - 1]) ELSE d[k - 1]]
  <2>3. \A i \in 1 .. (k - 1) :
          d[i] = IF i = 1 THEN b ELSE IF d[i - 1] < m THEN Wrap(2 * d[i - 1]) ELSE d[i - 1]
    BY <2>2 DEF IsDoubling
  <2>4. \A i \in 1 .. k :
          e[i] = IF i = 1 THEN b ELSE IF e[i - 1] < m THEN Wrap(2 * e[i - 1]) ELSE e[i - 1]
    <3> SUFFICES ASSUME NEW i \in 1 .. k
                 PROVE  e[i] = IF i = 1 THEN b
                               ELSE IF e[i - 1] < m THEN Wrap(2 * e[i - 1]) ELSE e[i - 1]
      OBVIOUS
    <3>1. i # 1 => i - 1 \in 1 .. k /\ i - 1 < k /\ e[i - 1] = d[i - 1]
      BY <1>2
    <3>2. CASE i < k
      BY <1>2, <2>3, <3>1, <3>2
    <3>3. CASE i = k
      BY <1>2, <3>1, <3>3
    <3> QED
      BY <1>2, <3>2, <3>3
  <2>5. e = [i \in 1 .. k |-> e[i]]
    OBVIOUS
  <2> HIDE DEF e
  <2>6. IsDoubling(e, b, m, k)
    BY <2>4, <2>5 DEF IsDoubling
  <2> QED
    BY <1>2, <2>6
<1> QED
  BY <1>3, <1>4

\* Doubling is the last of these delays.
LEMMA DoublingIsLast ==
  ASSUME NEW b, NEW m, NEW last \in Nat
  PROVE  \E d : IsDoubling(d, b, m, last) /\ Doubling(b, m, last) = d[last]
<1> DEFINE d == CHOOSE x : IsDoubling(x, b, m, last)
<1>1. IsDoubling(d, b, m, last)
  BY DoublingExists
<1>2. Doubling(b, m, last) = d[last]
  BY DEF Doubling, IsDoubling
<1> QED
  BY <1>1, <1>2

\* A value in range is not changed by machine arithmetic.
LEMMA WrapIdentity ==
  ASSUME NEW x \in 0 .. MaxDuration
  PROVE  Wrap(x) = x
<1>1. MaxDuration \in Nat /\ x \in Nat /\ x <= MaxDuration
  BY DurationAssumption
<1>2. (x + MaxDuration + 1) % (2 * (MaxDuration + 1)) = x + MaxDuration + 1
  BY <1>1
<1> QED
  BY <1>1, <1>2 DEF Wrap

\* The reference doubles with every attempt.
LEMMA ReferenceDoubles ==
  ASSUME NEW b \in Nat, NEW k \in Nat
  PROVE  b * 2 ^ k \in Nat /\ b * 2 ^ (k + 1) = 2 * (b * 2 ^ k)
<1>1. 2 ^ k \in Nat /\ 2 ^ (k + 1) = 2 * 2 ^ k
  BY PowerDoubles
<1>2. ASSUME NEW p \in Nat PROVE b * p \in Nat /\ b * (2 * p) = 2 * (b * p)
  OBVIOUS
<1> QED
  BY <1>1, <1>2

\* While the loop is below max it agrees with the reference, and once it is not, both
\* are past max; it never leaves the range of Duration.
LEMMA LoopMatchesReference ==
  ASSUME NEW b \in 0 .. MaxDuration, NEW m \in 0 .. Half(MaxDuration + 1),
         NEW last \in Nat, NEW d, IsDoubling(d, b, m, last), NEW i \in 1 .. last
  PROVE  /\ d[i] \in 0 .. MaxDuration
         /\ d[i] = b * 2 ^ (i - 1) \/ (d[i] >= m /\ b * 2 ^ (i - 1) >= m)
<1> DEFINE P(j) == /\ d[j] \in 0 .. MaxDuration
                   /\ d[j] = b * 2 ^ (j - 1) \/ (d[j] >= m /\ b * 2 ^ (j - 1) >= m)
           T == {j \in 1 .. last : ~P(j)}
<1> SUFFICES ASSUME T # {} PROVE FALSE
  OBVIOUS
<1>1. MaxDuration \in Nat /\ m \in Nat /\ 2 * m <= MaxDuration + 1 /\ b \in Nat
  BY DurationAssumption DEF Half
<1>2. PICK k \in T : \A j \in T : k <= j
  <2>1. T \subseteq Nat
    OBVIOUS
  <2> HIDE DEF T
  <2> QED
    BY <2>1, LeastNatural
<1>3. k \in 1 .. last /\ ~P(k) /\ \A j \in 1 .. last : j < k => P(j)
  BY <1>2
<1>4. d[k] = IF k = 1 THEN b ELSE IF d[k - 1] < m THEN Wrap(2 * d[k - 1]) ELSE d[k - 1]
  BY <1>3 DEF IsDoubling
<1> HIDE DEF T
<1>5. CASE k = 1
  <2>1. d[1] = b /\ b * 2 ^ (1 - 1) = b
    BY <1>1, <1>4, <1>5, PowerDoubles
  <2> QED
    BY <1>3, <1>5, <2>1
<1>6. CASE k # 1
  <2>1. /\ k - 1 \in 1 .. last /\ k - 2 \in Nat /\ k - 1 < k
        /\ (k - 2) + 1 = k - 1 /\ (k - 1) - 1 = k - 2
    BY <1>3, <1>6
  <2>2. P(k - 1)
    BY <1>3, <2>1
  <2> DEFINE r == b * 2 ^ (k - 2)
             x == d[k - 1]
  <2>3. r \in Nat /\ b * 2 ^ (k - 1) = 2 * r
    BY <1>1, <2>1, ReferenceDoubles
  <2>4. x \in 0 .. MaxDuration /\ (x = r \/ (x >= m /\ r >= m))
    BY <2>1, <2>2
  <2>5. d[k] = IF x < m THEN Wrap(2 * x) ELSE x
    BY <1>4, <1>6
  <2> HIDE DEF r, x
  <2>6. CASE x < m
    <3>1. 2 * x \in 0 .. MaxDuration /\ x = r
      BY <1>1, <2>3, <2>4, <2>6
    <3>2. d[k] = 2 * r
      BY <2>5, <2>6, <3>1, WrapIdentity
    <3> QED
      BY <1>3, <2>3, <3>1, <3>2
  <2>7. CASE ~(x < m)
    <3>1. d[k] = x /\ x >= m /\ 2 * r >= m
      BY <1>1, <2>3, <2>4, <2>5, <2>7
    <3> QED
      BY <1>3, <2>3, <2>4, <3>1
  <2> QED
    BY <2>6, <2>7
<1> QED
  BY <1>5, <1>6

-----------------------------------------------------------------------------
(* The delays.                                                              *)

\* ExponentialJitter with a max of up to half the range of Duration has a delay to
\* return (rand.Int63n does not panic, nothing wraps), never more than
\* min(base * 2^(n-1), max) and never less than half of it.
THEOREM JitterBounds ==
  ASSUME NEW b \in 0 .. MaxDuration, NEW m \in 0 .. Half(MaxDuration + 1),
         NEW k \in Nat \ {0},
         NEW r, r = IF b * 2 ^ (k - 1) > m THEN m ELSE b * 2 ^ (k - 1)
  PROVE  /\ ExponentialJitter(b, m, k) # {}
         /\ \A x \in ExponentialJitter(b, m, k) : x \in Nat /\ x <= r /\ x >= Half(r)
<1>1. PICK d : IsDoubling(d, b, m, k) /\ Doubling(b, m, k) = d[k]
  BY DoublingIsLast
<1>2. k \in 1 .. k /\ m \in Nat /\ b \in Nat /\ k - 1 \in Nat
  BY DurationAssumption DEF Half
<1>3. /\ d[k] \in 0 .. MaxDuration
      /\ d[k] = b * 2 ^ (k - 1) \/ (d[k] >= m /\ b * 2 ^ (k - 1) >= m)
  BY <1>1, <1>2, LoopMatchesReference
<1>4. b * 2 ^ (k - 1) \in Nat
  BY <1>2, ReferenceDoubles
<1>5. r \in Nat /\ r = IF Doubling(b, m, k) > m THEN m ELSE Doubling(b, m, k)
  BY <1>1, <1>2, <1>3, <1>4, DurationAssumption
<1>6. ExponentialJitter(b, m, k) = Half(r) .. 2 * Half(r)
  BY <1>5 DEF ExponentialJitter
<1>7. Half(r) \in Nat /\ 2 * Half(r) <= r
  BY <1>5 DEF Half
<1> QED
  BY <1>5, <1>6, <1>7

\* The property the run looks at, for any word size, bases and number of attempts.
THEOREM JitterSafety == Spec => []JitterWithinReference
<1> DEFINE Inv == base \in Bases /\ max \in 0 .. Half(MaxDuration + 1) /\ n \in Nat \ {0}
<1>1. Init => Inv
  BY DEF Init
<1>2. Inv /\ [NextAttempt]_<<base, max, n>> => Inv'
  BY DEF NextAttempt
<1>3. Inv => JitterWithinReference
  <2> SUFFICES ASSUME Inv PROVE JitterWithinReference
    OBVIOUS
  <2>1. base \in 0 .. MaxDuration
    BY BasesAssumption
  <2> QED
    BY <2>1, JitterBounds DEF JitterWithinReference, Capped
<1> QED
  BY <1>1, <1>2, <1>3, PTL DEF Spec
=============================================================================
