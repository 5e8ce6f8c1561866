---------------------------- MODULE NumberLemmas ----------------------------
(***************************************************************************)
(* Least numbers, remainders for any modulus, and powers of two: what a    *)
(* search from the front finds, what counters and clocks of a fixed width  *)
(* do at their wrap, and how a delay grows that doubles.  The library says *)
(* of powers only how many subsets a finite set has, so the facts about    *)
(* them come from there.                                                   *)
(***************************************************************************)
EXTENDS Integers, FiniteSetTheorems, WellFoundedInduction, TLAPS

\* A set of natural numbers that is not empty has a least element.
LEMMA LeastNumber ==
  ASSUME NEW S, S \subseteq Nat, S # {}
  PROVE  \E m \in S : \A x \in S : m <= x
<1>1. PICK m \in S : \A x \in S : ~ (<<x, m>> \in OpToRel(<, Nat))
  BY WFMin, NatLessThanWellFounded
<1>2. \A x \in S : ~(x < m)
  BY <1>1 DEF OpToRel
<1> QED
  BY <1>2, SMT

\* The number after a: its remainder is one more, or zero.
LEMMA Successor ==
  ASSUME NEW a \in Nat, NEW M \in Nat \ {0}
  PROVE  /\ a % M \in 0..M - 1
         /\ (a + 1) % M = IF a % M = M - 1 THEN 0 ELSE (a % M) + 1
<1> DEFINE q == a \div M
           r == a % M
           p == (a + 1) \div M
           t == (a + 1) % M
<1>1. q \in Int /\ r \in 0..M - 1 /\ a = M * q + r
  BY SMT
<1>2. p \in Int /\ t \in 0..M - 1 /\ a + 1 = M * p + t
  BY SMT
<1> HIDE DEF q, r, p, t
<1>3. M * (p - q) = r + 1 - t
  BY <1>1, <1>2, SMT
<1>4. p - q \in Int /\ p - q < 2 /\ p - q > -1
  <2>1. ASSUME p - q >= 2 PROVE FALSE
    <3>1. M * (p - q) >= M * 2
      BY <1>1, <1>2, <2>1, SMT
    <3> QED
      BY <1>1, <1>2, <1>3, <3>1, SMT
  <2>2. ASSUME p - q <= -1 PROVE FALSE
    <3>1. M * (p - q) <= M * (-1)
      BY <1>1, <1>2, <2>2, SMT
    <3> QED
      BY <1>1, <1>2, <1>3, <3>1, SMT
  <2> QED
    BY <1>1, <1>2, <2>1, <2>2, SMT
<1>5. p - q \in {0, 1}
  BY <1>4, SMT
<1>6. CASE p - q = 0
  <2>1. r + 1 - t = 0
    BY <1>3, <1>6, SMT
  <2> QED
    BY <1>1, <1>2, <2>1, SMT DEF r, t
<1>7. CASE p - q = 1
  <2>1. r + 1 - t = M
    BY <1>3, <1>7, SMT
  <2> QED
    BY <1>1, <1>2, <2>1, SMT DEF r, t
<1> QED
  BY <1>5, <1>6, <1>7

\* A number below M is its own remainder.
LEMMA SmallRemainder ==
  ASSUME NEW M \in Nat \ {0}, NEW r \in 0..M - 1
  PROVE  r % M = r
<1> DEFINE q == r \div M
           t == r % M
<1>1. q \in Int /\ t \in 0..M - 1 /\ r = M * q + t
  BY SMT
<1> HIDE DEF q, t
<1>2. q = 0
  <2>1. ASSUME q >= 1 PROVE FALSE
    <3>1. M * q >= M
      BY <1>1, <2>1, SMT
    <3> QED
      BY <1>1, <3>1, SMT
  <2>2. ASSUME q <= -1 PROVE FALSE
    <3>1. M * q <= M * (-1)
      BY <1>1, <2>2, SMT
    <3> QED
      BY <1>1, <3>1, SMT
  <2> QED
    BY <1>1, <2>1, <2>2, SMT
<1>3. r = t
  BY <1>1, <1>2, SMT
<1> QED
  BY <1>3, Zenon DEF t

\* A number that has passed M once.
LEMMA WrappedRemainder ==
  ASSUME NEW M \in Nat \ {0}, NEW r \in 0..M - 1
  PROVE  (r + M) % M = r
<1> DEFINE q == (r + M) \div M
           t == (r + M) % M
<1>1. q \in Int /\ t \in 0..M - 1 /\ r + M = M * q + t
  BY SMT
<1> HIDE DEF q, t
<1>2. q = 1
  <2>1. ASSUME q >= 2 PROVE FALSE
    <3>1. M * q >= M * 2
      BY <1>1, <2>1, SMT
    <3> QED
      BY <1>1, <3>1, SMT
  <2>2. ASSUME q <= 0 PROVE FALSE
    <3>1. M * q <= M * 0
      BY <1>1, <2>2, SMT
    <3> QED
      BY <1>1, <3>1, SMT
  <2> QED
    BY <1>1, <2>1, <2>2, SMT
<1>3. r = t
  BY <1>1, <1>2, SMT
<1> QED
  BY <1>3, Zenon DEF t

\* The difference of two ticks of a clock modulo M, in unsigned arithmetic.
LEMMA TickDifference ==
  ASSUME NEW M \in Nat \ {0}, NEW now \in 0..M - 1, NEW then \in 0..M - 1
  PROVE  (now + M - then) % M = IF now >= then THEN now - then ELSE now + M - then
<1>1. CASE now >= then
  <2>1. now - then \in 0..M - 1 /\ now + M - then = (now - then) + M
    BY <1>1, SMT
  <2> QED
    BY <1>1, <2>1, WrappedRemainder
<1>2. CASE ~(now >= then)
  <2>1. now + M - then \in 0..M - 1
    BY <1>2, SMT
  <2> QED
    BY <1>2, <2>1, SmallRemainder
<1> QED
  BY <1>1, <1>2

\* The difference grows by one with the clock, until the clock has gone round.
LEMMA TickAdvances ==
  ASSUME NEW M \in Nat \ {0}, NEW now \in 0..M - 1, NEW then \in 0..M - 1
  PROVE  /\ (now + 1) % M \in 0..M - 1
         /\ (now + M - then) % M \in 0..M - 1
         /\ (now + M - then) % M < M - 1 =>
              (((now + 1) % M) + M - then) % M = ((now + M - then) % M) + 1
<1>0. /\ now % M = now /\ now \in Nat /\ now + 1 \in Nat
      /\ (now + 1) % M \in 0..M - 1
  <2>1. now % M = now
    BY SmallRemainder
  <2>2. now \in Nat /\ now + 1 \in Nat
    BY SMT
  <2>3. (now + 1) % M \in 0..M - 1
    BY <2>2, Successor
  <2> QED
    BY <2>1, <2>2, <2>3
<1>1. /\ (now + 1) % M \in 0..M - 1
      /\ (now + 1) % M = IF now = M - 1 THEN 0 ELSE now + 1
  <2>1. (now + 1) % M = IF now % M = M - 1 THEN 0 ELSE (now % M) + 1
    BY <1>0, Successor
  <2> QED
    BY <1>0, <2>1, Zenon
<1>2. /\ (now + M - then) % M = IF now >= then THEN now - then ELSE now + M - then
      /\ (((now + 1) % M) + M - then) % M =
           IF (now + 1) % M >= then THEN ((now + 1) % M) - then ELSE ((now + 1) % M) + M - then
  BY <1>1, TickDifference
<1> DEFINE n == (now + 1) % M
           d == (now + M - then) % M
           e == (n + M - then) % M
<1> HIDE DEF n, d, e
<1>3. /\ n \in 0..M - 1 /\ n = IF now = M - 1 THEN 0 ELSE now + 1
      /\ d = IF now >= then THEN now - then ELSE now + M - then
      /\ e = IF n >= then THEN n - then ELSE n + M - then
  BY <1>1, <1>2, Zenon DEF n, d, e
<1>4. d \in 0..M - 1 /\ (d < M - 1 => e = d + 1)
  BY <1>3, SMT
<1> QED
  BY <1>1, <1>4, Zenon DEF n, d, e

-----------------------------------------------------------------------------
(* Powers of two.                                                          *)

\* A power of two counts the subsets of an interval.
LEMMA PowerCounts ==
  ASSUME NEW n \in Nat
  PROVE  /\ IsFiniteSet(SUBSET (1..n))
         /\ Cardinality(SUBSET (1..n)) = 2^n
         /\ 2^n \in Nat
<1>1. IsFiniteSet(1..n) /\ Cardinality(1..n) = n
  BY FS_Interval
<1>2. IsFiniteSet(SUBSET (1..n)) /\ Cardinality(SUBSET (1..n)) = 2^Cardinality(1..n)
  BY <1>1, FS_SUBSET, Zenon
<1>3. Cardinality(SUBSET (1..n)) \in Nat
  BY <1>2, FS_CardinalityType, Zenon
<1> QED
  BY <1>1, <1>2, <1>3, Zenon

\* The empty interval has one subset.
LEMMA PowerOfZero == 2^0 = 1
<1>1. SUBSET (1..0) = {{}}
  BY SMT
<1>2. Cardinality({{}}) = 1
  BY FS_Singleton, Zenon
<1> QED
  BY <1>1, <1>2, PowerCounts, Zenon

\* The subsets of 1..n + 1 are those of 1..n and those with n + 1 added.
LEMMA PowerDoubles ==
  ASSUME NEW n \in Nat
  PROVE  2^(n + 1) = 2 * 2^n
<1> DEFINE S == SUBSET (1..n)
           T == {A \cup {n + 1} : A \in S}
           f == [A \in S |-> A \cup {n + 1}]
<1>1. n + 1 \in Nat /\ n + 1 \notin 1..n
  OBVIOUS
<1>2. S \cup T = SUBSET (1..n + 1)
  <2>1. 1..n + 1 = (1..n) \cup {n + 1}
    OBVIOUS
  <2>2. ASSUME NEW B \in SUBSET (1..n + 1) PROVE B \in S \cup T
    <3>1. CASE n + 1 \in B
      <4>1. B \ {n + 1} \in S
        BY <2>1, Zenon
      <4>2. B = (B \ {n + 1}) \cup {n + 1}
        BY <3>1
      <4> QED
        BY <4>1, <4>2, Zenon
    <3>2. CASE n + 1 \notin B
      BY <2>1, <3>2, Zenon
    <3> QED
      BY <3>1, <3>2
  <2>3. ASSUME NEW B \in S \cup T PROVE B \in SUBSET (1..n + 1)
    BY <2>1, Zenon
  <2> QED
    BY <2>2, <2>3, Zenon
<1>3. S \cap T = {}
  BY <1>1, Zenon
<1>4. f \in Bijection(S, T)
  <2>1. f \in [S -> T]
    BY Zenon
  <2>2. ASSUME NEW A \in S, NEW B \in S, f[A] = f[B] PROVE A = B
    <3>1. A \cup {n + 1} = B \cup {n + 1}
      BY <2>2, Zenon
    <3>2. n + 1 \notin A /\ n + 1 \notin B
      BY <1>1, Zenon
    <3>3. A \subseteq B /\ B \subseteq A
      BY <3>1, <3>2
    <3> QED
      BY <3>3
  <2>3. ASSUME NEW t \in T PROVE \E A \in S : f[A] = t
    BY Zenon
  <2> QED
    BY <2>1, <2>2, <2>3, Zenon DEF Bijection, Injection, Surjection, IsInjective
<1>5. IsFiniteSet(S) /\ Cardinality(S) = 2^n /\ 2^n \in Nat
  BY PowerCounts, Zenon
<1>6. IsFiniteSet(T) /\ Cardinality(T) = 2^n
  <2>1. ExistsBijection(S, T)
    BY <1>4, Zenon DEF ExistsBijection
  <2> HIDE DEF S, T
  <2> QED
    BY <1>5, <2>1, FS_Bijection
<1>7. Cardinality(S \cup T) = Cardinality(S) + Cardinality(T) - Cardinality({})
  <2> HIDE DEF S, T
  <2>1. Cardinality(S \cup T)
          = Cardinality(S) + Cardinality(T) - Cardinality(S \cap T)
    BY <1>5, <1>6, FS_Union
  <2> QED
    BY <1>3, <2>1, Zenon
<1>8. Cardinality({}) = 0
  BY FS_EmptySet, Zenon
<1>9. Cardinality(S \cup T) = 2^(n + 1)
  BY <1>1, <1>2, PowerCounts, Zenon
<1> HIDE DEF S, T
<1> QED
  BY <1>5, <1>6, <1>7, <1>8, <1>9

\* A power of two is above its exponent.
LEMMA PowerAbove == \A n \in Nat : 2^n \in Nat /\ n < 2^n
<1> DEFINE S == {n \in Nat : ~ (n < 2^n)}
<1> SUFFICES ASSUME S # {} PROVE FALSE
  BY PowerCounts, Zenon
<1>1. PICK m \in S : \A x \in S : m <= x
  BY LeastNumber, Zenon
<1>2. m # 0
  <2>1. 0 < 1
    OBVIOUS
  <2> QED
    BY <2>1, PowerOfZero, Zenon
<1>3. PICK k \in Nat : m = k + 1
  <2>1. m \in Nat
    OBVIOUS
  <2> QED
    BY <1>2, <2>1
<1>4. k \notin S
  BY <1>1, <1>3
<1>5. k < 2^k /\ 2^k \in Nat /\ 2^(k + 1) = 2 * 2^k
  BY <1>4, PowerCounts, PowerDoubles, Zenon
<1>6. k + 1 < 2^(k + 1)
  BY <1>5
<1> QED
  BY <1>3, <1>6, Zenon
=============================================================================
