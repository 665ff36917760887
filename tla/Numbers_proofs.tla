---------------------------- MODULE Numbers_proofs ----------------------------
(***************************************************************************)
(* Facts about numbers, remainders and counting that the proofs about the  *)
(* components share.                                                       *)
(***************************************************************************)
EXTENDS Integers, TLAPS, SequenceTheorems, FiniteSetTheorems,
        WellFoundedInduction, NaturalsInduction

(***************************************************************************)
(* Numbers.                                                                *)
(***************************************************************************)
\* A nonempty set of numbers has a least.
LEMMA HasLeast == ASSUME NEW S \in SUBSET Nat, S # {}
                  PROVE  \E i \in S : \A j \in S : i <= j
  <1> DEFINE Less == {ss \in Nat \X Nat : ss[1] < ss[2]}
  <1>1. OpToRel(<, Nat) = Less
    BY DEF OpToRel
  <1>2. IsWellFoundedOn(Less, Nat)
    BY <1>1, NatLessThanWellFounded
  <1>3. \E x \in S : \A y \in S : ~ (<<y, x>> \in Less)
    <2> HIDE DEF Less
    <2> QED BY <1>2, WFMin
  <1>4. ASSUME NEW x \in S, NEW y \in S, ~ (<<y, x>> \in Less) PROVE x <= y
    BY <1>4
  <1> QED BY <1>3, <1>4

(***************************************************************************)
(* Remainders.                                                             *)
(***************************************************************************)
\* Division with remainder.
LEMMA RemainderIs == ASSUME NEW d \in Nat \ {0}, NEW n \in Nat
                     PROVE  /\ n % d \in 0 .. d - 1 /\ n % d \in Nat /\ n \div d \in Int
                            /\ n = d * (n \div d) + (n % d)
  <1>1. n % d \in 0 .. d - 1
    BY SMT
  <1>2. n = d * (n \div d) + (n % d)
    BY SMT
  <1>3. n \div d \in Int
    BY SMT
  <1> QED BY <1>1, <1>2, <1>3

\* The remainder is the only one.
LEMMA RemainderIsThis ==
    ASSUME NEW d \in Nat \ {0}, NEW n \in Int, NEW q \in Int, NEW r \in 0 .. d - 1, n = d * q + r
    PROVE  n % d = r
  BY SMT

\* Numbers closer than the divisor have remainders of their own.
LEMMA RemaindersDiffer == ASSUME NEW d \in Nat \ {0}, NEW m \in Nat, NEW n \in Nat, m < n, n - m < d
                          PROVE  m % d # n % d
  <1> SUFFICES ASSUME m % d = n % d PROVE FALSE
    OBVIOUS
  <1> DEFINE p == m \div d
             q == n \div d
             r == m % d
  <1>1. p \in Int /\ q \in Int /\ r \in Nat /\ m = d * p + r /\ n = d * q + r
    BY RemainderIs
  <1> HIDE DEF p, q, r
  <1>2. n - m = d * (q - p)
    BY <1>1, SMT
  <1>3. q - p >= 1
    BY <1>1, <1>2, SMT
  <1> QED BY <1>1, <1>2, <1>3, SMT

\* What a reader adds to stay above zero is not seen in the remainder.
LEMMA RemainderOfMore == ASSUME NEW d \in Nat \ {0}, NEW n \in Nat
                         PROVE  (n + 2 * d) % d = n % d
  <1> DEFINE q == n \div d
             r == n % d
  <1>1. q \in Int /\ r \in 0 .. d - 1 /\ n = d * q + r
    BY RemainderIs
  <1> HIDE DEF q, r
  <1>2. n + 2 * d = d * (q + 2) + r /\ n + 2 * d \in Int /\ q + 2 \in Int
    BY <1>1, SMT
  <1> QED BY <1>1, <1>2, RemainderIsThis DEF r

\* Every later number has the remainder of one of the d after h, and of one no later than it.
LEMMA RemainderIsNear == ASSUME NEW d \in Nat \ {0}, NEW h \in Nat, NEW m \in Nat, h < m
                         PROVE  \E i \in 1 .. d : i <= m - h /\ (h + i) % d = m % d
  <1>1. m - h - 1 \in Nat
    OBVIOUS
  <1>2. PICK q \in Int, w \in 0 .. d - 1 : m - h - 1 = d * q + w
    <2>1. /\ (m - h - 1) \div d \in Int /\ (m - h - 1) % d \in 0 .. d - 1
          /\ m - h - 1 = d * ((m - h - 1) \div d) + ((m - h - 1) % d)
      BY <1>1, RemainderIs
    <2> QED BY <2>1, Zenon
  <1>3. PICK p \in Int, r \in 0 .. d - 1 : m = d * p + r
    <2>1. m \div d \in Int /\ m % d \in 0 .. d - 1 /\ m = d * (m \div d) + (m % d)
      BY RemainderIs
    <2> QED BY <2>1, Zenon
  <1>4. m % d = r
    BY <1>3, RemainderIsThis
  <1>5. q >= 0
    BY <1>1, <1>2, SMT
  <1>6. d * q >= 0 /\ d * q \in Int
    BY <1>5, SMT
  <1>7. w + 1 \in 1 .. d /\ h + (w + 1) = m - d * q /\ w + 1 <= m - h
    <2> DEFINE dq == d * q
    <2>1. dq >= 0 /\ dq \in Int /\ m - h - 1 = dq + w
      BY <1>2, <1>6
    <2> HIDE DEF dq
    <2>2. w + 1 \in 1 .. d /\ h + (w + 1) = m - dq /\ w + 1 <= m - h
      BY <2>1
    <2> QED BY <2>2 DEF dq
  <1>8. h + (w + 1) = d * (p - q) + r /\ h + (w + 1) \in Int /\ p - q \in Int
    BY <1>3, <1>7, SMT
  <1>9. (h + (w + 1)) % d = r
    BY <1>8, RemainderIsThis
  <1> QED BY <1>4, <1>7, <1>9

\* Counting one more.
LEMMA CountedOnce == ASSUME NEW n \in Nat, NEW S \in SUBSET (1 .. n)
                     PROVE  /\ Cardinality(S) \in Nat /\ Cardinality(S) <= n
                            /\ Cardinality(S \cup {n + 1}) = Cardinality(S) + 1
  <1>1. IsFiniteSet(1 .. n) /\ Cardinality(1 .. n) = n
    BY FS_Interval
  <1>2. IsFiniteSet(S) /\ Cardinality(S) <= n
    BY <1>1, FS_Subset
  <1>3. n + 1 \notin S
    OBVIOUS
  <1> QED BY <1>2, <1>3, FS_AddElement, FS_CardinalityType
===============================================================================
