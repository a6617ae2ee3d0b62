----------------------------- MODULE SharedLemmas -----------------------------
(* What the proofs share.  The slot of a position in a ring of R slots is the  *)
(* remainder of the position: what the rings of this code rely on when they    *)
(* wrap an index.  What holds of 0 and is handed on holds of all numbers.  And *)
(* joining sequences, which a library function does by recursion.              *)
EXTENDS Integers, SequencesExt, SequenceTheorems, WellFoundedInduction, TLAPS

\* A position is so many rounds and a slot.
LEMMA DivideNat ==
  ASSUME NEW a \in Nat, NEW R \in Nat \ {0}
  PROVE  /\ a = R * (a \div R) + (a % R)
         /\ a % R \in 0..(R - 1)
         /\ a \div R \in Nat
BY SMT

\* Rounds and slot are determined by the position.
LEMMA RemainderUnique ==
  ASSUME NEW R \in Nat \ {0}, NEW q1 \in Int, NEW q2 \in Int,
         NEW r1 \in 0..(R - 1), NEW r2 \in 0..(R - 1), R * q1 + r1 = R * q2 + r2
  PROVE  r1 = r2 /\ q1 = q2
<1>1. ASSUME NEW a \in Int, NEW b \in Int, NEW r \in 0..(R - 1), NEW s \in 0..(R - 1),
             R * a + r = R * b + s
      PROVE  ~(a > b)
  <2>1. SUFFICES ASSUME a > b PROVE FALSE
    OBVIOUS
  <2>2. PICK d \in Int : d = a - b
    OBVIOUS
  <2>3. d >= 1
    BY <2>1, <2>2
  <2>4. R * (a - b) = s - r
    BY <1>1, SMT
  <2>5. R * d = s - r
    BY <2>2, <2>4
  <2>6. R * d >= R
    BY <2>3, SMT
  <2> QED
    BY <2>5, <2>6
<1>2. q1 = q2
  <2>1. ~(q1 > q2) /\ ~(q2 > q1)
    BY <1>1
  <2> QED
    BY <2>1
<1> QED
  BY <1>2

\* Positions a multiple of the ring apart share a slot.
LEMMA SameSlot ==
  ASSUME NEW R \in Nat \ {0}, NEW a \in Nat, NEW b \in Nat, NEW k \in Int, a = b + R * k
  PROVE  a % R = b % R
<1>1. /\ a = R * (a \div R) + (a % R) /\ a % R \in 0..(R - 1) /\ a \div R \in Nat
      /\ b = R * (b \div R) + (b % R) /\ b % R \in 0..(R - 1) /\ b \div R \in Nat
  BY DivideNat
<1>2. PICK qa \in Int, qb \in Int, ra \in 0..(R - 1), rb \in 0..(R - 1) :
        qa = a \div R /\ qb = b \div R /\ ra = a % R /\ rb = b % R
  <2>1. /\ a % R \in 0..(R - 1) /\ a \div R \in Int
        /\ b % R \in 0..(R - 1) /\ b \div R \in Int
    BY <1>1
  <2> QED
    BY <2>1, Zenon
<1>3. a = R * qa + ra /\ b = R * qb + rb
  BY <1>1, <1>2
<1>4. R * qa + ra = R * (qb + k) + rb
  BY <1>3, SMT
<1>5. ra = rb
  BY <1>4, RemainderUnique, qb + k \in Int
<1> QED
  BY <1>2, <1>5

\* Positions less than a ring apart do not.
LEMMA OtherSlot ==
  ASSUME NEW R \in Nat \ {0}, NEW a \in Nat, NEW b \in Nat, a < b, b < a + R
  PROVE  a % R # b % R
<1>1. SUFFICES ASSUME a % R = b % R PROVE FALSE
  OBVIOUS
<1>2. /\ a = R * (a \div R) + (a % R) /\ a % R \in 0..(R - 1) /\ a \div R \in Nat
      /\ b = R * (b \div R) + (b % R) /\ b \div R \in Nat
  BY DivideNat
<1>3. PICK qa \in Int, qb \in Int, r \in 0..(R - 1) :
        qa = a \div R /\ qb = b \div R /\ r = a % R
  BY <1>2
<1>4. a = R * qa + r /\ b = R * qb + r
  BY <1>1, <1>2, <1>3
<1>5. PICK d \in Int : d = b - a /\ d \in 0..(R - 1)
  OBVIOUS
<1>6. R * qb + 0 = R * qa + d
  BY <1>4, <1>5, SMT
<1>7. d = 0
  BY <1>6, RemainderUnique, 0 \in 0..(R - 1), <1>5
<1> QED
  BY <1>5, <1>7

\* A slot may be computed from the wrapped index instead of the position.
LEMMA WrappedPlus ==
  ASSUME NEW R \in Nat \ {0}, NEW a \in Nat, NEW n \in Nat
  PROVE  ((a % R) + n) % R = (a + n) % R
<1>1. a = R * (a \div R) + (a % R) /\ a % R \in Nat /\ a \div R \in Nat
  BY DivideNat
<1>2. PICK q \in Int, r \in Nat : q = a \div R /\ r = a % R
  BY <1>1
<1>3. a + n = (r + n) + R * q
  BY <1>1, <1>2
<1>4. (a + n) % R = (r + n) % R
  BY <1>3, SameSlot, a + n \in Nat, r + n \in Nat
<1> QED
  BY <1>2, <1>4

\* So may the slot of an earlier position.
LEMMA WrappedMinus ==
  ASSUME NEW R \in Nat \ {0}, NEW a \in Nat, NEW n \in 0..R, n <= a
  PROVE  ((a % R) + R - n) % R = (a - n) % R
<1>1. a = R * (a \div R) + (a % R) /\ a % R \in Nat /\ a \div R \in Nat
  BY DivideNat
<1>2. PICK q \in Int, r \in Nat : q = a \div R /\ r = a % R
  BY <1>1
<1>3. a = R * q + r
  BY <1>1, <1>2
<1>4. a - n = (r + R - n) + R * (q - 1)
  BY <1>3, SMT
<1>5. (a - n) % R = (r + R - n) % R
  BY <1>4, SameSlot, a - n \in Nat, r + R - n \in Nat, q - 1 \in Int
<1> QED
  BY <1>2, <1>5

\* Position 0 is in slot 0.
LEMMA ZeroSlot == ASSUME NEW R \in Nat \ {0} PROVE 0 % R = 0
<1>1. PICK q, r : q = 0 \div R /\ r = 0 % R
  OBVIOUS
<1>2. 0 = R * q + r /\ r \in 0..(R - 1) /\ q \in Nat
  BY <1>1, DivideNat, 0 \in Nat
<1>3. R * 0 + 0 = R * q + r /\ 0 \in 0..(R - 1)
  BY <1>2
<1> QED
  BY <1>1, <1>2, <1>3, RemainderUnique, 0 \in Int, q \in Int

\* The slot behind one.
LEMMA OneFurther ==
  ASSUME NEW R \in Nat \ {0}, NEW h \in 0..(R - 1)
  PROVE  (h + 1) % R = IF h = R - 1 THEN 0 ELSE h + 1
<1>1. PICK q, r : q = (h + 1) \div R /\ r = (h + 1) % R
  OBVIOUS
<1>2. h + 1 = R * q + r /\ r \in 0..(R - 1) /\ q \in Nat
  BY <1>1, DivideNat, h + 1 \in Nat
<1>3. CASE h = R - 1
  <2>1. R * 1 + 0 = R * q + r
    BY <1>2, <1>3
  <2>2. r = 0
    BY <2>1, <1>2, RemainderUnique, 0 \in 0..(R - 1), 1 \in Int, q \in Int
  <2> QED
    BY <2>2, <1>1, <1>3
<1>4. CASE h # R - 1
  <2>1. h + 1 \in 0..(R - 1) /\ R * 0 + (h + 1) = R * q + r
    BY <1>2, <1>4
  <2>2. r = h + 1
    BY <2>1, <1>2, RemainderUnique, 0 \in Int, q \in Int
  <2> QED
    BY <2>2, <1>1, <1>4
<1> QED
  BY <1>3, <1>4

\* A set of naturals that has an element has a least one: this is what stands for
\* induction in these proofs, as the least counterexample.
LEMMA LeastOf ==
  ASSUME NEW T, T \subseteq Nat, T # {}
  PROVE  \E x \in T : \A y \in T : x <= y
<1>1. PICK R : R = {ss \in Nat \X Nat : ss[1] < ss[2]}
  OBVIOUS
<1>2. R = OpToRel(<, Nat)
  BY <1>1, Zenon DEF OpToRel
<1>3. IsWellFoundedOn(R, Nat)
  BY <1>2, NatLessThanWellFounded
<1>4. PICK x \in T : \A y \in T : ~(<<y, x>> \in R)
  BY <1>3, WFMin
<1>5. ASSUME NEW y \in T PROVE x <= y
  <2>1. x \in Nat /\ y \in Nat
    OBVIOUS
  <2>2. \A a, b \in Nat : a < b => <<a, b>> \in R
    BY <1>1
  <2>3. ~(y < x)
    BY <1>4, <2>1, <2>2
  <2> QED
    BY <2>1, <2>3
<1> QED
  BY <1>5

\* Induction, about the set of the naturals for which something holds.
LEMMA Induct ==
  ASSUME NEW T, 0 \in T, \A n \in Nat : n \in T => n + 1 \in T
  PROVE  Nat \subseteq T
<1>1. SUFFICES ASSUME NEW m \in Nat, m \notin T PROVE FALSE
  OBVIOUS
<1>2. PICK C : C = Nat \ T
  OBVIOUS
<1>3. C \subseteq Nat /\ C # {}
  BY <1>1, <1>2
<1>4. PICK n \in C : \A y \in C : n <= y
  BY <1>3, LeastOf
<1>5. n \in Nat /\ n \notin T /\ n # 0
  BY <1>2, <1>4
<1>6. n - 1 \in Nat /\ ~(n <= n - 1)
  BY <1>5
<1>7. n - 1 \in T
  BY <1>2, <1>4, <1>6
<1>8. (n - 1) + 1 = n
  BY <1>5
<1> QED
  BY <1>5, <1>6, <1>7, <1>8

\* The function that FlattenSeq is defined by.
Flattens(f, ss, n) == f = [i \in 1..n |-> IF i = 1 THEN ss[i] ELSE f[i - 1] \o ss[i]]

LEMMA FlattensExists ==
  ASSUME NEW ss, NEW n \in Nat
  PROVE  \E f : Flattens(f, ss, n)
<1>1. PICK T : T = {m \in Nat : \E f : Flattens(f, ss, m)}
  OBVIOUS
<1>2. 0 \in T
  <2>1. PICK f : f = [i \in 1..0 |-> <<>>]
    OBVIOUS
  <2>2. f = [i \in 1..0 |-> IF i = 1 THEN ss[i] ELSE f[i - 1] \o ss[i]]
    BY <2>1
  <2> QED
    BY <1>1, <2>2 DEF Flattens
<1>3. ASSUME NEW m \in Nat, m \in T PROVE m + 1 \in T
  <2>1. PICK f : Flattens(f, ss, m)
    BY <1>1, <1>3
  <2>2. \A i \in 1..m : f[i] = IF i = 1 THEN ss[i] ELSE f[i - 1] \o ss[i]
    BY <2>1, Zenon DEF Flattens
  <2>3. PICK last : last = IF m + 1 = 1 THEN ss[m + 1] ELSE f[m] \o ss[m + 1]
    OBVIOUS
  <2>4. PICK g : g = [i \in 1..(m + 1) |-> IF i = m + 1 THEN last ELSE f[i]]
    OBVIOUS
  <2>5. ASSUME NEW i \in 1..(m + 1)
        PROVE  g[i] = IF i = 1 THEN ss[i] ELSE g[i - 1] \o ss[i]
    <3>1. CASE i = m + 1
      <4>1. g[i] = last
        BY <2>4, <3>1
      <4>2. i # 1 => i - 1 \in 1..(m + 1) /\ i - 1 # m + 1 /\ i - 1 = m
        BY <3>1
      <4>3. i # 1 => g[i - 1] = f[m]
        BY <2>4, <4>2
      <4> QED
        BY <2>3, <3>1, <4>1, <4>3
    <3>2. CASE i # m + 1
      <4>1. i \in 1..m /\ g[i] = f[i]
        BY <2>4, <3>2
      <4>2. i # 1 => i - 1 \in 1..(m + 1) /\ i - 1 # m + 1
        BY <4>1
      <4>3. i # 1 => g[i - 1] = f[i - 1]
        BY <2>4, <4>2
      <4> QED
        BY <2>2, <4>1, <4>3
    <3> QED
      BY <3>1, <3>2
  <2>6. g = [i \in 1..(m + 1) |-> IF i = 1 THEN ss[i] ELSE g[i - 1] \o ss[i]]
    BY <2>4, <2>5
  <2>7. \E h : Flattens(h, ss, m + 1)
    BY <2>6 DEF Flattens
  <2> QED
    BY <1>1, <2>7
<1>4. Nat \subseteq T
  BY <1>2, <1>3, Induct
<1> QED
  BY <1>1, <1>4

LEMMA FlattenedBy ==
  ASSUME NEW ss, Len(ss) \in Nat, Len(ss) # 0
  PROVE  \E f : Flattens(f, ss, Len(ss)) /\ FlattenSeq(ss) = f[Len(ss)]
<1>1. \E f : Flattens(f, ss, Len(ss))
  BY FlattensExists
<1>2. PICK c : c = CHOOSE f : f = [i \in 1..Len(ss) |-> IF i = 1 THEN ss[i] ELSE f[i - 1] \o ss[i]]
  OBVIOUS
<1>3. Flattens(c, ss, Len(ss))
  BY <1>1, <1>2, Zenon DEF Flattens
<1>4. FlattenSeq(ss) = c[Len(ss)]
  BY <1>2, Zenon DEF FlattenSeq
<1> QED
  BY <1>3, <1>4

\* What is joined of sequences of a kind is one.
LEMMA FlattenedIn ==
  ASSUME NEW S, NEW ss \in Seq(Seq(S))
  PROVE  FlattenSeq(ss) \in Seq(S)
<1>1. PICK n \in Nat : n = Len(ss) /\ \A k \in 1..n : ss[k] \in Seq(S)
  BY LenProperties
<1>2. CASE n = 0
  <2>1. Len(ss) = 0
    BY <1>1, <1>2
  <2>2. FlattenSeq(ss) = ss
    BY <2>1, Zenon DEF FlattenSeq
  <2>3. ss = <<>>
    BY <2>1, EmptySeq
  <2> QED
    BY <2>2, <2>3
<1>3. CASE n # 0
  <2>1. PICK f : Flattens(f, ss, n) /\ FlattenSeq(ss) = f[n]
    BY <1>1, <1>3, FlattenedBy, Zenon
  <2>2. \A k \in 1..n : f[k] = IF k = 1 THEN ss[k] ELSE f[k - 1] \o ss[k]
    BY <2>1, Zenon DEF Flattens
  <2>3. PICK T : T = {k \in Nat : k + 1 \in 1..n => f[k + 1] \in Seq(S)}
    OBVIOUS
  <2>4. 0 \in T
    <3>1. 0 + 1 = 1
      OBVIOUS
    <3>2. 1 \in 1..n => f[1] = ss[1]
      BY <2>2
    <3> QED
      BY <1>1, <2>3, <3>1, <3>2
  <2>5. ASSUME NEW k \in Nat, k \in T PROVE k + 1 \in T
    <3>1. ASSUME (k + 1) + 1 \in 1..n PROVE f[(k + 1) + 1] \in Seq(S)
      <4>1. k + 1 \in 1..n /\ (k + 1) + 1 # 1 /\ ((k + 1) + 1) - 1 = k + 1
        BY <3>1
      <4>2. f[k + 1] \in Seq(S) /\ ss[(k + 1) + 1] \in Seq(S)
        BY <1>1, <2>3, <2>5, <3>1, <4>1
      <4>3. f[(k + 1) + 1] = f[k + 1] \o ss[(k + 1) + 1]
        BY <2>2, <3>1, <4>1
      <4> QED
        BY <4>2, <4>3, ConcatProperties
    <3> QED
      BY <2>3, <3>1
  <2>6. Nat \subseteq T
    BY <2>4, <2>5, Induct
  <2>7. n - 1 \in T /\ (n - 1) + 1 = n /\ n \in 1..n
    BY <1>3, <2>6
  <2> QED
    BY <2>1, <2>3, <2>7
<1> QED
  BY <1>2, <1>3

===============================================================================
