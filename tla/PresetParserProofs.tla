--------------------------- MODULE PresetParserProofs ---------------------------
(***************************************************************************)
(* The lists of a preset stay inside one another, for every file (Inv), and *)
(* damage costs the effect it is in and no other (Base, Somewhere).         *)
(*                                                                         *)
(* What of the second is inductive: a call that has met no damage has read *)
(* what its list was written with, as far as it is (Level, Linked), and at *)
(* any time the parser is in one of four places as to the damage           *)
(* (Somewhere): it reads what was written, Intact, before the damage or    *)
(* behind it; the file has ended, CutOff; it is in a list that was damaged *)
(* behind its length, InsideHit; or a header was damaged, Broken, and only *)
(* what had come out before is known.                                      *)
(***************************************************************************)
EXTENDS PresetParser, SharedLemmas, SequenceTheorems, TLAPS

IsSeq(s) == \E S : s \in Seq(S)

-------------------------------------------------------------------------------
(* Sequences. *)

LEMMA LastReplaced ==
  ASSUME NEW s, IsSeq(s), Len(s) > 0, NEW x
  PROVE  LET t == Front(s) \o <<x>>
         IN /\ IsSeq(t) /\ Len(t) = Len(s)
            /\ t[Len(s)] = x
            /\ \A i \in 1..Len(s) - 1 : t[i] = s[i]
<1>1. PICK S : s \in Seq(S)
  BY DEF IsSeq
<1>2. PICK n \in Nat : n = Len(s) /\ n > 0 /\ \A i \in 1..n - 1 : s[i] \in S
  BY <1>1, LenProperties
<1>. DEFINE f == SubSeq(s, 1, n - 1)
            t == f \o <<x>>
<1>3. f \in Seq(S) /\ Len(f) = n - 1 /\ \A i \in 1..n - 1 : f[i] = s[i]
  <2>1. /\ f \in Seq(S)
        /\ Len(f) = IF 1 <= n - 1 THEN n - 1 - 1 + 1 ELSE 0
        /\ \A i \in 1..n - 1 - 1 + 1 : f[i] = s[1 + i - 1]
    BY <1>2, SubSeqProperties
  <2>2. n - 1 - 1 + 1 = n - 1 /\ (1 <= n - 1 \/ n - 1 = 0)
    BY <1>2
  <2>3. Len(f) = n - 1 /\ \A i \in 1..n - 1 : f[i] = s[1 + i - 1]
    BY <2>1, <2>2
  <2>4. \A i \in 1..n - 1 : 1 + i - 1 = i
    OBVIOUS
  <2>. QED
    BY <2>1, <2>3, <2>4
<1>4. f \in Seq(S \cup {x}) /\ <<x>> \in Seq(S \cup {x}) /\ Len(<<x>>) = 1 /\ <<x>>[1] = x
  BY <1>3
<1>. HIDE DEF f
<1>5. t \in Seq(S \cup {x}) /\ Len(t) = Len(f) + 1
      /\ \A i \in 1..Len(f) + 1 : t[i] = IF i <= Len(f) THEN f[i] ELSE <<x>>[i - Len(f)]
  BY <1>4, ConcatProperties
<1>6. Len(t) = n /\ t[n] = x /\ \A i \in 1..n - 1 : t[i] = s[i]
  BY <1>2, <1>3, <1>4, <1>5
<1>. QED
  BY <1>2, <1>5, <1>6 DEF IsSeq, Front, f

\* Dropping the last two for one that takes their place.
LEMMA LastTwoReplaced ==
  ASSUME NEW s, IsSeq(s), Len(s) > 1, NEW x
  PROVE  LET t == SubSeq(s, 1, Len(s) - 2) \o <<x>>
         IN /\ IsSeq(t) /\ Len(t) = Len(s) - 1
            /\ t[Len(s) - 1] = x
            /\ \A i \in 1..Len(s) - 2 : t[i] = s[i]
<1>1. PICK S : s \in Seq(S)
  BY DEF IsSeq
<1>2. PICK n \in Nat : n = Len(s) /\ n > 1 /\ \A i \in 1..n - 2 : s[i] \in S
  BY <1>1, LenProperties
<1>. DEFINE f == SubSeq(s, 1, n - 2)
            t == f \o <<x>>
<1>3. f \in Seq(S) /\ Len(f) = n - 2 /\ \A i \in 1..n - 2 : f[i] = s[i]
  <2>1. /\ f \in Seq(S)
        /\ Len(f) = IF 1 <= n - 2 THEN n - 2 - 1 + 1 ELSE 0
        /\ \A i \in 1..n - 2 - 1 + 1 : f[i] = s[1 + i - 1]
    BY <1>2, SubSeqProperties
  <2>2. n - 2 - 1 + 1 = n - 2 /\ (1 <= n - 2 \/ n - 2 = 0)
    BY <1>2
  <2>3. Len(f) = n - 2 /\ \A i \in 1..n - 2 : f[i] = s[1 + i - 1]
    BY <2>1, <2>2
  <2>4. \A i \in 1..n - 2 : 1 + i - 1 = i
    OBVIOUS
  <2>. QED
    BY <2>1, <2>3, <2>4
<1>4. f \in Seq(S \cup {x}) /\ <<x>> \in Seq(S \cup {x}) /\ Len(<<x>>) = 1 /\ <<x>>[1] = x
  BY <1>3
<1>. HIDE DEF f
<1>5. t \in Seq(S \cup {x}) /\ Len(t) = Len(f) + 1
      /\ \A i \in 1..Len(f) + 1 : t[i] = IF i <= Len(f) THEN f[i] ELSE <<x>>[i - Len(f)]
  BY <1>4, ConcatProperties
<1>6. Len(t) = n - 1 /\ t[n - 1] = x /\ \A i \in 1..n - 2 : t[i] = s[i]
  BY <1>2, <1>3, <1>4, <1>5
<1>. QED
  BY <1>2, <1>5, <1>6 DEF IsSeq, f 

LEMMA OneMore ==
  ASSUME NEW s, IsSeq(s), NEW x
  PROVE  LET t == Append(s, x)
         IN /\ IsSeq(t) /\ Len(t) = Len(s) + 1
            /\ t[Len(s) + 1] = x
            /\ \A i \in 1..Len(s) : t[i] = s[i]
<1>1. PICK S : s \in Seq(S)
  BY DEF IsSeq
<1>2. s \in Seq(S \cup {x}) /\ x \in S \cup {x}
  BY <1>1
<1>. QED
  BY <1>2, AppendProperties DEF IsSeq

LEMMA Indices ==
  ASSUME NEW s, IsSeq(s)
  PROVE  Len(s) \in Nat /\ DOMAIN s = 1..Len(s)
BY LenProperties DEF IsSeq

\* What FlattenSeq has joined depends on the sequences up to the place only.
LEMMA FlattensUnique ==
  ASSUME NEW ss, NEW tt, NEW n \in Nat, NEW m \in Nat, n <= m,
         \A i \in 1..n : ss[i] = tt[i],
         NEW f, Flattens(f, ss, n), NEW g, Flattens(g, tt, m)
  PROVE  \A i \in 1..n : f[i] = g[i]
<1>1. PICK T : T = {k \in Nat : k + 1 \in 1..n => f[k + 1] = g[k + 1]}
  OBVIOUS
<1>2. \A i \in 1..n : /\ f[i] = IF i = 1 THEN ss[i] ELSE f[i - 1] \o ss[i]
                      /\ g[i] = IF i = 1 THEN ss[i] ELSE g[i - 1] \o ss[i]
  <2>1. \A i \in 1..n : f[i] = IF i = 1 THEN ss[i] ELSE f[i - 1] \o ss[i]
    BY Zenon DEF Flattens
  <2>2. \A i \in 1..m : g[i] = IF i = 1 THEN tt[i] ELSE g[i - 1] \o tt[i]
    BY Zenon DEF Flattens
  <2>3. \A i \in 1..n : i \in 1..m
    OBVIOUS
  <2> QED
    BY <2>1, <2>2, <2>3
<1>3. 0 \in T
  <2>1. 0 + 1 = 1
    OBVIOUS
  <2>2. 1 \in 1..n => f[1] = g[1]
    BY <1>2
  <2> QED
    BY <1>1, <2>1, <2>2
<1>4. ASSUME NEW k \in Nat, k \in T PROVE k + 1 \in T
  <2>1. ASSUME (k + 1) + 1 \in 1..n PROVE f[(k + 1) + 1] = g[(k + 1) + 1]
    <3>1. k + 1 \in 1..n /\ (k + 1) + 1 # 1 /\ ((k + 1) + 1) - 1 = k + 1
      BY <2>1
    <3>2. f[k + 1] = g[k + 1]
      BY <1>1, <1>4, <3>1
    <3> QED
      BY <1>2, <2>1, <3>1, <3>2
  <2> QED
    BY <1>1, <2>1
<1>5. Nat \subseteq T
  BY <1>3, <1>4, Induct
<1>6. ASSUME NEW i \in 1..n PROVE f[i] = g[i]
  <2>1. i - 1 \in Nat /\ (i - 1) + 1 = i
    OBVIOUS
  <2>2. i - 1 \in T
    BY <1>5, <2>1
  <2> QED
    BY <1>1, <2>1, <2>2
<1> QED
  BY <1>6

LEMMA FunctionIsSeq ==
  ASSUME NEW n \in Nat, NEW f, f = [i \in 1..n |-> f[i]]
  PROVE  IsSeq(f) /\ Len(f) = n
<1>1. PICK S : S = {f[i] : i \in 1..n}
  OBVIOUS
<1>2. f \in [1..n -> S]
  BY <1>1
<1>3. f \in Seq(S)
  BY <1>2, SeqDef
<1>4. DOMAIN f = 1..n /\ DOMAIN f = 1..Len(f) /\ Len(f) \in Nat
  BY <1>2, <1>3, LenProperties
<1>5. Len(f) = n
  <2>1. PICK m \in Nat : m = Len(f) /\ 1..m = 1..n
    BY <1>4
  <2> QED
    BY <2>1
<1> QED
  BY <1>3, <1>5 DEF IsSeq

\* Joining two sequences.
LEMMA Joined ==
  ASSUME NEW s, IsSeq(s), NEW t, IsSeq(t)
  PROVE  /\ IsSeq(s \o t) /\ Len(s \o t) = Len(s) + Len(t)
         /\ \A i \in 1..Len(s) : (s \o t)[i] = s[i]
         /\ \A i \in 1..Len(t) : (s \o t)[Len(s) + i] = t[i]
<1>1. PICK S, T : s \in Seq(S) /\ t \in Seq(T)
  BY DEF IsSeq
<1>2. s \in Seq(S \cup T) /\ t \in Seq(S \cup T)
  <2>1. S \subseteq S \cup T /\ T \subseteq S \cup T
    OBVIOUS
  <2> QED
    BY <1>1, <2>1, SeqMonotonic
<1>3. /\ s \o t \in Seq(S \cup T) /\ Len(s \o t) = Len(s) + Len(t)
      /\ \A i \in 1..Len(s) + Len(t) : (s \o t)[i] = IF i <= Len(s) THEN s[i] ELSE t[i - Len(s)]
  BY <1>2, ConcatProperties
<1>4. Len(s) \in Nat /\ Len(t) \in Nat
  BY Indices
<1>5. ASSUME NEW i \in 1..Len(s) PROVE (s \o t)[i] = s[i]
  <2>1. i \in 1..Len(s) + Len(t) /\ i <= Len(s)
    BY <1>4
  <2> QED
    BY <1>3, <2>1
<1>6. ASSUME NEW i \in 1..Len(t) PROVE (s \o t)[Len(s) + i] = t[i]
  <2>1. Len(s) + i \in 1..Len(s) + Len(t) /\ ~(Len(s) + i <= Len(s)) /\ (Len(s) + i) - Len(s) = i
    BY <1>4
  <2> QED
    BY <1>3, <2>1
<1> QED
  BY <1>3, <1>5, <1>6 DEF IsSeq

\* Sequences with the same elements are the same.
LEMMA SameSeq ==
  ASSUME NEW s, IsSeq(s), NEW t, IsSeq(t), Len(s) = Len(t), \A i \in 1..Len(s) : s[i] = t[i]
  PROVE  s = t
<1>1. PICK S, T : s \in Seq(S) /\ t \in Seq(T)
  BY DEF IsSeq
<1>2. s \in Seq(S \cup T) /\ t \in Seq(S \cup T)
  <2>1. S \subseteq S \cup T /\ T \subseteq S \cup T
    OBVIOUS
  <2> QED
    BY <1>1, <2>1, SeqMonotonic
<1> QED
  BY <1>2, SeqEqual

LEMMA JoinedThrice ==
  ASSUME NEW s, IsSeq(s), NEW t, IsSeq(t), NEW u, IsSeq(u)
  PROVE  (s \o t) \o u = s \o (t \o u)
<1>1. PICK S, T, U : s \in Seq(S) /\ t \in Seq(T) /\ u \in Seq(U)
  BY DEF IsSeq
<1>2. PICK W : W = S \cup T \cup U
  OBVIOUS
<1>3. S \subseteq W /\ T \subseteq W /\ U \subseteq W
  BY <1>2
<1>4. s \in Seq(W) /\ t \in Seq(W) /\ u \in Seq(W)
  BY <1>1, <1>3, SeqMonotonic
<1> QED
  BY <1>4, ConcatAssociative

LEMMA JoinedToNone ==
  ASSUME NEW s, IsSeq(s)
  PROVE  IsSeq(<<>>) /\ Len(<<>>) = 0 /\ <<>> \o s = s /\ s \o <<>> = s
<1>1. <<>> \in Seq({}) /\ Len(<<>>) = 0
  BY EmptySeq
<1> QED
  BY <1>1, ConcatEmptySeq DEF IsSeq

LEMMA NoneOf ==
  ASSUME NEW s, IsSeq(s), Len(s) = 0
  PROVE  s = <<>>
<1>1. IsSeq(<<>>) /\ Len(<<>>) = 0
  BY JoinedToNone
<1> QED
  BY <1>1, SameSeq

\* Part of a sequence.
LEMMA PartOf ==
  ASSUME NEW s, IsSeq(s), NEW m \in Int, NEW n \in Int, 1 <= m, m <= n + 1, n <= Len(s)
  PROVE  /\ IsSeq(SubSeq(s, m, n)) /\ Len(SubSeq(s, m, n)) = n - m + 1
         /\ \A i \in 1..n - m + 1 : SubSeq(s, m, n)[i] = s[m + i - 1]
<1>1. PICK S : s \in Seq(S)
  BY DEF IsSeq
<1>2. \A i \in m..n : s[i] \in S
  <2>1. Len(s) \in Nat /\ s \in [1..Len(s) -> S]
    BY <1>1, LenProperties
  <2>2. \A i \in m..n : i \in 1..Len(s)
    BY <2>1
  <2> QED
    BY <2>1, <2>2
<1>3. /\ SubSeq(s, m, n) \in Seq(S)
      /\ Len(SubSeq(s, m, n)) = IF m <= n THEN n - m + 1 ELSE 0
      /\ \A i \in 1..n - m + 1 : SubSeq(s, m, n)[i] = s[m + i - 1]
  BY <1>2, SubSeqProperties
<1>4. ~(m <= n) => n - m + 1 = 0
  OBVIOUS
<1> QED
  BY <1>3, <1>4 DEF IsSeq

-------------------------------------------------------------------------------
(* The row of what effects have in a field, joined. *)

HaveField(effects, field) ==
  IsSeq(effects) /\ \A i \in 1..Len(effects) : IsSeq(effects[i][field])

Upto(effects, n) == SubSeq(effects, 1, n)

LEMMA FirstOnes ==
  ASSUME NEW effects, IsSeq(effects), NEW n \in 0..Len(effects)
  PROVE  /\ IsSeq(Upto(effects, n)) /\ Len(Upto(effects, n)) = n
         /\ DOMAIN Upto(effects, n) = 1..n
         /\ \A i \in 1..n : Upto(effects, n)[i] = effects[i]
<1>1. Len(effects) \in Nat /\ n \in Int /\ 1 <= n + 1 /\ n <= Len(effects)
  BY Indices
<1>2. /\ IsSeq(Upto(effects, n)) /\ Len(Upto(effects, n)) = n - 1 + 1
      /\ \A i \in 1..n - 1 + 1 : Upto(effects, n)[i] = effects[1 + i - 1]
  BY <1>1, PartOf DEF Upto
<1>3. n - 1 + 1 = n /\ \A i \in 1..n : 1 + i - 1 = i
  BY <1>1
<1>4. Len(Upto(effects, n)) = n /\ \A i \in 1..n : Upto(effects, n)[i] = effects[i]
  BY <1>2, <1>3
<1> QED
  BY <1>2, <1>4, Indices

LEMMA AllOfNone ==
  ASSUME NEW effects, IsSeq(effects), NEW field
  PROVE  All(Upto(effects, 0), field) = <<>>
<1>1. Len(effects) \in Nat
  BY Indices
<1>2. 0 \in 0..Len(effects)
  BY <1>1
<1>3. DOMAIN Upto(effects, 0) = 1..0
  BY <1>2, FirstOnes
<1>4. PICK ss : ss = [i \in DOMAIN Upto(effects, 0) |-> Upto(effects, 0)[i][field]]
  OBVIOUS
<1>5. ss = [i \in 1..0 |-> ss[i]]
  BY <1>3, <1>4
<1>6. IsSeq(ss) /\ Len(ss) = 0
  BY <1>5, FunctionIsSeq, 0 \in Nat
<1>7. ss = <<>>
  BY <1>6, NoneOf
<1>8. All(Upto(effects, 0), field) = ss
  BY <1>4, <1>6, Zenon DEF All, FlattenSeq
<1> QED
  BY <1>7, <1>8

\* One effect more.
LEMMA AllGrows ==
  ASSUME NEW effects, NEW field, HaveField(effects, field), NEW n \in 0..Len(effects) - 1
  PROVE  All(Upto(effects, n + 1), field) = All(Upto(effects, n), field) \o effects[n + 1][field]
<1>1. /\ IsSeq(effects) /\ Len(effects) \in Nat /\ n \in Nat /\ n + 1 \in 1..Len(effects)
      /\ n \in 0..Len(effects) /\ n + 1 \in 0..Len(effects)
  BY Indices DEF HaveField
<1>2. PICK ss, tt : /\ ss = [i \in DOMAIN Upto(effects, n) |-> Upto(effects, n)[i][field]]
                    /\ tt = [i \in DOMAIN Upto(effects, n + 1) |-> Upto(effects, n + 1)[i][field]]
  OBVIOUS
<1>3. /\ DOMAIN Upto(effects, n) = 1..n /\ DOMAIN Upto(effects, n + 1) = 1..(n + 1)
      /\ \A i \in 1..n : Upto(effects, n)[i] = effects[i]
      /\ \A i \in 1..(n + 1) : Upto(effects, n + 1)[i] = effects[i]
  BY <1>1, FirstOnes
<1>4. /\ ss = [i \in 1..n |-> ss[i]] /\ tt = [i \in 1..(n + 1) |-> tt[i]]
      /\ \A i \in 1..n : ss[i] = effects[i][field]
      /\ \A i \in 1..(n + 1) : tt[i] = effects[i][field]
  BY <1>2, <1>3
<1>5. Len(ss) = n /\ Len(tt) = n + 1
  <2>1. n + 1 \in Nat
    BY <1>1
  <2> QED
    BY <1>1, <1>4, <2>1, FunctionIsSeq
<1>6. /\ All(Upto(effects, n), field) = FlattenSeq(ss)
      /\ All(Upto(effects, n + 1), field) = FlattenSeq(tt)
  BY <1>2 DEF All
<1>7. PICK g : Flattens(g, tt, n + 1) /\ FlattenSeq(tt) = g[n + 1]
  <2>1. n + 1 \in Nat /\ n + 1 # 0
    BY <1>1
  <2> QED
    BY <1>5, <2>1, FlattenedBy
<1>8. g[n + 1] = IF n + 1 = 1 THEN tt[n + 1] ELSE g[(n + 1) - 1] \o tt[n + 1]
  <2>1. n + 1 \in 1..(n + 1)
    BY <1>1
  <2> QED
    BY <1>7, <2>1, Zenon DEF Flattens
<1>9. CASE n = 0
  <2>1. FlattenSeq(tt) = effects[1][field]
    BY <1>4, <1>7, <1>8, <1>9
  <2>2. IsSeq(effects[1][field])
    BY <1>1, <1>9 DEF HaveField
  <2>3. All(Upto(effects, 0), field) = <<>>
    BY <1>1, AllOfNone
  <2>4. <<>> \o effects[1][field] = effects[1][field]
    BY <2>2, JoinedToNone
  <2>5. n + 1 = 1
    BY <1>9
  <2>6. All(Upto(effects, n + 1), field) = effects[1][field]
    BY <1>6, <2>1, Zenon
  <2>7. All(Upto(effects, n), field) = <<>>
    BY <1>9, <2>3, Zenon
  <2> QED
    BY <2>4, <2>5, <2>6, <2>7, Zenon
<1>10. CASE n # 0
  <2>1. PICK f : Flattens(f, ss, n) /\ FlattenSeq(ss) = f[n]
    BY <1>1, <1>5, <1>10, FlattenedBy
  <2>2. n <= n + 1 /\ n + 1 \in Nat /\ n \in 1..n
    BY <1>1, <1>10
  <2>3. \A i \in 1..n : ss[i] = tt[i]
    BY <1>1, <1>4
  <2>4. f[n] = g[n]
    BY <1>1, <1>7, <2>1, <2>2, <2>3, FlattensUnique
  <2>5. n + 1 # 1 /\ (n + 1) - 1 = n /\ n + 1 \in 1..(n + 1)
    BY <1>1, <1>10
  <2>6. tt[n + 1] = effects[n + 1][field]
    BY <1>4, <2>5
  <2>7. g[n + 1] = g[n] \o tt[n + 1]
    BY <1>8, <2>5
  <2>8. All(Upto(effects, n), field) = g[n]
    BY <1>6, <2>1, <2>4
  <2>9. All(Upto(effects, n + 1), field) = g[n + 1]
    BY <1>6, <1>7
  <2> QED
    BY <2>6, <2>7, <2>8, <2>9
<1> QED
  BY <1>9, <1>10

\* What is joined is a sequence again.
LEMMA AllIsSeq ==
  ASSUME NEW effects, NEW field, HaveField(effects, field), NEW n \in 0..Len(effects)
  PROVE  IsSeq(All(Upto(effects, n), field))
<1>1. IsSeq(effects) /\ Len(effects) \in Nat /\ IsSeq(<<>>)
  BY Indices, JoinedToNone DEF HaveField
<1>2. PICK T : T = {k \in Nat : k <= Len(effects) => IsSeq(All(Upto(effects, k), field))}
  OBVIOUS
<1>3. 0 \in T
  BY <1>1, <1>2, AllOfNone
<1>4. ASSUME NEW k \in Nat, k \in T PROVE k + 1 \in T
  <2>1. ASSUME k + 1 <= Len(effects) PROVE IsSeq(All(Upto(effects, k + 1), field))
    <3>1. k \in 0..Len(effects) - 1 /\ k + 1 \in 1..Len(effects) /\ k <= Len(effects)
      BY <1>1, <2>1
    <3>2. IsSeq(All(Upto(effects, k), field)) /\ IsSeq(effects[k + 1][field])
      BY <1>2, <1>4, <3>1 DEF HaveField
    <3>3. All(Upto(effects, k + 1), field) = All(Upto(effects, k), field) \o effects[k + 1][field]
      BY <3>1, AllGrows
    <3>4. IsSeq(All(Upto(effects, k), field) \o effects[k + 1][field])
      BY <3>2, Joined, Zenon
    <3> QED
      BY <3>3, <3>4, Zenon
  <2> QED
    BY <1>2, <2>1
<1>5. Nat \subseteq T
  BY <1>3, <1>4, Induct
<1> QED
  BY <1>1, <1>2, <1>5

LEMMA AllOfThem ==
  ASSUME NEW effects, IsSeq(effects)
  PROVE  Upto(effects, Len(effects)) = effects
BY SubSeqFull DEF IsSeq, Upto

\* What a preset is written in are numbers.
LEMMA CellsAreNats ==
  ASSUME NEW p \in Presets
  PROVE  CellsOf(p) \in Seq(Nat) /\ Len(p.mode) \in Nat
<1>1. PICK es, l : es = p.effects /\ l = Len(es)
  OBVIOUS
<1>2. p.mode \in Seq(Nat) /\ es \in Seq(Effects)
  BY <1>1, PresetParserAssumption DEF WellFormedMode
<1>3. l \in Nat /\ IsSeq(es) /\ \A i \in 1..l : es[i] \in Effects
  BY <1>1, <1>2, LenProperties, ElementOfSeq DEF IsSeq
<1>4. \A i \in 1..l : es[i]["cells"] \in Seq(Nat)
  BY <1>3, PresetParserAssumption DEF WellFormed
<1>5. HaveField(es, "cells")
  BY <1>1, <1>3, <1>4 DEF HaveField, IsSeq
<1>6. PICK T : T = {k \in Nat : k <= l => All(Upto(es, k), "cells") \in Seq(Nat)}
  OBVIOUS
<1>7. 0 \in T
  <2>1. All(Upto(es, 0), "cells") = <<>>
    BY <1>3, AllOfNone
  <2> QED
    BY <1>6, <2>1, EmptySeq
<1>8. ASSUME NEW k \in Nat, k \in T PROVE k + 1 \in T
  <2>1. ASSUME k + 1 <= l PROVE All(Upto(es, k + 1), "cells") \in Seq(Nat)
    <3>1. k \in 0..Len(es) - 1 /\ k + 1 \in 1..l /\ k <= l
      BY <1>1, <1>3, <2>1
    <3>2. All(Upto(es, k), "cells") \in Seq(Nat) /\ es[k + 1]["cells"] \in Seq(Nat)
      BY <1>4, <1>6, <1>8, <3>1
    <3>3. All(Upto(es, k + 1), "cells") = All(Upto(es, k), "cells") \o es[k + 1]["cells"]
      BY <1>5, <3>1, AllGrows
    <3> QED
      BY <3>2, <3>3, ConcatProperties
  <2> QED
    BY <1>6, <2>1
<1>9. l \in T
  BY <1>3, <1>7, <1>8, Induct
<1>10. All(es, "cells") \in Seq(Nat)
  <2>1. Upto(es, l) = es
    BY <1>1, <1>3, AllOfThem
  <2> QED
    BY <1>3, <1>6, <1>9, <2>1
<1> QED
  BY <1>1, <1>2, <1>10, ConcatProperties, LenProperties DEF CellsOf

-------------------------------------------------------------------------------
(* The lists, one inside the other. *)

\* Every call is about a part of the file that its caller gave it, and its caller
\* waits at the effect whose payload that is.
IsFrame(f) ==
  /\ \E A, C : f \in [start : Nat, end : Nat, pos : Nat, at : A, chain : C]
  /\ f.start <= f.pos /\ f.pos <= f.end

Nested(outer, inner) ==
  /\ More(outer) /\ Fits(outer)
  /\ inner.end = EffectAt(outer).end

Inv ==
  /\ file \in Seq(Nat)
  /\ IsSeq(lists) /\ Len(lists) > 0
  /\ \A i \in DOMAIN lists : IsFrame(lists[i]) /\ lists[i].end <= Len(file)
  /\ \A i \in DOMAIN lists : 2 * (i - 1) <= lists[i].start
  /\ \A i \in DOMAIN lists : i < Len(lists) => Nested(lists[i], lists[i + 1])

LEMMA FrameFields ==
  ASSUME NEW f, IsFrame(f)
  PROVE  /\ f.start \in Nat /\ f.pos \in Nat /\ f.end \in Nat
         /\ f.start <= f.pos /\ f.pos <= f.end
BY DEF IsFrame

-------------------------------------------------------------------------------
\* An effect that fits has its payload behind pos and inside its list.
LEMMA PayloadInside ==
  ASSUME file \in Seq(Nat), NEW f, IsFrame(f), f.end <= Len(file), More(f), Fits(f)
  PROVE  LET e == EffectAt(f)
         IN /\ e.start \in Nat /\ e.end \in Nat
            /\ f.pos + 2 <= e.start /\ e.start <= e.end /\ e.end <= f.end
<1>1. PICK start : start = f.pos + Header(file[f.pos + 1])
  OBVIOUS
<1>2. f.pos \in Nat /\ f.end \in Nat /\ Len(file) \in Nat
  BY LenProperties DEF IsFrame
<1>3. start \in Nat /\ f.pos + 2 <= start /\ start <= f.end
  BY <1>1, <1>2, SMTT(30) DEF Fits, Header, ApeCells
<1>4. file[start] \in Nat
  <2>1. start \in 1..Len(file)
    BY <1>2, <1>3
  <2>. QED
    BY <2>1, LenProperties
<1>5. EffectAt(f).start = start /\ EffectAt(f).end = start + file[start]
  BY <1>1 DEF EffectAt
<1>6. EffectAt(f).end <= f.end
  BY DEF Fits
<1>. QED
  BY <1>2, <1>3, <1>4, <1>5, <1>6

\* What follows the mode is in the list.
LEMMA ModeInside ==
  ASSUME file \in Seq(Nat), NEW f, IsFrame(f), f.end <= Len(file), f.pos < f.end
  PROVE  AfterMode(f) = -1 \/ (AfterMode(f) \in Nat /\ AfterMode(f) <= f.end)
<1>1. f.pos \in Nat /\ f.end \in Nat /\ Len(file) \in Nat
  BY LenProperties DEF IsFrame
<1>2. CASE file[f.pos + 1] < Flagged
  BY <1>1, <1>2 DEF AfterMode
<1>3. CASE ~(file[f.pos + 1] < Flagged) /\ f.pos + 2 > f.end
  BY <1>1, <1>3 DEF AfterMode
<1>4. CASE ~(file[f.pos + 1] < Flagged) /\ ~(f.pos + 2 > f.end)
  <2>1. f.pos + 2 \in 1..Len(file)
    BY <1>1, <1>4, SMTT(30)
  <2>2. file[f.pos + 2] \in Nat
    BY <2>1, LenProperties
  <2>. QED
    BY <1>1, <1>4, <2>2, SMTT(30) DEF AfterMode
<1>. QED
  BY <1>2, <1>3, <1>4

LEMMA ModeAdvances ==
  ASSUME file \in Seq(Nat), NEW f, IsFrame(f), f.end <= Len(file), f.pos < f.end
  PROVE  AfterMode(f) = -1 \/ f.pos <= AfterMode(f)
<1>1. f.pos \in Nat /\ f.end \in Nat /\ Len(file) \in Nat
  BY LenProperties DEF IsFrame
<1>2. CASE file[f.pos + 1] < Flagged
  BY <1>1, <1>2 DEF AfterMode
<1>3. CASE ~(file[f.pos + 1] < Flagged) /\ f.pos + 2 > f.end
  BY <1>1, <1>3 DEF AfterMode
<1>4. CASE ~(file[f.pos + 1] < Flagged) /\ ~(f.pos + 2 > f.end)
  <2>1. f.pos + 2 \in 1..Len(file)
    BY <1>1, <1>4
  <2>2. file[f.pos + 2] \in Nat
    BY <2>1, LenProperties
  <2>. QED
    BY <1>1, <1>4, <2>2, SMTT(30) DEF AfterMode
<1>. QED
  BY <1>2, <1>3, <1>4

\* Giving the innermost list other contents, with the same end, keeps the invariant.
LEMMA TopChanged ==
  ASSUME Inv, NEW f, IsFrame(f), f.end = top.end, f.start = top.start,
         lists' = Front(lists) \o <<f>>, file' = file
  PROVE  Inv'
<1>. DEFINE n == Len(lists)
<1>1. n \in Nat /\ n > 0 /\ DOMAIN lists = 1..n
  BY Indices DEF Inv
<1>2. IsSeq(lists') /\ Len(lists') = n /\ lists'[n] = f
      /\ \A i \in 1..n - 1 : lists'[i] = lists[i]
  BY LastReplaced DEF Inv
<1>3. DOMAIN lists' = 1..n
  BY <1>2, Indices
<1>4. top = lists[n]
  BY DEF top, Last
<1>5. \A i \in 1..n : IsFrame(lists'[i]) /\ lists'[i].end = lists[i].end
                       /\ lists'[i].start = lists[i].start
  BY <1>1, <1>2, <1>4, SMTT(30) DEF Inv
<1>6. \A i \in 1..n : lists'[i].end <= Len(file)
  BY <1>1, <1>5 DEF Inv
<1>7. ASSUME NEW i \in 1..n, i < n PROVE Nested(lists[i], lists[i + 1])'
  <2>1. Nested(lists[i], lists[i + 1]) /\ lists'[i] = lists[i] /\ lists'[i + 1].end = lists[i + 1].end
    <3>1. i \in DOMAIN lists /\ i \in 1..n - 1 /\ i + 1 \in 1..n
      BY <1>1, <1>7
    <3>2. Nested(lists[i], lists[i + 1])
      BY <1>7, <3>1 DEF Inv
    <3>. QED
      BY <1>2, <1>5, <3>1, <3>2
  <2>. QED
    BY <2>1 DEF Nested, More, Fits, EffectAt, Header, IsApe
<1>. QED
  <2>1. \A i \in 1..n : IsFrame(lists[i])'
    BY <1>5 DEF IsFrame
  <2>2. \A i \in 1..n : 2 * (i - 1) <= lists'[i].start
    BY <1>1, <1>5 DEF Inv
  <2>. QED
    BY <1>1, <1>2, <1>3, <1>6, <1>7, <2>1, <2>2 DEF Inv

-------------------------------------------------------------------------------
LEMMA AtStart ==
  PresetParserInit => Inv
<1>. SUFFICES ASSUME PresetParserInit PROVE Inv
  OBVIOUS
<1>1. file \in Seq(Nat)
  <2>1. PICK p \in Presets, cut \in BOOLEAN :
          LET cells == CellsOf(p)
          IN \E at \in Len(p.mode) + 1..Len(cells) + 1 :
               IF cut THEN file = SubSeq(cells, 1, at - 1)
               ELSE at <= Len(cells) /\ \E cell \in Cells : file = [cells EXCEPT ![at] = cell]
    BY DEF PresetParserInit
  <2>. DEFINE cells == CellsOf(p)
  <2>2. cells \in Seq(Nat) /\ Len(p.mode) \in Nat
    BY CellsAreNats
  <2>. HIDE DEF cells
  <2>3. PICK at \in Len(p.mode) + 1..Len(cells) + 1 :
          IF cut THEN file = SubSeq(cells, 1, at - 1)
          ELSE at <= Len(cells) /\ \E cell \in Cells : file = [cells EXCEPT ![at] = cell]
    BY <2>1 DEF cells
  <2>4. /\ Len(cells) \in Nat /\ at \in Int
        /\ \A i \in 1..at - 1 : cells[i] \in Nat
    BY <2>2, <2>3, LenProperties
  <2>5. SubSeq(cells, 1, at - 1) \in Seq(Nat)
    BY <2>4, SubSeqProperties
  <2>6. at <= Len(cells) => \A cell \in Cells : [cells EXCEPT ![at] = cell] \in Seq(Nat)
    <3>. SUFFICES ASSUME at <= Len(cells), NEW cell \in Cells
                  PROVE  [cells EXCEPT ![at] = cell] \in Seq(Nat)
      BY <2>3
    <3>1. at \in 1..Len(cells) /\ cell \in Nat
      BY <2>2, <2>3, <2>4, PresetParserAssumption
    <3>. QED
      BY <2>2, <3>1, ExceptSeq
  <2>. QED
    BY <2>3, <2>5, <2>6
<1>2. Len(file) \in Nat
  BY <1>1, LenProperties
<1>3. lists = <<Frame(0, Len(file))>>
  BY DEF PresetParserInit
<1>4. IsSeq(lists) /\ Len(lists) = 1 /\ DOMAIN lists = {1} /\ lists[1] = Frame(0, Len(file))
  <2>. DEFINE whole == Frame(0, Len(file))
  <2>1. <<whole>> \in Seq({whole}) /\ Len(<<whole>>) = 1 /\ <<whole>>[1] = whole
    OBVIOUS
  <2>2. DOMAIN <<whole>> = {1}
    BY <2>1, LenProperties
  <2>. QED
    BY <1>3, <2>1, <2>2 DEF IsSeq
<1>. DEFINE whole == Frame(0, Len(file))
<1>5. /\ whole \in [start : Nat, end : Nat, pos : Nat, at : {"mode"}, chain : {<<>>}]
      /\ whole.start = 0 /\ whole.end = Len(file) /\ whole.pos = 0
  BY <1>2 DEF Frame
<1>. HIDE DEF whole
<1>6. IsFrame(whole)
  <2>1. \E A, C : whole \in [start : Nat, end : Nat, pos : Nat, at : A, chain : C]
    BY <1>5, Zenon
  <2>2. whole.start <= whole.pos /\ whole.pos <= whole.end
    BY <1>2, <1>5
  <2>. QED
    BY <2>1, <2>2 DEF IsFrame
<1>. QED
  BY <1>1, <1>2, <1>4, <1>5, <1>6 DEF Inv, whole

\* A list may move on to any place up to its end.
LEMMA Moves ==
  ASSUME NEW f, IsFrame(f), NEW how, NEW p \in Nat, f.start <= p, p <= f.end
  PROVE  LET g == [f EXCEPT !.at = how, !.pos = p]
         IN IsFrame(g) /\ g.end = f.end /\ g.start = f.start
<1>. DEFINE g == [f EXCEPT !.at = how, !.pos = p]
<1>1. PICK A, C : f \in [start : Nat, end : Nat, pos : Nat, at : A, chain : C]
  BY DEF IsFrame
<1>2. g \in [start : Nat, end : Nat, pos : Nat, at : A \cup {how}, chain : C]
  BY <1>1
<1>3. g.end = f.end /\ g.start = f.start /\ g.pos = p
  BY <1>1
<1>. HIDE DEF g
<1>4. IsFrame(g)
  BY <1>2, <1>3 DEF IsFrame
<1>. QED
  BY <1>3, <1>4 DEF g

LEMMA TopIsFrame ==
  ASSUME Inv
  PROVE  /\ IsFrame(top) /\ top.end <= Len(file)
         /\ \A how : /\ IsFrame(Returned(how))
                     /\ Returned(how).end = top.end /\ Returned(how).start = top.start
<1>1. Len(lists) \in DOMAIN lists
  BY Indices DEF Inv
<1>2. IsFrame(top) /\ top.end <= Len(file)
  BY <1>1 DEF Inv, top, Last
<1>3. top.end \in Nat /\ top.start <= top.end
  BY <1>2 DEF IsFrame
<1>4. ASSUME NEW how
      PROVE  /\ IsFrame(Returned(how))
             /\ Returned(how).end = top.end /\ Returned(how).start = top.start
  <2>1. top.end <= top.end /\ top.end \in Nat /\ top.start <= top.end
    BY <1>3, FrameFields, <1>2
  <2>. QED
    BY <1>2, <2>1, Moves DEF Returned
<1>. QED
  BY <1>2, <1>4

\* A list goes on behind an effect that fits.
LEMMA PastIsFrame ==
  ASSUME file \in Seq(Nat), NEW f, IsFrame(f), f.end <= Len(file), More(f), Fits(f), NEW effects
  PROVE  LET g == Past(f, EffectAt(f), effects)
         IN IsFrame(g) /\ g.end = f.end /\ g.start = f.start
<1>. DEFINE end == EffectAt(f).end
            g   == Past(f, EffectAt(f), effects)
<1>1. end \in Nat /\ f.pos <= end /\ end <= f.end
  BY PayloadInside DEF IsFrame
<1>. HIDE DEF end
<1>2. PICK A, C : f \in [start : Nat, end : Nat, pos : Nat, at : A, chain : C]
  BY DEF IsFrame
<1>3. g = [f EXCEPT !.pos = end, !.chain = @ \o effects]
  BY DEF Past, end
<1>4. g \in [start : Nat, end : Nat, pos : Nat, at : A, chain : C \cup {f.chain \o effects}]
  BY <1>1, <1>2, <1>3
<1>5. g.end = f.end /\ g.start = f.start /\ g.pos = end
  BY <1>1, <1>2, <1>3
<1>. HIDE DEF g
<1>6. IsFrame(g)
  <2>1. f.start \in Nat /\ f.pos \in Nat /\ f.start <= f.pos
    BY FrameFields
  <2>2. g.start <= g.pos /\ g.pos <= g.end
    BY <1>1, <1>5, <2>1
  <2>. QED
    BY <1>4, <2>2 DEF IsFrame
<1>. QED
  BY <1>5, <1>6 DEF g

LEMMA InvStep ==
  Inv /\ [PresetParserNext]_presetParserVars => Inv'
<1>. SUFFICES ASSUME Inv, [PresetParserNext]_presetParserVars PROVE Inv'
  OBVIOUS
<1>0. /\ file \in Seq(Nat) /\ IsFrame(top) /\ top.end <= Len(file)
      /\ \A how : /\ IsFrame(Returned(how))
                  /\ Returned(how).end = top.end /\ Returned(how).start = top.start
  BY TopIsFrame DEF Inv
<1>1. CASE ReadMode
  <2>. DEFINE next == IF top.pos >= top.end THEN top.end ELSE AfterMode(top)
              f == IF next = -1 THEN Returned("failed")
                                ELSE [top EXCEPT !.at = "effects", !.pos = next]
  <2>1. lists' = Front(lists) \o <<f>> /\ file' = file
    BY <1>1 DEF ReadMode
  <2>2. next = -1 \/ (next \in Nat /\ next <= top.end /\ top.start <= next)
    <3>1. top.pos < top.end => AfterMode(top) = -1 \/ (AfterMode(top) \in Nat /\ AfterMode(top) <= top.end)
      BY <1>0, ModeInside
    <3>2. top.pos < top.end => AfterMode(top) = -1 \/ top.pos <= AfterMode(top)
      BY <1>0, ModeAdvances
    <3>. QED
      BY <1>0, <3>1, <3>2 DEF IsFrame
  <2>. HIDE DEF next
  <2>3. IsFrame(f) /\ f.end = top.end /\ f.start = top.start
    <3>1. CASE next = -1
      BY <1>0, <3>1
    <3>2. CASE next # -1
      <4>2. next \in Nat /\ top.start <= next /\ next <= top.end
        BY <2>2, <3>2
      <4>. DEFINE g == [top EXCEPT !.at = "effects", !.pos = next]
      <4>3. IsFrame(g) /\ g.end = top.end /\ g.start = top.start
        BY <1>0, <4>2, Moves, ZenonT(30)
      <4>. HIDE DEF g
      <4>. QED
        BY <3>2, <4>3 DEF g
    <3>. QED
      BY <3>1, <3>2
  <2>. HIDE DEF f
  <2>. QED
    BY <2>1, <2>3, TopChanged
<1>2. CASE TruncatedEffect \/ EndOfList
  <2>1. PICK how : lists' = Front(lists) \o <<Returned(how)>> /\ file' = file
    BY <1>2 DEF TruncatedEffect, EndOfList
  <2>. QED
    BY <1>0, <2>1, TopChanged
<1>3. CASE PlainEffect \/ CommentEffect
  <2>1. More(top) /\ Fits(top) /\ file' = file
    BY <1>3 DEF PlainEffect, CommentEffect
  <2>2. PICK effects : lists' = Front(lists) \o <<Past(top, EffectAt(top), effects)>>
    BY <1>3 DEF PlainEffect, CommentEffect
  <2>. DEFINE g == Past(top, EffectAt(top), effects)
  <2>3. IsFrame(g) /\ g.end = top.end /\ g.start = top.start
    BY <1>0, <2>1, PastIsFrame
  <2>. HIDE DEF g
  <2>. QED
    BY <2>1, <2>2, <2>3, TopChanged DEF g
<1>4. CASE EnterList
  <2>. DEFINE n == Len(lists)
              inner == Frame(EffectAt(top).start, EffectAt(top).end)
  <2>1. More(top) /\ Fits(top) /\ file' = file /\ lists' = Append(lists, inner)
    BY <1>4 DEF EnterList
  <2>2. /\ n \in Nat /\ n > 0 /\ DOMAIN lists = 1..n /\ top = lists[n]
    BY Indices DEF Inv, top, Last
  <2>3. /\ IsSeq(lists') /\ Len(lists') = n + 1
        /\ lists'[n + 1] = inner
        /\ \A i \in 1..n : lists'[i] = lists[i]
    BY <2>1, OneMore DEF Inv
  <2>4. DOMAIN lists' = 1..n + 1
    BY <2>3, Indices
  <2>5. /\ EffectAt(top).start \in Nat /\ EffectAt(top).end \in Nat
        /\ top.pos + 2 <= EffectAt(top).start /\ EffectAt(top).start <= EffectAt(top).end
        /\ EffectAt(top).end <= top.end
    BY <1>0, <2>1, PayloadInside
  <2>6. /\ IsFrame(inner) /\ inner.end <= Len(file) /\ inner.end = EffectAt(top).end
        /\ inner.start = EffectAt(top).start
    <3>1. Len(file) \in Nat
      BY <1>0, LenProperties
    <3>. DEFINE start == EffectAt(top).start
                end   == EffectAt(top).end
    <3>2. top.end \in Nat
      BY <1>0, FrameFields
    <3>3. inner = [start |-> start, end |-> end, pos |-> start, at |-> "mode", chain |-> <<>>]
      BY DEF Frame
    <3>4. start \in Nat /\ end \in Nat /\ start <= end /\ end <= top.end
      BY <2>5
    <3>. HIDE DEF start, end
    <3>5. inner \in [start : Nat, end : Nat, pos : Nat, at : {"mode"}, chain : {<<>>}]
          /\ inner.start = start /\ inner.end = end /\ inner.pos = start
      BY <3>3, <3>4
    <3>. HIDE DEF inner
    <3>6. IsFrame(inner)
      <4>1. \E A, C : inner \in [start : Nat, end : Nat, pos : Nat, at : A, chain : C]
        BY <3>5, Zenon
      <4>2. inner.start <= inner.pos /\ inner.pos <= inner.end
        BY <3>4, <3>5
      <4>. QED
        BY <4>1, <4>2 DEF IsFrame
    <3>. QED
      BY <1>0, <3>1, <3>2, <3>4, <3>5, <3>6 DEF start, end
  <2>7. 2 * n <= inner.start
    <3>1. 2 * (n - 1) <= top.start
      BY <2>2 DEF Inv
    <3>. QED
      BY <1>0, <2>2, <2>5, <2>6, <3>1 DEF IsFrame
  <2>. HIDE DEF inner
  <2>8. \A i \in 1..n + 1 : /\ IsFrame(lists'[i]) /\ lists'[i].end <= Len(file)
                            /\ 2 * (i - 1) <= lists'[i].start
    <3>1. \A i \in 1..n : /\ IsFrame(lists'[i]) /\ lists'[i].end <= Len(file)
                          /\ 2 * (i - 1) <= lists'[i].start
      BY <2>2, <2>3 DEF Inv
    <3>2. \A i \in 1..n + 1 : i \in 1..n \/ i = n + 1
      BY <2>2
    <3>3. n + 1 - 1 = n
      BY <2>2
    <3>. QED
      BY <2>3, <2>6, <2>7, <3>1, <3>2, <3>3
  <2>9. ASSUME NEW i \in 1..n + 1, i < n + 1 PROVE Nested(lists[i], lists[i + 1])'
    <3>1. Nested(lists[i], lists'[i + 1]) /\ lists'[i] = lists[i]
      <4>1. CASE i = n
        BY <2>1, <2>2, <2>3, <2>6, <4>1 DEF Nested
      <4>2. CASE i < n
        <5>1. i \in DOMAIN lists /\ i + 1 \in 1..n /\ i \in 1..n
          BY <2>2, <2>9, <4>2
        <5>2. Nested(lists[i], lists[i + 1])
          BY <4>2, <5>1 DEF Inv
        <5>. QED
          BY <2>3, <5>1, <5>2
      <4>. QED
        BY <2>2, <2>9, <4>1, <4>2
    <3>. QED
      BY <2>1, <3>1 DEF Nested, More, Fits, EffectAt, Header, IsApe
  <2>. QED
    <3>1. n + 1 > 0
      BY <2>2
    <3>2. \A i \in 1..n + 1 : IsFrame(lists[i])'
      BY <2>8 DEF IsFrame
    <3>. QED
      BY <1>0, <2>1, <2>3, <2>4, <2>8, <2>9, <3>1, <3>2 DEF Inv
<1>5. CASE LeaveList
  <2>. DEFINE n == Len(lists)
              outer == lists[n - 1]
  <2>1. n > 1 /\ file' = file
    BY <1>5 DEF LeaveList
  <2>2. PICK effects : lists' = SubSeq(lists, 1, n - 2) \o <<Past(outer, EffectAt(outer), effects)>>
    BY <1>5 DEF LeaveList
  <2>. DEFINE g == Past(outer, EffectAt(outer), effects)
  <2>3. n \in Nat /\ DOMAIN lists = 1..n /\ n - 1 \in 1..n /\ n - 1 < n
    BY <2>1, Indices DEF Inv
  <2>4. /\ IsFrame(outer) /\ outer.end <= Len(file) /\ More(outer) /\ Fits(outer)
    BY <2>3 DEF Inv, Nested
  <2>5. IsFrame(g) /\ g.end = outer.end /\ g.start = outer.start
    BY <1>0, <2>4, PastIsFrame
  <2>6. /\ IsSeq(lists') /\ Len(lists') = n - 1
        /\ lists'[n - 1] = g
        /\ \A i \in 1..n - 2 : lists'[i] = lists[i]
    BY <2>1, <2>2, LastTwoReplaced DEF Inv
  <2>. HIDE DEF g
  <2>7. DOMAIN lists' = 1..n - 1
    BY <2>6, Indices
  <2>8. \A i \in 1..n - 1 : /\ i \in DOMAIN lists
                            /\ IsFrame(lists'[i]) /\ lists'[i].end = lists[i].end
                            /\ lists'[i].start = lists[i].start
    <3>1. \A m \in Nat : \A i \in 1..m - 1 : i \in 1..m - 2 \/ i = m - 1
      OBVIOUS
    <3>2. \A i \in 1..n - 1 : i \in DOMAIN lists
      BY <2>3
    <3>3. \A i \in 1..n - 2 : IsFrame(lists[i])
      BY <2>3 DEF Inv
    <3>. QED
      BY <2>3, <2>5, <2>6, <3>1, <3>2, <3>3
  <2>9. \A i \in 1..n - 1 : /\ IsFrame(lists'[i]) /\ lists'[i].end <= Len(file)
                            /\ 2 * (i - 1) <= lists'[i].start
    BY <2>8 DEF Inv
  <2>10. ASSUME NEW i \in 1..n - 1, i < n - 1 PROVE Nested(lists[i], lists[i + 1])'
    <3>1. Nested(lists[i], lists[i + 1]) /\ lists'[i] = lists[i] /\ lists'[i + 1].end = lists[i + 1].end
      <4>1. i \in DOMAIN lists /\ i < n /\ i \in 1..n - 2 /\ i + 1 \in 1..n - 1
        BY <2>3, <2>10
      <4>2. Nested(lists[i], lists[i + 1])
        BY <4>1 DEF Inv
      <4>. QED
        BY <2>6, <2>8, <4>1, <4>2
    <3>. QED
      BY <2>1, <3>1 DEF Nested, More, Fits, EffectAt, Header, IsApe
  <2>. QED
    <3>1. n - 1 > 0
      BY <2>1, <2>3
    <3>2. \A i \in 1..n - 1 : IsFrame(lists[i])'
      BY <2>9 DEF IsFrame
    <3>. QED
      BY <1>0, <2>1, <2>6, <2>7, <2>9, <2>10, <3>1, <3>2 DEF Inv
<1>6. CASE UNCHANGED presetParserVars
  BY <1>6 DEF presetParserVars, Inv, Nested, More, Fits, EffectAt, Header, IsApe
<1>. QED
  BY <1>1, <1>2, <1>3, <1>4, <1>5, <1>6 DEF PresetParserNext

-------------------------------------------------------------------------------
\* Whatever the file holds, no list reads beyond its end, and it ends where the
\* length in front of it says, inside the list around it.
THEOREM ListsStayInside == PresetParserSpec => []InsideList
<1>1. Inv => InsideList
  <2>. SUFFICES ASSUME Inv, NEW i \in DOMAIN lists
                PROVE  /\ lists[i].pos <= lists[i].end
                       /\ lists[i].end <= (IF i = 1 THEN Len(file) ELSE lists[i - 1].end)
    BY DEF InsideList
  <2>1. lists[i].pos <= lists[i].end /\ lists[i].end <= Len(file)
    BY DEF Inv, IsFrame
  <2>2. ASSUME i # 1 PROVE lists[i].end <= lists[i - 1].end
    <3>. DEFINE outer == lists[i - 1]
    <3>1. i - 1 \in DOMAIN lists /\ i - 1 < Len(lists) /\ i - 1 + 1 = i
      BY <2>2, Indices DEF Inv
    <3>2. /\ IsFrame(outer) /\ outer.end <= Len(file)
          /\ More(outer) /\ Fits(outer) /\ lists[i].end = EffectAt(outer).end
      BY <3>1 DEF Inv, Nested
    <3>. QED
      BY <3>2, PayloadInside DEF Inv
  <2>. QED
    BY <2>1, <2>2
<1>. QED
  BY AtStart, InvStep, <1>1, PTL DEF PresetParserSpec

\* The recursion of parseRenderListChunk ends: every call takes two cells at least
\* away from the file, so there are never more of them than half its length.
THEOREM RecursionBounded == PresetParserSpec => [](2 * (Len(lists) - 1) <= Len(file))
<1>1. Inv => 2 * (Len(lists) - 1) <= Len(file)
  <2>. SUFFICES ASSUME Inv PROVE 2 * (Len(lists) - 1) <= Len(file)
    OBVIOUS
  <2>1. Len(lists) \in DOMAIN lists /\ Len(lists) \in Nat /\ Len(file) \in Nat
    BY Indices, LenProperties DEF Inv
  <2>. DEFINE last == lists[Len(lists)]
  <2>2. /\ 2 * (Len(lists) - 1) <= last.start /\ IsFrame(last) /\ last.end <= Len(file)
    BY <2>1 DEF Inv
  <2>. QED
    BY <2>1, <2>2 DEF IsFrame
<1>. QED
  BY AtStart, InvStep, <1>1, PTL DEF PresetParserSpec

-------------------------------------------------------------------------------
(* What the writers of effects guarantee: the header says how long the effect is, *)
(* and reading it gives what the effect parses to.                               *)

\* What reading an effect as it is written gives.
ReadOf(e) ==
  [id      |-> e.cells[1],
   name    |-> IF IsApe(e.cells[1]) THEN e.cells[2] ELSE Nul,
   payload |-> SubSeq(e.cells, Header(e.cells[1]) + 1, Len(e.cells))]

\* One cell, two or four in front of a sequence.
LEMMA InFront ==
  ASSUME NEW h, IsSeq(h), NEW p, IsSeq(p)
  PROVE  /\ IsSeq(h \o p) /\ Len(h \o p) = Len(h) + Len(p)
         /\ SubSeq(h \o p, Len(h) + 1, Len(h \o p)) = p
         /\ \A i \in 1..Len(h) : (h \o p)[i] = h[i]
<1>1. PICK c : c = h \o p
  OBVIOUS
<1>2. /\ IsSeq(c) /\ Len(c) = Len(h) + Len(p)
      /\ \A i \in 1..Len(h) : c[i] = h[i]
      /\ \A i \in 1..Len(p) : c[Len(h) + i] = p[i]
  BY <1>1, Joined
<1>3. Len(h) \in Nat /\ Len(p) \in Nat /\ Len(c) \in Nat
  BY <1>2, Indices
<1>4. PICK q : q = SubSeq(c, Len(h) + 1, Len(c))
  OBVIOUS
<1>5. /\ IsSeq(q) /\ Len(q) = Len(c) - (Len(h) + 1) + 1
      /\ \A i \in 1..Len(c) - (Len(h) + 1) + 1 : q[i] = c[Len(h) + 1 + i - 1]
  <2>1. /\ Len(h) + 1 \in Int /\ Len(c) \in Int /\ 1 <= Len(h) + 1
        /\ Len(h) + 1 <= Len(c) + 1 /\ Len(c) <= Len(c)
    BY <1>2, <1>3
  <2> QED
    BY <1>2, <1>4, <2>1, PartOf
<1>6. Len(q) = Len(p)
  BY <1>2, <1>3, <1>5
<1>7. ASSUME NEW i \in 1..Len(q) PROVE q[i] = p[i]
  <2>1. i \in 1..Len(p) /\ i \in 1..Len(c) - (Len(h) + 1) + 1 /\ Len(h) + 1 + i - 1 = Len(h) + i
    BY <1>2, <1>3, <1>6
  <2> QED
    BY <1>2, <1>5, <2>1
<1>8. q = p
  BY <1>5, <1>6, <1>7, SameSeq
<1> QED
  BY <1>1, <1>2, <1>4, <1>8

LEMMA Tuples ==
  /\ \A a : IsSeq(<<a>>) /\ Len(<<a>>) = 1 /\ <<a>>[1] = a
  /\ \A a, b : IsSeq(<<a, b>>) /\ Len(<<a, b>>) = 2 /\ <<a, b>>[1] = a /\ <<a, b>>[2] = b
  /\ \A a, b, c : /\ IsSeq(<<a, b, c>>) /\ Len(<<a, b, c>>) = 3
                  /\ <<a, b, c>>[1] = a /\ <<a, b, c>>[2] = b /\ <<a, b, c>>[3] = c
  /\ \A a, b, c, d : /\ IsSeq(<<a, b, c, d>>) /\ Len(<<a, b, c, d>>) = 4
                     /\ <<a, b, c, d>>[1] = a /\ <<a, b, c, d>>[2] = b
                     /\ <<a, b, c, d>>[3] = c /\ <<a, b, c, d>>[4] = d
<1>1. ASSUME NEW a PROVE IsSeq(<<a>>)
  <2>1. <<a>> \in Seq({a})
    OBVIOUS
  <2> QED
    BY <2>1 DEF IsSeq
<1>2. ASSUME NEW a, NEW b PROVE IsSeq(<<a, b>>)
  <2>1. <<a, b>> \in Seq({a, b})
    OBVIOUS
  <2> QED
    BY <2>1 DEF IsSeq
<1>3. ASSUME NEW a, NEW b, NEW c PROVE IsSeq(<<a, b, c>>)
  <2>1. <<a, b, c>> \in Seq({a, b, c})
    OBVIOUS
  <2> QED
    BY <2>1 DEF IsSeq
<1>4. ASSUME NEW a, NEW b, NEW c, NEW d PROVE IsSeq(<<a, b, c, d>>)
  <2>1. <<a, b, c, d>> \in Seq({a, b, c, d})
    OBVIOUS
  <2> QED
    BY <2>1 DEF IsSeq
<1> QED
  BY <1>1, <1>2, <1>3, <1>4

\* The cells of an effect begin with a header that says how long the payload is.
HeaderSays(e) ==
  LET h == Header(e.cells[1])
  IN /\ Len(e.cells) \in Nat /\ h \in 1..Len(e.cells) /\ h >= 2
     /\ e.cells[h] = Len(e.cells) - h

LEMMA WrittenPlain ==
  ASSUME NEW e \in Effects, e.form \in {"plain", "ape"}
  PROVE  /\ HeaderSays(e)
         /\ e.cells[1] \notin {CommentId, kListId}
         /\ e.chain = <<[kind |-> Kind(ReadOf(e)), id |-> ReadOf(e).id, payload |-> ReadOf(e).payload]>>
         /\ e.comments = <<>>
         /\ e.entries = <<ReadOf(e)>>
         /\ ReadOf(e).payload # <<>> \/ HasName(ReadOf(e))
<1>1. WellFormedPlain(e)
  <2>1. WellFormed(e)
    BY PresetParserAssumption
  <2> QED
    BY <2>1 DEF WellFormed
<1>2. PICK read : read = e.entries[1]
  OBVIOUS
<1>3. /\ read.id \in Nat \ {CommentId, kListId} /\ read.payload \in Seq(Nat)
      /\ read.payload # <<>> \/ HasName(read)
      /\ e.form = "plain" => ~IsApe(read.id) /\ e = Leaf(Kind(read), read.id, read.payload)
      /\ e.form = "ape" => IsApe(read.id) /\ e = Ape(Kind(read), read.id, read.name, read.payload)
  BY <1>1, <1>2 DEF WellFormedPlain
<1>4. IsSeq(read.payload) /\ Len(read.payload) \in Nat
  BY <1>3, Indices DEF IsSeq
<1>5. CASE e.form = "plain"
  <2>1. PICK h : h = <<read.id, Len(read.payload)>>
    OBVIOUS
  <2>2. /\ e.cells = h \o read.payload
        /\ e.chain = <<[kind |-> Kind(read), id |-> read.id, payload |-> read.payload]>>
        /\ e.comments = <<>>
        /\ e.entries = <<[id |-> read.id, name |-> Nul, payload |-> read.payload]>>
    BY <1>3, <1>5, <2>1 DEF Leaf
  <2>3. IsSeq(h) /\ Len(h) = 2 /\ h[1] = read.id /\ h[2] = Len(read.payload)
    BY <2>1, Tuples
  <2>4. /\ Len(e.cells) = 2 + Len(read.payload) /\ SubSeq(e.cells, 2 + 1, Len(e.cells)) = read.payload
        /\ e.cells[1] = read.id /\ e.cells[2] = Len(read.payload)
    <3>1. /\ Len(e.cells) = Len(h) + Len(read.payload)
          /\ SubSeq(e.cells, Len(h) + 1, Len(e.cells)) = read.payload
          /\ \A i \in 1..Len(h) : e.cells[i] = h[i]
      <4>1. IsSeq(h) /\ IsSeq(read.payload) /\ e.cells = h \o read.payload
        BY <1>4, <2>2, <2>3
      <4> QED
        BY <4>1, InFront
    <3> QED
      BY <2>3, <3>1
  <2>5. ~IsApe(e.cells[1]) /\ Header(e.cells[1]) = 2
    BY <1>3, <1>5, <2>4 DEF Header
  <2>6. ReadOf(e) = [id |-> read.id, name |-> Nul, payload |-> read.payload]
    BY <2>4, <2>5 DEF ReadOf
  <2>7. read = ReadOf(e)
    BY <1>2, <2>2, <2>6, Tuples
  <2>8. HeaderSays(e)
    BY <1>4, <2>4, <2>5 DEF HeaderSays
  <2> QED
    BY <1>3, <2>2, <2>4, <2>6, <2>7, <2>8
<1>6. CASE e.form = "ape"
  <2>1. PICK h : h = <<read.id, read.name, Nul, Len(read.payload)>>
    OBVIOUS
  <2>2. /\ e.cells = h \o read.payload
        /\ e.chain = <<[kind |-> Kind(read), id |-> read.id, payload |-> read.payload]>>
        /\ e.comments = <<>>
        /\ e.entries = <<[id |-> read.id, name |-> read.name, payload |-> read.payload]>>
    BY <1>3, <1>6, <2>1 DEF Ape
  <2>3. IsSeq(h) /\ Len(h) = 4 /\ h[1] = read.id /\ h[2] = read.name /\ h[4] = Len(read.payload)
    BY <2>1, Tuples
  <2>4. /\ Len(e.cells) = 4 + Len(read.payload) /\ SubSeq(e.cells, 4 + 1, Len(e.cells)) = read.payload
        /\ e.cells[1] = read.id /\ e.cells[2] = read.name /\ e.cells[4] = Len(read.payload)
    <3>1. /\ Len(e.cells) = Len(h) + Len(read.payload)
          /\ SubSeq(e.cells, Len(h) + 1, Len(e.cells)) = read.payload
          /\ \A i \in 1..Len(h) : e.cells[i] = h[i]
      <4>1. IsSeq(h) /\ IsSeq(read.payload) /\ e.cells = h \o read.payload
        BY <1>4, <2>2, <2>3
      <4> QED
        BY <4>1, InFront
    <3> QED
      BY <2>3, <3>1
  <2>5. IsApe(e.cells[1]) /\ Header(e.cells[1]) = 4
    BY <1>3, <1>6, <2>4 DEF Header, ApeCells
  <2>6. ReadOf(e) = [id |-> read.id, name |-> read.name, payload |-> read.payload]
    BY <2>4, <2>5 DEF ReadOf
  <2>7. read = ReadOf(e)
    BY <1>2, <2>2, <2>6, Tuples
  <2>8. HeaderSays(e)
    BY <1>4, <2>4, <2>5 DEF HeaderSays
  <2> QED
    BY <1>3, <2>2, <2>4, <2>6, <2>7, <2>8
<1> QED
  BY <1>5, <1>6

LEMMA WrittenList ==
  ASSUME NEW e \in Effects, e.form = "list"
  PROVE  /\ HeaderSays(e)
         /\ e.cells[1] = kListId
         /\ e.effects \in Seq(Effects) /\ WellFormedMode(e.mode)
         /\ e.chain = <<[kind |-> "list", id |-> kListId, children |-> All(e.effects, "chain")]>>
         /\ e.comments = All(e.effects, "comments")
         /\ e.entries = All(e.effects, "entries") \o <<ReadOf(e)>>
         /\ ReadOf(e).payload = CellsOf(e)
<1>1. /\ e = List(e.mode, e.effects) /\ WellFormedMode(e.mode)
      /\ e.effects \in Seq(Effects) /\ e.cells \in Seq(Nat)
  <2>1. WellFormed(e)
    BY PresetParserAssumption
  <2> QED
    BY <2>1 DEF WellFormed
<1>2. PICK payload : payload = e.mode \o All(e.effects, "cells")
  OBVIOUS
<1>3. PICK h : h = <<kListId, Len(payload)>>
  OBVIOUS
<1>4. /\ e.cells = h \o payload
      /\ e.chain = <<[kind |-> "list", id |-> kListId, children |-> All(e.effects, "chain")]>>
      /\ e.comments = All(e.effects, "comments")
      /\ e.entries = All(e.effects, "entries") \o <<[id |-> kListId, name |-> Nul, payload |-> payload]>>
  <2>1. PICK mode, effects : mode = e.mode /\ effects = e.effects
    OBVIOUS
  <2>2. e = List(mode, effects)
    BY <1>1, <2>1
  <2>3. h = <<kListId, Len(mode \o All(effects, "cells"))>> /\ payload = mode \o All(effects, "cells")
    BY <1>2, <1>3, <2>1
  <2>4. /\ e.cells = h \o payload
        /\ e.chain = <<[kind |-> "list", id |-> kListId, children |-> All(effects, "chain")]>>
        /\ e.comments = All(effects, "comments")
        /\ e.entries = All(effects, "entries") \o <<[id |-> kListId, name |-> Nul, payload |-> payload]>>
    BY <2>2, <2>3 DEF List
  <2> QED
    BY <2>1, <2>4
<1>5. IsSeq(h) /\ Len(h) = 2 /\ h[1] = kListId /\ h[2] = Len(payload)
  BY <1>3, Tuples
<1>6. IsSeq(payload) /\ Len(payload) \in Nat
  <2>1. IsSeq(e.mode)
    BY <1>1 DEF WellFormedMode, IsSeq
  <2>2. HaveField(e.effects, "cells")
    <3>1. IsSeq(e.effects) /\ \A i \in 1..Len(e.effects) : e.effects[i] \in Effects
      BY <1>1, ElementOfSeq DEF IsSeq
    <3>2. \A x \in Effects : IsSeq(x.cells)
      BY PresetParserAssumption DEF WellFormed, IsSeq
    <3> QED
      BY <3>1, <3>2 DEF HaveField
  <2>3. IsSeq(All(e.effects, "cells"))
    <3>1. IsSeq(e.effects) /\ Len(e.effects) \in Nat
      BY <2>2, Indices DEF HaveField
    <3>2. Len(e.effects) \in 0..Len(e.effects)
      BY <3>1
    <3> QED
      BY <2>2, <3>1, <3>2, AllIsSeq, AllOfThem
  <2> QED
    BY <1>2, <2>1, <2>3, Joined, Indices
<1>7. /\ Len(e.cells) = 2 + Len(payload) /\ SubSeq(e.cells, 2 + 1, Len(e.cells)) = payload
      /\ e.cells[1] = kListId /\ e.cells[2] = Len(payload)
  <2>1. /\ Len(e.cells) = Len(h) + Len(payload)
        /\ SubSeq(e.cells, Len(h) + 1, Len(e.cells)) = payload
        /\ \A i \in 1..Len(h) : e.cells[i] = h[i]
    <3>1. IsSeq(h) /\ IsSeq(payload) /\ e.cells = h \o payload
      BY <1>4, <1>5, <1>6
    <3> QED
      BY <3>1, InFront
  <2> QED
    BY <1>5, <2>1
<1>8. ~IsApe(e.cells[1]) /\ Header(e.cells[1]) = 2
  BY <1>7 DEF Header, IsApe
<1>9. ReadOf(e) = [id |-> kListId, name |-> Nul, payload |-> payload]
  BY <1>7, <1>8 DEF ReadOf
<1>10. HeaderSays(e)
  BY <1>6, <1>7, <1>8 DEF HeaderSays
<1>11. ReadOf(e).payload = CellsOf(e)
  <2>1. ReadOf(e).payload = payload
    BY <1>9
  <2>2. CellsOf(e) = payload
    BY <1>2, Zenon DEF CellsOf
  <2> QED
    BY <2>1, <2>2
<1>12. e.entries = All(e.effects, "entries") \o <<ReadOf(e)>>
  BY <1>4, <1>9
<1> QED
  BY <1>1, <1>4, <1>7, <1>10, <1>11, <1>12

LEMMA WrittenComment ==
  ASSUME NEW e \in Effects, e.form = "comment"
  PROVE  /\ HeaderSays(e)
         /\ e.cells[1] = CommentId
         /\ e.chain = <<>>
         /\ e.comments = CommentIn(ReadOf(e).payload)
         /\ e.entries = <<ReadOf(e)>>
<1>1. PICK text : text \in Seq(Nat) /\ e = Comment(text)
  <2>1. WellFormed(e)
    BY PresetParserAssumption
  <2>2. e = Comment(e.comments[1]) /\ e.comments \in Seq(Seq(Nat))
    BY <2>1 DEF WellFormed
  <2>3. e.comments = <<e.comments[1]>>
    BY <2>2 DEF Comment
  <2>4. Len(e.comments) = 1
    BY <2>3, Tuples
  <2>5. e.comments[1] \in Seq(Nat)
    BY <2>2, <2>4, ElementOfSeq, 1 \in 1..1
  <2> QED
    BY <2>2, <2>5
<1>2. IsSeq(text) /\ Len(text) \in Nat
  BY <1>1, Indices DEF IsSeq
<1>3. PICK n \in Nat : n = Len(text)
  BY <1>2
<1>4. PICK h, b, p : /\ h = <<CommentId, Len(text) + 2, Len(text) + 1>> /\ b = <<Len(text) + 1>>
                     /\ p = b \o text \o <<Nul>>
  OBVIOUS
<1>5. /\ e.cells = h \o text \o <<Nul>>
      /\ e.chain = <<>> /\ e.comments = <<text>>
      /\ e.entries = <<[id |-> CommentId, name |-> Nul, payload |-> p]>>
  BY <1>1, <1>4 DEF Comment
<1>6. /\ IsSeq(h) /\ Len(h) = 3 /\ h[1] = CommentId /\ h[2] = n + 2 /\ h[3] = n + 1
  BY <1>3, <1>4, Tuples
<1>7. /\ IsSeq(b) /\ Len(b) = 1 /\ b[1] = n + 1
      /\ IsSeq(<<Nul>>) /\ Len(<<Nul>>) = 1 /\ <<Nul>>[1] = Nul
  BY <1>3, <1>4, Tuples
<1>8. PICK ht, pt : ht = h \o text /\ pt = b \o text
  OBVIOUS
<1>9. /\ IsSeq(ht) /\ Len(ht) = 3 + n /\ \A i \in 1..3 : ht[i] = h[i]
      /\ \A i \in 1..n : ht[3 + i] = text[i]
  <2>1. /\ IsSeq(ht) /\ Len(ht) = Len(h) + Len(text) /\ \A i \in 1..Len(h) : ht[i] = h[i]
        /\ \A i \in 1..Len(text) : ht[Len(h) + i] = text[i]
    <3>1. IsSeq(h) /\ IsSeq(text) /\ ht = h \o text
      BY <1>2, <1>6, <1>8
    <3> QED
      BY <3>1, Joined
  <2> QED
    BY <1>3, <1>6, <2>1
<1>10. /\ IsSeq(pt) /\ Len(pt) = 1 + n /\ pt[1] = n + 1
       /\ \A i \in 1..n : pt[1 + i] = text[i]
  <2>1. /\ IsSeq(pt) /\ Len(pt) = Len(b) + Len(text) /\ \A i \in 1..Len(b) : pt[i] = b[i]
        /\ \A i \in 1..Len(text) : pt[Len(b) + i] = text[i]
    <3>1. IsSeq(b) /\ IsSeq(text) /\ pt = b \o text
      BY <1>2, <1>7, <1>8
    <3> QED
      BY <3>1, Joined
  <2> QED
    BY <1>3, <1>7, <2>1
<1>11. /\ IsSeq(e.cells) /\ Len(e.cells) = 4 + n
       /\ e.cells[1] = CommentId /\ e.cells[2] = n + 2 /\ e.cells[3] = n + 1
       /\ \A i \in 1..n : e.cells[3 + i] = text[i]
       /\ e.cells[4 + n] = Nul
  <2>1. e.cells = ht \o <<Nul>>
    BY <1>5, <1>8
  <2>2. /\ IsSeq(e.cells) /\ Len(e.cells) = Len(ht) + 1
        /\ \A i \in 1..Len(ht) : e.cells[i] = ht[i]
        /\ e.cells[Len(ht) + 1] = Nul
    BY <1>7, <1>9, <2>1, Joined, 1 \in 1..1
  <2>3. Len(ht) + 1 = 4 + n /\ \A i \in 1..n : 3 + i \in 1..Len(ht)
    BY <1>9
  <2>4. 1 \in 1..Len(ht) /\ 2 \in 1..Len(ht) /\ 3 \in 1..Len(ht)
    BY <1>9
  <2> QED
    BY <1>6, <1>9, <2>2, <2>3, <2>4
<1>12. /\ IsSeq(p) /\ Len(p) = 2 + n /\ p[1] = n + 1
       /\ \A i \in 1..n : p[1 + i] = text[i]
       /\ p[2 + n] = Nul
  <2>1. p = pt \o <<Nul>>
    BY <1>4, <1>8
  <2>2. /\ IsSeq(p) /\ Len(p) = Len(pt) + 1
        /\ \A i \in 1..Len(pt) : p[i] = pt[i]
        /\ p[Len(pt) + 1] = Nul
    BY <1>7, <1>10, <2>1, Joined, 1 \in 1..1
  <2>3. Len(pt) + 1 = 2 + n /\ 1 \in 1..Len(pt) /\ \A i \in 1..n : 1 + i \in 1..Len(pt)
    BY <1>10
  <2> QED
    BY <1>10, <2>2, <2>3
<1>13. SubSeq(e.cells, 2 + 1, Len(e.cells)) = p
  <2>1. PICK q : q = SubSeq(e.cells, 3, Len(e.cells))
    OBVIOUS
  <2>2. /\ IsSeq(q) /\ Len(q) = Len(e.cells) - 3 + 1
        /\ \A i \in 1..Len(e.cells) - 3 + 1 : q[i] = e.cells[3 + i - 1]
    <3>1. Len(e.cells) \in Int /\ 1 <= 3 /\ 3 <= Len(e.cells) + 1 /\ Len(e.cells) <= Len(e.cells)
      BY <1>11
    <3> QED
      BY <1>11, <2>1, <3>1, PartOf, 3 \in Int
  <2>3. Len(q) = 2 + n
    BY <1>11, <2>2
  <2>4. ASSUME NEW i \in 1..2 + n PROVE q[i] = p[i]
    <3>1. q[i] = e.cells[3 + i - 1]
      BY <1>11, <2>2
    <3>2. CASE i = 1
      BY <1>11, <1>12, <3>1, <3>2
    <3>3. CASE i = 2 + n
      <4>1. 3 + i - 1 = 4 + n
        BY <3>3
      <4> QED
        BY <1>11, <1>12, <3>1, <3>3, <4>1
    <3>4. CASE i # 1 /\ i # 2 + n
      <4>1. PICK j \in 1..n : j = i - 1
        BY <3>4
      <4>2. 3 + i - 1 = 3 + j /\ i = 1 + j
        BY <4>1
      <4> QED
        BY <1>11, <1>12, <3>1, <4>1, <4>2
    <3> QED
      BY <3>2, <3>3, <3>4
  <2>5. q = p
    BY <1>12, <2>2, <2>3, <2>4, SameSeq
  <2> QED
    BY <2>1, <2>5
<1>14. ~IsApe(e.cells[1]) /\ Header(e.cells[1]) = 2
  BY <1>11 DEF Header, IsApe, CommentId, kApeIdBase
<1>15. ReadOf(e) = [id |-> CommentId, name |-> Nul, payload |-> p]
  BY <1>11, <1>13, <1>14 DEF ReadOf
<1>16. HeaderSays(e)
  BY <1>11, <1>14 DEF HeaderSays
<1>17. CommentIn(p) = <<text>>
  <2>1. p # <<>>
    BY <1>12, JoinedToNone
  <2>2. Head(p) = n + 1
    <3>1. PICK S : p \in Seq(S)
      BY <1>12 DEF IsSeq
    <3> QED
      BY <1>12, <2>1, <3>1
  <2>3. PICK t : t = SubSeq(p, 2, 1 + Head(p))
    OBVIOUS
  <2>4. t = SubSeq(p, 2, 2 + n)
    BY <2>2, <2>3
  <2>5. /\ IsSeq(t) /\ Len(t) = n + 1 /\ \A i \in 1..n + 1 : t[i] = p[2 + i - 1]
    <3>1. 2 + n \in Int /\ 1 <= 2 /\ 2 <= 2 + n + 1 /\ 2 + n <= Len(p) /\ (2 + n) - 2 + 1 = n + 1
      BY <1>12
    <3> QED
      BY <1>12, <2>4, <3>1, PartOf, 2 \in Int
  <2>6. t # <<>> /\ Last(t) = Nul
    <3>1. n + 1 \in 1..n + 1 /\ 2 + (n + 1) - 1 = 2 + n
      OBVIOUS
    <3> QED
      BY <1>12, <2>5, <3>1, JoinedToNone DEF Last
  <2>7. Front(t) = text
    <3>1. Front(t) = SubSeq(t, 1, n)
      BY <2>5 DEF Front
    <3>2. PICK u : u = SubSeq(t, 1, n)
      OBVIOUS
    <3>3. /\ IsSeq(u) /\ Len(u) = n /\ \A i \in 1..n : u[i] = t[1 + i - 1]
      <4>1. n \in Int /\ 1 <= 1 /\ 1 <= n + 1 /\ n <= Len(t) /\ n - 1 + 1 = n
        BY <2>5
      <4> QED
        BY <2>5, <3>2, <4>1, PartOf, 1 \in Int
    <3>4. ASSUME NEW i \in 1..n PROVE u[i] = text[i]
      <4>1. 1 + i - 1 = i /\ i \in 1..n + 1 /\ 2 + i - 1 = 1 + i
        OBVIOUS
      <4> QED
        BY <1>12, <2>5, <3>3, <4>1
    <3> QED
      BY <1>2, <1>3, <3>1, <3>2, <3>3, <3>4, SameSeq
  <2>8. ~(p = <<>> \/ Head(p) > Len(p) - 1)
    BY <1>12, <2>1, <2>2
  <2> QED
    BY <2>3, <2>6, <2>7, <2>8 DEF CommentIn
<1> QED
  BY <1>5, <1>11, <1>15, <1>16, <1>17

-------------------------------------------------------------------------------
(* Reading what was written. *)

\* The first n cells of cells lie behind pos in the file.
Holds(pos, cells, n) == \A j \in 1..n : file[pos + j] = cells[j]

\* An effect whose header is intact is read with its id, and its list goes on where
\* it ends.
LEMMA HeaderRead ==
  ASSUME NEW f, IsFrame(f), f.at = "effects", NEW e, HeaderSays(e),
         f.pos + Len(e.cells) <= f.end, Holds(f.pos, e.cells, Header(e.cells[1]))
  PROVE  /\ More(f) /\ Fits(f)
         /\ EffectAt(f).id = e.cells[1]
         /\ EffectAt(f).name = IF IsApe(e.cells[1]) THEN e.cells[2] ELSE Nul
         /\ EffectAt(f).start = f.pos + Header(e.cells[1])
         /\ EffectAt(f).end = f.pos + Len(e.cells)
<1>1. PICK h : h = Header(e.cells[1])
  OBVIOUS
<1>2. Len(e.cells) \in Nat /\ h \in 1..Len(e.cells) /\ h >= 2 /\ e.cells[h] = Len(e.cells) - h
  BY <1>1 DEF HeaderSays
<1>3. f.pos \in Nat /\ f.end \in Nat
  BY FrameFields
<1>4. file[f.pos + 1] = e.cells[1] /\ file[f.pos + 2] = e.cells[2] /\ file[f.pos + h] = e.cells[h]
  <2>1. 1 \in 1..h /\ 2 \in 1..h /\ h \in 1..h
    BY <1>2
  <2> QED
    BY <1>1, <2>1 DEF Holds
<1>5. Header(file[f.pos + 1]) = h
  BY <1>1, <1>4
<1>6. /\ EffectAt(f).id = file[f.pos + 1]
      /\ EffectAt(f).name = IF IsApe(file[f.pos + 1]) THEN file[f.pos + 2] ELSE Nul
      /\ EffectAt(f).start = f.pos + h
      /\ EffectAt(f).end = f.pos + h + file[f.pos + h]
  BY <1>5 DEF EffectAt
<1>7. EffectAt(f).end = f.pos + Len(e.cells)
  BY <1>2, <1>3, <1>4, <1>6
<1>8. More(f)
  BY <1>2, <1>3 DEF More
<1>9. Fits(f)
  <2>1. f.pos + h <= f.end
    BY <1>2, <1>3
  <2> QED
    BY <1>5, <1>7, <2>1 DEF Fits
<1> QED
  BY <1>1, <1>4, <1>6, <1>7, <1>8, <1>9

\* An intact effect is read as it was written.
LEMMA WholeRead ==
  ASSUME file \in Seq(Nat), NEW f, IsFrame(f), f.at = "effects", f.end <= Len(file),
         NEW e, HeaderSays(e), IsSeq(e.cells),
         f.pos + Len(e.cells) <= f.end, Holds(f.pos, e.cells, Len(e.cells))
  PROVE  /\ More(f) /\ Fits(f)
         /\ ReadEntry(EffectAt(f)) = ReadOf(e)
         /\ EffectAt(f).id = e.cells[1]
         /\ EffectAt(f).start = f.pos + Header(e.cells[1])
         /\ EffectAt(f).end = f.pos + Len(e.cells)
<1>1. PICK h, n : h = Header(e.cells[1]) /\ n = Len(e.cells)
  OBVIOUS
<1>2. n \in Nat /\ h \in 1..n /\ h >= 2
  BY <1>1 DEF HeaderSays
<1>3. Holds(f.pos, e.cells, Header(e.cells[1]))
  BY <1>1, <1>2 DEF Holds
<1>4. /\ More(f) /\ Fits(f)
      /\ EffectAt(f).id = e.cells[1]
      /\ EffectAt(f).name = IF IsApe(e.cells[1]) THEN e.cells[2] ELSE Nul
      /\ EffectAt(f).start = f.pos + h
      /\ EffectAt(f).end = f.pos + n
  BY <1>1, <1>3, HeaderRead
<1>5. PICK p \in Nat : p = f.pos
  BY FrameFields
<1>6. p + n <= Len(file) /\ Len(file) \in Nat /\ IsSeq(file)
  <2>1. f.end \in Nat /\ Len(file) \in Nat /\ IsSeq(file)
    BY FrameFields, LenProperties DEF IsSeq
  <2> QED
    BY <1>1, <1>2, <1>5, <2>1
<1>7. PICK s, t : s = Slice(p + h, p + n) /\ t = SubSeq(e.cells, h + 1, n)
  OBVIOUS
<1>8. /\ IsSeq(s) /\ Len(s) = n - h
      /\ \A i \in 1..n - h : s[i] = file[p + (h + i)]
  <2>1. /\ p + h + 1 \in Int /\ p + n \in Int /\ 1 <= p + h + 1 /\ p + h + 1 <= p + n + 1 /\ p + n <= Len(file)
        /\ p + n - (p + h + 1) + 1 = n - h
    BY <1>2, <1>6
  <2>2. s = SubSeq(file, p + h + 1, p + n)
    BY <1>7 DEF Slice
  <2>3. PICK m \in Int, k \in Int : m = p + h + 1 /\ k = p + n
    BY <2>1
  <2>4. s = SubSeq(file, m, k) /\ 1 <= m /\ m <= k + 1 /\ k <= Len(file)
    BY <2>1, <2>2, <2>3
  <2>5. IsSeq(s) /\ Len(s) = k - m + 1 /\ \A i \in 1..k - m + 1 : s[i] = file[m + i - 1]
    BY <1>6, <2>4, PartOf
  <2>6. k - m + 1 = n - h /\ \A i \in 1..n - h : m + i - 1 = p + (h + i)
    BY <1>2, <2>3
  <2> QED
    BY <2>5, <2>6
<1>9. /\ IsSeq(t) /\ Len(t) = n - h
      /\ \A i \in 1..n - h : t[i] = e.cells[h + i]
  <2>1. /\ h + 1 \in Int /\ n \in Int /\ 1 <= h + 1 /\ h + 1 <= n + 1 /\ n <= Len(e.cells)
        /\ n - (h + 1) + 1 = n - h
    BY <1>1, <1>2
  <2>2. /\ IsSeq(t) /\ Len(t) = n - (h + 1) + 1
        /\ \A i \in 1..n - (h + 1) + 1 : t[i] = e.cells[h + 1 + i - 1]
    BY <1>7, <2>1, PartOf
  <2>3. \A i \in 1..n - h : h + 1 + i - 1 = h + i
    BY <1>2
  <2> QED
    BY <2>1, <2>2, <2>3
<1>10. ASSUME NEW i \in 1..n - h PROVE s[i] = t[i]
  <2>1. h + i \in 1..n
    BY <1>2
  <2>2. file[p + (h + i)] = e.cells[h + i]
    BY <1>1, <1>5, <2>1 DEF Holds
  <2> QED
    BY <1>8, <1>9, <2>2
<1>11. s = t
  BY <1>8, <1>9, <1>10, SameSeq
<1>12. Slice(EffectAt(f).start, EffectAt(f).end) = SubSeq(e.cells, h + 1, n)
  BY <1>4, <1>5, <1>7, <1>11
<1>13. ReadEntry(EffectAt(f)) = ReadOf(e)
  BY <1>1, <1>4, <1>12 DEF ReadEntry, ReadOf
<1> QED
  BY <1>1, <1>4, <1>13

\* The mode of a list that is intact is read to its end.
LEMMA ModeRead ==
  ASSUME file \in Seq(Nat), NEW f, IsFrame(f), NEW mode, WellFormedMode(mode),
         f.pos + Len(mode) <= f.end, Holds(f.pos, mode, Len(mode))
  PROVE  ~(f.pos >= f.end) /\ AfterMode(f) = f.pos + Len(mode)
<1>1. Len(mode) \in Nat /\ Len(mode) # 0
  <2>1. IsSeq(mode) /\ mode # <<>>
    BY DEF WellFormedMode, IsSeq
  <2> QED
    BY <2>1, NoneOf, Indices
<1>2. f.pos \in Nat /\ f.end \in Nat
  BY FrameFields
<1>3. \A j \in 1..Len(mode) : mode[j] \in Nat /\ file[f.pos + j] = mode[j]
  BY ElementOfSeq DEF WellFormedMode, Holds
<1>4. mode[1] \in Nat /\ file[f.pos + 1] = mode[1]
  BY <1>1, <1>3
<1>5. CASE mode[1] < Flagged
  <2>1. Len(mode) = 1
    BY <1>5 DEF WellFormedMode
  <2> QED
    BY <1>2, <1>4, <1>5, <2>1 DEF AfterMode
<1>6. CASE ~(mode[1] < Flagged)
  <2>1. Len(mode) > 1 /\ Len(mode) = (IF mode[2] > 0 THEN mode[2] + 1 ELSE 2)
    BY <1>6 DEF WellFormedMode
  <2>2. mode[2] \in Nat /\ file[f.pos + 2] = mode[2]
    BY <1>1, <1>3, <2>1
  <2>3. PICK p \in Nat, n \in Nat, m \in Nat : p = f.pos /\ n = f.end /\ m = mode[2]
    BY <1>2, <2>2
  <2>4. AfterMode(f) = IF p + 2 > n THEN -1
                       ELSE LET declared == IF m > 0 THEN m - 1 ELSE 0
                            IN IF p + 2 + declared <= n THEN p + 2 + declared ELSE -1
    BY <1>4, <1>6, <2>2, <2>3 DEF AfterMode
  <2>5. PICK l \in Nat : l = Len(mode) /\ l = (IF m > 0 THEN m + 1 ELSE 2)
    BY <1>1, <2>1, <2>3
  <2>6. p + l <= n
    BY <2>3, <2>5
  <2>7. ~(p + 2 > n) /\ ~(p >= n)
    BY <2>5, <2>6
  <2>8. m > 0 => l = m + 1 /\ p + 2 + (m - 1) = p + l
    BY <2>5
  <2>9. ~(m > 0) => p + 2 + 0 = p + l
    BY <2>5
  <2>10. AfterMode(f) = p + l
    BY <2>4, <2>6, <2>7, <2>8, <2>9
  <2> QED
    BY <2>3, <2>5, <2>7, <2>10
<1> QED
  BY <1>5, <1>6

\* The next effect of the list f is e, all of it.
Next(f, e) ==
  /\ f.at = "effects"
  /\ f.pos + Len(e.cells) <= f.end
  /\ Holds(f.pos, e.cells, Len(e.cells))

LEMMA EffectFields ==
  ASSUME NEW e \in Effects
  PROVE  /\ HeaderSays(e) /\ e.form \in {"plain", "ape", "comment", "list"}
         /\ IsSeq(e.cells) /\ IsSeq(e.chain) /\ IsSeq(e.comments) /\ IsSeq(e.entries)
<1>1. WellFormed(e)
  BY PresetParserAssumption
<1>2. /\ IsSeq(e.cells) /\ IsSeq(e.comments) /\ IsSeq(e.entries)
      /\ e.form \in {"plain", "ape", "comment", "list"}
  BY <1>1 DEF WellFormed, IsSeq
<1>3. ASSUME NEW x PROVE IsSeq(<<x>>)
  BY Tuples
<1>4. CASE e.form \in {"plain", "ape"}
  <2>1. HeaderSays(e)
    BY <1>4, WrittenPlain, Zenon
  <2>2. PICK x : e.chain = <<x>>
    BY <1>4, WrittenPlain, Zenon
  <2> QED
    BY <1>2, <1>3, <2>1, <2>2
<1>5. CASE e.form = "comment"
  BY <1>2, <1>5, WrittenComment, JoinedToNone
<1>6. CASE e.form = "list"
  <2>1. HeaderSays(e)
    BY <1>6, WrittenList, Zenon
  <2>2. PICK x : e.chain = <<x>>
    BY <1>6, WrittenList, Zenon
  <2> QED
    BY <1>2, <1>3, <2>1, <2>2
<1> QED
  BY <1>2, <1>4, <1>5, <1>6

\* f has gone on behind e.
Behind(f, e) == [f EXCEPT !.pos = f.pos + Len(e.cells), !.chain = f.chain \o e.chain]

LEMMA TopRead ==
  ASSUME Inv, NEW e \in Effects, Next(top, e)
  PROVE  /\ More(top) /\ Fits(top)
         /\ ReadEntry(EffectAt(top)) = ReadOf(e)
         /\ EffectAt(top).id = e.cells[1]
         /\ EffectAt(top).start = top.pos + Header(e.cells[1])
         /\ EffectAt(top).end = top.pos + Len(e.cells)
<1>1. file \in Seq(Nat) /\ IsFrame(top) /\ top.end <= Len(file)
  BY TopIsFrame DEF Inv
<1> QED
  BY <1>1, EffectFields, WholeRead DEF Next

\* An intact effect that is not a list comes out as it was written.
LEMMA EffectParsed ==
  ASSUME Inv, IsSeq(comments), NEW e \in Effects, e.form # "list", Next(top, e), PresetParserNext
  PROVE  /\ lists' = Front(lists) \o <<Behind(top, e)>>
         /\ comments' = comments \o e.comments
         /\ entries' = entries \o e.entries
         /\ UNCHANGED <<file, origin>>
<1>1. /\ More(top) /\ Fits(top)
      /\ ReadEntry(EffectAt(top)) = ReadOf(e)
      /\ EffectAt(top).id = e.cells[1]
      /\ EffectAt(top).end = top.pos + Len(e.cells)
  BY TopRead
<1>2. top.at = "effects"
  BY DEF Next
<1>3. PICK x : x = EffectAt(top)
  OBVIOUS
<1>4. /\ ReadEntry(x) = ReadOf(e) /\ x.id = e.cells[1] /\ x.end = top.pos + Len(e.cells)
      /\ Slice(x.start, x.end) = ReadOf(e).payload /\ x.id = ReadOf(e).id
  BY <1>1, <1>3 DEF ReadEntry
<1>5. CASE e.form = "comment"
  <2>1. /\ e.cells[1] = CommentId /\ e.chain = <<>>
        /\ e.comments = CommentIn(ReadOf(e).payload) /\ e.entries = <<ReadOf(e)>>
    BY <1>5, WrittenComment
  <2>2. CommentEffect
    BY <1>1, <1>2, <2>1 DEF PresetParserNext, ReadMode, TruncatedEffect, PlainEffect, EnterList,
                             LeaveList, EndOfList, CommentId, kListId
  <2>3. /\ comments' = comments \o CommentIn(Slice(x.start, x.end))
        /\ entries' = entries \o Entry(x)
        /\ lists' = Front(lists) \o <<Past(top, x, <<>>)>>
        /\ UNCHANGED <<file, origin>>
    BY <1>3, <2>2 DEF CommentEffect
  <2>4. Entry(x) = e.entries
    BY <1>4, <2>1 DEF Entry
  <2>5. Past(top, x, <<>>) = Behind(top, e)
    BY <1>4, <2>1 DEF Past, Behind
  <2> QED
    BY <1>4, <2>1, <2>3, <2>4, <2>5
<1>6. CASE e.form \in {"plain", "ape"}
  <2>1. PICK r : r = ReadOf(e)
    OBVIOUS
  <2>2. /\ e.cells[1] \notin {CommentId, kListId}
        /\ e.chain = <<[kind |-> Kind(r), id |-> r.id, payload |-> r.payload]>>
        /\ e.comments = <<>> /\ e.entries = <<r>>
        /\ r.payload # <<>> \/ HasName(r)
    BY <1>6, <2>1, WrittenPlain
  <2>3. PlainEffect
    BY <1>1, <1>2, <2>2 DEF PresetParserNext, ReadMode, TruncatedEffect, CommentEffect, EnterList,
                             LeaveList, EndOfList
  <2>4. /\ lists' = Front(lists) \o <<Past(top, x, <<Node(Kind(ReadEntry(x)), x)>>)>>
        /\ entries' = entries \o Entry(x)
        /\ UNCHANGED <<file, comments, origin>>
    BY <1>3, <2>3 DEF PlainEffect
  <2>5. Node(Kind(ReadEntry(x)), x) = [kind |-> Kind(r), id |-> r.id, payload |-> r.payload]
    BY <1>4, <2>1 DEF Node
  <2>6. Past(top, x, <<Node(Kind(ReadEntry(x)), x)>>) = Behind(top, e)
    BY <1>4, <2>2, <2>5 DEF Past, Behind
  <2>7. Entry(x) = e.entries
    <3>1. x.start < x.end \/ HasName(x)
      <4>1. CASE HasName(r)
        <5>1. r.id = x.id /\ r.name = x.name
          BY <1>4, <2>1 DEF ReadEntry
        <5> QED
          BY <4>1, <5>1 DEF HasName
      <4>2. CASE r.payload # <<>>
        <5>1. HeaderSays(e) /\ x.start = top.pos + Header(e.cells[1]) /\ top.pos \in Nat
          BY <1>3, TopRead, EffectFields, TopIsFrame, FrameFields
        <5>2. r.payload = SubSeq(e.cells, Header(e.cells[1]) + 1, Len(e.cells))
          BY <2>1 DEF ReadOf
        <5>3. ~(Header(e.cells[1]) < Len(e.cells)) => r.payload = <<>>
          BY <5>1, <5>2, SubSeqEmpty DEF HeaderSays
        <5>4. Header(e.cells[1]) < Len(e.cells)
          BY <4>2, <5>3, Zenon
        <5>5. PICK h \in Nat, n \in Nat, p \in Nat : h = Header(e.cells[1]) /\ n = Len(e.cells) /\ p = top.pos
          BY <5>1 DEF HeaderSays
        <5>6. x.start = p + h /\ x.end = p + n /\ h < n
          BY <1>4, <5>1, <5>4, <5>5
        <5>7. x.start < x.end
          BY <5>6
        <5> QED
          BY <5>7, Zenon
      <4>3. r.payload # <<>> \/ HasName(r)
        BY <2>2
      <4> QED
        BY <4>1, <4>2, <4>3, Zenon
    <3> QED
      BY <1>4, <2>1, <2>2, <3>1 DEF Entry
  <2>8. comments \o <<>> = comments
    BY JoinedToNone
  <2> QED
    BY <2>2, <2>4, <2>6, <2>7, <2>8
<1> QED
  BY <1>5, <1>6, EffectFields

\* An intact list is entered, with all it was written with in front of the parser.
LEMMA ListEntered ==
  ASSUME Inv, NEW e \in Effects, e.form = "list", Next(top, e), PresetParserNext
  PROVE  /\ lists' = Append(lists, Frame(top.pos + 2, top.pos + Len(e.cells)))
         /\ UNCHANGED <<file, comments, entries, origin>>
<1>1. /\ More(top) /\ Fits(top)
      /\ EffectAt(top).id = e.cells[1]
      /\ EffectAt(top).start = top.pos + Header(e.cells[1])
      /\ EffectAt(top).end = top.pos + Len(e.cells)
  BY TopRead
<1>2. e.cells[1] = kListId /\ Header(kListId) = 2
  BY WrittenList DEF Header, IsApe
<1>3. EnterList
  BY <1>1, <1>2 DEF Next, PresetParserNext, ReadMode, TruncatedEffect, CommentEffect, PlainEffect,
                    LeaveList, EndOfList, CommentId, kListId
<1> QED
  BY <1>1, <1>2, <1>3 DEF EnterList

LEMMA ListContents ==
  ASSUME NEW e \in Effects, e.form = "list", NEW pos \in Nat, Holds(pos, e.cells, Len(e.cells))
  PROVE  /\ IsSeq(CellsOf(e)) /\ Len(CellsOf(e)) = Len(e.cells) - 2
         /\ Holds(pos + 2, CellsOf(e), Len(CellsOf(e)))
<1>1. HeaderSays(e) /\ Header(e.cells[1]) = 2 /\ IsSeq(e.cells)
  BY WrittenList, EffectFields DEF Header, IsApe
<1>2. PICK n \in Nat : n = Len(e.cells) /\ n >= 2
  BY <1>1 DEF HeaderSays
<1>3. PICK b : b = CellsOf(e)
  OBVIOUS
<1>4. b = SubSeq(e.cells, 2 + 1, n)
  <2>1. ReadOf(e).payload = b
    BY <1>3, WrittenList
  <2> QED
    BY <1>1, <1>2, <2>1 DEF ReadOf
<1>5. IsSeq(b) /\ Len(b) = n - 2 /\ \A i \in 1..n - 2 : b[i] = e.cells[2 + i]
  <2>1. IsSeq(b) /\ Len(b) = n - 3 + 1 /\ \A i \in 1..n - 3 + 1 : b[i] = e.cells[3 + i - 1]
    <3>1. 2 + 1 = 3 /\ 3 \in Int /\ n \in Int /\ 1 <= 3 /\ 3 <= n + 1 /\ n <= Len(e.cells)
      BY <1>2
    <3> QED
      BY <1>1, <1>4, <3>1, PartOf
  <2>2. n - 3 + 1 = n - 2 /\ \A i \in 1..n - 2 : 3 + i - 1 = 2 + i
    BY <1>2
  <2> QED
    BY <2>1, <2>2
<1>6. ASSUME NEW i \in 1..n - 2 PROVE file[pos + 2 + i] = b[i]
  <2>1. 2 + i \in 1..n /\ pos + 2 + i = pos + (2 + i)
    BY <1>2
  <2>2. file[pos + (2 + i)] = e.cells[2 + i]
    BY <1>2, <2>1 DEF Holds
  <2> QED
    BY <1>5, <2>1, <2>2
<1> QED
  BY <1>2, <1>3, <1>5, <1>6 DEF Holds

-------------------------------------------------------------------------------
(* Where the effects of a list lie among its cells. *)

Rest(effects, n) == SubSeq(effects, n + 1, Len(effects))

LEMMA LastOnes ==
  ASSUME NEW effects, IsSeq(effects), NEW n \in 0..Len(effects)
  PROVE  /\ IsSeq(Rest(effects, n)) /\ Len(Rest(effects, n)) = Len(effects) - n
         /\ \A i \in 1..Len(effects) - n : Rest(effects, n)[i] = effects[n + i]
<1>1. PICK l \in Nat, m \in Int : l = Len(effects) /\ m = n + 1 /\ n <= l /\ n \in Nat
  BY Indices
<1>2. 1 <= m /\ m <= l + 1 /\ l <= Len(effects) /\ l \in Int
  BY <1>1
<1>3. Rest(effects, n) = SubSeq(effects, m, l)
  BY <1>1, Zenon DEF Rest
<1>4. /\ IsSeq(SubSeq(effects, m, l)) /\ Len(SubSeq(effects, m, l)) = l - m + 1
      /\ \A i \in 1..l - m + 1 : SubSeq(effects, m, l)[i] = effects[m + i - 1]
  BY <1>2, PartOf
<1>5. l - m + 1 = l - n /\ \A i \in 1..l - n : m + i - 1 = n + i
  BY <1>1
<1>6. PICK r : r = SubSeq(effects, m, l)
  OBVIOUS
<1>7. IsSeq(r) /\ Len(r) = l - n /\ \A i \in 1..l - n : r[i] = effects[n + i]
  BY <1>4, <1>5, <1>6
<1> QED
  BY <1>1, <1>3, <1>6, <1>7

\* A row of effects comes apart anywhere.
LEMMA AllSplits ==
  ASSUME NEW effects, NEW field, HaveField(effects, field), NEW n \in 0..Len(effects)
  PROVE  /\ IsSeq(All(Rest(effects, n), field))
         /\ All(effects, field) = All(Upto(effects, n), field) \o All(Rest(effects, n), field)
<1>1. PICK l \in Nat : l = Len(effects) /\ n <= l /\ n \in Nat
  BY Indices DEF HaveField
<1>2. IsSeq(effects)
  BY DEF HaveField
<1>3. PICK rest : rest = Rest(effects, n)
  OBVIOUS
<1>4. IsSeq(rest) /\ Len(rest) = l - n /\ \A i \in 1..l - n : rest[i] = effects[n + i]
  BY <1>1, <1>2, <1>3, LastOnes
<1>5. HaveField(rest, field)
  <2>1. ASSUME NEW i \in 1..l - n PROVE IsSeq(rest[i][field])
    <3>1. n + i \in 1..l
      BY <1>1
    <3> QED
      BY <1>1, <1>4, <3>1 DEF HaveField
  <2> QED
    BY <1>4, <2>1 DEF HaveField
<1>6. PICK before : before = All(Upto(effects, n), field) /\ IsSeq(before)
  BY AllIsSeq
<1>7. PICK T : T = {d \in Nat : d <= l - n =>
                      All(Upto(effects, n + d), field) = before \o All(Upto(rest, d), field)}
  OBVIOUS
<1>8. 0 \in T
  <2>1. All(Upto(rest, 0), field) = <<>>
    BY <1>4, AllOfNone
  <2>2. before \o <<>> = before
    BY <1>6, JoinedToNone
  <2>3. n + 0 = n
    BY <1>1
  <2>4. All(Upto(effects, n + 0), field) = before
    BY <1>6, <2>3, Zenon
  <2> QED
    BY <1>7, <2>1, <2>2, <2>4
<1>9. ASSUME NEW d \in Nat, d \in T PROVE d + 1 \in T
  <2>1. ASSUME d + 1 <= l - n
        PROVE  All(Upto(effects, n + (d + 1)), field) = before \o All(Upto(rest, d + 1), field)
    <3>1. PICK k \in Nat : k = n + d
      BY <1>1
    <3>2. /\ k \in 0..l - 1 /\ d \in 0..(l - n) - 1 /\ d + 1 \in 1..l - n /\ d \in 0..l - n /\ d <= l - n
          /\ n + (d + 1) = k + 1
      BY <1>1, <2>1, <3>1
    <3>3. PICK one : one = effects[k + 1][field]
      OBVIOUS
    <3>4. rest[d + 1] = effects[k + 1]
      BY <1>4, <3>2, SMTT(30)
    <3>5. IsSeq(one)
      BY <1>4, <1>5, <3>2, <3>3, <3>4 DEF HaveField
    <3>6. All(Upto(effects, k + 1), field) = All(Upto(effects, k), field) \o one
      BY <1>1, <3>2, <3>3, AllGrows
    <3>7. All(Upto(rest, d + 1), field) = All(Upto(rest, d), field) \o one
      <4>1. d \in 0..Len(rest) - 1
        BY <1>4, <3>2
      <4>2. All(Upto(rest, d + 1), field) = All(Upto(rest, d), field) \o rest[d + 1][field]
        BY <1>5, <4>1, AllGrows
      <4>3. rest[d + 1][field] = one
        BY <3>3, <3>4, Zenon
      <4> QED
        BY <4>2, <4>3, Zenon
    <3>8. All(Upto(effects, k), field) = before \o All(Upto(rest, d), field)
      BY <1>7, <1>9, <3>1, <3>2
    <3>9. IsSeq(All(Upto(rest, d), field))
      BY <1>4, <1>5, <3>2, AllIsSeq
    <3>10. (before \o All(Upto(rest, d), field)) \o one = before \o (All(Upto(rest, d), field) \o one)
      <4>1. PICK after : after = All(Upto(rest, d), field)
        OBVIOUS
      <4>2. IsSeq(before) /\ IsSeq(after) /\ IsSeq(one)
        BY <1>6, <3>5, <3>9, <4>1
      <4>3. (before \o after) \o one = before \o (after \o one)
        BY <4>2, JoinedThrice
      <4> QED
        BY <4>1, <4>3
    <3> QED
      BY <3>2, <3>6, <3>7, <3>8, <3>10, Zenon
  <2> QED
    BY <1>7, <2>1
<1>10. Nat \subseteq T
  BY <1>8, <1>9, Induct
<1>11. PICK d \in Nat : d = l - n /\ n + d = l
  BY <1>1, SMTT(30)
<1>12. All(Upto(effects, l), field) = before \o All(Upto(rest, d), field)
  <2>1. d \in T /\ d <= l - n
    BY <1>10, <1>11
  <2> QED
    BY <1>7, <1>11, <2>1
<1>13. Upto(effects, l) = effects /\ Upto(rest, d) = rest
  BY <1>1, <1>2, <1>4, <1>11, AllOfThem
<1>14. IsSeq(All(Upto(rest, d), field))
  <2>1. d \in 0..Len(rest)
    BY <1>4, <1>11
  <2> QED
    BY <1>5, <2>1, AllIsSeq
<1> QED
  BY <1>3, <1>6, <1>12, <1>13, <1>14, Zenon

\* Rows whose effects have the same in a field.
LEMMA AllAlike ==
  ASSUME NEW es, IsSeq(es), NEW fs, IsSeq(fs), NEW field,
         Len(es) = Len(fs), \A i \in 1..Len(es) : es[i][field] = fs[i][field]
  PROVE  All(es, field) = All(fs, field)
<1>1. DOMAIN es = 1..Len(es) /\ DOMAIN fs = 1..Len(es)
  BY Indices
<1>2. PICK ss, tt : /\ ss = [i \in DOMAIN es |-> es[i][field]]
                    /\ tt = [i \in DOMAIN fs |-> fs[i][field]]
  OBVIOUS
<1>3. ss = tt
  BY <1>1, <1>2
<1>4. All(es, field) = FlattenSeq(ss) /\ All(fs, field) = FlattenSeq(tt)
  BY <1>2, Zenon DEF All
<1> QED
  BY <1>3, <1>4, Zenon

LEMMA UptoAlike ==
  ASSUME NEW es, IsSeq(es), NEW fs, IsSeq(fs), NEW field,
         NEW n \in 0..Len(es), n \in 0..Len(fs), \A i \in 1..n : es[i][field] = fs[i][field]
  PROVE  All(Upto(es, n), field) = All(Upto(fs, n), field)
<1>1. PICK a, b : a = Upto(es, n) /\ b = Upto(fs, n)
  OBVIOUS
<1>2. /\ IsSeq(a) /\ Len(a) = n /\ \A i \in 1..n : a[i] = es[i]
      /\ IsSeq(b) /\ Len(b) = n /\ \A i \in 1..n : b[i] = fs[i]
  BY <1>1, FirstOnes
<1>3. All(a, field) = All(b, field)
  <2>1. \A i \in 1..Len(a) : a[i][field] = b[i][field]
    BY <1>2
  <2> QED
    BY <1>2, <2>1, AllAlike
<1> QED
  BY <1>1, <1>3, Zenon

-------------------------------------------------------------------------------
(* Where the effects of a list lie. *)

HasCells(w) == IsSeq(w.mode) /\ HaveField(w.effects, "cells")

LEMMA EndsAt ==
  ASSUME NEW w, HasCells(w)
  PROVE  /\ IsSeq(w.effects) /\ Len(w.effects) \in Nat
         /\ Len(w.mode) \in Nat
         /\ IsSeq(CellsOf(w)) /\ Len(CellsOf(w)) \in Nat
         /\ EndOf(w, 0) = Len(w.mode)
         /\ EndOf(w, Len(w.effects)) = Len(CellsOf(w))
         /\ \A k \in 0..Len(w.effects) : EndOf(w, k) \in Nat
<1>1. /\ IsSeq(w.effects) /\ Len(w.effects) \in Nat /\ IsSeq(w.mode) /\ Len(w.mode) \in Nat
      /\ HaveField(w.effects, "cells")
  BY Indices DEF HasCells, HaveField
<1>2. \A k \in 0..Len(w.effects) : IsSeq(All(Upto(w.effects, k), "cells"))
  BY <1>1, AllIsSeq
<1>3. \A k \in 0..Len(w.effects) : EndOf(w, k) = Len(w.mode) + Len(All(Upto(w.effects, k), "cells"))
  BY Zenon DEF EndOf, Upto
<1>4. All(Upto(w.effects, 0), "cells") = <<>> /\ Len(<<>>) = 0
  BY <1>1, AllOfNone, JoinedToNone
<1>5. 0 \in 0..Len(w.effects) /\ Len(w.effects) \in 0..Len(w.effects)
  BY <1>1
<1>6. EndOf(w, 0) = Len(w.mode)
  <2>1. EndOf(w, 0) = Len(w.mode) + Len(All(Upto(w.effects, 0), "cells"))
    BY <1>3, <1>5, Zenon
  <2>2. Len(All(Upto(w.effects, 0), "cells")) = 0
    BY <1>4, Zenon
  <2>3. PICK n \in Nat : n = Len(w.mode)
    BY <1>1
  <2>4. EndOf(w, 0) = n + 0
    BY <2>1, <2>2, <2>3, Zenon
  <2>5. n + 0 = n
    OBVIOUS
  <2> QED
    BY <2>3, <2>4, <2>5, Zenon
<1>7. PICK a : a = All(w.effects, "cells")
  OBVIOUS
<1>8. Upto(w.effects, Len(w.effects)) = w.effects
  BY <1>1, AllOfThem
<1>9. IsSeq(a) /\ CellsOf(w) = w.mode \o a
  <2>1. IsSeq(All(w.effects, "cells"))
    BY <1>2, <1>5, <1>8
  <2> QED
    BY <1>7, <2>1, Zenon DEF CellsOf
<1>10. IsSeq(w.mode \o a) /\ Len(w.mode \o a) = Len(w.mode) + Len(a)
  BY <1>1, <1>9, Joined
<1>11. EndOf(w, Len(w.effects)) = Len(w.mode) + Len(a)
  BY <1>3, <1>5, <1>7, <1>8
<1>12. \A k \in 0..Len(w.effects) : EndOf(w, k) \in Nat
  <2>1. ASSUME NEW k \in 0..Len(w.effects) PROVE EndOf(w, k) \in Nat
    <3>1. PICK c : c = All(Upto(w.effects, k), "cells")
      OBVIOUS
    <3>2. IsSeq(c) /\ EndOf(w, k) = Len(w.mode) + Len(c)
      BY <1>2, <1>3, <3>1, Zenon
    <3> QED
      BY <1>1, <3>2, Indices
  <2> QED
    BY <2>1
<1> QED
  BY <1>1, <1>6, <1>9, <1>10, <1>11, <1>12, Indices

LEMMA ModeAt ==
  ASSUME NEW w, HasCells(w)
  PROVE  \A j \in 1..Len(w.mode) : CellsOf(w)[j] = w.mode[j]
<1>1. PICK a : a = All(w.effects, "cells")
  OBVIOUS
<1>2. IsSeq(w.mode) /\ HaveField(w.effects, "cells") /\ IsSeq(w.effects) /\ Len(w.effects) \in Nat
  BY EndsAt DEF HasCells
<1>3. IsSeq(a)
  <2>1. Upto(w.effects, Len(w.effects)) = w.effects
    BY <1>2, AllOfThem
  <2>2. Len(w.effects) \in 0..Len(w.effects)
    BY <1>2
  <2> QED
    BY <1>1, <1>2, <2>1, <2>2, AllIsSeq
<1>4. \A j \in 1..Len(w.mode) : (w.mode \o a)[j] = w.mode[j]
  BY <1>2, <1>3, Joined
<1>5. CellsOf(w) = w.mode \o a
  BY <1>1, Zenon DEF CellsOf
<1> QED
  BY <1>4, <1>5

LEMMA EffectLies ==
  ASSUME NEW w, HasCells(w), NEW k \in 0..Len(w.effects) - 1
  PROVE  LET e == w.effects[k + 1]
         IN /\ IsSeq(e.cells) /\ Len(e.cells) \in Nat
            /\ EndOf(w, k + 1) = EndOf(w, k) + Len(e.cells)
            /\ EndOf(w, k + 1) <= Len(CellsOf(w))
            /\ \A j \in 1..Len(e.cells) : CellsOf(w)[EndOf(w, k) + j] = e.cells[j]
<1>0. PICK l \in Nat, k1 \in Nat : l = Len(w.effects) /\ k1 = k + 1
  BY EndsAt
<1>1. PICK es, m : es = w.effects /\ l = Len(es) /\ k1 = k + 1 /\ m = w.mode
  BY <1>0
<1>2. /\ IsSeq(es) /\ HaveField(es, "cells") /\ IsSeq(m) /\ Len(m) \in Nat
      /\ k \in Nat /\ k \in 0..l /\ k1 \in 0..l /\ k1 \in 1..l
  BY <1>1, EndsAt DEF HasCells
<1>3. PICK c, a, b, r, all : /\ c = es[k1]["cells"] /\ a = All(Upto(es, k), "cells")
                             /\ b = All(Upto(es, k1), "cells") /\ r = All(Rest(es, k1), "cells")
                             /\ all = All(es, "cells")
  OBVIOUS
<1>4. b = a \o c /\ all = b \o r
  <2>1. All(Upto(es, k + 1), "cells") = All(Upto(es, k), "cells") \o es[k + 1]["cells"]
    BY <1>1, <1>2, AllGrows
  <2>2. All(es, "cells") = All(Upto(es, k1), "cells") \o All(Rest(es, k1), "cells")
    BY <1>1, <1>2, AllSplits
  <2> QED
    BY <1>1, <1>3, <2>1, <2>2
<1>5. IsSeq(a) /\ IsSeq(b) /\ IsSeq(c) /\ IsSeq(r)
  BY <1>1, <1>2, <1>3, AllIsSeq, AllSplits DEF HaveField
<1>6. /\ Len(a) \in Nat /\ Len(c) \in Nat /\ Len(r) \in Nat /\ Len(b) \in Nat
  BY <1>5, Indices
<1>7. Len(b) = Len(a) + Len(c) /\ \A j \in 1..Len(c) : b[Len(a) + j] = c[j]
  <2>1. Len(a \o c) = Len(a) + Len(c) /\ \A j \in 1..Len(c) : (a \o c)[Len(a) + j] = c[j]
    BY <1>5, Joined
  <2> QED
    BY <1>4, <2>1
<1>8. IsSeq(all) /\ Len(all) = Len(b) + Len(r) /\ \A j \in 1..Len(b) : all[j] = b[j]
  <2>1. IsSeq(b \o r) /\ Len(b \o r) = Len(b) + Len(r) /\ \A j \in 1..Len(b) : (b \o r)[j] = b[j]
    BY <1>5, Joined
  <2> QED
    BY <1>4, <2>1
<1>9. /\ Len(CellsOf(w)) = Len(m) + Len(all)
      /\ \A j \in 1..Len(all) : CellsOf(w)[Len(m) + j] = all[j]
  <2>1. Len(m \o all) = Len(m) + Len(all) /\ \A j \in 1..Len(all) : (m \o all)[Len(m) + j] = all[j]
    BY <1>2, <1>8, Joined, SMTT(30)
  <2>2. CellsOf(w) = m \o all
    BY <1>1, <1>3, Zenon DEF CellsOf
  <2> QED
    BY <2>1, <2>2
<1>10. EndOf(w, k) = Len(m) + Len(a) /\ EndOf(w, k + 1) = Len(m) + Len(b)
  BY <1>1, <1>3, Zenon DEF EndOf, Upto
<1>11. ASSUME NEW j \in 1..Len(c) PROVE CellsOf(w)[EndOf(w, k) + j] = c[j]
  <2>1. /\ Len(a) + j \in 1..Len(b) /\ Len(a) + j \in 1..Len(all)
        /\ EndOf(w, k) + j = Len(m) + (Len(a) + j)
    BY <1>2, <1>6, <1>7, <1>8, <1>10
  <2> QED
    BY <1>7, <1>8, <1>9, <2>1
<1>12. c = w.effects[k + 1].cells
  BY <1>1, <1>3
<1>13. EndOf(w, k + 1) = EndOf(w, k) + Len(c) /\ EndOf(w, k + 1) <= Len(CellsOf(w))
  BY <1>2, <1>6, <1>7, <1>8, <1>9, <1>10
<1> QED
  BY <1>5, <1>6, <1>11, <1>12, <1>13

LEMMA EndsGrow ==
  ASSUME NEW w, HasCells(w), NEW k \in 0..Len(w.effects), NEW m \in k..Len(w.effects)
  PROVE  EndOf(w, k) <= EndOf(w, m)
<1>1. PICK l \in Nat : l = Len(w.effects) /\ k \in Nat /\ k <= l /\ m \in Nat /\ k <= m /\ m <= l
  BY EndsAt
<1>2. \A i \in 0..l : EndOf(w, i) \in Nat
  BY <1>1, EndsAt
<1>3. PICK T : T = {d \in Nat : k + d <= l => EndOf(w, k) <= EndOf(w, k + d)}
  OBVIOUS
<1>4. 0 \in T
  <2>1. k + 0 = k /\ k \in 0..l
    BY <1>1
  <2> QED
    BY <1>2, <1>3, <2>1
<1>5. ASSUME NEW d \in Nat, d \in T PROVE d + 1 \in T
  <2>1. ASSUME k + (d + 1) <= l PROVE EndOf(w, k) <= EndOf(w, k + (d + 1))
    <3>1. PICK i \in Nat : i = k + d
      BY <1>1
    <3>2. i \in 0..l - 1 /\ i \in 0..l /\ i + 1 \in 0..l /\ k \in 0..l /\ k + (d + 1) = i + 1 /\ i <= l
      BY <1>1, <2>1, <3>1
    <3>3. EndOf(w, k) <= EndOf(w, i)
      BY <1>3, <1>5, <3>1, <3>2
    <3>4. \E n \in Nat : EndOf(w, i + 1) = EndOf(w, i) + n
      BY <1>1, <3>2, EffectLies
    <3> QED
      BY <1>2, <3>2, <3>3, <3>4, SMTT(30)
  <2> QED
    BY <1>3, <2>1
<1>6. Nat \subseteq T
  BY <1>4, <1>5, Induct
<1>7. m - k \in T /\ k + (m - k) = m
  BY <1>1, <1>6
<1> QED
  BY <1>1, <1>3, <1>7

-------------------------------------------------------------------------------
(* The file: what was written, with one cell changed or the end cut off. *)

preset == origin.preset
damaged == Before(preset, origin.at)     \* how many effects lie before the damage

\* What the file is, for good.
Origin ==
  LET cells == CellsOf(preset)
  IN /\ preset \in Presets /\ origin.cut \in BOOLEAN
     /\ origin.at \in Len(preset.mode) + 1..Len(cells) + 1
     /\ origin.cut => file = SubSeq(cells, 1, origin.at - 1)
     /\ ~origin.cut => /\ origin.at <= Len(cells)
                       /\ \E cell \in Cells : file = [cells EXCEPT ![origin.at] = cell]

LEMMA EffectsHaveFields ==
  ASSUME NEW effects \in Seq(Effects)
  PROVE  /\ IsSeq(effects) /\ \A i \in 1..Len(effects) : effects[i] \in Effects
         /\ HaveField(effects, "cells") /\ HaveField(effects, "chain")
         /\ HaveField(effects, "comments") /\ HaveField(effects, "entries")
<1>1. IsSeq(effects) /\ \A i \in 1..Len(effects) : effects[i] \in Effects
  BY ElementOfSeq DEF IsSeq
<1>2. \A e \in Effects : IsSeq(e.cells) /\ IsSeq(e.chain) /\ IsSeq(e.comments) /\ IsSeq(e.entries)
  BY EffectFields
<1> QED
  BY <1>1, <1>2 DEF HaveField

LEMMA PresetHasCells ==
  ASSUME Origin
  PROVE  /\ preset.effects \in Seq(Effects) /\ WellFormedMode(preset.mode)
         /\ HasCells(preset)
<1>1. preset.effects \in Seq(Effects) /\ WellFormedMode(preset.mode)
  BY PresetParserAssumption DEF Origin
<1>2. IsSeq(preset.mode)
  BY <1>1 DEF WellFormedMode, IsSeq
<1> QED
  BY <1>1, <1>2, EffectsHaveFields DEF HasCells

\* The damage lies behind the first so many effects and not behind one more.
LEMMA DamagedIs ==
  ASSUME Origin
  PROVE  /\ damaged \in 0..Len(preset.effects)
         /\ EndOf(preset, damaged) < origin.at
         /\ damaged = Len(preset.effects) \/ EndOf(preset, damaged + 1) >= origin.at
<1>1. HasCells(preset)
  BY PresetHasCells
<1>01. PICK p, l, a : p = preset /\ l = Len(preset.effects) /\ a = origin.at
  OBVIOUS
<1>2. p = preset /\ l = Len(p.effects) /\ l \in Nat /\ a = origin.at /\ a \in Nat
  <2>1. Len(preset.effects) \in Nat /\ Len(preset.mode) \in Nat /\ Len(CellsOf(preset)) \in Nat
    BY <1>1, EndsAt
  <2>2. origin.at \in Len(preset.mode) + 1..Len(CellsOf(preset)) + 1
    BY DEF Origin
  <2>3. origin.at \in Nat
    BY <2>1, <2>2
  <2> QED
    BY <1>01, <2>1, <2>3
<1>3. /\ \A k \in 0..l : EndOf(p, k) \in Nat
      /\ EndOf(p, 0) < a
  <2>1. (\A k \in 0..l : EndOf(p, k) \in Nat) /\ EndOf(p, 0) = Len(p.mode)
    BY <1>1, <1>2, EndsAt
  <2>2. a \in Len(p.mode) + 1..Len(CellsOf(p)) + 1
    BY <1>2 DEF Origin
  <2>3. Len(p.mode) \in Nat /\ Len(CellsOf(p)) \in Nat
    BY <1>1, <1>2, EndsAt
  <2> QED
    BY <2>1, <2>2, <2>3
<1>4. \E n \in 0..l : (n = 0 \/ EndOf(p, n) < a) /\ (n = l \/ EndOf(p, n + 1) >= a)
  <2>1. PICK T : T = {k \in 0..l : k = l \/ EndOf(p, k + 1) >= a}
    OBVIOUS
  <2>2. T \subseteq Nat /\ T # {}
    <3>1. l \in T
      BY <1>2, <2>1
    <3> QED
      BY <1>2, <2>1, <3>1
  <2>3. PICK n \in T : \A k \in T : n <= k
    BY <2>2, LeastOf
  <2>4. n \in 0..l /\ (n = l \/ EndOf(p, n + 1) >= a)
    BY <2>1, <2>3
  <2>5. ASSUME n # 0 PROVE EndOf(p, n) < a
    <3>1. n - 1 \in 0..l /\ ~(n <= n - 1) /\ n - 1 # l /\ (n - 1) + 1 = n
      BY <1>2, <2>4, <2>5
    <3>2. ~(EndOf(p, n) >= a)
      BY <2>1, <2>3, <3>1
    <3> QED
      BY <1>2, <1>3, <2>4, <3>2
  <2> QED
    BY <2>4, <2>5
<1>5. PICK d : d = damaged
  OBVIOUS
<1>6. d = CHOOSE n \in 0..l : (n = 0 \/ EndOf(p, n) < a) /\ (n = l \/ EndOf(p, n + 1) >= a)
  BY <1>2, <1>5, Zenon DEF damaged, Before
<1>7. d \in 0..l /\ (d = 0 \/ EndOf(p, d) < a) /\ (d = l \/ EndOf(p, d + 1) >= a)
  BY <1>4, <1>6
<1> QED
  BY <1>2, <1>3, <1>5, <1>7

\* The file and what was written differ in one cell, or in length.
LEMMA FileIs ==
  ASSUME Origin
  PROVE  /\ Len(file) \in Nat
         /\ origin.at \in Nat
         /\ origin.cut => Len(file) = origin.at - 1
         /\ ~origin.cut => Len(file) = Len(CellsOf(preset)) /\ origin.at <= Len(file)
         /\ \A j \in 1..Len(file) : j # origin.at => file[j] = CellsOf(preset)[j]
<1>01. PICK c, a, l : c = CellsOf(preset) /\ a = origin.at /\ l = Len(c)
  OBVIOUS
<1>1. c = CellsOf(preset) /\ a = origin.at /\ l = Len(c) /\ IsSeq(c) /\ l \in Nat
  BY <1>01, PresetHasCells, EndsAt
<1>2. a \in Nat /\ 1 <= a /\ a <= l + 1
  <2>1. Len(preset.mode) \in Nat
    BY PresetHasCells, EndsAt
  <2>2. a \in Len(preset.mode) + 1..l + 1
    BY <1>1 DEF Origin
  <2> QED
    BY <2>1, <2>2
<1>3. CASE origin.cut
  <2>1. PICK f : f = SubSeq(c, 1, a - 1) /\ f = file
    BY <1>1, <1>3 DEF Origin
  <2>2. /\ IsSeq(f) /\ Len(f) = a - 1 - 1 + 1 /\ \A i \in 1..a - 1 - 1 + 1 : f[i] = c[1 + i - 1]
    <3>1. a - 1 \in Int /\ 1 \in Int /\ 1 <= (a - 1) + 1 /\ a - 1 <= Len(c)
      BY <1>1, <1>2
    <3> QED
      BY <1>1, <2>1, <3>1, PartOf
  <2>3. a - 1 - 1 + 1 = a - 1 /\ \A i \in 1..a - 1 : 1 + i - 1 = i
    BY <1>2
  <2>4. Len(f) = a - 1 /\ \A i \in 1..a - 1 : f[i] = c[i]
    BY <2>2, <2>3
  <2> QED
    BY <1>1, <1>2, <1>3, <2>1, <2>4
<1>4. CASE ~origin.cut
  <2>1. PICK cell : file = [c EXCEPT ![a] = cell] /\ a <= l
    BY <1>1, <1>4 DEF Origin
  <2>2. PICK S : c \in Seq(S)
    BY <1>1 DEF IsSeq
  <2>3. PICK f : f = [c EXCEPT ![a] = cell] /\ f = file
    BY <2>1
  <2>4. Len(f) = Len(c) /\ \A i \in 1..Len(f) : f[i] = IF i = a THEN cell ELSE c[i]
    <3>1. c \in Seq(S \cup {cell}) /\ a \in 1..Len(c) /\ cell \in S \cup {cell}
      BY <1>1, <1>2, <2>1, <2>2
    <3> QED
      BY <2>3, <3>1, ExceptSeq
  <2> QED
    BY <1>1, <1>2, <1>4, <2>1, <2>3, <2>4
<1> QED
  BY <1>3, <1>4 DEF Origin

\* The mode is intact.
LEMMA ModeIntact ==
  ASSUME Origin
  PROVE  Len(preset.mode) \in Nat /\ Len(preset.mode) <= Len(file) /\ Holds(0, preset.mode, Len(preset.mode))
<1>01. PICK c, a, l, n : c = CellsOf(preset) /\ a = origin.at /\ l = Len(c) /\ n = Len(preset.mode)
  OBVIOUS
<1>1. /\ c = CellsOf(preset) /\ a = origin.at /\ l = Len(c) /\ n = Len(preset.mode)
      /\ n \in Nat /\ l \in Nat
  BY <1>01, PresetHasCells, EndsAt
<1>2. l \in Nat /\ a \in Nat /\ n + 1 <= a /\ a <= l + 1
  <2>1. a \in n + 1..l + 1
    BY <1>1 DEF Origin
  <2> QED
    BY <1>1, <2>1
<1>3. /\ Len(file) \in Nat
      /\ Len(file) = a - 1 \/ (Len(file) = l /\ a <= l)
      /\ \A j \in 1..Len(file) : j # a => file[j] = c[j]
  BY <1>1, FileIs
<1>4. \A j \in 1..n : c[j] = preset.mode[j]
  BY <1>1, PresetHasCells, ModeAt
<1>5. n <= Len(file)
  BY <1>1, <1>2, <1>3
<1>6. ASSUME NEW j \in 1..n PROVE file[0 + j] = preset.mode[j]
  <2>1. j \in 1..Len(file) /\ j # a /\ 0 + j = j
    BY <1>1, <1>2, <1>3, <1>5
  <2> QED
    BY <1>3, <1>4, <2>1
<1> QED
  BY <1>1, <1>5, <1>6 DEF Holds

\* So is every effect but the damaged one, if the file was not cut off.
LEMMA EffectIntact ==
  ASSUME Origin, NEW k \in 0..Len(preset.effects) - 1, k # damaged, origin.cut => k < damaged
  PROVE  LET e == preset.effects[k + 1]
         IN /\ EndOf(preset, k) + Len(e.cells) <= Len(file)
            /\ Holds(EndOf(preset, k), e.cells, Len(e.cells))
<1>1. HasCells(preset)
  BY PresetHasCells
<1>01. PICK p, l, d, a : p = preset /\ l = Len(p.effects) /\ d = damaged /\ a = origin.at
  OBVIOUS
<1>02. PICK e : e = p.effects[k + 1]
  OBVIOUS
<1>2. /\ p = preset /\ l = Len(p.effects) /\ d = damaged /\ a = origin.at /\ e = p.effects[k + 1]
      /\ l \in Nat /\ d \in Nat /\ a \in Nat
  <2>1. Len(preset.effects) \in Nat /\ damaged \in 0..Len(preset.effects) /\ origin.at \in Nat
    BY <1>1, EndsAt, DamagedIs, FileIs
  <2> QED
    BY <1>01, <1>02, <2>1
<1>03. PICK x, n : x = EndOf(p, k) /\ n = Len(e.cells)
  OBVIOUS
<1>3. x = EndOf(p, k) /\ n = Len(e.cells) /\ x \in Nat /\ n \in Nat
  <2>1. k \in 0..l
    BY <1>2
  <2> QED
    BY <1>1, <1>2, <1>03, <2>1, EndsAt, EffectLies
<1>4. /\ EndOf(p, k + 1) = x + n /\ x + n <= Len(CellsOf(p))
      /\ \A j \in 1..n : CellsOf(p)[x + j] = e.cells[j]
  BY <1>1, <1>2, <1>3, EffectLies, ZenonT(30)
<1>5. k \in Nat /\ k + 1 <= l /\ d <= l
  BY <1>2, DamagedIs
<1>6. k < d => x + n < a
  <2>1. ASSUME k < d PROVE EndOf(p, k + 1) <= EndOf(p, d)
    <3>1. k + 1 \in 0..l /\ d \in (k + 1)..l
      BY <1>2, <1>5, <2>1
    <3> QED
      BY <1>1, <1>2, <3>1, EndsGrow
  <2>2. EndOf(p, d) < a /\ EndOf(p, d) \in Nat
    <3>1. d \in 0..l
      BY <1>2, <1>5
    <3> QED
      BY <1>1, <1>2, <3>1, EndsAt, DamagedIs
  <2> QED
    BY <1>2, <1>3, <1>4, <2>1, <2>2, SMTT(30)
<1>7. k > d => a <= x
  <2>1. ASSUME k > d PROVE EndOf(p, d + 1) <= EndOf(p, k) /\ EndOf(p, d + 1) \in Nat
    <3>1. d + 1 \in 0..l /\ k \in (d + 1)..l
      BY <1>2, <1>5, <2>1
    <3> QED
      BY <1>1, <1>2, <3>1, EndsGrow, EndsAt
  <2>2. d # l => EndOf(p, d + 1) >= a
    BY <1>2, DamagedIs
  <2> QED
    BY <1>2, <1>3, <1>5, <2>1, <2>2
<1>8. /\ Len(file) \in Nat /\ Len(CellsOf(p)) \in Nat
      /\ origin.cut => Len(file) = a - 1
      /\ ~origin.cut => Len(file) = Len(CellsOf(p))
      /\ \A j \in 1..Len(file) : j # a => file[j] = CellsOf(p)[j]
  BY <1>1, <1>2, FileIs, EndsAt
<1>9. x + n <= Len(file)
  BY <1>2, <1>3, <1>4, <1>6, <1>8, SMTT(30)
<1>10. ASSUME NEW j \in 1..n PROVE file[x + j] = e.cells[j]
  <2>1. x + j \in 1..Len(file) /\ x + j # a
    BY <1>2, <1>3, <1>5, <1>6, <1>7, <1>9, SMTT(30)
  <2> QED
    BY <1>4, <1>8, <2>1
<1> QED
  BY <1>2, <1>3, <1>9, <1>10 DEF Holds

\* Before the damage the damaged effect is as it was written.
LEMMA EffectHit ==
  ASSUME Origin, damaged < Len(preset.effects)
  PROVE  LET e == preset.effects[damaged + 1]
             x == EndOf(preset, damaged)
         IN /\ x \in Nat /\ Len(e.cells) \in Nat /\ IsSeq(e.cells)
            /\ x < origin.at /\ origin.at <= x + Len(e.cells)
            /\ origin.cut => Len(file) = origin.at - 1
            /\ ~origin.cut => x + Len(e.cells) <= Len(file)
            /\ \A j \in 1..Len(e.cells) : x + j < origin.at /\ x + j <= Len(file) => file[x + j] = e.cells[j]
<1>1. HasCells(preset)
  BY PresetHasCells
<1>01. PICK p, l, d, a : p = preset /\ l = Len(p.effects) /\ d = damaged /\ a = origin.at
  OBVIOUS
<1>02. PICK e : e = p.effects[d + 1]
  OBVIOUS
<1>2. /\ p = preset /\ l = Len(p.effects) /\ d = damaged /\ a = origin.at /\ e = p.effects[d + 1]
      /\ l \in Nat /\ d \in Nat /\ a \in Nat
  <2>1. Len(preset.effects) \in Nat /\ damaged \in 0..Len(preset.effects) /\ origin.at \in Nat
    BY <1>1, EndsAt, DamagedIs, FileIs
  <2> QED
    BY <1>01, <1>02, <2>1
<1>3. d \in 0..l - 1
  BY <1>2
<1>03. PICK x, n : x = EndOf(p, d) /\ n = Len(e.cells)
  OBVIOUS
<1>4. x = EndOf(p, d) /\ n = Len(e.cells) /\ x \in Nat /\ n \in Nat
  <2>1. d \in 0..l
    BY <1>2
  <2> QED
    BY <1>1, <1>2, <1>3, <1>03, <2>1, EndsAt, EffectLies
<1>5. /\ EndOf(p, d + 1) = x + n /\ x + n <= Len(CellsOf(p)) /\ IsSeq(e.cells)
      /\ \A j \in 1..n : CellsOf(p)[x + j] = e.cells[j]
  BY <1>1, <1>2, <1>3, <1>4, EffectLies, SMTT(30)
<1>6. x < a /\ a <= x + n
  <2>1. EndOf(p, d) < a /\ (d = l \/ EndOf(p, d + 1) >= a)
    BY <1>2, DamagedIs
  <2> QED
    BY <1>2, <1>3, <1>4, <1>5, <2>1
<1>7. /\ Len(file) \in Nat /\ Len(CellsOf(p)) \in Nat
      /\ origin.cut => Len(file) = a - 1
      /\ ~origin.cut => Len(file) = Len(CellsOf(p))
      /\ \A j \in 1..Len(file) : j # a => file[j] = CellsOf(p)[j]
  BY <1>1, <1>2, FileIs, EndsAt
<1>8. ASSUME NEW j \in 1..n, x + j < a, x + j <= Len(file) PROVE file[x + j] = e.cells[j]
  <2>1. x + j \in 1..Len(file) /\ x + j # a
    BY <1>2, <1>4, <1>7, <1>8, SMTT(30)
  <2> QED
    BY <1>5, <1>7, <2>1
<1> QED
  BY <1>2, <1>4, <1>5, <1>6, <1>7, <1>8

-------------------------------------------------------------------------------
(* Calls that read effects as they were written.  g says of a call what it has  *)
(* read: g.w is the list, of whose effects g.k are behind it; g.c and g.s are   *)
(* the comments and the entries that there were when it began.                  *)

Fields(effects) ==
  /\ HaveField(effects, "cells") /\ HaveField(effects, "chain")
  /\ HaveField(effects, "comments") /\ HaveField(effects, "entries")

Level(f, g) ==
  /\ IsSeq(g.w.mode) /\ Fields(g.w.effects)
  /\ g.k \in 0..Len(g.w.effects)
  /\ IsSeq(g.c) /\ IsSeq(g.s)
  /\ f.at \in {"mode", "effects", "complete"}
  /\ f.chain = All(Upto(g.w.effects, g.k), "chain")
  /\ f.at = "mode" => g.k = 0 /\ f.pos = f.start
  /\ f.at = "effects" => f.pos = f.start + EndOf(g.w, g.k)
  /\ f.at = "complete" => g.k = Len(g.w.effects)

Comments(g) == g.c \o All(Upto(g.w.effects, g.k), "comments")
Entries(g)  == g.s \o All(Upto(g.w.effects, g.k), "entries")

\* The call that reads a list, and the one that waits for it.
Link(f, g, inner, h) ==
  /\ g.k < Len(g.w.effects) /\ h.w = g.w.effects[g.k + 1]
  /\ h.w \in Effects /\ h.w.form = "list"
  /\ Next(f, h.w)
  /\ inner.start = f.pos + 2 /\ inner.end = f.pos + Len(h.w.cells)
  /\ h.c = Comments(g) /\ h.s = Entries(g)

Linked(ls, g, n) ==
  /\ \A i \in 1..n : Level(ls[i], g[i])
  /\ \A i \in 1..n - 1 : Link(ls[i], g[i], ls[i + 1], g[i + 1])

\* What a call has read grows, from the same beginning.
Begun(g, h) == h.w = g.w /\ h.c = g.c /\ h.s = g.s

LEMMA LinkedOn ==
  ASSUME NEW ls, NEW g, NEW n \in Nat, n > 0, Linked(ls, g, n),
         NEW ms, NEW h, \A i \in 1..n - 1 : ms[i] = ls[i] /\ h[i] = g[i],
         ms[n].start = ls[n].start, ms[n].end = ls[n].end, Begun(g[n], h[n]),
         Level(ms[n], h[n])
  PROVE  Linked(ms, h, n)
<1>1. ASSUME NEW i \in 1..n PROVE Level(ms[i], h[i])
  <2>1. CASE i = n
    BY <2>1
  <2>2. CASE i # n
    <3>1. i \in 1..n - 1
      BY <2>2
    <3>2. ms[i] = ls[i] /\ h[i] = g[i] /\ Level(ls[i], g[i])
      BY <3>1 DEF Linked
    <3> QED
      BY <3>2
  <2> QED
    BY <2>1, <2>2
<1>2. ASSUME NEW i \in 1..n - 1 PROVE Link(ms[i], h[i], ms[i + 1], h[i + 1])
  <2>1. Link(ls[i], g[i], ls[i + 1], g[i + 1]) /\ ms[i] = ls[i] /\ h[i] = g[i]
    BY DEF Linked
  <2>2. CASE i + 1 = n
    BY <2>1, <2>2 DEF Link, Begun
  <2>3. CASE i + 1 # n
    <3>1. i + 1 \in 1..n - 1
      BY <2>3
    <3> QED
      BY <2>1, <3>1
  <2> QED
    BY <2>2, <2>3
<1> QED
  BY <1>1, <1>2 DEF Linked

\* Behind one effect more.
LEMMA LevelAdvances ==
  ASSUME NEW f, IsFrame(f), NEW g, Level(f, g), f.at = "effects",
         g.k < Len(g.w.effects), NEW h, Begun(g, h), h.k = g.k + 1
  PROVE  LET e == g.w.effects[g.k + 1]
         IN /\ Level(Behind(f, e), h)
            /\ Comments(h) = Comments(g) \o e.comments
            /\ Entries(h) = Entries(g) \o e.entries
<1>0. PICK e : e = g.w.effects[g.k + 1]
  OBVIOUS
<1>1. PICK es, k : es = g.w.effects /\ k = g.k
  OBVIOUS
<1>2. /\ Fields(es) /\ IsSeq(es) /\ Len(es) \in Nat /\ k \in 0..Len(es) - 1 /\ k + 1 \in 0..Len(es)
      /\ k \in 0..Len(es) /\ k + 1 \in 1..Len(es) /\ h.w.effects = es /\ e = es[k + 1]
  <2>1. Fields(es) /\ k \in 0..Len(es) /\ k < Len(es)
    BY <1>1 DEF Level
  <2>2. IsSeq(es) /\ Len(es) \in Nat
    BY <2>1, Indices DEF Fields, HaveField
  <2>3. h.w.effects = es
    BY <1>1 DEF Begun
  <2> QED
    BY <1>0, <1>1, <2>1, <2>2, <2>3
<1>3. ASSUME NEW field, HaveField(es, field)
      PROVE  All(Upto(es, k + 1), field) = All(Upto(es, k), field) \o es[k + 1][field]
  BY <1>2, <1>3, AllGrows
<1>4. /\ All(Upto(es, k + 1), "chain") = All(Upto(es, k), "chain") \o e.chain
      /\ All(Upto(es, k + 1), "comments") = All(Upto(es, k), "comments") \o e.comments
      /\ All(Upto(es, k + 1), "entries") = All(Upto(es, k), "entries") \o e.entries
  BY <1>2, <1>3 DEF Fields
<1>5. ASSUME NEW before, IsSeq(before), NEW field, HaveField(es, field)
      PROVE  before \o All(Upto(es, k + 1), field) = (before \o All(Upto(es, k), field)) \o es[k + 1][field]
  <2>1. PICK a, b : a = All(Upto(es, k), field) /\ b = es[k + 1][field]
    OBVIOUS
  <2>2. IsSeq(a) /\ IsSeq(b)
    BY <1>2, <1>5, <2>1, AllIsSeq DEF HaveField
  <2>3. All(Upto(es, k + 1), field) = a \o b
    BY <1>3, <1>5, <2>1
  <2>4. (before \o a) \o b = before \o (a \o b)
    BY <1>5, <2>2, JoinedThrice
  <2> QED
    BY <2>1, <2>3, <2>4
<1>6. Comments(h) = Comments(g) \o e.comments
  <2>1. Comments(g) = g.c \o All(Upto(es, k), "comments") /\ Comments(h) = g.c \o All(Upto(es, k + 1), "comments")
    BY <1>1, <1>2 DEF Comments, Begun
  <2>2. IsSeq(g.c) /\ HaveField(es, "comments")
    BY <1>2 DEF Level, Fields
  <2> QED
    BY <1>2, <1>5, <2>1, <2>2, ZenonT(30)
<1>7. Entries(h) = Entries(g) \o e.entries
  <2>1. Entries(g) = g.s \o All(Upto(es, k), "entries") /\ Entries(h) = g.s \o All(Upto(es, k + 1), "entries")
    BY <1>1, <1>2 DEF Entries, Begun
  <2>2. IsSeq(g.s) /\ HaveField(es, "entries")
    BY <1>2 DEF Level, Fields
  <2> QED
    BY <1>2, <1>5, <2>1, <2>2
<1>8. EndOf(g.w, k + 1) = EndOf(g.w, k) + Len(e.cells) /\ EndOf(g.w, k) \in Nat /\ Len(e.cells) \in Nat
  <2>1. HasCells(g.w)
    BY <1>1, <1>2 DEF HasCells, Fields, Level
  <2>2. PICK w : w = g.w /\ w.effects = es /\ HasCells(w)
    BY <1>1, <2>1
  <2>3. \A i \in 0..Len(es) - 1 : /\ EndOf(w, i + 1) = EndOf(w, i) + Len(es[i + 1].cells)
                                  /\ Len(es[i + 1].cells) \in Nat
    BY <2>2, EffectLies
  <2>4. EndOf(w, k) \in Nat
    BY <1>2, <2>2, EndsAt
  <2> QED
    BY <1>2, <2>2, <2>3, <2>4
<1>9. PICK b : b = Behind(f, e)
  OBVIOUS
<1>10. /\ b.at = "effects" /\ b.start = f.start /\ b.pos = f.pos + Len(e.cells)
       /\ b.chain = f.chain \o e.chain
  BY <1>9 DEF Behind, IsFrame
<1>11. b.chain = All(Upto(es, k + 1), "chain")
  BY <1>1, <1>4, <1>10 DEF Level
<1>12. b.pos = b.start + EndOf(g.w, k + 1)
  <2>1. f.pos = f.start + EndOf(g.w, k)
    BY <1>1 DEF Level
  <2>2. f.start \in Nat
    BY FrameFields
  <2> QED
    BY <1>8, <1>10, <2>1, <2>2
<1>13. h.w = g.w /\ h.k = k + 1 /\ h.c = g.c /\ h.s = g.s
  BY <1>1 DEF Begun
<1>14. IsSeq(g.w.mode) /\ IsSeq(g.c) /\ IsSeq(g.s)
  BY DEF Level
<1>15. Level(b, h)
  BY <1>1, <1>2, <1>10, <1>11, <1>12, <1>13, <1>14 DEF Level
<1> QED
  BY <1>0, <1>6, <1>7, <1>9, <1>15

\* The innermost call has in front of it what its list was written with.
Ready(f, g) ==
  /\ f.at = "mode" => /\ WellFormedMode(g.w.mode)
                      /\ f.pos + Len(g.w.mode) <= f.end
                      /\ Holds(f.pos, g.w.mode, Len(g.w.mode))
  /\ f.at = "effects" /\ g.k < Len(g.w.effects) =>
       g.w.effects[g.k + 1] \in Effects /\ Next(f, g.w.effects[g.k + 1])
  /\ f.at = "effects" /\ g.k = Len(g.w.effects) => ~More(f)

LEMMA Contained ==
  ASSUME NEW f, IsFrame(f), NEW g, Level(f, g),
         WellFormedMode(g.w.mode), g.w.effects \in Seq(Effects),
         f.end = f.start + Len(CellsOf(g.w)), Holds(f.start, CellsOf(g.w), Len(CellsOf(g.w)))
  PROVE  Ready(f, g)
<1>1. PICK w, k, x, l : w = g.w /\ k = g.k /\ x = f.start /\ l = Len(CellsOf(g.w))
  OBVIOUS
<1>2. HasCells(w)
  <2>1. IsSeq(w.mode)
    BY <1>1 DEF WellFormedMode, IsSeq
  <2> QED
    BY <1>1, <2>1, EffectsHaveFields DEF HasCells
<1>3. /\ Len(w.effects) \in Nat /\ Len(w.mode) \in Nat /\ l \in Nat
      /\ EndOf(w, 0) = Len(w.mode) /\ EndOf(w, Len(w.effects)) = l
      /\ \A i \in 0..Len(w.effects) : EndOf(w, i) \in Nat /\ EndOf(w, 0) <= EndOf(w, i) /\ EndOf(w, i) <= l
  <2>1. /\ Len(w.effects) \in Nat /\ Len(w.mode) \in Nat /\ l \in Nat
        /\ EndOf(w, 0) = Len(w.mode) /\ EndOf(w, Len(w.effects)) = l
        /\ \A i \in 0..Len(w.effects) : EndOf(w, i) \in Nat
    BY <1>1, <1>2, EndsAt
  <2>2. ASSUME NEW i \in 0..Len(w.effects) PROVE EndOf(w, 0) <= EndOf(w, i) /\ EndOf(w, i) <= l
    <3>1. /\ 0 \in 0..Len(w.effects) /\ i \in 0..Len(w.effects)
          /\ Len(w.effects) \in i..Len(w.effects)
      BY <2>1
    <3> QED
      BY <1>2, <2>1, <3>1, EndsGrow
  <2> QED
    BY <2>1, <2>2
<1>4. x \in Nat /\ f.pos \in Nat /\ f.end = x + l
  BY <1>1, FrameFields
<1>5. k \in 0..Len(w.effects)
  BY <1>1 DEF Level
<1>6. \A j \in 1..l : file[x + j] = CellsOf(w)[j]
  BY <1>1 DEF Holds
<1>7. ASSUME f.at = "mode"
      PROVE  f.pos + Len(w.mode) <= f.end /\ Holds(f.pos, w.mode, Len(w.mode))
  <2>1. f.pos = x
    BY <1>1, <1>7 DEF Level
  <2>2. Len(w.mode) <= l
    <3>1. 0 \in 0..Len(w.effects)
      BY <1>3
    <3> QED
      BY <1>3, <3>1
  <2>3. ASSUME NEW j \in 1..Len(w.mode) PROVE file[x + j] = w.mode[j]
    <3>1. j \in 1..l
      BY <1>3, <2>2
    <3>2. CellsOf(w)[j] = w.mode[j]
      BY <1>2, ModeAt
    <3> QED
      BY <1>6, <3>1, <3>2
  <2>4. Holds(x, w.mode, Len(w.mode))
    BY <2>3 DEF Holds
  <2> QED
    BY <1>3, <1>4, <2>1, <2>2, <2>4
<1>8. ASSUME f.at = "effects" PROVE f.pos = x + EndOf(w, k)
  BY <1>1, <1>8 DEF Level
<1>9. ASSUME f.at = "effects", k < Len(w.effects)
      PROVE  w.effects[k + 1] \in Effects /\ Next(f, w.effects[k + 1])
  <2>1. PICK e : e = w.effects[k + 1]
    OBVIOUS
  <2>2. k \in 0..Len(w.effects) - 1 /\ k + 1 \in 1..Len(w.effects) /\ k + 1 \in 0..Len(w.effects)
    BY <1>3, <1>5, <1>9
  <2>3. e \in Effects
    BY <1>1, <2>1, <2>2, EffectsHaveFields
  <2>4. PICK n, z : n = Len(e.cells) /\ z = EndOf(w, k)
    OBVIOUS
  <2>5. /\ n \in Nat /\ z \in Nat /\ EndOf(w, k + 1) = z + n
        /\ \A j \in 1..n : CellsOf(w)[z + j] = e.cells[j]
    BY <1>2, <1>3, <1>5, <2>1, <2>2, <2>4, EffectLies
  <2>6. z + n <= l
    BY <1>3, <2>2, <2>5
  <2>7. ASSUME NEW j \in 1..n PROVE file[f.pos + j] = e.cells[j]
    <3>1. z + j \in 1..l /\ f.pos + j = x + (z + j)
      <4>1. f.pos = x + z
        BY <1>8, <1>9, <2>4
      <4> QED
        BY <1>3, <1>4, <2>5, <2>6, <4>1
    <3> QED
      BY <1>6, <2>5, <3>1
  <2>8. f.pos + n <= f.end
    BY <1>3, <1>4, <1>8, <1>9, <2>4, <2>5, <2>6
  <2>9. Next(f, e)
    BY <1>9, <2>4, <2>7, <2>8 DEF Next, Holds
  <2> QED
    BY <2>1, <2>3, <2>9
<1>10. ASSUME f.at = "effects", k = Len(w.effects) PROVE ~More(f)
  BY <1>3, <1>4, <1>8, <1>10 DEF More
<1> QED
  BY <1>1, <1>7, <1>9, <1>10 DEF Ready

IsStack(g) ==
  /\ Linked(lists, g, Len(lists))
  /\ comments = Comments(g[Len(lists)])
  /\ entries = Entries(g[Len(lists)])

\* Nothing else than the outermost list need be looked up in the file.
LEMMA InnerReady ==
  ASSUME Inv, NEW g, IsStack(g), Len(lists) > 1
  PROVE  Ready(top, g[Len(lists)])
<1>1. PICK m, f, h, p : m = Len(lists) /\ f = top /\ h = g[m] /\ p = lists[m - 1]
  OBVIOUS
<1>2. m \in Nat /\ m > 1 /\ DOMAIN lists = 1..m /\ f = lists[m]
  BY <1>1, Indices DEF Inv, top, Last
<1>3. IsFrame(p) /\ IsFrame(f) /\ Level(f, h) /\ Link(p, g[m - 1], f, h)
  <2>1. m - 1 \in 1..m - 1 /\ m - 1 \in 1..m /\ m \in 1..m /\ (m - 1) + 1 = m
    BY <1>2
  <2> QED
    BY <1>1, <1>2, <2>1 DEF Inv, IsStack, Linked
<1>4. /\ h.w \in Effects /\ h.w.form = "list" /\ Next(p, h.w)
      /\ f.start = p.pos + 2 /\ f.end = p.pos + Len(h.w.cells)
  BY <1>3 DEF Link
<1>5. h.w.effects \in Seq(Effects) /\ WellFormedMode(h.w.mode) /\ HeaderSays(h.w)
  BY <1>4, WrittenList, Zenon
<1>6. p.pos \in Nat /\ Len(h.w.cells) \in Nat
  BY <1>3, <1>5, FrameFields DEF HeaderSays
<1>7. Holds(p.pos, h.w.cells, Len(h.w.cells))
  BY <1>4 DEF Next
<1>8. /\ Len(CellsOf(h.w)) = Len(h.w.cells) - 2
      /\ Holds(p.pos + 2, CellsOf(h.w), Len(CellsOf(h.w)))
  BY <1>4, <1>6, <1>7, ListContents
<1>9. f.end = f.start + Len(CellsOf(h.w))
  BY <1>4, <1>6, <1>8
<1>10. Holds(f.start, CellsOf(h.w), Len(CellsOf(h.w)))
  BY <1>4, <1>8
<1> QED
  BY <1>1, <1>3, <1>5, <1>9, <1>10, Contained

\* Replacing the innermost call.
LEMMA TopReplaced ==
  ASSUME Inv, NEW f, lists' = Front(lists) \o <<f>>
  PROVE  /\ Len(lists) \in Nat /\ Len(lists) > 0 /\ top = lists[Len(lists)]
         /\ Len(lists') = Len(lists) /\ lists'[Len(lists)] = f
         /\ \A i \in 1..Len(lists) - 1 : lists'[i] = lists[i]
BY Indices, LastReplaced DEF Inv, top, Last

LEMMA ModeStep ==
  ASSUME Inv, NEW g, IsStack(g), Ready(top, g[Len(lists)]), top.at = "mode", PresetParserNext
  PROVE  /\ Len(lists') = Len(lists) /\ Linked(lists', g, Len(lists))
         /\ UNCHANGED <<file, origin, comments, entries>>
<1>1. ReadMode
  BY DEF PresetParserNext, TruncatedEffect, PlainEffect, CommentEffect, EnterList, LeaveList,
         EndOfList, More
<1>2. PICK m, h : m = Len(lists) /\ h = g[m]
  OBVIOUS
<1>3. Level(top, h) /\ IsFrame(top) /\ file \in Seq(Nat)
  <2>1. m \in 1..m /\ top = lists[m]
    BY <1>2, Indices DEF Inv, top, Last
  <2> QED
    BY <1>2, <2>1, TopIsFrame DEF IsStack, Linked, Inv
<1>4. ~(top.pos >= top.end) /\ AfterMode(top) = top.pos + Len(h.w.mode)
  BY <1>2, <1>3, ModeRead DEF Ready
<1>5. top.pos \in Nat /\ top.pos = top.start /\ h.k = 0
  BY <1>3, FrameFields DEF Level
<1>6. EndOf(h.w, 0) = Len(h.w.mode) /\ Len(h.w.mode) \in Nat
  <2>1. HasCells(h.w)
    BY <1>3 DEF Level, Fields, HasCells
  <2> QED
    BY <2>1, EndsAt
<1>7. PICK next : next = top.pos + Len(h.w.mode)
  OBVIOUS
<1>8. next # -1
  BY <1>5, <1>6, <1>7
<1>9. PICK f : f = [top EXCEPT !.at = "effects", !.pos = next]
  OBVIOUS
<1>10. lists' = Front(lists) \o <<f>> /\ UNCHANGED <<file, origin, comments, entries>>
  BY <1>1, <1>4, <1>7, <1>8, <1>9 DEF ReadMode
<1>11. f.at = "effects" /\ f.pos = f.start + EndOf(h.w, h.k) /\ f.start = top.start /\ f.end = top.end
       /\ f.chain = top.chain
  BY <1>3, <1>5, <1>6, <1>7, <1>9 DEF IsFrame
<1>12. Level(f, h)
  BY <1>3, <1>11 DEF Level
<1> QED
  <2>1. /\ m \in Nat /\ m > 0 /\ top = lists[m] /\ Len(lists') = m /\ lists'[m] = f
        /\ \A i \in 1..m - 1 : lists'[i] = lists[i]
    BY <1>2, <1>10, TopReplaced
  <2>2. Linked(lists, g, m) /\ Begun(g[m], g[m])
    BY <1>2 DEF IsStack, Begun
  <2>3. Linked(lists', g, m)
    BY <1>2, <1>11, <1>12, <2>1, <2>2, LinkedOn
  <2> QED
    BY <1>2, <1>10, <2>1, <2>3

LEMMA EndStep ==
  ASSUME Inv, NEW g, IsStack(g), Ready(top, g[Len(lists)]), top.at = "effects",
         g[Len(lists)].k = Len(g[Len(lists)].w.effects), PresetParserNext
  PROVE  /\ Len(lists') = Len(lists) /\ Linked(lists', g, Len(lists))
         /\ UNCHANGED <<file, origin, comments, entries>>
<1>1. ~More(top)
  BY DEF Ready
<1>2. EndOfList
  BY <1>1 DEF PresetParserNext, ReadMode, TruncatedEffect, PlainEffect, CommentEffect, EnterList, LeaveList
<1>3. PICK m, h, f : m = Len(lists) /\ h = g[m] /\ f = Returned("complete")
  OBVIOUS
<1>4. Level(top, h) /\ IsFrame(top)
  <2>1. m \in 1..m /\ top = lists[m]
    BY <1>3, Indices DEF Inv, top, Last
  <2> QED
    BY <1>3, <2>1, TopIsFrame DEF IsStack, Linked
<1>5. f.at = "complete" /\ f.start = top.start /\ f.end = top.end /\ f.chain = top.chain
  BY <1>3, <1>4 DEF Returned, IsFrame
<1>6. Level(f, h)
  BY <1>3, <1>4, <1>5 DEF Level
<1>7. lists' = Front(lists) \o <<f>> /\ UNCHANGED <<file, origin, comments, entries>>
  BY <1>2, <1>3 DEF EndOfList
<1>8. /\ m \in Nat /\ m > 0 /\ top = lists[m] /\ Len(lists') = m /\ lists'[m] = f
      /\ \A i \in 1..m - 1 : lists'[i] = lists[i]
  BY <1>3, <1>7, TopReplaced
<1>9. Linked(lists, g, m) /\ Begun(g[m], g[m])
  BY <1>3 DEF IsStack, Begun
<1>10. Linked(lists', g, m)
  BY <1>3, <1>5, <1>6, <1>8, <1>9, LinkedOn
<1> QED
  BY <1>3, <1>7, <1>8, <1>10

LEMMA TopLevel ==
  ASSUME Inv, NEW g, IsStack(g)
  PROVE  /\ Len(lists) \in Nat /\ Len(lists) > 0 /\ top = lists[Len(lists)]
         /\ IsFrame(top) /\ Level(top, g[Len(lists)])
         /\ IsSeq(comments) /\ IsSeq(entries)
<1>1. Len(lists) \in Nat /\ Len(lists) > 0 /\ top = lists[Len(lists)]
  BY Indices DEF Inv, top, Last
<1>2. PICK h : h = g[Len(lists)]
  OBVIOUS
<1>3. IsFrame(top) /\ Level(top, h)
  <2>1. Len(lists) \in 1..Len(lists)
    BY <1>1
  <2> QED
    BY <1>1, <1>2, <2>1, TopIsFrame DEF IsStack, Linked
<1>4. IsSeq(h.c) /\ IsSeq(h.s) /\ h.k \in 0..Len(h.w.effects) /\ Fields(h.w.effects)
  BY <1>3 DEF Level
<1>5. PICK a, b : a = All(Upto(h.w.effects, h.k), "comments") /\ b = All(Upto(h.w.effects, h.k), "entries")
  OBVIOUS
<1>6. IsSeq(a) /\ IsSeq(b)
  BY <1>4, <1>5, AllIsSeq DEF Fields
<1>7. IsSeq(h.c \o a) /\ IsSeq(h.s \o b)
  BY <1>4, <1>6, Joined
<1>8. comments = h.c \o a /\ entries = h.s \o b
  BY <1>2, <1>5 DEF IsStack, Comments, Entries
<1> QED
  BY <1>1, <1>2, <1>3, <1>7, <1>8

LEMMA EffectStep ==
  ASSUME Inv, NEW g, IsStack(g), Ready(top, g[Len(lists)]), top.at = "effects",
         g[Len(lists)].k < Len(g[Len(lists)].w.effects),
         g[Len(lists)].w.effects[g[Len(lists)].k + 1].form # "list", PresetParserNext
  PROVE  \E h : /\ Len(lists') = Len(lists) /\ Linked(lists', h, Len(lists))
                /\ comments' = Comments(h[Len(lists)]) /\ entries' = Entries(h[Len(lists)])
                /\ UNCHANGED <<file, origin>>
                /\ \A i \in 1..Len(lists) - 1 : h[i] = g[i]
                /\ Begun(g[Len(lists)], h[Len(lists)]) /\ h[Len(lists)].k = g[Len(lists)].k + 1
<1>1. PICK m, l, e : m = Len(lists) /\ l = g[m] /\ e = l.w.effects[l.k + 1]
  OBVIOUS
<1>2. m \in Nat /\ m > 0 /\ top = lists[m] /\ IsFrame(top) /\ Level(top, l) /\ IsSeq(comments)
  BY <1>1, TopLevel
<1>3. e \in Effects /\ Next(top, e) /\ e.form # "list" /\ l.k < Len(l.w.effects)
  BY <1>1 DEF Ready
<1>4. /\ lists' = Front(lists) \o <<Behind(top, e)>>
      /\ comments' = comments \o e.comments
      /\ entries' = entries \o e.entries
      /\ UNCHANGED <<file, origin>>
  BY <1>2, <1>3, EffectParsed
<1>5. PICK n : n = [w |-> l.w, k |-> l.k + 1, c |-> l.c, s |-> l.s]
  OBVIOUS
<1>6. Begun(l, n) /\ n.k = l.k + 1
  BY <1>5 DEF Begun
<1>7. PICK h : h = [i \in 1..m |-> IF i = m THEN n ELSE g[i]]
  OBVIOUS
<1>8. h[m] = n /\ \A i \in 1..m - 1 : h[i] = g[i]
  BY <1>2, <1>7
<1>9. PICK f : f = Behind(top, e)
  OBVIOUS
<1>10. /\ Level(f, n) /\ Comments(n) = Comments(l) \o e.comments /\ Entries(n) = Entries(l) \o e.entries
  <2>1. /\ IsFrame(top) /\ Level(top, l) /\ top.at = "effects"
        /\ l.k < Len(l.w.effects) /\ e = l.w.effects[l.k + 1]
        /\ Begun(l, n) /\ n.k = l.k + 1
    BY <1>1, <1>2, <1>3, <1>6, SMTT(30)
  <2>2. /\ Level(Behind(top, e), n) /\ Comments(n) = Comments(l) \o e.comments
        /\ Entries(n) = Entries(l) \o e.entries
    BY <2>1, LevelAdvances, ZenonT(30)
  <2> QED
    BY <1>9, <2>2
<1>11. f.start = top.start /\ f.end = top.end
  BY <1>2, <1>9 DEF Behind, IsFrame
<1>12. Len(lists') = m /\ lists'[m] = f /\ \A i \in 1..m - 1 : lists'[i] = lists[i]
  BY <1>1, <1>4, <1>9, TopReplaced
<1>13. Linked(lists, g, m) /\ comments = Comments(l) /\ entries = Entries(l)
  BY <1>1 DEF IsStack
<1>14. Linked(lists', h, m)
  BY <1>1, <1>2, <1>6, <1>8, <1>10, <1>11, <1>12, <1>13, LinkedOn
<1>15. comments' = Comments(n) /\ entries' = Entries(n)
  BY <1>4, <1>10, <1>13
<1> QED
  BY <1>1, <1>4, <1>6, <1>8, <1>12, <1>14, <1>15

LEMMA EnterStep ==
  ASSUME Inv, NEW g, IsStack(g), Ready(top, g[Len(lists)]), top.at = "effects",
         g[Len(lists)].k < Len(g[Len(lists)].w.effects),
         g[Len(lists)].w.effects[g[Len(lists)].k + 1].form = "list", PresetParserNext
  PROVE  \E h : /\ Len(lists') = Len(lists) + 1 /\ Linked(lists', h, Len(lists) + 1)
                /\ comments' = Comments(h[Len(lists) + 1]) /\ entries' = Entries(h[Len(lists) + 1])
                /\ UNCHANGED <<file, origin>>
                /\ \A i \in 1..Len(lists) : h[i] = g[i]
<1>1. PICK m, l, e : m = Len(lists) /\ l = g[m] /\ e = l.w.effects[l.k + 1]
  OBVIOUS
<1>2. /\ m \in Nat /\ m > 0 /\ top = lists[m] /\ IsFrame(top) /\ Level(top, l)
      /\ IsSeq(comments) /\ IsSeq(entries)
  BY <1>1, TopLevel
<1>3. e \in Effects /\ Next(top, e) /\ e.form = "list" /\ l.k < Len(l.w.effects)
  BY <1>1 DEF Ready
<1>4. PICK f : f = Frame(top.pos + 2, top.pos + Len(e.cells))
  OBVIOUS
<1>5. lists' = Append(lists, f) /\ UNCHANGED <<file, comments, entries, origin>>
  BY <1>3, <1>4, ListEntered
<1>6. Len(lists') = m + 1 /\ lists'[m + 1] = f /\ \A i \in 1..m : lists'[i] = lists[i]
  BY <1>1, <1>5, OneMore DEF Inv
<1>7. PICK n : n = [w |-> e, k |-> 0, c |-> comments, s |-> entries]
  OBVIOUS
<1>8. PICK h : h = [i \in 1..m + 1 |-> IF i = m + 1 THEN n ELSE g[i]]
  OBVIOUS
<1>9. h[m + 1] = n /\ \A i \in 1..m : h[i] = g[i]
  BY <1>2, <1>8
<1>10. e.effects \in Seq(Effects) /\ WellFormedMode(e.mode)
  BY <1>3, WrittenList, Zenon
<1>11. IsSeq(e.mode) /\ Fields(e.effects) /\ IsSeq(e.effects) /\ Len(e.effects) \in Nat
  BY <1>10, EffectsHaveFields, Indices DEF WellFormedMode, IsSeq, Fields
<1>12. \A field : All(Upto(e.effects, 0), field) = <<>>
  BY <1>11, AllOfNone
<1>13. Level(f, n)
  <2>1. /\ f.at = "mode" /\ f.chain = <<>> /\ f.pos = f.start
    BY <1>4 DEF Frame
  <2>2. n.w = e /\ n.k = 0 /\ n.c = comments /\ n.s = entries
    BY <1>7
  <2>3. 0 \in 0..Len(e.effects)
    BY <1>11
  <2>4. f.chain = All(Upto(e.effects, 0), "chain")
    BY <1>12, <2>1
  <2> QED
    BY <1>2, <1>11, <2>1, <2>2, <2>3, <2>4 DEF Level
<1>14. Comments(n) = comments /\ Entries(n) = entries
  <2>1. comments \o <<>> = comments /\ entries \o <<>> = entries
    BY <1>2, JoinedToNone
  <2> QED
    BY <1>7, <1>12, <2>1 DEF Comments, Entries
<1>15. Linked(lists, g, m) /\ comments = Comments(l) /\ entries = Entries(l)
  BY <1>1 DEF IsStack
<1>16. Link(top, l, f, n)
  <2>1. n.w = e /\ n.c = comments /\ n.s = entries
    BY <1>7
  <2>2. f.start = top.pos + 2 /\ f.end = top.pos + Len(e.cells)
    BY <1>4 DEF Frame
  <2> QED
    BY <1>1, <1>3, <1>15, <2>1, <2>2 DEF Link
<1>17. Linked(lists', h, m + 1)
  <2>1. ASSUME NEW i \in 1..m + 1 PROVE Level(lists'[i], h[i])
    <3>1. CASE i = m + 1
      BY <1>6, <1>9, <1>13, <3>1
    <3>2. CASE i # m + 1
      <4>1. i \in 1..m
        BY <1>2, <3>2
      <4> QED
        BY <1>6, <1>9, <1>15, <4>1 DEF Linked
    <3> QED
      BY <3>1, <3>2
  <2>2. ASSUME NEW i \in 1..m PROVE Link(lists'[i], h[i], lists'[i + 1], h[i + 1])
    <3>1. CASE i = m
      BY <1>1, <1>2, <1>6, <1>9, <1>16, <3>1
    <3>2. CASE i # m
      <4>1. i \in 1..m - 1 /\ i + 1 \in 1..m
        BY <1>2, <3>2
      <4> QED
        BY <1>6, <1>9, <1>15, <4>1 DEF Linked
    <3> QED
      BY <3>1, <3>2
  <2>3. (m + 1) - 1 = m
    BY <1>2
  <2> QED
    BY <2>1, <2>2, <2>3 DEF Linked
<1> QED
  BY <1>1, <1>5, <1>6, <1>9, <1>14, <1>17

LEMMA LeaveStep ==
  ASSUME Inv, NEW g, IsStack(g), top.at = "complete", Len(lists) > 1, PresetParserNext
  PROVE  \E h : /\ Len(lists') = Len(lists) - 1 /\ Linked(lists', h, Len(lists) - 1)
                /\ comments' = Comments(h[Len(lists) - 1]) /\ entries' = Entries(h[Len(lists) - 1])
                /\ UNCHANGED <<file, origin>>
                /\ \A i \in 1..Len(lists) - 2 : h[i] = g[i]
                /\ Begun(g[Len(lists) - 1], h[Len(lists) - 1])
                /\ h[Len(lists) - 1].k = g[Len(lists) - 1].k + 1
<1>1. PICK m, q, l, o, outer : /\ m = Len(lists) /\ q = m - 1 /\ l = g[m] /\ o = g[q]
                               /\ outer = lists[q]
  OBVIOUS
<1>2. /\ m \in Nat /\ m > 1 /\ top = lists[m] /\ IsFrame(top) /\ Level(top, l)
      /\ IsSeq(comments) /\ IsSeq(entries)
  BY <1>1, TopLevel
<1>3. q \in Nat /\ q > 0 /\ q \in 1..m /\ q \in 1..m - 1 /\ q + 1 = m /\ q - 1 = m - 2
  BY <1>1, <1>2
<1>4. Linked(lists, g, m) /\ comments = Comments(l) /\ entries = Entries(l)
  BY <1>1 DEF IsStack
<1>5. Linked(lists, g, q)
  <2>1. \A i \in 1..q : i \in 1..m
    BY <1>2, <1>3
  <2>2. \A i \in 1..q - 1 : i \in 1..m - 1
    BY <1>2, <1>3
  <2> QED
    BY <1>4, <2>1, <2>2 DEF Linked
<1>6. Level(outer, o) /\ Link(outer, o, top, l)
  BY <1>1, <1>2, <1>3, <1>4 DEF Linked
<1>7. IsFrame(outer) /\ outer.end <= Len(file) /\ file \in Seq(Nat)
  <2>1. q \in DOMAIN lists
    BY <1>1, <1>3, Indices DEF Inv
  <2> QED
    BY <1>1, <2>1 DEF Inv
<1>8. PICK e : e = l.w
  OBVIOUS
<1>9. /\ e \in Effects /\ e.form = "list" /\ Next(outer, e)
      /\ o.k < Len(o.w.effects) /\ e = o.w.effects[o.k + 1]
      /\ l.c = Comments(o) /\ l.s = Entries(o)
  BY <1>6, <1>8 DEF Link
<1>10. HeaderSays(e) /\ IsSeq(e.cells)
  BY <1>9, EffectFields
<1>11. PICK x : x = EffectAt(outer)
  OBVIOUS
<1>12. /\ ReadEntry(x) = ReadOf(e) /\ x.id = e.cells[1] /\ x.end = outer.pos + Len(e.cells)
  <2>1. outer.at = "effects" /\ outer.pos + Len(e.cells) <= outer.end /\ Holds(outer.pos, e.cells, Len(e.cells))
    BY <1>9 DEF Next
  <2> QED
    BY <1>7, <1>10, <1>11, <2>1, WholeRead
<1>13. /\ e.cells[1] = kListId
       /\ e.chain = <<[kind |-> "list", id |-> kListId, children |-> All(e.effects, "chain")]>>
       /\ e.comments = All(e.effects, "comments")
       /\ e.entries = All(e.effects, "entries") \o <<ReadOf(e)>>
       /\ e.effects \in Seq(Effects)
  BY <1>9, WrittenList, Zenon
<1>14. /\ l.k = Len(e.effects) /\ Upto(e.effects, l.k) = e.effects
       /\ HaveField(e.effects, "entries") /\ HaveField(e.effects, "comments")
  <2>1. IsSeq(e.effects) /\ HaveField(e.effects, "entries") /\ HaveField(e.effects, "comments")
    BY <1>13, EffectsHaveFields
  <2>2. l.k = Len(e.effects)
    BY <1>2, <1>8 DEF Level
  <2> QED
    BY <2>1, <2>2, AllOfThem
<1>15. top.chain = All(e.effects, "chain")
  BY <1>2, <1>8, <1>14 DEF Level
<1>16. LeaveList
  BY DEF PresetParserNext, ReadMode, TruncatedEffect, PlainEffect, CommentEffect, EnterList,
         EndOfList, More
<1>17. PICK node : node = [kind |-> "list", id |-> kListId, children |-> top.chain]
  OBVIOUS
<1>18. /\ lists' = SubSeq(lists, 1, m - 2) \o <<Past(outer, x, <<node>>)>>
       /\ entries' = entries \o Entry(x)
       /\ UNCHANGED <<file, comments, origin>>
  BY <1>1, <1>11, <1>16, <1>17 DEF LeaveList
<1>19. Entry(x) = <<ReadOf(e)>>
  BY <1>12, <1>13 DEF Entry
<1>20. Past(outer, x, <<node>>) = Behind(outer, e)
  BY <1>12, <1>13, <1>15, <1>17 DEF Past, Behind
<1>21. comments' = Comments(o) \o e.comments
  <2>1. comments = l.c \o All(Upto(l.w.effects, l.k), "comments")
    BY <1>4, SMTT(30) DEF Comments
  <2> QED
    BY <1>8, <1>9, <1>13, <1>14, <1>18, <2>1
<1>22. entries' = Entries(o) \o e.entries
  <2>1. PICK a, b : a = All(e.effects, "entries") /\ b = <<ReadOf(e)>>
    OBVIOUS
  <2>2. entries = l.s \o a
    BY <1>4, <1>8, <1>14, <2>1 DEF Entries
  <2>3. IsSeq(l.s)
    BY <1>2 DEF Level
  <2>4. IsSeq(a)
    <3>1. Len(e.effects) \in 0..Len(e.effects)
      BY <1>14, Indices DEF HaveField
    <3> QED
      BY <1>14, <2>1, <3>1, AllIsSeq
  <2>5. IsSeq(b)
    BY <2>1, Tuples
  <2>6. (l.s \o a) \o b = l.s \o (a \o b)
    <3>1. PICK z : z = l.s
      OBVIOUS
    <3>2. IsSeq(z) /\ IsSeq(a) /\ IsSeq(b)
      BY <2>3, <2>4, <2>5, <3>1
    <3>3. (z \o a) \o b = z \o (a \o b)
      BY <3>2, JoinedThrice
    <3> QED
      BY <3>1, <3>3
  <2> QED
    BY <1>9, <1>13, <1>18, <1>19, <2>1, <2>2, <2>6
<1>23. PICK n : n = [w |-> o.w, k |-> o.k + 1, c |-> o.c, s |-> o.s]
  OBVIOUS
<1>24. Begun(o, n) /\ n.k = o.k + 1
  BY <1>23 DEF Begun
<1>25. PICK h : h = [i \in 1..q |-> IF i = q THEN n ELSE g[i]]
  OBVIOUS
<1>26. h[q] = n /\ \A i \in 1..q - 1 : h[i] = g[i]
  BY <1>3, <1>25
<1>27. PICK f : f = Behind(outer, e)
  OBVIOUS
<1>28. Level(f, n) /\ Comments(n) = Comments(o) \o e.comments /\ Entries(n) = Entries(o) \o e.entries
  <2>1. /\ IsFrame(outer) /\ Level(outer, o) /\ outer.at = "effects"
        /\ o.k < Len(o.w.effects) /\ e = o.w.effects[o.k + 1]
        /\ Begun(o, n) /\ n.k = o.k + 1
    BY <1>6, <1>7, <1>9, <1>24 DEF Next
  <2>2. /\ Level(Behind(outer, e), n) /\ Comments(n) = Comments(o) \o e.comments
        /\ Entries(n) = Entries(o) \o e.entries
    BY <2>1, LevelAdvances
  <2> QED
    BY <1>27, <2>2
<1>29. f.start = outer.start /\ f.end = outer.end
  BY <1>7, <1>27 DEF Behind, IsFrame
<1>30. Len(lists') = q /\ lists'[q] = f /\ \A i \in 1..q - 1 : lists'[i] = lists[i]
  <2>1. IsSeq(lists) /\ Len(lists) > 1 /\ lists' = SubSeq(lists, 1, Len(lists) - 2) \o <<f>>
    BY <1>1, <1>2, <1>18, <1>20, <1>27 DEF Inv
  <2>2. /\ Len(lists') = Len(lists) - 1 /\ lists'[Len(lists) - 1] = f
        /\ \A i \in 1..Len(lists) - 2 : lists'[i] = lists[i]
    BY <2>1, LastTwoReplaced, ZenonT(30)
  <2> QED
    BY <1>1, <1>3, <2>2
<1>31. Linked(lists', h, q)
  BY <1>1, <1>3, <1>5, <1>24, <1>26, <1>28, <1>29, <1>30, LinkedOn
<1>32. comments' = Comments(n) /\ entries' = Entries(n)
  BY <1>21, <1>22, <1>28
<1> QED
  BY <1>1, <1>3, <1>18, <1>24, <1>26, <1>30, <1>31, <1>32

\* A step of calls that read what was written: they do so after it.
LEMMA StackStep ==
  ASSUME Inv, NEW g, IsStack(g), Len(lists) = 1 => Ready(top, g[1]), PresetParserNext
  PROVE  \E h : LET n == Len(lists')
                IN /\ n \in Nat /\ n > 0 /\ Linked(lists', h, n)
                   /\ comments' = Comments(h[n]) /\ entries' = Entries(h[n])
                   /\ UNCHANGED <<file, origin>>
                   /\ Begun(g[1], h[1])
                   /\ \/ h[1].k = g[1].k /\ (n = 1 \/ Len(lists) > 1 \/ top.at = "effects")
                      \/ h[1].k = g[1].k + 1 /\ n = 1 /\ (Len(lists) > 1 \/ top.at = "effects")
<1>1. PICK m, l : m = Len(lists) /\ l = g[m]
  OBVIOUS
<1>2. /\ m \in Nat /\ m > 0 /\ top = lists[m] /\ IsFrame(top) /\ Level(top, l)
  BY <1>1, TopLevel
<1>3. Ready(top, l)
  <2>1. m > 1 \/ m = 1
    BY <1>2
  <2> QED
    BY <1>1, <2>1, InnerReady
<1>4. \A a : Begun(a, a)
  BY DEF Begun
<1>5. CASE top.at = "mode"
  <2>1. Len(lists') = m /\ Linked(lists', g, m) /\ UNCHANGED <<file, origin, comments, entries>>
    BY <1>1, <1>3, <1>5, ModeStep
  <2>2. comments = Comments(l) /\ entries = Entries(l)
    BY <1>1 DEF IsStack
  <2>3. m = 1 \/ m > 1
    BY <1>2
  <2> QED
    BY <1>1, <1>2, <1>4, <2>1, <2>2, <2>3
<1>6. CASE top.at = "effects" /\ l.k = Len(l.w.effects)
  <2>1. Len(lists') = m /\ Linked(lists', g, m) /\ UNCHANGED <<file, origin, comments, entries>>
    BY <1>1, <1>3, <1>6, EndStep
  <2>2. comments = Comments(l) /\ entries = Entries(l)
    BY <1>1 DEF IsStack
  <2>3. m = 1 \/ m > 1
    BY <1>2
  <2> QED
    BY <1>1, <1>2, <1>4, <2>1, <2>2, <2>3
<1>7. CASE top.at = "effects" /\ l.k < Len(l.w.effects) /\ l.w.effects[l.k + 1].form # "list"
  <2>1. PICK h : /\ Len(lists') = m /\ Linked(lists', h, m)
                 /\ comments' = Comments(h[m]) /\ entries' = Entries(h[m])
                 /\ UNCHANGED <<file, origin>>
                 /\ \A i \in 1..m - 1 : h[i] = g[i]
                 /\ Begun(l, h[m]) /\ h[m].k = l.k + 1
    BY <1>1, <1>3, <1>7, EffectStep
  <2>2. CASE m = 1
    BY <1>1, <1>7, <2>1, <2>2
  <2>3. CASE m > 1
    <3>1. h[1] = g[1]
      BY <1>2, <2>1, <2>3
    <3> QED
      BY <1>1, <1>2, <1>4, <2>1, <2>3, <3>1
  <2> QED
    BY <1>2, <2>2, <2>3
<1>8. CASE top.at = "effects" /\ l.k < Len(l.w.effects) /\ l.w.effects[l.k + 1].form = "list"
  <2>1. PICK h : /\ Len(lists') = m + 1 /\ Linked(lists', h, m + 1)
                 /\ comments' = Comments(h[m + 1]) /\ entries' = Entries(h[m + 1])
                 /\ UNCHANGED <<file, origin>>
                 /\ \A i \in 1..m : h[i] = g[i]
    BY <1>1, <1>3, <1>8, EnterStep
  <2>2. h[1] = g[1] /\ m + 1 \in Nat /\ m + 1 > 0
    BY <1>2, <2>1
  <2> QED
    BY <1>4, <1>8, <2>1, <2>2
<1>9. CASE top.at = "complete" /\ m > 1
  <2>1. PICK q : q = m - 1
    OBVIOUS
  <2>2. q \in Nat /\ q > 0 /\ q - 1 = m - 2
    BY <1>2, <1>9, <2>1
  <2>3. PICK h : /\ Len(lists') = q /\ Linked(lists', h, q)
                 /\ comments' = Comments(h[q]) /\ entries' = Entries(h[q])
                 /\ UNCHANGED <<file, origin>>
                 /\ \A i \in 1..m - 2 : h[i] = g[i]
                 /\ Begun(g[q], h[q]) /\ h[q].k = g[q].k + 1
    BY <1>1, <1>9, <2>1, LeaveStep
  <2>4. CASE q = 1
    BY <1>1, <1>9, <2>2, <2>3, <2>4
  <2>5. CASE q > 1
    <3>1. h[1] = g[1]
      BY <2>2, <2>3, <2>5
    <3> QED
      BY <1>1, <1>4, <1>9, <2>2, <2>3, <3>1
  <2> QED
    BY <2>2, <2>4, <2>5
<1>10. ~(top.at = "complete" /\ m = 1)
  BY <1>1 DEF PresetParserNext, ReadMode, TruncatedEffect, PlainEffect, CommentEffect, EnterList,
              LeaveList, EndOfList, More
<1>11. l.k = Len(l.w.effects) \/ l.k < Len(l.w.effects)
  <2>1. l.k \in 0..Len(l.w.effects)
    BY <1>2 DEF Level
  <2>2. Len(l.w.effects) \in Nat
    BY <1>2, Indices DEF Level, Fields, HaveField
  <2> QED
    BY <2>1, <2>2
<1>12. top.at \in {"mode", "effects", "complete"} /\ (m = 1 \/ m > 1)
  BY <1>2 DEF Level
<1> QED
  BY <1>5, <1>6, <1>7, <1>8, <1>9, <1>10, <1>11, <1>12

-------------------------------------------------------------------------------
Grown(s, t) == \E x : IsSeq(x) /\ t = s \o x

LEMMA GrownOn ==
  ASSUME NEW s, IsSeq(s), NEW t, Grown(s, t), NEW u, Grown(t, u)
  PROVE  Grown(s, u)
<1>1. PICK x : IsSeq(x) /\ t = s \o x
  BY DEF Grown
<1>2. PICK y : IsSeq(y) /\ u = t \o y
  BY DEF Grown
<1>3. (s \o x) \o y = s \o (x \o y)
  BY <1>1, <1>2, JoinedThrice
<1>4. IsSeq(x \o y)
  BY <1>1, <1>2, Joined
<1>5. u = s \o (x \o y)
  BY <1>1, <1>2, <1>3
<1> QED
  BY <1>4, <1>5 DEF Grown

LEMMA GrownSame ==
  ASSUME NEW s, IsSeq(s)
  PROVE  Grown(s, s)
BY JoinedToNone DEF Grown

\* What holds of every file: nothing that has come out is taken back.
Base ==
  /\ Origin
  /\ IsSeq(comments) /\ IsSeq(entries) /\ IsSeq(lists[1].chain)
  /\ lists[1].start = 0 /\ lists[1].end = Len(file)

LEMMA OutermostIs ==
  ASSUME Inv
  PROVE  /\ Len(lists) \in Nat /\ Len(lists) > 0 /\ IsFrame(lists[1]) /\ top = lists[Len(lists)]
         /\ Len(lists) > 1 => More(lists[1]) /\ Fits(lists[1])
<1>1. Len(lists) \in Nat /\ Len(lists) > 0 /\ DOMAIN lists = 1..Len(lists) /\ top = lists[Len(lists)]
  BY Indices DEF Inv, top, Last
<1>2. 1 \in DOMAIN lists
  BY <1>1
<1> QED
  BY <1>1, <1>2 DEF Inv, Nested

LEMMA Singles ==
  /\ \A e : IsSeq(Entry(e))
  /\ \A p : IsSeq(CommentIn(p))
<1>1. IsSeq(<<>>) /\ \A x : IsSeq(<<x>>)
  BY Tuples, JoinedToNone
<1>2. ASSUME NEW e PROVE IsSeq(Entry(e))
  <2>1. Entry(e) = <<ReadEntry(e)>> \/ Entry(e) = <<>>
    BY DEF Entry
  <2> QED
    BY <1>1, <2>1
<1>3. ASSUME NEW p PROVE IsSeq(CommentIn(p))
  <2>1. CommentIn(p) = <<>> \/ \E x : CommentIn(p) = <<x>>
    <3>1. PICK y : y = LET text == SubSeq(p, 2, 1 + Head(p))
                       IN IF text # <<>> /\ Last(text) = Nul THEN Front(text) ELSE text
      OBVIOUS
    <3>2. CommentIn(p) = IF p = <<>> \/ Head(p) > Len(p) - 1 THEN <<>> ELSE <<y>>
      BY <3>1, Zenon DEF CommentIn
    <3> QED
      BY <3>2, Zenon
  <2> QED
    BY <1>1, <2>1
<1> QED
  BY <1>2, <1>3

LEMMA FieldsKept ==
  ASSUME NEW f, IsFrame(f), NEW how, NEW p
  PROVE  LET g == [f EXCEPT !.at = how, !.pos = p]
         IN g.start = f.start /\ g.end = f.end /\ g.chain = f.chain /\ g.at = how /\ g.pos = p
BY DEF IsFrame

LEMMA FieldsPast ==
  ASSUME NEW f, IsFrame(f), NEW e, NEW effects
  PROVE  LET g == Past(f, e, effects)
         IN /\ g.start = f.start /\ g.end = f.end /\ g.chain = f.chain \o effects
            /\ g.at = f.at /\ g.pos = e.end
BY DEF IsFrame, Past

\* A call that is not the innermost one stays as it is, but for what it was waiting for.
LEMMA Grows ==
  ASSUME Inv, Base, PresetParserNext
  PROVE  /\ UNCHANGED <<file, origin>>
         /\ Grown(comments, comments') /\ Grown(entries, entries')
         /\ Len(lists') \in Nat /\ Len(lists') > 0
         /\ lists'[1].start = lists[1].start /\ lists'[1].end = lists[1].end
         /\ Grown(lists[1].chain, lists'[1].chain)
         /\ Len(lists) > 1 =>
              \/ lists'[1] = lists[1] /\ Len(lists') > 1
              \/ \E node : lists'[1] = Past(lists[1], EffectAt(lists[1]), <<node>>) /\ Len(lists') = 1
<1>1. PICK m, o : m = Len(lists) /\ o = lists[1]
  OBVIOUS
<1>2. m \in Nat /\ m > 0 /\ IsFrame(o) /\ top = lists[m] /\ (m = 1 \/ m > 1) /\ IsFrame(top)
  BY <1>1, OutermostIs, TopIsFrame
<1>3. IsSeq(comments) /\ IsSeq(entries) /\ IsSeq(o.chain)
  BY <1>1 DEF Base
<1>4. Grown(comments, comments) /\ Grown(entries, entries) /\ Grown(o.chain, o.chain)
  BY <1>3, GrownSame
<1>5. \A e : Grown(entries, entries \o Entry(e))
  BY Singles DEF Grown
<1>6. \A p : Grown(comments, comments \o CommentIn(p))
  BY Singles DEF Grown
<1>7. ASSUME NEW f, lists' = Front(lists) \o <<f>>,
             f.start = top.start, f.end = top.end, Grown(top.chain, f.chain)
      PROVE  /\ Len(lists') \in Nat /\ Len(lists') > 0
             /\ lists'[1].start = o.start /\ lists'[1].end = o.end
             /\ Grown(o.chain, lists'[1].chain)
             /\ m > 1 => lists'[1] = o /\ Len(lists') > 1
  <2>1. Len(lists') = m /\ lists'[m] = f /\ \A i \in 1..m - 1 : lists'[i] = lists[i]
    BY <1>1, <1>7, TopReplaced
  <2>2. CASE m = 1
    BY <1>1, <1>2, <1>7, <2>1, <2>2
  <2>3. CASE m > 1
    <3>1. lists'[1] = o
      BY <1>1, <1>2, <2>1, <2>3
    <3> QED
      BY <1>2, <1>4, <2>1, <2>3, <3>1
  <2> QED
    BY <1>2, <2>2, <2>3
<1>8. IsSeq(top.chain) \/ m > 1
  BY <1>1, <1>2, <1>3
<1>9. \A x : m > 1 \/ Grown(top.chain, top.chain)
  BY <1>8, GrownSame
<1>10. CASE ReadMode \/ TruncatedEffect \/ EndOfList
  <2>1. PICK how, p : lists' = Front(lists) \o <<[top EXCEPT !.at = how, !.pos = p]>>
    BY <1>10 DEF ReadMode, TruncatedEffect, EndOfList, Returned
  <2>2. PICK f : f = [top EXCEPT !.at = how, !.pos = p]
    OBVIOUS
  <2>3. f.start = top.start /\ f.end = top.end /\ f.chain = top.chain
    BY <1>2, <2>2, FieldsKept
  <2>4. UNCHANGED <<file, origin, comments, entries>>
    BY <1>10 DEF ReadMode, TruncatedEffect, EndOfList
  <2>5. Len(lists') = m /\ lists'[m] = f /\ \A i \in 1..m - 1 : lists'[i] = lists[i]
    BY <1>1, <2>1, <2>2, TopReplaced
  <2>6. CASE m = 1
    BY <1>1, <1>2, <1>4, <2>3, <2>4, <2>5, <2>6
  <2>7. CASE m > 1
    <3>1. lists'[1] = o
      BY <1>1, <1>2, <2>5, <2>7
    <3> QED
      BY <1>1, <1>2, <1>4, <2>4, <2>5, <2>7, <3>1
  <2> QED
    BY <1>2, <2>6, <2>7
<1>11. CASE PlainEffect \/ CommentEffect
  <2>1. PICK e, effects : lists' = Front(lists) \o <<Past(top, e, effects)>> /\ IsSeq(effects)
    <3>1. CASE PlainEffect
      <4>1. PICK e, effects : e = EffectAt(top) /\ effects = <<Node(Kind(ReadEntry(e)), e)>>
        OBVIOUS
      <4>2. lists' = Front(lists) \o <<Past(top, e, effects)>>
        BY <3>1, <4>1 DEF PlainEffect
      <4>3. IsSeq(effects)
        BY <4>1, Tuples
      <4> QED
        BY <4>2, <4>3
    <3>2. CASE CommentEffect
      <4>1. PICK effects : effects = <<>> /\ IsSeq(effects)
        BY <1>3, JoinedToNone
      <4>2. lists' = Front(lists) \o <<Past(top, EffectAt(top), effects)>>
        BY <3>2, <4>1 DEF CommentEffect
      <4> QED
        BY <4>1, <4>2
    <3> QED
      BY <1>11, <3>1, <3>2
  <2>2. PICK f : f = Past(top, e, effects)
    OBVIOUS
  <2>3. f.start = top.start /\ f.end = top.end /\ Grown(top.chain, f.chain)
    <3>1. f.start = top.start /\ f.end = top.end /\ f.chain = top.chain \o effects
      <4>1. /\ Past(top, e, effects).start = top.start /\ Past(top, e, effects).end = top.end
            /\ Past(top, e, effects).chain = top.chain \o effects
        BY TopIsFrame, FieldsPast
      <4> QED
        BY <2>2, <4>1
    <3> QED
      BY <2>1, <3>1 DEF Grown
  <2>4. /\ UNCHANGED <<file, origin>>
        /\ Grown(comments, comments') /\ Grown(entries, entries')
    <3>1. CASE PlainEffect
      BY <1>4, <1>5, <3>1 DEF PlainEffect
    <3>2. CASE CommentEffect
      BY <1>5, <1>6, <3>2 DEF CommentEffect
    <3> QED
      BY <1>11, <3>1, <3>2
  <2> QED
    BY <1>1, <1>7, <2>1, <2>2, <2>3, <2>4
<1>12. CASE EnterList
  <2>1. PICK f : lists' = Append(lists, f) /\ UNCHANGED <<file, comments, entries, origin>>
    BY <1>12 DEF EnterList
  <2>2. Len(lists') = m + 1 /\ lists'[1] = o
    <3>1. 1 \in 1..Len(lists) /\ IsSeq(lists)
      BY <1>1, <1>2 DEF Inv
    <3> QED
      BY <1>1, <2>1, <3>1, OneMore
  <2> QED
    BY <1>1, <1>2, <1>4, <2>1, <2>2
<1>13. CASE LeaveList
  <2>1. PICK q, outer : q = m - 1 /\ outer = lists[q]
    OBVIOUS
  <2>2. m > 1 /\ UNCHANGED <<file, comments, origin>>
    BY <1>1, <1>13 DEF LeaveList
  <2>3. entries' = entries \o Entry(EffectAt(outer))
    BY <1>1, <1>13, <2>1 DEF LeaveList
  <2>4. PICK node : lists' = SubSeq(lists, 1, m - 2) \o <<Past(outer, EffectAt(outer), <<node>>)>>
    BY <1>1, <1>13, <2>1 DEF LeaveList
  <2>5. PICK f : f = Past(outer, EffectAt(outer), <<node>>)
    OBVIOUS
  <2>6. Len(lists') = q /\ lists'[q] = f /\ \A i \in 1..m - 2 : lists'[i] = lists[i]
    <3>1. IsSeq(lists) /\ Len(lists) > 1 /\ lists' = SubSeq(lists, 1, Len(lists) - 2) \o <<f>>
      BY <1>1, <2>2, <2>4, <2>5 DEF Inv
    <3>2. /\ Len(lists') = Len(lists) - 1 /\ lists'[Len(lists) - 1] = f
          /\ \A i \in 1..Len(lists) - 2 : lists'[i] = lists[i]
      BY <3>1, LastTwoReplaced
    <3> QED
      BY <1>1, <2>1, <3>2
  <2>7. CASE m = 2
    <3>1. q = 1 /\ outer = o /\ Len(lists') = 1 /\ lists'[1] = f
      BY <1>1, <2>1, <2>6, <2>7
    <3>2. f.start = o.start /\ f.end = o.end /\ f.chain = o.chain \o <<node>>
      <4>1. PICK e, effects : e = EffectAt(outer) /\ effects = <<node>>
        OBVIOUS
      <4>2. /\ Past(o, e, effects).start = o.start /\ Past(o, e, effects).end = o.end
            /\ Past(o, e, effects).chain = o.chain \o effects
        BY <1>2, FieldsPast
      <4> QED
        BY <2>5, <3>1, <4>1, <4>2
    <3>3. Grown(o.chain, f.chain)
      BY <3>2, Tuples DEF Grown
    <3>4. lists'[1] = Past(o, EffectAt(o), <<node>>)
      BY <2>5, <3>1
    <3>5. Grown(comments, comments') /\ Grown(entries, entries')
      BY <1>4, <1>5, <2>2, <2>3
    <3>6. \E nd : lists'[1] = Past(lists[1], EffectAt(lists[1]), <<nd>>) /\ Len(lists') = 1
      BY <1>1, <3>1, <3>4, Zenon
    <3>7. /\ lists'[1].start = lists[1].start /\ lists'[1].end = lists[1].end
          /\ Grown(lists[1].chain, lists'[1].chain)
      BY <1>1, <3>1, <3>2, <3>3, Zenon
    <3>8. Len(lists') \in Nat /\ Len(lists') > 0
      BY <3>1
    <3> QED
      BY <2>2, <3>5, <3>6, <3>7, <3>8
  <2>8. CASE m > 2
    <3>1. lists'[1] = o /\ q \in Nat /\ q > 1
      BY <1>1, <1>2, <2>1, <2>6, <2>8
    <3> QED
      BY <1>1, <1>4, <1>5, <2>2, <2>3, <2>6, <3>1
  <2>9. m = 2 \/ m > 2
    BY <1>2, <2>2
  <2> QED
    BY <2>7, <2>8, <2>9
<1> QED
  BY <1>10, <1>11, <1>12, <1>13 DEF PresetParserNext

LEMMA BaseStep ==
  ASSUME Inv, Base, PresetParserNext
  PROVE  Base'
<1>1. /\ UNCHANGED <<file, origin>>
      /\ Grown(comments, comments') /\ Grown(entries, entries')
      /\ lists'[1].start = lists[1].start /\ lists'[1].end = lists[1].end
      /\ Grown(lists[1].chain, lists'[1].chain)
  BY Grows
<1>2. ASSUME NEW s, IsSeq(s), NEW x, IsSeq(x) PROVE IsSeq(s \o x)
  BY <1>2, Joined
<1>3. IsSeq(comments') /\ IsSeq(entries') /\ IsSeq(lists'[1].chain)
  <2>1. IsSeq(comments) /\ IsSeq(entries) /\ IsSeq(lists[1].chain)
    BY DEF Base
  <2>2. PICK x, y, z : /\ IsSeq(x) /\ comments' = comments \o x
                       /\ IsSeq(y) /\ entries' = entries \o y
                       /\ IsSeq(z) /\ lists'[1].chain = lists[1].chain \o z
    BY <1>1 DEF Grown
  <2>3. IsSeq(comments \o x)
    BY <1>2, <2>1, <2>2
  <2>4. IsSeq(entries \o y)
    BY <1>2, <2>1, <2>2
  <2>5. IsSeq(lists[1].chain \o z)
    BY <1>2, <2>1, <2>2
  <2> QED
    BY <2>2, <2>3, <2>4, <2>5
<1>4. Origin'
  BY <1>1 DEF Base, Origin, preset
<1>5. IsSeq(comments)' /\ IsSeq(entries)' /\ IsSeq(lists[1].chain)'
  BY <1>3 DEF IsSeq
<1> QED
  BY <1>1, <1>4, <1>5 DEF Base

-------------------------------------------------------------------------------
(* Where the parser may be, as to the damage. *)

Written(field) == All(Upto(preset.effects, damaged), field)

\* The damage is behind the length of the effect it is in.
HeaderKept ==
  /\ ~origin.cut /\ damaged < Len(preset.effects)
  /\ origin.at > EndOf(preset, damaged) + Header(preset.effects[damaged + 1].cells[1])

\* The effects as they come out: as they were written, all but the damaged one.
Alike(row) ==
  /\ IsSeq(row) /\ Len(row) = Len(preset.effects) /\ Fields(row)
  /\ \A i \in 1..Len(row) : /\ row[i].cells = preset.effects[i].cells
                            /\ i # damaged + 1 => row[i] = preset.effects[i]
  /\ damaged < Len(row) =>
       Len(row[damaged + 1].chain) = Len(preset.effects[damaged + 1].chain)

Outermost(row) == [mode |-> preset.mode, effects |-> row]

\* It reads what was written: it has not come to the damage, or is past it.
Intact(row, g) ==
  /\ Alike(row) /\ IsStack(g)
  /\ g[1].w = Outermost(row) /\ g[1].c = <<>> /\ g[1].s = <<>>
  /\ Len(lists) > 1 => g[1].k # damaged
  /\ g[1].k > damaged => HeaderKept

\* The file ended.
CutOff ==
  /\ origin.cut /\ Len(lists) = 1 /\ lists[1].at \in {"complete", "failed"}
  /\ lists[1].chain = Written("chain")
  /\ comments = Written("comments") /\ entries = Written("entries")

\* It is in a list that was damaged, but for its length.
InsideHit ==
  /\ HeaderKept /\ Len(lists) > 1
  /\ Len(preset.effects[damaged + 1].chain) = 1
  /\ lists[1].at = "effects" /\ lists[1].pos = EndOf(preset, damaged)
  /\ lists[1].chain = Written("chain")
  /\ Grown(Written("comments"), comments) /\ Grown(Written("entries"), entries)

\* It reads something else than was written.
Broken ==
  /\ ~origin.cut /\ ~HeaderKept
  /\ Grown(Written("chain"), lists[1].chain)
  /\ Grown(Written("comments"), comments) /\ Grown(Written("entries"), entries)

Somewhere == CutOff \/ InsideHit \/ Broken \/ \E row, g : Intact(row, g)

\* Where the outermost list is, it is for the file too.
LEMMA RowEnds ==
  ASSUME Origin, NEW row, Alike(row)
  PROVE  /\ HasCells(Outermost(row)) /\ Fields(row) /\ Len(row) \in Nat
         /\ \A k \in 0..Len(row) : EndOf(Outermost(row), k) = EndOf(preset, k)
         /\ EndOf(preset, Len(row)) = Len(CellsOf(preset))
<1>1. PICK w, es : w = Outermost(row) /\ es = preset.effects
  OBVIOUS
<1>2. w.mode = preset.mode /\ w.effects = row
  BY <1>1 DEF Outermost
<1>3. /\ IsSeq(row) /\ Fields(row) /\ Len(row) = Len(es) /\ Len(row) \in Nat /\ IsSeq(es)
      /\ \A i \in 1..Len(row) : row[i].cells = es[i].cells
  <2>1. IsSeq(row) /\ Fields(row) /\ Len(row) = Len(es) /\ \A i \in 1..Len(row) : row[i].cells = es[i].cells
    BY <1>1 DEF Alike
  <2>2. IsSeq(es)
    BY <1>1, PresetHasCells, EffectsHaveFields
  <2> QED
    BY <2>1, <2>2, Indices
<1>4. IsSeq(w.mode) /\ HasCells(preset)
  BY <1>2, PresetHasCells DEF HasCells
<1>5. HasCells(w)
  BY <1>2, <1>3, <1>4 DEF HasCells, Fields
<1>6. ASSUME NEW k \in 0..Len(row) PROVE EndOf(w, k) = EndOf(preset, k)
  <2>1. \A i \in 1..k : row[i]["cells"] = es[i]["cells"]
    BY <1>3
  <2>2. k \in 0..Len(es)
    BY <1>3
  <2>3. All(Upto(row, k), "cells") = All(Upto(es, k), "cells")
    BY <1>3, <2>1, <2>2, UptoAlike
  <2>4. EndOf(w, k) = Len(preset.mode) + Len(All(Upto(row, k), "cells"))
    BY <1>2, Zenon DEF EndOf, Upto
  <2>5. EndOf(preset, k) = Len(preset.mode) + Len(All(Upto(es, k), "cells"))
    BY <1>1, Zenon DEF EndOf, Upto
  <2> QED
    BY <2>3, <2>4, <2>5, Zenon
<1>7. EndOf(preset, Len(row)) = Len(CellsOf(preset))
  BY <1>1, <1>3, <1>4, EndsAt
<1> QED
  BY <1>1, <1>3, <1>5, <1>6, <1>7

\* Before the damage the row is what was written.
LEMMA RowWritten ==
  ASSUME Origin, NEW row, Alike(row), NEW field
  PROVE  All(Upto(row, damaged), field) = Written(field)
<1>1. PICK es, d : es = preset.effects /\ d = damaged
  OBVIOUS
<1>2. IsSeq(row) /\ Len(row) = Len(es) /\ IsSeq(es) /\ d \in 0..Len(row) /\ d \in 0..Len(es) /\ Len(es) \in Nat
  BY <1>1, PresetHasCells, EffectsHaveFields, DamagedIs, Indices DEF Alike
<1>3. ASSUME NEW i \in 1..d PROVE row[i][field] = es[i][field]
  <2>1. i \in 1..Len(row) /\ i # d + 1
    BY <1>2
  <2>2. row[i] = es[i]
    BY <1>1, <2>1 DEF Alike
  <2> QED
    BY <2>2
<1>4. All(Upto(row, d), field) = All(Upto(es, d), field)
  BY <1>2, <1>3, UptoAlike
<1> QED
  BY <1>1, <1>4, Zenon DEF Written

\* Away from the damage the outermost call has in front of it what was written.
LEMMA OutermostReady ==
  ASSUME Inv, Base, NEW row, NEW g, Intact(row, g), Len(lists) = 1,
         top.at = "effects" => g[1].k # damaged \/ damaged = Len(preset.effects)
  PROVE  Ready(top, g[1])
<1>1. PICK f, l, d, es : f = top /\ l = g[1] /\ d = damaged /\ es = preset.effects
  OBVIOUS
<1>2. IsFrame(f) /\ Level(f, l) /\ f.start = 0 /\ f.end = Len(file) /\ Origin
  <2>1. IsStack(g)
    BY DEF Intact
  <2>2. IsFrame(top) /\ Level(top, g[1]) /\ top = lists[1]
    BY <2>1, TopLevel
  <2> QED
    BY <1>1, <2>2 DEF Base
<1>3. l.w.mode = preset.mode /\ l.w.effects = row /\ l.w = Outermost(row) /\ Alike(row)
      /\ (l.k > d => HeaderKept)
  BY <1>1 DEF Intact, Outermost
<1>4. /\ Len(row) \in Nat /\ Len(row) = Len(es) /\ l.k \in 0..Len(row) /\ d \in 0..Len(row)
      /\ \A k \in 0..Len(row) : EndOf(l.w, k) = EndOf(preset, k)
      /\ EndOf(preset, Len(row)) = Len(CellsOf(preset))
      /\ HasCells(preset)
  <2>1. l.k \in 0..Len(row)
    BY <1>2, <1>3 DEF Level
  <2>2. d \in 0..Len(es) /\ Len(row) = Len(es)
    BY <1>1, <1>2, <1>3, DamagedIs DEF Alike
  <2>3. Len(row) \in Nat /\ EndOf(preset, Len(row)) = Len(CellsOf(preset))
    BY <1>2, <1>3, RowEnds
  <2>4. \A k \in 0..Len(row) : EndOf(Outermost(row), k) = EndOf(preset, k)
    BY <1>2, <1>3, RowEnds
  <2>5. HasCells(preset)
    BY <1>2, PresetHasCells
  <2> QED
    BY <1>3, <2>1, <2>2, <2>3, <2>4, <2>5
<1>5. ASSUME f.at = "mode"
      PROVE  /\ WellFormedMode(l.w.mode) /\ f.pos + Len(l.w.mode) <= f.end
             /\ Holds(f.pos, l.w.mode, Len(l.w.mode))
  <2>1. f.pos = 0
    BY <1>2, <1>5 DEF Level
  <2>2. WellFormedMode(preset.mode) /\ Len(preset.mode) \in Nat /\ Len(preset.mode) <= Len(file)
        /\ Holds(0, preset.mode, Len(preset.mode))
    BY <1>2, PresetHasCells, ModeIntact
  <2> QED
    BY <1>2, <1>3, <2>1, <2>2
<1>6. ASSUME f.at = "effects" PROVE f.pos = EndOf(preset, l.k) /\ EndOf(preset, l.k) \in Nat
  <2>1. EndOf(preset, l.k) \in Nat
    BY <1>1, <1>4, EndsAt
  <2>2. f.pos = f.start + EndOf(l.w, l.k)
    BY <1>2, <1>6 DEF Level
  <2>3. EndOf(l.w, l.k) = EndOf(preset, l.k)
    BY <1>4
  <2> QED
    BY <1>2, <2>1, <2>2, <2>3
<1>7. ASSUME f.at = "effects", l.k < Len(l.w.effects)
      PROVE  l.w.effects[l.k + 1] \in Effects /\ Next(f, l.w.effects[l.k + 1])
  <2>1. l.k \in 0..Len(es) - 1 /\ l.k + 1 \in 1..Len(es) /\ l.k + 1 \in 1..Len(row)
    BY <1>3, <1>4, <1>7
  <2>2. l.k # d
    BY <1>1, <1>4, <1>7, <2>1
  <2>3. origin.cut => l.k < d
    BY <1>3, <1>4, <2>2 DEF HeaderKept
  <2>4. PICK e : e = es[l.k + 1]
    OBVIOUS
  <2>5. EndOf(preset, l.k) + Len(e.cells) <= Len(file) /\ Holds(EndOf(preset, l.k), e.cells, Len(e.cells))
    BY <1>1, <1>2, <2>1, <2>2, <2>3, <2>4, EffectIntact
  <2>6. e \in Effects
    BY <1>1, <1>2, <2>1, <2>4, PresetHasCells, EffectsHaveFields
  <2>7. row[l.k + 1] = e
    <3>1. l.k + 1 # d + 1
      BY <1>4, <2>2
    <3> QED
      BY <1>1, <1>3, <2>1, <2>4, <3>1 DEF Alike
  <2>8. Next(f, e)
    BY <1>2, <1>6, <1>7, <2>5 DEF Next
  <2> QED
    BY <1>3, <2>6, <2>7, <2>8
<1>8. ASSUME f.at = "effects", l.k = Len(l.w.effects) PROVE ~More(f)
  <2>1. l.k = Len(row) /\ f.pos = Len(CellsOf(preset)) /\ Len(CellsOf(preset)) \in Nat
    BY <1>3, <1>4, <1>6, <1>8
  <2>2. Len(file) = Len(CellsOf(preset))
    <3>1. CASE ~origin.cut
      BY <1>2, <3>1, FileIs
    <3>2. CASE origin.cut
      <4>1. d = Len(row)
        BY <1>3, <1>4, <2>1, <3>2 DEF HeaderKept
      <4>2. Len(CellsOf(preset)) < origin.at
        BY <1>1, <1>2, <1>4, <4>1, DamagedIs
      <4>3. Len(file) = origin.at - 1 /\ origin.at \in Nat
        BY <1>2, <3>2, FileIs
      <4>4. origin.at <= Len(CellsOf(preset)) + 1
        <5>1. origin.at \in Len(preset.mode) + 1..Len(CellsOf(preset)) + 1
          BY <1>2 DEF Origin
        <5>2. Len(preset.mode) \in Nat
          BY <1>4, EndsAt
        <5> QED
          BY <2>1, <5>1, <5>2
      <4> QED
        BY <2>1, <4>2, <4>3, <4>4
    <3> QED
      BY <3>1, <3>2
  <2> QED
    BY <1>2, <2>1, <2>2 DEF More
<1> QED
  BY <1>1, <1>5, <1>7, <1>8 DEF Ready

LEMMA StaysWritten ==
  ASSUME UNCHANGED <<file, origin>>
  PROVE  /\ preset' = preset /\ damaged' = damaged /\ (HeaderKept <=> HeaderKept')
         /\ \A field : Written(field)' = Written(field)
<1>1. preset' = preset
  BY DEF preset
<1>2. damaged' = damaged
  BY <1>1 DEF damaged
<1> QED
  BY <1>1, <1>2 DEF HeaderKept, Written

-------------------------------------------------------------------------------
(* Steps of the parser away from the damage, and at it. *)

LEMMA IntactHere ==
  ASSUME UNCHANGED <<file, origin>>, NEW row, NEW g, Alike(row),
         Linked(lists', g, Len(lists')),
         comments' = Comments(g[Len(lists')]), entries' = Entries(g[Len(lists')]),
         g[1].w = Outermost(row), g[1].c = <<>>, g[1].s = <<>>,
         Len(lists') > 1 => g[1].k # damaged,
         g[1].k > damaged => HeaderKept
  PROVE  Intact(row, g)'
<1>1. preset' = preset /\ damaged' = damaged /\ (HeaderKept <=> HeaderKept')
  BY StaysWritten
<1>2. Alike(row)'
  BY <1>1 DEF Alike
<1>3. IsStack(g)'
  BY DEF IsStack, Linked, Link, Next, Holds
<1>4. (g[1].w = Outermost(row))'
  BY <1>1 DEF Outermost
<1> QED
  BY <1>1, <1>2, <1>3, <1>4 DEF Intact

\* Away from the damage.
LEMMA IntactStep ==
  ASSUME Inv, Base, NEW row, NEW g, Intact(row, g), PresetParserNext,
         Len(lists) = 1 /\ top.at = "effects" => g[1].k # damaged \/ damaged = Len(preset.effects)
  PROVE  \E h : Intact(row, h)'
<1>1. /\ Alike(row) /\ IsStack(g)
      /\ g[1].w = Outermost(row) /\ g[1].c = <<>> /\ g[1].s = <<>>
      /\ Len(lists) > 1 => g[1].k # damaged
      /\ g[1].k > damaged => HeaderKept
  BY DEF Intact
<1>2. Len(lists) = 1 => Ready(top, g[1])
  BY OutermostReady
<1>3. PICK h, n : /\ n = Len(lists') /\ n \in Nat /\ n > 0 /\ Linked(lists', h, n)
                  /\ comments' = Comments(h[n]) /\ entries' = Entries(h[n])
                  /\ UNCHANGED <<file, origin>>
                  /\ Begun(g[1], h[1])
                  /\ \/ h[1].k = g[1].k /\ (n = 1 \/ Len(lists) > 1 \/ top.at = "effects")
                     \/ h[1].k = g[1].k + 1 /\ n = 1 /\ (Len(lists) > 1 \/ top.at = "effects")
  BY <1>1, <1>2, StackStep
<1>4. h[1].w = Outermost(row) /\ h[1].c = <<>> /\ h[1].s = <<>> /\ Outermost(row).effects = row
  BY <1>1, <1>3 DEF Begun, Outermost
<1>5. Len(lists) \in Nat /\ Len(lists) > 0
  BY OutermostIs
<1>6. g[1].k \in 0..Len(row) /\ h[1].k \in 0..Len(row) /\ (n > 1 => h[1].k < Len(row))
  <2>1. 1 \in 1..Len(lists) /\ 1 \in 1..n /\ (n > 1 => 1 \in 1..n - 1)
    BY <1>3, <1>5
  <2>2. Level(lists[1], g[1]) /\ Level(lists'[1], h[1])
    BY <1>1, <1>3, <2>1 DEF IsStack, Linked
  <2>3. n > 1 => Link(lists'[1], h[1], lists'[1 + 1], h[1 + 1])
    BY <1>3, <2>1 DEF Linked
  <2> QED
    BY <1>1, <1>4, <2>2, <2>3 DEF Level, Link
<1>7. damaged \in 0..Len(row) /\ Len(row) \in Nat /\ Len(row) = Len(preset.effects)
  BY <1>1, DamagedIs, RowEnds DEF Base, Alike
<1>8. n > 1 => h[1].k # damaged
  <2>1. PICK a, b, d, m, r : a = g[1].k /\ b = h[1].k /\ d = damaged /\ m = Len(lists) /\ r = Len(row)
    OBVIOUS
  <2>2. /\ m > 1 => a # d
        /\ m = 1 /\ top.at = "effects" => a # d \/ d = r
        /\ \/ b = a /\ (n = 1 \/ m > 1 \/ top.at = "effects")
           \/ b = a + 1 /\ n = 1 /\ (m > 1 \/ top.at = "effects")
        /\ n > 1 => b < r
        /\ r \in Nat /\ d \in 0..r /\ a \in 0..r /\ b \in 0..r /\ m \in Nat /\ m > 0 /\ n \in Nat
    BY <1>1, <1>3, <1>5, <1>6, <1>7, <2>1
  <2>3. n > 1 => b # d
    BY <2>2, SMT
  <2> QED
    BY <2>1, <2>3
<1>9. h[1].k > damaged => HeaderKept
  <2>1. PICK a, b, d, m, r, kept : a = g[1].k /\ b = h[1].k /\ d = damaged /\ m = Len(lists) /\ r = Len(row)
                                   /\ kept = HeaderKept
    OBVIOUS
  <2>2. /\ m > 1 => a # d
        /\ m = 1 /\ top.at = "effects" => a # d \/ d = r
        /\ \/ b = a
           \/ b = a + 1 /\ (m > 1 \/ top.at = "effects")
        /\ r \in Nat /\ d \in 0..r /\ a \in 0..r /\ b \in 0..r /\ m \in Nat /\ m > 0
    BY <1>1, <1>3, <1>5, <1>6, <1>7, <2>1
  <2>3. b > d => a > d
    BY <2>2, SMT
  <2>4. a > d => HeaderKept
    BY <1>1, <2>1
  <2> QED
    BY <2>1, <2>3, <2>4
<1>10. Intact(row, h)'
  BY <1>1, <1>3, <1>4, <1>8, <1>9, IntactHere
<1> QED
  BY <1>10

\* At the damaged effect: nothing else came out than the effects before it.
LEMMA AtHit ==
  ASSUME Inv, Base, NEW row, NEW g, Intact(row, g), Len(lists) = 1, top.at = "effects",
         g[1].k = damaged
  PROVE  /\ IsFrame(top) /\ top = lists[1] /\ top.start = 0 /\ top.end = Len(file)
         /\ top.pos = EndOf(preset, damaged)
         /\ top.chain = Written("chain")
         /\ comments = Written("comments") /\ entries = Written("entries")
<1>1. IsStack(g) /\ Alike(row) /\ g[1].w = Outermost(row) /\ g[1].c = <<>> /\ g[1].s = <<>> /\ Origin
  BY DEF Intact, Base
<1>2. IsFrame(top) /\ top = lists[1] /\ Level(top, g[1])
  BY <1>1, TopLevel
<1>3. top.start = 0 /\ top.end = Len(file)
  BY <1>2 DEF Base
<1>4. Outermost(row).effects = row
  BY DEF Outermost
<1>5. PICK d : d = damaged
  OBVIOUS
<1>6. d \in 0..Len(row)
  BY <1>1, <1>5, DamagedIs DEF Alike
<1>7. top.pos = EndOf(preset, damaged)
  <2>1. EndOf(Outermost(row), d) = EndOf(preset, d)
    BY <1>1, <1>6, RowEnds
  <2>2. EndOf(preset, d) \in Nat
    <3>1. d \in 0..Len(preset.effects)
      BY <1>1, <1>5, DamagedIs
    <3> QED
      BY <1>1, <3>1, PresetHasCells, EndsAt
  <2>3. top.pos = 0 + EndOf(Outermost(row), d)
    BY <1>1, <1>2, <1>3, <1>5 DEF Level
  <2> QED
    BY <1>5, <2>1, <2>2, <2>3
<1>8. \A field : All(Upto(row, d), field) = Written(field)
  BY <1>1, <1>5, RowWritten
<1>9. top.chain = Written("chain")
  <2>1. top.chain = All(Upto(row, d), "chain")
    BY <1>1, <1>2, <1>4, <1>5 DEF Level
  <2> QED
    BY <1>8, <2>1
<1>10. Fields(row)
  BY <1>1 DEF Alike
<1>11. comments = Written("comments")
  <2>1. comments = <<>> \o All(Upto(row, d), "comments")
    BY <1>1, <1>4, <1>5 DEF IsStack, Comments
  <2>2. IsSeq(All(Upto(row, d), "comments"))
    BY <1>6, <1>10, AllIsSeq DEF Fields
  <2>3. <<>> \o All(Upto(row, d), "comments") = All(Upto(row, d), "comments")
    BY <2>2, JoinedToNone
  <2> QED
    BY <1>8, <2>1, <2>3
<1>12. entries = Written("entries")
  <2>1. entries = <<>> \o All(Upto(row, d), "entries")
    BY <1>1, <1>4, <1>5 DEF IsStack, Entries
  <2>2. IsSeq(All(Upto(row, d), "entries"))
    BY <1>6, <1>10, AllIsSeq DEF Fields
  <2>3. <<>> \o All(Upto(row, d), "entries") = All(Upto(row, d), "entries")
    BY <2>2, JoinedToNone
  <2> QED
    BY <1>8, <2>1, <2>3
<1> QED
  BY <1>2, <1>3, <1>7, <1>9, <1>11, <1>12

LEMMA HitEffect ==
  ASSUME Origin, damaged < Len(preset.effects)
  PROVE  preset.effects[damaged + 1] \in Effects
<1>1. damaged + 1 \in 1..Len(preset.effects)
  <2>1. Len(preset.effects) \in Nat /\ damaged \in 0..Len(preset.effects)
    BY PresetHasCells, EndsAt, DamagedIs
  <2> QED
    BY <2>1
<1> QED
  BY <1>1, PresetHasCells, EffectsHaveFields

\* Of a file that was cut off in an effect, that effect does not fit.
LEMMA HitCut ==
  ASSUME Inv, Base, origin.cut, damaged < Len(preset.effects), NEW f, IsFrame(f),
         f.pos = EndOf(preset, damaged), f.end = Len(file), More(f)
  PROVE  ~Fits(f)
<1>1. SUFFICES ASSUME Fits(f) PROVE FALSE
  OBVIOUS
<1>2. PICK e, x, a, n, h : /\ e = preset.effects[damaged + 1] /\ x = EndOf(preset, damaged)
                           /\ a = origin.at /\ n = Len(e.cells) /\ h = Header(e.cells[1])
  OBVIOUS
<1>3. /\ x \in Nat /\ n \in Nat /\ a \in Nat /\ a <= x + n
      /\ Len(file) = a - 1
      /\ \A j \in 1..n : x + j < a /\ x + j <= Len(file) => file[x + j] = e.cells[j]
  BY <1>2, EffectHit, FileIs DEF Base
<1>4. h \in 1..n /\ h >= 2 /\ e.cells[h] = n - h
  <2>1. HeaderSays(e)
    BY <1>2, HitEffect, EffectFields DEF Base
  <2> QED
    BY <1>2, <2>1 DEF HeaderSays
<1>5. f.pos = x /\ f.end = a - 1 /\ x + 2 <= a - 1
  BY <1>2, <1>3 DEF More
<1>6. file[x + 1] = e.cells[1]
  <2>1. 1 \in 1..n /\ x + 1 < a /\ x + 1 <= Len(file)
    BY <1>3, <1>4, <1>5
  <2> QED
    BY <1>3, <2>1
<1>7. x + h <= a - 1 /\ EffectAt(f).end <= a - 1
  BY <1>1, <1>2, <1>5, <1>6 DEF Fits
<1>8. file[x + h] = n - h
  <2>1. x + h < a /\ x + h <= Len(file)
    BY <1>3, <1>4, <1>7
  <2> QED
    BY <1>3, <1>4, <2>1
<1>9. EffectAt(f).end = (x + h) + file[x + h]
  BY <1>2, <1>5, <1>6 DEF EffectAt
<1> QED
  BY <1>3, <1>4, <1>7, <1>8, <1>9

LEMMA CutStep ==
  ASSUME Inv, Base, NEW row, NEW g, Intact(row, g), Len(lists) = 1, top.at = "effects",
         g[1].k = damaged, damaged < Len(preset.effects), origin.cut, PresetParserNext
  PROVE  CutOff'
<1>1. /\ IsFrame(top) /\ top = lists[1] /\ top.end = Len(file) /\ top.pos = EndOf(preset, damaged)
      /\ top.chain = Written("chain")
      /\ comments = Written("comments") /\ entries = Written("entries")
  BY AtHit
<1>2. ~(More(top) /\ Fits(top))
  BY <1>1, HitCut
<1>3. TruncatedEffect \/ EndOfList
  BY <1>2 DEF PresetParserNext, ReadMode, PlainEffect, CommentEffect, EnterList, LeaveList
<1>4. PICK how \in {"complete", "failed"} : lists' = Front(lists) \o <<Returned(how)>>
  BY <1>3 DEF TruncatedEffect, EndOfList
<1>5. UNCHANGED <<file, origin, comments, entries>>
  BY <1>3 DEF TruncatedEffect, EndOfList
<1>6. PICK f : f = Returned(how)
  OBVIOUS
<1>7. f.at = how /\ f.chain = top.chain
  BY <1>1, <1>6 DEF Returned, IsFrame
<1>8. Len(lists') = 1 /\ lists'[1] = f
  BY <1>4, <1>6, TopReplaced
<1>9. \A field : Written(field)' = Written(field)
  BY <1>5, StaysWritten
<1> QED
  BY <1>1, <1>4, <1>5, <1>7, <1>8, <1>9 DEF CutOff

\* The header of the damaged effect is read as it was written.
LEMMA HitHeader ==
  ASSUME Inv, Base, HeaderKept, NEW f, IsFrame(f), f.at = "effects",
         f.pos = EndOf(preset, damaged), f.end = Len(file)
  PROVE  LET e == preset.effects[damaged + 1]
         IN /\ e \in Effects
            /\ More(f) /\ Fits(f)
            /\ EffectAt(f).id = e.cells[1]
            /\ EffectAt(f).end = EndOf(preset, damaged + 1)
<1>1. PICK e, x, a, n, h : /\ e = preset.effects[damaged + 1] /\ x = EndOf(preset, damaged)
                           /\ a = origin.at /\ n = Len(e.cells) /\ h = Header(e.cells[1])
  OBVIOUS
<1>2. ~origin.cut /\ damaged < Len(preset.effects) /\ a > x + h /\ Origin
  BY <1>1 DEF HeaderKept, Base
<1>3. e \in Effects
  BY <1>1, <1>2, HitEffect
<1>4. /\ x \in Nat /\ n \in Nat /\ a \in Nat
      /\ x + n <= Len(file)
      /\ \A j \in 1..n : x + j < a /\ x + j <= Len(file) => file[x + j] = e.cells[j]
  BY <1>1, <1>2, EffectHit, FileIs
<1>5. HeaderSays(e) /\ h \in 1..n /\ Len(file) \in Nat
  BY <1>1, <1>2, <1>3, EffectFields, FileIs DEF HeaderSays
<1>6. Holds(x, e.cells, h)
  <2>1. ASSUME NEW j \in 1..h PROVE file[x + j] = e.cells[j]
    <3>1. j \in 1..n /\ x + j < a /\ x + j <= Len(file)
      BY <1>2, <1>4, <1>5
    <3> QED
      BY <1>4, <3>1
  <2> QED
    BY <2>1 DEF Holds
<1>7. /\ More(f) /\ Fits(f)
      /\ EffectAt(f).id = e.cells[1]
      /\ EffectAt(f).end = f.pos + Len(e.cells)
  <2>1. f.pos + Len(e.cells) <= f.end /\ Holds(f.pos, e.cells, Header(e.cells[1]))
    BY <1>1, <1>4, <1>6
  <2> QED
    BY <1>5, <2>1, HeaderRead
<1>8. EndOf(preset, damaged + 1) = x + n
  <2>1. damaged \in 0..Len(preset.effects) - 1
    <3>1. Len(preset.effects) \in Nat /\ damaged \in 0..Len(preset.effects)
      BY <1>2, PresetHasCells, EndsAt, DamagedIs
    <3> QED
      BY <1>2, <3>1
  <2>2. HasCells(preset)
    BY <1>2, PresetHasCells
  <2>3. PICK d : d = damaged
    OBVIOUS
  <2>4. d \in 0..Len(preset.effects) - 1
    BY <2>1, <2>3
  <2>5. EndOf(preset, d + 1) = EndOf(preset, d) + Len(preset.effects[d + 1].cells)
    BY <2>2, <2>4, EffectLies
  <2> QED
    BY <1>1, <2>3, <2>5
<1> QED
  BY <1>1, <1>3, <1>7, <1>8

\* What came out in place of the damaged effect.
Instead(node, x, y) ==
  [i \in 1..Len(preset.effects) |->
     IF i = damaged + 1
       THEN [cells |-> preset.effects[i].cells, chain |-> node, comments |-> x, entries |-> y]
       ELSE preset.effects[i]]

LEMMA InsteadAlike ==
  ASSUME Origin, damaged < Len(preset.effects), NEW node, IsSeq(node), NEW x, IsSeq(x), NEW y, IsSeq(y),
         Len(node) = Len(preset.effects[damaged + 1].chain)
  PROVE  LET row == Instead(node, x, y)
         IN /\ Alike(row) /\ row[damaged + 1].chain = node
            /\ row[damaged + 1].comments = x /\ row[damaged + 1].entries = y
<1>1. PICK row, es, d, r : /\ row = Instead(node, x, y) /\ es = preset.effects /\ d = damaged
                           /\ r = Len(preset.effects)
  OBVIOUS
<1>2. r \in Nat /\ d \in 0..r /\ d < r /\ IsSeq(es) /\ r = Len(es)
      /\ HaveField(es, "cells") /\ HaveField(es, "chain")
      /\ HaveField(es, "comments") /\ HaveField(es, "entries")
  BY <1>1, PresetHasCells, EndsAt, EffectsHaveFields, DamagedIs
<1>3. row = [i \in 1..r |->
               IF i = d + 1
                 THEN [cells |-> es[i].cells, chain |-> node, comments |-> x, entries |-> y]
                 ELSE es[i]]
  BY <1>1 DEF Instead
<1>4. IsSeq(row) /\ Len(row) = r
  <2>1. row = [i \in 1..r |-> row[i]]
    BY <1>3
  <2> QED
    BY <1>2, <2>1, FunctionIsSeq
<1>5. /\ d + 1 \in 1..r
      /\ row[d + 1].cells = es[d + 1].cells /\ row[d + 1].chain = node
      /\ row[d + 1].comments = x /\ row[d + 1].entries = y
  BY <1>2, <1>3
<1>6. \A i \in 1..r : i # d + 1 => row[i] = es[i]
  BY <1>3
<1>7. \A i \in 1..r : row[i].cells = es[i].cells
  BY <1>5, <1>6
<1>8. Fields(row)
  <2>1. ASSUME NEW i \in 1..r
        PROVE  IsSeq(row[i].cells) /\ IsSeq(row[i].chain) /\ IsSeq(row[i].comments) /\ IsSeq(row[i].entries)
    <3>1. IsSeq(es[i].cells) /\ IsSeq(es[i].chain) /\ IsSeq(es[i].comments) /\ IsSeq(es[i].entries)
      BY <1>2 DEF HaveField
    <3>2. CASE i = d + 1
      <4>1. /\ row[i].cells = es[i].cells /\ row[i].chain = node
            /\ row[i].comments = x /\ row[i].entries = y
        BY <1>5, <3>2
      <4> QED
        BY <3>1, <4>1
    <3>3. CASE i # d + 1
      BY <1>6, <3>1, <3>3
    <3> QED
      BY <3>2, <3>3
  <2> QED
    BY <1>4, <2>1 DEF Fields, HaveField
<1>9. Alike(row)
  <2>1. Len(row[d + 1].chain) = Len(es[d + 1].chain)
    BY <1>1, <1>5
  <2> QED
    BY <1>1, <1>2, <1>4, <1>6, <1>7, <1>8, <2>1 DEF Alike
<1> QED
  BY <1>1, <1>5, <1>9

\* The outermost call is behind the damaged effect, which came out as node.
PastHit(f, node) ==
  /\ f.at = "effects" /\ f.start = 0 /\ f.pos = EndOf(preset, damaged + 1)
  /\ f.chain = Written("chain") \o node
  /\ IsSeq(node) /\ Len(node) = Len(preset.effects[damaged + 1].chain)

\* The call f reads what is written in the file, or is written alike.
Resumes(f, row, l, x, y) ==
  /\ Alike(row) /\ l.w = Outermost(row) /\ l.k > damaged /\ l.c = <<>> /\ l.s = <<>>
  /\ Level(f, l)
  /\ Comments(l) = Written("comments") \o x
  /\ Entries(l) = Written("entries") \o y

\* Behind the damaged effect the parser reads again what was written.
LEMMA Resumed ==
  ASSUME Origin, HeaderKept, NEW f, NEW node, PastHit(f, node), NEW x, IsSeq(x), NEW y, IsSeq(y)
  PROVE  \E row, l : Resumes(f, row, l, x, y)
<1>0. /\ f.at = "effects" /\ f.start = 0 /\ f.pos = EndOf(preset, damaged + 1)
      /\ f.chain = Written("chain") \o node
      /\ IsSeq(node) /\ Len(node) = Len(preset.effects[damaged + 1].chain)
  BY DEF PastHit
<1>1. PICK row : row = Instead(node, x, y)
  OBVIOUS
<1>2. /\ Alike(row) /\ row[damaged + 1].chain = node
      /\ row[damaged + 1].comments = x /\ row[damaged + 1].entries = y
  <2>1. damaged < Len(preset.effects)
    BY DEF HeaderKept
  <2> QED
    BY <1>0, <1>1, <2>1, InsteadAlike
<1>3. PICK d, m : d = damaged /\ m = damaged + 1
  OBVIOUS
<1>4. d \in Nat /\ d \in 0..Len(row) - 1 /\ m = d + 1 /\ m \in 0..Len(row) /\ m \in 1..Len(row)
  <2>1. Len(row) \in Nat /\ Len(row) = Len(preset.effects) /\ damaged \in 0..Len(preset.effects)
    BY <1>2, RowEnds, DamagedIs DEF Alike
  <2>2. damaged < Len(preset.effects)
    BY DEF HeaderKept
  <2> QED
    BY <1>3, <2>1, <2>2
<1>5. Fields(row) /\ HasCells(Outermost(row)) /\ EndOf(Outermost(row), m) = EndOf(preset, m)
  BY <1>2, <1>4, RowEnds
<1>6. PICK l : l = [w |-> Outermost(row), k |-> m, c |-> <<>>, s |-> <<>>]
  OBVIOUS
<1>7. l.w = Outermost(row) /\ l.k = m /\ l.c = <<>> /\ l.s = <<>> /\ Outermost(row).effects = row
      /\ Outermost(row).mode = preset.mode
  BY <1>6 DEF Outermost
<1>8. ASSUME NEW field, HaveField(row, field)
      PROVE  All(Upto(row, m), field) = Written(field) \o row[m][field]
  <2>1. All(Upto(row, d + 1), field) = All(Upto(row, d), field) \o row[d + 1][field]
    BY <1>4, <1>8, AllGrows
  <2>2. All(Upto(row, damaged), field) = Written(field)
    BY <1>2, RowWritten
  <2> QED
    BY <1>3, <1>4, <2>1, <2>2
<1>9. /\ All(Upto(row, m), "chain") = Written("chain") \o node
      /\ All(Upto(row, m), "comments") = Written("comments") \o x
      /\ All(Upto(row, m), "entries") = Written("entries") \o y
  BY <1>2, <1>3, <1>5, <1>8 DEF Fields
<1>10. IsSeq(<<>>) /\ IsSeq(preset.mode)
  BY JoinedToNone, PresetHasCells DEF HasCells
<1>11. Level(f, l)
  <2>1. f.pos = 0 + EndOf(Outermost(row), m)
    <3>1. EndOf(Outermost(row), m) \in Nat
      <4>1. m \in 0..Len(Outermost(row).effects)
        BY <1>4, <1>7
      <4> QED
        BY <1>5, <4>1, EndsAt
    <3>2. f.pos = EndOf(Outermost(row), m)
      BY <1>0, <1>3, <1>5
    <3> QED
      BY <3>1, <3>2
  <2>2. f.chain = All(Upto(row, m), "chain")
    BY <1>0, <1>9
  <2> QED
    BY <1>0, <1>4, <1>5, <1>7, <1>10, <2>1, <2>2 DEF Level
<1>12. ASSUME NEW field, HaveField(row, field)
       PROVE  <<>> \o All(Upto(row, m), field) = All(Upto(row, m), field)
  <2>1. IsSeq(All(Upto(row, m), field))
    BY <1>4, <1>12, AllIsSeq
  <2> QED
    BY <2>1, JoinedToNone
<1>13. Comments(l) = Written("comments") \o x
  <2>1. Comments(l) = <<>> \o All(Upto(row, m), "comments")
    BY <1>7 DEF Comments
  <2>2. HaveField(row, "comments")
    BY <1>5 DEF Fields
  <2> QED
    BY <1>9, <1>12, <2>1, <2>2
<1>14. Entries(l) = Written("entries") \o y
  <2>1. Entries(l) = <<>> \o All(Upto(row, m), "entries")
    BY <1>7 DEF Entries
  <2>2. HaveField(row, "entries")
    BY <1>5 DEF Fields
  <2> QED
    BY <1>9, <1>12, <2>1, <2>2
<1>15. l.k > damaged
  BY <1>3, <1>4, <1>7
<1> QED
  BY <1>2, <1>7, <1>11, <1>13, <1>14, <1>15 DEF Resumes

LEMMA EffectIs ==
  ASSUME NEW e \in Effects
  PROVE  \/ e.cells[1] \notin {CommentId, kListId} /\ Len(e.chain) = 1
         \/ e.cells[1] = CommentId /\ Len(e.chain) = 0
         \/ e.cells[1] = kListId /\ Len(e.chain) = 1
<1>1. CASE e.form \in {"plain", "ape"}
  BY <1>1, WrittenPlain, Tuples
<1>2. CASE e.form = "comment"
  <2>1. Len(<<>>) = 0
    OBVIOUS
  <2> QED
    BY <1>2, <2>1, WrittenComment
<1>3. CASE e.form = "list"
  BY <1>3, WrittenList, Tuples
<1> QED
  BY <1>1, <1>2, <1>3, EffectFields

LEMMA ResumedHere ==
  ASSUME UNCHANGED <<file, origin>>, Origin, HeaderKept, NEW node, PastHit(lists'[1], node), Len(lists') = 1,
         NEW x, IsSeq(x), NEW y, IsSeq(y),
         comments' = Written("comments") \o x, entries' = Written("entries") \o y
  PROVE  \E row, g : Intact(row, g)'
<1>1. PICK f : f = lists'[1]
  OBVIOUS
<1>2. PastHit(f, node)
  BY <1>1
<1>31. PICK row, l : Resumes(f, row, l, x, y)
  BY <1>2, Resumed, Zenon
<1>3. /\ Alike(row) /\ l.w = Outermost(row) /\ l.k > damaged /\ l.c = <<>> /\ l.s = <<>>
      /\ Level(f, l)
      /\ Comments(l) = Written("comments") \o x
      /\ Entries(l) = Written("entries") \o y
  BY <1>31 DEF Resumes
<1>4. PICK g : g = [i \in {1} |-> l]
  OBVIOUS
<1>5. g[1] = l /\ 1..1 = {1} /\ 1..1 - 1 = {}
  BY <1>4
<1>6. Linked(lists', g, 1)
  BY <1>1, <1>3, <1>5 DEF Linked
<1>7. comments' = Comments(g[1]) /\ entries' = Entries(g[1])
  BY <1>3, <1>5
<1>8. Intact(row, g)'
  BY <1>3, <1>5, <1>6, <1>7, IntactHere, SMTT(30)
<1> QED
  BY <1>8

\* The damaged effect, with its header intact, is stepped over or entered.
LEMMA HitStep ==
  ASSUME Inv, Base, NEW row, NEW g, Intact(row, g), Len(lists) = 1, top.at = "effects",
         g[1].k = damaged, HeaderKept, PresetParserNext
  PROVE  InsideHit' \/ \E r, h : Intact(r, h)'
<1>1. /\ IsFrame(top) /\ top = lists[1] /\ top.start = 0 /\ top.end = Len(file)
      /\ top.pos = EndOf(preset, damaged)
      /\ top.chain = Written("chain")
      /\ comments = Written("comments") /\ entries = Written("entries")
  BY AtHit
<1>2. PICK e, x : e = preset.effects[damaged + 1] /\ x = EffectAt(top)
  OBVIOUS
<1>3. /\ e \in Effects
      /\ More(top) /\ Fits(top)
      /\ x.id = e.cells[1]
      /\ x.end = EndOf(preset, damaged + 1)
  BY <1>1, <1>2, HitHeader
<1>4. IsSeq(<<>>) /\ Len(<<>>) = 0 /\ (\A s : IsSeq(s) => s \o <<>> = s) /\ IsSeq(comments) /\ IsSeq(entries)
      /\ \A v : IsSeq(<<v>>) /\ Len(<<v>>) = 1
  BY JoinedToNone, Tuples DEF Base
<1>5. Origin
  BY DEF Base
<1>6. ASSUME NEW node, IsSeq(node), Len(node) = Len(e.chain), NEW s, IsSeq(s), NEW t, IsSeq(t),
             lists' = Front(lists) \o <<Past(top, x, node)>>,
             comments' = comments \o s, entries' = entries \o t, UNCHANGED <<file, origin>>
      PROVE  \E r, h : Intact(r, h)'
  <2>1. PICK f : f = Past(top, x, node)
    OBVIOUS
  <2>2. f.start = 0 /\ f.chain = Written("chain") \o node /\ f.at = "effects" /\ f.pos = EndOf(preset, damaged + 1)
    <3>1. /\ Past(top, x, node).start = top.start /\ Past(top, x, node).end = top.end
          /\ Past(top, x, node).chain = top.chain \o node
          /\ Past(top, x, node).at = top.at /\ Past(top, x, node).pos = x.end
      BY TopIsFrame, FieldsPast
    <3> QED
      BY <1>1, <1>3, <2>1, <3>1
  <2>3. Len(lists') = 1 /\ lists'[1] = f
    BY <1>6, <2>1, TopReplaced
  <2>4. comments' = Written("comments") \o s /\ entries' = Written("entries") \o t
    BY <1>1, <1>6
  <2>5. PastHit(f, node)
    BY <1>2, <1>6, <2>2 DEF PastHit
  <2>6. PastHit(lists'[1], node)
    BY <2>3, <2>5
  <2> QED
    BY <1>5, <1>6, <2>3, <2>4, <2>6, ResumedHere
<1>7. CASE e.cells[1] \notin {CommentId, kListId} /\ Len(e.chain) = 1
  <2>1. PlainEffect
    BY <1>2, <1>3, <1>7 DEF PresetParserNext, ReadMode, TruncatedEffect, CommentEffect, EnterList, LeaveList, EndOfList,
                            CommentId, kListId
  <2>2. PICK nd : nd = Node(Kind(ReadEntry(x)), x)
    OBVIOUS
  <2>3. /\ lists' = Front(lists) \o <<Past(top, x, <<nd>>)>>
        /\ entries' = entries \o Entry(x) /\ UNCHANGED <<file, comments, origin>>
    BY <1>2, <2>1, <2>2 DEF PlainEffect
  <2>4. comments' = comments \o <<>>
    BY <1>4, <2>3
  <2>5. IsSeq(Entry(x))
    BY Singles
  <2>6. PICK node : node = <<nd>>
    OBVIOUS
  <2>7. IsSeq(node) /\ Len(node) = Len(e.chain) /\ lists' = Front(lists) \o <<Past(top, x, node)>>
    BY <1>4, <1>7, <2>3, <2>6
  <2> QED
    BY <1>4, <1>6, <2>3, <2>4, <2>5, <2>7
<1>8. CASE e.cells[1] = CommentId /\ Len(e.chain) = 0
  <2>1. CommentEffect
    BY <1>2, <1>3, <1>8 DEF PresetParserNext, ReadMode, TruncatedEffect, PlainEffect, EnterList, LeaveList, EndOfList,
                            CommentId, kListId
  <2>2. PICK node, s : node = <<>> /\ s = CommentIn(Slice(x.start, x.end))
    OBVIOUS
  <2>3. /\ lists' = Front(lists) \o <<Past(top, x, node)>>
        /\ entries' = entries \o Entry(x) /\ comments' = comments \o s /\ UNCHANGED <<file, origin>>
    BY <1>2, <2>1, <2>2 DEF CommentEffect
  <2>4. IsSeq(Entry(x)) /\ IsSeq(s)
    BY <2>2, Singles
  <2>5. IsSeq(node) /\ Len(node) = Len(e.chain)
    BY <1>4, <1>8, <2>2
  <2> QED
    BY <1>6, <2>3, <2>4, <2>5
<1>9. CASE e.cells[1] = kListId /\ Len(e.chain) = 1
  <2>1. EnterList
    BY <1>2, <1>3, <1>9 DEF PresetParserNext, ReadMode, TruncatedEffect, PlainEffect, CommentEffect, LeaveList, EndOfList,
                            CommentId, kListId
  <2>2. PICK f : lists' = Append(lists, f) /\ UNCHANGED <<file, comments, entries, origin>>
    BY <2>1 DEF EnterList
  <2>3. Len(lists') = 2 /\ lists'[1] = lists[1]
    <3>1. 1 \in 1..Len(lists) /\ IsSeq(lists)
      BY DEF Inv
    <3>2. LET t == Append(lists, f)
          IN Len(t) = Len(lists) + 1 /\ \A i \in 1..Len(lists) : t[i] = lists[i]
      BY <3>1, OneMore, ZenonT(30)
    <3> QED
      BY <2>2, <3>1, <3>2
  <2>4. Grown(comments, comments) /\ Grown(entries, entries)
    BY <1>4, GrownSame
  <2>5. /\ preset' = preset /\ damaged' = damaged /\ (HeaderKept <=> HeaderKept')
        /\ \A field : Written(field)' = Written(field)
    BY <2>2, StaysWritten
  <2>6. /\ lists'[1].at = "effects" /\ lists'[1].pos = EndOf(preset, damaged)
        /\ lists'[1].chain = Written("chain") /\ Len(lists') > 1
        /\ Len(preset.effects[damaged + 1].chain) = 1
    BY <1>1, <1>2, <1>9, <2>3
  <2>7. Grown(Written("comments"), comments') /\ Grown(Written("entries"), entries')
    BY <1>1, <2>2, <2>4
  <2>8. Grown(Written("comments"), comments)' /\ Grown(Written("entries"), entries)'
    BY <2>5, <2>7 DEF Grown, IsSeq
  <2> QED
    BY <2>5, <2>6, <2>8 DEF InsideHit, EndOf
<1> QED
  BY <1>3, <1>7, <1>8, <1>9, EffectIs

LEMMA WrittenIsSeq ==
  ASSUME Origin
  PROVE  IsSeq(Written("chain")) /\ IsSeq(Written("comments")) /\ IsSeq(Written("entries"))
<1>1. /\ damaged \in 0..Len(preset.effects)
      /\ HaveField(preset.effects, "chain") /\ HaveField(preset.effects, "comments")
      /\ HaveField(preset.effects, "entries")
  BY DamagedIs, PresetHasCells, EffectsHaveFields
<1> QED
  BY <1>1, AllIsSeq DEF Written

\* What has come out of the damaged file, and does when it is read on.
LEMMA StillGrown ==
  ASSUME Inv, Base, PresetParserNext,
         Grown(Written("comments"), comments), Grown(Written("entries"), entries)
  PROVE  /\ Grown(Written("comments"), comments') /\ Grown(Written("entries"), entries')
         /\ Grown(Written("chain"), lists[1].chain) => Grown(Written("chain"), lists'[1].chain)
<1>1. /\ Grown(comments, comments') /\ Grown(entries, entries') /\ Grown(lists[1].chain, lists'[1].chain)
  BY Grows
<1>2. IsSeq(Written("chain")) /\ IsSeq(Written("comments")) /\ IsSeq(Written("entries"))
  BY WrittenIsSeq DEF Base
<1> QED
  BY <1>1, <1>2, GrownOn

\* Inside the damaged list anything may be read, until its end.
LEMMA InsideStep ==
  ASSUME Inv, Base, InsideHit, PresetParserNext
  PROVE  InsideHit' \/ \E row, g : Intact(row, g)'
<1>1. /\ HeaderKept /\ Len(lists) > 1
      /\ Len(preset.effects[damaged + 1].chain) = 1
      /\ lists[1].at = "effects" /\ lists[1].pos = EndOf(preset, damaged)
      /\ lists[1].chain = Written("chain")
  BY DEF InsideHit
<1>2. /\ Grown(Written("comments"), comments') /\ Grown(Written("entries"), entries')
  BY StillGrown DEF InsideHit
<1>3. /\ UNCHANGED <<file, origin>>
      /\ \/ lists'[1] = lists[1] /\ Len(lists') > 1
         \/ \E node : lists'[1] = Past(lists[1], EffectAt(lists[1]), <<node>>) /\ Len(lists') = 1
  BY <1>1, Grows
<1>4. Origin /\ lists[1].start = 0 /\ lists[1].end = Len(file)
  BY DEF Base
<1>5. CASE lists'[1] = lists[1] /\ Len(lists') > 1
  <2>1. /\ preset' = preset /\ damaged' = damaged /\ (HeaderKept <=> HeaderKept')
        /\ \A field : Written(field)' = Written(field)
    BY <1>3, StaysWritten
  <2>2. Grown(Written("comments"), comments)' /\ Grown(Written("entries"), entries)'
    BY <1>2, <2>1 DEF Grown, IsSeq
  <2> QED
    BY <1>1, <1>5, <2>1, <2>2 DEF InsideHit, EndOf
<1>6. CASE \E node : lists'[1] = Past(lists[1], EffectAt(lists[1]), <<node>>) /\ Len(lists') = 1
  <2>1. PICK nd : lists'[1] = Past(lists[1], EffectAt(lists[1]), <<nd>>) /\ Len(lists') = 1
    BY <1>6
  <2>2. PICK f, node, x : f = lists[1] /\ node = <<nd>> /\ x = EffectAt(lists[1])
    OBVIOUS
  <2>3. IsFrame(f)
    BY <2>2, OutermostIs
  <2>4. f.at = "effects" /\ f.pos = EndOf(preset, damaged) /\ f.end = Len(file)
    BY <1>1, <1>4, <2>2
  <2>5. EffectAt(f).end = EndOf(preset, damaged + 1)
    BY <1>1, <2>3, <2>4, HitHeader
  <2>6. /\ Past(f, x, node).start = f.start /\ Past(f, x, node).chain = f.chain \o node
        /\ Past(f, x, node).at = f.at /\ Past(f, x, node).pos = x.end
    BY <2>3, FieldsPast
  <2>7. IsSeq(node) /\ Len(node) = 1
    BY <2>2, Tuples
  <2>8. PastHit(lists'[1], node)
    BY <1>1, <1>4, <2>1, <2>2, <2>4, <2>5, <2>6, <2>7 DEF PastHit
  <2>9. PICK s, t : /\ IsSeq(s) /\ comments' = Written("comments") \o s
                    /\ IsSeq(t) /\ entries' = Written("entries") \o t
    BY <1>2 DEF Grown
  <2> QED
    BY <1>1, <1>3, <1>4, <2>1, <2>8, <2>9, ResumedHere
<1> QED
  BY <1>3, <1>5, <1>6

LEMMA BrokenHere ==
  ASSUME Inv, Base, PresetParserNext, ~origin.cut, ~HeaderKept,
         Grown(Written("chain"), lists[1].chain),
         Grown(Written("comments"), comments), Grown(Written("entries"), entries)
  PROVE  Broken'
<1>1. UNCHANGED <<file, origin>>
  BY Grows
<1>2. /\ (HeaderKept <=> HeaderKept') /\ \A field : Written(field)' = Written(field)
  BY <1>1, StaysWritten
<1>3. /\ Grown(Written("chain"), lists'[1].chain)
      /\ Grown(Written("comments"), comments') /\ Grown(Written("entries"), entries')
  BY StillGrown
<1>4. /\ Grown(Written("chain"), lists[1].chain)'
      /\ Grown(Written("comments"), comments)' /\ Grown(Written("entries"), entries)'
  BY <1>2, <1>3 DEF Grown, IsSeq
<1> QED
  BY <1>1, <1>2, <1>4 DEF Broken

\* Damage in the header of an effect, its id, its name or its length.
LEMMA HitBroken ==
  ASSUME Inv, Base, NEW row, NEW g, Intact(row, g), Len(lists) = 1, top.at = "effects",
         g[1].k = damaged, ~origin.cut, ~HeaderKept, PresetParserNext
  PROVE  Broken'
<1>1. lists[1].chain = Written("chain") /\ comments = Written("comments") /\ entries = Written("entries")
  BY AtHit
<1>2. IsSeq(Written("chain")) /\ IsSeq(Written("comments")) /\ IsSeq(Written("entries"))
  BY WrittenIsSeq DEF Base
<1>3. /\ Grown(Written("chain"), lists[1].chain)
      /\ Grown(Written("comments"), comments) /\ Grown(Written("entries"), entries)
  BY <1>1, <1>2, GrownSame
<1> QED
  BY <1>3, BrokenHere

LEMMA Ended ==
  ASSUME Inv, Len(lists) = 1, lists[1].at \in {"complete", "failed"}
  PROVE  ~PresetParserNext
<1>1. top = lists[1]
  BY OutermostIs
<1> QED
  BY <1>1 DEF PresetParserNext, ReadMode, TruncatedEffect, PlainEffect, CommentEffect, EnterList,
              LeaveList, EndOfList, More

LEMMA SomewhereStep ==
  ASSUME Inv, Base, Somewhere, PresetParserNext
  PROVE  Somewhere'
<1>1. CASE CutOff
  BY <1>1, Ended DEF CutOff
<1>2. CASE InsideHit
  BY <1>2, InsideStep DEF Somewhere
<1>3. CASE Broken
  BY <1>3, BrokenHere DEF Broken, Somewhere
<1>4. ASSUME NEW row, NEW g, Intact(row, g) PROVE Somewhere'
  <2>1. CASE ~(Len(lists) = 1 /\ top.at = "effects" /\ g[1].k = damaged /\ damaged # Len(preset.effects))
    <3>1. Len(lists) = 1 /\ top.at = "effects" => g[1].k # damaged \/ damaged = Len(preset.effects)
      BY <2>1
    <3>2. \E h : Intact(row, h)'
      BY <1>4, <3>1, IntactStep
    <3> QED
      BY <3>2 DEF Somewhere
  <2>2. CASE Len(lists) = 1 /\ top.at = "effects" /\ g[1].k = damaged /\ damaged # Len(preset.effects)
    <3>1. damaged < Len(preset.effects)
      <4>1. Len(preset.effects) \in Nat /\ damaged \in 0..Len(preset.effects)
        BY PresetHasCells, EndsAt, DamagedIs DEF Base
      <4> QED
        BY <2>2, <4>1
    <3>2. CASE origin.cut
      BY <1>4, <2>2, <3>1, <3>2, CutStep DEF Somewhere
    <3>3. CASE ~origin.cut /\ HeaderKept
      <4>1. InsideHit' \/ \E r, h : Intact(r, h)'
        BY <1>4, <2>2, <3>3, HitStep
      <4> QED
        BY <4>1 DEF Somewhere
    <3>4. CASE ~origin.cut /\ ~HeaderKept
      BY <1>4, <2>2, <3>4, HitBroken DEF Somewhere
    <3> QED
      BY <3>2, <3>3, <3>4
  <2> QED
    BY <2>1, <2>2
<1> QED
  BY <1>1, <1>2, <1>3, <1>4 DEF Somewhere

LEMMA NothingMoves ==
  ASSUME Base, Somewhere, UNCHANGED presetParserVars
  PROVE  Base' /\ Somewhere'
<1>1. UNCHANGED <<file, lists, comments, entries, origin>>
  BY DEF presetParserVars
<1>2. /\ preset' = preset /\ damaged' = damaged /\ (HeaderKept <=> HeaderKept')
      /\ \A field : Written(field)' = Written(field)
  BY <1>1, StaysWritten
<1>3. Base'
  BY <1>1, <1>2 DEF Base, Origin, IsSeq
<1>4. CutOff => CutOff'
  BY <1>1, <1>2 DEF CutOff
<1>5. InsideHit => InsideHit'
  BY <1>1, <1>2 DEF InsideHit, EndOf, Grown, IsSeq
<1>6. Broken => Broken'
  BY <1>1, <1>2 DEF Broken, Grown, IsSeq
<1>7. ASSUME NEW row, NEW g, Intact(row, g) PROVE Intact(row, g)'
  <2>1. Alike(row)'
    BY <1>2, <1>7 DEF Intact, Alike
  <2>2. IsStack(g)'
    BY <1>1, <1>7 DEF Intact, IsStack, Linked, Link, Next, Holds
  <2>3. (g[1].w = Outermost(row))'
    BY <1>2, <1>7 DEF Intact, Outermost
  <2> QED
    BY <1>1, <1>2, <1>7, <2>1, <2>2, <2>3 DEF Intact
<1> QED
  BY <1>3, <1>4, <1>5, <1>6, <1>7 DEF Somewhere

-------------------------------------------------------------------------------
(* Before anything is read. *)

LEMMA PrefixIs ==
  ASSUME NEW s, IsSeq(s), NEW t, IsSeq(t), Len(s) <= Len(t), \A i \in 1..Len(s) : t[i] = s[i]
  PROVE  IsPrefix(s, t)
<1>1. PICK n : n = Len(s)
  OBVIOUS
<1>2. n \in Nat /\ Len(t) \in Nat /\ n <= Len(t) /\ 1 <= n + 1 /\ 1 \in Int /\ n \in Int /\ n <= Len(s)
  BY <1>1, Indices
<1>3. PICK a, b : a = SubSeq(s, 1, n) /\ b = SubSeq(t, 1, n)
  OBVIOUS
<1>4. /\ IsSeq(a) /\ Len(a) = n - 1 + 1 /\ \A i \in 1..n - 1 + 1 : a[i] = s[1 + i - 1]
  BY <1>2, <1>3, PartOf
<1>5. /\ IsSeq(b) /\ Len(b) = n - 1 + 1 /\ \A i \in 1..n - 1 + 1 : b[i] = t[1 + i - 1]
  BY <1>2, <1>3, PartOf
<1>6. n - 1 + 1 = n /\ \A i \in 1..n : 1 + i - 1 = i
  BY <1>2
<1>7. Len(a) = n /\ Len(b) = n /\ \A i \in 1..n : a[i] = b[i]
  BY <1>1, <1>4, <1>5, <1>6
<1>8. a = b
  BY <1>4, <1>5, <1>7, SameSeq
<1> QED
  BY <1>1, <1>2, <1>3, <1>8 DEF IsPrefix

LEMMA GrownIsPrefix ==
  ASSUME NEW s, IsSeq(s), NEW t, Grown(s, t)
  PROVE  IsPrefix(s, t)
<1>1. PICK x : IsSeq(x) /\ t = s \o x
  BY DEF Grown
<1>2. /\ IsSeq(s \o x) /\ Len(s \o x) = Len(s) + Len(x)
      /\ \A i \in 1..Len(s) : (s \o x)[i] = s[i]
  BY <1>1, Joined
<1>3. Len(s) \in Nat /\ Len(x) \in Nat
  BY <1>1, Indices
<1>4. IsSeq(t) /\ Len(s) <= Len(t) /\ \A i \in 1..Len(s) : t[i] = s[i]
  BY <1>1, <1>2, <1>3
<1> QED
  BY <1>4, PrefixIs

LEMMA Reversed ==
  ASSUME NEW s, IsSeq(s)
  PROVE  /\ IsSeq(Reverse(s)) /\ Len(Reverse(s)) = Len(s)
         /\ \A i \in 1..Len(s) : Reverse(s)[i] = s[(Len(s) - i) + 1]
<1>1. PICK n, r : n = Len(s) /\ r = Reverse(s)
  OBVIOUS
<1>2. n \in Nat
  BY <1>1, Indices
<1>3. r = [i \in 1..n |-> s[(n - i) + 1]]
  BY <1>1 DEF Reverse
<1>4. r = [i \in 1..n |-> r[i]] /\ \A i \in 1..n : r[i] = s[(n - i) + 1]
  BY <1>3
<1>5. IsSeq(r) /\ Len(r) = n
  BY <1>2, <1>4, FunctionIsSeq
<1> QED
  BY <1>1, <1>4, <1>5

LEMMA JoinedHasSuffix ==
  ASSUME NEW x, IsSeq(x), NEW s, IsSeq(s)
  PROVE  IsSuffix(s, x \o s)
<1>1. PICK t, m, n : t = x \o s /\ m = Len(x) /\ n = Len(s)
  OBVIOUS
<1>2. /\ IsSeq(t) /\ Len(t) = m + n /\ \A i \in 1..n : t[m + i] = s[i]
  <2>1. /\ IsSeq(x \o s) /\ Len(x \o s) = Len(x) + Len(s)
        /\ \A i \in 1..Len(s) : (x \o s)[Len(x) + i] = s[i]
    BY Joined
  <2> QED
    BY <1>1, <2>1
<1>3. m \in Nat /\ n \in Nat
  BY <1>1, Indices
<1>4. PICK a, b : a = Reverse(s) /\ b = Reverse(t)
  OBVIOUS
<1>5. IsSeq(a) /\ Len(a) = n /\ \A i \in 1..n : a[i] = s[(n - i) + 1]
  BY <1>1, <1>4, Reversed
<1>6. IsSeq(b) /\ Len(b) = m + n /\ \A i \in 1..m + n : b[i] = t[((m + n) - i) + 1]
  <2>1. PICK q : q = Len(t)
    OBVIOUS
  <2>2. IsSeq(t)
    BY <1>2
  <2>3. IsSeq(b) /\ Len(b) = q /\ \A i \in 1..q : b[i] = t[(q - i) + 1]
    BY <1>4, <2>1, <2>2, Reversed
  <2> QED
    BY <1>2, <2>1, <2>3
<1>7. ASSUME NEW i \in 1..n PROVE b[i] = a[i]
  <2>1. (n - i) + 1 \in 1..n /\ i \in 1..m + n /\ ((m + n) - i) + 1 = m + ((n - i) + 1)
    BY <1>3
  <2>2. t[m + ((n - i) + 1)] = s[(n - i) + 1]
    BY <1>2, <2>1
  <2> QED
    BY <1>5, <1>6, <2>1, <2>2
<1>8. IsPrefix(a, b)
  <2>1. Len(a) <= Len(b) /\ \A i \in 1..Len(a) : b[i] = a[i]
    BY <1>3, <1>5, <1>6, <1>7
  <2> QED
    BY <1>5, <1>6, <2>1, PrefixIs
<1> QED
  BY <1>1, <1>4, <1>8 DEF IsSuffix

LEMMA EmptyIsSeq ==
  IsSeq(<<>>)
<1>1. <<>> \in Seq({})
  BY EmptySeq
<1> QED
  BY <1>1 DEF IsSeq

\* Before anything is read.
LEMMA BaseAtStart ==
  ASSUME PresetParserInit
  PROVE  /\ Base /\ Len(lists) = 1 /\ lists[1] = Frame(0, Len(file))
         /\ comments = <<>> /\ entries = <<>>
<1>1. PICK p \in Presets, cut \in BOOLEAN :
        LET cells == CellsOf(p)
        IN \E at \in Len(p.mode) + 1..Len(cells) + 1 :
             /\ origin = [preset |-> p, at |-> at, cut |-> cut]
             /\ IF cut THEN file = SubSeq(cells, 1, at - 1)
                ELSE at <= Len(cells) /\ \E cell \in Cells : file = [cells EXCEPT ![at] = cell]
  BY DEF PresetParserInit
<1>2. PICK cells : cells = CellsOf(p)
  OBVIOUS
<1>3. PICK at \in Len(p.mode) + 1..Len(cells) + 1 :
        /\ origin = [preset |-> p, at |-> at, cut |-> cut]
        /\ IF cut THEN file = SubSeq(cells, 1, at - 1)
           ELSE at <= Len(cells) /\ \E cell \in Cells : file = [cells EXCEPT ![at] = cell]
  BY <1>1, <1>2
<1>4. origin.preset = p /\ origin.at = at /\ origin.cut = cut
  BY <1>3
<1>5. Origin
  BY <1>2, <1>3, <1>4 DEF Origin, preset
<1>6. lists = <<Frame(0, Len(file))>> /\ comments = <<>> /\ entries = <<>>
  BY DEF PresetParserInit
<1>7. Len(lists) = 1 /\ lists[1] = Frame(0, Len(file))
  BY <1>6, Tuples
<1>8. lists[1].start = 0 /\ lists[1].end = Len(file) /\ lists[1].chain = <<>>
  BY <1>7 DEF Frame
<1>9. IsSeq(<<>>)
  BY EmptyIsSeq
<1> QED
  BY <1>5, <1>6, <1>7, <1>8, <1>9 DEF Base

LEMMA SomewhereAtStart ==
  ASSUME PresetParserInit
  PROVE  Somewhere
<1>1. /\ Base /\ Len(lists) = 1 /\ lists[1] = Frame(0, Len(file))
      /\ comments = <<>> /\ entries = <<>>
  BY BaseAtStart
<1>2. Origin
  BY <1>1 DEF Base
<1>3. PICK row, l, g : /\ row = preset.effects
                       /\ l = [w |-> Outermost(row), k |-> 0, c |-> <<>>, s |-> <<>>]
                       /\ g = [i \in {1} |-> l]
  OBVIOUS
<1>4. /\ IsSeq(row) /\ Fields(row) /\ Len(row) \in Nat /\ IsSeq(preset.mode)
      /\ damaged \in 0..Len(row)
  BY <1>2, <1>3, PresetHasCells, EffectsHaveFields, EndsAt, DamagedIs DEF Fields, HasCells
<1>5. Alike(row)
  BY <1>3, <1>4 DEF Alike
<1>6. /\ g[1] = l /\ l.w = Outermost(row) /\ l.k = 0 /\ l.c = <<>> /\ l.s = <<>>
      /\ l.w.effects = row /\ l.w.mode = preset.mode
  BY <1>3 DEF Outermost
<1>7. \A field : All(Upto(row, 0), field) = <<>>
  BY <1>4, AllOfNone
<1>8. IsSeq(<<>>) /\ <<>> \o <<>> = <<>>
  <2>1. PICK z : z = <<>> /\ IsSeq(z)
    BY EmptyIsSeq
  <2>2. <<>> \o z = z
    BY <2>1, JoinedToNone
  <2> QED
    BY <2>1, <2>2
<1>9. Level(Frame(0, Len(file)), l)
  BY <1>4, <1>6, <1>7, <1>8 DEF Level, Frame
<1>10. comments = Comments(l) /\ entries = Entries(l)
  BY <1>1, <1>6, <1>7, <1>8 DEF Comments, Entries
<1>11. IsStack(g)
  <2>1. 1..1 = {1} /\ 1..1 - 1 = {}
    OBVIOUS
  <2> QED
    BY <1>1, <1>6, <1>9, <1>10, <2>1 DEF IsStack, Linked
<1>12. ~(l.k > damaged)
  BY <1>4, <1>6
<1>13. Intact(row, g)
  BY <1>1, <1>5, <1>6, <1>11, <1>12 DEF Intact
<1> QED
  BY <1>13 DEF Somewhere

-------------------------------------------------------------------------------
(* When the file has been parsed. *)

\* At the end of a file that was read as it was written everything has come out.
LEMMA IntactEnd ==
  ASSUME Inv, Base, NEW row, NEW g, Intact(row, g), Parsed
  PROVE  /\ Alike(row)
         /\ damaged < Len(row) => HeaderKept
         /\ top.chain = All(row, "chain")
         /\ comments = All(row, "comments") /\ entries = All(row, "entries")
<1>1. /\ Alike(row) /\ IsStack(g) /\ g[1].w = Outermost(row) /\ g[1].c = <<>> /\ g[1].s = <<>>
      /\ g[1].k > damaged => HeaderKept
  BY DEF Intact
<1>2. Len(lists) = 1 /\ top.at \in {"complete", "failed"}
  BY DEF Parsed
<1>3. Level(top, g[1])
  BY <1>1, <1>2, TopLevel
<1>4. Outermost(row).effects = row /\ Fields(row) /\ IsSeq(row) /\ Len(row) \in Nat
  BY <1>1, RowEnds DEF Outermost, Alike, Base
<1>5. g[1].k = Len(row) /\ top.chain = All(Upto(row, Len(row)), "chain")
  BY <1>1, <1>2, <1>3, <1>4 DEF Level
<1>6. Upto(row, Len(row)) = row
  BY <1>4, AllOfThem
<1>7. top.chain = All(row, "chain")
  BY <1>5, <1>6
<1>8. ASSUME NEW field, HaveField(row, field)
      PROVE  <<>> \o All(Upto(row, Len(row)), field) = All(row, field)
  <2>1. Len(row) \in 0..Len(row)
    BY <1>4
  <2>2. IsSeq(All(Upto(row, Len(row)), field))
    BY <1>8, <2>1, AllIsSeq
  <2>3. <<>> \o All(Upto(row, Len(row)), field) = All(Upto(row, Len(row)), field)
    BY <2>2, JoinedToNone
  <2> QED
    BY <1>6, <2>3
<1>9. comments = All(row, "comments")
  <2>1. comments = <<>> \o All(Upto(row, Len(row)), "comments")
    BY <1>1, <1>2, <1>4, <1>5 DEF IsStack, Comments
  <2> QED
    BY <1>4, <1>8, <2>1 DEF Fields
<1>10. entries = All(row, "entries")
  <2>1. entries = <<>> \o All(Upto(row, Len(row)), "entries")
    BY <1>1, <1>2, <1>4, <1>5 DEF IsStack, Entries
  <2> QED
    BY <1>4, <1>8, <2>1 DEF Fields
<1> QED
  BY <1>1, <1>5, <1>7, <1>9, <1>10

\* The row is what was written, but for one effect.
LEMMA RowIs ==
  ASSUME Origin, NEW row, Alike(row), NEW field, HaveField(row, field)
  PROVE  /\ Grown(Written(field), All(row, field))
         /\ damaged = Len(row) => All(row, field) = Written(field)
         /\ damaged < Len(row) =>
              LET after == All(Rest(preset.effects, damaged + 1), field)
                  node  == row[damaged + 1][field]
              IN /\ IsSeq(after) /\ IsSeq(node) /\ IsSeq(Written(field))
                 /\ All(row, field) = (Written(field) \o node) \o after
<1>1. PICK d, es, w : d = damaged /\ es = preset.effects /\ w = Written(field)
  OBVIOUS
<1>2. /\ d \in Nat /\ d \in 0..Len(row) /\ Len(row) \in Nat /\ Len(row) = Len(es) /\ IsSeq(row) /\ IsSeq(es)
  <2>1. IsSeq(row) /\ Len(row) = Len(es)
    BY <1>1 DEF Alike
  <2>2. damaged \in 0..Len(preset.effects) /\ IsSeq(preset.effects)
    BY DamagedIs, PresetHasCells, EffectsHaveFields
  <2>3. Len(row) \in Nat
    BY <2>1, Indices
  <2> QED
    BY <1>1, <2>1, <2>2, <2>3
<1>3. All(Upto(row, d), field) = w
  BY <1>1, RowWritten
<1>4. IsSeq(w)
  BY <1>2, <1>3, AllIsSeq
<1>5. Grown(w, All(row, field))
  <2>1. /\ IsSeq(All(Rest(row, d), field))
        /\ All(row, field) = All(Upto(row, d), field) \o All(Rest(row, d), field)
    BY <1>2, AllSplits
  <2> QED
    BY <1>3, <2>1 DEF Grown
<1>6. ASSUME d = Len(row) PROVE All(row, field) = w
  <2>1. Upto(row, Len(row)) = row
    BY <1>2, AllOfThem
  <2> QED
    BY <1>3, <1>6, <2>1
<1>7. ASSUME d < Len(row)
      PROVE  /\ IsSeq(All(Rest(es, d + 1), field)) /\ IsSeq(row[d + 1][field])
             /\ All(row, field) = (w \o row[d + 1][field]) \o All(Rest(es, d + 1), field)
  <2>1. PICK m : m = d + 1
    OBVIOUS
  <2>2. m \in 0..Len(row) /\ m \in 1..Len(row) /\ d \in 0..Len(row) - 1 /\ m \in Nat /\ m \in 0..Len(es)
    BY <1>2, <1>7, <2>1
  <2>3. /\ IsSeq(All(Rest(row, m), field))
        /\ All(row, field) = All(Upto(row, m), field) \o All(Rest(row, m), field)
    BY <2>2, AllSplits
  <2>4. All(Upto(row, d + 1), field) = All(Upto(row, d), field) \o row[d + 1][field]
    BY <2>2, AllGrows
  <2>5. PICK a, b : a = Rest(row, m) /\ b = Rest(es, m)
    OBVIOUS
  <2>6. /\ IsSeq(a) /\ Len(a) = Len(row) - m /\ \A i \in 1..Len(row) - m : a[i] = row[m + i]
    BY <1>2, <2>2, <2>5, LastOnes
  <2>7. /\ IsSeq(b) /\ Len(b) = Len(es) - m /\ \A i \in 1..Len(es) - m : b[i] = es[m + i]
    BY <1>2, <2>2, <2>5, LastOnes
  <2>8. ASSUME NEW i \in 1..Len(a) PROVE a[i][field] = b[i][field]
    <3>1. i \in 1..Len(row) - m /\ m + i \in 1..Len(row) /\ m + i # d + 1 /\ i \in 1..Len(es) - m
      BY <1>2, <2>1, <2>2, <2>6
    <3>2. row[m + i] = es[m + i]
      BY <1>1, <3>1 DEF Alike
    <3> QED
      BY <2>6, <2>7, <3>1, <3>2
  <2>9. Len(a) = Len(b)
    BY <1>2, <2>6, <2>7
  <2>10. All(a, field) = All(b, field)
    BY <2>6, <2>7, <2>8, <2>9, AllAlike
  <2>11. IsSeq(row[m][field])
    BY <2>2 DEF HaveField
  <2> QED
    BY <1>3, <2>1, <2>3, <2>4, <2>5, <2>10, <2>11
<1> QED
  BY <1>1, <1>4, <1>5, <1>6, <1>7

LEMMA EarlierAtEnd ==
  ASSUME Inv, Base, Somewhere, Parsed
  PROVE  /\ origin.cut => /\ top.chain = Written("chain")
                          /\ comments = Written("comments") /\ entries = Written("entries")
         /\ ~origin.cut => /\ Grown(Written("chain"), top.chain)
                           /\ Grown(Written("comments"), comments)
                           /\ Grown(Written("entries"), entries)
<1>1. Len(lists) = 1 /\ top = lists[1]
  BY OutermostIs DEF Parsed
<1>2. CASE CutOff
  BY <1>1, <1>2 DEF CutOff
<1>3. CASE InsideHit
  BY <1>1, <1>3 DEF InsideHit
<1>4. CASE Broken
  BY <1>1, <1>4 DEF Broken
<1>5. ASSUME NEW row, NEW g, Intact(row, g)
      PROVE  /\ origin.cut => /\ top.chain = Written("chain")
                              /\ comments = Written("comments") /\ entries = Written("entries")
             /\ ~origin.cut => /\ Grown(Written("chain"), top.chain)
                               /\ Grown(Written("comments"), comments)
                               /\ Grown(Written("entries"), entries)
  <2>1. /\ Alike(row)
        /\ damaged < Len(row) => HeaderKept
        /\ top.chain = All(row, "chain")
        /\ comments = All(row, "comments") /\ entries = All(row, "entries")
    BY <1>5, IntactEnd
  <2>2. /\ HaveField(row, "chain") /\ HaveField(row, "comments") /\ HaveField(row, "entries") /\ Origin
    BY <2>1 DEF Alike, Fields, Base
  <2>3. /\ Grown(Written("chain"), All(row, "chain")) /\ Grown(Written("comments"), All(row, "comments"))
        /\ Grown(Written("entries"), All(row, "entries"))
    BY <2>1, <2>2, RowIs
  <2>4. origin.cut => damaged = Len(row)
    <3>1. Len(row) \in Nat /\ damaged \in 0..Len(row)
      BY <2>1, <2>2, RowEnds, DamagedIs DEF Alike
    <3>2. origin.cut => ~(damaged < Len(row))
      BY <2>1 DEF HeaderKept
    <3> QED
      BY <3>1, <3>2
  <2>45. ASSUME NEW field, HaveField(row, field), damaged = Len(row) PROVE All(row, field) = Written(field)
    BY <2>1, <2>2, <2>45, RowIs
  <2>5. origin.cut => /\ All(row, "chain") = Written("chain")
                      /\ All(row, "comments") = Written("comments")
                      /\ All(row, "entries") = Written("entries")
    BY <2>2, <2>4, <2>45
  <2> QED
    BY <2>1, <2>3, <2>5
<1> QED
  BY <1>2, <1>3, <1>4, <1>5 DEF Somewhere

LEMMA EarlierSurvive ==
  ASSUME Inv, Base, Somewhere
  PROVE  EarlierEffectsSurvive
<1>1. SUFFICES ASSUME Parsed PROVE EarlierEffectsSurvive
  BY DEF EarlierEffectsSurvive
<1>2. /\ origin.cut => /\ top.chain = Written("chain")
                       /\ comments = Written("comments") /\ entries = Written("entries")
      /\ ~origin.cut => /\ IsPrefix(Written("chain"), top.chain)
                        /\ IsPrefix(Written("comments"), comments)
                        /\ IsPrefix(Written("entries"), entries)
  <2>1. IsSeq(Written("chain")) /\ IsSeq(Written("comments")) /\ IsSeq(Written("entries"))
    BY WrittenIsSeq DEF Base
  <2> QED
    BY <1>1, <2>1, EarlierAtEnd, GrownIsPrefix
<1>3. PICK w : w = [field \in {"chain", "comments", "entries"} |->
                      All(SubSeq(origin.preset.effects, 1, Before(origin.preset, origin.at)), field)]
  OBVIOUS
<1>4. /\ w["chain"] = All(SubSeq(origin.preset.effects, 1, Before(origin.preset, origin.at)), "chain")
      /\ w["comments"] = All(SubSeq(origin.preset.effects, 1, Before(origin.preset, origin.at)), "comments")
      /\ w["entries"] = All(SubSeq(origin.preset.effects, 1, Before(origin.preset, origin.at)), "entries")
  BY <1>3
<1>5. /\ w["chain"] = Written("chain") /\ w["comments"] = Written("comments")
      /\ w["entries"] = Written("entries")
  BY <1>4, Zenon DEF Written, Upto, damaged, preset
<1> QED
  BY <1>2, <1>4, <1>5 DEF EarlierEffectsSurvive

\* A file with one cell changed has the damage in one of its effects.
LEMMA HitThere ==
  ASSUME Origin, ~origin.cut
  PROVE  damaged < Len(preset.effects)
<1>1. PICK a, d, r : a = origin.at /\ d = damaged /\ r = Len(preset.effects)
  OBVIOUS
<1>2. /\ a \in Nat /\ a <= Len(CellsOf(preset)) /\ r \in Nat /\ d \in 0..r
      /\ EndOf(preset, d) < a /\ EndOf(preset, r) = Len(CellsOf(preset))
  BY <1>1, FileIs, DamagedIs, PresetHasCells, EndsAt
<1>3. Len(CellsOf(preset)) \in Nat
  BY PresetHasCells, EndsAt
<1>4. d # r
  BY <1>2, <1>3
<1> QED
  BY <1>1, <1>2, <1>4

\* The node of the chain in the place of the damaged effect.
IsNodeOf(node, chain) == node = <<>> \/ \E i \in DOMAIN chain : node = <<chain[i]>>

LEMMA OneNode ==
  ASSUME NEW w, IsSeq(w), NEW node, IsSeq(node), (Len(node) = 0 \/ Len(node) = 1), NEW after, IsSeq(after)
  PROVE  IsNodeOf(node, (w \o node) \o after)
<1>0. PICK chain : chain = (w \o node) \o after
  OBVIOUS
<1>1. CASE Len(node) = 0
  BY <1>1, NoneOf DEF IsNodeOf
<1>2. CASE Len(node) = 1
  <2>1. PICK m, k : m = Len(w) /\ k = Len(after)
    OBVIOUS
  <2>2. m \in Nat /\ k \in Nat
    BY <2>1, Indices
  <2>3. PICK u : u = w \o node
    OBVIOUS
  <2>4. IsSeq(u) /\ Len(u) = m + 1 /\ \A i \in 1..1 : u[m + i] = node[i]
    <3>1. /\ IsSeq(w \o node) /\ Len(w \o node) = Len(w) + Len(node)
          /\ \A i \in 1..Len(node) : (w \o node)[Len(w) + i] = node[i]
      BY Joined
    <3> QED
      BY <1>2, <2>1, <2>3, <3>1
  <2>5. IsSeq(chain) /\ Len(chain) = (m + 1) + k /\ \A i \in 1..m + 1 : chain[i] = u[i]
    <3>1. /\ IsSeq(u \o after) /\ Len(u \o after) = Len(u) + Len(after)
          /\ \A i \in 1..Len(u) : (u \o after)[i] = u[i]
      BY <2>4, Joined
    <3> QED
      BY <1>0, <2>1, <2>3, <2>4, <3>1
  <2>6. m + 1 \in DOMAIN chain /\ chain[m + 1] = node[1]
    <3>1. DOMAIN chain = 1..Len(chain)
      BY <2>5, Indices
    <3>2. m + 1 \in 1..m + 1 /\ m + 1 \in 1..(m + 1) + k /\ 1 \in 1..1
      BY <2>2
    <3> QED
      BY <2>4, <2>5, <3>1, <3>2
  <2>7. node = <<node[1]>>
    <3>1. PICK v : v = <<node[1]>>
      OBVIOUS
    <3>2. IsSeq(v) /\ Len(v) = 1 /\ v[1] = node[1]
      BY <3>1, Tuples
    <3>3. \A i \in 1..Len(node) : node[i] = v[i]
      BY <1>2, <3>2
    <3>4. node = v
      BY <1>2, <3>2, <3>3, SameSeq
    <3> QED
      BY <3>1, <3>4
  <2> QED
    BY <1>0, <2>6, <2>7 DEF IsNodeOf
<1> QED
  BY <1>1, <1>2

LEMMA InsideAtEnd ==
  ASSUME Inv, Base, Somewhere, Parsed, HeaderKept
  PROVE  LET rest == Rest(preset.effects, damaged + 1)
         IN /\ \E node \in {<<>>} \cup {<<top.chain[i]>> : i \in DOMAIN top.chain} :
                 /\ Len(node) = Len(preset.effects[damaged + 1].chain)
                 /\ top.chain = (Written("chain") \o node) \o All(rest, "chain")
            /\ IsSuffix(All(rest, "comments"), comments)
            /\ IsSuffix(All(rest, "entries"), entries)
<1>1. Len(lists) = 1
  BY DEF Parsed
<1>2. PICK row, g : Intact(row, g)
  BY <1>1 DEF Somewhere, CutOff, InsideHit, Broken, HeaderKept
<1>3. /\ Alike(row)
      /\ top.chain = All(row, "chain")
      /\ comments = All(row, "comments") /\ entries = All(row, "entries")
  BY <1>2, IntactEnd
<1>4. /\ HaveField(row, "chain") /\ HaveField(row, "comments") /\ HaveField(row, "entries") /\ Origin
      /\ damaged < Len(row) /\ damaged < Len(preset.effects)
      /\ Len(row[damaged + 1].chain) = Len(preset.effects[damaged + 1].chain)
  BY <1>3 DEF Alike, Fields, Base, HeaderKept
<1>5. PICK rest : rest = Rest(preset.effects, damaged + 1)
  OBVIOUS
<1>6. ASSUME NEW field, HaveField(row, field)
      PROVE  /\ IsSeq(All(rest, field)) /\ IsSeq(row[damaged + 1][field]) /\ IsSeq(Written(field))
             /\ All(row, field) = (Written(field) \o row[damaged + 1][field]) \o All(rest, field)
  BY <1>3, <1>4, <1>5, <1>6, RowIs
<1>7. ASSUME NEW field, HaveField(row, field) PROVE IsSuffix(All(rest, field), All(row, field))
  <2>1. PICK x : x = Written(field) \o row[damaged + 1][field]
    OBVIOUS
  <2>2. IsSeq(x)
    <3>1. IsSeq(Written(field) \o row[damaged + 1][field])
      BY <1>6, <1>7, Joined
    <3> QED
      BY <2>1, <3>1
  <2>3. IsSuffix(All(rest, field), x \o All(rest, field))
    BY <1>6, <1>7, <2>2, JoinedHasSuffix
  <2> QED
    BY <1>6, <1>7, <2>1, <2>3
<1>8. Len(row[damaged + 1].chain) \in {0, 1}
  <2>1. preset.effects[damaged + 1] \in Effects
    BY <1>4, HitEffect
  <2> QED
    BY <1>4, <2>1, EffectIs
<1>9. PICK node, chain, w, after : /\ node = row[damaged + 1]["chain"] /\ chain = top.chain
                                   /\ w = Written("chain") /\ after = All(rest, "chain")
  OBVIOUS
<1>10. /\ IsSeq(after) /\ IsSeq(node) /\ IsSeq(w) /\ chain = (w \o node) \o after
       /\ (Len(node) = 0 \/ Len(node) = 1) /\ Len(node) = Len(preset.effects[damaged + 1].chain)
  BY <1>3, <1>4, <1>6, <1>8, <1>9
<1>11. node \in {<<>>} \cup {<<chain[i]>> : i \in DOMAIN chain}
  <2>1. IsSeq(after) /\ IsSeq(node) /\ IsSeq(w) /\ (Len(node) = 0 \/ Len(node) = 1)
    BY <1>10
  <2>2. IsNodeOf(node, (w \o node) \o after)
    BY <2>1, OneNode, Zenon
  <2> QED
    BY <1>10, <2>2 DEF IsNodeOf
<1>12. /\ node \in {<<>>} \cup {<<top.chain[i]>> : i \in DOMAIN top.chain}
       /\ Len(node) = Len(preset.effects[damaged + 1].chain)
       /\ top.chain = (Written("chain") \o node) \o All(rest, "chain")
  BY <1>9, <1>10, <1>11
<1>13. IsSuffix(All(rest, "comments"), comments) /\ IsSuffix(All(rest, "entries"), entries)
  BY <1>3, <1>4, <1>7
<1> QED
  BY <1>5, <1>12, <1>13

LEMMA DamageInside ==
  ASSUME Inv, Base, Somewhere
  PROVE  DamageStaysInside
<1>1. SUFFICES ASSUME Parsed, ~origin.cut,
                      origin.at > EndOf(preset, damaged) + Header(preset.effects[damaged + 1].cells[1])
               PROVE  LET effects == preset.effects
                          n       == damaged
                          hit     == effects[n + 1]
                      IN /\ LET chain == Others(effects, n, "chain")
                            IN \E node \in {<<>>} \cup {<<top.chain[i]>> : i \in DOMAIN top.chain} :
                                 /\ Len(node) = Len(hit.chain)
                                 /\ top.chain = chain.before \o node \o chain.after
                         /\ IsSuffix(Others(effects, n, "comments").after, comments)
                         /\ IsSuffix(Others(effects, n, "entries").after, entries)
  BY DEF DamageStaysInside, preset, damaged
<1>2. HeaderKept
  BY <1>1, HitThere DEF HeaderKept, Base
<1>3. PICK d, es, l : d = damaged /\ es = preset.effects /\ l = Len(preset.effects)
  OBVIOUS
<1>4. d \in Nat
  <2>1. damaged \in 0..Len(preset.effects)
    BY DamagedIs DEF Base
  <2> QED
    BY <1>3, <2>1
<1>5. (d + 1) + 1 = d + 2
  BY <1>4
<1>6. Rest(es, d + 1) = SubSeq(es, d + 2, l)
  BY <1>3, <1>5 DEF Rest
<1>7. ASSUME NEW field
      PROVE  /\ Others(preset.effects, damaged, field).after = All(Rest(preset.effects, damaged + 1), field)
             /\ Others(preset.effects, damaged, field).before = Written(field)
  <2>1. Others(es, d, field).after = All(SubSeq(es, d + 2, Len(es)), field)
    BY DEF Others
  <2>2. Others(es, d, field).before = All(Upto(es, d), field)
    BY DEF Others, Upto
  <2> QED
    BY <1>3, <1>6, <2>1, <2>2 DEF Written
<1>8. /\ \E node \in {<<>>} \cup {<<top.chain[i]>> : i \in DOMAIN top.chain} :
           /\ Len(node) = Len(preset.effects[damaged + 1].chain)
           /\ top.chain = (Written("chain") \o node) \o All(Rest(preset.effects, damaged + 1), "chain")
      /\ IsSuffix(All(Rest(preset.effects, damaged + 1), "comments"), comments)
      /\ IsSuffix(All(Rest(preset.effects, damaged + 1), "entries"), entries)
  BY <1>1, <1>2, InsideAtEnd
<1> QED
  BY <1>7, <1>8

\* Damage costs the effect it is in, and of a file that was cut off what follows,
\* whatever the presets are made of and whatever the damaged cell holds.
THEOREM DamageIsConfined == PresetParserSpec => []DamageConfined
<1>1. PresetParserInit => Inv /\ Base /\ Somewhere
  BY AtStart, BaseAtStart, SomewhereAtStart
<1>2. Inv /\ Base /\ Somewhere /\ [PresetParserNext]_presetParserVars => (Inv /\ Base /\ Somewhere)'
  <2>1. SUFFICES ASSUME Inv, Base, Somewhere, [PresetParserNext]_presetParserVars
                 PROVE  (Inv /\ Base /\ Somewhere)'
    OBVIOUS
  <2>2. Inv'
    BY <2>1, InvStep
  <2>3. CASE PresetParserNext
    BY <2>1, <2>2, <2>3, BaseStep, SomewhereStep
  <2>4. CASE UNCHANGED presetParserVars
    BY <2>1, <2>2, <2>4, NothingMoves
  <2> QED
    BY <2>1, <2>3, <2>4
<1>3. Inv /\ Base /\ Somewhere => DamageConfined
  BY EarlierSurvive, DamageInside DEF DamageConfined
<1> QED
  BY <1>1, <1>2, <1>3, PTL DEF PresetParserSpec

===============================================================================
