---------------------------- MODULE SubjectsProofs ----------------------------
(***************************************************************************)
(* Theorems about Subjects, for every template that New admits, every      *)
(* event and every device.                                                 *)
(*                                                                         *)
(* Rendering concatenates, so what it makes is shown by induction over the *)
(* number of tokens.  Induction is stated for sets of numbers: a set that  *)
(* has 0, and with each number its successor, has them all.                *)
(***************************************************************************)
EXTENDS Subjects, Integers, WellFoundedInduction, SequenceTheorems, TLAPS

-----------------------------------------------------------------------------
(* Induction over the natural numbers.                                     *)

Less == {ss \in Nat \X Nat : ss[1] < ss[2]}

LEMMA LessWF == IsWellFoundedOn(Less, Nat)
  BY NatLessThanWellFounded DEF OpToRel, Less

LEMMA NatInd ==
  ASSUME NEW S, 0 \in S, \A n \in Nat : n \in S => n + 1 \in S
  PROVE  Nat \subseteq S
<1>1. SUFFICES ASSUME Nat \ S # {}  PROVE FALSE
  OBVIOUS
<1>4. PICK x \in Nat \ S : \A y \in Nat \ S : ~ (<<y, x>> \in Less)
  <2>1. Nat \ S \subseteq Nat
    OBVIOUS
  <2> QED
    BY <1>1, <2>1, LessWF, WFMin
<1>5. x # 0 /\ x - 1 \in Nat
  BY <1>4
<1>6. x - 1 \notin S
  <2>1. x - 1 \in S => (x - 1) + 1 \in S
    BY <1>5
  <2>2. (x - 1) + 1 = x
    BY <1>4
  <2> QED
    BY <1>4, <2>1, <2>2
<1>7. <<x - 1, x>> \in Less
  BY <1>4, <1>5 DEF Less
<1> QED
  BY <1>4, <1>5, <1>6, <1>7


\* A set of natural numbers has a least one.
LEMMA LeastExists ==
  ASSUME NEW S, S \subseteq Nat, S # {}
  PROVE  \E n \in S : \A k \in S : n <= k
<1>1. PICK x \in S : \A y \in S : ~ (<<y, x>> \in Less)
  BY LessWF, WFMin
<1>2. ASSUME NEW k \in S  PROVE x <= k
  <2>1. ~ (<<k, x>> \in Less) /\ k \in Nat /\ x \in Nat
    BY <1>1
  <2> QED
    BY <2>1 DEF Less
<1> QED
  BY <1>2


-----------------------------------------------------------------------------
(* Sequences and their concatenations.                                     *)

\* A function on the first numbers is a sequence.
LEMMA FunctionIsSeq ==
  ASSUME NEW X, NEW m \in Nat, NEW s \in [1 .. m -> X]
  PROVE  s \in Seq(X) /\ Len(s) = m
<1>1. s \in Seq(X)
  BY SeqDef
<1> QED
  BY <1>1, LenProperties

\* Prefixes, place by place.
LEMMA PrefixIs ==
  ASSUME NEW S, NEW s \in Seq(S), NEW u \in Seq(S)
  PROVE  IsPrefix(s, u) <=> Len(s) <= Len(u) /\ \A i \in 1 .. Len(s) : s[i] = u[i]
<1>1. Len(s) \in Nat /\ Len(u) \in Nat
  OBVIOUS
<1>2. /\ SubSeq(s, 1, Len(s)) \in Seq(S) /\ Len(SubSeq(s, 1, Len(s))) = Len(s)
      /\ \A i \in 1 .. Len(s) : SubSeq(s, 1, Len(s))[i] = s[i]
  BY <1>1, SubSeqProperties
<1>3. CASE Len(s) <= Len(u)
  <2>1. /\ SubSeq(u, 1, Len(s)) \in Seq(S) /\ Len(SubSeq(u, 1, Len(s))) = Len(s)
        /\ \A i \in 1 .. Len(s) : SubSeq(u, 1, Len(s))[i] = u[i]
    BY <1>1, <1>3, SubSeqProperties
  <2>2. SubSeq(s, 1, Len(s)) = SubSeq(u, 1, Len(s)) <=> \A i \in 1 .. Len(s) : s[i] = u[i]
    BY <1>1, <1>2, <2>1, SeqEqual
  <2> QED
    BY <1>3, <2>2 DEF IsPrefix
<1> QED
  BY <1>3 DEF IsPrefix

\* The concatenations of the first parts.
Partial(s, n, f) == f = [i \in 1 .. n |-> IF i = 1 THEN s[i] ELSE f[i - 1] \o s[i]]

LEMMA PartialExist ==
  ASSUME NEW s
  PROVE  \A n \in Nat : \E f : Partial(s, n, f)
<1> DEFINE S == {n \in Nat : \E f : Partial(s, n, f)}
<1>1. 0 \in S
  <2>1. Partial(s, 0, [i \in 1 .. 0 |-> 0])
    BY DEF Partial
  <2> QED
    BY <2>1
<1>2. ASSUME NEW n \in Nat, n \in S  PROVE n + 1 \in S
  <2>1. PICK f : Partial(s, n, f)
    BY <1>2
  <2> DEFINE last == IF n = 0 THEN s[1] ELSE f[n] \o s[n + 1]
             g == [i \in 1 .. n + 1 |-> IF i = n + 1 THEN last ELSE f[i]]
  <2>2. ASSUME NEW i \in 1 .. n + 1
        PROVE  g[i] = IF i = 1 THEN s[i] ELSE g[i - 1] \o s[i]
    <3>1. CASE i = 1 /\ n = 0
      BY <3>1
    <3>2. CASE i = n + 1 /\ n # 0
      <4> HIDE DEF last
      <4>1. g[i] = last
        BY <3>2
      <4>2. i # 1 /\ i - 1 = n /\ i - 1 \in 1 .. n + 1 /\ i - 1 # n + 1
        BY <3>2
      <4>3. g[i - 1] = f[n]
        BY <4>2
      <4>4. last = f[n] \o s[i]
        BY <3>2 DEF last
      <4> HIDE DEF g
      <4> QED
        BY <4>1, <4>2, <4>3, <4>4
    <3>3. CASE i # n + 1
      <4>1. i \in 1 .. n /\ g[i] = f[i]
        BY <3>3
      <4>2. f[i] = IF i = 1 THEN s[i] ELSE f[i - 1] \o s[i]
        BY <2>1, <4>1 DEF Partial
      <4>3. i # 1 => g[i - 1] = f[i - 1]
        BY <4>1
      <4> QED
        BY <4>1, <4>2, <4>3
    <3> QED
      BY <3>1, <3>2, <3>3
  <2>3. Partial(s, n + 1, g)
    <3> HIDE DEF g
    <3>1. g = [i \in 1 .. n + 1 |-> g[i]]
      BY DEF g
    <3> QED
      BY <2>2, <3>1 DEF Partial
  <2> QED
    BY <2>3
<1> HIDE DEF S
<1>3. Nat \subseteq S
  BY <1>1, <1>2, NatInd
<1> QED
  BY <1>3 DEF S

LEMMA Flattened ==
  ASSUME NEW S, NEW s \in Seq(Seq(S))
  PROVE  \E F \in [0 .. Len(s) -> Seq(S)] :
           /\ F[0] = <<>> /\ FlattenSeq(s) = F[Len(s)]
           /\ \A i \in 1 .. Len(s) : F[i] = F[i - 1] \o s[i]
<1> DEFINE m == Len(s)
           f == CHOOSE f : Partial(s, m, f)
           F == [i \in 0 .. m |-> IF i = 0 THEN <<>> ELSE f[i]]
<1>1. m \in Nat /\ \A i \in 1 .. m : s[i] \in Seq(S)
  OBVIOUS
<1>2. Partial(s, m, f)
  BY <1>1, PartialExist
<1>3. m # 0 => FlattenSeq(s) = f[m]
  BY DEF FlattenSeq, Partial
<1>4. m = 0 => FlattenSeq(s) = <<>>
  BY DEF FlattenSeq
<1> HIDE DEF f
<1>5. ASSUME NEW i \in 1 .. m  PROVE f[i] = (IF i = 1 THEN s[i] ELSE f[i - 1] \o s[i])
  BY <1>2 DEF Partial
<1>6. ASSUME NEW i \in 1 .. m  PROVE F[i] = F[i - 1] \o s[i]
  <2>1. CASE i = 1
    BY <2>1, <1>1, <1>5, ConcatEmptySeq
  <2>2. CASE i # 1
    <3>1. i - 1 \in 0 .. m /\ i - 1 # 0 /\ i \in 0 .. m /\ i # 0
      BY <2>2, <1>1
    <3>2. F[i] = f[i] /\ F[i - 1] = f[i - 1]
      BY <3>1
    <3> QED
      BY <3>2, <2>2, <1>5
  <2> QED
    BY <2>1, <2>2
<1>7. \A i \in 0 .. m : F[i] \in Seq(S)
  <2> DEFINE T == {i \in Nat : i <= m => F[i] \in Seq(S)}
  <2>1. 0 \in T
    BY <1>1, EmptySeq
  <2>2. ASSUME NEW i \in Nat, i \in T  PROVE i + 1 \in T
    <3>1. CASE i + 1 <= m
      <4>1. i + 1 \in 1 .. m /\ (i + 1) - 1 = i /\ F[i] \in Seq(S) /\ s[i + 1] \in Seq(S)
        BY <2>2, <3>1, <1>1
      <4>2. F[i + 1] = F[i] \o s[i + 1]
        BY <4>1, <1>6
      <4>3. F[i] \o s[i + 1] \in Seq(S)
        BY <4>1, ConcatProperties
      <4> HIDE DEF F, m
      <4>4. F[i + 1] \in Seq(S)
        BY <4>2, <4>3
      <4> QED
        BY <4>4
    <3> QED
      BY <3>1
  <2> HIDE DEF T, F
  <2>3. Nat \subseteq T
    BY <2>1, <2>2, NatInd
  <2> QED
    BY <2>3, <1>1 DEF T
<1>8. F \in [0 .. m -> Seq(S)] /\ F[0] = <<>> /\ FlattenSeq(s) = F[m]
  BY <1>1, <1>3, <1>4, <1>7
<1> HIDE DEF F
<1> QED
  BY <1>6, <1>8

\* A sequence of texts of one part each: the flat sequence has their parts.
LEMMA FlattenOnes ==
  ASSUME NEW S, NEW s \in Seq(Seq(S)), \A i \in 1 .. Len(s) : Len(s[i]) = 1
  PROVE  /\ FlattenSeq(s) \in Seq(S) /\ Len(FlattenSeq(s)) = Len(s)
         /\ \A i \in 1 .. Len(s) : FlattenSeq(s)[i] = s[i][1]
<1> DEFINE m == Len(s)
<1>1. m \in Nat /\ \A i \in 1 .. m : s[i] \in Seq(S)
  OBVIOUS
<1>2. PICK F \in [0 .. m -> Seq(S)] : /\ F[0] = <<>> /\ FlattenSeq(s) = F[m]
                                      /\ \A i \in 1 .. m : F[i] = F[i - 1] \o s[i]
  BY Flattened
<1> DEFINE T == {n \in Nat : n <= m => /\ Len(F[n]) = n
                                       /\ \A i \in 1 .. n : F[n][i] = s[i][1]}
<1> HIDE DEF m
<1>3. 0 \in T
  BY <1>2, EmptySeq
<1>4. ASSUME NEW n \in Nat, n \in T  PROVE n + 1 \in T
  <2> SUFFICES ASSUME n + 1 <= m
               PROVE  Len(F[n + 1]) = n + 1 /\ \A i \in 1 .. n + 1 : F[n + 1][i] = s[i][1]
    OBVIOUS
  <2>1. /\ n + 1 \in 1 .. m /\ n \in 0 .. m /\ (n + 1) - 1 = n
        /\ Len(F[n]) = n /\ \A i \in 1 .. n : F[n][i] = s[i][1]
    BY <1>1, <1>4
  <2>2. F[n + 1] = F[n] \o s[n + 1] /\ F[n] \in Seq(S) /\ s[n + 1] \in Seq(S)
    BY <1>1, <1>2, <2>1
  <2>3. Len(s[n + 1]) = 1
    BY <2>1 DEF m
  <2>4. Len(F[n] \o s[n + 1]) = n + 1
    <3>1. Len(F[n] \o s[n + 1]) = Len(F[n]) + Len(s[n + 1])
      BY <2>2, ConcatProperties
    <3> QED
      BY <2>1, <2>3, <3>1
  <2>5. ASSUME NEW i \in 1 .. n + 1  PROVE F[n + 1][i] = s[i][1]
    <3>1. F[n + 1][i] = IF i <= n THEN F[n][i] ELSE s[n + 1][i - n]
      BY <2>1, <2>2, <2>3, ConcatProperties
    <3>2. CASE i <= n
      BY <3>1, <3>2, <2>1
    <3>3. CASE ~ (i <= n)
      <4>1. i = n + 1 /\ i - n = 1
        BY <3>3
      <4> QED
        BY <3>1, <3>3, <4>1
    <3> QED
      BY <3>2, <3>3
  <2> QED
    BY <2>2, <2>4, <2>5
<1> HIDE DEF T
<1>5. m \in T
  BY <1>1, <1>3, <1>4, NatInd
<1> QED
  BY <1>1, <1>2, <1>5 DEF T, m

\* Where in which part the elements of the flat sequence are: in order.
LEMMA FlattenPlaces ==
  ASSUME NEW S, NEW s \in Seq(Seq(S))
  PROVE  /\ FlattenSeq(s) \in Seq(S)
         /\ \E J, P : \A k \in 1 .. Len(FlattenSeq(s)) :
                 /\ J[k] \in 1 .. Len(s)
                 /\ P[k] \in 1 .. Len(s[J[k]]) /\ FlattenSeq(s)[k] = s[J[k]][P[k]]
                 /\ \A h \in 1 .. k - 1 : J[h] < J[k] \/ (J[h] = J[k] /\ P[h] < P[k])
<1> DEFINE m == Len(s)
<1>1. m \in Nat /\ \A i \in 1 .. m : s[i] \in Seq(S) /\ Len(s[i]) \in Nat
  OBVIOUS
<1>2. PICK F \in [0 .. m -> Seq(S)] : /\ F[0] = <<>> /\ FlattenSeq(s) = F[m]
                                      /\ \A i \in 1 .. m : F[i] = F[i - 1] \o s[i]
  BY Flattened
<1> HIDE DEF m
<1>L. \A n \in 0 .. m : Len(F[n]) \in Nat
  BY <1>1, <1>2
<1> DEFINE Placed(n, J, P) ==
             \A k \in 1 .. Len(F[n]) :
                 /\ J[k] \in 1 .. n
                 /\ P[k] \in 1 .. Len(s[J[k]]) /\ F[n][k] = s[J[k]][P[k]]
                 /\ \A h \in 1 .. k - 1 : J[h] < J[k] \/ (J[h] = J[k] /\ P[h] < P[k])
           T == {n \in Nat : n <= m => \E J, P : Placed(n, J, P)}
<1>3. 0 \in T
  <2>1. Len(F[0]) = 0
    BY <1>2, EmptySeq
  <2>2. Placed(0, [k \in 1 .. 0 |-> 0], [k \in 1 .. 0 |-> 0])
    BY <2>1
  <2> HIDE DEF Placed
  <2> QED
    BY <2>1, <2>2
<1>4. ASSUME NEW n \in Nat, n \in T  PROVE n + 1 \in T
  <2> SUFFICES ASSUME n + 1 <= m
               PROVE  \E J, P : Placed(n + 1, J, P)
    <3> HIDE DEF Placed
    <3> QED
      OBVIOUS
  <2>1. n + 1 \in 1 .. m /\ n \in 0 .. m /\ (n + 1) - 1 = n
    BY <1>1
  <2> DEFINE a == Len(F[n])
             b == Len(s[n + 1])
  <2>2. PICK J, P : Placed(n, J, P)
    <3> HIDE DEF Placed
    <3> QED
      BY <1>4, <1>1, <2>1
  <2>3. F[n + 1] = F[n] \o s[n + 1] /\ F[n] \in Seq(S) /\ s[n + 1] \in Seq(S)
    BY <1>1, <1>2, <2>1
  <2>4. a \in Nat /\ b \in Nat
    BY <2>1, <1>1, <1>L
  <2>5. /\ Len(F[n + 1]) = a + b
        /\ \A k \in 1 .. a + b : F[n + 1][k] = IF k <= a THEN F[n][k] ELSE s[n + 1][k - a]
    <3>1. /\ Len(F[n] \o s[n + 1]) = a + b
          /\ \A k \in 1 .. a + b :
               (F[n] \o s[n + 1])[k] = IF k <= a THEN F[n][k] ELSE s[n + 1][k - a]
      BY <2>3, ConcatProperties
    <3> QED
      BY <2>3, <3>1
  <2> HIDE DEF a, b
  <2> DEFINE J2 == [k \in 1 .. a + b |-> IF k <= a THEN J[k] ELSE n + 1]
             P2 == [k \in 1 .. a + b |-> IF k <= a THEN P[k] ELSE k - a]
  <2>7. ASSUME NEW k \in 1 .. a + b
        PROVE  /\ J2[k] \in 1 .. n + 1
               /\ P2[k] \in 1 .. Len(s[J2[k]]) /\ F[n + 1][k] = s[J2[k]][P2[k]]
               /\ \A h \in 1 .. k - 1 : J2[h] < J2[k] \/ (J2[h] = J2[k] /\ P2[h] < P2[k])
    <3>1. CASE k <= a
      <4>1. k \in 1 .. a /\ J2[k] = J[k] /\ P2[k] = P[k]
        BY <3>1, <2>4
      <4>2. \A h \in 1 .. k - 1 : J2[h] = J[h] /\ P2[h] = P[h]
        BY <3>1, <2>4
      <4>3. /\ J[k] \in 1 .. n
            /\ P[k] \in 1 .. Len(s[J[k]]) /\ F[n][k] = s[J[k]][P[k]]
            /\ \A h \in 1 .. k - 1 : J[h] < J[k] \/ (J[h] = J[k] /\ P[h] < P[k])
        BY <2>2, <4>1 DEF a
      <4> HIDE DEF J2, P2
      <4>4. F[n + 1][k] = F[n][k]
        BY <2>5, <3>1
      <4> QED
        BY <4>1, <4>2, <4>3, <4>4
    <3>2. CASE ~ (k <= a)
      <4>1. J2[k] = n + 1 /\ P2[k] = k - a /\ k - a \in 1 .. b
        BY <3>2, <2>4
      <4>2. F[n + 1][k] = s[n + 1][k - a]
        BY <3>2, <2>5
      <4>3. ASSUME NEW h \in 1 .. k - 1
            PROVE  J2[h] < J2[k] \/ (J2[h] = J2[k] /\ P2[h] < P2[k])
        <5>1. CASE h <= a
          <6>1. h \in 1 .. a /\ J2[h] = J[h]
            BY <5>1, <2>4
          <6>2. J[h] \in 1 .. n
            BY <2>2, <6>1 DEF a
          <6> QED
            BY <6>1, <6>2, <4>1
        <5>2. CASE ~ (h <= a)
          <6>1. J2[h] = n + 1 /\ P2[h] = h - a
            BY <5>2, <2>4
          <6>2. h - a < k - a
            BY <2>4
          <6> HIDE DEF J2, P2
          <6> QED
            BY <6>1, <6>2, <4>1
        <5> QED
          BY <5>1, <5>2
      <4> HIDE DEF J2, P2
      <4>4. J2[k] \in 1 .. n + 1
        BY <4>1
      <4>5. P2[k] \in 1 .. Len(s[J2[k]])
        BY <4>1 DEF b
      <4>6. F[n + 1][k] = s[J2[k]][P2[k]]
        BY <4>1, <4>2
      <4> QED
        BY <4>3, <4>4, <4>5, <4>6
    <3> QED
      BY <3>1, <3>2
  <2> HIDE DEF J2, P2
  <2>8. Placed(n + 1, J2, P2)
    BY <2>5, <2>7
  <2> HIDE DEF Placed
  <2> QED
    BY <2>8
<1> HIDE DEF T
<1>5. m \in T
  BY <1>1, <1>3, <1>4, NatInd
<1>6. \E J, P : Placed(m, J, P)
  <2> HIDE DEF Placed
  <2> QED
    BY <1>1, <1>5 DEF T
<1>7. FlattenSeq(s) = F[m] /\ F[m] \in Seq(S)
  BY <1>1, <1>2
<1>8. PICK J, P : Placed(m, J, P)
  BY <1>6
<1>9. \A k \in 1 .. Len(FlattenSeq(s)) :
         /\ J[k] \in 1 .. Len(s)
         /\ P[k] \in 1 .. Len(s[J[k]]) /\ FlattenSeq(s)[k] = s[J[k]][P[k]]
         /\ \A h \in 1 .. k - 1 : J[h] < J[k] \/ (J[h] = J[k] /\ P[h] < P[k])
  BY <1>7, <1>8 DEF m
<1> QED
  BY <1>7, <1>9, Zenon

\* The sums of the first so many of m numbers.
Sums(f, a, m) ==
  /\ a \in [1 .. m -> Nat] /\ f \in [0 .. m -> Nat] /\ f[0] = 0
  /\ \A i \in 1 .. m : f[i] = f[i - 1] + a[i]

Agree(a, b, x, m) == \A i \in 1 .. m : i # x => a[i] = b[i]

Lengths(s) == [i \in 1 .. Len(s) |-> Len(s[i])]

\* The length of a flat sequence is the sum of the lengths of its parts.
LEMMA FlattenSums ==
  ASSUME NEW S, NEW s \in Seq(Seq(S))
  PROVE  \E sum : Sums(sum, Lengths(s), Len(s)) /\ Len(FlattenSeq(s)) = sum[Len(s)]
<1> DEFINE m == Len(s)
<1>1. PICK F \in [0 .. m -> Seq(S)] : /\ F[0] = <<>> /\ FlattenSeq(s) = F[m]
                                      /\ \A i \in 1 .. m : F[i] = F[i - 1] \o s[i]
  BY Flattened
<1>2. m \in Nat /\ \A i \in 1 .. m : s[i] \in Seq(S)
  OBVIOUS
<1> HIDE DEF m
<1> DEFINE sum == [n \in 0 .. m |-> Len(F[n])]
<1>3. sum \in [0 .. m -> Nat] /\ sum[m] = Len(FlattenSeq(s))
  BY <1>1, <1>2
<1>4. sum[0] = 0
  BY <1>1, <1>2, EmptySeq
<1>5. ASSUME NEW i \in 1 .. m  PROVE sum[i] = sum[i - 1] + Len(s[i])
  <2>1. i - 1 \in 0 .. m /\ i \in 0 .. m
    BY <1>2
  <2>2. F[i - 1] \in Seq(S) /\ s[i] \in Seq(S) /\ F[i] = F[i - 1] \o s[i]
    BY <1>1, <1>2, <2>1
  <2>3. Len(F[i]) = Len(F[i - 1]) + Len(s[i])
    BY <2>2, ConcatProperties
  <2> QED
    BY <2>1, <2>3
<1> HIDE DEF sum
<1>6. Sums(sum, Lengths(s), m)
  BY <1>2, <1>3, <1>4, <1>5 DEF Sums, Lengths, m
<1> QED
  BY <1>3, <1>6 DEF m

\* Sums over numbers of which one differs.
LEMMA SumsDiffer ==
  ASSUME NEW m \in Nat, NEW x \in 1 .. m, NEW f, NEW a, NEW g, NEW b,
         Sums(f, a, m), Sums(g, b, m), Agree(a, b, x, m)
  PROVE  g[m] - f[m] = b[x] - a[x]
<1> DEFINE T == {n \in Nat : n <= m => g[n] - f[n] = IF n < x THEN 0 ELSE b[x] - a[x]}
<1>1. 0 \in T
  BY DEF Sums
<1>2. ASSUME NEW n \in Nat, n \in T  PROVE n + 1 \in T
  <2>1. CASE n + 1 <= m
    <3>1. n + 1 \in 1 .. m /\ (n + 1) - 1 = n /\ n \in 0 .. m
      BY <2>1
    <3>2. f[n + 1] = f[n] + a[n + 1] /\ g[n + 1] = g[n] + b[n + 1]
      BY <3>1 DEF Sums
    <3>3. g[n] - f[n] = IF n < x THEN 0 ELSE b[x] - a[x]
      BY <1>2, <3>1
    <3>4. /\ f[n] \in Nat /\ g[n] \in Nat /\ a[n + 1] \in Nat /\ b[n + 1] \in Nat
          /\ a[x] \in Nat /\ b[x] \in Nat /\ x \in Nat
      <4>1. f[n] \in Nat /\ a[n + 1] \in Nat /\ a[x] \in Nat
        BY <3>1 DEF Sums
      <4>2. g[n] \in Nat /\ b[n + 1] \in Nat /\ b[x] \in Nat
        BY <3>1 DEF Sums
      <4> QED
        BY <4>1, <4>2
    <3>5. n + 1 # x => a[n + 1] = b[n + 1]
      BY <3>1 DEF Agree
    <3>6. g[n + 1] - f[n + 1] = IF n + 1 < x THEN 0 ELSE b[x] - a[x]
      <4> DEFINE fn == f[n]  gn == g[n]  an == a[n + 1]  bn == b[n + 1]  ax == a[x]  bx == b[x]
      <4>1. /\ fn \in Nat /\ gn \in Nat /\ an \in Nat /\ bn \in Nat /\ ax \in Nat /\ bx \in Nat
            /\ gn - fn = (IF n < x THEN 0 ELSE bx - ax)
            /\ n + 1 # x => an = bn
            /\ n + 1 = x => an = ax /\ bn = bx
            /\ f[n + 1] = fn + an /\ g[n + 1] = gn + bn
        BY <3>2, <3>3, <3>4, <3>5
      <4> HIDE DEF fn, gn, an, bn, ax, bx
      <4>2. (gn + bn) - (fn + an) = (IF n + 1 < x THEN 0 ELSE bx - ax)
        BY <4>1, <3>1
      <4> QED
        BY <4>1, <4>2 DEF ax, bx
    <3> QED
      BY <3>6
  <2> QED
    BY <2>1
<1> HIDE DEF T
<1>3. m \in T
  BY <1>1, <1>2, NatInd
<1> QED
  BY <1>3 DEF T

\* Sums over numbers none of which is smaller, and one of which is greater.
LEMMA SumsGrow ==
  ASSUME NEW m \in Nat, NEW x \in 1 .. m, NEW f, NEW a, NEW g, NEW b,
         Sums(f, a, m), Sums(g, b, m), \A i \in 1 .. m : a[i] <= b[i], a[x] < b[x]
  PROVE  f[m] < g[m]
<1> DEFINE T == {n \in Nat : n <= m => f[n] <= g[n] /\ (x <= n => f[n] < g[n])}
<1>1. 0 \in T
  BY DEF Sums
<1>2. ASSUME NEW n \in Nat, n \in T  PROVE n + 1 \in T
  <2>1. CASE n + 1 <= m
    <3>1. n + 1 \in 1 .. m /\ (n + 1) - 1 = n /\ n \in 0 .. m
      BY <2>1
    <3>2. f[n + 1] = f[n] + a[n + 1] /\ g[n + 1] = g[n] + b[n + 1]
      BY <3>1 DEF Sums
    <3>3. f[n] <= g[n] /\ (x <= n => f[n] < g[n])
      BY <1>2, <3>1
    <3>4. f[n] \in Nat /\ a[n + 1] \in Nat
      BY <3>1 DEF Sums
    <3>5. g[n] \in Nat /\ b[n + 1] \in Nat
      BY <3>1 DEF Sums
    <3>6. a[n + 1] <= b[n + 1]
      BY <3>1
    <3>7. x = n + 1 => a[n + 1] < b[n + 1]
      OBVIOUS
    <3>8. x <= n + 1 => x <= n \/ x = n + 1
      OBVIOUS
    <3>9. f[n + 1] <= g[n + 1] /\ (x <= n + 1 => f[n + 1] < g[n + 1])
      BY <3>2, <3>3, <3>4, <3>5, <3>6, <3>7, <3>8
    <3> QED
      BY <3>9
  <2> QED
    BY <2>1
<1> HIDE DEF T
<1>3. m \in T
  BY <1>1, <1>2, NatInd
<1> QED
  BY <1>3 DEF T

\* When one part becomes longer or shorter, the flat sequence does as much.
LEMMA FlattenLength ==
  ASSUME NEW S, NEW s \in Seq(Seq(S)), NEW t \in Seq(Seq(S)), Len(s) = Len(t),
         NEW x \in 1 .. Len(s), \A i \in 1 .. Len(s) : i # x => Len(s[i]) = Len(t[i])
  PROVE  /\ Len(FlattenSeq(s)) \in Nat /\ Len(FlattenSeq(t)) \in Nat
         /\ Len(FlattenSeq(t)) - Len(FlattenSeq(s)) = Len(t[x]) - Len(s[x])
<1>1. PICK f : Sums(f, Lengths(s), Len(s)) /\ Len(FlattenSeq(s)) = f[Len(s)]
  BY FlattenSums
<1>2. PICK g : Sums(g, Lengths(t), Len(s)) /\ Len(FlattenSeq(t)) = g[Len(s)]
  BY FlattenSums
<1>3. Len(s) \in Nat
  OBVIOUS
<1>4. Agree(Lengths(s), Lengths(t), x, Len(s))
  BY DEF Agree, Lengths
<1>5. Lengths(s)[x] = Len(s[x]) /\ Lengths(t)[x] = Len(t[x])
  BY DEF Lengths
<1>6. f[Len(s)] \in Nat /\ g[Len(s)] \in Nat
  BY <1>1, <1>2, <1>3 DEF Sums
<1>7. g[Len(s)] - f[Len(s)] = Lengths(t)[x] - Lengths(s)[x]
  BY <1>1, <1>2, <1>3, <1>4, SumsDiffer
<1> QED
  BY <1>1, <1>2, <1>5, <1>6, <1>7

\* Nothing but empty parts.
LEMMA FlattenEmpty ==
  ASSUME NEW S, NEW s \in Seq(Seq(S)), \A i \in 1 .. Len(s) : s[i] = <<>>
  PROVE  Len(FlattenSeq(s)) = 0
<1>1. PICK J, P :
        \A k \in 1 .. Len(FlattenSeq(s)) :
                 /\ J[k] \in 1 .. Len(s)
                 /\ P[k] \in 1 .. Len(s[J[k]]) /\ FlattenSeq(s)[k] = s[J[k]][P[k]]
                 /\ \A h \in 1 .. k - 1 : J[h] < J[k] \/ (J[h] = J[k] /\ P[h] < P[k])
  BY FlattenPlaces
<1>2. Len(FlattenSeq(s)) \in Nat
  BY FlattenPlaces
<1>3. ASSUME NEW k \in 1 .. Len(FlattenSeq(s))  PROVE FALSE
  <2>1. J[k] \in 1 .. Len(s) /\ P[k] \in 1 .. Len(s[J[k]])
    BY <1>1
  <2>2. s[J[k]] = <<>> /\ Len(<<>>) = 0
    BY <2>1, EmptySeq, Zenon
  <2>3. P[k] \in 1 .. 0
    BY <2>1, <2>2
  <2> QED
    BY <2>3
<1> QED
  BY <1>2, <1>3

-----------------------------------------------------------------------------
(* Templates.                                                              *)

\* What New makes: a sequence of literals of one part each, and of
\* placeholders that vary per event.
LiteralToken(token) ==
  /\ token.is = "literal" /\ token.text \in Seq(Parts) /\ IsLegalToken(token.text)

EventToken(token) == \E n \in PerEventNames : token = Placeholder(n)

Template(t) ==
  /\ Len(t.tokens) \in Nat /\ DOMAIN t.tokens = 1 .. Len(t.tokens)
  /\ \A i \in 1 .. Len(t.tokens) : LiteralToken(t.tokens[i]) \/ EventToken(t.tokens[i])
  /\ t.site \in Seq(Parts) /\ IsLegalToken(t.site)

LEMMA PlaceholderIs ==
  ASSUME NEW n
  PROVE  Placeholder(n).is = "placeholder" /\ Placeholder(n).name = n
  BY DEF Placeholder

LEMMA EventTokenIs ==
  ASSUME NEW token, EventToken(token)
  PROVE  token.is = "placeholder" /\ token.name \in PerEventNames /\ token = Placeholder(token.name)
  BY PlaceholderIs DEF EventToken

\* The constants are legal texts.
LEMMA ConstantsLegal ==
  ASSUME NEW vars, NEW id, vars \in [DOMAIN vars -> Seq(Parts)],
         id \in [IdentityNames -> Seq(Parts)],
         \A n \in IdentityNames : IsLegalToken(id[n]),
         \A n \in DOMAIN vars : IsLegalToken(vars[n]),
         NEW n \in DOMAIN Constants(vars, id)
  PROVE  Constants(vars, id)[n] \in Seq(Parts) /\ IsLegalToken(Constants(vars, id)[n])
<1>1. n \in DOMAIN vars \cup {"prefix"} \cup IdentityNames
  BY DEF Constants
<1>2. Constants(vars, id)[n] = IF n \in IdentityNames THEN id[n]
                               ELSE IF n \in DOMAIN vars THEN vars[n] ELSE <<"openits">>
  BY <1>1 DEF Constants
<1>3. CASE n \in IdentityNames
  BY <1>2, <1>3
<1>4. CASE n \notin IdentityNames /\ n \in DOMAIN vars
  BY <1>2, <1>4
<1>5. CASE n \notin IdentityNames /\ n \notin DOMAIN vars
  <2>1. Constants(vars, id)[n] = <<"openits">>
    BY <1>2, <1>5
  <2>2. <<"openits">> \in Seq(Parts)
    BY WordsAssumption
  <2>3. IsLegalToken(<<"openits">>)
    BY DEF IsLegalToken
  <2> QED
    BY <2>1, <2>2, <2>3
<1> QED
  BY <1>3, <1>4, <1>5

\* A configuration that New accepts has such a template, whatever it says.
THEOREM NewIsTemplate ==
  ASSUME NEW raw \in Seq(RawTokens), NEW vars, NEW id,
         vars \in [DOMAIN vars -> Seq(Parts)], id \in [IdentityNames -> Seq(Parts)],
         New(raw, vars, id) # Refused
  PROVE  Template(New(raw, vars, id))
<1> DEFINE template == IF raw = <<>> THEN DefaultTemplate ELSE raw
           consts == Constants(vars, id)
           tokens == ParseTokens(template, consts)
<1>1. /\ \A n \in IdentityNames : IsLegalToken(id[n])
      /\ \A n \in DOMAIN vars : IsLegalToken(vars[n])
      /\ \A i \in DOMAIN template : ParseableToken(template[i], DOMAIN consts)
      /\ New(raw, vars, id) = [is |-> "template", tokens |-> tokens, site |-> id["site"]]
  BY DEF New
<1>2. /\ Len(template) \in Nat /\ DOMAIN template = 1 .. Len(template)
      /\ \A i \in DOMAIN template : template[i].is = "literal" => template[i].text \in Seq(Parts)
      /\ \A i \in DOMAIN template :
           template[i].is = "placeholder" => template[i] = Placeholder(template[i].name)
  <2>1. CASE raw = <<>>
    <3>1. /\ Len(DefaultTemplate) = 7 /\ DOMAIN DefaultTemplate = 1 .. 7
          /\ \A i \in 1 .. 7 : \E n : DefaultTemplate[i] = Placeholder(n)
      <4>1. Len(DefaultTemplate) = 7 /\ DOMAIN DefaultTemplate = 1 .. 7
        BY DEF DefaultTemplate
      <4>2. ASSUME NEW i \in 1 .. 7  PROVE \E n : DefaultTemplate[i] = Placeholder(n)
        BY DEF DefaultTemplate
      <4> QED
        BY <4>1, <4>2
    <3>2. \A i \in 1 .. 7 : /\ DefaultTemplate[i].is = "placeholder"
                            /\ DefaultTemplate[i] = Placeholder(DefaultTemplate[i].name)
      BY <3>1, PlaceholderIs
    <3>3. template = DefaultTemplate
      BY <2>1
    <3> HIDE DEF template
    <3>4. 7 \in Nat
      OBVIOUS
    <3> QED
      BY <3>1, <3>2, <3>3, <3>4
  <2>2. CASE raw # <<>>
    <3>1. ASSUME NEW token \in RawTokens
          PROVE  /\ token.is = "literal" => token.text \in Seq(Parts)
                 /\ token.is = "placeholder" => token = Placeholder(token.name)
      BY DEF RawTokens, Malformed, Placeholder
    <3>2. template = raw /\ \A i \in 1 .. Len(raw) : raw[i] \in RawTokens
      BY <2>2
    <3>3. Len(raw) \in Nat /\ DOMAIN raw = 1 .. Len(raw)
      OBVIOUS
    <3> HIDE DEF template
    <3> QED
      BY <3>1, <3>2, <3>3
  <2> QED
    BY <2>1, <2>2
<1> HIDE DEF template
<1>3. ASSUME NEW i \in DOMAIN template  PROVE LiteralToken(tokens[i]) \/ EventToken(tokens[i])
  <2>1. ParseableToken(template[i], DOMAIN consts)
    BY <1>1
  <2>2. tokens[i] = IF template[i].is = "placeholder" /\ template[i].name \notin PerEventNames
                      THEN Literal(consts[template[i].name]) ELSE template[i]
    BY DEF ParseTokens
  <2> HIDE DEF tokens
  <2>3. CASE template[i].is = "literal"
    BY <2>1, <2>2, <2>3, <1>2 DEF ParseableToken, LiteralToken
  <2>4. CASE template[i].is = "placeholder" /\ template[i].name \in PerEventNames
    BY <2>2, <2>4, <1>2 DEF EventToken
  <2>5. CASE template[i].is = "placeholder" /\ template[i].name \notin PerEventNames
    <3>1. template[i].name \in DOMAIN consts
      BY <2>1, <2>5 DEF ParseableToken
    <3>2. consts[template[i].name] \in Seq(Parts) /\ IsLegalToken(consts[template[i].name])
      BY <3>1, <1>1, ConstantsLegal
    <3>3. tokens[i] = Literal(consts[template[i].name])
      BY <2>2, <2>5
    <3> HIDE DEF consts
    <3> QED
      BY <3>2, <3>3 DEF Literal, LiteralToken
  <2> QED
    BY <2>1, <2>3, <2>4, <2>5 DEF ParseableToken
<1>4. DOMAIN tokens = 1 .. Len(template)
  BY <1>2 DEF ParseTokens
<1>5. Len(tokens) = Len(template)
  BY <1>2, <1>4, LenProperties DEF ParseTokens
<1>6. id["site"] \in Seq(Parts) /\ IsLegalToken(id["site"])
  BY <1>1 DEF IdentityNames
<1> HIDE DEF tokens
<1> QED
  BY <1>1, <1>2, <1>3, <1>4, <1>5, <1>6 DEF Template

-----------------------------------------------------------------------------
(* Subjects and bindings.                                                  *)

\* The parts of a subject: those of texts and those of its ce-type.
EventParts(c) == Parts \cup {c[n] : n \in PerEventNames \ {"device_id"}}

\* A subject has one part for each token of its template: none is empty, and a
\* subscriber may count on the places.
THEOREM RenderedTokenwise ==
  ASSUME NEW t, Template(t), NEW c, NEW d \in Seq(Parts), Renderable(t, d)
  PROVE  /\ Render(t, c, d) \in Seq(EventParts(c))
         /\ Len(Render(t, c, d)) = Len(t.tokens)
         /\ \A i \in 1 .. Len(t.tokens) :
              Render(t, c, d)[i] = TokenText(t, t.tokens[i], c, d)[1]
<1> DEFINE s == [i \in DOMAIN t.tokens |-> TokenText(t, t.tokens[i], c, d)]
           m == Len(t.tokens)
<1>1. m \in Nat /\ DOMAIN t.tokens = 1 .. m
  BY DEF Template
<1>2. ASSUME NEW i \in 1 .. m  PROVE s[i] \in Seq(EventParts(c)) /\ Len(s[i]) = 1
  <2>1. s[i] = TokenText(t, t.tokens[i], c, d)
    BY <1>1
  <2> DEFINE token == t.tokens[i]
  <2>2. CASE LiteralToken(token)
    <3>1. TokenText(t, token, c, d) = token.text
      BY <2>2 DEF LiteralToken, TokenText
    <3>2. token.text \in Seq(Parts) /\ Len(token.text) = 1
      BY <2>2 DEF LiteralToken, IsLegalToken
    <3>3. Parts \subseteq EventParts(c)
      BY DEF EventParts
    <3> QED
      BY <2>1, <3>1, <3>2, <3>3
  <2>3. CASE EventToken(token) /\ token.name = "device_id"
    <3>1. token.is = "placeholder" /\ token = Placeholder("device_id")
      BY <2>3, EventTokenIs
    <3>2. HasDeviceId(t)
      BY <1>1, <3>1 DEF HasDeviceId
    <3>3. IsLegalToken(IdOf(t, d)) /\ IdOf(t, d) \in Seq(Parts)
      BY <3>2 DEF Renderable, IdOf, Template
    <3>4. TokenText(t, token, c, d) = IdOf(t, d)
      BY <2>3, <3>1 DEF TokenText
    <3>5. Parts \subseteq EventParts(c)
      BY DEF EventParts
    <3>6. Len(IdOf(t, d)) = 1
      BY <3>3 DEF IsLegalToken
    <3> HIDE DEF s, token
    <3>7. s[i] = IdOf(t, d)
      BY <2>1, <3>4 DEF token
    <3> QED
      BY <3>3, <3>5, <3>6, <3>7
  <2>4. CASE EventToken(token) /\ token.name # "device_id"
    <3>1. token.is = "placeholder" /\ token.name \in PerEventNames \ {"device_id"}
      BY <2>4, EventTokenIs
    <3>2. TokenText(t, token, c, d) = <<c[token.name]>>
      BY <3>1 DEF TokenText
    <3>3. c[token.name] \in EventParts(c)
      BY <3>1 DEF EventParts
    <3> HIDE DEF token
    <3>4. <<c[token.name]>> \in Seq(EventParts(c)) /\ Len(<<c[token.name]>>) = 1
      BY <3>3
    <3> QED
      BY <2>1, <3>2, <3>4 DEF token
  <2> QED
    BY <1>1, <2>2, <2>3, <2>4 DEF Template
<1>3. s \in Seq(Seq(EventParts(c))) /\ Len(s) = m
  <2>1. s = [i \in 1 .. m |-> s[i]]
    BY <1>1
  <2> HIDE DEF s, m
  <2>2. s \in [1 .. m -> Seq(EventParts(c))]
    BY <1>2, <2>1
  <2> QED
    BY <1>1, <2>2, FunctionIsSeq
<1>4. \A i \in 1 .. Len(s) : Len(s[i]) = 1
  BY <1>2, <1>3
<1>5. \A i \in 1 .. m : s[i] = TokenText(t, t.tokens[i], c, d)
  BY <1>1
<1>6. Render(t, c, d) = FlattenSeq(s)
  BY DEF Render
<1> HIDE DEF s
<1>7. /\ FlattenSeq(s) \in Seq(EventParts(c)) /\ Len(FlattenSeq(s)) = Len(s)
      /\ \A i \in 1 .. Len(s) : FlattenSeq(s)[i] = s[i][1]
  BY <1>3, <1>4, FlattenOnes
<1> QED
  BY <1>3, <1>5, <1>6, <1>7

\* Where a filter ends: before the first token that varies per event, and all
\* tokens before it are the same in all subjects of a namespace.
LEMMA TruncationIs ==
  ASSUME NEW t, Template(t)
  PROVE  /\ Truncation(t) \in 1 .. Len(t.tokens) + 1
         /\ \A i \in 1 .. Truncation(t) - 1 :
              LiteralToken(t.tokens[i]) \/ t.tokens[i] = Placeholder("namespace")
<1> DEFINE varies == {i \in DOMAIN t.tokens :
                        /\ t.tokens[i].is = "placeholder"
                        /\ t.tokens[i].name # "namespace"}
           n == Truncation(t)
<1>1. Len(t.tokens) \in Nat /\ DOMAIN t.tokens = 1 .. Len(t.tokens)
  BY DEF Template
<1>2. n = IF varies = {} THEN Len(t.tokens) + 1 ELSE CHOOSE i \in varies : \A j \in varies : i <= j
  BY DEF Truncation
<1>3. varies # {} => n \in varies /\ \A j \in varies : n <= j
  <2>1. varies # {} => \E i \in varies : \A j \in varies : i <= j
    <3>1. varies \subseteq Nat
      BY <1>1
    <3> HIDE DEF varies
    <3> QED
      BY <3>1, LeastExists
  <2> HIDE DEF varies, n
  <2> QED
    BY <1>2, <2>1
<1>4. n \in 1 .. Len(t.tokens) + 1
  <2>1. varies \subseteq 1 .. Len(t.tokens)
    BY <1>1
  <2> HIDE DEF varies, n
  <2>2. varies = {} => n = Len(t.tokens) + 1
    BY <1>2
  <2>3. varies # {} => n \in 1 .. Len(t.tokens)
    BY <1>3, <2>1
  <2> QED
    BY <1>1, <2>2, <2>3
<1>5. ASSUME NEW i \in 1 .. n - 1
      PROVE  LiteralToken(t.tokens[i]) \/ t.tokens[i] = Placeholder("namespace")
  <2>1. i \in 1 .. Len(t.tokens) /\ i < n
    BY <1>1, <1>4
  <2>2. i \notin varies
    <3> HIDE DEF varies, n
    <3> QED
      BY <1>1, <1>3, <1>4, <2>1
  <2>3. CASE EventToken(t.tokens[i])
    <3>1. t.tokens[i].is = "placeholder" /\ t.tokens[i] = Placeholder(t.tokens[i].name)
      BY <2>3, EventTokenIs
    <3>2. t.tokens[i].name = "namespace"
      BY <1>1, <2>1, <2>2, <3>1
    <3> QED
      BY <3>1, <3>2
  <2> QED
    BY <2>1, <2>3 DEF Template
<1> QED
  BY <1>4, <1>5

\* The prefix of a filter, place by place.
PrefixText(token, namespace) == IF token.is = "literal" THEN token.text ELSE <<namespace>>

LEMMA BindingIs ==
  ASSUME NEW t, Template(t), NEW namespace
  PROVE  LET b == BindingFor(t, namespace) IN
         /\ b.prefix \in Seq(Parts \cup {namespace})
         /\ Len(b.prefix) = Truncation(t) - 1
         /\ \A i \in 1 .. Truncation(t) - 1 :
              b.prefix[i] = PrefixText(t.tokens[i], namespace)[1]
         /\ b.wildcard = (Truncation(t) <= Len(t.tokens))
<1> DEFINE n == Truncation(t)
           S == Parts \cup {namespace}
           s == [i \in 1 .. n - 1 |-> PrefixText(t.tokens[i], namespace)]
<1>1. n \in Nat /\ n - 1 \in Nat
  <2>1. n \in 1 .. Len(t.tokens) + 1 /\ Len(t.tokens) \in Nat
    BY TruncationIs DEF Template
  <2> HIDE DEF n
  <2> QED
    BY <2>1
<1>2. ASSUME NEW i \in 1 .. n - 1  PROVE s[i] \in Seq(S) /\ Len(s[i]) = 1
  <2> DEFINE token == t.tokens[i]
  <2>1. s[i] = PrefixText(token, namespace)
    OBVIOUS
  <2>2. LiteralToken(token) \/ token = Placeholder("namespace")
    BY TruncationIs
  <2>3. CASE LiteralToken(token)
    <3>1. s[i] = token.text /\ token.text \in Seq(Parts) /\ Len(token.text) = 1
      BY <2>1, <2>3 DEF LiteralToken, IsLegalToken, PrefixText
    <3>2. Parts \subseteq S
      OBVIOUS
    <3> HIDE DEF s, token, S
    <3> QED
      BY <3>1, <3>2
  <2>4. CASE token = Placeholder("namespace")
    <3>1. s[i] = <<namespace>>
      BY <2>1, <2>4, PlaceholderIs DEF PrefixText
    <3>2. <<namespace>> \in Seq(S) /\ Len(<<namespace>>) = 1
      OBVIOUS
    <3> HIDE DEF s, token, S
    <3> QED
      BY <3>1, <3>2
  <2> QED
    BY <2>2, <2>3, <2>4
<1>3. s \in Seq(Seq(S)) /\ Len(s) = n - 1
  <2> HIDE DEF n, S
  <2> QED
    BY <1>1, <1>2, FunctionIsSeq
<1>4. \A i \in 1 .. Len(s) : Len(s[i]) = 1
  BY <1>2, <1>3
<1>5. \A i \in 1 .. n - 1 : s[i] = PrefixText(t.tokens[i], namespace)
  OBVIOUS
<1>6. BindingFor(t, namespace) = [prefix |-> FlattenSeq(s), wildcard |-> n <= Len(t.tokens)]
  BY DEF BindingFor, PrefixText
<1> HIDE DEF s, n, S
<1>7. /\ FlattenSeq(s) \in Seq(S) /\ Len(FlattenSeq(s)) = Len(s)
      /\ \A i \in 1 .. Len(s) : FlattenSeq(s)[i] = s[i][1]
  BY <1>3, <1>4, FlattenOnes
<1> QED
  BY <1>3, <1>5, <1>6, <1>7 DEF n, S

\* What a template renders lies in the filter of its event's namespace: the
\* stream that boot provisions for it captures it.
THEOREM RenderedIsBound ==
  ASSUME NEW t, Template(t), NEW c, NEW d \in Seq(Parts), Renderable(t, d)
  PROVE  WithinBinding(Render(t, c, d), BindingFor(t, c["namespace"]))
<1> DEFINE ns == c["namespace"]
           subject == Render(t, c, d)
           b == BindingFor(t, ns)
           n == Truncation(t)
           m == Len(t.tokens)
<1>n. ns \in EventParts(c)
  BY DEF EventParts, PerEventNames
<1>t. \A token : token = Placeholder("namespace") => TokenText(t, token, c, d) = <<ns>>
  BY PlaceholderIs DEF TokenText
<1> HIDE DEF ns
<1>1. m \in Nat /\ n \in 1 .. m + 1
  BY TruncationIs DEF Template
<1>2. /\ subject \in Seq(EventParts(c)) /\ Len(subject) = m
      /\ \A i \in 1 .. m : subject[i] = TokenText(t, t.tokens[i], c, d)[1]
  BY RenderedTokenwise
<1>3. /\ b.prefix \in Seq(Parts \cup {ns}) /\ Len(b.prefix) = n - 1
      /\ \A i \in 1 .. n - 1 : b.prefix[i] = PrefixText(t.tokens[i], ns)[1]
      /\ b.wildcard = (n <= m)
  BY BindingIs
<1>4. b.prefix \in Seq(EventParts(c))
  <2>2. Parts \cup {ns} \subseteq EventParts(c)
    BY <1>n DEF EventParts
  <2> HIDE DEF b
  <2> QED
    BY <1>3, <2>2
<1>5. ASSUME NEW i \in 1 .. n - 1  PROVE b.prefix[i] = subject[i]
  <2>1. i \in 1 .. m
    BY <1>1
  <2>2. LiteralToken(t.tokens[i]) \/ t.tokens[i] = Placeholder("namespace")
    BY TruncationIs
  <2>3. PrefixText(t.tokens[i], ns) = TokenText(t, t.tokens[i], c, d)
    <3>1. CASE LiteralToken(t.tokens[i])
      BY <3>1 DEF LiteralToken, PrefixText, TokenText
    <3>2. CASE t.tokens[i] = Placeholder("namespace")
      <4>1. t.tokens[i].is = "placeholder" /\ t.tokens[i].name = "namespace"
        BY <3>2, PlaceholderIs
      <4> QED
        BY <1>t, <3>2, <4>1 DEF PrefixText
    <3> QED
      BY <2>2, <3>1, <3>2
  <2> HIDE DEF b, subject
  <2> QED
    BY <1>2, <1>3, <2>1, <2>3
<1> HIDE DEF b, subject, n, m
<1>6. IsPrefix(b.prefix, subject)
  BY <1>1, <1>2, <1>3, <1>4, <1>5, PrefixIs
<1>7. CASE n <= m
  <2>1. b.prefix # subject
    BY <1>1, <1>2, <1>3, <1>7
  <2> QED
    BY <1>3, <1>6, <1>7, <2>1 DEF WithinBinding, IsStrictPrefix, b, subject, ns
<1>8. CASE n = m + 1
  <2>1. subject = b.prefix
    BY <1>1, <1>2, <1>3, <1>4, <1>5, <1>8, SeqEqual
  <2>2. ~ (n <= m)
    BY <1>1, <1>8
  <2>3. ~ b.wildcard
    BY <1>3, <2>2, Zenon
  <2> QED
    BY <2>1, <2>3 DEF WithinBinding, b, subject, ns
<1> QED
  BY <1>1, <1>7, <1>8

\* Two filters of one template that capture the same subject are one: no
\* message is stored twice.
THEOREM BoundOnce ==
  ASSUME NEW t, Template(t), NEW x, NEW y, NEW S, NEW subject \in Seq(S),
         WithinBinding(subject, BindingFor(t, x)), WithinBinding(subject, BindingFor(t, y))
  PROVE  BindingFor(t, x) = BindingFor(t, y)
<1> DEFINE b == BindingFor(t, x)
           e == BindingFor(t, y)
           n == Truncation(t)
           U == (S \cup Parts) \cup {x, y}
<1>1. /\ b.prefix \in Seq(Parts \cup {x}) /\ Len(b.prefix) = n - 1
      /\ b.wildcard = (n <= Len(t.tokens))
  BY BindingIs
<1>2. /\ e.prefix \in Seq(Parts \cup {y}) /\ Len(e.prefix) = n - 1
      /\ e.wildcard = (n <= Len(t.tokens))
  BY BindingIs
<1>3. b = [prefix |-> b.prefix, wildcard |-> b.wildcard]
  BY DEF BindingFor
<1>4. e = [prefix |-> e.prefix, wildcard |-> e.wildcard]
  BY DEF BindingFor
<1>5. WithinBinding(subject, b) /\ WithinBinding(subject, e)
  OBVIOUS
<1> HIDE DEF b, e
<1>6. subject \in Seq(U) /\ b.prefix \in Seq(U) /\ e.prefix \in Seq(U)
  <2>1. S \subseteq U /\ Parts \cup {x} \subseteq U /\ Parts \cup {y} \subseteq U
    OBVIOUS
  <2> HIDE DEF U
  <2> QED
    BY <1>1, <1>2, <2>1
<1> HIDE DEF U, n
<1>7. b.prefix = e.prefix
  <2>1. CASE n <= Len(t.tokens)
    <3>1. IsPrefix(b.prefix, subject) /\ IsPrefix(e.prefix, subject)
      BY <1>1, <1>2, <1>5, <2>1 DEF WithinBinding, IsStrictPrefix
    <3>2. /\ \A i \in 1 .. Len(b.prefix) : b.prefix[i] = subject[i]
          /\ \A i \in 1 .. Len(e.prefix) : e.prefix[i] = subject[i]
      BY <1>6, <3>1, PrefixIs
    <3>3. \A i \in 1 .. Len(b.prefix) : b.prefix[i] = e.prefix[i]
      BY <1>1, <1>2, <3>2
    <3> QED
      BY <1>1, <1>2, <1>6, <3>3, SeqEqual
  <2>2. CASE ~ (n <= Len(t.tokens))
    BY <1>1, <1>2, <1>5, <2>2 DEF WithinBinding
  <2> QED
    BY <2>1, <2>2
<1>8. b.wildcard = e.wildcard
  BY <1>1, <1>2
<1>9. b = e
  BY <1>3, <1>4, <1>7, <1>8
<1> QED
  BY <1>9 DEF b, e

\* For ce-types of legal parts, all that the check at boot can refuse a
\* template for is a device whose id is no token: what it has to say of the
\* streams is so of every template.
THEOREM BootCheckIsRenderable ==
  ASSUME NEW t, Template(t), NEW ceTypes, ceTypes # {},
         \A c \in ceTypes : \A n \in PerEventNames \ {"device_id"} : IsLegalToken(<<c[n]>>),
         NEW devices \in SUBSET Seq(Parts)
  PROVE  ValidateCETypes(t, ceTypes, devices) <=> \A d \in devices : Renderable(t, d)
<1>1. ASSUME ValidateCETypes(t, ceTypes, devices), NEW d \in devices  PROVE Renderable(t, d)
  BY <1>1 DEF ValidateCETypes
<1>2. ASSUME \A d \in devices : Renderable(t, d)  PROVE ValidateCETypes(t, ceTypes, devices)
  <2> SUFFICES ASSUME NEW c \in ceTypes, NEW d \in devices \cup {NoDevice}
               PROVE  /\ Renderable(t, d)
                      /\ \A i \in DOMAIN Render(t, c, d) : IsLegalToken(<<Render(t, c, d)[i]>>)
                      /\ WithinBinding(Render(t, c, d), BindingFor(t, c.namespace))
    BY DEF ValidateCETypes
  <2>1. d \in Seq(Parts)
    <3>1. <<>> \in Seq(Parts)
      BY EmptySeq
    <3>2. d \in devices => d \in Seq(Parts)
      OBVIOUS
    <3> QED
      BY <3>1, <3>2, Zenon DEF NoDevice
  <2>2. Renderable(t, d)
    <3>1. Renderable(t, NoDevice)
      BY DEF Renderable, IdOf, NoDevice, Template
    <3> QED
      BY <1>2, <3>1
  <2>3. /\ Render(t, c, d) \in Seq(EventParts(c)) /\ Len(Render(t, c, d)) = Len(t.tokens)
        /\ \A i \in 1 .. Len(t.tokens) :
             Render(t, c, d)[i] = TokenText(t, t.tokens[i], c, d)[1]
    BY <2>1, <2>2, RenderedTokenwise
  <2>4. ASSUME NEW i \in 1 .. Len(t.tokens)  PROVE IsLegalToken(<<Render(t, c, d)[i]>>)
    <3> DEFINE token == t.tokens[i]  text == TokenText(t, token, c, d)
    <3>1. text[1] \notin {"", "*", ">"}
      <4>1. CASE LiteralToken(token)
        BY <4>1 DEF LiteralToken, TokenText, IsLegalToken
      <4>2. CASE EventToken(token) /\ token.name = "device_id"
        <5>1. token.is = "placeholder" /\ token = Placeholder("device_id")
          BY <4>2, EventTokenIs
        <5>2. i \in DOMAIN t.tokens
          BY DEF Template
        <5>3. IsLegalToken(IdOf(t, d))
          BY <2>2, <5>1, <5>2 DEF Renderable, HasDeviceId
        <5> QED
          BY <4>2, <5>1, <5>3 DEF TokenText, IsLegalToken
      <4>3. CASE EventToken(token) /\ token.name # "device_id"
        <5>1. token.is = "placeholder" /\ token.name \in PerEventNames \ {"device_id"}
          BY <4>3, EventTokenIs
        <5>2. text = <<c[token.name]>>
          BY <5>1 DEF TokenText
        <5>3. IsLegalToken(<<c[token.name]>>)
          BY <5>1
        <5> QED
          BY <5>2, <5>3 DEF IsLegalToken
      <4> QED
        BY <4>1, <4>2, <4>3 DEF Template
    <3>2. Render(t, c, d)[i] = text[1]
      BY <2>3
    <3> HIDE DEF text
    <3> QED
      BY <3>1, <3>2 DEF IsLegalToken
  <2>5. WithinBinding(Render(t, c, d), BindingFor(t, c["namespace"]))
    BY <2>1, <2>2, RenderedIsBound
  <2>6. DOMAIN Render(t, c, d) = 1 .. Len(t.tokens)
    BY <2>3
  <2> QED
    BY <2>2, <2>4, <2>5, <2>6
<1> QED
  BY <1>1, <1>2

\* The filters of the two namespaces have two names, or are one.
THEOREM StreamNamesApart ==
  ASSUME NEW t, Template(t),
         StreamNameForBinding(BindingFor(t, "openits"))
           = StreamNameForBinding(BindingFor(t, "openits-collector"))
  PROVE  BindingFor(t, "openits") = BindingFor(t, "openits-collector")
<1> DEFINE b == BindingFor(t, "openits")
           e == BindingFor(t, "openits-collector")
           m == Truncation(t) - 1
           words(p) == [i \in DOMAIN p |-> WordsOf[p[i]]]
<1>1. m \in Nat
  <2>1. Truncation(t) \in 1 .. Len(t.tokens) + 1 /\ Len(t.tokens) \in Nat
    BY TruncationIs DEF Template
  <2> QED
    BY <2>1
<1>2. "openits" \in Parts /\ "openits-collector" \in Parts
  BY WordsAssumption
<1>3. /\ b.prefix \in Seq(Parts) /\ Len(b.prefix) = m
      /\ \A i \in 1 .. m : b.prefix[i] = PrefixText(t.tokens[i], "openits")[1]
      /\ b.wildcard = (Truncation(t) <= Len(t.tokens))
  <2>1. Parts \cup {"openits"} = Parts
    BY <1>2
  <2> QED
    BY <2>1, BindingIs
<1>4. /\ e.prefix \in Seq(Parts) /\ Len(e.prefix) = m
      /\ \A i \in 1 .. m : e.prefix[i] = PrefixText(t.tokens[i], "openits-collector")[1]
      /\ e.wildcard = (Truncation(t) <= Len(t.tokens))
  <2>1. Parts \cup {"openits-collector"} = Parts
    BY <1>2
  <2> QED
    BY <2>1, BindingIs
<1>5. /\ StreamNameForBinding(b) = FlattenSeq(words(b.prefix))
      /\ StreamNameForBinding(e) = FlattenSeq(words(e.prefix))
  BY DEF StreamNameForBinding
<1>6. ASSUME NEW i \in 1 .. m
      PROVE  \/ b.prefix[i] = e.prefix[i]
             \/ b.prefix[i] = "openits" /\ e.prefix[i] = "openits-collector"
  <2>1. LiteralToken(t.tokens[i]) \/ t.tokens[i] = Placeholder("namespace")
    BY TruncationIs
  <2>2. CASE LiteralToken(t.tokens[i])
    <3>1. PrefixText(t.tokens[i], "openits") = PrefixText(t.tokens[i], "openits-collector")
      BY <2>2 DEF LiteralToken, PrefixText
    <3> HIDE DEF b, e
    <3> QED
      BY <1>3, <1>4, <3>1
  <2>3. CASE t.tokens[i] = Placeholder("namespace")
    <3>1. /\ PrefixText(t.tokens[i], "openits") = <<"openits">>
          /\ PrefixText(t.tokens[i], "openits-collector") = <<"openits-collector">>
      BY <2>3, PlaceholderIs DEF PrefixText
    <3> HIDE DEF b, e
    <3> QED
      BY <1>3, <1>4, <3>1
  <2> QED
    BY <2>1, <2>2, <2>3
<1>7. b = [prefix |-> b.prefix, wildcard |-> b.wildcard]
  BY DEF BindingFor
<1>8. e = [prefix |-> e.prefix, wildcard |-> e.wildcard]
  BY DEF BindingFor
<1>9. FlattenSeq(words(b.prefix)) = FlattenSeq(words(e.prefix))
  BY <1>5
<1> HIDE DEF b, e, m
<1>10. ASSUME NEW p \in Seq(Parts), Len(p) = m
       PROVE  /\ words(p) \in Seq(Seq(STRING)) /\ Len(words(p)) = m
              /\ \A i \in 1 .. m : words(p)[i] = WordsOf[p[i]]
  <2>1. DOMAIN p = 1 .. m /\ \A i \in 1 .. m : p[i] \in Parts
    BY <1>10
  <2>2. words(p) \in [1 .. m -> Seq(STRING)]
    BY <2>1, WordsAssumption
  <2>3. \A i \in 1 .. m : words(p)[i] = WordsOf[p[i]]
    BY <2>1
  <2> HIDE DEF words
  <2> QED
    BY <1>1, <2>2, <2>3, FunctionIsSeq
<1> DEFINE u == words(b.prefix)  v == words(e.prefix)
<1>11. /\ u \in Seq(Seq(STRING)) /\ Len(u) = m
       /\ \A i \in 1 .. m : u[i] = WordsOf[b.prefix[i]]
  BY <1>3, <1>10
<1>12. /\ v \in Seq(Seq(STRING)) /\ Len(v) = m
       /\ \A i \in 1 .. m : v[i] = WordsOf[e.prefix[i]]
  BY <1>4, <1>10
<1> HIDE DEF u, v
<1>13. ASSUME NEW x \in 1 .. m, b.prefix[x] # e.prefix[x]  PROVE FALSE
  <2>1. PICK f : Sums(f, Lengths(u), m) /\ Len(FlattenSeq(u)) = f[m]
    BY <1>11, FlattenSums
  <2>2. PICK g : Sums(g, Lengths(v), m) /\ Len(FlattenSeq(v)) = g[m]
    BY <1>12, FlattenSums
  <2>3. \A i \in 1 .. m : Lengths(u)[i] = Len(u[i]) /\ Lengths(v)[i] = Len(v[i])
    BY <1>11, <1>12 DEF Lengths
  <2>4. ASSUME NEW i \in 1 .. m
        PROVE  /\ Lengths(u)[i] <= Lengths(v)[i]
               /\ b.prefix[i] # e.prefix[i] => Lengths(u)[i] < Lengths(v)[i]
    <3>1. Len(u[i]) \in Nat /\ Len(v[i]) \in Nat
      BY <1>11, <1>12
    <3>2. CASE b.prefix[i] = e.prefix[i]
      <4>1. u[i] = v[i]
        BY <1>11, <1>12, <3>2
      <4> QED
        BY <2>3, <3>1, <3>2, <4>1
    <3>3. CASE b.prefix[i] # e.prefix[i]
      <4>1. u[i] = WordsOf["openits"] /\ v[i] = WordsOf["openits-collector"]
        BY <1>6, <1>11, <1>12, <3>3
      <4>2. Len(u[i]) < Len(v[i])
        BY <4>1, WordsAssumption
      <4> QED
        BY <2>3, <3>1, <4>2
    <3> QED
      BY <3>2, <3>3
  <2>5. \A i \in 1 .. m : Lengths(u)[i] <= Lengths(v)[i]
    BY <2>4
  <2>6. Lengths(u)[x] < Lengths(v)[x]
    BY <1>13, <2>4
  <2>7. f[m] < g[m]
    BY <1>1, <2>1, <2>2, <2>5, <2>6, SumsGrow
  <2>8. f[m] = g[m] /\ f[m] \in Nat
    BY <1>1, <1>9, <2>1, <2>2 DEF u, v, Sums
  <2> QED
    BY <2>7, <2>8
<1>14. b.prefix = e.prefix
  BY <1>3, <1>4, <1>13, SeqEqual
<1>15. b = e
  BY <1>3, <1>4, <1>7, <1>8, <1>14
<1> QED
  BY <1>15 DEF b, e
===============================================================================
