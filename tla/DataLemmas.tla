----------------------------- MODULE DataLemmas -----------------------------
(***************************************************************************)
(* Induction and recursion over the natural numbers with sets and          *)
(* functions, and what follows from them for the operators on sequences    *)
(* the models are built from.                                              *)
(***************************************************************************)
EXTENDS Integers, SequencesExt, FiniteSetTheorems, SequenceTheorems, TLAPS

(* A set of natural numbers has a least element: the intervals from 1 to   *)
(* its elements are finite sets, and strict inclusion is well founded.     *)
LEMMA LeastNatural ==
    ASSUME NEW T, T \subseteq Nat, T # {}
    PROVE  \E m \in T : \A k \in T : m <= k
<1> DEFINE below(n) == 1..n
           lower == {below(n) : n \in T}
<1>1. lower \subseteq FiniteSubsetsOf(Nat) /\ lower # {}
  <2>1. \A n \in T : IsFiniteSet(below(n)) /\ below(n) \in SUBSET Nat
    BY FS_Interval
  <2> QED BY <2>1 DEF FiniteSubsetsOf
<1>2. PICK x \in lower : \A y \in lower : ~ (<<y, x>> \in StrictSubsetOrdering(Nat))
  <2> HIDE DEF lower
  <2> QED BY <1>1, FS_StrictSubsetOrderingWellFounded, WFMin
<1>3. PICK m \in T : x = below(m)
  OBVIOUS
<1>4. \A k \in T : m <= k
  <2> SUFFICES ASSUME NEW k \in T, k < m PROVE FALSE
    OBVIOUS
  <2>1. below(k) \subseteq below(m) /\ m \in below(m) /\ m \notin below(k)
    OBVIOUS
  <2>2. <<below(k), below(m)>> \in StrictSubsetOrdering(Nat)
    BY <2>1 DEF StrictSubsetOrdering
  <2> QED BY <1>2, <1>3, <2>2
<1> QED BY <1>4

(* The least and the greatest of a set of indices are among them. *)
LEMMA MinAmong ==
    ASSUME NEW n \in Nat, NEW I, I \subseteq 1..n, I # {}
    PROVE  Min(I) \in I
<1>1. I \subseteq Nat
  OBVIOUS
<1>2. PICK m \in I : \A k \in I : m <= k
  BY <1>1, LeastNatural
<1> QED BY <1>2, Zenon DEF Min

(* The greatest of a set of indices is among them. *)
LEMMA MaxAmong ==
    ASSUME NEW n \in Nat, NEW I, I \subseteq 1..n, I # {}
    PROVE  Max(I) \in I
<1> DEFINE T == {n - k : k \in I}
<1>1. T \subseteq Nat /\ T # {}
  <2>1. \A k \in I : k \in 1..n /\ n - k \in Nat
    OBVIOUS
  <2> QED BY <2>1
<1>2. PICK t \in T : \A u \in T : t <= u
  <2> HIDE DEF T
  <2> QED BY <1>1, LeastNatural
<1>3. PICK m \in I : t = n - m
  OBVIOUS
<1>4. \A k \in I : m >= k
  <2> SUFFICES ASSUME NEW k \in I PROVE m >= k
    OBVIOUS
  <2>1. t <= n - k
    BY <1>2
  <2>2. k \in 1..n /\ m \in 1..n
    OBVIOUS
  <2> QED BY <1>3, <2>1, <2>2
<1> QED BY <1>4, Zenon DEF Max

(* Induction, for the numbers of a set. *)
LEMMA SetInduction ==
    ASSUME NEW S, 0 \in S, \A n \in Nat : n \in S => n + 1 \in S
    PROVE  Nat \subseteq S
<1> SUFFICES ASSUME Nat \ S # {} PROVE FALSE
  OBVIOUS
<1>1. PICK m \in Nat \ S : \A k \in Nat \ S : m <= k
  BY LeastNatural
<1>2. m - 1 \in Nat /\ m - 1 \in S
  BY <1>1
<1> QED BY <1>2

(* Course-of-values induction. *)
LEMMA StrongInduction ==
    ASSUME NEW S, \A n \in Nat : (\A k \in Nat : k < n => k \in S) => n \in S
    PROVE  Nat \subseteq S
<1> SUFFICES ASSUME Nat \ S # {} PROVE FALSE
  OBVIOUS
<1>1. PICK m \in Nat \ S : \A k \in Nat \ S : m <= k
  BY LeastNatural
<1> QED BY <1>1

(* H[n] makes the value at n of the values of a function below n. *)
Recursion(K, V, H) ==
    /\ H \in [1..K -> [[1..K -> V] -> V]]
    /\ \A n \in 1..K : \A f, g \in [1..K -> V] :
           (\A m \in 1..K : m < n => f[m] = g[m]) => H[n][f] = H[n][g]

Solution(f, K, V, H) == f \in [1..K -> V] /\ \A n \in 1..K : f[n] = H[n][f]

(* A function on 1..K can be defined by recursion when its value at n      *)
(* depends only on its values below n.                                     *)
LEMMA BoundedRecursion ==
    ASSUME NEW K \in Nat, NEW V, V # {}, NEW H, Recursion(K, V, H)
    PROVE  \E f : Solution(f, K, V, H)
<1> USE DEF Recursion, Solution
<1>0. PICK v : v \in V
  OBVIOUS
<1> DEFINE Upto(f, k) == \A n \in 1..K : n <= k => f[n] = H[n][f]
           S == {k \in Nat : \E f \in [1..K -> V] : Upto(f, k)}
<1>1. 0 \in S
  <2>1. [n \in 1..K |-> v] \in [1..K -> V]
    BY <1>0
  <2>2. \A f : Upto(f, 0)
    OBVIOUS
  <2> QED BY <2>1, <2>2
<1>2. ASSUME NEW k \in Nat, k \in S PROVE k + 1 \in S
  <2>1. PICK f \in [1..K -> V] : Upto(f, k)
    BY <1>2
  <2>2. CASE k + 1 \in 1..K
    <3>1. PICK x \in V : x = H[k + 1][f]
      BY <2>2
    <3>2. PICK g \in [1..K -> V] : \A n \in 1..K : g[n] = IF n = k + 1 THEN x ELSE f[n]
      <4>1. [n \in 1..K |-> IF n = k + 1 THEN x ELSE f[n]] \in [1..K -> V]
        OBVIOUS
      <4> QED BY <4>1
    <3>3. ASSUME NEW n \in 1..K, n <= k + 1 PROVE g[n] = H[n][g]
      <4>1. \A m \in 1..K : m < n => f[m] = g[m]
        BY <3>2, <3>3
      <4>2. H[n][f] = H[n][g]
        BY <4>1
      <4>3. CASE n = k + 1
        BY <3>1, <3>2, <4>2, <4>3
      <4>4. CASE n # k + 1
        <5>1. n <= k
          BY <3>3, <4>4
        <5> QED BY <2>1, <3>2, <4>2, <4>4, <5>1
      <4> QED BY <4>3, <4>4
    <3> QED BY <3>3
  <2>3. CASE k + 1 \notin 1..K
    <3>1. Upto(f, k + 1)
      <4>1. \A n \in 1..K : n <= k + 1 => n <= k
        BY <2>3
      <4> QED BY <2>1, <4>1
    <3> QED BY <3>1
  <2> QED BY <2>2, <2>3
<1>3. K \in S
  <2> HIDE DEF S
  <2> QED BY <1>1, <1>2, SetInduction
<1> QED BY <1>3

-----------------------------------------------------------------------------
(* Concatenating the sequences of a sequence. *)

(* \o is associative. *)
Associative(W) == \A a, b, c \in Seq(W) : (a \o b) \o c = a \o (b \o c)

(* A concatenation is a sequence. *)
LEMMA ConcatType ==
    ASSUME NEW W, NEW s \in Seq(W), NEW t \in Seq(W)
    PROVE  s \o t \in Seq(W)
<1> QED OBVIOUS

(* An element of a concatenation is one of one of its two parts. *)
LEMMA ConcatElement ==
    ASSUME NEW W, NEW s \in Seq(W), NEW t \in Seq(W)
    PROVE  \A i \in DOMAIN (s \o t) :
              \/ \E k \in DOMAIN s : (s \o t)[i] = s[k]
              \/ \E k \in DOMAIN t : (s \o t)[i] = t[k]
<1> SUFFICES ASSUME NEW i \in DOMAIN (s \o t)
             PROVE  \/ \E k \in DOMAIN s : (s \o t)[i] = s[k]
                    \/ \E k \in DOMAIN t : (s \o t)[i] = t[k]
  OBVIOUS
<1>1. i \in 1..(Len(s) + Len(t)) /\ Len(s) \in Nat /\ Len(t) \in Nat
  OBVIOUS
<1>2. CASE i <= Len(s)
  <2>1. i \in DOMAIN s /\ (s \o t)[i] = s[i]
    BY <1>1, <1>2
  <2> QED BY <2>1
<1>3. CASE i > Len(s)
  <2>1. i - Len(s) \in DOMAIN t /\ (s \o t)[i] = t[i - Len(s)]
    BY <1>1, <1>3
  <2> QED BY <2>1
<1> QED BY <1>1, <1>2, <1>3

(* Concatenation is associative, whatever the rows. *)
LEMMA ConcatAssoc == \A W : Associative(W)
<1> SUFFICES ASSUME NEW W, NEW a \in Seq(W), NEW b \in Seq(W), NEW c \in Seq(W)
             PROVE  (a \o b) \o c = a \o (b \o c)
  BY DEF Associative
<1> QED BY ConcatAssociative

(* A row that moves from the head of one sequence to the end of another    *)
(* before it leaves their concatenation as it is.                          *)
Moves(W) ==
    \A a, b \in Seq(W) : b # << >> =>
        /\ Append(a, Head(b)) \in Seq(W) /\ Tail(b) \in Seq(W) /\ Head(b) \in W
        /\ Append(a, Head(b)) \o Tail(b) = a \o b

(* It does for every set of rows. *)
LEMMA MoveHead == \A W : Moves(W)
<1> SUFFICES ASSUME NEW W, NEW a \in Seq(W), NEW b \in Seq(W), b # << >>
             PROVE  /\ Append(a, Head(b)) \in Seq(W) /\ Tail(b) \in Seq(W) /\ Head(b) \in W
                    /\ Append(a, Head(b)) \o Tail(b) = a \o b
  BY DEF Moves
<1>1. Head(b) \in W /\ Tail(b) \in Seq(W) /\ b = <<Head(b)>> \o Tail(b)
  OBVIOUS
<1>2. Append(a, Head(b)) = a \o <<Head(b)>> /\ Append(a, Head(b)) \in Seq(W)
  BY <1>1
<1>3. <<Head(b)>> \in Seq(W)
  BY <1>1
<1>4. (a \o <<Head(b)>>) \o Tail(b) = a \o (<<Head(b)>> \o Tail(b))
  BY <1>1, <1>3, ConcatAssociative
<1> QED BY <1>1, <1>2, <1>4

(* F[i] is the concatenation of the first i sequences of s. *)
Running(F, s, W) ==
    /\ F \in [1..Len(s) -> Seq(W)]
    /\ F[1] = s[1]
    /\ \A i \in 1..Len(s) : i > 1 => F[i] = F[i - 1] \o s[i]

(* FlattenSeq is the last of the concatenations of 1, 2, ... sequences. *)
LEMMA FlattenUnfold ==
    ASSUME NEW W, NEW s \in Seq(Seq(W)), Len(s) > 0
    PROVE  \E F : Running(F, s, W) /\ FlattenSeq(s) = F[Len(s)]
<1> DEFINE K == Len(s)
           V == Seq(W)
           E(f, i) == IF i = 1 THEN s[i] ELSE f[i - 1] \o s[i]
           H == [i \in 1..K |-> [f \in [1..K -> V] |-> E(f, i)]]
<1>1. K \in Nat /\ s[1] \in V /\ \A i \in 1..K : s[i] \in V
  OBVIOUS
<1>2. \A i \in 1..K : i # 1 => i - 1 \in 1..K
  BY <1>1
<1>3. \A i \in 1..K : \A f \in [1..K -> V] : E(f, i) \in V
  <2> SUFFICES ASSUME NEW i \in 1..K, NEW f \in [1..K -> V], i # 1
               PROVE  f[i - 1] \o s[i] \in V
    BY <1>1
  <2>1. f[i - 1] \in V /\ s[i] \in V
    BY <1>1, <1>2
  <2> QED BY <2>1
<1>4. H \in [1..K -> [[1..K -> V] -> V]]
  BY <1>3
<1>5. \A n \in 1..K : \A f, g \in [1..K -> V] :
        (\A m \in 1..K : m < n => f[m] = g[m]) => H[n][f] = H[n][g]
  <2> SUFFICES ASSUME NEW n \in 1..K, NEW f \in [1..K -> V], NEW g \in [1..K -> V],
                      \A m \in 1..K : m < n => f[m] = g[m]
               PROVE  H[n][f] = H[n][g]
    OBVIOUS
  <2>1. n # 1 => f[n - 1] = g[n - 1]
    BY <1>2
  <2> QED BY <2>1
<1>6. PICK f \in [1..K -> V] : \A n \in 1..K : f[n] = H[n][f]
  <2>1. Recursion(K, V, H)
    <3> HIDE DEF H
    <3> QED BY <1>4, <1>5 DEF Recursion
  <2>2. PICK f : Solution(f, K, V, H)
    <3> HIDE DEF H
    <3> QED BY <1>1, <2>1, BoundedRecursion
  <2> HIDE DEF H
  <2> QED BY <2>2 DEF Solution
<1>7. f = [i \in 1..K |-> E(f, i)]
  BY <1>6
<1>8. PICK F : /\ F = [i \in 1..K |-> E(F, i)]
               /\ FlattenSeq(s) = F[K]
  <2> DEFINE Chosen == CHOOSE F : F = [i \in 1..K |-> E(F, i)]
  <2>1. Chosen = [i \in 1..K |-> E(Chosen, i)]
    BY <1>7, Zenon
  <2>2. FlattenSeq(s) = Chosen[K]
    BY <1>1 DEF FlattenSeq
  <2> HIDE DEF Chosen, E
  <2> QED BY <2>1, <2>2
<1>0. \A i \in 1..K : F[i] = E(F, i)
  <2> HIDE DEF E, K
  <2> QED BY <1>8
<1>9. F \in [1..K -> V]
  <2> DEFINE S == {k \in Nat : k \in 1..K => F[k] \in V}
  <2>1. \A k \in Nat : k \in S => k + 1 \in S
    <3> SUFFICES ASSUME NEW k \in Nat, k \in 1..K => F[k] \in V, k + 1 \in 1..K
                 PROVE  F[k + 1] \in V
      OBVIOUS
    <3>0. F[k + 1] = E(F, k + 1)
      BY <1>0
    <3>1. CASE k = 0
      BY <1>1, <3>0, <3>1
    <3>2. CASE k # 0
      <4>1. k \in 1..K /\ F[k] \in V
        BY <3>2
      <4>2. k + 1 # 1 /\ (k + 1) - 1 = k
        BY <3>2
      <4>3. F[k + 1] = F[k] \o s[k + 1]
        <5>1. F[(k + 1) - 1] = F[k]
          BY <4>2
        <5>2. F[k + 1] = F[(k + 1) - 1] \o s[k + 1]
          BY <3>0, <4>2, Zenon
        <5> QED BY <5>1, <5>2, Zenon
      <4> QED BY <1>1, <4>1, <4>3
    <3> QED BY <3>1, <3>2
  <2>2. Nat \subseteq S
    <3> HIDE DEF S
    <3>1. 0 \in S
      BY DEF S
    <3> QED BY <2>1, <3>1, SetInduction
  <2>3. \A k \in 1..K : F[k] \in V
    BY <2>2
  <2> QED BY <1>8, <2>3
<1> QED
  <2>1. F[1] = s[1] /\ \A i \in 1..K : i > 1 => F[i] = F[i - 1] \o s[i]
    <3>1. 1 \in 1..K /\ \A i \in 1..K : i > 1 => i # 1
      BY <1>1
    <3> QED BY <1>0, <3>1, Zenon
  <2> QED BY <1>8, <1>9, <2>1 DEF Running

(* The concatenation of sequences is a sequence. *)
LEMMA FlattenType ==
    ASSUME NEW W, NEW s \in Seq(Seq(W))
    PROVE  FlattenSeq(s) \in Seq(W)
<1>1. CASE Len(s) = 0
  <2>1. s = << >>
    BY <1>1, EmptySeq
  <2> QED BY <1>1, <2>1 DEF FlattenSeq
<1>2. CASE Len(s) > 0
  <2>1. PICK F \in [1..Len(s) -> Seq(W)] : FlattenSeq(s) = F[Len(s)]
    BY <1>2, FlattenUnfold DEF Running
  <2>2. Len(s) \in 1..Len(s)
    BY <1>2
  <2> QED BY <2>1, <2>2
<1> QED BY <1>1, <1>2

(* One more sequence at the end goes to the end of the concatenation. *)
LEMMA FlattenAppend ==
    ASSUME NEW W, NEW s \in Seq(Seq(W)), NEW x \in Seq(W)
    PROVE  FlattenSeq(Append(s, x)) = FlattenSeq(s) \o x
<1> DEFINE t == Append(s, x)
<1>1. /\ t \in Seq(Seq(W)) /\ Len(t) = Len(s) + 1 /\ t[Len(t)] = x
      /\ \A i \in 1..Len(s) : t[i] = s[i]
  OBVIOUS
<1>2. PICK G : Running(G, t, W) /\ FlattenSeq(t) = G[Len(t)]
  <2> HIDE DEF t
  <2>1. Len(t) > 0
    BY <1>1
  <2> QED BY <1>1, <2>1, FlattenUnfold
<1> HIDE DEF t
<1>3. CASE Len(s) = 0
  <2>1. s = << >>
    BY <1>3, EmptySeq
  <2>2. FlattenSeq(s) = << >>
    BY <1>3, <2>1 DEF FlattenSeq
  <2>3. FlattenSeq(t) = x
    BY <1>1, <1>2, <1>3 DEF Running
  <2>4. << >> \o x = x
    OBVIOUS
  <2> QED BY <2>2, <2>3, <2>4 DEF t
<1>4. CASE Len(s) > 0
  <2>1. PICK F : Running(F, s, W) /\ FlattenSeq(s) = F[Len(s)]
    BY <1>4, FlattenUnfold
  <2>2. \A i \in 1..Len(s) : F[i] = G[i]
    <3> DEFINE Same(i) == i \in 1..Len(s) => F[i] = G[i]
               S == {i \in Nat : Same(i)}
    <3>1. ASSUME NEW i \in Nat, Same(i), i + 1 \in 1..Len(s)
          PROVE  F[i + 1] = G[i + 1]
      <4>1. CASE i = 0
        <5>1. F[1] = G[1]
          BY <1>1, <1>2, <1>4, <2>1 DEF Running
        <5> QED BY <4>1, <5>1
      <4>2. CASE i # 0
        <5>1. F[i] = G[i]
          BY <3>1, <4>2
        <5>2. F[i + 1] = F[i] \o s[i + 1]
          <6>1. i + 1 > 1 /\ (i + 1) - 1 = i
            BY <4>2
          <6>2. F[i + 1] = F[(i + 1) - 1] \o s[i + 1]
            BY <2>1, <3>1, <6>1, Zenon DEF Running
          <6> QED BY <6>1, <6>2
        <5>3. G[i + 1] = G[i] \o t[i + 1]
          <6>1. i + 1 > 1 /\ (i + 1) - 1 = i /\ i + 1 \in 1..Len(t)
            BY <1>1, <3>1, <4>2
          <6>2. G[i + 1] = G[(i + 1) - 1] \o t[i + 1]
            BY <1>2, <6>1, Zenon DEF Running
          <6> QED BY <6>1, <6>2
        <5> QED BY <1>1, <3>1, <5>1, <5>2, <5>3 DEF Running
      <4> QED BY <4>1, <4>2
    <3>2. Nat \subseteq S
      <4>1. 0 \in S
        OBVIOUS
      <4>2. \A i \in Nat : Same(i) => Same(i + 1)
        BY <3>1
      <4>3. \A i \in Nat : i \in S => i + 1 \in S
        <5> HIDE DEF Same
        <5> QED BY <4>2
      <4> HIDE DEF S
      <4> QED BY <4>1, <4>3, SetInduction
    <3> QED BY <3>2
  <2>3. G[Len(t)] = G[Len(s)] \o x
    <3>1. Len(t) > 1 /\ Len(t) - 1 = Len(s) /\ Len(t) \in 1..Len(t)
      BY <1>1, <1>4
    <3>2. G[Len(t)] = G[Len(t) - 1] \o t[Len(t)]
      BY <1>2, <3>1, Zenon DEF Running
    <3> QED BY <1>1, <3>1, <3>2
  <2>4. F[Len(s)] = G[Len(s)]
    <3>1. Len(s) \in 1..Len(s)
      BY <1>4
    <3> QED BY <2>2, <3>1, Zenon
  <2>5. FlattenSeq(t) = FlattenSeq(s) \o x
    BY <1>2, <2>1, <2>3, <2>4
  <2> QED BY <2>5 DEF t
<1> QED BY <1>3, <1>4

(* Concatenating in two parts. *)
LEMMA FlattenConcat ==
    ASSUME NEW W, NEW s \in Seq(Seq(W)), NEW t \in Seq(Seq(W))
    PROVE  FlattenSeq(s \o t) = FlattenSeq(s) \o FlattenSeq(t)
<1> DEFINE Splits(u) == FlattenSeq(s \o u) = FlattenSeq(s) \o FlattenSeq(u)
           S == {n \in Nat : \A u \in Seq(Seq(W)) : Len(u) = n => Splits(u)}
<1>1. 0 \in S
  <2> SUFFICES ASSUME NEW u \in Seq(Seq(W)), Len(u) = 0 PROVE Splits(u)
    OBVIOUS
  <2>1. u = << >>
    BY EmptySeq
  <2>2. s \o u = s /\ FlattenSeq(u) = << >>
    BY <2>1 DEF FlattenSeq
  <2>3. FlattenSeq(s) \o << >> = FlattenSeq(s)
    BY FlattenType, ConcatEmptySeq
  <2> QED BY <2>2, <2>3
<1>2. ASSUME NEW n \in Nat, n \in S PROVE n + 1 \in S
  <2> SUFFICES ASSUME NEW u \in Seq(Seq(W)), Len(u) = n + 1 PROVE Splits(u)
    OBVIOUS
  <2>1. PICK v \in Seq(Seq(W)), x \in Seq(W) : u = Append(v, x)
    <3>1. u # << >>
      OBVIOUS
    <3> QED BY <3>1, SequenceEmptyOrAppend
  <2>2. Len(v) = n
    BY <2>1
  <2>3. Splits(v)
    BY <1>2, <2>2
  <2>4. s \o u = Append(s \o v, x)
    BY <2>1
  <2>5. FlattenSeq(s \o u) = FlattenSeq(s \o v) \o x
    <3>1. s \o v \in Seq(Seq(W))
      OBVIOUS
    <3> QED BY <2>4, <3>1, FlattenAppend
  <2>6. FlattenSeq(u) = FlattenSeq(v) \o x
    BY <2>1, FlattenAppend
  <2>7. /\ FlattenSeq(s) \in Seq(W) /\ FlattenSeq(v) \in Seq(W)
        /\ (FlattenSeq(s) \o FlattenSeq(v)) \o x = FlattenSeq(s) \o (FlattenSeq(v) \o x)
    <3>1. FlattenSeq(s) \in Seq(W) /\ FlattenSeq(v) \in Seq(W)
      BY FlattenType
    <3>2. Associative(W)
      BY ConcatAssoc
    <3>3. \A a, b, c \in Seq(W) : (a \o b) \o c = a \o (b \o c)
      BY <3>2 DEF Associative
    <3> QED BY <3>1, <3>3
  <2> QED BY <2>3, <2>5, <2>6, <2>7
<1>3. Nat \subseteq S
  <2> HIDE DEF S
  <2> QED BY <1>1, <1>2, SetInduction
<1>4. Len(t) \in Nat
  OBVIOUS
<1> QED BY <1>3, <1>4

-----------------------------------------------------------------------------
(* Prefixes. *)

(* A prefix is what something can be added to. *)
LEMMA PrefixIs ==
    ASSUME NEW W, NEW s \in Seq(W), NEW t \in Seq(W)
    PROVE  IsPrefix(s, t) <=> \E u \in Seq(W) : t = s \o u
<1>1. ASSUME IsPrefix(s, t) PROVE \E u \in Seq(W) : t = s \o u
  <2> DEFINE u == SubSeq(t, Len(s) + 1, Len(t))
  <2>1. u \in Seq(W) /\ Len(s) <= Len(t)
    BY <1>1 DEF IsPrefix
  <2>2. t = s \o u
    <3>1. \A i \in 1..Len(s) : t[i] = s[i]
      <4>1. \A i \in 1..Len(s) : SubSeq(s, 1, Len(s))[i] = s[i] /\ SubSeq(t, 1, Len(s))[i] = t[i]
        BY <2>1
      <4> QED BY <1>1, <4>1 DEF IsPrefix
    <3> QED BY <2>1, <3>1
  <2> QED BY <2>1, <2>2
<1>2. ASSUME NEW u \in Seq(W), t = s \o u PROVE IsPrefix(s, t)
  <2>1. Len(s) <= Len(t) /\ \A i \in 1..Len(s) : t[i] = s[i]
    BY <1>2
  <2>2. SubSeq(s, 1, Len(s)) = SubSeq(t, 1, Len(s))
    BY <2>1
  <2> QED BY <2>1, <2>2 DEF IsPrefix
<1> QED BY <1>1, <1>2

(* A sequence is a prefix of itself. *)
LEMMA PrefixSame ==
    ASSUME NEW W, NEW s \in Seq(W)
    PROVE  IsPrefix(s, s)
<1>1. s = s \o << >> /\ << >> \in Seq(W)
  OBVIOUS
<1> QED BY <1>1, PrefixIs

(* A prefix of a prefix is a prefix. *)
LEMMA PrefixTrans ==
    ASSUME NEW W, NEW s \in Seq(W), NEW t \in Seq(W), NEW u \in Seq(W),
           IsPrefix(s, t), IsPrefix(t, u)
    PROVE  IsPrefix(s, u)
<1>1. PICK x \in Seq(W) : t = s \o x
  BY PrefixIs
<1>2. PICK y \in Seq(W) : u = t \o y
  BY PrefixIs
<1>3. u = s \o (x \o y) /\ x \o y \in Seq(W)
  BY <1>1, <1>2
<1> QED BY <1>3, PrefixIs

(* The concatenation of a prefix is a prefix of the concatenation. *)
LEMMA FlattenPrefix ==
    ASSUME NEW W, NEW s \in Seq(Seq(W)), NEW t \in Seq(Seq(W)), IsPrefix(s, t)
    PROVE  IsPrefix(FlattenSeq(s), FlattenSeq(t))
<1>1. PICK u \in Seq(Seq(W)) : t = s \o u
  BY PrefixIs
<1>2. FlattenSeq(t) = FlattenSeq(s) \o FlattenSeq(u)
  BY <1>1, FlattenConcat
<1>3. FlattenSeq(s) \in Seq(W) /\ FlattenSeq(t) \in Seq(W) /\ FlattenSeq(u) \in Seq(W)
  BY FlattenType
<1> QED BY <1>2, <1>3, PrefixIs

=============================================================================
