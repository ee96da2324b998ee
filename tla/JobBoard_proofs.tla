--------------------------- MODULE JobBoard_proofs ---------------------------
(***************************************************************************)
(* The service implements the board: a save that no other one overtook     *)
(* replaces the graph of its job by the picture that was sent, and no      *)
(* request touches the graph of another job; and what a job shows is the   *)
(* same after it was loaded and saved again, up to the order of its input  *)
(* ports.  For any users, scenarios, palettes and bounds.                  *)
(***************************************************************************)
EXTENDS JobService_proofs

-----------------------------------------------------------------------------
(* The elements of a sequence that belong to a set.                          *)

(* What is picked when a sequence grows by one element. *)
LEMMA PickedAppend ==
    ASSUME NEW W, NEW s \in Seq(W), NEW x \in W, NEW P, P \subseteq DOMAIN s
    PROVE  /\ Picked(Append(s, x), P) = Picked(s, P)
           /\ Picked(Append(s, x), P \cup {Len(s) + 1}) = Append(Picked(s, P), x)
<1> DEFINE n == Len(s)
           t == Append(s, x)
           Q == P \cup {n + 1}
           K == Cardinality(P)
<1>1. /\ n \in Nat /\ DOMAIN s = 1..n /\ DOMAIN t = 1..(n + 1)
      /\ t[n + 1] = x /\ \A i \in 1..n : t[i] = s[i]
  OBVIOUS
<1>2. P \subseteq Int /\ IsFiniteSet(P) /\ n + 1 \notin P /\ Q \subseteq Int
  <2>1. IsFiniteSet(1..n)
    BY <1>1, FS_Interval
  <2> HIDE DEF n
  <2> QED BY <1>1, <2>1, FS_Subset
<1>3. K \in Nat /\ IsFiniteSet(Q) /\ Cardinality(Q) = K + 1
  <2> HIDE DEF n
  <2> QED BY <1>2, FS_CardinalityType, FS_AddElement
<1>4. Enumerates(P) /\ Ranked(P) /\ Ranked(Q)
  <2> HIDE DEF Q
  <2> QED BY <1>2, <1>3, NthEnumerates
<1>5. ASSUME NEW k \in 1..K PROVE Nth(Q, k) = Nth(P, k) /\ Nth(P, k) \in P
  <2>1. PICK m0 : m0 = Nth(P, k)
    OBVIOUS
  <2>2. m0 \in P /\ Rank(P, m0) = k
    BY <1>4, <2>1 DEF Enumerates, Ranked
  <2>3. {m \in Q : m <= m0} = {m \in P : m <= m0}
    <3>1. m0 \in 1..n
      BY <1>1, <2>2
    <3>2. ~ (n + 1 <= m0)
      <4> HIDE DEF n
      <4> QED BY <1>1, <3>1
    <3> HIDE DEF n
    <3> QED BY <3>2
  <2>4. Rank(Q, m0) = k
    BY <2>2, <2>3 DEF Rank
  <2>5. m0 \in Q
    BY <2>2
  <2>6. Nth(Q, k) = m0
    <3> HIDE DEF Q
    <3> QED BY <1>4, <2>4, <2>5 DEF Ranked
  <2> QED BY <2>1, <2>2, <2>6
<1>6. Nth(Q, K + 1) = n + 1
  <2>1. {m \in Q : m <= n + 1} = Q
    <3>1. \A m \in P : m <= n + 1
      <4> HIDE DEF n
      <4> QED BY <1>1
    <3> HIDE DEF n
    <3> QED BY <1>1, <3>1
  <2>2. Rank(Q, n + 1) = K + 1
    BY <1>3, <2>1 DEF Rank
  <2>3. n + 1 \in Q
    OBVIOUS
  <2> HIDE DEF Q
  <2> QED BY <1>4, <2>2, <2>3 DEF Ranked
<1>7. \A k \in 1..K : t[Nth(P, k)] = s[Nth(P, k)]
  <2> HIDE DEF n, K, t
  <2> QED BY <1>1, <1>5
<1>8. Picked(t, P) = Picked(s, P)
  <2> HIDE DEF t
  <2> QED BY <1>7 DEF Picked
<1>9. Picked(s, P) \in Seq(W) /\ Len(Picked(s, P)) = K
  BY PickedIs
<1>10. Picked(t, Q) = Append(Picked(s, P), x)
  <2> DEFINE a == Picked(t, Q)
             b == Append(Picked(s, P), x)
  <2>1. DOMAIN a = 1..(K + 1) /\ \A k \in 1..(K + 1) : a[k] = t[Nth(Q, k)]
    <3> HIDE DEF Q, t, K
    <3> QED BY <1>3 DEF Picked
  <2>2. /\ DOMAIN b = 1..(K + 1) /\ b[K + 1] = x /\ b = [k \in DOMAIN b |-> b[k]]
        /\ \A k \in 1..K : b[k] = Picked(s, P)[k]
    <3>1. PICK p \in Seq(W) : p = Picked(s, P) /\ Len(p) = K
      BY <1>9
    <3>2. /\ DOMAIN Append(p, x) = 1..(K + 1) /\ Append(p, x)[K + 1] = x
          /\ Append(p, x) = [k \in DOMAIN Append(p, x) |-> Append(p, x)[k]]
          /\ \A k \in 1..K : Append(p, x)[k] = p[k]
      <4>1. PICK v : v = Append(p, x)
        OBVIOUS
      <4>2. v \in Seq(W) /\ Len(v) = Len(p) + 1 /\ v[Len(p) + 1] = x
        BY <4>1
      <4>3. \A k \in 1..Len(p) : v[k] = p[k]
        BY <4>1
      <4>4. DOMAIN v = 1..Len(v) /\ v = [k \in DOMAIN v |-> v[k]]
        BY <4>2
      <4> HIDE DEF K
      <4> QED BY <3>1, <4>1, <4>2, <4>3, <4>4
    <3> QED BY <3>1, <3>2
  <2>3. \A k \in 1..K : Picked(s, P)[k] = s[Nth(P, k)]
    BY DEF Picked
  <2>4. \A k \in 1..K : a[k] = b[k]
    <3> HIDE DEF Q, t, K, a, b
    <3>1. \A k \in 1..K : k \in 1..(K + 1)
      BY <1>3
    <3> QED BY <1>5, <1>7, <2>1, <2>2, <2>3, <3>1
  <2>5. a[K + 1] = b[K + 1]
    <3>1. K + 1 \in 1..(K + 1)
      <4> HIDE DEF K
      <4> QED BY <1>3
    <3> HIDE DEF Q, t, K, a, b
    <3> QED BY <1>1, <1>6, <2>1, <2>2, <3>1
  <2>6. \A k \in 1..(K + 1) : k \in 1..K \/ k = K + 1
    <3> HIDE DEF K
    <3> QED BY <1>3
  <2>7. a = [k \in 1..(K + 1) |-> a[k]]
    <3> HIDE DEF Q, t, K
    <3> QED BY <1>3 DEF Picked
  <2>8. a = b
    <3> HIDE DEF a, b, K
    <3> QED BY <2>1, <2>2, <2>4, <2>5, <2>6, <2>7
  <2> QED BY <2>8
<1> HIDE DEF Q, t, n
<1> QED BY <1>8, <1>10 DEF Q, t, n

Sel(s, E) == Picked(s, {i \in DOMAIN s : s[i] \in E})

(* One element more. *)
LEMMA SelAppend ==
    ASSUME NEW W, NEW s \in Seq(W), NEW x \in W, NEW E
    PROVE  Sel(Append(s, x), E) = IF x \in E THEN Append(Sel(s, E), x) ELSE Sel(s, E)
<1> DEFINE P == {i \in DOMAIN s : s[i] \in E}
           t == Append(s, x)
           Q == {i \in DOMAIN t : t[i] \in E}
           n == Len(s)
<1>1. /\ n \in Nat /\ DOMAIN s = 1..n /\ DOMAIN t = 1..(n + 1)
      /\ t[n + 1] = x /\ \A i \in 1..n : t[i] = s[i]
  OBVIOUS
<1>2. P \subseteq DOMAIN s
  OBVIOUS
<1>3. \A i \in 1..(n + 1) : i \in 1..n \/ i = n + 1
  <2> HIDE DEF n
  <2> QED BY <1>1
<1>4. \A i \in 1..n : i \in 1..(n + 1)
  <2> HIDE DEF n
  <2> QED BY <1>1
<1>5. n + 1 \in 1..(n + 1)
  <2> HIDE DEF n
  <2> QED BY <1>1
<1>6. CASE x \in E
  <2>1. Q = P \cup {n + 1}
    <3> HIDE DEF n, t
    <3> QED BY <1>1, <1>3, <1>4, <1>5, <1>6
  <2>2. Picked(t, P \cup {n + 1}) = Append(Picked(s, P), x)
    <3> HIDE DEF P
    <3> QED BY <1>2, PickedAppend
  <2>3. Picked(t, Q) = Append(Picked(s, P), x)
    BY <2>1, <2>2
  <2> QED BY <1>6, <2>3 DEF Sel
<1>7. CASE x \notin E
  <2>1. Q = P
    <3> HIDE DEF n, t
    <3> QED BY <1>1, <1>3, <1>4, <1>5, <1>7
  <2>2. Picked(t, P) = Picked(s, P)
    <3> HIDE DEF P
    <3> QED BY <1>2, PickedAppend
  <2>3. Picked(t, Q) = Picked(s, P)
    BY <2>1, <2>2
  <2> QED BY <1>7, <2>3 DEF Sel
<1> QED BY <1>6, <1>7

(* What is selected is a sequence of the same kind. *)
LEMMA SelType ==
    ASSUME NEW W, NEW s \in Seq(W), NEW E
    PROVE  Sel(s, E) \in Seq(W)
<1>1. {i \in DOMAIN s : s[i] \in E} \subseteq DOMAIN s
  OBVIOUS
<1> QED BY <1>1, PickedIs DEF Sel

(* Nothing is selected. *)
LEMMA SelNone ==
    ASSUME NEW s, NEW E, \A i \in DOMAIN s : s[i] \notin E
    PROVE  Sel(s, E) = <<>>
<1>1. {i \in DOMAIN s : s[i] \in E} = {}
  OBVIOUS
<1>2. Cardinality({}) = 0
  BY FS_EmptySet
<1>3. Picked(s, {}) = <<>>
  <2>1. 1..0 = {}
    OBVIOUS
  <2>2. Picked(s, {}) = [k \in {} |-> s[Nth({}, k)]]
    BY <1>2, <2>1 DEF Picked
  <2> QED BY <2>2
<1> QED BY <1>1, <1>3 DEF Sel

(* A sequence is empty, or another one and an element. *)
LEMMA SeqCases ==
    ASSUME NEW W, NEW s \in Seq(W), NEW n \in Nat
    PROVE  /\ Len(s) = 0 => s = <<>>
           /\ Len(s) = n + 1 => \E r \in Seq(W), x \in W : s = Append(r, x) /\ Len(r) = n
<1>1. Len(s) = 0 => s = <<>>
  BY EmptySeq
<1>2. ASSUME Len(s) = n + 1
      PROVE  \E r \in Seq(W), x \in W : s = Append(r, x) /\ Len(r) = n
  <2> DEFINE r == SubSeq(s, 1, n)
             x == s[n + 1]
  <2>1. r \in Seq(W) /\ x \in W /\ Len(r) = n
    BY <1>2
  <2>2. s = Append(r, x)
    BY <1>2
  <2> HIDE DEF r, x
  <2> QED BY <2>1, <2>2
<1> QED BY <1>1, <1>2

(* The elements of two sequences one after the other. *)
LEMMA SelConcat ==
    ASSUME NEW W, NEW s \in Seq(W), NEW t \in Seq(W), NEW E
    PROVE  Sel(s \o t, E) = Sel(s, E) \o Sel(t, E)
<1> DEFINE Splits(u) == Sel(s \o u, E) = Sel(s, E) \o Sel(u, E)
           S == {n \in Nat : \A u \in Seq(W) : Len(u) = n => Splits(u)}
<1>0. Sel(s, E) \in Seq(W)
  BY SelType
<1>4. \A w \in Seq(W), y \in W :
         Sel(Append(w, y), E) = IF y \in E THEN Append(Sel(w, E), y) ELSE Sel(w, E)
  BY SelAppend
<1>1. 0 \in S
  <2> SUFFICES ASSUME NEW u \in Seq(W), Len(u) = 0 PROVE Splits(u)
    OBVIOUS
  <2>1. u = <<>>
    BY EmptySeq
  <2>2. s \o <<>> = s /\ Sel(s, E) \o <<>> = Sel(s, E)
    BY <1>0
  <2>3. Sel(<<>>, E) = <<>>
    BY SelNone
  <2> QED BY <2>1, <2>2, <2>3
<1>2. ASSUME NEW n \in Nat, n \in S PROVE n + 1 \in S
  <2> SUFFICES ASSUME NEW u \in Seq(W), Len(u) = n + 1 PROVE Splits(u)
    OBVIOUS
  <2>1. PICK r \in Seq(W), x \in W : u = Append(r, x) /\ Len(r) = n
    BY SeqCases
  <2>2. Splits(r)
    BY <1>2, <2>1
  <2>3. s \o u = Append(s \o r, x) /\ s \o r \in Seq(W)
    BY <2>1
  <2>4. Sel(r, E) \in Seq(W)
    BY SelType
  <2>7. PICK w \in Seq(W) : w = s \o r
    BY <2>3
  <2>5. CASE x \in E
    <3>1. Sel(u, E) = Append(Sel(r, E), x)
      BY <2>1, <2>5, SelAppend
    <3>3. Sel(Append(w, x), E) = Append(Sel(w, E), x)
      BY <1>4, <2>1, <2>5
    <3>2. Sel(s, E) \o Append(Sel(r, E), x) = Append(Sel(s, E) \o Sel(r, E), x)
      BY <1>0, <2>1, <2>4
    <3> QED BY <2>2, <2>3, <2>7, <3>1, <3>2, <3>3
  <2>6. CASE x \notin E
    <3>1. Sel(u, E) = Sel(r, E)
      BY <2>1, <2>6, SelAppend
    <3>2. Sel(Append(w, x), E) = Sel(w, E)
      BY <1>4, <2>1, <2>6
    <3> QED BY <2>2, <2>3, <2>7, <3>1, <3>2
  <2> QED BY <2>5, <2>6
<1>3. Nat \subseteq S
  <2> HIDE DEF S
  <2> QED BY <1>1, <1>2, SetInduction
<1>5. Len(t) \in Nat
  OBVIOUS
<1>6. Splits(t)
  <2> HIDE DEF Splits
  <2> QED BY <1>3, <1>5
<1> QED BY <1>6

Splitting(W) == \A a, b \in Seq(W) : \A E : Sel(a \o b, E) = Sel(a, E) \o Sel(b, E)

(* The same, to be cited as a whole. *)
LEMMA SelSplits == \A W : Splitting(W)
<1> SUFFICES ASSUME NEW W, NEW a \in Seq(W), NEW b \in Seq(W), NEW E
             PROVE  Sel(a \o b, E) = Sel(a, E) \o Sel(b, E)
  BY DEF Splitting
<1> QED BY SelConcat

(* Selecting twice. *)
LEMMA SelSel ==
    ASSUME NEW W, NEW s \in Seq(W), NEW E, NEW F, \A x \in W : x \in F => x \in E
    PROVE  Sel(Sel(s, E), F) = Sel(s, F)
<1> DEFINE Twice(u) == Sel(Sel(u, E), F) = Sel(u, F)
           S == {n \in Nat : \A u \in Seq(W) : Len(u) = n => Twice(u)}
<1>1. 0 \in S
  <2> SUFFICES ASSUME NEW u \in Seq(W), Len(u) = 0 PROVE Twice(u)
    OBVIOUS
  <2>1. u = <<>>
    BY EmptySeq
  <2>2. Sel(<<>>, E) = <<>> /\ Sel(<<>>, F) = <<>>
    BY SelNone
  <2> QED BY <2>1, <2>2
<1>2. ASSUME NEW n \in Nat, n \in S PROVE n + 1 \in S
  <2> SUFFICES ASSUME NEW u \in Seq(W), Len(u) = n + 1 PROVE Twice(u)
    OBVIOUS
  <2>1. PICK r \in Seq(W), x \in W : u = Append(r, x) /\ Len(r) = n
    BY SeqCases
  <2>2. Twice(r)
    BY <1>2, <2>1
  <2>3. Sel(r, E) \in Seq(W)
    BY SelType
  <2>4. CASE x \in F
    <3>1. Sel(u, E) = Append(Sel(r, E), x) /\ Sel(u, F) = Append(Sel(r, F), x)
      BY <2>1, <2>4, SelAppend
    <3>2. Sel(Append(Sel(r, E), x), F) = Append(Sel(Sel(r, E), F), x)
      BY <2>1, <2>3, <2>4, SelAppend
    <3> QED BY <2>2, <3>1, <3>2
  <2>5. CASE x \notin F /\ x \in E
    <3>1. Sel(u, E) = Append(Sel(r, E), x) /\ Sel(u, F) = Sel(r, F)
      BY <2>1, <2>5, SelAppend
    <3>2. Sel(Append(Sel(r, E), x), F) = Sel(Sel(r, E), F)
      BY <2>1, <2>3, <2>5, SelAppend
    <3> QED BY <2>2, <3>1, <3>2
  <2>6. CASE x \notin E
    <3>1. Sel(u, E) = Sel(r, E) /\ Sel(u, F) = Sel(r, F)
      BY <2>1, <2>6, SelAppend
    <3> QED BY <2>2, <3>1
  <2> QED BY <2>4, <2>5, <2>6
<1>3. Nat \subseteq S
  <2> HIDE DEF S
  <2> QED BY <1>1, <1>2, SetInduction
<1>4. Len(s) \in Nat
  OBVIOUS
<1>5. Twice(s)
  <2> HIDE DEF Twice
  <2> QED BY <1>3, <1>4
<1> QED BY <1>5

(* All is selected. *)
LEMMA SelAll ==
    ASSUME NEW W, NEW s \in Seq(W), NEW E, \A i \in DOMAIN s : s[i] \in E
    PROVE  Sel(s, E) = s
<1> DEFINE Full(u) == (\A i \in DOMAIN u : u[i] \in E) => Sel(u, E) = u
           S == {n \in Nat : \A u \in Seq(W) : Len(u) = n => Full(u)}
<1>1. 0 \in S
  <2> SUFFICES ASSUME NEW u \in Seq(W), Len(u) = 0 PROVE Full(u)
    OBVIOUS
  <2>1. u = <<>>
    BY EmptySeq
  <2> QED BY <2>1, SelNone
<1>2. ASSUME NEW n \in Nat, n \in S PROVE n + 1 \in S
  <2> SUFFICES ASSUME NEW u \in Seq(W), Len(u) = n + 1, \A i \in DOMAIN u : u[i] \in E
               PROVE  Sel(u, E) = u
    OBVIOUS
  <2>1. PICK r \in Seq(W), x \in W : u = Append(r, x) /\ Len(r) = n
    BY SeqCases
  <2>2. \A i \in DOMAIN r : i \in DOMAIN u /\ u[i] = r[i]
    BY <2>1
  <2>3. n + 1 \in DOMAIN u /\ u[n + 1] = x
    BY <2>1
  <2>4. Full(r)
    BY <1>2, <2>1
  <2>5. Sel(r, E) = r /\ x \in E
    BY <2>2, <2>3, <2>4
  <2> QED BY <2>1, <2>5, SelAppend
<1>3. Nat \subseteq S
  <2> HIDE DEF S
  <2> QED BY <1>1, <1>2, SetInduction
<1>4. Len(s) \in Nat
  OBVIOUS
<1>5. Full(s)
  <2> HIDE DEF Full
  <2> QED BY <1>3, <1>4
<1> QED BY <1>5

(* Nothing of any part is selected. *)
LEMMA SelFlattenNone ==
    ASSUME NEW W, NEW s \in Seq(Seq(W)), NEW E, \A i \in DOMAIN s : Sel(s[i], E) = <<>>
    PROVE  Sel(FlattenSeq(s), E) = <<>>
<1> DEFINE None(u) == (\A i \in DOMAIN u : Sel(u[i], E) = <<>>) => Sel(FlattenSeq(u), E) = <<>>
           S == {n \in Nat : \A u \in Seq(Seq(W)) : Len(u) = n => None(u)}
<1>1. 0 \in S
  <2> SUFFICES ASSUME NEW u \in Seq(Seq(W)), Len(u) = 0 PROVE None(u)
    OBVIOUS
  <2>1. u = <<>>
    BY EmptySeq
  <2>2. FlattenSeq(u) = <<>>
    BY <2>1 DEF FlattenSeq
  <2> QED BY <2>2, SelNone
<1>2. ASSUME NEW n \in Nat, n \in S PROVE n + 1 \in S
  <2> SUFFICES ASSUME NEW u \in Seq(Seq(W)), Len(u) = n + 1,
                      \A i \in DOMAIN u : Sel(u[i], E) = <<>>
               PROVE  Sel(FlattenSeq(u), E) = <<>>
    OBVIOUS
  <2>1. PICK r \in Seq(Seq(W)), x \in Seq(W) : u = Append(r, x) /\ Len(r) = n
    BY SeqCases
  <2>2. \A i \in DOMAIN r : i \in DOMAIN u /\ u[i] = r[i]
    BY <2>1
  <2>3. n + 1 \in DOMAIN u /\ u[n + 1] = x
    BY <2>1
  <2>4. Sel(FlattenSeq(r), E) = <<>> /\ Sel(x, E) = <<>>
    <3>1. None(r)
      BY <1>2, <2>1
    <3> QED BY <2>2, <2>3, <3>1
  <2>5. FlattenSeq(u) = FlattenSeq(r) \o x /\ FlattenSeq(r) \in Seq(W)
    BY <2>1, FlattenAppend, FlattenType
  <2>6. Sel(FlattenSeq(u), E) = Sel(FlattenSeq(r), E) \o Sel(x, E)
    BY <2>1, <2>5, SelConcat
  <2> QED BY <2>4, <2>6
<1>3. Nat \subseteq S
  <2> HIDE DEF S
  <2> QED BY <1>1, <1>2, SetInduction
<1>4. Len(s) \in Nat
  OBVIOUS
<1>5. None(s)
  <2> HIDE DEF None
  <2> QED BY <1>3, <1>4
<1> QED BY <1>5

(* What is selected comes from one part. *)
LEMMA SelFlattenOne ==
    ASSUME NEW W, NEW s \in Seq(Seq(W)), NEW E, NEW d \in DOMAIN s,
           \A i \in DOMAIN s : i # d => Sel(s[i], E) = <<>>
    PROVE  Sel(FlattenSeq(s), E) = Sel(s[d], E)
<1> DEFINE Only(u, k) == (\A i \in DOMAIN u : i # k => Sel(u[i], E) = <<>>)
                             => Sel(FlattenSeq(u), E) = Sel(u[k], E)
           S == {n \in Nat : \A u \in Seq(Seq(W)) : Len(u) = n => \A k \in DOMAIN u : Only(u, k)}
<1>0. \A a, b \in Seq(W) : Sel(a \o b, E) = Sel(a, E) \o Sel(b, E)
  <2>1. Splitting(W)
    BY SelSplits
  <2> QED BY <2>1 DEF Splitting
<1>1. 0 \in S
  <2> SUFFICES ASSUME NEW u \in Seq(Seq(W)), Len(u) = 0, NEW k \in DOMAIN u PROVE Only(u, k)
    OBVIOUS
  <2> QED OBVIOUS
<1>2. ASSUME NEW n \in Nat, n \in S PROVE n + 1 \in S
  <2> SUFFICES ASSUME NEW u \in Seq(Seq(W)), Len(u) = n + 1, NEW k \in DOMAIN u,
                      \A i \in DOMAIN u : i # k => Sel(u[i], E) = <<>>
               PROVE  Sel(FlattenSeq(u), E) = Sel(u[k], E)
    OBVIOUS
  <2>1. PICK r \in Seq(Seq(W)), x \in Seq(W) : u = Append(r, x) /\ Len(r) = n
    BY SeqCases
  <2>2. \A i \in DOMAIN r : i \in DOMAIN u /\ u[i] = r[i] /\ i # n + 1
    BY <2>1
  <2>3. n + 1 \in DOMAIN u /\ u[n + 1] = x
    BY <2>1
  <2>4. k \in DOMAIN r \/ k = n + 1
    BY <2>1
  <2>5. FlattenSeq(u) = FlattenSeq(r) \o x /\ FlattenSeq(r) \in Seq(W)
    BY <2>1, FlattenAppend, FlattenType
  <2>6. Sel(FlattenSeq(u), E) = Sel(FlattenSeq(r), E) \o Sel(x, E)
    <3>1. PICK f \in Seq(W) : f = FlattenSeq(r)
      BY <2>5
    <3>2. Sel(f \o x, E) = Sel(f, E) \o Sel(x, E)
      BY <1>0, <2>1, <3>1
    <3> QED BY <2>5, <3>1, <3>2
  <2>7. CASE k = n + 1
    <3>1. \A i \in DOMAIN r : Sel(r[i], E) = <<>>
      BY <2>2, <2>7
    <3>2. Sel(FlattenSeq(r), E) = <<>>
      BY <3>1, SelFlattenNone
    <3>3. Sel(x, E) \in Seq(W)
      BY SelType
    <3>4. <<>> \o Sel(x, E) = Sel(x, E)
      BY <3>3
    <3> QED BY <2>3, <2>6, <2>7, <3>2, <3>4
  <2>8. CASE k \in DOMAIN r
    <3>1. Sel(FlattenSeq(r), E) = Sel(r[k], E)
      <4>1. Only(r, k)
        BY <1>2, <2>1, <2>8
      <4>2. \A i \in DOMAIN r : i # k => Sel(r[i], E) = <<>>
        BY <2>2
      <4> QED BY <4>1, <4>2
    <3>2. Sel(x, E) = <<>>
      BY <2>2, <2>3, <2>8
    <3>3. Sel(FlattenSeq(r), E) \in Seq(W)
      BY <2>5, SelType
    <3>4. Sel(FlattenSeq(r), E) \o <<>> = Sel(FlattenSeq(r), E)
      BY <3>3
    <3> QED BY <2>2, <2>6, <2>8, <3>1, <3>2, <3>4
  <2> QED BY <2>4, <2>7, <2>8
<1>3. Nat \subseteq S
  <2> HIDE DEF S
  <2> QED BY <1>1, <1>2, SetInduction
<1>4. Len(s) \in Nat
  OBVIOUS
<1>5. Only(s, d)
  <2> HIDE DEF Only
  <2> QED BY <1>3, <1>4
<1> QED BY <1>5

-----------------------------------------------------------------------------
(* The ports of a node, as selections.                                       *)

OfNode(id, isOut) == {p \in PortType : p.owner = id /\ p.out = isOut}
OfNodes(ids) == {p \in PortType : p.owner \in ids}
NotOf(ids) == {p \in PortType : p.owner \notin ids}

(* The queries on the port rows are selections. *)
LEMMA QueriesSelect ==
    ASSUME NEW rows \in Seq(PortType)
    PROVE  /\ \A id, isOut : PortsOf(rows, id, isOut) = Sel(rows, OfNode(id, isOut))
           /\ \A ids : Picked(rows, {i \in DOMAIN rows : rows[i].owner \in ids}) = Sel(rows, OfNodes(ids))
           /\ \A ids : Picked(rows, {i \in DOMAIN rows : rows[i].owner \notin ids}) = Sel(rows, NotOf(ids))
<1>1. \A i \in DOMAIN rows : rows[i] \in PortType
  OBVIOUS
<1>2. ASSUME NEW id, NEW isOut PROVE PortsOf(rows, id, isOut) = Sel(rows, OfNode(id, isOut))
  <2>1. {i \in DOMAIN rows : rows[i].owner = id /\ rows[i].out = isOut}
            = {i \in DOMAIN rows : rows[i] \in OfNode(id, isOut)}
    BY <1>1 DEF OfNode
  <2> QED BY <2>1 DEF PortsOf, Sel
<1>3. ASSUME NEW ids
      PROVE  Picked(rows, {i \in DOMAIN rows : rows[i].owner \in ids}) = Sel(rows, OfNodes(ids))
  <2>1. {i \in DOMAIN rows : rows[i].owner \in ids} = {i \in DOMAIN rows : rows[i] \in OfNodes(ids)}
    BY <1>1 DEF OfNodes
  <2> QED BY <2>1 DEF Sel
<1>4. ASSUME NEW ids
      PROVE  Picked(rows, {i \in DOMAIN rows : rows[i].owner \notin ids}) = Sel(rows, NotOf(ids))
  <2>1. {i \in DOMAIN rows : rows[i].owner \notin ids} = {i \in DOMAIN rows : rows[i] \in NotOf(ids)}
    BY <1>1 DEF NotOf
  <2> QED BY <2>1 DEF Sel
<1> QED BY <1>2, <1>3, <1>4

\* No row is of this node, rows of the given nodes left aside.
Foreign(rows, ids, id) == \A i \in DOMAIN rows : rows[i].owner \notin ids => rows[i].owner # id

(* Rows of other nodes that go, and rows of other nodes that come, leave the *)
(* ports of a node as they are.                                              *)
LEMMA OthersPorts ==
    ASSUME NEW rows \in Seq(PortType), NEW ids, NEW new \in Seq(PortType), NEW id, id \notin ids,
           Foreign(new, {}, id), NEW isOut
    PROVE  LET kept == Picked(rows, {i \in DOMAIN rows : rows[i].owner \notin ids})
           IN PortsOf(kept \o new, id, isOut) = PortsOf(rows, id, isOut)
<1> DEFINE kept == Picked(rows, {i \in DOMAIN rows : rows[i].owner \notin ids})
           E == OfNode(id, isOut)
<1>1. kept = Sel(rows, NotOf(ids)) /\ kept \in Seq(PortType)
  <2>1. kept = Sel(rows, NotOf(ids))
    BY QueriesSelect
  <2> HIDE DEF kept
  <2> QED BY <2>1, SelType
<1> HIDE DEF kept
<1>2. kept \o new \in Seq(PortType)
  BY <1>1, ConcatType
<1>3. PortsOf(kept \o new, id, isOut) = Sel(kept \o new, E)
  BY <1>2, QueriesSelect
<1>4. Sel(kept \o new, E) = Sel(kept, E) \o Sel(new, E)
  <2>1. kept \in Seq(PortType)
    BY <1>1
  <2> HIDE DEF E
  <2> QED BY <2>1, SelConcat
<1>5. Sel(new, E) = <<>>
  <2>1. \A i \in DOMAIN new : new[i] \notin E
    BY DEF OfNode, Foreign
  <2> HIDE DEF E
  <2> QED BY <2>1, SelNone
<1>6. Sel(kept, E) = Sel(rows, E)
  <2>1. \A p \in PortType : p \in E => p \in NotOf(ids)
    BY DEF OfNode, NotOf
  <2> HIDE DEF E
  <2> QED BY <1>1, <2>1, SelSel
<1>7. Sel(rows, E) \in Seq(PortType)
  BY SelType
<1>8. Sel(rows, E) \o <<>> = Sel(rows, E)
  <2> HIDE DEF E
  <2> QED BY <1>7
<1>9. PortsOf(rows, id, isOut) = Sel(rows, E)
  BY QueriesSelect
<1>10. PortsOf(kept \o new, id, isOut) = PortsOf(rows, id, isOut)
  <2> HIDE DEF E
  <2> QED BY <1>3, <1>4, <1>5, <1>6, <1>8, <1>9
<1> QED BY <1>10 DEF kept

(* The rows of the nodes that stay keep the ports of those nodes. *)
LEMMA StayingPorts ==
    ASSUME NEW rows \in Seq(PortType), NEW ids, NEW id \in ids, NEW isOut
    PROVE  PortsOf(Picked(rows, {i \in DOMAIN rows : rows[i].owner \in ids}), id, isOut)
               = PortsOf(rows, id, isOut)
<1> DEFINE E == OfNode(id, isOut)
           kept == Sel(rows, OfNodes(ids))
<1>1. Picked(rows, {i \in DOMAIN rows : rows[i].owner \in ids}) = kept
  BY QueriesSelect
<1>2. kept \in Seq(PortType)
  BY SelType
<1>3. Sel(kept, E) = Sel(rows, E)
  <2>1. \A p \in PortType : p \in E => p \in OfNodes(ids)
    BY DEF OfNode, OfNodes
  <2> HIDE DEF E
  <2> QED BY <2>1, SelSel
<1>4. PortsOf(kept, id, isOut) = Sel(kept, E) /\ PortsOf(rows, id, isOut) = Sel(rows, E)
  <2> HIDE DEF kept
  <2> QED BY <1>2, QueriesSelect
<1> HIDE DEF kept, E
<1> QED BY <1>1, <1>3, <1>4

-----------------------------------------------------------------------------
(* The invariant the refinement rests on.                                    *)

(* The nodes of a drawing have ids of their own. *)
Distinct(nodes) == \A i, k \in DOMAIN nodes : nodes[i].id = nodes[k].id => i = k

(* A link ends at a node of the drawing, or at one that has a row id. *)
LinksKnown(nodes, links, last) ==
    \A i \in DOMAIN links :
        {links[i].src, links[i].tgt} \subseteq NodeIdsOf(nodes) \cup 1..last.node

PeersKnown(rows, last) == \A i \in DOMAIN rows : rows[i].peer \in 1..last.node

EditorKnown(e, last) ==
    /\ Distinct(e.nodes) /\ LinksKnown(e.nodes, e.links, last)
    /\ \A id \in NodeIdsOf(e.nodes) : id < e.next

CallKnown(c, last) ==
    /\ Distinct(c.drawing.nodes) /\ PeersKnown(c.ports, last)
    /\ c.op \in {"save", "saving"} => LinksKnown(c.drawing.nodes, c.drawing.links, last)

(* A save knows rows of its own job only; as long as no other save overtook it *)
(* it knows them all.                                                          *)
SaveAhead(c) ==
    c.op = "saving" =>
        /\ \A id \in c.seen \cap DOMAIN node : node[id].job = c.job
        /\ ~c.behind => c.seen = NodesOf(c.job)

(* A job that its creator is deleting is there until it is deleted. *)
DeleteAhead(u) ==
    call[u].op \in {"delete", "deleting"} =>
        call[u].job \in DOMAIN job /\ job[call[u].job].creator = u

DrawingsKnown ==
    /\ \A u \in Users : EditorKnown(editor[u], serial)
    /\ \A p \in Callers : CallKnown(call[p], serial)
    /\ PeersKnown(ports, serial)

JobsOwned ==
    /\ \A j \in DOMAIN job : job[j] \in [creator : Users, public : BOOLEAN]
    /\ \A u \in Users : DeleteAhead(u)

SavesAhead == \A u \in Users : SaveAhead(call[u])

BoardInv == TypeInv /\ TablesConsistent /\ DrawingsKnown /\ JobsOwned /\ SavesAhead

-----------------------------------------------------------------------------
(* The ports a save writes for a node.                                       *)

(* A function on the first numbers is a sequence. *)
LEMMA FunctionSeq ==
    ASSUME NEW T, NEW n \in Nat, NEW f \in [1..n -> T]
    PROVE  f \in Seq(T)
<1> QED OBVIOUS

(* What a sequence is. *)
LEMMA SeqIs ==
    ASSUME NEW T, NEW s \in Seq(T)
    PROVE  /\ Len(s) \in Nat /\ DOMAIN s = 1..Len(s) /\ s \in [1..Len(s) -> T]
           /\ \A i \in DOMAIN s : s[i] \in T
<1> QED OBVIOUS

\* Whatever id a port names, its row names a number.
Mapped(idMap) == \A id \in Nat : Resolve(idMap, id) \in Nat

RowsIn(idMap, id, isOut, ends) == [i \in DOMAIN ends |-> PortRow(idMap, id, isOut, ends[i])]

\* They are rows of that node and that side.
RowsRight(idMap, id, isOut, rows) ==
    /\ rows \in Seq(PortType)
    /\ \A i \in DOMAIN rows : rows[i].owner = Resolve(idMap, id) /\ rows[i].out = isOut

(* The rows a save writes for the outputs, and for the inputs, of a node. *)
LEMMA RowsInType ==
    ASSUME NEW idMap, Mapped(idMap), NEW id \in Nat, NEW ends \in Seq(EndType)
    PROVE  /\ RowsRight(idMap, id, TRUE, RowsIn(idMap, id, TRUE, ends))
           /\ RowsRight(idMap, id, FALSE, RowsIn(idMap, id, FALSE, ends))
<1> SUFFICES ASSUME NEW isOut \in BOOLEAN
             PROVE  RowsRight(idMap, id, isOut, RowsIn(idMap, id, isOut, ends))
  OBVIOUS
<1>1. DOMAIN ends = 1..Len(ends) /\ Len(ends) \in Nat /\ \A i \in DOMAIN ends : ends[i] \in EndType
  OBVIOUS
<1>2. \A end \in EndType : /\ PortRow(idMap, id, isOut, end) \in PortType
                           /\ PortRow(idMap, id, isOut, end).owner = Resolve(idMap, id)
                           /\ PortRow(idMap, id, isOut, end).out = isOut
  BY DEF Mapped, PortRow, PortType, EndType
<1>3. RowsIn(idMap, id, isOut, ends) \in [1..Len(ends) -> PortType]
  BY <1>1, <1>2 DEF RowsIn
<1>4. RowsIn(idMap, id, isOut, ends) \in Seq(PortType)
  BY <1>1, <1>3, FunctionSeq
<1>5. \A i \in DOMAIN RowsIn(idMap, id, isOut, ends) :
         /\ RowsIn(idMap, id, isOut, ends)[i].owner = Resolve(idMap, id)
         /\ RowsIn(idMap, id, isOut, ends)[i].out = isOut
  BY <1>1, <1>2 DEF RowsIn
<1> QED BY <1>4, <1>5 DEF RowsRight

(* The ports of each node of a drawing, under its new id, are those the links *)
(* of the drawing give it.                                                    *)
LEMMA PortRowsSplit ==
    ASSUME NEW drawing \in DrawingType, NEW idMap, Mapped(idMap),
           \A i, k \in DOMAIN drawing.nodes :
               Resolve(idMap, drawing.nodes[i].id) = Resolve(idMap, drawing.nodes[k].id) => i = k,
           NEW d \in DOMAIN drawing.nodes
    PROVE  LET id == drawing.nodes[d].id
           IN /\ PortsOf(PortRows(drawing, idMap), Resolve(idMap, id), TRUE)
                     = RowsIn(idMap, id, TRUE, OutputsOf(drawing, id))
              /\ PortsOf(PortRows(drawing, idMap), Resolve(idMap, id), FALSE)
                     = RowsIn(idMap, id, FALSE, InputsOf(drawing, id))
<1> DEFINE nodes == drawing.nodes
           A(id) == RowsIn(idMap, id, TRUE, OutputsOf(drawing, id))
           B(id) == RowsIn(idMap, id, FALSE, InputsOf(drawing, id))
           parts == [i \in DOMAIN nodes |-> A(nodes[i].id) \o B(nodes[i].id)]
           here == Resolve(idMap, nodes[d].id)
<1>1. nodes \in Seq(NodeType) /\ \A i \in DOMAIN nodes : nodes[i].id \in Nat
  <2>1. nodes \in Seq(NodeType)
    BY DEF DrawingType
  <2> HIDE DEF nodes
  <2>2. \A i \in DOMAIN nodes : nodes[i] \in NodeType
    BY <2>1
  <2> QED BY <2>1, <2>2 DEF NodeType
<1>2. ASSUME NEW i \in DOMAIN nodes
      PROVE  LET id == nodes[i].id IN
             /\ A(id) \in Seq(PortType) /\ B(id) \in Seq(PortType)
             /\ \A k \in DOMAIN A(id) : A(id)[k].owner = Resolve(idMap, id) /\ A(id)[k].out = TRUE
             /\ \A k \in DOMAIN B(id) : B(id)[k].owner = Resolve(idMap, id) /\ B(id)[k].out = FALSE
  <2>1. nodes[i].id \in Nat
    BY <1>1
  <2>2. OutputsOf(drawing, nodes[i].id) \in Seq(EndType) /\ InputsOf(drawing, nodes[i].id) \in Seq(EndType)
    BY EndsType
  <2>3. RowsRight(idMap, nodes[i].id, TRUE, A(nodes[i].id))
    BY <2>1, <2>2, RowsInType
  <2>4. RowsRight(idMap, nodes[i].id, FALSE, B(nodes[i].id))
    BY <2>1, <2>2, RowsInType
  <2> HIDE DEF nodes, A, B
  <2> QED BY <2>3, <2>4 DEF RowsRight
<1>3. parts \in Seq(Seq(PortType))
  <2>1. DOMAIN nodes = 1..Len(nodes) /\ Len(nodes) \in Nat
    <3> HIDE DEF nodes
    <3> QED BY <1>1, SeqIs
  <2>2. \A i \in DOMAIN nodes : A(nodes[i].id) \o B(nodes[i].id) \in Seq(PortType)
    <3> HIDE DEF A, B, nodes
    <3> QED BY <1>2, ConcatType
  <2>3. parts \in [1..Len(nodes) -> Seq(PortType)]
    <3> HIDE DEF A, B, nodes
    <3> QED BY <2>1, <2>2
  <2> HIDE DEF parts, nodes
  <2> QED BY <2>1, <2>3, FunctionSeq
<1>4. PortRows(drawing, idMap) = FlattenSeq(parts)
  BY DEF PortRows, RowsIn
<1>5. ASSUME NEW isOut, NEW i \in DOMAIN nodes
      PROVE  Sel(parts[i], OfNode(here, isOut))
                 = Sel(A(nodes[i].id), OfNode(here, isOut)) \o Sel(B(nodes[i].id), OfNode(here, isOut))
  <2>1. parts[i] = A(nodes[i].id) \o B(nodes[i].id)
    <3> HIDE DEF A, B
    <3> QED OBVIOUS
  <2>2. A(nodes[i].id) \in Seq(PortType) /\ B(nodes[i].id) \in Seq(PortType)
    <3> HIDE DEF A, B, nodes
    <3> QED BY <1>2
  <2>3. Splitting(PortType)
    BY SelSplits
  <2>4. PICK a \in Seq(PortType), b \in Seq(PortType) : a = A(nodes[i].id) /\ b = B(nodes[i].id)
    BY <2>2
  <2>5. Sel(a \o b, OfNode(here, isOut)) = Sel(a, OfNode(here, isOut)) \o Sel(b, OfNode(here, isOut))
    <3>1. \A E : Sel(a \o b, E) = Sel(a, E) \o Sel(b, E)
      BY <2>3, <2>4, Zenon DEF Splitting
    <3> QED BY <3>1, Zenon
  <2> HIDE DEF A, B, nodes, parts, here
  <2> QED BY <2>1, <2>4, <2>5
<1>6. ASSUME NEW isOut, NEW i \in DOMAIN nodes, i # d
      PROVE  Sel(parts[i], OfNode(here, isOut)) = <<>>
  <2>1. Resolve(idMap, nodes[i].id) # here
    BY <1>6
  <2>2. /\ Sel(A(nodes[i].id), OfNode(here, isOut)) = <<>>
        /\ Sel(B(nodes[i].id), OfNode(here, isOut)) = <<>>
    <3>1. /\ \A k \in DOMAIN A(nodes[i].id) : A(nodes[i].id)[k] \notin OfNode(here, isOut)
          /\ \A k \in DOMAIN B(nodes[i].id) : B(nodes[i].id)[k] \notin OfNode(here, isOut)
      <4>1. PICK own : own = Resolve(idMap, nodes[i].id)
        OBVIOUS
      <4>2. own # here
        BY <2>1, <4>1
      <4>3. /\ \A k \in DOMAIN A(nodes[i].id) : A(nodes[i].id)[k].owner = own
            /\ \A k \in DOMAIN B(nodes[i].id) : B(nodes[i].id)[k].owner = own
        <5> HIDE DEF A, B, nodes, here
        <5> QED BY <1>2, <4>1
      <4>4. \A q \in OfNode(here, isOut) : q.owner = here
        <5> HIDE DEF here
        <5> QED BY DEF OfNode
      <4>5. ASSUME NEW rows, \A k \in DOMAIN rows : rows[k].owner = own
            PROVE  \A k \in DOMAIN rows : rows[k] \notin OfNode(here, isOut)
        <5> HIDE DEF A, B, nodes, here, OfNode
        <5> QED BY <4>2, <4>4, <4>5
      <4>6. \A k \in DOMAIN A(nodes[i].id) : A(nodes[i].id)[k] \notin OfNode(here, isOut)
        <5> HIDE DEF A, B, nodes, here, OfNode
        <5> QED BY <4>3, <4>5
      <4>7. \A k \in DOMAIN B(nodes[i].id) : B(nodes[i].id)[k] \notin OfNode(here, isOut)
        <5> HIDE DEF A, B, nodes, here, OfNode
        <5> QED BY <4>3, <4>5
      <4> HIDE DEF A, B, nodes, here, OfNode
      <4> QED BY <4>6, <4>7
    <3> HIDE DEF A, B, nodes, here
    <3> QED BY <3>1, SelNone
  <2>3. <<>> \o <<>> = <<>>
    OBVIOUS
  <2> HIDE DEF A, B, nodes, here, parts
  <2> QED BY <1>5, <2>2, <2>3
<1>7. ASSUME NEW isOut
      PROVE  PortsOf(PortRows(drawing, idMap), here, isOut) = Sel(parts[d], OfNode(here, isOut))
  <2>1. FlattenSeq(parts) \in Seq(PortType)
    <3> HIDE DEF parts
    <3> QED BY <1>3, FlattenType
  <2>2. PortsOf(FlattenSeq(parts), here, isOut) = Sel(FlattenSeq(parts), OfNode(here, isOut))
    <3> HIDE DEF parts, here
    <3> QED BY <2>1, QueriesSelect
  <2>3. DOMAIN parts = DOMAIN nodes
    OBVIOUS
  <2>4. Sel(FlattenSeq(parts), OfNode(here, isOut)) = Sel(parts[d], OfNode(here, isOut))
    <3>1. d \in DOMAIN parts
      OBVIOUS
    <3> HIDE DEF parts, here, nodes
    <3> QED BY <1>3, <1>6, <2>3, <3>1, SelFlattenOne
  <2> HIDE DEF parts, here
  <2> QED BY <1>4, <2>2, <2>4
<1> DEFINE id == nodes[d].id
<1>8. /\ A(id) \in Seq(PortType) /\ B(id) \in Seq(PortType)
      /\ \A k \in DOMAIN A(id) : A(id)[k].owner = here /\ A(id)[k].out = TRUE
      /\ \A k \in DOMAIN B(id) : B(id)[k].owner = here /\ B(id)[k].out = FALSE
  <2> HIDE DEF A, B
  <2> QED BY <1>2
<1>9. PortsOf(PortRows(drawing, idMap), here, TRUE) = A(id)
  <2>1. Sel(A(id), OfNode(here, TRUE)) = A(id)
    <3>1. \A k \in DOMAIN A(id) : A(id)[k] \in OfNode(here, TRUE)
      <4> HIDE DEF A, here, id
      <4> QED BY <1>8 DEF OfNode
    <3> HIDE DEF A, here, id
    <3> QED BY <1>8, <3>1, SelAll
  <2>2. Sel(B(id), OfNode(here, TRUE)) = <<>>
    <3>1. \A k \in DOMAIN B(id) : B(id)[k] \notin OfNode(here, TRUE)
      <4> HIDE DEF B, here, id
      <4> QED BY <1>8 DEF OfNode
    <3> HIDE DEF B, here, id
    <3> QED BY <3>1, SelNone
  <2>3. A(id) \o <<>> = A(id)
    <3> HIDE DEF A, id
    <3> QED BY <1>8
  <2>4. Sel(parts[d], OfNode(here, TRUE)) = Sel(A(id), OfNode(here, TRUE)) \o Sel(B(id), OfNode(here, TRUE))
    <3> HIDE DEF A, B, here, parts
    <3> QED BY <1>5
  <2> HIDE DEF A, B, here, parts, id
  <2> QED BY <1>7, <2>1, <2>2, <2>3, <2>4
<1>10. PortsOf(PortRows(drawing, idMap), here, FALSE) = B(id)
  <2>1. Sel(B(id), OfNode(here, FALSE)) = B(id)
    <3>1. \A k \in DOMAIN B(id) : B(id)[k] \in OfNode(here, FALSE)
      <4> HIDE DEF B, here, id
      <4> QED BY <1>8 DEF OfNode
    <3> HIDE DEF B, here, id
    <3> QED BY <1>8, <3>1, SelAll
  <2>2. Sel(A(id), OfNode(here, FALSE)) = <<>>
    <3>1. \A k \in DOMAIN A(id) : A(id)[k] \notin OfNode(here, FALSE)
      <4> HIDE DEF A, here, id
      <4> QED BY <1>8 DEF OfNode
    <3> HIDE DEF A, here, id
    <3> QED BY <3>1, SelNone
  <2>3. <<>> \o B(id) = B(id)
    <3> HIDE DEF B, id
    <3> QED BY <1>8
  <2>4. Sel(parts[d], OfNode(here, FALSE)) = Sel(A(id), OfNode(here, FALSE)) \o Sel(B(id), OfNode(here, FALSE))
    <3> HIDE DEF A, B, here, parts
    <3> QED BY <1>5
  <2> HIDE DEF A, B, here, parts, id
  <2> QED BY <1>7, <2>1, <2>2, <2>3, <2>4
<1> QED BY <1>9, <1>10

-----------------------------------------------------------------------------
(* Pictures.                                                                 *)

NodesIn(n, j) == {id \in DOMAIN n : n[id].job = j}

\* What given tables show of a job.
ShownOf(n, rows, j) ==
    LET ids == NodesIn(n, j)
    IN Picture([id \in ids |-> n[id].what],
               [id \in ids |-> PortsOf(rows, id, TRUE)],
               [id \in ids |-> PortsOf(rows, id, FALSE)])

(* What the service shows is what its tables show. *)
LEMMA ShownIs == \A j : Shown(j) = ShownOf(node, ports, j) /\ NodesOf(j) = NodesIn(node, j)
<1> QED BY DEF Shown, ShownOf, NodesOf, NodesIn

\* Two pairs of tables hold the same nodes of a job, with the same ports.
SameGraph(n, rows, m, new, j) ==
    /\ NodesIn(n, j) = NodesIn(m, j)
    /\ \A id \in NodesIn(n, j) : n[id].what = m[id].what
    /\ \A id \in NodesIn(n, j), isOut \in BOOLEAN : PortsOf(rows, id, isOut) = PortsOf(new, id, isOut)

(* The same nodes with the same ports show the same. *)
LEMMA ShownSame ==
    ASSUME NEW n, NEW m, NEW rows, NEW new, NEW j, NodesIn(n, j) = NodesIn(m, j),
           \A id \in NodesIn(n, j) : n[id].what = m[id].what,
           \A id \in NodesIn(n, j), isOut \in BOOLEAN : PortsOf(rows, id, isOut) = PortsOf(new, id, isOut)
    PROVE  ShownOf(n, rows, j) = ShownOf(m, new, j)
<1> DEFINE ids == NodesIn(n, j)
<1>1. [id \in ids |-> n[id].what] = [id \in ids |-> m[id].what]
  BY Zenon
<1>2. \A id \in ids : PortsOf(rows, id, TRUE) = PortsOf(new, id, TRUE)
  OBVIOUS
<1>3. \A id \in ids : PortsOf(rows, id, FALSE) = PortsOf(new, id, FALSE)
  OBVIOUS
<1>4. [id \in ids |-> PortsOf(rows, id, TRUE)] = [id \in ids |-> PortsOf(new, id, TRUE)]
  BY <1>2, Zenon
<1>5. [id \in ids |-> PortsOf(rows, id, FALSE)] = [id \in ids |-> PortsOf(new, id, FALSE)]
  BY <1>3, Zenon
<1> QED BY <1>1, <1>4, <1>5, Zenon DEF ShownOf

(* Nodes under other ids, with the same ports, make the same picture. *)
LEMMA SamePicture ==
    ASSUME NEW A, NEW B, NEW f, NEW a, NEW outsA, NEW insA, NEW b, NEW outsB, NEW insB,
           DOMAIN a = A, DOMAIN b = B,
           \A id \in A : f[id] \in B, \A k \in B : \E id \in A : f[id] = k,
           \A id \in A : /\ a[id] = b[f[id]]
                         /\ Ends(a, outsA[id]) = Ends(b, outsB[f[id]])
                         /\ Ends(a, insA[id]) = Ends(b, insB[f[id]])
    PROVE  Picture(a, outsA, insA) = Picture(b, outsB, insB)
<1> DEFINE One(id) == [what |-> a[id], outs |-> Ends(a, outsA[id]), ins |-> Ends(a, insA[id])]
           Two(id) == [what |-> b[id], outs |-> Ends(b, outsB[id]), ins |-> Ends(b, insB[id])]
<1>1. \A id \in A : One(id) = Two(f[id])
  OBVIOUS
<1>2. Picture(a, outsA, insA) = {One(id) : id \in A} /\ Picture(b, outsB, insB) = {Two(id) : id \in B}
  BY DEF Picture
<1>3. {One(id) : id \in A} = {Two(id) : id \in B}
  <2> HIDE DEF One, Two
  <2> QED BY <1>1
<1> QED BY <1>2, <1>3

(* Two rows of ports show the same ends. *)
LEMMA SameEnds ==
    ASSUME NEW a, NEW row, NEW b, NEW other, DOMAIN row = DOMAIN other,
           \A i \in DOMAIN row : /\ row[i].kind = other[i].kind
                                 /\ Label(a, row[i].peer) = Label(b, other[i].peer)
    PROVE  Ends(a, row) = Ends(b, other)
<1> QED BY Zenon DEF Ends

(* Where the ports of a drawing lead. *)
LEMMA EndsKnown ==
    ASSUME NEW drawing \in DrawingType, NEW last, NEW id,
           LinksKnown(drawing.nodes, drawing.links, last)
    PROVE  LET known == NodeIdsOf(drawing.nodes) \cup 1..last.node
           IN /\ \A i \in DOMAIN OutputsOf(drawing, id) : OutputsOf(drawing, id)[i].peer \in known
              /\ \A i \in DOMAIN InputsOf(drawing, id) : InputsOf(drawing, id)[i].peer \in known
<1> DEFINE links == drawing.links
           known == NodeIdsOf(drawing.nodes) \cup 1..last.node
           outs == {i \in DOMAIN links : links[i].src = id}
           ins == {i \in DOMAIN links : links[i].tgt = id}
<1>1. links \in Seq(LinkType) /\ outs \subseteq DOMAIN links /\ ins \subseteq DOMAIN links
  BY DEF DrawingType
<1>2. \A i \in DOMAIN links : links[i].src \in known /\ links[i].tgt \in known
  BY DEF LinksKnown
<1>3. IsPicked(Picked(links, outs), links, outs) /\ IsPicked(Picked(links, ins), links, ins)
  <2> HIDE DEF links, outs, ins
  <2> QED BY <1>1, PickedIs
<1>4. \A i \in DOMAIN Picked(links, outs) : Picked(links, outs)[i].tgt \in known
  <2> HIDE DEF links, outs, ins, known
  <2> QED BY <1>1, <1>2, <1>3 DEF IsPicked
<1>5. \A i \in DOMAIN Picked(links, ins) : Picked(links, ins)[i].src \in known
  <2> HIDE DEF links, outs, ins, known
  <2> QED BY <1>1, <1>2, <1>3 DEF IsPicked
<1>6. /\ OutputsOf(drawing, id) = [i \in DOMAIN Picked(links, outs) |-> OutputOf(Picked(links, outs)[i])]
      /\ InputsOf(drawing, id) = [i \in DOMAIN Picked(links, ins) |-> InputOf(Picked(links, ins)[i])]
  BY DEF OutputsOf, InputsOf
<1> HIDE DEF outs, ins, links, known
<1>7. \A i \in DOMAIN OutputsOf(drawing, id) : OutputsOf(drawing, id)[i].peer \in known
  BY <1>4, <1>6 DEF OutputOf
<1>8. \A i \in DOMAIN InputsOf(drawing, id) : InputsOf(drawing, id)[i].peer \in known
  BY <1>5, <1>6 DEF InputOf
<1> QED BY <1>7, <1>8 DEF known

(* Rows that belong to a node only come with the save. *)
LEMMA NewPorts ==
    ASSUME NEW rows \in Seq(PortType), NEW ids, NEW new \in Seq(PortType), NEW id,
           Foreign(rows, ids, id), NEW isOut
    PROVE  LET kept == Picked(rows, {i \in DOMAIN rows : rows[i].owner \notin ids})
           IN PortsOf(kept \o new, id, isOut) = PortsOf(new, id, isOut)
<1> DEFINE places == {i \in DOMAIN rows : rows[i].owner \notin ids}
           kept == Picked(rows, places)
           E == OfNode(id, isOut)
<1>1. kept \in Seq(PortType) /\ \A i \in DOMAIN kept : kept[i].owner # id
  <2>1. places \subseteq DOMAIN rows /\ \A i \in places : rows[i].owner # id
    BY DEF Foreign
  <2>2. kept \in Seq(PortType) /\ IsPicked(kept, rows, places)
    <3> HIDE DEF places
    <3> QED BY <2>1, PickedIs
  <2> HIDE DEF kept, places
  <2> QED BY <2>1, <2>2 DEF IsPicked
<1> HIDE DEF kept
<1>2. kept \o new \in Seq(PortType)
  BY <1>1, ConcatType
<1>3. PortsOf(kept \o new, id, isOut) = Sel(kept \o new, E) /\ PortsOf(new, id, isOut) = Sel(new, E)
  BY <1>2, QueriesSelect
<1>4. Sel(kept \o new, E) = Sel(kept, E) \o Sel(new, E)
  <2>1. kept \in Seq(PortType)
    BY <1>1
  <2> HIDE DEF E
  <2> QED BY <2>1, SelConcat
<1>5. Sel(kept, E) = <<>>
  <2>1. \A i \in DOMAIN kept : kept[i] \notin E
    BY <1>1 DEF OfNode
  <2> HIDE DEF E
  <2> QED BY <2>1, SelNone
<1>6. Sel(new, E) \in Seq(PortType)
  BY SelType
<1>7. <<>> \o Sel(new, E) = Sel(new, E)
  <2> HIDE DEF E
  <2> QED BY <1>6
<1>8. PortsOf(kept \o new, id, isOut) = PortsOf(new, id, isOut)
  <2> HIDE DEF E
  <2> QED BY <1>3, <1>4, <1>5, <1>7
<1> QED BY <1>8 DEF kept

-----------------------------------------------------------------------------
(* What a save stores.                                                       *)

(* No two nodes of a payload get the same row id. *)
LEMMA IdMapApart ==
    ASSUME TypeInv, NEW c, CallSound(c, serial)
    PROVE  LET ids == NodeIdsOf(c.drawing.nodes)
           IN /\ \A a, b \in ids : IdMap(c)[a] = IdMap(c)[b] => a = b
              /\ \A id \in ids : IdMap(c)[id] \in Nat \ {0}
              /\ Mapped(IdMap(c))
<1> DEFINE fresh == Fresh(c)
           place(id) == CHOOSE i \in DOMAIN fresh : fresh[i].id = id
           ids == NodeIdsOf(c.drawing.nodes)
<1>1. c \in CallType /\ c.seen \subseteq 1..serial.node /\ serial.node \in Nat
  BY DEF CallSound, TypeInv, TablesType
<1>2. \A id \in ids \ Kept(c) : IdMap(c)[id] = serial.node + place(id)
  BY DEF IdMap
<1>3. \A id \in ids \ Kept(c) : place(id) \in 1..Len(fresh) /\ fresh[place(id)].id = id
  <2> SUFFICES ASSUME NEW id \in ids \ Kept(c)
               PROVE  place(id) \in 1..Len(fresh) /\ fresh[place(id)].id = id
    OBVIOUS
  <2>1. \E i \in DOMAIN fresh : fresh[i].id = id
    BY <1>1, FreshIs
  <2>2. place(id) \in DOMAIN fresh /\ fresh[place(id)].id = id
    BY <2>1, Zenon
  <2>3. DOMAIN fresh = 1..Len(fresh)
    BY <1>1, FreshIs
  <2> QED BY <2>2, <2>3
<1>4. Len(fresh) \in Nat
  BY <1>1, FreshIs
<1>5. /\ \A id \in Kept(c) : IdMap(c)[id] = id /\ id \in 1..serial.node
      /\ DOMAIN IdMap(c) = ids
  BY IdMapIs
<1> HIDE DEF place, fresh
<1>6. \A a, b \in ids : IdMap(c)[a] = IdMap(c)[b] => a = b
  <2> SUFFICES ASSUME NEW a \in ids, NEW b \in ids, IdMap(c)[a] = IdMap(c)[b] PROVE a = b
    OBVIOUS
  <2>1. CASE a \in Kept(c) /\ b \in Kept(c)
    BY <1>5, <2>1
  <2>2. CASE a \in Kept(c) /\ b \notin Kept(c)
    <3>1. IdMap(c)[a] \in 1..serial.node /\ IdMap(c)[b] = serial.node + place(b) /\ place(b) \in 1..Len(fresh)
      BY <1>2, <1>3, <1>5, <2>2
    <3> QED BY <1>1, <1>4, <3>1
  <2>3. CASE a \notin Kept(c) /\ b \in Kept(c)
    <3>1. IdMap(c)[b] \in 1..serial.node /\ IdMap(c)[a] = serial.node + place(a) /\ place(a) \in 1..Len(fresh)
      BY <1>2, <1>3, <1>5, <2>3
    <3> QED BY <1>1, <1>4, <3>1
  <2>4. CASE a \notin Kept(c) /\ b \notin Kept(c)
    <3>1. /\ serial.node + place(a) = serial.node + place(b)
          /\ place(a) \in 1..Len(fresh) /\ place(b) \in 1..Len(fresh)
      BY <1>2, <1>3, <2>4
    <3>2. place(a) = place(b)
      BY <1>1, <1>4, <3>1
    <3> QED BY <1>3, <2>4, <3>2
  <2> QED BY <2>1, <2>2, <2>3, <2>4
<1>7. \A id \in ids : IdMap(c)[id] \in Nat \ {0}
  <2> SUFFICES ASSUME NEW id \in ids PROVE IdMap(c)[id] \in Nat \ {0}
    OBVIOUS
  <2>1. CASE id \in Kept(c)
    BY <1>1, <1>5, <2>1
  <2>2. CASE id \notin Kept(c)
    BY <1>1, <1>2, <1>3, <1>4, <2>2
  <2> QED BY <2>1, <2>2
<1>8. Mapped(IdMap(c))
  BY <1>5, <1>7 DEF Mapped, Resolve
<1> HIDE DEF ids
<1> QED BY <1>6, <1>7, <1>8 DEF ids

(* The rows a save leaves: those it did not know, the payload under its row *)
(* ids, and nothing else.                                                   *)
LEMMA NodesAfterExact ==
    ASSUME TypeInv, NEW c, CallSound(c, serial), Distinct(c.drawing.nodes)
    PROVE  LET nodes == c.drawing.nodes
               ids == NodeIdsOf(nodes)
               f == IdMap(c)
               m == NodesAfter(c)
           IN /\ DOMAIN m = (DOMAIN node \ (c.seen \ Kept(c))) \cup {f[id] : id \in ids \ Kept(c)}
              /\ \A i \in DOMAIN nodes :
                    /\ nodes[i].id \in Kept(c) /\ nodes[i].id \in DOMAIN node
                           => /\ m[nodes[i].id].job = node[nodes[i].id].job
                              /\ m[nodes[i].id].what = nodes[i].what
                    /\ nodes[i].id \notin Kept(c)
                           => m[f[nodes[i].id]] = [job |-> c.job, what |-> nodes[i].what]
              /\ \A id \in DOMAIN node \ c.seen : m[id] = node[id]
<1> DEFINE nodes == c.drawing.nodes
           ids == NodeIdsOf(nodes)
           final == IdMap(c)
           gone  == c.seen \ Kept(c)
           new   == {final[Fresh(c)[i].id] : i \in DOMAIN Fresh(c)}
           spot(id) == CHOOSE i \in DOMAIN nodes : final[nodes[i].id] = id
           what(id) == nodes[spot(id)].what
           rows == (DOMAIN node \ gone) \cup new
<1>1. /\ c \in CallType /\ serial.node \in Nat /\ DOMAIN node \subseteq 1..serial.node
      /\ \A id \in DOMAIN node : node[id] \in [job : Nat, what : Whats]
      /\ c.seen \subseteq 1..serial.node
  BY DEF CallSound, TypeInv, TablesType
<1>2. NodesAfter(c) = [id \in rows |->
           IF id \in Kept(c) THEN [node[id] EXCEPT !.what = what(id)]
           ELSE IF id \in new THEN [job |-> c.job, what |-> what(id)]
           ELSE node[id]]
  BY DEF NodesAfter
<1>3. new = {final[id] : id \in ids \ Kept(c)}
  <2>1. /\ \A id \in ids \ Kept(c) : \E i \in DOMAIN Fresh(c) : Fresh(c)[i].id = id
        /\ \A i \in DOMAIN Fresh(c) : Fresh(c)[i].id \in ids \ Kept(c)
    BY <1>1, FreshIs
  <2> HIDE DEF final, ids
  <2> QED BY <2>1
<1>4. Len(Fresh(c)) \in Nat
  BY <1>1, FreshIs
<1>5. /\ \A id \in Kept(c) : final[id] = id /\ id \in 1..serial.node
      /\ \A id \in ids \ Kept(c) : final[id] \in (serial.node + 1)..(serial.node + Len(Fresh(c)))
  BY IdMapIs
<1>6. \A n \in new : n \notin Kept(c) /\ n \notin DOMAIN node /\ n \notin c.seen
  <2> SUFFICES ASSUME NEW n \in new PROVE n \notin Kept(c) /\ n \notin DOMAIN node /\ n \notin c.seen
    OBVIOUS
  <2>1. n \in (serial.node + 1)..(serial.node + Len(Fresh(c)))
    <3> HIDE DEF new, final, ids
    <3> QED BY <1>3, <1>5
  <2>2. n \notin 1..serial.node
    BY <1>1, <1>4, <2>1
  <2> HIDE DEF new
  <2> QED BY <1>1, <1>5, <2>2
<1>7. \A i \in DOMAIN nodes : nodes[i].id \in ids /\ what(final[nodes[i].id]) = nodes[i].what
  <2> SUFFICES ASSUME NEW i \in DOMAIN nodes
               PROVE  nodes[i].id \in ids /\ what(final[nodes[i].id]) = nodes[i].what
    OBVIOUS
  <2>1. PICK id : id = final[nodes[i].id]
    OBVIOUS
  <2>2. \E k \in DOMAIN nodes : final[nodes[k].id] = id
    BY <2>1
  <2>3. spot(id) \in DOMAIN nodes /\ final[nodes[spot(id)].id] = id
    BY <2>2, Zenon
  <2>4. \A k \in DOMAIN nodes : nodes[k].id \in ids
    BY DEF NodeIdsOf
  <2>5. \A a, b \in ids : final[a] = final[b] => a = b
    BY IdMapApart
  <2>6. nodes[spot(id)].id = nodes[i].id
    <3> HIDE DEF spot, final, ids, nodes
    <3> QED BY <2>1, <2>3, <2>4, <2>5
  <2>7. spot(id) = i
    <3> HIDE DEF spot
    <3> QED BY <2>3, <2>6 DEF Distinct
  <2> HIDE DEF spot, final, ids
  <2> QED BY <2>1, <2>4, <2>7
<1>8. DOMAIN NodesAfter(c) = rows
  BY <1>2
<1>9. ASSUME NEW i \in DOMAIN nodes, nodes[i].id \in Kept(c), nodes[i].id \in DOMAIN node
      PROVE  /\ NodesAfter(c)[nodes[i].id].job = node[nodes[i].id].job
             /\ NodesAfter(c)[nodes[i].id].what = nodes[i].what
  <2>1. PICK id : id = nodes[i].id
    OBVIOUS
  <2>2. id \in rows /\ id \in Kept(c) /\ node[id] \in [job : Nat, what : Whats]
    BY <1>1, <1>9, <2>1
  <2>3. what(id) = nodes[i].what
    <3>1. final[id] = id
      BY <1>5, <2>2
    <3> HIDE DEF what, final
    <3> QED BY <1>7, <2>1, <3>1
  <2>4. NodesAfter(c)[id] = [node[id] EXCEPT !.what = what(id)]
    <3> HIDE DEF what, rows, new
    <3> QED BY <1>2, <2>2
  <2> HIDE DEF what
  <2> QED BY <2>1, <2>2, <2>3, <2>4
<1>10. ASSUME NEW i \in DOMAIN nodes, nodes[i].id \notin Kept(c)
       PROVE  NodesAfter(c)[final[nodes[i].id]] = [job |-> c.job, what |-> nodes[i].what]
  <2>1. PICK id : id = final[nodes[i].id]
    OBVIOUS
  <2>2. id \in new
    <3> HIDE DEF new, final
    <3> QED BY <1>3, <1>7, <1>10, <2>1
  <2>3. id \in rows /\ id \notin Kept(c)
    <3> HIDE DEF new
    <3> QED BY <1>6, <2>2
  <2>4. NodesAfter(c)[id] = [job |-> c.job, what |-> what(id)]
    <3> HIDE DEF what, rows, new
    <3> QED BY <1>2, <2>2, <2>3
  <2> HIDE DEF what, final
  <2> QED BY <1>7, <2>1, <2>4
<1>11. ASSUME NEW id \in DOMAIN node \ c.seen PROVE NodesAfter(c)[id] = node[id]
  <2>1. id \in rows /\ id \notin Kept(c)
    BY DEF Kept
  <2>2. id \notin new
    <3> HIDE DEF new
    <3> QED BY <1>6
  <2> HIDE DEF what, rows, new
  <2> QED BY <1>2, <2>1, <2>2
<1> HIDE DEF new, what
<1> QED BY <1>3, <1>8, <1>9, <1>10, <1>11

(* After a save that knew all rows of the job, the rows of the job are those of *)
(* the payload.                                                                 *)
LEMMA SaveNodes ==
    ASSUME TypeInv, NEW c, CallSound(c, serial), Distinct(c.drawing.nodes), c.seen = NodesOf(c.job)
    PROVE  LET ids == NodeIdsOf(c.drawing.nodes)
           IN /\ NodesIn(NodesAfter(c), c.job) = {IdMap(c)[id] : id \in ids}
              /\ \A i \in DOMAIN c.drawing.nodes :
                    NodesAfter(c)[IdMap(c)[c.drawing.nodes[i].id]].what = c.drawing.nodes[i].what
<1> DEFINE nodes == c.drawing.nodes
           ids == NodeIdsOf(nodes)
           f == IdMap(c)
           m == NodesAfter(c)
<1>1. /\ DOMAIN m = (DOMAIN node \ (c.seen \ Kept(c))) \cup {f[id] : id \in ids \ Kept(c)}
      /\ \A i \in DOMAIN nodes :
            /\ nodes[i].id \in Kept(c) /\ nodes[i].id \in DOMAIN node
                   => /\ m[nodes[i].id].job = node[nodes[i].id].job
                      /\ m[nodes[i].id].what = nodes[i].what
            /\ nodes[i].id \notin Kept(c)
                   => m[f[nodes[i].id]] = [job |-> c.job, what |-> nodes[i].what]
      /\ \A id \in DOMAIN node \ c.seen : m[id] = node[id]
  BY NodesAfterExact
<1>2. \A id \in ids : \E i \in DOMAIN nodes : nodes[i].id = id
  BY DEF NodeIdsOf
<1>3. \A i \in DOMAIN nodes : nodes[i].id \in ids
  BY DEF NodeIdsOf
<1>4. \A id \in Kept(c) : f[id] = id
  BY IdMapIs
<1>5. \A id \in Kept(c) : id \in ids /\ id \in DOMAIN node /\ node[id].job = c.job /\ id \in c.seen
  BY DEF Kept, NodesOf
<1>6. \A id \in DOMAIN node : id \notin c.seen => node[id].job # c.job
  BY DEF NodesOf
<1> HIDE DEF ids, f, m, nodes
<1>7. \A i \in DOMAIN nodes :
         /\ f[nodes[i].id] \in DOMAIN m
         /\ m[f[nodes[i].id]].job = c.job /\ m[f[nodes[i].id]].what = nodes[i].what
  <2> SUFFICES ASSUME NEW i \in DOMAIN nodes
               PROVE  /\ f[nodes[i].id] \in DOMAIN m
                      /\ m[f[nodes[i].id]].job = c.job /\ m[f[nodes[i].id]].what = nodes[i].what
    OBVIOUS
  <2>1. CASE nodes[i].id \in Kept(c)
    <3>1. f[nodes[i].id] = nodes[i].id /\ nodes[i].id \in DOMAIN node /\ node[nodes[i].id].job = c.job
      BY <1>4, <1>5, <2>1
    <3> QED BY <1>1, <2>1, <3>1
  <2>2. CASE nodes[i].id \notin Kept(c)
    <3>1. f[nodes[i].id] \in DOMAIN m
      BY <1>1, <1>3, <2>2
    <3>2. m[f[nodes[i].id]] = [job |-> c.job, what |-> nodes[i].what]
      BY <1>1, <2>2
    <3> QED BY <3>1, <3>2
  <2> QED BY <2>1, <2>2
<1>8. \A k \in NodesIn(m, c.job) : \E id \in ids : k = f[id]
  <2> SUFFICES ASSUME NEW k \in DOMAIN m, m[k].job = c.job PROVE \E id \in ids : k = f[id]
    BY DEF NodesIn
  <2>1. CASE k \in DOMAIN node \ (c.seen \ Kept(c))
    <3>1. CASE k \in c.seen
      <4>1. k \in Kept(c)
        BY <2>1, <3>1
      <4> QED BY <1>4, <1>5, <4>1
    <3>2. CASE k \notin c.seen
      <4>1. m[k] = node[k] /\ node[k].job # c.job
        BY <1>1, <1>6, <2>1, <3>2
      <4> QED BY <4>1
    <3> QED BY <3>1, <3>2
  <2>2. CASE k \in {f[id] : id \in ids \ Kept(c)}
    BY <2>2
  <2> QED BY <1>1, <2>1, <2>2
<1>9. \A id \in ids : f[id] \in NodesIn(m, c.job)
  BY <1>2, <1>7 DEF NodesIn
<1>10. NodesIn(m, c.job) = {f[id] : id \in ids}
  BY <1>8, <1>9
<1> QED BY <1>7, <1>10 DEF ids, f, m, nodes

(* A save that knew all rows of the job stores the picture that was sent. *)
LEMMA SaveStores ==
    ASSUME TypeInv, TablesConsistent, NEW c, CallSound(c, serial), Distinct(c.drawing.nodes),
           LinksKnown(c.drawing.nodes, c.drawing.links, serial), c.seen = NodesOf(c.job)
    PROVE  ShownOf(NodesAfter(c), PortsAfter(c), c.job) = Drawn(c.drawing)
<1> DEFINE drawing == c.drawing
           nodes == drawing.nodes
           A == NodeIdsOf(nodes)
           f == IdMap(c)
           m == NodesAfter(c)
           B == NodesIn(m, c.job)
           place(id) == CHOOSE i \in DOMAIN nodes : nodes[i].id = id
           a == [id \in A |-> nodes[place(id)].what]
           b == [id \in B |-> m[id].what]
           outsA == [id \in A |-> OutputsOf(drawing, id)]
           insA == [id \in A |-> InputsOf(drawing, id)]
           outsB == [id \in B |-> PortsOf(PortsAfter(c), id, TRUE)]
           insB == [id \in B |-> PortsOf(PortsAfter(c), id, FALSE)]
<1>1. /\ B = {f[id] : id \in A}
      /\ \A i \in DOMAIN nodes : m[f[nodes[i].id]].what = nodes[i].what
  BY SaveNodes
<1>2. /\ drawing \in DrawingType /\ serial.node \in Nat /\ c \in CallType
      /\ ports \in Seq(PortType) /\ c.seen \subseteq 1..serial.node
      /\ DOMAIN node \subseteq 1..serial.node
  BY DEF CallSound, CallType, TypeInv, TablesType
<1>3. /\ \A x, y \in A : f[x] = f[y] => x = y
      /\ Mapped(f) /\ DOMAIN f = A
      /\ \A id \in Kept(c) : f[id] = id /\ id \in 1..serial.node
      /\ \A id \in A \ Kept(c) : f[id] \in (serial.node + 1)..(serial.node + Len(Fresh(c)))
  BY IdMapApart, IdMapIs
<1>4. \A i \in DOMAIN nodes : nodes[i].id \in A /\ place(nodes[i].id) = i
  <2> SUFFICES ASSUME NEW i \in DOMAIN nodes PROVE nodes[i].id \in A /\ place(nodes[i].id) = i
    OBVIOUS
  <2>1. PICK id : id = nodes[i].id
    OBVIOUS
  <2>2. \E k \in DOMAIN nodes : nodes[k].id = id
    BY <2>1
  <2>3. place(id) \in DOMAIN nodes /\ nodes[place(id)].id = id
    BY <2>2, Zenon
  <2>4. place(id) = i
    <3> HIDE DEF place
    <3> QED BY <2>1, <2>3 DEF Distinct
  <2>5. id \in A
    BY <2>1 DEF NodeIdsOf
  <2> HIDE DEF place, A
  <2> QED BY <2>1, <2>4, <2>5
<1>5. \A id \in A : \E i \in DOMAIN nodes : nodes[i].id = id
  BY DEF NodeIdsOf
<1>6. \A id \in A : f[id] \in B /\ a[id] = b[f[id]]
  <2> SUFFICES ASSUME NEW id \in A PROVE f[id] \in B /\ a[id] = b[f[id]]
    OBVIOUS
  <2>1. PICK i \in DOMAIN nodes : nodes[i].id = id
    BY <1>5
  <2>2. f[id] \in B
    <3> HIDE DEF A, B, f, m
    <3> QED BY <1>1
  <2>3. a[id] = nodes[i].what
    <3>1. a[id] = nodes[place(id)].what
      <4> HIDE DEF place, A
      <4> QED OBVIOUS
    <3> HIDE DEF a, place
    <3> QED BY <1>4, <2>1, <3>1
  <2>4. b[f[id]] = m[f[id]].what
    <3> HIDE DEF B, f, m
    <3> QED BY <2>2
  <2>5. m[f[id]].what = nodes[i].what
    <3> HIDE DEF f, m, nodes, A
    <3> QED BY <1>1, <2>1
  <2> HIDE DEF a, b, f, m, nodes, A, B
  <2> QED BY <2>2, <2>3, <2>4, <2>5
<1>7. ASSUME NEW q, q \in A \cup 1..serial.node
      PROVE  Label(a, q) = Label(b, Resolve(f, q))
  <2>1. DOMAIN a = A /\ DOMAIN b = B
    OBVIOUS
  <2>2. CASE q \in A
    <3>1. Resolve(f, q) = f[q] /\ f[q] \in B /\ a[q] = b[f[q]]
      <4> HIDE DEF f, A, B, a, b
      <4> QED BY <1>3, <1>6, <2>2 DEF Resolve
    <3> HIDE DEF f, A, B, a, b
    <3> QED BY <2>1, <2>2, <3>1 DEF Label
  <2>3. CASE q \notin A
    <3>1. Resolve(f, q) = q
      <4> HIDE DEF f, A
      <4> QED BY <1>3, <2>3 DEF Resolve
    <3>2. q \notin B
      <4> SUFFICES ASSUME NEW id \in A, f[id] = q PROVE FALSE
        <5> HIDE DEF f, A, B
        <5> QED BY <1>1
      <4>1. Len(Fresh(c)) \in Nat
        BY <1>2, FreshIs
      <4>2. id \in Kept(c) => q \in A
        <5> HIDE DEF f, A
        <5> QED BY <1>3
      <4>3. id \notin Kept(c) => q \notin 1..serial.node
        <5> HIDE DEF f, A
        <5> QED BY <1>2, <1>3, <4>1
      <4>4. q \in 1..serial.node
        <5> HIDE DEF A
        <5> QED BY <1>7, <2>3
      <4> HIDE DEF f, A
      <4> QED BY <2>3, <4>2, <4>3, <4>4
    <3> HIDE DEF f, A, B, a, b
    <3> QED BY <2>1, <2>3, <3>1, <3>2 DEF Label
  <2> HIDE DEF f, A, a, b
  <2> QED BY <2>2, <2>3
<1> DEFINE new == PortRows(drawing, f)
<1>8. new \in Seq(PortType)
  <2>1. \A id \in DOMAIN f : f[id] \in Nat
    BY IdMapApart, IdMapIs
  <2> HIDE DEF f, drawing
  <2> QED BY <1>2, <2>1, PortRowsType
<1>9. ASSUME NEW id \in A, NEW isOut
      PROVE  PortsOf(PortsAfter(c), f[id], isOut) = PortsOf(new, f[id], isOut)
  <2>1. f[id] \in c.seen \/ f[id] \notin DOMAIN node
    <3>1. CASE id \in Kept(c)
      <4> HIDE DEF f, A
      <4> QED BY <1>3, <3>1 DEF Kept
    <3>2. CASE id \notin Kept(c)
      <4>1. Len(Fresh(c)) \in Nat
        BY <1>2, FreshIs
      <4> HIDE DEF f, A
      <4> QED BY <1>2, <1>3, <3>2, <4>1
    <3> QED BY <3>1, <3>2
  <2>2. \A i \in DOMAIN ports : ports[i].owner \notin c.seen => ports[i].owner # f[id]
    <3> HIDE DEF f, A
    <3> QED BY <2>1 DEF TablesConsistent
  <2>3. PICK k : k = f[id]
    OBVIOUS
  <2>4. PortsOf(Picked(ports, {i \in DOMAIN ports : ports[i].owner \notin c.seen}) \o new, k, isOut)
            = PortsOf(new, k, isOut)
    <3>1. Foreign(ports, c.seen, k)
      BY <2>2, <2>3 DEF Foreign
    <3>2. PICK new2 \in Seq(PortType) : new2 = new
      BY <1>8
    <3>3. ports \in Seq(PortType)
      BY <1>2
    <3>4. PortsOf(Picked(ports, {i \in DOMAIN ports : ports[i].owner \notin c.seen}) \o new2, k, isOut)
              = PortsOf(new2, k, isOut)
      <4> HIDE DEF new
      <4> QED BY <3>1, <3>3, NewPorts
    <3> HIDE DEF new
    <3> QED BY <3>2, <3>4
  <2>5. PortsAfter(c) = Picked(ports, {i \in DOMAIN ports : ports[i].owner \notin c.seen}) \o new
    BY DEF PortsAfter
  <2> HIDE DEF new, f
  <2> QED BY <2>3, <2>4, <2>5
<1>10. ASSUME NEW id \in A
       PROVE  /\ PortsOf(new, f[id], TRUE) = RowsIn(f, id, TRUE, OutputsOf(drawing, id))
              /\ PortsOf(new, f[id], FALSE) = RowsIn(f, id, FALSE, InputsOf(drawing, id))
  <2>1. PICK d \in DOMAIN nodes : nodes[d].id = id
    BY <1>5
  <2>2. \A x \in A : Resolve(f, x) = f[x]
    <3> HIDE DEF f, A
    <3> QED BY <1>3 DEF Resolve
  <2>3. \A i, k \in DOMAIN nodes : Resolve(f, nodes[i].id) = Resolve(f, nodes[k].id) => i = k
    <3> SUFFICES ASSUME NEW i \in DOMAIN nodes, NEW k \in DOMAIN nodes,
                        Resolve(f, nodes[i].id) = Resolve(f, nodes[k].id)
                 PROVE  i = k
      OBVIOUS
    <3>1. nodes[i].id \in A /\ nodes[k].id \in A
      <4> HIDE DEF place, A, nodes
      <4> QED BY <1>4
    <3>2. nodes[i].id = nodes[k].id
      <4> HIDE DEF f, A, nodes
      <4> QED BY <1>3, <2>2, <3>1
    <3> QED BY <3>2 DEF Distinct
  <2>4. /\ PortsOf(new, Resolve(f, nodes[d].id), TRUE)
               = RowsIn(f, nodes[d].id, TRUE, OutputsOf(drawing, nodes[d].id))
        /\ PortsOf(new, Resolve(f, nodes[d].id), FALSE)
               = RowsIn(f, nodes[d].id, FALSE, InputsOf(drawing, nodes[d].id))
    <3>1. drawing \in DrawingType /\ Mapped(f)
      BY <1>2, <1>3
    <3> HIDE DEF f, drawing
    <3> QED BY <2>3, <3>1, PortRowsSplit
  <2> HIDE DEF new, f, A, nodes
  <2> QED BY <2>1, <2>2, <2>4
<1>11. ASSUME NEW ends, NEW id \in A, NEW isOut,
              \A i \in DOMAIN ends : ends[i].peer \in A \cup 1..serial.node
       PROVE  Ends(a, ends) = Ends(b, RowsIn(f, id, isOut, ends))
  <2> DEFINE other == RowsIn(f, id, isOut, ends)
  <2>1. DOMAIN other = DOMAIN ends
    BY DEF RowsIn
  <2>2. \A i \in DOMAIN ends : other[i].kind = ends[i].kind /\ other[i].peer = Resolve(f, ends[i].peer)
    <3> HIDE DEF f
    <3> QED BY DEF RowsIn, PortRow
  <2>3. \A i \in DOMAIN ends : Label(a, ends[i].peer) = Label(b, other[i].peer)
    <3> HIDE DEF a, b, other, f, A
    <3> QED BY <1>7, <1>11, <2>2
  <2> HIDE DEF a, b, other, f, A
  <2> QED BY <2>1, <2>2, <2>3, SameEnds DEF other
<1>12. ASSUME NEW id \in A
       PROVE  Ends(a, outsA[id]) = Ends(b, outsB[f[id]]) /\ Ends(a, insA[id]) = Ends(b, insB[f[id]])
  <2>1. outsA[id] = OutputsOf(drawing, id) /\ insA[id] = InputsOf(drawing, id)
    <3> HIDE DEF A
    <3> QED OBVIOUS
  <2>2. /\ outsB[f[id]] = PortsOf(PortsAfter(c), f[id], TRUE)
        /\ insB[f[id]] = PortsOf(PortsAfter(c), f[id], FALSE)
    <3>1. f[id] \in B
      <4> HIDE DEF A, B, f, a, b
      <4> QED BY <1>6
    <3> HIDE DEF B, f
    <3> QED BY <3>1
  <2>3. /\ \A i \in DOMAIN OutputsOf(drawing, id) : OutputsOf(drawing, id)[i].peer \in A \cup 1..serial.node
        /\ \A i \in DOMAIN InputsOf(drawing, id) : InputsOf(drawing, id)[i].peer \in A \cup 1..serial.node
    BY <1>2, EndsKnown
  <2>4. Ends(a, OutputsOf(drawing, id)) = Ends(b, RowsIn(f, id, TRUE, OutputsOf(drawing, id)))
    <3> HIDE DEF A, a, b, f, drawing
    <3> QED BY <1>11, <2>3
  <2>5. Ends(a, InputsOf(drawing, id)) = Ends(b, RowsIn(f, id, FALSE, InputsOf(drawing, id)))
    <3> HIDE DEF A, a, b, f, drawing
    <3> QED BY <1>11, <2>3
  <2>6. /\ PortsOf(PortsAfter(c), f[id], TRUE) = RowsIn(f, id, TRUE, OutputsOf(drawing, id))
        /\ PortsOf(PortsAfter(c), f[id], FALSE) = RowsIn(f, id, FALSE, InputsOf(drawing, id))
    <3> HIDE DEF A, f, drawing, new
    <3> QED BY <1>9, <1>10
  <2> HIDE DEF A, B, a, b, f, drawing, outsA, insA, outsB, insB
  <2> QED BY <2>1, <2>2, <2>4, <2>5, <2>6
<1>13. Picture(a, outsA, insA) = Picture(b, outsB, insB)
  <2>1. DOMAIN a = A /\ DOMAIN b = B
    OBVIOUS
  <2>2. \A k \in B : \E id \in A : f[id] = k
    <3> HIDE DEF A, B, f, m
    <3> QED BY <1>1
  <2> HIDE DEF A, B, a, b, f, outsA, insA, outsB, insB
  <2> QED BY <1>6, <1>12, <2>1, <2>2, SamePicture
<1>14. ShownOf(m, PortsAfter(c), c.job) = Picture(b, outsB, insB)
  BY DEF ShownOf
<1>15. Drawn(drawing) = Picture(a, outsA, insA)
  BY DEF Drawn
<1> HIDE DEF m, a, b, outsA, insA, outsB, insB, drawing
<1> QED BY <1>13, <1>14, <1>15 DEF m, drawing

(* The graph of another job is what it was. *)
LEMMA SaveSpares ==
    ASSUME TypeInv, NEW c, CallSound(c, serial), Distinct(c.drawing.nodes),
           \A id \in c.seen \cap DOMAIN node : node[id].job = c.job, NEW k, k # c.job
    PROVE  /\ NodesIn(NodesAfter(c), k) = NodesIn(node, k)
           /\ ShownOf(NodesAfter(c), PortsAfter(c), k) = ShownOf(node, ports, k)
           /\ SameGraph(NodesAfter(c), PortsAfter(c), node, ports, k)
<1> DEFINE nodes == c.drawing.nodes
           ids == NodeIdsOf(nodes)
           f == IdMap(c)
           m == NodesAfter(c)
           new == PortRows(c.drawing, f)
<1>1. /\ DOMAIN m = (DOMAIN node \ (c.seen \ Kept(c))) \cup {f[id] : id \in ids \ Kept(c)}
      /\ \A i \in DOMAIN nodes :
            /\ nodes[i].id \in Kept(c) /\ nodes[i].id \in DOMAIN node
                   => /\ m[nodes[i].id].job = node[nodes[i].id].job
                      /\ m[nodes[i].id].what = nodes[i].what
            /\ nodes[i].id \notin Kept(c)
                   => m[f[nodes[i].id]] = [job |-> c.job, what |-> nodes[i].what]
      /\ \A id \in DOMAIN node \ c.seen : m[id] = node[id]
  BY NodesAfterExact
<1>2. /\ DOMAIN f = ids /\ \A id \in Kept(c) : f[id] = id
      /\ \A id \in ids \ Kept(c) : f[id] \in (serial.node + 1)..(serial.node + Len(Fresh(c)))
  BY IdMapIs
<1>3. /\ c \in CallType /\ c.drawing \in DrawingType /\ ports \in Seq(PortType)
      /\ serial.node \in Nat /\ DOMAIN node \subseteq 1..serial.node
  BY DEF CallSound, CallType, TypeInv, TablesType
<1>4. \A id \in ids : \E i \in DOMAIN nodes : nodes[i].id = id
  BY DEF NodeIdsOf
<1>5. Kept(c) \subseteq ids /\ Kept(c) \subseteq c.seen
  BY DEF Kept
<1>6. Len(Fresh(c)) \in Nat
  BY <1>3, FreshIs
<1>7. \A id \in NodesIn(node, k) : id \in DOMAIN node /\ node[id].job = k /\ id \notin c.seen
  BY DEF NodesIn
<1>8. new \in Seq(PortType) /\ \A i \in DOMAIN new : new[i].owner \in {f[id] : id \in ids}
  <2>1. /\ new \in Seq(PortType)
        /\ \A i \in DOMAIN new : \E d \in DOMAIN nodes : new[i].owner = Resolve(f, nodes[d].id)
    <3>1. \A id \in DOMAIN f : f[id] \in Nat
      BY IdMapApart, IdMapIs
    <3> HIDE DEF f
    <3> QED BY <1>3, <3>1, PortRowsType
  <2>2. \A d \in DOMAIN nodes : Resolve(f, nodes[d].id) \in {f[id] : id \in ids}
    <3>1. \A d \in DOMAIN nodes : nodes[d].id \in ids
      BY DEF NodeIdsOf
    <3> HIDE DEF f, ids, nodes
    <3> QED BY <1>2, <3>1 DEF Resolve
  <2> HIDE DEF new, f, ids, nodes
  <2> QED BY <2>1, <2>2
<1> HIDE DEF ids, f, m, nodes, new
<1>9. NodesIn(node, k) \subseteq NodesIn(m, k)
  BY <1>1, <1>7 DEF NodesIn
<1>10. NodesIn(m, k) \subseteq NodesIn(node, k)
  <2> SUFFICES ASSUME NEW id \in DOMAIN m, m[id].job = k PROVE id \in DOMAIN node /\ node[id].job = k
    BY DEF NodesIn
  <2>1. CASE id \in DOMAIN node /\ id \notin c.seen
    BY <1>1, <2>1
  <2>2. CASE id \in DOMAIN node /\ id \in Kept(c)
    <3>1. PICK i \in DOMAIN nodes : nodes[i].id = id
      BY <1>4, <1>5, <2>2
    <3>2. m[id].job = node[id].job
      BY <1>1, <2>2, <3>1
    <3>3. node[id].job = c.job
      BY <1>5, <2>2
    <3> QED BY <3>2, <3>3
  <2>3. CASE id \in {f[x] : x \in ids \ Kept(c)}
    <3>1. PICK x \in ids \ Kept(c) : id = f[x]
      BY <2>3
    <3>2. PICK i \in DOMAIN nodes : nodes[i].id = x
      BY <1>4, <3>1
    <3>3. m[id] = [job |-> c.job, what |-> nodes[i].what]
      BY <1>1, <3>1, <3>2
    <3> QED BY <3>3
  <2> QED BY <1>1, <2>1, <2>2, <2>3
<1>11. NodesIn(m, k) = NodesIn(node, k)
  BY <1>9, <1>10
<1>12. \A id \in NodesIn(m, k) : m[id].what = node[id].what
  BY <1>1, <1>7, <1>11
<1>13. ASSUME NEW id \in NodesIn(m, k), NEW isOut \in BOOLEAN
       PROVE  PortsOf(PortsAfter(c), id, isOut) = PortsOf(ports, id, isOut)
  <2>1. id \notin c.seen /\ id \in 1..serial.node
    BY <1>3, <1>7, <1>11
  <2>2. \A x \in ids : f[x] # id
    <3> SUFFICES ASSUME NEW x \in ids PROVE f[x] # id
      OBVIOUS
    <3>1. CASE x \in Kept(c)
      BY <1>2, <1>5, <2>1, <3>1
    <3>2. CASE x \notin Kept(c)
      <4>1. f[x] \in (serial.node + 1)..(serial.node + Len(Fresh(c)))
        BY <1>2, <3>2
      <4> QED BY <1>3, <1>6, <2>1, <4>1
    <3> QED BY <3>1, <3>2
  <2>3. Foreign(new, {}, id)
    BY <1>8, <2>2 DEF Foreign
  <2>4. PICK rows \in Seq(PortType) : rows = new
    BY <1>8
  <2>5. Foreign(rows, {}, id)
    BY <2>3, <2>4
  <2>6. ports \in Seq(PortType) /\ id \notin c.seen
    BY <1>3, <2>1
  <2>7. PortsOf(Picked(ports, {i \in DOMAIN ports : ports[i].owner \notin c.seen}) \o rows, id, isOut)
            = PortsOf(ports, id, isOut)
    BY <2>5, <2>6, OthersPorts
  <2>8. PortsAfter(c) = Picked(ports, {i \in DOMAIN ports : ports[i].owner \notin c.seen}) \o new
    BY DEF PortsAfter, new, f
  <2> QED BY <2>4, <2>7, <2>8
<1>14. /\ ShownOf(m, PortsAfter(c), k) = ShownOf(node, ports, k)
       /\ SameGraph(m, PortsAfter(c), node, ports, k)
  <2>1. PICK after : after = PortsAfter(c)
    OBVIOUS
  <2>2. \A id \in NodesIn(m, k), isOut \in BOOLEAN : PortsOf(after, id, isOut) = PortsOf(ports, id, isOut)
    BY <1>13, <2>1
  <2>3. SameGraph(m, after, node, ports, k)
    BY <1>11, <1>12, <2>2 DEF SameGraph
  <2> QED BY <1>11, <1>12, <2>1, <2>2, <2>3, ShownSame
<1> QED BY <1>11, <1>14 DEF m

(* Deleting a job leaves the graphs of the others. *)
LEMMA DeleteSpares ==
    ASSUME TypeInv, NEW j, Cascade(j), NEW k, k # j
    PROVE  /\ NodesIn(node', k) = NodesIn(node, k)
           /\ ShownOf(node', ports', k) = ShownOf(node, ports, k)
           /\ SameGraph(node', ports', node, ports, k)
<1> DEFINE others == DOMAIN node \ NodesOf(j)
<1>1. /\ node' = [id \in others |-> node[id]]
      /\ ports' = Picked(ports, {i \in DOMAIN ports : ports[i].owner \in others})
      /\ ports \in Seq(PortType)
  BY DEF Cascade, TypeInv, TablesType
<1>2. \A id \in DOMAIN node : node[id].job = k => id \in others
  BY DEF NodesOf
<1> HIDE DEF others
<1>3. NodesIn(node', k) = NodesIn(node, k) /\ \A id \in NodesIn(node', k) : node'[id].what = node[id].what
  <2>1. others \subseteq DOMAIN node
    BY DEF others
  <2> QED BY <1>1, <1>2, <2>1 DEF NodesIn
<1>4. ASSUME NEW id \in NodesIn(node', k), NEW isOut \in BOOLEAN
      PROVE  PortsOf(ports', id, isOut) = PortsOf(ports, id, isOut)
  <2>1. id \in others
    BY <1>1 DEF NodesIn
  <2> QED BY <1>1, <2>1, StayingPorts
<1>5. SameGraph(node', ports', node, ports, k)
  BY <1>3, <1>4 DEF SameGraph
<1> QED BY <1>3, <1>4, <1>5, ShownSame

-----------------------------------------------------------------------------
(* Drawings and their ids, step by step.                                     *)

(* What is known stays known as ids are given out. *)
LEMMA KnownLater ==
    ASSUME NEW last \in [job : Nat, node : Nat], NEW next, Later(last, next)
    PROVE  /\ \A e : EditorKnown(e, last) => EditorKnown(e, next)
           /\ \A c : CallKnown(c, last) => CallKnown(c, next)
           /\ \A rows : PeersKnown(rows, last) => PeersKnown(rows, next)
<1>0. last.node \in Nat /\ next.node \in Nat /\ last.node <= next.node
  BY DEF Later
<1>1. 1..last.node \subseteq 1..next.node
  BY <1>0
<1>2. \A nodes, links : LinksKnown(nodes, links, last) => LinksKnown(nodes, links, next)
  BY <1>1 DEF LinksKnown
<1>3. \A rows : PeersKnown(rows, last) => PeersKnown(rows, next)
  BY <1>1 DEF PeersKnown
<1> QED BY <1>2, <1>3 DEF EditorKnown, CallKnown

\* A request carries on with what it holds, or holds nothing.
CallGoesOn(c, d) ==
    \/ d.drawing = Blank /\ d.ports = <<>>
    \/ /\ d.drawing = c.drawing /\ d.ports = c.ports
       /\ d.op \in {"save", "saving"} => c.op \in {"save", "saving"}

EditorGoesOn(e, d) == d.nodes = e.nodes /\ d.links = e.links /\ d.next = e.next

CallsGoOn == \A p \in Callers : CallGoesOn(call[p], call'[p])
EditorsGoOn == \A u \in Users : EditorGoesOn(editor[u], editor'[u])

(* Whoever does not carry on has got something known. *)
LEMMA DrawingsMove ==
    ASSUME TypeInv, DrawingsKnown, Later(serial, serial'), PeersKnown(ports', serial'),
           \A p \in Callers : CallGoesOn(call[p], call'[p]) \/ CallKnown(call'[p], serial'),
           \A u \in Users : EditorGoesOn(editor[u], editor'[u]) \/ EditorKnown(editor'[u], serial')
    PROVE  DrawingsKnown'
<1>1. serial \in [job : Nat, node : Nat]
  BY DEF TypeInv, TablesType
<1>2. /\ \A e : EditorKnown(e, serial) => EditorKnown(e, serial')
      /\ \A c : CallKnown(c, serial) => CallKnown(c, serial')
  BY <1>1, KnownLater
<1>3. \A c : c.drawing = Blank /\ c.ports = <<>> => CallKnown(c, serial')
  BY DEF CallKnown, Distinct, PeersKnown, LinksKnown, Blank
<1>4. \A c, d : CallKnown(c, serial') /\ CallGoesOn(c, d) => CallKnown(d, serial')
  BY <1>3 DEF CallKnown, CallGoesOn
<1>5. \A e, d : EditorKnown(e, serial') /\ EditorGoesOn(e, d) => EditorKnown(d, serial')
  BY DEF EditorKnown, EditorGoesOn
<1>6. \A p \in Callers : CallKnown(call'[p], serial')
  BY <1>2, <1>4 DEF DrawingsKnown
<1>7. \A u \in Users : EditorKnown(editor'[u], serial')
  BY <1>2, <1>5 DEF DrawingsKnown
<1> QED BY <1>6, <1>7 DEF DrawingsKnown

(* One caller moves, and carries on. *)
LEMMA CallGoes ==
    ASSUME TypeInv, NEW p \in Callers, NEW c, call' = [call EXCEPT ![p] = c], CallGoesOn(call[p], c)
    PROVE  CallsGoOn
<1>1. \A q \in Callers : call'[q] = IF q = p THEN c ELSE call[q]
  BY DEF TypeInv, CallsType
<1>2. \A q \in Callers : CallGoesOn(call[q], call[q])
  BY DEF CallGoesOn
<1> QED BY <1>1, <1>2 DEF CallsGoOn

(* Nobody moves; a caller returns, or begins. *)
LEMMA CallRests ==
    ASSUME TypeInv
    PROVE  /\ UNCHANGED call => CallsGoOn
           /\ UNCHANGED editor => EditorsGoOn
           /\ \A p \in Callers : Return(p) => CallsGoOn
           /\ \A c, op, j : CallGoesOn(c, [Idle EXCEPT !.op = op, !.job = j]) /\ CallGoesOn(c, Idle)
<1>1. \A c, op, j : CallGoesOn(c, [Idle EXCEPT !.op = op, !.job = j]) /\ CallGoesOn(c, Idle)
  BY DEF CallGoesOn, Idle
<1>2. ASSUME NEW p \in Callers, Return(p) PROVE CallsGoOn
  BY <1>1, <1>2, CallGoes DEF Return
<1>3. UNCHANGED call => CallsGoOn
  BY DEF CallsGoOn, CallGoesOn
<1>4. UNCHANGED editor => EditorsGoOn
  BY DEF EditorsGoOn, EditorGoesOn
<1> QED BY <1>1, <1>2, <1>3, <1>4

(* Overtaking changes neither drawings nor ports. *)
LEMMA OvertakeGoes ==
    ASSUME TypeInv, NEW u \in Users, NEW j, Overtake(u, j)
    PROVE  CallsGoOn /\ EditorsGoOn
<1>1. \A p \in Callers : call[p] \in CallType
  BY CallIs
<1>2. \A v \in Users : editor[v] \in EditorType
  BY EditorIs
<1>3. \A c \in CallType : CallGoesOn(c, [c EXCEPT !.behind = TRUE, !.clean = FALSE])
  BY DEF CallGoesOn, CallType
<1>4. \A e \in EditorType : EditorGoesOn(e, [e EXCEPT !.clean = FALSE])
  BY DEF EditorGoesOn, EditorType
<1>5. \A c : CallGoesOn(c, c) /\ CallGoesOn(c, Idle) /\ EditorGoesOn(c, c)
  BY DEF CallGoesOn, EditorGoesOn, Idle
<1>6. \A p \in Callers :
          call'[p] = IF p = u THEN Idle
                     ELSE IF call[p].job = j THEN [call[p] EXCEPT !.behind = TRUE, !.clean = FALSE]
                     ELSE call[p]
  BY DEF Overtake
<1>7. \A v \in Users :
          editor'[v] = IF v = u \/ editor[v].job = j THEN [editor[v] EXCEPT !.clean = FALSE] ELSE editor[v]
  BY DEF Overtake
<1>8. CallsGoOn
  BY <1>1, <1>3, <1>5, <1>6 DEF CallsGoOn
<1>9. EditorsGoOn
  BY <1>2, <1>4, <1>5, <1>7 DEF EditorsGoOn
<1> QED BY <1>8, <1>9

-----------------------------------------------------------------------------
(* Steps that leave the graphs alone.                                        *)

\* No save begins, and only the creator of a job begins to delete it.
QuietCall(u, c, d) ==
    /\ d.op = "saving" => d = c
    /\ d.op \in {"delete", "deleting"} =>
          \/ c.op \in {"delete", "deleting"} /\ d.job = c.job
          \/ d.job \in DOMAIN job /\ job[d.job].creator = u

JobsStay ==
    /\ DOMAIN job' = DOMAIN job
    /\ \A j \in DOMAIN job : job'[j] \in [creator : {job[j].creator}, public : BOOLEAN]

Quiet ==
    /\ UNCHANGED <<node, ports>> /\ JobsStay
    /\ \A u \in Users : QuietCall(u, call[u], call'[u])

(* Such a step keeps what is known of jobs and saves. *)
LEMMA QuietAhead ==
    ASSUME JobsOwned, SavesAhead, Quiet
    PROVE  JobsOwned' /\ SavesAhead'
<1>1. \A j \in DOMAIN job' : job'[j] \in [creator : Users, public : BOOLEAN]
  BY DEF Quiet, JobsStay, JobsOwned
<1>2. \A j \in DOMAIN job : j \in DOMAIN job' /\ job'[j].creator = job[j].creator
  BY DEF Quiet, JobsStay
<1>3. ASSUME NEW u \in Users PROVE DeleteAhead(u)'
  <2>1. QuietCall(u, call[u], call'[u]) /\ DeleteAhead(u)
    BY DEF Quiet, JobsOwned
  <2> QED BY <1>2, <2>1 DEF QuietCall, DeleteAhead
<1>4. ASSUME NEW u \in Users PROVE SaveAhead(call[u])'
  <2>1. QuietCall(u, call[u], call'[u]) /\ SaveAhead(call[u]) /\ node' = node
    BY DEF Quiet, SavesAhead
  <2> QED BY <2>1 DEF QuietCall, SaveAhead, NodesOf
<1> QED BY <1>1, <1>3, <1>4 DEF JobsOwned, SavesAhead

(* Jobs that are left alone stay. *)
LEMMA JobsSame ==
    ASSUME JobsOwned, UNCHANGED job
    PROVE  JobsStay
<1> QED BY DEF JobsOwned, JobsStay

(* One caller moves, and neither saves nor deletes. *)
LEMMA QuietMove ==
    ASSUME TypeInv, UNCHANGED <<node, ports>>, JobsStay, NEW p \in Callers, NEW c,
           call' = [call EXCEPT ![p] = c], p \in Users => QuietCall(p, call[p], c)
    PROVE  Quiet
<1>1. \A q \in Callers : call'[q] = IF q = p THEN c ELSE call[q]
  BY DEF TypeInv, CallsType
<1>2. \A u \in Users : QuietCall(u, call[u], call[u])
  BY DEF QuietCall
<1>3. Users \subseteq Callers
  BY DEF Callers
<1> QED BY <1>1, <1>2, <1>3 DEF Quiet

(* Nobody moves, or a caller returns. *)
LEMMA QuietRest ==
    ASSUME TypeInv, UNCHANGED <<node, ports>>, JobsStay
    PROVE  /\ UNCHANGED call => Quiet
           /\ \A p \in Callers : Return(p) => Quiet
<1>1. \A u \in Users : QuietCall(u, call[u], call[u]) /\ QuietCall(u, call[u], Idle)
  BY DEF QuietCall, Idle
<1>2. ASSUME NEW p \in Callers, Return(p) PROVE Quiet
  BY <1>1, <1>2, QuietMove DEF Return
<1> QED BY <1>1, <1>2 DEF Quiet

(* A request that begins, and does not delete. *)
LEMMA QuietAsk ==
    ASSUME NEW u, NEW c, NEW op \in {"open", "execute", "patch", "contact", "share"}, NEW j
    PROVE  QuietCall(u, c, [Idle EXCEPT !.op = op, !.job = j])
<1> QED BY DEF QuietCall, Idle

(* Loading is quiet. *)
LEMMA LoadingQuiet ==
    ASSUME TypeInv, JobsOwned, Loading
    PROVE  Quiet
<1>1. UNCHANGED <<node, ports, job>>
  BY DEF Loading, Open, Execute, LoadNodes, LoadIns, Abandon, LoadOuts, LoadRun, RunEnds,
         RunKillsServer, tables
<1>2. JobsStay /\ UNCHANGED <<node, ports>> /\ Users \subseteq Callers /\ Runner \in Callers
  BY <1>1, JobsSame DEF Callers
<1>3. ASSUME NEW u \in Users, NEW j, Open(u, j) PROVE Quiet
  <2>1. call' = [call EXCEPT ![u] = [Idle EXCEPT !.op = "open", !.job = j]]
    BY <1>3 DEF Open
  <2> QED BY <1>2, <2>1, QuietAsk, QuietMove
<1>4. ASSUME NEW j, Execute(j) PROVE Quiet
  <2>1. call' = [call EXCEPT ![Runner] = [Idle EXCEPT !.op = "execute", !.job = j]]
    BY <1>4 DEF Execute
  <2> QED BY <1>2, <2>1, QuietAsk, QuietMove
<1>5. ASSUME NEW p \in Callers, LoadNodes(p) \/ LoadIns(p) PROVE Quiet
  <2>1. \A q \in Callers : q # p => call'[q] = call[q]
    BY <1>5 DEF LoadNodes, LoadIns, TypeInv, CallsType
  <2>2. call'[p].op \in {"ins", "outs"}
    <3>1. call[p] \in CallType /\ DOMAIN call = Callers
      BY CallIs DEF TypeInv, CallsType
    <3>2. CASE LoadNodes(p)
      <4> DEFINE c == [call[p] EXCEPT !.op = "ins", !.behind = FALSE,
                                      !.drawing.nodes = RowsOf(call[p].job)]
      <4>1. call' = [call EXCEPT ![p] = c]
        BY <3>2 DEF LoadNodes
      <4>2. c.op = "ins"
        BY <3>1 DEF CallType
      <4> HIDE DEF c
      <4> QED BY <3>1, <4>1, <4>2
    <3>3. CASE LoadIns(p)
      <4> DEFINE c == [call[p] EXCEPT !.op = "outs", !.ports = PreloadPorts(p, FALSE)]
      <4>1. call' = [call EXCEPT ![p] = c]
        BY <3>3 DEF LoadIns
      <4>2. c.op = "outs"
        BY <3>1 DEF CallType
      <4> HIDE DEF c
      <4> QED BY <3>1, <4>1, <4>2
    <3> QED BY <1>5, <3>2, <3>3
  <2>3. \A u \in Users : QuietCall(u, call[u], call'[u])
    BY <1>2, <2>1, <2>2 DEF QuietCall
  <2> QED BY <1>2, <2>3 DEF Quiet
<1>6. ASSUME LoadRun PROVE Quiet
  <2>1. \A u \in Users : call'[u] = call[u]
    BY <1>6, JobAssumption DEF LoadRun, TypeInv, CallsType, Callers
  <2> QED BY <1>2, <2>1 DEF Quiet, QuietCall
<1>7. ASSUME RunKillsServer PROVE Quiet
  <2>1. \A u \in Users : call'[u] = Idle
    BY <1>7 DEF RunKillsServer, Callers
  <2> QED BY <1>2, <2>1 DEF Quiet, QuietCall, Idle
<1>8. ASSUME NEW p \in Callers, Return(p) PROVE Quiet
  BY <1>2, <1>8, QuietRest
<1> QED BY <1>2, <1>3, <1>4, <1>5, <1>6, <1>7, <1>8 DEF Loading, Abandon, LoadOuts, RunEnds

(* So is drawing. *)
LEMMA EditingQuiet ==
    ASSUME TypeInv, JobsOwned, NEW u \in Users, Editing(u)
    PROVE  Quiet
<1>1. UNCHANGED <<node, ports, job, call>>
  BY DEF Editing, Draw, Connect, Erase, Stroke, tables
<1> QED BY <1>1, JobsSame, QuietRest

(* A save is quiet when it begins, when there is nothing to store and when it *)
(* is refused.                                                                *)
LEMMA SavingQuiet ==
    ASSUME TypeInv, JobsOwned, NEW u \in Users, Save(u) \/ SaveEmpty(u) \/ SaveRefused(u)
    PROVE  Quiet
<1>1. UNCHANGED <<node, ports, job>> /\ u \in Callers
  BY DEF Save, SaveEmpty, SaveRefused, tables, Callers
<1>2. JobsStay /\ UNCHANGED <<node, ports>>
  BY <1>1, JobsSame
<1>3. CASE Save(u)
  <2> DEFINE c == [Idle EXCEPT !.op = "save", !.job = editor[u].job, !.clean = editor[u].clean,
                       !.drawing = [nodes |-> editor[u].nodes, links |-> editor[u].links]]
  <2>1. call' = [call EXCEPT ![u] = c]
    BY <1>3 DEF Save
  <2>2. QuietCall(u, call[u], c)
    BY DEF QuietCall, Idle
  <2> HIDE DEF c
  <2> QED BY <1>1, <1>2, <2>1, <2>2, QuietMove
<1>4. CASE SaveEmpty(u) \/ SaveRefused(u)
  BY <1>1, <1>2, <1>4, QuietRest DEF SaveEmpty, SaveRefused
<1> QED BY <1>3, <1>4

(* Only the creator of a job may delete it. *)
LEMMA OwnerIs ==
    ASSUME TypeInv, NEW u, NEW j, Role(u, j) \in Needed("delete")
    PROVE  j \in DOMAIN job /\ job[j].creator = u
<1>1. Role(u, j) = "owner"
  BY DEF Needed
<1> DEFINE shares == {a \in access : a.job = j /\ a.user = u}
<1>2. shares # {} => (CHOOSE a \in shares : TRUE).role \in {"editor", "viewer"}
  <2> SUFFICES ASSUME shares # {} PROVE (CHOOSE a \in shares : TRUE).role \in {"editor", "viewer"}
    OBVIOUS
  <2>1. (CHOOSE a \in shares : TRUE) \in shares
    <3> HIDE DEF shares
    <3> QED BY Zenon
  <2>2. \A a \in shares : a.role \in {"editor", "viewer"}
    BY DEF TypeInv, TablesType, SharesType
  <2> HIDE DEF shares
  <2> QED BY <2>1, <2>2
<1>3. Role(u, j) = IF j \notin DOMAIN job THEN "none"
                   ELSE IF job[j].creator = u THEN "owner"
                   ELSE IF job[j].public THEN "viewer"
                   ELSE IF shares # {} THEN (CHOOSE a \in shares : TRUE).role
                   ELSE "none"
  BY Zenon DEF Role
<1> HIDE DEF shares
<1> QED BY <1>1, <1>2, <1>3

(* The other requests are quiet, but those that create a job or delete one. *)
LEMMA ManagingQuiet ==
    ASSUME TypeInv, JobsOwned, NEW u \in Users, Managing(u)
    PROVE  Quiet \/ (\E public \in BOOLEAN : Create(u, public)) \/ DeleteJob(u)
<1>0. u \in Callers /\ call[u] \in CallType /\ DOMAIN call = Callers
  BY CallIs DEF Callers, TypeInv, CallsType
<1>1. ASSUME NEW j, NEW op \in {"patch", "contact", "delete", "share"}, Check(u, op, j) PROVE Quiet
  <2> DEFINE c == [Idle EXCEPT !.op = op, !.job = j]
  <2>1. call' = [call EXCEPT ![u] = c] /\ UNCHANGED <<node, ports, job>>
    BY <1>1 DEF Check, tables
  <2>2. QuietCall(u, call[u], c)
    <3>1. CASE op # "delete"
      BY <3>1, QuietAsk
    <3>2. CASE op = "delete"
      <4>1. j \in DOMAIN job /\ job[j].creator = u
        BY <1>1, <3>2, OwnerIs DEF Check, Passes
      <4>2. c.op = "delete" /\ c.job = j
        BY <3>2 DEF Idle
      <4> HIDE DEF c
      <4> QED BY <4>1, <4>2 DEF QuietCall
    <3> QED BY <3>1, <3>2
  <2> HIDE DEF c
  <2> QED BY <1>0, <2>1, <2>2, JobsSame, QuietMove
<1>2. ASSUME NEW public \in BOOLEAN, Patch(u, public) PROVE Quiet
  <2> DEFINE j == call[u].job
  <2>1. UNCHANGED <<node, ports>> /\ call[u].op = "patch"
    BY <1>2 DEF Patch
  <2>2. JobsStay
    <3>1. CASE j \notin DOMAIN job
      BY <1>2, <3>1, JobsSame DEF Patch
    <3>2. CASE j \in DOMAIN job
      <4>1. job' = [job EXCEPT ![j].public = public]
        BY <1>2, <3>2 DEF Patch
      <4>2. \A k \in DOMAIN job : job[k] \in [creator : Users, public : BOOLEAN]
        BY DEF JobsOwned
      <4>3. DOMAIN job' = DOMAIN job
        BY <4>1
      <4>4. ASSUME NEW k \in DOMAIN job PROVE job'[k] \in [creator : {job[k].creator}, public : BOOLEAN]
        <5>1. job'[k] = IF k = j THEN [job[k] EXCEPT !.public = public] ELSE job[k]
          <6> HIDE DEF j
          <6> QED BY <4>1
        <5> QED BY <4>2, <5>1
      <4> QED BY <4>3, <4>4 DEF JobsStay
    <3> QED BY <3>1, <3>2
  <2>3. \E c : call' = [call EXCEPT ![u] = c] /\ QuietCall(u, call[u], c)
    <3>1. CASE j \notin DOMAIN job
      <4>1. QuietCall(u, call[u], Idle)
        BY DEF QuietCall, Idle
      <4> QED BY <1>2, <3>1, <4>1 DEF Patch, Return
    <3>2. CASE j \in DOMAIN job
      <4>1. PICK op \in {"idle", "relist"} :
               call' = [call EXCEPT ![u] = IF op = "idle" THEN Idle ELSE [@ EXCEPT !.op = op]]
        BY <1>2, <3>2 DEF Patch
      <4> DEFINE c == IF op = "idle" THEN Idle ELSE [call[u] EXCEPT !.op = op]
      <4>2. call' = [call EXCEPT ![u] = c]
        BY <4>1
      <4>3. c.op \in {"idle", "relist"}
        BY <1>0 DEF CallType, Idle
      <4>4. QuietCall(u, call[u], c)
        <5> HIDE DEF c
        <5> QED BY <4>3 DEF QuietCall
      <4> HIDE DEF c
      <4> QED BY <4>2, <4>4
    <3> QED BY <3>1, <3>2
  <2>4. PICK c : call' = [call EXCEPT ![u] = c] /\ QuietCall(u, call[u], c)
    BY <2>3
  <2> QED BY <1>0, <2>1, <2>2, <2>4, QuietMove
<1>3. ASSUME Return(u), UNCHANGED <<job, node, ports>> PROVE Quiet
  BY <1>0, <1>3, JobsSame, QuietRest
<1>4. ASSUME DeleteAccess(u) PROVE Quiet
  <2> DEFINE c == [call[u] EXCEPT !.op = "deleting"]
  <2>1. call' = [call EXCEPT ![u] = c] /\ UNCHANGED <<node, ports, job>> /\ call[u].op = "delete"
    BY <1>4 DEF DeleteAccess, Step
  <2>2. c.op = "deleting" /\ c.job = call[u].job
    BY <1>0 DEF CallType
  <2> HIDE DEF c
  <2>3. QuietCall(u, call[u], c)
    BY <2>1, <2>2 DEF QuietCall
  <2> QED BY <1>0, <2>1, <2>3, JobsSame, QuietMove
<1>5. ASSUME NEW with, ShareCreated(u, with) \/ Relist(u, with) PROVE Quiet
  BY <1>3, <1>5 DEF ShareCreated, Relist
<1>6. ASSUME NEW v, NEW role, Share(u, v, role) PROVE Quiet
  BY <1>3, <1>6 DEF Share
<1>7. ASSUME NEW v, Unshare(u, v) \/ AddContact(u, v) \/ RemoveContact(u, v) PROVE Quiet
  BY <1>3, <1>7 DEF Unshare, AddContact, RemoveContact
<1> QED BY <1>1, <1>2, <1>4, <1>5, <1>6, <1>7 DEF Managing

-----------------------------------------------------------------------------
(* The steps that are not quiet.                                             *)

(* A save reads the ids of its job. *)
LEMMA SaveReadIs ==
    ASSUME TypeInv, NEW u \in Users, SaveRead(u)
    PROVE  /\ UNCHANGED <<job, node, ports, serial, editor>> /\ call[u].op = "save"
           /\ \A v \in Users : v # u => call'[v] = call[v]
           /\ call'[u] \in CallType /\ call'[u].op = "saving" /\ call'[u].job = call[u].job
           /\ ~call'[u].behind /\ call'[u].seen = NodesOf(call[u].job)
           /\ call'[u].drawing = call[u].drawing /\ call'[u].ports = call[u].ports
           /\ \A q \in Callers : q # u => call'[q] = call[q]
<1> DEFINE ids == NodesOf(call[u].job)
           c == [call[u] EXCEPT !.op = "saving", !.behind = FALSE, !.seen = ids]
<1>1. u \in Callers /\ call[u] \in CallType /\ DOMAIN call = Callers /\ Users \subseteq Callers
  BY CallIs DEF Callers, TypeInv, CallsType
<1>2. call' = [call EXCEPT ![u] = c] /\ UNCHANGED <<job, node, ports, serial, editor>> /\ call[u].op = "save"
  BY DEF SaveRead, tables
<1>3. /\ c.op = "saving" /\ c.job = call[u].job /\ c.behind = FALSE /\ c.seen = ids
      /\ c.drawing = call[u].drawing /\ c.ports = call[u].ports
  <2> HIDE DEF ids
  <2> QED BY <1>1 DEF CallType
<1>4. c \in CallType
  <2>1. TypeInv'
    BY SaveReadType
  <2>2. call'[u] = c
    <3> HIDE DEF c
    <3> QED BY <1>1, <1>2
  <2> HIDE DEF c
  <2> QED BY <1>1, <2>1, <2>2 DEF TypeInv, CallsType, CallSound
<1> HIDE DEF c
<1> QED BY <1>1, <1>2, <1>3, <1>4

(* What overtaking does to the others. *)
LEMMA OvertakeIs ==
    ASSUME TypeInv, NEW u \in Users, NEW j, Overtake(u, j)
    PROVE  /\ call'[u] = Idle
           /\ \A v \in Users : v # u =>
                 /\ call'[v].op = call[v].op /\ call'[v].job = call[v].job
                 /\ call'[v].seen = call[v].seen /\ call'[v].drawing = call[v].drawing
                 /\ call'[v].behind = (call[v].job = j \/ call[v].behind)
<1>1. Users \subseteq Callers
  BY DEF Callers
<1>2. \A v \in Users : call[v] \in CallType
  BY <1>1, CallIs
<1>3. call'[u] = Idle
  BY <1>1 DEF Overtake
<1>4. ASSUME NEW v \in Users, v # u
      PROVE  /\ call'[v].op = call[v].op /\ call'[v].job = call[v].job
             /\ call'[v].seen = call[v].seen /\ call'[v].drawing = call[v].drawing
             /\ call'[v].behind = (call[v].job = j \/ call[v].behind)
  <2>1. call'[v] = IF call[v].job = j THEN [call[v] EXCEPT !.behind = TRUE, !.clean = FALSE] ELSE call[v]
    BY <1>1, <1>4 DEF Overtake
  <2>2. CASE call[v].job = j
    BY <1>2, <2>1, <2>2 DEF CallType
  <2>3. CASE call[v].job # j
    BY <1>2, <2>1, <2>3 DEF CallType
  <2> QED BY <2>2, <2>3
<1> QED BY <1>3, <1>4

(* A row keeps its job, and an id below the last one is given to no new row. *)
LEMMA SaveKeepsJobs ==
    ASSUME TypeInv, NEW c, CallSound(c, serial), Distinct(c.drawing.nodes)
    PROVE  \A id \in DOMAIN NodesAfter(c) :
               \/ id \in DOMAIN node /\ NodesAfter(c)[id].job = node[id].job
               \/ id \notin 1..serial.node /\ NodesAfter(c)[id].job = c.job
<1> DEFINE nodes == c.drawing.nodes
           ids == NodeIdsOf(nodes)
           f == IdMap(c)
           m == NodesAfter(c)
<1>1. /\ DOMAIN m = (DOMAIN node \ (c.seen \ Kept(c))) \cup {f[id] : id \in ids \ Kept(c)}
      /\ \A i \in DOMAIN nodes :
            /\ nodes[i].id \in Kept(c) /\ nodes[i].id \in DOMAIN node
                   => /\ m[nodes[i].id].job = node[nodes[i].id].job
                      /\ m[nodes[i].id].what = nodes[i].what
            /\ nodes[i].id \notin Kept(c)
                   => m[f[nodes[i].id]] = [job |-> c.job, what |-> nodes[i].what]
      /\ \A id \in DOMAIN node \ c.seen : m[id] = node[id]
  BY NodesAfterExact
<1>2. \A id \in ids \ Kept(c) : f[id] \in (serial.node + 1)..(serial.node + Len(Fresh(c)))
  BY IdMapIs
<1>3. c \in CallType /\ serial.node \in Nat
  BY DEF CallSound, TypeInv, TablesType
<1>4. \A id \in ids : \E i \in DOMAIN nodes : nodes[i].id = id
  BY DEF NodeIdsOf
<1>5. Len(Fresh(c)) \in Nat /\ Kept(c) \subseteq ids
  BY <1>3, FreshIs DEF Kept
<1> HIDE DEF ids, f, m, nodes
<1> SUFFICES ASSUME NEW id \in DOMAIN m
             PROVE  \/ id \in DOMAIN node /\ m[id].job = node[id].job
                    \/ id \notin 1..serial.node /\ m[id].job = c.job
  BY DEF m
<1>6. CASE id \in DOMAIN node /\ id \notin c.seen
  BY <1>1, <1>6
<1>7. CASE id \in DOMAIN node /\ id \in Kept(c)
  <2>1. PICK i \in DOMAIN nodes : nodes[i].id = id
    BY <1>4, <1>5, <1>7
  <2> QED BY <1>1, <1>7, <2>1
<1>8. CASE id \in {f[x] : x \in ids \ Kept(c)}
  <2>1. PICK x \in ids \ Kept(c) : id = f[x]
    BY <1>8
  <2>2. PICK i \in DOMAIN nodes : nodes[i].id = x
    BY <1>4, <2>1
  <2>3. m[id] = [job |-> c.job, what |-> nodes[i].what]
    BY <1>1, <2>1, <2>2
  <2>4. id \in (serial.node + 1)..(serial.node + Len(Fresh(c)))
    BY <1>2, <2>1
  <2>5. id \notin 1..serial.node
    BY <1>3, <1>5, <2>4
  <2> QED BY <2>3, <2>5
<1> QED BY <1>1, <1>6, <1>7, <1>8

(* A save that writes leaves the other saves with rows of their jobs. *)
LEMMA SaveWriteAhead ==
    ASSUME TypeInv, DrawingsKnown, JobsOwned, SavesAhead, NEW u \in Users, SaveWrite(u)
    PROVE  JobsOwned' /\ SavesAhead'
<1> DEFINE c == call[u]
<1>1. /\ CallSound(c, serial) /\ Distinct(c.drawing.nodes) /\ c.op = "saving"
      /\ \A id \in c.seen \cap DOMAIN node : node[id].job = c.job
  BY CallIs DEF Callers, SaveWrite, DrawingsKnown, CallKnown, SavesAhead, SaveAhead
<1>2. node' = NodesAfter(c) /\ UNCHANGED job /\ Overtake(u, c.job)
  BY DEF SaveWrite
<1> HIDE DEF c
<1>3. /\ call'[u] = Idle
      /\ \A v \in Users : v # u =>
            /\ call'[v].op = call[v].op /\ call'[v].job = call[v].job /\ call'[v].seen = call[v].seen
            /\ call'[v].behind = (call[v].job = c.job \/ call[v].behind)
  BY <1>2, OvertakeIs
<1>4. JobsOwned'
  BY <1>2, <1>3 DEF JobsOwned, DeleteAhead, Idle
<1>5. ASSUME NEW v \in Users PROVE SaveAhead(call[v])'
  <2>1. CASE v = u
    BY <1>3, <2>1 DEF SaveAhead, Idle
  <2>2. CASE v # u
    <3> SUFFICES ASSUME call[v].op = "saving"
                 PROVE  /\ \A id \in call[v].seen \cap DOMAIN node' : node'[id].job = call[v].job
                        /\ ~call'[v].behind => call[v].seen = NodesIn(node', call[v].job)
      BY <1>3, <2>2 DEF SaveAhead, NodesOf, NodesIn
    <3>1. /\ \A id \in call[v].seen \cap DOMAIN node : node[id].job = call[v].job
          /\ ~call[v].behind => call[v].seen = NodesIn(node, call[v].job)
          /\ call[v].seen \subseteq 1..serial.node
      BY CallIs DEF SavesAhead, SaveAhead, NodesOf, NodesIn, Callers, CallSound
    <3>2. \A id \in DOMAIN node' :
             \/ id \in DOMAIN node /\ node'[id].job = node[id].job
             \/ id \notin 1..serial.node /\ node'[id].job = c.job
      BY <1>1, <1>2, SaveKeepsJobs
    <3>3. \A id \in call[v].seen \cap DOMAIN node' : node'[id].job = call[v].job
      BY <3>1, <3>2
    <3>4. call[v].job # c.job => NodesIn(node', call[v].job) = NodesIn(node, call[v].job)
      BY <1>1, <1>2, SaveSpares
    <3> QED BY <1>3, <2>2, <3>1, <3>3, <3>4
  <2> QED BY <2>1, <2>2
<1> QED BY <1>4, <1>5 DEF SavesAhead

(* A save that has read its ids knows them all. *)
LEMMA SaveReadAhead ==
    ASSUME TypeInv, JobsOwned, SavesAhead, NEW u \in Users, SaveRead(u)
    PROVE  JobsOwned' /\ SavesAhead'
<1>1. /\ UNCHANGED <<job, node>> /\ \A v \in Users : v # u => call'[v] = call[v]
      /\ call'[u].op = "saving" /\ call'[u].job = call[u].job /\ call'[u].seen = NodesOf(call[u].job)
  BY SaveReadIs
<1>2. JobsOwned'
  BY <1>1 DEF JobsOwned, DeleteAhead
<1>3. ASSUME NEW v \in Users PROVE SaveAhead(call[v])'
  <2>1. CASE v = u
    BY <1>1, <2>1 DEF SaveAhead, NodesOf
  <2>2. CASE v # u
    BY <1>1, <2>2 DEF SavesAhead, SaveAhead, NodesOf
  <2> QED BY <2>1, <2>2
<1> QED BY <1>2, <1>3 DEF SavesAhead

(* A job that is created belongs to its creator. *)
LEMMA CreateIs ==
    ASSUME TypeInv, NEW u \in Users, NEW public, Create(u, public)
    PROVE  LET new == serial.job + 1
           IN /\ new \notin DOMAIN job /\ DOMAIN job' = DOMAIN job \cup {new}
              /\ \A j \in DOMAIN job : job'[j] = job[j]
              /\ job'[new] = [creator |-> u, public |-> public]
              /\ UNCHANGED <<access, contacts, node, ports, editor>> /\ serial'.node = serial.node
              /\ \A v \in Users : v # u => call'[v] = call[v]
              /\ call[u].op = "idle" /\ call'[u].op \in {"idle", "listed"}
<1> DEFINE new == serial.job + 1
<1>1. /\ serial' = [serial EXCEPT !.job = @ + 1] /\ UNCHANGED <<access, contacts, node, ports, editor>>
      /\ job' = [j \in DOMAIN job \cup {new} |->
                    IF j = new THEN [creator |-> u, public |-> public] ELSE job[j]]
      /\ call[u] = Idle
  BY DEF Create
<1>2. serial \in [job : Nat, node : Nat] /\ DOMAIN job \subseteq 1..serial.job
      /\ DOMAIN call = Callers /\ Users \subseteq Callers
  BY DEF TypeInv, TablesType, CallsType, Callers
<1>3. new \notin DOMAIN job /\ serial'.node = serial.node
  BY <1>1, <1>2
<1>4. PICK op \in {"idle", "listed"} :
          call' = [call EXCEPT ![u] =
               IF op = "idle" THEN Idle ELSE [Idle EXCEPT !.op = op, !.job = new]]
  BY DEF Create
<1>5. call'[u] = IF op = "idle" THEN Idle ELSE [Idle EXCEPT !.op = op, !.job = new]
  <2> HIDE DEF new
  <2> QED BY <1>2, <1>4
<1>6. call'[u].op \in {"idle", "listed"}
  <2> HIDE DEF new
  <2> QED BY <1>5 DEF Idle
<1>7. \A v \in Users : v # u => call'[v] = call[v]
  BY <1>2, <1>4
<1>8. /\ DOMAIN job' = DOMAIN job \cup {new} /\ \A j \in DOMAIN job : job'[j] = job[j]
      /\ job'[new] = [creator |-> u, public |-> public]
  <2> HIDE DEF new
  <2> QED BY <1>1, <1>3
<1> HIDE DEF new
<1> QED BY <1>1, <1>3, <1>6, <1>7, <1>8 DEF new, Idle

(* Creating a job leaves the saves as they are. *)
LEMMA CreateAhead ==
    ASSUME TypeInv, JobsOwned, SavesAhead, NEW u \in Users, NEW public \in BOOLEAN, Create(u, public)
    PROVE  JobsOwned' /\ SavesAhead'
<1>1. PICK new :
      /\ DOMAIN job' = DOMAIN job \cup {new}
      /\ \A j \in DOMAIN job : job'[j] = job[j]
      /\ job'[new] = [creator |-> u, public |-> public]
      /\ UNCHANGED node
      /\ \A v \in Users : v # u => call'[v] = call[v]
      /\ call'[u].op \in {"idle", "listed"}
  BY CreateIs
<1>2. \A j \in DOMAIN job' : job'[j] \in [creator : Users, public : BOOLEAN]
  BY <1>1 DEF JobsOwned
<1>3. \A v \in Users : DeleteAhead(v)'
  BY <1>1 DEF JobsOwned, DeleteAhead
<1>4. \A v \in Users : SaveAhead(call[v])'
  BY <1>1 DEF SavesAhead, SaveAhead, NodesOf
<1> QED BY <1>2, <1>3, <1>4 DEF JobsOwned, SavesAhead

(* Nobody else is deleting the job that goes. *)
LEMMA DeleteJobAhead ==
    ASSUME TypeInv, JobsOwned, SavesAhead, NEW u \in Users, DeleteJob(u)
    PROVE  JobsOwned' /\ SavesAhead'
<1> DEFINE j == call[u].job
<1>1. /\ job' = [k \in DOMAIN job \ {j} |-> job[k]] /\ Cascade(j) /\ Overtake(u, j)
      /\ call[u].op = "deleting"
  BY DEF DeleteJob
<1>2. j \in DOMAIN job /\ job[j].creator = u
  BY <1>1 DEF JobsOwned, DeleteAhead
<1>3. node' = [id \in DOMAIN node \ NodesOf(j) |-> node[id]]
  BY <1>1 DEF Cascade
<1> HIDE DEF j
<1>4. /\ call'[u] = Idle
      /\ \A v \in Users : v # u =>
            /\ call'[v].op = call[v].op /\ call'[v].job = call[v].job /\ call'[v].seen = call[v].seen
            /\ call'[v].behind = (call[v].job = j \/ call[v].behind)
  BY <1>1, OvertakeIs
<1>5. JobsOwned'
  <2>1. \A k \in DOMAIN job' : job'[k] \in [creator : Users, public : BOOLEAN]
    BY <1>1 DEF JobsOwned
  <2>2. ASSUME NEW v \in Users PROVE DeleteAhead(v)'
    <3>1. CASE v = u
      BY <1>4, <3>1 DEF DeleteAhead, Idle
    <3>2. CASE v # u
      BY <1>1, <1>2, <1>4, <3>2 DEF JobsOwned, DeleteAhead
    <3> QED BY <3>1, <3>2
  <2> QED BY <2>1, <2>2 DEF JobsOwned
<1>6. ASSUME NEW v \in Users PROVE SaveAhead(call[v])'
  <2>1. CASE v = u
    BY <1>4, <2>1 DEF SaveAhead, Idle
  <2>2. CASE v # u
    <3> SUFFICES ASSUME call[v].op = "saving"
                 PROVE  /\ \A id \in call[v].seen \cap DOMAIN node' : node'[id].job = call[v].job
                        /\ ~call'[v].behind => call[v].seen = NodesIn(node', call[v].job)
      BY <1>4, <2>2 DEF SaveAhead, NodesOf, NodesIn
    <3>1. /\ \A id \in call[v].seen \cap DOMAIN node : node[id].job = call[v].job
          /\ ~call[v].behind => call[v].seen = NodesIn(node, call[v].job)
      BY DEF SavesAhead, SaveAhead, NodesOf, NodesIn
    <3>2. call[v].job # j => NodesIn(node', call[v].job) = NodesIn(node, call[v].job)
      BY <1>1, DeleteSpares
    <3> QED BY <1>3, <1>4, <2>2, <3>1, <3>2
  <2> QED BY <2>1, <2>2
<1> QED BY <1>5, <1>6 DEF SavesAhead

(* Every step is quiet, or one of these four. *)
LEMMA StepKinds ==
    ASSUME TypeInv, JobsOwned, [Next]_vars
    PROVE  \/ Quiet
           \/ \E u \in Users : \/ SaveRead(u) \/ SaveWrite(u) \/ DeleteJob(u)
                               \/ \E public \in BOOLEAN : Create(u, public)
<1>1. CASE UNCHANGED vars
  BY <1>1, JobsSame, QuietRest DEF vars
<1>2. ASSUME NEW u \in Users, Saving(u), ~SaveRead(u), ~SaveWrite(u) PROVE Quiet
  BY <1>2, SavingQuiet DEF Saving
<1> QED BY <1>1, <1>2, LoadingQuiet, EditingQuiet, ManagingQuiet DEF Next

(* Every step keeps what is known of jobs and saves. *)
LEMMA AheadStep ==
    ASSUME TypeInv, DrawingsKnown, JobsOwned, SavesAhead, [Next]_vars
    PROVE  JobsOwned' /\ SavesAhead'
<1> QED BY StepKinds, QuietAhead, SaveReadAhead, SaveWriteAhead, CreateAhead, DeleteJobAhead

-----------------------------------------------------------------------------
(* What is loaded, drawn and stored names known ids.                         *)

(* Row ids are distinct. *)
LEMMA RowsDistinct ==
    ASSUME TablesType, NEW j
    PROVE  Distinct(RowsOf(j))
<1> DEFINE S == NodesOf(j)
           K == Cardinality(S)
<1>1. S \subseteq Int /\ IsFiniteSet(S)
  <2>1. serial.node \in Nat
    BY DEF TablesType
  <2>2. IsFiniteSet(1..serial.node) /\ S \subseteq 1..serial.node
    BY <2>1, FS_Interval DEF NodesOf, TablesType
  <2> QED BY <2>1, <2>2, FS_Subset
<1>2. Ranked(S)
  BY <1>1, NthEnumerates
<1>3. RowsOf(j) = [k \in 1..K |-> [id |-> Nth(S, k), what |-> node[Nth(S, k)].what]]
  BY DEF RowsOf, Ascending
<1>4. DOMAIN RowsOf(j) = 1..K /\ \A k \in 1..K : RowsOf(j)[k].id = Nth(S, k)
  <2> HIDE DEF K, S
  <2> QED BY <1>3
<1>5. \A k, l \in 1..K : Nth(S, k) = Nth(S, l) => k = l
  BY <1>2 DEF Ranked
<1> HIDE DEF K, S
<1> QED BY <1>4, <1>5 DEF Distinct

(* Nodes that are picked are distinct if all are. *)
LEMMA PickedDistinct ==
    ASSUME NEW nodes \in Seq(NodeType), Distinct(nodes), NEW places, places \subseteq DOMAIN nodes
    PROVE  Distinct(Picked(nodes, places))
<1> DEFINE K == Cardinality(places)
<1>1. places \subseteq Int /\ IsFiniteSet(places)
  <2>1. DOMAIN nodes = 1..Len(nodes) /\ Len(nodes) \in Nat
    OBVIOUS
  <2> QED BY <2>1, PickedIs
<1>2. Ranked(places) /\ Enumerates(places)
  BY <1>1, NthEnumerates
<1>3. DOMAIN Picked(nodes, places) = 1..K /\ \A k \in 1..K : Picked(nodes, places)[k] = nodes[Nth(places, k)]
  <2> HIDE DEF K
  <2> QED BY DEF Picked, K
<1>4. \A k, l \in 1..K : Nth(places, k) = Nth(places, l) => k = l
  BY <1>2 DEF Ranked
<1>5. \A k \in 1..K : Nth(places, k) \in DOMAIN nodes
  BY <1>2 DEF Enumerates
<1> HIDE DEF K
<1> QED BY <1>3, <1>4, <1>5 DEF Distinct

(* Rows that are picked name what all rows name. *)
LEMMA PickedPeers ==
    ASSUME NEW rows \in Seq(PortType), NEW last, PeersKnown(rows, last),
           NEW places, places \subseteq DOMAIN rows
    PROVE  PeersKnown(Picked(rows, places), last)
<1>1. IsPicked(Picked(rows, places), rows, places)
  BY PickedIs
<1> QED BY <1>1 DEF IsPicked, PeersKnown

(* So do rows put together. *)
LEMMA ConcatPeers ==
    ASSUME NEW a \in Seq(PortType), NEW b \in Seq(PortType), NEW last,
           PeersKnown(a, last), PeersKnown(b, last)
    PROVE  PeersKnown(a \o b, last)
<1>1. \A i \in DOMAIN (a \o b) :
         \/ \E k \in DOMAIN a : (a \o b)[i] = a[k]
         \/ \E k \in DOMAIN b : (a \o b)[i] = b[k]
  BY ConcatElement
<1> QED BY <1>1 DEF PeersKnown

(* The ports of one side of the loaded nodes. *)
LEMMA PreloadPeers ==
    ASSUME TypeInv, DrawingsKnown, NEW p, NEW isOut
    PROVE  PeersKnown(PreloadPorts(p, isOut), serial) /\ PreloadPorts(p, isOut) \in Seq(PortType)
<1> DEFINE ids == NodeIdsOf(call[p].drawing.nodes)
           places == {i \in DOMAIN ports : ports[i].owner \in ids /\ ports[i].out = isOut}
<1>1. ports \in Seq(PortType) /\ PeersKnown(ports, serial) /\ places \subseteq DOMAIN ports
  BY DEF TypeInv, TablesType, DrawingsKnown
<1>2. PreloadPorts(p, isOut) = Picked(ports, places)
  BY DEF PreloadPorts
<1> HIDE DEF places
<1> QED BY <1>1, <1>2, PickedPeers, PreloadType

(* What is loaded is an editor whose links end at nodes or at row ids. *)
LEMMA LoadedKnown ==
    ASSUME NEW j, NEW rows \in Seq(NodeType), rows # <<>>, Distinct(rows),
           NEW portRows \in Seq(PortType), NEW last, PeersKnown(portRows, last), NEW clean
    PROVE  EditorKnown(Loaded(j, rows, portRows, clean), last)
<1> DEFINE ids == NodeIdsOf(rows)
           links == LinksOf(rows, portRows)
           W == [src : ids, tgt : 1..last.node, skind : PortKinds, tkind : PortKinds, tp : Nat]
           LinkOf(p) == [src |-> p.owner, tgt |-> p.peer, skind |-> p.kind,
                         tkind |-> p.kind, tp |-> TargetPort(rows, portRows, p)]
           Of(id) == LET outs == PortsOf(portRows, id, TRUE)
                     IN [i \in DOMAIN outs |-> LinkOf(outs[i])]
           all == [i \in DOMAIN rows |-> Of(rows[i].id)]
<1>1. ASSUME NEW id \in ids PROVE Of(id) \in Seq(W)
  <2> DEFINE places == {i \in DOMAIN portRows : portRows[i].owner = id /\ portRows[i].out = TRUE}
  <2>1. PICK outs \in Seq(PortType) : outs = PortsOf(portRows, id, TRUE)
    BY PortsOfType
  <2>2. IsPicked(outs, portRows, places)
    <3>1. places \subseteq DOMAIN portRows /\ outs = Picked(portRows, places)
      BY <2>1 DEF PortsOf
    <3> HIDE DEF places
    <3> QED BY <3>1, PickedIs
  <2>3. \A i \in DOMAIN outs : outs[i] \in PortType /\ outs[i].owner = id /\ outs[i].peer \in 1..last.node
    <3>1. \A i \in DOMAIN outs : outs[i] \in PortType
      BY <2>1, SeqIs
    <3>2. \A i \in places : portRows[i].owner = id /\ portRows[i].peer \in 1..last.node
      BY DEF PeersKnown
    <3> HIDE DEF places
    <3> QED BY <2>2, <3>1, <3>2 DEF IsPicked
  <2>4. \A i \in DOMAIN outs : LinkOf(outs[i]) \in W
    <3> SUFFICES ASSUME NEW i \in DOMAIN outs PROVE LinkOf(outs[i]) \in W
      OBVIOUS
    <3>1. TargetPort(rows, portRows, outs[i]) \in Nat /\ outs[i].kind \in PortKinds
      BY <2>3, TargetPortType DEF PortType
    <3>2. outs[i].owner \in ids /\ outs[i].peer \in 1..last.node
      BY <2>3
    <3> HIDE DEF ids
    <3> QED BY <3>1, <3>2
  <2>5. DOMAIN outs = 1..Len(outs) /\ Len(outs) \in Nat
    BY <2>1, SeqIs
  <2>6. Of(id) = [i \in DOMAIN outs |-> LinkOf(outs[i])]
    BY <2>1
  <2>7. Of(id) \in [1..Len(outs) -> W]
    <3> HIDE DEF LinkOf, W, Of
    <3> QED BY <2>4, <2>5, <2>6
  <2> HIDE DEF Of, W
  <2> QED BY <2>5, <2>7, FunctionSeq
<1>2. all \in Seq(Seq(W))
  <2>1. DOMAIN rows = 1..Len(rows) /\ Len(rows) \in Nat
    BY SeqIs
  <2>2. \A i \in DOMAIN rows : rows[i].id \in ids
    BY DEF NodeIdsOf
  <2> HIDE DEF Of, W, ids
  <2>3. all \in [1..Len(rows) -> Seq(W)]
    BY <1>1, <2>1, <2>2
  <2> HIDE DEF all
  <2> QED BY <2>1, <2>3, FunctionSeq
<1>3. links = FlattenSeq(all)
  BY DEF LinksOf
<1>4. links \in Seq(W)
  <2> HIDE DEF all, W, links
  <2> QED BY <1>2, <1>3, FlattenType
<1>5. \A i \in DOMAIN links : links[i] \in W
  <2> HIDE DEF W, links
  <2> QED BY <1>4, SeqIs
<1>6. LinksKnown(rows, links, last)
  <2> HIDE DEF links, ids
  <2> QED BY <1>5 DEF LinksKnown, ids
<1>7. \A id \in ids : id < Max(ids) + 1
  <2>1. ids \subseteq Nat /\ IsFiniteSet(ids) /\ ids # {}
    BY NodeIdsType
  <2> HIDE DEF ids
  <2>2. PICK m : m = Max(ids)
    OBVIOUS
  <2>3. m \in ids /\ \A n \in ids : n <= m
    BY <2>1, <2>2, MaxIs
  <2>4. \A n \in ids : n \in Nat /\ m \in Nat
    BY <2>1, <2>3
  <2>5. \A n \in ids : n < m + 1
    BY <2>3, <2>4
  <2> QED BY <2>2, <2>5
<1> DEFINE e == Loaded(j, rows, portRows, clean)
<1>8. e.nodes = rows /\ e.links = links /\ e.next = Max(ids) + 1
  <2> HIDE DEF links, ids
  <2> QED BY DEF Loaded, links, ids
<1> HIDE DEF e, links, ids
<1> QED BY <1>6, <1>7, <1>8 DEF EditorKnown, e, ids

\* Whatever known id a link names, its row names a row id.
MapsInto(idMap, known, last) == \A q \in known : Resolve(idMap, q) \in 1..last.node

(* The rows a drawing is saved as name row ids. *)
LEMMA PortRowsPeers ==
    ASSUME NEW drawing \in DrawingType, NEW last, NEW next \in [job : Nat, node : Nat],
           LinksKnown(drawing.nodes, drawing.links, last), NEW idMap, Mapped(idMap),
           MapsInto(idMap, NodeIdsOf(drawing.nodes) \cup 1..last.node, next)
    PROVE  PeersKnown(PortRows(drawing, idMap), next)
<1> DEFINE nodes == drawing.nodes
           known == NodeIdsOf(nodes) \cup 1..last.node
           W == {p \in PortType : p.peer \in 1..next.node}
           A(id) == RowsIn(idMap, id, TRUE, OutputsOf(drawing, id))
           B(id) == RowsIn(idMap, id, FALSE, InputsOf(drawing, id))
           parts == [i \in DOMAIN nodes |-> A(nodes[i].id) \o B(nodes[i].id)]
<1>1. nodes \in Seq(NodeType) /\ \A i \in DOMAIN nodes : nodes[i].id \in Nat
  <2>1. nodes \in Seq(NodeType)
    BY DEF DrawingType
  <2> HIDE DEF nodes
  <2>2. \A i \in DOMAIN nodes : nodes[i] \in NodeType
    BY <2>1
  <2> QED BY <2>1, <2>2 DEF NodeType
<1>2. ASSUME NEW id \in Nat, NEW isOut \in BOOLEAN, NEW ends \in Seq(EndType),
             \A i \in DOMAIN ends : ends[i].peer \in known
      PROVE  RowsIn(idMap, id, isOut, ends) \in Seq(W)
  <2>1. RowsRight(idMap, id, isOut, RowsIn(idMap, id, isOut, ends))
    BY RowsInType
  <2>2. PICK rows \in Seq(PortType) : rows = RowsIn(idMap, id, isOut, ends)
    BY <2>1 DEF RowsRight
  <2>3. DOMAIN rows = DOMAIN ends /\ \A i \in DOMAIN rows : rows[i].peer = Resolve(idMap, ends[i].peer)
    BY <2>2 DEF RowsIn, PortRow
  <2>4. \A i \in DOMAIN rows : rows[i] \in W
    <3>1. \A i \in DOMAIN rows : rows[i] \in PortType
      BY <2>2, SeqIs
    <3>2. \A i \in DOMAIN rows : rows[i].peer \in 1..next.node
      <4> HIDE DEF known
      <4> QED BY <1>2, <2>3 DEF MapsInto, known
    <3> QED BY <3>1, <3>2
  <2>5. Len(rows) \in Nat /\ rows \in [1..Len(rows) -> PortType] /\ DOMAIN rows = 1..Len(rows)
    BY <2>2, SeqIs
  <2> HIDE DEF W
  <2>6. rows \in [1..Len(rows) -> W]
    BY <2>4, <2>5
  <2> QED BY <2>2, <2>5, <2>6, FunctionSeq
<1>3. ASSUME NEW i \in DOMAIN nodes
      PROVE  A(nodes[i].id) \in Seq(W) /\ B(nodes[i].id) \in Seq(W)
  <2>1. nodes[i].id \in Nat
    BY <1>1
  <2>2. /\ OutputsOf(drawing, nodes[i].id) \in Seq(EndType)
        /\ InputsOf(drawing, nodes[i].id) \in Seq(EndType)
    BY EndsType
  <2>3. /\ \A k \in DOMAIN OutputsOf(drawing, nodes[i].id) :
               OutputsOf(drawing, nodes[i].id)[k].peer \in known
        /\ \A k \in DOMAIN InputsOf(drawing, nodes[i].id) :
               InputsOf(drawing, nodes[i].id)[k].peer \in known
    BY EndsKnown
  <2> HIDE DEF known, W, nodes
  <2>4. RowsIn(idMap, nodes[i].id, TRUE, OutputsOf(drawing, nodes[i].id)) \in Seq(W)
    BY <1>2, <2>1, <2>2, <2>3
  <2>5. RowsIn(idMap, nodes[i].id, FALSE, InputsOf(drawing, nodes[i].id)) \in Seq(W)
    BY <1>2, <2>1, <2>2, <2>3
  <2> QED BY <2>4, <2>5
<1>4. parts \in Seq(Seq(W))
  <2>1. DOMAIN nodes = 1..Len(nodes) /\ Len(nodes) \in Nat
    <3> HIDE DEF nodes
    <3> QED BY <1>1, SeqIs
  <2>2. \A i \in DOMAIN nodes : A(nodes[i].id) \o B(nodes[i].id) \in Seq(W)
    <3> HIDE DEF A, B, nodes, W
    <3> QED BY <1>3, ConcatType
  <2>3. parts \in [1..Len(nodes) -> Seq(W)]
    <3> HIDE DEF A, B, nodes, W
    <3> QED BY <2>1, <2>2
  <2> HIDE DEF parts, nodes, W
  <2> QED BY <2>1, <2>3, FunctionSeq
<1>5. PortRows(drawing, idMap) = FlattenSeq(parts)
  BY DEF PortRows, RowsIn
<1>6. PICK rows \in Seq(W) : rows = PortRows(drawing, idMap)
  <2> HIDE DEF parts, W
  <2> QED BY <1>4, <1>5, FlattenType
<1>7. \A i \in DOMAIN rows : rows[i] \in W
  <2> HIDE DEF W
  <2> QED BY <1>6, SeqIs
<1> QED BY <1>6, <1>7 DEF PeersKnown

(* The ports a save leaves name row ids. *)
LEMMA SavePeers ==
    ASSUME TypeInv, PeersKnown(ports, serial), NEW c, CallSound(c, serial), CallKnown(c, serial),
           c.op = "saving", NEW next, Later(serial, next), next.node = serial.node + Len(Fresh(c))
    PROVE  PeersKnown(PortsAfter(c), next)
<1> DEFINE f == IdMap(c)
           new == PortRows(c.drawing, f)
           places == {i \in DOMAIN ports : ports[i].owner \notin c.seen}
           old == Picked(ports, places)
           known == NodeIdsOf(c.drawing.nodes) \cup 1..serial.node
<1>1. /\ c.drawing \in DrawingType /\ serial \in [job : Nat, node : Nat] /\ c \in CallType
      /\ ports \in Seq(PortType) /\ next \in [job : Nat, node : Nat]
      /\ LinksKnown(c.drawing.nodes, c.drawing.links, serial)
  BY DEF CallSound, CallType, TypeInv, TablesType, CallKnown, Later
<1>2. /\ DOMAIN f = NodeIdsOf(c.drawing.nodes) /\ Mapped(f)
      /\ \A id \in Kept(c) : f[id] = id /\ id \in 1..serial.node
      /\ \A id \in NodeIdsOf(c.drawing.nodes) \ Kept(c) :
             f[id] \in (serial.node + 1)..(serial.node + Len(Fresh(c)))
  BY IdMapIs, IdMapApart
<1>3. Len(Fresh(c)) \in Nat
  BY <1>1, FreshIs
<1>4. MapsInto(f, known, next)
  <2> SUFFICES ASSUME NEW q \in known PROVE Resolve(f, q) \in 1..next.node
    BY DEF MapsInto
  <2> HIDE DEF f
  <2>1. CASE q \in NodeIdsOf(c.drawing.nodes) /\ q \in Kept(c)
    <3>1. Resolve(f, q) = q /\ q \in 1..serial.node
      BY <1>2, <2>1 DEF Resolve
    <3> QED BY <1>1, <1>3, <3>1
  <2>2. CASE q \in NodeIdsOf(c.drawing.nodes) /\ q \notin Kept(c)
    <3>1. Resolve(f, q) \in (serial.node + 1)..(serial.node + Len(Fresh(c)))
      BY <1>2, <2>2 DEF Resolve
    <3> QED BY <1>1, <1>3, <3>1
  <2>3. CASE q \notin NodeIdsOf(c.drawing.nodes)
    <3>1. Resolve(f, q) = q /\ q \in 1..serial.node
      BY <1>2, <2>3 DEF Resolve
    <3> QED BY <1>1, <1>3, <3>1
  <2> QED BY <2>1, <2>2, <2>3
<1>5. PeersKnown(new, next)
  <2> HIDE DEF f
  <2> QED BY <1>1, <1>2, <1>4, PortRowsPeers
<1>6. new \in Seq(PortType)
  <2>1. \A id \in DOMAIN f : f[id] \in Nat
    BY IdMapApart, IdMapIs
  <2> HIDE DEF f
  <2> QED BY <1>1, <2>1, PortRowsType
<1>7. old \in Seq(PortType) /\ PeersKnown(old, next)
  <2>1. places \subseteq DOMAIN ports /\ PeersKnown(ports, next)
    BY <1>1, KnownLater
  <2> HIDE DEF places
  <2> QED BY <1>1, <2>1, PickedIs, PickedPeers
<1>8. PortsAfter(c) = old \o new
  BY DEF PortsAfter
<1> HIDE DEF old, new
<1> QED BY <1>5, <1>6, <1>7, <1>8, ConcatPeers

(* A stroke keeps the drawing known. *)
LEMMA EditingKnown ==
    ASSUME TypeInv, DrawingsKnown, NEW u \in Users, Editing(u)
    PROVE  DrawingsKnown'
<1> DEFINE nodes == editor[u].nodes
           links == editor[u].links
           next == editor[u].next
<1>1. /\ editor[u] \in EditorType /\ nodes \in Seq(NodeType) /\ links \in Seq(LinkType) /\ next \in Nat
      /\ DOMAIN editor = Users
  BY EditorIs DEF EditorType, TypeInv, EditorsType
<1>2. /\ Distinct(nodes) /\ LinksKnown(nodes, links, serial)
      /\ \A id \in NodeIdsOf(nodes) : id < next
  BY DEF DrawingsKnown, EditorKnown
<1>3. UNCHANGED <<tables, call>>
  BY DEF Editing, Draw, Connect, Erase, Stroke
<1>4. ASSUME NEW e, editor' = [editor EXCEPT ![u] = e], EditorKnown(e, serial)
      PROVE  DrawingsKnown'
  <2>1. UNCHANGED <<ports, serial, call>> /\ Later(serial, serial') /\ CallsGoOn
    BY <1>3, TablesSame, CallRests DEF tables
  <2>2. \A v \in Users : EditorGoesOn(editor[v], editor'[v]) \/ EditorKnown(editor'[v], serial')
    BY <1>1, <1>4, <2>1 DEF EditorGoesOn
  <2>3. PeersKnown(ports', serial')
    BY <2>1 DEF DrawingsKnown
  <2> QED BY <2>1, <2>2, <2>3, DrawingsMove DEF CallsGoOn
<1>5. \A id : id \in NodeIdsOf(nodes) <=> \E i \in DOMAIN nodes : nodes[i].id = id
  BY DEF NodeIdsOf
<1>6. \A i \in DOMAIN nodes : nodes[i].id \in NodeIdsOf(nodes) /\ nodes[i].id \in Nat /\ nodes[i].id < next
  <2>1. \A i \in DOMAIN nodes : nodes[i] \in NodeType
    <3> HIDE DEF nodes
    <3> QED BY <1>1, SeqIs
  <2> HIDE DEF nodes, next
  <2> QED BY <1>2, <1>5, <2>1 DEF NodeType
<1>7. ASSUME NEW what \in Palette, Draw(u, what) PROVE DrawingsKnown'
  <2> DEFINE row == [id |-> next, what |-> what]
             e == [editor[u] EXCEPT !.nodes = Append(@, row), !.next = @ + 1, !.clean = FALSE]
             more == Append(nodes, row)
  <2>1. editor' = [editor EXCEPT ![u] = e]
    BY <1>7 DEF Draw
  <2>2. e.nodes = more /\ e.links = links /\ e.next = next + 1
    <3> HIDE DEF row
    <3> QED BY <1>1 DEF EditorType
  <2>3. /\ \A i \in DOMAIN more : (i \in DOMAIN nodes /\ more[i] = nodes[i]) \/ (i = Len(nodes) + 1 /\ more[i] = row)
        /\ \A i \in DOMAIN nodes : i \in DOMAIN more /\ more[i] = nodes[i]
        /\ Len(nodes) + 1 \in DOMAIN more /\ more[Len(nodes) + 1] = row
    <3>1. row \in NodeType
      BY <1>1 DEF NodeType, Whats
    <3> HIDE DEF row, nodes
    <3> QED BY <1>1, <3>1
  <2>4. row.id = next /\ next \in Nat
    BY <1>1
  <2> HIDE DEF row, more, e, nodes, links, next
  <2>5. Distinct(more)
    <3> SUFFICES ASSUME NEW i \in DOMAIN more, NEW k \in DOMAIN more, more[i].id = more[k].id
                 PROVE  i = k
      BY DEF Distinct
    <3>1. CASE i \in DOMAIN nodes /\ more[i] = nodes[i] /\ k \in DOMAIN nodes /\ more[k] = nodes[k]
      BY <1>2, <3>1 DEF Distinct
    <3>2. CASE i \in DOMAIN nodes /\ more[i] = nodes[i] /\ k = Len(nodes) + 1 /\ more[k] = row
      BY <1>6, <2>4, <3>2
    <3>3. CASE i = Len(nodes) + 1 /\ more[i] = row /\ k \in DOMAIN nodes /\ more[k] = nodes[k]
      BY <1>6, <2>4, <3>3
    <3>4. CASE i = Len(nodes) + 1 /\ k = Len(nodes) + 1
      BY <3>4
    <3> QED BY <2>3, <3>1, <3>2, <3>3, <3>4
  <2>6. NodeIdsOf(nodes) \subseteq NodeIdsOf(more)
    BY <2>3 DEF NodeIdsOf
  <2>7. LinksKnown(more, links, serial)
    BY <1>2, <2>6 DEF LinksKnown
  <2>8. \A id \in NodeIdsOf(more) : id < next + 1
    <3> SUFFICES ASSUME NEW i \in DOMAIN more PROVE more[i].id < next + 1
      BY DEF NodeIdsOf
    <3>1. more[i].id \in Nat /\ (more[i].id < next \/ more[i].id = next)
      BY <1>6, <2>3, <2>4
    <3> QED BY <2>4, <3>1
  <2> QED BY <1>4, <2>1, <2>2, <2>5, <2>7, <2>8 DEF EditorKnown
<1>8. ASSUME NEW s \in NodeIdsOf(nodes), NEW t \in NodeIdsOf(nodes),
             NEW skind \in PortKinds, NEW tkind \in PortKinds, Connect(u, s, t, skind, tkind)
      PROVE  DrawingsKnown'
  <2> DEFINE link == [src |-> s, tgt |-> t, skind |-> skind, tkind |-> tkind, tp |-> 0]
             more == Append(links, link)
             e == [editor[u] EXCEPT !.links = Append(@, link), !.clean = FALSE]
  <2>1. editor' = [editor EXCEPT ![u] = e]
    BY <1>8 DEF Connect
  <2>2. e.nodes = nodes /\ e.links = more /\ e.next = next
    <3> HIDE DEF link
    <3> QED BY <1>1 DEF EditorType
  <2>3. \A i \in DOMAIN more : (i \in DOMAIN links /\ more[i] = links[i]) \/ more[i] = link
    <3> HIDE DEF link, links
    <3> QED BY <1>1
  <2>4. {link.src, link.tgt} \subseteq NodeIdsOf(nodes) \cup 1..serial.node
    <3> HIDE DEF nodes
    <3> QED OBVIOUS
  <2> HIDE DEF link, more, e, nodes, links, next
  <2>5. LinksKnown(nodes, more, serial)
    BY <1>2, <2>3, <2>4 DEF LinksKnown
  <2> QED BY <1>2, <1>4, <2>1, <2>2, <2>5 DEF EditorKnown
<1>9. ASSUME NEW id \in NodeIdsOf(nodes), Erase(u, id) PROVE DrawingsKnown'
  <2> DEFINE others == {i \in DOMAIN nodes : nodes[i].id # id}
             apart == {i \in DOMAIN links : links[i].src # id /\ links[i].tgt # id}
             less == Picked(nodes, others)
             fewer == Picked(links, apart)
             e == [editor[u] EXCEPT !.nodes = less, !.links = fewer, !.clean = FALSE]
  <2>1. editor' = [editor EXCEPT ![u] = e]
    BY <1>9 DEF Erase
  <2>2. e.nodes = less /\ e.links = fewer /\ e.next = next
    <3> HIDE DEF less, fewer
    <3> QED BY <1>1 DEF EditorType
  <2>3. Distinct(less) /\ IsPicked(less, nodes, others)
    <3>1. others \subseteq DOMAIN nodes
      OBVIOUS
    <3> HIDE DEF others, nodes
    <3> QED BY <1>1, <1>2, <3>1, PickedIs, PickedDistinct
  <2>4. IsPicked(fewer, links, apart)
    <3>1. apart \subseteq DOMAIN links
      OBVIOUS
    <3> HIDE DEF apart, links
    <3> QED BY <1>1, <3>1, PickedIs
  <2>5. /\ \A i \in others : i \in DOMAIN nodes /\ nodes[i].id # id
        /\ \A i \in DOMAIN nodes : nodes[i].id # id => i \in others
        /\ \A i \in apart : i \in DOMAIN links /\ links[i].src # id /\ links[i].tgt # id
    OBVIOUS
  <2> HIDE DEF others, apart, less, fewer, e, nodes, links, next
  <2>6. \A x \in NodeIdsOf(less) : x \in NodeIdsOf(nodes)
    BY <1>6, <2>3, <2>5 DEF IsPicked, NodeIdsOf
  <2>7. \A x \in NodeIdsOf(nodes) : x # id => x \in NodeIdsOf(less)
    <3> SUFFICES ASSUME NEW i \in DOMAIN nodes, nodes[i].id # id PROVE nodes[i].id \in NodeIdsOf(less)
      BY DEF NodeIdsOf
    <3>1. PICK k \in DOMAIN less : less[k] = nodes[i]
      BY <2>3, <2>5 DEF IsPicked
    <3> QED BY <3>1 DEF NodeIdsOf
  <2>8. LinksKnown(less, fewer, serial)
    <3> SUFFICES ASSUME NEW k \in DOMAIN fewer
                 PROVE  {fewer[k].src, fewer[k].tgt} \subseteq NodeIdsOf(less) \cup 1..serial.node
      BY DEF LinksKnown
    <3>1. PICK i \in apart : fewer[k] = links[i]
      BY <2>4 DEF IsPicked
    <3>2. {links[i].src, links[i].tgt} \subseteq NodeIdsOf(nodes) \cup 1..serial.node
      BY <1>2, <2>5, <3>1 DEF LinksKnown
    <3> QED BY <2>5, <2>7, <3>1, <3>2
  <2> QED BY <1>2, <1>4, <2>1, <2>2, <2>3, <2>6, <2>8 DEF EditorKnown
<1> QED BY <1>7, <1>8, <1>9 DEF Editing

(* A request that reads a graph holds distinct nodes and known ports. *)
LEMMA LoadingKnown ==
    ASSUME TypeInv, DrawingsKnown, Loading
    PROVE  DrawingsKnown'
<1>0. Users \subseteq Callers /\ Runner \in Callers /\ DOMAIN call = Callers /\ DOMAIN editor = Users
  BY DEF Callers, TypeInv, CallsType, EditorsType
<1>1. UNCHANGED <<ports, serial>> /\ Later(serial, serial') /\ PeersKnown(ports', serial')
  <2>1. UNCHANGED tables
    BY DEF Loading, Open, Execute, LoadNodes, LoadIns, Abandon, LoadOuts, LoadRun, RunEnds, RunKillsServer
  <2> QED BY <2>1, TablesSame DEF tables, DrawingsKnown
<1>2. \A p \in Callers : CallKnown(call[p], serial) /\ call[p] \in CallType
  BY CallIs DEF DrawingsKnown
<1>3. ASSUME CallsGoOn, EditorsGoOn PROVE DrawingsKnown'
  BY <1>1, <1>3, DrawingsMove DEF CallsGoOn, EditorsGoOn
<1>4. ASSUME NEW p \in Callers, NEW c, call' = [call EXCEPT ![p] = c], CallKnown(c, serial), UNCHANGED editor
      PROVE  DrawingsKnown'
  <2>1. \A q \in Callers : CallGoesOn(call[q], call'[q]) \/ CallKnown(call'[q], serial')
    BY <1>0, <1>1, <1>4 DEF CallGoesOn
  <2>2. EditorsGoOn
    BY <1>4, CallRests
  <2> QED BY <1>1, <2>1, <2>2, DrawingsMove DEF EditorsGoOn
<1>5. ASSUME NEW u \in Users, NEW j, Open(u, j) PROVE DrawingsKnown'
  <2> DEFINE e == [editor[u] EXCEPT !.job = j, !.clean = FALSE]
  <2>1. /\ call' = [call EXCEPT ![u] = [Idle EXCEPT !.op = "open", !.job = j]]
        /\ editor' = [editor EXCEPT ![u] = e]
    BY <1>5 DEF Open
  <2>2. CallsGoOn
    BY <1>0, <2>1, CallRests, CallGoes
  <2>3. EditorGoesOn(editor[u], e)
    BY EditorIs DEF EditorGoesOn, EditorType
  <2>4. EditorsGoOn
    <3> HIDE DEF e
    <3> QED BY <1>0, <2>1, <2>3 DEF EditorsGoOn, EditorGoesOn
  <2> QED BY <1>3, <2>2, <2>4
<1>6. ASSUME NEW j, Execute(j) PROVE DrawingsKnown'
  <2>1. call' = [call EXCEPT ![Runner] = [Idle EXCEPT !.op = "execute", !.job = j]] /\ UNCHANGED editor
    BY <1>6 DEF Execute
  <2>2. CallsGoOn
    BY <1>0, <2>1, CallRests, CallGoes
  <2> QED BY <1>3, <2>1, <2>2, CallRests
<1>7. ASSUME NEW p \in Callers, Return(p), UNCHANGED editor PROVE DrawingsKnown'
  BY <1>3, <1>7, CallRests
<1>8. ASSUME NEW p \in Callers, LoadNodes(p) PROVE DrawingsKnown'
  <2> DEFINE rows == RowsOf(call[p].job)
             c == [call[p] EXCEPT !.op = "ins", !.behind = FALSE, !.drawing.nodes = rows]
  <2>1. call' = [call EXCEPT ![p] = c] /\ UNCHANGED editor
    BY <1>8 DEF LoadNodes
  <2>2. c.drawing.nodes = rows /\ c.ports = call[p].ports /\ c.op = "ins"
    <3> HIDE DEF rows
    <3> QED BY <1>2 DEF CallType, DrawingType
  <2>3. Distinct(rows)
    BY RowsDistinct DEF TypeInv
  <2>4. CallKnown(c, serial)
    <3> HIDE DEF c, rows
    <3> QED BY <1>2, <2>2, <2>3 DEF CallKnown
  <2> HIDE DEF c
  <2> QED BY <1>4, <2>1, <2>4
<1>9. ASSUME NEW p \in Callers, LoadIns(p) PROVE DrawingsKnown'
  <2> DEFINE rows == PreloadPorts(p, FALSE)
             c == [call[p] EXCEPT !.op = "outs", !.ports = rows]
  <2>1. call' = [call EXCEPT ![p] = c] /\ UNCHANGED editor
    BY <1>9 DEF LoadIns
  <2>2. c.drawing = call[p].drawing /\ c.ports = rows /\ c.op = "outs"
    <3> HIDE DEF rows
    <3> QED BY <1>2 DEF CallType
  <2>3. PeersKnown(rows, serial)
    BY PreloadPeers
  <2>4. CallKnown(c, serial)
    <3> HIDE DEF c, rows
    <3> QED BY <1>2, <2>2, <2>3 DEF CallKnown
  <2> HIDE DEF c
  <2> QED BY <1>4, <2>1, <2>4
<1>10. ASSUME NEW p \in Callers
       PROVE  LET rows == call[p].ports \o PreloadPorts(p, TRUE)
              IN PeersKnown(rows, serial) /\ rows \in Seq(PortType)
  <2>1. PICK a \in Seq(PortType), b \in Seq(PortType) : a = call[p].ports /\ b = PreloadPorts(p, TRUE)
    BY <1>2, PreloadPeers DEF CallType
  <2>2. PeersKnown(a, serial) /\ PeersKnown(b, serial)
    BY <1>2, <2>1, PreloadPeers DEF CallKnown
  <2>3. PeersKnown(a \o b, serial) /\ a \o b \in Seq(PortType)
    BY <2>1, <2>2, ConcatPeers, ConcatType
  <2> QED BY <2>1, <2>3
<1>11. ASSUME LoadRun PROVE DrawingsKnown'
  <2> DEFINE rows == call[Runner].ports \o PreloadPorts(Runner, TRUE)
             c == [call[Runner] EXCEPT !.op = "planned", !.ports = rows]
  <2>1. call' = [call EXCEPT ![Runner] = c] /\ UNCHANGED editor
    BY <1>11 DEF LoadRun
  <2>2. c.drawing = call[Runner].drawing /\ c.ports = rows /\ c.op = "planned"
    <3> HIDE DEF rows
    <3> QED BY <1>0, <1>2 DEF CallType
  <2>3. PeersKnown(rows, serial)
    BY <1>0, <1>10
  <2>4. CallKnown(c, serial)
    <3> HIDE DEF c, rows
    <3> QED BY <1>0, <1>2, <2>2, <2>3 DEF CallKnown
  <2> HIDE DEF c
  <2> QED BY <1>0, <1>4, <2>1, <2>4
<1>12. ASSUME NEW u \in Users, LoadOuts(u) PROVE DrawingsKnown'
  <2> DEFINE rows == call[u].drawing.nodes
             portRows == call[u].ports \o PreloadPorts(u, TRUE)
             e == Loaded(call[u].job, rows, portRows, ~call[u].behind)
  <2>0. u \in Callers
    BY <1>0
  <2>1. Return(u) /\ editor' = IF rows = <<>> THEN editor ELSE [editor EXCEPT ![u] = e]
    BY <1>12 DEF LoadOuts
  <2>2. CallsGoOn
    BY <2>0, <2>1, CallRests
  <2>3. rows # <<>> => EditorKnown(e, serial)
    <3>1. rows \in Seq(NodeType) /\ Distinct(rows)
      BY <1>2, <2>0 DEF CallType, DrawingType, CallKnown
    <3>2. PeersKnown(portRows, serial) /\ portRows \in Seq(PortType)
      BY <1>10, <2>0
    <3> HIDE DEF rows, portRows
    <3> QED BY <3>1, <3>2, LoadedKnown
  <2>4. \A v \in Users : EditorGoesOn(editor[v], editor'[v]) \/ EditorKnown(editor'[v], serial')
    <3> HIDE DEF e, rows
    <3> QED BY <1>0, <1>1, <2>1, <2>3 DEF EditorGoesOn
  <2> QED BY <1>1, <2>2, <2>4, DrawingsMove DEF CallsGoOn
<1>13. ASSUME RunKillsServer PROVE DrawingsKnown'
  <2>1. CallsGoOn /\ EditorsGoOn
    BY <1>13, CallRests DEF RunKillsServer, CallsGoOn
  <2> QED BY <1>3, <2>1
<1>14. ASSUME NEW p \in Callers, Abandon(p) PROVE DrawingsKnown'
  BY <1>7, <1>14 DEF Abandon
<1>15. ASSUME RunEnds PROVE DrawingsKnown'
  BY <1>0, <1>7, <1>15 DEF RunEnds
<1> QED BY <1>5, <1>6, <1>8, <1>9, <1>11, <1>12, <1>13, <1>14, <1>15 DEF Loading

(* A save sends what the editor holds, and stores it under row ids. *)
LEMMA SavingKnown ==
    ASSUME TypeInv, DrawingsKnown, NEW u \in Users, Saving(u)
    PROVE  DrawingsKnown'
<1>0. u \in Callers /\ call[u] \in CallType /\ CallSound(call[u], serial) /\ DOMAIN call = Callers
  BY CallIs DEF Callers, TypeInv, CallsType
<1>1. CASE Save(u)
  <2> DEFINE c == [Idle EXCEPT !.op = "save", !.job = editor[u].job, !.clean = editor[u].clean,
                       !.drawing = [nodes |-> editor[u].nodes, links |-> editor[u].links]]
  <2>1. call' = [call EXCEPT ![u] = c] /\ UNCHANGED <<editor, ports, serial>>
    BY <1>1 DEF Save, tables
  <2>2. c.drawing.nodes = editor[u].nodes /\ c.drawing.links = editor[u].links /\ c.ports = <<>>
    BY DEF Idle
  <2>3. CallKnown(c, serial)
    <3>1. EditorKnown(editor[u], serial)
      BY DEF DrawingsKnown
    <3>2. PeersKnown(<<>>, serial)
      BY DEF PeersKnown
    <3>3. c.op = "save"
      BY DEF Idle
    <3> HIDE DEF c
    <3>4. Distinct(c.drawing.nodes) /\ LinksKnown(c.drawing.nodes, c.drawing.links, serial)
      BY <2>2, <3>1 DEF EditorKnown
    <3>5. PeersKnown(c.ports, serial)
      BY ONLY <2>2, <3>2, Zenon
    <3> QED BY <3>3, <3>4, <3>5 DEF CallKnown
  <2>4. Later(serial, serial') /\ PeersKnown(ports', serial') /\ EditorsGoOn
    <3> HIDE DEF c
    <3>1. UNCHANGED ports /\ UNCHANGED serial /\ UNCHANGED editor
      BY <2>1
    <3>2. Later(serial, serial)
      BY DEF Later, TypeInv, TablesType
    <3>3. PeersKnown(ports, serial)
      BY DEF DrawingsKnown
    <3>4. EditorsGoOn
      BY <3>1, CallRests
    <3> QED BY <3>1, <3>2, <3>3, <3>4
  <2>5. \A q \in Callers : CallGoesOn(call[q], call'[q]) \/ CallKnown(call'[q], serial')
    <3> HIDE DEF c
    <3> QED BY <1>0, <2>1, <2>3 DEF CallGoesOn
  <2> QED BY <2>4, <2>5, DrawingsMove DEF EditorsGoOn
<1>2. ASSUME CallsGoOn, EditorsGoOn, Later(serial, serial'), PeersKnown(ports', serial')
      PROVE  DrawingsKnown'
  BY <1>2, DrawingsMove DEF CallsGoOn, EditorsGoOn
<1>3. CASE SaveEmpty(u)
  <2>1. Return(u) /\ UNCHANGED <<editor, ports, serial>>
    BY <1>3 DEF SaveEmpty, tables
  <2>2. Later(serial, serial') /\ PeersKnown(ports', serial')
    BY <2>1 DEF DrawingsKnown, Later, TypeInv, TablesType
  <2> QED BY <1>0, <1>2, <2>1, <2>2, CallRests
<1>4. CASE SaveRead(u)
  <2>1. UNCHANGED <<editor, ports, serial>> /\ CallsGoOn
    BY <1>4, SaveReadIs DEF CallsGoOn, CallGoesOn
  <2>2. Later(serial, serial') /\ PeersKnown(ports', serial')
    BY <2>1 DEF DrawingsKnown, Later, TypeInv, TablesType
  <2> QED BY <1>2, <2>1, <2>2, CallRests
<1>5. CASE SaveWrite(u)
  <2> DEFINE n == Len(Fresh(call[u]))
  <2>1. /\ ports' = PortsAfter(call[u]) /\ serial' = [serial EXCEPT !.node = @ + n]
        /\ Overtake(u, call[u].job) /\ call[u].op = "saving"
    BY <1>5 DEF SaveWrite
  <2>2. n \in Nat /\ serial \in [job : Nat, node : Nat]
    BY <1>0, FreshIs DEF TypeInv, TablesType
  <2>3. Later(serial, serial') /\ serial'.node = serial.node + n
    <3> HIDE DEF n
    <3> QED BY <2>1, <2>2 DEF Later
  <2>4. PeersKnown(ports', serial')
    <3>1. CallKnown(call[u], serial) /\ PeersKnown(ports, serial)
      BY <1>0 DEF DrawingsKnown
    <3> QED BY <1>0, <2>1, <2>3, <3>1, SavePeers
  <2> QED BY <1>2, <2>1, <2>3, <2>4, OvertakeGoes
<1>6. CASE SaveRefused(u)
  <2> DEFINE drawn == IF call[u].job \in DOMAIN job THEN Len(Fresh(call[u]))
                      ELSE IF Fresh(call[u]) = <<>> THEN 0 ELSE 1
  <2>1. serial' = [serial EXCEPT !.node = @ + drawn] /\ Return(u) /\ UNCHANGED <<editor, ports>>
    BY <1>6 DEF SaveRefused
  <2>2. drawn \in Nat /\ serial \in [job : Nat, node : Nat]
    BY <1>0, FreshIs DEF TypeInv, TablesType
  <2>3. Later(serial, serial')
    <3> HIDE DEF drawn
    <3> QED BY <2>1, <2>2 DEF Later
  <2>4. PeersKnown(ports', serial')
    BY <2>1, <2>2, <2>3, KnownLater DEF DrawingsKnown
  <2> QED BY <1>0, <1>2, <2>1, <2>3, <2>4, CallRests
<1> QED BY <1>1, <1>3, <1>4, <1>5, <1>6 DEF Saving

(* The other requests hold no drawing. *)
LEMMA ManagingKnown ==
    ASSUME TypeInv, DrawingsKnown, NEW u \in Users, Managing(u)
    PROVE  DrawingsKnown'
<1>0. u \in Callers /\ call[u] \in CallType /\ DOMAIN call = Callers /\ serial \in [job : Nat, node : Nat]
  BY CallIs DEF Callers, TypeInv, CallsType
<1>1. ASSUME CallsGoOn, EditorsGoOn, UNCHANGED <<ports, serial>> PROVE DrawingsKnown'
  <2>1. Later(serial, serial') /\ PeersKnown(ports', serial')
    BY <1>0, <1>1 DEF DrawingsKnown, Later
  <2> QED BY <1>1, <2>1, DrawingsMove DEF CallsGoOn, EditorsGoOn
<1>2. ASSUME Return(u), UNCHANGED <<editor, ports, serial>> PROVE DrawingsKnown'
  BY <1>0, <1>1, <1>2, CallRests
<1>3. ASSUME NEW j, NEW op, Check(u, op, j) PROVE DrawingsKnown'
  <2>1. call' = [call EXCEPT ![u] = [Idle EXCEPT !.op = op, !.job = j]] /\ UNCHANGED <<editor, ports, serial>>
    BY <1>3 DEF Check, tables
  <2>2. CallsGoOn
    BY <1>0, <2>1, CallRests, CallGoes
  <2> QED BY <1>1, <2>1, <2>2, CallRests
<1>4. ASSUME NEW public, Create(u, public) PROVE DrawingsKnown'
  <2> DEFINE new == serial.job + 1
  <2>1. PICK op \in {"idle", "listed"} :
            call' = [call EXCEPT ![u] =
                 IF op = "idle" THEN Idle ELSE [Idle EXCEPT !.op = op, !.job = new]]
    BY <1>4 DEF Create
  <2> DEFINE c == IF op = "idle" THEN Idle ELSE [Idle EXCEPT !.op = op, !.job = new]
  <2>2. call' = [call EXCEPT ![u] = c]
    BY <2>1
  <2>3. CallGoesOn(call[u], c)
    <3> HIDE DEF new
    <3> QED BY CallRests
  <2>4. CallsGoOn
    <3> HIDE DEF c
    <3> QED BY <1>0, <2>2, <2>3, CallGoes
  <2>5. UNCHANGED <<editor, ports>> /\ serial' = [serial EXCEPT !.job = @ + 1]
    BY <1>4 DEF Create
  <2>6. Later(serial, serial')
    BY <1>0, <2>5 DEF Later
  <2>7. PeersKnown(ports', serial')
    BY <1>0, <2>5, <2>6, KnownLater DEF DrawingsKnown
  <2> QED BY <2>4, <2>5, <2>6, <2>7, CallRests, DrawingsMove DEF CallsGoOn, EditorsGoOn
<1>5. ASSUME NEW public, Patch(u, public) PROVE DrawingsKnown'
  <2>1. UNCHANGED <<editor, ports, serial>>
    BY <1>5 DEF Patch
  <2>2. CASE call[u].job \notin DOMAIN job
    BY <1>2, <1>5, <2>1, <2>2 DEF Patch
  <2>3. CASE call[u].job \in DOMAIN job
    <3>1. PICK op \in {"idle", "relist"} :
             call' = [call EXCEPT ![u] = IF op = "idle" THEN Idle ELSE [@ EXCEPT !.op = op]]
      BY <1>5, <2>3 DEF Patch
    <3> DEFINE c == IF op = "idle" THEN Idle ELSE [call[u] EXCEPT !.op = op]
    <3>2. call' = [call EXCEPT ![u] = c]
      BY <3>1
    <3>3. CallGoesOn(call[u], c)
      <4>1. CASE op = "idle"
        BY <4>1, CallRests
      <4>2. CASE op = "relist"
        BY <1>0, <4>2 DEF CallGoesOn, CallType
      <4> QED BY <4>1, <4>2
    <3>4. CallsGoOn
      <4> HIDE DEF c
      <4> QED BY <1>0, <3>2, <3>3, CallGoes
    <3> QED BY <1>1, <2>1, <3>4, CallRests
  <2> QED BY <2>2, <2>3
<1>6. ASSUME DeleteAccess(u) PROVE DrawingsKnown'
  <2> DEFINE c == [call[u] EXCEPT !.op = "deleting"]
  <2>1. call' = [call EXCEPT ![u] = c] /\ UNCHANGED <<editor, ports, serial>>
    BY <1>6 DEF DeleteAccess, Step
  <2>2. CallGoesOn(call[u], c)
    BY <1>0 DEF CallGoesOn, CallType
  <2>3. CallsGoOn
    <3> HIDE DEF c
    <3> QED BY <1>0, <2>1, <2>2, CallGoes
  <2> QED BY <1>1, <2>1, <2>3, CallRests
<1>7. ASSUME DeleteJob(u) PROVE DrawingsKnown'
  <2> DEFINE places == {i \in DOMAIN ports : ports[i].owner \in DOMAIN node \ NodesOf(call[u].job)}
  <2>1. /\ ports' = Picked(ports, places) /\ UNCHANGED serial /\ Overtake(u, call[u].job)
        /\ ports \in Seq(PortType) /\ places \subseteq DOMAIN ports /\ PeersKnown(ports, serial)
    BY <1>7 DEF DeleteJob, Cascade, TypeInv, TablesType, DrawingsKnown
  <2> HIDE DEF places
  <2>2. Later(serial, serial') /\ PeersKnown(ports', serial')
    BY <1>0, <2>1, PickedPeers DEF Later
  <2> QED BY <2>1, <2>2, OvertakeGoes, DrawingsMove DEF CallsGoOn, EditorsGoOn
<1>8. ASSUME NEW with, ShareCreated(u, with) \/ Relist(u, with) PROVE DrawingsKnown'
  BY <1>2, <1>8 DEF ShareCreated, Relist
<1>9. ASSUME NEW v, NEW role, Share(u, v, role) PROVE DrawingsKnown'
  BY <1>2, <1>9 DEF Share
<1>10. ASSUME NEW v, Unshare(u, v) \/ AddContact(u, v) \/ RemoveContact(u, v) PROVE DrawingsKnown'
  BY <1>2, <1>10 DEF Unshare, AddContact, RemoveContact
<1> QED BY <1>3, <1>4, <1>5, <1>6, <1>7, <1>8, <1>9, <1>10 DEF Managing

(* Every step keeps the whole invariant. *)
LEMMA BoardStep ==
    ASSUME BoardInv, [Next]_vars
    PROVE  BoardInv'
<1>1. TypeInv' /\ TablesConsistent'
  BY TypeStep, ConsistentStep DEF BoardInv
<1>2. JobsOwned' /\ SavesAhead'
  BY AheadStep DEF BoardInv
<1>3. DrawingsKnown'
  <2>1. CASE UNCHANGED vars
    BY <2>1 DEF vars, BoardInv, DrawingsKnown
  <2>2. CASE Next
    BY <2>2, LoadingKnown, EditingKnown, SavingKnown, ManagingKnown DEF Next, BoardInv
  <2> QED BY <2>1, <2>2
<1> QED BY <1>1, <1>2, <1>3 DEF BoardInv

-----------------------------------------------------------------------------
(* The first state.                                                          *)

(* A scenario's links end at nodes of its drawing. *)
LEMMA ScenarioLinks ==
    ASSUME NEW s \in Scenarios, NEW last
    PROVE  LinksKnown(s.drawing.nodes, s.drawing.links, last)
<1> DEFINE drawing == s.drawing
           nodes == drawing.nodes
           ids == {nodes[i].id : i \in DOMAIN nodes}
           whats == {nodes[i].what : i \in DOMAIN nodes}
           B == [src : ids, tgt : ids, skind : PortKinds, tkind : PortKinds, tp : Nat]
<1>1. drawing \in [nodes : Seq([id : ids, what : whats]), links : Seq(B)]
  BY ScenarioAssumption
<1>2. drawing.links \in Seq(B)
  <2> HIDE DEF ids, whats, B
  <2> QED BY <1>1
<1>3. \A i \in DOMAIN drawing.links : drawing.links[i] \in B
  <2> HIDE DEF B
  <2> QED BY <1>2, SeqIs
<1>4. \A i \in DOMAIN drawing.links : drawing.links[i].src \in ids /\ drawing.links[i].tgt \in ids
  <2> HIDE DEF ids
  <2> QED BY <1>3
<1>5. ids = NodeIdsOf(nodes)
  BY DEF NodeIdsOf
<1> HIDE DEF ids
<1> QED BY <1>4, <1>5 DEF LinksKnown

(* The first state satisfies the invariant. *)
LEMMA InitBoard ==
    ASSUME Init
    PROVE  BoardInv
<1>1. PICK scenario \in Scenarios, others \in SUBSET (Users \ {Founder}) :
        LET drawing == scenario.drawing
            count == Len(drawing.nodes)
            idMap == [id \in 0..(count - 1) |-> id + 1]
        IN /\ job = [j \in {1} |-> [creator |-> Founder, public |-> FALSE]]
           /\ access = {[job |-> 1, user |-> u, role |-> "editor"] : u \in others}
           /\ contacts = {}
           /\ node = [id \in 1..count |-> [job |-> 1, what |-> drawing.nodes[id].what]]
           /\ ports = PortRows(drawing, idMap)
           /\ serial = [job |-> 1, node |-> count]
           /\ editor = [u \in Users |->
                 IF u \in others \cup {Founder} THEN Loaded(1, RowsOf(1), ports, TRUE)
                 ELSE [job |-> 0, nodes |-> <<>>, links |-> <<>>, next |-> 0, clean |-> FALSE]]
           /\ call = [p \in Callers |-> Idle]
           /\ left = scenario.left
  BY DEF Init
<1> DEFINE drawing == scenario.drawing
           count == Len(drawing.nodes)
           idMap == [id \in 0..(count - 1) |-> id + 1]
           empty == [job |-> 0, nodes |-> <<>>, links |-> <<>>, next |-> 0, clean |-> FALSE]
<1>2. TypeInv /\ TablesConsistent
  BY InitSound
<1>3. /\ drawing \in DrawingType /\ count \in Nat /\ drawing.nodes \in Seq(NodeType)
      /\ drawing.nodes # <<>> /\ \A i \in DOMAIN drawing.nodes : drawing.nodes[i].id = i - 1
  BY ScenarioIs
<1>4. DOMAIN drawing.nodes = 1..count /\ count # 0
  <2> HIDE DEF drawing
  <2> QED BY <1>3
<1>5. serial \in [job : Nat, node : Nat] /\ serial.node = count
  <2> HIDE DEF count
  <2> QED BY <1>1, <1>3 DEF count
<1>6. PeersKnown(ports, serial)
  <2>1. Mapped(idMap)
    <3> HIDE DEF count
    <3> QED BY <1>3 DEF Mapped, Resolve
  <2> DEFINE start == [job |-> 0, node |-> 0]
  <2>2. LinksKnown(drawing.nodes, drawing.links, start)
    BY ScenarioLinks
  <2>3. MapsInto(idMap, NodeIdsOf(drawing.nodes) \cup 1..start.node, serial)
    <3>1. \A id \in NodeIdsOf(drawing.nodes) : id \in 0..(count - 1)
      <4> HIDE DEF drawing, count
      <4> QED BY <1>3, <1>4 DEF NodeIdsOf
    <3>2. 1..start.node = {}
      OBVIOUS
    <3>3. \A id \in 0..(count - 1) : Resolve(idMap, id) \in 1..serial.node
      <4> HIDE DEF count
      <4> QED BY <1>3, <1>5 DEF Resolve
    <3> HIDE DEF idMap, drawing, count, start
    <3> QED BY <3>1, <3>2, <3>3 DEF MapsInto
  <2>4. ports = PortRows(drawing, idMap)
    BY <1>1
  <2> HIDE DEF idMap, drawing, start
  <2> QED BY <1>3, <1>5, <2>1, <2>2, <2>3, <2>4, PortRowsPeers
<1>7. EditorKnown(empty, serial)
  BY DEF EditorKnown, Distinct, LinksKnown, NodeIdsOf
<1>8. EditorKnown(Loaded(1, RowsOf(1), ports, TRUE), serial)
  <2>1. RowsOf(1) \in Seq(NodeType) /\ Distinct(RowsOf(1)) /\ ports \in Seq(PortType)
    BY <1>2, RowsOfType, RowsDistinct DEF TypeInv, TablesType
  <2>2. RowsOf(1) # <<>>
    <3>1. node = [id \in 1..count |-> [job |-> 1, what |-> drawing.nodes[id].what]]
      BY <1>1
    <3> HIDE DEF count, drawing
    <3>2. 1 \in NodesOf(1)
      BY <1>3, <1>4, <3>1 DEF NodesOf
    <3> QED BY <1>2, <3>2, RowsOfType DEF TypeInv
  <2> QED BY <1>6, <2>1, <2>2, LoadedKnown
<1>9. DrawingsKnown
  <2>1. \A u \in Users : EditorKnown(editor[u], serial)
    <3> HIDE DEF empty
    <3> QED BY <1>1, <1>7, <1>8 DEF empty
  <2>2. \A p \in Callers : CallKnown(call[p], serial)
    BY <1>1 DEF Idle, Blank, CallKnown, Distinct, PeersKnown
  <2> QED BY <1>6, <2>1, <2>2 DEF DrawingsKnown
<1>10. \A u \in Users : call[u] = Idle
  BY <1>1 DEF Callers
<1>11. JobsOwned
  <2>1. job = [j \in {1} |-> [creator |-> Founder, public |-> FALSE]]
    BY <1>1
  <2> QED BY <1>10, <2>1, JobAssumption DEF JobsOwned, DeleteAhead, Idle
<1>12. SavesAhead
  BY <1>10 DEF SavesAhead, SaveAhead, Idle
<1> QED BY <1>2, <1>9, <1>11, <1>12 DEF BoardInv

-----------------------------------------------------------------------------
(* Every step of the service is a step of the board.                         *)

GraphOf(jobs, n, rows) == [j \in DOMAIN jobs |-> ShownOf(n, rows, j)]

DeskOf(calls) ==
    [u \in {v \in Users : calls[v].op = "saving"} |->
        [job |-> calls[u].job, picture |-> Drawn(calls[u].drawing), behind |-> calls[u].behind]]

(* The board the service keeps, before and after a step. *)
LEMMA BoardIs ==
    /\ [j \in DOMAIN job |-> Shown(j)] = GraphOf(job, node, ports)
    /\ [j \in DOMAIN job |-> Shown(j)]' = GraphOf(job', node', ports')
    /\ Board!vars = <<GraphOf(job, node, ports), DeskOf(call)>>
<1>1. \A j : Shown(j) = ShownOf(node, ports, j)
  BY ShownIs
<1>2. \A j : Shown(j)' = ShownOf(node', ports', j)
  BY DEF Shown, ShownOf, NodesOf, NodesIn
<1> QED BY <1>1, <1>2 DEF GraphOf, DeskOf, Board!vars

(* No save is under way at first. *)
LEMMA BoardStarts ==
    ASSUME Init
    PROVE  Board!Init
<1>1. \A u \in Users : call[u] = Idle
  BY DEF Init, Callers
<1> QED BY <1>1 DEF Board!Init, Idle

(* A step that leaves the tables of the graphs alone at most ends saves. *)
LEMMA BoardWithdraws ==
    ASSUME Quiet
    PROVE  Board!Withdraw
<1>1. GraphOf(job', node', ports') = GraphOf(job, node, ports)
  BY DEF Quiet, JobsStay, GraphOf
<1>2. \A u \in Users : call'[u].op = "saving" => call'[u] = call[u]
  BY DEF Quiet, QuietCall
<1>3. DOMAIN DeskOf(call') \subseteq DOMAIN DeskOf(call)
  BY <1>2 DEF DeskOf
<1>4. \A u \in DOMAIN DeskOf(call') : DeskOf(call')[u] = DeskOf(call)[u]
  BY <1>2 DEF DeskOf
<1> QED BY <1>1, <1>3, <1>4, BoardIs DEF Board!Withdraw, DeskOf

(* A save that reads the ids of its job begins. *)
LEMMA BoardBegins ==
    ASSUME TypeInv, NEW u \in Users, SaveRead(u)
    PROVE  Board!Begin(u)
<1>1. GraphOf(job', node', ports') = GraphOf(job, node, ports)
  BY SaveReadIs
<1>2. /\ call[u].op = "save" /\ call'[u].op = "saving" /\ ~call'[u].behind
      /\ \A v \in Users : v # u => call'[v] = call[v]
  BY SaveReadIs
<1>3. u \notin DOMAIN DeskOf(call) /\ DOMAIN DeskOf(call') = DOMAIN DeskOf(call) \cup {u}
  BY <1>2 DEF DeskOf
<1>4. ~DeskOf(call')[u].behind
  BY <1>2 DEF DeskOf
<1>5. \A v \in DOMAIN DeskOf(call) : DeskOf(call')[v] = DeskOf(call)[v]
  BY <1>2, <1>3 DEF DeskOf
<1> QED BY <1>1, <1>3, <1>4, <1>5, BoardIs DEF Board!Begin, DeskOf

(* A save whose mark is set. *)
LEMMA Marked ==
    ASSUME NEW x, NEW y, NEW z, NEW mark
    PROVE  [[job |-> x, picture |-> y, behind |-> z] EXCEPT !.behind = mark]
                = [job |-> x, picture |-> y, behind |-> mark]
<1> QED OBVIOUS

(* What a step makes of the saves under way when it overtakes those of a job. *)
LEMMA DeskOvertaken ==
    ASSUME TypeInv, NEW u \in Users, NEW j, Overtake(u, j)
    PROVE  DeskOf(call') = Board!Left(Board!Overtaken(j), u)
<1> DEFINE d == DeskOf(call)
           o == [v \in DOMAIN d |-> IF d[v].job = j THEN [d[v] EXCEPT !.behind = TRUE] ELSE d[v]]
           l == [v \in DOMAIN o \ {u} |-> o[v]]
<1>1. call'[u].op = "idle"
  BY OvertakeIs DEF Idle
<1>2. \A v \in Users : v # u =>
          /\ call'[v].op = call[v].op /\ call'[v].job = call[v].job
          /\ call'[v].drawing = call[v].drawing
          /\ call'[v].behind = (call[v].job = j \/ call[v].behind)
  BY OvertakeIs
<1>3. DOMAIN DeskOf(call') = DOMAIN d \ {u}
  BY <1>1, <1>2 DEF DeskOf
<1>4. \A v \in DOMAIN d \ {u} : DeskOf(call')[v] = o[v]
  <2> SUFFICES ASSUME NEW v \in DOMAIN d \ {u} PROVE DeskOf(call')[v] = o[v]
    OBVIOUS
  <2>1. v \in Users /\ v # u /\ call[v].op = "saving" /\ call'[v].op = "saving"
    BY <1>2 DEF DeskOf
  <2>2. d[v] = [job |-> call[v].job, picture |-> Drawn(call[v].drawing), behind |-> call[v].behind]
    BY <2>1 DEF DeskOf
  <2>3. DeskOf(call')[v] = [job |-> call'[v].job, picture |-> Drawn(call'[v].drawing),
                            behind |-> call'[v].behind]
    BY <2>1 DEF DeskOf
  <2>4. call'[v].behind = (call[v].job = j \/ call[v].behind)
    BY <1>2, <2>1
  <2>5. CASE call[v].job = j
    <3>1. d[v].job = j /\ v \in DOMAIN d
      BY <2>2, <2>5
    <3>2. o[v] = [d[v] EXCEPT !.behind = TRUE]
      <4> HIDE DEF d
      <4> QED BY <3>1
    <3>3. o[v] = [job |-> call[v].job, picture |-> Drawn(call[v].drawing), behind |-> TRUE]
      <4>1. PICK x, y, z : x = call[v].job /\ y = Drawn(call[v].drawing) /\ z = call[v].behind
        OBVIOUS
      <4>2. d[v] = [job |-> x, picture |-> y, behind |-> z]
        BY <2>2, <4>1
      <4>3. [[job |-> x, picture |-> y, behind |-> z] EXCEPT !.behind = TRUE]
               = [job |-> x, picture |-> y, behind |-> TRUE]
        BY Marked
      <4> HIDE DEF d, o
      <4> QED BY <3>2, <4>1, <4>2, <4>3
    <3>4. call'[v].behind = TRUE
      BY <2>4, <2>5
    <3>5. call'[v].job = call[v].job /\ call'[v].drawing = call[v].drawing
      BY <1>2, <2>1
    <3> HIDE DEF d, o
    <3> QED BY <2>3, <3>3, <3>4, <3>5
  <2>6. CASE call[v].job # j
    <3>1. call[v].behind \in BOOLEAN
      BY <2>1, CallIs DEF Callers, CallType
    <3>2. call'[v].behind = call[v].behind
      BY <2>4, <2>6, <3>1
    <3> QED BY <1>2, <2>1, <2>2, <2>3, <2>6, <3>2
  <2> QED BY <2>5, <2>6
<1>5. DeskOf(call') = l
  <2>1. DeskOf(call') = [v \in DOMAIN DeskOf(call') |-> DeskOf(call')[v]]
    BY DEF DeskOf
  <2> HIDE DEF d
  <2> QED BY <1>3, <1>4, <2>1
<1>6. Board!Overtaken(j) = o
  BY DEF Board!Overtaken, DeskOf
<1>7. l = Board!Left(o, u)
  BY DEF Board!Left
<1> QED BY <1>5, <1>6, <1>7

(* The write of a save replaces the graph of its job. *)
LEMMA BoardStores ==
    ASSUME BoardInv, NEW u \in Users, SaveWrite(u)
    PROVE  Board!Store(u)
<1> DEFINE c == call[u]
           g == GraphOf(job, node, ports)
           h == GraphOf(job', node', ports')
<1>1. /\ c.op = "saving" /\ node' = NodesAfter(c) /\ ports' = PortsAfter(c) /\ UNCHANGED job
      /\ Overtake(u, c.job)
  BY DEF SaveWrite
<1>2. TypeInv /\ TablesConsistent
  BY DEF BoardInv
<1>3. /\ CallSound(c, serial) /\ Distinct(c.drawing.nodes)
      /\ LinksKnown(c.drawing.nodes, c.drawing.links, serial)
      /\ \A id \in c.seen \cap DOMAIN node : node[id].job = c.job
      /\ ~c.behind => c.seen = NodesOf(c.job)
  BY <1>1, CallIs DEF BoardInv, Callers, DrawingsKnown, CallKnown, SavesAhead, SaveAhead
<1> HIDE DEF c
<1>4. DOMAIN h = DOMAIN g
  BY <1>1 DEF GraphOf
<1>5. \A k \in DOMAIN g \ {c.job} : h[k] = g[k]
  <2>1. \A k : k # c.job => ShownOf(node', ports', k) = ShownOf(node, ports, k)
    BY <1>1, <1>2, <1>3, SaveSpares
  <2> QED BY <1>1, <2>1 DEF GraphOf
<1>6. c.job \in DOMAIN g /\ ~c.behind => h[c.job] = Drawn(c.drawing)
  <2>1. ~c.behind => ShownOf(node', ports', c.job) = Drawn(c.drawing)
    BY <1>1, <1>2, <1>3, SaveStores
  <2> QED BY <1>1, <2>1 DEF GraphOf
<1>7. /\ u \in DOMAIN DeskOf(call)
      /\ DeskOf(call)[u] = [job |-> c.job, picture |-> Drawn(c.drawing), behind |-> c.behind]
  BY <1>1 DEF DeskOf, c
<1>8. DeskOf(call') = Board!Left(Board!Overtaken(c.job), u)
  BY <1>1, <1>2, DeskOvertaken
<1> QED BY <1>4, <1>5, <1>6, <1>7, <1>8, BoardIs DEF Board!Store, DeskOf

(* A job that is created has no graph yet. *)
LEMMA BoardOpens ==
    ASSUME BoardInv, NEW u \in Users, NEW public, Create(u, public)
    PROVE  \E j \in DOMAIN GraphOf(job', node', ports') \ DOMAIN GraphOf(job, node, ports) : Board!Open(j)
<1> DEFINE new == serial.job + 1
           g == GraphOf(job, node, ports)
           h == GraphOf(job', node', ports')
<1>1. /\ new \notin DOMAIN job /\ DOMAIN job' = DOMAIN job \cup {new}
      /\ UNCHANGED <<node, ports>> /\ \A v \in Users : v # u => call'[v] = call[v]
      /\ call[u].op = "idle" /\ call'[u].op \in {"idle", "listed"}
  BY CreateIs DEF BoardInv
<1> HIDE DEF new
<1>2. DOMAIN g = DOMAIN job /\ DOMAIN h = DOMAIN g \cup {new} /\ \A k \in DOMAIN g : h[k] = g[k]
  BY <1>1 DEF GraphOf
<1>3. h[new] = {}
  <2>1. NodesIn(node, new) = {}
    BY <1>1 DEF BoardInv, TablesConsistent, NodesIn
  <2>2. ShownOf(node, ports, new) = {}
    BY <2>1 DEF ShownOf, Picture
  <2> QED BY <1>1, <2>2 DEF GraphOf
<1>4. DeskOf(call') = DeskOf(call)
  <2>1. \A v \in Users : call'[v].op = "saving" <=> call[v].op = "saving"
    BY <1>1
  <2>2. \A v \in Users : call'[v].op = "saving" => call'[v] = call[v]
    BY <1>1
  <2> QED BY <2>1, <2>2 DEF DeskOf
<1>5. Board!Open(new)
  <2> HIDE DEF g, h
  <2> QED BY <1>2, <1>3, <1>4, BoardIs DEF Board!Open, DeskOf, g, h
<1> QED BY <1>1, <1>2, <1>5

(* A delete takes a job off the board. *)
LEMMA BoardRemoves ==
    ASSUME BoardInv, NEW u \in Users, DeleteJob(u)
    PROVE  \E j \in DOMAIN GraphOf(job, node, ports) : Board!Remove(j)
<1> DEFINE g == GraphOf(job, node, ports)
           h == GraphOf(job', node', ports')
<1>0. PICK j : j = call[u].job
  OBVIOUS
<1>1. /\ job' = [k \in DOMAIN job \ {j} |-> job[k]] /\ Cascade(j) /\ Overtake(u, j)
      /\ call[u].op = "deleting" /\ j \in DOMAIN job
  BY <1>0 DEF DeleteJob, BoardInv, JobsOwned, DeleteAhead
<1>2. h = [k \in DOMAIN g \ {j} |-> g[k]]
  <2>1. \A k : k # j => ShownOf(node', ports', k) = ShownOf(node, ports, k)
    BY <1>1, DeleteSpares DEF BoardInv
  <2>2. DOMAIN job' = DOMAIN job \ {j}
    BY <1>1
  <2> QED BY <2>1, <2>2 DEF GraphOf
<1>3. DeskOf(call') = Board!Overtaken(j)
  <2>1. DeskOf(call') = Board!Left(Board!Overtaken(j), u)
    BY <1>1, DeskOvertaken DEF BoardInv
  <2>2. u \notin DOMAIN DeskOf(call)
    BY <1>1 DEF DeskOf
  <2>3. DOMAIN Board!Overtaken(j) = DOMAIN DeskOf(call)
    BY DEF Board!Overtaken, DeskOf
  <2>4. Board!Overtaken(j) = [v \in DOMAIN Board!Overtaken(j) |-> Board!Overtaken(j)[v]]
    BY DEF Board!Overtaken
  <2>5. DOMAIN Board!Overtaken(j) \ {u} = DOMAIN Board!Overtaken(j)
    BY <2>2, <2>3
  <2> QED BY <2>1, <2>4, <2>5 DEF Board!Left
<1>4. j \in DOMAIN g
  BY <1>1 DEF GraphOf
<1>5. Board!Remove(j)
  <2> HIDE DEF g, h
  <2>1. GraphOf(job', node', ports') = h /\ GraphOf(job, node, ports) = g
    BY DEF g, h
  <2> QED BY <1>2, <1>3, <2>1, BoardIs DEF Board!Remove, DeskOf
<1> QED BY <1>4, <1>5

(* Every step of the service is a step of the board, or none. *)
LEMMA BoardGoes ==
    ASSUME BoardInv, [Next]_vars
    PROVE  Board!Next
<1>1. \/ Quiet
      \/ \E u \in Users : \/ SaveRead(u) \/ SaveWrite(u) \/ DeleteJob(u)
                          \/ \E public \in BOOLEAN : Create(u, public)
  BY StepKinds DEF BoardInv
<1>2. CASE Quiet
  BY <1>2, BoardWithdraws DEF Board!Next
<1>3. ASSUME NEW u \in Users, SaveRead(u) PROVE Board!Next
  BY <1>3, BoardBegins DEF Board!Next, BoardInv
<1>4. ASSUME NEW u \in Users, SaveWrite(u) PROVE Board!Next
  BY <1>4, BoardStores DEF Board!Next
<1>5. ASSUME NEW u \in Users, NEW public \in BOOLEAN, Create(u, public) PROVE Board!Next
  BY <1>5, BoardOpens, BoardIs DEF Board!Next
<1>6. ASSUME NEW u \in Users, DeleteJob(u) PROVE Board!Next
  BY <1>6, BoardRemoves, BoardIs DEF Board!Next
<1> QED BY <1>1, <1>2, <1>3, <1>4, <1>5, <1>6

(* Saving replaces the graph of one job and touches no other, with the picture *)
(* that was sent (UpdateWithNodes): the job service implements the board.      *)
THEOREM SavesCorrect == Spec => SavesReplace
<1>1. Init => BoardInv /\ Board!Init
  BY InitBoard, BoardStarts
<1>2. BoardInv /\ [Next]_vars => BoardInv' /\ [Board!Next]_(Board!vars)
  BY BoardStep, BoardGoes
<1> QED BY <1>1, <1>2, PTL DEF Spec, SavesReplace, Board!Spec

-----------------------------------------------------------------------------
(* A job that is saved as it was loaded: counting ports.                     *)

Places(s, x) == {i \in DOMAIN s : s[i] = x}

\* The same elements as often, in another order perhaps.
Rearranges(g, s, t) ==
    /\ g \in Bijection(DOMAIN s, DOMAIN t)
    /\ \A i \in DOMAIN s : t[g[i]] = s[i]

(* Sequences that hold each element as often are rearrangements of each other. *)
LEMMA Rearranged ==
    ASSUME NEW T, NEW s \in Seq(T), NEW t \in Seq(T),
           \A x \in T : Cardinality(Places(s, x)) = Cardinality(Places(t, x))
    PROVE  \E g : Rearranges(g, s, t)
<1> DEFINE B(x) == Bijection(Places(s, x), Places(t, x))
           h == [x \in T |-> CHOOSE b \in B(x) : TRUE]
           g == [i \in DOMAIN s |-> h[s[i]][i]]
<1>1. /\ DOMAIN s = 1..Len(s) /\ Len(s) \in Nat /\ \A i \in DOMAIN s : s[i] \in T
      /\ DOMAIN t = 1..Len(t) /\ Len(t) \in Nat /\ \A i \in DOMAIN t : t[i] \in T
  BY SeqIs
<1>2. IsFiniteSet(DOMAIN s) /\ IsFiniteSet(DOMAIN t)
  BY <1>1, FS_Interval
<1>3. ASSUME NEW x \in T PROVE B(x) # {}
  <2>1. Places(s, x) \in SUBSET DOMAIN s /\ Places(t, x) \in SUBSET DOMAIN t
    BY DEF Places
  <2>2. IsFiniteSet(Places(s, x)) /\ IsFiniteSet(Places(t, x))
    BY <1>2, <2>1, FS_Subset
  <2>3. ExistsBijection(Places(s, x), Places(t, x))
    BY <2>2, FS_SameCardinalityBij
  <2> QED BY <2>3 DEF ExistsBijection
<1>4. \A x \in T : h[x] \in B(x)
  <2> SUFFICES ASSUME NEW x \in T PROVE h[x] \in B(x)
    OBVIOUS
  <2>1. \E b : b \in B(x)
    <3> HIDE DEF B
    <3> QED BY <1>3
  <2>2. h[x] = CHOOSE b \in B(x) : TRUE
    <3> HIDE DEF B
    <3> QED BY Zenon
  <2> HIDE DEF B, h
  <2> QED BY <2>1, <2>2, Zenon
<1>5. \A x \in T : /\ h[x] \in [Places(s, x) -> Places(t, x)]
                   /\ \A i, k \in Places(s, x) : h[x][i] = h[x][k] => i = k
                   /\ \A k \in Places(t, x) : \E i \in Places(s, x) : h[x][i] = k
  <2> HIDE DEF h
  <2> QED BY <1>4 DEF Bijection, Injection, Surjection, IsInjective
<1> HIDE DEF h, B
<1>6. \A i \in DOMAIN s : g[i] = h[s[i]][i] /\ i \in Places(s, s[i])
  BY DEF Places
<1> HIDE DEF g
<1>7. \A i \in DOMAIN s : g[i] \in DOMAIN t /\ t[g[i]] = s[i]
  <2> SUFFICES ASSUME NEW i \in DOMAIN s PROVE g[i] \in DOMAIN t /\ t[g[i]] = s[i]
    OBVIOUS
  <2>1. g[i] \in Places(t, s[i])
    BY <1>1, <1>5, <1>6
  <2> QED BY <2>1 DEF Places
<1>8. g \in [DOMAIN s -> DOMAIN t]
  BY <1>7 DEF g
<1>9. \A i, k \in DOMAIN s : g[i] = g[k] => i = k
  <2> SUFFICES ASSUME NEW i \in DOMAIN s, NEW k \in DOMAIN s, g[i] = g[k] PROVE i = k
    OBVIOUS
  <2>1. PICK x \in T : x = s[i] /\ x = s[k]
    BY <1>1, <1>7
  <2>2. h[x][i] = h[x][k] /\ i \in Places(s, x) /\ k \in Places(s, x)
    BY <1>6, <2>1
  <2> QED BY <1>5, <2>2
<1>10. \A k \in DOMAIN t : \E i \in DOMAIN s : g[i] = k
  <2> SUFFICES ASSUME NEW k \in DOMAIN t PROVE \E i \in DOMAIN s : g[i] = k
    OBVIOUS
  <2>1. PICK x \in T : x = t[k]
    BY <1>1
  <2>2. k \in Places(t, x)
    BY <2>1 DEF Places
  <2>3. PICK i \in Places(s, x) : h[x][i] = k
    BY <1>5, <2>2
  <2>4. i \in DOMAIN s /\ s[i] = x
    BY DEF Places
  <2> QED BY <1>6, <2>3, <2>4
<1>11. g \in Bijection(DOMAIN s, DOMAIN t)
  BY <1>8, <1>9, <1>10 DEF Bijection, Injection, Surjection, IsInjective
<1> QED BY <1>7, <1>11 DEF Rearranges

Counts(p) == [x \in Range(p) |-> Cardinality(Places(p, x))]

(* A rearrangement shows the same elements as often. *)
LEMMA CountedAlike ==
    ASSUME NEW p, NEW q, NEW g, Rearranges(g, p, q), IsFiniteSet(DOMAIN p)
    PROVE  Counts(p) = Counts(q)
<1>1. /\ g \in [DOMAIN p -> DOMAIN q]
      /\ \A i, k \in DOMAIN p : g[i] = g[k] => i = k
      /\ \A k \in DOMAIN q : \E i \in DOMAIN p : g[i] = k
      /\ \A i \in DOMAIN p : q[g[i]] = p[i]
  BY DEF Rearranges, Bijection, Injection, Surjection, IsInjective
<1>2. Range(p) = Range(q)
  BY <1>1 DEF Range
<1>3. ASSUME NEW x PROVE Cardinality(Places(p, x)) = Cardinality(Places(q, x))
  <2> DEFINE f == [i \in Places(p, x) |-> g[i]]
  <2>1. f \in [Places(p, x) -> Places(q, x)]
    BY <1>1 DEF Places
  <2>2. \A i, k \in Places(p, x) : f[i] = f[k] => i = k
    BY <1>1 DEF Places
  <2>3. \A k \in Places(q, x) : \E i \in Places(p, x) : f[i] = k
    BY <1>1 DEF Places
  <2>4. f \in Bijection(Places(p, x), Places(q, x))
    <3> HIDE DEF f
    <3> QED BY <2>1, <2>2, <2>3 DEF Bijection, Injection, Surjection, IsInjective
  <2>5. ExistsBijection(Places(p, x), Places(q, x))
    <3> HIDE DEF f
    <3> QED BY <2>4 DEF ExistsBijection
  <2>6. Places(p, x) \in SUBSET DOMAIN p
    BY DEF Places
  <2>7. IsFiniteSet(Places(p, x))
    BY <2>6, FS_Subset
  <2> QED BY <2>5, <2>7, FS_Bijection
<1>4. [x \in Range(p) |-> Cardinality(Places(p, x))] = [x \in Range(q) |-> Cardinality(Places(q, x))]
  BY <1>2, <1>3, Zenon
<1> QED BY <1>4 DEF Counts

(* What is selected is as many elements as belong to the set. *)
LEMMA SelCount ==
    ASSUME NEW W, NEW s \in Seq(W), NEW E
    PROVE  Len(Sel(s, E)) = Cardinality({i \in DOMAIN s : s[i] \in E})
<1>1. {i \in DOMAIN s : s[i] \in E} \subseteq DOMAIN s
  OBVIOUS
<1> QED BY <1>1, PickedIs DEF Sel

(* Ports that are counted alike show the same ends as often, whatever the *)
(* nodes they lead to are called.                                         *)
LEMMA EndsAlike ==
    ASSUME NEW whats, NEW s \in Seq(EndType), NEW t \in Seq(EndType),
           \A x \in EndType : Cardinality(Places(s, x)) = Cardinality(Places(t, x))
    PROVE  Counts(Ends(whats, s)) = Counts(Ends(whats, t))
<1> DEFINE p == Ends(whats, s)
           q == Ends(whats, t)
<1>1. PICK g : Rearranges(g, s, t)
  BY Rearranged
<1>2. DOMAIN p = DOMAIN s /\ DOMAIN q = DOMAIN t
  BY DEF Ends
<1>3. \A i \in DOMAIN s : q[g[i]] = p[i]
  <2>1. \A i \in DOMAIN s : g[i] \in DOMAIN t /\ t[g[i]] = s[i]
    BY <1>1 DEF Rearranges, Bijection, Injection
  <2>2. \A i \in DOMAIN s : p[i] = <<s[i].kind, Label(whats, s[i].peer)>>
    BY DEF Ends
  <2>3. \A i \in DOMAIN t : q[i] = <<t[i].kind, Label(whats, t[i].peer)>>
    BY DEF Ends
  <2> HIDE DEF p, q
  <2> QED BY <2>1, <2>2, <2>3
<1>4. IsFiniteSet(DOMAIN s)
  <2>1. DOMAIN s = 1..Len(s) /\ Len(s) \in Nat
    BY SeqIs
  <2> QED BY <2>1, FS_Interval
<1> HIDE DEF p, q
<1>5. Rearranges(g, p, q)
  BY <1>1, <1>2, <1>3 DEF Rearranges
<1>6. Counts(p) = Counts(q)
  BY <1>2, <1>4, <1>5, CountedAlike
<1> QED BY <1>6 DEF p, q

(* Pictures of the same nodes, with the same outputs and with inputs that are *)
(* counted alike.                                                             *)
LEMMA UnorderedSame ==
    ASSUME NEW whats, NEW outsA, NEW insA, NEW outsB, NEW insB,
           \A id \in DOMAIN whats : /\ Ends(whats, outsA[id]) = Ends(whats, outsB[id])
                                    /\ Counts(Ends(whats, insA[id])) = Counts(Ends(whats, insB[id]))
    PROVE  Unordered(Picture(whats, outsA, insA)) = Unordered(Picture(whats, outsB, insB))
<1> DEFINE Loose(n) == [n EXCEPT !.ins = Counts(n.ins)]
           One(id, outs, ins) == [what |-> whats[id], outs |-> Ends(whats, outs[id]),
                                  ins |-> Ends(whats, ins[id])]
<1>1. \A picture : Unordered(picture) = {Loose(n) : n \in picture}
  BY DEF Unordered, Counts, Places
<1>2. ASSUME NEW outs, NEW ins
      PROVE  Unordered(Picture(whats, outs, ins)) = {Loose(One(id, outs, ins)) : id \in DOMAIN whats}
  <2>1. Picture(whats, outs, ins) = {One(id, outs, ins) : id \in DOMAIN whats}
    BY DEF Picture
  <2> HIDE DEF One, Loose
  <2> QED BY <1>1, <2>1
<1>3. ASSUME NEW id \in DOMAIN whats PROVE Loose(One(id, outsA, insA)) = Loose(One(id, outsB, insB))
  <2>1. ASSUME NEW a, NEW b, NEW c PROVE Loose([what |-> a, outs |-> b, ins |-> c])
                                           = [what |-> a, outs |-> b, ins |-> Counts(c)]
    OBVIOUS
  <2>2. ASSUME NEW outs, NEW ins
        PROVE  Loose(One(id, outs, ins)) = [what |-> whats[id], outs |-> Ends(whats, outs[id]),
                                            ins |-> Counts(Ends(whats, ins[id]))]
    <3> HIDE DEF Loose
    <3> QED BY <2>1
  <2> HIDE DEF Loose, One
  <2> QED BY <2>2
<1>4. {Loose(One(id, outsA, insA)) : id \in DOMAIN whats} = {Loose(One(id, outsB, insB)) : id \in DOMAIN whats}
  <2> HIDE DEF Loose, One
  <2> QED BY <1>3
<1> HIDE DEF Loose, One
<1> QED BY <1>2, <1>4

-----------------------------------------------------------------------------
(* The links of loaded nodes, node after node.                               *)

LinkFrom(nodes, rows, p) ==
    [src |-> p.owner, tgt |-> p.peer, skind |-> p.kind, tkind |-> p.kind,
     tp |-> TargetPort(nodes, rows, p)]

LinksFrom(nodes, rows, id) ==
    [i \in DOMAIN PortsOf(rows, id, TRUE) |-> LinkFrom(nodes, rows, PortsOf(rows, id, TRUE)[i])]

LinkParts(nodes, rows) == [i \in DOMAIN nodes |-> LinksFrom(nodes, rows, nodes[i].id)]

DrawnFrom(id) == {l \in LinkType : l.src = id}
DrawnTo(id) == {l \in LinkType : l.tgt = id}

\* Links that stand for these output ports of a node, one for each.
StandFor(links, outs, id) ==
    /\ DOMAIN links = DOMAIN outs
    /\ \A i \in DOMAIN outs :
          /\ links[i].src = id /\ links[i].tgt = outs[i].peer
          /\ links[i].skind = outs[i].kind /\ links[i].tkind = outs[i].kind

OutRows(rows, id) == PortsOf(rows, id, TRUE)

(* The links that leave a node stand for its output ports. *)
LEMMA LinksFromIs ==
    ASSUME NEW nodes \in Seq(NodeType), NEW rows \in Seq(PortType), NEW id
    PROVE  /\ LinksFrom(nodes, rows, id) \in Seq(LinkType)
           /\ StandFor(LinksFrom(nodes, rows, id), OutRows(rows, id), id)
<1>1. PICK outs \in Seq(PortType) : outs = PortsOf(rows, id, TRUE)
  BY PortsOfType
<1>2. \A i \in DOMAIN outs : outs[i].owner = id
  <2>1. \A isOut : \A k \in DOMAIN PortsOf(rows, id, isOut) : PortsOf(rows, id, isOut)[k].owner = id
    BY PortsOfType
  <2> QED BY <1>1, <2>1, Zenon
<1>3. DOMAIN outs = 1..Len(outs) /\ Len(outs) \in Nat /\ \A i \in DOMAIN outs : outs[i] \in PortType
  BY SeqIs
<1>4. LinksFrom(nodes, rows, id) = [i \in DOMAIN outs |-> LinkFrom(nodes, rows, outs[i])]
  BY <1>1 DEF LinksFrom
<1>5. \A p \in PortType : LinkFrom(nodes, rows, p) \in LinkType
  <2>1. \A p \in PortType : TargetPort(nodes, rows, p) \in Nat
    BY TargetPortType
  <2> QED BY <2>1 DEF LinkFrom, PortType, LinkType
<1>6. LinksFrom(nodes, rows, id) \in [1..Len(outs) -> LinkType]
  BY <1>3, <1>4, <1>5
<1>7. LinksFrom(nodes, rows, id) \in Seq(LinkType)
  BY <1>3, <1>6, FunctionSeq
<1>8. StandFor(LinksFrom(nodes, rows, id), outs, id)
  BY <1>2, <1>4 DEF LinkFrom, StandFor
<1> QED BY <1>1, <1>7, <1>8, Zenon DEF OutRows

(* Of all the links, those that leave a node. *)
LEMMA LinksLeaving ==
    ASSUME NEW nodes \in Seq(NodeType), Distinct(nodes), NEW rows \in Seq(PortType),
           NEW id \in NodeIdsOf(nodes)
    PROVE  Sel(LinksOf(nodes, rows), DrawnFrom(id)) = LinksFrom(nodes, rows, id)
<1> DEFINE all == LinkParts(nodes, rows)
           E == DrawnFrom(id)
<1>1. DOMAIN nodes = 1..Len(nodes) /\ Len(nodes) \in Nat
  BY SeqIs
<1>2. \A x : LinksFrom(nodes, rows, x) \in Seq(LinkType)
  BY LinksFromIs
<1>3. all \in Seq(Seq(LinkType)) /\ DOMAIN all = DOMAIN nodes
  <2>1. all \in [1..Len(nodes) -> Seq(LinkType)]
    BY <1>1, <1>2 DEF LinkParts
  <2> HIDE DEF all
  <2> QED BY <1>1, <2>1, FunctionSeq
<1>4. LinksOf(nodes, rows) = FlattenSeq(all)
  BY DEF LinksOf, LinkParts, LinksFrom, LinkFrom
<1>5. PICK d \in DOMAIN nodes : nodes[d].id = id
  BY DEF NodeIdsOf
<1>6. \A i \in DOMAIN nodes : all[i] = LinksFrom(nodes, rows, nodes[i].id)
  BY DEF LinkParts
<1>7. \A x : \A l \in DOMAIN LinksFrom(nodes, rows, x) :
         LinksFrom(nodes, rows, x)[l].src = x /\ LinksFrom(nodes, rows, x)[l] \in LinkType
  <2> SUFFICES ASSUME NEW x, NEW l \in DOMAIN LinksFrom(nodes, rows, x)
               PROVE  LinksFrom(nodes, rows, x)[l].src = x /\ LinksFrom(nodes, rows, x)[l] \in LinkType
    OBVIOUS
  <2>1. LinksFrom(nodes, rows, x)[l].src = x
    BY LinksFromIs DEF StandFor
  <2>2. LinksFrom(nodes, rows, x)[l] \in LinkType
    BY <1>2, SeqIs
  <2> QED BY <2>1, <2>2
<1> HIDE DEF all
<1>8. \A i \in DOMAIN all : i # d => Sel(all[i], E) = <<>>
  <2> SUFFICES ASSUME NEW i \in DOMAIN all, i # d PROVE Sel(all[i], E) = <<>>
    OBVIOUS
  <2>1. nodes[i].id # id
    BY <1>3, <1>5 DEF Distinct
  <2>2. PICK part : part = all[i]
    OBVIOUS
  <2>3. \A k \in DOMAIN part : part[k] \notin E
    BY <1>3, <1>6, <1>7, <2>1, <2>2 DEF DrawnFrom
  <2>4. Sel(part, E) = <<>>
    <3> HIDE DEF E
    <3> QED BY <2>3, SelNone
  <2> QED BY <2>2, <2>4
<1>9. Sel(FlattenSeq(all), E) = Sel(all[d], E)
  <2>1. d \in DOMAIN all
    BY <1>3
  <2> HIDE DEF E
  <2> QED BY <1>3, <1>8, <2>1, SelFlattenOne
<1>10. Sel(all[d], E) = all[d]
  <2>1. PICK part \in Seq(LinkType) : part = all[d]
    BY <1>2, <1>6
  <2>2. \A k \in DOMAIN part : part[k] \in E
    BY <1>5, <1>6, <1>7, <2>1 DEF DrawnFrom
  <2>3. Sel(part, E) = part
    <3> HIDE DEF E
    <3> QED BY <2>2, SelAll
  <2> QED BY <2>1, <2>3
<1> QED BY <1>4, <1>5, <1>6, <1>9, <1>10

(* Every link leaves one of the nodes. *)
LEMMA LinksHere ==
    ASSUME NEW nodes \in Seq(NodeType), Distinct(nodes), NEW rows \in Seq(PortType),
           NEW id, id \notin NodeIdsOf(nodes), NEW F, F \subseteq DrawnFrom(id)
    PROVE  Sel(LinksOf(nodes, rows), F) = <<>>
<1> DEFINE all == LinkParts(nodes, rows)
<1>1. DOMAIN nodes = 1..Len(nodes) /\ Len(nodes) \in Nat
  BY SeqIs
<1>2. \A x : LinksFrom(nodes, rows, x) \in Seq(LinkType)
  BY LinksFromIs
<1>3. all \in Seq(Seq(LinkType)) /\ DOMAIN all = DOMAIN nodes
  <2>1. all \in [1..Len(nodes) -> Seq(LinkType)]
    BY <1>1, <1>2 DEF LinkParts
  <2> HIDE DEF all
  <2> QED BY <1>1, <2>1, FunctionSeq
<1>4. LinksOf(nodes, rows) = FlattenSeq(all)
  BY DEF LinksOf, LinkParts, LinksFrom, LinkFrom
<1>5. ASSUME NEW i \in DOMAIN all PROVE Sel(all[i], F) = <<>>
  <2>1. PICK x, part : x = nodes[i].id /\ part = LinksFrom(nodes, rows, x)
    OBVIOUS
  <2>2. all[i] = part
    BY <1>3, <2>1 DEF LinkParts
  <2>3. x # id
    BY <1>3, <1>5, <2>1 DEF NodeIdsOf
  <2>4. \A k \in DOMAIN part : part[k].src = x
    BY <2>1, LinksFromIs DEF StandFor
  <2>5. \A k \in DOMAIN part : part[k] \notin F
    BY <2>3, <2>4 DEF DrawnFrom
  <2>6. Sel(part, F) = <<>>
    BY <2>5, SelNone
  <2> QED BY <2>2, <2>6
<1> HIDE DEF all
<1> QED BY <1>3, <1>4, <1>5, SelFlattenNone

\* What a port row says without its owner.
EndOf(p) == [kind |-> p.kind, peer |-> p.peer]
EndsOf(row) == [i \in DOMAIN row |-> EndOf(row[i])]

(* The outputs of a node that is saved as it was loaded. *)
LEMMA ResavedOutputs ==
    ASSUME NEW nodes \in Seq(NodeType), Distinct(nodes), NEW rows \in Seq(PortType),
           NEW id \in NodeIdsOf(nodes), NEW drawing,
           drawing = [nodes |-> nodes, links |-> LinksOf(nodes, rows)]
    PROVE  OutputsOf(drawing, id) = EndsOf(PortsOf(rows, id, TRUE))
<1>1. PICK links \in Seq(LinkType) : links = LinksOf(nodes, rows)
  BY LinksOfType
<1>2. drawing.links = links
  BY <1>1
<1>3. Picked(links, {i \in DOMAIN links : links[i].src = id}) = Sel(links, DrawnFrom(id))
  <2>1. {i \in DOMAIN links : links[i].src = id} = {i \in DOMAIN links : links[i] \in DrawnFrom(id)}
    BY SeqIs DEF DrawnFrom
  <2> QED BY <2>1 DEF Sel
<1>4. PICK own : own = LinksFrom(nodes, rows, id)
  OBVIOUS
<1>5. Sel(links, DrawnFrom(id)) = own
  BY <1>1, <1>4, LinksLeaving
<1>6. OutputsOf(drawing, id) = [i \in DOMAIN own |-> OutputOf(own[i])]
  BY <1>2, <1>3, <1>5 DEF OutputsOf
<1>7. PICK outs : outs = PortsOf(rows, id, TRUE)
  OBVIOUS
<1>8. DOMAIN own = DOMAIN outs /\ \A i \in DOMAIN outs : own[i].tgt = outs[i].peer /\ own[i].skind = outs[i].kind
  <2>1. StandFor(own, outs, id)
    BY <1>4, <1>7, LinksFromIs, Zenon DEF OutRows
  <2> QED BY <2>1 DEF StandFor
<1>9. \A i \in DOMAIN outs : OutputOf(own[i]) = EndOf(outs[i])
  BY <1>8 DEF OutputOf, EndOf
<1>10. [i \in DOMAIN own |-> OutputOf(own[i])] = [i \in DOMAIN outs |-> EndOf(outs[i])]
  BY <1>8, <1>9, Zenon
<1> QED BY <1>6, <1>7, <1>10 DEF EndsOf

\* How often a row of ports names a peer in a kind.
Naming(row, peer, kind) == {i \in DOMAIN row : row[i].peer = peer /\ row[i].kind = kind}

(* The inputs of such a node: one for each output port that leads to it. *)
LEMMA ResavedInputs ==
    ASSUME NEW nodes \in Seq(NodeType), Distinct(nodes), NEW rows \in Seq(PortType),
           NEW id \in NodeIdsOf(nodes), NEW drawing,
           drawing = [nodes |-> nodes, links |-> LinksOf(nodes, rows)], NEW x \in EndType
    PROVE  /\ x.peer \in NodeIdsOf(nodes) =>
                 Cardinality(Places(InputsOf(drawing, id), x))
                     = Cardinality(Naming(PortsOf(rows, x.peer, TRUE), id, x.kind))
           /\ x.peer \notin NodeIdsOf(nodes) => Cardinality(Places(InputsOf(drawing, id), x)) = 0
<1> DEFINE F == {l \in LinkType : l.src = x.peer /\ l.tgt = id /\ l.tkind = x.kind}
<1>1. PICK links \in Seq(LinkType) : links = LinksOf(nodes, rows)
  BY LinksOfType
<1>2. drawing.links = links
  BY <1>1
<1>3. Picked(links, {i \in DOMAIN links : links[i].tgt = id}) = Sel(links, DrawnTo(id))
  <2>1. {i \in DOMAIN links : links[i].tgt = id} = {i \in DOMAIN links : links[i] \in DrawnTo(id)}
    BY SeqIs DEF DrawnTo
  <2> QED BY <2>1 DEF Sel
<1>4. PICK own \in Seq(LinkType) : own = Sel(links, DrawnTo(id))
  BY SelType
<1>5. InputsOf(drawing, id) = [i \in DOMAIN own |-> InputOf(own[i])]
  BY <1>2, <1>3, <1>4 DEF InputsOf
<1>6. Places(InputsOf(drawing, id), x) = {i \in DOMAIN own : own[i] \in F}
  <2>1. \A i \in DOMAIN own : own[i] \in LinkType /\ own[i].tgt = id
    <3>1. \A i \in DOMAIN own : own[i] \in LinkType
      BY SeqIs
    <3>2. IsPicked(own, links, {i \in DOMAIN links : links[i].tgt = id})
      <4> DEFINE places == {i \in DOMAIN links : links[i].tgt = id}
      <4>1. places \subseteq DOMAIN links /\ own = Picked(links, places)
        BY <1>3, <1>4
      <4> HIDE DEF places
      <4>2. IsPicked(own, links, places)
        BY <4>1, PickedIs
      <4> QED BY <4>2 DEF places
    <3> QED BY <3>1, <3>2 DEF IsPicked
  <2>2. \A l \in LinkType : InputOf(l) = x <=> (l.tkind = x.kind /\ l.src = x.peer)
    BY DEF InputOf, EndType, LinkType
  <2> QED BY <1>5, <2>1, <2>2 DEF Places
<1>7. Cardinality(Places(InputsOf(drawing, id), x)) = Len(Sel(own, F))
  <2> HIDE DEF F
  <2> QED BY <1>6, SelCount
<1>8. Sel(own, F) = Sel(links, F)
  <2>1. \A l \in LinkType : l \in F => l \in DrawnTo(id)
    BY DEF DrawnTo
  <2> HIDE DEF F
  <2> QED BY <1>4, <2>1, SelSel
<1>9. CASE x.peer \in NodeIdsOf(nodes)
  <2>1. PICK from \in Seq(LinkType) : from = LinksFrom(nodes, rows, x.peer)
    BY LinksFromIs
  <2>2. Sel(links, DrawnFrom(x.peer)) = from
    BY <1>1, <1>9, <2>1, LinksLeaving
  <2>3. Sel(from, F) = Sel(links, F)
    <3>1. \A l \in LinkType : l \in F => l \in DrawnFrom(x.peer)
      BY DEF DrawnFrom
    <3> HIDE DEF F
    <3> QED BY <2>2, <3>1, SelSel
  <2>4. PICK outs : outs = PortsOf(rows, x.peer, TRUE)
    OBVIOUS
  <2>5. /\ DOMAIN from = DOMAIN outs
        /\ \A i \in DOMAIN outs : /\ from[i].src = x.peer /\ from[i].tgt = outs[i].peer
                                  /\ from[i].tkind = outs[i].kind
    <3>1. StandFor(from, outs, x.peer)
      BY <2>1, <2>4, LinksFromIs, Zenon DEF OutRows
    <3> QED BY <3>1 DEF StandFor
  <2>6. {i \in DOMAIN from : from[i] \in F} = Naming(outs, id, x.kind)
    <3>1. \A i \in DOMAIN from : from[i] \in LinkType
      BY SeqIs
    <3> QED BY <2>5, <3>1 DEF Naming
  <2>7. Len(Sel(from, F)) = Cardinality({i \in DOMAIN from : from[i] \in F})
    <3> HIDE DEF F
    <3> QED BY SelCount
  <2> HIDE DEF F
  <2> QED BY <1>7, <1>8, <1>9, <2>3, <2>4, <2>6, <2>7
<1>10. CASE x.peer \notin NodeIdsOf(nodes)
  <2>1. F \subseteq DrawnFrom(x.peer)
    BY DEF DrawnFrom
  <2>2. Sel(links, F) = <<>>
    <3> HIDE DEF F
    <3> QED BY <1>1, <1>10, <2>1, LinksHere
  <2>3. Cardinality(Places(InputsOf(drawing, id), x)) = Len(<<>>)
    <3> HIDE DEF F
    <3> QED BY <1>7, <1>8, <2>2, Zenon
  <2>4. Len(<<>>) = 0
    OBVIOUS
  <2> HIDE DEF F
  <2> QED BY <1>10, <2>3, <2>4, Zenon
<1> QED BY <1>9, <1>10

-----------------------------------------------------------------------------
(* What a job shows when it is saved as it was loaded.                       *)

(* The rows of a job are its nodes with their settings. *)
LEMMA RowsOfIs ==
    ASSUME TablesType, NEW j
    PROVE  /\ NodeIdsOf(RowsOf(j)) = NodesOf(j)
           /\ \A i \in DOMAIN RowsOf(j) : RowsOf(j)[i].what = node[RowsOf(j)[i].id].what
<1> DEFINE S == NodesOf(j)
           K == Cardinality(S)
<1>1. S \subseteq Int /\ IsFiniteSet(S)
  <2>1. serial.node \in Nat
    BY DEF TablesType
  <2>2. IsFiniteSet(1..serial.node) /\ S \subseteq 1..serial.node
    BY <2>1, FS_Interval DEF NodesOf, TablesType
  <2> QED BY <2>1, <2>2, FS_Subset
<1>2. Enumerates(S)
  BY <1>1, NthEnumerates
<1>3. RowsOf(j) = [k \in 1..K |-> [id |-> Nth(S, k), what |-> node[Nth(S, k)].what]]
  BY DEF RowsOf, Ascending
<1>4. DOMAIN RowsOf(j) = 1..K /\ \A k \in 1..K : /\ RowsOf(j)[k].id = Nth(S, k)
                                                 /\ RowsOf(j)[k].what = node[Nth(S, k)].what
  <2> HIDE DEF K, S
  <2> QED BY <1>3
<1>5. (\A k \in 1..K : Nth(S, k) \in S) /\ \A n \in S : \E k \in 1..K : n = Nth(S, k)
  BY <1>2 DEF Enumerates
<1> HIDE DEF K, S
<1>6. NodeIdsOf(RowsOf(j)) = S
  BY <1>4, <1>5 DEF NodeIdsOf
<1> QED BY <1>4, <1>6 DEF S

\* What the rows of ports of a whole graph have to do with each other.
Matching(ids, rows) ==
    \A id \in ids, x \in EndType :
        /\ x.peer \in ids =>
              Cardinality(Naming(PortsOf(rows, id, FALSE), x.peer, x.kind))
                  = Cardinality(Naming(PortsOf(rows, x.peer, TRUE), id, x.kind))
        /\ x.peer \notin ids =>
              Cardinality(Naming(PortsOf(rows, id, FALSE), x.peer, x.kind)) = 0

(* In a whole graph each input is the other end of an output. *)
LEMMA WholeMatches ==
    ASSUME TypeInv, NEW j, Whole(Stored(j))
    PROVE  Matching(NodesOf(j), ports)
<1> DEFINE ids == NodesOf(j)
           kept == Picked(ports, {i \in DOMAIN ports : ports[i].owner \in ids})
<1>1. TablesType /\ ports \in Seq(PortType)
  BY DEF TypeInv, TablesType
<1>2. Stored(j).nodes = RowsOf(j) /\ Stored(j).ports = kept
  BY DEF Stored
<1>3. NodeIdsOf(RowsOf(j)) = ids
  BY <1>1, RowsOfIs
<1>4. kept \in Seq(PortType)
  <2>1. kept = Sel(ports, OfNodes(ids))
    BY <1>1, QueriesSelect
  <2> HIDE DEF kept, ids
  <2> QED BY <1>1, <2>1, SelType
<1>5. \A id \in ids : PortsOf(kept, id, TRUE) = PortsOf(ports, id, TRUE)
  <2> HIDE DEF ids
  <2> QED BY <1>1, StayingPorts
<1>6. \A id \in ids : PortsOf(kept, id, FALSE) = PortsOf(ports, id, FALSE)
  <2> HIDE DEF ids
  <2> QED BY <1>1, StayingPorts
<1> HIDE DEF kept, ids
<1>7. /\ \A i \in DOMAIN kept : kept[i].peer \in ids
      /\ \A a, b \in ids, kind \in PortKinds :
            Cardinality(Naming(PortsOf(kept, a, TRUE), b, kind))
                = Cardinality(Naming(PortsOf(kept, b, FALSE), a, kind))
  <2>1. PICK g : g = Stored(j)
    OBVIOUS
  <2>2. Whole(g) /\ g.ports = kept /\ NodeIdsOf(g.nodes) = ids
    BY <1>2, <1>3, <2>1
  <2>3. \A i \in DOMAIN g.ports : g.ports[i].peer \in NodeIdsOf(g.nodes)
    BY <2>2, Zenon DEF Whole
  <2>4. ASSUME NEW a \in NodeIdsOf(g.nodes), NEW b \in NodeIdsOf(g.nodes), NEW kind \in PortKinds
        PROVE  Cardinality(Naming(PortsOf(g.ports, a, TRUE), b, kind))
                   = Cardinality(Naming(PortsOf(g.ports, b, FALSE), a, kind))
    BY <2>2, Zenon DEF Whole, Naming, Outs, Ins
  <2>5. \A i \in DOMAIN kept : kept[i].peer \in ids
    BY <2>2, <2>3
  <2>6. ASSUME NEW a \in ids, NEW b \in ids, NEW kind \in PortKinds
        PROVE  Cardinality(Naming(PortsOf(kept, a, TRUE), b, kind))
                   = Cardinality(Naming(PortsOf(kept, b, FALSE), a, kind))
    BY <2>2, <2>4
  <2> QED BY <2>5, <2>6
<1>8. ASSUME NEW id \in ids, NEW x \in EndType, x.peer \in ids
      PROVE  Cardinality(Naming(PortsOf(ports, id, FALSE), x.peer, x.kind))
                 = Cardinality(Naming(PortsOf(ports, x.peer, TRUE), id, x.kind))
  <2>1. x.kind \in PortKinds
    BY DEF EndType
  <2>2. Cardinality(Naming(PortsOf(kept, x.peer, TRUE), id, x.kind))
            = Cardinality(Naming(PortsOf(kept, id, FALSE), x.peer, x.kind))
    BY <1>7, <1>8, <2>1
  <2> QED BY <1>5, <1>6, <1>8, <2>2
<1>9. ASSUME NEW id \in ids, NEW x \in EndType, x.peer \notin ids
      PROVE  Cardinality(Naming(PortsOf(ports, id, FALSE), x.peer, x.kind)) = 0
  <2>1. PICK row : row = PortsOf(kept, id, FALSE)
    OBVIOUS
  <2>2. \A k \in DOMAIN row : row[k].peer \in ids
    <3> DEFINE places == {i \in DOMAIN kept : kept[i].owner = id /\ kept[i].out = FALSE}
    <3>1. row = Picked(kept, places) /\ places \subseteq DOMAIN kept
      BY <2>1 DEF PortsOf
    <3> HIDE DEF places
    <3>2. IsPicked(row, kept, places)
      BY <1>4, <3>1, PickedIs
    <3> QED BY <1>7, <3>1, <3>2 DEF IsPicked
  <2>3. Naming(row, x.peer, x.kind) = {}
    BY <1>9, <2>2 DEF Naming
  <2>4. Cardinality({}) = 0
    BY FS_EmptySet
  <2> QED BY <1>6, <2>1, <2>3, <2>4
<1> QED BY <1>8, <1>9 DEF Matching, ids

(* A row of ports and its ends. *)
LEMMA EndsOfIs ==
    ASSUME NEW row \in Seq(PortType)
    PROVE  /\ EndsOf(row) \in Seq(EndType)
           /\ \A whats : Ends(whats, EndsOf(row)) = Ends(whats, row)
           /\ \A x \in EndType : Places(EndsOf(row), x) = Naming(row, x.peer, x.kind)
<1>1. DOMAIN row = 1..Len(row) /\ Len(row) \in Nat /\ \A i \in DOMAIN row : row[i] \in PortType
  BY SeqIs
<1>2. \A p \in PortType : EndOf(p) \in EndType
  BY DEF EndOf, EndType, PortType
<1>3. EndsOf(row) \in [1..Len(row) -> EndType]
  BY <1>1, <1>2 DEF EndsOf
<1>4. EndsOf(row) \in Seq(EndType)
  BY <1>1, <1>3, FunctionSeq
<1>5. DOMAIN EndsOf(row) = DOMAIN row /\ \A i \in DOMAIN row : EndsOf(row)[i] = EndOf(row[i])
  BY DEF EndsOf
<1>6. ASSUME NEW whats PROVE Ends(whats, EndsOf(row)) = Ends(whats, row)
  <2>1. \A i \in DOMAIN row : /\ EndsOf(row)[i].kind = row[i].kind
                              /\ EndsOf(row)[i].peer = row[i].peer
    BY <1>5 DEF EndOf
  <2>2. PICK ends : ends = EndsOf(row)
    OBVIOUS
  <2>3. \A i \in DOMAIN ends : /\ ends[i].kind = row[i].kind
                               /\ Label(whats, ends[i].peer) = Label(whats, row[i].peer)
    BY <1>5, <2>1, <2>2
  <2>4. Ends(whats, ends) = Ends(whats, row)
    BY <1>5, <2>2, <2>3, SameEnds
  <2> QED BY <2>2, <2>4
<1>7. ASSUME NEW x \in EndType PROVE Places(EndsOf(row), x) = Naming(row, x.peer, x.kind)
  <2>1. \A p \in PortType : EndOf(p) = x <=> (p.peer = x.peer /\ p.kind = x.kind)
    BY DEF EndOf, EndType
  <2> QED BY <1>1, <1>5, <2>1 DEF Places, Naming
<1> QED BY <1>4, <1>6, <1>7

(* A job that is saved just as it was loaded shows the same nodes, outputs and *)
(* inputs, if its graph is whole.                                              *)
LEMMA ResavedPicture ==
    ASSUME TypeInv, NEW j, Whole(Stored(j)), NEW drawing,
           drawing = [nodes |-> RowsOf(j), links |-> LinksOf(RowsOf(j), ports)]
    PROVE  Unordered(Drawn(drawing)) = Unordered(Shown(j))
<1>1. TablesType /\ ports \in Seq(PortType)
  BY DEF TypeInv, TablesType
<1>2. PICK nodes \in Seq(NodeType) : nodes = RowsOf(j)
  BY <1>1, RowsOfType
<1> DEFINE ids == NodesOf(j)
           whats == [id \in ids |-> node[id].what]
           outsA == [id \in ids |-> OutputsOf(drawing, id)]
           insA == [id \in ids |-> InputsOf(drawing, id)]
           outsB == [id \in ids |-> PortsOf(ports, id, TRUE)]
           insB == [id \in ids |-> PortsOf(ports, id, FALSE)]
<1>3. /\ NodeIdsOf(nodes) = ids /\ Distinct(nodes)
      /\ \A i \in DOMAIN nodes : nodes[i].what = node[nodes[i].id].what
  BY <1>1, <1>2, RowsOfIs, RowsDistinct
<1>4. drawing = [nodes |-> nodes, links |-> LinksOf(nodes, ports)] /\ drawing \in DrawingType
  <2>1. LinksOf(nodes, ports) \in Seq(LinkType)
    BY <1>1, LinksOfType
  <2> QED BY <1>2, <2>1 DEF DrawingType
<1>5. Matching(ids, ports)
  BY WholeMatches
<1>6. Shown(j) = Picture(whats, outsB, insB)
  BY DEF Shown
<1>7. Drawn(drawing) = Picture(whats, outsA, insA)
  <2> DEFINE place(id) == CHOOSE i \in DOMAIN drawing.nodes : drawing.nodes[i].id = id
  <2>3. drawing.nodes = nodes
    BY <1>4
  <2>1. ASSUME NEW id \in ids PROVE drawing.nodes[place(id)].what = node[id].what
    <3>1. \E i \in DOMAIN drawing.nodes : drawing.nodes[i].id = id
      BY <1>3, <2>3 DEF NodeIdsOf
    <3>2. place(id) \in DOMAIN drawing.nodes /\ drawing.nodes[place(id)].id = id
      BY <3>1, Zenon
    <3> HIDE DEF place
    <3> QED BY <1>3, <2>3, <3>2
  <2>2. [id \in ids |-> drawing.nodes[place(id)].what] = whats
    <3> HIDE DEF place, ids
    <3> QED BY <2>1, Zenon
  <2>4. Drawn(drawing) = Picture([id \in ids |-> drawing.nodes[place(id)].what], outsA, insA)
    <3> DEFINE all == NodeIdsOf(drawing.nodes)
    <3>1. all = ids
      BY <1>3, <2>3
    <3>2. Drawn(drawing) = Picture([id \in all |-> drawing.nodes[place(id)].what],
                                   [id \in all |-> OutputsOf(drawing, id)],
                                   [id \in all |-> InputsOf(drawing, id)])
      BY DEF Drawn
    <3> HIDE DEF ids, all, place
    <3> QED BY <3>1, <3>2
  <2> HIDE DEF whats, outsA, insA, place, ids
  <2> QED BY <2>2, <2>4
<1>8. ASSUME NEW id \in ids
      PROVE  Ends(whats, outsA[id]) = Ends(whats, outsB[id])
  <2>1. OutputsOf(drawing, id) = EndsOf(PortsOf(ports, id, TRUE))
    BY <1>1, <1>3, <1>4, ResavedOutputs
  <2>2. PICK row \in Seq(PortType) : row = PortsOf(ports, id, TRUE)
    BY <1>1, PortsOfType
  <2>3. outsA[id] = EndsOf(row) /\ outsB[id] = row
    <3> HIDE DEF ids
    <3> QED BY <2>1, <2>2
  <2> HIDE DEF whats, outsA, outsB
  <2> QED BY <2>3, EndsOfIs
<1>9. ASSUME NEW id \in ids
      PROVE  Counts(Ends(whats, insA[id])) = Counts(Ends(whats, insB[id]))
  <2>1. PICK row \in Seq(PortType) : row = PortsOf(ports, id, FALSE)
    BY <1>1, PortsOfType
  <2>2. PICK sent \in Seq(EndType) : sent = InputsOf(drawing, id)
    BY <1>4, EndsType
  <2>3. ASSUME NEW x \in EndType
        PROVE  Cardinality(Places(sent, x)) = Cardinality(Places(EndsOf(row), x))
    <3>1. Places(EndsOf(row), x) = Naming(row, x.peer, x.kind)
      BY EndsOfIs
    <3>2. /\ x.peer \in ids => Cardinality(Places(sent, x))
                                   = Cardinality(Naming(PortsOf(ports, x.peer, TRUE), id, x.kind))
          /\ x.peer \notin ids => Cardinality(Places(sent, x)) = 0
      <4>1. id \in NodeIdsOf(nodes)
        BY <1>3
      <4>2. /\ x.peer \in NodeIdsOf(nodes) =>
                   Cardinality(Places(InputsOf(drawing, id), x))
                       = Cardinality(Naming(PortsOf(ports, x.peer, TRUE), id, x.kind))
            /\ x.peer \notin NodeIdsOf(nodes) => Cardinality(Places(InputsOf(drawing, id), x)) = 0
        <5>1. Distinct(nodes) /\ drawing = [nodes |-> nodes, links |-> LinksOf(nodes, ports)]
          BY <1>3, <1>4
        <5> HIDE DEF ids
        <5> QED BY ONLY nodes \in Seq(NodeType), x \in EndType, <1>1, <4>1, <5>1, ResavedInputs, Zenon
      <4>3. NodeIdsOf(nodes) = ids
        BY <1>3
      <4> HIDE DEF ids
      <4> QED BY ONLY <2>2, <4>2, <4>3, Zenon
    <3>3. /\ x.peer \in ids => Cardinality(Naming(row, x.peer, x.kind))
                                   = Cardinality(Naming(PortsOf(ports, x.peer, TRUE), id, x.kind))
          /\ x.peer \notin ids => Cardinality(Naming(row, x.peer, x.kind)) = 0
      <4> HIDE DEF ids
      <4> QED BY <1>5, <1>9, <2>1 DEF Matching
    <3> HIDE DEF ids
    <3> QED BY <3>1, <3>2, <3>3
  <2>4. EndsOf(row) \in Seq(EndType) /\ Ends(whats, EndsOf(row)) = Ends(whats, row)
    <3> HIDE DEF whats
    <3> QED BY EndsOfIs
  <2>5. PICK ends \in Seq(EndType) : ends = EndsOf(row)
    BY <2>4
  <2>6. Counts(Ends(whats, sent)) = Counts(Ends(whats, ends))
    <3> HIDE DEF whats
    <3> QED BY <2>3, <2>5, EndsAlike
  <2>7. insA[id] = sent /\ insB[id] = row
    <3> HIDE DEF ids
    <3> QED BY <2>1, <2>2
  <2> HIDE DEF whats, insA, insB
  <2> QED BY <2>4, <2>5, <2>6, <2>7
<1>10. DOMAIN whats = ids
  OBVIOUS
<1> HIDE DEF whats, outsA, insA, outsB, insB, ids
<1> QED BY <1>6, <1>7, <1>8, <1>9, <1>10, UnorderedSame

-----------------------------------------------------------------------------
(* What a clean editor, and a load that nothing overtook, hold.              *)

RowsFor(n, j) ==
    LET ids == Ascending(NodesIn(n, j))
    IN [i \in DOMAIN ids |-> [id |-> ids[i], what |-> n[ids[i]].what]]

AsStored(n, rows, j, nodes, links) == nodes = RowsFor(n, j) /\ links = LinksOf(nodes, rows)

InsRead(read, rows, ids) ==
    \A id \in ids : PortsOf(read, id, FALSE) = PortsOf(rows, id, FALSE) /\ PortsOf(read, id, TRUE) = <<>>

\* A clean editor shows its job as the tables have it.
CleanEditor(e, n, rows) == e.clean => AsStored(n, rows, e.job, e.nodes, e.links)

\* So does a save of a clean editor, until another one overtakes it; a load that
\* nothing overtook holds what it read so far.
CleanCall(c, n, rows) ==
    /\ c.clean => /\ c.op \in {"save", "saving"} /\ ~c.behind
                  /\ AsStored(n, rows, c.job, c.drawing.nodes, c.drawing.links)
    /\ c.op \in {"ins", "outs"} /\ ~c.behind => c.drawing.nodes = RowsFor(n, c.job)
    /\ c.op = "outs" /\ ~c.behind => InsRead(c.ports, rows, NodesIn(n, c.job))

CleanInv ==
    /\ \A u \in Users : CleanEditor(editor[u], node, ports)
    /\ \A p \in Callers : CleanCall(call[p], node, ports)

(* The links of nodes depend on the ports of these nodes only. *)
LEMMA LinksSame ==
    ASSUME NEW nodes, NEW a, NEW b,
           \A id \in NodeIdsOf(nodes), isOut \in BOOLEAN : PortsOf(a, id, isOut) = PortsOf(b, id, isOut)
    PROVE  LinksOf(nodes, a) = LinksOf(nodes, b)
<1> DEFINE ids == NodeIdsOf(nodes)
<1>1. \A id \in ids : PortsOf(a, id, FALSE) = PortsOf(b, id, FALSE)
  OBVIOUS
<1>2. \A id \in ids : PortsOf(a, id, TRUE) = PortsOf(b, id, TRUE)
  OBVIOUS
<1>3. ASSUME NEW p PROVE TargetPort(nodes, a, p) = TargetPort(nodes, b, p)
  <2> DEFINE InsIn(rows) == IF p.peer \in ids THEN PortsOf(rows, p.peer, FALSE) ELSE <<>>
             Place(ins) ==
                 LET hits == {i \in DOMAIN ins : ins[i].peer = p.owner /\ ins[i].kind = p.kind}
                     first == CHOOSE i \in hits : \A k \in hits : i <= k
                 IN IF hits = {} THEN 0
                    ELSE Cardinality({i \in 1..(first - 1) : ins[i].kind = p.kind})
  <2>1. TargetPort(nodes, a, p) = Place(InsIn(a)) /\ TargetPort(nodes, b, p) = Place(InsIn(b))
    BY Zenon DEF TargetPort
  <2>2. InsIn(a) = InsIn(b)
    <3> HIDE DEF ids
    <3> QED BY <1>1
  <2> HIDE DEF Place, InsIn
  <2> QED BY <2>1, <2>2
<1>4. \A p : LinkFrom(nodes, a, p) = LinkFrom(nodes, b, p)
  BY <1>3 DEF LinkFrom
<1>5. ASSUME NEW id \in ids PROVE LinksFrom(nodes, a, id) = LinksFrom(nodes, b, id)
  <2>1. PICK outs : outs = PortsOf(a, id, TRUE) /\ outs = PortsOf(b, id, TRUE)
    BY <1>2
  <2>2. /\ LinksFrom(nodes, a, id) = [i \in DOMAIN outs |-> LinkFrom(nodes, a, outs[i])]
        /\ LinksFrom(nodes, b, id) = [i \in DOMAIN outs |-> LinkFrom(nodes, b, outs[i])]
    BY <2>1, Zenon DEF LinksFrom
  <2>3. [i \in DOMAIN outs |-> LinkFrom(nodes, a, outs[i])] = [i \in DOMAIN outs |-> LinkFrom(nodes, b, outs[i])]
    BY <1>4, Zenon
  <2> QED BY <2>2, <2>3
<1>6. \A i \in DOMAIN nodes : LinksFrom(nodes, a, nodes[i].id) = LinksFrom(nodes, b, nodes[i].id)
  <2>1. \A i \in DOMAIN nodes : nodes[i].id \in ids
    BY DEF NodeIdsOf
  <2> HIDE DEF ids
  <2> QED BY <1>5, <2>1
<1>7. LinkParts(nodes, a) = LinkParts(nodes, b)
  BY <1>6, Zenon DEF LinkParts
<1>8. LinksOf(nodes, a) = FlattenSeq(LinkParts(nodes, a)) /\ LinksOf(nodes, b) = FlattenSeq(LinkParts(nodes, b))
  BY DEF LinksOf, LinkParts, LinksFrom, LinkFrom
<1> QED BY <1>7, <1>8

(* The rows of a job, as a function of the table. *)
LEMMA RowsForIs ==
    ASSUME TablesType, NEW j
    PROVE  RowsOf(j) = RowsFor(node, j) /\ NodeIdsOf(RowsFor(node, j)) = NodesIn(node, j)
<1>1. NodesOf(j) = NodesIn(node, j)
  BY DEF NodesOf, NodesIn
<1>2. RowsOf(j) = RowsFor(node, j)
  BY <1>1 DEF RowsOf, RowsFor
<1> QED BY <1>1, <1>2, RowsOfIs

(* What is as stored stays so where the tables keep a graph. *)
LEMMA StoredSame ==
    ASSUME TablesType, NEW m, NEW new, NEW j, SameGraph(m, new, node, ports, j)
    PROVE  /\ RowsFor(m, j) = RowsFor(node, j)
           /\ \A nodes, links : AsStored(node, ports, j, nodes, links) => AsStored(m, new, j, nodes, links)
           /\ \A read : InsRead(read, ports, NodesIn(node, j)) => InsRead(read, new, NodesIn(m, j))
<1> DEFINE S == NodesIn(node, j)
           K == Cardinality(S)
<1>1. /\ NodesIn(m, j) = S /\ \A id \in S : m[id].what = node[id].what
      /\ \A id \in S, isOut \in BOOLEAN : PortsOf(new, id, isOut) = PortsOf(ports, id, isOut)
  BY DEF SameGraph
<1>2. Enumerates(S)
  <2>1. serial.node \in Nat
    BY DEF TablesType
  <2>2. IsFiniteSet(1..serial.node) /\ S \subseteq 1..serial.node
    BY <2>1, FS_Interval DEF NodesIn, TablesType
  <2>3. S \subseteq Int /\ IsFiniteSet(S)
    BY <2>1, <2>2, FS_Subset
  <2> QED BY <2>3, NthEnumerates
<1>3. DOMAIN Ascending(S) = 1..K /\ \A k \in 1..K : Ascending(S)[k] \in S
  BY <1>2 DEF Ascending, Enumerates
<1>4. RowsFor(m, j) = RowsFor(node, j)
  <2>1. PICK ids : ids = Ascending(S)
    OBVIOUS
  <2>2. /\ RowsFor(m, j) = [i \in DOMAIN ids |-> [id |-> ids[i], what |-> m[ids[i]].what]]
        /\ RowsFor(node, j) = [i \in DOMAIN ids |-> [id |-> ids[i], what |-> node[ids[i]].what]]
    BY <1>1, <2>1 DEF RowsFor
  <2>3. \A i \in DOMAIN ids : m[ids[i]].what = node[ids[i]].what
    <3> HIDE DEF S, K
    <3> QED BY <1>1, <1>3, <2>1
  <2>4. [i \in DOMAIN ids |-> [id |-> ids[i], what |-> m[ids[i]].what]]
            = [i \in DOMAIN ids |-> [id |-> ids[i], what |-> node[ids[i]].what]]
    BY <2>3, Zenon
  <2> QED BY <2>2, <2>4
<1>5. ASSUME NEW nodes, NEW links, AsStored(node, ports, j, nodes, links)
      PROVE  AsStored(m, new, j, nodes, links)
  <2>1. nodes = RowsFor(node, j) /\ links = LinksOf(nodes, ports)
    BY <1>5 DEF AsStored
  <2>2. NodeIdsOf(nodes) = S
    BY <2>1, RowsForIs
  <2>3. \A id \in NodeIdsOf(nodes), isOut \in BOOLEAN : PortsOf(new, id, isOut) = PortsOf(ports, id, isOut)
    <3> HIDE DEF S
    <3> QED BY <1>1, <2>2
  <2>4. LinksOf(nodes, new) = LinksOf(nodes, ports)
    BY <2>3, LinksSame
  <2> QED BY <1>4, <2>1, <2>4 DEF AsStored
<1>6. ASSUME NEW read, InsRead(read, ports, S) PROVE InsRead(read, new, NodesIn(m, j))
  <2>1. \A id \in S : PortsOf(new, id, FALSE) = PortsOf(ports, id, FALSE)
    <3> HIDE DEF S
    <3> QED BY <1>1
  <2> HIDE DEF S
  <2> QED BY <1>1, <1>6, <2>1, Zenon DEF InsRead
<1> QED BY <1>4, <1>5, <1>6

(* So do clean editors and calls of a job whose graph is kept. *)
LEMMA CleanKept ==
    ASSUME TablesType, NEW m, NEW new, NEW j, SameGraph(m, new, node, ports, j)
    PROVE  /\ \A e : e.job = j /\ CleanEditor(e, node, ports) => CleanEditor(e, m, new)
           /\ \A c : c.job = j /\ CleanCall(c, node, ports) => CleanCall(c, m, new)
<1>1. /\ RowsFor(m, j) = RowsFor(node, j)
      /\ \A nodes, links : AsStored(node, ports, j, nodes, links) => AsStored(m, new, j, nodes, links)
      /\ \A read : InsRead(read, ports, NodesIn(node, j)) => InsRead(read, new, NodesIn(m, j))
  BY StoredSame
<1>2. \A e : e.job = j /\ CleanEditor(e, node, ports) => CleanEditor(e, m, new)
  BY <1>1 DEF CleanEditor
<1>3. \A c : c.job = j /\ CleanCall(c, node, ports) => CleanCall(c, m, new)
  BY <1>1 DEF CleanCall
<1> QED BY <1>2, <1>3

-----------------------------------------------------------------------------
(* Every step keeps what clean editors and loads hold.                       *)

\* A request that neither saves a clean editor nor loads.
Settled(c) == c.clean = FALSE /\ c.op \notin {"ins", "outs"}

(* Such a request need hold nothing. *)
LEMMA SettledClean ==
    /\ \A c, n, rows : Settled(c) => CleanCall(c, n, rows)
    /\ \A c, op, j : op \notin {"ins", "outs"} =>
           Settled([Idle EXCEPT !.op = op, !.job = j])
    /\ Settled(Idle)
<1>1. \A c, n, rows : Settled(c) => CleanCall(c, n, rows)
  BY DEF Settled, CleanCall
<1>2. \A op, j : op \notin {"ins", "outs"} => Settled([Idle EXCEPT !.op = op, !.job = j])
  BY DEF Settled, Idle
<1>3. Settled(Idle)
  BY DEF Settled, Idle
<1> QED BY <1>1, <1>2, <1>3

(* While no graph changes it is enough that what moves is clean again. *)
LEMMA CleanMove ==
    ASSUME CleanInv, UNCHANGED <<node, ports>>,
           \A p \in Callers : call'[p] = call[p] \/ CleanCall(call'[p], node, ports),
           \A u \in Users : editor'[u] = editor[u] \/ CleanEditor(editor'[u], node, ports)
    PROVE  CleanInv'
<1>1. \A p \in Callers : CleanCall(call'[p], node, ports)
  BY DEF CleanInv
<1>2. \A u \in Users : CleanEditor(editor'[u], node, ports)
  BY DEF CleanInv
<1>3. node' = node /\ ports' = ports
  OBVIOUS
<1> QED BY <1>1, <1>2, <1>3 DEF CleanInv

(* One caller moves and no editor. *)
LEMMA CleanCaller ==
    ASSUME TypeInv, CleanInv, UNCHANGED <<node, ports, editor>>, NEW p \in Callers, NEW c,
           call' = [call EXCEPT ![p] = c], CleanCall(c, node, ports)
    PROVE  CleanInv'
<1>1. \A q \in Callers : call'[q] = IF q = p THEN c ELSE call[q]
  BY DEF TypeInv, CallsType
<1>2. \A q \in Callers : call'[q] = call[q] \/ CleanCall(call'[q], node, ports)
  BY <1>1
<1>3. \A u \in Users : editor'[u] = editor[u]
  OBVIOUS
<1> QED BY <1>2, <1>3, CleanMove

(* A caller returns. *)
LEMMA CleanReturn ==
    ASSUME TypeInv, CleanInv, UNCHANGED <<node, ports, editor>>, NEW p \in Callers, Return(p)
    PROVE  CleanInv'
<1>1. CleanCall(Idle, node, ports)
  BY SettledClean
<1> QED BY <1>1, CleanCaller DEF Return

(* Whoever works on the job that changes is overtaken; the others see nothing. *)
LEMMA CleanOvertaken ==
    ASSUME TypeInv, CleanInv, NEW u \in Users, NEW j, Overtake(u, j),
           \A k : k # j => SameGraph(node', ports', node, ports, k)
    PROVE  CleanInv'
<1>0. TablesType
  BY DEF TypeInv
<1>1. ASSUME NEW p \in Callers PROVE CleanCall(call'[p], node', ports')
  <2>1. call'[p] = IF p = u THEN Idle
                   ELSE IF call[p].job = j THEN [call[p] EXCEPT !.behind = TRUE, !.clean = FALSE]
                   ELSE call[p]
    BY DEF Overtake
  <2>2. CASE p = u
    BY <2>1, <2>2, SettledClean
  <2>3. CASE p # u /\ call[p].job = j
    <3>1. call[p] \in CallType
      BY CallIs
    <3>2. call'[p].behind = TRUE /\ call'[p].clean = FALSE
      BY <2>1, <2>3, <3>1 DEF CallType
    <3> QED BY <3>2 DEF CleanCall
  <2>4. CASE p # u /\ call[p].job # j
    <3>1. call'[p] = call[p] /\ CleanCall(call[p], node, ports)
      BY <2>1, <2>4 DEF CleanInv
    <3>2. PICK c, k : c = call[p] /\ k = call[p].job
      OBVIOUS
    <3>3. SameGraph(node', ports', node, ports, k)
      BY <2>4, <3>2
    <3> QED BY <1>0, <3>1, <3>2, <3>3, CleanKept
  <2> QED BY <2>2, <2>3, <2>4
<1>2. ASSUME NEW v \in Users PROVE CleanEditor(editor'[v], node', ports')
  <2>1. editor'[v] = IF v = u \/ editor[v].job = j THEN [editor[v] EXCEPT !.clean = FALSE] ELSE editor[v]
    BY DEF Overtake
  <2>2. CASE v = u \/ editor[v].job = j
    <3>1. editor'[v].clean = FALSE
      BY <2>1, <2>2, EditorIs DEF EditorType
    <3> QED BY <3>1 DEF CleanEditor
  <2>3. CASE ~(v = u \/ editor[v].job = j)
    <3>1. editor'[v] = editor[v] /\ CleanEditor(editor[v], node, ports)
      BY <2>1, <2>3 DEF CleanInv
    <3>2. PICK e, k : e = editor[v] /\ k = editor[v].job
      OBVIOUS
    <3>3. SameGraph(node', ports', node, ports, k)
      BY <2>3, <3>2
    <3> QED BY <1>0, <3>1, <3>2, <3>3, CleanKept
  <2> QED BY <2>2, <2>3
<1> QED BY <1>1, <1>2 DEF CleanInv

(* The ports that are loaded are the ports of the nodes that were loaded. *)
LEMMA Preloaded ==
    ASSUME TypeInv, NEW p, NEW id \in NodeIdsOf(call[p].drawing.nodes), NEW side, NEW isOut
    PROVE  /\ side = isOut => PortsOf(PreloadPorts(p, side), id, isOut) = PortsOf(ports, id, isOut)
           /\ side # isOut => PortsOf(PreloadPorts(p, side), id, isOut) = <<>>
<1> DEFINE ids == NodeIdsOf(call[p].drawing.nodes)
           places == {i \in DOMAIN ports : ports[i].owner \in ids /\ ports[i].out = side}
           E == {x \in PortType : x.owner \in ids /\ x.out = side}
           F == OfNode(id, isOut)
<1>1. ports \in Seq(PortType) /\ \A i \in DOMAIN ports : ports[i] \in PortType
  <2>1. ports \in Seq(PortType)
    BY DEF TypeInv, TablesType
  <2> QED BY <2>1, SeqIs
<1>2. PreloadPorts(p, side) = Picked(ports, places) /\ PreloadPorts(p, side) \in Seq(PortType)
  BY PreloadType DEF PreloadPorts
<1>3. places = {i \in DOMAIN ports : ports[i] \in E}
  <2> HIDE DEF ids
  <2> QED BY <1>1
<1>4. PreloadPorts(p, side) = Sel(ports, E)
  <2> HIDE DEF places, E
  <2> QED BY <1>2, <1>3 DEF Sel
<1>5. PortsOf(PreloadPorts(p, side), id, isOut) = Sel(Sel(ports, E), F)
  <2>1. \A rows \in Seq(PortType) : PortsOf(rows, id, isOut) = Sel(rows, F)
    BY QueriesSelect
  <2> HIDE DEF E, F
  <2> QED BY <1>2, <1>4, <2>1
<1>6. CASE side = isOut
  <2>1. \A x \in PortType : x \in F => x \in E
    BY <1>6 DEF OfNode
  <2>2. PortsOf(ports, id, isOut) = Sel(ports, F)
    BY <1>1, QueriesSelect
  <2>3. Sel(Sel(ports, E), F) = Sel(ports, F)
    <3> HIDE DEF E, F
    <3> QED BY <1>1, <2>1, SelSel
  <2> QED BY <1>5, <1>6, <2>2, <2>3
<1>7. CASE side # isOut
  <2>1. PICK t : t = Sel(ports, E)
    OBVIOUS
  <2>2. places \subseteq DOMAIN ports
    OBVIOUS
  <2>3. IsPicked(t, ports, places)
    <3> HIDE DEF places, E
    <3> QED BY <1>1, <1>2, <1>4, <2>1, <2>2, PickedIs
  <2>4. \A i \in places : ports[i] \notin F
    BY <1>7 DEF OfNode
  <2>5. \A k \in DOMAIN t : t[k] \notin F
    <3> HIDE DEF places, F
    <3> QED BY <2>3, <2>4 DEF IsPicked
  <2>6. Sel(t, F) = <<>>
    <3> HIDE DEF F
    <3> QED BY <2>5, SelNone
  <2> QED BY <1>5, <1>7, <2>1, <2>6
<1> QED BY <1>6, <1>7

(* The ports of a node in two reads. *)
LEMMA PortsConcat ==
    ASSUME NEW a \in Seq(PortType), NEW b \in Seq(PortType), NEW id, NEW isOut
    PROVE  PortsOf(a \o b, id, isOut) = PortsOf(a, id, isOut) \o PortsOf(b, id, isOut)
<1>1. a \o b \in Seq(PortType)
  BY ConcatType
<1>2. \A rows \in Seq(PortType) : PortsOf(rows, id, isOut) = Sel(rows, OfNode(id, isOut))
  BY QueriesSelect
<1>3. Sel(a \o b, OfNode(id, isOut)) = Sel(a, OfNode(id, isOut)) \o Sel(b, OfNode(id, isOut))
  BY SelConcat
<1> QED BY <1>1, <1>2, <1>3

(* The input ports, once read. *)
LEMMA InsAreRead ==
    ASSUME TypeInv, NEW p
    PROVE  InsRead(PreloadPorts(p, FALSE), ports, NodeIdsOf(call[p].drawing.nodes))
<1> SUFFICES ASSUME NEW id \in NodeIdsOf(call[p].drawing.nodes)
             PROVE  /\ PortsOf(PreloadPorts(p, FALSE), id, FALSE) = PortsOf(ports, id, FALSE)
                    /\ PortsOf(PreloadPorts(p, FALSE), id, TRUE) = <<>>
  BY Zenon DEF InsRead
<1>1. \A side, isOut : /\ side = isOut => PortsOf(PreloadPorts(p, side), id, isOut) = PortsOf(ports, id, isOut)
                       /\ side # isOut => PortsOf(PreloadPorts(p, side), id, isOut) = <<>>
  BY Preloaded
<1>2. FALSE # TRUE
  OBVIOUS
<1> QED BY ONLY <1>1, <1>2, Zenon

(* Both reads together give the links of the nodes that were loaded. *)
LEMMA LinksRead ==
    ASSUME TypeInv, NEW p \in Callers, NEW ids, ids = NodeIdsOf(call[p].drawing.nodes),
           InsRead(call[p].ports, ports, ids)
    PROVE  LinksOf(call[p].drawing.nodes, call[p].ports \o PreloadPorts(p, TRUE))
               = LinksOf(call[p].drawing.nodes, ports)
<1>1. PICK a \in Seq(PortType), b \in Seq(PortType) : a = call[p].ports /\ b = PreloadPorts(p, TRUE)
  BY CallIs, PreloadType DEF CallType
<1>2. ASSUME NEW id \in ids, NEW isOut \in BOOLEAN
      PROVE  PortsOf(a \o b, id, isOut) = PortsOf(ports, id, isOut)
  <2>1. PortsOf(a \o b, id, isOut) = PortsOf(a, id, isOut) \o PortsOf(b, id, isOut)
    BY PortsConcat
  <2>2. PortsOf(a, id, FALSE) = PortsOf(ports, id, FALSE) /\ PortsOf(a, id, TRUE) = <<>>
    BY <1>1 DEF InsRead
  <2>3. /\ PortsOf(b, id, TRUE) = PortsOf(ports, id, TRUE)
        /\ PortsOf(b, id, FALSE) = <<>>
    <3>1. \A side, out : /\ side = out => PortsOf(PreloadPorts(p, side), id, out) = PortsOf(ports, id, out)
                         /\ side # out => PortsOf(PreloadPorts(p, side), id, out) = <<>>
      BY Preloaded
    <3>2. TRUE # FALSE
      OBVIOUS
    <3> QED BY ONLY <1>1, <3>1, <3>2, Zenon
  <2>4. PICK row \in Seq(PortType) : row = PortsOf(ports, id, isOut)
    BY PortsOfType DEF TypeInv, TablesType
  <2>5. row \o <<>> = row /\ <<>> \o row = row
    OBVIOUS
  <2>6. CASE isOut = TRUE
    BY <2>1, <2>2, <2>3, <2>4, <2>5, <2>6
  <2>7. CASE isOut = FALSE
    BY <2>1, <2>2, <2>3, <2>4, <2>5, <2>7
  <2> QED BY <2>6, <2>7
<1>3. LinksOf(call[p].drawing.nodes, a \o b) = LinksOf(call[p].drawing.nodes, ports)
  BY <1>2, LinksSame
<1> QED BY <1>1, <1>3

(* A load that nothing overtook gives a clean editor. *)
LEMMA CleanLoading ==
    ASSUME TypeInv, CleanInv, Loading
    PROVE  CleanInv'
<1>0. Users \subseteq Callers /\ Runner \in Callers /\ DOMAIN call = Callers /\ DOMAIN editor = Users
  BY DEF Callers, TypeInv, CallsType, EditorsType
<1>1. UNCHANGED <<node, ports>> /\ TablesType
  BY DEF Loading, Open, Execute, LoadNodes, LoadIns, Abandon, LoadOuts, LoadRun, RunEnds,
         RunKillsServer, tables, TypeInv
<1>2. \A p \in Callers : call[p] \in CallType /\ CleanCall(call[p], node, ports)
  BY CallIs DEF CleanInv
<1>3. \A p \in Callers : call[p].op \notin {"save", "saving"} => call[p].clean = FALSE
  BY <1>2 DEF CleanCall, CallType
<1>4. ASSUME NEW p \in Callers, NEW c, call' = [call EXCEPT ![p] = c], CleanCall(c, node, ports), UNCHANGED editor
      PROVE  CleanInv'
  BY <1>1, <1>4, CleanCaller
<1>5. ASSUME NEW u \in Users, NEW j, Open(u, j) PROVE CleanInv'
  <2> DEFINE e == [editor[u] EXCEPT !.job = j, !.clean = FALSE]
             c == [Idle EXCEPT !.op = "open", !.job = j]
  <2>1. call' = [call EXCEPT ![u] = c] /\ editor' = [editor EXCEPT ![u] = e]
    BY <1>5 DEF Open
  <2>2. CleanCall(c, node, ports)
    BY SettledClean
  <2>3. CleanEditor(e, node, ports)
    BY EditorIs DEF CleanEditor, EditorType
  <2> HIDE DEF c, e
  <2>4. \A p \in Callers : call'[p] = call[p] \/ CleanCall(call'[p], node, ports)
    BY <1>0, <2>1, <2>2
  <2>5. \A v \in Users : editor'[v] = editor[v] \/ CleanEditor(editor'[v], node, ports)
    BY <1>0, <2>1, <2>3
  <2> QED BY <1>1, <2>4, <2>5, CleanMove
<1>6. ASSUME NEW j, Execute(j) PROVE CleanInv'
  <2> DEFINE c == [Idle EXCEPT !.op = "execute", !.job = j]
  <2>1. call' = [call EXCEPT ![Runner] = c] /\ UNCHANGED editor
    BY <1>6 DEF Execute
  <2>2. CleanCall(c, node, ports)
    BY SettledClean
  <2> HIDE DEF c
  <2> QED BY <1>0, <1>4, <2>1, <2>2
<1>7. ASSUME NEW p \in Callers, LoadNodes(p) PROVE CleanInv'
  <2> DEFINE rows == RowsOf(call[p].job)
             c == [call[p] EXCEPT !.op = "ins", !.behind = FALSE, !.drawing.nodes = rows]
  <2>1. call' = [call EXCEPT ![p] = c] /\ UNCHANGED editor /\ call[p].op \in {"open", "execute"}
    BY <1>7 DEF LoadNodes
  <2>2. c.drawing.nodes = rows /\ c.op = "ins" /\ c.clean = call[p].clean /\ c.job = call[p].job
    <3> HIDE DEF rows
    <3> QED BY <1>2 DEF CallType, DrawingType
  <2>3. rows = RowsFor(node, call[p].job)
    BY <1>1, RowsForIs
  <2>4. CleanCall(c, node, ports)
    <3> HIDE DEF c, rows
    <3> QED BY <1>3, <2>1, <2>2, <2>3 DEF CleanCall
  <2> HIDE DEF c
  <2> QED BY <1>4, <2>1, <2>4
<1>8. ASSUME NEW p \in Callers, LoadIns(p) PROVE CleanInv'
  <2> DEFINE rows == PreloadPorts(p, FALSE)
             c == [call[p] EXCEPT !.op = "outs", !.ports = rows]
  <2>1. call' = [call EXCEPT ![p] = c] /\ UNCHANGED editor /\ call[p].op = "ins"
    BY <1>8 DEF LoadIns
  <2>2. /\ c.drawing = call[p].drawing /\ c.ports = rows /\ c.op = "outs" /\ c.clean = call[p].clean
        /\ c.job = call[p].job /\ c.behind = call[p].behind
    <3> HIDE DEF rows
    <3> QED BY <1>2 DEF CallType
  <2>3. ~call[p].behind => call[p].drawing.nodes = RowsFor(node, call[p].job)
    BY <1>2, <2>1 DEF CleanCall
  <2>4. InsRead(rows, ports, NodeIdsOf(call[p].drawing.nodes))
    BY InsAreRead
  <2>5. ~call[p].behind => InsRead(rows, ports, NodesIn(node, call[p].job))
    <3>1. NodeIdsOf(RowsFor(node, call[p].job)) = NodesIn(node, call[p].job)
      BY <1>1, RowsForIs
    <3> HIDE DEF rows
    <3> QED BY <2>3, <2>4, <3>1
  <2>6. CleanCall(c, node, ports)
    <3> HIDE DEF c, rows
    <3> QED BY <1>3, <2>1, <2>2, <2>3, <2>5 DEF CleanCall
  <2> HIDE DEF c
  <2> QED BY <1>4, <2>1, <2>6
<1>9. ASSUME LoadRun PROVE CleanInv'
  <2> DEFINE rows == call[Runner].ports \o PreloadPorts(Runner, TRUE)
             c == [call[Runner] EXCEPT !.op = "planned", !.ports = rows]
  <2>1. call' = [call EXCEPT ![Runner] = c] /\ UNCHANGED editor /\ call[Runner].op = "outs"
    BY <1>9 DEF LoadRun
  <2>2. c.op = "planned" /\ c.clean = call[Runner].clean
    <3> HIDE DEF rows
    <3> QED BY <1>0, <1>2 DEF CallType
  <2>3. CleanCall(c, node, ports)
    <3> HIDE DEF c, rows
    <3> QED BY <1>0, <1>3, <2>1, <2>2 DEF CleanCall
  <2> HIDE DEF c
  <2> QED BY <1>0, <1>4, <2>1, <2>3
<1>10. ASSUME NEW u \in Users, LoadOuts(u) PROVE CleanInv'
  <2> DEFINE rows == call[u].drawing.nodes
             portRows == call[u].ports \o PreloadPorts(u, TRUE)
             e == Loaded(call[u].job, rows, portRows, ~call[u].behind)
  <2>0. u \in Callers
    BY <1>0
  <2>1. /\ Return(u) /\ editor' = IF rows = <<>> THEN editor ELSE [editor EXCEPT ![u] = e]
        /\ call[u].op = "outs"
    BY <1>10 DEF LoadOuts
  <2>2. \A p \in Callers : call'[p] = call[p] \/ CleanCall(call'[p], node, ports)
    <3>1. CleanCall(Idle, node, ports)
      BY SettledClean
    <3> QED BY <1>0, <2>1, <3>1 DEF Return
  <2>3. /\ e.job = call[u].job /\ e.nodes = rows /\ e.links = LinksOf(rows, portRows)
        /\ e.clean = ~call[u].behind
    <3> HIDE DEF rows, portRows
    <3> QED BY DEF Loaded
  <2>4. ASSUME ~call[u].behind
        PROVE  AsStored(node, ports, call[u].job, rows, LinksOf(rows, portRows))
    <3>1. rows = RowsFor(node, call[u].job) /\ InsRead(call[u].ports, ports, NodesIn(node, call[u].job))
      BY <1>2, <2>0, <2>1, <2>4 DEF CleanCall
    <3>2. NodeIdsOf(RowsFor(node, call[u].job)) = NodesIn(node, call[u].job)
      BY <1>1, RowsForIs
    <3>3. NodesIn(node, call[u].job) = NodeIdsOf(call[u].drawing.nodes)
      BY <3>1, <3>2
    <3>4. LinksOf(rows, portRows) = LinksOf(rows, ports)
      BY <2>0, <3>1, <3>3, LinksRead
    <3> HIDE DEF rows, portRows
    <3> QED BY <3>1, <3>4 DEF AsStored
  <2>5. CleanEditor(e, node, ports)
    <3> HIDE DEF e, rows, portRows
    <3> QED BY <2>3, <2>4 DEF CleanEditor
  <2>6. \A v \in Users : editor'[v] = editor[v] \/ CleanEditor(editor'[v], node, ports)
    <3> HIDE DEF e, rows
    <3> QED BY <1>0, <2>1, <2>5
  <2> QED BY <1>1, <2>2, <2>6, CleanMove
<1>11. ASSUME RunKillsServer PROVE CleanInv'
  <2>1. CleanCall(Idle, node, ports)
    BY SettledClean
  <2>2. \A p \in Callers : call'[p] = call[p] \/ CleanCall(call'[p], node, ports)
    BY <1>11, <2>1 DEF RunKillsServer
  <2>3. \A v \in Users : editor'[v] = editor[v] \/ CleanEditor(editor'[v], node, ports)
    BY <1>11 DEF RunKillsServer
  <2> QED BY <1>1, <2>2, <2>3, CleanMove
<1>12. ASSUME NEW p \in Callers, Abandon(p) PROVE CleanInv'
  BY <1>1, <1>12, CleanReturn DEF Abandon
<1>13. ASSUME RunEnds PROVE CleanInv'
  BY <1>0, <1>1, <1>13, CleanReturn DEF RunEnds
<1> QED BY <1>5, <1>6, <1>7, <1>8, <1>9, <1>10, <1>11, <1>12, <1>13 DEF Loading

(* A stroke leaves an editor that is not clean. *)
LEMMA CleanEditing ==
    ASSUME TypeInv, CleanInv, NEW u \in Users, Editing(u)
    PROVE  CleanInv'
<1>1. UNCHANGED <<node, ports, call>> /\ DOMAIN editor = Users /\ editor[u] \in EditorType
  BY EditorIs DEF Editing, Draw, Connect, Erase, Stroke, tables, TypeInv, EditorsType
<1>2. ASSUME NEW e, editor' = [editor EXCEPT ![u] = e], e.clean = FALSE PROVE CleanInv'
  <2>1. \A v \in Users : editor'[v] = editor[v] \/ CleanEditor(editor'[v], node, ports)
    BY <1>1, <1>2 DEF CleanEditor
  <2>2. \A p \in Callers : call'[p] = call[p]
    BY <1>1
  <2> QED BY <1>1, <2>1, <2>2, CleanMove
<1>3. ASSUME NEW what, Draw(u, what) PROVE CleanInv'
  <2> DEFINE row == [id |-> editor[u].next, what |-> what]
             e == [editor[u] EXCEPT !.nodes = Append(@, row), !.next = @ + 1, !.clean = FALSE]
  <2>1. editor' = [editor EXCEPT ![u] = e]
    BY <1>3 DEF Draw
  <2>2. e.clean = FALSE
    <3> HIDE DEF row
    <3> QED BY <1>1 DEF EditorType
  <2> HIDE DEF e
  <2> QED BY <1>2, <2>1, <2>2
<1>4. ASSUME NEW s, NEW t, NEW skind, NEW tkind, Connect(u, s, t, skind, tkind) PROVE CleanInv'
  <2> DEFINE link == [src |-> s, tgt |-> t, skind |-> skind, tkind |-> tkind, tp |-> 0]
             e == [editor[u] EXCEPT !.links = Append(@, link), !.clean = FALSE]
  <2>1. editor' = [editor EXCEPT ![u] = e]
    BY <1>4 DEF Connect
  <2>2. e.clean = FALSE
    <3> HIDE DEF link
    <3> QED BY <1>1 DEF EditorType
  <2> HIDE DEF e
  <2> QED BY <1>2, <2>1, <2>2
<1>5. ASSUME NEW id, Erase(u, id) PROVE CleanInv'
  <2> DEFINE nodes == editor[u].nodes
             links == editor[u].links
             less == Picked(nodes, {i \in DOMAIN nodes : nodes[i].id # id})
             fewer == Picked(links, {i \in DOMAIN links : links[i].src # id /\ links[i].tgt # id})
             e == [editor[u] EXCEPT !.nodes = less, !.links = fewer, !.clean = FALSE]
  <2>1. editor' = [editor EXCEPT ![u] = e]
    BY <1>5 DEF Erase
  <2>2. e.clean = FALSE
    <3> HIDE DEF less, fewer
    <3> QED BY <1>1 DEF EditorType
  <2> HIDE DEF e
  <2> QED BY <1>2, <2>1, <2>2
<1> QED BY <1>3, <1>4, <1>5 DEF Editing

(* A save sends the clean editor, and what it writes overtakes the others. *)
LEMMA CleanSaving ==
    ASSUME BoardInv, CleanInv, NEW u \in Users, Saving(u)
    PROVE  CleanInv'
<1>0. TypeInv /\ u \in Callers /\ call[u] \in CallType /\ DOMAIN call = Callers
  BY CallIs DEF BoardInv, Callers, TypeInv, CallsType
<1>1. CASE Save(u)
  <2> DEFINE c == [Idle EXCEPT !.op = "save", !.job = editor[u].job, !.clean = editor[u].clean,
                       !.drawing = [nodes |-> editor[u].nodes, links |-> editor[u].links]]
  <2>1. call' = [call EXCEPT ![u] = c] /\ UNCHANGED <<editor, node, ports>>
    BY <1>1 DEF Save, tables
  <2>2. /\ c.drawing.nodes = editor[u].nodes /\ c.drawing.links = editor[u].links
        /\ c.op = "save" /\ c.job = editor[u].job /\ c.clean = editor[u].clean /\ c.behind = FALSE
    BY DEF Idle
  <2>3. CleanEditor(editor[u], node, ports)
    BY DEF CleanInv
  <2> HIDE DEF c
  <2>4. CleanCall(c, node, ports)
    BY <2>2, <2>3 DEF CleanCall, CleanEditor
  <2> QED BY <1>0, <2>1, <2>4, CleanCaller
<1>2. CASE SaveEmpty(u)
  BY <1>0, <1>2, CleanReturn DEF SaveEmpty, tables
<1>3. CASE SaveRead(u)
  <2> DEFINE ids == NodesOf(call[u].job)
             c == [call[u] EXCEPT !.op = "saving", !.behind = FALSE, !.seen = ids]
  <2>1. call' = [call EXCEPT ![u] = c] /\ UNCHANGED <<editor, node, ports>> /\ call[u].op = "save"
    BY <1>3 DEF SaveRead, tables
  <2>2. /\ c.drawing = call[u].drawing /\ c.op = "saving" /\ c.job = call[u].job
        /\ c.clean = call[u].clean /\ c.behind = FALSE
    <3> HIDE DEF ids
    <3> QED BY <1>0 DEF CallType
  <2>3. CleanCall(call[u], node, ports)
    BY <1>0 DEF CleanInv
  <2> HIDE DEF c
  <2>4. CleanCall(c, node, ports)
    BY <2>2, <2>3 DEF CleanCall
  <2> QED BY <1>0, <2>1, <2>4, CleanCaller
<1>4. CASE SaveWrite(u)
  <2>1. /\ node' = NodesAfter(call[u]) /\ ports' = PortsAfter(call[u]) /\ call[u].op = "saving"
        /\ Overtake(u, call[u].job)
    BY <1>4 DEF SaveWrite
  <2>2. PICK c, j : c = call[u] /\ j = call[u].job
    OBVIOUS
  <2>3. /\ CallSound(c, serial) /\ Distinct(c.drawing.nodes)
        /\ \A id \in c.seen \cap DOMAIN node : node[id].job = c.job
    BY <1>0, <2>1, <2>2, CallIs DEF BoardInv, DrawingsKnown, CallKnown, SavesAhead, SaveAhead
  <2>4. \A k : k # c.job => SameGraph(NodesAfter(c), PortsAfter(c), node, ports, k)
    BY <1>0, <2>3, SaveSpares
  <2> QED BY <1>0, <2>1, <2>2, <2>4, CleanOvertaken
<1>5. CASE SaveRefused(u)
  BY <1>0, <1>5, CleanReturn DEF SaveRefused
<1> QED BY <1>1, <1>2, <1>3, <1>4, <1>5 DEF Saving

(* The other requests hold no graph; a delete overtakes whoever does. *)
LEMMA CleanManaging ==
    ASSUME TypeInv, CleanInv, NEW u \in Users, Managing(u)
    PROVE  CleanInv'
<1>0. u \in Callers /\ call[u] \in CallType /\ DOMAIN call = Callers /\ CleanCall(call[u], node, ports)
  BY CallIs DEF Callers, TypeInv, CallsType, CleanInv
<1>1. ASSUME NEW c, call' = [call EXCEPT ![u] = c], Settled(c), UNCHANGED <<node, ports, editor>>
      PROVE  CleanInv'
  <2>1. CleanCall(c, node, ports)
    BY <1>1, SettledClean
  <2> QED BY <1>0, <1>1, <2>1, CleanCaller
<1>2. ASSUME Return(u), UNCHANGED <<node, ports, editor>> PROVE CleanInv'
  BY <1>0, <1>2, CleanReturn
<1>3. ASSUME NEW j, NEW op \in {"patch", "contact", "delete", "share"}, Check(u, op, j) PROVE CleanInv'
  <2> DEFINE c == [Idle EXCEPT !.op = op, !.job = j]
  <2>1. call' = [call EXCEPT ![u] = c] /\ UNCHANGED <<editor, node, ports>>
    BY <1>3 DEF Check, tables
  <2>2. Settled(c)
    BY SettledClean
  <2> HIDE DEF c
  <2> QED BY <1>1, <2>1, <2>2
<1>4. ASSUME NEW public, Create(u, public) PROVE CleanInv'
  <2> DEFINE new == serial.job + 1
  <2>1. PICK op \in {"idle", "listed"} :
            call' = [call EXCEPT ![u] =
                 IF op = "idle" THEN Idle ELSE [Idle EXCEPT !.op = op, !.job = new]]
    BY <1>4 DEF Create
  <2> DEFINE c == IF op = "idle" THEN Idle ELSE [Idle EXCEPT !.op = op, !.job = new]
  <2>2. call' = [call EXCEPT ![u] = c] /\ UNCHANGED <<editor, node, ports>>
    BY <1>4, <2>1 DEF Create
  <2>3. Settled(c)
    <3> HIDE DEF new
    <3>1. op \notin {"ins", "outs"}
      BY <2>1
    <3> QED BY <3>1, SettledClean
  <2> HIDE DEF c
  <2> QED BY <1>1, <2>2, <2>3
<1>5. ASSUME NEW public, Patch(u, public) PROVE CleanInv'
  <2>1. UNCHANGED <<editor, node, ports>> /\ call[u].op = "patch"
    BY <1>5 DEF Patch
  <2>2. CASE call[u].job \notin DOMAIN job
    BY <1>2, <1>5, <2>1, <2>2 DEF Patch
  <2>3. CASE call[u].job \in DOMAIN job
    <3>1. PICK op \in {"idle", "relist"} :
             call' = [call EXCEPT ![u] = IF op = "idle" THEN Idle ELSE [@ EXCEPT !.op = op]]
      BY <1>5, <2>3 DEF Patch
    <3> DEFINE c == IF op = "idle" THEN Idle ELSE [call[u] EXCEPT !.op = op]
    <3>2. call' = [call EXCEPT ![u] = c]
      BY <3>1
    <3>3. Settled(c)
      <4>1. CASE op = "idle"
        BY <4>1, SettledClean
      <4>2. CASE op = "relist"
        BY <1>0, <2>1, <4>2 DEF Settled, CallType, CleanCall
      <4> QED BY <4>1, <4>2
    <3> HIDE DEF c
    <3> QED BY <1>1, <2>1, <3>2, <3>3
  <2> QED BY <2>2, <2>3
<1>6. ASSUME DeleteAccess(u) PROVE CleanInv'
  <2> DEFINE c == [call[u] EXCEPT !.op = "deleting"]
  <2>1. call' = [call EXCEPT ![u] = c] /\ UNCHANGED <<editor, node, ports>> /\ call[u].op = "delete"
    BY <1>6 DEF DeleteAccess, Step
  <2>2. Settled(c)
    BY <1>0, <2>1 DEF Settled, CallType, CleanCall
  <2> HIDE DEF c
  <2> QED BY <1>1, <2>1, <2>2
<1>7. ASSUME DeleteJob(u) PROVE CleanInv'
  <2>1. Cascade(call[u].job) /\ Overtake(u, call[u].job)
    BY <1>7 DEF DeleteJob
  <2>2. PICK j : j = call[u].job
    OBVIOUS
  <2>3. \A k : k # j => SameGraph(node', ports', node, ports, k)
    BY <2>1, <2>2, DeleteSpares
  <2> QED BY <2>1, <2>2, <2>3, CleanOvertaken
<1>8. ASSUME NEW with, ShareCreated(u, with) \/ Relist(u, with) PROVE CleanInv'
  BY <1>2, <1>8 DEF ShareCreated, Relist
<1>9. ASSUME NEW v, NEW role, Share(u, v, role) PROVE CleanInv'
  BY <1>2, <1>9 DEF Share
<1>10. ASSUME NEW v, Unshare(u, v) \/ AddContact(u, v) \/ RemoveContact(u, v) PROVE CleanInv'
  BY <1>2, <1>10 DEF Unshare, AddContact, RemoveContact
<1> QED BY <1>3, <1>4, <1>5, <1>6, <1>7, <1>8, <1>9, <1>10 DEF Managing

(* Every step keeps it. *)
LEMMA CleanStep ==
    ASSUME BoardInv, CleanInv, [Next]_vars
    PROVE  CleanInv'
<1>1. TypeInv
  BY DEF BoardInv
<1>2. CASE UNCHANGED vars
  BY <1>2 DEF vars, CleanInv
<1>3. CASE Next
  BY <1>1, <1>3, CleanLoading, CleanEditing, CleanSaving, CleanManaging DEF Next
<1> QED BY <1>2, <1>3

(* The first editors are clean. *)
LEMMA CleanInit ==
    ASSUME Init
    PROVE  CleanInv
<1>1. PICK scenario \in Scenarios, others \in SUBSET (Users \ {Founder}) :
        LET drawing == scenario.drawing
            count == Len(drawing.nodes)
            idMap == [id \in 0..(count - 1) |-> id + 1]
        IN /\ job = [j \in {1} |-> [creator |-> Founder, public |-> FALSE]]
           /\ access = {[job |-> 1, user |-> u, role |-> "editor"] : u \in others}
           /\ contacts = {}
           /\ node = [id \in 1..count |-> [job |-> 1, what |-> drawing.nodes[id].what]]
           /\ ports = PortRows(drawing, idMap)
           /\ serial = [job |-> 1, node |-> count]
           /\ editor = [u \in Users |->
                 IF u \in others \cup {Founder} THEN Loaded(1, RowsOf(1), ports, TRUE)
                 ELSE [job |-> 0, nodes |-> <<>>, links |-> <<>>, next |-> 0, clean |-> FALSE]]
           /\ call = [p \in Callers |-> Idle]
           /\ left = scenario.left
  BY DEF Init
<1> DEFINE empty == [job |-> 0, nodes |-> <<>>, links |-> <<>>, next |-> 0, clean |-> FALSE]
           full == Loaded(1, RowsOf(1), ports, TRUE)
<1>2. \A u \in Users : editor[u] = full \/ editor[u] = empty
  <2>1. editor = [u \in Users |-> IF u \in others \cup {Founder} THEN full ELSE empty]
    BY <1>1
  <2> HIDE DEF full, empty
  <2> QED BY <2>1
<1>3. CleanEditor(empty, node, ports)
  BY DEF CleanEditor
<1>4. CleanEditor(full, node, ports)
  <2>1. TablesType
    BY InitSound DEF TypeInv
  <2>2. RowsOf(1) = RowsFor(node, 1)
    BY <2>1, RowsForIs
  <2>3. full.job = 1 /\ full.nodes = RowsOf(1) /\ full.links = LinksOf(RowsOf(1), ports)
    BY DEF Loaded
  <2> HIDE DEF full
  <2> QED BY <2>2, <2>3 DEF CleanEditor, AsStored
<1>5. \A p \in Callers : call[p] = Idle
  BY <1>1
<1>6. CleanCall(Idle, node, ports)
  BY SettledClean
<1> HIDE DEF empty, full
<1> QED BY <1>2, <1>3, <1>4, <1>5, <1>6 DEF CleanInv

(* A save that ends has written its graph, or the tables are what they were. *)
LEMMA ResaveStep ==
    ASSUME BoardInv, CleanInv, [Next]_vars, NEW u \in Users, NEW j \in DOMAIN job,
           call[u].op = "saving", call[u].job = j, call[u].clean, call'[u] = Idle, Whole(Stored(j))
    PROVE  Unordered(Shown(j)') = Unordered(Shown(j))
<1>0. TypeInv /\ TablesConsistent /\ JobsOwned /\ u \in Callers
  BY DEF BoardInv, Callers
<1>1. Shown(j)' = ShownOf(node', ports', j) /\ Shown(j) = ShownOf(node, ports, j)
  BY ShownIs DEF Shown, ShownOf, NodesOf, NodesIn
<1>2. ASSUME UNCHANGED <<node, ports>> PROVE Shown(j)' = Shown(j)
  BY <1>1, <1>2
<1>3. Idle.op = "idle"
  BY DEF Idle
<1>4. CASE Quiet
  BY <1>2, <1>4 DEF Quiet
<1>5. ASSUME NEW v \in Users, SaveRead(v) PROVE Unordered(Shown(j)') = Unordered(Shown(j))
  BY <1>0, <1>2, <1>5, SaveReadIs
<1>6. ASSUME NEW v \in Users, NEW public \in BOOLEAN, Create(v, public)
      PROVE  Unordered(Shown(j)') = Unordered(Shown(j))
  BY <1>2, <1>6 DEF Create
<1>7. ASSUME NEW v \in Users, DeleteJob(v) PROVE FALSE
  <2>1. call[v].op = "deleting" /\ Overtake(v, call[v].job)
    BY <1>7 DEF DeleteJob
  <2>2. v # u
    BY <2>1
  <2>3. call'[u].op = call[u].op
    BY <1>0, <2>1, <2>2, OvertakeIs
  <2> QED BY <1>3, <2>3
<1>8. ASSUME NEW v \in Users, SaveWrite(v) PROVE Unordered(Shown(j)') = Unordered(Shown(j))
  <2>1. Overtake(v, call[v].job) /\ node' = NodesAfter(call[v]) /\ ports' = PortsAfter(call[v])
    BY <1>8 DEF SaveWrite
  <2>2. v = u
    <3> SUFFICES ASSUME v # u PROVE FALSE
      OBVIOUS
    <3>1. call'[u].op = call[u].op
      BY <1>0, <2>1, OvertakeIs
    <3> QED BY <1>3, <3>1
  <2>3. PICK c : c = call[u]
    OBVIOUS
  <2>4. /\ CallSound(c, serial) /\ c \in CallType /\ Distinct(c.drawing.nodes)
        /\ LinksKnown(c.drawing.nodes, c.drawing.links, serial)
    BY <1>0, <2>3, CallIs DEF BoardInv, DrawingsKnown, CallKnown
  <2>5. ~c.behind /\ AsStored(node, ports, j, c.drawing.nodes, c.drawing.links)
    BY <1>0, <2>3 DEF CleanInv, CleanCall
  <2>6. c.seen = NodesOf(c.job) /\ c.job = j
    BY <2>3, <2>5 DEF BoardInv, SavesAhead, SaveAhead
  <2>7. Shown(j)' = Drawn(c.drawing)
    BY <1>0, <1>1, <2>1, <2>2, <2>3, <2>4, <2>6, SaveStores
  <2>8. c.drawing.nodes = RowsOf(j) /\ c.drawing.links = LinksOf(RowsOf(j), ports)
    <3>1. RowsOf(j) = RowsFor(node, j)
      BY <1>0, RowsForIs DEF TypeInv
    <3> QED BY <2>5, <3>1 DEF AsStored
  <2>9. c.drawing = [nodes |-> RowsOf(j), links |-> LinksOf(RowsOf(j), ports)]
    <3>1. PICK d \in DrawingType : d = c.drawing
      BY <2>4 DEF CallType
    <3>2. d = [nodes |-> d.nodes, links |-> d.links]
      BY DEF DrawingType
    <3> QED BY <2>8, <3>1, <3>2
  <2>10. Unordered(Drawn(c.drawing)) = Unordered(Shown(j))
    BY <1>0, <2>9, ResavedPicture
  <2> QED BY <2>7, <2>10
<1> QED BY <1>0, <1>4, <1>5, <1>6, <1>7, <1>8, StepKinds

(* A job that is saved just as it was loaded keeps every node and every link,  *)
(* if every link was there with both its ends: the editor is clean only while  *)
(* it holds what the tables hold (CleanInv), a save of it that another request *)
(* of the same job overtook is not clean any more, and the ports that a        *)
(* payload's links become are the ports those links were read from, in another *)
(* order at the inputs (job.go, to a response and back).                       *)
THEOREM ResaveCorrect == Spec => ResaveKeepsGraph
<1>1. Init => BoardInv /\ CleanInv
  BY InitBoard, CleanInit
<1>2. BoardInv /\ CleanInv /\ [Next]_vars => BoardInv' /\ CleanInv'
  BY BoardStep, CleanStep
<1>3. BoardInv /\ CleanInv /\ [Next]_vars =>
          [\A u \in Users, j \in DOMAIN job :
              /\ call[u].op = "saving" /\ call[u].job = j /\ call[u].clean
              /\ call'[u] = Idle /\ j \in DOMAIN job'
              /\ Whole(Stored(j))
              => Unordered(Shown(j)') = Unordered(Shown(j))]_vars
  BY ResaveStep
<1> QED BY <1>1, <1>2, <1>3, PTL DEF Spec, ResaveKeepsGraph
=============================================================================
