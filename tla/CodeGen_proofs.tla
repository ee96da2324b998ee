--------------------------- MODULE CodeGen_proofs ---------------------------
(***************************************************************************)
(* Theorems about what the planner and the generators make of a loaded     *)
(* graph, for any users, scenarios, palettes and bounds: they hold of      *)
(* every graph that has the shape of a loaded one.                         *)
(***************************************************************************)
EXTENDS JobBoard_proofs

-----------------------------------------------------------------------------
(* What a relation leads to, step by step.                                   *)

Further(R, s) == s \cup UNION {R[id] : id \in s}

\* h is the first n steps that lead from a set through R.
Growing(h, I, n, from, R) ==
    /\ h \in [0..n -> SUBSET I] /\ h[0] = from
    /\ \A k \in 1..n : h[k] = Further(R, h[k - 1])

(* There are such steps. *)
LEMMA Grows ==
    ASSUME NEW I, NEW from \in SUBSET I, NEW R \in [I -> SUBSET I]
    PROVE  \A n \in Nat : \E h : Growing(h, I, n, from, R)
<1> DEFINE S == {n \in Nat : \E h : Growing(h, I, n, from, R)}
<1>1. 0 \in S
  <2> DEFINE h == [k \in 0..0 |-> from]
  <2>1. h \in [0..0 -> SUBSET I] /\ h[0] = from
    OBVIOUS
  <2>2. \A k \in 1..0 : h[k] = Further(R, h[k - 1])
    OBVIOUS
  <2> HIDE DEF h
  <2> QED BY <2>1, <2>2 DEF Growing
<1>2. ASSUME NEW n \in Nat, n \in S PROVE n + 1 \in S
  <2>1. PICK h : Growing(h, I, n, from, R)
    BY <1>2
  <2> DEFINE g == [k \in 0..(n + 1) |-> IF k = n + 1 THEN Further(R, h[n]) ELSE h[k]]
  <2>2. h[n] \in SUBSET I /\ Further(R, h[n]) \in SUBSET I
    BY <2>1 DEF Growing, Further
  <2>3. g \in [0..(n + 1) -> SUBSET I]
    BY <2>1, <2>2 DEF Growing
  <2>4. g[0] = from
    BY <2>1 DEF Growing
  <2>5. \A k \in 1..(n + 1) : g[k] = Further(R, g[k - 1])
    <3> SUFFICES ASSUME NEW k \in 1..(n + 1) PROVE g[k] = Further(R, g[k - 1])
      OBVIOUS
    <3>1. k - 1 \in 0..(n + 1) /\ k - 1 # n + 1 /\ k \in 0..(n + 1) /\ (k - 1) \in 0..n
      OBVIOUS
    <3>2. g[k - 1] = h[k - 1]
      BY <3>1
    <3>3. CASE k = n + 1
      <4>1. g[k] = Further(R, h[n]) /\ k - 1 = n
        BY <3>1, <3>3
      <4> HIDE DEF g
      <4> QED BY <3>2, <4>1
    <3>4. CASE k # n + 1
      <4>1. g[k] = h[k] /\ k \in 1..n
        BY <3>1, <3>4
      <4>2. h[k] = Further(R, h[k - 1])
        BY <2>1, <4>1 DEF Growing
      <4> HIDE DEF g
      <4> QED BY <3>2, <4>1, <4>2
    <3> QED BY <3>3, <3>4
  <2>6. Growing(g, I, n + 1, from, R)
    <3> HIDE DEF g
    <3> QED BY <2>3, <2>4, <2>5 DEF Growing
  <2> QED BY <2>6
<1>3. Nat \subseteq S
  <2> HIDE DEF S
  <2> QED BY <1>1, <1>2, SetInduction
<1> QED BY <1>3

\* c is the least set that holds another and what R leads to from its elements.
Closure(c, I, from, R) ==
    /\ from \subseteq c /\ c \subseteq I
    /\ \A id \in c : R[id] \subseteq c
    /\ \A s \in SUBSET I : from \subseteq s /\ (\A id \in s : R[id] \subseteq s) => c \subseteq s

(* After as many steps as there are elements nothing new can come. *)
LEMMA GrowsUp ==
    ASSUME NEW I, IsFiniteSet(I), NEW from \in SUBSET I, NEW R \in [I -> SUBSET I],
           NEW h, Growing(h, I, Cardinality(I), from, R)
    PROVE  Closure(h[Cardinality(I)], I, from, R)
<1> DEFINE n == Cardinality(I)
<1>1. n \in Nat
  BY FS_CardinalityType
<1> HIDE DEF n
<1>2. /\ \A k \in 0..n : h[k] \in SUBSET I
      /\ h[0] = from /\ \A k \in 1..n : h[k] = Further(R, h[k - 1])
  BY DEF Growing, n
<1>3. \A k \in 0..n : IsFiniteSet(h[k]) /\ Cardinality(h[k]) \in Nat /\ Cardinality(h[k]) <= n
  BY <1>2, FS_Subset, FS_CardinalityType DEF n
<1>4. ASSUME NEW m \in 0..n, Further(R, h[m]) = h[m] PROVE Further(R, h[n]) = h[n]
  <2> DEFINE S == {k \in Nat : m + k <= n => h[m + k] = h[m]}
  <2>1. 0 \in S
    BY <1>1
  <2>2. ASSUME NEW k \in Nat, k \in S PROVE k + 1 \in S
    <3> SUFFICES ASSUME m + (k + 1) <= n PROVE h[m + (k + 1)] = h[m]
      OBVIOUS
    <3>1. m + k <= n /\ m + (k + 1) \in 1..n /\ (m + (k + 1)) - 1 = m + k
      BY <1>1
    <3>2. h[m + k] = h[m]
      BY <2>2, <3>1
    <3>3. h[m + (k + 1)] = Further(R, h[m + k])
      BY <1>2, <3>1
    <3> QED BY <1>4, <3>2, <3>3
  <2>3. Nat \subseteq S
    <3> HIDE DEF S
    <3> QED BY <2>1, <2>2, SetInduction
  <2>4. n - m \in Nat /\ m + (n - m) = n
    BY <1>1
  <2>5. h[n] = h[m]
    BY <2>3, <2>4
  <2> QED BY <1>4, <2>5
<1>5. Further(R, h[n]) = h[n]
  <2> SUFFICES ASSUME Further(R, h[n]) # h[n] PROVE FALSE
    OBVIOUS
  <2>1. \A k \in 0..n : Further(R, h[k]) # h[k]
    BY <1>4
  <2> DEFINE S == {k \in Nat : k <= n => Cardinality(h[k]) > k}
  <2>2. 0 \in S
    <3>1. h[0] # {}
      BY <1>1, <2>1 DEF Further
    <3>2. Cardinality(h[0]) # 0
      BY <1>1, <1>3, <3>1, FS_EmptySet
    <3> QED BY <1>1, <1>3, <3>2
  <2>3. ASSUME NEW k \in Nat, k \in S PROVE k + 1 \in S
    <3> SUFFICES ASSUME k + 1 <= n PROVE Cardinality(h[k + 1]) > k + 1
      OBVIOUS
    <3>1. k \in 0..n /\ k + 1 \in 0..n /\ k + 1 \in 1..n /\ (k + 1) - 1 = k /\ k <= n
      BY <1>1
    <3>2. h[k + 1] = Further(R, h[k]) /\ h[k + 1] # h[k]
      BY <1>2, <2>1, <3>1
    <3>3. h[k] \subseteq h[k + 1]
      BY <3>2 DEF Further
    <3>4. Cardinality(h[k]) < Cardinality(h[k + 1])
      BY <1>3, <3>1, <3>2, <3>3, FS_Subset
    <3>5. Cardinality(h[k]) > k
      BY <2>3, <3>1
    <3>6. Cardinality(h[k]) \in Nat /\ Cardinality(h[k + 1]) \in Nat
      BY <1>3, <3>1
    <3> QED BY <3>4, <3>5, <3>6
  <2>4. Nat \subseteq S
    <3> HIDE DEF S
    <3> QED BY <2>2, <2>3, SetInduction
  <2>5. Cardinality(h[n]) > n
    BY <1>1, <2>4
  <2> QED BY <1>1, <1>3, <2>5
<1>6. from \subseteq h[n]
  <2> DEFINE S == {k \in Nat : k <= n => from \subseteq h[k]}
  <2>1. 0 \in S
    BY <1>2
  <2>2. ASSUME NEW k \in Nat, k \in S PROVE k + 1 \in S
    <3> SUFFICES ASSUME k + 1 <= n PROVE from \subseteq h[k + 1]
      OBVIOUS
    <3>1. k + 1 \in 1..n /\ (k + 1) - 1 = k /\ k <= n
      BY <1>1
    <3>2. h[k + 1] = Further(R, h[k])
      BY <1>2, <3>1
    <3> QED BY <2>2, <3>1, <3>2 DEF Further
  <2>3. Nat \subseteq S
    <3> HIDE DEF S
    <3> QED BY <2>1, <2>2, SetInduction
  <2> QED BY <1>1, <2>3
<1>7. ASSUME NEW s \in SUBSET I, from \subseteq s, \A id \in s : R[id] \subseteq s PROVE h[n] \subseteq s
  <2> DEFINE S == {k \in Nat : k <= n => h[k] \subseteq s}
  <2>1. 0 \in S
    BY <1>2, <1>7
  <2>2. ASSUME NEW k \in Nat, k \in S PROVE k + 1 \in S
    <3> SUFFICES ASSUME k + 1 <= n PROVE h[k + 1] \subseteq s
      OBVIOUS
    <3>1. k + 1 \in 1..n /\ (k + 1) - 1 = k /\ k <= n
      BY <1>1
    <3>2. h[k + 1] = Further(R, h[k])
      BY <1>2, <3>1
    <3> QED BY <1>7, <2>2, <3>1, <3>2 DEF Further
  <2>3. Nat \subseteq S
    <3> HIDE DEF S
    <3> QED BY <2>1, <2>2, SetInduction
  <2> QED BY <1>1, <2>3
<1>8. \A id \in h[n] : R[id] \subseteq h[n]
  BY <1>5 DEF Further
<1>9. h[n] \subseteq I
  BY <1>1, <1>2
<1> HIDE DEF Growing
<1>10. Closure(h[n], I, from, R)
  BY <1>6, <1>7, <1>8, <1>9 DEF Closure
<1> QED BY <1>10 DEF n

(* Steps that go on as long as they stay within a set stay within it. *)
LEMMA GrowsWithin ==
    ASSUME NEW I, NEW n \in Nat, NEW from \in SUBSET I, NEW R \in [I -> SUBSET I],
           NEW f, f = [k \in 0..n |-> f[k]], f[0] = from,
           \A k \in 1..n : f[k - 1] \in SUBSET I => f[k] = Further(R, f[k - 1])
    PROVE  Growing(f, I, n, from, R)
<1> DEFINE S == {k \in Nat : k <= n => f[k] \in SUBSET I}
<1>1. 0 \in S
  OBVIOUS
<1>2. ASSUME NEW k \in Nat, k \in S PROVE k + 1 \in S
  <2> SUFFICES ASSUME k + 1 <= n PROVE f[k + 1] \in SUBSET I
    OBVIOUS
  <2>1. k + 1 \in 1..n /\ (k + 1) - 1 = k /\ k <= n
    OBVIOUS
  <2>2. f[k] \in SUBSET I
    BY <1>2, <2>1
  <2>3. f[k + 1] = Further(R, f[k])
    BY <2>1, <2>2
  <2>4. Further(R, f[k]) \in SUBSET I
    <3> HIDE DEF S
    <3>1. \A s \in SUBSET I : Further(R, s) \in SUBSET I
      BY DEF Further
    <3> QED BY <2>2, <3>1
  <2> QED BY <2>3, <2>4
<1>3. Nat \subseteq S
  <2> HIDE DEF S
  <2> QED BY <1>1, <1>2, SetInduction
<1>4. \A k \in 0..n : f[k] \in SUBSET I
  BY <1>3
<1>5. \A k \in 1..n : f[k] = Further(R, f[k - 1])
  <2>1. \A k \in 1..n : k - 1 \in 0..n
    OBVIOUS
  <2> QED BY <1>4, <2>1
<1>6. f \in [0..n -> SUBSET I]
  BY <1>4
<1> QED BY <1>5, <1>6 DEF Growing

-----------------------------------------------------------------------------
(* The traversals of the planner.                                            *)

IdsOf(g) == NodeIdsOf(g.nodes)

\* What the flow links of a node lead to, or come from, among the loaded nodes.
Ahead(g) == [id \in IdsOf(g) |-> NextFlow(g, id) \cap IdsOf(g)]
Behind(g) == [id \in IdsOf(g) |-> PrevFlow(g, id) \cap IdsOf(g)]

SpreadAhead(g, from) == LET Forth(id) == NextFlow(g, id) IN Spread(g, Forth, from)
SpreadBehind(g, from) == LET Back(id) == PrevFlow(g, id) IN Spread(g, Back, from)

(* Following flow links forward finds all they lead to. *)
LEMMA AheadIs ==
    ASSUME NEW g, IsFiniteSet(IdsOf(g)), NEW from \in SUBSET IdsOf(g)
    PROVE  Closure(SpreadAhead(g, from), IdsOf(g), from, Ahead(g))
<1> DEFINE I == IdsOf(g)
           n == Cardinality(I)
           R == Ahead(g)
           Made(f) == [k \in 0..n |-> IF k = 0 THEN from
                                      ELSE f[k - 1] \cup ((UNION {NextFlow(g, id) : id \in f[k - 1]}) \cap I)]
           Chosen == CHOOSE f : f = Made(f)
<1>1. n \in Nat /\ R \in [I -> SUBSET I]
  BY FS_CardinalityType DEF Ahead
<1>2. \A s \in SUBSET I : s \cup ((UNION {NextFlow(g, id) : id \in s}) \cap I) = Further(R, s)
  <2> SUFFICES ASSUME NEW s \in SUBSET I
               PROVE  (UNION {NextFlow(g, id) : id \in s}) \cap I = UNION {R[id] : id \in s}
    BY DEF Further
  <2>1. \A id \in s : R[id] = NextFlow(g, id) \cap I
    BY DEF Ahead
  <2> HIDE DEF R, I
  <2>2. \A x : x \in (UNION {NextFlow(g, id) : id \in s}) \cap I
                 <=> \E id \in s : x \in NextFlow(g, id) \cap I
    OBVIOUS
  <2>3. \A x : x \in UNION {R[id] : id \in s} <=> \E id \in s : x \in R[id]
    OBVIOUS
  <2>4. \A x : x \in (UNION {NextFlow(g, id) : id \in s}) \cap I <=> x \in UNION {R[id] : id \in s}
    BY <2>1, <2>2, <2>3
  <2> QED BY <2>4
<1>3. PICK h : Growing(h, I, n, from, R)
  <2> HIDE DEF I, n, R
  <2> QED BY <1>1, Grows DEF I
<1>4. h = Made(h)
  <2>1. h = [k \in 0..n |-> h[k]] /\ h[0] = from
    BY <1>3 DEF Growing
  <2>2. \A k \in 1..n : h[k - 1] \in SUBSET I /\ h[k] = Further(R, h[k - 1])
    <3>1. \A k \in 1..n : k - 1 \in 0..n
      BY <1>1
    <3> HIDE DEF I, n, R
    <3> QED BY <1>3, <3>1 DEF Growing
  <2>3. \A k \in 1..n : h[k] = h[k - 1] \cup ((UNION {NextFlow(g, id) : id \in h[k - 1]}) \cap I)
    <3> HIDE DEF n, R, I
    <3> QED BY <1>2, <2>2
  <2>4. \A k \in 0..n : k # 0 => k \in 1..n
    BY <1>1
  <2>5. \A k \in 0..n : h[k] = IF k = 0 THEN from
                               ELSE h[k - 1] \cup ((UNION {NextFlow(g, id) : id \in h[k - 1]}) \cap I)
    <3> HIDE DEF n, I
    <3> QED BY <2>1, <2>3, <2>4
  <2> HIDE DEF n, I
  <2> QED BY <2>1, <2>5
<1>5. Chosen = Made(Chosen)
  <2> HIDE DEF Made
  <2> QED BY <1>4, Zenon
<1>6. SpreadAhead(g, from) = Chosen[n]
  BY DEF SpreadAhead, Spread, IdsOf
<1>7. Growing(Chosen, I, n, from, R)
  <2>1. PICK f : f = Chosen
    OBVIOUS
  <2>2. f = Made(f)
    BY <1>5, <2>1
  <2>3. DOMAIN f = 0..n /\ f[0] = from /\ f = [k \in 0..n |-> f[k]]
    <3> HIDE DEF n, I, Chosen
    <3> QED BY <1>1, <2>2
  <2>4. ASSUME NEW k \in 1..n, f[k - 1] \in SUBSET I PROVE f[k] = Further(R, f[k - 1])
    <3>1. k \in 0..n /\ k # 0
      BY <1>1
    <3>2. f[k] = f[k - 1] \cup ((UNION {NextFlow(g, id) : id \in f[k - 1]}) \cap I)
      <4> HIDE DEF n, I, Chosen
      <4> QED BY <2>2, <3>1
    <3> HIDE DEF n, I, Chosen, R
    <3> QED BY <1>2, <2>4, <3>2
  <2>5. Growing(f, I, n, from, R)
    <3> HIDE DEF n, I, Chosen, R
    <3> QED BY <1>1, <2>3, <2>4, GrowsWithin DEF I
  <2> QED BY <2>1, <2>5
<1>8. Closure(Chosen[n], I, from, R)
  <2> HIDE DEF Chosen, R
  <2> QED BY <1>1, <1>7, GrowsUp
<1> QED BY <1>6, <1>8

(* Following them backward finds all they come from. *)
LEMMA BehindIs ==
    ASSUME NEW g, IsFiniteSet(IdsOf(g)), NEW from \in SUBSET IdsOf(g)
    PROVE  Closure(SpreadBehind(g, from), IdsOf(g), from, Behind(g))
<1> DEFINE I == IdsOf(g)
           n == Cardinality(I)
           R == Behind(g)
           Made(f) == [k \in 0..n |-> IF k = 0 THEN from
                                      ELSE f[k - 1] \cup ((UNION {PrevFlow(g, id) : id \in f[k - 1]}) \cap I)]
           Chosen == CHOOSE f : f = Made(f)
<1>1. n \in Nat /\ R \in [I -> SUBSET I]
  BY FS_CardinalityType DEF Behind
<1>2. \A s \in SUBSET I : s \cup ((UNION {PrevFlow(g, id) : id \in s}) \cap I) = Further(R, s)
  <2> SUFFICES ASSUME NEW s \in SUBSET I
               PROVE  (UNION {PrevFlow(g, id) : id \in s}) \cap I = UNION {R[id] : id \in s}
    BY DEF Further
  <2>1. \A id \in s : R[id] = PrevFlow(g, id) \cap I
    BY DEF Behind
  <2> HIDE DEF R, I
  <2>2. \A x : x \in (UNION {PrevFlow(g, id) : id \in s}) \cap I
                 <=> \E id \in s : x \in PrevFlow(g, id) \cap I
    OBVIOUS
  <2>3. \A x : x \in UNION {R[id] : id \in s} <=> \E id \in s : x \in R[id]
    OBVIOUS
  <2>4. \A x : x \in (UNION {PrevFlow(g, id) : id \in s}) \cap I <=> x \in UNION {R[id] : id \in s}
    BY <2>1, <2>2, <2>3
  <2> QED BY <2>4
<1>3. PICK h : Growing(h, I, n, from, R)
  <2> HIDE DEF I, n, R
  <2> QED BY <1>1, Grows DEF I
<1>4. h = Made(h)
  <2>1. h = [k \in 0..n |-> h[k]] /\ h[0] = from
    BY <1>3 DEF Growing
  <2>2. \A k \in 1..n : h[k - 1] \in SUBSET I /\ h[k] = Further(R, h[k - 1])
    <3>1. \A k \in 1..n : k - 1 \in 0..n
      BY <1>1
    <3> HIDE DEF I, n, R
    <3> QED BY <1>3, <3>1 DEF Growing
  <2>3. \A k \in 1..n : h[k] = h[k - 1] \cup ((UNION {PrevFlow(g, id) : id \in h[k - 1]}) \cap I)
    <3> HIDE DEF n, R, I
    <3> QED BY <1>2, <2>2
  <2>4. \A k \in 0..n : k # 0 => k \in 1..n
    BY <1>1
  <2>5. \A k \in 0..n : h[k] = IF k = 0 THEN from
                               ELSE h[k - 1] \cup ((UNION {PrevFlow(g, id) : id \in h[k - 1]}) \cap I)
    <3> HIDE DEF n, I
    <3> QED BY <2>1, <2>3, <2>4
  <2> HIDE DEF n, I
  <2> QED BY <2>1, <2>5
<1>5. Chosen = Made(Chosen)
  <2> HIDE DEF Made
  <2> QED BY <1>4, Zenon
<1>6. SpreadBehind(g, from) = Chosen[n]
  BY DEF SpreadBehind, Spread, IdsOf
<1>7. Growing(Chosen, I, n, from, R)
  <2>1. PICK f : f = Chosen
    OBVIOUS
  <2>2. f = Made(f)
    BY <1>5, <2>1
  <2>3. DOMAIN f = 0..n /\ f[0] = from /\ f = [k \in 0..n |-> f[k]]
    <3> HIDE DEF n, I, Chosen
    <3> QED BY <1>1, <2>2
  <2>4. ASSUME NEW k \in 1..n, f[k - 1] \in SUBSET I PROVE f[k] = Further(R, f[k - 1])
    <3>1. k \in 0..n /\ k # 0
      BY <1>1
    <3>2. f[k] = f[k - 1] \cup ((UNION {PrevFlow(g, id) : id \in f[k - 1]}) \cap I)
      <4> HIDE DEF n, I, Chosen
      <4> QED BY <2>2, <3>1
    <3> HIDE DEF n, I, Chosen, R
    <3> QED BY <1>2, <2>4, <3>2
  <2>5. Growing(f, I, n, from, R)
    <3> HIDE DEF n, I, Chosen, R
    <3> QED BY <1>1, <2>3, <2>4, GrowsWithin DEF I
  <2> QED BY <2>1, <2>5
<1>8. Closure(Chosen[n], I, from, R)
  <2> HIDE DEF Chosen, R
  <2> QED BY <1>1, <1>7, GrowsUp
<1> QED BY <1>6, <1>8

(* What the planner visits, plans and finds to be a cycle, as closures. *)
LEMMA PlannedIs ==
    ASSUME NEW g, IsFiniteSet(IdsOf(g))
    PROVE  /\ Closure(Visited(g), IdsOf(g), Starts(g), Ahead(g))
           /\ Closure(Planned(g), IdsOf(g), Visited(g), Behind(g))
           /\ \A id \in IdsOf(g) :
                 Closure(SpreadBehind(g, Behind(g)[id]), IdsOf(g), Behind(g)[id], Behind(g))
           /\ ~RecursesForEver(g) => \A id \in Planned(g) : id \notin SpreadBehind(g, Behind(g)[id])
<1>1. Visited(g) = SpreadAhead(g, Starts(g)) /\ Planned(g) = SpreadBehind(g, Visited(g))
  BY DEF Visited, Planned, SpreadAhead, SpreadBehind
<1>2. Starts(g) \in SUBSET IdsOf(g)
  BY DEF Starts, IdsOf
<1>3. Closure(Visited(g), IdsOf(g), Starts(g), Ahead(g))
  BY <1>1, <1>2, AheadIs
<1>4. Visited(g) \in SUBSET IdsOf(g)
  BY <1>3 DEF Closure
<1>5. Closure(Planned(g), IdsOf(g), Visited(g), Behind(g))
  BY <1>1, <1>4, BehindIs
<1>6. \A id \in IdsOf(g) : Behind(g)[id] \in SUBSET IdsOf(g)
  BY DEF Behind
<1>7. \A id \in IdsOf(g) :
         Closure(SpreadBehind(g, Behind(g)[id]), IdsOf(g), Behind(g)[id], Behind(g))
  BY <1>6, BehindIs
<1>8. RecursesForEver(g) =
         \E id \in Planned(g) : id \in SpreadBehind(g, PrevFlow(g, id) \cap IdsOf(g))
  BY DEF RecursesForEver, SpreadBehind, IdsOf
<1>9. \A id \in Planned(g) : Behind(g)[id] = PrevFlow(g, id) \cap IdsOf(g)
  BY <1>5 DEF Closure, Behind
<1> QED BY <1>3, <1>5, <1>7, <1>8, <1>9

-----------------------------------------------------------------------------
(* Levels.                                                                   *)

\* One more than the highest level of those before a node, 0 without any.
Above(f, q) == Max({0} \cup {1 + f[prev] : prev \in q})

Leveled(f, P, Q) == [id \in P |-> Above(f, Q[id])]

\* Q has no cycle: the rank goes down along it.
Falls(rank, P, Q, n) ==
    /\ P \subseteq DOMAIN rank /\ \A id \in P : rank[id] \in 0..n
    /\ \A id \in P : Q[id] \in SUBSET P /\ \A prev \in Q[id] : rank[prev] < rank[id]

(* The level above finitely many levels is higher than each of them. *)
LEMMA AboveIs ==
    ASSUME NEW q, IsFiniteSet(q), NEW f, \A prev \in q : f[prev] \in Nat
    PROVE  Above(f, q) \in Nat /\ \A prev \in q : f[prev] < Above(f, q)
<1> DEFINE g == [prev \in q |-> 1 + f[prev]]
           T == {1 + f[prev] : prev \in q}
           S == {0} \cup T
<1>1. T \subseteq Nat
  OBVIOUS
<1>2. IsFiniteSet(T)
  <2>1. g \in Surjection(q, T)
    BY DEF Surjection
  <2> HIDE DEF g, T
  <2> QED BY <2>1, FS_Surjection
<1>3. S \subseteq Nat /\ IsFiniteSet(S) /\ S # {}
  <2> HIDE DEF T
  <2>1. IsFiniteSet({0})
    BY FS_Singleton
  <2>2. IsFiniteSet({0} \cup T)
    BY <1>2, <2>1, FS_Union
  <2>3. S \subseteq Nat /\ S # {}
    BY <1>1
  <2> QED BY <2>2, <2>3
<1>4. Max(S) \in S /\ \A n \in S : n <= Max(S)
  <2> HIDE DEF S
  <2> QED BY <1>3, MaxIs
<1>5. Above(f, q) = Max(S)
  BY DEF Above
<1>6. Max(S) \in Nat
  <2> HIDE DEF S
  <2> QED BY <1>3, <1>4
<1>7. ASSUME NEW prev \in q PROVE f[prev] < Max(S)
  <2>1. 1 + f[prev] \in S /\ f[prev] \in Nat
    OBVIOUS
  <2> HIDE DEF S
  <2>2. 1 + f[prev] <= Max(S)
    BY <1>4, <2>1
  <2> QED BY <1>6, <2>1, <2>2
<1> HIDE DEF S
<1> QED BY <1>5, <1>6, <1>7

(* It depends on these levels only. *)
LEMMA AboveSame ==
    ASSUME NEW q, NEW f, NEW g, \A prev \in q : f[prev] = g[prev]
    PROVE  Above(f, q) = Above(g, q)
<1>1. {1 + f[prev] : prev \in q} = {1 + g[prev] : prev \in q}
  OBVIOUS
<1> QED BY <1>1 DEF Above

(* Nodes have levels when no node comes before itself. *)
LEMMA LevelsExist ==
    ASSUME NEW P, IsFiniteSet(P), NEW Q, NEW n \in Nat, NEW rank, Falls(rank, P, Q, n)
    PROVE  \E f \in [P -> Nat] : f = Leveled(f, P, Q)
<1> DEFINE Upto(f, k) == \A id \in P : rank[id] < k => f[id] = Above(f, Q[id])
           S == {k \in Nat : \E f \in [P -> Nat] : Upto(f, k)}
<1>0. /\ \A id \in P : rank[id] \in Nat /\ rank[id] <= n /\ Q[id] \in SUBSET P /\ IsFiniteSet(Q[id])
      /\ \A id \in P : \A prev \in Q[id] : prev \in P /\ rank[prev] < rank[id]
  BY FS_Subset DEF Falls
<1>1. 0 \in S
  <2>1. [id \in P |-> 0] \in [P -> Nat] /\ Upto([id \in P |-> 0], 0)
    BY <1>0
  <2> QED BY <2>1
<1>2. ASSUME NEW k \in Nat, k \in S PROVE k + 1 \in S
  <2>1. PICK f \in [P -> Nat] : Upto(f, k)
    BY <1>2
  <2> DEFINE g == [id \in P |-> IF rank[id] < k THEN f[id] ELSE Above(f, Q[id])]
  <2>2. \A id \in P : Above(f, Q[id]) \in Nat
    BY <1>0, AboveIs
  <2>3. g \in [P -> Nat]
    BY <2>2
  <2>4. \A id \in P : rank[id] < k => g[id] = f[id]
    OBVIOUS
  <2>5. \A id \in P : g[id] = Above(f, Q[id]) \/ rank[id] < k
    OBVIOUS
  <2>6. Upto(g, k + 1)
    <3> SUFFICES ASSUME NEW id \in P, rank[id] < k + 1 PROVE g[id] = Above(g, Q[id])
      OBVIOUS
    <3>1. \A prev \in Q[id] : f[prev] = g[prev]
      <4>1. \A prev \in Q[id] : prev \in P /\ rank[prev] \in Nat /\ rank[id] \in Nat /\ rank[prev] < rank[id]
        BY <1>0
      <4>2. \A prev \in Q[id] : rank[prev] < k
        BY <4>1
      <4> HIDE DEF g
      <4> QED BY <2>4, <4>1, <4>2
    <3> HIDE DEF g
    <3>2. Above(f, Q[id]) = Above(g, Q[id])
      BY <3>1, AboveSame
    <3>3. g[id] = Above(f, Q[id])
      BY <2>1, <2>4, <2>5
    <3> QED BY <3>2, <3>3
  <2> HIDE DEF g
  <2> QED BY <2>3, <2>6
<1>3. Nat \subseteq S
  <2> HIDE DEF S
  <2> QED BY <1>1, <1>2, SetInduction
<1>4. PICK f \in [P -> Nat] : Upto(f, n + 1)
  BY <1>3
<1>5. \A id \in P : f[id] = Above(f, Q[id])
  BY <1>0, <1>4
<1> QED BY <1>5 DEF Leveled

(* Whatever satisfies the equation of the levels is a level for each node, *)
(* higher than the levels of all before it.                                *)
LEMMA LevelsRise ==
    ASSUME NEW P, IsFiniteSet(P), NEW Q, NEW n \in Nat, NEW rank, Falls(rank, P, Q, n),
           NEW f, f = Leveled(f, P, Q)
    PROVE  f \in [P -> Nat] /\ \A id \in P : \A prev \in Q[id] : f[prev] < f[id]
<1>0. /\ \A id \in P : rank[id] \in Nat /\ rank[id] <= n /\ Q[id] \in SUBSET P /\ IsFiniteSet(Q[id])
      /\ \A id \in P : \A prev \in Q[id] : prev \in P /\ rank[prev] < rank[id]
  BY FS_Subset DEF Falls
<1>1. DOMAIN f = P /\ \A id \in P : f[id] = Above(f, Q[id])
  BY DEF Leveled
<1> DEFINE S == {k \in Nat : \A id \in P : rank[id] = k => f[id] \in Nat}
<1>2. ASSUME NEW k \in Nat, \A l \in Nat : l < k => l \in S PROVE k \in S
  <2> SUFFICES ASSUME NEW id \in P, rank[id] = k PROVE f[id] \in Nat
    OBVIOUS
  <2>1. \A prev \in Q[id] : prev \in P /\ rank[prev] \in Nat /\ rank[prev] < k
    BY <1>0
  <2>2. \A prev \in Q[id] : f[prev] \in Nat
    BY <1>2, <2>1
  <2>3. Above(f, Q[id]) \in Nat
    BY <1>0, <2>2, AboveIs
  <2> QED BY <1>1, <2>3
<1>3. Nat \subseteq S
  <2> HIDE DEF S
  <2> QED BY <1>2, StrongInduction
<1>4. \A id \in P : f[id] \in Nat
  BY <1>0, <1>3
<1>5. f \in [P -> Nat]
  <2>1. f = [id \in P |-> f[id]]
    BY DEF Leveled
  <2> QED BY <1>4, <2>1
<1>6. ASSUME NEW id \in P PROVE \A prev \in Q[id] : f[prev] < f[id]
  <2>1. IsFiniteSet(Q[id]) /\ \A prev \in Q[id] : f[prev] \in Nat
    BY <1>0, <1>4
  <2>2. \A prev \in Q[id] : f[prev] < Above(f, Q[id])
    BY <2>1, AboveIs
  <2> QED BY <1>1, <2>2
<1> QED BY <1>5, <1>6

-----------------------------------------------------------------------------
(* Steps.                                                                    *)

\* The number of a level among the levels that are used.
Place(used, l) == Cardinality({m \in used : m < l}) + 1

(* Every level that is used has a number of its own, higher for a higher one. *)
LEMMA PlacesRise ==
    ASSUME NEW used, used \subseteq Nat, IsFiniteSet(used)
    PROVE  /\ Cardinality(used) \in Nat
           /\ \A l \in used : Place(used, l) \in 1..Cardinality(used)
           /\ \A l, m \in used : l < m => Place(used, l) < Place(used, m)
<1> DEFINE below(l) == {m \in used : m < l}
<1>1. Cardinality(used) \in Nat
  BY FS_CardinalityType
<1>2. ASSUME NEW l \in used PROVE below(l) \in SUBSET used /\ IsFiniteSet(below(l)) /\ Cardinality(below(l)) \in Nat
  BY FS_Subset, FS_CardinalityType
<1>3. ASSUME NEW l \in used PROVE Cardinality(below(l)) < Cardinality(used)
  <2>1. l \in used \ below(l)
    OBVIOUS
  <2> HIDE DEF below
  <2>2. below(l) # used /\ below(l) \in SUBSET used /\ Cardinality(below(l)) \in Nat
    BY <1>2, <2>1
  <2>3. Cardinality(below(l)) <= Cardinality(used) /\ Cardinality(below(l)) # Cardinality(used)
    BY <2>2, FS_Subset
  <2> QED BY <1>1, <2>2, <2>3
<1>4. ASSUME NEW l \in used, NEW m \in used, l < m PROVE Cardinality(below(l)) < Cardinality(below(m))
  <2>0. l \in Nat /\ m \in Nat /\ \A k \in used : k \in Nat
    OBVIOUS
  <2>1. below(l) \in SUBSET below(m) /\ l \in below(m) \ below(l)
    <3>1. \A k \in used : k < l => k < m
      BY <1>4, <2>0
    <3>2. l < m /\ ~(l < l)
      BY <1>4, <2>0
    <3> QED BY <3>1, <3>2
  <2>2. IsFiniteSet(below(m)) /\ Cardinality(below(m)) \in Nat /\ Cardinality(below(l)) \in Nat
    BY <1>2
  <2> HIDE DEF below
  <2>3. Cardinality(below(l)) <= Cardinality(below(m)) /\ Cardinality(below(l)) # Cardinality(below(m))
    BY <2>1, <2>2, FS_Subset
  <2> QED BY <2>2, <2>3
<1>5. \A l \in used : Place(used, l) = Cardinality(below(l)) + 1
  BY DEF Place
<1> HIDE DEF below
<1>6. \A l \in used : Cardinality(below(l)) \in Nat /\ Cardinality(below(l)) < Cardinality(used)
  BY <1>2, <1>3
<1> QED BY <1>1, <1>4, <1>5, <1>6

\* The steps hold each node once, after all that come before it.
InSteps(steps, P, Q) ==
    /\ UNION Range(steps) = P
    /\ \A id \in P : \E k \in DOMAIN steps :
          /\ {l \in DOMAIN steps : id \in steps[l]} = {k}
          /\ \A prev \in Q[id] : \E l \in DOMAIN steps : l < k /\ prev \in steps[l]

(* Nodes level by level are in such steps. *)
LEMMA StepsFollow ==
    ASSUME NEW P, IsFiniteSet(P), NEW Q, \A id \in P : Q[id] \in SUBSET P,
           NEW f \in [P -> Nat], \A id \in P : \A prev \in Q[id] : f[prev] < f[id],
           NEW used, used = {f[id] : id \in P}, NEW steps,
           steps = [k \in 1..Cardinality(used) |->
                       {id \in P : Cardinality({l \in used : l < f[id]}) = k - 1}]
    PROVE  InSteps(steps, P, Q)
<1> DEFINE K == Cardinality(used)
           place(id) == Place(used, f[id])
<1>1. used \subseteq Nat /\ IsFiniteSet(used) /\ \A id \in P : f[id] \in used
  <2>1. f \in Surjection(P, used)
    BY DEF Surjection
  <2>2. IsFiniteSet(used)
    BY <2>1, FS_Surjection
  <2> QED BY <2>2
<1>2. K \in Nat /\ \A id \in P : place(id) \in 1..K
  BY <1>1, PlacesRise
<1>3. \A id \in P : \A prev \in Q[id] : prev \in P /\ place(prev) < place(id)
  BY <1>1, PlacesRise
<1>4. DOMAIN steps = 1..K /\ \A k \in 1..K : steps[k] = {id \in P : place(id) = k}
  <2>1. \A id \in P, k \in 1..K : Cardinality({l \in used : l < f[id]}) \in Nat
    <3>1. \A id \in P : {l \in used : l < f[id]} \in SUBSET used
      OBVIOUS
    <3> QED BY <1>1, <3>1, FS_Subset, FS_CardinalityType
  <2>2. \A id \in P, k \in 1..K : Cardinality({l \in used : l < f[id]}) = k - 1 <=> place(id) = k
    BY <1>2, <2>1 DEF Place
  <2>3. \A k \in 1..K : steps[k] = {id \in P : Cardinality({l \in used : l < f[id]}) = k - 1}
    OBVIOUS
  <2> HIDE DEF place
  <2>4. \A k \in 1..K : steps[k] = {id \in P : place(id) = k}
    BY <2>2, <2>3
  <2> QED BY <2>4
<1> HIDE DEF place, K
<1>5. \A id \in P, l \in 1..K : id \in steps[l] <=> l = place(id)
  BY <1>4
<1>6. UNION Range(steps) = P
  <2>1. \A k \in DOMAIN steps : steps[k] \in SUBSET P
    BY <1>4
  <2>2. \A id \in P : id \in steps[place(id)] /\ place(id) \in DOMAIN steps
    BY <1>2, <1>4, <1>5
  <2>3. \A x : x \in UNION Range(steps) <=> \E k \in DOMAIN steps : x \in steps[k]
    BY DEF Range
  <2>4. \A x : x \in UNION Range(steps) <=> x \in P
    BY <2>1, <2>2, <2>3
  <2> QED BY <2>4
<1>7. ASSUME NEW id \in P
      PROVE  /\ {l \in DOMAIN steps : id \in steps[l]} = {place(id)}
             /\ \A prev \in Q[id] : \E l \in DOMAIN steps : l < place(id) /\ prev \in steps[l]
  <2>1. {l \in DOMAIN steps : id \in steps[l]} = {place(id)}
    <3>1. place(id) \in 1..K /\ DOMAIN steps = 1..K
      BY <1>2, <1>4
    <3>2. \A l : l \in DOMAIN steps /\ id \in steps[l] <=> l = place(id)
      BY <1>5, <3>1
    <3> QED BY <3>2
  <2>2. \A prev \in Q[id] : place(prev) \in DOMAIN steps /\ place(prev) < place(id) /\ prev \in steps[place(prev)]
    BY <1>2, <1>3, <1>4, <1>5
  <2> QED BY <2>1, <2>2
<1>8. \A id \in P : place(id) \in DOMAIN steps
  BY <1>2, <1>4
<1> QED BY <1>6, <1>7, <1>8 DEF InSteps

-----------------------------------------------------------------------------
(* The plan of a graph.                                                      *)

\* What comes before each planned node.
Before(g) == [id \in Planned(g) |-> PrevFlow(g, id) \cap Planned(g)]

(* Unless the planner recurses for ever, its steps hold each planned node once, *)
(* after every flow predecessor.                                                *)
LEMMA PlanIs ==
    ASSUME NEW g, IsFiniteSet(IdsOf(g)), ~RecursesForEver(g)
    PROVE  InSteps(Steps(g), Planned(g), Before(g))
<1> DEFINE I == IdsOf(g)
           P == Planned(g)
           Q == Before(g)
           C(id) == SpreadBehind(g, Behind(g)[id])
           n == Cardinality(I)
           rank == [id \in P |-> Cardinality(C(id))]
<1>1. P \subseteq I /\ IsFiniteSet(P) /\ n \in Nat
  <2>1. P \in SUBSET I
    BY PlannedIs DEF Closure
  <2> HIDE DEF P, I
  <2> QED BY <2>1, FS_Subset, FS_CardinalityType DEF I
<1>2. \A id \in P : Q[id] \in SUBSET P /\ Q[id] = PrevFlow(g, id) \cap P
  BY DEF Before
<1>3. \A id \in P : Closure(C(id), I, Behind(g)[id], Behind(g)) /\ id \notin C(id)
  BY <1>1, PlannedIs
<1>4. \A id \in P : C(id) \in SUBSET I /\ IsFiniteSet(C(id)) /\ Cardinality(C(id)) \in 0..n
  <2>1. \A id \in P : C(id) \in SUBSET I
    BY <1>3 DEF Closure
  <2> HIDE DEF C, P, I
  <2>2. \A id \in P : IsFiniteSet(C(id)) /\ Cardinality(C(id)) <= n /\ Cardinality(C(id)) \in Nat
    BY <2>1, FS_Subset, FS_CardinalityType DEF I
  <2> QED BY <1>1, <2>1, <2>2
<1>5. ASSUME NEW id \in P, NEW prev \in Q[id] PROVE Cardinality(C(prev)) < Cardinality(C(id))
  <2>1. prev \in P /\ prev \in PrevFlow(g, id) /\ prev \in I /\ id \in I
    BY <1>1, <1>2
  <2>2. prev \in C(id)
    <3>1. prev \in Behind(g)[id]
      BY <2>1 DEF Behind
    <3> HIDE DEF C
    <3> QED BY <1>3, <3>1 DEF Closure
  <2>3. Behind(g)[prev] \subseteq C(id) /\ \A x \in C(id) : Behind(g)[x] \subseteq C(id)
    <3> HIDE DEF C
    <3> QED BY <1>3, <2>2 DEF Closure
  <2>4. C(prev) \subseteq C(id)
    <3>1. C(id) \in SUBSET I
      BY <1>4
    <3>2. Closure(C(prev), I, Behind(g)[prev], Behind(g))
      BY <1>3, <2>1
    <3> HIDE DEF C, I
    <3> QED BY <2>3, <3>1, <3>2 DEF Closure
  <2>5. prev \notin C(prev)
    BY <1>3, <2>1
  <2> HIDE DEF C, P, I, n
  <2>6. Cardinality(C(prev)) <= Cardinality(C(id)) /\ Cardinality(C(prev)) # Cardinality(C(id))
    BY <1>4, <2>1, <2>2, <2>4, <2>5, FS_Subset
  <2>7. Cardinality(C(prev)) \in Nat /\ Cardinality(C(id)) \in Nat
    BY <1>4, <2>1
  <2> QED BY <2>6, <2>7
<1>6. Falls(rank, P, Q, n)
  <2> HIDE DEF C, P, I, n, Q
  <2> QED BY <1>2, <1>4, <1>5 DEF Falls
<1>7. PICK h \in [P -> Nat] : h = Leveled(h, P, Q)
  <2> HIDE DEF rank, P, Q, n
  <2> QED BY <1>1, <1>6, LevelsExist
<1> DEFINE Made(f) == [id \in P |-> Max({0} \cup {1 + f[prev] : prev \in PrevFlow(g, id) \cap P})]
           Chosen == CHOOSE f : f = Made(f)
<1>8. \A f : Made(f) = Leveled(f, P, Q)
  <2> SUFFICES ASSUME NEW f PROVE Made(f) = Leveled(f, P, Q)
    OBVIOUS
  <2>1. \A id \in P : Max({0} \cup {1 + f[prev] : prev \in PrevFlow(g, id) \cap P}) = Above(f, Q[id])
    <3> HIDE DEF P, Q
    <3> QED BY <1>2 DEF Above
  <2> HIDE DEF P, Q
  <2> QED BY <2>1 DEF Leveled
<1>9. Chosen = Made(Chosen)
  <2>1. h = Made(h)
    BY <1>7, <1>8
  <2> HIDE DEF Made
  <2> QED BY <2>1, Zenon
<1>10. Levels(g) = Chosen
  BY DEF Levels
<1>11. PICK f : f = Chosen
  OBVIOUS
<1>12. f = Leveled(f, P, Q)
  <2> HIDE DEF Made, Chosen
  <2> QED BY <1>8, <1>9, <1>11
<1>13. f \in [P -> Nat] /\ \A id \in P : \A prev \in Q[id] : f[prev] < f[id]
  <2> HIDE DEF rank, P, Q, n
  <2> QED BY <1>1, <1>6, <1>12, LevelsRise
<1> DEFINE used == {f[id] : id \in P}
<1>14. Steps(g) = [k \in 1..Cardinality(used) |->
                      {id \in P : Cardinality({l \in used : l < f[id]}) = k - 1}]
  <2>1. Levels(g) = f /\ DOMAIN f = P
    BY <1>10, <1>11, <1>13
  <2> HIDE DEF P, Chosen
  <2> QED BY <2>1 DEF Steps
<1> HIDE DEF P, Q, used
<1>15. InSteps(Steps(g), P, Q)
  BY <1>1, <1>2, <1>13, <1>14, StepsFollow DEF used
<1> QED BY <1>15 DEF P, Q

\* A graph as the queries load it.
GraphType == [nodes : Seq(NodeType), ports : Seq(PortType)]

(* What an execution works on is such a graph. *)
LEMMA RunGraphIs ==
    ASSUME TypeInv
    PROVE  RunGraph \in GraphType /\ IsFiniteSet(IdsOf(RunGraph)) /\ IdsOf(RunGraph) \subseteq Nat
<1>1. call[Runner] \in CallType
  BY CallIs DEF Callers
<1>2. RunGraph \in GraphType
  BY <1>1 DEF CallType, DrawingType, RunGraph, GraphType
<1>3. RunGraph.nodes \in Seq(NodeType)
  BY <1>2 DEF GraphType
<1> QED BY <1>2, <1>3, NodeIdsType DEF IdsOf

\* Every element of one list is an element of the other.
Among(picked, rows) == \A k \in DOMAIN picked : \E i \in DOMAIN rows : picked[k] = rows[i]

(* An input port of a node is one of the ports. *)
LEMMA PortsAmong ==
    ASSUME NEW rows \in Seq(PortType), NEW id
    PROVE  Among(PortsOf(rows, id, FALSE), rows)
<1> DEFINE places == {i \in DOMAIN rows : rows[i].owner = id /\ rows[i].out = FALSE}
<1>1. PortsOf(rows, id, FALSE) = Picked(rows, places)
  BY DEF PortsOf
<1>2. places \subseteq DOMAIN rows
  OBVIOUS
<1> HIDE DEF places
<1>3. IsPicked(Picked(rows, places), rows, places)
  BY <1>2, PickedIs
<1> QED BY <1>1, <1>2, <1>3 DEF IsPicked, Among

(* Where no port dangles, what comes before a planned node is planned. *)
LEMMA BeforeIs ==
    ASSUME NEW g \in GraphType, IsFiniteSet(IdsOf(g)),
           \A i \in DOMAIN g.ports : g.ports[i].peer \in IdsOf(g)
    PROVE  \A id \in Planned(g) : PrevFlow(g, id) = Before(g)[id]
<1>1. g.ports \in Seq(PortType)
  BY DEF GraphType
<1> SUFFICES ASSUME NEW id \in Planned(g) PROVE PrevFlow(g, id) \subseteq Planned(g)
  BY DEF Before
<1>2. PrevFlow(g, id) \subseteq IdsOf(g)
  <2>1. PICK row : row = Ins(g, id)
    OBVIOUS
  <2>2. \A k \in DOMAIN row : row[k].peer \in IdsOf(g)
    <3>1. PICK rows \in Seq(PortType) : rows = g.ports
      BY <1>1
    <3>2. row = PortsOf(rows, id, FALSE)
      BY <2>1, <3>1 DEF Ins
    <3>3. Among(PortsOf(rows, id, FALSE), rows)
      BY <3>1, PortsAmong
    <3> QED BY <3>1, <3>2, <3>3 DEF Among
  <2>3. PrevFlow(g, id) = PeersOf(row, "flow")
    BY <2>1 DEF PrevFlow
  <2> QED BY <2>2, <2>3 DEF PeersOf
<1>3. id \in IdsOf(g) /\ Behind(g)[id] \subseteq Planned(g)
  BY PlannedIs DEF Closure
<1> QED BY <1>2, <1>3 DEF Behind

(* The plan of an execution follows the flow links. *)
LEMMA PlanFollows ==
    ASSUME TypeInv
    PROVE  PlanFollowsFlow
<1> SUFFICES ASSUME Built, Whole(RunGraph) PROVE PlanFollowsFlow
  BY DEF PlanFollowsFlow
<1>1. PICK g \in GraphType : g = RunGraph
  BY RunGraphIs
<1>2. IsFiniteSet(IdsOf(g)) /\ ~RecursesForEver(g)
  BY <1>1, RunGraphIs DEF Built, Outcome
<1>3. \A i \in DOMAIN g.ports : g.ports[i].peer \in IdsOf(g)
  BY <1>1 DEF Whole, IdsOf
<1>4. PICK steps : steps = Steps(g)
  OBVIOUS
<1>5. InSteps(steps, Planned(g), Before(g))
  BY <1>2, <1>4, PlanIs
<1>6. Visited(g) \subseteq UNION Range(steps) /\ UNION Range(steps) = Planned(g)
  BY <1>2, <1>5, PlannedIs DEF Closure, InSteps
<1>7. ASSUME NEW id \in Planned(g)
      PROVE  /\ Cardinality({k \in DOMAIN steps : id \in steps[k]}) = 1
             /\ \A prev \in PrevFlow(g, id) :
                   \E k \in {m \in DOMAIN steps : prev \in steps[m]} :
                      \A l \in {m \in DOMAIN steps : id \in steps[m]} : k < l
  <2>1. PICK k \in DOMAIN steps :
           /\ {l \in DOMAIN steps : id \in steps[l]} = {k}
           /\ \A prev \in Before(g)[id] : \E l \in DOMAIN steps : l < k /\ prev \in steps[l]
    BY <1>5 DEF InSteps
  <2>2. PrevFlow(g, id) = Before(g)[id]
    BY <1>2, <1>3, BeforeIs
  <2>3. Cardinality({k}) = 1
    BY FS_Singleton
  <2> QED BY <2>1, <2>2, <2>3
<1> QED BY <1>1, <1>4, <1>6, <1>7 DEF PlanFollowsFlow

(* The steps of an execution hold the start nodes, what flow links lead to from *)
(* them and every flow predecessor of a node they hold, each node in one step   *)
(* and after all its predecessors (withStepsSetup).                             *)
THEOREM PlanCorrect == Spec => []PlanFollowsFlow
<1>1. Init => TypeInv
  BY InitSound
<1>2. TypeInv /\ [Next]_vars => TypeInv'
  BY TypeStep
<1>3. TypeInv => PlanFollowsFlow
  BY PlanFollows
<1> QED BY <1>1, <1>2, <1>3, PTL DEF Spec

-----------------------------------------------------------------------------
(* The channels of a program.                                                *)

OutsOf(id) == OfNode(id, TRUE)

\* A graph as an execution loads it: its nodes have ids of their own, and no
\* link has 0 at its end, which would stand for no node.
Sound(g) ==
    /\ g \in GraphType /\ IsFiniteSet(IdsOf(g)) /\ Distinct(g.nodes)
    /\ \A i \in DOMAIN g.ports : g.ports[i].peer # 0

(* Two of at most one are the same. *)
LEMMA SameOne ==
    ASSUME NEW S, IsFiniteSet(S), Cardinality(S) <= 1, NEW x \in S, NEW y \in S
    PROVE  x = y
<1>1. Cardinality(S) \in Nat /\ Cardinality(S) # 0
  BY FS_CardinalityType, FS_EmptySet
<1>2. Cardinality(S) = 1
  BY <1>1
<1>3. \E z : S = {z}
  BY <1>2, FS_Singleton
<1> QED BY <1>3

(* The ports of a node are rows of the graph, in a sequence. *)
LEMMA NodePorts ==
    ASSUME NEW g, Sound(g), NEW id
    PROVE  /\ Ins(g, id) \in Seq(PortType) /\ Outs(g, id) \in Seq(PortType)
           /\ \A k \in DOMAIN Outs(g, id) :
                 Outs(g, id)[k].owner = id /\ Outs(g, id)[k] \in OutsOf(id)
           /\ \A k \in DOMAIN Ins(g, id) : Ins(g, id)[k].peer # 0
<1>1. PICK rows \in Seq(PortType) : rows = g.ports
  BY DEF Sound, GraphType
<1>2. PICK isOut : isOut = TRUE
  OBVIOUS
<1>21. Ins(g, id) = PortsOf(rows, id, FALSE) /\ Outs(g, id) = PortsOf(rows, id, isOut)
  BY <1>1, <1>2 DEF Ins, Outs
<1>3. PortsOf(rows, id, FALSE) \in Seq(PortType)
  BY PortsOfType
<1>4. PICK outs \in Seq(PortType) :
         /\ outs = PortsOf(rows, id, isOut)
         /\ \A k \in DOMAIN outs : outs[k].owner = id /\ outs[k].out = isOut
  BY PortsOfType
<1>41. \A k \in DOMAIN outs : outs[k].owner = id /\ outs[k] \in OutsOf(id)
  <2>1. \A k \in DOMAIN outs : outs[k] \in PortType
    OBVIOUS
  <2> QED BY <1>2, <1>4, <2>1 DEF OutsOf, OfNode
<1>5. Among(PortsOf(rows, id, FALSE), rows)
  BY PortsAmong
<1>6. \A i \in DOMAIN rows : rows[i].peer # 0
  BY <1>1 DEF Sound
<1> QED BY <1>2, <1>21, <1>3, <1>4, <1>41, <1>5, <1>6 DEF Among

\* The port rows that get a channel.
Channelled(g) ==
    {p \in PortType : /\ p.owner \in Planned(g) /\ p.kind = "data"
                      /\ \E k \in DOMAIN Outs(g, p.owner) : Outs(g, p.owner)[k] = p}

ChannelRows(g) == FlattenSeq([i \in DOMAIN g.nodes |-> Leaving(g, Planned(g), g.nodes[i].id)])

(* What leaves a node gets a channel. *)
LEMMA LeavingIs ==
    ASSUME NEW g, Sound(g), NEW id
    PROVE  /\ Leaving(g, Planned(g), id) \in Seq(Channelled(g))
           /\ \A k \in DOMAIN Leaving(g, Planned(g), id) : Leaving(g, Planned(g), id)[k] \in OutsOf(id)
           /\ id \in Planned(g) =>
                 /\ IsFiniteSet(DataOuts(g, id))
                 /\ Len(Leaving(g, Planned(g), id)) = Cardinality(DataOuts(g, id))
                 /\ \A k \in DataOuts(g, id) :
                       \E l \in DOMAIN Leaving(g, Planned(g), id) : Leaving(g, Planned(g), id)[l] = Outs(g, id)[k]
<1>1. PICK outs \in Seq(PortType) :
         /\ outs = Outs(g, id)
         /\ \A k \in DOMAIN outs : outs[k].owner = id /\ outs[k] \in OutsOf(id)
  BY NodePorts
<1> DEFINE places == {i \in DOMAIN outs : id \in Planned(g) /\ outs[i].kind = "data"}
<1>2. Leaving(g, Planned(g), id) = Picked(outs, places)
  BY <1>1 DEF Leaving
<1>3. places \subseteq DOMAIN outs
  OBVIOUS
<1>4. \A i \in DOMAIN outs : /\ outs[i].owner = id /\ outs[i] \in OutsOf(id)
                             /\ outs[i] \in PortType
  BY <1>1
<1>5. \A i \in places : outs[i] \in Channelled(g) /\ outs[i] \in OutsOf(id)
  BY <1>1, <1>4 DEF Channelled
<1>6. id \in Planned(g) => places = DataOuts(g, id)
  BY <1>1, <1>4 DEF DataOuts
<1> HIDE DEF places
<1>7. PICK t \in Seq(PortType) : t = Picked(outs, places) /\ IsPicked(t, outs, places)
      /\ IsFiniteSet(places) /\ Len(t) = Cardinality(places)
  BY <1>3, PickedIs
<1>8. \A k \in DOMAIN t : t[k] \in Channelled(g) /\ t[k] \in OutsOf(id)
  BY <1>5, <1>7 DEF IsPicked
<1>9. t \in Seq(Channelled(g))
  <2>1. Len(t) \in Nat /\ DOMAIN t = 1..Len(t) /\ t \in [1..Len(t) -> PortType]
    BY <1>7, SeqIs
  <2>2. t \in [1..Len(t) -> Channelled(g)]
    BY <1>8, <2>1
  <2> QED BY <2>1, <2>2, FunctionSeq
<1>10. id \in Planned(g) => \A k \in DataOuts(g, id) : \E l \in DOMAIN t : t[l] = outs[k]
  BY <1>6, <1>7 DEF IsPicked
<1> QED BY <1>1, <1>2, <1>6, <1>7, <1>8, <1>9, <1>10

(* The rows of the channels, and those of one node. *)
LEMMA ChannelRowsIs ==
    ASSUME NEW g, Sound(g)
    PROVE  /\ ChannelRows(g) \in Seq(Channelled(g))
           /\ \A id \in IdsOf(g) : Sel(ChannelRows(g), OutsOf(id)) = Leaving(g, Planned(g), id)
<1> DEFINE W == Channelled(g)
<1>1. PICK nodes \in Seq(NodeType) : nodes = g.nodes
  BY DEF Sound, GraphType
<1>2. PICK n \in Nat : n = Len(nodes) /\ DOMAIN nodes = 1..n
  BY <1>1, SeqIs
<1>3. PICK s : s = [i \in 1..n |-> Leaving(g, Planned(g), nodes[i].id)]
  OBVIOUS
<1>4. s \in Seq(Seq(W)) /\ DOMAIN s = 1..n
  <2>1. s \in [1..n -> Seq(W)]
    <3>1. \A i \in 1..n : Leaving(g, Planned(g), nodes[i].id) \in Seq(W)
      BY LeavingIs
    <3> HIDE DEF W
    <3> QED BY <1>3, <3>1
  <2> HIDE DEF W
  <2> QED BY <2>1, FunctionSeq
<1>5. ChannelRows(g) = FlattenSeq(s)
  BY <1>1, <1>2, <1>3 DEF ChannelRows
<1>6. FlattenSeq(s) \in Seq(W)
  <2> HIDE DEF W
  <2> QED BY <1>4, FlattenType
<1>7. ASSUME NEW id \in IdsOf(g)
      PROVE  Sel(FlattenSeq(s), OutsOf(id)) = Leaving(g, Planned(g), id)
  <2>1. PICK d \in 1..n : nodes[d].id = id
    BY <1>1, <1>2 DEF IdsOf, NodeIdsOf
  <2>2. PICK E : E = OutsOf(id)
    OBVIOUS
  <2>3. ASSUME NEW i \in 1..n, i # d PROVE Sel(s[i], E) = <<>>
    <3>1. nodes[i].id # id
      BY <1>1, <1>2, <2>1, <2>3 DEF Sound, Distinct
    <3>2. PICK t : t = Leaving(g, Planned(g), nodes[i].id)
      OBVIOUS
    <3>3. \A k \in DOMAIN t : t[k] \in OutsOf(nodes[i].id)
      BY <3>2, LeavingIs
    <3>4. \A k \in DOMAIN t : t[k] \notin E
      BY <2>2, <3>1, <3>3 DEF OutsOf, OfNode
    <3>5. Sel(t, E) = <<>>
      BY <3>4, SelNone
    <3> QED BY <1>3, <3>2, <3>5
  <2>4. Sel(FlattenSeq(s), E) = Sel(s[d], E)
    <3> HIDE DEF W
    <3> QED BY <1>4, <2>3, SelFlattenOne
  <2>5. PICK t \in Seq(W) : t = Leaving(g, Planned(g), id)
    BY LeavingIs
  <2>6. Sel(t, E) = t
    <3>1. \A k \in DOMAIN t : t[k] \in E
      BY <2>2, <2>5, LeavingIs
    <3> HIDE DEF W
    <3> QED BY <3>1, SelAll
  <2> QED BY <1>3, <2>1, <2>2, <2>4, <2>5, <2>6
<1> QED BY <1>5, <1>6, <1>7

(* A channel for each data output of a planned node. *)
LEMMA ChannelsAre ==
    ASSUME NEW g, Sound(g)
    PROVE  /\ \A ch \in Channels(g) :
                 /\ ch.n \in Nat /\ ch.from \in Planned(g)
                 /\ \E k \in DataOuts(g, ch.from) : Outs(g, ch.from)[k].peer = ch.to
           /\ \A id \in Planned(g) : \A k \in DataOuts(g, id) :
                 \E ch \in Channels(g) : ch.from = id /\ ch.to = Outs(g, id)[k].peer
           /\ \A ch, other \in Channels(g) :
                 ch.from = other.from /\ Cardinality(DataOuts(g, ch.from)) <= 1 => ch = other
<1> DEFINE W == Channelled(g)
<1>1. PICK rows \in Seq(W) : rows = ChannelRows(g)
  BY ChannelRowsIs
<1>2. Len(rows) \in Nat /\ DOMAIN rows = 1..Len(rows) /\ \A i \in DOMAIN rows : rows[i] \in W
  <2> HIDE DEF W
  <2> QED BY SeqIs
<1>3. Channels(g) = {[n |-> i, from |-> rows[i].owner, to |-> rows[i].peer] : i \in DOMAIN rows}
  BY <1>1 DEF Channels, ChannelRows
<1>4. ASSUME NEW ch \in Channels(g)
      PROVE  /\ ch.n \in Nat /\ ch.from \in Planned(g)
             /\ \E k \in DataOuts(g, ch.from) : Outs(g, ch.from)[k].peer = ch.to
  <2>1. PICK i \in DOMAIN rows : ch = [n |-> i, from |-> rows[i].owner, to |-> rows[i].peer]
    BY <1>3
  <2>2. ch.n = i /\ ch.from = rows[i].owner /\ ch.to = rows[i].peer
    BY <2>1
  <2>3. PICK k \in DOMAIN Outs(g, rows[i].owner) :
           Outs(g, rows[i].owner)[k] = rows[i] /\ rows[i].kind = "data" /\ rows[i].owner \in Planned(g)
    BY <1>2 DEF Channelled
  <2>4. k \in DataOuts(g, ch.from)
    BY <2>2, <2>3 DEF DataOuts
  <2> QED BY <1>2, <2>2, <2>3, <2>4
<1>5. ASSUME NEW id \in Planned(g)
      PROVE  /\ Leaving(g, Planned(g), id) = Sel(rows, OutsOf(id))
             /\ Sel(rows, OutsOf(id)) = Picked(rows, {i \in DOMAIN rows : rows[i] \in OutsOf(id)})
             /\ {i \in DOMAIN rows : rows[i] \in OutsOf(id)} \subseteq DOMAIN rows
  <2>1. id \in IdsOf(g)
    BY PlannedIs DEF Sound, Closure
  <2> QED BY <1>1, <2>1, ChannelRowsIs DEF Sel
<1>6. ASSUME NEW id \in Planned(g), NEW k \in DataOuts(g, id)
      PROVE  \E ch \in Channels(g) : ch.from = id /\ ch.to = Outs(g, id)[k].peer
  <2>1. PICK places : places = {i \in DOMAIN rows : rows[i] \in OutsOf(id)}
    OBVIOUS
  <2>2. PICK l \in DOMAIN Picked(rows, places) : Picked(rows, places)[l] = Outs(g, id)[k]
    <3>1. PICK t : t = Leaving(g, Planned(g), id)
      OBVIOUS
    <3>2. \E l \in DOMAIN t : t[l] = Outs(g, id)[k]
      BY <3>1, LeavingIs
    <3>3. t = Picked(rows, places)
      BY <1>5, <2>1, <3>1
    <3> QED BY <3>2, <3>3
  <2>3. IsPicked(Picked(rows, places), rows, places)
    <3>1. places \subseteq DOMAIN rows
      BY <2>1
    <3> HIDE DEF W
    <3> QED BY <3>1, PickedIs
  <2>4. PICK i \in DOMAIN rows : rows[i] = Outs(g, id)[k]
    BY <2>1, <2>2, <2>3 DEF IsPicked
  <2>5. PICK ch : ch = [n |-> i, from |-> rows[i].owner, to |-> rows[i].peer]
    OBVIOUS
  <2>6. ch \in Channels(g) /\ ch.from = rows[i].owner /\ ch.to = rows[i].peer
    BY <1>3, <2>5
  <2>7. Outs(g, id)[k].owner = id
    BY NodePorts DEF DataOuts
  <2> QED BY <2>4, <2>6, <2>7
<1>7. ASSUME NEW ch \in Channels(g), NEW other \in Channels(g),
             ch.from = other.from, Cardinality(DataOuts(g, ch.from)) <= 1
      PROVE  ch = other
  <2>1. PICK i \in DOMAIN rows : ch = [n |-> i, from |-> rows[i].owner, to |-> rows[i].peer]
    BY <1>3
  <2>2. PICK j \in DOMAIN rows : other = [n |-> j, from |-> rows[j].owner, to |-> rows[j].peer]
    BY <1>3
  <2>3. PICK id \in Planned(g) : id = ch.from
    BY <1>4
  <2>4. PICK places : places = {m \in DOMAIN rows : rows[m] \in OutsOf(id)}
    OBVIOUS
  <2>5. IsFiniteSet(places) /\ Len(Picked(rows, places)) = Cardinality(places)
    <3>1. places \subseteq DOMAIN rows
      BY <2>4
    <3> HIDE DEF W
    <3> QED BY <3>1, PickedIs
  <2>6. Cardinality(places) <= 1
    <3>1. Len(Leaving(g, Planned(g), id)) = Cardinality(DataOuts(g, id))
      BY LeavingIs
    <3> QED BY <1>5, <1>7, <2>3, <2>4, <2>5, <3>1
  <2>7. \A m \in DOMAIN rows : rows[m].owner = id => m \in places
    <3> SUFFICES ASSUME NEW m \in DOMAIN rows, rows[m].owner = id PROVE rows[m] \in OutsOf(id)
      BY <2>4
    <3>1. PICK k \in DOMAIN Outs(g, id) : Outs(g, id)[k] = rows[m]
      BY <1>2 DEF Channelled
    <3> QED BY <3>1, NodePorts
  <2>8. rows[i].owner = id /\ rows[j].owner = id
    BY <1>7, <2>1, <2>2, <2>3
  <2>9. i = j
    BY <2>5, <2>6, <2>7, <2>8, SameOne
  <2> QED BY <2>1, <2>2, <2>9
<1> QED BY <1>4, <1>6, <1>7

(* Where every link has its two ends, data that leaves for a node arrives there. *)
LEMMA EndsMeet ==
    ASSUME NEW g, Sound(g), Whole(g), NEW a \in IdsOf(g), NEW b \in IdsOf(g)
    PROVE  (\E k \in DataOuts(g, a) : Outs(g, a)[k].peer = b)
               <=> (\E k \in DataIns(g, b) : Ins(g, b)[k].peer = a)
<1>1. PICK outs \in Seq(PortType) : outs = Outs(g, a)
  BY NodePorts
<1>2. PICK ins \in Seq(PortType) : ins = Ins(g, b)
  BY NodePorts
<1> DEFINE O == {i \in DOMAIN outs : outs[i].peer = b /\ outs[i].kind = "data"}
           I == {i \in DOMAIN ins : ins[i].peer = a /\ ins[i].kind = "data"}
<1>3. IsFiniteSet(O) /\ IsFiniteSet(I)
  <2>1. O \subseteq DOMAIN outs /\ I \subseteq DOMAIN ins
    OBVIOUS
  <2> HIDE DEF O, I
  <2> QED BY <2>1, PickedIs
<1>4. Cardinality(O) = Cardinality(I)
  <2>1. "data" \in PortKinds
    BY DEF PortKinds
  <2> QED BY <1>1, <1>2, <2>1 DEF Whole, IdsOf
<1>5. O = {} <=> I = {}
  <2> HIDE DEF O, I
  <2> QED BY <1>3, <1>4, FS_EmptySet
<1>6. /\ (\E k \in DataOuts(g, a) : Outs(g, a)[k].peer = b) <=> O # {}
      /\ (\E k \in DataIns(g, b) : Ins(g, b)[k].peer = a) <=> I # {}
  BY <1>1, <1>2 DEF DataOuts, DataIns
<1> HIDE DEF O, I
<1> QED BY <1>5, <1>6

\* The channels that lead from one node to another.
FedBy(g, id, from) == {ch \in Into(g, id) : ch.from = from}

(* Of a plain drawing, one data link leaves a node at most, and none a sink. *)
LEMMA PlainOuts ==
    ASSUME NEW g, Sound(g), Plain(g), NEW id \in Planned(g)
    PROVE  /\ Cardinality(DataOuts(g, id)) <= 1
           /\ DataOuts(g, id) # {} => TypeOf(g, id) \in {"db_input", "map"}
<1>1. PICK type : type = TypeOf(g, id)
  OBVIOUS
<1>2. Cardinality(DataOuts(g, id)) <= (IF type \in {"db_input", "map"} THEN 1 ELSE 0)
  BY <1>1 DEF Plain, TypeOf
<1>3. IsFiniteSet(DataOuts(g, id))
  BY LeavingIs
<1>4. Cardinality(DataOuts(g, id)) \in Nat
      /\ (Cardinality(DataOuts(g, id)) = 0 => DataOuts(g, id) = {})
  BY <1>3, FS_CardinalityType, FS_EmptySet
<1>5. CASE type \in {"db_input", "map"}
  BY <1>1, <1>2, <1>5
<1>6. CASE type \notin {"db_input", "map"}
  <2>1. Cardinality(DataOuts(g, id)) <= 0
    BY <1>2, <1>6
  <2> QED BY <1>4, <2>1
<1> QED BY <1>5, <1>6

(* The channels into a node correspond to its data inputs from planned nodes, *)
(* one from each.                                                             *)
LEMMA FedIs ==
    ASSUME NEW g, Sound(g), Plain(g), NEW id \in IdsOf(g)
    PROVE  /\ \A from : \/ FedBy(g, id, from) = {}
                        \/ \E ch \in Channels(g) : /\ FedBy(g, id, from) = {ch}
                                                   /\ ch.from = from /\ ch.to = id
           /\ \A ch \in Into(g, id) : \E k \in DataIns(g, id) : Ins(g, id)[k].peer = ch.from
           /\ \A k \in DataIns(g, id) :
                 Ins(g, id)[k].peer \in Planned(g) => FedBy(g, id, Ins(g, id)[k].peer) # {}
<1>1. Whole(g) /\ Planned(g) \subseteq IdsOf(g)
  BY PlannedIs DEF Sound, Closure, Plain
<1>2. \A ch \in Into(g, id) : ch \in Channels(g) /\ ch.to = id
  BY DEF Into
<1>3. \A ch, other \in Channels(g) : ch.from = other.from => ch = other
  BY PlainOuts, ChannelsAre
<1>4. ASSUME NEW from
      PROVE  \/ FedBy(g, id, from) = {}
             \/ \E ch \in Channels(g) : FedBy(g, id, from) = {ch} /\ ch.from = from /\ ch.to = id
  BY <1>2, <1>3 DEF FedBy
<1>5. ASSUME NEW ch \in Into(g, id)
      PROVE  \E k \in DataIns(g, id) : Ins(g, id)[k].peer = ch.from
  <2>1. PICK from \in Planned(g) : from = ch.from /\ \E k \in DataOuts(g, from) : Outs(g, from)[k].peer = id
    BY <1>2, ChannelsAre
  <2>2. from \in IdsOf(g)
    BY <1>1
  <2>3. \E k \in DataIns(g, id) : Ins(g, id)[k].peer = from
    BY <1>1, <2>1, <2>2, EndsMeet
  <2> QED BY <2>1, <2>3
<1>6. ASSUME NEW k \in DataIns(g, id), Ins(g, id)[k].peer \in Planned(g)
      PROVE  FedBy(g, id, Ins(g, id)[k].peer) # {}
  <2>1. PICK from \in Planned(g) : from = Ins(g, id)[k].peer
    BY <1>6
  <2>2. from \in IdsOf(g)
    BY <1>1
  <2>3. \E l \in DataIns(g, id) : Ins(g, id)[l].peer = from
    BY <2>1
  <2>4. PICK l \in DataOuts(g, from) : Outs(g, from)[l].peer = id
    BY <1>1, <2>2, <2>3, EndsMeet
  <2>5. PICK ch \in Channels(g) : ch.from = from /\ ch.to = Outs(g, from)[l].peer
    BY ChannelsAre
  <2>6. ch \in FedBy(g, id, from)
    BY <2>4, <2>5 DEF FedBy, Into
  <2> QED BY <2>1, <2>6
<1> QED BY <1>4, <1>5, <1>6

-----------------------------------------------------------------------------
(* What a node reads.                                                        *)

(* No channel, or a single one, in order. *)
LEMMA OneInOrder ==
    /\ FirstChannel({}) = {} /\ InOrder({}) = <<>>
    /\ \A ch : ch.n \in Nat => FirstChannel({ch}) = {ch} /\ InOrder({ch}) = <<ch>>
<1>1. FirstChannel({}) = {}
  BY DEF FirstChannel
<1>2. InOrder({}) = <<>>
  <2>1. {ch.n : ch \in {}} = {} /\ 1..0 = {} /\ Cardinality({}) = 0
    BY FS_EmptySet
  <2>2. DOMAIN Ascending({}) = {}
    BY <2>1 DEF Ascending
  <2>3. InOrder({}) = [i \in {} |-> CHOOSE ch \in {} : ch.n = Ascending({})[i]]
    BY <2>1, <2>2 DEF InOrder
  <2> QED BY <2>3
<1>3. ASSUME NEW ch, ch.n \in Nat PROVE FirstChannel({ch}) = {ch} /\ InOrder({ch}) = <<ch>>
  <2>1. FirstChannel({ch}) = {ch}
    BY <1>3 DEF FirstChannel
  <2>2. PICK n \in Nat : n = ch.n
    BY <1>3
  <2>3. {c.n : c \in {ch}} = {n}
    BY <2>2
  <2>4. IsFiniteSet({n}) /\ Cardinality({n}) = 1 /\ {n} \subseteq Int
    BY FS_Singleton
  <2>5. Nth({n}, 1) = n
    BY <2>4, NthEnumerates DEF Enumerates
  <2>6. PICK ns : ns = Ascending({n})
    OBVIOUS
  <2>7. DOMAIN ns = 1..1 /\ ns[1] = n
    BY <2>4, <2>5, <2>6 DEF Ascending
  <2>8. InOrder({ch}) = [i \in 1..1 |-> CHOOSE c \in {ch} : c.n = ns[i]]
    BY <2>3, <2>6, <2>7 DEF InOrder
  <2>9. \A i \in 1..1 : (CHOOSE c \in {ch} : c.n = ns[i]) = ch
    <3>1. (CHOOSE c \in {ch} : c.n = ns[1]) = ch
      BY <2>2, <2>7
    <3> QED BY <3>1
  <2>10. InOrder({ch}) = [i \in 1..1 |-> ch]
    BY <2>8, <2>9
  <2> QED BY <2>1, <2>10
<1> QED BY <1>1, <1>2, <1>3

(* One element, and one more. *)
LEMMA AppendTwo ==
    ASSUME NEW V, NEW a \in V, NEW b \in V
    PROVE  Append(<<>>, a) = <<a>> /\ Append(<<a>>, b) = <<a, b>>
<1>1. <<>> \in Seq(V) /\ Len(<<>>) = 0 /\ <<a>> \in Seq(V) /\ Len(<<a>>) = 1
  OBVIOUS
<1>2. Append(<<>>, a) \in Seq(V) /\ Len(Append(<<>>, a)) = 1 /\ Append(<<>>, a)[1] = a
  BY <1>1
<1>3. Append(<<a>>, b) \in Seq(V) /\ Len(Append(<<a>>, b)) = 2
  BY <1>1
<1>4. Append(<<a>>, b)[1] = a /\ Append(<<a>>, b)[2] = b
  BY <1>1
<1>5. <<a, b>> \in Seq(V) /\ Len(<<a, b>>) = 2
  OBVIOUS
<1>6. Append(<<>>, a) = <<a>>
  <2>1. <<a>>[1] = a
    OBVIOUS
  <2> QED BY <1>1, <1>2, <2>1
<1>7. Append(<<a>>, b) = <<a, b>>
  <2>1. PICK s \in Seq(V), t \in Seq(V) : s = Append(<<a>>, b) /\ t = <<a, b>>
    BY <1>3, <1>5
  <2>2. Len(s) = 2 /\ Len(t) = 2 /\ s[1] = a /\ s[2] = b
    BY <1>3, <1>4, <1>5, <2>1
  <2>3. t[1] = a /\ t[2] = b
    BY <2>1
  <2>4. s \in [1..2 -> V] /\ t \in [1..2 -> V]
    BY <2>2, SeqIs
  <2>5. \A i \in 1..2 : s[i] = t[i]
    <3>1. \A i \in 1..2 : i = 1 \/ i = 2
      OBVIOUS
    <3> QED BY <2>2, <2>3, <3>1
  <2>6. s = t
    BY <2>4, <2>5
  <2> QED BY <2>1, <2>6
<1> QED BY <1>6, <1>7

(* Two sequences, one after the other. *)
LEMMA FlattenPair ==
    ASSUME NEW W, NEW a \in Seq(W), NEW b \in Seq(W)
    PROVE  FlattenSeq(<<a, b>>) = a \o b
<1>1. <<a>> \in Seq(Seq(W)) /\ <<>> \in Seq(Seq(W))
  OBVIOUS
<1>2. Append(<<a>>, b) = <<a, b>> /\ Append(<<>>, a) = <<a>>
  <2>1. PICK V : V = Seq(W)
    OBVIOUS
  <2>2. a \in V /\ b \in V
    BY <2>1
  <2> QED BY <2>2, AppendTwo
<1>3. FlattenSeq(<<>>) = <<>>
  BY DEF FlattenSeq
<1>4. FlattenSeq(Append(<<>>, a)) = FlattenSeq(<<>>) \o a
  BY <1>1, FlattenAppend
<1>5. FlattenSeq(Append(<<a>>, b)) = FlattenSeq(<<a>>) \o b
  BY <1>1, FlattenAppend
<1>6. <<>> \o a = a
  OBVIOUS
<1> QED BY <1>2, <1>3, <1>4, <1>5, <1>6

\* What is read from one node: one channel, or none.
ReadFrom(g, id, from) == InOrder(FedBy(g, id, from))

(* It is read in a sequence of at most one. *)
LEMMA ReadFromIs ==
    ASSUME NEW g, Sound(g), Plain(g), NEW id \in IdsOf(g), NEW from
    PROVE  /\ FirstChannel(FedBy(g, id, from)) = FedBy(g, id, from)
           /\ \/ FedBy(g, id, from) = {} /\ ReadFrom(g, id, from) = <<>>
              \/ \E ch \in Channels(g) : /\ FedBy(g, id, from) = {ch}
                                         /\ ReadFrom(g, id, from) = <<ch>>
                                         /\ ch.from = from /\ ch.to = id
<1>1. CASE FedBy(g, id, from) = {}
  BY <1>1, OneInOrder DEF ReadFrom
<1>2. CASE FedBy(g, id, from) # {}
  <2>1. PICK ch \in Channels(g) : FedBy(g, id, from) = {ch} /\ ch.from = from /\ ch.to = id
    BY <1>2, FedIs
  <2>2. ch.n \in Nat
    BY ChannelsAre
  <2>3. FirstChannel({ch}) = {ch} /\ InOrder({ch}) = <<ch>>
    BY <2>2, OneInOrder
  <2> QED BY <2>1, <2>3 DEF ReadFrom
<1> QED BY <1>1, <1>2

(* A node with a single data input reads from the node on its other end. *)
LEMMA SingleInto ==
    ASSUME NEW g, Sound(g), Plain(g), NEW id \in IdsOf(g), NEW k, DataIns(g, id) = {k}
    PROVE  Into(g, id) = FedBy(g, id, Ins(g, id)[k].peer)
<1>1. \A ch \in Into(g, id) : ch.from = Ins(g, id)[k].peer
  BY FedIs
<1> QED BY <1>1 DEF FedBy

(* The node at the port of a data input. *)
LEMMA SideIs ==
    ASSUME NEW g, Sound(g), Plain(g), NEW id \in IdsOf(g), NEW portId \in Int,
           portId + 1 \in DataIns(g, id)
    PROVE  /\ SourceAt(g, id, portId) = Ins(g, id)[portId + 1].peer
           /\ Side(g, id, portId) = FedBy(g, id, SourceAt(g, id, portId))
<1>1. PICK k \in DOMAIN Ins(g, id) : k = portId + 1 /\ Ins(g, id)[k].kind = "data"
  BY DEF DataIns
<1>2. SourceAt(g, id, portId) = Ins(g, id)[k].peer
  BY <1>1 DEF SourceAt
<1>3. SourceAt(g, id, portId) # 0
  BY <1>2, NodePorts
<1>4. PICK from : from = SourceAt(g, id, portId)
  OBVIOUS
<1>5. Side(g, id, portId) = FirstChannel(FedBy(g, id, from))
  BY <1>3, <1>4 DEF Side, FedBy
<1>6. FirstChannel(FedBy(g, id, from)) = FedBy(g, id, from)
  BY ReadFromIs
<1> QED BY <1>1, <1>2, <1>4, <1>5, <1>6

(* The settings of a node of the graph. *)
LEMMA WhatIs ==
    ASSUME NEW g, Sound(g), NEW id \in IdsOf(g)
    PROVE  WhatOf(g, id).ins \in Seq(Int)
<1>1. PICK nodes \in Seq(NodeType) : nodes = g.nodes
  BY DEF Sound, GraphType
<1>2. \E i \in DOMAIN nodes : nodes[i].id = id
  BY <1>1 DEF IdsOf, NodeIdsOf
<1>3. PICK i \in DOMAIN nodes : i = CHOOSE k \in DOMAIN nodes : nodes[k].id = id
  BY <1>2
<1>4. nodes[i] \in NodeType
  OBVIOUS
<1>5. WhatOf(g, id) = nodes[i].what
  BY <1>1, <1>3 DEF WhatOf
<1> QED BY <1>4, <1>5, SettingsAssumption DEF NodeType

\* A node reads from one node; from two.
ReadsOne(g, id, from) ==
    /\ \E k \in DataIns(g, id) : Ins(g, id)[k].peer = from
    /\ Into(g, id) = FedBy(g, id, from) /\ Reads(g, id) = ReadFrom(g, id, from)

ReadsTwo(g, id, one, other) ==
    /\ \E k \in DataIns(g, id) : Ins(g, id)[k].peer = one
    /\ \E k \in DataIns(g, id) : Ins(g, id)[k].peer = other
    /\ one # other /\ Into(g, id) = FedBy(g, id, one) \cup FedBy(g, id, other)
    /\ Reads(g, id) = ReadFrom(g, id, one) \o ReadFrom(g, id, other)

(* A sink reads from one node. *)
LEMMA SinkReads ==
    ASSUME NEW g, Sound(g), Plain(g), NEW id \in Planned(g),
           TypeOf(g, id) \in {"log", "email_output", "db_output"}
    PROVE  \E k : /\ DataIns(g, id) = {k} /\ ReadsOne(g, id, Ins(g, id)[k].peer)
<1>1. id \in IdsOf(g)
  BY PlannedIs DEF Sound, Closure
<1>2. PICK type : type = TypeOf(g, id)
  OBVIOUS
<1>3. type # "map" /\ type \in {"log", "email_output", "db_output"}
  BY <1>2
<1>4. Cardinality(DataIns(g, id)) = 1
  BY <1>2, <1>3 DEF Plain, TypeOf
<1>5. IsFiniteSet(DataIns(g, id))
  <2>1. PICK ins \in Seq(PortType) : ins = Ins(g, id)
    BY NodePorts
  <2>2. DataIns(g, id) \subseteq DOMAIN ins
    BY <2>1 DEF DataIns
  <2> QED BY <2>2, PickedIs
<1>6. PICK k : DataIns(g, id) = {k}
  BY <1>4, <1>5, FS_Singleton
<1>7. PICK from : from = Ins(g, id)[k].peer
  OBVIOUS
<1>8. Into(g, id) = FedBy(g, id, from)
  BY <1>1, <1>6, <1>7, SingleInto
<1>9. Reads(g, id) = InOrder(FirstChannel(Into(g, id)))
  BY <1>2, <1>3 DEF Reads, TypeOf
<1>10. FirstChannel(FedBy(g, id, from)) = FedBy(g, id, from)
  BY <1>1, ReadFromIs
<1>11. Reads(g, id) = ReadFrom(g, id, from)
  BY <1>8, <1>9, <1>10 DEF ReadFrom
<1> QED BY <1>6, <1>7, <1>8, <1>11 DEF ReadsOne

(* Other nodes than maps and sinks read nothing. *)
LEMMA SourceReads ==
    ASSUME NEW g, Sound(g), Plain(g), NEW id \in Planned(g),
           TypeOf(g, id) \notin {"map", "log", "email_output", "db_output"}
    PROVE  Into(g, id) = {} /\ Reads(g, id) = <<>>
<1>1. id \in IdsOf(g)
  BY PlannedIs DEF Sound, Closure
<1>2. PICK type : type = TypeOf(g, id)
  OBVIOUS
<1>3. type # "map" /\ type \notin {"log", "email_output", "db_output"}
  BY <1>2
<1>4. DataIns(g, id) = {}
  BY <1>2, <1>3 DEF Plain, TypeOf
<1>5. Into(g, id) = {}
  BY <1>1, <1>4, FedIs
<1>6. Reads(g, id) = <<>>
  BY <1>2, <1>3 DEF Reads, TypeOf
<1> QED BY <1>5, <1>6

(* A map reads from one node, or joins two, at the ports it is configured with. *)
LEMMA MapReads ==
    ASSUME NEW g, Sound(g), Plain(g), NEW id \in Planned(g), TypeOf(g, id) = "map"
    PROVE  LET what == WhatOf(g, id)
           IN \/ /\ Len(what.ins) = 1 /\ ReadsOne(g, id, SourceAt(g, id, what.ins[1]))
              \/ /\ Len(what.ins) = 2 /\ what.join = <<1, 2>>
                 /\ ReadsTwo(g, id, SourceAt(g, id, what.ins[1]), SourceAt(g, id, what.ins[2]))
<1>1. id \in IdsOf(g)
  BY PlannedIs DEF Sound, Closure
<1>2. PICK what : what = WhatOf(g, id)
  OBVIOUS
<1>3. what.type = "map" /\ what.ins \in Seq(Int)
  BY <1>1, <1>2, WhatIs DEF TypeOf
<1>4. /\ Len(what.ins) \in 1..2
      /\ what.join = IF Len(what.ins) = 1 THEN <<>> ELSE <<1, 2>>
      /\ DataIns(g, id) = {what.ins[i] + 1 : i \in DOMAIN what.ins}
      /\ \A i, k \in DOMAIN what.ins :
            SourceAt(g, id, what.ins[i]) = SourceAt(g, id, what.ins[k]) => i = k
  BY <1>2, <1>3 DEF Plain
<1>5. PICK ins \in Seq(Int) : ins = what.ins
  BY <1>3
<1>6. DOMAIN ins = 1..Len(ins) /\ \A i \in DOMAIN ins : ins[i] \in Int
  OBVIOUS
<1>7. \A i \in DOMAIN ins :
         /\ SourceAt(g, id, ins[i]) = Ins(g, id)[ins[i] + 1].peer
         /\ Side(g, id, ins[i]) = FedBy(g, id, SourceAt(g, id, ins[i]))
  BY <1>1, <1>4, <1>5, <1>6, SideIs
<1>8. CASE Len(ins) = 1
  <2>1. DOMAIN ins = {1} /\ ins[1] \in Int
    BY <1>6, <1>8
  <2>2. DataIns(g, id) = {ins[1] + 1}
    BY <1>4, <1>5, <2>1
  <2>3. PICK from : from = SourceAt(g, id, ins[1])
    OBVIOUS
  <2>4. from = Ins(g, id)[ins[1] + 1].peer
    BY <1>7, <2>1, <2>3
  <2>5. Into(g, id) = FedBy(g, id, from)
    BY <1>1, <2>2, <2>4, SingleInto
  <2>6. what.join = <<>>
    BY <1>4, <1>5, <1>8
  <2>7. Reads(g, id) = InOrder(Into(g, id))
    BY <1>2, <1>3, <2>6, Zenon DEF Reads
  <2>8. ReadsOne(g, id, from)
    BY <2>2, <2>4, <2>5, <2>7 DEF ReadsOne, ReadFrom
  <2> QED BY <1>2, <1>5, <1>8, <2>3, <2>8
<1>9. CASE Len(ins) = 2
  <2>1. DOMAIN ins = {1, 2} /\ ins[1] \in Int /\ ins[2] \in Int
    BY <1>6, <1>9
  <2>2. DataIns(g, id) = {ins[1] + 1, ins[2] + 1}
    BY <1>4, <1>5, <2>1
  <2>3. PICK a, b : a = SourceAt(g, id, ins[1]) /\ b = SourceAt(g, id, ins[2])
    OBVIOUS
  <2>4. a = Ins(g, id)[ins[1] + 1].peer /\ b = Ins(g, id)[ins[2] + 1].peer /\ a # b
    BY <1>4, <1>5, <1>7, <2>1, <2>3
  <2>5. \A ch \in Into(g, id) : ch.from = a \/ ch.from = b
    BY <1>1, <2>2, <2>4, FedIs
  <2>6. Into(g, id) = FedBy(g, id, a) \cup FedBy(g, id, b)
    BY <2>5 DEF FedBy
  <2>7. what.join = <<1, 2>>
    BY <1>4, <1>5, <1>9
  <2>8. Reads(g, id) = FlattenSeq([i \in DOMAIN what.join |->
                                      InOrder(Side(g, id, what.ins[what.join[i]]))])
    <3>1. what.join # <<>>
      BY <2>7
    <3> QED BY <1>2, <1>3, <3>1, Zenon DEF Reads
  <2>9. PICK x, y : x = ReadFrom(g, id, a) /\ y = ReadFrom(g, id, b)
    OBVIOUS
  <2>10. InOrder(Side(g, id, what.ins[1])) = x /\ InOrder(Side(g, id, what.ins[2])) = y
    BY <1>5, <1>7, <2>1, <2>3, <2>9 DEF ReadFrom
  <2>11. Reads(g, id) = FlattenSeq(<<x, y>>)
    <3> DEFINE F(i) == InOrder(Side(g, id, what.ins[i]))
    <3>1. Reads(g, id) = FlattenSeq([i \in DOMAIN what.join |-> F(what.join[i])])
      BY <2>8
    <3>2. F(1) = x /\ F(2) = y
      BY <2>10
    <3> HIDE DEF F
    <3>3. DOMAIN <<1, 2>> = 1..2
      OBVIOUS
    <3>4. [i \in 1..2 |-> F(<<1, 2>>[i])] = <<x, y>>
      BY <3>2
    <3> QED BY <2>7, <3>1, <3>3, <3>4
  <2>12. x \in Seq(Channels(g)) /\ y \in Seq(Channels(g))
    <3>1. x = <<>> \/ \E ch \in Channels(g) : x = <<ch>>
      BY <1>1, <2>9, ReadFromIs
    <3>2. y = <<>> \/ \E ch \in Channels(g) : y = <<ch>>
      BY <1>1, <2>9, ReadFromIs
    <3>3. <<>> \in Seq(Channels(g)) /\ \A ch \in Channels(g) : <<ch>> \in Seq(Channels(g))
      OBVIOUS
    <3> QED BY <3>1, <3>2, <3>3
  <2>13. Reads(g, id) = x \o y
    BY <2>11, <2>12, FlattenPair
  <2>14. ReadsTwo(g, id, a, b)
    BY <2>2, <2>4, <2>6, <2>9, <2>13 DEF ReadsTwo
  <2> QED BY <1>2, <1>5, <1>9, <2>3, <2>7, <2>14
<1>10. Len(ins) = 1 \/ Len(ins) = 2
  BY <1>4, <1>5
<1> QED BY <1>8, <1>9, <1>10

-----------------------------------------------------------------------------
(* The program.                                                              *)

\* All that leads to a node is read, each channel once.
ReadsAll(g, id) ==
    \/ Into(g, id) = {} /\ Reads(g, id) = <<>>
    \/ \E ch \in Channels(g) : Into(g, id) = {ch} /\ Reads(g, id) = <<ch>>
    \/ \E ch, other \in Channels(g) :
          ch # other /\ Into(g, id) = {ch, other} /\ Reads(g, id) = <<ch, other>>

(* A node reads all that leads to it. *)
LEMMA AllRead ==
    ASSUME NEW g, Sound(g), Plain(g), NEW id \in Planned(g)
    PROVE  ReadsAll(g, id)
<1>1. id \in IdsOf(g)
  BY PlannedIs DEF Sound, Closure
<1>2. \A from : \/ FedBy(g, id, from) = {} /\ ReadFrom(g, id, from) = <<>>
                \/ \E ch \in Channels(g) : /\ FedBy(g, id, from) = {ch}
                                           /\ ReadFrom(g, id, from) = <<ch>> /\ ch.from = from
  BY <1>1, ReadFromIs
<1>3. ASSUME NEW from, ReadsOne(g, id, from) PROVE ReadsAll(g, id)
  BY <1>2, <1>3 DEF ReadsOne, ReadsAll
<1>4. ASSUME NEW a, NEW b, ReadsTwo(g, id, a, b) PROVE ReadsAll(g, id)
  <2>1. /\ a # b /\ Into(g, id) = FedBy(g, id, a) \cup FedBy(g, id, b)
        /\ Reads(g, id) = ReadFrom(g, id, a) \o ReadFrom(g, id, b)
    BY <1>4 DEF ReadsTwo
  <2>2. CASE FedBy(g, id, a) = {} /\ FedBy(g, id, b) = {}
    <3>1. ReadFrom(g, id, a) = <<>> /\ ReadFrom(g, id, b) = <<>>
      BY <1>2, <2>2
    <3>2. <<>> \o <<>> = <<>>
      OBVIOUS
    <3> QED BY <2>1, <2>2, <3>1, <3>2 DEF ReadsAll
  <2>3. CASE FedBy(g, id, a) # {} /\ FedBy(g, id, b) = {}
    <3>1. PICK ch \in Channels(g) : FedBy(g, id, a) = {ch} /\ ReadFrom(g, id, a) = <<ch>>
      BY <1>2, <2>3
    <3>2. ReadFrom(g, id, b) = <<>>
      BY <1>2, <2>3
    <3>3. <<ch>> \o <<>> = <<ch>>
      OBVIOUS
    <3> QED BY <2>1, <2>3, <3>1, <3>2, <3>3 DEF ReadsAll
  <2>4. CASE FedBy(g, id, a) = {} /\ FedBy(g, id, b) # {}
    <3>1. PICK ch \in Channels(g) : FedBy(g, id, b) = {ch} /\ ReadFrom(g, id, b) = <<ch>>
      BY <1>2, <2>4
    <3>2. ReadFrom(g, id, a) = <<>>
      BY <1>2, <2>4
    <3>3. <<>> \o <<ch>> = <<ch>>
      OBVIOUS
    <3> QED BY <2>1, <2>4, <3>1, <3>2, <3>3 DEF ReadsAll
  <2>5. CASE FedBy(g, id, a) # {} /\ FedBy(g, id, b) # {}
    <3>1. PICK ch \in Channels(g) :
             FedBy(g, id, a) = {ch} /\ ReadFrom(g, id, a) = <<ch>> /\ ch.from = a
      BY <1>2, <2>5
    <3>2. PICK other \in Channels(g) :
             FedBy(g, id, b) = {other} /\ ReadFrom(g, id, b) = <<other>> /\ other.from = b
      BY <1>2, <2>5
    <3>3. <<ch>> \o <<other>> = <<ch, other>>
      <4>1. <<ch>> \in Seq(Channels(g)) /\ <<other>> \in Seq(Channels(g))
        OBVIOUS
      <4>2. <<ch>> \o <<other>> = Append(<<ch>>, other)
        BY <4>1
      <4> QED BY <4>2, AppendTwo
    <3>4. Into(g, id) = {ch, other} /\ Reads(g, id) = <<ch, other>> /\ ch # other
      BY <2>1, <3>1, <3>2, <3>3
    <3> QED BY <3>4 DEF ReadsAll
  <2> QED BY <2>2, <2>3, <2>4, <2>5
<1>5. CASE TypeOf(g, id) \in {"log", "email_output", "db_output"}
  BY <1>3, <1>5, SinkReads
<1>6. CASE TypeOf(g, id) = "map"
  BY <1>3, <1>4, <1>6, MapReads
<1>7. CASE TypeOf(g, id) \notin {"map", "log", "email_output", "db_output"}
  BY <1>7, SourceReads DEF ReadsAll
<1> QED BY <1>5, <1>6, <1>7

(* The channels between planned nodes have their reader and their writer, and *)
(* a node reads a channel once.                                               *)
LEMMA ProgramWired ==
    ASSUME NEW g, Sound(g), Plain(g)
    PROVE  /\ \A ch \in Channels(g) : ch.to \in Planned(g) =>
                 /\ {id \in Launched(g) : ch \in Range(Reads(g, id))} = {ch.to}
                 /\ {id \in Launched(g) : ch \in Writes(g, id)} = {ch.from}
           /\ \A id \in Launched(g) : Len(Reads(g, id)) = Cardinality(Range(Reads(g, id)))
<1>1. Planned(g) \subseteq IdsOf(g) /\ Launched(g) \subseteq Planned(g)
  BY PlannedIs DEF Sound, Closure, Launched
<1>2. ASSUME NEW id \in Planned(g)
      PROVE  /\ Range(Reads(g, id)) = Into(g, id)
             /\ Len(Reads(g, id)) = Cardinality(Range(Reads(g, id)))
             /\ Into(g, id) # {} => Reads(g, id) # <<>>
  <2>1. ReadsAll(g, id)
    BY AllRead
  <2>2. CASE Into(g, id) = {} /\ Reads(g, id) = <<>>
    <3>1. Range(<<>>) = {} /\ Len(<<>>) = 0 /\ Cardinality({}) = 0
      BY FS_EmptySet DEF Range
    <3> QED BY <2>2, <3>1
  <2>3. CASE \E ch \in Channels(g) : Into(g, id) = {ch} /\ Reads(g, id) = <<ch>>
    <3>1. PICK ch \in Channels(g) : Into(g, id) = {ch} /\ Reads(g, id) = <<ch>>
      BY <2>3
    <3>2. Range(<<ch>>) = {ch} /\ Len(<<ch>>) = 1 /\ Cardinality({ch}) = 1 /\ <<ch>> # <<>>
      BY FS_Singleton DEF Range
    <3> QED BY <3>1, <3>2
  <2>4. CASE \E ch, other \in Channels(g) :
                ch # other /\ Into(g, id) = {ch, other} /\ Reads(g, id) = <<ch, other>>
    <3>1. PICK ch \in Channels(g), other \in Channels(g) :
             ch # other /\ Into(g, id) = {ch, other} /\ Reads(g, id) = <<ch, other>>
      BY <2>4
    <3>2. Cardinality({ch, other}) = 2
      <4>1. IsFiniteSet({ch}) /\ Cardinality({ch}) = 1 /\ other \notin {ch}
        BY <3>1, FS_Singleton
      <4>2. Cardinality({ch} \cup {other}) = Cardinality({ch}) + 1
        BY <4>1, FS_AddElement
      <4>3. {ch} \cup {other} = {ch, other}
        OBVIOUS
      <4> QED BY <4>1, <4>2, <4>3
    <3>3. Range(<<ch, other>>) = {ch, other} /\ Len(<<ch, other>>) = 2 /\ <<ch, other>> # <<>>
      BY DEF Range
    <3> QED BY <3>1, <3>2, <3>3
  <2> QED BY <2>1, <2>2, <2>3, <2>4 DEF ReadsAll
<1>3. ASSUME NEW ch \in Channels(g), ch.to \in Planned(g)
      PROVE  {id \in Launched(g) : ch \in Range(Reads(g, id))} = {ch.to}
  <2>1. \A id \in Planned(g) : ch \in Range(Reads(g, id)) <=> id = ch.to
    BY <1>2 DEF Into
  <2>2. ch.to \in Launched(g)
    <3>1. ch \in Into(g, ch.to) /\ Reads(g, ch.to) # <<>>
      BY <1>2, <1>3 DEF Into
    <3>2. TypeOf(g, ch.to) \in {"map", "log", "email_output", "db_output"}
      BY <1>3, <3>1, SourceReads
    <3>3. TypeOf(g, ch.to) \in Generated
      BY <3>2 DEF Generated
    <3> QED BY <1>3, <3>1, <3>3 DEF Launched
  <2> QED BY <1>1, <2>1, <2>2
<1>4. ASSUME NEW ch \in Channels(g)
      PROVE  {id \in Launched(g) : ch \in Writes(g, id)} = {ch.from}
  <2>1. PICK from \in Planned(g) : from = ch.from /\ ch.n \in Nat /\ DataOuts(g, from) # {}
    BY ChannelsAre
  <2>2. Cardinality(DataOuts(g, from)) <= 1 /\ TypeOf(g, from) \in {"db_input", "map"}
    BY <2>1, PlainOuts
  <2>3. \A other \in Channels(g) : other.from = from => other = ch
    BY <2>1, <2>2, ChannelsAre
  <2>4. {other \in Channels(g) : other.from = from} = {ch}
    BY <2>1, <2>3
  <2>5. Writes(g, from) = {ch}
    BY <2>1, <2>2, <2>4, OneInOrder DEF Writes
  <2>6. \A id : ch \in Writes(g, id) => id = from
    BY <2>1 DEF Writes, FirstChannel
  <2>7. from \in Launched(g)
    BY <2>2, <2>5 DEF Launched, Generated
  <2> QED BY <2>1, <2>5, <2>6, <2>7
<1> QED BY <1>1, <1>2, <1>3, <1>4

(* A source that is planned has a row type, and its channel is read. *)
LEMMA SourceType ==
    ASSUME NEW g, Sound(g), Plain(g), NEW id \in IdsOf(g), NEW k \in DataIns(g, id),
           NEW from \in Planned(g), from = Ins(g, id)[k].peer
    PROVE  /\ \E ch \in Channels(g) : ReadFrom(g, id, from) = <<ch>> /\ ch.from = from
           /\ from \in Structs(g) /\ RowTypeFrom(g, from) = from
<1>1. FedBy(g, id, from) # {}
  BY FedIs
<1>2. PICK ch \in Channels(g) : ReadFrom(g, id, from) = <<ch>> /\ ch.from = from
  BY <1>1, ReadFromIs
<1>3. DataOuts(g, from) # {}
  BY <1>2, ChannelsAre
<1>4. TypeOf(g, from) \in {"db_input", "map"}
  BY <1>3, PlainOuts
<1>5. from \in Structs(g)
  BY <1>4 DEF Structs
<1> QED BY <1>2, <1>5 DEF RowTypeFrom

(* A node is declared with the row types of the channels it is launched with. *)
LEMMA TypesMeet ==
    ASSUME NEW g, Sound(g), Plain(g), NEW id \in Planned(g),
           TypeOf(g, id) \in {"map", "log", "email_output"},
           \A i \in DOMAIN Ins(g, id) : Ins(g, id)[i].peer \in Planned(g)
    PROVE  TypesMatch(g, id)
<1>1. id \in IdsOf(g)
  BY PlannedIs DEF Sound, Closure
<1>2. PICK what : what = WhatOf(g, id)
  OBVIOUS
<1>3. \A k \in DataIns(g, id) : Ins(g, id)[k].peer \in Planned(g)
  BY DEF DataIns
<1>4. ASSUME NEW from, \E k \in DataIns(g, id) : Ins(g, id)[k].peer = from
      PROVE  /\ \E ch \in Channels(g) : ReadFrom(g, id, from) = <<ch>> /\ ch.from = from
             /\ from \in Structs(g) /\ RowTypeFrom(g, from) = from
  <2>1. PICK k \in DataIns(g, id) : Ins(g, id)[k].peer = from
    BY <1>4
  <2>2. from \in Planned(g)
    BY <1>3, <2>1
  <2> QED BY <1>1, <2>1, <2>2, SourceType
<1>5. ASSUME NEW from, ReadsOne(g, id, from), InputTypes(g, id) = <<RowTypeFrom(g, from)>>
      PROVE  TypesMatch(g, id)
  <2>1. \E k \in DataIns(g, id) : Ins(g, id)[k].peer = from
    BY <1>5 DEF ReadsOne
  <2>2. PICK ch \in Channels(g) : ReadFrom(g, id, from) = <<ch>> /\ ch.from = from
    BY <1>4, <2>1
  <2>3. RowTypeFrom(g, from) = from
    BY <1>4, <2>1
  <2>4. Reads(g, id) = <<ch>>
    BY <1>5, <2>2 DEF ReadsOne
  <2>5. [i \in DOMAIN <<ch>> |-> <<ch>>[i].from] = <<ch.from>>
    OBVIOUS
  <2> QED BY <1>5, <2>2, <2>3, <2>4, <2>5 DEF TypesMatch
<1>6. CASE TypeOf(g, id) \in {"log", "email_output"}
  <2>1. PICK k : DataIns(g, id) = {k} /\ ReadsOne(g, id, Ins(g, id)[k].peer)
    BY <1>6, SinkReads
  <2>2. PICK ins \in Seq(PortType) : ins = Ins(g, id)
    BY NodePorts
  <2>3. k \in DOMAIN ins /\ k \in Int /\ {i \in DOMAIN ins : ins[i].kind = "data"} = {k}
    BY <2>1, <2>2 DEF DataIns
  <2>4. ins[k].peer \in Structs(g)
    BY <1>4, <2>1, <2>2
  <2>5. {i \in DOMAIN ins : ins[i].kind = "data" /\ ins[i].peer \in Structs(g)} = {k}
    BY <2>3, <2>4
  <2>6. PICK typed : typed = Picked(ins, {k})
    OBVIOUS
  <2>7. typed[1] = ins[k] /\ typed # <<>>
    <3>1. IsFiniteSet({k}) /\ Cardinality({k}) = 1 /\ {k} \subseteq Int
      BY <2>3, FS_Singleton
    <3>2. Nth({k}, 1) = k
      BY <3>1, NthEnumerates DEF Enumerates
    <3>3. typed = [n \in 1..1 |-> ins[Nth({k}, n)]]
      BY <2>6, <3>1 DEF Picked
    <3>4. 1 \in DOMAIN typed /\ typed[1] = ins[k]
      BY <3>2, <3>3
    <3> QED BY <3>4
  <2>8. PICK type : type = what.type
    OBVIOUS
  <2>9. type # "map" /\ type \in {"log", "email_output"}
    BY <1>2, <1>6, <2>8 DEF TypeOf
  <2>10. InputTypes(g, id) = <<IF typed = <<>> THEN AnyRow ELSE typed[1].peer>>
    BY <1>2, <2>2, <2>5, <2>6, <2>8, <2>9 DEF InputTypes
  <2>11. InputTypes(g, id) = <<ins[k].peer>>
    BY <2>7, <2>10
  <2>12. RowTypeFrom(g, ins[k].peer) = ins[k].peer
    BY <2>4 DEF RowTypeFrom
  <2> QED BY <1>5, <2>1, <2>2, <2>11, <2>12
<1>7. CASE TypeOf(g, id) = "map" /\ Len(what.ins) = 1 /\ ReadsOne(g, id, SourceAt(g, id, what.ins[1]))
  <2>1. what.type = "map" /\ Len(what.ins) = 1
    BY <1>2, <1>7 DEF TypeOf
  <2>2. InputTypes(g, id) = <<RowTypeFrom(g, SourceAt(g, id, what.ins[1]))>>
    BY <1>2, <2>1, Zenon DEF InputTypes
  <2> QED BY <1>5, <1>7, <2>2
<1>8. CASE /\ TypeOf(g, id) = "map" /\ Len(what.ins) = 2 /\ what.join = <<1, 2>>
           /\ ReadsTwo(g, id, SourceAt(g, id, what.ins[1]), SourceAt(g, id, what.ins[2]))
  <2>1. what.type = "map" /\ Len(what.ins) # 1
    BY <1>2, <1>8 DEF TypeOf
  <2>2. PICK a, b : a = SourceAt(g, id, what.ins[1]) /\ b = SourceAt(g, id, what.ins[2])
    OBVIOUS
  <2>3. ReadsTwo(g, id, a, b)
    BY <1>8, <2>2
  <2>4. PICK ch \in Channels(g) : ReadFrom(g, id, a) = <<ch>> /\ ch.from = a /\ RowTypeFrom(g, a) = a
    BY <1>4, <2>3 DEF ReadsTwo
  <2>5. PICK other \in Channels(g) :
           ReadFrom(g, id, b) = <<other>> /\ other.from = b /\ RowTypeFrom(g, b) = b
    BY <1>4, <2>3 DEF ReadsTwo
  <2>6. Reads(g, id) = <<ch, other>>
    <3>1. Reads(g, id) = <<ch>> \o <<other>>
      BY <2>3, <2>4, <2>5 DEF ReadsTwo
    <3>2. <<ch>> \in Seq(Channels(g)) /\ <<other>> \in Seq(Channels(g))
      OBVIOUS
    <3>3. <<ch>> \o <<other>> = Append(<<ch>>, other)
      BY <3>2
    <3> QED BY <3>1, <3>3, AppendTwo
  <2>7. InputTypes(g, id) = <<a, b>>
    <3> DEFINE F(i) == RowTypeFrom(g, SourceAt(g, id, what.ins[i]))
    <3>1. InputTypes(g, id) = [i \in DOMAIN what.join |-> F(what.join[i])]
      BY <1>2, <2>1, Zenon DEF InputTypes
    <3>2. F(1) = a /\ F(2) = b
      BY <2>2, <2>4, <2>5
    <3> HIDE DEF F
    <3>3. DOMAIN <<1, 2>> = 1..2
      OBVIOUS
    <3>4. [i \in 1..2 |-> F(<<1, 2>>[i])] = <<a, b>>
      BY <3>2
    <3> QED BY <1>8, <3>1, <3>3, <3>4
  <2>8. [i \in DOMAIN <<ch, other>> |-> <<ch, other>>[i].from] = <<ch.from, other.from>>
    OBVIOUS
  <2> QED BY <2>4, <2>5, <2>6, <2>7, <2>8 DEF TypesMatch
<1> QED BY <1>2, <1>6, <1>7, <1>8, MapReads

(* What an execution has loaded is a graph of this kind. *)
LEMMA RunSound ==
    ASSUME BoardInv
    PROVE  Sound(RunGraph)
<1>1. RunGraph \in GraphType /\ IsFiniteSet(IdsOf(RunGraph))
  BY RunGraphIs DEF BoardInv
<1>2. CallKnown(call[Runner], serial)
  BY DEF BoardInv, DrawingsKnown, Callers
<1>3. Distinct(RunGraph.nodes) /\ \A i \in DOMAIN RunGraph.ports : RunGraph.ports[i].peer # 0
  BY <1>2 DEF CallKnown, RunGraph, PeersKnown
<1> QED BY <1>1, <1>3 DEF Sound

(* In a program built from a plain drawing every channel between planned nodes *)
(* has one node launched to write and close it and one launched to read it     *)
(* (collectChannels, generateNodeLaunchData, GetLaunchArgs).                   *)
THEOREM WiredCorrect == Spec => []Wired
<1>1. Init => BoardInv
  BY InitBoard
<1>2. BoardInv /\ [Next]_vars => BoardInv'
  BY BoardStep
<1>3. BoardInv => Wired
  <2> SUFFICES ASSUME BoardInv, Plain(RunGraph) PROVE Wired
    BY DEF Wired
  <2>1. PICK g : g = RunGraph
    OBVIOUS
  <2>2. Sound(g) /\ Plain(g)
    BY <2>1, RunSound
  <2>3. \A id \in Launched(g) :
           /\ [l \in Launched(g) |-> Reads(g, l)][id] = Reads(g, id)
           /\ [l \in Launched(g) |-> Writes(g, l)][id] = Writes(g, id)
    OBVIOUS
  <2> QED BY <2>1, <2>2, <2>3, ProgramWired DEF Wired
<1> QED BY <1>1, <1>2, <1>3, PTL DEF Spec

(* A map, log or email function is declared with the row types of the channels *)
(* it is launched with (findInputRowTypes, findInputRowType).                  *)
THEOREM RowTypesCorrect == Spec => []RowTypesAgree
<1>1. Init => BoardInv
  BY InitBoard
<1>2. BoardInv /\ [Next]_vars => BoardInv'
  BY BoardStep
<1>3. BoardInv => RowTypesAgree
  <2> SUFFICES ASSUME BoardInv, Plain(RunGraph), NEW id \in Launched(RunGraph),
                      TypeOf(RunGraph, id) \in {"map", "log", "email_output"},
                      \A i \in DOMAIN Ins(RunGraph, id) :
                          Ins(RunGraph, id)[i].peer \in Planned(RunGraph)
               PROVE  TypesMatch(RunGraph, id)
    BY DEF RowTypesAgree
  <2>1. PICK g : g = RunGraph
    OBVIOUS
  <2>2. Sound(g) /\ Plain(g) /\ id \in Planned(g)
    BY <2>1, RunSound DEF Launched
  <2>3. TypesMatch(g, id)
    BY <2>1, <2>2, TypesMeet
  <2> QED BY <2>1, <2>3
<1> QED BY <1>1, <1>2, <1>3, PTL DEF Spec
=============================================================================
