------------------------- MODULE JobService_proofs --------------------------
(***************************************************************************)
(* Theorems about the jobs of the API server, for any users, scenarios,    *)
(* palettes and bounds.                                                    *)
(***************************************************************************)
EXTENDS JobService, DataLemmas

-----------------------------------------------------------------------------
(* A finite set of numbers in order, and the elements of a sequence at a set  *)
(* of places.                                                                 *)

Enumerates(S) ==
    /\ \A k \in 1..Cardinality(S) : Nth(S, k) \in S
    /\ \A k, l \in 1..Cardinality(S) : k < l => Nth(S, k) < Nth(S, l)
    /\ \A n \in S : \E k \in 1..Cardinality(S) : n = Nth(S, k)

Rank(S, n) == Cardinality({m \in S : m <= n})

Ranked(S) ==
    /\ \A k \in 1..Cardinality(S) : Rank(S, Nth(S, k)) = k
    /\ \A n \in S : Nth(S, Rank(S, n)) = n

(* Nth gives the numbers of a set one after the other, each of them once. *)
LEMMA NthEnumerates ==
    ASSUME NEW S, S \subseteq Int, IsFiniteSet(S)
    PROVE  Enumerates(S) /\ Ranked(S) /\ Cardinality(S) \in Nat
<1>0. \A x, y \in S : x \in Int /\ (x = y \/ x < y \/ y < x)
  OBVIOUS
<1> DEFINE K == Cardinality(S)
           upto(n) == {m \in S : m <= n}
           rank == [n \in S |-> Cardinality(upto(n))]
<1>1. K \in Nat
  BY FS_CardinalityType
<1>2. \A n \in S : IsFiniteSet(upto(n)) /\ upto(n) \in SUBSET S /\ n \in upto(n)
  <2>1. \A n \in S : upto(n) \in SUBSET S /\ n \in upto(n)
    OBVIOUS
  <2> QED BY <2>1, FS_Subset
<1>3. ASSUME NEW n \in S PROVE Cardinality(upto(n)) \in 1..K
  <2>1. Cardinality(upto(n)) \in Nat /\ Cardinality(upto(n)) <= K
    BY <1>2, FS_CardinalityType, FS_Subset
  <2>2. Cardinality(upto(n)) # 0
    BY <1>2, FS_EmptySet
  <2> QED BY <1>1, <2>1, <2>2
<1>4. ASSUME NEW m \in S, NEW n \in S, m < n PROVE Cardinality(upto(m)) < Cardinality(upto(n))
  <2>1. upto(m) \in SUBSET upto(n) /\ n \in upto(n) /\ n \notin upto(m)
    <3>1. m \in Int /\ n \in Int
      BY <1>0
    <3>2. \A x \in S : x <= m => x <= n
      BY <1>0, <1>4, <3>1
    <3>3. n <= n /\ ~ (n <= m)
      BY <1>4, <3>1
    <3> QED BY <3>2, <3>3
  <2>2. /\ Cardinality(upto(m)) <= Cardinality(upto(n))
        /\ Cardinality(upto(m)) # Cardinality(upto(n))
    BY <1>2, <2>1, FS_Subset
  <2> QED BY <1>3, <2>2
<1>5. rank \in Injection(S, 1..K)
  <2>1. rank \in [S -> 1..K]
    BY <1>3
  <2>2. \A m, n \in S : rank[m] = rank[n] => m = n
    <3>1. \A m, n \in S : m < n => rank[m] # rank[n]
      BY <1>3, <1>4
    <3> HIDE DEF rank
    <3> QED BY <1>0, <3>1
  <2> HIDE DEF rank
  <2> QED BY <2>1, <2>2 DEF Injection, IsInjective
<1>6. \A m, n \in S : rank[m] = rank[n] => m = n
  <2> HIDE DEF rank
  <2> QED BY <1>5 DEF Injection, IsInjective
<1>7. rank \in Surjection(S, 1..K)
  <2>1. IsFiniteSet(1..K) /\ Cardinality(1..K) = K
    BY <1>1, FS_Interval
  <2> HIDE DEF rank
  <2> QED BY <1>5, <2>1, FS_Injection
<1>8. ASSUME NEW k \in 1..K PROVE Nth(S, k) \in S /\ Cardinality(upto(Nth(S, k))) = k
  <2>1. \E n \in S : Cardinality({m \in S : m <= n}) = k
    BY <1>7 DEF Surjection
  <2> QED BY <2>1, Zenon DEF Nth
<1>9. \A k, l \in 1..K : k < l => Nth(S, k) < Nth(S, l)
  <2> SUFFICES ASSUME NEW k \in 1..K, NEW l \in 1..K, k < l, ~ (Nth(S, k) < Nth(S, l)) PROVE FALSE
    OBVIOUS
  <2>1. Nth(S, k) \in S /\ Nth(S, l) \in S
    BY <1>8
  <2>2. Nth(S, l) = Nth(S, k) \/ Nth(S, l) < Nth(S, k)
    BY <1>0, <2>1
  <2>3. CASE Nth(S, l) = Nth(S, k)
    <3>1. k = l
      BY <1>8, <2>3, Zenon
    <3> QED BY <3>1
  <2>4. CASE Nth(S, l) < Nth(S, k)
    <3>1. Cardinality(upto(Nth(S, l))) < Cardinality(upto(Nth(S, k)))
      BY <1>4, <2>1, <2>4
    <3>2. l < k
      BY <1>8, <3>1
    <3> QED BY <3>2
  <2> QED BY <2>2, <2>3, <2>4
<1>10. ASSUME NEW n \in S PROVE \E k \in 1..K : n = Nth(S, k)
  <2>1. rank[n] \in 1..K /\ rank[n] = Cardinality(upto(n))
    BY <1>3
  <2>2. PICK k : k = rank[n]
    OBVIOUS
  <2>3. Nth(S, k) \in S /\ rank[Nth(S, k)] = rank[n] /\ k \in 1..K
    BY <1>8, <2>1, <2>2
  <2>4. Nth(S, k) = n
    <3> HIDE DEF rank
    <3> QED BY <1>6, <2>3
  <2> QED BY <2>3, <2>4
<1>11. Ranked(S)
  <2>1. \A k \in 1..K : Rank(S, Nth(S, k)) = k
    BY <1>8 DEF Rank
  <2>2. ASSUME NEW n \in S PROVE Nth(S, Rank(S, n)) = n
    <3>1. rank[n] \in 1..K /\ rank[n] = Rank(S, n)
      BY <1>3 DEF Rank
    <3>2. Nth(S, rank[n]) \in S /\ rank[Nth(S, rank[n])] = rank[n]
      <4>1. Nth(S, rank[n]) \in S /\ Cardinality(upto(Nth(S, rank[n]))) = rank[n]
        <5> HIDE DEF rank
        <5> QED BY <1>8, <3>1
      <4> QED BY <4>1
    <3> HIDE DEF rank
    <3> QED BY <1>6, <3>1, <3>2
  <2> QED BY <2>1, <2>2 DEF Ranked
<1> QED BY <1>1, <1>8, <1>9, <1>10, <1>11 DEF Enumerates

IsPicked(t, s, places) ==
    /\ \A k \in DOMAIN t : \E i \in places : t[k] = s[i]
    /\ \A i \in places : \E k \in DOMAIN t : t[k] = s[i]

(* The picked elements are those at the places, and make a sequence. *)
LEMMA PickedIs ==
    ASSUME NEW W, NEW s \in Seq(W), NEW places, places \subseteq DOMAIN s
    PROVE  /\ Picked(s, places) \in Seq(W)
           /\ IsPicked(Picked(s, places), s, places)
           /\ IsFiniteSet(places) /\ Len(Picked(s, places)) = Cardinality(places)
<1>1. DOMAIN s = 1..Len(s) /\ Len(s) \in Nat
  OBVIOUS
<1>2. places \subseteq Int /\ IsFiniteSet(places)
  <2>1. IsFiniteSet(1..Len(s))
    BY <1>1, FS_Interval
  <2> QED BY <1>1, <2>1, FS_Subset
<1>3. Enumerates(places) /\ Cardinality(places) \in Nat
  BY <1>2, NthEnumerates
<1> DEFINE K == Cardinality(places)
<1>4. \A k \in 1..K : Nth(places, k) \in places /\ s[Nth(places, k)] \in W
  BY <1>3 DEF Enumerates
<1>5. Picked(s, places) = [k \in 1..K |-> s[Nth(places, k)]]
  BY DEF Picked
<1>6. Picked(s, places) \in Seq(W) /\ Len(Picked(s, places)) = K
  <2> HIDE DEF K
  <2>1. K \in Nat
    BY <1>3 DEF K
  <2> QED BY <1>4, <1>5, <2>1
<1>7. IsPicked(Picked(s, places), s, places)
  <2> HIDE DEF K
  <2>1. DOMAIN Picked(s, places) = 1..K /\ \A k \in 1..K : Picked(s, places)[k] = s[Nth(places, k)]
    BY <1>5
  <2>2. \A i \in places : \E k \in 1..K : i = Nth(places, k)
    BY <1>3 DEF Enumerates, K
  <2> QED BY <1>4, <2>1, <2>2 DEF IsPicked
<1> QED BY <1>2, <1>6, <1>7

(* The greatest of a finite set of numbers is one of them. *)
LEMMA MaxIs ==
    ASSUME NEW S, S \subseteq Nat, IsFiniteSet(S), S # {}
    PROVE  Max(S) \in S /\ \A n \in S : n <= Max(S)
<1> DEFINE K == Cardinality(S)
<1>1. Enumerates(S) /\ K \in Nat /\ K # 0
  <2>1. S \subseteq Int
    OBVIOUS
  <2>2. K # 0
    BY FS_EmptySet
  <2> QED BY <2>1, <2>2, NthEnumerates
<1>2. K \in 1..K /\ \A k \in 1..K : k = K \/ k < K
  BY <1>1
<1>3. Nth(S, K) \in S
  BY <1>1, <1>2 DEF Enumerates
<1>4. \A n \in S : Nth(S, K) >= n
  <2> SUFFICES ASSUME NEW n \in S PROVE Nth(S, K) >= n
    OBVIOUS
  <2>1. PICK k \in 1..K : n = Nth(S, k)
    BY <1>1 DEF Enumerates
  <2>2. n = Nth(S, K) \/ n < Nth(S, K)
    BY <1>1, <1>2, <2>1 DEF Enumerates
  <2>3. n \in Nat /\ Nth(S, K) \in Nat
    BY <1>3
  <2> QED BY <2>2, <2>3
<1>5. Max(S) \in S /\ \A n \in S : Max(S) >= n
  BY <1>3, <1>4, Zenon DEF Max
<1> QED BY <1>5

-----------------------------------------------------------------------------
(* The two forms of a graph. *)

NodeType == [id : Nat, what : Whats]
LinkType == [src : Nat, tgt : Nat, skind : PortKinds, tkind : PortKinds, tp : Nat]
PortType == [owner : Nat, out : BOOLEAN, kind : PortKinds, peer : Nat]
DrawingType == [nodes : Seq(NodeType), links : Seq(LinkType)]
EndType == [kind : PortKinds, peer : Nat]

(* The ports of a node are port rows. *)
LEMMA PortsOfType ==
    ASSUME NEW rows \in Seq(PortType), NEW id, NEW isOut
    PROVE  /\ PortsOf(rows, id, isOut) \in Seq(PortType)
           /\ \A k \in DOMAIN PortsOf(rows, id, isOut) :
                  PortsOf(rows, id, isOut)[k].owner = id /\ PortsOf(rows, id, isOut)[k].out = isOut
<1> DEFINE places == {i \in DOMAIN rows : rows[i].owner = id /\ rows[i].out = isOut}
<1>1. PortsOf(rows, id, isOut) = Picked(rows, places)
  BY DEF PortsOf
<1>2. Picked(rows, places) \in Seq(PortType) /\ IsPicked(Picked(rows, places), rows, places)
  <2>1. places \subseteq DOMAIN rows
    OBVIOUS
  <2> HIDE DEF places
  <2> QED BY <2>1, PickedIs
<1>3. \A k \in DOMAIN Picked(rows, places) :
         Picked(rows, places)[k].owner = id /\ Picked(rows, places)[k].out = isOut
  <2>1. \A i \in places : rows[i].owner = id /\ rows[i].out = isOut
    OBVIOUS
  <2> HIDE DEF places
  <2> QED BY <1>2, <2>1 DEF IsPicked
<1> QED BY <1>1, <1>2, <1>3

(* The ports a drawing gives a node. *)
LEMMA EndsType ==
    ASSUME NEW drawing \in DrawingType, NEW id
    PROVE  OutputsOf(drawing, id) \in Seq(EndType) /\ InputsOf(drawing, id) \in Seq(EndType)
<1> DEFINE links == drawing.links
           outs == {i \in DOMAIN links : links[i].src = id}
           ins == {i \in DOMAIN links : links[i].tgt = id}
<1>1. links \in Seq(LinkType)
  BY DEF DrawingType
<1>2. ASSUME NEW own \in Seq(LinkType)
      PROVE  /\ [i \in DOMAIN own |-> OutputOf(own[i])] \in Seq(EndType)
             /\ [i \in DOMAIN own |-> InputOf(own[i])] \in Seq(EndType)
  <2>0. \A link \in LinkType : OutputOf(link) \in EndType /\ InputOf(link) \in EndType
    BY DEF OutputOf, InputOf, EndType, LinkType
  <2>1. \A i \in DOMAIN own : OutputOf(own[i]) \in EndType /\ InputOf(own[i]) \in EndType
    <3>1. \A i \in DOMAIN own : own[i] \in LinkType
      OBVIOUS
    <3> QED BY <2>0, <3>1
  <2>2. DOMAIN own = 1..Len(own) /\ Len(own) \in Nat
    OBVIOUS
  <2> QED BY <2>1, <2>2
<1>3. Picked(links, outs) \in Seq(LinkType) /\ Picked(links, ins) \in Seq(LinkType)
  <2>1. outs \subseteq DOMAIN links /\ ins \subseteq DOMAIN links
    OBVIOUS
  <2> HIDE DEF outs, ins, links
  <2> QED BY <1>1, <2>1, PickedIs
<1>4. /\ OutputsOf(drawing, id) = [i \in DOMAIN Picked(links, outs) |-> OutputOf(Picked(links, outs)[i])]
      /\ InputsOf(drawing, id) = [i \in DOMAIN Picked(links, ins) |-> InputOf(Picked(links, ins)[i])]
  BY DEF OutputsOf, InputsOf
<1> HIDE DEF outs, ins, links
<1> QED BY <1>2, <1>3, <1>4

(* The port rows of a drawing belong to its nodes, whatever numbers its ids are *)
(* mapped to.                                                                   *)
LEMMA PortRowsType ==
    ASSUME NEW drawing \in DrawingType, NEW idMap, \A id \in DOMAIN idMap : idMap[id] \in Nat
    PROVE  LET rows == PortRows(drawing, idMap)
           IN /\ rows \in Seq(PortType)
              /\ \A k \in DOMAIN rows :
                    \E i \in DOMAIN drawing.nodes : rows[k].owner = Resolve(idMap, drawing.nodes[i].id)
<1> DEFINE RowsFor(id) ==
               LET outs == OutputsOf(drawing, id)
                   ins  == InputsOf(drawing, id)
               IN [i \in DOMAIN outs |-> PortRow(idMap, id, TRUE, outs[i])] \o
                  [i \in DOMAIN ins |-> PortRow(idMap, id, FALSE, ins[i])]
           nodes == drawing.nodes
           all == [i \in DOMAIN nodes |-> RowsFor(nodes[i].id)]
           Of(row) == \E i \in DOMAIN nodes : row.owner = Resolve(idMap, nodes[i].id)
           W == {row \in PortType : Of(row)}
<1>1. nodes \in Seq(NodeType) /\ \A i \in DOMAIN nodes : nodes[i].id \in Nat
  <2> HIDE DEF nodes
  <2>1. nodes \in Seq(NodeType)
    BY DEF DrawingType, nodes
  <2>2. \A i \in DOMAIN nodes : nodes[i] \in NodeType
    BY <2>1
  <2> QED BY <2>1, <2>2 DEF NodeType
<1>2. \A id \in Nat : Resolve(idMap, id) \in Nat
  BY DEF Resolve
<1>3. ASSUME NEW n \in DOMAIN nodes PROVE RowsFor(nodes[n].id) \in Seq(W)
  <2> DEFINE id == nodes[n].id
  <2>1. ASSUME NEW ends \in Seq(EndType), NEW isOut \in BOOLEAN
        PROVE  [i \in DOMAIN ends |-> PortRow(idMap, id, isOut, ends[i])] \in Seq(W)
    <3>0. \A end \in EndType : PortRow(idMap, id, isOut, end) \in W
      <4>1. id \in Nat
        BY <1>1
      <4>2. \A end \in EndType : PortRow(idMap, id, isOut, end) \in PortType
        <5> HIDE DEF id
        <5> QED BY <1>2, <4>1 DEF PortRow, PortType, EndType
      <4>3. \A end \in EndType : PortRow(idMap, id, isOut, end).owner = Resolve(idMap, id)
        BY DEF PortRow
      <4> HIDE DEF nodes
      <4> QED BY <4>2, <4>3
    <3>1. \A i \in DOMAIN ends : PortRow(idMap, id, isOut, ends[i]) \in W
      <4>1. \A i \in DOMAIN ends : ends[i] \in EndType
        OBVIOUS
      <4> HIDE DEF W, id
      <4> QED BY <3>0, <4>1
    <3>2. DOMAIN ends = 1..Len(ends) /\ Len(ends) \in Nat
      OBVIOUS
    <3> HIDE DEF W, id
    <3> QED BY <3>1, <3>2
  <2> HIDE DEF id
  <2>2. OutputsOf(drawing, id) \in Seq(EndType) /\ InputsOf(drawing, id) \in Seq(EndType)
    BY EndsType
  <2>3. /\ [i \in DOMAIN OutputsOf(drawing, id) |-> PortRow(idMap, id, TRUE, OutputsOf(drawing, id)[i])]
              \in Seq(W)
        /\ [i \in DOMAIN InputsOf(drawing, id) |-> PortRow(idMap, id, FALSE, InputsOf(drawing, id)[i])]
              \in Seq(W)
    <3> HIDE DEF W
    <3> QED BY <2>1, <2>2
  <2>4. RowsFor(id) \in Seq(W)
    <3> HIDE DEF W
    <3> QED BY <2>3, ConcatType
  <2> QED BY <2>4 DEF id
<1>4. all \in Seq(Seq(W))
  <2> HIDE DEF RowsFor, W
  <2>1. \A i \in DOMAIN nodes : RowsFor(nodes[i].id) \in Seq(W)
    BY <1>3
  <2>2. DOMAIN nodes = 1..Len(nodes) /\ Len(nodes) \in Nat
    BY <1>1
  <2> QED BY <2>1, <2>2
<1>5. PortRows(drawing, idMap) = FlattenSeq(all)
  BY DEF PortRows
<1>6. PortRows(drawing, idMap) \in Seq(W)
  <2> HIDE DEF all, W
  <2> QED BY <1>4, <1>5, FlattenType
<1>7. PICK rows : rows = PortRows(drawing, idMap)
  OBVIOUS
<1>8. \A k \in DOMAIN rows : rows[k] \in W
  <2> HIDE DEF W
  <2> QED BY <1>6, <1>7
<1>9. rows \in Seq(PortType)
  <2>1. DOMAIN rows = 1..Len(rows) /\ Len(rows) \in Nat /\ rows = [k \in DOMAIN rows |-> rows[k]]
    <3> HIDE DEF W
    <3> QED BY <1>6, <1>7
  <2>2. \A k \in DOMAIN rows : rows[k] \in PortType
    BY <1>8
  <2> HIDE DEF W
  <2> QED BY <2>1, <2>2
<1>10. \A k \in DOMAIN rows : Of(rows[k])
  BY <1>8
<1> QED BY <1>7, <1>9, <1>10

(* The index of the port a link leads to. *)
LEMMA TargetPortType ==
    ASSUME NEW nodes, NEW rows \in Seq(PortType), NEW port
    PROVE  TargetPort(nodes, rows, port) \in Nat
<1> DEFINE ins == IF port.peer \in NodeIdsOf(nodes)
                  THEN PortsOf(rows, port.peer, FALSE) ELSE <<>>
           hits == {i \in DOMAIN ins : ins[i].peer = port.owner /\ ins[i].kind = port.kind}
           first == CHOOSE i \in hits : \A k \in hits : i <= k
           before == {i \in 1..(first - 1) : ins[i].kind = port.kind}
<1>1. TargetPort(nodes, rows, port) = IF hits = {} THEN 0 ELSE Cardinality(before)
  BY DEF TargetPort
<1>2. CASE hits # {}
  <2>1. ins \in Seq(PortType)
    <3>1. PortsOf(rows, port.peer, FALSE) \in Seq(PortType)
      BY PortsOfType
    <3>2. << >> \in Seq(PortType)
      OBVIOUS
    <3> QED BY <3>1, <3>2
  <2>2. hits \subseteq Nat
    <3> HIDE DEF ins
    <3> QED BY <2>1
  <2>3. \E i \in hits : \A k \in hits : i <= k
    <3> HIDE DEF hits
    <3> QED BY <1>2, <2>2, LeastNatural
  <2>4. first \in Nat
    <3> HIDE DEF hits
    <3>1. first \in hits
      BY <2>3, Zenon
    <3> QED BY <2>2, <3>1
  <2>5. IsFiniteSet(1..(first - 1)) /\ before \in SUBSET (1..(first - 1))
    <3> HIDE DEF first, ins
    <3> QED BY <2>4, FS_Interval
  <2>6. Cardinality(before) \in Nat
    <3> HIDE DEF before, first
    <3> QED BY <2>5, FS_Subset, FS_CardinalityType
  <2> HIDE DEF hits, before
  <2> QED BY <1>1, <1>2, <2>6
<1> HIDE DEF hits, before
<1> QED BY <1>1, <1>2

(* The links of loaded nodes and ports. *)
LEMMA LinksOfType ==
    ASSUME NEW nodes \in Seq(NodeType), NEW rows \in Seq(PortType)
    PROVE  LinksOf(nodes, rows) \in Seq(LinkType)
<1> DEFINE LinkOf(p) == [src |-> p.owner, tgt |-> p.peer, skind |-> p.kind,
                         tkind |-> p.kind, tp |-> TargetPort(nodes, rows, p)]
           Of(id) == LET outs == PortsOf(rows, id, TRUE)
                     IN [i \in DOMAIN outs |-> LinkOf(outs[i])]
           all == [i \in DOMAIN nodes |-> Of(nodes[i].id)]
<1>1. \A p \in PortType : LinkOf(p) \in LinkType
  <2>1. \A p \in PortType : TargetPort(nodes, rows, p) \in Nat
    BY TargetPortType
  <2> QED BY <2>1 DEF PortType, LinkType
<1>2. ASSUME NEW id PROVE Of(id) \in Seq(LinkType)
  <2> HIDE DEF LinkOf
  <2>1. PICK outs \in Seq(PortType) : outs = PortsOf(rows, id, TRUE)
    BY PortsOfType
  <2>2. Of(id) = [i \in DOMAIN outs |-> LinkOf(outs[i])]
    BY <2>1
  <2>3. DOMAIN outs = 1..Len(outs) /\ Len(outs) \in Nat /\ \A i \in DOMAIN outs : outs[i] \in PortType
    OBVIOUS
  <2>4. \A i \in DOMAIN outs : LinkOf(outs[i]) \in LinkType
    BY <1>1, <2>3
  <2>5. Of(id) \in [1..Len(outs) -> LinkType]
    BY <2>2, <2>3, <2>4
  <2> HIDE DEF Of
  <2> QED BY <2>3, <2>5
<1>3. all \in Seq(Seq(LinkType))
  <2> HIDE DEF Of
  <2>1. DOMAIN nodes = 1..Len(nodes) /\ Len(nodes) \in Nat
    OBVIOUS
  <2> QED BY <1>2, <2>1
<1>4. LinksOf(nodes, rows) = FlattenSeq(all)
  BY DEF LinksOf
<1> HIDE DEF all
<1> QED BY <1>3, <1>4, FlattenType

(* The ids of nodes are finitely many numbers. *)
LEMMA NodeIdsType ==
    ASSUME NEW nodes \in Seq(NodeType)
    PROVE  /\ NodeIdsOf(nodes) \subseteq Nat /\ IsFiniteSet(NodeIdsOf(nodes))
           /\ nodes # <<>> => NodeIdsOf(nodes) # {}
<1> DEFINE f == [i \in DOMAIN nodes |-> nodes[i].id]
<1>1. DOMAIN nodes = 1..Len(nodes) /\ Len(nodes) \in Nat /\ IsFiniteSet(1..Len(nodes))
  BY FS_Interval
<1>2. NodeIdsOf(nodes) = {nodes[i].id : i \in DOMAIN nodes}
  BY DEF NodeIdsOf
<1>3. f \in Surjection(DOMAIN nodes, NodeIdsOf(nodes))
  BY <1>2 DEF Surjection
<1>4. IsFiniteSet(NodeIdsOf(nodes))
  <2> HIDE DEF f
  <2> QED BY <1>1, <1>3, FS_Surjection
<1>5. NodeIdsOf(nodes) \subseteq Nat
  <2>1. \A i \in DOMAIN nodes : nodes[i] \in NodeType
    OBVIOUS
  <2> QED BY <1>2, <2>1 DEF NodeType
<1>6. nodes # <<>> => NodeIdsOf(nodes) # {}
  BY <1>1, <1>2
<1> QED BY <1>4, <1>5, <1>6

-----------------------------------------------------------------------------
(* What has which shape. *)

Ops == {"idle", "open", "execute", "ins", "outs", "planned", "save", "saving", "listed",
        "relist", "patch", "contact", "delete", "deleting", "share"}

CallType == [op : Ops, job : Nat, drawing : DrawingType, seen : SUBSET Nat,
             ports : Seq(PortType), behind : BOOLEAN, clean : BOOLEAN]
EditorType == [job : Nat, nodes : Seq(NodeType), links : Seq(LinkType), next : Nat, clean : BOOLEAN]
SharesType(jobs) == [job : jobs, user : Users, role : {"editor", "viewer"}]

CallSound(c, last) ==
    /\ c \in CallType
    /\ c.job <= last.job /\ c.seen \subseteq 1..last.node
    /\ c.op # "idle" => c.job # 0

EditorSound(e, last) == e \in EditorType /\ e.job <= last.job

TablesType ==
    /\ serial \in [job : Nat, node : Nat]
    /\ DOMAIN job \subseteq 1..serial.job
    /\ DOMAIN node \subseteq 1..serial.node
    /\ \A id \in DOMAIN node : node[id] \in [job : Nat, what : Whats]
    /\ access \subseteq SharesType(1..serial.job)
    /\ contacts \subseteq [job : 1..serial.job, user : Users]
    /\ ports \in Seq(PortType)

CallsType == DOMAIN call = Callers /\ \A p \in Callers : CallSound(call[p], serial)
EditorsType == DOMAIN editor = Users /\ \A u \in Users : EditorSound(editor[u], serial)

TypeInv == TablesType /\ CallsType /\ EditorsType

Later(last, next) == next \in [job : Nat, node : Nat] /\ last.job <= next.job /\ last.node <= next.node

(* What is sound stays so as ids are given out. *)
LEMMA SoundLater ==
    ASSUME NEW last \in [job : Nat, node : Nat], NEW next, Later(last, next)
    PROVE  /\ \A c : CallSound(c, last) => CallSound(c, next)
           /\ \A e : EditorSound(e, last) => EditorSound(e, next)
<1>0. last.job \in Nat /\ last.node \in Nat /\ next.job \in Nat /\ next.node \in Nat
  BY DEF Later
<1>1. 1..last.node \subseteq 1..next.node
  BY <1>0 DEF Later
<1>2. ASSUME NEW c, CallSound(c, last) PROVE CallSound(c, next)
  <2>1. c.job \in Nat /\ c.job <= next.job
    BY <1>0, <1>2 DEF CallSound, CallType, Later
  <2> QED BY <1>1, <1>2, <2>1 DEF CallSound
<1>3. ASSUME NEW e, EditorSound(e, last) PROVE EditorSound(e, next)
  BY <1>0, <1>3 DEF EditorSound, EditorType, Later
<1> QED BY <1>2, <1>3

(* A caller that is doing nothing. *)
LEMMA IdleSound ==
    ASSUME NEW last \in [job : Nat, node : Nat]
    PROVE  CallSound(Idle, last) /\ Idle.op = "idle"
<1>1. Blank \in DrawingType
  <2>1. <<>> \in Seq(NodeType) /\ <<>> \in Seq(LinkType)
    OBVIOUS
  <2> QED BY <2>1 DEF Blank, DrawingType
<1>2. Idle \in CallType
  <2>1. <<>> \in Seq(PortType) /\ {} \in SUBSET Nat
    OBVIOUS
  <2>2. "idle" \in Ops
    BY DEF Ops
  <2> QED BY <1>1, <2>1, <2>2 DEF Idle, CallType
<1>3. Idle.job = 0 /\ Idle.seen = {} /\ Idle.op = "idle"
  BY DEF Idle
<1>4. 0 <= last.job
  OBVIOUS
<1> QED BY <1>2, <1>3, <1>4 DEF CallSound

(* One of the callers moves. *)
LEMMA CallsMove ==
    ASSUME TypeInv, Later(serial, serial'), NEW p \in Callers, NEW c, CallSound(c, serial'),
           call' = [call EXCEPT ![p] = c]
    PROVE  CallsType'
<1>1. serial \in [job : Nat, node : Nat]
  BY DEF TypeInv, TablesType
<1>2. \A q \in Callers : CallSound(call[q], serial')
  <2>1. \A d : CallSound(d, serial) => CallSound(d, serial')
    BY <1>1, SoundLater
  <2> QED BY <2>1 DEF TypeInv, CallsType
<1>3. DOMAIN call' = Callers /\ \A q \in Callers : call'[q] = IF q = p THEN c ELSE call[q]
  BY DEF TypeInv, CallsType
<1> QED BY <1>2, <1>3 DEF CallsType

(* One of the callers returns. *)
LEMMA CallsReturn ==
    ASSUME TypeInv, Later(serial, serial'), NEW p \in Callers, Return(p)
    PROVE  CallsType'
<1>1. CallSound(Idle, serial')
  BY IdleSound DEF Later
<1> QED BY <1>1, CallsMove DEF Return

(* The editors are left alone, or one of them changes. *)
LEMMA EditorsMove ==
    ASSUME TypeInv, Later(serial, serial'),
           \/ editor' = editor
           \/ \E u \in Users : \E e :
                 EditorSound(e, serial') /\ editor' = [editor EXCEPT ![u] = e]
    PROVE  EditorsType'
<1>1. serial \in [job : Nat, node : Nat]
  BY DEF TypeInv, TablesType
<1>2. \A v \in Users : EditorSound(editor[v], serial')
  <2>1. \A e : EditorSound(e, serial) => EditorSound(e, serial')
    BY <1>1, SoundLater
  <2> QED BY <2>1 DEF TypeInv, EditorsType
<1>3. CASE editor' = editor
  BY <1>2, <1>3 DEF TypeInv, EditorsType
<1>4. ASSUME NEW u \in Users, NEW e, EditorSound(e, serial'), editor' = [editor EXCEPT ![u] = e]
      PROVE  EditorsType'
  <2>1. DOMAIN editor' = Users /\ \A v \in Users : editor'[v] = IF v = u THEN e ELSE editor[v]
    BY <1>4 DEF TypeInv, EditorsType
  <2> QED BY <1>2, <1>4, <2>1 DEF EditorsType
<1> QED BY <1>3, <1>4

(* Nothing is written. *)
LEMMA TablesSame ==
    ASSUME TypeInv, UNCHANGED tables
    PROVE  TablesType' /\ Later(serial, serial')
<1>1. UNCHANGED <<job, access, contacts, node, ports, serial>>
  BY DEF tables
<1> QED BY <1>1 DEF TypeInv, TablesType, Later

(* A caller moves and nothing else. *)
LEMMA OnlyCall ==
    ASSUME TypeInv, UNCHANGED <<tables, editor>>, NEW p \in Callers, NEW c, CallSound(c, serial),
           call' = [call EXCEPT ![p] = c]
    PROVE  TypeInv'
<1>1. TablesType' /\ Later(serial, serial') /\ serial' = serial
  BY TablesSame DEF tables
<1>2. CallsType'
  BY <1>1, CallsMove
<1>3. EditorsType'
  BY <1>1, EditorsMove
<1> QED BY <1>1, <1>2, <1>3 DEF TypeInv

(* A caller returns and nothing else happens. *)
LEMMA OnlyReturn ==
    ASSUME TypeInv, UNCHANGED <<tables, editor>>, NEW p \in Callers, Return(p)
    PROVE  TypeInv'
<1>1. CallSound(Idle, serial)
  BY IdleSound DEF TypeInv, TablesType
<1> QED BY <1>1, OnlyCall DEF Return

(* Overtaking changes flags only. *)
LEMMA OvertakeType ==
    ASSUME TypeInv, Later(serial, serial'), NEW u \in Users, NEW j, Overtake(u, j)
    PROVE  CallsType' /\ EditorsType'
<1>0. serial \in [job : Nat, node : Nat] /\ serial' \in [job : Nat, node : Nat]
  BY DEF TypeInv, TablesType, Later
<1>1. /\ \A c : CallSound(c, serial) => CallSound(c, serial')
      /\ \A e : EditorSound(e, serial) => EditorSound(e, serial')
  BY <1>0, SoundLater
<1>2. \A c : CallSound(c, serial) => CallSound([c EXCEPT !.behind = TRUE, !.clean = FALSE], serial)
  BY DEF CallSound, CallType
<1>3. \A e : EditorSound(e, serial) => EditorSound([e EXCEPT !.clean = FALSE], serial)
  BY DEF EditorSound, EditorType
<1>4. CallSound(Idle, serial)
  BY <1>0, IdleSound
<1>5. CallsType'
  <2>1. DOMAIN call' = Callers
    BY DEF Overtake
  <2>2. \A p \in Callers : call'[p] \in {Idle, [call[p] EXCEPT !.behind = TRUE, !.clean = FALSE], call[p]}
    <3> SUFFICES ASSUME NEW p \in Callers
                 PROVE  call'[p] \in {Idle, [call[p] EXCEPT !.behind = TRUE, !.clean = FALSE], call[p]}
      OBVIOUS
    <3>1. call'[p] = IF p = u THEN Idle
                     ELSE IF call[p].job = j THEN [call[p] EXCEPT !.behind = TRUE, !.clean = FALSE]
                     ELSE call[p]
      BY DEF Overtake
    <3> QED BY <3>1
  <2>3. \A p \in Callers : CallSound(call[p], serial)
    BY DEF TypeInv, CallsType
  <2> QED BY <1>1, <1>2, <1>4, <2>1, <2>2, <2>3 DEF CallsType
<1>6. EditorsType'
  <2>1. /\ DOMAIN editor' = Users
        /\ \A v \in Users : editor'[v] \in {[editor[v] EXCEPT !.clean = FALSE], editor[v]}
    BY DEF Overtake
  <2>2. \A v \in Users : EditorSound(editor[v], serial)
    BY DEF TypeInv, EditorsType
  <2> QED BY <1>1, <1>3, <2>1, <2>2 DEF EditorsType
<1> QED BY <1>5, <1>6

-----------------------------------------------------------------------------
(* What the statements read and write. *)

(* The rows of a job are nodes, under the ids of the table. *)
LEMMA RowsOfType ==
    ASSUME TablesType, NEW j
    PROVE  /\ RowsOf(j) \in Seq(NodeType)
           /\ NodesOf(j) # {} => RowsOf(j) # <<>>
<1> DEFINE S == NodesOf(j)
           K == Cardinality(S)
<1>1. S \subseteq Int /\ IsFiniteSet(S) /\ S \subseteq DOMAIN node /\ S \subseteq Nat
  <2>1. serial.node \in Nat
    BY DEF TablesType
  <2>2. IsFiniteSet(1..serial.node) /\ S \subseteq 1..serial.node /\ S \subseteq DOMAIN node
    BY <2>1, FS_Interval DEF NodesOf, TablesType
  <2> QED BY <2>1, <2>2, FS_Subset
<1>2. Enumerates(S) /\ K \in Nat
  BY <1>1, NthEnumerates
<1>3. \A k \in 1..K : Nth(S, k) \in Nat /\ node[Nth(S, k)].what \in Whats
  BY <1>1, <1>2 DEF Enumerates, TablesType
<1>4. RowsOf(j) = [k \in 1..K |-> [id |-> Nth(S, k), what |-> node[Nth(S, k)].what]]
  BY DEF RowsOf, Ascending
<1>5. RowsOf(j) \in [1..K -> NodeType] /\ DOMAIN RowsOf(j) = 1..K
  BY <1>3, <1>4 DEF NodeType
<1>6. RowsOf(j) \in Seq(NodeType)
  <2> HIDE DEF K
  <2> QED BY <1>2, <1>5
<1>7. S # {} => RowsOf(j) # <<>>
  <2>1. S # {} => K # 0
    BY <1>1, FS_EmptySet
  <2> HIDE DEF K, S
  <2> QED BY <1>2, <1>5, <2>1
<1> QED BY <1>6, <1>7

(* The nodes a save has no row for yet, and the place of each of them. *)
LEMMA FreshIs ==
    ASSUME NEW c \in CallType
    PROVE  /\ Fresh(c) \in Seq(NodeType)
           /\ \A id \in NodeIdsOf(c.drawing.nodes) \ Kept(c) :
                  \E i \in DOMAIN Fresh(c) : Fresh(c)[i].id = id
           /\ \A i \in DOMAIN Fresh(c) :
                  Fresh(c)[i].id \in NodeIdsOf(c.drawing.nodes) \ Kept(c)
<1> DEFINE nodes == c.drawing.nodes
           places == {i \in DOMAIN nodes : nodes[i].id \notin Kept(c)}
<1>1. nodes \in Seq(NodeType)
  BY DEF CallType, DrawingType
<1>2. Fresh(c) = Picked(nodes, places)
  BY DEF Fresh
<1>3. Picked(nodes, places) \in Seq(NodeType) /\ IsPicked(Picked(nodes, places), nodes, places)
  <2>1. places \subseteq DOMAIN nodes
    OBVIOUS
  <2> HIDE DEF nodes, places
  <2> QED BY <1>1, <2>1, PickedIs
<1>4. \A id \in NodeIdsOf(nodes) \ Kept(c) : \E i \in places : nodes[i].id = id
  BY DEF NodeIdsOf
<1>5. \A i \in places : nodes[i].id \in NodeIdsOf(nodes) \ Kept(c)
  BY DEF NodeIdsOf
<1> HIDE DEF places
<1> QED BY <1>2, <1>3, <1>4, <1>5 DEF IsPicked

(* The row ids of a payload: its own where they are kept, new ones elsewhere. *)
LEMMA IdMapIs ==
    ASSUME TypeInv, NEW c, CallSound(c, serial)
    PROVE  /\ DOMAIN IdMap(c) = NodeIdsOf(c.drawing.nodes)
           /\ \A id \in Kept(c) : IdMap(c)[id] = id /\ id \in 1..serial.node
           /\ \A id \in NodeIdsOf(c.drawing.nodes) \ Kept(c) :
                  IdMap(c)[id] \in (serial.node + 1)..(serial.node + Len(Fresh(c)))
<1> DEFINE fresh == Fresh(c)
           place(id) == CHOOSE i \in DOMAIN fresh : fresh[i].id = id
           ids == NodeIdsOf(c.drawing.nodes)
<1>1. c \in CallType /\ c.seen \subseteq 1..serial.node /\ serial.node \in Nat
  BY DEF CallSound, TypeInv, TablesType
<1>2. IdMap(c) = [id \in ids |-> IF id \in Kept(c) THEN id ELSE serial.node + place(id)]
  BY DEF IdMap
<1>3. Kept(c) \subseteq ids /\ Kept(c) \subseteq 1..serial.node
  BY <1>1 DEF Kept
<1>4. ASSUME NEW id \in ids \ Kept(c)
      PROVE  place(id) \in 1..Len(fresh)
  <2>1. \E i \in DOMAIN fresh : fresh[i].id = id
    BY <1>1, FreshIs
  <2>2. place(id) \in DOMAIN fresh
    BY <2>1, Zenon
  <2>3. DOMAIN fresh = 1..Len(fresh)
    BY <1>1, FreshIs
  <2> QED BY <2>2, <2>3
<1>5. Len(fresh) \in Nat
  BY <1>1, FreshIs
<1>6. \A id \in ids \ Kept(c) :
         serial.node + place(id) \in (serial.node + 1)..(serial.node + Len(fresh))
  <2> HIDE DEF place, fresh
  <2> QED BY <1>1, <1>4, <1>5
<1>7. \A id \in Kept(c) : IdMap(c)[id] = id /\ id \in 1..serial.node
  <2> HIDE DEF place, fresh
  <2> QED BY <1>2, <1>3
<1>8. \A id \in ids \ Kept(c) : IdMap(c)[id] = serial.node + place(id)
  <2> HIDE DEF place, fresh
  <2> QED BY <1>2
<1>9. \A id \in ids \ Kept(c) : IdMap(c)[id] \in (serial.node + 1)..(serial.node + Len(fresh))
  <2> HIDE DEF place
  <2> QED BY <1>6, <1>8
<1>10. DOMAIN IdMap(c) = ids
  BY <1>2
<1> HIDE DEF place
<1> QED BY <1>7, <1>9, <1>10

(* The node rows a save leaves. *)
LEMMA NodesAfterIs ==
    ASSUME TypeInv, NEW c, CallSound(c, serial)
    PROVE  /\ DOMAIN NodesAfter(c) \subseteq 1..(serial.node + Len(Fresh(c)))
           /\ DOMAIN node \ c.seen \subseteq DOMAIN NodesAfter(c)
           /\ \A id \in DOMAIN NodesAfter(c) :
                 /\ NodesAfter(c)[id] \in [job : Nat, what : Whats]
                 /\ \/ id \in DOMAIN node /\ NodesAfter(c)[id].job = node[id].job
                    \/ Fresh(c) # <<>> /\ NodesAfter(c)[id].job = c.job
<1> DEFINE final == IdMap(c)
           gone  == c.seen \ Kept(c)
           new   == {final[Fresh(c)[i].id] : i \in DOMAIN Fresh(c)}
           nodes == c.drawing.nodes
           spot(id) == CHOOSE i \in DOMAIN nodes : final[nodes[i].id] = id
           what(id) == nodes[spot(id)].what
           rows == (DOMAIN node \ gone) \cup new
<1>1. /\ c \in CallType /\ serial.node \in Nat /\ c.job \in Nat
      /\ nodes \in Seq(NodeType) /\ DOMAIN node \subseteq 1..serial.node
      /\ \A id \in DOMAIN node : node[id] \in [job : Nat, what : Whats]
  BY DEF CallSound, CallType, DrawingType, TypeInv, TablesType
<1>2. NodesAfter(c) = [id \in rows |->
           IF id \in Kept(c) THEN [node[id] EXCEPT !.what = what(id)]
           ELSE IF id \in new THEN [job |-> c.job, what |-> what(id)]
           ELSE node[id]]
  BY DEF NodesAfter
<1>3. Len(Fresh(c)) \in Nat /\ DOMAIN Fresh(c) = 1..Len(Fresh(c)) /\ Fresh(c) \in Seq(NodeType)
  BY <1>1, FreshIs
<1>4. \A n \in new : n \in (serial.node + 1)..(serial.node + Len(Fresh(c)))
  BY <1>1, IdMapIs, FreshIs
<1>5. \A id \in Kept(c) : id \notin new
  <2> HIDE DEF new
  <2>1. \A id \in Kept(c) : id \in 1..serial.node
    BY IdMapIs
  <2> QED BY <1>1, <1>3, <1>4, <2>1
<1>6. \A id \in Kept(c) \cup new : \E i \in DOMAIN nodes : final[nodes[i].id] = id
  <2>1. \A id \in NodeIdsOf(nodes) : \E i \in DOMAIN nodes : nodes[i].id = id
    BY DEF NodeIdsOf
  <2>2. \A id \in Kept(c) : id \in NodeIdsOf(nodes) /\ final[id] = id
    BY IdMapIs DEF Kept
  <2>3. \A n \in new : \E id \in NodeIdsOf(nodes) : final[id] = n
    BY <1>1, FreshIs
  <2> HIDE DEF new, final, nodes
  <2> QED BY <2>1, <2>2, <2>3
<1>7. \A id \in Kept(c) \cup new : what(id) \in Whats
  <2> SUFFICES ASSUME NEW id \in Kept(c) \cup new PROVE what(id) \in Whats
    OBVIOUS
  <2>1. \E i \in DOMAIN nodes : final[nodes[i].id] = id
    BY <1>6
  <2>2. spot(id) \in DOMAIN nodes
    BY <2>1, Zenon
  <2> HIDE DEF spot, nodes
  <2>3. nodes[spot(id)] \in NodeType
    BY <1>1, <2>2
  <2> QED BY <2>3 DEF NodeType
<1>8. rows \subseteq 1..(serial.node + Len(Fresh(c)))
  <2> HIDE DEF new
  <2> QED BY <1>1, <1>3, <1>4
<1>9. DOMAIN node \ c.seen \subseteq rows
  OBVIOUS
<1>10. new # {} => Fresh(c) # <<>>
  BY <1>3
<1>11. ASSUME NEW id \in rows
       PROVE  /\ NodesAfter(c)[id] \in [job : Nat, what : Whats]
              /\ \/ id \in DOMAIN node /\ NodesAfter(c)[id].job = node[id].job
                 \/ Fresh(c) # <<>> /\ NodesAfter(c)[id].job = c.job
  <2> HIDE DEF new, what
  <2>1. CASE id \in Kept(c)
    <3>1. id \in DOMAIN node
      BY <1>5, <2>1
    <3>2. NodesAfter(c)[id] = [node[id] EXCEPT !.what = what(id)]
      BY <1>2, <2>1
    <3> QED BY <1>1, <1>7, <2>1, <3>1, <3>2
  <2>2. CASE id \notin Kept(c) /\ id \in new
    <3>1. NodesAfter(c)[id] = [job |-> c.job, what |-> what(id)]
      BY <1>2, <2>2
    <3> QED BY <1>1, <1>7, <1>10, <2>2, <3>1
  <2>3. CASE id \notin Kept(c) /\ id \notin new
    <3>1. NodesAfter(c)[id] = node[id] /\ id \in DOMAIN node
      BY <1>2, <2>3
    <3> QED BY <1>1, <3>1
  <2> QED BY <2>1, <2>2, <2>3
<1>12. DOMAIN NodesAfter(c) = rows
  BY <1>2
<1> HIDE DEF rows
<1> QED BY <1>8, <1>9, <1>11, <1>12

(* The port rows a save leaves. *)
LEMMA PortsAfterIs ==
    ASSUME TypeInv, NEW c, CallSound(c, serial), Accepted(c)
    PROVE  /\ PortsAfter(c) \in Seq(PortType)
           /\ \A i \in DOMAIN PortsAfter(c) :
                 \/ \E k \in DOMAIN ports :
                       PortsAfter(c)[i].owner = ports[k].owner /\ ports[k].owner \notin c.seen
                 \/ PortsAfter(c)[i].owner \in DOMAIN NodesAfter(c)
<1> DEFINE places == {i \in DOMAIN ports : ports[i].owner \notin c.seen}
           rows == PortRows(c.drawing, IdMap(c))
           old == Picked(ports, places)
<1>1. ports \in Seq(PortType) /\ c \in CallType /\ c.drawing \in DrawingType
  BY DEF TypeInv, TablesType, CallSound, CallType
<1>2. old \in Seq(PortType) /\ IsPicked(old, ports, places)
  <2>1. places \subseteq DOMAIN ports
    OBVIOUS
  <2> HIDE DEF places
  <2> QED BY <1>1, <2>1, PickedIs
<1>3. rows \in Seq(PortType)
  <2>1. \A id \in DOMAIN IdMap(c) : IdMap(c)[id] \in Nat
    <3>1. serial.node \in Nat /\ Len(Fresh(c)) \in Nat
      BY <1>1, FreshIs DEF TypeInv, TablesType
    <3>2. \A id \in NodeIdsOf(c.drawing.nodes) : id \in Kept(c) \/ id \notin Kept(c)
      OBVIOUS
    <3>3. DOMAIN IdMap(c) = NodeIdsOf(c.drawing.nodes)
      BY IdMapIs
    <3>4. \A id \in Kept(c) : IdMap(c)[id] \in Nat
      BY <3>1, IdMapIs
    <3>5. \A id \in NodeIdsOf(c.drawing.nodes) \ Kept(c) : IdMap(c)[id] \in Nat
      BY <3>1, IdMapIs
    <3> QED BY <3>2, <3>3, <3>4, <3>5
  <2> QED BY <1>1, <2>1, PortRowsType
<1>4. \A i \in DOMAIN rows : rows[i].owner \in DOMAIN NodesAfter(c)
  BY DEF Accepted
<1>5. \A i \in DOMAIN old :
         \E k \in DOMAIN ports : old[i].owner = ports[k].owner /\ ports[k].owner \notin c.seen
  <2>1. \A k \in places : k \in DOMAIN ports /\ ports[k].owner \notin c.seen
    OBVIOUS
  <2> HIDE DEF places, old
  <2> QED BY <1>2, <2>1 DEF IsPicked
<1>6. PortsAfter(c) = old \o rows
  BY DEF PortsAfter
<1> HIDE DEF old, rows
<1>7. old \o rows \in Seq(PortType)
  BY <1>2, <1>3
<1>8. \A i \in DOMAIN (old \o rows) :
         \/ \E k \in DOMAIN old : (old \o rows)[i] = old[k]
         \/ \E k \in DOMAIN rows : (old \o rows)[i] = rows[k]
  BY <1>2, <1>3, ConcatElement
<1> QED BY <1>4, <1>5, <1>6, <1>7, <1>8

(* What is loaded from a job with nodes is an editor. *)
LEMMA LoadedType ==
    ASSUME NEW j \in Nat, NEW rows \in Seq(NodeType), rows # <<>>, NEW portRows \in Seq(PortType),
           NEW clean \in BOOLEAN
    PROVE  Loaded(j, rows, portRows, clean) \in EditorType
<1>1. Max(NodeIdsOf(rows)) \in Nat
  BY NodeIdsType, MaxIs
<1>2. LinksOf(rows, portRows) \in Seq(LinkType)
  BY LinksOfType
<1>3. Max(NodeIdsOf(rows)) + 1 \in Nat
  BY <1>1
<1> QED BY <1>2, <1>3 DEF Loaded, EditorType

(* Whoever passes the check asks for a job that is there. *)
LEMMA PassesIs ==
    ASSUME TypeInv, NEW u, NEW op \in {"open", "save", "patch", "contact", "delete", "share"},
           NEW j, Role(u, j) \in Needed(op)
    PROVE  j \in DOMAIN job /\ j \in 1..serial.job /\ j \in Nat
<1>1. "none" \notin Needed(op)
  BY DEF Needed
<1>2. j \in DOMAIN job
  BY <1>1 DEF Role
<1>3. serial.job \in Nat /\ DOMAIN job \subseteq 1..serial.job
  BY DEF TypeInv, TablesType
<1> QED BY <1>2, <1>3

(* The ports that are loaded. *)
LEMMA PreloadType ==
    ASSUME TypeInv, NEW p, NEW isOut
    PROVE  PreloadPorts(p, isOut) \in Seq(PortType)
<1> DEFINE ids == NodeIdsOf(call[p].drawing.nodes)
           places == {i \in DOMAIN ports : ports[i].owner \in ids /\ ports[i].out = isOut}
<1>1. PreloadPorts(p, isOut) = Picked(ports, places)
  BY DEF PreloadPorts
<1>2. ports \in Seq(PortType) /\ places \subseteq DOMAIN ports
  BY DEF TypeInv, TablesType
<1> HIDE DEF places
<1> QED BY <1>1, <1>2, PickedIs

-----------------------------------------------------------------------------
(* Every step keeps the shapes. *)

(* What is known of a caller. *)
LEMMA CallIs ==
    ASSUME TypeInv, NEW p \in Callers
    PROVE  /\ CallSound(call[p], serial) /\ call[p] \in CallType
           /\ serial \in [job : Nat, node : Nat]
           /\ call[p].op # "idle" => call[p].job \in 1..serial.job
<1>1. CallSound(call[p], serial) /\ serial \in [job : Nat, node : Nat]
  BY DEF TypeInv, CallsType, TablesType
<1>2. call[p] \in CallType /\ call[p].job \in Nat /\ call[p].job <= serial.job
  BY <1>1 DEF CallSound, CallType
<1>3. call[p].op # "idle" => call[p].job # 0
  BY <1>1 DEF CallSound
<1> QED BY <1>1, <1>2, <1>3

(* A request that begins. *)
LEMMA AskSound ==
    ASSUME NEW last \in [job : Nat, node : Nat], NEW op \in Ops, NEW j \in 1..last.job
    PROVE  CallSound([Idle EXCEPT !.op = op, !.job = j], last)
<1> DEFINE c == [Idle EXCEPT !.op = op, !.job = j]
<1>1. Idle \in CallType /\ Idle.seen \subseteq 1..last.node
  BY IdleSound DEF CallSound
<1>2. j \in Nat /\ j # 0 /\ j <= last.job
  OBVIOUS
<1>3. c \in CallType /\ c.job = j /\ c.seen = Idle.seen
  BY <1>1, <1>2 DEF CallType
<1>4. c.seen \subseteq 1..last.node
  <2> HIDE DEF c
  <2> QED BY <1>1, <1>3
<1>5. c.job <= last.job /\ c.job # 0
  <2> HIDE DEF c
  <2> QED BY <1>2, <1>3
<1>6. CallSound(c, last)
  <2> HIDE DEF c
  <2> QED BY <1>3, <1>4, <1>5 DEF CallSound
<1> QED BY <1>6

(* A request goes on to its next step. *)
LEMMA GoOn ==
    ASSUME NEW last, NEW c, CallSound(c, last), c.op # "idle",
           NEW d \in CallType, d.job = c.job, d.seen = c.seen
    PROVE  CallSound(d, last)
<1> QED BY DEF CallSound

(* An editor changes and keeps its job. *)
LEMMA EditorIs ==
    ASSUME TypeInv, NEW u \in Users
    PROVE  editor[u] \in EditorType /\ EditorSound(editor[u], serial) /\ editor[u].job <= serial.job
<1> QED BY DEF TypeInv, EditorsType, EditorSound

(* Nothing is written, and the requests and editors stay what they are. *)
LEMMA NoTables ==
    ASSUME TypeInv, UNCHANGED tables, CallsType', EditorsType'
    PROVE  TypeInv'
<1> QED BY TablesSame DEF TypeInv

(* Loading. *)
LEMMA OpenType ==
    ASSUME TypeInv, NEW u \in Users, NEW j, Open(u, j)
    PROVE  TypeInv'
<1>1. UNCHANGED tables /\ Later(serial, serial') /\ serial' = serial
  BY TablesSame DEF Open, tables
<1>2. j \in 1..serial.job /\ j \in Nat
  <2>1. Role(u, j) \in Needed("open")
    BY DEF Open, Passes
  <2> QED BY <2>1, PassesIs
<1>3. serial \in [job : Nat, node : Nat] /\ u \in Callers
  BY DEF TypeInv, TablesType, Callers
<1>4. CallsType'
  <2> DEFINE c == [Idle EXCEPT !.op = "open", !.job = j]
  <2>1. CallSound(c, serial')
    <3>1. "open" \in Ops
      BY DEF Ops
    <3> QED BY <1>1, <1>2, <1>3, <3>1, AskSound
  <2>2. call' = [call EXCEPT ![u] = c]
    BY DEF Open
  <2> HIDE DEF c
  <2> QED BY <1>1, <1>3, <2>1, <2>2, CallsMove
<1>5. EditorsType'
  <2> DEFINE e == [editor[u] EXCEPT !.job = j, !.clean = FALSE]
  <2>1. editor' = [editor EXCEPT ![u] = e]
    BY DEF Open
  <2>2. e \in EditorType /\ e.job = j
    BY <1>2, EditorIs DEF EditorType
  <2>3. EditorSound(e, serial')
    <3> HIDE DEF e
    <3> QED BY <1>1, <1>2, <1>3, <2>2 DEF EditorSound
  <2> HIDE DEF e
  <2> QED BY <1>1, <2>1, <2>3, EditorsMove
<1> QED BY <1>1, <1>4, <1>5, NoTables

(* Loading the graph of an execution begins. *)
LEMMA ExecuteType ==
    ASSUME TypeInv, NEW j \in DOMAIN job, Execute(j)
    PROVE  TypeInv'
<1> DEFINE c == [Idle EXCEPT !.op = "execute", !.job = j]
<1>1. serial \in [job : Nat, node : Nat] /\ j \in 1..serial.job /\ Runner \in Callers
  BY DEF TypeInv, TablesType, Callers
<1>2. CallSound(c, serial)
  <2>1. "execute" \in Ops
    BY DEF Ops
  <2> QED BY <1>1, <2>1, AskSound
<1>3. call' = [call EXCEPT ![Runner] = c] /\ UNCHANGED <<tables, editor>>
  BY DEF Execute
<1> HIDE DEF c
<1> QED BY <1>1, <1>2, <1>3, OnlyCall

(* The node rows are read. *)
LEMMA LoadNodesType ==
    ASSUME TypeInv, NEW p \in Callers, LoadNodes(p)
    PROVE  TypeInv'
<1> DEFINE rows == RowsOf(call[p].job)
           c == [call[p] EXCEPT !.op = "ins", !.behind = FALSE, !.drawing.nodes = rows]
<1>1. CallSound(call[p], serial) /\ call[p] \in CallType
  BY CallIs
<1>2. rows \in Seq(NodeType)
  BY RowsOfType DEF TypeInv
<1>3. call[p].op \in {"open", "execute"} /\ UNCHANGED <<tables, editor>>
  BY DEF LoadNodes
<1>4. call' = [call EXCEPT ![p] = c]
  BY DEF LoadNodes
<1>5. c \in CallType /\ c.job = call[p].job /\ c.seen = call[p].seen
  <2> HIDE DEF rows
  <2>1. [call[p].drawing EXCEPT !.nodes = rows] \in DrawingType
    BY <1>1, <1>2 DEF CallType, DrawingType
  <2>2. "ins" \in Ops
    BY DEF Ops
  <2> QED BY <1>1, <2>1, <2>2 DEF CallType
<1>6. CallSound(c, serial)
  <2> HIDE DEF c
  <2> QED BY <1>1, <1>3, <1>5, GoOn
<1> HIDE DEF c
<1> QED BY <1>3, <1>4, <1>6, OnlyCall

(* The input ports are read. *)
LEMMA LoadInsType ==
    ASSUME TypeInv, NEW p \in Callers, LoadIns(p)
    PROVE  TypeInv'
<1> DEFINE rows == PreloadPorts(p, FALSE)
           c == [call[p] EXCEPT !.op = "outs", !.ports = rows]
<1>1. CallSound(call[p], serial) /\ call[p] \in CallType
  BY CallIs
<1>2. rows \in Seq(PortType)
  BY PreloadType
<1>3. call[p].op = "ins" /\ UNCHANGED <<tables, editor>>
  BY DEF LoadIns
<1>4. call' = [call EXCEPT ![p] = c]
  BY DEF LoadIns
<1>5. c \in CallType /\ c.job = call[p].job /\ c.seen = call[p].seen
  <2> HIDE DEF rows
  <2>2. "outs" \in Ops
    BY DEF Ops
  <2> QED BY <1>1, <1>2, <2>2 DEF CallType
<1>6. CallSound(c, serial)
  <2> HIDE DEF c
  <2> QED BY <1>1, <1>3, <1>5, GoOn
<1> HIDE DEF c
<1> QED BY <1>3, <1>4, <1>6, OnlyCall

(* A request is given up. *)
LEMMA AbandonType ==
    ASSUME TypeInv, NEW p \in Callers, Abandon(p)
    PROVE  TypeInv'
<1> QED BY OnlyReturn DEF Abandon

(* The graph arrives in the editor. *)
LEMMA LoadOutsType ==
    ASSUME TypeInv, NEW u \in Users, LoadOuts(u)
    PROVE  TypeInv'
<1> DEFINE rows == call[u].drawing.nodes
           portRows == call[u].ports \o PreloadPorts(u, TRUE)
           e == Loaded(call[u].job, rows, portRows, ~call[u].behind)
<1>0. u \in Callers
  BY DEF Callers
<1>1. UNCHANGED tables /\ Later(serial, serial') /\ serial' = serial
  BY TablesSame DEF LoadOuts, tables
<1>2. CallsType'
  BY <1>0, <1>1, CallsReturn DEF LoadOuts
<1>3. /\ call[u] \in CallType /\ call[u].job \in Nat /\ call[u].job <= serial.job
      /\ rows \in Seq(NodeType) /\ portRows \in Seq(PortType) /\ call[u].behind \in BOOLEAN
  <2>1. call[u] \in CallType /\ CallSound(call[u], serial)
    BY <1>0, CallIs
  <2>2. call[u].ports \in Seq(PortType) /\ PreloadPorts(u, TRUE) \in Seq(PortType)
    BY <2>1, PreloadType DEF CallType
  <2>3. portRows \in Seq(PortType)
    BY <2>2, ConcatType
  <2> HIDE DEF portRows
  <2> QED BY <2>1, <2>3 DEF CallType, DrawingType, CallSound
<1>4. editor' = IF rows = <<>> THEN editor ELSE [editor EXCEPT ![u] = e]
  BY DEF LoadOuts
<1>5. rows # <<>> => EditorSound(e, serial')
  <2> SUFFICES ASSUME rows # <<>> PROVE EditorSound(e, serial')
    OBVIOUS
  <2> HIDE DEF rows, portRows
  <2>1. e \in EditorType
    BY <1>3, LoadedType
  <2>2. e.job = call[u].job
    BY DEF Loaded
  <2> HIDE DEF e
  <2> QED BY <1>1, <1>3, <2>1, <2>2 DEF EditorSound
<1>6. EditorsType'
  <2> HIDE DEF e, rows
  <2> QED BY <1>1, <1>4, <1>5, EditorsMove
<1> QED BY <1>1, <1>2, <1>6, NoTables

(* The graph of an execution arrives. *)
LEMMA LoadRunType ==
    ASSUME TypeInv, LoadRun
    PROVE  TypeInv'
<1> DEFINE rows == call[Runner].ports \o PreloadPorts(Runner, TRUE)
           c == [call[Runner] EXCEPT !.op = "planned", !.ports = rows]
<1>0. Runner \in Callers
  BY DEF Callers
<1>1. CallSound(call[Runner], serial) /\ call[Runner] \in CallType
  BY <1>0, CallIs
<1>2. rows \in Seq(PortType)
  <2>1. call[Runner].ports \in Seq(PortType) /\ PreloadPorts(Runner, TRUE) \in Seq(PortType)
    BY <1>1, PreloadType DEF CallType
  <2> QED BY <2>1, ConcatType
<1>3. call[Runner].op = "outs" /\ UNCHANGED <<tables, editor>>
  BY DEF LoadRun
<1>4. call' = [call EXCEPT ![Runner] = c]
  BY DEF LoadRun
<1>5. c \in CallType /\ c.job = call[Runner].job /\ c.seen = call[Runner].seen
  <2> HIDE DEF rows
  <2>2. "planned" \in Ops
    BY DEF Ops
  <2> QED BY <1>1, <1>2, <2>2 DEF CallType
<1>6. CallSound(c, serial)
  <2> HIDE DEF c
  <2> QED BY <1>1, <1>3, <1>5, GoOn
<1> HIDE DEF c
<1> QED BY <1>0, <1>3, <1>4, <1>6, OnlyCall

(* An execution ends, or takes all requests with it. *)
LEMMA RunType ==
    ASSUME TypeInv, RunEnds \/ RunKillsServer
    PROVE  TypeInv'
<1>0. Runner \in Callers
  BY DEF Callers
<1>1. CASE RunEnds
  BY <1>0, <1>1, OnlyReturn DEF RunEnds
<1>2. CASE RunKillsServer
  <2>1. UNCHANGED tables /\ Later(serial, serial') /\ serial' = serial /\ editor' = editor
    BY <1>2, TablesSame DEF RunKillsServer, tables
  <2>2. CallSound(Idle, serial')
    BY <2>1, IdleSound DEF TypeInv, TablesType
  <2>3. CallsType'
    BY <1>2, <2>2 DEF CallsType, RunKillsServer
  <2>4. EditorsType'
    BY <2>1, EditorsMove
  <2> QED BY <2>1, <2>3, <2>4, NoTables
<1> QED BY <1>1, <1>2

(* Each step of loading. *)
LEMMA LoadingType ==
    ASSUME TypeInv, Loading
    PROVE  TypeInv'
<1> QED BY OpenType, ExecuteType, LoadNodesType, LoadInsType, AbandonType, LoadOutsType,
           LoadRunType, RunType DEF Loading

(* The requests are left alone. *)
LEMMA CallsStay ==
    ASSUME TypeInv, Later(serial, serial'), UNCHANGED call
    PROVE  CallsType'
<1>1. \A c : CallSound(c, serial) => CallSound(c, serial')
  BY SoundLater DEF TypeInv, TablesType
<1> QED BY <1>1 DEF TypeInv, CallsType

(* A stroke in an editor. *)
LEMMA StrokeType ==
    ASSUME TypeInv, NEW u \in Users, Stroke(u),
           NEW e \in EditorType, e.job = editor[u].job, editor' = [editor EXCEPT ![u] = e]
    PROVE  TypeInv'
<1>1. UNCHANGED <<tables, call>> /\ Later(serial, serial') /\ serial' = serial
  BY TablesSame DEF Stroke, tables
<1>2. EditorSound(e, serial')
  BY <1>1, EditorIs DEF EditorSound
<1>3. EditorsType'
  BY <1>1, <1>2, EditorsMove
<1> QED BY <1>1, <1>3, CallsStay, NoTables

(* Each stroke: a node, a link, or a node and its links gone. *)
LEMMA EditingType ==
    ASSUME TypeInv, NEW u \in Users, Editing(u)
    PROVE  TypeInv'
<1> DEFINE nodes == editor[u].nodes
           links == editor[u].links
<1>1. editor[u] \in EditorType /\ nodes \in Seq(NodeType) /\ links \in Seq(LinkType)
  BY EditorIs DEF EditorType
<1>2. ASSUME NEW what \in Palette, Draw(u, what)
      PROVE  TypeInv'
  <2> DEFINE row == [id |-> editor[u].next, what |-> what]
             e == [editor[u] EXCEPT !.nodes = Append(@, row), !.next = @ + 1, !.clean = FALSE]
  <2>1. row \in NodeType
    BY <1>1 DEF NodeType, EditorType, Whats
  <2>2. Append(nodes, row) \in Seq(NodeType) /\ editor[u].next + 1 \in Nat
    <3> HIDE DEF row, nodes
    <3> QED BY <1>1, <2>1 DEF EditorType
  <2>3. e \in EditorType /\ e.job = editor[u].job
    <3> HIDE DEF row
    <3> QED BY <1>1, <2>2 DEF EditorType
  <2>4. editor' = [editor EXCEPT ![u] = e] /\ Stroke(u)
    BY <1>2 DEF Draw
  <2> HIDE DEF e
  <2> QED BY <2>3, <2>4, StrokeType
<1>3. ASSUME NEW s \in NodeIdsOf(nodes), NEW t \in NodeIdsOf(nodes),
             NEW skind \in PortKinds, NEW tkind \in PortKinds, Connect(u, s, t, skind, tkind)
      PROVE  TypeInv'
  <2> DEFINE link == [src |-> s, tgt |-> t, skind |-> skind, tkind |-> tkind, tp |-> 0]
             e == [editor[u] EXCEPT !.links = Append(@, link), !.clean = FALSE]
  <2>1. link \in LinkType
    <3>1. s \in Nat /\ t \in Nat
      <4> HIDE DEF nodes
      <4> QED BY <1>1, NodeIdsType
    <3> QED BY <3>1 DEF LinkType
  <2>2. Append(links, link) \in Seq(LinkType)
    <3> HIDE DEF link, links
    <3> QED BY <1>1, <2>1
  <2>3. e \in EditorType /\ e.job = editor[u].job
    <3> HIDE DEF link
    <3> QED BY <1>1, <2>2 DEF EditorType
  <2>4. editor' = [editor EXCEPT ![u] = e] /\ Stroke(u)
    BY <1>3 DEF Connect
  <2> HIDE DEF e
  <2> QED BY <2>3, <2>4, StrokeType
<1>4. ASSUME NEW id \in NodeIdsOf(nodes), Erase(u, id)
      PROVE  TypeInv'
  <2> DEFINE others == {i \in DOMAIN nodes : nodes[i].id # id}
             apart == {i \in DOMAIN links : links[i].src # id /\ links[i].tgt # id}
             e == [editor[u] EXCEPT !.nodes = Picked(nodes, others),
                                    !.links = Picked(links, apart), !.clean = FALSE]
  <2>1. others \subseteq DOMAIN nodes /\ apart \subseteq DOMAIN links
    OBVIOUS
  <2>2. Picked(nodes, others) \in Seq(NodeType) /\ Picked(links, apart) \in Seq(LinkType)
    <3> HIDE DEF others, apart, nodes, links
    <3> QED BY <1>1, <2>1, PickedIs
  <2>3. e \in EditorType /\ e.job = editor[u].job
    <3> HIDE DEF others, apart
    <3> QED BY <1>1, <2>2 DEF EditorType
  <2>4. editor' = [editor EXCEPT ![u] = e] /\ Stroke(u)
    BY <1>4 DEF Erase
  <2> HIDE DEF e
  <2> QED BY <2>3, <2>4, StrokeType
<1> QED BY <1>2, <1>3, <1>4 DEF Editing

(* A save is sent. *)
LEMMA SaveType ==
    ASSUME TypeInv, NEW u \in Users, Save(u)
    PROVE  TypeInv'
<1> DEFINE drawing == [nodes |-> editor[u].nodes, links |-> editor[u].links]
           c == [Idle EXCEPT !.op = "save", !.job = editor[u].job, !.clean = editor[u].clean,
                             !.drawing = drawing]
<1>1. editor[u] \in EditorType /\ u \in Callers /\ serial \in [job : Nat, node : Nat]
  BY EditorIs DEF Callers, TypeInv, TablesType
<1>2. editor[u].job \in 1..serial.job
  <2>1. Role(u, editor[u].job) \in Needed("save")
    BY DEF Save, Passes
  <2> QED BY <2>1, PassesIs
<1>3. drawing \in DrawingType
  BY <1>1 DEF DrawingType, EditorType
<1>4. Idle \in CallType /\ Idle.seen \subseteq 1..serial.node /\ "save" \in Ops
  BY <1>1, IdleSound DEF CallSound, Ops
<1>5. c \in CallType /\ c.job = editor[u].job /\ c.seen = Idle.seen
  <2> HIDE DEF drawing
  <2> QED BY <1>1, <1>3, <1>4 DEF CallType, EditorType
<1>6. CallSound(c, serial)
  <2> HIDE DEF c
  <2>1. c.job <= serial.job /\ c.job # 0
    BY <1>1, <1>2, <1>5
  <2>2. c.seen \subseteq 1..serial.node
    BY <1>4, <1>5
  <2> QED BY <1>5, <2>1, <2>2 DEF CallSound
<1>7. call' = [call EXCEPT ![u] = c] /\ UNCHANGED <<tables, editor>>
  BY DEF Save
<1> HIDE DEF c
<1> QED BY <1>1, <1>6, <1>7, OnlyCall

(* The ids of the rows are read. *)
LEMMA SaveReadType ==
    ASSUME TypeInv, NEW u \in Users, SaveRead(u)
    PROVE  TypeInv'
<1> DEFINE ids == NodesOf(call[u].job)
           c == [call[u] EXCEPT !.op = "saving", !.behind = FALSE, !.seen = ids]
<1>1. u \in Callers /\ CallSound(call[u], serial) /\ call[u] \in CallType
  BY CallIs DEF Callers
<1>2. ids \subseteq 1..serial.node /\ ids \in SUBSET Nat
  <2>1. serial.node \in Nat /\ ids \subseteq 1..serial.node
    BY DEF TypeInv, TablesType, NodesOf
  <2> HIDE DEF ids
  <2> QED BY <2>1
<1>3. c \in CallType /\ c.job = call[u].job /\ c.seen = ids
  <2> HIDE DEF ids
  <2>1. "saving" \in Ops
    BY DEF Ops
  <2> QED BY <1>1, <1>2, <2>1 DEF CallType
<1>4. call[u].op = "save" /\ UNCHANGED <<tables, editor>> /\ call' = [call EXCEPT ![u] = c]
  BY DEF SaveRead
<1>5. CallSound(c, serial)
  <2> HIDE DEF c, ids
  <2> QED BY <1>1, <1>2, <1>3, <1>4 DEF CallSound
<1> HIDE DEF c
<1> QED BY <1>1, <1>4, <1>5, OnlyCall

(* The graph is written. *)
LEMMA SaveWriteType ==
    ASSUME TypeInv, NEW u \in Users, SaveWrite(u)
    PROVE  TypeInv'
<1> DEFINE c == call[u]
           n == Len(Fresh(c))
<1>1. u \in Callers /\ CallSound(c, serial) /\ c \in CallType /\ serial \in [job : Nat, node : Nat]
  BY CallIs DEF Callers
<1>2. n \in Nat
  BY <1>1, FreshIs
<1>3. /\ Accepted(c) /\ node' = NodesAfter(c) /\ ports' = PortsAfter(c)
      /\ serial' = [serial EXCEPT !.node = @ + n] /\ Overtake(u, c.job)
      /\ UNCHANGED <<job, access, contacts>>
  BY DEF SaveWrite
<1>4. Later(serial, serial') /\ serial'.job = serial.job /\ serial'.node = serial.node + n
  <2> HIDE DEF n
  <2> QED BY <1>1, <1>2, <1>3 DEF Later
<1>5. CallsType' /\ EditorsType'
  <2> HIDE DEF c
  <2> QED BY <1>3, <1>4, OvertakeType
<1>6. TablesType'
  <2> HIDE DEF c
  <2>1. /\ DOMAIN node' \subseteq 1..serial'.node
        /\ \A id \in DOMAIN node' : node'[id] \in [job : Nat, what : Whats]
    BY <1>1, <1>3, <1>4, NodesAfterIs
  <2>2. ports' \in Seq(PortType)
    BY <1>1, <1>3, PortsAfterIs
  <2> QED BY <1>3, <1>4, <2>1, <2>2 DEF TypeInv, TablesType, Later
<1> QED BY <1>5, <1>6 DEF TypeInv

(* A graph is refused. *)
LEMMA SaveRefusedType ==
    ASSUME TypeInv, NEW u \in Users, SaveRefused(u)
    PROVE  TypeInv'
<1> DEFINE drawn == IF call[u].job \in DOMAIN job THEN Len(Fresh(call[u]))
                    ELSE IF Fresh(call[u]) = <<>> THEN 0 ELSE 1
<1>1. u \in Callers /\ call[u] \in CallType /\ serial \in [job : Nat, node : Nat]
  BY CallIs DEF Callers
<1>2. drawn \in Nat
  BY <1>1, FreshIs
<1>3. /\ serial' = [serial EXCEPT !.node = @ + drawn] /\ Return(u)
      /\ UNCHANGED <<job, access, contacts, node, ports, editor>>
  BY DEF SaveRefused
<1>4. Later(serial, serial') /\ serial'.job = serial.job /\ serial'.node = serial.node + drawn
  <2> HIDE DEF drawn
  <2> QED BY <1>1, <1>2, <1>3 DEF Later
<1>5. CallsType' /\ EditorsType'
  BY <1>1, <1>3, <1>4, CallsReturn, EditorsMove
<1>6. TablesType'
  <2>1. 1..serial.node \subseteq 1..serial'.node
    <3> HIDE DEF drawn
    <3> QED BY <1>1, <1>2, <1>4
  <2> QED BY <1>3, <1>4, <2>1 DEF TypeInv, TablesType, Later
<1> QED BY <1>5, <1>6 DEF TypeInv

(* Each step of a save. *)
LEMMA SavingType ==
    ASSUME TypeInv, NEW u \in Users, Saving(u)
    PROVE  TypeInv'
<1>1. u \in Callers
  BY DEF Callers
<1>2. CASE SaveEmpty(u)
  BY <1>1, <1>2, OnlyReturn DEF SaveEmpty
<1> QED BY <1>2, SaveType, SaveReadType, SaveWriteType, SaveRefusedType DEF Saving

(* A request of a caller that changes shares or contacts, and ends. *)
LEMMA RowsType ==
    ASSUME TypeInv, NEW p \in Callers, NEW c, CallSound(c, serial),
           call' = [call EXCEPT ![p] = c], UNCHANGED <<node, ports, serial, editor>>,
           DOMAIN job' \subseteq 1..serial.job,
           access' \subseteq SharesType(1..serial.job),
           contacts' \subseteq [job : 1..serial.job, user : Users]
    PROVE  TypeInv'
<1>1. Later(serial, serial') /\ serial' = serial
  BY DEF TypeInv, TablesType, Later
<1>2. CallsType' /\ EditorsType'
  BY <1>1, CallsMove, EditorsMove
<1>3. TablesType'
  BY <1>1 DEF TypeInv, TablesType
<1> QED BY <1>2, <1>3 DEF TypeInv

(* Shares given out are shares. *)
LEMMA SharesAre ==
    ASSUME NEW jobs, NEW j \in jobs, NEW with \in SUBSET Users, access \subseteq SharesType(jobs),
           NEW rows, rows \subseteq SharesType(jobs)
    PROVE  Viewers(j, with) \subseteq SharesType(jobs) /\ Given(rows) \subseteq SharesType(jobs)
<1>1. \A v \in with : [job |-> j, user |-> v, role |-> "viewer"] \in SharesType(jobs)
  BY DEF SharesType
<1> QED BY <1>1 DEF Viewers, Given

(* The requests about shares and contacts. *)
LEMMA SharingType ==
    ASSUME TypeInv, NEW u \in Users,
           \/ \E with \in SUBSET Named : ShareCreated(u, with) \/ Relist(u, with)
           \/ \E v \in Named, role \in {"editor", "viewer"} : Share(u, v, role)
           \/ \E v \in Named : Unshare(u, v) \/ AddContact(u, v) \/ RemoveContact(u, v)
           \/ DeleteAccess(u)
    PROVE  TypeInv'
<1> DEFINE j == call[u].job
           jobs == 1..serial.job
<1>1. u \in Callers /\ CallSound(call[u], serial) /\ call[u] \in CallType /\ CallSound(Idle, serial)
  BY CallIs, IdleSound DEF Callers
<1>2. /\ access \subseteq SharesType(jobs) /\ contacts \subseteq [job : jobs, user : Users]
      /\ DOMAIN job \subseteq jobs /\ Named \subseteq Users
  BY JobAssumption DEF TypeInv, TablesType
<1>3. call[u].op # "idle" => j \in jobs
  BY <1>1, CallIs
<1>4. ASSUME Return(u), UNCHANGED <<job, node, ports, serial, editor>>,
             access' \subseteq SharesType(jobs), contacts' \subseteq [job : jobs, user : Users]
      PROVE  TypeInv'
  BY <1>1, <1>2, <1>4, RowsType DEF Return
<1>5. ASSUME NEW with \in SUBSET Named, ShareCreated(u, with) PROVE TypeInv'
  <2>1. j \in jobs /\ with \in SUBSET Users
    BY <1>2, <1>3, <1>5 DEF ShareCreated
  <2>2. Viewers(j, with) \subseteq SharesType(jobs)
    <3> HIDE DEF j, jobs
    <3> QED BY <1>2, <2>1, SharesAre
  <2>3. Given(Viewers(j, with)) \subseteq SharesType(jobs)
    <3> HIDE DEF j, jobs
    <3> QED BY <1>2, <2>1, <2>2, SharesAre
  <2> QED BY <1>2, <1>4, <1>5, <2>3 DEF ShareCreated
<1>6. ASSUME NEW with \in SUBSET Named, Relist(u, with) PROVE TypeInv'
  <2>1. j \in jobs /\ with \in SUBSET Users
    BY <1>2, <1>3, <1>6 DEF Relist
  <2>2. Viewers(j, with) \subseteq SharesType(jobs)
    <3> HIDE DEF j, jobs
    <3> QED BY <1>2, <2>1, SharesAre
  <2>3. access' \subseteq SharesType(jobs)
    BY <1>2, <1>6, <2>2 DEF Relist
  <2> QED BY <1>2, <1>4, <1>6, <2>3 DEF Relist
<1>7. ASSUME NEW v \in Named, NEW role \in {"editor", "viewer"}, Share(u, v, role) PROVE TypeInv'
  <2> DEFINE rows == {[job |-> j, user |-> v, role |-> role]}
  <2>1. rows \subseteq SharesType(jobs)
    BY <1>2, <1>3, <1>7 DEF Share, SharesType
  <2>2. Given(rows) \subseteq SharesType(jobs)
    <3> HIDE DEF rows
    <3> QED BY <1>2, <2>1 DEF Given
  <2> QED BY <1>2, <1>4, <1>7, <2>2 DEF Share
<1>8. ASSUME NEW v \in Named, Unshare(u, v) PROVE TypeInv'
  <2>1. access' \subseteq SharesType(jobs)
    BY <1>2, <1>8 DEF Unshare
  <2> QED BY <1>2, <1>4, <1>8, <2>1 DEF Unshare
<1>9. ASSUME NEW v \in Named, AddContact(u, v) PROVE TypeInv'
  <2>1. contacts' \subseteq [job : jobs, user : Users]
    BY <1>2, <1>9 DEF AddContact
  <2> QED BY <1>2, <1>4, <1>9, <2>1 DEF AddContact
<1>10. ASSUME NEW v \in Named, RemoveContact(u, v) PROVE TypeInv'
  <2>1. contacts' \subseteq [job : jobs, user : Users]
    BY <1>2, <1>10 DEF RemoveContact
  <2> QED BY <1>2, <1>4, <1>10, <2>1 DEF RemoveContact
<1>11. ASSUME DeleteAccess(u) PROVE TypeInv'
  <2> DEFINE c == [call[u] EXCEPT !.op = "deleting"]
  <2>1. c \in CallType /\ c.job = call[u].job /\ c.seen = call[u].seen
    <3>1. "deleting" \in Ops
      BY DEF Ops
    <3> QED BY <1>1, <3>1 DEF CallType
  <2>2. CallSound(c, serial)
    <3> HIDE DEF c
    <3> QED BY <1>1, <1>11, <2>1, GoOn DEF DeleteAccess
  <2>3. call' = [call EXCEPT ![u] = c]
    BY <1>11 DEF DeleteAccess, Step
  <2>4. access' \subseteq SharesType(jobs)
    BY <1>2, <1>11 DEF DeleteAccess
  <2> HIDE DEF c
  <2> QED BY <1>1, <1>2, <1>11, <2>2, <2>3, <2>4, RowsType DEF DeleteAccess
<1> QED BY <1>5, <1>6, <1>7, <1>8, <1>9, <1>10, <1>11

(* A job is created. *)
LEMMA CreateType ==
    ASSUME TypeInv, NEW u \in Users, NEW public, Create(u, public)
    PROVE  TypeInv'
<1> DEFINE new == serial.job + 1
<1>1. u \in Callers /\ serial \in [job : Nat, node : Nat]
  BY DEF Callers, TypeInv, TablesType
<1>2. /\ serial' = [serial EXCEPT !.job = @ + 1] /\ UNCHANGED <<access, contacts, node, ports, editor>>
      /\ job' = [j \in DOMAIN job \cup {new} |->
                    IF j = new THEN [creator |-> u, public |-> public] ELSE job[j]]
  BY DEF Create
<1>3. Later(serial, serial') /\ serial'.job = new /\ serial'.node = serial.node
  BY <1>1, <1>2 DEF Later
<1>4. DOMAIN job' = DOMAIN job \cup {new}
  BY <1>2
<1>5. PICK op \in {"idle", "listed"} :
          call' = [call EXCEPT ![u] =
               IF op = "idle" THEN Idle ELSE [Idle EXCEPT !.op = op, !.job = new]]
  BY DEF Create
<1> DEFINE c == IF op = "idle" THEN Idle ELSE [Idle EXCEPT !.op = op, !.job = new]
<1>6. CallSound(c, serial')
  <2>1. serial' \in [job : Nat, node : Nat] /\ new \in 1..serial'.job
    BY <1>1, <1>3 DEF Later
  <2>2. CallSound(Idle, serial')
    BY <2>1, IdleSound
  <2>3. CallSound([Idle EXCEPT !.op = op, !.job = new], serial')
    <3>1. op \in Ops
      BY DEF Ops
    <3> HIDE DEF new
    <3> QED BY <2>1, <3>1, AskSound
  <2> QED BY <2>2, <2>3
<1>7. CallsType' /\ EditorsType'
  <2> HIDE DEF c
  <2>1. call' = [call EXCEPT ![u] = c]
    BY <1>5 DEF c
  <2> QED BY <1>1, <1>2, <1>3, <1>6, <2>1, CallsMove, EditorsMove
<1>8. TablesType'
  <2>1. 1..serial.job \subseteq 1..serial'.job /\ new \in 1..serial'.job
    BY <1>1, <1>3
  <2>2. DOMAIN job' \subseteq 1..serial'.job
    BY <1>4, <2>1 DEF TypeInv, TablesType
  <2>3. /\ access' \subseteq SharesType(1..serial'.job)
        /\ contacts' \subseteq [job : 1..serial'.job, user : Users]
    BY <1>2, <2>1 DEF TypeInv, TablesType, SharesType
  <2> QED BY <1>2, <1>3, <2>2, <2>3 DEF TypeInv, TablesType, Later
<1> QED BY <1>7, <1>8 DEF TypeInv

(* The fields of a job are changed. *)
LEMMA PatchType ==
    ASSUME TypeInv, NEW u \in Users, NEW public, Patch(u, public)
    PROVE  TypeInv'
<1> DEFINE j == call[u].job
<1>1. u \in Callers /\ CallSound(call[u], serial) /\ call[u] \in CallType /\ CallSound(Idle, serial)
  BY CallIs, IdleSound DEF Callers
<1>2. /\ access \subseteq SharesType(1..serial.job)
      /\ contacts \subseteq [job : 1..serial.job, user : Users] /\ DOMAIN job \subseteq 1..serial.job
  BY DEF TypeInv, TablesType
<1>3. call[u].op = "patch" /\ UNCHANGED <<access, contacts, node, ports, serial, editor>>
  BY DEF Patch
<1>4. DOMAIN job' = DOMAIN job
  BY DEF Patch
<1>5. \E c : CallSound(c, serial) /\ call' = [call EXCEPT ![u] = c]
  <2>1. CASE j \notin DOMAIN job
    BY <1>1, <2>1 DEF Patch, Return
  <2>2. CASE j \in DOMAIN job
    <3>1. PICK op \in {"idle", "relist"} :
             call' = [call EXCEPT ![u] = IF op = "idle" THEN Idle ELSE [@ EXCEPT !.op = op]]
      BY <2>2 DEF Patch
    <3>2. CASE op = "idle"
      BY <1>1, <3>1, <3>2
    <3>3. CASE op = "relist"
      <4> DEFINE c == [call[u] EXCEPT !.op = "relist"]
      <4>1. c \in CallType /\ c.job = call[u].job /\ c.seen = call[u].seen
        <5>1. "relist" \in Ops
          BY DEF Ops
        <5> QED BY <1>1, <5>1 DEF CallType
      <4>2. CallSound(c, serial)
        <5> HIDE DEF c
        <5> QED BY <1>1, <1>3, <4>1, GoOn
      <4>3. call' = [call EXCEPT ![u] = c]
        BY <3>1, <3>3
      <4> HIDE DEF c
      <4> QED BY <4>2, <4>3
    <3> QED BY <3>2, <3>3
  <2> QED BY <2>1, <2>2
<1>6. PICK c : CallSound(c, serial) /\ call' = [call EXCEPT ![u] = c]
  BY <1>5
<1>7. /\ DOMAIN job' \subseteq 1..serial.job /\ access' \subseteq SharesType(1..serial.job)
      /\ contacts' \subseteq [job : 1..serial.job, user : Users]
      /\ UNCHANGED <<node, ports, serial, editor>>
  BY <1>2, <1>3, <1>4
<1> QED BY <1>1, <1>6, <1>7, RowsType

(* A job is deleted with its nodes, ports and contacts. *)
LEMMA DeleteJobType ==
    ASSUME TypeInv, NEW u \in Users, DeleteJob(u)
    PROVE  TypeInv'
<1> DEFINE j == call[u].job
           others == DOMAIN node \ NodesOf(j)
           places == {i \in DOMAIN ports : ports[i].owner \in others}
<1>1. /\ job' = [k \in DOMAIN job \ {j} |-> job[k]] /\ UNCHANGED <<access, serial>>
      /\ node' = [id \in others |-> node[id]] /\ ports' = Picked(ports, places)
      /\ contacts' = {c \in contacts : c.job # j} /\ Overtake(u, j)
  BY DEF DeleteJob, Cascade
<1>2. Later(serial, serial') /\ serial' = serial
  BY <1>1 DEF Later, TypeInv, TablesType
<1>3. CallsType' /\ EditorsType'
  <2> HIDE DEF j
  <2> QED BY <1>1, <1>2, OvertakeType
<1>4. ports' \in Seq(PortType)
  <2>1. ports \in Seq(PortType) /\ places \subseteq DOMAIN ports
    BY DEF TypeInv, TablesType
  <2> HIDE DEF places
  <2> QED BY <1>1, <2>1, PickedIs
<1>5. TablesType'
  <2> HIDE DEF j
  <2> QED BY <1>1, <1>2, <1>4 DEF TypeInv, TablesType
<1> QED BY <1>3, <1>5 DEF TypeInv

(* Each of the other requests. *)
LEMMA ManagingType ==
    ASSUME TypeInv, NEW u \in Users, Managing(u)
    PROVE  TypeInv'
<1>1. ASSUME NEW j, NEW op \in {"patch", "contact", "delete", "share"}, Check(u, op, j)
      PROVE  TypeInv'
  <2> DEFINE c == [Idle EXCEPT !.op = op, !.job = j]
  <2>1. u \in Callers /\ serial \in [job : Nat, node : Nat] /\ op \in Ops
    BY DEF Callers, TypeInv, TablesType, Ops
  <2>2. j \in 1..serial.job
    <3>1. Role(u, j) \in Needed(op)
      BY <1>1 DEF Check, Passes
    <3> QED BY <3>1, PassesIs
  <2>3. CallSound(c, serial)
    BY <2>1, <2>2, AskSound
  <2>4. call' = [call EXCEPT ![u] = c] /\ UNCHANGED <<tables, editor>>
    BY <1>1 DEF Check
  <2> HIDE DEF c
  <2> QED BY <2>1, <2>3, <2>4, OnlyCall
<1> QED BY <1>1, SharingType, CreateType, PatchType, DeleteJobType DEF Managing

(* Every step keeps every shape. *)
LEMMA TypeStep ==
    ASSUME TypeInv, [Next]_vars
    PROVE  TypeInv'
<1>1. CASE UNCHANGED vars
  BY <1>1 DEF vars, TypeInv, TablesType, CallsType, EditorsType
<1>2. CASE Next
  BY <1>2, LoadingType, EditingType, SavingType, ManagingType DEF Next
<1> QED BY <1>1, <1>2

(* A drawing of a scenario is a drawing, numbered from 0. *)
LEMMA ScenarioIs ==
    ASSUME NEW s \in Scenarios
    PROVE  /\ s.drawing \in DrawingType /\ Len(s.drawing.nodes) \in Nat
           /\ s.drawing.nodes \in Seq(NodeType) /\ s.drawing.nodes # <<>>
           /\ \A i \in DOMAIN s.drawing.nodes : s.drawing.nodes[i].id = i - 1
<1> DEFINE drawing == s.drawing
           nodes == drawing.nodes
           ids == {nodes[i].id : i \in DOMAIN nodes}
           whats == {nodes[i].what : i \in DOMAIN nodes}
           A == [id : ids, what : whats]
           B == [src : ids, tgt : ids, skind : PortKinds, tkind : PortKinds, tp : Nat]
<1>1. /\ drawing \in [nodes : Seq(A), links : Seq(B)]
      /\ nodes # <<>> /\ \A i \in DOMAIN nodes : nodes[i].id = i - 1
  BY ScenarioAssumption
<1>2. nodes \in Seq(A) /\ drawing.links \in Seq(B) /\ drawing = [nodes |-> nodes, links |-> drawing.links]
  <2> HIDE DEF A, B
  <2> QED BY <1>1
<1>3. DOMAIN nodes = 1..Len(nodes) /\ Len(nodes) \in Nat
  <2> HIDE DEF A, nodes
  <2> QED BY <1>2
<1>4. ids \subseteq Nat /\ whats \subseteq Whats
  <2>1. \A i \in DOMAIN nodes : nodes[i].id \in Nat
    <3> HIDE DEF nodes
    <3> QED BY <1>1, <1>3
  <2>2. whats \in {{t.drawing.nodes[i].what : i \in DOMAIN t.drawing.nodes} : t \in Scenarios}
    OBVIOUS
  <2>3. whats \subseteq Whats
    <3> HIDE DEF whats
    <3> QED BY <2>2 DEF Whats
  <2> HIDE DEF nodes
  <2> QED BY <2>1, <2>3
<1>5. A \subseteq NodeType /\ B \subseteq LinkType
  <2> HIDE DEF ids, whats
  <2> QED BY <1>4 DEF NodeType, LinkType
<1>6. nodes \in Seq(NodeType) /\ drawing.links \in Seq(LinkType)
  <2> HIDE DEF A, B, nodes
  <2> QED BY <1>2, <1>5
<1>7. drawing \in DrawingType
  <2> HIDE DEF nodes
  <2> QED BY <1>2, <1>6 DEF DrawingType
<1> QED BY <1>1, <1>3, <1>6, <1>7

(* The first state: the drawing of job 1 has become rows. *)
LEMMA InitSound ==
    ASSUME Init
    PROVE  TypeInv /\ TablesConsistent
<1>1. PICK scenario \in Scenarios, others \in SUBSET (Users \ {Founder}) :
        LET drawing == scenario.drawing
            count == Len(drawing.nodes)
            idMap == [id \in 0..(count - 1) |-> id + 1]
        IN /\ job = [j \in {1} |-> [creator |-> Founder, public |-> FALSE]]
           /\ access = {[job |-> 1, user |-> u, role |-> "editor"] : u \in others}
           /\ contacts = {}
           /\ node = [id \in 1..count |-> [job |-> 1, what |-> drawing.nodes[id].what]]
           /\ ports = PortRows(drawing, idMap)
           /\ serial = [job |-> 1, node |-> count]
           /\ editor = [u \in Users |->
                 IF u \in others \cup {Founder} THEN Loaded(1, RowsOf(1), ports, TRUE)
                 ELSE [job |-> 0, nodes |-> <<>>, links |-> <<>>, next |-> 0, clean |-> FALSE]]
           /\ call = [p \in Callers |-> Idle]
           /\ left = scenario.left
  BY DEF Init
<1> DEFINE drawing == scenario.drawing
           count == Len(drawing.nodes)
           idMap == [id \in 0..(count - 1) |-> id + 1]
<1>2. /\ drawing \in DrawingType /\ count \in Nat /\ drawing.nodes \in Seq(NodeType)
      /\ drawing.nodes # <<>> /\ \A i \in DOMAIN drawing.nodes : drawing.nodes[i].id = i - 1
  BY ScenarioIs
<1>3. DOMAIN drawing.nodes = 1..count /\ count # 0
  <2> HIDE DEF drawing
  <2> QED BY <1>2
<1>4. serial \in [job : Nat, node : Nat] /\ serial.job = 1 /\ serial.node = count
  <2> HIDE DEF count
  <2> QED BY <1>1, <1>2 DEF count
<1>5. /\ DOMAIN node = 1..count
      /\ \A id \in DOMAIN node : node[id] \in [job : Nat, what : Whats] /\ node[id].job = 1
  <2>1. \A id \in 1..count : drawing.nodes[id].what \in Whats
    <3>1. \A id \in 1..count : drawing.nodes[id] \in NodeType
      <4> HIDE DEF drawing
      <4> QED BY <1>2, <1>3
    <3> QED BY <3>1 DEF NodeType
  <2>2. node = [id \in 1..count |-> [job |-> 1, what |-> drawing.nodes[id].what]]
    BY <1>1
  <2> HIDE DEF count, drawing
  <2> QED BY <2>1, <2>2
<1>6. ports \in Seq(PortType) /\ \A k \in DOMAIN ports : ports[k].owner \in 1..count
  <2>1. \A id \in DOMAIN idMap : idMap[id] \in Nat
    BY <1>2
  <2>2. \A i \in 1..count : Resolve(idMap, drawing.nodes[i].id) = i
    <3>1. \A i \in 1..count : i - 1 \in 0..(count - 1) /\ idMap[i - 1] = i
      BY <1>2
    <3>2. DOMAIN idMap = 0..(count - 1)
      OBVIOUS
    <3> HIDE DEF idMap
    <3> QED BY <1>2, <1>3, <3>1, <3>2 DEF Resolve
  <2>3. ports = PortRows(drawing, idMap)
    BY <1>1
  <2> HIDE DEF idMap, drawing
  <2>4. /\ ports \in Seq(PortType)
        /\ \A k \in DOMAIN ports :
              \E i \in DOMAIN drawing.nodes : ports[k].owner = Resolve(idMap, drawing.nodes[i].id)
    BY <1>2, <2>1, <2>3, PortRowsType
  <2> QED BY <1>3, <2>2, <2>4
<1>7. access \subseteq SharesType(1..serial.job)
  BY <1>1, <1>4 DEF SharesType
<1>8. TablesType
  <2>1. DOMAIN job \subseteq 1..serial.job /\ contacts \subseteq [job : 1..serial.job, user : Users]
    BY <1>1, <1>4
  <2> HIDE DEF count, drawing
  <2> QED BY <1>4, <1>5, <1>6, <1>7, <2>1 DEF TablesType
<1>9. CallsType
  <2>1. CallSound(Idle, serial)
    BY <1>4, IdleSound
  <2>2. call = [p \in Callers |-> Idle]
    BY <1>1
  <2> QED BY <2>1, <2>2 DEF CallsType
<1>10. EditorsType
  <2> DEFINE e == Loaded(1, RowsOf(1), ports, TRUE)
             none == [job |-> 0, nodes |-> <<>>, links |-> <<>>, next |-> 0, clean |-> FALSE]
  <2>1. RowsOf(1) \in Seq(NodeType) /\ RowsOf(1) # <<>>
    <3>1. NodesOf(1) # {}
      <4>1. 1 \in DOMAIN node
        BY <1>2, <1>3, <1>5
      <4> QED BY <1>5, <4>1 DEF NodesOf
    <3> QED BY <1>8, <3>1, RowsOfType
  <2>2. e \in EditorType /\ e.job = 1
    <3>1. e \in EditorType
      BY <1>6, <2>1, LoadedType
    <3> QED BY <3>1 DEF Loaded
  <2>3. none \in EditorType /\ none.job = 0
    <3>1. <<>> \in Seq(NodeType) /\ <<>> \in Seq(LinkType)
      OBVIOUS
    <3> QED BY <3>1 DEF EditorType
  <2>4. DOMAIN editor = Users /\ \A u \in Users : editor[u] \in {e, none}
    BY <1>1
  <2> HIDE DEF e, none
  <2> QED BY <1>4, <2>2, <2>3, <2>4 DEF EditorsType, EditorSound
<1>11. TablesConsistent
  <2>1. \A id \in DOMAIN node : node[id].job \in DOMAIN job
    BY <1>1, <1>5
  <2>2. \A a, b \in access : a.job = b.job /\ a.user = b.user => a = b
    BY <1>1
  <2>3. contacts = {}
    BY <1>1
  <2> HIDE DEF count
  <2> QED BY <1>5, <1>6, <2>1, <2>2, <2>3 DEF TablesConsistent
<1> QED BY <1>8, <1>9, <1>10, <1>11 DEF TypeInv

-----------------------------------------------------------------------------
(* What belongs together in the tables. *)

(* A save keeps nodes with their job and ports with their node: what it writes *)
(* the foreign keys have accepted, and the ports it leaves are of nodes it did *)
(* not delete.                                                                 *)
LEMMA SaveConsistent ==
    ASSUME TypeInv, TablesConsistent, NEW u \in Users, SaveWrite(u)
    PROVE  TablesConsistent'
<1> DEFINE c == call[u]
<1>1. CallSound(c, serial)
  BY CallIs DEF Callers
<1>2. /\ Accepted(c) /\ node' = NodesAfter(c) /\ ports' = PortsAfter(c)
      /\ UNCHANGED <<job, access, contacts>>
  BY DEF SaveWrite
<1> HIDE DEF c
<1>3. \A id \in DOMAIN node' : node'[id].job \in DOMAIN job'
  <2>1. \A id \in DOMAIN NodesAfter(c) :
            \/ id \in DOMAIN node /\ NodesAfter(c)[id].job = node[id].job
            \/ Fresh(c) # <<>> /\ NodesAfter(c)[id].job = c.job
    BY <1>1, NodesAfterIs
  <2>2. Fresh(c) # <<>> => c.job \in DOMAIN job
    BY <1>2 DEF Accepted
  <2> QED BY <1>2, <2>1, <2>2 DEF TablesConsistent
<1>4. \A i \in DOMAIN ports' : ports'[i].owner \in DOMAIN node'
  <2>1. \A i \in DOMAIN PortsAfter(c) :
             \/ \E k \in DOMAIN ports :
                   PortsAfter(c)[i].owner = ports[k].owner /\ ports[k].owner \notin c.seen
             \/ PortsAfter(c)[i].owner \in DOMAIN NodesAfter(c)
    BY <1>1, <1>2, PortsAfterIs
  <2>2. \A k \in DOMAIN ports : ports[k].owner \in DOMAIN node
    BY DEF TablesConsistent
  <2>3. DOMAIN node \ c.seen \subseteq DOMAIN NodesAfter(c)
    BY <1>1, NodesAfterIs
  <2> QED BY <1>2, <2>1, <2>2, <2>3
<1> QED BY <1>2, <1>3, <1>4 DEF TablesConsistent

(* A delete takes along all that belongs to the job. *)
LEMMA DeleteConsistent ==
    ASSUME TypeInv, TablesConsistent, NEW u \in Users, DeleteJob(u)
    PROVE  TablesConsistent'
<1> DEFINE j == call[u].job
           others == DOMAIN node \ NodesOf(j)
           places == {i \in DOMAIN ports : ports[i].owner \in others}
<1>1. /\ job' = [k \in DOMAIN job \ {j} |-> job[k]] /\ UNCHANGED access
      /\ node' = [id \in others |-> node[id]] /\ ports' = Picked(ports, places)
      /\ contacts' = {c \in contacts : c.job # j}
  BY DEF DeleteJob, Cascade
<1>2. \A id \in others : node[id].job \in DOMAIN job \ {j}
  BY DEF NodesOf, TablesConsistent
<1>3. \A id \in DOMAIN node' : node'[id].job \in DOMAIN job'
  BY <1>1, <1>2
<1>4. \A c \in contacts' : c.job \in DOMAIN job'
  BY <1>1 DEF TablesConsistent
<1>5. \A i \in DOMAIN ports' : ports'[i].owner \in DOMAIN node'
  <2>1. ports \in Seq(PortType) /\ places \subseteq DOMAIN ports
    BY DEF TypeInv, TablesType
  <2>2. \A i \in places : ports[i].owner \in others
    OBVIOUS
  <2> HIDE DEF places, others
  <2>3. IsPicked(ports', ports, places)
    BY <1>1, <2>1, PickedIs
  <2> QED BY <1>1, <2>2, <2>3 DEF IsPicked
<1> QED BY <1>1, <1>3, <1>4, <1>5 DEF TablesConsistent

(* A user keeps one role in a job. *)
LEMMA SharesConsistent ==
    ASSUME TablesConsistent, UNCHANGED <<node, ports>>, DOMAIN job \subseteq DOMAIN job',
           \A c \in contacts' : c \in contacts \/ c.job \in DOMAIN job,
           \A a, b \in access' : a.job = b.job /\ a.user = b.user => a = b
    PROVE  TablesConsistent'
<1> QED BY DEF TablesConsistent

(* The other requests keep the tables together. *)
LEMMA ManagingConsistent ==
    ASSUME TypeInv, TablesConsistent, NEW u \in Users, Managing(u)
    PROVE  TablesConsistent'
<1> DEFINE j == call[u].job
           One(rows) == \A a, b \in rows : a.job = b.job /\ a.user = b.user => a = b
<1>1. One(access)
  BY DEF TablesConsistent
<1>2. \A with : One(Viewers(j, with))
  BY DEF Viewers
<1>3. \A rows : One(rows) => One(Given(rows))
  <2> SUFFICES ASSUME NEW rows, One(rows), NEW a \in Given(rows), NEW b \in Given(rows),
                      a.job = b.job, a.user = b.user
               PROVE  a = b
    OBVIOUS
  <2> QED BY <1>1 DEF Given
<1>4. ASSUME NEW k, NEW op, Check(u, op, k) PROVE TablesConsistent'
  BY <1>4 DEF Check, tables, TablesConsistent
<1>5. ASSUME NEW public, Create(u, public) PROVE TablesConsistent'
  <2>1. DOMAIN job \subseteq DOMAIN job' /\ UNCHANGED <<access, contacts, node, ports>>
    BY <1>5 DEF Create
  <2> QED BY <1>1, <2>1, SharesConsistent
<1>6. ASSUME NEW public, Patch(u, public) PROVE TablesConsistent'
  <2>1. DOMAIN job \subseteq DOMAIN job' /\ UNCHANGED <<access, contacts, node, ports>>
    BY <1>6 DEF Patch
  <2> QED BY <1>1, <2>1, SharesConsistent
<1>7. ASSUME NEW with, ShareCreated(u, with) PROVE TablesConsistent'
  <2>1. access' = Given(Viewers(j, with)) /\ UNCHANGED <<job, contacts, node, ports>>
    BY <1>7 DEF ShareCreated
  <2>2. One(access')
    <3> HIDE DEF One, j
    <3> QED BY <1>2, <1>3, <2>1
  <2> QED BY <2>1, <2>2, SharesConsistent
<1>8. ASSUME NEW with, Relist(u, with) PROVE TablesConsistent'
  <2>1. /\ \/ access' = access
           \/ access' = {a \in access : a.job # j} \cup Viewers(j, with)
        /\ UNCHANGED <<job, contacts, node, ports>>
    BY <1>8 DEF Relist
  <2>2. One({a \in access : a.job # j} \cup Viewers(j, with))
    <3>1. \A a \in Viewers(j, with) : a.job = j
      BY DEF Viewers
    <3> QED BY <1>1, <1>2, <3>1
  <2>3. One(access')
    <3> HIDE DEF One
    <3> QED BY <1>1, <2>1, <2>2
  <2> QED BY <2>1, <2>3, SharesConsistent
<1>9. ASSUME NEW v, NEW role, Share(u, v, role) PROVE TablesConsistent'
  <2> DEFINE rows == {[job |-> j, user |-> v, role |-> role]}
  <2>1. access' = Given(rows) /\ UNCHANGED <<job, contacts, node, ports>>
    BY <1>9 DEF Share
  <2>2. One(rows)
    OBVIOUS
  <2>3. One(access')
    <3> HIDE DEF One, rows
    <3> QED BY <1>3, <2>1, <2>2
  <2> QED BY <2>1, <2>3, SharesConsistent
<1>10. ASSUME NEW v, Unshare(u, v) PROVE TablesConsistent'
  <2>1. access' \subseteq access /\ UNCHANGED <<job, contacts, node, ports>>
    BY <1>10 DEF Unshare
  <2> QED BY <1>1, <2>1, SharesConsistent
<1>11. ASSUME NEW v, AddContact(u, v) PROVE TablesConsistent'
  <2>1. /\ UNCHANGED <<job, access, node, ports>>
        /\ \A c \in contacts' : c \in contacts \/ c.job \in DOMAIN job
    BY <1>11 DEF AddContact
  <2> QED BY <1>1, <2>1, SharesConsistent
<1>12. ASSUME NEW v, RemoveContact(u, v) PROVE TablesConsistent'
  <2>1. contacts' \subseteq contacts /\ UNCHANGED <<job, access, node, ports>>
    BY <1>12 DEF RemoveContact
  <2> QED BY <1>1, <2>1, SharesConsistent
<1>13. ASSUME DeleteAccess(u) PROVE TablesConsistent'
  <2>1. access' \subseteq access /\ UNCHANGED <<job, contacts, node, ports>>
    BY <1>13 DEF DeleteAccess
  <2> QED BY <1>1, <2>1, SharesConsistent
<1> HIDE DEF j, One
<1> QED BY <1>4, <1>5, <1>6, <1>7, <1>8, <1>9, <1>10, <1>11, <1>12, <1>13, DeleteConsistent
        DEF Managing

(* Every step keeps the tables together. *)
LEMMA ConsistentStep ==
    ASSUME TypeInv, TablesConsistent, [Next]_vars
    PROVE  TablesConsistent'
<1>1. CASE UNCHANGED <<job, access, contacts, node, ports>>
  BY <1>1 DEF TablesConsistent
<1>2. CASE Loading
  <2>1. UNCHANGED tables
    BY <1>2 DEF Loading, Open, Execute, LoadNodes, LoadIns, Abandon, LoadOuts, LoadRun, RunEnds,
               RunKillsServer
  <2> QED BY <1>1, <2>1 DEF tables
<1>3. ASSUME NEW u \in Users, Editing(u) PROVE TablesConsistent'
  <2>1. UNCHANGED tables
    BY <1>3 DEF Editing, Draw, Connect, Erase, Stroke
  <2> QED BY <1>1, <2>1 DEF tables
<1>4. ASSUME NEW u \in Users, Saving(u) PROVE TablesConsistent'
  <2>1. CASE SaveWrite(u)
    BY <2>1, SaveConsistent
  <2>2. CASE Save(u) \/ SaveEmpty(u) \/ SaveRead(u) \/ SaveRefused(u)
    <3>1. UNCHANGED <<job, access, contacts, node, ports>>
      BY <2>2 DEF Save, SaveEmpty, SaveRead, SaveRefused, tables
    <3> QED BY <1>1, <3>1
  <2> QED BY <1>4, <2>1, <2>2 DEF Saving
<1>5. CASE UNCHANGED vars
  BY <1>1, <1>5 DEF vars
<1> QED BY <1>2, <1>3, <1>4, <1>5, ManagingConsistent DEF Next

-----------------------------------------------------------------------------
(* The theorems. *)

(* What the tables, the requests and the editors hold has its shape in every   *)
(* state (job_service.go, job_repo.go, mapper/job.go and the job editor).      *)
THEOREM TypeCorrect == Spec => []TypeOK
<1>1. Init => TypeInv
  BY InitSound
<1>2. TypeInv /\ [Next]_vars => TypeInv'
  BY TypeStep
<1>3. TypeInv => TypeOK
  <2> SUFFICES ASSUME TypeInv PROVE TypeOK
    OBVIOUS
  <2>1. serial.job \in Nat /\ serial.node \in Nat
    BY DEF TypeInv, TablesType
  <2>2. \A i \in DOMAIN ports : RowType(ports[i])
    <3>1. \A i \in DOMAIN ports : ports[i] \in PortType
      BY DEF TypeInv, TablesType
    <3> QED BY <3>1 DEF PortType, RowType
  <2>3. \A p \in Callers : call[p].job \in 0..serial.job /\ call[p].behind \in BOOLEAN
    BY <2>1 DEF TypeInv, CallsType, CallSound, CallType
  <2>4. \A u \in Users : editor[u].job \in 0..serial.job
    BY <2>1 DEF TypeInv, EditorsType, EditorSound, EditorType
  <2> QED BY <2>2, <2>3, <2>4 DEF TypeOK, TypeInv, TablesType, SharesType
<1> QED BY <1>1, <1>2, <1>3, PTL DEF Spec

(* Nothing is left of a deleted job but its shares, and no request that goes   *)
(* on after the delete brings anything back: nodes and contacts belong to      *)
(* jobs, ports to nodes, and a user has one role in a job.                     *)
THEOREM TablesCorrect == Spec => []TablesConsistent
<1>1. Init => TypeInv /\ TablesConsistent
  BY InitSound
<1>2. TypeInv /\ TablesConsistent /\ [Next]_vars => (TypeInv /\ TablesConsistent)'
  BY TypeStep, ConsistentStep
<1> QED BY <1>1, <1>2, PTL DEF Spec
=============================================================================
