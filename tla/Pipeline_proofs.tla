--------------------------- MODULE Pipeline_proofs ---------------------------
(***************************************************************************)
(* Proofs about the generated program: what an output has written when a   *)
(* run is reported complete, and when it is not.                           *)
(***************************************************************************)
EXTENDS Pipeline, DataLemmas

(* The job is one of those the generator makes. *)
JobOK == job \in Jobs

(* What the job of the state is. *)
LEMMA JobShape ==
    ASSUME JobOK
    PROVE  IsJob(job)
BY PipelineAssumption DEF JobOK

(* Channels and nodes are numbered from 1, and every port joins two nodes. *)
LEMMA Ports ==
    ASSUME JobOK
    PROVE  /\ Channels = 1..Len(job.ports) /\ Len(job.ports) \in Nat
           /\ Nodes = 1..Len(job.kind) /\ Len(job.kind) \in Nat
           /\ \A k \in Channels : job.ports[k].from \in Nodes /\ job.ports[k].to \in Nodes
<1> DEFINE Port == [from : Nodes, to : Nodes]
           p == job.ports
           q == job.kind
<1>1. p \in Seq(Port) /\ q \in Seq(Kinds)
  BY JobShape DEF IsJob, Nodes
<1>2. \A k \in DOMAIN p : p[k] \in Port
  <2> HIDE DEF Port, p
  <2> QED BY <1>1
<1>3. /\ DOMAIN p = 1..Len(p) /\ Len(p) \in Nat
      /\ DOMAIN q = 1..Len(q) /\ Len(q) \in Nat
  <2> HIDE DEF Port, p, q
  <2> QED BY <1>1
<1>4. \A k \in DOMAIN p : p[k].from \in Nodes /\ p[k].to \in Nodes
  BY <1>2
<1> QED BY <1>3, <1>4 DEF Channels, Nodes

(* The port a node sends to: every node but the outputs has one, and it is *)
(* the only one that starts there.                                         *)
LEMMA OutIs ==
    ASSUME JobOK, NEW n \in Nodes
    PROVE  /\ Is(n, Outputs) => Out(n) = 0
           /\ ~Is(n, Outputs) => Out(n) \in Channels /\ job.ports[Out(n)].from = n
           /\ \A k \in Channels : job.ports[k].from = n => Out(n) = k
<1> DEFINE I == {k \in 1..Len(job.ports) : job.ports[k].from = n}
<1>1. Out(n) = IF I # {} THEN Min(I) ELSE 0
  BY DEF Out, SelectInSeq
<1>2. I = {} <=> Is(n, Outputs)
  <2>1. {job.ports[k].from : k \in DOMAIN job.ports} = {m \in DOMAIN job.kind : job.kind[m] \notin Outputs}
    BY JobShape DEF IsJob
  <2>2. DOMAIN job.ports = 1..Len(job.ports)
    BY Ports DEF Channels
  <2> QED BY <2>1, <2>2 DEF Is, Nodes
<1>3. I # {} => Min(I) \in I
  <2>1. I \subseteq 1..Len(job.ports) /\ Len(job.ports) \in Nat
    BY Ports
  <2> HIDE DEF I
  <2> QED BY <2>1, MinAmong
<1>4. \A k, l \in Channels : job.ports[k].from = job.ports[l].from => k = l
  BY JobShape DEF IsJob, Channels
<1>5. I \subseteq Channels /\ \A k \in I : job.ports[k].from = n
  BY Ports
<1>6. \A k \in Channels : job.ports[k].from = n => k \in I
  BY Ports
<1> HIDE DEF I
<1>7. CASE I = {}
  BY <1>1, <1>2, <1>6, <1>7
<1>8. CASE I # {}
  <2>1. Out(n) \in I
    BY <1>1, <1>3, <1>8
  <2> QED BY <1>2, <1>4, <1>5, <1>8, <2>1
<1> QED BY <1>7, <1>8

(* How many inputs a node has. *)
Ins(n) == Arity(job.kind[n])

(* Sources read nothing, joins and unions read two inputs, the rest one. *)
LEMMA InsIs ==
    ASSUME JobOK, NEW n \in Nodes
    PROVE  /\ Ins(n) \in 0..2
           /\ Ins(n) = 0 <=> Is(n, {"db_input"})
           /\ Ins(n) = 2 <=> Is(n, {"union"} \cup Joins)
           /\ Is(n, Outputs) => Ins(n) = 1
           /\ job.kind[n] \in Kinds
<1>1. job.kind[n] \in Kinds
  <2> DEFINE q == job.kind
  <2>1. q \in Seq(Kinds) /\ n \in DOMAIN q
    BY JobShape DEF IsJob, Nodes
  <2> HIDE DEF q
  <2>2. q[n] \in Kinds
    BY <2>1
  <2> QED BY <2>2 DEF q
<1> QED BY <1>1 DEF Ins, Arity, Is, Kinds, Joins, Outputs

(* The nodes a node reads come before it, and are different ones. *)
LEMMA DrainedIs ==
    ASSUME JobOK, NEW n \in Nodes
    PROVE  /\ DOMAIN Drained(n) = 1..Ins(n) /\ Len(Drained(n)) = Ins(n)
           /\ \A i \in 1..Ins(n) : Drained(n)[i] \in Nodes /\ Drained(n)[i] < n
           /\ \A i, k \in 1..Ins(n) : Drained(n)[i] = Drained(n)[k] => i = k
           /\ Range(Drained(n)) = Range(job.inputs[n])
<1> DEFINE q == job.inputs[n]
<1>1. /\ q \in Seq(Nodes) /\ Len(q) = Ins(n)
      /\ \A m \in Range(q) : m < n
      /\ IsInjective(q)
  <2>1. job.inputs \in [Nodes -> Seq(Nodes)]
    BY JobShape DEF IsJob, Nodes
  <2> QED BY <2>1, JobShape DEF IsJob, Nodes, Ins
<1> HIDE DEF q
<1>2. DOMAIN q = 1..Ins(n) /\ \A i \in 1..Ins(n) : q[i] \in Nodes
  BY <1>1
<1>3. /\ \A i \in 1..Ins(n) : q[i] < n
      /\ \A i, k \in 1..Ins(n) : q[i] = q[k] => i = k
  BY <1>1, <1>2 DEF Range, IsInjective
<1>4. CASE Is(n, {"inner", "left", "cross"})
  <2>1. Ins(n) = 2
    BY <1>4, InsIs DEF Is, Joins
  <2>2. Drained(n) = <<q[2], q[1]>>
    BY <1>4 DEF Drained, q
  <2>3. /\ DOMAIN Drained(n) = {1, 2} /\ Len(Drained(n)) = 2
        /\ Drained(n)[1] = q[2] /\ Drained(n)[2] = q[1]
    BY <2>2
  <2>4. 1..2 = {1, 2}
    OBVIOUS
  <2>5. Range(Drained(n)) = Range(q)
    BY <1>2, <2>1, <2>3, <2>4 DEF Range
  <2> QED BY <1>2, <1>3, <2>1, <2>3, <2>4, <2>5 DEF q
<1>5. CASE ~Is(n, {"inner", "left", "cross"})
  <2>1. Drained(n) = q
    BY <1>5 DEF Drained, q
  <2> QED BY <1>1, <1>2, <1>3, <2>1 DEF q
<1> QED BY <1>4, <1>5

(* The channels a node drains: those of the nodes it reads. *)
LEMMA InIs ==
    ASSUME JobOK, NEW n \in Nodes
    PROVE  /\ DOMAIN In(n) = 1..Ins(n) /\ Len(In(n)) = Ins(n)
           /\ \A i \in 1..Ins(n) : /\ In(n)[i] \in Channels
                                   /\ job.ports[In(n)[i]].from = Drained(n)[i]
                                   /\ job.ports[In(n)[i]].to = n
                                   /\ Out(Drained(n)[i]) = In(n)[i]
           /\ \A i, k \in 1..Ins(n) : In(n)[i] = In(n)[k] => i = k
<1>1. DOMAIN In(n) = 1..Ins(n) /\ Ins(n) \in Nat
  BY DrainedIs, InsIs DEF In
<1>2. Len(In(n)) = Ins(n)
  BY <1>1 DEF In
<1>3. ASSUME NEW i \in 1..Ins(n)
      PROVE  /\ In(n)[i] \in Channels
             /\ job.ports[In(n)[i]].from = Drained(n)[i]
             /\ job.ports[In(n)[i]].to = n
  <2> DEFINE I == {k \in 1..Len(job.ports) :
                      job.ports[k].from = Drained(n)[i] /\ job.ports[k].to = n}
  <2>1. In(n)[i] = IF I # {} THEN Min(I) ELSE 0
    BY DrainedIs DEF In, SelectInSeq
  <2>2. I # {}
    <3>1. Drained(n)[i] \in Range(job.inputs[n])
      <4>1. i \in DOMAIN Drained(n)
        BY DrainedIs
      <4>2. Drained(n)[i] \in Range(Drained(n))
        BY <4>1 DEF Range
      <4> QED BY <4>2, DrainedIs
    <3>2. [from |-> Drained(n)[i], to |-> n] \in Range(job.ports)
      <4>1. Range(job.ports)
              = UNION {{[from |-> m, to |-> x] : m \in Range(job.inputs[x])} : x \in Nodes}
        BY JobShape DEF IsJob, Nodes
      <4> DEFINE Of(x) == {[from |-> m, to |-> x] : m \in Range(job.inputs[x])}
      <4>2. [from |-> Drained(n)[i], to |-> n] \in Of(n)
        BY <3>1
      <4>3. Range(job.ports) = UNION {Of(x) : x \in Nodes}
        BY <4>1
      <4> HIDE DEF Of
      <4> QED BY <4>2, <4>3
    <3>3. PICK k \in DOMAIN job.ports : job.ports[k] = [from |-> Drained(n)[i], to |-> n]
      BY <3>2 DEF Range
    <3>4. k \in 1..Len(job.ports)
      BY Ports DEF Channels
    <3> QED BY <3>3, <3>4
  <2>3. I \subseteq 1..Len(job.ports) /\ Len(job.ports) \in Nat
    BY Ports
  <2>4. Min(I) \in I
    <3> HIDE DEF I
    <3> QED BY <2>2, <2>3, MinAmong
  <2> QED BY <2>1, <2>2, <2>4, Ports
<1>4. \A i \in 1..Ins(n) : Out(Drained(n)[i]) = In(n)[i]
  BY <1>3, DrainedIs, OutIs
<1>5. \A i, k \in 1..Ins(n) : In(n)[i] = In(n)[k] => i = k
  BY <1>3, DrainedIs
<1> QED BY <1>1, <1>2, <1>3, <1>4, <1>5

-----------------------------------------------------------------------------
(* What a node makes of its inputs. *)

Stream == Seq(Seq(Rows))

(* What a join finds in its index is a row. *)
LEMMA FoundType ==
    ASSUME NEW r, NEW index \in Stream
    PROVE  Found(r, index) \in Seq(Rows)
<1> DEFINE I == {k \in 1..Len(index) : Key(index[k]) = Key(r)}
           k == IF I # {} THEN Max(I) ELSE 0
<1>1. Found(r, index) = IF k = 0 THEN << >> ELSE index[k]
  BY DEF Found, SelectLastInSeq
<1>2. I \subseteq 1..Len(index) /\ Len(index) \in Nat
  BY DEF Stream
<1>3. I # {} => Max(I) \in 1..Len(index)
  <2> HIDE DEF I
  <2> QED BY <1>2, MaxAmong
<1>4. k = 0 \/ k \in 1..Len(index)
  <2> HIDE DEF I
  <2> QED BY <1>3
<1> HIDE DEF k
<1>5. k \in 1..Len(index) => index[k] \in Seq(Rows)
  BY DEF Stream
<1> QED BY <1>1, <1>4, <1>5

(* What a row becomes is a stream of rows. *)
LEMMA EmitType ==
    ASSUME NEW kind, NEW r \in Seq(Rows), NEW index \in Stream
    PROVE  Emit(kind, r, index) \in Stream
<1>1. Found(r, index) \in Seq(Rows)
  BY FoundType
<1>2. PICK f \in Seq(Rows) : f = Found(r, index)
  BY <1>1
<1>3. r \o f \in Seq(Rows) /\ f \o r \in Seq(Rows)
  OBVIOUS
<1>4. [i \in DOMAIN index |-> r \o index[i]] \in Stream
  <2>1. DOMAIN index = 1..Len(index) /\ Len(index) \in Nat
    BY DEF Stream
  <2>2. \A i \in DOMAIN index : r \o index[i] \in Seq(Rows)
    BY DEF Stream
  <2> QED BY <2>1, <2>2 DEF Stream
<1>5. << >> \in Stream /\ \A x \in Seq(Rows) : <<x>> \in Stream
  BY DEF Stream
<1> QED BY <1>2, <1>3, <1>4, <1>5 DEF Emit

(* What a source reads is a stream of rows. *)
LEMMA SourceRowsType ==
    ASSUME JobOK, NEW n \in Nodes
    PROVE  SourceRows(n) \in Stream
<1> DEFINE t == job.table[n]
<1>1. t \in Seq(Rows)
  <2>1. job.table \in [Nodes -> Seq(Rows)]
    BY JobShape DEF IsJob, Nodes
  <2> QED BY <2>1
<1> HIDE DEF t
<1>2. DOMAIN t = 1..Len(t) /\ Len(t) \in Nat /\ \A i \in DOMAIN t : <<t[i]>> \in Seq(Rows)
  BY <1>1
<1>3. SourceRows(n) = [i \in DOMAIN t |-> <<t[i]>>]
  BY DEF SourceRows, t
<1> QED BY <1>2, <1>3 DEF Stream

(* The rows a join makes of each row it reads, one sequence for each. *)
Each(kind, rows, index) == [i \in DOMAIN rows |-> Emit(kind, rows[i], index)]

(* One stream for each row. *)
LEMMA EachType ==
    ASSUME NEW kind, NEW rows \in Stream, NEW index \in Stream
    PROVE  /\ Each(kind, rows, index) \in Seq(Stream)
           /\ Len(Each(kind, rows, index)) = Len(rows)
           /\ DOMAIN Each(kind, rows, index) = 1..Len(rows)
           /\ Len(rows) \in Nat
<1>1. DOMAIN rows = 1..Len(rows) /\ Len(rows) \in Nat
      /\ \A i \in DOMAIN rows : rows[i] \in Seq(Rows)
  BY DEF Stream
<1>2. \A i \in DOMAIN rows : Emit(kind, rows[i], index) \in Stream
  BY <1>1, EmitType
<1> QED BY <1>1, <1>2 DEF Each

(* What a join makes of its rows is what it makes of each, one after the other. *)
LEMMA StreamedIs ==
    ASSUME NEW n, NEW rows, NEW index
    PROVE  Streamed(n, rows, index) = FlattenSeq(Each(job.kind[n], rows, index))
BY DEF Streamed, Each

(* It is a stream of rows. *)
LEMMA StreamedType ==
    ASSUME NEW n, NEW rows \in Stream, NEW index \in Stream
    PROVE  Streamed(n, rows, index) \in Stream
<1>1. Each(job.kind[n], rows, index) \in Seq(Stream)
  BY EachType
<1> QED BY <1>1, StreamedIs, FlattenType DEF Stream

(* Of no rows it makes none. *)
LEMMA StreamedEmpty ==
    ASSUME NEW n, NEW index
    PROVE  Streamed(n, << >>, index) = << >>
<1>1. Each(job.kind[n], << >>, index) = << >>
  BY DEF Each
<1> QED BY <1>1, StreamedIs DEF FlattenSeq

(* One row more adds what it becomes. *)
LEMMA StreamedAppend ==
    ASSUME NEW n, NEW rows \in Stream, NEW index \in Stream, NEW r \in Seq(Rows)
    PROVE  Streamed(n, Append(rows, r), index)
             = Streamed(n, rows, index) \o Emit(job.kind[n], r, index)
<1> DEFINE kind == job.kind[n]
           e == Each(kind, rows, index)
           x == Emit(kind, r, index)
           f == Each(kind, Append(rows, r), index)
<1>1. e \in Seq(Stream) /\ x \in Stream /\ Len(e) = Len(rows) /\ Len(rows) \in Nat
  BY EachType, EmitType
<1>2. Append(rows, r) \in Stream
  BY DEF Stream
<1>3. f \in Seq(Stream) /\ Len(f) = Len(Append(rows, r)) /\ Len(f) = Len(rows) + 1
  <2>1. f \in Seq(Stream) /\ Len(f) = Len(Append(rows, r))
    BY <1>2, EachType
  <2>2. Len(Append(rows, r)) = Len(rows) + 1
    BY DEF Stream
  <2> QED BY <2>1, <2>2
<1>4. /\ \A i \in 1..Len(rows) : f[i] = e[i]
      /\ f[Len(rows) + 1] = x
  <2> DEFINE t == Append(rows, r)
  <2>1. /\ DOMAIN rows = 1..Len(rows) /\ DOMAIN t = 1..(Len(rows) + 1)
        /\ \A i \in 1..Len(rows) : t[i] = rows[i]
        /\ t[Len(rows) + 1] = r
    BY DEF Stream
  <2> HIDE DEF t
  <2>2. \A i \in 1..Len(rows) : i \in DOMAIN t /\ i \in DOMAIN rows
    BY <2>1
  <2>3. Len(rows) + 1 \in DOMAIN t
    BY <1>1, <2>1
  <2>4. f = [i \in DOMAIN t |-> Emit(kind, t[i], index)]
    BY DEF Each, t
  <2>5. e = [i \in DOMAIN rows |-> Emit(kind, rows[i], index)]
    BY DEF Each
  <2> HIDE DEF f, e
  <2> QED BY <2>1, <2>2, <2>3, <2>4, <2>5
<1> HIDE DEF e, f, x
<1>5. f = Append(e, x)
  BY <1>1, <1>3, <1>4
<1>6. FlattenSeq(f) = FlattenSeq(e) \o x
  BY <1>1, <1>5, FlattenAppend DEF Stream
<1> QED BY <1>6, StreamedIs DEF e, f, x

(* More rows give more, after those that were there. *)
LEMMA StreamedPrefix ==
    ASSUME NEW n, NEW rows \in Stream, NEW more \in Stream, NEW index \in Stream,
           IsPrefix(rows, more)
    PROVE  IsPrefix(Streamed(n, rows, index), Streamed(n, more, index))
<1> DEFINE kind == job.kind[n]
           e == Each(kind, rows, index)
           f == Each(kind, more, index)
<1>1. PICK u \in Stream : more = rows \o u
  BY PrefixIs DEF Stream
<1>2. /\ e \in Seq(Stream) /\ f \in Seq(Stream)
      /\ Len(e) = Len(rows) /\ Len(f) = Len(more)
      /\ Len(rows) \in Nat /\ Len(more) \in Nat
  BY EachType
<1>3. Len(rows) <= Len(more) /\ \A i \in 1..Len(rows) : more[i] = rows[i]
  BY <1>1 DEF Stream
<1>4. \A i \in 1..Len(rows) : f[i] = e[i]
  BY <1>3 DEF Each, Stream
<1> HIDE DEF e, f
<1>5. IsPrefix(e, f)
  <2>1. SubSeq(e, 1, Len(e)) = SubSeq(f, 1, Len(e))
    BY <1>2, <1>3, <1>4
  <2> QED BY <1>2, <1>3, <2>1 DEF IsPrefix
<1>6. IsPrefix(FlattenSeq(e), FlattenSeq(f))
  BY <1>2, <1>5, FlattenPrefix DEF Stream
<1> QED BY <1>6, StreamedIs DEF e, f

(* A node that reads one input passes its rows on, a node with two makes   *)
(* rows of both.                                                           *)
LEMMA ProducedIs ==
    ASSUME JobOK, NEW n \in Nodes, NEW a, NEW b
    PROVE  /\ Ins(n) = 0 => Produced(n, a, b) = SourceRows(n)
           /\ Ins(n) = 1 => Produced(n, a, b) = a
           /\ Ins(n) = 2 /\ Is(n, {"union"}) => Produced(n, a, b) = a \o b
           /\ Ins(n) = 2 /\ ~Is(n, {"union"}) => Is(n, Joins) /\ Produced(n, a, b) = Streamed(n, b, a)
<1>1. /\ Is(n, {"db_input"}) => ~Is(n, {"union"}) /\ ~Is(n, Joins)
      /\ Is(n, {"union"}) => ~Is(n, Joins)
      /\ Is(n, {"union"} \cup Joins) <=> Is(n, {"union"}) \/ Is(n, Joins)
  BY DEF Is, Joins
<1>2. CASE Is(n, {"db_input"})
  <2>1. Ins(n) = 0
    BY <1>2, InsIs
  <2> QED BY <1>1, <1>2, <2>1 DEF Produced
<1>3. CASE Is(n, {"union"})
  <2>1. Ins(n) = 2
    BY <1>1, <1>3, InsIs
  <2> QED BY <1>1, <1>3, <2>1 DEF Produced
<1>4. CASE Is(n, Joins)
  <2>1. Ins(n) = 2
    BY <1>1, <1>4, InsIs
  <2> QED BY <1>1, <1>4, <2>1 DEF Produced
<1>5. CASE ~Is(n, {"db_input"}) /\ ~Is(n, {"union"}) /\ ~Is(n, Joins)
  <2>1. Ins(n) # 0 /\ Ins(n) # 2
    BY <1>1, <1>5, InsIs
  <2> QED BY <1>5, <2>1 DEF Produced
<1> QED BY <1>2, <1>3, <1>4, <1>5

(* What a node makes is a stream of rows. *)
LEMMA ProducedType ==
    ASSUME JobOK, NEW n \in Nodes, NEW a, NEW b,
           Ins(n) >= 1 => a \in Stream, Ins(n) = 2 => b \in Stream
    PROVE  Produced(n, a, b) \in Stream
<1>1. CASE Ins(n) = 0
  BY <1>1, ProducedIs, SourceRowsType
<1>2. CASE Ins(n) = 1
  BY <1>2, ProducedIs
<1>3. CASE Ins(n) = 2 /\ Is(n, {"union"})
  <2>1. a \in Stream /\ b \in Stream
    BY <1>3
  <2>2. a \o b \in Stream
    BY <2>1 DEF Stream
  <2> QED BY <1>3, <2>2, ProducedIs
<1>4. CASE Ins(n) = 2 /\ ~Is(n, {"union"})
  <2>1. a \in Stream /\ b \in Stream
    BY <1>4
  <2> QED BY <1>4, <2>1, ProducedIs, StreamedType
<1> QED BY <1>1, <1>2, <1>3, <1>4, InsIs

(* A row of the input that is being drained adds the rows that Transform   *)
(* holds to what the node has made; one that a join collects adds none.    *)
LEMMA ProducedOne ==
    ASSUME JobOK, NEW n \in Nodes, NEW a \in Stream, NEW b, NEW r \in Seq(Rows),
           Is(n, {"map", "union"}), Ins(n) = 2 => b = << >>
    PROVE  Produced(n, Append(a, r), b) = Produced(n, a, b) \o Emit(job.kind[n], r, read[n])
<1>1. Emit(job.kind[n], r, read[n]) = <<r>>
  BY DEF Emit, Is
<1>2. Append(a, r) = a \o <<r>> /\ a \o << >> = a /\ Append(a, r) \o << >> = Append(a, r)
  BY DEF Stream
<1>3. CASE Ins(n) = 1
  BY <1>1, <1>2, <1>3, ProducedIs
<1>4. CASE Ins(n) = 2
  <2>1. Is(n, {"union"})
    BY <1>4, InsIs DEF Is, Joins
  <2>2. Produced(n, Append(a, r), b) = Append(a, r) \o b /\ Produced(n, a, b) = a \o b
    BY <1>4, <2>1, ProducedIs
  <2> QED BY <1>1, <1>2, <1>4, <2>2
<1>5. Ins(n) # 0
  BY InsIs DEF Is
<1> QED BY <1>3, <1>4, <1>5, InsIs

(* A row of the second input adds what it becomes, given the whole first. *)
LEMMA ProducedTwo ==
    ASSUME JobOK, NEW n \in Nodes, NEW a \in Stream, NEW b \in Stream, NEW r \in Seq(Rows),
           Ins(n) = 2
    PROVE  Produced(n, a, Append(b, r)) = Produced(n, a, b) \o Emit(job.kind[n], r, a)
<1> DEFINE c == Append(b, r)
<1>1. CASE Is(n, {"union"})
  <2>1. Emit(job.kind[n], r, a) = <<r>>
    BY <1>1 DEF Emit, Is
  <2>2. a \o c = (a \o b) \o <<r>>
    BY DEF Stream
  <2>3. Produced(n, a, b) = a \o b /\ Produced(n, a, c) = a \o c
    BY <1>1, ProducedIs
  <2> QED BY <2>1, <2>2, <2>3
<1>2. CASE ~Is(n, {"union"})
  <2>1. Produced(n, a, b) = Streamed(n, b, a) /\ Produced(n, a, c) = Streamed(n, c, a)
    BY <1>2, ProducedIs
  <2> QED BY <2>1, StreamedAppend
<1> QED BY <1>1, <1>2

(* A join makes nothing before its second input. *)
LEMMA ProducedNone ==
    ASSUME JobOK, NEW n \in Nodes, NEW a, Is(n, Joins)
    PROVE  Produced(n, a, << >>) = << >>
<1>1. Ins(n) = 2 /\ ~Is(n, {"union"})
  BY InsIs DEF Is, Joins
<1> QED BY <1>1, ProducedIs, StreamedEmpty

(* More of the last input gives more rows, after those that were there.    *)
LEMMA ProducedPrefix ==
    ASSUME JobOK, NEW n \in Nodes, NEW a \in Stream, NEW b \in Stream, NEW c \in Stream,
           Ins(n) = 2, IsPrefix(b, c)
    PROVE  IsPrefix(Produced(n, a, b), Produced(n, a, c))
<1>1. CASE Is(n, {"union"})
  <2>1. PICK u \in Stream : c = b \o u
    BY PrefixIs DEF Stream
  <2>2. a \o c = (a \o b) \o u /\ a \o c \in Stream /\ a \o b \in Stream
    BY <2>1 DEF Stream
  <2>3. IsPrefix(a \o b, a \o c)
    BY <2>2, PrefixIs DEF Stream
  <2> QED BY <1>1, <2>3, ProducedIs
<1>2. CASE ~Is(n, {"union"})
  BY <1>2, ProducedIs, StreamedPrefix
<1> QED BY <1>1, <1>2

(* What a node makes of a part of its first input alone comes first. *)
LEMMA ProducedFirst ==
    ASSUME JobOK, NEW n \in Nodes, NEW a \in Stream, NEW c \in Stream, NEW d \in Stream,
           Ins(n) = 2, IsPrefix(a, c)
    PROVE  IsPrefix(Produced(n, a, << >>), Produced(n, c, d))
<1>1. CASE Is(n, {"union"})
  <2>1. PICK u \in Stream : c = a \o u
    BY PrefixIs DEF Stream
  <2>2. c \o d = a \o (u \o d) /\ u \o d \in Stream /\ c \o d \in Stream /\ a \o << >> = a
    BY <2>1 DEF Stream
  <2>3. IsPrefix(a, c \o d)
    BY <2>2, PrefixIs DEF Stream
  <2> QED BY <1>1, <2>2, <2>3, ProducedIs
<1>2. CASE ~Is(n, {"union"})
  <2>1. Produced(n, a, << >>) = << >>
    BY <1>2, ProducedIs, StreamedEmpty
  <2>2. Produced(n, c, d) \in Stream
    BY ProducedType, InsIs
  <2>3. << >> \o Produced(n, c, d) = Produced(n, c, d) /\ << >> \in Stream
    BY <2>2 DEF Stream
  <2> QED BY <2>1, <2>2, <2>3, PrefixIs DEF Stream
<1> QED BY <1>1, <1>2

-----------------------------------------------------------------------------
(* The rows a job means, and the nodes they depend on, are defined by      *)
(* recursion along the flow.                                               *)

(* The rows a node means are those it makes of the rows its inputs mean. *)
LEMMA FullRowsIs ==
    ASSUME JobOK
    PROVE  \A n \in Nodes :
             /\ FullRows[n] \in Stream
             /\ FullRows[n] = Produced(n, FullRows[Drained(n)[1]], FullRows[Drained(n)[2]])
<1> DEFINE K == Len(job.kind)
           E(f, n) == Produced(n, f[Drained(n)[1]], f[Drained(n)[2]])
           H == [n \in 1..K |-> [f \in [1..K -> Stream] |-> E(f, n)]]
           F == CHOOSE f : f = [n \in Nodes |-> E(f, n)]
<1>1. K \in Nat /\ Nodes = 1..K /\ Stream # {}
  <2>1. << >> \in Stream
    BY DEF Stream
  <2> QED BY <2>1, Ports
<1> HIDE DEF K
<1>2. ASSUME NEW n \in Nodes, NEW f, \A m \in Nodes : m < n => f[m] \in Stream
      PROVE  E(f, n) \in Stream
  <2>1. Ins(n) >= 1 => f[Drained(n)[1]] \in Stream
    BY <1>2, DrainedIs, InsIs
  <2>2. Ins(n) = 2 => f[Drained(n)[2]] \in Stream
    BY <1>2, DrainedIs
  <2> QED BY <2>1, <2>2, ProducedType
<1>3. ASSUME NEW n \in Nodes, NEW f, NEW g, \A m \in Nodes : m < n => f[m] = g[m]
      PROVE  E(f, n) = E(g, n)
  <2>1. Ins(n) >= 1 => f[Drained(n)[1]] = g[Drained(n)[1]]
    BY <1>3, DrainedIs, InsIs
  <2>2. Ins(n) = 2 => f[Drained(n)[2]] = g[Drained(n)[2]]
    BY <1>3, DrainedIs
  <2>3. CASE Ins(n) = 0
    BY <2>3, ProducedIs
  <2>4. CASE Ins(n) = 1
    BY <2>1, <2>4, ProducedIs
  <2>5. CASE Ins(n) = 2
    <3>1. f[Drained(n)[1]] = g[Drained(n)[1]] /\ f[Drained(n)[2]] = g[Drained(n)[2]]
      BY <2>1, <2>2, <2>5
    <3> QED BY <3>1
  <2> QED BY <2>3, <2>4, <2>5, InsIs
<1> HIDE DEF E
<1>4. Recursion(K, Stream, H)
  <2>1. H \in [1..K -> [[1..K -> Stream] -> Stream]]
    BY <1>1, <1>2
  <2>2. \A n \in 1..K : \A f, g \in [1..K -> Stream] :
          (\A m \in 1..K : m < n => f[m] = g[m]) => H[n][f] = H[n][g]
    BY <1>1, <1>3
  <2> QED BY <2>1, <2>2 DEF Recursion
<1>5. PICK f : Solution(f, K, Stream, H)
  <2> HIDE DEF H
  <2> QED BY <1>1, <1>4, BoundedRecursion
<1>6. f = [n \in Nodes |-> E(f, n)]
  BY <1>1, <1>5 DEF Solution
<1>7. F = [n \in Nodes |-> E(F, n)]
  BY <1>6, Zenon
<1>8. FullRows = F
  BY DEF FullRows, E
<1> HIDE DEF F
<1>9. \A n \in Nodes : F[n] = E(F, n)
  BY <1>7
<1>10. \A n \in Nodes : F[n] \in Stream
  <2> DEFINE S == {n \in Nat : n \in Nodes => F[n] \in Stream}
  <2>1. ASSUME NEW n \in Nat, \A k \in Nat : k < n => k \in S PROVE n \in S
    <3> SUFFICES ASSUME n \in Nodes PROVE F[n] \in Stream
      OBVIOUS
    <3>1. \A m \in Nodes : m < n => F[m] \in Stream
      BY <1>1, <2>1
    <3> QED BY <1>2, <1>9, <3>1
  <2>2. Nat \subseteq S
    <3> HIDE DEF S
    <3> QED BY <2>1, StrongInduction
  <2> QED BY <1>1, <2>2
<1> QED BY <1>8, <1>9, <1>10 DEF E

(* A node's upstream is itself and the upstream of its inputs. *)
LEMMA UpstreamIs ==
    ASSUME JobOK
    PROVE  \A n \in Nodes :
             Upstream[n] = {n} \cup UNION {Upstream[m] : m \in Range(Drained(n))}
<1> DEFINE K == Len(job.kind)
           V == SUBSET Nodes
           E(f, n) == {n} \cup UNION {f[m] : m \in Range(job.inputs[n])}
           H == [n \in 1..K |-> [f \in [1..K -> V] |-> E(f, n)]]
           F == CHOOSE f : f = [n \in Nodes |-> E(f, n)]
<1>1. K \in Nat /\ Nodes = 1..K /\ V # {}
  BY Ports
<1> HIDE DEF K
<1>2. \A n \in Nodes : /\ Range(job.inputs[n]) = Range(Drained(n))
                       /\ \A m \in Range(job.inputs[n]) : m \in Nodes /\ m < n
  <2> SUFFICES ASSUME NEW n \in Nodes
               PROVE  \A m \in Range(Drained(n)) : m \in Nodes /\ m < n
    BY DrainedIs
  <2> QED BY DrainedIs DEF Range
<1>3. ASSUME NEW n \in Nodes, NEW f \in [Nodes -> V]
      PROVE  E(f, n) \in V
  BY <1>2
<1>4. ASSUME NEW n \in Nodes, NEW f, NEW g, \A m \in Nodes : m < n => f[m] = g[m]
      PROVE  E(f, n) = E(g, n)
  <2>1. \A m \in Range(job.inputs[n]) : f[m] = g[m]
    BY <1>2, <1>4
  <2>2. {f[m] : m \in Range(job.inputs[n])} = {g[m] : m \in Range(job.inputs[n])}
    BY <2>1
  <2> QED BY <2>2
<1> HIDE DEF E, V
<1>5. Recursion(K, V, H)
  <2>1. H \in [1..K -> [[1..K -> V] -> V]]
    BY <1>1, <1>3
  <2>2. \A n \in 1..K : \A f, g \in [1..K -> V] :
          (\A m \in 1..K : m < n => f[m] = g[m]) => H[n][f] = H[n][g]
    BY <1>1, <1>4
  <2> QED BY <2>1, <2>2 DEF Recursion
<1>6. PICK f : Solution(f, K, V, H)
  <2> HIDE DEF H
  <2> QED BY <1>1, <1>5, BoundedRecursion
<1>7. f = [n \in Nodes |-> E(f, n)]
  BY <1>1, <1>6 DEF Solution
<1>8. F = [n \in Nodes |-> E(F, n)]
  BY <1>7, Zenon
<1>9. Upstream = F
  BY DEF Upstream, E
<1> HIDE DEF F
<1>10. \A n \in Nodes : F[n] = E(F, n)
  BY <1>8
<1> QED BY <1>2, <1>9, <1>10 DEF E

(* What skews a node, by the number of its inputs. *)
LEMMA SkewingIs ==
    ASSUME JobOK
    PROVE  \A n \in Nodes :
             /\ Ins(n) = 0 => Skewing[n] = {}
             /\ Ins(n) = 1 => Skewing[n] = Skewing[Drained(n)[1]]
             /\ Ins(n) = 2 => Skewing[n] = Upstream[Drained(n)[1]] \cup Skewing[Drained(n)[2]]
<1> DEFINE K == Len(job.kind)
           V == SUBSET UNION {Upstream[n] : n \in Nodes}
           E(f, n) == LET in == Drained(n) IN
                      CASE Len(in) = 0 -> {}
                        [] Len(in) = 1 -> f[in[1]]
                        [] OTHER       -> Upstream[in[1]] \cup f[in[2]]
           H == [n \in 1..K |-> [f \in [1..K -> V] |-> E(f, n)]]
           F == CHOOSE f : f = [n \in Nodes |-> E(f, n)]
<1>1. K \in Nat /\ Nodes = 1..K /\ V # {}
  BY Ports
<1> HIDE DEF K
<1>2. ASSUME NEW n \in Nodes, NEW f
      PROVE  /\ Ins(n) = 0 => E(f, n) = {}
             /\ Ins(n) = 1 => E(f, n) = f[Drained(n)[1]]
             /\ Ins(n) = 2 => E(f, n) = Upstream[Drained(n)[1]] \cup f[Drained(n)[2]]
  <2>1. PICK l : l = Len(Drained(n)) /\ l = Ins(n)
    BY DrainedIs
  <2>2. E(f, n) = CASE l = 0 -> {}
                    [] l = 1 -> f[Drained(n)[1]]
                    [] OTHER -> Upstream[Drained(n)[1]] \cup f[Drained(n)[2]]
    BY <2>1, Zenon
  <2> HIDE DEF E
  <2> QED BY <2>1, <2>2
<1>3. ASSUME NEW n \in Nodes, NEW f \in [Nodes -> V]
      PROVE  E(f, n) \in V
  <2> HIDE DEF E
  <2>1. CASE Ins(n) = 0
    BY <1>2, <2>1
  <2>2. CASE Ins(n) = 1
    <3>1. Drained(n)[1] \in Nodes
      BY <2>2, DrainedIs
    <3> QED BY <1>2, <2>2, <3>1
  <2>3. CASE Ins(n) = 2
    <3>1. Drained(n)[1] \in Nodes /\ Drained(n)[2] \in Nodes
      BY <2>3, DrainedIs
    <3>2. Upstream[Drained(n)[1]] \in V /\ f[Drained(n)[2]] \in V
      BY <3>1
    <3> QED BY <1>2, <2>3, <3>2
  <2> QED BY <2>1, <2>2, <2>3, InsIs
<1>4. ASSUME NEW n \in Nodes, NEW f, NEW g, \A m \in Nodes : m < n => f[m] = g[m]
      PROVE  E(f, n) = E(g, n)
  <2> HIDE DEF E
  <2>1. CASE Ins(n) = 0
    BY <1>2, <2>1
  <2>2. CASE Ins(n) = 1
    <3>1. f[Drained(n)[1]] = g[Drained(n)[1]]
      BY <1>4, <2>2, DrainedIs
    <3> QED BY <1>2, <2>2, <3>1
  <2>3. CASE Ins(n) = 2
    <3>1. f[Drained(n)[2]] = g[Drained(n)[2]]
      BY <1>4, <2>3, DrainedIs
    <3> QED BY <1>2, <2>3, <3>1
  <2> QED BY <2>1, <2>2, <2>3, InsIs
<1> HIDE DEF E, V
<1>5. Recursion(K, V, H)
  <2>1. H \in [1..K -> [[1..K -> V] -> V]]
    BY <1>1, <1>3
  <2>2. \A n \in 1..K : \A f, g \in [1..K -> V] :
          (\A m \in 1..K : m < n => f[m] = g[m]) => H[n][f] = H[n][g]
    BY <1>1, <1>4
  <2> QED BY <2>1, <2>2 DEF Recursion
<1>6. PICK f : Solution(f, K, V, H)
  <2> HIDE DEF H
  <2> QED BY <1>1, <1>5, BoundedRecursion
<1>7. f = [n \in Nodes |-> E(f, n)]
  BY <1>1, <1>6 DEF Solution
<1>8. F = [n \in Nodes |-> E(F, n)]
  BY <1>7, Zenon
<1>9. Skewing = F
  BY DEF Skewing, E
<1> HIDE DEF F
<1>10. \A n \in Nodes : F[n] = E(F, n)
  BY <1>8
<1> QED BY <1>2, <1>9, <1>10

-----------------------------------------------------------------------------
(* The inductive invariant.  The rows a node has received leave no trace   *)
(* in the state once it has used them: got[k] stands for those of channel  *)
(* k, and the invariant says that there is such a history.                 *)

(* What was sent into a channel, and what its reader has made of the rows  *)
(* it got.                                                                 *)
Sent(got, k) == got[k] \o buf[k]

Given(got, n, i) == IF i <= Ins(n) THEN got[In(n)[i]] ELSE << >>

Made(got, n) == Produced(n, Given(got, n, 1), Given(got, n, 2))

(* A node's life, and its channel, which is open until it ends. *)
LifeInv(n) ==
    /\ phase[n] \in 1..(Ins(n) + 1)
    /\ state[n] = "query" => held[n] = << >>
    /\ n \in errs => state[n] = "done"
    /\ state[n] = "done" /\ n \notin errs => phase[n] = Ins(n) + 1 /\ held[n] = << >>
    /\ ~Is(n, Outputs) => (Out(n) \in closed <=> state[n] = "done")

(* The inputs are drained one after the other, each to its end. *)
DrainInv(got, n) ==
    \A i \in 1..Ins(n) :
        /\ i > phase[n] => got[In(n)[i]] = << >>
        /\ i < phase[n] => In(n)[i] \in closed /\ buf[In(n)[i]] = << >>

(* What a node has sent and holds is what it has made of what it got. *)
SendInv(got, n) ==
    /\ Is(n, Joins) => read[n] = got[In(n)[1]]
    /\ ~Is(n, Outputs) =>
          /\ IsPrefix(Sent(got, Out(n)), Made(got, n))
          /\ n \notin errs /\ state[n] # "query" => Sent(got, Out(n)) \o held[n] = Made(got, n)
          /\ state[n] = "query" => Sent(got, Out(n)) = << >>

(* What an output has stored and holds is what it got. *)
StoreInv(got, n) ==
    /\ Is(n, {"db_output", "log"}) =>
          /\ IsPrefix(stored[n], got[In(n)[1]])
          /\ n \notin errs => stored[n] \o held[n] = got[In(n)[1]]
    /\ Is(n, {"db_output"}) /\ Draining(n) => Len(stored[n]) % BatchSize = 0

NodeInv(got, n) == LifeInv(n) /\ DrainInv(got, n) /\ SendInv(got, n) /\ StoreInv(got, n)

Flow(got) == got \in [Channels -> Stream] /\ \A n \in Nodes : NodeInv(got, n)

FlowInv == \E got : Flow(got)

(* Prints and mails wait for nothing. *)
SinksHoldNothing == \A n \in Nodes : Is(n, {"log", "email"}) => held[n] = << >>

(* Only a source has a query to make. *)
SourcesQuery == \A n \in Nodes : state[n] = "query" => Is(n, {"db_input"})

TypeInv == TypeOK /\ SinksHoldNothing /\ SourcesQuery

ResultInv == result = "ok" => errs = {} /\ \A n \in Nodes : state[n] = "done"

(* A node whose ancestors have not failed has, when it is done, sent or    *)
(* stored everything; and while it is not, a prefix, as long as no failure *)
(* can do more than cut its rows short.                                    *)
LEMMA FlowMeans ==
    ASSUME TypeInv, NEW got, Flow(got)
    PROVE  \A n \in Nodes :
             /\ n \in Upstream[n]
             /\ Skewing[n] \subseteq Upstream[n]
             /\ ~Is(n, Outputs) /\ Skewing[n] \cap errs = {} =>
                    IsPrefix(Sent(got, Out(n)), FullRows[n])
             /\ ~Is(n, Outputs) /\ Upstream[n] \cap errs = {} /\ state[n] = "done" =>
                    Sent(got, Out(n)) = FullRows[n]
             /\ Is(n, {"db_output", "log"}) /\ Skewing[n] \cap errs = {} =>
                    IsPrefix(stored[n], FullRows[n])
             /\ Is(n, {"db_output", "log"}) /\ Upstream[n] \cap errs = {} /\ state[n] = "done" =>
                    stored[n] = FullRows[n]
<1> DEFINE Means(n) ==
             /\ n \in Upstream[n]
             /\ Skewing[n] \subseteq Upstream[n]
             /\ ~Is(n, Outputs) /\ Skewing[n] \cap errs = {} =>
                    IsPrefix(Sent(got, Out(n)), FullRows[n])
             /\ ~Is(n, Outputs) /\ Upstream[n] \cap errs = {} /\ state[n] = "done" =>
                    Sent(got, Out(n)) = FullRows[n]
             /\ Is(n, {"db_output", "log"}) /\ Skewing[n] \cap errs = {} =>
                    IsPrefix(stored[n], FullRows[n])
             /\ Is(n, {"db_output", "log"}) /\ Upstream[n] \cap errs = {} /\ state[n] = "done" =>
                    stored[n] = FullRows[n]
<1>0. got \in [Channels -> Stream] /\ \A n \in Nodes : NodeInv(got, n)
  BY DEF Flow
<1>1. JobOK
  BY DEF TypeInv, TypeOK, JobOK
<1>2. /\ \A n \in Nodes : held[n] \in Stream /\ stored[n] \in Stream
      /\ \A k \in Channels : buf[k] \in Stream /\ got[k] \in Stream
  BY <1>0 DEF TypeInv, TypeOK, Stream
<1>3. \A k \in Channels : Sent(got, k) \in Stream /\ IsPrefix(got[k], Sent(got, k))
  <2> SUFFICES ASSUME NEW k \in Channels
               PROVE  Sent(got, k) \in Stream /\ IsPrefix(got[k], Sent(got, k))
    OBVIOUS
  <2>1. got[k] \in Stream /\ buf[k] \in Stream /\ got[k] \o buf[k] \in Stream
    BY <1>2 DEF Stream
  <2> QED BY <2>1, PrefixIs DEF Sent, Stream
<1>4. \A n \in Nodes : FullRows[n] \in Stream
  BY <1>1, FullRowsIs
<1>5. ASSUME NEW n \in Nodes, \A m \in Nodes : m < n => Means(m)
      PROVE  Means(n)
  <2> DEFINE src(i) == Drained(n)[i]
             ch(i)  == In(n)[i]
             M      == Made(got, n)
  <2>1. ASSUME NEW i \in 1..Ins(n)
        PROVE  /\ src(i) \in Nodes /\ src(i) < n /\ ~Is(src(i), Outputs)
               /\ ch(i) \in Channels /\ Out(src(i)) = ch(i)
    <3>1. src(i) \in Nodes /\ src(i) < n /\ ch(i) \in Channels /\ Out(src(i)) = ch(i)
      BY <1>1, DrainedIs, InIs
    <3>2. ch(i) # 0
      BY <1>1, <3>1, Ports
    <3> QED BY <1>1, <3>1, <3>2, OutIs
  <2>2. n \in Upstream[n] /\ \A i \in 1..Ins(n) : Upstream[src(i)] \subseteq Upstream[n]
    <3>1. Upstream[n] = {n} \cup UNION {Upstream[m] : m \in Range(Drained(n))}
      BY <1>1, UpstreamIs
    <3>2. \A i \in 1..Ins(n) : src(i) \in Range(Drained(n))
      BY <1>1, DrainedIs DEF Range
    <3> QED BY <3>1, <3>2
  <2>3. \A i \in 1..Ins(n) : Means(src(i))
    BY <1>5, <2>1
  <2>4. Skewing[n] \subseteq Upstream[n]
    <3>1. CASE Ins(n) = 0
      BY <1>1, <3>1, SkewingIs
    <3>2. CASE Ins(n) = 1
      <4>1. 1 \in 1..Ins(n)
        BY <3>2
      <4>2. Skewing[src(1)] \subseteq Upstream[n]
        BY <2>2, <2>3, <4>1
      <4> QED BY <1>1, <3>2, <4>2, SkewingIs
    <3>3. CASE Ins(n) = 2
      <4>1. 1 \in 1..Ins(n) /\ 2 \in 1..Ins(n)
        BY <3>3
      <4>2. Upstream[src(1)] \subseteq Upstream[n] /\ Skewing[src(2)] \subseteq Upstream[n]
        BY <2>2, <2>3, <4>1
      <4> QED BY <1>1, <3>3, <4>2, SkewingIs
    <3> QED BY <1>1, <3>1, <3>2, <3>3, InsIs
  <2>5. ASSUME NEW i \in 1..Ins(n), Skewing[src(i)] \cap errs = {}
        PROVE  IsPrefix(got[ch(i)], FullRows[src(i)])
    <3>1. IsPrefix(Sent(got, ch(i)), FullRows[src(i)])
      BY <2>1, <2>3, <2>5
    <3>2. /\ IsPrefix(got[ch(i)], Sent(got, ch(i)))
          /\ got[ch(i)] \in Stream /\ Sent(got, ch(i)) \in Stream /\ FullRows[src(i)] \in Stream
      BY <1>2, <1>3, <1>4, <2>1
    <3> QED BY <3>1, <3>2, PrefixTrans DEF Stream
  <2>6. ASSUME NEW i \in 1..Ins(n), Upstream[src(i)] \cap errs = {}, i < phase[n]
        PROVE  got[ch(i)] = FullRows[src(i)]
    <3>1. ch(i) \in closed /\ buf[ch(i)] = << >>
      BY <1>0, <2>6 DEF NodeInv, DrainInv
    <3>2. state[src(i)] = "done"
      BY <1>0, <2>1, <3>1 DEF NodeInv, LifeInv
    <3>3. Sent(got, ch(i)) = FullRows[src(i)]
      BY <2>1, <2>3, <2>6, <3>2
    <3>4. got[ch(i)] \in Stream
      BY <1>2, <2>1
    <3>5. Sent(got, ch(i)) = got[ch(i)]
      BY <3>1, <3>4 DEF Sent, Stream
    <3> QED BY <3>3, <3>5
  <2>7. /\ Ins(n) >= 1 => Given(got, n, 1) = got[ch(1)] /\ got[ch(1)] \in Stream
        /\ Ins(n) = 2 => Given(got, n, 2) = got[ch(2)] /\ got[ch(2)] \in Stream
        /\ M \in Stream
    <3>1. /\ Ins(n) >= 1 => Given(got, n, 1) = got[ch(1)] /\ got[ch(1)] \in Stream
          /\ Ins(n) = 2 => Given(got, n, 2) = got[ch(2)] /\ got[ch(2)] \in Stream
      BY <1>1, <1>2, <2>1, InsIs DEF Given
    <3> QED BY <1>1, <3>1, ProducedType DEF Made
  <2>8. phase[n] \in 1..(Ins(n) + 1)
    BY <1>0 DEF NodeInv, LifeInv
  <2>9. Skewing[n] \cap errs = {} => IsPrefix(M, FullRows[n])
    <3> SUFFICES ASSUME Skewing[n] \cap errs = {} PROVE IsPrefix(M, FullRows[n])
      OBVIOUS
    <3>0. FullRows[n] = Produced(n, FullRows[src(1)], FullRows[src(2)])
      BY <1>1, FullRowsIs
    <3>1. CASE Ins(n) = 0
      <4>1. M = FullRows[n]
        BY <1>1, <3>0, <3>1, ProducedIs DEF Made
      <4> QED BY <2>7, <4>1, PrefixSame DEF Stream
    <3>2. CASE Ins(n) = 1
      <4>1. M = got[ch(1)] /\ FullRows[n] = FullRows[src(1)] /\ Skewing[n] = Skewing[src(1)]
        BY <1>1, <2>7, <3>0, <3>2, ProducedIs, SkewingIs DEF Made
      <4>2. 1 \in 1..Ins(n)
        BY <3>2
      <4> QED BY <2>5, <4>1, <4>2
    <3>3. CASE Ins(n) = 2
      <4>1. /\ 1 \in 1..Ins(n) /\ 2 \in 1..Ins(n)
            /\ src(1) \in Nodes /\ src(2) \in Nodes
            /\ FullRows[src(1)] \in Stream /\ FullRows[src(2)] \in Stream
            /\ got[ch(1)] \in Stream /\ got[ch(2)] \in Stream
        BY <1>4, <2>1, <2>7, <3>3
      <4>2. Upstream[src(1)] \cap errs = {} /\ Skewing[src(2)] \cap errs = {}
        BY <1>1, <3>3, SkewingIs
      <4>3. M = Produced(n, got[ch(1)], got[ch(2)])
        BY <2>7, <3>3 DEF Made
      <4>4. CASE phase[n] = 1
        <5>1. got[ch(2)] = << >>
          BY <1>0, <4>1, <4>4 DEF NodeInv, DrainInv
        <5>2. Skewing[src(1)] \cap errs = {}
          BY <2>3, <4>1, <4>2
        <5>3. IsPrefix(got[ch(1)], FullRows[src(1)])
          BY <2>5, <4>1, <5>2
        <5> QED BY <1>1, <3>0, <3>3, <4>1, <4>3, <5>1, <5>3, ProducedFirst
      <4>5. CASE phase[n] # 1
        <5>1. got[ch(1)] = FullRows[src(1)]
          BY <2>6, <2>8, <4>1, <4>2, <4>5
        <5>2. IsPrefix(got[ch(2)], FullRows[src(2)])
          BY <2>5, <4>1, <4>2
        <5> QED BY <1>1, <3>0, <3>3, <4>1, <4>3, <5>1, <5>2, ProducedPrefix
      <4> QED BY <4>4, <4>5
    <3> QED BY <1>1, <3>1, <3>2, <3>3, InsIs
  <2>10. ASSUME Upstream[n] \cap errs = {}, state[n] = "done"
         PROVE  n \notin errs /\ held[n] = << >> /\ M = FullRows[n]
    <3>0. FullRows[n] = Produced(n, FullRows[src(1)], FullRows[src(2)])
      BY <1>1, FullRowsIs
    <3>1. n \notin errs
      BY <2>2, <2>10
    <3>2. phase[n] = Ins(n) + 1 /\ held[n] = << >>
      BY <1>0, <2>10, <3>1 DEF NodeInv, LifeInv
    <3>3. \A i \in 1..Ins(n) : got[ch(i)] = FullRows[src(i)]
      <4> SUFFICES ASSUME NEW i \in 1..Ins(n) PROVE got[ch(i)] = FullRows[src(i)]
        OBVIOUS
      <4>1. i < phase[n] /\ Upstream[src(i)] \cap errs = {}
        BY <1>1, <2>2, <2>10, <3>2, InsIs
      <4> QED BY <2>6, <4>1
    <3>4. CASE Ins(n) = 0
      BY <1>1, <3>0, <3>1, <3>2, <3>4, ProducedIs DEF Made
    <3>5. CASE Ins(n) = 1
      <4>1. got[ch(1)] = FullRows[src(1)]
        BY <3>3, <3>5
      <4> QED BY <1>1, <2>7, <3>0, <3>1, <3>2, <3>5, <4>1, ProducedIs DEF Made
    <3>6. CASE Ins(n) = 2
      <4>1. got[ch(1)] = FullRows[src(1)] /\ got[ch(2)] = FullRows[src(2)]
        BY <3>3, <3>6
      <4> QED BY <2>7, <3>0, <3>1, <3>2, <3>6, <4>1 DEF Made
    <3> QED BY <1>1, <3>4, <3>5, <3>6, InsIs
  <2>11. CASE ~Is(n, Outputs)
    <3>1. ~Is(n, {"db_output", "log"})
      BY <2>11 DEF Is, Outputs
    <3>2. Sent(got, Out(n)) \in Stream /\ FullRows[n] \in Stream
      BY <1>1, <1>3, <1>4, <2>11, OutIs
    <3>3. /\ IsPrefix(Sent(got, Out(n)), M)
          /\ n \notin errs /\ state[n] # "query" => Sent(got, Out(n)) \o held[n] = M
      BY <1>0, <2>11 DEF NodeInv, SendInv
    <3>4. Skewing[n] \cap errs = {} => IsPrefix(Sent(got, Out(n)), FullRows[n])
      BY <2>7, <2>9, <3>2, <3>3, PrefixTrans DEF Stream
    <3>5. Upstream[n] \cap errs = {} /\ state[n] = "done" => Sent(got, Out(n)) = FullRows[n]
      <4> SUFFICES ASSUME Upstream[n] \cap errs = {}, state[n] = "done"
                   PROVE  Sent(got, Out(n)) = FullRows[n]
        OBVIOUS
      <4>1. Sent(got, Out(n)) \o << >> = FullRows[n]
        BY <2>10, <3>3
      <4> QED BY <3>2, <4>1 DEF Stream
    <3> QED BY <2>2, <2>4, <2>11, <3>1, <3>4, <3>5
  <2>12. CASE Is(n, {"db_output", "log"})
    <3>1. Is(n, Outputs) /\ Ins(n) = 1
      BY <1>1, <2>12, InsIs DEF Is, Outputs
    <3>2. M = got[ch(1)]
      BY <1>1, <2>7, <3>1, ProducedIs DEF Made
    <3>3. /\ IsPrefix(stored[n], M)
          /\ n \notin errs => stored[n] \o held[n] = M
      BY <1>0, <2>12, <3>2 DEF NodeInv, StoreInv
    <3>4. Skewing[n] \cap errs = {} => IsPrefix(stored[n], FullRows[n])
      BY <1>2, <1>4, <2>7, <2>9, <3>3, PrefixTrans DEF Stream
    <3>5. Upstream[n] \cap errs = {} /\ state[n] = "done" => stored[n] = FullRows[n]
      <4> SUFFICES ASSUME Upstream[n] \cap errs = {}, state[n] = "done"
                   PROVE  stored[n] = FullRows[n]
        OBVIOUS
      <4>1. stored[n] \o << >> = FullRows[n]
        BY <2>10, <3>3
      <4> QED BY <1>2, <4>1 DEF Stream
    <3> QED BY <2>2, <2>4, <3>1, <3>4, <3>5
  <2>13. CASE Is(n, Outputs) /\ ~Is(n, {"db_output", "log"})
    BY <2>2, <2>4, <2>13
  <2> QED BY <2>11, <2>12, <2>13
<1> HIDE DEF Means
<1>6. \A n \in Nodes : Means(n)
  <2> DEFINE S == {n \in Nat : n \in Nodes => Means(n)}
  <2>1. \A n \in Nat : (\A k \in Nat : k < n => k \in S) => n \in S
    <3> SUFFICES ASSUME NEW n \in Nat, \A k \in Nat : k < n => k \in S, n \in Nodes
                 PROVE  Means(n)
      OBVIOUS
    <3>1. \A m \in Nodes : m < n => Means(m)
      BY <1>1, Ports
    <3> QED BY <1>5, <3>1
  <2>2. Nat \subseteq S
    <3> HIDE DEF S
    <3> QED BY <2>1, StrongInduction
  <2>3. Nodes \subseteq Nat
    BY <1>1, Ports
  <2> QED BY <2>2, <2>3
<1> QED BY <1>6 DEF Means

-----------------------------------------------------------------------------
(* The steps keep the types. *)

(* The program does not change while it runs. *)
LEMMA JobStays ==
    ASSUME UNCHANGED job
    PROVE  /\ Nodes' = Nodes /\ Channels' = Channels
           /\ \A n, S : Is(n, S)' <=> Is(n, S)
           /\ \A n : Out(n)' = Out(n) /\ In(n)' = In(n) /\ Ins(n)' = Ins(n)
           /\ \A n, a, b : Produced(n, a, b)' = Produced(n, a, b)
<1>1. Nodes' = Nodes /\ Channels' = Channels
  BY DEF Nodes, Channels
<1>2. \A n, S : Is(n, S)' <=> Is(n, S)
  BY DEF Is
<1>3. \A n : Out(n)' = Out(n)
  BY DEF Out, SelectInSeq
<1>4. \A n : In(n)' = In(n)
  BY DEF In, Drained, Is, SelectInSeq
<1>5. \A n : Ins(n)' = Ins(n)
  BY DEF Ins
<1>6. \A n, a, b : Produced(n, a, b)' = Produced(n, a, b)
  BY DEF Produced, Is, SourceRows, Streamed
<1> QED BY <1>1, <1>2, <1>3, <1>4, <1>5, <1>6

(* The types, one by one. *)
Types ==
    /\ job \in Jobs
    /\ ctx \in {"live", "cancelled"}
    /\ state \in [Nodes -> {"query", "loop", "done"}]
    /\ phase \in [Nodes -> 1..3]
    /\ read \in [Nodes -> Stream] /\ held \in [Nodes -> Stream] /\ stored \in [Nodes -> Stream]
    /\ buf \in [Channels -> Stream]
    /\ closed \subseteq Channels
    /\ errs \subseteq Nodes
    /\ result \in {"none", "ok", "failed"}

Sizes ==
    /\ \A n \in Nodes : Is(n, {"db_output"}) => Len(held[n]) <= BatchSize
    /\ \A k \in Channels : Len(buf[k]) <= Cap

(* The types and sizes are the type invariant. *)
LEMMA TypeIs == TypeInv <=> Types /\ Sizes /\ SinksHoldNothing /\ SourcesQuery
BY DEF TypeInv, TypeOK, Types, Sizes, Stream

(* They hold at the start. *)
LEMMA TypeInit == Init => TypeInv
<1> SUFFICES ASSUME Init PROVE Types /\ Sizes /\ SinksHoldNothing /\ SourcesQuery
  BY TypeIs
<1>1. << >> \in Stream /\ Len(<< >>) = 0 /\ Cap \in Nat /\ BatchSize \in Nat
  BY PipelineAssumption DEF Stream
<1>2. Types
  BY <1>1 DEF Init, Types
<1>3. Sizes
  BY <1>1 DEF Init, Sizes
<1> QED BY <1>2, <1>3 DEF Init, SinksHoldNothing, SourcesQuery

(* Ending keeps the types. *)
LEMMA EndsTypes ==
    ASSUME TypeInv, NEW n \in Nodes, NEW err, Ends(n, err)
    PROVE  /\ state' \in [Nodes -> {"query", "loop", "done"}]
           /\ closed' \subseteq Channels
           /\ errs' \subseteq Nodes
<1>1. JobOK /\ Types
  BY TypeIs DEF Types, JobOK
<1>2. Out(n) = 0 \/ Out(n) \in Channels
  BY <1>1, OutIs
<1> QED BY <1>1, <1>2 DEF Ends, Types

(* What a receive does, whoever the receiver is. *)
LEMMA ReceivesTypes ==
    ASSUME TypeInv, NEW n \in Nodes, Receives(n)
    PROVE  /\ phase[n] \in 1..Ins(n)
           /\ Drain(n) = In(n)[phase[n]] /\ Drain(n) \in Channels
           /\ state[n] = "loop"
           /\ Next1(n) \in Seq(Rows)
           /\ buf[Drain(n)] # << >> /\ buf[Drain(n)] \in Stream
           /\ buf' = [buf EXCEPT ![Drain(n)] = Tail(buf[Drain(n)])]
           /\ buf' \in [Channels -> Stream]
           /\ \A k \in Channels : Len(buf'[k]) <= Cap
<1>1. JobOK /\ Types /\ Sizes
  BY TypeIs DEF Types, JobOK
<1>2. phase[n] \in 1..Ins(n) /\ state[n] = "loop"
  <2>1. phase[n] \in 1..3 /\ Len(In(n)) = Ins(n) /\ Ins(n) \in Nat
    BY <1>1, InIs, InsIs DEF Types
  <2> QED BY <2>1 DEF Receives, Draining
<1>3. Drain(n) \in Channels
  BY <1>1, <1>2, InIs DEF Drain
<1> DEFINE b == buf[Drain(n)]
<1>4. b \in Stream /\ b # << >> /\ buf' = [buf EXCEPT ![Drain(n)] = Tail(b)]
  BY <1>1, <1>3 DEF Types, Receives
<1> HIDE DEF b
<1>5. /\ Head(b) \in Seq(Rows) /\ Tail(b) \in Stream
      /\ Len(Tail(b)) <= Len(b) /\ Len(b) \in Nat /\ Len(Tail(b)) \in Nat
  BY <1>4 DEF Stream
<1>6. buf' \in [Channels -> Stream]
  BY <1>1, <1>4, <1>5 DEF Types
<1>7. \A k \in Channels : Len(buf'[k]) <= Cap
  <2>1. Len(b) <= Cap /\ Cap \in Nat
    BY <1>1, <1>3, PipelineAssumption DEF Sizes, b
  <2>2. Len(Tail(b)) <= Cap
    BY <1>5, <2>1
  <2> QED BY <1>1, <1>3, <1>4, <2>2 DEF Types, Sizes
<1> QED BY <1>2, <1>3, <1>4, <1>5, <1>6, <1>7 DEF Drain, Next1, b

(* The sizes and the quiet sinks, by what becomes of the rows held. *)
LEMMA HeldTypes ==
    ASSUME TypeInv, UNCHANGED job, NEW n \in Nodes, NEW h \in Stream,
           held' = [held EXCEPT ![n] = h],
           Is(n, {"db_output"}) => Len(h) <= BatchSize,
           Is(n, {"log", "email"}) => h = << >>
    PROVE  /\ held' \in [Nodes -> Stream]
           /\ SinksHoldNothing'
           /\ \A m \in Nodes' : Is(m, {"db_output"})' => Len(held'[m]) <= BatchSize
<1>1. Types /\ Sizes /\ SinksHoldNothing
  BY TypeIs
<1>2. Nodes' = Nodes /\ \A m, S : Is(m, S)' <=> Is(m, S)
  BY JobStays
<1>3. /\ held' \in [Nodes -> Stream] /\ held'[n] = h
      /\ \A m \in Nodes : m # n => held'[m] = held[m]
  BY <1>1 DEF Types
<1>4. SinksHoldNothing'
  BY <1>1, <1>2, <1>3 DEF SinksHoldNothing
<1> QED BY <1>1, <1>2, <1>3, <1>4 DEF Sizes

(* Every step keeps the types, the sizes and the quiet sinks. *)
LEMMA TypeStep == TypeInv /\ [Next]_vars => TypeInv'
<1> SUFFICES ASSUME TypeInv, [Next]_vars
             PROVE  Types' /\ Sizes' /\ SinksHoldNothing' /\ SourcesQuery'
  BY DEF TypeInv, TypeOK, Types, Sizes, Stream
<1>1. Types /\ Sizes /\ SinksHoldNothing /\ SourcesQuery
  BY TypeIs
<1>2. UNCHANGED job
  BY DEF Next, Node, vars, Cancel, Finish, Query, SourceFails, Collect, Transform, Batch,
         Consume, InputEnds, Send, Abandon, Flush, FlushFails, Return
<1>3. /\ Nodes' = Nodes /\ Channels' = Channels
      /\ \A n, S : Is(n, S)' <=> Is(n, S)
  BY <1>2, JobStays
<1>4. JobOK
  BY <1>1 DEF Types, JobOK
<1>5. << >> \in Stream /\ Len(<< >>) <= BatchSize /\ Cap \in Nat /\ BatchSize \in Nat \ {0}
  BY PipelineAssumption DEF Stream
<1>6. (UNCHANGED held) => /\ SinksHoldNothing'
                          /\ \A m \in Nodes' : Is(m, {"db_output"})' => Len(held'[m]) <= BatchSize
  BY <1>1, <1>3 DEF SinksHoldNothing, Sizes
<1>7. (UNCHANGED buf) => \A k \in Channels' : Len(buf'[k]) <= Cap
  BY <1>1, <1>3 DEF Sizes
<1>12. SourcesQuery'
  <2>1. CASE UNCHANGED state
    BY <1>1, <1>3, <2>1 DEF SourcesQuery
  <2>2. CASE ~ UNCHANGED state
    <3>1. PICK n \in Nodes : state' = [state EXCEPT ![n] = "loop"] \/ state' = [state EXCEPT ![n] = "done"]
      BY <2>2 DEF Next, Node, vars, Cancel, Finish, Query, SourceFails, Collect, Transform, Batch,
           Consume, InputEnds, Send, Abandon, Flush, FlushFails, Return, Ends
    <3>2. \A m \in Nodes : state'[m] = "query" => state[m] = "query"
      BY <1>1, <3>1 DEF Types
    <3> QED BY <1>1, <1>3, <3>2 DEF SourcesQuery
  <2> QED BY <2>1, <2>2
<1>8. CASE UNCHANGED vars
  BY <1>1, <1>3, <1>6, <1>7, <1>12, <1>8 DEF vars, Types, Sizes
<1>9. CASE Cancel
  BY <1>1, <1>3, <1>6, <1>7, <1>12, <1>9 DEF Cancel, Types, Sizes
<1>10. CASE Finish
  BY <1>1, <1>3, <1>6, <1>7, <1>12, <1>10 DEF Finish, Types, Sizes
<1>11. ASSUME NEW n \in Nodes, Node(n) PROVE Types' /\ Sizes' /\ SinksHoldNothing'
  <2>1. CASE Query(n)
    <3>1. SourceRows(n) \in Stream /\ held' = [held EXCEPT ![n] = SourceRows(n)]
      BY <1>4, <2>1, SourceRowsType DEF Query
    <3>2. ~Is(n, {"db_output"}) /\ ~Is(n, {"log", "email"})
      BY <1>1, <2>1 DEF Query, SourcesQuery, Is
    <3> QED BY <1>1, <1>2, <1>3, <1>7, <2>1, <3>1, <3>2, HeldTypes DEF Query, Types, Sizes
  <2>2. CASE SourceFails(n)
    <3>1. held' = [held EXCEPT ![n] = << >>] /\ Ends(n, TRUE)
      BY <2>2 DEF SourceFails
    <3>2. /\ held' \in [Nodes -> Stream] /\ SinksHoldNothing'
          /\ \A m \in Nodes' : Is(m, {"db_output"})' => Len(held'[m]) <= BatchSize
      BY <1>2, <1>5, <3>1, HeldTypes
    <3> QED BY <1>1, <1>3, <1>7, <2>2, <3>1, <3>2, EndsTypes DEF SourceFails, Types, Sizes
  <2>3. CASE Collect(n)
    <3>1. /\ Next1(n) \in Seq(Rows)
          /\ buf' \in [Channels -> Stream] /\ \A k \in Channels : Len(buf'[k]) <= Cap
      BY <2>3, ReceivesTypes DEF Collect
    <3>2. read' = [read EXCEPT ![n] = Append(read[n], Next1(n))]
      BY <2>3 DEF Collect
    <3>3. Append(read[n], Next1(n)) \in Stream
      <4>1. read[n] \in Stream
        BY <1>1 DEF Types
      <4> QED BY <3>1, <4>1 DEF Stream
    <3>4. read' \in [Nodes -> Stream]
      BY <1>1, <3>2, <3>3 DEF Types
    <3> QED BY <1>1, <1>3, <1>6, <2>3, <3>1, <3>4 DEF Collect, Types, Sizes
  <2>4. CASE Transform(n)
    <3>1. /\ Next1(n) \in Seq(Rows)
          /\ buf' \in [Channels -> Stream] /\ \A k \in Channels : Len(buf'[k]) <= Cap
      BY <2>4, ReceivesTypes DEF Transform
    <3> DEFINE e == Emit(job.kind[n], Next1(n), read[n])
    <3>2. held' = [held EXCEPT ![n] = e] /\ e \in Stream
      <4>1. read[n] \in Stream
        BY <1>1 DEF Types
      <4> QED BY <2>4, <3>1, <4>1, EmitType DEF Transform
    <3>3. ~Is(n, {"db_output"}) /\ ~Is(n, {"log", "email"})
      BY <2>4 DEF Transform, Is, Joins
    <3> HIDE DEF e
    <3>4. /\ held' \in [Nodes -> Stream] /\ SinksHoldNothing'
          /\ \A m \in Nodes' : Is(m, {"db_output"})' => Len(held'[m]) <= BatchSize
      BY <1>2, <3>2, <3>3, HeldTypes
    <3> QED BY <1>1, <1>3, <2>4, <3>1, <3>4 DEF Transform, Types, Sizes
  <2>5. CASE Batch(n)
    <3>1. /\ Next1(n) \in Seq(Rows)
          /\ buf' \in [Channels -> Stream] /\ \A k \in Channels : Len(buf'[k]) <= Cap
          /\ state[n] = "loop"
      BY <2>5, ReceivesTypes DEF Batch
    <3> DEFINE h == held[n]
               e == Append(h, Next1(n))
    <3>2. held' = [held EXCEPT ![n] = e] /\ h \in Stream
      BY <1>1, <2>5 DEF Batch, Types
    <3>3. Is(n, {"db_output"}) /\ ~Is(n, {"log", "email"})
      BY <2>5 DEF Batch, Is
    <3>4. h # << >> => ~(Len(h) >= BatchSize)
      BY <2>5, <3>1, <3>3 DEF Batch, Receives, FlushDue
    <3> HIDE DEF h
    <3>5. e \in Stream /\ Len(e) <= BatchSize
      BY <1>5, <3>1, <3>2, <3>4 DEF Stream
    <3> HIDE DEF e
    <3>6. /\ held' \in [Nodes -> Stream] /\ SinksHoldNothing'
          /\ \A m \in Nodes' : Is(m, {"db_output"})' => Len(held'[m]) <= BatchSize
      BY <1>2, <3>2, <3>3, <3>5, HeldTypes
    <3> QED BY <1>1, <1>3, <2>5, <3>1, <3>6 DEF Batch, Types, Sizes
  <2>6. CASE Consume(n)
    <3>1. /\ Next1(n) \in Seq(Rows)
          /\ buf' \in [Channels -> Stream] /\ \A k \in Channels : Len(buf'[k]) <= Cap
      BY <2>6, ReceivesTypes DEF Consume
    <3>2. stored' \in [Nodes -> Stream]
      <4>1. stored[n] \in Stream
        BY <1>1 DEF Types
      <4>2. Append(stored[n], Next1(n)) \in Stream
        BY <3>1, <4>1 DEF Stream
      <4>3. stored' = [stored EXCEPT ![n] = Append(stored[n], Next1(n))] \/ stored' = stored
        BY <2>6 DEF Consume
      <4> QED BY <1>1, <4>2, <4>3 DEF Types
    <3> QED BY <1>1, <1>3, <1>6, <2>6, <3>1, <3>2 DEF Consume, Types, Sizes
  <2>7. CASE InputEnds(n)
    <3>1. phase' \in [Nodes -> 1..3]
      <4>1. phase[n] \in 1..3 /\ phase[n] <= Ins(n) /\ Ins(n) \in 0..2
        BY <1>1, <1>4, <2>7, InIs, InsIs DEF InputEnds, Draining, Types
      <4>2. phase[n] + 1 \in 1..3 /\ phase' = [phase EXCEPT ![n] = phase[n] + 1]
        BY <2>7, <4>1 DEF InputEnds
      <4> QED BY <1>1, <4>2 DEF Types
    <3> QED BY <1>1, <1>3, <1>6, <1>7, <2>7, <3>1 DEF InputEnds, Types, Sizes
  <2>8. CASE Send(n)
    <3> DEFINE h == held[n]
               o == Out(n)
               b == buf[o]
    <3>1. /\ h \in Stream /\ h # << >>
          /\ ~Is(n, {"db_output"}) /\ ~Is(n, {"log", "email"})
      BY <1>1, <2>8 DEF Send, SendDue, Types, SinksHoldNothing
    <3>2. o \in Channels /\ b \in Stream
      <4>1. ~Is(n, Outputs)
        BY <3>1 DEF Is, Outputs
      <4> QED BY <1>1, <1>4, <4>1, OutIs DEF Types
    <3>3. /\ buf' = [buf EXCEPT ![o] = Append(b, Head(h))]
          /\ held' = [held EXCEPT ![n] = Tail(h)]
          /\ Len(b) < Cap
      BY <2>8 DEF Send
    <3> HIDE DEF h, b, o
    <3>4. Tail(h) \in Stream /\ Append(b, Head(h)) \in Stream /\ Len(Append(b, Head(h))) <= Cap
      BY <1>5, <3>1, <3>2, <3>3 DEF Stream
    <3>5. /\ held' \in [Nodes -> Stream] /\ SinksHoldNothing'
          /\ \A m \in Nodes' : Is(m, {"db_output"})' => Len(held'[m]) <= BatchSize
      BY <1>2, <3>1, <3>3, <3>4, HeldTypes
    <3>6. buf' \in [Channels -> Stream] /\ \A k \in Channels : Len(buf'[k]) <= Cap
      BY <1>1, <3>2, <3>3, <3>4 DEF Types, Sizes
    <3> QED BY <1>1, <1>3, <2>8, <3>5, <3>6 DEF Send, Types, Sizes
  <2>9. CASE Abandon(n)
    <3>1. held' = [held EXCEPT ![n] = << >>] /\ Ends(n, TRUE)
      BY <2>9 DEF Abandon
    <3>2. /\ held' \in [Nodes -> Stream] /\ SinksHoldNothing'
          /\ \A m \in Nodes' : Is(m, {"db_output"})' => Len(held'[m]) <= BatchSize
      BY <1>2, <1>5, <3>1, HeldTypes
    <3> QED BY <1>1, <1>3, <1>7, <2>9, <3>1, <3>2, EndsTypes DEF Abandon, Types, Sizes
  <2>10. CASE Flush(n) \/ FlushFails(n)
    <3>1. held' = [held EXCEPT ![n] = << >>]
      BY <2>10 DEF Flush, FlushFails
    <3>2. /\ held' \in [Nodes -> Stream] /\ SinksHoldNothing'
          /\ \A m \in Nodes' : Is(m, {"db_output"})' => Len(held'[m]) <= BatchSize
      BY <1>2, <1>5, <3>1, HeldTypes
    <3>3. stored' \in [Nodes -> Stream]
      <4>1. stored[n] \in Stream /\ held[n] \in Stream
        BY <1>1 DEF Types
      <4>2. stored[n] \o held[n] \in Stream
        BY <4>1 DEF Stream
      <4>3. stored' = [stored EXCEPT ![n] = stored[n] \o held[n]] \/ stored' = stored
        BY <2>10 DEF Flush, FlushFails
      <4> QED BY <1>1, <4>2, <4>3 DEF Types
    <3>4. CASE Flush(n)
      BY <1>1, <1>3, <1>7, <3>2, <3>3, <3>4 DEF Flush, Types, Sizes
    <3>5. CASE FlushFails(n)
      <4>1. Ends(n, TRUE)
        BY <3>5 DEF FlushFails
      <4> QED BY <1>1, <1>3, <1>7, <3>2, <3>3, <3>5, <4>1, EndsTypes DEF FlushFails, Types, Sizes
    <3> QED BY <2>10, <3>4, <3>5
  <2>11. CASE Return(n)
    <3>1. Ends(n, FALSE)
      BY <2>11 DEF Return
    <3> QED BY <1>1, <1>3, <1>6, <1>7, <2>11, <3>1, EndsTypes DEF Return, Types, Sizes
  <2> QED BY <1>11, <2>1, <2>2, <2>3, <2>4, <2>5, <2>6, <2>7, <2>8, <2>9, <2>10, <2>11 DEF Node
<1> QED BY <1>8, <1>9, <1>10, <1>11, <1>12 DEF Next

(* The shape of the state: no channel and no batch grows beyond its size. *)
THEOREM TypeCorrect == Spec => []TypeOK
<1>1. TypeInv /\ [Next]_vars => TypeInv'
  BY TypeStep
<1>2. Spec => []TypeInv
  BY <1>1, TypeInit, PTL DEF Spec
<1>3. TypeInv => TypeOK
  BY DEF TypeInv
<1> QED BY <1>2, <1>3, PTL

-----------------------------------------------------------------------------
(* The steps keep the flow.  A step of one node leaves the others alone:   *)
(* they see their channels get rows from one end or lose rows at the       *)
(* other, and none of this shows in what was sent, given or made.          *)

(* Two nodes do not send to one channel. *)
LEMMA OutDiffers ==
    ASSUME JobOK, NEW n \in Nodes, NEW m \in Nodes, m # n, ~Is(m, Outputs)
    PROVE  Out(m) # Out(n) /\ Out(m) # 0 /\ Out(m) \in Channels
<1>1. Out(m) \in Channels /\ job.ports[Out(m)].from = m /\ Out(m) # 0
  BY OutIs, Ports
<1>2. Out(n) = 0 \/ job.ports[Out(n)].from = n
  BY OutIs
<1> QED BY <1>1, <1>2

(* Two nodes do not drain one channel, and none drains its own. *)
LEMMA InDiffers ==
    ASSUME JobOK, NEW n \in Nodes, NEW m \in Nodes, NEW i \in 1..Ins(m)
    PROVE  /\ In(m)[i] \in Channels
           /\ In(m)[i] # Out(m)
           /\ m # n => \A k \in 1..Ins(n) : In(m)[i] # In(n)[k]
<1>1. /\ In(m)[i] \in Channels /\ job.ports[In(m)[i]].from = Drained(m)[i]
      /\ job.ports[In(m)[i]].to = m /\ Drained(m)[i] < m /\ Drained(m)[i] \in Nodes
  BY InIs, DrainedIs
<1>2. m \in Nat /\ Drained(m)[i] \in Nat /\ In(m)[i] # 0
  BY <1>1, Ports
<1>3. Out(m) = 0 \/ job.ports[Out(m)].from = m
  BY OutIs
<1>4. \A k \in 1..Ins(n) : job.ports[In(n)[k]].to = n
  BY InIs
<1> QED BY <1>1, <1>2, <1>3, <1>4

(* What the invariant of a node depends on. *)
LEMMA Frame ==
    ASSUME UNCHANGED job, NEW got, NEW g, NEW m \in Nodes, NodeInv(got, m), Ins(m) \in 0..2,
           Is(m, {"db_output", "log"}) => Ins(m) = 1,
           Is(m, Joins) => Ins(m) = 2,
           state'[m] = state[m], phase'[m] = phase[m], held'[m] = held[m],
           read'[m] = read[m], stored'[m] = stored[m], m \in errs' <=> m \in errs,
           \A i \in 1..Ins(m) :
               /\ g[In(m)[i]] = got[In(m)[i]]
               /\ In(m)[i] \in closed => In(m)[i] \in closed' /\ buf'[In(m)[i]] = buf[In(m)[i]],
           ~Is(m, Outputs) => /\ g[Out(m)] \o buf'[Out(m)] = got[Out(m)] \o buf[Out(m)]
                              /\ Out(m) \in closed' <=> Out(m) \in closed
    PROVE  NodeInv(g, m)'
<1>1. /\ \A S : Is(m, S)' <=> Is(m, S)
      /\ Out(m)' = Out(m) /\ In(m)' = In(m) /\ Ins(m)' = Ins(m)
      /\ \A a, b : Produced(m, a, b)' = Produced(m, a, b)
  BY JobStays
<1>2. /\ Given(g, m, 1)' = Given(got, m, 1)
      /\ Given(g, m, 2)' = Given(got, m, 2)
  BY <1>1 DEF Given
<1>3. Made(g, m)' = Made(got, m)
  BY <1>1, <1>2 DEF Made
<1>4. LifeInv(m)'
  BY <1>1 DEF NodeInv, LifeInv
<1>5. DrainInv(g, m)'
  BY <1>1 DEF NodeInv, DrainInv
<1>6. SendInv(g, m)'
  <2>1. ~Is(m, Outputs) => Sent(g, Out(m))' = Sent(got, Out(m))
    BY <1>1 DEF Sent
  <2>2. Is(m, Joins) => read'[m] = g[In(m)[1]]
    BY DEF NodeInv, SendInv
  <2> QED BY <1>1, <1>3, <2>1, <2>2 DEF NodeInv, SendInv
<1>7. StoreInv(g, m)'
  <2>1. Draining(m)' <=> Draining(m)
    BY <1>1 DEF Draining
  <2>2. Is(m, {"db_output", "log"}) => g[In(m)[1]] = got[In(m)[1]]
    OBVIOUS
  <2> QED BY <1>1, <2>1, <2>2 DEF NodeInv, StoreInv
<1> QED BY <1>4, <1>5, <1>6, <1>7 DEF NodeInv

(* A step of n, as the other nodes see it, that receives nothing. *)
Beside(n) ==
    /\ \A m \in Nodes : m # n =>
          /\ state'[m] = state[m] /\ phase'[m] = phase[m] /\ held'[m] = held[m]
          /\ read'[m] = read[m] /\ stored'[m] = stored[m] /\ (m \in errs' <=> m \in errs)
    /\ closed' = closed \/ closed' = closed \cup ({Out(n)} \ {0})
    /\ \A k \in Channels : k # Out(n) \/ k \in closed => buf'[k] = buf[k]

(* Such a step keeps the invariant of the other nodes. *)
LEMMA OthersKeep ==
    ASSUME TypeInv, UNCHANGED job, NEW got, Flow(got), NEW n \in Nodes, Beside(n)
    PROVE  /\ \A m \in Nodes : m # n => NodeInv(got, m)'
           /\ \A i \in 1..Ins(n) :
                 In(n)[i] \in closed => In(n)[i] \in closed' /\ buf'[In(n)[i]] = buf[In(n)[i]]
<1>1. JobOK /\ Types
  BY TypeIs DEF Types, JobOK
<1>2. \A m \in Nodes : \A i \in 1..Ins(m) :
        In(m)[i] \in closed => In(m)[i] \in closed' /\ buf'[In(m)[i]] = buf[In(m)[i]]
  <2> SUFFICES ASSUME NEW m \in Nodes, NEW i \in 1..Ins(m), In(m)[i] \in closed
               PROVE  In(m)[i] \in closed' /\ buf'[In(m)[i]] = buf[In(m)[i]]
    OBVIOUS
  <2>1. In(m)[i] \in Channels
    BY <1>1, InDiffers
  <2> QED BY <2>1 DEF Beside
<1>3. ASSUME NEW m \in Nodes, m # n PROVE NodeInv(got, m)'
  <2>1. NodeInv(got, m)
    BY DEF Flow
  <2>2. ~Is(m, Outputs) => /\ buf'[Out(m)] = buf[Out(m)]
                           /\ Out(m) \in closed' <=> Out(m) \in closed
    BY <1>1, <1>3, OutDiffers DEF Beside
  <2>3. /\ Ins(m) \in 0..2
        /\ Is(m, {"db_output", "log"}) => Ins(m) = 1
        /\ Is(m, Joins) => Ins(m) = 2
    BY <1>1, InsIs DEF Is, Outputs
  <2>4. /\ state'[m] = state[m] /\ phase'[m] = phase[m] /\ held'[m] = held[m]
        /\ read'[m] = read[m] /\ stored'[m] = stored[m] /\ (m \in errs' <=> m \in errs)
    BY <1>3 DEF Beside
  <2> QED BY <1>2, <2>1, <2>2, <2>3, <2>4, Frame
<1> QED BY <1>2, <1>3

(* A step that touches no channel keeps what n has given, sent and made. *)
LEMMA SelfKeeps ==
    ASSUME TypeInv, UNCHANGED job, NEW got, Flow(got), NEW n \in Nodes,
           phase'[n] = phase[n], UNCHANGED buf, closed \subseteq closed'
    PROVE  /\ DrainInv(got, n)'
           /\ Sent(got, Out(n))' = Sent(got, Out(n))
           /\ Made(got, n)' = Made(got, n)
<1>1. /\ Out(n)' = Out(n) /\ In(n)' = In(n) /\ Ins(n)' = Ins(n)
      /\ \A a, b : Produced(n, a, b)' = Produced(n, a, b)
  BY JobStays
<1>2. DrainInv(got, n)
  BY DEF Flow, NodeInv
<1>3. DrainInv(got, n)'
  BY <1>1, <1>2 DEF DrainInv
<1>4. Sent(got, Out(n))' = Sent(got, Out(n))
  BY <1>1 DEF Sent
<1>5. Made(got, n)' = Made(got, n)
  BY <1>1 DEF Made, Given
<1> QED BY <1>3, <1>4, <1>5

(* A source that has its rows holds all it will make. *)
LEMMA FlowQuery ==
    ASSUME TypeInv, NEW got, Flow(got), NEW n \in Nodes, Query(n)
    PROVE  Flow(got)'
<1>1. JobOK /\ Types /\ SourcesQuery /\ UNCHANGED job
  BY TypeIs DEF Types, JobOK, Query
<1>2. /\ Nodes' = Nodes /\ Channels' = Channels /\ \A S : Is(n, S)' <=> Is(n, S)
      /\ Out(n)' = Out(n) /\ In(n)' = In(n) /\ Ins(n)' = Ins(n)
  BY <1>1, JobStays
<1>3. Beside(n)
  BY <1>1 DEF Beside, Query, Types
<1>4. \A m \in Nodes : m # n => NodeInv(got, m)'
  BY <1>1, <1>3, OthersKeep
<1>5. /\ DrainInv(got, n)' /\ Sent(got, Out(n))' = Sent(got, Out(n))
      /\ Made(got, n)' = Made(got, n)
  BY <1>1, SelfKeeps DEF Query
<1>6. NodeInv(got, n) /\ got \in [Channels -> Stream]
  BY DEF Flow
<1>7. Ins(n) = 0 /\ ~Is(n, Outputs) /\ ~Is(n, Joins) /\ ~Is(n, {"db_output"}) /\ ~Is(n, {"db_output", "log"})
  BY <1>1, InsIs DEF Query, SourcesQuery, Is, Outputs, Joins
<1>8. /\ state[n] = "query" /\ state'[n] = "loop" /\ held'[n] = SourceRows(n)
      /\ UNCHANGED <<phase, closed, errs>>
  BY <1>1 DEF Query, Types
<1>9. LifeInv(n)'
  BY <1>2, <1>6, <1>8 DEF NodeInv, LifeInv
<1>10. SendInv(got, n)'
  <2>1. Sent(got, Out(n)) = << >> /\ IsPrefix(Sent(got, Out(n)), Made(got, n))
    BY <1>6, <1>7, <1>8 DEF NodeInv, SendInv
  <2>2. Made(got, n) = SourceRows(n) /\ SourceRows(n) \in Stream
    BY <1>1, <1>7, ProducedIs, SourceRowsType DEF Made
  <2>3. << >> \o SourceRows(n) = SourceRows(n)
    BY <2>2 DEF Stream
  <2> QED BY <1>2, <1>5, <1>7, <1>8, <2>1, <2>2, <2>3 DEF SendInv
<1>11. StoreInv(got, n)'
  BY <1>2, <1>7 DEF StoreInv
<1>12. NodeInv(got, n)'
  BY <1>5, <1>9, <1>10, <1>11 DEF NodeInv
<1> QED BY <1>2, <1>4, <1>6, <1>12 DEF Flow

(* A node that gives up: nothing it holds is sent, and an output may have  *)
(* stored the batch nevertheless.                                          *)
LEMMA FlowFails ==
    ASSUME TypeInv, NEW got, Flow(got), NEW n \in Nodes,
           SourceFails(n) \/ Abandon(n) \/ FlushFails(n)
    PROVE  Flow(got)'
<1>1. JobOK /\ Types /\ UNCHANGED job
  BY TypeIs DEF Types, JobOK, SourceFails, Abandon, FlushFails
<1>2. /\ Nodes' = Nodes /\ Channels' = Channels /\ \A S : Is(n, S)' <=> Is(n, S)
      /\ Out(n)' = Out(n) /\ In(n)' = In(n) /\ Ins(n)' = Ins(n)
  BY <1>1, JobStays
<1>3. /\ Ends(n, TRUE) /\ held' = [held EXCEPT ![n] = << >>]
      /\ UNCHANGED <<phase, read, buf>>
      /\ UNCHANGED stored \/ (FlushFails(n) /\ stored' = [stored EXCEPT ![n] = stored[n] \o held[n]])
      /\ state[n] # "done"
  BY DEF SourceFails, Abandon, FlushFails, SendDue, FlushDue
<1>4. Beside(n)
  BY <1>1, <1>3 DEF Beside, Ends, Types
<1>5. \A m \in Nodes : m # n => NodeInv(got, m)'
  BY <1>1, <1>4, OthersKeep
<1>6. /\ DrainInv(got, n)' /\ Sent(got, Out(n))' = Sent(got, Out(n))
      /\ Made(got, n)' = Made(got, n)
  BY <1>1, <1>3, SelfKeeps DEF Ends
<1>7. NodeInv(got, n) /\ got \in [Channels -> Stream]
  BY DEF Flow
<1>8. /\ state'[n] = "done" /\ n \in errs' /\ n \notin errs
      /\ ~Is(n, Outputs) => Out(n) \in closed'
  BY <1>1, <1>3, <1>7, OutDiffers, OutIs, Ports DEF Ends, Types, NodeInv, LifeInv
<1>9. LifeInv(n)'
  BY <1>2, <1>3, <1>7, <1>8 DEF NodeInv, LifeInv
<1>10. SendInv(got, n)'
  BY <1>2, <1>3, <1>6, <1>7, <1>8 DEF NodeInv, SendInv
<1>11. StoreInv(got, n)'
  <2>1. ~Draining(n)'
    BY <1>8 DEF Draining
  <2>2. Is(n, {"db_output", "log"}) => IsPrefix(stored'[n], got[In(n)[1]])
    <3> SUFFICES ASSUME Is(n, {"db_output", "log"})
                 PROVE  IsPrefix(stored'[n], got[In(n)[1]])
      OBVIOUS
    <3>1. /\ IsPrefix(stored[n], got[In(n)[1]])
          /\ stored[n] \o held[n] = got[In(n)[1]]
      BY <1>7, <1>8 DEF NodeInv, StoreInv
    <3>2. In(n)[1] \in Channels /\ got[In(n)[1]] \in Stream
      BY <1>1, <1>7, InsIs, InIs DEF Is, Outputs
    <3>3. IsPrefix(got[In(n)[1]], got[In(n)[1]])
      BY <3>2, PrefixSame DEF Stream
    <3>4. stored'[n] = stored[n] \/ stored'[n] = stored[n] \o held[n]
      BY <1>1, <1>3 DEF Types
    <3> QED BY <3>1, <3>3, <3>4
  <2> QED BY <1>2, <1>8, <2>1, <2>2 DEF StoreInv
<1>12. NodeInv(got, n)'
  BY <1>6, <1>9, <1>10, <1>11 DEF NodeInv
<1> QED BY <1>2, <1>5, <1>7, <1>12 DEF Flow

(* A node that returns has drained its inputs and sent all it held. *)
LEMMA FlowReturn ==
    ASSUME TypeInv, NEW got, Flow(got), NEW n \in Nodes, Return(n)
    PROVE  Flow(got)'
<1>1. JobOK /\ Types /\ UNCHANGED job
  BY TypeIs DEF Types, JobOK, Return
<1>2. /\ Nodes' = Nodes /\ Channels' = Channels /\ \A S : Is(n, S)' <=> Is(n, S)
      /\ Out(n)' = Out(n) /\ In(n)' = In(n) /\ Ins(n)' = Ins(n)
  BY <1>1, JobStays
<1>3. /\ Ends(n, FALSE) /\ UNCHANGED <<phase, read, held, buf, stored>>
      /\ state[n] = "loop" /\ held[n] = << >> /\ ~Draining(n)
  BY DEF Return
<1>4. Beside(n)
  BY <1>1, <1>3 DEF Beside, Ends, Types
<1>5. \A m \in Nodes : m # n => NodeInv(got, m)'
  BY <1>1, <1>4, OthersKeep
<1>6. /\ DrainInv(got, n)' /\ Sent(got, Out(n))' = Sent(got, Out(n))
      /\ Made(got, n)' = Made(got, n)
  BY <1>1, <1>3, SelfKeeps DEF Ends
<1>7. NodeInv(got, n) /\ got \in [Channels -> Stream]
  BY DEF Flow
<1>8. /\ state'[n] = "done" /\ UNCHANGED errs /\ n \notin errs
      /\ ~Is(n, Outputs) => Out(n) \in closed'
  BY <1>1, <1>3, <1>7, OutIs, Ports DEF Ends, Types, NodeInv, LifeInv
<1>9. phase[n] = Ins(n) + 1
  BY <1>1, <1>3, <1>7, InIs, InsIs DEF NodeInv, LifeInv, Draining
<1>10. LifeInv(n)'
  BY <1>2, <1>3, <1>7, <1>8, <1>9 DEF NodeInv, LifeInv
<1>11. SendInv(got, n)'
  BY <1>2, <1>3, <1>6, <1>7, <1>8 DEF NodeInv, SendInv
<1>12. StoreInv(got, n)'
  <2>1. ~Draining(n)'
    BY <1>8 DEF Draining
  <2> QED BY <1>2, <1>3, <1>7, <1>8, <2>1 DEF NodeInv, StoreInv
<1>13. NodeInv(got, n)'
  BY <1>6, <1>10, <1>11, <1>12 DEF NodeInv
<1> QED BY <1>2, <1>5, <1>7, <1>13 DEF Flow

(* A node that goes on to its next input has all of the last one. *)
LEMMA FlowInputEnds ==
    ASSUME TypeInv, NEW got, Flow(got), NEW n \in Nodes, InputEnds(n)
    PROVE  Flow(got)'
<1>1. JobOK /\ Types /\ UNCHANGED job
  BY TypeIs DEF Types, JobOK, InputEnds
<1>2. /\ Nodes' = Nodes /\ Channels' = Channels /\ \A S : Is(n, S)' <=> Is(n, S)
      /\ Out(n)' = Out(n) /\ In(n)' = In(n) /\ Ins(n)' = Ins(n)
      /\ \A a, b : Produced(n, a, b)' = Produced(n, a, b)
  BY <1>1, JobStays
<1>3. /\ UNCHANGED <<state, read, held, buf, closed, errs, stored>>
      /\ phase' = [phase EXCEPT ![n] = phase[n] + 1]
      /\ state[n] = "loop" /\ Draining(n)
      /\ In(n)[phase[n]] \in closed /\ buf[In(n)[phase[n]]] = << >>
  BY DEF InputEnds, Draining, Drain
<1>4. Beside(n)
  BY <1>1, <1>3 DEF Beside, Types
<1>5. \A m \in Nodes : m # n => NodeInv(got, m)'
  BY <1>1, <1>4, OthersKeep
<1>6. NodeInv(got, n) /\ got \in [Channels -> Stream]
  BY DEF Flow
<1>7. phase[n] \in 1..Ins(n) /\ Ins(n) \in Nat /\ phase'[n] = phase[n] + 1
  BY <1>1, <1>3, <1>6, InIs, InsIs DEF Draining, Types, NodeInv, LifeInv
<1>8. LifeInv(n)'
  BY <1>2, <1>3, <1>6, <1>7 DEF NodeInv, LifeInv
<1>9. DrainInv(got, n)'
  <2> SUFFICES ASSUME NEW i \in 1..Ins(n)
               PROVE  /\ i > phase[n] + 1 => got[In(n)[i]] = << >>
                      /\ i < phase[n] + 1 => In(n)[i] \in closed /\ buf[In(n)[i]] = << >>
    BY <1>2, <1>3, <1>7 DEF DrainInv
  <2>1. /\ i > phase[n] => got[In(n)[i]] = << >>
        /\ i < phase[n] => In(n)[i] \in closed /\ buf[In(n)[i]] = << >>
    BY <1>6 DEF NodeInv, DrainInv
  <2>2. /\ i > phase[n] + 1 => i > phase[n]
        /\ i < phase[n] + 1 => i < phase[n] \/ i = phase[n]
    BY <1>7
  <2> QED BY <1>3, <2>1, <2>2
<1>10. Sent(got, Out(n))' = Sent(got, Out(n)) /\ Made(got, n)' = Made(got, n)
  BY <1>2, <1>3 DEF Sent, Made, Given
<1>11. SendInv(got, n)'
  BY <1>2, <1>3, <1>6, <1>10 DEF NodeInv, SendInv
<1>12. StoreInv(got, n)'
  BY <1>2, <1>3, <1>6 DEF NodeInv, StoreInv
<1>13. NodeInv(got, n)'
  BY <1>8, <1>9, <1>11, <1>12 DEF NodeInv
<1> QED BY <1>2, <1>5, <1>6, <1>13 DEF Flow

(* A row that is sent was held before. *)
LEMMA FlowSend ==
    ASSUME TypeInv, NEW got, Flow(got), NEW n \in Nodes, Send(n)
    PROVE  Flow(got)'
<1>1. JobOK /\ Types /\ SinksHoldNothing /\ UNCHANGED job
  BY TypeIs DEF Types, JobOK, Send
<1>2. /\ Nodes' = Nodes /\ Channels' = Channels /\ \A S : Is(n, S)' <=> Is(n, S)
      /\ Out(n)' = Out(n) /\ In(n)' = In(n) /\ Ins(n)' = Ins(n)
      /\ \A a, b : Produced(n, a, b)' = Produced(n, a, b)
  BY <1>1, JobStays
<1> DEFINE o == Out(n)
<1>3. NodeInv(got, n) /\ got \in [Channels -> Stream]
  BY DEF Flow
<1>4. ~Is(n, Outputs) /\ o \in Channels
  BY <1>1, OutIs DEF Send, SendDue, SinksHoldNothing, Is, Outputs
<1>5. PICK b, h : b = buf[o] /\ h = held[n]
  OBVIOUS
<1>6. /\ UNCHANGED <<state, phase, read, closed, errs, stored>>
      /\ buf' = [buf EXCEPT ![o] = Append(b, Head(h))]
      /\ held' = [held EXCEPT ![n] = Tail(h)]
      /\ state[n] = "loop" /\ h # << >>
  BY <1>5 DEF Send, SendDue
<1>7. b \in Stream /\ h \in Stream /\ got[o] \in Stream
  BY <1>1, <1>3, <1>4, <1>5 DEF Types
<1>8. o \notin closed /\ n \notin errs
  BY <1>3, <1>4, <1>6 DEF NodeInv, LifeInv
<1>9. Beside(n)
  BY <1>1, <1>6, <1>8 DEF Beside, Types
<1>10. /\ \A m \in Nodes : m # n => NodeInv(got, m)'
       /\ \A i \in 1..Ins(n) :
            In(n)[i] \in closed => In(n)[i] \in closed' /\ buf'[In(n)[i]] = buf[In(n)[i]]
  BY <1>1, <1>9, OthersKeep
<1>11. LifeInv(n)'
  BY <1>2, <1>3, <1>6, <1>8 DEF NodeInv, LifeInv
<1>12. DrainInv(got, n)'
  BY <1>2, <1>3, <1>6, <1>10 DEF NodeInv, DrainInv
<1>13. SendInv(got, n)'
  <2>1. Made(got, n)' = Made(got, n)
    BY <1>2 DEF Made, Given
  <2>2. Sent(got, o)' = got[o] \o Append(b, Head(h)) /\ held'[n] = Tail(h)
    BY <1>1, <1>2, <1>4, <1>6 DEF Sent, Types
  <2>3. (got[o] \o b) \o h = Made(got, n)
    BY <1>3, <1>4, <1>5, <1>6, <1>8 DEF NodeInv, SendInv, Sent
  <2> DEFINE t == got[o] \o Append(b, Head(h))
  <2>4. t \in Stream /\ Tail(h) \in Stream /\ t \o Tail(h) \in Stream
    BY <1>6, <1>7 DEF Stream
  <2>5. t \o Tail(h) = (got[o] \o b) \o h
    <3>1. Append(b, Head(h)) \o Tail(h) = b \o h /\ Append(b, Head(h)) \in Stream
      <4>1. Moves(Seq(Rows))
        BY MoveHead
      <4> QED BY <1>6, <1>7, <4>1 DEF Moves, Stream
    <3>2. \A x, y \in Stream : (got[o] \o x) \o y = got[o] \o (x \o y)
      <4>1. Associative(Seq(Rows))
        BY ConcatAssoc
      <4> QED BY <1>7, <4>1 DEF Associative, Stream
    <3>3. t \o Tail(h) = got[o] \o (Append(b, Head(h)) \o Tail(h))
      BY <2>4, <3>1, <3>2
    <3>4. (got[o] \o b) \o h = got[o] \o (b \o h)
      BY <1>7, <3>2
    <3> QED BY <3>1, <3>3, <3>4
  <2>6. IsPrefix(t, Made(got, n))
    <3> HIDE DEF t
    <3> QED BY <2>3, <2>4, <2>5, PrefixIs DEF Stream
  <2> HIDE DEF t
  <2>7. Sent(got, o)' = t
    BY <2>2 DEF t
  <2> QED BY <1>2, <1>3, <1>4, <1>6, <2>1, <2>2, <2>3, <2>5, <2>6, <2>7 DEF NodeInv, SendInv
<1>14. StoreInv(got, n)'
  BY <1>2, <1>4 DEF StoreInv, Is, Outputs
<1>15. NodeInv(got, n)'
  BY <1>11, <1>12, <1>13, <1>14 DEF NodeInv
<1> QED BY <1>2, <1>3, <1>10, <1>15 DEF Flow

(* A whole batch more keeps the number of rows a multiple of its size. *)
LEMMA WholeBatches ==
    ASSUME NEW b \in Nat \ {0}, NEW k \in Nat, k % b = 0
    PROVE  (k + b) % b = 0
<1>1. PICK q \in Int : k = b * q
  OBVIOUS
<1>2. PICK p \in Int, r \in Int : k + b = b * p + r /\ 0 <= r /\ r < b /\ (k + b) % b = r
  OBVIOUS
<1>3. PICK d \in Int : d = (q + 1) - p
  OBVIOUS
<1>4. b * d = r
  BY <1>1, <1>2, <1>3
<1>5. d <= 0
  <2> SUFFICES ASSUME d >= 1 PROVE FALSE
    OBVIOUS
  <2>1. b * d >= b
    OBVIOUS
  <2> QED BY <1>2, <1>4, <2>1
<1>6. d >= 0
  <2> SUFFICES ASSUME d <= -1 PROVE FALSE
    OBVIOUS
  <2>1. b * d < 0
    OBVIOUS
  <2> QED BY <1>2, <1>4, <2>1
<1>7. d = 0
  BY <1>5, <1>6
<1> QED BY <1>2, <1>4, <1>7

(* A batch that is stored was held before. *)
LEMMA FlowFlush ==
    ASSUME TypeInv, NEW got, Flow(got), NEW n \in Nodes, Flush(n)
    PROVE  Flow(got)'
<1>1. JobOK /\ Types /\ Sizes /\ UNCHANGED job
  BY TypeIs DEF Types, JobOK, Flush
<1>2. /\ Nodes' = Nodes /\ Channels' = Channels /\ \A S : Is(n, S)' <=> Is(n, S)
      /\ Out(n)' = Out(n) /\ In(n)' = In(n) /\ Ins(n)' = Ins(n)
  BY <1>1, JobStays
<1>3. PICK s, h : s = stored[n] /\ h = held[n]
  OBVIOUS
<1>4. /\ UNCHANGED <<state, phase, read, buf, closed, errs>>
      /\ stored' = [stored EXCEPT ![n] = s \o h]
      /\ held' = [held EXCEPT ![n] = << >>]
      /\ Is(n, {"db_output"}) /\ state[n] = "loop"
      /\ Len(h) >= BatchSize \/ ~Draining(n)
  BY <1>3 DEF Flush, FlushDue
<1>5. Beside(n)
  BY <1>1, <1>4 DEF Beside, Types
<1>6. \A m \in Nodes : m # n => NodeInv(got, m)'
  BY <1>1, <1>5, OthersKeep
<1>7. DrainInv(got, n)'
  BY <1>1, <1>4, SelfKeeps
<1>8. NodeInv(got, n) /\ got \in [Channels -> Stream]
  BY DEF Flow
<1>9. /\ s \in Stream /\ h \in Stream
      /\ stored'[n] = s \o h /\ held'[n] = << >>
  BY <1>1, <1>3, <1>4 DEF Types
<1>10. Is(n, Outputs) /\ ~Is(n, Joins) /\ n \notin errs
  BY <1>4, <1>8 DEF NodeInv, LifeInv, Is, Outputs, Joins
<1>11. LifeInv(n)'
  BY <1>2, <1>4, <1>8, <1>9 DEF NodeInv, LifeInv
<1>12. SendInv(got, n)'
  BY <1>2, <1>10 DEF SendInv
<1>13. StoreInv(got, n)'
  <2> DEFINE g == got[In(n)[1]]
  <2>1. s \o h = g /\ (Draining(n) => Len(s) % BatchSize = 0)
    BY <1>3, <1>4, <1>8, <1>10 DEF NodeInv, StoreInv, Is
  <2>2. g \in Stream
    BY <1>1, <1>8, <1>10, InIs, InsIs
  <2>3. IsPrefix(g, g) /\ g \o << >> = g
    BY <2>2, PrefixSame DEF Stream
  <2>4. Draining(n) => Len(s \o h) % BatchSize = 0
    <3> SUFFICES ASSUME Draining(n) PROVE Len(s \o h) % BatchSize = 0
      OBVIOUS
    <3>1. Len(h) = BatchSize
      BY <1>1, <1>3, <1>4, <1>9, PipelineAssumption DEF Sizes, Stream
    <3>2. Len(s \o h) = Len(s) + BatchSize /\ Len(s) \in Nat
      <4>1. s \in Seq(Seq(Rows)) /\ h \in Seq(Seq(Rows))
        BY <1>9 DEF Stream
      <4>2. Len(s \o h) = Len(s) + Len(h) /\ Len(s) \in Nat
        BY <4>1, ConcatProperties, LenProperties
      <4> QED BY <3>1, <4>2
    <3> QED BY <2>1, <3>2, WholeBatches, PipelineAssumption
  <2>5. Draining(n)' <=> Draining(n)
    BY <1>2, <1>4 DEF Draining
  <2> HIDE DEF g
  <2>6. got[In(n)[1]] = g
    BY DEF g
  <2> QED BY <1>2, <1>4, <1>9, <2>1, <2>3, <2>4, <2>5, <2>6 DEF StoreInv
<1>14. NodeInv(got, n)'
  BY <1>7, <1>11, <1>12, <1>13 DEF NodeInv
<1> QED BY <1>2, <1>6, <1>8, <1>14 DEF Flow

(* The history after n has received a row. *)
Got(got, n) == [got EXCEPT ![Drain(n)] = Append(got[Drain(n)], Next1(n))]

(* What receiving leaves as it was. *)
Quiet(n) ==
    /\ UNCHANGED <<job, state, phase, closed, errs>>
    /\ \A m \in Nodes : m # n =>
          held'[m] = held[m] /\ read'[m] = read[m] /\ stored'[m] = stored[m]

(* A row that is received goes from the channel to the history: nobody's   *)
(* sendings change, and only n has got more.                               *)
LEMMA ReceiveKeeps ==
    ASSUME TypeInv, NEW got, Flow(got), NEW n \in Nodes, Receives(n), Quiet(n),
           NEW g, g = Got(got, n)
    PROVE  /\ g \in [Channels -> Stream]
           /\ \A m \in Nodes : m # n => NodeInv(g, m)'
           /\ LifeInv(n)' /\ DrainInv(g, n)'
           /\ n \notin errs /\ Next1(n) \in Seq(Rows)
           /\ g[In(n)[phase[n]]] = Append(got[In(n)[phase[n]]], Next1(n))
           /\ \A k \in 1..Ins(n) : k # phase[n] => g[In(n)[k]] = got[In(n)[k]]
           /\ \A k \in 1..Ins(n) : k > phase[n] => got[In(n)[k]] = << >>
           /\ ~Is(n, Outputs) => Sent(g, Out(n))' = Sent(got, Out(n))
<1>1. JobOK /\ Types /\ UNCHANGED job
  BY TypeIs DEF Types, JobOK, Quiet
<1>2. /\ Nodes' = Nodes /\ Channels' = Channels /\ \A S : Is(n, S)' <=> Is(n, S)
      /\ Out(n)' = Out(n) /\ In(n)' = In(n) /\ Ins(n)' = Ins(n)
  BY <1>1, JobStays
<1>3. PICK d, b, r, p : d = Drain(n) /\ b = buf[d] /\ r = Next1(n) /\ p = phase[n]
  OBVIOUS
<1>4. /\ p \in 1..Ins(n) /\ d = In(n)[p] /\ d \in Channels /\ state[n] = "loop"
      /\ r \in Seq(Rows) /\ b \in Stream /\ b # << >> /\ r = Head(b)
      /\ buf' = [buf EXCEPT ![d] = Tail(b)]
  BY <1>3, ReceivesTypes DEF Next1
<1>5. got \in [Channels -> Stream] /\ \A m \in Nodes : NodeInv(got, m)
  BY DEF Flow
<1>6. g = [got EXCEPT ![d] = Append(got[d], r)]
  BY <1>3 DEF Got
<1>7. PICK a \in Stream : a = got[d]
  BY <1>4, <1>5
<1>8. Append(a, r) \in Stream /\ Tail(b) \in Stream
  BY <1>4, <1>7 DEF Stream
<1>9. /\ g \in [Channels -> Stream] /\ g[d] = Append(a, r)
      /\ \A k \in Channels : k # d => g[k] = got[k]
  BY <1>4, <1>5, <1>6, <1>7, <1>8
<1>10. /\ buf'[d] = Tail(b)
       /\ \A k \in Channels : k # d => buf'[k] = buf[k]
  BY <1>1, <1>4 DEF Types
<1>11. \A k \in Channels : g[k] \o buf'[k] = got[k] \o buf[k]
  <2>1. Append(a, r) \o Tail(b) = a \o b
    <3>1. Moves(Seq(Rows))
      BY MoveHead
    <3> QED BY <1>4, <1>7, <3>1 DEF Moves, Stream
  <2> QED BY <1>3, <1>7, <1>9, <1>10, <2>1
<1>12. /\ \A k \in 1..Ins(n) : In(n)[k] \in Channels /\ (In(n)[k] = d => k = p)
       /\ \A m \in Nodes : m # n => \A k \in 1..Ins(m) : In(m)[k] \in Channels /\ In(m)[k] # d
  BY <1>1, <1>4, InIs, InDiffers
<1>13. ASSUME NEW m \in Nodes, m # n PROVE NodeInv(g, m)'
  <2>1. \A k \in 1..Ins(m) :
          /\ g[In(m)[k]] = got[In(m)[k]]
          /\ In(m)[k] \in closed => In(m)[k] \in closed' /\ buf'[In(m)[k]] = buf[In(m)[k]]
    BY <1>9, <1>10, <1>12, <1>13 DEF Quiet
  <2>2. ~Is(m, Outputs) => /\ g[Out(m)] \o buf'[Out(m)] = got[Out(m)] \o buf[Out(m)]
                           /\ Out(m) \in closed' <=> Out(m) \in closed
    BY <1>1, <1>11, OutIs DEF Quiet
  <2>3. /\ Ins(m) \in 0..2
        /\ Is(m, {"db_output", "log"}) => Ins(m) = 1
        /\ Is(m, Joins) => Ins(m) = 2
    BY <1>1, InsIs DEF Is, Outputs
  <2>4. /\ state'[m] = state[m] /\ phase'[m] = phase[m] /\ held'[m] = held[m]
        /\ read'[m] = read[m] /\ stored'[m] = stored[m] /\ (m \in errs' <=> m \in errs)
    BY <1>13 DEF Quiet
  <2> QED BY <1>1, <1>5, <2>1, <2>2, <2>3, <2>4, Frame
<1>14. LifeInv(n)' /\ n \notin errs
  <2>1. /\ phase[n] \in 1..(Ins(n) + 1) /\ n \notin errs
        /\ ~Is(n, Outputs) => (Out(n) \in closed <=> state[n] = "done")
    BY <1>4, <1>5 DEF NodeInv, LifeInv
  <2> QED BY <1>2, <1>4, <2>1 DEF LifeInv, Quiet
<1>15. \A k \in 1..Ins(n) : /\ k > p => got[In(n)[k]] = << >>
                            /\ k < p => In(n)[k] \in closed /\ buf[In(n)[k]] = << >>
  BY <1>3, <1>5 DEF NodeInv, DrainInv
<1>16. \A k \in 1..Ins(n) : k # p => /\ g[In(n)[k]] = got[In(n)[k]]
                                     /\ buf'[In(n)[k]] = buf[In(n)[k]]
  BY <1>9, <1>10, <1>12
<1>17. DrainInv(g, n)'
  <2> SUFFICES ASSUME NEW k \in 1..Ins(n)
               PROVE  /\ k > p => g[In(n)[k]] = << >>
                      /\ k < p => In(n)[k] \in closed /\ buf'[In(n)[k]] = << >>
    BY <1>2, <1>3 DEF DrainInv, Quiet
  <2>1. (k > p => k # p) /\ (k < p => k # p)
    BY <1>4
  <2> QED BY <1>15, <1>16, <2>1
<1>18. ~Is(n, Outputs) => Sent(g, Out(n))' = Sent(got, Out(n))
  BY <1>1, <1>2, <1>11, OutIs DEF Sent
<1>19. \A m \in Nodes : m # n => NodeInv(g, m)'
  BY <1>13
<1> QED BY <1>3, <1>4, <1>7, <1>9, <1>19, <1>14, <1>15, <1>16, <1>17, <1>18

(* A join that collects a row has made nothing yet, and has read the row.  *)
LEMMA FlowCollect ==
    ASSUME TypeInv, NEW got, Flow(got), NEW n \in Nodes, Collect(n), NEW g, g = Got(got, n)
    PROVE  Flow(g)'
<1>1. JobOK /\ Types /\ UNCHANGED job
  BY TypeIs DEF Types, JobOK, Collect
<1>2. /\ Nodes' = Nodes /\ Channels' = Channels /\ \A S : Is(n, S)' <=> Is(n, S)
      /\ Out(n)' = Out(n) /\ In(n)' = In(n) /\ Ins(n)' = Ins(n)
      /\ \A a, b : Produced(n, a, b)' = Produced(n, a, b)
  BY <1>1, JobStays
<1>3. PICK r : r = Next1(n)
  OBVIOUS
<1>4. /\ Receives(n) /\ Is(n, Joins) /\ phase[n] = 1
      /\ read' = [read EXCEPT ![n] = Append(read[n], r)]
      /\ UNCHANGED <<state, phase, held, closed, errs, stored>>
  BY <1>3 DEF Collect
<1>5. Quiet(n)
  BY <1>1, <1>4 DEF Quiet, Types
<1>6. /\ Ins(n) = 2 /\ 1 \in 1..Ins(n) /\ 2 \in 1..Ins(n)
      /\ ~Is(n, Outputs) /\ ~Is(n, {"db_output", "log"}) /\ ~Is(n, {"db_output"})
  BY <1>1, <1>4, InsIs DEF Is, Outputs, Joins
<1>7. /\ g \in [Channels -> Stream]
      /\ \A m \in Nodes : m # n => NodeInv(g, m)'
      /\ LifeInv(n)' /\ DrainInv(g, n)'
      /\ g[In(n)[1]] = Append(got[In(n)[1]], r)
      /\ g[In(n)[2]] = << >> /\ got[In(n)[2]] = << >>
      /\ Sent(g, Out(n))' = Sent(got, Out(n))
  BY <1>3, <1>4, <1>5, <1>6, ReceiveKeeps
<1>8. NodeInv(got, n)
  BY DEF Flow
<1>9. Made(got, n) = << >> /\ Made(g, n)' = << >>
  <2>1. Given(got, n, 2) = << >> /\ Given(g, n, 2)' = << >>
    BY <1>2, <1>6, <1>7 DEF Given
  <2>2. \A a : Produced(n, a, << >>) = << >>
    BY <1>1, <1>4, ProducedNone
  <2> QED BY <1>2, <2>1, <2>2 DEF Made
<1>10. SendInv(g, n)'
  <2>1. read'[n] = g[In(n)[1]]
    BY <1>1, <1>4, <1>7, <1>8 DEF Types, NodeInv, SendInv
  <2> QED BY <1>2, <1>4, <1>6, <1>7, <1>8, <1>9, <2>1 DEF NodeInv, SendInv
<1>11. StoreInv(g, n)'
  BY <1>2, <1>6 DEF StoreInv
<1>12. NodeInv(g, n)'
  BY <1>7, <1>10, <1>11 DEF NodeInv
<1> QED BY <1>2, <1>7, <1>12 DEF Flow

(* A row that is transformed makes the rows that are held from then on.    *)
LEMMA FlowTransform ==
    ASSUME TypeInv, NEW got, Flow(got), NEW n \in Nodes, Transform(n), NEW g, g = Got(got, n)
    PROVE  Flow(g)'
<1>1. JobOK /\ Types /\ UNCHANGED job
  BY TypeIs DEF Types, JobOK, Transform
<1>2. /\ Nodes' = Nodes /\ Channels' = Channels /\ \A S : Is(n, S)' <=> Is(n, S)
      /\ Out(n)' = Out(n) /\ In(n)' = In(n) /\ Ins(n)' = Ins(n)
      /\ \A a, b : Produced(n, a, b)' = Produced(n, a, b)
  BY <1>1, JobStays
<1>3. PICK r, e : r = Next1(n) /\ e = Emit(job.kind[n], r, read[n])
  OBVIOUS
<1>4. /\ Receives(n)
      /\ Is(n, {"map", "union"}) \/ (Is(n, Joins) /\ phase[n] = 2)
      /\ held' = [held EXCEPT ![n] = e]
      /\ UNCHANGED <<state, phase, read, closed, errs, stored>>
  BY <1>3 DEF Transform
<1>5. Quiet(n)
  BY <1>1, <1>4 DEF Quiet, Types
<1>6. ~Is(n, Outputs) /\ ~Is(n, {"db_output", "log"}) /\ ~Is(n, {"db_output"})
  <2>1. CASE Is(n, {"map", "union"})
    BY <2>1 DEF Is, Outputs
  <2>2. CASE Is(n, Joins)
    BY <2>2 DEF Is, Outputs, Joins
  <2> QED BY <1>4, <2>1, <2>2
<1>7. /\ g \in [Channels -> Stream]
      /\ \A m \in Nodes : m # n => NodeInv(g, m)'
      /\ LifeInv(n)' /\ DrainInv(g, n)' /\ n \notin errs /\ r \in Seq(Rows)
      /\ g[In(n)[phase[n]]] = Append(got[In(n)[phase[n]]], r)
      /\ \A k \in 1..Ins(n) : k # phase[n] => g[In(n)[k]] = got[In(n)[k]]
      /\ \A k \in 1..Ins(n) : k > phase[n] => got[In(n)[k]] = << >>
      /\ Sent(g, Out(n))' = Sent(got, Out(n))
  BY <1>3, <1>4, <1>5, <1>6, ReceiveKeeps
<1>8. NodeInv(got, n) /\ got \in [Channels -> Stream]
  BY DEF Flow
<1>9. phase[n] \in 1..Ins(n) /\ Ins(n) \in 0..2 /\ state[n] = "loop" /\ held[n] = << >>
  BY <1>1, <1>4, <1>6, ReceivesTypes, InsIs DEF Receives, SendDue
<1>10. \A k \in 1..Ins(n) : got[In(n)[k]] \in Stream
  BY <1>1, <1>8, InIs
<1>11. Made(g, n)' = Made(got, n) \o e
  <2> DEFINE a == got[In(n)[1]]
             b == got[In(n)[2]]
  <2>1. CASE phase[n] = 1
    <3>1. 1 \in 1..Ins(n) /\ Is(n, {"map", "union"})
      BY <1>4, <1>9, <2>1
    <3>2. /\ Given(got, n, 1) = a /\ Given(g, n, 1)' = Append(a, r) /\ a \in Stream
          /\ Given(g, n, 2)' = Given(got, n, 2)
          /\ Ins(n) = 2 => Given(got, n, 2) = << >>
      <4>1. Ins(n) = 2 => 2 \in 1..Ins(n) /\ 2 > phase[n]
        BY <2>1
      <4>2. Ins(n) # 2 => ~(2 <= Ins(n))
        BY <1>9
      <4> QED BY <1>2, <1>7, <1>9, <1>10, <2>1, <3>1, <4>1, <4>2 DEF Given
    <3> HIDE DEF a
    <3>3. Produced(n, Append(a, r), Given(got, n, 2))
            = Produced(n, a, Given(got, n, 2)) \o Emit(job.kind[n], r, read[n])
      BY <1>1, <1>7, <3>1, <3>2, ProducedOne
    <3> QED BY <1>2, <1>3, <3>2, <3>3 DEF Made
  <2>2. CASE phase[n] = 2
    <3>1. Ins(n) = 2 /\ 1 \in 1..Ins(n) /\ 2 \in 1..Ins(n)
      BY <1>9, <2>2
    <3>2. /\ Given(got, n, 1) = a /\ Given(g, n, 1)' = a /\ a \in Stream
          /\ Given(got, n, 2) = b /\ Given(g, n, 2)' = Append(b, r) /\ b \in Stream
      BY <1>2, <1>7, <1>10, <2>2, <3>1 DEF Given
    <3>3. Emit(job.kind[n], r, a) = e
      <4>1. CASE Is(n, Joins)
        BY <1>3, <1>8, <4>1 DEF NodeInv, SendInv
      <4>2. CASE ~Is(n, Joins)
        <5>1. Is(n, {"union"})
          BY <1>1, <3>1, <4>2, InsIs DEF Is
        <5> QED BY <1>3, <5>1 DEF Emit, Is
      <4> QED BY <4>1, <4>2
    <3> HIDE DEF a, b
    <3>4. Produced(n, a, Append(b, r)) = Produced(n, a, b) \o e
      BY <1>1, <1>7, <3>1, <3>2, <3>3, ProducedTwo
    <3> QED BY <1>2, <3>2, <3>4 DEF Made
  <2> QED BY <1>9, <2>1, <2>2
<1>12. SendInv(g, n)'
  <2> DEFINE s == Sent(got, Out(n))
  <2>1. s \in Stream
    <3>1. PICK x, y \in Stream : x = got[Out(n)] /\ y = buf[Out(n)]
      BY <1>1, <1>6, <1>8, OutIs DEF Types
    <3>2. x \o y \in Stream
      BY DEF Stream
    <3> QED BY <3>1, <3>2 DEF Sent
  <2>2. s \o << >> = Made(got, n)
    BY <1>6, <1>7, <1>8, <1>9 DEF NodeInv, SendInv
  <2>3. s = Made(got, n)
    BY <2>1, <2>2 DEF Stream
  <2>4. e \in Stream
    BY <1>1, <1>3, <1>7, EmitType DEF Types
  <2>5. s \o e \in Stream
    <3> HIDE DEF s
    <3> QED BY <2>1, <2>4 DEF Stream
  <2>6. IsPrefix(s, s \o e)
    <3> HIDE DEF s
    <3> QED BY <2>1, <2>4, <2>5, PrefixIs DEF Stream
  <2>7. Is(n, Joins) => read'[n] = g[In(n)[1]]
    <3> SUFFICES ASSUME Is(n, Joins) PROVE read'[n] = g[In(n)[1]]
      OBVIOUS
    <3>1. Ins(n) = 2 /\ phase[n] = 2
      BY <1>1, <1>4, InsIs DEF Is, Joins
    <3>2. 1 \in 1..Ins(n) /\ 1 # phase[n]
      BY <3>1
    <3> QED BY <1>4, <1>7, <1>8, <3>2 DEF NodeInv, SendInv
  <2>8. held'[n] = e
    BY <1>1, <1>4 DEF Types
  <2> HIDE DEF s
  <2>9. Sent(g, Out(n))' = s
    BY <1>7 DEF s
  <2> QED BY <1>2, <1>4, <1>6, <1>9, <1>11, <2>3, <2>6, <2>7, <2>8, <2>9 DEF SendInv
<1>13. StoreInv(g, n)'
  BY <1>2, <1>6 DEF StoreInv
<1>14. NodeInv(g, n)'
  BY <1>7, <1>12, <1>13 DEF NodeInv
<1> QED BY <1>2, <1>7, <1>14 DEF Flow

(* An output puts the row it receives after those it has stored and holds. *)
LEMMA FlowTake ==
    ASSUME TypeInv, NEW got, Flow(got), NEW n \in Nodes, Batch(n) \/ Consume(n),
           NEW g, g = Got(got, n)
    PROVE  Flow(g)'
<1>1. JobOK /\ Types /\ SinksHoldNothing /\ UNCHANGED job
  BY TypeIs DEF Types, JobOK, Batch, Consume
<1>2. /\ Nodes' = Nodes /\ Channels' = Channels /\ \A S : Is(n, S)' <=> Is(n, S)
      /\ Out(n)' = Out(n) /\ In(n)' = In(n) /\ Ins(n)' = Ins(n)
  BY <1>1, JobStays
<1>3. PICK r, s, h, a : r = Next1(n) /\ s = stored[n] /\ h = held[n] /\ a = got[In(n)[1]]
  OBVIOUS
<1>4. /\ Receives(n) /\ Is(n, Outputs)
      /\ UNCHANGED <<state, phase, read, closed, errs>>
      /\ \/ /\ Is(n, {"db_output"})
            /\ held' = [held EXCEPT ![n] = Append(h, r)]
            /\ UNCHANGED stored
         \/ /\ Is(n, {"log", "email"})
            /\ UNCHANGED held
            /\ stored' = [stored EXCEPT ![n] = Append(s, r)] \/ (Is(n, {"email"}) /\ UNCHANGED stored)
  <2>1. CASE Batch(n)
    BY <1>3, <2>1 DEF Batch, Is, Outputs
  <2>2. CASE Consume(n)
    BY <1>3, <2>2 DEF Consume, Is, Outputs
  <2> QED BY <2>1, <2>2
<1>5. Quiet(n)
  BY <1>1, <1>4 DEF Quiet, Types
<1>6. Ins(n) = 1 /\ 1 \in 1..Ins(n) /\ ~Is(n, Joins)
  BY <1>1, <1>4, InsIs DEF Is, Outputs, Joins
<1>7. phase[n] = 1 /\ state[n] = "loop"
  BY <1>4, <1>6, ReceivesTypes
<1>8. /\ g \in [Channels -> Stream]
      /\ \A m \in Nodes : m # n => NodeInv(g, m)'
      /\ LifeInv(n)' /\ DrainInv(g, n)' /\ n \notin errs /\ r \in Seq(Rows)
      /\ g[In(n)[1]] = Append(a, r)
  BY <1>3, <1>4, <1>5, <1>7, ReceiveKeeps
<1>9. NodeInv(got, n) /\ got \in [Channels -> Stream]
  BY DEF Flow
<1>10. s \in Stream /\ h \in Stream /\ a \in Stream
  BY <1>1, <1>3, <1>6, <1>9, InIs DEF Types
<1>11. SendInv(g, n)'
  BY <1>2, <1>4, <1>6 DEF SendInv
<1>12. StoreInv(g, n)'
  <2>1. Draining(n)' <=> Draining(n)
    BY <1>2, <1>4 DEF Draining
  <2>2. ASSUME Is(n, {"db_output", "log"})
        PROVE  IsPrefix(s, a) /\ s \o h = a
    BY <1>3, <1>8, <1>9, <2>2 DEF NodeInv, StoreInv
  <2>3. PICK x \in Stream, c \in Stream : x = <<r>> /\ c = Append(a, r) /\ c = a \o x
    <3>1. <<r>> \in Stream
      BY <1>8 DEF Stream
    <3>2. PICK x \in Stream : x = <<r>>
      BY <3>1
    <3>3. Append(a, r) \in Stream /\ Append(a, r) = a \o x
      BY <1>8, <1>10, <3>2 DEF Stream
    <3> QED BY <3>2, <3>3
  <2>4. IsPrefix(a, c) /\ IsPrefix(c, c) /\ (IsPrefix(s, a) => IsPrefix(s, c))
    <3>1. IsPrefix(a, c)
      BY <1>10, <2>3, PrefixIs DEF Stream
    <3>2. IsPrefix(c, c)
      BY PrefixSame DEF Stream
    <3>3. IsPrefix(s, a) => IsPrefix(s, c)
      BY <1>10, <3>1, PrefixTrans DEF Stream
    <3> QED BY <3>1, <3>2, <3>3
  <2>5. CASE Is(n, {"db_output"})
    <3>1. ~Is(n, {"log", "email"}) /\ Is(n, {"db_output", "log"})
      BY <2>5 DEF Is
    <3>2. held'[n] = Append(h, r) /\ stored'[n] = s
      BY <1>1, <1>3, <1>4, <3>1 DEF Types
    <3>3. s \o Append(h, r) = c
      <4>1. Append(h, r) = h \o x
        BY <1>10, <2>3 DEF Stream
      <4>2. Associative(Seq(Rows))
        BY ConcatAssoc
      <4>3. (s \o h) \o x = s \o (h \o x)
        BY <1>10, <2>3, <4>2 DEF Associative, Stream
      <4> QED BY <2>2, <2>3, <3>1, <4>1, <4>3
    <3>4. Is(n, {"db_output"}) /\ Draining(n) => Len(s) % BatchSize = 0
      BY <1>3, <1>9 DEF NodeInv, StoreInv
    <3> QED BY <1>2, <1>8, <2>1, <2>2, <2>3, <2>4, <3>1, <3>2, <3>3, <3>4 DEF StoreInv
  <2>6. CASE Is(n, {"log"})
    <3>1. ~Is(n, {"db_output"}) /\ Is(n, {"db_output", "log"}) /\ ~Is(n, {"email"}) /\ Is(n, {"log", "email"})
      BY <2>6 DEF Is
    <3>2. held'[n] = << >> /\ h = << >> /\ stored'[n] = Append(s, r)
      BY <1>1, <1>3, <1>4, <3>1 DEF Types, SinksHoldNothing
    <3>3. s = a
      BY <1>10, <2>2, <3>1, <3>2 DEF Stream
    <3>4. c \o << >> = c
      BY <2>3 DEF Stream
    <3> QED BY <1>2, <1>8, <2>3, <2>4, <3>1, <3>2, <3>3, <3>4 DEF StoreInv
  <2>7. CASE ~Is(n, {"db_output"}) /\ ~Is(n, {"log"})
    <3>1. ~Is(n, {"db_output", "log"})
      BY <2>7 DEF Is
    <3> QED BY <1>2, <2>7, <3>1 DEF StoreInv
  <2> QED BY <2>5, <2>6, <2>7
<1>13. NodeInv(g, n)'
  BY <1>8, <1>11, <1>12 DEF NodeInv
<1> QED BY <1>2, <1>8, <1>13 DEF Flow

(* What no node does leaves every node as it was. *)
LEMMA FlowIdle ==
    ASSUME TypeInv, NEW got, Flow(got), Cancel \/ Finish \/ UNCHANGED vars
    PROVE  Flow(got)'
<1>1. JobOK /\ UNCHANGED <<job, state, phase, read, held, buf, closed, errs, stored>>
  BY TypeIs DEF Types, JobOK, Cancel, Finish, vars
<1>2. Nodes' = Nodes /\ Channels' = Channels
  BY <1>1, JobStays
<1>3. ASSUME NEW m \in Nodes PROVE NodeInv(got, m)'
  <2>1. NodeInv(got, m)
    BY DEF Flow
  <2>2. /\ Ins(m) \in 0..2
        /\ Is(m, {"db_output", "log"}) => Ins(m) = 1
        /\ Is(m, Joins) => Ins(m) = 2
    BY <1>1, InsIs DEF Is, Outputs
  <2> QED BY <1>1, <2>1, <2>2, Frame
<1> QED BY <1>2, <1>3 DEF Flow

(* At the start nobody has received anything. *)
LEMMA FlowInit == Init => FlowInv
<1> SUFFICES ASSUME Init PROVE FlowInv
  OBVIOUS
<1> DEFINE got == [k \in Channels |-> << >>]
<1>1. JobOK /\ TypeInv
  BY TypeInit DEF TypeInv, TypeOK, JobOK
<1>2. << >> \in Stream /\ << >> \o << >> = << >>
  BY DEF Stream
<1>3. got \in [Channels -> Stream]
  BY <1>2
<1>4. ASSUME NEW n \in Nodes PROVE NodeInv(got, n)
  <2>1. /\ state[n] = IF Is(n, {"db_input"}) THEN "query" ELSE "loop"
        /\ phase[n] = 1 /\ read[n] = << >> /\ held[n] = << >> /\ stored[n] = << >>
        /\ closed = {} /\ errs = {} /\ \A k \in Channels : buf[k] = << >>
    BY DEF Init
  <2>2. Ins(n) \in 0..2 /\ (Ins(n) = 0 <=> Is(n, {"db_input"}))
    BY <1>1, InsIs
  <2>3. \A i \in 1..Ins(n) : In(n)[i] \in Channels /\ got[In(n)[i]] = << >>
    BY <1>1, InIs
  <2>4. ~Is(n, Outputs) => Out(n) \in Channels /\ Sent(got, Out(n)) = << >>
    <3>1. ~Is(n, Outputs) => Out(n) \in Channels
      BY <1>1, OutIs
    <3> QED BY <1>2, <2>1, <3>1 DEF Sent
  <2>5. LifeInv(n)
    BY <2>1, <2>2 DEF LifeInv
  <2>6. DrainInv(got, n)
    BY <2>1, <2>3 DEF DrainInv
  <2>7. Made(got, n) \in Stream /\ (state[n] # "query" /\ ~Is(n, Outputs) => Made(got, n) = << >>)
    <3>1. Given(got, n, 1) = << >> /\ Given(got, n, 2) = << >>
      BY <2>2, <2>3 DEF Given
    <3>2. Made(got, n) \in Stream
      BY <1>1, <1>2, <3>1, ProducedType DEF Made
    <3>3. ASSUME state[n] # "query" PROVE Made(got, n) = << >>
      <4>1. Ins(n) # 0
        BY <2>1, <2>2, <3>3
      <4>2. CASE Is(n, Joins)
        BY <1>1, <3>1, <4>2, ProducedNone DEF Made
      <4>3. CASE ~Is(n, Joins)
        <5>1. Ins(n) = 1 \/ (Ins(n) = 2 /\ Is(n, {"union"}))
          BY <1>1, <2>2, <4>1, <4>3, InsIs DEF Is
        <5> QED BY <1>1, <1>2, <3>1, <5>1, ProducedIs DEF Made
      <4> QED BY <4>2, <4>3
    <3> QED BY <3>2, <3>3
  <2>8. IsPrefix(<< >>, Made(got, n))
    <3> DEFINE M == Made(got, n)
    <3>1. M \in Stream
      BY <2>7
    <3> HIDE DEF M
    <3>2. << >> \o M = M
      BY <3>1 DEF Stream
    <3>3. IsPrefix(<< >>, M)
      BY <1>2, <3>1, <3>2, PrefixIs DEF Stream
    <3> QED BY <3>3 DEF M
  <2>9. Is(n, Joins) => read[n] = got[In(n)[1]]
    <3>1. Is(n, Joins) => 1 \in 1..Ins(n)
      BY <1>1, InsIs DEF Is, Joins
    <3> QED BY <2>1, <2>3, <3>1
  <2> HIDE DEF got
  <2>10. SendInv(got, n)
    BY <1>2, <2>1, <2>4, <2>7, <2>8, <2>9 DEF SendInv
  <2>11. StoreInv(got, n)
    <3>1. Is(n, {"db_output", "log"}) => got[In(n)[1]] = << >>
      <4>1. Is(n, {"db_output", "log"}) => 1 \in 1..Ins(n)
        BY <1>1, InsIs DEF Is, Outputs
      <4> QED BY <2>3, <4>1
    <3>2. IsPrefix(<< >>, << >>)
      BY <1>2, PrefixSame DEF Stream
    <3>3. Len(<< >>) % BatchSize = 0
      BY PipelineAssumption
    <3> QED BY <1>2, <2>1, <3>1, <3>2, <3>3 DEF StoreInv
  <2> QED BY <2>5, <2>6, <2>10, <2>11 DEF NodeInv
<1> HIDE DEF got
<1> QED BY <1>3, <1>4 DEF FlowInv, Flow

(* Whatever step is taken, there is a history after it. *)
LEMMA FlowStep == TypeInv /\ FlowInv /\ [Next]_vars => FlowInv'
<1> SUFFICES ASSUME TypeInv, FlowInv, [Next]_vars PROVE FlowInv'
  OBVIOUS
<1>1. PICK got : Flow(got)
  BY DEF FlowInv
<1>2. ASSUME NEW g, Flow(g)' PROVE FlowInv'
  BY <1>2 DEF FlowInv
<1>3. CASE Cancel \/ Finish \/ UNCHANGED vars
  BY <1>1, <1>2, <1>3, FlowIdle
<1>4. ASSUME NEW n \in Nodes, Node(n) PROVE FlowInv'
  <2>0. PICK g : g = Got(got, n)
    OBVIOUS
  <2>1. CASE Query(n)
    BY <1>1, <1>2, <2>1, FlowQuery
  <2>2. CASE SourceFails(n) \/ Abandon(n) \/ FlushFails(n)
    BY <1>1, <1>2, <2>2, FlowFails
  <2>3. CASE Collect(n)
    BY <1>1, <1>2, <2>0, <2>3, FlowCollect
  <2>4. CASE Transform(n)
    BY <1>1, <1>2, <2>0, <2>4, FlowTransform
  <2>5. CASE Batch(n) \/ Consume(n)
    BY <1>1, <1>2, <2>0, <2>5, FlowTake
  <2>6. CASE InputEnds(n)
    BY <1>1, <1>2, <2>6, FlowInputEnds
  <2>7. CASE Send(n)
    BY <1>1, <1>2, <2>7, FlowSend
  <2>8. CASE Flush(n)
    BY <1>1, <1>2, <2>8, FlowFlush
  <2>9. CASE Return(n)
    BY <1>1, <1>2, <2>9, FlowReturn
  <2> QED BY <1>4, <2>1, <2>2, <2>3, <2>4, <2>5, <2>6, <2>7, <2>8, <2>9 DEF Node
<1> QED BY <1>3, <1>4 DEF Next

(* A result is given when every node has ended, and none moves after that. *)
LEMMA ResultStep == TypeInv /\ ResultInv /\ [Next]_vars => ResultInv'
<1> SUFFICES ASSUME TypeInv, ResultInv, [Next]_vars PROVE ResultInv'
  OBVIOUS
<1>1. CASE Finish
  <2>1. UNCHANGED <<job, state, errs>>
    BY <1>1 DEF Finish
  <2>2. Nodes' = Nodes
    BY <2>1 DEF Nodes
  <2> QED BY <1>1, <2>1, <2>2 DEF Finish, ResultInv
<1>2. CASE Cancel \/ UNCHANGED vars
  <2>1. UNCHANGED <<job, state, errs, result>>
    BY <1>2 DEF Cancel, vars
  <2>2. Nodes' = Nodes
    BY <2>1 DEF Nodes
  <2> QED BY <2>1, <2>2 DEF ResultInv
<1>3. ASSUME NEW n \in Nodes, Node(n) PROVE ResultInv'
  <2>1. state[n] # "done"
    BY <1>3 DEF Node, Query, SourceFails, Collect, Transform, Batch, Consume, InputEnds, Receives,
       Draining, Send, Abandon, SendDue, Flush, FlushFails, FlushDue, Return
  <2>2. UNCHANGED result
    BY <1>3 DEF Node, Query, SourceFails, Collect, Transform, Batch, Consume, InputEnds, Send,
       Abandon, Flush, FlushFails, Return
  <2> QED BY <2>1, <2>2 DEF ResultInv
<1> QED BY <1>1, <1>2, <1>3 DEF Next

(* The invariant all of this is proved from. *)
PipelineInv == TypeInv /\ FlowInv /\ ResultInv

(* The rows that flow are those the job means, at every moment of a run.   *)
LEMMA PipelineCorrect == Spec => []PipelineInv
<1>1. Init => PipelineInv
  BY TypeInit, FlowInit DEF PipelineInv, ResultInv, Init
<1>2. PipelineInv /\ [Next]_vars => PipelineInv'
  BY TypeStep, FlowStep, ResultStep DEF PipelineInv
<1> QED BY <1>1, <1>2, PTL DEF Spec

(* A run that is reported complete has written every row, in order, once.  *)
THEOREM OkMeansAllCorrect == Spec => []OkMeansAll
<1>1. PipelineInv => OkMeansAll
  <2> SUFFICES ASSUME PipelineInv, result = "ok", NEW n \in Reporting
               PROVE  stored[n] = FullRows[n]
    BY DEF OkMeansAll
  <2>1. PICK got : Flow(got)
    BY DEF PipelineInv, FlowInv
  <2>2. n \in Nodes /\ Is(n, {"db_output", "log"})
    BY DEF Reporting
  <2>3. errs = {} /\ state[n] = "done"
    BY <2>2 DEF PipelineInv, ResultInv
  <2> QED BY <2>1, <2>2, <2>3, FlowMeans DEF PipelineInv
<1> QED BY <1>1, PipelineCorrect, PTL

(* Whatever fails, an output has written a prefix of the rows the job      *)
(* means, in whole batches while its input goes on, as long as nothing has *)
(* cut short the first input of a join or a union before it.               *)
THEOREM OutputIsPrefixCorrect == Spec => []OutputIsPrefix
<1>1. PipelineInv => OutputIsPrefix
  <2> SUFFICES ASSUME PipelineInv, NEW n \in Reporting, Skewing[n] \cap errs = {}
               PROVE  /\ IsPrefix(stored[n], FullRows[n])
                      /\ Is(n, {"db_output"}) /\ Draining(n) => Len(stored[n]) % BatchSize = 0
    BY DEF OutputIsPrefix
  <2>1. PICK got : Flow(got)
    BY DEF PipelineInv, FlowInv
  <2>2. n \in Nodes /\ Is(n, {"db_output", "log"})
    BY DEF Reporting
  <2>3. IsPrefix(stored[n], FullRows[n])
    BY <2>1, <2>2, FlowMeans DEF PipelineInv
  <2>4. StoreInv(got, n)
    BY <2>1, <2>2 DEF Flow, NodeInv
  <2> QED BY <2>3, <2>4 DEF StoreInv
<1> QED BY <1>1, PipelineCorrect, PTL

=============================================================================
