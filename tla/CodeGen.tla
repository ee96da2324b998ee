------------------------------ MODULE CodeGen -------------------------------
(***************************************************************************)
(* From a stored graph to the program that runs it: the planner            *)
(* (gen/jobExcutor.go), the file builder (gen/file_builder.go) and the     *)
(* node generators (gen/node_*.go).                                        *)
(*                                                                         *)
(* A graph is [nodes, ports], as the repository loads it: the node rows in *)
(* the order of their ids and the port rows in the order of theirs.  The   *)
(* "what" of a node is [label, type, ins, join, ok]: its type; the port    *)
(* number each input flow of a map is configured with; the two input flows *)
(* (by position) a join reads as its left and right, << >> when no join is *)
(* configured; and whether the settings its generator insists on are there.*)
(*                                                                         *)
(* A program is its goroutines and channels: which nodes are launched, on  *)
(* which channels, and with which row types.  The text of the functions is *)
(* left out; what they do when they run is the subject of Pipeline.        *)
(***************************************************************************)
EXTENDS JobGraph, FiniteSetsExt

\* Node types with a generator in DefaultRegistry; a start node has none.
Generated == {"db_input", "db_output", "map", "log", "email_output"}
NodeTypes == Generated \cup {"start"}

\* The row type "any", the fallback where no source is found.  A node's own
\* row type is its id, which is never 0.
AnyRow == 0

WhatOf(g, id) ==
    g.nodes[CHOOSE i \in DOMAIN g.nodes : g.nodes[i].id = id].what
TypeOf(g, id) == WhatOf(g, id).type
Ins(g, id)  == PortsOf(g.ports, id, FALSE)
Outs(g, id) == PortsOf(g.ports, id, TRUE)

-----------------------------------------------------------------------------
(* The planner. *)

PeersOf(row, kind) == {row[i].peer : i \in {k \in DOMAIN row : row[k].kind = kind}}
NextFlow(g, id) == PeersOf(Outs(g, id), "flow")
PrevFlow(g, id) == PeersOf(Ins(g, id), "flow")

Starts(g) == {id \in NodeIdsOf(g.nodes) : TypeOf(g, id) = "start"}

\* What Step(_) leads to from the set, within the loaded nodes.
Spread(g, Step(_), from) ==
    LET ids == NodeIdsOf(g.nodes)
        grown[k \in 0..Cardinality(ids)] ==
            IF k = 0 THEN from
            ELSE grown[k - 1] \cup ((UNION {Step(id) : id \in grown[k - 1]}) \cap ids)
    IN grown[Cardinality(ids)]

\* The queue of the breadth-first traversal gives each node it visits a
\* level; computing a level gives one to every flow predecessor too, whether
\* or not the traversal comes by it.
Visited(g) == LET Next(id) == NextFlow(g, id) IN Spread(g, Next, Starts(g))
Planned(g) == LET Prev(id) == PrevFlow(g, id) IN Spread(g, Prev, Visited(g))

\* calculateLevel calls itself for each predecessor: on a cycle it never
\* comes to an end.
RecursesForEver(g) ==
    LET Prev(id) == PrevFlow(g, id)
    IN \E id \in Planned(g) :
           id \in Spread(g, Prev, PrevFlow(g, id) \cap NodeIdsOf(g.nodes))

\* Seeded fault: the shortest way from a start counts, as in the order of a
\* breadth-first traversal.
ShortestLevels(g) ==
    LET level[id \in Planned(g)] ==
            LET prevs == PrevFlow(g, id) \cap Planned(g)
            IN IF prevs = {} THEN 0 ELSE 1 + Min({level[prev] : prev \in prevs})
    IN level

\* 0 without predecessors, else one more than the highest level of those
\* that were loaded.
Levels(g) ==
    LET level[id \in Planned(g)] ==
            Max({0} \cup {1 + level[prev] : prev \in PrevFlow(g, id) \cap Planned(g)})
    IN level

\* The nodes level by level; a level without nodes gets no step.
Steps(g) ==
    LET level == Levels(g)
        used  == {level[id] : id \in DOMAIN level}
    IN [k \in 1..Cardinality(used) |->
           {id \in DOMAIN level : Cardinality({l \in used : l < level[id]}) = k - 1}]

-----------------------------------------------------------------------------
(* The file builder. *)

\* Pass 1: the nodes that declare a row type.
Structs(g) == {id \in Planned(g) : TypeOf(g, id) \in {"db_input", "map"}}

\* The position of the input flow's port among ALL input ports of the node,
\* flow ports included: the node on the other end of that port if it is a
\* data port, else 0.
SourceAt(g, id, portId) ==
    LET ins == Ins(g, id)
    IN IF portId + 1 \in DOMAIN ins /\ ins[portId + 1].kind = "data"
       THEN ins[portId + 1].peer ELSE 0

RowTypeFrom(g, source) == IF source \in Structs(g) THEN source ELSE AnyRow

\* Seeded fault: the left side of a join has the type of the right one.
InputTypesSwapped(g, id) ==
    LET what == WhatOf(g, id)
        flowType(i) == RowTypeFrom(g, SourceAt(g, id, what.ins[i]))
        ins == Ins(g, id)
        typed == Picked(ins, {i \in DOMAIN ins :
                                  ins[i].kind = "data" /\ ins[i].peer \in Structs(g)})
    IN CASE what.type = "map" /\ Len(what.ins) = 1 -> <<flowType(1)>>
         [] what.type = "map" /\ Len(what.ins) # 1 ->
                [i \in DOMAIN what.join |-> flowType(what.join[3 - i])]
         [] what.type \in {"log", "email_output"} ->
                <<IF typed = <<>> THEN AnyRow ELSE typed[1].peer>>
         [] what.type = "db_output" -> <<AnyRow>>
         [] OTHER -> <<>>

\* The row types of the channels the function of the node is declared to read.
\*   - a map looks its input flows up by port number;
\*   - log and email_output take the first data port whose source has a type;
\*   - db_output reads port.Node of its data ports, which no query loads, and
\*     so finds no type.
InputTypes(g, id) ==
    LET what == WhatOf(g, id)
        flowType(i) == RowTypeFrom(g, SourceAt(g, id, what.ins[i]))
        ins == Ins(g, id)
        typed == Picked(ins, {i \in DOMAIN ins :
                                  ins[i].kind = "data" /\ ins[i].peer \in Structs(g)})
    IN CASE what.type = "map" /\ Len(what.ins) = 1 -> <<flowType(1)>>
         [] what.type = "map" /\ Len(what.ins) # 1 ->
                [i \in DOMAIN what.join |-> flowType(what.join[i])]
         [] what.type \in {"log", "email_output"} ->
                <<IF typed = <<>> THEN AnyRow ELSE typed[1].peer>>
         [] what.type = "db_output" -> <<AnyRow>>
         [] OTHER -> <<>>

\* What makes the generators return an error: no output columns on a map, an
\* output without mode, columns or keys; several input flows and no join.
Rejected(g, id) ==
    LET what == WhatOf(g, id)
    IN \/ ~what.ok
       \/ what.type = "map" /\ Len(what.ins) # 1 /\ what.join = <<>>

\* The data output ports of a node, if it is planned.
Leaving(g, planned, id) ==
    LET outs == Outs(g, id)
    IN Picked(outs, {i \in DOMAIN outs : id \in planned /\ outs[i].kind = "data"})

\* One channel for each data output port of the planned nodes, node after
\* node, with the row type of that node (collectChannels).
Channels(g) ==
    LET planned == Planned(g)
        rows == FlattenSeq([i \in DOMAIN g.nodes |-> Leaving(g, planned, g.nodes[i].id)])
    IN {[n |-> i, from |-> rows[i].owner, to |-> rows[i].peer] : i \in DOMAIN rows}

Into(g, id) == {ch \in Channels(g) : ch.to = id}
FirstChannel(chans) == {ch \in chans : \A other \in chans : ch.n <= other.n}

InOrder(chans) ==
    LET ns == Ascending({ch.n : ch \in chans})
    IN [i \in DOMAIN ns |-> CHOOSE ch \in chans : ch.n = ns[i]]

\* Seeded fault: both sides of a join take the first channel that leads to it.
SideFirst(g, id, portId) ==
    FirstChannel({ch \in Into(g, id) : SourceAt(g, id, portId) # 0})

\* The first channel from the node at this port, for a side of a join.
Side(g, id, portId) ==
    FirstChannel({ch \in Into(g, id) :
                      ch.from = SourceAt(g, id, portId) /\ SourceAt(g, id, portId) # 0})

\* The channels a node is launched to read.  A join takes one for each of its
\* two sides; any other map takes every channel that leads to it; a sink the
\* first one.
Reads(g, id) ==
    LET what == WhatOf(g, id)
    IN CASE what.type = "map" /\ what.join # <<>> ->
                FlattenSeq([i \in DOMAIN what.join |-> InOrder(Side(g, id, what.ins[what.join[i]]))])
         [] what.type = "map" /\ what.join = <<>> -> InOrder(Into(g, id))
         [] what.type \in {"db_output", "log", "email_output"} -> InOrder(FirstChannel(Into(g, id)))
         [] OTHER -> <<>>

\* The channel a node is launched to write, and the one that is closed when it
\* returns: the first that leaves it.
Writes(g, id) ==
    IF TypeOf(g, id) \in {"db_input", "map"}
    THEN FirstChannel({ch \in Channels(g) : ch.from = id}) ELSE {}

\* A node without any argument is not launched; a database node always has
\* its connection.
Launched(g) ==
    {id \in Planned(g) :
        /\ TypeOf(g, id) \in Generated
        /\ \/ TypeOf(g, id) \in {"db_input", "db_output"}
           \/ Reads(g, id) # <<>>
           \/ Writes(g, id) # {}}

\* The outcome of build: an error, a planner that never returns, or a program.
Outcome(g) ==
    IF g.nodes = <<>> \/ Starts(g) = {} THEN "error"
    ELSE IF RecursesForEver(g) THEN "overflow"
    ELSE IF \E id \in Planned(g) : TypeOf(g, id) \in Generated /\ Rejected(g, id) THEN "error"
    ELSE "built"
=============================================================================
