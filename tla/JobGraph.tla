------------------------------ MODULE JobGraph ------------------------------
(***************************************************************************)
(* The graph of a job in its two forms, and the conversions between them.  *)
(*                                                                         *)
(* The editor holds a DRAWING: a sequence of nodes [id, what] and a        *)
(* sequence of links [src, tgt, skind, tkind, tp], in the order in which   *)
(* they were drawn (tp is the index of the port of tgt the link ends at).  *)
(* The database holds TABLES: node rows, and port rows                     *)
(* [owner, out, kind, peer] in the order in which they were inserted; the  *)
(* four port types of the code are the two kinds times input or output.    *)
(*                                                                         *)
(* handler/mapper/job.go turns a drawing into ports when it is saved and   *)
(* ports into links when it is loaded.  Names, positions and the other     *)
(* settings of a node are its "what", which no conversion looks into.      *)
(***************************************************************************)
EXTENDS Integers, Sequences, FiniteSets, SequencesExt

PortKinds == {"data", "flow"}

\* The k-th of a set of numbers, the set in ascending order, and the elements
\* of a sequence at a set of places, in the order of the sequence.
Nth(S, k) == CHOOSE n \in S : Cardinality({m \in S : m <= n}) = k
Ascending(S) == [k \in 1..Cardinality(S) |-> Nth(S, k)]
Picked(s, places) == [k \in 1..Cardinality(places) |-> s[Nth(places, k)]]

\* The two ends of a link may be of different kinds: the editor does not
\* compare them (fromConnexionPortType).
OutputOf(link) == [kind |-> link.skind, peer |-> link.tgt]
InputOf(link)  == [kind |-> link.tkind, peer |-> link.src]

\* The ports a drawing gives a node, in the order of the links; a link that
\* names a node the drawing lacks gives a port to its other end only, and the
\* port index the link carries is not looked at (JobWithNodeToModel).
OutputsOf(drawing, id) ==
    LET links == drawing.links
        own == Picked(links, {i \in DOMAIN links : links[i].src = id})
    IN [i \in DOMAIN own |-> OutputOf(own[i])]

InputsOf(drawing, id) ==
    LET links == drawing.links
        own == Picked(links, {i \in DOMAIN links : links[i].tgt = id})
    IN [i \in DOMAIN own |-> InputOf(own[i])]

\* The port rows of a drawing: node after node, outputs before inputs, every
\* id replaced by the one idMap gives it or kept when it has none.
Resolve(idMap, id) == IF id \in DOMAIN idMap THEN idMap[id] ELSE id

PortRow(idMap, id, isOut, port) ==
    [owner |-> Resolve(idMap, id), out |-> isOut, kind |-> port.kind,
     peer |-> Resolve(idMap, port.peer)]

PortRows(drawing, idMap) ==
    LET RowsOf(id) ==
            LET outs == OutputsOf(drawing, id)
                ins  == InputsOf(drawing, id)
            IN [i \in DOMAIN outs |-> PortRow(idMap, id, TRUE, outs[i])] \o
               [i \in DOMAIN ins |-> PortRow(idMap, id, FALSE, ins[i])]
    IN FlattenSeq([i \in DOMAIN drawing.nodes |-> RowsOf(drawing.nodes[i].id)])

-----------------------------------------------------------------------------
(* Reading the tables back. *)

PortsOf(ports, id, isOut) ==
    Picked(ports, {i \in DOMAIN ports : ports[i].owner = id /\ ports[i].out = isOut})

NodeIdsOf(nodes) == {nodes[i].id : i \in DOMAIN nodes}

\* The index of the first input port of the target that comes from this node
\* and has this kind, counted among the target's ports of the kind; 0 when
\* there is none or the target was not loaded (findTargetPortIndex).
TargetPort(nodes, ports, port) ==
    LET ins == IF port.peer \in NodeIdsOf(nodes)
               THEN PortsOf(ports, port.peer, FALSE) ELSE <<>>
        hits == {i \in DOMAIN ins : ins[i].peer = port.owner /\ ins[i].kind = port.kind}
        first == CHOOSE i \in hits : \A k \in hits : i <= k
    IN IF hits = {} THEN 0
       ELSE Cardinality({i \in 1..(first - 1) : ins[i].kind = port.kind})

\* The links of the loaded nodes, node after node, one for each output port
\* (ToJobResponseWithNodes).
LinksOf(nodes, ports) ==
    LET LinkOf(p) == [src |-> p.owner, tgt |-> p.peer, skind |-> p.kind,
                      tkind |-> p.kind, tp |-> TargetPort(nodes, ports, p)]
        Of(id) == LET outs == PortsOf(ports, id, TRUE)
                  IN [i \in DOMAIN outs |-> LinkOf(outs[i])]
    IN FlattenSeq([i \in DOMAIN nodes |-> Of(nodes[i].id)])
=============================================================================
