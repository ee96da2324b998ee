---------------------------- MODULE MCJobService ----------------------------
(* Two users, two jobs, and the drawings the runs start from. *)
EXTENDS JobService

CONSTANTS u1, u2

MCUsers == {u1, u2}
MCNamed == {u2}

What(label, type, ins, join) ==
    [label |-> label, type |-> type, ins |-> ins, join |-> join, ok |-> TRUE]
Nodes(whats) == [i \in DOMAIN whats |-> [id |-> i - 1, what |-> whats[i]]]
Data(s, t) == [src |-> s, tgt |-> t, skind |-> "data", tkind |-> "data", tp |-> 0]
Flow(s, t) == [src |-> s, tgt |-> t, skind |-> "flow", tkind |-> "flow", tp |-> 0]

Start == What("start", "start", <<>>, <<>>)
Input(label) == What(label, "db_input", <<>>, <<>>)
Log == What("log", "log", <<>>, <<>>)
Map == What("map", "map", <<0>>, <<>>)
Email == What("email", "email_output", <<>>, <<>>)
Output == What("output", "db_output", <<>>, <<>>)

Small == [nodes |-> Nodes(<<Input("a"), Log>>), links |-> <<Data(0, 1)>>]

\* start, a, map and log with any flow links between them, drawn before or
\* after the data links.
FlowLinks(pairs) == [i \in DOMAIN pairs |-> Flow(pairs[i][1], pairs[i][2])]
Chains ==
    LET all == <<<<0, 1>>, <<0, 2>>, <<0, 3>>, <<1, 2>>, <<1, 3>>, <<2, 3>>, <<2, 1>>, <<3, 2>>>>
        some(subset) == SelectSeq(all, LAMBDA pair : pair \in subset)
        data == <<Data(1, 2), Data(2, 3)>>
    IN UNION {{[nodes |-> Nodes(<<Start, Input("a"), Map, Log>>), links |-> links] :
                  links \in {data \o FlowLinks(some(subset)), FlowLinks(some(subset)) \o data}}
                  : subset \in SUBSET Range(all)}

\* Two inputs joined, in either order of the links and of the sides, each after
\* a start of its own or one after the other.
Joins ==
    {[nodes |-> Nodes(<<Start, Input("a"), Input("b"), What("map", "map", ins, <<1, 2>>),
                        sink, [Start EXCEPT !.label = "start2"]>>),
      links |-> [i \in 1..7 |-> IF i <= 3 THEN data[i] ELSE flow[i - 3]]] :
        ins \in {<<0, 1>>, <<1, 0>>}, sink \in {Log, Email, Output},
        data \in {<<Data(2, 3), Data(1, 3), Data(3, 4)>>, <<Data(1, 3), Data(2, 3), Data(3, 4)>>},
        flow \in {<<Flow(0, 1), Flow(5, 2), Flow(1, 3), Flow(3, 4)>>,
                  <<Flow(0, 1), Flow(1, 2), Flow(2, 3), Flow(3, 4)>>}}

\* No start; a map without settings; two inputs and no join; one node that
\* writes to two.
Odd ==
    {[nodes |-> Nodes(<<Start, Input("a"), [Map EXCEPT !.ok = FALSE], Log>>),
      links |-> <<Data(1, 2), Data(2, 3), Flow(0, 1), Flow(1, 2), Flow(2, 3)>>],
     [nodes |-> Nodes(<<Start, Input("a"), Input("b"), What("map", "map", <<0, 1>>, <<>>)>>),
      links |-> <<Data(1, 3), Data(2, 3), Flow(0, 1), Flow(1, 2), Flow(2, 3)>>],
     [nodes |-> Nodes(<<Start, Input("a"), Log, Email>>),
      links |-> <<Data(1, 2), Data(1, 3), Flow(0, 1), Flow(1, 2), Flow(1, 3)>>]}

\* Two saves of any editors; loads beside a save; what else happens beside a
\* save and a load; an execution whose planner never ends beside a save; and
\* drawings that are only executed.
Left(stroke, save, open, other, run) ==
    [stroke |-> stroke, save |-> save, open |-> open, other |-> other, run |-> run]
Cycle == [nodes |-> Nodes(<<Start, Log, Email>>),
          links |-> <<Flow(0, 1), Flow(1, 2), Flow(2, 1)>>]
MCScenarios ==
    {[drawing |-> Small, left |-> Left(1, 2, 0, 0, 0)],
     [drawing |-> Small, left |-> Left(1, 1, 1, 0, 1)],
     [drawing |-> Small, left |-> Left(1, 1, 1, 1, 0)],
     [drawing |-> Small, left |-> Left(0, 0, 0, 2, 0)],
     [drawing |-> Cycle, left |-> Left(0, 1, 0, 0, 1)]}
    \cup {[drawing |-> d, left |-> Left(0, 0, 0, 0, 1)] : d \in Chains \cup Joins \cup Odd}

MCPalette == {Log, Input("c")}
=============================================================================
