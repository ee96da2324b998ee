----------------------------- MODULE MCPipeline -----------------------------
(* Pipeline on small jobs: one of each shape the editor can draw, tables   *)
(* with equal keys and with keys that match nothing.                       *)
EXTENDS Pipeline

SmallRows == 1..6
Keys == <<1, 2, 2, 2, 3, 1>>

Edge(m, n) == [from |-> m, to |-> n]

(* source, map, output *)
Chain(out, rows) ==
    [kind |-> <<"db_input", "map", out>>,
     ports |-> <<Edge(1, 2), Edge(2, 3)>>,
     inputs |-> <<(<<>>), <<1>>, <<2>>>>,
     table |-> <<rows, <<>>, <<>>>>]

(* two sources, a join or a union, an output *)
Fork(join, left, right) ==
    [kind |-> <<"db_input", "db_input", join, "db_output">>,
     ports |-> <<Edge(1, 3), Edge(2, 3), Edge(3, 4)>>,
     inputs |-> <<(<<>>), <<>>, <<1, 2>>, <<3>>>>,
     table |-> <<left, right, <<>>, <<>>>>]

(* two flows in one job *)
Pair(rows, more) ==
    [kind |-> <<"db_input", "db_output", "db_input", "log">>,
     ports |-> <<Edge(1, 2), Edge(3, 4)>>,
     inputs |-> <<(<<>>), <<1>>, <<>>, <<3>>>>,
     table |-> <<rows, <<>>, more, <<>>>>]

(* a join whose left input is a join *)
Nested(rows, more, most) ==
    [kind |-> <<"db_input", "db_input", "left", "db_input", "inner", "db_output">>,
     ports |-> <<Edge(1, 3), Edge(2, 3), Edge(3, 5), Edge(4, 5), Edge(5, 6)>>,
     inputs |-> <<(<<>>), <<>>, <<1, 2>>, <<>>, <<3, 4>>, <<5>>>>,
     table |-> <<rows, more, <<>>, most, <<>>, <<>>>>]

AllJobs ==
    {Chain(out, rows) : out \in {"db_output", "log", "email"}, rows \in {<<>>, <<1, 2, 3, 4, 5>>}}
    \cup {Fork(join, <<1, 2, 5>>, <<3, 4, 6>>) :
            join \in {"inner", "left", "right", "cross", "union"}}
    \cup {Pair(<<1, 2, 3>>, <<4, 5>>), Nested(<<1, 2, 5>>, <<3>>, <<4, 6>>)}

OneChain == {Chain("db_output", <<1, 2, 3, 4, 5, 6>>)}

=============================================================================
