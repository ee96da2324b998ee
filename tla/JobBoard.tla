------------------------------ MODULE JobBoard ------------------------------
(***************************************************************************)
(* What saving a job promises, without rows, ids or statements.            *)
(*                                                                         *)
(* Each job shows one graph.  A save holds the picture it is about to      *)
(* store; storing it replaces the whole graph of that one job.  Only a     *)
(* save that another one of the same job has overtaken since it began may  *)
(* store something else: the merge of the two.                             *)
(***************************************************************************)
CONSTANT Users

VARIABLES graph,   \* the jobs there are, and the graph each shows
          desk     \* the saves under way: user -> [job, picture, behind]

vars == <<graph, desk>>

Init == DOMAIN desk = {}

Left(saves, u) == [v \in DOMAIN saves \ {u} |-> saves[v]]

Overtaken(j) ==
    [u \in DOMAIN desk |->
        IF desk[u].job = j THEN [desk[u] EXCEPT !.behind = TRUE] ELSE desk[u]]

Begin(u) ==
    /\ u \notin DOMAIN desk
    /\ DOMAIN desk' = DOMAIN desk \cup {u} /\ ~desk'[u].behind
    /\ \A v \in DOMAIN desk : desk'[v] = desk[v]
    /\ UNCHANGED graph

\* A job that is gone stays gone.
Store(u) ==
    /\ u \in DOMAIN desk
    /\ LET j == desk[u].job
       IN /\ DOMAIN graph' = DOMAIN graph
          /\ \A k \in DOMAIN graph \ {j} : graph'[k] = graph[k]
          /\ j \in DOMAIN graph /\ ~desk[u].behind => graph'[j] = desk[u].picture
          /\ desk' = Left(Overtaken(j), u)

Withdraw ==
    /\ DOMAIN desk' \subseteq DOMAIN desk
    /\ \A u \in DOMAIN desk' : desk'[u] = desk[u]
    /\ UNCHANGED graph

Open(j) ==
    /\ DOMAIN graph' = DOMAIN graph \cup {j}
    /\ \A k \in DOMAIN graph : graph'[k] = graph[k]
    /\ graph'[j] = {}
    /\ UNCHANGED desk

Remove(j) ==
    /\ graph' = [k \in DOMAIN graph \ {j} |-> graph[k]]
    /\ desk' = Overtaken(j)

Next ==
    \/ \E u \in Users : Begin(u) \/ Store(u)
    \/ Withdraw
    \/ \E j \in DOMAIN graph' \ DOMAIN graph : Open(j)
    \/ \E j \in DOMAIN graph : Remove(j)

Spec == Init /\ [][Next]_vars
=============================================================================
