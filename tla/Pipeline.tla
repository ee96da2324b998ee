------------------------------ MODULE Pipeline ------------------------------
(***************************************************************************)
(* The program the code generator emits for a job, as it runs: one         *)
(* goroutine per node, one buffered channel per data port, main waiting    *)
(* for all of them and returning the first error (templates/main.go.tmpl   *)
(* and templates/node_*.go.tmpl, launched as file_builder.go wires them).  *)
(*                                                                         *)
(* A row is the sequence of the source rows it was made from, the empty    *)
(* one standing for a nil row; the expressions of a map are left out.      *)
(* Every node has one output port at most, as the programs that compile    *)
(* and end must have: the README says what happens otherwise.              *)
(***************************************************************************)
EXTENDS Integers, SequencesExt

CONSTANTS
    Jobs,        \* the jobs to run: node kinds, ports, inputs and tables
    Rows,        \* the rows of the source tables
    KeyOf,       \* the join key of each row
    Cap,         \* bufferSize: capacity of every channel
    BatchSize    \* rows a database output writes at a time

Joins == {"inner", "left", "right", "cross"}

Outputs == {"db_output", "log", "email"}

Kinds == {"db_input", "map", "union"} \cup Outputs \cup Joins

(* The inputs a node of each kind reads. *)
Arity(kind) ==
    CASE kind = "db_input"                -> 0
      [] kind \in {"union"} \cup Joins    -> 2
      [] OTHER                            -> 1

(* The nodes are numbered along the data flow, as the planner orders them; *)
(* every input has its port, and every node that is not an output has one. *)
IsJob(j) ==
    LET N == DOMAIN j.kind IN
    /\ j.kind \in Seq(Kinds)
    /\ j.table \in [N -> Seq(Rows)]
    /\ j.inputs \in [N -> Seq(N)]
    /\ \A n \in N :
          /\ Len(j.inputs[n]) = Arity(j.kind[n])
          /\ \A m \in Range(j.inputs[n]) : m < n
          /\ IsInjective(j.inputs[n])
    /\ j.ports \in Seq([from : N, to : N])
    /\ Range(j.ports) = UNION {{[from |-> m, to |-> n] : m \in Range(j.inputs[n])} : n \in N}
    /\ \A k, l \in DOMAIN j.ports : j.ports[k].from = j.ports[l].from => k = l
    /\ {j.ports[k].from : k \in DOMAIN j.ports} = {n \in N : j.kind[n] \notin Outputs}

ASSUME PipelineAssumption ==
    /\ \A j \in Jobs : IsJob(j)
    /\ DOMAIN KeyOf = Rows
    /\ Cap \in Nat \ {0}
    /\ BatchSize \in Nat \ {0}

VARIABLES
    job,      \* the job of this program
    ctx,      \* the context: live, or cancelled by a signal
    state,    \* each node's goroutine
    phase,    \* the input it is draining; beyond the last, all are
    read,     \* rows collected from the first input (index of a join)
    held,     \* rows to send, or the batch of a database output
    buf,      \* each channel's rows
    closed,   \* the channels that have been closed
    errs,     \* the nodes whose error is in errChan
    stored,   \* the rows each output has written, printed or mailed
    result    \* what execute returned

vars == <<job, ctx, state, phase, read, held, buf, closed, errs, stored, result>>

Nodes == DOMAIN job.kind
Channels == DOMAIN job.ports
Is(n, kinds) == job.kind[n] \in kinds

---------------------------------------------------------------------------
(* How the generator wires a node. *)

(* The inputs in the order in which the node's function drains them. *)
Drained(n) ==
    LET in == job.inputs[n] IN
    IF Is(n, {"inner", "left", "cross"}) THEN <<in[2], in[1]>> ELSE in

In(n) == [i \in DOMAIN Drained(n) |->
            SelectInSeq(job.ports, LAMBDA p : p.from = Drained(n)[i] /\ p.to = n)]

(* The first port that starts at n, 0 if there is none. *)
Out(n) == SelectInSeq(job.ports, LAMBDA p : p.from = n)

---------------------------------------------------------------------------
(* What a streamed row becomes. *)

Key(r) == KeyOf[r[1]]

(* The index is a map from key to row: the last row of a key stays. *)
Found(r, index) ==
    LET k == SelectLastInSeq(index, LAMBDA s : Key(s) = Key(r)) IN
    IF k = 0 THEN <<>> ELSE index[k]

Emit(kind, r, index) ==
    CASE kind = "cross" -> [i \in DOMAIN index |-> r \o index[i]]
      [] kind = "inner" -> IF Found(r, index) = <<>> THEN <<>> ELSE <<r \o Found(r, index)>>
      [] kind = "left"  -> <<r \o Found(r, index)>>
      [] kind = "right" -> <<Found(r, index) \o r>>
      [] OTHER          -> <<r>>

SourceRows(n) == [i \in DOMAIN job.table[n] |-> <<job.table[n][i]>>]

---------------------------------------------------------------------------
Init ==
    /\ job \in Jobs
    /\ ctx = "live"
    /\ state = [n \in Nodes |-> IF Is(n, {"db_input"}) THEN "query" ELSE "loop"]
    /\ phase = [n \in Nodes |-> 1]
    /\ read = [n \in Nodes |-> <<>>]
    /\ held = [n \in Nodes |-> <<>>]
    /\ buf = [k \in Channels |-> <<>>]
    /\ closed = {}
    /\ errs = {}
    /\ stored = [n \in Nodes |-> <<>>]
    /\ result = "none"

(* docker stop, or an interrupt. *)
Cancel ==
    /\ ctx = "live"
    /\ result = "none"
    /\ ctx' = "cancelled"
    /\ UNCHANGED <<job, state, phase, read, held, buf, closed, errs, stored, result>>

(* Seeded fault: the channel is closed at the end of the function, where   *)
(* an early return does not come by.                                       *)
EndsClosingLast(n, err) ==
    /\ state' = [state EXCEPT ![n] = "done"]
    /\ closed' = IF err THEN closed ELSE closed \cup ({Out(n)} \ {0})
    /\ errs' = IF err THEN errs \cup {n} ELSE errs

(* A node's function returns: its error is sent (errChan has room for one  *)
(* of each), its output channel closed, the WaitGroup told.                *)
Ends(n, err) ==
    /\ state' = [state EXCEPT ![n] = "done"]
    /\ closed' = closed \cup ({Out(n)} \ {0})
    /\ errs' = IF err THEN errs \cup {n} ELSE errs

Draining(n) == state[n] = "loop" /\ phase[n] <= Len(In(n))

Drain(n) == In(n)[phase[n]]

(* Seeded fault: the batch is flushed one row late. *)
FlushDueLate(n) ==
    /\ Is(n, {"db_output"})
    /\ state[n] = "loop"
    /\ held[n] # <<>>
    /\ Len(held[n]) > BatchSize \/ ~Draining(n)

(* A batch is full, or its input has ended. *)
FlushDue(n) ==
    /\ Is(n, {"db_output"})
    /\ state[n] = "loop"
    /\ held[n] # <<>>
    /\ Len(held[n]) >= BatchSize \/ ~Draining(n)

(* Something to send. *)
SendDue(n) ==
    /\ ~Is(n, {"db_output"})
    /\ held[n] # <<>>
    /\ state[n] = "loop"

---------------------------------------------------------------------------
(* Sources. *)

Query(n) ==
    /\ state[n] = "query"
    /\ ctx = "live"
    /\ state' = [state EXCEPT ![n] = "loop"]
    /\ held' = [held EXCEPT ![n] = SourceRows(n)]
    /\ UNCHANGED <<job, ctx, phase, read, buf, closed, errs, stored, result>>

(* The query, a scan or the iteration fails; the latter two can come after *)
(* any number of rows, and do once the context is done.                    *)
SourceFails(n) ==
    /\ Is(n, {"db_input"})
    /\ state[n] # "done"
    /\ Ends(n, TRUE)
    /\ held' = [held EXCEPT ![n] = <<>>]
    /\ UNCHANGED <<job, ctx, phase, read, buf, stored, result>>

---------------------------------------------------------------------------
(* Receiving. *)

(* range goes on to the next row of the channel that node n is draining,   *)
(* and n has nothing else to do first.                                     *)
Receives(n) ==
    /\ Draining(n)
    /\ ~SendDue(n) /\ ~FlushDue(n)
    /\ buf[Drain(n)] # <<>>
    /\ buf' = [buf EXCEPT ![Drain(n)] = Tail(@)]

Next1(n) == Head(buf[Drain(n)])

(* A join collects its first input into a slice or an index. *)
Collect(n) ==
    /\ Is(n, Joins)
    /\ phase[n] = 1
    /\ Receives(n)
    /\ read' = [read EXCEPT ![n] = Append(@, Next1(n))]
    /\ UNCHANGED <<job, ctx, state, phase, held, closed, errs, stored, result>>

(* Any other row a map, a union or a join gets makes the rows it sends on. *)
Transform(n) ==
    /\ Is(n, {"map", "union"}) \/ (Is(n, Joins) /\ phase[n] = 2)
    /\ Receives(n)
    /\ held' = [held EXCEPT ![n] = Emit(job.kind[n], Next1(n), read[n])]
    /\ UNCHANGED <<job, ctx, state, phase, read, closed, errs, stored, result>>

Batch(n) ==
    /\ Is(n, {"db_output"})
    /\ Receives(n)
    /\ held' = [held EXCEPT ![n] = Append(@, Next1(n))]
    /\ UNCHANGED <<job, ctx, state, phase, read, closed, errs, stored, result>>

(* A log prints each row; an email output counts a mail it cannot send and *)
(* goes on.                                                                *)
Consume(n) ==
    /\ Is(n, {"log", "email"})
    /\ Receives(n)
    /\ \/ stored' = [stored EXCEPT ![n] = Append(@, Next1(n))]
       \/ Is(n, {"email"}) /\ UNCHANGED stored
    /\ UNCHANGED <<job, ctx, state, phase, read, held, closed, errs, result>>

(* Seeded fault: an empty channel is taken for a finished one. *)
InputEndsEmpty(n) ==
    /\ Draining(n)
    /\ ~SendDue(n) /\ ~FlushDue(n)
    /\ buf[Drain(n)] = <<>>
    /\ phase' = [phase EXCEPT ![n] = @ + 1]
    /\ UNCHANGED <<job, ctx, state, read, held, buf, closed, errs, stored, result>>

(* range ends: the channel is closed and empty. *)
InputEnds(n) ==
    /\ Draining(n)
    /\ ~SendDue(n) /\ ~FlushDue(n)
    /\ buf[Drain(n)] = <<>>
    /\ Drain(n) \in closed
    /\ phase' = [phase EXCEPT ![n] = @ + 1]
    /\ UNCHANGED <<job, ctx, state, read, held, buf, closed, errs, stored, result>>

---------------------------------------------------------------------------
(* Sending: select on the channel and the context, at random if both can.  *)

Send(n) ==
    /\ SendDue(n)
    /\ Len(buf[Out(n)]) < Cap
    /\ buf' = [buf EXCEPT ![Out(n)] = Append(@, Head(held[n]))]
    /\ held' = [held EXCEPT ![n] = Tail(@)]
    /\ UNCHANGED <<job, ctx, state, phase, read, closed, errs, stored, result>>

(* Seeded fault: only the sources look at the context. *)
AbandonSource(n) ==
    /\ SendDue(n)
    /\ Is(n, {"db_input"})
    /\ ctx = "cancelled"
    /\ Ends(n, TRUE)
    /\ held' = [held EXCEPT ![n] = <<>>]
    /\ UNCHANGED <<job, ctx, phase, read, buf, stored, result>>

Abandon(n) ==
    /\ SendDue(n)
    /\ ctx = "cancelled"
    /\ Ends(n, TRUE)
    /\ held' = [held EXCEPT ![n] = <<>>]
    /\ UNCHANGED <<job, ctx, phase, read, buf, stored, result>>

---------------------------------------------------------------------------
(* Writing a batch: one statement, or one transaction. *)

(* Seeded fault: the batch is not emptied. *)
FlushKeeps(n) ==
    /\ FlushDue(n)
    /\ Len(stored[n]) < 8
    /\ ctx = "live"
    /\ stored' = [stored EXCEPT ![n] = @ \o held[n]]
    /\ UNCHANGED <<job, ctx, state, phase, read, held, buf, closed, errs, result>>

Flush(n) ==
    /\ FlushDue(n)
    /\ ctx = "live"
    /\ stored' = [stored EXCEPT ![n] = @ \o held[n]]
    /\ held' = [held EXCEPT ![n] = <<>>]
    /\ UNCHANGED <<job, ctx, state, phase, read, buf, closed, errs, result>>

(* The statement fails, or its answer is lost after the database has done  *)
(* it: the node gives up, and whoever sends to it finds no reader.  Once   *)
(* the context is done every statement fails.                              *)
FlushFails(n) ==
    /\ FlushDue(n)
    /\ \/ UNCHANGED stored
       \/ ctx = "live" /\ stored' = [stored EXCEPT ![n] = @ \o held[n]]
    /\ Ends(n, TRUE)
    /\ held' = [held EXCEPT ![n] = <<>>]
    /\ UNCHANGED <<job, ctx, phase, read, buf, result>>

---------------------------------------------------------------------------
(* The end of a node, and of execute. *)

Return(n) ==
    /\ state[n] = "loop"
    /\ ~Draining(n)
    /\ held[n] = <<>>
    /\ Ends(n, FALSE)
    /\ UNCHANGED <<job, ctx, phase, read, held, buf, stored, result>>

Finish ==
    /\ result = "none"
    /\ \A n \in Nodes : state[n] = "done"
    /\ result' = IF errs = {} THEN "ok" ELSE "failed"
    /\ UNCHANGED <<job, ctx, state, phase, read, held, buf, closed, errs, stored>>

Node(n) ==
    \/ Query(n) \/ SourceFails(n)
    \/ Collect(n) \/ Transform(n) \/ Batch(n) \/ Consume(n) \/ InputEnds(n)
    \/ Send(n) \/ Abandon(n)
    \/ Flush(n) \/ FlushFails(n)
    \/ Return(n)

Next == Cancel \/ Finish \/ \E n \in Nodes : Node(n)

Spec == Init /\ [][Next]_vars

(* Goroutines run, and a statement sent to a database returns.  No node    *)
(* takes infinitely many steps, so none is passed over for ever.           *)
FairSpec == Spec /\ WF_vars(Finish) /\ WF_vars(\E n \in Nodes : Node(n))

---------------------------------------------------------------------------
(* What the job means, whatever the schedule: the rows each node produces, *)
(* or receives if it is an output.                                         *)

Streamed(n, rows, index) ==
    FlattenSeq([i \in DOMAIN rows |-> Emit(job.kind[n], rows[i], index)])

Produced(n, first, second) ==
    CASE Is(n, {"db_input"}) -> SourceRows(n)
      [] Is(n, {"union"})    -> first \o second
      [] Is(n, Joins)        -> Streamed(n, second, first)
      [] OTHER               -> first

FullRows[n \in Nodes] ==
    Produced(n, FullRows[Drained(n)[1]], FullRows[Drained(n)[2]])

(* n and the nodes whose rows reach it. *)
Upstream[n \in Nodes] == {n} \cup UNION {Upstream[m] : m \in Range(job.inputs[n])}

(* The nodes whose failure can do more to n's rows than cut them short: a  *)
(* join or a union takes the end of its first input for the whole of it,   *)
(* and goes on to the second.                                              *)
Skewing[n \in Nodes] ==
    LET in == Drained(n) IN
    CASE Len(in) = 0 -> {}
      [] Len(in) = 1 -> Skewing[in[1]]
      [] OTHER       -> Upstream[in[1]] \cup Skewing[in[2]]

---------------------------------------------------------------------------
(* Properties. *)

(* The shape of the state; no channel and no batch grows beyond its size.  *)
TypeOK ==
    /\ job \in Jobs
    /\ ctx \in {"live", "cancelled"}
    /\ state \in [Nodes -> {"query", "loop", "done"}]
    /\ phase \in [Nodes -> 1..3]
    /\ \A f \in {read, held, stored} : f \in [Nodes -> Seq(Seq(Rows))]
    /\ \A n \in Nodes : Is(n, {"db_output"}) => Len(held[n]) <= BatchSize
    /\ buf \in [Channels -> Seq(Seq(Rows))]
    /\ \A k \in Channels : Len(buf[k]) <= Cap
    /\ closed \subseteq Channels
    /\ errs \subseteq Nodes
    /\ result \in {"none", "ok", "failed"}

(* "Pipeline completed successfully" is only said of a run that has        *)
(* written, or printed, every row the job means, in its order and once.    *)
Reporting == {n \in Nodes : Is(n, {"db_output", "log"})}

OkMeansAll == result = "ok" => \A n \in Reporting : stored[n] = FullRows[n]

(* Whatever fails and whenever the job is stopped, an output has written a *)
(* prefix of the rows the job means, in whole batches while its input goes *)
(* on; unless the first input of a join or a union was cut short, which    *)
(* no later node can tell from its end.                                    *)
OutputIsPrefix ==
    \A n \in Reporting :
        Skewing[n] \cap errs = {} =>
            /\ IsPrefix(stored[n], FullRows[n])
            /\ Is(n, {"db_output"}) /\ Draining(n) => Len(stored[n]) % BatchSize = 0

(* execute returns, provided no database output fails: joins that drain    *)
(* one input before the other do not block their sources for good, and an  *)
(* error of a source is passed on as the end of its rows.                  *)
Returns == <>(result # "none" \/ \E n \in errs : Is(n, {"db_output"}))

(* A job that is stopped ends, even if an output has failed before.        *)
StopEnds == ctx = "cancelled" ~> result # "none"

(* doc/codegen.md on execute: "Wait for all to complete", "Return first    *)
(* error".                                                                 *)
ExecuteReturns == <>(result # "none")

=============================================================================
