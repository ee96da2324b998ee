----------------------------- MODULE JobService -----------------------------
(***************************************************************************)
(* The jobs of the API server: job_handler.go, job_service.go and          *)
(* job_repo.go over the tables of 01-schema.sql, the editors of the web    *)
(* client that load and save the graphs, and the executions that read      *)
(* them.                                                                   *)
(*                                                                         *)
(* A request is a sequence of steps: the access check of the handler, and  *)
(* then the statements of the service.  One transaction's writes are one   *)
(* step; what it read before them is an earlier step, because the database *)
(* runs at READ COMMITTED and a save of a graph takes no lock before it    *)
(* writes.                                                                 *)
(***************************************************************************)
EXTENDS CodeGen

CONSTANTS
    Users,
    Runner,       \* the goroutine that executes a job
    Scenarios,    \* [drawing, left]: what job 1 was saved from, and how many
                  \* strokes in the editors, saves, loads, other requests and
                  \* executions there may be (a bound)
    Palette,      \* the nodes a user may draw
    Founder,      \* the creator of job 1
    Named,        \* the users that shares and contacts name
    MaxJob,       \* bound: jobs ever created
    MaxNode       \* bound: node rows ever created

Counted == {"stroke", "save", "open", "other", "run"}

ASSUME JobAssumption ==
    /\ \A s \in Scenarios : s.left \in [Counted -> Nat]
    /\ Runner \notin Users
    /\ Founder \in Users /\ Named \subseteq Users
    /\ MaxJob \in Nat \ {0} /\ MaxNode \in Nat

\* The settings of the nodes, drawn at first or later.
Whats == Palette \cup UNION {{s.drawing.nodes[i].what : i \in DOMAIN s.drawing.nodes} : s \in Scenarios}

\* The input flows of a map name their ports by numbers (InputFlow).
ASSUME SettingsAssumption == \A what \in Whats : what.ins \in Seq(Int)

\* A drawing numbers its nodes from 0 and has links between them only.
ASSUME ScenarioAssumption ==
    \A s \in Scenarios :
        LET nodes == s.drawing.nodes
            ids == {nodes[i].id : i \in DOMAIN nodes}
            whats == {nodes[i].what : i \in DOMAIN nodes}
        IN /\ s.drawing \in [nodes : Seq([id : ids, what : whats]),
                             links : Seq([src : ids, tgt : ids, skind : PortKinds,
                                          tkind : PortKinds, tp : Nat])]
           /\ nodes # <<>> /\ \A i \in DOMAIN nodes : nodes[i].id = i - 1

VARIABLES
    job,        \* rows of job: id -> [creator, public]
    access,     \* rows of job_user_access
    contacts,   \* rows of job_notification_contact
    node,       \* rows of node: id -> [job, what]
    ports,      \* rows of port, in the order of their ids
    serial,     \* the last id given to a job and to a node
    editor,     \* each user's editor
    call,       \* the request each user has under way, and the execution
    left        \* what the bound of the scenario leaves to be done

tables == <<job, access, contacts, node, ports, serial>>
vars == <<job, access, contacts, node, ports, serial, editor, call, left>>

Blank == [nodes |-> <<>>, links |-> <<>>]

Idle == [op |-> "idle", job |-> 0, drawing |-> Blank, seen |-> {},
         ports |-> <<>>, behind |-> FALSE, clean |-> FALSE]

Callers == Users \cup {Runner}

NodesOf(j) == {id \in DOMAIN node : node[id].job = j}

\* The node rows of a job as Preload returns them.
RowsOf(j) ==
    LET ids == Ascending(NodesOf(j))
    IN [i \in DOMAIN ids |-> [id |-> ids[i], what |-> node[ids[i]].what]]

\* What loadFromJob puts into the editor; what is drawn next is numbered from
\* one above the highest row id.
Loaded(j, rows, portRows, clean) ==
    [job |-> j, nodes |-> rows, links |-> LinksOf(rows, portRows),
     next |-> Max(NodeIdsOf(rows)) + 1, clean |-> clean]

\* Job 1 was drawn and saved by its creator: the ids of the drawing, 0, 1,
\* ..., have become row ids.  Those who may edit it have opened it.
Init ==
    \E scenario \in Scenarios, others \in SUBSET (Users \ {Founder}) :
        LET drawing == scenario.drawing
            count == Len(drawing.nodes)
            idMap == [id \in 0..(count - 1) |-> id + 1]
        IN /\ job = [j \in {1} |-> [creator |-> Founder, public |-> FALSE]]
           /\ access = {[job |-> 1, user |-> u, role |-> "editor"] : u \in others}
           /\ contacts = {}
           /\ node = [id \in 1..count |-> [job |-> 1, what |-> drawing.nodes[id].what]]
           /\ ports = PortRows(drawing, idMap)
           /\ serial = [job |-> 1, node |-> count]
           /\ editor = [u \in Users |->
                 IF u \in others \cup {Founder} THEN Loaded(1, RowsOf(1), ports, TRUE)
                 ELSE [job |-> 0, nodes |-> <<>>, links |-> <<>>, next |-> 0, clean |-> FALSE]]
           /\ call = [p \in Callers |-> Idle]
           /\ left = scenario.left

-----------------------------------------------------------------------------
(* Access, and the steps of a request. *)

\* CanUserAccess: the creator first, then visibility, then the shares; a user
\* with an explicit share of a public job is a viewer of it.
Role(u, j) ==
    LET shares == {a \in access : a.job = j /\ a.user = u}
    IN IF j \notin DOMAIN job THEN "none"
       ELSE IF job[j].creator = u THEN "owner"
       ELSE IF job[j].public THEN "viewer"
       ELSE IF shares # {} THEN (CHOOSE a \in shares : TRUE).role
       ELSE "none"

\* The roles each endpoint accepts (checkAccess).
Needed(op) ==
    CASE op = "open" -> {"owner", "editor", "viewer"}
      [] op \in {"save", "patch", "contact"} -> {"owner", "editor"}
      [] op \in {"delete", "share"} -> {"owner"}

Step(p, op) == call' = [call EXCEPT ![p].op = op]
Return(p) == call' = [call EXCEPT ![p] = Idle]

Spend(what) == left[what] > 0 /\ left' = [left EXCEPT ![what] = @ - 1]

Passes(u, op, j) ==
    /\ call[u] = Idle
    /\ Role(u, j) \in Needed(op)
    /\ Spend(IF op \in Counted THEN op ELSE "other")

Check(u, op, j) ==
    /\ Passes(u, op, j)
    /\ call' = [call EXCEPT ![u] = [Idle EXCEPT !.op = op, !.job = j]]
    /\ UNCHANGED <<tables, editor>>

\* A statement fails or the connection breaks: the transaction rolls back.
Abandon(p) ==
    /\ call[p].op \notin {"idle", "planned"}
    /\ Return(p)
    /\ UNCHANGED <<tables, editor, left>>

\* Whoever works on this job has read rows that are now older than the table.
Overtake(u, j) ==
    /\ call' = [p \in Callers |->
          IF p = u THEN Idle
          ELSE IF call[p].job = j THEN [call[p] EXCEPT !.behind = TRUE, !.clean = FALSE]
          ELSE call[p]]
    /\ editor' = [v \in Users |->
          IF v = u \/ editor[v].job = j
          THEN [editor[v] EXCEPT !.clean = FALSE] ELSE editor[v]]

-----------------------------------------------------------------------------
(* Loading a graph: its nodes, their input ports and their output ports are *)
(* three queries.  An opened job goes to the editor; a job without nodes    *)
(* leaves there what was there before.                                      *)

\* The page takes over the number of the job before the request is answered.
Open(u, j) ==
    /\ Passes(u, "open", j)
    /\ call' = [call EXCEPT ![u] = [Idle EXCEPT !.op = "open", !.job = j]]
    /\ editor' = [editor EXCEPT ![u].job = j, ![u].clean = FALSE]
    /\ UNCHANGED tables

\* Nothing checks who asks for an execution.
Execute(j) ==
    /\ call[Runner] = Idle
    /\ Spend("run")
    /\ call' = [call EXCEPT ![Runner] = [Idle EXCEPT !.op = "execute", !.job = j]]
    /\ UNCHANGED <<tables, editor>>

LoadNodes(p) ==
    /\ call[p].op \in {"open", "execute"}
    /\ call[p].job \in DOMAIN job
    /\ call' = [call EXCEPT ![p].op = "ins", ![p].behind = FALSE,
                            ![p].drawing.nodes = RowsOf(call[p].job)]
    /\ UNCHANGED <<tables, editor, left>>

PreloadPorts(p, isOut) ==
    LET ids == NodeIdsOf(call[p].drawing.nodes)
    IN Picked(ports, {i \in DOMAIN ports : ports[i].owner \in ids /\ ports[i].out = isOut})

LoadIns(p) ==
    /\ call[p].op = "ins"
    /\ call' = [call EXCEPT ![p].op = "outs", ![p].ports = PreloadPorts(p, FALSE)]
    /\ UNCHANGED <<tables, editor, left>>

LoadOuts(u) ==
    /\ call[u].op = "outs"
    /\ LET rows == call[u].drawing.nodes
           portRows == call[u].ports \o PreloadPorts(u, TRUE)
       IN editor' = IF rows = <<>> THEN editor
                    ELSE [editor EXCEPT ![u] =
                             Loaded(call[u].job, rows, portRows, ~call[u].behind)]
    /\ Return(u)
    /\ UNCHANGED <<tables, left>>

LoadRun ==
    /\ call[Runner].op = "outs"
    /\ call' = [call EXCEPT ![Runner].op = "planned",
                            ![Runner].ports = @ \o PreloadPorts(Runner, TRUE)]
    /\ UNCHANGED <<tables, editor, left>>

\* The graph the planner works on.
RunGraph == [nodes |-> call[Runner].drawing.nodes, ports |-> call[Runner].ports]

\* The files are written, or the error is reported.
RunEnds ==
    /\ call[Runner].op = "planned"
    /\ Outcome(RunGraph) # "overflow"
    /\ Return(Runner)
    /\ UNCHANGED <<tables, editor, left>>

\* The stack of the API process is exhausted: every request dies with it.
RunKillsServer ==
    /\ call[Runner].op = "planned"
    /\ Outcome(RunGraph) = "overflow"
    /\ call' = [p \in Callers |-> Idle]
    /\ UNCHANGED <<tables, editor, left>>

-----------------------------------------------------------------------------
(* The editor. *)

Stroke(u) ==
    /\ call[u] = Idle
    /\ editor[u].job # 0
    /\ Spend("stroke")
    /\ UNCHANGED <<tables, call>>

\* No two nodes lie at the same place, which is what their label stands for.
Draw(u, what) ==
    /\ Stroke(u)
    /\ \A i \in DOMAIN editor[u].nodes : editor[u].nodes[i].what.label # what.label
    /\ editor' = [editor EXCEPT
          ![u].nodes = Append(@, [id |-> editor[u].next, what |-> what]),
          ![u].next = @ + 1, ![u].clean = FALSE]

\* A port of either kind is taken as the end of a link from either kind.
Connect(u, s, t, skind, tkind) ==
    /\ Stroke(u)
    /\ editor' = [editor EXCEPT
          ![u].links = Append(@, [src |-> s, tgt |-> t, skind |-> skind,
                                  tkind |-> tkind, tp |-> 0]),
          ![u].clean = FALSE]

Erase(u, id) ==
    /\ Stroke(u)
    /\ LET nodes == editor[u].nodes
           links == editor[u].links
           others == {i \in DOMAIN nodes : nodes[i].id # id}
           apart == {i \in DOMAIN links : links[i].src # id /\ links[i].tgt # id}
       IN editor' = [editor EXCEPT ![u].nodes = Picked(nodes, others),
                                   ![u].links = Picked(links, apart), ![u].clean = FALSE]

-----------------------------------------------------------------------------
(* Saving a graph. *)

\* The payload is the editor as it is when the request is sent; the editor
\* keeps its ids, whatever the answer says.
Save(u) ==
    /\ Passes(u, "save", editor[u].job)
    /\ call' = [call EXCEPT ![u] = [Idle EXCEPT
          !.op = "save", !.job = editor[u].job, !.clean = editor[u].clean,
          !.drawing = [nodes |-> editor[u].nodes, links |-> editor[u].links]]]
    /\ UNCHANGED <<tables, editor>>

\* A payload without nodes updates the fields of the job only.
SaveEmpty(u) ==
    /\ call[u].op = "save" /\ call[u].drawing.nodes = <<>>
    /\ Return(u)
    /\ UNCHANGED <<tables, editor, left>>

\* UpdateWithNodes asks for the ids the job has now.
SaveRead(u) ==
    /\ call[u].op = "save" /\ call[u].drawing.nodes # <<>>
    /\ call' = [call EXCEPT ![u].op = "saving", ![u].behind = FALSE,
                            ![u].seen = NodesOf(call[u].job)]
    /\ UNCHANGED <<tables, editor, left>>

\* The writes of UpdateWithNodes: a payload id that the job had is kept, any
\* other gets a row of its own; ids that are not in the payload go.
\* Seeded fault: every positive id is taken for one of the job's.
KeptAnywhere(c) == NodeIdsOf(c.drawing.nodes) \ {0}

Kept(c) == NodeIdsOf(c.drawing.nodes) \cap c.seen

Fresh(c) ==
    LET nodes == c.drawing.nodes
    IN Picked(nodes, {i \in DOMAIN nodes : nodes[i].id \notin Kept(c)})

\* Seeded fault: the ids start one above what the sequence gives.
IdMapAhead(c) ==
    LET fresh == Fresh(c)
        place(id) == CHOOSE i \in DOMAIN fresh : fresh[i].id = id
    IN [id \in NodeIdsOf(c.drawing.nodes) |->
           IF id \in Kept(c) THEN id ELSE serial.node + place(id) + 1]

IdMap(c) ==
    LET fresh == Fresh(c)
        place(id) == CHOOSE i \in DOMAIN fresh : fresh[i].id = id
    IN [id \in NodeIdsOf(c.drawing.nodes) |->
           IF id \in Kept(c) THEN id ELSE serial.node + place(id)]

\* An update of a row that is gone writes nothing.
NodesAfter(c) ==
    LET final == IdMap(c)
        gone  == c.seen \ Kept(c)
        new   == {final[Fresh(c)[i].id] : i \in DOMAIN Fresh(c)}
        what(id) == c.drawing.nodes[CHOOSE i \in DOMAIN c.drawing.nodes :
                                        final[c.drawing.nodes[i].id] = id].what
    IN [id \in (DOMAIN node \ gone) \cup new |->
           IF id \in Kept(c) THEN [node[id] EXCEPT !.what = what(id)]
           ELSE IF id \in new THEN [job |-> c.job, what |-> what(id)]
           ELSE node[id]]

\* Seeded fault: the ports of the kept nodes are not deleted first.
PortsPiledUp(c) ==
    Picked(ports, {i \in DOMAIN ports : ports[i].owner \notin c.seen \ Kept(c)})
    \o PortRows(c.drawing, IdMap(c))

PortsAfter(c) ==
    Picked(ports, {i \in DOMAIN ports : ports[i].owner \notin c.seen})
    \o PortRows(c.drawing, IdMap(c))

\* Seeded fault: nodes are stored for a job that is gone.
AcceptedForNoJob(c) ==
    LET rows == PortRows(c.drawing, IdMap(c))
    IN \A i \in DOMAIN rows : rows[i].owner \in DOMAIN NodesAfter(c)

\* The foreign keys of node.job_id and port.node_id.
Accepted(c) ==
    /\ Fresh(c) # <<>> => c.job \in DOMAIN job
    /\ LET rows == PortRows(c.drawing, IdMap(c))
       IN \A i \in DOMAIN rows : rows[i].owner \in DOMAIN NodesAfter(c)

SaveWrite(u) ==
    /\ call[u].op = "saving"
    /\ serial.node + Len(Fresh(call[u])) <= MaxNode
    /\ Accepted(call[u])
    /\ node' = NodesAfter(call[u])
    /\ ports' = PortsAfter(call[u])
    /\ serial' = [serial EXCEPT !.node = @ + Len(Fresh(call[u]))]
    /\ Overtake(u, call[u].job)
    /\ UNCHANGED <<job, access, contacts, left>>

\* A foreign key fails: all is rolled back but the ids drawn from the sequence.
SaveRefused(u) ==
    /\ call[u].op = "saving"
    /\ ~Accepted(call[u])
    /\ LET drawn == IF call[u].job \in DOMAIN job THEN Len(Fresh(call[u]))
                    ELSE IF Fresh(call[u]) = <<>> THEN 0 ELSE 1
       IN /\ serial.node + drawn <= MaxNode
          /\ serial' = [serial EXCEPT !.node = @ + drawn]
    /\ Return(u)
    /\ UNCHANGED <<job, access, contacts, node, ports, editor, left>>

-----------------------------------------------------------------------------
(* The other requests. *)

Viewers(j, with) == {[job |-> j, user |-> v, role |-> "viewer"] : v \in with}

Create(u, public) ==
    /\ call[u] = Idle
    /\ Spend("other")
    /\ serial.job < MaxJob
    /\ serial' = [serial EXCEPT !.job = @ + 1]
    /\ job' = [j \in DOMAIN job \cup {serial.job + 1} |->
                  IF j = serial.job + 1 THEN [creator |-> u, public |-> public] ELSE job[j]]
    /\ \E op \in {"idle", "listed"} :     \* with or without users to share with
           call' = [call EXCEPT ![u] =
               IF op = "idle" THEN Idle ELSE [Idle EXCEPT !.op = op, !.job = serial.job + 1]]
    /\ UNCHANGED <<access, contacts, node, ports, editor>>

\* A role that was given before is replaced (FirstOrCreate with Assign).
Given(rows) ==
    {a \in access : \A r \in rows : a.job # r.job \/ a.user # r.user} \cup rows

ShareCreated(u, with) ==
    /\ call[u].op = "listed"
    /\ access' = Given(Viewers(call[u].job, with))
    /\ Return(u)
    /\ UNCHANGED <<job, contacts, node, ports, serial, editor, left>>

\* Nothing asks whether the job is still there.
Share(u, v, role) ==
    /\ call[u].op = "share"
    /\ access' = Given({[job |-> call[u].job, user |-> v, role |-> role]})
    /\ Return(u)
    /\ UNCHANGED <<job, contacts, node, ports, serial, editor, left>>

Unshare(u, v) ==
    /\ call[u].op = "share"
    /\ access' = {a \in access : a.job # call[u].job \/ a.user # v}
    /\ Return(u)
    /\ UNCHANGED <<job, contacts, node, ports, serial, editor, left>>

\* An update of the fields, which may carry a new list of users; a job that is
\* gone ends the request.
Patch(u, public) ==
    /\ call[u].op = "patch"
    /\ LET j == call[u].job
       IN IF j \in DOMAIN job
          THEN /\ job' = [job EXCEPT ![j].public = public]
               /\ \E op \in {"idle", "relist"} :
                      call' = [call EXCEPT ![u] =
                          IF op = "idle" THEN Idle ELSE [@ EXCEPT !.op = op]]
          ELSE Return(u) /\ UNCHANGED job
    /\ UNCHANGED <<access, contacts, node, ports, serial, editor, left>>

\* The list replaces every share, and every role becomes viewer; it is passed
\* over when the sender is not, or no longer, the owner.
Relist(u, with) ==
    /\ call[u].op = "relist"
    /\ LET j == call[u].job
       IN access' = IF Role(u, j) # "owner" THEN access
                    ELSE {a \in access : a.job # j} \cup Viewers(j, with)
    /\ Return(u)
    /\ UNCHANGED <<job, contacts, node, ports, serial, editor, left>>

\* The foreign key of the contact refuses a job that is gone.
AddContact(u, v) ==
    /\ call[u].op = "contact"
    /\ call[u].job \in DOMAIN job
    /\ contacts' = contacts \cup {[job |-> call[u].job, user |-> v]}
    /\ Return(u)
    /\ UNCHANGED <<job, access, node, ports, serial, editor, left>>

RemoveContact(u, v) ==
    /\ call[u].op = "contact"
    /\ contacts' = contacts \ {[job |-> call[u].job, user |-> v]}
    /\ Return(u)
    /\ UNCHANGED <<job, access, node, ports, serial, editor, left>>

\* Delete is two statements outside a transaction; the second one takes the
\* nodes, their ports and the contacts along (ON DELETE CASCADE).
DeleteAccess(u) ==
    /\ call[u].op = "delete"
    /\ access' = {a \in access : a.job # call[u].job}
    /\ Step(u, "deleting")
    /\ UNCHANGED <<job, contacts, node, ports, serial, editor, left>>

Cascade(j) ==
    LET others == DOMAIN node \ NodesOf(j)
    IN /\ node' = [id \in others |-> node[id]]
       /\ ports' = Picked(ports, {i \in DOMAIN ports : ports[i].owner \in others})
       /\ contacts' = {c \in contacts : c.job # j}

DeleteJob(u) ==
    /\ call[u].op = "deleting"
    /\ job' = [j \in DOMAIN job \ {call[u].job} |-> job[j]]
    /\ Cascade(call[u].job)
    /\ Overtake(u, call[u].job)
    /\ UNCHANGED <<access, serial, left>>

-----------------------------------------------------------------------------
Editing(u) ==
    \/ \E what \in Palette : Draw(u, what)
    \/ \E s, t \in NodeIdsOf(editor[u].nodes), skind, tkind \in PortKinds :
           s # t /\ Connect(u, s, t, skind, tkind)
    \/ \E id \in NodeIdsOf(editor[u].nodes) : Erase(u, id)

Saving(u) == Save(u) \/ SaveEmpty(u) \/ SaveRead(u) \/ SaveWrite(u) \/ SaveRefused(u)

Managing(u) ==
    \/ \E j \in DOMAIN job, op \in {"patch", "contact", "delete", "share"} : Check(u, op, j)
    \/ \E public \in BOOLEAN : Create(u, public) \/ Patch(u, public)
    \/ \E with \in SUBSET Named : ShareCreated(u, with) \/ Relist(u, with)
    \/ \E v \in Named, role \in {"editor", "viewer"} : Share(u, v, role)
    \/ \E v \in Named : Unshare(u, v) \/ AddContact(u, v) \/ RemoveContact(u, v)
    \/ DeleteAccess(u) \/ DeleteJob(u)

Loading ==
    \/ \E u \in Users, j \in DOMAIN job : Open(u, j)
    \/ \E j \in DOMAIN job : Execute(j)
    \/ \E p \in Callers : LoadNodes(p) \/ LoadIns(p) \/ Abandon(p)
    \/ \E u \in Users : LoadOuts(u)
    \/ LoadRun \/ RunEnds \/ RunKillsServer

Next == Loading \/ \E u \in Users : Editing(u) \/ Saving(u) \/ Managing(u)

Spec == Init /\ [][Next]_vars

-----------------------------------------------------------------------------
(* What the tables show of a job: each node, under its label, with the     *)
(* sequences of its output and input ports, whatever the row ids are.      *)

Label(whats, id) == IF id \in DOMAIN whats THEN whats[id].label ELSE "nowhere"
Ends(whats, row) == [i \in DOMAIN row |-> <<row[i].kind, Label(whats, row[i].peer)>>]

Picture(whats, outs, ins) ==
    {[what |-> whats[id], outs |-> Ends(whats, outs[id]), ins |-> Ends(whats, ins[id])]
        : id \in DOMAIN whats}

Shown(j) ==
    LET ids == NodesOf(j)
    IN Picture([id \in ids |-> node[id].what],
               [id \in ids |-> PortsOf(ports, id, TRUE)],
               [id \in ids |-> PortsOf(ports, id, FALSE)])

Drawn(drawing) ==
    LET ids == NodeIdsOf(drawing.nodes)
        place(id) == CHOOSE i \in DOMAIN drawing.nodes : drawing.nodes[i].id = id
    IN Picture([id \in ids |-> drawing.nodes[place(id)].what],
               [id \in ids |-> OutputsOf(drawing, id)],
               [id \in ids |-> InputsOf(drawing, id)])

\* The same without the order of the input ports.
Unordered(picture) ==
    {[n EXCEPT !.ins = [port \in Range(n.ins) |->
                            Cardinality({i \in DOMAIN n.ins : n.ins[i] = port})]]
        : n \in picture}

Board == INSTANCE JobBoard WITH
    graph <- [j \in DOMAIN job |-> Shown(j)],
    desk  <- [u \in {v \in Users : call[v].op = "saving"} |->
                 [job |-> call[u].job, picture |-> Drawn(call[u].drawing),
                  behind |-> call[u].behind]]

-----------------------------------------------------------------------------
(* Properties. *)

RowType(row) == row.owner \in Nat /\ row.out \in BOOLEAN /\ row.kind \in PortKinds /\ row.peer \in Nat

\* Every variable holds what the tables, the editors and the requests hold.
TypeOK ==
    /\ DOMAIN job \subseteq 1..serial.job
    /\ DOMAIN node \subseteq 1..serial.node
    /\ access \subseteq [job : 1..serial.job, user : Users, role : {"editor", "viewer"}]
    /\ contacts \subseteq [job : 1..serial.job, user : Users]
    /\ \A i \in DOMAIN ports : RowType(ports[i])
    /\ \A p \in Callers : call[p].job \in 0..serial.job /\ call[p].behind \in BOOLEAN
    /\ \A u \in Users : editor[u].job \in 0..serial.job

\* Nothing is left of a deleted job but its shares: nodes and contacts belong
\* to jobs, ports to nodes, and a user has one role in a job; a request that
\* goes on after the delete does not bring anything back.
TablesConsistent ==
    /\ \A id \in DOMAIN node : node[id].job \in DOMAIN job
    /\ \A c \in contacts : c.job \in DOMAIN job
    /\ \A i \in DOMAIN ports : ports[i].owner \in DOMAIN node
    /\ \A a, b \in access : a.job = b.job /\ a.user = b.user => a = b

\* A save replaces the graph of its job and touches no other one, with the
\* picture that was sent, whatever ids the editor used; only a save that
\* another one of the same job overtook may leave a mixture (UpdateWithNodes).
SavesReplace == Board!Spec

\* Every link has its two ends: false of what overlapping saves may leave, and
\* of a graph that was saved between the three queries of a load.
Whole(g) ==
    LET ids == NodeIdsOf(g.nodes)
        count(row, peer, kind) ==
            Cardinality({i \in DOMAIN row : row[i].peer = peer /\ row[i].kind = kind})
    IN /\ \A i \in DOMAIN g.ports : g.ports[i].peer \in ids
       /\ \A a, b \in ids, kind \in PortKinds :
              count(Outs(g, a), b, kind) = count(Ins(g, b), a, kind)

Stored(j) ==
    [nodes |-> RowsOf(j),
     ports |-> Picked(ports, {i \in DOMAIN ports : ports[i].owner \in NodesOf(j)})]

\* Saving a job just as it was loaded keeps every node and every link, if every
\* link is there with both its ends, of one kind (job.go, to a response and back).
ResaveKeepsGraph ==
    [][\A u \in Users, j \in DOMAIN job :
          /\ call[u].op = "saving" /\ call[u].job = j /\ call[u].clean
          /\ call'[u] = Idle /\ j \in DOMAIN job'
          /\ Whole(Stored(j))
          => Unordered(Shown(j)') = Unordered(Shown(j))]_vars

-----------------------------------------------------------------------------
(* What an execution is to make of the graph it loaded. *)

Planning == call[Runner].op = "planned"
Built == Planning /\ Outcome(RunGraph) = "built"

DataIns(g, id) == {i \in DOMAIN Ins(g, id) : Ins(g, id)[i].kind = "data"}
DataOuts(g, id) == {i \in DOMAIN Outs(g, id) : Outs(g, id)[i].kind = "data"}

\* A drawing of the kind the generators are made for: one data link leaves a
\* node at most, a sink has one input, and a map has one or joins two, of two
\* nodes, by the port numbers of its data inputs.
Plain(g) ==
    /\ Whole(g)
    /\ \A id \in Planned(g) :
          LET what == WhatOf(g, id)
          IN /\ Cardinality(DataOuts(g, id)) <= (IF what.type \in {"db_input", "map"} THEN 1 ELSE 0)
             /\ CASE what.type = "map" ->
                       /\ Len(what.ins) \in 1..2
                       /\ what.join = IF Len(what.ins) = 1 THEN <<>> ELSE <<1, 2>>
                       /\ DataIns(g, id) = {what.ins[i] + 1 : i \in DOMAIN what.ins}
                       /\ \A i, k \in DOMAIN what.ins :
                             SourceAt(g, id, what.ins[i]) = SourceAt(g, id, what.ins[k]) => i = k
                  [] what.type \in {"log", "email_output", "db_output"} ->
                       Cardinality(DataIns(g, id)) = 1
                  [] OTHER -> DataIns(g, id) = {}

\* The steps of an execution hold the start nodes, what flow links lead to from
\* them and every flow predecessor of a node they hold, each node in one step
\* and after all its predecessors (withStepsSetup).
PlanFollowsFlow ==
    Built /\ Whole(RunGraph) =>
        LET g == RunGraph
            steps == Steps(g)
            held == UNION Range(steps)
            stepOf(id) == {k \in DOMAIN steps : id \in steps[k]}
        IN /\ Visited(g) \subseteq held
           /\ \A id \in held :
                 /\ Cardinality(stepOf(id)) = 1
                 /\ \A prev \in PrevFlow(g, id) :
                       \E k \in stepOf(prev) : \A l \in stepOf(id) : k < l

\* In a program built from such a drawing every channel between planned nodes
\* has one node launched to write and close it and one launched to read it, so
\* that no launched node waits for a channel nobody closes (collectChannels,
\* generateNodeLaunchData and GetLaunchArgs of the generators).
Wired ==
    Built /\ Plain(RunGraph) =>
        LET g == RunGraph
            inner == {ch \in Channels(g) : ch.to \in Planned(g)}
            reads == [id \in Launched(g) |-> Reads(g, id)]
            writes == [id \in Launched(g) |-> Writes(g, id)]
        IN /\ \A ch \in inner :
                 /\ {id \in DOMAIN reads : ch \in Range(reads[id])} = {ch.to}
                 /\ {id \in DOMAIN writes : ch \in writes[id]} = {ch.from}
           /\ \A id \in DOMAIN reads : Len(reads[id]) = Cardinality(Range(reads[id]))

TypesMatch(g, id) ==
    InputTypes(g, id) = [i \in DOMAIN Reads(g, id) |-> Reads(g, id)[i].from]

\* A map, log or email function is declared with the row types of the channels
\* it is launched with, side by side (findInputRowTypes, findInputRowType): the
\* program compiles where they meet.
RowTypesAgree ==
    Built /\ Plain(RunGraph) =>
        \A id \in Launched(RunGraph) :
            /\ TypeOf(RunGraph, id) \in {"map", "log", "email_output"}
            /\ \A i \in DOMAIN Ins(RunGraph, id) : Ins(RunGraph, id)[i].peer \in Planned(RunGraph)
            => TypesMatch(RunGraph, id)
=============================================================================
