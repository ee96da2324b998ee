------------------------ MODULE TriggerPoller_proofs ------------------------
(***************************************************************************)
(* Theorems about TriggerPoller, for any set of triggers, any finite pool  *)
(* of goroutines and any bounds.                                           *)
(***************************************************************************)
EXTENDS TriggerPoller, FiniteSetTheorems, TLAPS

---------------------------------------------------------------------------
(* What a poll reads. *)

(* `got` has a greatest element, and no gap between pos and it. *)
Contiguous(pos, got) ==
    \E n \in got : /\ \A m \in got : m <= n
                   /\ \A m \in Nat : pos < m /\ m <= n => m \in got

(* A goroutine about to write a position has read without a gap. *)
ReadsContiguous ==
    \A w \in Workers : worker[w].step = "mark" => Contiguous(worker[w].pos, worker[w].got)

(* The greatest element is the one LastOf picks. *)
LEMMA LastOfContiguous ==
  ASSUME NEW pos \in Nat, NEW got \in SUBSET Nat, Contiguous(pos, got)
  PROVE  /\ LastOf(got) \in got
         /\ \A m \in Nat : pos < m /\ m <= LastOf(got) => m \in got
<1>1. PICK n \in got : /\ \A m \in got : m <= n
                       /\ \A m \in Nat : pos < m /\ m <= n => m \in got
  BY DEF Contiguous
<1>2. /\ LastOf(got) \in got
      /\ \A m \in got : m <= LastOf(got)
  BY <1>1 DEF LastOf
<1>3. LastOf(got) = n
  <2>1. n \in Nat /\ LastOf(got) \in Nat
    BY <1>2
  <2>2. LastOf(got) <= n /\ n <= LastOf(got)
    BY <1>1, <1>2
  <2> QED BY <2>1, <2>2
<1> QED BY <1>1, <1>3

(* A complete answer with something new in it has no gap. *)
LEMMA AnswerContiguous ==
  ASSUME NEW t \in Triggers, NEW pos \in Nat, items[t] \in Nat, BatchSize \in Nat \ {0},
         StepAfter(pos, Wanted(t, pos)) = "mark"
  PROVE  Contiguous(pos, Wanted(t, pos))
<1>1. PICK k \in Wanted(t, pos) : k > pos
  BY DEF StepAfter
<1>2. CASE row[t].type = "database"
  <2>1. Wanted(t, pos) = {n \in 1..items[t] : pos < n /\ n <= pos + BatchSize}
    BY <1>2 DEF Wanted
  <2> DEFINE last == IF items[t] <= pos + BatchSize THEN items[t] ELSE pos + BatchSize
  <2>2. last \in Wanted(t, pos) /\ \A m \in Wanted(t, pos) : m <= last
    BY <1>1, <2>1
  <2>3. \A m \in Nat : pos < m /\ m <= last => m \in Wanted(t, pos)
    BY <2>1
  <2> QED BY <2>2, <2>3 DEF Contiguous
<1>3. CASE row[t].type = "email"
  <2>1. Wanted(t, pos) = {n \in 1..items[t] : pos < n \/ n = items[t]}
    BY <1>3 DEF Wanted
  <2>2. items[t] \in Wanted(t, pos) /\ \A m \in Wanted(t, pos) : m <= items[t]
    BY <1>1, <2>1
  <2>3. \A m \in Nat : pos < m /\ m <= items[t] => m \in Wanted(t, pos)
    BY <2>1
  <2> QED BY <2>2, <2>3 DEF Contiguous
<1> QED BY <1>1, <1>2, <1>3 DEF Wanted

(* An answer that broke off before item n has none either. *)
LEMMA CutContiguous ==
  ASSUME NEW t \in Triggers, NEW pos \in Nat, items[t] \in Nat, BatchSize \in Nat \ {0},
         NEW n \in Wanted(t, pos),
         StepAfter(pos, {m \in Wanted(t, pos) : m < n}) = "mark"
  PROVE  Contiguous(pos, {m \in Wanted(t, pos) : m < n})
<1> DEFINE got == {m \in Wanted(t, pos) : m < n}
<1>1. PICK k \in got : k > pos
  BY DEF StepAfter
<1>2. Wanted(t, pos) \subseteq 1..items[t]
  BY DEF Wanted
<1>3. \A m \in Nat : pos < m /\ m <= n => m \in Wanted(t, pos)
  <2>1. CASE row[t].type = "database"
    BY <1>1, <1>2, <2>1 DEF Wanted
  <2>2. CASE row[t].type = "email"
    BY <1>1, <1>2, <2>2 DEF Wanted
  <2> QED BY <1>1, <2>1, <2>2 DEF Wanted
<1>4. n - 1 \in got
  BY <1>1, <1>2, <1>3
<1>5. \A m \in got : m <= n - 1
  BY <1>2
<1>6. \A m \in Nat : pos < m /\ m <= n - 1 => m \in got
  BY <1>2, <1>3
<1> QED BY <1>4, <1>5, <1>6 DEF Contiguous

---------------------------------------------------------------------------
(* Type correctness. *)

WorkersOK ==
    /\ worker \in [Workers -> WorkerType]
    /\ \A w \in Workers : worker[w].step # "idle" => worker[w].trig \in Triggers
    /\ ReadsContiguous

TypeInv == TypeOK /\ ReadsContiguous

(* The first state is well typed. *)
LEMMA TypeInit == Init => TypeInv
<1> SUFFICES ASSUME Init PROVE TypeInv
  OBVIOUS
<1>1. row \in [Triggers -> RowType]
  <2>1. [type : Kinds, status : {"paused", "active"}, pos : {0}, due : {TRUE}, deleted : {FALSE}]
          \subseteq RowType
    <3>1. SUFFICES ASSUME NEW r \in [type : Kinds, status : {"paused", "active"}, pos : {0},
                                     due : {TRUE}, deleted : {FALSE}]
                   PROVE  r \in RowType
      OBVIOUS
    <3>2. r.type \in Kinds /\ r.status \in Statuses /\ r.pos \in Nat
      BY DEF Statuses
    <3>4. r.due \in BOOLEAN
      BY Zenon
    <3>5. r.deleted \in BOOLEAN
      BY Zenon
    <3>3. r = [type |-> r.type, status |-> r.status, pos |-> r.pos, due |-> r.due, deleted |-> r.deleted]
      OBVIOUS
    <3> QED BY <3>2, <3>3, <3>4, <3>5 DEF RowType
  <2> QED BY <2>1 DEF Init
<1>2. /\ running \in [Triggers -> Int]
      /\ items \in [Triggers -> Nat]
      /\ disp \in {"loop", "stopped"}
      /\ batch \subseteq Snapshot
      /\ slots \in Int
      /\ wg \in Int
      /\ stop \in {"serving", "waiting", "returned"}
      /\ budget \in BudgetType
  BY DEF Init, BudgetType
<1>3. worker \in [Workers -> WorkerType]
  BY DEF Init, Idle, WorkerType
<1>4. \A w \in Workers : worker[w].step = "idle"
  BY DEF Init, Idle
<1>5. api \in [Requests -> ApiType]
  BY DEF Init, ApiType
<1>6. ghost \in [Triggers -> GhostType]
  <2>1. \A t \in Triggers : row[t].status \in {"active", "paused"}
    BY DEF Init
  <2> QED BY <2>1 DEF Init, GhostType
<1> QED BY <1>1, <1>2, <1>3, <1>4, <1>5, <1>6 DEF TypeInv, TypeOK, ReadsContiguous

(* A failed write is counted. *)
LEMMA FaultType ==
  ASSUME budget \in BudgetType, Fault
  PROVE  budget' \in BudgetType
BY DEF Fault, BudgetType

(* A scoped UPDATE with a well-formed row leaves the table well-formed,    *)
(* whether it fails or not.                                                *)
LEMMA WriteRowType ==
  ASSUME row \in [Triggers -> RowType], NEW t \in Triggers, NEW new \in RowType, WriteRow(t, new),
         budget \in BudgetType
  PROVE  row' \in [Triggers -> RowType] /\ budget' \in BudgetType
BY FaultType DEF WriteRow

(* A goroutine moves on to a well-formed state. *)
LEMMA WorkerMoves ==
  ASSUME WorkersOK, NEW w \in Workers, NEW new \in WorkerType,
         new.step # "idle" => new.trig \in Triggers,
         new.step = "mark" => Contiguous(new.pos, new.got),
         worker' = [worker EXCEPT ![w] = new]
  PROVE  WorkersOK'
<1>1. worker' \in [Workers -> WorkerType]
  BY DEF WorkersOK
<1>2. \A v \in Workers : worker'[v] = IF v = w THEN new ELSE worker[v]
  BY DEF WorkersOK
<1> QED BY <1>1, <1>2 DEF WorkersOK, ReadsContiguous

(* The steps of a poll keep the types. *)
LEMMA TypePoll ==
  ASSUME TypeInv, NEW w \in Workers, PollTrigger(w)
  PROVE  TypeInv'
<1> DEFINE t == worker[w].trig
<1>1. /\ row \in [Triggers -> RowType] /\ worker \in [Workers -> WorkerType]
      /\ running \in [Triggers -> Int] /\ ghost \in [Triggers -> GhostType]
      /\ items \in [Triggers -> Nat] /\ slots \in Int /\ wg \in Int
      /\ budget \in BudgetType /\ WorkersOK
  BY DEF TypeInv, TypeOK, WorkersOK
<1>2. worker[w].step # "idle"
  BY DEF PollTrigger, Begin, Poll, PollCut, PollError, Mark, Fail, Finish
<1>3. t \in Triggers /\ row[t] \in RowType
  BY <1>1, <1>2 DEF WorkersOK
<1>4. worker[w] \in WorkerType /\ worker[w].pos \in Nat /\ worker[w].got \in SUBSET Nat
  BY <1>1 DEF WorkerType
<1>5. \A step \in PollSteps :
        /\ [worker[w] EXCEPT !.step = step] \in WorkerType
        /\ [worker[w] EXCEPT !.step = step].step = step
        /\ [worker[w] EXCEPT !.step = step].trig = t
  BY <1>4 DEF WorkerType
<1>6. CASE Begin(w)
  <2>1. row' \in [Triggers -> RowType] /\ budget' \in BudgetType
    <3>1. [row[t] EXCEPT !.due = FALSE] \in RowType
      BY <1>3 DEF RowType
    <3> QED BY <1>1, <1>3, <1>6, <3>1, WriteRowType DEF Begin
  <2>2. WorkersOK'
    BY <1>1, <1>3, <1>5, <1>6, WorkerMoves DEF Begin, PollSteps
  <2>3. running' \in [Triggers -> Int]
    BY <1>1, <1>3, <1>6 DEF Begin
  <2> QED BY <1>6, <2>1, <2>2, <2>3 DEF Begin, TypeInv, TypeOK, WorkersOK
<1>7. ASSUME NEW got \in SUBSET Nat, StepAfter(worker[w].pos, got) = "mark" => Contiguous(worker[w].pos, got),
             worker' = [worker EXCEPT ![w].got = got, ![w].step = StepAfter(worker[w].pos, got)]
      PROVE  WorkersOK'
  <2> DEFINE new == [worker[w] EXCEPT !.got = got, !.step = StepAfter(worker[w].pos, got)]
  <2>1. StepAfter(worker[w].pos, got) \in {"mark", "finish"}
    BY DEF StepAfter
  <2>2. /\ new \in WorkerType /\ new.trig = t /\ new.pos = worker[w].pos /\ new.got = got
        /\ new.step = StepAfter(worker[w].pos, got)
    BY <1>4, <2>1 DEF WorkerType, PollSteps
  <2>3. worker' = [worker EXCEPT ![w] = new]
    BY <1>1, <1>4, <1>7 DEF WorkerType
  <2> QED BY <1>1, <1>3, <1>7, <2>2, <2>3, WorkerMoves
<1>8. /\ Wanted(t, worker[w].pos) \in SUBSET Nat
      /\ items[t] \in Nat /\ BatchSize \in Nat \ {0}
  BY <1>1, <1>3, PollerAssumption DEF Wanted
<1>9. CASE Poll(w)
  <2>1. WorkersOK'
    BY <1>3, <1>4, <1>7, <1>8, <1>9, AnswerContiguous DEF Poll
  <2> QED BY <1>1, <1>9, <2>1 DEF Poll, TypeInv, TypeOK, WorkersOK
<1>10. CASE PollCut(w)
  <2>1. WorkersOK'
    <3>1. PICK n \in Wanted(t, worker[w].pos) :
            LET got == {m \in Wanted(t, worker[w].pos) : m < n} IN
            worker' = [worker EXCEPT ![w].got = got, ![w].step = StepAfter(worker[w].pos, got)]
      BY <1>10 DEF PollCut
    <3>2. {m \in Wanted(t, worker[w].pos) : m < n} \in SUBSET Nat
      BY <1>8
    <3> QED BY <1>3, <1>4, <1>7, <1>8, <3>1, <3>2, CutContiguous
  <2> QED BY <1>1, <1>10, <2>1 DEF PollCut, TypeInv, TypeOK, WorkersOK
<1>11. CASE PollError(w)
  <2>1. WorkersOK'
    BY <1>1, <1>3, <1>5, <1>11, WorkerMoves DEF PollError, PollSteps
  <2> QED BY <1>1, <1>11, <2>1 DEF PollError, TypeInv, TypeOK, WorkersOK
<1>12. CASE Mark(w)
  <2>1. row' \in [Triggers -> RowType] /\ budget' \in BudgetType
    <3>1. LastOf(worker[w].got) \in Nat
      BY <1>1, <1>4, <1>12, LastOfContiguous DEF Mark, WorkersOK, ReadsContiguous
    <3>2. [row[t] EXCEPT !.pos = LastOf(worker[w].got)] \in RowType
      BY <1>3, <3>1 DEF RowType
    <3> QED BY <1>1, <1>3, <1>12, <3>2, WriteRowType DEF Mark
  <2>2. WorkersOK'
    BY <1>1, <1>3, <1>5, <1>12, WorkerMoves DEF Mark, PollSteps
  <2> QED BY <1>1, <1>12, <2>1, <2>2 DEF Mark, TypeInv, TypeOK, WorkersOK
<1>13. CASE Fail(w)
  <2>1. row' \in [Triggers -> RowType] /\ budget' \in BudgetType
    <3>1. [row[t] EXCEPT !.status = "error"] \in RowType
      BY <1>3 DEF RowType, Statuses
    <3> QED BY <1>1, <1>3, <1>13, <3>1, WriteRowType DEF Fail
  <2>2. WorkersOK'
    BY <1>1, <1>3, <1>5, <1>13, WorkerMoves DEF Fail, PollSteps
  <2> QED BY <1>1, <1>13, <2>1, <2>2 DEF Fail, TypeInv, TypeOK, WorkersOK
<1>14. CASE Finish(w)
  <2>1. WorkersOK'
    <3>1. Idle \in WorkerType /\ Idle.step = "idle"
      BY DEF Idle, WorkerType
    <3> QED BY <1>1, <1>14, <3>1, WorkerMoves DEF Finish
  <2>2. ghost[t] \in GhostType
    BY <1>1, <1>3
  <2>3. CASE UNCHANGED budget /\ running' = [running EXCEPT ![t] = @ - 1]
               /\ ghost' = [ghost EXCEPT ![t].fired = @ \cup worker[w].got]
    <3>1. [ghost[t] EXCEPT !.fired = @ \cup worker[w].got] \in GhostType
      BY <1>4, <2>2 DEF GhostType
    <3>2. ghost' \in [Triggers -> GhostType]
      BY <1>1, <1>3, <2>3, <3>1
    <3>3. running' \in [Triggers -> Int]
      BY <1>1, <1>3, <2>3
    <3>4. slots' \in Int /\ wg' \in Int
      BY <1>1, <1>14 DEF Finish
    <3>5. budget' \in BudgetType
      BY <1>1, <2>3
    <3> QED BY <1>14, <2>1, <3>2, <3>3, <3>4, <3>5 DEF Finish, TypeInv, TypeOK, WorkersOK
  <2>4. CASE Fault /\ UNCHANGED running
               /\ ghost' = [ghost EXCEPT ![t].fired = @ \cup worker[w].got, ![t].orphans = @ + 1]
    <3>1. [ghost[t] EXCEPT !.fired = @ \cup worker[w].got, !.orphans = @ + 1] \in GhostType
      <4>1. ghost[t].fired \cup worker[w].got \in SUBSET Nat
        BY <1>4, <2>2 DEF GhostType
      <4>2. ghost[t].orphans + 1 \in Nat
        BY <2>2 DEF GhostType
      <4>3. ASSUME NEW a \in SUBSET Nat, NEW o \in Nat
            PROVE  [ghost[t] EXCEPT !.fired = a, !.orphans = o] \in GhostType
        BY <2>2 DEF GhostType
      <4> QED BY <4>1, <4>2, <4>3
    <3>2. ghost' \in [Triggers -> GhostType]
      BY <1>1, <1>3, <2>4, <3>1
    <3>3. slots' \in Int /\ wg' \in Int
      BY <1>1, <1>14 DEF Finish
    <3>4. running' \in [Triggers -> Int] /\ budget' \in BudgetType
      BY <1>1, <2>4, FaultType
    <3> QED BY <1>14, <2>1, <3>2, <3>3, <3>4 DEF Finish, TypeInv, TypeOK, WorkersOK
  <2> QED BY <1>14, <2>3, <2>4 DEF Finish
<1> QED BY <1>6, <1>9, <1>10, <1>11, <1>12, <1>13, <1>14 DEF PollTrigger

(* The requests of the trigger service keep the types. *)
LEMMA TypeService ==
  ASSUME TypeInv, Service
  PROVE  TypeInv'
<1> DEFINE Carrier == [step : {"init", "activate"}, trig : Triggers, row : RowType, floor : Nat]
           Config == [step : {"config"}, trig : Triggers, row : RowType]
<1>1. /\ row \in [Triggers -> RowType] /\ api \in [Requests -> ApiType]
      /\ ghost \in [Triggers -> GhostType] /\ items \in [Triggers -> Nat]
      /\ budget \in BudgetType
  BY DEF TypeInv, TypeOK
<1>2. [step |-> "none"] \in ApiType
  BY DEF ApiType
<1>3. budget.requests \in Nat /\ [budget EXCEPT !.requests = @ + 1] \in BudgetType
  BY <1>1 DEF BudgetType
<1>4. ASSUME NEW q \in Requests, NEW r \in ApiType, StartRequest(q, r) PROVE TypeInv'
  <2>1. api' \in [Requests -> ApiType]
    BY <1>1, <1>4 DEF StartRequest
  <2>2. budget' \in BudgetType
    BY <1>3, <1>4 DEF StartRequest
  <2> QED BY <1>4, <2>1, <2>2 DEF StartRequest, TypeInv, TypeOK, ReadsContiguous
<1>5. ASSUME NEW q \in Requests, NEW t \in Triggers, ActivateRead(q, t) PROVE TypeInv'
  <2>1. row[t] \in RowType /\ ghost[t].floor \in Nat
    BY <1>1 DEF GhostType
  <2>2. [step |-> "init", trig |-> t, row |-> row[t], floor |-> ghost[t].floor] \in ApiType
    BY <2>1 DEF ApiType
  <2> QED BY <1>4, <1>5, <2>2 DEF ActivateRead
<1>6. ASSUME NEW q \in Requests, NEW t \in Triggers, ConfigRead(q, t) PROVE TypeInv'
  <2>1. row[t] \in RowType
    BY <1>1
  <2>2. [step |-> "config", trig |-> t, row |-> row[t]] \in ApiType
    BY <2>1 DEF ApiType
  <2> QED BY <1>4, <1>6, <2>2 DEF ConfigRead
<1>7. ASSUME NEW q \in Requests, ActivateInit(q) PROVE TypeInv'
  <2>1. api[q] \in Carrier
    BY <1>1, <1>7 DEF ActivateInit, ApiType
  <2>2. [api[q] EXCEPT !.step = "activate"] \in Carrier
    BY <2>1
  <2>3. items[api[q].trig] \in Nat
    BY <1>1, <2>1
  <2>4. api[q].row \in RowType /\ api[q].floor \in Nat
    BY <2>1
  <2>5. [api[q].row EXCEPT !.pos = items[api[q].trig]] \in RowType
    BY <2>3, <2>4 DEF RowType
  <2>6. [api[q] EXCEPT !.step = "activate",
                       !.row = [api[q].row EXCEPT !.pos = items[api[q].trig]],
                       !.floor = IF @ < items[api[q].trig] THEN items[api[q].trig] ELSE @] \in Carrier
    BY <2>1, <2>3, <2>4, <2>5
  <2>7. api' \in [Requests -> ApiType]
    <3>1. \A c \in Carrier : c \in ApiType
      BY DEF ApiType
    <3>2. CASE api' = [api EXCEPT ![q].step = "activate"]
      BY <1>1, <2>2, <3>1, <3>2
    <3>3. CASE api' = [api EXCEPT ![q].step = "activate",
                                  ![q].row.pos = items[api[q].trig],
                                  ![q].floor = IF @ < items[api[q].trig] THEN items[api[q].trig] ELSE @]
      <4>1. api' = [api EXCEPT ![q] =
                     [api[q] EXCEPT !.step = "activate",
                                    !.row = [api[q].row EXCEPT !.pos = items[api[q].trig]],
                                    !.floor = IF @ < items[api[q].trig] THEN items[api[q].trig] ELSE @]]
        BY <1>1, <2>1, <3>3
      <4> QED BY <1>1, <2>6, <3>1, <4>1
    <3> QED BY <1>7, <3>2, <3>3 DEF ActivateInit
  <2> QED BY <1>7, <2>7 DEF ActivateInit, TypeInv, TypeOK, ReadsContiguous
<1>8. ASSUME NEW q \in Requests, NEW new \in RowType, NEW g \in GhostType, Save(q, new, g)
      PROVE  TypeInv'
  <2>1. api' \in [Requests -> ApiType]
    BY <1>1, <1>2, <1>8 DEF Save
  <2>2. row' \in [Triggers -> RowType]
    BY <1>1, <1>8 DEF Save
  <2>3. ghost' \in [Triggers -> GhostType]
    BY <1>1, <1>8 DEF Save
  <2> QED BY <1>8, <2>1, <2>2, <2>3 DEF Save, TypeInv, TypeOK, ReadsContiguous
<1>9. ASSUME NEW q \in Requests, ActivateSave(q) PROVE TypeInv'
  <2>1. api[q] \in Carrier
    BY <1>1, <1>9 DEF ActivateSave, ApiType
  <2>2. [api[q].row EXCEPT !.status = "active"] \in RowType
    BY <2>1 DEF RowType, Statuses
  <2>3. ghost[api[q].trig] \in GhostType /\ api[q].floor \in Nat
    BY <1>1, <2>1
  <2>4. [ghost[api[q].trig] EXCEPT !.wanted = "active",
                                   !.floor = IF @ < api[q].floor THEN api[q].floor ELSE @] \in GhostType
    BY <2>3 DEF GhostType
  <2> QED BY <1>8, <1>9, <2>2, <2>4 DEF ActivateSave
<1>10. ASSUME NEW q \in Requests, ConfigSave(q) PROVE TypeInv'
  <2>1. api[q] \in Config
    BY <1>1, <1>10 DEF ConfigSave, ApiType
  <2>2. [api[q].row EXCEPT !.pos = 0] \in RowType
    BY <2>1 DEF RowType
  <2>3. ghost[api[q].trig] \in GhostType
    BY <1>1, <2>1
  <2> QED BY <1>8, <1>10, <2>2, <2>3 DEF ConfigSave
<1>11. ASSUME NEW t \in Triggers, Pause(t) PROVE TypeInv'
  <2>1. row' \in [Triggers -> RowType]
    <3>1. [row[t] EXCEPT !.status = "paused"] \in RowType
      BY <1>1 DEF RowType, Statuses
    <3> QED BY <1>1, <1>11, <3>1 DEF Pause
  <2>2. ghost' \in [Triggers -> GhostType]
    <3>1. [ghost[t] EXCEPT !.wanted = "paused"] \in GhostType
      BY <1>1 DEF GhostType
    <3> QED BY <1>1, <1>11, <3>1 DEF Pause
  <2>3. budget' \in BudgetType
    BY <1>3, <1>11 DEF Pause
  <2> QED BY <1>11, <2>1, <2>2, <2>3 DEF Pause, TypeInv, TypeOK, ReadsContiguous
<1>12. ASSUME NEW t \in Triggers, Delete(t) PROVE TypeInv'
  <2>1. row' \in [Triggers -> RowType]
    <3>1. [row[t] EXCEPT !.deleted = TRUE] \in RowType
      BY <1>1 DEF RowType
    <3> QED BY <1>1, <1>12, <3>1 DEF Delete
  <2>2. budget' \in BudgetType
    BY <1>3, <1>12 DEF Delete
  <2> QED BY <1>12, <2>1, <2>2 DEF Delete, TypeInv, TypeOK, ReadsContiguous
<1> QED BY <1>5, <1>6, <1>7, <1>9, <1>10, <1>11, <1>12 DEF Service

(* The polls under way are finitely many. *)
LEMMA LiveFinite ==
  /\ IsFiniteSet(Live)
  /\ \A t : IsFiniteSet(LiveOf(t))
  /\ \A S : S \subseteq Live => IsFiniteSet(S) /\ Cardinality(S) \in Nat
BY PollerAssumption, FS_Subset, FS_CardinalityType DEF Live, LiveOf

(* Every step keeps the types. *)
LEMMA TypeStep ==
  ASSUME TypeInv, [Next]_vars
  PROVE  TypeInv'
<1>1. ASSUME NEW t \in Triggers, NewItem(t) PROVE TypeInv'
  <2>1. items' \in [Triggers -> Nat]
    BY <1>1 DEF NewItem, TypeInv, TypeOK
  <2> QED BY <1>1, <2>1 DEF NewItem, TypeInv, TypeOK, ReadsContiguous
<1>2. ASSUME NEW t \in Triggers, Elapse(t) PROVE TypeInv'
  <2>1. row' \in [Triggers -> RowType]
    BY <1>2 DEF Elapse, RowType, TypeInv, TypeOK
  <2> QED BY <1>2, <2>1 DEF Elapse, TypeInv, TypeOK, ReadsContiguous
<1>3. CASE BeginRound
  <2>1. DueNow \subseteq Snapshot
    BY DEF DueNow, Snapshot, RowType, TypeInv, TypeOK
  <2> QED BY <1>3, <2>1 DEF BeginRound, TypeInv, TypeOK, ReadsContiguous
<1>4. ASSUME NEW s \in batch, NEW w \in Workers, Dispatch(s, w) PROVE TypeInv'
  <2>1. s \in Snapshot
    BY DEF TypeInv, TypeOK
  <2>2. [step |-> "begin", trig |-> s.trig, pos |-> s.pos, got |-> {}] \in WorkerType
    BY <2>1 DEF Snapshot, WorkerType, PollSteps
  <2>3. WorkersOK'
    BY <1>4, <2>1, <2>2, WorkerMoves DEF Dispatch, Snapshot, TypeInv, TypeOK, WorkersOK
  <2>4. slots' \in Int /\ wg' \in Int
    BY <1>4 DEF Dispatch, TypeInv, TypeOK
  <2> QED BY <1>4, <2>3, <2>4 DEF Dispatch, TypeInv, TypeOK, WorkersOK
<1>5. ASSUME NEW s \in batch, Skip(s) PROVE TypeInv'
  BY <1>5 DEF Skip, TypeInv, TypeOK, ReadsContiguous
<1>6. CASE Quit
  BY <1>6 DEF Quit, TypeInv, TypeOK, ReadsContiguous
<1>7. CASE Cancel
  <2>1. budget' \in BudgetType
    BY <1>7 DEF Cancel, TypeInv, TypeOK, BudgetType
  <2> QED BY <1>7, <2>1 DEF Cancel, TypeInv, TypeOK, ReadsContiguous
<1>8. CASE StopReturn
  BY <1>8 DEF StopReturn, TypeInv, TypeOK, ReadsContiguous
<1>9. CASE Die
  <2>0. /\ UNCHANGED budget \/ budget' = [budget EXCEPT !.mishaps = @ + 1]
        /\ disp' = "loop" /\ batch' = {} /\ slots' = 0 /\ wg' = 0 /\ stop' = "serving"
        /\ row' = row /\ running' = running /\ items' = items
    BY <1>9, Zenon DEF Die
  <2>1. /\ worker' \in [Workers -> WorkerType]
        /\ \A w \in Workers : worker'[w].step = "idle"
    BY <1>9 DEF Die, Idle, WorkerType
  <2>2. api' \in [Requests -> ApiType]
    BY <1>9 DEF Die, ApiType
  <2>3. ghost' \in [Triggers -> GhostType]
    <3> DEFINE lost(t) == UNION {worker[w].got : w \in {v \in LiveOf(t) : worker[v].step = "finish"}}
               open(t) == Cardinality({w \in LiveOf(t) : worker[w].step # "begin"})
    <3>1. SUFFICES ASSUME NEW t \in Triggers
                   PROVE  [ghost[t] EXCEPT !.dropped = @ \cup lost(t), !.orphans = @ + open(t)] \in GhostType
      BY <1>9, Zenon DEF Die
    <3>2. ghost[t] \in GhostType
      BY DEF TypeInv, TypeOK
    <3>3. lost(t) \subseteq Nat
      BY DEF TypeInv, TypeOK, WorkerType, LiveOf, Live
    <3>4. open(t) \in Nat
      BY LiveFinite DEF LiveOf
    <3>5. ASSUME NEW g \in GhostType, NEW l \in SUBSET Nat, NEW n \in Nat
          PROVE  [g EXCEPT !.dropped = @ \cup l, !.orphans = @ + n] \in GhostType
      <4>1. g.dropped \cup l \in SUBSET Nat
        BY <3>5 DEF GhostType
      <4>2. g.orphans + n \in Nat
        BY <3>5 DEF GhostType
      <4>3. ASSUME NEW d \in SUBSET Nat, NEW o \in Nat
            PROVE  [g EXCEPT !.dropped = d, !.orphans = o] \in GhostType
        BY <3>5 DEF GhostType
      <4> QED BY <4>1, <4>2, <4>3
    <3> HIDE DEF lost, open
    <3> QED BY <3>2, <3>3, <3>4, <3>5
  <2>4. budget' \in BudgetType
    BY <2>0 DEF TypeInv, TypeOK, BudgetType
  <2> QED BY <2>0, <2>1, <2>2, <2>3, <2>4 DEF TypeInv, TypeOK, ReadsContiguous
<1>10. CASE UNCHANGED vars
  BY <1>10 DEF vars, TypeInv, TypeOK, ReadsContiguous
<1> QED
  BY <1>1, <1>2, <1>3, <1>4, <1>5, <1>6, <1>7, <1>8, <1>9, <1>10, TypePoll, TypeService
     DEF Next, Dispatcher

(* The state keeps its shape: positions, counters, copies and history.     *)
THEOREM TypeCorrect == Spec => []TypeOK
<1>1. TypeInv => TypeOK
  BY DEF TypeInv
<1> QED BY TypeInit, TypeStep, <1>1, PTL DEF Spec

---------------------------------------------------------------------------
(* The pool. *)

(* A goroutine starts: one more is live. *)
LEMMA LiveGrows ==
  ASSUME WorkersOK, NEW w \in Workers, worker[w].step = "idle",
         NEW new, new.step # "idle", worker' = [worker EXCEPT ![w] = new]
  PROVE  Cardinality(Live') = Cardinality(Live) + 1
<1>1. \A v \in Workers : worker'[v] = IF v = w THEN new ELSE worker[v]
  BY DEF WorkersOK
<1>2. Live' = Live \cup {w} /\ w \notin Live
  BY <1>1 DEF Live
<1> QED BY <1>2, LiveFinite, FS_AddElement

(* A goroutine ends: one fewer is live. *)
LEMMA LiveShrinks ==
  ASSUME WorkersOK, NEW w \in Workers, worker[w].step # "idle",
         NEW new, new.step = "idle", worker' = [worker EXCEPT ![w] = new]
  PROVE  Cardinality(Live') = Cardinality(Live) - 1
<1>1. \A v \in Workers : worker'[v] = IF v = w THEN new ELSE worker[v]
  BY DEF WorkersOK
<1>2. Live' = Live \ {w} /\ w \in Live
  BY <1>1 DEF Live
<1> QED BY <1>2, LiveFinite, FS_RemoveElement

(* A goroutine moves on: the same ones are live. *)
LEMMA LiveStays ==
  ASSUME TypeInv, NEW w \in Workers,
         Begin(w) \/ Poll(w) \/ PollCut(w) \/ PollError(w) \/ Mark(w) \/ Fail(w)
  PROVE  Live' = Live /\ slots' = slots /\ wg' = wg
<1>1. worker \in [Workers -> WorkerType]
  BY DEF TypeInv, TypeOK
<1>2. \A v \in Workers : v # w => worker'[v] = worker[v]
  BY <1>1 DEF Begin, Poll, PollCut, PollError, Mark, Fail
<1>3. worker[w].step # "idle" /\ worker'[w].step # "idle"
  BY <1>1 DEF Begin, Poll, PollCut, PollError, Mark, Fail, StepAfter, WorkerType
<1>4. slots' = slots /\ wg' = wg
  BY DEF Begin, Poll, PollCut, PollError, Mark, Fail
<1> QED BY <1>2, <1>3, <1>4 DEF Live

(* No slot is taken at first. *)
LEMMA PoolInit == Init => PoolAccounting
<1> SUFFICES ASSUME Init PROVE PoolAccounting
  OBVIOUS
<1>1. Live = {}
  BY DEF Init, Live, Idle
<1>2. slots = 0 /\ wg = 0
  BY DEF Init
<1> QED BY <1>1, <1>2, PollerAssumption, FS_EmptySet DEF PoolAccounting

(* Every step keeps the slots counted. *)
LEMMA PoolStep ==
  ASSUME TypeInv, PoolAccounting, [Next]_vars
  PROVE  PoolAccounting'
<1>0. WorkersOK /\ slots \in Int /\ MaxWorkers \in Nat /\ Cardinality(Live) \in Nat
  BY LiveFinite, PollerAssumption DEF TypeInv, TypeOK, WorkersOK
<1>1. ASSUME NEW s \in batch, NEW w \in Workers, Dispatch(s, w) PROVE PoolAccounting'
  <2> DEFINE new == [step |-> "begin", trig |-> s.trig, pos |-> s.pos, got |-> {}]
  <2>1. new.step # "idle" /\ worker' = [worker EXCEPT ![w] = new]
    BY <1>1 DEF Dispatch
  <2>2. Cardinality(Live') = Cardinality(Live) + 1
    BY <1>0, <1>1, <2>1, LiveGrows DEF Dispatch
  <2> QED BY <1>0, <1>1, <2>2 DEF Dispatch, PoolAccounting
<1>2. ASSUME NEW w \in Workers, Finish(w) PROVE PoolAccounting'
  <2>1. Cardinality(Live') = Cardinality(Live) - 1
    BY <1>0, <1>2, LiveShrinks DEF Finish, Idle
  <2> QED BY <1>0, <1>2, <2>1 DEF Finish, PoolAccounting
<1>3. ASSUME NEW w \in Workers,
             Begin(w) \/ Poll(w) \/ PollCut(w) \/ PollError(w) \/ Mark(w) \/ Fail(w)
      PROVE  PoolAccounting'
  BY <1>3, LiveStays DEF PoolAccounting
<1>4. CASE Die
  <2>1. slots' = 0 /\ wg' = 0 /\ worker' = [w \in Workers |-> Idle]
    BY <1>4, Zenon DEF Die
  <2>2. Live' = {}
    BY <2>1 DEF Live, Idle
  <2> QED BY <1>0, <2>1, <2>2, FS_EmptySet DEF PoolAccounting
<1>5. CASE UNCHANGED <<slots, wg, worker>>
  BY <1>5 DEF PoolAccounting, Live
<1>6. Service => UNCHANGED <<slots, wg, worker>>
  BY DEF Service, Pause, Delete, ActivateRead, ConfigRead, StartRequest, ActivateInit,
         ActivateSave, ConfigSave, Save
<1>7. BeginRound \/ Quit \/ Cancel \/ StopReturn \/ UNCHANGED vars => UNCHANGED <<slots, wg, worker>>
  BY DEF BeginRound, Quit, Cancel, StopReturn, vars
<1>8. \A t \in Triggers : NewItem(t) \/ Elapse(t) => UNCHANGED <<slots, wg, worker>>
  BY DEF NewItem, Elapse
<1>9. \A s \in batch : Skip(s) => UNCHANGED <<slots, wg, worker>>
  BY DEF Skip
<1> QED BY <1>1, <1>2, <1>3, <1>4, <1>5, <1>6, <1>7, <1>8, <1>9 DEF Next, Dispatcher, PollTrigger

(* The semaphore and the WaitGroup count exactly the goroutines that poll, *)
(* and never more than the pool holds, whatever is skipped, fails or dies. *)
THEOREM PoolCorrect == Spec => []PoolAccounting
BY TypeInit, TypeStep, PoolInit, PoolStep, PTL DEF Spec

---------------------------------------------------------------------------
(* The execution records. *)

(* The goroutines whose record has been created and not yet closed. *)
OpenOf(t) == {w \in LiveOf(t) : worker[w].step # "begin"}

(* The polls of a trigger that have a record. *)
LEMMA OpenMembers ==
  \A t : /\ OpenOf(t) = {w \in Workers : /\ worker[w].step \notin {"idle", "begin"}
                                         /\ worker[w].trig = t}
         /\ IsFiniteSet(OpenOf(t)) /\ Cardinality(OpenOf(t)) \in Nat
BY LiveFinite DEF OpenOf, LiveOf, Live

(* A step after which each trigger has the records it had before. *)
LEMMA RecordsStay ==
  ASSUME ExecutionsAccounted, UNCHANGED running,
         \A t \in Triggers : OpenOf(t)' = OpenOf(t) /\ ghost'[t].orphans = ghost[t].orphans
  PROVE  ExecutionsAccounted'
<1> SUFFICES ASSUME NEW t \in Triggers
             PROVE  running'[t] = Cardinality(OpenOf(t)') + ghost'[t].orphans
  BY DEF ExecutionsAccounted, OpenOf
<1>1. running[t] = Cardinality(OpenOf(t)) + ghost[t].orphans
  BY DEF ExecutionsAccounted, OpenOf
<1> QED BY <1>1

(* The record is created before the poll: one more goroutine has one. *)
LEMMA RecordCreated ==
  ASSUME TypeInv, ExecutionsAccounted, NEW w \in Workers, Begin(w)
  PROVE  ExecutionsAccounted'
<1>0. PICK t \in Triggers : t = worker[w].trig
  BY DEF TypeInv, TypeOK, Begin
<1>1. /\ worker \in [Workers -> WorkerType] /\ running \in [Triggers -> Int]
      /\ ghost \in [Triggers -> GhostType]
  BY DEF TypeInv, TypeOK, Begin
<1>2. /\ worker[w].step = "begin" /\ ghost' = ghost
      /\ running' = [running EXCEPT ![t] = @ + 1]
      /\ \A v \in Workers : v # w => worker'[v] = worker[v]
      /\ worker'[w].step = "poll" /\ worker'[w].trig = t
  BY <1>0, <1>1 DEF Begin, WorkerType
<1>3. w \notin OpenOf(t) /\ OpenOf(t)' = OpenOf(t) \cup {w}
  BY <1>0, <1>2 DEF OpenOf, LiveOf, Live
<1>4. \A u \in Triggers \ {t} : OpenOf(u)' = OpenOf(u)
  BY <1>0, <1>2 DEF OpenOf, LiveOf, Live
<1>5. Cardinality(OpenOf(t)') = Cardinality(OpenOf(t)) + 1
  <2>1. IsFiniteSet(OpenOf(t))
    BY OpenMembers
  <2>2. Cardinality(OpenOf(t) \cup {w}) = Cardinality(OpenOf(t)) + 1
    BY <1>3, <2>1, FS_AddElement
  <2> QED BY <1>3, <2>2
<1> SUFFICES ASSUME NEW u \in Triggers
             PROVE  running'[u] = Cardinality(OpenOf(u)') + ghost'[u].orphans
  BY DEF ExecutionsAccounted, OpenOf
<1>6. /\ running[u] = Cardinality(OpenOf(u)) + ghost[u].orphans
      /\ ghost[u].orphans \in Nat /\ Cardinality(OpenOf(u)) \in Nat
  BY <1>1, OpenMembers DEF ExecutionsAccounted, OpenOf, GhostType
<1>7. running'[u] = IF u = t THEN running[u] + 1 ELSE running[u]
  BY <1>1, <1>2
<1> QED BY <1>2, <1>4, <1>5, <1>6, <1>7

(* The record is closed, or the write fails and it stays "running". *)
LEMMA RecordClosed ==
  ASSUME TypeInv, ExecutionsAccounted, NEW w \in Workers, Finish(w)
  PROVE  ExecutionsAccounted'
<1>0. PICK t \in Triggers : t = worker[w].trig
  BY DEF TypeInv, TypeOK, Finish
<1>1. /\ worker \in [Workers -> WorkerType] /\ running \in [Triggers -> Int]
      /\ ghost \in [Triggers -> GhostType]
  BY DEF TypeInv, TypeOK, Finish
<1>2. /\ worker[w].step = "finish"
      /\ \A v \in Workers : v # w => worker'[v] = worker[v]
      /\ worker'[w].step = "idle"
  BY <1>1 DEF Finish, Idle
<1>3. w \in OpenOf(t) /\ OpenOf(t)' = OpenOf(t) \ {w}
  BY <1>0, <1>2 DEF OpenOf, LiveOf, Live
<1>4. \A u \in Triggers \ {t} : OpenOf(u)' = OpenOf(u)
  BY <1>0, <1>2 DEF OpenOf, LiveOf, Live
<1>5. Cardinality(OpenOf(t)') = Cardinality(OpenOf(t)) - 1
  <2>1. IsFiniteSet(OpenOf(t))
    BY OpenMembers
  <2>2. Cardinality(OpenOf(t) \ {w}) = Cardinality(OpenOf(t)) - 1
    BY <1>3, <2>1, FS_RemoveElement
  <2> QED BY <1>3, <2>2
<1>6. \/ /\ running' = [running EXCEPT ![t] = @ - 1]
         /\ \A u \in Triggers : ghost'[u].orphans = ghost[u].orphans
      \/ /\ running' = running
         /\ \A u \in Triggers :
               ghost'[u].orphans = IF u = t THEN ghost[u].orphans + 1 ELSE ghost[u].orphans
  BY <1>0, <1>1 DEF Finish, GhostType
<1> SUFFICES ASSUME NEW u \in Triggers
             PROVE  running'[u] = Cardinality(OpenOf(u)') + ghost'[u].orphans
  BY DEF ExecutionsAccounted, OpenOf
<1>7. /\ running[u] = Cardinality(OpenOf(u)) + ghost[u].orphans
      /\ ghost[u].orphans \in Nat /\ Cardinality(OpenOf(u)) \in Nat
  BY <1>1, OpenMembers DEF ExecutionsAccounted, OpenOf, GhostType
<1>8. CASE u = t
  BY <1>1, <1>5, <1>6, <1>7, <1>8
<1>9. CASE u # t
  BY <1>1, <1>4, <1>6, <1>7, <1>9
<1> QED BY <1>8, <1>9

(* The process dies: the records of all its polls are left open. *)
LEMMA RecordsOrphaned ==
  ASSUME TypeInv, ExecutionsAccounted, Die
  PROVE  ExecutionsAccounted'
<1>1. worker' = [w \in Workers |-> Idle] /\ running' = running
  BY Zenon DEF Die
<1>2. \A t \in Triggers : OpenOf(t)' = {}
  BY <1>1 DEF OpenOf, LiveOf, Live, Idle
<1>3. ASSUME NEW t \in Triggers
      PROVE  ghost'[t].orphans = ghost[t].orphans + Cardinality(OpenOf(t))
  <2> DEFINE lost == UNION {worker[w].got : w \in {v \in LiveOf(t) : worker[v].step = "finish"}}
  <2>1. ghost'[t] = [ghost[t] EXCEPT !.dropped = @ \cup lost, !.orphans = @ + Cardinality(OpenOf(t))]
    BY Zenon DEF Die, OpenOf
  <2>2. ghost[t] \in GhostType
    BY DEF TypeInv, TypeOK
  <2> HIDE DEF lost
  <2> QED BY <2>1, <2>2 DEF GhostType
<1> SUFFICES ASSUME NEW t \in Triggers
             PROVE  running'[t] = Cardinality(OpenOf(t)') + ghost'[t].orphans
  BY DEF ExecutionsAccounted, OpenOf
<1>4. /\ running[t] = Cardinality(OpenOf(t)) + ghost[t].orphans
      /\ ghost[t].orphans \in Nat /\ Cardinality(OpenOf(t)) \in Nat
  BY OpenMembers DEF ExecutionsAccounted, OpenOf, GhostType, TypeInv, TypeOK
<1> QED BY <1>1, <1>2, <1>3, <1>4, FS_EmptySet

(* Every step keeps the records accounted for. *)
LEMMA RecordsStep ==
  ASSUME TypeInv, ExecutionsAccounted, [Next]_vars
  PROVE  ExecutionsAccounted'
<1>1. worker \in [Workers -> WorkerType] /\ ghost \in [Triggers -> GhostType]
  BY DEF TypeInv, TypeOK
<1>2. ASSUME NEW w \in Workers, Poll(w) \/ PollCut(w) \/ PollError(w) \/ Mark(w) \/ Fail(w)
      PROVE  ExecutionsAccounted'
  <2>1. /\ \A v \in Workers : v # w => worker'[v] = worker[v]
        /\ worker[w].step \notin {"idle", "begin"} /\ worker'[w].step \notin {"idle", "begin"}
        /\ worker'[w].trig = worker[w].trig
        /\ UNCHANGED <<running, ghost>>
    BY <1>1, <1>2 DEF Poll, PollCut, PollError, Mark, Fail, StepAfter, WorkerType
  <2>2. \A t \in Triggers : OpenOf(t)' = OpenOf(t)
    BY <2>1 DEF OpenOf, LiveOf, Live
  <2> QED BY <2>1, <2>2, RecordsStay
<1>3. ASSUME NEW s \in batch, NEW w \in Workers, Dispatch(s, w) PROVE ExecutionsAccounted'
  <2>1. /\ \A v \in Workers : v # w => worker'[v] = worker[v]
        /\ worker[w].step = "idle" /\ worker'[w].step = "begin"
        /\ UNCHANGED <<running, ghost>>
    BY <1>1, <1>3 DEF Dispatch
  <2>2. \A t \in Triggers : OpenOf(t)' = OpenOf(t)
    BY <2>1 DEF OpenOf, LiveOf, Live
  <2> QED BY <2>1, <2>2, RecordsStay
<1>4. CASE UNCHANGED <<worker, running, ghost>>
  BY <1>4, RecordsStay DEF OpenOf, LiveOf, Live
<1>5. ASSUME UNCHANGED <<worker, running>>,
             \A t \in Triggers : ghost'[t].orphans = ghost[t].orphans
      PROVE  ExecutionsAccounted'
  BY <1>5, RecordsStay DEF OpenOf, LiveOf, Live
<1>6. ASSUME Service PROVE ExecutionsAccounted'
  <2>1. ASSUME NEW t \in Triggers, Pause(t) PROVE ExecutionsAccounted'
    BY <1>1, <1>5, <2>1 DEF Pause, GhostType
  <2>2. ASSUME NEW t \in Triggers, Delete(t) PROVE ExecutionsAccounted'
    BY <1>4, <2>2 DEF Delete
  <2>3. ASSUME NEW q \in Requests, ActivateInit(q) PROVE ExecutionsAccounted'
    BY <1>4, <2>3 DEF ActivateInit
  <2>4. ASSUME NEW q \in Requests, NEW t \in Triggers, ActivateRead(q, t) \/ ConfigRead(q, t)
        PROVE  ExecutionsAccounted'
    BY <1>4, <2>4 DEF ActivateRead, ConfigRead, StartRequest
  <2>5. ASSUME NEW q \in Requests, ActivateSave(q) PROVE ExecutionsAccounted'
    BY <1>1, <1>5, <2>5 DEF ActivateSave, Save, GhostType
  <2>6. ASSUME NEW q \in Requests, ConfigSave(q) PROVE ExecutionsAccounted'
    BY <1>1, <1>5, <2>6 DEF ConfigSave, Save, GhostType
  <2> QED BY <1>6, <2>1, <2>2, <2>3, <2>4, <2>5, <2>6 DEF Service
<1>7. BeginRound \/ Quit \/ Cancel \/ StopReturn \/ UNCHANGED vars
      => UNCHANGED <<worker, running, ghost>>
  BY DEF BeginRound, Quit, Cancel, StopReturn, vars
<1>8. \A t \in Triggers : NewItem(t) \/ Elapse(t) => UNCHANGED <<worker, running, ghost>>
  BY DEF NewItem, Elapse
<1>9. \A s \in batch : Skip(s) => UNCHANGED <<worker, running, ghost>>
  BY DEF Skip
<1> QED
  BY <1>2, <1>3, <1>4, <1>6, <1>7, <1>8, <1>9, RecordCreated, RecordClosed, RecordsOrphaned
     DEF Next, Dispatcher, PollTrigger

(* There are no records at first. *)
LEMMA RecordsInit == Init => ExecutionsAccounted
<1> SUFFICES ASSUME Init, NEW t \in Triggers
             PROVE  running[t] = Cardinality(OpenOf(t)) + ghost[t].orphans
  BY DEF ExecutionsAccounted, OpenOf
<1>1. OpenOf(t) = {}
  BY DEF Init, Idle, OpenOf, LiveOf, Live
<1>2. running[t] = 0 /\ ghost[t].orphans = 0
  BY DEF Init
<1> QED BY <1>1, <1>2, FS_EmptySet

(* An execution record says "running" exactly while its poll is in         *)
(* progress, or for ever: because the process died, or because the write   *)
(* that closes it failed.                                                  *)
THEOREM ExecutionsCorrect == Spec => []ExecutionsAccounted
BY TypeInit, TypeStep, RecordsInit, RecordsStep, PTL DEF Spec

---------------------------------------------------------------------------
(* No item is skipped.  NoItemSkipped speaks of the stored position only;  *)
(* it is inductive together with the same claim for every copy of it: in   *)
(* the dispatcher's round, in the polls and in the requests in flight.     *)

Behind(t, p) == \A m \in 1..p : Accounted(t, m)

RowsBehind == \A t \in Triggers : Behind(t, row[t].pos)

CopiesBehind == \A s \in batch : Behind(s.trig, s.pos)

PollsBehind == \A w \in Workers : worker[w].step # "idle" => Behind(worker[w].trig, worker[w].pos)

RequestsBehind ==
    \A q \in Requests : api[q].step \in {"init", "activate"} =>
        \A m \in 1..api[q].row.pos : m <= api[q].floor \/ Accounted(api[q].trig, m)

PositionInv == RowsBehind /\ CopiesBehind /\ PollsBehind /\ RequestsBehind

(* The history only grows, and what a poll was about to hand over is in it *)
(* once the goroutine is gone.                                             *)
GhostGrows(t) ==
    /\ ghost[t].floor <= ghost'[t].floor
    /\ ghost[t].fired \subseteq ghost'[t].fired
    /\ ghost[t].dropped \subseteq ghost'[t].dropped

HandsOver(w) ==
    worker[w].step = "finish" =>
        \/ worker'[w] = worker[w]
        \/ worker[w].got \subseteq ghost'[worker[w].trig].fired \cup ghost'[worker[w].trig].dropped

(* What was fired stays fired, and a poll hands over what it got. *)
LEMMA HistoryStep ==
  ASSUME TypeInv, [Next]_vars
  PROVE  (\A t \in Triggers : GhostGrows(t)) /\ (\A w \in Workers : HandsOver(w))
<1> DEFINE Goal == (\A t \in Triggers : GhostGrows(t)) /\ (\A w \in Workers : HandsOver(w))
<1>1. /\ worker \in [Workers -> WorkerType] /\ ghost \in [Triggers -> GhostType]
      /\ \A w \in Workers : worker[w].step # "idle" => worker[w].trig \in Triggers
      /\ \A t \in Triggers : ghost[t].floor \in Nat
  BY DEF TypeInv, TypeOK, GhostType
<1>2. ghost' = ghost => \A t \in Triggers : GhostGrows(t)
  BY <1>1 DEF GhostGrows
<1>3. worker' = worker => \A w \in Workers : HandsOver(w)
  BY DEF HandsOver
<1>4. ASSUME NEW w \in Workers, worker[w].step # "finish", NEW new, worker' = [worker EXCEPT ![w] = new]
      PROVE  \A v \in Workers : HandsOver(v)
  BY <1>1, <1>4 DEF HandsOver
<1>5. ASSUME NEW s \in batch, NEW w \in Workers, Dispatch(s, w) PROVE Goal
  BY <1>2, <1>4, <1>5 DEF Dispatch
<1>6. ASSUME NEW w \in Workers,
             Begin(w) \/ Poll(w) \/ PollCut(w) \/ PollError(w) \/ Mark(w) \/ Fail(w)
      PROVE  Goal
  <2>1. ghost' = ghost /\ worker[w].step # "finish"
    BY <1>6 DEF Begin, Poll, PollCut, PollError, Mark, Fail
  <2>2. \A v \in Workers : v # w => worker'[v] = worker[v]
    BY <1>1, <1>6 DEF Begin, Poll, PollCut, PollError, Mark, Fail
  <2> QED BY <1>2, <2>1, <2>2 DEF HandsOver
<1>7. ASSUME NEW w \in Workers, Finish(w) PROVE Goal
  <2> DEFINE t == worker[w].trig
  <2>1. t \in Triggers /\ worker' = [worker EXCEPT ![w] = Idle]
    BY <1>1, <1>7 DEF Finish
  <2>2. PICK a, o : /\ a = ghost[t].fired \cup worker[w].got
                    /\ ghost' = [ghost EXCEPT ![t] = [ghost[t] EXCEPT !.fired = a, !.orphans = o]]
    <3>1. ghost[t] \in GhostType
      BY <1>1, <2>1
    <3>2. CASE ghost' = [ghost EXCEPT ![t].fired = @ \cup worker[w].got]
      <4>1. ghost' = [ghost EXCEPT ![t] = [ghost[t] EXCEPT !.fired = @ \cup worker[w].got,
                                                           !.orphans = ghost[t].orphans]]
        BY <1>1, <2>1, <3>1, <3>2 DEF GhostType
      <4> QED BY <4>1
    <3>3. CASE ghost' = [ghost EXCEPT ![t].fired = @ \cup worker[w].got, ![t].orphans = @ + 1]
      <4>1. ghost' = [ghost EXCEPT ![t] = [ghost[t] EXCEPT !.fired = @ \cup worker[w].got,
                                                           !.orphans = ghost[t].orphans + 1]]
        BY <1>1, <2>1, <3>3
      <4> QED BY <4>1
    <3> QED BY <1>7, <3>2, <3>3 DEF Finish
  <2>3. /\ ghost'[t].fired = ghost[t].fired \cup worker[w].got
        /\ ghost'[t].floor = ghost[t].floor /\ ghost'[t].dropped = ghost[t].dropped
    BY <1>1, <2>1, <2>2 DEF GhostType
  <2>4. \A u \in Triggers : GhostGrows(u)
    BY <1>1, <2>1, <2>2, <2>3 DEF GhostGrows
  <2>5. worker[w].got \subseteq ghost'[t].fired
    BY <2>3
  <2>6. \A v \in Workers : HandsOver(v)
    BY <1>1, <2>1, <2>5 DEF HandsOver
  <2> QED BY <2>4, <2>6
<1>8. ASSUME Die PROVE Goal
  <2> DEFINE lost(t) == UNION {worker[w].got : w \in {v \in LiveOf(t) : worker[v].step = "finish"}}
             open(t) == Cardinality({w \in LiveOf(t) : worker[w].step # "begin"})
  <2>1. \A t \in Triggers : ghost'[t] = [ghost[t] EXCEPT !.dropped = @ \cup lost(t), !.orphans = @ + open(t)]
    BY <1>8, Zenon DEF Die
  <2>2. \A t \in Triggers : /\ ghost'[t].floor = ghost[t].floor
                            /\ ghost'[t].fired = ghost[t].fired
                            /\ ghost'[t].dropped = ghost[t].dropped \cup lost(t)
    <3>1. SUFFICES ASSUME NEW t \in Triggers
                   PROVE  /\ ghost'[t].floor = ghost[t].floor
                          /\ ghost'[t].fired = ghost[t].fired
                          /\ ghost'[t].dropped = ghost[t].dropped \cup lost(t)
      OBVIOUS
    <3>2. ghost[t] \in GhostType
      BY <1>1
    <3> HIDE DEF lost, open
    <3>3. ghost'[t] = [ghost[t] EXCEPT !.dropped = @ \cup lost(t), !.orphans = @ + open(t)]
      BY <2>1
    <3>4. PICK a, b : a = ghost[t].dropped \cup lost(t) /\ b = ghost[t].orphans + open(t)
      OBVIOUS
    <3>5. ghost'[t] = [ghost[t] EXCEPT !.dropped = a, !.orphans = b]
      BY <3>3, <3>4
    <3> QED BY <3>2, <3>4, <3>5 DEF GhostType
  <2>3. \A w \in Workers : worker[w].step = "finish" => worker[w].got \subseteq lost(worker[w].trig)
    BY DEF LiveOf, Live
  <2>4. \A t \in Triggers : GhostGrows(t)
    <3> HIDE DEF lost
    <3> QED BY <1>1, <2>2 DEF GhostGrows
  <2>5. \A w \in Workers : HandsOver(w)
    <3> HIDE DEF lost
    <3> QED BY <1>1, <2>2, <2>3 DEF HandsOver
  <2> QED BY <2>4, <2>5
<1>9. ASSUME NEW q \in Requests, ActivateSave(q) PROVE Goal
  <2>1. api[q].trig \in Triggers /\ api[q].floor \in Nat
    BY <1>9 DEF ActivateSave, TypeInv, TypeOK, ApiType
  <2>2. worker' = worker
    BY <1>9 DEF ActivateSave, Save
  <2>3. ghost' = [ghost EXCEPT ![api[q].trig] =
                    [ghost[api[q].trig] EXCEPT !.wanted = "active",
                       !.floor = IF @ < api[q].floor THEN api[q].floor ELSE @]]
    BY <1>9 DEF ActivateSave, Save
  <2>4. \A t \in Triggers : GhostGrows(t)
    BY <1>1, <2>1, <2>3 DEF GhostGrows, GhostType
  <2> QED BY <1>3, <2>2, <2>4
<1>10. ASSUME NEW q \in Requests, ConfigSave(q) PROVE Goal
  <2>1. worker' = worker /\ ghost' = ghost
    BY <1>1, <1>10 DEF ConfigSave, Save
  <2> QED BY <1>2, <1>3, <2>1
<1>11. ASSUME NEW t \in Triggers, Pause(t) PROVE Goal
  <2>1. worker' = worker /\ ghost' = [ghost EXCEPT ![t].wanted = "paused"]
    BY <1>11 DEF Pause
  <2>2. \A u \in Triggers : GhostGrows(u)
    BY <1>1, <2>1 DEF GhostGrows, GhostType
  <2> QED BY <1>3, <2>1, <2>2
<1>12. ASSUME worker' = worker, ghost' = ghost PROVE Goal
  BY <1>2, <1>3, <1>12
<1>13. ASSUME NEW q \in Requests, NEW t \in Triggers, ActivateRead(q, t) \/ ConfigRead(q, t)
       PROVE  worker' = worker /\ ghost' = ghost
  BY <1>13 DEF ActivateRead, ConfigRead, StartRequest
<1>14. \A q \in Requests : ActivateInit(q) => worker' = worker /\ ghost' = ghost
  BY DEF ActivateInit
<1>15. \A t \in Triggers : NewItem(t) \/ Elapse(t) \/ Delete(t) => worker' = worker /\ ghost' = ghost
  BY DEF NewItem, Elapse, Delete
<1>16. \A s \in batch : Skip(s) => worker' = worker /\ ghost' = ghost
  BY DEF Skip
<1>17. BeginRound \/ Quit \/ Cancel \/ StopReturn \/ UNCHANGED vars => worker' = worker /\ ghost' = ghost
  BY DEF BeginRound, Quit, Cancel, StopReturn, vars
<1> HIDE DEF Goal
<1>18. Service => Goal
  BY <1>9, <1>10, <1>11, <1>12, <1>13, <1>14, <1>15 DEF Service
<1>19. ASSUME NEW w \in Workers, PollTrigger(w) PROVE Goal
  BY <1>6, <1>7, <1>19 DEF PollTrigger
<1>20. Dispatcher => Goal
  BY <1>5, <1>12, <1>16, <1>17 DEF Dispatcher
<1>21. (\E t \in Triggers : NewItem(t) \/ Elapse(t)) \/ Cancel \/ StopReturn \/ UNCHANGED vars => Goal
  BY <1>12, <1>15, <1>17
<1>22. Goal
  BY <1>8, <1>18, <1>19, <1>20, <1>21 DEF Next
<1> QED BY <1>22 DEF Goal

(* What is accounted for stays accounted for. *)
LEMMA AccountedStays ==
  ASSUME TypeInv, [Next]_vars, NEW t \in Triggers, NEW n \in Nat, Accounted(t, n)
  PROVE  Accounted(t, n)'
<1>1. GhostGrows(t) /\ \A w \in Workers : HandsOver(w)
  BY HistoryStep
<1>2. ghost[t].floor \in Nat /\ ghost'[t].floor \in Nat
  BY TypeStep DEF TypeInv, TypeOK, GhostType
<1> QED BY <1>1, <1>2 DEF Accounted, GhostGrows, HandsOver

(* Items that are accounted for stay so. *)
LEMMA BehindStays ==
  ASSUME TypeInv, [Next]_vars, NEW t \in Triggers, NEW p \in Nat, Behind(t, p)
  PROVE  Behind(t, p)'
BY AccountedStays DEF Behind

(* The parts of the invariant a step does not disturb. *)
LEMMA PositionsKept ==
  ASSUME TypeInv, PositionInv, [Next]_vars
  PROVE  /\ (\A t \in Triggers : row'[t].pos = row[t].pos) => RowsBehind'
         /\ batch' \subseteq batch => CopiesBehind'
         /\ (\A w \in Workers : worker'[w].step # "idle" =>
               /\ worker[w].step # "idle"
               /\ worker'[w].trig = worker[w].trig
               /\ worker'[w].pos = worker[w].pos) => PollsBehind'
         /\ (\A q \in Requests : api'[q].step \in {"init", "activate"} => api'[q] = api[q]) => RequestsBehind'
<1>1. \A t \in Triggers : row[t].pos \in Nat
  BY DEF TypeInv, TypeOK, RowType
<1>2. \A s \in batch : s.trig \in Triggers /\ s.pos \in Nat
  BY DEF TypeInv, TypeOK, Snapshot
<1>3. \A w \in Workers : worker[w].step # "idle" => worker[w].trig \in Triggers /\ worker[w].pos \in Nat
  BY DEF TypeInv, TypeOK, WorkerType
<1>4. \A q \in Requests : api[q].step \in {"init", "activate"} =>
        api[q].trig \in Triggers /\ api[q].row.pos \in Nat
  BY DEF TypeInv, TypeOK, ApiType, RowType
<1>5. ASSUME \A t \in Triggers : row'[t].pos = row[t].pos PROVE RowsBehind'
  BY <1>1, <1>5, BehindStays DEF PositionInv, RowsBehind
<1>6. ASSUME batch' \subseteq batch PROVE CopiesBehind'
  BY <1>2, <1>6, BehindStays DEF PositionInv, CopiesBehind
<1>7. ASSUME \A w \in Workers : worker'[w].step # "idle" =>
               /\ worker[w].step # "idle"
               /\ worker'[w].trig = worker[w].trig
               /\ worker'[w].pos = worker[w].pos
      PROVE  PollsBehind'
  BY <1>3, <1>7, BehindStays DEF PositionInv, PollsBehind
<1>8. ASSUME \A q \in Requests : api'[q].step \in {"init", "activate"} => api'[q] = api[q]
      PROVE  RequestsBehind'
  BY <1>4, <1>8, AccountedStays DEF PositionInv, RequestsBehind
<1> QED BY <1>5, <1>6, <1>7, <1>8

(* The first state satisfies the invariant of the positions. *)
LEMMA PositionInit == Init => PositionInv
<1> SUFFICES ASSUME Init PROVE PositionInv
  OBVIOUS
<1>1. /\ \A t \in Triggers : row[t].pos = 0
      /\ batch = {}
      /\ \A w \in Workers : worker[w].step = "idle"
      /\ \A q \in Requests : api[q].step = "none"
  BY DEF Init, Idle
<1> QED BY <1>1 DEF PositionInv, RowsBehind, Behind, CopiesBehind, PollsBehind, RequestsBehind

(* The polls: only Mark moves a position, and to where it has read. *)
LEMMA PositionPoll ==
  ASSUME TypeInv, PositionInv, NEW w \in Workers, PollTrigger(w)
  PROVE  PositionInv'
<1>1. [Next]_vars
  BY DEF Next
<1>2. /\ row \in [Triggers -> RowType] /\ worker \in [Workers -> WorkerType]
      /\ \A v \in Workers : worker[v].step # "idle" => worker[v].trig \in Triggers
  BY DEF TypeInv, TypeOK
<1>3. batch' = batch /\ api' = api
  BY DEF PollTrigger, Begin, Poll, PollCut, PollError, Mark, Fail, Finish
<1>4. worker[w].step # "idle"
  BY DEF PollTrigger, Begin, Poll, PollCut, PollError, Mark, Fail, Finish
<1>5. PICK t \in Triggers, pos \in Nat, got \in SUBSET Nat :
        t = worker[w].trig /\ pos = worker[w].pos /\ got = worker[w].got
  BY <1>2, <1>4 DEF WorkerType
<1>6. \A v \in Workers : worker'[v].step # "idle" =>
        worker[v].step # "idle" /\ worker'[v].trig = worker[v].trig /\ worker'[v].pos = worker[v].pos
  <2>1. \A v \in Workers : v # w => worker'[v] = worker[v]
    BY <1>2 DEF PollTrigger, Begin, Poll, PollCut, PollError, Mark, Fail, Finish
  <2>2. CASE Finish(w)
    <3>1. worker' = [worker EXCEPT ![w] = Idle]
      BY <2>2 DEF Finish
    <3>2. worker'[w].step = "idle"
      BY <1>2, <3>1 DEF Idle
    <3> QED BY <2>1, <3>2
  <2>3. CASE Begin(w) \/ Poll(w) \/ PollCut(w) \/ PollError(w) \/ Mark(w) \/ Fail(w)
    <3>1. ASSUME Begin(w) \/ PollError(w) \/ Mark(w) \/ Fail(w)
          PROVE  worker'[w].trig = worker[w].trig /\ worker'[w].pos = worker[w].pos
      <4>1. PICK step : worker' = [worker EXCEPT ![w].step = step]
        BY <3>1 DEF Begin, PollError, Mark, Fail
      <4> QED BY <1>2, <4>1 DEF WorkerType
    <3>2. ASSUME Poll(w) \/ PollCut(w)
          PROVE  worker'[w].trig = worker[w].trig /\ worker'[w].pos = worker[w].pos
      <4>1. PICK new, step : worker' = [worker EXCEPT ![w].got = new, ![w].step = step]
        BY <3>2 DEF Poll, PollCut
      <4> QED BY <1>2, <4>1 DEF WorkerType
    <3>3. worker'[w].trig = worker[w].trig /\ worker'[w].pos = worker[w].pos
      BY <2>3, <3>1, <3>2
    <3> QED BY <1>4, <2>1, <3>3
  <2> QED BY <2>2, <2>3 DEF PollTrigger
<1>7. CopiesBehind' /\ PollsBehind' /\ RequestsBehind'
  BY <1>1, <1>3, <1>6, PositionsKept
<1>8. CASE Mark(w)
  <2>1. PICK last \in Nat : /\ last = LastOf(got)
                            /\ \A m \in Nat : pos < m /\ m <= last => m \in got
    BY <1>5, <1>8, LastOfContiguous DEF Mark, TypeInv, ReadsContiguous
  <2>2. worker'[w].step = "finish" /\ worker'[w].trig = t /\ worker'[w].got = got
    BY <1>2, <1>5, <1>8 DEF Mark, WorkerType
  <2>3. Behind(t, pos)'
    <3>1. Behind(t, pos)
      BY <1>4, <1>5 DEF PositionInv, PollsBehind
    <3> QED BY <1>1, <1>5, <3>1, BehindStays
  <2>4. Behind(t, last)'
    <3>1. SUFFICES ASSUME NEW m \in 1..last PROVE Accounted(t, m)'
      BY DEF Behind
    <3>2. CASE m <= pos
      BY <1>5, <2>3, <3>2 DEF Behind
    <3>3. CASE pos < m
      BY <1>5, <2>1, <2>2, <3>3 DEF Accounted
    <3> QED BY <1>5, <3>2, <3>3
  <2>5. \A u \in Triggers : row'[u].pos = row[u].pos \/ (u = t /\ row'[u].pos = last)
    BY <1>2, <1>5, <1>8, <2>1 DEF Mark, WriteRow, RowType
  <2>6. RowsBehind'
    <3>1. SUFFICES ASSUME NEW u \in Triggers PROVE Behind(u, row[u].pos)'
      BY DEF RowsBehind
    <3>2. PICK p \in Nat : p = row[u].pos
      BY <1>2 DEF RowType
    <3>3. Behind(u, p)'
      BY <1>1, <3>2, BehindStays DEF PositionInv, RowsBehind
    <3> QED BY <2>4, <2>5, <3>2, <3>3 DEF Behind
  <2> QED BY <1>7, <2>6 DEF PositionInv
<1>9. CASE Begin(w) \/ Poll(w) \/ PollCut(w) \/ PollError(w) \/ Fail(w) \/ Finish(w)
  <2>1. \A u \in Triggers : row'[u].pos = row[u].pos
    BY <1>2, <1>5, <1>9 DEF Begin, Poll, PollCut, PollError, Fail, Finish, WriteRow, RowType
  <2> QED BY <1>1, <1>7, <2>1, PositionsKept DEF PositionInv
<1> QED BY <1>8, <1>9 DEF PollTrigger

(* A trigger's row is saved, or a request has computed a new position. *)
LEMMA PositionService ==
  ASSUME TypeInv, PositionInv, Service
  PROVE  PositionInv'
<1>1. [Next]_vars
  BY DEF Next
<1>2. /\ row \in [Triggers -> RowType] /\ api \in [Requests -> ApiType]
      /\ ghost \in [Triggers -> GhostType] /\ items \in [Triggers -> Nat]
  BY DEF TypeInv, TypeOK
<1>3. batch' = batch /\ worker' = worker
  BY DEF Service, Pause, Delete, ActivateRead, ConfigRead, StartRequest, ActivateInit,
         ActivateSave, ConfigSave, Save
<1>4. CopiesBehind' /\ PollsBehind'
  BY <1>1, <1>3, PositionsKept
<1>5. (\A t \in Triggers : row'[t].pos = row[t].pos) => RowsBehind'
  BY <1>1, PositionsKept
<1>6. (\A q \in Requests : api'[q].step \in {"init", "activate"} => api'[q] = api[q]) => RequestsBehind'
  BY <1>1, PositionsKept
<1>7. ASSUME NEW q \in Requests, NEW t \in Triggers, NEW pos \in Nat, NEW floor \in Nat,
             api'[q].trig = t, api'[q].row.pos = pos, api'[q].floor = floor,
             \A m \in 1..pos : m <= floor \/ Accounted(t, m),
             \A p \in Requests : p # q => api'[p] = api[p]
      PROVE  RequestsBehind'
  <2>1. SUFFICES ASSUME NEW p \in Requests, api'[p].step \in {"init", "activate"}
                 PROVE  \A m \in 1..api'[p].row.pos : m <= api'[p].floor \/ Accounted(api[p].trig, m)'
    BY DEF RequestsBehind
  <2>2. CASE p = q
    BY <1>1, <1>7, <2>2, AccountedStays
  <2>3. CASE p # q
    <3>1. PICK u \in Triggers, n \in Nat : u = api[p].trig /\ n = api[p].row.pos
      BY <1>2, <1>7, <2>1, <2>3 DEF ApiType, RowType
    <3>2. \A m \in 1..n : m <= api[p].floor \/ Accounted(u, m)
      BY <1>7, <2>1, <2>3, <3>1 DEF PositionInv, RequestsBehind
    <3> QED BY <1>1, <1>7, <2>3, <3>1, <3>2, AccountedStays
  <2> QED BY <2>2, <2>3
<1>8. ASSUME NEW q \in Requests, NEW t \in Triggers, ActivateRead(q, t) PROVE PositionInv'
  <2>1. PICK pos \in Nat, floor \in Nat : pos = row[t].pos /\ floor = ghost[t].floor
    BY <1>2 DEF RowType, GhostType
  <2>2. /\ api' = [api EXCEPT ![q] = [step |-> "init", trig |-> t, row |-> row[t], floor |-> ghost[t].floor]]
        /\ row' = row
    BY <1>8 DEF ActivateRead, StartRequest
  <2>3. \A m \in 1..pos : m <= floor \/ Accounted(t, m)
    BY <2>1 DEF PositionInv, RowsBehind, Behind
  <2>4. RequestsBehind'
    BY <1>2, <1>7, <2>1, <2>2, <2>3
  <2> QED BY <1>4, <1>5, <2>2, <2>4 DEF PositionInv
<1>9. ASSUME NEW q \in Requests, NEW t \in Triggers, ConfigRead(q, t) PROVE PositionInv'
  <2>1. /\ api' = [api EXCEPT ![q] = [step |-> "config", trig |-> t, row |-> row[t]]]
        /\ row' = row
    BY <1>9 DEF ConfigRead, StartRequest
  <2> QED BY <1>2, <1>4, <1>5, <1>6, <2>1 DEF PositionInv
<1>10. ASSUME NEW q \in Requests, ActivateInit(q) PROVE PositionInv'
  <2>1. PICK t \in Triggers, pos \in Nat, floor \in Nat :
          t = api[q].trig /\ pos = api[q].row.pos /\ floor = api[q].floor
    BY <1>2, <1>10 DEF ActivateInit, ApiType, RowType
  <2>2. row' = row
    BY <1>10 DEF ActivateInit
  <2>3. \A m \in 1..pos : m <= floor \/ Accounted(t, m)
    BY <1>10, <2>1 DEF ActivateInit, PositionInv, RequestsBehind
  <2>4. CASE api' = [api EXCEPT ![q].step = "activate"]
    <3>1. api'[q].trig = t /\ api'[q].row.pos = pos /\ api'[q].floor = floor
      BY <1>2, <1>10, <2>1, <2>4 DEF ActivateInit, ApiType
    <3>2. RequestsBehind'
      BY <1>2, <1>7, <2>3, <2>4, <3>1
    <3> QED BY <1>4, <1>5, <2>2, <3>2 DEF PositionInv
  <2>5. CASE api' = [api EXCEPT ![q].step = "activate",
                                ![q].row.pos = items[t],
                                ![q].floor = IF @ < items[t] THEN items[t] ELSE @]
    <3>1. PICK new \in Nat : new = IF floor < items[t] THEN items[t] ELSE floor
      BY <1>2
    <3>2. api'[q].trig = t /\ api'[q].row.pos = items[t] /\ api'[q].floor = new
      BY <1>2, <1>10, <2>1, <2>5, <3>1 DEF ActivateInit, ApiType, RowType
    <3>3. items[t] \in Nat /\ items[t] <= new
      BY <1>2, <3>1
    <3>4. PICK n \in Nat : n = items[t]
      BY <3>3
    <3>5. \A p \in Requests : p # q => api'[p] = api[p]
      BY <1>2, <2>5
    <3>6. RequestsBehind'
      BY <1>7, <3>2, <3>3, <3>4, <3>5
    <3> QED BY <1>4, <1>5, <2>2, <3>6 DEF PositionInv
  <2> QED BY <1>10, <2>1, <2>4, <2>5 DEF ActivateInit
<1>11. ASSUME NEW q \in Requests, NEW t \in Triggers, t = api[q].trig, NEW new \in RowType, NEW g,
              Save(q, new, g), NEW pos \in Nat, pos = new.pos, Behind(t, pos)'
       PROVE  PositionInv'
  <2>1. \A u \in Triggers : u # t => row'[u].pos = row[u].pos
    BY <1>2, <1>11 DEF Save
  <2>2. row'[t].pos = pos
    BY <1>2, <1>11 DEF Save
  <2>3. RowsBehind'
    <3>1. SUFFICES ASSUME NEW u \in Triggers PROVE Behind(u, row[u].pos)'
      BY DEF RowsBehind
    <3>2. PICK p \in Nat : p = row[u].pos
      BY <1>2 DEF RowType
    <3>3. Behind(u, p)'
      BY <1>1, <3>2, BehindStays DEF PositionInv, RowsBehind
    <3> QED BY <1>11, <2>1, <2>2, <3>2, <3>3 DEF Behind
  <2>4. RequestsBehind'
    BY <1>2, <1>6, <1>11 DEF Save
  <2> QED BY <1>4, <2>3, <2>4 DEF PositionInv
<1>12. ASSUME NEW q \in Requests, ActivateSave(q) PROVE PositionInv'
  <2>1. PICK t \in Triggers, pos \in Nat, floor \in Nat :
          t = api[q].trig /\ pos = api[q].row.pos /\ floor = api[q].floor
    BY <1>2, <1>12 DEF ActivateSave, ApiType, RowType
  <2>2. api[q].row \in RowType
    BY <1>2, <1>12 DEF ActivateSave, ApiType
  <2>3. [api[q].row EXCEPT !.status = "active"] \in RowType
        /\ [api[q].row EXCEPT !.status = "active"].pos = pos
    BY <2>1, <2>2 DEF RowType, Statuses
  <2>4. ghost'[t].floor \in Nat /\ floor <= ghost'[t].floor
    BY <1>2, <1>12, <2>1 DEF ActivateSave, Save, GhostType
  <2>5. Behind(t, pos)'
    <3>1. SUFFICES ASSUME NEW m \in 1..pos PROVE Accounted(t, m)'
      BY DEF Behind
    <3>2. m <= floor \/ Accounted(t, m)
      BY <1>12, <2>1 DEF ActivateSave, PositionInv, RequestsBehind
    <3>3. CASE m <= floor
      BY <2>1, <2>4, <3>3 DEF Accounted
    <3>4. CASE Accounted(t, m)
      BY <1>1, <3>4, AccountedStays
    <3> QED BY <3>2, <3>3, <3>4
  <2> QED BY <1>11, <1>12, <2>1, <2>3, <2>5 DEF ActivateSave
<1>13. ASSUME NEW q \in Requests, ConfigSave(q) PROVE PositionInv'
  <2>1. PICK t \in Triggers : t = api[q].trig
    BY <1>2, <1>13 DEF ConfigSave, ApiType
  <2>2. [api[q].row EXCEPT !.pos = 0] \in RowType /\ [api[q].row EXCEPT !.pos = 0].pos = 0
    BY <1>2, <1>13 DEF ConfigSave, ApiType, RowType
  <2>3. Behind(t, 0)'
    BY DEF Behind
  <2> QED BY <1>11, <1>13, <2>1, <2>2, <2>3 DEF ConfigSave
<1>14. ASSUME NEW t \in Triggers, Pause(t) PROVE PositionInv'
  <2>1. api' = api /\ \A u \in Triggers : row'[u].pos = row[u].pos
    BY <1>2, <1>14 DEF Pause, RowType
  <2> QED BY <1>4, <1>5, <1>6, <2>1 DEF PositionInv
<1>15. ASSUME NEW t \in Triggers, Delete(t) PROVE PositionInv'
  <2>1. api' = api /\ \A u \in Triggers : row'[u].pos = row[u].pos
    BY <1>2, <1>15 DEF Delete, RowType
  <2> QED BY <1>4, <1>5, <1>6, <2>1 DEF PositionInv
<1> QED BY <1>8, <1>9, <1>10, <1>12, <1>13, <1>14, <1>15 DEF Service

(* Every step keeps it. *)
LEMMA PositionStep ==
  ASSUME TypeInv, PositionInv, [Next]_vars
  PROVE  PositionInv'
<1>1. /\ \A t \in Triggers : row[t].pos \in Nat
      /\ \A s \in batch : s.trig \in Triggers /\ s.pos \in Nat
      /\ worker \in [Workers -> WorkerType]
  BY DEF TypeInv, TypeOK, RowType, Snapshot
<1>2. ASSUME \A t \in Triggers : row'[t].pos = row[t].pos, batch' \subseteq batch,
             worker' = worker, api' = api
      PROVE  PositionInv'
  BY <1>2, PositionsKept DEF PositionInv
<1>3. ASSUME NEW t \in Triggers, NewItem(t) \/ Elapse(t) PROVE PositionInv'
  <2>1. row' = row \/ row' = [row EXCEPT ![t].due = TRUE]
    BY <1>3 DEF NewItem, Elapse
  <2>2. \A u \in Triggers : row'[u].pos = row[u].pos
    BY <2>1 DEF TypeInv, TypeOK, RowType
  <2> QED BY <1>2, <1>3, <2>2 DEF NewItem, Elapse
<1>4. CASE BeginRound
  <2>1. row' = row /\ worker' = worker /\ api' = api /\ batch' = DueNow
    BY <1>4 DEF BeginRound
  <2>2. \A s \in DueNow : s.trig \in Triggers /\ s.pos = row[s.trig].pos
    BY DEF DueNow
  <2>3. CopiesBehind'
    <3>1. SUFFICES ASSUME NEW s \in DueNow PROVE Behind(s.trig, s.pos)'
      BY <2>1 DEF CopiesBehind
    <3>2. Behind(s.trig, s.pos) /\ s.trig \in Triggers /\ s.pos \in Nat
      BY <1>1, <2>2 DEF PositionInv, RowsBehind
    <3> QED BY <3>2, BehindStays
  <2>4. RowsBehind' /\ PollsBehind' /\ RequestsBehind'
    BY <2>1, PositionsKept
  <2> QED BY <2>3, <2>4 DEF PositionInv
<1>5. ASSUME NEW s \in batch, NEW w \in Workers, Dispatch(s, w) PROVE PositionInv'
  <2>1. /\ row' = row /\ api' = api /\ batch' \subseteq batch
        /\ worker' = [worker EXCEPT ![w] = [step |-> "begin", trig |-> s.trig, pos |-> s.pos, got |-> {}]]
    BY <1>5 DEF Dispatch
  <2>2. Behind(s.trig, s.pos)'
    BY <1>1, BehindStays DEF PositionInv, CopiesBehind
  <2>3. PollsBehind'
    <3>1. SUFFICES ASSUME NEW v \in Workers, worker'[v].step # "idle"
                   PROVE  Behind(worker[v].trig, worker[v].pos)'
      BY DEF PollsBehind
    <3>2. CASE v = w
      BY <1>1, <2>1, <2>2, <3>2 DEF Behind
    <3>3. CASE v # w
      <4>1. worker'[v] = worker[v]
        BY <1>1, <2>1, <3>3
      <4>2. PICK t \in Triggers, p \in Nat : t = worker[v].trig /\ p = worker[v].pos
        BY <3>1, <4>1 DEF TypeInv, TypeOK, WorkerType
      <4>3. Behind(t, p)'
        BY <3>1, <4>1, <4>2, BehindStays DEF PositionInv, PollsBehind
      <4> QED BY <4>1, <4>2, <4>3 DEF Behind
    <3> QED BY <3>2, <3>3
  <2>4. RowsBehind' /\ CopiesBehind' /\ RequestsBehind'
    BY <2>1, PositionsKept
  <2> QED BY <2>3, <2>4 DEF PositionInv
<1>6. ASSUME NEW s \in batch, Skip(s) PROVE PositionInv'
  BY <1>2, <1>6 DEF Skip
<1>7. CASE Quit \/ Cancel \/ StopReturn \/ UNCHANGED vars
  BY <1>2, <1>7 DEF Quit, Cancel, StopReturn, vars
<1>8. CASE Die
  <2>1. /\ row' = row /\ batch' = {} /\ worker' = [w \in Workers |-> Idle]
        /\ api' = [q \in Requests |-> [step |-> "none"]]
    BY <1>8, Zenon DEF Die
  <2>2. /\ \A w \in Workers : worker'[w].step = "idle"
        /\ \A q \in Requests : api'[q].step = "none"
    BY <2>1 DEF Idle
  <2> QED BY <2>1, <2>2, PositionsKept DEF PositionInv
<1> QED BY <1>3, <1>4, <1>5, <1>6, <1>7, <1>8, PositionPoll, PositionService DEF Next, Dispatcher

(* Nothing below a trigger's position is lost other than with the process: *)
(* whatever polls overlap on stale copies, connections break, requests     *)
(* save old rows, and the process stops, for any number of goroutines,     *)
(* requests and items.                                                     *)
THEOREM PositionsCorrect == Spec => []NoItemSkipped
<1>1. TypeInv /\ PositionInv => NoItemSkipped
  BY PollerAssumption DEF TypeInv, TypeOK, RowType, PositionInv, RowsBehind, Behind, NoItemSkipped
<1> QED BY TypeInit, TypeStep, PositionInit, PositionStep, <1>1, PTL DEF Spec

=============================================================================
