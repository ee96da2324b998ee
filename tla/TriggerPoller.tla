--------------------------- MODULE TriggerPoller ---------------------------
(***************************************************************************)
(* The trigger poller of the API server and the trigger service that       *)
(* shares its rows: TriggerPollerService (a dispatcher goroutine and a     *)
(* bounded pool of polling goroutines), TriggerService's Activate, Pause,  *)
(* UpdateConfig and Delete, and the row updates of TriggerRepository.      *)
(*                                                                         *)
(* One step is one database statement (or one exchange with the polled     *)
(* source), so that whatever another goroutine does between two of them    *)
(* is a behaviour of the model.                                            *)
(*                                                                         *)
(* What a trigger watches is a growing list of items 1, 2, 3, ...: the     *)
(* rows of a table in the order of the watermark column, or the messages   *)
(* of a mailbox in UID order.  A position n (lastWatermark, lastUid) says  *)
(* that items 1..n are behind the trigger.  Items appear in that order and *)
(* have distinct positions; see the README for what happens without that.  *)
(***************************************************************************)
EXTENDS Integers, FiniteSets

CONSTANTS
    Triggers,      \* trigger ids
    Kinds,         \* the trigger types to consider
    Workers,       \* identities for the goroutines running pollTrigger
    MaxWorkers,    \* capacity of the workerPool channel
    BatchSize,     \* rows a database poll asks for (LIMIT)
    Requests,      \* identities for API requests in flight
    NoTrigger,     \* the trigger of an idle goroutine or request
    MaxItems,      \* bound: items that ever appear in a source
    MaxRequests,   \* bound: API requests that are ever started
    MaxStops,      \* bound: shutdowns
    MaxMishaps     \* bound: crashes, and writes of the poller that fail

ASSUME PollerAssumption ==
    /\ Kinds \subseteq {"database", "email", "cron", "webhook"}
    /\ IsFiniteSet(Workers)
    /\ MaxWorkers \in Nat \ {0}
    /\ MaxWorkers <= Cardinality(Workers)
    /\ BatchSize \in Nat \ {0}
    /\ MaxItems \in Nat
    /\ MaxRequests \in Nat
    /\ MaxStops \in Nat
    /\ MaxMishaps \in Nat
    /\ NoTrigger \notin Triggers

VARIABLES
    row,        \* the triggers table
    running,    \* executions of each trigger whose record says "running"
    items,      \* number of items in each trigger's source
    disp,       \* where the dispatcher goroutine is
    batch,      \* due triggers of the current round, as dispatchWork read them
    slots,      \* tokens in the workerPool channel
    wg,         \* the WaitGroup counter
    worker,     \* the polling goroutines
    stop,       \* the main goroutine: serving, in Stop, or back from it
    api,        \* requests that have read a trigger and not yet saved it
    ghost,      \* what the properties remember of each trigger
    budget      \* what the bounds count

vars == <<row, running, items, disp, batch, slots, wg, worker, stop, api, ghost, budget>>

Statuses == {"active", "paused", "error"}

RowType == [type : Kinds, status : Statuses, pos : Nat, due : BOOLEAN, deleted : BOOLEAN]

Snapshot == [trig : Triggers, pos : Nat]

PollSteps == {"begin", "poll", "mark", "fail", "finish"}

WorkerType == [step : PollSteps \cup {"idle"}, trig : Triggers \cup {NoTrigger},
               pos : Nat, got : SUBSET Nat]

Idle == [step |-> "idle", trig |-> NoTrigger, pos |-> 0, got |-> {}]

Live == {w \in Workers : worker[w].step # "idle"}

---------------------------------------------------------------------------
(* Initial state: the server starts on triggers that were created (paused) *)
(* or activated before, on sources that are still empty.                   *)

Init ==
    /\ row \in [Triggers -> [type : Kinds, status : {"paused", "active"}, pos : {0},
                             due : {TRUE}, deleted : {FALSE}]]
    /\ running = [t \in Triggers |-> 0]
    /\ items = [t \in Triggers |-> 0]
    /\ disp = "loop"
    /\ batch = {}
    /\ slots = 0
    /\ wg = 0
    /\ worker = [w \in Workers |-> Idle]
    /\ stop = "serving"
    /\ api = [q \in Requests |-> [step |-> "none"]]
    /\ ghost = [t \in Triggers |->
                  [floor |-> 0, fired |-> {}, dropped |-> {}, orphans |-> 0, wanted |-> row[t].status]]
    /\ budget = [requests |-> 0, stops |-> 0, mishaps |-> 0]

---------------------------------------------------------------------------
(* The environment. *)

(* A row is inserted or a message arrives. *)
NewItem(t) ==
    /\ row[t].type \in {"database", "email"}
    /\ items[t] < MaxItems
    /\ items' = [items EXCEPT ![t] = @ + 1]
    /\ UNCHANGED <<row, running, disp, batch, slots, wg, worker, stop, api, ghost, budget>>

(* The polling interval (or the cron schedule) comes round: from here on   *)
(* isDueForPolling answers TRUE for the stored LastPolledAt.               *)
Elapse(t) ==
    /\ ~row[t].due
    /\ row' = [row EXCEPT ![t].due = TRUE]
    /\ UNCHANGED <<running, items, disp, batch, slots, wg, worker, stop, api, ghost, budget>>

(* The goroutines polling for t. *)
LiveOf(t) == {w \in Live : worker[w].trig = t}

(* The process ends, by a crash at any point or because main returned      *)
(* after Stop, and is started again: goroutines, channels and requests are *)
(* gone, the tables stay.                                                  *)
Die ==
    /\ \/ stop = "returned" /\ UNCHANGED budget
       \/ /\ budget.mishaps < MaxMishaps
          /\ budget' = [budget EXCEPT !.mishaps = @ + 1]
    /\ disp' = "loop"
    /\ batch' = {}
    /\ slots' = 0
    /\ wg' = 0
    /\ worker' = [w \in Workers |-> Idle]
    /\ stop' = "serving"
    /\ api' = [q \in Requests |-> [step |-> "none"]]
    /\ ghost' = [t \in Triggers |->
          [ghost[t] EXCEPT
              !.dropped = @ \cup UNION {worker[w].got : w \in {v \in LiveOf(t) : worker[v].step = "finish"}},
              !.orphans = @ + Cardinality({w \in LiveOf(t) : worker[w].step # "begin"})]]
    /\ UNCHANGED <<row, running, items>>

---------------------------------------------------------------------------
(* The dispatcher goroutine. *)

(* FindAllActive and isDueForPolling over its result.  The round works on  *)
(* these copies, whatever happens to the rows meanwhile.                   *)
DueNow == {[trig |-> t, pos |-> row[t].pos] :
             t \in {u \in Triggers : /\ row[u].status = "active"
                                     /\ ~row[u].deleted
                                     /\ row[u].due}}

(* The ticker fires (or the dispatcher starts) and a round begins.  A      *)
(* round that finds nothing due, or whose query fails, changes nothing.    *)
(* The ticker may win the select even after the context is done.           *)
BeginRound ==
    /\ disp = "loop"
    /\ batch = {}
    /\ batch' = DueNow
    /\ UNCHANGED <<row, running, items, disp, slots, wg, worker, stop, api, ghost, budget>>

(* Seeded fault: the poll starts one item early, to be on the safe side. *)
DispatchEarly(s, w) ==
    /\ s \in batch
    /\ slots < MaxWorkers
    /\ worker[w].step = "idle"
    /\ batch' = batch \ {s}
    /\ slots' = slots + 1
    /\ wg' = wg + 1
    /\ worker' = [worker EXCEPT ![w] = [step |-> "begin", trig |-> s.trig, pos |-> s.pos - 1, got |-> {}]]
    /\ UNCHANGED <<row, running, items, disp, stop, api, ghost, budget>>

(* A slot is free: take it, count the goroutine, start it on the copy. *)
Dispatch(s, w) ==
    /\ s \in batch
    /\ slots < MaxWorkers
    /\ worker[w].step = "idle"
    /\ batch' = batch \ {s}
    /\ slots' = slots + 1
    /\ wg' = wg + 1
    /\ worker' = [worker EXCEPT ![w] = [step |-> "begin", trig |-> s.trig, pos |-> s.pos, got |-> {}]]
    /\ UNCHANGED <<row, running, items, disp, stop, api, ghost, budget>>

(* Seeded fault: wg.Add before the slot is known to be free. *)
SkipCounted(s) ==
    /\ s \in batch
    /\ slots >= MaxWorkers
    /\ batch' = batch \ {s}
    /\ wg' = wg + 1
    /\ UNCHANGED <<row, running, items, disp, slots, worker, stop, api, ghost, budget>>

(* No slot is free: the select takes its default branch. *)
Skip(s) ==
    /\ s \in batch
    /\ slots >= MaxWorkers
    /\ batch' = batch \ {s}
    /\ UNCHANGED <<row, running, items, disp, slots, wg, worker, stop, api, ghost, budget>>

(* ctx.Done() wins the select. *)
Quit ==
    /\ disp = "loop"
    /\ batch = {}
    /\ stop # "serving"
    /\ disp' = "stopped"
    /\ UNCHANGED <<row, running, items, batch, slots, wg, worker, stop, api, ghost, budget>>

---------------------------------------------------------------------------
(* Stop, called when main leaves RunWithContext; the process ends once Stop *)
(* has returned (Die).                                                     *)

Cancel ==
    /\ stop = "serving"
    /\ budget.stops < MaxStops
    /\ budget' = [budget EXCEPT !.stops = @ + 1]
    /\ stop' = "waiting"
    /\ UNCHANGED <<row, running, items, disp, batch, slots, wg, worker, api, ghost>>

StopReturn ==
    /\ stop = "waiting"
    /\ wg = 0
    /\ stop' = "returned"
    /\ UNCHANGED <<row, running, items, disp, batch, slots, wg, worker, api, ghost, budget>>

---------------------------------------------------------------------------
(* pollTrigger, in a goroutine w of the pool. *)

(* A write of the poller fails; pollTrigger drops the error and goes on.   *)
Fault ==
    /\ budget.mishaps < MaxMishaps
    /\ budget' = [budget EXCEPT !.mishaps = @ + 1]

(* A scoped UPDATE: it matches no row once the trigger is soft-deleted. *)
WriteRow(t, new) ==
    \/ Fault /\ UNCHANGED row
    \/ /\ row' = IF row[t].deleted THEN row ELSE [row EXCEPT ![t] = new]
       /\ UNCHANGED budget

(* CreateExecution and UpdateLastPolled(startTime). *)
Begin(w) ==
    LET t == worker[w].trig IN
    /\ worker[w].step = "begin"
    /\ worker' = [worker EXCEPT ![w].step = "poll"]
    /\ running' = [running EXCEPT ![t] = @ + 1]
    /\ WriteRow(t, [row[t] EXCEPT !.due = FALSE])
    /\ UNCHANGED <<items, disp, batch, slots, wg, stop, api, ghost>>

(* The items a complete answer to the poll holds.  A table is asked for    *)
(* the first BatchSize rows above the watermark of the copy.  A mailbox is *)
(* searched for UIDs lastUid+1:*, and such a range always contains the     *)
(* last message, whatever its UID (RFC 3501, sequence-set).                *)
Wanted(t, pos) ==
    CASE row[t].type = "database" -> {n \in 1..items[t] : pos < n /\ n <= pos + BatchSize}
      [] row[t].type = "email"    -> {n \in 1..items[t] : pos < n \/ n = items[t]}
      [] OTHER                    -> {}

(* Seeded fault: an answer of one new item is taken for no answer. *)
StepAfterMany(pos, got) == IF \E n \in got : n > pos + 1 THEN "mark" ELSE "finish"

(* What a poll that got `got` does next: the position is written when the  *)
(* source returned rows (database) or messages beyond lastUid (email).     *)
StepAfter(pos, got) == IF \E n \in got : n > pos THEN "mark" ELSE "finish"

(* pollDatabase, pollEmail or pollCron answers with all it was asked for. *)
Poll(w) ==
    LET t == worker[w].trig
        got == Wanted(t, worker[w].pos) IN
    /\ worker[w].step = "poll"
    /\ row[t].type # "webhook"
    /\ worker' = [worker EXCEPT ![w].got = got, ![w].step = StepAfter(worker[w].pos, got)]
    /\ UNCHANGED <<row, running, items, disp, batch, slots, wg, stop, api, ghost, budget>>

(* The connection breaks while results are read: rows.Err and the error of *)
(* the FETCH are not looked at, so what came before counts as the answer.  *)
PollCut(w) ==
    LET t == worker[w].trig IN
    /\ worker[w].step = "poll"
    /\ \E n \in Wanted(t, worker[w].pos) :
         LET got == {m \in Wanted(t, worker[w].pos) : m < n} IN
         worker' = [worker EXCEPT ![w].got = got, ![w].step = StepAfter(worker[w].pos, got)]
    /\ UNCHANGED <<row, running, items, disp, batch, slots, wg, stop, api, ghost, budget>>

(* The poll returns an error: no connection, a failed query, a type that   *)
(* is not polled.                                                          *)
PollError(w) ==
    /\ worker[w].step = "poll"
    /\ row[worker[w].trig].type # "cron"
    /\ worker' = [worker EXCEPT ![w].step = "fail"]
    /\ UNCHANGED <<row, running, items, disp, batch, slots, wg, stop, api, ghost, budget>>

LastOf(got) == CHOOSE n \in got : \A m \in got : m <= n

(* Seeded fault: the position is taken from the source, not from the rows read. *)
MarkAtMax(w) ==
    LET t == worker[w].trig IN
    /\ worker[w].step = "mark"
    /\ worker' = [worker EXCEPT ![w].step = "finish"]
    /\ WriteRow(t, [row[t] EXCEPT !.pos = items[t]])
    /\ UNCHANGED <<running, items, disp, batch, slots, wg, stop, api, ghost>>

(* UpdateWatermark or UpdateEmailUID, before anything is triggered. *)
Mark(w) ==
    LET t == worker[w].trig IN
    /\ worker[w].step = "mark"
    /\ worker' = [worker EXCEPT ![w].step = "finish"]
    /\ WriteRow(t, [row[t] EXCEPT !.pos = LastOf(worker[w].got)])
    /\ UNCHANGED <<running, items, disp, batch, slots, wg, stop, api, ghost>>

(* UpdateStatus(error). *)
Fail(w) ==
    LET t == worker[w].trig IN
    /\ worker[w].step = "fail"
    /\ worker' = [worker EXCEPT ![w].step = "finish"]
    /\ WriteRow(t, [row[t] EXCEPT !.status = "error"])
    /\ UNCHANGED <<running, items, disp, batch, slots, wg, stop, api, ghost>>

(* Seeded fault: the record of a poll without events stays "running". *)
FinishOpen(w) ==
    LET t == worker[w].trig IN
    /\ worker[w].step = "finish"
    /\ worker' = [worker EXCEPT ![w] = Idle]
    /\ ghost' = [ghost EXCEPT ![t].fired = @ \cup worker[w].got]
    /\ running' = [running EXCEPT ![t] = IF worker[w].got = {} THEN @ ELSE @ - 1]
    /\ slots' = slots - 1
    /\ wg' = wg - 1
    /\ UNCHANGED <<row, items, disp, batch, stop, api, budget>>

(* Seeded fault: a poll without events returns without wg.Done. *)
FinishNotDone(w) ==
    LET t == worker[w].trig IN
    /\ worker[w].step = "finish"
    /\ worker' = [worker EXCEPT ![w] = Idle]
    /\ ghost' = [ghost EXCEPT ![t].fired = @ \cup worker[w].got]
    /\ running' = [running EXCEPT ![t] = @ - 1]
    /\ slots' = slots - 1
    /\ wg' = IF worker[w].got = {} THEN wg ELSE wg - 1
    /\ UNCHANGED <<row, items, disp, batch, stop, api, budget>>

(* filterEventsByRules and triggerJobs (which starts the jobs and does not *)
(* wait), UpdateExecution with the final status (its error is dropped too), *)
(* then the deferred release of the slot and of the WaitGroup.  A failed   *)
(* poll got nothing.                                                       *)
Finish(w) ==
    LET t == worker[w].trig IN
    /\ worker[w].step = "finish"
    /\ worker' = [worker EXCEPT ![w] = Idle]
    /\ \/ /\ running' = [running EXCEPT ![t] = @ - 1]
          /\ ghost' = [ghost EXCEPT ![t].fired = @ \cup worker[w].got]
          /\ UNCHANGED budget
       \/ /\ Fault
          /\ ghost' = [ghost EXCEPT ![t].fired = @ \cup worker[w].got, ![t].orphans = @ + 1]
          /\ UNCHANGED running
    /\ slots' = slots - 1
    /\ wg' = wg - 1
    /\ UNCHANGED <<row, items, disp, batch, stop, api>>

---------------------------------------------------------------------------
(* TriggerService.  Activate and UpdateConfig read the whole row, work on  *)
(* it and Save it, every column, at the end.                               *)

StartRequest(q, r) ==
    /\ api[q].step = "none"
    /\ stop = "serving"
    /\ budget.requests < MaxRequests
    /\ ~row[r.trig].deleted
    /\ api' = [api EXCEPT ![q] = r]
    /\ budget' = [budget EXCEPT !.requests = @ + 1]
    /\ UNCHANGED <<row, running, items, disp, batch, slots, wg, worker, stop, ghost>>

ActivateRead(q, t) ==
    StartRequest(q, [step |-> "init", trig |-> t, row |-> row[t], floor |-> ghost[t].floor])

(* initializeWatermark or initializeEmailUID: the position becomes the     *)
(* source's current maximum, unless the source is empty or cannot be       *)
(* reached (which is only logged).                                         *)
ActivateInit(q) ==
    LET t == api[q].trig IN
    /\ api[q].step = "init"
    /\ \/ api' = [api EXCEPT ![q].step = "activate"]
       \/ /\ api[q].row.type \in {"database", "email"}
          /\ items[t] > 0
          /\ api' = [api EXCEPT ![q].step = "activate",
                                ![q].row.pos = items[t],
                                ![q].floor = IF @ < items[t] THEN items[t] ELSE @]
    /\ UNCHANGED <<row, running, items, disp, batch, slots, wg, worker, stop, ghost, budget>>

(* gorm's Save writes every column of the row it is given; when no live    *)
(* row matches it inserts with ON CONFLICT DO UPDATE, so that a trigger    *)
(* deleted since the read is back.                                         *)
Save(q, new, g) ==
    /\ api' = [api EXCEPT ![q] = [step |-> "none"]]
    /\ row' = [row EXCEPT ![api[q].trig] = new]
    /\ ghost' = [ghost EXCEPT ![api[q].trig] = g]
    /\ UNCHANGED <<running, items, disp, batch, slots, wg, worker, stop, budget>>

ActivateSave(q) ==
    LET g == ghost[api[q].trig] IN
    /\ api[q].step = "activate"
    /\ Save(q, [api[q].row EXCEPT !.status = "active"],
             [g EXCEPT !.wanted = "active",
                       !.floor = IF @ < api[q].floor THEN api[q].floor ELSE @])

(* UpdateConfig: the configuration of the request replaces the stored one, *)
(* positions included; the editor of the web client sends none.            *)
ConfigRead(q, t) == StartRequest(q, [step |-> "config", trig |-> t, row |-> row[t]])

ConfigSave(q) ==
    /\ api[q].step = "config"
    /\ Save(q, [api[q].row EXCEPT !.pos = 0], ghost[api[q].trig])

(* Pause: one UPDATE of the status. *)
Pause(t) ==
    /\ stop = "serving"
    /\ budget.requests < MaxRequests
    /\ ~row[t].deleted
    /\ budget' = [budget EXCEPT !.requests = @ + 1]
    /\ row' = [row EXCEPT ![t].status = "paused"]
    /\ ghost' = [ghost EXCEPT ![t].wanted = "paused"]
    /\ UNCHANGED <<running, items, disp, batch, slots, wg, worker, stop, api>>

Delete(t) ==
    /\ stop = "serving"
    /\ budget.requests < MaxRequests
    /\ ~row[t].deleted
    /\ budget' = [budget EXCEPT !.requests = @ + 1]
    /\ row' = [row EXCEPT ![t].deleted = TRUE]
    /\ UNCHANGED <<running, items, disp, batch, slots, wg, worker, stop, api, ghost>>

---------------------------------------------------------------------------
Dispatcher ==
    \/ BeginRound \/ Quit
    \/ \E s \in batch : Skip(s) \/ \E w \in Workers : Dispatch(s, w)

PollTrigger(w) ==
    Begin(w) \/ Poll(w) \/ PollCut(w) \/ PollError(w) \/ Mark(w) \/ Fail(w) \/ Finish(w)

Service ==
    \/ \E t \in Triggers : Pause(t) \/ Delete(t)
    \/ \E q \in Requests :
          \/ ActivateInit(q) \/ ActivateSave(q) \/ ConfigSave(q)
          \/ \E t \in Triggers : ActivateRead(q, t) \/ ConfigRead(q, t)

Next ==
    \/ \E t \in Triggers : NewItem(t) \/ Elapse(t)
    \/ Dispatcher
    \/ \E w \in Workers : PollTrigger(w)
    \/ Service
    \/ Cancel \/ StopReturn \/ Die

Spec == Init /\ [][Next]_vars

(* Goroutines run and statements return: weak fairness for the dispatcher  *)
(* and for each step of a poll.  Go's select picks at random among ready   *)
(* cases, so Quit is not passed over for ever; and for delivery, reading   *)
(* the triggers and the source does not fail every single time.            *)
Fairness ==
    /\ SF_vars(BeginRound) /\ SF_vars(Quit)
    /\ WF_vars(Dispatcher)
    /\ \A w \in Workers : WF_vars(PollTrigger(w)) /\ SF_vars(Poll(w))
    /\ \A t \in Triggers : WF_vars(Elapse(t))
    /\ WF_vars(StopReturn)

FairSpec == Spec /\ Fairness

---------------------------------------------------------------------------
(* Properties. *)

ApiType ==
    [step : {"none"}]
    \cup [step : {"init", "activate"}, trig : Triggers, row : RowType, floor : Nat]
    \cup [step : {"config"}, trig : Triggers, row : RowType]

GhostType == [floor : Nat, fired : SUBSET Nat, dropped : SUBSET Nat, orphans : Nat,
              wanted : {"active", "paused"}]

BudgetType == [requests : Nat, stops : Nat, mishaps : Nat]

(* The shape of the state. *)
TypeOK ==
    /\ row \in [Triggers -> RowType]
    /\ running \in [Triggers -> Int]
    /\ items \in [Triggers -> Nat]
    /\ disp \in {"loop", "stopped"}
    /\ batch \subseteq Snapshot
    /\ slots \in Int
    /\ wg \in Int
    /\ worker \in [Workers -> WorkerType]
    /\ \A w \in Workers : worker[w].step # "idle" => worker[w].trig \in Triggers
    /\ stop \in {"serving", "waiting", "returned"}
    /\ api \in [Requests -> ApiType]
    /\ ghost \in [Triggers -> GhostType]
    /\ budget \in BudgetType

(* The semaphore and the WaitGroup count exactly the goroutines that poll, *)
(* so that no slot leaks and no more than MaxWorkers polls run at a time,  *)
(* across skipped triggers, failed polls and restarts.                     *)
PoolAccounting ==
    /\ slots = Cardinality(Live)
    /\ wg = slots
    /\ slots <= MaxWorkers

(* An item is behind a trigger's stored position only if activation put it *)
(* there, its event was handed to the jobs, a polling goroutine is about   *)
(* to hand it over, or the process died between the write of the position  *)
(* and the hand-over: overlapping polls, stale copies, whole-row saves and *)
(* broken connections may repeat an event, and never skip one.             *)
Accounted(t, n) ==
    \/ n <= ghost[t].floor
    \/ n \in ghost[t].fired
    \/ n \in ghost[t].dropped
    \/ \E w \in Workers : worker[w].step = "finish" /\ worker[w].trig = t /\ n \in worker[w].got

NoItemSkipped ==
    \A t \in Triggers : \A n \in 1..MaxItems : n <= row[t].pos => Accounted(t, n)

(* Execution records that say "running" are those of polls in progress,    *)
(* those a dead process left and those whose last write failed: nothing    *)
(* ever closes the latter two.                                             *)
ExecutionsAccounted ==
    \A t \in Triggers :
        running[t] = Cardinality({w \in LiveOf(t) : worker[w].step # "begin"}) + ghost[t].orphans

(* doc/triggers.md on Pause: "Status set to paused", "Poller stops polling *)
(* this trigger": after a Pause and until the next Activate the trigger is *)
(* not active.                                                             *)
PauseHolds == \A t \in Triggers : ghost[t].wanted = "paused" => row[t].status # "active"

(* trigger_service.go on activation: the trigger "only fires for" events   *)
(* "after activation": what the source held when the position was set is   *)
(* not handed to the jobs afterwards.                                      *)
FiresOnlyNewEvents ==
    [][\A t \in Triggers :
         (ghost'[t].fired \ ghost[t].fired) \cap (1..ghost[t].floor) = {}]_vars

(* Stop "gracefully shuts down the poller": when it has returned, and main *)
(* goes on to end the process, no poll is in progress.                     *)
StopDrains == stop = "returned" => Live = {}

(* What appears in the source of a trigger that stays active is handed to  *)
(* the jobs in the end (or was lost with a process, or skipped by an       *)
(* activation), even if polls overlap and connections break.               *)
Steady(t) == /\ row[t].status = "active" /\ ~row[t].deleted
             /\ row[t].type \in {"database", "email"}
             /\ stop = "serving"

Delivery ==
    \A t \in Triggers : \A n \in 1..MaxItems :
        <>[]Steady(t) => (n <= items[t] ~> n \in ghost[t].fired \cup ghost[t].dropped \cup 1..ghost[t].floor)

(* Stop returns: the dispatcher leaves its loop although the ticker keeps  *)
(* firing, and the polls it had started end.                               *)
StopTerminates == stop = "waiting" ~> stop # "waiting"

=============================================================================
