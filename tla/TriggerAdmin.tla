---------------------------- MODULE TriggerAdmin ----------------------------
(***************************************************************************)
(* The rows of the triggers, their rules and their linked jobs: the        *)
(* requests that write them (trigger_handler.go, trigger_service.go,       *)
(* trigger_repo.go) and the rounds of the poller that read them and fire.  *)
(*                                                                         *)
(* One step is one statement of a request or of a round.  TriggerPoller    *)
(* has the inside of a poll, many at a time; here a poll is one step and   *)
(* what matters is when it happens, and what it lets through to which      *)
(* jobs.                                                                   *)
(***************************************************************************)
EXTENDS CronSchedule, TriggerRules, FiniteSets

CONSTANTS
    Callers,      \* identities of requests
    Who,          \* whose request it is
    Drafts,       \* [type, config, interval] of a new trigger
    Configs,      \* configurations a request may bring
    Intervals,    \* polling intervals a request may bring, in minutes
    Conditions,   \* conditions of rules; NoConditions is one of them
    Source,       \* what a polled source may hold: type -> [mail, event]
    MaxTrigger,   \* bounds: rows that are ever inserted
    MaxRule,
    MaxLink,
    MaxLag        \* bound: ticks between the time of a round and a poll of it

ASSUME AdminAssumption ==
    /\ {MaxTrigger, MaxRule, MaxLink, MaxLag} \subseteq Nat
    /\ \A c \in Callers : c \in DOMAIN Who
    /\ Intervals \subseteq Int
    /\ \A draft \in Drafts : draft.interval \in Int
    /\ \A config \in Configs \cup {draft.config : draft \in Drafts} :
          config.part = "cron" => WellSet(config.clock)

VARIABLES
    trigger,      \* rows of trigger, the soft-deleted ones too: id -> row
    rule,         \* rows of trigger_rule, the soft-deleted ones too
    link,         \* live rows of trigger_job: id -> [trig, job]
    jobs,         \* the jobs there are
    serial,       \* the last id each table's sequence gave
    call,         \* what each request is doing
    round,        \* the round of the dispatcher
    clock,        \* the time
    outcome,      \* the last poll of this round: what came in, what it started
    touched,      \* the rows written since the round began
    since,        \* when a trigger was last polled with its row as it is
    left          \* what the bounds of the scenario leave to be done

rows == <<trigger, rule, link, jobs, serial>>
adminVars == <<rows, call, round, clock, outcome, touched, since, left>>

Idle == [step |-> "idle"]
Off == [step |-> "off"]
Nothing == [trig |-> 0, links |-> {}]
NoConditions == [all |-> {}, any |-> {}]

Visible(t) == t \in DOMAIN trigger /\ ~trigger[t].deleted
LiveRules(t) == {r \in DOMAIN rule : rule[r].live /\ rule[r].trig = t}

\* The server finds triggers with their rules and links; nothing is under way.
AdminInit(scenario) ==
    /\ trigger = scenario.triggers
    /\ rule = scenario.rules
    /\ link = scenario.links
    /\ jobs = scenario.jobs
    /\ serial = [trigger |-> Cardinality(DOMAIN trigger), rule |-> Cardinality(DOMAIN rule),
                 link |-> Cardinality(DOMAIN link)]
    /\ call = [c \in Callers |-> Idle]
    /\ round = Off
    /\ clock = 0
    /\ outcome = Nothing
    /\ touched = {}
    /\ since = [t \in 1..MaxTrigger |-> Never]
    /\ left = scenario.left

-----------------------------------------------------------------------------
(* A request. *)

\* A row is inserted, or saved over the one of this id.
Stored(table, id, row) == [i \in DOMAIN table \cup {id} |-> IF i = id THEN row ELSE table[i]]

Touch(what) == touched' = touched \cup what
Return(c) == call' = [call EXCEPT ![c] = Idle]

\* checkAccess: only the creator.
Check(c, t) ==
    /\ call[c] = Idle
    /\ Visible(t) /\ trigger[t].creator = Who[c]
    /\ call' = [call EXCEPT ![c] = [step |-> "checked", trig |-> t]]
    /\ UNCHANGED <<rows, round, clock, outcome, touched, since, left>>

\* Not found, refused by a validation, or a statement failed.
GiveUp(c) ==
    /\ call[c] # Idle
    /\ Return(c)
    /\ UNCHANGED <<rows, round, clock, outcome, touched, since, left>>

\* FindByIDSimple, with which most methods of the service begin.
Find(c) ==
    LET t == call[c].trig
    IN /\ call[c].step = "checked"
       /\ Visible(t)
       /\ call' = [call EXCEPT ![c] = [step |-> "found", trig |-> t, row |-> trigger[t]]]
       /\ UNCHANGED <<rows, round, clock, outcome, touched, since, left>>

\* validateTriggerConfig: the part for the type is there and complete; a
\* webhook needs none.
ValidConfig(type, config) == type = "webhook" \/ (config.part = type /\ config.complete)

\* One UPDATE of a row that is not soft-deleted.
UpdateRow(t, new) ==
    /\ trigger' = IF Visible(t) THEN [trigger EXCEPT ![t] = new] ELSE trigger
    /\ Touch({<<"trigger", t>>})
    /\ UNCHANGED <<rule, link, jobs, serial, round, clock, outcome, since, left>>

\* Save: every column as it was read, last_polled_at too; a row deleted in the
\* meantime is inserted over and is back.
SaveRow(c, new) ==
    LET t == call[c].trig
    IN /\ trigger' = [trigger EXCEPT ![t] = new]
       /\ since' = [since EXCEPT ![t] = Never]
       /\ Touch({<<"trigger", t>>})
       /\ Return(c)
       /\ UNCHANGED <<rule, link, jobs, serial, round, clock, outcome, left>>

\* CreateTrigger and Create: paused, polled every minute unless the request
\* says otherwise.
Create(c) ==
    /\ call[c] = Idle
    /\ serial.trigger < MaxTrigger
    /\ \E draft \in Drafts :
          /\ ValidConfig(draft.type, draft.config)
          /\ trigger' = Stored(trigger, serial.trigger + 1,
                [creator |-> Who[c], type |-> draft.type, config |-> draft.config,
                 interval |-> IF draft.interval = 0 THEN 1 ELSE draft.interval,
                 status |-> "paused", last |-> Never, deleted |-> FALSE])
    /\ serial' = [serial EXCEPT !.trigger = @ + 1]
    /\ Touch({<<"trigger", serial.trigger + 1>>})
    /\ UNCHANGED <<rule, link, jobs, call, round, clock, outcome, since, left>>

\* PatchTrigger and Update.
Patch(c) ==
    LET t == call[c].trig
    IN /\ call[c].step = "found"
       /\ \E minutes \in Intervals : UpdateRow(t, [trigger[t] EXCEPT !.interval = minutes])
       /\ Return(c)

UpdateConfig(c) ==
    /\ call[c].step = "found"
    /\ \E config \in Configs :
          /\ ValidConfig(call[c].row.type, config)
          /\ SaveRow(c, [call[c].row EXCEPT !.config = config])

Activate(c) ==
    /\ call[c].step = "found"
    /\ ValidConfig(call[c].row.type, call[c].row.config)
    /\ SaveRow(c, [call[c].row EXCEPT !.status = "active"])

Pause(c) ==
    LET t == call[c].trig
    IN /\ call[c].step = "checked"
       /\ UpdateRow(t, [trigger[t] EXCEPT !.status = "paused"])
       /\ Return(c)

Delete(c) ==
    LET t == call[c].trig
    IN /\ call[c].step = "found"
       /\ UpdateRow(t, [trigger[t] EXCEPT !.deleted = TRUE])
       /\ Return(c)

-----------------------------------------------------------------------------
(* Rules and links. *)

WriteRule(c, r, row) ==
    /\ rule' = Stored(rule, r, row)
    /\ Touch({<<"rule", r>>})
    /\ Return(c)
    /\ UNCHANGED <<trigger, link, jobs, round, clock, outcome, since, left>>

\* The sequence goes on although the id may be taken (UpdateRule inserts under
\* an id of its own); then the INSERT fails.
AddRule(c) ==
    LET r == serial.rule + 1
    IN /\ call[c].step = "found"
       /\ r <= MaxRule
       /\ serial' = [serial EXCEPT !.rule = r]
       /\ \E conditions \in Conditions :
             WriteRule(c, r, IF r \in DOMAIN rule THEN rule[r]
                             ELSE [trig |-> call[c].trig, conditions |-> conditions, live |-> TRUE])

\* Save of a rule made of the two ids of the URL and what the request brings,
\* no conditions when it only renames: whichever trigger's rule it was, and if
\* there was none or it was deleted.
UpdateRule(c) ==
    /\ call[c].step = "checked"
    /\ \E r \in 1..MaxRule, conditions \in Conditions \cup {NoConditions} :
          WriteRule(c, r, [trig |-> call[c].trig, conditions |-> conditions, live |-> TRUE])
    /\ UNCHANGED serial

\* Any rule of that id, of whichever trigger.
DeleteRule(c) ==
    /\ call[c].step = "checked"
    /\ \E r \in DOMAIN rule : WriteRule(c, r, [rule[r] EXCEPT !.live = FALSE])
    /\ UNCHANGED serial

\* LinkJob asks the job service for the job, anybody's, and then inserts.
FindJob(c) ==
    /\ call[c].step = "found"
    /\ \E j \in jobs :
          call' = [call EXCEPT ![c] = [step |-> "linking", trig |-> call[c].trig, job |-> j]]
    /\ UNCHANGED <<rows, round, clock, outcome, touched, since, left>>

Insert(c) ==
    LET l == serial.link + 1
    IN /\ call[c].step = "linking"
       /\ l <= MaxLink
       /\ link' = Stored(link, l, [trig |-> call[c].trig, job |-> call[c].job])
       /\ serial' = [serial EXCEPT !.link = l]
       /\ Touch({<<"link", l>>})
       /\ Return(c)
       /\ UNCHANGED <<trigger, rule, jobs, round, clock, outcome, since, left>>

\* Seeded fault: no foreign key, and what FindJob saw is believed.
InsertUnchecked(c) == Insert(c)

\* The foreign key refuses a job that is gone; nothing refuses a second link.
InsertLink(c) == call[c].step = "linking" /\ call[c].job \in jobs /\ Insert(c)

DropLinks(gone) ==
    /\ link' = [l \in DOMAIN link \ gone |-> link[l]]
    /\ Touch({<<"link", l>> : l \in gone})

UnlinkJob(c) ==
    /\ call[c].step = "checked"
    /\ \E j \in jobs :
          DropLinks({l \in DOMAIN link : link[l].trig = call[c].trig /\ link[l].job = j})
    /\ Return(c)
    /\ UNCHANGED <<trigger, rule, jobs, serial, round, clock, outcome, since, left>>

\* The job service deletes a job; its links go with it.
DropJob(j) ==
    /\ left.drop > 0 /\ left' = [left EXCEPT !.drop = @ - 1]
    /\ jobs' = jobs \ {j}
    /\ DropLinks({l \in DOMAIN link : link[l].job = j})
    /\ UNCHANGED <<trigger, rule, serial, call, round, clock, outcome, since>>

-----------------------------------------------------------------------------
(* A round of the dispatcher. *)

\* The clock of a trigger that is no cron trigger is its polling interval.
ClockOf(row) ==
    IF row.type = "cron" THEN row.config.clock
    ELSE [mode |-> "polled", value |-> row.interval, unit |-> "minutes"]

Tick ==
    /\ left.tick > 0 /\ left' = [left EXCEPT !.tick = @ - 1]
    /\ round.step = "poll" => clock < round.at + MaxLag
    /\ clock' = clock + 1
    /\ UNCHANGED <<rows, call, round, outcome, touched, since>>

\* FindAllActive is three statements: the triggers, their rules, their links.
ReadTriggers ==
    LET active == {t \in DOMAIN trigger : Visible(t) /\ trigger[t].status = "active"}
    IN /\ round = Off
       /\ active # {}
       /\ round' = [step |-> "rules", seen |-> [t \in active |-> trigger[t]]]
       /\ outcome' = Nothing
       /\ touched' = {}
       /\ UNCHANGED <<rows, call, clock, since, left>>

ReadRules ==
    /\ round.step = "rules"
    /\ round' = [step |-> "links", seen |-> round.seen,
                 rules |-> [t \in DOMAIN round.seen |->
                               {rule[r].conditions : r \in LiveRules(t)}]]
    /\ UNCHANGED <<rows, call, clock, outcome, touched, since, left>>

\* The links, and then the time of the round.
ReadLinks ==
    /\ round.step = "links"
    /\ round' = [step |-> "poll", seen |-> round.seen, rules |-> round.rules,
                 links |-> [t \in DOMAIN round.seen |->
                               {l \in DOMAIN link : link[l].trig = t}],
                 at |-> clock, todo |-> DOMAIN round.seen]
    /\ UNCHANGED <<rows, call, clock, outcome, touched, since, left>>

Done(t) ==
    round' = IF round.todo = {t} THEN Off ELSE [round EXCEPT !.todo = @ \ {t}]

IsDue(t) == Due(ClockOf(round.seen[t]), round.seen[t].last, round.at)

Skip(t) ==
    /\ round.step = "poll" /\ t \in round.todo
    /\ ~IsDue(t)
    /\ Done(t)
    /\ UNCHANGED <<rows, call, clock, outcome, touched, since, left>>

\* The event pollCron makes up.
CronEvent(config) ==
    [mode |-> [text |-> config.clock.mode, num |-> 0, nil |-> FALSE]]

\* What the poll of a trigger may bring: messages pass the filters first.
Incoming(row) ==
    CASE row.type = "cron"  -> {CronEvent(row.config)}
      [] row.type = "email" -> {item.event : item \in
             {item \in Source.email : EmailMatchesFilters(item.mail, row.config.filter)}}
      [] row.type = "database" -> {item.event : item \in Source.database}
      [] OTHER -> {}

\* UpdateLastPolled and what else the poll writes into the row, if it is there.
Polled(t, status) ==
    /\ round.step = "poll" /\ t \in round.todo
    /\ IsDue(t)
    /\ Done(t)
    /\ trigger' = IF Visible(t)
                  THEN [trigger EXCEPT ![t].last = clock,
                                       ![t].status = IF status = "" THEN @ ELSE status]
                  ELSE trigger
    /\ since' = [since EXCEPT ![t] = clock]
    /\ UNCHANGED <<rule, link, jobs, serial, call, clock, touched, left>>

\* The links of the round's copy are started for an event that passes the
\* rules of the copy: triggerJobs.
Poll(t) ==
    /\ Polled(t, "")
    /\ \E event \in Incoming(round.seen[t]) :
          outcome' = [trig |-> t, event |-> event,
                      links |-> IF EventMatchesRules(event, round.rules[t])
                                THEN round.links[t] ELSE {}]

PollNothing(t) ==
    /\ Polled(t, "")
    /\ round.seen[t].type \in {"database", "email"}
    /\ outcome' = Nothing

PollFails(t) ==
    /\ Polled(t, "error")
    /\ round.seen[t].type # "cron"
    /\ outcome' = Nothing

-----------------------------------------------------------------------------
Begins(c) == Create(c) \/ \E t \in DOMAIN trigger : Check(c, t)

Works(c) ==
    \/ Find(c) \/ Patch(c) \/ UpdateConfig(c) \/ Activate(c) \/ Pause(c) \/ Delete(c)
    \/ AddRule(c) \/ UpdateRule(c) \/ DeleteRule(c)
    \/ FindJob(c) \/ InsertLink(c) \/ UnlinkJob(c) \/ GiveUp(c)

Dispatcher ==
    \/ ReadTriggers \/ ReadRules \/ ReadLinks
    \/ round.step = "poll" /\ \E t \in round.todo :
          Skip(t) \/ Poll(t) \/ PollNothing(t) \/ PollFails(t)

-----------------------------------------------------------------------------
(* Properties. *)

CallType ==
    {Idle} \cup [step : {"checked"}, trig : DOMAIN trigger]
    \cup [step : {"linking"}, trig : DOMAIN trigger, job : STRING]

\* The shape of the rows, and what the database's foreign keys and the
\* validation of configurations keep true of them: rules and links belong to a
\* trigger, links to a job there is, and no trigger has a configuration it
\* could not be activated with.
RowsConsistent ==
    /\ DOMAIN trigger = 1..serial.trigger
    /\ \A t \in DOMAIN trigger :
          /\ trigger[t].status \in {"active", "paused", "error"}
          /\ trigger[t].last \in 0..clock \cup {Never}
          /\ ValidConfig(trigger[t].type, trigger[t].config)
    /\ \A r \in DOMAIN rule : rule[r].trig \in DOMAIN trigger
    /\ \A l \in DOMAIN link : link[l].trig \in DOMAIN trigger /\ link[l].job \in jobs
    /\ \A c \in Callers : call[c].step = "found" \/ call[c] \in CallType
    /\ round.step = "poll" => round.todo # {} /\ round.todo \subseteq DOMAIN round.seen

Steady(kind, id) == <<kind, id>> \notin touched

Accepts(t, event) == \A r \in LiveRules(t) : EventMatchesRule(event, rule[r].conditions)

\* An event starts jobs only if every rule of the trigger lets it pass, and if
\* they all do it starts each of the links, although the round reads triggers,
\* rules and links one after the other while requests write them: what has not
\* been written since the round began is obeyed.
FiresByTheRules ==
    outcome # Nothing =>
        LET t == outcome.trig IN
        /\ outcome.links # {} =>
              \A r \in LiveRules(t) :
                  Steady("rule", r) => EventMatchesRule(outcome.event, rule[r].conditions)
        /\ \A l \in outcome.links :
              Steady("link", l) => l \in DOMAIN link /\ link[l].trig = t
        /\ (\A r \in DOMAIN rule : Steady("rule", r)) /\ Accepts(t, outcome.event) =>
              \A l \in DOMAIN link :
                  link[l].trig = t /\ Steady("link", l) => l \in outcome.links

\* The moments a schedule still answers for at the time of a round: those of
\* the day, of the month for a monthly one.
StillOwed(cron, at) ==
    LET from == IF cron.mode = "monthly" THEN MonthStart[MonthOf(at)] ELSE DayOf(at)
    IN {s \in (from * DayLength)..(at - 1) : Instant(cron, s)}

\* When a round is done with a trigger that has a schedule, no moment of the
\* schedule that it still owes is left without a poll, however long the server
\* was down and whatever the calendar; a poll less than a minute early counts.
ScheduleKept ==
    [][\A t \in DOMAIN trigger :
          LET row == round.seen[t] IN
          /\ round.step = "poll" /\ t \in round.todo
          /\ ~(round'.step = "poll" /\ t \in round'.todo)
          /\ Scheduled(ClockOf(row)) /\ Steady("trigger", t)
          => \A s \in StillOwed(ClockOf(row), round.at) : Served(trigger'[t].last, s)]_adminVars

\* Between two polls of a trigger there is a moment of its schedule, or its
\* interval has gone by: a trigger does not fire twice for one moment, unless
\* a request saved an older copy of its row over it.
OncePerInstant ==
    [][\A t \in DOMAIN trigger :
          since[t] # Never /\ since'[t] \notin {since[t], Never} =>
              LET cron == ClockOf(round.seen[t])
              IN IF Scheduled(cron) THEN \E s \in (since[t] + 1)..(since'[t] - 1) : Instant(cron, s)
                 ELSE since'[t] > since[t] + Interval(cron)]_adminVars
=============================================================================
