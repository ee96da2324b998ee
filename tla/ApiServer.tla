----------------------------- MODULE ApiServer -----------------------------
(***************************************************************************)
(* The server and the client together: the requests of TriggerAdmin are    *)
(* those of the client's sessions, one handler for each request that the   *)
(* middleware lets through, while the dispatcher runs its rounds.          *)
(***************************************************************************)
EXTENDS TriggerAdmin, AuthSession

CONSTANT Scenarios   \* [admin, session]: what there is, and how much of each
                     \* kind of step there may be (a bound)

ASSUME ServerAssumption ==
    /\ Callers = Requests
    /\ \A r \in Requests : Who[r] = UserOf(r)
    /\ \A s \in Scenarios : \A b \in s.session.open \cap Browsers :
          /\ AccountOf[b] \in s.session.users
          /\ \A c \in s.session.open \cap Browsers : AccountOf[b] = AccountOf[c] => b = c
    /\ \A s \in Scenarios : s.session.budget \in
          [lapse : Nat, form : Nat, timer : Nat, lose : Nat, leave : Nat, send : [Requests -> Nat]]

Numbered(table) ==
    /\ Cardinality(DOMAIN table) \in Nat
    /\ DOMAIN table = 1..Cardinality(DOMAIN table)

TriggerFields == {"creator", "type", "config", "interval", "status", "last", "deleted"}

\* What the server finds: rows that requests have written, none of them polled
\* before the time begins.
ASSUME ScenarioAssumption == \A s \in Scenarios :
    LET found == s.admin IN
    /\ Numbered(found.triggers) /\ Cardinality(DOMAIN found.triggers) <= MaxTrigger
    /\ \A t \in DOMAIN found.triggers :
          /\ DOMAIN found.triggers[t] = TriggerFields
          /\ found.triggers[t].status \in {"active", "paused", "error"}
          /\ found.triggers[t].last \in {0, Never}
          /\ ValidConfig(found.triggers[t].type, found.triggers[t].config)
          /\ found.triggers[t].interval \in Int
          /\ found.triggers[t].type = "cron" => WellSet(found.triggers[t].config.clock)
    /\ \A r \in DOMAIN found.rules :
          /\ DOMAIN found.rules[r] = {"trig", "conditions", "live"}
          /\ found.rules[r].trig \in DOMAIN found.triggers
    /\ \A l \in DOMAIN found.links :
          found.links[l].trig \in DOMAIN found.triggers /\ found.links[l].job \in found.jobs
    /\ found.jobs \subseteq STRING

vars == <<adminVars, sessionVars>>

Init == \E s \in Scenarios : AdminInit(s.admin) /\ SessionInit(s.session)

\* A handler of trigger_handler.go begins; one request, one handler.
Handle(r) == Enter(r) /\ Begins(r)

\* The handler has returned, or it was one that changes nothing.
Answer(r) == call[r] = Idle /\ Respond(r) /\ UNCHANGED adminVars

Next ==
    \/ \E r \in Requests :
          \/ Handle(r) \/ Answer(r)
          \/ Works(r) /\ UNCHANGED sessionVars
    \/ (Dispatcher \/ Tick \/ \E j \in jobs : DropJob(j)) /\ UNCHANGED sessionVars
    \/ Client /\ UNCHANGED adminVars

Spec == Init /\ [][Next]_vars
=============================================================================
