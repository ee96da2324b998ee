---------------------------- MODULE MCApiServer ----------------------------
(* Two accounts, four tabs in three browsers, and the scenarios: the        *)
(* sessions by themselves, the requests beside rounds of the poller, and    *)
(* each schedule over two months of a short calendar.                       *)
EXTENDS ApiServer

\* Tabs p and q share the browser b1 of user u1; s is u1's other browser, and
\* r belongs to u2.
MCRequests == {"p1", "p2", "q1", "r1", "s1"}
MCTabs == {"p", "q", "r", "s"}
MCTabOf == [p1 |-> "p", p2 |-> "p", q1 |-> "q", r1 |-> "r", s1 |-> "s"]
MCBrowserOf == [p |-> "b1", q |-> "b1", r |-> "b2", s |-> "b3"]
MCAccountOf == [b1 |-> "u1", b2 |-> "u2", b3 |-> "u1"]
MCWho == [p1 |-> "u1", p2 |-> "u1", q1 |-> "u1", r1 |-> "u2", s1 |-> "u1"]

MCMonthLengths == <<4, 3>>

NoClock == [mode |-> "none"]
NoFilter == [from |-> "", to |-> "", subject |-> "", cc |-> {}, attachment |-> "either"]
Config(part) == [part |-> part, complete |-> TRUE, clock |-> NoClock, filter |-> NoFilter]
Cron(when) == [Config("cron") EXCEPT !.clock = when]
Mail == [Config("email") EXCEPT !.filter = [NoFilter EXCEPT !.from = "boss", !.subject = "alert"]]
Table == Config("database")

Every(value, unit) == [mode |-> "interval", value |-> value, unit |-> unit]
Daily(time) == [mode |-> "daily", time |-> time]
Weekly(day, time) == [mode |-> "weekly", day |-> day, time |-> time]
Monthly(day, time) == [mode |-> "monthly", day |-> day, time |-> time]
Clocks ==
    {Every(1, "minutes"), Every(2, "hours"), Every(1, "days")}
    \cup {Daily(time) : time \in {0, 3, 5}}
    \cup {Weekly(day, time) : day \in 0..2, time \in {0, 5}}
    \cup {Monthly(day, time) : day \in {1, 3, 4}, time \in {0, 5}}

MCDrafts == {[type |-> "webhook", config |-> Config("none"), interval |-> 0],
             [type |-> "database", config |-> Mail, interval |-> 1]}
MCConfigs == {Mail, Table}

Text(text) == [text |-> text, num |-> 0, nil |-> FALSE]
Number(text, num) == [text |-> text, num |-> num, nil |-> FALSE]
If(field, operator, value) ==
    [field |-> field, operator |-> operator, value |-> value, list |-> {}]
Big == [all |-> {If("size", "gt", Number("1", 1))}, any |-> {}]
New == [all |-> {If("state", "eq", Text("new"))}, any |-> {}]
Odd == [all |-> {If("state", "exists", Text(""))},
        any |-> {If("size", "lt", Number("1", 1)), If("kind", "notExists", Text("")),
                 [If("state", "in", Text("")) EXCEPT !.list = {Text("old"), Text("new")}],
                 [If("state", "notIn", Text("")) EXCEPT !.list = {Text("old")}],
                 If("state", "contains", Text("ne")), If("state", "neq", Text("old"))}]
MCConditions == {Big, New}

MCFound == {<<"regex", "alert 7", "alert">>, <<"contains", "new", "ne">>}
Letter(from, subject) ==
    [mail |-> [from |-> {from}, to |-> {"us"}, subject |-> subject, cc |-> {}, attachment |-> "no"],
     event |-> [state |-> Text("new"), size |-> Number(subject, 0)]]
Row(state, size) == [event |-> [state |-> Text(state), size |-> Number("n", size)]]
MCSource == [email |-> {Letter("boss", "alert 7"), Letter("boss", "lunch"), Letter("ads", "alert 7")},
             database |-> {Row("new", 2), Row("new", 0), Row("old", 2)}]

Trig(creator, type, config) ==
    [creator |-> creator, type |-> type, config |-> config, interval |-> 1,
     status |-> "active", last |-> Never, deleted |-> FALSE]

\* Nothing happens in a part of the system that a scenario leaves out.
Quiet == [lapse |-> 0, form |-> 0, timer |-> 0, lose |-> 0, leave |-> 0,
          send |-> [r \in MCRequests |-> 0]]
SignedIn(counts) ==
    [users |-> {"u1", "u2"}, open |-> {"b1", "b2"},
     budget |-> [Quiet EXCEPT !.send = [r \in MCRequests |-> IF r \in DOMAIN counts THEN counts[r] ELSE 0]]]
Empty == [triggers |-> << >>, rules |-> << >>, links |-> << >>, jobs |-> {},
          left |-> [tick |-> 0, drop |-> 0]]

\* Every schedule, with a round whenever there may be one.
Scheduling ==
    {[session |-> SignedIn(<< >>),
      admin |-> [Empty EXCEPT !.triggers = <<Trig("u1", "cron", Cron(when))>>,
                              !.links = <<[trig |-> 1, job |-> "j1"]>>, !.jobs = {"j1"},
                              !.left = [tick |-> 72, drop |-> 0]]] : when \in Clocks}

\* Requests of both users while triggers of each kind are polled.
Two(type, config, bounds) ==
    [Empty EXCEPT !.triggers = <<Trig("u1", type, config), Trig("u2", "webhook", Config("none"))>>,
                  !.rules = <<[trig |-> 1, conditions |-> Big, live |-> TRUE],
                              [trig |-> 2, conditions |-> Odd, live |-> FALSE]>>,
                  !.links = <<[trig |-> 1, job |-> "j1"], [trig |-> 2, job |-> "j2"]>>,
                  !.jobs = {"j1", "j2"},
                  !.left = bounds]
Bounds(tick, drop) == [tick |-> tick, drop |-> drop]
Administering ==
    {[session |-> SignedIn([p1 |-> 2]), admin |-> Two("database", Table, Bounds(0, 0))],
     [session |-> SignedIn([p1 |-> 1, r1 |-> 1]), admin |-> Two("database", Table, Bounds(0, 0))],
     [session |-> SignedIn([p1 |-> 1]), admin |-> Two("database", Table, Bounds(1, 1))],
     [session |-> SignedIn([p1 |-> 1]), admin |-> Two("email", Mail, Bounds(1, 0))]}

\* Sessions: two requests and another tab; forms, timers and failures.
Session(counts) ==
    [session |-> [users |-> {"u1"}, open |-> {"b1"}, budget |-> counts], admin |-> Empty]
Sends(counts) == [r \in MCRequests |-> IF r \in DOMAIN counts THEN counts[r] ELSE 0]
Renewing ==
    {Session([Quiet EXCEPT !.lapse = 1, !.send = Sends([p1 |-> 1, q1 |-> 1])]),
     Session([Quiet EXCEPT !.lapse = 2, !.send = Sends([p1 |-> 1, p2 |-> 2])]),
     Session([Quiet EXCEPT !.lapse = 1, !.lose = 1, !.send = Sends([p1 |-> 1, p2 |-> 1])]),
     Session([Quiet EXCEPT !.lapse = 1, !.timer = 1, !.leave = 1, !.send = Sends([p1 |-> 1])]),
     Session([Quiet EXCEPT !.lapse = 2, !.form = 1, !.send = Sends([p1 |-> 1])]),
     [Session([Quiet EXCEPT !.form = 2]) EXCEPT !.session.users = {}, !.session.open = {}]}

MCScenarios == Scheduling \cup Administering \cup Renewing
=============================================================================
