---------------------------- MODULE AuthSession ----------------------------
(***************************************************************************)
(* The sessions of the web client: the tokens the API issues               *)
(* (user_service.go, jwt.go), the middleware that asks for them, and the   *)
(* client's interceptors and refresh timer that renew them.                *)
(*                                                                         *)
(* An access token and a refresh token are always issued together and      *)
(* stored together, so one number, counted per account, stands for both;   *)
(* the access token lapses first.  The tabs of a browser share its         *)
(* cookies, and each has an interceptor and a timer of its own.  The       *)
(* server keeps one refresh token per account.                             *)
(***************************************************************************)
EXTENDS Integers

CONSTANTS
    Requests,     \* identities of the requests of the client
    Tabs,
    TabOf,        \* the tab of a request
    BrowserOf,    \* the browser of a tab
    AccountOf,    \* the account of a browser
    MaxToken      \* bound: tokens issued to an account

Browsers == {BrowserOf[p] : p \in Tabs}
Accounts == {AccountOf[b] : b \in Browsers}
Exchanges == Requests \cup Tabs

ASSUME SessionAssumption ==
    /\ Requests \cap Tabs = {}
    /\ \A r \in Requests : TabOf[r] \in Tabs
    /\ MaxToken \in Nat

VARIABLES
    account,      \* the users table, and what became of the tokens issued
    jar,          \* the cookies of each browser: the last session, or 0
    request,      \* the requests of the client
    exchange,     \* the calls of /auth: one per request, one per tab
    tab,          \* isRefreshing, and whether a refresh of the tab has failed
    excuse,       \* accounts whose sessions may end (see SessionEndsForAReason)
    budget        \* what the bounds of the scenario leave to be done

sessionVars == <<account, jar, request, exchange, tab, excuse, budget>>

NoRequest == [step |-> "none", token |-> 0, turn |-> "first"]
NoExchange == [step |-> "none", kind |-> "refresh", token |-> 0]

PageOf(x) == IF x \in Tabs THEN x ELSE TabOf[x]
JarOf(x) == BrowserOf[PageOf(x)]
UserOf(x) == AccountOf[JarOf(x)]

SessionInit(scenario) ==
    /\ account = [u \in Accounts |->
          IF u \in scenario.users
          THEN [exists |-> TRUE, refresh |-> 1, issued |-> 1, lapsed |-> {}, stale |-> {}]
          ELSE [exists |-> FALSE, refresh |-> 0, issued |-> 0, lapsed |-> {}, stale |-> {}]]
    /\ jar = [b \in Browsers |-> IF b \in scenario.open THEN 1 ELSE 0]
    /\ request = [r \in Requests |-> NoRequest]
    /\ exchange = [x \in Exchanges |-> NoExchange]
    /\ tab = [p \in Tabs |-> [refreshing |-> FALSE, failed |-> FALSE]]
    /\ excuse = {}
    /\ budget = scenario.budget

Spend(what) == budget[what] > 0 /\ budget' = [budget EXCEPT ![what] = @ - 1]

-----------------------------------------------------------------------------
(* Tokens end. *)

Lapse(u) ==
    /\ Spend("lapse")
    /\ \E n \in 1..account[u].issued : account' = [account EXCEPT ![u].lapsed = @ \cup {n}]
    /\ UNCHANGED <<jar, request, exchange, tab, excuse>>

RefreshLapses(u) ==
    /\ Spend("lapse")
    /\ account[u].lapsed # {}
    /\ account' = [account EXCEPT ![u].stale = account[u].lapsed]
    /\ excuse' = excuse \cup {u}
    /\ UNCHANGED <<jar, request, exchange, tab>>

-----------------------------------------------------------------------------
(* The calls of /auth. *)

\* Another call of /auth for this account is under way.  Two interceptors of
\* one tab are no such pair: isRefreshing is there to prevent it.
Overlaps(x) ==
    \E y \in Exchanges \ {x} :
        /\ exchange[y].step # "none" /\ UserOf(y) = UserOf(x)
        /\ PageOf(y) # PageOf(x) \/ {x, y} \cap Tabs # {}

Post(x, kind) ==
    /\ exchange' = [exchange EXCEPT ![x] =
          [step |-> "posted", kind |-> kind,
           token |-> IF kind = "refresh" THEN jar[JarOf(x)] ELSE 0]]
    /\ excuse' = IF kind # "refresh" \/ Overlaps(x) THEN excuse \cup {UserOf(x)} ELSE excuse

Form(p, kind) ==
    /\ exchange[p].step = "none"
    /\ Spend("form")
    /\ Post(p, kind)
    /\ UNCHANGED <<account, jar, request, tab>>

\* The timer looks every three minutes whether the token is about to lapse.
Timer(p) ==
    /\ exchange[p].step = "none"
    /\ jar[JarOf(p)] # 0 /\ jar[JarOf(p)] \notin account[UserOf(p)].lapsed
    /\ Spend("timer")
    /\ Post(p, "refresh")
    /\ UNCHANGED <<account, jar, request, tab>>

To(x, step) == exchange' = [exchange EXCEPT ![x].step = step]

\* What the service asks of the row before it writes it: RefreshToken that it
\* holds the very token of the call, Login that there is one (and that the
\* password fits), Register that there is none; it inserts one.
Granted(x) ==
    LET row == account[UserOf(x)]
    IN CASE exchange[x].kind = "refresh"  ->
               row.exists /\ row.refresh = exchange[x].token /\ exchange[x].token \notin row.stale
         [] exchange[x].kind = "login"    -> row.exists
         [] exchange[x].kind = "register" -> ~row.exists

Grant(x) ==
    /\ exchange[x].step = "posted"
    /\ Granted(x)
    /\ To(x, "read")
    /\ account' = [account EXCEPT ![UserOf(x)].exists = TRUE]
    /\ UNCHANGED <<jar, request, tab, excuse, budget>>

Refuse(x) ==
    /\ exchange[x].step = "posted"
    /\ ~Granted(x) \/ exchange[x].kind = "login"
    /\ To(x, "refused")
    /\ UNCHANGED <<account, jar, request, tab, excuse, budget>>

\* Seeded fault: the new refresh token is sent and not saved.
IssueUnsaved(x) ==
    LET u == UserOf(x)
    IN /\ exchange[x].step = "read"
       /\ \E n \in {account[u].issued, account[u].issued + 1} \cap (1..MaxToken) :
             /\ n \notin account[u].lapsed
             /\ account' = [account EXCEPT ![u].issued = n]
             /\ exchange' = [exchange EXCEPT ![x].step = "renewed", ![x].token = n]
       /\ UNCHANGED <<jar, request, tab, excuse, budget>>

\* New tokens, and the whole row is saved.  A token is made of its claims, and
\* the times in them are whole seconds: it may equal the last one.
Issue(x) ==
    LET u == UserOf(x)
    IN /\ exchange[x].step = "read"
       /\ \E n \in {account[u].issued, account[u].issued + 1} \cap (1..MaxToken) :
             /\ n \notin account[u].lapsed
             /\ account' = [account EXCEPT ![u].refresh = n, ![u].issued = n]
             /\ exchange' = [exchange EXCEPT ![x].step = "renewed", ![x].token = n]
       /\ UNCHANGED <<jar, request, tab, excuse, budget>>

\* The server fails, or its answer is lost.
Lose(x) ==
    /\ exchange[x].step \in {"posted", "read", "renewed"}
    /\ Spend("lose")
    /\ To(x, "refused")
    /\ excuse' = excuse \cup {UserOf(x)}
    /\ UNCHANGED <<account, jar, request, tab>>

-----------------------------------------------------------------------------
(* The client. *)

\* authInterceptor: the token in the cookies when the request is sent.
Send(r) ==
    /\ request[r].step = "none"
    /\ budget.send[r] > 0 /\ budget' = [budget EXCEPT !.send[r] = @ - 1]
    /\ request' = [request EXCEPT ![r] =
          [step |-> "sent", token |-> jar[JarOf(r)], turn |-> "first"]]
    /\ UNCHANGED <<account, jar, exchange, tab, excuse>>

Accepted(r) == request[r].token \in (1..account[UserOf(r)].issued) \ account[UserOf(r)].lapsed

At(r, step) == request' = [request EXCEPT ![r].step = step]
Forget(r) == request' = [request EXCEPT ![r] = NoRequest]
LogOut(x) == jar' = [jar EXCEPT ![JarOf(x)] = 0]

\* AuthMiddleware lets the request through to a handler.
Admit(r) ==
    /\ request[r].step = "sent"
    /\ Accepted(r)
    /\ At(r, "admitted")
    /\ UNCHANGED <<account, jar, exchange, tab, excuse, budget>>

\* 401.  Only a request sent for the first time comes back to the interceptor;
\* the error of the one that had refreshed ends the session, and that of one
\* that had waited goes to its caller.
Deny(r) ==
    /\ request[r].step = "sent"
    /\ ~Accepted(r)
    /\ CASE request[r].turn = "first"  -> At(r, "denied") /\ UNCHANGED <<jar, excuse>>
         [] request[r].turn = "waited" -> Forget(r) /\ UNCHANGED <<jar, excuse>>
         [] request[r].turn = "own"    ->
              Forget(r) /\ LogOut(r) /\ excuse' = excuse \cup {UserOf(r)}
    /\ UNCHANGED <<account, exchange, tab, budget>>

Renew(r) ==
    /\ At(r, "refreshing")
    /\ tab' = [tab EXCEPT ![TabOf[r]].refreshing = TRUE]
    /\ Post(r, "refresh")
    /\ UNCHANGED <<account, jar, budget>>

\* Seeded fault: a second refresh is started beside the first.
HandleDenialAlone(r) ==
    /\ request[r].step = "denied"
    /\ IF jar[JarOf(r)] = 0
       THEN Forget(r) /\ UNCHANGED <<account, jar, exchange, tab, excuse, budget>>
       ELSE Renew(r)

\* tokenRefreshInterceptor: no refresh token, a refresh under way, or neither.
HandleDenial(r) ==
    /\ request[r].step = "denied"
    /\ IF jar[JarOf(r)] = 0
       THEN Forget(r) /\ UNCHANGED <<account, jar, exchange, tab, excuse, budget>>
       ELSE IF tab[TabOf[r]].refreshing
       THEN At(r, "waiting") /\ UNCHANGED <<account, jar, exchange, tab, excuse, budget>>
       ELSE Renew(r)

Waiting(p) == {r \in Requests : TabOf[r] = p /\ request[r].step = "waiting"}

Again(token, turn) == [step |-> "sent", token |-> token, turn |-> turn]

\* Seeded fault: those that wait are not told.
ResumedAlone(r, token) ==
    [request EXCEPT ![r] = Again(token, "own")]

\* refreshTokenSubject: the one that refreshed and all who wait go again.
Resumed(r, token) ==
    [q \in Requests |->
        IF q = r THEN Again(token, "own")
        ELSE IF q \in Waiting(TabOf[r]) THEN Again(token, "waited") ELSE request[q]]

\* setSession, and for an interceptor's refresh what was held back.
TakeSession(x) ==
    /\ exchange[x].step = "renewed"
    /\ jar' = [jar EXCEPT ![JarOf(x)] = exchange[x].token]
    /\ exchange' = [exchange EXCEPT ![x] = NoExchange]
    /\ IF x \in Requests
       THEN /\ tab' = [tab EXCEPT ![TabOf[x]].refreshing = FALSE]
            /\ request' = Resumed(x, exchange[x].token)
       ELSE UNCHANGED <<tab, request>>
    /\ UNCHANGED <<account, excuse, budget>>

\* A refresh that fails ends the session, in the interceptor and in the timer;
\* nobody tells the requests that wait.  A form shows the error.
TakeRefusal(x) ==
    /\ exchange[x].step = "refused"
    /\ exchange' = [exchange EXCEPT ![x] = NoExchange]
    /\ IF exchange[x].kind = "refresh" THEN LogOut(x) ELSE UNCHANGED jar
    /\ IF x \in Requests
       THEN /\ tab' = [tab EXCEPT ![TabOf[x]] = [refreshing |-> FALSE, failed |-> TRUE]]
            /\ Forget(x)
       ELSE UNCHANGED <<tab, request>>
    /\ UNCHANGED <<account, excuse, budget>>

\* The handler begins, and answers.  Whatever error the request that had
\* refreshed gets when it is sent again, catchError takes it for a failed
\* refresh.
Enter(r) ==
    /\ request[r].step = "admitted"
    /\ At(r, "working")
    /\ UNCHANGED <<account, jar, exchange, tab, excuse, budget>>

Respond(r) ==
    /\ request[r].step \in {"admitted", "working"}
    /\ Forget(r)
    /\ \/ UNCHANGED <<jar, excuse>>
       \/ request[r].turn = "own" /\ LogOut(r) /\ excuse' = excuse \cup {UserOf(r)}
    /\ UNCHANGED <<account, exchange, tab, budget>>

Leave(p) ==
    /\ jar[JarOf(p)] # 0
    /\ Spend("leave")
    /\ LogOut(p)
    /\ UNCHANGED <<account, request, exchange, tab, excuse>>

-----------------------------------------------------------------------------
Serves(x) == Grant(x) \/ Refuse(x) \/ Issue(x) \/ Lose(x)

Client ==
    \/ \E u \in Accounts : Lapse(u) \/ RefreshLapses(u)
    \/ \E p \in Tabs : Timer(p) \/ Leave(p) \/ \E kind \in {"login", "register"} : Form(p, kind)
    \/ \E x \in Exchanges : Serves(x) \/ TakeSession(x) \/ TakeRefusal(x)
    \/ \E r \in Requests : Send(r) \/ Admit(r) \/ Deny(r) \/ HandleDenial(r)

-----------------------------------------------------------------------------
(* Properties. *)

\* The shape of the state; isRefreshing says that one request of the tab is at
\* its refresh, a second one never is, and the server knows every token there is.
SessionsConsistent ==
    /\ \A u \in Accounts : account[u].refresh \in 0..account[u].issued
    /\ \A b \in Browsers : jar[b] \in 0..account[AccountOf[b]].issued
    /\ \A r \in Requests :
          /\ request[r].token \in 0..account[UserOf(r)].issued
          /\ request[r].step \in {"none", "sent", "denied", "waiting", "refreshing",
                                   "admitted", "working"}
          /\ request[r].step = "refreshing" <=> exchange[r].step # "none"
    /\ \A p \in Tabs :
          LET refreshing == {r \in Requests : TabOf[r] = p /\ request[r].step = "refreshing"}
          IN /\ tab[p].refreshing <=> refreshing # {}
             /\ \A q, r \in refreshing : q = r

\* A session ends only if its user leaves or something has happened that may
\* end it: calls of /auth that overlap in different tabs, a timer's among them,
\* a login elsewhere, an answer that was lost, a refresh token that ran out, or
\* an error after a refresh.  The requests of one tab, however many get a 401
\* and in whatever order, do not end it for each other.
SessionEndsForAReason ==
    [][\A b \in Browsers :
          jar[b] # 0 /\ jar'[b] = 0 =>
              AccountOf[b] \in excuse' \/ budget'.leave < budget.leave]_sessionVars

\* A request that waits for a refresh waits for one that is under way, unless
\* a refresh of its tab has failed: then it waits for ever, or for another one.
NobodyWaitsAlone ==
    \A r \in Requests :
        request[r].step = "waiting" => tab[TabOf[r]].refreshing \/ tab[TabOf[r]].failed
=============================================================================
