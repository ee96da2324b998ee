-------------------------- MODULE ApiServer_proofs --------------------------
(***************************************************************************)
(* Theorems about ApiServer: its sessions, for any sets of requests, tabs, *)
(* browsers and accounts, any scenarios and any number of tokens; and, in  *)
(* the second part, its triggers.                                          *)
(***************************************************************************)
EXTENDS ApiServer, DataLemmas

RequestSteps == {"none", "sent", "denied", "waiting", "refreshing", "admitted", "working"}
ExchangeSteps == {"none", "posted", "read", "renewed", "refused"}

AccountType == [exists : BOOLEAN, refresh : Nat, issued : Nat,
                lapsed : SUBSET Nat, stale : SUBSET Nat]
RequestType == [step : RequestSteps, token : Nat, turn : {"first", "waited", "own"}]
ExchangeType == [step : ExchangeSteps, kind : {"refresh", "login", "register"}, token : Nat]
TabType == [refreshing : BOOLEAN, failed : BOOLEAN]

(* What has which shape. *)
SessionType ==
    /\ account \in [Accounts -> AccountType]
    /\ jar \in [Browsers -> Nat]
    /\ request \in [Requests -> RequestType]
    /\ exchange \in [Exchanges -> ExchangeType]
    /\ tab \in [Tabs -> TabType]

(* Wherever a token is, the server has issued it. *)
TokensIssued ==
    /\ \A u \in Accounts : account[u].refresh <= account[u].issued
    /\ \A b \in Browsers : jar[b] <= account[AccountOf[b]].issued
    /\ \A r \in Requests : request[r].token <= account[UserOf(r)].issued
    /\ \A x \in Exchanges : exchange[x].token <= account[UserOf(x)].issued

Refreshing(r) == request[r].step = "refreshing"

(* isRefreshing is true while one request of the tab has a refresh under way, *)
(* and that request is the only one.                                          *)
OneRefresh ==
    /\ \A r \in Requests : Refreshing(r) <=> exchange[r].step # "none"
    /\ \A r \in Requests : Refreshing(r) => tab[TabOf[r]].refreshing
    /\ \A p \in Tabs : tab[p].refreshing => \E r \in Requests : TabOf[r] = p /\ Refreshing(r)
    /\ \A q, r \in Requests : Refreshing(q) /\ Refreshing(r) /\ TabOf[q] = TabOf[r] => q = r

SessionInv == SessionType /\ TokensIssued /\ OneRefresh /\ NobodyWaitsAlone

(* The steps of the sessions, whatever else the server does with them. *)
SessionStep ==
    \/ \E u \in Accounts : Lapse(u) \/ RefreshLapses(u)
    \/ \E p \in Tabs : Timer(p) \/ Leave(p) \/ \E kind \in {"login", "register"} : Form(p, kind)
    \/ \E x \in Exchanges : Serves(x) \/ TakeSession(x) \/ TakeRefusal(x)
    \/ \E r \in Requests :
          Send(r) \/ Admit(r) \/ Deny(r) \/ HandleDenial(r) \/ Enter(r) \/ Respond(r)

-----------------------------------------------------------------------------
(* Where a request or a tab belongs. *)
LEMMA Places ==
    /\ \A r \in Requests : TabOf[r] \in Tabs /\ r \notin Tabs /\ r \in Exchanges
    /\ \A p \in Tabs : p \notin Requests /\ p \in Exchanges
    /\ \A x \in Exchanges : PageOf(x) \in Tabs /\ JarOf(x) \in Browsers /\ UserOf(x) \in Accounts
    /\ \A b \in Browsers : AccountOf[b] \in Accounts
    /\ \A x \in Exchanges : UserOf(x) = AccountOf[JarOf(x)]
<1>1. \A r \in Requests : TabOf[r] \in Tabs /\ r \notin Tabs /\ r \in Exchanges
  BY SessionAssumption DEF Exchanges
<1>2. \A p \in Tabs : p \notin Requests /\ p \in Exchanges
  BY SessionAssumption DEF Exchanges
<1>3. \A b \in Browsers : AccountOf[b] \in Accounts
  BY DEF Accounts
<1>4. \A x \in Exchanges : PageOf(x) \in Tabs
  BY <1>1 DEF PageOf, Exchanges
<1>5. \A x \in Exchanges : JarOf(x) \in Browsers
  BY <1>4 DEF JarOf, Browsers
<1> QED BY <1>1, <1>2, <1>3, <1>4, <1>5 DEF UserOf

(* A step of the server is one of the sessions or leaves them as they are. *)
LEMMA StepsOfSessions ==
    ASSUME [Next]_vars
    PROVE  SessionStep \/ UNCHANGED sessionVars
<1>1. CASE UNCHANGED vars
  BY <1>1 DEF vars
<1>2. ASSUME NEW r \in Requests, Handle(r) PROVE SessionStep
  BY <1>2 DEF Handle, SessionStep
<1>3. ASSUME NEW r \in Requests, Answer(r) PROVE SessionStep
  BY <1>3 DEF Answer, SessionStep
<1>4. CASE Client
  BY <1>4 DEF Client, SessionStep
<1> QED BY <1>1, <1>2, <1>3, <1>4 DEF Next

-----------------------------------------------------------------------------
(* The initial states. *)
LEMMA SessionInvInit == Init => SessionInv
<1> SUFFICES ASSUME Init PROVE SessionInv
  OBVIOUS
<1>1. PICK s \in Scenarios : SessionInit(s.session)
  BY DEF Init
<1>2. \A b \in s.session.open \cap Browsers : AccountOf[b] \in s.session.users
  BY ServerAssumption
<1>3. SessionType
  <2>1. account \in [Accounts -> AccountType]
    BY <1>1 DEF SessionInit, AccountType
  <2>2. jar \in [Browsers -> Nat] /\ tab \in [Tabs -> TabType]
    BY <1>1 DEF SessionInit, TabType
  <2>3. request \in [Requests -> RequestType]
    BY <1>1 DEF SessionInit, NoRequest, RequestSteps, RequestType
  <2>4. exchange \in [Exchanges -> ExchangeType]
    BY <1>1 DEF SessionInit, NoExchange, ExchangeSteps, ExchangeType
  <2> QED BY <2>1, <2>2, <2>3, <2>4 DEF SessionType
<1>4. TokensIssued
  <2>1. \A u \in Accounts : account[u].refresh <= account[u].issued
    BY <1>1 DEF SessionInit
  <2>2. \A b \in Browsers : jar[b] <= account[AccountOf[b]].issued
    <3> TAKE b \in Browsers
    <3>1. AccountOf[b] \in Accounts
      BY Places
    <3>2. CASE b \in s.session.open
      BY <1>1, <1>2, <3>1, <3>2 DEF SessionInit
    <3>3. CASE b \notin s.session.open
      BY <1>1, <3>1, <3>3 DEF SessionInit
    <3> QED BY <3>2, <3>3
  <2>3. \A u \in Accounts : 0 <= account[u].issued
    BY <1>1 DEF SessionInit
  <2>4. /\ \A r \in Requests : request[r].token <= account[UserOf(r)].issued
        /\ \A x \in Exchanges : exchange[x].token <= account[UserOf(x)].issued
    BY <1>1, <2>3, Places DEF SessionInit, NoRequest, NoExchange
  <2> QED BY <2>1, <2>2, <2>4 DEF TokensIssued
<1>5. OneRefresh
  BY <1>1, Places DEF SessionInit, OneRefresh, Refreshing, NoRequest, NoExchange
<1>6. NobodyWaitsAlone
  BY <1>1 DEF SessionInit, NobodyWaitsAlone, NoRequest
<1> QED BY <1>3, <1>4, <1>5, <1>6 DEF SessionInv

-----------------------------------------------------------------------------
(* How the small operators change a request or a call of /auth. *)
RequestBecomes(r, step, token) ==
    /\ request' \in [Requests -> RequestType]
    /\ request'[r].step = step /\ request'[r].token = token
    /\ \A q \in Requests \ {r} : request'[q] = request[q]

ExchangeBecomes(x, step, token) ==
    /\ exchange' \in [Exchanges -> ExchangeType]
    /\ exchange'[x].step = step /\ exchange'[x].token = token
    /\ \A y \in Exchanges \ {x} : exchange'[y] = exchange[y]

(* A request takes its next step and keeps its token. *)
LEMMA AtMoves ==
    ASSUME SessionType, NEW r \in Requests, NEW step \in RequestSteps, At(r, step)
    PROVE  RequestBecomes(r, step, request[r].token)
<1> DEFINE new == [request[r] EXCEPT !.step = step]
<1>1. request[r] \in RequestType
  BY DEF SessionType
<1>2. new \in RequestType /\ new.step = step /\ new.token = request[r].token
  BY <1>1 DEF RequestType
<1>3. request' = [request EXCEPT ![r] = new]
  BY DEF At
<1> HIDE DEF new
<1> QED BY <1>2, <1>3 DEF RequestBecomes, SessionType

(* A request that is over holds nothing. *)
LEMMA ForgetMoves ==
    ASSUME SessionType, NEW r \in Requests, Forget(r)
    PROVE  RequestBecomes(r, "none", 0)
<1>1. NoRequest \in RequestType /\ NoRequest.step = "none" /\ NoRequest.token = 0
  BY DEF NoRequest, RequestType, RequestSteps
<1> QED BY <1>1 DEF Forget, RequestBecomes, SessionType

(* A call of a session takes its next step and keeps its token. *)
LEMMA ToMoves ==
    ASSUME SessionType, NEW x \in Exchanges, NEW step \in ExchangeSteps, To(x, step)
    PROVE  ExchangeBecomes(x, step, exchange[x].token)
<1> DEFINE new == [exchange[x] EXCEPT !.step = step]
<1>1. exchange[x] \in ExchangeType
  BY DEF SessionType
<1>2. new \in ExchangeType /\ new.step = step /\ new.token = exchange[x].token
  BY <1>1 DEF ExchangeType
<1>3. exchange' = [exchange EXCEPT ![x] = new]
  BY DEF To
<1> HIDE DEF new
<1> QED BY <1>2, <1>3 DEF ExchangeBecomes, SessionType

(* A call that is sent carries the token of the jar if it is a refresh. *)
LEMMA PostMoves ==
    ASSUME SessionType, NEW x \in Exchanges,
           NEW kind \in {"refresh", "login", "register"}, Post(x, kind)
    PROVE  ExchangeBecomes(x, "posted", IF kind = "refresh" THEN jar[JarOf(x)] ELSE 0)
<1> DEFINE token == IF kind = "refresh" THEN jar[JarOf(x)] ELSE 0
           new == [step |-> "posted", kind |-> kind, token |-> token]
<1>1. token \in Nat
  BY Places DEF SessionType
<1>2. new \in ExchangeType /\ new.step = "posted" /\ new.token = token
  BY <1>1 DEF ExchangeType, ExchangeSteps
<1>3. exchange' = [exchange EXCEPT ![x] = new]
  BY DEF Post
<1> HIDE DEF new, token
<1>4. ExchangeBecomes(x, "posted", token)
  BY <1>2, <1>3 DEF ExchangeBecomes, SessionType
<1> QED BY <1>4 DEF token

(* A call that is over holds nothing. *)
LEMMA DoneMoves ==
    ASSUME SessionType, NEW x \in Exchanges, exchange' = [exchange EXCEPT ![x] = NoExchange]
    PROVE  ExchangeBecomes(x, "none", 0)
<1>1. NoExchange \in ExchangeType /\ NoExchange.step = "none" /\ NoExchange.token = 0
  BY DEF NoExchange, ExchangeType, ExchangeSteps
<1> QED BY <1>1 DEF ExchangeBecomes, SessionType

-----------------------------------------------------------------------------
(* A step that moves no request into or out of a refresh, nor into waiting. *)
Quiet ==
    /\ UNCHANGED tab
    /\ \A r \in Requests :
          /\ Refreshing(r)' <=> Refreshing(r)
          /\ request'[r].step = "waiting" => request[r].step = "waiting"
          /\ exchange'[r].step # "none" <=> exchange[r].step # "none"

(* Steps that neither begin nor end a refresh keep the order of refreshes. *)
LEMMA QuietSteps ==
    ASSUME SessionInv, Quiet
    PROVE  OneRefresh' /\ NobodyWaitsAlone'
<1>1. OneRefresh'
  BY DEF SessionInv, Quiet, OneRefresh
<1>2. NobodyWaitsAlone'
  BY DEF SessionInv, Quiet, NobodyWaitsAlone
<1> QED BY <1>1, <1>2

(* A token moves: all that counts is where it came from. *)
LEMMA TokensMove ==
    ASSUME TokensIssued,
           SessionType, SessionType',
           \A u \in Accounts : /\ account'[u].refresh <= account'[u].issued
                               /\ account[u].issued <= account'[u].issued,
           \A b \in Browsers : \/ jar'[b] = jar[b]
                               \/ jar'[b] <= account'[AccountOf[b]].issued,
           \A r \in Requests : \/ request'[r].token = request[r].token
                               \/ request'[r].token <= account'[UserOf(r)].issued,
           \A x \in Exchanges : \/ exchange'[x].token = exchange[x].token
                                \/ exchange'[x].token <= account'[UserOf(x)].issued
    PROVE  TokensIssued'
<1>0. \A u \in Accounts : account[u].issued \in Nat /\ account'[u].issued \in Nat
  BY DEF SessionType, AccountType
<1> USE <1>0
<1>1. ASSUME NEW b \in Browsers PROVE jar'[b] <= account'[AccountOf[b]].issued
  <2>1. jar[b] \in Nat /\ AccountOf[b] \in Accounts /\ jar[b] <= account[AccountOf[b]].issued
    BY Places DEF TokensIssued, SessionType
  <2> QED BY <2>1
<1>2. ASSUME NEW r \in Requests PROVE request'[r].token <= account'[UserOf(r)].issued
  <2>1. request[r].token \in Nat /\ UserOf(r) \in Accounts
        /\ request[r].token <= account[UserOf(r)].issued
    BY Places DEF TokensIssued, SessionType, RequestType
  <2> QED BY <2>1
<1>3. ASSUME NEW x \in Exchanges PROVE exchange'[x].token <= account'[UserOf(x)].issued
  <2>1. exchange[x].token \in Nat /\ UserOf(x) \in Accounts
        /\ exchange[x].token <= account[UserOf(x)].issued
    BY Places DEF TokensIssued, SessionType, ExchangeType
  <2> QED BY <2>1
<1> QED BY <1>1, <1>2, <1>3 DEF TokensIssued

(* A token was issued as long as what moves carries an issued one. *)
LEMMA TokensStay ==
    ASSUME SessionInv, SessionType', UNCHANGED account,
           \A b \in Browsers : \/ jar'[b] = jar[b]
                               \/ jar'[b] <= account'[AccountOf[b]].issued,
           \A r \in Requests : \/ request'[r].token = request[r].token
                               \/ request'[r].token <= account'[UserOf(r)].issued,
           \A x \in Exchanges : \/ exchange'[x].token = exchange[x].token
                                \/ exchange'[x].token <= account'[UserOf(x)].issued
    PROVE  TokensIssued'
<1>1. \A u \in Accounts : /\ account'[u].refresh <= account'[u].issued
                          /\ account[u].issued <= account'[u].issued
  BY DEF SessionInv, SessionType, AccountType, TokensIssued
<1> QED BY <1>1, TokensMove DEF SessionInv

-----------------------------------------------------------------------------
(* Tokens end. *)
LEMMA LapseKeeps ==
    ASSUME SessionInv, NEW u \in Accounts, Lapse(u) \/ RefreshLapses(u)
    PROVE  SessionInv'
<1>1. PICK new \in AccountType :
        /\ account' = [account EXCEPT ![u] = new]
        /\ new.refresh = account[u].refresh /\ new.issued = account[u].issued
  <2>0. account[u] \in AccountType
    BY DEF SessionInv, SessionType
  <2>1. CASE Lapse(u)
    <3>1. PICK n \in 1..account[u].issued :
            account' = [account EXCEPT ![u].lapsed = @ \cup {n}]
      BY <2>1 DEF Lapse
    <3> DEFINE new == [account[u] EXCEPT !.lapsed = @ \cup {n}]
    <3>2. /\ new \in AccountType
          /\ new.refresh = account[u].refresh /\ new.issued = account[u].issued
      BY <2>0 DEF AccountType
    <3>3. account' = [account EXCEPT ![u] = new]
      BY <3>1
    <3> QED BY <3>2, <3>3
  <2>2. CASE RefreshLapses(u)
    <3> DEFINE new == [account[u] EXCEPT !.stale = account[u].lapsed]
    <3>1. /\ new \in AccountType
          /\ new.refresh = account[u].refresh /\ new.issued = account[u].issued
      BY <2>0 DEF AccountType
    <3>2. account' = [account EXCEPT ![u] = new]
      BY <2>2 DEF RefreshLapses
    <3> QED BY <3>1, <3>2
  <2> QED BY <2>1, <2>2
<1>2. UNCHANGED <<jar, request, exchange, tab>>
  BY DEF Lapse, RefreshLapses
<1>3. SessionType'
  BY <1>1, <1>2 DEF SessionInv, SessionType
<1>4. \A v \in Accounts : account'[v].refresh = account[v].refresh
                          /\ account'[v].issued = account[v].issued
  BY <1>1 DEF SessionInv, SessionType
<1>5. \A v \in Accounts : /\ account'[v].refresh <= account'[v].issued
                          /\ account[v].issued <= account'[v].issued
  BY <1>4 DEF SessionInv, SessionType, AccountType, TokensIssued
<1>6. TokensIssued'
  BY <1>2, <1>3, <1>5, TokensMove DEF SessionInv
<1>7. Quiet
  BY <1>2 DEF Quiet, Refreshing
<1> QED BY <1>3, <1>6, <1>7, QuietSteps DEF SessionInv

-----------------------------------------------------------------------------
(* The calls of /auth. *)

(* A tab is no request: its call is none that isRefreshing stands for. *)
LEMMA FormKeeps ==
    ASSUME SessionInv, NEW p \in Tabs, NEW kind \in {"refresh", "login", "register"},
           Post(p, kind), UNCHANGED <<account, jar, request, tab>>
    PROVE  SessionInv'
<1>1. p \in Exchanges /\ p \notin Requests /\ JarOf(p) \in Browsers
      /\ UserOf(p) = AccountOf[JarOf(p)] /\ UserOf(p) \in Accounts
  BY Places
<1> DEFINE token == IF kind = "refresh" THEN jar[JarOf(p)] ELSE 0
<1>2. ExchangeBecomes(p, "posted", token)
  BY <1>1, PostMoves DEF SessionInv
<1>3. token <= account[UserOf(p)].issued
  BY <1>1 DEF SessionInv, TokensIssued, SessionType, AccountType
<1> HIDE DEF token
<1>4. SessionType'
  BY <1>2 DEF SessionInv, SessionType, ExchangeBecomes
<1>5. TokensIssued'
  BY <1>2, <1>3, <1>4, TokensStay DEF ExchangeBecomes
<1>6. Quiet
  BY <1>1, <1>2, Places DEF Quiet, Refreshing, ExchangeBecomes
<1> QED BY <1>4, <1>5, <1>6, QuietSteps DEF SessionInv

(* A call under way stays under way, whatever the server makes of it. *)
LEMMA CallKeeps ==
    ASSUME SessionInv, NEW x \in Exchanges, NEW step \in ExchangeSteps \ {"none"},
           exchange[x].step # "none",
           To(x, step), UNCHANGED <<jar, request, tab>>,
           account' \in [Accounts -> AccountType],
           \A u \in Accounts : /\ account'[u].refresh = account[u].refresh
                               /\ account'[u].issued = account[u].issued
    PROVE  SessionInv'
<1>1. ExchangeBecomes(x, step, exchange[x].token)
  BY ToMoves DEF SessionInv
<1>2. SessionType'
  BY <1>1 DEF SessionInv, SessionType, ExchangeBecomes
<1>3. \A u \in Accounts : /\ account'[u].refresh <= account'[u].issued
                          /\ account[u].issued <= account'[u].issued
  BY DEF SessionInv, SessionType, AccountType, TokensIssued
<1>4. TokensIssued'
  BY <1>1, <1>2, <1>3, TokensMove DEF SessionInv, ExchangeBecomes
<1>5. Quiet
  BY <1>1, Places DEF Quiet, Refreshing, ExchangeBecomes
<1> QED BY <1>2, <1>4, <1>5, QuietSteps DEF SessionInv

(* What the server makes of a call keeps the invariant of the sessions. *)
LEMMA ServesKeeps ==
    ASSUME SessionInv, NEW x \in Exchanges, Serves(x)
    PROVE  SessionInv'
<1> DEFINE u == UserOf(x)
<1>0. u \in Accounts /\ account[u] \in AccountType
  BY Places DEF SessionInv, SessionType
<1>1. CASE Grant(x)
  <2> DEFINE new == [account[u] EXCEPT !.exists = TRUE]
  <2>1. /\ new \in AccountType
        /\ new.refresh = account[u].refresh /\ new.issued = account[u].issued
    BY <1>0 DEF AccountType
  <2>2. account' = [account EXCEPT ![u] = new]
    BY <1>1 DEF Grant
  <2> HIDE DEF new
  <2>3. /\ account' \in [Accounts -> AccountType]
        /\ \A v \in Accounts : /\ account'[v].refresh = account[v].refresh
                               /\ account'[v].issued = account[v].issued
    BY <2>1, <2>2 DEF SessionInv, SessionType
  <2> QED BY <1>1, <2>3, CallKeeps DEF Grant, ExchangeSteps
<1>2. CASE Refuse(x) \/ Lose(x)
  <2>1. account' \in [Accounts -> AccountType] /\ account' = account
    BY <1>2 DEF Refuse, Lose, SessionInv, SessionType
  <2>2. /\ exchange[x].step # "none" /\ To(x, "refused")
        /\ UNCHANGED <<jar, request, tab>>
    BY <1>2 DEF Refuse, Lose
  <2> QED BY <2>1, <2>2, CallKeeps DEF ExchangeSteps
<1>3. CASE Issue(x)
  <2>1. PICK n \in {account[u].issued, account[u].issued + 1} \cap (1..MaxToken) :
          /\ account' = [account EXCEPT ![u].refresh = n, ![u].issued = n]
          /\ exchange' = [exchange EXCEPT ![x].step = "renewed", ![x].token = n]
    BY <1>3 DEF Issue
  <2>2. n \in Nat /\ account[u].issued <= n
    BY <1>0 DEF AccountType
  <2> DEFINE row == [account[u] EXCEPT !.refresh = n, !.issued = n]
             new == [exchange[x] EXCEPT !.step = "renewed", !.token = n]
  <2>3. row \in AccountType /\ row.refresh = n /\ row.issued = n
    BY <1>0, <2>2 DEF AccountType
  <2>4. exchange[x] \in ExchangeType
    BY DEF SessionInv, SessionType
  <2>5. new \in ExchangeType /\ new.step = "renewed" /\ new.token = n
    BY <2>2, <2>4 DEF ExchangeType, ExchangeSteps
  <2>6. account' = [account EXCEPT ![u] = row] /\ exchange' = [exchange EXCEPT ![x] = new]
    BY <2>1
  <2>7. UNCHANGED <<jar, request, tab>> /\ exchange[x].step = "read"
    BY <1>3 DEF Issue
  <2> HIDE DEF row, new
  <2>8. ExchangeBecomes(x, "renewed", n)
    BY <2>5, <2>6 DEF SessionInv, SessionType, ExchangeBecomes
  <2>9. SessionType'
    BY <1>0, <2>3, <2>6, <2>7, <2>8 DEF SessionInv, SessionType, ExchangeBecomes
  <2>10. \A v \in Accounts : /\ account'[v].refresh <= account'[v].issued
                             /\ account[v].issued <= account'[v].issued
    BY <1>0, <2>2, <2>3, <2>6 DEF SessionInv, SessionType, AccountType, TokensIssued
  <2>11. account'[u].issued = n
    BY <1>0, <2>3, <2>6 DEF SessionInv, SessionType
  <2>12. TokensIssued'
    BY <2>2, <2>7, <2>8, <2>9, <2>10, <2>11, TokensMove DEF SessionInv, ExchangeBecomes
  <2>13. Quiet
    BY <2>7, <2>8, Places DEF Quiet, Refreshing, ExchangeBecomes
  <2> QED BY <2>9, <2>12, <2>13, QuietSteps DEF SessionInv
<1> QED BY <1>1, <1>2, <1>3 DEF Serves

-----------------------------------------------------------------------------
(* The client. *)

(* A jar keeps its token or loses it. *)
JarsFade == jar' \in [Browsers -> Nat] /\ \A b \in Browsers : jar'[b] \in {jar[b], 0}

(* Logging out at most empties a jar. *)
LEMMA JarsMove ==
    ASSUME SessionType, NEW x \in Exchanges, LogOut(x) \/ UNCHANGED jar
    PROVE  JarsFade
<1>1. CASE LogOut(x)
  BY <1>1, Places DEF LogOut, JarsFade, SessionType
<1>2. CASE UNCHANGED jar
  BY <1>2 DEF JarsFade, SessionType
<1> QED BY <1>1, <1>2

(* No token at all counts as issued. *)
LEMMA Zero == ASSUME SessionType PROVE \A u \in Accounts : 0 <= account[u].issued
BY DEF SessionType, AccountType

(* Jars that are emptied hold no token that was not issued. *)
LEMMA FadedTokens ==
    ASSUME SessionInv, SessionType', UNCHANGED <<account>>, JarsFade,
           \A r \in Requests : \/ request'[r].token = request[r].token
                               \/ request'[r].token <= account'[UserOf(r)].issued,
           \A x \in Exchanges : \/ exchange'[x].token = exchange[x].token
                                \/ exchange'[x].token <= account'[UserOf(x)].issued
    PROVE  TokensIssued'
<1>1. \A b \in Browsers : \/ jar'[b] = jar[b]
                          \/ jar'[b] <= account'[AccountOf[b]].issued
  BY Places, Zero DEF JarsFade, SessionInv
<1> QED BY <1>1, TokensStay

(* A request goes on, and neither waits nor refreshes. *)
LEMMA RequestKeeps ==
    ASSUME SessionInv, NEW r \in Requests, ~Refreshing(r),
           NEW step \in RequestSteps \ {"waiting", "refreshing"},
           NEW token, token <= account[UserOf(r)].issued,
           RequestBecomes(r, step, token), JarsFade,
           UNCHANGED <<account, exchange, tab>>
    PROVE  SessionInv'
<1>1. SessionType'
  BY DEF SessionInv, SessionType, RequestBecomes, JarsFade
<1>2. TokensIssued'
  BY <1>1, FadedTokens DEF RequestBecomes
<1>3. Quiet
  BY DEF Quiet, Refreshing, RequestBecomes
<1> QED BY <1>1, <1>2, <1>3, QuietSteps DEF SessionInv

(* A request takes the token of its jar along. *)
LEMMA SendKeeps ==
    ASSUME SessionInv, NEW r \in Requests, Send(r)
    PROVE  SessionInv'
<1> DEFINE token == jar[JarOf(r)]
           new == [step |-> "sent", token |-> token, turn |-> "first"]
<1>1. r \in Exchanges /\ JarOf(r) \in Browsers /\ UserOf(r) = AccountOf[JarOf(r)]
  BY Places
<1>2. token \in Nat /\ token <= account[UserOf(r)].issued
  BY <1>1 DEF SessionInv, SessionType, TokensIssued
<1>3. /\ request[r].step = "none"
      /\ request' = [request EXCEPT ![r] = new]
      /\ UNCHANGED <<account, jar, exchange, tab>>
  BY DEF Send
<1>4. new \in RequestType /\ new.step = "sent" /\ new.token = token
  BY <1>2 DEF RequestType, RequestSteps
<1> HIDE DEF new, token
<1>5. RequestBecomes(r, "sent", token)
  BY <1>3, <1>4 DEF RequestBecomes, SessionInv, SessionType
<1>6. JarsFade
  BY <1>1, <1>3, JarsMove DEF SessionInv
<1> QED BY <1>2, <1>3, <1>5, <1>6, RequestKeeps DEF RequestSteps, Refreshing

(* The request is answered, or its error is handed to the caller. *)
LEMMA ForgetKeeps ==
    ASSUME SessionInv, NEW r \in Requests, ~Refreshing(r), Forget(r),
           LogOut(r) \/ UNCHANGED jar, UNCHANGED <<account, exchange, tab>>
    PROVE  SessionInv'
<1>1. RequestBecomes(r, "none", 0) /\ r \in Exchanges
  BY ForgetMoves, Places DEF SessionInv
<1>2. JarsFade
  BY <1>1, JarsMove DEF SessionInv
<1>3. 0 <= account[UserOf(r)].issued
  BY <1>1, Places, Zero DEF SessionInv
<1> QED BY <1>1, <1>2, <1>3, RequestKeeps DEF RequestSteps

(* A request that moves on outside of a refresh keeps the invariant. *)
LEMMA MoveKeeps ==
    ASSUME SessionInv, NEW r \in Requests, ~Refreshing(r),
           NEW step \in RequestSteps \ {"waiting", "refreshing"}, At(r, step),
           UNCHANGED <<account, jar, exchange, tab>>
    PROVE  SessionInv'
<1>1. RequestBecomes(r, step, request[r].token) /\ r \in Exchanges
  BY AtMoves, Places DEF SessionInv
<1>2. JarsFade
  BY <1>1, JarsMove DEF SessionInv
<1>3. request[r].token <= account[UserOf(r)].issued
  BY DEF SessionInv, TokensIssued
<1> QED BY <1>1, <1>2, <1>3, RequestKeeps

(* So do the steps of a request in the server. *)
LEMMA RequestStepsKeep ==
    ASSUME SessionInv, NEW r \in Requests, Admit(r) \/ Deny(r) \/ Enter(r) \/ Respond(r)
    PROVE  SessionInv'
<1>1. ~Refreshing(r)
  BY DEF Refreshing, Admit, Deny, Enter, Respond
<1>2. CASE Admit(r)
  BY <1>1, <1>2, MoveKeeps DEF Admit, RequestSteps
<1>3. CASE Enter(r)
  BY <1>1, <1>3, MoveKeeps DEF Enter, RequestSteps
<1>4. CASE Respond(r)
  BY <1>1, <1>4, ForgetKeeps DEF Respond
<1>5. CASE Deny(r)
  <2>0. request[r].turn \in {"first", "waited", "own"} /\ UNCHANGED <<account, exchange, tab>>
    BY <1>5 DEF Deny, SessionInv, SessionType, RequestType
  <2>1. CASE request[r].turn = "first"
    BY <1>1, <1>5, <2>0, <2>1, MoveKeeps DEF Deny, RequestSteps
  <2>2. CASE request[r].turn = "waited"
    BY <1>1, <1>5, <2>0, <2>2, ForgetKeeps DEF Deny
  <2>3. CASE request[r].turn = "own"
    BY <1>1, <1>5, <2>0, <2>3, ForgetKeeps DEF Deny
  <2> QED BY <2>0, <2>1, <2>2, <2>3
<1> QED BY <1>2, <1>3, <1>4, <1>5

(* The interceptor waits for the refresh of its tab, or begins one. *)
LEMMA HandleDenialKeeps ==
    ASSUME SessionInv, NEW r \in Requests, HandleDenial(r)
    PROVE  SessionInv'
<1>0. r \in Exchanges /\ TabOf[r] \in Tabs /\ JarOf(r) \in Browsers
      /\ UserOf(r) = AccountOf[JarOf(r)] /\ UserOf(r) \in Accounts /\ ~Refreshing(r)
      /\ SessionType
  BY Places DEF HandleDenial, Refreshing, SessionInv
<1>1. CASE Forget(r) /\ UNCHANGED <<account, jar, exchange, tab>>
  BY <1>0, <1>1, ForgetKeeps
<1>2. CASE /\ tab[TabOf[r]].refreshing /\ At(r, "waiting")
           /\ UNCHANGED <<account, jar, exchange, tab>>
  <2>1. RequestBecomes(r, "waiting", request[r].token)
    BY <1>0, <1>2, AtMoves DEF RequestSteps
  <2>2. JarsFade
    BY <1>0, <1>2, JarsMove
  <2>3. SessionType'
    BY <1>2, <2>1, <2>2 DEF SessionInv, SessionType, RequestBecomes, JarsFade
  <2>4. TokensIssued'
    BY <1>2, <2>1, <2>2, <2>3, FadedTokens DEF RequestBecomes
  <2>5. OneRefresh'
    BY <1>0, <1>2, <2>1 DEF SessionInv, OneRefresh, Refreshing, RequestBecomes
  <2>6. NobodyWaitsAlone'
    BY <1>0, <1>2, <2>1 DEF SessionInv, NobodyWaitsAlone, RequestBecomes
  <2> QED BY <2>3, <2>4, <2>5, <2>6 DEF SessionInv
<1>3. CASE ~tab[TabOf[r]].refreshing /\ Renew(r)
  <2> DEFINE new == [tab[TabOf[r]] EXCEPT !.refreshing = TRUE]
  <2>1. /\ RequestBecomes(r, "refreshing", request[r].token)
        /\ ExchangeBecomes(r, "posted", jar[JarOf(r)])
    BY <1>0, <1>3, AtMoves, PostMoves DEF Renew, RequestSteps
  <2>2. tab[TabOf[r]] \in TabType
    BY <1>0 DEF SessionType
  <2>3. new \in TabType /\ new.refreshing /\ new.failed = tab[TabOf[r]].failed
    BY <2>2 DEF TabType
  <2>4. tab' = [tab EXCEPT ![TabOf[r]] = new] /\ UNCHANGED <<account, jar>>
    BY <1>3 DEF Renew
  <2> HIDE DEF new
  <2>5. /\ tab' \in [Tabs -> TabType]
        /\ tab'[TabOf[r]].refreshing
        /\ \A p \in Tabs : p # TabOf[r] => tab'[p] = tab[p]
    BY <1>0, <2>3, <2>4 DEF SessionType
  <2>6. SessionType' /\ JarsFade
    BY <1>0, <2>1, <2>4, <2>5, JarsMove DEF SessionType, RequestBecomes, ExchangeBecomes
  <2>7. jar[JarOf(r)] <= account'[UserOf(r)].issued
    BY <1>0, <2>4 DEF SessionInv, TokensIssued
  <2>8. TokensIssued'
    BY <2>1, <2>4, <2>6, <2>7, FadedTokens DEF RequestBecomes, ExchangeBecomes
  <2>9. \A q \in Requests : Refreshing(q)' <=> Refreshing(q) \/ q = r
    BY <2>1 DEF RequestBecomes, Refreshing
  <2>10. \A q \in Requests : exchange'[q].step # "none" <=> exchange[q].step # "none" \/ q = r
    BY <2>1, Places DEF ExchangeBecomes
  <2>11. \A q \in Requests : TabOf[q] = TabOf[r] => ~Refreshing(q)
    BY <1>3 DEF SessionInv, OneRefresh
  <2>12. OneRefresh'
    <3>1. \A q \in Requests : Refreshing(q)' <=> exchange'[q].step # "none"
      BY <2>9, <2>10 DEF SessionInv, OneRefresh
    <3>2. \A q \in Requests : Refreshing(q)' => tab'[TabOf[q]].refreshing
      BY <2>5, <2>9, Places DEF SessionInv, OneRefresh
    <3>3. \A p \in Tabs : tab'[p].refreshing =>
             \E q \in Requests : TabOf[q] = p /\ Refreshing(q)'
      BY <2>5, <2>9 DEF SessionInv, OneRefresh
    <3>4. \A p, q \in Requests : Refreshing(p)' /\ Refreshing(q)' /\ TabOf[p] = TabOf[q] => p = q
      BY <2>9, <2>11 DEF SessionInv, OneRefresh
    <3> QED BY <3>1, <3>2, <3>3, <3>4 DEF OneRefresh
  <2>13. NobodyWaitsAlone'
    BY <2>1, <2>5, Places DEF SessionInv, NobodyWaitsAlone, RequestBecomes
  <2> QED BY <2>6, <2>8, <2>12, <2>13 DEF SessionInv
<1> QED BY <1>1, <1>2, <1>3 DEF HandleDenial

(* The refresh of a request ends: its tab has none under way any more. *)
LEMMA RefreshEnds ==
    ASSUME SessionInv, NEW r \in Requests, exchange[r].step # "none",
           tab' \in [Tabs -> TabType], ~tab'[TabOf[r]].refreshing,
           \A p \in Tabs : p # TabOf[r] => tab'[p] = tab[p],
           exchange'[r].step = "none",
           \A x \in Exchanges \ {r} : exchange'[x] = exchange[x],
           \A q \in Requests : Refreshing(q)' <=> Refreshing(q) /\ q # r
    PROVE  OneRefresh'
<1>1. Refreshing(r)
  BY DEF SessionInv, OneRefresh
<1>2. \A q \in Requests : Refreshing(q)' <=> exchange'[q].step # "none"
  BY Places DEF SessionInv, OneRefresh
<1>3. \A q \in Requests : Refreshing(q) /\ TabOf[q] = TabOf[r] => q = r
  BY <1>1 DEF SessionInv, OneRefresh
<1>4. \A q \in Requests : Refreshing(q)' => tab'[TabOf[q]].refreshing
  BY <1>3, Places DEF SessionInv, OneRefresh
<1>5. \A p \in Tabs : tab'[p].refreshing =>
         \E q \in Requests : TabOf[q] = p /\ Refreshing(q)'
  <2> TAKE p \in Tabs
  <2> HAVE tab'[p].refreshing
  <2>1. p # TabOf[r] /\ tab[p].refreshing
    OBVIOUS
  <2>2. PICK q \in Requests : TabOf[q] = p /\ Refreshing(q)
    BY <2>1 DEF SessionInv, OneRefresh
  <2> QED BY <2>1, <2>2
<1>6. \A p, q \in Requests : Refreshing(p)' /\ Refreshing(q)' /\ TabOf[p] = TabOf[q] => p = q
  BY DEF SessionInv, OneRefresh
<1> QED BY <1>2, <1>4, <1>5, <1>6 DEF OneRefresh

(* A call of a tab ends, and no request is touched. *)
LEMMA TabCallEnds ==
    ASSUME SessionInv, NEW x \in Exchanges, x \notin Requests,
           exchange' = [exchange EXCEPT ![x] = NoExchange],
           jar' \in [Browsers -> Nat],
           \A b \in Browsers : jar'[b] = jar[b] \/ jar'[b] <= account[AccountOf[b]].issued,
           UNCHANGED <<account, tab, request>>
    PROVE  SessionInv'
<1>1. ExchangeBecomes(x, "none", 0)
  BY DoneMoves DEF SessionInv
<1>2. SessionType'
  BY <1>1 DEF SessionInv, SessionType, ExchangeBecomes
<1>3. 0 <= account'[UserOf(x)].issued
  BY Places, Zero DEF SessionInv
<1>4. TokensIssued'
  BY <1>1, <1>2, <1>3, TokensStay DEF ExchangeBecomes
<1>5. Quiet
  BY <1>1, Places DEF Quiet, Refreshing, ExchangeBecomes
<1> QED BY <1>2, <1>4, <1>5, QuietSteps DEF SessionInv

(* The tab keeps the new session, and its requests go again. *)
LEMMA TakeSessionKeeps ==
    ASSUME SessionInv, NEW x \in Exchanges, TakeSession(x)
    PROVE  SessionInv'
<1> DEFINE token == exchange[x].token
<1>0. /\ JarOf(x) \in Browsers /\ UserOf(x) = AccountOf[JarOf(x)] /\ UserOf(x) \in Accounts
      /\ exchange[x] \in ExchangeType /\ token \in Nat /\ token <= account[UserOf(x)].issued
      /\ SessionType
  BY Places DEF SessionInv, SessionType, ExchangeType, TokensIssued
<1>1. /\ exchange[x].step = "renewed" /\ jar' = [jar EXCEPT ![JarOf(x)] = token]
      /\ exchange' = [exchange EXCEPT ![x] = NoExchange] /\ UNCHANGED account
  BY DEF TakeSession
<1>2. /\ jar' \in [Browsers -> Nat]
      /\ \A b \in Browsers : jar'[b] = jar[b] \/ jar'[b] <= account[AccountOf[b]].issued
  BY <1>0, <1>1 DEF SessionType
<1>3. ASSUME x \notin Requests PROVE SessionInv'
  BY <1>1, <1>2, <1>3, TabCallEnds DEF TakeSession
<1>4. ASSUME x \in Requests PROVE SessionInv'
  <2> DEFINE old == tab[TabOf[x]]
             new == [old EXCEPT !.refreshing = FALSE]
  <2>1. /\ tab' = [tab EXCEPT ![TabOf[x]] = new] /\ request' = Resumed(x, token)
        /\ TabOf[x] \in Tabs
    BY <1>4, Places DEF TakeSession
  <2>2. old \in TabType
    BY <1>0, <2>1 DEF SessionType
  <2>3. new \in TabType /\ ~new.refreshing
    BY <2>2 DEF TabType
  <2> HIDE DEF new
  <2>4. /\ tab' \in [Tabs -> TabType]
        /\ ~tab'[TabOf[x]].refreshing
        /\ \A p \in Tabs : p # TabOf[x] => tab'[p] = tab[p]
    BY <1>0, <2>1, <2>3 DEF SessionType
  <2>5. ExchangeBecomes(x, "none", 0)
    BY <1>0, <1>1, DoneMoves
  <2> HIDE DEF token
  <2>6. \A turn \in {"first", "waited", "own"} :
           /\ Again(token, turn) \in RequestType
           /\ Again(token, turn).step = "sent" /\ Again(token, turn).token = token
    BY <1>0 DEF Again, RequestType, RequestSteps, token
  <2>7. \A q \in Requests :
           \/ /\ q = x \/ (TabOf[q] = TabOf[x] /\ request[q].step = "waiting")
              /\ request'[q] \in RequestType
              /\ request'[q].step = "sent" /\ request'[q].token = token
           \/ /\ q # x /\ ~(TabOf[q] = TabOf[x] /\ request[q].step = "waiting")
              /\ request'[q] = request[q]
    BY <2>1, <2>6 DEF Resumed, Waiting
  <2>8. request' \in [Requests -> RequestType]
    <3>1. DOMAIN request' = Requests /\ request' = [q \in Requests |-> request'[q]]
      BY <2>1 DEF Resumed
    <3>2. \A q \in Requests : request'[q] \in RequestType
      BY <1>0, <2>7 DEF SessionType
    <3> QED BY <3>1, <3>2
  <2>9. SessionType'
    BY <1>0, <1>1, <1>2, <2>4, <2>5, <2>8 DEF SessionType, ExchangeBecomes
  <2>10. \A q \in Requests : TabOf[q] = TabOf[x] => UserOf(q) = UserOf(x)
    BY <1>4, Places DEF UserOf, JarOf, PageOf
  <2>11. TokensIssued'
    <3>1. \A q \in Requests : \/ request'[q].token = request[q].token
                              \/ request'[q].token <= account'[UserOf(q)].issued
      BY <1>0, <1>1, <2>7, <2>10 DEF token
    <3>2. \A y \in Exchanges : \/ exchange'[y].token = exchange[y].token
                               \/ exchange'[y].token <= account'[UserOf(y)].issued
      BY <1>0, <1>1, <2>5, Zero DEF ExchangeBecomes
    <3> QED BY <1>1, <1>2, <2>9, <3>1, <3>2, TokensStay
  <2>12. \A q \in Requests : Refreshing(q)' <=> Refreshing(q) /\ q # x
    BY <2>7 DEF Refreshing
  <2>13. OneRefresh'
    BY <1>1, <1>4, <2>4, <2>5, <2>12, RefreshEnds DEF ExchangeBecomes
  <2>14. NobodyWaitsAlone'
    BY <2>4, <2>7, Places DEF SessionInv, NobodyWaitsAlone
  <2> QED BY <2>9, <2>11, <2>13, <2>14 DEF SessionInv
<1> QED BY <1>3, <1>4

(* The session ends; those that wait are left, and the tab has seen a failure. *)
LEMMA TakeRefusalKeeps ==
    ASSUME SessionInv, NEW x \in Exchanges, TakeRefusal(x)
    PROVE  SessionInv'
<1>0. SessionType
  BY DEF SessionInv
<1>1. /\ exchange[x].step = "refused"
      /\ exchange' = [exchange EXCEPT ![x] = NoExchange]
      /\ LogOut(x) \/ UNCHANGED jar
      /\ UNCHANGED account
  BY DEF TakeRefusal
<1>2. JarsFade
  BY <1>0, <1>1, JarsMove
<1>3. ASSUME x \notin Requests PROVE SessionInv'
  <2>1. /\ jar' \in [Browsers -> Nat]
        /\ \A b \in Browsers : jar'[b] = jar[b] \/ jar'[b] <= account[AccountOf[b]].issued
    BY <1>0, <1>2, Places, Zero DEF JarsFade
  <2> QED BY <1>1, <1>3, <2>1, TabCallEnds DEF TakeRefusal
<1>4. ASSUME x \in Requests PROVE SessionInv'
  <2> DEFINE new == [refreshing |-> FALSE, failed |-> TRUE]
  <2>1. tab' = [tab EXCEPT ![TabOf[x]] = new] /\ Forget(x) /\ TabOf[x] \in Tabs
    BY <1>4, Places DEF TakeRefusal
  <2>2. new \in TabType /\ ~new.refreshing /\ new.failed
    BY DEF TabType
  <2> HIDE DEF new
  <2>3. /\ tab' \in [Tabs -> TabType]
        /\ ~tab'[TabOf[x]].refreshing /\ tab'[TabOf[x]].failed
        /\ \A p \in Tabs : p # TabOf[x] => tab'[p] = tab[p]
    BY <1>0, <2>1, <2>2 DEF SessionType
  <2>4. ExchangeBecomes(x, "none", 0)
    BY <1>0, <1>1, DoneMoves
  <2>5. RequestBecomes(x, "none", 0)
    BY <1>0, <1>4, <2>1, ForgetMoves
  <2>6. SessionType'
    BY <1>0, <1>1, <1>2, <2>3, <2>4, <2>5
       DEF SessionType, ExchangeBecomes, RequestBecomes, JarsFade
  <2>7. 0 <= account'[UserOf(x)].issued
    BY <1>0, <1>1, Places, Zero
  <2>8. TokensIssued'
    BY <1>1, <1>2, <2>4, <2>5, <2>6, <2>7, FadedTokens DEF ExchangeBecomes, RequestBecomes
  <2>9. \A q \in Requests : Refreshing(q)' <=> Refreshing(q) /\ q # x
    BY <1>4, <2>5 DEF Refreshing, RequestBecomes
  <2>10. OneRefresh'
    BY <1>1, <1>4, <2>3, <2>4, <2>9, RefreshEnds DEF ExchangeBecomes
  <2>11. NobodyWaitsAlone'
    BY <1>4, <2>3, <2>5, Places DEF SessionInv, NobodyWaitsAlone, RequestBecomes
  <2> QED BY <2>6, <2>8, <2>10, <2>11 DEF SessionInv
<1> QED BY <1>3, <1>4

-----------------------------------------------------------------------------
(* So do the steps of a tab. *)
LEMMA TabStepsKeep ==
    ASSUME SessionInv, NEW p \in Tabs,
           Timer(p) \/ Leave(p) \/ \E kind \in {"login", "register"} : Form(p, kind)
    PROVE  SessionInv'
<1>1. CASE Timer(p)
  BY <1>1, FormKeeps DEF Timer
<1>2. CASE \E kind \in {"login", "register"} : Form(p, kind)
  BY <1>2, FormKeeps DEF Form
<1>3. CASE Leave(p)
  <2>1. JarsFade /\ UNCHANGED <<account, request, exchange, tab>>
    BY <1>3, Places, JarsMove DEF Leave, SessionInv
  <2>2. SessionType'
    BY <2>1 DEF SessionInv, SessionType, JarsFade
  <2>3. TokensIssued'
    BY <2>1, <2>2, FadedTokens
  <2>4. Quiet
    BY <2>1 DEF Quiet, Refreshing
  <2> QED BY <2>2, <2>3, <2>4, QuietSteps DEF SessionInv
<1> QED BY <1>1, <1>2, <1>3

(* Every step of the server keeps the invariant. *)
LEMMA SessionInvStep ==
    ASSUME SessionInv, [Next]_vars
    PROVE  SessionInv'
<1>1. CASE SessionStep
  BY <1>1, LapseKeeps, TabStepsKeep, ServesKeeps, TakeSessionKeeps, TakeRefusalKeeps,
     SendKeeps, RequestStepsKeep, HandleDenialKeeps DEF SessionStep
<1>2. CASE UNCHANGED sessionVars
  BY <1>2 DEF sessionVars, SessionInv, SessionType, TokensIssued, OneRefresh, Refreshing,
     NobodyWaitsAlone
<1> QED BY <1>1, <1>2, StepsOfSessions

(* The invariant of the sessions contains what is to be shown. *)
LEMMA ConsistentFromInv == SessionInv => SessionsConsistent
<1> SUFFICES ASSUME SessionInv PROVE SessionsConsistent
  OBVIOUS
<1>1. \A u \in Accounts : account[u].refresh \in 0..account[u].issued
  BY DEF SessionInv, SessionType, AccountType, TokensIssued
<1>2. \A b \in Browsers : jar[b] \in 0..account[AccountOf[b]].issued
  BY Places DEF SessionInv, SessionType, AccountType, TokensIssued
<1>3. \A r \in Requests :
         /\ request[r].token \in 0..account[UserOf(r)].issued
         /\ request[r].step \in RequestSteps
         /\ Refreshing(r) <=> exchange[r].step # "none"
  <2> TAKE r \in Requests
  <2>1. request[r] \in RequestType /\ account[UserOf(r)] \in AccountType
    BY Places DEF SessionInv, SessionType
  <2> QED BY <2>1 DEF SessionInv, RequestType, AccountType, TokensIssued, OneRefresh
<1>4. ASSUME NEW p \in Tabs
      PROVE  LET refreshing == {r \in Requests : TabOf[r] = p /\ request[r].step = "refreshing"}
             IN /\ tab[p].refreshing <=> refreshing # {}
                /\ \A q, r \in refreshing : q = r
  <2> DEFINE refreshing == {r \in Requests : TabOf[r] = p /\ request[r].step = "refreshing"}
  <2>1. tab[p].refreshing \in BOOLEAN
    BY DEF SessionInv, SessionType, TabType
  <2>2. tab[p].refreshing => refreshing # {}
    BY DEF SessionInv, OneRefresh, Refreshing
  <2>3. refreshing # {} => tab[p].refreshing
    BY DEF SessionInv, OneRefresh, Refreshing
  <2>4. \A q, r \in refreshing : q = r
    BY DEF SessionInv, OneRefresh, Refreshing
  <2> QED BY <2>1, <2>2, <2>3, <2>4
<1> QED BY <1>1, <1>2, <1>3, <1>4 DEF SessionsConsistent, RequestSteps, Refreshing

-----------------------------------------------------------------------------
(* Every token in a cookie, a request or a call of /auth is one the server  *)
(* has issued, and isRefreshing of a tab is true exactly while one request  *)
(* of the tab, and no second one, has its refresh under way: however the    *)
(* 401s, refreshes, timers, forms and logouts of all tabs interleave        *)
(* (token-refresh.interceptor.ts, auth.service.ts, user_service.go).        *)
THEOREM SessionsCorrect == Spec => []SessionsConsistent
<1>1. SessionInv /\ [Next]_vars => SessionInv'
  BY SessionInvStep
<1> QED BY SessionInvInit, <1>1, ConsistentFromInv, PTL DEF Spec

(* No request waits at the interceptor of a tab whose refreshes have all     *)
(* succeeded unless a refresh is under way there: the subject that wakes     *)
(* those that wait is never missed by one that comes to wait too late.       *)
THEOREM WaitersServed == Spec => []NobodyWaitsAlone
<1>1. SessionInv /\ [Next]_vars => SessionInv'
  BY SessionInvStep
<1>2. SessionInv => NobodyWaitsAlone
  BY DEF SessionInv
<1> QED BY SessionInvInit, <1>1, <1>2, PTL DEF Spec

-----------------------------------------------------------------------------
(* Why a session ends.                                                       *)

UnderWay(x) == exchange[x].step # "none"

(* An account nothing has happened to that may end its session: it is used in *)
(* one browser, has one call of /auth under way at most, and the token that   *)
(* is in the cookies, in that call or in its answer is the one of its row.    *)
InStep(u) ==
    /\ account[u].stale = {}
    /\ \A b, c \in Browsers :
          AccountOf[b] = u /\ AccountOf[c] = u /\ jar[b] # 0 /\ jar[c] # 0 => b = c
    /\ \A b \in Browsers : AccountOf[b] = u /\ jar[b] # 0 =>
          /\ account[u].exists
          /\ \/ jar[b] = account[u].refresh
             \/ \E x \in Exchanges : UserOf(x) = u /\ exchange[x].step = "renewed"
    /\ \A x \in Exchanges : UserOf(x) = u /\ UnderWay(x) =>
          /\ account[u].exists
          /\ exchange[x].kind = "refresh" /\ exchange[x].step # "refused"
          /\ exchange[x].step = "posted" => exchange[x].token = account[u].refresh
          /\ exchange[x].step = "renewed" =>
                exchange[x].token = account[u].refresh /\ exchange[x].token # 0
          /\ \A b \in Browsers : AccountOf[b] = u /\ jar[b] # 0 => JarOf(x) = b
          /\ \A y \in Exchanges : UserOf(y) = u /\ UnderWay(y) => x = y

LeaveCounted ==
    /\ budget = [what \in DOMAIN budget |-> budget[what]]
    /\ "leave" \in DOMAIN budget /\ budget["leave"] \in Nat

ReasonInv ==
    /\ SessionInv
    /\ LeaveCounted
    /\ \A u \in Accounts : u \in excuse \/ InStep(u)

(* What a step may do to the sessions in the browsers. *)
EndsForAReason ==
    \A b \in Browsers :
        jar[b] # 0 /\ jar'[b] = 0 => AccountOf[b] \in excuse' \/ budget'.leave < budget.leave

(* A step that is about one account. *)
About(u) ==
    /\ excuse \subseteq excuse'
    /\ \A v \in Accounts \ {u} : account'[v] = account[v]
    /\ \A b \in Browsers : AccountOf[b] # u => jar'[b] = jar[b]
    /\ \A x \in Exchanges : UserOf(x) # u => exchange'[x] = exchange[x]

(* It keeps the invariant if it keeps the account steady or notes a reason. *)
Excused(u) == InStep(u) /\ u \notin excuse' => InStep(u)'

(* An account stays in step while another one is served. *)
LEMMA InStepElsewhere ==
    ASSUME NEW u \in Accounts, NEW v \in Accounts, u # v, About(u), InStep(v)
    PROVE  InStep(v)'
<1>1. /\ account'[v] = account[v]
      /\ \A b \in Browsers : AccountOf[b] = v => jar'[b] = jar[b]
      /\ \A x \in Exchanges : UserOf(x) = v => exchange'[x] = exchange[x]
  BY DEF About
<1>2. \A x \in Exchanges : UserOf(x) = v => (UnderWay(x)' <=> UnderWay(x))
  BY <1>1 DEF UnderWay
<1>3. account'[v].stale = {}
  BY <1>1 DEF InStep
<1>4. \A b, c \in Browsers :
         AccountOf[b] = v /\ AccountOf[c] = v /\ jar'[b] # 0 /\ jar'[c] # 0 => b = c
  BY <1>1 DEF InStep
<1>5. \A b \in Browsers : AccountOf[b] = v /\ jar'[b] # 0 =>
         /\ account'[v].exists
         /\ \/ jar'[b] = account'[v].refresh
            \/ \E x \in Exchanges : UserOf(x) = v /\ exchange'[x].step = "renewed"
  BY <1>1 DEF InStep
<1>6. \A x \in Exchanges : UserOf(x) = v /\ UnderWay(x)' =>
         /\ account'[v].exists
         /\ exchange'[x].kind = "refresh" /\ exchange'[x].step # "refused"
         /\ exchange'[x].step = "posted" => exchange'[x].token = account'[v].refresh
         /\ exchange'[x].step = "renewed" =>
               exchange'[x].token = account'[v].refresh /\ exchange'[x].token # 0
         /\ \A b \in Browsers : AccountOf[b] = v /\ jar'[b] # 0 => JarOf(x) = b
         /\ \A y \in Exchanges : UserOf(y) = v /\ UnderWay(y)' => x = y
  BY <1>1, <1>2 DEF InStep
<1>7. \A x : UserOf(x)' = UserOf(x) /\ JarOf(x)' = JarOf(x)
  BY DEF UserOf, JarOf, PageOf
<1> QED BY <1>3, <1>4, <1>5, <1>6, <1>7 DEF InStep

(* A step about one account that is in step or excused keeps the invariant. *)
LEMMA ReasonKept ==
    ASSUME ReasonInv, SessionInv', LeaveCounted', NEW u \in Accounts, About(u), Excused(u)
    PROVE  ReasonInv'
<1>1. ASSUME NEW v \in Accounts PROVE v \in excuse' \/ InStep(v)'
  <2>1. CASE v \in excuse'
    BY <2>1
  <2>2. CASE v \notin excuse'
    <3>1. InStep(v)
      BY <2>2 DEF ReasonInv, About
    <3> QED BY <2>2, <3>1, InStepElsewhere DEF Excused
  <2> QED BY <2>1, <2>2
<1> QED BY <1>1 DEF ReasonInv

-----------------------------------------------------------------------------
(* The bounds of the scenario: what the user has left to leave. *)
LEMMA SpendCounts ==
    ASSUME LeaveCounted, NEW what, Spend(what)
    PROVE  LeaveCounted' /\ (what = "leave" => budget'.leave < budget.leave)
<1>1. budget' = [budget EXCEPT ![what] = budget[what] - 1] /\ budget[what] > 0
  BY DEF Spend
<1>2. DOMAIN budget' = DOMAIN budget /\ budget' = [w \in DOMAIN budget' |-> budget'[w]]
  BY <1>1 DEF LeaveCounted
<1>3. CASE what = "leave"
  <2>1. budget'["leave"] = budget["leave"] - 1
    BY <1>1, <1>3 DEF LeaveCounted
  <2> QED BY <1>1, <1>2, <1>3, <2>1 DEF LeaveCounted
<1>4. CASE what # "leave"
  <2>1. budget'["leave"] = budget["leave"]
    BY <1>1, <1>4 DEF LeaveCounted
  <2> QED BY <1>2, <1>4, <2>1 DEF LeaveCounted
<1> QED BY <1>3, <1>4

(* The bound on users that leave is counted down. *)
LEMMA LeaveKept ==
    ASSUME LeaveCounted, SessionStep \/ UNCHANGED sessionVars
    PROVE  LeaveCounted'
<1>1. CASE UNCHANGED budget
  BY <1>1 DEF LeaveCounted
<1>2. CASE \E what : Spend(what)
  BY <1>2, SpendCounts
<1>3. CASE \E r \in Requests : Send(r)
  <2>1. PICK r \in Requests : budget' = [budget EXCEPT !.send[r] = budget.send[r] - 1]
    BY <1>3 DEF Send
  <2>2. budget' = [budget EXCEPT !["send"] = [budget["send"] EXCEPT ![r] = budget.send[r] - 1]]
    BY <2>1
  <2> DEFINE new == [budget["send"] EXCEPT ![r] = budget.send[r] - 1]
  <2> HIDE DEF new
  <2>3. budget' = [budget EXCEPT !["send"] = new]
    BY <2>2 DEF new
  <2> QED BY <2>3 DEF LeaveCounted
<1>4. CASE UNCHANGED sessionVars
  BY <1>1, <1>4 DEF sessionVars
<1>5. CASE SessionStep
  <2>1. ASSUME NEW u \in Accounts, Lapse(u) \/ RefreshLapses(u) PROVE \E what : Spend(what)
    BY <2>1 DEF Lapse, RefreshLapses
  <2>2. ASSUME NEW p \in Tabs, Timer(p) \/ Leave(p) \/ \E kind \in {"login", "register"} : Form(p, kind)
        PROVE  \E what : Spend(what)
    BY <2>2 DEF Timer, Leave, Form
  <2>3. ASSUME NEW x \in Exchanges, Serves(x) \/ TakeSession(x) \/ TakeRefusal(x)
        PROVE  UNCHANGED budget \/ \E what : Spend(what)
    BY <2>3 DEF Serves, Grant, Refuse, Issue, Lose, TakeSession, TakeRefusal
  <2>4. ASSUME NEW r \in Requests,
               Admit(r) \/ Deny(r) \/ HandleDenial(r) \/ Enter(r) \/ Respond(r)
        PROVE  UNCHANGED budget
    BY <2>4 DEF Admit, Deny, HandleDenial, Renew, Enter, Respond
  <2> QED BY <1>1, <1>2, <1>3, <1>5, <2>1, <2>2, <2>3, <2>4 DEF SessionStep
<1> QED BY <1>4, <1>5

-----------------------------------------------------------------------------
(* Steps that do not reach the rows, the cookies and the calls. *)
LEMMA UntouchedKeeps ==
    ASSUME ReasonInv, SessionInv', LeaveCounted', UNCHANGED <<account, jar, exchange, excuse>>
    PROVE  ReasonInv' /\ EndsForAReason
<1>1. \A u \in Accounts : InStep(u) => InStep(u)'
  BY DEF InStep, UnderWay, UserOf, JarOf, PageOf
<1> QED BY <1>1 DEF ReasonInv, EndsForAReason

(* Whatever happens to an account that is excused. *)
LEMMA ExcusedKeeps ==
    ASSUME ReasonInv, SessionInv', LeaveCounted', NEW u \in Accounts, About(u), u \in excuse'
    PROVE  ReasonInv' /\ EndsForAReason
<1>1. ReasonInv'
  BY ReasonKept DEF Excused
<1> QED BY <1>1 DEF EndsForAReason, About

(* What a step on the call and the cookies of x is about. *)
LEMMA AboutCall ==
    ASSUME SessionType, NEW x \in Exchanges, excuse \subseteq excuse',
           \A u \in Accounts \ {UserOf(x)} : account'[u] = account[u],
           \A b \in Browsers \ {JarOf(x)} : jar'[b] = jar[b],
           \A y \in Exchanges \ {x} : exchange'[y] = exchange[y]
    PROVE  About(UserOf(x)) /\ UserOf(x) \in Accounts
<1>1. UserOf(x) = AccountOf[JarOf(x)] /\ UserOf(x) \in Accounts
  BY Places
<1>2. \A b \in Browsers : AccountOf[b] # UserOf(x) => jar'[b] = jar[b]
  BY <1>1
<1> QED BY <1>1, <1>2 DEF About

(* Logging out empties the jar of one browser. *)
LEMMA LogOutMoves ==
    ASSUME SessionType, NEW x \in Exchanges, LogOut(x)
    PROVE  /\ jar'[JarOf(x)] = 0 /\ \A b \in Browsers \ {JarOf(x)} : jar'[b] = jar[b]
           /\ JarOf(x) \in Browsers
BY Places DEF LogOut, SessionType

(* A session ended for an error: noted. *)
LEMMA ErrorKeeps ==
    ASSUME ReasonInv, SessionInv', LeaveCounted', NEW x \in Exchanges, LogOut(x),
           excuse' = excuse \cup {UserOf(x)}, UNCHANGED <<account, exchange>>
    PROVE  ReasonInv' /\ EndsForAReason
<1>1. About(UserOf(x)) /\ UserOf(x) \in Accounts
  BY LogOutMoves, AboutCall DEF ReasonInv, SessionInv
<1> QED BY <1>1, ExcusedKeeps

(* A token that lapses ends no session. *)
LEMMA LapseReason ==
    ASSUME ReasonInv, SessionInv', LeaveCounted', NEW u \in Accounts, Lapse(u) \/ RefreshLapses(u)
    PROVE  ReasonInv' /\ EndsForAReason
<1>1. UNCHANGED <<jar, exchange>> /\ excuse \subseteq excuse'
  BY DEF Lapse, RefreshLapses
<1>2. \A v \in Accounts \ {u} : account'[v] = account[v]
  BY DEF Lapse, RefreshLapses, ReasonInv, SessionInv, SessionType
<1>3. About(u)
  BY <1>1, <1>2 DEF About
<1>4. CASE RefreshLapses(u)
  BY <1>3, <1>4, ExcusedKeeps DEF RefreshLapses
<1>5. CASE Lapse(u)
  <2>1. PICK n : account' = [account EXCEPT ![u].lapsed = @ \cup {n}]
    BY <1>5 DEF Lapse
  <2> DEFINE new == [account[u] EXCEPT !.lapsed = @ \cup {n}]
  <2>2. account[u] \in AccountType
    BY DEF ReasonInv, SessionInv, SessionType
  <2>3. new.stale = account[u].stale /\ new.exists = account[u].exists
        /\ new.refresh = account[u].refresh
    BY <2>2 DEF AccountType
  <2>4. account' = [account EXCEPT ![u] = new]
    BY <2>1
  <2> HIDE DEF new
  <2>5. account'[u] = new
    BY <2>4 DEF ReasonInv, SessionInv, SessionType
  <2>6. Excused(u)
    BY <1>1, <2>3, <2>5 DEF Excused, InStep, UnderWay, UserOf, JarOf, PageOf
  <2>7. EndsForAReason
    BY <1>1 DEF EndsForAReason
  <2> QED BY <1>3, <2>6, <2>7, ReasonKept
<1> QED BY <1>4, <1>5

(* A user who leaves ends the session on purpose. *)
LEMMA LeaveReason ==
    ASSUME ReasonInv, SessionInv', LeaveCounted', NEW p \in Tabs, Leave(p)
    PROVE  ReasonInv' /\ EndsForAReason
<1>1. p \in Exchanges /\ LogOut(p) /\ UNCHANGED <<account, exchange, excuse>>
  BY Places DEF Leave
<1>2. About(UserOf(p)) /\ UserOf(p) \in Accounts
  BY <1>1, LogOutMoves, AboutCall DEF ReasonInv, SessionInv
<1>3. \A b \in Browsers : jar'[b] # 0 => jar'[b] = jar[b]
  BY <1>1, LogOutMoves DEF ReasonInv, SessionInv
<1>4. Excused(UserOf(p))
  BY <1>1, <1>3 DEF Excused, InStep, UnderWay, UserOf, JarOf, PageOf
<1>5. budget'.leave < budget.leave
  BY SpendCounts DEF Leave, ReasonInv
<1>6. EndsForAReason
  BY <1>5 DEF EndsForAReason
<1> QED BY <1>2, <1>4, <1>6, ReasonKept

-----------------------------------------------------------------------------
(* Calls of /auth begin. *)
LEMMA PostedKind ==
    ASSUME SessionType, NEW x \in Exchanges, NEW kind, Post(x, kind)
    PROVE  exchange'[x].kind = kind
BY DEF Post, SessionType

(* Sending a form ends no session. *)
LEMMA FormReason ==
    ASSUME ReasonInv, SessionInv', LeaveCounted', NEW p \in Tabs,
           NEW kind \in {"login", "register"}, Form(p, kind)
    PROVE  ReasonInv' /\ EndsForAReason
<1>1. p \in Exchanges /\ Post(p, kind) /\ UNCHANGED <<account, jar>>
  BY Places DEF Form
<1>2. \A y \in Exchanges \ {p} : exchange'[y] = exchange[y]
  BY <1>1, PostMoves DEF ExchangeBecomes, ReasonInv, SessionInv
<1>3. excuse' = excuse \cup {UserOf(p)}
  BY <1>1 DEF Post
<1>4. About(UserOf(p)) /\ UserOf(p) \in Accounts
  BY <1>1, <1>2, <1>3, AboutCall DEF ReasonInv, SessionInv
<1> QED BY <1>3, <1>4, ExcusedKeeps

(* Asking for new tokens ends no session. *)
LEMMA RefreshReason ==
    ASSUME ReasonInv, SessionInv', LeaveCounted', NEW x \in Exchanges,
           jar[JarOf(x)] # 0, Post(x, "refresh"), UNCHANGED <<account, jar>>,
           ~UnderWay(x),
           x \in Requests => \A y \in Requests : TabOf[y] = TabOf[x] => ~UnderWay(y)
    PROVE  ReasonInv' /\ EndsForAReason
<1> DEFINE u == UserOf(x)
           b0 == JarOf(x)
<1>1. SessionType /\ b0 \in Browsers /\ u = AccountOf[b0] /\ u \in Accounts
  BY Places DEF ReasonInv, SessionInv
<1>2. /\ ExchangeBecomes(x, "posted", jar[b0])
      /\ exchange'[x].kind = "refresh"
  BY <1>1, PostMoves, PostedKind
<1>3. excuse' = IF Overlaps(x) THEN excuse \cup {u} ELSE excuse
  BY DEF Post
<1>4. About(u)
  BY <1>1, <1>2, <1>3, AboutCall DEF ExchangeBecomes
<1>5. ASSUME InStep(u), u \notin excuse' PROVE InStep(u)'
  <2>1. ~Overlaps(x)
    BY <1>3, <1>5
  <2>2. \A y \in Exchanges : UserOf(y) = u => ~UnderWay(y)
    <3> SUFFICES ASSUME NEW y \in Exchanges, UserOf(y) = u, UnderWay(y) PROVE FALSE
      OBVIOUS
    <3>1. y # x
      OBVIOUS
    <3>2. PageOf(y) = PageOf(x) /\ x \notin Tabs /\ y \notin Tabs
      BY <2>1, <3>1 DEF Overlaps, UnderWay
    <3>3. x \in Requests /\ y \in Requests /\ TabOf[y] = TabOf[x]
      BY <3>2 DEF PageOf, Exchanges
    <3> QED BY <3>3
  <2>3. account[u].exists /\ jar[b0] = account[u].refresh
    <3>1. \A y \in Exchanges : UserOf(y) = u => exchange[y].step # "renewed"
      BY <2>2 DEF UnderWay
    <3> QED BY <1>1, <1>5, <3>1 DEF InStep
  <2>4. \A b \in Browsers : AccountOf[b] = u /\ jar[b] # 0 => b = b0
    BY <1>1, <1>5 DEF InStep
  <2>5. \A y \in Exchanges : UserOf(y) = u /\ UnderWay(y)' => y = x
    BY <1>2, <2>2 DEF ExchangeBecomes, UnderWay
  <2>6. UnderWay(x)' /\ exchange'[x].step = "posted" /\ exchange'[x].token = jar[b0]
    BY <1>2 DEF ExchangeBecomes, UnderWay
  <2>7. account' = account /\ jar' = jar
    OBVIOUS
  <2>8. account'[u].stale = {}
    BY <1>5, <2>7 DEF InStep
  <2>9. \A b, c \in Browsers :
           AccountOf[b] = u /\ AccountOf[c] = u /\ jar'[b] # 0 /\ jar'[c] # 0 => b = c
    BY <2>4, <2>7
  <2>10. \A b \in Browsers : AccountOf[b] = u /\ jar'[b] # 0 =>
            account'[u].exists /\ jar'[b] = account'[u].refresh
    BY <2>3, <2>4, <2>7
  <2>11. \A y \in Exchanges : UserOf(y) = u /\ UnderWay(y)' =>
            /\ account'[u].exists
            /\ exchange'[y].kind = "refresh" /\ exchange'[y].step = "posted"
            /\ exchange'[y].token = account'[u].refresh
            /\ \A b \in Browsers : AccountOf[b] = u /\ jar'[b] # 0 => JarOf(y) = b
            /\ \A z \in Exchanges : UserOf(z) = u /\ UnderWay(z)' => y = z
    BY <1>2, <2>3, <2>4, <2>5, <2>6, <2>7
  <2>12. \A y : UserOf(y)' = UserOf(y) /\ JarOf(y)' = JarOf(y)
    BY DEF UserOf, JarOf, PageOf
  <2> QED BY <2>8, <2>9, <2>10, <2>11, <2>12 DEF InStep
<1>6. EndsForAReason
  BY DEF EndsForAReason
<1> QED BY <1>1, <1>4, <1>5, <1>6, ReasonKept DEF Excused

-----------------------------------------------------------------------------
(* The server answers. *)

(* A call goes on with its token: it stays the token of the row. *)
LEMMA CallGoesOn ==
    ASSUME ReasonInv, SessionInv', LeaveCounted', NEW x \in Exchanges,
           exchange[x].step = "posted", To(x, "read"), UNCHANGED <<jar, excuse>>,
           account' \in [Accounts -> AccountType],
           \A v \in Accounts \ {UserOf(x)} : account'[v] = account[v],
           account'[UserOf(x)].exists,
           account'[UserOf(x)].refresh = account[UserOf(x)].refresh,
           account'[UserOf(x)].stale = account[UserOf(x)].stale
    PROVE  ReasonInv' /\ EndsForAReason
<1> DEFINE u == UserOf(x)
<1>1. SessionType /\ u \in Accounts
  BY Places DEF ReasonInv, SessionInv
<1>2. /\ exchange'[x].step = "read" /\ exchange'[x].kind = exchange[x].kind
      /\ \A y \in Exchanges \ {x} : exchange'[y] = exchange[y]
  <2>1. exchange[x] \in ExchangeType /\ exchange \in [Exchanges -> ExchangeType]
    BY <1>1 DEF SessionType
  <2> DEFINE new == [exchange[x] EXCEPT !.step = "read"]
  <2>2. new.step = "read" /\ new.kind = exchange[x].kind
    BY <2>1 DEF ExchangeType
  <2>3. exchange' = [exchange EXCEPT ![x] = new]
    BY DEF To
  <2> HIDE DEF new
  <2> QED BY <2>1, <2>2, <2>3
<1>3. About(u)
  BY <1>1, <1>2, AboutCall
<1>4. ASSUME InStep(u) PROVE InStep(u)'
  <2>1. \A y \in Exchanges : UserOf(y) = u /\ UnderWay(y) => y = x
    BY <1>4 DEF InStep, UnderWay
  <2>2. UnderWay(x) /\ \A y \in Exchanges : UserOf(y) = u /\ UnderWay(y)' => y = x
    BY <1>2, <2>1 DEF UnderWay
  <2>3. exchange[x].kind = "refresh"
        /\ \A b \in Browsers : AccountOf[b] = u /\ jar[b] # 0 => JarOf(x) = b
    BY <1>4, <2>2 DEF InStep
  <2>4. \A b \in Browsers : AccountOf[b] = u /\ jar[b] # 0 => jar[b] = account[u].refresh
    BY <1>4, <2>1 DEF InStep, UnderWay
  <2>5. \A y : UserOf(y)' = UserOf(y) /\ JarOf(y)' = JarOf(y)
    BY DEF UserOf, JarOf, PageOf
  <2>6. \A b, c \in Browsers :
           AccountOf[b] = u /\ AccountOf[c] = u /\ jar'[b] # 0 /\ jar'[c] # 0 => b = c
    BY <1>4 DEF InStep
  <2>7. account'[u].stale = {}
    BY <1>4 DEF InStep
  <2>8. \A b \in Browsers : AccountOf[b] = u /\ jar'[b] # 0 =>
           account'[u].exists /\ jar'[b] = account'[u].refresh
    BY <2>4
  <2>9. \A y \in Exchanges : UserOf(y) = u /\ UnderWay(y)' =>
           /\ account'[u].exists
           /\ exchange'[y].kind = "refresh" /\ exchange'[y].step = "read"
           /\ \A b \in Browsers : AccountOf[b] = u /\ jar'[b] # 0 => JarOf(y) = b
           /\ \A z \in Exchanges : UserOf(z) = u /\ UnderWay(z)' => y = z
    BY <1>2, <2>2, <2>3
  <2> QED BY <2>5, <2>6, <2>7, <2>8, <2>9 DEF InStep
<1>5. EndsForAReason
  BY DEF EndsForAReason
<1> QED BY <1>1, <1>3, <1>4, <1>5, ReasonKept DEF Excused

(* An account that is granted its tokens stays in step. *)
LEMMA GrantReason ==
    ASSUME ReasonInv, SessionInv', LeaveCounted', NEW x \in Exchanges, Grant(x)
    PROVE  ReasonInv' /\ EndsForAReason
<1> DEFINE u == UserOf(x)
           new == [account[u] EXCEPT !.exists = TRUE]
<1>1. u \in Accounts /\ account[u] \in AccountType /\ account \in [Accounts -> AccountType]
  BY Places DEF ReasonInv, SessionInv, SessionType
<1>2. new \in AccountType /\ new.exists
      /\ new.refresh = account[u].refresh /\ new.stale = account[u].stale
  BY <1>1 DEF AccountType
<1>3. account' = [account EXCEPT ![u] = new]
  BY DEF Grant
<1> HIDE DEF new
<1>4. /\ account'[u] = new /\ \A v \in Accounts \ {u} : account'[v] = account[v]
      /\ account' \in [Accounts -> AccountType]
  BY <1>1, <1>2, <1>3
<1> QED BY <1>2, <1>4, CallGoesOn DEF Grant

(* The server refuses only a call whose account is excused. *)
LEMMA RefuseReason ==
    ASSUME ReasonInv, SessionInv', LeaveCounted', NEW x \in Exchanges, Refuse(x)
    PROVE  ReasonInv' /\ EndsForAReason
<1> DEFINE u == UserOf(x)
<1>1. SessionType /\ u \in Accounts
  BY Places DEF ReasonInv, SessionInv
<1>2. exchange[x].step = "posted" /\ UNCHANGED <<account, jar, excuse>>
  BY DEF Refuse
<1>3. \A y \in Exchanges \ {x} : exchange'[y] = exchange[y]
  BY <1>1, ToMoves DEF Refuse, ExchangeBecomes, ExchangeSteps
<1>4. About(u)
  BY <1>1, <1>2, <1>3, AboutCall
<1>5. ~InStep(u)
  <2> SUFFICES ASSUME InStep(u) PROVE FALSE
    OBVIOUS
  <2>1. UnderWay(x)
    BY <1>2 DEF UnderWay
  <2>2. /\ account[u].exists /\ exchange[x].kind = "refresh"
        /\ exchange[x].token = account[u].refresh
        /\ account[u].stale = {}
    BY <1>2, <2>1 DEF InStep
  <2>3. Granted(x)
    BY <2>2 DEF Granted
  <2> QED BY <2>2, <2>3 DEF Refuse
<1>6. u \in excuse'
  BY <1>1, <1>2, <1>5 DEF ReasonInv
<1> QED BY <1>1, <1>4, <1>6, ExcusedKeeps

(* An answer that is lost excuses what follows for its account. *)
LEMMA LoseReason ==
    ASSUME ReasonInv, SessionInv', LeaveCounted', NEW x \in Exchanges, Lose(x)
    PROVE  ReasonInv' /\ EndsForAReason
<1>1. SessionType
  BY DEF ReasonInv, SessionInv
<1>2. \A y \in Exchanges \ {x} : exchange'[y] = exchange[y]
  BY <1>1, ToMoves DEF Lose, ExchangeBecomes, ExchangeSteps
<1>3. UNCHANGED <<account, jar>> /\ excuse' = excuse \cup {UserOf(x)}
  BY DEF Lose
<1>4. About(UserOf(x)) /\ UserOf(x) \in Accounts
  BY <1>1, <1>2, <1>3, AboutCall
<1> QED BY <1>3, <1>4, ExcusedKeeps

(* An answer brings the tokens that were issued last. *)
LEMMA IssueReason ==
    ASSUME ReasonInv, SessionInv', LeaveCounted', NEW x \in Exchanges, Issue(x)
    PROVE  ReasonInv' /\ EndsForAReason
<1> DEFINE u == UserOf(x)
<1>1. /\ SessionType /\ u \in Accounts
      /\ account[u] \in AccountType /\ account \in [Accounts -> AccountType]
      /\ exchange[x] \in ExchangeType /\ exchange \in [Exchanges -> ExchangeType]
  BY Places DEF ReasonInv, SessionInv, SessionType
<1>2. PICK n \in {account[u].issued, account[u].issued + 1} \cap (1..MaxToken) :
        /\ account' = [account EXCEPT ![u].refresh = n, ![u].issued = n]
        /\ exchange' = [exchange EXCEPT ![x].step = "renewed", ![x].token = n]
  BY DEF Issue
<1>3. n # 0
  BY SessionAssumption
<1> DEFINE row == [account[u] EXCEPT !.refresh = n, !.issued = n]
           new == [exchange[x] EXCEPT !.step = "renewed", !.token = n]
<1>4. row.refresh = n /\ row.exists = account[u].exists /\ row.stale = account[u].stale
  BY <1>1 DEF AccountType
<1>5. new.step = "renewed" /\ new.token = n /\ new.kind = exchange[x].kind
  BY <1>1 DEF ExchangeType
<1>6. account' = [account EXCEPT ![u] = row] /\ exchange' = [exchange EXCEPT ![x] = new]
  BY <1>2
<1> HIDE DEF row, new
<1>7. /\ account'[u] = row /\ \A v \in Accounts \ {u} : account'[v] = account[v]
      /\ exchange'[x] = new /\ \A y \in Exchanges \ {x} : exchange'[y] = exchange[y]
  BY <1>1, <1>6
<1>8. exchange[x].step = "read" /\ UNCHANGED <<jar, excuse>>
  BY DEF Issue
<1>9. About(u)
  BY <1>1, <1>7, <1>8, AboutCall
<1>10. ASSUME InStep(u) PROVE InStep(u)'
  <2>1. UnderWay(x) /\ \A y \in Exchanges : UserOf(y) = u /\ UnderWay(y) => y = x
    BY <1>8, <1>10 DEF InStep, UnderWay
  <2>2. \A y \in Exchanges : UserOf(y) = u /\ UnderWay(y)' => y = x
    BY <1>7, <2>1 DEF UnderWay
  <2>3. /\ account[u].exists /\ exchange[x].kind = "refresh"
        /\ \A b \in Browsers : AccountOf[b] = u /\ jar[b] # 0 => JarOf(x) = b
    BY <1>10, <2>1 DEF InStep
  <2>4. \A y : UserOf(y)' = UserOf(y) /\ JarOf(y)' = JarOf(y)
    BY DEF UserOf, JarOf, PageOf
  <2>5. \A b, c \in Browsers :
           AccountOf[b] = u /\ AccountOf[c] = u /\ jar'[b] # 0 /\ jar'[c] # 0 => b = c
    BY <1>8, <1>10 DEF InStep
  <2>6. account'[u].stale = {}
    BY <1>4, <1>7, <1>10 DEF InStep
  <2>7. exchange'[x].step = "renewed" /\ account'[u].exists
    BY <1>4, <1>5, <1>7, <2>3
  <2>8. \A y \in Exchanges : UserOf(y) = u /\ UnderWay(y)' =>
           /\ exchange'[y].kind = "refresh" /\ exchange'[y].step = "renewed"
           /\ exchange'[y].token = account'[u].refresh /\ exchange'[y].token # 0
           /\ \A b \in Browsers : AccountOf[b] = u /\ jar'[b] # 0 => JarOf(y) = b
           /\ \A z \in Exchanges : UserOf(z) = u /\ UnderWay(z)' => y = z
    BY <1>3, <1>4, <1>5, <1>7, <1>8, <2>2, <2>3
  <2> QED BY <2>4, <2>5, <2>6, <2>7, <2>8 DEF InStep
<1>11. EndsForAReason
  BY <1>8 DEF EndsForAReason
<1> QED BY <1>1, <1>9, <1>10, <1>11, ReasonKept DEF Excused

-----------------------------------------------------------------------------
(* The client takes the answer. *)
LEMMA TakeSessionReason ==
    ASSUME ReasonInv, SessionInv', LeaveCounted', NEW x \in Exchanges, TakeSession(x)
    PROVE  ReasonInv' /\ EndsForAReason
<1> DEFINE u == UserOf(x)
           b0 == JarOf(x)
           token == exchange[x].token
<1>1. SessionType /\ b0 \in Browsers /\ u = AccountOf[b0] /\ u \in Accounts
  BY Places DEF ReasonInv, SessionInv
<1>2. /\ exchange[x].step = "renewed" /\ jar' = [jar EXCEPT ![b0] = token]
      /\ exchange' = [exchange EXCEPT ![x] = NoExchange] /\ UNCHANGED <<account, excuse>>
  BY DEF TakeSession
<1>3. /\ ~UnderWay(x)' /\ \A y \in Exchanges \ {x} : exchange'[y] = exchange[y]
      /\ jar'[b0] = token /\ \A b \in Browsers \ {b0} : jar'[b] = jar[b]
  BY <1>1, <1>2, DoneMoves DEF ExchangeBecomes, UnderWay, SessionType
<1>4. About(u)
  BY <1>1, <1>2, <1>3, AboutCall
<1>5. ASSUME InStep(u)
      PROVE  InStep(u)' /\ token # 0
  <2>1. UnderWay(x)
    BY <1>2 DEF UnderWay
  <2>2. /\ account[u].exists /\ account[u].stale = {}
        /\ token = account[u].refresh /\ token # 0
        /\ \A b \in Browsers : AccountOf[b] = u /\ jar[b] # 0 => b = b0
        /\ \A y \in Exchanges : UserOf(y) = u /\ UnderWay(y) => y = x
    BY <1>2, <1>5, <2>1 DEF InStep
  <2>3. \A b \in Browsers : AccountOf[b] = u /\ jar'[b] # 0 => b = b0
    BY <1>3, <2>2
  <2>4. \A y \in Exchanges : UserOf(y) = u => ~UnderWay(y)'
    BY <1>3, <2>2 DEF UnderWay
  <2>5. \A y : UserOf(y)' = UserOf(y)
    BY DEF UserOf, JarOf, PageOf
  <2>6. \A b \in Browsers : AccountOf[b] = u /\ jar'[b] # 0 =>
           account'[u].exists /\ jar'[b] = account'[u].refresh
    BY <1>2, <1>3, <2>2, <2>3
  <2>7. account'[u].stale = {}
    BY <1>2, <2>2
  <2> QED BY <2>2, <2>3, <2>4, <2>5, <2>6, <2>7 DEF InStep
<1>6. EndsForAReason
  <2> SUFFICES ASSUME NEW b \in Browsers, jar[b] # 0, jar'[b] = 0 PROVE AccountOf[b] \in excuse'
    BY DEF EndsForAReason
  <2>1. b = b0 /\ token = 0
    BY <1>3
  <2> QED BY <1>1, <1>2, <1>5, <2>1 DEF ReasonInv
<1> QED BY <1>1, <1>4, <1>5, <1>6, ReasonKept DEF Excused

(* A refusal that is taken has a reason. *)
LEMMA TakeRefusalReason ==
    ASSUME ReasonInv, SessionInv', LeaveCounted', NEW x \in Exchanges, TakeRefusal(x)
    PROVE  ReasonInv' /\ EndsForAReason
<1> DEFINE u == UserOf(x)
<1>1. SessionType /\ u \in Accounts
  BY Places DEF ReasonInv, SessionInv
<1>2. /\ exchange[x].step = "refused" /\ exchange' = [exchange EXCEPT ![x] = NoExchange]
      /\ UNCHANGED <<account, excuse>>
      /\ LogOut(x) \/ UNCHANGED jar
  BY DEF TakeRefusal
<1>3. \A y \in Exchanges \ {x} : exchange'[y] = exchange[y]
  BY <1>1, <1>2, DoneMoves DEF ExchangeBecomes
<1>4. \A b \in Browsers \ {JarOf(x)} : jar'[b] = jar[b]
  BY <1>1, <1>2, LogOutMoves
<1>5. About(u)
  BY <1>1, <1>2, <1>3, <1>4, AboutCall
<1>6. ~InStep(u)
  <2>1. UnderWay(x)
    BY <1>2 DEF UnderWay
  <2> QED BY <1>2, <2>1 DEF InStep
<1>7. u \in excuse'
  BY <1>1, <1>2, <1>6 DEF ReasonInv
<1> QED BY <1>1, <1>5, <1>7, ExcusedKeeps

-----------------------------------------------------------------------------
(* The requests. *)
LEMMA RequestReason ==
    ASSUME ReasonInv, SessionInv', LeaveCounted', NEW r \in Requests,
           Send(r) \/ Admit(r) \/ Deny(r) \/ HandleDenial(r) \/ Enter(r) \/ Respond(r)
    PROVE  ReasonInv' /\ EndsForAReason
<1>0. r \in Exchanges
  BY Places
<1>1. CASE UNCHANGED <<account, jar, exchange, excuse>>
  BY <1>1, UntouchedKeeps
<1>2. CASE LogOut(r) /\ excuse' = excuse \cup {UserOf(r)} /\ UNCHANGED <<account, exchange>>
  BY <1>0, <1>2, ErrorKeeps
<1>3. CASE Send(r) \/ Admit(r) \/ Enter(r) \/ Respond(r)
  BY <1>1, <1>2, <1>3 DEF Send, Admit, Enter, Respond
<1>4. CASE Deny(r)
  <2>0. request[r].turn \in {"first", "waited", "own"} /\ UNCHANGED <<account, exchange>>
    BY <1>4 DEF Deny, ReasonInv, SessionInv, SessionType, RequestType
  <2>1. CASE request[r].turn = "first"
    BY <1>1, <1>4, <2>0, <2>1 DEF Deny
  <2>2. CASE request[r].turn = "waited"
    BY <1>1, <1>4, <2>0, <2>2 DEF Deny
  <2>3. CASE request[r].turn = "own"
    BY <1>2, <1>4, <2>0, <2>3 DEF Deny
  <2> QED BY <2>0, <2>1, <2>2, <2>3
<1>5. CASE HandleDenial(r)
  <2>1. CASE Renew(r) /\ jar[JarOf(r)] # 0 /\ ~tab[TabOf[r]].refreshing
    <3>1. \A y \in Requests : TabOf[y] = TabOf[r] => ~UnderWay(y)
      BY <2>1 DEF ReasonInv, SessionInv, OneRefresh, UnderWay
    <3> QED BY <1>0, <2>1, <3>1, RefreshReason DEF Renew
  <2> QED BY <1>1, <1>5, <2>1 DEF HandleDenial
<1> QED BY <1>3, <1>4, <1>5

(* Every step keeps the invariant, and ends a session for a reason only. *)
LEMMA ReasonStep ==
    ASSUME ReasonInv, [Next]_vars
    PROVE  ReasonInv' /\ [EndsForAReason]_sessionVars
<1>1. SessionInv' /\ LeaveCounted'
  BY SessionInvStep, LeaveKept, StepsOfSessions DEF ReasonInv
<1>2. CASE UNCHANGED sessionVars
  BY <1>1, <1>2, UntouchedKeeps DEF sessionVars
<1>3. CASE SessionStep
  <2>1. ASSUME NEW p \in Tabs, Timer(p) PROVE ReasonInv' /\ EndsForAReason
    <3>1. p \in Exchanges /\ p \notin Requests /\ ~UnderWay(p)
      BY <2>1, Places DEF Timer, UnderWay
    <3> QED BY <1>1, <2>1, <3>1, RefreshReason DEF Timer
  <2>2. ASSUME NEW x \in Exchanges, Serves(x) PROVE ReasonInv' /\ EndsForAReason
    BY <1>1, <2>2, GrantReason, RefuseReason, IssueReason, LoseReason DEF Serves
  <2> QED BY <1>1, <1>3, <2>1, <2>2, LapseReason, LeaveReason, FormReason,
             TakeSessionReason, TakeRefusalReason, RequestReason DEF SessionStep
<1> QED BY <1>2, <1>3, StepsOfSessions

(* The first state satisfies it. *)
LEMMA ReasonInit == Init => ReasonInv
<1> SUFFICES ASSUME Init PROVE ReasonInv
  OBVIOUS
<1>1. PICK s \in Scenarios : SessionInit(s.session)
  BY DEF Init
<1>2. /\ \A b \in s.session.open \cap Browsers : AccountOf[b] \in s.session.users
      /\ \A b, c \in s.session.open \cap Browsers : AccountOf[b] = AccountOf[c] => b = c
      /\ s.session.budget \in [lapse : Nat, form : Nat, timer : Nat, lose : Nat, leave : Nat,
                               send : [Requests -> Nat]]
  BY ServerAssumption
<1>3. LeaveCounted
  BY <1>1, <1>2 DEF SessionInit, LeaveCounted
<1>4. ASSUME NEW u \in Accounts PROVE InStep(u)
  <2>1. \A x \in Exchanges : ~UnderWay(x)
    BY <1>1 DEF SessionInit, NoExchange, UnderWay
  <2>2. account[u].stale = {}
    BY <1>1 DEF SessionInit
  <2>3. \A b \in Browsers : jar[b] # 0 => b \in s.session.open /\ jar[b] = 1
    BY <1>1 DEF SessionInit
  <2>4. \A b \in Browsers : AccountOf[b] = u /\ jar[b] # 0 =>
           account[u].exists /\ jar[b] = account[u].refresh
    BY <1>1, <1>2, <2>3 DEF SessionInit
  <2> QED BY <1>2, <2>1, <2>2, <2>3, <2>4 DEF InStep
<1> QED BY <1>3, <1>4, SessionInvInit DEF ReasonInv

-----------------------------------------------------------------------------
(* A session in a browser ends only if its user leaves or the account is     *)
(* excused: calls of /auth in different tabs overlapped, a form or a timer   *)
(* among them, an answer was lost, the refresh token ran out, or a request   *)
(* that had refreshed got an error.  Until then the token in the cookies, in *)
(* the call under way or in its answer is always the one RefreshToken        *)
(* compares with (user_service.go), however many requests of the tab get a   *)
(* 401, whenever they are sent again, and whenever access tokens lapse.      *)
THEOREM SessionsLast == Spec => SessionEndsForAReason
<1>1. ReasonInv /\ [Next]_vars => ReasonInv' /\ [EndsForAReason]_sessionVars
  BY ReasonStep
<1> QED BY ReasonInit, <1>1, PTL DEF Spec, SessionEndsForAReason, EndsForAReason

-----------------------------------------------------------------------------
(* What an event starts: the proof of FiresByTheRules; and what belongs        *)
(* together in the rows it reads: the proof of RowsConsistent; for any         *)
(* triggers, rules, links, sources and requests.                               *)
-----------------------------------------------------------------------------

(* What a round carries from one of its statements to the next. *)
RoundShape ==
    /\ round.step = "links" =>
          round = [step |-> "links", seen |-> round.seen, rules |-> round.rules]
    /\ round.step = "poll" =>
          round = [step |-> "poll", seen |-> round.seen, rules |-> round.rules,
                   links |-> round.links, at |-> round.at, todo |-> round.todo]

(* The rules of the round's copy are those of the table, but for those written *)
(* since the round began.                                                      *)
RulesFollowed ==
    \A t \in DOMAIN round.seen :
        /\ \A r \in LiveRules(t) : Steady("rule", r) => rule[r].conditions \in round.rules[t]
        /\ (\A r \in DOMAIN rule : Steady("rule", r)) =>
              \A conditions \in round.rules[t] :
                  \E r \in LiveRules(t) : rule[r].conditions = conditions

LinksFollowed ==
    \A t \in DOMAIN round.seen :
        /\ \A l \in round.links[t] :
              Steady("link", l) => l \in DOMAIN link /\ link[l].trig = t
        /\ \A l \in DOMAIN link :
              link[l].trig = t /\ Steady("link", l) => l \in round.links[t]

RoundInv ==
    /\ RoundShape
    /\ round.step \in {"links", "poll"} => RulesFollowed
    /\ round.step = "poll" => LinksFollowed /\ round.todo \subseteq DOMAIN round.seen

RulesInv == RoundInv /\ FiresByTheRules

(* A step of a request, or of the job service: what it writes it touches. *)
Writes ==
    /\ UNCHANGED <<round, outcome>>
    /\ touched \subseteq touched'
    /\ DOMAIN rule \subseteq DOMAIN rule'
    /\ \A r \in DOMAIN rule' :
          <<"rule", r>> \notin touched' => r \in DOMAIN rule /\ rule'[r] = rule[r]
    /\ \A l \in DOMAIN link \cup DOMAIN link' :
          <<"link", l>> \notin touched' =>
              l \in DOMAIN link /\ l \in DOMAIN link' /\ link'[l] = link[l]

(* The history of a round is kept up by those who write. *)
LEMMA WritesKeep ==
    ASSUME RulesInv, Writes
    PROVE  RulesInv'
<1>1. RoundShape'
  BY DEF RulesInv, RoundInv, RoundShape, Writes
<1>2. \A kind, id : Steady(kind, id)' => Steady(kind, id)
  BY DEF Steady, Writes
<1>3. \A r \in DOMAIN rule' : Steady("rule", r)' => r \in DOMAIN rule /\ rule'[r] = rule[r]
  BY DEF Steady, Writes
<1>4. \A l \in DOMAIN link \cup DOMAIN link' : Steady("link", l)' =>
         l \in DOMAIN link /\ l \in DOMAIN link' /\ link'[l] = link[l]
  BY DEF Steady, Writes
<1>5. \A t : \A r \in LiveRules(t)' : Steady("rule", r)' =>
         r \in LiveRules(t) /\ rule'[r] = rule[r]
  BY <1>3 DEF LiveRules
<1>6. ASSUME \A r \in DOMAIN rule' : Steady("rule", r)'
      PROVE  /\ DOMAIN rule' = DOMAIN rule /\ \A r \in DOMAIN rule : rule'[r] = rule[r]
             /\ \A r \in DOMAIN rule : Steady("rule", r)
             /\ \A t : LiveRules(t)' = LiveRules(t)
  <2>1. DOMAIN rule' = DOMAIN rule
    BY <1>3, <1>6 DEF Writes
  <2>2. \A r \in DOMAIN rule : rule'[r] = rule[r] /\ Steady("rule", r)
    BY <1>2, <1>3, <1>6, <2>1
  <2>3. \A t : LiveRules(t)' = LiveRules(t)
    BY <2>1, <2>2 DEF LiveRules
  <2> QED BY <2>1, <2>2, <2>3
<1>7. ASSUME RulesFollowed PROVE RulesFollowed'
  <2> SUFFICES ASSUME NEW t \in DOMAIN round.seen
               PROVE  /\ \A r \in LiveRules(t)' : Steady("rule", r)' =>
                            rule'[r].conditions \in round.rules[t]
                      /\ (\A r \in DOMAIN rule' : Steady("rule", r)') =>
                            \A conditions \in round.rules[t] :
                                \E r \in LiveRules(t)' : rule'[r].conditions = conditions
    BY DEF RulesFollowed, Writes
  <2>1. \A r \in LiveRules(t)' : Steady("rule", r)' => rule'[r].conditions \in round.rules[t]
    BY <1>2, <1>5, <1>7 DEF RulesFollowed
  <2>2. ASSUME \A r \in DOMAIN rule' : Steady("rule", r)',
               NEW conditions \in round.rules[t]
        PROVE  \E r \in LiveRules(t)' : rule'[r].conditions = conditions
    <3>1. PICK r \in LiveRules(t) : rule[r].conditions = conditions
      BY <1>6, <1>7, <2>2 DEF RulesFollowed
    <3>2. r \in DOMAIN rule
      BY DEF LiveRules
    <3> QED BY <1>6, <2>2, <3>1, <3>2
  <2> QED BY <2>1, <2>2
<1>8. ASSUME LinksFollowed PROVE LinksFollowed'
  BY <1>2, <1>4, <1>8 DEF LinksFollowed, Writes
<1>9. RoundInv'
  BY <1>1, <1>7, <1>8 DEF RulesInv, RoundInv, Writes
<1>10. FiresByTheRules'
  <2> SUFFICES ASSUME outcome # Nothing, NEW t, t = outcome.trig
               PROVE  /\ outcome.links # {} => \A r \in LiveRules(t)' : Steady("rule", r)' =>
                            EventMatchesRule(outcome.event, rule'[r].conditions)
                      /\ \A l \in outcome.links :
                            Steady("link", l)' => l \in DOMAIN link' /\ link'[l].trig = t
                      /\ (\A r \in DOMAIN rule' : Steady("rule", r)') /\ Accepts(t, outcome.event)' =>
                            \A l \in DOMAIN link' :
                                link'[l].trig = t /\ Steady("link", l)' => l \in outcome.links
    BY DEF FiresByTheRules, Writes
  <2>1. /\ outcome.links # {} => \A r \in LiveRules(t) : Steady("rule", r) =>
              EventMatchesRule(outcome.event, rule[r].conditions)
        /\ \A l \in outcome.links : Steady("link", l) => l \in DOMAIN link /\ link[l].trig = t
        /\ (\A r \in DOMAIN rule : Steady("rule", r)) /\ Accepts(t, outcome.event) =>
              \A l \in DOMAIN link : link[l].trig = t /\ Steady("link", l) => l \in outcome.links
    BY DEF RulesInv, FiresByTheRules
  <2>2. ASSUME outcome.links # {}, NEW r \in LiveRules(t)', Steady("rule", r)'
        PROVE  EventMatchesRule(outcome.event, rule'[r].conditions)
    <3>1. r \in LiveRules(t) /\ rule'[r] = rule[r] /\ Steady("rule", r)
      BY <1>2, <1>5, <2>2
    <3>2. EventMatchesRule(outcome.event, rule[r].conditions)
      BY <2>1, <2>2, <3>1
    <3> QED BY <3>1, <3>2
  <2>3. \A l \in outcome.links :
           Steady("link", l)' => l \in DOMAIN link' /\ link'[l].trig = t
    BY <1>2, <1>4, <2>1
  <2>4. ASSUME \A r \in DOMAIN rule' : Steady("rule", r)', Accepts(t, outcome.event)',
               NEW l \in DOMAIN link', link'[l].trig = t, Steady("link", l)'
        PROVE  l \in outcome.links
    <3>1. l \in DOMAIN link /\ link[l].trig = t /\ Steady("link", l)
      BY <1>2, <1>4, <2>4
    <3>2. \A r \in LiveRules(t) : r \in LiveRules(t)' /\ r \in DOMAIN rule
      <4>1. LiveRules(t)' = LiveRules(t)
        BY <1>6, <2>4
      <4> QED BY <4>1 DEF LiveRules
    <3>3. \A r \in LiveRules(t) : rule'[r] = rule[r]
      BY <1>6, <2>4, <3>2
    <3>4. \A r \in LiveRules(t)' : EventMatchesRule(outcome.event, rule'[r].conditions)
      BY <2>4 DEF Accepts, Writes
    <3>5. Accepts(t, outcome.event)
      BY <3>2, <3>3, <3>4 DEF Accepts
    <3>6. \A r \in DOMAIN rule : Steady("rule", r)
      BY <1>6, <2>4
    <3> QED BY <2>1, <3>1, <3>5, <3>6
  <2> QED BY <2>2, <2>3, <2>4
<1> QED BY <1>9, <1>10 DEF RulesInv

-----------------------------------------------------------------------------
(* The steps of the requests. *)

(* A step that leaves the tables of a round alone. *)
LEMMA QuietWrites ==
    ASSUME UNCHANGED <<rule, link, round, outcome>>, touched \subseteq touched'
    PROVE  Writes
BY DEF Writes

(* A rule is written. *)
LEMMA RuleWrites ==
    ASSUME NEW c, NEW r, NEW new, WriteRule(c, r, new)
    PROVE  Writes
<1>1. rule' = Stored(rule, r, new) /\ touched' = touched \cup {<<"rule", r>>}
  BY DEF WriteRule, Touch
<1>2. DOMAIN rule' = DOMAIN rule \cup {r} /\ \A i \in DOMAIN rule \ {r} : rule'[i] = rule[i]
  BY <1>1 DEF Stored
<1>3. UNCHANGED <<link, round, outcome>>
  BY DEF WriteRule
<1> QED BY <1>1, <1>2, <1>3 DEF Writes

(* Links are dropped. *)
LEMMA DropWrites ==
    ASSUME NEW gone, DropLinks(gone), UNCHANGED <<rule, round, outcome>>
    PROVE  Writes
<1>1. /\ link' = [l \in DOMAIN link \ gone |-> link[l]]
      /\ touched' = touched \cup {<<"link", l>> : l \in gone}
  BY DEF DropLinks, Touch
<1>2. \A l \in DOMAIN link \cup DOMAIN link' : <<"link", l>> \notin touched' =>
         l \in DOMAIN link /\ l \in DOMAIN link' /\ link'[l] = link[l]
  BY <1>1
<1> QED BY <1>1, <1>2 DEF Writes

(* A link is written. *)
LEMMA InsertWrites ==
    ASSUME NEW c, Insert(c)
    PROVE  Writes
<1> DEFINE l == serial.link + 1
<1> DEFINE new == [trig |-> call[c].trig, job |-> call[c].job]
<1>1. link' = Stored(link, l, new) /\ touched' = touched \cup {<<"link", l>>}
  BY DEF Insert, Touch
<1>2. DOMAIN link' = DOMAIN link \cup {l} /\ \A i \in DOMAIN link \ {l} : link'[i] = link[i]
  <2> HIDE DEF l, new
  <2> QED BY <1>1 DEF Stored
<1>3. UNCHANGED <<rule, round, outcome>>
  BY DEF Insert
<1> HIDE DEF l
<1> QED BY <1>1, <1>2, <1>3 DEF Writes

(* What a request writes, it has touched. *)
LEMMA RequestWrites ==
    ASSUME NEW c, Works(c) \/ Begins(c)
    PROVE  Writes
<1>1. CASE Find(c) \/ FindJob(c) \/ GiveUp(c)
  BY <1>1, QuietWrites DEF Find, FindJob, GiveUp, rows
<1>2. CASE Patch(c) \/ Pause(c) \/ Delete(c)
  BY <1>2, QuietWrites DEF Patch, Pause, Delete, UpdateRow, Touch
<1>3. CASE UpdateConfig(c) \/ Activate(c)
  BY <1>3, QuietWrites DEF UpdateConfig, Activate, SaveRow, Touch
<1>4. CASE Create(c)
  BY <1>4, QuietWrites DEF Create, Touch
<1>5. CASE \E t \in DOMAIN trigger : Check(c, t)
  BY <1>5, QuietWrites DEF Check, rows
<1>6. CASE AddRule(c)
  BY <1>6, RuleWrites DEF AddRule
<1>7. CASE UpdateRule(c)
  BY <1>7, RuleWrites DEF UpdateRule
<1>8. CASE DeleteRule(c)
  BY <1>8, RuleWrites DEF DeleteRule
<1>9. CASE InsertLink(c)
  BY <1>9, InsertWrites DEF InsertLink
<1>10. CASE UnlinkJob(c)
  BY <1>10, DropWrites DEF UnlinkJob
<1> QED BY <1>1, <1>2, <1>3, <1>4, <1>5, <1>6, <1>7, <1>8, <1>9, <1>10 DEF Works, Begins

-----------------------------------------------------------------------------
(* The steps of a round. *)

(* A round that begins has read no rules yet. *)
LEMMA ReadTriggersKeeps ==
    ASSUME RulesInv, ReadTriggers
    PROVE  RulesInv'
<1>1. round'.step = "rules" /\ outcome' = Nothing
  BY DEF ReadTriggers
<1> QED BY <1>1 DEF RulesInv, RoundInv, RoundShape, FiresByTheRules

(* Nothing that has been said of an outcome is about the round. *)
LEMMA OutcomeKept ==
    ASSUME FiresByTheRules, UNCHANGED <<rule, link, touched, outcome>>
    PROVE  FiresByTheRules'
BY DEF FiresByTheRules, Steady, LiveRules, Accepts

(* A round reads the rules that live. *)
LEMMA ReadRulesKeeps ==
    ASSUME RulesInv, ReadRules
    PROVE  RulesInv'
<1>1. /\ round' = [step |-> "links", seen |-> round.seen,
                   rules |-> [t \in DOMAIN round.seen |-> {rule[r].conditions : r \in LiveRules(t)}]]
      /\ UNCHANGED <<rule, link, touched, outcome>>
  BY DEF ReadRules, rows
<1>2. RoundShape' /\ round'.step = "links"
  BY <1>1 DEF RoundShape
<1>3. RulesFollowed'
  BY <1>1 DEF RulesFollowed, LiveRules, Steady
<1>4. FiresByTheRules'
  BY <1>1, OutcomeKept DEF RulesInv
<1> QED BY <1>2, <1>3, <1>4 DEF RulesInv, RoundInv

(* A round reads the links, and begins to poll. *)
LEMMA ReadLinksKeeps ==
    ASSUME RulesInv, ReadLinks
    PROVE  RulesInv'
<1>1. /\ round' = [step |-> "poll", seen |-> round.seen, rules |-> round.rules,
                   links |-> [t \in DOMAIN round.seen |-> {l \in DOMAIN link : link[l].trig = t}],
                   at |-> clock, todo |-> DOMAIN round.seen]
      /\ UNCHANGED <<rule, link, touched, outcome>>
      /\ round.step = "links"
  BY DEF ReadLinks, rows
<1>2. RoundShape' /\ round'.step = "poll" /\ round'.todo \subseteq DOMAIN round'.seen
  BY <1>1 DEF RoundShape
<1>3. RulesFollowed'
  BY <1>1 DEF RulesInv, RoundInv, RulesFollowed, LiveRules, Steady
<1>4. LinksFollowed'
  BY <1>1 DEF LinksFollowed, Steady
<1>5. FiresByTheRules'
  BY <1>1, OutcomeKept DEF RulesInv
<1> QED BY <1>2, <1>3, <1>4, <1>5 DEF RulesInv, RoundInv

(* The round goes on without a trigger, or is over. *)
LEMMA DoneKeeps ==
    ASSUME RulesInv, NEW t, round.step = "poll", Done(t),
           UNCHANGED <<rule, link, touched>>
    PROVE  RoundInv'
<1>1. round = [step |-> "poll", seen |-> round.seen, rules |-> round.rules,
               links |-> round.links, at |-> round.at, todo |-> round.todo]
  BY DEF RulesInv, RoundInv, RoundShape
<1>2. CASE round' = Off
  BY <1>2 DEF RoundInv, RoundShape, Off
<1>3. CASE round' = [round EXCEPT !.todo = @ \ {t}]
  <2>1. round' = [step |-> "poll", seen |-> round.seen, rules |-> round.rules,
                  links |-> round.links, at |-> round.at, todo |-> round.todo \ {t}]
    BY <1>1, <1>3
  <2>2. RoundShape' /\ round'.step = "poll" /\ round'.todo \subseteq DOMAIN round'.seen
    BY <2>1 DEF RulesInv, RoundInv, RoundShape
  <2>3. RulesFollowed' /\ LinksFollowed'
    BY <2>1 DEF RulesInv, RoundInv, RulesFollowed, LinksFollowed, LiveRules, Steady
  <2> QED BY <2>2, <2>3 DEF RoundInv
<1> QED BY <1>2, <1>3 DEF Done

(* What the poll lets through is what the tables say, where they have not been *)
(* written since the round began.                                             *)
LEMMA PollKeeps ==
    ASSUME RulesInv, NEW t, round.step = "poll", t \in round.todo, Poll(t)
    PROVE  RulesInv'
<1>1. Done(t) /\ UNCHANGED <<rule, link, touched>>
  BY DEF Poll, Polled
<1>2. RoundInv'
  BY <1>1, DoneKeeps
<1>3. PICK event \in Incoming(round.seen[t]) :
         outcome' = [trig |-> t, event |-> event,
                     links |-> IF EventMatchesRules(event, round.rules[t])
                               THEN round.links[t] ELSE {}]
  BY DEF Poll
<1>4. t \in DOMAIN round.seen /\ RulesFollowed /\ LinksFollowed
  BY DEF RulesInv, RoundInv
<1>5. /\ outcome'.trig = t /\ outcome'.event = event
      /\ outcome'.links = IF EventMatchesRules(event, round.rules[t]) THEN round.links[t] ELSE {}
  BY <1>3
<1>6. ASSUME outcome'.links # {}, NEW r \in LiveRules(t), Steady("rule", r)
      PROVE  EventMatchesRule(event, rule[r].conditions)
  BY <1>4, <1>5, <1>6 DEF RulesFollowed, EventMatchesRules
<1>7. \A l \in outcome'.links : Steady("link", l) => l \in DOMAIN link /\ link[l].trig = t
  BY <1>4, <1>5 DEF LinksFollowed
<1>8. ASSUME \A r \in DOMAIN rule : Steady("rule", r), Accepts(t, event),
             NEW l \in DOMAIN link, link[l].trig = t, Steady("link", l)
      PROVE  l \in outcome'.links
  <2>1. ASSUME NEW conditions \in round.rules[t]
        PROVE  EventMatchesRule(event, conditions)
    <3>1. PICK r \in LiveRules(t) : rule[r].conditions = conditions
      BY <1>4, <1>8 DEF RulesFollowed
    <3> QED BY <1>8, <3>1 DEF Accepts
  <2>2. EventMatchesRules(event, round.rules[t])
    BY <2>1 DEF EventMatchesRules
  <2>3. l \in round.links[t]
    BY <1>4, <1>8 DEF LinksFollowed
  <2> QED BY <1>5, <2>2, <2>3
<1>9. FiresByTheRules'
  <2>1. /\ \A r : Steady("rule", r)' <=> Steady("rule", r)
        /\ \A l : Steady("link", l)' <=> Steady("link", l)
        /\ LiveRules(t)' = LiveRules(t)
        /\ Accepts(t, event)' <=> Accepts(t, event)
    BY <1>1 DEF Steady, LiveRules, Accepts
  <2>2. Accepts(outcome.trig, outcome.event)' <=> Accepts(t, event)'
    BY <1>5 DEF Accepts, LiveRules
  <2>3. LiveRules(outcome.trig)' = LiveRules(t)
    BY <1>5, <2>1 DEF LiveRules
  <2> QED BY <1>1, <1>5, <1>6, <1>7, <1>8, <2>1, <2>2, <2>3 DEF FiresByTheRules
<1> QED BY <1>2, <1>9 DEF RulesInv

(* Every step of a round keeps the invariant of the rules. *)
LEMMA DispatcherKeeps ==
    ASSUME RulesInv, Dispatcher
    PROVE  RulesInv'
<1>1. CASE ReadTriggers \/ ReadRules \/ ReadLinks
  BY <1>1, ReadTriggersKeeps, ReadRulesKeeps, ReadLinksKeeps
<1>2. ASSUME round.step = "poll", NEW t \in round.todo,
             Skip(t) \/ Poll(t) \/ PollNothing(t) \/ PollFails(t)
      PROVE  RulesInv'
  <2>1. CASE Skip(t)
    <3>1. Done(t) /\ UNCHANGED <<rule, link, touched, outcome>>
      BY <2>1 DEF Skip, rows
    <3> QED BY <1>2, <3>1, DoneKeeps, OutcomeKept DEF RulesInv
  <2>2. CASE Poll(t)
    BY <1>2, <2>2, PollKeeps
  <2>3. CASE PollNothing(t) \/ PollFails(t)
    <3>1. Done(t) /\ UNCHANGED <<rule, link, touched>> /\ outcome' = Nothing
      BY <2>3 DEF PollNothing, PollFails, Polled
    <3>2. RoundInv'
      BY <1>2, <3>1, DoneKeeps
    <3> QED BY <3>1, <3>2 DEF RulesInv, FiresByTheRules
  <2> QED BY <1>2, <2>1, <2>2, <2>3
<1> QED BY <1>1, <1>2 DEF Dispatcher

-----------------------------------------------------------------------------
(* An event starts the linked jobs of its trigger by the rules of the tables, *)
(* with any triggers, rules, links and sources, and whatever requests write   *)
(* them between the statements of the round.                                  *)
THEOREM RulesObeyed == Spec => []FiresByTheRules
<1>1. Init => RulesInv
  <2> SUFFICES ASSUME Init PROVE RulesInv
    OBVIOUS
  <2>1. round = Off /\ outcome = Nothing
    BY DEF Init, AdminInit
  <2> QED BY <2>1 DEF RulesInv, RoundInv, RoundShape, FiresByTheRules, Off
<1>2. RulesInv /\ [Next]_vars => RulesInv'
  <2> SUFFICES ASSUME RulesInv, [Next]_vars PROVE RulesInv'
    OBVIOUS
  <2>1. CASE UNCHANGED adminVars
    BY <2>1, WritesKeep, QuietWrites DEF adminVars, rows
  <2>2. ASSUME NEW r, Works(r) \/ Begins(r) PROVE RulesInv'
    BY <2>2, WritesKeep, RequestWrites
  <2>3. CASE Dispatcher
    BY <2>3, DispatcherKeeps
  <2>4. CASE Tick
    BY <2>4, WritesKeep, QuietWrites DEF Tick, rows
  <2>5. ASSUME NEW j, DropJob(j) PROVE RulesInv'
    BY <2>5, WritesKeep, DropWrites DEF DropJob
  <2>6. CASE UNCHANGED vars
    BY <2>1, <2>6 DEF vars
  <2> QED BY <2>1, <2>2, <2>3, <2>4, <2>5, <2>6 DEF Next, Handle, Answer
<1>3. RulesInv => FiresByTheRules
  BY DEF RulesInv
<1> QED BY <1>1, <1>2, <1>3, PTL DEF Spec
-----------------------------------------------------------------------------
(* The rows of the tables, and the copies of them that requests and rounds    *)
(* carry.                                                                     *)
SoundRow(row, now) ==
    /\ DOMAIN row = TriggerFields
    /\ row.status \in {"active", "paused", "error"}
    /\ row.last \in 0..now \cup {Never}
    /\ ValidConfig(row.type, row.config)
    /\ row.interval \in Int
    /\ row.type = "cron" => WellSet(row.config.clock)

SoundCall(state, ids, now) ==
    \/ state = Idle
    \/ state = [step |-> "checked", trig |-> state.trig] /\ state.trig \in ids
    \/ /\ state = [step |-> "linking", trig |-> state.trig, job |-> state.job]
       /\ state.trig \in ids /\ state.job \in STRING
    \/ /\ state = [step |-> "found", trig |-> state.trig, row |-> state.row]
       /\ state.trig \in ids /\ SoundRow(state.row, now)

TriggersSound ==
    /\ DOMAIN serial = {"trigger", "rule", "link"} /\ serial.trigger \in Nat
    /\ DOMAIN trigger = 1..serial.trigger /\ serial.trigger <= MaxTrigger
    /\ \A t \in DOMAIN trigger : SoundRow(trigger[t], clock)

RulesOwned ==
    \A r \in DOMAIN rule :
        DOMAIN rule[r] = {"trig", "conditions", "live"} /\ rule[r].trig \in DOMAIN trigger

LinksOwned ==
    /\ jobs \subseteq STRING
    /\ \A l \in DOMAIN link : link[l].trig \in DOMAIN trigger /\ link[l].job \in jobs

CallsSound ==
    DOMAIN call = Callers /\ \A c \in Callers : SoundCall(call[c], DOMAIN trigger, clock)

RoundStarted ==
    /\ RoundShape
    /\ round.step \in {"rules", "links"} => DOMAIN round.seen # {}
    /\ round.step = "poll" => round.todo # {} /\ round.todo \subseteq DOMAIN round.seen

RowsInv ==
    clock \in Nat /\ TriggersSound /\ RulesOwned /\ LinksOwned /\ CallsSound /\ RoundStarted

(* What is sound stays so as time goes on and triggers are added. *)
LEMMA SoundLater ==
    ASSUME NEW now \in Nat, NEW later \in Nat, now <= later, NEW ids, NEW more, ids \subseteq more
    PROVE  /\ \A row : SoundRow(row, now) => SoundRow(row, later)
           /\ \A state : SoundCall(state, ids, now) => SoundCall(state, more, later)
<1>1. \A row : SoundRow(row, now) => SoundRow(row, later)
  BY DEF SoundRow
<1>2. ASSUME NEW state, SoundCall(state, ids, now) PROVE SoundCall(state, more, later)
  <2>1. CASE state = Idle
    BY <2>1 DEF SoundCall
  <2>2. CASE state = [step |-> "checked", trig |-> state.trig] /\ state.trig \in ids
    BY <2>2 DEF SoundCall
  <2>3. CASE /\ state = [step |-> "linking", trig |-> state.trig, job |-> state.job]
             /\ state.trig \in ids /\ state.job \in STRING
    BY <2>3 DEF SoundCall
  <2>4. CASE /\ state = [step |-> "found", trig |-> state.trig, row |-> state.row]
             /\ state.trig \in ids /\ SoundRow(state.row, now)
    BY <1>1, <2>4 DEF SoundCall
  <2> QED BY <1>2, <2>1, <2>2, <2>3, <2>4 DEF SoundCall
<1> QED BY <1>1, <1>2

(* The requests go on while one of them moves. *)
LEMMA CallsMove ==
    ASSUME RowsInv, clock' = clock, DOMAIN trigger \subseteq DOMAIN trigger', NEW c \in Callers,
           NEW state, SoundCall(state, DOMAIN trigger', clock),
           call' = [call EXCEPT ![c] = state]
    PROVE  CallsSound'
<1>1. \A d \in Callers : SoundCall(call[d], DOMAIN trigger', clock)
  <2>1. \A s : SoundCall(s, DOMAIN trigger, clock) => SoundCall(s, DOMAIN trigger', clock)
    BY SoundLater DEF RowsInv
  <2> QED BY <2>1 DEF RowsInv, CallsSound
<1>2. DOMAIN call' = Callers /\ \A d \in Callers : call'[d] = IF d = c THEN state ELSE call[d]
  BY DEF RowsInv, CallsSound
<1> QED BY <1>1, <1>2 DEF CallsSound

(* Nothing but the calls. *)
LEMMA OnlyCalls ==
    ASSUME RowsInv, UNCHANGED <<rows, round, clock>>, CallsSound'
    PROVE  RowsInv'
BY DEF RowsInv, rows, TriggersSound, RulesOwned, LinksOwned, RoundStarted, RoundShape

(* What a request that is past its start has. *)
LEMMA CallHas ==
    ASSUME RowsInv, NEW c \in Callers
    PROVE  /\ call[c].step \in {"checked", "found", "linking"} => call[c].trig \in DOMAIN trigger
           /\ call[c].step = "found" => SoundRow(call[c].row, clock)
           /\ call[c].step = "linking" => call[c].job \in STRING
<1>1. SoundCall(call[c], DOMAIN trigger, clock)
  BY DEF RowsInv, CallsSound
<1> HIDE DEF RowsInv
<1>2. CASE call[c] = Idle
  <2>1. call[c].step = "idle"
    BY <1>2 DEF Idle
  <2> QED BY <2>1
<1>3. CASE call[c] = [step |-> "checked", trig |-> call[c].trig] /\ call[c].trig \in DOMAIN trigger
  <2>1. call[c].step = "checked"
    BY <1>3
  <2> QED BY <1>3, <2>1
<1>4. CASE /\ call[c] = [step |-> "linking", trig |-> call[c].trig, job |-> call[c].job]
           /\ call[c].trig \in DOMAIN trigger /\ call[c].job \in STRING
  <2>1. call[c].step = "linking"
    BY <1>4
  <2> QED BY <1>4, <2>1
<1>5. CASE /\ call[c] = [step |-> "found", trig |-> call[c].trig, row |-> call[c].row]
           /\ call[c].trig \in DOMAIN trigger /\ SoundRow(call[c].row, clock)
  <2>1. call[c].step = "found"
    BY <1>5
  <2> QED BY <1>5, <2>1
<1> QED BY <1>1, <1>2, <1>3, <1>4, <1>5 DEF SoundCall

(* A row of a trigger may be replaced by a sound one. *)
LEMMA RowReplaced ==
    ASSUME RowsInv, NEW t \in DOMAIN trigger, NEW row, SoundRow(row, clock),
           trigger' = [trigger EXCEPT ![t] = row] \/ trigger' = trigger,
           UNCHANGED <<rule, link, jobs, serial, clock, round>>,
           NEW c \in Callers, Return(c)
    PROVE  RowsInv'
<1>1. /\ DOMAIN trigger' = DOMAIN trigger
      /\ \A i \in DOMAIN trigger : trigger'[i] \in {row, trigger[i]}
  OBVIOUS
<1>2. TriggersSound'
  BY <1>1 DEF RowsInv, TriggersSound
<1>3. CallsSound'
  <2>1. SoundCall(Idle, DOMAIN trigger', clock)
    BY DEF SoundCall
  <2> QED BY <1>1, <2>1, CallsMove DEF Return
<1>4. RulesOwned' /\ LinksOwned' /\ RoundStarted'
  BY <1>1 DEF RowsInv, RulesOwned, LinksOwned, RoundStarted, RoundShape
<1> QED BY <1>2, <1>3, <1>4 DEF RowsInv

(* Find, Check and the steps that only say what a request is doing. *)
LEMMA ReadingKeepsRows ==
    ASSUME RowsInv, NEW c \in Callers,
           Find(c) \/ FindJob(c) \/ GiveUp(c) \/ \E t \in DOMAIN trigger : Check(c, t)
    PROVE  RowsInv'
<1>1. UNCHANGED <<rows, round, clock>> /\ trigger' = trigger
  BY DEF Find, FindJob, GiveUp, Check, rows
<1>2. ASSUME NEW state, SoundCall(state, DOMAIN trigger, clock), call' = [call EXCEPT ![c] = state]
      PROVE  RowsInv'
  BY <1>1, <1>2, CallsMove, OnlyCalls
<1>3. CASE Find(c)
  <2> DEFINE state == [step |-> "found", trig |-> call[c].trig, row |-> trigger[call[c].trig]]
  <2>1. call' = [call EXCEPT ![c] = state] /\ call[c].trig \in DOMAIN trigger
    BY <1>3, CallHas DEF Find
  <2>2. SoundCall(state, DOMAIN trigger, clock)
    BY <2>1 DEF SoundCall, RowsInv, TriggersSound
  <2> QED BY <1>2, <2>1, <2>2
<1>4. CASE FindJob(c)
  <2>1. PICK j \in jobs : call' = [call EXCEPT ![c] = [step |-> "linking", trig |-> call[c].trig, job |-> j]]
    BY <1>4 DEF FindJob
  <2>2. call[c].trig \in DOMAIN trigger /\ j \in STRING
    BY <1>4, CallHas DEF FindJob, RowsInv, LinksOwned
  <2>3. SoundCall([step |-> "linking", trig |-> call[c].trig, job |-> j], DOMAIN trigger, clock)
    BY <2>2 DEF SoundCall
  <2> QED BY <1>2, <2>1, <2>3
<1>5. CASE GiveUp(c)
  <2>1. SoundCall(Idle, DOMAIN trigger, clock)
    BY DEF SoundCall
  <2> QED BY <1>2, <1>5, <2>1 DEF GiveUp, Return
<1>6. CASE \E t \in DOMAIN trigger : Check(c, t)
  <2>1. PICK t \in DOMAIN trigger : call' = [call EXCEPT ![c] = [step |-> "checked", trig |-> t]]
    BY <1>6 DEF Check
  <2>2. SoundCall([step |-> "checked", trig |-> t], DOMAIN trigger, clock)
    BY DEF SoundCall
  <2> QED BY <1>2, <2>1, <2>2
<1> QED BY <1>3, <1>4, <1>5, <1>6

(* The requests that write a row of a trigger. *)
LEMMA UpdatesKeepRows ==
    ASSUME RowsInv, NEW c \in Callers,
           Patch(c) \/ Pause(c) \/ Delete(c) \/ UpdateConfig(c) \/ Activate(c)
    PROVE  RowsInv'
<1> DEFINE t == call[c].trig
<1>1. t \in DOMAIN trigger /\ SoundRow(trigger[t], clock)
  BY CallHas DEF Patch, Pause, Delete, UpdateConfig, Activate, RowsInv, TriggersSound
<1>2. UNCHANGED <<rule, link, jobs, serial, clock, round>> /\ Return(c)
  BY DEF Patch, Pause, Delete, UpdateConfig, Activate, UpdateRow, SaveRow
<1>3. ASSUME NEW row, SoundRow(row, clock), UpdateRow(t, row) PROVE RowsInv'
  <2>1. trigger' = [trigger EXCEPT ![t] = row] \/ trigger' = trigger
    BY <1>3 DEF UpdateRow
  <2> QED BY <1>1, <1>2, <1>3, <2>1, RowReplaced
<1>4. ASSUME NEW row, SoundRow(row, clock), SaveRow(c, row) PROVE RowsInv'
  <2>1. trigger' = [trigger EXCEPT ![t] = row]
    BY <1>4 DEF SaveRow
  <2> QED BY <1>1, <1>2, <1>4, <2>1, RowReplaced
<1>5. CASE Patch(c)
  <2>1. PICK minutes \in Intervals : UpdateRow(t, [trigger[t] EXCEPT !.interval = minutes])
    BY <1>5 DEF Patch
  <2>2. SoundRow([trigger[t] EXCEPT !.interval = minutes], clock)
    BY <1>1, AdminAssumption DEF SoundRow, TriggerFields
  <2> QED BY <1>3, <2>1, <2>2
<1>6. CASE Pause(c)
  <2>1. SoundRow([trigger[t] EXCEPT !.status = "paused"], clock)
    BY <1>1 DEF SoundRow, TriggerFields
  <2> QED BY <1>3, <1>6, <2>1 DEF Pause
<1>7. CASE Delete(c)
  <2>1. SoundRow([trigger[t] EXCEPT !.deleted = TRUE], clock)
    BY <1>1 DEF SoundRow, TriggerFields
  <2> QED BY <1>3, <1>7, <2>1 DEF Delete
<1>8. CASE UpdateConfig(c)
  <2>1. SoundRow(call[c].row, clock)
    BY <1>8, CallHas DEF UpdateConfig
  <2>2. PICK config \in Configs : /\ ValidConfig(call[c].row.type, config)
                                  /\ SaveRow(c, [call[c].row EXCEPT !.config = config])
    BY <1>8 DEF UpdateConfig
  <2>4. call[c].row.type = "cron" => WellSet(config.clock)
    BY <2>2, AdminAssumption DEF ValidConfig
  <2>3. SoundRow([call[c].row EXCEPT !.config = config], clock)
    BY <2>1, <2>2, <2>4 DEF SoundRow, TriggerFields
  <2> QED BY <1>4, <2>2, <2>3
<1>9. CASE Activate(c)
  <2>1. SoundRow(call[c].row, clock)
    BY <1>9, CallHas DEF Activate
  <2>2. SoundRow([call[c].row EXCEPT !.status = "active"], clock)
    BY <2>1 DEF SoundRow, TriggerFields
  <2> QED BY <1>4, <1>9, <2>2 DEF Activate
<1> QED BY <1>5, <1>6, <1>7, <1>8, <1>9

(* A trigger that is created is sound. *)
LEMMA CreateKeepsRows ==
    ASSUME RowsInv, NEW c \in Callers, Create(c)
    PROVE  RowsInv'
<1> DEFINE id == serial.trigger + 1
<1>1. PICK draft \in Drafts :
        /\ ValidConfig(draft.type, draft.config)
        /\ trigger' = Stored(trigger, id,
              [creator |-> Who[c], type |-> draft.type, config |-> draft.config,
               interval |-> IF draft.interval = 0 THEN 1 ELSE draft.interval,
               status |-> "paused", last |-> Never, deleted |-> FALSE])
  BY DEF Create
<1>2. PICK row : trigger' = Stored(trigger, id, row) /\ SoundRow(row, clock)
  <2> DEFINE row == [creator |-> Who[c], type |-> draft.type, config |-> draft.config,
                     interval |-> IF draft.interval = 0 THEN 1 ELSE draft.interval,
                     status |-> "paused", last |-> Never, deleted |-> FALSE]
  <2>1. draft.interval \in Int /\ (draft.type = "cron" => WellSet(draft.config.clock))
    BY <1>1, AdminAssumption DEF ValidConfig
  <2>2. SoundRow(row, clock)
    BY <1>1, <2>1 DEF SoundRow, TriggerFields
  <2> HIDE DEF id
  <2> QED BY <1>1, <2>2
<1>3. UNCHANGED <<rule, link, jobs, call, round, clock>> /\ serial' = [serial EXCEPT !.trigger = @ + 1]
  BY DEF Create
<1>4. id <= MaxTrigger
  BY AdminAssumption DEF Create, RowsInv, TriggersSound
<1>5. id \in Nat /\ DOMAIN trigger' = 1..id /\ DOMAIN trigger \subseteq DOMAIN trigger'
  BY <1>2 DEF Stored, RowsInv, TriggersSound
<1>6. \A i \in DOMAIN trigger' : SoundRow(trigger'[i], clock)
  <2> HIDE DEF id
  <2>1. \A i \in DOMAIN trigger' :
           \/ trigger'[i] = row
           \/ i \in DOMAIN trigger /\ trigger'[i] = trigger[i]
    BY <1>2 DEF Stored
  <2> QED BY <1>2, <2>1 DEF RowsInv, TriggersSound
<1>7. TriggersSound'
  <2>1. DOMAIN serial' = {"trigger", "rule", "link"} /\ serial'.trigger = id
    BY <1>3 DEF RowsInv, TriggersSound
  <2> HIDE DEF id
  <2> QED BY <1>3, <1>4, <1>5, <1>6, <2>1 DEF TriggersSound
<1>8. CallsSound'
  <2> HIDE DEF id
  <2>1. clock \in Nat /\ clock <= clock
    BY DEF RowsInv
  <2>2. \A s : SoundCall(s, DOMAIN trigger, clock) => SoundCall(s, DOMAIN trigger', clock)
    BY <1>5, <2>1, SoundLater
  <2> QED BY <1>3, <2>2 DEF RowsInv, CallsSound
<1>9. RulesOwned' /\ LinksOwned' /\ RoundStarted'
  BY <1>3, <1>5 DEF RowsInv, RulesOwned, LinksOwned, RoundStarted, RoundShape
<1> QED BY <1>3, <1>7, <1>8, <1>9 DEF RowsInv

(* Rules and links are written, triggers are not. *)
LEMMA OwnedKeepsRows ==
    ASSUME RowsInv, NEW c \in Callers, Return(c), UNCHANGED <<trigger, jobs, clock, round>>,
           DOMAIN serial' = DOMAIN serial, serial'.trigger = serial.trigger,
           RulesOwned', LinksOwned'
    PROVE  RowsInv'
<1>1. CallsSound'
  <2>1. SoundCall(Idle, DOMAIN trigger', clock)
    BY DEF SoundCall
  <2> QED BY <2>1, CallsMove DEF Return
<1>2. TriggersSound' /\ RoundStarted'
  BY DEF RowsInv, TriggersSound, RoundStarted, RoundShape
<1> QED BY <1>1, <1>2 DEF RowsInv

(* A rule that is written belongs to a trigger. *)
LEMMA RulesKeepRows ==
    ASSUME RowsInv, NEW c \in Callers, AddRule(c) \/ UpdateRule(c) \/ DeleteRule(c)
    PROVE  RowsInv'
<1>1. ASSUME NEW r, NEW row, WriteRule(c, r, row), DOMAIN serial' = DOMAIN serial,
             serial'.trigger = serial.trigger,
             DOMAIN row = {"trig", "conditions", "live"}, row.trig \in DOMAIN trigger
      PROVE  RowsInv'
  <2>1. rule' = Stored(rule, r, row) /\ Return(c) /\ UNCHANGED <<trigger, link, jobs, clock, round>>
    BY <1>1 DEF WriteRule
  <2>2. RulesOwned' /\ LinksOwned'
    BY <1>1, <2>1 DEF Stored, RowsInv, RulesOwned, LinksOwned
  <2> QED BY <1>1, <2>1, <2>2, OwnedKeepsRows
<1>2. CASE AddRule(c)
  <2> DEFINE r == serial.rule + 1
  <2>1. /\ DOMAIN serial' = DOMAIN serial /\ serial'.trigger = serial.trigger
        /\ call[c].trig \in DOMAIN trigger
    BY <1>2, CallHas DEF AddRule, RowsInv, TriggersSound
  <2>2. PICK conditions :
           WriteRule(c, r, IF r \in DOMAIN rule THEN rule[r]
                           ELSE [trig |-> call[c].trig, conditions |-> conditions, live |-> TRUE])
    BY <1>2 DEF AddRule
  <2> HIDE DEF r
  <2>3. CASE r \in DOMAIN rule
    <3>1. WriteRule(c, r, rule[r])
      BY <2>2, <2>3
    <3> QED BY <1>1, <2>1, <2>3, <3>1 DEF RowsInv, RulesOwned
  <2>4. CASE r \notin DOMAIN rule
    <3>1. WriteRule(c, r, [trig |-> call[c].trig, conditions |-> conditions, live |-> TRUE])
      BY <2>2, <2>4
    <3> QED BY <1>1, <2>1, <3>1
  <2> QED BY <2>3, <2>4
<1>3. CASE UpdateRule(c)
  <2>1. PICK r, conditions :
           WriteRule(c, r, [trig |-> call[c].trig, conditions |-> conditions, live |-> TRUE])
    BY <1>3 DEF UpdateRule
  <2>2. call[c].trig \in DOMAIN trigger /\ serial' = serial
    BY <1>3, CallHas DEF UpdateRule
  <2> QED BY <1>1, <2>1, <2>2
<1>4. CASE DeleteRule(c)
  <2>1. PICK r \in DOMAIN rule : WriteRule(c, r, [rule[r] EXCEPT !.live = FALSE])
    BY <1>4 DEF DeleteRule
  <2>2. serial' = serial
    BY <1>4 DEF DeleteRule
  <2>3. /\ DOMAIN [rule[r] EXCEPT !.live = FALSE] = {"trig", "conditions", "live"}
        /\ [rule[r] EXCEPT !.live = FALSE].trig \in DOMAIN trigger
    BY DEF RowsInv, RulesOwned
  <2> QED BY <1>1, <2>1, <2>2, <2>3
<1> QED BY <1>2, <1>3, <1>4

(* A link that is written joins a trigger and a job. *)
LEMMA LinksKeepRows ==
    ASSUME RowsInv, NEW c \in Callers, InsertLink(c) \/ UnlinkJob(c)
    PROVE  RowsInv'
<1>1. CASE InsertLink(c)
  <2> DEFINE l == serial.link + 1
  <2>1. /\ link' = Stored(link, l, [trig |-> call[c].trig, job |-> call[c].job])
        /\ serial' = [serial EXCEPT !.link = l] /\ Return(c)
        /\ UNCHANGED <<trigger, rule, jobs, round, clock>>
        /\ call[c].trig \in DOMAIN trigger /\ call[c].job \in jobs
    BY <1>1, CallHas DEF InsertLink, Insert
  <2> HIDE DEF l
  <2>2. DOMAIN serial' = DOMAIN serial /\ serial'.trigger = serial.trigger
    BY <2>1 DEF RowsInv, TriggersSound
  <2>3. RulesOwned' /\ LinksOwned'
    BY <2>1 DEF Stored, RowsInv, RulesOwned, LinksOwned
  <2> QED BY <2>1, <2>2, <2>3, OwnedKeepsRows
<1>2. CASE UnlinkJob(c)
  <2>1. PICK gone : link' = [l \in DOMAIN link \ gone |-> link[l]]
    BY <1>2 DEF UnlinkJob, DropLinks
  <2>2. Return(c) /\ UNCHANGED <<trigger, rule, jobs, serial, round, clock>>
    BY <1>2 DEF UnlinkJob
  <2>3. RulesOwned' /\ LinksOwned'
    BY <2>1, <2>2 DEF RowsInv, RulesOwned, LinksOwned
  <2> QED BY <2>2, <2>3, OwnedKeepsRows
<1> QED BY <1>1, <1>2

(* Every step of a request keeps the rows sound. *)
LEMMA RequestKeepsRows ==
    ASSUME RowsInv, NEW c \in Callers, Works(c) \/ Begins(c)
    PROVE  RowsInv'
BY ReadingKeepsRows, UpdatesKeepRows, CreateKeepsRows, RulesKeepRows, LinksKeepRows
   DEF Works, Begins

(* A job that goes takes its links along. *)
LEMMA DropJobKeepsRows ==
    ASSUME RowsInv, NEW j, DropJob(j)
    PROVE  RowsInv'
<1>1. /\ jobs' = jobs \ {j}
      /\ link' = [l \in DOMAIN link \ {l \in DOMAIN link : link[l].job = j} |-> link[l]]
      /\ UNCHANGED <<trigger, rule, serial, call, round, clock>>
  BY DEF DropJob, DropLinks
<1>2. LinksOwned'
  BY <1>1 DEF RowsInv, LinksOwned
<1>3. TriggersSound' /\ RulesOwned' /\ CallsSound' /\ RoundStarted'
  BY <1>1 DEF RowsInv, TriggersSound, RulesOwned, CallsSound, RoundStarted, RoundShape
<1> QED BY <1>1, <1>2, <1>3 DEF RowsInv

(* Rows stay sound as time passes. *)
LEMMA TickKeepsRows ==
    ASSUME RowsInv, Tick
    PROVE  RowsInv'
<1>1. clock' = clock + 1 /\ UNCHANGED <<rows, call, round>>
  BY DEF Tick
<1>2. clock' \in Nat /\ clock <= clock'
  BY <1>1 DEF RowsInv
<1>3. /\ \A row : SoundRow(row, clock) => SoundRow(row, clock')
      /\ \A state : SoundCall(state, DOMAIN trigger, clock) => SoundCall(state, DOMAIN trigger, clock')
  BY <1>2, SoundLater DEF RowsInv
<1>4. TriggersSound'
  BY <1>1, <1>3 DEF RowsInv, TriggersSound, rows
<1>5. CallsSound'
  BY <1>1, <1>3 DEF RowsInv, CallsSound, rows
<1>6. RulesOwned' /\ LinksOwned' /\ RoundStarted'
  BY <1>1 DEF RowsInv, RulesOwned, LinksOwned, RoundStarted, RoundShape, rows
<1> QED BY <1>2, <1>4, <1>5, <1>6 DEF RowsInv

(* A round is done with a trigger. *)
LEMMA DoneKeepsStart ==
    ASSUME RoundStarted, round.step = "poll", NEW t \in round.todo, Done(t)
    PROVE  RoundStarted'
<1>1. CASE round.todo = {t}
  <2>1. round' = Off
    BY <1>1 DEF Done
  <2> QED BY <2>1 DEF RoundStarted, RoundShape, Off
<1>2. CASE round.todo # {t}
  <2>1. round = [step |-> "poll", seen |-> round.seen, rules |-> round.rules,
                 links |-> round.links, at |-> round.at, todo |-> round.todo]
    BY DEF RoundStarted, RoundShape
  <2>2. round' = [step |-> "poll", seen |-> round.seen, rules |-> round.rules,
                  links |-> round.links, at |-> round.at, todo |-> round.todo \ {t}]
    BY <1>2, <2>1 DEF Done
  <2>3. round.todo \ {t} # {} /\ round.todo \ {t} \subseteq DOMAIN round.seen
    BY <1>2 DEF RoundStarted
  <2> QED BY <2>2, <2>3 DEF RoundStarted, RoundShape
<1> QED BY <1>1, <1>2

(* What a poll writes into the row of its trigger. *)
LEMMA PolledRow ==
    ASSUME NEW t, NEW status, status = "" \/ status = "error", Polled(t, status), Visible(t)
    PROVE  \E new : /\ new = trigger[t].status \/ new = "error"
                    /\ trigger' = [trigger EXCEPT ![t].last = clock, ![t].status = new]
<1>1. trigger' = [trigger EXCEPT ![t].last = clock,
                                 ![t].status = IF status = "" THEN @ ELSE status]
  BY Zenon DEF Polled
<1>2. CASE status = ""
  BY <1>1, <1>2, Zenon
<1>3. CASE status = "error"
  BY <1>1, <1>3, Zenon
<1> QED BY <1>2, <1>3, Zenon

(* The clock is among the times up to now. *)
LEMMA NowIsPast == \A n \in Nat : n \in 0..n
<1> QED OBVIOUS

(* A poll leaves sound rows. *)
LEMMA PolledKeepsRows ==
    ASSUME RowsInv, round.step = "poll", NEW t \in round.todo, Done(t),
           UNCHANGED <<rule, link, jobs, serial, call, clock>>,
           \/ trigger' = trigger
           \/ /\ Visible(t)
              /\ \E new : /\ new = trigger[t].status \/ new = "error"
                         /\ trigger' = [trigger EXCEPT ![t].last = clock, ![t].status = new]
    PROVE  RowsInv'
<1>1. RoundStarted'
  BY DoneKeepsStart DEF RowsInv
<1>2. /\ DOMAIN trigger' = DOMAIN trigger
      /\ \A i \in DOMAIN trigger : SoundRow(trigger'[i], clock)
  <2>1. CASE Visible(t) /\ \E new : /\ new = trigger[t].status \/ new = "error"
                                   /\ trigger' = [trigger EXCEPT ![t].last = clock, ![t].status = new]
    <3>1. PICK new : /\ new = trigger[t].status \/ new = "error"
                     /\ trigger' = [trigger EXCEPT ![t].last = clock, ![t].status = new]
      BY <2>1
    <3>2. t \in DOMAIN trigger /\ SoundRow(trigger[t], clock) /\ clock \in Nat
      BY <2>1 DEF Visible, RowsInv, TriggersSound
    <3> DEFINE row == [trigger[t] EXCEPT !.last = clock, !.status = new]
    <3>3. SoundRow(row, clock)
      <4>1. /\ DOMAIN row = TriggerFields /\ row.last = clock /\ row.status = new
            /\ row.type = trigger[t].type /\ row.config = trigger[t].config
            /\ row.interval = trigger[t].interval
        BY <3>2 DEF SoundRow, TriggerFields
      <4>2. row.status \in {"active", "paused", "error"}
        BY <3>1, <3>2, <4>1 DEF SoundRow
      <4>3. /\ ValidConfig(row.type, row.config) /\ row.interval \in Int
            /\ row.type = "cron" => WellSet(row.config.clock)
        BY <3>2, <4>1 DEF SoundRow
      <4> HIDE DEF row
      <4>4. row.last \in 0..clock
        <5>1. clock \in 0..clock
          BY <3>2, NowIsPast, Zenon
        <5> QED BY <4>1, <5>1, Zenon
      <4> QED BY <4>1, <4>2, <4>3, <4>4 DEF SoundRow
    <3>4. /\ DOMAIN trigger' = DOMAIN trigger
          /\ \A i \in DOMAIN trigger : trigger'[i] = IF i = t THEN row ELSE trigger[i]
      BY <3>1, <3>2
    <3> HIDE DEF row
    <3> QED BY <3>3, <3>4 DEF RowsInv, TriggersSound
  <2>2. CASE trigger' = trigger
    BY <2>2 DEF RowsInv, TriggersSound
  <2> QED BY <2>1, <2>2
<1>3. TriggersSound' /\ RulesOwned' /\ LinksOwned' /\ CallsSound'
  BY <1>2 DEF RowsInv, TriggersSound, RulesOwned, LinksOwned, CallsSound
<1> QED BY <1>1, <1>3 DEF RowsInv

(* A round keeps the rows sound. *)
LEMMA DispatcherKeepsRows ==
    ASSUME RowsInv, Dispatcher
    PROVE  RowsInv'
<1>1. ASSUME UNCHANGED <<rows, call, clock>>, RoundStarted' PROVE RowsInv'
  BY <1>1 DEF RowsInv, rows, TriggersSound, RulesOwned, LinksOwned, CallsSound
<1>2. CASE ReadTriggers
  <2> DEFINE active == {t \in DOMAIN trigger : Visible(t) /\ trigger[t].status = "active"}
  <2>1. round' = [step |-> "rules", seen |-> [t \in active |-> trigger[t]]] /\ active # {}
    BY <1>2 DEF ReadTriggers
  <2>2. RoundStarted'
    <3> HIDE DEF active
    <3> QED BY <2>1 DEF RoundStarted, RoundShape
  <2> QED BY <1>1, <1>2, <2>2 DEF ReadTriggers
<1>3. CASE ReadRules
  <2>1. /\ round.step = "rules"
        /\ round' = [step |-> "links", seen |-> round.seen,
                     rules |-> [t \in DOMAIN round.seen |-> {rule[r].conditions : r \in LiveRules(t)}]]
    BY <1>3 DEF ReadRules
  <2>2. RoundStarted'
    BY <2>1 DEF RowsInv, RoundStarted, RoundShape
  <2> QED BY <1>1, <1>3, <2>2 DEF ReadRules
<1>4. CASE ReadLinks
  <2>1. /\ round.step = "links"
        /\ round' = [step |-> "poll", seen |-> round.seen, rules |-> round.rules,
                     links |-> [t \in DOMAIN round.seen |-> {l \in DOMAIN link : link[l].trig = t}],
                     at |-> clock, todo |-> DOMAIN round.seen]
    BY <1>4 DEF ReadLinks
  <2>2. RoundStarted'
    BY <2>1 DEF RowsInv, RoundStarted, RoundShape
  <2> QED BY <1>1, <1>4, <2>2 DEF ReadLinks
<1>5. ASSUME round.step = "poll", NEW t \in round.todo, Skip(t) PROVE RowsInv'
  <2>1. RoundStarted'
    BY <1>5, DoneKeepsStart DEF RowsInv, Skip
  <2> QED BY <1>1, <1>5, <2>1 DEF Skip
<1>6. ASSUME round.step = "poll", NEW t \in round.todo, Poll(t) \/ PollNothing(t) \/ PollFails(t)
      PROVE  RowsInv'
  <2>1. Polled(t, "") \/ Polled(t, "error")
    BY <1>6, Zenon DEF Poll, PollNothing, PollFails
  <2>2. Done(t) /\ UNCHANGED <<rule, link, jobs, serial, call, clock>>
    BY <2>1, Zenon DEF Polled
  <2>3. \/ trigger' = trigger
        \/ /\ Visible(t)
           /\ \E new : /\ new = trigger[t].status \/ new = "error"
                      /\ trigger' = [trigger EXCEPT ![t].last = clock, ![t].status = new]
    <3>1. CASE Visible(t)
      BY <2>1, <3>1, PolledRow, Zenon
    <3>2. CASE ~ Visible(t)
      BY <2>1, <3>2, Zenon DEF Polled
    <3> QED BY <3>1, <3>2
  <2> HIDE DEF RowsInv
  <2> QED BY <1>6, <2>2, <2>3, PolledKeepsRows
<1> QED BY <1>2, <1>3, <1>4, <1>5, <1>6 DEF Dispatcher

(* The server finds rows that belong together. *)
LEMMA RowsInvInit == Init => RowsInv
<1> SUFFICES ASSUME Init PROVE RowsInv
  OBVIOUS
<1>1. PICK s \in Scenarios : AdminInit(s.admin)
  BY DEF Init
<1> DEFINE found == s.admin
<1>2. /\ trigger = found.triggers /\ rule = found.rules /\ link = found.links /\ jobs = found.jobs
      /\ serial = [trigger |-> Cardinality(DOMAIN trigger), rule |-> Cardinality(DOMAIN rule),
                   link |-> Cardinality(DOMAIN link)]
      /\ call = [c \in Callers |-> Idle] /\ round = Off /\ clock = 0
  BY <1>1 DEF AdminInit
<1>3. /\ Numbered(trigger) /\ Cardinality(DOMAIN trigger) <= MaxTrigger
      /\ \A t \in DOMAIN trigger :
            /\ DOMAIN trigger[t] = TriggerFields
            /\ trigger[t].status \in {"active", "paused", "error"}
            /\ trigger[t].last \in {0, Never}
            /\ ValidConfig(trigger[t].type, trigger[t].config)
            /\ trigger[t].interval \in Int
            /\ trigger[t].type = "cron" => WellSet(trigger[t].config.clock)
      /\ \A r \in DOMAIN rule :
            DOMAIN rule[r] = {"trig", "conditions", "live"} /\ rule[r].trig \in DOMAIN trigger
      /\ \A l \in DOMAIN link : link[l].trig \in DOMAIN trigger /\ link[l].job \in jobs
      /\ jobs \subseteq STRING
  BY <1>2, ScenarioAssumption
<1>4. TriggersSound
  BY <1>2, <1>3 DEF TriggersSound, SoundRow, Numbered
<1>5. RulesOwned /\ LinksOwned
  BY <1>3 DEF RulesOwned, LinksOwned
<1>6. CallsSound
  BY <1>2 DEF CallsSound, SoundCall
<1>7. RoundStarted
  BY <1>2 DEF RoundStarted, RoundShape, Off
<1> QED BY <1>2, <1>4, <1>5, <1>6, <1>7 DEF RowsInv

(* Every step leaves rows that belong together. *)
LEMMA RowsInvStep ==
    ASSUME RowsInv, [Next]_vars
    PROVE  RowsInv'
<1>1. CASE UNCHANGED adminVars
  <2>1. UNCHANGED <<rows, call, round, clock>>
    BY <1>1 DEF adminVars
  <2> QED BY <2>1 DEF RowsInv, rows, TriggersSound, RulesOwned, LinksOwned, CallsSound,
                      RoundStarted, RoundShape
<1>2. ASSUME NEW r \in Requests, Works(r) \/ Begins(r) PROVE RowsInv'
  BY <1>2, RequestKeepsRows, ServerAssumption
<1>3. CASE Dispatcher
  BY <1>3, DispatcherKeepsRows
<1>4. CASE Tick
  BY <1>4, TickKeepsRows
<1>5. ASSUME NEW j, DropJob(j) PROVE RowsInv'
  BY <1>5, DropJobKeepsRows
<1>6. CASE UNCHANGED vars
  BY <1>1, <1>6 DEF vars
<1> QED BY <1>1, <1>2, <1>3, <1>4, <1>5, <1>6 DEF Next, Handle, Answer

(* Every rule and link belongs to a trigger there is, every link to a job,    *)
(* and no trigger has a configuration it could not be activated with, in      *)
(* whatever order the requests, the rounds and the deletions of jobs come.    *)
THEOREM RowsCorrect == Spec => []RowsConsistent
<1>1. Init => RowsInv
  BY RowsInvInit
<1>2. RowsInv /\ [Next]_vars => RowsInv'
  BY RowsInvStep
<1>3. RowsInv => RowsConsistent
  <2> SUFFICES ASSUME RowsInv PROVE RowsConsistent
    OBVIOUS
  <2>1. ASSUME NEW c \in Callers PROVE call[c].step = "found" \/ call[c] \in CallType
    <3>1. SoundCall(call[c], DOMAIN trigger, clock)
      BY DEF RowsInv, CallsSound
    <3>2. ASSUME call[c] = [step |-> "found", trig |-> call[c].trig, row |-> call[c].row]
          PROVE  call[c].step = "found"
      BY <3>2
    <3>3. ASSUME call[c] = [step |-> "checked", trig |-> call[c].trig], call[c].trig \in DOMAIN trigger
          PROVE  call[c] \in CallType
      BY <3>3 DEF CallType
    <3>4. ASSUME call[c] = [step |-> "linking", trig |-> call[c].trig, job |-> call[c].job],
                 call[c].trig \in DOMAIN trigger, call[c].job \in STRING
          PROVE  call[c] \in CallType
      BY <3>4 DEF CallType
    <3> QED BY <3>1, <3>2, <3>3, <3>4 DEF SoundCall, CallType
  <2>2. \A t \in DOMAIN trigger :
          /\ trigger[t].status \in {"active", "paused", "error"}
          /\ trigger[t].last \in 0..clock \cup {Never}
          /\ ValidConfig(trigger[t].type, trigger[t].config)
    BY DEF RowsInv, TriggersSound, SoundRow
  <2> QED BY <2>1, <2>2 DEF RowsInv, RowsConsistent, TriggersSound, RulesOwned, LinksOwned, RoundStarted
<1> QED BY <1>1, <1>2, <1>3, PTL DEF Spec

-----------------------------------------------------------------------------
(* When a schedule is due: lemmas about the calendar and CronSchedule.         *)

(* Sums(f, g, k): up to k, f holds the sums of the first values of g. *)
Sums(f, g, k) == \A m \in 0..k : f[m] = IF m = 0 THEN 0 ELSE f[m - 1] + g[m]

(* Two functions that hold the sums hold the same. *)
LEMMA SumsAgree ==
    ASSUME NEW g \in [Nat -> Nat], NEW j \in Nat, NEW k \in Nat, NEW e, NEW f,
           Sums(e, g, j), Sums(f, g, k)
    PROVE  \A m \in Nat : m <= j /\ m <= k => e[m] = f[m]
<1> DEFINE S == {m \in Nat : m <= j /\ m <= k => e[m] = f[m]}
<1>1. 0 \in S
  BY DEF Sums
<1>2. ASSUME NEW m \in Nat, m \in S PROVE m + 1 \in S
  <2> SUFFICES ASSUME m + 1 <= j, m + 1 <= k PROVE e[m + 1] = f[m + 1]
    OBVIOUS
  <2>1. m + 1 \in 0..j /\ m + 1 \in 0..k /\ (m + 1) - 1 = m /\ m + 1 # 0
    OBVIOUS
  <2>2. e[m + 1] = e[m] + g[m + 1] /\ f[m + 1] = f[m] + g[m + 1]
    BY <2>1 DEF Sums
  <2>3. e[m] = f[m]
    BY <1>2
  <2> QED BY <2>2, <2>3
<1>3. Nat \subseteq S
  <2> HIDE DEF S
  <2> QED BY <1>1, <1>2, SetInduction
<1> QED BY <1>3

(* The sums of the values of a function are a function of all numbers. *)
LEMMA SumsExist ==
    ASSUME NEW g \in [Nat -> Nat]
    PROVE  \E f : f \in [Nat -> Nat] /\ \A m \in Nat : f[m] = IF m = 0 THEN 0 ELSE f[m - 1] + g[m]
<1> DEFINE T == {k \in Nat : \E f \in [Nat -> Nat] : Sums(f, g, k)}
<1>1. 0 \in T
  <2>1. [m \in Nat |-> 0] \in [Nat -> Nat]
    OBVIOUS
  <2>2. Sums([m \in Nat |-> 0], g, 0)
    BY DEF Sums
  <2> QED BY <2>1, <2>2
<1>2. ASSUME NEW k \in Nat, k \in T PROVE k + 1 \in T
  <2>1. PICK f \in [Nat -> Nat] : Sums(f, g, k)
    BY <1>2
  <2>2. PICK h \in [Nat -> Nat] : \A m \in Nat : h[m] = IF m = k + 1 THEN f[k] + g[k + 1] ELSE f[m]
    <3>1. [m \in Nat |-> IF m = k + 1 THEN f[k] + g[k + 1] ELSE f[m]] \in [Nat -> Nat]
      OBVIOUS
    <3> QED BY <3>1
  <2>3. Sums(h, g, k + 1)
    <3> SUFFICES ASSUME NEW m \in 0..(k + 1)
                 PROVE  h[m] = IF m = 0 THEN 0 ELSE h[m - 1] + g[m]
      BY DEF Sums
    <3>1. CASE m = k + 1
      BY <2>2, <3>1
    <3>2. CASE m # k + 1
      <4>1. m \in 0..k /\ (m # 0 => m - 1 \in Nat /\ m - 1 # k + 1)
        BY <3>2
      <4> QED BY <2>1, <2>2, <3>2, <4>1 DEF Sums
    <3> QED BY <3>1, <3>2
  <2> QED BY <2>3
<1>3. Nat \subseteq T
  <2> HIDE DEF T
  <2> QED BY <1>1, <1>2, SetInduction
<1>4. \A k \in Nat : \E f : f \in [Nat -> Nat] /\ Sums(f, g, k)
  BY <1>3
<1> DEFINE Upto(k) == CHOOSE f : f \in [Nat -> Nat] /\ Sums(f, g, k)
<1>5. \A k \in Nat : Upto(k) \in [Nat -> Nat] /\ Sums(Upto(k), g, k)
  BY <1>4, Zenon
<1> HIDE DEF Upto
<1>6. PICK f : f = [k \in Nat |-> Upto(k)[k]]
  OBVIOUS
<1>7. f \in [Nat -> Nat] /\ \A k \in Nat : f[k] = Upto(k)[k]
  BY <1>5, <1>6
<1>8. ASSUME NEW m \in Nat PROVE f[m] = IF m = 0 THEN 0 ELSE f[m - 1] + g[m]
  <2>1. CASE m = 0
    <3>1. Sums(Upto(0), g, 0) /\ f[0] = Upto(0)[0]
      BY <1>5, <1>7
    <3> QED BY <2>1, <3>1 DEF Sums
  <2>2. CASE m # 0
    <3>1. PICK n \in Nat : m = n + 1
      <4>1. m - 1 \in Nat /\ m = (m - 1) + 1
        BY <2>2
      <4> QED BY <4>1
    <3>2. Upto(m)[n] = Upto(n)[n]
      <4>1. n <= m /\ n <= n
        BY <3>1
      <4>2. PICK e, h : /\ e = Upto(m) /\ h = Upto(n)
                        /\ Sums(e, g, m) /\ Sums(h, g, n)
        BY <1>5
      <4>3. e[n] = h[n]
        BY <4>1, <4>2, SumsAgree
      <4> QED BY <4>2, <4>3
    <3>3. Upto(m)[m] = Upto(m)[n] + g[m]
      <4>1. m \in 0..m /\ m - 1 = n
        BY <3>1
      <4> QED BY <1>5, <2>2, <4>1 DEF Sums
    <3> QED BY <1>7, <2>2, <3>1, <3>2, <3>3
  <2> QED BY <2>1, <2>2
<1> QED BY <1>7, <1>8

(* The months follow each other, each with a day at least. *)
Grows(start) ==
    /\ start \in [Nat -> Nat] /\ start[0] = 0
    /\ \A m \in Nat : start[m] < start[m + 1]

(* Months follow each other. *)
LEMMA MonthsGrow == Grows(MonthStart)
<1> DEFINE n == Len(MonthLengths)
<1>1. n \in Nat \ {0} /\ \A i \in 1..n : MonthLengths[i] \in Nat /\ MonthLengths[i] > 0
  BY CalendarAssumption
<1>2. \A m \in Nat : m # 0 => ((m - 1) % n) + 1 \in 1..n
  <2> HIDE DEF n
  <2> SUFFICES ASSUME NEW m \in Nat, m # 0 PROVE ((m - 1) % n) + 1 \in 1..n
    OBVIOUS
  <2>1. PICK k \in Nat : k = m - 1
    OBVIOUS
  <2>2. k % n \in 0..(n - 1)
    BY <1>1
  <2> QED BY <1>1, <2>1, <2>2
<1> DEFINE length == [m \in Nat |-> IF m = 0 THEN 0 ELSE MonthLengths[((m - 1) % n) + 1]]
<1>3. length \in [Nat -> Nat] /\ \A m \in Nat : m # 0 =>
         length[m] = MonthLengths[((m - 1) % n) + 1] /\ length[m] > 0
  <2> HIDE DEF n
  <2> QED BY <1>1, <1>2
<1> HIDE DEF length
<1> DEFINE Start(start) == start = [m \in Nat |->
              IF m = 0 THEN 0
              ELSE start[m - 1] + MonthLengths[((m - 1) % Len(MonthLengths)) + 1]]
<1>4. PICK f : f \in [Nat -> Nat] /\ \A m \in Nat : f[m] = IF m = 0 THEN 0 ELSE f[m - 1] + length[m]
  BY <1>3, SumsExist
<1>5. Start(f)
  BY <1>3, <1>4
<1>6. MonthStart = CHOOSE start : Start(start)
  BY DEF MonthStart
<1>7. Start(MonthStart)
  <2> HIDE DEF Start
  <2> QED BY <1>5, <1>6, Zenon
<1>8. \A m \in Nat : MonthStart[m] = IF m = 0 THEN 0 ELSE MonthStart[m - 1] + length[m]
  BY <1>3, <1>7
<1>9. DOMAIN MonthStart = Nat /\ MonthStart = [m \in Nat |-> MonthStart[m]]
  BY <1>7
<1> HIDE DEF Start, n
<1> DEFINE S == {m \in Nat : MonthStart[m] \in Nat}
<1>10. Nat \subseteq S
  <2>1. 0 \in S
    BY <1>8
  <2>2. ASSUME NEW m \in Nat, m \in S PROVE m + 1 \in S
    BY <1>3, <1>8, <2>2
  <2> HIDE DEF S
  <2> QED BY <2>1, <2>2, SetInduction
<1>11. \A m \in Nat : MonthStart[m] \in Nat
  BY <1>10
<1>12. \A m \in Nat : MonthStart[m] < MonthStart[m + 1]
  <2> SUFFICES ASSUME NEW m \in Nat PROVE MonthStart[m] < MonthStart[m + 1]
    OBVIOUS
  <2>1. MonthStart[m + 1] = MonthStart[m] + length[m + 1] /\ length[m + 1] \in Nat /\ length[m + 1] > 0
    BY <1>3, <1>8
  <2> QED BY <1>11, <2>1
<1> QED BY <1>8, <1>9, <1>11, <1>12 DEF Grows

(* A later month starts after an earlier one is over. *)
LEMMA MonthsInOrder ==
    ASSUME NEW m \in Nat, NEW n \in Nat, m < n
    PROVE  MonthStart[m + 1] <= MonthStart[n]
<1> DEFINE S == {k \in Nat : MonthStart[m + 1] <= MonthStart[(m + 1) + k]}
<1>1. 0 \in S
  BY MonthsGrow DEF Grows
<1>2. ASSUME NEW k \in Nat, k \in S PROVE k + 1 \in S
  <2>1. PICK i \in Nat : i = (m + 1) + k
    OBVIOUS
  <2>2. MonthStart[i] < MonthStart[i + 1] /\ (m + 1) + (k + 1) = i + 1
    BY <2>1, MonthsGrow DEF Grows
  <2>3. MonthStart[m + 1] \in Nat /\ MonthStart[i] \in Nat /\ MonthStart[i + 1] \in Nat
    BY MonthsGrow DEF Grows
  <2>4. MonthStart[m + 1] <= MonthStart[i]
    BY <1>2, <2>1
  <2> QED BY <2>2, <2>3, <2>4
<1>3. Nat \subseteq S
  <2> HIDE DEF S
  <2> QED BY <1>1, <1>2, SetInduction
<1>4. PICK k \in Nat : n = (m + 1) + k
  <2>1. n - (m + 1) \in Nat /\ n = (m + 1) + (n - (m + 1))
    OBVIOUS
  <2> QED BY <2>1
<1> QED BY <1>3, <1>4

(* By the m-th month m days have gone by at least. *)
LEMMA MonthsPass == \A m \in Nat : m <= MonthStart[m]
<1> DEFINE S == {m \in Nat : m <= MonthStart[m]}
<1>1. 0 \in S
  BY MonthsGrow DEF Grows
<1>2. ASSUME NEW m \in Nat, m \in S PROVE m + 1 \in S
  BY <1>2, MonthsGrow DEF Grows
<1>3. Nat \subseteq S
  <2> HIDE DEF S
  <2> QED BY <1>1, <1>2, SetInduction
<1> QED BY <1>3

(* InMonth(m, d): the day d is one of the month m. *)
InMonth(m, d) == MonthStart[m] <= d /\ d < MonthStart[m + 1]

(* Every day is in one month, and in one only. *)
LEMMA MonthOfDay ==
    ASSUME NEW d \in Nat
    PROVE  \E m \in 0..d : InMonth(m, d)
<1> DEFINE T == {m \in Nat : d < MonthStart[m + 1]}
<1>1. d \in T
  <2>1. d + 1 <= MonthStart[d + 1] /\ MonthStart[d + 1] \in Nat
    BY MonthsPass, MonthsGrow DEF Grows
  <2> QED BY <2>1
<1>2. PICK m \in T : \A k \in T : m <= k
  <2> HIDE DEF T
  <2>1. T \subseteq Nat
    BY DEF T
  <2> QED BY <1>1, <2>1, LeastNatural
<1>3. m \in 0..d /\ d < MonthStart[m + 1]
  BY <1>1, <1>2
<1>4. CASE m = 0
  <2>1. MonthStart[m] = 0
    BY <1>4, MonthsGrow DEF Grows
  <2> QED BY <1>3, <2>1 DEF InMonth
<1>5. CASE m # 0
  <2>1. PICK k \in Nat : m = k + 1
    <3>1. m - 1 \in Nat /\ m = (m - 1) + 1
      BY <1>5
    <3> QED BY <3>1
  <2>2. k \notin T
    BY <1>2, <2>1
  <2>3. MonthStart[m] \in Nat /\ ~(d < MonthStart[m])
    BY <2>1, <2>2, MonthsGrow DEF Grows
  <2> QED BY <1>3, <2>3 DEF InMonth
<1> QED BY <1>4, <1>5

(* A day lies in one month only. *)
LEMMA OneMonth ==
    ASSUME NEW d \in Nat, NEW m \in Nat, NEW n \in Nat, InMonth(m, d), InMonth(n, d)
    PROVE  m = n
<1>1. /\ MonthStart[m] \in Nat /\ MonthStart[m + 1] \in Nat
      /\ MonthStart[n] \in Nat /\ MonthStart[n + 1] \in Nat
  BY MonthsGrow DEF Grows
<1>2. ~(m < n)
  <2> SUFFICES ASSUME m < n PROVE FALSE
    OBVIOUS
  <2>1. MonthStart[m + 1] <= MonthStart[n]
    BY MonthsInOrder
  <2> QED BY <1>1, <2>1 DEF InMonth
<1>3. ~(n < m)
  <2> SUFFICES ASSUME n < m PROVE FALSE
    OBVIOUS
  <2>1. MonthStart[n + 1] <= MonthStart[m]
    BY MonthsInOrder
  <2> QED BY <1>1, <2>1 DEF InMonth
<1> QED BY <1>2, <1>3

(* The parts of a time, and a time made of its parts. *)
LEMMA DayParts ==
    ASSUME NEW t \in Nat
    PROVE  /\ DayOf(t) \in Nat /\ t % DayLength \in 0..(DayLength - 1)
           /\ t = DayOf(t) * DayLength + (t % DayLength)
<1>1. DayLength \in Nat /\ DayLength > 0
  BY CalendarAssumption
<1>2. t % DayLength \in 0..(DayLength - 1)
  BY <1>1
<1>3. t = (t \div DayLength) * DayLength + (t % DayLength)
  BY <1>1
<1>4. t \div DayLength \in Nat
  BY <1>1
<1> QED BY <1>2, <1>3, <1>4 DEF DayOf

(* A day is over when a later one begins. *)
LEMMA DaysInOrder ==
    ASSUME NEW d \in Nat, NEW e \in Nat, d < e
    PROVE  d * DayLength + DayLength <= e * DayLength /\ d * DayLength \in Nat
<1>1. PICK k \in Nat : e = (d + 1) + k
  <2>1. e - (d + 1) \in Nat /\ e = (d + 1) + (e - (d + 1))
    OBVIOUS
  <2> QED BY <2>1
<1>2. DayLength \in Nat
  BY CalendarAssumption
<1>3. k * DayLength \in Nat /\ d * DayLength \in Nat
  BY <1>2
<1>4. e * DayLength = (d * DayLength + DayLength) + k * DayLength
  BY <1>1, <1>2
<1> QED BY <1>2, <1>3, <1>4

(* The day and the time of an instant. *)
LEMMA DayAt ==
    ASSUME NEW d \in Nat, NEW time \in 0..(DayLength - 1), NEW t, t = d * DayLength + time
    PROVE  t \in Nat /\ DayOf(t) = d /\ t % DayLength = time
<1>1. DayLength \in Nat /\ d * DayLength \in Nat /\ t \in Nat
  BY CalendarAssumption
<1>2. PICK e \in Nat, r \in 0..(DayLength - 1) :
         e = DayOf(t) /\ r = t % DayLength /\ t = e * DayLength + r
  BY <1>1, DayParts
<1>3. e * DayLength \in Nat
  BY <1>1
<1>4. ~(d < e)
  <2> SUFFICES ASSUME d < e PROVE FALSE
    OBVIOUS
  <2>1. d * DayLength + DayLength <= e * DayLength
    BY DaysInOrder
  <2> QED BY <1>1, <1>2, <1>3, <2>1
<1>5. ~(e < d)
  <2> SUFFICES ASSUME e < d PROVE FALSE
    OBVIOUS
  <2>1. e * DayLength + DayLength <= d * DayLength
    BY DaysInOrder
  <2> QED BY <1>1, <1>2, <1>3, <2>1
<1> QED BY <1>1, <1>2, <1>3, <1>4, <1>5

(* MonthOf is the month of the day. *)
LEMMA MonthIs ==
    ASSUME NEW t \in Nat
    PROVE  /\ MonthOf(t) \in Nat /\ InMonth(MonthOf(t), DayOf(t))
           /\ \A m \in Nat : InMonth(m, DayOf(t)) => MonthOf(t) = m
<1>1. PICK d \in Nat : d = DayOf(t)
  BY DayParts
<1>2. \E m \in 0..d : InMonth(m, d)
  BY MonthOfDay
<1>3. MonthOf(t) = CHOOSE m \in 0..d : InMonth(m, d)
  BY <1>1 DEF MonthOf, InMonth
<1>4. MonthOf(t) \in 0..d /\ InMonth(MonthOf(t), d)
  BY <1>2, <1>3, Zenon
<1> QED BY <1>1, <1>4, OneMonth

(* The first tick of a day is not after the times of the day. *)
LEMMA DayRange ==
    ASSUME NEW s \in Nat, NEW d \in Nat
    PROVE  d * DayLength <= s <=> d <= DayOf(s)
<1>1. PICK e \in Nat, r \in 0..(DayLength - 1) : e = DayOf(s) /\ s = e * DayLength + r
  BY DayParts
<1>2. DayLength \in Nat /\ d * DayLength \in Nat /\ e * DayLength \in Nat
  BY CalendarAssumption
<1>3. e < d => e * DayLength + DayLength <= d * DayLength
  BY DaysInOrder
<1>4. d < e => d * DayLength + DayLength <= e * DayLength
  BY DaysInOrder
<1>5. CASE e < d
  BY <1>1, <1>2, <1>3, <1>5
<1>6. CASE d < e
  BY <1>1, <1>2, <1>4, <1>6
<1>7. CASE d = e
  BY <1>1, <1>2, <1>7
<1> QED BY <1>1, <1>5, <1>6, <1>7

(* Later instants lie on later days or on the same one. *)
LEMMA DaysGoOn ==
    ASSUME NEW s \in Nat, NEW t \in Nat, s <= t
    PROVE  DayOf(s) <= DayOf(t)
<1>1. PICK d \in Nat : d = DayOf(s)
  BY DayParts
<1>2. d * DayLength <= s
  BY <1>1, DayRange
<1>3. d * DayLength \in Int
  BY CalendarAssumption
<1>4. d * DayLength <= t
  BY <1>2, <1>3
<1> QED BY <1>1, <1>4, DayRange

(* A time of a later day is still to come. *)
LEMMA LaterDay ==
    ASSUME NEW now \in Nat, NEW e \in Nat, DayOf(now) < e, NEW time \in Nat
    PROVE  now < e * DayLength + time
<1>1. DayOf(now) \in Nat
  BY DayParts
<1>2. ~(e * DayLength <= now)
  BY <1>1, DayRange
<1>3. e * DayLength \in Int
  BY CalendarAssumption
<1> QED BY <1>2, <1>3

(* Days apart, and ticks. *)
LEMMA Apart ==
    ASSUME NEW d \in Nat, NEW k \in Nat
    PROVE  (d + k) * DayLength = d * DayLength + k * DayLength
BY CalendarAssumption

(* The days to a day of the week are none on that day only. *)
LEMMA DaysAhead ==
    ASSUME NEW day \in 0..(WeekLength - 1), NEW today \in Nat
    PROVE  /\ (day - WeekDayOf(today)) % WeekLength \in Nat
           /\ (day - WeekDayOf(today)) % WeekLength = 0 <=> day = WeekDayOf(today)
<1>1. WeekLength \in Nat /\ WeekLength > 0
  BY CalendarAssumption
<1>2. PICK w \in 0..(WeekLength - 1) : w = WeekDayOf(today)
  BY <1>1 DEF WeekDayOf
<1>3. PICK x \in Int : x = day - w
  OBVIOUS
<1>4. x % WeekLength \in Nat
  BY <1>1
<1>5. -WeekLength < x /\ x < WeekLength
  BY <1>1, <1>3
<1>6. x = 0 => x % WeekLength = 0
  BY <1>1
<1>7. ASSUME x % WeekLength = 0 PROVE x = 0
  <2>1. PICK q \in Int : x = q * WeekLength
    <3>1. x = (x \div WeekLength) * WeekLength + (x % WeekLength)
      BY <1>1
    <3>2. x \div WeekLength \in Int
      BY <1>1
    <3> QED BY <1>1, <1>7, <3>1, <3>2
  <2>2. q >= 1 => q * WeekLength >= WeekLength
    BY <1>1
  <2>3. q <= -1 => q * WeekLength <= -WeekLength
    BY <1>1
  <2>4. q = 0
    BY <1>1, <1>5, <2>1, <2>2, <2>3
  <2> QED BY <1>1, <2>1, <2>4
<1> QED BY <1>2, <1>3, <1>4, <1>6, <1>7

-----------------------------------------------------------------------------
(* Named(cron, last, now): the schedule names a moment between a poll and now. *)
Named(cron, last, now) == \E s \in (last + 1)..(now - 1) : Instant(cron, s)

(* Not served and in the past: such a candidate lies between. *)
LEMMA Between ==
    ASSUME NEW last \in Nat, NEW now \in Nat, NEW s \in Nat,
           ~Served(last, s), now > s
    PROVE  s \in (last + 1)..(now - 1)
<1>1. MinuteLength \in Nat /\ MinuteLength > 0 /\ last # Never
  BY CalendarAssumption
<1>2. ~(last > s - MinuteLength)
  BY <1>1 DEF Served
<1> QED BY <1>1, <1>2

(* A daily schedule that is due has reached an instant it names. *)
LEMMA DailyNamed ==
    ASSUME NEW cron, cron.mode = "daily", WellSet(cron), NEW last \in Nat, NEW now \in Nat,
           now > NextDaily(cron, last, now)
    PROVE  Named(cron, last, now)
<1>1. PICK d \in Nat, time \in 0..(DayLength - 1) : d = DayOf(now) /\ time = cron.time
  BY DayParts DEF WellSet, Scheduled
<1>2. PICK s : s = d * DayLength + time
  OBVIOUS
<1>3. s \in Nat /\ DayOf(s) = d /\ s % DayLength = time
  BY <1>2, DayAt
<1>4. NextDaily(cron, last, now) = IF Served(last, s) THEN s + DayLength ELSE s
  BY <1>1, <1>2 DEF NextDaily
<1>5. now < s + DayLength
  <2>1. now < (d + 1) * DayLength + time
    BY <1>1, LaterDay
  <2>2. (d + 1) * DayLength = d * DayLength + 1 * DayLength
    BY Apart
  <2> QED BY <1>2, <2>1, <2>2, CalendarAssumption
<1>6. ~Served(last, s) /\ now > s
  BY <1>3, <1>4, <1>5, CalendarAssumption
<1>7. Instant(cron, s)
  BY <1>1, <1>3 DEF Instant
<1> QED BY <1>3, <1>6, <1>7, Between DEF Named

(* So has a weekly one. *)
LEMMA WeeklyNamed ==
    ASSUME NEW cron, cron.mode = "weekly", WellSet(cron), NEW last \in Nat, NEW now \in Nat,
           now > NextWeekly(cron, last, now)
    PROVE  Named(cron, last, now)
<1>1. PICK d \in Nat, time \in 0..(DayLength - 1) : d = DayOf(now) /\ time = cron.time
  BY DayParts DEF WellSet, Scheduled
<1>2. cron.day \in 0..(WeekLength - 1)
  BY DEF WellSet, Scheduled
<1>3. PICK ahead \in Nat : /\ ahead = (cron.day - WeekDayOf(d)) % WeekLength
                           /\ ahead = 0 <=> cron.day = WeekDayOf(d)
  BY <1>2, DaysAhead
<1>4. PICK s : s = (d + ahead) * DayLength + time
  OBVIOUS
<1>5. s \in Nat /\ DayOf(s) = d + ahead /\ s % DayLength = time
  BY <1>4, DayAt
<1>6. NextWeekly(cron, last, now) = IF Served(last, s) THEN s + WeekLength * DayLength ELSE s
  BY <1>1, <1>3, <1>4 DEF NextWeekly
<1>7. WeekLength \in Nat /\ WeekLength > 0 /\ WeekLength * DayLength \in Nat
  BY CalendarAssumption
<1>8. now < s + WeekLength * DayLength
  <2>1. now < ((d + ahead) + WeekLength) * DayLength + time
    <3>1. PICK far \in Nat : far = (d + ahead) + WeekLength /\ DayOf(now) < far
      BY <1>1, <1>7
    <3>2. time \in Nat
      BY CalendarAssumption
    <3>3. now < far * DayLength + time
      BY <3>1, <3>2, LaterDay
    <3> QED BY <3>1, <3>3
  <2>2. ((d + ahead) + WeekLength) * DayLength = (d + ahead) * DayLength + WeekLength * DayLength
    <3>1. PICK e \in Nat : e = d + ahead
      OBVIOUS
    <3>2. (e + WeekLength) * DayLength = e * DayLength + WeekLength * DayLength
      BY <1>7, Apart
    <3> QED BY <3>1, <3>2
  <2>3. (d + ahead) * DayLength \in Int
    BY CalendarAssumption
  <2> QED BY <1>4, <1>7, <2>1, <2>2, <2>3
<1>9. ~Served(last, s) /\ now > s
  BY <1>5, <1>6, <1>7, <1>8
<1>10. ahead = 0
  <2> SUFFICES ASSUME ahead > 0 PROVE FALSE
    OBVIOUS
  <2>1. now < s
    BY <1>1, <1>4, LaterDay
  <2> QED BY <1>5, <1>9, <2>1
<1>11. Instant(cron, s)
  BY <1>1, <1>3, <1>5, <1>10 DEF Instant
<1> QED BY <1>5, <1>9, <1>11, Between DEF Named

(* The dates of a month, and of the next one. *)
LEMMA DateIs ==
    ASSUME NEW m \in Nat, NEW day \in Nat \ {0}, NEW time \in 0..(DayLength - 1)
    PROVE  /\ Date(m, day, time) \in Nat
           /\ DayOf(Date(m, day, time)) = MonthStart[m] + (day - 1)
           /\ Date(m, day, time) % DayLength = time
<1>1. PICK start \in Nat : start = MonthStart[m]
  BY MonthsGrow DEF Grows
<1>2. start + day - 1 = start + (day - 1) /\ start + (day - 1) \in Nat
  OBVIOUS
<1>3. Date(m, day, time) = (start + (day - 1)) * DayLength + time
  BY <1>1, <1>2 DEF Date
<1> QED BY <1>1, <1>2, <1>3, DayAt

(* A date in the next month is still to come. *)
LEMMA NextMonth ==
    ASSUME NEW now \in Nat, NEW day \in Nat \ {0}, NEW time \in 0..(DayLength - 1)
    PROVE  now < Date(MonthOf(now) + 1, day, time)
<1>1. PICK m \in Nat : m = MonthOf(now) /\ InMonth(m, DayOf(now))
  BY MonthIs
<1>2. PICK start \in Nat : start = MonthStart[m + 1]
  BY MonthsGrow DEF Grows
<1>3. PICK e \in Nat : e = start + (day - 1)
  OBVIOUS
<1>4. DayOf(now) \in Nat /\ DayOf(now) < e
  BY <1>1, <1>2, <1>3, DayParts DEF InMonth
<1>5. Date(m + 1, day, time) = e * DayLength + time
  <2>1. start + day - 1 = e
    BY <1>3
  <2> QED BY <1>2, <2>1 DEF Date
<1>6. time \in Nat
  BY CalendarAssumption
<1> QED BY <1>1, <1>4, <1>5, <1>6, LaterDay

(* What computeNextScheduledTime makes of a monthly schedule. *)
LEMMA MonthlyIs ==
    ASSUME NEW cron, NEW last, NEW now, NEW month, NEW drawn, NEW later,
           month = MonthOf(now), drawn = Date(month, cron.day, cron.time),
           later = Date(month + 1, cron.day, cron.time)
    PROVE  NextMonthly(cron, last, now) =
              IF MonthOf(drawn) # month /\ drawn < now THEN later
              ELSE IF Served(last, drawn) THEN later ELSE drawn
BY DEF NextMonthly

(* A monthly schedule that is due has reached an instant it names. *)
LEMMA MonthlyNamed ==
    ASSUME NEW cron, cron.mode = "monthly", WellSet(cron), NEW last \in Nat, NEW now \in Nat,
           now > NextMonthly(cron, last, now)
    PROVE  Named(cron, last, now)
<1>1. cron.day \in Nat \ {0} /\ cron.time \in 0..(DayLength - 1)
  BY DEF WellSet, Scheduled
<1>2. PICK m \in Nat : m = MonthOf(now)
  BY MonthIs
<1>3. PICK s \in Nat : /\ s = Date(m, cron.day, cron.time)
                       /\ DayOf(s) = MonthStart[m] + (cron.day - 1) /\ s % DayLength = cron.time
  BY <1>1, DateIs
<1>4. PICK later \in Nat : later = Date(m + 1, cron.day, cron.time) /\ now < later
  <2>1. PICK n \in Nat : n = m + 1
    OBVIOUS
  <2>2. Date(n, cron.day, cron.time) \in Nat
    BY <1>1, DateIs
  <2>3. now < Date(MonthOf(now) + 1, cron.day, cron.time)
    BY <1>1, NextMonth
  <2> QED BY <1>2, <2>1, <2>2, <2>3
<1>5. NextMonthly(cron, last, now) =
         IF MonthOf(s) # m /\ s < now THEN later ELSE IF Served(last, s) THEN later ELSE s
  BY <1>2, <1>3, <1>4, MonthlyIs
<1>6. ~Served(last, s) /\ now > s /\ MonthOf(s) = m
  BY <1>4, <1>5
<1>7. MonthStart[m] \in Nat
  BY MonthsGrow DEF Grows
<1>8. DayOf(s) - MonthStart[MonthOf(s)] + 1 = cron.day
  BY <1>1, <1>3, <1>6, <1>7
<1>9. Instant(cron, s)
  BY <1>3, <1>8 DEF Instant
<1> QED BY <1>6, <1>9, Between DEF Named

(* A trigger with a schedule is due only when a moment has come since it was   *)
(* last polled.                                                                *)
LEMMA DueIsNamed ==
    ASSUME NEW cron, Scheduled(cron), WellSet(cron), NEW last \in Nat, NEW now \in Nat,
           Due(cron, last, now)
    PROVE  Named(cron, last, now)
<1>1. now > NextScheduled(cron, last, now)
  BY DEF Due
<1>2. CASE cron.mode = "daily"
  BY <1>1, <1>2, DailyNamed DEF NextScheduled
<1>3. CASE cron.mode = "weekly"
  BY <1>1, <1>3, WeeklyNamed DEF NextScheduled
<1>4. CASE cron.mode = "monthly"
  BY <1>1, <1>4, MonthlyNamed DEF NextScheduled
<1> QED BY <1>2, <1>3, <1>4 DEF Scheduled

(* A poll of a day serves the moments of the day that are past: those that a  *)
(* schedule still answers for, if it is not due.                              *)
LEMMA DailyServed ==
    ASSUME NEW cron, cron.mode = "daily", WellSet(cron), NEW last, NEW now \in Nat,
           ~(now > NextDaily(cron, last, now)),
           NEW s \in StillOwed(cron, now)
    PROVE  Served(last, s)
<1>1. PICK d \in Nat, time \in 0..(DayLength - 1) : d = DayOf(now) /\ time = cron.time
  BY DayParts DEF WellSet, Scheduled
<1>2. d * DayLength \in Nat
  BY CalendarAssumption
<1>3. s \in (d * DayLength)..(now - 1) /\ Instant(cron, s)
  BY <1>1 DEF StillOwed
<1>4. s \in Nat /\ s < now /\ DayOf(s) = d
  <2>1. s \in Nat /\ s < now /\ d * DayLength <= s
    BY <1>2, <1>3
  <2>2. d <= DayOf(s) /\ DayOf(s) <= d /\ DayOf(s) \in Nat
    BY <1>1, <2>1, DayRange, DaysGoOn, DayParts
  <2> QED BY <2>1, <2>2
<1>5. s = d * DayLength + time
  BY <1>1, <1>3, <1>4, DayParts DEF Instant
<1>6. NextDaily(cron, last, now) = IF Served(last, s) THEN s + DayLength ELSE s
  BY <1>1, <1>5 DEF NextDaily
<1> QED BY <1>4, <1>6

(* A weekly schedule that is not due owes nothing. *)
LEMMA WeeklyServed ==
    ASSUME NEW cron, cron.mode = "weekly", WellSet(cron), NEW last, NEW now \in Nat,
           ~(now > NextWeekly(cron, last, now)),
           NEW s \in StillOwed(cron, now)
    PROVE  Served(last, s)
<1>1. PICK d \in Nat, time \in 0..(DayLength - 1) : d = DayOf(now) /\ time = cron.time
  BY DayParts DEF WellSet, Scheduled
<1>2. d * DayLength \in Nat /\ cron.day \in 0..(WeekLength - 1)
  BY CalendarAssumption DEF WellSet, Scheduled
<1>3. s \in (d * DayLength)..(now - 1) /\ Instant(cron, s)
  BY <1>1 DEF StillOwed
<1>4. s \in Nat /\ s < now /\ DayOf(s) = d
  <2>1. s \in Nat /\ s < now /\ d * DayLength <= s
    BY <1>2, <1>3
  <2>2. d <= DayOf(s) /\ DayOf(s) <= d /\ DayOf(s) \in Nat
    BY <1>1, <2>1, DayRange, DaysGoOn, DayParts
  <2> QED BY <2>1, <2>2
<1>5. s = d * DayLength + time /\ cron.day = WeekDayOf(d)
  BY <1>1, <1>3, <1>4, DayParts DEF Instant
<1>6. PICK ahead : ahead = (cron.day - WeekDayOf(d)) % WeekLength /\ ahead = 0
  BY <1>2, <1>5, DaysAhead
<1>7. s = (d + ahead) * DayLength + time
  BY <1>5, <1>6
<1>8. NextWeekly(cron, last, now) = IF Served(last, s) THEN s + WeekLength * DayLength ELSE s
  BY <1>1, <1>6, <1>7 DEF NextWeekly
<1> QED BY <1>4, <1>8

(* Neither does a monthly one. *)
LEMMA MonthlyServed ==
    ASSUME NEW cron, cron.mode = "monthly", WellSet(cron), NEW last, NEW now \in Nat,
           ~(now > NextMonthly(cron, last, now)),
           NEW s \in StillOwed(cron, now)
    PROVE  Served(last, s)
<1>1. cron.day \in Nat \ {0} /\ cron.time \in 0..(DayLength - 1)
  BY DEF WellSet, Scheduled
<1>2. PICK m \in Nat : m = MonthOf(now) /\ InMonth(m, DayOf(now))
  BY MonthIs
<1>3. PICK start \in Nat, next \in Nat : start = MonthStart[m] /\ next = MonthStart[m + 1]
  BY MonthsGrow DEF Grows
<1>4. start * DayLength \in Nat
  BY CalendarAssumption
<1>5. s \in (start * DayLength)..(now - 1) /\ Instant(cron, s)
  BY <1>2, <1>3 DEF StillOwed
<1>6. s \in Nat /\ s < now /\ start * DayLength <= s
  BY <1>4, <1>5
<1>7. MonthOf(s) = m
  <2>1. start <= DayOf(s) /\ DayOf(s) <= DayOf(now)
    BY <1>6, DayRange, DaysGoOn
  <2>2. DayOf(now) < next /\ DayOf(s) \in Nat /\ DayOf(now) \in Nat
    BY <1>2, <1>3, <1>6, DayParts DEF InMonth
  <2>3. InMonth(m, DayOf(s))
    BY <1>3, <2>1, <2>2 DEF InMonth
  <2> QED BY <1>6, <2>3, MonthIs
<1>8. s = Date(m, cron.day, cron.time)
  <2>1. PICK e \in Nat : e = DayOf(s) /\ s = e * DayLength + cron.time
    BY <1>5, <1>6, DayParts DEF Instant
  <2>2. e - start + 1 = cron.day
    BY <1>3, <1>5, <1>7, <2>1 DEF Instant
  <2>3. start + cron.day - 1 = e
    BY <1>1, <2>2
  <2> QED BY <1>3, <2>1, <2>3 DEF Date
<1>9. PICK later : later = Date(m + 1, cron.day, cron.time)
  OBVIOUS
<1>10. NextMonthly(cron, last, now) =
         IF MonthOf(s) # m /\ s < now THEN later ELSE IF Served(last, s) THEN later ELSE s
  BY <1>2, <1>8, <1>9, MonthlyIs
<1> QED BY <1>6, <1>7, <1>10

(* A schedule that is not due has been served.                                *)
LEMMA NotDueIsServed ==
    ASSUME NEW cron, Scheduled(cron), WellSet(cron), NEW last, NEW now \in Nat,
           ~Due(cron, last, now)
    PROVE  \A s \in StillOwed(cron, now) : Served(last, s)
<1>1. ~(now > NextScheduled(cron, last, now))
  BY DEF Due
<1>2. CASE cron.mode = "daily"
  BY <1>1, <1>2, DailyServed DEF NextScheduled
<1>3. CASE cron.mode = "weekly"
  BY <1>1, <1>3, WeeklyServed DEF NextScheduled
<1>4. CASE cron.mode = "monthly"
  BY <1>1, <1>4, MonthlyServed DEF NextScheduled
<1> QED BY <1>2, <1>3, <1>4 DEF Scheduled

(* A poll serves the moments before its round.                                *)
LEMMA PollServes ==
    ASSUME NEW cron, NEW at \in Nat, NEW clock1 \in Nat, at <= clock1
    PROVE  \A s \in StillOwed(cron, at) : Served(clock1, s)
<1>1. PICK from \in Int : \A s \in StillOwed(cron, at) : s \in from..(at - 1)
  <2>1. PICK d \in Nat : d = DayOf(at)
    BY DayParts
  <2>2. PICK m \in Nat : m = MonthOf(at)
    BY MonthIs
  <2>3. MonthStart[m] \in Nat
    BY MonthsGrow DEF Grows
  <2>4. PICK day \in Nat : day = IF cron.mode = "monthly" THEN MonthStart[MonthOf(at)] ELSE DayOf(at)
    BY <2>1, <2>2, <2>3
  <2>5. day * DayLength \in Int
    BY CalendarAssumption
  <2>6. \A s \in StillOwed(cron, at) : s \in (day * DayLength)..(at - 1)
    BY <2>4 DEF StillOwed
  <2> QED BY <2>5, <2>6
<1>2. MinuteLength \in Nat /\ MinuteLength > 0 /\ clock1 # Never
  BY CalendarAssumption
<1>3. ASSUME NEW s \in StillOwed(cron, at) PROVE Served(clock1, s)
  <2>1. s \in Int /\ s < at
    BY <1>1
  <2> QED BY <1>2, <2>1 DEF Served
<1> QED BY <1>3
-----------------------------------------------------------------------------
(* What the rounds know of the polls: the proofs of ScheduleKept and of        *)
(* OncePerInstant.                                                             *)

(* The round has still to be done with a trigger. *)
Awaits(t) ==
    \/ round.step \in {"rules", "links"} /\ t \in DOMAIN round.seen
    \/ round.step = "poll" /\ t \in round.todo

(* The last poll that a trigger's row tells of. *)
SinceKnown ==
    /\ DOMAIN since = 1..MaxTrigger
    /\ \A t \in DOMAIN since : since[t] \in Nat \cup {Never}
    /\ \A t \in DOMAIN since : since[t] # Never =>
          t \in DOMAIN trigger /\ (~trigger[t].deleted => trigger[t].last = since[t])

(* The copies of the round are of triggers there are; until the round is done  *)
(* with one it has the last poll, and what nobody has written is as it was.    *)
CopyOf(t) ==
    /\ t \in DOMAIN since /\ since[t] # Never => round.seen[t].last = since[t]
    /\ Steady("trigger", t) => trigger[t] = round.seen[t] /\ ~trigger[t].deleted

CopiesKnown ==
    /\ round # Off => \A t \in DOMAIN round.seen :
          t \in DOMAIN trigger /\ SoundRow(round.seen[t], clock)
    /\ round.step = "poll" => round.at \in 0..clock
    /\ \A t \in DOMAIN trigger : Awaits(t) => CopyOf(t)

ScheduleInv == RowsInv /\ SinceKnown /\ CopiesKnown

(* What a request, the job service or the clock does to the triggers: a row    *)
(* that it writes it touches, and either the row has the last poll still, or   *)
(* its history is forgotten.                                                   *)
TriggerWrites ==
    /\ round' = round /\ clock' \in Nat /\ clock <= clock'
    /\ DOMAIN trigger \subseteq DOMAIN trigger'
    /\ touched \subseteq touched'
    /\ DOMAIN since' = DOMAIN since
    /\ \A t \in DOMAIN since : since'[t] \in {since[t], Never}
    /\ \A t \in DOMAIN trigger :
          /\ <<"trigger", t>> \notin touched' => trigger'[t] = trigger[t]
          /\ t \in DOMAIN since /\ since'[t] # Never /\ ~trigger'[t].deleted =>
                ~trigger[t].deleted /\ trigger'[t].last = trigger[t].last

(* Writes that leave the dates of a trigger, or that are noted, keep the invariant. *)
LEMMA TriggerWritesKeep ==
    ASSUME ScheduleInv, TriggerWrites, RowsInv'
    PROVE  ScheduleInv'
<1>1. SinceKnown'
  <2>1. \A t \in DOMAIN since' : since'[t] \in Nat \cup {Never}
    BY DEF ScheduleInv, SinceKnown, TriggerWrites
  <2>2. ASSUME NEW t \in DOMAIN since', since'[t] # Never
        PROVE  t \in DOMAIN trigger' /\ (~trigger'[t].deleted => trigger'[t].last = since'[t])
    <3>1. t \in DOMAIN since /\ since'[t] = since[t] /\ t \in DOMAIN trigger
      BY <2>2 DEF ScheduleInv, SinceKnown, TriggerWrites
    <3> QED BY <2>2, <3>1 DEF ScheduleInv, SinceKnown, TriggerWrites
  <2>3. DOMAIN since' = 1..MaxTrigger
    BY DEF ScheduleInv, SinceKnown, TriggerWrites
  <2> QED BY <2>1, <2>2, <2>3 DEF SinceKnown
<1>2. CopiesKnown'
  <2>1. \A row : SoundRow(row, clock) => SoundRow(row, clock')
    BY SoundLater DEF ScheduleInv, RowsInv, TriggerWrites
  <2>2. round' # Off => \A t \in DOMAIN round'.seen :
           t \in DOMAIN trigger' /\ SoundRow(round'.seen[t], clock')
    BY <2>1 DEF ScheduleInv, CopiesKnown, TriggerWrites
  <2>3. round'.step = "poll" => round'.at \in 0..clock'
    BY DEF ScheduleInv, CopiesKnown, TriggerWrites, RowsInv
  <2>4. ASSUME NEW t \in DOMAIN trigger', Awaits(t)' PROVE CopyOf(t)'
    <3>1. Awaits(t) /\ round # Off
      BY <2>4 DEF Awaits, TriggerWrites, Off
    <3>2. t \in DOMAIN trigger
      BY <3>1 DEF ScheduleInv, CopiesKnown, RowsInv, RoundStarted, Awaits
    <3>3. CopyOf(t)
      BY <3>1, <3>2 DEF ScheduleInv, CopiesKnown
    <3>4. t \in DOMAIN since' /\ since'[t] # Never => round'.seen[t].last = since'[t]
      BY <3>3 DEF CopyOf, TriggerWrites
    <3>5. Steady("trigger", t)' => trigger'[t] = round'.seen[t] /\ ~trigger'[t].deleted
      BY <3>2, <3>3 DEF CopyOf, TriggerWrites, Steady
    <3> QED BY <3>4, <3>5 DEF CopyOf
  <2> QED BY <2>2, <2>3, <2>4 DEF CopiesKnown
<1> QED BY <1>1, <1>2 DEF ScheduleInv

(* Nothing about triggers. *)
LEMMA TriggersStay ==
    ASSUME ScheduleInv, UNCHANGED <<trigger, round, since>>, clock' \in Nat, clock <= clock',
           touched \subseteq touched'
    PROVE  TriggerWrites
BY DEF ScheduleInv, TriggerWrites

(* A request that writes the row of a trigger. *)
LEMMA UpdateWrites ==
    ASSUME ScheduleInv, NEW t, NEW new, UpdateRow(t, new),
           t \in DOMAIN trigger => new.deleted \/ new.last = trigger[t].last
    PROVE  TriggerWrites
<1>1. /\ trigger' = IF Visible(t) THEN [trigger EXCEPT ![t] = new] ELSE trigger
      /\ touched' = touched \cup {<<"trigger", t>>}
      /\ UNCHANGED <<round, clock, since>>
  BY DEF UpdateRow, Touch
<1>2. DOMAIN trigger' = DOMAIN trigger
  BY <1>1
<1>3. ASSUME NEW i \in DOMAIN trigger
      PROVE  /\ <<"trigger", i>> \notin touched' => trigger'[i] = trigger[i]
             /\ ~trigger'[i].deleted => ~trigger[i].deleted /\ trigger'[i].last = trigger[i].last
  <2>1. CASE Visible(t) /\ i = t
    <3>1. trigger'[i] = new /\ ~trigger[i].deleted /\ <<"trigger", i>> \in touched'
      BY <1>1, <2>1 DEF Visible
    <3> QED BY <2>1, <3>1 DEF Visible
  <2>2. CASE ~(Visible(t) /\ i = t)
    <3>1. trigger'[i] = trigger[i]
      BY <1>1, <2>2
    <3> QED BY <3>1
  <2> QED BY <2>1, <2>2
<1>4. clock' \in Nat /\ clock <= clock'
  BY <1>1 DEF ScheduleInv, RowsInv
<1> QED BY <1>1, <1>2, <1>3, <1>4 DEF TriggerWrites, ScheduleInv

(* Saving a trigger is noted. *)
LEMMA SaveWrites ==
    ASSUME ScheduleInv, NEW c, NEW new, SaveRow(c, new)
    PROVE  TriggerWrites
<1>1. PICK t : t = call[c].trig
  OBVIOUS
<1>2. /\ trigger' = [trigger EXCEPT ![t] = new]
      /\ since' = [since EXCEPT ![t] = Never]
      /\ touched' = touched \cup {<<"trigger", t>>}
      /\ UNCHANGED <<round, clock>>
  BY <1>1 DEF SaveRow, Touch
<1>3. DOMAIN trigger' = DOMAIN trigger /\ DOMAIN since' = DOMAIN since
  BY <1>2
<1>4. ASSUME NEW i \in DOMAIN trigger
      PROVE  /\ <<"trigger", i>> \notin touched' => trigger'[i] = trigger[i]
             /\ i \in DOMAIN since /\ since'[i] # Never => trigger'[i] = trigger[i]
  <2>1. CASE i = t
    BY <1>2, <2>1
  <2>2. CASE i # t
    BY <1>2, <2>2
  <2> QED BY <2>1, <2>2
<1>5. \A i \in DOMAIN since : since'[i] \in {since[i], Never}
  BY <1>2
<1>6. \A i \in DOMAIN since : since'[i] # Never => since'[i] = since[i]
  BY <1>5
<1>7. clock' \in Nat /\ clock <= clock'
  BY <1>2 DEF ScheduleInv, RowsInv
<1>8. touched \subseteq touched'
  BY <1>2
<1> QED BY <1>2, <1>3, <1>4, <1>5, <1>7, <1>8 DEF TriggerWrites

(* Creating one leaves the others alone. *)
LEMMA CreateWrites ==
    ASSUME ScheduleInv, NEW c, Create(c)
    PROVE  TriggerWrites
<1>1. PICK row : trigger' = Stored(trigger, serial.trigger + 1, row)
  BY DEF Create
<1>2. touched' = touched \cup {<<"trigger", serial.trigger + 1>>} /\ UNCHANGED <<round, clock, since>>
  BY DEF Create, Touch
<1>3. \A i \in DOMAIN trigger : i \in DOMAIN trigger' /\ trigger'[i] = trigger[i]
  <2>1. serial.trigger + 1 \notin DOMAIN trigger
    BY DEF ScheduleInv, RowsInv, TriggersSound
  <2> QED BY <1>1, <2>1 DEF Stored
<1>4. clock' \in Nat /\ clock <= clock'
  BY <1>2 DEF ScheduleInv, RowsInv
<1> QED BY <1>2, <1>3, <1>4 DEF TriggerWrites

(* Every step of a request is such a write. *)
LEMMA RequestTriggers ==
    ASSUME ScheduleInv, NEW c \in Callers, Works(c) \/ Begins(c)
    PROVE  TriggerWrites
<1> DEFINE t == call[c].trig
<1>1. clock \in Nat /\ clock <= clock
  BY DEF ScheduleInv, RowsInv
<1>2. CASE Find(c) \/ FindJob(c) \/ GiveUp(c) \/ \E i \in DOMAIN trigger : Check(c, i)
  <2>1. UNCHANGED <<trigger, round, since, clock, touched>>
    BY <1>2 DEF Find, FindJob, GiveUp, Check, rows
  <2> QED BY <1>1, <2>1, TriggersStay
<1>3. CASE AddRule(c) \/ UpdateRule(c) \/ DeleteRule(c)
  <2>1. UNCHANGED <<trigger, round, since, clock>> /\ touched \subseteq touched'
    BY <1>3 DEF AddRule, UpdateRule, DeleteRule, WriteRule, Touch
  <2> QED BY <1>1, <2>1, TriggersStay
<1>4. CASE InsertLink(c) \/ UnlinkJob(c)
  <2>1. UNCHANGED <<trigger, round, since, clock>> /\ touched \subseteq touched'
    BY <1>4 DEF InsertLink, Insert, UnlinkJob, DropLinks, Touch
  <2> QED BY <1>1, <2>1, TriggersStay
<1>5. CASE Patch(c)
  <2>1. PICK minutes : UpdateRow(t, [trigger[t] EXCEPT !.interval = minutes])
    BY <1>5 DEF Patch
  <2>2. t \in DOMAIN trigger => [trigger[t] EXCEPT !.interval = minutes].last = trigger[t].last
    BY DEF ScheduleInv, RowsInv, TriggersSound, SoundRow, TriggerFields
  <2> QED BY <2>1, <2>2, UpdateWrites
<1>6. CASE Pause(c)
  <2>1. UpdateRow(t, [trigger[t] EXCEPT !.status = "paused"])
    BY <1>6 DEF Pause
  <2>2. t \in DOMAIN trigger => [trigger[t] EXCEPT !.status = "paused"].last = trigger[t].last
    BY DEF ScheduleInv, RowsInv, TriggersSound, SoundRow, TriggerFields
  <2> QED BY <2>1, <2>2, UpdateWrites
<1>7. CASE Delete(c)
  <2>1. UpdateRow(t, [trigger[t] EXCEPT !.deleted = TRUE])
    BY <1>7 DEF Delete
  <2>2. t \in DOMAIN trigger => [trigger[t] EXCEPT !.deleted = TRUE].deleted
    BY DEF ScheduleInv, RowsInv, TriggersSound, SoundRow, TriggerFields
  <2> QED BY <2>1, <2>2, UpdateWrites
<1>8. CASE UpdateConfig(c)
  <2>1. PICK row : SaveRow(c, row)
    BY <1>8 DEF UpdateConfig
  <2> QED BY <2>1, SaveWrites
<1>9. CASE Activate(c)
  <2>1. PICK row : SaveRow(c, row)
    BY <1>9 DEF Activate
  <2> QED BY <2>1, SaveWrites
<1>10. CASE Create(c)
  BY <1>10, CreateWrites
<1> QED BY <1>2, <1>3, <1>4, <1>5, <1>6, <1>7, <1>8, <1>9, <1>10 DEF Works, Begins

(* The steps that are not the poller's. *)
LEMMA OthersWrite ==
    ASSUME ScheduleInv, [Next]_vars, ~Dispatcher
    PROVE  TriggerWrites
<1>1. clock \in Nat /\ clock <= clock
  BY DEF ScheduleInv, RowsInv
<1>2. CASE UNCHANGED adminVars
  <2>1. UNCHANGED <<trigger, round, since, clock, touched>>
    BY <1>2 DEF adminVars, rows
  <2> QED BY <1>1, <2>1, TriggersStay
<1>3. ASSUME NEW r \in Requests, Works(r) \/ Begins(r) PROVE TriggerWrites
  BY <1>3, RequestTriggers, ServerAssumption
<1>4. CASE Tick
  <2>1. UNCHANGED <<trigger, round, since, touched>> /\ clock' = clock + 1
    BY <1>4 DEF Tick, rows
  <2>2. clock' \in Nat /\ clock <= clock'
    BY <1>1, <2>1
  <2> QED BY <2>1, <2>2, TriggersStay
<1>5. ASSUME NEW j, DropJob(j) PROVE TriggerWrites
  <2>1. UNCHANGED <<trigger, round, since, clock>> /\ touched \subseteq touched'
    BY <1>5 DEF DropJob, DropLinks, Touch
  <2> QED BY <1>1, <2>1, TriggersStay
<1>6. CASE UNCHANGED vars
  BY <1>2, <1>6 DEF vars
<1> QED BY <1>2, <1>3, <1>4, <1>5, <1>6 DEF Next, Handle, Answer

(* The statements a round begins with. *)
LEMMA ReadingKeepsSchedule ==
    ASSUME ScheduleInv, RowsInv', ReadTriggers \/ ReadRules \/ ReadLinks
    PROVE  ScheduleInv'
<1>1. UNCHANGED <<trigger, since, clock>> /\ SinceKnown'
  <2>1. UNCHANGED <<trigger, since, clock>>
    BY DEF ReadTriggers, ReadRules, ReadLinks, rows
  <2> QED BY <2>1 DEF ScheduleInv, SinceKnown
<1>2. CASE ReadTriggers
  <2> DEFINE active == {t \in DOMAIN trigger : Visible(t) /\ trigger[t].status = "active"}
  <2>1. round' = [step |-> "rules", seen |-> [t \in active |-> trigger[t]]] /\ touched' = {}
    BY <1>2 DEF ReadTriggers
  <2>2. /\ round'.step = "rules" /\ DOMAIN round'.seen = active
        /\ \A t \in active : round'.seen[t] = trigger[t]
    <3> HIDE DEF active
    <3> QED BY <2>1
  <2>3. \A t \in active : t \in DOMAIN trigger /\ ~trigger[t].deleted
    BY DEF Visible
  <2>4. \A t \in active : SoundRow(round'.seen[t], clock')
    BY <1>1, <2>2, <2>3 DEF ScheduleInv, RowsInv, TriggersSound
  <2>5. ASSUME NEW t \in DOMAIN trigger', Awaits(t)' PROVE CopyOf(t)'
    <3>1. t \in active /\ round'.seen[t] = trigger[t] /\ ~trigger[t].deleted
      BY <2>2, <2>3, <2>5 DEF Awaits
    <3> HIDE DEF active
    <3> QED BY <1>1, <3>1 DEF CopyOf, ScheduleInv, SinceKnown
  <2> HIDE DEF active
  <2>6. CopiesKnown'
    BY <1>1, <2>2, <2>3, <2>4, <2>5 DEF CopiesKnown
  <2> QED BY <1>1, <2>6 DEF ScheduleInv
<1>3. CASE ReadRules \/ ReadLinks
  <2>1. /\ round.step \in {"rules", "links"} /\ round'.seen = round.seen
        /\ touched' = touched
        /\ \/ round'.step = "links"
           \/ round'.step = "poll" /\ round'.at = clock /\ round'.todo = DOMAIN round.seen
    BY <1>3 DEF ReadRules, ReadLinks
  <2>2. round # Off /\ clock \in 0..clock
    BY <2>1 DEF Off, ScheduleInv, RowsInv
  <2>3. ASSUME NEW t \in DOMAIN trigger', Awaits(t)' PROVE CopyOf(t)'
    <3>1. t \in DOMAIN trigger /\ Awaits(t)
      BY <1>1, <2>1, <2>3 DEF Awaits
    <3>2. CopyOf(t)
      BY <3>1 DEF ScheduleInv, CopiesKnown
    <3> QED BY <1>1, <2>1, <3>2 DEF CopyOf, Steady
  <2>4. CopiesKnown'
    BY <1>1, <2>1, <2>2, <2>3 DEF ScheduleInv, CopiesKnown
  <2> QED BY <1>1, <2>4 DEF ScheduleInv
<1> QED BY <1>2, <1>3

(* The round goes on with the triggers it has still to be done with. *)
LEMMA DoneAwaits ==
    ASSUME RoundStarted, round.step = "poll", NEW t \in round.todo, Done(t)
    PROVE  /\ \A i : Awaits(i)' => i # t /\ Awaits(i)
           /\ \A i : Awaits(i) /\ i # t => round'.step = "poll" /\ i \in round'.todo
           /\ round' # Off => round'.seen = round.seen
           /\ round'.step = "poll" => round'.at = round.at
<1>1. round # Off
  BY DEF Off
<1>2. CASE round.todo = {t}
  <2>1. round' = Off
    BY <1>2 DEF Done
  <2>2. round'.step = "off"
    BY <2>1 DEF Off
  <2> QED BY <1>2, <2>1, <2>2 DEF Awaits
<1>3. CASE round.todo # {t}
  <2>1. round = [step |-> "poll", seen |-> round.seen, rules |-> round.rules,
                 links |-> round.links, at |-> round.at, todo |-> round.todo]
    BY DEF RoundStarted, RoundShape
  <2>2. round' = [step |-> "poll", seen |-> round.seen, rules |-> round.rules,
                  links |-> round.links, at |-> round.at, todo |-> round.todo \ {t}]
    BY <1>3, <2>1 DEF Done
  <2>3. round'.step = "poll" /\ round'.seen = round.seen /\ round'.at = round.at
        /\ round'.todo = round.todo \ {t}
    BY <2>2
  <2> QED BY <2>3 DEF Awaits
<1> QED BY <1>2, <1>3

(* A poll dates the row, if it is there, and that is all it has to do with     *)
(* the other rows.                                                             *)
DatedBy(t) ==
    /\ DOMAIN trigger' = DOMAIN trigger /\ DOMAIN since' = DOMAIN since
    /\ \A i \in DOMAIN trigger : i # t => trigger'[i] = trigger[i]
    /\ t \in DOMAIN trigger => trigger'[t].deleted = trigger[t].deleted
    /\ Visible(t) => trigger'[t].last = clock
    /\ \A i \in DOMAIN since : since'[i] = IF i = t THEN clock ELSE since[i]

(* A poll leaves the date of the poll. *)
LEMMA PolledDates ==
    ASSUME RowsInv, NEW t, NEW status, status = "" \/ status = "error", Polled(t, status)
    PROVE  DatedBy(t)
<1>1. since' = [since EXCEPT ![t] = clock]
  BY Zenon DEF Polled
<1>2. DOMAIN since' = DOMAIN since /\ \A i \in DOMAIN since : since'[i] = IF i = t THEN clock ELSE since[i]
  BY <1>1
<1>3. CASE Visible(t)
  <2>1. PICK new : trigger' = [trigger EXCEPT ![t].last = clock, ![t].status = new]
    BY <1>3, PolledRow
  <2>2. t \in DOMAIN trigger /\ DOMAIN trigger[t] = TriggerFields
    BY <1>3 DEF Visible, RowsInv, TriggersSound, SoundRow
  <2>3. /\ DOMAIN trigger' = DOMAIN trigger
        /\ \A i \in DOMAIN trigger : i # t => trigger'[i] = trigger[i]
        /\ trigger'[t] = [trigger[t] EXCEPT !.last = clock, !.status = new]
    BY <2>1, <2>2
  <2>4. trigger'[t].deleted = trigger[t].deleted /\ trigger'[t].last = clock
    BY <2>2, <2>3 DEF TriggerFields
  <2> QED BY <1>2, <2>3, <2>4 DEF DatedBy
<1>4. CASE ~Visible(t)
  <2>1. trigger' = trigger
    BY <1>4, Zenon DEF Polled
  <2> QED BY <1>2, <1>4, <2>1 DEF DatedBy
<1> QED BY <1>3, <1>4

(* A step of the poller in a round: it skips a trigger or polls it. *)
LEMMA RoundStep ==
    ASSUME RowsInv, Dispatcher, round.step = "poll"
    PROVE  \E t \in round.todo :
              /\ Done(t) /\ UNCHANGED <<clock, touched>>
              /\ \/ ~IsDue(t) /\ UNCHANGED <<trigger, since>>
                 \/ IsDue(t) /\ DatedBy(t)
<1>1. ~(ReadTriggers \/ ReadRules \/ ReadLinks)
  BY DEF ReadTriggers, ReadRules, ReadLinks, Off
<1>2. PICK t \in round.todo : Skip(t) \/ Poll(t) \/ PollNothing(t) \/ PollFails(t)
  BY <1>1, Zenon DEF Dispatcher
<1>3. CASE Skip(t)
  <2>1. ~IsDue(t) /\ Done(t) /\ UNCHANGED <<clock, touched, trigger, since>>
    BY <1>3, Zenon DEF Skip, rows
  <2> QED BY <2>1
<1>4. CASE Poll(t) \/ PollNothing(t) \/ PollFails(t)
  <2>1. PICK status : (status = "" \/ status = "error") /\ Polled(t, status)
    BY <1>4, Zenon DEF Poll, PollNothing, PollFails
  <2>2. IsDue(t) /\ Done(t) /\ UNCHANGED <<clock, touched>>
    BY <2>1, Zenon DEF Polled
  <2>3. DatedBy(t)
    BY <2>1, PolledDates
  <2> QED BY <2>2, <2>3
<1> QED BY <1>2, <1>3, <1>4

(* Polling keeps the invariant of the schedules. *)
LEMMA RoundKeepsSchedule ==
    ASSUME ScheduleInv, RowsInv', Dispatcher, round.step = "poll"
    PROVE  ScheduleInv'
<1>1. PICK t \in round.todo :
         /\ Done(t) /\ UNCHANGED <<clock, touched>>
         /\ \/ ~IsDue(t) /\ UNCHANGED <<trigger, since>>
            \/ IsDue(t) /\ DatedBy(t)
  BY RoundStep DEF ScheduleInv
<1>2. /\ \A i : Awaits(i)' => i # t /\ Awaits(i)
      /\ round' # Off => round'.seen = round.seen
      /\ round'.step = "poll" => round'.at = round.at
  BY <1>1, DoneAwaits DEF ScheduleInv, RowsInv
<1>3. t \in DOMAIN trigger /\ clock \in Nat /\ round # Off
  <2>1. round # Off
    BY DEF Off
  <2> QED BY <2>1 DEF ScheduleInv, RowsInv, RoundStarted, CopiesKnown
<1>4. /\ DOMAIN trigger' = DOMAIN trigger /\ DOMAIN since' = DOMAIN since
      /\ \A i \in DOMAIN trigger : i # t => trigger'[i] = trigger[i]
      /\ \A i \in DOMAIN since : i # t => since'[i] = since[i]
  BY <1>1 DEF DatedBy
<1>5. SinceKnown'
  <2>1. ASSUME NEW i \in DOMAIN since
        PROVE  /\ since'[i] \in Nat \cup {Never}
               /\ since'[i] # Never =>
                     i \in DOMAIN trigger /\ (~trigger'[i].deleted => trigger'[i].last = since'[i])
    <3>1. CASE UNCHANGED <<trigger, since>>
      BY <3>1 DEF ScheduleInv, SinceKnown
    <3>2. CASE DatedBy(t) /\ i = t
      BY <1>3, <3>2 DEF DatedBy, Visible
    <3>3. CASE i # t
      BY <1>4, <3>3 DEF ScheduleInv, SinceKnown
    <3> QED BY <1>1, <3>1, <3>2, <3>3
  <2> QED BY <1>4, <2>1 DEF ScheduleInv, SinceKnown
<1>6. CopiesKnown'
  <2>1. ASSUME NEW i \in DOMAIN trigger', Awaits(i)' PROVE CopyOf(i)'
    <3>1. i \in DOMAIN trigger /\ i # t /\ Awaits(i)
      BY <1>2, <1>4, <2>1
    <3>2. CopyOf(i)
      BY <3>1 DEF ScheduleInv, CopiesKnown
    <3>3. round' # Off
      BY <2>1 DEF Awaits, Off
    <3> QED BY <1>1, <1>2, <1>4, <3>1, <3>2, <3>3 DEF CopyOf, Steady
  <2>2. round' # Off => \A i \in DOMAIN round'.seen :
           i \in DOMAIN trigger' /\ SoundRow(round'.seen[i], clock')
    BY <1>1, <1>2, <1>3, <1>4 DEF ScheduleInv, CopiesKnown
  <2>3. round'.step = "poll" => round'.at \in 0..clock'
    BY <1>1, <1>2 DEF ScheduleInv, CopiesKnown
  <2> QED BY <2>1, <2>2, <2>3 DEF CopiesKnown
<1> QED BY <1>5, <1>6 DEF ScheduleInv

(* Every step does. *)
LEMMA ScheduleInvStep ==
    ASSUME ScheduleInv, [Next]_vars
    PROVE  ScheduleInv'
<1>1. RowsInv'
  BY RowsInvStep DEF ScheduleInv
<1>2. CASE ~Dispatcher
  BY <1>1, <1>2, OthersWrite, TriggerWritesKeep
<1>3. CASE Dispatcher /\ round.step = "poll"
  BY <1>1, <1>3, RoundKeepsSchedule
<1>4. CASE Dispatcher /\ round.step # "poll"
  BY <1>1, <1>4, ReadingKeepsSchedule DEF Dispatcher
<1> QED BY <1>2, <1>3, <1>4

(* The first state satisfies it. *)
LEMMA ScheduleInvInit == Init => ScheduleInv
<1> SUFFICES ASSUME Init PROVE ScheduleInv
  OBVIOUS
<1>1. RowsInv
  BY RowsInvInit
<1>2. since = [t \in 1..MaxTrigger |-> Never] /\ round = Off
  BY DEF Init, AdminInit
<1>3. SinceKnown
  BY <1>2 DEF SinceKnown
<1>4. CopiesKnown
  <2>1. round.step = "off"
    BY <1>2 DEF Off
  <2> QED BY <1>2, <2>1 DEF CopiesKnown, Awaits
<1> QED BY <1>1, <1>3, <1>4 DEF ScheduleInv

(* The clock of a sound row is well set. *)
LEMMA ClockWellSet ==
    ASSUME NEW row, NEW now, SoundRow(row, now)
    PROVE  WellSet(ClockOf(row))
<1>1. CASE row.type = "cron"
  BY <1>1 DEF ClockOf, SoundRow
<1>2. CASE row.type # "cron"
  <2>1. ClockOf(row) = [mode |-> "polled", value |-> row.interval, unit |-> "minutes"]
    BY <1>2 DEF ClockOf
  <2>2. ClockOf(row).mode = "polled" /\ ClockOf(row).value \in Int
    BY <2>1 DEF SoundRow
  <2> QED BY <2>2 DEF WellSet, Scheduled
<1> QED BY <1>1, <1>2

(* What a round that is done with a trigger leaves of its schedule. *)
LEMMA KeptByStep ==
    ASSUME ScheduleInv, [Next]_vars, NEW t \in DOMAIN trigger,
           round.step = "poll", t \in round.todo, ~(round'.step = "poll" /\ t \in round'.todo),
           Scheduled(ClockOf(round.seen[t])), Steady("trigger", t)
    PROVE  \A s \in StillOwed(ClockOf(round.seen[t]), round.at) : Served(trigger'[t].last, s)
<1>1. Dispatcher
  <2> SUFFICES ASSUME ~Dispatcher PROVE FALSE
    OBVIOUS
  <2>1. round' = round
    BY OthersWrite DEF TriggerWrites
  <2> QED BY <2>1
<1>2. PICK i \in round.todo :
         /\ Done(i) /\ UNCHANGED <<clock, touched>>
         /\ \/ ~IsDue(i) /\ UNCHANGED <<trigger, since>>
            \/ IsDue(i) /\ DatedBy(i)
  BY <1>1, RoundStep DEF ScheduleInv
<1>3. i = t
  <2>1. Awaits(t)
    BY DEF Awaits
  <2> QED BY <1>2, <2>1, DoneAwaits DEF ScheduleInv, RowsInv
<1>4. trigger[t] = round.seen[t] /\ Visible(t)
  BY DEF ScheduleInv, CopiesKnown, Awaits, CopyOf, Visible
<1>5. round.at \in 0..clock /\ clock \in Nat
  BY DEF ScheduleInv, CopiesKnown, RowsInv
<1>6. PICK cron : cron = ClockOf(round.seen[t])
  OBVIOUS
<1>7. WellSet(cron) /\ Scheduled(cron)
  BY <1>4, <1>6, ClockWellSet DEF ScheduleInv, RowsInv, TriggersSound
<1>8. PICK at \in Nat : at = round.at /\ at <= clock
  BY <1>5
<1>9. CASE ~IsDue(t)
  <2>1. trigger' = trigger
    BY <1>2, <1>3, <1>9
  <2>2. PICK last : last = trigger[t].last
    OBVIOUS
  <2>3. ~Due(cron, last, at)
    BY <1>4, <1>6, <1>8, <1>9, <2>2 DEF IsDue
  <2>4. \A s \in StillOwed(cron, at) : Served(last, s)
    BY <1>7, <2>3, NotDueIsServed
  <2> QED BY <1>6, <1>8, <2>1, <2>2, <2>4
<1>10. CASE IsDue(t)
  <2>1. trigger'[t].last = clock
    BY <1>2, <1>3, <1>4, <1>10 DEF DatedBy
  <2>2. PICK poll \in Nat : poll = clock
    BY <1>5
  <2>3. \A s \in StillOwed(cron, at) : Served(poll, s)
    BY <1>8, <2>2, PollServes
  <2> QED BY <1>6, <1>8, <2>1, <2>2, <2>3
<1> QED BY <1>9, <1>10

(* What is between two polls of a trigger. *)
LEMMA OnceByStep ==
    ASSUME ScheduleInv, [Next]_vars, NEW t \in DOMAIN trigger,
           since[t] # Never, since'[t] \notin {since[t], Never},
           NEW cron, cron = ClockOf(round.seen[t])
    PROVE  IF Scheduled(cron) THEN \E s \in (since[t] + 1)..(since'[t] - 1) : Instant(cron, s)
           ELSE since'[t] > since[t] + Interval(cron)
<1>1. t \in DOMAIN since
  BY AdminAssumption DEF ScheduleInv, RowsInv, TriggersSound, SinceKnown
<1>2. Dispatcher
  <2> SUFFICES ASSUME ~Dispatcher PROVE FALSE
    OBVIOUS
  <2>1. since'[t] \in {since[t], Never}
    BY <1>1, OthersWrite DEF TriggerWrites
  <2> QED BY <2>1
<1>3. round.step = "poll"
  <2> SUFFICES ASSUME round.step # "poll" PROVE FALSE
    OBVIOUS
  <2>1. since' = since
    BY <1>2 DEF Dispatcher, ReadTriggers, ReadRules, ReadLinks
  <2> QED BY <2>1
<1>4. PICK i \in round.todo :
         /\ Done(i) /\ UNCHANGED <<clock, touched>>
         /\ \/ ~IsDue(i) /\ UNCHANGED <<trigger, since>>
            \/ IsDue(i) /\ DatedBy(i)
  BY <1>2, <1>3, RoundStep DEF ScheduleInv
<1>5. i = t /\ IsDue(t) /\ since'[t] = clock
  BY <1>1, <1>4 DEF DatedBy
<1>6. PICK last \in Nat : last = since[t] /\ round.seen[t].last = last
  BY <1>1, <1>3, <1>4, <1>5 DEF ScheduleInv, SinceKnown, CopiesKnown, Awaits, CopyOf
<1>7. PICK at \in Nat : at = round.at /\ at <= clock
  BY <1>3 DEF ScheduleInv, CopiesKnown, RowsInv
<1>8. WellSet(cron)
  <2>1. round # Off /\ t \in DOMAIN round.seen
    BY <1>3, <1>4, <1>5 DEF Off, ScheduleInv, RowsInv, RoundStarted
  <2> QED BY <2>1, ClockWellSet DEF ScheduleInv, CopiesKnown
<1>9. Due(cron, last, at)
  BY <1>5, <1>6, <1>7 DEF IsDue
<1>10. clock \in Nat /\ last # Never
  BY <1>6 DEF ScheduleInv, RowsInv
<1>11. CASE Scheduled(cron)
  <2>1. PICK s \in (last + 1)..(at - 1) : Instant(cron, s)
    BY <1>8, <1>9, <1>11, DueIsNamed DEF Named
  <2>2. s \in (last + 1)..(clock - 1)
    BY <1>7, <1>10
  <2> QED BY <1>5, <1>6, <1>11, <2>1, <2>2
<1>12. CASE ~Scheduled(cron)
  <2>1. at > last + Interval(cron)
    BY <1>9, <1>10, <1>12 DEF Due
  <2>2. Interval(cron) \in Int
    BY <1>8, <1>12, CalendarAssumption DEF WellSet, Interval
  <2> QED BY <1>5, <1>6, <1>7, <1>10, <1>12, <2>1, <2>2
<1> QED BY <1>11, <1>12

(* No moment of a schedule is left without a poll, and no trigger is polled    *)
(* twice for one: by the rounds of the poller, whenever they come, whatever    *)
(* requests write meanwhile, for any schedules and any calendar.               *)
THEOREM SchedulesKept == Spec => ScheduleKept
<1>1. ScheduleInv /\ [Next]_vars =>
         [\A t \in DOMAIN trigger :
             LET row == round.seen[t] IN
             /\ round.step = "poll" /\ t \in round.todo
             /\ ~(round'.step = "poll" /\ t \in round'.todo)
             /\ Scheduled(ClockOf(row)) /\ Steady("trigger", t)
             => \A s \in StillOwed(ClockOf(row), round.at) : Served(trigger'[t].last, s)]_adminVars
  BY KeptByStep
<1>2. ScheduleInv /\ [Next]_vars => ScheduleInv'
  BY ScheduleInvStep
<1> QED BY ScheduleInvInit, <1>1, <1>2, PTL DEF Spec, ScheduleKept

(* Between two polls of a trigger there is a moment of its schedule, or its    *)
(* interval has gone by, unless a request saved an older copy of its row over  *)
(* it in between.                                                              *)
THEOREM OnceForEachInstant == Spec => OncePerInstant
<1>1. ScheduleInv /\ [Next]_vars =>
         [\A t \in DOMAIN trigger :
             since[t] # Never /\ since'[t] \notin {since[t], Never} =>
                 LET cron == ClockOf(round.seen[t])
                 IN IF Scheduled(cron) THEN \E s \in (since[t] + 1)..(since'[t] - 1) : Instant(cron, s)
                    ELSE since'[t] > since[t] + Interval(cron)]_adminVars
  BY OnceByStep
<1>2. ScheduleInv /\ [Next]_vars => ScheduleInv'
  BY ScheduleInvStep
<1> QED BY ScheduleInvInit, <1>1, <1>2, PTL DEF Spec, OncePerInstant
=============================================================================
