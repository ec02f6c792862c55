-------------------------------- MODULE Session --------------------------------
(***************************************************************************)
(* One user's browser and the refresh tokens behind it: the tabs share the *)
(* refresh cookie `rt`, each keeps its own access token and its own        *)
(* single-flight refresh (api/client.ts); the server rotates tokens inside *)
(* a family (AuthService).  A row of refresh_tokens is numbered in the     *)
(* order of the commits, and the access token issued with a row has the    *)
(* row's number.  A handler that reads and then writes is two actions.     *)
(***************************************************************************)
EXTENDS Naturals, Sequences

CONSTANTS
    Tabs,       \* browser tabs
    JsonCalls,  \* API requests made with apiFetch or apiUpload, each made once
    SseCalls,   \* API requests made with streamChat, each made once
    TabOf,      \* the tab that makes each API request
    MaxLogins,  \* bound: logins, one token family each
    MaxLapsed,  \* bound: access tokens 1 .. MaxLapsed may expire
    MaxBreaks   \* bound: tabs closed or reloaded, requests or answers lost

Calls == JsonCalls \cup SseCalls

ASSUME ConstantsAssumption ==
    /\ JsonCalls \cap SseCalls = {}
    /\ TabOf \in [Calls -> Tabs]
    /\ MaxLogins \in Nat /\ MaxLapsed \in Nat /\ MaxBreaks \in Nat

VARIABLES
    rows,     \* refresh_tokens, in the order of their commits
    lapsed,   \* access tokens 1 .. lapsed have expired
    cookie,   \* the row whose token the cookie holds, or 0
    net,      \* requests to /auth in flight
    tab,      \* what each tab holds in memory
    call,     \* the API requests
    past,     \* history: what happened to the families
    breaks    \* tabs closed and connections lost so far (for the bound)

vars == <<rows, lapsed, cookie, net, tab, call, past, breaks>>

Families == 1 .. MaxLogins
Row      == [family : Families,
             \* "grace": replaced, and no longer ago than _ROTATION_GRACE
             revoked : {"no", "grace", "yes"}]
Request  == [kind : {"login", "refresh", "logout"}, from : Tabs,
             nr : Nat,                           \* breaks before it: tells apart those of one tab
             heard : BOOLEAN,                    \* its tab still waits for the answer
             token : Nat,                        \* the cookie it carries
             at : {"sent", "rotate", "revoke", "answered"},
             issued : Nat]                       \* the row of the answer's token, or 0
Tab      == [phase : {"closed", "booting", "mounted", "blank"},
             route : {"login", "chat"},          \* a public page, or one that is not
             store : Nat,                        \* accessToken, or 0
             refreshing : BOOLEAN]               \* refreshInFlight is not null
ClosedTab == [phase |-> "closed", route |-> "login", store |-> 0, refreshing |-> FALSE]
Call     == [at : {"idle", "done", "sent", "refused", "waiting", "resent"}, with : Nat]
NoCall   == [at |-> "idle", with |-> 0]
Settled  == [at |-> "done", with |-> 0]

TypeOK ==
    /\ rows \in Seq(Row)
    /\ lapsed \in 0 .. MaxLapsed
    /\ cookie \in 0 .. Len(rows)
    /\ net \in SUBSET Request
    /\ tab \in [Tabs -> Tab]
    /\ call \in [Calls -> Call]
    /\ past \in [ended : SUBSET Families, raced : SUBSET Families,
                 replayed : SUBSET Families, lost : SUBSET Families]
    /\ breaks \in 0 .. MaxBreaks

Init ==
    /\ rows = <<>>
    /\ lapsed = 0
    /\ cookie = 0
    /\ net = {}
    /\ tab = [t \in Tabs |-> ClosedTab]
    /\ call = [c \in Calls |-> NoCall]
    /\ past = [ended |-> {}, raced |-> {}, replayed |-> {}, lost |-> {}]
    /\ breaks = 0

-----------------------------------------------------------------------------
(* Helpers. *)

\* The browser sends a request, with the cookie it has now.  The earlier requests of
\* this kind and tab that are still in flight were given up before the last break.
Send(kind, t) ==
    net' = net \cup {[kind |-> kind, from |-> t, nr |-> breaks, heard |-> TRUE,
                      token |-> cookie, at |-> "sent", issued |-> 0]}

\* router.beforeEach for a page that is public or not.
Guard(public, store) ==
    CASE ~public /\ store = 0 -> "login"
      [] public /\ store # 0  -> "chat"
      [] OTHER                -> IF public THEN "login" ELSE "chat"

Replace(q, r) == net' = (net \ {q}) \cup {r}

\* The server answers request q; when nobody waits any more the answer, and the
\* token in it, are lost.
Answered(q, issued) ==
    net' = (net \ {q}) \cup
           {r \in {[q EXCEPT !.at = "answered", !.issued = issued]} : q.heard}

FamilyOf(q) == rows[q.token].family

\* revoke_family: every row of the family that is not revoked yet.
RevokeFamily(f) ==
    rows' = [r \in DOMAIN rows |->
                IF rows[r].family = f /\ rows[r].revoked = "no"
                THEN [rows[r] EXCEPT !.revoked = "yes"] ELSE rows[r]]

-----------------------------------------------------------------------------
(* AuthService. *)

\* The family of a new login: login's new_id().
FamiliesUsed == {rows[r].family : r \in DOMAIN rows}

Login(q) ==
    /\ q.kind = "login" /\ q.at = "sent"
    /\ \E f \in Families \ FamiliesUsed :
         /\ rows' = Append(rows, [family |-> f, revoked |-> "no"])
         /\ past' = IF ~q.heard THEN [past EXCEPT !.lost = @ \cup {f}] ELSE past
    /\ Answered(q, Len(rows'))
    /\ UNCHANGED <<lapsed, cookie, tab, call, breaks>>

\* Mutant: every revoked token that comes back is a replay.
RefreshReadWithoutGrace(q) ==
    /\ q.kind = "refresh" /\ q.at = "sent"
    /\ IF q.token = 0 THEN Answered(q, 0)
       ELSE Replace(q, [q EXCEPT !.at =
                          IF rows[q.token].revoked = "no" THEN "rotate" ELSE "revoke"])
    /\ UNCHANGED <<rows, lapsed, cookie, tab, call, past, breaks>>

\* Mutant: only a replaced token is refused, a revoked one is rotated.
RefreshReadRevoked(q) ==
    /\ q.kind = "refresh" /\ q.at = "sent"
    /\ IF q.token = 0 \/ rows[q.token].revoked = "grace" THEN Answered(q, 0)
       ELSE Replace(q, [q EXCEPT !.at = "rotate"])
    /\ UNCHANGED <<rows, lapsed, cookie, tab, call, past, breaks>>

\* refresh up to its first write: what the row says when it is read decides.
RefreshRead(q) ==
    /\ q.kind = "refresh" /\ q.at = "sent"
    /\ LET row == rows[q.token]
           refused == q.token = 0 \/ row.revoked = "grace"
       IN IF refused THEN Answered(q, 0)
          ELSE Replace(q, [q EXCEPT !.at = IF row.revoked = "no" THEN "rotate" ELSE "revoke"])
    /\ UNCHANGED <<rows, lapsed, cookie, tab, call, past, breaks>>

\* Mutant: the new row is not part of the transaction that revokes the old one.
RefreshRotateUnstored(q) ==
    /\ q.at = "rotate"
    /\ rows' = [rows EXCEPT ![q.token].revoked = "grace"]
    /\ Answered(q, Len(rows) + 1)
    /\ UNCHANGED <<lapsed, cookie, tab, call, past, breaks>>

\* refresh commits: the new row is inserted and the row that was read is revoked,
\* whatever has become of it since.
RefreshRotate(q) ==
    /\ q.at = "rotate"
    /\ LET new == Len(rows) + 1 IN
       /\ rows' = Append([rows EXCEPT ![q.token].revoked = "grace"],
                         [family |-> FamilyOf(q), revoked |-> "no"])
       /\ Answered(q, new)
    /\ past' = IF ~q.heard THEN [past EXCEPT !.lost = @ \cup {FamilyOf(q)}] ELSE past
    /\ UNCHANGED <<lapsed, cookie, tab, call, breaks>>

\* refresh takes the token for a replayed one, revokes the family and refuses.
RefreshReplayed(q) ==
    /\ q.kind = "refresh" /\ q.at = "revoke"
    /\ RevokeFamily(FamilyOf(q))
    /\ Answered(q, 0)
    /\ past' = [past EXCEPT !.replayed = @ \cup {FamilyOf(q)}]
    /\ UNCHANGED <<lapsed, cookie, tab, call, breaks>>

\* logout: get_by_hash, then revoke_family; without a cookie it only commits.
LogoutRead(q) ==
    /\ q.kind = "logout" /\ q.at = "sent"
    /\ IF q.token = 0 THEN Answered(q, 0)
       ELSE Replace(q, [q EXCEPT !.at = "revoke"])
    /\ UNCHANGED <<rows, lapsed, cookie, tab, call, past, breaks>>

LogoutRevoke(q) ==
    /\ q.kind = "logout" /\ q.at = "revoke"
    /\ RevokeFamily(FamilyOf(q))
    /\ Answered(q, 0)
    /\ past' = [past EXCEPT
         !.ended = @ \cup {FamilyOf(q)},
         !.raced = @ \cup {f \in {FamilyOf(q)} :
                             \E p \in net : p.at = "rotate" /\ FamilyOf(p) = f}]
    /\ UNCHANGED <<lapsed, cookie, tab, call, breaks>>

\* Sixty seconds pass after a token was replaced (it matters for the one in the
\* cookie only).  A request that carries it is handled, and its answer delivered,
\* before.
GraceEnds ==
    /\ cookie # 0 /\ rows[cookie].revoked = "grace"
    /\ \A q \in net : q.token # cookie
    /\ rows' = [rows EXCEPT ![cookie].revoked = "yes"]
    /\ UNCHANGED <<lapsed, cookie, net, tab, call, past, breaks>>

\* Access tokens expire in the order they were issued.
AccessTokensExpire ==
    /\ \E n \in lapsed + 1 .. Len(rows) : n <= MaxLapsed /\ lapsed' = n
    /\ UNCHANGED <<rows, cookie, net, tab, call, past, breaks>>

-----------------------------------------------------------------------------
(* A tab: main.ts, router.ts, api/client.ts, api/sse.ts. *)

\* bootstrap: installing the router starts the initial navigation, whose guard
\* sees the empty store; then the session is restored.
OpenTab(t) ==
    /\ tab[t].phase = "closed"
    /\ \E public \in BOOLEAN :
         tab' = [tab EXCEPT ![t] = [phase |-> "booting", route |-> Guard(public, 0),
                                    store |-> 0, refreshing |-> TRUE]]
    /\ Send("refresh", t)
    /\ UNCHANGED <<rows, lapsed, cookie, call, past, breaks>>

\* The tab is closed or reloaded: its requests go on, nobody reads the answers.
CloseTab(t) ==
    LET mine    == {q \in net : q.from = t /\ q.heard}
        dropped == {q \in mine : q.at = "answered"}
    IN  /\ tab[t].phase # "closed" /\ breaks < MaxBreaks
        /\ breaks' = breaks + 1
        /\ tab' = [tab EXCEPT ![t] = ClosedTab]
        /\ call' = [c \in Calls |-> IF TabOf[c] = t THEN NoCall ELSE call[c]]
        /\ net' = (net \ mine) \cup {[q EXCEPT !.heard = FALSE] : q \in mine \ dropped}
        /\ past' = [past EXCEPT !.lost = @ \cup
                      {rows[q.issued].family : q \in {p \in dropped : p.issued # 0}}]
        /\ UNCHANGED <<rows, lapsed, cookie>>

\* Any navigation inside the application passes the guard.
Navigate(t) ==
    /\ tab[t].phase = "mounted"
    /\ \E public \in BOOLEAN :
         tab' = [tab EXCEPT ![t].route = Guard(public, tab[t].store)]
    /\ UNCHANGED <<rows, lapsed, cookie, net, call, past, breaks>>

\* A form is submitted once (submitting); the bound is on the logins in all.
SubmitLogin(t) ==
    /\ tab[t].phase = "mounted" /\ tab[t].route = "login"
    /\ \A q \in net : q.kind = "login" => q.at = "answered" /\ q.from # t
    /\ FamiliesUsed # Families
    /\ Send("login", t)
    /\ UNCHANGED <<rows, lapsed, cookie, tab, call, past, breaks>>

\* onLogout.
SubmitLogout(t) ==
    /\ tab[t].phase = "mounted" /\ tab[t].route = "chat"
    /\ \A q \in net : ~(q.kind = "logout" /\ q.from = t /\ q.heard)
    /\ Send("logout", t)
    /\ UNCHANGED <<rows, lapsed, cookie, tab, call, past, breaks>>

\* send: the request carries the access token the store holds.
SendCall(c) ==
    LET mine == tab[TabOf[c]] IN
    /\ mine.phase = "mounted" /\ mine.route = "chat"
    /\ call[c].at = "idle"
    /\ call' = [call EXCEPT ![c] = [at |-> "sent", with |-> mine.store]]
    /\ UNCHANGED <<rows, lapsed, cookie, net, tab, past, breaks>>

\* get_auth: a token that has expired, or none, is a 401; anything else ends the
\* call, and so does a second 401.
CallChecked(c) ==
    LET valid == call[c].with > lapsed
    IN  /\ call[c].at \in {"sent", "resent"}
        /\ call' = [call EXCEPT ![c] =
             IF call[c].at = "sent" /\ ~valid THEN [@ EXCEPT !.at = "refused"] ELSE Settled]
        /\ UNCHANGED <<rows, lapsed, cookie, net, tab, past, breaks>>

\* Mutant: no shared promise, each 401 starts a refresh of its own.
CallRefusedAlone(c) ==
    /\ call[c].at = "refused"
    /\ call' = [call EXCEPT ![c].at = "waiting"]
    /\ tab' = [tab EXCEPT ![TabOf[c]].refreshing = TRUE]
    /\ Send("refresh", TabOf[c])
    /\ UNCHANGED <<rows, lapsed, cookie, past, breaks>>

\* sendWithRefresh and streamChat on the 401: join the refresh of this tab or
\* start it.
CallRefused(c) ==
    LET t == TabOf[c] IN
    /\ call[c].at = "refused"
    /\ call' = [call EXCEPT ![c].at = "waiting"]
    /\ tab' = [tab EXCEPT ![t].refreshing = TRUE]
    /\ IF tab[t].refreshing THEN net' = net ELSE Send("refresh", t)
    /\ UNCHANGED <<rows, lapsed, cookie, past, breaks>>

Waiting(t) == {c \in Calls : TabOf[c] = t /\ call[c].at = "waiting"}

\* Mutant: the response carries the access token but sets no cookie.
RefreshGrantedWithoutCookie(t, token) ==
    /\ cookie' = cookie
    /\ tab' = [tab EXCEPT ![t].store = token, ![t].refreshing = FALSE,
                          ![t].phase = "mounted"]
    /\ call' = [c \in Calls |->
                  IF c \in Waiting(t) THEN [at |-> "resent", with |-> token] ELSE call[c]]

\* doRefresh got its token: every waiting call is sent once more.
RefreshGranted(t, token) ==
    /\ cookie' = token
    /\ tab' = [tab EXCEPT ![t].store = token, ![t].refreshing = FALSE,
                          ![t].phase = "mounted"]
    /\ call' = [c \in Calls |->
                  IF c \in Waiting(t) THEN [at |-> "resent", with |-> token] ELSE call[c]]

\* doRefresh was refused: the waiting calls fail, one of apiFetch clears the store
\* and goes to /login, one of streamChat does not.
RefreshRefused(t) ==
    /\ cookie' = cookie
    /\ tab' = [tab EXCEPT
         ![t].refreshing = FALSE, ![t].phase = "mounted",
         ![t].store = IF Waiting(t) \cap JsonCalls = {} THEN @ ELSE 0,
         ![t].route = IF Waiting(t) \cap JsonCalls = {} THEN @ ELSE "login"]
    /\ call' = [c \in Calls |-> IF c \in Waiting(t) THEN Settled ELSE call[c]]

\* The response of request q reaches its tab, and its Set-Cookie the browser.
Deliver(q) ==
    /\ q.at = "answered"
    /\ net' = net \ {q}
    /\ CASE q.kind = "refresh" ->
              IF q.issued # 0 THEN RefreshGranted(q.from, q.issued) ELSE RefreshRefused(q.from)
         [] q.kind = "login" ->
              /\ cookie' = q.issued
              /\ tab' = [tab EXCEPT ![q.from].store = q.issued, ![q.from].route = "chat"]
              /\ call' = call
         [] q.kind = "logout" ->
              /\ cookie' = 0
              /\ tab' = [tab EXCEPT ![q.from].store = 0, ![q.from].route = "login"]
              /\ call' = call
    /\ UNCHANGED <<rows, lapsed, past, breaks>>

\* The connection of request q breaks.  fetch rejects: waiting calls fail and
\* nothing is cleared, an application that is starting is never mounted, a logout
\* clears and leaves anyway.  The server may or may not have had the request.
Lose(q) ==
    /\ q.heard /\ breaks < MaxBreaks
    /\ breaks' = breaks + 1
    /\ \/ net' = net \ {q} /\ q.at \in {"sent", "answered"}
       \/ Replace(q, [q EXCEPT !.heard = FALSE]) /\ q.at # "answered"
    /\ past' = IF q.issued = 0 THEN past
               ELSE [past EXCEPT !.lost = @ \cup {rows[q.issued].family}]
    /\ CASE q.kind = "refresh" ->
              /\ tab' = [tab EXCEPT ![q.from].refreshing = FALSE,
                                    ![q.from].phase = IF @ = "booting" THEN "blank" ELSE @]
              /\ call' = [c \in Calls |-> IF c \in Waiting(q.from) THEN Settled ELSE call[c]]
         [] q.kind = "login" -> UNCHANGED <<tab, call>>
         [] q.kind = "logout" ->
              /\ tab' = [tab EXCEPT ![q.from].store = 0, ![q.from].route = "login"]
              /\ call' = call
    /\ UNCHANGED <<rows, lapsed, cookie>>

-----------------------------------------------------------------------------
Server(q) ==
    \/ Login(q) \/ RefreshRead(q) \/ RefreshRotate(q) \/ RefreshReplayed(q)
    \/ LogoutRead(q) \/ LogoutRevoke(q)

User(t) ==
    OpenTab(t) \/ CloseTab(t) \/ Navigate(t) \/ SubmitLogin(t) \/ SubmitLogout(t)

Next ==
    \/ \E q \in net : Server(q) \/ Deliver(q) \/ Lose(q)
    \/ \E c \in Calls : SendCall(c) \/ CallChecked(c) \/ CallRefused(c)
    \/ \E t \in Tabs : User(t)
    \/ GraceEnds
    \/ AccessTokensExpire

Spec == Init /\ [][Next]_vars

-----------------------------------------------------------------------------
(* Properties. *)

\* api/client.ts:30: the 401s of one tab share one refresh.  A tab has at most one
\* refresh in flight, refreshInFlight says so, and no request waits for a refresh
\* that nobody has sent: the waiting always ends.
SingleFlight ==
    \A t \in Tabs :
        LET mine == {q \in net : q.from = t /\ q.kind = "refresh" /\ q.heard}
        IN  /\ \A p, q \in mine : p = q
            /\ tab[t].refreshing <=> mine # {}
            /\ Waiting(t) # {} => tab[t].refreshing

\* However the refreshes of the tabs interleave, the cookie they share is usable:
\* unless an answer was lost or the family has been revoked as a whole, the token
\* in the cookie is live, or the answer that replaces it is on its way.
CookieIsCurrent ==
    LET row == rows[cookie] IN
    cookie # 0 /\ row.family \notin past.lost \cup past.ended \cup past.replayed =>
        \/ row.revoked = "no"
        \/ \E q \in net :
             /\ q.at = "answered" /\ q.token = cookie
             /\ q.issued # 0 /\ rows[q.issued].revoked = "no"

\* auth_service.py:36: tabs racing for a refresh are not taken for a replay.  A
\* family is revoked as replayed only after an answer of the family was lost or
\* its user had logged out; it needs requests to be handled within the grace window
\* (GraceEnds).
NoRaceIsReplay == past.replayed \subseteq past.lost \cup past.ended

\* AuthService.logout: when it has answered, no token of the family is live, unless
\* a refresh had read one before (LogoutEndsSession is the property without the
\* exception).
LogoutEndsFamily ==
    \A r \in DOMAIN rows :
        rows[r].family \in past.ended \ past.raced => rows[r].revoked # "no"

\* test_auth.py:203 (test_logout_revokes_refresh): after a logout no token of the
\* session can be refreshed.
LogoutEndsSession ==
    \A r \in DOMAIN rows : rows[r].family \in past.ended => rows[r].revoked # "no"

\* router.ts:34: the session is restored before the guard asks for it, so a tab
\* opened on a page of the application with a session shows that page.
RestoredBeforeGuard ==
    [][\A t \in Tabs :
         tab[t].phase = "booting" /\ tab[t]'.phase = "mounted" /\ tab[t]'.store # 0 =>
             tab[t]'.route = "chat"]_vars
=============================================================================
