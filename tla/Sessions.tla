-------------------------------- MODULE Sessions --------------------------------
(***************************************************************************)
(* Signing in and staying signed in: the tabs of one browser with the API  *)
(* client and its CSRF token (web/src/lib/api.ts, session.tsx), the        *)
(* sign-in flow (worker/src/routes/auth.ts), and the session rows that     *)
(* guard every request of the console (worker/src/middleware/session.ts).  *)
(* Requests interleave an await at a time, answers may be lost, callbacks  *)
(* may be repeated or cut off.  Time is the set of what has expired; the   *)
(* session's cookie, its row and its CSRF token go by one name.  Entra is  *)
(* external: each visit to it gives a code that it redeems once.           *)
(***************************************************************************)
EXTENDS FiniteSets

CONSTANTS Tabs,       \* tabs of the engineer's browser
          Sids,       \* sessions that createSession can mint
          Flows,      \* sign-in states that /auth/login can issue
          Callbacks,  \* requests of /auth/callback in progress at once
          None        \* no session, flow or callback

ASSUME NoneIsNone == None \notin Sids \cup Flows \cup Callbacks

Pages == {"loading", "signin", "app", "idp", "callback"}
Replies == {"ok", "csrf", "unauthorized", "refused", "network"}

\* A tab: the page it shows, the module's csrfToken, and the operation in progress
\* with the fetch it is making: the cookie and header it carries, and its reply.
Tab == [page : Pages, flow : Flows \cup {None}, callback : Callbacks \cup {None},
        csrf : Sids \cup {None}, op : {"none", "boot", "write", "logout"},
        call : {"me", "write", "logout"}, stage : {"ready", "wire", "admitted", "replied"},
        cookie : Sids \cup {None}, header : Sids \cup {None}, reply : Replies,
        retry : BOOLEAN,
        moved : BOOLEAN]  \* history: the browser's session changed since /api/me was asked

\* A page load: the module starts without a token and asks who it is (session.tsx).
Boot == [page |-> "loading", flow |-> None, callback |-> None, csrf |-> None,
         op |-> "boot", call |-> "me", stage |-> "ready", cookie |-> None,
         header |-> None, reply |-> "ok", retry |-> FALSE, moved |-> FALSE]

\* A request of /auth/callback on the server; late: it came after its state was consumed.
Callback == [at : {"idle", "take", "delete", "exchange", "mint", "sweep", "audit", "done",
                   "failed"},
             flow : Flows \cup {None}, sid : Sids \cup {None}, late : BOOLEAN]
Idle == [at |-> "idle", flow |-> None, sid |-> None, late |-> FALSE]

VARIABLES
    tabs,
    cookie,     \* es_session in the browser
    rows,       \* D1: sessions
    flowRows,   \* D1: auth_flow
    expired,    \* sessions and flows past their expires_at
    audited,    \* sessions whose sign_in is in audit_log
    callbacks,
    codes,      \* Entra: flows with a code not redeemed yet
    \* History variables, for the properties only.
    issued,     \* flows and sessions that were ever created
    consumed,   \* flows whose state a callback has deleted
    loggedOut   \* sessions that a logout has destroyed

worker == <<rows, flowRows, expired, audited>>
history == <<issued, consumed, loggedOut>>
vars == <<tabs, cookie, worker, callbacks, codes, history>>

Live(s) == s \in rows /\ s \notin expired

Become(t, tab) == tabs' = [tabs EXCEPT ![t] = tab]

\* The browser's cookie becomes c while tab t becomes the given one.
SetCookie(c, t, tab) ==
    /\ cookie' = c
    /\ tabs' = [u \in Tabs |-> LET now == IF u = t THEN tab ELSE tabs[u]
                               IN  [now EXCEPT !.moved = @ \/ c # cookie]]

-------------------------------------------------------------------------------
(* The API client: request(), getMe(), signOut(). *)

InApp(t) == tabs[t].page = "app" /\ tabs[t].op = "none"

\* A state-changing call fetches the token first when the module has none.
Start(t, op) ==
    /\ InApp(t)
    /\ Become(t, [tabs[t] EXCEPT !.op = op, !.stage = "ready", !.retry = FALSE,
                                 !.call = IF @ # op /\ tabs[t].csrf = None THEN "me" ELSE op])
    /\ UNCHANGED <<cookie, worker, callbacks, codes, history>>

Write(t) == Start(t, "write")
SignOut(t) == Start(t, "logout")

Send(t) ==
    LET tab == tabs[t]
    IN  /\ tab.op # "none" /\ tab.stage = "ready"
        /\ Become(t, [tab EXCEPT !.stage = "wire", !.cookie = cookie,
                                 !.header = IF tab.call = "me" THEN None ELSE tab.csrf,
                                 !.moved = IF tab.call = "me" THEN FALSE ELSE @])
        /\ UNCHANGED <<cookie, worker, callbacks, codes, history>>

\* fetch() fails, before the request arrives or after it was answered.
Lose(t) ==
    /\ tabs[t].stage = "wire" \/ (tabs[t].stage = "replied" /\ tabs[t].reply # "network")
    /\ Become(t, [tabs[t] EXCEPT !.stage = "replied", !.reply = "network"])
    /\ UNCHANGED <<cookie, worker, callbacks, codes, history>>

\* Fault seeded for RefusedOnlyWhenMoved: the retry sends the token it had.
RetryAsItWas(tab) ==
    [tab EXCEPT !.call = tab.op, !.stage = "ready", !.retry = TRUE]

\* One transparent retry when the token went stale.
RetryWithFreshToken(tab) ==
    [tab EXCEPT !.csrf = None, !.call = "me", !.stage = "ready", !.retry = TRUE]

\* What the client does with the reply to the call that the operation is about. A
\* sign-out reloads the console whatever the reply.
AfterMain(tab) ==
    CASE tab.reply = "csrf" /\ ~tab.retry -> [RetryWithFreshToken(tab) EXCEPT !.moved = FALSE]
      [] tab.op = "logout" /\ (tab.reply = "csrf" => tab.retry) -> Boot
      [] OTHER -> [tab EXCEPT !.op = "none", !.stage = "ready",
                              !.page = IF tab.reply = "unauthorized" THEN "signin" ELSE @]

\* And with the reply to /api/me, asked at boot or on the way to another call.
AfterMe(tab) ==
    LET known == [tab EXCEPT !.csrf = IF tab.reply = "ok" THEN tab.cookie ELSE @,
                             !.moved = @ \/ tab.reply # "ok", !.stage = "ready"]
    IN  IF tab.op = "boot"
        THEN [known EXCEPT !.op = "none",
                           !.page = IF tab.reply = "ok" THEN "app" ELSE "signin"]
        ELSE [known EXCEPT !.call = tab.op]

\* The answer to a sign-out clears the browser's cookie, whichever it is by now.
Receive(t) ==
    LET tab == tabs[t]
    IN  /\ tab.stage = "replied"
        /\ IF tab.call = "logout" /\ tab.reply = "ok"
           THEN SetCookie(None, t, AfterMain(tab))
           ELSE /\ Become(t, IF tab.call = "me" THEN AfterMe(tab) ELSE AfterMain(tab))
                /\ UNCHANGED cookie
        /\ UNCHANGED <<worker, callbacks, codes, history>>

-------------------------------------------------------------------------------
(* The Worker's side of a request. *)

\* Fault seeded for TypeOK: an answer the client has no code for.
VerdictUnlisted(tab) == IF Live(tab.cookie) THEN "admitted" ELSE "expired"

\* Fault seeded for LoggedOutIsOut: the guard checks the expiry without the row.
VerdictWithoutRow(tab) ==
    CASE tab.cookie = None \/ tab.cookie \in expired ->
            IF tab.call = "logout" THEN "ok" ELSE "unauthorized"
      [] tab.call = "me" /\ tab.cookie # None -> "ok"
      [] tab.call # "me" /\ tab.header # tab.cookie -> "csrf"
      [] OTHER -> "admitted"

\* requireSession, and the checks of /auth/logout, which lets a request without a
\* session pass.
Verdict(tab) ==
    CASE ~Live(tab.cookie) -> IF tab.call = "logout" THEN "ok" ELSE "unauthorized"
      [] Live(tab.cookie) /\ tab.call = "me" -> "ok"
      [] Live(tab.cookie) /\ tab.call # "me" /\ tab.header # tab.cookie -> "csrf"
      [] OTHER -> "admitted"

\* The session is resolved: an expired row is deleted when it is met. The rate
\* limiter and the budget guard may refuse a request that the session admits.
Resolve(t) ==
    LET tab == tabs[t]
        verdict == Verdict(tab)
    IN  /\ tab.stage = "wire"
        /\ rows' = rows \ ({tab.cookie} \cap expired)
        /\ \/ Become(t, IF verdict = "admitted" THEN [tab EXCEPT !.stage = "admitted"]
                        ELSE [tab EXCEPT !.stage = "replied", !.reply = verdict])
           \/ /\ Live(tab.cookie) /\ tab.call # "logout" /\ verdict # "csrf"
              /\ Become(t, [tab EXCEPT !.stage = "replied", !.reply = "refused"])
        /\ UNCHANGED <<cookie, flowRows, expired, audited, callbacks, codes, history>>

Execute(t) ==
    /\ tabs[t].stage = "admitted" /\ tabs[t].call = "write"
    /\ Become(t, [tabs[t] EXCEPT !.stage = "replied", !.reply = "ok"])
    /\ UNCHANGED <<cookie, worker, callbacks, codes, history>>

\* The rest of /auth/logout. When the audit record cannot be written the session is
\* gone and the answer is an error, which leaves the cookie.
Destroy(t) ==
    LET s == tabs[t].cookie
    IN  /\ tabs[t].stage = "admitted" /\ tabs[t].call = "logout"
        /\ rows' = rows \ {s}
        /\ loggedOut' = loggedOut \cup {s}
        /\ \E reply \in {"ok", "refused"} :
              Become(t, [tabs[t] EXCEPT !.stage = "replied", !.reply = reply])
        /\ UNCHANGED <<cookie, flowRows, expired, audited, callbacks, codes, issued, consumed>>

Expire(x) ==
    /\ x \in (rows \cup flowRows) \ expired
    /\ expired' = expired \cup {x}
    /\ UNCHANGED <<tabs, cookie, rows, flowRows, audited, callbacks, codes, history>>

-------------------------------------------------------------------------------
(* Signing in: /auth/login, Entra, /auth/callback. *)

\* The sign-in page is left for /auth/login, which stores a state and redirects.
Login(t, f) ==
    /\ tabs[t].page = "signin" /\ tabs[t].op = "none"
    /\ f \notin issued
    /\ issued' = issued \cup {f}
    /\ flowRows' = flowRows \cup {f}
    /\ Become(t, [Boot EXCEPT !.page = "idp", !.op = "none", !.flow = f])
    /\ UNCHANGED <<cookie, rows, expired, audited, callbacks, codes, consumed, loggedOut>>

\* The engineer signs in at Entra, or repeats the callback or the visit to Entra, after
\* an error or while an answer is pending, which the browser then no longer waits for.
Return(t, c) ==
    LET f == tabs[t].flow
    IN  /\ tabs[t].page \in {"idp", "callback"}
        /\ callbacks[c].at = "idle"
        /\ codes' = codes \cup {f} \/ (tabs[t].page = "callback" /\ codes' = codes)
        /\ callbacks' = [callbacks EXCEPT ![c] = [Idle EXCEPT !.at = "take", !.flow = f,
                                                              !.late = f \in consumed]]
        /\ Become(t, [tabs[t] EXCEPT !.page = "callback", !.callback = c])
        /\ UNCHANGED <<cookie, worker, history>>

Step(c, at) == callbacks' = [callbacks EXCEPT ![c].at = at]

\* takeAuthFlow selects the row ...
Select(c) ==
    /\ callbacks[c].at = "take"
    /\ Step(c, IF callbacks[c].flow \in flowRows THEN "delete" ELSE "failed")
    /\ UNCHANGED <<tabs, cookie, worker, codes, history>>

\* Fault seeded for ConsumedStateMintsNothing: the state is left for its expiry.
DeleteNothing(c) ==
    /\ callbacks[c].at = "delete"
    /\ consumed' = consumed \cup {callbacks[c].flow}
    /\ Step(c, IF callbacks[c].flow \in expired THEN "failed" ELSE "exchange")
    /\ UNCHANGED <<tabs, cookie, worker, codes, issued, loggedOut>>

\* ... and deletes it; the callback goes on unless the state is too old.
Delete(c) ==
    /\ callbacks[c].at = "delete"
    /\ flowRows' = flowRows \ {callbacks[c].flow}
    /\ consumed' = consumed \cup {callbacks[c].flow}
    /\ Step(c, IF callbacks[c].flow \in expired THEN "failed" ELSE "exchange")
    /\ UNCHANGED <<tabs, cookie, rows, expired, audited, codes, issued, loggedOut>>

\* exchangeCode and validateIdToken: the token may be refused, or show that the
\* engineer is not in the group.
Exchange(c) ==
    /\ callbacks[c].at = "exchange"
    /\ codes' = codes \ {callbacks[c].flow}
    /\ \E at \in {"failed"} \cup (IF callbacks[c].flow \in codes THEN {"mint"} ELSE {}) :
          Step(c, at)
    /\ UNCHANGED <<tabs, cookie, worker, history>>

Mint(c, s) ==
    /\ callbacks[c].at = "mint"
    /\ s \notin issued
    /\ issued' = issued \cup {s}
    /\ rows' = rows \cup {s}
    /\ callbacks' = [callbacks EXCEPT ![c].at = "sweep", ![c].sid = s]
    /\ UNCHANGED <<tabs, cookie, flowRows, expired, audited, codes, consumed, loggedOut>>

\* deleteExpiredSessions, with the time at which the session was created: a row that
\* has expired since then stays.
Sweepable(old) == old \subseteq rows \cap expired

Sweep(c) ==
    /\ callbacks[c].at = "sweep"
    /\ \E old \in SUBSET rows : Sweepable(old) /\ rows' = rows \ old
    /\ Step(c, "audit")
    /\ UNCHANGED <<tabs, cookie, flowRows, expired, audited, codes, history>>

Audit(c) ==
    /\ callbacks[c].at = "audit"
    /\ audited' = audited \cup {callbacks[c].sid}
    /\ Step(c, "done")
    /\ UNCHANGED <<tabs, cookie, rows, flowRows, expired, codes, history>>

\* A step of the callback throws or its isolate is gone.
Break(c) ==
    /\ callbacks[c].at \notin {"idle", "done", "failed"}
    /\ Step(c, "failed")
    /\ UNCHANGED <<tabs, cookie, worker, codes, history>>

\* Fault seeded for CookieIsAudited: the error answer carries the cookie as well.
CarriesCookie(c) == callbacks[c].sid # None

HasCookie(c) == callbacks[c].at = "done"

\* A success redirects to the console; an error is a page that can be loaded again
\* (Return) ...
Landed(c, t) == IF HasCookie(c) THEN Boot ELSE [tabs[t] EXCEPT !.callback = None]

\* The answer reaches the tab that waits for it, if one does.
Answer(c) ==
    /\ callbacks[c].at \in {"done", "failed"}
    /\ callbacks' = [callbacks EXCEPT ![c] = Idle]
    /\ IF \E t \in Tabs : tabs[t].callback = c
       THEN \E t \in Tabs :
               /\ tabs[t].callback = c
               /\ SetCookie(IF HasCookie(c) THEN callbacks[c].sid ELSE cookie, t, Landed(c, t))
       ELSE UNCHANGED <<tabs, cookie>>
    /\ UNCHANGED <<worker, codes, history>>

\* ... or left for the console.
Open(t) ==
    /\ tabs[t].page = "callback" /\ tabs[t].callback = None
    /\ Become(t, Boot)
    /\ UNCHANGED <<cookie, worker, callbacks, codes, history>>

-------------------------------------------------------------------------------

Init ==
    /\ tabs = [t \in Tabs |-> Boot]
    /\ cookie = None
    /\ rows = {} /\ flowRows = {} /\ expired = {} /\ audited = {}
    /\ callbacks = [c \in Callbacks |-> Idle]
    /\ codes = {} /\ issued = {} /\ consumed = {} /\ loggedOut = {}

Serve(t) == Resolve(t) \/ Execute(t) \/ Destroy(t)

Next ==
    \/ \E t \in Tabs : Write(t) \/ SignOut(t) \/ Send(t) \/ Lose(t) \/ Receive(t) \/ Serve(t)
                     \/ Open(t)
    \/ \E t \in Tabs, f \in Flows : Login(t, f)
    \/ \E t \in Tabs, c \in Callbacks : Return(t, c)
    \/ \E c \in Callbacks : \/ Select(c) \/ Delete(c) \/ Exchange(c) \/ Sweep(c)
                            \/ Audit(c) \/ Break(c) \/ Answer(c)
    \/ \E c \in Callbacks, s \in Sids : Mint(c, s)
    \/ \E x \in Sids \cup Flows : Expire(x)

Spec == Init /\ [][Next]_vars

-------------------------------------------------------------------------------
(* Properties. *)

TypeOK ==
    /\ tabs \in [Tabs -> Tab]
    /\ cookie \in Sids \cup {None}
    /\ rows \subseteq Sids /\ audited \subseteq Sids /\ loggedOut \subseteq Sids
    /\ flowRows \subseteq Flows /\ codes \subseteq Flows /\ consumed \subseteq Flows
    /\ expired \subseteq Sids \cup Flows /\ issued \subseteq Sids \cup Flows
    /\ callbacks \in [Callbacks -> Callback]

\* A session that the browser holds has its sign_in in the audit log: a callback that
\* fails on the way leaves a row that no browser can use.
CookieIsAudited == cookie # None => cookie \in audited

\* A write is refused for its CSRF token, after the retry, only when the browser's
\* session changed or /api/me failed since the retry asked for the token: another tab's
\* sign-out and sign-in alone never costs the engineer a write.
RefusedOnlyWhenMoved ==
    \A t \in Tabs : tabs[t].stage = "replied" /\ tabs[t].reply = "csrf" /\ tabs[t].retry
                       => tabs[t].moved

\* A callback that arrives after the state was consumed mints no session, however its
\* steps interleave with other callbacks and whatever codes Entra issues.
ConsumedStateMintsNothing == \A c \in Callbacks : callbacks[c].late => callbacks[c].sid = None

\* A session ends by its own sign-out or after its expiry, and only then.
RowsEndInOrder ==
    [][\A s \in rows \ rows' : s \in expired \/ s \in loggedOut']_vars

\* No request passes the guard with a session that was signed out, though one that
\* passed before may still run.
LoggedOutIsOut ==
    [][\A t \in Tabs : tabs[t].stage = "wire" /\ tabs'[t].stage = "admitted"
          => tabs[t].cookie \notin loggedOut]_vars
===============================================================================
