----------------------------- MODULE SessionsProofs -----------------------------
(***************************************************************************)
(* Theorems of Sessions for any number of tabs, sessions, flows and        *)
(* callbacks: type correctness; that a session in the browser is audited;  *)
(* that a consumed state mints nothing; that a retried write is refused    *)
(* only when the session moved; and that sessions end in order and for     *)
(* good.                                                                   *)
(***************************************************************************)
EXTENDS Sessions, TLAPS

-------------------------------------------------------------------------------
(* Types and phases. *)

\* What a tab has at each stage of its operation.
TabPhase(tab) ==
    /\ tab.page \in {"idp", "callback"} => tab.flow \in Flows
    /\ tab.stage = "admitted" => tab.cookie \in Sids
    /\ tab.stage # "ready" => tab.op # "none"
    /\ tab.op # "none" => tab.call \in {"me", tab.op}
    /\ tab.op = "boot" => tab.call = "me"

\* What a callback has at each of its steps.
CallbackPhase(q) ==
    /\ q.at \notin {"idle", "failed"} => q.flow \in Flows
    /\ q.at \in {"sweep", "audit", "done"} => q.sid \in Sids

\* Typed, and everything in a phase.
TypeInv ==
    /\ TypeOK
    /\ \A t \in Tabs : TabPhase(tabs[t])
    /\ \A c \in Callbacks : CallbackPhase(callbacks[c])

\* Tabs and callbacks start typed.
LEMMA EmptyTypes ==
  /\ Boot \in Tab /\ TabPhase(Boot)
  /\ Idle \in Callback /\ CallbackPhase(Idle)
  BY DEF Boot, Tab, TabPhase, Idle, Callback, CallbackPhase, Pages, Replies

\* A tab takes a new typed value.
LEMMA BecomeTypes ==
  ASSUME TypeInv, NEW t \in Tabs, NEW tab \in Tab, TabPhase(tab), Become(t, tab)
  PROVE  tabs' \in [Tabs -> Tab] /\ \A u \in Tabs : TabPhase(tabs'[u])
  BY DEF TypeInv, TypeOK, Become

\* So it does when the browser's cookie changes.
LEMMA SetCookieTypes ==
  ASSUME TypeInv, NEW t \in Tabs, NEW tab \in Tab, TabPhase(tab), NEW c \in Sids \cup {None},
         SetCookie(c, t, tab)
  PROVE  /\ cookie' \in Sids \cup {None}
         /\ tabs' \in [Tabs -> Tab] /\ \A u \in Tabs : TabPhase(tabs'[u])
<1>1. ASSUME NEW u \in Tabs PROVE tabs'[u] \in Tab /\ TabPhase(tabs'[u])
  <2> DEFINE now == IF u = t THEN tab ELSE tabs[u]
             moved == now.moved \/ c # cookie
  <2>1. now \in Tab /\ TabPhase(now)
    BY DEF TypeInv, TypeOK
  <2>2. tabs'[u] = [now EXCEPT !.moved = moved]
    BY DEF SetCookie
  <2>3. moved \in BOOLEAN
    BY <2>1 DEF Tab
  <2> HIDE DEF now, moved
  <2>4. QED BY <2>1, <2>2, <2>3 DEF Tab, TabPhase
<1>2. QED BY <1>1 DEF SetCookie

\* A callback moves to another step with what it has.
LEMMA StepTypes ==
  ASSUME TypeInv, NEW c \in Callbacks,
         NEW at \in {"take", "delete", "exchange", "audit", "done", "mint", "failed"},
         callbacks[c].at \notin {"idle", "failed"},
         at \in {"audit", "done"} => callbacks[c].at \in {"sweep", "audit"},
         Step(c, at)
  PROVE  /\ callbacks' \in [Callbacks -> Callback]
         /\ \A d \in Callbacks : CallbackPhase(callbacks'[d])
<1>1. callbacks[c] \in Callback /\ CallbackPhase(callbacks[c])
  BY DEF TypeInv, TypeOK
<1>2. [callbacks[c] EXCEPT !.at = at] \in Callback /\ CallbackPhase([callbacks[c] EXCEPT !.at = at])
  BY <1>1 DEF Callback, CallbackPhase
<1>3. callbacks' = [callbacks EXCEPT ![c] = [callbacks[c] EXCEPT !.at = at]]
  BY DEF Step
<1>4. QED BY <1>2, <1>3 DEF TypeInv, TypeOK

\* What the client makes of a reply is a typed tab.
LEMMA ReplyTypes ==
  ASSUME NEW tab \in Tab, TabPhase(tab), tab.stage = "replied"
  PROVE  /\ tab.call # "me" => AfterMain(tab) \in Tab /\ TabPhase(AfterMain(tab))
         /\ tab.call = "me" => AfterMe(tab) \in Tab /\ TabPhase(AfterMe(tab))
<1> DEFINE fresh == [RetryWithFreshToken(tab) EXCEPT !.moved = FALSE]
           over == [tab EXCEPT !.op = "none", !.stage = "ready",
                               !.page = IF tab.reply = "unauthorized" THEN "signin" ELSE @]
<1>1. fresh \in Tab /\ TabPhase(fresh)
  BY DEF RetryWithFreshToken, Tab, TabPhase
<1>2. over \in Tab /\ TabPhase(over)
  <2> DEFINE page == IF tab.reply = "unauthorized" THEN "signin" ELSE tab.page
  <2>1. page \in Pages /\ (page \in {"idp", "callback"} => tab.flow \in Flows)
    BY DEF Tab, TabPhase, Pages
  <2>2. over = [tab EXCEPT !.op = "none", !.stage = "ready", !.page = page]
    OBVIOUS
  <2> HIDE DEF page, over
  <2>3. over \in Tab
    BY <2>1, <2>2 DEF Tab
  <2>4. over.page = page /\ over.flow = tab.flow /\ over.stage = "ready" /\ over.op = "none"
    BY <2>2 DEF Tab
  <2>5. QED BY <2>1, <2>3, <2>4 DEF TabPhase
<1>3. AfterMain(tab) \in {fresh, Boot, over}
  BY DEF AfterMain
<1>4. ASSUME tab.call = "me" PROVE AfterMe(tab) \in Tab /\ TabPhase(AfterMe(tab))
  <2> DEFINE moved == tab.moved \/ tab.reply # "ok"
             known == [tab EXCEPT !.csrf = IF tab.reply = "ok" THEN tab.cookie ELSE @,
                                  !.moved = moved, !.stage = "ready"]
  <2>1. moved \in BOOLEAN
    BY DEF Tab
  <2>2. known \in Tab /\ TabPhase(known) /\ known.stage = "ready" /\ known.op = tab.op
    <3> HIDE DEF moved
    <3>1. QED BY <1>4, <2>1 DEF Tab, TabPhase
  <2>3. AfterMe(tab) = IF tab.op = "boot"
                       THEN [known EXCEPT !.op = "none",
                                          !.page = IF tab.reply = "ok" THEN "app" ELSE "signin"]
                       ELSE [known EXCEPT !.call = tab.op]
    BY DEF AfterMe
  <2>4. tab.op \in {"boot", "write", "logout"}
    BY DEF Tab, TabPhase
  <2> HIDE DEF known
  <2>5. CASE tab.op = "boot"
    <3> DEFINE page == IF tab.reply = "ok" THEN "app" ELSE "signin"
    <3>1. page \in Pages /\ page \notin {"idp", "callback"}
      BY DEF Pages
    <3> HIDE DEF page
    <3> DEFINE new == [known EXCEPT !.op = "none", !.page = page]
    <3>2. new \in Tab
      BY <2>2, <3>1 DEF Tab
    <3>3. new.op = "none" /\ new.stage = "ready" /\ new.page = page
      BY <2>2 DEF Tab
    <3>4. TabPhase(new)
      BY <3>1, <3>3 DEF TabPhase
    <3>5. QED BY <2>3, <2>5, <3>2, <3>4 DEF page
  <2>6. CASE tab.op # "boot"
    <3> DEFINE new == [known EXCEPT !.call = tab.op]
    <3>0. tab.op \in {"write", "logout"}
      BY <2>4, <2>6
    <3>1. new \in Tab
      BY <2>2, <3>0 DEF Tab
    <3>2. new.op = tab.op /\ new.call = tab.op /\ new.stage = "ready" /\ new.page = known.page
          /\ new.flow = known.flow
      BY <2>2 DEF Tab
    <3> HIDE DEF new
    <3>3. TabPhase(new)
      BY <2>2, <2>6, <3>2 DEF TabPhase
    <3>4. QED BY <2>3, <2>6, <3>1, <3>3 DEF new
  <2>7. QED BY <2>5, <2>6
<1> HIDE DEF fresh, over
<1>5. QED BY <1>1, <1>2, <1>3, <1>4, EmptyTypes

\* What an answer makes of a tab is typed, and is a page load or leaves all but the request.
LEMMA LandedTypes ==
  ASSUME NEW c, NEW t, tabs[t] \in Tab, TabPhase(tabs[t])
  PROVE  /\ Landed(c, t) \in Tab /\ TabPhase(Landed(c, t))
         /\ Landed(c, t) # Boot =>
               /\ Landed(c, t).flow = tabs[t].flow /\ Landed(c, t).op = tabs[t].op
               /\ Landed(c, t).call = tabs[t].call /\ Landed(c, t).stage = tabs[t].stage
               /\ Landed(c, t).cookie = tabs[t].cookie /\ Landed(c, t).header = tabs[t].header
               /\ Landed(c, t).csrf = tabs[t].csrf /\ Landed(c, t).reply = tabs[t].reply
               /\ Landed(c, t).retry = tabs[t].retry /\ Landed(c, t).moved = tabs[t].moved
<1>1. CASE HasCookie(c)
  BY <1>1, EmptyTypes DEF Landed
<1>2. CASE ~HasCookie(c)
  <2>1. Landed(c, t) = [tabs[t] EXCEPT !.callback = None]
    BY <1>2 DEF Landed
  <2>2. Landed(c, t) \in Tab
    BY <2>1 DEF Tab
  <2>3. TabPhase(Landed(c, t))
    BY <2>1 DEF Tab, TabPhase
  <2>4. QED BY <2>1, <2>2, <2>3 DEF Tab
<1>3. QED BY <1>1, <1>2

\* The initial state is typed.
LEMMA InitTypes == Init => TypeInv
  BY EmptyTypes DEF Init, TypeInv, TypeOK

\* Every step keeps the types.
LEMMA NextTypes == TypeInv /\ [Next]_vars => TypeInv'
<1> SUFFICES ASSUME TypeInv, [Next]_vars PROVE TypeInv'
  OBVIOUS
<1>0. \A t \in Tabs : tabs[t] \in Tab /\ TabPhase(tabs[t])
  BY DEF TypeInv, TypeOK
<1>1. ASSUME NEW t \in Tabs, NEW tab \in Tab, TabPhase(tab), Become(t, tab),
             UNCHANGED <<cookie, worker, callbacks, codes, history>>
      PROVE  TypeInv'
  BY <1>1, BecomeTypes DEF TypeInv, TypeOK, worker, history
<1>2. ASSUME NEW t \in Tabs, Write(t) \/ SignOut(t) PROVE TypeInv'
  <2> DEFINE tab(op) == [tabs[t] EXCEPT !.op = op, !.stage = "ready", !.retry = FALSE,
                         !.call = IF @ # op /\ tabs[t].csrf = None THEN "me" ELSE op]
  <2>1. \A op \in {"write", "logout"} : tab(op) \in Tab /\ TabPhase(tab(op))
    <3> SUFFICES ASSUME NEW op \in {"write", "logout"} PROVE tab(op) \in Tab /\ TabPhase(tab(op))
      OBVIOUS
    <3> DEFINE call == IF tabs[t].call # op /\ tabs[t].csrf = None THEN "me" ELSE op
               new == [tabs[t] EXCEPT !.op = op, !.stage = "ready", !.retry = FALSE, !.call = call]
    <3>1. tab(op) = new
      OBVIOUS
    <3>2. call \in {"me", op}
      OBVIOUS
    <3> HIDE DEF call, tab
    <3>3. new \in Tab
      BY <1>0, <3>2 DEF Tab
    <3>4. /\ new.op = op /\ new.stage = "ready" /\ new.call = call
          /\ new.page = tabs[t].page /\ new.flow = tabs[t].flow
      BY <1>0 DEF Tab
    <3> HIDE DEF new
    <3>5. TabPhase(new)
      BY <1>0, <3>2, <3>4 DEF TabPhase
    <3>6. QED BY <3>1, <3>3, <3>5
  <2>2. PICK op \in {"write", "logout"} : Start(t, op)
    BY <1>2 DEF Write, SignOut
  <2>3. Become(t, tab(op)) /\ UNCHANGED <<cookie, worker, callbacks, codes, history>>
    BY <2>2 DEF Start
  <2>4. tab(op) \in Tab /\ TabPhase(tab(op))
    BY <2>1
  <2> HIDE DEF tab
  <2>5. QED BY <1>1, <2>3, <2>4
<1>3. ASSUME NEW t \in Tabs, Send(t) PROVE TypeInv'
  <2> DEFINE header == IF tabs[t].call = "me" THEN None ELSE tabs[t].csrf
             moved == IF tabs[t].call = "me" THEN FALSE ELSE tabs[t].moved
             tab == [tabs[t] EXCEPT !.stage = "wire", !.cookie = cookie, !.header = header,
                                    !.moved = moved]
  <2>1. tabs[t] \in Tab /\ TabPhase(tabs[t]) /\ tabs[t].op # "none"
    BY <1>0, <1>3 DEF Send
  <2>2. header \in Sids \cup {None} /\ moved \in BOOLEAN /\ cookie \in Sids \cup {None}
    BY <2>1 DEF Tab, TypeInv, TypeOK
  <2>3. Become(t, tab) /\ UNCHANGED <<cookie, worker, callbacks, codes, history>>
    BY <1>3 DEF Send
  <2> HIDE DEF header, moved
  <2>4. tab \in Tab
    BY <2>1, <2>2 DEF Tab
  <2>5. /\ tab.stage = "wire" /\ tab.page = tabs[t].page /\ tab.flow = tabs[t].flow
        /\ tab.op = tabs[t].op /\ tab.call = tabs[t].call
    BY <2>1 DEF Tab
  <2> HIDE DEF tab
  <2>6. TabPhase(tab)
    BY <2>1, <2>5 DEF TabPhase
  <2>7. QED BY <1>1, <2>3, <2>4, <2>6
<1>4. ASSUME NEW t \in Tabs, NEW reply \in Replies, tabs[t].stage # "ready",
             Become(t, [tabs[t] EXCEPT !.stage = "replied", !.reply = reply])
      PROVE  tabs' \in [Tabs -> Tab] /\ \A u \in Tabs : TabPhase(tabs'[u])
  <2> DEFINE tab == [tabs[t] EXCEPT !.stage = "replied", !.reply = reply]
  <2>1. tab \in Tab /\ TabPhase(tab)
    BY <1>0, <1>4 DEF Tab, TabPhase
  <2> HIDE DEF tab
  <2>2. QED BY <1>4, <2>1, BecomeTypes DEF tab
<1>5. ASSUME NEW t \in Tabs, Lose(t) \/ Execute(t) PROVE TypeInv'
  <2>1. tabs' \in [Tabs -> Tab] /\ \A u \in Tabs : TabPhase(tabs'[u])
    BY <1>4, <1>5 DEF Lose, Execute, Replies
  <2>2. QED BY <1>5, <2>1 DEF Lose, Execute, TypeInv, TypeOK, worker, history
<1>6. ASSUME NEW t \in Tabs, Receive(t) PROVE TypeInv'
  <2> DEFINE tab == tabs[t]
  <2>1. tab \in Tab /\ TabPhase(tab) /\ tab.stage = "replied"
    BY <1>0, <1>6 DEF Receive
  <2>2. CASE tab.call = "logout" /\ tab.reply = "ok"
    <3>1. SetCookie(None, t, AfterMain(tab))
      BY <1>6, <2>2 DEF Receive
    <3>2. QED BY <1>6, <2>1, <2>2, <3>1, ReplyTypes, SetCookieTypes
                 DEF Receive, TypeInv, TypeOK, worker, history
  <2>3. CASE ~(tab.call = "logout" /\ tab.reply = "ok")
    <3>1. Become(t, IF tab.call = "me" THEN AfterMe(tab) ELSE AfterMain(tab)) /\ UNCHANGED cookie
      BY <1>6, <2>3 DEF Receive
    <3>2. tabs' \in [Tabs -> Tab] /\ \A u \in Tabs : TabPhase(tabs'[u])
      BY <2>1, <3>1, ReplyTypes, BecomeTypes
    <3>3. QED BY <1>6, <3>1, <3>2 DEF Receive, TypeInv, TypeOK, worker, history
  <2>4. QED BY <2>2, <2>3
<1>7. ASSUME NEW t \in Tabs, Resolve(t) PROVE TypeInv'
  <2> DEFINE tab == tabs[t]
             pass == [tab EXCEPT !.stage = "admitted"]
  <2>1. tab \in Tab /\ TabPhase(tab) /\ tab.stage = "wire"
    BY <1>0, <1>7 DEF Resolve
  <2>2. Verdict(tab) \in Replies \cup {"admitted"} /\ (Verdict(tab) = "admitted" => tab.cookie \in rows)
    BY DEF Verdict, Live, Replies
  <2>3. \/ Verdict(tab) = "admitted" /\ Become(t, pass)
        \/ \E reply \in Replies : Become(t, [tab EXCEPT !.stage = "replied", !.reply = reply])
    BY <1>7, <2>2 DEF Resolve, Replies
  <2>4. Verdict(tab) = "admitted" => pass \in Tab /\ TabPhase(pass)
    BY <2>1, <2>2 DEF Tab, TabPhase, TypeInv, TypeOK
  <2>5. tabs' \in [Tabs -> Tab] /\ \A u \in Tabs : TabPhase(tabs'[u])
    BY <1>4, <2>1, <2>3, <2>4, BecomeTypes
  <2>6. QED BY <1>7, <2>5 DEF Resolve, TypeInv, TypeOK, history
<1>8. ASSUME NEW t \in Tabs, Destroy(t) PROVE TypeInv'
  <2>1. tabs[t].cookie \in Sids
    BY <1>0, <1>8 DEF Destroy, TabPhase
  <2>2. tabs' \in [Tabs -> Tab] /\ \A u \in Tabs : TabPhase(tabs'[u])
    BY <1>4, <1>8 DEF Destroy, Replies
  <2>3. QED BY <1>8, <2>1, <2>2 DEF Destroy, TypeInv, TypeOK
<1>9. ASSUME NEW x \in Sids \cup Flows, Expire(x) PROVE TypeInv'
  BY <1>9 DEF Expire, TypeInv, TypeOK, history
<1>10. ASSUME NEW t \in Tabs, NEW f \in Flows, Login(t, f) PROVE TypeInv'
  <2> DEFINE tab == [Boot EXCEPT !.page = "idp", !.op = "none", !.flow = f]
  <2>1. tab \in Tab /\ TabPhase(tab)
    BY DEF Boot, Tab, TabPhase, Pages, Replies
  <2> HIDE DEF tab
  <2>2. tabs' \in [Tabs -> Tab] /\ \A u \in Tabs : TabPhase(tabs'[u])
    BY <1>10, <2>1, BecomeTypes DEF Login, tab
  <2>3. QED BY <1>10, <2>2 DEF Login, TypeInv, TypeOK
<1>11. ASSUME NEW t \in Tabs, NEW c \in Callbacks, Return(t, c) PROVE TypeInv'
  <2> DEFINE f == tabs[t].flow
             late == f \in consumed
             q == [Idle EXCEPT !.at = "take", !.flow = f, !.late = late]
             tab == [tabs[t] EXCEPT !.page = "callback", !.callback = c]
  <2>1. f \in Flows
    BY <1>0, <1>11 DEF Return, TabPhase
  <2>2. q \in Callback /\ CallbackPhase(q)
    <3>1. late \in BOOLEAN
      OBVIOUS
    <3> HIDE DEF late, f
    <3>2. QED BY <2>1, <3>1 DEF Idle, Callback, CallbackPhase
  <2>3. tab \in Tab /\ TabPhase(tab)
    BY <1>0, <2>1 DEF Tab, TabPhase, Pages
  <2>4. callbacks' = [callbacks EXCEPT ![c] = q] /\ Become(t, tab) /\ codes' \subseteq codes \cup {f}
    BY <1>11 DEF Return
  <2>5. tabs' \in [Tabs -> Tab] /\ \A u \in Tabs : TabPhase(tabs'[u])
    BY <2>3, <2>4, BecomeTypes
  <2> HIDE DEF q, tab
  <2>6. QED BY <1>11, <2>1, <2>2, <2>4, <2>5 DEF Return, TypeInv, TypeOK, worker, history
<1>12. ASSUME NEW c \in Callbacks, Select(c) \/ Exchange(c) \/ Break(c) PROVE TypeInv'
  <2>1. /\ callbacks' \in [Callbacks -> Callback]
        /\ \A d \in Callbacks : CallbackPhase(callbacks'[d])
    BY <1>12, StepTypes DEF Select, Exchange, Break
  <2>2. QED BY <1>12, <2>1 DEF Select, Exchange, Break, TypeInv, TypeOK, worker, history
<1>13. ASSUME NEW c \in Callbacks, Delete(c) PROVE TypeInv'
  <2>1. /\ callbacks' \in [Callbacks -> Callback]
        /\ \A d \in Callbacks : CallbackPhase(callbacks'[d])
    BY <1>13, StepTypes DEF Delete
  <2>2. callbacks[c].flow \in Flows
    BY <1>13 DEF Delete, TypeInv, CallbackPhase
  <2>3. QED BY <1>13, <2>1, <2>2 DEF Delete, TypeInv, TypeOK
<1>14. ASSUME NEW c \in Callbacks, NEW s \in Sids, Mint(c, s) PROVE TypeInv'
  <2>1. callbacks[c] \in Callback /\ CallbackPhase(callbacks[c]) /\ callbacks[c].at = "mint"
    BY <1>14 DEF Mint, TypeInv, TypeOK
  <2> DEFINE q == [callbacks[c] EXCEPT !.at = "sweep", !.sid = s]
  <2>2. q \in Callback /\ CallbackPhase(q)
    BY <2>1 DEF Callback, CallbackPhase
  <2>3. callbacks' = [callbacks EXCEPT ![c] = q]
    BY <1>14 DEF Mint
  <2> HIDE DEF q
  <2>4. QED BY <1>14, <2>2, <2>3 DEF Mint, TypeInv, TypeOK
<1>15. ASSUME NEW c \in Callbacks, Sweep(c) PROVE TypeInv'
  <2>1. /\ callbacks' \in [Callbacks -> Callback]
        /\ \A d \in Callbacks : CallbackPhase(callbacks'[d])
    BY <1>15, StepTypes DEF Sweep
  <2>2. QED BY <1>15, <2>1 DEF Sweep, TypeInv, TypeOK, history
<1>16. ASSUME NEW c \in Callbacks, Audit(c) PROVE TypeInv'
  <2>1. /\ callbacks' \in [Callbacks -> Callback]
        /\ \A d \in Callbacks : CallbackPhase(callbacks'[d])
    BY <1>16, StepTypes DEF Audit
  <2>2. callbacks[c].sid \in Sids
    BY <1>16 DEF Audit, TypeInv, CallbackPhase
  <2>3. QED BY <1>16, <2>1, <2>2 DEF Audit, TypeInv, TypeOK, history
<1>17. ASSUME NEW c \in Callbacks, Answer(c) PROVE TypeInv'
  <2>1. /\ callbacks' \in [Callbacks -> Callback]
        /\ \A d \in Callbacks : CallbackPhase(callbacks'[d])
    BY <1>17, EmptyTypes DEF Answer, TypeInv, TypeOK
  <2>2. (IF HasCookie(c) THEN callbacks[c].sid ELSE cookie) \in Sids \cup {None}
    BY DEF TypeInv, TypeOK, Callback
  <2>3. /\ cookie' \in Sids \cup {None}
        /\ tabs' \in [Tabs -> Tab] /\ \A u \in Tabs : TabPhase(tabs'[u])
    <3>1. CASE \E t \in Tabs : tabs[t].callback = c
      <4>1. PICK t \in Tabs : SetCookie(IF HasCookie(c) THEN callbacks[c].sid ELSE cookie, t,
                                       Landed(c, t))
        BY <1>17, <3>1 DEF Answer
      <4>2. Landed(c, t) \in Tab /\ TabPhase(Landed(c, t))
        BY <1>0, LandedTypes
      <4>3. QED BY <2>2, <4>1, <4>2, SetCookieTypes
    <3>2. CASE ~\E t \in Tabs : tabs[t].callback = c
      BY <1>17, <3>2 DEF Answer, TypeInv, TypeOK
    <3>3. QED BY <3>1, <3>2
  <2>4. QED BY <1>17, <2>1, <2>3 DEF Answer, TypeInv, TypeOK, worker, history
<1>18. ASSUME NEW t \in Tabs, Open(t) PROVE TypeInv'
  BY <1>1, <1>18, EmptyTypes DEF Open
<1>19. ASSUME UNCHANGED vars PROVE TypeInv'
  BY <1>19 DEF vars, worker, history, TypeInv, TypeOK
<1>20. QED BY <1>2, <1>3, <1>5, <1>6, <1>7, <1>8, <1>9, <1>10, <1>11, <1>12, <1>13, <1>14,
              <1>15, <1>16, <1>17, <1>18, <1>19 DEF Next, Serve

\* Type correctness: whatever the order of requests, answers and callbacks, the client
\* knows every reply and the Worker every step.
THEOREM TypeCorrect == Spec => []TypeOK
<1>1. TypeInv => TypeOK
  BY DEF TypeInv
<1>2. QED BY <1>1, InitTypes, NextTypes, PTL DEF Spec

-------------------------------------------------------------------------------
(* Sessions and sign-in states end once. *)

\* What the tabs and the callbacks hold was issued, a callback that is done was audited,
\* and a late one gets nowhere.
CallbackKnows(q) ==
    /\ q.flow \in issued \cup {None}
    /\ q.at = "done" => q.sid \in audited
    /\ q.late => q.flow \in consumed /\ q.at \in {"idle", "take", "failed"} /\ q.sid = None

\* The inductive invariant: nothing that has ended comes back, since it was issued.
SessionInv ==
    /\ TypeInv
    /\ CookieIsAudited
    /\ rows \cup loggedOut \cup consumed \subseteq issued
    /\ rows \cap loggedOut = {} /\ flowRows \cap consumed = {}
    /\ \A t \in Tabs : /\ tabs[t].flow \in issued \cup {None}
                       /\ tabs[t].stage = "admitted" => tabs[t].cookie \in issued
    /\ \A c \in Callbacks : CallbackKnows(callbacks[c])

\* An idle callback knows nothing.
LEMMA IdleKnows == CallbackKnows(Idle)
  BY DEF CallbackKnows, Idle

\* What a reply makes of a tab: its flow stays or goes, and it is admitted to nothing.
LEMMA ReplyKeepsFlow ==
  ASSUME NEW tab \in Tab, TabPhase(tab), tab.stage = "replied"
  PROVE  /\ tab.call # "me" => AfterMain(tab).flow \in {tab.flow, None} /\ AfterMain(tab).stage = "ready"
         /\ tab.call = "me" => AfterMe(tab).flow = tab.flow /\ AfterMe(tab).stage = "ready"
<1>1. tab.call # "me" => AfterMain(tab).flow \in {tab.flow, None} /\ AfterMain(tab).stage = "ready"
  <2> DEFINE fresh == [RetryWithFreshToken(tab) EXCEPT !.moved = FALSE]
             over == [tab EXCEPT !.op = "none", !.stage = "ready",
                                 !.page = IF tab.reply = "unauthorized" THEN "signin" ELSE @]
  <2>1. fresh.flow = tab.flow /\ fresh.stage = "ready"
    BY DEF RetryWithFreshToken, Tab
  <2>2. over.flow = tab.flow /\ over.stage = "ready"
    BY DEF Tab
  <2>3. Boot.flow = None /\ Boot.stage = "ready"
    BY DEF Boot
  <2>4. AfterMain(tab) \in {fresh, Boot, over}
    BY DEF AfterMain
  <2> HIDE DEF fresh, over
  <2>5. QED BY <2>1, <2>2, <2>3, <2>4
<1>2. tab.call = "me" => AfterMe(tab).flow = tab.flow /\ AfterMe(tab).stage = "ready"
  <2> DEFINE moved == tab.moved \/ tab.reply # "ok"
             csrf == IF tab.reply = "ok" THEN tab.cookie ELSE tab.csrf
             page == IF tab.reply = "ok" THEN "app" ELSE "signin"
             known == [tab EXCEPT !.csrf = csrf, !.moved = moved, !.stage = "ready"]
  <2>1. AfterMe(tab) \in {[known EXCEPT !.op = "none", !.page = page], [known EXCEPT !.call = tab.op]}
    BY DEF AfterMe
  <2> HIDE DEF moved, csrf, page
  <2>2. QED BY <2>1 DEF Tab
<1>3. QED BY <1>1, <1>2

\* A tab takes a value with an issued flow, and is admitted with an issued session.
LEMMA BecomeKeeps ==
  ASSUME SessionInv, NEW t \in Tabs, NEW tab, Become(t, tab),
         tab.flow \in issued \cup {None}, tab.stage = "admitted" => tab.cookie \in issued
  PROVE  \A u \in Tabs : /\ tabs'[u].flow \in issued \cup {None}
                         /\ tabs'[u].stage = "admitted" => tabs'[u].cookie \in issued
<1>1. \A u \in Tabs : tabs'[u] = IF u = t THEN tab ELSE tabs[u]
  BY DEF SessionInv, TypeInv, TypeOK, Become
<1>2. QED BY <1>1 DEF SessionInv

\* So it does when the browser's cookie changes.
LEMMA SetCookieKeeps ==
  ASSUME SessionInv, NEW t \in Tabs, NEW tab \in Tab, NEW c, SetCookie(c, t, tab),
         tab.flow \in issued \cup {None}, tab.stage = "admitted" => tab.cookie \in issued
  PROVE  \A u \in Tabs : /\ tabs'[u].flow \in issued \cup {None}
                         /\ tabs'[u].stage = "admitted" => tabs'[u].cookie \in issued
<1> SUFFICES ASSUME NEW u \in Tabs
             PROVE  /\ tabs'[u].flow \in issued \cup {None}
                    /\ tabs'[u].stage = "admitted" => tabs'[u].cookie \in issued
  OBVIOUS
<1> DEFINE now == IF u = t THEN tab ELSE tabs[u]
           moved == now.moved \/ c # cookie
<1>1. /\ now \in Tab /\ now.flow \in issued \cup {None}
      /\ now.stage = "admitted" => now.cookie \in issued
  BY DEF SessionInv, TypeInv, TypeOK
<1>2. tabs'[u] = [now EXCEPT !.moved = moved]
  BY DEF SetCookie
<1> HIDE DEF now, moved
<1>3. QED BY <1>1, <1>2 DEF Tab

\* A callback takes a step, knowing what it should.
LEMMA StepKnows ==
  ASSUME SessionInv, NEW c \in Callbacks, NEW at, Step(c, at),
         at = "done" => callbacks[c].sid \in audited',
         callbacks[c].late => at \in {"take", "failed"},
         issued \subseteq issued', audited \subseteq audited', consumed \subseteq consumed'
  PROVE  \A d \in Callbacks : CallbackKnows(callbacks[d])'
<1> SUFFICES ASSUME NEW d \in Callbacks PROVE CallbackKnows(callbacks[d])'
  OBVIOUS
<1>1. callbacks[c] \in Callback /\ CallbackKnows(callbacks[c]) /\ CallbackKnows(callbacks[d])
  BY DEF SessionInv, TypeInv, TypeOK
<1>2. CASE d = c
  <2>1. callbacks'[d] = [callbacks[c] EXCEPT !.at = at]
    BY <1>2 DEF Step, SessionInv, TypeInv, TypeOK
  <2>2. /\ callbacks'[d].at = at /\ callbacks'[d].flow = callbacks[c].flow
        /\ callbacks'[d].sid = callbacks[c].sid /\ callbacks'[d].late = callbacks[c].late
    BY <1>1, <2>1 DEF Callback
  <2>3. QED BY <1>1, <2>2 DEF CallbackKnows
<1>3. CASE d # c
  <2>1. callbacks'[d] = callbacks[d]
    BY <1>3 DEF Step, SessionInv, TypeInv, TypeOK
  <2>2. QED BY <1>1, <2>1 DEF CallbackKnows
<1>4. QED BY <1>2, <1>3

\* Initially there is nothing to end.
LEMMA InitSession == Init => SessionInv
<1> SUFFICES ASSUME Init PROVE SessionInv
  OBVIOUS
<1>1. \A t \in Tabs : tabs[t].flow = None /\ tabs[t].stage = "ready"
  BY DEF Init, Boot
<1>2. \A c \in Callbacks : CallbackKnows(callbacks[c])
  BY IdleKnows DEF Init
<1>3. QED BY <1>1, <1>2, InitTypes DEF Init, SessionInv, CookieIsAudited

\* Every step keeps the inductive invariant.
LEMMA NextSession == SessionInv /\ [Next]_vars => SessionInv'
<1> SUFFICES ASSUME SessionInv, [Next]_vars PROVE SessionInv'
  OBVIOUS
<1> DEFINE TabsKeep == \A u \in Tabs : /\ tabs'[u].flow \in issued' \cup {None}
                                       /\ tabs'[u].stage = "admitted" => tabs'[u].cookie \in issued'
           CallbacksKeep == \A d \in Callbacks : CallbackKnows(callbacks[d])'
<1>0. /\ TypeInv' /\ TypeOK
      /\ \A t \in Tabs : tabs[t] \in Tab /\ TabPhase(tabs[t])
      /\ \A t \in Tabs : /\ tabs[t].flow \in issued \cup {None}
                         /\ tabs[t].stage = "admitted" => tabs[t].cookie \in issued
      /\ \A c \in Callbacks : /\ callbacks[c] \in Callback /\ CallbackPhase(callbacks[c])
                              /\ CallbackKnows(callbacks[c])
  BY NextTypes DEF SessionInv, TypeInv, TypeOK
<1>1. ASSUME UNCHANGED <<callbacks, issued, audited, consumed>> PROVE CallbacksKeep
  BY <1>0, <1>1 DEF CallbackKnows
<1>2. ASSUME UNCHANGED <<cookie, worker, callbacks, history>>, TabsKeep PROVE SessionInv'
  BY <1>0, <1>1, <1>2 DEF SessionInv, CookieIsAudited, worker, history
<1>3. ASSUME NEW t \in Tabs, Write(t) \/ SignOut(t) PROVE SessionInv'
  <2> DEFINE tab(op) == [tabs[t] EXCEPT !.op = op, !.stage = "ready", !.retry = FALSE,
                         !.call = IF @ # op /\ tabs[t].csrf = None THEN "me" ELSE op]
  <2>1. PICK op \in {"write", "logout"} : Start(t, op)
    BY <1>3 DEF Write, SignOut
  <2>2. Become(t, tab(op)) /\ UNCHANGED <<cookie, worker, callbacks, history>>
    BY <2>1 DEF Start
  <2>3. tab(op).flow = tabs[t].flow /\ tab(op).stage = "ready"
    BY <1>0 DEF Tab
  <2> HIDE DEF tab
  <2>4. TabsKeep
    BY <1>0, <2>2, <2>3, BecomeKeeps DEF history
  <2>5. QED BY <1>2, <2>2, <2>4
<1>4. ASSUME NEW t \in Tabs, Send(t) PROVE SessionInv'
  <2> DEFINE header == IF tabs[t].call = "me" THEN None ELSE tabs[t].csrf
             moved == IF tabs[t].call = "me" THEN FALSE ELSE tabs[t].moved
             tab == [tabs[t] EXCEPT !.stage = "wire", !.cookie = cookie, !.header = header,
                                    !.moved = moved]
  <2>1. Become(t, tab) /\ UNCHANGED <<cookie, worker, callbacks, history>>
    BY <1>4 DEF Send
  <2>2. tab.flow = tabs[t].flow /\ tab.stage = "wire"
    <3> HIDE DEF header, moved
    <3>1. QED BY <1>0 DEF Tab
  <2> HIDE DEF tab
  <2>3. TabsKeep
    BY <1>0, <2>1, <2>2, BecomeKeeps DEF history
  <2>4. QED BY <1>2, <2>1, <2>3
<1>5. ASSUME NEW t \in Tabs, NEW reply, issued' = issued,
             Become(t, [tabs[t] EXCEPT !.stage = "replied", !.reply = reply])
      PROVE  TabsKeep
  <2> DEFINE tab == [tabs[t] EXCEPT !.stage = "replied", !.reply = reply]
  <2>1. tab.flow = tabs[t].flow /\ tab.stage = "replied"
    BY <1>0 DEF Tab
  <2> HIDE DEF tab
  <2>2. Become(t, tab)
    BY <1>5 DEF tab
  <2>3. QED BY <1>0, <1>5, <2>1, <2>2, BecomeKeeps
<1>6. ASSUME NEW t \in Tabs, Lose(t) \/ Execute(t) PROVE SessionInv'
  <2>1. TabsKeep
    BY <1>5, <1>6 DEF Lose, Execute, history
  <2>2. QED BY <1>2, <1>6, <2>1 DEF Lose, Execute
<1>7. ASSUME NEW t \in Tabs, Receive(t) PROVE SessionInv'
  <2> DEFINE tab == tabs[t]
  <2>1. tab \in Tab /\ TabPhase(tab) /\ tab.stage = "replied"
    BY <1>0, <1>7 DEF Receive
  <2>2. UNCHANGED <<rows, flowRows, expired, audited, callbacks, issued, consumed, loggedOut>>
    BY <1>7 DEF Receive, worker, history
  <2>3. CASE tab.call = "logout" /\ tab.reply = "ok"
    <3>1. SetCookie(None, t, AfterMain(tab)) /\ cookie' = None
      BY <1>7, <2>3 DEF Receive, SetCookie
    <3>2. /\ AfterMain(tab) \in Tab
          /\ AfterMain(tab).flow \in issued \cup {None} /\ AfterMain(tab).stage = "ready"
      BY <1>0, <2>1, <2>3, ReplyTypes, ReplyKeepsFlow
    <3>3. TabsKeep
      BY <2>2, <3>1, <3>2, SetCookieKeeps
    <3>4. QED BY <1>0, <1>1, <2>2, <3>1, <3>3 DEF SessionInv, CookieIsAudited
  <2>4. CASE ~(tab.call = "logout" /\ tab.reply = "ok")
    <3> DEFINE new == IF tab.call = "me" THEN AfterMe(tab) ELSE AfterMain(tab)
    <3>1. Become(t, new) /\ UNCHANGED <<cookie, worker, callbacks, history>>
      BY <1>7, <2>4 DEF Receive
    <3>2. new.flow \in issued \cup {None} /\ new.stage = "ready"
      BY <1>0, <2>1, ReplyKeepsFlow
    <3> HIDE DEF new
    <3>3. TabsKeep
      BY <2>2, <3>1, <3>2, BecomeKeeps
    <3>4. QED BY <1>2, <3>1, <3>3
  <2>5. QED BY <2>3, <2>4
<1>8. ASSUME NEW t \in Tabs, Resolve(t) PROVE SessionInv'
  <2> DEFINE tab == tabs[t]
             pass == [tab EXCEPT !.stage = "admitted"]
  <2>1. /\ UNCHANGED <<cookie, flowRows, expired, audited, callbacks, issued, consumed, loggedOut>>
        /\ rows' \subseteq rows
    BY <1>8 DEF Resolve, history
  <2>2. Verdict(tab) = "admitted" => tab.cookie \in rows
    BY DEF Verdict, Live
  <2>3. \/ Verdict(tab) = "admitted" /\ Become(t, pass)
        \/ \E reply : Become(t, [tab EXCEPT !.stage = "replied", !.reply = reply])
    BY <1>8 DEF Resolve
  <2>4. pass.flow = tab.flow /\ pass.cookie = tab.cookie
    BY <1>0 DEF Tab
  <2>5. TabsKeep
    <3> HIDE DEF pass
    <3>1. ASSUME Verdict(tab) = "admitted", Become(t, pass) PROVE TabsKeep
      <4>1. tab.cookie \in issued
        BY <2>2, <3>1 DEF SessionInv
      <4>2. QED BY <1>0, <2>1, <2>4, <3>1, <4>1, BecomeKeeps
    <3>2. QED BY <1>5, <2>1, <2>3, <3>1
  <2>6. QED BY <1>0, <1>1, <2>1, <2>5 DEF SessionInv, CookieIsAudited
<1>9. ASSUME NEW t \in Tabs, Destroy(t) PROVE SessionInv'
  <2> DEFINE s == tabs[t].cookie
  <2>1. /\ UNCHANGED <<cookie, flowRows, expired, audited, callbacks, issued, consumed>>
        /\ rows' = rows \ {s} /\ loggedOut' = loggedOut \cup {s}
        /\ tabs[t].stage = "admitted"
    BY <1>9 DEF Destroy
  <2>2. TabsKeep
    BY <1>5, <1>9 DEF Destroy
  <2>3. s \in issued
    BY <1>0, <2>1
  <2>4. QED BY <1>0, <1>1, <2>1, <2>2, <2>3 DEF SessionInv, CookieIsAudited
<1>10. ASSUME NEW x \in Sids \cup Flows, Expire(x) PROVE SessionInv'
  <2>1. UNCHANGED <<tabs, cookie, rows, flowRows, audited, callbacks, issued, consumed, loggedOut>>
    BY <1>10 DEF Expire, history
  <2>2. QED BY <1>0, <1>1, <2>1 DEF SessionInv, CookieIsAudited
<1>11. ASSUME NEW t \in Tabs, NEW f \in Flows, Login(t, f) PROVE SessionInv'
  <2> DEFINE tab == [Boot EXCEPT !.page = "idp", !.op = "none", !.flow = f]
  <2>1. /\ UNCHANGED <<cookie, rows, expired, audited, callbacks, consumed, loggedOut>>
        /\ f \notin issued /\ issued' = issued \cup {f} /\ flowRows' = flowRows \cup {f}
        /\ tabs' = [tabs EXCEPT ![t] = tab]
    BY <1>11 DEF Login, Become
  <2>2. tab.flow = f /\ tab.stage = "ready"
    BY DEF Boot
  <2> HIDE DEF tab
  <2>3. TabsKeep
    BY <1>0, <2>1, <2>2 DEF TypeOK
  <2>4. CallbacksKeep
    BY <1>0, <2>1 DEF CallbackKnows
  <2>5. QED BY <1>0, <2>1, <2>3, <2>4 DEF SessionInv, CookieIsAudited
<1>12. ASSUME NEW t \in Tabs, NEW c \in Callbacks, Return(t, c) PROVE SessionInv'
  <2> DEFINE f == tabs[t].flow
             late == f \in consumed
             q == [Idle EXCEPT !.at = "take", !.flow = f, !.late = late]
             tab == [tabs[t] EXCEPT !.page = "callback", !.callback = c]
  <2>1. /\ UNCHANGED <<cookie, rows, flowRows, expired, audited, issued, consumed, loggedOut>>
        /\ callbacks' = [callbacks EXCEPT ![c] = q] /\ Become(t, tab)
    BY <1>12 DEF Return, worker, history
  <2>2. q.at = "take" /\ q.flow = f /\ q.late = late /\ q.sid = None
    BY DEF Idle
  <2>3. tab.flow = f /\ tab.stage = tabs[t].stage /\ tab.cookie = tabs[t].cookie
    BY <1>0 DEF Tab
  <2> HIDE DEF q, tab
  <2>4. TabsKeep
    BY <1>0, <2>1, <2>3, BecomeKeeps
  <2>5. CallbacksKeep
    <3> SUFFICES ASSUME NEW d \in Callbacks PROVE CallbackKnows(callbacks[d])'
      OBVIOUS
    <3>1. CASE d = c
      <4>1. callbacks'[d] = q /\ f \in issued \cup {None}
        BY <1>0, <2>1, <3>1 DEF TypeOK
      <4>2. QED BY <2>1, <2>2, <4>1 DEF CallbackKnows
    <3>2. CASE d # c
      <4>1. callbacks'[d] = callbacks[d] /\ CallbackKnows(callbacks[d])
        BY <1>0, <2>1, <3>2 DEF TypeOK
      <4>2. QED BY <2>1, <4>1 DEF CallbackKnows
    <3>3. QED BY <3>1, <3>2
  <2>6. QED BY <1>0, <2>1, <2>4, <2>5 DEF SessionInv, CookieIsAudited
<1>13. ASSUME NEW c \in Callbacks, Select(c) \/ Exchange(c) \/ Break(c) PROVE SessionInv'
  <2>1. UNCHANGED <<tabs, cookie, rows, flowRows, expired, audited, issued, consumed, loggedOut>>
    BY <1>13 DEF Select, Exchange, Break, worker, history
  <2>2. callbacks[c].late => callbacks[c].flow \in consumed \ flowRows /\ callbacks[c].at # "exchange"
    BY <1>0 DEF SessionInv, CallbackKnows
  <2>3. \/ Step(c, "failed")
        \/ ~callbacks[c].late /\ \E at \in {"delete", "mint"} : Step(c, at)
    BY <1>13, <2>2 DEF Select, Exchange, Break
  <2>4. CallbacksKeep
    BY <2>1, <2>3, StepKnows
  <2>5. QED BY <1>0, <2>1, <2>4 DEF SessionInv, CookieIsAudited
<1>14. ASSUME NEW c \in Callbacks, Delete(c) PROVE SessionInv'
  <2>1. /\ UNCHANGED <<tabs, cookie, rows, expired, audited, issued, loggedOut>>
        /\ flowRows' = flowRows \ {callbacks[c].flow} /\ callbacks[c].at = "delete"
        /\ consumed' = consumed \cup {callbacks[c].flow}
        /\ \E at \in {"failed", "exchange"} : Step(c, at)
    BY <1>14 DEF Delete
  <2>2. callbacks[c].flow \in issued /\ ~callbacks[c].late
    <3>1. callbacks[c].flow \in Flows /\ callbacks[c].flow \in issued \cup {None}
      BY <1>0, <2>1 DEF CallbackPhase, CallbackKnows
    <3>2. QED BY <1>0, <2>1, <3>1, NoneIsNone DEF CallbackKnows
  <2>3. CallbacksKeep
    BY <2>1, <2>2, StepKnows
  <2>4. QED BY <1>0, <2>1, <2>2, <2>3 DEF SessionInv, CookieIsAudited
<1>15. ASSUME NEW c \in Callbacks, NEW s \in Sids, Mint(c, s) PROVE SessionInv'
  <2>1. /\ UNCHANGED <<tabs, cookie, flowRows, expired, audited, consumed, loggedOut>>
        /\ s \notin issued /\ issued' = issued \cup {s} /\ rows' = rows \cup {s}
        /\ callbacks' = [callbacks EXCEPT ![c].at = "sweep", ![c].sid = s]
        /\ callbacks[c].at = "mint"
    BY <1>15 DEF Mint
  <2>2. CallbacksKeep
    <3> SUFFICES ASSUME NEW d \in Callbacks PROVE CallbackKnows(callbacks[d])'
      OBVIOUS
    <3>1. CASE d = c
      <4>1. /\ callbacks'[d].at = "sweep" /\ callbacks'[d].flow = callbacks[d].flow
            /\ callbacks'[d].late = callbacks[d].late
        BY <1>0, <2>1, <3>1 DEF TypeOK, Callback
      <4>2. ~callbacks[d].late /\ callbacks[d].flow \in issued \cup {None}
        BY <1>0, <2>1, <3>1 DEF CallbackKnows
      <4>3. QED BY <2>1, <4>1, <4>2 DEF CallbackKnows
    <3>2. CASE d # c
      <4>1. callbacks'[d] = callbacks[d] /\ CallbackKnows(callbacks[d])
        BY <1>0, <2>1, <3>2 DEF TypeOK
      <4>2. QED BY <2>1, <4>1 DEF CallbackKnows
    <3>3. QED BY <3>1, <3>2
  <2>3. TabsKeep
    BY <1>0, <2>1
  <2>4. QED BY <1>0, <2>1, <2>2, <2>3 DEF SessionInv, CookieIsAudited
<1>16. ASSUME NEW c \in Callbacks, Sweep(c) PROVE SessionInv'
  <2>1. /\ UNCHANGED <<tabs, cookie, flowRows, expired, audited, issued, consumed, loggedOut>>
        /\ rows' \subseteq rows /\ callbacks[c].at = "sweep" /\ Step(c, "audit")
    BY <1>16 DEF Sweep, history
  <2>2. ~callbacks[c].late
    BY <1>0, <2>1 DEF CallbackKnows
  <2>3. CallbacksKeep
    BY <2>1, <2>2, StepKnows
  <2>4. QED BY <1>0, <2>1, <2>3 DEF SessionInv, CookieIsAudited
<1>17. ASSUME NEW c \in Callbacks, Audit(c) PROVE SessionInv'
  <2>1. /\ UNCHANGED <<tabs, cookie, rows, flowRows, expired, issued, consumed, loggedOut>>
        /\ audited' = audited \cup {callbacks[c].sid} /\ callbacks[c].at = "audit"
        /\ Step(c, "done")
    BY <1>17 DEF Audit, history
  <2>2. ~callbacks[c].late
    BY <1>0, <2>1 DEF CallbackKnows
  <2>3. CallbacksKeep
    BY <2>1, <2>2, StepKnows
  <2>4. QED BY <1>0, <2>1, <2>3 DEF SessionInv, CookieIsAudited
<1>18. ASSUME NEW c \in Callbacks, Answer(c) PROVE SessionInv'
  <2>1. /\ UNCHANGED <<rows, flowRows, expired, audited, issued, consumed, loggedOut>>
        /\ callbacks' = [callbacks EXCEPT ![c] = Idle]
    BY <1>18 DEF Answer, worker, history
  <2>2. CallbacksKeep
    <3>1. \A d \in Callbacks : callbacks'[d] \in {Idle, callbacks[d]}
      BY <1>0, <2>1 DEF TypeOK
    <3>2. QED BY <1>0, <2>1, <3>1, IdleKnows DEF CallbackKnows
  <2>3. TabsKeep /\ CookieIsAudited'
    <3>1. CASE \E t \in Tabs : tabs[t].callback = c
      <4> DEFINE new == IF HasCookie(c) THEN callbacks[c].sid ELSE cookie
      <4>1. PICK t \in Tabs : SetCookie(new, t, Landed(c, t))
        BY <1>18, <3>1 DEF Answer
      <4>2. /\ Landed(c, t) \in Tab /\ Landed(c, t).flow \in issued \cup {None}
            /\ Landed(c, t).stage = "admitted" => Landed(c, t).cookie \in issued
        <5>1. Boot.flow = None /\ Boot.stage = "ready"
          BY DEF Boot
        <5>2. QED BY <1>0, <5>1, LandedTypes
      <4>3. TabsKeep
        BY <2>1, <4>1, <4>2, SetCookieKeeps
      <4>4. cookie' = new /\ (new # None => new \in audited)
        BY <1>0, <4>1 DEF SetCookie, HasCookie, CallbackKnows, SessionInv, CookieIsAudited
      <4>5. QED BY <2>1, <4>3, <4>4 DEF CookieIsAudited
    <3>2. CASE ~\E t \in Tabs : tabs[t].callback = c
      BY <1>0, <1>18, <2>1, <3>2 DEF Answer, SessionInv, CookieIsAudited
    <3>3. QED BY <3>1, <3>2
  <2>4. QED BY <1>0, <2>1, <2>2, <2>3 DEF SessionInv
<1>19. ASSUME NEW t \in Tabs, Open(t) PROVE SessionInv'
  <2>1. Boot.flow = None /\ Boot.stage = "ready"
    BY DEF Boot
  <2>2. TabsKeep
    BY <1>19, <2>1, BecomeKeeps DEF Open, history
  <2>3. QED BY <1>2, <1>19, <2>2 DEF Open
<1>20. ASSUME UNCHANGED vars PROVE SessionInv'
  BY <1>0, <1>2, <1>20 DEF vars, worker, history
<1>21. QED BY <1>3, <1>4, <1>6, <1>7, <1>8, <1>9, <1>10, <1>11, <1>12, <1>13, <1>14, <1>15,
              <1>16, <1>17, <1>18, <1>19, <1>20 DEF Next, Serve

\* A browser holds no session whose sign-in is missing from the audit log: the cookie
\* leaves /auth/callback only after the record is written.
THEOREM CookiesAudited == Spec => []CookieIsAudited
<1>1. SessionInv => CookieIsAudited
  BY DEF SessionInv
<1>2. QED BY <1>1, InitSession, NextSession, PTL DEF Spec

\* takeAuthFlow: a callback that comes after the state was consumed mints no session.
THEOREM ConsumedMintsNothing == Spec => []ConsumedStateMintsNothing
<1>1. SessionInv => ConsumedStateMintsNothing
  BY DEF SessionInv, CallbackKnows, ConsumedStateMintsNothing
<1>2. QED BY <1>1, InitSession, NextSession, PTL DEF Spec

\* A session row goes by its own sign-out or after its expiry: neither the sweep nor the
\* request that meets it takes one that is alive.
THEOREM EndInOrder == Spec => RowsEndInOrder
<1> DEFINE Ends == \A s \in rows \ rows' : s \in expired \/ s \in loggedOut'
<1>1. [Next]_vars => [Ends]_vars
  <2> SUFFICES ASSUME [Next]_vars PROVE Ends
    OBVIOUS
  <2>1. ASSUME NEW t \in Tabs, Serve(t) PROVE Ends
    BY <2>1 DEF Serve, Resolve, Execute, Destroy, worker
  <2>2. ASSUME NEW t \in Tabs,
               Write(t) \/ SignOut(t) \/ Send(t) \/ Lose(t) \/ Receive(t) \/ Open(t)
        PROVE  Ends
    BY <2>2 DEF Write, SignOut, Start, Send, Lose, Receive, Open, worker
  <2>3. ASSUME NEW t \in Tabs, NEW f \in Flows, Login(t, f) PROVE Ends
    BY <2>3 DEF Login
  <2>4. ASSUME NEW t \in Tabs, NEW c \in Callbacks, Return(t, c) PROVE Ends
    BY <2>4 DEF Return, worker
  <2>5. ASSUME NEW c \in Callbacks, Sweep(c) PROVE Ends
    BY <2>5 DEF Sweep, Sweepable
  <2>6. ASSUME NEW c \in Callbacks,
               Select(c) \/ Delete(c) \/ Exchange(c) \/ Audit(c) \/ Break(c) \/ Answer(c)
        PROVE  Ends
    BY <2>6 DEF Select, Delete, Exchange, Audit, Break, Answer, worker
  <2>7. ASSUME NEW c \in Callbacks, NEW s \in Sids, Mint(c, s) PROVE Ends
    BY <2>7 DEF Mint
  <2>8. ASSUME NEW x \in Sids \cup Flows, Expire(x) PROVE Ends
    BY <2>8 DEF Expire
  <2>9. UNCHANGED vars => Ends
    BY DEF vars, worker
  <2>10. QED BY <2>1, <2>2, <2>3, <2>4, <2>5, <2>6, <2>7, <2>8, <2>9 DEF Next
<1>2. QED BY <1>1, PTL DEF Spec, RowsEndInOrder

\* requireSession admits nobody with a session that was signed out: a row that is gone
\* does not come back, since no session is minted twice.
THEOREM LoggedOutStaysOut == Spec => LoggedOutIsOut
<1> DEFINE Out == \A t \in Tabs : tabs[t].stage = "wire" /\ tabs'[t].stage = "admitted"
                                     => tabs[t].cookie \notin loggedOut
<1>1. SessionInv /\ SessionInv' /\ [Next]_vars => [Out]_vars
  <2> SUFFICES ASSUME SessionInv, SessionInv', [Next]_vars PROVE Out
    OBVIOUS
  <2>0. /\ TypeInv /\ tabs \in [Tabs -> Tab]
        /\ \A t \in Tabs : tabs[t] \in Tab /\ TabPhase(tabs[t])
    BY DEF SessionInv, TypeInv, TypeOK
  <2>1. ASSUME NEW t \in Tabs, NEW tab, Become(t, tab), tab.stage # "admitted" PROVE Out
    <3>1. \A u \in Tabs : u # t => tabs'[u] = tabs[u]
      BY <2>0, <2>1 DEF Become
    <3>2. tabs'[t].stage # "admitted"
      BY <2>0, <2>1 DEF Become
    <3>3. QED BY <3>1, <3>2
  <2>2. ASSUME NEW t \in Tabs, NEW tab \in Tab, NEW c, SetCookie(c, t, tab),
               tab.stage = "admitted" => tabs[t].stage = "admitted"
        PROVE  Out
    <3>1. ASSUME NEW u \in Tabs PROVE tabs'[u].stage = "admitted" => tabs[u].stage = "admitted"
      <4> DEFINE now == IF u = t THEN tab ELSE tabs[u]
                 moved == now.moved \/ c # cookie
      <4>1. tabs'[u] = [now EXCEPT !.moved = moved]
        BY <2>2 DEF SetCookie
      <4>2. now \in Tab /\ (now.stage = "admitted" => tabs[u].stage = "admitted")
        BY <2>0, <2>2
      <4> HIDE DEF now, moved
      <4>3. QED BY <4>1, <4>2 DEF Tab
    <3>2. QED BY <3>1
  <2>3. ASSUME NEW t \in Tabs, Resolve(t) PROVE Out
    <3>1. CASE Verdict(tabs[t]) = "admitted"
      <4>1. tabs[t].cookie \in rows
        BY <3>1 DEF Verdict, Live
      <4>2. \A u \in Tabs : u # t => tabs'[u] = tabs[u]
        BY <2>0, <2>3 DEF Resolve, Become
      <4>3. QED BY <4>1, <4>2 DEF SessionInv
    <3>2. CASE Verdict(tabs[t]) # "admitted"
      <4>1. \E reply : Become(t, [tabs[t] EXCEPT !.stage = "replied", !.reply = reply])
        BY <2>3, <3>2 DEF Resolve
      <4>2. \A reply : [tabs[t] EXCEPT !.stage = "replied", !.reply = reply].stage = "replied"
        BY <2>0 DEF Tab
      <4>3. QED BY <2>1, <4>1, <4>2
    <3>3. QED BY <3>1, <3>2
  <2>4. ASSUME NEW t \in Tabs, Execute(t) \/ Destroy(t) \/ Lose(t) PROVE Out
    <3>1. \E reply : Become(t, [tabs[t] EXCEPT !.stage = "replied", !.reply = reply])
      BY <2>4 DEF Execute, Destroy, Lose
    <3>2. \A reply : [tabs[t] EXCEPT !.stage = "replied", !.reply = reply].stage = "replied"
      BY <2>0 DEF Tab
    <3>3. QED BY <2>1, <3>1, <3>2
  <2>5. ASSUME NEW t \in Tabs, Write(t) \/ SignOut(t) PROVE Out
    <3> DEFINE tab(op) == [tabs[t] EXCEPT !.op = op, !.stage = "ready", !.retry = FALSE,
                           !.call = IF @ # op /\ tabs[t].csrf = None THEN "me" ELSE op]
    <3>1. PICK op \in {"write", "logout"} : Become(t, tab(op))
      BY <2>5 DEF Write, SignOut, Start
    <3>2. tab(op).stage = "ready"
      BY <2>0 DEF Tab
    <3> HIDE DEF tab
    <3>3. QED BY <2>1, <3>1, <3>2
  <2>6. ASSUME NEW t \in Tabs, Send(t) PROVE Out
    <3> DEFINE header == IF tabs[t].call = "me" THEN None ELSE tabs[t].csrf
               moved == IF tabs[t].call = "me" THEN FALSE ELSE tabs[t].moved
               tab == [tabs[t] EXCEPT !.stage = "wire", !.cookie = cookie, !.header = header,
                                      !.moved = moved]
    <3>1. Become(t, tab)
      BY <2>6 DEF Send
    <3>2. tab.stage = "wire"
      <4> HIDE DEF header, moved
      <4>1. QED BY <2>0 DEF Tab
    <3> HIDE DEF tab
    <3>3. QED BY <2>1, <3>1, <3>2
  <2>7. ASSUME NEW t \in Tabs, Receive(t) PROVE Out
    <3>1. tabs[t] \in Tab /\ TabPhase(tabs[t]) /\ tabs[t].stage = "replied"
      BY <2>0, <2>7 DEF Receive
    <3>2. \/ tabs[t].call = "logout" /\ SetCookie(None, t, AfterMain(tabs[t]))
          \/ Become(t, IF tabs[t].call = "me" THEN AfterMe(tabs[t]) ELSE AfterMain(tabs[t]))
      BY <2>7 DEF Receive
    <3>3. QED BY <2>1, <2>2, <3>1, <3>2, ReplyTypes, ReplyKeepsFlow
  <2>8. ASSUME NEW t \in Tabs, NEW f \in Flows, Login(t, f) PROVE Out
    <3>1. [Boot EXCEPT !.page = "idp", !.op = "none", !.flow = f].stage = "ready"
      BY DEF Boot
    <3>2. QED BY <2>1, <2>8, <3>1 DEF Login
  <2>9. ASSUME NEW t \in Tabs, NEW c \in Callbacks, Return(t, c) PROVE Out
    <3> DEFINE tab == [tabs[t] EXCEPT !.page = "callback", !.callback = c]
    <3>1. tabs' = [tabs EXCEPT ![t] = tab] /\ tab.stage = tabs[t].stage
      BY <2>0, <2>9 DEF Return, Become, Tab
    <3> HIDE DEF tab
    <3>2. QED BY <2>0, <3>1
  <2>10. ASSUME NEW c \in Callbacks, Answer(c) PROVE Out
    <3>1. CASE \E t \in Tabs : tabs[t].callback = c
      <4>1. PICK t \in Tabs : SetCookie(IF HasCookie(c) THEN callbacks[c].sid ELSE cookie, t,
                                       Landed(c, t))
        BY <2>10, <3>1 DEF Answer
      <4>2. /\ Landed(c, t) \in Tab
            /\ Landed(c, t).stage = "admitted" => tabs[t].stage = "admitted"
        <5>1. Boot.stage = "ready"
          BY DEF Boot
        <5>2. QED BY <2>0, <5>1, LandedTypes
      <4>3. QED BY <2>2, <4>1, <4>2
    <3>2. CASE ~\E t \in Tabs : tabs[t].callback = c
      BY <2>10, <3>2 DEF Answer
    <3>3. QED BY <3>1, <3>2
  <2>11. ASSUME NEW c \in Callbacks,
                Select(c) \/ Delete(c) \/ Exchange(c) \/ Sweep(c) \/ Audit(c) \/ Break(c)
         PROVE  Out
    BY <2>11 DEF Select, Delete, Exchange, Sweep, Audit, Break
  <2>12. ASSUME NEW c \in Callbacks, NEW s \in Sids, Mint(c, s) PROVE Out
    BY <2>12 DEF Mint
  <2>13. ASSUME NEW x \in Sids \cup Flows, Expire(x) PROVE Out
    BY <2>13 DEF Expire
  <2>14. ASSUME NEW t \in Tabs, Open(t) PROVE Out
    <3>1. Boot.stage = "ready"
      BY DEF Boot
    <3>2. QED BY <2>1, <2>14, <3>1 DEF Open
  <2>15. UNCHANGED vars => Out
    BY DEF vars
  <2>16. QED BY <2>3, <2>4, <2>5, <2>6, <2>7, <2>8, <2>9, <2>10, <2>11, <2>12, <2>13, <2>14, <2>15
             DEF Next, Serve
<1>2. QED BY <1>1, InitSession, NextSession, PTL DEF Spec, LoggedOutIsOut

-------------------------------------------------------------------------------
(* A retried write is refused only when the session moved. *)

\* Where a tab stands on the way to a retry, the browser holding session c: a refusal
\* came to a call with another token than its cookie's, and unless the session moved
\* since /api/me was asked, cookie and token of the retry are of the one session c.
Fresh(tab, c) ==
    /\ tab.stage = "replied" /\ tab.reply = "csrf"
          => tab.call # "me" /\ tab.header # tab.cookie
    /\ tab.retry /\ ~tab.moved /\ tab.op # "none" =>
          /\ tab.call = "me" /\ tab.stage # "ready" => tab.cookie = c
          /\ tab.call # "me" /\ tab.stage = "ready" => tab.csrf = c
          /\ tab.call # "me" /\ tab.stage # "ready" => tab.header = tab.cookie

\* The inductive invariant.
FreshInv == TypeInv /\ \A t \in Tabs : Fresh(tabs[t], cookie)

\* A tab takes a new fresh value.
LEMMA BecomeFresh ==
  ASSUME FreshInv, NEW t \in Tabs, NEW tab, Fresh(tab, cookie), Become(t, tab), UNCHANGED cookie
  PROVE  \A u \in Tabs : Fresh(tabs'[u], cookie')
<1>1. tabs' = [tabs EXCEPT ![t] = tab]
  BY DEF Become
<1>2. \A u \in Tabs : tabs'[u] = IF u = t THEN tab ELSE tabs[u]
  BY <1>1 DEF FreshInv, TypeInv, TypeOK
<1>3. QED BY <1>2 DEF FreshInv

\* When the browser's cookie changes, every tab knows that its session moved.
LEMMA SetCookieFresh ==
  ASSUME FreshInv, NEW t \in Tabs, NEW tab \in Tab, Fresh(tab, cookie), NEW c, SetCookie(c, t, tab)
  PROVE  \A u \in Tabs : Fresh(tabs'[u], cookie')
<1> SUFFICES ASSUME NEW u \in Tabs PROVE Fresh(tabs'[u], c)
  BY DEF SetCookie
<1> DEFINE now == IF u = t THEN tab ELSE tabs[u]
           moved == now.moved \/ c # cookie
           new == [now EXCEPT !.moved = moved]
<1>1. now \in Tab /\ Fresh(now, cookie)
  BY DEF FreshInv, TypeInv, TypeOK
<1>2. tabs'[u] = new
  BY DEF SetCookie
<1> HIDE DEF now, moved
<1>3. /\ new.stage = now.stage /\ new.reply = now.reply /\ new.call = now.call
      /\ new.header = now.header /\ new.cookie = now.cookie /\ new.retry = now.retry
      /\ new.op = now.op /\ new.csrf = now.csrf /\ new.moved = moved
  BY <1>1 DEF Tab
<1> HIDE DEF new
<1>4. ~new.moved => ~now.moved /\ c = cookie
  BY <1>3 DEF moved
<1>5. Fresh(new, c)
  BY <1>1, <1>3, <1>4 DEF Fresh
<1>6. QED BY <1>2, <1>5

\* What the client makes of a reply is fresh.
LEMMA ReplyFresh ==
  ASSUME NEW tab \in Tab, TabPhase(tab), NEW c, Fresh(tab, c), tab.stage = "replied"
  PROVE  /\ tab.call # "me" => Fresh(AfterMain(tab), c)
         /\ tab.call = "me" => Fresh(AfterMe(tab), c)
<1> DEFINE fresh == [RetryWithFreshToken(tab) EXCEPT !.moved = FALSE]
           over == [tab EXCEPT !.op = "none", !.stage = "ready",
                               !.page = IF tab.reply = "unauthorized" THEN "signin" ELSE @]
<1>1. fresh.call = "me" /\ fresh.stage = "ready"
  BY DEF RetryWithFreshToken, Tab
<1>2. over.op = "none" /\ over.stage = "ready"
  BY DEF Tab
<1>3. Boot.stage = "ready" /\ ~Boot.retry
  BY DEF Boot
<1>4. AfterMain(tab) \in {fresh, Boot, over}
  BY DEF AfterMain
<1> HIDE DEF fresh, over
<1>5. Fresh(fresh, c) /\ Fresh(over, c) /\ Fresh(Boot, c)
  BY <1>1, <1>2, <1>3 DEF Fresh
<1>6. ASSUME tab.call = "me" PROVE Fresh(AfterMe(tab), c)
  <2> DEFINE csrf == IF tab.reply = "ok" THEN tab.cookie ELSE tab.csrf
             moved == tab.moved \/ tab.reply # "ok"
             known == [tab EXCEPT !.csrf = csrf, !.moved = moved, !.stage = "ready"]
  <2>1. AfterMe(tab) = IF tab.op = "boot"
                       THEN [known EXCEPT !.op = "none",
                                          !.page = IF tab.reply = "ok" THEN "app" ELSE "signin"]
                       ELSE [known EXCEPT !.call = tab.op]
    BY DEF AfterMe
  <2> HIDE DEF csrf, moved
  <2>2. CASE tab.op = "boot"
    <3> DEFINE new == [known EXCEPT !.op = "none",
                                    !.page = IF tab.reply = "ok" THEN "app" ELSE "signin"]
    <3>1. new.op = "none" /\ new.stage = "ready"
      BY DEF Tab
    <3> HIDE DEF new
    <3>2. Fresh(new, c)
      BY <3>1 DEF Fresh
    <3>3. QED BY <2>1, <2>2, <3>2 DEF new
  <2>3. CASE tab.op # "boot"
    <3> DEFINE new == [known EXCEPT !.call = tab.op]
    <3>1. /\ new.stage = "ready" /\ new.csrf = csrf /\ new.moved = moved
          /\ new.retry = tab.retry /\ new.op = tab.op
      BY DEF Tab
    <3> HIDE DEF new
    <3>2. ~moved => ~tab.moved /\ csrf = tab.cookie
      BY DEF csrf, moved
    <3>3. Fresh(new, c)
      BY <1>6, <3>1, <3>2 DEF Fresh
    <3>4. QED BY <2>1, <2>3, <3>3 DEF new
  <2>4. QED BY <2>2, <2>3
<1>7. QED BY <1>4, <1>5, <1>6

\* At the start every tab is fresh.
LEMMA InitFresh == Init => FreshInv
<1>1. Init => \A t \in Tabs : tabs[t] = Boot
  BY DEF Init
<1>2. Fresh(Boot, cookie)
  BY DEF Fresh, Boot
<1>3. QED BY <1>1, <1>2, InitTypes DEF FreshInv

\* And stays so.
LEMMA NextFresh == FreshInv /\ [Next]_vars => FreshInv'
<1> SUFFICES ASSUME FreshInv, [Next]_vars PROVE \A u \in Tabs : Fresh(tabs'[u], cookie')
  BY NextTypes DEF FreshInv
<1>0. \A t \in Tabs : tabs[t] \in Tab /\ TabPhase(tabs[t]) /\ Fresh(tabs[t], cookie)
  BY DEF FreshInv, TypeInv, TypeOK
<1>1. ASSUME NEW t \in Tabs, Write(t) \/ SignOut(t) PROVE \A u \in Tabs : Fresh(tabs'[u], cookie')
  <2> DEFINE tab(op) == [tabs[t] EXCEPT !.op = op, !.stage = "ready", !.retry = FALSE,
                         !.call = IF @ # op /\ tabs[t].csrf = None THEN "me" ELSE op]
  <2>1. PICK op \in {"write", "logout"} : Start(t, op)
    BY <1>1 DEF Write, SignOut
  <2>2. Become(t, tab(op)) /\ UNCHANGED cookie
    BY <2>1 DEF Start
  <2>3. tab(op).stage = "ready" /\ ~tab(op).retry
    BY <1>0 DEF Tab
  <2> HIDE DEF tab
  <2>4. Fresh(tab(op), cookie)
    BY <2>3 DEF Fresh
  <2>5. QED BY <2>2, <2>4, BecomeFresh
<1>2. ASSUME NEW t \in Tabs, Send(t) PROVE \A u \in Tabs : Fresh(tabs'[u], cookie')
  <2> DEFINE header == IF tabs[t].call = "me" THEN None ELSE tabs[t].csrf
             moved == IF tabs[t].call = "me" THEN FALSE ELSE tabs[t].moved
             tab == [tabs[t] EXCEPT !.stage = "wire", !.cookie = cookie, !.header = header,
                                    !.moved = moved]
  <2>1. Become(t, tab) /\ UNCHANGED cookie /\ tabs[t].stage = "ready"
    BY <1>2 DEF Send
  <2> HIDE DEF header, moved
  <2>2. /\ tab.stage = "wire" /\ tab.cookie = cookie /\ tab.header = header /\ tab.moved = moved
        /\ tab.call = tabs[t].call /\ tab.retry = tabs[t].retry /\ tab.op = tabs[t].op
    BY <1>0 DEF Tab
  <2> HIDE DEF tab
  <2>3. tabs[t].call # "me" => header = tabs[t].csrf /\ moved = tabs[t].moved
    BY DEF header, moved
  <2>4. Fresh(tab, cookie)
    BY <1>0, <2>1, <2>2, <2>3 DEF Fresh
  <2>5. QED BY <2>1, <2>4, BecomeFresh
<1>3. ASSUME NEW t \in Tabs, NEW reply, tabs[t].stage # "ready", UNCHANGED cookie,
             Become(t, [tabs[t] EXCEPT !.stage = "replied", !.reply = reply]),
             reply = "csrf" => tabs[t].call # "me" /\ tabs[t].header # tabs[t].cookie
      PROVE  \A u \in Tabs : Fresh(tabs'[u], cookie')
  <2> DEFINE tab == [tabs[t] EXCEPT !.stage = "replied", !.reply = reply]
  <2>1. /\ tab.stage = "replied" /\ tab.reply = reply /\ tab.cookie = tabs[t].cookie
        /\ tab.header = tabs[t].header /\ tab.moved = tabs[t].moved /\ tab.call = tabs[t].call
        /\ tab.retry = tabs[t].retry /\ tab.op = tabs[t].op
    BY <1>0 DEF Tab
  <2>2. Become(t, tab)
    BY <1>3
  <2> HIDE DEF tab
  <2>3. Fresh(tab, cookie)
    BY <1>0, <1>3, <2>1 DEF Fresh
  <2>4. QED BY <1>3, <2>2, <2>3, BecomeFresh
<1>4. ASSUME NEW t \in Tabs, Lose(t) \/ Execute(t) \/ Destroy(t)
      PROVE  \A u \in Tabs : Fresh(tabs'[u], cookie')
  <2>1. PICK reply \in {"network", "ok", "refused"} :
           Become(t, [tabs[t] EXCEPT !.stage = "replied", !.reply = reply])
    BY <1>4 DEF Lose, Execute, Destroy
  <2>2. tabs[t].stage # "ready" /\ UNCHANGED cookie
    BY <1>4 DEF Lose, Execute, Destroy
  <2>3. QED BY <1>3, <2>1, <2>2
<1>5. ASSUME NEW t \in Tabs, Receive(t) PROVE \A u \in Tabs : Fresh(tabs'[u], cookie')
  <2> DEFINE tab == tabs[t]
  <2>1. tab \in Tab /\ TabPhase(tab) /\ Fresh(tab, cookie) /\ tab.stage = "replied"
    BY <1>0, <1>5 DEF Receive
  <2>2. CASE tab.call = "logout" /\ tab.reply = "ok"
    <3>1. SetCookie(None, t, AfterMain(tab))
      BY <1>5, <2>2 DEF Receive
    <3>2. AfterMain(tab) \in Tab /\ Fresh(AfterMain(tab), cookie)
      BY <2>1, <2>2, ReplyTypes, ReplyFresh
    <3>3. QED BY <3>1, <3>2, SetCookieFresh
  <2>3. CASE ~(tab.call = "logout" /\ tab.reply = "ok")
    <3>1. Become(t, IF tab.call = "me" THEN AfterMe(tab) ELSE AfterMain(tab)) /\ UNCHANGED cookie
      BY <1>5, <2>3 DEF Receive
    <3>2. Fresh(IF tab.call = "me" THEN AfterMe(tab) ELSE AfterMain(tab), cookie)
      BY <2>1, ReplyFresh
    <3>3. QED BY <3>1, <3>2, BecomeFresh
  <2>4. QED BY <2>2, <2>3
<1>6. ASSUME NEW t \in Tabs, Resolve(t) PROVE \A u \in Tabs : Fresh(tabs'[u], cookie')
  <2> DEFINE pass == [tabs[t] EXCEPT !.stage = "admitted"]
             verdict == Verdict(tabs[t])
  <2>1. tabs[t].stage = "wire" /\ UNCHANGED cookie
    BY <1>6 DEF Resolve
  <2>2. verdict = "csrf" => tabs[t].call # "me" /\ tabs[t].header # tabs[t].cookie
    BY DEF Verdict
  <2>3. \/ Become(t, pass)
        \/ Become(t, [tabs[t] EXCEPT !.stage = "replied", !.reply = verdict])
        \/ Become(t, [tabs[t] EXCEPT !.stage = "replied", !.reply = "refused"])
    BY <1>6 DEF Resolve
  <2>4. /\ pass.stage = "admitted" /\ pass.cookie = tabs[t].cookie
        /\ pass.header = tabs[t].header /\ pass.moved = tabs[t].moved /\ pass.call = tabs[t].call
        /\ pass.retry = tabs[t].retry /\ pass.op = tabs[t].op
    BY <1>0 DEF Tab
  <2> HIDE DEF pass, verdict
  <2>5. Fresh(pass, cookie)
    BY <1>0, <2>1, <2>4 DEF Fresh
  <2>6. CASE Become(t, pass)
    BY <2>1, <2>5, <2>6, BecomeFresh
  <2>7. CASE Become(t, [tabs[t] EXCEPT !.stage = "replied", !.reply = verdict])
    BY <1>3, <2>1, <2>2, <2>7
  <2>8. CASE Become(t, [tabs[t] EXCEPT !.stage = "replied", !.reply = "refused"])
    BY <1>3, <2>1, <2>8
  <2>9. QED BY <2>3, <2>6, <2>7, <2>8
<1>7. ASSUME NEW t \in Tabs, NEW f \in Flows, Login(t, f)
      PROVE  \A u \in Tabs : Fresh(tabs'[u], cookie')
  <2> DEFINE tab == [Boot EXCEPT !.page = "idp", !.op = "none", !.flow = f]
  <2>1. Become(t, tab) /\ UNCHANGED cookie
    BY <1>7 DEF Login
  <2>2. tab.stage = "ready" /\ tab.op = "none"
    BY DEF Boot
  <2> HIDE DEF tab
  <2>3. Fresh(tab, cookie)
    BY <2>2 DEF Fresh
  <2>4. QED BY <2>1, <2>3, BecomeFresh
<1>8. ASSUME NEW t \in Tabs, NEW c \in Callbacks, Return(t, c)
      PROVE  \A u \in Tabs : Fresh(tabs'[u], cookie')
  <2> DEFINE tab == [tabs[t] EXCEPT !.page = "callback", !.callback = c]
  <2>1. Become(t, tab) /\ UNCHANGED cookie
    BY <1>8 DEF Return
  <2>2. /\ tab.stage = tabs[t].stage /\ tab.reply = tabs[t].reply /\ tab.cookie = tabs[t].cookie
        /\ tab.header = tabs[t].header /\ tab.moved = tabs[t].moved /\ tab.call = tabs[t].call
        /\ tab.retry = tabs[t].retry /\ tab.op = tabs[t].op /\ tab.csrf = tabs[t].csrf
    BY <1>0 DEF Tab
  <2> HIDE DEF tab
  <2>3. Fresh(tab, cookie)
    BY <1>0, <2>2 DEF Fresh
  <2>4. QED BY <2>1, <2>3, BecomeFresh
<1>9. ASSUME NEW c \in Callbacks, Answer(c) PROVE \A u \in Tabs : Fresh(tabs'[u], cookie')
  <2>1. Boot \in Tab /\ Fresh(Boot, cookie)
    BY EmptyTypes DEF Boot, Fresh
  <2>2. CASE \E t \in Tabs : tabs[t].callback = c
    <3>1. PICK t \in Tabs : SetCookie(IF HasCookie(c) THEN callbacks[c].sid ELSE cookie, t,
                                     Landed(c, t))
      BY <1>9, <2>2 DEF Answer
    <3>2. Landed(c, t) \in Tab
      BY <1>0, LandedTypes
    <3>3. Fresh(Landed(c, t), cookie)
      <4>1. CASE Landed(c, t) = Boot
        BY <2>1, <4>1
      <4>2. CASE Landed(c, t) # Boot
        BY <1>0, <4>2, LandedTypes DEF Fresh
      <4>3. QED BY <4>1, <4>2
    <3>4. QED BY <3>1, <3>2, <3>3, SetCookieFresh
  <2>3. CASE ~\E t \in Tabs : tabs[t].callback = c
    BY <1>0, <1>9, <2>3 DEF Answer
  <2>4. QED BY <2>2, <2>3
<1>10. ASSUME UNCHANGED <<tabs, cookie>> PROVE \A u \in Tabs : Fresh(tabs'[u], cookie')
  BY <1>0, <1>10
<1>11. ASSUME NEW c \in Callbacks,
              \/ Select(c) \/ Delete(c) \/ Exchange(c) \/ Sweep(c) \/ Audit(c) \/ Break(c)
              \/ \E s \in Sids : Mint(c, s)
       PROVE  \A u \in Tabs : Fresh(tabs'[u], cookie')
  <2>1. UNCHANGED <<tabs, cookie>>
    BY <1>11 DEF Select, Delete, Exchange, Sweep, Audit, Break, Mint
  <2>2. QED BY <1>10, <2>1
<1>12. ASSUME NEW x \in Sids \cup Flows, Expire(x) PROVE \A u \in Tabs : Fresh(tabs'[u], cookie')
  BY <1>10, <1>12 DEF Expire
<1>13. ASSUME NEW t \in Tabs, Open(t) PROVE \A u \in Tabs : Fresh(tabs'[u], cookie')
  <2>1. Fresh(Boot, cookie)
    BY DEF Boot, Fresh
  <2>2. QED BY <1>13, <2>1, BecomeFresh DEF Open
<1>14. ASSUME UNCHANGED vars PROVE \A u \in Tabs : Fresh(tabs'[u], cookie')
  BY <1>10, <1>14 DEF vars
<1>15. QED BY <1>1, <1>2, <1>4, <1>5, <1>6, <1>7, <1>8, <1>9, <1>11, <1>12, <1>13, <1>14
           DEF Next, Serve

\* RefusedOnlyWhenMoved: a retried write is refused for its token only when the browser's
\* session moved since the retry asked for the token, or /api/me failed.
THEOREM RefusedWhenMoved == Spec => []RefusedOnlyWhenMoved
<1>1. FreshInv => RefusedOnlyWhenMoved
  BY DEF FreshInv, TypeInv, TabPhase, Fresh, RefusedOnlyWhenMoved
<1>2. QED BY <1>1, InitFresh, NextFresh, PTL DEF Spec
===============================================================================
