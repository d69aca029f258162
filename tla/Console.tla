------------------------------- MODULE Console -------------------------------
(***************************************************************************)
(* The web console, agent/web/app.js, against the agent: how the page gets *)
(* and loses its token and its view, and how it keeps what it shows up to  *)
(* date. On the side of the agent, the checks of the token in              *)
(* agent/http.go.                                                          *)
(*                                                                         *)
(* The page runs one piece of JavaScript at a time, but any number of its  *)
(* functions may wait for an answer: a refresh by the timer, one after an  *)
(* action, a login. Requests are served and answered in any order, and any *)
(* may fail. All share the variable token, which the timer looks at, each  *)
(* request carries as it is when it is sent, and a 401 clears.             *)
(*                                                                         *)
(* The token of the agent changes when its configuration is made anew. The *)
(* browser is external.                                                    *)
(***************************************************************************)
EXTENDS Naturals

CONSTANTS
    Flow,        \* bound: functions of the page that may wait at once
    Tokens,      \* the tokens that the agent may have
    First,       \* the one that it has at first
    MaxVersion,  \* bound: states of the PC that /api/status tells apart
    MaxChanges,  \* bound: changes of the agent's token
    MaxLoads     \* bound: times the page is loaded again

ASSUME TokensAssumption == First \in Tokens /\ "" \notin Tokens
ASSUME BoundAssumption == {MaxVersion, MaxChanges, MaxLoads} \subseteq Nat

VARIABLES
    srv,      \* cfg.Token
    changes,  \* auxiliary: changes of it so far
    truth,    \* the state of the PC
    token,    \* the variable token of app.js
    stored,   \* the token in sessionStorage
    cookie,   \* agent_token
    view,     \* what the page shows: the login form or the application
    timer,    \* whether this page has set the interval timer
    shown,    \* the state of the PC that the page shows, 0 before it has any
    flow,     \* what each waiting function waits for, and the answer
    loads     \* auxiliary: loads so far

vars == <<srv, changes, truth, token, stored, cookie, view, timer, shown, flow,
          loads>>
agent == <<srv, changes, truth>>
session == <<token, stored, cookie>>
page == <<view, timer, loads>>

\* What a function waits for. An error of one that is strict shows the login.
Versions == 1..MaxVersion
Waiting == [step : {"login", "action", "status", "connections"},
            strict : BOOLEAN, cred : Tokens \cup {""},
            reply : {"none", "ok", "refused", "failed"}, data : 0..MaxVersion]
NoFlow == [step |-> "none", strict |-> FALSE, cred |-> "", reply |-> "none",
           data |-> 0]

Init ==
    /\ srv = First
    /\ changes = 0
    /\ truth = 1
    /\ token = ""
    /\ stored = ""
    /\ cookie = ""
    /\ view = "login"
    /\ timer = FALSE
    /\ shown = 0
    /\ flow = [f \in Flow |-> NoFlow]
    /\ loads = 0

(***************************************************************************)
(* Requests: api                                                           *)
(***************************************************************************)
\* requestToken: the header with the page's token, and without one the cookie.
Credentials(t) == IF t # "" THEN t ELSE cookie

Sent(step, strict, t) ==
    [step |-> step, strict |-> strict, cred |-> Credentials(t),
     reply |-> "none", data |-> 0]

Send(f, step, strict) ==
    flow' = [flow EXCEPT ![f] = Sent(step, strict, token)]

\* The page is loaded, in the same tab.
Load ==
    /\ loads < MaxLoads
    /\ loads' = loads + 1
    /\ token' = stored
    /\ view' = "login"
    /\ timer' = (stored # "")
    /\ shown' = 0
    /\ IF stored # ""
       THEN \E f \in Flow :
                flow' = [g \in Flow |-> IF g = f THEN Sent("status", TRUE, stored)
                                                 ELSE NoFlow]
       ELSE flow' = [g \in Flow |-> NoFlow]
    /\ UNCHANGED <<agent, stored, cookie>>

\* Variant: the timer refreshes a page that is hidden.
TimerRefreshesHidden == timer /\ token # "" /\ view # "app"

TimerRefreshes == timer /\ token # "" /\ view = "app"

Tick(f) ==
    /\ TimerRefreshes
    /\ flow[f] = NoFlow
    /\ Send(f, "status", FALSE)
    /\ UNCHANGED <<agent, session, page, shown>>

\* A button of the application.
Click(f) ==
    /\ view = "app"
    /\ flow[f] = NoFlow
    /\ Send(f, "action", FALSE)
    /\ UNCHANGED <<agent, session, page, shown>>

\* The login form, as often as one likes.
Submit(f, t) ==
    /\ view = "login"
    /\ flow[f] = NoFlow
    /\ token' = t
    /\ flow' = [flow EXCEPT ![f] = Sent("login", TRUE, t)]
    /\ UNCHANGED <<agent, stored, cookie, page, shown>>

(***************************************************************************)
(* The agent: tokenOK, requireAuth, handleLogin, and everything else       *)
(***************************************************************************)
Replies(f, reply, data) ==
    /\ flow[f] # NoFlow
    /\ flow[f].reply = "none"
    /\ flow' = [flow EXCEPT ![f].reply = reply, ![f].data = data]
    /\ UNCHANGED <<agent, session, page, shown>>

TokenOK(t) == t # "" /\ t = srv

Serve(f) ==
    IF TokenOK(flow[f].cred)
    THEN Replies(f, "ok", IF flow[f].step = "status" THEN truth ELSE 0)
    ELSE Replies(f, "refused", 0)

ServeStatus(f) == flow[f].step = "status" /\ Serve(f)

\* A status other than 200 and 401, or none.
Fail(f) == Replies(f, "failed", 0)

ChangeToken ==
    /\ changes < MaxChanges
    /\ changes' = changes + 1
    /\ srv' \in Tokens \ {srv}
    /\ UNCHANGED <<truth, session, page, shown, flow>>

ChangeTruth ==
    /\ truth < MaxVersion
    /\ truth' = truth + 1
    /\ UNCHANGED <<srv, changes, session, page, shown, flow>>

(***************************************************************************)
(* Answers                                                                 *)
(***************************************************************************)
Got(f, step, reply) == flow[f].step = step /\ flow[f].reply = reply
Done(f) == flow' = [flow EXCEPT ![f] = NoFlow]

\* Variant: a 401 is dropped where other errors are.
LocksIfStrict(f) ==
    IF flow[f].strict
    THEN token' = "" /\ stored' = "" /\ view' = "login"
    ELSE UNCHANGED <<token, stored, view>>

Locks(f) == token' = "" /\ stored' = "" /\ view' = "login"

\* Whoever asked, and with whatever token: the one of now is cleared.
Refused(f) ==
    /\ flow[f].reply = "refused"
    /\ Locks(f)
    /\ Done(f)
    /\ UNCHANGED <<agent, cookie, timer, loads, shown>>

Failed(f) ==
    /\ flow[f].reply = "failed"
    /\ view' = IF flow[f].strict THEN "login" ELSE view
    /\ Done(f)
    /\ UNCHANGED <<agent, session, timer, loads, shown>>

\* Variant: a login is not followed by a refresh.
ThenNothing(f) == Done(f)

Then(f) == Send(f, "status", flow[f].strict)

\* What is stored is the token of now, not the one that was accepted.
LoggedIn(f) ==
    /\ Got(f, "login", "ok")
    /\ cookie' = flow[f].cred
    /\ stored' = token
    /\ Then(f)
    /\ UNCHANGED <<agent, token, page, shown>>

\* The buttons for a reboot and for one packet do not refresh the page.
Acted(f) ==
    /\ Got(f, "action", "ok")
    /\ Then(f) \/ Done(f)
    /\ UNCHANGED <<agent, session, page, shown>>

ShowStatus(f) ==
    /\ Got(f, "status", "ok")
    /\ view' = "app"
    /\ shown' = flow[f].data
    /\ Send(f, "connections", FALSE)
    /\ UNCHANGED <<agent, session, timer, loads>>

ShowConnections(f) ==
    /\ Got(f, "connections", "ok")
    /\ Done(f)
    /\ UNCHANGED <<agent, session, page, shown>>

Arrive(f) ==
    \/ Refused(f) \/ Failed(f)
    \/ LoggedIn(f) \/ Acted(f) \/ ShowStatus(f) \/ ShowConnections(f)

Next ==
    \/ Load
    \/ ChangeToken \/ ChangeTruth
    \/ \E f \in Flow :
        \/ Tick(f) \/ Click(f) \/ \E t \in Tokens : Submit(f, t)
        \/ Serve(f) \/ Fail(f)
        \/ Arrive(f)

\* The timer fires, again and again (SF, because the bound Flow may keep it from
\* it for a while), every request ends and is dealt with, and those for the
\* status do not fail for ever.
FairSpec ==
    /\ Init /\ [][Next]_vars
    /\ SF_vars(\E f \in Flow : Tick(f))
    /\ \A f \in Flow : WF_vars(Serve(f) \/ Fail(f) \/ Arrive(f))
    /\ \A f \in Flow : SF_vars(ServeStatus(f))

(***************************************************************************)
(* Properties                                                              *)
(***************************************************************************)
\* Every variable keeps its type; only an accepted token becomes the cookie,
\* and no answer is of a state still to come.
TypeOK ==
    /\ srv \in Tokens /\ changes \in 0..MaxChanges
    /\ truth \in Versions /\ shown \in 0..truth
    /\ {token, stored, cookie} \subseteq Tokens \cup {""}
    /\ changes = 0 => cookie \in {"", srv}
    /\ view \in {"login", "app"} /\ timer \in BOOLEAN
    /\ flow \in [Flow -> Waiting \cup {NoFlow}]
    /\ \A f \in Flow : flow[f].data <= truth
    /\ view = "app" => shown # 0
    /\ loads \in 0..MaxLoads

\* Refreshes overlap and an older answer may arrive last and be shown over a
\* newer one. But a page that stays unlocked, and has its timer, comes to show
\* the state of the PC for good once that no longer changes.
SettlesOnTruth ==
    <>[](timer /\ view = "app" /\ token = srv) => <>[](shown = truth)

\* A page whose token the agent no longer takes does not show the application
\* for ever, provided that it has its timer.
OldTokenLeaves ==
    (timer /\ view = "app" /\ token \notin {"", srv})
        ~> (view = "login" \/ token \in {"", srv})

\* Whoever logs in with the right token gets to the application, whatever else
\* is under way, unless a request fails or is refused: a refusal of an older
\* request throws out the new session as well.
LoginLeadsIn ==
    \A f \in Flow :
        (Got(f, "login", "none") /\ flow[f].cred = srv /\ loads = MaxLoads)
            ~> (view = "app" \/ \E g \in Flow : flow[g].reply \in {"refused", "failed"})
=============================================================================
