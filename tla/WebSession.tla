----------------------------- MODULE WebSession -----------------------------
(***************************************************************************)
(* The login session in the tabs of one browser.  The tabs share the       *)
(* HttpOnly refresh cookie and the lock of auth-session.ts; each has its    *)
(* own copy of the modules auth-store.ts, auth-session.ts and               *)
(* http-client.ts, and hears of the others through a BroadcastChannel.      *)
(* The server is reduced to what it answers (controller/auth_session.go):   *)
(* its own sessions are the subject of UserSession.                         *)
(***************************************************************************)
EXTENDS Naturals, Sequences, FiniteSets

CONSTANTS
    Tabs,
    Sids,       \* the session ids the server may still issue
    NoSid,      \* no session
    RaceLimit,  \* length of refreshRaceDelays
    MaxExpiries,\* access tokens that run out in a behaviour
    MaxOps      \* requests, navigations, revocations and faults in a behaviour

ASSUME WebAssumption == NoSid \notin Sids /\ MaxOps \in Nat

VARIABLES
    cookie,     \* session of the refresh cookie, NoSid when there is none
    live,       \* sessions the server accepts
    issued,     \* sessions created so far
    tab,        \* the JavaScript state of each tab
    lockq,      \* Web Lock the-one:auth-refresh: its holder, then those who wait
    chan,       \* events posted to each tab and not yet delivered
    ops,        \* how many of them there were
    aged,       \* how many tokens ran out
    gone,       \* ghost: sessions each tab has signed out of
    torn        \* ghost: an answer has overwritten a newer cookie, or a tab
                \* has ignored an event that came too late

shared == <<cookie, live, issued>>
wvars == <<cookie, live, issued, tab, lockq, chan, ops, aged, gone, torn>>

OptSid == Sids \cup {NoSid}

\* refreshPromise of a tab: where its runner is, whether authEpoch is still
\* the one it began with, the delays used up, whether a mismatch may still be
\* retried, the SID and the cookie sent, and the answer.
NoRef == [at |-> "none", current |-> FALSE, race |-> 0, again |-> TRUE,
          exp |-> NoSid, ck |-> NoSid, ans |-> "none"]

\* One request of http-client.ts: plain, one whose answer rotates the access
\* token, or one of a stream that asks for fresh headers first.
NoReq == [at |-> "none", kind |-> "plain", tok |-> NoSid, ok |-> FALSE, retry |-> FALSE]

\* executeLogout.
NoOut == [at |-> "none", again |-> TRUE, exp |-> NoSid, ok |-> FALSE,
          ck |-> NoSid, ans |-> "none"]

\* A tab whose page begins to load: new module state, no listener yet.
Loading == [sid |-> NoSid, fresh |-> FALSE, boot |-> "idle", page |-> "loading",
            nav |-> FALSE, ref |-> NoRef, req |-> NoReq, out |-> NoOut]

WInit ==
    /\ cookie = NoSid /\ live = {} /\ issued = {}
    /\ tab = [t \in Tabs |-> Loading]
    /\ lockq = <<>>
    /\ chan = [t \in Tabs |-> <<>>]
    /\ ops = 0 /\ aged = 0
    /\ gone = [t \in Tabs |-> {}]
    /\ torn = FALSE

-----------------------------------------------------------------------------
(* auth-store.ts and the functions of auth-session.ts, on a tab's state x. *)

\* authEpoch += 1: isCurrent() of a refresh under way is false from now on.
Bump(x) == [x EXCEPT !.ref.current = FALSE]

Reset(x, b) == [x EXCEPT !.sid = NoSid, !.fresh = FALSE, !.boot = b]

ApplyAuthBundle(x, s) ==
    [Bump(x) EXCEPT !.sid = s, !.fresh = TRUE, !.boot = "complete"]

\* Mutant: the clear forgets to count the epoch.
ClearWithoutEpoch(x) == Reset(x, "complete")

ClearAuthentication(x) == Reset(Bump(x), "complete")

\* refreshAuthentication: join the refresh under way or begin one.
RefreshAuthentication(x) ==
    IF x.ref.at # "none" THEN x
    ELSE [x EXCEPT !.ref = [NoRef EXCEPT !.at = "lock", !.current = TRUE]]

\* The route guards after a navigation: _authenticated and sign-in.
Guarded(x) == [x EXCEPT !.page = IF @ = "loading" \/ x.nav
                                 THEN (IF x.sid = NoSid THEN "sign-in" ELSE "app")
                                 ELSE @,
                        !.nav = FALSE]

\* A logout that succeeded: clearAuthenticatedClientState and the sign-in page.
SignedOut(x) == [ClearAuthentication(x) EXCEPT !.page = "sign-in", !.out = NoOut]

Event(k, s) == IF s = NoSid THEN <<>> ELSE <<[kind |-> k, sid |-> s]>>

\* Mutant: the lock outlives its refresh.
QueueKept(t, y) ==
    IF tab[t].ref.at = "none" /\ y.ref.at # "none" THEN Append(lockq, t) ELSE lockq

\* The queue q without t, who holds the lock, or waits for it and reloads.
Without(q, t) ==
    LET i == CHOOSE i \in 1..Len(q) : q[i] = t
    IN SubSeq(q, 1, i - 1) \o SubSeq(q, i + 1, Len(q))

\* The lock is asked for when a refresh begins and released when it ends.
QueueAfter(t, y) ==
    CASE tab[t].ref.at = "none" /\ y.ref.at # "none" -> Append(lockq, t)
      [] tab[t].ref.at # "none" /\ y.ref.at = "none" -> Without(lockq, t)
      [] OTHER -> lockq

\* The tab t becomes y and posts evs; a page that loads has no listener.
TabStep(t, y, evs, rest) ==
    /\ tab' = [tab EXCEPT ![t] = y]
    /\ lockq' = QueueAfter(t, y)
    /\ chan' = [u \in Tabs |->
                  IF u = t THEN (IF y.page = "loading" THEN <<>> ELSE rest)
                  ELSE IF tab[u].page = "loading" THEN <<>> ELSE chan[u] \o evs]

\* The sessions that tab t leaves for good in this step.
Leaves(t, s) == gone' = [gone EXCEPT ![t] = @ \cup ({s} \ (live \cup {NoSid}))]

\* What users, clocks and the network do is bounded.
Spend == ops < MaxOps /\ ops' = ops + 1

-----------------------------------------------------------------------------
(* What those who await the refresh do with its outcome. *)

\* http-client.ts: a 401 retried with the token of the store, or given up;
\* getFreshAuthHeaders: any token that is still good will do.
RequestAfter(x, o) ==
    CASE x.req.at = "refresh" /\ o = "authenticated" ->
            [x.req EXCEPT !.at = "sent", !.retry = TRUE, !.ok = x.fresh,
                          !.tok = IF x.sid = NoSid THEN @ ELSE x.sid]
      [] x.req.at = "headers" /\ (o = "authenticated" \/ x.fresh) ->
            [x.req EXCEPT !.at = "sent", !.ok = x.fresh, !.tok = x.sid]
      [] x.req.at \notin {"refresh", "headers"} -> x.req
      [] OTHER -> NoReq

\* redirectToSignIn loads the page anew, unless it is the sign-in page.
Redirects(x, o) ==
    x.req.at = "refresh" /\ o \in {"anonymous", "out_of_sync"} /\ x.page # "sign-in"

\* executeLogout: once more as the session the cookie turned out to be,
\* success when there is none, and an error otherwise.
OutAfter(x, o, c) ==
    IF x.out.at # "refresh" THEN x
    ELSE CASE o = "authenticated" ->
                [x EXCEPT !.out = [NoOut EXCEPT !.at = "sent", !.again = FALSE,
                                     !.exp = x.sid, !.ok = x.fresh, !.ck = c]]
           [] o = "anonymous" -> SignedOut(x)
           [] OTHER -> [x EXCEPT !.out = NoOut]

\* The refresh promise settles with outcome o while the cookie is c.
Settled(x, o, c) ==
    IF Redirects(x, o) THEN Loading
    ELSE LET y == [x EXCEPT !.ref = NoRef, !.req = RequestAfter(x, o)]
         IN Guarded(OutAfter(y, o, c))

-----------------------------------------------------------------------------
(* The refresh runner. *)

Sent(x, c) == [x EXCEPT !.ref.at = "sent", !.ref.exp = x.sid, !.ref.ck = c]

\* run(): with the lock held, at first or after a delay.
RefreshRun(t) ==
    LET x == tab[t] IN
    /\ \/ x.ref.at = "lock" /\ Head(lockq) = t
       \/ x.ref.at = "wait"
    /\ TabStep(t, IF x.ref.current THEN Sent(x, cookie) ELSE Settled(x, "transient", cookie),
               <<>>, chan[t])
    /\ UNCHANGED <<shared, ops, aged, gone, torn>>

\* RefreshAuth on the server.  A race is answered when the token was rotated
\* by someone whose successor is not known.
RefreshAuth(t) ==
    LET x == tab[t]
        r == x.ref
        verdict == IF r.ck = NoSid THEN "unauthorized"
                   ELSE IF r.exp # NoSid /\ r.exp # r.ck THEN "mismatch"
                   ELSE IF r.ck \notin live THEN "unauthorized"
                   ELSE "ok"
    IN /\ r.at = "sent"
       /\ \E a \in {verdict} \cup (IF verdict = "ok" THEN {"race"} ELSE {})
                 \cup {"transient", "other"} :
            /\ a # verdict => ops < MaxOps
            /\ ops' = IF a = verdict THEN ops ELSE ops + 1
            /\ tab' = [tab EXCEPT ![t].ref.at = "answered", ![t].ref.ans = a]
       /\ UNCHANGED <<shared, lockq, chan, aged, gone, torn>>

\* Set-Cookie of an answer to a refresh, also when nobody waits for it.
CookieAfter(r) == CASE r.ans = "ok" -> r.ck
                    [] r.ans = "unauthorized" -> NoSid
                    [] OTHER -> cookie

\* A transient failure leaves the session to the next navigation.
Undecided(x) == [x EXCEPT !.boot = "idle"]

\* isCurrent() after the await.
Superseded(x) == ~x.ref.current

\* What the runner makes of the answer.
Received(x, c) ==
    IF Superseded(x) THEN Settled(x, "transient", c)
    ELSE
    CASE x.ref.ans = "ok" -> Settled(ApplyAuthBundle(x, x.ref.ck), "authenticated", c)
      [] x.ref.ans = "race" /\ x.ref.race < RaceLimit ->
            [x EXCEPT !.ref.at = "wait", !.ref.race = @ + 1, !.ref.ans = "none"]
      [] x.ref.ans = "mismatch" /\ x.ref.again ->
            Sent([Reset(x, "idle") EXCEPT !.ref = [NoRef EXCEPT !.current = TRUE, !.again = FALSE]], c)
      [] x.ref.ans = "unauthorized" -> Settled(ClearAuthentication(x), "anonymous", c)
      [] x.ref.ans = "transient" -> Settled(Undecided(x), "transient", c)
      [] OTHER -> Settled(ClearAuthentication(x), "out_of_sync", c)

RefreshReceive(t) ==
    LET x == tab[t]
        c == CookieAfter(x.ref)
        out == x.ref.current /\ x.ref.ans = "unauthorized"
    IN /\ x.ref.at = "answered"
       /\ cookie' = c
       /\ torn' = (torn \/ (c # cookie /\ cookie # x.ref.ck))
       /\ TabStep(t, Received(x, c), IF out THEN Event("signed_out", x.sid) ELSE <<>>, chan[t])
       /\ IF out THEN Leaves(t, x.sid) ELSE UNCHANGED gone
       /\ UNCHANGED <<live, issued, ops, aged>>

-----------------------------------------------------------------------------
(* What happens in a tab. *)

\* beforeLoad of the root route: bootstrapAuthentication, then the guards.
Navigate(t) ==
    LET x == tab[t] IN
    /\ ~x.nav
    /\ IF x.page = "loading" THEN UNCHANGED ops ELSE Spend
    /\ TabStep(t,
         IF x.sid # NoSid /\ x.fresh
           THEN Guarded([x EXCEPT !.boot = "complete", !.nav = TRUE])
           ELSE IF x.boot = "complete" /\ x.sid = NoSid
             THEN Guarded([x EXCEPT !.nav = TRUE])
             ELSE RefreshAuthentication([x EXCEPT !.boot = "checking", !.nav = TRUE]),
         <<>>, chan[t])
    /\ UNCHANGED <<shared, aged, gone, torn>>

\* The user signs in: handleLoginSuccess.
Login(t) ==
    LET x == tab[t] IN
    /\ x.page = "sign-in"
    /\ \E s \in Sids \ issued :
         /\ issued' = issued \cup {s}
         /\ live' = live \cup {s}
         /\ cookie' = s
         /\ TabStep(t, [ApplyAuthBundle(x, s) EXCEPT !.page = "app"],
                    Event("authenticated", s), chan[t])
    /\ UNCHANGED <<ops, aged, gone, torn>>

\* The access token runs out.
Expire(t) ==
    /\ tab[t].fresh /\ aged < MaxExpiries
    /\ aged' = aged + 1
    /\ tab' = [tab EXCEPT ![t].fresh = FALSE]
    /\ UNCHANGED <<shared, lockq, chan, ops, gone, torn>>

\* api.request or, for a stream, getFreshAuthHeaders.
ApiSend(t) ==
    LET x == tab[t] IN
    /\ x.page = "app" /\ x.sid # NoSid /\ x.req.at = "none"
    /\ Spend
    /\ \E k \in {"plain", "rotate", "stream"} :
         LET q == [NoReq EXCEPT !.at = "sent", !.kind = k, !.tok = x.sid, !.ok = x.fresh]
         IN TabStep(t, IF k = "stream" /\ ~x.fresh
                       THEN RefreshAuthentication([x EXCEPT !.req = [q EXCEPT !.at = "headers"]])
                       ELSE [x EXCEPT !.req = q],
                    <<>>, chan[t])
    /\ UNCHANGED <<shared, aged, gone, torn>>

\* The server accepts the token or answers 401.
ApiServe(t) ==
    /\ tab[t].req.at = "sent"
    /\ tab' = [tab EXCEPT ![t].req.at = "answered",
                          ![t].req.ok = @ /\ tab[t].req.tok \in live]
    /\ UNCHANGED <<shared, lockq, chan, ops, aged, gone, torn>>

\* The response interceptors.  A rotation applies to the session it was
\* asked for; a first 401 refreshes; the 401 of a retry gives up for this
\* tab alone.  Streams are read by their own callers.
ApiReceive(t) ==
    LET x == tab[t]
        q == x.req
        done == [x EXCEPT !.req = NoReq]
    IN /\ q.at = "answered"
       /\ TabStep(t,
            CASE q.ok \/ q.kind = "stream" ->
                    IF q.ok /\ q.kind = "rotate" /\ x.sid # NoSid /\ q.tok = x.sid
                    THEN ApplyAuthBundle(done, x.sid) ELSE done
              [] ~q.ok /\ q.kind # "stream" /\ ~q.retry ->
                    RefreshAuthentication([x EXCEPT !.req.at = "refresh"])
              [] OTHER -> IF x.page = "sign-in" THEN ClearAuthentication(done) ELSE Loading,
            <<>>, chan[t])
       /\ UNCHANGED <<shared, ops, aged, gone, torn>>

\* The sign-out dialog.
Logout(t) ==
    LET x == tab[t] IN
    /\ x.page = "app" /\ x.sid # NoSid /\ x.out.at = "none"
    /\ Spend
    /\ tab' = [tab EXCEPT ![t].out = [NoOut EXCEPT !.at = "sent", !.exp = x.sid,
                                                   !.ok = x.fresh, !.ck = cookie]]
    /\ UNCHANGED <<shared, lockq, chan, aged, gone, torn>>

\* AuthLogout on the server, by the bearer token when it is valid and by the
\* cookie otherwise.  "ok" clears the cookie, "kept" leaves it; it may also fail
\* after the session was revoked.
AuthLogout(t) ==
    LET o == tab[t].out
        a == CASE o.ck # NoSid /\ o.ck # o.exp -> "mismatch"
               [] o.ok /\ o.ck = NoSid -> "kept"
               [] OTHER -> "ok"
        left == IF a = "mismatch" THEN live ELSE live \ (IF o.ok THEN {o.exp} ELSE {o.ck})
    IN /\ o.at = "sent"
       /\ \/ /\ tab' = [tab EXCEPT ![t].out.at = "answered", ![t].out.ans = a]
             /\ live' = left
             /\ UNCHANGED ops
          \/ /\ Spend
             /\ tab' = [tab EXCEPT ![t].out.at = "answered", ![t].out.ans = "transient"]
             /\ live' \in {live, left}
       /\ UNCHANGED <<cookie, issued, lockq, chan, aged, gone, torn>>

LogoutReceive(t) ==
    LET x == tab[t]
        a == x.out.ans
        won == a \in {"ok", "kept"}
    IN /\ x.out.at = "answered"
       /\ cookie' = IF a = "ok" THEN NoSid ELSE cookie
       /\ torn' = (torn \/ (a = "ok" /\ cookie \notin {NoSid, x.out.ck}))
       /\ TabStep(t, CASE won -> SignedOut(x)
                       [] a = "mismatch" /\ x.out.again ->
                             RefreshAuthentication([x EXCEPT !.out.at = "refresh"])
                       [] OTHER -> [x EXCEPT !.out = NoOut],
                  IF won THEN Event("signed_out", x.sid) ELSE <<>>, chan[t])
       /\ IF won THEN Leaves(t, x.sid) ELSE UNCHANGED gone
       /\ UNCHANGED <<live, issued, ops, aged>>

\* Mutant: a tab that is signed in ignores the login of another session.
OtherSessionIfSignedOut(x, e) == x.sid = NoSid

OtherSession(x, e) == e.sid # x.sid

\* The listener of the root component: another session has begun, so the
\* page is loaded again; the session has ended, so the tab forgets it.
Heard(x, e) ==
    CASE e.kind = "authenticated" /\ OtherSession(x, e) -> Loading
      [] e.kind = "signed_out" /\ e.sid = x.sid ->
            [ClearAuthentication(x) EXCEPT !.page = "sign-in"]
      [] OTHER -> x

Deliver(t) ==
    LET x == tab[t]
        e == Head(chan[t])
    IN /\ chan[t] # <<>>
       /\ TabStep(t, Heard(x, e), <<>>, Tail(chan[t]))
       /\ IF e.kind = "signed_out" /\ e.sid = x.sid THEN Leaves(t, x.sid) ELSE UNCHANGED gone
       /\ UNCHANGED <<shared, ops, aged, torn>>

\* A tab that was suspended ignores events older than a minute.
DeliverLate(t) ==
    /\ chan[t] # <<>> /\ Spend
    /\ chan' = [chan EXCEPT ![t] = Tail(@)]
    /\ torn' = TRUE
    /\ UNCHANGED <<shared, tab, lockq, aged, gone>>

\* The session is ended from another device.
Revoke(s) ==
    /\ s \in live
    /\ Spend
    /\ live' = live \ {s}
    /\ UNCHANGED <<cookie, issued, tab, lockq, chan, aged, gone, torn>>

WNext ==
    \/ \E t \in Tabs :
         \/ RefreshRun(t) \/ RefreshAuth(t) \/ RefreshReceive(t)
         \/ Navigate(t) \/ Login(t) \/ Expire(t)
         \/ ApiSend(t) \/ ApiServe(t) \/ ApiReceive(t)
         \/ Logout(t) \/ AuthLogout(t) \/ LogoutReceive(t)
         \/ Deliver(t) \/ DeliverLate(t)
    \/ \E s \in Sids : Revoke(s)

\* The browser goes on: locks are granted in turn, timers fire, requests are
\* answered or fail, and promise jobs run.
WFairness ==
    \A t \in Tabs :
        /\ WF_wvars(RefreshRun(t) \/ RefreshAuth(t) \/ RefreshReceive(t))
        /\ WF_wvars(ApiServe(t) \/ ApiReceive(t))
        /\ WF_wvars(AuthLogout(t) \/ LogoutReceive(t))

WSpec == WInit /\ [][WNext]_wvars /\ WFairness

-----------------------------------------------------------------------------
(* Properties. *)

\* Types; a tab is in the queue of the Web Lock once, and only while it has a
\* refresh under way, so whoever ends one lets the lock go (refreshAuthentication).
WebTypeOK ==
    /\ cookie \in OptSid /\ live \subseteq issued /\ issued \subseteq Sids
    /\ \A t \in Tabs :
         LET x == tab[t] IN
         /\ {x.sid, x.ref.exp, x.ref.ck, x.req.tok, x.out.exp, x.out.ck} \subseteq OptSid
         /\ x.boot \in {"idle", "checking", "complete"}
         /\ x.page \in {"loading", "sign-in", "app"}
         /\ x.ref.at \in {"none", "lock", "sent", "answered", "wait"}
         /\ x.req.at \in {"none", "headers", "sent", "answered", "refresh"}
         /\ x.out.at \in {"none", "sent", "answered", "refresh"}
    /\ \A t \in Tabs :
         Cardinality({i \in DOMAIN lockq : lockq[i] = t}) = IF tab[t].ref.at = "none" THEN 0 ELSE 1
    /\ ops \in 0..MaxOps

\* Two tabs that are signed in and have no event on its way are in the same
\* session, whatever refreshes and requests run, unless an answer to a refresh
\* has overwritten the cookie of a newer login or a tab slept through an event
\* (auth-session-sync.ts and the retry of a session mismatch).
TabsAgree ==
    ~torn => \A t, u \in Tabs :
        (chan[t] = <<>> /\ chan[u] = <<>>)
            => tab[t].sid = tab[u].sid \/ NoSid \in {tab[t].sid, tab[u].sid}

\* A tab never returns to a session that it has seen end: the answer to a
\* refresh that was under way when it signed out comes too late to undo that
\* (authEpoch in auth-session.ts).
SignedOutStays == \A t \in Tabs : tab[t].sid \notin gone[t]

Busy(t) == tab[t].ref.at # "none" \/ tab[t].req.at # "none" \/ tab[t].out.at # "none"

\* A tab does not wait for ever: its refresh, its request and its sign-out come
\* to an end, although they wait for the lock, for each other and for a refresh
\* that they share.
CallsSettle == \A t \in Tabs : Busy(t) ~> ~Busy(t)
=============================================================================
