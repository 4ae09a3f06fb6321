-------------------------- MODULE WebSessionProofs --------------------------
(***************************************************************************)
(* Proofs about WebSession, for any number of tabs, sessions, requests and *)
(* faults: a tab does not return to a session it has left, the tabs agree  *)
(* on the session, and the lock's queue is that of the refreshes.          *)
(***************************************************************************)
EXTENDS WebSession, FiniteSetTheorems, SequenceTheorems, TLAPS

\* The shape of a tab's state.
RefAts == {"none", "lock", "sent", "answered", "wait"}
ReqAts == {"none", "headers", "sent", "answered", "refresh"}
OutAts == {"none", "sent", "answered", "refresh"}
Answers == {"none", "ok", "race", "unauthorized", "mismatch", "transient", "other", "kept"}
Kinds == {"plain", "rotate", "stream"}
Boots == {"idle", "checking", "complete"}
Pages == {"loading", "sign-in", "app"}
Refs == [at : RefAts, current : BOOLEAN, race : Nat, again : BOOLEAN, exp : OptSid, ck : OptSid, ans : Answers]
Reqs == [at : ReqAts, kind : Kinds, tok : OptSid, ok : BOOLEAN, retry : BOOLEAN]
Outs == [at : OutAts, again : BOOLEAN, exp : OptSid, ok : BOOLEAN, ck : OptSid, ans : Answers]
States == [sid : OptSid, fresh : BOOLEAN, boot : Boots, page : Pages, nav : BOOLEAN,
           ref : Refs, req : Reqs, out : Outs]

\* A tab is in a session that was issued and that it has not left, and a refresh
\* that still counts has been answered for such a session only.
Fine(x, left, all) ==
    /\ x.sid \in all \cup {NoSid} /\ x.sid \notin left
    /\ x.ref.ans = "ok" => x.ref.at = "answered"
    /\ x.ref.ans = "ok" /\ x.ref.current => x.ref.ck \in all /\ x.ref.ck \notin left

IInv ==
    /\ live \subseteq issued /\ issued \subseteq Sids /\ cookie \in OptSid
    /\ tab \in [Tabs -> States] /\ gone \in [Tabs -> SUBSET issued]
    /\ \A t \in Tabs : gone[t] \cap (live \cup {NoSid}) = {} /\ Fine(tab[t], gone[t], issued)

-----------------------------------------------------------------------------
(* The operators on a tab's state. *)

LEMMA Names ==
    /\ NoSid \in OptSid
    /\ "none" \in RefAts /\ "lock" \in RefAts /\ "sent" \in RefAts /\ "answered" \in RefAts /\ "wait" \in RefAts
    /\ "none" \in ReqAts /\ "headers" \in ReqAts /\ "sent" \in ReqAts /\ "answered" \in ReqAts /\ "refresh" \in ReqAts
    /\ "none" \in OutAts /\ "sent" \in OutAts /\ "answered" \in OutAts /\ "refresh" \in OutAts
    /\ "none" \in Answers /\ Kinds = {"plain", "rotate", "stream"} /\ "plain" \in Kinds
    /\ "idle" \in Boots /\ "checking" \in Boots /\ "complete" \in Boots
    /\ "loading" \in Pages /\ "sign-in" \in Pages /\ "app" \in Pages
BY DEF OptSid, RefAts, ReqAts, OutAts, Answers, Kinds, Boots, Pages

LEMMA NoneType ==
    /\ NoRef \in Refs /\ NoReq \in Reqs /\ NoOut \in Outs /\ NoRef.ans = "none" /\ NoRef.at = "none"
<1>1. NoRef \in Refs
  BY Names DEF NoRef, Refs
<1>2. NoReq \in Reqs
  BY Names DEF NoReq, Reqs
<1>3. NoOut \in Outs
  BY Names DEF NoOut, Outs
<1>4. NoRef.ans = "none" /\ NoRef.at = "none"
  BY DEF NoRef
<1> QED BY <1>1, <1>2, <1>3, <1>4

LEMMA LoadingIs == Loading \in States /\ Loading.sid = NoSid /\ Loading.ref.ans = "none"
BY Names, NoneType DEF Loading, States

LEMMA BumpIs ==
    ASSUME NEW x \in States
    PROVE  Bump(x) \in States /\ Bump(x).sid = x.sid /\ Bump(x).ref.current = FALSE /\ Bump(x).ref.ans = x.ref.ans
           /\ Bump(x).ref.at = x.ref.at
BY DEF Bump, States, Refs

LEMMA ResetIs ==
    ASSUME NEW x \in States, NEW b \in Boots
    PROVE  Reset(x, b) \in States /\ Reset(x, b).sid = NoSid /\ Reset(x, b).ref = x.ref
BY Names DEF Reset, States

LEMMA ApplyIs ==
    ASSUME NEW x \in States, NEW s \in OptSid
    PROVE  LET y == ApplyAuthBundle(x, s) IN
           y \in States /\ y.sid = s /\ y.ref.current = FALSE /\ y.ref.ans = x.ref.ans /\ y.ref.at = x.ref.at
<1> DEFINE z == Bump(x)
<1>1. z \in States /\ z.ref.current = FALSE /\ z.ref.ans = x.ref.ans /\ z.ref.at = x.ref.at
  BY BumpIs
<1>2. ApplyAuthBundle(x, s) = [z EXCEPT !.sid = s, !.fresh = TRUE, !.boot = "complete"]
  BY DEF ApplyAuthBundle
<1> HIDE DEF z
<1> QED BY <1>1, <1>2, Names DEF States

LEMMA ClearIs ==
    ASSUME NEW x \in States
    PROVE  LET y == ClearAuthentication(x) IN
           y \in States /\ y.sid = NoSid /\ y.ref.current = FALSE /\ y.ref.ans = x.ref.ans /\ y.ref.at = x.ref.at
BY Names, BumpIs, ResetIs DEF ClearAuthentication

LEMMA RefreshIs ==
    ASSUME NEW x \in States
    PROVE  LET y == RefreshAuthentication(x) IN
           y \in States /\ y.sid = x.sid /\ (y.ref = x.ref \/ y.ref.ans = "none")
<1> DEFINE r == [NoRef EXCEPT !.at = "lock", !.current = TRUE]
<1>1. r \in Refs /\ r.ans = "none"
  BY Names, NoneType DEF Refs
<1> HIDE DEF r
<1>2. RefreshAuthentication(x) = x \/ RefreshAuthentication(x) = [x EXCEPT !.ref = r]
  BY DEF RefreshAuthentication, r
<1> QED BY <1>1, <1>2, Names DEF States

LEMMA GuardedIs ==
    ASSUME NEW x \in States
    PROVE  Guarded(x) \in States /\ Guarded(x).sid = x.sid /\ Guarded(x).ref = x.ref
BY Names DEF Guarded, States

LEMMA SignedOutIs ==
    ASSUME NEW x \in States
    PROVE  LET y == SignedOut(x) IN
           y \in States /\ y.sid = NoSid /\ y.ref.current = FALSE /\ y.ref.ans = x.ref.ans /\ y.ref.at = x.ref.at
<1> DEFINE z == ClearAuthentication(x)
<1>1. z \in States /\ z.sid = NoSid /\ z.ref.current = FALSE /\ z.ref.ans = x.ref.ans /\ z.ref.at = x.ref.at
  BY ClearIs
<1>2. SignedOut(x) = [z EXCEPT !.page = "sign-in", !.out = NoOut]
  BY DEF SignedOut
<1> HIDE DEF z
<1> QED BY <1>1, <1>2, Names, NoneType DEF States

LEMMA RequestAfterType == ASSUME NEW x \in States, NEW o PROVE RequestAfter(x, o) \in Reqs
<1>1. x.req \in Reqs /\ x.fresh \in BOOLEAN /\ x.sid \in OptSid
  BY DEF States
<1>2. [x.req EXCEPT !.at = "sent", !.retry = TRUE, !.ok = x.fresh, !.tok = IF x.sid = NoSid THEN @ ELSE x.sid] \in Reqs
  BY <1>1, Names DEF Reqs
<1>3. [x.req EXCEPT !.at = "sent", !.ok = x.fresh, !.tok = x.sid] \in Reqs
  BY <1>1, Names DEF Reqs
<1> QED BY <1>1, <1>2, <1>3, NoneType DEF RequestAfter

LEMMA OutAfterIs ==
    ASSUME NEW x \in States, NEW o, NEW c \in OptSid
    PROVE  LET y == OutAfter(x, o, c) IN
           /\ y \in States /\ y.sid \in {x.sid, NoSid} /\ y.ref.ans = x.ref.ans
<1> DEFINE r == [NoOut EXCEPT !.at = "sent", !.again = FALSE, !.exp = x.sid, !.ok = x.fresh, !.ck = c]
<1>1. r \in Outs
  <2>1. x.sid \in OptSid /\ x.fresh \in BOOLEAN
    BY DEF States
  <2> QED BY <2>1, Names, NoneType DEF Outs
<1> HIDE DEF r
<1>2. OutAfter(x, o, c) \in {x, [x EXCEPT !.out = r], SignedOut(x), [x EXCEPT !.out = NoOut]}
  BY DEF OutAfter, r
<1>3. ASSUME NEW q \in Outs PROVE [x EXCEPT !.out = q] \in States /\ [x EXCEPT !.out = q].sid = x.sid /\ [x EXCEPT !.out = q].ref = x.ref
  BY DEF States
<1> QED BY <1>1, <1>2, <1>3, SignedOutIs, NoneType

\* Whoever awaited a refresh leaves the tab in its session or signed out.
LEMMA SettledIs ==
    ASSUME NEW x \in States, NEW o, NEW c \in OptSid
    PROVE  LET y == Settled(x, o, c) IN
           y \in States /\ y.sid \in {x.sid, NoSid} /\ y.ref.ans = "none"
<1> DEFINE z == [x EXCEPT !.ref = NoRef, !.req = RequestAfter(x, o)]
<1>1. z \in States /\ z.sid = x.sid /\ z.ref = NoRef
  BY NoneType, RequestAfterType DEF States
<1>2. Settled(x, o, c) = IF Redirects(x, o) THEN Loading ELSE Guarded(OutAfter(z, o, c))
  BY DEF Settled
<1> HIDE DEF z
<1>3. OutAfter(z, o, c) \in States /\ OutAfter(z, o, c).sid \in {x.sid, NoSid} /\ OutAfter(z, o, c).ref.ans = "none"
  BY <1>1, OutAfterIs, NoneType
<1> QED BY <1>2, <1>3, GuardedIs, LoadingIs

LEMMA SentIs ==
    ASSUME NEW x \in States, NEW c \in OptSid
    PROVE  Sent(x, c) \in States /\ Sent(x, c).sid = x.sid /\ Sent(x, c).ref.ans = x.ref.ans
BY Names DEF Sent, States, Refs

\* What a tab becomes once its refresh is answered.
LEMMA ReceivedIs ==
    ASSUME NEW x \in States, NEW c \in OptSid, NEW left, NEW all, Fine(x, left, all), NoSid \notin left
    PROVE  /\ Received(x, c) \in States /\ Fine(Received(x, c), left, all)
           /\ x.ref.current /\ x.ref.ans = "unauthorized" => Received(x, c).sid = NoSid /\ Received(x, c).ref.ans = "none"
<1> DEFINE y == Received(x, c)
<1>0. x.ref.ck \in OptSid /\ x.ref.current \in BOOLEAN
  BY DEF States, Refs
<1>1. CASE ~x.ref.current
  <2>1. y = Settled(x, "transient", c)
    BY <1>1 DEF Received, Superseded
  <2> QED BY <1>1, <2>1, SettledIs DEF Fine
<1>2. CASE x.ref.current /\ x.ref.ans = "ok"
  <2> DEFINE z == ApplyAuthBundle(x, x.ref.ck)
  <2>1. y = Settled(z, "authenticated", c)
    BY <1>2 DEF Received, Superseded
  <2>2. z \in States /\ z.sid = x.ref.ck
    BY <1>0, ApplyIs
  <2> HIDE DEF z
  <2>3. x.ref.ck \in all /\ x.ref.ck \notin left
    BY <1>2 DEF Fine
  <2> QED BY <1>2, <2>1, <2>2, <2>3, SettledIs DEF Fine
<1>3. CASE x.ref.current /\ x.ref.ans = "race" /\ x.ref.race < RaceLimit
  <2> DEFINE z == [x EXCEPT !.ref.at = "wait", !.ref.race = @ + 1, !.ref.ans = "none"]
  <2>1. y = z
    BY <1>3 DEF Received, Superseded
  <2>2. z \in States /\ z.sid = x.sid /\ z.ref.ans = "none"
    <3> DEFINE r == [x.ref EXCEPT !.at = "wait", !.race = @ + 1, !.ans = "none"]
    <3>1. r \in Refs /\ r.ans = "none"
      <4>1. x.ref \in Refs
        BY DEF States
      <4>2. x.ref.race + 1 \in Nat
        BY <4>1 DEF Refs
      <4> QED BY <4>1, <4>2, Names DEF Refs
    <3>2. z = [x EXCEPT !.ref = r]
      BY DEF States
    <3> HIDE DEF r, z
    <3> QED BY <3>1, <3>2 DEF States
  <2> HIDE DEF z
  <2> QED BY <1>3, <2>1, <2>2 DEF Fine
<1>4. CASE x.ref.current /\ x.ref.ans = "mismatch" /\ x.ref.again
  <2> DEFINE r == [NoRef EXCEPT !.current = TRUE, !.again = FALSE]
             z == [Reset(x, "idle") EXCEPT !.ref = r]
  <2>1. y = Sent(z, c)
    BY <1>4 DEF Received, Superseded
  <2>2. r \in Refs /\ r.ans = "none"
    BY NoneType DEF Refs
  <2> HIDE DEF r
  <2>3. z \in States /\ z.sid = NoSid /\ z.ref = r
    BY <2>2, ResetIs, Names DEF States
  <2> HIDE DEF z
  <2> QED BY <1>4, <2>1, <2>2, <2>3, SentIs DEF Fine
<1>5. CASE x.ref.current /\ x.ref.ans = "unauthorized"
  <2>1. y = Settled(ClearAuthentication(x), "anonymous", c)
    BY <1>5 DEF Received, Superseded
  <2>2. ClearAuthentication(x) \in States /\ ClearAuthentication(x).sid = NoSid
    BY ClearIs
  <2>3. y \in States /\ y.sid = NoSid /\ y.ref.ans = "none"
    BY <2>1, <2>2, SettledIs
  <2> HIDE DEF y
  <2> QED BY <2>3 DEF Fine, y
<1>6. CASE x.ref.current /\ x.ref.ans = "transient"
  <2>1. y = Settled(Undecided(x), "transient", c)
    BY <1>6 DEF Received, Superseded
  <2>2. Undecided(x) \in States /\ Undecided(x).sid = x.sid
    BY Names DEF Undecided, States
  <2> QED BY <1>6, <2>1, <2>2, SettledIs DEF Fine
<1>7. CASE /\ x.ref.current /\ x.ref.ans \notin {"ok", "unauthorized", "transient"}
           /\ ~(x.ref.ans = "race" /\ x.ref.race < RaceLimit) /\ ~(x.ref.ans = "mismatch" /\ x.ref.again)
  <2>1. y = Settled(ClearAuthentication(x), "out_of_sync", c)
    BY <1>7 DEF Received, Superseded
  <2>2. ClearAuthentication(x) \in States /\ ClearAuthentication(x).sid = NoSid
    BY ClearIs
  <2>3. y \in States /\ y.sid = NoSid /\ y.ref.ans = "none"
    BY <2>1, <2>2, SettledIs
  <2> QED BY <1>7, <2>3 DEF Fine
<1> QED BY <1>0, <1>1, <1>2, <1>3, <1>4, <1>5, <1>6, <1>7

-----------------------------------------------------------------------------
(* The steps. *)

\* Tab t becomes y and has left the sessions of new; the sessions that begin are new.
LEMMA OneTab ==
    ASSUME IInv, NEW t \in Tabs, NEW y \in States, NEW left,
           tab' = [tab EXCEPT ![t] = y], gone' = [gone EXCEPT ![t] = left], cookie' \in OptSid,
           issued \subseteq issued', issued' \subseteq Sids, live' \subseteq live \cup (issued' \ issued),
           left \subseteq issued', left \cap (live' \cup {NoSid}) = {}, Fine(y, left, issued')
    PROVE  IInv'
<1>1. live' \subseteq issued' /\ tab' \in [Tabs -> States] /\ gone' \in [Tabs -> SUBSET issued']
  BY DEF IInv
<1>2. ASSUME NEW u \in Tabs \ {t} PROVE gone'[u] \cap (live' \cup {NoSid}) = {} /\ Fine(tab'[u], gone'[u], issued')
  <2>1. gone'[u] = gone[u] /\ tab'[u] = tab[u]
    BY DEF IInv
  <2>2. gone[u] \subseteq issued /\ gone[u] \cap (live \cup {NoSid}) = {} /\ Fine(tab[u], gone[u], issued)
    BY DEF IInv
  <2>3. gone[u] \cap (live' \cup {NoSid}) = {}
    BY <2>2
  <2> QED BY <2>1, <2>2, <2>3 DEF Fine
<1>3. gone'[t] = left /\ tab'[t] = y
  BY DEF IInv
<1> QED BY <1>1, <1>2, <1>3 DEF IInv

\* The same when the tab leaves nothing and no session begins or ends.
LEMMA SameSessions ==
    ASSUME IInv, NEW t \in Tabs, NEW y \in States, tab' = [tab EXCEPT ![t] = y], UNCHANGED <<issued, gone>>,
           live' \subseteq live, cookie' \in OptSid, Fine(y, gone[t], issued)
    PROVE  IInv'
<1>1. gone' = [gone EXCEPT ![t] = gone[t]] /\ gone[t] \subseteq issued /\ gone[t] \cap (live' \cup {NoSid}) = {}
  BY DEF IInv
<1> QED BY <1>1, OneTab DEF IInv

LEMMA LeavesIs ==
    ASSUME IInv, NEW t \in Tabs, Leaves(t, tab[t].sid), UNCHANGED <<live, issued>>
    PROVE  \E left : /\ gone' = [gone EXCEPT ![t] = left] /\ left \subseteq issued' /\ left \cap (live' \cup {NoSid}) = {}
<1> DEFINE left == gone[t] \cup ({tab[t].sid} \ (live \cup {NoSid}))
<1>1. gone' = [gone EXCEPT ![t] = left]
  BY DEF Leaves, IInv
<1>2. left \subseteq issued /\ left \cap (live \cup {NoSid}) = {}
  BY DEF IInv, Fine
<1> QED BY <1>1, <1>2

LEMMA TabIs ==
    ASSUME IInv, NEW t \in Tabs
    PROVE  tab[t] \in States /\ Fine(tab[t], gone[t], issued) /\ NoSid \notin gone[t] /\ cookie \in OptSid
BY DEF IInv

LEMMA RefreshRunStep == ASSUME IInv, NEW t \in Tabs, RefreshRun(t) PROVE IInv'
<1> DEFINE x == tab[t]
           y == IF x.ref.current THEN Sent(x, cookie) ELSE Settled(x, "transient", cookie)
<1>1. x.ref.ans # "ok"
  BY TabIs DEF RefreshRun, Fine
<1>2. y \in States /\ Fine(y, gone[t], issued)
  <2>1. CASE x.ref.current
    BY <1>1, <2>1, TabIs, SentIs DEF Fine
  <2>2. CASE ~x.ref.current
    BY <2>2, TabIs, SettledIs DEF Fine
  <2> QED BY <2>1, <2>2
<1>3. tab' = [tab EXCEPT ![t] = y] /\ UNCHANGED <<cookie, live, issued, gone>>
  BY DEF RefreshRun, TabStep, shared
<1> HIDE DEF x, y
<1> QED BY <1>2, <1>3, SameSessions, TabIs

LEMMA RefreshAuthStep == ASSUME IInv, NEW t \in Tabs, RefreshAuth(t) PROVE IInv'
<1> DEFINE x == tab[t]
<1>1. /\ UNCHANGED <<cookie, live, issued, gone>>
      /\ \E a \in {"unauthorized", "mismatch", "ok", "race", "transient", "other"} :
            /\ a = "ok" => x.ref.ck \in live
            /\ tab' = [tab EXCEPT ![t].ref.at = "answered", ![t].ref.ans = a]
  BY DEF RefreshAuth, shared
<1>2. PICK a \in Answers : /\ a = "ok" => x.ref.ck \in live
                           /\ tab' = [tab EXCEPT ![t].ref.at = "answered", ![t].ref.ans = a]
  BY <1>1 DEF Answers
<1> DEFINE r == [x.ref EXCEPT !.at = "answered", !.ans = a]
           y == [x EXCEPT !.ref = r]
<1>3. tab' = [tab EXCEPT ![t] = y]
  BY <1>2, TabIs DEF IInv, States
<1>4. r \in Refs /\ r.ans = a /\ r.at = "answered" /\ r.ck = x.ref.ck
  <2>1. x.ref \in Refs
    BY TabIs DEF States
  <2> QED BY <2>1, Names DEF Refs
<1> HIDE DEF r
<1>5. y \in States /\ y.sid = x.sid /\ y.ref = r
  BY <1>4, TabIs DEF States
<1>6. Fine(y, gone[t], issued)
  <2>1. a = "ok" => x.ref.ck \in issued /\ x.ref.ck \notin gone[t]
    BY <1>2 DEF IInv
  <2>2. x.sid \in issued \cup {NoSid} /\ x.sid \notin gone[t]
    BY TabIs DEF Fine
  <2> HIDE DEF x, y
  <2> QED BY <1>4, <1>5, <2>1, <2>2 DEF Fine
<1> HIDE DEF x, y
<1> QED BY <1>1, <1>3, <1>5, <1>6, SameSessions, TabIs

LEMMA RefreshReceiveStep == ASSUME IInv, NEW t \in Tabs, RefreshReceive(t) PROVE IInv'
<1> DEFINE x == tab[t]
           c == CookieAfter(x.ref)
           y == Received(x, c)
<1>1. c \in OptSid
  BY TabIs, Names DEF CookieAfter, States, Refs
<1>2. y \in States /\ Fine(y, gone[t], issued)
      /\ (x.ref.current /\ x.ref.ans = "unauthorized" => y.sid = NoSid /\ y.ref.ans = "none")
  BY <1>1, TabIs, ReceivedIs
<1>3. tab' = [tab EXCEPT ![t] = y] /\ cookie' = c /\ UNCHANGED <<live, issued>>
  BY DEF RefreshReceive, TabStep
<1>4. CASE UNCHANGED gone
  <2> HIDE DEF x, c, y
  <2> QED BY <1>1, <1>2, <1>3, <1>4, SameSessions
<1>5. CASE x.ref.current /\ x.ref.ans = "unauthorized" /\ Leaves(t, x.sid)
  <2>1. PICK left : gone' = [gone EXCEPT ![t] = left] /\ left \subseteq issued' /\ left \cap (live' \cup {NoSid}) = {}
    BY <1>3, <1>5, LeavesIs
  <2>2. Fine(y, left, issued)
    BY <1>2, <1>5, <2>1 DEF Fine
  <2> HIDE DEF x, c, y
  <2> QED BY <1>1, <1>2, <1>3, <2>1, <2>2, OneTab DEF IInv
<1> QED BY <1>4, <1>5 DEF RefreshReceive

LEMMA NavigateStep == ASSUME IInv, NEW t \in Tabs, Navigate(t) PROVE IInv'
<1> DEFINE x == tab[t]
           a == [x EXCEPT !.boot = "complete", !.nav = TRUE]
           b == [x EXCEPT !.nav = TRUE]
           d == [x EXCEPT !.boot = "checking", !.nav = TRUE]
<1>1. x \in States /\ Fine(x, gone[t], issued)
  BY TabIs
<1>2. /\ a \in States /\ a.sid = x.sid /\ a.ref = x.ref
      /\ b \in States /\ b.sid = x.sid /\ b.ref = x.ref
      /\ d \in States /\ d.sid = x.sid /\ d.ref = x.ref
  BY <1>1, Names DEF States
<1>3. \E y \in {Guarded(a), Guarded(b), RefreshAuthentication(d)} : tab' = [tab EXCEPT ![t] = y]
  BY DEF Navigate, TabStep
<1>4. UNCHANGED <<cookie, live, issued, gone>>
  BY DEF Navigate, shared
<1> HIDE DEF x, a, b, d
<1>5. PICK y \in {Guarded(a), Guarded(b), RefreshAuthentication(d)} : tab' = [tab EXCEPT ![t] = y]
  BY <1>3
<1>6. y \in States /\ y.sid = x.sid /\ (y.ref = x.ref \/ y.ref.ans = "none")
  BY <1>2, <1>5, GuardedIs, RefreshIs
<1>7. Fine(y, gone[t], issued)
  BY <1>1, <1>6 DEF Fine
<1> QED BY <1>4, <1>5, <1>6, <1>7, SameSessions, TabIs

\* The session that begins is one that no tab has left.
LEMMA LoginStep == ASSUME IInv, NEW t \in Tabs, Login(t) PROVE IInv'
<1> DEFINE x == tab[t]
<1>1. PICK s \in Sids \ issued :
        /\ issued' = issued \cup {s} /\ live' = live \cup {s} /\ cookie' = s
        /\ tab' = [tab EXCEPT ![t] = [ApplyAuthBundle(x, s) EXCEPT !.page = "app"]]
  BY DEF Login, TabStep
<1>2. gone' = gone /\ s \in OptSid /\ cookie' \in OptSid
  BY <1>1 DEF Login, OptSid
<1> DEFINE z == ApplyAuthBundle(x, s)
           y == [z EXCEPT !.page = "app"]
<1>3. z \in States /\ z.sid = s /\ z.ref.current = FALSE /\ z.ref.ans = x.ref.ans /\ z.ref.at = x.ref.at
  BY <1>2, TabIs, ApplyIs
<1> HIDE DEF z
<1>4. y \in States /\ y.sid = s /\ y.ref = z.ref
  BY <1>3, Names DEF States
<1>5. tab' = [tab EXCEPT ![t] = y]
  BY <1>1 DEF z
<1>6. gone[t] \subseteq issued /\ gone[t] \cap (live \cup {NoSid}) = {} /\ gone' = [gone EXCEPT ![t] = gone[t]]
  BY <1>2 DEF IInv
<1>7. (x.ref.ans = "ok" => x.ref.at = "answered") /\ issued \subseteq Sids
  BY TabIs DEF Fine, IInv
<1> HIDE DEF x, y
<1>8. Fine(y, gone[t], issued')
  BY <1>1, <1>3, <1>4, <1>6, <1>7 DEF Fine
<1>9. gone[t] \cap (live' \cup {NoSid}) = {} /\ gone[t] \subseteq issued' /\ issued' \subseteq Sids
  BY <1>1, <1>6, <1>7
<1>10. issued \subseteq issued' /\ live' \subseteq live \cup (issued' \ issued)
  BY <1>1
<1> QED BY <1>2, <1>4, <1>5, <1>6, <1>8, <1>9, <1>10, OneTab

LEMMA ExpireStep == ASSUME IInv, NEW t \in Tabs, Expire(t) PROVE IInv'
<1> DEFINE x == tab[t]
           y == [x EXCEPT !.fresh = FALSE]
<1>1. x \in States /\ Fine(x, gone[t], issued)
  BY TabIs
<1>2. tab' = [tab EXCEPT ![t] = y] /\ UNCHANGED <<cookie, live, issued, gone>>
  BY DEF Expire, shared
<1>3. y \in States /\ y.sid = x.sid /\ y.ref = x.ref
  BY <1>1 DEF States
<1> HIDE DEF x, y
<1>4. Fine(y, gone[t], issued)
  BY <1>1, <1>3 DEF Fine
<1> QED BY <1>2, <1>3, <1>4, SameSessions, TabIs

LEMMA ReqIs ==
    ASSUME NEW x \in States, NEW q \in Reqs
    PROVE  LET y == [x EXCEPT !.req = q] IN y \in States /\ y.sid = x.sid /\ y.ref = x.ref
BY DEF States

LEMMA OutIs ==
    ASSUME NEW x \in States, NEW o \in Outs
    PROVE  LET y == [x EXCEPT !.out = o] IN y \in States /\ y.sid = x.sid /\ y.ref = x.ref
BY DEF States

LEMMA ApiSendStep == ASSUME IInv, NEW t \in Tabs, ApiSend(t) PROVE IInv'
<1> DEFINE x == tab[t]
           q(k) == [NoReq EXCEPT !.at = "sent", !.kind = k, !.tok = x.sid, !.ok = x.fresh]
<1>1. x \in States /\ Fine(x, gone[t], issued) /\ x.sid \in OptSid /\ x.fresh \in BOOLEAN
  BY TabIs DEF States
<1>2. \E k \in Kinds : \/ tab' = [tab EXCEPT ![t] = RefreshAuthentication([x EXCEPT !.req = [q(k) EXCEPT !.at = "headers"]])]
                       \/ tab' = [tab EXCEPT ![t] = [x EXCEPT !.req = q(k)]]
  BY Names DEF ApiSend, TabStep
<1>3. ASSUME NEW k \in Kinds PROVE q(k) \in Reqs /\ [q(k) EXCEPT !.at = "headers"] \in Reqs
  BY <1>1, Names, NoneType DEF Reqs
<1>4. UNCHANGED <<cookie, live, issued, gone>>
  BY DEF ApiSend, shared
<1> HIDE DEF x, q
<1>5. \E p \in Reqs : \/ tab' = [tab EXCEPT ![t] = RefreshAuthentication([x EXCEPT !.req = p])]
                      \/ tab' = [tab EXCEPT ![t] = [x EXCEPT !.req = p]]
  BY <1>2, <1>3
<1>6. PICK p \in Reqs : \/ tab' = [tab EXCEPT ![t] = RefreshAuthentication([x EXCEPT !.req = p])]
                        \/ tab' = [tab EXCEPT ![t] = [x EXCEPT !.req = p]]
  BY <1>5
<1> DEFINE z == [x EXCEPT !.req = p]
<1>7. z \in States /\ z.sid = x.sid /\ z.ref = x.ref
  BY <1>1, ReqIs
<1>8. PICK y \in {z, RefreshAuthentication(z)} : tab' = [tab EXCEPT ![t] = y]
  BY <1>6
<1> HIDE DEF z
<1>9. y \in States /\ y.sid = x.sid /\ (y.ref = x.ref \/ y.ref.ans = "none")
  BY <1>7, <1>8, RefreshIs
<1>10. Fine(y, gone[t], issued)
  BY <1>1, <1>9 DEF Fine
<1> QED BY <1>4, <1>8, <1>9, <1>10, SameSessions, TabIs

LEMMA ApiServeStep == ASSUME IInv, NEW t \in Tabs, ApiServe(t) PROVE IInv'
<1> DEFINE x == tab[t]
           q == [x.req EXCEPT !.at = "answered", !.ok = @ /\ x.req.tok \in live]
           y == [x EXCEPT !.req = q]
<1>1. x \in States /\ Fine(x, gone[t], issued) /\ x.req \in Reqs /\ tab \in [Tabs -> States]
  BY TabIs DEF States, IInv
<1>2. tab' = [tab EXCEPT ![t] = y]
  BY <1>1 DEF ApiServe, States, Reqs
<1>3. UNCHANGED <<cookie, live, issued, gone>>
  BY DEF ApiServe, shared
<1>4. q \in Reqs
  BY <1>1, Names DEF Reqs
<1>5. y \in States /\ y.sid = x.sid /\ y.ref = x.ref
  BY <1>1, <1>4, ReqIs
<1> HIDE DEF x, q, y
<1>6. Fine(y, gone[t], issued)
  BY <1>1, <1>5 DEF Fine
<1> QED BY <1>2, <1>3, <1>5, <1>6, SameSessions, TabIs

LEMMA ApiReceiveStep == ASSUME IInv, NEW t \in Tabs, ApiReceive(t) PROVE IInv'
<1> DEFINE x == tab[t]
           z == [x EXCEPT !.req = NoReq]
           p == [x.req EXCEPT !.at = "refresh"]
           w == [x EXCEPT !.req = p]
<1>1. x \in States /\ Fine(x, gone[t], issued) /\ x.req \in Reqs /\ x.sid \in OptSid /\ NoSid \notin gone[t]
  BY TabIs DEF States
<1>2. p \in Reqs
  BY <1>1, Names DEF Reqs
<1>3. \E y \in {ApplyAuthBundle(z, x.sid), z, RefreshAuthentication(w), ClearAuthentication(z), Loading} :
        tab' = [tab EXCEPT ![t] = y]
  <2>1. [x EXCEPT !.req.at = "refresh"] = w
    BY <1>1 DEF States
  <2> QED BY <2>1 DEF ApiReceive, TabStep
<1>4. UNCHANGED <<cookie, live, issued, gone>>
  BY DEF ApiReceive, shared
<1>5. z \in States /\ z.sid = x.sid /\ z.ref = x.ref /\ w \in States /\ w.sid = x.sid /\ w.ref = x.ref
  BY <1>1, <1>2, ReqIs, NoneType
<1> HIDE DEF x, z, w
<1>6. PICK y \in {ApplyAuthBundle(z, x.sid), z, RefreshAuthentication(w), ClearAuthentication(z), Loading} :
        tab' = [tab EXCEPT ![t] = y]
  BY <1>3
<1>7. /\ y \in States /\ y.sid \in {x.sid, NoSid}
      /\ y.ref = x.ref \/ y.ref.ans = "none" \/ (y.ref.current = FALSE /\ y.ref.ans = x.ref.ans /\ y.ref.at = x.ref.at)
  <2>1. CASE y = ApplyAuthBundle(z, x.sid)
    BY <1>1, <1>5, <2>1, ApplyIs
  <2>2. CASE y = ClearAuthentication(z)
    BY <1>5, <2>2, ClearIs
  <2>3. CASE y \in {z, RefreshAuthentication(w), Loading}
    BY <1>5, <2>3, RefreshIs, LoadingIs
  <2> QED BY <1>6, <2>1, <2>2, <2>3
<1>8. Fine(y, gone[t], issued)
  BY <1>1, <1>7 DEF Fine
<1> QED BY <1>4, <1>6, <1>7, <1>8, SameSessions, TabIs

LEMMA LogoutStep == ASSUME IInv, NEW t \in Tabs, Logout(t) PROVE IInv'
<1> DEFINE x == tab[t]
           o == [NoOut EXCEPT !.at = "sent", !.exp = x.sid, !.ok = x.fresh, !.ck = cookie]
           y == [x EXCEPT !.out = o]
<1>1. x \in States /\ Fine(x, gone[t], issued) /\ x.sid \in OptSid /\ x.fresh \in BOOLEAN /\ cookie \in OptSid
  BY TabIs DEF States
<1>2. tab' = [tab EXCEPT ![t] = y] /\ UNCHANGED <<cookie, live, issued, gone>>
  BY DEF Logout, shared
<1>3. o \in Outs
  BY <1>1, Names, NoneType DEF Outs
<1>4. y \in States /\ y.sid = x.sid /\ y.ref = x.ref
  BY <1>1, <1>3, OutIs
<1> HIDE DEF x, o, y
<1>5. Fine(y, gone[t], issued)
  BY <1>1, <1>4 DEF Fine
<1> QED BY <1>1, <1>2, <1>4, <1>5, SameSessions

LEMMA AuthLogoutStep == ASSUME IInv, NEW t \in Tabs, AuthLogout(t) PROVE IInv'
<1> DEFINE x == tab[t]
<1>1. /\ UNCHANGED <<cookie, issued, gone>> /\ live' \subseteq live
      /\ \E a \in {"mismatch", "kept", "ok", "transient"} :
            tab' = [tab EXCEPT ![t].out.at = "answered", ![t].out.ans = a]
  BY DEF AuthLogout
<1>2. PICK a \in Answers : tab' = [tab EXCEPT ![t].out.at = "answered", ![t].out.ans = a]
  BY <1>1 DEF Answers
<1> DEFINE o == [x.out EXCEPT !.at = "answered", !.ans = a]
           y == [x EXCEPT !.out = o]
<1>3. x \in States /\ Fine(x, gone[t], issued) /\ x.out \in Outs /\ tab \in [Tabs -> States]
  BY TabIs DEF States, IInv
<1>4. tab' = [tab EXCEPT ![t] = y]
  BY <1>2, <1>3 DEF States
<1>5. o \in Outs
  BY <1>3, Names DEF Outs
<1>6. y \in States /\ y.sid = x.sid /\ y.ref = x.ref
  BY <1>3, <1>5, OutIs
<1> HIDE DEF x, o, y
<1>7. Fine(y, gone[t], issued)
  BY <1>3, <1>6 DEF Fine
<1> QED BY <1>1, <1>4, <1>6, <1>7, SameSessions, TabIs

\* A tab that leaves its session is signed out, and its refresh no longer counts.
LEMMA Leaving ==
    ASSUME IInv, NEW t \in Tabs, NEW y \in States, tab' = [tab EXCEPT ![t] = y], Leaves(t, tab[t].sid),
           UNCHANGED <<live, issued>>, cookie' \in OptSid,
           y.sid = NoSid, y.ref.current = FALSE, y.ref.ans = tab[t].ref.ans, y.ref.at = tab[t].ref.at
    PROVE  IInv'
<1>1. PICK left : gone' = [gone EXCEPT ![t] = left] /\ left \subseteq issued' /\ left \cap (live' \cup {NoSid}) = {}
  BY LeavesIs
<1>2. Fine(y, left, issued')
  BY <1>1, TabIs DEF Fine
<1> QED BY <1>1, <1>2, OneTab DEF IInv

LEMMA LogoutReceiveStep == ASSUME IInv, NEW t \in Tabs, LogoutReceive(t) PROVE IInv'
<1> DEFINE x == tab[t]
           p == [x.out EXCEPT !.at = "refresh"]
           w == [x EXCEPT !.out = p]
           z == [x EXCEPT !.out = NoOut]
<1>1. x \in States /\ Fine(x, gone[t], issued) /\ x.out \in Outs /\ NoSid \notin gone[t]
  BY TabIs DEF States
<1>2. UNCHANGED <<live, issued>> /\ cookie' \in OptSid
  BY TabIs, Names DEF LogoutReceive
<1>3. p \in Outs
  BY <1>1, Names DEF Outs
<1>4. z \in States /\ z.sid = x.sid /\ z.ref = x.ref /\ w \in States /\ w.sid = x.sid /\ w.ref = x.ref
  BY <1>1, <1>3, OutIs, NoneType
<1>5. CASE x.out.ans \in {"ok", "kept"}
  <2>1. tab' = [tab EXCEPT ![t] = SignedOut(x)] /\ Leaves(t, x.sid)
    BY <1>5 DEF LogoutReceive, TabStep
  <2> QED BY <1>1, <1>2, <2>1, SignedOutIs, Leaving
<1>6. CASE x.out.ans \notin {"ok", "kept"}
  <2>1. \E y \in {RefreshAuthentication(w), z} : tab' = [tab EXCEPT ![t] = y]
    <3>1. [x EXCEPT !.out.at = "refresh"] = w
      BY <1>1 DEF States
    <3> QED BY <1>6, <3>1 DEF LogoutReceive, TabStep
  <2>2. gone' = gone
    BY <1>6 DEF LogoutReceive
  <2> HIDE DEF x, p, w, z
  <2>3. PICK y \in {RefreshAuthentication(w), z} : tab' = [tab EXCEPT ![t] = y]
    BY <2>1
  <2>4. y \in States /\ y.sid = x.sid /\ (y.ref = x.ref \/ y.ref.ans = "none")
    BY <1>4, <2>3, RefreshIs
  <2>5. Fine(y, gone[t], issued)
    BY <1>1, <2>4 DEF Fine
  <2> QED BY <1>2, <2>2, <2>3, <2>4, <2>5, SameSessions
<1> QED BY <1>5, <1>6

LEMMA DeliverStep == ASSUME IInv, NEW t \in Tabs, Deliver(t) PROVE IInv'
<1> DEFINE x == tab[t]
           e == Head(chan[t])
<1>1. x \in States /\ Fine(x, gone[t], issued) /\ NoSid \notin gone[t] /\ cookie \in OptSid
  BY TabIs
<1>2. tab' = [tab EXCEPT ![t] = Heard(x, e)] /\ UNCHANGED <<cookie, live, issued>>
  BY DEF Deliver, TabStep, shared
<1>3. CASE e.kind = "signed_out" /\ e.sid = x.sid
  <2> DEFINE z == ClearAuthentication(x)
             y == [z EXCEPT !.page = "sign-in"]
  <2>1. z \in States /\ z.sid = NoSid /\ z.ref.current = FALSE /\ z.ref.ans = x.ref.ans /\ z.ref.at = x.ref.at
    BY <1>1, ClearIs
  <2>2. Heard(x, e) = y /\ Leaves(t, x.sid)
    BY <1>3 DEF Heard, Deliver
  <2> HIDE DEF z
  <2>3. y \in States /\ y.sid = NoSid /\ y.ref = z.ref
    BY <2>1, Names DEF States
  <2> HIDE DEF y, e
  <2> QED BY <1>1, <1>2, <2>1, <2>2, <2>3, Leaving
<1>4. CASE ~(e.kind = "signed_out" /\ e.sid = x.sid)
  <2>1. gone' = gone /\ Heard(x, e) \in {Loading, x}
    BY <1>4 DEF Heard, Deliver
  <2>2. PICK y \in {Loading, x} : y = Heard(x, e)
    BY <2>1
  <2>3. y \in States /\ Fine(y, gone[t], issued)
    BY <1>1, <2>2, LoadingIs DEF Fine
  <2> HIDE DEF x, e
  <2> QED BY <1>1, <1>2, <2>1, <2>2, <2>3, SameSessions
<1> QED BY <1>3, <1>4

LEMMA RevokeStep == ASSUME IInv, NEW s \in Sids, Revoke(s) PROVE IInv'
<1>1. live' \subseteq live /\ UNCHANGED <<cookie, issued, tab, gone>>
  BY DEF Revoke
<1> QED BY <1>1 DEF IInv

LEMMA InitIInv == WInit => IInv
<1>1. Fine(Loading, {}, {})
  BY LoadingIs DEF Fine
<1> QED BY <1>1, LoadingIs, Names DEF WInit, IInv

LEMMA NextIInv == IInv /\ [WNext]_wvars => IInv'
<1> SUFFICES ASSUME IInv, [WNext]_wvars PROVE IInv'
  OBVIOUS
<1>1. ASSUME NEW t \in Tabs, DeliverLate(t) PROVE IInv'
  <2>1. UNCHANGED <<cookie, live, issued, tab, gone>>
    BY <1>1 DEF DeliverLate, shared
  <2> QED BY <2>1 DEF IInv
<1>2. CASE UNCHANGED wvars
  <2>1. UNCHANGED <<cookie, live, issued, tab, gone>>
    BY <1>2 DEF wvars
  <2> QED BY <2>1 DEF IInv
<1> QED
  BY <1>1, <1>2, RefreshRunStep, RefreshAuthStep, RefreshReceiveStep, NavigateStep, LoginStep, ExpireStep,
     ApiSendStep, ApiServeStep, ApiReceiveStep, LogoutStep, AuthLogoutStep, LogoutReceiveStep, DeliverStep,
     RevokeStep DEF WNext

-----------------------------------------------------------------------------
(* The theorems. *)

\* A tab's state has its shape, a tab is only ever in a session that was issued
\* and that it has not left, and a refresh that still counts (authEpoch) was
\* answered for such a session only.
THEOREM AlwaysIInv == WSpec => []IInv
BY InitIInv, NextIInv, PTL DEF WSpec

\* A tab never returns to a session that it has seen end, whatever refreshes,
\* requests and sign-outs were under way (auth-session.ts).
THEOREM AlwaysSignedOutStays == WSpec => []SignedOutStays
<1>1. IInv => SignedOutStays
  BY DEF IInv, Fine, SignedOutStays
<1> QED BY <1>1, AlwaysIInv, PTL

-----------------------------------------------------------------------------
(* The tabs agree.  Until an answer is torn there is one latest session: the *)
(* cookie has it, and a tab in an older one has yet to hear of its login.    *)

Events == [kind : {"authenticated", "signed_out"}, sid : Sids]

\* The login of session l is among the events s.
Announced(s, l) == \E i \in 1..Len(s) : s[i] = [kind |-> "authenticated", sid |-> l]

Latest(l) ==
    /\ cookie \in {l, NoSid}
    /\ \A t \in Tabs : tab[t].sid \in {l, NoSid} \/ Announced(chan[t], l)

AgreeInv ==
    /\ chan \in [Tabs -> Seq(Events)]
    /\ \A t \in Tabs : tab[t].page = "loading" => tab[t].sid = NoSid
    /\ torn \/ \E l \in OptSid : Latest(l)

LEMMA NoEvents == <<>> \in Seq(Events) /\ Len(<<>>) = 0
OBVIOUS

LEMMA MoreEvents ==
    ASSUME NEW s \in Seq(Events), NEW e \in Seq(Events)
    PROVE  /\ s \o e \in Seq(Events)
           /\ \A l : Announced(s, l) => Announced(s \o e, l)
           /\ \A l : Announced(e, l) => Announced(s \o e, l)
<1>1. s \o e \in Seq(Events) /\ Len(s \o e) = Len(s) + Len(e) /\ Len(s) \in Nat /\ Len(e) \in Nat
  OBVIOUS
<1>2. \A i \in 1..Len(s) : (s \o e)[i] = s[i]
  OBVIOUS
<1>3. \A i \in 1..Len(e) : (s \o e)[Len(s) + i] = e[i]
  OBVIOUS
<1>4. \A i \in 1..Len(s) : i \in 1..Len(s \o e)
  BY <1>1
<1>5. \A i \in 1..Len(e) : Len(s) + i \in 1..Len(s \o e)
  BY <1>1
<1> QED BY <1>1, <1>2, <1>3, <1>4, <1>5 DEF Announced

LEMMA OneEvent ==
    ASSUME NEW k \in {"authenticated", "signed_out"}, NEW s \in OptSid
    PROVE  /\ Event(k, s) \in Seq(Events)
           /\ k = "authenticated" /\ s # NoSid => Announced(Event(k, s), s)
<1>1. CASE s = NoSid
  BY <1>1, NoEvents DEF Event
<1>2. CASE s # NoSid
  <2> DEFINE e == [kind |-> k, sid |-> s]
  <2>1. e \in Events
    BY <1>2 DEF Events, OptSid
  <2>2. Event(k, s) = <<e>>
    BY <1>2 DEF Event
  <2>3. k = "authenticated" => e = [kind |-> "authenticated", sid |-> s]
    OBVIOUS
  <2> HIDE DEF e
  <2>4. <<e>> \in Seq(Events) /\ Len(<<e>>) = 1 /\ <<e>>[1] = e
    BY <2>1
  <2>5. k = "authenticated" => Announced(<<e>>, s)
    BY <2>3, <2>4 DEF Announced
  <2> QED BY <2>2, <2>4, <2>5
<1> QED BY <1>1, <1>2

LEMMA LessEvents ==
    ASSUME NEW s \in Seq(Events), s # <<>>
    PROVE  /\ Tail(s) \in Seq(Events) /\ Head(s) \in Events
           /\ \A l : Announced(s, l) => Head(s) = [kind |-> "authenticated", sid |-> l] \/ Announced(Tail(s), l)
<1>1. Tail(s) \in Seq(Events) /\ Head(s) \in Events /\ Head(s) = s[1] /\ Len(s) \in Nat /\ Len(Tail(s)) = Len(s) - 1
  OBVIOUS
<1>2. \A i \in 1..Len(s) : i # 1 => i - 1 \in 1..Len(Tail(s)) /\ Tail(s)[i - 1] = s[i]
  <2> SUFFICES ASSUME NEW i \in 1..Len(s), i # 1 PROVE i - 1 \in 1..Len(Tail(s)) /\ Tail(s)[i - 1] = s[i]
    OBVIOUS
  <2>1. i - 1 \in 1..Len(Tail(s))
    BY <1>1
  <2>2. Tail(s)[i - 1] = s[(i - 1) + 1]
    BY <2>1
  <2> QED BY <1>1, <2>1, <2>2
<1> QED BY <1>1, <1>2 DEF Announced

LEMMA NoneAnnounced == ASSUME NEW l PROVE ~Announced(<<>>, l)
BY NoEvents DEF Announced

-----------------------------------------------------------------------------
(* The steps. *)

\* A tab t becomes y in the session it had, in that of the cookie or in none.
LEMMA TabKeeps ==
    ASSUME IInv, AgreeInv, NEW t \in Tabs, NEW y, NEW evs \in Seq(Events), TabStep(t, y, evs, chan[t]),
           y.page = "loading" => y.sid = NoSid,
           torn => torn',
           ~torn' => cookie' \in {cookie, NoSid} /\ y.sid \in {tab[t].sid, NoSid, cookie}
    PROVE  AgreeInv'
<1>1. /\ tab' = [tab EXCEPT ![t] = y] /\ tab'[t] = y /\ \A u \in Tabs : u # t => tab'[u] = tab[u]
      /\ chan' = [u \in Tabs |-> IF u = t THEN (IF y.page = "loading" THEN <<>> ELSE chan[t])
                                 ELSE IF tab[u].page = "loading" THEN <<>> ELSE chan[u] \o evs]
  BY DEF TabStep, IInv
<1>2. \A u \in Tabs : chan[u] \in Seq(Events)
  BY DEF AgreeInv
<1>3. chan' \in [Tabs -> Seq(Events)]
  BY <1>1, <1>2, NoEvents, MoreEvents
<1>4. \A u \in Tabs : tab'[u].page = "loading" => tab'[u].sid = NoSid
  BY <1>1 DEF AgreeInv
<1>5. ASSUME ~torn' PROVE \E l \in OptSid : Latest(l)'
  <2>1. PICK l \in OptSid : Latest(l)
    BY <1>5 DEF AgreeInv
  <2>2. cookie' \in {l, NoSid} /\ y.sid \in {tab[t].sid, NoSid, l}
    BY <1>5, <2>1 DEF Latest
  <2>3. tab'[t].sid \in {l, NoSid} \/ Announced(chan'[t], l)
    <3>1. CASE y.page = "loading"
      BY <1>1, <3>1
    <3>2. CASE y.page # "loading"
      <4>1. chan'[t] = chan[t]
        BY <1>1, <3>2
      <4> QED BY <1>1, <2>1, <2>2, <4>1 DEF Latest
    <3> QED BY <3>1, <3>2
  <2>4. ASSUME NEW u \in Tabs, u # t PROVE tab'[u].sid \in {l, NoSid} \/ Announced(chan'[u], l)
    <3>1. CASE tab[u].page = "loading"
      BY <1>1, <2>4, <3>1 DEF AgreeInv
    <3>2. CASE tab[u].page # "loading"
      <4>1. chan'[u] = chan[u] \o evs
        BY <1>1, <2>4, <3>2
      <4>2. tab[u].sid \in {l, NoSid} \/ Announced(chan[u], l)
        BY <2>1 DEF Latest
      <4> QED BY <1>1, <1>2, <2>4, <4>1, <4>2, MoreEvents
    <3> QED BY <3>1, <3>2
  <2> QED BY <2>2, <2>3, <2>4 DEF Latest
<1> QED BY <1>3, <1>4, <1>5 DEF AgreeInv

\* A tab t becomes y in the session and on the page it had.
LEMMA TabSame ==
    ASSUME IInv, AgreeInv, NEW t \in Tabs, NEW y, tab' = [tab EXCEPT ![t] = y], UNCHANGED <<chan, cookie, torn>>,
           y.page = tab[t].page, y.sid = tab[t].sid
    PROVE  AgreeInv'
<1>1. \A u \in Tabs : tab'[u].page = tab[u].page /\ tab'[u].sid = tab[u].sid
  BY DEF IInv
<1>2. \A l : Latest(l) => Latest(l)'
  BY <1>1 DEF Latest
<1> QED BY <1>1, <1>2 DEF AgreeInv

LEMMA GuardedPage == ASSUME NEW x \in States PROVE Guarded(x).page # "loading"
BY DEF Guarded, States

LEMMA SettledPage ==
    ASSUME NEW x \in States, NEW o, NEW c \in OptSid
    PROVE  Settled(x, o, c).page = "loading" => Settled(x, o, c).sid = NoSid
<1> DEFINE z == [x EXCEPT !.ref = NoRef, !.req = RequestAfter(x, o)]
<1>1. z \in States
  BY NoneType, RequestAfterType DEF States
<1>2. Settled(x, o, c) = IF Redirects(x, o) THEN Loading ELSE Guarded(OutAfter(z, o, c))
  BY DEF Settled
<1> HIDE DEF z
<1>3. OutAfter(z, o, c) \in States
  BY <1>1, OutAfterIs
<1> QED BY <1>2, <1>3, GuardedPage, LoadingIs

LEMMA SentPage == ASSUME NEW x \in States, NEW c PROVE Sent(x, c).page = x.page
BY DEF Sent, States

LEMMA RefreshPage == ASSUME NEW x \in States PROVE RefreshAuthentication(x).page = x.page
BY DEF RefreshAuthentication, States

LEMMA ApplyPage == ASSUME NEW x \in States, NEW s PROVE ApplyAuthBundle(x, s).page = x.page
<1> DEFINE z == Bump(x)
<1>1. z \in States /\ z.page = x.page
  BY BumpIs DEF Bump, States
<1>2. ApplyAuthBundle(x, s) = [z EXCEPT !.sid = s, !.fresh = TRUE, !.boot = "complete"]
  BY DEF ApplyAuthBundle
<1> HIDE DEF z
<1> QED BY <1>1, <1>2 DEF States

\* The session of a tab once its refresh is answered.
LEMMA ReceivedSid ==
    ASSUME NEW x \in States, NEW c \in OptSid, x.page = "loading" => x.sid = NoSid
    PROVE  /\ Received(x, c).sid \in {x.sid, NoSid} \/ (x.ref.ans = "ok" /\ Received(x, c).sid = x.ref.ck)
           /\ Received(x, c).page = "loading" => Received(x, c).sid = NoSid
<1> DEFINE y == Received(x, c)
<1>0. x.ref.ck \in OptSid /\ x.ref.current \in BOOLEAN
  BY DEF States, Refs
<1>1. CASE ~x.ref.current
  <2>1. y = Settled(x, "transient", c)
    BY <1>1 DEF Received, Superseded
  <2> QED BY <2>1, SettledIs, SettledPage
<1>2. CASE x.ref.current /\ x.ref.ans = "ok"
  <2> DEFINE z == ApplyAuthBundle(x, x.ref.ck)
  <2>1. y = Settled(z, "authenticated", c)
    BY <1>2 DEF Received, Superseded
  <2>2. z \in States /\ z.sid = x.ref.ck
    BY <1>0, ApplyIs
  <2> HIDE DEF z
  <2> QED BY <1>2, <2>1, <2>2, SettledIs, SettledPage
<1>3. CASE x.ref.current /\ x.ref.ans = "race" /\ x.ref.race < RaceLimit
  <2> DEFINE z == [x EXCEPT !.ref.at = "wait", !.ref.race = @ + 1, !.ref.ans = "none"]
  <2>1. y = z
    BY <1>3 DEF Received, Superseded
  <2>2. z.sid = x.sid /\ z.page = x.page
    BY DEF States
  <2> HIDE DEF z
  <2> QED BY <2>1, <2>2
<1>4. CASE x.ref.current /\ x.ref.ans = "mismatch" /\ x.ref.again
  <2> DEFINE r == [NoRef EXCEPT !.current = TRUE, !.again = FALSE]
             z == [Reset(x, "idle") EXCEPT !.ref = r]
  <2>1. y = Sent(z, c)
    BY <1>4 DEF Received, Superseded
  <2>2. r \in Refs
    BY NoneType DEF Refs
  <2> HIDE DEF r
  <2>3. z \in States /\ z.sid = NoSid
    BY <2>2, ResetIs, Names DEF States
  <2> HIDE DEF z
  <2> QED BY <2>1, <2>3, SentIs
<1>5. CASE x.ref.current /\ x.ref.ans = "transient"
  <2>1. y = Settled(Undecided(x), "transient", c)
    BY <1>5 DEF Received, Superseded
  <2>2. Undecided(x) \in States /\ Undecided(x).sid = x.sid
    BY Names DEF Undecided, States
  <2> QED BY <2>1, <2>2, SettledIs, SettledPage
<1>6. CASE /\ x.ref.current /\ x.ref.ans \notin {"ok", "transient"}
           /\ ~(x.ref.ans = "race" /\ x.ref.race < RaceLimit) /\ ~(x.ref.ans = "mismatch" /\ x.ref.again)
  <2>1. y = Settled(ClearAuthentication(x), "anonymous", c) \/ y = Settled(ClearAuthentication(x), "out_of_sync", c)
    BY <1>6 DEF Received, Superseded
  <2>2. ClearAuthentication(x) \in States /\ ClearAuthentication(x).sid = NoSid
    BY ClearIs
  <2> QED BY <2>1, <2>2, SettledIs, SettledPage
<1> QED BY <1>0, <1>1, <1>2, <1>3, <1>4, <1>5, <1>6

LEMMA PageIs ==
    ASSUME IInv, AgreeInv, NEW t \in Tabs
    PROVE  /\ tab[t] \in States /\ tab[t].sid \in OptSid /\ cookie \in OptSid
           /\ tab[t].page = "loading" => tab[t].sid = NoSid
           /\ chan[t] \in Seq(Events)
BY TabIs DEF AgreeInv, States

LEMMA RefreshRunAgrees == ASSUME IInv, AgreeInv, NEW t \in Tabs, RefreshRun(t) PROVE AgreeInv'
<1> DEFINE x == tab[t]
           y == IF x.ref.current THEN Sent(x, cookie) ELSE Settled(x, "transient", cookie)
<1>1. TabStep(t, y, <<>>, chan[t]) /\ UNCHANGED <<cookie, torn>>
  BY DEF RefreshRun, shared
<1>2. y.sid \in {x.sid, NoSid} /\ (y.page = "loading" => y.sid = NoSid)
  <2>1. CASE x.ref.current
    BY <2>1, PageIs, SentIs, SentPage
  <2>2. CASE ~x.ref.current
    BY <2>2, PageIs, SettledIs, SettledPage
  <2> QED BY <2>1, <2>2
<1> HIDE DEF y
<1> QED BY <1>1, <1>2, TabKeeps, NoEvents

LEMMA RefreshAuthAgrees == ASSUME IInv, AgreeInv, NEW t \in Tabs, RefreshAuth(t) PROVE AgreeInv'
<1> DEFINE x == tab[t]
<1>1. PICK a : tab' = [tab EXCEPT ![t].ref.at = "answered", ![t].ref.ans = a]
  BY DEF RefreshAuth
<1>2. UNCHANGED <<chan, cookie, torn>>
  BY DEF RefreshAuth, shared
<1> DEFINE y == [x EXCEPT !.ref = [x.ref EXCEPT !.at = "answered", !.ans = a]]
<1>3. tab' = [tab EXCEPT ![t] = y]
  BY <1>1, TabIs DEF IInv, States
<1>4. y.page = x.page /\ y.sid = x.sid
  BY PageIs DEF States
<1> HIDE DEF y
<1> QED BY <1>2, <1>3, <1>4, TabSame

\* Set-Cookie of an answer that is not torn gives the cookie it was asked with.
LEMMA RefreshReceiveAgrees == ASSUME IInv, AgreeInv, NEW t \in Tabs, RefreshReceive(t) PROVE AgreeInv'
<1> DEFINE x == tab[t]
           c == CookieAfter(x.ref)
           y == Received(x, c)
           evs == IF x.ref.current /\ x.ref.ans = "unauthorized" THEN Event("signed_out", x.sid) ELSE <<>>
<1>1. TabStep(t, y, evs, chan[t]) /\ cookie' = c /\ torn' = (torn \/ (c # cookie /\ cookie # x.ref.ck))
  BY DEF RefreshReceive
<1>2. c \in OptSid
  BY TabIs, Names DEF CookieAfter, States, Refs
<1>3. evs \in Seq(Events)
  BY PageIs, OneEvent, NoEvents
<1>4. /\ y.sid \in {x.sid, NoSid} \/ (x.ref.ans = "ok" /\ y.sid = x.ref.ck)
      /\ y.page = "loading" => y.sid = NoSid
  BY <1>2, PageIs, ReceivedSid
<1>5. c \in {cookie, NoSid} \/ (x.ref.ans = "ok" /\ c = x.ref.ck)
  BY DEF CookieAfter
<1>6. x.ref.ans = "ok" => c = x.ref.ck
  BY DEF CookieAfter
<1> HIDE DEF x, c, y, evs
<1>7. ~torn' => cookie' \in {cookie, NoSid} /\ y.sid \in {x.sid, NoSid, cookie}
  BY <1>1, <1>4, <1>5, <1>6
<1>8. torn => torn'
  BY <1>1
<1> QED BY <1>1, <1>3, <1>4, <1>7, <1>8, TabKeeps DEF x

LEMMA NavigateAgrees == ASSUME IInv, AgreeInv, NEW t \in Tabs, Navigate(t) PROVE AgreeInv'
<1> DEFINE x == tab[t]
           a == [x EXCEPT !.boot = "complete", !.nav = TRUE]
           b == [x EXCEPT !.nav = TRUE]
           d == [x EXCEPT !.boot = "checking", !.nav = TRUE]
<1>1. x \in States /\ (x.page = "loading" => x.sid = NoSid)
  BY PageIs
<1>2. /\ a \in States /\ a.sid = x.sid
      /\ b \in States /\ b.sid = x.sid
      /\ d \in States /\ d.sid = x.sid /\ d.page = x.page
  BY <1>1, Names DEF States
<1>3. \E y \in {Guarded(a), Guarded(b), RefreshAuthentication(d)} : TabStep(t, y, <<>>, chan[t])
  BY DEF Navigate
<1>4. UNCHANGED <<cookie, torn>>
  BY DEF Navigate, shared
<1> HIDE DEF x, a, b, d
<1>5. PICK y \in {Guarded(a), Guarded(b), RefreshAuthentication(d)} : TabStep(t, y, <<>>, chan[t])
  BY <1>3
<1>6. y.sid = x.sid /\ (y.page = "loading" => y.sid = NoSid)
  <2>1. CASE y \in {Guarded(a), Guarded(b)}
    BY <1>2, <2>1, GuardedIs, GuardedPage
  <2>2. CASE y = RefreshAuthentication(d)
    BY <1>1, <1>2, <2>2, RefreshIs, RefreshPage
  <2> QED BY <1>5, <2>1, <2>2
<1> QED BY <1>4, <1>5, <1>6, TabKeeps, NoEvents DEF x

\* The session that begins is announced to every tab that listens; the others
\* have none.
LEMMA LoginAgrees == ASSUME IInv, AgreeInv, NEW t \in Tabs, Login(t) PROVE AgreeInv'
<1> DEFINE x == tab[t]
<1>1. PICK s \in Sids \ issued : /\ cookie' = s
                                 /\ TabStep(t, [ApplyAuthBundle(x, s) EXCEPT !.page = "app"],
                                            Event("authenticated", s), chan[t])
  BY DEF Login
<1> DEFINE z == ApplyAuthBundle(x, s)
           y == [z EXCEPT !.page = "app"]
           evs == Event("authenticated", s)
<1>2. s \in OptSid /\ s # NoSid
  BY <1>1, WebAssumption DEF OptSid
<1>3. z \in States /\ z.sid = s
  BY <1>2, TabIs, ApplyIs
<1> HIDE DEF z
<1>4. y.sid = s /\ y.page = "app"
  BY <1>3 DEF States
<1>5. evs \in Seq(Events) /\ Announced(evs, s)
  BY <1>2, OneEvent
<1>6. TabStep(t, y, evs, chan[t])
  BY <1>1 DEF z
<1> HIDE DEF y, evs
<1>7. /\ tab'[t] = y /\ \A u \in Tabs : u # t => tab'[u] = tab[u]
      /\ chan' = [u \in Tabs |-> IF u = t THEN chan[t]
                                 ELSE IF tab[u].page = "loading" THEN <<>> ELSE chan[u] \o evs]
  BY <1>4, <1>6 DEF TabStep, IInv
<1>8. chan' \in [Tabs -> Seq(Events)]
  BY <1>5, <1>7, PageIs, NoEvents, MoreEvents
<1>9. \A u \in Tabs : tab'[u].page = "loading" => tab'[u].sid = NoSid
  BY <1>4, <1>7 DEF AgreeInv
<1>10. ASSUME NEW u \in Tabs PROVE tab'[u].sid \in {s, NoSid} \/ Announced(chan'[u], s)
  <2>1. CASE u = t
    BY <1>4, <1>7, <2>1
  <2>2. CASE u # t /\ tab[u].page = "loading"
    BY <1>7, <2>2, PageIs
  <2>3. CASE u # t /\ tab[u].page # "loading"
    <3>1. chan'[u] = chan[u] \o evs
      BY <1>7, <2>3
    <3> QED BY <1>5, <2>3, <3>1, PageIs, MoreEvents
  <2> QED BY <2>1, <2>2, <2>3
<1>11. Latest(s)'
  BY <1>1, <1>10 DEF Latest
<1> QED BY <1>2, <1>8, <1>9, <1>11 DEF AgreeInv

LEMMA ExpireAgrees == ASSUME IInv, AgreeInv, NEW t \in Tabs, Expire(t) PROVE AgreeInv'
<1> DEFINE y == [tab[t] EXCEPT !.fresh = FALSE]
<1>1. tab' = [tab EXCEPT ![t] = y] /\ UNCHANGED <<chan, cookie, torn>>
  BY DEF Expire, shared
<1>2. y.page = tab[t].page /\ y.sid = tab[t].sid
  BY PageIs DEF States
<1> HIDE DEF y
<1> QED BY <1>1, <1>2, TabSame

LEMMA ApiSendAgrees == ASSUME IInv, AgreeInv, NEW t \in Tabs, ApiSend(t) PROVE AgreeInv'
<1> DEFINE x == tab[t]
           q(k) == [NoReq EXCEPT !.at = "sent", !.kind = k, !.tok = x.sid, !.ok = x.fresh]
<1>1. x \in States /\ (x.page = "loading" => x.sid = NoSid) /\ x.sid \in OptSid /\ x.fresh \in BOOLEAN
  BY PageIs DEF States
<1>2. \E k \in Kinds : \/ TabStep(t, RefreshAuthentication([x EXCEPT !.req = [q(k) EXCEPT !.at = "headers"]]), <<>>, chan[t])
                       \/ TabStep(t, [x EXCEPT !.req = q(k)], <<>>, chan[t])
  BY Names DEF ApiSend
<1>3. ASSUME NEW k \in Kinds PROVE q(k) \in Reqs /\ [q(k) EXCEPT !.at = "headers"] \in Reqs
  BY <1>1, Names, NoneType DEF Reqs
<1>4. UNCHANGED <<cookie, torn>>
  BY DEF ApiSend, shared
<1> HIDE DEF x, q
<1>5. \E p \in Reqs : \/ TabStep(t, RefreshAuthentication([x EXCEPT !.req = p]), <<>>, chan[t])
                      \/ TabStep(t, [x EXCEPT !.req = p], <<>>, chan[t])
  BY <1>2, <1>3
<1>6. PICK p \in Reqs : \/ TabStep(t, RefreshAuthentication([x EXCEPT !.req = p]), <<>>, chan[t])
                        \/ TabStep(t, [x EXCEPT !.req = p], <<>>, chan[t])
  BY <1>5
<1> DEFINE z == [x EXCEPT !.req = p]
<1>7. z \in States /\ z.sid = x.sid /\ z.page = x.page
  BY <1>1 DEF States
<1>8. PICK y \in {z, RefreshAuthentication(z)} : TabStep(t, y, <<>>, chan[t])
  BY <1>6
<1> HIDE DEF z
<1>9. y.sid = x.sid /\ (y.page = "loading" => y.sid = NoSid)
  BY <1>1, <1>7, <1>8, RefreshIs, RefreshPage
<1> QED BY <1>4, <1>8, <1>9, TabKeeps, NoEvents DEF x

LEMMA ApiServeAgrees == ASSUME IInv, AgreeInv, NEW t \in Tabs, ApiServe(t) PROVE AgreeInv'
<1> DEFINE x == tab[t]
           q == [x.req EXCEPT !.at = "answered", !.ok = @ /\ x.req.tok \in live]
           y == [x EXCEPT !.req = q]
<1>1. x \in States /\ tab \in [Tabs -> States]
  BY TabIs DEF IInv
<1>2. tab' = [tab EXCEPT ![t] = y] /\ UNCHANGED <<chan, cookie, torn>>
  BY <1>1 DEF ApiServe, States, Reqs, shared
<1> HIDE DEF q
<1>3. y.sid = x.sid /\ y.page = x.page
  BY <1>1 DEF States
<1> HIDE DEF y
<1> QED BY <1>2, <1>3, TabSame

LEMMA ApiReceiveAgrees == ASSUME IInv, AgreeInv, NEW t \in Tabs, ApiReceive(t) PROVE AgreeInv'
<1> DEFINE x == tab[t]
           z == [x EXCEPT !.req = NoReq]
           p == [x.req EXCEPT !.at = "refresh"]
           w == [x EXCEPT !.req = p]
<1>1. x \in States /\ (x.page = "loading" => x.sid = NoSid) /\ x.sid \in OptSid /\ x.req \in Reqs
  BY PageIs DEF States
<1>2. p \in Reqs
  BY <1>1, Names DEF Reqs
<1>3. \E y \in {ApplyAuthBundle(z, x.sid), z, RefreshAuthentication(w), ClearAuthentication(z), Loading} :
        TabStep(t, y, <<>>, chan[t])
  <2>1. [x EXCEPT !.req.at = "refresh"] = w
    BY <1>1 DEF States
  <2> QED BY <2>1 DEF ApiReceive
<1>4. UNCHANGED <<cookie, torn>>
  BY DEF ApiReceive, shared
<1> HIDE DEF p
<1>5. z \in States /\ z.sid = x.sid /\ z.page = x.page /\ w \in States /\ w.sid = x.sid /\ w.page = x.page
  BY <1>1, <1>2, NoneType DEF States
<1> HIDE DEF x, z, w
<1>6. PICK y \in {ApplyAuthBundle(z, x.sid), z, RefreshAuthentication(w), ClearAuthentication(z), Loading} :
        TabStep(t, y, <<>>, chan[t])
  BY <1>3
<1>7. y.sid \in {x.sid, NoSid} /\ (y.page = "loading" => y.sid = NoSid)
  <2>1. CASE y = ApplyAuthBundle(z, x.sid)
    BY <1>1, <1>5, <2>1, ApplyIs, ApplyPage
  <2>2. CASE y = ClearAuthentication(z)
    BY <1>5, <2>2, ClearIs
  <2>3. CASE y \in {z, RefreshAuthentication(w), Loading}
    BY <1>1, <1>5, <2>3, RefreshIs, RefreshPage, LoadingIs
  <2> QED BY <1>6, <2>1, <2>2, <2>3
<1> QED BY <1>4, <1>6, <1>7, TabKeeps, NoEvents DEF x

LEMMA LogoutAgrees == ASSUME IInv, AgreeInv, NEW t \in Tabs, Logout(t) PROVE AgreeInv'
<1> DEFINE x == tab[t]
           o == [NoOut EXCEPT !.at = "sent", !.exp = x.sid, !.ok = x.fresh, !.ck = cookie]
           y == [x EXCEPT !.out = o]
<1>1. tab' = [tab EXCEPT ![t] = y] /\ UNCHANGED <<chan, cookie, torn>>
  BY DEF Logout, shared
<1> HIDE DEF o
<1>2. y.sid = x.sid /\ y.page = x.page
  BY PageIs DEF States
<1> HIDE DEF y
<1> QED BY <1>1, <1>2, TabSame

LEMMA AuthLogoutAgrees == ASSUME IInv, AgreeInv, NEW t \in Tabs, AuthLogout(t) PROVE AgreeInv'
<1> DEFINE x == tab[t]
<1>1. PICK a : tab' = [tab EXCEPT ![t].out.at = "answered", ![t].out.ans = a]
  BY DEF AuthLogout
<1>2. UNCHANGED <<chan, cookie, torn>>
  BY DEF AuthLogout
<1> DEFINE y == [x EXCEPT !.out = [x.out EXCEPT !.at = "answered", !.ans = a]]
<1>3. tab' = [tab EXCEPT ![t] = y]
  BY <1>1, TabIs DEF IInv, States
<1>4. y.page = x.page /\ y.sid = x.sid
  BY PageIs DEF States
<1> HIDE DEF y
<1> QED BY <1>2, <1>3, <1>4, TabSame

LEMMA LogoutReceiveAgrees == ASSUME IInv, AgreeInv, NEW t \in Tabs, LogoutReceive(t) PROVE AgreeInv'
<1> DEFINE x == tab[t]
           p == [x.out EXCEPT !.at = "refresh"]
           w == [x EXCEPT !.out = p]
           z == [x EXCEPT !.out = NoOut]
           won == x.out.ans \in {"ok", "kept"}
           evs == IF won THEN Event("signed_out", x.sid) ELSE <<>>
<1>1. x \in States /\ (x.page = "loading" => x.sid = NoSid) /\ x.sid \in OptSid /\ x.out \in Outs
  BY PageIs DEF States
<1>2. p \in Outs
  BY <1>1, Names DEF Outs
<1>3. \E y \in {SignedOut(x), RefreshAuthentication(w), z} : TabStep(t, y, evs, chan[t])
  <2>1. [x EXCEPT !.out.at = "refresh"] = w
    BY <1>1 DEF States
  <2> QED BY <2>1 DEF LogoutReceive
<1>4. cookie' \in {cookie, NoSid} /\ (torn => torn')
  BY DEF LogoutReceive
<1>5. evs \in Seq(Events)
  BY <1>1, OneEvent, NoEvents
<1> HIDE DEF p, evs
<1>6. z \in States /\ z.sid = x.sid /\ z.page = x.page /\ w \in States /\ w.sid = x.sid /\ w.page = x.page
  BY <1>1, <1>2, NoneType DEF States
<1> HIDE DEF x, z, w
<1>7. PICK y \in {SignedOut(x), RefreshAuthentication(w), z} : TabStep(t, y, evs, chan[t])
  BY <1>3
<1>8. y.sid \in {x.sid, NoSid} /\ (y.page = "loading" => y.sid = NoSid)
  <2>1. CASE y = SignedOut(x)
    BY <1>1, <2>1, SignedOutIs
  <2>2. CASE y \in {RefreshAuthentication(w), z}
    BY <1>1, <1>6, <2>2, RefreshIs, RefreshPage
  <2> QED BY <1>7, <2>1, <2>2
<1> QED BY <1>4, <1>5, <1>7, <1>8, TabKeeps DEF x

\* A tab that hears of another session forgets its own.
LEMMA DeliverAgrees == ASSUME IInv, AgreeInv, NEW t \in Tabs, Deliver(t) PROVE AgreeInv'
<1> DEFINE x == tab[t]
           e == Head(chan[t])
           y == Heard(x, e)
<1>1. x \in States /\ (x.page = "loading" => x.sid = NoSid) /\ chan[t] \in Seq(Events)
  BY PageIs
<1>2. TabStep(t, y, <<>>, Tail(chan[t])) /\ UNCHANGED <<cookie, torn>> /\ chan[t] # <<>>
  BY DEF Deliver, shared
<1>3. /\ Tail(chan[t]) \in Seq(Events)
      /\ \A l : Announced(chan[t], l) => e = [kind |-> "authenticated", sid |-> l] \/ Announced(Tail(chan[t]), l)
  BY <1>1, <1>2, LessEvents
<1>4. y.sid \in {x.sid, NoSid} /\ (y.page = "loading" => y.sid = NoSid)
  <2>1. y \in {Loading, x, [ClearAuthentication(x) EXCEPT !.page = "sign-in"]}
    BY DEF Heard
  <2>2. [ClearAuthentication(x) EXCEPT !.page = "sign-in"].sid = NoSid
    BY <1>1, ClearIs DEF States
  <2> HIDE DEF y
  <2> QED BY <1>1, <2>1, <2>2, LoadingIs
<1>5. ASSUME NEW l, e = [kind |-> "authenticated", sid |-> l] PROVE y.sid \in {l, NoSid}
  <2>1. e.kind = "authenticated" /\ e.sid = l
    BY <1>5
  <2>2. y = IF l # x.sid THEN Loading ELSE x
    BY <2>1 DEF Heard, OtherSession
  <2> QED BY <2>2, LoadingIs
<1> HIDE DEF x, e, y
<1>6. /\ tab'[t] = y /\ \A u \in Tabs : u # t => tab'[u] = tab[u]
      /\ chan' = [u \in Tabs |-> IF u = t THEN (IF y.page = "loading" THEN <<>> ELSE Tail(chan[t]))
                                 ELSE IF tab[u].page = "loading" THEN <<>> ELSE chan[u] \o <<>>]
  BY <1>2 DEF TabStep, IInv
<1>7. \A u \in Tabs : chan[u] \in Seq(Events) /\ chan[u] \o <<>> = chan[u]
  BY DEF AgreeInv
<1>8. chan' \in [Tabs -> Seq(Events)]
  BY <1>3, <1>6, <1>7, NoEvents
<1>9. \A u \in Tabs : tab'[u].page = "loading" => tab'[u].sid = NoSid
  BY <1>4, <1>6 DEF AgreeInv
<1>10. ASSUME NEW l \in OptSid, Latest(l) PROVE Latest(l)'
  <2>1. ASSUME NEW u \in Tabs PROVE tab'[u].sid \in {l, NoSid} \/ Announced(chan'[u], l)
    <3>0. tab[u].sid \in {l, NoSid} \/ Announced(chan[u], l)
      BY <1>10 DEF Latest
    <3>1. CASE u # t /\ tab[u].page = "loading"
      BY <1>6, <3>1, PageIs
    <3>2. CASE u # t /\ tab[u].page # "loading"
      <4>1. chan'[u] = chan[u]
        BY <1>6, <1>7, <3>2
      <4> QED BY <1>6, <3>0, <3>2, <4>1
    <3>3. CASE u = t /\ y.page = "loading"
      BY <1>4, <1>6, <3>3
    <3>4. CASE u = t /\ y.page # "loading"
      <4>1. chan'[t] = Tail(chan[t])
        BY <1>6, <3>4
      <4> QED BY <1>3, <1>4, <1>5, <1>6, <3>0, <3>4, <4>1 DEF x
    <3> QED BY <3>1, <3>2, <3>3, <3>4
  <2> QED BY <1>2, <1>10, <2>1 DEF Latest
<1> QED BY <1>2, <1>8, <1>9, <1>10 DEF AgreeInv

LEMMA DeliverLateAgrees == ASSUME IInv, AgreeInv, NEW t \in Tabs, DeliverLate(t) PROVE AgreeInv'
<1>1. chan[t] \in Seq(Events) /\ chan[t] # <<>>
  BY PageIs DEF DeliverLate
<1>2. Tail(chan[t]) \in Seq(Events)
  BY <1>1, LessEvents
<1>3. chan' = [chan EXCEPT ![t] = Tail(chan[t])] /\ torn' = TRUE /\ tab' = tab
  BY DEF DeliverLate
<1> QED BY <1>2, <1>3 DEF AgreeInv

LEMMA InitAgrees == WInit => AgreeInv
<1> SUFFICES ASSUME WInit PROVE AgreeInv
  OBVIOUS
<1>1. Latest(NoSid)
  BY LoadingIs DEF WInit, Latest
<1> QED BY <1>1, LoadingIs, Names, NoEvents DEF WInit, AgreeInv

LEMMA NextAgrees == IInv /\ AgreeInv /\ [WNext]_wvars => AgreeInv'
<1> SUFFICES ASSUME IInv, AgreeInv, [WNext]_wvars PROVE AgreeInv'
  OBVIOUS
<1>1. CASE UNCHANGED wvars \/ \E s \in Sids : Revoke(s)
  <2>1. UNCHANGED <<cookie, tab, chan, torn>>
    BY <1>1 DEF wvars, Revoke
  <2>2. \A l : Latest(l) => Latest(l)'
    BY <2>1 DEF Latest
  <2> QED BY <2>1, <2>2 DEF AgreeInv
<1> QED
  BY <1>1, RefreshRunAgrees, RefreshAuthAgrees, RefreshReceiveAgrees, NavigateAgrees, LoginAgrees, ExpireAgrees,
     ApiSendAgrees, ApiServeAgrees, ApiReceiveAgrees, LogoutAgrees, AuthLogoutAgrees, LogoutReceiveAgrees,
     DeliverAgrees, DeliverLateAgrees DEF WNext

\* For any number of tabs and sessions: two signed-in tabs that have no event on
\* its way are in the same session, until an answer overwrites a newer cookie or
\* a tab ignores an event that came too late (auth-session-sync.ts).
THEOREM AlwaysTabsAgree == WSpec => []TabsAgree
<1>1. IInv /\ AgreeInv => TabsAgree
  BY NoneAnnounced DEF AgreeInv, Latest, TabsAgree
<1> QED BY <1>1, InitAgrees, NextAgrees, AlwaysIInv, PTL DEF WSpec

-----------------------------------------------------------------------------
(* The queue of the Web Lock. *)

Occurs(q, t) == \E i \in 1..Len(q) : q[i] = t

Distinct(q) == \A i, j \in 1..Len(q) : q[i] = q[j] => i = j

QueueInv ==
    /\ lockq \in Seq(Tabs) /\ Distinct(lockq)
    /\ \A t \in Tabs : Occurs(lockq, t) <=> tab[t].ref.at # "none"
    /\ ops \in 0..MaxOps

LEMMA Joins ==
    ASSUME NEW q \in Seq(Tabs), Distinct(q), NEW t \in Tabs, ~Occurs(q, t)
    PROVE  /\ Append(q, t) \in Seq(Tabs) /\ Distinct(Append(q, t))
           /\ \A u : Occurs(Append(q, t), u) <=> Occurs(q, u) \/ u = t
<1>1. /\ Append(q, t) \in Seq(Tabs) /\ Len(Append(q, t)) = Len(q) + 1 /\ Len(q) \in Nat
      /\ Append(q, t)[Len(q) + 1] = t
      /\ \A i \in 1..Len(q) : Append(q, t)[i] = q[i]
  BY AppendProperties
<1>2. PICK r : r = Append(q, t)
  OBVIOUS
<1>3. /\ r \in Seq(Tabs) /\ Len(r) = Len(q) + 1 /\ r[Len(q) + 1] = t
      /\ \A i \in 1..Len(q) : r[i] = q[i]
  BY <1>1, <1>2
<1>4. \A i \in 1..Len(r) : i \in 1..Len(q) \/ i = Len(q) + 1
  BY <1>1, <1>3
<1>5. \A i \in 1..Len(q) : i \in 1..Len(r)
  BY <1>1, <1>3
<1>6. Len(q) + 1 \in 1..Len(r)
  BY <1>1, <1>3
<1>7. Distinct(r)
  BY <1>3, <1>4 DEF Distinct, Occurs
<1>8. ASSUME NEW u PROVE Occurs(r, u) <=> Occurs(q, u) \/ u = t
  BY <1>3, <1>4, <1>5, <1>6 DEF Occurs
<1> QED BY <1>2, <1>3, <1>7, <1>8

LEMMA WithoutIs ==
    ASSUME NEW q \in Seq(Tabs), Distinct(q), NEW t \in Tabs, Occurs(q, t)
    PROVE  /\ Without(q, t) \in Seq(Tabs) /\ Distinct(Without(q, t))
           /\ \A u : Occurs(Without(q, t), u) <=> Occurs(q, u) /\ u # t
<1>1. PICK k \in 1..Len(q) : q[k] = t /\ Without(q, t) = SubSeq(q, 1, k - 1) \o SubSeq(q, k + 1, Len(q))
  BY DEF Occurs, Without
<1>2. PICK a : a = SubSeq(q, 1, k - 1)
  OBVIOUS
<1>3. PICK b : b = SubSeq(q, k + 1, Len(q))
  OBVIOUS
<1>4. PICK r : r = a \o b
  OBVIOUS
<1>5. Len(q) \in Nat /\ k \in Nat /\ k >= 1 /\ k <= Len(q)
  BY <1>1
<1>6. a \in Seq(Tabs) /\ Len(a) = k - 1 /\ \A i \in 1..(k - 1) : a[i] = q[i]
  <2>1. \A i \in 1..(k - 1) : i \in 1..Len(q)
    BY <1>5
  <2>2. 1 \in Int /\ k - 1 \in Int /\ \A i \in 1..(k - 1) : q[i] \in Tabs
    BY <1>5, <2>1, ElementOfSeq
  <2> QED BY <1>2, <1>5, <2>2, SubSeqProperties
<1>7. b \in Seq(Tabs) /\ Len(b) = Len(q) - k /\ \A i \in 1..(Len(q) - k) : b[i] = q[k + i]
  <2>1. \A i \in (k + 1)..Len(q) : i \in 1..Len(q)
    BY <1>5
  <2>2. k + 1 \in Int /\ Len(q) \in Int /\ \A i \in (k + 1)..Len(q) : q[i] \in Tabs
    BY <1>5, <2>1, ElementOfSeq
  <2> QED BY <1>3, <1>5, <2>2, SubSeqProperties
<1>8. /\ r \in Seq(Tabs) /\ Len(r) = Len(a) + Len(b)
      /\ \A i \in 1..(Len(a) + Len(b)) : r[i] = IF i <= Len(a) THEN a[i] ELSE b[i - Len(a)]
  BY <1>4, <1>6, <1>7, ConcatProperties
<1>9. Len(r) = Len(q) - 1
  BY <1>5, <1>6, <1>7, <1>8
<1>10. ASSUME NEW i \in 1..Len(r)
       PROVE  /\ i < k => i \in 1..Len(q) /\ r[i] = q[i]
              /\ i >= k => i + 1 \in 1..Len(q) /\ r[i] = q[i + 1]
  <2>1. i \in 1..(Len(a) + Len(b)) /\ i \in Nat
    BY <1>8
  <2>2. ASSUME i < k PROVE i \in 1..Len(q) /\ r[i] = q[i]
    <3>1. i \in 1..(k - 1) /\ i <= Len(a) /\ i \in 1..Len(q)
      BY <1>5, <1>6, <2>1, <2>2
    <3> QED BY <1>6, <1>8, <2>1, <3>1
  <2>3. ASSUME i >= k PROVE i + 1 \in 1..Len(q) /\ r[i] = q[i + 1]
    <3>1. ~(i <= Len(a)) /\ i + 1 \in 1..Len(q) /\ i - Len(a) \in 1..(Len(q) - k) /\ k + (i - Len(a)) = i + 1
      BY <1>5, <1>6, <1>9, <2>1, <2>3
    <3> QED BY <1>7, <1>8, <2>1, <3>1
  <2> QED BY <2>2, <2>3
<1>11. ASSUME NEW j \in 1..Len(q), j # k PROVE \E i \in 1..Len(r) : r[i] = q[j]
  <2>1. CASE j < k
    <3>1. j \in 1..Len(r)
      BY <1>5, <1>9, <2>1
    <3> QED BY <1>10, <2>1, <3>1
  <2>2. CASE j > k
    <3>1. j - 1 \in 1..Len(r) /\ j - 1 >= k /\ (j - 1) + 1 = j
      BY <1>5, <1>9, <2>2
    <3> QED BY <1>10, <3>1
  <2> QED BY <1>5, <1>11, <2>1, <2>2
<1>12. Distinct(r)
  <2> SUFFICES ASSUME NEW i \in 1..Len(r), NEW j \in 1..Len(r), r[i] = r[j] PROVE i = j
    BY DEF Distinct
  <2>1. PICK m \in 1..Len(q) : r[i] = q[m] /\ m = (IF i < k THEN i ELSE i + 1)
    BY <1>5, <1>10
  <2>2. PICK n \in 1..Len(q) : r[j] = q[n] /\ n = (IF j < k THEN j ELSE j + 1)
    BY <1>5, <1>10
  <2>3. m = n
    BY <2>1, <2>2 DEF Distinct
  <2> QED BY <1>5, <2>1, <2>2, <2>3
<1>13. ASSUME NEW u PROVE Occurs(r, u) <=> Occurs(q, u) /\ u # t
  <2>1. ASSUME Occurs(q, u), u # t PROVE Occurs(r, u)
    <3>1. PICK j \in 1..Len(q) : q[j] = u
      BY <2>1 DEF Occurs
    <3>2. j # k
      BY <1>1, <2>1, <3>1
    <3> QED BY <1>11, <3>1, <3>2 DEF Occurs
  <2>2. ASSUME Occurs(r, u) PROVE Occurs(q, u) /\ u # t
    <3>1. PICK i \in 1..Len(r) : r[i] = u
      BY <2>2 DEF Occurs
    <3>2. PICK m \in 1..Len(q) : r[i] = q[m] /\ m = (IF i < k THEN i ELSE i + 1)
      BY <1>5, <1>10
    <3>3. m # k
      BY <1>5, <3>2
    <3> QED BY <1>1, <3>1, <3>2, <3>3 DEF Occurs, Distinct
  <2> QED BY <2>1, <2>2
<1> QED BY <1>1, <1>2, <1>3, <1>4, <1>8, <1>12, <1>13

\* Whatever a tab becomes, it joins the queue with its refresh and leaves with it.
LEMMA TabQueues ==
    ASSUME IInv, QueueInv, NEW t \in Tabs, NEW y, NEW evs, NEW rest, TabStep(t, y, evs, rest), ops' \in 0..MaxOps
    PROVE  QueueInv'
<1>1. /\ tab'[t] = y /\ \A u \in Tabs : u # t => tab'[u] = tab[u]
      /\ lockq' = QueueAfter(t, y)
  BY DEF TabStep, IInv
<1>2. lockq \in Seq(Tabs) /\ Distinct(lockq) /\ (Occurs(lockq, t) <=> tab[t].ref.at # "none")
  BY DEF QueueInv
<1>3. CASE tab[t].ref.at = "none" /\ y.ref.at # "none"
  <2>1. lockq' = Append(lockq, t)
    BY <1>1, <1>3 DEF QueueAfter
  <2>2. lockq' \in Seq(Tabs) /\ Distinct(lockq') /\ \A u : Occurs(lockq', u) <=> Occurs(lockq, u) \/ u = t
    BY <1>2, <1>3, <2>1, Joins
  <2> QED BY <1>1, <1>3, <2>2 DEF QueueInv
<1>4. CASE tab[t].ref.at # "none" /\ y.ref.at = "none"
  <2>1. lockq' = Without(lockq, t)
    BY <1>1, <1>4 DEF QueueAfter
  <2>2. lockq' \in Seq(Tabs) /\ Distinct(lockq') /\ \A u : Occurs(lockq', u) <=> Occurs(lockq, u) /\ u # t
    BY <1>2, <1>4, <2>1, WithoutIs
  <2> QED BY <1>1, <1>4, <2>2 DEF QueueInv
<1>5. CASE (tab[t].ref.at = "none") = (y.ref.at = "none")
  <2>1. lockq' = lockq
    BY <1>1, <1>5 DEF QueueAfter
  <2> QED BY <1>1, <1>5, <2>1 DEF QueueInv
<1> QED BY <1>3, <1>4, <1>5

\* A tab becomes y without a refresh that begins or ends.
LEMMA TabStays ==
    ASSUME IInv, QueueInv, NEW t \in Tabs, NEW y, tab' = [tab EXCEPT ![t] = y], lockq' = lockq,
           y.ref.at = "none" <=> tab[t].ref.at = "none", ops' \in 0..MaxOps
    PROVE  QueueInv'
<1>1. \A u \in Tabs : tab'[u].ref.at = "none" <=> tab[u].ref.at = "none"
  BY DEF IInv
<1> QED BY <1>1 DEF QueueInv

LEMMA RefreshAuthQueues == ASSUME IInv, QueueInv, NEW t \in Tabs, RefreshAuth(t) PROVE QueueInv'
<1> DEFINE x == tab[t]
<1>1. PICK a : tab' = [tab EXCEPT ![t].ref.at = "answered", ![t].ref.ans = a]
  BY DEF RefreshAuth
<1>2. lockq' = lockq /\ x.ref.at = "sent"
  BY DEF RefreshAuth
<1>3. ops' \in 0..MaxOps
  BY WebAssumption DEF RefreshAuth, QueueInv
<1> DEFINE r == [x.ref EXCEPT !.at = "answered", !.ans = a]
           y == [x EXCEPT !.ref = r]
<1>4. tab' = [tab EXCEPT ![t] = y]
  BY <1>1, TabIs DEF IInv, States
<1>5. r.at = "answered"
  BY TabIs DEF States, Refs
<1> HIDE DEF r
<1>6. y.ref = r
  BY TabIs DEF States
<1> HIDE DEF y
<1> QED BY <1>2, <1>3, <1>4, <1>5, <1>6, TabStays

LEMMA RequestQueues ==
    ASSUME IInv, QueueInv, NEW t \in Tabs, Expire(t) \/ ApiServe(t) \/ Logout(t) \/ AuthLogout(t)
    PROVE  QueueInv'
<1>1. tab[t] \in States /\ tab \in [Tabs -> States]
  BY DEF IInv
<1>2. \E y : tab' = [tab EXCEPT ![t] = y] /\ y.ref = tab[t].ref
  BY <1>1 DEF Expire, ApiServe, Logout, AuthLogout, States
<1>3. lockq' = lockq
  BY DEF Expire, ApiServe, Logout, AuthLogout
<1>4. ops' \in 0..MaxOps
  BY WebAssumption DEF Expire, ApiServe, Logout, AuthLogout, Spend, QueueInv
<1> QED BY <1>2, <1>3, <1>4, TabStays

LEMMA NextQueues == IInv /\ QueueInv /\ [WNext]_wvars => QueueInv'
<1> SUFFICES ASSUME IInv, QueueInv, [WNext]_wvars PROVE QueueInv'
  OBVIOUS
<1>1. CASE UNCHANGED wvars \/ (\E s \in Sids : Revoke(s)) \/ (\E t \in Tabs : DeliverLate(t))
  <2>1. UNCHANGED <<tab, lockq>>
    BY <1>1 DEF wvars, Revoke, DeliverLate
  <2>2. ops' \in 0..MaxOps
    BY <1>1, WebAssumption DEF wvars, Revoke, DeliverLate, Spend, QueueInv
  <2> QED BY <2>1, <2>2 DEF QueueInv
<1>2. ASSUME NEW t \in Tabs, RefreshRun(t) \/ RefreshReceive(t) \/ Navigate(t) \/ Login(t) \/ ApiSend(t)
                             \/ ApiReceive(t) \/ LogoutReceive(t) \/ Deliver(t)
      PROVE  QueueInv'
  <2>1. \E y, evs, rest : TabStep(t, y, evs, rest)
    BY <1>2 DEF RefreshRun, RefreshReceive, Navigate, Login, ApiSend, ApiReceive, LogoutReceive, Deliver
  <2>2. ops' \in 0..MaxOps
    BY <1>2, WebAssumption DEF RefreshRun, RefreshReceive, Navigate, Login, ApiSend, ApiReceive, LogoutReceive, Deliver,
       Spend, QueueInv
  <2> QED BY <2>1, <2>2, TabQueues
<1> QED BY <1>1, <1>2, RefreshAuthQueues, RequestQueues DEF WNext

LEMMA InitQueues == WInit => QueueInv
<1> SUFFICES ASSUME WInit PROVE QueueInv
  OBVIOUS
<1>1. Loading.ref.at = "none"
  BY NoneType DEF Loading
<1>2. <<>> \in Seq(Tabs) /\ Len(<<>>) = 0
  OBVIOUS
<1> QED BY <1>1, <1>2, WebAssumption DEF WInit, QueueInv, Distinct, Occurs

\* The variables keep their types, and the queue of the Web Lock holds each tab
\* with a refresh under way once and no other, for any number of tabs, whatever
\* pages reload while they wait (refreshAuthentication).
THEOREM AlwaysWebTypeOK == WSpec => []WebTypeOK
<1>1. ASSUME IInv, QueueInv PROVE WebTypeOK
  <2>1. ASSUME NEW t \in Tabs
        PROVE  LET x == tab[t] IN
               /\ {x.sid, x.ref.exp, x.ref.ck, x.req.tok, x.out.exp, x.out.ck} \subseteq OptSid
               /\ x.boot \in {"idle", "checking", "complete"}
               /\ x.page \in {"loading", "sign-in", "app"}
               /\ x.ref.at \in {"none", "lock", "sent", "answered", "wait"}
               /\ x.req.at \in {"none", "headers", "sent", "answered", "refresh"}
               /\ x.out.at \in {"none", "sent", "answered", "refresh"}
    <3>1. tab[t] \in States /\ tab[t].ref \in Refs /\ tab[t].req \in Reqs /\ tab[t].out \in Outs
      BY <1>1 DEF IInv, States
    <3> QED BY <3>1 DEF States, Refs, Reqs, Outs, Boots, Pages, RefAts, ReqAts, OutAts
  <2>2. ASSUME NEW t \in Tabs
        PROVE  Cardinality({i \in DOMAIN lockq : lockq[i] = t}) = IF tab[t].ref.at = "none" THEN 0 ELSE 1
    <3>1. DOMAIN lockq = 1..Len(lockq) /\ Distinct(lockq) /\ (Occurs(lockq, t) <=> tab[t].ref.at # "none")
      BY <1>1 DEF QueueInv
    <3>2. CASE ~Occurs(lockq, t)
      <4>1. {i \in DOMAIN lockq : lockq[i] = t} = {}
        BY <3>1, <3>2 DEF Occurs
      <4> QED BY <3>1, <3>2, <4>1, FS_EmptySet
    <3>3. CASE Occurs(lockq, t)
      <4>1. PICK k \in 1..Len(lockq) : lockq[k] = t
        BY <3>3 DEF Occurs
      <4>2. {i \in DOMAIN lockq : lockq[i] = t} = {k}
        BY <3>1, <4>1 DEF Distinct
      <4> QED BY <3>1, <3>3, <4>2, FS_Singleton
    <3> QED BY <3>2, <3>3
  <2>3. cookie \in OptSid /\ live \subseteq issued /\ issued \subseteq Sids /\ ops \in 0..MaxOps
    BY <1>1 DEF IInv, QueueInv
  <2> QED BY <2>1, <2>2, <2>3 DEF WebTypeOK
<1> QED BY <1>1, InitQueues, NextQueues, AlwaysIInv, PTL DEF WSpec
=============================================================================
