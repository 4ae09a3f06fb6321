------------------------- MODULE MiniTextTestProofs -------------------------
(***************************************************************************)
(* Proofs about MiniTextTest, for any number of request ids, calls under   *)
(* way and faults.  None of the three invariants is inductive: each rests  *)
(* on what the operation counter of TextTestLifecycle guarantees, that at  *)
(* most one call is current and that it is about the request of the page.  *)
(***************************************************************************)
EXTENDS MiniTextTest, TLAPS

CallKinds == {"id", "start", "status"}
CallAnswers == {"none", "running", "succeeded", "failed", "unauthorized", "error", "notfound", "refused"}
PostStates == {"none", "sent", "relaying", "done"}
AttemptStates == {"none", "running", "succeeded", "failed"}

PageSet == [active : BOOLEAN, fg : BOOLEAN, pid : Nat, starting : BOOLEAN, timer : BOOLEAN,
            due : BOOLEAN, notice : BOOLEAN]
CallSet == [kind : CallKinds, id : Nat, cur : BOOLEAN, mine : BOOLEAN, sess : Nat, ans : CallAnswers]
Clients == [p : PageSet, sess : Nat, inFlight : SUBSET Nat, calls : SUBSET CallSet, stored : Nat,
            store : BOOLEAN, unknown : SUBSET Nat, unkept : SUBSET Nat]

\* All ids the client w knows of were created, n of them so far.
Known(w, n) ==
    /\ w.stored <= n /\ w.p.pid <= n
    /\ \A c \in w.calls : 1 <= c.id /\ c.id <= n
    /\ \A i \in w.unknown : 1 <= i /\ i <= n

\* An id that is being created is created once, and its POST s[id] was not sent.
Fresh(w, s) ==
    \A c \in w.calls : c.kind = "id" =>
        /\ s[c.id] = "none" /\ c.ans = "none"
        /\ \A d \in w.calls : d.kind = "id" /\ d.id = c.id => d = c

\* At most one call is current; it was begun by the page that is shown, and it
\* is about the request of that page.
Current(w) ==
    \A c \in w.calls : c.cur =>
        /\ c.mine /\ w.p.active /\ w.p.fg
        /\ w.p.pid = IF c.kind = "id" THEN 0 ELSE c.id
        /\ \A d \in w.calls : d.cur => d = c

\* What the user was not told of is the request of the page that is open.
InStep(w) == w.p.active => w.unknown \subseteq {w.p.pid} /\ (w.sess = 0 => w.unknown = {})

\* It is in storage, or storage did not take it and its page is still open.
Remembered(w) == \A i \in w.unknown : i = w.stored \/ (w.p.active /\ i \in w.unkept)

\* The two halves of PendingWatched.
Watched(w) ==
    (w.p.active /\ w.p.fg /\ w.p.pid # 0) =>
        w.p.timer \/ w.p.notice \/ \E c \in w.calls : c.mine /\ (c.cur \/ c.kind # "status")

Released(w) == w.p.starting => \E c \in w.calls : c.mine /\ c.kind # "status"

Sound(w, n, s) ==
    w \in Clients /\ Known(w, n) /\ Fresh(w, s) /\ Current(w) /\ InStep(w) /\ Remembered(w)

\* An attempt that was relayed has a row.
ServerInv ==
    /\ post \in [Ids -> PostStates] /\ att \in [Ids -> AttemptStates] /\ relays \in [Ids -> {0, 1}]
    /\ by \in [Ids -> Nat] /\ valid \in Nat /\ nid \in Nat /\ nid <= MaxIds
    /\ \A i \in Ids : /\ att[i] = "none" => relays[i] = 0
                      /\ i > nid => post[i] = "none"

ClientInv == Sound(mini, nid, post) /\ Watched(mini) /\ Released(mini)

IInv == ServerInv /\ ClientInv

-----------------------------------------------------------------------------
(* The methods of the lifecycle: what they change of a client w. *)

LEMMA ClientType ==
    ASSUME NEW w \in Clients
    PROVE  w.p \in PageSet /\ w.calls \subseteq CallSet /\ w.sess \in Nat /\ w.stored \in Nat /\ w.unknown \subseteq Nat
BY DEF Clients

\* Writing to storage changes at most what is stored.
LEMMA RememberIs ==
    ASSUME NEW w \in Clients, NEW i \in Nat
    PROVE  LET y == Remember(w, i) IN
           /\ y \in Clients /\ y.p = w.p /\ y.calls = w.calls /\ y.sess = w.sess /\ y.store = w.store
           /\ y.stored \in {i, w.stored} /\ (w.store => y.stored = i)
           /\ y.unknown = w.unknown /\ y.unkept = w.unkept /\ y.inFlight = w.inFlight
BY DEF Remember, Clients

LEMMA CallsType ==
    ASSUME NEW c \in CallSet
    PROVE  c.kind \in CallKinds /\ c.id \in Nat /\ c.cur \in BOOLEAN /\ c.mine \in BOOLEAN /\ c.ans \in CallAnswers
BY DEF CallSet

\* A call that is no longer current is otherwise the same.
LEMMA OutdatedIs ==
    ASSUME NEW cs \in SUBSET CallSet
    PROVE  /\ Outdated(cs) \subseteq CallSet
           /\ \A d \in Outdated(cs) : ~d.cur /\ \E c \in cs : /\ d = [c EXCEPT !.cur = FALSE]
                                                              /\ d.kind = c.kind /\ d.id = c.id /\ d.mine = c.mine
                                                              /\ d.ans = c.ans
           /\ \A c \in cs : \E d \in Outdated(cs) : d.kind = c.kind /\ d.id = c.id /\ d.mine = c.mine
<1>1. ASSUME NEW c \in cs
      PROVE  LET d == [c EXCEPT !.cur = FALSE] IN
             d \in CallSet /\ d.cur = FALSE /\ d.kind = c.kind /\ d.id = c.id /\ d.mine = c.mine /\ d.ans = c.ans
  BY DEF CallSet
<1> QED BY <1>1 DEF Outdated

\* The same page and the same rest of the client but for the calls.
LEMMA ClearIs ==
    ASSUME NEW w \in Clients
    PROVE  LET y == ClearPending(w) IN
           /\ y \in Clients /\ y.calls = w.calls /\ y.sess = w.sess /\ y.stored \in {0, w.stored}
           /\ y.unknown = w.unknown
           /\ y.p.pid = 0 /\ y.p.active = w.p.active /\ y.p.fg = w.p.fg /\ y.p.starting = w.p.starting
<1> DEFINE r == Remember(w, 0)
           q == [r.p EXCEPT !.pid = 0]
<1>1. /\ r \in Clients /\ r.p = w.p /\ r.calls = w.calls /\ r.sess = w.sess /\ r.stored \in {0, w.stored}
      /\ r.unknown = w.unknown
  BY RememberIs
<1>2. ClearPending(w) = [r EXCEPT !.p = q]
  BY <1>1 DEF ClearPending, Clients
<1> HIDE DEF r
<1>3. q \in PageSet /\ q.pid = 0 /\ q.active = w.p.active /\ q.fg = w.p.fg /\ q.starting = w.p.starting
  BY <1>1, ClientType DEF PageSet
<1> HIDE DEF q
<1>4. LET y == [r EXCEPT !.p = q] IN
      /\ y \in Clients /\ y.p = q /\ y.calls = r.calls /\ y.sess = r.sess /\ y.stored = r.stored
      /\ y.unknown = r.unknown
  BY <1>1, <1>3 DEF Clients
<1> QED BY <1>1, <1>2, <1>3, <1>4

LEMMA HideIs ==
    ASSUME NEW w \in Clients
    PROVE  LET y == HidePage(w) IN
           /\ y \in Clients /\ y.calls = Outdated(w.calls) /\ y.sess = w.sess /\ y.stored = w.stored
           /\ y.unknown = w.unknown /\ y.unkept = w.unkept
           /\ y.p.pid = w.p.pid /\ y.p.active = w.p.active /\ y.p.fg = FALSE /\ y.p.starting = w.p.starting
<1> DEFINE q == [w.p EXCEPT !.fg = FALSE, !.timer = FALSE]
           z == Outdated(w.calls)
<1>1. q \in PageSet /\ q.pid = w.p.pid /\ q.active = w.p.active /\ q.fg = FALSE /\ q.starting = w.p.starting
  BY ClientType DEF PageSet
<1>2. HidePage(w) = [w EXCEPT !.p = q, !.calls = z]
  BY DEF HidePage, Clients
<1>3. z \subseteq CallSet
  BY ClientType, OutdatedIs
<1> HIDE DEF q, z
<1>4. [w EXCEPT !.p = q, !.calls = z] \in Clients
  BY <1>1, <1>3 DEF Clients
<1> QED BY <1>1, <1>2, <1>4 DEF Clients, z

LEMMA ResetIs ==
    ASSUME NEW w \in Clients
    PROVE  LET y == ResetSession(w) IN
           /\ y \in Clients /\ y.calls = Outdated(w.calls) /\ y.sess = w.sess /\ y.stored \in {0, w.stored}
           /\ y.unknown = w.unknown /\ y.p.pid = 0 /\ y.p.active = FALSE /\ y.p.starting = w.p.starting
<1> DEFINE h == HidePage(w)
           q == [h.p EXCEPT !.active = FALSE]
           z == [h EXCEPT !.p = q]
<1>1. /\ h \in Clients /\ h.calls = Outdated(w.calls) /\ h.sess = w.sess /\ h.unknown = w.unknown
      /\ h.stored = w.stored /\ h.p.starting = w.p.starting
  BY HideIs
<1>2. ResetSession(w) = ClearPending(z)
  BY <1>1 DEF ResetSession, Clients
<1> HIDE DEF h
<1>3. q \in PageSet /\ q.active = FALSE /\ q.starting = w.p.starting
  BY <1>1, ClientType DEF PageSet
<1> HIDE DEF q
<1>4. /\ z \in Clients /\ z.p = q /\ z.calls = h.calls /\ z.sess = h.sess /\ z.stored = h.stored
      /\ z.unknown = h.unknown
  BY <1>1, <1>3 DEF Clients
<1> HIDE DEF z
<1> QED BY <1>1, <1>2, <1>3, <1>4, ClearIs

LEMMA EndIs ==
    ASSUME NEW w \in Clients
    PROVE  LET y == EndSession(w) IN
           /\ y \in Clients /\ y.calls = w.calls /\ y.sess = 0 /\ y.stored \in {0, w.stored}
           /\ y.unknown = {} /\ y.p = w.p
<1> DEFINE r == Remember(w, 0)
<1>1. r \in Clients /\ r.p = w.p /\ r.calls = w.calls /\ r.stored \in {0, w.stored}
  BY RememberIs
<1>2. EndSession(w) = [r EXCEPT !.sess = 0, !.unknown = {}]
  BY DEF EndSession
<1> HIDE DEF r
<1>3. LET y == [r EXCEPT !.sess = 0, !.unknown = {}] IN
      y \in Clients /\ y.p = r.p /\ y.calls = r.calls /\ y.stored = r.stored /\ y.sess = 0 /\ y.unknown = {}
  BY <1>1 DEF Clients
<1> QED BY <1>1, <1>2, <1>3

LEMMA SchedulePollIs ==
    ASSUME NEW w \in Clients
    PROVE  LET y == SchedulePoll(w) IN
           /\ y \in Clients /\ y.calls = w.calls /\ y.sess = w.sess /\ y.stored = w.stored /\ y.unknown = w.unknown
           /\ y.unkept = w.unkept /\ y.p.pid = w.p.pid /\ y.p.active = w.p.active /\ y.p.fg = w.p.fg /\ y.p.starting = w.p.starting
           /\ y.p.active /\ y.p.fg /\ y.p.pid # 0 => y.p.timer \/ y.p.notice
<1>1. CASE ~w.p.active \/ ~w.p.fg \/ w.p.pid = 0
  BY <1>1 DEF SchedulePoll
<1>2. CASE ~(~w.p.active \/ ~w.p.fg \/ w.p.pid = 0)
  <2> DEFINE q == [w.p EXCEPT !.timer = ~w.p.due, !.notice = w.p.due]
  <2>1. /\ q \in PageSet /\ q.pid = w.p.pid /\ q.active = w.p.active /\ q.fg = w.p.fg /\ q.starting = w.p.starting
        /\ q.timer = (~w.p.due) /\ q.notice = w.p.due
    BY ClientType DEF PageSet
  <2>2. SchedulePoll(w) = [w EXCEPT !.p = q]
    BY <1>2 DEF SchedulePoll, Clients
  <2>3. q.timer \/ q.notice
    BY <2>1
  <2> HIDE DEF q
  <2>4. LET y == [w EXCEPT !.p = q] IN y \in Clients /\ y.p = q /\ y.calls = w.calls /\ y.sess = w.sess /\ y.stored = w.stored /\ y.unknown = w.unknown /\ y.unkept = w.unkept
    BY <2>1 DEF Clients
  <2> QED BY <2>1, <2>2, <2>3, <2>4
<1> QED BY <1>1, <1>2

NewCall(w, kind, id) ==
    [kind |-> kind, id |-> id, cur |-> TRUE, mine |-> TRUE, sess |-> w.sess, ans |-> "none"]

LEMMA AddCallIs ==
    ASSUME NEW w \in Clients, NEW kind \in CallKinds, NEW id \in Nat
    PROVE  LET y == AddCall(w, kind, id)
               c == NewCall(w, kind, id) IN
           /\ y \in Clients /\ y.calls = w.calls \cup {c} /\ y.sess = w.sess /\ y.stored = w.stored
           /\ y.unknown = w.unknown /\ y.unkept = w.unkept /\ y.p = w.p
           /\ c \in CallSet /\ c.kind = kind /\ c.id = id /\ c.cur = TRUE /\ c.mine = TRUE /\ c.ans = "none"
<1> DEFINE c == NewCall(w, kind, id)
<1>1. c \in CallSet /\ c.kind = kind /\ c.id = id /\ c.cur = TRUE /\ c.mine = TRUE /\ c.ans = "none"
  BY ClientType DEF NewCall, CallSet, CallAnswers
<1>2. AddCall(w, kind, id) = [w EXCEPT !.calls = @ \cup {c}]
  BY DEF AddCall, NewCall
<1> HIDE DEF c
<1>3. LET y == [w EXCEPT !.calls = @ \cup {c}] IN
      y \in Clients /\ y.calls = w.calls \cup {c} /\ y.sess = w.sess /\ y.stored = w.stored /\ y.unknown = w.unknown /\ y.unkept = w.unkept /\ y.p = w.p
  BY <1>1 DEF Clients
<1> QED BY <1>1, <1>2, <1>3 DEF c

LEMMA AddedCall ==
    ASSUME NEW w \in Clients, NEW id \in Nat
    PROVE  \A d \in AddCall(w, "start", id).calls : d \in w.calls \/ d.kind = "start"
BY DEF AddCall, Clients

-----------------------------------------------------------------------------
(* The methods keep a client sound. *)

\* Calls that are no longer current need no page.
LEMMA OutdatedSound ==
    ASSUME NEW w \in Clients, NEW n \in Nat, NEW s, Known(w, n), Fresh(w, s), NEW y \in Clients,
           y.calls = Outdated(w.calls)
    PROVE  /\ \A c \in y.calls : 1 <= c.id /\ c.id <= n
           /\ Fresh(y, s) /\ Current(y)
           /\ Released(w) /\ y.p.starting = w.p.starting => Released(y)
<1>1. w.calls \in SUBSET CallSet
  BY ClientType
<1>2. \A c \in y.calls : 1 <= c.id /\ c.id <= n
  BY <1>1, OutdatedIs DEF Known
<1>3. Fresh(y, s)
  <2> SUFFICES ASSUME NEW d \in y.calls, d.kind = "id"
               PROVE  s[d.id] = "none" /\ d.ans = "none" /\ \A e \in y.calls : e.kind = "id" /\ e.id = d.id => e = d
    BY DEF Fresh
  <2>1. PICK c \in w.calls : d = [c EXCEPT !.cur = FALSE] /\ d.kind = c.kind /\ d.id = c.id /\ d.ans = c.ans
    BY <1>1, OutdatedIs
  <2>2. ASSUME NEW e \in y.calls, e.kind = "id", e.id = d.id PROVE e = d
    <3>1. PICK b \in w.calls : e = [b EXCEPT !.cur = FALSE] /\ e.kind = b.kind /\ e.id = b.id
      BY <1>1, OutdatedIs
    <3>2. b = c
      BY <2>1, <2>2, <3>1 DEF Fresh
    <3> QED BY <2>1, <3>1, <3>2
  <2> QED BY <2>1, <2>2 DEF Fresh
<1>4. Current(y)
  BY <1>1, OutdatedIs DEF Current
<1>5. Released(w) /\ y.p.starting = w.p.starting => Released(y)
  BY <1>1, OutdatedIs DEF Released
<1> QED BY <1>2, <1>3, <1>4, <1>5

LEMMA HideSound ==
    ASSUME NEW w, NEW n \in Nat, NEW s, Sound(w, n, s)
    PROVE  LET y == HidePage(w) IN Sound(y, n, s) /\ Watched(y) /\ (Released(w) => Released(y))
<1> DEFINE y == HidePage(w)
<1>0. w \in Clients /\ Known(w, n) /\ Fresh(w, s)
  BY DEF Sound
<1>1. /\ y \in Clients /\ y.calls = Outdated(w.calls) /\ y.sess = w.sess /\ y.stored = w.stored
      /\ y.unknown = w.unknown /\ y.unkept = w.unkept
      /\ y.p.pid = w.p.pid /\ y.p.active = w.p.active /\ y.p.fg = FALSE /\ y.p.starting = w.p.starting
  BY <1>0, HideIs
<1> HIDE DEF y
<1>2. /\ \A c \in y.calls : 1 <= c.id /\ c.id <= n
      /\ Fresh(y, s) /\ Current(y) /\ (Released(w) => Released(y))
  BY <1>0, <1>1, OutdatedSound
<1>3. Known(y, n)
  BY <1>0, <1>1, <1>2 DEF Known
<1>4. InStep(y) /\ Remembered(y)
  BY <1>1 DEF Sound, InStep, Remembered
<1>5. Watched(y)
  BY <1>1 DEF Watched
<1> QED BY <1>1, <1>2, <1>3, <1>4, <1>5 DEF Sound, y

LEMMA ResetSound ==
    ASSUME NEW w, NEW n \in Nat, NEW s, Sound(w, n, s), w.unknown = {}
    PROVE  LET y == ResetSession(w) IN Sound(y, n, s) /\ Watched(y) /\ (Released(w) => Released(y))
<1> DEFINE y == ResetSession(w)
<1>0. w \in Clients /\ Known(w, n) /\ Fresh(w, s)
  BY DEF Sound
<1>1. /\ y \in Clients /\ y.calls = Outdated(w.calls) /\ y.sess = w.sess /\ y.stored \in {0, w.stored}
      /\ y.unknown = {} /\ y.p.pid = 0 /\ y.p.active = FALSE /\ y.p.starting = w.p.starting
  BY <1>0, ResetIs
<1> HIDE DEF y
<1>2. /\ \A c \in y.calls : 1 <= c.id /\ c.id <= n
      /\ Fresh(y, s) /\ Current(y) /\ (Released(w) => Released(y))
  BY <1>0, <1>1, OutdatedSound
<1>3. Known(y, n)
  BY <1>0, <1>1, <1>2 DEF Known
<1>4. InStep(y) /\ Remembered(y)
  BY <1>1 DEF InStep, Remembered
<1>5. Watched(y)
  BY <1>1 DEF Watched
<1> QED BY <1>1, <1>2, <1>3, <1>4, <1>5 DEF Sound, y

LEMMA EndSound ==
    ASSUME NEW w, NEW n \in Nat, NEW s, Sound(w, n, s)
    PROVE  LET y == EndSession(w) IN
           /\ Sound(y, n, s) /\ (Released(w) => Released(y)) /\ (Watched(w) => Watched(y))
           /\ y.unknown = {} /\ y.p = w.p /\ y.sess = 0 /\ y.calls = w.calls
<1> DEFINE y == EndSession(w)
<1>0. w \in Clients /\ Known(w, n) /\ Fresh(w, s) /\ Current(w)
  BY DEF Sound
<1>1. /\ y \in Clients /\ y.calls = w.calls /\ y.sess = 0 /\ y.stored \in {0, w.stored}
      /\ y.unknown = {} /\ y.p = w.p
  BY <1>0, EndIs
<1> HIDE DEF y
<1>2. Known(y, n) /\ Fresh(y, s) /\ Current(y) /\ InStep(y) /\ Remembered(y)
  BY <1>0, <1>1 DEF Known, Fresh, Current, InStep, Remembered
<1>3. (Released(w) => Released(y)) /\ (Watched(w) => Watched(y))
  BY <1>1 DEF Released, Watched
<1> QED BY <1>1, <1>2, <1>3 DEF Sound, y

LEMMA SchedulePollSound ==
    ASSUME NEW w, NEW n \in Nat, NEW s, Sound(w, n, s)
    PROVE  LET y == SchedulePoll(w) IN Sound(y, n, s) /\ Watched(y) /\ (Released(w) => Released(y))
<1> DEFINE y == SchedulePoll(w)
<1>0. w \in Clients /\ Known(w, n) /\ Fresh(w, s) /\ Current(w) /\ InStep(w) /\ Remembered(w)
  BY DEF Sound
<1>1. /\ y \in Clients /\ y.calls = w.calls /\ y.sess = w.sess /\ y.stored = w.stored /\ y.unknown = w.unknown
      /\ y.unkept = w.unkept /\ y.p.pid = w.p.pid /\ y.p.active = w.p.active /\ y.p.fg = w.p.fg /\ y.p.starting = w.p.starting
      /\ y.p.active /\ y.p.fg /\ y.p.pid # 0 => y.p.timer \/ y.p.notice
  BY <1>0, SchedulePollIs
<1> HIDE DEF y
<1>2. Known(y, n) /\ Fresh(y, s) /\ Current(y) /\ InStep(y) /\ Remembered(y)
  BY <1>0, <1>1 DEF Known, Fresh, Current, InStep, Remembered
<1>3. (Released(w) => Released(y)) /\ Watched(y)
  BY <1>1 DEF Released, Watched
<1> QED BY <1>1, <1>2, <1>3 DEF Sound, y

\* A call is begun for the page that is shown, when no other call is current.
LEMMA AddCallSound ==
    ASSUME NEW w, NEW n \in Nat, NEW s, Sound(w, n, s), NEW kind \in CallKinds, NEW id \in Nat,
           1 <= id, id <= n, \A c \in w.calls : ~c.cur, w.p.active, w.p.fg,
           w.p.pid = IF kind = "id" THEN 0 ELSE id,
           kind = "id" => s[id] = "none" /\ \A c \in w.calls : c.id # id
    PROVE  LET y == AddCall(w, kind, id) IN
           /\ Sound(y, n, s) /\ Watched(y) /\ y.p = w.p /\ y.unknown = w.unknown /\ y.stored = w.stored /\ y.sess = w.sess
           /\ Released(w) \/ kind # "status" => Released(y)
<1> DEFINE y == AddCall(w, kind, id)
           c == NewCall(w, kind, id)
<1>0. w \in Clients /\ Known(w, n) /\ Fresh(w, s) /\ InStep(w) /\ Remembered(w)
  BY DEF Sound
<1>1. /\ y \in Clients /\ y.calls = w.calls \cup {c} /\ y.sess = w.sess /\ y.stored = w.stored
      /\ y.unknown = w.unknown /\ y.unkept = w.unkept /\ y.p = w.p
      /\ c \in CallSet /\ c.kind = kind /\ c.id = id /\ c.cur = TRUE /\ c.mine = TRUE /\ c.ans = "none"
  BY <1>0, AddCallIs
<1> HIDE DEF y, c
<1>2. Known(y, n)
  BY <1>0, <1>1 DEF Known
<1>3. Fresh(y, s)
  BY <1>0, <1>1 DEF Fresh
<1>4. Current(y)
  BY <1>1 DEF Current
<1>5. InStep(y) /\ Remembered(y)
  BY <1>0, <1>1 DEF InStep, Remembered
<1>6. Watched(y) /\ (Released(w) \/ kind # "status" => Released(y))
  BY <1>1 DEF Watched, Released
<1> QED BY <1>1, <1>2, <1>3, <1>4, <1>5, <1>6 DEF Sound, y

\* The page changes in a way that no call depends on.
LEMMA PageSound ==
    ASSUME NEW w, NEW n \in Nat, NEW s, Sound(w, n, s), NEW q \in PageSet,
           q.pid = w.p.pid, q.active = w.p.active, w.p.fg => q.fg
    PROVE  LET y == [w EXCEPT !.p = q] IN
           /\ Sound(y, n, s) /\ y.p = q /\ y.calls = w.calls /\ y.sess = w.sess
           /\ q.starting = w.p.starting /\ Released(w) => Released(y)
           /\ ~q.starting => Released(y)
<1> DEFINE y == [w EXCEPT !.p = q]
<1>0. w \in Clients /\ Known(w, n) /\ Fresh(w, s) /\ Current(w) /\ InStep(w) /\ Remembered(w)
  BY DEF Sound
<1>1. y \in Clients /\ y.calls = w.calls /\ y.sess = w.sess /\ y.stored = w.stored /\ y.unknown = w.unknown /\ y.unkept = w.unkept /\ y.p = q
  BY <1>0 DEF Clients
<1> HIDE DEF y
<1>2. Known(y, n) /\ Fresh(y, s) /\ InStep(y) /\ Remembered(y)
  BY <1>0, <1>1 DEF Known, Fresh, InStep, Remembered
<1>3. Current(y)
  BY <1>0, <1>1 DEF Current
<1>4. (q.starting = w.p.starting /\ Released(w) => Released(y)) /\ (~q.starting => Released(y))
  BY <1>1 DEF Released
<1> QED BY <1>1, <1>2, <1>3, <1>4 DEF Sound, y

LEMMA CheckStatusSound ==
    ASSUME NEW w, NEW n \in Nat, NEW s, Sound(w, n, s), Released(w)
    PROVE  LET y == CheckStatus(w) IN Sound(y, n, s) /\ Watched(y) /\ Released(y)
<1>0. w \in Clients /\ w.p \in PageSet /\ w.p.pid \in Nat /\ Known(w, n)
  BY ClientType DEF Sound, PageSet
<1>1. CASE ~w.p.active \/ ~w.p.fg \/ w.p.pid = 0
  BY <1>1 DEF CheckStatus, Watched
<1>2. CASE w.p.active /\ w.p.fg /\ w.p.pid # 0 /\ (w.p.starting \/ w.p.pid \in w.inFlight)
  BY <1>2, SchedulePollSound DEF CheckStatus
<1>3. CASE w.p.active /\ w.p.fg /\ w.p.pid # 0 /\ ~(w.p.starting \/ w.p.pid \in w.inFlight) /\ w.p.due
  <2> DEFINE q == [w.p EXCEPT !.timer = FALSE, !.notice = TRUE]
             y == [w EXCEPT !.p = q]
  <2>1. CheckStatus(w) = y
    BY <1>0, <1>3 DEF CheckStatus, Clients
  <2>2. q \in PageSet /\ q.pid = w.p.pid /\ q.active = w.p.active /\ q.fg = w.p.fg /\ q.starting = w.p.starting /\ q.notice = TRUE
    BY <1>0 DEF PageSet
  <2> HIDE DEF q
  <2>3. Sound(y, n, s) /\ Released(y) /\ y.p = q
    BY <2>2, PageSound
  <2> HIDE DEF y
  <2> QED BY <2>1, <2>2, <2>3 DEF Watched
<1>4. CASE w.p.active /\ w.p.fg /\ w.p.pid # 0 /\ ~(w.p.starting \/ w.p.pid \in w.inFlight) /\ ~w.p.due
  <2> DEFINE q == [w.p EXCEPT !.timer = FALSE]
             o == Outdated(w.calls)
             x == [w EXCEPT !.p = q, !.calls = o]
  <2>1. CheckStatus(w) = IF w.sess = 0 THEN ResetSession(EndSession(x)) ELSE AddCall(x, "status", w.p.pid)
    BY <1>0, <1>4 DEF CheckStatus, Clients
  <2>2. q \in PageSet /\ q.pid = w.p.pid /\ q.active = w.p.active /\ q.fg = w.p.fg /\ q.starting = w.p.starting
    BY <1>0 DEF PageSet
  <2>3. o \subseteq CallSet /\ \A d \in o : ~d.cur
    BY <1>0, ClientType, OutdatedIs
  <2> HIDE DEF q, o
  <2>4. /\ x \in Clients /\ x.p = q /\ x.calls = o /\ x.sess = w.sess /\ x.stored = w.stored
        /\ x.unknown = w.unknown /\ x.unkept = w.unkept
    BY <1>0, <2>2, <2>3 DEF Clients
  <2> HIDE DEF x
  <2>5. /\ \A c \in x.calls : 1 <= c.id /\ c.id <= n
        /\ Fresh(x, s) /\ Current(x) /\ Released(x)
    BY <1>0, <2>2, <2>4, OutdatedSound DEF Sound, o
  <2>6. Known(x, n) /\ InStep(x) /\ Remembered(x)
    BY <1>0, <2>2, <2>4, <2>5 DEF Sound, Known, InStep, Remembered
  <2>7. Sound(x, n, s)
    BY <2>4, <2>5, <2>6 DEF Sound
  <2>8. CASE w.sess = 0
    <3> DEFINE e == EndSession(x)
    <3>1. Sound(e, n, s) /\ Released(e) /\ e.unknown = {}
      BY <2>5, <2>7, EndSound
    <3>2. CheckStatus(w) = ResetSession(e)
      BY <2>1, <2>8
    <3> HIDE DEF e
    <3> QED BY <3>1, <3>2, ResetSound
  <2>9. CASE w.sess # 0
    <3>1. CheckStatus(w) = AddCall(x, "status", w.p.pid)
      BY <2>1, <2>9
    <3>2. "status" \in CallKinds /\ 1 <= w.p.pid /\ w.p.pid <= n
      BY <1>0, <1>4 DEF CallKinds, Known
    <3>3. x.p.active /\ x.p.fg /\ x.p.pid = w.p.pid /\ \A c \in x.calls : ~c.cur
      BY <1>4, <2>2, <2>3, <2>4
    <3> QED BY <1>0, <2>5, <2>7, <3>1, <3>2, <3>3, AddCallSound
  <2> QED BY <2>8, <2>9
<1> QED BY <1>0, <1>1, <1>2, <1>3, <1>4

\* A call has returned.
LEMMA WithoutSound ==
    ASSUME NEW w, NEW n \in Nat, NEW s, Sound(w, n, s), NEW c \in w.calls
    PROVE  LET y == [w EXCEPT !.calls = @ \ {c}] IN
           /\ Sound(y, n, s) /\ y.p = w.p /\ y.sess = w.sess /\ y.stored = w.stored /\ y.unknown = w.unknown
           /\ y.calls = w.calls \ {c}
           /\ c.cur => \A d \in y.calls : ~d.cur
           /\ Released(w) /\ (~c.mine \/ c.kind = "status") => Released(y)
           /\ Watched(w) /\ (~c.mine \/ (c.kind = "status" /\ ~c.cur)) => Watched(y)
<1> DEFINE y == [w EXCEPT !.calls = @ \ {c}]
<1>0. w \in Clients /\ Known(w, n) /\ Fresh(w, s) /\ Current(w) /\ InStep(w) /\ Remembered(w)
  BY DEF Sound
<1>1. /\ y \in Clients /\ y.p = w.p /\ y.sess = w.sess /\ y.stored = w.stored /\ y.unknown = w.unknown
      /\ y.unkept = w.unkept /\ y.calls = w.calls \ {c}
  BY <1>0 DEF Clients
<1> HIDE DEF y
<1>2. Known(y, n) /\ InStep(y) /\ Remembered(y)
  BY <1>0, <1>1 DEF Known, InStep, Remembered
<1>3. Fresh(y, s)
  BY <1>0, <1>1 DEF Fresh
<1>4. Current(y) /\ (c.cur => \A d \in y.calls : ~d.cur)
  BY <1>0, <1>1 DEF Current
<1>5. Released(w) /\ (~c.mine \/ c.kind = "status") => Released(y)
  BY <1>1 DEF Released
<1>6. Watched(w) /\ (~c.mine \/ (c.kind = "status" /\ ~c.cur)) => Watched(y)
  BY <1>1 DEF Watched
<1> QED BY <1>1, <1>2, <1>3, <1>4, <1>5, <1>6 DEF Sound, y

LEMMA AnsweredSound ==
    ASSUME NEW w, NEW n \in Nat, NEW s, Sound(w, n, s), NEW c \in w.calls
    PROVE  LET y == Answered(w, c) IN
           /\ Sound(y, n, s) /\ y.p = w.p /\ y.calls = w.calls \ {c}
           /\ c.ans = "unauthorized" => y.unknown = {}
           /\ c.cur => \A d \in y.calls : ~d.cur
           /\ Released(w) /\ (~c.mine \/ c.kind = "status") => Released(y)
           /\ Watched(w) /\ (~c.mine \/ (c.kind = "status" /\ ~c.cur)) => Watched(y)
<1> DEFINE x == [w EXCEPT !.calls = @ \ {c}]
<1>1. /\ Sound(x, n, s) /\ x.p = w.p
      /\ x.calls = w.calls \ {c}
      /\ c.cur => \A d \in x.calls : ~d.cur
      /\ Released(w) /\ (~c.mine \/ c.kind = "status") => Released(x)
      /\ Watched(w) /\ (~c.mine \/ (c.kind = "status" /\ ~c.cur)) => Watched(x)
  BY WithoutSound
<1>2. Answered(w, c) = IF c.ans = "unauthorized" THEN EndSession(x) ELSE x
  BY DEF Answered
<1> HIDE DEF x
<1> QED BY <1>1, <1>2, EndSound

\* What a current answer makes of the page that waits for it.
LEMMA ToldSound ==
    ASSUME NEW w, NEW n \in Nat, NEW s, Sound(w, n, s), NEW c \in CallSet, c.kind # "id", c.ans # "none", c.cur,
           c.ans = "unauthorized" => w.unknown = {}, \A d \in w.calls : ~d.cur,
           w.p.active, w.p.fg, w.p.pid = c.id
    PROVE  LET y == Told(w, c) IN
           Sound(y, n, s) /\ Watched(y) /\ (Released(w) => Released(y)) /\ y.p.starting = w.p.starting
<1> DEFINE h == Handled(w, c.ans)
           u == IF c.ans \in Terminal \cup {"refused"} THEN h.unknown \ {c.id} ELSE h.unknown
           y == [h EXCEPT !.unknown = u]
<1>0. /\ w \in Clients /\ Known(w, n) /\ Fresh(w, s) /\ Current(w) /\ InStep(w) /\ Remembered(w)
      /\ w.p \in PageSet /\ w.unknown \subseteq Nat
  BY ClientType DEF Sound
<1>1. Told(w, c) = y
  BY DEF Told
<1>2. CASE c.ans \in {"running", "error", "notfound"}
  <2>1. h = SchedulePoll(w) /\ u = h.unknown
    BY <1>2 DEF Handled, Retryable, Terminal
  <2>2. Sound(h, n, s) /\ Watched(h) /\ (Released(w) => Released(h)) /\ h.p.starting = w.p.starting
    BY <1>0, <2>1, SchedulePollSound, SchedulePollIs
  <2>3. y = h
    BY <2>1, <2>2 DEF Sound, Clients
  <2> QED BY <1>1, <2>2, <2>3
<1>3. CASE c.ans = "unauthorized"
  <2>1. h = ResetSession(w) /\ u = h.unknown
    BY <1>3 DEF Handled, Retryable, Terminal
  <2>2. Sound(h, n, s) /\ Watched(h) /\ (Released(w) => Released(h)) /\ h.p.starting = w.p.starting
    <3>1. w.unknown = {}
      BY <1>3
    <3>2. LET r == ResetSession(w) IN Sound(r, n, s) /\ Watched(r) /\ (Released(w) => Released(r))
      BY <3>1, ResetSound
    <3>3. ResetSession(w).p.starting = w.p.starting
      BY <1>0, ResetIs
    <3> HIDE DEF h
    <3> QED BY <2>1, <3>2, <3>3
  <2>3. y = h
    BY <2>1, <2>2 DEF Sound, Clients
  <2> QED BY <1>1, <2>2, <2>3
<1>4. CASE c.ans \in {"succeeded", "failed", "refused"}
  <2> DEFINE z == ClearPending(w)
             q == [z.p EXCEPT !.timer = FALSE]
             v == w.unknown \ {c.id}
  <2>1. /\ z \in Clients /\ z.calls = w.calls /\ z.sess = w.sess /\ z.stored \in {0, w.stored} /\ z.unknown = w.unknown
        /\ z.p.pid = 0 /\ z.p.active = w.p.active /\ z.p.fg = w.p.fg /\ z.p.starting = w.p.starting
    BY <1>0, ClearIs
  <2>2. h = z \/ h = [z EXCEPT !.p.timer = FALSE]
    BY <1>4 DEF Handled, Retryable, Terminal
  <2> HIDE DEF h, z
  <2>3. q \in PageSet /\ q.pid = 0 /\ q.active = w.p.active /\ q.fg = w.p.fg /\ q.starting = w.p.starting
    BY <2>1, ClientType DEF PageSet
  <2>4. h = z \/ h = [z EXCEPT !.p = q]
    BY <2>1, <2>2 DEF Clients
  <2> HIDE DEF q
  <2>5. /\ h \in Clients /\ h.calls = w.calls /\ h.sess = w.sess /\ h.stored \in {0, w.stored} /\ h.unknown = w.unknown
        /\ h.p.pid = 0 /\ h.p.active = w.p.active /\ h.p.fg = w.p.fg /\ h.p.starting = w.p.starting
    BY <2>1, <2>3, <2>4 DEF Clients
  <2>6. u = v
    BY <1>4, <2>5 DEF Terminal
  <2>7. v = {}
    BY <1>0 DEF InStep
  <2> HIDE DEF u, v
  <2>8. y \in Clients /\ y.calls = h.calls /\ y.sess = h.sess /\ y.stored = h.stored /\ y.unknown = {} /\ y.p = h.p
    BY <2>5, <2>6, <2>7 DEF Clients
  <2> HIDE DEF y
  <2>9. Known(y, n) /\ Fresh(y, s) /\ Current(y) /\ InStep(y) /\ Remembered(y)
    BY <1>0, <2>5, <2>8 DEF Known, Fresh, Current, InStep, Remembered
  <2>10. Watched(y) /\ (Released(w) => Released(y))
    BY <2>5, <2>8 DEF Watched, Released
  <2> QED BY <1>1, <2>5, <2>8, <2>9, <2>10 DEF Sound
<1> QED BY <1>2, <1>3, <1>4, CallsType DEF CallAnswers

\* The finally of submit sets the button free, and looks after the request
\* when the answer came too late for its own page.
LEMMA FinallySound ==
    ASSUME NEW w, NEW n \in Nat, NEW s, Sound(w, n, s), NEW c \in CallSet,
           c.mine \/ Released(w), (c.mine /\ ~c.cur) \/ Watched(w)
    PROVE  LET y == Finally(w, c) IN Sound(y, n, s) /\ Watched(y) /\ Released(y)
<1> DEFINE q == [w.p EXCEPT !.starting = IF c.mine THEN FALSE ELSE @]
           i == w.inFlight \ {c.id}
           z == [w EXCEPT !.inFlight = i]
           x == [z EXCEPT !.p = q]
<1>0. /\ w \in Clients /\ Known(w, n) /\ Fresh(w, s) /\ Current(w) /\ InStep(w) /\ Remembered(w)
      /\ w.p \in PageSet
  BY ClientType DEF Sound
<1>1. Finally(w, c) = IF c.mine /\ ~c.cur THEN CheckStatus(x) ELSE x
  BY <1>0 DEF Finally, Clients
<1>2. /\ q \in PageSet /\ q.pid = w.p.pid /\ q.active = w.p.active /\ q.fg = w.p.fg /\ q.timer = w.p.timer
      /\ q.notice = w.p.notice /\ (c.mine => ~q.starting) /\ (~c.mine => q.starting = w.p.starting)
  BY <1>0 DEF PageSet
<1>3. /\ z \in Clients /\ z.p = w.p /\ z.calls = w.calls /\ z.sess = w.sess /\ z.stored = w.stored
      /\ z.unknown = w.unknown /\ z.unkept = w.unkept
  BY <1>0 DEF Clients
<1> HIDE DEF q, z
<1>4. Sound(z, n, s) /\ (Released(w) => Released(z))
  BY <1>0, <1>3 DEF Sound, Known, Fresh, Current, InStep, Remembered, Released
<1>5. Sound(x, n, s) /\ Released(x) /\ x.p = q /\ x.calls = w.calls
  BY <1>2, <1>3, <1>4, PageSound
<1> HIDE DEF x
<1>6. Watched(w) => Watched(x)
  BY <1>2, <1>5 DEF Watched
<1> QED BY <1>1, <1>5, <1>6, CheckStatusSound

-----------------------------------------------------------------------------
(* The client's steps. *)

LEMMA Now == ASSUME IInv PROVE /\ Sound(mini, nid, post) /\ Watched(mini) /\ Released(mini) /\ nid \in Nat
                               /\ mini \in Clients /\ mini.p \in PageSet /\ mini.calls \subseteq CallSet
BY ClientType DEF IInv, ClientInv, ServerInv, Sound

LEMMA ClientStep ==
    ASSUME IInv, NEW y, mini' = y, Sound(y, nid, post), Watched(y), Released(y),
           UNCHANGED <<post, by, att, relays, valid, nid>>
    PROVE  IInv'
<1>1. ServerInv'
  BY DEF IInv, ServerInv
<1>2. ClientInv'
  BY DEF ClientInv
<1> QED BY <1>1, <1>2 DEF IInv

LEMMA NoPageType ==
    NoPage \in PageSet /\ NoPage.active = FALSE /\ NoPage.fg = FALSE /\ NoPage.pid = 0 /\ NoPage.starting = FALSE
BY DEF NoPage, PageSet

\* A new page takes its request from storage and waits for no call.
LEMMA OpenStep == ASSUME IInv, Open PROVE IInv'
<1> DEFINE q == [NoPage EXCEPT !.active = TRUE, !.pid = Recalled(mini)]
           cs == {[c EXCEPT !.cur = FALSE, !.mine = FALSE] : c \in mini.calls}
           u == IF mini.store THEN mini.unknown ELSE {}
           y == [mini EXCEPT !.p = q, !.calls = cs, !.unknown = u]
<1>0. /\ mini \in Clients /\ Known(mini, nid) /\ Fresh(mini, post) /\ Remembered(mini)
      /\ mini.stored \in Nat /\ mini.calls \subseteq CallSet /\ mini.unknown \subseteq Nat
  BY Now, ClientType DEF Sound
<1>1. mini' = y /\ UNCHANGED <<post, by, att, relays, valid, nid>> /\ mini.sess # 0 /\ ~mini.p.active
  BY DEF Open, Change
<1>10. Recalled(mini) \in {0, mini.stored} /\ Recalled(mini) \in Nat /\ (mini.store => Recalled(mini) = mini.stored)
  BY <1>0 DEF Recalled
<1>11. u \subseteq mini.unknown /\ u \subseteq {Recalled(mini)} /\ u \subseteq {mini.stored}
  BY <1>0, <1>1, <1>10 DEF Remembered
<1>2. q \in PageSet /\ q.active = TRUE /\ q.fg = FALSE /\ q.pid = Recalled(mini) /\ q.starting = FALSE
  BY <1>10, NoPageType DEF PageSet
<1>3. ASSUME NEW c \in mini.calls
      PROVE  LET d == [c EXCEPT !.cur = FALSE, !.mine = FALSE] IN
             d \in CallSet /\ d.cur = FALSE /\ d.kind = c.kind /\ d.id = c.id /\ d.ans = c.ans
  BY <1>0 DEF CallSet
<1>4. /\ cs \subseteq CallSet
      /\ \A d \in cs : ~d.cur /\ \E c \in mini.calls : /\ d = [c EXCEPT !.cur = FALSE, !.mine = FALSE]
                                                       /\ d.kind = c.kind /\ d.id = c.id /\ d.ans = c.ans
  BY <1>3
<1> HIDE DEF q, cs, u
<1>5. y \in Clients /\ y.p = q /\ y.calls = cs /\ y.sess = mini.sess /\ y.stored = mini.stored /\ y.unknown = u
  BY <1>0, <1>2, <1>4, <1>11 DEF Clients
<1> HIDE DEF y
<1>12. Known(y, nid)
  <2>1. mini.stored <= nid /\ Recalled(mini) <= nid
    BY <1>0, <1>10, Now DEF Known
  <2>2. \A i \in u : 1 <= i /\ i <= nid
    BY <1>0, <1>11 DEF Known
  <2>3. \A d \in cs : 1 <= d.id /\ d.id <= nid
    BY <1>0, <1>4 DEF Known
  <2> QED BY <1>2, <1>5, <2>1, <2>2, <2>3 DEF Known
<1>13. InStep(y) /\ Remembered(y)
  BY <1>1, <1>2, <1>5, <1>11 DEF InStep, Remembered
<1>6. Known(y, nid) /\ InStep(y) /\ Remembered(y) /\ Current(y)
  BY <1>4, <1>5, <1>12, <1>13 DEF Current
<1>7. Fresh(y, post)
  <2> SUFFICES ASSUME NEW d \in cs, d.kind = "id"
               PROVE  post[d.id] = "none" /\ d.ans = "none" /\ \A e \in cs : e.kind = "id" /\ e.id = d.id => e = d
    BY <1>5 DEF Fresh
  <2>1. PICK c \in mini.calls : /\ d = [c EXCEPT !.cur = FALSE, !.mine = FALSE]
                                /\ d.kind = c.kind /\ d.id = c.id /\ d.ans = c.ans
    BY <1>4
  <2>2. ASSUME NEW e \in cs, e.kind = "id", e.id = d.id PROVE e = d
    <3>1. PICK b \in mini.calls : /\ e = [b EXCEPT !.cur = FALSE, !.mine = FALSE]
                                  /\ e.kind = b.kind /\ e.id = b.id
      BY <1>4
    <3>2. b = c
      BY <1>0, <2>1, <2>2, <3>1 DEF Fresh
    <3> QED BY <2>1, <3>1, <3>2
  <2> QED BY <1>0, <2>1, <2>2 DEF Fresh
<1>8. Watched(y) /\ Released(y)
  BY <1>2, <1>5 DEF Watched, Released
<1> QED BY <1>1, <1>5, <1>6, <1>7, <1>8, ClientStep DEF Sound

LEMMA ShowStep == ASSUME IInv, ShowPage PROVE IInv'
<1> DEFINE q == [mini.p EXCEPT !.fg = TRUE, !.due = FALSE, !.notice = FALSE]
           x == [mini EXCEPT !.p = q]
<1>1. mini' = CheckStatus(x) /\ UNCHANGED <<post, by, att, relays, valid, nid>>
  BY Now DEF ShowPage, Change, Shown, Clients
<1>2. q \in PageSet /\ q.pid = mini.p.pid /\ q.active = mini.p.active /\ q.fg = TRUE /\ q.starting = mini.p.starting
  BY Now DEF PageSet
<1> HIDE DEF q
<1>3. Sound(x, nid, post) /\ Released(x)
  BY <1>2, Now, PageSound
<1> HIDE DEF x
<1>4. Sound(CheckStatus(x), nid, post) /\ Watched(CheckStatus(x)) /\ Released(CheckStatus(x))
  BY <1>3, Now, CheckStatusSound
<1> QED BY <1>1, <1>4, ClientStep

LEMMA HideStep == ASSUME IInv, HideAction PROVE IInv'
<1>1. mini' = HidePage(mini) /\ UNCHANGED <<post, by, att, relays, valid, nid>>
  BY DEF HideAction, Change
<1>2. Sound(HidePage(mini), nid, post) /\ Watched(HidePage(mini)) /\ Released(HidePage(mini))
  BY Now, HideSound
<1> QED BY <1>1, <1>2, ClientStep

LEMMA UnloadStep == ASSUME IInv, UnloadPage PROVE IInv'
<1> DEFINE h == HidePage(mini)
           q == [h.p EXCEPT !.active = FALSE]
           u == h.unknown \ mini.unkept
           y == [h EXCEPT !.p = q, !.unknown = u]
<1>1. Sound(h, nid, post) /\ Released(h) /\ h.calls = Outdated(mini.calls) /\ h.unkept = mini.unkept
  BY Now, HideSound, HideIs
<1>2. mini' = y /\ UNCHANGED <<post, by, att, relays, valid, nid>>
  BY <1>1 DEF UnloadPage, Change, Sound, Clients
<1>3. \A c \in h.calls : ~c.cur
  BY <1>1, Now, OutdatedIs
<1> HIDE DEF h
<1>4. q \in PageSet /\ q.pid = h.p.pid /\ q.active = FALSE /\ q.starting = h.p.starting
  BY <1>1, ClientType DEF Sound, PageSet
<1> HIDE DEF q
<1>5. y \in Clients /\ y.p = q /\ y.calls = h.calls /\ y.sess = h.sess /\ y.stored = h.stored /\ y.unknown = u
  BY <1>1, <1>4 DEF Sound, Clients
<1> HIDE DEF y
<1>6. Known(y, nid) /\ Fresh(y, post) /\ InStep(y) /\ Remembered(y) /\ Current(y)
  BY <1>1, <1>3, <1>4, <1>5 DEF Sound, Known, Fresh, InStep, Remembered, Current
<1>7. Watched(y) /\ Released(y)
  BY <1>1, <1>4, <1>5 DEF Watched, Released
<1> QED BY <1>2, <1>5, <1>6, <1>7, ClientStep DEF Sound

LEMMA PollStep == ASSUME IInv, PollTimer PROVE IInv'
<1>1. mini' = CheckStatus(mini) /\ UNCHANGED <<post, by, att, relays, valid, nid>>
  BY DEF PollTimer, Change
<1>2. Sound(CheckStatus(mini), nid, post) /\ Watched(CheckStatus(mini)) /\ Released(CheckStatus(mini))
  BY Now, CheckStatusSound
<1> QED BY <1>1, <1>2, ClientStep

LEMMA DueStep == ASSUME IInv, Due PROVE IInv'
<1> DEFINE q == [mini.p EXCEPT !.due = TRUE]
           y == [mini EXCEPT !.p = q]
<1>1. mini' = y /\ UNCHANGED <<post, by, att, relays, valid, nid>>
  BY Now DEF Due, Change, Clients
<1>2. /\ q \in PageSet /\ q.pid = mini.p.pid /\ q.active = mini.p.active /\ q.fg = mini.p.fg
      /\ q.starting = mini.p.starting /\ q.timer = mini.p.timer /\ q.notice = mini.p.notice
  BY Now DEF PageSet
<1> HIDE DEF q
<1>3. Sound(y, nid, post) /\ Released(y) /\ y.p = q /\ y.calls = mini.calls
  BY <1>2, Now, PageSound
<1> HIDE DEF y
<1>4. Watched(y)
  BY <1>2, <1>3, Now DEF Watched
<1> QED BY <1>1, <1>3, <1>4, ClientStep

LEMMA RunsOutStep == ASSUME IInv, SessionRunsOut PROVE IInv'
<1>1. mini' = EndSession(mini) /\ UNCHANGED <<post, by, att, relays, valid, nid>>
  BY DEF SessionRunsOut, Change
<1>2. Sound(EndSession(mini), nid, post) /\ Watched(EndSession(mini)) /\ Released(EndSession(mini))
  BY Now, EndSound
<1> QED BY <1>1, <1>2, ClientStep

\* Storage fails or works again: nothing else changes.
LEMMA StorageStep == ASSUME IInv, StorageFails \/ StorageWorks PROVE IInv'
<1>1. PICK b \in BOOLEAN : mini' = [mini EXCEPT !.store = b] /\ UNCHANGED <<post, by, att, relays, valid, nid>>
  BY DEF StorageFails, StorageWorks, Change
<1> DEFINE y == [mini EXCEPT !.store = b]
<1>2. /\ y \in Clients /\ y.p = mini.p /\ y.calls = mini.calls /\ y.sess = mini.sess /\ y.stored = mini.stored
      /\ y.unknown = mini.unknown /\ y.unkept = mini.unkept
  BY Now DEF Clients
<1>3. mini' = y
  BY <1>1
<1> HIDE DEF y
<1>4. Known(y, nid) /\ Fresh(y, post) /\ InStep(y) /\ Remembered(y) /\ Current(y)
  BY <1>2, Now DEF Sound, Known, Fresh, InStep, Remembered, Current
<1>5. Watched(y) /\ Released(y)
  BY <1>2, Now DEF Watched, Released
<1> QED BY <1>1, <1>2, <1>3, <1>4, <1>5, ClientStep DEF Sound

\* The process ends: what is in storage stays.
LEMMA KillStep == ASSUME IInv, Kill PROVE IInv'
<1> DEFINE u == mini.unknown \ mini.unkept
           y == [mini EXCEPT !.p = NoPage, !.sess = 0, !.inFlight = {}, !.calls = {}, !.unknown = u]
<1>0. mini \in Clients /\ Known(mini, nid) /\ Remembered(mini) /\ nid \in Nat
  BY Now DEF Sound
<1>1. mini' = y /\ UNCHANGED <<post, by, att, relays, valid, nid>>
  BY DEF Kill, Change
<1>2. y \in Clients /\ y.p = NoPage /\ y.calls = {} /\ y.sess = 0 /\ y.stored = mini.stored /\ y.unknown = u
  BY <1>0, NoPageType DEF Clients
<1> HIDE DEF y
<1>3. Known(y, nid) /\ Fresh(y, post) /\ InStep(y) /\ Remembered(y) /\ Current(y)
  BY <1>0, <1>2, NoPageType DEF Known, Fresh, InStep, Remembered, Current
<1>4. Watched(y) /\ Released(y)
  BY <1>2, NoPageType DEF Watched, Released
<1> QED BY <1>1, <1>2, <1>3, <1>4, ClientStep DEF Sound

LEMMA ReloginStep == ASSUME IInv, Relogin PROVE IInv'
<1> DEFINE y == [mini EXCEPT !.sess = valid + 1]
<1>0. /\ mini \in Clients /\ Known(mini, nid) /\ Fresh(mini, post) /\ Current(mini) /\ Remembered(mini)
      /\ valid + 1 \in Nat
  BY Now DEF Sound, IInv, ServerInv
<1>1. mini' = y /\ UNCHANGED <<post, by, att, relays, nid>> /\ valid' = valid + 1 /\ ~mini.p.active
  BY DEF Relogin, Change
<1>2. y \in Clients /\ y.p = mini.p /\ y.calls = mini.calls /\ y.stored = mini.stored /\ y.unknown = mini.unknown /\ y.unkept = mini.unkept
  BY <1>0 DEF Clients
<1> HIDE DEF y
<1>3. Known(y, nid) /\ Fresh(y, post) /\ InStep(y) /\ Remembered(y) /\ Current(y)
  BY <1>0, <1>1, <1>2 DEF Known, Fresh, InStep, Remembered, Current
<1>4. Watched(y) /\ Released(y)
  BY <1>2, Now DEF Watched, Released
<1>5. ServerInv'
  BY <1>0, <1>1 DEF IInv, ServerInv
<1>6. ClientInv'
  BY <1>1, <1>2, <1>3, <1>4 DEF ClientInv, Sound
<1> QED BY <1>5, <1>6 DEF IInv

\* Another id does not disturb those that are known.
LEMMA MoreIds == ASSUME NEW w, NEW n \in Nat, NEW s, Sound(w, n, s) PROVE Sound(w, n + 1, s)
<1>1. w \in Clients /\ w.p.pid \in Nat /\ w.stored \in Nat /\ w.unknown \subseteq Nat /\ \A c \in w.calls : c.id \in Nat
  BY ClientType, CallsType DEF Sound, PageSet
<1>2. Known(w, n + 1)
  BY <1>1 DEF Sound, Known
<1> QED BY <1>2 DEF Sound

LEMMA SubmitStep == ASSUME IInv, Submit PROVE IInv'
<1> DEFINE q == [mini.p EXCEPT !.notice = FALSE]
           w == [mini EXCEPT !.p = q]
<1>1. q \in PageSet /\ q.pid = mini.p.pid /\ q.active = mini.p.active /\ q.fg = mini.p.fg /\ q.starting = mini.p.starting
  BY Now DEF PageSet
<1>2. [mini EXCEPT !.p.notice = FALSE] = w
  BY Now DEF Clients
<1>3. /\ UNCHANGED <<post, by, att, relays, valid>> /\ mini.p.active /\ mini.p.fg
      /\ \/ mini' = CheckStatus([w EXCEPT !.p.due = FALSE]) /\ nid' = nid
         \/ /\ w.p.pid = 0 /\ nid < MaxIds /\ nid' = nid + 1
            /\ mini' = AddCall([w EXCEPT !.p.starting = TRUE, !.calls = Outdated(@)], "id", nid + 1)
  BY <1>2 DEF Submit, Change
<1> HIDE DEF q
<1>4. Sound(w, nid, post) /\ Released(w) /\ w.p = q /\ w.calls = mini.calls /\ w \in Clients
  BY <1>1, Now, PageSound DEF Sound
<1> HIDE DEF w
<1>5. CASE mini' = CheckStatus([w EXCEPT !.p.due = FALSE]) /\ nid' = nid
  <2> DEFINE r == [w.p EXCEPT !.due = FALSE]
             x == [w EXCEPT !.p = r]
  <2>1. r \in PageSet /\ r.pid = w.p.pid /\ r.active = w.p.active /\ r.fg = w.p.fg /\ r.starting = w.p.starting
    BY <1>1, <1>4 DEF PageSet
  <2>2. mini' = CheckStatus(x)
    BY <1>4, <1>5 DEF Clients
  <2> HIDE DEF r
  <2>3. Sound(x, nid, post) /\ Released(x)
    BY <1>4, <2>1, Now, PageSound
  <2> HIDE DEF x
  <2>4. Sound(CheckStatus(x), nid, post) /\ Watched(CheckStatus(x)) /\ Released(CheckStatus(x))
    BY <2>3, Now, CheckStatusSound
  <2> QED BY <1>3, <1>5, <2>2, <2>4, ClientStep
<1>6. CASE /\ w.p.pid = 0 /\ nid < MaxIds /\ nid' = nid + 1
           /\ mini' = AddCall([w EXCEPT !.p.starting = TRUE, !.calls = Outdated(@)], "id", nid + 1)
  <2> DEFINE r == [w.p EXCEPT !.starting = TRUE]
             o == Outdated(w.calls)
             x == [w EXCEPT !.p = r, !.calls = o]
             y == AddCall(x, "id", nid + 1)
  <2>1. r \in PageSet /\ r.pid = w.p.pid /\ r.active = w.p.active /\ r.fg = w.p.fg
    BY <1>1, <1>4 DEF PageSet
  <2>2. mini' = y
    BY <1>4, <1>6 DEF Clients
  <2>3. o \subseteq CallSet /\ \A d \in o : ~d.cur
    BY <1>4, Now, OutdatedIs
  <2> HIDE DEF r, o
  <2>4. /\ x \in Clients /\ x.p = r /\ x.calls = o /\ x.sess = w.sess /\ x.stored = w.stored
        /\ x.unknown = w.unknown /\ x.unkept = w.unkept
    BY <1>4, <2>1, <2>3 DEF Clients
  <2> HIDE DEF x
  <2>5. (\A c \in x.calls : 1 <= c.id /\ c.id <= nid) /\ Fresh(x, post) /\ Current(x)
    BY <1>4, <2>4, Now, OutdatedSound DEF Sound, o
  <2>6. Known(x, nid) /\ InStep(x) /\ Remembered(x)
    BY <1>4, <2>1, <2>4, <2>5 DEF Sound, Known, InStep, Remembered
  <2>7. Sound(x, nid + 1, post)
    BY <2>4, <2>5, <2>6, Now, MoreIds DEF Sound
  <2>8. nid + 1 \in Nat /\ 1 <= nid + 1 /\ post[nid + 1] = "none"
    BY <1>6, IdsAssumption DEF IInv, ServerInv, Ids
  <2>9. \A c \in x.calls : c.id # nid + 1 /\ ~c.cur
    <3>1. \A c \in x.calls : c.id \in Nat
      BY <2>3, <2>4, CallsType
    <3> QED BY <2>3, <2>4, <2>5, <3>1, Now
  <2>10. x.p.active /\ x.p.fg /\ x.p.pid = 0
    BY <1>1, <1>3, <1>4, <1>6, <2>1, <2>4
  <2>11. Sound(y, nid + 1, post) /\ Watched(y) /\ Released(y)
    BY <2>7, <2>8, <2>9, <2>10, AddCallSound DEF CallKinds
  <2> HIDE DEF y
  <2>12. ServerInv'
    BY <1>3, <1>6, <2>8, IdsAssumption DEF IInv, ServerInv, Ids
  <2>13. ClientInv'
    BY <1>3, <1>6, <2>2, <2>11 DEF ClientInv
  <2> QED BY <2>12, <2>13 DEF IInv
<1> QED BY <1>3, <1>5, <1>6

\* There is no id: the button is set free.
LEMMA IdFailsStep == ASSUME IInv, NEW c \in mini.calls, IdFails(c) PROVE IInv'
<1> DEFINE w == [mini EXCEPT !.calls = @ \ {c}]
           y == Finally(w, c)
<1>0. c \in CallSet /\ c.kind = "id"
  BY Now DEF IdFails
<1>1. /\ Sound(w, nid, post) /\ w.p = mini.p /\ (~c.mine => Released(w) /\ Watched(w))
  BY Now, WithoutSound
<1>2. mini' = y /\ UNCHANGED <<post, by, att, relays, valid, nid>>
  BY DEF IdFails, Change
<1> HIDE DEF w
<1>3. c.cur => Watched(w)
  BY <1>0, <1>1, Now DEF Sound, Current, Watched
<1>4. (c.mine /\ ~c.cur) \/ Watched(w)
  BY <1>0, <1>1, <1>3, CallsType
<1>5. Sound(y, nid, post) /\ Watched(y) /\ Released(y)
  BY <1>0, <1>1, <1>4, Now, FinallySound
<1> HIDE DEF y
<1> QED BY <1>2, <1>5, ClientStep

\* The POST is sent for an id for which none was.
LEMMA IdCreatedStep == ASSUME IInv, NEW c \in mini.calls, IdCreated(c) PROVE IInv'
<1> DEFINE w == [mini EXCEPT !.calls = @ \ {c}]
           q == [w.p EXCEPT !.pid = c.id, !.due = FALSE]
           f == w.inFlight \cup {c.id}
           g == IF w.store THEN w.unkept ELSE w.unkept \cup {c.id}
           k == Remember(w, c.id)
           x == [k EXCEPT !.p = q, !.inFlight = f, !.unkept = g]
<1>0. /\ c \in CallSet /\ c.id \in Nat /\ c.kind = "id" /\ 1 <= c.id /\ c.id <= nid /\ c.id \in Ids /\ post[c.id] = "none"
      /\ \A d \in mini.calls : d.kind = "id" /\ d.id = c.id => d = c
  <2>1. c \in CallSet /\ c.id \in Nat /\ c.kind = "id"
    BY Now, CallsType DEF IdCreated
  <2>2. 1 <= c.id /\ c.id <= nid /\ post[c.id] = "none"
    BY <2>1, Now DEF Sound, Known, Fresh
  <2>3. c.id \in Ids
    BY <2>1, <2>2, IdsAssumption DEF Ids, IInv, ServerInv
  <2> QED BY <2>1, <2>2, <2>3, Now DEF Sound, Fresh
<1>1. /\ Sound(w, nid, post) /\ w.p = mini.p /\ w.sess = mini.sess /\ w.unknown = mini.unknown /\ w.stored = mini.stored
      /\ w.calls = mini.calls \ {c} /\ (c.cur => \A d \in w.calls : ~d.cur)
      /\ (~c.mine => Released(w) /\ Watched(w))
  BY Now, WithoutSound
<1>8. /\ k \in Clients /\ k.p = w.p /\ k.calls = w.calls /\ k.sess = w.sess /\ k.stored \in {c.id, w.stored}
      /\ (w.store => k.stored = c.id) /\ k.unknown = w.unknown /\ k.unkept = w.unkept /\ k.inFlight = w.inFlight
  <2>1. w \in Clients /\ c.id \in Nat
    BY <1>0, <1>1 DEF Sound
  <2> HIDE DEF w
  <2> QED BY <2>1, RememberIs
<1>2. [Remember(w, c.id) EXCEPT !.p.pid = c.id, !.p.due = FALSE, !.inFlight = @ \cup {c.id},
                                !.unkept = IF w.store THEN @ ELSE @ \cup {c.id}] = x
  <2> HIDE DEF w
  <2>1. [k EXCEPT !.p.pid = c.id, !.p.due = FALSE, !.inFlight = @ \cup {c.id},
                  !.unkept = IF w.store THEN @ ELSE @ \cup {c.id}] = x
    <3> HIDE DEF k
    <3> QED BY <1>8 DEF Clients
  <2> QED BY <2>1
<1>3. /\ UNCHANGED <<att, relays, valid, nid>>
      /\ \/ ~c.cur /\ mini' = Finally(w, c) /\ UNCHANGED <<post, by>>
         \/ c.cur /\ mini' = Finally(ResetSession(EndSession(x)), c) /\ UNCHANGED <<post, by>>
         \/ /\ c.cur /\ w.sess # 0
            /\ mini' = [AddCall(x, "start", c.id) EXCEPT !.unknown = @ \cup {c.id}]
            /\ post' = [post EXCEPT ![c.id] = "sent"] /\ by' = [by EXCEPT ![c.id] = w.sess]
  BY <1>2 DEF IdCreated, Change
<1> HIDE DEF w, k
<1>4. CASE ~c.cur /\ mini' = Finally(w, c) /\ UNCHANGED <<post, by>>
  <2>1. Sound(Finally(w, c), nid, post) /\ Watched(Finally(w, c)) /\ Released(Finally(w, c))
    BY <1>0, <1>1, <1>4, Now, FinallySound
  <2> QED BY <1>3, <1>4, <2>1, ClientStep
<1>5. ASSUME c.cur
      PROVE  /\ c.mine /\ mini.p.active /\ mini.p.fg /\ mini.p.pid = 0
             /\ x \in Clients /\ x.calls = w.calls /\ x.sess = w.sess /\ (x.stored = c.id \/ c.id \in x.unkept)
             /\ x.unknown = w.unknown
             /\ x.p.pid = c.id /\ x.p.active = w.p.active /\ x.p.fg = w.p.fg /\ x.p.starting = w.p.starting
             /\ Known(x, nid) /\ Fresh(x, post) /\ Current(x) /\ InStep(x) /\ w.unknown = {}
  <2>1. c.mine /\ mini.p.active /\ mini.p.fg /\ mini.p.pid = 0
    BY <1>0, <1>5, Now DEF Sound, Current
  <2>2. w \in Clients /\ w.p \in PageSet /\ w.inFlight \subseteq Nat
    BY <1>1, ClientType DEF Sound, Clients
  <2>3. q \in PageSet /\ q.pid = c.id /\ q.active = w.p.active /\ q.fg = w.p.fg /\ q.starting = w.p.starting
    BY <1>0, <2>2 DEF PageSet
  <2>4. f \subseteq Nat /\ g \subseteq Nat /\ (w.store \/ c.id \in g)
    BY <1>0, <2>2 DEF Clients
  <2> HIDE DEF q, f, g
  <2>5. /\ x \in Clients /\ x.p = q /\ x.calls = k.calls /\ x.sess = k.sess /\ x.stored = k.stored
        /\ x.unknown = k.unknown /\ x.unkept = g
    BY <1>8, <2>3, <2>4 DEF Clients
  <2>6. w.unknown = {}
    <3>1. \A i \in w.unknown : 1 <= i
      BY <1>1 DEF Sound, Known
    <3>2. w.unknown \subseteq {0}
      BY <1>1, <2>1 DEF Sound, InStep
    <3> QED BY <3>1, <3>2
  <2> HIDE DEF x
  <2>7. Known(x, nid)
    BY <1>0, <1>1, <1>8, <2>3, <2>5 DEF Sound, Known
  <2>8. Fresh(x, post) /\ Current(x) /\ InStep(x)
    BY <1>1, <1>5, <1>8, <2>3, <2>5, <2>6 DEF Sound, Fresh, Current, InStep
  <2>9. x.stored = c.id \/ c.id \in x.unkept
    BY <1>8, <2>4, <2>5
  <2> QED BY <1>8, <2>1, <2>3, <2>5, <2>6, <2>7, <2>8, <2>9
<1> HIDE DEF x
<1>6. CASE c.cur /\ mini' = Finally(ResetSession(EndSession(x)), c) /\ UNCHANGED <<post, by>>
  <2> DEFINE e == EndSession(x)
             z == ResetSession(e)
  <2>1. Sound(x, nid, post)
    BY <1>5, <1>6 DEF Sound, Remembered
  <2>2. Sound(e, nid, post) /\ e.unknown = {}
    BY <2>1, Now, EndSound
  <2> HIDE DEF e
  <2>3. Sound(z, nid, post) /\ Watched(z)
    BY <2>2, Now, ResetSound
  <2>4. mini' = Finally(z, c)
    BY <1>6 DEF e
  <2> HIDE DEF z
  <2>5. Sound(Finally(z, c), nid, post) /\ Watched(Finally(z, c)) /\ Released(Finally(z, c))
    BY <1>0, <1>5, <1>6, <2>3, Now, FinallySound
  <2> QED BY <1>3, <1>6, <2>4, <2>5, ClientStep
<1>7. CASE /\ c.cur /\ w.sess # 0
           /\ mini' = [AddCall(x, "start", c.id) EXCEPT !.unknown = @ \cup {c.id}]
           /\ post' = [post EXCEPT ![c.id] = "sent"] /\ by' = [by EXCEPT ![c.id] = w.sess]
  <2> DEFINE a == AddCall(x, "start", c.id)
             u == a.unknown \cup {c.id}
             y == [a EXCEPT !.unknown = u]
  <2>1. Sound(x, nid, post)
    BY <1>5, <1>7 DEF Sound, Remembered
  <2>2. /\ Sound(a, nid, post) /\ Watched(a) /\ Released(a) /\ a.p = x.p /\ a.unknown = {}
        /\ (a.stored = c.id \/ c.id \in a.unkept) /\ a.sess # 0
    <3>1. /\ x.p.active /\ x.p.fg /\ x.p.pid = c.id /\ x.unknown = {} /\ (x.stored = c.id \/ c.id \in x.unkept) /\ x.sess # 0
          /\ \A d \in x.calls : ~d.cur
      BY <1>1, <1>5, <1>7
    <3>2. PICK kind \in CallKinds : kind = "start"
      BY DEF CallKinds
    <3>3. /\ Sound(AddCall(x, kind, c.id), nid, post) /\ Watched(AddCall(x, kind, c.id)) /\ Released(AddCall(x, kind, c.id))
          /\ AddCall(x, kind, c.id).p = x.p /\ AddCall(x, kind, c.id).unknown = x.unknown
          /\ AddCall(x, kind, c.id).stored = x.stored /\ AddCall(x, kind, c.id).sess = x.sess
      <4>1. c.id \in Nat /\ 1 <= c.id /\ c.id <= nid /\ nid \in Nat /\ kind # "id" /\ kind # "status"
        BY <1>0, <3>2, Now
      <4>2. x.p.pid = IF kind = "id" THEN 0 ELSE c.id
        BY <3>1, <4>1
      <4>3. kind = "id" => post[c.id] = "none" /\ \A d \in x.calls : d.id # c.id
        BY <4>1
      <4> QED BY <2>1, <3>1, <3>2, <4>1, <4>2, <4>3, AddCallSound
    <3>4. AddCall(x, kind, c.id).unkept = x.unkept
      <4>1. x \in Clients /\ c.id \in Nat
        BY <1>0, <2>1 DEF Sound
      <4> QED BY <4>1 DEF AddCall, Clients
    <3> QED BY <3>1, <3>2, <3>3, <3>4
  <2>3. mini' = y
    BY <1>7
  <2>4. \A d \in a.calls : d.kind = "id" => d.id # c.id
    <3>1. \A d \in a.calls : d \in x.calls \/ d.kind = "start"
      BY <1>0, <1>5, <1>7, AddedCall
    <3>2. \A d \in w.calls : d.kind = "id" => d.id # c.id
      BY <1>0, <1>1
    <3> QED BY <1>5, <1>7, <3>1, <3>2
  <2> HIDE DEF a
  <2>5. /\ y \in Clients /\ y.p = a.p /\ y.calls = a.calls /\ y.sess = a.sess /\ y.stored = a.stored /\ y.unknown = {c.id}
        /\ y.unkept = a.unkept
    BY <1>0, <2>2 DEF Sound, Clients
  <2> HIDE DEF y
  <2>6. Known(y, nid)
    <3>1. Known(a, nid)
      BY <2>2 DEF Sound
    <3> QED BY <1>0, <2>2, <2>5, <3>1 DEF Known
  <2>7. Fresh(y, post')
    <3>1. \A i \in Ids : i # c.id => post'[i] = post[i]
      BY <1>7 DEF IInv, ServerInv
    <3>2. \A d \in y.calls : d.id \in Ids
      <4> SUFFICES ASSUME NEW d \in y.calls PROVE d.id \in Ids
        OBVIOUS
      <4>1. d.id \in Nat
        BY <2>5, ClientType, CallsType
      <4>2. 1 <= d.id /\ d.id <= nid /\ nid \in Nat /\ nid <= MaxIds
        BY <2>6 DEF Known, IInv, ServerInv
      <4> QED BY <4>1, <4>2, IdsAssumption DEF Ids
    <3> QED BY <2>2, <2>4, <2>5, <3>1, <3>2 DEF Sound, Fresh
  <2>8. Current(y) /\ InStep(y) /\ Remembered(y)
    <3>1. Current(y)
      BY <2>2, <2>5 DEF Sound, Current
    <3>2. y.p.active /\ y.p.pid = c.id /\ y.sess # 0
      BY <1>1, <1>5, <1>7, <2>2, <2>5
    <3>3. InStep(y)
      BY <2>5, <3>2 DEF InStep
    <3>4. Remembered(y)
      BY <2>2, <2>5, <3>2 DEF Remembered
    <3> QED BY <3>1, <3>3, <3>4
  <2>9. Watched(y) /\ Released(y)
    BY <2>2, <2>5 DEF Watched, Released
  <2>10. ServerInv'
    <3>1. w.sess \in Nat /\ "sent" \in PostStates
      BY <1>1, ClientType DEF Sound, PostStates
    <3> QED BY <1>0, <1>3, <1>7, <3>1 DEF IInv, ServerInv
  <2>11. ClientInv'
    BY <1>3, <2>3, <2>5, <2>6, <2>7, <2>8, <2>9 DEF ClientInv, Sound
  <2> QED BY <2>10, <2>11 DEF IInv
<1> QED BY <1>3, <1>4, <1>6, <1>7

LEMMA ReturnedStep == ASSUME IInv, NEW c \in mini.calls, Returned(c) PROVE IInv'
<1> DEFINE a == Answered(mini, c)
           w == Told(a, c)
           y == IF c.kind = "start" THEN Finally(w, c) ELSE w
<1>0. c \in CallSet /\ c.ans # "none" /\ c.kind \in {"start", "status"}
  BY Now, CallsType DEF Returned, Sound, Fresh, CallKinds
<1>1. mini' = y /\ UNCHANGED <<post, by, att, relays, valid, nid>>
  BY DEF Returned, Change
<1>2. /\ Sound(a, nid, post) /\ a.p = mini.p
      /\ c.ans = "unauthorized" => a.unknown = {}
      /\ c.cur => \A d \in a.calls : ~d.cur
      /\ (~c.mine \/ c.kind = "status") => Released(a)
      /\ (~c.mine \/ (c.kind = "status" /\ ~c.cur)) => Watched(a)
  BY Now, AnsweredSound
<1> HIDE DEF a
<1>3. /\ Sound(w, nid, post) /\ (~c.mine \/ c.kind = "status" => Released(w))
      /\ c.cur \/ ~c.mine \/ c.kind = "status" => Watched(w)
  <2>1. CASE c.cur
    <3>1. mini.p.active /\ mini.p.fg /\ mini.p.pid = c.id
      BY <1>0, <2>1, Now DEF Sound, Current
    <3>2. Sound(w, nid, post) /\ Watched(w) /\ (Released(a) => Released(w))
      BY <1>0, <1>2, <2>1, <3>1, Now, ToldSound
    <3> QED BY <1>2, <3>2
  <2>2. CASE ~c.cur
    <3>1. w = a
      BY <2>2 DEF Told
    <3> QED BY <1>2, <2>2, <3>1
  <2> QED BY <2>1, <2>2
<1> HIDE DEF w
<1>4. Sound(y, nid, post) /\ Watched(y) /\ Released(y)
  <2>1. CASE c.kind = "start"
    BY <1>0, <1>3, <2>1, Now, FinallySound
  <2>2. CASE c.kind = "status"
    BY <1>3, <2>2
  <2> QED BY <1>0, <2>1, <2>2
<1> HIDE DEF y
<1> QED BY <1>1, <1>4, ClientStep

-----------------------------------------------------------------------------
(* The server's steps. *)

\* The calls ds are the calls cs, some of those that are no id being answered.
AnsweredCalls(cs, ds) ==
    /\ ds \subseteq CallSet
    /\ \A d \in ds : \E c \in cs : /\ d.kind = c.kind /\ d.id = c.id /\ d.cur = c.cur /\ d.mine = c.mine
                                   /\ c.kind = "id" => d = c
                                   /\ \A b \in ds : b.cur /\ c.cur => b = d
    /\ \A c \in cs : \E d \in ds : d.kind = c.kind /\ d.cur = c.cur /\ d.mine = c.mine

LEMMA AnsweredCallsSound ==
    ASSUME IInv, NEW ds, AnsweredCalls(mini.calls, ds), NEW s, \A c \in mini.calls : c.kind = "id" => s[c.id] = "none"
    PROVE  LET y == [mini EXCEPT !.calls = ds] IN Sound(y, nid, s) /\ Watched(y) /\ Released(y)
<1> DEFINE y == [mini EXCEPT !.calls = ds]
<1>0. /\ mini \in Clients /\ Known(mini, nid) /\ Fresh(mini, post) /\ Current(mini) /\ InStep(mini) /\ Remembered(mini)
      /\ Watched(mini) /\ Released(mini)
  BY Now DEF Sound
<1>1. y \in Clients /\ y.p = mini.p /\ y.calls = ds /\ y.sess = mini.sess /\ y.stored = mini.stored /\ y.unknown = mini.unknown /\ y.unkept = mini.unkept
  BY <1>0 DEF Clients, AnsweredCalls
<1> HIDE DEF y
<1>2. Known(y, nid)
  BY <1>0, <1>1 DEF Known, AnsweredCalls
<1>3. Fresh(y, s)
  BY <1>0, <1>1 DEF Fresh, AnsweredCalls
<1>4. Current(y)
  <2> SUFFICES ASSUME NEW d \in ds, d.cur
               PROVE  /\ d.mine /\ mini.p.active /\ mini.p.fg /\ mini.p.pid = IF d.kind = "id" THEN 0 ELSE d.id
                      /\ \A b \in ds : b.cur => b = d
    BY <1>1 DEF Current
  <2>1. PICK c \in mini.calls : /\ d.kind = c.kind /\ d.id = c.id /\ d.cur = c.cur /\ d.mine = c.mine
                                /\ \A b \in ds : b.cur /\ c.cur => b = d
    BY DEF AnsweredCalls
  <2> QED BY <1>0, <2>1 DEF Current
<1>5. InStep(y) /\ Remembered(y)
  BY <1>0, <1>1 DEF InStep, Remembered
<1>6. Watched(y) /\ Released(y)
  BY <1>0, <1>1 DEF Watched, Released, AnsweredCalls
<1> QED BY <1>1, <1>2, <1>3, <1>4, <1>5, <1>6 DEF Sound, y

LEMMA AnswerPostIs ==
    ASSUME IInv, NEW id, NEW a \in CallAnswers, AnswerPost(id, a)
    PROVE  \E ds : mini' = [mini EXCEPT !.calls = ds] /\ AnsweredCalls(mini.calls, ds)
<1> DEFINE f(c) == IF c.kind = "start" /\ c.id = id /\ c.ans = "none" THEN [c EXCEPT !.ans = a] ELSE c
           ds == {f(c) : c \in mini.calls}
<1>1. mini' = [mini EXCEPT !.calls = ds]
  BY DEF AnswerPost, Change
<1>2. ASSUME NEW c \in mini.calls
      PROVE  /\ f(c) \in CallSet /\ f(c).kind = c.kind /\ f(c).id = c.id /\ f(c).cur = c.cur /\ f(c).mine = c.mine
             /\ c.kind = "id" => f(c) = c
  <2>1. c \in CallSet
    BY Now
  <2>2. LET d == [c EXCEPT !.ans = a] IN d \in CallSet /\ d.kind = c.kind /\ d.id = c.id /\ d.cur = c.cur /\ d.mine = c.mine
    BY <2>1 DEF CallSet
  <2> QED BY <2>1, <2>2
<1>3. ds \subseteq CallSet /\ \A c \in mini.calls : f(c) \in ds
  BY <1>2
<1>4. ASSUME NEW d \in ds
      PROVE  \E c \in mini.calls : /\ d.kind = c.kind /\ d.id = c.id /\ d.cur = c.cur /\ d.mine = c.mine
                                   /\ c.kind = "id" => d = c
                                   /\ \A b \in ds : b.cur /\ c.cur => b = d
  <2>1. PICK c \in mini.calls : d = f(c)
    OBVIOUS
  <2>2. ASSUME NEW b \in ds, b.cur, c.cur PROVE b = d
    <3>1. PICK e \in mini.calls : b = f(e)
      OBVIOUS
    <3>2. e.cur
      BY <1>2, <2>2, <3>1
    <3>3. e = c
      BY <2>2, <3>2, Now DEF Sound, Current
    <3> QED BY <2>1, <3>1, <3>3
  <2> HIDE DEF f, ds
  <2> QED BY <1>2, <2>1, <2>2
<1>5. \A c \in mini.calls : \E d \in ds : d.kind = c.kind /\ d.cur = c.cur /\ d.mine = c.mine
  <2> HIDE DEF f, ds
  <2> QED BY <1>2, <1>3
<1> HIDE DEF f, ds
<1> QED BY <1>1, <1>3, <1>4, <1>5 DEF AnsweredCalls

LEMMA AnswerIs ==
    ASSUME IInv, NEW c \in mini.calls, NEW a \in CallAnswers, c.kind # "id", Answer(c, a)
    PROVE  \E ds : mini' = [mini EXCEPT !.calls = ds] /\ AnsweredCalls(mini.calls, ds)
<1> DEFINE e == [c EXCEPT !.ans = a]
           ds == (mini.calls \ {c}) \cup {e}
<1>1. mini' = [mini EXCEPT !.calls = ds]
  BY DEF Answer, Change
<1>2. e \in CallSet /\ e.kind = c.kind /\ e.id = c.id /\ e.cur = c.cur /\ e.mine = c.mine
  BY Now DEF CallSet
<1> HIDE DEF e
<1>3. ds \subseteq CallSet
  BY <1>2, Now
<1>4. \A x \in mini.calls : x.cur => \A b \in mini.calls : b.cur => b = x
  BY Now DEF Sound, Current
<1>5. ASSUME NEW d \in ds
      PROVE  \E x \in mini.calls : /\ d.kind = x.kind /\ d.id = x.id /\ d.cur = x.cur /\ d.mine = x.mine
                                   /\ x.kind = "id" => d = x
                                   /\ \A b \in ds : b.cur /\ x.cur => b = d
  <2>1. CASE d = e
    BY <1>2, <1>4, <2>1
  <2>2. CASE d # e
    BY <1>2, <1>4, <2>2
  <2> QED BY <2>1, <2>2
<1>6. \A x \in mini.calls : \E d \in ds : d.kind = x.kind /\ d.cur = x.cur /\ d.mine = x.mine
  BY <1>2
<1> HIDE DEF ds
<1>7. AnsweredCalls(mini.calls, ds)
  <2>1. \A d \in ds : \E x \in mini.calls :
            /\ d.kind = x.kind /\ d.id = x.id /\ d.cur = x.cur /\ d.mine = x.mine
            /\ x.kind = "id" => d = x
            /\ \A b \in ds : b.cur /\ x.cur => b = d
    BY <1>5
  <2> QED BY <1>3, <1>6, <2>1, Zenon DEF AnsweredCalls
<1> QED BY <1>1, <1>7

\* The row of id changes: it is inserted with the relay that it stands for, or it
\* is the row of a relay before and after.
RowStep(id) ==
    /\ att' \in [Ids -> AttemptStates] /\ \A i \in Ids : i # id => att'[i] = att[i]
    /\ \/ att[id] = "none" /\ att'[id] # "none" /\ relays' = [relays EXCEPT ![id] = @ + 1]
       \/ (att'[id] = "none" => att[id] = "none") /\ relays' = relays

LEMMA RowsKept == ASSUME IInv, NEW id \in Ids, RowStep(id)
                  PROVE  relays' \in [Ids -> {0, 1}] /\ \A i \in Ids : att'[i] = "none" => relays'[i] = 0
<1>0. relays \in [Ids -> {0, 1}] /\ \A i \in Ids : att[i] = "none" => relays[i] = 0
  BY DEF IInv, ServerInv
<1>1. CASE att[id] = "none" /\ att'[id] # "none" /\ relays' = [relays EXCEPT ![id] = @ + 1]
  <2>1. relays[id] = 0
    BY <1>0, <1>1
  <2> QED BY <1>0, <1>1, <2>1 DEF RowStep
<1>2. CASE (att'[id] = "none" => att[id] = "none") /\ relays' = relays
  BY <1>0, <1>2 DEF RowStep
<1> QED BY <1>1, <1>2 DEF RowStep

\* A POST that was sent goes on; no id that is being created is disturbed.
LEMMA PostStep ==
    ASSUME IInv, NEW id \in Ids, NEW p \in PostStates, post[id] # "none", p \notin {"none", "sent"},
           post' = [post EXCEPT ![id] = p], UNCHANGED <<by, valid, nid>>,
           RowStep(id),
           mini' = mini \/ \E a \in CallAnswers : AnswerPost(id, a)
    PROVE  IInv'
<1>1. ServerInv'
  <2>1. post' \in [Ids -> PostStates] /\ post'[id] = p /\ \A i \in Ids : i # id => post'[i] = post[i]
    BY DEF IInv, ServerInv
  <2>2. relays' \in [Ids -> {0, 1}] /\ \A i \in Ids : att'[i] = "none" => relays'[i] = 0
    BY RowsKept
  <2>3. \A i \in Ids : i > nid => post'[i] = "none"
    BY <2>1 DEF IInv, ServerInv
  <2>4. att' \in [Ids -> AttemptStates]
    BY DEF RowStep
  <2> QED BY <2>1, <2>2, <2>3, <2>4 DEF IInv, ServerInv
<1>2. \A c \in mini.calls : c.kind = "id" => post'[c.id] = "none"
  <2> SUFFICES ASSUME NEW c \in mini.calls, c.kind = "id" PROVE post'[c.id] = "none"
    OBVIOUS
  <2>1. post[c.id] = "none" /\ 1 <= c.id /\ c.id <= nid /\ c.id \in Nat
    BY Now, CallsType DEF Sound, Fresh, Known
  <2>2. c.id \in Ids
    BY <2>1, IdsAssumption DEF Ids, IInv, ServerInv
  <2> QED BY <2>1, <2>2 DEF IInv, ServerInv
<1>3. Sound(mini', nid, post') /\ Watched(mini') /\ Released(mini')
  <2>1. CASE mini' = mini
    <3>1. Fresh(mini, post')
      BY <1>2, Now DEF Sound, Fresh
    <3> QED BY <2>1, <3>1, Now DEF Sound
  <2>2. ASSUME NEW a \in CallAnswers, AnswerPost(id, a) PROVE Sound(mini', nid, post') /\ Watched(mini') /\ Released(mini')
    <3>1. PICK ds : mini' = [mini EXCEPT !.calls = ds] /\ AnsweredCalls(mini.calls, ds)
      BY <2>2, AnswerPostIs
    <3> QED BY <1>2, <3>1, AnsweredCallsSound
  <2> QED BY <2>1, <2>2
<1> QED BY <1>1, <1>3 DEF IInv, ClientInv

LEMMA ClaimRow == ASSUME IInv, NEW id \in Ids, Claims(id), Claim(id) PROVE RowStep(id)
<1>1. att \in [Ids -> AttemptStates] /\ att[id] = "none" /\ att' = [att EXCEPT ![id] = "running"]
  BY DEF Claims, Claim, IInv, ServerInv
<1>2. att' \in [Ids -> AttemptStates] /\ att'[id] = "running" /\ \A i \in Ids : i # id => att'[i] = att[i]
  BY <1>1 DEF AttemptStates
<1> QED BY <1>1, <1>2 DEF RowStep, Claim

LEMMA SameRow == ASSUME IInv, NEW id \in Ids, UNCHANGED <<att, relays>> PROVE RowStep(id)
BY DEF RowStep, IInv, ServerInv

LEMMA DoneRow == ASSUME IInv, NEW id \in Ids, NEW t \in Terminal, UNCHANGED relays,
                        att' = [att EXCEPT ![id] = IF @ = "running" THEN t ELSE @]
                 PROVE  RowStep(id)
<1>1. att \in [Ids -> AttemptStates] /\ t \in AttemptStates /\ t # "none"
  BY DEF IInv, ServerInv, Terminal, AttemptStates
<1>2. /\ att' \in [Ids -> AttemptStates] /\ \A i \in Ids : i # id => att'[i] = att[i]
      /\ (att'[id] = "none" => att[id] = "none")
  BY <1>1
<1> QED BY <1>2 DEF RowStep

LEMMA StartStep == ASSUME IInv, NEW id \in Ids, StartTextTest(id) PROVE IInv'
<1>1. UNCHANGED <<by, valid, nid>> /\ post[id] = "sent" /\ post[id] # "none"
  BY DEF StartTextTest
<1>2. RowStep(id)
  BY ClaimRow, SameRow DEF StartTextTest
<1>3. att[id] \in CallAnswers
  BY DEF IInv, ServerInv, AttemptStates, CallAnswers
<1>4. \E p \in PostStates : p \notin {"none", "sent"} /\ post' = [post EXCEPT ![id] = p]
  BY DEF StartTextTest, PostStates
<1>5. mini' = mini \/ \E a \in CallAnswers : AnswerPost(id, a)
  BY <1>3 DEF StartTextTest, CallAnswers
<1>6. PICK p \in PostStates : p \notin {"none", "sent"} /\ post' = [post EXCEPT ![id] = p]
  BY <1>4
<1> QED BY <1>1, <1>2, <1>5, <1>6, PostStep

LEMMA CompleteStep == ASSUME IInv, NEW id \in Ids, CompleteTextTest(id) \/ CompleteFails(id) \/ PostLost(id) PROVE IInv'
<1>1. UNCHANGED <<by, valid, nid>> /\ post[id] # "none" /\ post' = [post EXCEPT ![id] = "done"]
  BY DEF CompleteTextTest, CompleteFails, PostLost
<1>2. RowStep(id)
  BY DoneRow, SameRow DEF CompleteTextTest, CompleteFails, PostLost
<1>3. \E a \in CallAnswers : AnswerPost(id, a)
  BY DEF CompleteTextTest, CompleteFails, PostLost, CallAnswers, Terminal
<1>4. PICK p \in PostStates : p = "done"
  BY DEF PostStates
<1> QED BY <1>1, <1>2, <1>3, <1>4, PostStep

\* A copy relays only where it inserts the row, and completes that row.
LEMMA CopyStep == ASSUME IInv, NEW id \in Ids, Duplicate(id) \/ TwinEnds(id) PROVE IInv'
<1>1. UNCHANGED <<mini, post, by, valid, nid>>
  BY DEF Duplicate, TwinEnds
<1>2. RowStep(id)
  BY ClaimRow, SameRow, DoneRow DEF Duplicate, TwinEnds
<1>3. ServerInv'
  BY <1>1, <1>2, RowsKept DEF IInv, ServerInv, RowStep
<1>4. ClientInv'
  BY <1>1, Now DEF ClientInv
<1> QED BY <1>3, <1>4 DEF IInv

LEMMA DeleteStep == ASSUME IInv, NEW id \in Ids, DeleteExpired(id) PROVE IInv'
<1>1. /\ UNCHANGED <<mini, post, by, valid, nid>> /\ att' = [att EXCEPT ![id] = "none"]
      /\ relays' = [relays EXCEPT ![id] = 0]
  BY DEF DeleteExpired
<1>2. ServerInv'
  BY <1>1 DEF IInv, ServerInv, AttemptStates
<1>3. ClientInv'
  BY <1>1, Now DEF ClientInv
<1> QED BY <1>2, <1>3 DEF IInv

LEMMA RevokeStep == ASSUME IInv, RevokeMini PROVE IInv'
<1>1. UNCHANGED <<mini, post, by, att, nid, relays>> /\ valid' = valid + 1
  BY DEF RevokeMini
<1>2. ServerInv'
  BY <1>1 DEF IInv, ServerInv
<1>3. ClientInv'
  BY <1>1, Now DEF ClientInv
<1> QED BY <1>2, <1>3 DEF IInv

LEMMA AnswerStep == ASSUME IInv, NEW c \in mini.calls, TextTestStatus(c) \/ CallTimesOut(c) PROVE IInv'
<1>1. UNCHANGED <<post, by, att, relays, valid, nid>> /\ c.kind # "id"
  BY DEF TextTestStatus, CallTimesOut
<1>2. \E a \in CallAnswers : Answer(c, a)
  <2>1. CASE TextTestStatus(c)
    <3>1. c.id \in Ids
      BY Now, CallsType, IdsAssumption DEF Sound, Known, Ids, IInv, ServerInv
    <3>2. att[c.id] \in CallAnswers
      BY <3>1 DEF IInv, ServerInv, AttemptStates, CallAnswers
    <3> QED BY <2>1, <3>2 DEF TextTestStatus, CallAnswers
  <2>2. CASE CallTimesOut(c)
    BY <2>2 DEF CallTimesOut, CallAnswers
  <2> QED BY <2>1, <2>2
<1>3. PICK ds : mini' = [mini EXCEPT !.calls = ds] /\ AnsweredCalls(mini.calls, ds)
  BY <1>1, <1>2, AnswerIs
<1>4. \A d \in mini.calls : d.kind = "id" => post[d.id] = "none"
  BY Now DEF Sound, Fresh
<1> DEFINE y == [mini EXCEPT !.calls = ds]
<1>5. Sound(y, nid, post) /\ Watched(y) /\ Released(y)
  BY <1>3, <1>4, AnsweredCallsSound
<1>6. mini' = y
  BY <1>3
<1> HIDE DEF y
<1> QED BY <1>1, <1>5, <1>6, ClientStep

-----------------------------------------------------------------------------
(* The theorems. *)

LEMMA InitIInv == TInit => IInv
<1> SUFFICES ASSUME TInit PROVE IInv
  OBVIOUS
<1>1. ServerInv
  BY IdsAssumption DEF TInit, ServerInv, PostStates, AttemptStates
<1>2. /\ mini.p = NoPage /\ mini.sess = 1 /\ mini.inFlight = {} /\ mini.calls = {} /\ mini.stored = 0 /\ mini.unknown = {}
      /\ mini \in Clients
  BY NoPageType DEF TInit, Clients
<1>3. Known(mini, nid) /\ Fresh(mini, post) /\ Current(mini) /\ InStep(mini) /\ Remembered(mini)
  BY <1>2, NoPageType DEF TInit, Known, Fresh, Current, InStep, Remembered
<1>4. Watched(mini) /\ Released(mini)
  BY <1>2, NoPageType DEF Watched, Released
<1> QED BY <1>1, <1>2, <1>3, <1>4 DEF IInv, ClientInv, Sound

LEMMA NextIInv == IInv /\ [TNext]_tvars => IInv'
<1> SUFFICES ASSUME IInv, [TNext]_tvars PROVE IInv'
  OBVIOUS
<1>1. CASE UNCHANGED tvars
  BY <1>1, Now, ClientStep DEF tvars
<1> QED
  BY <1>1, OpenStep, ShowStep, HideStep, UnloadStep, SubmitStep, PollStep, DueStep, RunsOutStep, StorageStep, KillStep,
     ReloginStep, RevokeStep, IdCreatedStep, IdFailsStep, ReturnedStep, AnswerStep, StartStep, CopyStep,
     CompleteStep, DeleteStep DEF TNext

\* At most one call of the lifecycle is current, and it is about the request of
\* the page that is shown; what the user was not told of is that request.
THEOREM AlwaysIInv == TSpec => []IInv
BY InitIInv, NextIInv, PTL DEF TSpec

\* An attempt is relayed, and so paid for, at most once while its row is kept
\* (CreateMiniTextTestAttempt), for any number of requests, copies and faults.
THEOREM AlwaysOneRelay == TSpec => []OneRelay
<1>1. IInv => OneRelay
  BY DEF IInv, ServerInv, OneRelay
<1> QED BY <1>1, AlwaysIInv, PTL

\* The attempt of whose outcome the user was not told is in storage, or in the
\* memory of the open page where storage did not take it (pending-text-test.ts),
\* until the session ends or the server refuses or storage fails just as a page
\* opens or goes away.
THEOREM AlwaysNoForgottenAttempt == TSpec => []NoForgottenAttempt
<1>1. IInv => NoForgottenAttempt
  BY DEF IInv, ClientInv, Sound, Remembered, InStep, NoForgottenAttempt
<1> QED BY <1>1, AlwaysIInv, PTL

\* A pending request is polled, awaited or announced, and the button is only
\* disabled while a start is under way (TextTestLifecycle).
THEOREM AlwaysPendingWatched == TSpec => []PendingWatched
<1>1. IInv => PendingWatched
  BY DEF IInv, ClientInv, Watched, Released, PendingWatched
<1> QED BY <1>1, AlwaysIInv, PTL
=============================================================================
