------------------------- MODULE UserSessionProofs --------------------------
(***************************************************************************)
(* A revoked session stays refused, for any number of requests, nodes,     *)
(* tokens, versions and failing calls, and any TTL, grace and lifetime.    *)
(* The argument is about deadlines: a snapshot, in Redis or still in the   *)
(* hands of a request, dies TTL after a moment at which its version of the *)
(* session was valid.                                                      *)
(***************************************************************************)
EXTENDS UserSession, TLAPS

\* The version ended early enough for a snapshot that dies at d ...
DiesInTime(v, d) == v \in Versions /\ (endAt[v] = NoTime \/ d <= endAt[v] + TTL)

\* ... and late enough for a validation that began at s.
BeganInTime(v, s) == v \in Versions /\ (endAt[v] = NoTime \/ s < endAt[v] + TTL)

\* Only the current version of an active session is valid.
RowInv ==
    /\ now \in 0 .. MaxTime
    /\ status # "revoked" => endAt[ver] = NoTime
    /\ \A v \in Versions : v > ver => endAt[v] = NoTime
    /\ gen > 0 => prevUntil = wonAt + Grace

\* An active snapshot in Redis.
ActiveOK(e) == now < e.exp /\ e.exp <= now + TTL /\ e.exp <= Life /\ DiesInTime(e.ver, e.exp)

CacheInv == \A c \in Caches : cache[c].status = "active" => ActiveOK(cache[c])

\* Until when a Redis refuses active snapshots.
Barrier(c) == IF cache[c].status = "deny" THEN cache[c].exp ELSE now

\* Where a tombstone was left there is no active snapshot, nor will one come.
ToldInv == \A c \in told : status = "revoked" /\ cache[c].status # "active"

ToldFill(p) ==
    pc[p] = "fill" /\ loc[p].node \in told =>
        Minimum(loc[p].deadline, Life) <= Barrier(loc[p].node)

Creating(p) == loc[p].op = "create"

\* The chain of refresh tokens.
TokenInv ==
    /\ status = "absent" => issued = {} /\ gen = 0
    /\ \A t \in issued : t <= gen
    /\ gen > 0 => \E t \in issued : t >= gen - 1
    /\ \A p \in Procs : Creating(p) => issued = {} /\ gen = 0 /\ status # "absent"
    /\ \A p, q \in Procs : Creating(p) /\ Creating(q) => p = q

Answering == {"fill", "filled", "confirm", "ok"}

\* Where a request has more to keep than its parameters.
Bound == {"idle", "final", "advance", "read", "rotRead", "cas"} \cup Answering

\* What a request holds.
ProcInv(p) ==
    LET l == loc[p] IN
    /\ pc[p] = "idle" => l = NoLoc
    /\ pc[p] # "idle" => l.node \in Caches
    /\ l.at \in 0 .. now /\ l.start <= now /\ l.deadline <= now + TTL
    /\ pc[p] \in {"cas", "fill", "filled"} => DiesInTime(l.ver, l.deadline)
    /\ l.op = "validate" /\ pc[p] \in Answering => BeganInTime(l.ver, l.start)
    /\ l.told => pc[p] = "read" /\ status = "revoked"
    /\ pc[p] = "read" => l.op = "validate"
    /\ pc[p] = "final" => status = "revoked"
    /\ pc[p] = "fence" => l.op \in {"revoke", "revokeAll"}
    /\ pc[p] = "advance" => l.op = "advance" /\ l.ver \in 1 .. (MaxVer - 1)
    /\ pc[p] \in {"rotRead", "cas"} => l.op = "rotate" /\ l.tok \in issued /\ l.tok < MaxGen
    /\ l.op = "rotate" /\ pc[p] \in Answering => l.tok + 1 <= gen

\* The inductive invariant.
IInv ==
    /\ TypeOK /\ RowInv /\ CacheInv /\ ToldInv /\ TokenInv
    /\ \A p \in Procs : ProcInv(p) /\ ToldFill(p)

-----------------------------------------------------------------------------
(* How one request's step touches the others.                              *)

OthersKept(p) == \A q \in Procs : q # p => pc'[q] = pc[q] /\ loc'[q] = loc[q]

\* The row only ages: versions end now, a revoked session stays revoked.
Ages ==
    /\ \A v \in Versions : endAt'[v] = endAt[v] \/ endAt'[v] = now
    /\ status = "revoked" => status' = "revoked"
    /\ gen <= gen' /\ issued \subseteq issued'

\* A Redis that was told refuses active snapshots at least as long as before,
\* or as long as any snapshot under way could live.
BarrierRises ==
    \A c \in told' :
        \/ c \in told /\ Barrier(c) <= Barrier(c)'
        \/ Minimum(now + TTL, Life) <= Barrier(c)'

\* What the types say of one request.
LEMMA Typed ==
    ASSUME TypeOK, NEW p \in Procs
    PROVE  /\ pc[p] \in Labels /\ loc[p] \in Locals
           /\ loc[p].op \in {None, "create", "validate", "rotate", "revoke", "revokeAll", "logout", "advance"}
           /\ loc[p].node \in Caches \cup {None} /\ loc[p].ver \in Versions \cup {0}
           /\ loc[p].deadline \in Times /\ loc[p].deadline \in Int /\ loc[p].tok \in Tokens
           /\ loc[p].at \in Times /\ loc[p].at \in Int /\ loc[p].tries \in 0 .. 2
           /\ loc[p].start \in Times /\ loc[p].start \in Int /\ loc[p].told \in BOOLEAN
BY UserSessionAssumption DEF TypeOK, Locals, Times, NoTime, MaxRotateTries

\* The constants.
LEMMA Numbers ==
    /\ TTL \in Nat /\ TTL > 0 /\ Grace \in Nat /\ Life \in Nat /\ Life > 0
    /\ MaxTime \in Nat /\ MaxGen \in Nat /\ MaxVer \in Nat /\ MaxVer > 0 /\ MaxFaults \in Nat
    /\ NoTime = -1
BY UserSessionAssumption DEF NoTime

LEMMA NoLocType == NoLoc \in Locals
BY Numbers DEF NoLoc, Locals, Times, Versions, Tokens, MaxRotateTries

\* Moments that a request keeps.
LEMMA Moments ==
    ASSUME now \in 0 .. MaxTime
    PROVE  0 \in Times /\ now \in Times /\ now + TTL \in Times /\ 0 \in 0 .. now /\ now \in 0 .. now
BY Numbers DEF Times

\* The earlier of two moments.
LEMMA MinimumFacts ==
    ASSUME NEW a \in Int, NEW b \in Int
    PROVE  /\ Minimum(a, b) \in Int /\ Minimum(a, b) <= a /\ Minimum(a, b) <= b
           /\ Minimum(a, b) = a \/ Minimum(a, b) = b
           /\ \A d \in Int : a <= d => Minimum(a, b) <= Minimum(d, b)
BY DEF Minimum

\* The row's and the caches' types in a form the provers take in quickly.
LEMMA RowTyped ==
    ASSUME TypeOK
    PROVE  /\ now \in Int /\ gen \in Nat /\ gen \in Tokens /\ ver \in Int /\ ver \in Versions
           /\ prevUntil \in Int /\ wonAt \in Int
           /\ \A v \in Versions : v \in Int /\ endAt[v] \in Int
           /\ \A c \in Caches : Barrier(c) \in Int /\ cache[c].exp \in Int /\ cache[c].ver \in Int
BY Numbers DEF TypeOK, Times, Versions, Tokens, Barrier

\* A request that takes no step keeps what it holds.
LEMMA Frame ==
    ASSUME IInv, TypeOK', NEW q \in Procs, pc'[q] = pc[q], loc'[q] = loc[q],
           now' = now, Ages, BarrierRises
    PROVE  ProcInv(q)' /\ ToldFill(q)'
<1>1. TypeOK /\ ProcInv(q) /\ ToldFill(q)
    BY DEF IInv
<1>2. /\ now \in Int /\ gen \in Int
      /\ loc[q].deadline \in Int /\ loc[q].start \in Int /\ loc[q].tok \in Int
    BY <1>1, RowTyped, Typed, Numbers DEF Tokens
<1>3. gen' \in Int /\ \A v \in Versions : endAt'[v] \in Int
    BY Numbers DEF TypeOK, Tokens, Times
<1>4. loc[q].deadline <= now + TTL /\ loc[q].start <= now
    BY <1>1 DEF ProcInv
<1>5. ASSUME NEW v, DiesInTime(v, loc[q].deadline)
      PROVE  v \in Versions /\ (endAt'[v] = NoTime \/ loc[q].deadline <= endAt'[v] + TTL)
    BY <1>1, <1>2, <1>3, <1>4, <1>5, RowTyped, Numbers DEF DiesInTime, Ages
<1>6. ASSUME NEW v, BeganInTime(v, loc[q].start)
      PROVE  v \in Versions /\ (endAt'[v] = NoTime \/ loc[q].start < endAt'[v] + TTL)
    BY <1>1, <1>2, <1>3, <1>4, <1>6, RowTyped, Numbers DEF BeganInTime, Ages
<1>7. ProcInv(q)'
  <2>1. loc[q].tok + 1 <= gen => loc[q].tok + 1 <= gen'
    BY <1>2, <1>3 DEF Ages
  <2>2. DiesInTime(loc[q].ver, loc[q].deadline) => DiesInTime(loc[q].ver, loc[q].deadline)'
    BY <1>5 DEF DiesInTime
  <2>3. BeganInTime(loc[q].ver, loc[q].start) => BeganInTime(loc[q].ver, loc[q].start)'
    BY <1>6 DEF BeganInTime
  <2> QED BY <1>1, <2>1, <2>2, <2>3 DEF ProcInv, Ages
<1>8. ToldFill(q)'
  <2> SUFFICES ASSUME pc[q] = "fill", loc[q].node \in told'
               PROVE  Minimum(loc[q].deadline, Life) <= Barrier(loc[q].node)'
    BY DEF ToldFill
  <2>1. loc[q].node \in Caches
    BY <1>1 DEF ProcInv
  <2>2. Barrier(loc[q].node) \in Int /\ Barrier(loc[q].node)' \in Int
    <3>1. now' \in Int /\ cache'[loc[q].node].exp \in Int
      BY <2>1, Numbers DEF TypeOK, Times
    <3> QED BY <1>1, <2>1, <3>1, RowTyped DEF Barrier
  <2>3. CASE loc[q].node \in told /\ Barrier(loc[q].node) <= Barrier(loc[q].node)'
    <3>1. Minimum(loc[q].deadline, Life) \in Int
      BY <1>2, Numbers DEF Minimum
    <3>2. Minimum(loc[q].deadline, Life) <= Barrier(loc[q].node)
      BY <1>1, <2>3 DEF ToldFill
    <3> QED BY <2>2, <2>3, <3>1, <3>2
  <2>4. CASE Minimum(now + TTL, Life) <= Barrier(loc[q].node)'
    <3>1. Minimum(loc[q].deadline, Life) <= Minimum(now + TTL, Life)
      BY <1>2, <1>4, Numbers DEF Minimum
    <3>2. Minimum(loc[q].deadline, Life) \in Int /\ Minimum(now + TTL, Life) \in Int
      BY <1>2, Numbers DEF Minimum
    <3> QED BY <2>2, <2>4, <3>1, <3>2
  <2> QED BY <2>3, <2>4 DEF BarrierRises
<1> QED BY <1>7, <1>8

\* A step of request p, put together.
LEMMA Compose ==
    ASSUME IInv, TypeOK', NEW p \in Procs, OthersKept(p), now' = now, Ages, BarrierRises,
           RowInv', CacheInv', ToldInv', TokenInv', ProcInv(p)', ToldFill(p)'
    PROVE  IInv'
<1>1. ASSUME NEW q \in Procs PROVE ProcInv(q)' /\ ToldFill(q)'
    BY Frame DEF OthersKept
<1> QED BY <1>1 DEF IInv

-----------------------------------------------------------------------------
(* Steps that touch neither the row nor Redis.                             *)

\* A request moves, with or without new local variables.
LEMMA LocFacts ==
    ASSUME TypeOK, NEW p \in Procs, NEW l \in Labels, NEW r \in Locals, GotoLoc(p, l, r)
    PROVE  /\ pc' \in [Procs -> Labels] /\ loc' \in [Procs -> Locals]
           /\ pc'[p] = l /\ loc'[p] = r /\ OthersKept(p)
BY DEF TypeOK, GotoLoc, OthersKept

LEMMA GotoFacts ==
    ASSUME TypeOK, NEW p \in Procs, NEW l \in Labels, Goto(p, l)
    PROVE  /\ pc' \in [Procs -> Labels] /\ loc' \in [Procs -> Locals]
           /\ pc'[p] = l /\ loc'[p] = loc[p] /\ OthersKept(p)
BY DEF TypeOK, Goto, OthersKept

\* The chain of tokens when only requests move.
LEMMA TokenKept ==
    ASSUME IInv, NEW p \in Procs, OthersKept(p), UNCHANGED <<issued, gen>>,
           status # "absent" => status' # "absent", loc'[p].op = "create" => Creating(p)
    PROVE  TokenInv'
BY DEF IInv, TokenInv, Creating, OthersKept

\* A request that goes on without touching the row, Redis or the ghosts.
LEMMA LocalStep ==
    ASSUME IInv, NEW p \in Procs, NEW l \in Labels, NEW r \in Locals,
           pc' \in [Procs -> Labels], loc' \in [Procs -> Locals], pc'[p] = l, loc'[p] = r, OthersKept(p),
           UNCHANGED <<now, row, cache, ghosts>>, lock' \in Procs \cup {None}, faults' \in 0 .. MaxFaults,
           r.op = "create" => Creating(p), ProcInv(p)',
           l = "fill" => status = "active"
    PROVE  IInv'
<1>1. TypeOK'
    BY DEF IInv, TypeOK, row, ghosts
<1>2. Ages /\ BarrierRises
  <2>1. ASSUME NEW c \in told PROVE Barrier(c) \in Int
    BY RowTyped DEF IInv, TypeOK
  <2>2. BarrierRises
    BY <2>1 DEF BarrierRises, Barrier, row, ghosts
  <2>3. Ages
    BY RowTyped DEF IInv, Ages, row, ghosts
  <2> QED BY <2>2, <2>3
<1>3. RowInv' /\ CacheInv' /\ ToldInv'
    BY DEF IInv, RowInv, CacheInv, ActiveOK, DiesInTime, ToldInv, row, ghosts
<1>4. TokenInv'
    BY TokenKept DEF row, ghosts
<1>5. ToldFill(p)'
    BY DEF ToldFill, IInv, ToldInv, row, ghosts
<1> QED BY <1>1, <1>2, <1>3, <1>4, <1>5, Compose

\* What an idle request holds, and one that is about to answer.
LEMMA IdleProc ==
    ASSUME IInv, NEW p \in Procs, Return(p), now' = now
    PROVE  /\ pc' \in [Procs -> Labels] /\ loc' \in [Procs -> Locals] /\ OthersKept(p)
           /\ pc'[p] = "idle" /\ loc'[p] = NoLoc /\ loc'[p].op # "create"
           /\ ProcInv(p)' /\ ToldFill(p)'
<1>1. /\ pc' \in [Procs -> Labels] /\ loc' \in [Procs -> Locals] /\ OthersKept(p)
      /\ pc'[p] = "idle" /\ loc'[p] = NoLoc
    BY LocFacts, NoLocType DEF IInv, Return, Labels
<1>2. now \in 0 .. MaxTime
    BY DEF IInv, RowInv
<1> QED BY <1>1, <1>2, Numbers DEF NoLoc, ProcInv, ToldFill, Answering, None

\* A request that ends and touches nothing else.
LEMMA ReturnStep ==
    ASSUME IInv, NEW p \in Procs, Return(p), UNCHANGED <<now, row, cache, ghosts>>,
           lock' \in Procs \cup {None}, faults' \in 0 .. MaxFaults
    PROVE  IInv'
<1>1. "idle" \in Labels
    BY DEF Labels
<1> QED BY <1>1, IdleProc, LocalStep, NoLocType

\* A write that fails is counted.
LEMMA FaultFacts ==
    ASSUME TypeOK
    PROVE  /\ Fault => faults' \in 0 .. MaxFaults
           /\ Ok => faults' \in 0 .. MaxFaults
           /\ UNCHANGED faults => faults' \in 0 .. MaxFaults
           /\ UNCHANGED lock => lock' \in Procs \cup {None}
BY Numbers DEF TypeOK, Fault, Ok

\* Succeed and Stale keep what the request holds.
LEMMA AnswerProc ==
    ASSUME IInv, NEW p \in Procs, pc[p] \in {"fill", "filled", "confirm"},
           Succeed(p) \/ Stale(p), UNCHANGED <<now, row, ghosts>>
    PROVE  /\ pc' \in [Procs -> Labels] /\ loc' \in [Procs -> Locals] /\ OthersKept(p)
           /\ pc'[p] \in {"ok", "confirm"} /\ loc'[p] \in Locals
           /\ loc'[p].op = loc[p].op /\ ProcInv(p)' /\ ToldFill(p)'
<1> DEFINE r == [loc[p] EXCEPT !.deadline = 0]
<1>1. /\ TypeOK /\ ProcInv(p) /\ loc[p] \in Locals /\ now \in 0 .. MaxTime
    BY Typed DEF IInv, RowInv
<1>2. /\ r \in Locals
      /\ r.op = loc[p].op /\ r.node = loc[p].node /\ r.ver = loc[p].ver /\ r.deadline = 0
      /\ r.at = loc[p].at /\ r.start = loc[p].start /\ r.tok = loc[p].tok /\ r.told = loc[p].told
    BY <1>1, Numbers DEF Locals, Times
<1>3. /\ pc' \in [Procs -> Labels] /\ loc' \in [Procs -> Locals] /\ OthersKept(p)
      /\ pc'[p] \in {"ok", "confirm"} /\ loc'[p] = r
    BY <1>1, <1>2, LocFacts DEF Succeed, Stale, Labels
<1>4. ProcInv(p)'
    BY <1>1, <1>2, <1>3, Numbers DEF ProcInv, BeganInTime, Answering, row, ghosts
<1> QED BY <1>2, <1>3, <1>4 DEF ToldFill

\* A snapshot that is done, or must be confirmed.
LEMMA AnswerStep ==
    ASSUME IInv, NEW p \in Procs, pc[p] \in {"fill", "filled", "confirm"},
           Succeed(p) \/ Stale(p), UNCHANGED <<now, row, cache, ghosts, lock>>, faults' \in 0 .. MaxFaults
    PROVE  IInv'
<1>1. pc'[p] \in Labels
    BY AnswerProc DEF Labels
<1>2. lock' \in Procs \cup {None}
    BY DEF IInv, TypeOK
<1> QED BY <1>1, <1>2, AnswerProc, LocalStep DEF Creating

\* GetUserSessionCached reads the row: a version found active is still valid now.
LEMMA ReadSessionInv ==
    ASSUME IInv, NEW p \in Procs, ReadSession(p)
    PROVE  IInv'
<1>1. /\ TypeOK /\ ProcInv(p) /\ RowInv /\ loc[p] \in Locals
      /\ UNCHANGED <<now, row, cache, ghosts>>
      /\ lock' \in Procs \cup {None} /\ faults' \in 0 .. MaxFaults
      /\ loc[p].op = "validate" /\ loc[p].node \in Caches
    BY Typed, FaultFacts DEF IInv, ReadSession, ProcInv
<1>2. CASE status = "active" /\ now < Life
  <2> DEFINE r == [loc[p] EXCEPT !.ver = ver]
  <2>1. /\ r \in Locals
        /\ r.op = loc[p].op /\ r.node = loc[p].node /\ r.ver = ver /\ r.deadline = loc[p].deadline
        /\ r.at = loc[p].at /\ r.start = loc[p].start /\ r.tok = loc[p].tok /\ r.told = loc[p].told
    BY <1>1 DEF Locals, TypeOK
  <2>2. /\ pc' \in [Procs -> Labels] /\ loc' \in [Procs -> Locals] /\ OthersKept(p)
        /\ pc'[p] = "fill" /\ loc'[p] = r
    BY <1>1, <1>2, <2>1, LocFacts DEF ReadSession, Labels
  <2>3. ver \in Versions /\ endAt[ver] = NoTime
    BY <1>1, <1>2 DEF RowInv, TypeOK
  <2>4. ProcInv(p)'
    BY <1>1, <1>2, <2>1, <2>2, <2>3 DEF ProcInv, DiesInTime, BeganInTime, Answering, row, ghosts
  <2> QED BY <1>1, <1>2, <2>1, <2>2, <2>4, LocalStep DEF Labels
<1>3. CASE ~(status = "active" /\ now < Life)
  <2> DEFINE r == [NoLoc EXCEPT !.op = "validate", !.node = loc[p].node, !.ver = ver]
  <2>1. /\ r \in Locals /\ r.op = "validate" /\ r.node = loc[p].node /\ r.deadline = 0
        /\ r.at = 0 /\ r.start = 0 /\ r.told = FALSE
    BY <1>1, NoLocType DEF Locals, TypeOK, NoLoc
  <2>2. /\ pc' \in [Procs -> Labels] /\ loc' \in [Procs -> Locals] /\ OthersKept(p)
        /\ pc'[p] = "deny" /\ loc'[p] = r
    BY <1>1, <1>3, <2>1, LocFacts DEF ReadSession, Labels
  <2>3. ProcInv(p)'
    BY <1>1, <2>1, <2>2, Numbers DEF ProcInv, Answering, RowInv
  <2> QED BY <1>1, <2>1, <2>2, <2>3, LocalStep DEF Labels
<1> QED BY <1>2, <1>3

\* The snapshot was written: fresh, stale or expired.
LEMMA FillDoneInv ==
    ASSUME IInv, NEW p \in Procs, FillDone(p)
    PROVE  IInv'
<1>1. /\ UNCHANGED <<now, row, cache, ghosts, lock>> /\ pc[p] = "filled"
      /\ lock' \in Procs \cup {None} /\ faults' \in 0 .. MaxFaults
      /\ Stale(p) \/ Succeed(p) \/ Return(p)
    BY FaultFacts DEF IInv, FillDone
<1> QED BY <1>1, ReturnStep, AnswerStep

\* confirmUserSessionActiveSnapshot.
LEMMA ConfirmInv ==
    ASSUME IInv, NEW p \in Procs, Confirm(p)
    PROVE  IInv'
<1>1. /\ UNCHANGED <<now, row, cache, ghosts, lock>> /\ pc[p] = "confirm"
      /\ lock' \in Procs \cup {None} /\ faults' \in 0 .. MaxFaults
      /\ Succeed(p) \/ Return(p)
    BY FaultFacts DEF IInv, Confirm
<1> QED BY <1>1, ReturnStep, AnswerStep

-----------------------------------------------------------------------------
(* Requests that begin.                                                    *)

\* A request that has only its parameters: label l, record r.
LEMMA BeginStep ==
    ASSUME IInv, NEW p \in Procs, NEW l \in Labels, NEW r \in Locals, GotoLoc(p, l, r),
           UNCHANGED <<now, row, cache, ghosts, faults>>, lock' \in Procs \cup {None},
           l \notin Bound,
           r.node \in Caches, r.op # "create", r.at \in 0 .. now, r.start = 0, r.deadline = 0, ~r.told,
           l = "fence" => r.op \in {"revoke", "revokeAll"}
    PROVE  IInv'
<1>1. /\ pc' \in [Procs -> Labels] /\ loc' \in [Procs -> Locals] /\ OthersKept(p)
      /\ pc'[p] = l /\ loc'[p] = r
    BY LocFacts DEF IInv
<1>2. now \in 0 .. MaxTime /\ faults' \in 0 .. MaxFaults
    BY FaultFacts DEF IInv, RowInv
<1>3. ProcInv(p)'
    BY <1>1, <1>2, Numbers DEF ProcInv, Bound, Answering
<1> QED BY <1>1, <1>2, <1>3, LocalStep DEF Bound, Answering

\* A hit in Redis: the snapshot is not one that a tombstone should have removed.
LEMMA GetUserSessionCachedInv ==
    ASSUME IInv, NEW p \in Procs, NEW c \in Caches, GetUserSessionCached(p, c)
    PROVE  IInv'
<1> DEFINE l == [NoLoc EXCEPT !.op = "validate", !.node = c, !.start = now, !.told = c \in told]
           h == [l EXCEPT !.ver = cache[c].ver]
           m == [l EXCEPT !.deadline = now + TTL]
<1>1. /\ TypeOK /\ RowInv /\ CacheInv /\ ToldInv /\ now \in 0 .. MaxTime /\ cache[c].ver \in Versions \cup {0}
      /\ UNCHANGED <<now, row, cache, ghosts>>
      /\ lock' \in Procs \cup {None} /\ faults' \in 0 .. MaxFaults
    BY FaultFacts DEF IInv, GetUserSessionCached, RowInv, TypeOK
<1>2. (c \in told) \in BOOLEAN
    OBVIOUS
<1>3. /\ h \in Locals /\ h.op = "validate" /\ h.node = c /\ h.start = now /\ h.ver = cache[c].ver
      /\ h.told = (c \in told) /\ h.deadline = 0 /\ h.at = 0
    BY <1>1, <1>2, NoLocType, Moments DEF Locals, NoLoc
<1>4. /\ m \in Locals /\ m.op = "validate" /\ m.node = c /\ m.start = now
      /\ m.told = (c \in told) /\ m.deadline = now + TTL /\ m.at = 0
    BY <1>1, <1>2, NoLocType, Moments DEF Locals, NoLoc
<1>5. CASE Return(p)
    BY <1>1, <1>5, ReturnStep
<1>6. CASE cache[c].status = "active" /\ GotoLoc(p, "ok", h)
  <2>1. /\ pc' \in [Procs -> Labels] /\ loc' \in [Procs -> Locals] /\ OthersKept(p)
        /\ pc'[p] = "ok" /\ loc'[p] = h
    BY <1>1, <1>3, <1>6, LocFacts DEF Labels
  <2>2. ~h.told
    BY <1>1, <1>3, <1>6, Zenon DEF ToldInv
  <2>3. BeganInTime(h.ver, h.start)
    BY <1>1, <1>3, <1>6, RowTyped, Numbers DEF CacheInv, ActiveOK, DiesInTime, BeganInTime
  <2>4. ProcInv(p)'
    <3>1. h.at \in 0 .. now /\ h.start <= now /\ h.deadline <= now + TTL
      BY <1>1, <1>3, Numbers
    <3> HIDE DEF h
    <3> QED BY <1>1, <1>3, <2>1, <2>2, <2>3, <3>1 DEF ProcInv, Answering, BeganInTime, ghosts
  <2> QED BY <1>1, <1>3, <2>1, <2>4, LocalStep DEF Labels
<1>7. CASE GotoLoc(p, "read", m)
  <2>1. /\ pc' \in [Procs -> Labels] /\ loc' \in [Procs -> Locals] /\ OthersKept(p)
        /\ pc'[p] = "read" /\ loc'[p] = m
    BY <1>1, <1>4, <1>7, LocFacts DEF Labels
  <2>2. ProcInv(p)'
    <3>1. m.at \in 0 .. now /\ m.start <= now /\ m.deadline <= now + TTL
      BY <1>1, <1>4, Numbers
    <3>2. m.told => status = "revoked"
      BY <1>1, <1>4, Zenon DEF ToldInv
    <3> HIDE DEF m
    <3> QED BY <1>1, <1>4, <2>1, <3>1, <3>2 DEF ProcInv, Answering, row
  <2> QED BY <1>1, <1>4, <2>1, <2>2, LocalStep DEF Labels
<1> QED BY <1>5, <1>6, <1>7 DEF GetUserSessionCached

\* RotateUserSessionRefresh begins with a token that was handed out.
LEMMA RotateStartInv ==
    ASSUME IInv, NEW p \in Procs, NEW c \in Caches, NEW t \in Tokens, RotateUserSessionRefresh(p, c, t)
    PROVE  IInv'
<1> DEFINE r == [NoLoc EXCEPT !.op = "rotate", !.node = c, !.tok = t, !.at = now]
<1>1. /\ TypeOK /\ now \in 0 .. MaxTime /\ UNCHANGED <<now, row, cache, ghosts>> /\ t \in issued /\ t < MaxGen
      /\ lock' \in Procs \cup {None} /\ faults' \in 0 .. MaxFaults
    BY FaultFacts DEF IInv, RotateUserSessionRefresh, RowInv
<1>2. /\ r \in Locals /\ r.op = "rotate" /\ r.node = c /\ r.start = 0 /\ r.tok = t
      /\ r.told = FALSE /\ r.deadline = 0 /\ r.at = now
    BY <1>1, NoLocType, Moments DEF Locals, NoLoc
<1>3. /\ pc' \in [Procs -> Labels] /\ loc' \in [Procs -> Locals] /\ OthersKept(p)
      /\ pc'[p] = "rotRead" /\ loc'[p] = r
    BY <1>1, <1>2, LocFacts DEF Labels, RotateUserSessionRefresh
<1>4. ProcInv(p)'
    BY <1>1, <1>2, <1>3, Numbers DEF ProcInv, Answering, ghosts
<1> QED BY <1>1, <1>2, <1>3, <1>4, LocalStep DEF Labels

\* RevokeUserSession and revokeUserSessions begin.
LEMMA RevokeStartInv ==
    ASSUME IInv, NEW p \in Procs, NEW c \in Caches, NEW op \in {"revoke", "revokeAll"},
           RevokeUserSession(p, c, op)
    PROVE  IInv'
<1> DEFINE r == [NoLoc EXCEPT !.op = op, !.node = c, !.ver = ver]
<1>1. TypeOK /\ now \in 0 .. MaxTime /\ lock' \in Procs \cup {None}
    BY FaultFacts DEF IInv, RowInv, RevokeUserSession
<1>2. /\ r \in Locals /\ r.op = op /\ r.node = c /\ r.start = 0
      /\ r.told = FALSE /\ r.deadline = 0 /\ r.at = 0
    BY <1>1, NoLocType DEF Locals, NoLoc, TypeOK
<1>3. "fence" \in Labels /\ "fence" \notin Bound
    BY DEF Labels, Bound, Answering
<1>4. GotoLoc(p, "fence", r) /\ UNCHANGED <<now, row, cache, ghosts, faults>>
    BY DEF RevokeUserSession
<1> HIDE DEF r
<1> QED BY <1>1, <1>2, <1>3, <1>4, Moments, BeginStep

\* RevokeUserSessionByRefreshHash begins.
LEMMA LogoutStartInv ==
    ASSUME IInv, NEW p \in Procs, NEW c \in Caches, NEW t \in Tokens,
           RevokeUserSessionByRefreshHash(p, c, t)
    PROVE  IInv'
<1> DEFINE r == [NoLoc EXCEPT !.op = "logout", !.node = c, !.tok = t, !.at = now]
<1>1. TypeOK /\ now \in 0 .. MaxTime /\ lock' \in Procs \cup {None}
    BY FaultFacts DEF IInv, RowInv, RevokeUserSessionByRefreshHash
<1>2. /\ r \in Locals /\ r.op = "logout" /\ r.node = c /\ r.start = 0
      /\ r.told = FALSE /\ r.deadline = 0 /\ r.at = now
    BY <1>1, NoLocType, Moments DEF Locals, NoLoc
<1>3. "logoutLock" \in Labels /\ "logoutLock" \notin Bound
    BY DEF Labels, Bound, Answering
<1>4. GotoLoc(p, "logoutLock", r) /\ UNCHANGED <<now, row, cache, ghosts, faults>>
    BY DEF RevokeUserSessionByRefreshHash
<1> HIDE DEF r
<1> QED BY <1>1, <1>2, <1>3, <1>4, Moments, BeginStep

\* AdvanceUserSessionAuthVersion begins.
LEMMA AdvanceStartInv ==
    ASSUME IInv, NEW p \in Procs, NEW c \in Caches, AdvanceUserSessionAuthVersion(p, c)
    PROVE  IInv'
<1> DEFINE r == [NoLoc EXCEPT !.op = "advance", !.node = c, !.ver = ver, !.at = now,
                              !.deadline = now + TTL]
<1>1. /\ TypeOK /\ now \in 0 .. MaxTime /\ UNCHANGED <<now, row, cache, ghosts>>
      /\ lock' \in Procs \cup {None} /\ faults' \in 0 .. MaxFaults /\ ver \in 1 .. (MaxVer - 1)
    BY FaultFacts, Numbers DEF IInv, AdvanceUserSessionAuthVersion, RowInv, TypeOK, Versions
<1>2. /\ r \in Locals /\ r.op = "advance" /\ r.node = c /\ r.start = 0 /\ r.ver = ver
      /\ r.told = FALSE /\ r.deadline = now + TTL /\ r.at = now
    BY <1>1, NoLocType, Moments DEF Locals, NoLoc, TypeOK
<1>3. /\ pc' \in [Procs -> Labels] /\ loc' \in [Procs -> Locals] /\ OthersKept(p)
      /\ pc'[p] = "advance" /\ loc'[p] = r
    BY <1>1, <1>2, LocFacts DEF Labels, AdvanceUserSessionAuthVersion
<1>4. ProcInv(p)'
    BY <1>1, <1>2, <1>3, Numbers DEF ProcInv, Answering
<1> QED BY <1>1, <1>2, <1>3, <1>4, LocalStep DEF Labels

\* RevokeUserSessionByRefreshHash has its row lock.
LEMMA LogoutLockInv ==
    ASSUME IInv, NEW p \in Procs, LogoutLock(p)
    PROVE  IInv'
<1> DEFINE r == [loc[p] EXCEPT !.ver = ver, !.tok = 0, !.at = 0]
<1>1. /\ TypeOK /\ ProcInv(p) /\ now \in 0 .. MaxTime /\ UNCHANGED <<now, row, cache, ghosts>>
      /\ lock' \in Procs \cup {None} /\ faults' \in 0 .. MaxFaults /\ loc[p] \in Locals
      /\ pc[p] = "logoutLock"
      /\ Return(p) \/ GotoLoc(p, "logoutFence", r)
    BY FaultFacts, Typed DEF IInv, LogoutLock, RowInv
<1>2. /\ r \in Locals /\ r.op = loc[p].op /\ r.node = loc[p].node /\ r.start = loc[p].start
      /\ r.told = loc[p].told /\ r.deadline = loc[p].deadline /\ r.at = 0
    <2>1. 0 \in Tokens /\ 0 \in Times /\ ver \in Versions
      BY <1>1, Numbers, Moments DEF Tokens, TypeOK
    <2> QED BY <1>1, <2>1 DEF Locals
<1>3. CASE GotoLoc(p, "logoutFence", r)
  <2>1. /\ pc' \in [Procs -> Labels] /\ loc' \in [Procs -> Locals] /\ OthersKept(p)
        /\ pc'[p] = "logoutFence" /\ loc'[p] = r
    BY <1>1, <1>2, <1>3, LocFacts DEF Labels
  <2>2. ProcInv(p)'
    BY <1>1, <1>2, <2>1, Numbers DEF ProcInv, Answering
  <2> QED BY <1>1, <1>2, <2>1, <2>2, LocalStep DEF Labels, Creating
<1> QED BY <1>1, <1>3, ReturnStep
-----------------------------------------------------------------------------
(* Steps that write Redis.                                                 *)

\* A tombstone outlives every active snapshot that is under way.
Denied(c) == cache'[c].status = "deny" /\ Minimum(now + TTL, Life) <= cache'[c].exp

\* A snapshot that was let in: it is sound, and gone at once where a tombstone was left.
Filled(c) ==
    /\ cache[c].status # "deny" /\ cache'[c].status # "deny"
    /\ cache'[c].status = "active" => c \notin told /\ ActiveOK(cache'[c])

Entries == [status : {None, "active", "deny"}, ver : Versions \cup {0}, exp : Times]

CacheType == [Caches -> Entries]

\* A step that writes Redis and may leave a tombstone for good.
LEMMA CacheStep ==
    ASSUME IInv, NEW p \in Procs, pc' \in [Procs -> Labels], loc' \in [Procs -> Locals], OthersKept(p),
           UNCHANGED <<now, row, issued, endAt, wonAt>>,
           lock' \in Procs \cup {None}, faults' \in 0 .. MaxFaults, cache' \in CacheType,
           \A c \in Caches : cache'[c] = cache[c] \/ Denied(c) \/ Filled(c),
           told' \subseteq Caches, told \subseteq told',
           \A c \in told' : c \in told \/ (Denied(c) /\ status = "revoked"),
           loc'[p].op = "create" => Creating(p), ProcInv(p)', pc'[p] # "fill"
    PROVE  IInv'
<1>1. TypeOK'
    BY DEF IInv, TypeOK, CacheType, Entries, row
<1>2. TypeOK /\ CacheInv /\ ToldInv /\ told \subseteq Caches
    BY DEF IInv, TypeOK
<1>3. BarrierRises
  <2> SUFFICES ASSUME NEW c \in told'
               PROVE  (c \in told /\ Barrier(c) <= Barrier(c)') \/ Minimum(now + TTL, Life) <= Barrier(c)'
    BY DEF BarrierRises
  <2>1. c \in Caches /\ Barrier(c) \in Int
    BY <1>2, RowTyped
  <2>2. CASE Denied(c)
    BY <2>2 DEF Denied, Barrier
  <2>3. CASE c \in told /\ cache'[c] = cache[c]
    BY <2>1, <2>3 DEF Barrier
  <2>4. CASE c \in told /\ Filled(c)
    BY <1>2, <2>1, <2>4, RowTyped DEF Filled, Barrier
  <2> QED BY <2>1, <2>2, <2>3, <2>4
<1>4. Ages
    BY <1>2, RowTyped DEF Ages, row
<1>5. RowInv'
    BY DEF IInv, RowInv, row
<1>6. CacheInv'
    BY <1>2 DEF CacheInv, ActiveOK, DiesInTime, Denied, Filled
<1>7. ToldInv'
    BY <1>2 DEF ToldInv, Denied, Filled, row
<1>8. TokenInv'
    BY TokenKept DEF row
<1>9. ToldFill(p)'
    BY DEF ToldFill
<1> QED BY <1>1, <1>3, <1>4, <1>5, <1>6, <1>7, <1>8, <1>9, Compose

\* The script of a deny state: what it leaves outlives what it replaces.
LEMMA WriteDenyFacts ==
    ASSUME TypeOK, now \in 0 .. MaxTime, NEW c \in Caches, NEW v \in Versions \cup {0}, WriteDeny(c, v)
    PROVE  cache' \in CacheType /\ Denied(c) /\ \A d \in Caches : cache'[d] = cache[d] \/ Denied(d)
<1> DEFINE ttl == IF Life - now > 0 THEN Minimum(Life - now, TTL) ELSE 1
           e == [status |-> "deny", ver |-> v, exp |-> now + ttl]
<1>1. ttl \in 1 .. (TTL + 1) /\ Minimum(now + TTL, Life) <= now + ttl
    BY Numbers DEF Minimum
<1>2. now + ttl \in Times
    BY <1>1, Numbers DEF Times
<1>3. cache' = [cache EXCEPT ![c] = e]
    BY DEF WriteDeny
<1>4. cache \in CacheType
    BY DEF TypeOK, CacheType, Entries
<1> HIDE DEF ttl
<1>5. e \in Entries
    BY <1>2 DEF Entries
<1>6. e.status = "deny" /\ e.exp = now + ttl
    OBVIOUS
<1> HIDE DEF e
<1> QED BY <1>1, <1>3, <1>4, <1>5, <1>6 DEF CacheType, Denied

\* The script of an active snapshot: where a tombstone was left, its deadline is over.
LEMMA WriteActiveFacts ==
    ASSUME IInv, NEW p \in Procs, pc[p] = "fill", ~ActiveRefused(loc[p].node, loc[p].ver),
           WriteActive(loc[p].node, loc[p].ver, loc[p].deadline)
    PROVE  cache' \in CacheType /\ \A d \in Caches : cache'[d] = cache[d] \/ Filled(d)
<1> DEFINE c == loc[p].node
           v == loc[p].ver
           exp == Minimum(loc[p].deadline, Life)
           a == [status |-> "active", ver |-> v, exp |-> exp]
           e == IF exp > now THEN a ELSE NoEntry
<1>1. /\ TypeOK /\ ProcInv(p) /\ ToldFill(p) /\ now \in 0 .. MaxTime /\ c \in Caches
      /\ v \in Versions /\ DiesInTime(v, loc[p].deadline)
      /\ loc[p].deadline \in Times /\ loc[p].deadline \in Int /\ loc[p].deadline <= now + TTL
    BY Typed DEF IInv, RowInv, ProcInv, DiesInTime
<1>2. exp \in Int /\ exp <= loc[p].deadline /\ exp <= Life
    BY <1>1, Numbers DEF Minimum
<1>3. cache[c].status # "deny"
    BY DEF ActiveRefused
<1>4. c \in told => ~(exp > now)
    BY <1>1, <1>2, <1>3, Numbers DEF ToldFill, Barrier
<1>5. cache' = [cache EXCEPT ![c] = e]
    BY DEF WriteActive
<1>6. cache \in CacheType
    BY <1>1 DEF TypeOK, CacheType, Entries
<1> HIDE DEF exp
<1>7. exp > now => exp \in Times
    BY <1>1, <1>2, Numbers DEF Times
<1>8. NoEntry \in Entries /\ NoEntry.status = None
    BY <1>1, Moments DEF Entries, NoEntry
<1>9. a.status = "active" /\ a.exp = exp /\ a.ver = v
    OBVIOUS
<1>10. exp > now => a \in Entries
    BY <1>1, <1>7 DEF Entries
<1>11. exp > now => ActiveOK(a)
  <2> SUFFICES ASSUME exp > now PROVE ActiveOK(a)
    OBVIOUS
  <2>1. endAt[v] \in Int
    BY <1>1, RowTyped
  <2>2. DiesInTime(v, exp)
    BY <1>1, <1>2, <2>1, Numbers DEF DiesInTime
  <2> HIDE DEF a
  <2> QED BY <1>1, <1>2, <1>9, <2>2, Numbers DEF ActiveOK
<1> HIDE DEF a, c
<1>12. /\ e \in Entries
       /\ e.status # "deny"
       /\ e.status = "active" => c \notin told /\ ActiveOK(e)
    BY <1>4, <1>8, <1>9, <1>10, <1>11 DEF None
<1> HIDE DEF e
<1> QED BY <1>1, <1>3, <1>5, <1>6, <1>12 DEF CacheType, Filled

\* A request that is done after a write to Redis.
LEMMA WriteReturn ==
    ASSUME IInv, NEW p \in Procs, Return(p), UNCHANGED <<now, row, ghosts>>,
           lock' \in Procs \cup {None}, faults' \in 0 .. MaxFaults, cache' \in CacheType,
           \A c \in Caches : cache'[c] = cache[c] \/ Denied(c) \/ Filled(c)
    PROVE  IInv'
<1>1. told' = told /\ told \subseteq Caches
    BY DEF IInv, TypeOK, ghosts
<1> QED BY <1>1, IdleProc, CacheStep DEF ghosts

\* A validation that found the session inactive.
LEMMA CacheInactiveInv ==
    ASSUME IInv, NEW p \in Procs, CacheInactive(p)
    PROVE  IInv'
<1>1. /\ TypeOK /\ now \in 0 .. MaxTime /\ loc[p].node \in Caches /\ loc[p].ver \in Versions \cup {0}
      /\ Return(p) /\ UNCHANGED <<now, row, ghosts>>
      /\ lock' \in Procs \cup {None} /\ faults' \in 0 .. MaxFaults
      /\ UNCHANGED cache \/ WriteDeny(loc[p].node, loc[p].ver)
    BY FaultFacts, Typed DEF IInv, RowInv, ProcInv, CacheInactive
<1> QED BY <1>1, WriteDenyFacts, WriteReturn, ReturnStep

\* The deny fence of a revocation, which goes on to its transaction l.
LEMMA FenceStep ==
    ASSUME IInv, NEW p \in Procs, NEW l \in {"reuse", "revoke", "revokeAll", "logout"}, DenyFence(p, l),
           pc[p] \in {"reuseFence", "fence", "logoutFence"},
           UNCHANGED <<now, row, ghosts>>, lock' \in Procs \cup {None}
    PROVE  IInv'
<1>1. /\ TypeOK /\ now \in 0 .. MaxTime /\ loc[p].node \in Caches /\ loc[p].ver \in Versions \cup {0}
      /\ ProcInv(p) /\ told' = told /\ told \subseteq Caches
    BY Typed DEF IInv, RowInv, ProcInv, TypeOK, ghosts
<1>2. CASE Goto(p, l) /\ WriteDeny(loc[p].node, loc[p].ver) /\ Ok
  <2>1. l \in Labels
    BY DEF Labels
  <2>2. /\ pc' \in [Procs -> Labels] /\ loc' \in [Procs -> Locals] /\ OthersKept(p)
        /\ pc'[p] = l /\ loc'[p] = loc[p]
    BY <1>1, <1>2, <2>1, GotoFacts
  <2>3. ProcInv(p)'
    BY <1>1, <2>2 DEF ProcInv, Answering, row, ghosts
  <2>4. faults' \in 0 .. MaxFaults
    BY <1>1, <1>2, FaultFacts
  <2> QED BY <1>1, <1>2, <2>2, <2>3, <2>4, WriteDenyFacts, CacheStep DEF Creating, ghosts
<1>3. CASE Return(p) /\ (Ok \/ Fault) /\ (UNCHANGED cache \/ WriteDeny(loc[p].node, loc[p].ver))
    BY <1>1, <1>3, FaultFacts, WriteDenyFacts, WriteReturn, ReturnStep
<1> QED BY <1>2, <1>3 DEF DenyFence

\* The fences before the three kinds of revocation.
LEMMA ReuseFenceInv ==
    ASSUME IInv, NEW p \in Procs, ReuseFence(p)
    PROVE  IInv'
BY FenceStep, FaultFacts DEF ReuseFence, IInv

LEMMA RevokeFenceInv ==
    ASSUME IInv, NEW p \in Procs, RevokeFence(p)
    PROVE  IInv'
<1>1. loc[p].op \in {"reuse", "revoke", "revokeAll", "logout"}
    BY DEF RevokeFence, IInv, ProcInv
<1> QED BY <1>1, FenceStep, FaultFacts DEF RevokeFence, IInv

LEMMA LogoutFenceInv ==
    ASSUME IInv, NEW p \in Procs, LogoutFence(p)
    PROVE  IInv'
<1>1. lock' \in Procs \cup {None}
    BY DEF LogoutFence
<1> QED BY <1>1, FenceStep DEF LogoutFence

\* The tombstone: from now on its Redis refuses the session.
LEMMA FinalizeInv ==
    ASSUME IInv, NEW p \in Procs, Finalize(p)
    PROVE  IInv'
<1>1. /\ TypeOK /\ now \in 0 .. MaxTime /\ loc[p].node \in Caches /\ loc[p].ver \in Versions \cup {0}
      /\ status = "revoked" /\ told \subseteq Caches
      /\ Return(p) /\ UNCHANGED <<now, row, issued, endAt, wonAt>>
      /\ lock' \in Procs \cup {None} /\ faults' \in 0 .. MaxFaults
    BY FaultFacts, Typed DEF IInv, RowInv, ProcInv, TypeOK, Finalize
<1>2. CASE WriteDeny(loc[p].node, loc[p].ver) /\ told' = told \cup {loc[p].node}
    BY <1>1, <1>2, WriteDenyFacts, IdleProc, CacheStep
<1>3. CASE UNCHANGED told /\ (UNCHANGED cache \/ WriteDeny(loc[p].node, loc[p].ver))
  <2>1. UNCHANGED ghosts
    BY <1>1, <1>3 DEF ghosts
  <2> QED BY <1>1, <1>3, <2>1, WriteDenyFacts, WriteReturn, ReturnStep
<1> QED BY <1>2, <1>3 DEF Finalize

\* The active snapshot, written, refused, late or lost.
LEMMA FillInv ==
    ASSUME IInv, NEW p \in Procs, Fill(p)
    PROVE  IInv'
<1> DEFINE w == ~ActiveRefused(loc[p].node, loc[p].ver)
                /\ WriteActive(loc[p].node, loc[p].ver, loc[p].deadline)
<1>1. /\ TypeOK /\ ProcInv(p) /\ pc[p] = "fill" /\ UNCHANGED <<now, row, ghosts, lock>>
      /\ told' = told /\ told \subseteq Caches
      /\ lock' \in Procs \cup {None} /\ faults' \in 0 .. MaxFaults
    BY FaultFacts DEF IInv, Fill, ghosts, TypeOK
<1>2. CASE w /\ Goto(p, "filled")
  <2>1. "filled" \in Labels
    BY DEF Labels
  <2>2. /\ pc' \in [Procs -> Labels] /\ loc' \in [Procs -> Locals] /\ OthersKept(p)
        /\ pc'[p] = "filled" /\ loc'[p] = loc[p]
    BY <1>1, <1>2, <2>1, GotoFacts
  <2>3. ProcInv(p)'
    BY <1>1, <2>2 DEF ProcInv, DiesInTime, BeganInTime, Answering, row, ghosts
  <2> QED BY <1>1, <1>2, <2>2, <2>3, WriteActiveFacts, CacheStep DEF Creating, ghosts
<1>3. CASE w /\ Return(p)
    BY <1>1, <1>3, WriteActiveFacts, WriteReturn
<1>4. CASE w /\ Succeed(p)
  <2>1. pc'[p] # "fill"
    BY <1>1, <1>4, AnswerProc
  <2> QED BY <1>1, <1>4, <2>1, WriteActiveFacts, AnswerProc, CacheStep DEF Creating, ghosts
<1>5. CASE UNCHANGED cache /\ Return(p)
    BY <1>1, <1>5, ReturnStep
<1>6. CASE UNCHANGED cache /\ (Succeed(p) \/ Stale(p))
    BY <1>1, <1>6, AnswerStep
<1> QED BY <1>2, <1>3, <1>4, <1>5, <1>6 DEF Fill

-----------------------------------------------------------------------------
(* Steps that write the row or hand out a token.                           *)

\* A snapshot in Redis outlives its version's end by TTL at most.
LEMMA RowStep ==
    ASSUME IInv, NEW p \in Procs, pc' \in [Procs -> Labels], loc' \in [Procs -> Locals], OthersKept(p),
           UNCHANGED <<now, cache, told>>, lock' \in Procs \cup {None}, faults' \in 0 .. MaxFaults,
           status' \in {"absent", "active", "revoked"}, ver' \in Versions, gen' \in Tokens,
           prevUntil' \in Times, issued' \subseteq Tokens, endAt' \in [Versions -> Times], wonAt' \in Times,
           Ages, RowInv', TokenInv', ProcInv(p)', pc'[p] = "fill" => status # "revoked"
    PROVE  IInv'
<1>1. TypeOK'
    BY DEF IInv, TypeOK
<1>2. TypeOK /\ CacheInv /\ ToldInv /\ told \subseteq Caches
    BY DEF IInv, TypeOK
<1>3. BarrierRises
  <2>1. ASSUME NEW c \in told PROVE Barrier(c) \in Int /\ Barrier(c)' = Barrier(c)
    BY <1>2, RowTyped DEF Barrier
  <2> QED BY <2>1 DEF BarrierRises
<1>4. CacheInv'
  <2> SUFFICES ASSUME NEW c \in Caches, cache[c].status = "active"
               PROVE  ActiveOK(cache[c])'
    BY DEF CacheInv
  <2>1. ActiveOK(cache[c])
    BY <1>2 DEF CacheInv
  <2>2. DiesInTime(cache[c].ver, cache[c].exp)'
    BY <1>1, <1>2, <2>1, RowTyped, Numbers DEF ActiveOK, DiesInTime, Ages
  <2> QED BY <2>1, <2>2 DEF ActiveOK
<1>5. ToldInv'
    BY <1>2 DEF ToldInv, Ages
<1>6. ToldFill(p)'
    BY <1>2 DEF ToldFill, ToldInv
<1> QED BY <1>1, <1>3, <1>4, <1>5, <1>6, Compose

\* CreateUserSession: the first version begins.
LEMMA CreateInv ==
    ASSUME IInv, NEW p \in Procs, NEW c \in Caches, CreateUserSession(p, c)
    PROVE  IInv'
<1> DEFINE r == [NoLoc EXCEPT !.op = "create", !.node = c, !.ver = ver, !.deadline = now + TTL]
<1>1. /\ TypeOK /\ RowInv /\ TokenInv /\ now \in 0 .. MaxTime /\ ver \in Versions
      /\ UNCHANGED <<now, ver, gen, prevUntil, cache, issued, told, endAt, wonAt>>
      /\ status = "absent" /\ status' = "active"
      /\ lock' \in Procs \cup {None} /\ faults' \in 0 .. MaxFaults
    BY FaultFacts DEF IInv, CreateUserSession, RowInv, TypeOK, ghosts
<1>2. /\ r \in Locals /\ r.op = "create" /\ r.node = c /\ r.start = 0 /\ r.ver = ver
      /\ r.told = FALSE /\ r.deadline = now + TTL /\ r.at = 0
    BY <1>1, NoLocType, Moments DEF Locals, NoLoc
<1>3. "fill" \in Labels /\ GotoLoc(p, "fill", r)
    BY DEF Labels, CreateUserSession
<1> HIDE DEF r
<1>4. /\ pc' \in [Procs -> Labels] /\ loc' \in [Procs -> Locals] /\ OthersKept(p)
      /\ pc'[p] = "fill" /\ loc'[p] = r
    BY <1>1, <1>2, <1>3, LocFacts
<1>5. endAt[ver] = NoTime
    BY <1>1 DEF RowInv
<1>6. RowInv'
    BY <1>1, <1>5 DEF RowInv
<1>7. Ages
    BY <1>1, RowTyped DEF Ages
<1>8. TokenInv'
    BY <1>1, <1>4 DEF TokenInv, Creating, OthersKept
<1>9. ProcInv(p)'
  <2>1. r.at \in 0 .. now /\ r.start <= now /\ r.deadline <= now + TTL
    BY <1>1, <1>2, Numbers
  <2> QED BY <1>1, <1>2, <1>4, <1>5, <2>1 DEF ProcInv, DiesInTime, Answering
<1> QED BY <1>1, <1>4, <1>6, <1>7, <1>8, <1>9, RowStep DEF TypeOK

\* One more token handed out.
LEMMA Issued ==
    ASSUME NEW t \in Tokens, issued \subseteq Tokens, gen \in Nat, t <= gen, \A u \in issued : u <= gen,
           issued' = issued \cup {t}, UNCHANGED <<status, gen, endAt>>
    PROVE  Ages /\ issued' \subseteq Tokens /\ \A u \in issued' : u <= gen
<1>1. issued \subseteq issued' /\ issued' \subseteq Tokens /\ \A u \in issued' : u = t \/ u \in issued
    OBVIOUS
<1>2. Ages
    BY <1>1 DEF Ages
<1> QED BY <1>1, <1>2

\* A token is handed out, or a request is authorised.
LEMMA AnswerInv ==
    ASSUME IInv, NEW p \in Procs, Answer(p)
    PROVE  IInv'
<1>1. /\ TypeOK /\ RowInv /\ TokenInv /\ ProcInv(p) /\ now \in 0 .. MaxTime /\ pc[p] = "ok" /\ Return(p)
      /\ UNCHANGED <<now, status, ver, gen, prevUntil, cache, told, endAt, wonAt>>
      /\ lock' \in Procs \cup {None} /\ faults' \in 0 .. MaxFaults
    BY FaultFacts DEF IInv, Answer, RowInv, row
<1>2. /\ pc' \in [Procs -> Labels] /\ loc' \in [Procs -> Locals] /\ OthersKept(p)
      /\ pc'[p] = "idle" /\ loc'[p].op # "create" /\ ProcInv(p)'
    BY <1>1, IdleProc
<1>3. /\ gen \in Nat /\ gen \in Tokens /\ loc[p].tok \in Tokens /\ issued \subseteq Tokens
    BY <1>1, RowTyped, Typed DEF TypeOK
<1>4. RowInv'
    BY <1>1 DEF RowInv
<1>5. CASE loc[p].op = "create"
  <2>1. issued = {} /\ issued' = {0} /\ gen = 0 /\ status # "absent"
    BY <1>1, <1>5 DEF Answer, TokenInv, Creating
  <2>2. \A q \in Procs : loc'[q].op # "create"
    BY <1>1, <1>2, <1>5 DEF TokenInv, Creating, OthersKept
  <2>3. TokenInv'
    BY <1>1, <2>1, <2>2 DEF TokenInv, Creating
  <2>4. Ages /\ issued' \subseteq Tokens
    BY <1>1, <1>3, <2>1, RowTyped DEF Ages
  <2> QED BY <1>1, <1>2, <1>4, <2>3, <2>4, RowStep DEF TypeOK
<1>6. CASE loc[p].op = "rotate"
  <2>1. issued' = issued \cup {loc[p].tok + 1} /\ loc[p].tok + 1 <= gen /\ gen > 0
    BY <1>1, <1>3, <1>6 DEF Answer, ProcInv, Answering, Tokens
  <2>2. \A q \in Procs : loc'[q].op # "create"
    BY <1>1, <1>2, <2>1 DEF TokenInv, Creating, OthersKept
  <2>3. loc[p].tok + 1 \in Tokens
    BY <1>3, <2>1, Numbers DEF Tokens
  <2>4. Ages /\ issued' \subseteq Tokens /\ \A t \in issued' : t <= gen
    BY <1>1, <1>3, <2>1, <2>3, Issued DEF TokenInv
  <2>5. TokenInv'
    <3>1. \E t \in issued' : t >= gen - 1
      BY <1>1, <2>1 DEF TokenInv
    <3>2. status # "absent"
      BY <1>1, <1>3, <2>1 DEF TokenInv
    <3> QED BY <1>1, <2>2, <2>4, <3>1, <3>2 DEF TokenInv, Creating
  <2> QED BY <1>1, <1>2, <1>4, <2>4, <2>5, RowStep DEF TypeOK
<1>7. CASE loc[p].op \notin {"create", "rotate"}
  <2>1. UNCHANGED <<now, row, cache, ghosts>>
    BY <1>1, <1>7 DEF Answer, row, ghosts
  <2> QED BY <1>1, <2>1, ReturnStep
<1> QED BY <1>5, <1>6, <1>7

\* RotateUserSessionRefresh compares its token: current, raced, reused or unknown.
LEMMA RotateReadInv ==
    ASSUME IInv, NEW p \in Procs, RotateRead(p)
    PROVE  IInv'
<1> DEFINE l == loc[p]
           w == [l EXCEPT !.ver = ver, !.deadline = now + TTL]
           f == [NoLoc EXCEPT !.op = "rotate", !.node = l.node, !.ver = ver]
<1>1. /\ TypeOK /\ RowInv /\ TokenInv /\ ProcInv(p) /\ now \in 0 .. MaxTime /\ pc[p] = "rotRead"
      /\ UNCHANGED <<now, status, ver, gen, prevUntil, cache, told, endAt, wonAt>>
      /\ lock' \in Procs \cup {None} /\ faults' \in 0 .. MaxFaults
    BY FaultFacts DEF IInv, RotateRead, RowInv, row
<1>2. /\ gen \in Nat /\ gen \in Tokens /\ ver \in Versions /\ issued \subseteq Tokens
      /\ l \in Locals /\ l.tok \in Nat /\ l.node \in Caches
      /\ l.op = "rotate" /\ l.tok \in issued /\ l.tok < MaxGen
    BY <1>1, RowTyped, Typed DEF TypeOK, ProcInv, Tokens
<1>3. CASE Return(p) /\ UNCHANGED issued
    BY <1>1, <1>3, ReturnStep DEF row, ghosts
<1>4. CASE status = "active" /\ GotoLoc(p, "cas", w) /\ UNCHANGED issued
  <2>1. /\ w \in Locals /\ w.op = l.op /\ w.node = l.node /\ w.ver = ver /\ w.deadline = now + TTL
        /\ w.at = l.at /\ w.start = l.start /\ w.tok = l.tok /\ w.told = l.told
    BY <1>1, <1>2, Moments DEF Locals
  <2>2. "cas" \in Labels
    BY DEF Labels
  <2> HIDE DEF w
  <2>3. /\ pc' \in [Procs -> Labels] /\ loc' \in [Procs -> Locals] /\ OthersKept(p)
        /\ pc'[p] = "cas" /\ loc'[p] = w
    BY <1>1, <1>4, <2>1, <2>2, LocFacts
  <2>4. DiesInTime(ver, now + TTL)
    BY <1>1, <1>2, <1>4 DEF RowInv, DiesInTime
  <2>5. now + TTL <= now + TTL
    BY <1>1, Numbers
  <2>6. ProcInv(p)'
    BY <1>1, <1>2, <1>4, <2>1, <2>3, <2>4, <2>5 DEF ProcInv, DiesInTime, Answering
  <2>7. UNCHANGED <<now, row, cache, ghosts>>
    BY <1>1, <1>4 DEF row, ghosts
  <2> QED BY <1>1, <1>2, <2>1, <2>2, <2>3, <2>6, <2>7, LocalStep
<1>5. CASE status = "active" /\ gen = l.tok + 1 /\ issued' = issued \cup {gen} /\ Return(p)
  <2>1. /\ pc' \in [Procs -> Labels] /\ loc' \in [Procs -> Locals] /\ OthersKept(p)
        /\ pc'[p] = "idle" /\ loc'[p].op # "create" /\ ProcInv(p)'
    BY <1>1, <1>5, IdleProc
  <2>2. \A q \in Procs : loc'[q].op # "create"
    BY <1>1, <1>2, <1>5, <2>1 DEF TokenInv, Creating, OthersKept
  <2>3. Ages /\ issued' \subseteq Tokens /\ \A t \in issued' : t <= gen
    <3>1. gen <= gen
      BY <1>2
    <3>2. \A t \in issued : t <= gen
      BY <1>1 DEF TokenInv
    <3> QED BY <1>1, <1>2, <1>5, <3>1, <3>2, Issued
  <2>4. TokenInv'
    <3>1. \E t \in issued' : t >= gen - 1
      BY <1>2, <1>5
    <3> QED BY <1>1, <1>5, <2>2, <2>3, <3>1 DEF TokenInv, Creating
  <2>5. RowInv'
    BY <1>1 DEF RowInv
  <2> QED BY <1>1, <2>1, <2>3, <2>4, <2>5, RowStep DEF TypeOK
<1>6. CASE GotoLoc(p, "reuseFence", f) /\ UNCHANGED issued
  <2>1. /\ f \in Locals /\ f.op = "rotate" /\ f.node = l.node /\ f.deadline = 0
        /\ f.at = 0 /\ f.start = 0 /\ f.told = FALSE
    BY <1>1, <1>2, NoLocType DEF Locals, NoLoc
  <2>2. "reuseFence" \in Labels /\ "reuseFence" \notin Bound
    BY DEF Labels, Bound, Answering
  <2>3. UNCHANGED <<now, row, cache, ghosts, faults>>
    BY <1>1, <1>6 DEF row, ghosts, RotateRead
  <2> HIDE DEF f, l
  <2> QED BY <1>1, <1>2, <1>6, <2>1, <2>2, <2>3, Moments, BeginStep
<1> QED BY <1>3, <1>4, <1>5, <1>6 DEF RotateRead

\* The swap of the token.
LEMMA RotateWinsFacts ==
    ASSUME IInv, NEW p \in Procs, pc[p] = "cas", gen = loc[p].tok, RotateWins(p), OthersKept(p),
           loc'[p].op # "create", UNCHANGED <<now, issued, endAt>>
    PROVE  /\ gen' \in Tokens /\ prevUntil' \in Times /\ wonAt' \in Times /\ loc[p].tok + 1 <= gen'
           /\ UNCHANGED <<status, ver>> /\ Ages /\ RowInv' /\ TokenInv'
<1>1. /\ TypeOK /\ RowInv /\ TokenInv /\ ProcInv(p) /\ now \in 0 .. MaxTime
      /\ gen \in Nat /\ issued \subseteq Tokens /\ loc[p].tok \in issued /\ loc[p].tok < MaxGen
      /\ loc[p].at \in 0 .. now
    BY RowTyped DEF IInv, RowInv, ProcInv, TypeOK
<1>2. /\ gen' = gen + 1 /\ prevUntil' = loc[p].at + Grace /\ wonAt' = loc[p].at
      /\ UNCHANGED <<status, ver>>
    BY DEF RotateWins
<1>3. gen' \in Tokens /\ prevUntil' \in Times /\ wonAt' \in Times /\ loc[p].tok + 1 <= gen'
    BY <1>1, <1>2, Numbers DEF Tokens, Times
<1>4. Ages
    BY <1>1, <1>2 DEF Ages
<1>5. RowInv'
    BY <1>1, <1>2 DEF RowInv
<1>6. TokenInv'
  <2>1. \A q \in Procs : loc'[q].op # "create"
    BY <1>1 DEF TokenInv, Creating, OthersKept
  <2>2. \A t \in issued : t <= gen'
    BY <1>1, <1>2 DEF TokenInv, Tokens
  <2>3. \E t \in issued : t >= gen' - 1
    BY <1>1, <1>2
  <2>4. status # "absent"
    BY <1>1 DEF TokenInv
  <2> QED BY <1>2, <2>1, <2>2, <2>3, <2>4 DEF TokenInv, Creating
<1> QED BY <1>2, <1>3, <1>4, <1>5, <1>6

\* The compare-and-swap of the refresh hash, won, lost or with its answer lost.
LEMMA RotateCasInv ==
    ASSUME IInv, NEW p \in Procs, RotateCas(p)
    PROVE  IInv'
<1> DEFINE l == loc[p]
           w == [l EXCEPT !.at = 0, !.tries = 0]
           n == l.tries + 1
           b == [l EXCEPT !.tries = n, !.ver = 0, !.deadline = 0]
<1>1. /\ TypeOK /\ RowInv /\ ProcInv(p) /\ now \in 0 .. MaxTime /\ pc[p] = "cas"
      /\ UNCHANGED <<now, cache, issued, told, endAt>>
      /\ lock' \in Procs \cup {None} /\ faults' \in 0 .. MaxFaults
      /\ l \in Locals /\ l.op = "rotate" /\ l.tries \in 0 .. 2
    BY FaultFacts, Typed DEF IInv, RotateCas, RowInv, ProcInv
<1>2. CASE status = "active" /\ gen = l.tok /\ RotateWins(p) /\ GotoLoc(p, "fill", w)
  <2>1. /\ w \in Locals /\ w.op = l.op /\ w.node = l.node /\ w.ver = l.ver /\ w.deadline = l.deadline
        /\ w.at = 0 /\ w.start = l.start /\ w.tok = l.tok /\ w.told = l.told
    <3>1. 0 \in Times /\ 0 \in 0 .. (MaxRotateTries - 1)
      BY <1>1, Moments DEF MaxRotateTries
    <3> QED BY <1>1, <3>1 DEF Locals
  <2>2. "fill" \in Labels
    BY DEF Labels
  <2> HIDE DEF w
  <2>3. /\ pc' \in [Procs -> Labels] /\ loc' \in [Procs -> Locals] /\ OthersKept(p)
        /\ pc'[p] = "fill" /\ loc'[p] = w
    BY <1>1, <1>2, <2>1, <2>2, LocFacts
  <2>4. /\ gen' \in Tokens /\ prevUntil' \in Times /\ wonAt' \in Times /\ l.tok + 1 <= gen'
        /\ UNCHANGED <<status, ver>> /\ Ages /\ RowInv' /\ TokenInv'
    BY <1>1, <1>2, <2>1, <2>3, RotateWinsFacts
  <2>5. ProcInv(p)'
    BY <1>1, <2>1, <2>3, <2>4, Moments DEF ProcInv, DiesInTime, Answering
  <2> QED BY <1>1, <1>2, <2>3, <2>4, <2>5, RowStep DEF TypeOK
<1>3. CASE RotateLoses(p)
  <2>1. UNCHANGED <<now, row, cache, ghosts>>
    BY <1>1, <1>3 DEF RotateLoses, row, ghosts
  <2>2. CASE Return(p)
    BY <1>1, <2>1, <2>2, ReturnStep
  <2>3. CASE n < MaxRotateTries /\ GotoLoc(p, "rotRead", b)
    <3>1. n \in 0 .. (MaxRotateTries - 1) /\ 0 \in Times
      BY <1>1, <2>3, Moments DEF MaxRotateTries
    <3>2. /\ b \in Locals /\ b.op = l.op /\ b.node = l.node /\ b.deadline = 0
          /\ b.at = l.at /\ b.start = l.start /\ b.tok = l.tok /\ b.told = l.told
      BY <1>1, <3>1 DEF Locals
    <3>3. "rotRead" \in Labels
      BY DEF Labels
    <3> HIDE DEF b
    <3>4. /\ pc' \in [Procs -> Labels] /\ loc' \in [Procs -> Locals] /\ OthersKept(p)
          /\ pc'[p] = "rotRead" /\ loc'[p] = b
      BY <1>1, <2>3, <3>2, <3>3, LocFacts
    <3>5. 0 <= now + TTL
      BY <1>1, Numbers
    <3>6. ProcInv(p)'
      BY <1>1, <2>1, <3>2, <3>4, <3>5 DEF ProcInv, Answering
    <3> QED BY <1>1, <2>1, <3>2, <3>3, <3>4, <3>6, LocalStep
  <2> QED BY <1>3, <2>2, <2>3 DEF RotateLoses
<1>4. CASE Return(p) /\ UNCHANGED <<row, wonAt>>
    BY <1>1, <1>4, ReturnStep DEF ghosts
<1>5. CASE Return(p) /\ status = "active" /\ gen = l.tok /\ RotateWins(p)
  <2>1. /\ pc' \in [Procs -> Labels] /\ loc' \in [Procs -> Locals] /\ OthersKept(p)
        /\ pc'[p] = "idle" /\ loc'[p].op # "create" /\ ProcInv(p)'
    BY <1>1, <1>5, IdleProc
  <2>2. /\ gen' \in Tokens /\ prevUntil' \in Times /\ wonAt' \in Times
        /\ UNCHANGED <<status, ver>> /\ Ages /\ RowInv' /\ TokenInv'
    BY <1>1, <1>5, <2>1, RotateWinsFacts
  <2> QED BY <1>1, <2>1, <2>2, RowStep DEF TypeOK
<1> QED BY <1>2, <1>3, <1>4, <1>5 DEF RotateCas

\* The end of the session.
LEMMA RevokedFacts ==
    ASSUME IInv, Revoked, UNCHANGED <<now, wonAt, issued>>
    PROVE  /\ status' = "revoked" /\ UNCHANGED <<ver, gen, prevUntil>>
           /\ endAt' \in [Versions -> Times] /\ Ages /\ RowInv'
<1>1. TypeOK /\ RowInv /\ now \in Times /\ ver \in Versions /\ gen \in Nat /\ endAt \in [Versions -> Times]
    BY RowTyped DEF IInv, TypeOK
<1>2. /\ status' = "revoked" /\ UNCHANGED <<ver, gen, prevUntil>>
      /\ endAt' = [endAt EXCEPT ![ver] = now]
    BY DEF Revoked
<1>3. endAt' \in [Versions -> Times]
    BY <1>1, <1>2
<1>4. \A v \in Versions : endAt'[v] = endAt[v] \/ (v = ver /\ endAt'[v] = now)
    BY <1>1, <1>2
<1>5. Ages
    BY <1>1, <1>2, <1>4 DEF Ages
<1>6. RowInv'
    BY <1>1, <1>2, <1>4, RowTyped DEF RowInv
<1> QED BY <1>2, <1>3, <1>5, <1>6

\* A revocation commits: the tombstone is left to write, or the answer is lost.
LEMMA RevokeStep ==
    ASSUME IInv, NEW p \in Procs, NEW v \in Versions \cup {0}, Revoked, Recorded(p, v) \/ Return(p),
           pc[p] # "idle",
           UNCHANGED <<now, cache, issued, told, wonAt>>,
           lock' \in Procs \cup {None}, faults' \in 0 .. MaxFaults
    PROVE  IInv'
<1> DEFINE r == [NoLoc EXCEPT !.op = "revoke", !.node = loc[p].node, !.ver = v]
<1>1. TypeOK /\ RowInv /\ now \in 0 .. MaxTime /\ loc[p].node \in Caches
    BY DEF IInv, RowInv, ProcInv
<1>2. /\ status' = "revoked" /\ UNCHANGED <<ver, gen, prevUntil>>
      /\ endAt' \in [Versions -> Times] /\ Ages /\ RowInv'
    BY RevokedFacts
<1>3. /\ r \in Locals /\ r.op = "revoke" /\ r.node = loc[p].node /\ r.start = 0
      /\ r.told = FALSE /\ r.deadline = 0 /\ r.at = 0
    BY <1>1, NoLocType DEF Locals, NoLoc
<1> HIDE DEF r
<1>4. CASE GotoLoc(p, "final", r)
  <2>1. "final" \in Labels
    BY DEF Labels
  <2>2. /\ pc' \in [Procs -> Labels] /\ loc' \in [Procs -> Locals] /\ OthersKept(p)
        /\ pc'[p] = "final" /\ loc'[p] = r
    BY <1>1, <1>3, <1>4, <2>1, LocFacts
  <2>3. 0 \in 0 .. now /\ 0 <= now /\ 0 <= now + TTL
    BY <1>1, Numbers
  <2>4. ProcInv(p)'
    BY <1>1, <1>2, <1>3, <2>2, <2>3 DEF ProcInv, Answering
  <2>5. TokenInv'
    BY <1>2, <1>3, <2>2, TokenKept
  <2> QED BY <1>1, <1>2, <2>2, <2>4, <2>5, RowStep DEF TypeOK
<1>5. CASE Return(p)
  <2>1. /\ pc' \in [Procs -> Labels] /\ loc' \in [Procs -> Locals] /\ OthersKept(p)
        /\ pc'[p] = "idle" /\ loc'[p].op # "create" /\ ProcInv(p)'
    BY <1>1, <1>5, IdleProc
  <2>2. TokenInv'
    BY <1>2, <2>1, TokenKept
  <2> QED BY <1>1, <1>2, <2>1, <2>2, RowStep DEF TypeOK
<1> QED BY <1>4, <1>5 DEF Recorded, r

\* The transaction of a revocation, on a row that is still active or not.
LEMMA RevokeRowStep ==
    ASSUME IInv, NEW p \in Procs, NEW v \in Versions \cup {0}, RevokeRow(p, v), pc[p] # "idle"
    PROVE  IInv'
<1>1. /\ UNCHANGED <<now, cache, issued, told, wonAt>>
      /\ lock' \in Procs \cup {None} /\ faults' \in 0 .. MaxFaults
    BY FaultFacts DEF IInv, RevokeRow
<1>2. CASE Revoked /\ (Recorded(p, v) \/ Return(p))
    BY <1>1, <1>2, RevokeStep
<1>3. CASE Return(p) /\ UNCHANGED <<row, endAt>>
    BY <1>1, <1>3, ReturnStep DEF ghosts
<1> QED BY <1>2, <1>3 DEF RevokeRow

\* The transactions of reuse, RevokeUserSession and revokeUserSessions.
LEMMA RevocationInv ==
    ASSUME IInv, NEW p \in Procs,
           ReuseRevoke(p) \/ RevokeTransaction(p) \/ RevokeSessionsTransaction(p)
    PROVE  IInv'
<1>1. loc[p].ver \in Versions \cup {0} /\ ver \in Versions \cup {0}
    BY Typed DEF IInv, TypeOK
<1>2. CASE ReuseRevoke(p)
  <2>1. RevokeRow(p, loc[p].ver) /\ pc[p] # "idle"
    BY <1>2 DEF ReuseRevoke, RevokeRow
  <2> QED BY <1>1, <2>1, RevokeRowStep
<1>3. CASE RevokeTransaction(p)
    BY <1>1, <1>3, RevokeRowStep DEF RevokeTransaction
<1>4. CASE RevokeSessionsTransaction(p)
    BY <1>1, <1>4, RevokeRowStep DEF RevokeSessionsTransaction
<1> QED BY <1>2, <1>3, <1>4

\* The commit of RevokeUserSessionByRefreshHash.
LEMMA LogoutCommitInv ==
    ASSUME IInv, NEW p \in Procs, LogoutCommit(p)
    PROVE  IInv'
<1>1. /\ UNCHANGED <<now, cache, issued, told, wonAt>> /\ pc[p] # "idle"
      /\ lock' \in Procs \cup {None} /\ faults' \in 0 .. MaxFaults
      /\ loc[p].ver \in Versions \cup {0}
    BY FaultFacts, Typed DEF IInv, LogoutCommit
<1>2. CASE Revoked /\ (Recorded(p, loc[p].ver) \/ Return(p))
    BY <1>1, <1>2, RevokeStep
<1>3. CASE Return(p) /\ UNCHANGED <<row, endAt>>
    BY <1>1, <1>3, ReturnStep DEF ghosts
<1> QED BY <1>2, <1>3 DEF LogoutCommit

\* One version ends and the next begins.
LEMMA AdvancedFacts ==
    ASSUME IInv, Advanced, status = "active", ver \in 1 .. (MaxVer - 1), UNCHANGED <<now, wonAt, issued>>
    PROVE  /\ ver' = ver + 1 /\ ver' \in Versions /\ UNCHANGED <<status, gen, prevUntil>>
           /\ endAt' \in [Versions -> Times] /\ endAt'[ver'] = NoTime /\ Ages /\ RowInv'
<1>1. TypeOK /\ RowInv /\ now \in Times /\ ver \in Versions /\ gen \in Nat /\ endAt \in [Versions -> Times]
    BY RowTyped DEF IInv, TypeOK
<1>2. /\ ver' = ver + 1 /\ UNCHANGED <<status, gen, prevUntil>>
      /\ endAt' = [endAt EXCEPT ![ver] = now]
    BY DEF Advanced
<1>3. endAt' \in [Versions -> Times] /\ ver' \in Versions
    BY <1>1, <1>2, Numbers DEF Versions
<1>4. \A v \in Versions : endAt'[v] = endAt[v] \/ (v = ver /\ endAt'[v] = now)
    BY <1>1, <1>2
<1>5. Ages
    BY <1>1, <1>2, <1>4 DEF Ages
<1>6. \A v \in Versions : v > ver => endAt'[v] = NoTime
    BY <1>1, <1>4, RowTyped DEF RowInv
<1>7. ver' > ver /\ \A v \in Versions : v > ver' => v > ver
    BY <1>1, <1>2, RowTyped
<1>8. endAt'[ver'] = NoTime
    BY <1>3, <1>6, <1>7
<1>9. RowInv'
    BY <1>1, <1>2, <1>6, <1>7, <1>8 DEF RowInv
<1> QED BY <1>2, <1>3, <1>5, <1>8, <1>9

\* The transaction of AdvanceUserSessionAuthVersion.
LEMMA AdvanceTransactionInv ==
    ASSUME IInv, NEW p \in Procs, AdvanceTransaction(p)
    PROVE  IInv'
<1> DEFINE r == [loc[p] EXCEPT !.ver = ver + 1, !.at = 0]
<1>1. /\ TypeOK /\ ProcInv(p) /\ now \in 0 .. MaxTime /\ loc[p] \in Locals /\ pc[p] = "advance"
      /\ UNCHANGED <<now, cache, issued, told, wonAt>> /\ loc[p].op = "advance"
      /\ lock' \in Procs \cup {None} /\ faults' \in 0 .. MaxFaults
    BY FaultFacts, Typed DEF IInv, AdvanceTransaction, RowInv, ProcInv
<1>2. CASE AdvanceExpected(p) /\ Advanced
  <2>1. status = "active" /\ ver \in 1 .. (MaxVer - 1)
    BY <1>1, <1>2 DEF AdvanceExpected, ProcInv
  <2>2. /\ ver' = ver + 1 /\ ver' \in Versions /\ UNCHANGED <<status, gen, prevUntil>>
        /\ endAt' \in [Versions -> Times] /\ endAt'[ver'] = NoTime /\ Ages /\ RowInv'
    BY <1>1, <1>2, <2>1, AdvancedFacts
  <2>3. CASE GotoLoc(p, "fill", r)
    <3>1. /\ r \in Locals /\ r.op = loc[p].op /\ r.node = loc[p].node /\ r.ver = ver'
          /\ r.deadline = loc[p].deadline /\ r.at = 0 /\ r.start = loc[p].start /\ r.told = loc[p].told
      <4>1. ver + 1 \in Versions /\ 0 \in Times
        BY <1>1, <2>2, Moments
      <4> QED BY <1>1, <2>2, <4>1 DEF Locals
    <3>2. "fill" \in Labels
      BY DEF Labels
    <3> HIDE DEF r
    <3>3. /\ pc' \in [Procs -> Labels] /\ loc' \in [Procs -> Locals] /\ OthersKept(p)
          /\ pc'[p] = "fill" /\ loc'[p] = r
      BY <1>1, <2>3, <3>1, <3>2, LocFacts
    <3>4. TokenInv'
      BY <1>1, <2>2, <3>1, <3>3, TokenKept
    <3>5. ProcInv(p)'
      BY <1>1, <2>2, <3>1, <3>3, Moments DEF ProcInv, DiesInTime, Answering
    <3> QED BY <1>1, <2>1, <2>2, <3>3, <3>4, <3>5, RowStep DEF TypeOK
  <2>4. CASE Return(p)
    <3>1. /\ pc' \in [Procs -> Labels] /\ loc' \in [Procs -> Locals] /\ OthersKept(p)
          /\ pc'[p] = "idle" /\ loc'[p].op # "create" /\ ProcInv(p)'
      BY <1>1, <2>4, IdleProc
    <3>2. TokenInv'
      BY <1>1, <2>2, <3>1, TokenKept
    <3> QED BY <1>1, <2>1, <2>2, <3>1, <3>2, RowStep DEF TypeOK
  <2> QED BY <1>2, <2>3, <2>4 DEF AdvanceTransaction
<1>3. CASE Return(p) /\ UNCHANGED <<row, endAt>>
    BY <1>1, <1>3, ReturnStep DEF ghosts
<1> QED BY <1>2, <1>3 DEF AdvanceTransaction

-----------------------------------------------------------------------------
(* Time.                                                                   *)

\* Deadlines stay and Redis drops what is over: nothing becomes valid again.
LEMMA TickInv ==
    ASSUME IInv, Tick
    PROVE  IInv'
<1>1. /\ TypeOK /\ RowInv /\ CacheInv /\ ToldInv /\ TokenInv /\ told \subseteq Caches
      /\ now \in 0 .. MaxTime /\ now < MaxTime /\ now' = now + 1
      /\ UNCHANGED <<status, ver, gen, prevUntil, lock, pc, loc, issued, told, endAt, wonAt, faults>>
      /\ cache' = [c \in Caches |-> IF cache[c].exp > now' THEN cache[c] ELSE NoEntry]
    BY DEF IInv, TypeOK, RowInv, Tick, row, ghosts
<1>2. now' \in 0 .. MaxTime /\ now' \in Times /\ 0 \in Times
    BY <1>1, Numbers DEF Times
<1>3. NoEntry \in Entries /\ NoEntry.status = None
    BY <1>2 DEF Entries, NoEntry
<1>4. ASSUME NEW c \in Caches
      PROVE  \/ cache'[c] = cache[c] /\ cache[c].exp > now'
             \/ cache'[c].status = None /\ cache[c].exp <= now'
    BY <1>1, <1>2, <1>3, RowTyped
<1>5. cache' \in CacheType
    BY <1>1, <1>3 DEF CacheType, Entries, TypeOK
<1>6. TypeOK'
    BY <1>1, <1>2, <1>5 DEF TypeOK, CacheType, Entries
<1>7. RowInv' /\ TokenInv'
    BY <1>1, <1>2 DEF RowInv, TokenInv, Creating
<1>8. CacheInv'
  <2> SUFFICES ASSUME NEW c \in Caches, cache'[c].status = "active"
               PROVE  ActiveOK(cache[c])'
    BY DEF CacheInv
  <2>1. cache'[c] = cache[c] /\ cache[c].exp > now' /\ ActiveOK(cache[c])
    BY <1>1, <1>4 DEF CacheInv, None
  <2>2. cache[c].exp \in Int
    BY <1>1, RowTyped
  <2> QED BY <1>1, <1>2, <2>1, <2>2, Numbers DEF ActiveOK, DiesInTime
<1>9. ToldInv'
    BY <1>1, <1>4 DEF ToldInv, None
<1>10. ASSUME NEW p \in Procs
       PROVE  ProcInv(p)' /\ ToldFill(p)'
  <2>1. /\ ProcInv(p) /\ ToldFill(p) /\ loc[p].deadline \in Int /\ loc[p].start \in Int /\ loc[p].at \in Int
    BY <1>1, Typed DEF IInv
  <2>2. /\ loc[p].at \in 0 .. now => loc[p].at \in 0 .. now'
        /\ loc[p].start <= now => loc[p].start <= now'
        /\ loc[p].deadline <= now + TTL => loc[p].deadline <= now' + TTL
    BY <1>1, <2>1, Numbers
  <2>3. ProcInv(p)'
    BY <1>1, <2>1, <2>2 DEF ProcInv, DiesInTime, BeganInTime
  <2>4. ToldFill(p)'
    <3> SUFFICES ASSUME pc[p] = "fill", loc[p].node \in told
                 PROVE  Minimum(loc[p].deadline, Life) <= Barrier(loc[p].node)'
      BY <1>1 DEF ToldFill
    <3>1. loc[p].node \in Caches /\ Minimum(loc[p].deadline, Life) <= Barrier(loc[p].node)
      BY <2>1 DEF ProcInv, ToldFill
    <3>2. Barrier(loc[p].node) <= Barrier(loc[p].node)' /\ Barrier(loc[p].node)' \in Int
      BY <1>1, <1>4, <3>1, RowTyped DEF Barrier, None
    <3>3. Minimum(loc[p].deadline, Life) \in Int /\ Barrier(loc[p].node) \in Int
      BY <1>1, <2>1, <3>1, MinimumFacts, RowTyped, Numbers
    <3> QED BY <3>1, <3>2, <3>3
  <2> QED BY <2>3, <2>4
<1> QED BY <1>6, <1>7, <1>8, <1>9, <1>10 DEF IInv

-----------------------------------------------------------------------------
(* The theorems.                                                           *)

\* No session, no request, an empty Redis.
LEMMA InitInv == Init => IInv
<1> SUFFICES ASSUME Init PROVE IInv
    OBVIOUS
<1>1. /\ now = 0 /\ status = "absent" /\ ver = 1 /\ gen = 0 /\ prevUntil = 0 /\ lock = None
      /\ issued = {} /\ told = {} /\ wonAt = NoTime /\ faults = 0
    BY DEF Init
<1>2. now \in 0 .. MaxTime /\ 0 \in Times /\ NoTime \in Times /\ ver \in Versions /\ gen \in Tokens
    BY <1>1, Numbers DEF Times, Versions, Tokens
<1>3. NoEntry \in Entries /\ NoEntry.status = None
    BY <1>2 DEF Entries, NoEntry
<1>4. "idle" \in Labels
    BY DEF Labels
<1>5. TypeOK
    BY <1>1, <1>2, <1>3, <1>4, NoLocType, Numbers DEF Init, TypeOK, Entries
<1>6. RowInv
    BY <1>1, <1>2 DEF Init, RowInv
<1>7. CacheInv /\ ToldInv
    BY <1>1, <1>3 DEF Init, CacheInv, ToldInv, None
<1>8. /\ NoLoc.op = None /\ NoLoc.at = 0 /\ NoLoc.start = 0 /\ NoLoc.deadline = 0 /\ NoLoc.told = FALSE
    BY DEF NoLoc
<1>9. TokenInv
    BY <1>1, <1>8 DEF Init, TokenInv, Creating, None
<1>10. ASSUME NEW p \in Procs PROVE ProcInv(p) /\ ToldFill(p)
  <2>1. pc[p] = "idle" /\ loc[p] = NoLoc
    BY DEF Init
  <2>2. 0 \in 0 .. now /\ 0 <= now /\ 0 <= now + TTL
    BY <1>1, Numbers
  <2> QED BY <1>8, <2>1, <2>2 DEF ProcInv, ToldFill, Answering, None
<1> QED BY <1>5, <1>6, <1>7, <1>9, <1>10 DEF IInv

\* Nothing happens.
LEMMA StutterInv ==
    ASSUME IInv, UNCHANGED vars
    PROVE  IInv'
BY DEF IInv, TypeOK, RowInv, CacheInv, ActiveOK, DiesInTime, BeganInTime, ToldInv, TokenInv, Creating,
       ProcInv, ToldFill, Barrier, vars, row, ghosts

\* Every step keeps the invariant: one lemma per action.
LEMMA StepInv == IInv /\ [Next]_vars => IInv'
<1> SUFFICES ASSUME IInv, [Next]_vars PROVE IInv'
    OBVIOUS
<1>1. CASE UNCHANGED vars
    BY <1>1, StutterInv
<1>2. CASE Tick
    BY <1>2, TickInv
<1>3. ASSUME NEW p \in Procs, Start(p) PROVE IInv'
    BY <1>3, CreateInv, GetUserSessionCachedInv, RotateStartInv, LogoutStartInv, RevokeStartInv,
       AdvanceStartInv DEF Start
<1>4. ASSUME NEW p \in Procs, Step(p) PROVE IInv'
    BY <1>4, ReadSessionInv, CacheInactiveInv, FillInv, FillDoneInv, ConfirmInv, AnswerInv, RotateReadInv,
       RotateCasInv, ReuseFenceInv, RevokeFenceInv, RevocationInv, LogoutLockInv, LogoutFenceInv,
       LogoutCommitInv, FinalizeInv, AdvanceTransactionInv DEF Step
<1> QED BY <1>1, <1>2, <1>3, <1>4 DEF Next

\* The inductive invariant holds in every reachable state.
THEOREM Inductive == Spec => []IInv
BY InitInv, StepInv, PTL DEF Spec

\* Every variable of the row, of Redis and of the requests keeps its type: no
\* version beyond the last, no token beyond the last, whatever races or fails
\* (the compare-and-swap of RotateUserSessionRefresh and the version check of
\* AdvanceUserSessionAuthVersion are what keeps the counters in range).
THEOREM TypeCorrect == Spec => []TypeOK
<1>1. IInv => TypeOK
    BY DEF IInv
<1> QED BY <1>1, Inductive, PTL

\* No validation that begins after a revoke has left its tombstone in the same
\* Redis accepts the session, however long a snapshot read before the revoke is
\* delayed (writeUserSessionCache, finalizeUserSessionRevoke).
THEOREM RevokedDenied == Spec => []RevokedIsDenied
<1>1. IInv => RevokedIsDenied
    BY DEF IInv, ProcInv, RevokedIsDenied, Accepted
<1> QED BY <1>1, Inductive, PTL

\* Whatever fails and on whichever Redis, a version that was revoked or
\* superseded is accepted by no validation that begins TTL or more later: the
\* deadline of a snapshot is taken before the row is read (GetUserSessionCached).
THEOREM StalenessBounded == Spec => []BoundedStaleness
<1>1. IInv => BoundedStaleness
    BY DEF IInv, ProcInv, BoundedStaleness, Accepted, BeganInTime, Answering
<1> QED BY <1>1, Inductive, PTL

\* Refreshes that race, repeat or lose their answers leave the client a token
\* that is the current one or its predecessor (RotateUserSessionRefresh).
THEOREM NewestKnown == Spec => []NewestTokenKnown
<1>1. IInv => NewestTokenKnown
    BY DEF IInv, TokenInv, NewestTokenKnown
<1> QED BY <1>1, Inductive, PTL

\* A step of one request moves no other.
LEMMA MovesAlone ==
    ASSUME TypeOK, NEW p \in Procs, NEW q \in Procs, p # q, Start(q) \/ Step(q)
    PROVE  pc'[p] = pc[p]
<1>1. pc \in [Procs -> Labels]
    BY DEF TypeOK
<1>2. ASSUME NEW l, Goto(q, l) \/ \E r : GotoLoc(q, l, r)
      PROVE  pc'[p] = pc[p]
    BY <1>1, <1>2 DEF Goto, GotoLoc
<1>3. Return(q) \/ Succeed(q) \/ Stale(q) => pc'[p] = pc[p]
    BY <1>2 DEF Return, Succeed, Stale
<1>4. ASSUME NEW l, DenyFence(q, l) PROVE pc'[p] = pc[p]
    BY <1>2, <1>3, <1>4 DEF DenyFence
<1>5. CASE Start(q)
    BY <1>2, <1>3, <1>5 DEF Start, CreateUserSession, GetUserSessionCached, RotateUserSessionRefresh,
       RevokeUserSessionByRefreshHash, RevokeUserSession, AdvanceUserSessionAuthVersion
<1>6. CASE ReadSession(q) \/ CacheInactive(q) \/ Fill(q) \/ FillDone(q) \/ Confirm(q) \/ Answer(q)
    BY <1>2, <1>3, <1>6 DEF ReadSession, CacheInactive, Fill, FillDone, Confirm, Answer
<1>7. CASE RotateRead(q) \/ RotateCas(q) \/ AdvanceTransaction(q)
    BY <1>2, <1>3, <1>7 DEF RotateRead, RotateCas, RotateLoses, AdvanceTransaction
<1>8. CASE ReuseFence(q) \/ RevokeFence(q) \/ LogoutFence(q)
    BY <1>4, <1>8 DEF ReuseFence, RevokeFence, LogoutFence
<1>9. CASE ReuseRevoke(q) \/ RevokeTransaction(q) \/ RevokeSessionsTransaction(q) \/ LogoutCommit(q)
    BY <1>2, <1>3, <1>9 DEF ReuseRevoke, RevokeTransaction, RevokeSessionsTransaction, RevokeRow,
       LogoutCommit, Recorded
<1>10. CASE LogoutLock(q) \/ Finalize(q)
    BY <1>2, <1>3, <1>10 DEF LogoutLock, Finalize
<1> QED BY <1>5, <1>6, <1>7, <1>8, <1>9, <1>10 DEF Step

\* A refresh takes its token for a reused one only when it was presented after
\* the grace period of the refresh that replaced it (RotateUserSessionRefresh).
THEOREM RaceHarmless == Spec => RaceNeverRevokes
<1> DEFINE A == \A p \in Procs : pc[p] = "rotRead" /\ pc'[p] = "reuseFence" => loc[p].at > wonAt + Grace
<1>1. IInv /\ [Next]_vars => [A]_vars
  <2> SUFFICES ASSUME IInv, Next, NEW p \in Procs, pc[p] = "rotRead", pc'[p] = "reuseFence"
               PROVE  loc[p].at > wonAt + Grace
    OBVIOUS
  <2>1. PICK q \in Procs : Start(q) \/ Step(q)
    BY DEF Next, Tick
  <2>2. p = q
    BY <2>1, MovesAlone DEF IInv
  <2>3. RotateRead(p)
    BY <2>1, <2>2 DEF Start, CreateUserSession, GetUserSessionCached, RotateUserSessionRefresh,
       RevokeUserSessionByRefreshHash, RevokeUserSession, AdvanceUserSessionAuthVersion,
       Step, ReadSession, CacheInactive, Fill, FillDone, Confirm, Answer, RotateCas, AdvanceTransaction,
       ReuseFence, RevokeFence, LogoutFence, ReuseRevoke, RevokeTransaction, RevokeSessionsTransaction,
       LogoutCommit, LogoutLock, Finalize
  <2>4. pc \in [Procs -> Labels] /\ gen \in Nat /\ loc[p].tok \in Nat /\ RowInv
    BY RowTyped, Typed DEF IInv, TypeOK, Tokens
  <2>5. gen = loc[p].tok + 1 /\ loc[p].at > prevUntil
    BY <2>3, <2>4 DEF RotateRead, Return, GotoLoc
  <2> QED BY <2>4, <2>5 DEF RowInv
<1> QED BY <1>1, Inductive, PTL DEF Spec, RaceNeverRevokes
=============================================================================
