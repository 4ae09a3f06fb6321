----------------------------- MODULE UserSession -----------------------------
(***************************************************************************)
(* A login session: its row in user_sessions and its snapshots in Redis    *)
(* (model/user_session.go).  Requests validate the session, rotate its     *)
(* refresh token, advance its version and revoke it, all at once, on nodes *)
(* that share one Redis or have one each.                                  *)
(*                                                                         *)
(* Each action is one SQL statement or transaction or one Redis call, and  *)
(* the clock may advance between any two.  A write that fails may have     *)
(* taken effect or not; a failing read of the database ends the request    *)
(* and changes nothing, so it is left out.  Refresh tokens are numbered    *)
(* along their chain: deriveNextRefreshSecret makes token n + 1 from token *)
(* n, whoever computes it, and previous_refresh_hash is that of gen - 1.   *)
(* Sessions do not interact, so the module follows one.  A process that    *)
(* dies is one that takes no more steps.                                   *)
(***************************************************************************)
EXTENDS Integers

CONSTANTS
    Procs,      \* requests that may run at the same time
    Caches,     \* Redis instances
    TTL,        \* userCacheTTLSeconds
    Grace,      \* RefreshReplayWindow
    Life,       \* expires_at of the session
    MaxTime,    \* bound: the clock
    MaxGen,     \* bound: refresh tokens
    MaxVer,     \* bound: versions of the session
    MaxFaults   \* bound: calls that fail

ASSUME UserSessionAssumption ==
    /\ TTL \in Nat \ {0} /\ Grace \in Nat /\ Life \in Nat \ {0}
    /\ MaxTime \in Nat /\ MaxGen \in Nat /\ MaxVer \in Nat \ {0} /\ MaxFaults \in Nat

None == "none"
NoTime == -1

VARIABLES
    now,
    status, ver, gen, prevUntil,    \* the row
    lock,       \* the request whose transaction holds the row lock
    cache,      \* the session's hash in each Redis
    pc, loc,    \* where each request is, and its local variables
    issued,     \* refresh tokens that were handed out
    told,       \* caches in which a revoke has left its tombstone
    endAt,      \* when each version of the session ceased to be valid
    wonAt,      \* when the refresh that made the current token was presented
    faults

row == <<status, ver, gen, prevUntil>>
ghosts == <<issued, told, endAt, wonAt>>
vars == <<now, row, lock, cache, pc, loc, ghosts, faults>>

Versions == 1 .. MaxVer
Tokens == 0 .. MaxGen

NoEntry == [status |-> None, ver |-> 0, exp |-> 0]

NoLoc == [op |-> None, node |-> None, ver |-> 0, deadline |-> 0,
          tok |-> 0, at |-> 0, tries |-> 0, start |-> 0, told |-> FALSE]

Init ==
    /\ now = 0
    /\ status = "absent" /\ ver = 1 /\ gen = 0 /\ prevUntil = 0
    /\ lock = None
    /\ cache = [c \in Caches |-> NoEntry]
    /\ pc = [p \in Procs |-> "idle"]
    /\ loc = [p \in Procs |-> NoLoc]
    /\ issued = {} /\ told = {}
    /\ endAt = [v \in Versions |-> NoTime]
    /\ wonAt = NoTime
    /\ faults = 0

Goto(p, l) == pc' = [pc EXCEPT ![p] = l] /\ UNCHANGED loc
GotoLoc(p, l, r) == pc' = [pc EXCEPT ![p] = l] /\ loc' = [loc EXCEPT ![p] = r]
Return(p) == GotoLoc(p, "idle", NoLoc)
Succeed(p) == GotoLoc(p, "ok", [loc[p] EXCEPT !.deadline = 0])
Stale(p) == GotoLoc(p, "confirm", [loc[p] EXCEPT !.deadline = 0])

Ok == UNCHANGED faults
Fault == faults < MaxFaults /\ faults' = faults + 1

Minimum(a, b) == IF a < b THEN a ELSE b

-----------------------------------------------------------------------------
(* writeUserSessionCache.                                                  *)

\* Mutant: an active snapshot replaces a tombstone.
ActiveRefusedByVersion(c, v) == cache[c].ver > v

\* The script returns 0 for an active snapshot ...
ActiveRefused(c, v) == cache[c].status = "deny" \/ cache[c].ver > v

\* ... and for a deny state.
DenyRefused(c, v) == cache[c].ver > v

\* Mutant: a delayed snapshot gets the whole TTL.
WriteActiveFresh(c, v, deadline) ==
    LET exp == Minimum(now + TTL, Life) IN
    cache' = [cache EXCEPT ![c] =
        IF exp > now THEN [status |-> "active", ver |-> v, exp |-> exp] ELSE NoEntry]

\* PEXPIREAT: the key is gone at once if the time has passed.
WriteActive(c, v, deadline) ==
    LET exp == Minimum(deadline, Life) IN
    cache' = [cache EXCEPT ![c] =
        IF exp > now THEN [status |-> "active", ver |-> v, exp |-> exp] ELSE NoEntry]

\* PEXPIRE, from the moment the script runs; at least a second.
WriteDeny(c, v) ==
    LET ttl == IF Life - now > 0 THEN Minimum(Life - now, TTL) ELSE 1 IN
    cache' = [cache EXCEPT ![c] = [status |-> "deny", ver |-> v, exp |-> now + ttl]]

\* writeUserSessionDenyFence: what the caller does next on success and on error.
DenyFence(p, onSuccess) ==
    LET c == loc[p].node
        v == loc[p].ver
    IN
    \/ ~DenyRefused(c, v) /\ WriteDeny(c, v) /\ Goto(p, onSuccess) /\ Ok
    \/ DenyRefused(c, v) /\ Return(p) /\ Ok /\ UNCHANGED cache
    \/ Fault /\ Return(p)
       /\ (UNCHANGED cache \/ (~DenyRefused(c, v) /\ WriteDeny(c, v)))

-----------------------------------------------------------------------------
\* CreateUserSession: the row, then its first snapshot.
CreateUserSession(p, c) ==
    /\ pc[p] = "idle" /\ status = "absent"
    /\ status' = "active"
    /\ GotoLoc(p, "fill", [NoLoc EXCEPT !.op = "create", !.node = c, !.ver = ver,
                                        !.deadline = now + TTL])
    /\ UNCHANGED <<now, ver, gen, prevUntil, lock, cache, ghosts, faults>>

-----------------------------------------------------------------------------
(* ValidateLoginSession: GetUserSessionCached.                             *)

\* A hit decides; a miss or a failing read goes to the database, with the
\* deadline taken first.
GetUserSessionCached(p, c) ==
    /\ pc[p] = "idle" /\ status # "absent"
    /\ LET l == [NoLoc EXCEPT !.op = "validate", !.node = c, !.start = now,
                              !.told = c \in told]
           miss == GotoLoc(p, "read", [l EXCEPT !.deadline = now + TTL])
       IN
       \/ cache[c].status = "active" /\ GotoLoc(p, "ok", [l EXCEPT !.ver = cache[c].ver]) /\ Ok
       \/ cache[c].status = "deny" /\ Return(p) /\ Ok
       \/ cache[c].status = None /\ miss /\ Ok
       \/ cache[c].status # None /\ miss /\ Fault
    /\ UNCHANGED <<now, row, lock, cache, ghosts>>

ReadSession(p) ==
    /\ pc[p] = "read"
    /\ IF status = "active" /\ now < Life
       THEN GotoLoc(p, "fill", [loc[p] EXCEPT !.ver = ver])
       ELSE GotoLoc(p, "deny", [NoLoc EXCEPT !.op = "validate", !.node = loc[p].node, !.ver = ver])
    /\ UNCHANGED <<now, row, lock, cache, ghosts, faults>>

\* A session found inactive leaves a tombstone, if it can.
CacheInactive(p) ==
    /\ pc[p] = "deny"
    /\ LET c == loc[p].node
           v == loc[p].ver
       IN
       \/ ~DenyRefused(c, v) /\ WriteDeny(c, v) /\ Ok
       \/ DenyRefused(c, v) /\ UNCHANGED cache /\ Ok
       \/ Fault /\ (UNCHANGED cache \/ (~DenyRefused(c, v) /\ WriteDeny(c, v)))
    /\ Return(p)
    /\ UNCHANGED <<now, row, lock, ghosts>>

-----------------------------------------------------------------------------
(* The active snapshot of a validation, a rotation or an advance.          *)

\* The check of the deadline may have been made before the clock moved on.  An
\* error of Redis is logged, except by AdvanceUserSessionAuthVersion.
Fill(p) ==
    /\ pc[p] = "fill"
    /\ LET c == loc[p].node
           v == loc[p].ver
       IN
       \/ ~ActiveRefused(c, v) /\ WriteActive(c, v, loc[p].deadline) /\ Goto(p, "filled") /\ Ok
       \/ ActiveRefused(c, v) /\ Return(p) /\ Ok /\ UNCHANGED cache
       \/ now >= loc[p].deadline /\ Stale(p) /\ Ok /\ UNCHANGED cache
       \/ now < loc[p].deadline /\ now >= Life /\ Return(p) /\ Ok /\ UNCHANGED cache
       \/ /\ Fault
          /\ IF loc[p].op = "advance" THEN Return(p) ELSE Succeed(p)
          /\ UNCHANGED cache \/ (~ActiveRefused(c, v) /\ WriteActive(c, v, loc[p].deadline))
    /\ UNCHANGED <<now, row, lock, ghosts>>

\* After the script: was the observation still fresh?
FillDone(p) ==
    /\ pc[p] = "filled"
    /\ \/ now >= loc[p].deadline /\ Stale(p)
       \/ now < loc[p].deadline /\ now >= Life /\ Return(p)
       \/ now < loc[p].deadline /\ now < Life /\ Succeed(p)
    /\ UNCHANGED <<now, row, lock, cache, ghosts, faults>>

\* confirmUserSessionActiveSnapshot.
Confirm(p) ==
    /\ pc[p] = "confirm"
    /\ IF status = "active" /\ now < Life /\ ver = loc[p].ver THEN Succeed(p) ELSE Return(p)
    /\ UNCHANGED <<now, row, lock, cache, ghosts, faults>>

\* The request is authorised, or the client gets its tokens.
Answer(p) ==
    /\ pc[p] = "ok"
    /\ issued' = CASE loc[p].op = "create" -> {0}
                   [] loc[p].op = "rotate" -> issued \cup {loc[p].tok + 1}
                   [] OTHER -> issued
    /\ Return(p)
    /\ UNCHANGED <<now, row, lock, cache, told, endAt, wonAt, faults>>

-----------------------------------------------------------------------------
(* RotateUserSessionRefresh, for any token that was ever handed out.       *)
(* RefreshLoginSession validates the session before; here a rotation may    *)
(* also begin without, so that whatever holds here holds there.            *)

MaxRotateTries == 3

RotateUserSessionRefresh(p, c, t) ==
    /\ pc[p] = "idle" /\ t \in issued /\ t < MaxGen
    /\ GotoLoc(p, "rotRead", [NoLoc EXCEPT !.op = "rotate", !.node = c, !.tok = t, !.at = now])
    /\ UNCHANGED <<now, row, lock, cache, ghosts, faults>>

\* The current token is swapped; the previous one is a race within the grace
\* period and reuse after it; an older one is refused.
RotateRead(p) ==
    /\ pc[p] = "rotRead"
    /\ LET l == loc[p] IN
       \/ /\ status # "active" \/ l.at >= Life \/ gen > l.tok + 1
          /\ Return(p) /\ UNCHANGED issued
       \/ /\ status = "active" /\ l.at < Life /\ gen = l.tok
          /\ GotoLoc(p, "cas", [l EXCEPT !.ver = ver, !.deadline = now + TTL])
          /\ UNCHANGED issued
       \/ /\ status = "active" /\ l.at < Life /\ gen = l.tok + 1 /\ l.at <= prevUntil
          /\ issued' = issued \cup {gen}
          /\ Return(p)
       \/ /\ status = "active" /\ l.at < Life /\ gen = l.tok + 1 /\ l.at > prevUntil
          /\ GotoLoc(p, "reuseFence", [NoLoc EXCEPT !.op = "rotate", !.node = l.node, !.ver = ver])
          /\ UNCHANGED issued
    /\ UNCHANGED <<now, row, lock, cache, told, endAt, wonAt, faults>>

RotateWins(p) ==
    /\ gen' = loc[p].tok + 1 /\ prevUntil' = loc[p].at + Grace
    /\ wonAt' = loc[p].at
    /\ UNCHANGED <<status, ver>>

RotateLoses(p) ==
    /\ LET n == loc[p].tries + 1 IN
       IF n < MaxRotateTries THEN GotoLoc(p, "rotRead", [loc[p] EXCEPT !.tries = n, !.ver = 0, !.deadline = 0])
       ELSE Return(p)
    /\ UNCHANGED <<row, wonAt>>

\* Mutant: the UPDATE does not compare the refresh hash.
RotateCasUncompared(p) ==
    /\ pc[p] = "cas" /\ lock = None
    /\ IF status = "active" /\ loc[p].at < Life
       THEN RotateWins(p) /\ GotoLoc(p, "fill", [loc[p] EXCEPT !.at = 0, !.tries = 0])
       ELSE RotateLoses(p)
    /\ UNCHANGED <<now, lock, cache, issued, told, endAt, faults>>

\* Mutant: a rotation leaves the window of the one before.
RotateCasKeepsWindow(p) ==
    /\ pc[p] = "cas" /\ lock = None
    /\ IF status = "active" /\ loc[p].at < Life /\ gen = loc[p].tok
       THEN /\ gen' = loc[p].tok + 1
            /\ wonAt' = loc[p].at
            /\ GotoLoc(p, "fill", [loc[p] EXCEPT !.at = 0, !.tries = 0])
            /\ UNCHANGED <<status, ver, prevUntil>>
       ELSE RotateLoses(p)
    /\ UNCHANGED <<now, lock, cache, issued, told, endAt, faults>>

RotateCas(p) ==
    /\ pc[p] = "cas" /\ lock = None
    /\ LET current == status = "active" /\ loc[p].at < Life /\ gen = loc[p].tok IN
       \/ current /\ RotateWins(p) /\ GotoLoc(p, "fill", [loc[p] EXCEPT !.at = 0, !.tries = 0]) /\ Ok
       \/ ~current /\ RotateLoses(p) /\ Ok
       \/ Fault /\ Return(p) /\ (UNCHANGED <<row, wonAt>> \/ (current /\ RotateWins(p)))
    /\ UNCHANGED <<now, lock, cache, issued, told, endAt>>

-----------------------------------------------------------------------------
(* Revocation: the deny fence, then the row, then the tombstone.           *)

Revoked ==
    /\ status' = "revoked"
    /\ endAt' = [endAt EXCEPT ![ver] = now]
    /\ UNCHANGED <<ver, gen, prevUntil>>

\* What is left is the tombstone, of version v.
Recorded(p, v) == GotoLoc(p, "final", [NoLoc EXCEPT !.op = "revoke", !.node = loc[p].node, !.ver = v])

ReuseFence(p) ==
    /\ pc[p] = "reuseFence"
    /\ DenyFence(p, "reuse")
    /\ UNCHANGED <<now, row, lock, ghosts>>

\* The family is revoked whatever rotation has happened since.
ReuseRevoke(p) ==
    /\ pc[p] = "reuse" /\ lock = None
    /\ \/ status = "active" /\ Revoked /\ Recorded(p, loc[p].ver) /\ Ok
       \/ status # "active" /\ Return(p) /\ Ok /\ UNCHANGED <<row, endAt>>
       \/ Fault /\ Return(p) /\ (UNCHANGED <<row, endAt>> \/ (status = "active" /\ Revoked))
    /\ UNCHANGED <<now, lock, cache, issued, told, wonAt>>

\* RevokeUserSession, and revokeUserSessions for this session among others.
RevokeUserSession(p, c, op) ==
    /\ pc[p] = "idle" /\ status = "active" /\ now < Life
    /\ GotoLoc(p, "fence", [NoLoc EXCEPT !.op = op, !.node = c, !.ver = ver])
    /\ UNCHANGED <<now, row, lock, cache, ghosts, faults>>

RevokeFence(p) ==
    /\ pc[p] = "fence"
    /\ DenyFence(p, loc[p].op)
    /\ UNCHANGED <<now, row, lock, ghosts>>

\* The row is revoked, if it is still active; v is the tombstone's version.
RevokeRow(p, v) ==
    /\ lock = None
    /\ \/ status = "active" /\ Revoked /\ Recorded(p, v) /\ Ok
       \/ status # "active" /\ Return(p) /\ Ok /\ UNCHANGED <<row, endAt>>
       \/ Fault /\ Return(p) /\ (UNCHANGED <<row, endAt>> \/ (status = "active" /\ Revoked))
    /\ UNCHANGED <<now, lock, cache, issued, told, wonAt>>

\* RevokeUserSession keeps the version it read before the fence ...
RevokeTransaction(p) == pc[p] = "revoke" /\ RevokeRow(p, loc[p].ver)

\* ... revokeUserSessions reads the rows again under their locks.
RevokeSessionsTransaction(p) == pc[p] = "revokeAll" /\ RevokeRow(p, ver)

\* RevokeUserSessionByRefreshHash: one transaction around the fence, for the
\* current token or the previous one within the grace period.  The time is read
\* before the row lock is waited for.
RevokeUserSessionByRefreshHash(p, c, t) ==
    /\ pc[p] = "idle" /\ t \in issued
    /\ GotoLoc(p, "logoutLock", [NoLoc EXCEPT !.op = "logout", !.node = c, !.tok = t, !.at = now])
    /\ UNCHANGED <<now, row, lock, cache, ghosts, faults>>

LogoutLock(p) ==
    /\ pc[p] = "logoutLock" /\ lock = None
    /\ LET l == loc[p]
           known == gen = l.tok \/ (gen = l.tok + 1 /\ l.at <= prevUntil)
       IN IF status = "active" /\ l.at < Life /\ known
          THEN lock' = p /\ GotoLoc(p, "logoutFence", [l EXCEPT !.ver = ver, !.tok = 0, !.at = 0])
          ELSE Return(p) /\ UNCHANGED lock
    /\ UNCHANGED <<now, row, cache, ghosts, faults>>

LogoutFence(p) ==
    /\ pc[p] = "logoutFence"
    /\ DenyFence(p, "logout")
    /\ lock' = IF pc'[p] = "logout" THEN p ELSE None
    /\ UNCHANGED <<now, row, ghosts>>

LogoutCommit(p) ==
    /\ pc[p] = "logout"
    /\ \/ Revoked /\ Recorded(p, loc[p].ver) /\ Ok
       \/ Fault /\ Return(p) /\ (UNCHANGED <<row, endAt>> \/ Revoked)
    /\ lock' = None
    /\ UNCHANGED <<now, cache, issued, told, wonAt>>

\* The tombstone; a failure is logged, and the session is reported revoked.
Finalize(p) ==
    /\ pc[p] = "final"
    /\ LET c == loc[p].node
           v == loc[p].ver
       IN
       \/ ~DenyRefused(c, v) /\ WriteDeny(c, v) /\ told' = told \cup {c} /\ Ok
       \/ DenyRefused(c, v) /\ UNCHANGED <<cache, told>> /\ Ok
       \/ Fault /\ UNCHANGED told /\ (UNCHANGED cache \/ (~DenyRefused(c, v) /\ WriteDeny(c, v)))
    /\ Return(p)
    /\ UNCHANGED <<now, row, lock, issued, endAt, wonAt>>

-----------------------------------------------------------------------------
(* AdvanceUserSessionAuthVersion, for an identity that was just validated. *)

AdvanceUserSessionAuthVersion(p, c) ==
    /\ pc[p] = "idle" /\ issued # {} /\ ver < MaxVer
    /\ GotoLoc(p, "advance", [NoLoc EXCEPT !.op = "advance", !.node = c, !.ver = ver, !.at = now,
                                           !.deadline = now + TTL])
    /\ UNCHANGED <<now, row, lock, cache, ghosts, faults>>

\* The row as the transaction leaves it when it advances the version.
Advanced ==
    /\ ver' = ver + 1
    /\ endAt' = [endAt EXCEPT ![ver] = now]
    /\ UNCHANGED <<status, gen, prevUntil>>

\* Mutant: the expected version is not compared.
AdvanceUncompared(p) == status = "active" /\ loc[p].at < Life

\* The row is the one whose identity was validated.
AdvanceExpected(p) == status = "active" /\ loc[p].at < Life /\ ver = loc[p].ver

AdvanceTransaction(p) ==
    /\ pc[p] = "advance" /\ lock = None
    /\ \/ AdvanceExpected(p) /\ Advanced /\ GotoLoc(p, "fill", [loc[p] EXCEPT !.ver = ver + 1, !.at = 0]) /\ Ok
       \/ ~AdvanceExpected(p) /\ Return(p) /\ Ok /\ UNCHANGED <<row, endAt>>
       \/ Fault /\ Return(p) /\ (UNCHANGED <<row, endAt>> \/ (AdvanceExpected(p) /\ Advanced))
    /\ UNCHANGED <<now, lock, cache, issued, told, wonAt>>

-----------------------------------------------------------------------------
\* Time passes and Redis drops what has expired.
Tick ==
    /\ now < MaxTime
    /\ now' = now + 1
    /\ cache' = [c \in Caches |-> IF cache[c].exp > now' THEN cache[c] ELSE NoEntry]
    /\ UNCHANGED <<row, lock, pc, loc, ghosts, faults>>

Start(p) ==
    \E c \in Caches :
        \/ CreateUserSession(p, c)
        \/ GetUserSessionCached(p, c)
        \/ \E t \in Tokens : RotateUserSessionRefresh(p, c, t) \/ RevokeUserSessionByRefreshHash(p, c, t)
        \/ \E op \in {"revoke", "revokeAll"} : RevokeUserSession(p, c, op)
        \/ AdvanceUserSessionAuthVersion(p, c)

Step(p) ==
    \/ ReadSession(p) \/ CacheInactive(p)
    \/ Fill(p) \/ FillDone(p) \/ Confirm(p) \/ Answer(p)
    \/ RotateRead(p) \/ RotateCas(p) \/ ReuseFence(p) \/ ReuseRevoke(p)
    \/ RevokeFence(p) \/ RevokeTransaction(p) \/ RevokeSessionsTransaction(p)
    \/ LogoutLock(p) \/ LogoutFence(p) \/ LogoutCommit(p)
    \/ Finalize(p)
    \/ AdvanceTransaction(p)

Next == Tick \/ \E p \in Procs : Start(p) \/ Step(p)

Spec == Init /\ [][Next]_vars

-----------------------------------------------------------------------------
(* Properties.                                                             *)

Times == NoTime .. (MaxTime + TTL + Grace + 1)

Labels == {"idle", "read", "deny", "fill", "filled", "confirm", "ok", "rotRead", "cas",
           "reuseFence", "reuse", "fence", "revoke", "revokeAll", "logoutLock", "logoutFence", "logout", "final", "advance"}

Locals ==
    [op : {None, "create", "validate", "rotate", "revoke", "revokeAll", "logout", "advance"},
     node : Caches \cup {None}, ver : Versions \cup {0}, deadline : Times, tok : Tokens,
     at : Times, tries : 0 .. (MaxRotateTries - 1), start : Times, told : BOOLEAN]

\* The type of the state.
TypeOK ==
    /\ now \in Times
    /\ status \in {"absent", "active", "revoked"} /\ ver \in Versions /\ gen \in Tokens /\ prevUntil \in Times
    /\ lock \in Procs \cup {None}
    /\ cache \in [Caches -> [status : {None, "active", "deny"}, ver : Versions \cup {0}, exp : Times]]
    /\ pc \in [Procs -> Labels] /\ loc \in [Procs -> Locals]
    /\ issued \subseteq Tokens /\ told \subseteq Caches
    /\ endAt \in [Versions -> Times] /\ wonAt \in Times
    /\ faults \in 0 .. MaxFaults

Accepted(p) == pc[p] = "ok" /\ loc[p].op = "validate"

\* A validation that begins after a revoke has left its tombstone in the same
\* Redis is refused, for good: no snapshot read before the revoke, however long
\* its write was delayed, brings the session back, neither over the tombstone
\* nor after the tombstone has expired (model/user_session.go:382,
\* docs/authentication.md:26).
RevokedIsDenied == \A p \in Procs : Accepted(p) => ~loc[p].told

\* Whatever fails, and on whichever Redis: a version of the session that has
\* been revoked or superseded is accepted by no validation that begins TTL or
\* more after that, because every active snapshot dies TTL after its deadline
\* was taken, before the row was read (docs/authentication.md:21, 25).
BoundedStaleness ==
    \A p \in Procs : Accepted(p) /\ endAt[loc[p].ver] # NoTime =>
        loc[p].start < endAt[loc[p].ver] + TTL

\* Refreshes that race, repeat or lose their answers never strand a client: the
\* newest token handed out is the current one or its predecessor, so it is never
\* taken for an unknown one (model/user_session.go:556, docs/authentication.md:68).
NewestTokenKnown ==
    /\ \A t \in issued : t <= gen
    /\ gen > 0 => \E t \in issued : t >= gen - 1

\* The session is revoked for reuse only by a token presented after the grace
\* period of the refresh that replaced it: tabs that refresh together, however
\* their statements interleave, do not log the user out
\* (model/user_session.go:616).
RaceNeverRevokes ==
    [][\A p \in Procs : pc[p] = "rotRead" /\ pc'[p] = "reuseFence" => loc[p].at > wonAt + Grace]_vars
=============================================================================
