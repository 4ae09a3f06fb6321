----------------------------- MODULE MiniBinding -----------------------------
(***************************************************************************)
(* How a WeChat user without an account of the console gets one in the     *)
(* mini program: the pages index, login and binding, the BindingLifecycle  *)
(* of the binding page, the browser page that confirms a binding, and the  *)
(* rows of the server (auth flows, bindings, the identity of the subject).  *)
(* A ticket is the number of its auth flow; a binding is named by the       *)
(* ticket it was created for, of which it is the only one.                  *)
(***************************************************************************)
EXTENDS Naturals, Sequences

CONSTANTS
    Accounts,   \* the accounts that may be signed in to the browser page
    NewAcct,    \* the account that a registration creates
    NoAcct,     \* no account
    MaxTickets, \* bound on pending tickets
    MaxPages,   \* bound on openings of the binding page
    MaxSlips    \* bound on calls that fail and web views that fail to load

ASSUME BindingAssumption ==
    /\ NoAcct \notin Accounts \cup {NewAcct}
    /\ MaxTickets \in Nat

VARIABLES
    flow,       \* consumed_at of each pending flow: "none", "live" or "consumed"
    lapsed,     \* tickets whose five minutes are over
    binding,    \* status of the binding of each ticket, "none" when there is no row
    boundTo,    \* user_id of each binding
    owner,      \* user of the WeChat identity
    route,      \* the page of the mini program
    inst,       \* how often the binding page was opened
    ticket,     \* pendingIdentityTicket, 0 when null
    session,    \* account of currentSession
    lc,         \* the BindingLifecycle of the page
    told,       \* what it reported: the calls of onBound and onError
    ready,      \* bindings whose address a web view has shown
    calls,      \* requests under way
    slips,      \* how many calls and web views failed
    dropped     \* ghost: tickets whose binding page was left, or was in the
                \* background when the binding was created

rows == <<flow, lapsed, binding, boundTo, owner>>
bvars == <<rows, route, inst, ticket, session, lc, told, ready, calls, slips, dropped>>

Tickets == 1..MaxTickets
Users == Accounts \cup {NewAcct}

\* The fields of BindingLifecycle; past says that now() has reached deadline,
\* alarm that deadlineTimer runs, tick that intervalTimer does, and error is
\* the message that the page shows.
NewLc == [id |-> 0, fg |-> FALSE, starting |-> FALSE, stopped |-> FALSE, polling |-> FALSE,
          tick |-> FALSE, alarm |-> FALSE, past |-> FALSE, error |-> FALSE]

\* No page, or one that was left: stop() was called.
NoLc == [NewLc EXCEPT !.stopped = TRUE]

Call(kind, k) == [kind |-> kind, page |-> inst, k |-> k, at |-> "sent",
                  ans |-> "none", user |-> NoAcct]

BInit ==
    /\ flow = [k \in Tickets |-> "none"] /\ lapsed = {}
    /\ binding = [k \in Tickets |-> "none"]
    /\ boundTo = [k \in Tickets |-> NoAcct]
    /\ owner = NoAcct
    /\ route = "index" /\ inst = 0 /\ ticket = 0 /\ session = NoAcct
    /\ lc = NoLc /\ told = <<>> /\ ready = {} /\ calls = {}
    /\ slips = 0 /\ dropped = {}

-----------------------------------------------------------------------------
(* BindingLifecycle.  x is its state, ts what it has reported, cs the        *)
(* requests under way, when a method returns or awaits.                      *)

Active(x) == ~x.stopped /\ x.fg

Stop(x) == [x EXCEPT !.stopped = TRUE, !.tick = FALSE, !.alarm = FALSE]

Now(x, ts, cs) == lc' = x /\ told' = ts /\ calls' = cs

\* expire and fail.
Fail(x, key, cs) == Now([Stop(x) EXCEPT !.error = TRUE], Append(told, key), cs)

Poll(x, cs) ==
    CASE ~Active(x) \/ x.id = 0 \/ x.polling -> Now(x, told, cs)
      [] Active(x) /\ x.id # 0 /\ ~x.polling /\ x.past -> Fail(x, "expired", cs)
      [] Active(x) /\ x.id # 0 /\ ~x.polling /\ ~x.past /\ ticket = 0 -> Fail(x, "failed", cs)
      [] OTHER -> Now([x EXCEPT !.polling = TRUE], told, cs \cup {Call("status", x.id)})

StartPolling(x, cs) ==
    IF ~Active(x) \/ x.id = 0 \/ x.tick THEN Now(x, told, cs)
    ELSE Poll([x EXCEPT !.tick = TRUE], cs)

\* requirePendingTicket fails without a ticket.
CreateBinding(x) ==
    IF ticket = 0 THEN Fail(x, "failed", calls)
    ELSE Now([x EXCEPT !.starting = TRUE], told, calls \cup {Call("create", ticket)})

\* Mutant: a page that comes back does not notice the creation under way.
CreatingNever(x) == FALSE

Creating(x) == x.starting

ShowLc(x) ==
    CASE x.id # 0 -> StartPolling([x EXCEPT !.fg = TRUE], calls)
      [] x.id = 0 /\ Creating(x) -> Now([x EXCEPT !.fg = TRUE], told, calls)
      [] OTHER -> CreateBinding([x EXCEPT !.fg = TRUE])

Show ==
    /\ route = "binding" /\ ~lc.fg /\ ~lc.stopped
    /\ ShowLc(lc)
    /\ UNCHANGED <<rows, route, inst, ticket, session, ready, slips, dropped>>

Hide ==
    /\ route = "binding" /\ lc.fg
    /\ lc' = [lc EXCEPT !.fg = FALSE, !.tick = FALSE]
    /\ UNCHANGED <<rows, route, inst, ticket, session, told, ready, calls, slips, dropped>>

\* setInterval and setTimeout.
Tick ==
    /\ lc.tick
    /\ Poll(lc, calls)
    /\ UNCHANGED <<rows, route, inst, ticket, session, ready, slips, dropped>>

Alarm ==
    /\ lc.alarm /\ lc.past
    /\ Fail(lc, "expired", calls)
    /\ UNCHANGED <<rows, route, inst, ticket, session, ready, slips, dropped>>

\* Mutant: the failure is reported although the page has its outcome.
CanFailAlways(x) == TRUE

\* onError of the web view, shown once the address is known and until an
\* error is.
CanFail(x) == ~x.stopped

WebViewFailed ==
    /\ route = "binding" /\ lc.id # 0 /\ ~lc.error /\ slips < MaxSlips
    /\ CanFail(lc)
    /\ slips' = slips + 1
    /\ Fail(lc, "webview", calls)
    /\ UNCHANGED <<rows, route, inst, ticket, session, ready, dropped>>

-----------------------------------------------------------------------------
(* The pages. *)

\* connect of the index page.
Connect ==
    /\ route = "index" /\ \A c \in calls : c.kind # "login"
    /\ calls' = calls \cup {Call("login", 0)}
    /\ UNCHANGED <<rows, route, inst, ticket, session, lc, told, ready, slips, dropped>>

Registering == \E c \in calls : c.kind = "register"

Register ==
    /\ route = "login" /\ ticket # 0 /\ ~Registering
    /\ calls' = calls \cup {Call("register", ticket)}
    /\ UNCHANGED <<rows, route, inst, ticket, session, lc, told, ready, slips, dropped>>

\* The login page opens the binding page, which is shown at once.
OpenBinding ==
    /\ route = "login" /\ ticket # 0 /\ ~Registering /\ inst < MaxPages
    /\ route' = "binding"
    /\ inst' = inst + 1
    /\ lc' = [NewLc EXCEPT !.fg = TRUE, !.starting = TRUE]
    /\ told' = <<>>
    /\ calls' = calls \cup {[Call("create", ticket) EXCEPT !.page = inst + 1]}
    /\ UNCHANGED <<rows, ticket, session, ready, slips, dropped>>

\* unload: nobody waits any more for an answer that only the page would use.
Unload == Now(NoLc, <<>>, {c \in calls : c.kind # "status" /\ ~(c.kind = "create" /\ c.at = "done")})

\* Back to the login page.
Back ==
    /\ route = "binding"
    /\ route' = "login"
    /\ Unload
    /\ dropped' = dropped \cup {ticket}
    /\ UNCHANGED <<rows, inst, ticket, session, ready, slips>>

\* restartAuthentication of the binding page after an error, and restart of
\* the login page.
Restart ==
    /\ \/ route = "binding" /\ lc.error
       \/ route = "login" /\ ~Registering
    /\ route' = "index"
    /\ ticket' = 0
    /\ Unload
    /\ UNCHANGED <<rows, inst, session, ready, slips, dropped>>

-----------------------------------------------------------------------------
(* The server. *)

Live(k) == flow[k] = "live" /\ k \notin lapsed

\* StartMiniAppLogin: a session of the owner, or a new ticket.
StartMiniAppLogin(c) ==
    \/ /\ owner # NoAcct
       /\ calls' = (calls \ {c}) \cup {[c EXCEPT !.at = "done", !.ans = "ok", !.user = owner]}
       /\ UNCHANGED rows
    \/ /\ owner = NoAcct
       /\ \E k \in Tickets :
            /\ flow[k] = "none" /\ \A j \in 1..(k - 1) : flow[j] # "none"
            /\ flow' = [flow EXCEPT ![k] = "live"]
            /\ calls' = (calls \ {c}) \cup {[c EXCEPT !.at = "done", !.ans = "pending", !.k = k]}
       /\ UNCHANGED <<lapsed, binding, boundTo, owner>>

\* CreateMiniAppBinding: the sole binding of a ticket that is still live.
CreateMiniAppBinding(c) ==
    LET ok == Live(c.k) /\ binding[c.k] = "none" IN
    /\ binding' = IF ok THEN [binding EXCEPT ![c.k] = "pending"] ELSE binding
    /\ calls' = (calls \ {c}) \cup {[c EXCEPT !.at = "done", !.ans = IF ok THEN "ok" ELSE "error"]}
    /\ UNCHANGED <<flow, lapsed, boundTo, owner>>

\* getMiniAppBindingStatus.
BindingStatus(k) ==
    CASE binding[k] = "bound" -> "bound"
      [] binding[k] # "bound" /\ (binding[k] = "expired" \/ ~Live(k)) -> "expired"
      [] OTHER -> "pending"

GetMiniAppBindingStatus(c) ==
    /\ calls' = (calls \ {c}) \cup {[c EXCEPT !.at = "done", !.ans = BindingStatus(c.k)]}
    /\ UNCHANGED rows

\* Mutant: the last claim wins.
ClaimableAlways(u) == TRUE

\* ClaimWechatMiniIdentityWithTx: a claim by someone else fails, and the
\* transaction is rolled back.
Claimable(u) == owner \in {NoAcct, u}

\* RegisterMiniAppUser.
RegisterMiniAppUser(c) ==
    LET ok == Live(c.k) /\ owner = NoAcct IN
    /\ flow' = IF ok THEN [flow EXCEPT ![c.k] = "consumed"] ELSE flow
    /\ owner' = IF ok THEN NewAcct ELSE owner
    /\ calls' = (calls \ {c}) \cup {[c EXCEPT !.at = "done", !.ans = IF ok THEN "ok" ELSE "error",
                                             !.user = IF ok THEN NewAcct ELSE NoAcct]}
    /\ UNCHANGED <<lapsed, binding, boundTo>>

Serve(c) ==
    /\ c.at = "sent"
    /\ \/ c.kind \in {"login", "complete"} /\ StartMiniAppLogin(c)
       \/ c.kind = "create" /\ CreateMiniAppBinding(c)
       \/ c.kind = "status" /\ GetMiniAppBindingStatus(c)
       \/ c.kind = "register" /\ RegisterMiniAppUser(c)
    /\ UNCHANGED <<route, inst, ticket, session, lc, told, ready, slips, dropped>>

\* The request or its answer is lost, or times out.
Lose(c) ==
    /\ slips < MaxSlips /\ c.ans # "error"
    /\ slips' = slips + 1
    /\ calls' = (calls \ {c}) \cup {[c EXCEPT !.at = "done", !.ans = "error"]}
    /\ UNCHANGED <<rows, route, inst, ticket, session, lc, told, ready, dropped>>

\* ConfirmMiniAppBinding by the browser page, signed in as u: both flows, the
\* binding and the identity in one transaction.
ConfirmMiniAppBinding(k, u) ==
    /\ k \in ready /\ Live(k) /\ binding[k] = "pending" /\ Claimable(u)
    /\ flow' = [flow EXCEPT ![k] = "consumed"]
    /\ binding' = [binding EXCEPT ![k] = "bound"]
    /\ boundTo' = [boundTo EXCEPT ![k] = u]
    /\ owner' = u
    /\ UNCHANGED <<lapsed, route, inst, ticket, session, lc, told, ready, calls, slips, dropped>>

\* Five minutes pass for a ticket; the deadline of the page is later.
Lapse(k) ==
    /\ flow[k] # "none" /\ k \notin lapsed
    /\ lapsed' = lapsed \cup {k}
    /\ UNCHANGED <<flow, binding, boundTo, owner, route, inst, ticket, session, lc, told, ready,
                   calls, slips, dropped>>

Deadline ==
    /\ lc.id \in lapsed /\ ~lc.past /\ ~lc.stopped
    /\ lc' = [lc EXCEPT !.past = TRUE]
    /\ UNCHANGED <<rows, route, inst, ticket, session, told, ready, calls, slips, dropped>>

\* ExpireAndDeleteMiniAppBindings; rows are deleted a day later.
ExpireMiniAppBindings(k) ==
    /\ k \in lapsed /\ binding[k] \in {"pending", "bound"}
    /\ binding' = [binding EXCEPT ![k] = "expired"]
    /\ UNCHANGED <<flow, lapsed, boundTo, owner, route, inst, ticket, session, lc, told, ready,
                   calls, slips, dropped>>

-----------------------------------------------------------------------------
(* Answers.  Those for a page that was left find its lifecycle stopped. *)

Listens(c) == route = "binding" /\ c.page = inst

\* loginWithWechat keeps what it was given, whoever waits for it.
Keep(c) ==
    /\ session' = CASE c.ans = "ok" -> c.user [] c.ans = "pending" -> NoAcct [] OTHER -> session
    /\ ticket' = CASE c.ans = "ok" -> 0 [] c.ans = "pending" -> c.k [] OTHER -> ticket

\* connect, and register.
LoginReceive(c) ==
    /\ c.kind \in {"login", "register"}
    /\ Keep(c)
    /\ route' = CASE c.ans = "ok" -> "account" [] c.ans = "pending" -> "login" [] OTHER -> route
    /\ calls' = calls \ {c}
    /\ UNCHANGED <<rows, inst, lc, told, ready, slips, dropped>>

\* completeBinding.
CompleteReceive(c) ==
    /\ c.kind = "complete"
    /\ Keep(c)
    /\ route' = IF Listens(c) /\ c.ans = "ok" THEN "account" ELSE route
    /\ CASE Listens(c) /\ c.ans = "ok" -> Now(NoLc, <<>>, calls \ {c})
         [] Listens(c) /\ c.ans # "ok" -> Now([lc EXCEPT !.error = TRUE], told, calls \ {c})
         [] OTHER -> Now(lc, told, calls \ {c})
    /\ UNCHANGED <<rows, inst, ready, slips, dropped>>

\* Mutant: a creation that failed is not reported.
CreateIgnored(x, cs) == Now(x, told, cs)

CreateFailed(x, cs) == Fail(x, "failed", cs)

\* The rest of show: a binding that comes while the page is hidden is not used.
CreateReceive(c) ==
    LET x == [lc EXCEPT !.starting = FALSE]
        rest == calls \ {c}
    IN /\ c.kind = "create"
       /\ CASE ~Listens(c) -> Now(lc, told, rest)
            [] Listens(c) /\ ~Active(x) -> Now(x, told, rest)
            [] Listens(c) /\ Active(x) /\ c.ans = "error" -> CreateFailed(x, rest)
            [] OTHER -> StartPolling([x EXCEPT !.id = c.k, !.alarm = TRUE], rest)
       /\ ready' = IF Listens(c) /\ Active(lc) /\ c.ans = "ok" THEN ready \cup {c.k} ELSE ready
       /\ dropped' = IF Listens(c) /\ Active(lc) THEN dropped ELSE dropped \cup {c.k}
       /\ UNCHANGED <<rows, route, inst, ticket, session, slips>>

\* The rest of poll.
StatusReceive(c) ==
    LET x == [lc EXCEPT !.polling = FALSE]
        rest == calls \ {c}
    IN /\ c.kind = "status"
       /\ CASE ~Listens(c) -> Now(lc, told, rest)
            [] Listens(c) /\ ~Active(x) -> Now(x, told, rest)
            [] Listens(c) /\ Active(x) /\ c.ans = "error" -> Fail(x, "failed", rest)
            [] Listens(c) /\ Active(x) /\ c.ans # "error" /\ (x.past \/ c.ans = "expired") ->
                  Fail(x, "expired", rest)
            [] Listens(c) /\ Active(x) /\ ~x.past /\ c.ans = "bound" ->
                  Now(Stop(x), Append(told, "bound"), rest \cup {Call("complete", 0)})
            [] OTHER -> Now(x, told, rest)
       /\ UNCHANGED <<rows, route, inst, ticket, session, ready, slips, dropped>>

Receive(c) ==
    /\ c.at = "done"
    /\ LoginReceive(c) \/ CompleteReceive(c) \/ CreateReceive(c) \/ StatusReceive(c)

BNext ==
    \/ Show \/ Hide \/ Tick \/ Alarm \/ WebViewFailed
    \/ Connect \/ Register \/ OpenBinding \/ Back \/ Restart
    \/ Deadline
    \/ \E c \in calls : Serve(c) \/ Lose(c) \/ Receive(c)
    \/ \E k \in Tickets : \/ Lapse(k) \/ ExpireMiniAppBindings(k)
                          \/ \E u \in Accounts : ConfirmMiniAppBinding(k, u)

\* Requests are answered or time out, the clock runs and timers fire.
BFairness ==
    /\ WF_bvars(\E c \in calls : Serve(c) \/ Receive(c))
    /\ \A k \in Tickets : WF_bvars(Lapse(k))
    /\ WF_bvars(Deadline)
    /\ WF_bvars(Alarm)

BSpec == BInit /\ [][BNext]_bvars /\ BFairness

-----------------------------------------------------------------------------
(* Properties. *)

\* The subject has one owner: every binding that was confirmed, and the
\* session of the mini program, belong to the account that owns the WeChat
\* identity, although tickets of one subject can be registered with and
\* confirmed at the same time (ConfirmMiniAppBinding, RegisterMiniAppUser).
OneOwner ==
    /\ \A k \in Tickets : boundTo[k] \in {NoAcct, owner}
    /\ session \in {NoAcct, owner}

\* A page reports one outcome: bound, or one error; the web view, the polls
\* and the deadline cannot add another (BindingLifecycle.stop).  After "bound"
\* the login that follows finds the account and is not asked to bind again.
OneOutcome ==
    /\ Len(told) <= 1
    /\ \A c \in calls : c.kind = "complete" => c.ans # "pending"

\* The page reports a failure only when a call failed, the ticket is no longer
\* good, or its binding was created for a page that was left or hidden: a page
\* that is hidden and shown again does not create a second binding, which the
\* server would refuse (BindingLifecycle.starting).
FailsForAReason ==
    (route = "binding" /\ told = <<"failed">>)
        => slips > 0 \/ ticket = 0 \/ ~Live(ticket) \/ ticket \in dropped

\* A binding page that stays in the foreground comes to an outcome, at the
\* latest when the deadline passes.
BindingEnds ==
    (route = "binding" /\ lc.fg /\ ~lc.stopped) ~> (route # "binding" \/ ~lc.fg \/ lc.stopped)
=============================================================================
