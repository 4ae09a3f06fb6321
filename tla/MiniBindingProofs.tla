-------------------------- MODULE MiniBindingProofs --------------------------
(***************************************************************************)
(* Proofs about MiniBinding: one owner of the WeChat identity, one outcome *)
(* of a binding page, and no failure without a reason, for any number of   *)
(* accounts, tickets, pages and failures.                                  *)
(***************************************************************************)
EXTENDS MiniBinding, TLAPS

Anyone == Users \cup {NoAcct}
Numbers == 0..MaxTickets
Outcomes == {"expired", "failed", "webview", "bound"}

LcSet == [id : Numbers, fg : BOOLEAN, starting : BOOLEAN, stopped : BOOLEAN, polling : BOOLEAN,
          tick : BOOLEAN, alarm : BOOLEAN, past : BOOLEAN, error : BOOLEAN]

CallSet == [kind : {"login", "register", "create", "status", "complete"}, page : Nat, k : Numbers,
            at : {"sent", "done"}, ans : {"none", "ok", "pending", "error", "bound", "expired"},
            user : Anyone]

\* The lifecycle x with the outcomes ts: there is none until it has stopped,
\* and then its timers are off.
LcOK(x, ts) ==
    /\ x \in LcSet /\ ts \in Seq(Outcomes)
    /\ ~x.stopped => ts = <<>>
    /\ Len(ts) <= 1
    /\ x.alarm => ~x.stopped

\* A call c while o owns the identity: an account it carries is o, a status
\* "bound" was read when there was an owner, and so the login after it is
\* given a session.
CallOK(c, o) ==
    /\ c \in CallSet
    /\ c.user \in {NoAcct, o}
    /\ c.kind \in {"create", "status", "register"} => c.k \in Tickets
    /\ (c.kind = "status" /\ c.ans = "bound") \/ c.kind = "complete" => o # NoAcct
    /\ c.kind = "complete" => c.ans # "pending"

CallsOK(cs, o) == \A c \in cs : CallOK(c, o)

RowsOK ==
    /\ binding \in [Tickets -> {"none", "pending", "bound", "expired"}]
    /\ boundTo \in [Tickets -> Anyone]
    /\ owner \in Anyone
    /\ \A k \in Tickets : boundTo[k] \in {NoAcct, owner}
    /\ \A k \in Tickets : binding[k] = "bound" => owner # NoAcct

PageOK ==
    /\ inst \in Nat /\ ticket \in Numbers
    /\ session \in {NoAcct, owner}

IInv == RowsOK /\ PageOK /\ LcOK(lc, told) /\ CallsOK(calls, owner)

-----------------------------------------------------------------------------

LEMMA NewLcSet == NewLc \in LcSet /\ ~NewLc.stopped /\ ~NewLc.alarm
BY BindingAssumption DEF LcSet, NewLc, Numbers

LEMMA NoneReported == <<>> \in Seq(Outcomes) /\ Len(<<>>) = 0
OBVIOUS

LEMMA NoLcOK == LcOK(NoLc, <<>>)
<1>1. NoLc \in LcSet /\ ~NoLc.alarm /\ NoLc.stopped
  BY NewLcSet DEF LcSet, NoLc
<1> QED BY <1>1, NoneReported DEF LcOK

LEMMA InitIInv == BInit => IInv
<1> SUFFICES ASSUME BInit PROVE IInv
  OBVIOUS
<1>1. LcOK(lc, told)
  BY NoLcOK DEF BInit
<1>2. RowsOK /\ PageOK /\ CallsOK(calls, owner)
  BY BindingAssumption DEF BInit, RowsOK, PageOK, CallsOK, Anyone, Numbers
<1> QED BY <1>1, <1>2 DEF IInv

\* A call that is begun.
LEMMA CallBegins ==
    ASSUME IInv, NEW kind \in {"login", "register", "create", "status"},
           NEW k \in Numbers, kind # "login" => k \in Tickets
    PROVE  CallOK(Call(kind, k), owner)
BY BindingAssumption DEF IInv, PageOK, RowsOK, CallOK, CallSet, Call, Anyone, Numbers, Tickets

LEMMA StopOK ==
    ASSUME NEW x, NEW key \in Outcomes, LcOK(x, told), ~x.stopped
    PROVE  LcOK([Stop(x) EXCEPT !.error = TRUE], Append(told, key)) /\ LcOK(Stop(x), Append(told, key))
<1> DEFINE y == Stop(x)
           z == [y EXCEPT !.error = TRUE]
<1>1. y \in LcSet /\ y.stopped /\ ~y.alarm
  BY DEF Stop, LcOK, LcSet
<1>2. z \in LcSet /\ z.stopped /\ ~z.alarm
  BY <1>1 DEF LcSet
<1>3. Append(told, key) \in Seq(Outcomes) /\ Len(Append(told, key)) <= 1
  BY NoneReported DEF LcOK
<1> QED BY <1>1, <1>2, <1>3 DEF LcOK

LEMMA FailOK ==
    ASSUME NEW x, NEW cs, NEW key \in Outcomes, NEW o, LcOK(x, told), ~x.stopped, CallsOK(cs, o),
           Fail(x, key, cs)
    PROVE  LcOK(lc, told)' /\ CallsOK(calls', o)
BY StopOK DEF Fail, Now, LcOK

LEMMA PollOK ==
    ASSUME IInv, NEW x, NEW cs, LcOK(x, told), CallsOK(cs, owner), Poll(x, cs)
    PROVE  LcOK(lc, told)' /\ CallsOK(calls', owner)
<1>1. CASE ~Active(x) \/ x.id = 0 \/ x.polling
  BY <1>1 DEF Poll, Now
<1>2. CASE Active(x) /\ x.id # 0 /\ ~x.polling /\ x.past
  BY <1>2, FailOK DEF Poll, Outcomes, Active
<1>3. CASE Active(x) /\ x.id # 0 /\ ~x.polling /\ ~x.past /\ ticket = 0
  BY <1>3, FailOK DEF Poll, Outcomes, Active
<1>4. CASE Active(x) /\ x.id # 0 /\ ~x.polling /\ ~x.past /\ ticket # 0
  <2>1. Now([x EXCEPT !.polling = TRUE], told, cs \cup {Call("status", x.id)})
    BY <1>4 DEF Poll
  <2>2. CallOK(Call("status", x.id), owner)
    BY <1>4, CallBegins DEF LcOK, LcSet, Numbers, Tickets
  <2>3. LcOK([x EXCEPT !.polling = TRUE], told)
    BY DEF LcOK, LcSet
  <2> QED BY <2>1, <2>2, <2>3 DEF Now, CallsOK
<1> QED BY <1>1, <1>2, <1>3, <1>4

LEMMA StartPollingOK ==
    ASSUME IInv, NEW x, NEW cs, LcOK(x, told), CallsOK(cs, owner), StartPolling(x, cs)
    PROVE  LcOK(lc, told)' /\ CallsOK(calls', owner)
<1>1. CASE ~Active(x) \/ x.id = 0 \/ x.tick
  BY <1>1 DEF StartPolling, Now
<1>2. CASE ~(~Active(x) \/ x.id = 0 \/ x.tick)
  <2>1. Poll([x EXCEPT !.tick = TRUE], cs)
    BY <1>2 DEF StartPolling
  <2>2. LcOK([x EXCEPT !.tick = TRUE], told)
    BY DEF LcOK, LcSet
  <2> QED BY <2>1, <2>2, PollOK
<1> QED BY <1>1, <1>2

-----------------------------------------------------------------------------
(* The actions that leave the rows and the session alone. *)

\* What such an action has to keep.
LEMMA PageStep ==
    ASSUME IInv, UNCHANGED <<binding, boundTo, owner, session>>, inst' \in Nat,
           ticket' \in Numbers, LcOK(lc, told)', CallsOK(calls', owner)
    PROVE  IInv'
BY DEF IInv, RowsOK, PageOK

LEMMA ShowStep == ASSUME IInv, Show PROVE IInv'
<1> DEFINE x == [lc EXCEPT !.fg = TRUE]
<1>1. LcOK(x, told) /\ ~x.stopped
  BY DEF Show, IInv, LcOK, LcSet
<1>2. LcOK(lc, told)' /\ CallsOK(calls', owner)
  <2>1. CASE lc.id # 0
    BY <2>1, <1>1, StartPollingOK DEF Show, ShowLc, IInv
  <2>2. CASE lc.id = 0 /\ Creating(lc)
    BY <2>2, <1>1 DEF Show, ShowLc, Now, IInv
  <2>3. CASE lc.id = 0 /\ ~Creating(lc)
    <3>1. CreateBinding(x)
      BY <2>3 DEF Show, ShowLc
    <3>2. CASE ticket = 0
      BY <3>1, <3>2, <1>1, FailOK DEF CreateBinding, IInv, Outcomes
    <3>3. CASE ticket # 0
      <4>1. CallOK(Call("create", ticket), owner)
        BY <3>3, CallBegins DEF IInv, PageOK, Numbers, Tickets
      <4>2. LcOK([x EXCEPT !.starting = TRUE], told)
        BY <1>1 DEF LcOK, LcSet
      <4> QED BY <3>1, <3>3, <4>1, <4>2 DEF CreateBinding, Now, IInv, CallsOK
    <3> QED BY <3>2, <3>3
  <2> QED BY <2>1, <2>2, <2>3
<1> QED BY <1>2, PageStep DEF Show, rows, IInv, PageOK

LEMMA HideStep == ASSUME IInv, Hide PROVE IInv'
<1>1. LcOK(lc, told)'
  BY DEF Hide, IInv, LcOK, LcSet
<1> QED BY <1>1, PageStep DEF Hide, rows, IInv, PageOK

LEMMA TickStep == ASSUME IInv, Tick PROVE IInv'
BY PollOK, PageStep DEF Tick, rows, IInv, PageOK

LEMMA AlarmStep == ASSUME IInv, Alarm PROVE IInv'
<1>1. LcOK(lc, told)' /\ CallsOK(calls', owner)
  BY FailOK DEF Alarm, IInv, LcOK, Outcomes
<1> QED BY <1>1, PageStep DEF Alarm, rows, IInv, PageOK

LEMMA WebViewStep == ASSUME IInv, WebViewFailed PROVE IInv'
<1>1. LcOK(lc, told)' /\ CallsOK(calls', owner)
  BY FailOK DEF WebViewFailed, CanFail, IInv, Outcomes
<1> QED BY <1>1, PageStep DEF WebViewFailed, rows, IInv, PageOK

LEMMA ConnectStep == ASSUME IInv, Connect PROVE IInv'
<1>1. CallOK(Call("login", 0), owner)
  BY CallBegins, BindingAssumption DEF Numbers
<1>2. LcOK(lc, told)' /\ CallsOK(calls', owner)
  BY <1>1 DEF Connect, IInv, CallsOK, LcOK
<1> QED BY <1>2, PageStep DEF Connect, rows, IInv, PageOK

LEMMA RegisterStep == ASSUME IInv, Register PROVE IInv'
<1>1. CallOK(Call("register", ticket), owner)
  BY CallBegins DEF Register, IInv, PageOK, Numbers, Tickets
<1>2. LcOK(lc, told)' /\ CallsOK(calls', owner)
  BY <1>1 DEF Register, IInv, CallsOK, LcOK
<1> QED BY <1>2, PageStep DEF Register, rows, IInv, PageOK

LEMMA OpenStep == ASSUME IInv, OpenBinding PROVE IInv'
<1> DEFINE c == [Call("create", ticket) EXCEPT !.page = inst + 1]
<1>1. CallOK(c, owner)
  <2>1. CallOK(Call("create", ticket), owner)
    BY CallBegins DEF OpenBinding, IInv, PageOK, Numbers, Tickets
  <2> QED BY <2>1 DEF CallOK, CallSet, IInv, PageOK
<1>2. LcOK([NewLc EXCEPT !.fg = TRUE, !.starting = TRUE], <<>>)
  <2> DEFINE y == [NewLc EXCEPT !.fg = TRUE, !.starting = TRUE]
  <2>1. y \in LcSet /\ ~y.stopped /\ ~y.alarm
    BY NewLcSet DEF LcSet
  <2> QED BY <2>1, NoneReported DEF LcOK
<1>3. LcOK(lc, told)'
  BY <1>2 DEF OpenBinding
<1>4. CallsOK(calls', owner)
  BY <1>1 DEF OpenBinding, IInv, CallsOK
<1> QED BY <1>3, <1>4, PageStep DEF OpenBinding, rows, IInv, PageOK

LEMMA BackStep == ASSUME IInv, Back PROVE IInv'
<1>1. LcOK(lc, told)' /\ CallsOK(calls', owner)
  BY NoLcOK DEF Back, Unload, Now, IInv, CallsOK
<1> QED BY <1>1, PageStep DEF Back, rows, IInv, PageOK

LEMMA RestartStep == ASSUME IInv, Restart PROVE IInv'
<1>1. LcOK(lc, told)' /\ CallsOK(calls', owner)
  BY NoLcOK DEF Restart, Unload, Now, IInv, CallsOK
<1> QED BY <1>1, PageStep, BindingAssumption DEF Restart, rows, IInv, PageOK, Numbers

LEMMA DeadlineStep == ASSUME IInv, Deadline PROVE IInv'
<1>1. LcOK(lc, told)'
  BY DEF Deadline, IInv, LcOK, LcSet
<1> QED BY <1>1, PageStep DEF Deadline, rows, IInv, PageOK

-----------------------------------------------------------------------------
(* The server. *)

\* A row of calls is replaced, and the identity gets its first owner or keeps it.
LEMMA OwnerStep ==
    ASSUME IInv, NEW c \in calls, NEW d, owner \in {NoAcct, owner'}, CallOK(d, owner'),
           owner # NoAcct => owner' # NoAcct,
           calls' = (calls \ {c}) \cup {d}
    PROVE  CallsOK(calls', owner')
BY DEF IInv, CallsOK, CallOK

LEMMA LoginServed == ASSUME IInv, NEW c \in calls, c.kind \in {"login", "complete"}, StartMiniAppLogin(c),
                            UNCHANGED <<inst, ticket, session, lc, told>>
                     PROVE  IInv'
<1>1. CallOK(c, owner)
  BY DEF IInv, CallsOK
<1>2. CASE owner # NoAcct
  <2> DEFINE d == [c EXCEPT !.at = "done", !.ans = "ok", !.user = owner]
  <2>1. CallOK(d, owner)
    BY <1>1, <1>2 DEF CallOK, CallSet, IInv, RowsOK
  <2> HIDE DEF d
  <2>2. calls' = (calls \ {c}) \cup {d} /\ UNCHANGED <<binding, boundTo, owner>>
    BY <1>2 DEF StartMiniAppLogin, rows, d
  <2>3. CallsOK(calls', owner)
    BY <2>1, <2>2 DEF IInv, CallsOK
  <2> QED BY <2>2, <2>3, PageStep DEF IInv, PageOK, LcOK
<1>3. CASE owner = NoAcct
  <2>1. PICK k \in Tickets : calls' = (calls \ {c}) \cup {[c EXCEPT !.at = "done", !.ans = "pending", !.k = k]}
    BY <1>3 DEF StartMiniAppLogin
  <2> DEFINE d == [c EXCEPT !.at = "done", !.ans = "pending", !.k = k]
  <2> HIDE DEF d
  <2>2. CallOK(d, owner)
    <3>1. c.kind = "login" /\ k \in Numbers /\ c \in CallSet
      BY <1>1, <1>3, BindingAssumption DEF CallOK, Tickets, Numbers
    <3>2. d \in CallSet /\ d.kind = c.kind /\ d.user = c.user
      BY <3>1 DEF CallSet, d
    <3> QED BY <3>1, <3>2, <1>1 DEF CallOK
  <2>3. UNCHANGED <<binding, boundTo, owner>>
    BY <1>3 DEF StartMiniAppLogin, rows
  <2>4. CallsOK(calls', owner)
    BY <2>1, <2>2 DEF IInv, CallsOK, d
  <2> QED BY <2>3, <2>4, PageStep DEF IInv, PageOK, LcOK
<1> QED BY <1>2, <1>3

LEMMA CreateServed == ASSUME IInv, NEW c \in calls, c.kind = "create", CreateMiniAppBinding(c),
                             UNCHANGED <<inst, ticket, session, lc, told>>
                      PROVE  IInv'
<1> DEFINE ok == Live(c.k) /\ binding[c.k] = "none"
           d == [c EXCEPT !.at = "done", !.ans = IF ok THEN "ok" ELSE "error"]
<1>1. CallOK(c, owner)
  BY DEF IInv, CallsOK
<1>2. CallOK(d, owner)
  BY <1>1 DEF CallOK, CallSet
<1>3. CallsOK(calls', owner)
  BY <1>2 DEF CreateMiniAppBinding, IInv, CallsOK
<1>4. RowsOK'
  BY DEF CreateMiniAppBinding, IInv, RowsOK
<1> QED BY <1>3, <1>4 DEF CreateMiniAppBinding, IInv, PageOK, LcOK

LEMMA StatusServed == ASSUME IInv, NEW c \in calls, c.kind = "status", GetMiniAppBindingStatus(c),
                             UNCHANGED <<inst, ticket, session, lc, told>>
                      PROVE  IInv'
<1> DEFINE d == [c EXCEPT !.at = "done", !.ans = BindingStatus(c.k)]
<1>1. CallOK(c, owner)
  BY DEF IInv, CallsOK
<1>2. BindingStatus(c.k) \in {"bound", "expired", "pending"}
  BY DEF BindingStatus
<1>3. BindingStatus(c.k) = "bound" => binding[c.k] = "bound"
  BY DEF BindingStatus
<1>4. CallOK(d, owner)
  BY <1>1, <1>2, <1>3 DEF CallOK, CallSet, IInv, RowsOK
<1>5. CallsOK(calls', owner)
  BY <1>4 DEF GetMiniAppBindingStatus, IInv, CallsOK
<1> QED BY <1>5, PageStep DEF GetMiniAppBindingStatus, rows, IInv, PageOK, LcOK

LEMMA RegisterServed == ASSUME IInv, NEW c \in calls, c.kind = "register", RegisterMiniAppUser(c),
                               UNCHANGED <<inst, ticket, session, lc, told>>
                        PROVE  IInv'
<1> DEFINE ok == Live(c.k) /\ owner = NoAcct
           d == [c EXCEPT !.at = "done", !.ans = IF ok THEN "ok" ELSE "error",
                          !.user = IF ok THEN NewAcct ELSE NoAcct]
<1>1. CallOK(c, owner)
  BY DEF IInv, CallsOK
<1>2. owner' = (IF ok THEN NewAcct ELSE owner) /\ calls' = (calls \ {c}) \cup {d}
  BY DEF RegisterMiniAppUser
<1>3. owner \in {NoAcct, owner'} /\ (owner # NoAcct => owner' # NoAcct) /\ owner' \in Anyone
  BY <1>2 DEF IInv, RowsOK, Anyone, Users
<1>4. CallOK(d, owner')
  BY <1>1, <1>2, <1>3, BindingAssumption DEF CallOK, CallSet, Anyone, Users
<1> HIDE DEF d, ok
<1>5. CallsOK(calls', owner')
  BY <1>2, <1>3, <1>4, OwnerStep
<1>6. RowsOK'
  BY <1>3 DEF RegisterMiniAppUser, IInv, RowsOK
<1>7. PageOK'
  BY <1>3 DEF IInv, PageOK
<1> QED BY <1>5, <1>6, <1>7 DEF IInv, LcOK

LEMMA ServeStep == ASSUME IInv, NEW c \in calls, Serve(c) PROVE IInv'
BY LoginServed, CreateServed, StatusServed, RegisterServed DEF Serve

LEMMA LoseStep == ASSUME IInv, NEW c \in calls, Lose(c) PROVE IInv'
<1> DEFINE d == [c EXCEPT !.at = "done", !.ans = "error"]
<1>1. CallOK(d, owner)
  BY DEF IInv, CallsOK, CallOK, CallSet
<1>2. CallsOK(calls', owner)
  BY <1>1 DEF Lose, IInv, CallsOK
<1> QED BY <1>2, PageStep DEF Lose, rows, IInv, PageOK, LcOK

LEMMA ConfirmStep == ASSUME IInv, NEW k \in Tickets, NEW u \in Accounts, ConfirmMiniAppBinding(k, u)
                     PROVE  IInv'
<1>1. owner \in {NoAcct, owner'} /\ owner' # NoAcct /\ owner' \in Anyone
  BY BindingAssumption DEF ConfirmMiniAppBinding, Claimable, Anyone, Users
<1>2. CallsOK(calls', owner')
  BY <1>1 DEF ConfirmMiniAppBinding, IInv, CallsOK, CallOK
<1>3. RowsOK'
  BY <1>1 DEF ConfirmMiniAppBinding, IInv, RowsOK
<1>4. PageOK'
  BY <1>1 DEF ConfirmMiniAppBinding, IInv, PageOK
<1> QED BY <1>2, <1>3, <1>4 DEF ConfirmMiniAppBinding, IInv, LcOK

LEMMA LapseStep == ASSUME IInv, NEW k \in Tickets, Lapse(k) \/ ExpireMiniAppBindings(k) PROVE IInv'
<1>1. RowsOK'
  BY DEF Lapse, ExpireMiniAppBindings, IInv, RowsOK
<1> QED BY <1>1 DEF Lapse, ExpireMiniAppBindings, IInv, PageOK, LcOK, CallsOK

-----------------------------------------------------------------------------
(* Answers. *)

LEMMA KeepOK == ASSUME IInv, NEW c \in calls, Keep(c)
                PROVE  session' \in {NoAcct, owner} /\ ticket' \in Numbers
BY BindingAssumption DEF Keep, IInv, CallsOK, CallOK, CallSet, PageOK, Numbers

\* What an answer that may bring a session has to keep.
LEMMA KeepStep ==
    ASSUME IInv, NEW c \in calls, Keep(c), UNCHANGED <<binding, boundTo, owner, inst>>,
           LcOK(lc, told)', CallsOK(calls', owner)
    PROVE  IInv'
BY KeepOK DEF IInv, RowsOK, PageOK

LEMMA LoginReceived == ASSUME IInv, NEW c \in calls, LoginReceive(c) PROVE IInv'
<1>1. LcOK(lc, told)' /\ CallsOK(calls', owner)
  BY DEF LoginReceive, IInv, LcOK, CallsOK
<1> QED BY <1>1, KeepStep DEF LoginReceive, rows

LEMMA CompleteReceived == ASSUME IInv, NEW c \in calls, CompleteReceive(c) PROVE IInv'
<1>1. LcOK([lc EXCEPT !.error = TRUE], told)
  BY DEF IInv, LcOK, LcSet
<1>2. \/ Now(NoLc, <<>>, calls \ {c})
      \/ Now([lc EXCEPT !.error = TRUE], told, calls \ {c})
      \/ Now(lc, told, calls \ {c})
  BY DEF CompleteReceive
<1>3. LcOK(lc, told)' /\ CallsOK(calls', owner)
  BY <1>1, <1>2, NoLcOK DEF Now, IInv, CallsOK
<1> QED BY <1>3, KeepStep DEF CompleteReceive, rows

LEMMA CreateReceived == ASSUME IInv, NEW c \in calls, CreateReceive(c) PROVE IInv'
<1> DEFINE x == [lc EXCEPT !.starting = FALSE]
           y == [x EXCEPT !.id = c.k, !.alarm = TRUE]
           rest == calls \ {c}
<1>1. LcOK(x, told) /\ CallsOK(rest, owner) /\ LcOK(lc, told)
  BY DEF IInv, LcOK, LcSet, CallsOK
<1>2. \/ Now(lc, told, rest) \/ Now(x, told, rest)
      \/ Active(x) /\ Fail(x, "failed", rest)
      \/ Active(x) /\ StartPolling(y, rest)
  BY DEF CreateReceive, CreateFailed
<1>3. LcOK(lc, told)' /\ CallsOK(calls', owner)
  <2>1. CASE Now(lc, told, rest) \/ Now(x, told, rest)
    BY <2>1, <1>1 DEF Now
  <2>2. CASE Active(x) /\ Fail(x, "failed", rest)
    BY <2>2, <1>1, FailOK DEF Active, Outcomes
  <2>3. CASE Active(x) /\ StartPolling(y, rest)
    <3>1. c.k \in Numbers
      BY DEF IInv, CallsOK, CallOK, CallSet
    <3>2. LcOK(y, told)
      BY <2>3, <3>1, <1>1 DEF LcOK, LcSet, Active
    <3> QED BY <2>3, <3>2, <1>1, StartPollingOK
  <2> QED BY <1>2, <2>1, <2>2, <2>3
<1> QED BY <1>3, PageStep DEF CreateReceive, rows, IInv, PageOK

LEMMA StatusReceived == ASSUME IInv, NEW c \in calls, StatusReceive(c) PROVE IInv'
<1> DEFINE x == [lc EXCEPT !.polling = FALSE]
           rest == calls \ {c}
           d == Call("complete", 0)
<1>1. LcOK(x, told) /\ CallsOK(rest, owner) /\ LcOK(lc, told)
  BY DEF IInv, LcOK, LcSet, CallsOK
<1>2. \/ Now(lc, told, rest) \/ Now(x, told, rest)
      \/ Active(x) /\ Fail(x, "failed", rest)
      \/ Active(x) /\ Fail(x, "expired", rest)
      \/ Active(x) /\ c.ans = "bound" /\ Now(Stop(x), Append(told, "bound"), rest \cup {d})
  BY DEF StatusReceive
<1>3. LcOK(lc, told)' /\ CallsOK(calls', owner)
  <2>1. CASE Now(lc, told, rest) \/ Now(x, told, rest)
    BY <2>1, <1>1 DEF Now
  <2>2. CASE Active(x) /\ (Fail(x, "failed", rest) \/ Fail(x, "expired", rest))
    BY <2>2, <1>1, FailOK DEF Active, Outcomes
  <2>3. CASE Active(x) /\ c.ans = "bound" /\ Now(Stop(x), Append(told, "bound"), rest \cup {d})
    <3>1. owner # NoAcct
      BY <2>3 DEF StatusReceive, IInv, CallsOK, CallOK
    <3>2. CallOK(d, owner)
      BY <3>1, BindingAssumption DEF Call, CallOK, CallSet, IInv, PageOK, RowsOK, Anyone, Numbers
    <3>3. LcOK(Stop(x), Append(told, "bound"))
      BY <2>3, <1>1, StopOK DEF Active, LcOK, Outcomes
    <3> HIDE DEF d, x
    <3> QED BY <2>3, <1>1, <3>2, <3>3 DEF Now, CallsOK
  <2> QED BY <1>2, <2>1, <2>2, <2>3
<1> QED BY <1>3, PageStep DEF StatusReceive, rows, IInv, PageOK

-----------------------------------------------------------------------------

LEMMA NextIInv == IInv /\ [BNext]_bvars => IInv'
<1> SUFFICES ASSUME IInv, [BNext]_bvars PROVE IInv'
  OBVIOUS
<1>1. CASE UNCHANGED bvars
  BY <1>1 DEF bvars, rows, IInv, RowsOK, PageOK, LcOK, CallsOK
<1>2. CASE Show \/ Hide \/ Tick \/ Alarm \/ WebViewFailed \/ Deadline
  BY <1>2, ShowStep, HideStep, TickStep, AlarmStep, WebViewStep, DeadlineStep
<1>3. CASE Connect \/ Register \/ OpenBinding \/ Back \/ Restart
  BY <1>3, ConnectStep, RegisterStep, OpenStep, BackStep, RestartStep
<1>4. ASSUME NEW c \in calls, Serve(c) \/ Lose(c) \/ Receive(c) PROVE IInv'
  BY <1>4, ServeStep, LoseStep, LoginReceived, CompleteReceived, CreateReceived, StatusReceived
     DEF Receive
<1>5. ASSUME NEW k \in Tickets, Lapse(k) \/ ExpireMiniAppBindings(k) PROVE IInv'
  BY <1>5, LapseStep
<1>6. ASSUME NEW k \in Tickets, NEW u \in Accounts, ConfirmMiniAppBinding(k, u) PROVE IInv'
  BY <1>6, ConfirmStep
<1> QED BY <1>1, <1>2, <1>3, <1>4, <1>5, <1>6 DEF BNext

LEMMA AlwaysIInv == BSpec => []IInv
BY InitIInv, NextIInv, PTL DEF BSpec

\* Every confirmed binding and the session of the mini program belong to the
\* owner of the WeChat identity, for any number of accounts, tickets and pages
\* (ClaimWechatMiniIdentityWithTx).
THEOREM IdentityHasOneOwner == BSpec => []OneOwner
<1>1. IInv => OneOwner
  BY DEF IInv, RowsOK, PageOK, OneOwner
<1> QED BY <1>1, AlwaysIInv, PTL

\* A binding page reports at most one outcome, and the login after "bound" is
\* never asked to bind again (BindingLifecycle.stop, StartMiniAppLogin).
THEOREM PageHasOneOutcome == BSpec => []OneOutcome
<1>1. IInv => OneOutcome
  BY DEF IInv, LcOK, CallsOK, CallOK, OneOutcome
<1> QED BY <1>1, AlwaysIInv, PTL

-----------------------------------------------------------------------------
(* Failures have a reason.  The invariant follows a ticket from the login that   *)
(* brings it to the creation of its binding.                                     *)

\* The binding page may report a failure.
Reason == slips > 0 \/ ticket = 0 \/ ~Live(ticket) \/ ticket \in dropped

\* A ticket that the page or a row knows was issued.
IssuedOK ==
    /\ flow \in [Tickets -> {"none", "live", "consumed"}]
    /\ slips \in Nat
    /\ route \in {"index", "login", "binding", "account"}
    /\ \A k \in Tickets : binding[k] # "none" => flow[k] # "none"
    /\ ticket # 0 => flow[ticket] # "none"
    /\ route = "index" => ticket = 0

\* A ticket that has a binding is used again only for a reason, and a page
\* that has neither a binding nor a creation under way has lost one.
UsedOK ==
    /\ (route = "login" /\ ticket # 0 /\ binding[ticket] # "none") => Reason
    /\ (route = "binding" /\ lc.id = 0 /\ ~lc.starting /\ ~lc.stopped) => Reason

Own(c) == route = "binding" /\ c.page = inst

\* A creation c under way: the page's own is its only one, for its ticket,
\* which has no binding before c is served; one of a page that was left has
\* given a reason.
CreateOK(c) ==
    /\ flow[c.k] # "none"
    /\ Own(c) =>
         /\ lc.starting
         /\ Reason \/ (c.k = ticket /\ c.ans # "error" /\ (c.at = "sent" => binding[c.k] = "none"))
         /\ \A d \in calls : d.kind = "create" /\ Own(d) => d = c
    /\ (route \in {"login", "binding"} /\ c.k = ticket /\ ~Own(c)) => Reason

\* A login c under way, the only one: the ticket it brings was not used.
LoginOK(c) ==
    /\ route = "index"
    /\ \A d \in calls : d.kind = "login" => d = c
    /\ c.ans = "pending" =>
         /\ c.k \in Tickets /\ flow[c.k] # "none" /\ binding[c.k] = "none"
         /\ \A d \in calls : d.kind = "create" => d.k # c.k

SentOK(c) ==
    /\ c.page <= inst
    /\ c.kind = "create" => CreateOK(c)
    /\ c.kind = "login" => LoginOK(c)
    /\ c.kind = "register" => route \in {"login", "account"} /\ c.ans # "pending"
    /\ (c.kind = "status" /\ c.ans = "error") => slips > 0

FInv == IssuedOK /\ UsedOK /\ FailsForAReason /\ \A c \in calls : SentOK(c)

LEMMA FInit == ASSUME BInit PROVE FInv
<1>1. IssuedOK
  BY DEF BInit, IssuedOK
<1>2. UsedOK /\ FailsForAReason /\ \A c \in calls : SentOK(c)
  BY DEF BInit, UsedOK, FailsForAReason
<1> QED BY <1>1, <1>2 DEF FInv

\* A reason stays one, until the page has another ticket.
LEMMA ReasonKept ==
    ASSUME IInv, IssuedOK, IssuedOK', ticket' \in {0, ticket}, slips' >= slips, dropped \subseteq dropped',
           ticket # 0 /\ Live(ticket)' => Live(ticket), Reason
    PROVE  Reason'
<1>1. CASE ticket' = 0
  BY <1>1 DEF Reason
<1>2. CASE ticket' = ticket /\ ticket # 0
  BY <1>2 DEF Reason, IssuedOK, Live
<1> QED BY <1>1, <1>2

LEMMA AppendFacts ==
    ASSUME NEW s \in Seq(Outcomes), NEW key \in Outcomes
    PROVE  /\ Len(s) \in Nat /\ Len(Append(s, key)) = Len(s) + 1
           /\ Append(s, key)[Len(s) + 1] = key
OBVIOUS

\* The outcome "failed" is told by a failure.
LEMMA ToldFailed ==
    ASSUME IInv, NEW key \in Outcomes, Append(told, key) = <<"failed">>
    PROVE  key = "failed"
<1> DEFINE s == Append(told, key)
<1>1. told \in Seq(Outcomes)
  BY DEF IInv, LcOK
<1>2. Len(told) \in Nat /\ Len(s) = Len(told) + 1 /\ s[Len(told) + 1] = key
  BY <1>1, AppendFacts
<1>3. s = <<"failed">>
  OBVIOUS
<1> HIDE DEF s
<1>4. Len(s) = 1 /\ s[1] = "failed"
  BY <1>3
<1>5. Len(told) + 1 = 1
  BY <1>2, <1>4
<1> QED BY <1>2, <1>4, <1>5

\* What an action has to keep that moves the page without a creation.
LEMMA PageMoves ==
    ASSUME IInv, FInv, UNCHANGED <<rows, route, inst, ticket>>, dropped \subseteq dropped',
           slips' \in Nat, slips' >= slips, NEW N, calls' \subseteq calls \cup N,
           \A d \in N : d.kind \in {"status", "complete"} /\ d.page = inst /\ d.ans # "error",
           lc'.starting = lc.starting,
           lc'.id = 0 /\ ~lc'.stopped => lc.id = 0 /\ ~lc.stopped,
           told' = <<"failed">> => told = <<"failed">> \/ Reason'
    PROVE  FInv'
<1>1. IssuedOK'
  BY DEF FInv, IssuedOK, rows
<1>2. Reason => Reason'
  BY <1>1, ReasonKept DEF FInv, Live, rows
<1>3. UsedOK'
  BY <1>2 DEF FInv, UsedOK, rows
<1>4. FailsForAReason => (route = "binding" /\ told = <<"failed">> => Reason)
  BY DEF FailsForAReason, Reason
<1>5. FailsForAReason'
  BY <1>2, <1>4 DEF FInv, FailsForAReason, Reason
<1>6. inst \in Nat
  BY DEF IInv, PageOK
<1>7. ASSUME NEW c \in calls' PROVE SentOK(c)'
  <2>1. CASE c \in N
    BY <1>6, <2>1 DEF SentOK
  <2>2. CASE c \notin N
    <3>1. c \in calls /\ SentOK(c)
      BY <2>2 DEF FInv
    <3>2. c.kind = "create" => CreateOK(c)'
      BY <1>2, <3>1 DEF SentOK, CreateOK, Own, rows
    <3>3. c.kind = "login" => LoginOK(c)'
      BY <3>1 DEF SentOK, LoginOK, rows
    <3>4. c.kind = "status" /\ c.ans = "error" => slips' > 0
      BY <3>1 DEF SentOK, FInv, IssuedOK
    <3> QED BY <3>1, <3>2, <3>3, <3>4 DEF SentOK
  <2> QED BY <2>1, <2>2
<1> QED BY <1>1, <1>3, <1>5, <1>7 DEF FInv

LEMMA FailFacts ==
    ASSUME NEW x \in LcSet, NEW key, NEW cs, Fail(x, key, cs)
    PROVE  /\ lc'.starting = x.starting /\ lc'.id = x.id /\ lc'.stopped
           /\ told' = Append(told, key) /\ calls' = cs
<1> DEFINE y == Stop(x)
<1>1. y \in LcSet /\ y.starting = x.starting /\ y.id = x.id /\ y.stopped
  BY DEF Stop, LcSet
<1>2. lc' = [y EXCEPT !.error = TRUE]
  BY DEF Fail, Now
<1> HIDE DEF y
<1>3. lc'.starting = y.starting /\ lc'.id = y.id /\ lc'.stopped = y.stopped
  BY <1>1, <1>2 DEF LcSet
<1> QED BY <1>1, <1>3 DEF Fail, Now

\* What a poll does besides asking.
Polls(x, cs) ==
    /\ lc'.starting = x.starting /\ lc'.id = x.id
    /\ ~lc'.stopped => ~x.stopped
    /\ calls' \subseteq cs \cup {Call("status", x.id)}
    /\ told' = <<"failed">> => told = <<"failed">> \/ ticket = 0

LEMMA PollFacts ==
    ASSUME IInv, NEW x \in LcSet, NEW cs, Poll(x, cs)
    PROVE  Polls(x, cs)
<1>1. CASE Now(x, told, cs)
  BY <1>1 DEF Now, Polls
<1>2. CASE Fail(x, "expired", cs)
  <2>1. told' # <<"failed">>
    BY <1>2, FailFacts, ToldFailed DEF Outcomes
  <2> QED BY <1>2, <2>1, FailFacts DEF Polls
<1>3. CASE ticket = 0 /\ Fail(x, "failed", cs)
  BY <1>3, FailFacts DEF Polls
<1>4. CASE Now([x EXCEPT !.polling = TRUE], told, cs \cup {Call("status", x.id)})
  <2>1. lc' = [x EXCEPT !.polling = TRUE] /\ told' = told /\ calls' = cs \cup {Call("status", x.id)}
    BY <1>4 DEF Now
  <2>2. lc'.starting = x.starting /\ lc'.id = x.id /\ lc'.stopped = x.stopped
    BY <2>1 DEF LcSet
  <2> QED BY <2>1, <2>2 DEF Polls
<1> QED BY <1>1, <1>2, <1>3, <1>4 DEF Poll

LEMMA StartPollingFacts ==
    ASSUME IInv, NEW x \in LcSet, NEW cs, StartPolling(x, cs)
    PROVE  Polls(x, cs)
<1>1. CASE Now(x, told, cs)
  BY <1>1 DEF Now, Polls
<1>2. CASE Poll([x EXCEPT !.tick = TRUE], cs)
  <2> DEFINE y == [x EXCEPT !.tick = TRUE]
  <2>1. y \in LcSet /\ y.starting = x.starting /\ y.id = x.id /\ y.stopped = x.stopped
    BY DEF LcSet
  <2>2. Poll(y, cs)
    BY <1>2
  <2> HIDE DEF y
  <2>3. Polls(y, cs)
    BY <2>1, <2>2, PollFacts
  <2> QED BY <2>1, <2>3 DEF Polls
<1> QED BY <1>1, <1>2 DEF StartPolling

\* The call that a poll begins.
LEMMA StatusCall ==
    ASSUME NEW k
    PROVE  /\ Call("status", k).kind = "status" /\ Call("status", k).page = inst
           /\ Call("status", k).ans # "error"
BY DEF Call

LEMMA LcTyped == ASSUME IInv PROVE lc \in LcSet
BY DEF IInv, LcOK

LEMMA PollMoves ==
    ASSUME IInv, FInv, NEW x, Polls(x, calls), UNCHANGED <<rows, route, inst, ticket, dropped, slips>>,
           x.starting = lc.starting, x.id = lc.id, x.stopped = lc.stopped
    PROVE  FInv'
<1>1. told' = <<"failed">> => told = <<"failed">> \/ Reason'
  BY DEF Polls, Reason
<1>2. slips' \in Nat /\ slips' >= slips
  BY DEF FInv, IssuedOK
<1>3. calls' \subseteq calls \cup {Call("status", x.id)}
  BY DEF Polls
<1>4. lc'.starting = lc.starting /\ (lc'.id = 0 /\ ~lc'.stopped => lc.id = 0 /\ ~lc.stopped)
  BY DEF Polls
<1>5. UNCHANGED <<rows, route, inst, ticket>> /\ dropped \subseteq dropped'
  OBVIOUS
<1> DEFINE N == {Call("status", x.id)}
<1>6. \A d \in N : d.kind \in {"status", "complete"} /\ d.page = inst /\ d.ans # "error"
  BY StatusCall
<1>7. calls' \subseteq calls \cup N
  BY <1>3
<1> HIDE DEF N
<1> QED BY <1>1, <1>2, <1>4, <1>5, <1>6, <1>7, PageMoves

LEMMA QuietMoves ==
    ASSUME IInv, FInv, UNCHANGED <<rows, route, inst, ticket>>, dropped \subseteq dropped',
           slips' \in Nat, slips' >= slips, calls' \subseteq calls,
           lc'.starting = lc.starting,
           lc'.id = 0 /\ ~lc'.stopped => lc.id = 0 /\ ~lc.stopped,
           told' = <<"failed">> => told = <<"failed">> \/ Reason'
    PROVE  FInv'
<1>1. PICK N : N = {}
  OBVIOUS
<1>2. calls' \subseteq calls \cup N /\ \A d \in N : d.kind \in {"status", "complete"} /\ d.page = inst /\ d.ans # "error"
  BY <1>1
<1> QED BY <1>2, PageMoves

\* The page creates a binding: it has lost the one it had, if any.
LEMMA FShow == ASSUME IInv, FInv, Show PROVE FInv'
<1> DEFINE x == [lc EXCEPT !.fg = TRUE]
<1>1. x \in LcSet /\ x.starting = lc.starting /\ x.id = lc.id /\ x.stopped = lc.stopped
  BY LcTyped DEF LcSet
<1>2. UNCHANGED <<rows, route, inst, ticket, dropped, slips>> /\ route = "binding" /\ ~lc.stopped
  BY DEF Show
<1>3. slips' \in Nat /\ slips' >= slips
  BY <1>2 DEF FInv, IssuedOK
<1>4. \/ StartPolling(x, calls)
      \/ Now(x, told, calls)
      \/ lc.id = 0 /\ ~lc.starting /\ CreateBinding(x)
  BY DEF Show, ShowLc, Creating
<1> HIDE DEF x
<1>5. CASE StartPolling(x, calls)
  BY <1>1, <1>2, <1>5, StartPollingFacts, PollMoves
<1>6. CASE Now(x, told, calls)
  BY <1>1, <1>2, <1>3, <1>6, QuietMoves DEF Now
<1>7. CASE ticket = 0 /\ Fail(x, "failed", calls)
  <2>1. Reason'
    BY <1>2, <1>7 DEF Reason
  <2> QED BY <1>1, <1>2, <1>3, <1>7, <2>1, FailFacts, QuietMoves
<1>8. CASE lc.id = 0 /\ ~lc.starting /\ ticket # 0
           /\ Now([x EXCEPT !.starting = TRUE], told, calls \cup {Call("create", ticket)})
  <2>0. PICK d : d = Call("create", ticket)
    OBVIOUS
  <2>1. d.kind = "create" /\ d.page = inst /\ d.k = ticket
    BY <2>0 DEF Call
  <2>2. calls' = calls \cup {d} /\ told' = told /\ lc'.starting
    BY <1>1, <1>8, <2>0 DEF Now, LcSet
  <2>3. Reason
    BY <1>2, <1>8 DEF FInv, UsedOK
  <2>4. IssuedOK'
    BY <1>2 DEF FInv, IssuedOK, rows
  <2>5. Reason'
    BY <1>2, <1>3, <2>3, <2>4, ReasonKept DEF FInv, Live, rows
  <2>6. UsedOK' /\ FailsForAReason'
    BY <1>2, <2>5 DEF UsedOK, FailsForAReason, Reason
  <2>7. \A c \in calls : c.kind = "create" => ~Own(c)
    BY <1>8 DEF FInv, SentOK, CreateOK
  <2>8. ASSUME NEW c \in calls' PROVE SentOK(c)'
    <3>1. CASE c = d
      <4>1. CreateOK(d)'
        BY <1>2, <1>8, <2>1, <2>2, <2>5, <2>7 DEF CreateOK, Own, FInv, IssuedOK, rows
      <4> QED BY <1>2, <2>1, <3>1, <4>1 DEF SentOK, IInv, PageOK
    <3>2. CASE c # d
      <4>1. c \in calls /\ SentOK(c)
        BY <2>2, <3>2 DEF FInv
      <4>2. c.kind = "create" => CreateOK(c)'
        BY <1>2, <2>5, <2>7, <4>1 DEF SentOK, CreateOK, Own, rows
      <4> QED BY <1>2, <4>1, <4>2 DEF SentOK, LoginOK
    <3> QED BY <3>1, <3>2
  <2> QED BY <2>4, <2>6, <2>8 DEF FInv
<1> QED BY <1>1, <1>4, <1>5, <1>6, <1>7, <1>8 DEF CreateBinding

LEMMA FHide == ASSUME IInv, FInv, Hide PROVE FInv'
<1>1. lc'.starting = lc.starting /\ lc'.id = lc.id /\ lc'.stopped = lc.stopped
  BY LcTyped DEF Hide, LcSet
<1> QED BY <1>1, QuietMoves DEF Hide, FInv, IssuedOK

LEMMA FDeadline == ASSUME IInv, FInv, Deadline PROVE FInv'
<1>1. lc'.starting = lc.starting /\ lc'.id = lc.id /\ lc'.stopped = lc.stopped
  BY LcTyped DEF Deadline, LcSet
<1> QED BY <1>1, QuietMoves DEF Deadline, FInv, IssuedOK

LEMMA FTick == ASSUME IInv, FInv, Tick PROVE FInv'
<1>1. Polls(lc, calls)
  BY LcTyped, PollFacts DEF Tick
<1> QED BY <1>1, PollMoves DEF Tick

\* The deadline and the web view tell other outcomes.
LEMMA FOther ==
    ASSUME IInv, FInv, Alarm \/ WebViewFailed
    PROVE  FInv'
<1>1. /\ UNCHANGED <<rows, route, inst, ticket, dropped>> /\ slips' \in Nat /\ slips' >= slips
      /\ Fail(lc, "expired", calls) \/ Fail(lc, "webview", calls)
  BY DEF Alarm, WebViewFailed, FInv, IssuedOK
<1>2. told' # <<"failed">>
  BY <1>1, LcTyped, FailFacts, ToldFailed DEF Outcomes
<1> QED BY <1>1, <1>2, LcTyped, FailFacts, QuietMoves

LEMMA FConnect == ASSUME IInv, FInv, Connect PROVE FInv'
<1>0. PICK d : d = Call("login", 0)
  OBVIOUS
<1>1. d.kind = "login" /\ d.page = inst /\ d.ans = "none"
  BY <1>0 DEF Call
<1>2. calls' = calls \cup {d} /\ route = "index" /\ (\A c \in calls : c.kind # "login")
      /\ UNCHANGED <<rows, route, inst, ticket, lc, told, slips, dropped>>
  BY <1>0 DEF Connect
<1>3. IssuedOK' /\ UsedOK' /\ FailsForAReason'
  BY <1>2 DEF FInv, IssuedOK, UsedOK, FailsForAReason, rows
<1>4. ASSUME NEW c \in calls' PROVE SentOK(c)'
  <2>1. CASE c = d
    BY <1>1, <1>2, <2>1 DEF SentOK, LoginOK, IInv, PageOK
  <2>2. CASE c # d
    <3>1. c \in calls /\ SentOK(c) /\ c.kind # "login"
      BY <1>2, <2>2 DEF FInv
    <3>2. c.kind = "create" => CreateOK(c)'
      BY <1>2, <3>1 DEF SentOK, CreateOK, Own, rows
    <3> QED BY <1>2, <3>1, <3>2 DEF SentOK
  <2> QED BY <2>1, <2>2
<1> QED BY <1>3, <1>4 DEF FInv

LEMMA FRegister == ASSUME IInv, FInv, Register PROVE FInv'
<1>0. PICK d : d = Call("register", ticket)
  OBVIOUS
<1>1. d.kind = "register" /\ d.page = inst /\ d.ans # "pending"
  BY <1>0 DEF Call
<1>2. calls' = calls \cup {d} /\ route = "login"
      /\ UNCHANGED <<rows, route, inst, ticket, lc, told, slips, dropped>>
  BY <1>0 DEF Register
<1>3. Reason' <=> Reason
  BY <1>2 DEF Reason, Live, rows
<1>4. IssuedOK' /\ UsedOK' /\ FailsForAReason'
  BY <1>2, <1>3 DEF FInv, IssuedOK, UsedOK, FailsForAReason, rows
<1>5. ASSUME NEW c \in calls' PROVE SentOK(c)'
  <2>1. CASE c = d
    BY <1>1, <1>2, <2>1 DEF SentOK, IInv, PageOK
  <2>2. CASE c # d
    <3>1. c \in calls /\ SentOK(c) /\ c.kind # "login"
      BY <1>2, <2>2 DEF FInv, SentOK, LoginOK
    <3>2. c.kind = "create" => CreateOK(c)'
      BY <1>2, <1>3, <3>1 DEF SentOK, CreateOK, Own, rows
    <3> QED BY <1>2, <3>1, <3>2 DEF SentOK
  <2> QED BY <2>1, <2>2
<1> QED BY <1>4, <1>5 DEF FInv

LEMMA FOpen == ASSUME IInv, FInv, OpenBinding PROVE FInv'
<1>0. PICK d : d = [Call("create", ticket) EXCEPT !.page = inst + 1]
  OBVIOUS
<1>1. d.kind = "create" /\ d.page = inst + 1 /\ d.k = ticket /\ d.at = "sent" /\ d.ans = "none"
  BY <1>0 DEF Call
<1>2. /\ calls' = calls \cup {d} /\ inst' = inst + 1 /\ route = "login" /\ route' = "binding"
      /\ told' = <<>> /\ ticket # 0 /\ UNCHANGED <<rows, ticket, slips, dropped>>
      /\ \A c \in calls : c.kind # "register"
  BY <1>0 DEF OpenBinding, Registering
<1>3. lc'.starting
  BY NewLcSet DEF OpenBinding, LcSet
<1>4. Reason' <=> Reason
  BY <1>2 DEF Reason, Live, rows
<1>5. inst \in Nat /\ ticket \in Tickets
  BY <1>2 DEF IInv, PageOK, Numbers, Tickets
<1>6. IssuedOK'
  BY <1>2, <1>5 DEF FInv, IssuedOK, rows
<1>7. UsedOK' /\ FailsForAReason'
  <2>1. told' # <<"failed">>
    BY <1>2
  <2> QED BY <1>2, <1>3, <2>1 DEF UsedOK, FailsForAReason
<1>8. ASSUME NEW c \in calls, c.kind = "create" PROVE ~Own(c)' /\ (c.k = ticket => Reason) /\ flow[c.k] # "none"
  <2>1. c.page \in Nat /\ c.page <= inst
    BY DEF FInv, SentOK, IInv, CallsOK, CallOK, CallSet
  <2>2. ~Own(c)'
    BY <1>2, <1>5, <2>1 DEF Own
  <2> QED BY <1>2, <1>8, <2>2 DEF FInv, SentOK, CreateOK, Own
<1>9. ASSUME NEW c \in calls' PROVE SentOK(c)'
  <2>1. CASE c = d
    <3>1. Reason \/ binding[ticket] = "none"
      BY <1>2 DEF FInv, UsedOK
    <3>2. CreateOK(d)'
      BY <1>1, <1>2, <1>3, <1>4, <1>8, <3>1 DEF CreateOK, Own, FInv, IssuedOK, rows
    <3> QED BY <1>1, <1>2, <1>5, <2>1, <3>2 DEF SentOK
  <2>2. CASE c # d
    <3>1. c \in calls /\ SentOK(c) /\ c.kind # "login" /\ c.kind # "register"
      BY <1>2, <2>2 DEF FInv, SentOK, LoginOK
    <3>2. c.kind = "create" => CreateOK(c)'
      BY <1>2, <1>4, <1>8, <3>1 DEF CreateOK, rows
    <3>3. c.page \in Nat /\ c.page <= inst
      BY <3>1 DEF SentOK, IInv, CallsOK, CallOK, CallSet
    <3> QED BY <1>2, <1>5, <3>1, <3>2, <3>3 DEF SentOK
  <2> QED BY <2>1, <2>2
<1> QED BY <1>6, <1>7, <1>9 DEF FInv

\* Leaving by Back is a reason.
LEMMA FBack == ASSUME IInv, FInv, Back PROVE FInv'
<1>1. /\ route = "binding" /\ route' = "login" /\ dropped' = dropped \cup {ticket}
      /\ UNCHANGED <<rows, inst, ticket, slips>> /\ calls' \subseteq calls
  BY DEF Back, Unload, Now
<1>2. Reason'
  BY <1>1 DEF Reason
<1>3. IssuedOK' /\ UsedOK' /\ FailsForAReason'
  BY <1>1, <1>2 DEF FInv, IssuedOK, UsedOK, FailsForAReason, rows
<1>4. ASSUME NEW c \in calls' PROVE SentOK(c)'
  <2>1. c \in calls /\ SentOK(c) /\ c.kind # "login"
    BY <1>1 DEF FInv, SentOK, LoginOK
  <2>2. c.kind = "create" => CreateOK(c)'
    BY <1>1, <1>2, <2>1 DEF SentOK, CreateOK, Own, rows
  <2> QED BY <1>1, <2>1, <2>2 DEF SentOK
<1> QED BY <1>3, <1>4 DEF FInv

LEMMA FRestart == ASSUME IInv, FInv, Restart PROVE FInv'
<1>1. /\ route \in {"binding", "login"} /\ route' = "index" /\ ticket' = 0
      /\ UNCHANGED <<rows, inst, slips, dropped>> /\ calls' \subseteq calls
  BY DEF Restart, Unload, Now
<1>2. \A c \in calls : c.kind # "register"
  BY DEF Restart, Registering, FInv, SentOK
<1>3. IssuedOK' /\ UsedOK' /\ FailsForAReason'
  BY <1>1 DEF FInv, IssuedOK, UsedOK, FailsForAReason, rows
<1>4. ASSUME NEW c \in calls' PROVE SentOK(c)'
  <2>1. c \in calls /\ SentOK(c) /\ c.kind # "login"
    BY <1>1 DEF FInv, SentOK, LoginOK
  <2>2. c.kind = "create" => CreateOK(c)'
    BY <1>1, <2>1 DEF SentOK, CreateOK, Own, rows
  <2> QED BY <1>1, <1>2, <2>1, <2>2 DEF SentOK
<1> QED BY <1>3, <1>4 DEF FInv

-----------------------------------------------------------------------------
(* The server. *)

\* A call is answered, and nothing else happens.
LEMMA Replaced ==
    ASSUME IInv, FInv, NEW c \in calls, NEW d, calls' = (calls \ {c}) \cup {d},
           d.kind = c.kind, d.page = c.page, d.k = c.k \/ d.kind # "create",
           UNCHANGED <<rows, route, inst, ticket, lc, told, dropped>>,
           slips' \in Nat, slips' >= slips,
           d.kind = "create" => Reason',
           d.kind \in {"login", "register"} => d.ans # "pending",
           d.kind = "status" /\ d.ans = "error" => slips' > 0
    PROVE  FInv'
<1>1. IssuedOK'
  BY DEF FInv, IssuedOK, rows
<1>2. Reason => Reason'
  BY <1>1, ReasonKept DEF FInv, Live, rows
<1>3. UsedOK'
  BY <1>2 DEF FInv, UsedOK, rows
<1>4. FailsForAReason'
  BY <1>2 DEF FInv, FailsForAReason, Reason
<1>5. SentOK(c)
  BY DEF FInv
<1>6. ASSUME NEW e \in calls' PROVE SentOK(e)'
  <2>1. CASE e = d
    <3>1. d.kind = "create" => CreateOK(d)'
      BY <1>5 DEF SentOK, CreateOK, Own, rows
    <3>2. d.kind = "login" => LoginOK(d)'
      BY <1>5 DEF SentOK, LoginOK
    <3> QED BY <1>5, <2>1, <3>1, <3>2 DEF SentOK
  <2>2. CASE e # d
    <3>1. e \in calls /\ e # c /\ SentOK(e)
      BY <2>2 DEF FInv
    <3>2. e.kind = "create" => CreateOK(e)'
      BY <1>2, <1>5, <3>1 DEF SentOK, CreateOK, Own, rows
    <3>3. e.kind = "login" => LoginOK(e)'
      BY <1>5, <3>1 DEF SentOK, LoginOK, rows
    <3>4. e.kind = "status" /\ e.ans = "error" => slips' > 0
      BY <3>1 DEF SentOK, FInv, IssuedOK
    <3> QED BY <3>1, <3>2, <3>3, <3>4 DEF SentOK
  <2> QED BY <2>1, <2>2
<1> QED BY <1>1, <1>3, <1>4, <1>6 DEF FInv

LEMMA CallTyped == ASSUME IInv, NEW c \in calls PROVE c \in CallSet
BY DEF IInv, CallsOK, CallOK

LEMMA FLose == ASSUME IInv, FInv, NEW c \in calls, Lose(c) PROVE FInv'
<1>1. PICK d : d = [c EXCEPT !.at = "done", !.ans = "error"]
  OBVIOUS
<1>2. d.kind = c.kind /\ d.page = c.page /\ d.k = c.k /\ d.ans = "error"
  BY <1>1, CallTyped DEF CallSet
<1>3. /\ calls' = (calls \ {c}) \cup {d} /\ slips' = slips + 1
      /\ UNCHANGED <<rows, route, inst, ticket, lc, told, dropped>>
  BY <1>1 DEF Lose
<1>4. slips' \in Nat /\ slips' >= slips /\ slips' > 0
  BY <1>3 DEF FInv, IssuedOK
<1>5. Reason'
  BY <1>4 DEF Reason
<1> QED BY <1>2, <1>3, <1>4, <1>5, Replaced

\* A new ticket has no binding, and no creation asks for one.
LEMMA FLoginServed == ASSUME IInv, FInv, NEW c \in calls, c.kind \in {"login", "complete"}, StartMiniAppLogin(c),
                             UNCHANGED <<route, inst, ticket, lc, told, slips, dropped>>
                      PROVE  FInv'
<1>0. c \in CallSet /\ SentOK(c)
  BY CallTyped DEF FInv
<1>1. CASE owner # NoAcct
  <2>1. PICK d : d = [c EXCEPT !.at = "done", !.ans = "ok", !.user = owner]
    OBVIOUS
  <2>2. d.kind = c.kind /\ d.page = c.page /\ d.ans = "ok"
    BY <1>0, <2>1 DEF CallSet
  <2>3. calls' = (calls \ {c}) \cup {d} /\ UNCHANGED rows
    BY <1>1, <2>1 DEF StartMiniAppLogin
  <2>4. slips' \in Nat /\ slips' >= slips
    BY DEF FInv, IssuedOK
  <2> QED BY <2>2, <2>3, <2>4, Replaced
<1>2. CASE owner = NoAcct
  <2>1. PICK k \in Tickets : /\ flow[k] = "none" /\ flow' = [flow EXCEPT ![k] = "live"]
                             /\ calls' = (calls \ {c}) \cup {[c EXCEPT !.at = "done", !.ans = "pending", !.k = k]}
                             /\ UNCHANGED <<lapsed, binding>>
    BY <1>2 DEF StartMiniAppLogin
  <2>2. PICK d : d = [c EXCEPT !.at = "done", !.ans = "pending", !.k = k]
    OBVIOUS
  <2>3. c.kind = "login"
    BY <1>2 DEF IInv, CallsOK, CallOK
  <2>4. d.kind = "login" /\ d.page = c.page /\ d.ans = "pending" /\ d.k = k
    BY <1>0, <2>2, <2>3 DEF CallSet
  <2>5. calls' = (calls \ {c}) \cup {d} /\ route = "index" /\ ticket = 0
    BY <1>0, <2>1, <2>2, <2>3 DEF SentOK, LoginOK, FInv, IssuedOK
  <2>6. flow' \in [Tickets -> {"none", "live", "consumed"}] /\ flow'[k] # "none"
        /\ \A j \in Tickets : flow[j] # "none" => flow'[j] # "none"
    BY <2>1 DEF FInv, IssuedOK
  <2>7. IssuedOK' /\ UsedOK' /\ FailsForAReason'
    BY <2>1, <2>5, <2>6 DEF FInv, IssuedOK, UsedOK, FailsForAReason
  <2>8. ASSUME NEW e \in calls, e.kind = "create" PROVE e.k \in Tickets /\ e.k # k /\ flow'[e.k] # "none"
    <3>1. e.k \in Tickets /\ flow[e.k] # "none"
      BY <2>8 DEF IInv, CallsOK, CallOK, FInv, SentOK, CreateOK
    <3> QED BY <2>1, <2>6, <3>1
  <2>9. ASSUME NEW e \in calls' PROVE SentOK(e)'
    <3>1. CASE e = d
      <4>1. LoginOK(d)'
        BY <1>0, <2>1, <2>3, <2>4, <2>5, <2>6, <2>8 DEF SentOK, LoginOK, FInv, IssuedOK
      <4> QED BY <1>0, <2>4, <3>1, <4>1 DEF SentOK
    <3>2. CASE e # d
      <4>1. e \in calls /\ e # c /\ SentOK(e) /\ e.kind # "login"
        BY <1>0, <2>3, <2>5, <3>2 DEF FInv, SentOK, LoginOK
      <4>2. e.kind = "create" => CreateOK(e)'
        BY <2>5, <2>8, <4>1 DEF CreateOK, Own
      <4> QED BY <4>1, <4>2 DEF SentOK
    <3> QED BY <3>1, <3>2
  <2> QED BY <2>7, <2>9 DEF FInv
<1> QED BY <1>1, <1>2

LEMMA FCreateServed == ASSUME IInv, FInv, NEW c \in calls, c.kind = "create", c.at = "sent", CreateMiniAppBinding(c),
                              UNCHANGED <<route, inst, ticket, lc, told, slips, dropped>>
                       PROVE  FInv'
<1>0. c \in CallSet /\ SentOK(c) /\ CreateOK(c) /\ c.k \in Tickets
  BY CallTyped DEF FInv, SentOK, IInv, CallsOK, CallOK
<1>1. slips' \in Nat /\ slips' >= slips /\ UNCHANGED <<flow, lapsed, boundTo, owner>>
  BY DEF FInv, IssuedOK, CreateMiniAppBinding
<1>2. Reason' <=> Reason
  BY <1>1 DEF Reason, Live
<1>3. CASE Live(c.k) /\ binding[c.k] = "none"
  <2>1. PICK d : d = [c EXCEPT !.at = "done", !.ans = "ok"]
    OBVIOUS
  <2>2. d.kind = "create" /\ d.page = c.page /\ d.k = c.k /\ d.ans = "ok" /\ d.at = "done"
    BY <1>0, <2>1 DEF CallSet
  <2>3. calls' = (calls \ {c}) \cup {d} /\ binding' = [binding EXCEPT ![c.k] = "pending"]
    BY <1>3, <2>1 DEF CreateMiniAppBinding
  <2>4. \A j \in Tickets : j # c.k => binding'[j] = binding[j]
    BY <2>3 DEF IInv, RowsOK
  <2>5. IssuedOK'
    BY <1>0, <1>1, <2>4 DEF FInv, IssuedOK, CreateOK
  <2>6. UsedOK'
    BY <1>0, <1>2, <2>4 DEF FInv, UsedOK, CreateOK, Own, IInv, PageOK, Numbers, Tickets
  <2>7. FailsForAReason'
    BY <1>2 DEF FInv, FailsForAReason, Reason
  <2>8. ASSUME NEW e \in calls' PROVE SentOK(e)'
    <3>1. CASE e = d
      <4>1. CreateOK(d)'
        BY <1>0, <1>1, <1>2, <2>2, <2>3 DEF CreateOK, Own
      <4> QED BY <1>0, <2>2, <3>1, <4>1 DEF SentOK
    <3>2. CASE e # d
      <4>1. e \in calls /\ e # c /\ SentOK(e)
        BY <2>3, <3>2 DEF FInv
      <4>2. ASSUME e.kind = "create" PROVE CreateOK(e)'
        <5>1. CreateOK(e) /\ e.k \in Tickets
          BY <4>1, <4>2 DEF SentOK, IInv, CallsOK, CallOK
        <5>2. ASSUME Own(e) PROVE ~Own(c) /\ (e.k # c.k \/ Reason \/ e.k # ticket) /\ ~Own(d)
          <6>1. ~Own(c)
            BY <4>1, <4>2, <5>1, <5>2 DEF CreateOK
          <6>2. route = "binding"
            BY <5>2 DEF Own
          <6>3. c.k = ticket => Reason
            BY <1>0, <6>1, <6>2 DEF CreateOK
          <6> QED BY <2>2, <6>1, <6>3 DEF Own
        <5>3. Own(e)' => Own(e)
          BY DEF Own
        <5>4. Own(e) => (Reason \/ (e.k = ticket /\ e.ans # "error" /\ (e.at = "sent" => binding'[e.k] = "none")))
          BY <2>4, <5>1, <5>2 DEF CreateOK
        <5>5. Own(e) => \A x \in calls' : x.kind = "create" /\ Own(x)' => x = e
          BY <2>3, <5>1, <5>2 DEF CreateOK, Own
        <5> QED BY <1>1, <1>2, <5>1, <5>3, <5>4, <5>5 DEF CreateOK, Own
      <4>3. e.kind = "login" => LoginOK(e)'
        BY <1>1, <2>2, <2>3, <2>4, <4>1 DEF SentOK, LoginOK
      <4> QED BY <4>1, <4>2, <4>3 DEF SentOK
    <3> QED BY <3>1, <3>2
  <2> QED BY <2>5, <2>6, <2>7, <2>8 DEF FInv
<1>4. CASE ~(Live(c.k) /\ binding[c.k] = "none")
  <2>1. PICK d : d = [c EXCEPT !.at = "done", !.ans = "error"]
    OBVIOUS
  <2>2. d.kind = "create" /\ d.page = c.page /\ d.k = c.k /\ d.ans = "error" /\ d.at = "done"
    BY <1>0, <2>1 DEF CallSet
  <2>3. calls' = (calls \ {c}) \cup {d} /\ UNCHANGED rows
    BY <1>1, <1>4, <2>1 DEF CreateMiniAppBinding, rows
  <2>4. Own(c) => Reason
    BY <1>0, <1>4 DEF CreateOK, Reason
  <2>5. IssuedOK'
    BY <2>3 DEF FInv, IssuedOK, rows
  <2>6. UsedOK' /\ FailsForAReason'
    BY <1>2, <2>3 DEF FInv, UsedOK, FailsForAReason, Reason, rows
  <2>7. ASSUME NEW e \in calls' PROVE SentOK(e)'
    <3>1. CASE e = d
      <4>1. CreateOK(d)'
        BY <1>0, <1>2, <2>2, <2>3, <2>4 DEF CreateOK, Own, rows
      <4> QED BY <1>0, <2>2, <3>1, <4>1 DEF SentOK
    <3>2. CASE e # d
      <4>1. e \in calls /\ e # c /\ SentOK(e)
        BY <2>3, <3>2 DEF FInv
      <4>2. e.kind = "create" => CreateOK(e)'
        BY <1>0, <1>2, <2>2, <2>3, <4>1 DEF SentOK, CreateOK, Own, rows
      <4>3. e.kind = "login" => LoginOK(e)'
        BY <2>2, <2>3, <4>1 DEF SentOK, LoginOK, rows
      <4> QED BY <4>1, <4>2, <4>3 DEF SentOK
    <3> QED BY <3>1, <3>2
  <2> QED BY <2>5, <2>6, <2>7 DEF FInv
<1> QED BY <1>3, <1>4

LEMMA FStatusServed == ASSUME IInv, FInv, NEW c \in calls, c.kind = "status", GetMiniAppBindingStatus(c),
                              UNCHANGED <<route, inst, ticket, lc, told, slips, dropped>>
                       PROVE  FInv'
<1>1. PICK d : d = [c EXCEPT !.at = "done", !.ans = BindingStatus(c.k)]
  OBVIOUS
<1>2. BindingStatus(c.k) # "error"
  BY DEF BindingStatus
<1>3. d.kind = "status" /\ d.page = c.page /\ d.ans # "error"
  BY <1>1, <1>2, CallTyped DEF CallSet
<1>4. calls' = (calls \ {c}) \cup {d} /\ UNCHANGED rows
  BY <1>1 DEF GetMiniAppBindingStatus
<1>5. slips' \in Nat /\ slips' >= slips
  BY DEF FInv, IssuedOK
<1> QED BY <1>3, <1>4, <1>5, Replaced

\* Rows that are issued, used and no longer live stay so.
LEMMA RowsMove ==
    ASSUME IInv, FInv, UNCHANGED <<route, inst, ticket, lc, told, slips, dropped>>,
           flow' \in [Tickets -> {"none", "live", "consumed"}],
           \A k \in Tickets : /\ flow'[k] = "none" <=> flow[k] = "none"
                              /\ binding'[k] = "none" <=> binding[k] = "none"
                              /\ Live(k)' => Live(k),
           NEW c, NEW d, calls' = calls \/ (c \in calls /\ calls' = (calls \ {c}) \cup {d}),
           calls' # calls => c.kind = "register" /\ d.kind = "register" /\ d.page = c.page /\ d.ans # "pending"
    PROVE  FInv'
<1>1. ticket # 0 => ticket \in Tickets
  BY DEF IInv, PageOK, Numbers, Tickets
<1>2. IssuedOK'
  BY <1>1 DEF FInv, IssuedOK
<1>3. ticket # 0 /\ Live(ticket)' => Live(ticket)
  BY <1>1 DEF Live
<1>4. slips' >= slips /\ ticket' \in {0, ticket} /\ dropped \subseteq dropped'
  BY DEF FInv, IssuedOK
<1>5. Reason => Reason'
  BY <1>2, <1>3, <1>4, ReasonKept DEF FInv
<1>6. UsedOK'
  BY <1>1, <1>5 DEF FInv, UsedOK
<1>7. FailsForAReason'
  BY <1>5 DEF FInv, FailsForAReason, Reason
<1>8. ASSUME NEW e \in calls' PROVE SentOK(e)'
  <2>1. CASE e \in calls
    <3>1. SentOK(e) /\ (e.kind = "create" => e.k \in Tickets)
      BY <2>1 DEF FInv, IInv, CallsOK, CallOK
    <3>2. ASSUME NEW x \in calls', x.kind # "register" PROVE x \in calls
      BY <3>2
    <3>3. e.kind = "create" => CreateOK(e)'
      BY <1>5, <3>1, <3>2 DEF SentOK, CreateOK, Own
    <3>4. e.kind = "login" => LoginOK(e)'
      BY <3>1, <3>2 DEF SentOK, LoginOK
    <3> QED BY <3>1, <3>3, <3>4 DEF SentOK
  <2>2. CASE e \notin calls
    <3>1. e = d /\ d.kind = "register" /\ c.kind = "register" /\ c \in calls /\ d.page = c.page /\ d.ans # "pending"
      BY <2>2
    <3>2. SentOK(c)
      BY <3>1 DEF FInv
    <3> QED BY <3>1, <3>2 DEF SentOK
  <2> QED BY <2>1, <2>2
<1> QED BY <1>2, <1>6, <1>7, <1>8 DEF FInv

LEMMA FRegisterServed == ASSUME IInv, FInv, NEW c \in calls, c.kind = "register", RegisterMiniAppUser(c),
                                UNCHANGED <<route, inst, ticket, lc, told, slips, dropped>>
                         PROVE  FInv'
<1> DEFINE ok == Live(c.k) /\ owner = NoAcct
<1>1. PICK d : d = [c EXCEPT !.at = "done", !.ans = IF ok THEN "ok" ELSE "error",
                             !.user = IF ok THEN NewAcct ELSE NoAcct]
  OBVIOUS
<1>2. d.kind = "register" /\ d.page = c.page /\ d.ans # "pending"
  BY <1>1, CallTyped DEF CallSet
<1>3. calls' = (calls \ {c}) \cup {d} /\ UNCHANGED <<lapsed, binding>>
      /\ flow' = IF ok THEN [flow EXCEPT ![c.k] = "consumed"] ELSE flow
  BY <1>1 DEF RegisterMiniAppUser
<1>4. c.k \in Tickets /\ flow \in [Tickets -> {"none", "live", "consumed"}]
  BY DEF IInv, CallsOK, CallOK, FInv, IssuedOK
<1>5. /\ flow' \in [Tickets -> {"none", "live", "consumed"}]
      /\ \A k \in Tickets : /\ flow'[k] = "none" <=> flow[k] = "none"
                            /\ binding'[k] = "none" <=> binding[k] = "none"
                            /\ Live(k)' => Live(k)
  BY <1>3, <1>4 DEF Live
<1> HIDE DEF ok
<1> QED BY <1>2, <1>3, <1>5, RowsMove

\* Time, the confirmation in the browser and the cleanup.
LEMMA FRows ==
    ASSUME IInv, FInv, NEW k \in Tickets, NEW u,
           Lapse(k) \/ ExpireMiniAppBindings(k) \/ ConfirmMiniAppBinding(k, u)
    PROVE  FInv'
<1>1. UNCHANGED <<route, inst, ticket, lc, told, calls, slips, dropped>>
  BY DEF Lapse, ExpireMiniAppBindings, ConfirmMiniAppBinding
<1>2. /\ flow \in [Tickets -> {"none", "live", "consumed"}]
      /\ binding \in [Tickets -> {"none", "pending", "bound", "expired"}]
  BY DEF FInv, IssuedOK, IInv, RowsOK
<1>3. /\ flow' \in [Tickets -> {"none", "live", "consumed"}]
      /\ \A j \in Tickets : /\ flow'[j] = "none" <=> flow[j] = "none"
                            /\ binding'[j] = "none" <=> binding[j] = "none"
                            /\ Live(j)' => Live(j)
  BY <1>2 DEF Lapse, ExpireMiniAppBindings, ConfirmMiniAppBinding, Live
<1>4. calls' = calls
  BY <1>1
<1> QED BY <1>1, <1>3, <1>4, RowsMove

LEMMA FServe == ASSUME IInv, FInv, NEW c \in calls, Serve(c) PROVE FInv'
BY FLoginServed, FCreateServed, FStatusServed, FRegisterServed DEF Serve

-----------------------------------------------------------------------------
(* Answers. *)

\* The login brings a ticket that was not used.
LEMMA FLoginReceived == ASSUME IInv, FInv, NEW c \in calls, LoginReceive(c) PROVE FInv'
<1>1. SentOK(c) /\ c.kind \in {"login", "register"}
  BY DEF FInv, LoginReceive
<1>2. calls' = calls \ {c} /\ UNCHANGED <<rows, inst, lc, told, slips, dropped>>
  BY DEF LoginReceive
<1>3. \/ c.ans = "ok" /\ ticket' = 0 /\ route' = "account"
      \/ c.kind = "login" /\ c.ans = "pending" /\ ticket' = c.k /\ route' = "login"
      \/ ticket' = ticket /\ route' = route
  BY <1>1 DEF LoginReceive, Keep, SentOK
<1>4. route \in {"index", "login", "account"}
  BY <1>1 DEF SentOK, LoginOK
<1>5. route' # "binding"
  BY <1>3, <1>4
<1>6. FailsForAReason'
  BY <1>5 DEF FailsForAReason
<1>7. CASE c.ans = "ok" /\ ticket' = 0 /\ route' = "account"
  <2>1. IssuedOK' /\ UsedOK'
    BY <1>2, <1>7 DEF FInv, IssuedOK, UsedOK, rows
  <2>2. ASSUME NEW e \in calls' PROVE SentOK(e)'
    <3>1. e \in calls /\ e # c /\ SentOK(e) /\ e.kind # "login"
      BY <1>1, <1>2 DEF FInv, SentOK, LoginOK
    <3>2. e.kind = "create" => CreateOK(e)'
      BY <1>2, <1>7, <3>1 DEF SentOK, CreateOK, Own, rows
    <3> QED BY <1>2, <1>7, <3>1, <3>2 DEF SentOK
  <2> QED BY <1>6, <2>1, <2>2 DEF FInv
<1>8. CASE c.kind = "login" /\ c.ans = "pending" /\ ticket' = c.k /\ route' = "login"
  <2>1. /\ c.k \in Tickets /\ flow[c.k] # "none" /\ binding[c.k] = "none" /\ route = "index"
        /\ \A d \in calls : d.kind = "create" => d.k # c.k
        /\ \A d \in calls : d.kind = "login" => d = c
    BY <1>1, <1>8 DEF SentOK, LoginOK
  <2>2. IssuedOK' /\ UsedOK'
    BY <1>2, <1>8, <2>1 DEF FInv, IssuedOK, UsedOK, rows
  <2>3. ASSUME NEW e \in calls' PROVE SentOK(e)'
    <3>1. e \in calls /\ SentOK(e) /\ e.kind # "login" /\ e.kind # "register"
      BY <1>2, <2>1 DEF FInv, SentOK
    <3>2. e.kind = "create" => CreateOK(e)'
      BY <1>2, <1>8, <2>1, <3>1 DEF SentOK, CreateOK, Own, rows
    <3> QED BY <1>2, <3>1, <3>2 DEF SentOK
  <2> QED BY <1>6, <2>2, <2>3 DEF FInv
<1>9. CASE ticket' = ticket /\ route' = route
  <2>1. lc' = lc /\ told' = told /\ calls' \subseteq calls /\ slips' \in Nat /\ slips' >= slips
    BY <1>2 DEF FInv, IssuedOK
  <2> QED BY <1>2, <1>9, <2>1, QuietMoves
<1> QED BY <1>3, <1>7, <1>8, <1>9

LEMMA FCompleteReceived == ASSUME IInv, FInv, NEW c \in calls, CompleteReceive(c) PROVE FInv'
<1>1. c.kind = "complete" /\ c.ans # "pending"
  BY DEF CompleteReceive, IInv, CallsOK, CallOK
<1>2. calls' = calls \ {c} /\ UNCHANGED <<rows, inst, slips, dropped>>
  BY DEF CompleteReceive, Now
<1>3. ticket' = 0 \/ ticket' = ticket
  BY <1>1 DEF CompleteReceive, Keep
<1>4. CASE Listens(c) /\ c.ans = "ok"
  <2>1. route = "binding" /\ route' = "account"
    BY <1>4 DEF CompleteReceive, Listens
  <2>2. IssuedOK' /\ UsedOK' /\ FailsForAReason'
    BY <1>2, <1>3, <2>1 DEF FInv, IssuedOK, UsedOK, FailsForAReason, rows
  <2>3. ASSUME NEW e \in calls' PROVE SentOK(e)'
    <3>1. e \in calls /\ SentOK(e) /\ e.kind # "login" /\ e.kind # "register"
      BY <1>2, <2>1 DEF FInv, SentOK, LoginOK
    <3>2. e.kind = "create" => CreateOK(e)'
      BY <1>2, <2>1, <3>1 DEF SentOK, CreateOK, Own, rows
    <3> QED BY <1>2, <3>1, <3>2 DEF SentOK
  <2> QED BY <2>2, <2>3 DEF FInv
<1>5. CASE ~(Listens(c) /\ c.ans = "ok")
  <2>1. route' = route /\ told' = told /\ (lc' = lc \/ lc' = [lc EXCEPT !.error = TRUE])
    BY <1>5 DEF CompleteReceive, Now
  <2>2. lc'.starting = lc.starting /\ lc'.id = lc.id /\ lc'.stopped = lc.stopped
    BY <2>1, LcTyped DEF LcSet
  <2>3. calls' \subseteq calls /\ slips' \in Nat /\ slips' >= slips
    BY <1>2 DEF FInv, IssuedOK
  <2>4. CASE ticket' = ticket
    BY <1>2, <2>1, <2>2, <2>3, <2>4, QuietMoves
  <2>5. CASE ticket' = 0
    <3>1. Reason'
      BY <2>5 DEF Reason
    <3>2. IssuedOK' /\ UsedOK' /\ FailsForAReason'
      BY <1>2, <2>1, <2>5, <3>1 DEF FInv, IssuedOK, UsedOK, FailsForAReason, rows
    <3>3. ASSUME NEW e \in calls' PROVE SentOK(e)'
      <4>1. e \in calls /\ SentOK(e)
        BY <1>2 DEF FInv
      <4>2. e.kind = "create" => CreateOK(e)'
        BY <1>2, <2>1, <2>2, <3>1, <4>1 DEF SentOK, CreateOK, Own, rows
      <4>3. e.kind = "login" => LoginOK(e)'
        BY <1>2, <2>1, <4>1 DEF SentOK, LoginOK, rows
      <4> QED BY <1>2, <2>1, <4>1, <4>2, <4>3 DEF SentOK
    <3> QED BY <3>2, <3>3 DEF FInv
  <2> QED BY <1>3, <2>4, <2>5
<1> QED BY <1>4, <1>5

\* The page's creation is over.
LEMMA CreateEnds ==
    ASSUME IInv, FInv, NEW c \in calls, c.kind = "create", Own(c),
           UNCHANGED <<rows, route, inst, ticket, slips>>, dropped \subseteq dropped',
           NEW N, calls' \subseteq (calls \ {c}) \cup N,
           \A d \in N : d.kind = "status" /\ d.page = inst /\ d.ans # "error",
           lc'.id = 0 /\ ~lc'.stopped => Reason',
           told' = <<"failed">> => told = <<"failed">> \/ Reason'
    PROVE  FInv'
<1>1. IssuedOK'
  BY DEF FInv, IssuedOK, rows
<1>2. slips' >= slips
  BY DEF FInv, IssuedOK
<1>3. Reason => Reason'
  BY <1>1, <1>2, ReasonKept DEF FInv, Live, rows
<1>4. UsedOK'
  BY DEF UsedOK, FInv, Own
<1>5. FailsForAReason'
  BY <1>3 DEF FInv, FailsForAReason, Reason
<1>6. ASSUME NEW e \in calls' PROVE SentOK(e)'
  <2>1. CASE e \in N
    BY <2>1 DEF SentOK, IInv, PageOK
  <2>2. CASE e \notin N
    <3>1. e \in calls /\ e # c /\ SentOK(e) /\ SentOK(c)
      BY <2>2 DEF FInv
    <3>2. e.kind = "create" => ~Own(e)
      BY <3>1 DEF SentOK, CreateOK
    <3>3. e.kind = "create" => CreateOK(e)'
      BY <1>3, <3>1, <3>2 DEF SentOK, CreateOK, Own, rows
    <3>4. e.kind # "login"
      BY <3>1 DEF SentOK, LoginOK, Own
    <3> QED BY <3>1, <3>3, <3>4 DEF SentOK
  <2> QED BY <2>1, <2>2
<1> QED BY <1>1, <1>4, <1>5, <1>6 DEF FInv

LEMMA FCreateReceived == ASSUME IInv, FInv, NEW c \in calls, CreateReceive(c) PROVE FInv'
<1> DEFINE x == [lc EXCEPT !.starting = FALSE]
           y == [x EXCEPT !.id = c.k, !.alarm = TRUE]
           rest == calls \ {c}
<1>1. c.kind = "create" /\ CreateOK(c) /\ c.k \in Tickets
  BY DEF CreateReceive, FInv, SentOK, IInv, CallsOK, CallOK
<1>2. UNCHANGED <<rows, route, inst, ticket, slips>> /\ dropped \subseteq dropped'
  BY DEF CreateReceive
<1>3. x \in LcSet /\ x.id = lc.id /\ x.stopped = lc.stopped /\ x.fg = lc.fg
  BY LcTyped DEF LcSet
<1>4. y \in LcSet /\ y.id = c.k /\ c.k # 0
  <2>1. c.k \in Numbers /\ c.k # 0
    BY <1>1 DEF Numbers, Tickets
  <2> QED BY <1>3, <2>1 DEF LcSet
<1>5. slips' \in Nat /\ slips' >= slips
  BY <1>2 DEF FInv, IssuedOK
<1>6. Listens(c) <=> Own(c)
  BY DEF Listens, Own
<1>7. CASE ~Listens(c)
  <2>1. lc' = lc /\ told' = told /\ calls' \subseteq calls
    BY <1>7 DEF CreateReceive, Now
  <2> QED BY <1>2, <1>5, <2>1, QuietMoves
<1>8. CASE Listens(c) /\ ~Active(x)
  <2>1. told' = told /\ calls' \subseteq calls \ {c}
    BY <1>8 DEF CreateReceive, Now
  <2>2. c.k \in dropped'
    BY <1>3, <1>8 DEF CreateReceive, Active
  <2>3. c.k = ticket => Reason'
    BY <1>2, <2>2 DEF Reason
  <2>4. Reason => Reason'
    BY <1>2 DEF Reason, Live, rows
  <2>5. Reason'
    BY <1>1, <1>6, <1>8, <2>3, <2>4 DEF CreateOK
  <2>6. PICK N : N = {}
    OBVIOUS
  <2>7. /\ calls' \subseteq (calls \ {c}) \cup N
        /\ \A d \in N : d.kind = "status" /\ d.page = inst /\ d.ans # "error"
    BY <2>1, <2>6
  <2> QED BY <1>1, <1>2, <1>6, <1>8, <2>1, <2>5, <2>7, CreateEnds
<1>9. CASE Listens(c) /\ Active(x) /\ c.ans = "error"
  <2>1. Fail(x, "failed", rest)
    BY <1>9 DEF CreateReceive, CreateFailed
  <2>2. lc'.stopped /\ calls' = rest
    BY <1>3, <2>1, FailFacts
  <2>3. Reason
    BY <1>1, <1>6, <1>9 DEF CreateOK
  <2>4. Reason'
    BY <1>2, <2>3 DEF Reason, Live, rows
  <2>5. PICK N : N = {}
    OBVIOUS
  <2>6. /\ calls' \subseteq (calls \ {c}) \cup N
        /\ \A d \in N : d.kind = "status" /\ d.page = inst /\ d.ans # "error"
    BY <2>2, <2>5
  <2> QED BY <1>1, <1>2, <1>6, <1>9, <2>2, <2>4, <2>6, CreateEnds
<1>10. CASE Listens(c) /\ Active(x) /\ c.ans # "error"
  <2>1. StartPolling(y, rest)
    BY <1>10 DEF CreateReceive
  <2> HIDE DEF y, rest
  <2>2. Polls(y, rest)
    BY <1>4, <2>1, StartPollingFacts
  <2>3. lc'.id # 0
    BY <1>4, <2>2 DEF Polls
  <2>4. ticket = 0 => Reason'
    BY <1>2 DEF Reason
  <2>5. told' = <<"failed">> => told = <<"failed">> \/ Reason'
    BY <2>2, <2>4 DEF Polls
  <2>6. PICK N : N = {Call("status", y.id)}
    OBVIOUS
  <2>7. /\ calls' \subseteq (calls \ {c}) \cup N
        /\ \A d \in N : d.kind = "status" /\ d.page = inst /\ d.ans # "error"
    BY <2>2, <2>6, StatusCall DEF Polls, rest
  <2> QED BY <1>1, <1>2, <1>6, <1>10, <2>3, <2>5, <2>7, CreateEnds
<1> QED BY <1>7, <1>8, <1>9, <1>10

LEMMA FStatusReceived == ASSUME IInv, FInv, NEW c \in calls, StatusReceive(c) PROVE FInv'
<1> DEFINE x == [lc EXCEPT !.polling = FALSE]
           rest == calls \ {c}
<1>1. c.kind = "status" /\ UNCHANGED <<rows, route, inst, ticket, slips, dropped>>
  BY DEF StatusReceive
<1>2. x \in LcSet /\ x.starting = lc.starting /\ x.id = lc.id /\ x.stopped = lc.stopped
  BY LcTyped DEF LcSet
<1>3. slips' \in Nat /\ slips' >= slips
  BY <1>1 DEF FInv, IssuedOK
<1>4. \/ Now(lc, told, rest) \/ Now(x, told, rest)
      \/ c.ans = "error" /\ Fail(x, "failed", rest)
      \/ Fail(x, "expired", rest)
      \/ Now(Stop(x), Append(told, "bound"), rest \cup {Call("complete", 0)})
  BY DEF StatusReceive
<1> HIDE DEF x
<1>5. CASE Now(lc, told, rest) \/ Now(x, told, rest)
  <2>1. /\ lc'.starting = lc.starting /\ lc'.id = lc.id /\ lc'.stopped = lc.stopped
        /\ told' = told /\ calls' \subseteq calls
    BY <1>2, <1>5 DEF Now
  <2> QED BY <1>1, <1>3, <2>1, QuietMoves
<1>6. CASE c.ans = "error" /\ Fail(x, "failed", rest)
  <2>1. slips > 0
    BY <1>1, <1>6 DEF FInv, SentOK
  <2>2. Reason'
    BY <1>1, <2>1 DEF Reason
  <2>3. lc'.starting = lc.starting /\ lc'.stopped /\ calls' \subseteq calls
    BY <1>2, <1>6, FailFacts
  <2> QED BY <1>1, <1>3, <2>2, <2>3, QuietMoves
<1>7. CASE Fail(x, "expired", rest)
  <2>1. lc'.starting = lc.starting /\ lc'.stopped /\ calls' \subseteq calls /\ told' = Append(told, "expired")
    BY <1>2, <1>7, FailFacts
  <2>2. told' # <<"failed">>
    BY <2>1, ToldFailed DEF Outcomes
  <2> QED BY <1>1, <1>3, <2>1, <2>2, QuietMoves
<1>8. CASE Now(Stop(x), Append(told, "bound"), rest \cup {Call("complete", 0)})
  <2>1. lc' = Stop(x) /\ told' = Append(told, "bound") /\ calls' = rest \cup {Call("complete", 0)}
    BY <1>8 DEF Now
  <2>2. lc'.starting = lc.starting /\ lc'.stopped
    BY <1>2, <2>1 DEF Stop, LcSet
  <2>3. told' # <<"failed">>
    BY <2>1, ToldFailed DEF Outcomes
  <2>4. PICK N : N = {Call("complete", 0)}
    OBVIOUS
  <2>5. /\ calls' \subseteq calls \cup N
        /\ \A d \in N : d.kind \in {"status", "complete"} /\ d.page = inst /\ d.ans # "error"
    BY <2>1, <2>4 DEF Call
  <2> QED BY <1>1, <1>3, <2>2, <2>3, <2>5, PageMoves
<1> QED BY <1>4, <1>5, <1>6, <1>7, <1>8

LEMMA FNext == IInv /\ FInv /\ [BNext]_bvars => FInv'
<1> SUFFICES ASSUME IInv, FInv, [BNext]_bvars PROVE FInv'
  OBVIOUS
<1>1. CASE UNCHANGED bvars
  BY <1>1, QuietMoves DEF bvars, FInv, IssuedOK
<1>2. CASE Show \/ Hide \/ Tick \/ Alarm \/ WebViewFailed \/ Deadline
  BY <1>2, FShow, FHide, FTick, FOther, FDeadline
<1>3. CASE Connect \/ Register \/ OpenBinding \/ Back \/ Restart
  BY <1>3, FConnect, FRegister, FOpen, FBack, FRestart
<1>4. ASSUME NEW c \in calls, Serve(c) \/ Lose(c) \/ Receive(c) PROVE FInv'
  BY <1>4, FServe, FLose, FLoginReceived, FCompleteReceived, FCreateReceived, FStatusReceived
     DEF Receive
<1>5. ASSUME NEW k \in Tickets, NEW u, Lapse(k) \/ ExpireMiniAppBindings(k) \/ ConfirmMiniAppBinding(k, u)
      PROVE  FInv'
  BY <1>5, FRows
<1> QED BY <1>1, <1>2, <1>3, <1>4, <1>5 DEF BNext

\* A binding page tells "failed" only after a fault, for a ticket that is no
\* longer good, or when an earlier page or a hidden one lost the binding, for
\* any number of tickets, pages and failures (BindingLifecycle.show, starting).
THEOREM PageFailsForAReason == BSpec => []FailsForAReason
<1>1. BInit => FInv
  BY FInit
<1>2. FInv => FailsForAReason
  BY DEF FInv
<1> QED BY <1>1, <1>2, AlwaysIInv, FNext, PTL DEF BSpec
=============================================================================
