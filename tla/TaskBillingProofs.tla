------------------------- MODULE TaskBillingProofs -------------------------
(***************************************************************************)
(* Proofs about TaskBilling, for any number of overlapping passes, any     *)
(* prices and any number of failing calls, crashes and lost leases.        *)
(***************************************************************************)
EXTENDS TaskBilling, TLAPS

Settling == {"settle", "settleToken", "settleQuota"}
Refunds == {"refund", "refundToken", "refundClear", "restore"}
Places == {"idle", "timeout", "unrefunded", "claim", "unfinished", "poll", "apply"} \cup Billing
Idle == {"idle", "unrefunded", "unfinished"}

\* The types; a pass writes a status only over one that was not terminal when it
\* read the row, and one that has a result to apply has one.
TypeInv ==
    /\ TypeOK
    /\ \A p \in Pollers : pc[p] \in {"timeout", "poll", "apply"} => view[p].status \in Open
    /\ \A p \in Pollers : pc[p] = "apply" => view[p].result \in Results

\* Before the insert nobody knows the task.
AbsentInv == status = "absent" =>
    /\ ~legacy /\ quota = 0 /\ client = NoView
    /\ Spent \in {0, price} /\ TokenSpent \in {0, price} /\ (lost = {} => gap = 0 /\ tokenGap = 0)
    /\ \A p \in Pollers : pc[p] \in Idle

\* An unfinished task has cost its price, and nobody bills it.
OpenInv == status \in Open =>
    /\ quota = price /\ Spent = price /\ TokenSpent = price
    /\ \A p \in Pollers : pc[p] \notin Billing \cup {"claim"}

\* How far the pass that completed the task is with its settlement.
Settler(p) ==
    /\ view[p].quota = price /\ quota = price /\ actual > 0
    /\ pc[p] = "settle" => Spent = price /\ TokenSpent = price
    /\ pc[p] = "settleToken" => Spent = actual /\ TokenSpent = price
    /\ pc[p] = "settleQuota" => Spent = actual /\ (TokenSpent = actual \/ "token" \in lost)

\* A completed task is settled by one pass at most; once that one is through, the
\* row says what was paid.
SuccessInv == status = "SUCCESS" =>
    /\ Spent \in {price, actual} /\ TokenSpent \in {price, actual}
    /\ \A p, q \in Pollers : pc[p] \in Settling /\ pc[q] \in Settling => p = q
    /\ \A p \in Pollers : pc[p] \in Settling => Settler(p)
    /\ (\A p \in Pollers : pc[p] \notin Settling) /\ lost = {} =>
          /\ Spent = quota /\ TokenSpent = quota
          /\ actual > 0 => Spent = actual

\* How far a pass is with the refund of a failed task; a claim has cleared the
\* marker, the winner of the status change has not.
Refunder(p) ==
    /\ view[p].quota = price /\ price # 0
    /\ quota = IF view[p].claim THEN 0 ELSE price
    /\ pc[p] \in {"refund", "restore"} => Spent = price /\ TokenSpent = price
    /\ pc[p] = "restore" => view[p].claim
    /\ pc[p] = "refundToken" => Spent = 0 /\ TokenSpent = price
    /\ pc[p] = "refundClear" => Spent = 0 /\ (TokenSpent = 0 \/ "token" \in lost)

\* Neither a marker was left behind nor was a first refund overtaken by the grace
\* period: a failed task is refunded by one pass at a time, nobody claims the
\* refund while the winner of the status change is at it, and a marker says that
\* nothing was refunded.
RefundInv ==
    /\ Spent \in {0, price} /\ TokenSpent \in {0, price}
    /\ \A p, q \in Pollers : pc[p] \in Refunds /\ pc[q] \in Refunds => p = q
    /\ \A p \in Pollers : pc[p] \in Refunds => Refunder(p)
    /\ \A p \in Pollers : pc[p] = "claim" => view[p].claim /\ view[p].quota = price /\ price # 0
    /\ \A p \in Pollers : Refunding(p) => ~aged /\ \A q \in Pollers : pc[q] # "claim"
    /\ (\A p \in Pollers : pc[p] \notin Refunds) =>
          /\ quota # 0 => Spent = price /\ TokenSpent = price
          /\ quota = 0 /\ lost = {} => Spent = TokenSpent /\ (Spent = 0 \/ legacy)

FailureInv == status = "FAILURE" =>
    /\ quota \in {0, price}
    /\ \A p \in Pollers : pc[p] \in Refunds \cup {"claim"} => view[p].quota = price
    /\ lost \cap {"marker", "grace"} = {} => RefundInv

\* What a pass knows of the row it read.
ReadInv(p) ==
    /\ pc[p] \in {"timeout", "poll", "apply"} =>
          view[p].status \in Open /\ view[p].quota = price /\ ~view[p].claim
    /\ pc[p] \in Refunds \cup {"claim"} => status = "FAILURE"
    /\ pc[p] \in Settling => status = "SUCCESS"

ClientInv ==
    /\ client.status \in Open => client.quota = price
    /\ ~live => client = NoView

IInv ==
    /\ TypeInv /\ AbsentInv /\ OpenInv /\ SuccessInv /\ FailureInv /\ ClientInv
    /\ \A p \in Pollers : ReadInv(p)

\* The bulk update has overwritten no completed row, and no live fetch has
\* written a row that was over already when it was read.
Clean == "bulk" \notin lost /\ rewrites = 0

BillingInv == TypeInv /\ (Clean => IInv)

-----------------------------------------------------------------------------
(* Types. *)

LEMMA NoViewType ==
    /\ NoView \in Views /\ NoView.status = None /\ NoView.quota = 0 /\ ~NoView.claim
    /\ None \notin Open \cup Terminal \cup {"absent"}
BY DEF NoView, Views, None, Open, Terminal

LEMMA ReadType ==
    ASSUME TypeInv, status # "absent"
    PROVE  /\ Read \in Views /\ Read.status = status /\ Read.quota = quota /\ Read.claim = FALSE
           /\ [Read EXCEPT !.claim = TRUE] \in Views
           /\ [Read EXCEPT !.claim = TRUE].quota = quota /\ [Read EXCEPT !.claim = TRUE].claim = TRUE
<1>1. status \in Open \cup Terminal \cup {None} /\ quota \in Nat
  BY DEF TypeInv, TypeOK
<1> QED BY <1>1 DEF Read, NoView, Views

LEMMA ResultType ==
    ASSUME NEW v \in Views, NEW s \in Results
    PROVE  /\ [v EXCEPT !.result = s] \in Views /\ [v EXCEPT !.result = s].result = s
           /\ [v EXCEPT !.result = s].status = v.status /\ [v EXCEPT !.result = s].quota = v.quota
           /\ [v EXCEPT !.result = s].claim = v.claim
BY DEF Views

LEMMA InitInv == Init => IInv
<1> SUFFICES ASSUME Init PROVE IInv
  OBVIOUS
<1>1. TypeInv
  <2>1. status \in {"absent"} \cup Open \cup Terminal
    BY DEF Init, Open
  <2>2. quota \in Nat /\ paid \in Int /\ tokenPaid \in Int /\ price \in Prices /\ actual \in Actuals
        /\ gap \in Int /\ tokenGap \in Int /\ live \in BOOLEAN /\ (live => actual = 0)
        /\ rewrites \in 0 .. MaxRewrites /\ faults \in 0 .. MaxFaults /\ crashes \in 0 .. MaxCrashes
    BY TaskBillingAssumption DEF Init
  <2>3. legacy \in BOOLEAN /\ timedOut \in BOOLEAN /\ aged \in BOOLEAN /\ lost \subseteq Losses
    BY DEF Init
  <2>4. pc \in [Pollers -> Places] /\ view \in [Pollers -> Views] /\ client \in Views
        /\ \A p \in Pollers : pc[p] = "idle"
    BY NoViewType DEF Init, Places
  <2> QED BY <2>1, <2>2, <2>3, <2>4 DEF TypeInv, TypeOK, Places
<1>0. Spent = quota /\ TokenSpent = quota
  BY <1>1 DEF Init, TypeInv, TypeOK, Spent, TokenSpent
<1>2. AbsentInv /\ OpenInv
  BY <1>0 DEF Init, AbsentInv, OpenInv, Open, Billing, Idle
<1>3. SuccessInv /\ FailureInv
  BY DEF Init, SuccessInv, FailureInv
<1>4. ClientInv /\ \A p \in Pollers : ReadInv(p)
  BY NoViewType DEF Init, ClientInv, ReadInv, Refunds, Settling
<1> QED BY <1>1, <1>2, <1>3, <1>4 DEF IInv

\* A step that keeps the types of everything but the place and the view of pass p.
LEMMA PollerType ==
    ASSUME TypeInv, NEW p \in Pollers, NEW l \in Places, NEW v \in Views,
           l = "apply" => v.result \in Results, l \in {"timeout", "poll", "apply"} => v.status \in Open,
           pc' = [pc EXCEPT ![p] = l], view' = [view EXCEPT ![p] = v],
           UNCHANGED <<task, client>>, status' \in {"absent"} \cup Open \cup Terminal, quota' \in Nat,
           aged' \in BOOLEAN, paid' \in Int, tokenPaid' \in Int, lost' \subseteq Losses,
           rewrites' = rewrites, faults' \in 0 .. MaxFaults, crashes' \in 0 .. MaxCrashes
    PROVE  TypeInv'
<1>1. pc' \in [Pollers -> Places] /\ view' \in [Pollers -> Views]
  BY DEF TypeInv, TypeOK, Places
<1>2. \A q \in Pollers : /\ pc'[q] = "apply" => view'[q].result \in Results
                        /\ pc'[q] \in {"timeout", "poll", "apply"} => view'[q].status \in Open
  BY DEF TypeInv, TypeOK, Places
<1>3. price' \in Prices /\ actual' \in Actuals /\ legacy' \in BOOLEAN /\ timedOut' \in BOOLEAN /\ client' \in Views
      /\ gap' \in Int /\ tokenGap' \in Int /\ live' \in BOOLEAN /\ (live' => actual' = 0)
      /\ rewrites' \in 0 .. MaxRewrites
  BY DEF TypeInv, TypeOK, task
<1> QED BY <1>1, <1>2, <1>3 DEF TypeInv, TypeOK, Places

LEMMA FaultType ==
    ASSUME TypeInv
    PROVE  /\ Ok => lost' \subseteq Losses /\ faults' \in 0 .. MaxFaults
           /\ Fault => faults' \in 0 .. MaxFaults
           /\ \A what \in SUBSET Losses : FaultLoses(what) => lost' \subseteq Losses /\ faults' \in 0 .. MaxFaults
BY TaskBillingAssumption DEF TypeInv, TypeOK, Ok, Fault, FaultLoses

LEMMA NumberType ==
    ASSUME TypeInv
    PROVE  /\ quota \in Nat /\ price \in Nat /\ actual \in Nat /\ paid \in Int /\ tokenPaid \in Int
           /\ gap \in Int /\ tokenGap \in Int /\ Spent \in Int /\ TokenSpent \in Int
           /\ \A p \in Pollers : view[p] \in Views /\ view[p].quota \in Nat
           /\ client \in Views /\ client.quota \in Nat
BY TaskBillingAssumption DEF TypeInv, TypeOK, Views, Spent, TokenSpent

LEMMA SpentSame ==
    ASSUME UNCHANGED <<task, ledger>>
    PROVE  Spent' = Spent /\ TokenSpent' = TokenSpent
BY DEF task, ledger, Spent, TokenSpent

\* The calls that pay and refund, in terms of what is spent.
LEMMA SpentMoves ==
    ASSUME TypeInv, NEW d \in Int, UNCHANGED task
    PROVE  /\ AdjustFunding(d) => Spent' = Spent + d /\ TokenSpent' = TokenSpent
           /\ AdjustTokenQuota(d) => TokenSpent' = TokenSpent + d /\ Spent' = Spent
BY NumberType DEF AdjustFunding, AdjustTokenQuota, Spent, TokenSpent, task

\* The steps of a pass that only read.
LEMMA ReadersType ==
    ASSUME TypeInv, NEW p \in Pollers,
           SweepRead(p) \/ ReconcileRead(p) \/ PollRead(p) \/ FetchTask(p) \/ Cancel(p)
    PROVE  TypeInv'
<1>0. UNCHANGED <<row, task, ledger, client, rewrites>>
  BY DEF SweepRead, ReconcileRead, PollRead, FetchTask, Cancel, env
<1>1. /\ status' \in {"absent"} \cup Open \cup Terminal /\ quota' \in Nat /\ aged' \in BOOLEAN
      /\ paid' \in Int /\ tokenPaid' \in Int
  BY <1>0 DEF row, ledger, TypeInv, TypeOK
<1>2. lost' \subseteq Losses /\ faults' \in 0 .. MaxFaults
  BY FaultType DEF SweepRead, ReconcileRead, PollRead, FetchTask, Cancel, env, TypeInv, TypeOK
<1>3. crashes' \in 0 .. MaxCrashes
  BY TaskBillingAssumption DEF SweepRead, ReconcileRead, PollRead, FetchTask, Cancel, env, TypeInv, TypeOK
<1>4. \E l \in Places, v \in Views : 
        GotoView(p, l, v) /\ (l = "apply" => v.result \in Results) /\ (l \in {"timeout", "poll", "apply"} => v.status \in Open)
  <2>1. {"timeout", "unrefunded", "claim", "unfinished", "idle", "poll", "apply"} \subseteq Places
    BY DEF Places
  <2>2. CASE SweepRead(p)
    <3>1. status \in Open => status # "absent"
      BY DEF Open
    <3> QED BY <2>1, <2>2, <3>1, ReadType, NoViewType DEF SweepRead
  <2>3. CASE ReconcileRead(p)
    BY <2>1, <2>3, ReadType, NoViewType DEF ReconcileRead
  <2>4. CASE PollRead(p)
    <3>1. status \in Open => status # "absent"
      BY DEF Open
    <3> QED BY <2>1, <2>4, <3>1, ReadType, NoViewType DEF PollRead
  <2>5. CASE FetchTask(p)
    <3>1. CASE GotoView(p, "idle", NoView)
      BY <2>1, <3>1, NoViewType
    <3>2. ASSUME NEW s \in Results, GotoView(p, "apply", [view[p] EXCEPT !.result = s])
          PROVE  \E l \in Places, v \in Views : 
        GotoView(p, l, v) /\ (l = "apply" => v.result \in Results) /\ (l \in {"timeout", "poll", "apply"} => v.status \in Open)
      <4>1. /\ [view[p] EXCEPT !.result = s] \in Views /\ [view[p] EXCEPT !.result = s].result = s
            /\ [view[p] EXCEPT !.result = s].status \in Open
        BY <2>5, ResultType, NumberType DEF TypeInv, FetchTask
      <4> QED BY <2>1, <3>2, <4>1
    <3> QED BY <2>5, <3>1, <3>2 DEF FetchTask
  <2>6. CASE Cancel(p)
    BY <2>1, <2>6, NoViewType DEF Cancel
  <2> QED BY <2>2, <2>3, <2>4, <2>5, <2>6
<1> QED BY <1>0, <1>1, <1>2, <1>3, <1>4, PollerType DEF GotoView, Goto

LEMMA AfterType == ASSUME NEW p \in Pollers PROVE After(p) \in Idle
BY DEF After, Idle

LEMMA WinnerType ==
    ASSUME NEW v \in Views
    PROVE  /\ WinnerBills(v) \in {"settle", "refund", "idle"}
           /\ WinnerBills(v) = "settle" <=> NeedsSettlement(v)
           /\ WinnerBills(v) = "refund" <=> v.result = "FAILURE" /\ v.quota # 0
BY DEF WinnerBills, NeedsSettlement

\* The steps of a pass that write the row or pay.
LEMMA WritersType ==
    ASSUME TypeInv, NEW p \in Pollers,
           \/ TimeOutTask(p) \/ Claim(p) \/ Restore(p) \/ RefundFunding(p) \/ RefundToken(p) \/ RefundClear(p)
           \/ Apply(p) \/ SettleFunding(p) \/ SettleToken(p) \/ SettleQuota(p)
    PROVE  TypeInv'
<1>0. UNCHANGED <<task, client, view, rewrites, crashes>>
  BY DEF TimeOutTask, Claim, Restore, RefundFunding, RefundToken, RefundClear, Apply, SettleFunding,
         SettleToken, SettleQuota
<1>1. view' = [view EXCEPT ![p] = view[p]] /\ crashes' \in 0 .. MaxCrashes
  BY <1>0 DEF TypeInv, TypeOK
<1>2. UNCHANGED ledger => paid' \in Int /\ tokenPaid' \in Int
  BY NumberType DEF ledger
<1>3. UNCHANGED row => status' \in {"absent"} \cup Open \cup Terminal /\ quota' \in Nat /\ aged' \in BOOLEAN
  BY DEF row, TypeInv, TypeOK
<1>4. ASSUME NEW q \in Nat, UpdateQuota(q)
      PROVE  status' \in {"absent"} \cup Open \cup Terminal /\ quota' \in Nat /\ aged' \in BOOLEAN
  BY <1>4 DEF UpdateQuota, TypeInv, TypeOK
<1>5. ASSUME NEW q \in Nat, NEW s \in Results, Write(s, q)
      PROVE  status' \in {"absent"} \cup Open \cup Terminal /\ quota' \in Nat /\ aged' \in BOOLEAN
  BY <1>5 DEF Write, Results
<1>6. /\ status' \in {"absent"} \cup Open \cup Terminal /\ quota' \in Nat /\ aged' \in BOOLEAN
      /\ paid' \in Int /\ tokenPaid' \in Int /\ lost' \subseteq Losses /\ faults' \in 0 .. MaxFaults
  <2>0. /\ {} \in SUBSET Losses /\ {"missed"} \in SUBSET Losses /\ {"token"} \in SUBSET Losses
        /\ {"marker"} \in SUBSET Losses /\ {"settle"} \in SUBSET Losses /\ {"quota"} \in SUBSET Losses
        /\ "FAILURE" \in Results /\ 0 \in Nat /\ lost \subseteq Losses
    BY DEF Losses, Results, Terminal, TypeInv, TypeOK
  <2>1. CASE TimeOutTask(p)
    <3>1. (IF legacy THEN 0 ELSE view[p].quota) \in Nat
      BY NumberType
    <3> QED BY <2>0, <2>1, <3>1, <1>2, <1>3, <1>5, FaultType DEF TimeOutTask, UpdateWithStatus
  <2>2. CASE Claim(p)
    BY <2>0, <2>2, <1>2, <1>3, <1>4, FaultType DEF Claim, ClaimQuotaForRefund
  <2>3. CASE Restore(p)
    BY <2>0, <2>3, <1>2, <1>3, <1>4, FaultType, NumberType DEF Restore, RestoreQuotaAfterFailedRefund
  <2>4. CASE RefundFunding(p)
    BY <2>0, <2>4, <1>2, <1>3, FaultType, NumberType DEF RefundFunding, AdjustFunding
  <2>5. CASE RefundToken(p)
    BY <2>0, <2>5, <1>2, <1>3, FaultType, NumberType DEF RefundToken, AdjustTokenQuota
  <2>6. CASE RefundClear(p)
    BY <2>0, <2>6, <1>2, <1>3, <1>4, FaultType DEF RefundClear
  <2>7. CASE Apply(p)
    BY <2>0, <2>7, <1>2, <1>3, <1>5, FaultType, NumberType DEF Apply, UpdateWithStatus, TypeInv
  <2>8. CASE SettleFunding(p)
    BY <2>0, <2>8, <1>2, <1>3, FaultType, NumberType DEF SettleFunding, AdjustFunding
  <2>9. CASE SettleToken(p)
    BY <2>0, <2>9, <1>2, <1>3, FaultType, NumberType DEF SettleToken, AdjustTokenQuota
  <2>10. CASE SettleQuota(p)
    BY <2>0, <2>10, <1>2, <1>3, <1>4, FaultType, NumberType DEF SettleQuota
  <2> QED BY <2>1, <2>2, <2>3, <2>4, <2>5, <2>6, <2>7, <2>8, <2>9, <2>10
<1>7. \E l \in Places \ {"timeout", "poll", "apply"} : Goto(p, l)
  <2>1. Idle \cup Refunds \cup Settling \subseteq Places \ {"timeout", "poll", "apply"}
    BY DEF Places, Billing, Idle, Refunds, Settling
  <2>2. CASE TimeOutTask(p) \/ Claim(p) \/ Restore(p) \/ RefundFunding(p) \/ RefundToken(p) \/ RefundClear(p)
    BY <2>1, <2>2, AfterType DEF TimeOutTask, Claim, Restore, RefundFunding, RefundToken, RefundClear, Idle, Refunds
  <2>3. CASE Apply(p) \/ SettleFunding(p) \/ SettleToken(p) \/ SettleQuota(p)
    BY <2>1, <2>3, WinnerType, NumberType DEF Apply, SettleFunding, SettleToken, SettleQuota, Idle, Settling, Refunds
  <2> QED BY <2>2, <2>3
<1> QED BY <1>0, <1>1, <1>6, <1>7, NumberType, PollerType DEF Goto

\* What a crash leaves undone, place by place.
LEMMA CrashEffect ==
    ASSUME NEW p \in Pollers, view[p].claim \in BOOLEAN
    PROVE  /\ pc[p] = "refund" => CrashLoses(p) = IF view[p].claim THEN {"missed"} ELSE {}
           /\ pc[p] = "restore" => CrashLoses(p) = {"missed"}
           /\ pc[p] = "refundToken" => CrashLoses(p) = IF view[p].claim THEN {"token"} ELSE {"marker"}
           /\ pc[p] = "refundClear" => CrashLoses(p) = IF view[p].claim THEN {} ELSE {"marker"}
           /\ pc[p] = "settle" => CrashLoses(p) = {"settle"}
           /\ pc[p] = "settleToken" => CrashLoses(p) = {"token", "quota"}
           /\ pc[p] = "settleQuota" => CrashLoses(p) = {"quota"}
           /\ pc[p] \notin Billing => CrashLoses(p) = {}
<1>1. pc[p] = "refund" => CrashLoses(p) = IF view[p].claim THEN {"missed"} ELSE {}
  BY DEF CrashLoses
<1>2. pc[p] = "restore" => CrashLoses(p) = {"missed"}
  BY DEF CrashLoses
<1>3. pc[p] = "refundToken" => CrashLoses(p) = IF view[p].claim THEN {"token"} ELSE {"marker"}
  BY DEF CrashLoses
<1>4. pc[p] = "refundClear" => CrashLoses(p) = IF view[p].claim THEN {} ELSE {"marker"}
  BY DEF CrashLoses
<1>5. pc[p] = "settle" => CrashLoses(p) = {"settle"}
  BY DEF CrashLoses
<1>6. pc[p] = "settleToken" => CrashLoses(p) = {"token", "quota"}
  BY DEF CrashLoses
<1>7. pc[p] = "settleQuota" => CrashLoses(p) = {"quota"}
  BY DEF CrashLoses
<1>8. pc[p] \notin Billing => CrashLoses(p) = {}
  BY DEF CrashLoses, Billing
<1> QED BY <1>1, <1>2, <1>3, <1>4, <1>5, <1>6, <1>7, <1>8

LEMMA CrashType == ASSUME TypeInv, NEW p \in Pollers PROVE CrashLoses(p) \subseteq Losses
<1>1. view[p].claim \in BOOLEAN
  BY DEF TypeInv, TypeOK, Views
<1> QED BY <1>1, CrashEffect DEF Losses, Billing

LEMMA NextType == TypeInv /\ [Next]_vars => TypeInv'
<1> SUFFICES ASSUME TypeInv, [Next]_vars PROVE TypeInv'
  OBVIOUS
<1>1. ASSUME NEW p \in Pollers, PollerStep(p) \/ Cancel(p) PROVE TypeInv'
  <2>1. CASE FailUnreachable(p)
    <3>1. /\ status' \in {"absent"} \cup Open \cup Terminal /\ quota' \in Nat /\ aged' \in BOOLEAN
          /\ lost' \subseteq Losses /\ faults' \in 0 .. MaxFaults
      BY <2>1, FaultType DEF FailUnreachable, TaskBulkUpdateByID, Terminal, row, TypeInv, TypeOK, Losses
    <3>2. paid' \in Int /\ tokenPaid' \in Int /\ crashes' \in 0 .. MaxCrashes
      BY <2>1 DEF FailUnreachable, ledger, TypeInv, TypeOK
    <3>3. "idle" \in Places
      BY DEF Places
    <3> QED BY <2>1, <3>1, <3>2, <3>3, NoViewType, PollerType DEF FailUnreachable, GotoView, Goto
  <2> QED BY <1>1, <2>1, ReadersType, WritersType DEF PollerStep
<1>2. ASSUME NEW p \in Pollers, Crash(p) PROVE TypeInv'
  <2>1. CrashLoses(p) \subseteq Losses
    BY CrashType
  <2>2. lost' \subseteq Losses /\ crashes' \in 0 .. MaxCrashes
    BY <1>2, <2>1, TaskBillingAssumption DEF Crash, TypeInv, TypeOK
  <2>3. /\ status' \in {"absent"} \cup Open \cup Terminal /\ quota' \in Nat /\ aged' \in BOOLEAN
        /\ paid' \in Int /\ tokenPaid' \in Int /\ faults' \in 0 .. MaxFaults
    BY <1>2 DEF Crash, row, ledger, TypeInv, TypeOK
  <2>4. "idle" \in Places
    BY DEF Places
  <2> QED BY <1>2, <2>2, <2>3, <2>4, NoViewType, PollerType DEF Crash, GotoView, Goto
<1>3. CASE SubmitTask
  <2>1. status' \in {"absent"} \cup Open \cup Terminal /\ aged' \in BOOLEAN
    BY <1>3 DEF SubmitTask, Write, Open, row, TypeInv, TypeOK
  <2>3. quota' \in Nat
    BY <1>3, NumberType DEF SubmitTask, Write, row
  <2>4. paid' \in Int /\ tokenPaid' \in Int /\ gap' \in Int /\ tokenGap' \in Int
    BY <1>3, NumberType, TaskBillingAssumption DEF SubmitTask, SettleSubmission
  <2>2. lost' \subseteq Losses /\ faults' \in 0 .. MaxFaults
    <3>1. {"insert"} \subseteq Losses
      BY DEF Losses
    <3>2. faults' \in 0 .. MaxFaults
      BY <1>3, FaultType DEF SubmitTask, SettleSubmission, TypeInv, TypeOK
    <3> QED BY <1>3, <3>1, <3>2 DEF SubmitTask, TypeInv, TypeOK
  <2> QED BY <1>3, <2>1, <2>2, <2>3, <2>4 DEF SubmitTask, TypeInv, TypeOK
<1>4. CASE RealtimeRead
  <2>1. client' \in Views
    BY <1>4, ReadType DEF RealtimeRead
  <2> QED BY <1>4, <2>1 DEF RealtimeRead, TypeInv, TypeOK, row, task, ledger, env
<1>5. CASE RealtimeUpdate
  <2>1. status' \in {"absent"} \cup Open \cup Terminal /\ quota' \in Nat /\ aged' \in BOOLEAN
    BY <1>5, NumberType DEF RealtimeUpdate, UpdateWithStatus, Write, Results, row, TypeInv, TypeOK
  <2>2. client' \in Views
    BY <1>5, NoViewType DEF RealtimeUpdate
  <2>3. rewrites' \in 0 .. MaxRewrites
    BY <1>5, TaskBillingAssumption DEF RealtimeUpdate, CountRewrite, TypeInv, TypeOK
  <2> QED BY <1>5, <2>1, <2>2, <2>3 DEF RealtimeUpdate, TypeInv, TypeOK, task, ledger
<1>6. CASE TimeOut
  BY <1>6 DEF TimeOut, TypeInv, TypeOK, row, ledger, env
<1>7. CASE GraceElapses
  <2>1. lost' \subseteq Losses
    BY <1>7 DEF GraceElapses, TypeInv, TypeOK, Losses
  <2> QED BY <1>7, <2>1 DEF GraceElapses, TypeInv, TypeOK, task, ledger
<1>8. CASE UNCHANGED vars
  BY <1>8 DEF vars, row, task, ledger, env, TypeInv, TypeOK
<1> QED BY <1>1, <1>2, <1>3, <1>4, <1>5, <1>6, <1>7, <1>8 DEF Next

-----------------------------------------------------------------------------
(* The steps of a pass. *)

\* Only pass p moves, and it neither bills nor begins or ends to bill.
LEMMA ReaderStep ==
    ASSUME IInv, TypeInv', NEW p \in Pollers, pc[p] \notin Billing, pc'[p] \notin Billing,
           \A q \in Pollers \ {p} : pc'[q] = pc[q] /\ view'[q] = view[q],
           UNCHANGED <<row, task, ledger, client, lost>>, ReadInv(p)',
           status = "absent" => pc'[p] \in Idle,
           pc'[p] = "claim" => aged /\ view'[p].claim /\ view'[p].quota = quota /\ quota # 0
    PROVE  IInv'
<1>0. /\ status' = status /\ quota' = quota /\ aged' = aged /\ legacy' = legacy /\ price' = price /\ live' = live
      /\ actual' = actual /\ Spent' = Spent /\ TokenSpent' = TokenSpent /\ client' = client /\ lost' = lost
      /\ gap' = gap /\ tokenGap' = tokenGap
      /\ Refunds \subseteq Billing /\ Settling \subseteq Billing
  BY SpentSame DEF row, task, ledger, Refunds, Settling, Billing
<1>1. AbsentInv'
  BY <1>0 DEF IInv, AbsentInv
<1>2. OpenInv'
  <2>1. pc'[p] = "claim" => status = "FAILURE"
    BY <1>0 DEF ReadInv, Refunds
  <2> QED BY <1>0, <2>1 DEF IInv, OpenInv, Open
<1>3. SuccessInv'
  <2>1. \A q \in Pollers : pc'[q] \in Settling <=> pc[q] \in Settling
    BY <1>0
  <2>2. \A q \in Pollers : pc[q] \in Settling => pc'[q] = pc[q] /\ view'[q] = view[q]
    BY <1>0
  <2> QED BY <1>0, <2>1, <2>2 DEF IInv, SuccessInv, Settler
<1>4. FailureInv'
  <2>a. ASSUME status = "FAILURE"
        PROVE  quota' \in {0, price} /\ \A q \in Pollers : pc'[q] \in Refunds \cup {"claim"} => view'[q].quota = price
    BY <1>0, <2>a DEF IInv, FailureInv
  <2> SUFFICES ASSUME status = "FAILURE", lost \cap {"marker", "grace"} = {}
               PROVE  RefundInv'
    BY <1>0, <2>a DEF FailureInv
  <2>0. RefundInv /\ quota \in {0, price}
    BY DEF IInv, FailureInv
  <2>1. \A q \in Pollers : pc'[q] \in Refunds <=> pc[q] \in Refunds
    BY <1>0
  <2>2. \A q \in Pollers : pc[q] \in Refunds => pc'[q] = pc[q] /\ view'[q] = view[q]
    BY <1>0
  <2>3. \A q \in Pollers : (Refunding(q))' <=> Refunding(q)
    BY DEF Refunding, Billing
  <2>4. \A q \in Pollers : pc'[q] = "claim" => view'[q].claim /\ view'[q].quota = price /\ price # 0
    BY <1>0, <2>0 DEF RefundInv
  <2>5. \A q, r \in Pollers : Refunding(q) => ~aged /\ pc'[r] # "claim"
    BY <2>0 DEF RefundInv
  <2>6. \A q \in Pollers : pc'[q] \in Refunds => Refunder(q)'
    BY <1>0, <2>0, <2>1, <2>2 DEF RefundInv, Refunder
  <2>7. \A q, r \in Pollers : pc'[q] \in Refunds /\ pc'[r] \in Refunds => q = r
    BY <2>0, <2>1 DEF RefundInv
  <2> QED BY <1>0, <2>0, <2>1, <2>3, <2>4, <2>5, <2>6, <2>7 DEF RefundInv
<1>5. ClientInv'
  BY <1>0 DEF IInv, ClientInv
<1>6. \A q \in Pollers : ReadInv(q)'
  BY <1>0 DEF IInv, ReadInv
<1> QED BY <1>1, <1>2, <1>3, <1>4, <1>5, <1>6 DEF IInv

LEMMA ReadSteps ==
    ASSUME IInv, TypeInv', NEW p \in Pollers,
           \/ SweepRead(p) \/ ReconcileRead(p) \/ PollRead(p) \/ FetchTask(p) \/ Cancel(p)
    PROVE  IInv'
<1>0. UNCHANGED <<row, task, ledger, client, lost>> /\ status' = status /\ price' = price
  BY DEF SweepRead, ReconcileRead, PollRead, FetchTask, Cancel, Ok, env, row, task
<1>1. pc[p] \notin Billing
  BY DEF SweepRead, ReconcileRead, PollRead, FetchTask, Cancel, Billing
<1>2. ASSUME NEW l, NEW v, GotoView(p, l, v)
      PROVE  /\ pc'[p] = l /\ view'[p] = v
             /\ \A q \in Pollers \ {p} : pc'[q] = pc[q] /\ view'[q] = view[q]
  BY <1>2 DEF GotoView, Goto, IInv, TypeInv, TypeOK
<1>3. ASSUME NEW l \in Idle, GotoView(p, l, NoView) PROVE IInv'
  <2>1. pc'[p] = l /\ l \notin Billing /\ l # "claim" /\ pc'[p] \in Idle
    BY <1>2, <1>3 DEF Idle, Billing
  <2>2. ReadInv(p)'
    BY <2>1 DEF ReadInv, Idle, Refunds, Settling
  <2> QED BY <1>0, <1>1, <1>2, <1>3, <2>1, <2>2, ReaderStep
<1>4. ASSUME status \in Open, NEW l \in {"timeout", "poll"}, GotoView(p, l, Read) PROVE IInv'
  <2>1. status # "absent" /\ quota = price /\ l \notin Billing /\ l # "claim"
    BY <1>4 DEF Open, Billing, IInv, OpenInv
  <2>2. pc'[p] = l /\ view'[p] = Read
    BY <1>2, <1>4
  <2>3. Read.status = status /\ Read.quota = price /\ ~Read.claim
    BY <2>1, ReadType DEF IInv
  <2>4. ReadInv(p)'
    BY <1>0, <1>4, <2>2, <2>3 DEF ReadInv, Refunds, Settling
  <2> QED BY <1>0, <1>1, <1>2, <1>4, <2>1, <2>2, <2>4, ReaderStep
<1>5. ASSUME status = "FAILURE", quota # 0, aged, GotoView(p, "claim", [Read EXCEPT !.claim = TRUE])
      PROVE  IInv'
  <2> DEFINE v == [Read EXCEPT !.claim = TRUE]
  <2>1. v.quota = quota /\ v.claim
    BY <1>5, ReadType DEF IInv
  <2> HIDE DEF v
  <2>2. pc'[p] = "claim" /\ view'[p] = v /\ "claim" \notin Billing /\ status # "absent"
    BY <1>2, <1>5 DEF v, Billing
  <2>3. ReadInv(p)'
    BY <1>0, <1>5, <2>2 DEF ReadInv, Settling
  <2> QED BY <1>0, <1>1, <1>2, <1>5, <2>1, <2>2, <2>3, ReaderStep DEF v
<1>6. ASSUME pc[p] = "poll", NEW s \in Results, GotoView(p, "apply", [view[p] EXCEPT !.result = s])
      PROVE  IInv'
  <2> DEFINE v == [view[p] EXCEPT !.result = s]
  <2>1. v.status = view[p].status /\ v.quota = view[p].quota /\ v.claim = view[p].claim
    BY NumberType, ResultType DEF IInv
  <2> HIDE DEF v
  <2>2. pc'[p] = "apply" /\ view'[p] = v /\ "apply" \notin Billing /\ status # "absent"
    BY <1>2, <1>6 DEF v, Billing, IInv, AbsentInv, Idle
  <2>3. ReadInv(p)'
    BY <1>0, <1>6, <2>1, <2>2 DEF IInv, ReadInv, Settling, Refunds
  <2> QED BY <1>0, <1>1, <1>2, <1>6, <2>2, <2>3, ReaderStep DEF v
<1>7. {"idle", "unrefunded", "unfinished"} = Idle
  BY DEF Idle
<1>8. CASE SweepRead(p)
  BY <1>3, <1>4, <1>7, <1>8 DEF SweepRead
<1>9. CASE ReconcileRead(p)
  BY <1>3, <1>5, <1>7, <1>9 DEF ReconcileRead
<1>10. CASE PollRead(p)
  BY <1>3, <1>4, <1>7, <1>10 DEF PollRead
<1>11. CASE FetchTask(p)
  BY <1>3, <1>6, <1>7, <1>11 DEF FetchTask
<1>12. CASE Cancel(p)
  BY <1>3, <1>7, <1>12 DEF Cancel
<1> QED BY <1>8, <1>9, <1>10, <1>11, <1>12

\* A pass that is at a refund or at a settlement goes on with it, or ends it.
LEMMA BillStep ==
    ASSUME IInv, TypeInv', NEW p \in Pollers, pc[p] \in Billing, pc'[p] \in Billing \cup Idle,
           \A q \in Pollers \ {p} : pc'[q] = pc[q] /\ view'[q] = view[q],
           UNCHANGED <<status, task, client>>, ReadInv(p)', SuccessInv', FailureInv'
    PROVE  IInv'
<1>1. status \in {"SUCCESS", "FAILURE"} /\ price' = price /\ live' = live
  BY DEF IInv, ReadInv, Billing, Refunds, Settling, task
<1>2. AbsentInv' /\ OpenInv'
  BY <1>1 DEF AbsentInv, OpenInv, Open
<1>3. ClientInv'
  BY <1>1 DEF IInv, ClientInv
<1>4. \A q \in Pollers : ReadInv(q)'
  BY <1>1 DEF IInv, ReadInv
<1> QED BY <1>2, <1>3, <1>4 DEF IInv

\* What a step of a refund has to establish.
RefundGoesOn(p) ==
    /\ Spent' \in {0, price} /\ TokenSpent' \in {0, price}
    /\ pc'[p] \in Refunds => Refunder(p)' /\ view'[p] = view[p] /\ (pc'[p] = "restore" => view[p].claim)
                             /\ aged' = aged
    /\ pc'[p] \notin Refunds =>
          /\ quota' # 0 => Spent' = price /\ TokenSpent' = price
          /\ quota' = 0 /\ lost' = {} => Spent' = TokenSpent' /\ (Spent' = 0 \/ legacy)

LEMMA RefundStep ==
    ASSUME IInv, TypeInv', NEW p \in Pollers, pc[p] \in Refunds, pc'[p] \in Refunds \cup Idle,
           \A q \in Pollers \ {p} : pc'[q] = pc[q] /\ view'[q] = view[q],
           UNCHANGED <<status, task, client>>, lost \subseteq lost',
           quota \in {0, price} /\ view[p].quota = price => quota' \in {0, price},
           pc'[p] \in Refunds => view'[p] = view[p],
           lost' \cap {"marker", "grace"} = {} /\ RefundInv /\ Refunder(p) => RefundGoesOn(p)
    PROVE  IInv'
<1>0. status = "FAILURE" /\ price' = price /\ legacy' = legacy /\ Idle \cap Refunds = {}
  BY DEF IInv, ReadInv, task, Idle, Refunds
<1>1. SuccessInv' /\ ReadInv(p)'
  BY <1>0 DEF SuccessInv, ReadInv, Idle, Refunds, Settling
<1>2. FailureInv'
  <2>a. quota' \in {0, price} /\ \A q \in Pollers : pc'[q] \in Refunds \cup {"claim"} => view'[q].quota = price
    <3>1. pc'[p] # "claim"
      BY DEF Refunds, Idle
    <3> QED BY <1>0, <3>1 DEF IInv, FailureInv
  <2> SUFFICES ASSUME lost' \cap {"marker", "grace"} = {}
               PROVE  RefundInv'
    BY <1>0, <2>a DEF FailureInv
  <2>0. RefundInv
    BY <1>0 DEF IInv, FailureInv
  <2>1. Refunder(p) /\ RefundGoesOn(p)
    <3>1. Refunder(p)
      BY <2>0 DEF RefundInv
    <3> QED BY <2>0, <3>1
  <2>2. \A q \in Pollers \ {p} : pc[q] \notin Refunds /\ pc'[q] \notin Refunds
    BY <2>0 DEF RefundInv
  <2>3. \A q, r \in Pollers : pc'[q] \in Refunds /\ pc'[r] \in Refunds => q = r
    BY <2>2
  <2>4. \A q \in Pollers : pc'[q] \in Refunds => Refunder(q)'
    BY <2>1, <2>2 DEF RefundGoesOn
  <2>5. \A q \in Pollers : pc'[q] = "claim" => pc[q] = "claim" /\ view'[q] = view[q]
    BY DEF Refunds, Idle
  <2>6. \A q \in Pollers : pc'[q] = "claim" => view'[q].claim /\ view'[q].quota = price /\ price # 0
    BY <2>0, <2>5 DEF RefundInv
  <2>7. \A q \in Pollers : (Refunding(q))' => q = p /\ Refunding(p) /\ aged' = aged
    <3>1. ASSUME NEW q \in Pollers, (Refunding(q))' PROVE q = p /\ pc'[p] \in Refunds /\ ~view'[p].claim
      BY <2>2, <3>1 DEF Refunding, Refunds
    <3>2. pc'[p] \in Refunds => view'[p] = view[p] /\ aged' = aged
      BY <2>1 DEF RefundGoesOn
    <3>3. pc[p] = "restore" => view[p].claim
      BY <2>1 DEF Refunder
    <3>4. ~view[p].claim => Refunding(p)
      BY <3>3 DEF Refunding, Refunds
    <3> QED BY <3>1, <3>2, <3>4
  <2>8. \A q \in Pollers : (Refunding(q))' => ~aged' /\ \A r \in Pollers : pc'[r] # "claim"
    BY <2>0, <2>5, <2>7 DEF RefundInv
  <2>9. (\A q \in Pollers : pc'[q] \notin Refunds) =>
          /\ quota' # 0 => Spent' = price /\ TokenSpent' = price
          /\ quota' = 0 /\ lost' = {} => Spent' = TokenSpent' /\ (Spent' = 0 \/ legacy)
    BY <2>1 DEF RefundGoesOn
  <2>10. Spent' \in {0, price} /\ TokenSpent' \in {0, price}
    BY <2>1 DEF RefundGoesOn
  <2> QED BY <1>0, <2>3, <2>4, <2>6, <2>8, <2>9, <2>10 DEF RefundInv
<1>3. Refunds \subseteq Billing
  BY DEF Refunds, Billing
<1> QED BY <1>1, <1>2, <1>3, BillStep

LEMMA GotoEffect ==
    ASSUME IInv, NEW p \in Pollers, NEW l, Goto(p, l), UNCHANGED view
    PROVE  /\ pc'[p] = l /\ view'[p] = view[p]
           /\ \A q \in Pollers \ {p} : pc'[q] = pc[q] /\ view'[q] = view[q]
BY DEF Goto, IInv, TypeInv, TypeOK

LEMMA RefundFundingStep == ASSUME IInv, TypeInv', NEW p \in Pollers, RefundFunding(p) PROVE IInv'
<1>0. /\ pc[p] = "refund" /\ UNCHANGED <<row, task, view, client>>
      /\ status' = status /\ quota' = quota /\ aged' = aged /\ price' = price /\ lost' = lost
  BY DEF RefundFunding, row, task, Ok
<1>1. CASE AdjustFunding(-view[p].quota) /\ Goto(p, "refundToken")
  <2>1. pc'[p] = "refundToken" /\ view'[p] = view[p]
        /\ \A q \in Pollers \ {p} : pc'[q] = pc[q] /\ view'[q] = view[q]
    BY <1>0, <1>1, GotoEffect
  <2>2. Spent' = Spent - view[p].quota /\ TokenSpent' = TokenSpent
    BY <1>0, <1>1, NumberType, SpentMoves DEF IInv
  <2>3. ASSUME Refunder(p) PROVE RefundGoesOn(p)
    <3>1. Spent' = 0 /\ TokenSpent' = price
      BY <1>0, <2>2, <2>3, NumberType DEF Refunder, IInv
    <3> QED BY <1>0, <2>1, <2>3, <3>1 DEF Refunder, RefundGoesOn, Refunds
  <2> QED BY <1>0, <2>1, <2>3, RefundStep DEF Refunds
<1>2. CASE Goto(p, IF view[p].claim THEN "restore" ELSE After(p)) /\ UNCHANGED ledger
  <2>1. pc'[p] = (IF view[p].claim THEN "restore" ELSE After(p)) /\ view'[p] = view[p]
        /\ \A q \in Pollers \ {p} : pc'[q] = pc[q] /\ view'[q] = view[q]
    BY <1>0, <1>2, GotoEffect
  <2>2. Spent' = Spent /\ TokenSpent' = TokenSpent
    BY <1>0, <1>2, SpentSame
  <2>3. pc'[p] \in Refunds \cup Idle /\ (pc'[p] \in Refunds <=> pc'[p] = "restore" /\ view[p].claim)
    BY <2>1, AfterType DEF Refunds, Idle
  <2>4. ASSUME Refunder(p) PROVE RefundGoesOn(p)
    BY <1>0, <2>1, <2>2, <2>3, <2>4 DEF Refunder, RefundGoesOn
  <2> QED BY <1>0, <2>1, <2>3, <2>4, RefundStep DEF Refunds
<1> QED BY <1>1, <1>2 DEF RefundFunding

LEMMA RefundTokenStep == ASSUME IInv, TypeInv', NEW p \in Pollers, RefundToken(p) PROVE IInv'
<1>0. /\ pc[p] = "refundToken" /\ UNCHANGED <<row, task, view, client>> /\ Goto(p, "refundClear")
      /\ status' = status /\ quota' = quota /\ aged' = aged /\ price' = price
  BY DEF RefundToken, row, task
<1>1. pc'[p] = "refundClear" /\ view'[p] = view[p]
      /\ \A q \in Pollers \ {p} : pc'[q] = pc[q] /\ view'[q] = view[q]
  BY <1>0, GotoEffect
<1>2. \/ AdjustTokenQuota(-view[p].quota) /\ lost' = lost
      \/ lost' = lost \cup {"token"} /\ UNCHANGED ledger
  BY DEF RefundToken, Ok, FaultLoses
<1>3. lost \subseteq lost' /\ Spent' = Spent /\ (TokenSpent' = TokenSpent - view[p].quota \/ (TokenSpent' = TokenSpent /\ "token" \in lost'))
  BY <1>0, <1>2, NumberType, SpentSame, SpentMoves DEF IInv
<1>4. ASSUME Refunder(p) PROVE RefundGoesOn(p)
  <2>1. Spent' = 0 /\ TokenSpent' \in {0, price} /\ (TokenSpent' = 0 \/ "token" \in lost')
    BY <1>0, <1>3, <1>4, NumberType DEF Refunder, IInv
  <2> QED BY <1>0, <1>1, <1>4, <2>1 DEF Refunder, RefundGoesOn, Refunds
<1> QED BY <1>0, <1>1, <1>3, <1>4, RefundStep DEF Refunds

LEMMA RefundClearStep == ASSUME IInv, TypeInv', NEW p \in Pollers, RefundClear(p) PROVE IInv'
<1>0. /\ pc[p] = "refundClear" /\ UNCHANGED <<task, ledger, view, client>> /\ Goto(p, After(p))
      /\ status' = status /\ price' = price /\ Spent' = Spent /\ TokenSpent' = TokenSpent
  BY SpentSame DEF RefundClear, row, task, UpdateQuota
<1>1. pc'[p] \in Idle /\ view'[p] = view[p]
      /\ \A q \in Pollers \ {p} : pc'[q] = pc[q] /\ view'[q] = view[q]
  BY <1>0, GotoEffect, AfterType
<1>2. \/ quota' = 0 /\ lost' = lost
      \/ quota' = quota /\ lost' = lost \cup (IF view[p].claim THEN {} ELSE {"marker"})
  BY DEF RefundClear, Ok, FaultLoses, UpdateQuota, row
<1>3. lost \subseteq lost' /\ pc'[p] \notin Refunds
  BY <1>1, <1>2 DEF Refunds, Idle
<1>4. ASSUME Refunder(p), RefundInv, lost' \cap {"marker", "grace"} = {} PROVE RefundGoesOn(p)
  <2>1. quota' = 0
    BY <1>2, <1>4 DEF Refunder
  <2>2. Spent' = 0 /\ (TokenSpent' = 0 \/ lost' # {})
    BY <1>0, <1>3, <1>4 DEF Refunder
  <2>3. TokenSpent' \in {0, price}
    BY <1>0, <1>4 DEF RefundInv
  <2> QED BY <1>3, <2>1, <2>2, <2>3 DEF RefundGoesOn
<1> QED BY <1>0, <1>1, <1>2, <1>3, <1>4, RefundStep DEF Refunds

LEMMA RestoreStep == ASSUME IInv, TypeInv', NEW p \in Pollers, Restore(p) PROVE IInv'
<1>0. /\ pc[p] = "restore" /\ UNCHANGED <<task, ledger, view, client>> /\ Goto(p, "unfinished")
      /\ status' = status /\ price' = price /\ Spent' = Spent /\ TokenSpent' = TokenSpent
  BY SpentSame DEF Restore, row, task, RestoreQuotaAfterFailedRefund, UpdateQuota
<1>1. pc'[p] = "unfinished" /\ view'[p] = view[p]
      /\ \A q \in Pollers \ {p} : pc'[q] = pc[q] /\ view'[q] = view[q]
  BY <1>0, GotoEffect
<1>2. \/ quota' = view[p].quota /\ lost' = lost
      \/ quota # 0 /\ quota' = quota /\ lost' = lost
      \/ quota' = quota /\ lost' = lost \cup {"missed"}
  BY DEF Restore, Ok, FaultLoses, RestoreQuotaAfterFailedRefund, UpdateQuota, row
<1>3. lost \subseteq lost' /\ pc'[p] \in Idle /\ pc'[p] \notin Refunds
  BY <1>1, <1>2 DEF Refunds, Idle
<1>4. ASSUME Refunder(p) PROVE RefundGoesOn(p)
  BY <1>0, <1>2, <1>3, <1>4 DEF Refunder, RefundGoesOn
<1> QED BY <1>0, <1>1, <1>2, <1>3, <1>4, RefundStep DEF Refunds

\* What a step of a settlement has to establish.
SettleGoesOn(p) ==
    /\ Spent' \in {price, actual} /\ TokenSpent' \in {price, actual}
    /\ pc'[p] \in Settling => Settler(p)'
    /\ pc'[p] \notin Settling /\ lost' = {} => Spent' = actual /\ TokenSpent' = actual /\ quota' = actual

LEMMA SettleStep ==
    ASSUME IInv, TypeInv', NEW p \in Pollers, pc[p] \in Settling, pc'[p] \in Settling \cup {"idle"},
           \A q \in Pollers \ {p} : pc'[q] = pc[q] /\ view'[q] = view[q],
           UNCHANGED <<status, task, client>>, TokenSpent \in {price, actual} /\ Settler(p) => SettleGoesOn(p)
    PROVE  IInv'
<1>0. /\ status = "SUCCESS"
      /\ price' = price /\ actual' = actual
  BY DEF IInv, ReadInv, task
<1>1. FailureInv' /\ ReadInv(p)'
  BY <1>0 DEF FailureInv, ReadInv, Refunds, Settling
<1>2. SuccessInv'
  <2> SUFFICES ASSUME status = "SUCCESS" PROVE SuccessInv'
    BY DEF SuccessInv
  <2>0. TokenSpent \in {price, actual} /\ Settler(p) /\ \A q \in Pollers \ {p} : pc[q] \notin Settling
    BY DEF IInv, SuccessInv
  <2>1. SettleGoesOn(p)
    BY <2>0
  <2>2. \A q \in Pollers \ {p} : pc'[q] \notin Settling
    BY <2>0
  <2> QED BY <1>0, <2>1, <2>2 DEF SuccessInv, SettleGoesOn
<1>3. pc[p] \in Billing /\ pc'[p] \in Billing \cup Idle
  BY DEF Settling, Billing, Idle
<1> QED BY <1>1, <1>2, <1>3, BillStep

LEMMA SettleFundingStep == ASSUME IInv, TypeInv', NEW p \in Pollers, SettleFunding(p) PROVE IInv'
<1>0. /\ pc[p] = "settle" /\ UNCHANGED <<row, task, view, client>>
      /\ status' = status /\ quota' = quota /\ price' = price /\ actual' = actual
  BY DEF SettleFunding, row, task
<1>1. CASE AdjustFunding(actual - view[p].quota) /\ Goto(p, "settleToken")
  <2>1. pc'[p] = "settleToken" /\ view'[p] = view[p]
        /\ \A q \in Pollers \ {p} : pc'[q] = pc[q] /\ view'[q] = view[q]
    BY <1>0, <1>1, GotoEffect
  <2>2. Spent' = Spent + (actual - view[p].quota) /\ TokenSpent' = TokenSpent
    BY <1>0, <1>1, NumberType, SpentMoves DEF IInv
  <2>3. ASSUME Settler(p) PROVE SettleGoesOn(p)
    <3>1. Spent' = actual /\ TokenSpent' = price
      BY <1>0, <2>2, <2>3, NumberType DEF Settler, IInv
    <3> QED BY <1>0, <2>1, <2>3, <3>1 DEF Settler, SettleGoesOn, Settling
  <2> QED BY <1>0, <2>1, <2>3, SettleStep DEF Settling
<1>2. CASE FaultLoses({"settle"}) /\ Goto(p, "idle") /\ UNCHANGED ledger
  <2>1. pc'[p] = "idle" /\ view'[p] = view[p]
        /\ \A q \in Pollers \ {p} : pc'[q] = pc[q] /\ view'[q] = view[q]
    BY <1>0, <1>2, GotoEffect
  <2>2. Spent' = Spent /\ TokenSpent' = TokenSpent /\ lost' # {} /\ "idle" \notin Settling
    BY <1>0, <1>2, SpentSame DEF FaultLoses, Settling
  <2>3. ASSUME Settler(p) PROVE SettleGoesOn(p)
    BY <1>0, <2>1, <2>2, <2>3 DEF Settler, SettleGoesOn
  <2> QED BY <1>0, <2>1, <2>3, SettleStep DEF Settling
<1> QED BY <1>1, <1>2 DEF SettleFunding

LEMMA SettleTokenStep == ASSUME IInv, TypeInv', NEW p \in Pollers, SettleToken(p) PROVE IInv'
<1>0. /\ pc[p] = "settleToken" /\ UNCHANGED <<row, task, view, client>> /\ Goto(p, "settleQuota")
      /\ status' = status /\ quota' = quota /\ price' = price /\ actual' = actual
  BY DEF SettleToken, row, task
<1>1. pc'[p] = "settleQuota" /\ view'[p] = view[p]
      /\ \A q \in Pollers \ {p} : pc'[q] = pc[q] /\ view'[q] = view[q]
  BY <1>0, GotoEffect
<1>2. Spent' = Spent /\ (TokenSpent' = TokenSpent + (actual - view[p].quota) \/ (TokenSpent' = TokenSpent /\ "token" \in lost'))
  BY <1>0, NumberType, SpentSame, SpentMoves DEF SettleToken, FaultLoses, IInv
<1>3. ASSUME Settler(p) PROVE SettleGoesOn(p)
  <2>1. Spent' = actual /\ TokenSpent' \in {price, actual} /\ (TokenSpent' = actual \/ "token" \in lost')
    BY <1>0, <1>2, <1>3, NumberType DEF Settler, IInv
  <2> QED BY <1>0, <1>1, <1>3, <2>1 DEF Settler, SettleGoesOn, Settling
<1> QED BY <1>0, <1>1, <1>3, SettleStep DEF Settling

LEMMA SettleQuotaStep == ASSUME IInv, TypeInv', NEW p \in Pollers, SettleQuota(p) PROVE IInv'
<1>0. /\ pc[p] = "settleQuota" /\ UNCHANGED <<task, ledger, view, client>> /\ Goto(p, "idle")
      /\ status' = status /\ price' = price /\ actual' = actual /\ Spent' = Spent /\ TokenSpent' = TokenSpent
  BY SpentSame DEF SettleQuota, row, task, UpdateQuota
<1>1. pc'[p] = "idle" /\ view'[p] = view[p] /\ "idle" \notin Settling
      /\ \A q \in Pollers \ {p} : pc'[q] = pc[q] /\ view'[q] = view[q]
  BY <1>0, GotoEffect DEF Settling
<1>2. (quota' = actual /\ lost' = lost) \/ lost' # {}
  BY DEF SettleQuota, UpdateQuota, Ok, FaultLoses
<1>3. ASSUME Settler(p), TokenSpent \in {price, actual} PROVE SettleGoesOn(p)
  BY <1>0, <1>1, <1>2, <1>3 DEF Settler, SettleGoesOn
<1> QED BY <1>0, <1>1, <1>3, SettleStep DEF Settling

LEMMA CrashStep == ASSUME IInv, TypeInv', NEW p \in Pollers, Crash(p) PROVE IInv'
<1>0. /\ UNCHANGED <<row, task, ledger, client>> /\ lost' = lost \cup CrashLoses(p) /\ lost \subseteq lost'
      /\ status' = status /\ quota' = quota /\ price' = price /\ Spent' = Spent /\ TokenSpent' = TokenSpent
      /\ pc'[p] = "idle" /\ \A q \in Pollers \ {p} : pc'[q] = pc[q] /\ view'[q] = view[q]
  BY SpentSame DEF Crash, row, task, GotoView, Goto, IInv, TypeInv, TypeOK
<1>1. "idle" \in Idle /\ "idle" \notin Billing \cup Refunds \cup Settling \cup {"claim"} /\ view[p].claim \in BOOLEAN
  BY DEF Idle, Billing, Refunds, Settling, IInv, TypeInv, TypeOK, Views
<1>2. CASE pc[p] \notin Billing
  <2>1. lost' = lost
    BY <1>0, <1>1, <1>2, CrashEffect
  <2>2. ReadInv(p)'
    BY <1>0, <1>1 DEF ReadInv
  <2> QED BY <1>0, <1>1, <1>2, <2>1, <2>2, ReaderStep
<1>3. CASE pc[p] \in Refunds
  <2>1. ASSUME Refunder(p), RefundInv, lost' \cap {"marker", "grace"} = {} PROVE RefundGoesOn(p)
    <3>1. pc[p] = "refundToken" => view[p].claim /\ "token" \in lost'
      BY <1>0, <1>1, <2>1, CrashEffect
    <3>2. pc[p] = "refundClear" => view[p].claim
      BY <1>0, <1>1, <2>1, CrashEffect
    <3>3. pc[p] \in {"refund", "restore"} => ~view[p].claim \/ "missed" \in lost'
      BY <1>0, <1>1, CrashEffect
    <3>4. Spent \in {0, price} /\ TokenSpent \in {0, price}
      BY <2>1 DEF RefundInv
    <3>5. CASE pc[p] \in {"refund", "restore"}
      BY <1>0, <1>1, <2>1, <3>3, <3>5 DEF RefundGoesOn, Refunder
    <3>6. CASE pc[p] = "refundToken"
      BY <1>0, <1>1, <2>1, <3>1, <3>6, <3>4 DEF RefundGoesOn, Refunder
    <3>7. CASE pc[p] = "refundClear"
      BY <1>0, <1>1, <2>1, <3>2, <3>4, <3>7 DEF RefundGoesOn, Refunder
    <3> QED BY <1>3, <3>5, <3>6, <3>7 DEF Refunds
  <2> QED BY <1>0, <1>1, <1>3, <2>1, RefundStep
<1>4. CASE pc[p] \in Settling
  <2>1. lost' # {}
    BY <1>0, <1>1, <1>4, CrashEffect DEF Settling
  <2>2. ASSUME Settler(p), TokenSpent \in {price, actual} PROVE SettleGoesOn(p)
    BY <1>0, <1>1, <1>4, <2>1, <2>2 DEF SettleGoesOn, Settler, Settling
  <2> QED BY <1>0, <1>1, <1>4, <2>2, SettleStep
<1> QED BY <1>2, <1>3, <1>4 DEF Billing, Refunds, Settling

LEMMA ClaimStep == ASSUME IInv, TypeInv', NEW p \in Pollers, Claim(p) PROVE IInv'
<1>0. /\ pc[p] = "claim" /\ UNCHANGED <<task, ledger, view, client>> /\ status = "FAILURE"
      /\ price' = price /\ legacy' = legacy /\ live' = live
      /\ Spent' = Spent /\ TokenSpent' = TokenSpent /\ lost' = lost
  BY SpentSame DEF Claim, task, Ok, IInv, ReadInv
<1>1. CASE UNCHANGED row /\ Goto(p, "unfinished")
  <2>1. pc'[p] = "unfinished" /\ \A q \in Pollers \ {p} : pc'[q] = pc[q] /\ view'[q] = view[q]
    BY <1>0, <1>1, GotoEffect
  <2>2. {"claim", "unfinished"} \cap Billing = {} /\ "unfinished" \in Idle
    BY DEF Billing, Idle
  <2>3. ReadInv(p)'
    BY <2>1 DEF ReadInv, Refunds, Settling
  <2> QED BY <1>0, <1>1, <2>1, <2>2, <2>3, ReaderStep
<1>2. CASE quota = view[p].quota /\ UpdateQuota(0) /\ Goto(p, "refund")
  <2>1. /\ pc'[p] = "refund" /\ \A q \in Pollers \ {p} : pc'[q] = pc[q] /\ view'[q] = view[q]
        /\ view'[p] = view[p] /\ quota' = 0 /\ ~aged' /\ status' = "FAILURE"
    BY <1>0, <1>2, GotoEffect DEF UpdateQuota
  <2>2. AbsentInv' /\ OpenInv' /\ SuccessInv' /\ ClientInv'
    BY <1>0, <2>1 DEF IInv, AbsentInv, OpenInv, SuccessInv, ClientInv, Open
  <2>3. \A q \in Pollers : ReadInv(q)'
    BY <1>0, <2>1 DEF IInv, ReadInv, Refunds, Settling
  <2>4. FailureInv'
    <3>1. \A q \in Pollers : pc'[q] \in Refunds \cup {"claim"} => view'[q].quota = price
      BY <1>0, <2>1 DEF IInv, FailureInv
    <3>2. ASSUME lost \cap {"marker", "grace"} = {} PROVE RefundInv'
      <4>0. RefundInv /\ quota = price /\ price # 0 /\ view[p].claim
        <5>1. RefundInv
          BY <1>0, <3>2 DEF IInv, FailureInv
        <5> QED BY <1>0, <1>2, <5>1 DEF RefundInv
      <4>1. \A q \in Pollers : pc[q] \notin Refunds
        <5> SUFFICES ASSUME NEW q \in Pollers, pc[q] \in Refunds PROVE FALSE
          OBVIOUS
        <5>1. Refunder(q) /\ ~Refunding(q)
          BY <1>0, <4>0 DEF RefundInv
        <5>2. view[q].claim
          BY <5>1 DEF Refunding, Refunder, Refunds
        <5> QED BY <4>0, <5>1, <5>2 DEF Refunder
      <4>2. Spent = price /\ TokenSpent = price
        BY <4>0, <4>1 DEF RefundInv
      <4>3. \A q \in Pollers \ {p} : pc'[q] \notin Refunds
        BY <2>1, <4>1
      <4>4. Refunder(p)' /\ "refund" \in Refunds
        BY <1>0, <1>2, <2>1, <4>0, <4>2 DEF Refunder, Refunds
      <4>5. \A q \in Pollers : ~(Refunding(q))'
        BY <2>1, <4>0, <4>3 DEF Refunding, Refunds
      <4>6. \A q \in Pollers : pc'[q] = "claim" => view'[q].claim /\ view'[q].quota = price /\ price # 0
        BY <2>1, <4>0 DEF RefundInv
      <4> QED BY <1>0, <2>1, <4>2, <4>3, <4>4, <4>5, <4>6 DEF RefundInv
    <3> QED BY <1>0, <2>1, <3>1, <3>2 DEF FailureInv
  <2> QED BY <2>2, <2>3, <2>4 DEF IInv
<1> QED BY <1>1, <1>2 DEF Claim, ClaimQuotaForRefund

-----------------------------------------------------------------------------
(* The update of an unfinished row. *)

\* The pass that has won the update of the status.
Winner(q) ==
    /\ pc'[q] \in Idle \cup {"settle", "refund"}
    /\ pc'[q] \in Idle \/ (view'[q].quota = price /\ ~view'[q].claim)
    /\ pc'[q] = "settle" => status' = "SUCCESS" /\ actual > 0
    /\ pc'[q] = "refund" => status' = "FAILURE" /\ price # 0 /\ quota' = price

LEMMA UpdateStep ==
    ASSUME IInv, TypeInv', status \in Open, status' \in Results, UNCHANGED <<task, ledger, lost>>, ~aged',
           quota' = price \/ (quota' = 0 /\ legacy /\ status' = "FAILURE"), client' \in {client, NoView},
           \A q \in Pollers : (pc'[q] = pc[q] /\ view'[q] = view[q]) \/ Winner(q),
           \A q, r \in Pollers : pc'[q] \in Billing /\ pc'[r] \in Billing => q = r,
           status' = "SUCCESS" /\ actual > 0 /\ (\A q \in Pollers : pc'[q] # "settle") => actual = price
    PROVE  IInv'
<1>0. /\ price' = price /\ actual' = actual /\ legacy' = legacy /\ live' = live /\ Spent' = Spent /\ TokenSpent' = TokenSpent
      /\ lost' = lost /\ Spent = price /\ TokenSpent = price
      /\ \A q \in Pollers : pc[q] \notin Billing \cup {"claim"}
  BY SpentSame DEF task, IInv, OpenInv
<1>1. /\ Refunds \subseteq Billing /\ Settling \subseteq Billing
      /\ \A q \in Pollers : pc'[q] \in Billing => Winner(q) /\ pc'[q] \in {"settle", "refund"}
      /\ \A q \in Pollers : pc'[q] # "claim"
  <2>1. Refunds \subseteq Billing /\ Settling \subseteq Billing
    BY DEF Refunds, Settling, Billing
  <2>2. \A q \in Pollers : pc'[q] # "claim"
    BY <1>0 DEF Winner, Idle
  <2>3. \A q \in Pollers : pc'[q] \in Billing => Winner(q)
    BY <1>0
  <2>4. Idle \cap Billing = {}
    BY DEF Idle, Billing
  <2> QED BY <2>1, <2>2, <2>3, <2>4 DEF Winner
<1>2. status' # "absent" /\ (status' \in Open => quota' = price) /\ AbsentInv'
  BY DEF Results, Open, Terminal, AbsentInv
<1>3. OpenInv'
  <2>1. ASSUME status' \in Open, NEW q \in Pollers PROVE pc'[q] \notin Billing
    BY <1>1, <2>1 DEF Winner, Open
  <2> QED BY <1>0, <1>1, <1>2, <2>1 DEF OpenInv
<1>4. SuccessInv'
  <2> SUFFICES ASSUME status' = "SUCCESS" PROVE SuccessInv'
    BY DEF SuccessInv
  <2>0. quota' = price /\ "settle" \in Settling
    BY DEF Settling
  <2>1. ASSUME NEW q \in Pollers, pc'[q] \in Settling PROVE Settler(q)'
    <3>1. pc'[q] = "settle" /\ Winner(q)
      BY <1>1, <2>1 DEF Settling
    <3>2. view'[q].quota = price /\ actual > 0
      BY <3>1 DEF Winner, Idle
    <3> QED BY <1>0, <2>0, <3>1, <3>2 DEF Settler
  <2>2. \A q, r \in Pollers : pc'[q] \in Settling /\ pc'[r] \in Settling => q = r
    BY <1>1
  <2>3. (\A q \in Pollers : pc'[q] \notin Settling) /\ actual > 0 => Spent' = actual
    BY <1>0, <2>0
  <2> QED BY <1>0, <2>0, <2>1, <2>2, <2>3 DEF SuccessInv
<1>5. FailureInv'
  <2> SUFFICES ASSUME status' = "FAILURE" PROVE FailureInv'
    BY DEF FailureInv
  <2>0. quota' \in {0, price} /\ "refund" \in Refunds
    BY DEF Refunds
  <2>1. ASSUME NEW q \in Pollers, pc'[q] \in Refunds
        PROVE  pc'[q] = "refund" /\ view'[q].quota = price /\ ~view'[q].claim /\ quota' = price /\ price # 0
    BY <1>1, <2>1 DEF Winner, Refunds, Idle
  <2>2. ASSUME NEW q \in Pollers, pc'[q] \in Refunds PROVE Refunder(q)'
    BY <1>0, <2>1, <2>2 DEF Refunder
  <2>3. RefundInv'
    <3>1. \A q, r \in Pollers : pc'[q] \in Refunds /\ pc'[r] \in Refunds => q = r
      BY <1>1
    <3>2. quota' = 0 => price = 0 \/ legacy
      OBVIOUS
    <3> QED BY <1>0, <1>1, <2>2, <3>1, <3>2 DEF RefundInv
  <2> QED BY <1>0, <1>1, <2>0, <2>1, <2>3 DEF FailureInv
<1>6. ClientInv'
  <2>1. NoView.status \notin Open
    BY NoViewType
  <2> QED BY <1>0, <2>1 DEF IInv, ClientInv
<1>7. ASSUME NEW q \in Pollers PROVE ReadInv(q)'
  <2>1. CASE pc'[q] = pc[q] /\ view'[q] = view[q]
    BY <1>0, <1>1, <2>1 DEF IInv, ReadInv
  <2>2. CASE Winner(q)
    BY <2>2 DEF ReadInv, Winner, Idle, Refunds, Settling
  <2> QED BY <2>1, <2>2
<1> QED BY <1>2, <1>3, <1>4, <1>5, <1>6, <1>7 DEF IInv

\* A pass whose update did not happen.
LEMMA NoUpdate ==
    ASSUME IInv, TypeInv', NEW p \in Pollers, pc[p] \in {"timeout", "apply"}, NEW l \in Idle, Goto(p, l),
           UNCHANGED <<row, task, ledger, view, client, lost>>
    PROVE  IInv'
<1>1. pc'[p] = l /\ \A q \in Pollers \ {p} : pc'[q] = pc[q] /\ view'[q] = view[q]
  BY GotoEffect
<1>2. l \notin Billing \cup {"claim"} /\ pc[p] \notin Billing
  BY DEF Idle, Billing
<1>3. ReadInv(p)'
  BY <1>1 DEF ReadInv, Idle, Refunds, Settling
<1> QED BY <1>1, <1>2, <1>3, ReaderStep

LEMMA TimeOutTaskStep == ASSUME IInv, TypeInv', NEW p \in Pollers, TimeOutTask(p) PROVE IInv'
<1>0. /\ pc[p] = "timeout" /\ UNCHANGED <<task, ledger, view, client, lost>> /\ "unrefunded" \in Idle
      /\ view[p].status \in Open /\ view[p].quota = price /\ ~view[p].claim
  BY DEF TimeOutTask, Ok, Idle, IInv, ReadInv
<1>1. CASE UNCHANGED row /\ Goto(p, "unrefunded")
  BY <1>0, <1>1, NoUpdate
<1>2. CASE /\ UpdateWithStatus(view[p].status, "FAILURE", IF legacy THEN 0 ELSE view[p].quota)
           /\ Goto(p, IF ~legacy /\ view[p].quota # 0 THEN "refund" ELSE "unrefunded")
  <2>1. /\ status \in Open /\ status' = "FAILURE" /\ ~aged' /\ "FAILURE" \in Results
        /\ quota' = IF legacy THEN 0 ELSE price
    BY <1>0, <1>2 DEF UpdateWithStatus, Write, Results, Terminal
  <2>2. /\ pc'[p] = (IF ~legacy /\ price # 0 THEN "refund" ELSE "unrefunded") /\ view'[p] = view[p]
        /\ \A q \in Pollers \ {p} : pc'[q] = pc[q] /\ view'[q] = view[q]
    BY <1>0, <1>2, GotoEffect
  <2>3. Winner(p) /\ pc'[p] # "settle"
    BY <1>0, <2>1, <2>2 DEF Winner
  <2>4. \A q \in Pollers \ {p} : pc'[q] \notin Billing
    BY <2>1, <2>2 DEF IInv, OpenInv
  <2> QED BY <1>0, <2>1, <2>2, <2>3, <2>4, UpdateStep
<1> QED BY <1>1, <1>2 DEF TimeOutTask

LEMMA ApplyStep == ASSUME IInv, TypeInv', NEW p \in Pollers, Apply(p) PROVE IInv'
<1>0. /\ pc[p] = "apply" /\ UNCHANGED <<task, ledger, view, client, lost>> /\ "idle" \in Idle
      /\ view[p].status \in Open /\ view[p].quota = price /\ ~view[p].claim /\ view[p].result \in Results
  BY DEF Apply, Ok, Idle, IInv, TypeInv, ReadInv
<1>1. CASE UNCHANGED row /\ Goto(p, "idle")
  BY <1>0, <1>1, NoUpdate
<1>2. CASE /\ UpdateWithStatus(view[p].status, view[p].result, view[p].quota)
           /\ Goto(p, WinnerBills(view[p]))
  <2>1. status \in Open /\ status' = view[p].result /\ ~aged' /\ quota' = price
    BY <1>0, <1>2 DEF UpdateWithStatus, Write
  <2>2. /\ pc'[p] = WinnerBills(view[p]) /\ view'[p] = view[p]
        /\ \A q \in Pollers \ {p} : pc'[q] = pc[q] /\ view'[q] = view[q]
    BY <1>0, <1>2, GotoEffect
  <2>3. /\ pc'[p] \in {"settle", "refund", "idle"}
        /\ pc'[p] = "settle" <=> NeedsSettlement(view[p])
        /\ pc'[p] = "refund" <=> status' = "FAILURE" /\ price # 0
    BY <1>0, <2>1, <2>2, WinnerType, NumberType DEF IInv
  <2>4. Winner(p)
    BY <1>0, <2>1, <2>2, <2>3 DEF Winner, NeedsSettlement
  <2>5. \A q \in Pollers \ {p} : pc'[q] \notin Billing
    BY <2>1, <2>2 DEF IInv, OpenInv
  <2>6. status' = "SUCCESS" /\ actual > 0 /\ pc'[p] # "settle" => actual = price
    BY <1>0, <2>1, <2>3 DEF NeedsSettlement
  <2> QED BY <1>0, <2>1, <2>2, <2>4, <2>5, <2>6, UpdateStep
<1> QED BY <1>1, <1>2 DEF Apply

LEMMA FailUnreachableStep ==
    ASSUME IInv, TypeInv', NEW p \in Pollers, FailUnreachable(p), "bulk" \notin lost'
    PROVE  IInv'
<1>0. /\ pc[p] = "poll" /\ UNCHANGED <<task, ledger, client>> /\ price' = price /\ lost' = lost
      /\ pc'[p] = "idle" /\ \A q \in Pollers \ {p} : pc'[q] = pc[q] /\ view'[q] = view[q]
  BY DEF FailUnreachable, GotoView, Goto, IInv, TypeInv, TypeOK, task
<1>1. {"poll", "idle"} \cap (Billing \cup {"claim"}) = {} /\ "idle" \in Idle
  BY DEF Billing, Idle
<1>2. CASE UNCHANGED row
  <2>1. ReadInv(p)'
    BY <1>0 DEF ReadInv, Refunds, Settling
  <2> QED BY <1>0, <1>1, <1>2, <2>1, ReaderStep
<1>3. CASE TaskBulkUpdateByID /\ status # "SUCCESS"
  <2>0. status' = "FAILURE" /\ quota' = quota /\ ~aged'
    BY <1>3 DEF TaskBulkUpdateByID
  <2>1. CASE status \in Open
    <3>1. Winner(p) /\ "FAILURE" \in Results /\ quota = price
      BY <1>0, <1>1, <2>1 DEF Winner, Results, Terminal, IInv, OpenInv
    <3>2. \A q \in Pollers : pc'[q] \notin Billing
      BY <1>0, <1>1, <2>1 DEF IInv, OpenInv
    <3> QED BY <1>0, <2>0, <2>1, <3>1, <3>2, UpdateStep
  <2>2. CASE status = "FAILURE"
    <3>0. Spent' = Spent /\ TokenSpent' = TokenSpent /\ legacy' = legacy /\ live' = live
      BY <1>0, SpentSame DEF task
    <3>1. AbsentInv' /\ OpenInv' /\ SuccessInv'
      BY <2>0 DEF AbsentInv, OpenInv, SuccessInv, Open
    <3>2. ClientInv' /\ \A q \in Pollers : ReadInv(q)'
      BY <1>0, <2>0, <2>2, <3>0 DEF IInv, ClientInv, ReadInv, Refunds, Settling
    <3>3. \A q \in Pollers : pc'[q] \in Refunds \cup {"claim"} => q # p
      BY <1>0 DEF Refunds
    <3>4. ASSUME RefundInv PROVE RefundInv'
      <4>1. \A q \in Pollers : pc[q] \in Refunds <=> pc'[q] \in Refunds
        BY <1>0 DEF Refunds
      <4>2. \A q \in Pollers : (Refunding(q))' => Refunding(q)
        BY <1>0 DEF Refunding
      <4>3. \A q \in Pollers : pc'[q] \in Refunds => Refunder(q)'
        BY <1>0, <2>0, <3>0, <3>3, <3>4 DEF RefundInv, Refunder
      <4>4. \A q, r \in Pollers : pc'[q] \in Refunds /\ pc'[r] \in Refunds => q = r
        BY <3>4, <4>1 DEF RefundInv
      <4>5. \A q \in Pollers : pc'[q] = "claim" => pc[q] = "claim" /\ view'[q] = view[q]
        BY <1>0
      <4>6. \A q \in Pollers : (Refunding(q))' => ~aged' /\ \A r \in Pollers : pc'[r] # "claim"
        BY <2>0, <3>4, <4>2, <4>5 DEF RefundInv
      <4> QED BY <1>0, <2>0, <3>0, <3>4, <4>1, <4>3, <4>4, <4>5, <4>6 DEF RefundInv
    <3>5. FailureInv'
      BY <1>0, <2>0, <2>2, <3>3, <3>4 DEF IInv, FailureInv
    <3> QED BY <3>1, <3>2, <3>5 DEF IInv
  <2>3. status # "absent"
    BY <1>0 DEF IInv, AbsentInv, Idle
  <2> QED BY <1>3, <2>1, <2>2, <2>3 DEF IInv, TypeInv, TypeOK, Terminal
<1> QED BY <1>2, <1>3 DEF FailUnreachable

-----------------------------------------------------------------------------
(* The steps of the others. *)

LEMMA SubmitTaskStep == ASSUME IInv, TypeInv', SubmitTask PROVE IInv'
<1>0. /\ status = "absent" /\ UNCHANGED <<pc, view, client>>
      /\ price' = price /\ legacy' = legacy /\ live' = live /\ client = NoView /\ ~legacy
      /\ \A p \in Pollers : pc[p] \in Idle
  BY DEF SubmitTask, IInv, AbsentInv
<1>a. gap = 0 /\ tokenGap = 0
  BY DEF SubmitTask, IInv, AbsentInv
<1>b. Spent' = price /\ TokenSpent' = price
  BY <1>a, NumberType, TaskBillingAssumption DEF SubmitTask, SettleSubmission, Spent, TokenSpent, IInv
<1>1. (status' = "absent" /\ quota' = 0 /\ lost' # {}) \/ (status' = "QUEUED" /\ quota' = price)
  BY <1>0 DEF SubmitTask, Write, row, IInv, AbsentInv
<1>2. AbsentInv' /\ SuccessInv' /\ FailureInv'
  BY <1>0, <1>b, <1>1 DEF AbsentInv, SuccessInv, FailureInv
<1>3. OpenInv'
  <2>1. Idle \cap (Billing \cup {"claim"}) = {}
    BY DEF Idle, Billing
  <2> QED BY <1>0, <1>b, <1>1, <2>1 DEF OpenInv, Open
<1>4. ClientInv' /\ \A p \in Pollers : ReadInv(p)'
  BY <1>0 DEF IInv, ClientInv, ReadInv, Idle, Refunds, Settling
<1> QED BY <1>2, <1>3, <1>4 DEF IInv

\* A step that changes neither the row's status nor what anybody has in mind.
LEMMA QuietStep ==
    ASSUME IInv, TypeInv', UNCHANGED <<status, quota, legacy, price, actual, gap, tokenGap, Spent, TokenSpent, pc, view>>,
           ClientInv', status = "absent" => client' = client, lost \subseteq lost',
           \/ aged' = aged /\ lost' = lost
           \/ \A p \in Pollers : Refunding(p) => lost' \cap {"grace"} # {}
    PROVE  IInv'
<1>1. AbsentInv' /\ OpenInv' /\ \A p \in Pollers : ReadInv(p)'
  BY DEF IInv, AbsentInv, OpenInv, ReadInv
<1>2. SuccessInv'
  <2>1. \A p \in Pollers : Settler(p) => Settler(p)'
    BY DEF Settler
  <2> QED BY <2>1 DEF IInv, SuccessInv
<1>3. FailureInv'
  <2>1. \A p \in Pollers : Refunder(p) => Refunder(p)'
    BY DEF Refunder
  <2>2. \A p \in Pollers : (Refunding(p))' <=> Refunding(p)
    BY DEF Refunding
  <2>3. ASSUME RefundInv, lost' \cap {"marker", "grace"} = {} PROVE RefundInv'
    BY <2>1, <2>2, <2>3 DEF RefundInv
  <2> QED BY <2>3 DEF IInv, FailureInv
<1> QED BY <1>1, <1>2, <1>3 DEF IInv

LEMMA RealtimeReadStep == ASSUME IInv, TypeInv', RealtimeRead PROVE IInv'
<1>1. ClientInv'
  <2>1. client' = Read /\ Read.status = status /\ Read.quota = quota /\ live' /\ price' = price
    BY ReadType DEF RealtimeRead, IInv, task
  <2> QED BY <2>1 DEF ClientInv, IInv, OpenInv
<1> QED BY <1>1, SpentSame, QuietStep DEF RealtimeRead, row, task, env

LEMMA RealtimeUpdateStep == ASSUME IInv, TypeInv', RealtimeUpdate, Clean, Clean' PROVE IInv'
<1>0. UNCHANGED <<task, ledger, pc, view, lost>> /\ client' = NoView /\ client # NoView
  BY DEF RealtimeUpdate
<1>1. CASE UNCHANGED row
  <2>1. ClientInv'
    BY <1>0, NoViewType DEF ClientInv
  <2>2. status # "absent"
    BY <1>0 DEF IInv, AbsentInv
  <2> QED BY <1>0, <1>1, <2>1, <2>2, SpentSame, QuietStep DEF row, task
<1>2. ASSUME NEW s \in Results, UpdateWithStatus(client.status, s, client.quota), CountRewrite
      PROVE  IInv'
  <2>0. status # "absent" /\ actual = 0
    BY <1>0 DEF IInv, AbsentInv, ClientInv, TypeInv, TypeOK
  <2>1. client.status \notin Terminal
    BY <1>2 DEF CountRewrite, Clean
  <2>2. status \in Open /\ status' = s /\ quota' = price /\ ~aged'
    BY <1>2, <2>0, <2>1 DEF IInv, TypeInv, TypeOK, ClientInv, UpdateWithStatus, Write
  <2>3. \A q \in Pollers : pc'[q] = pc[q] /\ view'[q] = view[q] /\ pc'[q] \notin Billing
    BY <1>0, <2>2 DEF IInv, OpenInv
  <2> QED BY <1>0, <2>0, <2>2, <2>3, UpdateStep
<1> QED BY <1>1, <1>2 DEF RealtimeUpdate

LEMMA TimeStep == ASSUME IInv, TypeInv', TimeOut \/ GraceElapses PROVE IInv'
<1>1. ClientInv'
  BY DEF TimeOut, GraceElapses, task, IInv, ClientInv
<1>2. CASE TimeOut
  BY <1>1, <1>2, QuietStep DEF TimeOut, row, ledger, env, Spent, TokenSpent
<1>3. CASE GraceElapses
  BY <1>1, <1>3, SpentSame, QuietStep DEF GraceElapses, task
<1> QED BY <1>2, <1>3

-----------------------------------------------------------------------------
(* The theorems. *)

LEMMA NextIInv == ASSUME IInv, TypeInv', [Next]_vars, Clean, Clean' PROVE IInv'
<1>1. ASSUME NEW p \in Pollers, PollerStep(p) \/ Cancel(p) \/ Crash(p) PROVE IInv'
  BY <1>1, ReadSteps, TimeOutTaskStep, ClaimStep, RestoreStep, RefundFundingStep, RefundTokenStep,
     RefundClearStep, FailUnreachableStep, ApplyStep, SettleFundingStep, SettleTokenStep, SettleQuotaStep,
     CrashStep DEF PollerStep, Clean
<1>2. CASE UNCHANGED vars
  <2>1. ClientInv'
    BY <1>2 DEF vars, task, IInv, ClientInv
  <2> QED BY <1>2, <2>1, SpentSame, QuietStep DEF vars, row, task, ledger, env
<1> QED BY <1>1, <1>2, SubmitTaskStep, RealtimeReadStep, RealtimeUpdateStep, TimeStep DEF Next

\* What is lost stays lost, and rewrites are not undone.
LEMMA CleanBefore == ASSUME TypeInv, [Next]_vars, Clean' PROVE Clean
<1>1. ASSUME NEW p \in Pollers, PollerStep(p) \/ Cancel(p) \/ Crash(p) PROVE lost \subseteq lost' /\ rewrites' = rewrites
  <2>1. CASE Cancel(p) \/ Crash(p)
    BY <2>1 DEF Cancel, Crash
  <2>2. CASE SweepRead(p) \/ TimeOutTask(p) \/ ReconcileRead(p) \/ Claim(p) \/ Restore(p) \/ RefundFunding(p)
             \/ RefundToken(p) \/ RefundClear(p)
    BY <2>2 DEF SweepRead, TimeOutTask, ReconcileRead, Claim, Restore, RefundFunding, RefundToken, RefundClear,
                Ok, FaultLoses
  <2>3. CASE PollRead(p) \/ FailUnreachable(p) \/ FetchTask(p) \/ Apply(p) \/ SettleFunding(p) \/ SettleToken(p)
             \/ SettleQuota(p)
    BY <2>3 DEF PollRead, FailUnreachable, FetchTask, Apply, SettleFunding, SettleToken, SettleQuota, env,
                Ok, FaultLoses
  <2> QED BY <1>1, <2>1, <2>2, <2>3 DEF PollerStep
<1>2. CASE SubmitTask \/ RealtimeRead \/ TimeOut \/ GraceElapses \/ UNCHANGED vars
  <2>1. lost \subseteq lost' /\ rewrites' = rewrites
    BY <1>2 DEF SubmitTask, RealtimeRead, TimeOut, GraceElapses, vars, env
  <2> QED BY <2>1 DEF Clean
<1>3. CASE RealtimeUpdate
  <2>1. lost' = lost /\ rewrites' \in {rewrites, rewrites + 1} /\ rewrites \in Nat
    BY <1>3 DEF RealtimeUpdate, CountRewrite, TypeInv, TypeOK
  <2> QED BY <2>1 DEF Clean
<1> QED BY <1>1, <1>2, <1>3 DEF Next, Clean

LEMMA NextBillingInv == BillingInv /\ [Next]_vars => BillingInv'
<1> SUFFICES ASSUME BillingInv, [Next]_vars PROVE BillingInv'
  OBVIOUS
<1>1. TypeInv'
  BY NextType DEF BillingInv
<1>2. ASSUME Clean' PROVE IInv'
  <2>1. Clean
    BY <1>2, CleanBefore DEF BillingInv
  <2> QED BY <1>1, <1>2, <2>1, NextIInv DEF BillingInv
<1> QED BY <1>1, <1>2 DEF BillingInv

\* TypeOK: whatever overlaps, fails or crashes, the quota of a row is never negative.
THEOREM TypeCorrect == Spec => []TypeOK
<1>1. Init => TypeInv
  BY InitInv DEF IInv
<1>2. TypeInv => TypeOK
  BY DEF TypeInv
<1> QED BY <1>1, <1>2, NextType, PTL DEF Spec

\* The inductive invariant: the types, always, and the rest until the bulk update
\* overwrites a completed row or a live fetch one that it read as finished.
THEOREM AlwaysBillingInv == Spec => []BillingInv
<1>1. Init => BillingInv
  BY InitInv DEF IInv, BillingInv
<1> QED BY <1>1, NextBillingInv, PTL DEF Spec

\* RowExplainsCharge: the row says what funding source and token have spent, whenever
\* no pass is at a refund or a settlement and nothing was lost or rewritten, for any
\* passes, prices, failing calls and crashes, live fetches and vanishing channels.
THEOREM AlwaysRowExplainsCharge == Spec => []RowExplainsCharge
<1>1. ASSUME BillingInv PROVE RowExplainsCharge
  <2> SUFFICES ASSUME Quiet, lost = {}, rewrites = 0, status # "absent"
               PROVE  /\ Spent = TokenSpent
                      /\ Spent = quota \/ (legacy /\ status = "FAILURE" /\ quota = 0 /\ Spent = price)
    BY DEF RowExplainsCharge
  <2>a. IInv
    BY <1>1 DEF BillingInv, Clean
  <2>0. \A p \in Pollers : pc[p] \notin Refunds /\ pc[p] \notin Settling
    BY DEF Quiet, Billing, Refunds, Settling
  <2>1. CASE status \in Open
    BY <2>a, <2>1 DEF IInv, OpenInv
  <2>2. CASE status = "SUCCESS"
    BY <2>a, <2>0, <2>2 DEF IInv, SuccessInv
  <2>3. CASE status = "FAILURE"
    <3>1. RefundInv /\ quota \in {0, price}
      BY <2>a, <2>3 DEF IInv, FailureInv
    <3> QED BY <2>0, <2>3, <3>1 DEF RefundInv
  <2> QED BY <2>a, <2>1, <2>2, <2>3 DEF IInv, TypeInv, TypeOK, Terminal
<1> QED BY <1>1, AlwaysBillingInv, PTL

\* NeverOverRefunded: no interleaving of passes, failing calls and crashes refunds more
\* than the row says the task cost, unless a refund left its marker behind or outlasted
\* the grace period, or a finished row was overwritten.
THEOREM AlwaysNeverOverRefunded == Spec => []NeverOverRefunded
<1>1. ASSUME BillingInv PROVE NeverOverRefunded
  <2> SUFFICES ASSUME lost \cap {"marker", "grace", "bulk"} = {}, rewrites = 0
               PROVE  Spent \in {0, price, actual} /\ TokenSpent \in {0, price, actual}
    BY <1>1, NumberType DEF NeverOverRefunded, BillingInv
  <2>1. IInv /\ lost \cap {"marker", "grace"} = {}
    BY <1>1 DEF BillingInv, Clean
  <2> QED BY <2>1 DEF IInv, TypeInv, TypeOK, Terminal, AbsentInv, OpenInv, SuccessInv, FailureInv, RefundInv
<1> QED BY <1>1, AlwaysBillingInv, PTL

\* SettledOnComplete: a completed task has cost what settleTaskBillingOnComplete computes,
\* whoever completed it, if nothing was lost or rewritten.
THEOREM AlwaysSettledOnComplete == Spec => []SettledOnComplete
<1>1. ASSUME BillingInv PROVE SettledOnComplete
  <2> SUFFICES ASSUME status = "SUCCESS", Quiet, lost = {}, rewrites = 0, actual > 0 PROVE Spent = actual
    BY DEF SettledOnComplete
  <2>0. \A p \in Pollers : pc[p] \notin Settling
    BY DEF Quiet, Billing, Settling
  <2>1. IInv
    BY <1>1 DEF BillingInv, Clean
  <2> QED BY <2>0, <2>1 DEF IInv, SuccessInv
<1> QED BY <1>1, AlwaysBillingInv, PTL

\* LateWritesLose: whatever fails or overlaps, only the bulk update of an unreachable task
\* and a live fetch that read that very status write over a terminal status.
THEOREM AlwaysLateWritesLose == Spec => LateWritesLose
<1> DEFINE Loses ==
      (status \in Terminal /\ status' # status) =>
          \/ status' = "FAILURE" /\ \E p \in Pollers : pc[p] = "poll" /\ pc'[p] = "idle"
          \/ client.status = status /\ client' = NoView
<1>1. ASSUME TypeInv, [Next]_vars PROVE Loses
  <2> SUFFICES ASSUME status \in Terminal, status' # status
               PROVE  \/ status' = "FAILURE" /\ \E p \in Pollers : pc[p] = "poll" /\ pc'[p] = "idle"
                      \/ client.status = status /\ client' = NoView
    OBVIOUS
  <2>0. status \notin Open /\ status # "absent"
    BY DEF Terminal, Open
  <2>1. ASSUME NEW p \in Pollers, PollerStep(p) \/ Cancel(p) \/ Crash(p), ~FailUnreachable(p) PROVE FALSE
    <3>1. CASE TimeOutTask(p) \/ Apply(p)
      <4>1. pc[p] \in {"timeout", "apply"}
        BY <3>1 DEF TimeOutTask, Apply
      <4>2. view[p].status \in Open
        BY <1>1, <4>1 DEF TypeInv
      <4> QED BY <2>0, <3>1, <4>2 DEF TimeOutTask, Apply, UpdateWithStatus, row
    <3>2. CASE ~(TimeOutTask(p) \/ Apply(p))
      BY <2>1, <3>2 DEF PollerStep, SweepRead, ReconcileRead, Claim, Restore, RefundFunding, RefundToken, RefundClear,
         PollRead, FetchTask, SettleFunding, SettleToken, SettleQuota, Cancel, Crash, row,
         ClaimQuotaForRefund, RestoreQuotaAfterFailedRefund, UpdateQuota
    <3> QED BY <3>1, <3>2
  <2>2. ASSUME NEW p \in Pollers, FailUnreachable(p)
        PROVE  status' = "FAILURE" /\ pc[p] = "poll" /\ pc'[p] = "idle"
    BY <1>1, <2>2 DEF FailUnreachable, TaskBulkUpdateByID, row, GotoView, Goto, TypeInv, TypeOK
  <2>3. CASE RealtimeUpdate
    BY <2>3 DEF RealtimeUpdate, UpdateWithStatus, row
  <2>4. ~(SubmitTask \/ RealtimeRead \/ TimeOut \/ GraceElapses \/ UNCHANGED vars)
    BY <2>0 DEF SubmitTask, RealtimeRead, TimeOut, GraceElapses, vars, row
  <2> QED BY <1>1, <2>1, <2>2, <2>3, <2>4 DEF Next
<1>2. TypeInv /\ [Next]_vars => [Loses]_vars
  BY <1>1
<1>3. Init => TypeInv
  BY InitInv DEF IInv
<1> QED BY <1>2, <1>3, NextType, PTL DEF Spec, LateWritesLose
=============================================================================
