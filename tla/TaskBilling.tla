---------------------------- MODULE TaskBilling ----------------------------
(***************************************************************************)
(* The billing of an asynchronous task (a video, a song) after it was      *)
(* submitted: service/task_polling.go, service/task_billing.go, the task   *)
(* statements of model/task.go and the client's tryRealtimeFetch in        *)
(* relay/relay_task.go.                                                    *)
(*                                                                         *)
(* tasks.quota says what the task has cost so far; on a FAILURE row a      *)
(* quota other than zero marks a refund that is still owed.  A polling     *)
(* pass (RunTaskPollingOnce) fails the tasks that timed out, pays the      *)
(* refunds still owed, and asks the upstream about the unfinished ones.    *)
(* Passes of two nodes overlap when a pass outlives its lease (SystemTask);*)
(* tasks do not interact, so the module follows one row.                   *)
(*                                                                         *)
(* Each action is one SQL statement or one call of the upstream.  A pass   *)
(* works on the row it read earlier (view), and UpdateWithStatus writes    *)
(* all of it back.  The clock is reduced to what the code compares: the    *)
(* task is older than TaskTimeoutMinutes (timedOut), the row was written   *)
(* more than refundReconciliationGracePeriod ago (aged).                   *)
(***************************************************************************)
EXTENDS Integers

CONSTANTS
    Pollers,            \* passes that may overlap
    Prices,             \* result.Quota, charged at submission
    Actuals,            \* what the completed task should cost, 0: no adjustment
    MaxFaults,          \* bound: database calls that fail
    MaxCrashes,         \* bound: processes that die and leases that are lost
    MaxRewrites,        \* bound: live fetches that write a finished row
    Realtime            \* kinds of channels: TRUE for Gemini or Vertex

ASSUME TaskBillingAssumption ==
    /\ Prices \subseteq Nat /\ Actuals \subseteq Nat
    /\ MaxFaults \in Nat /\ MaxCrashes \in Nat /\ MaxRewrites \in Nat
    /\ Realtime \subseteq BOOLEAN

VARIABLES
    status,     \* tasks.status, "absent" before the insert
    quota,      \* tasks.quota
    legacy,     \* submit_time < TaskRefundLegacyCutoff
    timedOut,   \* submit_time < now - TaskTimeoutMinutes
    aged,       \* updated_at <= now - refundReconciliationGracePeriod
    price,      \* result.Quota
    actual,     \* the quota settleTaskBillingOnComplete computes, 0 for none
    live,       \* the channel is Gemini or Vertex: clients fetch the task live
    paid,       \* what the wallet or subscription has paid for the task
    tokenPaid,  \* what the token has paid for the task
    gap,        \* what a failed settlement at submission left unpaid of the price
    tokenGap,   \* and the same for the token
    pc,         \* where each pass is
    view,       \* the task struct each pass holds
    client,     \* the task struct a client's fetch holds, or NoView
    lost,       \* what failed, crashed or slow calls left undone or unprotected
    rewrites,   \* live fetches that wrote a finished row
    faults, crashes

row == <<status, quota, aged>>
task == <<legacy, timedOut, price, actual, live, gap, tokenGap>>
ledger == <<paid, tokenPaid>>
env == <<lost, rewrites, faults, crashes>>
vars == <<row, task, ledger, pc, view, client, env>>

Open == {"QUEUED", "IN_PROGRESS"}
Terminal == {"SUCCESS", "FAILURE"}
None == "none"

NoView == [status |-> None, quota |-> 0, result |-> None, claim |-> FALSE]
Read == [NoView EXCEPT !.status = status, !.quota = quota]

\* A task of the old system is there from the start.  The adaptors of the
\* channels that are fetched live adjust nothing on completion.
Init ==
    /\ legacy \in BOOLEAN /\ price \in Prices /\ actual \in Actuals
    /\ live \in Realtime /\ (live => actual = 0)
    /\ gap = 0 /\ tokenGap = 0
    /\ status = IF legacy THEN "QUEUED" ELSE "absent"
    /\ quota = IF legacy THEN price ELSE 0
    /\ paid = quota /\ tokenPaid = quota
    /\ aged = FALSE /\ timedOut = FALSE
    /\ pc = [p \in Pollers |-> "idle"]
    /\ view = [p \in Pollers |-> NoView]
    /\ client = NoView
    /\ lost = {} /\ rewrites = 0 /\ faults = 0 /\ crashes = 0

Goto(p, l) == pc' = [pc EXCEPT ![p] = l]
GotoView(p, l, v) == Goto(p, l) /\ view' = [view EXCEPT ![p] = v]

Ok == UNCHANGED <<lost, faults>>
Fault == faults < MaxFaults /\ faults' = faults + 1
FaultLoses(what) == Fault /\ lost' = lost \cup what

-----------------------------------------------------------------------------
(* Statements.                                                             *)

Write(s, q) == status' = s /\ quota' = q /\ aged' = FALSE

\* UpdateWithStatus: the whole struct, if the row still has the status read.
UpdateWithStatus(from, s, q) == status = from /\ Write(s, q)

\* TaskBulkUpdateByID to FAILURE: whatever the status is by now.
TaskBulkUpdateByID == status' = "FAILURE" /\ aged' = FALSE /\ UNCHANGED quota

UpdateQuota(q) == quota' = q /\ aged' = FALSE /\ UNCHANGED status

ClaimQuotaForRefund(q) == quota = q /\ UpdateQuota(0)

RestoreQuotaAfterFailedRefund(q) == quota = 0 /\ UpdateQuota(q)

\* taskAdjustFunding, taskAdjustTokenQuota.
AdjustFunding(delta) == paid' = paid + delta /\ UNCHANGED tokenPaid
AdjustTokenQuota(delta) == tokenPaid' = tokenPaid + delta /\ UNCHANGED paid

-----------------------------------------------------------------------------
(* SubmitTask, once the upstream has taken the task: SettleBilling, then   *)
(* the insert.                                                             *)

\* SettleBilling moves both sides from the quota held to result.Quota.  An
\* error of the funding source leaves both at what was held, an error of the
\* token leaves the token there; either is logged and the row says result.Quota.
SettleSubmission ==
    \/ /\ paid' = price /\ tokenPaid' = price
       /\ UNCHANGED <<gap, tokenGap, faults>>
    \/ \E hold \in Prices \ {price} :
          /\ Fault
          /\ paid' \in {hold, price} /\ tokenPaid' = hold
          /\ gap' = price - paid' /\ tokenGap' = price - tokenPaid'

\* The insert may fail, or the process die before it: the task is charged and
\* nobody knows it.
SubmitTask ==
    /\ status = "absent" /\ lost = {}
    /\ SettleSubmission
    /\ \/ Write("QUEUED", price) /\ UNCHANGED lost
       \/ lost' = {"insert"} /\ UNCHANGED row
    /\ UNCHANGED <<legacy, timedOut, price, actual, live, pc, view, client, rewrites, crashes>>

-----------------------------------------------------------------------------
(* sweepTimedOutTasks.                                                     *)

SweepRead(p) ==
    /\ pc[p] = "idle"
    /\ \/ status \in Open /\ timedOut /\ GotoView(p, "timeout", Read) /\ Ok
       \/ ~(status \in Open /\ timedOut) /\ GotoView(p, "unrefunded", NoView) /\ Ok
       \/ Fault /\ GotoView(p, "unrefunded", NoView) /\ UNCHANGED lost
    /\ UNCHANGED <<row, task, ledger, client, rewrites, crashes>>

\* Mutant: the old status is taken after the new one was assigned.
TimeOutComparesNewStatus(p) ==
    /\ pc[p] = "timeout"
    /\ \/ UpdateWithStatus("FAILURE", "FAILURE", view[p].quota)
       \/ status # "FAILURE" /\ UNCHANGED row
    /\ Goto(p, "unrefunded") /\ Ok
    /\ UNCHANGED <<task, ledger, view, client, rewrites, crashes>>

\* A task of the old system gives up its refund with the same statement.
TimeOutTask(p) ==
    /\ pc[p] = "timeout"
    /\ LET v == view[p] IN
       \/ /\ UpdateWithStatus(v.status, "FAILURE", IF legacy THEN 0 ELSE v.quota)
          /\ Goto(p, IF ~legacy /\ v.quota # 0 THEN "refund" ELSE "unrefunded") /\ Ok
       \/ /\ status # v.status
          /\ Goto(p, "unrefunded") /\ Ok /\ UNCHANGED row
       \/ Fault /\ Goto(p, "unrefunded") /\ UNCHANGED <<row, lost>>
    /\ UNCHANGED <<task, ledger, view, client, rewrites, crashes>>

-----------------------------------------------------------------------------
(* sweepUnrefundedFailedTasks.                                             *)

ReconcileRead(p) ==
    /\ pc[p] = "unrefunded"
    /\ LET owed == status = "FAILURE" /\ quota # 0 /\ aged /\ ~legacy IN
       \/ owed /\ GotoView(p, "claim", [Read EXCEPT !.claim = TRUE]) /\ Ok
       \/ ~owed /\ GotoView(p, "unfinished", NoView) /\ Ok
       \/ Fault /\ GotoView(p, "unfinished", NoView) /\ UNCHANGED lost
    /\ UNCHANGED <<row, task, ledger, client, rewrites, crashes>>

\* Mutant: the claim leaves the marker to the end of the refund.
ClaimKeepsMarker(p) ==
    /\ pc[p] = "claim"
    /\ Goto(p, IF quota = view[p].quota THEN "refund" ELSE "unfinished") /\ Ok
    /\ UNCHANGED <<row, task, ledger, view, client, rewrites, crashes>>

Claim(p) ==
    /\ pc[p] = "claim"
    /\ \/ ClaimQuotaForRefund(view[p].quota) /\ Goto(p, "refund") /\ Ok
       \/ quota # view[p].quota /\ Goto(p, "unfinished") /\ Ok /\ UNCHANGED row
       \/ Fault /\ Goto(p, "unfinished") /\ UNCHANGED <<row, lost>>
    /\ UNCHANGED <<task, ledger, view, client, rewrites, crashes>>

\* After RefundTaskQuota returned false.
Restore(p) ==
    /\ pc[p] = "restore"
    /\ \/ RestoreQuotaAfterFailedRefund(view[p].quota) /\ Ok
       \/ quota # 0 /\ UNCHANGED row /\ Ok
       \/ FaultLoses({"missed"}) /\ UNCHANGED row
    /\ Goto(p, "unfinished")
    /\ UNCHANGED <<task, ledger, view, client, rewrites, crashes>>

-----------------------------------------------------------------------------
(* RefundTaskQuota, for the winner of a status change or of a claim.       *)

\* Where the caller goes on.
After(p) ==
    IF view[p].claim THEN "unfinished"
    ELSE IF view[p].result = None THEN "unrefunded" ELSE "idle"

\* Mutant: a claim whose refund fails is not restored.
RefundFundingUnrestored(p) ==
    /\ pc[p] = "refund"
    /\ \/ AdjustFunding(-view[p].quota) /\ Goto(p, "refundToken") /\ Ok
       \/ Fault /\ Goto(p, After(p)) /\ UNCHANGED <<ledger, lost>>
    /\ UNCHANGED <<row, task, view, client, rewrites, crashes>>

RefundFunding(p) ==
    /\ pc[p] = "refund"
    /\ \/ AdjustFunding(-view[p].quota) /\ Goto(p, "refundToken") /\ Ok
       \/ Fault /\ Goto(p, IF view[p].claim THEN "restore" ELSE After(p))
          /\ UNCHANGED <<ledger, lost>>
    /\ UNCHANGED <<row, task, view, client, rewrites, crashes>>

RefundToken(p) ==
    /\ pc[p] = "refundToken"
    /\ \/ AdjustTokenQuota(-view[p].quota) /\ Ok
       \/ FaultLoses({"token"}) /\ UNCHANGED ledger
    /\ Goto(p, "refundClear")
    /\ UNCHANGED <<row, task, view, client, rewrites, crashes>>

\* The marker goes last; a claim has cleared it before.
RefundClear(p) ==
    /\ pc[p] = "refundClear"
    /\ \/ UpdateQuota(0) /\ Ok
       \/ FaultLoses(IF view[p].claim THEN {} ELSE {"marker"}) /\ UNCHANGED row
    /\ Goto(p, After(p))
    /\ UNCHANGED <<task, ledger, view, client, rewrites, crashes>>

-----------------------------------------------------------------------------
(* The unfinished task: updateSunoTasks, updateVideoTasks.                 *)

PollRead(p) ==
    /\ pc[p] = "unfinished"
    /\ \/ status \in Open /\ GotoView(p, "poll", Read) /\ Ok
       \/ status \notin Open /\ GotoView(p, "idle", NoView) /\ Ok
       \/ Fault /\ GotoView(p, "idle", NoView) /\ UNCHANGED lost
    /\ UNCHANGED <<row, task, ledger, client, rewrites, crashes>>

\* No channel (CacheGetChannel fails), or no upstream id.
FailUnreachable(p) ==
    /\ pc[p] = "poll"
    /\ \/ /\ TaskBulkUpdateByID
          /\ lost' = IF status = "SUCCESS" THEN lost \cup {"bulk"} ELSE lost
          /\ UNCHANGED faults
       \/ Fault /\ UNCHANGED <<row, lost>>
    /\ GotoView(p, "idle", NoView)
    /\ UNCHANGED <<task, ledger, client, rewrites, crashes>>

\* What the upstream says: nothing usable (an error, 429, an unknown status),
\* or the state of the task; an error body counts as FAILURE.
Results == Open \cup Terminal

FetchTask(p) ==
    /\ pc[p] = "poll"
    /\ \/ GotoView(p, "idle", NoView)
       \/ \E s \in Results : GotoView(p, "apply", [view[p] EXCEPT !.result = s])
    /\ UNCHANGED <<row, task, ledger, client, env>>

\* Mutant: only a higher price is settled.
NeedsSettlementIfMore(v) == v.result = "SUCCESS" /\ actual > v.quota

\* settleTaskBillingOnComplete and RecalculateTaskQuota up to the early return.
NeedsSettlement(v) == v.result = "SUCCESS" /\ actual > 0 /\ actual # v.quota

\* What the winner of the update does next.
WinnerBills(v) ==
    IF NeedsSettlement(v) THEN "settle"
    ELSE IF v.result = "FAILURE" /\ v.quota # 0 THEN "refund" ELSE "idle"

\* Mutant: the status read is not compared.
ApplyUnguarded(p) ==
    /\ pc[p] = "apply"
    /\ LET v == view[p] IN
       /\ Write(v.result, v.quota)
       /\ Goto(p, WinnerBills(v))
    /\ Ok
    /\ UNCHANGED <<task, ledger, view, client, rewrites, crashes>>

\* Mutant: a failed task is refunded whether or not the update was won.
ApplyRefundsAlways(p) ==
    /\ pc[p] = "apply"
    /\ LET v == view[p] IN
       /\ IF status = v.status THEN Write(v.result, v.quota) ELSE UNCHANGED row
       /\ Goto(p, IF status = v.status \/ v.result = "FAILURE" THEN WinnerBills(v)
                  ELSE "idle")
    /\ Ok
    /\ UNCHANGED <<task, ledger, view, client, rewrites, crashes>>

\* The result is written if the row still has the status read; billing is for
\* the winner.
Apply(p) ==
    /\ pc[p] = "apply"
    /\ LET v == view[p] IN
       \/ /\ UpdateWithStatus(v.status, v.result, v.quota)
          /\ Goto(p, WinnerBills(v)) /\ Ok
       \/ /\ v.result = v.status   \* nothing new: no update
          /\ Goto(p, "idle") /\ Ok /\ UNCHANGED row
       \/ /\ status # v.status
          /\ Goto(p, "idle") /\ Ok /\ UNCHANGED row
       \/ Fault /\ Goto(p, "idle") /\ UNCHANGED <<row, lost>>
    /\ UNCHANGED <<task, ledger, view, client, rewrites, crashes>>

\* RecalculateTaskQuota: the difference, on both sides, then the row.
SettleFunding(p) ==
    /\ pc[p] = "settle"
    /\ \/ AdjustFunding(actual - view[p].quota) /\ Goto(p, "settleToken") /\ Ok
       \/ FaultLoses({"settle"}) /\ Goto(p, "idle") /\ UNCHANGED ledger
    /\ UNCHANGED <<row, task, view, client, rewrites, crashes>>

SettleToken(p) ==
    /\ pc[p] = "settleToken"
    /\ \/ AdjustTokenQuota(actual - view[p].quota) /\ Ok
       \/ FaultLoses({"token"}) /\ UNCHANGED ledger
    /\ Goto(p, "settleQuota")
    /\ UNCHANGED <<row, task, view, client, rewrites, crashes>>

\* Mutant: the difference is written, not the quota.
SettleQuotaDelta(p) ==
    /\ pc[p] = "settleQuota"
    /\ UpdateQuota(actual - view[p].quota) /\ Ok
    /\ Goto(p, "idle")
    /\ UNCHANGED <<task, ledger, view, client, rewrites, crashes>>

SettleQuota(p) ==
    /\ pc[p] = "settleQuota"
    /\ \/ UpdateQuota(actual) /\ Ok
       \/ FaultLoses({"quota"}) /\ UNCHANGED row
    /\ Goto(p, "idle")
    /\ UNCHANGED <<task, ledger, view, client, rewrites, crashes>>

-----------------------------------------------------------------------------
\* The lease is lost: the loops stop before their next task.
Cancel(p) ==
    /\ pc[p] \in {"claim", "poll"}
    /\ crashes < MaxCrashes /\ crashes' = crashes + 1
    /\ GotoView(p, "idle", NoView)
    /\ UNCHANGED <<row, task, ledger, client, lost, rewrites, faults>>

\* What is lost when the process dies where p is.
CrashLoses(p) ==
    LET claim == view[p].claim IN
    CASE pc[p] = "refund" /\ claim -> {"missed"}
      [] pc[p] = "restore" -> {"missed"}
      [] pc[p] = "refundToken" -> IF claim THEN {"token"} ELSE {"marker"}
      [] pc[p] = "refundClear" /\ ~claim -> {"marker"}
      [] pc[p] = "settle" -> {"settle"}
      [] pc[p] = "settleToken" -> {"token", "quota"}
      [] pc[p] = "settleQuota" -> {"quota"}
      [] OTHER -> {}

Crash(p) ==
    /\ crashes < MaxCrashes /\ crashes' = crashes + 1
    /\ lost' = lost \cup CrashLoses(p)
    /\ GotoView(p, "idle", NoView)
    /\ UNCHANGED <<row, task, ledger, client, rewrites, faults>>

-----------------------------------------------------------------------------
(* tryRealtimeFetch, in the request of a client who asks for the task; the *)
(* row may be in any state when it is read.                                *)

RealtimeRead ==
    /\ live /\ status # "absent" /\ client = NoView
    /\ client' = Read
    /\ UNCHANGED <<row, task, ledger, pc, view, env>>

\* A row that was over when the client read it is written once more, its quota
\* of that time included.
CountRewrite ==
    IF client.status \in Terminal THEN rewrites < MaxRewrites /\ rewrites' = rewrites + 1
    ELSE UNCHANGED rewrites

\* Mutant: the row is saved without the condition on the status.
RealtimeSave ==
    /\ client # NoView
    /\ \E s \in Results : Write(s, client.quota)
    /\ CountRewrite
    /\ client' = NoView
    /\ UNCHANGED <<task, ledger, pc, view, lost, faults, crashes>>

\* The upstream's answer is written if the row still has the status read,
\* whichever that was; an error body counts as FAILURE.
RealtimeUpdate ==
    /\ client # NoView
    /\ \/ \E s \in Results : UpdateWithStatus(client.status, s, client.quota) /\ CountRewrite
       \/ UNCHANGED <<row, rewrites>>     \* no answer, nothing new, or the status has moved
    /\ client' = NoView
    /\ UNCHANGED <<task, ledger, pc, view, lost, faults, crashes>>

-----------------------------------------------------------------------------
(* Time.                                                                   *)

TimeOut ==
    /\ status \in Open /\ ~timedOut
    /\ timedOut' = TRUE
    /\ UNCHANGED <<row, legacy, price, actual, live, gap, tokenGap, ledger, pc, view, client, env>>

Refunding(p) == ~view[p].claim /\ pc[p] \in {"refund", "refundToken", "refundClear"}

\* The winner of a status change should have refunded by then.
GraceElapses ==
    /\ status # "absent" /\ ~aged
    /\ aged' = TRUE
    /\ lost' = IF \E p \in Pollers : Refunding(p) THEN lost \cup {"grace"} ELSE lost
    /\ UNCHANGED <<status, quota, task, ledger, pc, view, client, rewrites, faults, crashes>>

PollerStep(p) ==
    \/ SweepRead(p) \/ TimeOutTask(p)
    \/ ReconcileRead(p) \/ Claim(p) \/ Restore(p)
    \/ RefundFunding(p) \/ RefundToken(p) \/ RefundClear(p)
    \/ PollRead(p) \/ FailUnreachable(p) \/ FetchTask(p) \/ Apply(p)
    \/ SettleFunding(p) \/ SettleToken(p) \/ SettleQuota(p)

Next ==
    \/ SubmitTask
    \/ \E p \in Pollers : PollerStep(p) \/ Cancel(p) \/ Crash(p)
    \/ RealtimeRead \/ RealtimeUpdate
    \/ TimeOut \/ GraceElapses

Spec == Init /\ [][Next]_vars

\* While there is work the passes follow one another, each step by step; time
\* passes, and TaskTimeoutMinutes is not 0, which would turn the sweep off.
\* Nothing is assumed of what the upstream answers.
Fairness ==
    /\ \A p \in Pollers : WF_vars(PollerStep(p))
    /\ WF_vars(SubmitTask) /\ WF_vars(TimeOut) /\ WF_vars(GraceElapses)

FairSpec == Spec /\ Fairness

-----------------------------------------------------------------------------
(* Properties.                                                             *)

Losses == {"grace", "insert", "missed", "token", "marker", "settle", "quota", "bulk"}
Billing == {"refund", "refundToken", "refundClear", "restore",
            "settle", "settleToken", "settleQuota"}
Views == [status : Open \cup Terminal \cup {None}, quota : Nat,
          result : Results \cup {None}, claim : BOOLEAN]

\* The type of the state; the quota of a row is never negative.
TypeOK ==
    /\ status \in {"absent"} \cup Open \cup Terminal
    /\ quota \in Nat /\ price \in Prices /\ actual \in Actuals
    /\ paid \in Int /\ tokenPaid \in Int /\ gap \in Int /\ tokenGap \in Int
    /\ live \in BOOLEAN /\ (live => actual = 0)
    /\ legacy \in BOOLEAN /\ timedOut \in BOOLEAN /\ aged \in BOOLEAN
    /\ pc \in [Pollers -> {"idle", "timeout", "unrefunded", "claim", "unfinished",
                           "poll", "apply"} \cup Billing]
    /\ view \in [Pollers -> Views] /\ client \in Views
    /\ lost \subseteq Losses /\ rewrites \in 0 .. MaxRewrites /\ faults \in 0 .. MaxFaults /\ crashes \in 0 .. MaxCrashes

Quiet == \A p \in Pollers : pc[p] \notin Billing

\* What funding source and token have paid, what the submission failed to
\* charge counted as paid.
Spent == paid + gap
TokenSpent == tokenPaid + tokenGap

\* Whenever no pass is in the middle of a refund or a settlement, tasks.quota is
\* what both the funding source and the token have paid for the task, up to what
\* the submission failed to charge: passes that overlap refund and settle once,
\* and a refund that failed is still marked (service/task_billing.go:169,
\* service/task_polling.go:342).  An old task that timed out keeps its charge.
RowExplainsCharge ==
    Quiet /\ lost = {} /\ rewrites = 0 /\ status # "absent" =>
        /\ Spent = TokenSpent
        /\ Spent = quota \/ (legacy /\ status = "FAILURE" /\ quota = 0 /\ Spent = price)

\* A task is never refunded more than its row says it cost, whatever fails and
\* whoever crashes; the reconciliation clears the marker first, so that a crash
\* there loses a refund and never pays one twice (service/task_polling.go:121).
\* The exceptions: a marker that the first refund could not clear, a first refund
\* still under way when the grace period is over, a completed row overwritten by
\* the bulk update, a finished row written once more by a live fetch.
NeverOverRefunded ==
    lost \cap {"marker", "grace", "bulk"} = {} /\ rewrites = 0 => Spent >= 0 /\ TokenSpent >= 0

\* A completed task has been settled: once the pass that completed it is through,
\* the user has paid the quota settleTaskBillingOnComplete computes, up to what
\* the submission failed to charge (service/task_polling.go:680).
SettledOnComplete ==
    status = "SUCCESS" /\ Quiet /\ lost = {} /\ rewrites = 0 /\ actual > 0 => Spent = actual

\* A pass that applies a result, or times the task out, on the strength of a row
\* it read earlier never overwrites a terminal status, nor does any refund or
\* settlement (service/task_polling.go:342, model/task.go:501).  Two writers do:
\* the bulk update of an unreachable task, and a live fetch, if the row still has
\* the very status that the client has read.
LateWritesLose ==
    [][(status \in Terminal /\ status' # status) =>
          \/ status' = "FAILURE" /\ \E p \in Pollers : pc[p] = "poll" /\ pc'[p] = "idle"
          \/ client.status = status /\ client' = NoView]_vars

\* model/task.go:530-532: the bulk update, which "will overwrite any concurrent
\* status changes", is not to be used for failures that trigger refunds; so a
\* terminal status would never be overwritten.
TerminalStable == [][(status \in Terminal) => status' = status]_vars

\* A failed task is refunded in the end, by the pass that failed it or by the
\* reconciliation of a later one, also when the funding source refuses at first
\* or a process dies (service/task_billing.go:170); refunded is what its row says
\* it cost.  Lost are a claimed refund and a token's share, whose errors are only
\* logged.
FailedRefunded ==
    (status = "FAILURE" /\ ~legacy) ~> (Spent <= 0 \/ "missed" \in lost)

\* Every task comes to an end: if the upstream never gives a result, by the
\* timeout sweep (service/task_polling.go:49), unless TaskTimeoutMinutes is 0.
EventuallyTerminal == (status \in Open) ~> (status \in Terminal)
=============================================================================
