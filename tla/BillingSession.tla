--------------------------- MODULE BillingSession ---------------------------
(***************************************************************************)
(* The billing life of relay requests of one user: service/billing_session *)
(* and the funding sources behind it.  A request pre-consumes quota from   *)
(* its token and from one funding source (the wallet or the subscription), *)
(* is relayed upstream, and is then settled at its actual price or         *)
(* refunded.  Several requests run at once over the same three database    *)
(* rows, every database call may fail, and a refund runs in a goroutine of *)
(* its own.  A crash of the process is a request that takes no more steps. *)
(*                                                                         *)
(* Each action is one database call of the code (or the code between two). *)
(* The deployment modelled has neither Redis nor batch updates, so a       *)
(* balance read is a read of the row.                                      *)
(***************************************************************************)
EXTENDS Integers, FiniteSets, FiniteSetsExt

CONSTANTS
    Requests,       \* the requests of the user
    Profiles,       \* what a request may look like, see ProfileShape
    InitWallet,     \* the user's quota before the requests
    InitToken,      \* the remain_quota of the user's token
    SubTotal,       \* amount_total of the subscription, 0 is unlimited
    AllowOverflow,  \* allow_wallet_overflow of the subscription
    Actuals,        \* the prices a served request can turn out to have
    TrustQuota,     \* common.GetTrustQuota()
    ViolationFee,   \* the fee of ChargeViolationFeeIfNeeded
    MaxFaults       \* bound: database calls that fail in a behaviour

Preferences == {"subscription_only", "wallet_only", "wallet_first", "subscription_first"}

\* A request: its user's billing preference, the quota to pre-consume, and
\* the flags of RelayInfo that the session reads.
ProfileShape ==
    [pref : Preferences, quota : Nat,
     free : BOOLEAN, playground : BOOLEAN, unlimited : BOOLEAN, force : BOOLEAN,
     package : BOOLEAN, packageFallback : BOOLEAN]

ASSUME ConstantsAssumption ==
    /\ Profiles \subseteq ProfileShape
    /\ InitWallet \in Int /\ InitToken \in Int
    /\ SubTotal \in Nat /\ AllowOverflow \in BOOLEAN
    /\ Actuals \subseteq Nat
    /\ TrustQuota \in Nat /\ ViolationFee \in Nat /\ MaxFaults \in Nat

ASSUME RequestsAssumption == IsFiniteSet(Requests)

VARIABLES
    prof,       \* the profile of each request, fixed when it arrives
    pc,         \* where the request's own goroutine is
    bg,         \* where its refund goroutine is
    alt,        \* the fallback NewBillingSession still has for it
    ses,        \* its BillingSession
    actual,     \* the price of a served request
    tries,      \* refundWithRetry attempts that failed
    err,        \* the calls made for the request that returned an error
    wallet,     \* users.quota
    token,      \* tokens.remain_quota
    used,       \* user_subscriptions.amount_used
    active,     \* the subscription is active and not past its end time
    rec,        \* status of the request's subscription_pre_consume_record
    faults,     \* database calls that failed so far
    paid,       \* ledger: what the request took from its funding source, net
    tokPaid,    \* ledger: what the request took from the token, net
    fee         \* ledger: the violation fee taken from the funding source

vars == <<prof, pc, bg, alt, ses, actual, tries, err, wallet, token, used,
          active, rec, faults, paid, tokPaid, fee>>

\* The rows and ledgers that a step of the control flow alone leaves as they are.
money == <<wallet, token, used, rec, paid, tokPaid, fee>>

\* The fields of BillingSession and of its FundingSource.  quota is the
\* effectiveQuota of preConsume, cons the wallet's consumed or the
\* subscription's preConsumed and tokenQuota the remain_quota that
\* authentication left in the context.  No caller of the repository uses
\* Reserve, so preConsumedQuota does not grow and extraReserved stays zero.
NoSession(t) ==
    [src |-> "none", quota |-> 0, pre |-> 0, tok |-> 0, cons |-> 0,
     tokenQuota |-> t,
     trusted |-> FALSE, fundingSettled |-> FALSE, settled |-> FALSE, refunded |-> FALSE]

Init ==
    /\ prof \in [Requests -> Profiles]
    /\ pc = [r \in Requests |-> "idle"]
    /\ bg = [r \in Requests |-> "none"]
    /\ alt = [r \in Requests |-> "none"]
    /\ ses = [r \in Requests |-> NoSession(0)]
    /\ actual = [r \in Requests |-> 0]
    /\ tries = [r \in Requests |-> 0]
    /\ err = [r \in Requests |-> {}]
    /\ wallet = InitWallet /\ token = InitToken /\ used = 0
    /\ active \in BOOLEAN
    /\ rec = [r \in Requests |-> "none"]
    /\ faults = 0
    /\ paid = [r \in Requests |-> 0]
    /\ tokPaid = [r \in Requests |-> 0]
    /\ fee = [r \in Requests |-> 0]

-----------------------------------------------------------------------------
(* Database calls.                                                         *)

\* A call of request r fails and is remembered under the name c.
Fault(r, c) ==
    /\ faults < MaxFaults
    /\ faults' = faults + 1
    /\ err' = [err EXCEPT ![r] = @ \cup {c}]

NoFault == UNCHANGED <<faults, err>>

\* Mutant: the UPDATE refuses to take the balance below zero.
AddUserQuotaClamped(r, n) ==
    /\ wallet' = IF wallet - n < 0 THEN 0 ELSE wallet - n
    /\ paid' = [paid EXCEPT ![r] = @ + n]
    /\ UNCHANGED used

\* DecreaseUserQuota (n > 0) and IncreaseUserQuota (n < 0): one UPDATE that
\* adds to the column, so concurrent calls do not lose one another's change.
AddUserQuota(r, n) ==
    /\ wallet' = wallet - n
    /\ paid' = [paid EXCEPT ![r] = @ + n]
    /\ UNCHANGED used

\* Mutant: no lower bound on amount_used.
SubUsedAfterUnclamped(n) == used + n

\* What PostConsumeUserSubscriptionDelta writes: never below zero.
SubUsedAfter(n) == IF used + n < 0 THEN 0 ELSE used + n

\* Mutant: the total is only checked when quota is pre-consumed.
SubDeltaFitsAlways(n) == TRUE

\* Its error return: the plan has a total and the new value is above it.
SubDeltaFits(n) == SubTotal > 0 => SubUsedAfter(n) <= SubTotal

\* The ledger moves by what the call was to move; that the clamp never makes
\* the row move by less is SubscriptionCovered.
AddSubUsed(r, n) ==
    /\ used' = SubUsedAfter(n)
    /\ paid' = [paid EXCEPT ![r] = @ + n]
    /\ UNCHANGED wallet

\* The row that the funding source moves, and PostConsumeQuota without a session.
AddFunding(r, n) ==
    IF ses[r].src = "sub" THEN AddSubUsed(r, n) ELSE AddUserQuota(r, n)

FundingFits(r, n) == ses[r].src = "sub" => SubDeltaFits(n)

\* DecreaseTokenQuota (n > 0) and IncreaseTokenQuota (n < 0).
AddTokenQuota(r, n) ==
    /\ token' = token - n
    /\ tokPaid' = [tokPaid EXCEPT ![r] = @ + n]

TokenUnchanged == UNCHANGED <<token, tokPaid>>

FundingUnchanged == UNCHANGED <<wallet, used, paid>>

-----------------------------------------------------------------------------
(* NewBillingSession: routing, the wallet and subscription attempts.       *)

Goto(r, l) == pc' = [pc EXCEPT ![r] = l]

Route(r, l, fallback) ==
    /\ Goto(r, l)
    /\ alt' = [alt EXCEPT ![r] = fallback]

\* Authentication has put the token's quota in the context; the package
\* match and the user's preference choose the first attempt.
NewBillingSession(r) ==
    /\ pc[r] = "idle"
    /\ ses' = [ses EXCEPT ![r] = NoSession(token)]
    /\ LET p == prof[r] IN
       \/ /\ p.free
          /\ Route(r, "relay", "none") /\ NoFault
       \/ /\ ~p.free /\ p.package /\ active
          /\ Route(r, "sub", IF p.packageFallback THEN "wallet" ELSE "none") /\ NoFault
       \/ /\ ~p.free /\ ~(p.package /\ active)
          /\ CASE p.pref = "subscription_only" -> Route(r, "sub", "none")
               [] p.pref = "wallet_only" -> Route(r, "wallet", "none")
               [] p.pref = "wallet_first" -> Route(r, "wallet", "sub")
               [] p.pref = "subscription_first" ->
                    IF active THEN Route(r, "sub", "overflow") ELSE Route(r, "wallet", "none")
          /\ NoFault
       \/ /\ ~p.free /\ Fault(r, "lookup")
          /\ Route(r, "rejected", "none")
    /\ UNCHANGED <<prof, bg, actual, tries, active, money>>

\* ErrorCodeInsufficientUserQuota: the session is dropped and the attempt
\* that the preference still allows is made, if there is one.
Insufficient(r) ==
    /\ ses' = [ses EXCEPT ![r] = NoSession(@.tokenQuota)]
    /\ Route(r, IF alt[r] = "none" THEN "rejected" ELSE alt[r], "none")

Reject(r) ==
    /\ Route(r, "rejected", "none")
    /\ ses' = [ses EXCEPT ![r] = NoSession(@.tokenQuota)]

\* UserActiveSubscriptionsAllowWalletOverflow, before subscription_first falls
\* back to the wallet.
WalletOverflow(r) ==
    /\ pc[r] = "overflow"
    /\ \/ Goto(r, IF active => AllowOverflow THEN "wallet" ELSE "rejected") /\ NoFault
       \/ Fault(r, "lookup") /\ Goto(r, "rejected")
    /\ UNCHANGED <<prof, bg, alt, ses, actual, tries, active, money>>

\* shouldTrust: never for a subscription, and for a wallet when the quota just
\* read and the token are both above the trust quota.
ShouldTrust(r, source) ==
    /\ source = "wallet"
    /\ ~prof[r].force
    /\ TrustQuota > 0
    /\ prof[r].unlimited \/ ses[r].tokenQuota > TrustQuota
    /\ wallet > TrustQuota

EffectiveQuota(r, source, quota) == IF ShouldTrust(r, source) THEN 0 ELSE quota

\* preConsume up to the token: a trusted or free session takes nothing.
BeginPreConsume(r, source, quota) ==
    LET q == EffectiveQuota(r, source, quota) IN
    /\ ses' = [ses EXCEPT ![r].src = source, ![r].quota = q,
                          ![r].trusted = ShouldTrust(r, source),
                          ![r].tok = IF prof[r].playground THEN q ELSE 0]
    /\ Goto(r, IF q > 0 /\ ~prof[r].playground THEN "tokRead" ELSE "fund")
    /\ UNCHANGED alt

\* tryWallet: the quota is read here and only decreased steps later.
TryWallet(r) ==
    /\ pc[r] = "wallet"
    /\ \/ /\ wallet <= 0 \/ wallet < prof[r].quota
          /\ Insufficient(r) /\ NoFault
       \/ /\ wallet > 0 /\ wallet >= prof[r].quota
          /\ BeginPreConsume(r, "wallet", prof[r].quota) /\ NoFault
       \/ Fault(r, "lookup") /\ Reject(r)
    /\ UNCHANGED <<prof, bg, actual, tries, active, money>>

\* trySubscription: at least one unit, and never trusted.
TrySubscription(r) ==
    /\ pc[r] = "sub"
    /\ BeginPreConsume(r, "sub", IF prof[r].quota = 0 THEN 1 ELSE prof[r].quota)
    /\ NoFault
    /\ UNCHANGED <<prof, bg, actual, tries, active, money>>

\* PreConsumeTokenQuota reads the token and checks it ...
TokenRead(r) ==
    /\ pc[r] = "tokRead"
    /\ \/ /\ prof[r].unlimited \/ token >= ses[r].quota
          /\ Goto(r, "tokDec")
          /\ NoFault /\ UNCHANGED <<alt, ses>>
       \/ /\ ~prof[r].unlimited /\ token < ses[r].quota
          /\ Reject(r) /\ NoFault
       \/ Fault(r, "lookup") /\ Reject(r)
    /\ UNCHANGED <<prof, bg, actual, tries, active, money>>

\* ... and decreases it in a second call, unguarded.
TokenDecrease(r) ==
    /\ pc[r] = "tokDec"
    /\ \/ /\ AddTokenQuota(r, ses[r].quota)
          /\ ses' = [ses EXCEPT ![r].tok = ses[r].quota]
          /\ Goto(r, "fund")
          /\ NoFault /\ UNCHANGED alt
       \/ Fault(r, "token") /\ Reject(r) /\ TokenUnchanged
    /\ FundingUnchanged
    /\ UNCHANGED <<prof, bg, actual, tries, active, rec, fee>>

\* PreConsumeUserSubscription has an active subscription with room for q; a
\* package must have a total.
SubHasRoom(r, q) ==
    /\ active
    /\ prof[r].package => SubTotal > 0
    /\ SubTotal > 0 => SubTotal - used >= q

\* funding.PreConsume: the wallet's is unconditional, the subscription's is
\* one transaction that checks, records the request and adds to amount_used.
FundingPreConsume(r) ==
    /\ pc[r] = "fund"
    /\ LET q == ses[r].quota IN
       \/ /\ ses[r].src = "sub" => SubHasRoom(r, q)
          /\ AddFunding(r, q)
          /\ rec' = IF ses[r].src = "sub" THEN [rec EXCEPT ![r] = "consumed"] ELSE rec
          /\ ses' = [ses EXCEPT ![r].cons = q, ![r].pre = q]
          /\ Goto(r, "relay") /\ NoFault
       \/ /\ ses[r].src = "sub" /\ ~SubHasRoom(r, q)
          /\ Goto(r, "rollbackShort") /\ NoFault
          /\ FundingUnchanged /\ UNCHANGED <<rec, ses>>
       \/ /\ q > 0
          /\ Fault(r, "preConsume") /\ Goto(r, "rollbackError")
          /\ FundingUnchanged /\ UNCHANGED <<rec, ses>>
    /\ TokenUnchanged
    /\ UNCHANGED <<prof, bg, alt, actual, tries, active, fee>>

\* Mutant: a shortage falls back without the rollback.
RollbackTokenForgets(r) ==
    /\ pc[r] \in {"rollbackShort", "rollbackError"}
    /\ IF pc[r] = "rollbackShort" THEN Insufficient(r) ELSE Reject(r)
    /\ NoFault /\ TokenUnchanged /\ FundingUnchanged
    /\ UNCHANGED <<prof, bg, actual, tries, active, rec, fee>>

\* preConsume's rollback of the token, after which only a shortage may fall
\* back to the other source.
RollbackToken(r) ==
    /\ pc[r] \in {"rollbackShort", "rollbackError"}
    /\ \/ /\ prof[r].playground
          /\ TokenUnchanged /\ NoFault
       \/ /\ ~prof[r].playground
          /\ \/ AddTokenQuota(r, -ses[r].tok) /\ NoFault
             \/ Fault(r, "rollbackToken") /\ TokenUnchanged
    /\ IF pc[r] = "rollbackShort" THEN Insufficient(r) ELSE Reject(r)
    /\ FundingUnchanged
    /\ UNCHANGED <<prof, bg, actual, tries, active, rec, fee>>

-----------------------------------------------------------------------------
(* The upstream call and Settle.                                           *)

\* The upstream has answered.  A free model may have its price, too: the
\* surcharge of a tool call.
Serve(r) ==
    /\ pc[r] = "relay"
    /\ \E a \in Actuals : actual' = [actual EXCEPT ![r] = a]
    /\ Goto(r, "settle") /\ NoFault
    /\ UNCHANGED <<prof, bg, alt, ses, tries, active, money>>

Delta(r) == actual[r] - ses[r].pre

HasSession(r) == ses[r].src # "none"

\* SettleBilling, first half: the funding source is adjusted by the difference;
\* a request without a session pays from the wallet (PostConsumeQuota).  An
\* error leaves both flags clear, and the callers only log it.
SettleFunding(r) ==
    /\ pc[r] = "settle"
    /\ \/ /\ Delta(r) = 0
          /\ ses' = [ses EXCEPT ![r].settled = HasSession(r)]
          /\ Goto(r, "served") /\ NoFault /\ FundingUnchanged
       \/ /\ Delta(r) # 0 /\ FundingFits(r, Delta(r))
          /\ AddFunding(r, Delta(r))
          /\ ses' = [ses EXCEPT ![r].fundingSettled = HasSession(r)]
          /\ Goto(r, "settleTok") /\ NoFault
       \/ /\ Delta(r) # 0 /\ ~FundingFits(r, Delta(r))
          /\ err' = [err EXCEPT ![r] = @ \cup {"settle"}]
          /\ Goto(r, "served") /\ UNCHANGED <<faults, ses>> /\ FundingUnchanged
       \/ /\ Delta(r) # 0 /\ Fault(r, "settle")
          /\ Goto(r, "served") /\ UNCHANGED ses /\ FundingUnchanged
    /\ TokenUnchanged
    /\ UNCHANGED <<prof, bg, alt, actual, tries, active, rec, fee>>

\* The second half: the token, whose failure is logged.
SettleToken(r) ==
    /\ pc[r] = "settleTok"
    /\ \/ prof[r].playground /\ TokenUnchanged /\ NoFault
       \/ ~prof[r].playground /\ AddTokenQuota(r, Delta(r)) /\ NoFault
       \/ ~prof[r].playground /\ Fault(r, "settleToken") /\ TokenUnchanged
    /\ ses' = [ses EXCEPT ![r].settled = HasSession(r)]
    /\ Goto(r, "served")
    /\ FundingUnchanged
    /\ UNCHANGED <<prof, bg, alt, actual, tries, active, rec, fee>>

-----------------------------------------------------------------------------
(* Refund and the violation fee.                                           *)

\* needsRefundLocked.
NeedsRefund(r) ==
    /\ ~ses[r].settled /\ ~ses[r].refunded /\ ~ses[r].fundingSettled
    /\ ses[r].tok > 0 \/ (ses[r].src = "sub" /\ ses[r].cons > 0)

\* The relay fails for good: Refund starts its goroutine if there is anything
\* to give back, and ChargeViolationFeeIfNeeded follows without waiting for it.
Fail(r) ==
    /\ pc[r] = "relay"
    /\ IF NeedsRefund(r)
       THEN /\ ses' = [ses EXCEPT ![r].refunded = TRUE]
            /\ bg' = [bg EXCEPT ![r] = "fund"]
       ELSE UNCHANGED <<ses, bg>>
    /\ \/ Goto(r, "failed")
       \/ ViolationFee > 0 /\ Goto(r, "fee")
    /\ NoFault
    /\ UNCHANGED <<prof, alt, actual, tries, active, money>>

\* PostConsumeQuota with the fee: the funding source, then the token.
ChargeViolationFee(r) ==
    /\ pc[r] = "fee"
    /\ LET sub == ses[r].src = "sub" IN
       \/ /\ sub => SubDeltaFits(ViolationFee)
          /\ IF sub THEN used' = SubUsedAfter(ViolationFee) /\ UNCHANGED wallet
                    ELSE wallet' = wallet - ViolationFee /\ UNCHANGED used
          /\ fee' = [fee EXCEPT ![r] = ViolationFee]
          /\ Goto(r, "feeTok") /\ NoFault
       \/ /\ sub /\ ~SubDeltaFits(ViolationFee)
          /\ err' = [err EXCEPT ![r] = @ \cup {"fee"}]
          /\ Goto(r, "failed") /\ UNCHANGED <<wallet, used, fee, faults>>
       \/ /\ Fault(r, "fee")
          /\ Goto(r, "failed") /\ UNCHANGED <<wallet, used, fee>>
    /\ UNCHANGED <<prof, bg, alt, ses, actual, tries, active, token, rec, paid, tokPaid>>

ChargeViolationFeeToken(r) ==
    /\ pc[r] = "feeTok"
    /\ \/ prof[r].playground /\ UNCHANGED token /\ NoFault
       \/ ~prof[r].playground /\ token' = token - ViolationFee /\ NoFault
       \/ ~prof[r].playground /\ Fault(r, "feeToken") /\ UNCHANGED token
    /\ Goto(r, "failed")
    /\ FundingUnchanged
    /\ UNCHANGED <<prof, bg, alt, ses, actual, tries, active, rec, tokPaid, fee>>

BgGoto(r, l) == bg' = [bg EXCEPT ![r] = l]

MaxAttempts == 3    \* refundWithRetry

LastAttempt(r) == tries[r] + 1 >= MaxAttempts

\* refundWithRetry after an attempt that returned an error.
RetryRefund(r) ==
    /\ tries' = [tries EXCEPT ![r] = @ + 1]
    /\ BgGoto(r, IF LastAttempt(r) THEN "token" ELSE "fund")

\* WalletFunding.Refund: one attempt, since the UPDATE is not idempotent.
RefundWallet(r) ==
    /\ bg[r] = "fund" /\ ses[r].src = "wallet"
    /\ \/ AddUserQuota(r, -ses[r].cons) /\ NoFault
       \/ Fault(r, "refund") /\ FundingUnchanged
    /\ BgGoto(r, "token")
    /\ TokenUnchanged
    /\ UNCHANGED <<prof, pc, alt, ses, actual, tries, active, rec, fee>>

\* RefundSubscriptionPreConsume up to PostConsumeUserSubscriptionDelta, which
\* opens and commits a transaction of its own on another connection.
RefundSubscription(r) ==
    /\ bg[r] = "fund" /\ ses[r].src = "sub"
    /\ \/ /\ rec[r] = "refunded"
          /\ BgGoto(r, "token")
          /\ NoFault /\ FundingUnchanged /\ UNCHANGED tries
       \/ /\ rec[r] = "consumed"
          /\ AddSubUsed(r, -ses[r].cons)
          /\ BgGoto(r, "mark")
          /\ NoFault /\ UNCHANGED tries
       \/ /\ Fault(r, IF LastAttempt(r) THEN "refund" ELSE "refundAttempt")
          /\ RetryRefund(r) /\ FundingUnchanged
    /\ TokenUnchanged
    /\ UNCHANGED <<prof, pc, alt, ses, actual, active, rec, fee>>

\* The outer transaction marks the record refunded and commits, or rolls back.
RefundSubscriptionMark(r) ==
    /\ bg[r] = "mark"
    /\ \/ /\ rec' = [rec EXCEPT ![r] = "refunded"]
          /\ BgGoto(r, "token")
          /\ NoFault /\ UNCHANGED tries
       \/ Fault(r, "refundMark") /\ RetryRefund(r) /\ UNCHANGED rec
    /\ FundingUnchanged /\ TokenUnchanged
    /\ UNCHANGED <<prof, pc, alt, ses, actual, active, fee>>

\* Mutant: the token of a playground request is refunded, too.
RefundTokenAlways(r) ==
    /\ bg[r] = "token"
    /\ AddTokenQuota(r, -ses[r].tok) /\ NoFault
    /\ BgGoto(r, "end")
    /\ FundingUnchanged
    /\ UNCHANGED <<prof, pc, alt, ses, actual, tries, active, rec, fee>>

RefundToken(r) ==
    /\ bg[r] = "token"
    /\ LET owed == ses[r].tok > 0 /\ ~prof[r].playground IN
       \/ ~owed /\ TokenUnchanged /\ NoFault
       \/ owed /\ AddTokenQuota(r, -ses[r].tok) /\ NoFault
       \/ owed /\ Fault(r, "refundToken") /\ TokenUnchanged
    /\ BgGoto(r, "end")
    /\ FundingUnchanged
    /\ UNCHANGED <<prof, pc, alt, ses, actual, tries, active, rec, fee>>

-----------------------------------------------------------------------------
\* The subscription expires, or an administrator ends it.
ExpireSubscription ==
    /\ active /\ active' = FALSE
    /\ UNCHANGED <<prof, pc, bg, alt, ses, actual, tries, err, faults, money>>

RequestStep(r) ==
    \/ NewBillingSession(r) \/ TryWallet(r) \/ TrySubscription(r) \/ WalletOverflow(r)
    \/ TokenRead(r) \/ TokenDecrease(r) \/ FundingPreConsume(r) \/ RollbackToken(r)
    \/ Serve(r) \/ SettleFunding(r) \/ SettleToken(r)
    \/ Fail(r) \/ ChargeViolationFee(r) \/ ChargeViolationFeeToken(r)

RefundStep(r) ==
    \/ RefundWallet(r) \/ RefundSubscription(r) \/ RefundSubscriptionMark(r)
    \/ RefundToken(r)

\* The request and its refund goroutine have run to their end.
Quiescent(r) ==
    /\ pc[r] \in {"rejected", "served", "failed"}
    /\ bg[r] \in {"none", "end"}

\* All requests have been dealt with.
Terminating ==
    /\ \A r \in Requests : Quiescent(r)
    /\ UNCHANGED vars

Next ==
    \/ \E r \in Requests : RequestStep(r) \/ RefundStep(r)
    \/ ExpireSubscription
    \/ Terminating

Spec == Init /\ [][Next]_vars

-----------------------------------------------------------------------------
(* Properties.                                                             *)

Labels ==
    {"idle", "wallet", "sub", "overflow", "tokRead", "tokDec", "fund", "rollbackShort",
     "rollbackError", "rejected", "relay", "settle", "settleTok", "served",
     "fee", "feeTok", "failed"}

RefundLabels == {"none", "fund", "mark", "token", "end"}

Calls ==
    {"lookup", "token", "preConsume", "rollbackToken", "settle", "settleToken",
     "refund", "refundAttempt", "refundMark", "refundToken", "fee", "feeToken"}

SessionType ==
    [src : {"none", "wallet", "sub"}, quota : Nat, pre : Nat, tok : Nat, cons : Nat,
     tokenQuota : Int,
     trusted : BOOLEAN, fundingSettled : BOOLEAN, settled : BOOLEAN, refunded : BOOLEAN]

\* The type of the state: in particular no quota of a session is ever negative.
TypeOK ==
    /\ prof \in [Requests -> Profiles]
    /\ pc \in [Requests -> Labels]
    /\ bg \in [Requests -> RefundLabels]
    /\ alt \in [Requests -> {"none", "wallet", "sub", "overflow"}]
    /\ ses \in [Requests -> SessionType]
    /\ actual \in [Requests -> Nat]
    /\ tries \in [Requests -> Nat]
    /\ err \in [Requests -> SUBSET Calls]
    /\ wallet \in Int /\ token \in Int /\ used \in Nat
    /\ active \in BOOLEAN
    /\ rec \in [Requests -> {"none", "consumed", "refunded"}]
    /\ faults \in Nat
    /\ paid \in [Requests -> Int] /\ tokPaid \in [Requests -> Int]
    /\ fee \in [Requests -> Nat]

\* The calls whose failure the code only logs, giving up what they were to move.
FundingGivesUp == {"settle", "refund", "refundMark"}
TokenGivesUp == {"rollbackToken", "settle", "settleToken", "refundToken"}

\* BillingSession's promise (billing_session.go:24, 39, 82): however the steps
\* of the requests interleave and whichever calls fail on the way, a request
\* that has come to its end has paid its actual price if it was served and
\* nothing if it was rejected or failed.  The exceptions are exactly the calls
\* whose error the code logs and drops.  The token pays the same amount, except
\* for playground requests, which never touch it.
ChargedExactly ==
    \A r \in Requests : Quiescent(r) =>
        LET due == IF pc[r] = "served" THEN actual[r] ELSE 0 IN
        /\ err[r] \cap FundingGivesUp = {} => paid[r] = due
        /\ err[r] \cap TokenGivesUp = {} =>
              tokPaid[r] = IF prof[r].playground THEN 0 ELSE due

\* Settle's delta is taken from preConsumedQuota (billing_session.go:48), so a
\* request must never be relayed or settled while the funding source or the
\* token holds anything else for it: a refused attempt and the fallback after it
\* leave both sides at exactly preConsumedQuota or stop the request.
HeldWhileRelayed ==
    \A r \in Requests : pc[r] \in {"relay", "settle"} =>
        /\ paid[r] = ses[r].pre
        /\ err[r] \cap TokenGivesUp = {} =>
              tokPaid[r] = IF prof[r].playground THEN 0 ELSE ses[r].pre

\* The sum of an amount over the requests.
Total(amount) == MapThenSumSet(LAMBDA r : amount[r], Requests)

\* What a request took from the user's row, and from the subscription's.
WalletShare(r) == IF ses[r].src = "sub" THEN 0 ELSE paid[r] + fee[r]
SubShare(r) == IF ses[r].src = "sub" THEN paid[r] + fee[r] ELSE 0

\* The user's row is always explained by the requests: the balance is what it
\* was before them less what each of them has paid, holds and fees included.
\* Concurrent increments and decrements lose no update, and a balance that
\* check-then-decrease has driven below zero (billing_session.go:353 and
\* funding_source.go:40 are two calls) is still exact.
WalletExplained ==
    wallet = InitWallet - Total([r \in Requests |-> WalletShare(r)])

\* amount_used is exactly what the requests hold of the subscription: the
\* clamp at zero in PostConsumeUserSubscriptionDelta (subscription.go:1773)
\* never hides the consumption of another request, and amount_used stays
\* within amount_total although settlements and the violation fee add to it
\* after the check.  (A refund that is repeated is the subject of
\* RefundIdempotent.)
SubscriptionCovered ==
    (\A r \in Requests : "refundMark" \notin err[r]) =>
        /\ used = Total([r \in Requests |-> SubShare(r)])
        /\ SubTotal > 0 => used <= SubTotal

\* subscription.go:1649: "RefundSubscriptionPreConsume is idempotent and
\* refunds pre-consumed subscription quota by requestId", which is why
\* refundWithRetry may repeat it: amount_used never drops below what a request
\* has consumed, however often the refund of another one is tried.
RefundIdempotent == \A r \in Requests : SubShare(r) <= used

\* The refinement mapping to AtomicBilling: what requests only hold still
\* belongs to the user, and a request is charged by the step that lets its
\* session reach the settled price (or that drops a settlement).
Charged(r) == pc[r] \in {"settleTok", "served"}

Hold(r) == IF Charged(r) THEN 0 ELSE paid[r]

FreeBalance == wallet - used + Total([r \in Requests |-> Hold(r)])

Atomic == INSTANCE AtomicBilling WITH
    InitBalance <- InitWallet,
    balance <- FreeBalance,
    charged <- [r \in Requests |-> IF Charged(r) THEN paid[r] ELSE -1],
    fined <- fee,
    excused <- {r \in Requests : "refundMark" \in err[r]}

\* The interleaved, two-source, hold-and-settle machine implements one atomic
\* charge (or fine) for each request, whichever database calls fail, until a
\* refund is repeated after the inner transaction of its first attempt.
ImplementsAtomicBilling == Atomic!ASpec
=============================================================================
