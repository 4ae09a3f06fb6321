------------------------ MODULE BillingSessionProofs ------------------------
(***************************************************************************)
(* BillingSession keeps its promise for any number of requests, profiles,  *)
(* prices and failing calls.  ChargedExactly is not inductive: it speaks   *)
(* of finished requests only.  The strengthening below says, at every      *)
(* label of a request, how its ledger entries follow from its session.     *)
(***************************************************************************)
EXTENDS BillingSession, FiniteSetTheorems, WellFoundedInduction, TLAPS

Unfunded == {"idle", "wallet", "sub", "overflow", "tokRead", "tokDec", "fund",
             "rollbackShort", "rollbackError", "rejected"}
Open == {"relay", "settle"}
Ended == {"fee", "feeTok", "failed"}

\* Before the funding source is touched, nothing is held.
UnfundedInv(r) ==
    pc[r] \in Unfunded =>
        /\ bg[r] = "none" /\ rec[r] = "none" /\ paid[r] = 0 /\ actual[r] = 0
        /\ ses[r].cons = 0 /\ ses[r].pre = 0
        /\ ~ses[r].settled /\ ~ses[r].refunded /\ ~ses[r].fundingSettled
        /\ pc[r] \in {"tokRead", "tokDec", "fund"} => ses[r].src \in {"wallet", "sub"}
        /\ pc[r] \in {"rollbackShort", "rollbackError"} => ses[r].src \in {"wallet", "sub"}
        /\ pc[r] \in {"fund", "rollbackShort", "rollbackError"} => ses[r].tok = ses[r].quota
        /\ pc[r] \in {"tokRead", "tokDec"} => ses[r].tok = 0 /\ ~prof[r].playground

\* While the session is open, the hold is preConsumedQuota, on both sides.
OpenInv(r) ==
    pc[r] \in Open =>
        /\ bg[r] = "none" /\ paid[r] = ses[r].pre
        /\ ses[r].tok = ses[r].pre /\ ses[r].cons = ses[r].pre
        /\ ~ses[r].settled /\ ~ses[r].refunded /\ ~ses[r].fundingSettled
        /\ ses[r].src = "none" => ses[r].pre = 0
        /\ ses[r].src = "sub" => rec[r] = "consumed"

\* A settled request has paid its price.
ServedInv(r) ==
    /\ pc[r] = "settleTok" =>
          /\ bg[r] = "none" /\ paid[r] = actual[r]
          /\ ses[r].tok = ses[r].pre
    /\ pc[r] = "served" =>
          /\ bg[r] = "none"
          /\ "settle" \notin err[r] => paid[r] = actual[r]

\* A failed request owes what its refund goroutine has not yet given back.
EndedInv(r) ==
    pc[r] \in Ended =>
        /\ bg[r] = "none" => ses[r].tok = 0 /\ paid[r] = 0
        /\ bg[r] # "none" => ses[r].src \in {"wallet", "sub"}
        /\ bg[r] = "mark" => ses[r].src = "sub"
        /\ bg[r] \in {"fund", "mark"} /\ ses[r].src = "sub" => rec[r] = "consumed"
        /\ (err[r] \cap FundingGivesUp = {}) =>
              /\ bg[r] = "fund" => paid[r] = ses[r].cons
              /\ bg[r] \in {"mark", "token", "end"} => paid[r] = 0

\* What the token holds for the request, at every label.
TokenInv(r) ==
    /\ prof[r].playground => tokPaid[r] = 0
    /\ ~prof[r].playground /\ (err[r] \cap TokenGivesUp = {}) =>
          /\ pc[r] \in {"idle", "wallet", "sub", "overflow", "tokRead", "tokDec", "rejected"} => tokPaid[r] = 0
          /\ pc[r] \in {"fund", "rollbackShort", "rollbackError", "relay", "settle",
                        "settleTok"} => tokPaid[r] = ses[r].tok
          /\ pc[r] = "served" => tokPaid[r] = actual[r]
          /\ pc[r] \in Ended /\ bg[r] = "none" => tokPaid[r] = 0
          /\ pc[r] \in Ended /\ bg[r] \notin {"none", "end"} => tokPaid[r] = ses[r].tok
          /\ pc[r] \in Ended /\ bg[r] = "end" => tokPaid[r] = 0

\* A refund goroutine exists only once its request has failed.
RefundOnlyEnded(r) == bg[r] # "none" => pc[r] \in Ended

RequestInv(r) ==
    /\ UnfundedInv(r) /\ OpenInv(r) /\ ServedInv(r)
    /\ EndedInv(r) /\ TokenInv(r) /\ RefundOnlyEnded(r)

\* The inductive invariant.
IInv == TypeOK /\ \A r \in Requests : RequestInv(r)

-----------------------------------------------------------------------------
\* A request whose own state a step leaves alone keeps its invariant.
USE DEF Unfunded, Open, Ended

\* What the types say of one request.
LEMMA Typed ==
    ASSUME TypeOK, NEW r \in Requests
    PROVE  /\ ses[r] \in SessionType
           /\ prof[r] \in Profiles /\ prof[r] \in ProfileShape
           /\ prof[r].quota \in Nat
           /\ pc[r] \in Labels /\ bg[r] \in RefundLabels
           /\ alt[r] \in {"none", "wallet", "sub", "overflow"}
           /\ actual[r] \in Nat /\ tries[r] \in Nat /\ err[r] \in SUBSET Calls
           /\ rec[r] \in {"none", "consumed", "refunded"}
           /\ paid[r] \in Int /\ tokPaid[r] \in Int /\ fee[r] \in Nat
           /\ ses[r].src \in {"none", "wallet", "sub"}
           /\ ses[r].quota \in Nat /\ ses[r].pre \in Nat /\ ses[r].tok \in Nat
           /\ ses[r].cons \in Nat
           /\ ses[r].tokenQuota \in Int
<1>1. prof[r] \in ProfileShape /\ prof[r] \in Profiles
    BY ConstantsAssumption DEF TypeOK
<1>2. ses[r] \in SessionType
    BY DEF TypeOK
<1> QED BY <1>1, <1>2 DEF TypeOK, ProfileShape, SessionType

\* A request whose own state a step leaves alone keeps its invariant.
LEMMA Frame ==
    ASSUME NEW x \in Requests, RequestInv(x),
           prof'[x] = prof[x], pc'[x] = pc[x], bg'[x] = bg[x], ses'[x] = ses[x],
           actual'[x] = actual[x], err'[x] = err[x], rec'[x] = rec[x],
           paid'[x] = paid[x], tokPaid'[x] = tokPaid[x]
    PROVE  RequestInv(x)'
BY DEF RequestInv, UnfundedInv, OpenInv, ServedInv, EndedInv, TokenInv,
       RefundOnlyEnded

\* What a step of request r leaves alone.
OthersKept(r) ==
    \A x \in Requests : x # r =>
        /\ prof'[x] = prof[x] /\ pc'[x] = pc[x] /\ bg'[x] = bg[x] /\ ses'[x] = ses[x]
        /\ actual'[x] = actual[x] /\ err'[x] = err[x] /\ rec'[x] = rec[x]
        /\ paid'[x] = paid[x] /\ tokPaid'[x] = tokPaid[x]

LEMMA Compose ==
    ASSUME IInv, NEW r \in Requests, TypeOK', RequestInv(r)', OthersKept(r)
    PROVE  IInv'
<1>1. ASSUME NEW x \in Requests PROVE RequestInv(x)'
    <2>1. CASE x = r BY <2>1
    <2>2. CASE x # r BY <2>2, Frame DEF OthersKept, IInv
    <2> QED BY <2>1, <2>2
<1> QED BY <1>1 DEF IInv

\* A call that succeeded, failed or was refused adds at most its own name.
LEMMA ErrFacts ==
    ASSUME TypeOK, NEW r \in Requests, NEW c \in Calls,
           \/ NoFault
           \/ Fault(r, c)
           \/ err' = [err EXCEPT ![r] = @ \cup {c}] /\ faults' = faults
    PROVE  /\ err' \in [Requests -> SUBSET Calls] /\ faults' \in Nat
           /\ err'[r] = err[r] \/ err'[r] = err[r] \cup {c}
           /\ \A x \in Requests : x # r => err'[x] = err[x]
<1>1. err' = err \/ err' = [err EXCEPT ![r] = err[r] \cup {c}]
    BY DEF NoFault, Fault
<1>2. err[r] \in SUBSET Calls /\ err[r] \cup {c} \in SUBSET Calls
    BY Typed
<1>3. faults' \in Nat
    BY DEF NoFault, Fault, TypeOK
<1> QED BY <1>1, <1>2, <1>3 DEF TypeOK

LEMMA InitInv == Init => IInv
<1> SUFFICES ASSUME Init PROVE IInv
    OBVIOUS
<1>1. TypeOK
    BY ConstantsAssumption DEF Init, TypeOK, SessionType, NoSession, Labels, RefundLabels
<1>2. ASSUME NEW r \in Requests PROVE RequestInv(r)
    BY DEF Init, NoSession, RequestInv, UnfundedInv, OpenInv, ServedInv,
           EndedInv, TokenInv, RefundOnlyEnded
<1> QED BY <1>1, <1>2 DEF IInv

-----------------------------------------------------------------------------
(* What an assignment does.                                                *)

\* A session that is replaced by another one of the right type.
LEMMA SessionFacts ==
    ASSUME TypeOK, NEW r \in Requests, NEW n \in SessionType, ses' = [ses EXCEPT ![r] = n]
    PROVE  /\ ses' \in [Requests -> SessionType] /\ ses'[r] = n
           /\ \A x \in Requests : x # r => ses'[x] = ses[x]
BY DEF TypeOK

LEMMA PcFacts ==
    ASSUME TypeOK, NEW r \in Requests, NEW l \in Labels, Goto(r, l)
    PROVE  /\ pc' \in [Requests -> Labels] /\ pc'[r] = l
           /\ \A x \in Requests : x # r => pc'[x] = pc[x]
BY DEF TypeOK, Goto

\* The funding source moves by n, whichever it is.
LEMMA FundingFacts ==
    ASSUME TypeOK, NEW r \in Requests, NEW n \in Int,
           AddFunding(r, n) \/ AddUserQuota(r, n) \/ AddSubUsed(r, n)
    PROVE  /\ wallet' \in Int /\ used' \in Nat /\ paid' \in [Requests -> Int]
           /\ paid'[r] = paid[r] + n
           /\ \A x \in Requests : x # r => paid'[x] = paid[x]
<1>1. AddUserQuota(r, n) \/ AddSubUsed(r, n)
    BY DEF AddFunding
<1>2. paid' = [paid EXCEPT ![r] = paid[r] + n]
    BY <1>1 DEF AddUserQuota, AddSubUsed
<1>3. wallet' \in Int /\ used' \in Nat
    BY <1>1 DEF AddUserQuota, AddSubUsed, SubUsedAfter, TypeOK
<1> QED BY <1>2, <1>3 DEF TypeOK

LEMMA TokenFacts ==
    ASSUME TypeOK, NEW r \in Requests, NEW n \in Int, AddTokenQuota(r, n)
    PROVE  /\ token' \in Int /\ tokPaid' \in [Requests -> Int]
           /\ tokPaid'[r] = tokPaid[r] + n
           /\ \A x \in Requests : x # r => tokPaid'[x] = tokPaid[x]
BY DEF TypeOK, AddTokenQuota

-----------------------------------------------------------------------------
(* NewBillingSession and preConsume.                                       *)

\* A session that is dropped leaves an empty one and the request unfunded.
LEMMA DropFacts ==
    ASSUME TypeOK, NEW r \in Requests, Insufficient(r) \/ Reject(r)
    PROVE  /\ ses' \in [Requests -> SessionType]
           /\ ses'[r] = NoSession(ses[r].tokenQuota)
           /\ pc' \in [Requests -> Labels]
           /\ alt' \in [Requests -> {"none", "wallet", "sub", "overflow"}]
           /\ pc'[r] \in {"rejected", "wallet", "sub", "overflow"}
           /\ \A x \in Requests : x # r => pc'[x] = pc[x] /\ ses'[x] = ses[x]
<1>1. NoSession(ses[r].tokenQuota) \in SessionType
    BY Typed DEF SessionType, NoSession
<1>2. ses' = [ses EXCEPT ![r] = NoSession(ses[r].tokenQuota)]
    BY DEF Insufficient, Reject
<1>3. ses' \in [Requests -> SessionType] /\ ses'[r] = NoSession(ses[r].tokenQuota)
    BY <1>1, <1>2 DEF TypeOK
<1>4. \E l \in {"rejected", "wallet", "sub", "overflow"} : Route(r, l, "none")
    BY Typed DEF Insufficient, Reject
<1> QED BY <1>2, <1>3, <1>4 DEF Route, Goto, TypeOK, Labels

\* An unfunded request with an empty session keeps its invariant.
LEMMA DropInv ==
    ASSUME IInv, NEW r \in Requests, Insufficient(r) \/ Reject(r),
           pc[r] \in Unfunded, prof' = prof, bg' = bg, actual' = actual, rec' = rec, paid' = paid,
           prof[r].playground => tokPaid'[r] = 0,
           ~prof[r].playground /\ (err'[r] \cap TokenGivesUp = {}) => tokPaid'[r] = 0
    PROVE  RequestInv(r)'
<1>1. /\ bg[r] = "none" /\ rec[r] = "none" /\ paid[r] = 0 /\ actual[r] = 0
    BY DEF IInv, RequestInv, UnfundedInv
<1>2. /\ pc'[r] \in {"rejected", "wallet", "sub", "overflow"}
      /\ ses'[r] = NoSession(ses[r].tokenQuota)
    BY DropFacts DEF IInv
<1>3. UnfundedInv(r)'
    BY <1>1, <1>2 DEF UnfundedInv, NoSession
<1>4. OpenInv(r)' /\ ServedInv(r)' /\ EndedInv(r)' /\ RefundOnlyEnded(r)'
    BY <1>1, <1>2 DEF OpenInv, ServedInv, EndedInv, RefundOnlyEnded
<1>5. TokenInv(r)'
    BY <1>2 DEF TokenInv
<1> QED BY <1>3, <1>4, <1>5 DEF RequestInv

LEMMA BeginFacts ==
    ASSUME TypeOK, NEW r \in Requests, NEW s \in {"wallet", "sub"}, NEW quota \in Nat,
           BeginPreConsume(r, s, quota)
    PROVE  /\ ses' \in [Requests -> SessionType]
           /\ pc'[r] = IF ses'[r].quota > 0 /\ ~prof[r].playground THEN "tokRead" ELSE "fund"
           /\ pc' \in [Requests -> Labels]
           /\ alt' = alt
           /\ ses'[r].src = s
           /\ ses'[r].tok = IF prof[r].playground THEN ses'[r].quota ELSE 0
           /\ ses'[r].cons = ses[r].cons /\ ses'[r].pre = ses[r].pre
           /\ ses'[r].settled = ses[r].settled /\ ses'[r].refunded = ses[r].refunded
           /\ ses'[r].fundingSettled = ses[r].fundingSettled
           /\ ses'[r].quota \in Nat
           /\ \A x \in Requests : x # r => ses'[x] = ses[x] /\ pc'[x] = pc[x]
<1> DEFINE q == EffectiveQuota(r, s, quota)
           t == ShouldTrust(r, s)
           k == IF prof[r].playground THEN q ELSE 0
           n == [ses[r] EXCEPT !.src = s, !.quota = q, !.trusted = t, !.tok = k]
<1>1. q \in Nat /\ k \in Nat
    BY DEF EffectiveQuota
<1>2. t \in BOOLEAN
    BY DEF ShouldTrust
<1>3. ses' = [ses EXCEPT ![r] = n]
    BY DEF BeginPreConsume, TypeOK
<1> HIDE DEF q, t, k
<1>4. n \in SessionType
    BY <1>1, <1>2, Typed DEF SessionType
<1>5. ses'[r] = n /\ ses' \in [Requests -> SessionType]
    BY <1>3, <1>4 DEF TypeOK
<1>6. /\ n.quota = q /\ n.tok = k /\ n.src = s
      /\ n.cons = ses[r].cons /\ n.pre = ses[r].pre
      /\ n.settled = ses[r].settled /\ n.refunded = ses[r].refunded
      /\ n.fundingSettled = ses[r].fundingSettled
    BY Typed DEF SessionType
<1>7. pc' = [pc EXCEPT ![r] = IF q > 0 /\ ~prof[r].playground THEN "tokRead" ELSE "fund"] /\ alt' = alt
    BY DEF BeginPreConsume, Goto, q
<1> QED BY <1>1, <1>3, <1>5, <1>6, <1>7 DEF TypeOK, Labels, k

LEMMA NewBillingSessionInv ==
    ASSUME IInv, NEW r \in Requests, NewBillingSession(r)
    PROVE  IInv'
<1> USE DEF IInv
<1>1. NoSession(token) \in SessionType
    BY DEF SessionType, NoSession, TypeOK
<1>2. /\ ses' \in [Requests -> SessionType] /\ ses'[r] = NoSession(token)
      /\ \A x \in Requests : x # r => ses'[x] = ses[x]
    BY <1>1 DEF NewBillingSession, TypeOK
<1>3. \E l \in {"relay", "sub", "wallet", "rejected"}, f \in {"none", "wallet", "sub", "overflow"} : Route(r, l, f)
    BY Typed DEF NewBillingSession, ProfileShape, Preferences
<1>4. /\ pc' \in [Requests -> Labels] /\ alt' \in [Requests -> {"none", "wallet", "sub", "overflow"}]
      /\ pc'[r] \in {"relay", "sub", "wallet", "rejected"}
      /\ \A x \in Requests : x # r => pc'[x] = pc[x]
    BY <1>3 DEF Route, Goto, TypeOK, Labels
<1>5. NoFault \/ Fault(r, "lookup")
    BY DEF NewBillingSession
<1>6. /\ err' \in [Requests -> SUBSET Calls] /\ faults' \in Nat
      /\ err'[r] = err[r] \/ err'[r] = err[r] \cup {"lookup"}
      /\ \A x \in Requests : x # r => err'[x] = err[x]
    BY <1>5, ErrFacts DEF Calls
<1>7. UNCHANGED <<prof, bg, actual, tries, active, money>> /\ pc[r] = "idle"
    BY DEF NewBillingSession
<1>8. TypeOK'
    BY <1>2, <1>4, <1>6, <1>7 DEF TypeOK, money
<1>9. OthersKept(r)
    BY <1>2, <1>4, <1>6, <1>7 DEF OthersKept, money
<1>10. RequestInv(r)'
  <2>1. /\ bg[r] = "none" /\ rec[r] = "none" /\ paid[r] = 0 /\ actual[r] = 0
        /\ prof[r].playground => tokPaid[r] = 0
        /\ ~prof[r].playground /\ (err[r] \cap TokenGivesUp = {}) => tokPaid[r] = 0
    BY <1>7 DEF RequestInv, UnfundedInv, TokenInv
  <2>2. (err'[r] \cap TokenGivesUp = {} => err[r] \cap TokenGivesUp = {})
    BY <1>6, <2>1
  <2>3. UnfundedInv(r)' /\ ServedInv(r)' /\ EndedInv(r)' /\ RefundOnlyEnded(r)'
    BY <1>2, <1>4, <1>7, <2>1, <2>2 DEF UnfundedInv, ServedInv, EndedInv, RefundOnlyEnded, NoSession, money
  <2>4. OpenInv(r)'
    BY <1>2, <1>4, <1>7, <2>1, <2>2 DEF OpenInv, NoSession, money
  <2>5. TokenInv(r)'
    BY <1>2, <1>4, <1>7, <2>1, <2>2 DEF TokenInv, NoSession, money
  <2> QED BY <2>3, <2>4, <2>5 DEF RequestInv
<1> QED BY <1>8, <1>9, <1>10, Compose

LEMMA TryWalletInv ==
    ASSUME IInv, NEW r \in Requests, TryWallet(r)
    PROVE  IInv'
<1> USE DEF IInv
<1>1. NoFault \/ Fault(r, "lookup")
    BY DEF TryWallet
<1>2. /\ err' \in [Requests -> SUBSET Calls] /\ faults' \in Nat
      /\ err'[r] = err[r] \/ err'[r] = err[r] \cup {"lookup"}
      /\ \A x \in Requests : x # r => err'[x] = err[x]
    BY <1>1, ErrFacts DEF Calls
<1>3. UNCHANGED <<prof, bg, actual, tries, active, money>> /\ pc[r] = "wallet"
    BY DEF TryWallet
<1>4. /\ bg[r] = "none" /\ rec[r] = "none" /\ paid[r] = 0 /\ actual[r] = 0
      /\ prof[r].playground => tokPaid[r] = 0
      /\ ~prof[r].playground /\ (err[r] \cap TokenGivesUp = {}) => tokPaid[r] = 0
    BY <1>3 DEF RequestInv, UnfundedInv, TokenInv
<1>5. (err'[r] \cap TokenGivesUp = {} => err[r] \cap TokenGivesUp = {})
    BY <1>2, <1>4
<1>6. CASE Insufficient(r) \/ Reject(r)
  <2>1. TypeOK'
    BY <1>2, <1>3, <1>6, DropFacts DEF TypeOK, money
  <2>2. OthersKept(r)
    BY <1>2, <1>3, <1>6, DropFacts DEF OthersKept, money
  <2>3. RequestInv(r)'
    BY <1>3, <1>4, <1>5, <1>6, DropInv DEF money
  <2> QED BY <2>1, <2>2, <2>3, Compose
<1>7. CASE BeginPreConsume(r, "wallet", prof[r].quota)
  <2>1. TypeOK'
    BY <1>2, <1>3, <1>7, BeginFacts, Typed DEF TypeOK, money
  <2>2. OthersKept(r)
    BY <1>2, <1>3, <1>7, BeginFacts, Typed DEF OthersKept, money
  <2>3. RequestInv(r)'
    <3>1. UnfundedInv(r)' /\ OpenInv(r)' /\ ServedInv(r)' /\ EndedInv(r)' /\ RefundOnlyEnded(r)'
      BY <1>3, <1>4, <1>5, <1>7, BeginFacts, Typed
         DEF RequestInv, UnfundedInv, OpenInv, ServedInv, EndedInv, RefundOnlyEnded, money
    <3>2. TokenInv(r)'
      BY <1>3, <1>4, <1>5, <1>7, BeginFacts, Typed DEF TokenInv, money
    <3> QED BY <3>1, <3>2 DEF RequestInv
  <2> QED BY <2>1, <2>2, <2>3, Compose
<1> QED BY <1>6, <1>7 DEF TryWallet

LEMMA TrySubscriptionInv ==
    ASSUME IInv, NEW r \in Requests, TrySubscription(r)
    PROVE  IInv'
<1> USE DEF IInv
<1> DEFINE q == IF prof[r].quota = 0 THEN 1 ELSE prof[r].quota
<1>1. q \in Nat
    BY Typed
<1>2. BeginPreConsume(r, "sub", q)
    BY DEF TrySubscription
<1>3. UNCHANGED <<prof, bg, actual, tries, active, err, faults, money>> /\ pc[r] = "sub"
    BY DEF TrySubscription, NoFault
<1> HIDE DEF q
<1>4. TypeOK'
    BY <1>1, <1>2, <1>3, BeginFacts DEF TypeOK, money
<1>5. OthersKept(r)
    BY <1>1, <1>2, <1>3, BeginFacts DEF OthersKept, money
<1>6. UnfundedInv(r)' /\ OpenInv(r)' /\ ServedInv(r)' /\ EndedInv(r)' /\ RefundOnlyEnded(r)'
    BY <1>1, <1>2, <1>3, BeginFacts
       DEF RequestInv, UnfundedInv, OpenInv, ServedInv, EndedInv, RefundOnlyEnded, money
<1>7. TokenInv(r)'
    BY <1>1, <1>2, <1>3, BeginFacts DEF RequestInv, TokenInv, money
<1> QED BY <1>4, <1>5, <1>6, <1>7, Compose DEF RequestInv

LEMMA WalletOverflowInv ==
    ASSUME IInv, NEW r \in Requests, WalletOverflow(r)
    PROVE  IInv'
<1> USE DEF IInv
<1>1. /\ UNCHANGED <<prof, bg, alt, ses, actual, tries, active, money>> /\ pc[r] = "overflow"
      /\ NoFault \/ Fault(r, "lookup")
    BY DEF WalletOverflow
<1>2. /\ err' \in [Requests -> SUBSET Calls] /\ faults' \in Nat
      /\ err'[r] = err[r] \/ err'[r] = err[r] \cup {"lookup"}
      /\ \A x \in Requests : x # r => err'[x] = err[x]
    BY <1>1, ErrFacts DEF Calls
<1>3. /\ pc' \in [Requests -> Labels] /\ pc'[r] \in {"wallet", "rejected"}
      /\ \A x \in Requests : x # r => pc'[x] = pc[x]
  <2>1. \E l \in {"wallet", "rejected"} : Goto(r, l)
    BY DEF WalletOverflow
  <2> QED BY <2>1 DEF Goto, TypeOK, Labels
<1>4. TypeOK' /\ OthersKept(r)
    BY <1>1, <1>2, <1>3 DEF TypeOK, OthersKept, money
<1>5. err'[r] \cap TokenGivesUp = {} => err[r] \cap TokenGivesUp = {}
    BY <1>2
<1>6. RequestInv(r)'
    BY <1>1, <1>3, <1>5
       DEF RequestInv, UnfundedInv, OpenInv, ServedInv, EndedInv, TokenInv, RefundOnlyEnded, money
<1> QED BY <1>4, <1>6, Compose

LEMMA TokenReadInv ==
    ASSUME IInv, NEW r \in Requests, TokenRead(r)
    PROVE  IInv'
<1> USE DEF IInv
<1>1. NoFault \/ Fault(r, "lookup")
    BY DEF TokenRead
<1>2. /\ err' \in [Requests -> SUBSET Calls] /\ faults' \in Nat
      /\ err'[r] = err[r] \/ err'[r] = err[r] \cup {"lookup"}
      /\ \A x \in Requests : x # r => err'[x] = err[x]
    BY <1>1, ErrFacts DEF Calls
<1>3. UNCHANGED <<prof, bg, actual, tries, active, money>> /\ pc[r] = "tokRead"
    BY DEF TokenRead
<1>4. /\ bg[r] = "none" /\ rec[r] = "none" /\ paid[r] = 0 /\ actual[r] = 0
      /\ prof[r].playground => tokPaid[r] = 0
      /\ ~prof[r].playground /\ (err[r] \cap TokenGivesUp = {}) => tokPaid[r] = 0
    BY <1>3 DEF RequestInv, UnfundedInv, TokenInv
<1>5. (err'[r] \cap TokenGivesUp = {} => err[r] \cap TokenGivesUp = {})
    BY <1>2, <1>4
<1>6. CASE Reject(r)
  <2>1. TypeOK'
    BY <1>2, <1>3, <1>6, DropFacts DEF TypeOK, money
  <2>2. OthersKept(r)
    BY <1>2, <1>3, <1>6, DropFacts DEF OthersKept, money
  <2>3. RequestInv(r)'
    BY <1>3, <1>4, <1>5, <1>6, DropInv DEF money
  <2> QED BY <2>1, <2>2, <2>3, Compose
<1>7. CASE Goto(r, "tokDec") /\ UNCHANGED <<alt, ses>>
  <2>1. TypeOK' /\ OthersKept(r)
    BY <1>2, <1>3, <1>7 DEF TypeOK, OthersKept, Goto, Labels, money
  <2>2. pc'[r] = "tokDec"
    BY <1>7 DEF Goto, TypeOK
  <2>3. RequestInv(r)'
    BY <1>3, <1>4, <1>5, <1>7, <2>2
       DEF RequestInv, UnfundedInv, OpenInv, ServedInv, EndedInv, TokenInv, RefundOnlyEnded, money
  <2> QED BY <2>1, <2>3, Compose
<1> QED BY <1>6, <1>7 DEF TokenRead

LEMMA TokenDecreaseInv ==
    ASSUME IInv, NEW r \in Requests, TokenDecrease(r)
    PROVE  IInv'
<1> USE DEF IInv
<1>1. /\ UNCHANGED <<prof, bg, actual, tries, active, rec, fee, wallet, used, paid>>
      /\ pc[r] = "tokDec"
    BY DEF TokenDecrease, FundingUnchanged
<1>2. /\ bg[r] = "none" /\ rec[r] = "none" /\ paid[r] = 0 /\ actual[r] = 0
      /\ ~prof[r].playground
      /\ (err[r] \cap TokenGivesUp = {}) => tokPaid[r] = 0
    BY <1>1 DEF RequestInv, UnfundedInv, TokenInv
<1>3. CASE Fault(r, "token") /\ Reject(r) /\ TokenUnchanged
  <2>1. /\ err' \in [Requests -> SUBSET Calls] /\ faults' \in Nat
        /\ err'[r] = err[r] \/ err'[r] = err[r] \cup {"token"}
        /\ \A x \in Requests : x # r => err'[x] = err[x]
    BY <1>3, ErrFacts DEF Calls
  <2>2. (err'[r] \cap TokenGivesUp = {} => err[r] \cap TokenGivesUp = {})
    BY <1>2, <2>1
  <2>3. TypeOK'
    BY <1>1, <1>3, <2>1, DropFacts DEF TypeOK, TokenUnchanged
  <2>4. OthersKept(r)
    BY <1>1, <1>3, <2>1, DropFacts DEF OthersKept, TokenUnchanged
  <2>5. RequestInv(r)'
    BY <1>1, <1>2, <1>3, <2>2, DropInv DEF TokenUnchanged
  <2> QED BY <2>3, <2>4, <2>5, Compose
<1>4. CASE /\ AddTokenQuota(r, ses[r].quota)
           /\ ses' = [ses EXCEPT ![r].tok = ses[r].quota]
           /\ Goto(r, "fund") /\ NoFault /\ UNCHANGED alt
  <2> DEFINE n == [ses[r] EXCEPT !.tok = ses[r].quota]
  <2>1. n \in SessionType
    BY Typed DEF SessionType
  <2>2. ses' = [ses EXCEPT ![r] = n]
    BY <1>4 DEF TypeOK
  <2>3. ses' \in [Requests -> SessionType] /\ ses'[r] = n
    BY <2>1, <2>2 DEF TypeOK
  <2>4. /\ token' \in Int /\ tokPaid' \in [Requests -> Int]
        /\ tokPaid'[r] = tokPaid[r] + ses[r].quota
        /\ \A x \in Requests : x # r => tokPaid'[x] = tokPaid[x]
    BY <1>4, Typed DEF AddTokenQuota, TypeOK
  <2>5. pc'[r] = "fund" /\ pc' \in [Requests -> Labels] /\ \A x \in Requests : x # r => pc'[x] = pc[x]
    BY <1>4 DEF Goto, TypeOK, Labels
  <2>6. TypeOK'
    BY <1>1, <1>4, <2>3, <2>4, <2>5 DEF TypeOK, NoFault
  <2>7. OthersKept(r)
    BY <1>1, <1>4, <2>2, <2>4, <2>5 DEF OthersKept, NoFault, TypeOK
  <2>8. RequestInv(r)'
    BY <1>1, <1>2, <1>4, <2>3, <2>4, <2>5, Typed
       DEF RequestInv, UnfundedInv, OpenInv, ServedInv, EndedInv, TokenInv, RefundOnlyEnded,
           NoFault, SessionType
  <2> QED BY <2>6, <2>7, <2>8, Compose
<1> QED BY <1>3, <1>4 DEF TokenDecrease

LEMMA FundingPreConsumeInv ==
    ASSUME IInv, NEW r \in Requests, FundingPreConsume(r)
    PROVE  IInv'
<1> USE DEF IInv
<1>1. /\ UNCHANGED <<prof, bg, alt, actual, tries, active, fee, token, tokPaid>>
      /\ pc[r] = "fund"
    BY DEF FundingPreConsume, TokenUnchanged
<1>2. /\ bg[r] = "none" /\ rec[r] = "none" /\ paid[r] = 0 /\ actual[r] = 0
      /\ ses[r].tok = ses[r].quota /\ ses[r].src \in {"wallet", "sub"}
    BY <1>1 DEF RequestInv, UnfundedInv
<1>3. CASE /\ AddFunding(r, ses[r].quota)
           /\ rec' = IF ses[r].src = "sub" THEN [rec EXCEPT ![r] = "consumed"] ELSE rec
           /\ ses' = [ses EXCEPT ![r].cons = ses[r].quota, ![r].pre = ses[r].quota]
           /\ Goto(r, "relay") /\ NoFault
  <2> DEFINE n == [ses[r] EXCEPT !.cons = ses[r].quota, !.pre = ses[r].quota]
  <2>1. n \in SessionType
    BY Typed DEF SessionType
  <2>2. ses' = [ses EXCEPT ![r] = n]
    BY <1>3 DEF TypeOK
  <2>3. ses' \in [Requests -> SessionType] /\ ses'[r] = n
    BY <2>1, <2>2 DEF TypeOK
  <2>4. /\ wallet' \in Int /\ used' \in Nat /\ paid' \in [Requests -> Int]
        /\ paid'[r] = ses[r].quota
        /\ \A x \in Requests : x # r => paid'[x] = paid[x]
    BY <1>2, <1>3, FundingFacts, Typed
  <2>5. pc'[r] = "relay" /\ pc' \in [Requests -> Labels] /\ \A x \in Requests : x # r => pc'[x] = pc[x]
    BY <1>3 DEF Goto, TypeOK, Labels
  <2>6. /\ rec' \in [Requests -> {"none", "consumed", "refunded"}]
        /\ ses[r].src = "sub" => rec'[r] = "consumed"
        /\ \A x \in Requests : x # r => rec'[x] = rec[x]
    BY <1>3 DEF TypeOK
  <2>7. TypeOK'
    BY <1>1, <1>3, <2>3, <2>4, <2>5, <2>6 DEF TypeOK, NoFault
  <2>8. OthersKept(r)
    BY <1>1, <1>3, <2>2, <2>4, <2>5, <2>6 DEF OthersKept, NoFault, TypeOK
  <2>9. RequestInv(r)'
    BY <1>1, <1>2, <1>3, <2>3, <2>4, <2>5, <2>6, Typed
       DEF RequestInv, UnfundedInv, OpenInv, ServedInv, EndedInv, TokenInv, RefundOnlyEnded,
           NoFault, SessionType
  <2> QED BY <2>7, <2>8, <2>9, Compose
<1>4. CASE /\ \/ Goto(r, "rollbackShort") /\ NoFault
              \/ Fault(r, "preConsume") /\ Goto(r, "rollbackError")
           /\ FundingUnchanged /\ UNCHANGED <<rec, ses>>
  <2>1. /\ err' \in [Requests -> SUBSET Calls] /\ faults' \in Nat
        /\ err'[r] = err[r] \/ err'[r] = err[r] \cup {"preConsume"}
        /\ \A x \in Requests : x # r => err'[x] = err[x]
    BY <1>4, ErrFacts DEF Calls
  <2>2. (err'[r] \cap TokenGivesUp = {} => err[r] \cap TokenGivesUp = {})
    BY <1>2, <2>1
  <2>3. /\ pc'[r] \in {"rollbackShort", "rollbackError"} /\ pc' \in [Requests -> Labels]
        /\ \A x \in Requests : x # r => pc'[x] = pc[x]
    BY <1>4 DEF Goto, TypeOK, Labels
  <2>4. TypeOK' /\ OthersKept(r)
    BY <1>1, <1>4, <2>1, <2>3 DEF TypeOK, OthersKept, FundingUnchanged
  <2>5. RequestInv(r)'
    BY <1>1, <1>2, <1>4, <2>2, <2>3
       DEF RequestInv, UnfundedInv, OpenInv, ServedInv, EndedInv, TokenInv, RefundOnlyEnded, FundingUnchanged
  <2> QED BY <2>4, <2>5, Compose
<1> QED BY <1>3, <1>4, Zenon DEF FundingPreConsume

LEMMA RollbackTokenInv ==
    ASSUME IInv, NEW r \in Requests, RollbackToken(r)
    PROVE  IInv'
<1> USE DEF IInv
<1>1. /\ UNCHANGED <<prof, bg, actual, tries, active, rec, fee, wallet, used, paid>>
      /\ pc[r] \in {"rollbackShort", "rollbackError"} /\ (Insufficient(r) \/ Reject(r))
      /\ NoFault \/ Fault(r, "rollbackToken")
    BY DEF RollbackToken, FundingUnchanged
<1>2. /\ err' \in [Requests -> SUBSET Calls] /\ faults' \in Nat
      /\ err'[r] = err[r] \/ err'[r] = err[r] \cup {"rollbackToken"}
      /\ \A x \in Requests : x # r => err'[x] = err[x]
    BY <1>1, ErrFacts DEF Calls
<1>3. (err'[r] \cap TokenGivesUp = {} => err[r] \cap TokenGivesUp = {})
    BY <1>1, <1>2 DEF RequestInv, UnfundedInv
<1>4. token' \in Int /\ tokPaid' \in [Requests -> Int] /\ \A x \in Requests : x # r => tokPaid'[x] = tokPaid[x]
    BY Typed DEF RollbackToken, AddTokenQuota, TokenUnchanged, TypeOK
<1>5. prof[r].playground => tokPaid'[r] = 0
    BY DEF RollbackToken, TokenUnchanged, RequestInv, TokenInv
<1>6. ASSUME ~prof[r].playground, err'[r] \cap TokenGivesUp = {}
      PROVE  tokPaid'[r] = 0
  <2>1. tokPaid[r] = ses[r].tok
    BY <1>1, <1>3, <1>6 DEF RequestInv, TokenInv
  <2>2. ~Fault(r, "rollbackToken")
    BY <1>6 DEF Fault, TokenGivesUp, TypeOK
  <2>3. AddTokenQuota(r, -ses[r].tok)
    BY <1>6, <2>2 DEF RollbackToken
  <2> QED BY <2>1, <2>3, Typed DEF AddTokenQuota, TypeOK
<1>7. TypeOK'
    BY <1>1, <1>2, <1>4, DropFacts DEF TypeOK
<1>8. OthersKept(r)
    BY <1>1, <1>2, <1>4, DropFacts DEF OthersKept
<1>9. RequestInv(r)'
    BY <1>1, <1>3, <1>5, <1>6, DropInv
<1> QED BY <1>7, <1>8, <1>9, Compose

-----------------------------------------------------------------------------
(* The upstream call and Settle.                                           *)

LEMMA ServeInv ==
    ASSUME IInv, NEW r \in Requests, Serve(r)
    PROVE  IInv'
<1> USE DEF IInv
<1>1. /\ UNCHANGED <<prof, bg, alt, ses, tries, active, err, faults, money>>
      /\ pc[r] = "relay"
    BY DEF Serve, NoFault
<1>2. /\ pc' \in [Requests -> Labels] /\ pc'[r] = "settle"
      /\ \A x \in Requests : x # r => pc'[x] = pc[x]
    BY PcFacts DEF Serve, Labels
<1>3. /\ actual' \in [Requests -> Nat]
      /\ \A x \in Requests : x # r => actual'[x] = actual[x]
    BY ConstantsAssumption DEF Serve, TypeOK
<1>4. TypeOK' /\ OthersKept(r)
    BY <1>1, <1>2, <1>3 DEF TypeOK, OthersKept, money
<1>5. RequestInv(r)'
    BY <1>1, <1>2, Typed
       DEF RequestInv, UnfundedInv, OpenInv, ServedInv, EndedInv, TokenInv, RefundOnlyEnded, money
<1> QED BY <1>4, <1>5, Compose

LEMMA SettleFundingInv ==
    ASSUME IInv, NEW r \in Requests, SettleFunding(r)
    PROVE  IInv'
<1> USE DEF IInv
<1>1. /\ UNCHANGED <<prof, bg, alt, actual, tries, active, rec, fee, token, tokPaid>>
      /\ pc[r] = "settle"
    BY DEF SettleFunding, TokenUnchanged
<1>2. /\ bg[r] = "none" /\ ses[r].tok = ses[r].pre /\ paid[r] = ses[r].pre
      /\ prof[r].playground => tokPaid[r] = 0
      /\ ~prof[r].playground /\ (err[r] \cap TokenGivesUp = {}) => tokPaid[r] = ses[r].tok
    BY <1>1 DEF RequestInv, OpenInv, TokenInv
<1>3. Delta(r) \in Int /\ Delta(r) = actual[r] - ses[r].pre
    BY Typed DEF Delta
<1>4. CASE /\ Delta(r) = 0
           /\ ses' = [ses EXCEPT ![r].settled = HasSession(r)]
           /\ Goto(r, "served") /\ NoFault /\ FundingUnchanged
  <2> DEFINE n == [ses[r] EXCEPT !.settled = HasSession(r)]
  <2>1. ses' = [ses EXCEPT ![r] = n]
    BY <1>4 DEF TypeOK
  <2>2. n \in SessionType
    BY Typed DEF SessionType, HasSession
  <2> HIDE DEF n
  <2>3. /\ ses' \in [Requests -> SessionType] /\ \A x \in Requests : x # r => ses'[x] = ses[x]
    BY <2>1, <2>2, SessionFacts
  <2>4. /\ pc' \in [Requests -> Labels] /\ pc'[r] = "served"
        /\ \A x \in Requests : x # r => pc'[x] = pc[x]
    BY <1>4, PcFacts DEF Labels
  <2>5. TypeOK' /\ OthersKept(r)
    BY <1>1, <1>4, <2>3, <2>4 DEF TypeOK, OthersKept, NoFault, FundingUnchanged
  <2>6. paid[r] = actual[r] /\ ses[r].tok = actual[r]
    BY <1>2, <1>3, <1>4, Typed
  <2>7. RequestInv(r)'
    BY <1>1, <1>2, <1>4, <2>4, <2>6
       DEF RequestInv, UnfundedInv, OpenInv, ServedInv, EndedInv, TokenInv, RefundOnlyEnded, NoFault, FundingUnchanged
  <2> QED BY <2>5, <2>7, Compose
<1>5. CASE /\ AddFunding(r, Delta(r))
           /\ ses' = [ses EXCEPT ![r].fundingSettled = HasSession(r)]
           /\ Goto(r, "settleTok") /\ NoFault
  <2> DEFINE n == [ses[r] EXCEPT !.fundingSettled = HasSession(r)]
  <2>1. ses' = [ses EXCEPT ![r] = n]
    BY <1>5 DEF TypeOK
  <2>2. n \in SessionType /\ n.tok = ses[r].tok /\ n.pre = ses[r].pre
    BY Typed DEF SessionType, HasSession
  <2> HIDE DEF n
  <2>3. /\ ses' \in [Requests -> SessionType] /\ ses'[r] = n /\ \A x \in Requests : x # r => ses'[x] = ses[x]
    BY <2>1, <2>2, SessionFacts
  <2>4. /\ pc' \in [Requests -> Labels] /\ pc'[r] = "settleTok"
        /\ \A x \in Requests : x # r => pc'[x] = pc[x]
    BY <1>5, PcFacts DEF Labels
  <2>5. /\ wallet' \in Int /\ used' \in Nat /\ paid' \in [Requests -> Int]
        /\ paid'[r] = paid[r] + Delta(r)
        /\ \A x \in Requests : x # r => paid'[x] = paid[x]
    BY <1>3, <1>5, FundingFacts
  <2>6. TypeOK' /\ OthersKept(r)
    BY <1>1, <1>5, <2>3, <2>4, <2>5 DEF TypeOK, OthersKept, NoFault
  <2>7. paid'[r] = actual[r]
    BY <1>2, <1>3, <2>5, Typed
  <2>8. RequestInv(r)'
    BY <1>1, <1>2, <1>5, <2>2, <2>3, <2>4, <2>7
       DEF RequestInv, UnfundedInv, OpenInv, ServedInv, EndedInv, TokenInv, RefundOnlyEnded, NoFault
  <2> QED BY <2>6, <2>8, Compose
<1>6. CASE /\ Fault(r, "settle") \/ (err' = [err EXCEPT ![r] = @ \cup {"settle"}] /\ faults' = faults)
           /\ Goto(r, "served") /\ UNCHANGED ses /\ FundingUnchanged
  <2>1. /\ pc' \in [Requests -> Labels] /\ pc'[r] = "served"
        /\ \A x \in Requests : x # r => pc'[x] = pc[x]
    BY <1>6, PcFacts DEF Labels
  <2>2. /\ err' \in [Requests -> SUBSET Calls] /\ faults' \in Nat
        /\ \A x \in Requests : x # r => err'[x] = err[x]
    BY <1>6, ErrFacts DEF Calls
  <2>3. "settle" \in err'[r] /\ err'[r] \cap TokenGivesUp # {}
    BY <1>6 DEF Fault, TypeOK, TokenGivesUp
  <2>4. TypeOK' /\ OthersKept(r)
    BY <1>1, <1>6, <2>1, <2>2 DEF TypeOK, OthersKept, FundingUnchanged
  <2>5. RequestInv(r)'
    BY <1>1, <1>2, <1>6, <2>1, <2>3
       DEF RequestInv, UnfundedInv, OpenInv, ServedInv, EndedInv, TokenInv, RefundOnlyEnded, FundingUnchanged
  <2> QED BY <2>4, <2>5, Compose
<1>7. UNCHANGED <<faults, ses>> => faults' = faults /\ UNCHANGED ses
    OBVIOUS
<1> QED BY <1>4, <1>5, <1>6, <1>7, Zenon DEF SettleFunding

LEMMA SettleTokenInv ==
    ASSUME IInv, NEW r \in Requests, SettleToken(r)
    PROVE  IInv'
<1> USE DEF IInv
<1> DEFINE n == [ses[r] EXCEPT !.settled = HasSession(r)]
<1>1. /\ UNCHANGED <<prof, bg, alt, actual, tries, active, rec, fee, wallet, used, paid>>
      /\ pc[r] = "settleTok" /\ Goto(r, "served") /\ (NoFault \/ Fault(r, "settleToken"))
    BY DEF SettleToken, FundingUnchanged
<1>2. /\ bg[r] = "none" /\ paid[r] = actual[r] /\ ses[r].tok = ses[r].pre
      /\ prof[r].playground => tokPaid[r] = 0
      /\ ~prof[r].playground /\ (err[r] \cap TokenGivesUp = {}) => tokPaid[r] = ses[r].tok
    BY <1>1 DEF RequestInv, ServedInv, TokenInv
<1>3. ses' = [ses EXCEPT ![r] = n]
    BY DEF SettleToken, TypeOK
<1>4. n \in SessionType
    BY Typed DEF SessionType, HasSession
<1> HIDE DEF n
<1>5. /\ ses' \in [Requests -> SessionType] /\ \A x \in Requests : x # r => ses'[x] = ses[x]
    BY <1>3, <1>4, SessionFacts
<1>6. /\ pc' \in [Requests -> Labels] /\ pc'[r] = "served"
      /\ \A x \in Requests : x # r => pc'[x] = pc[x]
    BY <1>1, PcFacts DEF Labels
<1>7. /\ err' \in [Requests -> SUBSET Calls] /\ faults' \in Nat
      /\ err'[r] = err[r] \/ err'[r] = err[r] \cup {"settleToken"}
      /\ \A x \in Requests : x # r => err'[x] = err[x]
    BY <1>1, ErrFacts DEF Calls
<1>8. Delta(r) \in Int /\ Delta(r) = actual[r] - ses[r].pre
    BY Typed DEF Delta
<1>9. AddTokenQuota(r, Delta(r)) \/ TokenUnchanged
    BY DEF SettleToken
<1>10. /\ token' \in Int /\ tokPaid' \in [Requests -> Int]
       /\ \A x \in Requests : x # r => tokPaid'[x] = tokPaid[x]
    BY <1>8, <1>9, TokenFacts DEF TokenUnchanged, TypeOK
<1>11. prof[r].playground => tokPaid'[r] = 0
    BY <1>2 DEF SettleToken, TokenUnchanged
<1>12. ASSUME ~prof[r].playground, err'[r] \cap TokenGivesUp = {}
       PROVE  tokPaid'[r] = actual[r]
  <2>1. ~Fault(r, "settleToken")
    BY <1>12 DEF Fault, TokenGivesUp, TypeOK
  <2>2. AddTokenQuota(r, Delta(r))
    BY <1>12, <2>1 DEF SettleToken
  <2>3. tokPaid[r] = ses[r].tok
    BY <1>2, <1>7, <1>12
  <2> QED BY <1>2, <1>8, <2>2, <2>3, TokenFacts, Typed
<1>13. TypeOK' /\ OthersKept(r)
    BY <1>1, <1>5, <1>6, <1>7, <1>10 DEF TypeOK, OthersKept
<1>14. RequestInv(r)'
    BY <1>1, <1>2, <1>6, <1>11, <1>12
       DEF RequestInv, UnfundedInv, OpenInv, ServedInv, EndedInv, TokenInv, RefundOnlyEnded
<1> QED BY <1>13, <1>14, Compose

-----------------------------------------------------------------------------
(* Refund and the violation fee.                                           *)

LEMMA FailInv ==
    ASSUME IInv, NEW r \in Requests, Fail(r)
    PROVE  IInv'
<1> USE DEF IInv
<1>1. /\ UNCHANGED <<prof, alt, actual, tries, active, err, faults, money>>
      /\ pc[r] = "relay"
    BY DEF Fail, NoFault
<1>2. \E l \in {"failed", "fee"} : Goto(r, l)
    BY DEF Fail
<1>3. /\ pc' \in [Requests -> Labels] /\ pc'[r] \in {"failed", "fee"}
      /\ \A x \in Requests : x # r => pc'[x] = pc[x]
    BY <1>2, PcFacts DEF Labels
<1>4. /\ bg[r] = "none" /\ ses[r].tok = ses[r].pre
      /\ ~ses[r].settled /\ ~ses[r].refunded /\ ~ses[r].fundingSettled
      /\ ses[r].src = "none" => ses[r].pre = 0
      /\ ses[r].src = "sub" => rec[r] = "consumed"
      /\ paid[r] = ses[r].pre /\ ses[r].cons = ses[r].pre
      /\ prof[r].playground => tokPaid[r] = 0
      /\ ~prof[r].playground /\ (err[r] \cap TokenGivesUp = {}) => tokPaid[r] = ses[r].tok
    BY <1>1 DEF RequestInv, OpenInv, TokenInv
<1>5. CASE NeedsRefund(r) /\ ses' = [ses EXCEPT ![r].refunded = TRUE] /\ bg' = [bg EXCEPT ![r] = "fund"]
  <2> DEFINE n == [ses[r] EXCEPT !.refunded = TRUE]
  <2>1. ses' = [ses EXCEPT ![r] = n]
    BY <1>5 DEF TypeOK
  <2>2. /\ n \in SessionType /\ n.tok = ses[r].tok /\ n.cons = ses[r].cons /\ n.src = ses[r].src
    BY Typed DEF SessionType
  <2> HIDE DEF n
  <2>3. /\ ses' \in [Requests -> SessionType] /\ ses'[r] = n /\ \A x \in Requests : x # r => ses'[x] = ses[x]
    BY <2>1, <2>2, SessionFacts
  <2>4. bg' \in [Requests -> RefundLabels] /\ bg'[r] = "fund" /\ \A x \in Requests : x # r => bg'[x] = bg[x]
    BY <1>5 DEF TypeOK, RefundLabels
  <2>5. TypeOK' /\ OthersKept(r)
    BY <1>1, <1>3, <2>3, <2>4 DEF TypeOK, OthersKept, money
  <2>6. ses[r].src \in {"wallet", "sub"}
    BY <1>4, <1>5, Typed DEF NeedsRefund
  <2>7. err[r] \cap FundingGivesUp = {} => paid[r] = ses[r].cons
    BY <1>4, <2>6, Typed DEF FundingGivesUp
  <2>8. UnfundedInv(r)' /\ OpenInv(r)' /\ ServedInv(r)' /\ EndedInv(r)' /\ RefundOnlyEnded(r)'
    BY <1>1, <1>3, <1>4, <2>2, <2>3, <2>4, <2>6, <2>7
       DEF UnfundedInv, OpenInv, ServedInv, EndedInv, RefundOnlyEnded, money
  <2>9. TokenInv(r)'
    BY <1>1, <1>3, <1>4, <2>2, <2>3, <2>4 DEF TokenInv, money
  <2> QED BY <2>5, <2>8, <2>9, Compose DEF RequestInv
<1>6. CASE ~NeedsRefund(r) /\ UNCHANGED <<ses, bg>>
  <2>1. ses[r].tok = 0
    BY <1>4, <1>6, Typed DEF NeedsRefund
  <2>2. TypeOK' /\ OthersKept(r)
    BY <1>1, <1>3, <1>6 DEF TypeOK, OthersKept, money
  <2>3. UnfundedInv(r)' /\ OpenInv(r)' /\ ServedInv(r)' /\ EndedInv(r)' /\ RefundOnlyEnded(r)'
    BY <1>1, <1>3, <1>4, <1>6, <2>1
       DEF UnfundedInv, OpenInv, ServedInv, EndedInv, RefundOnlyEnded, money
  <2>4. TokenInv(r)'
    BY <1>1, <1>3, <1>4, <1>6, <2>1 DEF TokenInv, money
  <2> QED BY <2>2, <2>3, <2>4, Compose DEF RequestInv
<1> QED BY <1>5, <1>6 DEF Fail

\* A step of a failed request's own goroutine only moves on to the next label.
LEMMA EndedStep ==
    ASSUME IInv, NEW r \in Requests, pc[r] \in Ended, pc'[r] \in Ended, TypeOK', OthersKept(r),
           UNCHANGED <<prof, bg, ses, actual, rec, paid, tokPaid>>,
           NEW c \in {"fee", "feeToken"}, err'[r] = err[r] \/ err'[r] = err[r] \cup {c}
    PROVE  IInv'
<1> USE DEF IInv
<1>1. /\ err'[r] \cap TokenGivesUp = {} => err[r] \cap TokenGivesUp = {}
      /\ err'[r] \cap FundingGivesUp = {} => err[r] \cap FundingGivesUp = {}
    OBVIOUS
<1>2. RequestInv(r)'
    BY <1>1 DEF RequestInv, UnfundedInv, OpenInv, ServedInv, EndedInv, TokenInv, RefundOnlyEnded
<1> QED BY <1>2, Compose

LEMMA ChargeViolationFeeInv ==
    ASSUME IInv, NEW r \in Requests, ChargeViolationFee(r)
    PROVE  IInv'
<1> USE DEF IInv
<1>1. /\ UNCHANGED <<prof, bg, alt, ses, actual, tries, active, token, rec, paid, tokPaid>>
      /\ pc[r] = "fee"
    BY DEF ChargeViolationFee
<1>2. \E l \in {"feeTok", "failed"} : Goto(r, l)
    BY DEF ChargeViolationFee
<1>3. /\ pc' \in [Requests -> Labels] /\ pc'[r] \in {"feeTok", "failed"}
      /\ \A x \in Requests : x # r => pc'[x] = pc[x]
    BY <1>2, PcFacts DEF Labels
<1>4. \/ NoFault \/ Fault(r, "fee")
      \/ err' = [err EXCEPT ![r] = @ \cup {"fee"}] /\ faults' = faults
    BY DEF ChargeViolationFee
<1>5. /\ err' \in [Requests -> SUBSET Calls] /\ faults' \in Nat
      /\ err'[r] = err[r] \/ err'[r] = err[r] \cup {"fee"}
      /\ \A x \in Requests : x # r => err'[x] = err[x]
    BY <1>4, ErrFacts DEF Calls
<1>6. wallet' \in Int /\ used' \in Nat
    BY ConstantsAssumption DEF ChargeViolationFee, SubUsedAfter, TypeOK
<1>7. fee' \in [Requests -> Nat]
    BY ConstantsAssumption DEF ChargeViolationFee, TypeOK
<1>8. TypeOK' /\ OthersKept(r)
    BY <1>1, <1>3, <1>5, <1>6, <1>7 DEF TypeOK, OthersKept
<1> QED BY <1>1, <1>3, <1>5, <1>8, EndedStep

LEMMA ChargeViolationFeeTokenInv ==
    ASSUME IInv, NEW r \in Requests, ChargeViolationFeeToken(r)
    PROVE  IInv'
<1> USE DEF IInv
<1>1. /\ UNCHANGED <<prof, bg, alt, ses, actual, tries, active, rec, tokPaid, fee, wallet, used, paid>>
      /\ pc[r] = "feeTok" /\ Goto(r, "failed") /\ (NoFault \/ Fault(r, "feeToken"))
    BY DEF ChargeViolationFeeToken, FundingUnchanged
<1>2. /\ pc' \in [Requests -> Labels] /\ pc'[r] = "failed"
      /\ \A x \in Requests : x # r => pc'[x] = pc[x]
    BY <1>1, PcFacts DEF Labels
<1>3. /\ err' \in [Requests -> SUBSET Calls] /\ faults' \in Nat
      /\ err'[r] = err[r] \/ err'[r] = err[r] \cup {"feeToken"}
      /\ \A x \in Requests : x # r => err'[x] = err[x]
    BY <1>1, ErrFacts DEF Calls
<1>4. token' \in Int
    BY ConstantsAssumption DEF ChargeViolationFeeToken, TypeOK
<1>5. TypeOK' /\ OthersKept(r)
    BY <1>1, <1>2, <1>3, <1>4 DEF TypeOK, OthersKept
<1> QED BY <1>1, <1>2, <1>3, <1>5, EndedStep

LEMMA BgFacts ==
    ASSUME TypeOK, NEW r \in Requests, NEW l \in RefundLabels, BgGoto(r, l)
    PROVE  /\ bg' \in [Requests -> RefundLabels] /\ bg'[r] = l
           /\ \A x \in Requests : x # r => bg'[x] = bg[x]
BY DEF TypeOK, BgGoto

\* A refund goroutine runs only in a failed request, so only the two parts of
\* the invariant that speak of failed requests need looking at.
LEMMA RefundStepInv ==
    ASSUME IInv, NEW r \in Requests, bg[r] # "none", bg'[r] # "none", TypeOK', OthersKept(r),
           UNCHANGED <<prof, pc, ses, actual>>, EndedInv(r)', TokenInv(r)'
    PROVE  IInv'
<1> USE DEF IInv
<1>1. pc[r] \in Ended
    BY DEF RequestInv, RefundOnlyEnded
<1>2. RequestInv(r)'
    BY <1>1 DEF RequestInv, UnfundedInv, OpenInv, ServedInv, RefundOnlyEnded
<1> QED BY <1>2, Compose

\* What the invariant says of a request whose refund goroutine is at work.
LEMMA RefundFacts ==
    ASSUME IInv, NEW r \in Requests, bg[r] # "none"
    PROVE  /\ pc[r] \in Ended /\ ses[r].src \in {"wallet", "sub"}
           /\ bg[r] = "mark" => ses[r].src = "sub"
           /\ bg[r] \in {"fund", "mark"} /\ ses[r].src = "sub" => rec[r] = "consumed"
           /\ (err[r] \cap FundingGivesUp = {}) =>
                 /\ bg[r] = "fund" => paid[r] = ses[r].cons
                 /\ bg[r] \in {"mark", "token", "end"} => paid[r] = 0
           /\ prof[r].playground => tokPaid[r] = 0
           /\ ~prof[r].playground /\ (err[r] \cap TokenGivesUp = {}) =>
                 tokPaid[r] = IF bg[r] = "end" THEN 0 ELSE ses[r].tok
BY DEF IInv, RequestInv, RefundOnlyEnded, EndedInv, TokenInv

LEMMA RefundWalletInv ==
    ASSUME IInv, NEW r \in Requests, RefundWallet(r)
    PROVE  IInv'
<1> USE DEF IInv
<1>1. /\ UNCHANGED <<prof, pc, alt, ses, actual, tries, active, rec, fee, token, tokPaid>>
      /\ bg[r] = "fund" /\ ses[r].src = "wallet" /\ BgGoto(r, "token")
      /\ NoFault \/ Fault(r, "refund")
      /\ AddUserQuota(r, -ses[r].cons) \/ FundingUnchanged
    BY DEF RefundWallet, TokenUnchanged
<1>2. /\ bg' \in [Requests -> RefundLabels] /\ bg'[r] = "token"
      /\ \A x \in Requests : x # r => bg'[x] = bg[x]
    BY <1>1, BgFacts DEF RefundLabels
<1>3. /\ err' \in [Requests -> SUBSET Calls] /\ faults' \in Nat
      /\ err'[r] = err[r] \/ err'[r] = err[r] \cup {"refund"}
      /\ \A x \in Requests : x # r => err'[x] = err[x]
    BY <1>1, ErrFacts DEF Calls
<1>4. -ses[r].cons \in Int
    BY Typed
<1>5. /\ wallet' \in Int /\ used' \in Nat /\ paid' \in [Requests -> Int]
      /\ \A x \in Requests : x # r => paid'[x] = paid[x]
    BY <1>1, <1>4, FundingFacts DEF FundingUnchanged, TypeOK
<1>6. TypeOK' /\ OthersKept(r)
    BY <1>1, <1>2, <1>3, <1>5 DEF TypeOK, OthersKept
<1>7. ASSUME err'[r] \cap FundingGivesUp = {}
      PROVE  paid'[r] = 0
  <2>1. ~Fault(r, "refund")
    BY <1>7 DEF Fault, FundingGivesUp, TypeOK
  <2>2. AddUserQuota(r, -ses[r].cons)
    BY <2>1 DEF RefundWallet
  <2>3. paid[r] = ses[r].cons
    BY <1>1, <1>3, <1>7, RefundFacts, Typed
  <2> QED BY <1>4, <2>2, <2>3, FundingFacts, Typed
<1>8. EndedInv(r)'
    BY <1>1, <1>2, <1>7 DEF EndedInv
<1>9. TokenInv(r)'
    BY <1>1, <1>2, <1>3, RefundFacts DEF TokenInv
<1> QED BY <1>1, <1>2, <1>6, <1>8, <1>9, RefundStepInv

\* refundWithRetry: another attempt, or on to the rest of the refund.
LEMMA RetryFacts ==
    ASSUME TypeOK, NEW r \in Requests, RetryRefund(r)
    PROVE  /\ bg' \in [Requests -> RefundLabels] /\ tries' \in [Requests -> Nat]
           /\ bg'[r] = IF LastAttempt(r) THEN "token" ELSE "fund"
           /\ \A x \in Requests : x # r => bg'[x] = bg[x]
<1>1. tries' \in [Requests -> Nat]
    BY DEF RetryRefund, TypeOK
<1>2. BgGoto(r, IF LastAttempt(r) THEN "token" ELSE "fund")
    BY DEF RetryRefund
<1>3. (IF LastAttempt(r) THEN "token" ELSE "fund") \in RefundLabels
    BY DEF RefundLabels
<1> QED BY <1>1, <1>2, <1>3, BgFacts

LEMMA RefundSubscriptionInv ==
    ASSUME IInv, NEW r \in Requests, RefundSubscription(r)
    PROVE  IInv'
<1> USE DEF IInv
<1>1. /\ UNCHANGED <<prof, pc, alt, ses, actual, active, rec, fee, token, tokPaid>>
      /\ bg[r] = "fund" /\ ses[r].src = "sub"
    BY DEF RefundSubscription, TokenUnchanged
<1>2. rec[r] = "consumed"
    BY <1>1, RefundFacts
<1>3. CASE AddSubUsed(r, -ses[r].cons) /\ BgGoto(r, "mark") /\ NoFault /\ UNCHANGED tries
  <2>1. /\ bg' \in [Requests -> RefundLabels] /\ bg'[r] = "mark"
        /\ \A x \in Requests : x # r => bg'[x] = bg[x]
    BY <1>3, BgFacts DEF RefundLabels
  <2>2. -ses[r].cons \in Int
    BY Typed
  <2>3. /\ wallet' \in Int /\ used' \in Nat /\ paid' \in [Requests -> Int]
        /\ paid'[r] = paid[r] + (-ses[r].cons)
        /\ \A x \in Requests : x # r => paid'[x] = paid[x]
    BY <1>3, <2>2, FundingFacts
  <2>4. TypeOK' /\ OthersKept(r)
    BY <1>1, <1>3, <2>1, <2>3 DEF TypeOK, OthersKept, NoFault
  <2>5. err[r] \cap FundingGivesUp = {} => paid'[r] = 0
    BY <1>1, <2>3, RefundFacts, Typed
  <2>6. EndedInv(r)'
    BY <1>1, <1>2, <1>3, <2>1, <2>5 DEF EndedInv, NoFault
  <2>7. TokenInv(r)'
    BY <1>1, <1>3, <2>1, RefundFacts DEF TokenInv, NoFault
  <2> QED BY <1>1, <2>1, <2>4, <2>6, <2>7, RefundStepInv
<1>4. CASE /\ Fault(r, IF LastAttempt(r) THEN "refund" ELSE "refundAttempt")
           /\ RetryRefund(r) /\ FundingUnchanged
  <2> DEFINE c == IF LastAttempt(r) THEN "refund" ELSE "refundAttempt"
  <2>1. c \in Calls /\ Fault(r, c)
    BY <1>4 DEF Calls
  <2>2. /\ err' \in [Requests -> SUBSET Calls] /\ faults' \in Nat
        /\ err'[r] = err[r] \/ err'[r] = err[r] \cup {c}
        /\ \A x \in Requests : x # r => err'[x] = err[x]
    BY <2>1, ErrFacts
  <2>3. /\ bg' \in [Requests -> RefundLabels] /\ tries' \in [Requests -> Nat]
        /\ bg'[r] = IF LastAttempt(r) THEN "token" ELSE "fund"
        /\ \A x \in Requests : x # r => bg'[x] = bg[x]
    BY <1>4, RetryFacts
  <2>4. TypeOK' /\ OthersKept(r)
    BY <1>1, <1>4, <2>2, <2>3 DEF TypeOK, OthersKept, FundingUnchanged
  <2>5. LastAttempt(r) => err'[r] \cap FundingGivesUp # {}
    BY <2>1 DEF Fault, FundingGivesUp, TypeOK
  <2>6. EndedInv(r)'
    BY <1>1, <1>2, <1>4, <2>2, <2>3, <2>5, RefundFacts DEF EndedInv, FundingUnchanged
  <2>7. TokenInv(r)'
    BY <1>1, <2>2, <2>3, RefundFacts DEF TokenInv
  <2> QED BY <1>1, <2>3, <2>4, <2>6, <2>7, RefundStepInv
<1> QED BY <1>2, <1>3, <1>4 DEF RefundSubscription

LEMMA RefundSubscriptionMarkInv ==
    ASSUME IInv, NEW r \in Requests, RefundSubscriptionMark(r)
    PROVE  IInv'
<1> USE DEF IInv
<1>1. /\ UNCHANGED <<prof, pc, alt, ses, actual, active, fee, wallet, used, paid, token, tokPaid>>
      /\ bg[r] = "mark"
    BY DEF RefundSubscriptionMark, TokenUnchanged, FundingUnchanged
<1>2. CASE rec' = [rec EXCEPT ![r] = "refunded"] /\ BgGoto(r, "token") /\ NoFault /\ UNCHANGED tries
  <2>1. /\ bg' \in [Requests -> RefundLabels] /\ bg'[r] = "token"
        /\ \A x \in Requests : x # r => bg'[x] = bg[x]
    BY <1>2, BgFacts DEF RefundLabels
  <2>2. /\ rec' \in [Requests -> {"none", "consumed", "refunded"}]
        /\ \A x \in Requests : x # r => rec'[x] = rec[x]
    BY <1>2 DEF TypeOK
  <2>3. TypeOK' /\ OthersKept(r)
    BY <1>1, <1>2, <2>1, <2>2 DEF TypeOK, OthersKept, NoFault
  <2>4. EndedInv(r)'
    BY <1>1, <1>2, <2>1, RefundFacts DEF EndedInv, NoFault
  <2>5. TokenInv(r)'
    BY <1>1, <1>2, <2>1, RefundFacts DEF TokenInv, NoFault
  <2> QED BY <1>1, <2>1, <2>3, <2>4, <2>5, RefundStepInv
<1>3. CASE Fault(r, "refundMark") /\ RetryRefund(r) /\ UNCHANGED rec
  <2>1. /\ err' \in [Requests -> SUBSET Calls] /\ faults' \in Nat
        /\ err'[r] = err[r] \/ err'[r] = err[r] \cup {"refundMark"}
        /\ \A x \in Requests : x # r => err'[x] = err[x]
    BY <1>3, ErrFacts DEF Calls
  <2>2. /\ bg' \in [Requests -> RefundLabels] /\ tries' \in [Requests -> Nat]
        /\ bg'[r] \in {"token", "fund"}
        /\ \A x \in Requests : x # r => bg'[x] = bg[x]
    BY <1>3, RetryFacts
  <2>3. TypeOK' /\ OthersKept(r)
    BY <1>1, <1>3, <2>1, <2>2 DEF TypeOK, OthersKept
  <2>4. err'[r] \cap FundingGivesUp # {}
    BY <1>3 DEF Fault, FundingGivesUp, TypeOK
  <2>5. EndedInv(r)'
    BY <1>1, <1>3, <2>2, <2>4, RefundFacts DEF EndedInv
  <2>6. TokenInv(r)'
    BY <1>1, <2>1, <2>2, RefundFacts DEF TokenInv
  <2> QED BY <1>1, <2>2, <2>3, <2>5, <2>6, RefundStepInv
<1> QED BY <1>2, <1>3 DEF RefundSubscriptionMark

LEMMA RefundTokenInv ==
    ASSUME IInv, NEW r \in Requests, RefundToken(r)
    PROVE  IInv'
<1> USE DEF IInv
<1>1. /\ UNCHANGED <<prof, pc, alt, ses, actual, tries, active, rec, fee, wallet, used, paid>>
      /\ bg[r] = "token" /\ BgGoto(r, "end") /\ (NoFault \/ Fault(r, "refundToken"))
      /\ AddTokenQuota(r, -ses[r].tok) \/ TokenUnchanged
    BY DEF RefundToken, FundingUnchanged
<1>2. /\ bg' \in [Requests -> RefundLabels] /\ bg'[r] = "end"
      /\ \A x \in Requests : x # r => bg'[x] = bg[x]
    BY <1>1, BgFacts DEF RefundLabels
<1>3. /\ err' \in [Requests -> SUBSET Calls] /\ faults' \in Nat
      /\ err'[r] = err[r] \/ err'[r] = err[r] \cup {"refundToken"}
      /\ \A x \in Requests : x # r => err'[x] = err[x]
    BY <1>1, ErrFacts DEF Calls
<1>4. -ses[r].tok \in Int
    BY Typed
<1>5. /\ token' \in Int /\ tokPaid' \in [Requests -> Int]
      /\ \A x \in Requests : x # r => tokPaid'[x] = tokPaid[x]
    BY <1>1, <1>4, TokenFacts DEF TokenUnchanged, TypeOK
<1>6. TypeOK' /\ OthersKept(r)
    BY <1>1, <1>2, <1>3, <1>5 DEF TypeOK, OthersKept
<1>7. ASSUME ~prof[r].playground, err'[r] \cap TokenGivesUp = {}
      PROVE  tokPaid'[r] = 0
  <2>1. ~Fault(r, "refundToken")
    BY <1>7 DEF Fault, TokenGivesUp, TypeOK
  <2>2. tokPaid[r] = ses[r].tok
    BY <1>1, <1>3, <1>7, RefundFacts
  <2>3. CASE ses[r].tok > 0
    <3>1. AddTokenQuota(r, -ses[r].tok)
      BY <1>7, <2>1, <2>3 DEF RefundToken
    <3> QED BY <1>4, <2>2, <3>1, TokenFacts, Typed
  <2>4. CASE ~(ses[r].tok > 0)
    BY <2>1, <2>2, <2>4, Typed DEF RefundToken, TokenUnchanged
  <2> QED BY <2>3, <2>4
<1>8. prof[r].playground => tokPaid'[r] = 0
    BY <1>1, RefundFacts DEF RefundToken, TokenUnchanged
<1>9. EndedInv(r)'
    BY <1>1, <1>2, <1>3, RefundFacts DEF EndedInv
<1>10. pc[r] \in Ended
    BY <1>1, RefundFacts
<1>11. TokenInv(r)'
    BY <1>1, <1>2, <1>7, <1>8, <1>10 DEF TokenInv
<1> QED BY <1>1, <1>2, <1>6, <1>9, <1>11, RefundStepInv

-----------------------------------------------------------------------------
(* The theorems.                                                           *)

\* A step that leaves every request's own state alone.
LEMMA IdleStep ==
    ASSUME IInv, active' \in BOOLEAN,
           UNCHANGED <<prof, pc, bg, alt, ses, actual, tries, err, faults, money>>
    PROVE  IInv'
<1>1. TypeOK'
    BY DEF IInv, TypeOK, money
<1>2. ASSUME NEW r \in Requests PROVE RequestInv(r)'
    BY Frame DEF IInv, money
<1> QED BY <1>1, <1>2 DEF IInv

LEMMA StepInv == IInv /\ [Next]_vars => IInv'
<1> SUFFICES ASSUME IInv, [Next]_vars PROVE IInv'
    OBVIOUS
<1>1. ASSUME NEW r \in Requests, RequestStep(r) PROVE IInv'
    BY <1>1, NewBillingSessionInv, TryWalletInv, TrySubscriptionInv, TokenReadInv, TokenDecreaseInv,
       FundingPreConsumeInv, RollbackTokenInv, WalletOverflowInv, ServeInv, SettleFundingInv, SettleTokenInv,
       FailInv, ChargeViolationFeeInv, ChargeViolationFeeTokenInv DEF RequestStep
<1>2. ASSUME NEW r \in Requests, RefundStep(r) PROVE IInv'
    BY <1>2, RefundWalletInv, RefundSubscriptionInv, RefundSubscriptionMarkInv,
       RefundTokenInv DEF RefundStep
<1>3. CASE ExpireSubscription
    BY <1>3, IdleStep DEF ExpireSubscription
<1>4. CASE UNCHANGED vars
  <2>1. /\ active' \in BOOLEAN
        /\ UNCHANGED <<prof, pc, bg, alt, ses, actual, tries, err, faults, money>>
    BY <1>4 DEF vars, money, IInv, TypeOK
  <2> QED BY <2>1, IdleStep
<1> QED BY <1>1, <1>2, <1>3, <1>4 DEF Next, Terminating

\* The strengthening holds in every reachable state.
THEOREM Inductive == Spec => []IInv
BY InitInv, StepInv, PTL DEF Spec

\* Type correctness: whatever fails and however requests interleave, every
\* quota a BillingSession carries stays a natural number and amount_used never
\* goes below zero.
THEOREM TypeCorrect == Spec => []TypeOK
<1>1. IInv => TypeOK
    BY DEF IInv
<1> QED BY <1>1, Inductive, PTL

\* BillingSession charges a finished request its price or nothing, for any
\* number of requests, any quotas and any number of failing calls, except
\* after an error that the code logs and drops.
THEOREM ChargesExactly == Spec => []ChargedExactly
<1>1. IInv => ChargedExactly
  <2> SUFFICES ASSUME IInv, NEW r \in Requests, Quiescent(r)
               PROVE  LET due == IF pc[r] = "served" THEN actual[r] ELSE 0 IN
                      /\ err[r] \cap FundingGivesUp = {} => paid[r] = due
                      /\ err[r] \cap TokenGivesUp = {} =>
                            tokPaid[r] = IF prof[r].playground THEN 0 ELSE due
    BY DEF ChargedExactly
  <2>1. RequestInv(r)
    BY DEF IInv
  <2>2. CASE pc[r] = "rejected"
    BY <2>1, <2>2 DEF RequestInv, UnfundedInv, TokenInv
  <2>3. CASE pc[r] = "served"
    <3>1. err[r] \cap FundingGivesUp = {} => "settle" \notin err[r]
      BY DEF FundingGivesUp
    <3> QED BY <2>1, <2>3, <3>1 DEF RequestInv, ServedInv, TokenInv
  <2>4. CASE pc[r] = "failed"
    BY <2>1, <2>4 DEF RequestInv, EndedInv, TokenInv, Quiescent
  <2> QED BY <2>2, <2>3, <2>4 DEF Quiescent
<1> QED BY <1>1, Inductive, PTL

\* The upstream is called and the price is settled only while the funding
\* source and the token both hold exactly preConsumedQuota.
THEOREM HoldsWhileRelayed == Spec => []HeldWhileRelayed
<1>1. IInv => HeldWhileRelayed
  <2> SUFFICES ASSUME IInv, NEW r \in Requests, pc[r] \in {"relay", "settle"}
               PROVE  /\ paid[r] = ses[r].pre
                      /\ err[r] \cap TokenGivesUp = {} =>
                            tokPaid[r] = IF prof[r].playground THEN 0 ELSE ses[r].pre
    BY DEF HeldWhileRelayed
  <2>1. RequestInv(r)
    BY DEF IInv
  <2>2. paid[r] = ses[r].pre /\ ses[r].tok = ses[r].pre
    BY <2>1 DEF RequestInv, OpenInv
  <2> QED BY <2>1, <2>2 DEF RequestInv, TokenInv
<1> QED BY <1>1, Inductive, PTL

-----------------------------------------------------------------------------
(* Sums over the requests.  A property of every subset of a finite set is    *)
(* shown by looking at a smallest subset without it.                         *)

Smaller(u, s) == u \subseteq s /\ u # s

LEMMA SmallestSubset ==
    ASSUME NEW S, IsFiniteSet(S), NEW T, T \subseteq SUBSET S, T # {}
    PROVE  \E s \in T : \A u \in T : ~Smaller(u, s)
<1>1. IsWellFoundedOn(StrictSubsetOrdering(S), SUBSET S)
  BY FS_FiniteSubsetsOfFinite, FS_StrictSubsetOrderingWellFounded
<1>2. PICK s \in T : \A u \in T : ~(<<u, s>> \in StrictSubsetOrdering(S))
  BY <1>1, WFMin
<1>3. \A u \in T : Smaller(u, s) => <<u, s>> \in StrictSubsetOrdering(S)
  BY DEF StrictSubsetOrdering, Smaller
<1> QED
  BY <1>2, <1>3

\* The recursive function by which MapThenSumSet sums f over the subsets of S.
One(s) == CHOOSE x \in s : TRUE
Sums(f, S, sum) ==
    sum = [s \in SUBSET S |-> IF s = {} THEN 0 ELSE f[One(s)] + sum[s \ {One(s)}]]

LEMMA OneFact ==
    ASSUME NEW s, s # {}
    PROVE  One(s) \in s
BY DEF One

LEMMA SumsUnfold ==
    ASSUME NEW f, NEW S, NEW sum, Sums(f, S, sum), NEW s \in SUBSET S
    PROVE  /\ s = {} => sum[s] = 0
           /\ s # {} => sum[s] = f[One(s)] + sum[s \ {One(s)}]
<1>1. sum = [u \in SUBSET S |-> IF u = {} THEN 0 ELSE f[One(u)] + sum[u \ {One(u)}]]
  BY DEF Sums
<1> QED
  BY <1>1

LEMMA SumOfNone ==
    ASSUME NEW f, NEW S, NEW sum, Sums(f, S, sum)
    PROVE  sum[{}] = 0
BY SumsUnfold

LEMMA SumOfSome ==
    ASSUME NEW f, NEW S, NEW sum, Sums(f, S, sum), NEW s \in SUBSET S, s # {}
    PROVE  sum[s] = f[One(s)] + sum[s \ {One(s)}]
BY SumsUnfold

LEMMA SumsAgree ==
    ASSUME NEW f, NEW S, IsFiniteSet(S), NEW T \in SUBSET S,
           NEW p, Sums(f, S, p), NEW q, Sums(f, T, q)
    PROVE  \A s \in SUBSET T : p[s] = q[s]
<1> DEFINE D == {s \in SUBSET T : p[s] # q[s]}
<1> SUFFICES ASSUME D # {} PROVE FALSE
  OBVIOUS
<1>1. D \subseteq SUBSET S
  OBVIOUS
<1> HIDE DEF D
<1>2. PICK s \in D : \A u \in D : ~Smaller(u, s)
  BY <1>1, SmallestSubset
<1> USE DEF D
<1>3. s \in SUBSET T /\ s \in SUBSET S /\ p[s] # q[s]
  OBVIOUS
<1>4. s # {}
  BY <1>3, SumsUnfold
<1> DEFINE u == s \ {One(s)}
<1>5. u \in SUBSET T /\ u \subseteq s /\ u # s
  BY <1>3, <1>4, OneFact
<1>6. p[u] = q[u]
  BY <1>2, <1>5 DEF Smaller
<1> QED
  BY <1>3, <1>4, <1>6, SumsUnfold

LEMMA SumsExist ==
    ASSUME NEW f, NEW S, IsFiniteSet(S)
    PROVE  \E sum : Sums(f, S, sum)
<1> DEFINE Has(T) == \E sum : Sums(f, T, sum)
           D == {T \in SUBSET S : ~Has(T)}
<1> SUFFICES ASSUME D # {} PROVE FALSE
  OBVIOUS
<1>0. D \subseteq SUBSET S
  OBVIOUS
<1> HIDE DEF D
<1>1. PICK T \in D : \A u \in D : ~Smaller(u, T)
  BY <1>0, SmallestSubset
<1> USE DEF D
<1>2. T \in SUBSET S /\ ~Has(T)
  OBVIOUS
<1>3. \A u \in SUBSET T : u # T => Has(u)
  BY <1>1, <1>2 DEF Smaller
<1> HIDE DEF Has
<1> DEFINE fun(u) == CHOOSE sum : Sums(f, u, sum)
           V(u) == fun(u)[u]
           g == [s \in SUBSET T |-> IF s = {} THEN 0 ELSE f[One(s)] + V(s \ {One(s)})]
<1>4. \A u \in SUBSET T : u # T => Sums(f, u, fun(u))
  BY <1>3 DEF Has
<1> HIDE DEF fun
<1>5. ASSUME NEW u \in SUBSET T, u # T PROVE g[u] = V(u)
  <2>1. Sums(f, u, fun(u)) /\ u \in SUBSET u
    BY <1>4, <1>5
  <2> DEFINE h == fun(u)
  <2>5. Sums(f, u, h) /\ V(u) = h[u]
    BY <2>1
  <2> HIDE DEF h
  <2>6. (u = {} => h[u] = 0) /\ (u # {} => h[u] = f[One(u)] + h[u \ {One(u)}])
    BY <2>1, <2>5, SumsUnfold
  <2>2. CASE u = {}
    BY <2>2, <2>5, <2>6
  <2>3. CASE u # {}
    <3> DEFINE w == u \ {One(u)}
    <3>1. w \in SUBSET u /\ w \in SUBSET T /\ w # T /\ u \in SUBSET u
      BY <2>3, OneFact
    <3>2. V(u) = f[One(u)] + h[w]
      BY <2>3, <2>5, <2>6
    <3>3. Sums(f, w, fun(w))
      BY <1>4, <3>1
    <3>4. IsFiniteSet(u)
      BY <1>2, FS_Subset
    <3>5. h[w] = fun(w)[w]
      BY <2>5, <3>1, <3>3, <3>4, SumsAgree
    <3> QED
      BY <2>3, <3>2, <3>5
  <2> QED
    BY <2>2, <2>3
<1>6. ASSUME NEW s \in SUBSET T, s # {} PROVE g[s \ {One(s)}] = V(s \ {One(s)})
  <2>1. s \ {One(s)} \in SUBSET T /\ s \ {One(s)} # T
    BY <1>6, OneFact
  <2> QED
    BY <1>5, <2>1
<1> HIDE DEF V
<1>7. Sums(f, T, g)
  <2>1. \A s \in SUBSET T : g[s] = IF s = {} THEN 0 ELSE f[One(s)] + g[s \ {One(s)}]
    BY <1>6
  <2> HIDE DEF g
  <2>2. g = [s \in SUBSET T |-> g[s]]
    BY DEF g
  <2> QED
    BY <2>1, <2>2 DEF Sums
<1> QED
  BY <1>2, <1>7 DEF Has

\* Total is such a sum.
LEMMA TotalSums ==
    ASSUME NEW f
    PROVE  \E sum : Sums(f, Requests, sum) /\ Total(f) = sum[Requests]
<1> DEFINE g == CHOOSE sum : Sums(f, Requests, sum)
<1>1. Sums(f, Requests, g)
  BY SumsExist, RequestsAssumption
<1>2. Total(f) = g[Requests]
  BY DEF Total, MapThenSumSet, MapThenFoldSet, Sums, One
<1> QED
  BY <1>1, <1>2

\* A sum over the requests moves by the change of one of them.
LEMMA TotalMoves ==
    ASSUME NEW f \in [Requests -> Int], NEW h \in [Requests -> Int], NEW r \in Requests,
           \A x \in Requests : x # r => h[x] = f[x]
    PROVE  Total(f) \in Int /\ Total(h) = Total(f) + h[r] - f[r]
<1>1. PICK p : Sums(f, Requests, p) /\ Total(f) = p[Requests]
  BY TotalSums
<1>2. PICK q : Sums(h, Requests, q) /\ Total(h) = q[Requests]
  BY TotalSums
<1> DEFINE Right(s) == p[s] \in Int /\ q[s] = IF r \in s THEN p[s] + h[r] - f[r] ELSE p[s]
           D == {s \in SUBSET Requests : ~Right(s)}
<1> HIDE DEF Right
<1>3. D = {}
  <2> SUFFICES ASSUME D # {} PROVE FALSE
    OBVIOUS
  <2>1. D \subseteq SUBSET Requests
    OBVIOUS
  <2> HIDE DEF D
  <2>2. PICK s \in D : \A u \in D : ~Smaller(u, s)
    BY <2>1, SmallestSubset, RequestsAssumption
  <2>3. s \in SUBSET Requests /\ ~Right(s)
    BY DEF D
  <2> DEFINE u == s \ {One(s)}
  <2>4. CASE s = {}
    <3>1. p[s] = 0 /\ q[s] = 0
      <4>1. p[s] = 0
        BY <1>1, <2>4, SumOfNone
      <4>2. q[s] = 0
        BY <1>2, <2>4, SumOfNone
      <4> QED
        BY <4>1, <4>2
    <3>2. r \notin s
      BY <2>4
    <3> QED
      BY <2>3, <3>1, <3>2 DEF Right
  <2>5. CASE s # {}
    <3>1. One(s) \in s /\ One(s) \in Requests
      BY <2>3, <2>5, OneFact
    <3>2. u \in SUBSET Requests /\ Smaller(u, s) /\ (r \in u <=> r \in s /\ r # One(s))
      BY <2>3, <3>1 DEF Smaller
    <3>3. Right(u)
      BY <2>2, <3>2 DEF D
    <3>4. p[s] = f[One(s)] + p[u] /\ q[s] = h[One(s)] + q[u]
      <4>1. p[s] = f[One(s)] + p[u]
        BY <1>1, <2>3, <2>5, SumOfSome
      <4>2. q[s] = h[One(s)] + q[u]
        BY <1>2, <2>3, <2>5, SumOfSome
      <4> QED
        BY <4>1, <4>2
    <3> DEFINE x == One(s)
    <3>5. f[x] \in Int /\ h[x] \in Int /\ f[r] \in Int /\ h[r] \in Int /\ (x # r => h[x] = f[x])
      BY <3>1
    <3> HIDE DEF x, u
    <3>6. CASE x = r
      <4>1. r \in s /\ r \notin u
        BY <3>1, <3>2, <3>6 DEF x
      <4>2. p[s] = f[r] + p[u] /\ q[s] = h[r] + p[u] /\ p[u] \in Int
        BY <3>3, <3>4, <3>6, <4>1 DEF x, Right
      <4> QED
        BY <2>3, <3>5, <4>1, <4>2 DEF Right
    <3>7. CASE x # r
      BY <2>3, <3>2, <3>3, <3>4, <3>5, <3>7 DEF x, Right
    <3> QED
      BY <3>6, <3>7
  <2> QED
    BY <2>4, <2>5
<1>4. Right(Requests)
  BY <1>3
<1> QED
  BY <1>1, <1>2, <1>4 DEF Right

LEMMA TotalOfNothing ==
    ASSUME NEW f, \A x \in Requests : f[x] = 0
    PROVE  Total(f) = 0
<1>1. PICK p : Sums(f, Requests, p) /\ Total(f) = p[Requests]
  BY TotalSums
<1> DEFINE D == {s \in SUBSET Requests : p[s] # 0}
<1>2. D = {}
  <2> SUFFICES ASSUME D # {} PROVE FALSE
    OBVIOUS
  <2>1. D \subseteq SUBSET Requests
    OBVIOUS
  <2> HIDE DEF D
  <2>2. PICK s \in D : \A u \in D : ~Smaller(u, s)
    BY <2>1, SmallestSubset, RequestsAssumption
  <2>3. s \in SUBSET Requests
    BY DEF D
  <2>9. p[s] # 0
    BY DEF D
  <2> DEFINE u == s \ {One(s)}
  <2>4. s # {}
    BY <1>1, <2>9, SumOfNone
  <2>5. One(s) \in s /\ One(s) \in Requests
    BY <2>3, <2>4, OneFact
  <2>6. u \in SUBSET Requests /\ Smaller(u, s)
    BY <2>3, <2>5 DEF Smaller
  <2>7. p[u] = 0
    BY <2>2, <2>6 DEF D
  <2>8. p[s] = f[One(s)] + p[u]
    BY <1>1, <2>3, <2>4, SumOfSome
  <2> QED
    BY <2>5, <2>7, <2>8, <2>9
<1> QED
  BY <1>1, <1>2

\* No share of a sum of shares that are not negative exceeds it.
LEMMA TotalBounds ==
    ASSUME NEW f \in [Requests -> Nat], NEW r \in Requests
    PROVE  Total(f) \in Nat /\ f[r] <= Total(f)
<1>1. PICK p : Sums(f, Requests, p) /\ Total(f) = p[Requests]
  BY TotalSums
<1> DEFINE Right(s) == p[s] \in Nat /\ (r \in s => f[r] <= p[s])
           D == {s \in SUBSET Requests : ~Right(s)}
<1> HIDE DEF Right
<1>2. D = {}
  <2> SUFFICES ASSUME D # {} PROVE FALSE
    OBVIOUS
  <2>1. D \subseteq SUBSET Requests
    OBVIOUS
  <2> HIDE DEF D
  <2>2. PICK s \in D : \A u \in D : ~Smaller(u, s)
    BY <2>1, SmallestSubset, RequestsAssumption
  <2>3. s \in SUBSET Requests /\ ~Right(s)
    BY DEF D
  <2> DEFINE u == s \ {One(s)}
  <2>4. s # {}
    BY <1>1, <2>3, SumOfNone DEF Right
  <2>5. One(s) \in s /\ One(s) \in Requests
    BY <2>3, <2>4, OneFact
  <2>6. u \in SUBSET Requests /\ Smaller(u, s) /\ (r \in u <=> r \in s /\ r # One(s))
    BY <2>3, <2>5 DEF Smaller
  <2>7. Right(u)
    BY <2>2, <2>6 DEF D
  <2>8. p[s] = f[One(s)] + p[u]
    BY <1>1, <2>3, <2>4, SumOfSome
  <2> DEFINE x == One(s)
  <2>9. f[x] \in Nat /\ f[r] \in Nat
    BY <2>5
  <2> HIDE DEF x, u
  <2>10. CASE x = r
    <3>1. p[s] = f[r] + p[u] /\ p[u] \in Nat
      BY <2>7, <2>8, <2>10 DEF x, Right
    <3> QED
      BY <2>3, <2>9, <3>1 DEF Right
  <2>11. CASE x # r
    BY <2>3, <2>6, <2>7, <2>8, <2>9, <2>11 DEF x, Right
  <2> QED
    BY <2>10, <2>11
<1>3. Right(Requests)
  BY <1>2
<1> QED
  BY <1>1, <1>3 DEF Right
-----------------------------------------------------------------------------
(* What a step of one request does to the rows and to the ledgers.           *)

\* Another request is not touched, and no failed call is forgotten.
Alone(r) ==
    /\ \A x \in Requests : x # r =>
         /\ pc'[x] = pc[x] /\ bg'[x] = bg[x] /\ ses'[x] = ses[x] /\ err'[x] = err[x]
         /\ paid'[x] = paid[x] /\ fee'[x] = fee[x]
    /\ err[r] \subseteq err'[r]

LEMMA NewSessionAlone ==
    ASSUME TypeOK, NEW r \in Requests, NewBillingSession(r)
    PROVE  Alone(r)
<1>1. \E l \in {"relay", "sub", "wallet", "rejected"}, f \in {"none", "wallet", "sub", "overflow"} : Route(r, l, f)
  BY Typed DEF NewBillingSession, ProfileShape, Preferences
<1>2. \A x \in Requests : x # r => pc'[x] = pc[x]
  BY <1>1 DEF Route, Goto, TypeOK
<1>3. NoFault \/ Fault(r, "lookup")
  BY DEF NewBillingSession
<1>4. /\ UNCHANGED <<bg, paid, fee>>
      /\ \A x \in Requests : x # r => ses'[x] = ses[x]
  BY DEF NewBillingSession, money, TypeOK
<1>5. (\A x \in Requests : x # r => err'[x] = err[x]) /\ err[r] \subseteq err'[r]
  BY <1>3 DEF NoFault, Fault, TypeOK
<1> QED
  BY <1>2, <1>4, <1>5 DEF Alone

LEMMA StepAlone ==
    ASSUME TypeOK, NEW r \in Requests, RequestStep(r) \/ RefundStep(r)
    PROVE  Alone(r)
<1> USE DEF TypeOK, Alone, Goto, Route, BgGoto, NoFault, Fault, money, FundingUnchanged, TokenUnchanged,
            AddTokenQuota, AddFunding, AddUserQuota, AddSubUsed
<1>1. CASE NewBillingSession(r)
  BY <1>1, NewSessionAlone DEF NewBillingSession
<1>2. CASE TryWallet(r)
  <2>1. (Insufficient(r) \/ Reject(r)) \/ BeginPreConsume(r, "wallet", prof[r].quota)
    BY <1>2 DEF TryWallet
  <2>2. \A x \in Requests : x # r => pc'[x] = pc[x] /\ ses'[x] = ses[x]
    BY <2>1, DropFacts, BeginFacts, Typed
  <2> QED BY <1>2, <2>2 DEF TryWallet
<1>3. CASE TrySubscription(r)
  BY <1>3 DEF TrySubscription, BeginPreConsume
<1>4. CASE TokenRead(r)
  BY <1>4 DEF TokenRead, Reject
<1>5. CASE TokenDecrease(r)
  BY <1>5 DEF TokenDecrease, Reject
<1>6. CASE FundingPreConsume(r)
  BY <1>6 DEF FundingPreConsume
<1>7. CASE RollbackToken(r)
  <2>1. Insufficient(r) \/ Reject(r)
    BY <1>7 DEF RollbackToken
  <2>2. \A x \in Requests : x # r => pc'[x] = pc[x] /\ ses'[x] = ses[x]
    BY <2>1, DropFacts
  <2> QED BY <1>7, <2>2 DEF RollbackToken
<1>8. CASE WalletOverflow(r)
  BY <1>8 DEF WalletOverflow
<1>13. CASE Serve(r)
  BY <1>13 DEF Serve
<1>14. CASE SettleFunding(r)
  BY <1>14 DEF SettleFunding
<1>15. CASE SettleToken(r)
  BY <1>15 DEF SettleToken
<1>16. CASE Fail(r)
  BY <1>16 DEF Fail
<1>17. CASE ChargeViolationFee(r)
  BY <1>17 DEF ChargeViolationFee
<1>18. CASE ChargeViolationFeeToken(r)
  BY <1>18 DEF ChargeViolationFeeToken
<1>19. CASE RefundWallet(r)
  BY <1>19 DEF RefundWallet
<1>20. CASE RefundSubscription(r)
  BY <1>20 DEF RefundSubscription, RetryRefund
<1>21. CASE RefundSubscriptionMark(r)
  BY <1>21 DEF RefundSubscriptionMark, RetryRefund
<1>23. CASE RefundToken(r)
  BY <1>23 DEF RefundToken
<1> QED
  BY <1>1, <1>2, <1>3, <1>4, <1>5, <1>6, <1>7, <1>8, <1>13, <1>14,
     <1>15, <1>16, <1>17, <1>18, <1>19, <1>20, <1>21, <1>23, Zenon DEF RequestStep, RefundStep

\* The violation fee is charged last, once.
FeeInv(r) == pc[r] \notin {"feeTok", "failed"} => fee[r] = 0

\* A request holds at least what its session says, and a subscription never
\* gives back more than it was charged, until a refund is repeated.
FloorInv(r) ==
    /\ pc[r] \in Open => paid[r] >= ses[r].pre
    /\ Charged(r) => paid[r] >= 0
    /\ (pc[r] \in Ended /\ ses[r].src = "sub" /\ "refundMark" \notin err[r]) =>
          /\ bg[r] \in {"none", "mark", "token", "end"} => paid[r] >= 0
          /\ bg[r] = "fund" => paid[r] >= ses[r].cons

LedgerInv(r) == FeeInv(r) /\ FloorInv(r)

\* A row moves by what the ledgers of the request move, and only the row of
\* the source the request is funded from.
Moved(r) == paid'[r] + fee'[r] - (paid[r] + fee[r])

Draws(r) ==
    \/ /\ UNCHANGED <<wallet, used>> /\ paid'[r] = paid[r] /\ fee'[r] = fee[r]
       /\ ses'[r].src = ses[r].src \/ (paid[r] = 0 /\ fee[r] = 0)
    \/ /\ ses'[r].src = ses[r].src /\ ses[r].src # "sub"
       /\ wallet' = wallet - Moved(r) /\ used' = used
    \/ /\ ses'[r].src = ses[r].src /\ ses[r].src = "sub"
       /\ wallet' = wallet /\ used' = SubUsedAfter(Moved(r))
       /\ (SubTotal > 0 /\ used <= SubTotal) => used' <= SubTotal

\* A charge is final, and a fee is taken alone.
Turns(r) ==
    /\ Charged(r) => Charged(r)' /\ paid'[r] = paid[r]
    /\ fee'[r] # fee[r] => fee[r] = 0 /\ paid'[r] = paid[r] /\ ~Charged(r) /\ ~Charged(r)'

Accounts(r) == Draws(r) /\ Turns(r) /\ LedgerInv(r)'

\* A step that moves no money.
LEMMA QuietAccounts ==
    ASSUME IInv, NEW r \in Requests, LedgerInv(r), UNCHANGED <<wallet, used, paid, fee>>,
           ses'[r].src = ses[r].src \/ pc[r] \in Unfunded,
           Charged(r) => Charged(r)',
           pc[r] \in {"feeTok", "failed"} => pc'[r] \in {"feeTok", "failed"},
           FloorInv(r)'
    PROVE  Accounts(r)
<1>1. pc[r] \in Unfunded => paid[r] = 0 /\ fee[r] = 0
  BY DEF IInv, RequestInv, UnfundedInv, LedgerInv, FeeInv
<1>2. Draws(r)
  BY <1>1 DEF Draws
<1>3. Turns(r)
  BY DEF Turns
<1>4. FeeInv(r)'
  BY DEF LedgerInv, FeeInv
<1> QED
  BY <1>2, <1>3, <1>4 DEF Accounts, LedgerInv

\* A request that is relayed or not yet funded has no debt.
LEMMA FloorBeforeEnd ==
    ASSUME IInv', NEW r \in Requests, pc'[r] \in Unfunded \cup {"relay", "settle"}
    PROVE  FloorInv(r)'
<1>1. pc'[r] \in {"relay", "settle"} => paid'[r] = ses'[r].pre
  BY DEF IInv, RequestInv, OpenInv
<1>2. paid'[r] \in Int /\ ses'[r].pre \in Nat
  BY DEF IInv, TypeOK, SessionType
<1> QED
  BY <1>1, <1>2 DEF FloorInv, Charged

\* What remains of a session that a step changes in other fields only.
SameFunds(r) ==
    /\ ses'[r].src = ses[r].src /\ ses'[r].cons = ses[r].cons
    /\ ses'[r].pre = ses[r].pre

LEMMA NewBillingSessionAccounts ==
    ASSUME IInv, IInv', NEW r \in Requests, LedgerInv(r), NewBillingSession(r)
    PROVE  Accounts(r)
<1>1. UNCHANGED <<wallet, used, paid, fee>> /\ pc[r] = "idle"
  BY DEF NewBillingSession, money
<1>2. \E l \in {"relay", "sub", "wallet", "rejected"}, f \in {"none", "wallet", "sub", "overflow"} : Route(r, l, f)
  BY Typed DEF IInv, NewBillingSession, ProfileShape, Preferences
<1>3. pc'[r] \in {"relay", "sub", "wallet", "rejected"}
  BY <1>2 DEF Route, Goto, IInv, TypeOK
<1>4. FloorInv(r)'
  BY <1>3, FloorBeforeEnd
<1> QED
  BY <1>1, <1>4, QuietAccounts DEF Charged

LEMMA AttemptAccounts ==
    ASSUME IInv, IInv', NEW r \in Requests, LedgerInv(r),
           \/ TryWallet(r) \/ TrySubscription(r) \/ TokenRead(r) \/ TokenDecrease(r) \/ RollbackToken(r)
           \/ WalletOverflow(r)
    PROVE  Accounts(r)
<1>1. UNCHANGED <<wallet, used, paid, fee>>
  BY DEF TryWallet, TrySubscription, TokenRead, TokenDecrease, RollbackToken, WalletOverflow, money, FundingUnchanged
<1>2. pc[r] \in {"wallet", "sub", "overflow", "tokRead", "tokDec", "rollbackShort", "rollbackError"}
  BY DEF TryWallet, TrySubscription, TokenRead, TokenDecrease, RollbackToken, WalletOverflow
<1>3. pc'[r] \in Unfunded
  <2>1. TypeOK
    BY DEF IInv
  <2>2. \/ Insufficient(r) \/ Reject(r) \/ Goto(r, "tokDec") \/ Goto(r, "fund") \/ Goto(r, "wallet") \/ Goto(r, "rejected")
        \/ \E s, q : BeginPreConsume(r, s, q)
    BY DEF TryWallet, TrySubscription, TokenRead, TokenDecrease, RollbackToken, WalletOverflow
  <2>3. CASE Insufficient(r) \/ Reject(r)
    BY <2>1, <2>3, DropFacts
  <2>4. CASE Goto(r, "tokDec") \/ Goto(r, "fund") \/ Goto(r, "wallet") \/ Goto(r, "rejected")
    BY <2>1, <2>4 DEF Goto, TypeOK
  <2>5. CASE \E s, q : BeginPreConsume(r, s, q)
    BY <2>1, <2>5 DEF BeginPreConsume, Goto, TypeOK
  <2> QED
    BY <2>2, <2>3, <2>4, <2>5
<1>4. FloorInv(r)'
  BY <1>3, FloorBeforeEnd
<1> QED
  BY <1>1, <1>2, <1>4, QuietAccounts DEF Charged

LEMMA ServeAccounts ==
    ASSUME IInv, IInv', NEW r \in Requests, LedgerInv(r), Serve(r)
    PROVE  Accounts(r)
<1>1. UNCHANGED <<wallet, used, paid, fee, ses>> /\ pc[r] = "relay"
  BY DEF Serve, money
<1>2. pc'[r] = "settle"
  BY DEF Serve, Goto, IInv, TypeOK
<1>3. FloorInv(r)'
  BY <1>2, FloorBeforeEnd
<1> QED
  BY <1>1, <1>3, QuietAccounts DEF Charged

LEMMA SettleTokenAccounts ==
    ASSUME IInv, IInv', NEW r \in Requests, LedgerInv(r), SettleToken(r)
    PROVE  Accounts(r)
<1>1. UNCHANGED <<wallet, used, paid, fee>> /\ pc[r] = "settleTok"
  BY DEF SettleToken, FundingUnchanged
<1>2. pc'[r] = "served"
  BY DEF SettleToken, Goto, IInv, TypeOK
<1>3. ses'[r].src = ses[r].src
  <2>1. ses[r] \in SessionType
    BY Typed DEF IInv
  <2> QED
    BY <2>1 DEF SettleToken, IInv, TypeOK, SessionType
<1>4. FloorInv(r)'
  BY <1>1, <1>2 DEF LedgerInv, FloorInv, Charged
<1> QED
  BY <1>1, <1>2, <1>3, <1>4, QuietAccounts DEF Charged

LEMMA FailAccounts ==
    ASSUME IInv, IInv', NEW r \in Requests, LedgerInv(r), Fail(r)
    PROVE  Accounts(r)
<1>1. UNCHANGED <<wallet, used, paid, fee, err>> /\ pc[r] \in {"relay"}
  BY DEF Fail, money, NoFault
<1>2. pc'[r] \in {"failed", "fee"}
  BY DEF Fail, Goto, IInv, TypeOK
<1>3. SameFunds(r)
  <2>1. ses[r] \in SessionType
    BY Typed DEF IInv
  <2> QED
    BY <2>1 DEF Fail, IInv, TypeOK, SessionType, SameFunds
<1>4. bg'[r] \in {"none", "fund"}
  <2>1. bg[r] = "none"
    BY <1>1 DEF IInv, RequestInv, OpenInv
  <2> QED
    BY <2>1 DEF Fail, IInv, TypeOK
<1>5. FloorInv(r)'
  <2>1. /\ paid[r] >= ses[r].pre
        /\ ses[r].src = "sub" => ses[r].cons = ses[r].pre
    BY <1>1 DEF LedgerInv, FloorInv, IInv, RequestInv, OpenInv
  <2>2. paid[r] \in Int /\ ses[r].pre \in Nat
    BY Typed DEF IInv
  <2> QED
    BY <1>1, <1>2, <1>3, <1>4, <2>1, <2>2 DEF FloorInv, Charged, SameFunds
<1> QED
  BY <1>1, <1>2, <1>3, <1>5, QuietAccounts DEF Charged, SameFunds

\* The funding source and the ledger move together.
LEMMA FundsDraw ==
    ASSUME IInv, NEW r \in Requests, NEW n \in Int, AddFunding(r, n), fee' = fee,
           ses'[r].src = ses[r].src,
           (ses[r].src = "sub" /\ SubTotal > 0 /\ used <= SubTotal) => SubUsedAfter(n) <= SubTotal
    PROVE  Draws(r) /\ paid'[r] = paid[r] + n
<1>1. paid[r] \in Int /\ fee[r] \in Int
  BY Typed DEF IInv
<1>2. paid'[r] = paid[r] + n
  <2>1. TypeOK
    BY DEF IInv
  <2> QED
    BY <2>1, FundingFacts
<1>3. Moved(r) = n
  BY <1>1, <1>2 DEF Moved
<1>4. CASE ses[r].src # "sub"
  <2>1. wallet' = wallet - n /\ used' = used
    BY <1>4 DEF AddFunding, AddUserQuota
  <2>2. wallet' = wallet - Moved(r)
    BY <1>3, <2>1
  <2> QED
    BY <1>2, <1>4, <2>1, <2>2 DEF Draws
<1>5. CASE ses[r].src = "sub"
  <2>1. wallet' = wallet /\ used' = SubUsedAfter(n)
    BY <1>5 DEF AddFunding, AddSubUsed
  <2>2. used' = SubUsedAfter(Moved(r))
    BY <1>3, <2>1
  <2> QED
    BY <1>2, <1>5, <2>1, <2>2 DEF Draws
<1> QED
  BY <1>2, <1>4, <1>5

LEMMA LessFits ==
    ASSUME IInv, NEW n \in Int, n <= 0, used <= SubTotal
    PROVE  SubUsedAfter(n) <= SubTotal
BY ConstantsAssumption DEF IInv, TypeOK, SubUsedAfter

LEMMA FundingPreConsumeAccounts ==
    ASSUME IInv, IInv', NEW r \in Requests, LedgerInv(r), FundingPreConsume(r)
    PROVE  Accounts(r)
<1> DEFINE q == ses[r].quota
<1>1. pc[r] = "fund" /\ fee' = fee
  BY DEF FundingPreConsume
<1>2. ses[r].src \in {"wallet", "sub"} /\ fee[r] = 0 /\ q \in Nat
  BY <1>1, Typed DEF IInv, RequestInv, UnfundedInv, LedgerInv, FeeInv
<1>3. pc'[r] \in {"relay", "rollbackShort", "rollbackError"}
  BY DEF FundingPreConsume, Goto, IInv, TypeOK
<1>4. FloorInv(r)'
  BY <1>3, FloorBeforeEnd
<1>5. CASE FundingUnchanged /\ UNCHANGED ses
  BY <1>1, <1>4, <1>5, QuietAccounts DEF FundingUnchanged, Charged
<1>6. CASE /\ ses[r].src = "sub" => SubHasRoom(r, q)
           /\ AddFunding(r, q)
           /\ ses' = [ses EXCEPT ![r].cons = q, ![r].pre = q]
  <2>1. ses'[r].src = ses[r].src
    <3>1. ses[r] \in SessionType
      BY Typed DEF IInv
    <3> QED
      BY <1>6, <3>1 DEF IInv, TypeOK, SessionType
  <2>2. (ses[r].src = "sub" /\ SubTotal > 0 /\ used <= SubTotal) => SubUsedAfter(q) <= SubTotal
    <3>1. used \in Nat /\ SubTotal \in Nat /\ q \in Nat
      BY <1>2, ConstantsAssumption DEF IInv, TypeOK
    <3>2. (ses[r].src = "sub" /\ SubTotal > 0) => SubTotal - used >= q
      BY <1>6 DEF SubHasRoom
    <3> HIDE DEF q
    <3> QED
      BY <3>1, <3>2 DEF SubUsedAfter
  <2>3. Draws(r)
    <3>1. q \in Int
      BY <1>2
    <3>2. AddFunding(r, q)
      BY <1>6
    <3> HIDE DEF q
    <3> QED
      BY <1>1, <1>2, <2>1, <2>2, <3>1, <3>2, FundsDraw
  <2>4. Turns(r)
    BY <1>1 DEF Turns, Charged
  <2>5. FeeInv(r)'
    BY <1>1, <1>2 DEF FeeInv
  <2> QED
    BY <1>4, <2>3, <2>4, <2>5 DEF Accounts, LedgerInv
<1> QED
  BY <1>5, <1>6, Zenon DEF FundingPreConsume

LEMMA SettleFundingAccounts ==
    ASSUME IInv, IInv', NEW r \in Requests, LedgerInv(r), SettleFunding(r)
    PROVE  Accounts(r)
<1>1. pc[r] = "settle" /\ fee' = fee /\ actual' = actual
  BY DEF SettleFunding
<1>2. /\ fee[r] = 0 /\ paid[r] = ses[r].pre /\ bg[r] = "none"
  BY <1>1 DEF IInv, RequestInv, OpenInv, LedgerInv, FeeInv
<1>3. Delta(r) = actual[r] - ses[r].pre /\ Delta(r) \in Int /\ actual[r] \in Nat /\ ses[r].pre \in Nat
  BY Typed DEF IInv, Delta
<1>4. pc'[r] \in {"served", "settleTok"}
  BY DEF SettleFunding, Goto, IInv, TypeOK
<1>5. ses'[r].src = ses[r].src
  <2>1. ses[r] \in SessionType
    BY Typed DEF IInv
  <2> QED
    BY <2>1 DEF SettleFunding, IInv, TypeOK, SessionType
<1>6. CASE FundingUnchanged
  <2>1. FloorInv(r)'
    BY <1>2, <1>3, <1>4, <1>6 DEF FloorInv, Charged, FundingUnchanged
  <2> QED
    BY <1>1, <1>5, <1>6, <2>1, QuietAccounts DEF FundingUnchanged, Charged
<1>7. CASE Delta(r) # 0 /\ FundingFits(r, Delta(r)) /\ AddFunding(r, Delta(r))
  <2>2. Draws(r) /\ paid'[r] = paid[r] + Delta(r)
    BY <1>1, <1>3, <1>5, <1>7, FundsDraw DEF FundingFits, SubDeltaFits
  <2>3. paid'[r] = actual[r]
    BY <1>2, <1>3, <2>2
  <2>4. FloorInv(r)'
    BY <1>3, <1>4, <2>3 DEF FloorInv, Charged
  <2>5. Turns(r)
    BY <1>1 DEF Turns, Charged
  <2>6. FeeInv(r)'
    BY <1>1, <1>2 DEF FeeInv
  <2> QED
    BY <2>2, <2>4, <2>5, <2>6 DEF Accounts, LedgerInv
<1> QED
  BY <1>6, <1>7, Zenon DEF SettleFunding

LEMMA ChargeViolationFeeAccounts ==
    ASSUME IInv, IInv', NEW r \in Requests, LedgerInv(r), ChargeViolationFee(r)
    PROVE  Accounts(r)
<1>1. pc[r] = "fee" /\ paid' = paid /\ ses' = ses /\ bg' = bg
  BY DEF ChargeViolationFee
<1>2. fee[r] = 0 /\ paid[r] \in Int /\ ViolationFee \in Nat
  BY <1>1, Typed, ConstantsAssumption DEF LedgerInv, FeeInv, IInv
<1>3. pc'[r] \in {"feeTok", "failed"}
  BY DEF ChargeViolationFee, Goto, IInv, TypeOK
<1>4. err[r] \subseteq err'[r]
  BY DEF ChargeViolationFee, NoFault, Fault, IInv, TypeOK
<1>5. FloorInv(r)'
  BY <1>1, <1>3, <1>4 DEF LedgerInv, FloorInv, Charged
<1>6. CASE UNCHANGED <<wallet, used, fee>>
  BY <1>1, <1>5, <1>6, QuietAccounts DEF Charged
<1>7. CASE /\ ses[r].src = "sub" => SubDeltaFits(ViolationFee)
           /\ IF ses[r].src = "sub" THEN used' = SubUsedAfter(ViolationFee) /\ UNCHANGED wallet
                                    ELSE wallet' = wallet - ViolationFee /\ UNCHANGED used
           /\ fee' = [fee EXCEPT ![r] = ViolationFee]
  <2>1. fee'[r] = ViolationFee
    BY <1>7 DEF IInv, TypeOK
  <2>2. Moved(r) = ViolationFee
    BY <1>1, <1>2, <2>1 DEF Moved
  <2>3. Draws(r)
    <3>1. CASE ses[r].src = "sub"
      <4>1. wallet' = wallet /\ used' = SubUsedAfter(ViolationFee) /\ SubDeltaFits(ViolationFee)
        BY <1>7, <3>1
      <4>2. used' = SubUsedAfter(Moved(r)) /\ (SubTotal > 0 => used' <= SubTotal)
        BY <2>2, <4>1 DEF SubDeltaFits
      <4> QED
        BY <1>1, <3>1, <4>1, <4>2 DEF Draws
    <3>2. CASE ses[r].src # "sub"
      BY <1>1, <1>7, <2>2, <3>2 DEF Draws
    <3> QED
      BY <3>1, <3>2
  <2>4. Turns(r)
    BY <1>1, <1>2, <1>3 DEF Turns, Charged
  <2>5. FeeInv(r)'
    BY <1>3 DEF FeeInv
  <2> QED
    BY <1>5, <2>3, <2>4, <2>5 DEF Accounts, LedgerInv
<1> QED
  BY <1>6, <1>7, Zenon DEF ChargeViolationFee

LEMMA ChargeViolationFeeTokenAccounts ==
    ASSUME IInv, IInv', NEW r \in Requests, LedgerInv(r), ChargeViolationFeeToken(r)
    PROVE  Accounts(r)
<1>1. pc[r] = "feeTok" /\ UNCHANGED <<wallet, used, paid, fee, ses, bg>>
  BY DEF ChargeViolationFeeToken, FundingUnchanged
<1>2. pc'[r] = "failed"
  BY DEF ChargeViolationFeeToken, Goto, IInv, TypeOK
<1>3. err[r] \subseteq err'[r]
  BY DEF ChargeViolationFeeToken, NoFault, Fault, IInv, TypeOK
<1>4. FloorInv(r)'
  BY <1>1, <1>2, <1>3 DEF LedgerInv, FloorInv, Charged
<1> QED
  BY <1>1, <1>2, <1>4, QuietAccounts DEF Charged

\* The floor of a request whose refund is under way.
LEMMA RefundAccounts ==
    ASSUME IInv, NEW r \in Requests, LedgerInv(r), bg[r] # "none", UNCHANGED <<pc, ses, fee>>,
           Draws(r),
           (ses[r].src = "sub" /\ "refundMark" \notin err'[r]) =>
              /\ bg'[r] \in {"none", "mark", "token", "end"} => paid'[r] >= 0
              /\ bg'[r] = "fund" => paid'[r] >= ses[r].cons
    PROVE  Accounts(r)
<1>1. pc[r] \in Ended
  BY DEF IInv, RequestInv, RefundOnlyEnded
<1>2. Turns(r)
  BY <1>1 DEF Turns, Charged
<1>3. FeeInv(r)'
  BY DEF LedgerInv, FeeInv
<1>4. FloorInv(r)'
  BY <1>1 DEF FloorInv, Charged
<1> QED
  BY <1>2, <1>3, <1>4 DEF Accounts, LedgerInv

\* What the invariants say while the refund goroutine runs.
LEMMA RefundFloor ==
    ASSUME IInv, NEW r \in Requests, LedgerInv(r), bg[r] # "none",
           ses[r].src = "sub", "refundMark" \notin err[r]
    PROVE  /\ bg[r] \in {"none", "mark", "token", "end"} => paid[r] >= 0
           /\ bg[r] = "fund" => paid[r] >= ses[r].cons
<1>1. pc[r] \in Ended
  BY DEF IInv, RequestInv, RefundOnlyEnded
<1> QED
  BY <1>1 DEF LedgerInv, FloorInv

LEMMA RefundWalletAccounts ==
    ASSUME IInv, IInv', NEW r \in Requests, LedgerInv(r), RefundWallet(r)
    PROVE  Accounts(r)
<1>1. bg[r] = "fund" /\ ses[r].src = "wallet" /\ UNCHANGED <<pc, ses, fee>>
  BY DEF RefundWallet
<1>2. Draws(r)
  <2>1. CASE FundingUnchanged
    BY <1>1, <2>1 DEF FundingUnchanged, Draws
  <2>2. CASE AddUserQuota(r, -ses[r].cons)
    <3>1. -ses[r].cons \in Int
      BY Typed DEF IInv
    <3>2. AddFunding(r, -ses[r].cons)
      BY <1>1, <2>2 DEF AddFunding
    <3> QED
      BY <1>1, <3>1, <3>2, FundsDraw
  <2> QED
    BY <2>1, <2>2 DEF RefundWallet
<1> QED
  BY <1>1, <1>2, RefundAccounts

LEMMA RefundSubscriptionAccounts ==
    ASSUME IInv, IInv', NEW r \in Requests, LedgerInv(r), RefundSubscription(r)
    PROVE  Accounts(r)
<1>1. bg[r] = "fund" /\ ses[r].src = "sub" /\ UNCHANGED <<pc, ses, fee>>
  BY DEF RefundSubscription
<1>2. rec[r] = "consumed"
  BY <1>1 DEF IInv, RequestInv, RefundOnlyEnded, EndedInv
<1>3. ses[r].cons \in Nat /\ paid[r] \in Int
  BY Typed DEF IInv
<1>4. err[r] \subseteq err'[r]
  BY DEF RefundSubscription, NoFault, Fault, IInv, TypeOK
<1>5. CASE FundingUnchanged /\ RetryRefund(r)
  <2>1. Draws(r) /\ paid'[r] = paid[r]
    BY <1>1, <1>5 DEF FundingUnchanged, Draws
  <2>2. bg'[r] \in {"token", "fund"}
    BY <1>5 DEF RetryRefund, BgGoto, IInv, TypeOK
  <2>3. "refundMark" \notin err'[r] => paid[r] >= ses[r].cons
    BY <1>1, <1>4, RefundFloor
  <2>4. "refundMark" \notin err'[r] => paid'[r] >= ses[r].cons /\ paid'[r] >= 0
    BY <1>3, <2>1, <2>3
  <2> QED
    BY <1>1, <2>1, <2>2, <2>4, RefundAccounts
<1>6. CASE AddSubUsed(r, -ses[r].cons) /\ BgGoto(r, "mark")
  <2>1. -ses[r].cons \in Int /\ -ses[r].cons <= 0
    BY <1>3
  <2>2. AddFunding(r, -ses[r].cons)
    BY <1>1, <1>6 DEF AddFunding
  <2>3. Draws(r) /\ paid'[r] = paid[r] + (-ses[r].cons)
    BY <1>1, <2>1, <2>2, FundsDraw, LessFits
  <2>4. bg'[r] = "mark"
    BY <1>6 DEF BgGoto, IInv, TypeOK
  <2>5. "refundMark" \notin err'[r] => paid[r] >= ses[r].cons
    BY <1>1, <1>4, RefundFloor
  <2>6. "refundMark" \notin err'[r] => paid'[r] >= 0
    BY <1>3, <2>3, <2>5
  <2> QED
    BY <1>1, <2>3, <2>4, <2>6, RefundAccounts
<1> QED
  BY <1>2, <1>5, <1>6 DEF RefundSubscription

LEMMA RefundSubscriptionMarkAccounts ==
    ASSUME IInv, IInv', NEW r \in Requests, LedgerInv(r), RefundSubscriptionMark(r)
    PROVE  Accounts(r)
<1>1. bg[r] = "mark" /\ UNCHANGED <<pc, ses, fee, wallet, used, paid>>
  BY DEF RefundSubscriptionMark, FundingUnchanged
<1>2. Draws(r)
  BY <1>1 DEF Draws
<1>3. \/ bg'[r] = "token" /\ err' = err
      \/ "refundMark" \in err'[r]
  BY DEF RefundSubscriptionMark, NoFault, Fault, BgGoto, IInv, TypeOK
<1>4. (ses[r].src = "sub" /\ "refundMark" \notin err[r]) => paid[r] >= 0
  BY <1>1, RefundFloor
<1> QED
  BY <1>1, <1>2, <1>3, <1>4, RefundAccounts

LEMMA RefundTokenAccounts ==
    ASSUME IInv, IInv', NEW r \in Requests, LedgerInv(r), RefundToken(r)
    PROVE  Accounts(r)
<1>1. bg[r] = "token" /\ UNCHANGED <<pc, ses, fee, wallet, used, paid>>
  BY DEF RefundToken, FundingUnchanged
<1>2. bg'[r] = "end" /\ err[r] \subseteq err'[r]
  BY DEF RefundToken, BgGoto, NoFault, Fault, IInv, TypeOK
<1>3. Draws(r)
  BY <1>1 DEF Draws
<1>4. (ses[r].src = "sub" /\ "refundMark" \notin err'[r]) => paid[r] >= 0
  BY <1>1, <1>2, RefundFloor
<1> QED
  BY <1>1, <1>2, <1>3, <1>4, RefundAccounts

LEMMA StepAccounts ==
    ASSUME IInv, IInv', NEW r \in Requests, LedgerInv(r), RequestStep(r) \/ RefundStep(r)
    PROVE  Accounts(r)
BY NewBillingSessionAccounts, AttemptAccounts, FundingPreConsumeAccounts, ServeAccounts, SettleFundingAccounts,
   SettleTokenAccounts, FailAccounts, ChargeViolationFeeAccounts, ChargeViolationFeeTokenAccounts,
   RefundWalletAccounts, RefundSubscriptionAccounts, RefundSubscriptionMarkAccounts,
   RefundTokenAccounts
   DEF RequestStep, RefundStep

-----------------------------------------------------------------------------
(* The rows are explained by the ledgers.                                    *)

\* No refund was repeated.
NoRepeat == \A r \in Requests : "refundMark" \notin err[r]

\* The inductive invariant of the books.
Books ==
    /\ \A r \in Requests : LedgerInv(r)
    /\ WalletExplained
    /\ NoRepeat => used = Total([r \in Requests |-> SubShare(r)])
    /\ SubTotal > 0 => used <= SubTotal

LEMMA BooksInit ==
    ASSUME Init
    PROVE  Books
<1>1. \A r \in Requests : pc[r] = "idle" /\ paid[r] = 0 /\ fee[r] = 0
  BY DEF Init
<1>2. \A r \in Requests : LedgerInv(r)
  BY <1>1 DEF LedgerInv, FeeInv, FloorInv, Charged
<1>3. Total([r \in Requests |-> WalletShare(r)]) = 0
  BY <1>1, TotalOfNothing DEF WalletShare
<1>4. Total([r \in Requests |-> SubShare(r)]) = 0
  BY <1>1, TotalOfNothing DEF SubShare
<1>5. wallet = InitWallet /\ used = 0
  BY DEF Init
<1> QED
  BY <1>2, <1>3, <1>4, <1>5, ConstantsAssumption DEF Books, WalletExplained

LEMMA WalletStep ==
    ASSUME IInv, IInv', NEW r \in Requests, Alone(r), Draws(r), WalletExplained
    PROVE  WalletExplained'
<1>1. PICK f : f = [x \in Requests |-> WalletShare(x)]
  OBVIOUS
<1>2. PICK h : h = [x \in Requests |-> WalletShare(x)']
  OBVIOUS
<1>3. /\ wallet \in Int /\ wallet' \in Int /\ InitWallet \in Int
      /\ paid[r] \in Int /\ paid'[r] \in Int /\ fee[r] \in Int /\ fee'[r] \in Int
  BY Typed, ConstantsAssumption DEF IInv, TypeOK
<1>4. f \in [Requests -> Int] /\ h \in [Requests -> Int]
  BY <1>1, <1>2 DEF IInv, TypeOK, WalletShare
<1>5. \A x \in Requests : x # r => h[x] = f[x]
  BY <1>1, <1>2 DEF Alone, WalletShare
<1>6. Total(f) \in Int /\ Total(h) = Total(f) + h[r] - f[r]
  BY <1>4, <1>5, TotalMoves
<1>7. wallet' = wallet - (WalletShare(r)' - WalletShare(r))
  BY <1>3 DEF Draws, Moved, WalletShare
<1>8. h[r] = WalletShare(r)' /\ f[r] = WalletShare(r) /\ h[r] \in Int /\ f[r] \in Int
  BY <1>1, <1>2, <1>4
<1>9. wallet = InitWallet - Total(f)
  BY <1>1 DEF WalletExplained
<1>10. wallet' = InitWallet - Total(h)
  BY <1>3, <1>6, <1>7, <1>8, <1>9
<1> QED
  BY <1>2, <1>10 DEF WalletExplained

\* Every request of the subscription covers its share, until a refund is repeated.
LEMMA SharesCover ==
    ASSUME IInv', NEW x \in Requests, LedgerInv(x)', "refundMark" \notin err'[x]
    PROVE  SubShare(x)' \in Nat
<1>1. /\ paid'[x] \in Int /\ fee'[x] \in Nat /\ pc'[x] \in Labels /\ bg'[x] \in RefundLabels
      /\ ses'[x].pre \in Nat /\ ses'[x].cons \in Nat
  BY DEF IInv, TypeOK, SessionType
<1>2. ASSUME ses'[x].src = "sub" PROVE paid'[x] >= 0
  <2>1. CASE pc'[x] \in Unfunded
    BY <2>1 DEF IInv, RequestInv, UnfundedInv
  <2>2. CASE pc'[x] \in Open
    BY <1>1, <2>2 DEF LedgerInv, FloorInv
  <2>4. CASE pc'[x] \in {"settleTok", "served"}
    BY <2>4 DEF LedgerInv, FloorInv, Charged
  <2>5. CASE pc'[x] \in Ended
    <3>1. /\ bg'[x] \in {"none", "mark", "token", "end"} => paid'[x] >= 0
          /\ bg'[x] = "fund" => paid'[x] >= ses'[x].cons
      BY <1>2, <2>5 DEF LedgerInv, FloorInv
    <3> QED
      BY <1>1, <3>1 DEF RefundLabels
  <2> QED
    BY <1>1, <2>1, <2>2, <2>4, <2>5 DEF Labels
<1> QED
  BY <1>1, <1>2 DEF SubShare

\* The clamp of PostConsumeUserSubscriptionDelta never hides anything.
LEMMA SubStep ==
    ASSUME IInv, IInv', NEW r \in Requests, Alone(r), Draws(r),
           \A x \in Requests : LedgerInv(x)', NoRepeat',
           used = Total([x \in Requests |-> SubShare(x)])
    PROVE  /\ used' = Total([x \in Requests |-> SubShare(x)'])
           /\ ses[r].src = "sub" /\ wallet' = wallet => used' = used + Moved(r)
<1>1. PICK f : f = [x \in Requests |-> SubShare(x)]
  OBVIOUS
<1>2. PICK h : h = [x \in Requests |-> SubShare(x)']
  OBVIOUS
<1>3. /\ used \in Nat /\ paid[r] \in Int /\ paid'[r] \in Int /\ fee[r] \in Int /\ fee'[r] \in Int
  BY Typed DEF IInv, TypeOK
<1>4. f \in [Requests -> Int]
  BY <1>1 DEF IInv, TypeOK, SubShare
<1>5. h \in [Requests -> Nat]
  BY <1>2, SharesCover DEF NoRepeat
<1>6. h \in [Requests -> Int] /\ \A x \in Requests : x # r => h[x] = f[x]
  BY <1>1, <1>2, <1>5 DEF Alone, SubShare
<1>7. Total(f) \in Int /\ Total(h) = Total(f) + h[r] - f[r]
  BY <1>4, <1>6, TotalMoves
<1>8. Total(h) \in Nat
  BY <1>5, TotalBounds
<1>9. h[r] = SubShare(r)' /\ f[r] = SubShare(r) /\ h[r] \in Int /\ f[r] \in Int
  BY <1>1, <1>2, <1>4, <1>6
<1>10. used + (SubShare(r)' - SubShare(r)) = Total(h)
  BY <1>1, <1>3, <1>7, <1>9
<1>11. Moved(r) \in Int
  BY <1>3 DEF Moved
<1>12. CASE UNCHANGED <<wallet, used>> /\ paid'[r] = paid[r] /\ fee'[r] = fee[r]
            /\ (ses'[r].src = ses[r].src \/ (paid[r] = 0 /\ fee[r] = 0))
  <2>1. ses'[r].src = ses[r].src => SubShare(r)' = SubShare(r)
    BY <1>12 DEF SubShare
  <2>2. paid[r] = 0 /\ fee[r] = 0 => SubShare(r)' = SubShare(r)
    BY <1>12 DEF SubShare
  <2>3. SubShare(r)' = SubShare(r)
    BY <1>12, <2>1, <2>2
  <2>4. Moved(r) = 0
    <3>1. paid'[r] = paid[r] /\ fee'[r] = fee[r]
      BY <1>12
    <3> QED
      BY <1>3, <3>1 DEF Moved
  <2>5. used' = Total(h)
    BY <1>3, <1>9, <1>10, <1>12, <2>3
  <2> QED
    BY <1>2, <1>3, <1>12, <2>4, <2>5
<1>13. CASE ses'[r].src = ses[r].src /\ ses[r].src # "sub" /\ used' = used
  <2>1. SubShare(r)' = 0 /\ SubShare(r) = 0
    BY <1>13 DEF SubShare
  <2>2. used' = Total(h)
    BY <1>3, <1>10, <1>13, <2>1
  <2> QED
    BY <1>2, <1>13, <2>2
<1>14. CASE ses'[r].src = ses[r].src /\ ses[r].src = "sub" /\ used' = SubUsedAfter(Moved(r))
  <2>1. SubShare(r)' - SubShare(r) = Moved(r)
    BY <1>3, <1>14 DEF SubShare, Moved
  <2>2. used + Moved(r) = Total(h)
    BY <1>10, <2>1
  <2>3. used' = used + Moved(r)
    BY <1>3, <1>8, <1>11, <1>14, <2>2 DEF SubUsedAfter
  <2> QED
    BY <1>2, <2>2, <2>3
<1> QED
  BY <1>12, <1>13, <1>14 DEF Draws

LEMMA BooksStep ==
    ASSUME IInv, IInv', NEW r \in Requests, Books, RequestStep(r) \/ RefundStep(r)
    PROVE  Books'
<1>1. Alone(r)
  BY StepAlone DEF IInv
<1>2. Accounts(r)
  BY StepAccounts DEF Books
<1>3. ASSUME NEW x \in Requests PROVE LedgerInv(x)'
  <2>1. CASE x = r
    BY <1>2, <2>1 DEF Accounts
  <2>2. CASE x # r
    <3>1. LedgerInv(x)
      BY DEF Books
    <3> QED
      BY <1>1, <2>2, <3>1 DEF Alone, LedgerInv, FeeInv, FloorInv, Charged
  <2> QED
    BY <2>1, <2>2
<1>4. WalletExplained'
  BY <1>1, <1>2, WalletStep DEF Accounts, Books
<1>5. ASSUME NoRepeat' PROVE used' = Total([x \in Requests |-> SubShare(x)'])
  <2>1. NoRepeat
    BY <1>1, <1>5 DEF NoRepeat, Alone
  <2> QED
    BY <1>1, <1>2, <1>3, <1>5, <2>1, SubStep DEF Accounts, Books
<1>6. ASSUME SubTotal > 0 PROVE used' <= SubTotal
  BY <1>2, <1>6 DEF Accounts, Draws, Books
<1> QED
  BY <1>3, <1>4, <1>5, <1>6 DEF Books

LEMMA BooksKept ==
    ASSUME Books, UNCHANGED <<pc, bg, ses, err, wallet, used, paid, fee>>
    PROVE  Books'
<1>1. \A x \in Requests : LedgerInv(x)'
  BY DEF Books, LedgerInv, FeeInv, FloorInv, Charged
<1>2. WalletExplained'
  BY DEF Books, WalletExplained, WalletShare
<1>3. NoRepeat' => used' = Total([x \in Requests |-> SubShare(x)'])
  BY DEF Books, NoRepeat, SubShare
<1> QED
  BY <1>1, <1>2, <1>3 DEF Books

\* The books balance after every step, for any number of requests.
THEOREM AlwaysBooks == Spec => [](IInv /\ Books)
<1>1. Init => IInv /\ Books
  BY InitInv, BooksInit
<1>2. IInv /\ Books /\ [Next]_vars => IInv' /\ Books'
  <2> SUFFICES ASSUME IInv, Books, [Next]_vars PROVE IInv' /\ Books'
    OBVIOUS
  <2>1. IInv'
    BY StepInv
  <2>2. CASE \E r \in Requests : RequestStep(r) \/ RefundStep(r)
    BY <2>1, <2>2, BooksStep
  <2>3. CASE ExpireSubscription \/ Terminating \/ UNCHANGED vars
    <3>1. UNCHANGED <<pc, bg, ses, err, wallet, used, paid, fee>>
      BY <2>3 DEF ExpireSubscription, Terminating, vars, money
    <3> QED
      BY <2>1, <3>1, BooksKept
  <2> QED
    BY <2>2, <2>3 DEF Next
<1> QED
  BY <1>1, <1>2, PTL DEF Spec

\* The user's row is explained by the ledgers of the requests, holds and fees
\* included, for any number of requests and however their steps interleave:
\* no update is lost and a balance driven below zero is still exact.
THEOREM AlwaysWalletExplained == Spec => []WalletExplained
<1>1. IInv /\ Books => WalletExplained
  BY DEF Books
<1> QED
  BY <1>1, AlwaysBooks, PTL

\* Until a refund is repeated, amount_used is the sum of what the requests
\* took, for any number of requests: the clamp at zero never hides anything,
\* and amount_used stays within amount_total.
THEOREM AlwaysSubscriptionCovered == Spec => []SubscriptionCovered
<1>1. IInv /\ Books => SubscriptionCovered
  BY DEF Books, NoRepeat, SubscriptionCovered
<1> QED
  BY <1>1, AlwaysBooks, PTL

-----------------------------------------------------------------------------
(* The machine implements AtomicBilling.                                     *)

\* What a step of one request does to the balance the user sees.
LEMMA FreeBalanceStep ==
    ASSUME IInv, IInv', Books, Books', NEW r \in Requests, Alone(r), Accounts(r), NoRepeat'
    PROVE  /\ FreeBalance \in Int
           /\ FreeBalance' = FreeBalance - Moved(r) + Hold(r)' - Hold(r)
<1>1. PICK f : f = [x \in Requests |-> Hold(x)]
  OBVIOUS
<1>2. PICK h : h = [x \in Requests |-> Hold(x)']
  OBVIOUS
<1>3. /\ wallet \in Int /\ wallet' \in Int /\ used \in Int /\ used' \in Int
      /\ paid[r] \in Int /\ paid'[r] \in Int /\ fee[r] \in Int /\ fee'[r] \in Int
  BY Typed DEF IInv, TypeOK
<1>4. f \in [Requests -> Int] /\ h \in [Requests -> Int]
  BY <1>1, <1>2 DEF IInv, TypeOK, Hold
<1>5. \A x \in Requests : x # r => h[x] = f[x]
  BY <1>1, <1>2 DEF Alone, Hold, Charged
<1>6. Total(f) \in Int /\ Total(h) = Total(f) + h[r] - f[r]
  BY <1>4, <1>5, TotalMoves
<1>7. h[r] = Hold(r)' /\ f[r] = Hold(r) /\ h[r] \in Int /\ f[r] \in Int
  BY <1>1, <1>2, <1>4
<1>8. Moved(r) \in Int
  BY <1>3 DEF Moved
<1>9. wallet' - used' = wallet - used - Moved(r)
  <2>1. NoRepeat
    BY DEF NoRepeat, Alone
  <2>2. (ses[r].src = "sub" /\ wallet' = wallet) => used' = used + Moved(r)
    BY <2>1, SubStep DEF Accounts, Books
  <2>3. paid'[r] = paid[r] /\ fee'[r] = fee[r] => Moved(r) = 0
    BY <1>3 DEF Moved
  <2> QED
    BY <1>3, <1>8, <2>2, <2>3 DEF Accounts, Draws
<1>10. FreeBalance = wallet - used + Total(f)
  BY <1>1 DEF FreeBalance
<1>11. FreeBalance' = wallet' - used' + Total(h)
  BY <1>2 DEF FreeBalance
<1> QED
  BY <1>3, <1>6, <1>7, <1>8, <1>9, <1>10, <1>11

\* A step after which a refund was repeated is excused.
LEMMA RepeatExcused ==
    ASSUME ~NoRepeat'
    PROVE  Atomic!ANext
BY DEF NoRepeat, Atomic!ANext, Atomic!Excuse

\* A step that keeps what was charged, the fees and the balance is invisible.
LEMMA QuietInvisible ==
    ASSUME NoRepeat, NoRepeat', fee' = fee, FreeBalance' = FreeBalance,
           \A x \in Requests : Charged(x)' = Charged(x) /\ (Charged(x) => paid'[x] = paid[x])
    PROVE  UNCHANGED Atomic!avars
<1>1. [x \in Requests |-> IF Charged(x)' THEN paid'[x] ELSE -1]
        = [x \in Requests |-> IF Charged(x) THEN paid[x] ELSE -1]
  OBVIOUS
<1>2. {x \in Requests : "refundMark" \in err'[x]} = {x \in Requests : "refundMark" \in err[x]}
  BY DEF NoRepeat
<1> QED
  BY <1>1, <1>2 DEF Atomic!avars

LEMMA StepImplements ==
    ASSUME IInv, IInv', Books, Books', NEW r \in Requests, RequestStep(r) \/ RefundStep(r)
    PROVE  [Atomic!ANext]_(Atomic!avars)
<1>1. Alone(r)
  BY StepAlone DEF IInv
<1>2. Accounts(r)
  BY StepAccounts DEF Books
<1>3. CASE ~NoRepeat'
  BY <1>3, RepeatExcused
<1>4. CASE NoRepeat'
  <2>1. NoRepeat
    BY <1>1, <1>4 DEF NoRepeat, Alone
  <2>2. FreeBalance \in Int /\ FreeBalance' = FreeBalance - Moved(r) + Hold(r)' - Hold(r)
    BY <1>1, <1>2, <1>4, FreeBalanceStep
  <2>3. /\ paid[r] \in Int /\ paid'[r] \in Int /\ fee[r] \in Nat /\ fee'[r] \in Nat
        /\ fee \in [Requests -> Nat] /\ fee' \in [Requests -> Nat]
    BY DEF IInv, TypeOK
  <2>4. \A x \in Requests : x # r => fee'[x] = fee[x] /\ paid'[x] = paid[x] /\ Charged(x)' = Charged(x)
    BY <1>1 DEF Alone, Charged
  <2>5. {x \in Requests : "refundMark" \in err'[x]} = {x \in Requests : "refundMark" \in err[x]}
    BY <1>4, <2>1 DEF NoRepeat
  <2>6. Turns(r)
    BY <1>2 DEF Accounts
  <2>7. CASE fee'[r] # fee[r]
    <3>1. fee[r] = 0 /\ paid'[r] = paid[r] /\ ~Charged(r) /\ ~Charged(r)'
      BY <2>6, <2>7 DEF Turns
    <3>2. FreeBalance - FreeBalance' = fee'[r] /\ fee'[r] > 0
      BY <2>2, <2>3, <2>7, <3>1 DEF Moved, Hold
    <3>3. fee' = [fee EXCEPT ![r] = FreeBalance - FreeBalance']
      BY <2>3, <2>4, <3>2
    <3>4. [x \in Requests |-> IF Charged(x)' THEN paid'[x] ELSE -1]
            = [x \in Requests |-> IF Charged(x) THEN paid[x] ELSE -1]
      BY <2>4, <3>1
    <3>5. Atomic!Fine(r)
      BY <2>5, <3>1, <3>2, <3>3, <3>4 DEF Atomic!Fine, Atomic!NotCharged
    <3> QED
      BY <3>5 DEF Atomic!ANext
  <2>8. CASE fee'[r] = fee[r] /\ (Charged(r) \/ ~Charged(r)')
    <3>1. fee' = fee
      BY <2>3, <2>4, <2>8
    <3>2. Charged(r)' = Charged(r) /\ (Charged(r) => paid'[r] = paid[r])
      BY <2>6, <2>8 DEF Turns, Charged
    <3>3. FreeBalance' = FreeBalance
      BY <2>2, <2>3, <2>8, <3>2 DEF Moved, Hold
    <3> QED
      BY <1>4, <2>1, <2>4, <3>1, <3>2, <3>3, QuietInvisible
  <2>9. CASE fee'[r] = fee[r] /\ ~Charged(r) /\ Charged(r)'
    <3>1. fee' = fee
      BY <2>3, <2>4, <2>9
    <3>2. paid'[r] >= 0
      BY <1>2, <2>9 DEF Accounts, LedgerInv, FloorInv
    <3>3. FreeBalance - FreeBalance' = paid'[r]
      BY <2>2, <2>3, <2>9 DEF Moved, Hold
    <3>4. [x \in Requests |-> IF Charged(x)' THEN paid'[x] ELSE -1]
            = [[x \in Requests |-> IF Charged(x) THEN paid[x] ELSE -1]
                 EXCEPT ![r] = FreeBalance - FreeBalance']
      BY <2>4, <2>9, <3>3
    <3>5. Atomic!Charge(r)
      BY <2>5, <2>9, <3>1, <3>2, <3>4 DEF Atomic!Charge, Atomic!NotCharged
    <3> QED
      BY <3>5 DEF Atomic!ANext
  <2> QED
    BY <2>7, <2>8, <2>9
<1> QED
  BY <1>3, <1>4

\* For any number of requests, prices and failed calls, the interleaved
\* machine of holds, fallbacks, settlements and refunds
\* implements one atomic charge or fine for each request.
THEOREM Refinement == Spec => ImplementsAtomicBilling
<1>1. Init => Atomic!AInit
  <2> SUFFICES ASSUME Init PROVE Atomic!AInit
    OBVIOUS
  <2>1. \A x \in Requests : pc[x] = "idle" /\ paid[x] = 0 /\ err[x] = {}
    BY DEF Init
  <2>2. wallet = InitWallet /\ used = 0 /\ fee = [x \in Requests |-> 0]
    BY DEF Init
  <2>3. Total([x \in Requests |-> Hold(x)]) = 0
    BY <2>1, TotalOfNothing DEF Hold
  <2>4. FreeBalance = InitWallet
    BY <2>2, <2>3, ConstantsAssumption DEF FreeBalance
  <2> QED
    BY <2>1, <2>2, <2>4 DEF Atomic!AInit, Atomic!NotCharged, Charged
<1>2. (IInv /\ Books) /\ (IInv /\ Books)' /\ [Next]_vars => [Atomic!ANext]_(Atomic!avars)
  <2> SUFFICES ASSUME IInv, Books, IInv', Books', [Next]_vars
               PROVE  [Atomic!ANext]_(Atomic!avars)
    OBVIOUS
  <2>1. CASE \E r \in Requests : RequestStep(r) \/ RefundStep(r)
    BY <2>1, StepImplements
  <2>2. CASE ExpireSubscription \/ Terminating \/ UNCHANGED vars
    <3>1. UNCHANGED <<pc, err, wallet, used, paid, fee>>
      BY <2>2 DEF ExpireSubscription, Terminating, vars, money
    <3> QED
      BY <3>1 DEF Atomic!avars, FreeBalance, Hold, Charged
  <2> QED
    BY <2>1, <2>2 DEF Next
<1> QED
  BY <1>1, <1>2, AlwaysBooks, PTL DEF Spec, ImplementsAtomicBilling, Atomic!ASpec
=============================================================================
