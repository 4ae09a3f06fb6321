---------------------------- MODULE MiniTextTest ----------------------------
(***************************************************************************)
(* The text test of the mini program: TextTestLifecycle of the page, the   *)
(* request id it keeps in storage, the session of the mini program, and    *)
(* the attempts on the server (controller, service and model of the mini    *)
(* text attempt).  A request id is a number; the operation counter of the   *)
(* page is kept as a flag of each call, whether it is still current.        *)
(***************************************************************************)
EXTENDS Naturals, FiniteSets

CONSTANTS
    MaxIds,     \* bound on request ids
    MaxCalls,   \* bound on the calls under way at a time
    MaxTextOps  \* bound on faults, refusals, copies, revocations, expiries and process kills

ASSUME IdsAssumption == MaxIds \in Nat

VARIABLES
    mini,       \* the client: page, storage, session and calls
    post,       \* where the POST of each id is: none, sent, relaying, done
    by,         \* the session each POST was sent with
    att,        \* state of each attempt, "none" when there is no row
    relays,     \* how often the attempt of each row that is kept was relayed
    twin,       \* the ids of which a copy of the POST is relayed
    valid,      \* the session the server accepts
    used,       \* how many faults there were
    nid         \* how many ids were created

tvars == <<mini, post, by, att, relays, twin, valid, used, nid>>

Ids == 1..MaxIds
Terminal == {"succeeded", "failed"}

\* The page: TextTestLifecycle, with due for "the foreground deadline has
\* passed" and notice for the message of onPending.
NoPage == [active |-> FALSE, fg |-> FALSE, pid |-> 0, starting |-> FALSE, timer |-> FALSE,
           due |-> FALSE, notice |-> FALSE]

\* The process: the page, currentSession, inFlightStartRequestIDs and the
\* calls; stored is in storage, store whether storage can be used.  Two ghosts:
\* unknown, the ids whose POST was sent in this session and of whose outcome the
\* user was not told, and unkept, the ids that storage did not take.
TInit ==
    /\ mini = [p |-> NoPage, sess |-> 1, inFlight |-> {}, calls |-> {}, stored |-> 0,
               store |-> TRUE, unknown |-> {}, unkept |-> {}]
    /\ post = [i \in Ids |-> "none"] /\ att = [i \in Ids |-> "none"]
    /\ by = [i \in Ids |-> 0]
    /\ relays = [i \in Ids |-> 0] /\ twin = {}
    /\ valid = 1 /\ used = 0 /\ nid = 0

\* The bound leaves room for another call.
MayCall == Cardinality(mini.calls) < MaxCalls

Slip == used < MaxTextOps /\ used' = used + 1

-----------------------------------------------------------------------------
(* The methods of TextTestLifecycle on the client w. *)

\* ++this.operation, or a new page.
Outdated(cs) == {[c EXCEPT !.cur = FALSE] : c \in cs}

\* setPendingTextTestRequestID and clearPendingTextTestRequestID swallow the
\* failure of storage.
Remember(w, id) == [w EXCEPT !.stored = IF w.store THEN id ELSE @]

\* getPendingTextTestRequestID.
Recalled(w) == IF w.store THEN w.stored ELSE 0

ClearPending(w) == [Remember(w, 0) EXCEPT !.p.pid = 0]

HidePage(w) == [w EXCEPT !.p.fg = FALSE, !.p.timer = FALSE, !.calls = Outdated(@)]

ResetSession(w) == ClearPending([HidePage(w) EXCEPT !.p.active = FALSE])

\* clearMiniAppSession.
EndSession(w) == [Remember(w, 0) EXCEPT !.sess = 0, !.unknown = {}]

SchedulePoll(w) ==
    IF ~w.p.active \/ ~w.p.fg \/ w.p.pid = 0 THEN w
    ELSE [w EXCEPT !.p.timer = ~w.p.due, !.p.notice = w.p.due]

AddCall(w, kind, id) ==
    [w EXCEPT !.calls = @ \cup {[kind |-> kind, id |-> id, cur |-> TRUE, mine |-> TRUE,
                                sess |-> w.sess, ans |-> "none"]}]

CheckStatus(w) ==
    CASE ~w.p.active \/ ~w.p.fg \/ w.p.pid = 0 -> w
      [] w.p.active /\ w.p.fg /\ w.p.pid # 0 /\ (w.p.starting \/ w.p.pid \in w.inFlight) ->
            SchedulePoll(w)
      [] OTHER ->
            IF w.p.due THEN [w EXCEPT !.p.timer = FALSE, !.p.notice = TRUE]
            ELSE LET x == [w EXCEPT !.p.timer = FALSE, !.calls = Outdated(@)]
                 IN IF w.sess = 0 THEN ResetSession(EndSession(x))
                    ELSE AddCall(x, "status", w.p.pid)

\* Mutant: a lost answer is taken for a refusal.
RetryableIfAnswered(a) == a = "notfound"

\* isRetryableError of the page.
Retryable(a) == a \in {"error", "notfound"}

\* handleStatus, or the catch of submit and of checkStatus, for a current call.
Handled(w, a) ==
    CASE a = "running" -> SchedulePoll(w)
      [] a \in Terminal -> [ClearPending(w) EXCEPT !.p.timer = FALSE]
      [] a = "unauthorized" -> ResetSession(w)
      [] a \notin {"running", "unauthorized"} \cup Terminal /\ Retryable(a) -> SchedulePoll(w)
      [] OTHER -> ClearPending(w)

\* The finally of submit.
Finally(w, c) ==
    LET x == [w EXCEPT !.inFlight = @ \ {c.id},
                       !.p.starting = IF c.mine THEN FALSE ELSE @]
    IN IF c.mine /\ ~c.cur THEN CheckStatus(x) ELSE x

\* An answer 401 ends the session that is there, whichever it was asked for.
Answered(w, c) ==
    LET x == [w EXCEPT !.calls = @ \ {c}]
    IN IF c.ans = "unauthorized" THEN EndSession(x) ELSE x

\* A current answer is handled; an outcome or a refusal is what the user is told.
Told(w, c) ==
    IF c.cur /\ (c.kind = "start" \/ w.p.pid = c.id)
    THEN [Handled(w, c.ans) EXCEPT
            !.unknown = IF c.ans \in Terminal \cup {"refused"} THEN @ \ {c.id} ELSE @]
    ELSE w

Change(w) == mini' = w

-----------------------------------------------------------------------------
(* The client. *)

\* The page takes its request from storage; what it cannot read is forgotten.
Open ==
    /\ ~mini.p.active /\ mini.sess # 0
    /\ Change([mini EXCEPT !.p = [NoPage EXCEPT !.active = TRUE, !.pid = Recalled(mini)],
                           !.calls = {[c EXCEPT !.cur = FALSE, !.mine = FALSE] : c \in @},
                           !.unknown = IF mini.store THEN @ ELSE {}])
    /\ UNCHANGED <<post, by, att, relays, twin, valid, used, nid>>

\* Mutant: a page that is shown does not look after its request.
ShownIdle(w) == [w EXCEPT !.p.fg = TRUE, !.p.due = FALSE]

Shown(w) == CheckStatus([w EXCEPT !.p.fg = TRUE, !.p.due = FALSE, !.p.notice = FALSE])

ShowPage ==
    /\ mini.p.active /\ ~mini.p.fg /\ MayCall
    /\ Change(Shown(mini))
    /\ UNCHANGED <<post, by, att, relays, twin, valid, used, nid>>

HideAction ==
    /\ mini.p.active /\ mini.p.fg
    /\ Change(HidePage(mini))
    /\ UNCHANGED <<post, by, att, relays, twin, valid, used, nid>>

UnloadPage ==
    /\ mini.p.active
    /\ Change([HidePage(mini) EXCEPT !.p.active = FALSE, !.unknown = @ \ mini.unkept])
    /\ UNCHANGED <<post, by, att, relays, twin, valid, used, nid>>

\* The button: check again, or create an id.
Submit ==
    LET w == [mini EXCEPT !.p.notice = FALSE] IN
    /\ mini.p.active /\ mini.p.fg /\ ~mini.p.starting /\ MayCall
    /\ IF w.p.pid # 0
       THEN /\ Change(CheckStatus([w EXCEPT !.p.due = FALSE]))
            /\ UNCHANGED nid
       ELSE /\ nid < MaxIds
            /\ nid' = nid + 1
            /\ Change(AddCall([w EXCEPT !.p.starting = TRUE, !.calls = Outdated(@)], "id", nid + 1))
    /\ UNCHANGED <<post, by, att, relays, twin, valid, used>>

\* There are no random values, and so no id: an error that may be tried again.
IdFails(c) ==
    /\ c.kind = "id" /\ Slip
    /\ Change(Finally([mini EXCEPT !.calls = @ \ {c}], c))
    /\ UNCHANGED <<post, by, att, relays, twin, valid, nid>>

\* The id is there: it is kept, if storage takes it, before the POST is sent.
IdCreated(c) ==
    LET w == [mini EXCEPT !.calls = @ \ {c}]
        x == [Remember(w, c.id) EXCEPT !.p.pid = c.id, !.p.due = FALSE, !.inFlight = @ \cup {c.id},
                                   !.unkept = IF w.store THEN @ ELSE @ \cup {c.id}]
    IN /\ c.kind = "id"
       /\ CASE ~c.cur -> Change(Finally(w, c)) /\ UNCHANGED <<post, by>>
            [] c.cur /\ w.sess = 0 ->
                 Change(Finally(ResetSession(EndSession(x)), c)) /\ UNCHANGED <<post, by>>
            [] OTHER -> /\ Change([AddCall(x, "start", c.id) EXCEPT !.unknown = @ \cup {c.id}])
                        /\ post' = [post EXCEPT ![c.id] = "sent"]
                        /\ by' = [by EXCEPT ![c.id] = w.sess]
       /\ UNCHANGED <<att, relays, twin, valid, used, nid>>

\* start and getStatus return.
Returned(c) ==
    LET w == Told(Answered(mini, c), c) IN
    /\ c.ans # "none"
    /\ Change(IF c.kind = "start" THEN Finally(w, c) ELSE w)
    /\ UNCHANGED <<post, by, att, relays, twin, valid, used, nid>>

PollTimer ==
    /\ mini.p.timer /\ MayCall
    /\ Change(CheckStatus(mini))
    /\ UNCHANGED <<post, by, att, relays, twin, valid, used, nid>>

\* Twenty seconds in the foreground are over.
Due ==
    /\ mini.p.fg /\ mini.p.pid # 0 /\ ~mini.p.due
    /\ Change([mini EXCEPT !.p.due = TRUE])
    /\ UNCHANGED <<post, by, att, relays, twin, valid, used, nid>>

\* The access token runs out, and getMiniAppSession notices.
SessionRunsOut ==
    /\ mini.sess # 0 /\ Slip
    /\ Change(EndSession(mini))
    /\ UNCHANGED <<post, by, att, relays, twin, valid, nid>>

\* Storage throws, and works again.
StorageFails ==
    /\ mini.store /\ Slip
    /\ Change([mini EXCEPT !.store = FALSE])
    /\ UNCHANGED <<post, by, att, relays, twin, valid, nid>>

StorageWorks ==
    /\ ~mini.store
    /\ Change([mini EXCEPT !.store = TRUE])
    /\ UNCHANGED <<post, by, att, relays, twin, valid, used, nid>>

\* WeChat ends the process; what is in storage stays.
Kill ==
    /\ Slip
    /\ Change([mini EXCEPT !.p = NoPage, !.sess = 0, !.inFlight = {}, !.calls = {},
                           !.unknown = @ \ mini.unkept])
    /\ UNCHANGED <<post, by, att, relays, twin, valid, nid>>

\* loginWithWechat, once the page was left or the process began anew.
Relogin ==
    /\ mini.sess = 0 /\ ~mini.p.active
    /\ valid' = valid + 1
    /\ Change([mini EXCEPT !.sess = valid + 1])
    /\ UNCHANGED <<post, by, att, relays, twin, used, nid>>

-----------------------------------------------------------------------------
(* The server. *)

Answer(c, a) == Change([mini EXCEPT !.calls = (@ \ {c}) \cup {[c EXCEPT !.ans = a]}])

\* The answer to the POST of id, if anyone waits for it.
AnswerPost(id, a) ==
    Change([mini EXCEPT !.calls = {IF c.kind = "start" /\ c.id = id /\ c.ans = "none"
                                   THEN [c EXCEPT !.ans = a] ELSE c : c \in @}])

\* Mutant: whoever finds the attempt running relays it.
ClaimsRunning(id) == att[id] \in {"none", "running"}

\* CreateMiniTextTestAttempt: the row is ours only when we inserted it.
Claims(id) == att[id] = "none"

Claim(id) ==
    /\ att' = [att EXCEPT ![id] = "running"]
    /\ relays' = [relays EXCEPT ![id] = @ + 1]

\* MiniAppStartTextTest up to the relay, also when nobody waits any more: the
\* feature gate comes before the session, and a row that is there is answered.
StartTextTest(id) ==
    /\ post[id] = "sent"
    /\ \/ /\ by[id] # valid
          /\ post' = [post EXCEPT ![id] = "done"]
          /\ AnswerPost(id, "unauthorized")
          /\ UNCHANGED <<att, relays, used>>
       \/ /\ by[id] = valid /\ Claims(id)
          /\ Claim(id)
          /\ post' = [post EXCEPT ![id] = "relaying"]
          /\ UNCHANGED <<mini, used>>
       \/ /\ by[id] = valid /\ ~Claims(id)
          /\ post' = [post EXCEPT ![id] = "done"]
          /\ AnswerPost(id, att[id])
          /\ UNCHANGED <<att, relays, used>>
       \/ /\ Slip
          /\ post' = [post EXCEPT ![id] = "done"]
          /\ AnswerPost(id, "refused")
          /\ UNCHANGED <<att, relays>>
    /\ UNCHANGED <<by, twin, valid, nid>>

\* A copy of the POST is delivered, before the POST itself or later, also when
\* its row was deleted meanwhile; nobody waits for its answer.
Duplicate(id) ==
    /\ post[id] # "none" /\ by[id] = valid /\ Slip
    /\ IF Claims(id) THEN Claim(id) /\ twin' = twin \cup {id} ELSE UNCHANGED <<att, relays, twin>>
    /\ UNCHANGED <<mini, post, by, valid, nid>>

\* CompleteMiniTextTest, for the copy; or the server stops before.
TwinEnds(id) ==
    /\ id \in twin
    /\ twin' = twin \ {id}
    /\ \/ /\ \E s \in Terminal : att' = [att EXCEPT ![id] = IF @ = "running" THEN s ELSE @]
          /\ UNCHANGED used
       \/ Slip /\ UNCHANGED att
    /\ UNCHANGED <<mini, post, by, relays, valid, nid>>

\* CompleteMiniTextTest and the answer: a failure is answered with an error.
CompleteTextTest(id) ==
    /\ post[id] = "relaying"
    /\ post' = [post EXCEPT ![id] = "done"]
    /\ \E s \in Terminal :
         /\ att' = [att EXCEPT ![id] = IF @ = "running" THEN s ELSE @]
         /\ AnswerPost(id, IF s = "succeeded" THEN s ELSE "error")
    /\ UNCHANGED <<by, relays, twin, valid, used, nid>>

\* The server stops, or cannot update the row: it stays running.
CompleteFails(id) ==
    /\ post[id] = "relaying" /\ Slip
    /\ post' = [post EXCEPT ![id] = "done"]
    /\ AnswerPost(id, "error")
    /\ UNCHANGED <<by, att, relays, twin, valid, nid>>

\* MiniAppTextTestStatus; the feature gate may have been closed meanwhile.
TextTestStatus(c) ==
    /\ c.kind = "status" /\ c.ans = "none"
    /\ \/ /\ Answer(c, CASE c.sess # valid -> "unauthorized"
                         [] c.sess = valid /\ att[c.id] = "none" -> "notfound"
                         [] OTHER -> att[c.id])
          /\ UNCHANGED used
       \/ Slip /\ Answer(c, "refused")
    /\ UNCHANGED <<post, by, att, relays, twin, valid, nid>>

\* The answer does not come in time; the server may still get the request.
CallTimesOut(c) ==
    /\ c.kind # "id" /\ c.ans = "none" /\ Slip
    /\ Answer(c, "error")
    /\ UNCHANGED <<post, by, att, relays, twin, valid, nid>>

\* The request is lost on its way.
PostLost(id) ==
    /\ post[id] = "sent" /\ Slip
    /\ post' = [post EXCEPT ![id] = "done"]
    /\ AnswerPost(id, "error")
    /\ UNCHANGED <<by, att, relays, twin, valid, nid>>

\* DeleteExpiredMiniTextTestAttempts, a day later.
DeleteExpired(id) ==
    /\ att[id] # "none" /\ post[id] = "done" /\ id \notin twin /\ Slip
    /\ att' = [att EXCEPT ![id] = "none"]
    /\ relays' = [relays EXCEPT ![id] = 0]
    /\ UNCHANGED <<mini, post, by, twin, valid, nid>>

\* The session is ended by an administrator or from the console.
RevokeMini ==
    /\ Slip
    /\ valid' = valid + 1
    /\ UNCHANGED <<mini, post, by, att, relays, twin, nid>>

TNext ==
    \/ Open \/ ShowPage \/ HideAction \/ UnloadPage \/ Submit \/ PollTimer \/ Due
    \/ SessionRunsOut \/ StorageFails \/ StorageWorks \/ Kill \/ Relogin \/ RevokeMini
    \/ \E c \in mini.calls : \/ IdCreated(c) \/ IdFails(c) \/ Returned(c) \/ TextTestStatus(c)
                             \/ CallTimesOut(c)
    \/ \E id \in Ids : \/ StartTextTest(id) \/ Duplicate(id) \/ TwinEnds(id)
                       \/ CompleteTextTest(id) \/ CompleteFails(id)
                       \/ PostLost(id) \/ DeleteExpired(id)

TSpec == TInit /\ [][TNext]_tvars

-----------------------------------------------------------------------------
(* Properties. *)

\* An attempt of whose outcome the user was not told is the one in storage, or,
\* where storage did not take its id, the one that the page holds in memory
\* (pending-text-test.ts); and while a page is open it is the request of that
\* page, so that no second attempt is started beside it.  It is given up only
\* when the session ends, when the server answers that the text test is refused
\* or switched off, or when storage fails just as a page opens or goes away.
NoForgottenAttempt ==
    \A i \in mini.unknown :
        /\ i = mini.stored \/ (mini.p.active /\ i \in mini.unkept)
        /\ mini.p.active => i = mini.p.pid

\* A page in the foreground with a pending request has a timer, a call under
\* way or a message that says how to go on; and the button is only disabled
\* while a start is under way.
PendingWatched ==
    LET p == mini.p IN
    /\ (p.active /\ p.fg /\ p.pid # 0) =>
          p.timer \/ p.notice
            \/ \E c \in mini.calls : c.mine /\ (c.cur \/ c.kind # "status")
    /\ p.starting => \E c \in mini.calls : c.mine /\ c.kind # "status"

\* An attempt is relayed, and so paid for, at most once while its row is kept,
\* although its POST may be delivered twice, before, while and after it is
\* relayed, and its answer lost (CreateMiniTextTestAttempt).
OneRelay == \A id \in Ids : relays[id] <= 1

\* The id in storage "is removed on completion or session clear"
\* (docs/miniapp-release-checklist.md), so never while its attempt is relayed.
RemovedOnCompletion ==
    [][ mini.stored # 0 /\ mini'.stored = 0 /\ mini'.sess # 0 => post[mini.stored] # "relaying" ]_tvars
=============================================================================
