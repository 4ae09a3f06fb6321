--------------------------- MODULE PlaygroundChat ---------------------------
(***************************************************************************)
(* The chat of the playground: useChatHandler, the stream controller of    *)
(* use-stream-request.ts, the conversation they write to, and its copy in  *)
(* localStorage.  Requests are named by the value of requestGenerationRef   *)
(* they were given, which here goes on counting when the page is left and   *)
(* opened again.  React is external: a functional update is queued and      *)
(* evaluated at the next render, but the first of a queue may be evaluated  *)
(* when it is queued.  Reasoning and content are treated alike by the code; *)
(* one text stands for both.                                                *)
(***************************************************************************)
EXTENDS Naturals, Sequences, SequencesExt

CONSTANTS
    MaxActs,    \* bound on requests, stops, page changes, deletions and saved edits
    Reply,      \* the characters of every streamed reply
    Ends,       \* where its deltas end
    MaxStored,  \* MAX_STORED_MESSAGES
    MaxChars,   \* MAX_LOADED_MESSAGE_CHARS
    MinCollapse,\* MIN_PREFIX_COLLAPSE_LENGTH
    Repeats,    \* MIN_REPEATED_SECTION_COUNT
    Headings    \* numbered headings, each with its line one character

ASSUME ChatAssumption ==
    /\ MaxActs \in Nat /\ MaxStored \in Nat \ {0, 1} /\ MaxChars \in Nat \ {0}
    /\ MinCollapse \in Nat /\ Repeats \in Nat
    /\ Reply \in Seq({Reply[i] : i \in DOMAIN Reply})
    /\ Ends \subseteq 1..Len(Reply) /\ (Reply # <<>> => Len(Reply) \in Ends)

VARIABLES
    gen,        \* requestGenerationRef
    pend,       \* pendingStreamChunksRef
    timer,      \* streamFlushTimerRef: generation of the timer, 0 when null
    abort,      \* abortControllerRef: the request it belongs to, 0 when null
    cur,        \* the request that holds the controller's generation, 0 when none
    source,     \* the controller's source, 0 when null
    rq,         \* the requests: where each is and how many characters it was sent
    want,       \* isRequesting and isStreaming as last set
    ui,         \* isRequesting and isStreaming as rendered
    msgs,       \* the messages as rendered
    uq,         \* updates of the messages that are queued for the next render
    edit,       \* editingMessageKey
    stored,     \* the messages in localStorage
    dirty,      \* messagesSaveTimerRef is running
    acts,       \* how many messages were deleted, cleared or edited
    cut,        \* ghost: requests that were stopped, or of an earlier visit of the page
    over,       \* ghost: requests during which the list was written back
    unsaved     \* ghost: the last save failed, or what is stored cannot be read

refs == <<gen, pend, timer, abort, cur, source, rq>>
view == <<ui, msgs>>
disk == <<stored, dirty>>
ghosts == <<acts, cut, over, unsaved>>
cvars == <<refs, want, view, uq, edit, disk, ghosts>>

Gens == 1..MaxActs

\* The bound leaves room for one more of them.
Bounded == gen + acts < MaxActs
NoKey == <<"none", 0>>
Quiet == [req |-> FALSE, str |-> FALSE]

IsGenerating == ui.req \/ ui.str

-----------------------------------------------------------------------------
(* The conversation. *)

Key(x) == <<x.from, x.id>>
UserMessage(g) == [from |-> "user", id |-> g, st |-> "complete", text |-> <<"said">>]
LoadingMessage(g) == [from |-> "assistant", id |-> g, st |-> "loading", text |-> <<>>]

\* The page is opened for the first time, or with a conversation kept from
\* an earlier visit.
History == <<UserMessage(0), [LoadingMessage(0) EXCEPT !.st = "complete", !.text = <<"old">>]>>

CInit ==
    /\ gen = 0 /\ timer = 0 /\ abort = 0 /\ cur = 0 /\ source = 0
    /\ pend = [g |-> 0, text |-> <<>>]
    /\ rq = [g \in 0..MaxActs |-> [at |-> IF g = 0 THEN "gone" ELSE "none", n |-> 0]]
    /\ want = Quiet /\ ui = Quiet
    /\ uq = <<>> /\ edit = NoKey
    /\ stored \in {<<>>, History} /\ msgs = stored /\ dirty = FALSE
    /\ acts = 0 /\ cut = {} /\ over = {} /\ unsaved = FALSE

Final(x) == x.st \in {"complete", "error"}

\* Mutant: the chunks of a flush replace each other.
MergeLast(text, chunk) == chunk

\* mergePendingStreamChunk and getAppendableChunk: a chunk that begins with
\* all that is there already is taken for the whole text so far.
MergeChunk(text, chunk) == IF IsPrefix(text, chunk) THEN chunk ELSE text \o chunk

\* updateLastAssistantMessage.
UpdateLast(list, x) == IF list = <<>> \/ Last(list).from # "assistant" THEN list
                       ELSE Front(list) \o <<x>>

\* What an update makes of the last message x.
Updated(o, x) ==
    CASE o.op = "chunk" /\ x.st # "error" ->
            [x EXCEPT !.text = MergeChunk(@, o.text), !.st = "streaming"]
      [] o.op = "complete" /\ ~Final(x) -> [x EXCEPT !.st = "complete"]
      [] o.op = "stop" /\ ~Final(x) -> [x EXCEPT !.st = "complete"]
      [] o.op = "answer" -> [x EXCEPT !.st = "complete", !.text = o.text]
      [] o.op = "error" -> [x EXCEPT !.st = "error", !.text = <<"error">>]
      [] OTHER -> x

\* removeMessageByKey: the list without the message of that key.
Deleted(list, key) ==
    FoldLeft(LAMBDA kept, x : IF Key(x) = key THEN kept ELSE Append(kept, x), <<>>, list)

\* An updater compares its generation when it is evaluated.
Stale(o, g) == o.g # 0 /\ o.g # g

Eval(o, list, g) ==
    IF Stale(o, g) THEN list
    ELSE
    CASE o.op = "replace" -> o.list
      [] o.op = "delete" -> Deleted(list, o.key)
      [] OTHER -> IF list = <<>> THEN list ELSE UpdateLast(list, Updated(o, Last(list)))

Op(op, g) == [op |-> op, g |-> g, text |-> <<>>, list |-> <<>>, key |-> NoKey]
Replace(list) == [Op("replace", 0) EXCEPT !.list = list]

\* setMessages: the queues it may leave when the generation is g.  React may
\* evaluate the first update of an empty queue at once.
Enqueue(queues, o, g) ==
    {Append(q, o) : q \in queues} \cup
    (IF <<>> \in queues THEN {<<Replace(Eval(o, msgs, g))>>} ELSE {})

\* The first update of q is evaluated: persistMessages was called for it.
Eager(q) == q # <<>> /\ q[1].op = "replace"

\* A timer or an answer queues updates, to be rendered later.
Queued(queues) ==
    /\ uq' \in queues
    /\ dirty' = (dirty \/ (uq = <<>> /\ Eager(uq')))

\* The page is rendered with the queue q.
Commit(q) ==
    /\ msgs' = FoldLeft(LAMBDA list, o : Eval(o, list, gen'), msgs, q)
    /\ uq' = <<>>
    /\ ui' = want'

Render ==
    /\ uq # <<>> \/ ui # want
    /\ UNCHANGED <<refs, want, edit, stored, ghosts>>
    /\ Commit(uq)
    /\ dirty' = (dirty \/ (uq # <<>> /\ (Len(uq) > 1 \/ ~Eager(uq))))

\* What the user does is rendered before the event ends.
UserUpdate(queues) ==
    /\ \E q \in queues : Commit(q)
    /\ dirty' = TRUE
    /\ UNCHANGED stored

-----------------------------------------------------------------------------
(* Flushing. *)

\* flushStreamUpdates for the current generation: the queues it may leave.
Flushed(queues) ==
    IF pend.g # gen \/ pend.text = <<>> THEN queues
    ELSE Enqueue(queues, [Op("chunk", gen) EXCEPT !.text = pend.text], gen)

\* Mutant: the timer is left running.
DiscardKeepsTimer(g) == pend' = [g |-> g, text |-> <<>>] /\ UNCHANGED timer

\* discardPendingStreamUpdates.
Discard(g) == pend' = [g |-> g, text |-> <<>>] /\ timer' = 0

FlushTimer ==
    /\ timer # 0
    /\ IF timer # gen THEN UNCHANGED <<pend, timer, uq, dirty>>
       ELSE /\ timer' = 0
            /\ pend' = IF pend.g = gen THEN [pend EXCEPT !.text = <<>>] ELSE pend
            /\ Queued(Flushed({uq}))
    /\ UNCHANGED <<gen, abort, cur, source, rq, want, view, edit, stored, ghosts>>

\* handleStreamComplete and handleStreamError for request g.
Finish(g, op) ==
    IF g # gen THEN UNCHANGED <<pend, timer, uq, dirty>>
    ELSE /\ timer' = 0
         /\ pend' = IF pend.g = gen THEN [pend EXCEPT !.text = <<>>] ELSE pend
         /\ Queued(Enqueue(Flushed({uq}), Op(op, g), gen))

\* Mutant: the end of a request leaves isRequesting set.
ReqKept(g) == want.req

\* setIsRequesting(false), unless a newer request has begun.
ReqAfter(g) == IF g = gen THEN FALSE ELSE want.req

-----------------------------------------------------------------------------
(* The stream controller. *)

IsCurrent(g) == cur = g /\ source = g

\* getFreshAuthHeaders answers; a request superseded meanwhile ends there.
Headers(g) ==
    /\ rq[g].at = "headers"
    /\ IF cur = g
       THEN /\ source' = g
            /\ want' = [want EXCEPT !.str = TRUE]
            /\ rq' = [rq EXCEPT ![g].at = "open"]
       ELSE /\ rq' = [rq EXCEPT ![g].at = "gone"]
            /\ UNCHANGED <<source, want>>
    /\ UNCHANGED <<gen, pend, timer, abort, cur, view, uq, edit, disk, ghosts>>

HeadersFail(g) ==
    /\ rq[g].at = "headers"
    /\ rq' = [rq EXCEPT ![g].at = "gone"]
    /\ IF cur = g THEN /\ Finish(g, "error")
                       /\ want' = [want EXCEPT !.req = ReqAfter(g)]
       ELSE UNCHANGED <<pend, timer, uq, dirty, want>>
    /\ UNCHANGED <<gen, abort, cur, source, view, edit, stored, ghosts>>

\* The delta after n characters ends with character m.
DeltaEnds(n, m) == m \in Ends /\ n < m /\ \A e \in Ends : n < e => m <= e

\* A message with a delta: handleStreamUpdate and scheduleStreamFlush.
Delta(g) ==
    \E m \in Ends :
    /\ rq[g].at = "open" /\ DeltaEnds(rq[g].n, m)
    /\ rq' = [rq EXCEPT ![g].n = m]
    /\ IF IsCurrent(g) /\ g = gen /\ pend.g = g
       THEN /\ pend' = [pend EXCEPT !.text = MergeChunk(@, SubSeq(Reply, rq[g].n + 1, m))]
            /\ timer' = IF timer = 0 THEN g ELSE timer
       ELSE UNCHANGED <<pend, timer>>
    /\ UNCHANGED <<gen, abort, cur, source, want, view, uq, edit, disk, ghosts>>

\* The stream ends: [DONE], or an error of the source or of the parser.  The
\* source may be one that was closed already.
StreamEnd(g, op) ==
    /\ rq[g].at = "open"
    /\ rq' = [rq EXCEPT ![g].at = "gone"]
    /\ IF IsCurrent(g)
       THEN /\ Finish(g, op)
            /\ source' = 0
            /\ want' = [req |-> ReqAfter(g), str |-> FALSE]
       ELSE UNCHANGED <<pend, timer, uq, dirty, source, want>>
    /\ UNCHANGED <<gen, abort, cur, view, edit, stored, ghosts>>

\* The response ends with status 200 and without [DONE]: no listener acts.
StreamEof(g) ==
    /\ rq[g].at = "open"
    /\ rq' = [rq EXCEPT ![g].at = "eof"]
    /\ UNCHANGED <<gen, pend, timer, abort, cur, source, want, view, uq, edit, disk, ghosts>>

-----------------------------------------------------------------------------
(* Requests. *)

\* sendChat with the messages of list, whose update is queued first.
SendChat(list) ==
    LET g == gen + 1 IN
    /\ Bounded
    /\ gen' = g
    /\ Discard(g)
    /\ source' = 0
    /\ want' = [req |-> TRUE, str |-> FALSE]
    /\ UserUpdate(Enqueue({uq}, Replace(list), gen))
    /\ \/ /\ abort' = 0 /\ cur' = g
          /\ rq' = [rq EXCEPT ![g].at = "headers"]
       \/ /\ abort' = g /\ cur' = 0
          /\ rq' = [rq EXCEPT ![g].at = "post"]

\* The answer to a request that does not stream.
PostAnswer(g) ==
    /\ rq[g].at = "post"
    /\ rq' = [rq EXCEPT ![g].at = "gone"]
    /\ IF g # gen \/ abort # g THEN UNCHANGED <<pend, timer, uq, dirty, abort, want>>
       ELSE /\ \/ /\ Queued(Enqueue({uq}, [Op("answer", g) EXCEPT !.text = Reply], gen))
                  /\ UNCHANGED <<pend, timer>>
               \/ Finish(g, "error")
            /\ abort' = 0
            /\ want' = [want EXCEPT !.req = FALSE]
    /\ UNCHANGED <<gen, cur, source, view, edit, stored, ghosts>>

\* stopGeneration, from the button shown while generating.
StopGeneration ==
    /\ IsGenerating /\ Bounded
    /\ gen' = gen + 1
    /\ Discard(gen + 1)
    /\ cur' = 0 /\ source' = 0 /\ abort' = 0
    /\ want' = Quiet
    /\ UserUpdate(Enqueue(Flushed({uq}), Op("stop", gen + 1), gen + 1))
    /\ cut' = cut \cup {gen}
    /\ UNCHANGED <<rq, edit, acts, over, unsaved>>

-----------------------------------------------------------------------------
(* usePlaygroundConversation, on the messages as rendered. *)

Send ==
    /\ ~IsGenerating
    /\ SendChat(msgs \o <<UserMessage(gen + 1), LoadingMessage(gen + 1)>>)
    /\ UNCHANGED <<edit, ghosts>>

HasContent(x) == x.text # <<>>

Regenerate(i) ==
    /\ ~IsGenerating /\ HasContent(msgs[i]) /\ Final(msgs[i])
    /\ SendChat(SubSeq(msgs, 1, IF msgs[i].from = "user" THEN i ELSE i - 1)
                  \o <<LoadingMessage(gen + 1)>>)
    /\ UNCHANGED <<edit, ghosts>>

Touch == Bounded /\ acts' = acts + 1

Delete(i) ==
    /\ ~IsGenerating /\ Touch
    /\ UNCHANGED <<refs, want, edit, cut, over, unsaved>>
    /\ UserUpdate(Enqueue({uq}, [Op("delete", 0) EXCEPT !.key = Key(msgs[i])], gen))

\* handleClearMessages.
Clear ==
    /\ ~IsGenerating /\ msgs # <<>> /\ Touch
    /\ UNCHANGED <<refs, want, cut, over, unsaved>>
    /\ UserUpdate(Enqueue({uq}, Replace(<<>>), gen))
    /\ edit' = NoKey

\* The editor opens while nothing is generated, and stays open.
EditOpen(i) ==
    /\ ~IsGenerating /\ edit # Key(msgs[i]) /\ HasContent(msgs[i])
    /\ edit' = Key(msgs[i])
    /\ UNCHANGED <<refs, want, view, uq, disk, ghosts>>

\* The editor is shown with the message it edits.
EditCancel ==
    /\ \E i \in DOMAIN msgs : Key(msgs[i]) = edit
    /\ edit' = NoKey
    /\ UNCHANGED <<refs, want, view, uq, disk, ghosts>>

Edited == [i \in DOMAIN msgs |->
             IF Key(msgs[i]) = edit THEN [msgs[i] EXCEPT !.text = <<"edited">>] ELSE msgs[i]]

\* applyEdit without submitting: the rendered list, edited, is written back.
EditSave ==
    /\ Touch /\ \E i \in DOMAIN msgs : Key(msgs[i]) = edit
    /\ UNCHANGED <<refs, want, cut, unsaved>>
    /\ UserUpdate(Enqueue({uq}, Replace(Edited), gen))
    /\ edit' = NoKey
    /\ over' = over \cup {gen}

EditSubmit ==
    /\ \E i \in DOMAIN msgs :
         /\ Key(msgs[i]) = edit /\ msgs[i].from = "user"
         /\ SendChat(SubSeq(Edited, 1, i) \o <<LoadingMessage(gen + 1)>>)
    /\ edit' = NoKey
    /\ over' = over \cup {gen}
    /\ UNCHANGED <<acts, cut, unsaved>>

-----------------------------------------------------------------------------
(* usePlaygroundState and storage.ts. *)

\* Mutant: what is saved is what was rendered.
LatestRendered == msgs

\* latestMessagesRef: the list of the last update that was evaluated.
Latest == IF Eager(uq) THEN uq[1].list ELSE msgs

LastOf(list, k) == SubSeq(list, Len(list) - k + 1, Len(list))

\* trimMessages.
Trim(list) == IF Len(list) <= MaxStored THEN list ELSE LastOf(list, MaxStored)

\* saveMessages; an error of localStorage or of the schema is only logged.
SaveTimer ==
    /\ dirty /\ dirty' = FALSE
    /\ \/ stored' = Trim(Latest) /\ unsaved' = FALSE
       \/ unsaved' = TRUE /\ UNCHANGED stored
    /\ UNCHANGED <<refs, want, view, uq, edit, acts, cut, over>>

\* collapseRepeatedSectionSnapshots: the text begins where the first of the
\* headings that are repeated occurs for the last time.
Collapsed(text) ==
    LET places(h) == {i \in DOMAIN text : text[i] = h}
        lasts == {i \in DOMAIN text :
                    /\ text[i] \in Headings /\ Cardinality(places(text[i])) >= Repeats
                    /\ \A j \in places(text[i]) : j <= i}
    IN IF Len(text) < MinCollapse \/ lasts = {} THEN text
       ELSE SubSeq(text, Min(lasts), Len(text))

\* truncateText, with the suffix one character.
Truncated(text) ==
    IF Len(text) <= MaxChars THEN text ELSE SubSeq(text, 1, MaxChars - 1) \o <<"[...]">>

\* normalizeStoredMessageForLoad: the text is shortened, and a pending message
\* with text is complete.
Normalized(x) ==
    [x EXCEPT !.text = Truncated(Collapsed(@)),
              !.st = IF Final(x) \/ ~HasContent(x) THEN @ ELSE "complete"]

Interrupted(x) == [x EXCEPT !.st = "error", !.text = <<"error">>]

\* Mutant: the last message is repaired whatever its status.
SanitizedLast(list) == IF list = <<>> THEN list ELSE Front(list) \o <<Interrupted(Last(list))>>

\* Mutant: only a pending message with text is repaired.
SanitizedByText(list) ==
    [i \in DOMAIN list |->
        IF HasContent(list[i]) /\ ~Final(list[i]) THEN Interrupted(list[i]) ELSE list[i]]

\* sanitizeMessagesOnLoad: the last pending message is repaired.
Sanitized(list) ==
    [i \in DOMAIN list |->
        IF ~Final(list[i]) /\ \A j \in DOMAIN list : j > i => Final(list[j])
        THEN Interrupted(list[i]) ELSE list[i]]

\* loadMessages: the end of what is stored, as much as MAX_LOADED_MESSAGES_CHARS
\* allows but one message at least; nothing if it cannot be read or is too long.
LoadMessages(list) ==
    {<<>>} \cup {Sanitized(LastOf([i \in DOMAIN list |-> Normalized(list[i])], k)) :
                    k \in {n \in 1..Len(list) : n <= MaxStored}}

\* The page starts with what was kept, and saves what it has made of it.
Mount(kept) ==
    /\ Bounded
    /\ gen' = gen + 1
    /\ pend' = [g |-> gen + 1, text |-> <<>>] /\ timer' = 0
    /\ abort' = 0 /\ cur' = 0 /\ source' = 0
    /\ want' = Quiet /\ ui' = Quiet
    /\ msgs' \in LoadMessages(kept)
    /\ \/ stored' = Trim(msgs') /\ unsaved' = FALSE
       \/ stored' = kept /\ unsaved' = TRUE
    /\ uq' = <<>> /\ dirty' = FALSE /\ edit' = NoKey
    /\ cut' = 0..gen
    /\ UNCHANGED <<acts, over>>

\* The user goes to another page of the console and comes back: the cleanup
\* of the hooks saves what waits for the timer.
Leave ==
    /\ dirty \/ ~unsaved
    /\ Mount(IF dirty THEN Trim(Latest) ELSE stored)
    /\ UNCHANGED rq

\* That save fails, or the one before did.
LeaveUnsaved ==
    /\ dirty \/ unsaved
    /\ Mount(stored)
    /\ UNCHANGED rq

\* The tab is closed or reloaded, and the cleanup does not run.
Reload ==
    /\ Mount(stored)
    /\ rq' = [g \in 0..MaxActs |-> IF rq[g].at = "none" THEN rq[g] ELSE [rq[g] EXCEPT !.at = "gone"]]

CNext ==
    \/ Render \/ FlushTimer \/ SaveTimer \/ Leave \/ LeaveUnsaved \/ Reload
    \/ StopGeneration \/ Send \/ Clear \/ EditCancel \/ EditSave \/ EditSubmit
    \/ \E g \in Gens :
         \/ Headers(g) \/ HeadersFail(g) \/ Delta(g)
         \/ StreamEnd(g, "complete") \/ StreamEnd(g, "error") \/ StreamEof(g)
         \/ PostAnswer(g)
    \/ \E i \in DOMAIN msgs : Regenerate(i) \/ Delete(i) \/ EditOpen(i)

CSpec == CInit /\ [][CNext]_cvars

-----------------------------------------------------------------------------
(* Properties. *)

\* Types; the timer, the abort controller and the stream belong to the current
\* request or to none, and the buffer never outgrows one reply.
ChatTypeOK ==
    /\ gen \in 0..MaxActs /\ {timer, abort, cur, source} \subseteq {0, gen}
    /\ pend.g = gen /\ Len(pend.text) <= Len(Reply)
    /\ \A g \in Gens : rq[g].at \in {"none", "headers", "open", "post", "eof", "gone"}
    /\ \A i \in DOMAIN msgs : msgs[i].st \in {"loading", "streaming", "complete", "error"}

\* A reply that came to its end, neither stopped nor written over, shows every
\* character that was sent for it until the page is left: the buffer, the timer
\* and the updates that wait for a render lose nothing (use-chat-handler.ts
\* flushes before it completes).
NothingLost ==
    \A i \in DOMAIN msgs :
        LET x == msgs[i] IN
        (/\ x.from = "assistant" /\ x.st = "complete" /\ x.id \notin cut \cup over
         /\ rq[x.id].at = "gone" /\ rq[x.id].n > 0)
            => x.text \in {SubSeq(Reply, 1, rq[x.id].n), <<"edited">>}

\* The replies of which NothingLost holds: MergeChunk never meets a text and what
\* follows it where the second begins with the first.  The text is what is shown
\* already and the chunk any deltas after it, or the text is any deltas that are
\* buffered and the chunk is the next delta.
Unambiguous ==
    \A i, j, k \in Ends \cup {0} :
        (i < j /\ j < k /\ (i = 0 \/ DeltaEnds(j, k))) =>
            ~IsPrefix(SubSeq(Reply, i + 1, j), SubSeq(Reply, j + 1, k))

\* isGenerating is (about to be) shown exactly while the current request has
\* not ended, or its stream ended without [DONE]: a late event of an earlier
\* request neither ends nor revives it, and no way out forgets to reset it.
GeneratingExactly ==
    (want.req \/ want.str) <=>
        rq[gen].at \in {"headers", "open", "post", "eof"}

\* When nothing is generated and everything is rendered, no message is left
\* loading or streaming, whatever stopped, failed or was interrupted by a
\* reload; only a saved edit may have written a pending message back.
AllFinal ==
    (uq = <<>> /\ ui = Quiet /\ want = Quiet) =>
        \A i \in DOMAIN msgs : msgs[i].id \in over \/ Final(msgs[i])

\* A final message keeps its text and status whatever late events, timers and
\* queued updates do; the user may edit it, and leaving the page and coming back
\* shortens a text only the way normalizeStoredMessageForLoad does.  A reload may
\* go back to what was saved last, and so may a page whose last save failed.
FinalStable ==
    [][\/ Reload \/ LeaveUnsaved
       \/ \A i \in DOMAIN msgs : Final(msgs[i]) =>
            \A j \in DOMAIN msgs' : Key(msgs'[j]) = Key(msgs[i]) =>
               \/ msgs'[j] = msgs[i] \/ msgs'[j].text = <<"edited">>
               \/ Leave /\ msgs'[j] = Normalized(msgs[i])]_cvars

\* Once the save timer has fired and all is rendered, localStorage holds the newest
\* MAX_STORED_MESSAGES messages that the page shows, unless the browser refused to
\* write or to read them: no update escapes persistMessages, and what a load has
\* rewritten is stored the way it is shown.
StoredMatches == (~dirty /\ uq = <<>> /\ ~unsaved) => stored = Trim(msgs)
=============================================================================
