------------------------ MODULE PlaygroundChatProofs ------------------------
(***************************************************************************)
(* What PlaygroundChat proves of the playground's chat for any number of    *)
(* requests, stops, page changes and edits, and for any reply.              *)
(***************************************************************************)
EXTENDS PlaygroundChat, FiniteSetTheorems, SequenceTheorems, WellFoundedInduction, TLAPS

-----------------------------------------------------------------------------
(* Folding the queue: what a render makes of an empty queue and of one update. *)

\* The list a render makes of the list b and the queue q.
Rendered(b, q, g) == FoldLeft(LAMBDA list, o : Eval(o, list, g), b, q)

\* The recursive function by which FoldLeft goes through q.
Folds(q, b, g, iter) ==
    iter = [s \in SUBSET DOMAIN q |->
              IF s = {} THEN b ELSE Eval(q[Max(s)], iter[s \ {Max(s)}], g)]

LEMMA FoldUnfolds ==
    ASSUME NEW q, NEW b, NEW g, \E iter : Folds(q, b, g, iter)
    PROVE  \E iter : /\ Folds(q, b, g, iter)
                     /\ Rendered(b, q, g) = iter[DOMAIN q]
<1> DEFINE f == CHOOSE iter : Folds(q, b, g, iter)
<1>1. Folds(q, b, g, f)
  OBVIOUS
<1>2. Rendered(b, q, g) = f[DOMAIN q]
  BY DEF Rendered, FoldLeft, MapThenFoldSet, Folds
<1> QED
  BY <1>1, <1>2

LEMMA FoldEmpty ==
    ASSUME NEW b, NEW g
    PROVE  Rendered(b, <<>>, g) = b
<1>1. DOMAIN <<>> = {}
  OBVIOUS
<1>2. Folds(<<>>, b, g, [s \in SUBSET {} |-> b])
  BY <1>1 DEF Folds
<1>3. PICK iter : /\ Folds(<<>>, b, g, iter)
                  /\ Rendered(b, <<>>, g) = iter[DOMAIN <<>>]
  BY <1>2, FoldUnfolds
<1>4. iter[{}] = b
  BY <1>1, <1>3 DEF Folds
<1> QED
  BY <1>1, <1>3, <1>4

LEMMA MaxOfOne ==
    Max({1}) = 1
BY DEF Max

LEMMA FoldOne ==
    ASSUME NEW b, NEW g, NEW o
    PROVE  Rendered(b, <<o>>, g) = Eval(o, b, g)
<1>1. DOMAIN <<o>> = {1} /\ <<o>>[1] = o
  OBVIOUS
<1>2. SUBSET {1} = {{}, {1}} /\ {1} \ {1} = {} /\ {1} # {}
  OBVIOUS
<1>3. Folds(<<o>>, b, g, [s \in {{}, {1}} |-> IF s = {} THEN b ELSE Eval(o, b, g)])
  BY <1>1, <1>2, MaxOfOne DEF Folds
<1>4. PICK iter : /\ Folds(<<o>>, b, g, iter)
                  /\ Rendered(b, <<o>>, g) = iter[DOMAIN <<o>>]
  BY <1>3, FoldUnfolds
<1>5. iter[{}] = b
  BY <1>1, <1>2, <1>4 DEF Folds
<1>6. iter[{1}] = Eval(o, b, g)
  BY <1>1, <1>2, <1>4, <1>5, MaxOfOne DEF Folds
<1> QED
  BY <1>1, <1>4, <1>6
-----------------------------------------------------------------------------
(* The inductive invariant. *)

Places == {"none", "headers", "open", "post", "eof", "gone"}
Entries == [at : Places, n : Nat]
Flags == [req : BOOLEAN, str : BOOLEAN]

\* The references and the requests: everything the hooks hold belongs to the
\* current generation, and later generations are not in use.
RefsOK ==
    /\ gen \in Nat /\ acts \in Nat /\ gen <= MaxActs
    /\ timer \in {0, gen} /\ abort \in {0, gen} /\ cur \in {0, gen} /\ source \in {0, gen}
    /\ pend = [g |-> gen, text |-> pend.text]
    /\ rq \in [0..MaxActs -> Entries]
    /\ rq[0].at = "gone"
    /\ \A g \in 0..MaxActs : g > gen => rq[g].at = "none"

\* What the place of the current request says of the flags, and who must
\* still hold the request for its end to be noticed.
FlagsFollow ==
    /\ want \in Flags
    /\ rq[gen].at \in {"none", "gone"} => ~want.req /\ ~want.str
    /\ rq[gen].at = "headers" => cur = gen /\ want.req /\ ~want.str
    /\ rq[gen].at \in {"open", "eof"} => cur = gen /\ source = gen /\ want.str
    /\ rq[gen].at = "post" => abort = gen /\ want.req /\ ~want.str

\* q is a queue that setMessages may have made of the queue u: only the first
\* update can be evaluated already, and it is not replaced by another.
IsSeq(q) == \E S : q \in Seq(S)
Grows(u, q) ==
    /\ IsSeq(q)
    /\ Eager(q) => q[1].g = 0
    /\ u # <<>> => q # <<>> /\ q[1] = u[1]

\* While no save is due and the last one did not fail, localStorage holds the
\* end of the list that was evaluated last.
StoreOK ==
    /\ dirty \in BOOLEAN
    /\ Grows(<<>>, uq)
    /\ ~dirty /\ ~unsaved => stored = Trim(Latest)

IInv == RefsOK /\ FlagsFollow /\ StoreOK

LEMMA BoundsFact ==
    /\ MaxActs \in Nat /\ 0 \in 0..MaxActs
    /\ MaxStored \in Nat /\ MaxStored >= 2
    /\ MaxChars \in Nat /\ MaxChars >= 1
    /\ MinCollapse \in Nat
BY ChatAssumption

LEMMA Initial ==
    CInit => IInv
<1> SUFFICES ASSUME CInit PROVE IInv
  OBVIOUS
<1>1. RefsOK
  BY ChatAssumption DEF CInit, RefsOK, Entries, Places
<1>2. FlagsFollow
  BY ChatAssumption DEF CInit, FlagsFollow, Flags, Quiet
<1>3. <<>> \in Seq({})
  OBVIOUS
<1>4. Len(msgs) <= MaxStored
  <2>1. Len(<<>>) = 0 /\ Len(History) = 2
    BY DEF History
  <2>2. msgs = <<>> \/ msgs = History
    BY DEF CInit
  <2>3. PICK k : k = Len(msgs)
    OBVIOUS
  <2>4. k = 0 \/ k = 2
    BY <2>1, <2>2, <2>3
  <2>5. MaxStored \in Nat /\ MaxStored >= 2
    BY BoundsFact
  <2>6. k <= MaxStored
    BY <2>4, <2>5
  <2> QED
    BY <2>3, <2>6
<1>5. StoreOK
  BY <1>3, <1>4 DEF CInit, StoreOK, Grows, IsSeq, Eager, Latest, Trim
<1> QED
  BY <1>1, <1>2, <1>5 DEF IInv

-----------------------------------------------------------------------------
(* The queue and what is stored. *)

LEMMA EnqueueGrows ==
    ASSUME NEW u, NEW qs, \A q \in qs : Grows(u, q),
           NEW o, o.op = "replace" => o.g = 0, NEW g,
           NEW r \in Enqueue(qs, o, g)
    PROVE  Grows(u, r)
<1>1. CASE \E q \in qs : r = Append(q, o)
  <2>1. PICK q \in qs : r = Append(q, o)
    BY <1>1
  <2>2. PICK S : q \in Seq(S)
    BY DEF Grows, IsSeq
  <2>3. q \in Seq(S \cup {o}) /\ o \in S \cup {o}
    BY <2>2
  <2>4. /\ r \in Seq(S \cup {o}) /\ r # <<>>
        /\ IF q = <<>> THEN r[1] = o ELSE r[1] = q[1]
    BY <2>1, <2>3
  <2>5. IsSeq(r)
    BY <2>4 DEF IsSeq
  <2>6. Eager(r) => r[1].g = 0
    BY <2>4 DEF Grows, Eager
  <2> QED
    BY <2>4, <2>5, <2>6 DEF Grows
<1>2. CASE <<>> \in qs /\ r = <<Replace(Eval(o, msgs, g))>>
  <2> DEFINE x == Replace(Eval(o, msgs, g))
  <2>1. x.g = 0
    BY DEF Replace, Op
  <2> HIDE DEF x
  <2>2. r = <<x>> /\ r[1] = x /\ r \in Seq({x})
    BY <1>2 DEF x
  <2>3. u = <<>>
    BY <1>2 DEF Grows
  <2> QED
    BY <2>1, <2>2, <2>3 DEF Grows, IsSeq
<1> QED
  BY <1>1, <1>2 DEF Enqueue

LEMMA FlushedGrows ==
    ASSUME NEW u, NEW qs, \A q \in qs : Grows(u, q)
    PROVE  \A q \in Flushed(qs) : Grows(u, q)
<1> DEFINE o == [Op("chunk", gen) EXCEPT !.text = pend.text]
<1>1. o.op = "replace" => o.g = 0
  BY DEF Op
<1> HIDE DEF o
<1>2. \A q \in Enqueue(qs, o, gen) : Grows(u, q)
  BY <1>1, EnqueueGrows
<1> QED
  BY <1>2 DEF Flushed, o

\* What a timer or an answer queues keeps the stored list right.
LEMMA QueuedStores ==
    ASSUME StoreOK, UNCHANGED <<msgs, stored, unsaved>>,
           NEW qs, \A q \in qs : Grows(uq, q), Queued(qs)
    PROVE  StoreOK'
<1>1. Grows(uq, uq') /\ dirty' = (dirty \/ (uq = <<>> /\ Eager(uq')))
  BY DEF Queued
<1>2. dirty' \in BOOLEAN
  BY <1>1 DEF StoreOK
<1>3. Grows(<<>>, uq')
  BY <1>1 DEF Grows
<1>4. ASSUME ~dirty', ~unsaved' PROVE stored' = Trim(Latest)'
  <2>1. Latest' = Latest
    BY <1>1, <1>4 DEF StoreOK, Latest, Eager, Grows
  <2> QED
    BY <1>1, <1>4, <2>1 DEF StoreOK, Trim, LastOf
<1> QED
  BY <1>2, <1>3, <1>4 DEF StoreOK

LEMMA Self ==
    ASSUME StoreOK
    PROVE  \A q \in {uq} : Grows(uq, q)
BY DEF StoreOK, Grows

LEMMA FinishStores ==
    ASSUME StoreOK, UNCHANGED <<msgs, stored, unsaved>>, NEW g, NEW op \in {"complete", "error"}, Finish(g, op)
    PROVE  StoreOK'
<1>1. CASE g # gen
  BY <1>1 DEF Finish, StoreOK, Latest, Trim, LastOf
<1>2. CASE g = gen
  <2>1. Queued(Enqueue(Flushed({uq}), Op(op, g), gen))
    BY <1>2 DEF Finish
  <2>2. Op(op, g).op # "replace"
    BY DEF Op
  <2>3. \A q \in Flushed({uq}) : Grows(uq, q)
    BY Self, FlushedGrows
  <2>4. \A q \in Enqueue(Flushed({uq}), Op(op, g), gen) : Grows(uq, q)
    BY <2>2, <2>3, EnqueueGrows
  <2> QED
    BY <2>1, <2>4, QueuedStores
<1> QED
  BY <1>1, <1>2

\* An update of the user is rendered at once, and its save is due.
LEMMA UserUpdateStores ==
    ASSUME NEW qs, UserUpdate(qs)
    PROVE  StoreOK'
<1>1. uq' = <<>> /\ dirty' = TRUE
  BY DEF UserUpdate, Commit
<1>2. <<>> \in Seq({})
  OBVIOUS
<1> QED
  BY <1>1, <1>2 DEF StoreOK, Grows, IsSeq, Eager

LEMMA RenderStores ==
    ASSUME StoreOK, Render
    PROVE  StoreOK'
<1>1. /\ uq' = <<>> /\ stored' = stored /\ unsaved' = unsaved
      /\ dirty' = (dirty \/ (uq # <<>> /\ (Len(uq) > 1 \/ ~Eager(uq))))
  BY DEF Render, Commit, ghosts
<1>2. msgs' = Rendered(msgs, uq, gen')
  BY DEF Render, Commit, Rendered
<1>3. Grows(<<>>, uq')
  <2>1. <<>> \in Seq({})
    OBVIOUS
  <2> QED
    BY <1>1, <2>1 DEF Grows, IsSeq, Eager
<1>4. ASSUME ~dirty', ~unsaved' PROVE stored' = Trim(msgs)'
  <2>1. CASE uq = <<>>
    BY <1>1, <1>2, <1>4, <2>1, FoldEmpty DEF StoreOK, Latest, Eager, Trim, LastOf
  <2>2. CASE uq # <<>>
    <3>1. PICK S : uq \in Seq(S)
      BY DEF StoreOK, Grows, IsSeq
    <3>2. Eager(uq) /\ ~(Len(uq) > 1) /\ ~dirty
      BY <1>1, <1>4, <2>2
    <3>3. Len(uq) = 1
      <4>1. Len(uq) \in Nat /\ Len(uq) # 0
        BY <2>2, <3>1
      <4> QED
        BY <3>2, <4>1
    <3>4. uq = <<uq[1]>>
      BY <3>1, <3>3
    <3>5. uq[1].op = "replace" /\ uq[1].g = 0
      BY <3>2 DEF StoreOK, Grows, Eager
    <3>6. Eval(uq[1], msgs, gen') = uq[1].list
      BY <3>5 DEF Eval, Stale
    <3>7. stored = Trim(uq[1].list)
      BY <1>1, <1>4, <3>2 DEF StoreOK, Latest
    <3>8. Rendered(msgs, uq, gen') = Eval(uq[1], msgs, gen')
      BY <3>4, FoldOne
    <3> QED
      BY <1>1, <1>2, <3>6, <3>7, <3>8 DEF Trim, LastOf
  <2> QED
    BY <2>1, <2>2
<1>5. ~Eager(uq')
  BY <1>1 DEF Eager
<1>6. dirty' \in BOOLEAN
  BY <1>1 DEF StoreOK
<1> QED
  BY <1>3, <1>4, <1>5, <1>6 DEF StoreOK, Latest, Trim, LastOf
-----------------------------------------------------------------------------
(* The references and the flags, action by action. *)

LEMMA GensRange ==
    ASSUME NEW g \in Gens
    PROVE  g \in 0..MaxActs /\ g # 0 /\ g \in Nat
BY ChatAssumption DEF Gens

LEMMA RoomForOne ==
    ASSUME RefsOK, Bounded
    PROVE  gen + 1 \in 0..MaxActs /\ gen + 1 \in Nat /\ gen + 1 # 0 /\ gen + 1 <= MaxActs
BY ChatAssumption DEF RefsOK, Bounded

\* A request is somewhere else: the one of an entry that was in use, and no
\* reference is changed.
LEMMA Moved ==
    ASSUME RefsOK, NEW g \in Gens, rq[g].at # "none", NEW p \in Places,
           rq' = [rq EXCEPT ![g].at = p], p # "none",
           UNCHANGED <<gen, acts>>,
           timer' \in {0, timer}, abort' \in {0, abort}, cur' \in {0, cur},
           source' \in {0, gen}, pend' = [g |-> gen, text |-> pend'.text]
    PROVE  /\ RefsOK'
           /\ rq'[g].at = p
           /\ g # gen => rq'[gen] = rq[gen]
<1>1. g \in 0..MaxActs /\ g # 0 /\ g \in Nat /\ gen \in 0..MaxActs
  BY GensRange, ChatAssumption DEF RefsOK
<1>2. g <= gen
  BY <1>1 DEF RefsOK
<1> DEFINE e == [rq[g] EXCEPT !.at = p]
<1>3. e \in Entries /\ e.at = p
  BY <1>1 DEF RefsOK, Entries
<1>4. rq' = [rq EXCEPT ![g] = e]
  OBVIOUS
<1> HIDE DEF e
<1>5. rq' \in [0..MaxActs -> Entries] /\ rq'[g] = e /\ (\A h \in 0..MaxActs : h # g => rq'[h] = rq[h])
  BY <1>1, <1>3, <1>4 DEF RefsOK
<1>6. rq'[0].at = "gone"
  BY <1>1, <1>5, ChatAssumption DEF RefsOK
<1>7. \A h \in 0..MaxActs : h > gen => rq'[h].at = "none"
  BY <1>1, <1>2, <1>5 DEF RefsOK
<1>8. RefsOK'
  BY <1>5, <1>6, <1>7 DEF RefsOK
<1> QED
  BY <1>1, <1>3, <1>5, <1>8

LEMMA HeadersRefs ==
    ASSUME RefsOK, FlagsFollow, NEW g \in Gens, Headers(g)
    PROVE  RefsOK' /\ FlagsFollow'
<1>1. g \in 0..MaxActs /\ g # 0 /\ g \in Nat /\ gen \in 0..MaxActs
  BY GensRange, ChatAssumption DEF RefsOK
<1>2. /\ rq[g].at = "headers" /\ UNCHANGED <<gen, pend, timer, abort, cur, acts>>
  BY DEF Headers, ghosts
<1>3. CASE cur = g
  <2>1. g = gen
    BY <1>1, <1>3 DEF RefsOK
  <2>2. /\ source' = g /\ want' = [want EXCEPT !.str = TRUE]
        /\ rq' = [rq EXCEPT ![g].at = "open"]
    BY <1>3 DEF Headers
  <2>3. RefsOK' /\ rq'[g].at = "open"
    BY <1>2, <2>1, <2>2, Moved DEF RefsOK, Places
  <2>4. want' \in Flags /\ want'.str
    BY <2>2 DEF FlagsFollow, Flags
  <2> QED
    BY <1>2, <1>3, <2>1, <2>2, <2>3, <2>4 DEF FlagsFollow
<1>4. CASE cur # g
  <2>1. g # gen
    BY <1>2, <1>4 DEF FlagsFollow
  <2>2. UNCHANGED <<source, want>> /\ rq' = [rq EXCEPT ![g].at = "gone"]
    BY <1>4 DEF Headers
  <2>3. RefsOK' /\ rq'[gen] = rq[gen]
    BY <1>2, <2>1, <2>2, Moved DEF RefsOK, Places
  <2> QED
    BY <1>2, <2>2, <2>3 DEF FlagsFollow
<1> QED
  BY <1>3, <1>4

\* Finish keeps the references and leaves the buffer to the same generation.
LEMMA FinishRefs ==
    ASSUME RefsOK, NEW g, NEW op, Finish(g, op)
    PROVE  timer' \in {0, timer} /\ pend' = [g |-> gen, text |-> pend'.text]
<1>1. pend = [g |-> gen, text |-> pend.text]
  BY DEF RefsOK
<1>2. CASE g # gen
  BY <1>1, <1>2 DEF Finish
<1>3. CASE g = gen
  <2>1. timer' = 0 /\ pend' = [pend EXCEPT !.text = <<>>]
    BY <1>1, <1>3 DEF Finish
  <2> QED
    BY <1>1, <2>1
<1> QED
  BY <1>2, <1>3

LEMMA HeadersFailRefs ==
    ASSUME RefsOK, FlagsFollow, NEW g \in Gens, HeadersFail(g)
    PROVE  RefsOK' /\ FlagsFollow'
<1>1. g \in 0..MaxActs /\ g # 0 /\ g \in Nat /\ gen \in 0..MaxActs
  BY GensRange, ChatAssumption DEF RefsOK
<1>2. /\ rq[g].at = "headers" /\ rq' = [rq EXCEPT ![g].at = "gone"]
      /\ UNCHANGED <<gen, abort, cur, source, acts>>
  BY DEF HeadersFail, ghosts
<1>3. timer' \in {0, timer} /\ pend' = [g |-> gen, text |-> pend'.text]
  <2>1. CASE cur = g
    BY <2>1, FinishRefs DEF HeadersFail
  <2>2. CASE cur # g
    BY <2>2 DEF HeadersFail, RefsOK
  <2> QED
    BY <2>1, <2>2
<1>4. RefsOK' /\ rq'[g].at = "gone" /\ (g # gen => rq'[gen] = rq[gen])
  BY <1>2, <1>3, Moved DEF RefsOK, Places
<1>5. CASE cur = g
  <2>1. g = gen
    BY <1>1, <1>5 DEF RefsOK
  <2>2. want' = [want EXCEPT !.req = FALSE]
    BY <1>5, <2>1 DEF HeadersFail, ReqAfter
  <2>3. want' \in Flags /\ ~want'.req /\ ~want'.str
    BY <1>2, <2>1, <2>2 DEF FlagsFollow, Flags
  <2> QED
    BY <1>2, <1>4, <2>1, <2>3 DEF FlagsFollow
<1>6. CASE cur # g
  <2>1. g # gen
    BY <1>2, <1>6 DEF FlagsFollow
  <2>2. want' = want
    BY <1>6 DEF HeadersFail
  <2> QED
    BY <1>2, <1>4, <2>1, <2>2 DEF FlagsFollow
<1> QED
  BY <1>4, <1>5, <1>6

LEMMA DeltaRefs ==
    ASSUME RefsOK, FlagsFollow, NEW g \in Gens, Delta(g)
    PROVE  RefsOK' /\ FlagsFollow'
<1>1. g \in 0..MaxActs /\ g # 0 /\ g \in Nat /\ gen \in 0..MaxActs
  BY GensRange, ChatAssumption DEF RefsOK
<1>2. PICK m \in Ends : /\ rq[g].at = "open" /\ rq' = [rq EXCEPT ![g].n = m]
                        /\ UNCHANGED <<gen, abort, cur, source, want, acts>>
  BY DEF Delta, ghosts
<1>3. timer' \in {0, gen} /\ pend' = [g |-> gen, text |-> pend'.text]
  <2>1. pend = [g |-> gen, text |-> pend.text] /\ timer \in {0, gen}
    BY DEF RefsOK
  <2>2. CASE IsCurrent(g) /\ g = gen /\ pend.g = g
    <3>1. PICK x : pend' = [pend EXCEPT !.text = x]
      BY <2>2 DEF Delta
    <3>2. timer' = IF timer = 0 THEN g ELSE timer
      BY <2>2 DEF Delta
    <3>3. pend' = [g |-> gen, text |-> pend'.text]
      BY <2>1, <3>1
    <3> QED
      BY <2>1, <2>2, <3>2, <3>3
  <2>3. CASE ~(IsCurrent(g) /\ g = gen /\ pend.g = g)
    BY <2>1, <2>3 DEF Delta
  <2> QED
    BY <2>2, <2>3
<1> DEFINE e == [rq[g] EXCEPT !.n = m]
<1>4. e \in Entries /\ e.at = rq[g].at
  <2>1. m \in Nat
    BY ChatAssumption
  <2> QED
    BY <1>1, <2>1 DEF RefsOK, Entries
<1>5. rq' = [rq EXCEPT ![g] = e]
  BY <1>2
<1> HIDE DEF e
<1>6. rq' \in [0..MaxActs -> Entries] /\ (\A h \in 0..MaxActs : rq'[h].at = rq[h].at)
  BY <1>1, <1>4, <1>5 DEF RefsOK
<1>7. rq'[0].at = "gone" /\ rq'[gen].at = rq[gen].at
  BY <1>1, <1>6, BoundsFact DEF RefsOK
<1>8. RefsOK'
  BY <1>2, <1>3, <1>6, <1>7 DEF RefsOK
<1>9. FlagsFollow'
  BY <1>2, <1>7 DEF FlagsFollow
<1> QED
  BY <1>8, <1>9

LEMMA StreamEndRefs ==
    ASSUME RefsOK, FlagsFollow, NEW g \in Gens, NEW op, StreamEnd(g, op)
    PROVE  RefsOK' /\ FlagsFollow'
<1>1. g \in 0..MaxActs /\ g # 0 /\ g \in Nat /\ gen \in 0..MaxActs
  BY GensRange, ChatAssumption DEF RefsOK
<1>2. /\ rq[g].at = "open" /\ rq' = [rq EXCEPT ![g].at = "gone"]
      /\ UNCHANGED <<gen, abort, cur, acts>>
  BY DEF StreamEnd, ghosts
<1>3. timer' \in {0, timer} /\ pend' = [g |-> gen, text |-> pend'.text] /\ source' \in {0, gen}
  <2>1. CASE IsCurrent(g)
    BY <2>1, FinishRefs DEF StreamEnd
  <2>2. CASE ~IsCurrent(g)
    BY <2>2 DEF StreamEnd, RefsOK
  <2> QED
    BY <2>1, <2>2
<1>4. RefsOK' /\ rq'[g].at = "gone" /\ (g # gen => rq'[gen] = rq[gen])
  BY <1>2, <1>3, Moved DEF Places
<1>5. CASE IsCurrent(g)
  <2>1. g = gen
    BY <1>1, <1>5 DEF RefsOK, IsCurrent
  <2>2. want' = [req |-> FALSE, str |-> FALSE]
    BY <1>5, <2>1 DEF StreamEnd, ReqAfter
  <2>3. want' \in Flags /\ ~want'.req /\ ~want'.str
    BY <2>2 DEF Flags
  <2> QED
    BY <1>2, <1>4, <2>1, <2>3 DEF FlagsFollow
<1>6. CASE ~IsCurrent(g)
  <2>1. g # gen
    BY <1>2, <1>6 DEF FlagsFollow, IsCurrent
  <2>2. want' = want /\ source' = source
    BY <1>6 DEF StreamEnd
  <2> QED
    BY <1>2, <1>4, <2>1, <2>2 DEF FlagsFollow
<1> QED
  BY <1>4, <1>5, <1>6

LEMMA StreamEofRefs ==
    ASSUME RefsOK, FlagsFollow, NEW g \in Gens, StreamEof(g)
    PROVE  RefsOK' /\ FlagsFollow'
<1>1. /\ rq[g].at = "open" /\ rq' = [rq EXCEPT ![g].at = "eof"]
      /\ UNCHANGED <<gen, pend, timer, abort, cur, source, want, acts>>
  BY DEF StreamEof, ghosts
<1>2. RefsOK' /\ rq'[g].at = "eof" /\ (g # gen => rq'[gen] = rq[gen])
  BY <1>1, Moved DEF RefsOK, Places
<1> QED
  BY <1>1, <1>2 DEF FlagsFollow

LEMMA PostAnswerRefs ==
    ASSUME RefsOK, FlagsFollow, NEW g \in Gens, PostAnswer(g)
    PROVE  RefsOK' /\ FlagsFollow'
<1>1. g \in 0..MaxActs /\ g # 0 /\ g \in Nat /\ gen \in 0..MaxActs
  BY GensRange, ChatAssumption DEF RefsOK
<1>2. /\ rq[g].at = "post" /\ rq' = [rq EXCEPT ![g].at = "gone"]
      /\ UNCHANGED <<gen, cur, source, acts>>
  BY DEF PostAnswer, ghosts
<1>3. timer' \in {0, timer} /\ pend' = [g |-> gen, text |-> pend'.text] /\ abort' \in {0, abort}
  <2>1. CASE g # gen \/ abort # g
    BY <2>1 DEF PostAnswer, RefsOK
  <2>2. CASE g = gen /\ abort = g
    <3>1. abort' = 0 /\ (UNCHANGED <<pend, timer>> \/ Finish(g, "error"))
      BY <2>2 DEF PostAnswer
    <3> QED
      BY <3>1, FinishRefs DEF RefsOK
  <2> QED
    BY <2>1, <2>2
<1>4. RefsOK' /\ rq'[g].at = "gone" /\ (g # gen => rq'[gen] = rq[gen])
  BY <1>2, <1>3, Moved DEF RefsOK, Places
<1>5. CASE g = gen /\ abort = g
  <2>1. want' = [want EXCEPT !.req = FALSE]
    BY <1>5 DEF PostAnswer
  <2>2. want' \in Flags /\ ~want'.req /\ ~want'.str
    BY <1>2, <1>5, <2>1 DEF FlagsFollow, Flags
  <2> QED
    BY <1>2, <1>4, <1>5, <2>2 DEF FlagsFollow
<1>6. CASE g # gen \/ abort # g
  <2>1. g # gen
    BY <1>2, <1>6 DEF FlagsFollow
  <2>2. want' = want /\ abort' = abort
    BY <1>6 DEF PostAnswer
  <2> QED
    BY <1>2, <1>4, <2>1, <2>2 DEF FlagsFollow
<1> QED
  BY <1>4, <1>5, <1>6

\* A request begins.
LEMMA SendChatRefs ==
    ASSUME RefsOK, NEW list, SendChat(list), acts' = acts
    PROVE  RefsOK' /\ FlagsFollow'
<1> DEFINE n == gen + 1
<1>1. n \in 0..MaxActs /\ n \in Nat /\ n # 0 /\ n <= MaxActs
  BY RoomForOne DEF SendChat
<1>2. /\ gen' = n /\ pend' = [g |-> n, text |-> <<>>] /\ timer' = 0 /\ source' = 0
      /\ want' = [req |-> TRUE, str |-> FALSE]
  BY DEF SendChat, Discard
<1>3. \/ abort' = 0 /\ cur' = n /\ rq' = [rq EXCEPT ![n].at = "headers"]
      \/ abort' = n /\ cur' = 0 /\ rq' = [rq EXCEPT ![n].at = "post"]
  BY DEF SendChat
<1>4. PICK p \in {"headers", "post"} : /\ rq' = [rq EXCEPT ![n].at = p]
                                       /\ p = "headers" => cur' = n
                                       /\ p = "post" => abort' = n
  BY <1>3
<1> DEFINE e == [rq[n] EXCEPT !.at = p]
<1>5. e \in Entries /\ e.at = p
  BY <1>1 DEF RefsOK, Entries, Places
<1>6. rq' = [rq EXCEPT ![n] = e]
  BY <1>4
<1> HIDE DEF e
<1>7. /\ rq' \in [0..MaxActs -> Entries] /\ rq'[n].at = p
      /\ \A h \in 0..MaxActs : h # n => rq'[h] = rq[h]
  BY <1>1, <1>5, <1>6 DEF RefsOK
<1>8. rq'[0].at = "gone" /\ \A h \in 0..MaxActs : h > n => rq'[h].at = "none"
  <2>1. MaxActs \in Nat /\ 0 \in 0..MaxActs
    BY ChatAssumption
  <2> QED
    BY <1>1, <1>7, <2>1 DEF RefsOK
<1>9. acts' \in Nat /\ abort' \in {0, n} /\ cur' \in {0, n}
  BY <1>3 DEF RefsOK
<1>10. RefsOK'
  BY <1>1, <1>2, <1>7, <1>8, <1>9 DEF RefsOK
<1>11. want' \in Flags /\ want'.req /\ ~want'.str
  BY <1>2 DEF Flags
<1>12. FlagsFollow'
  BY <1>2, <1>4, <1>7, <1>11 DEF FlagsFollow
<1> QED
  BY <1>10, <1>12

\* A generation begins without a request: a stop or a page change.
LEMMA QuietRefs ==
    ASSUME RefsOK, Bounded, acts' = acts,
           gen' = gen + 1, pend' = [g |-> gen + 1, text |-> <<>>], timer' = 0,
           cur' = 0, source' = 0, abort' = 0, want' = Quiet,
           rq' \in [0..MaxActs -> Entries], rq'[0].at = "gone",
           \A h \in 0..MaxActs : rq[h].at = "none" => rq'[h].at = "none"
    PROVE  RefsOK' /\ FlagsFollow'
<1> DEFINE n == gen + 1
<1>1. n \in 0..MaxActs /\ n \in Nat /\ n # 0 /\ n <= MaxActs /\ n > gen
  BY RoomForOne DEF RefsOK
<1>2. rq'[n].at = "none" /\ \A h \in 0..MaxActs : h > n => rq'[h].at = "none"
  BY <1>1 DEF RefsOK
<1>3. RefsOK'
  BY <1>1, <1>2 DEF RefsOK
<1>4. want' \in Flags /\ ~want'.req /\ ~want'.str
  BY DEF Quiet, Flags
<1>5. FlagsFollow'
  BY <1>2, <1>4 DEF FlagsFollow
<1> QED
  BY <1>3, <1>5
-----------------------------------------------------------------------------
(* Every step keeps the invariant. *)

\* Actions that leave the references, the requests and the flags alone.
LEMMA RefsKept ==
    ASSUME RefsOK, FlagsFollow, UNCHANGED <<refs, want>>, acts' \in Nat
    PROVE  RefsOK' /\ FlagsFollow'
BY DEF RefsOK, FlagsFollow, refs

LEMMA StoreKept ==
    ASSUME StoreOK, UNCHANGED <<msgs, uq, stored, dirty, unsaved>>
    PROVE  StoreOK'
BY DEF StoreOK, Latest, Trim, LastOf

LEMMA MountKeeps ==
    ASSUME IInv, NEW kept, Mount(kept),
           rq' \in [0..MaxActs -> Entries], rq'[0].at = "gone",
           \A h \in 0..MaxActs : rq[h].at = "none" => rq'[h].at = "none"
    PROVE  IInv'
<1>1. RefsOK' /\ FlagsFollow'
  BY QuietRefs DEF IInv, Mount
<1>2. uq' = <<>> /\ dirty' = FALSE /\ (~unsaved' => stored' = Trim(msgs)')
  BY DEF Mount, Trim, LastOf
<1>3. <<>> \in Seq({})
  OBVIOUS
<1>4. StoreOK'
  BY <1>2, <1>3 DEF StoreOK, Grows, IsSeq, Eager, Latest, Trim, LastOf
<1> QED
  BY <1>1, <1>4 DEF IInv

LEMMA StepOfPage ==
    ASSUME IInv, Render \/ FlushTimer \/ SaveTimer \/ Leave \/ LeaveUnsaved \/ Reload
    PROVE  IInv'
<1> USE DEF IInv
<1>1. CASE Render
  <2>1. UNCHANGED <<refs, want>> /\ acts' \in Nat
    BY <1>1 DEF Render, ghosts, RefsOK
  <2> QED
    BY <1>1, <2>1, RefsKept, RenderStores
<1>2. CASE FlushTimer
  <2>1. UNCHANGED <<gen, abort, cur, source, rq, want, acts, msgs, stored, unsaved>>
    BY <1>2 DEF FlushTimer, ghosts, view
  <2>2. CASE timer # gen
    <3>1. UNCHANGED <<pend, timer, uq, dirty>>
      BY <1>2, <2>2 DEF FlushTimer
    <3> QED
      BY <2>1, <3>1, StoreKept DEF RefsOK, FlagsFollow
  <2>3. CASE timer = gen
    <3>1. timer' = 0 /\ Queued(Flushed({uq}))
      BY <1>2, <2>3 DEF FlushTimer
    <3>2. pend' = IF pend.g = gen THEN [pend EXCEPT !.text = <<>>] ELSE pend
      BY <1>2, <2>3 DEF FlushTimer
    <3>3. pend' = [g |-> gen, text |-> pend'.text]
      <4>1. pend = [g |-> gen, text |-> pend.text]
        BY DEF RefsOK
      <4> QED
        BY <3>2, <4>1
    <3>4. RefsOK' /\ FlagsFollow'
      BY <2>1, <3>1, <3>3 DEF RefsOK, FlagsFollow
    <3>5. \A q \in Flushed({uq}) : Grows(uq, q)
      BY Self, FlushedGrows
    <3> QED
      BY <2>1, <3>1, <3>4, <3>5, QueuedStores
  <2> QED
    BY <2>2, <2>3
<1>3. CASE SaveTimer
  <2>1. UNCHANGED <<refs, want>> /\ acts' \in Nat /\ UNCHANGED <<msgs, uq>>
    BY <1>3 DEF SaveTimer, view, RefsOK
  <2>2. (~unsaved' => stored' = Trim(Latest)) /\ dirty' = FALSE
    BY <1>3 DEF SaveTimer
  <2>3. StoreOK'
    BY <2>1, <2>2 DEF StoreOK, Latest, Trim, LastOf
  <2> QED
    BY <2>1, <2>3, RefsKept
<1>4. CASE Leave \/ LeaveUnsaved
  <2>1. PICK kept : Mount(kept)
    BY <1>4 DEF Leave, LeaveUnsaved
  <2>2. rq' = rq
    BY <1>4 DEF Leave, LeaveUnsaved
  <2> QED
    BY <2>1, <2>2, MountKeeps DEF RefsOK
<1>5. CASE Reload
  <2>1. Mount(stored)
    BY <1>5 DEF Reload
  <2>2. rq' = [g \in 0..MaxActs |-> IF rq[g].at = "none" THEN rq[g] ELSE [rq[g] EXCEPT !.at = "gone"]]
    BY <1>5 DEF Reload
  <2>3. \A g \in 0..MaxActs : rq'[g] \in Entries /\ (rq[g].at = "none" => rq'[g] = rq[g])
                              /\ (rq[g].at # "none" => rq'[g].at = "gone")
    BY <2>2 DEF RefsOK, Entries, Places
  <2>4. rq' \in [0..MaxActs -> Entries] /\ rq'[0].at = "gone"
    BY <2>2, <2>3, ChatAssumption DEF RefsOK
  <2> QED
    BY <2>1, <2>3, <2>4, MountKeeps
<1> QED
  BY <1>1, <1>2, <1>3, <1>4, <1>5

LEMMA StepOfUser ==
    ASSUME IInv,
           \/ StopGeneration \/ Send \/ Clear \/ EditCancel \/ EditSave \/ EditSubmit
           \/ \E i \in DOMAIN msgs : Regenerate(i) \/ Delete(i) \/ EditOpen(i)
    PROVE  IInv'
<1> USE DEF IInv
<1>1. ASSUME NEW list, SendChat(list), acts' = acts PROVE IInv'
  <2>1. StoreOK'
    BY <1>1, UserUpdateStores DEF SendChat
  <2> QED
    BY <1>1, <2>1, SendChatRefs
<1>2. ASSUME NEW qs, UserUpdate(qs), UNCHANGED <<refs, want>>, acts' \in Nat PROVE IInv'
  BY <1>2, RefsKept, UserUpdateStores
<1>3. ASSUME Touch PROVE acts' \in Nat
  BY <1>3 DEF Touch, RefsOK
<1>4. CASE StopGeneration
  <2>1. /\ Bounded /\ gen' = gen + 1 /\ Discard(gen + 1) /\ cur' = 0 /\ source' = 0 /\ abort' = 0
        /\ want' = Quiet /\ UNCHANGED <<rq, acts>>
    BY <1>4 DEF StopGeneration
  <2>2. RefsOK' /\ FlagsFollow'
    BY <2>1, QuietRefs DEF Discard, RefsOK
  <2>3. StoreOK'
    BY <1>4, UserUpdateStores DEF StopGeneration
  <2> QED
    BY <2>2, <2>3
<1>5. CASE Send
  BY <1>1, <1>5 DEF Send, ghosts
<1>6. CASE Clear
  BY <1>2, <1>3, <1>6 DEF Clear
<1>7. CASE EditCancel
  <2>1. UNCHANGED <<refs, want>> /\ UNCHANGED <<msgs, uq, stored, dirty, unsaved>> /\ acts' \in Nat
    BY <1>7 DEF EditCancel, view, disk, ghosts, RefsOK
  <2> QED
    BY <2>1, RefsKept, StoreKept
<1>8. CASE EditSave
  BY <1>2, <1>3, <1>8 DEF EditSave
<1>9. CASE EditSubmit
  BY <1>1, <1>9 DEF EditSubmit
<1>10. ASSUME NEW i \in DOMAIN msgs, Regenerate(i) PROVE IInv'
  BY <1>1, <1>10 DEF Regenerate, ghosts
<1>11. ASSUME NEW i \in DOMAIN msgs, Delete(i) PROVE IInv'
  BY <1>2, <1>3, <1>11 DEF Delete
<1>12. ASSUME NEW i \in DOMAIN msgs, EditOpen(i) PROVE IInv'
  <2>1. UNCHANGED <<refs, want>> /\ UNCHANGED <<msgs, uq, stored, dirty, unsaved>> /\ acts' \in Nat
    BY <1>12 DEF EditOpen, view, disk, ghosts, RefsOK
  <2> QED
    BY <2>1, RefsKept, StoreKept
<1> QED
  BY <1>4, <1>5, <1>6, <1>7, <1>8, <1>9, <1>10, <1>11, <1>12

LEMMA StepOfRequest ==
    ASSUME IInv, NEW g \in Gens,
           \/ Headers(g) \/ HeadersFail(g) \/ Delta(g)
           \/ StreamEnd(g, "complete") \/ StreamEnd(g, "error") \/ StreamEof(g)
           \/ PostAnswer(g)
    PROVE  IInv'
<1> USE DEF IInv
<1>1. CASE Headers(g)
  <2>1. UNCHANGED <<msgs, uq, stored, dirty, unsaved>>
    BY <1>1 DEF Headers, view, disk, ghosts
  <2> QED
    BY <1>1, <2>1, HeadersRefs, StoreKept
<1>2. CASE HeadersFail(g)
  <2>1. UNCHANGED <<msgs, stored, unsaved>> /\ (Finish(g, "error") \/ UNCHANGED <<uq, dirty>>)
    BY <1>2 DEF HeadersFail, view, ghosts
  <2>2. StoreOK'
    BY <2>1, FinishStores, StoreKept
  <2> QED
    BY <1>2, <2>2, HeadersFailRefs
<1>3. CASE Delta(g)
  <2>1. UNCHANGED <<msgs, uq, stored, dirty, unsaved>>
    BY <1>3 DEF Delta, view, disk, ghosts
  <2> QED
    BY <1>3, <2>1, DeltaRefs, StoreKept
<1>4. ASSUME NEW op \in {"complete", "error"}, StreamEnd(g, op) PROVE IInv'
  <2>1. UNCHANGED <<msgs, stored, unsaved>> /\ (Finish(g, op) \/ UNCHANGED <<uq, dirty>>)
    BY <1>4 DEF StreamEnd, view, ghosts
  <2>2. StoreOK'
    BY <2>1, FinishStores, StoreKept
  <2> QED
    BY <1>4, <2>2, StreamEndRefs
<1>5. CASE StreamEof(g)
  <2>1. UNCHANGED <<msgs, uq, stored, dirty, unsaved>>
    BY <1>5 DEF StreamEof, view, disk, ghosts
  <2> QED
    BY <1>5, <2>1, StreamEofRefs, StoreKept
<1>6. CASE PostAnswer(g)
  <2> DEFINE o == [Op("answer", g) EXCEPT !.text = Reply]
  <2>1. UNCHANGED <<msgs, stored, unsaved>>
    BY <1>6 DEF PostAnswer, view, ghosts
  <2>2. UNCHANGED <<uq, dirty>> \/ Finish(g, "error") \/ Queued(Enqueue({uq}, o, gen))
    BY <1>6 DEF PostAnswer
  <2>3. o.op # "replace"
    BY DEF Op
  <2> HIDE DEF o
  <2>4. \A q \in Enqueue({uq}, o, gen) : Grows(uq, q)
    BY <2>3, Self, EnqueueGrows
  <2>5. StoreOK'
    BY <2>1, <2>2, <2>4, FinishStores, StoreKept, QueuedStores
  <2> QED
    BY <1>6, <2>5, PostAnswerRefs
<1> QED
  BY <1>1, <1>2, <1>3, <1>4, <1>5, <1>6

LEMMA Inductive ==
    IInv /\ [CNext]_cvars => IInv'
<1> SUFFICES ASSUME IInv, [CNext]_cvars PROVE IInv'
  OBVIOUS
<1>1. CASE CNext
  BY <1>1, StepOfPage, StepOfUser, StepOfRequest DEF CNext
<1>2. CASE UNCHANGED cvars
  <2>1. UNCHANGED <<refs, want, acts>> /\ UNCHANGED <<msgs, uq, stored, dirty, unsaved>>
    BY <1>2 DEF cvars, view, disk, ghosts
  <2>2. acts' \in Nat
    BY <2>1 DEF IInv, RefsOK
  <2> QED
    BY <2>1, <2>2, RefsKept, StoreKept DEF IInv
<1> QED
  BY <1>1, <1>2

\* The references, the flags and the stored list always fit each other, for
\* any number of requests, stops, page changes and edits.
THEOREM AlwaysIInv == CSpec => []IInv
<1> QED
  BY Initial, Inductive, PTL DEF CSpec

\* isRequesting and isStreaming say that something is generated exactly while
\* the current request of useChatHandler has not ended: whatever late events
\* of earlier requests, stops, failures and page changes come in between.
THEOREM AlwaysGeneratingExactly == CSpec => []GeneratingExactly
<1>1. IInv => GeneratingExactly
  <2> SUFFICES ASSUME IInv PROVE GeneratingExactly
    OBVIOUS
  <2>1. gen \in 0..MaxActs
    BY ChatAssumption DEF IInv, RefsOK
  <2>2. rq[gen].at \in Places
    BY <2>1 DEF IInv, RefsOK, Entries
  <2> QED
    BY <2>2 DEF IInv, FlagsFollow, GeneratingExactly, Places
<1> QED
  BY <1>1, AlwaysIInv, PTL

\* No update of the messages escapes persistMessages of usePlaygroundState:
\* without a save that is due and without queued updates, localStorage holds the
\* newest MAX_STORED_MESSAGES messages that the page shows, unless the browser
\* refused the last save or could not read it back, for queues and conversations
\* of any length and whatever a load rewrites.
THEOREM AlwaysStoredMatches == CSpec => []StoredMatches
<1>1. IInv => StoredMatches
  BY DEF IInv, StoreOK, StoredMatches, Latest, Eager
<1> QED
  BY <1>1, AlwaysIInv, PTL

-----------------------------------------------------------------------------
(* Folds.  A property of every subset of 1..n, or of every number up to n, is *)
(* shown by looking at a smallest one without it.                             *)

Smaller(u, s) == u \subseteq s /\ u # s

\* Strict inclusion of the subsets of 1..n is well founded.
LEMMA SmallestSubset ==
    ASSUME NEW n \in Nat, NEW T, T \subseteq SUBSET (1..n), T # {}
    PROVE  \E s \in T : \A u \in T : ~Smaller(u, s)
<1> DEFINE S == 1..n
<1>0. IsFiniteSet(S)
  BY FS_Interval
<1> HIDE DEF S
<1>1. IsWellFoundedOn(StrictSubsetOrdering(S), SUBSET S)
  BY <1>0, FS_FiniteSubsetsOfFinite, FS_StrictSubsetOrderingWellFounded
<1>2. PICK s \in T : \A u \in T : ~(<<u, s>> \in StrictSubsetOrdering(S))
  BY <1>1, WFMin DEF S
<1>3. \A u \in T : Smaller(u, s) => <<u, s>> \in StrictSubsetOrdering(S)
  BY DEF StrictSubsetOrdering, Smaller, S
<1> QED
  BY <1>2, <1>3

\* So are the natural numbers.
LEMMA SmallestNumber ==
    ASSUME NEW T, T \subseteq Nat, T # {}
    PROVE  \E m \in T : \A k \in T : m <= k
<1>1. PICK m \in T : \A k \in T : ~(<<k, m>> \in OpToRel(<, Nat))
  BY NatLessThanWellFounded, WFMin
<1>2. \A k \in T : k < m => <<k, m>> \in OpToRel(<, Nat)
  BY DEF OpToRel
<1>3. \A k \in T : ~(k < m)
  BY <1>1, <1>2
<1> QED
  BY <1>3

\* The minimum of a set of numbers is one of them.
LEMMA MinFact ==
    ASSUME NEW T, T \subseteq Nat, T # {}
    PROVE  Min(T) \in T
<1>1. \E x \in T : \A y \in T : x <= y
  BY SmallestNumber
<1> QED
  BY <1>1 DEF Min

\* What holds at 0 and is kept by each step holds up to n.
LEMMA UpTo ==
    ASSUME NEW n \in Nat, NEW H, 0 \in H, \A k \in 1..n : k - 1 \in H => k \in H
    PROVE  \A k \in 0..n : k \in H
<1> DEFINE T == {k \in 0..n : k \notin H}
<1> SUFFICES ASSUME T # {} PROVE FALSE
  OBVIOUS
<1>0. T \subseteq Nat
  OBVIOUS
<1> HIDE DEF T
<1>1. PICK m \in T : \A k \in T : m <= k
  BY <1>0, SmallestNumber
<1> USE DEF T
<1>2. m \in 1..n /\ m - 1 \in 0..n /\ ~(m <= m - 1)
  OBVIOUS
<1>3. m - 1 \in H
  BY <1>1, <1>2
<1> QED
  BY <1>2, <1>3

\* The maximum of a set of indices is its greatest member.
LEMMA MaxFact ==
    ASSUME NEW n \in Nat, NEW s, s \subseteq 1..n, s # {}
    PROVE  Max(s) \in s /\ \A y \in s : Max(s) >= y
<1> DEFINE T == {k \in Nat : \E x \in s : k = n - x}
<1>1. PICK x \in s : TRUE
  OBVIOUS
<1>2. n - x \in T
  BY <1>1
<1>3. PICK m \in T : \A k \in T : m <= k
  BY <1>2, SmallestNumber
<1>4. PICK z \in s : m = n - z
  BY <1>3
<1>5. \A y \in s : n - y \in T
  OBVIOUS
<1>6. \A y \in s : z >= y
  <2> TAKE y \in s
  <2>1. m <= n - y
    BY <1>3, <1>5
  <2> QED
    BY <1>4, <2>1
<1> QED
  BY <1>4, <1>6 DEF Max

\* The maximum of 1..n is n.
LEMMA MaxOfPrefix ==
    ASSUME NEW n \in Nat, NEW k \in 1..n
    PROVE  Max(1..k) = k /\ (1..k) \ {k} = 1..(k - 1) /\ 1..k # {}
<1>1. k \in 1..k /\ 1..k \subseteq 1..n
  OBVIOUS
<1>2. Max(1..k) \in 1..k /\ Max(1..k) >= k
  BY <1>1, MaxFact
<1> QED
  BY <1>1, <1>2

\* The functions for a subset of the steps are the same on it.
IterOn(f, b, S, it) ==
    it = [s \in SUBSET S |-> IF s = {} THEN b ELSE f[Max(s)][it[s \ {Max(s)}]]]

Within(S, n) == S \subseteq 1..n

\* Two iterations agree on the sets both are defined on.
LEMMA IterAgree ==
    ASSUME NEW f, NEW b, NEW n \in Nat, NEW S, Within(S, n), NEW T, T \subseteq S,
           NEW p, NEW q, IterOn(f, b, S, p), IterOn(f, b, T, q)
    PROVE  p[T] = q[T]
<1> DEFINE D == {s \in SUBSET T : p[s] # q[s]}
<1> SUFFICES ASSUME D # {} PROVE FALSE
  OBVIOUS
<1>0. S \subseteq 1..n
  BY DEF Within
<1>1. D \subseteq SUBSET (1..n)
  BY <1>0
<1> HIDE DEF D
<1>2. PICK s \in D : \A u \in D : ~Smaller(u, s)
  BY <1>1, SmallestSubset
<1>3. s \in SUBSET T /\ s \in SUBSET S /\ s \subseteq 1..n /\ p[s] # q[s]
  BY <1>0 DEF D
<1>p. p = [v \in SUBSET S |-> IF v = {} THEN b ELSE f[Max(v)][p[v \ {Max(v)}]]]
  BY DEF IterOn
<1>q. q = [v \in SUBSET T |-> IF v = {} THEN b ELSE f[Max(v)][q[v \ {Max(v)}]]]
  BY DEF IterOn
<1>4. s # {}
  BY <1>3, <1>p, <1>q
<1> DEFINE u == s \ {Max(s)}
<1>5. u \in SUBSET T /\ u \subseteq s /\ u # s
  BY <1>3, <1>4, MaxFact
<1>6. p[u] = q[u]
  BY <1>2, <1>5 DEF Smaller, D
<1>7. p[s] = f[Max(s)][p[u]]
  BY <1>3, <1>4, <1>p
<1>8. q[s] = f[Max(s)][q[u]]
  BY <1>3, <1>4, <1>q
<1> QED
  BY <1>3, <1>6, <1>7, <1>8

\* An iteration extends to a set from its parts.
LEMMA IterStep ==
    ASSUME NEW f, NEW b, NEW n \in Nat, NEW u, Within(u, n), u # {}, NEW w, w = u \ {Max(u)},
           NEW e, NEW d, IterOn(f, b, u, e), IterOn(f, b, w, d)
    PROVE  e[u] = f[Max(u)][d[w]]
<1>1. w \subseteq u
  OBVIOUS
<1>2. e[w] = d[w]
  BY <1>1, IterAgree
<1>3. e = [v \in SUBSET u |-> IF v = {} THEN b ELSE f[Max(v)][e[v \ {Max(v)}]]]
  BY DEF IterOn
<1> QED
  BY <1>2, <1>3

\* There is an iteration over the indices of every finite sequence.
LEMMA IterExists ==
    ASSUME NEW f, NEW b, NEW n \in Nat
    PROVE  \E it : IterOn(f, b, 1..n, it)
<1> DEFINE Has(T) == \E it : IterOn(f, b, T, it)
           D == {T \in SUBSET (1..n) : ~Has(T)}
<1> SUFFICES ASSUME D # {} PROVE FALSE
  OBVIOUS
<1>0. D \subseteq SUBSET (1..n)
  OBVIOUS
<1> HIDE DEF D
<1>1. PICK T \in D : \A u \in D : ~Smaller(u, T)
  BY <1>0, SmallestSubset
<1>2. T \in SUBSET (1..n) /\ ~Has(T)
  BY DEF D
<1>3. \A u \in SUBSET T : u # T => Has(u)
  BY <1>1, <1>2 DEF Smaller, D
<1>x. PICK fun : fun = [u \in SUBSET T |-> CHOOSE it : IterOn(f, b, u, it)]
  OBVIOUS
<1>4. \A u \in SUBSET T : u # T => IterOn(f, b, u, fun[u])
  BY <1>3, <1>x
<1>s. ASSUME NEW s \in SUBSET T, s # {}
      PROVE  /\ s \ {Max(s)} \in SUBSET T /\ s \ {Max(s)} # T /\ Within(s, n)
  BY <1>2, <1>s, MaxFact DEF Within
<1> DEFINE h == [s \in SUBSET T |-> IF s = {} THEN b
                                    ELSE f[Max(s)][fun[s \ {Max(s)}][s \ {Max(s)}]]]
<1>5. ASSUME NEW u \in SUBSET T, u # T PROVE h[u] = fun[u][u]
  <2>1. IterOn(f, b, u, fun[u])
    BY <1>4, <1>5
  <2>2. CASE u = {}
    <3>1. fun[u] = [v \in SUBSET u |-> IF v = {} THEN b ELSE f[Max(v)][fun[u][v \ {Max(v)}]]]
      BY <2>1 DEF IterOn
    <3>2. fun[u][u] = b
      BY <2>2, <3>1
    <3> QED
      BY <2>2, <3>2
  <2>3. CASE u # {}
    <3>1. PICK w : w = u \ {Max(u)}
      OBVIOUS
    <3>2. w \in SUBSET T /\ w # T /\ Within(u, n)
      BY <1>s, <2>3, <3>1
    <3>3. IterOn(f, b, w, fun[w])
      BY <1>4, <3>2
    <3>4. fun[u][u] = f[Max(u)][fun[w][w]]
      BY <2>1, <2>3, <3>1, <3>2, <3>3, IterStep
    <3> QED
      BY <2>3, <3>1, <3>4
  <2> QED
    BY <2>2, <2>3
<1>6. \A s \in SUBSET T : s # {} => h[s \ {Max(s)}] = fun[s \ {Max(s)}][s \ {Max(s)}]
  BY <1>s, <1>5
<1>7. IterOn(f, b, T, h)
  <2>1. \A s \in SUBSET T : h[s] = IF s = {} THEN b ELSE f[Max(s)][h[s \ {Max(s)}]]
    BY <1>6
  <2>2. h = [s \in SUBSET T |-> h[s]]
    OBVIOUS
  <2> HIDE DEF h
  <2> QED
    BY <2>1, <2>2 DEF IterOn
<1> QED
  BY <1>2, <1>7

\* With steps from L to L every value of such a function is in L.
LEMMA IterTyped ==
    ASSUME NEW n \in Nat, NEW L, NEW f \in [1..n -> [L -> L]], NEW b \in L,
           NEW it, IterOn(f, b, 1..n, it)
    PROVE  \A s \in SUBSET (1..n) : it[s] \in L
<1> DEFINE D == {s \in SUBSET (1..n) : it[s] \notin L}
<1> SUFFICES ASSUME D # {} PROVE FALSE
  OBVIOUS
<1>1. D \subseteq SUBSET (1..n)
  OBVIOUS
<1> HIDE DEF D
<1>2. PICK s \in D : \A u \in D : ~Smaller(u, s)
  BY <1>1, SmallestSubset
<1>3. s \in SUBSET (1..n) /\ it[s] \notin L
  BY DEF D
<1>4. it = [v \in SUBSET (1..n) |-> IF v = {} THEN b ELSE f[Max(v)][it[v \ {Max(v)}]]]
  BY DEF IterOn
<1>5. s # {} /\ it[s] = f[Max(s)][it[s \ {Max(s)}]]
  BY <1>3, <1>4
<1>6. Max(s) \in s /\ Max(s) \in 1..n
  BY <1>3, <1>5, MaxFact
<1>7. it[s \ {Max(s)}] \in L
  <2>1. PICK u : u = s \ {Max(s)}
    OBVIOUS
  <2>2. Smaller(u, s) /\ u \in SUBSET (1..n)
    BY <1>3, <1>6, <2>1 DEF Smaller
  <2>3. u \notin D
    BY <1>2, <2>2
  <2> QED
    BY <2>1, <2>2, <2>3 DEF D
<1> QED
  BY <1>3, <1>5, <1>6, <1>7

\* The updates of q make lists of L of lists of L.
StepsIn(q, g, L) == \A i \in 1..Len(q) : \A l \in L : Eval(q[i], l, g) \in L

\* The lists on the way from b through the updates of q.
PathOf(p, q, b, g, L) ==
    /\ p \in [0..Len(q) -> L]
    /\ p[0] = b
    /\ \A k \in 1..Len(q) : p[k] = Eval(q[k], p[k - 1], g)
    /\ Rendered(b, q, g) = p[Len(q)]

\* A render goes through the queue one update at a time.
LEMMA RenderedPath ==
    ASSUME NEW q, IsSeq(q), NEW g, NEW L, NEW b \in L, StepsIn(q, g, L)
    PROVE  \E p : PathOf(p, q, b, g, L)
<1>0. PICK n : n = Len(q)
  OBVIOUS
<1>s. PICK S : q \in Seq(S)
  BY DEF IsSeq
<1>1. n \in Nat /\ DOMAIN q = 1..n
  BY <1>0, <1>s
<1>2. PICK f : f = [i \in 1..n |-> [l \in L |-> Eval(q[i], l, g)]]
  OBVIOUS
<1>3. f \in [1..n -> [L -> L]]
  BY <1>0, <1>2 DEF StepsIn
<1>4. PICK it : IterOn(f, b, 1..n, it)
  BY <1>1, IterExists
<1>5. \A s \in SUBSET (1..n) : it[s] \in L
  BY <1>1, <1>3, <1>4, IterTyped
<1>6. it = [s \in SUBSET (1..n) |-> IF s = {} THEN b ELSE f[Max(s)][it[s \ {Max(s)}]]]
  BY <1>4 DEF IterOn
<1>7. ASSUME NEW s \in SUBSET (1..n), s # {}
      PROVE  f[Max(s)][it[s \ {Max(s)}]] = Eval(q[Max(s)], it[s \ {Max(s)}], g)
  <2>1. Max(s) \in 1..n
    BY <1>1, <1>7, MaxFact
  <2>2. s \ {Max(s)} \in SUBSET (1..n)
    OBVIOUS
  <2>3. it[s \ {Max(s)}] \in L
    BY <1>5, <2>2
  <2> QED
    BY <1>2, <2>1, <2>3
<1>8. it = [s \in SUBSET DOMAIN q |->
              IF s = {} THEN b ELSE Eval(q[Max(s)], it[s \ {Max(s)}], g)]
  BY <1>1, <1>6, <1>7
<1>9. PICK iter : /\ Folds(q, b, g, iter)
                  /\ Rendered(b, q, g) = iter[DOMAIN q]
  <2>1. Folds(q, b, g, it)
    BY <1>8 DEF Folds
  <2> QED
    BY <2>1, FoldUnfolds
<1>10. iter = [s \in SUBSET (1..n) |->
                 IF s = {} THEN b ELSE Eval(q[Max(s)], iter[s \ {Max(s)}], g)]
  BY <1>1, <1>9 DEF Folds
<1>11. PICK p : p = [k \in 0..n |-> iter[1..k]]
  OBVIOUS
<1>12. p[0] = b
  <2>1. 1..0 = {} /\ 0 \in 0..n
    BY <1>1
  <2>2. iter[{}] = b
    BY <1>10
  <2> QED
    BY <1>11, <2>1, <2>2
<1>13. ASSUME NEW k \in 1..n PROVE p[k] = Eval(q[k], p[k - 1], g)
  <2>1. Max(1..k) = k /\ (1..k) \ {k} = 1..(k - 1) /\ 1..k # {}
    BY <1>1, MaxOfPrefix
  <2>2. 1..k \in SUBSET (1..n) /\ k \in 0..n /\ k - 1 \in 0..n
    BY <1>1
  <2>3. iter[1..k] = Eval(q[Max(1..k)], iter[(1..k) \ {Max(1..k)}], g)
    BY <1>10, <2>1, <2>2
  <2>4. iter[1..k] = Eval(q[k], iter[1..(k - 1)], g)
    BY <2>1, <2>3
  <2> QED
    BY <1>11, <2>2, <2>4
<1>14. p[n] = Rendered(b, q, g)
  BY <1>1, <1>9, <1>11
<1>15. \A k \in 0..n : p[k] \in L
  <2> DEFINE H == {k \in 0..n : p[k] \in L}
  <2>1. 0 \in H
    BY <1>1, <1>12
  <2>2. \A k \in 1..n : k - 1 \in H => k \in H
    BY <1>0, <1>1, <1>13 DEF StepsIn
  <2> HIDE DEF H
  <2>3. \A k \in 0..n : k \in H
    BY <1>1, <2>1, <2>2, UpTo
  <2> QED
    BY <2>3 DEF H
<1>16. p \in [0..n -> L]
  BY <1>11, <1>15
<1> QED
  BY <1>0, <1>12, <1>13, <1>14, <1>16 DEF PathOf

\* The recursive function by which deleteMessage goes through the list.
Sifts(list, key, iter) ==
    iter = [s \in SUBSET DOMAIN list |->
              IF s = {} THEN <<>>
              ELSE IF Key(list[Max(s)]) = key THEN iter[s \ {Max(s)}]
              ELSE Append(iter[s \ {Max(s)}], list[Max(s)])]

\* The fold of Deleted, unfolded.
LEMMA SiftUnfolds ==
    ASSUME NEW list, NEW key, \E iter : Sifts(list, key, iter)
    PROVE  \E iter : /\ Sifts(list, key, iter)
                     /\ Deleted(list, key) = iter[DOMAIN list]
<1> DEFINE f == CHOOSE iter : Sifts(list, key, iter)
<1>1. Sifts(list, key, f)
  OBVIOUS
<1>2. Deleted(list, key) = f[DOMAIN list]
  BY DEF Deleted, FoldLeft, MapThenFoldSet, Sifts
<1> QED
  BY <1>1, <1>2

\* Deleted goes through the list one message after the other.
LEMMA DeletedPath ==
    ASSUME NEW M, NEW list \in Seq(M), NEW key
    PROVE  \E p \in [0..Len(list) -> Seq(M)] :
              /\ p[0] = <<>>
              /\ \A k \in 1..Len(list) :
                    p[k] = IF Key(list[k]) = key THEN p[k - 1] ELSE Append(p[k - 1], list[k])
              /\ Deleted(list, key) = p[Len(list)]
<1>0. PICK n, L : n = Len(list) /\ L = Seq(M)
  OBVIOUS
<1>1. n \in Nat /\ DOMAIN list = 1..n /\ <<>> \in L
  BY <1>0
<1>2. PICK f : f = [i \in 1..n |-> [l \in L |-> IF Key(list[i]) = key THEN l ELSE Append(l, list[i])]]
  OBVIOUS
<1>3. f \in [1..n -> [L -> L]]
  <2>1. ASSUME NEW i \in 1..n, NEW l \in L PROVE Append(l, list[i]) \in L
    BY <1>0
  <2> QED
    BY <1>2, <2>1
<1>4. PICK it : IterOn(f, <<>>, 1..n, it)
  BY <1>1, IterExists
<1>5. \A s \in SUBSET (1..n) : it[s] \in L
  BY <1>1, <1>3, <1>4, IterTyped
<1>6. it = [s \in SUBSET (1..n) |-> IF s = {} THEN <<>> ELSE f[Max(s)][it[s \ {Max(s)}]]]
  BY <1>4 DEF IterOn
<1>7. ASSUME NEW s \in SUBSET (1..n), s # {}
      PROVE  f[Max(s)][it[s \ {Max(s)}]] =
                IF Key(list[Max(s)]) = key THEN it[s \ {Max(s)}]
                ELSE Append(it[s \ {Max(s)}], list[Max(s)])
  <2>1. Max(s) \in 1..n
    BY <1>1, <1>7, MaxFact
  <2>2. s \ {Max(s)} \in SUBSET (1..n)
    OBVIOUS
  <2>3. it[s \ {Max(s)}] \in L
    BY <1>5, <2>2
  <2> QED
    BY <1>2, <2>1, <2>3
<1>8. it = [s \in SUBSET DOMAIN list |->
              IF s = {} THEN <<>>
              ELSE IF Key(list[Max(s)]) = key THEN it[s \ {Max(s)}]
              ELSE Append(it[s \ {Max(s)}], list[Max(s)])]
  BY <1>1, <1>6, <1>7
<1>9. PICK iter : /\ Sifts(list, key, iter)
                  /\ Deleted(list, key) = iter[DOMAIN list]
  <2>1. Sifts(list, key, it)
    BY <1>8 DEF Sifts
  <2> QED
    BY <2>1, SiftUnfolds
<1>10. iter = [s \in SUBSET (1..n) |->
                 IF s = {} THEN <<>>
                 ELSE IF Key(list[Max(s)]) = key THEN iter[s \ {Max(s)}]
                 ELSE Append(iter[s \ {Max(s)}], list[Max(s)])]
  BY <1>1, <1>9 DEF Sifts
<1>11. PICK p : p = [k \in 0..n |-> iter[1..k]]
  OBVIOUS
<1>12. p[0] = <<>>
  <2>1. 1..0 = {} /\ 0 \in 0..n
    BY <1>1
  <2>2. iter[{}] = <<>>
    BY <1>10
  <2> QED
    BY <1>11, <2>1, <2>2
<1>13. ASSUME NEW k \in 1..n
       PROVE  p[k] = IF Key(list[k]) = key THEN p[k - 1] ELSE Append(p[k - 1], list[k])
  <2>1. Max(1..k) = k /\ (1..k) \ {k} = 1..(k - 1) /\ 1..k # {}
    BY <1>1, MaxOfPrefix
  <2>2. 1..k \in SUBSET (1..n) /\ k \in 0..n /\ k - 1 \in 0..n
    BY <1>1
  <2>3. iter[1..k] = IF Key(list[k]) = key THEN iter[1..(k - 1)]
                     ELSE Append(iter[1..(k - 1)], list[k])
    BY <1>10, <2>1, <2>2
  <2> QED
    BY <1>11, <2>2, <2>3
<1>14. p[n] = Deleted(list, key)
  BY <1>1, <1>9, <1>11
<1>15. \A k \in 0..n : p[k] \in L
  <2> DEFINE H == {k \in 0..n : p[k] \in L}
  <2>1. 0 \in H
    BY <1>1, <1>12
  <2>2. \A k \in 1..n : k - 1 \in H => k \in H
    <3> TAKE k \in 1..n
    <3> HAVE k - 1 \in H
    <3>1. k \in 0..n /\ p[k - 1] \in L /\ list[k] \in M
      BY <1>0, <1>1
    <3>2. p[k - 1] \in Seq(M)
      BY <1>0, <3>1
    <3>3. Append(p[k - 1], list[k]) \in L
      BY <1>0, <3>1, <3>2
    <3> QED
      BY <1>13, <3>1, <3>3
  <2> HIDE DEF H
  <2>3. \A k \in 0..n : k \in H
    BY <1>1, <2>1, <2>2, UpTo
  <2> QED
    BY <2>3 DEF H
<1>16. p \in [0..n -> L]
  BY <1>11, <1>15
<1> QED
  BY <1>0, <1>12, <1>13, <1>14, <1>16

-----------------------------------------------------------------------------
(* The conversation and what an update makes of it. *)

Deltas == {Reply[i] : i \in DOMAIN Reply} \cup {"said", "old", "error", "edited", "[...]"}
Texts == Seq(Deltas)
Messages == [from : {"user", "assistant"}, id : Nat,
             st : {"loading", "streaming", "complete", "error"}, text : Texts]
Lists == Seq(Messages)

\* A conversation at generation g: no key twice, and what a user said is complete.
ListOK(l, g) ==
    /\ l \in Lists
    /\ \A i \in 1..Len(l) : l[i].id <= g /\ (l[i].from = "user" => Final(l[i]))
    /\ \A i, j \in 1..Len(l) : Key(l[i]) = Key(l[j]) => i = j

\* b is a later state of a: only the last message has changed, if it was pending.
Later(a, b) ==
    /\ Len(a) = Len(b)
    /\ \A i \in 1..Len(a) :
         /\ Key(b[i]) = Key(a[i])
         /\ i < Len(a) \/ Final(a[i]) => b[i] = a[i]

\* The last message is the reply to request g, and is not complete.
Pending(l, g) ==
    /\ l # <<>>
    /\ l[Len(l)].from = "assistant" /\ l[Len(l)].id = g /\ ~Final(l[Len(l)])

\* The reply is a text.
LEMMA ReplyFact ==
    Reply \in Texts /\ Len(Reply) \in Nat /\ \A i \in 1..Len(Reply) : Reply[i] \in Deltas
<1> DEFINE R == {Reply[i] : i \in DOMAIN Reply}
<1>1. Reply \in Seq(R)
  BY ChatAssumption
<1>2. \A r \in R : r \in Deltas
  BY DEF Deltas
<1> HIDE DEF R
<1>3. Len(Reply) \in Nat /\ DOMAIN Reply = 1..Len(Reply) /\ \A i \in 1..Len(Reply) : Reply[i] \in R
  BY <1>1
<1>4. Reply \in Seq(Deltas)
  BY <1>1, <1>2
<1> QED
  BY <1>2, <1>3, <1>4 DEF Texts

\* The texts of one piece and the empty one.
LEMMA ShortTexts ==
    /\ <<>> \in Texts /\ <<"said">> \in Texts /\ <<"old">> \in Texts
    /\ <<"error">> \in Texts /\ <<"edited">> \in Texts /\ <<"[...]">> \in Texts
<1>1. {"said", "old", "error", "edited", "[...]"} \subseteq Deltas
  BY DEF Deltas
<1> QED
  BY <1>1 DEF Texts

\* mergePendingStreamChunk gives a text no longer than its parts together.
LEMMA MergeFact ==
    ASSUME NEW t \in Texts, NEW c \in Texts
    PROVE  MergeChunk(t, c) \in Texts /\ Len(MergeChunk(t, c)) <= Len(t) + Len(c)
<1>1. t \o c \in Texts /\ Len(t \o c) = Len(t) + Len(c) /\ Len(t) \in Nat /\ Len(c) \in Nat
  BY DEF Texts
<1> QED
  BY <1>1 DEF MergeChunk

\* What an update of the last message keeps.
SoftOp(o) == o.op \in {"chunk", "complete", "stop", "answer", "error"} /\ o.text \in Texts

\* What an update makes of a message: its key stays, and an end makes it final.
LEMMA UpdatedFact ==
    ASSUME NEW o, SoftOp(o), NEW x \in Messages
    PROVE  /\ Updated(o, x) \in Messages
           /\ Key(Updated(o, x)) = Key(x)
           /\ o.op = "chunk" /\ ~Final(x) => Updated(o, x) = [x EXCEPT !.text = MergeChunk(@, o.text), !.st = "streaming"]
           /\ o.op \in {"complete", "stop", "answer", "error"} => Final(Updated(o, x))
<1>1. CASE o.op = "chunk"
  <2>1. MergeChunk(x.text, o.text) \in Texts
    BY MergeFact DEF SoftOp, Messages
  <2>2. PICK t \in Texts : t = MergeChunk(x.text, o.text)
    BY <2>1
  <2>3. CASE x.st # "error"
    <3>1. Updated(o, x) = [x EXCEPT !.text = t, !.st = "streaming"]
      BY <1>1, <2>2, <2>3 DEF Updated
    <3>2. [x EXCEPT !.text = t, !.st = "streaming"] \in Messages
      BY <2>2 DEF Messages
    <3> QED
      BY <1>1, <2>2, <3>1, <3>2 DEF Key, Messages
  <2>4. CASE x.st = "error"
    <3>1. Updated(o, x) = x
      BY <1>1, <2>4 DEF Updated
    <3> QED
      BY <1>1, <2>4, <3>1 DEF Final
  <2> QED
    BY <2>3, <2>4
<1>2. CASE o.op \in {"complete", "stop"}
  <2>1. CASE Final(x)
    <3>1. Updated(o, x) = x
      BY <1>2, <2>1 DEF Updated
    <3> QED
      BY <1>2, <2>1, <3>1
  <2>2. CASE ~Final(x)
    <3>1. Updated(o, x) = [x EXCEPT !.st = "complete"]
      BY <1>2, <2>2 DEF Updated
    <3> QED
      BY <1>2, <2>2, <3>1 DEF Key, Messages, Final
  <2> QED
    BY <2>1, <2>2
<1>3. CASE o.op = "answer"
  <2>1. Updated(o, x) = [x EXCEPT !.st = "complete", !.text = o.text]
    BY <1>3 DEF Updated
  <2> QED
    BY <1>3, <2>1 DEF Key, Messages, Final, SoftOp
<1>4. CASE o.op = "error"
  <2>1. PICK t \in Texts : t = <<"error">>
    BY ShortTexts
  <2>2. Updated(o, x) = [x EXCEPT !.st = "error", !.text = t]
    BY <1>4, <2>1 DEF Updated
  <2> QED
    BY <1>4, <2>2 DEF Key, Messages, Final
<1> QED
  BY <1>1, <1>2, <1>3, <1>4 DEF SoftOp

\* A list up to its k-th message.
LEMMA PrefixFact ==
    ASSUME NEW M, NEW l \in Seq(M), NEW k \in 0..Len(l)
    PROVE  /\ SubSeq(l, 1, k) \in Seq(M) /\ Len(SubSeq(l, 1, k)) = k
           /\ \A i \in 1..k : SubSeq(l, 1, k)[i] = l[i]
<1>1. Len(l) \in Nat /\ k \in Nat /\ k \in Int /\ 1 \in Int
  OBVIOUS
<1>2. \A i \in 1..k : l[i] \in M
  BY <1>1
<1>3. /\ SubSeq(l, 1, k) \in Seq(M)
      /\ Len(SubSeq(l, 1, k)) = IF 1 <= k THEN k - 1 + 1 ELSE 0
      /\ \A i \in 1..(k - 1 + 1) : SubSeq(l, 1, k)[i] = l[1 + i - 1]
  BY <1>1, <1>2, SubSeqProperties
<1>4. Len(SubSeq(l, 1, k)) = k
  BY <1>1, <1>3
<1>5. \A i \in 1..k : i \in 1..(k - 1 + 1) /\ 1 + i - 1 = i
  BY <1>1
<1> QED
  BY <1>3, <1>4, <1>5

\* The last message of a list is replaced.
LEMMA WithLast ==
    ASSUME NEW M, NEW l \in Seq(M), l # <<>>, NEW x \in M
    PROVE  /\ Front(l) \o <<x>> \in Seq(M)
           /\ Len(Front(l) \o <<x>>) = Len(l)
           /\ (Front(l) \o <<x>>)[Len(l)] = x
           /\ \A i \in 1..Len(l) : i < Len(l) => (Front(l) \o <<x>>)[i] = l[i]
<1>1. Len(l) \in Nat /\ Len(l) >= 1
  OBVIOUS
<1>2. PICK f : f = Front(l)
  OBVIOUS
<1>3. f \in Seq(M) /\ Len(f) = Len(l) - 1 /\ \A i \in 1..(Len(l) - 1) : f[i] = l[i]
  <2>1. Len(l) - 1 \in 0..Len(l)
    BY <1>1
  <2> QED
    BY <1>2, <2>1, PrefixFact DEF Front
<1>4. <<x>> \in Seq(M) /\ Len(<<x>>) = 1 /\ <<x>>[1] = x
  OBVIOUS
<1>5. PICK r : r = f \o <<x>>
  OBVIOUS
<1>6. r \in Seq(M) /\ Len(r) = Len(l)
  BY <1>1, <1>3, <1>4, <1>5
<1>7. r[Len(l)] = x
  BY <1>1, <1>3, <1>4, <1>5
<1>8. \A i \in 1..Len(l) : i < Len(l) => r[i] = l[i]
  BY <1>1, <1>3, <1>4, <1>5
<1> QED
  BY <1>2, <1>5, <1>6, <1>7, <1>8

\* An update of the last message: e is what it makes of the list l.
LEMMA SoftEval ==
    ASSUME NEW o, SoftOp(o), NEW l \in Lists, NEW g, NEW e, e = Eval(o, l, g)
    PROVE  /\ e \in Lists /\ Len(e) = Len(l)
           /\ \A i \in 1..Len(l) : Key(e[i]) = Key(l[i]) /\ (i < Len(l) => e[i] = l[i])
           /\ l # <<>> /\ l[Len(l)].from = "assistant" /\ ~Stale(o, g)
                => e[Len(l)] = Updated(o, l[Len(l)])
           /\ Stale(o, g) \/ l = <<>> \/ l[Len(l)].from # "assistant" => e = l
<1>1. CASE Stale(o, g) \/ l = <<>> \/ l[Len(l)].from # "assistant"
  <2>1. e = l
    BY <1>1 DEF Eval, SoftOp, UpdateLast, Last
  <2> QED
    BY <1>1, <2>1
<1>2. CASE ~(Stale(o, g) \/ l = <<>> \/ l[Len(l)].from # "assistant")
  <2>1. PICK x : x = l[Len(l)]
    OBVIOUS
  <2>2. Len(l) \in Nat /\ Len(l) >= 1 /\ x \in Messages
    BY <1>2, <2>1 DEF Lists
  <2>3. PICK y : y = Updated(o, x)
    OBVIOUS
  <2>4. y \in Messages /\ Key(y) = Key(x)
    BY <2>2, <2>3, UpdatedFact
  <2>5. e = Front(l) \o <<y>>
    BY <1>2, <2>1, <2>3 DEF Eval, SoftOp, UpdateLast, Last
  <2>6. /\ e \in Lists /\ Len(e) = Len(l) /\ e[Len(l)] = y
        /\ \A i \in 1..Len(l) : i < Len(l) => e[i] = l[i]
    BY <1>2, <2>4, <2>5, WithLast DEF Lists
  <2>7. \A i \in 1..Len(l) : Key(e[i]) = Key(l[i])
    <3> TAKE i \in 1..Len(l)
    <3>1. i < Len(l) \/ i = Len(l)
      BY <2>2
    <3> QED
      BY <2>1, <2>4, <2>6, <3>1
  <2> QED
    BY <1>2, <2>1, <2>3, <2>6, <2>7
<1> QED
  BY <1>1, <1>2

\* Being a later state of a list is reflexive,
LEMMA LaterSelf ==
    ASSUME NEW l
    PROVE  Later(l, l)
BY DEF Later

\* and transitive.
LEMMA LaterTrans ==
    ASSUME NEW a, NEW b, NEW c, Later(a, b), Later(b, c)
    PROVE  Later(a, c)
BY DEF Later

\* A later state of a pending reply was reached from a pending one.
LEMMA LaterPending ==
    ASSUME NEW a \in Lists, NEW b \in Lists, NEW g, Later(a, b), Pending(b, g)
    PROVE  Pending(a, g)
<1>1. PICK n : n = Len(b)
  OBVIOUS
<1>2. n \in Nat /\ n # 0 /\ n \in 1..n /\ Len(a) = n
  BY <1>1 DEF Pending, Later, Lists
<1>3. Key(b[n]) = Key(a[n]) /\ (Final(a[n]) => b[n] = a[n])
  BY <1>2 DEF Later
<1>4. a[n].from = b[n].from /\ a[n].id = b[n].id
  BY <1>3 DEF Key
<1>5. ~Final(a[n])
  BY <1>1, <1>3 DEF Pending
<1>6. a # <<>>
  BY <1>2
<1> QED
  BY <1>1, <1>2, <1>4, <1>5, <1>6 DEF Pending

\* An update of the last message leaves a conversation,
LEMMA SoftListOK ==
    ASSUME NEW o, SoftOp(o), NEW g \in Nat, NEW l, ListOK(l, g), NEW h, NEW e, e = Eval(o, l, h)
    PROVE  ListOK(e, g)
<1>1. l \in Lists /\ Len(l) \in Nat
  BY DEF ListOK, Lists
<1>2. /\ e \in Lists /\ Len(e) = Len(l)
      /\ \A i \in 1..Len(l) : Key(e[i]) = Key(l[i]) /\ (i < Len(l) => e[i] = l[i])
      /\ l = <<>> \/ l[Len(l)].from # "assistant" => e = l
  BY <1>1, SoftEval
<1>3. \A i \in 1..Len(l) : e[i].id = l[i].id /\ e[i].from = l[i].from
  BY <1>2 DEF Key
<1>4. \A i \in 1..Len(l) : e[i].id <= g
  BY <1>3 DEF ListOK
<1>5. ASSUME NEW i \in 1..Len(l), e[i].from = "user" PROVE Final(e[i])
  <2>1. l[i].from = "user" /\ Final(l[i])
    BY <1>3, <1>5 DEF ListOK
  <2>2. i < Len(l) \/ i = Len(l)
    BY <1>1
  <2>3. e[i] = l[i]
    BY <1>2, <2>1, <2>2
  <2> QED
    BY <2>1, <2>3
<1>6. \A i, j \in 1..Len(l) : Key(e[i]) = Key(e[j]) => i = j
  BY <1>2 DEF ListOK
<1> QED
  BY <1>2, <1>4, <1>5, <1>6 DEF ListOK

\* and a later state of the list when its message was pending.
LEMMA SoftLater ==
    ASSUME NEW o, SoftOp(o), NEW l \in Lists, NEW g, Pending(l, g), NEW h, NEW e, e = Eval(o, l, h)
    PROVE  /\ Later(l, e)
           /\ e # <<>> /\ e[Len(e)].from = "assistant" /\ e[Len(e)].id = g
           /\ ~Stale(o, h) => e[Len(e)] = Updated(o, l[Len(l)])
<1>1. PICK n : n = Len(l)
  OBVIOUS
<1>2. n \in Nat /\ n # 0 /\ n \in 1..n /\ l[n].from = "assistant" /\ l[n].id = g /\ ~Final(l[n])
  BY <1>1 DEF Pending, Lists
<1>3. /\ e \in Lists /\ Len(e) = n
      /\ \A i \in 1..n : Key(e[i]) = Key(l[i]) /\ (i < n => e[i] = l[i])
      /\ ~Stale(o, h) => e[n] = Updated(o, l[n])
  BY <1>1, <1>2, SoftEval DEF Pending
<1>4. \A i \in 1..n : i < n \/ Final(l[i]) => e[i] = l[i]
  <2> TAKE i \in 1..n
  <2>1. i < n \/ i = n
    BY <1>2
  <2> QED
    BY <1>2, <1>3, <2>1
<1>5. Later(l, e)
  BY <1>1, <1>3, <1>4 DEF Later
<1>6. e[n].from = "assistant" /\ e[n].id = g
  BY <1>2, <1>3 DEF Key
<1> QED
  BY <1>1, <1>2, <1>3, <1>5, <1>6

\* A chunk leaves the reply pending, every other update of it ends it.
LEMMA ChunkPends ==
    ASSUME NEW o, SoftOp(o), o.op = "chunk", NEW l \in Lists, NEW g, Pending(l, g), NEW h, NEW e, e = Eval(o, l, h)
    PROVE  Pending(e, g)
<1>1. /\ e # <<>> /\ e[Len(e)].from = "assistant" /\ e[Len(e)].id = g
      /\ ~Stale(o, h) => e[Len(e)] = Updated(o, l[Len(l)])
  BY SoftLater
<1>2. CASE Stale(o, h)
  BY <1>2 DEF Eval
<1>3. CASE ~Stale(o, h)
  <2>1. PICK x : x = l[Len(l)]
    OBVIOUS
  <2>2. x \in Messages /\ ~Final(x)
    BY <2>1 DEF Pending, Lists
  <2>3. Updated(o, x) = [x EXCEPT !.text = MergeChunk(@, o.text), !.st = "streaming"]
    BY <2>2, UpdatedFact
  <2>4. ~Final(Updated(o, x))
    BY <2>2, <2>3 DEF Final, Messages
  <2> QED
    BY <1>1, <1>3, <2>1, <2>4 DEF Pending
<1> QED
  BY <1>2, <1>3

\* The end of a request makes the pending reply final.
LEMMA EndFinal ==
    ASSUME NEW o, SoftOp(o), o.op # "chunk", NEW l \in Lists, NEW g, Pending(l, g),
           NEW h, ~Stale(o, h), NEW e, e = Eval(o, l, h)
    PROVE  Final(e[Len(e)])
<1>1. e[Len(e)] = Updated(o, l[Len(l)])
  BY SoftLater
<1>2. l[Len(l)] \in Messages
  BY DEF Pending, Lists
<1>3. o.op \in {"complete", "stop", "answer", "error"}
  BY DEF SoftOp
<1>4. PICK x \in Messages : x = l[Len(l)]
  BY <1>2
<1>5. Final(Updated(o, x))
  BY <1>3, UpdatedFact
<1> QED
  BY <1>1, <1>4, <1>5

-----------------------------------------------------------------------------
(* The queue. *)

\* The list of the last update of q that was evaluated.
LatestIn(m, q) == IF Eager(q) THEN q[1].list ELSE m

\* Updates that request g may have queued.
QueueFits(q, g) ==
    /\ IsSeq(q)
    /\ \A k \in 1..Len(q) :
         IF q[k].op = "replace" THEN k = 1 /\ q[k].g = 0 /\ q[k].list \in Lists
         ELSE SoftOp(q[k]) /\ q[k].g = g /\ g # 0

\* What an update that was evaluated already does.
LEMMA ReplaceFact ==
    ASSUME NEW list, NEW l, NEW g
    PROVE  /\ Eval(Replace(list), l, g) = list
           /\ Replace(list).op = "replace" /\ Replace(list).g = 0 /\ Replace(list).list = list
BY DEF Replace, Op, Eval, Stale

\* Every update of a queue makes a list of a list.
LEMMA EvalListed ==
    ASSUME NEW q, NEW g, QueueFits(q, g), NEW h, NEW k \in 1..Len(q), NEW l \in Lists
    PROVE  Eval(q[k], l, h) \in Lists
<1>1. CASE q[k].op = "replace"
  BY <1>1 DEF QueueFits, Eval
<1>2. CASE q[k].op # "replace"
  BY <1>2, SoftEval DEF QueueFits
<1> QED
  BY <1>1, <1>2

\* One more update: a render evaluates it last.
LEMMA RenderedAppend ==
    ASSUME NEW q, NEW g, QueueFits(q, g), NEW h, NEW m \in Lists,
           NEW o, \A l \in Lists : Eval(o, l, h) \in Lists
    PROVE  Rendered(m, Append(q, o), h) = Eval(o, Rendered(m, q, h), h)
<1>1. PICK T : q \in Seq(T)
  BY DEF QueueFits, IsSeq
<1>2. PICK S : q \in Seq(S) /\ o \in S
  <2>1. q \in Seq(T \cup {o}) /\ o \in T \cup {o}
    BY <1>1
  <2> QED
    BY <2>1
<1>3. PICK n, r : n = Len(q) /\ r = Append(q, o)
  OBVIOUS
<1>4. /\ n \in Nat /\ r \in Seq(S) /\ Len(r) = n + 1 /\ r[n + 1] = o
      /\ \A k \in 1..n : r[k] = q[k]
  BY <1>2, <1>3
<1>5. \A i \in 1..n : \A l \in Lists : Eval(q[i], l, h) \in Lists
  BY <1>3, EvalListed
<1>6. \A i \in 1..Len(r) : \A l \in Lists : Eval(r[i], l, h) \in Lists
  <2> TAKE i \in 1..Len(r)
  <2>1. i \in 1..n \/ i = n + 1
    BY <1>4
  <2> QED
    BY <1>4, <1>5, <2>1
<1>7. PICK p :
         /\ p[0] = m /\ \A k \in 1..n : p[k] = Eval(q[k], p[k - 1], h)
         /\ Rendered(m, q, h) = p[n]
  <2>1. IsSeq(q) /\ StepsIn(q, h, Lists)
    BY <1>3, <1>5 DEF StepsIn, QueueFits
  <2>2. \E w : PathOf(w, q, m, h, Lists)
    BY <2>1, RenderedPath
  <2> QED
    BY <1>3, <2>2 DEF PathOf
<1>8. PICK s :
         /\ s[0] = m /\ \A k \in 1..Len(r) : s[k] = Eval(r[k], s[k - 1], h)
         /\ Rendered(m, r, h) = s[Len(r)]
  <2>1. IsSeq(r) /\ StepsIn(r, h, Lists)
    BY <1>4, <1>6 DEF StepsIn, IsSeq
  <2>2. \E w : PathOf(w, r, m, h, Lists)
    BY <2>1, RenderedPath
  <2> QED
    BY <2>2 DEF PathOf
<1> DEFINE H == {k \in 0..n : s[k] = p[k]}
<1>9. 0 \in H
  BY <1>4, <1>7, <1>8
<1>10. \A k \in 1..n : k - 1 \in H => k \in H
  <2> TAKE k \in 1..n
  <2> HAVE k - 1 \in H
  <2>1. k \in 1..Len(r) /\ r[k] = q[k] /\ k \in 0..n
    BY <1>4
  <2>2. s[k] = Eval(q[k], s[k - 1], h) /\ p[k] = Eval(q[k], p[k - 1], h)
    BY <1>7, <1>8, <2>1
  <2>3. s[k - 1] = p[k - 1]
    OBVIOUS
  <2> QED
    BY <2>1, <2>2, <2>3
<1> HIDE DEF H
<1>11. \A k \in 0..n : k \in H
  BY <1>4, <1>9, <1>10, UpTo
<1>12. s[n] = p[n]
  BY <1>4, <1>11 DEF H
<1>13. n + 1 \in 1..Len(r) /\ (n + 1) - 1 = n
  BY <1>4
<1>14. s[n + 1] = Eval(o, s[n], h)
  BY <1>4, <1>8, <1>13
<1> QED
  BY <1>3, <1>4, <1>7, <1>8, <1>12, <1>14

\* Under another generation a render drops all that was not evaluated.
LEMMA RenderedSkips ==
    ASSUME NEW q, NEW g, QueueFits(q, g), NEW h, h # g, NEW m \in Lists
    PROVE  Rendered(m, q, h) = LatestIn(m, q)
<1>1. PICK S : q \in Seq(S)
  BY DEF QueueFits, IsSeq
<1>2. IsSeq(q) /\ StepsIn(q, h, Lists)
  BY EvalListed DEF StepsIn, QueueFits
<1>3. PICK p :
         /\ p \in [0..Len(q) -> Lists]
         /\ p[0] = m /\ \A k \in 1..Len(q) : p[k] = Eval(q[k], p[k - 1], h)
         /\ Rendered(m, q, h) = p[Len(q)]
  <2>1. \E p : PathOf(p, q, m, h, Lists)
    BY <1>2, RenderedPath
  <2> QED
    BY <2>1 DEF PathOf
<1>4. PICK n : n = Len(q)
  OBVIOUS
<1>5. n \in Nat /\ (n = 0 <=> q = <<>>)
  BY <1>1, <1>4
<1>6. \A k \in 1..n : q[k].op # "replace" => p[k] = p[k - 1]
  BY <1>3, <1>4 DEF QueueFits, Eval, Stale
<1>7. \A k \in 1..n : q[k].op = "replace" => k = 1 /\ p[k] = q[k].list
  BY <1>3, <1>4 DEF QueueFits, Eval, Stale
<1>8. CASE n = 0
  BY <1>3, <1>4, <1>5, <1>8 DEF LatestIn, Eager
<1>9. CASE n # 0
  <2>1. p[1] = LatestIn(m, q)
    <3>1. 1 \in 1..n /\ q # <<>>
      BY <1>5, <1>9
    <3> QED
      BY <1>3, <1>6, <1>7, <3>1 DEF LatestIn, Eager
  <2> DEFINE H == {k \in 0..n : k = 0 \/ p[k] = LatestIn(m, q)}
  <2>2. 0 \in H
    BY <1>5
  <2>3. \A k \in 1..n : k - 1 \in H => k \in H
    <3> TAKE k \in 1..n
    <3> HAVE k - 1 \in H
    <3>1. CASE k = 1
      BY <1>5, <2>1, <3>1
    <3>2. CASE k # 1
      <4>1. p[k] = p[k - 1] /\ k - 1 # 0 /\ k \in 0..n
        BY <1>5, <1>6, <1>7, <3>2
      <4>2. p[k - 1] = LatestIn(m, q)
        BY <4>1
      <4> QED
        BY <4>1, <4>2
    <3> QED
      BY <3>1, <3>2
  <2> HIDE DEF H
  <2>4. \A k \in 0..n : k \in H
    BY <1>5, <2>2, <2>3, UpTo
  <2>5. n \in H
    BY <1>5, <2>4
  <2> QED
    BY <1>3, <1>4, <1>9, <2>5 DEF H
<1> QED
  BY <1>8, <1>9

\* What is rendered, what was evaluated last and what the queue will make of
\* it are states of one conversation, each later than the one before.
Conversation(m, q, g) ==
    /\ QueueFits(q, g)
    /\ ListOK(m, g) /\ ListOK(LatestIn(m, q), g) /\ ListOK(Rendered(m, q, g), g)
    /\ Later(m, LatestIn(m, q)) /\ Later(LatestIn(m, q), Rendered(m, q, g))
    /\ q # <<>> => Pending(m, g)

\* Without queued updates the page shows the rendered list.
LEMMA ConversationIdle ==
    ASSUME NEW g, NEW m, ListOK(m, g)
    PROVE  Conversation(m, <<>>, g) /\ Rendered(m, <<>>, g) = m
<1>1. <<>> \in Seq({}) /\ Len(<<>>) = 0
  OBVIOUS
<1>2. QueueFits(<<>>, g)
  BY <1>1 DEF QueueFits, IsSeq
<1>3. LatestIn(m, <<>>) = m
  BY DEF LatestIn, Eager
<1>4. Rendered(m, <<>>, g) = m
  BY FoldEmpty
<1> QED
  BY <1>2, <1>3, <1>4, LaterSelf DEF Conversation

\* A request queues one more update of its pending reply.
LEMMA EnqueueGood ==
    ASSUME NEW g \in Nat, g # 0, NEW R, Pending(R, g),
           NEW qs, \A q \in qs : Conversation(msgs, q, g) /\ Rendered(msgs, q, g) = R,
           NEW o, SoftOp(o), o.g = g, NEW r \in Enqueue(qs, o, g)
    PROVE  Conversation(msgs, r, g) /\ Rendered(msgs, r, g) = Eval(o, R, g)
<1>1. PICK q \in qs : \/ r = Append(q, o)
                      \/ q = <<>> /\ r = <<Replace(Eval(o, msgs, g))>>
  BY DEF Enqueue
<1>2. Conversation(msgs, q, g) /\ Rendered(msgs, q, g) = R
  OBVIOUS
<1>3. /\ QueueFits(q, g) /\ ListOK(msgs, g) /\ ListOK(LatestIn(msgs, q), g) /\ ListOK(R, g)
      /\ Later(msgs, LatestIn(msgs, q)) /\ Later(LatestIn(msgs, q), R)
  BY <1>2 DEF Conversation
<1>4. msgs \in Lists /\ R \in Lists /\ LatestIn(msgs, q) \in Lists
  BY <1>3 DEF ListOK
<1>5. PICK e : e = Eval(o, R, g)
  OBVIOUS
<1>6. ListOK(e, g) /\ Later(R, e) /\ e \in Lists
  BY <1>3, <1>4, <1>5, SoftListOK, SoftLater, SoftEval
<1>7. Pending(msgs, g)
  BY <1>3, <1>4, LaterPending
<1>8. CASE r = Append(q, o)
  <2>1. \A l \in Lists : Eval(o, l, g) \in Lists
    BY SoftEval
  <2>2. Rendered(msgs, r, g) = e
    BY <1>2, <1>3, <1>4, <1>5, <1>8, <2>1, RenderedAppend
  <2>3. PICK T : q \in Seq(T)
    BY <1>3 DEF QueueFits, IsSeq
  <2>4. q \in Seq(T \cup {o}) /\ o \in T \cup {o}
    BY <2>3
  <2>5. PICK n : n = Len(q)
    OBVIOUS
  <2>6. /\ n \in Nat /\ r \in Seq(T \cup {o}) /\ Len(r) = n + 1 /\ r[n + 1] = o
        /\ (\A k \in 1..n : r[k] = q[k]) /\ (n = 0 <=> q = <<>>) /\ r # <<>>
    BY <1>8, <2>4, <2>5
  <2>7. o.op # "replace"
    BY DEF SoftOp
  <2>8. QueueFits(r, g)
    <3>1. IsSeq(r)
      BY <2>6 DEF IsSeq
    <3>2. ASSUME NEW k \in 1..Len(r)
          PROVE  IF r[k].op = "replace" THEN k = 1 /\ r[k].g = 0 /\ r[k].list \in Lists
                 ELSE SoftOp(r[k]) /\ r[k].g = g /\ g # 0
      <4>1. k \in 1..n \/ k = n + 1
        BY <2>6
      <4>2. CASE k = n + 1
        BY <2>6, <2>7, <4>2
      <4>3. CASE k \in 1..n
        BY <1>3, <2>5, <2>6, <4>3 DEF QueueFits
      <4> QED
        BY <4>1, <4>2, <4>3
    <3> QED
      BY <3>1, <3>2 DEF QueueFits
  <2>9. LatestIn(msgs, r) = LatestIn(msgs, q)
    <3>1. CASE n = 0
      BY <2>6, <2>7, <3>1 DEF LatestIn, Eager
    <3>2. CASE n # 0
      <4>1. r[1] = q[1] /\ q # <<>>
        BY <2>6, <3>2
      <4> QED
        BY <2>6, <4>1 DEF LatestIn, Eager
    <3> QED
      BY <3>1, <3>2
  <2>10. Later(LatestIn(msgs, r), e)
    BY <1>3, <1>6, <2>9, LaterTrans
  <2> QED
    BY <1>3, <1>5, <1>6, <1>7, <2>2, <2>8, <2>9, <2>10 DEF Conversation
<1>9. CASE q = <<>> /\ r = <<Replace(Eval(o, msgs, g))>>
  <2>1. R = msgs
    BY <1>2, <1>9, FoldEmpty
  <2>2. PICK x : x = Replace(e)
    OBVIOUS
  <2>3. x.op = "replace" /\ x.g = 0 /\ x.list = e /\ Eval(x, msgs, g) = e
    BY <2>2, ReplaceFact
  <2>4. r = <<x>>
    BY <1>5, <1>9, <2>1, <2>2
  <2>5. r # <<>> /\ r[1] = x /\ Len(r) = 1 /\ r \in Seq({x})
    BY <2>4
  <2>6. Rendered(msgs, r, g) = e
    BY <2>3, <2>4, FoldOne
  <2>7. LatestIn(msgs, r) = e
    BY <2>3, <2>5 DEF LatestIn, Eager
  <2>8. QueueFits(r, g)
    <3>1. IsSeq(r)
      BY <2>5 DEF IsSeq
    <3>2. \A k \in 1..Len(r) : k = 1
      BY <2>5
    <3> QED
      BY <1>6, <2>3, <2>5, <3>1, <3>2 DEF QueueFits
  <2> QED
    BY <1>3, <1>5, <1>6, <1>7, <2>1, <2>6, <2>7, <2>8, LaterSelf DEF Conversation
<1> QED
  BY <1>1, <1>8, <1>9

\* The fields of an update.
LEMMA OpFact ==
    ASSUME NEW op, NEW g, NEW t
    PROVE  /\ Op(op, g).op = op /\ Op(op, g).g = g /\ Op(op, g).text = <<>>
           /\ [Op(op, g) EXCEPT !.text = t].op = op
           /\ [Op(op, g) EXCEPT !.text = t].g = g
           /\ [Op(op, g) EXCEPT !.text = t].text = t
BY DEF Op

\* What the page will show when the queue is rendered, and when what waits in
\* the buffer is flushed before.
Shown == Rendered(msgs, uq, gen)
FlushedList == IF pend.text = <<>> THEN Shown
               ELSE Eval([Op("chunk", gen) EXCEPT !.text = pend.text], Shown, gen)

\* flushStreamUpdates leaves a queue that fits the conversation.
LEMMA FlushedGood ==
    ASSUME RefsOK, Conversation(msgs, uq, gen), pend.text \in Texts,
           pend.text # <<>> => Pending(Shown, gen) /\ gen # 0,
           NEW r \in Flushed({uq})
    PROVE  Conversation(msgs, r, gen) /\ Rendered(msgs, r, gen) = FlushedList
<1>1. pend.g = gen /\ gen \in Nat
  <2>1. pend = [g |-> gen, text |-> pend.text]
    BY DEF RefsOK
  <2> QED
    BY <2>1 DEF RefsOK
<1>2. CASE pend.text = <<>>
  <2>1. r = uq
    BY <1>1, <1>2 DEF Flushed
  <2> QED
    BY <1>2, <2>1 DEF FlushedList, Shown
<1>3. CASE pend.text # <<>>
  <2>1. PICK o : o = [Op("chunk", gen) EXCEPT !.text = pend.text]
    OBVIOUS
  <2>2. o.op = "chunk" /\ o.g = gen /\ o.text = pend.text
    BY <2>1, OpFact
  <2>3. SoftOp(o)
    BY <2>2 DEF SoftOp
  <2>4. r \in Enqueue({uq}, o, gen)
    BY <1>1, <1>3, <2>1 DEF Flushed
  <2>5. \A q \in {uq} : Conversation(msgs, q, gen) /\ Rendered(msgs, q, gen) = Shown
    BY DEF Shown
  <2>6. Conversation(msgs, r, gen) /\ Rendered(msgs, r, gen) = Eval(o, Shown, gen)
    BY <1>1, <1>3, <2>2, <2>3, <2>4, <2>5, EnqueueGood
  <2> QED
    BY <1>3, <2>1, <2>6 DEF FlushedList
<1> QED
  BY <1>2, <1>3

\* Flushing leaves the reply pending.
LEMMA FlushedPends ==
    ASSUME Shown \in Lists, pend.text \in Texts, Pending(Shown, gen)
    PROVE  Pending(FlushedList, gen) /\ FlushedList \in Lists
<1>1. CASE pend.text = <<>>
  BY <1>1 DEF FlushedList
<1>2. CASE pend.text # <<>>
  <2>1. PICK o : o = [Op("chunk", gen) EXCEPT !.text = pend.text]
    OBVIOUS
  <2>2. o.op = "chunk" /\ o.text = pend.text
    BY <2>1, OpFact
  <2>3. SoftOp(o)
    BY <2>2 DEF SoftOp
  <2>4. FlushedList = Eval(o, Shown, gen)
    BY <1>2, <2>1 DEF FlushedList
  <2>5. Pending(FlushedList, gen)
    BY <2>2, <2>3, <2>4, ChunkPends
  <2>6. FlushedList \in Lists
    BY <2>3, <2>4, SoftEval
  <2> QED
    BY <2>5, <2>6
<1> QED
  BY <1>1, <1>2

\* The end of a request queues an update that makes its reply final.
LEMMA EndGood ==
    ASSUME gen \in Nat, gen # 0, NEW R, R \in Lists, Pending(R, gen),
           NEW qs, \A q \in qs : Conversation(msgs, q, gen) /\ Rendered(msgs, q, gen) = R,
           NEW o, SoftOp(o), o.g = gen, o.op # "chunk", NEW r \in Enqueue(qs, o, gen)
    PROVE  /\ Conversation(msgs, r, gen) /\ Rendered(msgs, r, gen) = Eval(o, R, gen)
           /\ Rendered(msgs, r, gen) # <<>>
           /\ Final(Rendered(msgs, r, gen)[Len(Rendered(msgs, r, gen))])
<1>1. PICK e : e = Eval(o, R, gen)
  OBVIOUS
<1>2. Conversation(msgs, r, gen) /\ Rendered(msgs, r, gen) = e
  BY <1>1, EnqueueGood
<1>3. ~Stale(o, gen)
  BY DEF Stale
<1>4. Final(e[Len(e)])
  BY <1>1, <1>3, EndFinal
<1>5. e # <<>>
  BY <1>1, SoftLater
<1> QED
  BY <1>1, <1>2, <1>4, <1>5

\* A list that the user's action writes is what is rendered next.
LEMMA ReplaceGood ==
    ASSUME NEW g, QueueFits(uq, g), msgs \in Lists, NEW list \in Lists, NEW k, NEW h,
           NEW r \in Enqueue({uq}, Replace(list), k)
    PROVE  Rendered(msgs, r, h) = list
<1>1. PICK o : o = Replace(list)
  OBVIOUS
<1>2. \A l : \A j : Eval(o, l, j) = list
  BY <1>1, ReplaceFact
<1>3. r = Append(uq, o) \/ (uq = <<>> /\ r = <<Replace(Eval(o, msgs, k))>>)
  BY <1>1 DEF Enqueue
<1>4. CASE r = Append(uq, o)
  <2>1. Rendered(msgs, r, h) = Eval(o, Rendered(msgs, uq, h), h)
    BY <1>2, <1>4, RenderedAppend
  <2> QED
    BY <1>2, <2>1
<1>5. CASE uq = <<>> /\ r = <<Replace(Eval(o, msgs, k))>>
  <2>1. r = <<o>>
    BY <1>1, <1>2, <1>5
  <2> QED
    BY <1>2, <2>1, FoldOne
<1> QED
  BY <1>3, <1>4, <1>5

\* What a stop leaves: it completes the list that was evaluated last.
LEMMA StopGood ==
    ASSUME gen \in Nat, msgs \in Lists,
           NEW qs, \A q \in qs : QueueFits(q, gen),
           NEW r \in Enqueue(qs, Op("stop", gen + 1), gen + 1)
    PROVE  \E q \in qs : Rendered(msgs, r, gen + 1) = Eval(Op("stop", gen + 1), LatestIn(msgs, q), gen + 1)
<1>1. PICK h, o : h = gen + 1 /\ o = Op("stop", gen + 1)
  OBVIOUS
<1>2. h # gen /\ SoftOp(o)
  <2>1. o.op = "stop" /\ o.text = <<>>
    BY <1>1, OpFact
  <2> QED
    BY <1>1, <2>1, ShortTexts DEF SoftOp
<1>3. PICK q \in qs : \/ r = Append(q, o)
                      \/ q = <<>> /\ r = <<Replace(Eval(o, msgs, h))>>
  BY <1>1 DEF Enqueue
<1>4. CASE r = Append(q, o)
  <2>1. \A l \in Lists : Eval(o, l, h) \in Lists
    BY <1>2, SoftEval
  <2>2. Rendered(msgs, r, h) = Eval(o, Rendered(msgs, q, h), h)
    BY <1>4, <2>1, RenderedAppend
  <2>3. Rendered(msgs, q, h) = LatestIn(msgs, q)
    BY <1>2, RenderedSkips
  <2> QED
    BY <1>1, <2>2, <2>3
<1>5. CASE q = <<>> /\ r = <<Replace(Eval(o, msgs, h))>>
  <2>1. Rendered(msgs, r, h) = Eval(o, msgs, h)
    BY <1>5, FoldOne, ReplaceFact
  <2>2. LatestIn(msgs, q) = msgs
    BY <1>5 DEF LatestIn, Eager
  <2> QED
    BY <1>1, <2>1, <2>2
<1> QED
  BY <1>3, <1>4, <1>5

-----------------------------------------------------------------------------
(* The lists that the user's actions and a page change write. *)

\* The messages of a conversation and their generations.
LEMMA IdsFact ==
    ASSUME NEW g, NEW l, ListOK(l, g)
    PROVE  /\ l \in Seq(Messages) /\ Len(l) \in Nat
           /\ \A i \in 1..Len(l) : l[i] \in Messages /\ l[i].id \in Nat /\ l[i].id <= g
<1>1. \A x \in Messages : x.id \in Nat
  BY DEF Messages
<1>2. l \in Seq(Messages) /\ Len(l) \in Nat
  BY DEF ListOK, Lists
<1>3. \A i \in 1..Len(l) : l[i] \in Messages
  BY <1>2
<1>4. \A i \in 1..Len(l) : l[i].id <= g
  BY DEF ListOK
<1> QED
  BY <1>1, <1>2, <1>3, <1>4

\* A conversation is one for every later generation.
LEMMA ListOKGrows ==
    ASSUME NEW g \in Nat, NEW l, ListOK(l, g)
    PROVE  ListOK(l, g + 1)
<1>1. \A i \in 1..Len(l) : l[i].id \in Nat /\ l[i].id <= g
  BY IdsFact
<1>2. \A i \in 1..Len(l) : l[i].id <= g + 1
  BY <1>1
<1> QED
  BY <1>2 DEF ListOK

\* The messages are changed, but not their keys.
LEMMA SameKeys ==
    ASSUME NEW g, NEW l, ListOK(l, g), NEW e \in Lists, Len(e) = Len(l),
           \A i \in 1..Len(l) : Key(e[i]) = Key(l[i]) /\ (l[i].from = "user" => Final(e[i]))
    PROVE  ListOK(e, g)
<1>1. \A i \in 1..Len(l) : e[i].id = l[i].id /\ e[i].from = l[i].from
  BY DEF Key
<1>2. \A i \in 1..Len(e) : e[i].id <= g /\ (e[i].from = "user" => Final(e[i]))
  BY <1>1 DEF ListOK
<1> QED
  BY <1>2 DEF ListOK

\* The first k messages.
FirstOf(l, k) == SubSeq(l, 1, k)

\* The beginning of a conversation is a conversation.
LEMMA PrefixOK ==
    ASSUME NEW g, NEW l, ListOK(l, g), NEW k \in 0..Len(l), NEW e, e = FirstOf(l, k)
    PROVE  ListOK(e, g) /\ Len(e) = k /\ \A i \in 1..k : e[i] = l[i] /\ i \in 1..Len(l)
<1>1. l \in Seq(Messages) /\ Len(l) \in Nat
  BY DEF ListOK, Lists
<1>2. e \in Seq(Messages) /\ Len(e) = k /\ \A i \in 1..k : e[i] = l[i]
  BY <1>1, PrefixFact DEF FirstOf
<1>3. \A i \in 1..k : i \in 1..Len(l)
  BY <1>1
<1> QED
  BY <1>2, <1>3 DEF ListOK, Lists

\* The messages a request adds.
LEMMA NewMessages ==
    ASSUME NEW g \in Nat
    PROVE  /\ UserMessage(g) \in Messages /\ LoadingMessage(g) \in Messages
           /\ Key(UserMessage(g)) = <<"user", g>> /\ Key(LoadingMessage(g)) = <<"assistant", g>>
           /\ Final(UserMessage(g)) /\ ~Final(LoadingMessage(g))
           /\ UserMessage(g).from = "user" /\ UserMessage(g).id = g
           /\ LoadingMessage(g).from = "assistant" /\ LoadingMessage(g).id = g
           /\ LoadingMessage(g).text = <<>>
<1>1. <<"said">> \in Texts /\ <<>> \in Texts
  BY ShortTexts
<1>2. UserMessage(g) \in Messages /\ LoadingMessage(g) \in Messages
  BY <1>1 DEF UserMessage, LoadingMessage, Messages
<1> QED
  BY <1>2 DEF UserMessage, LoadingMessage, Key, Final

\* A message of a new generation is added.
Fresh(l, x) == \A i \in 1..Len(l) : Key(l[i]) # Key(x)
Added(e, l, x) ==
    /\ e # <<>> /\ Len(e) = Len(l) + 1 /\ Len(l) \in Nat /\ e[Len(e)] = x
    /\ \A i \in 1..Len(l) : e[i] = l[i]

\* A message with a new key may be added.
LEMMA AddMessage ==
    ASSUME NEW g \in Nat, NEW l, ListOK(l, g), NEW x \in Messages, x.id = g,
           x.from = "assistant" \/ Final(x), Fresh(l, x),
           NEW e, e = Append(l, x)
    PROVE  ListOK(e, g) /\ Added(e, l, x)
<1>1. l \in Seq(Messages) /\ Len(l) \in Nat
  BY DEF ListOK, Lists
<1>2. /\ e \in Lists /\ Len(e) = Len(l) + 1 /\ e[Len(l) + 1] = x /\ e # <<>>
      /\ \A i \in 1..Len(l) : e[i] = l[i]
  BY <1>1 DEF Lists
<1>3. \A i \in 1..Len(e) : i \in 1..Len(l) \/ i = Len(l) + 1
  BY <1>1, <1>2
<1>4. \A i \in 1..Len(e) : e[i].id <= g /\ (e[i].from = "user" => Final(e[i]))
  <2>1. x.id <= g /\ (x.from = "user" => Final(x))
    OBVIOUS
  <2> QED
    BY <1>2, <1>3, <2>1 DEF ListOK
<1>5. ASSUME NEW i \in 1..Len(e), NEW j \in 1..Len(e), Key(e[i]) = Key(e[j]) PROVE i = j
  <2>1. CASE i = Len(l) + 1
    BY <1>2, <1>3, <1>5, <2>1 DEF Fresh
  <2>2. CASE j = Len(l) + 1
    BY <1>2, <1>3, <1>5, <2>2 DEF Fresh
  <2>3. CASE i \in 1..Len(l) /\ j \in 1..Len(l)
    BY <1>2, <1>5, <2>3 DEF ListOK
  <2> QED
    BY <1>3, <2>1, <2>2, <2>3
<1> QED
  BY <1>1, <1>2, <1>4, <1>5 DEF ListOK, Added

\* The conversation with a reply to come, and with a question before it.
WithReply(l, g) == l \o <<LoadingMessage(g)>>
WithQuestion(l, g) == l \o <<UserMessage(g), LoadingMessage(g)>>

Replied(e, l, h) ==
    /\ ListOK(e, h) /\ Pending(e, h) /\ Len(e) = Len(l) + 1 /\ Len(l) \in Nat
    /\ e[Len(e)] = LoadingMessage(h)
    /\ \A i \in 1..Len(l) : e[i] = l[i]
Asked(e, l, h) ==
    /\ ListOK(e, h) /\ Pending(e, h) /\ Len(e) = Len(l) + 2 /\ Len(l) \in Nat
    /\ e[Len(e)] = LoadingMessage(h) /\ e[Len(l) + 1] = UserMessage(h)
    /\ \A i \in 1..Len(l) : e[i] = l[i]

\* The conversation of a request that repeats or follows an edit.
LEMMA AddReply ==
    ASSUME NEW g \in Nat, NEW h \in Nat, h = g + 1, NEW l, ListOK(l, g), NEW e, e = WithReply(l, h)
    PROVE  Replied(e, l, h)
<1>1. h = g + 1
  OBVIOUS
<1>2. PICK x : x = LoadingMessage(h)
  OBVIOUS
<1>3. /\ x \in Messages /\ Key(x) = <<"assistant", h>> /\ ~Final(x) /\ x.from = "assistant" /\ x.id = h
  BY <1>2, NewMessages
<1>4. l \in Seq(Messages) /\ ListOK(l, h)
  <2>1. ListOK(l, g + 1)
    BY ListOKGrows
  <2>2. l \in Seq(Messages)
    BY DEF ListOK, Lists
  <2> QED
    BY <1>1, <2>1, <2>2
<1>5. e = Append(l, x)
  BY <1>1, <1>2, <1>3, <1>4 DEF WithReply
<1>6. Fresh(l, x)
  <2>1. \A i \in 1..Len(l) : l[i].id \in Nat /\ l[i].id <= g
    BY IdsFact
  <2>2. \A i \in 1..Len(l) : l[i].id # h
    BY <1>1, <2>1
  <2> QED
    BY <1>3, <2>2 DEF Key, Fresh
<1>8. /\ ListOK(e, h) /\ e # <<>> /\ Len(e) = Len(l) + 1 /\ Len(l) \in Nat /\ e[Len(e)] = x
      /\ \A i \in 1..Len(l) : e[i] = l[i]
  <2>1. x \in Messages /\ x.id = h /\ (x.from = "assistant" \/ Final(x))
    BY <1>3
  <2>2. ListOK(e, h) /\ Added(e, l, x)
    BY <1>4, <1>5, <1>6, <2>1, AddMessage
  <2> QED
    BY <2>2 DEF Added
<1>9. Pending(e, h)
  BY <1>3, <1>8 DEF Pending
<1> QED
  BY <1>1, <1>2, <1>8, <1>9 DEF Replied

\* The conversation of a request with a new question.
LEMMA AddQuestion ==
    ASSUME NEW g \in Nat, NEW h \in Nat, h = g + 1, NEW l, ListOK(l, g), NEW e, e = WithQuestion(l, h)
    PROVE  Asked(e, l, h)
<1>1. h = g + 1
  OBVIOUS
<1>2. PICK x, y : x = LoadingMessage(h) /\ y = UserMessage(h)
  OBVIOUS
<1>3. /\ x \in Messages /\ Key(x) = <<"assistant", h>> /\ ~Final(x) /\ x.from = "assistant" /\ x.id = h
      /\ y \in Messages /\ Key(y) = <<"user", h>> /\ Final(y) /\ y.id = h
  BY <1>2, NewMessages
<1>4. l \in Seq(Messages) /\ ListOK(l, h)
  <2>1. ListOK(l, g + 1)
    BY ListOKGrows
  <2>2. l \in Seq(Messages)
    BY DEF ListOK, Lists
  <2> QED
    BY <1>1, <2>1, <2>2
<1>5. \A i \in 1..Len(l) : l[i].id # h
  <2>1. \A i \in 1..Len(l) : l[i].id \in Nat /\ l[i].id <= g
    BY IdsFact
  <2> QED
    BY <1>1, <2>1
<1>6. PICK d : d = Append(l, y)
  OBVIOUS
<1>7. Fresh(l, y)
  BY <1>3, <1>5 DEF Key, Fresh
<1>8. /\ ListOK(d, h) /\ Len(d) = Len(l) + 1 /\ Len(l) \in Nat /\ d[Len(d)] = y
      /\ \A i \in 1..Len(l) : d[i] = l[i]
  <2>1. y \in Messages /\ y.id = h /\ (y.from = "assistant" \/ Final(y))
    BY <1>3
  <2>2. ListOK(d, h) /\ Added(d, l, y)
    BY <1>4, <1>6, <1>7, <2>1, AddMessage
  <2> QED
    BY <2>2 DEF Added
<1>9. e = Append(d, x)
  BY <1>1, <1>2, <1>3, <1>4, <1>6 DEF WithQuestion
<1>10. Fresh(d, x)
  <2> SUFFICES \A i \in 1..Len(d) : Key(d[i]) # Key(x)
    BY DEF Fresh
  <2> TAKE i \in 1..Len(d)
  <2>1. i \in 1..Len(l) \/ i = Len(d)
    BY <1>8
  <2>2. CASE i \in 1..Len(l)
    BY <1>3, <1>5, <1>8, <2>2 DEF Key
  <2>3. CASE i = Len(d)
    BY <1>3, <1>8, <2>3
  <2> QED
    BY <2>1, <2>2, <2>3
<1>11. /\ ListOK(e, h) /\ e # <<>> /\ Len(e) = Len(d) + 1 /\ e[Len(e)] = x
       /\ \A i \in 1..Len(d) : e[i] = d[i]
  <2>1. x \in Messages /\ x.id = h /\ (x.from = "assistant" \/ Final(x))
    BY <1>3
  <2>2. ListOK(e, h) /\ Added(e, d, x)
    BY <1>8, <1>9, <1>10, <2>1, AddMessage
  <2> QED
    BY <2>2 DEF Added
<1>12. Pending(e, h)
  BY <1>3, <1>11 DEF Pending
<1>13. \A i \in 1..Len(l) : e[i] = l[i]
  <2> TAKE i \in 1..Len(l)
  <2>1. i \in 1..Len(d)
    BY <1>8
  <2> QED
    BY <1>8, <1>11, <2>1
<1>14. e[Len(l) + 1] = y /\ Len(e) = Len(l) + 2
  BY <1>8, <1>11
<1> QED
  BY <1>1, <1>2, <1>11, <1>12, <1>13, <1>14, <1>8 DEF Asked

\* deleteMessage keeps the messages with another key, in their order.
LEMMA DeletedFact ==
    ASSUME NEW g, NEW l, ListOK(l, g), NEW key, NEW d, d = Deleted(l, key)
    PROVE  /\ ListOK(d, g)
           /\ \A i \in 1..Len(d) : \E j \in 1..Len(l) : d[i] = l[j]
<1>1. PICK n : n = Len(l)
  OBVIOUS
<1>2. l \in Seq(Messages) /\ n \in Nat
  BY <1>1 DEF ListOK, Lists
<1>3. PICK p \in [0..Len(l) -> Seq(Messages)] :
         /\ p[0] = <<>>
         /\ \A k \in 1..Len(l) :
               p[k] = IF Key(l[k]) = key THEN p[k - 1] ELSE Append(p[k - 1], l[k])
         /\ Deleted(l, key) = p[Len(l)]
  BY <1>2, DeletedPath
<1> DEFINE From(k) == \A i \in 1..Len(p[k]) : \E j \in 1..k : p[k][i] = l[j]
           Unique(k) == \A i, j \in 1..Len(p[k]) : Key(p[k][i]) = Key(p[k][j]) => i = j
           H == {k \in 0..n : From(k) /\ Unique(k)}
<1>4. 0 \in H
  <2>1. Len(p[0]) = 0
    BY <1>3
  <2> QED
    BY <1>2, <2>1
<1>5. ASSUME NEW k \in 1..n, k - 1 \in H PROVE k \in H
  <2>1. PICK s : s = p[k - 1]
    OBVIOUS
  <2>2. PICK r : r = p[k]
    OBVIOUS
  <2>3. k \in 0..n /\ k - 1 \in 0..n /\ k \in 1..k /\ \A j \in 1..(k - 1) : j \in 1..k /\ j # k /\ j \in 1..n
    BY <1>2
  <2>4. s \in Seq(Messages) /\ Len(s) \in Nat /\ l[k] \in Messages
    BY <1>1, <1>2, <1>3, <2>1, <2>3
  <2>5. /\ \A i \in 1..Len(s) : \E j \in 1..(k - 1) : s[i] = l[j]
        /\ \A i, j \in 1..Len(s) : Key(s[i]) = Key(s[j]) => i = j
    BY <1>5, <2>1
  <2>6. r = IF Key(l[k]) = key THEN s ELSE Append(s, l[k])
    BY <1>1, <1>3, <2>1, <2>2
  <2>7. CASE r = s
    <3>1. \A i \in 1..Len(r) : \E j \in 1..k : r[i] = l[j]
      BY <2>3, <2>5, <2>7
    <3> QED
      BY <2>2, <2>3, <2>5, <2>7, <3>1
  <2>8. CASE r = Append(s, l[k])
    <3>1. /\ Len(r) = Len(s) + 1 /\ r[Len(s) + 1] = l[k] /\ \A i \in 1..Len(s) : r[i] = s[i]
      BY <2>4, <2>8
    <3>2. \A i \in 1..Len(r) : i \in 1..Len(s) \/ i = Len(s) + 1
      BY <2>4, <3>1
    <3>3. \A i \in 1..Len(r) : \E j \in 1..k : r[i] = l[j]
      BY <2>3, <2>5, <3>1, <3>2
    <3>4. \A i \in 1..Len(s) : Key(s[i]) # Key(l[k])
      <4> TAKE i \in 1..Len(s)
      <4>1. PICK j \in 1..(k - 1) : s[i] = l[j]
        BY <2>5
      <4> QED
        BY <1>1, <2>3, <4>1 DEF ListOK
    <3>5. ASSUME NEW i \in 1..Len(r), NEW j \in 1..Len(r), Key(r[i]) = Key(r[j]) PROVE i = j
      <4>1. CASE i = Len(s) + 1
        BY <3>1, <3>2, <3>4, <3>5, <4>1
      <4>2. CASE j = Len(s) + 1
        BY <3>1, <3>2, <3>4, <3>5, <4>2
      <4>3. CASE i \in 1..Len(s) /\ j \in 1..Len(s)
        BY <2>5, <3>1, <3>5, <4>3
      <4> QED
        BY <3>2, <4>1, <4>2, <4>3
    <3> QED
      BY <2>2, <2>3, <3>3, <3>5
  <2> QED
    BY <2>6, <2>7, <2>8
<1> HIDE DEF H
<1>6. \A k \in 0..n : k \in H
  BY <1>2, <1>4, <1>5, UpTo
<1>7. n \in H
  BY <1>2, <1>6
<1>8. d = p[n] /\ d \in Seq(Messages)
  BY <1>1, <1>2, <1>3
<1>9. /\ \A i \in 1..Len(d) : \E j \in 1..n : d[i] = l[j]
      /\ \A i, j \in 1..Len(d) : Key(d[i]) = Key(d[j]) => i = j
  BY <1>7, <1>8 DEF H
<1>10. \A i \in 1..Len(d) : d[i].id <= g /\ (d[i].from = "user" => Final(d[i]))
  BY <1>1, <1>9 DEF ListOK
<1> QED
  BY <1>1, <1>8, <1>9, <1>10 DEF ListOK, Lists

\* A function on the domain of a list, with messages for values, is a list.
LEMMA FunctionIsList ==
    ASSUME NEW l \in Seq(Messages), NEW e, DOMAIN e = DOMAIN l, e = [i \in DOMAIN e |-> e[i]],
           \A i \in 1..Len(l) : e[i] \in Messages
    PROVE  e \in Seq(Messages) /\ Len(e) = Len(l)
<1>1. Len(l) \in Nat /\ DOMAIN l = 1..Len(l)
  OBVIOUS
<1>2. e \in [1..Len(l) -> Messages]
  BY <1>1
<1> QED
  BY <1>1, <1>2

\* A piece of a text is a text.
LEMMA PieceFact ==
    ASSUME NEW M, NEW s \in Seq(M), NEW a \in Nat, NEW b \in Nat, a >= 1, b <= Len(s)
    PROVE  SubSeq(s, a, b) \in Seq(M)
<1>1. Len(s) \in Nat /\ a \in Int /\ b \in Int
  OBVIOUS
<1>2. \A i \in a..b : i \in 1..Len(s)
  BY <1>1
<1>3. \A i \in a..b : s[i] \in M
  BY <1>2
<1> QED
  BY <1>1, <1>3, SubSeqProperties

\* The last k messages of a conversation are a conversation.
LEMMA SuffixOK ==
    ASSUME NEW g, NEW l, ListOK(l, g), NEW k \in 0..Len(l), NEW e, e = LastOf(l, k)
    PROVE  /\ ListOK(e, g) /\ Len(e) = k
           /\ \A i \in 1..k : /\ e[i] = l[Len(l) - k + i]
                              /\ Len(l) - k + i \in 1..Len(l)
                              /\ i < k <=> Len(l) - k + i < Len(l)
<1>1. PICK n : n = Len(l)
  OBVIOUS
<1>2. l \in Seq(Messages) /\ n \in Nat /\ k \in Nat /\ k <= n
  BY <1>1 DEF ListOK, Lists
<1>3. PICK a : a = n - k + 1
  OBVIOUS
<1>4. a \in Nat /\ a \in Int /\ a >= 1 /\ n \in Int
  BY <1>2, <1>3
<1>5. \A i \in a..n : l[i] \in Messages
  <2>1. \A i \in a..n : i \in 1..n
    BY <1>2, <1>4
  <2> QED
    BY <1>1, <1>2, <2>1
<1>6. e = SubSeq(l, a, n)
  BY <1>1, <1>3 DEF LastOf
<1>7. /\ e \in Seq(Messages)
      /\ Len(e) = IF a <= n THEN n - a + 1 ELSE 0
      /\ \A i \in 1..(n - a + 1) : e[i] = l[a + i - 1]
  BY <1>4, <1>5, <1>6, SubSeqProperties
<1>8. n - a + 1 = k /\ Len(e) = k
  BY <1>2, <1>3, <1>7
<1>9. \A i \in 1..k : a + i - 1 = n - k + i /\ n - k + i \in 1..n /\ (i < k <=> n - k + i < n)
  BY <1>2, <1>3
<1>10. \A i \in 1..k : e[i] = l[n - k + i]
  BY <1>7, <1>8, <1>9
<1>11. \A i \in 1..Len(e) : e[i].id <= g /\ (e[i].from = "user" => Final(e[i]))
  BY <1>1, <1>8, <1>9, <1>10 DEF ListOK
<1>12. ASSUME NEW i \in 1..Len(e), NEW j \in 1..Len(e), Key(e[i]) = Key(e[j])
       PROVE  i = j
  <2>1. n - k + i = n - k + j
    BY <1>1, <1>8, <1>9, <1>10, <1>12 DEF ListOK
  <2> QED
    BY <1>2, <1>8, <2>1
<1>13. ListOK(e, g)
  BY <1>7, <1>11, <1>12 DEF ListOK, Lists
<1> QED
  BY <1>1, <1>8, <1>9, <1>10, <1>13

\* collapseRepeatedSectionSnapshots keeps an end of the text.
LEMMA CollapsedFact ==
    ASSUME NEW t \in Texts
    PROVE  Collapsed(t) \in Texts
<1> DEFINE places(h) == {i \in DOMAIN t : t[i] = h}
           lasts == {i \in DOMAIN t :
                       /\ t[i] \in Headings /\ Cardinality(places(t[i])) >= Repeats
                       /\ \A j \in places(t[i]) : j <= i}
<1>1. Len(t) \in Nat /\ DOMAIN t = 1..Len(t) /\ t \in Seq(Deltas)
  BY DEF Texts
<1>2. lasts \subseteq 1..Len(t) /\ lasts \subseteq Nat
  BY <1>1
<1>3. Collapsed(t) = IF Len(t) < MinCollapse \/ lasts = {} THEN t
                     ELSE SubSeq(t, Min(lasts), Len(t))
  BY DEF Collapsed
<1> HIDE DEF lasts
<1>4. CASE lasts = {}
  BY <1>3, <1>4
<1>5. CASE lasts # {}
  <2>2. Min(lasts) \in lasts
    BY <1>2, <1>5, MinFact
  <2>3. PICK a : a = Min(lasts)
    OBVIOUS
  <2>4. a \in 1..Len(t)
    BY <1>2, <2>2, <2>3
  <2>1. a \in Nat /\ a >= 1
    BY <1>1, <2>4
  <2>5. SubSeq(t, a, Len(t)) \in Seq(Deltas)
    BY <1>1, <2>1, PieceFact
  <2> QED
    BY <1>3, <2>3, <2>5 DEF Texts
<1> QED
  BY <1>4, <1>5

\* truncateText makes a text of a text.
LEMMA TruncatedFact ==
    ASSUME NEW t \in Texts
    PROVE  Truncated(t) \in Texts
<1>1. t \in Seq(Deltas) /\ Len(t) \in Nat /\ MaxChars \in Nat /\ MaxChars >= 1
  BY BoundsFact DEF Texts
<1>2. CASE Len(t) <= MaxChars
  BY <1>2 DEF Truncated
<1>3. CASE ~(Len(t) <= MaxChars)
  <2>1. PICK b : b = MaxChars - 1
    OBVIOUS
  <2>2. b \in Nat /\ b <= Len(t)
    BY <1>1, <1>3, <2>1
  <2>3. SubSeq(t, 1, b) \in Seq(Deltas)
    BY <1>1, <2>2, PieceFact
  <2>4. <<"[...]">> \in Seq(Deltas)
    BY ShortTexts DEF Texts
  <2>5. SubSeq(t, 1, b) \o <<"[...]">> \in Seq(Deltas)
    BY <2>3, <2>4
  <2> QED
    BY <1>3, <2>1, <2>5 DEF Truncated, Texts
<1> QED
  BY <1>2, <1>3

\* normalizeStoredMessageForLoad keeps the key, and a final message is final.
LEMMA NormalizedFact ==
    ASSUME NEW x \in Messages
    PROVE  /\ Normalized(x) \in Messages /\ Key(Normalized(x)) = Key(x)
           /\ Final(x) => Final(Normalized(x))
<1>1. PICK t \in Texts : t = Truncated(Collapsed(x.text))
  <2>1. x.text \in Texts
    BY DEF Messages
  <2> QED
    BY <2>1, CollapsedFact, TruncatedFact
<1>2. PICK s : s = IF Final(x) \/ ~HasContent(x) THEN x.st ELSE "complete"
  OBVIOUS
<1>3. s \in {"loading", "streaming", "complete", "error"} /\ (Final(x) => s = x.st)
  BY <1>2 DEF Messages
<1>4. PICK y : y = [x EXCEPT !.text = t, !.st = s]
  OBVIOUS
<1>5. Normalized(x) = y
  BY <1>1, <1>2, <1>4 DEF Normalized
<1>6. y \in Messages /\ Key(y) = Key(x) /\ y.st = s
  BY <1>3, <1>4 DEF Messages, Key
<1> QED
  BY <1>3, <1>5, <1>6 DEF Final

\* It makes a conversation of a conversation.
NormalizedList(l) == [i \in DOMAIN l |-> Normalized(l[i])]

LEMMA NormalizedListFact ==
    ASSUME NEW g, NEW l, ListOK(l, g), NEW e, e = NormalizedList(l)
    PROVE  /\ ListOK(e, g) /\ Len(e) = Len(l) /\ Len(l) \in Nat
           /\ \A i \in 1..Len(l) : /\ e[i] = Normalized(l[i]) /\ Key(e[i]) = Key(l[i])
                                   /\ Final(l[i]) => Final(e[i])
<1>1. /\ l \in Seq(Messages) /\ Len(l) \in Nat /\ DOMAIN l = 1..Len(l)
      /\ \A i \in 1..Len(l) : l[i] \in Messages
  BY IdsFact
<1>2. DOMAIN e = DOMAIN l /\ e = [i \in DOMAIN e |-> e[i]]
  BY DEF NormalizedList
<1>3. \A i \in 1..Len(l) : e[i] = Normalized(l[i])
  BY <1>1 DEF NormalizedList
<1>4. \A i \in 1..Len(l) : e[i] \in Messages /\ Key(e[i]) = Key(l[i]) /\ (Final(l[i]) => Final(e[i]))
  BY <1>1, <1>3, NormalizedFact
<1>5. e \in Seq(Messages) /\ Len(e) = Len(l)
  BY <1>1, <1>2, <1>4, FunctionIsList
<1>6. \A i \in 1..Len(l) : l[i].from = "user" => Final(e[i])
  BY <1>4 DEF ListOK
<1>7. ListOK(e, g)
  BY <1>4, <1>5, <1>6, SameKeys DEF Lists
<1> QED
  BY <1>1, <1>3, <1>4, <1>5, <1>7

\* sanitizeMessagesOnLoad keeps what is final and makes the last message final.
LEMMA SanitizedFact ==
    ASSUME NEW g, NEW l, ListOK(l, g), NEW s, s = Sanitized(l)
    PROVE  /\ ListOK(s, g) /\ Len(s) = Len(l) /\ Len(l) \in Nat
           /\ \A i \in 1..Len(l) : /\ Key(s[i]) = Key(l[i])
                                   /\ s[i] = l[i] \/ Final(s[i])
                                   /\ Final(l[i]) => s[i] = l[i]
           /\ l # <<>> => Final(s[Len(l)])
<1> DEFINE last == {i \in DOMAIN l : ~Final(l[i]) /\ \A j \in DOMAIN l : j > i => Final(l[j])}
<1>1. l \in Seq(Messages) /\ Len(l) \in Nat /\ DOMAIN l = 1..Len(l)
      /\ \A i \in 1..Len(l) : l[i] \in Messages
  BY IdsFact
<1>2. s = [i \in DOMAIN l |-> IF i \in last THEN Interrupted(l[i]) ELSE l[i]]
  BY DEF Sanitized
<1>3. ASSUME NEW x \in Messages
      PROVE  Interrupted(x) \in Messages /\ Key(Interrupted(x)) = Key(x) /\ Final(Interrupted(x))
  <2>1. PICK t \in Texts : t = <<"error">>
    BY ShortTexts
  <2>2. Interrupted(x) = [x EXCEPT !.st = "error", !.text = t]
    BY <2>1 DEF Interrupted
  <2> QED
    BY <2>2 DEF Messages, Key, Final
<1>4. last = {i \in DOMAIN l : ~Final(l[i]) /\ \A j \in DOMAIN l : j > i => Final(l[j])}
  OBVIOUS
<1> HIDE DEF last
<1>5. \A i \in 1..Len(l) : s[i] = IF i \in last THEN Interrupted(l[i]) ELSE l[i]
  BY <1>1, <1>2
<1>6. \A i \in 1..Len(l) : i \in last => ~Final(l[i])
  BY <1>4
<1>7. ASSUME NEW i \in 1..Len(l)
      PROVE  /\ s[i] \in Messages /\ Key(s[i]) = Key(l[i]) /\ (s[i] = l[i] \/ Final(s[i]))
             /\ Final(l[i]) => s[i] = l[i]
  BY <1>1, <1>3, <1>5, <1>6
<1>8. s \in Seq(Messages) /\ Len(s) = Len(l)
  <2>1. DOMAIN s = DOMAIN l /\ s = [i \in DOMAIN s |-> s[i]]
    BY <1>2
  <2> QED
    BY <1>1, <1>7, <2>1, FunctionIsList
<1>9. \A i \in 1..Len(l) : l[i].from = "user" => Final(s[i])
  BY <1>7 DEF ListOK
<1>10. ListOK(s, g)
  BY <1>7, <1>8, <1>9, SameKeys DEF Lists
<1>11. ASSUME l # <<>> PROVE Final(s[Len(l)])
  <2>1. PICK n : n = Len(l)
    OBVIOUS
  <2>2. n \in 1..Len(l) /\ \A j \in DOMAIN l : ~(j > n)
    BY <1>1, <1>11, <2>1
  <2>3. n \in last \/ Final(l[n])
    BY <1>1, <1>4, <2>2
  <2>4. Final(s[n])
    BY <1>1, <1>3, <1>5, <2>2, <2>3
  <2> QED
    BY <2>1, <2>4
<1> QED
  BY <1>1, <1>7, <1>8, <1>10, <1>11

\* applyEdit changes the text of one message.
LEMMA EditedFact ==
    ASSUME NEW g, ListOK(msgs, g), NEW e, e = Edited
    PROVE  /\ ListOK(e, g) /\ Len(e) = Len(msgs) /\ Len(msgs) \in Nat
           /\ \A i \in 1..Len(msgs) : /\ Key(e[i]) = Key(msgs[i]) /\ (Final(e[i]) <=> Final(msgs[i]))
                                      /\ e[i].st = msgs[i].st
                                      /\ e[i] = msgs[i] \/ e[i].text = <<"edited">>
<1>1. /\ msgs \in Seq(Messages) /\ Len(msgs) \in Nat /\ DOMAIN msgs = 1..Len(msgs)
      /\ \A i \in 1..Len(msgs) : msgs[i] \in Messages
  BY IdsFact
<1>2. PICK t \in Texts : t = <<"edited">>
  BY ShortTexts
<1>3. ASSUME NEW x \in Messages, NEW y, y = [x EXCEPT !.text = t]
      PROVE  /\ y \in Messages /\ y.text = t
             /\ Key(y) = Key(x) /\ (Final(y) <=> Final(x)) /\ y.st = x.st
  BY <1>3 DEF Messages, Key, Final
<1>4. \A i \in 1..Len(msgs) : e[i] = IF Key(msgs[i]) = edit THEN [msgs[i] EXCEPT !.text = t] ELSE msgs[i]
  BY <1>1, <1>2 DEF Edited
<1>5. ASSUME NEW i \in 1..Len(msgs)
      PROVE  /\ e[i] \in Messages /\ Key(e[i]) = Key(msgs[i]) /\ (Final(e[i]) <=> Final(msgs[i]))
             /\ e[i].st = msgs[i].st
             /\ e[i] = msgs[i] \/ e[i].text = t
  <2>1. CASE e[i] = msgs[i]
    BY <1>1, <2>1
  <2>2. CASE e[i] = [msgs[i] EXCEPT !.text = t]
    BY <1>1, <1>3, <2>2
  <2> QED
    BY <1>4, <2>1, <2>2
<1>6. e \in Seq(Messages) /\ Len(e) = Len(msgs)
  <2>1. DOMAIN e = DOMAIN msgs /\ e = [i \in DOMAIN e |-> e[i]]
    BY DEF Edited
  <2> QED
    BY <1>1, <1>5, <2>1, FunctionIsList
<1>7. \A i \in 1..Len(msgs) : msgs[i].from = "user" => Final(e[i])
  BY <1>5 DEF ListOK
<1>8. ListOK(e, g)
  BY <1>5, <1>6, <1>7, SameKeys DEF Lists
<1> QED
  BY <1>1, <1>2, <1>5, <1>6, <1>8

-----------------------------------------------------------------------------
(* The invariant of the conversation. *)

Streaming == rq[gen].at \in {"open", "eof"}
Active == rq[gen].at \in {"headers", "open", "eof", "post"}

\* The buffer and the counts of deltas.
BufferOK ==
    /\ pend.text \in Texts
    /\ Len(pend.text) <= rq[gen].n
    /\ ~Streaming => pend.text = <<>> /\ timer = 0
    /\ \A g \in 0..MaxActs : /\ rq[g].n <= Len(Reply) /\ rq[g].n \in Ends \cup {0}
                             /\ rq[g].at \in {"none", "headers", "post"} => rq[g].n = 0

\* The page that shows nothing in progress is up to date.
ViewOK ==
    /\ ui \in Flags
    /\ ui = Quiet => want = Quiet /\ uq = <<>>

ListsOK == Conversation(msgs, uq, gen) /\ ListOK(stored, gen)

\* A message that is final, or that a saved edit wrote back.
Settled(x, ov) == Final(x) \/ x.id \in ov
SettledBut(l, ov) == \A i \in 1..Len(l) : i < Len(l) => Settled(l[i], ov)
AllSettled(l, ov) == \A i \in 1..Len(l) : Settled(l[i], ov)

\* Only the last message may be pending: it is while the request goes on, and
\* an end that is queued already will settle it.
EndOK ==
    /\ SettledBut(msgs, over) /\ SettledBut(stored, over)
    /\ IF Active THEN Pending(Shown, gen) ELSE AllSettled(Shown, over)

ChatInv == BufferOK /\ ViewOK /\ ListsOK /\ EndOK

\* A final message is kept, unless it is edited or deleted.
Keeps(a, b) ==
    \A i \in 1..Len(a) : Final(a[i]) =>
        \A j \in 1..Len(b) : Key(b[j]) = Key(a[i]) => b[j] = a[i] \/ b[j].text = <<"edited">>

\* A later state keeps every final message.
LEMMA LaterKeeps ==
    ASSUME NEW g, NEW a, ListOK(a, g), NEW b, Later(a, b)
    PROVE  Keeps(a, b)
<1> SUFFICES ASSUME NEW i \in 1..Len(a), Final(a[i]), NEW j \in 1..Len(b), Key(b[j]) = Key(a[i])
             PROVE  b[j] = a[i]
  BY DEF Keeps
<1>1. j \in 1..Len(a) /\ Key(b[j]) = Key(a[j])
  BY DEF Later
<1>2. i = j
  BY <1>1 DEF ListOK
<1> QED
  BY <1>2 DEF Later

\* What Conversation says of the rendered, the latest and the shown list.
LEMMA ConversationFact ==
    ASSUME NEW m, NEW q, NEW g, Conversation(m, q, g)
    PROVE  /\ m \in Lists /\ LatestIn(m, q) \in Lists /\ Rendered(m, q, g) \in Lists
           /\ ListOK(m, g) /\ ListOK(LatestIn(m, q), g) /\ ListOK(Rendered(m, q, g), g)
           /\ Later(m, Rendered(m, q, g)) /\ Later(m, LatestIn(m, q)) /\ QueueFits(q, g)
BY LaterTrans DEF Conversation, ListOK

\* More excused requests settle no less.
LEMMA SettledGrows ==
    ASSUME NEW l, NEW o, NEW p, o \subseteq p
    PROVE  /\ SettledBut(l, o) => SettledBut(l, p)
           /\ AllSettled(l, o) => AllSettled(l, p)
           /\ AllSettled(l, o) => SettledBut(l, o)
BY DEF SettledBut, AllSettled, Settled

\* A later state is settled when its last message is.
LEMMA LaterSettled ==
    ASSUME NEW a \in Lists, NEW b \in Lists, NEW o, Later(a, b), SettledBut(a, o)
    PROVE  /\ SettledBut(b, o)
           /\ b = <<>> \/ Settled(b[Len(b)], o) => AllSettled(b, o)
<1>1. Len(a) = Len(b) /\ Len(b) \in Nat /\ \A i \in 1..Len(a) : i < Len(a) => b[i] = a[i]
  BY DEF Later, Lists
<1>2. SettledBut(b, o)
  BY <1>1 DEF SettledBut
<1>3. ASSUME b = <<>> \/ Settled(b[Len(b)], o) PROVE AllSettled(b, o)
  <2> SUFFICES ASSUME NEW i \in 1..Len(b) PROVE Settled(b[i], o)
    BY DEF AllSettled
  <2>1. b # <<>> /\ (i < Len(b) \/ i = Len(b))
    BY <1>1
  <2> QED
    BY <1>2, <1>3, <2>1 DEF SettledBut
<1> QED
  BY <1>2, <1>3

\* The current generation.
LEMMA InGens ==
    ASSUME RefsOK
    PROVE  gen \in 0..MaxActs /\ gen \in Nat /\ rq[gen] \in Entries /\ (Active => gen # 0) /\ (Streaming => Active)
BY ChatAssumption DEF RefsOK, Active, Streaming

\* A page that shows nothing in progress: no request goes on and all is settled.
LEMMA QuietView ==
    ASSUME RefsOK, FlagsFollow, ChatInv, ~IsGenerating
    PROVE  /\ ui = Quiet /\ want = Quiet /\ uq = <<>> /\ ~Active /\ Shown = msgs /\ AllSettled(msgs, over)
           /\ ListOK(msgs, gen)
<1>1. ui = Quiet
  <2>1. ui \in [req : BOOLEAN, str : BOOLEAN] /\ ~ui.req /\ ~ui.str
    BY DEF ChatInv, ViewOK, Flags, IsGenerating
  <2>2. ui.req = FALSE /\ ui.str = FALSE
    BY <2>1
  <2> QED
    BY <2>1, <2>2 DEF Quiet
<1>2. want = Quiet /\ uq = <<>>
  BY <1>1 DEF ChatInv, ViewOK
<1>3. ~want.req /\ ~want.str
  BY <1>2 DEF Quiet
<1>4. ~Active
  BY <1>3 DEF FlagsFollow, Active
<1>5. Shown = msgs
  BY <1>2, FoldEmpty DEF Shown
<1> QED
  BY <1>1, <1>2, <1>4, <1>5, ConversationFact DEF ChatInv, EndOK, ListsOK

-----------------------------------------------------------------------------
(* The buffer. *)

\* A request moves from one place to another.
LEMMA BufferMoved ==
    ASSUME RefsOK, BufferOK, NEW g \in Gens, NEW p \in {"open", "eof", "gone"},
           rq' = [rq EXCEPT ![g].at = p], gen' = gen, pend'.text \in {pend.text, <<>>},
           ~Streaming' => pend'.text = <<>> /\ timer' = 0
    PROVE  BufferOK'
<1>1. g \in 0..MaxActs /\ gen \in 0..MaxActs
  BY GensRange, InGens
<1> DEFINE e == [rq[g] EXCEPT !.at = p]
<1>2. e.at = p /\ e.n = rq[g].n
  BY <1>1 DEF RefsOK, Entries
<1>3. rq' = [rq EXCEPT ![g] = e]
  OBVIOUS
<1> HIDE DEF e
<1>4. \A h \in 0..MaxActs : rq'[h].n = rq[h].n /\ (rq'[h] = rq[h] \/ rq'[h].at = p)
  BY <1>1, <1>2, <1>3 DEF RefsOK
<1>5. \A h \in 0..MaxActs : /\ rq'[h].n <= Len(Reply) /\ rq'[h].n \in Ends \cup {0}
                            /\ rq'[h].at \in {"none", "headers", "post"} => rq'[h].n = 0
  BY <1>4 DEF BufferOK
<1>6. rq[gen].n \in Nat /\ Len(<<>>) = 0 /\ 0 <= rq[gen].n
  BY InGens DEF Entries
<1>7. pend'.text \in Texts /\ Len(pend'.text) <= rq'[gen'].n
  BY <1>1, <1>4, <1>6, ShortTexts DEF BufferOK
<1> QED
  BY <1>5, <1>7 DEF BufferOK

\* The requests stay where they are.
LEMMA BufferKept ==
    ASSUME RefsOK, BufferOK, UNCHANGED <<gen, rq>>, pend'.text \in {pend.text, <<>>},
           ~Streaming' => pend'.text = <<>> /\ timer' = 0
    PROVE  BufferOK'
<1>1. rq[gen].n \in Nat /\ Len(<<>>) = 0 /\ 0 <= rq[gen].n
  BY InGens DEF Entries
<1>2. pend'.text \in Texts /\ Len(pend'.text) <= rq'[gen'].n
  BY <1>1, ShortTexts DEF BufferOK
<1> QED
  BY <1>2 DEF BufferOK

\* A generation begins with an empty buffer and no timer.
LEMMA BufferFresh ==
    ASSUME BufferOK, RefsOK', pend'.text = <<>>, timer' = 0,
           \A h \in 0..MaxActs : /\ rq'[h].n = rq[h].n
                                 /\ rq'[h].at \in {"none", "headers", "post"} =>
                                       rq[h].at \in {"none", "headers", "post"}
    PROVE  BufferOK'
<1>1. \A h \in 0..MaxActs : /\ rq'[h].n <= Len(Reply) /\ rq'[h].n \in Ends \cup {0}
                            /\ rq'[h].at \in {"none", "headers", "post"} => rq'[h].n = 0
  BY DEF BufferOK
<1>2. gen' \in 0..MaxActs /\ rq'[gen'] \in Entries
  BY ChatAssumption DEF RefsOK
<1>3. rq'[gen'].n \in Nat
  BY <1>2 DEF Entries
<1>4. Len(<<>>) = 0 /\ <<>> \in Texts
  BY ShortTexts
<1>5. Len(pend'.text) <= rq'[gen'].n
  BY <1>3, <1>4
<1> QED
  BY <1>1, <1>4, <1>5 DEF BufferOK

\* The end of the current request empties the buffer.
LEMMA FinishEmpties ==
    ASSUME RefsOK, NEW op, Finish(gen, op)
    PROVE  pend'.text = <<>> /\ timer' = 0 /\ Queued(Enqueue(Flushed({uq}), Op(op, gen), gen))
<1>1. pend = [g |-> gen, text |-> pend.text]
  BY DEF RefsOK
<1>2. timer' = 0 /\ pend' = [pend EXCEPT !.text = <<>>]
  BY <1>1 DEF Finish
<1>3. pend'.text = <<>>
  BY <1>1, <1>2
<1> QED
  BY <1>2, <1>3 DEF Finish

-----------------------------------------------------------------------------
(* The conversation, by what a step does to it. *)

\* Nothing the page shows or will show changes.
LEMMA StillLists ==
    ASSUME ListsOK, EndOK, UNCHANGED <<gen, msgs, uq, stored, over>>, Active' <=> Active
    PROVE  ListsOK' /\ EndOK'
<1>1. Shown' = Shown
  BY DEF Shown
<1> QED
  BY <1>1 DEF ListsOK, EndOK

\* The updates that wait are rendered.
LEMMA RenderLists ==
    ASSUME ListsOK, EndOK, msgs' = Shown, uq' = <<>>, UNCHANGED <<gen, rq, stored, over>>
    PROVE  ListsOK' /\ EndOK' /\ Keeps(msgs, msgs')
<1>1. /\ msgs \in Lists /\ Shown \in Lists /\ ListOK(msgs, gen) /\ ListOK(Shown, gen) /\ Later(msgs, Shown)
  BY ConversationFact DEF ListsOK, Shown
<1>2. Conversation(msgs', uq', gen') /\ Rendered(msgs', uq', gen') = Shown
  BY <1>1, ConversationIdle
<1>3. Shown' = Shown
  BY <1>2 DEF Shown
<1>4. SettledBut(Shown, over)
  BY <1>1, LaterSettled DEF EndOK
<1>5. ListsOK'
  BY <1>2 DEF ListsOK
<1>6. Active' <=> Active
  BY DEF Active
<1>7. EndOK'
  BY <1>3, <1>4, <1>6 DEF EndOK
<1> QED
  BY <1>1, <1>5, <1>7, LaterKeeps

\* The flush timer queues what waits.
LEMMA FlushLists ==
    ASSUME RefsOK, BufferOK, ListsOK, EndOK, Active, Queued(Flushed({uq})),
           UNCHANGED <<gen, rq, msgs, stored, over>>
    PROVE  ListsOK' /\ EndOK'
<1>1. Pending(Shown, gen) /\ gen # 0 /\ pend.text \in Texts /\ Shown \in Lists
  BY InGens, ConversationFact DEF EndOK, BufferOK, ListsOK, Shown
<1>2. uq' \in Flushed({uq})
  BY DEF Queued
<1>3. Conversation(msgs, uq, gen)
  BY DEF ListsOK
<1>4. Conversation(msgs, uq', gen) /\ Rendered(msgs, uq', gen) = FlushedList
  BY <1>1, <1>2, <1>3, FlushedGood
<1>5. Shown' = FlushedList
  BY <1>4 DEF Shown
<1>6. Pending(FlushedList, gen)
  BY <1>1, FlushedPends
<1>7. ListsOK'
  BY <1>4 DEF ListsOK
<1>8. Active'
  BY DEF Active
<1> QED
  BY <1>5, <1>6, <1>7, <1>8 DEF EndOK

\* An end is queued for the current request.
LEMMA EndLists ==
    ASSUME RefsOK, ListsOK, EndOK, gen # 0, NEW R \in Lists, Pending(R, gen),
           NEW qs, \A q \in qs : Conversation(msgs, q, gen) /\ Rendered(msgs, q, gen) = R,
           NEW o, SoftOp(o), o.g = gen, o.op # "chunk", uq' \in Enqueue(qs, o, gen),
           UNCHANGED <<gen, msgs, stored, over>>, ~Active'
    PROVE  ListsOK' /\ EndOK' /\ Shown' = Eval(o, R, gen)
<1>1. gen \in Nat
  BY InGens
<1>2. PICK r : r = uq'
  OBVIOUS
<1>3. PICK e : e = Rendered(msgs, r, gen)
  OBVIOUS
<1>4. Conversation(msgs, r, gen) /\ e = Eval(o, R, gen) /\ e # <<>> /\ Final(e[Len(e)])
  BY <1>1, <1>2, <1>3, EndGood
<1>5. Shown' = e
  BY <1>2, <1>3 DEF Shown
<1>6. msgs \in Lists /\ e \in Lists /\ Later(msgs, e)
  BY <1>3, <1>4, ConversationFact
<1>7. SettledBut(msgs, over) /\ SettledBut(stored, over)
  BY DEF EndOK
<1>8. Settled(e[Len(e)], over)
  BY <1>4 DEF Settled
<1>9. AllSettled(e, over)
  BY <1>6, <1>7, <1>8, LaterSettled
<1>10. ListsOK'
  BY <1>2, <1>4 DEF ListsOK
<1>11. EndOK'
  BY <1>5, <1>7, <1>9 DEF EndOK
<1> QED
  BY <1>4, <1>5, <1>10, <1>11

\* handleStreamComplete and handleStreamError,
LEMMA FinishLists ==
    ASSUME RefsOK, BufferOK, ListsOK, EndOK, Active, NEW op \in {"complete", "error"}, Finish(gen, op),
           UNCHANGED <<gen, msgs, stored, over>>, ~Active'
    PROVE  ListsOK' /\ EndOK' /\ Shown' = Eval(Op(op, gen), FlushedList, gen)
<1>1. Pending(Shown, gen) /\ gen # 0 /\ pend.text \in Texts /\ Shown \in Lists
  BY InGens, ConversationFact DEF EndOK, BufferOK, ListsOK, Shown
<1>2. uq' \in Enqueue(Flushed({uq}), Op(op, gen), gen)
  BY FinishEmpties DEF Queued
<1>3. Conversation(msgs, uq, gen)
  BY DEF ListsOK
<1>4. \A q \in Flushed({uq}) : Conversation(msgs, q, gen) /\ Rendered(msgs, q, gen) = FlushedList
  BY <1>1, <1>3, FlushedGood
<1>5. Pending(FlushedList, gen) /\ FlushedList \in Lists
  BY <1>1, FlushedPends
<1>6. PICK o : o = Op(op, gen)
  OBVIOUS
<1>7. o.op = op /\ o.g = gen /\ o.text = <<>>
  BY <1>6, OpFact
<1>8. SoftOp(o) /\ o.op # "chunk"
  BY <1>7, ShortTexts DEF SoftOp
<1>9. PICK R, qs : R = FlushedList /\ qs = Flushed({uq})
  OBVIOUS
<1>10. ListsOK' /\ EndOK' /\ Shown' = Eval(o, R, gen)
  BY <1>1, <1>2, <1>4, <1>5, <1>6, <1>7, <1>8, <1>9, EndLists
<1> QED
  BY <1>6, <1>9, <1>10

\* and the answer of a request that does not stream.
LEMMA AnswerLists ==
    ASSUME RefsOK, ListsOK, EndOK, Active, NEW o, o = [Op("answer", gen) EXCEPT !.text = Reply],
           Queued(Enqueue({uq}, o, gen)), UNCHANGED <<gen, msgs, stored, over>>, ~Active'
    PROVE  ListsOK' /\ EndOK' /\ Shown' = Eval(o, Shown, gen)
<1>1. Pending(Shown, gen) /\ gen # 0 /\ Shown \in Lists
  BY InGens, ConversationFact DEF EndOK, ListsOK, Shown
<1>2. uq' \in Enqueue({uq}, o, gen)
  BY DEF Queued
<1>3. \A q \in {uq} : Conversation(msgs, q, gen) /\ Rendered(msgs, q, gen) = Shown
  BY DEF ListsOK, Shown
<1>4. o.op = "answer" /\ o.g = gen /\ o.text = Reply
  BY OpFact
<1>5. SoftOp(o) /\ o.op # "chunk"
  BY <1>4, ReplyFact DEF SoftOp
<1>6. PICK R, qs : R = Shown /\ qs = {uq}
  OBVIOUS
<1>7. ListsOK' /\ EndOK' /\ Shown' = Eval(o, R, gen)
  BY <1>1, <1>2, <1>3, <1>4, <1>5, <1>6, EndLists
<1> QED
  BY <1>6, <1>7

\* A list is written and rendered at once.
LEMMA Written ==
    ASSUME NEW list, ListOK(list, gen'), msgs' = list, uq' = <<>>,
           ListOK(stored', gen'), SettledBut(stored', over'), SettledBut(list, over'),
           IF Active' THEN Pending(list, gen') ELSE AllSettled(list, over')
    PROVE  ListsOK' /\ EndOK' /\ Shown' = list
<1>1. Conversation(msgs', uq', gen') /\ Rendered(msgs', uq', gen') = list
  BY ConversationIdle
<1>2. Shown' = list
  BY <1>1 DEF Shown
<1> QED
  BY <1>1, <1>2 DEF ListsOK, EndOK

\* What the user does is rendered at once.
LEMMA Committed ==
    ASSUME NEW qs, UserUpdate(qs)
    PROVE  /\ uq' = <<>> /\ ui' = want' /\ stored' = stored
           /\ \E q \in qs : msgs' = Rendered(msgs, q, gen')
BY DEF UserUpdate, Commit, Rendered

\* A list that is written is what is rendered.
LEMMA CommittedList ==
    ASSUME ListsOK, NEW list \in Lists, UserUpdate(Enqueue({uq}, Replace(list), gen))
    PROVE  msgs' = list /\ uq' = <<>> /\ ui' = want' /\ stored' = stored
<1>1. PICK q \in Enqueue({uq}, Replace(list), gen) : msgs' = Rendered(msgs, q, gen')
  BY Committed
<1>2. QueueFits(uq, gen) /\ msgs \in Lists
  BY ConversationFact DEF ListsOK
<1>3. \A h : Rendered(msgs, q, h) = list
  BY <1>2, ReplaceGood
<1> QED
  BY <1>1, <1>3, Committed

\* A request is sent with the messages of list.
LEMMA SendLists ==
    ASSUME RefsOK, ListsOK, EndOK, NEW list, ListOK(list, gen + 1), Pending(list, gen + 1),
           SettledBut(list, over'), over \subseteq over', SendChat(list)
    PROVE  ListsOK' /\ EndOK' /\ msgs' = list /\ uq' = <<>> /\ Shown' = list /\ Active'
<1>1. list \in Lists /\ gen' = gen + 1 /\ gen \in Nat
  BY InGens DEF ListOK, SendChat
<1>2. msgs' = list /\ uq' = <<>> /\ stored' = stored
  BY <1>1, CommittedList DEF SendChat
<1>3. ListOK(stored, gen + 1) /\ SettledBut(stored, over')
  BY <1>1, ListOKGrows, SettledGrows DEF ListsOK, EndOK
<1>4. Active'
  <2>1. gen + 1 \in 0..MaxActs
    BY RoomForOne DEF SendChat
  <2>2. PICK p \in {"headers", "post"} : rq' = [rq EXCEPT ![gen + 1].at = p]
    BY DEF SendChat
  <2>3. rq'[gen + 1].at = p
    BY <2>1, <2>2 DEF RefsOK, Entries
  <2> QED
    BY <1>1, <2>3 DEF Active
<1> QED
  BY <1>1, <1>2, <1>3, <1>4, Written

-----------------------------------------------------------------------------
(* The invariant of the conversation, action by action. *)

\* Nothing changes on the page.
LEMMA KeepsSame ==
    ASSUME ListsOK, msgs' = msgs
    PROVE  Keeps(msgs, msgs')
BY ConversationFact, LaterSelf, LaterKeeps DEF ListsOK

\* One request moves, the others stay.
LEMMA RqMoved ==
    ASSUME RefsOK, NEW g \in Gens, NEW p, rq' = [rq EXCEPT ![g].at = p]
    PROVE  /\ rq'[g].at = p /\ rq'[g].n = rq[g].n /\ g \in 0..MaxActs
           /\ \A h \in 0..MaxActs : h # g => rq'[h] = rq[h]
<1>1. g \in 0..MaxActs
  BY GensRange
<1> DEFINE e == [rq[g] EXCEPT !.at = p]
<1>2. e.at = p /\ e.n = rq[g].n
  BY <1>1 DEF RefsOK, Entries
<1>3. rq' = [rq EXCEPT ![g] = e]
  OBVIOUS
<1> HIDE DEF e
<1> QED
  BY <1>1, <1>2, <1>3 DEF RefsOK

\* While a request goes on the page shows it, or is about to.
LEMMA ActiveShows ==
    ASSUME RefsOK, FlagsFollow, ViewOK, Active
    PROVE  ui # Quiet
<1>1. want.req \/ want.str
  BY DEF FlagsFollow, Active
<1>2. want # Quiet
  BY <1>1 DEF Quiet
<1> QED
  BY <1>2 DEF ViewOK

\* An earlier request ends unnoticed.
LEMMA OtherMoves ==
    ASSUME RefsOK, ChatInv, NEW g \in Gens, g # gen, NEW p \in {"open", "eof", "gone"},
           rq' = [rq EXCEPT ![g].at = p],
           UNCHANGED <<gen, pend, timer, want, ui, msgs, uq, stored, over>>
    PROVE  ChatInv' /\ Keeps(msgs, msgs')
<1>1. rq'[gen] = rq[gen]
  BY RqMoved, InGens
<1>2. (Active' <=> Active) /\ (Streaming' <=> Streaming)
  BY <1>1 DEF Active, Streaming
<1>3. BufferOK'
  BY <1>2, BufferMoved DEF ChatInv, BufferOK
<1>4. ViewOK'
  BY DEF ChatInv, ViewOK
<1> QED
  BY <1>2, <1>3, <1>4, StillLists, KeepsSame DEF ChatInv

\* The current request goes on.
LEMMA CurrentMoves ==
    ASSUME RefsOK, FlagsFollow, ChatInv, gen \in Gens, Active, NEW p \in {"open", "eof"},
           rq' = [rq EXCEPT ![gen].at = p],
           UNCHANGED <<gen, pend, timer, ui, msgs, uq, stored, over>>
    PROVE  ChatInv' /\ Keeps(msgs, msgs')
<1>1. rq'[gen].at = p
  BY RqMoved
<1>2. Active' /\ Streaming'
  BY <1>1 DEF Active, Streaming
<1>3. BufferOK'
  BY <1>2, BufferMoved DEF ChatInv
<1>4. ViewOK'
  BY ActiveShows DEF ChatInv, ViewOK
<1> QED
  BY <1>2, <1>3, <1>4, StillLists, KeepsSame DEF ChatInv

\* The current request comes to its end.
LEMMA CurrentEnds ==
    ASSUME RefsOK, FlagsFollow, ChatInv, gen \in Gens, Active, NEW op \in {"complete", "error"},
           Finish(gen, op), rq' = [rq EXCEPT ![gen].at = "gone"],
           UNCHANGED <<gen, ui, msgs, stored, over>>
    PROVE  ChatInv' /\ Keeps(msgs, msgs') /\ Shown' = Eval(Op(op, gen), FlushedList, gen)
<1>1. rq'[gen].at = "gone"
  BY RqMoved
<1>2. ~Active'
  BY <1>1 DEF Active
<1>3. BufferOK'
  BY BufferMoved, FinishEmpties DEF ChatInv
<1>4. ViewOK'
  BY ActiveShows DEF ChatInv, ViewOK
<1>5. ListsOK' /\ EndOK' /\ Shown' = Eval(Op(op, gen), FlushedList, gen)
  BY <1>2, FinishLists DEF ChatInv
<1> QED
  BY <1>3, <1>4, <1>5, KeepsSame DEF ChatInv

\* The invariant through getFreshAuthHeaders,
LEMMA ChatHeaders ==
    ASSUME RefsOK, FlagsFollow, ChatInv, NEW g \in Gens, Headers(g)
    PROVE  ChatInv' /\ Keeps(msgs, msgs')
<1>1. rq[g].at = "headers" /\ UNCHANGED <<gen, pend, timer, ui, msgs, uq, stored, over>>
  BY DEF Headers, view, disk, ghosts
<1>2. CASE cur = g
  <2>1. g = gen
    BY <1>2, GensRange DEF RefsOK
  <2>2. Active
    BY <1>1, <2>1 DEF Active
  <2>3. rq' = [rq EXCEPT ![gen].at = "open"]
    BY <1>2, <2>1 DEF Headers
  <2> QED
    BY <1>1, <2>1, <2>2, <2>3, CurrentMoves
<1>3. CASE cur # g
  <2>1. g # gen
    BY <1>1, <1>3 DEF FlagsFollow
  <2>2. want' = want /\ rq' = [rq EXCEPT ![g].at = "gone"]
    BY <1>3 DEF Headers
  <2> QED
    BY <1>1, <2>1, <2>2, OtherMoves
<1> QED
  BY <1>2, <1>3

\* its failure,
LEMMA ChatHeadersFail ==
    ASSUME RefsOK, FlagsFollow, ChatInv, NEW g \in Gens, HeadersFail(g)
    PROVE  ChatInv' /\ Keeps(msgs, msgs')
<1>1. /\ rq[g].at = "headers" /\ rq' = [rq EXCEPT ![g].at = "gone"]
      /\ UNCHANGED <<gen, ui, msgs, stored, over>>
  BY DEF HeadersFail, view, ghosts
<1>2. CASE cur = g
  <2>1. g = gen
    BY <1>2, GensRange DEF RefsOK
  <2>2. Active
    BY <1>1, <2>1 DEF Active
  <2>3. Finish(gen, "error")
    BY <1>2, <2>1 DEF HeadersFail
  <2> QED
    BY <1>1, <2>1, <2>2, <2>3, CurrentEnds
<1>3. CASE cur # g
  <2>1. g # gen
    BY <1>1, <1>3 DEF FlagsFollow
  <2>2. UNCHANGED <<pend, timer, uq, want>>
    BY <1>3 DEF HeadersFail
  <2> QED
    BY <1>1, <2>1, <2>2, OtherMoves
<1> QED
  BY <1>2, <1>3

\* the end of the stream,
LEMMA ChatStreamEnd ==
    ASSUME RefsOK, FlagsFollow, ChatInv, NEW g \in Gens, NEW op \in {"complete", "error"}, StreamEnd(g, op)
    PROVE  ChatInv' /\ Keeps(msgs, msgs')
<1>1. /\ rq[g].at = "open" /\ rq' = [rq EXCEPT ![g].at = "gone"]
      /\ UNCHANGED <<gen, ui, msgs, stored, over>>
  BY DEF StreamEnd, view, ghosts
<1>2. CASE IsCurrent(g)
  <2>1. g = gen
    BY <1>2, GensRange DEF RefsOK, IsCurrent
  <2>2. Active
    BY <1>1, <2>1 DEF Active
  <2>3. Finish(gen, op)
    BY <1>2, <2>1 DEF StreamEnd
  <2> QED
    BY <1>1, <2>1, <2>2, <2>3, CurrentEnds
<1>3. CASE ~IsCurrent(g)
  <2>1. g # gen
    BY <1>1, <1>3 DEF FlagsFollow, IsCurrent
  <2>2. UNCHANGED <<pend, timer, uq, want>>
    BY <1>3 DEF StreamEnd
  <2> QED
    BY <1>1, <2>1, <2>2, OtherMoves
<1> QED
  BY <1>2, <1>3

\* an end without [DONE],
LEMMA ChatStreamEof ==
    ASSUME RefsOK, FlagsFollow, ChatInv, NEW g \in Gens, StreamEof(g)
    PROVE  ChatInv' /\ Keeps(msgs, msgs')
<1>1. /\ rq[g].at = "open" /\ rq' = [rq EXCEPT ![g].at = "eof"]
      /\ UNCHANGED <<gen, pend, timer, want, ui, msgs, uq, stored, over>>
  BY DEF StreamEof, view, disk, ghosts
<1>2. CASE g = gen
  <2>1. Active
    BY <1>1, <1>2 DEF Active
  <2> QED
    BY <1>1, <1>2, <2>1, CurrentMoves
<1>3. CASE g # gen
  BY <1>1, <1>3, OtherMoves
<1> QED
  BY <1>2, <1>3

\* the answer of a request that does not stream,
LEMMA ChatPostAnswer ==
    ASSUME RefsOK, FlagsFollow, ChatInv, NEW g \in Gens, PostAnswer(g)
    PROVE  ChatInv' /\ Keeps(msgs, msgs')
<1>1. /\ rq[g].at = "post" /\ rq' = [rq EXCEPT ![g].at = "gone"]
      /\ UNCHANGED <<gen, ui, msgs, stored, over>>
  BY DEF PostAnswer, view, ghosts
<1>2. CASE g = gen /\ abort = g
  <2>1. Active /\ ~Streaming
    BY <1>1, <1>2 DEF Active, Streaming
  <2>2. CASE Finish(gen, "error")
    BY <1>1, <1>2, <2>1, <2>2, CurrentEnds
  <2>3. CASE Queued(Enqueue({uq}, [Op("answer", g) EXCEPT !.text = Reply], gen)) /\ UNCHANGED <<pend, timer>>
    <3>1. PICK o : o = [Op("answer", gen) EXCEPT !.text = Reply]
      OBVIOUS
    <3>2. rq'[gen].at = "gone"
      BY <1>1, <1>2, RqMoved
    <3>3. ~Active'
      BY <1>1, <3>2 DEF Active
    <3>4. ListsOK' /\ EndOK'
      BY <1>1, <1>2, <2>1, <2>3, <3>1, <3>3, AnswerLists DEF ChatInv
    <3>5. BufferOK'
      BY <1>1, <1>2, <2>1, <2>3, BufferMoved DEF ChatInv, BufferOK
    <3>6. ViewOK'
      BY <1>1, <2>1, ActiveShows DEF ChatInv, ViewOK
    <3> QED
      BY <1>1, <3>4, <3>5, <3>6, KeepsSame DEF ChatInv
  <2> QED
    BY <1>2, <2>2, <2>3 DEF PostAnswer
<1>3. CASE g # gen \/ abort # g
  <2>1. g # gen
    BY <1>1, <1>3 DEF FlagsFollow
  <2>2. UNCHANGED <<pend, timer, uq, want>>
    BY <1>3 DEF PostAnswer
  <2> QED
    BY <1>1, <2>1, <2>2, OtherMoves
<1> QED
  BY <1>2, <1>3

\* Where the deltas end.
LEMMA EndsFact ==
    \A m \in Ends : m \in Nat /\ m >= 1 /\ m <= Len(Reply)
<1>1. Ends \subseteq 1..Len(Reply) /\ Len(Reply) \in Nat
  BY ChatAssumption, ReplyFact
<1> QED
  BY <1>1

\* The characters of the reply from a to b.
LEMMA PieceOfReply ==
    ASSUME NEW a \in Nat, NEW b \in Nat, a <= b, b <= Len(Reply)
    PROVE  SubSeq(Reply, a + 1, b) \in Texts /\ Len(SubSeq(Reply, a + 1, b)) = b - a
<1>1. Reply \in Texts /\ Len(Reply) \in Nat /\ \A i \in 1..Len(Reply) : Reply[i] \in Deltas
  BY ReplyFact
<1>2. PICK c : c = a + 1
  OBVIOUS
<1>3. c \in Int /\ b \in Int /\ \A i \in c..b : i \in 1..Len(Reply)
  BY <1>1, <1>2
<1>4. \A i \in c..b : Reply[i] \in Deltas
  BY <1>1, <1>3
<1>5. /\ SubSeq(Reply, c, b) \in Seq(Deltas)
      /\ Len(SubSeq(Reply, c, b)) = IF c <= b THEN b - c + 1 ELSE 0
  BY <1>3, <1>4, SubSeqProperties
<1>6. Len(SubSeq(Reply, c, b)) = b - a
  BY <1>2, <1>5
<1> QED
  BY <1>2, <1>5, <1>6 DEF Texts

\* and a delta, which is merged into what waits.
LEMMA ChatDelta ==
    ASSUME RefsOK, FlagsFollow, ChatInv, NEW g \in Gens, Delta(g)
    PROVE  /\ ChatInv' /\ Keeps(msgs, msgs')
           /\ \E m \in Ends :
                /\ DeltaEnds(rq[g].n, m) /\ rq' = [rq EXCEPT ![g].n = m]
                /\ g = gen => pend'.text = MergeChunk(pend.text, SubSeq(Reply, rq[g].n + 1, m))
<1>0. PICK m \in Ends :
        /\ rq[g].at = "open" /\ DeltaEnds(rq[g].n, m) /\ rq' = [rq EXCEPT ![g].n = m]
        /\ UNCHANGED <<gen, want, ui, msgs, uq, stored, over>>
        /\ IF IsCurrent(g) /\ g = gen /\ pend.g = g
           THEN pend' = [pend EXCEPT !.text = MergeChunk(@, SubSeq(Reply, rq[g].n + 1, m))]
           ELSE UNCHANGED <<pend, timer>>
  BY DEF Delta, view, disk, ghosts
<1>1. /\ rq[g].at = "open" /\ rq[g].n < m /\ rq' = [rq EXCEPT ![g].n = m]
      /\ UNCHANGED <<gen, want, ui, msgs, uq, stored, over>>
  BY <1>0 DEF DeltaEnds
<1>2. g \in 0..MaxActs /\ gen \in 0..MaxActs
  BY GensRange, InGens
<1> DEFINE e == [rq[g] EXCEPT !.n = m]
<1>3. e.at = rq[g].at /\ e.n = m /\ rq[g].n \in Nat
  BY <1>2 DEF RefsOK, Entries
<1>4. rq' = [rq EXCEPT ![g] = e]
  BY <1>1
<1> HIDE DEF e
<1>5. \A h \in 0..MaxActs : rq'[h].at = rq[h].at /\ (h # g => rq'[h] = rq[h])
  BY <1>2, <1>3, <1>4 DEF RefsOK
<1>6. rq'[g].n = m /\ m \in Nat /\ m <= Len(Reply)
  BY <1>2, <1>3, <1>4, EndsFact DEF RefsOK
<1>7. (Active' <=> Active) /\ (Streaming' <=> Streaming)
  BY <1>1, <1>2, <1>5 DEF Active, Streaming
<1>8. ListsOK' /\ EndOK' /\ Keeps(msgs, msgs') /\ ViewOK'
  BY <1>1, <1>7, StillLists, KeepsSame DEF ChatInv, ViewOK
<1>9. \A h \in 0..MaxActs : /\ rq'[h].n <= Len(Reply) /\ rq'[h].n \in Ends \cup {0}
                            /\ rq'[h].at \in {"none", "headers", "post"} => rq'[h].n = 0
  <2> TAKE h \in 0..MaxActs
  <2>1. CASE h = g
    BY <1>1, <1>5, <1>6, <2>1
  <2>2. CASE h # g
    BY <1>5, <2>2 DEF ChatInv, BufferOK
  <2> QED
    BY <2>1, <2>2
<1>10. CASE g # gen
  <2>1. UNCHANGED <<pend, timer>>
    BY <1>0, <1>10
  <2>2. rq'[gen] = rq[gen]
    BY <1>2, <1>5, <1>10
  <2>3. BufferOK'
    BY <1>1, <1>7, <1>9, <2>1, <2>2 DEF ChatInv, BufferOK
  <2> QED
    BY <1>0, <1>8, <1>10, <2>3 DEF ChatInv
<1>11. CASE g = gen
  <2>1. Streaming /\ cur = gen /\ source = gen
    BY <1>1, <1>11 DEF Streaming, FlagsFollow
  <2>2. pend = [g |-> gen, text |-> pend.text]
    BY DEF RefsOK
  <2>3. PICK c : c = SubSeq(Reply, rq[g].n + 1, m)
    OBVIOUS
  <2>4. pend' = [pend EXCEPT !.text = MergeChunk(@, c)]
    <3>1. pend.g = g /\ IsCurrent(g)
      BY <1>11, <2>1, <2>2 DEF IsCurrent
    <3> QED
      BY <1>0, <1>11, <2>3, <3>1
  <2>5. pend'.text = MergeChunk(pend.text, c)
    BY <2>2, <2>4
  <2>6. c \in Texts /\ Len(c) = m - rq[g].n
    BY <1>1, <1>3, <1>6, <2>3, PieceOfReply
  <2>7. pend.text \in Texts /\ Len(pend.text) <= rq[g].n /\ Len(pend.text) \in Nat
    BY <1>11 DEF ChatInv, BufferOK, Texts
  <2>8. PICK t : t = MergeChunk(pend.text, c)
    OBVIOUS
  <2>9. t \in Texts /\ Len(t) <= Len(pend.text) + Len(c) /\ Len(t) \in Nat
    <3>1. t \in Texts /\ Len(t) <= Len(pend.text) + Len(c)
      BY <2>6, <2>7, <2>8, MergeFact
    <3> QED
      BY <3>1 DEF Texts
  <2>10. Len(t) <= m
    BY <1>3, <1>6, <2>6, <2>7, <2>9
  <2>11. BufferOK'
    BY <1>1, <1>6, <1>7, <1>9, <1>11, <2>1, <2>5, <2>8, <2>9, <2>10 DEF BufferOK
  <2> QED
    BY <1>0, <1>8, <1>11, <2>3, <2>5, <2>11 DEF ChatInv
<1> QED
  BY <1>10, <1>11

\* The same messages, of which the final ones are not changed.
Follows(a, b) ==
    /\ Len(b) = Len(a)
    /\ \A i \in 1..Len(a) : Key(b[i]) = Key(a[i]) /\ (Final(a[i]) => b[i] = a[i])

\* A later state follows,
LEMMA LaterFollows ==
    ASSUME NEW a, NEW b, Later(a, b)
    PROVE  Follows(a, b)
BY DEF Later, Follows

\* following is transitive,
LEMMA FollowsTrans ==
    ASSUME NEW a, NEW b, NEW c, Follows(a, b), Follows(b, c)
    PROVE  Follows(a, c)
BY DEF Follows

\* Every message of b comes from one of a, or belongs to a later generation.
LEMMA KeepsBy ==
    ASSUME NEW g \in Nat, NEW a, ListOK(a, g), NEW b \in Lists,
           \A j \in 1..Len(b) :
              \/ \E i \in 1..Len(a) : /\ Key(b[j]) = Key(a[i])
                                      /\ Final(a[i]) => b[j] = a[i] \/ b[j].text = <<"edited">>
              \/ b[j].id = g + 1
    PROVE  Keeps(a, b)
<1> SUFFICES ASSUME NEW i \in 1..Len(a), Final(a[i]), NEW j \in 1..Len(b), Key(b[j]) = Key(a[i])
             PROVE  b[j] = a[i] \/ b[j].text = <<"edited">>
  BY DEF Keeps
<1>1. CASE b[j].id = g + 1
  <2>1. a[i].id \in Nat /\ a[i].id <= g
    BY IdsFact
  <2>2. b[j].id = a[i].id
    BY DEF Key
  <2> QED
    BY <1>1, <2>1, <2>2
<1>2. CASE b[j].id # g + 1
  <2>1. PICK k \in 1..Len(a) : /\ Key(b[j]) = Key(a[k])
                               /\ Final(a[k]) => b[j] = a[k] \/ b[j].text = <<"edited">>
    BY <1>2
  <2>2. k = i
    BY <2>1 DEF ListOK
  <2> QED
    BY <2>1, <2>2
<1> QED
  BY <1>1, <1>2

\* and keeps what is final.
LEMMA FollowsKeeps ==
    ASSUME NEW g, NEW a, ListOK(a, g), NEW b, Follows(a, b)
    PROVE  Keeps(a, b)
<1> SUFFICES ASSUME NEW i \in 1..Len(a), Final(a[i]), NEW j \in 1..Len(b), Key(b[j]) = Key(a[i])
             PROVE  b[j] = a[i]
  BY DEF Keeps
<1>1. j \in 1..Len(a) /\ Key(b[j]) = Key(a[j])
  BY DEF Follows
<1>2. i = j
  BY <1>1 DEF ListOK
<1> QED
  BY <1>2 DEF Follows

\* Every message of b is one of a.
PartOf(b, a) == \A j \in 1..Len(b) : \E i \in 1..Len(a) : b[j] = a[i]

\* trimMessages keeps the end of a conversation.
LEMMA TrimFact ==
    ASSUME NEW g, NEW l, ListOK(l, g), NEW o, SettledBut(l, o), NEW e, e = Trim(l)
    PROVE  ListOK(e, g) /\ SettledBut(e, o) /\ PartOf(e, l)
<1>1. CASE Len(l) <= MaxStored
  BY <1>1 DEF Trim, PartOf
<1>2. CASE ~(Len(l) <= MaxStored)
  <2>1. PICK k : k = MaxStored
    OBVIOUS
  <2>2. k \in 0..Len(l) /\ e = LastOf(l, k)
    <3>1. Len(l) \in Nat /\ MaxStored \in Nat
      BY IdsFact, BoundsFact
    <3>2. k \in 0..Len(l)
      BY <1>2, <2>1, <3>1
    <3> QED
      BY <1>2, <2>1, <3>2 DEF Trim
  <2>3. /\ ListOK(e, g) /\ Len(e) = k
        /\ \A i \in 1..k : /\ e[i] = l[Len(l) - k + i]
                           /\ Len(l) - k + i \in 1..Len(l)
                           /\ i < k <=> Len(l) - k + i < Len(l)
    BY <2>2, SuffixOK
  <2>4. SettledBut(e, o)
    BY <2>3 DEF SettledBut
  <2>5. PartOf(e, l)
    BY <2>3 DEF PartOf
  <2> QED
    BY <2>3, <2>4, <2>5
<1> QED
  BY <1>1, <1>2

\* What a load makes of the message x of the stored list: its key stays, and a
\* final message is shortened as normalizeStoredMessageForLoad shortens it.
LoadedFrom(y, x) == Key(y) = Key(x) /\ (Final(x) => y = Normalized(x))
AllLoaded(b, a) == \A j \in 1..Len(b) : \E i \in 1..Len(a) : LoadedFrom(b[j], a[i])

\* What is loaded from localStorage is settled.
LEMMA LoadedFact ==
    ASSUME NEW g, NEW l, ListOK(l, g), NEW o, SettledBut(l, o), NEW s \in LoadMessages(l)
    PROVE  ListOK(s, g) /\ AllSettled(s, o) /\ AllLoaded(s, l)
<1>1. CASE s = <<>>
  <2>1. <<>> \in Lists /\ Len(<<>>) = 0 /\ 1..0 = {}
    BY DEF Lists
  <2> QED
    BY <1>1, <2>1 DEF ListOK, AllSettled, AllLoaded
<1>2. CASE s # <<>>
  <2>1. PICK k \in 1..Len(l) : s = Sanitized(LastOf(NormalizedList(l), k))
    BY <1>2 DEF LoadMessages, NormalizedList
  <2>2. PICK e : e = NormalizedList(l)
    OBVIOUS
  <2>3. PICK n : n = Len(l)
    OBVIOUS
  <2>4. /\ ListOK(e, g) /\ Len(e) = n /\ n \in Nat
        /\ \A i \in 1..n : /\ e[i] = Normalized(l[i]) /\ Key(e[i]) = Key(l[i])
                           /\ Final(l[i]) => Final(e[i])
    BY <2>2, <2>3, NormalizedListFact
  <2>5. PICK p : p = LastOf(e, k)
    OBVIOUS
  <2>6. k \in 0..Len(e) /\ k \in Nat /\ k >= 1
    BY <2>3, <2>4
  <2>7. /\ ListOK(p, g) /\ Len(p) = k
        /\ \A i \in 1..k : /\ p[i] = e[n - k + i]
                           /\ n - k + i \in 1..n
                           /\ i < k <=> n - k + i < n
    <3>1. PICK h \in 0..Len(e) : h = k /\ ListOK(e, g) /\ p = LastOf(e, h)
      BY <2>4, <2>5, <2>6
    <3>2. /\ ListOK(p, g) /\ Len(p) = h
          /\ \A i \in 1..h : /\ p[i] = e[Len(e) - h + i]
                             /\ Len(e) - h + i \in 1..Len(e)
                             /\ i < h <=> Len(e) - h + i < Len(e)
      BY <3>1, SuffixOK
    <3>3. Len(e) = n
      BY <2>4
    <3> QED
      BY <3>1, <3>2, <3>3
  <2>8. s = Sanitized(p)
    BY <2>1, <2>2, <2>5
  <2>9. /\ ListOK(s, g) /\ Len(s) = k
        /\ \A i \in 1..k : /\ Key(s[i]) = Key(p[i])
                           /\ s[i] = p[i] \/ Final(s[i])
                           /\ Final(p[i]) => s[i] = p[i]
        /\ p # <<>> => Final(s[k])
    BY <2>7, <2>8, SanitizedFact
  <2>10. \A i \in 1..k : LoadedFrom(s[i], l[n - k + i])
    BY <2>4, <2>7, <2>9 DEF LoadedFrom
  <2>11. ASSUME NEW i \in 1..k PROVE Settled(s[i], o)
    <3>1. i < k \/ i = k
      BY <2>6
    <3>2. CASE i = k
      <4>1. p # <<>>
        BY <2>6, <2>7
      <4> QED
        BY <2>9, <3>2, <4>1 DEF Settled
    <3>3. CASE i < k
      <4>1. PICK j : j = n - k + i
        OBVIOUS
      <4>2. j \in 1..n /\ j < n /\ p[i] = e[j]
        BY <2>7, <3>3, <4>1
      <4>3. Final(l[j]) \/ l[j].id \in o
        BY <2>3, <4>2 DEF SettledBut, Settled
      <4>4. Final(l[j]) => Final(s[i])
        BY <2>4, <2>9, <4>2
      <4>5. s[i].id = l[j].id
        BY <2>4, <2>9, <4>2 DEF Key
      <4> QED
        BY <4>3, <4>4, <4>5 DEF Settled
    <3> QED
      BY <3>1, <3>2, <3>3
  <2>12. AllSettled(s, o)
    BY <2>9, <2>11 DEF AllSettled
  <2>13. AllLoaded(s, l)
    <3>1. \A i \in 1..k : n - k + i \in 1..Len(l)
      BY <2>3, <2>7
    <3> QED
      BY <2>9, <2>10, <3>1 DEF AllLoaded
  <2> QED
    BY <2>9, <2>12, <2>13
<1> QED
  BY <1>1, <1>2

\* A generation begins without a request.
LEMMA Inactive ==
    ASSUME RefsOK, Bounded, gen' = gen + 1, \A h \in 0..MaxActs : rq[h].at = "none" => rq'[h].at = "none"
    PROVE  ~Active' /\ gen \in Nat
<1>1. gen + 1 \in 0..MaxActs /\ gen + 1 > gen
  BY RoomForOne DEF RefsOK
<1>2. rq[gen + 1].at = "none"
  BY <1>1 DEF RefsOK
<1> QED
  BY <1>1, <1>2 DEF Active, RefsOK

\* The invariant through a render,
LEMMA ChatRender ==
    ASSUME RefsOK, FlagsFollow, ChatInv, Render
    PROVE  ChatInv' /\ Keeps(msgs, msgs') /\ msgs' = Shown /\ uq' = <<>>
<1>1. /\ UNCHANGED <<gen, rq, pend, timer, want, stored, over>> /\ uq' = <<>> /\ ui' = want'
      /\ msgs' = Rendered(msgs, uq, gen')
  BY DEF Render, Commit, Rendered, refs, ghosts
<1>2. msgs' = Shown
  BY <1>1 DEF Shown
<1>3. ListsOK' /\ EndOK' /\ Keeps(msgs, msgs')
  BY <1>1, <1>2, RenderLists DEF ChatInv
<1>4. BufferOK'
  BY <1>1, BufferKept DEF ChatInv, BufferOK, Streaming
<1>5. ViewOK'
  BY <1>1 DEF ViewOK, FlagsFollow
<1> QED
  BY <1>1, <1>2, <1>3, <1>4, <1>5 DEF ChatInv

\* and the flush timer.
LEMMA ChatFlushTimer ==
    ASSUME RefsOK, FlagsFollow, ChatInv, FlushTimer
    PROVE  /\ ChatInv' /\ Keeps(msgs, msgs') /\ Active /\ Shown' = FlushedList /\ pend'.text = <<>>
<1>1. /\ timer # 0 /\ UNCHANGED <<gen, rq, want, ui, msgs, stored, over>>
  BY DEF FlushTimer, view, ghosts
<1>2. timer = gen /\ Streaming /\ Active
  BY <1>1, InGens DEF RefsOK, ChatInv, BufferOK
<1>3. /\ timer' = 0 /\ Queued(Flushed({uq}))
      /\ pend' = IF pend.g = gen THEN [pend EXCEPT !.text = <<>>] ELSE pend
  BY <1>2 DEF FlushTimer
<1>4. pend'.text = <<>>
  <2>1. pend = [g |-> gen, text |-> pend.text]
    BY DEF RefsOK
  <2> QED
    BY <1>3, <2>1
<1>5. ListsOK' /\ EndOK'
  BY <1>1, <1>2, <1>3, FlushLists DEF ChatInv
<1>6. BufferOK'
  BY <1>1, <1>3, <1>4, BufferKept DEF ChatInv
<1>7. ViewOK'
  BY <1>1, <1>2, ActiveShows DEF ChatInv, ViewOK
<1>8. Shown' = FlushedList
  <2>1. Pending(Shown, gen) /\ gen # 0 /\ pend.text \in Texts /\ Conversation(msgs, uq, gen)
    BY <1>2, InGens DEF ChatInv, EndOK, BufferOK, ListsOK
  <2>2. uq' \in Flushed({uq})
    BY <1>3 DEF Queued
  <2>3. Rendered(msgs, uq', gen) = FlushedList
    BY <2>1, <2>2, FlushedGood
  <2> QED
    BY <1>1, <2>3 DEF Shown
<1> QED
  BY <1>1, <1>2, <1>4, <1>5, <1>6, <1>7, <1>8, KeepsSame DEF ChatInv

\* The list that was evaluated last fits what is rendered.
LEMMA LatestFact ==
    ASSUME ChatInv
    PROVE  /\ Latest = LatestIn(msgs, uq) /\ ListOK(Latest, gen) /\ Later(msgs, Latest)
           /\ SettledBut(Latest, over)
<1>1. Latest = LatestIn(msgs, uq)
  BY DEF Latest, LatestIn
<1>2. /\ ListOK(Latest, gen) /\ Later(msgs, Latest) /\ msgs \in Lists /\ Latest \in Lists
  BY <1>1, ConversationFact DEF ChatInv, ListsOK
<1>3. SettledBut(Latest, over)
  BY <1>2, LaterSettled DEF ChatInv, EndOK
<1> QED
  BY <1>1, <1>2, <1>3

\* The invariant through the save timer,
LEMMA ChatSaveTimer ==
    ASSUME RefsOK, ChatInv, SaveTimer
    PROVE  ChatInv' /\ Keeps(msgs, msgs')
<1>1. stored' \in {stored, Trim(Latest)} /\ UNCHANGED <<gen, rq, pend, timer, want, ui, msgs, uq, over>>
  BY DEF SaveTimer, refs, view
<1>2. Shown' = Shown /\ (Active' <=> Active)
  BY <1>1 DEF Shown, Active
<1>3. ListOK(stored', gen) /\ SettledBut(stored', over)
  BY <1>1, LatestFact, TrimFact DEF ChatInv, ListsOK, EndOK
<1>4. ListsOK' /\ EndOK'
  BY <1>1, <1>2, <1>3 DEF ChatInv, ListsOK, EndOK
<1>5. BufferOK'
  BY <1>1, BufferKept DEF ChatInv, BufferOK, Streaming
<1> QED
  BY <1>1, <1>4, <1>5, KeepsSame DEF ChatInv, ViewOK

\* a page that starts with the list kept,
LEMMA ChatMount ==
    ASSUME RefsOK, ChatInv, RefsOK', NEW kept, ListOK(kept, gen), SettledBut(kept, over), Mount(kept),
           \A h \in 0..MaxActs : /\ rq'[h].n = rq[h].n
                                 /\ rq[h].at = "none" <=> rq'[h].at = "none"
                                 /\ rq'[h] = rq[h] \/ rq'[h].at = "gone"
    PROVE  ChatInv' /\ AllLoaded(msgs', kept) /\ uq' = <<>> /\ ~Active'
<1>1. /\ gen' = gen + 1 /\ pend'.text = <<>> /\ timer' = 0 /\ want' = Quiet /\ ui' = Quiet
      /\ msgs' \in LoadMessages(kept) /\ uq' = <<>> /\ over' = over /\ Bounded
      /\ stored' = Trim(msgs') \/ stored' = kept
  BY DEF Mount
<1>2. ~Active' /\ gen \in Nat
  BY <1>1, Inactive
<1>3. PICK s : s = msgs'
  OBVIOUS
<1>4. ListOK(s, gen) /\ AllSettled(s, over) /\ AllLoaded(s, kept)
  BY <1>1, <1>3, LoadedFact
<1>5. SettledBut(s, over)
  BY <1>4, SettledGrows
<1>6. ListOK(stored', gen) /\ SettledBut(stored', over)
  <2>1. ListOK(Trim(s), gen) /\ SettledBut(Trim(s), over)
    BY <1>4, <1>5, TrimFact
  <2> QED
    BY <1>1, <1>3, <2>1
<1>7. ListOK(s, gen + 1) /\ ListOK(stored', gen + 1)
  BY <1>2, <1>4, <1>6, ListOKGrows
<1>8. ListsOK' /\ EndOK'
  BY <1>1, <1>2, <1>3, <1>4, <1>5, <1>6, <1>7, Written
<1>9. BufferOK'
  BY <1>1, BufferFresh DEF ChatInv
<1>10. ViewOK'
  BY <1>1 DEF ViewOK, Flags, Quiet
<1> QED
  BY <1>1, <1>2, <1>3, <1>4, <1>8, <1>9, <1>10 DEF ChatInv

\* What Leave may do to the final messages of a: it shortens them.
KeepsLoaded(a, b) ==
    \A i \in 1..Len(a) : Final(a[i]) =>
        \A j \in 1..Len(b) : Key(b[j]) = Key(a[i]) => b[j] = Normalized(a[i])

\* a page that is left,
LEMMA ChatLeave ==
    ASSUME IInv, ChatInv, IInv', Leave
    PROVE  /\ ChatInv' /\ KeepsLoaded(msgs, msgs') /\ uq' = <<>> /\ ~Active'
           /\ \E kept : ListOK(kept, gen) /\ AllLoaded(msgs', kept)
<1>1. rq' = rq /\ (dirty \/ ~unsaved) /\ Mount(IF dirty THEN Trim(Latest) ELSE stored)
  BY DEF Leave
<1>2. dirty \in BOOLEAN /\ (~dirty /\ ~unsaved => stored = Trim(Latest))
  BY DEF IInv, StoreOK
<1>3. PICK kept : kept = Trim(Latest)
  OBVIOUS
<1>4. Mount(kept)
  BY <1>1, <1>2, <1>3
<1>5. ListOK(Latest, gen) /\ Later(msgs, Latest) /\ SettledBut(Latest, over)
  BY LatestFact
<1>6. ListOK(kept, gen) /\ SettledBut(kept, over) /\ PartOf(kept, Latest)
  BY <1>3, <1>5, TrimFact
<1>7. ChatInv' /\ AllLoaded(msgs', kept) /\ uq' = <<>> /\ ~Active'
  BY <1>1, <1>4, <1>6, ChatMount DEF IInv
<1>8. ListOK(msgs, gen)
  BY ConversationFact DEF ChatInv, ListsOK
<1>9. ASSUME NEW i \in 1..Len(msgs), Final(msgs[i]),
             NEW j \in 1..Len(msgs'), Key(msgs'[j]) = Key(msgs[i])
      PROVE  msgs'[j] = Normalized(msgs[i])
  <2>1. PICK k \in 1..Len(kept) : LoadedFrom(msgs'[j], kept[k])
    BY <1>7 DEF AllLoaded
  <2>2. PICK m \in 1..Len(Latest) : kept[k] = Latest[m]
    BY <1>6 DEF PartOf
  <2>3. i \in 1..Len(Latest) /\ Key(Latest[i]) = Key(msgs[i]) /\ Latest[i] = msgs[i]
    BY <1>5, <1>9 DEF Later
  <2>4. m = i
    <3>1. Key(Latest[m]) = Key(Latest[i])
      BY <1>9, <2>1, <2>2, <2>3 DEF LoadedFrom
    <3> QED
      BY <1>5, <2>3, <3>1 DEF ListOK
  <2> QED
    BY <1>9, <2>1, <2>2, <2>3, <2>4 DEF LoadedFrom
<1>10. KeepsLoaded(msgs, msgs')
  BY <1>9 DEF KeepsLoaded
<1> QED
  BY <1>6, <1>7, <1>10

\* a page that is left and whose last list was not saved,
LEMMA ChatLeaveUnsaved ==
    ASSUME IInv, ChatInv, IInv', LeaveUnsaved
    PROVE  ChatInv' /\ uq' = <<>> /\ ~Active' /\ AllLoaded(msgs', stored)
<1>1. rq' = rq /\ Mount(stored)
  BY DEF LeaveUnsaved
<1>2. ListOK(stored, gen) /\ SettledBut(stored, over)
  BY DEF ChatInv, ListsOK, EndOK
<1> QED
  BY <1>1, <1>2, ChatMount DEF IInv

\* and a reload.
LEMMA ChatReload ==
    ASSUME IInv, ChatInv, IInv', Reload
    PROVE  ChatInv' /\ uq' = <<>> /\ ~Active' /\ AllLoaded(msgs', stored)
<1>1. Mount(stored)
  BY DEF Reload
<1>2. rq' = [g \in 0..MaxActs |-> IF rq[g].at = "none" THEN rq[g] ELSE [rq[g] EXCEPT !.at = "gone"]]
  BY DEF Reload
<1>3. \A h \in 0..MaxActs : rq[h] \in Entries
  BY DEF IInv, RefsOK
<1>4. ASSUME NEW h \in 0..MaxActs
      PROVE  /\ rq'[h].n = rq[h].n
             /\ rq[h].at = "none" <=> rq'[h].at = "none"
             /\ rq'[h] = rq[h] \/ rq'[h].at = "gone"
  <2>1. CASE rq[h].at = "none"
    BY <1>2, <2>1
  <2>2. CASE rq[h].at # "none"
    <3>1. rq'[h] = [rq[h] EXCEPT !.at = "gone"]
      BY <1>2, <2>2
    <3> QED
      BY <1>3, <2>2, <3>1 DEF Entries
  <2> QED
    BY <2>1, <2>2
<1>5. ListOK(stored, gen) /\ SettledBut(stored, over)
  BY DEF ChatInv, ListsOK, EndOK
<1> QED
  BY <1>1, <1>4, <1>5, ChatMount DEF IInv

\* A message that is not final belongs to the current request, or was written
\* back by a saved edit.
LEMMA UnsettledIsCurrent ==
    ASSUME RefsOK, ChatInv
    PROVE  \A i \in 1..Len(msgs) : Final(msgs[i]) \/ msgs[i].id \in over \cup {gen}
<1> TAKE i \in 1..Len(msgs)
<1>1. /\ msgs \in Lists /\ Len(msgs) \in Nat
  BY ConversationFact, IdsFact DEF ChatInv, ListsOK
<1>2. msgs # <<>> /\ (i < Len(msgs) \/ i = Len(msgs))
  BY <1>1
<1>3. CASE i < Len(msgs)
  BY <1>3 DEF ChatInv, EndOK, SettledBut, Settled
<1>4. CASE i = Len(msgs)
  <2>1. CASE uq # <<>>
    <3>1. Pending(msgs, gen)
      BY <2>1 DEF ChatInv, ListsOK, Conversation
    <3> QED
      BY <1>4, <3>1 DEF Pending
  <2>2. CASE uq = <<>>
    <3>1. Shown = msgs
      BY <2>2, FoldEmpty DEF Shown
    <3>2. Pending(msgs, gen) \/ AllSettled(msgs, over)
      BY <3>1 DEF ChatInv, EndOK
    <3> QED
      BY <1>4, <3>2 DEF Pending, AllSettled, Settled
  <2> QED
    BY <2>1, <2>2
<1> QED
  BY <1>2, <1>3, <1>4

\* A stop completes the list l that was evaluated last.
LEMMA StopSettles ==
    ASSUME NEW g \in Nat, NEW l, ListOK(l, g), NEW ov, SettledBut(l, ov),
           NEW h \in Nat, NEW e, e = Eval(Op("stop", h), l, h)
    PROVE  ListOK(e, g) /\ AllSettled(e, ov) /\ Follows(l, e)
<1>1. PICK o : o = Op("stop", h)
  OBVIOUS
<1>2. o.op = "stop" /\ o.g = h /\ o.text = <<>>
  BY <1>1, OpFact
<1>3. SoftOp(o) /\ ~Stale(o, h)
  BY <1>2, ShortTexts DEF SoftOp, Stale
<1>4. l \in Lists /\ Len(l) \in Nat /\ \A i \in 1..Len(l) : l[i] \in Messages
  BY IdsFact DEF ListOK
<1>5. ListOK(e, g)
  BY <1>1, <1>3, SoftListOK
<1>6. /\ e \in Lists /\ Len(e) = Len(l)
      /\ \A i \in 1..Len(l) : Key(e[i]) = Key(l[i]) /\ (i < Len(l) => e[i] = l[i])
      /\ l # <<>> /\ l[Len(l)].from = "assistant" => e[Len(l)] = Updated(o, l[Len(l)])
      /\ l = <<>> \/ l[Len(l)].from # "assistant" => e = l
  BY <1>1, <1>3, <1>4, SoftEval
<1>7. ASSUME NEW i \in 1..Len(l)
      PROVE  (Final(l[i]) => e[i] = l[i]) /\ Settled(e[i], ov)
  <2>1. l # <<>> /\ (i < Len(l) \/ i = Len(l))
    BY <1>4
  <2>2. CASE i < Len(l)
    BY <1>6, <2>2 DEF SettledBut
  <2>3. CASE i = Len(l) /\ l[i].from # "assistant"
    <3>1. l[i].from = "user"
      BY <1>4, <2>3 DEF Messages
    <3>2. Final(l[i]) /\ e = l
      BY <1>6, <2>3, <3>1 DEF ListOK
    <3> QED
      BY <3>2 DEF Settled
  <2>4. CASE i = Len(l) /\ l[i].from = "assistant"
    <3>1. PICK x \in Messages : x = l[i]
      BY <1>4
    <3>2. e[i] = Updated(o, x)
      BY <1>6, <2>1, <2>4, <3>1
    <3>3. Final(Updated(o, x))
      BY <1>2, <1>3, UpdatedFact
    <3>4. Final(x) => Updated(o, x) = x
      BY <1>2 DEF Updated
    <3> QED
      BY <3>1, <3>2, <3>3, <3>4 DEF Settled
  <2> QED
    BY <2>1, <2>2, <2>3, <2>4
<1>8. Follows(l, e)
  BY <1>6, <1>7 DEF Follows
<1>9. AllSettled(e, ov)
  BY <1>6, <1>7 DEF AllSettled
<1> QED
  BY <1>5, <1>8, <1>9

\* The invariant through stopGeneration.
LEMMA ChatStop ==
    ASSUME RefsOK, ChatInv, RefsOK', StopGeneration
    PROVE  ChatInv' /\ Keeps(msgs, msgs') /\ Follows(msgs, msgs') /\ uq' = <<>> /\ ~Active'
<1>1. /\ Bounded /\ gen' = gen + 1 /\ pend'.text = <<>> /\ timer' = 0 /\ want' = Quiet
      /\ UNCHANGED <<rq, over>>
      /\ UserUpdate(Enqueue(Flushed({uq}), Op("stop", gen + 1), gen + 1))
  BY DEF StopGeneration, Discard
<1>2. ~Active' /\ gen \in Nat
  BY <1>1, Inactive
<1>3. PICK r \in Enqueue(Flushed({uq}), Op("stop", gen + 1), gen + 1) : msgs' = Rendered(msgs, r, gen + 1)
  BY <1>1, Committed
<1>4. uq' = <<>> /\ ui' = want' /\ stored' = stored
  BY <1>1, Committed
<1>5. \A q \in Flushed({uq}) : Conversation(msgs, q, gen)
  <2>1. pend.text # <<>> => Pending(Shown, gen) /\ gen # 0
    BY InGens DEF ChatInv, BufferOK, EndOK
  <2> QED
    BY <2>1, FlushedGood DEF ChatInv, BufferOK, ListsOK
<1>6. msgs \in Lists /\ ListOK(msgs, gen)
  BY ConversationFact DEF ChatInv, ListsOK
<1>7. PICK q \in Flushed({uq}) : msgs' = Eval(Op("stop", gen + 1), LatestIn(msgs, q), gen + 1)
  <2>1. \A q \in Flushed({uq}) : QueueFits(q, gen)
    BY <1>5, ConversationFact
  <2> QED
    BY <1>2, <1>3, <1>6, <2>1, StopGood
<1>8. PICK l : l = LatestIn(msgs, q)
  OBVIOUS
<1>9. ListOK(l, gen) /\ Later(msgs, l) /\ l \in Lists
  BY <1>5, <1>8, ConversationFact
<1>10. SettledBut(l, over)
  BY <1>6, <1>9, LaterSettled DEF ChatInv, EndOK
<1>11. PICK e : e = msgs'
  OBVIOUS
<1>12. gen + 1 \in Nat
  BY <1>2
<1>13. ListOK(e, gen) /\ AllSettled(e, over) /\ Follows(l, e)
  BY <1>2, <1>7, <1>8, <1>9, <1>10, <1>11, <1>12, StopSettles
<1>14. Follows(msgs, e) /\ Keeps(msgs, e)
  BY <1>6, <1>9, <1>13, LaterFollows, FollowsTrans, FollowsKeeps
<1>15. /\ ListOK(e, gen + 1) /\ SettledBut(e, over)
       /\ ListOK(stored, gen + 1) /\ SettledBut(stored, over)
  BY <1>2, <1>13, ListOKGrows, SettledGrows DEF ChatInv, ListsOK, EndOK
<1>16. ListsOK' /\ EndOK'
  BY <1>1, <1>2, <1>4, <1>11, <1>13, <1>15, Written
<1>17. BufferOK'
  BY <1>1, BufferFresh DEF ChatInv
<1>18. ViewOK'
  BY <1>1, <1>4 DEF ViewOK, Flags, Quiet
<1> QED
  BY <1>2, <1>4, <1>11, <1>14, <1>16, <1>17, <1>18 DEF ChatInv

\* A request is sent with the messages of list.
LEMMA ChatSend ==
    ASSUME RefsOK, ChatInv, RefsOK', NEW list, ListOK(list, gen + 1), Pending(list, gen + 1),
           SettledBut(list, over'), over \subseteq over', SendChat(list)
    PROVE  ChatInv' /\ msgs' = list /\ uq' = <<>> /\ Shown' = list /\ Active'
<1>1. ListsOK' /\ EndOK' /\ msgs' = list /\ uq' = <<>> /\ Shown' = list /\ Active'
  BY SendLists DEF ChatInv
<1>2. gen + 1 \in 0..MaxActs /\ gen + 1 > gen
  BY RoomForOne DEF SendChat, RefsOK
<1>3. PICK p \in {"headers", "post"} : rq' = [rq EXCEPT ![gen + 1].at = p]
  BY DEF SendChat
<1>4. rq[gen + 1].at = "none"
  BY <1>2 DEF RefsOK
<1> DEFINE e == [rq[gen + 1] EXCEPT !.at = p]
<1>5. e.n = rq[gen + 1].n
  BY <1>2 DEF RefsOK, Entries
<1>6. rq' = [rq EXCEPT ![gen + 1] = e]
  BY <1>3
<1> HIDE DEF e
<1>7. \A h \in 0..MaxActs : /\ rq'[h].n = rq[h].n
                            /\ rq'[h].at \in {"none", "headers", "post"} =>
                                  rq[h].at \in {"none", "headers", "post"}
  BY <1>2, <1>4, <1>5, <1>6 DEF RefsOK
<1>8. pend'.text = <<>> /\ timer' = 0
  BY DEF SendChat, Discard
<1>9. BufferOK'
  BY <1>7, <1>8, BufferFresh DEF ChatInv
<1>10. ui' = [req |-> TRUE, str |-> FALSE]
  BY Committed DEF SendChat
<1>11. ui'.req
  BY <1>10
<1>12. ui' # Quiet
  BY <1>11 DEF Quiet
<1>13. ViewOK'
  BY <1>10, <1>12 DEF ViewOK, Flags
<1> QED
  BY <1>1, <1>9, <1>13 DEF ChatInv

-----------------------------------------------------------------------------
(* What the user does. *)

\* A message x comes from the list a: a final message is kept or edited.  Or it
\* is a new one.
Comes(x, a, g) ==
    \/ \E i \in 1..Len(a) :
         /\ Key(x) = Key(a[i])
         /\ Final(a[i]) => x = a[i] \/ (x.text = <<"edited">> /\ x.st = a[i].st)
    \/ x \in {UserMessage(g + 1), LoadingMessage(g + 1)}
AllCome(b, a, g) == \A j \in 1..Len(b) : Comes(b[j], a, g)

\* Lists whose messages all come from a keep what is final in a.
LEMMA ComesKeeps ==
    ASSUME NEW g \in Nat, NEW a, ListOK(a, g), NEW b \in Lists, AllCome(b, a, g)
    PROVE  Keeps(a, b)
<1>1. \A j \in 1..Len(b) :
         \/ \E i \in 1..Len(a) : /\ Key(b[j]) = Key(a[i])
                                 /\ Final(a[i]) => b[j] = a[i] \/ b[j].text = <<"edited">>
         \/ b[j].id = g + 1
  <2>1. UserMessage(g + 1).id = g + 1 /\ LoadingMessage(g + 1).id = g + 1
    BY DEF UserMessage, LoadingMessage
  <2> QED
    BY <2>1 DEF AllCome, Comes
<1> QED
  BY <1>1, KeepsBy

\* The messages of a list that follows a come from a,
LEMMA FollowsCome ==
    ASSUME NEW a, NEW b, NEW g, Follows(a, b)
    PROVE  AllCome(b, a, g)
BY DEF Follows, AllCome, Comes

\* a message of a does,
LEMMA CopyComes ==
    ASSUME NEW a, NEW g, NEW i \in 1..Len(a)
    PROVE  Comes(a[i], a, g)
BY DEF Comes

\* and new messages do.
LEMMA NewCome ==
    ASSUME NEW g \in Nat, NEW a
    PROVE  Comes(UserMessage(g + 1), a, g) /\ Comes(LoadingMessage(g + 1), a, g)
BY DEF Comes

\* A reply is requested to the messages of l.
LEMMA ReplyTo ==
    ASSUME RefsOK, ChatInv, RefsOK', NEW l, ListOK(l, gen), AllCome(l, msgs, gen),
           AllSettled(l, over'), over \subseteq over', SendChat(WithReply(l, gen + 1))
    PROVE  ChatInv' /\ AllCome(msgs', msgs, gen) /\ Active' /\ Shown' = msgs' /\ uq' = <<>>
<1>1. gen \in Nat
  BY InGens
<1>2. PICK e : e = WithReply(l, gen + 1)
  OBVIOUS
<1>3. /\ ListOK(e, gen + 1) /\ Pending(e, gen + 1) /\ Len(e) = Len(l) + 1 /\ Len(l) \in Nat
      /\ e[Len(e)] = LoadingMessage(gen + 1)
      /\ \A i \in 1..Len(l) : e[i] = l[i]
  <2>1. PICK h \in Nat : h = gen + 1
    BY <1>1
  <2>2. Replied(e, l, h)
    BY <1>1, <1>2, <2>1, AddReply
  <2> QED
    BY <2>1, <2>2 DEF Replied
<1>4. \A i \in 1..Len(e) : i = Len(e) \/ (i \in 1..Len(l) /\ e[i] = l[i])
  BY <1>3
<1>5. SettledBut(e, over')
  <2> SUFFICES ASSUME NEW i \in 1..Len(e), i < Len(e) PROVE Settled(e[i], over')
    BY DEF SettledBut
  <2>1. i \in 1..Len(l) /\ e[i] = l[i]
    BY <1>3, <1>4
  <2> QED
    BY <2>1 DEF AllSettled
<1>6. AllCome(e, msgs, gen)
  BY <1>1, <1>3, <1>4, NewCome DEF AllCome
<1>7. SendChat(e)
  BY <1>2
<1>8. ChatInv' /\ msgs' = e /\ uq' = <<>> /\ Shown' = e /\ Active'
  BY <1>3, <1>5, <1>7, ChatSend
<1> QED
  BY <1>6, <1>8

\* A question is asked after the messages of l.
LEMMA QuestionTo ==
    ASSUME RefsOK, ChatInv, RefsOK', NEW l, ListOK(l, gen), AllCome(l, msgs, gen),
           AllSettled(l, over'), over \subseteq over', SendChat(WithQuestion(l, gen + 1))
    PROVE  ChatInv' /\ AllCome(msgs', msgs, gen) /\ Active' /\ Shown' = msgs' /\ uq' = <<>>
<1>1. gen \in Nat
  BY InGens
<1>2. PICK e : e = WithQuestion(l, gen + 1)
  OBVIOUS
<1>3. /\ ListOK(e, gen + 1) /\ Pending(e, gen + 1) /\ Len(e) = Len(l) + 2 /\ Len(l) \in Nat
      /\ e[Len(e)] = LoadingMessage(gen + 1) /\ e[Len(l) + 1] = UserMessage(gen + 1)
      /\ \A i \in 1..Len(l) : e[i] = l[i]
  <2>1. PICK h \in Nat : h = gen + 1
    BY <1>1
  <2>2. Asked(e, l, h)
    BY <1>1, <1>2, <2>1, AddQuestion
  <2> QED
    BY <2>1, <2>2 DEF Asked
<1>4. \A i \in 1..Len(e) : i = Len(e) \/ i = Len(l) + 1 \/ (i \in 1..Len(l) /\ e[i] = l[i])
  BY <1>3
<1>5. SettledBut(e, over')
  <2> SUFFICES ASSUME NEW i \in 1..Len(e), i < Len(e) PROVE Settled(e[i], over')
    BY DEF SettledBut
  <2>1. (i \in 1..Len(l) /\ e[i] = l[i]) \/ e[i] = UserMessage(gen + 1)
    BY <1>3, <1>4
  <2>2. Final(UserMessage(gen + 1))
    <3>1. gen + 1 \in Nat
      BY <1>1
    <3> QED
      BY <3>1, NewMessages
  <2> QED
    BY <2>1, <2>2 DEF AllSettled, Settled
<1>6. AllCome(e, msgs, gen)
  BY <1>1, <1>3, <1>4, NewCome DEF AllCome
<1>7. SendChat(e)
  BY <1>2
<1>8. ChatInv' /\ msgs' = e /\ uq' = <<>> /\ Shown' = e /\ Active'
  BY <1>3, <1>5, <1>7, ChatSend
<1> QED
  BY <1>6, <1>8

\* The rendered messages come from themselves.
LEMMA MsgsComes ==
    ASSUME NEW g
    PROVE  AllCome(msgs, msgs, g)
BY CopyComes DEF AllCome

\* The invariant through a new question,
LEMMA SendAction ==
    ASSUME RefsOK, FlagsFollow, ChatInv, RefsOK', Send
    PROVE  ChatInv' /\ AllCome(msgs', msgs, gen) /\ Active' /\ Shown' = msgs' /\ uq' = <<>>
<1>1. ~IsGenerating /\ over' = over /\ SendChat(WithQuestion(msgs, gen + 1))
  BY DEF Send, ghosts, WithQuestion
<1>2. PICK l : l = msgs
  OBVIOUS
<1>3. AllSettled(l, over') /\ ListOK(l, gen) /\ AllCome(l, msgs, gen)
  BY <1>1, <1>2, QuietView, MsgsComes
<1> QED
  BY <1>1, <1>2, <1>3, QuestionTo

\* a reply asked for again,
LEMMA RegenerateAction ==
    ASSUME RefsOK, FlagsFollow, ChatInv, RefsOK', NEW i \in DOMAIN msgs, Regenerate(i)
    PROVE  ChatInv' /\ AllCome(msgs', msgs, gen) /\ Active' /\ Shown' = msgs' /\ uq' = <<>>
<1>1. ~IsGenerating /\ over' = over
  BY DEF Regenerate, ghosts
<1>2. AllSettled(msgs, over) /\ ListOK(msgs, gen)
  BY <1>1, QuietView
<1>3. msgs \in Seq(Messages) /\ Len(msgs) \in Nat
  BY <1>2, IdsFact
<1>4. i \in 1..Len(msgs)
  BY <1>3
<1>5. PICK k \in 0..Len(msgs) : SendChat(SubSeq(msgs, 1, k) \o <<LoadingMessage(gen + 1)>>)
  <2>1. i \in 0..Len(msgs) /\ i - 1 \in 0..Len(msgs)
    BY <1>3, <1>4
  <2>2. SendChat(SubSeq(msgs, 1, IF msgs[i].from = "user" THEN i ELSE i - 1) \o <<LoadingMessage(gen + 1)>>)
    BY DEF Regenerate
  <2>3. CASE msgs[i].from = "user"
    BY <2>1, <2>2, <2>3
  <2>4. CASE msgs[i].from # "user"
    BY <2>1, <2>2, <2>4
  <2> QED
    BY <2>3, <2>4
<1>6. PICK l : l = FirstOf(msgs, k)
  OBVIOUS
<1>7. ListOK(l, gen) /\ Len(l) = k /\ \A j \in 1..k : l[j] = msgs[j] /\ j \in 1..Len(msgs)
  BY <1>2, <1>6, PrefixOK
<1>8. AllSettled(l, over') /\ AllCome(l, msgs, gen)
  BY <1>1, <1>2, <1>7, CopyComes DEF AllSettled, AllCome
<1>9. SendChat(WithReply(l, gen + 1))
  BY <1>5, <1>6 DEF WithReply, FirstOf
<1> QED
  BY <1>1, <1>7, <1>8, <1>9, ReplyTo

\* applyEdit: every message comes from a rendered one, with its key and status.
LEMMA EditedComes ==
    ASSUME RefsOK, ChatInv, NEW e, e = Edited
    PROVE  /\ ListOK(e, gen) /\ Len(e) = Len(msgs) /\ Len(msgs) \in Nat
           /\ \A i \in 1..Len(e) : /\ Comes(e[i], msgs, gen)
                                   /\ Settled(msgs[i], over) => Settled(e[i], over)
                                   /\ Final(msgs[i]) <=> Final(e[i])
                                   /\ e[i].id = msgs[i].id /\ e[i].from = msgs[i].from
<1>1. ListOK(msgs, gen)
  BY ConversationFact DEF ChatInv, ListsOK
<1>2. /\ ListOK(e, gen) /\ Len(e) = Len(msgs) /\ Len(msgs) \in Nat
      /\ \A i \in 1..Len(msgs) : /\ Key(e[i]) = Key(msgs[i]) /\ (Final(e[i]) <=> Final(msgs[i]))
                                 /\ e[i].st = msgs[i].st
                                 /\ e[i] = msgs[i] \/ e[i].text = <<"edited">>
  BY <1>1, EditedFact
<1>3. ASSUME NEW i \in 1..Len(e)
      PROVE  /\ Comes(e[i], msgs, gen)
             /\ Settled(msgs[i], over) => Settled(e[i], over)
             /\ Final(msgs[i]) <=> Final(e[i])
             /\ e[i].id = msgs[i].id /\ e[i].from = msgs[i].from
  <2>1. i \in 1..Len(msgs)
    BY <1>2
  <2>2. e[i].id = msgs[i].id /\ e[i].from = msgs[i].from
    BY <1>2, <2>1 DEF Key
  <2>3. Settled(msgs[i], over) => Settled(e[i], over)
    BY <1>2, <2>1, <2>2 DEF Settled
  <2>4. Comes(e[i], msgs, gen)
    BY <1>2, <2>1 DEF Comes
  <2>5. Final(msgs[i]) <=> Final(e[i])
    BY <1>2, <2>1
  <2> QED
    BY <2>2, <2>3, <2>4, <2>5
<1> QED
  BY <1>2, <1>3

\* An edit that is submitted.
LEMMA EditSubmitAction ==
    ASSUME RefsOK, FlagsFollow, ChatInv, RefsOK', EditSubmit
    PROVE  /\ ChatInv' /\ AllCome(msgs', msgs, gen) /\ Active' /\ Shown' = msgs' /\ uq' = <<>>
<1>1. PICK i \in DOMAIN msgs : /\ msgs[i].from = "user"
                               /\ SendChat(SubSeq(Edited, 1, i) \o <<LoadingMessage(gen + 1)>>)
  BY DEF EditSubmit
<1>2. over' = over \cup {gen}
  BY DEF EditSubmit
<1>3. PICK e : e = Edited
  OBVIOUS
<1>4. /\ ListOK(e, gen) /\ Len(e) = Len(msgs) /\ Len(msgs) \in Nat
      /\ \A j \in 1..Len(e) : /\ Comes(e[j], msgs, gen)
                              /\ Settled(msgs[j], over) => Settled(e[j], over)
                              /\ Final(msgs[j]) => Final(e[j])
  BY <1>3, EditedComes
<1>5. msgs \in Lists /\ ListOK(msgs, gen) /\ SettledBut(msgs, over)
  BY ConversationFact DEF ChatInv, ListsOK, EndOK
<1>6. i \in 1..Len(msgs) /\ i \in 0..Len(e) /\ i \in 1..Len(e)
  BY <1>4, <1>5 DEF Lists
<1>7. PICK l : l = FirstOf(e, i)
  OBVIOUS
<1>8. ListOK(l, gen) /\ Len(l) = i /\ \A j \in 1..i : l[j] = e[j] /\ j \in 1..Len(e)
  BY <1>4, <1>6, <1>7, PrefixOK
<1>9. ASSUME NEW j \in 1..i PROVE Settled(l[j], over') /\ Comes(l[j], msgs, gen)
  <2>1. l[j] = e[j] /\ j \in 1..Len(e)
    BY <1>8
  <2>2. CASE j < i
    <3>1. j < Len(msgs) /\ j \in 1..Len(msgs)
      BY <1>4, <1>6, <2>2
    <3>2. Settled(msgs[j], over)
      BY <1>5, <3>1 DEF SettledBut
    <3> QED
      BY <1>2, <1>4, <2>1, <3>2 DEF Settled
  <2>3. CASE j = i
    <3>1. Final(msgs[i])
      BY <1>1, <1>5, <1>6 DEF ListOK
    <3> QED
      BY <1>4, <2>1, <2>3, <3>1 DEF Settled
  <2> QED
    BY <1>6, <2>2, <2>3
<1>10. AllSettled(l, over') /\ AllCome(l, msgs, gen)
  BY <1>8, <1>9 DEF AllSettled, AllCome
<1>11. SendChat(WithReply(l, gen + 1))
  BY <1>1, <1>3, <1>7 DEF WithReply, FirstOf
<1>12. over \subseteq over'
  BY <1>2
<1> QED
  BY <1>8, <1>10, <1>11, <1>12, ReplyTo

\* The user's action writes a list back, and the requests go on.
LEMMA WrittenBack ==
    ASSUME RefsOK, FlagsFollow, ChatInv, UNCHANGED <<refs, want>>, NEW list, ListOK(list, gen),
           msgs' = list, uq' = <<>>, ui' = want', stored' = stored, over \subseteq over',
           SettledBut(list, over'), IF Active THEN Pending(list, gen) ELSE AllSettled(list, over')
    PROVE  ChatInv' /\ Shown' = msgs'
<1>1. UNCHANGED <<gen, rq, pend, timer>>
  BY DEF refs
<1>2. Active' <=> Active
  BY <1>1 DEF Active
<1>3. ListOK(stored, gen) /\ SettledBut(stored, over')
  BY SettledGrows DEF ChatInv, ListsOK, EndOK
<1>4. ListsOK' /\ EndOK' /\ Shown' = list
  BY <1>1, <1>2, <1>3, Written
<1>5. BufferOK'
  BY <1>1, BufferKept DEF ChatInv, BufferOK, Streaming
<1>6. ViewOK'
  BY DEF ViewOK, FlagsFollow
<1> QED
  BY <1>4, <1>5, <1>6 DEF ChatInv

\* An edit that is saved while a request may go on.
LEMMA EditSaveAction ==
    ASSUME RefsOK, FlagsFollow, ChatInv, EditSave
    PROVE  /\ ChatInv' /\ AllCome(msgs', msgs, gen) /\ Shown' = msgs'
<1>1. /\ UNCHANGED <<refs, want>> /\ over' = over \cup {gen}
      /\ UserUpdate(Enqueue({uq}, Replace(Edited), gen))
  BY DEF EditSave
<1>2. PICK e : e = Edited
  OBVIOUS
<1>3. /\ ListOK(e, gen) /\ Len(e) = Len(msgs) /\ Len(msgs) \in Nat
      /\ \A i \in 1..Len(e) : /\ Comes(e[i], msgs, gen)
                              /\ Settled(msgs[i], over) => Settled(e[i], over)
                              /\ Final(msgs[i]) <=> Final(e[i])
                              /\ e[i].id = msgs[i].id /\ e[i].from = msgs[i].from
  BY <1>2, EditedComes
<1>4. msgs' = e /\ uq' = <<>> /\ ui' = want' /\ stored' = stored
  <2>1. e \in Lists /\ ListsOK
    BY <1>3 DEF ListOK, ChatInv
  <2> QED
    BY <1>1, <1>2, <2>1, CommittedList
<1>5. AllSettled(e, over')
  <2> SUFFICES ASSUME NEW i \in 1..Len(e) PROVE Settled(e[i], over')
    BY DEF AllSettled
  <2>1. Final(msgs[i]) \/ msgs[i].id \in over \cup {gen}
    BY <1>3, UnsettledIsCurrent
  <2> QED
    BY <1>1, <1>3, <2>1 DEF Settled
<1>6. SettledBut(e, over')
  BY <1>5 DEF SettledBut, AllSettled
<1>7. ASSUME Active PROVE Pending(e, gen)
  <2>1. Pending(Shown, gen) /\ Later(msgs, Shown)
    BY <1>7, ConversationFact DEF ChatInv, EndOK, ListsOK, Shown
  <2>2. msgs \in Lists /\ Shown \in Lists
    BY ConversationFact DEF ChatInv, ListsOK, Shown
  <2>3. Pending(msgs, gen)
    BY <2>1, <2>2, LaterPending
  <2>4. Len(e) \in 1..Len(e) /\ e # <<>>
    BY <1>3, <2>2, <2>3 DEF Pending, Lists
  <2> QED
    BY <1>3, <2>3, <2>4 DEF Pending
<1>8. over \subseteq over'
  BY <1>1
<1>9. ChatInv' /\ Shown' = msgs'
  BY <1>1, <1>3, <1>4, <1>5, <1>6, <1>7, <1>8, WrittenBack
<1> QED
  BY <1>3, <1>4, <1>9 DEF AllCome

\* The invariant through clearing the conversation,
LEMMA ClearAction ==
    ASSUME RefsOK, FlagsFollow, ChatInv, Clear
    PROVE  /\ ChatInv' /\ AllCome(msgs', msgs, gen) /\ Shown' = msgs'
<1>1. /\ ~IsGenerating /\ UNCHANGED <<refs, want, over>>
      /\ UserUpdate(Enqueue({uq}, Replace(<<>>), gen))
  BY DEF Clear
<1>2. PICK e : e = <<>>
  OBVIOUS
<1>3. e \in Lists /\ Len(e) = 0
  BY <1>2 DEF Lists
<1>4. \A i \in 1..Len(e) : FALSE
  BY <1>3
<1>5. ListOK(e, gen) /\ AllSettled(e, over') /\ SettledBut(e, over') /\ AllCome(e, msgs, gen)
  BY <1>3, <1>4 DEF ListOK, AllSettled, SettledBut, AllCome
<1>6. msgs' = e /\ uq' = <<>> /\ ui' = want' /\ stored' = stored
  BY <1>1, <1>2, <1>3, CommittedList DEF ChatInv
<1>7. ~Active
  BY <1>1, QuietView
<1>8. over \subseteq over' /\ UNCHANGED <<refs, want>>
  BY <1>1
<1>9. ChatInv' /\ Shown' = msgs'
  BY <1>5, <1>6, <1>7, <1>8, WrittenBack
<1> QED
  BY <1>5, <1>6, <1>9

\* and deleting a message.
LEMMA DeleteAction ==
    ASSUME RefsOK, FlagsFollow, ChatInv, NEW i, Delete(i)
    PROVE  /\ ChatInv' /\ AllCome(msgs', msgs, gen) /\ Shown' = msgs'
<1>1. PICK key : key = Key(msgs[i])
  OBVIOUS
<1>2. PICK o : o = [Op("delete", 0) EXCEPT !.key = key]
  OBVIOUS
<1>3. /\ ~IsGenerating /\ UNCHANGED <<refs, want, over>> /\ UserUpdate(Enqueue({uq}, o, gen))
  BY <1>1, <1>2 DEF Delete
<1>4. uq = <<>> /\ ~Active /\ AllSettled(msgs, over) /\ ListOK(msgs, gen)
  BY <1>3, QuietView
<1>5. PICK d : d = Deleted(msgs, key)
  OBVIOUS
<1>6. \A l, h : Eval(o, l, h) = Deleted(l, key)
  BY <1>2 DEF Eval, Stale, Op
<1>7. PICK q \in Enqueue({uq}, o, gen) : msgs' = Rendered(msgs, q, gen')
  BY <1>3, Committed
<1>8. q = <<o>> \/ q = <<Replace(Eval(o, msgs, gen))>>
  BY <1>4 DEF Enqueue
<1>9. msgs' = d
  <2>1. CASE q = <<o>>
    BY <1>5, <1>6, <1>7, <2>1, FoldOne
  <2>2. CASE q = <<Replace(Eval(o, msgs, gen))>>
    <3>1. q = <<Replace(d)>>
      BY <1>5, <1>6, <2>2
    <3>2. msgs' = Eval(Replace(d), msgs, gen')
      BY <1>7, <3>1, FoldOne
    <3> QED
      BY <3>2, ReplaceFact
  <2> QED
    BY <1>8, <2>1, <2>2
<1>10. ListOK(d, gen) /\ \A j \in 1..Len(d) : \E k \in 1..Len(msgs) : d[j] = msgs[k]
  BY <1>4, <1>5, DeletedFact
<1>11. AllSettled(d, over') /\ SettledBut(d, over') /\ AllCome(d, msgs, gen)
  BY <1>3, <1>4, <1>10, CopyComes DEF AllSettled, SettledBut, AllCome
<1>12. uq' = <<>> /\ ui' = want' /\ stored' = stored
  BY <1>3, Committed
<1>13. over \subseteq over' /\ UNCHANGED <<refs, want>>
  BY <1>3
<1>14. ChatInv' /\ Shown' = msgs'
  BY <1>4, <1>9, <1>10, <1>11, <1>12, <1>13, WrittenBack
<1> QED
  BY <1>9, <1>11, <1>14

\* The editor opens or closes.
LEMMA EditorAction ==
    ASSUME RefsOK, ChatInv, UNCHANGED <<refs, want, view, uq, disk, ghosts>>
    PROVE  ChatInv' /\ Shown' = Shown
<1>1. UNCHANGED <<gen, rq, pend, timer, want, ui, msgs, uq, stored, over>>
  BY DEF refs, view, disk, ghosts
<1>2. Active' <=> Active
  BY <1>1 DEF Active
<1>3. ListsOK' /\ EndOK'
  BY <1>1, <1>2, StillLists DEF ChatInv
<1>4. BufferOK'
  BY <1>1, BufferKept DEF ChatInv, BufferOK, Streaming
<1> QED
  BY <1>1, <1>3, <1>4 DEF ChatInv, ViewOK, Shown

-----------------------------------------------------------------------------
(* Every step. *)

\* The invariant holds when the page is first opened.
LEMMA ChatInitial == CInit => ChatInv
<1> SUFFICES ASSUME CInit PROVE ChatInv
  OBVIOUS
<1>1. /\ gen = 0 /\ timer = 0 /\ pend = [g |-> 0, text |-> <<>>] /\ want = Quiet /\ ui = Quiet
      /\ uq = <<>> /\ msgs = stored /\ stored \in {<<>>, History} /\ over = {}
      /\ rq = [g \in 0..MaxActs |-> [at |-> IF g = 0 THEN "gone" ELSE "none", n |-> 0]]
  BY DEF CInit
<1>2. PICK l : l = stored
  OBVIOUS
<1>3. ListOK(l, 0) /\ AllSettled(l, {}) /\ SettledBut(l, {})
  <2>1. CASE l = <<>>
    <3>1. l \in Lists /\ \A i \in 1..Len(l) : FALSE
      BY <2>1 DEF Lists
    <3> QED
      BY <3>1 DEF ListOK, AllSettled, SettledBut
  <2>2. CASE l = History
    <3>1. PICK x, y : x = UserMessage(0) /\ y = [LoadingMessage(0) EXCEPT !.st = "complete", !.text = <<"old">>]
      OBVIOUS
    <3>2. x \in Messages /\ x.from = "user" /\ x.id = 0 /\ Final(x)
      BY <3>1, NewMessages
    <3>3. y = [from |-> "assistant", id |-> 0, st |-> "complete", text |-> <<"old">>]
      BY <3>1 DEF LoadingMessage
    <3>4. y.from = "assistant" /\ y.id = 0 /\ y.st = "complete" /\ Final(y)
      BY <3>3 DEF Final
    <3>5. y \in Messages
      BY <3>3, ShortTexts DEF Messages
    <3>6. l = <<x, y>>
      BY <2>2, <3>1 DEF History
    <3>7. l \in Seq(Messages) /\ Len(l) = 2 /\ l[1] = x /\ l[2] = y
      BY <3>2, <3>5, <3>6
    <3>8. \A i \in 1..Len(l) : (l[i] = x /\ i = 1) \/ (l[i] = y /\ i = 2)
      BY <3>7
    <3>9. \A i \in 1..Len(l) : l[i].id <= 0 /\ Final(l[i])
      BY <3>2, <3>4, <3>8
    <3>10. \A i, j \in 1..Len(l) : Key(l[i]) = Key(l[j]) => i = j
      BY <3>2, <3>4, <3>8 DEF Key
    <3> QED
      BY <3>7, <3>9, <3>10 DEF ListOK, Lists, AllSettled, SettledBut, Settled
  <2> QED
    BY <1>1, <1>2, <2>1, <2>2
<1>4. \A g \in 0..MaxActs : rq[g].n = 0 /\ rq[g].at \in {"none", "gone"}
  BY <1>1
<1>5. 0 \in 0..MaxActs /\ Len(Reply) \in Nat
  BY ChatAssumption, ReplyFact
<1>6. BufferOK
  BY <1>1, <1>4, <1>5, ShortTexts DEF BufferOK, Streaming
<1>7. ViewOK
  BY <1>1 DEF ViewOK, Flags, Quiet
<1>8. Conversation(l, <<>>, 0) /\ Rendered(l, <<>>, 0) = l
  BY <1>3, ConversationIdle
<1>9. ListsOK /\ EndOK
  BY <1>1, <1>2, <1>3, <1>4, <1>5, <1>8 DEF ListsOK, EndOK, Active, Shown
<1> QED
  BY <1>6, <1>7, <1>9 DEF ChatInv

\* What the user does keeps what is final.
LEMMA CameKeeps ==
    ASSUME RefsOK, ChatInv, ChatInv', AllCome(msgs', msgs, gen)
    PROVE  Keeps(msgs, msgs')
<1>1. ListOK(msgs, gen) /\ gen \in Nat
  BY InGens, ConversationFact DEF ChatInv, ListsOK
<1>2. PICK b : b = msgs'
  OBVIOUS
<1>3. b \in Lists
  BY <1>2, ConversationFact DEF ChatInv, ListsOK
<1> QED
  BY <1>1, <1>2, <1>3, ComesKeeps

\* Every action of the user keeps the invariant and the final messages,
LEMMA ChatStepOfUser ==
    ASSUME IInv, ChatInv, IInv',
           \/ Send \/ Clear \/ EditCancel \/ EditSave \/ EditSubmit
           \/ \E i \in DOMAIN msgs : Regenerate(i) \/ Delete(i) \/ EditOpen(i)
    PROVE  ChatInv' /\ Keeps(msgs, msgs')
<1>1. RefsOK /\ FlagsFollow /\ RefsOK'
  BY DEF IInv
<1>2. CASE Send
  BY <1>1, <1>2, SendAction, CameKeeps
<1>3. CASE Clear
  BY <1>1, <1>3, ClearAction, CameKeeps
<1>4. CASE EditSave
  BY <1>1, <1>4, EditSaveAction, CameKeeps
<1>5. CASE EditSubmit
  BY <1>1, <1>5, EditSubmitAction, CameKeeps
<1>6. ASSUME NEW i \in DOMAIN msgs, Regenerate(i) PROVE ChatInv' /\ Keeps(msgs, msgs')
  BY <1>1, <1>6, RegenerateAction, CameKeeps
<1>7. ASSUME NEW i \in DOMAIN msgs, Delete(i) PROVE ChatInv' /\ Keeps(msgs, msgs')
  BY <1>1, <1>7, DeleteAction, CameKeeps
<1>8. ASSUME UNCHANGED <<refs, want, view, uq, disk, ghosts>> PROVE ChatInv' /\ Keeps(msgs, msgs')
  <2>1. ListsOK /\ msgs' = msgs
    BY <1>8 DEF ChatInv, view
  <2> QED
    BY <1>1, <1>8, <2>1, EditorAction, KeepsSame
<1>9. CASE EditCancel
  BY <1>8, <1>9 DEF EditCancel
<1>10. ASSUME NEW i \in DOMAIN msgs, EditOpen(i) PROVE ChatInv' /\ Keeps(msgs, msgs')
  BY <1>8, <1>10 DEF EditOpen
<1> QED
  BY <1>2, <1>3, <1>4, <1>5, <1>6, <1>7, <1>9, <1>10

\* every event of a request does,
LEMMA ChatStepOfRequest ==
    ASSUME IInv, ChatInv, NEW g \in Gens,
           \/ Headers(g) \/ HeadersFail(g) \/ Delta(g)
           \/ StreamEnd(g, "complete") \/ StreamEnd(g, "error") \/ StreamEof(g)
           \/ PostAnswer(g)
    PROVE  ChatInv' /\ Keeps(msgs, msgs')
<1>1. RefsOK /\ FlagsFollow
  BY DEF IInv
<1>2. CASE Headers(g)
  BY <1>1, <1>2, ChatHeaders
<1>3. CASE HeadersFail(g)
  BY <1>1, <1>3, ChatHeadersFail
<1>4. CASE Delta(g)
  BY <1>1, <1>4, ChatDelta
<1>5. ASSUME NEW op \in {"complete", "error"}, StreamEnd(g, op) PROVE ChatInv' /\ Keeps(msgs, msgs')
  BY <1>1, <1>5, ChatStreamEnd
<1>6. CASE StreamEof(g)
  BY <1>1, <1>6, ChatStreamEof
<1>7. CASE PostAnswer(g)
  BY <1>1, <1>7, ChatPostAnswer
<1> QED
  BY <1>2, <1>3, <1>4, <1>5, <1>6, <1>7

\* and every step of the chat, but for one that goes back to what was saved, and
\* for Leave, which may shorten a text.
LEMMA ChatInductive ==
    ASSUME IInv, ChatInv, IInv', [CNext]_cvars
    PROVE  /\ ChatInv'
           /\ \/ Reload \/ LeaveUnsaved
              \/ Leave /\ KeepsLoaded(msgs, msgs')
              \/ Keeps(msgs, msgs')
<1>1. RefsOK /\ FlagsFollow /\ RefsOK'
  BY DEF IInv
<1>2. CASE Render
  BY <1>1, <1>2, ChatRender
<1>3. CASE FlushTimer
  BY <1>1, <1>3, ChatFlushTimer
<1>4. CASE SaveTimer
  BY <1>1, <1>4, ChatSaveTimer
<1>5. CASE Leave
  BY <1>5, ChatLeave
<1>6. CASE Reload \/ LeaveUnsaved
  BY <1>6, ChatReload, ChatLeaveUnsaved
<1>7. CASE StopGeneration
  BY <1>1, <1>7, ChatStop
<1>8. CASE \/ Send \/ Clear \/ EditCancel \/ EditSave \/ EditSubmit
           \/ \E i \in DOMAIN msgs : Regenerate(i) \/ Delete(i) \/ EditOpen(i)
  BY <1>8, ChatStepOfUser
<1>9. CASE \E g \in Gens : \/ Headers(g) \/ HeadersFail(g) \/ Delta(g)
                           \/ StreamEnd(g, "complete") \/ StreamEnd(g, "error") \/ StreamEof(g)
                           \/ PostAnswer(g)
  BY <1>9, ChatStepOfRequest
<1>10. CASE UNCHANGED cvars
  <2>1. UNCHANGED <<refs, want, view, uq, disk, ghosts>> /\ msgs' = msgs /\ ListsOK
    BY <1>10 DEF cvars, view, ChatInv
  <2> QED
    BY <1>1, <2>1, EditorAction, KeepsSame
<1> QED
  BY <1>2, <1>3, <1>4, <1>5, <1>6, <1>7, <1>8, <1>9, <1>10 DEF CNext

\* The buffer, the view, the lists and the end of the conversation always fit
\* each other: usePlaygroundState renders, useChatHandler buffers and queues,
\* and localStorage keeps lists of which only the last message is pending, and
\* only while its request goes on or its end is queued.
THEOREM AlwaysChatInv == CSpec => []ChatInv
<1>1. CSpec => []IInv
  BY AlwaysIInv
<1>2. IInv /\ IInv' /\ ChatInv /\ [CNext]_cvars => ChatInv'
  BY ChatInductive
<1> QED
  BY <1>1, <1>2, ChatInitial, PTL DEF CSpec

\* The timer, the abort controller and the stream controller belong to the
\* current generation of useChatHandler or to none, and pendingStreamChunksRef
\* never holds more than one reply, for any reply and any number of requests.
THEOREM AlwaysChatTypeOK == CSpec => []ChatTypeOK
<1>1. IInv /\ ChatInv => ChatTypeOK
  <2> SUFFICES ASSUME IInv, ChatInv PROVE ChatTypeOK
    OBVIOUS
  <2>1. RefsOK
    BY DEF IInv
  <2>2. gen \in 0..MaxActs /\ {timer, abort, cur, source} \subseteq {0, gen}
    BY <2>1, InGens DEF RefsOK
  <2>3. pend.g = gen
    BY <2>1 DEF RefsOK
  <2>4. Len(pend.text) <= Len(Reply)
    <3>1. pend.text \in Texts /\ Len(pend.text) <= rq[gen].n /\ rq[gen].n <= Len(Reply)
      BY <2>2 DEF ChatInv, BufferOK
    <3>2. Len(pend.text) \in Nat /\ rq[gen].n \in Nat /\ Len(Reply) \in Nat
      BY <2>1, <2>2, <3>1, ReplyFact DEF RefsOK, Entries, Texts
    <3> QED
      BY <3>1, <3>2
  <2>5. \A g \in Gens : rq[g].at \in {"none", "headers", "open", "post", "eof", "gone"}
    BY <2>1, GensRange DEF RefsOK, Entries, Places
  <2>6. msgs \in Seq(Messages)
    BY ConversationFact DEF ChatInv, ListsOK, Lists
  <2>7. \A i \in DOMAIN msgs : msgs[i] \in Messages
    BY <2>6
  <2>8. \A i \in DOMAIN msgs : msgs[i].st \in {"loading", "streaming", "complete", "error"}
    BY <2>7 DEF Messages
  <2> QED
    BY <2>2, <2>3, <2>4, <2>5, <2>8 DEF ChatTypeOK
<1> QED
  BY <1>1, AlwaysIInv, AlwaysChatInv, PTL

\* No message is left loading or streaming once the page shows nothing in
\* progress, however the request of useChatHandler came to its end; but for one
\* that a saved edit wrote back.
THEOREM AlwaysAllFinal == CSpec => []AllFinal
<1>1. IInv /\ ChatInv => AllFinal
  <2> SUFFICES ASSUME IInv, ChatInv, ui = Quiet PROVE \A i \in DOMAIN msgs : msgs[i].id \in over \/ Final(msgs[i])
    BY DEF AllFinal
  <2>1. RefsOK /\ FlagsFollow
    BY DEF IInv
  <2>2. ~IsGenerating
    BY DEF IsGenerating, Quiet
  <2>3. AllSettled(msgs, over) /\ ListOK(msgs, gen)
    BY <2>1, <2>2, QuietView
  <2>4. DOMAIN msgs = 1..Len(msgs)
    BY <2>3 DEF ListOK, Lists
  <2> QED
    BY <2>3, <2>4 DEF AllSettled, Settled
<1> QED
  BY <1>1, AlwaysIInv, AlwaysChatInv, PTL

\* A final message of usePlaygroundState is never changed again but by an
\* edit: not by a late event, a timer, an update that waits for a render or a
\* stop.  A page that is left and opened again shows it as it was, or shortened as
\* normalizeStoredMessageForLoad shortens what it loads; only a reload, or a page
\* whose last save failed, goes back to what was saved before.
THEOREM AlwaysFinalStable == CSpec => FinalStable
<1> DEFINE Stable == \/ Reload \/ LeaveUnsaved
                     \/ \A i \in DOMAIN msgs : Final(msgs[i]) =>
                          \A j \in DOMAIN msgs' : Key(msgs'[j]) = Key(msgs[i]) =>
                             \/ msgs'[j] = msgs[i] \/ msgs'[j].text = <<"edited">>
                             \/ Leave /\ msgs'[j] = Normalized(msgs[i])
<1>1. IInv /\ IInv' /\ ChatInv /\ ChatInv' /\ [CNext]_cvars => [Stable]_cvars
  <2> SUFFICES ASSUME IInv, IInv', ChatInv, ChatInv', [CNext]_cvars PROVE Stable
    OBVIOUS
  <2>1. \/ Reload \/ LeaveUnsaved
        \/ Leave /\ KeepsLoaded(msgs, msgs')
        \/ Keeps(msgs, msgs')
    BY ChatInductive
  <2>2. DOMAIN msgs = 1..Len(msgs)
    BY ConversationFact DEF ChatInv, ListsOK, Lists
  <2>3. DOMAIN (msgs') = 1..Len(msgs')
    <3>1. PICK b : b = msgs'
      OBVIOUS
    <3>2. b \in Lists
      BY <3>1, ConversationFact DEF ChatInv, ListsOK
    <3> QED
      BY <3>1, <3>2 DEF Lists
  <2>4. CASE Leave /\ KeepsLoaded(msgs, msgs')
    BY <2>2, <2>3, <2>4 DEF KeepsLoaded
  <2>5. CASE Keeps(msgs, msgs')
    BY <2>2, <2>3, <2>5 DEF Keeps
  <2> QED
    BY <2>1, <2>4, <2>5
<1>2. CSpec => [][Stable]_cvars
  BY <1>1, AlwaysIInv, AlwaysChatInv, PTL DEF CSpec
<1> QED
  BY <1>2 DEF FinalStable

-----------------------------------------------------------------------------
(* The text of a reply. *)

\* The text t of the message and the text p that waits are the first n characters,
\* cut where a delta ends.
Sent(t, p, n) ==
    \E i \in Ends \cup {0} : i <= n /\ t = SubSeq(Reply, 1, i) /\ p = SubSeq(Reply, i + 1, n)

\* Where deltas end.
LEMMA EndsRange ==
    \A m \in Ends \cup {0} : m \in Nat /\ m <= Len(Reply) /\ m \in 0..Len(Reply)
<1>1. Len(Reply) \in Nat /\ \A m \in Ends : m \in Nat /\ m >= 1 /\ m <= Len(Reply)
  BY ReplyFact, EndsFact
<1> QED
  BY <1>1

\* Nothing lies between a place and itself.
LEMMA NoPiece ==
    ASSUME NEW a \in Nat, a <= Len(Reply)
    PROVE  SubSeq(Reply, a + 1, a) = <<>>
<1>1. PICK s : s = SubSeq(Reply, a + 1, a)
  OBVIOUS
<1>2. s \in Texts /\ Len(s) = a - a
  BY <1>1, PieceOfReply
<1>3. s \in Seq(Deltas) /\ Len(s) = 0
  BY <1>2 DEF Texts
<1> QED
  BY <1>1, <1>3

\* A piece of the reply and the piece after it.
LEMMA Joined ==
    ASSUME NEW a \in Nat, NEW b \in Nat, NEW c \in Nat, a <= b, b <= c, c <= Len(Reply)
    PROVE  SubSeq(Reply, a + 1, b) \o SubSeq(Reply, b + 1, c) = SubSeq(Reply, a + 1, c)
<1>1. PICK s, u, r : /\ s = SubSeq(Reply, a + 1, b) /\ u = SubSeq(Reply, b + 1, c)
                     /\ r = SubSeq(Reply, a + 1, c)
  OBVIOUS
<1>2. Len(Reply) \in Nat /\ b <= Len(Reply) /\ a <= c /\ Reply \in Seq(Deltas)
  BY ReplyFact DEF Texts
<1>3. /\ s \in Seq(Deltas) /\ Len(s) = b - a /\ u \in Seq(Deltas) /\ Len(u) = c - b
      /\ r \in Seq(Deltas) /\ Len(r) = c - a
  BY <1>1, <1>2, PieceOfReply DEF Texts
<1>4. /\ \A i \in 1..b - a : s[i] = Reply[a + i]
      /\ \A i \in 1..c - b : u[i] = Reply[b + i]
      /\ \A i \in 1..c - a : r[i] = Reply[a + i]
  <2>1. ASSUME NEW x \in Nat, NEW y \in Nat, x <= y, y <= Len(Reply), NEW i \in 1..y - x
        PROVE  SubSeq(Reply, x + 1, y)[i] = Reply[x + i]
    <3>1. PICK z : z = x + 1
      OBVIOUS
    <3>2. z \in 1..Len(Reply) /\ y \in 1..Len(Reply) /\ i \in 1..y - z + 1 /\ z + i - 1 = x + i
      BY <1>2, <2>1, <3>1
    <3>3. SubSeq(Reply, z, y)[i] = Reply[z + i - 1]
      BY <1>2, <3>2
    <3> QED
      BY <3>1, <3>2, <3>3
  <2> QED
    BY <1>1, <1>2, <2>1
<1>5. PICK q : q = s \o u
  OBVIOUS
<1>6. /\ q \in Seq(Deltas) /\ Len(q) = Len(s) + Len(u)
      /\ \A i \in 1..Len(s) : q[i] = s[i]
      /\ \A i \in 1..Len(u) : q[Len(s) + i] = u[i]
  <2>1. s \in Seq(Deltas) /\ u \in Seq(Deltas) /\ Len(s) \in Nat /\ Len(u) \in Nat
    BY <1>3
  <2> QED
    BY <1>5, <2>1
<1>7. Len(q) = c - a
  BY <1>3, <1>6
<1>8. ASSUME NEW i \in 1..c - a PROVE q[i] = r[i]
  <2>1. CASE i <= b - a
    <3>1. i \in 1..b - a
      BY <2>1
    <3> QED
      BY <1>3, <1>4, <1>6, <1>7, <2>1, <3>1
  <2>2. CASE ~(i <= b - a)
    <3>1. i - (b - a) \in 1..c - b /\ b + (i - (b - a)) = a + i
      BY <2>2
    <3>2. PICK j : j = i - (b - a)
      OBVIOUS
    <3>4. j \in 1..Len(u) /\ Len(s) + j = i
      BY <1>3, <3>1, <3>2
    <3>5. q[i] = u[i - (b - a)]
      BY <1>6, <3>2, <3>4
    <3>3. u[i - (b - a)] = Reply[a + i]
      BY <1>4, <3>1
    <3> QED
      BY <1>4, <3>3, <3>5
  <2> QED
    BY <2>1, <2>2
<1>9. q = r
  <2>1. q \in Seq(Deltas) /\ r \in Seq(Deltas) /\ Len(q) = Len(r)
    BY <1>3, <1>6, <1>7
  <2>2. \A i \in 1..Len(q) : q[i] = r[i]
    BY <1>7, <1>8
  <2> QED
    BY <2>1, <2>2
<1> QED
  BY <1>1, <1>5, <1>9

\* IsPrefix, character by character.
LEMMA PrefixOf ==
    ASSUME NEW t \in Texts, NEW c \in Texts
    PROVE  /\ t = <<>> => IsPrefix(t, c)
           /\ IsPrefix(t, c) => Len(t) <= Len(c) /\ \A i \in 1..Len(t) : t[i] = c[i]
<1>1. t \in Seq(Deltas) /\ c \in Seq(Deltas) /\ Len(t) \in Nat /\ Len(c) \in Nat
  BY DEF Texts
<1>2. PICK u, v : u = SubSeq(t, 1, Len(t)) /\ v = SubSeq(c, 1, Len(t))
  OBVIOUS
<1>3. IsPrefix(t, c) <=> Len(t) <= Len(c) /\ u = v
  BY <1>2 DEF IsPrefix
<1>4. Len(t) \in 0..Len(t) /\ (Len(t) <= Len(c) => Len(t) \in 0..Len(c))
  BY <1>1
<1>5. u \in Seq(Deltas) /\ Len(u) = Len(t) /\ \A i \in 1..Len(t) : u[i] = t[i]
  BY <1>1, <1>2, <1>4, PrefixFact
<1>6. Len(t) <= Len(c) => v \in Seq(Deltas) /\ Len(v) = Len(t) /\ \A i \in 1..Len(t) : v[i] = c[i]
  BY <1>1, <1>2, <1>4, PrefixFact
<1>7. IsPrefix(t, c) => Len(t) <= Len(c) /\ \A i \in 1..Len(t) : t[i] = c[i]
  BY <1>3, <1>5, <1>6
<1>8. ASSUME t = <<>> PROVE IsPrefix(t, c)
  <2>1. Len(t) = 0 /\ Len(t) <= Len(c)
    BY <1>1, <1>8
  <2>2. u = v
    BY <1>5, <1>6, <2>1
  <2> QED
    BY <1>3, <2>1, <2>2
<1> QED
  BY <1>7, <1>8

\* A flush shows what was sent.
LEMMA FlushAppends ==
    ASSUME Unambiguous, NEW t, NEW p, p # <<>>, NEW n \in Ends \cup {0}, Sent(t, p, n)
    PROVE  MergeChunk(t, p) = SubSeq(Reply, 1, n)
<1>1. PICK i \in Ends \cup {0} : i <= n /\ t = SubSeq(Reply, 1, i) /\ p = SubSeq(Reply, i + 1, n)
  BY DEF Sent
<1>2. i \in Nat /\ n \in Nat /\ n <= Len(Reply) /\ i <= Len(Reply) /\ 0 + 1 = 1 /\ 0 <= i
  BY EndsRange
<1>3. i < n
  <2>1. i # n
    BY <1>1, <1>2, NoPiece
  <2> QED
    BY <1>1, <1>2, <2>1
<1>4. p \in Texts /\ t \in Texts
  BY <1>1, <1>2, PieceOfReply
<1>5. CASE i = 0
  <2>1. t = <<>>
    <3>1. SubSeq(Reply, 0 + 1, 0) = <<>>
      BY <1>2, <1>5, NoPiece
    <3> QED
      BY <1>1, <1>2, <1>5, <3>1
  <2>2. MergeChunk(t, p) = p
    BY <1>4, <2>1, PrefixOf DEF MergeChunk
  <2> QED
    BY <1>1, <1>2, <1>5, <2>2
<1>6. CASE i # 0
  <2>1. 0 \in Ends \cup {0} /\ 0 < i
    BY <1>2, <1>6
  <2>2. ~IsPrefix(SubSeq(Reply, 0 + 1, i), SubSeq(Reply, i + 1, n))
    BY <1>3, <2>1 DEF Unambiguous
  <2>3. ~IsPrefix(t, p)
    BY <1>1, <1>2, <2>2
  <2>4. MergeChunk(t, p) = t \o p
    BY <2>3 DEF MergeChunk
  <2>5. SubSeq(Reply, 0 + 1, i) \o SubSeq(Reply, i + 1, n) = SubSeq(Reply, 0 + 1, n)
    BY <1>1, <1>2, Joined
  <2> QED
    BY <1>1, <1>2, <2>4, <2>5
<1> QED
  BY <1>5, <1>6

\* A delta is appended to what waits.
LEMMA DeltaAppends ==
    ASSUME Unambiguous, NEW t, NEW p, NEW n \in Ends \cup {0}, Sent(t, p, n),
           NEW m \in Ends, DeltaEnds(n, m), NEW c, c = SubSeq(Reply, n + 1, m)
    PROVE  Sent(t, MergeChunk(p, c), m)
<1>1. PICK i \in Ends \cup {0} : i <= n /\ t = SubSeq(Reply, 1, i) /\ p = SubSeq(Reply, i + 1, n)
  BY DEF Sent
<1>2. /\ i \in Nat /\ n \in Nat /\ m \in Nat /\ m <= Len(Reply) /\ n < m
      /\ m \in Ends \cup {0} /\ n <= Len(Reply)
  BY EndsRange DEF DeltaEnds
<1>3. i <= m /\ n <= m
  BY <1>1, <1>2
<1>4. p \in Texts /\ c \in Texts
  BY <1>1, <1>2, <1>3, PieceOfReply
<1>5. MergeChunk(p, c) = SubSeq(Reply, i + 1, m)
  <2>1. CASE i = n
    <3>1. p = <<>>
      BY <1>1, <1>2, <2>1, NoPiece
    <3>2. MergeChunk(p, c) = c
      BY <1>4, <3>1, PrefixOf DEF MergeChunk
    <3> QED
      BY <2>1, <3>2
  <2>2. CASE i # n
    <3>1. i < n
      BY <1>1, <1>2, <2>2
    <3>2. ~IsPrefix(SubSeq(Reply, i + 1, n), SubSeq(Reply, n + 1, m))
      BY <1>2, <3>1 DEF Unambiguous
    <3>3. MergeChunk(p, c) = p \o c
      BY <1>1, <3>2 DEF MergeChunk
    <3> QED
      BY <1>1, <1>2, <1>3, <3>3, Joined
  <2> QED
    BY <2>1, <2>2
<1> QED
  BY <1>1, <1>3, <1>5 DEF Sent

\* A reply without anything that waits.
LEMMA SentAll ==
    ASSUME NEW n \in Ends \cup {0}, NEW t, t = SubSeq(Reply, 1, n)
    PROVE  Sent(t, <<>>, n)
<1>1. n \in Nat /\ n <= Len(Reply) /\ n <= n
  BY EndsRange
<1> QED
  BY <1>1, NoPiece DEF Sent

-----------------------------------------------------------------------------
(* Nothing is lost. *)

\* Requests that were stopped, left or written over.
Excused == cut \cup over

\* A complete reply that is not excused is what was sent, or was edited; and
\* its request has ended.
Whole(x, c, r) ==
    (x.from = "assistant" /\ x.st = "complete" /\ x.id \notin c /\ r[x.id].n > 0)
        => r[x.id].at = "gone" /\ x.text \in {SubSeq(Reply, 1, r[x.id].n), <<"edited">>}
AllWhole(l, c, r) == \A i \in 1..Len(l) : Whole(l[i], c, r)

\* An earlier request that still runs is excused.
PastOK == \A g \in 0..MaxActs : g < gen => g \in Excused \/ rq[g].at \in {"none", "gone"}

\* The reply of the current request and what waits in the buffer are all that
\* was sent.
TextNow ==
    rq[gen].at \in {"headers", "open", "eof"} =>
        gen \in over \/ Sent(Shown[Len(Shown)].text, pend.text, rq[gen].n)

TextInv == AllWhole(Shown, Excused, rq) /\ PastOK /\ TextNow

\* The requests r become s: the one of x is excused, stays as it was or ends,
\* or was sent nothing.
Spares(x, d, r, s) ==
    \/ x.id \in d
    \/ s[x.id].n = r[x.id].n /\ (r[x.id].at = "gone" => s[x.id].at = "gone")
    \/ ~(s[x.id].n > 0)

\* A whole reply stays whole when the requests spare it.
LEMMA WholeMoves ==
    ASSUME NEW x, NEW c, NEW r, Whole(x, c, r), NEW d, c \subseteq d, NEW s, Spares(x, d, r, s)
    PROVE  Whole(x, d, s)
BY DEF Whole, Spares

\* What the page shows, message by message.
LEMMA ShownFact ==
    ASSUME RefsOK, ChatInv
    PROVE  /\ Shown \in Lists /\ ListOK(Shown, gen) /\ Later(msgs, Shown) /\ ListOK(msgs, gen)
           /\ Len(Shown) \in Nat /\ Len(msgs) = Len(Shown)
           /\ \A i \in 1..Len(Shown) : Shown[i] \in Messages /\ Shown[i].id \in 0..gen /\ Shown[i].id \in 0..MaxActs
<1>1. /\ Shown \in Lists /\ ListOK(Shown, gen) /\ Later(msgs, Shown) /\ ListOK(msgs, gen)
  BY ConversationFact DEF ChatInv, ListsOK, Shown
<1>2. Len(Shown) \in Nat /\ \A i \in 1..Len(Shown) : Shown[i] \in Messages /\ Shown[i].id \in Nat /\ Shown[i].id <= gen
  BY <1>1, IdsFact
<1>3. gen \in 0..MaxActs /\ MaxActs \in Nat
  BY InGens, ChatAssumption
<1>4. \A i \in 1..Len(Shown) : Shown[i].id \in 0..gen /\ Shown[i].id \in 0..MaxActs
  BY <1>2, <1>3
<1>5. Len(msgs) = Len(Shown)
  BY <1>1 DEF Later
<1> QED
  BY <1>1, <1>2, <1>4, <1>5

\* Only the last message can be the pending reply of the current request.
LEMMA OthersAreOlder ==
    ASSUME RefsOK, ChatInv, Pending(Shown, gen)
    PROVE  \A i \in 1..Len(Shown) :
              i = Len(Shown) \/ ~(Shown[i].from = "assistant" /\ Shown[i].id = gen)
<1> SUFFICES ASSUME NEW i \in 1..Len(Shown), Shown[i].from = "assistant", Shown[i].id = gen
             PROVE  i = Len(Shown)
  OBVIOUS
<1>1. ListOK(Shown, gen) /\ Len(Shown) \in Nat
  BY ShownFact
<1>2. Len(Shown) \in 1..Len(Shown)
  BY <1>1
<1>3. Key(Shown[i]) = Key(Shown[Len(Shown)])
  BY DEF Pending, Key
<1> QED
  BY <1>1, <1>2, <1>3 DEF ListOK

\* A step of the current request changes no message but its own.
LEMMA WholeBut ==
    ASSUME RefsOK, ChatInv, RefsOK', ChatInv', TextInv, Active, UNCHANGED <<gen, msgs, cut, over>>,
           \A h \in 0..MaxActs : h # gen => rq'[h] = rq[h],
           NEW l, l = Shown', l # <<>> => Whole(l[Len(l)], Excused, rq')
    PROVE  AllWhole(Shown, Excused, rq)'
<1>1. /\ Len(Shown) \in Nat /\ Len(msgs) = Len(Shown) /\ Later(msgs, Shown)
      /\ \A i \in 1..Len(Shown) : Shown[i].id \in 0..MaxActs
  BY ShownFact
<1>2. Later(msgs, l)
  BY ConversationFact DEF ChatInv, ListsOK, Shown
<1>3. Pending(Shown, gen)
  BY DEF ChatInv, EndOK
<1>4. Len(l) = Len(Shown) /\ \A i \in 1..Len(Shown) : i < Len(Shown) => l[i] = Shown[i]
  BY <1>1, <1>2 DEF Later
<1>5. ASSUME NEW i \in 1..Len(l) PROVE Whole(l[i], Excused, rq')
  <2>1. i \in 1..Len(Shown) /\ (i = Len(Shown) \/ i < Len(Shown))
    BY <1>1, <1>4
  <2>2. CASE i = Len(Shown)
    BY <1>3, <1>4, <2>2 DEF Pending
  <2>3. CASE i < Len(Shown)
    <3>1. l[i] = Shown[i] /\ Whole(Shown[i], Excused, rq)
      BY <1>4, <2>1, <2>3 DEF TextInv, AllWhole
    <3>2. CASE Shown[i].from # "assistant"
      BY <3>1, <3>2 DEF Whole
    <3>3. CASE Shown[i].from = "assistant"
      <4>1. Shown[i].id # gen
        BY <1>1, <1>3, <2>1, <2>3, <3>3, OthersAreOlder
      <4>2. Spares(Shown[i], Excused, rq, rq')
        BY <1>1, <2>1, <4>1 DEF Spares
      <4> QED
        BY <3>1, <4>2, WholeMoves
    <3> QED
      BY <3>2, <3>3
  <2> QED
    BY <2>1, <2>2, <2>3
<1>6. Excused' = Excused
  BY DEF Excused
<1> QED
  BY <1>5, <1>6 DEF AllWhole

\* A request that is no longer the current one moves on.
LEMMA OldMoves ==
    ASSUME RefsOK, ChatInv, TextInv, NEW g \in Gens, g # gen, rq[g].at \notin {"none", "gone"},
           \A h \in 0..MaxActs : h # g => rq'[h] = rq[h],
           UNCHANGED <<gen, msgs, uq, pend, cut, over>>
    PROVE  TextInv'
<1>1. g \in 0..MaxActs /\ g \in Nat /\ gen \in Nat /\ gen \in 0..MaxActs
  BY GensRange, InGens
<1>2. g < gen
  BY <1>1 DEF RefsOK
<1>3. g \in Excused /\ Excused' = Excused /\ Shown' = Shown
  BY <1>1, <1>2 DEF TextInv, PastOK, Excused, Shown
<1>4. AllWhole(Shown, Excused, rq')
  <2> SUFFICES ASSUME NEW i \in 1..Len(Shown) PROVE Whole(Shown[i], Excused, rq')
    BY DEF AllWhole
  <2>1. Whole(Shown[i], Excused, rq) /\ Shown[i].id \in 0..MaxActs
    BY ShownFact DEF TextInv, AllWhole
  <2>2. Spares(Shown[i], Excused, rq, rq')
    BY <1>3, <2>1 DEF Spares
  <2> QED
    BY <2>1, <2>2, WholeMoves
<1>5. PastOK'
  BY <1>3 DEF TextInv, PastOK
<1>6. rq'[gen] = rq[gen]
  BY <1>1
<1>7. TextNow'
  BY <1>3, <1>6 DEF TextInv, TextNow
<1> QED
  BY <1>3, <1>4, <1>5, <1>7 DEF TextInv

\* The requests before the current one are as they were.
LEMMA PastStays ==
    ASSUME RefsOK, PastOK, UNCHANGED <<gen, cut, over>>, \A h \in 0..MaxActs : h # gen => rq'[h] = rq[h]
    PROVE  PastOK'
<1>1. Excused' = Excused /\ gen \in Nat
  BY InGens DEF Excused
<1>2. \A g \in 0..MaxActs : g < gen => g # gen
  BY <1>1
<1> QED
  BY <1>1, <1>2 DEF PastOK

\* The last message is that of the current request, before and after its step.
LEMMA LastIsCurrent ==
    ASSUME RefsOK, ChatInv, ChatInv', Active, UNCHANGED <<gen, msgs>>, NEW l, l = Shown'
    PROVE  l # <<>> /\ l[Len(l)].id = gen
<1>1. Pending(Shown, gen) /\ Shown \in Lists /\ Later(msgs, Shown) /\ Len(Shown) \in Nat
  BY ShownFact DEF ChatInv, EndOK
<1>2. msgs \in Lists
  BY ConversationFact DEF ChatInv, ListsOK
<1>3. Pending(msgs, gen)
  BY <1>1, <1>2, LaterPending
<1>4. Later(msgs, l) /\ l \in Lists
  BY ConversationFact DEF ChatInv, ListsOK, Shown
<1>5. Len(msgs) \in 1..Len(msgs) /\ Len(l) = Len(msgs) /\ Len(l) # 0
  BY <1>2, <1>3, <1>4 DEF Pending, Later, Lists
<1>6. Key(l[Len(l)]) = Key(msgs[Len(msgs)])
  BY <1>4, <1>5 DEF Later
<1>7. l # <<>>
  BY <1>5
<1> QED
  BY <1>3, <1>6, <1>7 DEF Key, Pending

\* The current request was sent nothing.
LEMMA WholeUnsent ==
    ASSUME RefsOK, ChatInv, RefsOK', ChatInv', TextInv, Active, UNCHANGED <<gen, msgs, cut, over>>,
           \A h \in 0..MaxActs : h # gen => rq'[h] = rq[h], rq'[gen].n = 0
    PROVE  AllWhole(Shown, Excused, rq)'
<1>1. PICK l : l = Shown'
  OBVIOUS
<1>2. l # <<>> /\ l[Len(l)].id = gen
  BY <1>1, LastIsCurrent
<1>3. Whole(l[Len(l)], Excused, rq')
  BY <1>2 DEF Whole
<1> QED
  BY <1>1, <1>3, WholeBut

\* The current request goes on: its reply is not complete.
LEMMA WholePending ==
    ASSUME RefsOK, ChatInv, RefsOK', ChatInv', TextInv, Active, Active', UNCHANGED <<gen, msgs, cut, over>>,
           \A h \in 0..MaxActs : h # gen => rq'[h] = rq[h]
    PROVE  AllWhole(Shown, Excused, rq)'
<1>1. PICK l : l = Shown'
  OBVIOUS
<1>2. Pending(l, gen)
  BY <1>1 DEF ChatInv, EndOK
<1>3. Whole(l[Len(l)], Excused, rq')
  BY <1>2 DEF Whole, Pending, Final
<1> QED
  BY <1>1, <1>3, WholeBut

\* The texts through getFreshAuthHeaders,
LEMMA TextHeaders ==
    ASSUME RefsOK, FlagsFollow, ChatInv, RefsOK', ChatInv', TextInv, NEW g \in Gens, Headers(g)
    PROVE  TextInv'
<1>1. UNCHANGED <<gen, msgs, uq, pend, cut, over>>
  BY DEF Headers, view, ghosts
<1>2. PICK p \in {"open", "gone"} : rq' = [rq EXCEPT ![g].at = p]
  BY DEF Headers
<1>3. rq'[g].at = p /\ rq'[g].n = rq[g].n /\ g \in 0..MaxActs /\ \A h \in 0..MaxActs : h # g => rq'[h] = rq[h]
  BY <1>2, RqMoved
<1>4. CASE g # gen
  <2>1. rq[g].at \notin {"none", "gone"}
    BY DEF Headers
  <2> QED
    BY <1>1, <1>3, <1>4, <2>1, OldMoves
<1>5. CASE g = gen
  <2>1. Active /\ rq[gen].at = "headers"
    BY <1>5 DEF Headers, Active
  <2>2. rq[gen].n = 0
    BY <1>3, <1>5, <2>1 DEF ChatInv, BufferOK
  <2>3. AllWhole(Shown, Excused, rq)'
    BY <1>1, <1>3, <1>5, <2>1, <2>2, WholeUnsent
  <2>4. PastOK'
    BY <1>1, <1>3, <1>5, PastStays DEF TextInv
  <2>5. gen \in over \/ Sent(Shown[Len(Shown)].text, pend.text, rq[gen].n)
    BY <2>1 DEF TextInv, TextNow
  <2>6. Shown' = Shown
    BY <1>1 DEF Shown
  <2>7. TextNow'
    BY <1>1, <1>3, <1>5, <2>5, <2>6 DEF TextNow
  <2> QED
    BY <2>3, <2>4, <2>7 DEF TextInv
<1> QED
  BY <1>4, <1>5

\* A request that has ended, or that does not stream, was sent nothing.
LEMMA TextUnsent ==
    ASSUME RefsOK, ChatInv, RefsOK', ChatInv', TextInv, gen \in Gens, UNCHANGED <<gen, msgs, cut, over>>,
           rq[gen].at \in {"headers", "post"}, rq' = [rq EXCEPT ![gen].at = "gone"]
    PROVE  TextInv'
<1>1. Active
  BY DEF Active
<1>2. /\ rq'[gen].at = "gone" /\ rq'[gen].n = rq[gen].n /\ gen \in 0..MaxActs
      /\ \A h \in 0..MaxActs : h # gen => rq'[h] = rq[h]
  BY RqMoved
<1>3. rq[gen].n = 0
  BY <1>2 DEF ChatInv, BufferOK
<1>4. AllWhole(Shown, Excused, rq)'
  BY <1>1, <1>2, <1>3, WholeUnsent
<1>5. PastOK'
  BY <1>2, PastStays DEF TextInv
<1>6. TextNow'
  BY <1>2 DEF TextNow
<1> QED
  BY <1>4, <1>5, <1>6 DEF TextInv

\* its failure,
LEMMA TextHeadersFail ==
    ASSUME RefsOK, FlagsFollow, ChatInv, RefsOK', ChatInv', TextInv, NEW g \in Gens, HeadersFail(g)
    PROVE  TextInv'
<1>1. UNCHANGED <<gen, msgs, cut, over>> /\ rq' = [rq EXCEPT ![g].at = "gone"] /\ rq[g].at = "headers"
  BY DEF HeadersFail, view, ghosts
<1>2. CASE g = gen
  BY <1>1, <1>2, TextUnsent
<1>3. CASE g # gen
  <2>1. \A h \in 0..MaxActs : h # g => rq'[h] = rq[h]
    BY <1>1, RqMoved
  <2>2. g \in Nat /\ g # 0
    BY DEF Gens
  <2>3. cur # g
    BY <1>3, <2>2 DEF RefsOK
  <2>4. UNCHANGED <<pend, uq>>
    BY <2>3 DEF HeadersFail
  <2>5. UNCHANGED <<gen, msgs, uq, pend, cut, over>> /\ rq[g].at \notin {"none", "gone"}
    BY <1>1, <2>4
  <2> QED
    BY <1>3, <2>1, <2>5, OldMoves
<1> QED
  BY <1>2, <1>3

\* an answer that does not stream,
LEMMA TextPostAnswer ==
    ASSUME RefsOK, FlagsFollow, ChatInv, RefsOK', ChatInv', TextInv, NEW g \in Gens, PostAnswer(g)
    PROVE  TextInv'
<1>1. UNCHANGED <<gen, msgs, cut, over>> /\ rq' = [rq EXCEPT ![g].at = "gone"] /\ rq[g].at = "post"
  BY DEF PostAnswer, view, ghosts
<1>2. CASE g = gen
  BY <1>1, <1>2, TextUnsent
<1>3. CASE g # gen
  <2>1. \A h \in 0..MaxActs : h # g => rq'[h] = rq[h]
    BY <1>1, RqMoved
  <2>2. UNCHANGED <<pend, uq>>
    BY <1>3 DEF PostAnswer
  <2>3. UNCHANGED <<gen, msgs, uq, pend, cut, over>> /\ rq[g].at \notin {"none", "gone"}
    BY <1>1, <2>2
  <2> QED
    BY <1>3, <2>1, <2>3, OldMoves
<1> QED
  BY <1>2, <1>3

\* and an end without [DONE].
LEMMA TextStreamEof ==
    ASSUME RefsOK, FlagsFollow, ChatInv, RefsOK', ChatInv', TextInv, NEW g \in Gens, StreamEof(g)
    PROVE  TextInv'
<1>1. UNCHANGED <<gen, msgs, uq, pend, cut, over>> /\ rq' = [rq EXCEPT ![g].at = "eof"] /\ rq[g].at = "open"
  BY DEF StreamEof, view, ghosts
<1>2. rq'[g].at = "eof" /\ rq'[g].n = rq[g].n /\ \A h \in 0..MaxActs : h # g => rq'[h] = rq[h]
  BY <1>1, RqMoved
<1>3. CASE g # gen
  BY <1>1, <1>2, <1>3, OldMoves
<1>4. CASE g = gen
  <2>1. Active /\ Active'
    BY <1>1, <1>2, <1>4 DEF Active
  <2>2. AllWhole(Shown, Excused, rq)'
    BY <1>1, <1>2, <1>4, <2>1, WholePending
  <2>3. PastOK'
    BY <1>1, <1>2, <1>4, PastStays DEF TextInv
  <2>4. gen \in over \/ Sent(Shown[Len(Shown)].text, pend.text, rq[gen].n)
    BY <1>1, <1>4 DEF TextInv, TextNow
  <2>5. Shown' = Shown
    BY <1>1 DEF Shown
  <2>6. TextNow'
    BY <1>1, <1>2, <1>4, <2>4, <2>5 DEF TextNow
  <2> QED
    BY <2>2, <2>3, <2>6 DEF TextInv
<1> QED
  BY <1>3, <1>4

\* The texts through a delta.
LEMMA TextDelta ==
    ASSUME Unambiguous, RefsOK, FlagsFollow, ChatInv, RefsOK', ChatInv', TextInv, NEW g \in Gens, Delta(g)
    PROVE  TextInv'
<1>1. UNCHANGED <<gen, msgs, uq, cut, over>> /\ rq[g].at = "open"
  BY DEF Delta, view, ghosts
<1>2. g \in 0..MaxActs
  BY GensRange
<1>3. rq[g] \in Entries
  BY <1>2 DEF RefsOK
<1>4. PICK m \in Ends :
        /\ DeltaEnds(rq[g].n, m) /\ rq' = [rq EXCEPT ![g].n = m]
        /\ g = gen => pend'.text = MergeChunk(pend.text, SubSeq(Reply, rq[g].n + 1, m))
  BY ChatDelta
<1> DEFINE q == [rq[g] EXCEPT !.n = m]
<1>5. q.at = "open" /\ q.n = m /\ rq' = [rq EXCEPT ![g] = q]
  BY <1>1, <1>3, <1>4 DEF Entries
<1> HIDE DEF q
<1>6. rq'[g] = q /\ \A h \in 0..MaxActs : h # g => rq'[h] = rq[h]
  BY <1>2, <1>5 DEF RefsOK
<1>7. CASE g # gen
  <2>1. pend' = pend
    BY <1>7 DEF Delta
  <2>2. UNCHANGED <<gen, msgs, uq, pend, cut, over>> /\ rq[g].at \notin {"none", "gone"}
    BY <1>1, <2>1
  <2> QED
    BY <1>6, <1>7, <2>2, OldMoves
<1>8. CASE g = gen
  <2>1. Active /\ Active'
    BY <1>1, <1>5, <1>6, <1>8 DEF Active
  <2>2. AllWhole(Shown, Excused, rq)'
    BY <1>1, <1>6, <1>8, <2>1, WholePending
  <2>3. PastOK'
    BY <1>1, <1>6, <1>8, PastStays DEF TextInv
  <2>4. PICK n \in Ends \cup {0} : n = rq[gen].n
    BY <1>2, <1>8 DEF ChatInv, BufferOK
  <2>5. rq'[gen].n = m /\ DeltaEnds(n, m)
    BY <1>4, <1>5, <1>6, <1>8, <2>4
  <2>6. PICK t, p : t = Shown[Len(Shown)].text /\ p = pend.text
    OBVIOUS
  <2>7. gen \in over \/ Sent(t, p, n)
    BY <1>1, <1>8, <2>4, <2>6 DEF TextInv, TextNow
  <2>8. PICK c : c = SubSeq(Reply, n + 1, m)
    OBVIOUS
  <2>9. pend'.text = MergeChunk(p, c)
    BY <1>4, <1>8, <2>4, <2>6, <2>8
  <2>10. gen \in over \/ Sent(t, MergeChunk(p, c), m)
    BY <2>5, <2>7, <2>8, DeltaAppends
  <2>11. Shown' = Shown
    BY <1>1 DEF Shown
  <2>12. gen \in over' \/ Sent(Shown'[Len(Shown')].text, pend'.text, rq'[gen].n)
    BY <1>1, <2>5, <2>6, <2>9, <2>10, <2>11
  <2> QED
    BY <1>1, <2>2, <2>3, <2>12 DEF TextInv, TextNow
<1> QED
  BY <1>7, <1>8

\* What a flush makes of the reply.
LEMMA FlushedText ==
    ASSUME Unambiguous, RefsOK, ChatInv, TextInv, Active, gen \notin over, rq[gen].at \in {"open", "eof"},
           NEW n, n = rq[gen].n
    PROVE  /\ FlushedList \in Lists /\ Pending(FlushedList, gen)
           /\ FlushedList[Len(FlushedList)].text = SubSeq(Reply, 1, n)
<1>1. Shown \in Lists /\ Pending(Shown, gen) /\ pend.text \in Texts /\ gen \in 0..MaxActs
  BY ShownFact, InGens DEF ChatInv, EndOK, BufferOK
<1>2. PICK l : l = Shown
  OBVIOUS
<1>3. PICK k : k = Len(l)
  OBVIOUS
<1>4. l \in Seq(Messages) /\ k \in 1..Len(l) /\ l # <<>> /\ l[k] \in Messages
  BY <1>1, <1>2, <1>3 DEF Lists, Pending
<1>5. PICK t, p : t = l[k].text /\ p = pend.text
  OBVIOUS
<1>6. t \in Texts /\ p \in Texts
  BY <1>1, <1>4, <1>5 DEF Messages
<1>7. Sent(t, p, n)
  BY <1>2, <1>3, <1>5 DEF TextInv, TextNow
<1>8. n \in Ends \cup {0}
  BY <1>1 DEF ChatInv, BufferOK
<1>9. FlushedList \in Lists /\ Pending(FlushedList, gen)
  BY <1>1, FlushedPends
<1>10. CASE p = <<>>
  <2>1. FlushedList = l
    BY <1>2, <1>5, <1>10 DEF FlushedList
  <2>2. PICK i \in Ends \cup {0} : i <= n /\ t = SubSeq(Reply, 1, i) /\ p = SubSeq(Reply, i + 1, n)
    BY <1>7 DEF Sent
  <2>3. i \in Nat /\ n \in Nat /\ n <= Len(Reply)
    BY <1>8, EndsRange
  <2>4. Len(p) = n - i /\ Len(p) = 0
    BY <1>10, <2>2, <2>3, PieceOfReply
  <2>5. i = n
    BY <2>3, <2>4
  <2> QED
    BY <1>3, <1>5, <1>9, <2>1, <2>2, <2>5
<1>11. CASE p # <<>>
  <2>1. PICK o : o = [Op("chunk", gen) EXCEPT !.text = p]
    OBVIOUS
  <2>2. o.op = "chunk" /\ o.text = p /\ o.g = gen
    BY <2>1, OpFact
  <2>3. SoftOp(o) /\ ~Stale(o, gen)
    BY <1>6, <2>2 DEF SoftOp, Stale
  <2>4. PICK e : e = FlushedList
    OBVIOUS
  <2>5. e = Eval(o, l, gen)
    BY <1>2, <1>5, <1>11, <2>1, <2>4 DEF FlushedList
  <2>6. l \in Lists /\ l[k].from = "assistant" /\ ~Final(l[k])
    BY <1>1, <1>2, <1>3 DEF Pending
  <2>7. Len(e) = k /\ e[k] = Updated(o, l[k])
    BY <1>3, <1>4, <2>3, <2>5, <2>6, SoftEval
  <2>8. Updated(o, l[k]) = [l[k] EXCEPT !.text = MergeChunk(@, p), !.st = "streaming"]
    BY <1>4, <2>2, <2>3, <2>6, UpdatedFact
  <2>9. e[k].text = MergeChunk(t, p)
    BY <1>4, <1>5, <2>7, <2>8 DEF Messages
  <2>10. MergeChunk(t, p) = SubSeq(Reply, 1, n)
    BY <1>7, <1>8, <1>11, FlushAppends
  <2> QED
    BY <1>9, <2>4, <2>7, <2>9, <2>10
<1> QED
  BY <1>10, <1>11

\* The texts through the flush timer.
LEMMA TextFlushTimer ==
    ASSUME Unambiguous, RefsOK, FlagsFollow, ChatInv, RefsOK', ChatInv', TextInv, FlushTimer
    PROVE  TextInv'
<1>1. UNCHANGED <<gen, msgs, rq, cut, over>> /\ timer # 0
  BY DEF FlushTimer, view, ghosts
<1>2. Active /\ Shown' = FlushedList /\ pend'.text = <<>>
  BY ChatFlushTimer
<1>3. rq[gen].at \in {"open", "eof"}
  BY <1>1 DEF ChatInv, BufferOK, Streaming
<1>4. Active' /\ \A h \in 0..MaxActs : rq'[h] = rq[h]
  BY <1>1, <1>2 DEF Active
<1>5. AllWhole(Shown, Excused, rq)'
  BY <1>1, <1>2, <1>4, WholePending
<1>6. PastOK'
  BY <1>1, <1>4, PastStays DEF TextInv
<1>7. PICK n : n = rq[gen].n
  OBVIOUS
<1>8. n \in Ends \cup {0}
  BY <1>7, InGens DEF ChatInv, BufferOK
<1>9. gen \in over \/ Sent(FlushedList[Len(FlushedList)].text, <<>>, n)
  <2>1. CASE gen \notin over
    <3>1. PICK t : t = FlushedList[Len(FlushedList)].text
      OBVIOUS
    <3>2. t = SubSeq(Reply, 1, n)
      BY <1>2, <1>3, <1>7, <2>1, <3>1, FlushedText
    <3> QED
      BY <1>8, <3>1, <3>2, SentAll
  <2> QED
    BY <2>1
<1>10. TextNow'
  BY <1>1, <1>2, <1>7, <1>9 DEF TextNow
<1> QED
  BY <1>5, <1>6, <1>10 DEF TextInv

\* The end of a stream leaves a reply that is whole, or an error.
LEMMA EndIsWhole ==
    ASSUME Unambiguous, RefsOK, ChatInv, TextInv, Active, rq[gen].at = "open",
           NEW op \in {"complete", "error"}, NEW e, e = Eval(Op(op, gen), FlushedList, gen),
           NEW r, r[gen].n = rq[gen].n, r[gen].at = "gone", e # <<>>, e[Len(e)].id = gen
    PROVE  Whole(e[Len(e)], Excused, r)
<1>1. CASE gen \in over
  BY <1>1 DEF Whole, Excused
<1>2. CASE gen \notin over
  <2>1. PICK n : n = rq[gen].n
    OBVIOUS
  <2>2. PICK l : l = FlushedList
    OBVIOUS
  <2>3. PICK k : k = Len(l)
    OBVIOUS
  <2>4. l \in Lists /\ Pending(l, gen) /\ l[k].text = SubSeq(Reply, 1, n)
    BY <1>2, <2>1, <2>2, <2>3, FlushedText
  <2>5. PICK x \in Messages : x = l[k]
    BY <2>3, <2>4 DEF Lists, Pending
  <2>6. PICK o : o = Op(op, gen)
    OBVIOUS
  <2>7. o.op = op /\ o.g = gen /\ o.text = <<>>
    BY <2>6, OpFact
  <2>8. SoftOp(o) /\ ~Stale(o, gen)
    BY <2>7, ShortTexts DEF SoftOp, Stale
  <2>9. Len(e) = k /\ e[k] = Updated(o, x)
    <3>1. l # <<>> /\ l[Len(l)].from = "assistant"
      BY <2>4 DEF Pending
    <3>2. e = Eval(o, l, gen)
      BY <2>2, <2>6
    <3> QED
      BY <2>3, <2>4, <2>5, <2>8, <3>1, <3>2, SoftEval
  <2>10. ~Final(x)
    BY <2>3, <2>4, <2>5 DEF Pending
  <2>11. CASE op = "complete"
    <3>1. Updated(o, x) = [x EXCEPT !.st = "complete"]
      BY <2>7, <2>10, <2>11 DEF Updated
    <3>2. e[k].text = SubSeq(Reply, 1, n)
      BY <2>4, <2>5, <2>9, <3>1 DEF Messages
    <3> QED
      BY <2>1, <2>9, <3>2 DEF Whole
  <2>12. CASE op = "error"
    <3>1. Updated(o, x) = [x EXCEPT !.st = "error", !.text = <<"error">>]
      BY <2>7, <2>12 DEF Updated
    <3>2. e[k].st = "error"
      BY <2>9, <3>1 DEF Messages
    <3> QED
      BY <2>9, <3>2 DEF Whole
  <2> QED
    BY <2>11, <2>12
<1> QED
  BY <1>1, <1>2

\* The texts through the end of a stream.
LEMMA TextStreamEnd ==
    ASSUME Unambiguous, RefsOK, FlagsFollow, ChatInv, RefsOK', ChatInv', TextInv,
           NEW g \in Gens, NEW op \in {"complete", "error"}, StreamEnd(g, op)
    PROVE  TextInv'
<1>1. /\ UNCHANGED <<gen, ui, msgs, stored, cut, over>> /\ rq' = [rq EXCEPT ![g].at = "gone"]
      /\ rq[g].at = "open"
  BY DEF StreamEnd, view, ghosts
<1>2. /\ rq'[g].at = "gone" /\ rq'[g].n = rq[g].n
      /\ \A h \in 0..MaxActs : h # g => rq'[h] = rq[h]
  BY <1>1, RqMoved
<1>3. CASE g # gen
  <2>1. g \in Nat /\ g # 0
    BY DEF Gens
  <2>2. ~IsCurrent(g)
    BY <1>3, <2>1 DEF RefsOK, IsCurrent
  <2>3. UNCHANGED <<pend, uq>>
    BY <2>2 DEF StreamEnd
  <2>4. UNCHANGED <<gen, msgs, uq, pend, cut, over>> /\ rq[g].at \notin {"none", "gone"}
    BY <1>1, <2>3
  <2> QED
    BY <1>2, <1>3, <2>4, OldMoves
<1>4. CASE g = gen
  <2>1. Active /\ IsCurrent(gen)
    BY <1>1, <1>4 DEF Active, IsCurrent, FlagsFollow
  <2>2. Finish(gen, op)
    BY <1>4, <2>1 DEF StreamEnd
  <2>3. PICK e : e = Shown'
    OBVIOUS
  <2>4. e = Eval(Op(op, gen), FlushedList, gen)
    BY <1>1, <1>4, <2>1, <2>2, <2>3, CurrentEnds
  <2>5. e # <<>> /\ e[Len(e)].id = gen
    BY <1>1, <2>1, <2>3, LastIsCurrent
  <2>6. Whole(e[Len(e)], Excused, rq')
    <3>1. PICK r : r = rq'
      OBVIOUS
    <3>2. r[gen].n = rq[gen].n /\ r[gen].at = "gone" /\ rq[gen].at = "open"
      BY <1>1, <1>2, <1>4, <3>1
    <3>3. Whole(e[Len(e)], Excused, r)
      BY <2>1, <2>4, <2>5, <3>2, EndIsWhole
    <3> QED
      BY <3>1, <3>3
  <2>7. AllWhole(Shown, Excused, rq)'
    BY <1>1, <1>2, <1>4, <2>1, <2>3, <2>6, WholeBut
  <2>8. PastOK'
    BY <1>1, <1>2, <1>4, PastStays DEF TextInv
  <2>9. TextNow'
    BY <1>1, <1>2, <1>4 DEF TextNow
  <2> QED
    BY <2>7, <2>8, <2>9 DEF TextInv
<1> QED
  BY <1>3, <1>4

\* What the user does keeps whole replies whole, when every message that is not
\* final is excused.
LEMMA CameWhole ==
    ASSUME RefsOK, ChatInv, TextInv, AllCome(msgs', msgs, gen), Shown' = msgs', Excused \subseteq Excused',
           \A i \in 1..Len(msgs) : Final(msgs[i]) \/ msgs[i].id \in Excused',
           \A h \in 0..gen : rq'[h] = rq[h]
    PROVE  AllWhole(Shown, Excused, rq)'
<1>1. PICK b, d, r : b = msgs' /\ d = Excused' /\ r = rq'
  OBVIOUS
<1>2. /\ ListOK(msgs, gen) /\ Later(msgs, Shown) /\ Len(msgs) = Len(Shown) /\ gen \in Nat
      /\ \A i \in 1..Len(Shown) : Shown[i].id \in 0..gen
  BY ShownFact, InGens
<1>3. ASSUME NEW j \in 1..Len(b) PROVE Whole(b[j], d, r)
  <2>1. Comes(b[j], msgs, gen)
    BY <1>1 DEF AllCome
  <2>2. CASE b[j] \in {UserMessage(gen + 1), LoadingMessage(gen + 1)}
    <3>1. b[j].from = "user" \/ b[j].st = "loading"
      BY <2>2 DEF UserMessage, LoadingMessage
    <3> QED
      BY <3>1 DEF Whole
  <2>3. ASSUME NEW i \in 1..Len(msgs), Key(b[j]) = Key(msgs[i]),
               Final(msgs[i]) => b[j] = msgs[i] \/ (b[j].text = <<"edited">> /\ b[j].st = msgs[i].st)
        PROVE  Whole(b[j], d, r)
    <3>1. b[j].id = msgs[i].id /\ b[j].from = msgs[i].from
      BY <2>3 DEF Key
    <3>2. CASE ~Final(msgs[i])
      BY <1>1, <3>1, <3>2 DEF Whole
    <3>3. CASE Final(msgs[i])
      <4>1. Shown[i] = msgs[i] /\ i \in 1..Len(Shown)
        BY <1>2, <3>3 DEF Later
      <4>2. Whole(msgs[i], Excused, rq) /\ msgs[i].id \in 0..gen
        BY <1>2, <4>1 DEF TextInv, AllWhole
      <4>3. r[msgs[i].id] = rq[msgs[i].id]
        BY <1>1, <4>2
      <4>4. Spares(msgs[i], d, rq, r)
        BY <4>3 DEF Spares
      <4>5. Excused \subseteq d
        BY <1>1
      <4>6. Whole(msgs[i], d, r)
        BY <4>2, <4>4, <4>5, WholeMoves
      <4>7. CASE b[j] = msgs[i]
        BY <4>6, <4>7
      <4>8. CASE b[j].text = <<"edited">> /\ b[j].st = msgs[i].st
        BY <3>1, <4>6, <4>8 DEF Whole
      <4> QED
        BY <2>3, <3>3, <4>7, <4>8
    <3> QED
      BY <3>2, <3>3
  <2> QED
    BY <2>1, <2>2, <2>3 DEF Comes
<1> QED
  BY <1>1, <1>3 DEF AllWhole

\* A generation begins: the one before it has ended or is excused.
LEMMA PastGrows ==
    ASSUME RefsOK, PastOK, gen' = gen + 1, Excused \subseteq Excused', gen \in Excused' \/ ~Active,
           \A h \in 0..gen : rq'[h] = rq[h]
    PROVE  PastOK'
<1>1. gen \in Nat /\ gen \in 0..MaxActs /\ rq[gen] \in Entries
  BY InGens
<1>2. gen \in Excused' \/ rq[gen].at \in {"none", "gone"}
  BY <1>1 DEF Active, Entries, Places
<1>3. ASSUME NEW g \in 0..MaxActs, g < gen + 1 PROVE g \in Excused' \/ rq'[g].at \in {"none", "gone"}
  <2>1. g \in 0..gen /\ (g = gen \/ g < gen)
    BY <1>1, <1>3
  <2>2. CASE g = gen
    BY <1>2, <2>1, <2>2
  <2>3. CASE g < gen
    BY <2>1, <2>3 DEF PastOK
  <2> QED
    BY <2>1, <2>2, <2>3
<1> QED
  BY <1>3 DEF PastOK

\* A request is sent.
LEMMA TextSend ==
    ASSUME RefsOK, ChatInv, TextInv, RefsOK', ChatInv', NEW list, SendChat(list), AllCome(msgs', msgs, gen),
           Active', Shown' = msgs', cut' = cut, over \subseteq over', gen \in over' \/ ~Active,
           \A i \in 1..Len(msgs) : Final(msgs[i]) \/ msgs[i].id \in over'
    PROVE  TextInv'
<1>1. gen' = gen + 1 /\ pend'.text = <<>>
  BY DEF SendChat, Discard
<1>2. PICK p \in {"headers", "post"} : rq' = [rq EXCEPT ![gen + 1].at = p]
  BY DEF SendChat
<1>3. gen \in Nat /\ gen + 1 \in 0..MaxActs /\ MaxActs \in Nat
  BY RoomForOne, InGens, ChatAssumption DEF SendChat, RefsOK
<1>4. \A h \in 0..gen : h \in 0..MaxActs /\ h # gen + 1
  BY <1>3
<1> DEFINE e == [rq[gen + 1] EXCEPT !.at = p]
<1>5. e.at = p
  BY <1>3 DEF RefsOK, Entries
<1>6. rq' = [rq EXCEPT ![gen + 1] = e]
  BY <1>2
<1> HIDE DEF e
<1>7. rq'[gen + 1].at = p /\ \A h \in 0..gen : rq'[h] = rq[h]
  BY <1>3, <1>4, <1>5, <1>6 DEF RefsOK
<1>8. Excused \subseteq Excused' /\ (gen \in Excused' \/ ~Active)
      /\ \A i \in 1..Len(msgs) : Final(msgs[i]) \/ msgs[i].id \in Excused'
  BY DEF Excused
<1>9. AllWhole(Shown, Excused, rq)'
  BY <1>7, <1>8, CameWhole
<1>10. PastOK'
  BY <1>1, <1>7, <1>8, PastGrows DEF TextInv
<1>11. PICK b : b = msgs'
  OBVIOUS
<1>12. b \in Lists /\ Pending(b, gen + 1)
  BY <1>1, <1>11, ConversationFact DEF ChatInv, ListsOK, EndOK
<1>13. b[Len(b)].text = <<>>
  <2>1. Len(b) \in 1..Len(b)
    BY <1>12 DEF Lists, Pending
  <2>2. Comes(b[Len(b)], msgs, gen)
    BY <1>11, <2>1 DEF AllCome
  <2>3. b[Len(b)].id = gen + 1 /\ b[Len(b)].from = "assistant"
    BY <1>12 DEF Pending
  <2>4. \A i \in 1..Len(msgs) : msgs[i].id # gen + 1
    <3>1. ListOK(msgs, gen)
      BY ShownFact
    <3>2. \A i \in 1..Len(msgs) : msgs[i].id \in Nat /\ msgs[i].id <= gen
      BY <3>1, IdsFact
    <3> QED
      BY <1>3, <3>2
  <2>5. \A i \in 1..Len(msgs) : Key(b[Len(b)]) # Key(msgs[i])
    BY <2>3, <2>4 DEF Key
  <2>6. b[Len(b)] \in {UserMessage(gen + 1), LoadingMessage(gen + 1)}
    BY <2>2, <2>5 DEF Comes
  <2>7. UserMessage(gen + 1).from = "user" /\ LoadingMessage(gen + 1).text = <<>>
    BY DEF UserMessage, LoadingMessage
  <2> QED
    BY <2>3, <2>6, <2>7
<1>14. rq'[gen + 1].n = 0
  BY <1>3, <1>7 DEF ChatInv, BufferOK
<1>15. Sent(<<>>, <<>>, 0)
  <2>1. 0 \in Nat /\ 0 <= Len(Reply) /\ 0 + 1 = 1
    BY ReplyFact
  <2>2. SubSeq(Reply, 1, 0) = <<>>
    BY <2>1, NoPiece
  <2> QED
    BY <2>2, SentAll
<1>16. TextNow'
  BY <1>1, <1>11, <1>13, <1>14, <1>15 DEF TextNow
<1> QED
  BY <1>9, <1>10, <1>16 DEF TextInv

\* A list is written back, and the requests stay as they are.
LEMMA TextBack ==
    ASSUME RefsOK, ChatInv, TextInv, UNCHANGED refs, cut' = cut, AllCome(msgs', msgs, gen), Shown' = msgs',
           over \subseteq over', gen \in over' \/ ~Active,
           \A i \in 1..Len(msgs) : Final(msgs[i]) \/ msgs[i].id \in over'
    PROVE  TextInv'
<1>1. UNCHANGED <<gen, rq>>
  BY DEF refs
<1>2. Excused \subseteq Excused' /\ \A i \in 1..Len(msgs) : Final(msgs[i]) \/ msgs[i].id \in Excused'
  BY DEF Excused
<1>3. AllWhole(Shown, Excused, rq)'
  BY <1>1, <1>2, CameWhole
<1>4. PastOK'
  BY <1>1, <1>2 DEF TextInv, PastOK
<1>5. TextNow'
  BY <1>1 DEF TextNow, Active
<1> QED
  BY <1>3, <1>4, <1>5 DEF TextInv

\* The texts through what the user does.
LEMMA TextStepOfUser ==
    ASSUME IInv, ChatInv, IInv', ChatInv', TextInv,
           \/ Send \/ Clear \/ EditSave \/ EditSubmit
           \/ \E i \in DOMAIN msgs : Regenerate(i) \/ Delete(i)
    PROVE  TextInv'
<1>1. RefsOK /\ FlagsFollow /\ RefsOK'
  BY DEF IInv
<1>2. ASSUME ~IsGenerating PROVE ~Active /\ \A i \in 1..Len(msgs) : Final(msgs[i]) \/ msgs[i].id \in over
  BY <1>1, <1>2, QuietView DEF AllSettled, Settled
<1>3. \A i \in 1..Len(msgs) : Final(msgs[i]) \/ msgs[i].id \in over \cup {gen}
  BY <1>1, UnsettledIsCurrent
<1>4. CASE Send
  <2>1. /\ ~IsGenerating /\ UNCHANGED <<cut, over>>
        /\ SendChat(msgs \o <<UserMessage(gen + 1), LoadingMessage(gen + 1)>>)
    BY <1>4 DEF Send, ghosts
  <2>2. AllCome(msgs', msgs, gen) /\ Active' /\ Shown' = msgs'
    BY <1>1, <1>4, SendAction
  <2> QED
    BY <1>1, <1>2, <2>1, <2>2, TextSend
<1>5. ASSUME NEW i \in DOMAIN msgs, Regenerate(i) PROVE TextInv'
  <2>1. ~IsGenerating /\ UNCHANGED <<cut, over>>
    BY <1>5 DEF Regenerate, ghosts
  <2>2. PICK list : SendChat(list)
    BY <1>5 DEF Regenerate
  <2>3. AllCome(msgs', msgs, gen) /\ Active' /\ Shown' = msgs'
    BY <1>1, <1>5, RegenerateAction
  <2> QED
    BY <1>1, <1>2, <2>1, <2>2, <2>3, TextSend
<1>6. CASE EditSubmit
  <2>1. cut' = cut /\ over' = over \cup {gen}
    BY <1>6 DEF EditSubmit
  <2>2. PICK list : SendChat(list)
    BY <1>6 DEF EditSubmit
  <2>3. AllCome(msgs', msgs, gen) /\ Active' /\ Shown' = msgs'
    BY <1>1, <1>6, EditSubmitAction
  <2>4. over \subseteq over' /\ gen \in over' /\ \A i \in 1..Len(msgs) : Final(msgs[i]) \/ msgs[i].id \in over'
    BY <1>3, <2>1
  <2> QED
    BY <1>1, <2>1, <2>2, <2>3, <2>4, TextSend
<1>7. CASE EditSave
  <2>1. cut' = cut /\ over' = over \cup {gen} /\ UNCHANGED refs
    BY <1>7 DEF EditSave
  <2>2. AllCome(msgs', msgs, gen) /\ Shown' = msgs'
    BY <1>1, <1>7, EditSaveAction
  <2>3. over \subseteq over' /\ gen \in over' /\ \A i \in 1..Len(msgs) : Final(msgs[i]) \/ msgs[i].id \in over'
    BY <1>3, <2>1
  <2> QED
    BY <1>1, <2>1, <2>2, <2>3, TextBack
<1>8. CASE Clear
  <2>1. ~IsGenerating /\ UNCHANGED <<refs, cut, over>>
    BY <1>8 DEF Clear
  <2>2. AllCome(msgs', msgs, gen) /\ Shown' = msgs'
    BY <1>1, <1>8, ClearAction
  <2> QED
    BY <1>1, <1>2, <2>1, <2>2, TextBack
<1>9. ASSUME NEW i \in DOMAIN msgs, Delete(i) PROVE TextInv'
  <2>1. ~IsGenerating /\ UNCHANGED <<refs, cut, over>>
    BY <1>9 DEF Delete
  <2>2. AllCome(msgs', msgs, gen) /\ Shown' = msgs'
    BY <1>1, <1>9, DeleteAction
  <2> QED
    BY <1>1, <1>2, <2>1, <2>2, TextBack
<1> QED
  BY <1>4, <1>5, <1>6, <1>7, <1>8, <1>9

\* Without queued updates the page shows what it rendered.
LEMMA ShownIdle ==
    ASSUME uq' = <<>>
    PROVE  Shown' = msgs'
BY FoldEmpty DEF Shown

\* A stop excuses the current request.
LEMMA TextCut ==
    ASSUME RefsOK, ChatInv, TextInv, gen' = gen + 1, rq' = rq, cut' = cut \cup {gen}, over' = over,
           Follows(msgs, msgs'), uq' = <<>>, ~Active'
    PROVE  TextInv'
<1>1. Shown' = msgs' /\ AllCome(msgs', msgs, gen)
  BY ShownIdle, FollowsCome
<1>2. Excused \subseteq Excused' /\ gen \in Excused'
  BY DEF Excused
<1>3. \A i \in 1..Len(msgs) : Final(msgs[i]) \/ msgs[i].id \in Excused'
  BY UnsettledIsCurrent DEF Excused
<1>4. AllWhole(Shown, Excused, rq)'
  BY <1>1, <1>2, <1>3, CameWhole
<1>5. PastOK'
  BY <1>2, PastGrows DEF TextInv
<1>6. TextNow'
  BY DEF TextNow, Active
<1> QED
  BY <1>4, <1>5, <1>6 DEF TextInv

\* A page that is left or reloaded excuses every request.
LEMMA TextReload ==
    ASSUME IInv, ChatInv, IInv', TextInv, Leave \/ LeaveUnsaved \/ Reload
    PROVE  TextInv'
<1>1. ListOK(stored, gen) /\ gen \in Nat
  BY InGens DEF ChatInv, ListsOK, IInv
<1>2. PICK kept : ~Active' /\ uq' = <<>> /\ ListOK(kept, gen) /\ AllLoaded(msgs', kept)
  BY <1>1, ChatLeave, ChatLeaveUnsaved, ChatReload
<1>3. Shown' = msgs'
  BY <1>2, ShownIdle
<1>4. cut' = 0..gen /\ gen' = gen + 1
  BY DEF Leave, LeaveUnsaved, Reload, Mount
<1>5. \A i \in 1..Len(kept) : kept[i].id \in Nat /\ kept[i].id <= gen
  BY <1>2, IdsFact
<1>6. PICK b : b = msgs'
  OBVIOUS
<1>7. \A j \in 1..Len(b) : \E i \in 1..Len(kept) : b[j].id = kept[i].id
  BY <1>2, <1>6 DEF AllLoaded, LoadedFrom, Key
<1>8. \A i \in 1..Len(b) : b[i].id \in Excused'
  <2> TAKE i \in 1..Len(b)
  <2>1. b[i].id \in 0..gen
    BY <1>1, <1>5, <1>7
  <2> QED
    BY <1>4, <2>1 DEF Excused
<1>9. AllWhole(Shown, Excused, rq)'
  BY <1>3, <1>6, <1>8 DEF AllWhole, Whole
<1>10. PastOK'
  <2>1. \A g \in 0..MaxActs : g < gen + 1 => g \in 0..gen
    BY <1>1
  <2> QED
    BY <1>4, <2>1 DEF PastOK, Excused
<1>11. TextNow'
  BY <1>2 DEF TextNow, Active
<1> QED
  BY <1>9, <1>10, <1>11 DEF TextInv

\* The texts, when neither the requests nor the shown list change.
LEMMA TextStill ==
    ASSUME TextInv, UNCHANGED <<gen, rq, pend, cut, over>>, Shown' = Shown
    PROVE  TextInv'
<1>1. Excused' = Excused
  BY DEF Excused
<1> QED
  BY <1>1 DEF TextInv, PastOK, TextNow

\* The texts through every event of a request.
LEMMA TextStepOfRequest ==
    ASSUME Unambiguous, IInv, ChatInv, IInv', ChatInv', TextInv, NEW g \in Gens,
           \/ Headers(g) \/ HeadersFail(g) \/ Delta(g)
           \/ StreamEnd(g, "complete") \/ StreamEnd(g, "error") \/ StreamEof(g)
           \/ PostAnswer(g)
    PROVE  TextInv'
<1>1. RefsOK /\ FlagsFollow /\ RefsOK'
  BY DEF IInv
<1>2. CASE Headers(g)
  BY <1>1, <1>2, TextHeaders
<1>3. CASE HeadersFail(g)
  BY <1>1, <1>3, TextHeadersFail
<1>4. CASE Delta(g)
  BY <1>1, <1>4, TextDelta
<1>5. ASSUME NEW op \in {"complete", "error"}, StreamEnd(g, op) PROVE TextInv'
  BY <1>1, <1>5, TextStreamEnd
<1>6. CASE StreamEof(g)
  BY <1>1, <1>6, TextStreamEof
<1>7. CASE PostAnswer(g)
  BY <1>1, <1>7, TextPostAnswer
<1> QED
  BY <1>2, <1>3, <1>4, <1>5, <1>6, <1>7

\* The texts when the page is first opened.
LEMMA TextInitial == CInit => TextInv
<1> SUFFICES ASSUME CInit PROVE TextInv
  OBVIOUS
<1>1. ChatInv /\ gen = 0 /\ uq = <<>>
  BY ChatInitial DEF CInit
<1>2. \A g \in 0..MaxActs : rq[g].n = 0 /\ rq[g].at \in {"none", "gone"}
  BY DEF CInit
<1>3. Shown \in Lists /\ ListOK(Shown, 0)
  BY <1>1, ConversationFact DEF ChatInv, ListsOK, Shown
<1>4. \A i \in 1..Len(Shown) : Shown[i].id = 0
  <2>1. \A i \in 1..Len(Shown) : Shown[i].id \in Nat /\ Shown[i].id <= 0
    BY <1>3, IdsFact
  <2> QED
    BY <2>1
<1>5. 0 \in 0..MaxActs
  BY ChatAssumption
<1>6. AllWhole(Shown, Excused, rq)
  BY <1>2, <1>4, <1>5 DEF AllWhole, Whole
<1>7. PastOK /\ TextNow
  BY <1>1, <1>2, <1>5 DEF PastOK, TextNow
<1> QED
  BY <1>6, <1>7 DEF TextInv

\* The texts through every step.
LEMMA TextInductive ==
    ASSUME Unambiguous, IInv, ChatInv, IInv', ChatInv', TextInv, [CNext]_cvars
    PROVE  TextInv'
<1>1. RefsOK /\ FlagsFollow /\ RefsOK'
  BY DEF IInv
<1>2. CASE Render
  <2>1. Shown' = Shown
    BY <1>1, <1>2, ChatRender, ShownIdle
  <2>2. UNCHANGED <<gen, rq, pend, cut, over>>
    BY <1>2 DEF Render, refs, ghosts
  <2> QED
    BY <2>1, <2>2, TextStill
<1>3. CASE FlushTimer
  BY <1>1, <1>3, TextFlushTimer
<1>4. ASSUME UNCHANGED <<refs, view, uq, cut, over>> PROVE TextInv'
  <2>1. UNCHANGED <<gen, rq, pend, cut, over>>
    BY <1>4 DEF refs
  <2>2. Shown' = Shown
    BY <1>4, <2>1 DEF Shown, view
  <2> QED
    BY <2>1, <2>2, TextStill
<1>5. CASE SaveTimer
  BY <1>4, <1>5 DEF SaveTimer
<1>7. CASE Leave \/ LeaveUnsaved \/ Reload
  BY <1>7, TextReload
<1>8. CASE StopGeneration
  <2>1. gen' = gen + 1 /\ rq' = rq /\ cut' = cut \cup {gen} /\ over' = over
    BY <1>8 DEF StopGeneration
  <2> QED
    BY <1>1, <1>8, <2>1, ChatStop, TextCut
<1>9. CASE EditCancel
  BY <1>4, <1>9 DEF EditCancel, ghosts
<1>10. ASSUME NEW i \in DOMAIN msgs, EditOpen(i) PROVE TextInv'
  BY <1>4, <1>10 DEF EditOpen, ghosts
<1>11. CASE \/ Send \/ Clear \/ EditSave \/ EditSubmit
            \/ \E i \in DOMAIN msgs : Regenerate(i) \/ Delete(i)
  BY <1>11, TextStepOfUser
<1>12. CASE \E g \in Gens : \/ Headers(g) \/ HeadersFail(g) \/ Delta(g)
                            \/ StreamEnd(g, "complete") \/ StreamEnd(g, "error") \/ StreamEof(g)
                            \/ PostAnswer(g)
  BY <1>12, TextStepOfRequest
<1>13. CASE UNCHANGED cvars
  BY <1>4, <1>13 DEF cvars, ghosts
<1> QED
  BY <1>2, <1>3, <1>5, <1>7, <1>8, <1>9, <1>10, <1>11, <1>12, <1>13 DEF CNext

\* A reply that came to its end, neither stopped nor written over, shows every
\* character it was sent: between pendingStreamChunksRef, the flush timer and the
\* updates that wait for a render nothing is lost or doubled, for every reply
\* and every way it is cut into deltas in which no text that is buffered or shown
\* is, character by character, how the deltas after it begin (the startsWith of
\* mergePendingStreamChunk).  For other replies it is false: see the run
\* repeated_delta.
THEOREM AlwaysNothingLost ==
    ASSUME Unambiguous
    PROVE  CSpec => []NothingLost
<1>1. IInv /\ IInv' /\ ChatInv /\ ChatInv' /\ TextInv /\ [CNext]_cvars => TextInv'
  BY TextInductive
<1>2. IInv /\ ChatInv /\ TextInv => NothingLost
  <2> SUFFICES ASSUME IInv, ChatInv, TextInv, NEW i \in DOMAIN msgs,
                      msgs[i].from = "assistant", msgs[i].st = "complete",
                      msgs[i].id \notin cut \cup over, rq[msgs[i].id].n > 0
               PROVE  msgs[i].text \in {SubSeq(Reply, 1, rq[msgs[i].id].n), <<"edited">>}
    BY DEF NothingLost
  <2>1. Later(msgs, Shown) /\ Len(msgs) = Len(Shown) /\ ListOK(msgs, gen)
    BY ShownFact DEF IInv
  <2>2. i \in 1..Len(msgs) /\ i \in 1..Len(Shown)
    BY <2>1 DEF ListOK, Lists
  <2>3. Shown[i] = msgs[i]
    BY <2>1, <2>2 DEF Later, Final
  <2>4. Whole(msgs[i], Excused, rq)
    BY <2>2, <2>3 DEF TextInv, AllWhole
  <2> QED
    BY <2>4 DEF Whole, Excused
<1>3. CSpec => []TextInv
  BY <1>1, TextInitial, AlwaysIInv, AlwaysChatInv, PTL DEF CSpec
<1> QED
  BY <1>2, <1>3, AlwaysIInv, AlwaysChatInv, PTL
=============================================================================
