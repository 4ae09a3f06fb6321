-------------------------- MODULE SystemTaskProofs --------------------------
(***************************************************************************)
(* Proofs about SystemTask, for any number of runners, tasks and failing   *)
(* statements, any length of the lease and any schedule of late ones.      *)
(***************************************************************************)
EXTENDS SystemTask, FiniteSetTheorems, TLAPS

\* The types, without the cardinality of lock, and with what bounds them.
Views == [task : Tasks \cup {NoTask}, by : Runners \cup {NoRunner}, at : Times, until : Times,
          expired : Tasks \cup {NoTask}]
Locks == [task : Tasks, by : Runners, until : Times]
Beats == [pc : {"off", "on", "renew"}, at : Times]
Places == {"idle", "mark", "delete", "create", "dispatch", "down"} \cup Claiming
Statuses == {"absent"} \cup Active \cup Terminal

TypeInv ==
    /\ now \in 0 .. MaxTime
    /\ status \in [Tasks -> Statuses]
    /\ key \in [Tasks -> BOOLEAN]
    /\ by \in [Tasks -> Runners \cup {NoRunner}]
    /\ upd \in [Tasks -> Times]
    /\ lock \subseteq Locks
    /\ pc \in [Runners -> Places]
    /\ view \in [Runners -> Views]
    /\ ex \in [Execs -> {"none", "work", "release", "end"}]
    /\ hb \in [Execs -> Beats]
    /\ lease \in [Execs -> Times]
    /\ late \in BOOLEAN /\ faults \in 0 .. MaxFaults

\* The type has one lock row, whose lease was taken in the past.
LockInv ==
    /\ \A l, m \in lock : l = m
    /\ \A l \in lock : l.until <= now + TTL

\* The active_key is that of the one task which is not over.
KeyInv ==
    /\ \A t \in Tasks : key[t] <=> status[t] \in Active
    /\ \A t, u \in Tasks : key[t] /\ key[u] => t = u

\* What a runner holds in its local variables: times of the past, and while it
\* claims, a task that it has not executed and that was pending.
ViewInv(n) ==
    /\ view[n].at <= now
    /\ pc[n] \in {"mark", "delete"} => view[n].task \in Tasks
    /\ pc[n] \in Claiming \cup {"dispatch"} =>
          /\ view[n].task \in Tasks /\ view[n].until = view[n].at + TTL
          /\ ex[<<n, view[n].task>>] = "none"
          /\ status[view[n].task] # "absent"
    /\ pc[n] = "dispatch" => status[view[n].task] # "pending"

\* A claim that has the lock keeps it until its lease is over.
HoldInv(n) ==
    pc[n] \in {"expire", "update", "giveUp", "dispatch"} /\ view[n].until >= now => MyLock(n) \in lock

\* An execution is of a claimed task, and a heartbeat under way will not
\* shorten the lease.
ExecInv(n, t) ==
    LET e == <<n, t>> IN
    /\ ex[e] # "none" => status[t] \in {"running"} \cup Terminal
    /\ ex[e] = "release" => status[t] \in Terminal
    /\ hb[e].pc # "off" => ex[e] # "none"
    /\ hb[e].at <= now
    /\ hb[e].pc = "renew" => \A l \in lock : l.task = t /\ l.by = n => l.until <= hb[e].at + TTL

\* An execution inside its lease has the lock.
LeaseInv(n, t) ==
    LET e == <<n, t>> IN
    ex[e] = "work" /\ lease[e] >= now => [task |-> t, by |-> n, until |-> lease[e]] \in lock

\* While no claim has outlasted its lease: a running task has its lock row ...
RunInv == ~late => \A t \in Tasks : status[t] = "running" => \E l \in lock : l.task = t

\* ... which is younger than the claim or the stale lock that another runner
\* has in mind, so that neither a takeover nor a late delete removes it ...
YoungInv(n) ==
    ~late => \A l \in lock : status[l.task] = "running" =>
        /\ pc[n] \in {"acquire", "read", "takeover"} => l.until >= view[n].at
        /\ pc[n] = "delete" /\ l.task = view[n].task => l.until >= view[n].at

\* ... and whoever has acquired the lock for a claim knows that nothing runs.
AloneInv(n) ==
    ~late => /\ pc[n] \in Claiming => now <= view[n].until
             /\ pc[n] \in {"expire", "update", "giveUp"} => \A t \in Tasks : status[t] # "running"

RunnerInv(n) == ViewInv(n) /\ HoldInv(n) /\ YoungInv(n) /\ AloneInv(n)
IInv ==
    /\ TypeInv /\ LockInv /\ KeyInv /\ RunInv
    /\ \A n \in Runners : RunnerInv(n)
    /\ \A n \in Runners, t \in Tasks : ExecInv(n, t) /\ LeaseInv(n, t)

-----------------------------------------------------------------------------

LEMMA TimesInt == Times \subseteq Int /\ 0 \in Times /\ \A i \in 0 .. MaxTime : i \in Times /\ i + TTL \in Times
BY SystemTaskAssumption DEF Times

LEMMA NoViewType == NoView \in Views /\ NoView.at = 0 /\ NoView.task = NoTask
BY TimesInt DEF NoView, Views

LEMMA InitIInv == Init => IInv
<1> SUFFICES ASSUME Init PROVE IInv
  OBVIOUS
<1>1. TypeInv
  <2>1. hb \in [Execs -> Beats]
    BY TimesInt DEF Init, Beats
  <2>2. pc \in [Runners -> Places] /\ status \in [Tasks -> Statuses]
    BY DEF Init, Places, Statuses
  <2>3. view \in [Runners -> Views] /\ lease \in [Execs -> Times] /\ upd \in [Tasks -> Times]
    BY NoViewType, TimesInt DEF Init
  <2>4. now \in 0 .. MaxTime /\ faults \in 0 .. MaxFaults
    BY SystemTaskAssumption DEF Init
  <2>6. late \in BOOLEAN /\ lock \subseteq Locks
    BY DEF Init
  <2>5. key \in [Tasks -> BOOLEAN] /\ by \in [Tasks -> Runners \cup {NoRunner}]
        /\ ex \in [Execs -> {"none", "work", "release", "end"}]
    BY DEF Init
  <2> QED BY <2>1, <2>2, <2>3, <2>4, <2>5, <2>6 DEF TypeInv
<1>2. LockInv /\ KeyInv /\ RunInv
  BY DEF Init, LockInv, KeyInv, RunInv, Active
<1>3. \A n \in Runners : RunnerInv(n)
  BY DEF Init, RunnerInv, ViewInv, HoldInv, YoungInv, AloneInv, Claiming, NoView
<1>4. \A n \in Runners, t \in Tasks : ExecInv(n, t) /\ LeaseInv(n, t)
  BY DEF Init, ExecInv, LeaseInv, Execs
<1> QED BY <1>1, <1>2, <1>3, <1>4 DEF IInv

\* A step that changes only what one runner has in mind.
LEMMA LocalStep ==
    ASSUME IInv, NEW n \in Runners, NEW l \in Places, NEW v \in Views,
           UNCHANGED <<clock, rows, lock, execs>>, faults' \in 0 .. MaxFaults,
           pc' = [pc EXCEPT ![n] = l], view' = [view EXCEPT ![n] = v], RunnerInv(n)'
    PROVE  IInv'
<1>1. TypeInv'
  BY DEF IInv, TypeInv, clock, rows, execs
<1>2. LockInv' /\ KeyInv' /\ RunInv'
  BY DEF IInv, LockInv, KeyInv, RunInv, clock, rows
<1>3. ASSUME NEW m \in Runners \ {n} PROVE RunnerInv(m)'
  BY DEF IInv, TypeInv, RunnerInv, ViewInv, HoldInv, YoungInv, AloneInv, MyLock, clock, rows, execs
<1>4. \A m \in Runners, t \in Tasks : ExecInv(m, t)' /\ LeaseInv(m, t)'
  BY DEF IInv, ExecInv, LeaseInv, clock, rows, execs
<1> QED BY <1>1, <1>2, <1>3, <1>4 DEF IInv

\* A runner that begins nothing.
LEMMA IdleInv ==
    ASSUME IInv, NEW n \in Runners, now' >= now, now' \in Int, pc'[n] \in {"idle", "create", "down"},
           view'[n] \in {NoView, view[n]}
    PROVE  RunnerInv(n)'
<1>1. view'[n].at <= now'
  <2>1. view[n].at <= now /\ now \in 0 .. MaxTime /\ view[n] \in Views
    BY DEF IInv, TypeInv, RunnerInv, ViewInv
  <2>2. view[n].at \in Int
    BY <2>1, TimesInt DEF Views
  <2> QED BY <2>1, <2>2, NoViewType
<1> QED BY <1>1 DEF RunnerInv, ViewInv, HoldInv, YoungInv, AloneInv, Claiming

LEMMA StaleScanStep == ASSUME IInv, NEW n \in Runners, StaleScan(n) PROVE IInv'
<1>0. UNCHANGED <<clock, rows, lock, execs, faults>> /\ faults' \in 0 .. MaxFaults /\ view[n] \in Views
  BY DEF StaleScan, IInv, TypeInv
<1>1. CASE Goto(n, "idle") /\ UNCHANGED view
  <2>1. pc' = [pc EXCEPT ![n] = "idle"] /\ view' = [view EXCEPT ![n] = view[n]] /\ "idle" \in Places
    BY <1>1 DEF Goto, Places, IInv, TypeInv
  <2>2. RunnerInv(n)'
    BY <1>0, <2>1, IdleInv DEF clock, IInv, TypeInv
  <2> QED BY <1>0, <2>1, <2>2, LocalStep
<1>2. ASSUME NEW l \in lock,
             GotoView(n, "mark", [NoView EXCEPT !.task = l.task, !.by = l.by, !.at = now])
      PROVE  IInv'
  <2> DEFINE v == [NoView EXCEPT !.task = l.task, !.by = l.by, !.at = now]
  <2>1. v \in Views /\ v.at = now /\ v.task \in Tasks
    <3>1. l \in Locks /\ now \in Times
      BY TimesInt DEF IInv, TypeInv
    <3> QED BY <3>1, NoViewType DEF Views, Locks
  <2> HIDE DEF v
  <2>2. pc' = [pc EXCEPT ![n] = "mark"] /\ view' = [view EXCEPT ![n] = v] /\ "mark" \in Places
    BY <1>2 DEF GotoView, Goto, v, Places
  <2>3. now' = now /\ now \in Int /\ pc'[n] = "mark" /\ view'[n] = v
    BY <1>0, <2>2 DEF IInv, TypeInv, clock
  <2>4. RunnerInv(n)'
    BY <2>1, <2>3 DEF RunnerInv, ViewInv, HoldInv, YoungInv, AloneInv, Claiming
  <2> QED BY <1>0, <2>1, <2>2, <2>4, LocalStep
<1> QED BY <1>1, <1>2 DEF StaleScan

-----------------------------------------------------------------------------
(* What a step has to keep for the runners and executions that do not take it. *)

LEMMA Basics ==
    ASSUME IInv
    PROVE  /\ now \in Int /\ now >= 0 /\ TTL \in Nat /\ TTL > 0
           /\ \A n \in Runners : view[n] \in Views /\ view[n].at \in Int /\ view[n].until \in Int
           /\ \A l \in lock : l \in Locks /\ l.task \in Tasks /\ l.by \in Runners /\ l.until \in Int
           /\ \A n \in Runners, t \in Tasks : hb[<<n, t>>].at \in Int /\ lease[<<n, t>>] \in Int
<1>1. now \in Int /\ now >= 0 /\ TTL \in Nat /\ TTL > 0
  BY SystemTaskAssumption DEF IInv, TypeInv
<1>2. \A n \in Runners : view[n] \in Views /\ view[n].at \in Int /\ view[n].until \in Int
  BY TimesInt DEF IInv, TypeInv, Views
<1>3. \A l \in lock : l \in Locks /\ l.task \in Tasks /\ l.by \in Runners /\ l.until \in Int
  BY TimesInt DEF IInv, TypeInv, Locks
<1>4. \A n \in Runners, t \in Tasks : hb[<<n, t>>].at \in Int /\ lease[<<n, t>>] \in Int
  BY TimesInt DEF IInv, TypeInv, Beats, Execs
<1> QED BY <1>1, <1>2, <1>3, <1>4

\* A row moves from absent over pending and running to a terminal status.
Forward ==
    \A t \in Tasks :
        /\ status[t] # "absent" => status'[t] # "absent"
        /\ status[t] \in {"running"} \cup Terminal => status'[t] \in {"running"} \cup Terminal
        /\ status[t] \in Terminal => status'[t] \in Terminal

\* A lock row of a running task is as young as one that was there.
Younger ==
    ~late => \A l \in lock' : status'[l.task] = "running" =>
        l.until >= now \/ \E k \in lock : k.task = l.task /\ status[k.task] = "running" /\ k.until <= l.until

LEMMA OtherRunner ==
    ASSUME IInv, NEW m \in Runners, pc'[m] = pc[m], view'[m] = view[m], UNCHANGED clock, Forward, Younger,
           pc[m] \in Claiming \cup {"dispatch"} => ex'[<<m, view[m].task>>] = "none",
           pc[m] \in {"expire", "update", "giveUp", "dispatch"} /\ view[m].until >= now => MyLock(m) \in lock',
           \A l \in lock' : l.until \in Int,
           ~late /\ pc[m] \in {"expire", "update", "giveUp"} =>
               \A t \in Tasks : status'[t] = "running" => status[t] = "running"
    PROVE  RunnerInv(m)'
<1>0. RunnerInv(m)
  BY DEF IInv
<1>1. ViewInv(m)'
  BY <1>0 DEF RunnerInv, ViewInv, Forward, clock, Claiming, IInv, TypeInv, Statuses, Active, Terminal
<1>2. HoldInv(m)'
  BY DEF HoldInv, MyLock, clock
<1>3. YoungInv(m)'
  <2> SUFFICES ASSUME ~late, NEW l \in lock', status'[l.task] = "running"
               PROVE  /\ pc[m] \in {"acquire", "read", "takeover"} => l.until >= view[m].at
                      /\ pc[m] = "delete" /\ l.task = view[m].task => l.until >= view[m].at
    BY DEF YoungInv, clock
  <2>1. CASE l.until >= now
    BY <2>1, <1>0, Basics DEF RunnerInv, ViewInv
  <2>2. ASSUME NEW k \in lock, k.task = l.task, status[k.task] = "running", k.until <= l.until
        PROVE  /\ pc[m] \in {"acquire", "read", "takeover"} => l.until >= view[m].at
               /\ pc[m] = "delete" /\ l.task = view[m].task => l.until >= view[m].at
    BY <2>2, <1>0, Basics DEF RunnerInv, YoungInv
  <2> QED BY <2>1, <2>2 DEF Younger
<1>4. AloneInv(m)'
  BY <1>0 DEF RunnerInv, AloneInv, clock
<1> QED BY <1>1, <1>2, <1>3, <1>4 DEF RunnerInv

LEMMA OtherExec ==
    ASSUME IInv, NEW m \in Runners, NEW t \in Tasks, UNCHANGED now, Forward,
           ex'[<<m, t>>] = ex[<<m, t>>], hb'[<<m, t>>] = hb[<<m, t>>], lease'[<<m, t>>] = lease[<<m, t>>],
           hb[<<m, t>>].pc = "renew" => \A l \in lock' : l.task = t /\ l.by = m => l \in lock,
           \A l \in lock : l.task = t /\ l.by = m /\ l.until >= now /\ ex[<<m, t>>] = "work" => l \in lock'
    PROVE  ExecInv(m, t)' /\ LeaseInv(m, t)'
<1>0. ExecInv(m, t) /\ LeaseInv(m, t)
  BY DEF IInv
<1>1. ExecInv(m, t)'
  BY <1>0 DEF ExecInv, Forward
<1>2. LeaseInv(m, t)'
  BY <1>0 DEF LeaseInv
<1> QED BY <1>1, <1>2

\* MarkSystemTaskLeaseExpired.
LEMMA MarkEffect ==
    ASSUME IInv, NEW u \in Tasks \cup {NoTask}, MarkSystemTaskLeaseExpired(u)
    PROVE  /\ status' \in [Tasks -> Statuses] /\ key' \in [Tasks -> BOOLEAN] /\ upd' \in [Tasks -> Times]
           /\ by' = by /\ Forward /\ KeyInv'
           /\ \A t \in Tasks : status'[t] = "running" => status[t] = "running" /\ t # u
<1>1. now \in Times
  BY TimesInt DEF IInv, TypeInv
<1>2. status' \in [Tasks -> Statuses]
  BY DEF MarkSystemTaskLeaseExpired, IInv, TypeInv, Statuses, Terminal
<1>3. key' \in [Tasks -> BOOLEAN]
  BY DEF MarkSystemTaskLeaseExpired, IInv, TypeInv
<1>4. upd' \in [Tasks -> Times]
  BY <1>1 DEF MarkSystemTaskLeaseExpired, IInv, TypeInv
<1>5. Forward
  BY DEF MarkSystemTaskLeaseExpired, Forward, Terminal
<1>6. KeyInv'
  BY DEF MarkSystemTaskLeaseExpired, IInv, TypeInv, KeyInv, Active
<1>7. \A t \in Tasks : status'[t] = "running" => status[t] = "running" /\ t # u
  BY DEF MarkSystemTaskLeaseExpired
<1> QED BY <1>2, <1>3, <1>4, <1>5, <1>6, <1>7 DEF MarkSystemTaskLeaseExpired

-----------------------------------------------------------------------------
(* The actions. *)

\* A step of runner n that leaves the clock, the locks and the executions alone,
\* and after which no task runs that did not run before.
LEMMA MarkStep ==
    ASSUME IInv, NEW n \in Runners, NEW l \in Places, NEW u \in Tasks \cup {NoTask},
           MarkSystemTaskLeaseExpired(u), UNCHANGED <<clock, lock, view, execs, faults>>,
           pc' = [pc EXCEPT ![n] = l], RunnerInv(n)', RunInv'
    PROVE  IInv'
<1>1. TypeInv'
  BY MarkEffect DEF IInv, TypeInv, clock, execs
<1>2. LockInv' /\ KeyInv'
  BY MarkEffect DEF IInv, LockInv, clock
<1>3. Younger
  BY MarkEffect, Basics DEF Younger
<1>4. ASSUME NEW m \in Runners \ {n} PROVE RunnerInv(m)'
  <2>1. RunnerInv(m) /\ pc'[m] = pc[m] /\ view'[m] = view[m] /\ ex' = ex
    BY DEF IInv, TypeInv, execs
  <2> QED BY <2>1, <1>3, MarkEffect, OtherRunner, Basics DEF RunnerInv, ViewInv, HoldInv
<1>5. ASSUME NEW m \in Runners, NEW t \in Tasks PROVE ExecInv(m, t)' /\ LeaseInv(m, t)'
  BY MarkEffect, OtherExec DEF clock, execs
<1> QED BY <1>1, <1>2, <1>4, <1>5 DEF IInv

LEMMA StaleMarkStep == ASSUME IInv, NEW n \in Runners, StaleMark(n) PROVE IInv'
<1>0. RunnerInv(n) /\ view[n] \in Views /\ now \in Int /\ now' = now /\ view' = view
      /\ view' = [view EXCEPT ![n] = view[n]]
  BY DEF StaleMark, IInv, TypeInv, clock
<1>1. CASE Fault /\ Goto(n, "idle") /\ UNCHANGED rows
  <2>1. pc' = [pc EXCEPT ![n] = "idle"] /\ "idle" \in Places /\ pc'[n] = "idle"
    BY <1>1 DEF Goto, Places, IInv, TypeInv
  <2>2. RunnerInv(n)'
    BY <1>0, <2>1, IdleInv
  <2>3. faults' \in 0 .. MaxFaults
    BY <1>1, SystemTaskAssumption DEF Fault, IInv, TypeInv
  <2> QED BY <1>0, <1>1, <2>1, <2>2, <2>3, LocalStep DEF StaleMark
<1>2. CASE MarkSystemTaskLeaseExpired(view[n].task) /\ Goto(n, "delete") /\ NoFault
  <2>1. pc' = [pc EXCEPT ![n] = "delete"] /\ "delete" \in Places /\ pc'[n] = "delete" /\ pc[n] = "mark"
    BY <1>2 DEF StaleMark, Goto, Places, IInv, TypeInv
  <2>2. view[n].task \in Tasks /\ view[n].at <= now
    BY <1>0, <2>1 DEF RunnerInv, ViewInv
  <2>3. RunnerInv(n)'
    <3>1. \A t \in Tasks : status'[t] = "running" => t # view[n].task
      BY <1>2, <2>2, MarkEffect
    <3>2. YoungInv(n)'
      BY <3>1, <2>1, <1>0, <2>2 DEF YoungInv
    <3> QED BY <3>2, <2>1, <2>2, <1>0 DEF RunnerInv, ViewInv, HoldInv, AloneInv, Claiming
  <2>4. RunInv'
    BY <1>2, <2>2, MarkEffect DEF StaleMark, clock, IInv, RunInv
  <2> QED BY <1>2, <2>1, <2>2, <2>3, <2>4, MarkStep DEF StaleMark, NoFault
<1> QED BY <1>1, <1>2 DEF StaleMark

LEMMA StaleDeleteStep == ASSUME IInv, NEW n \in Runners, StaleDelete(n) PROVE IInv'
<1>0. RunnerInv(n) /\ pc[n] = "delete" /\ pc' = [pc EXCEPT ![n] = "idle"] /\ "idle" \in Places
      /\ view' = [view EXCEPT ![n] = NoView] /\ UNCHANGED <<clock, rows, execs>> /\ pc'[n] = "idle"
      /\ view'[n] = NoView
  BY DEF StaleDelete, GotoView, Goto, Places, IInv, TypeInv
<1>1. RunnerInv(n)'
  BY <1>0, IdleInv, Basics DEF clock
<1>2. CASE Fault /\ UNCHANGED lock
  <2>1. faults' \in 0 .. MaxFaults
    BY <1>2, SystemTaskAssumption DEF Fault, IInv, TypeInv
  <2> QED BY <1>0, <1>1, <1>2, <2>1, NoViewType, LocalStep
<1>3. CASE lock' = {l \in lock : ~(l.task = view[n].task /\ l.by = view[n].by /\ l.until < view[n].at)} /\ NoFault
  <2>1. lock' \subseteq lock
    BY <1>3
  <2>2. \A l \in lock : l.until >= now => l \in lock'
    <3>1. view[n].at <= now /\ view[n].at \in Int /\ now \in Int /\ \A l \in lock : l.until \in Int
      BY <1>0, Basics DEF RunnerInv, ViewInv
    <3> QED BY <3>1, <1>3
  <2>3. ~late => \A l \in lock : status[l.task] = "running" => l \in lock'
    <3>1. YoungInv(n)
      BY <1>0 DEF RunnerInv
    <3> QED BY <3>1, <1>0, <1>3, Basics DEF YoungInv
  <2>4. TypeInv'
    <3>1. view' \in [Runners -> Views] /\ pc' \in [Runners -> Places]
      BY <1>0, NoViewType DEF IInv, TypeInv
    <3> QED BY <3>1, <1>0, <1>3, <2>1 DEF IInv, TypeInv, clock, rows, execs, NoFault
  <2>5. LockInv' /\ KeyInv'
    BY <1>0, <2>1 DEF IInv, LockInv, KeyInv, clock, rows
  <2>6. RunInv'
    BY <1>0, <2>3 DEF IInv, RunInv, clock, rows
  <2>7. Forward /\ Younger
    BY <1>0, <2>1, Basics DEF Forward, Younger, rows
  <2>8. ASSUME NEW m \in Runners \ {n} PROVE RunnerInv(m)'
    <3>1. RunnerInv(m) /\ pc'[m] = pc[m] /\ view'[m] = view[m] /\ ex' = ex /\ status' = status
      BY <1>0 DEF IInv, TypeInv, execs, rows
    <3>2. pc[m] \in {"expire", "update", "giveUp", "dispatch"} /\ view[m].until >= now => MyLock(m) \in lock'
      BY <3>1, <2>2 DEF RunnerInv, HoldInv, MyLock
    <3> QED BY <3>1, <3>2, <1>0, <2>1, <2>7, OtherRunner, Basics DEF RunnerInv, ViewInv
  <2>9. ASSUME NEW m \in Runners, NEW t \in Tasks PROVE ExecInv(m, t)' /\ LeaseInv(m, t)'
    BY <1>0, <2>1, <2>2, <2>7, OtherExec DEF clock, execs
  <2> QED BY <1>1, <2>4, <2>5, <2>6, <2>8, <2>9 DEF IInv
<1> QED BY <1>2, <1>3 DEF StaleDelete

LEMMA ScheduleReadStep == ASSUME IInv, NEW n \in Runners, ScheduleRead(n) PROVE IInv'
<1>1. PICK l \in {"idle", "create"} : pc' = [pc EXCEPT ![n] = l]
  BY DEF ScheduleRead, Goto
<1>2. l \in Places /\ pc'[n] = l /\ view[n] \in Views /\ view' = [view EXCEPT ![n] = view[n]]
      /\ view'[n] = view[n] /\ UNCHANGED <<clock, rows, lock, execs>> /\ faults' \in 0 .. MaxFaults
  BY <1>1 DEF ScheduleRead, Places, IInv, TypeInv
<1>3. RunnerInv(n)'
  BY <1>1, <1>2, IdleInv, Basics DEF clock
<1> QED BY <1>1, <1>2, <1>3, LocalStep

\* CreateSystemTask adds a pending row; runners that take part go idle.
LEMMA CreateStep ==
    ASSUME IInv, CreateSystemTask, UNCHANGED <<clock, lock, view, execs, faults>>,
           pc' \in [Runners -> Places], \A m \in Runners : pc'[m] \in {pc[m], "idle"}
    PROVE  IInv'
<1>1. PICK t \in Tasks : /\ status[t] = "absent" /\ \A u \in Tasks : ~key[u]
                         /\ status' = [status EXCEPT ![t] = "pending"]
                         /\ key' = [key EXCEPT ![t] = TRUE]
                         /\ upd' = [upd EXCEPT ![t] = now] /\ by' = by
  BY DEF CreateSystemTask
<1>2. TypeInv'
  <2>1. status' \in [Tasks -> Statuses]
    BY <1>1 DEF IInv, TypeInv, Statuses, Active
  <2>2. upd' \in [Tasks -> Times]
    BY <1>1, TimesInt DEF IInv, TypeInv
  <2>3. key' \in [Tasks -> BOOLEAN]
    BY <1>1 DEF IInv, TypeInv
  <2> QED BY <1>1, <2>1, <2>2, <2>3 DEF IInv, TypeInv, clock, execs
<1>3. Forward /\ \A u \in Tasks : status'[u] = "running" => status[u] = "running"
  BY <1>1 DEF IInv, TypeInv, Forward, Terminal
<1>4. LockInv'
  BY DEF IInv, LockInv, clock
<1>5. KeyInv'
  BY <1>1 DEF IInv, TypeInv, KeyInv, Active
<1>6. RunInv'
  BY <1>3 DEF IInv, RunInv, clock
<1>7. Younger
  BY <1>3, Basics DEF Younger
<1>8. ASSUME NEW m \in Runners PROVE RunnerInv(m)'
  <2>1. RunnerInv(m) /\ view'[m] = view[m] /\ ex' = ex /\ now' = now
    BY DEF IInv, execs, clock
  <2>2. CASE pc'[m] = "idle"
    BY <2>1, <2>2, IdleInv, Basics
  <2>3. CASE pc'[m] = pc[m]
    BY <2>1, <2>3, <1>3, <1>7, OtherRunner, Basics DEF RunnerInv, ViewInv, HoldInv
  <2> QED BY <2>2, <2>3
<1>9. ASSUME NEW m \in Runners, NEW u \in Tasks PROVE ExecInv(m, u)' /\ LeaseInv(m, u)'
  BY <1>3, OtherExec DEF clock, execs
<1> QED BY <1>2, <1>4, <1>5, <1>6, <1>8, <1>9 DEF IInv

LEMMA ScheduleCreateStep == ASSUME IInv, NEW n \in Runners, ScheduleCreate(n) PROVE IInv'
<1>1. pc' = [pc EXCEPT ![n] = "idle"] /\ "idle" \in Places
  BY DEF ScheduleCreate, Goto, Places
<1>2. CASE CreateSystemTask
  <2>1. pc' \in [Runners -> Places] /\ \A m \in Runners : pc'[m] \in {pc[m], "idle"}
    BY <1>1 DEF IInv, TypeInv
  <2> QED BY <1>2, <2>1, CreateStep DEF ScheduleCreate
<1>3. CASE UNCHANGED rows
  <2>1. pc'[n] = "idle" /\ view[n] \in Views /\ view' = [view EXCEPT ![n] = view[n]]
        /\ view'[n] = view[n] /\ UNCHANGED <<clock, rows, lock, execs>> /\ faults' \in 0 .. MaxFaults
    BY <1>1, <1>3 DEF ScheduleCreate, IInv, TypeInv
  <2>2. RunnerInv(n)'
    BY <2>1, IdleInv, Basics DEF clock
  <2> QED BY <1>1, <2>1, <2>2, LocalStep
<1> QED BY <1>2, <1>3 DEF ScheduleCreate

LEMMA EnqueueStep == ASSUME IInv, EnqueueSystemTask PROVE IInv'
BY CreateStep DEF EnqueueSystemTask, IInv, TypeInv

LEMMA ClaimFindStep == ASSUME IInv, NEW n \in Runners, ClaimFind(n) PROVE IInv'
<1>0. UNCHANGED <<clock, rows, lock, execs, faults>> /\ faults' \in 0 .. MaxFaults /\ view[n] \in Views
      /\ now' = now /\ late' = late /\ status' = status /\ lock' = lock /\ ex' = ex
  BY DEF ClaimFind, IInv, TypeInv, clock, rows, execs
<1>1. CASE Goto(n, "idle") /\ UNCHANGED view
  <2>1. pc' = [pc EXCEPT ![n] = "idle"] /\ view' = [view EXCEPT ![n] = view[n]] /\ "idle" \in Places
        /\ pc'[n] = "idle" /\ view'[n] = view[n]
    BY <1>1 DEF Goto, Places, IInv, TypeInv
  <2>2. RunnerInv(n)'
    BY <1>0, <2>1, IdleInv, Basics
  <2> QED BY <1>0, <2>1, <2>2, LocalStep
<1>2. ASSUME NEW t \in Tasks, status[t] = "pending",
             GotoView(n, "acquire", [NoView EXCEPT !.task = t, !.at = now, !.until = now + TTL])
      PROVE  IInv'
  <2> DEFINE v == [NoView EXCEPT !.task = t, !.at = now, !.until = now + TTL]
  <2>1. v \in Views /\ v.at = now /\ v.task = t /\ v.until = now + TTL
    <3>1. now \in Times /\ now + TTL \in Times
      BY TimesInt DEF IInv, TypeInv
    <3> QED BY <3>1, NoViewType DEF Views
  <2> HIDE DEF v
  <2>2. pc' = [pc EXCEPT ![n] = "acquire"] /\ view' = [view EXCEPT ![n] = v] /\ "acquire" \in Places
        /\ pc'[n] = "acquire" /\ view'[n] = v
    BY <1>2 DEF GotoView, Goto, v, Places, Claiming, IInv, TypeInv
  <2>3. \A u \in Tasks : status[u] # "running"
    BY <1>2 DEF IInv, KeyInv, Active
  <2>4. ex[<<n, t>>] = "none"
    BY <1>2 DEF IInv, ExecInv, Terminal
  <2>5. ViewInv(n)'
    BY <1>0, <1>2, <2>1, <2>2, <2>4, Basics DEF ViewInv
  <2>6. YoungInv(n)' /\ AloneInv(n)' /\ HoldInv(n)'
    BY <1>0, <2>1, <2>2, <2>3, Basics DEF YoungInv, AloneInv, HoldInv
  <2> QED BY <1>0, <2>1, <2>2, <2>5, <2>6, LocalStep DEF RunnerInv
<1> QED BY <1>1, <1>2 DEF ClaimFind

LEMMA AcquireReadStep == ASSUME IInv, NEW n \in Runners, AcquireRead(n) PROVE IInv'
<1>0. UNCHANGED <<clock, rows, lock, execs, faults>> /\ faults' \in 0 .. MaxFaults /\ view[n] \in Views
      /\ now' = now /\ late' = late /\ status' = status /\ lock' = lock /\ ex' = ex /\ pc[n] = "read"
      /\ RunnerInv(n)
  BY DEF AcquireRead, IInv, TypeInv, clock, rows, execs
<1>1. CASE GotoView(n, "idle", NoView)
  <2>1. pc' = [pc EXCEPT ![n] = "idle"] /\ view' = [view EXCEPT ![n] = NoView] /\ "idle" \in Places
        /\ pc'[n] = "idle" /\ view'[n] = NoView
    BY <1>1 DEF GotoView, Goto, Places, IInv, TypeInv
  <2>2. RunnerInv(n)'
    BY <1>0, <2>1, IdleInv, Basics
  <2> QED BY <1>0, <2>1, <2>2, NoViewType, LocalStep
<1>2. ASSUME NEW l \in lock, GotoView(n, "takeover", [view[n] EXCEPT !.expired = l.task])
      PROVE  IInv'
  <2> DEFINE v == [view[n] EXCEPT !.expired = l.task]
  <2>1. v \in Views /\ v.at = view[n].at /\ v.task = view[n].task /\ v.until = view[n].until
    BY Basics DEF Views
  <2> HIDE DEF v
  <2>2. pc' = [pc EXCEPT ![n] = "takeover"] /\ view' = [view EXCEPT ![n] = v] /\ "takeover" \in Places
        /\ pc'[n] = "takeover" /\ view'[n] = v
    BY <1>2 DEF GotoView, Goto, v, Places, Claiming, IInv, TypeInv
  <2>3. RunnerInv(n)'
    BY <1>0, <2>1, <2>2 DEF RunnerInv, ViewInv, HoldInv, YoungInv, AloneInv, Claiming
  <2> QED BY <1>0, <2>1, <2>2, <2>3, LocalStep
<1> QED BY <1>1, <1>2 DEF AcquireRead

\* Runner n takes the lock for its claim when nobody is inside a lease.
LEMMA TakeStep ==
    ASSUME IInv, NEW n \in Runners, pc[n] \in {"acquire", "takeover"}, NEW p \in {"expire", "update"},
           pc' = [pc EXCEPT ![n] = p], UNCHANGED <<clock, rows, view, execs, faults>>,
           \A l \in lock : l.until < now,
           ~late => \A t \in Tasks : status[t] # "running",
           lock' = {MyLock(n)}
    PROVE  IInv'
<1>0. /\ now' = now /\ late' = late /\ status' = status /\ ex' = ex /\ hb' = hb /\ lease' = lease
      /\ view' = view /\ pc'[n] = p /\ \A m \in Runners \ {n} : pc'[m] = pc[m]
      /\ RunnerInv(n) /\ p \in Places
  BY DEF clock, rows, execs, IInv, TypeInv, Places, Claiming
<1>1. view[n].task \in Tasks /\ view[n].until = view[n].at + TTL /\ view[n].at <= now
      /\ ex[<<n, view[n].task>>] = "none" /\ view[n] \in Views
  BY <1>0, Basics DEF RunnerInv, ViewInv, Claiming
<1>2. MyLock(n) \in Locks /\ MyLock(n).until = view[n].until /\ MyLock(n).task = view[n].task
      /\ MyLock(n).by = n
  BY <1>1 DEF MyLock, Locks, Views
<1>3. TypeInv'
  BY <1>0, <1>2 DEF IInv, TypeInv, clock, rows, execs
<1>4. LockInv' /\ KeyInv' /\ RunInv'
  BY <1>0, <1>1, <1>2, Basics DEF IInv, LockInv, KeyInv, RunInv, rows
<1>5. Forward /\ Younger
  BY <1>0, <1>2, <1>1 DEF Forward, Younger
<1>6. RunnerInv(n)'
  BY <1>0, <1>1 DEF RunnerInv, ViewInv, HoldInv, YoungInv, AloneInv, MyLock, Claiming
<1>7. ASSUME NEW m \in Runners \ {n} PROVE RunnerInv(m)'
  <2>1. RunnerInv(m)
    BY DEF IInv
  <2>2. ~(pc[m] \in {"expire", "update", "giveUp", "dispatch"} /\ view[m].until >= now)
    BY <2>1, Basics DEF RunnerInv, HoldInv, MyLock
  <2>3. \A l \in lock' : l.until \in Int
    BY <1>1, <1>2, Basics
  <2> QED BY <2>1, <2>2, <2>3, <1>0, <1>5, OtherRunner DEF RunnerInv, ViewInv
<1>8. ASSUME NEW m \in Runners, NEW t \in Tasks PROVE ExecInv(m, t)' /\ LeaseInv(m, t)'
  <2>1. ExecInv(m, t)
    BY DEF IInv
  <2>2. hb[<<m, t>>].pc = "renew" => \A l \in lock' : l.task = t /\ l.by = m => l \in lock
    BY <2>1, <1>1, <1>2 DEF ExecInv
  <2> QED BY <2>2, <1>0, <1>5, OtherExec, Basics
<1> QED BY <1>3, <1>4, <1>6, <1>7, <1>8 DEF IInv

LEMMA AcquireInsertStep == ASSUME IInv, NEW n \in Runners, AcquireInsert(n) PROVE IInv'
<1>0. pc[n] = "acquire" /\ UNCHANGED <<clock, rows, view, execs>> /\ RunnerInv(n) /\ view[n] \in Views
      /\ view' = [view EXCEPT ![n] = view[n]] /\ view'[n] = view[n]
  BY DEF AcquireInsert, IInv, TypeInv
<1>1. CASE lock = {} /\ lock' = {MyLock(n)} /\ Goto(n, "update") /\ NoFault
  <2>1. ~late => \A t \in Tasks : status[t] # "running"
    BY <1>1 DEF IInv, RunInv
  <2> QED BY <1>0, <1>1, <2>1, TakeStep DEF Goto, NoFault
<1>2. CASE Goto(n, "read") /\ UNCHANGED lock /\ (NoFault \/ Fault)
  <2>1. pc' = [pc EXCEPT ![n] = "read"] /\ pc'[n] = "read" /\ "read" \in Places
    BY <1>2 DEF Goto, Places, Claiming, IInv, TypeInv
  <2>2. faults' \in 0 .. MaxFaults
    BY <1>2, SystemTaskAssumption DEF NoFault, Fault, IInv, TypeInv
  <2>3. RunnerInv(n)'
    BY <1>0, <1>2, <2>1 DEF RunnerInv, ViewInv, HoldInv, YoungInv, AloneInv, Claiming, clock, rows, execs
  <2> QED BY <1>0, <1>2, <2>1, <2>2, <2>3, LocalStep
<1> QED BY <1>1, <1>2 DEF AcquireInsert

LEMMA AcquireTakeoverStep == ASSUME IInv, NEW n \in Runners, AcquireTakeover(n) PROVE IInv'
<1>0. pc[n] = "takeover" /\ UNCHANGED <<clock, rows, execs>> /\ RunnerInv(n) /\ view[n] \in Views
  BY DEF AcquireTakeover, IInv, TypeInv
<1>1. ASSUME NEW l \in lock, l.until < view[n].at, lock' = {MyLock(n)}, Goto(n, "expire"), NoFault,
             UNCHANGED view
      PROVE  IInv'
  <2>1. \A k \in lock : k = l
    BY DEF IInv, LockInv
  <2>2. \A k \in lock : k.until < now
    BY <1>0, <1>1, <2>1, Basics DEF RunnerInv, ViewInv
  <2>3. ~late => status[l.task] # "running"
    BY <1>0, <1>1, Basics DEF RunnerInv, YoungInv
  <2>4. ~late => \A t \in Tasks : status[t] # "running"
    BY <2>1, <2>3 DEF IInv, RunInv
  <2> QED BY <1>0, <1>1, <2>2, <2>4, TakeStep DEF Goto, NoFault
<1>2. CASE GotoView(n, "idle", NoView) /\ UNCHANGED lock /\ (NoFault \/ Fault)
  <2>1. pc' = [pc EXCEPT ![n] = "idle"] /\ view' = [view EXCEPT ![n] = NoView] /\ "idle" \in Places
        /\ pc'[n] = "idle" /\ view'[n] = NoView
    BY <1>2 DEF GotoView, Goto, Places, IInv, TypeInv
  <2>2. faults' \in 0 .. MaxFaults
    BY <1>2, SystemTaskAssumption DEF NoFault, Fault, IInv, TypeInv
  <2>3. RunnerInv(n)'
    BY <1>0, <2>1, IdleInv, Basics DEF clock
  <2> QED BY <1>0, <1>2, <2>1, <2>2, <2>3, NoViewType, LocalStep
<1> QED BY <1>1, <1>2 DEF AcquireTakeover

\* Runner n gives the lock of its claim back and goes idle.
LEMMA GiveBackStep ==
    ASSUME IInv, NEW n \in Runners, pc[n] = "giveUp",
           ReleaseSystemTaskLock(view[n].task, n), GotoView(n, "idle", NoView),
           UNCHANGED <<clock, rows, execs>>, faults' \in 0 .. MaxFaults
    PROVE  IInv'
<1>0. /\ now' = now /\ late' = late /\ status' = status /\ ex' = ex /\ hb' = hb /\ lease' = lease
      /\ pc' = [pc EXCEPT ![n] = "idle"] /\ view' = [view EXCEPT ![n] = NoView] /\ "idle" \in Places
      /\ pc'[n] = "idle" /\ view'[n] = NoView
      /\ \A m \in Runners \ {n} : pc'[m] = pc[m] /\ view'[m] = view[m]
      /\ RunnerInv(n)
  BY DEF clock, rows, execs, GotoView, Goto, IInv, TypeInv, Places
<1>1. ex[<<n, view[n].task>>] = "none" /\ (~late => \A t \in Tasks : status[t] # "running")
  BY <1>0 DEF RunnerInv, ViewInv, AloneInv, Claiming
<1>2. lock' \subseteq lock /\ \A l \in lock : ~(l.task = view[n].task /\ l.by = n) => l \in lock'
  BY DEF ReleaseSystemTaskLock
<1>3. TypeInv'
  BY <1>0, <1>2, NoViewType DEF IInv, TypeInv, clock, rows, execs
<1>4. LockInv' /\ KeyInv' /\ RunInv'
  BY <1>0, <1>1, <1>2 DEF IInv, LockInv, KeyInv, RunInv, rows
<1>5. Forward /\ Younger
  BY <1>0, <1>1, <1>2, Basics DEF Forward, Younger
<1>6. RunnerInv(n)'
  BY <1>0, IdleInv, Basics
<1>7. ASSUME NEW m \in Runners \ {n} PROVE RunnerInv(m)'
  <2>1. RunnerInv(m)
    BY DEF IInv
  <2>2. pc[m] \in {"expire", "update", "giveUp", "dispatch"} /\ view[m].until >= now => MyLock(m) \in lock'
    BY <2>1, <1>2 DEF RunnerInv, HoldInv, MyLock
  <2> QED BY <2>1, <2>2, <1>0, <1>2, <1>5, OtherRunner, Basics DEF RunnerInv, ViewInv
<1>8. ASSUME NEW m \in Runners, NEW t \in Tasks PROVE ExecInv(m, t)' /\ LeaseInv(m, t)'
  BY <1>0, <1>1, <1>2, <1>5, OtherExec
<1> QED BY <1>3, <1>4, <1>6, <1>7, <1>8 DEF IInv

\* Runner n goes on within its claim, holding the lock.
LEMMA WithinClaim ==
    ASSUME IInv, NEW n \in Runners, pc[n] \in {"expire", "update"}, NEW p \in {"update", "giveUp"},
           Goto(n, p), UNCHANGED <<clock, rows, lock, view, execs>>, NoFault \/ Fault
    PROVE  IInv'
<1>0. RunnerInv(n) /\ view[n] \in Views /\ p \in Places
  BY DEF IInv, TypeInv, Places, Claiming
<1>1. pc' = [pc EXCEPT ![n] = p] /\ pc'[n] = p /\ view' = [view EXCEPT ![n] = view[n]]
  BY DEF Goto, IInv, TypeInv
<1>2. faults' \in 0 .. MaxFaults
  BY SystemTaskAssumption DEF NoFault, Fault, IInv, TypeInv
<1>3. RunnerInv(n)'
  BY <1>0, <1>1 DEF RunnerInv, ViewInv, HoldInv, YoungInv, AloneInv, MyLock, Claiming, clock, rows, execs
<1> QED BY <1>0, <1>1, <1>2, <1>3, LocalStep

LEMMA ClaimReleaseStep == ASSUME IInv, NEW n \in Runners, ClaimRelease(n) PROVE IInv'
<1>0. /\ pc[n] = "giveUp" /\ UNCHANGED <<clock, rows, execs>> /\ GotoView(n, "idle", NoView)
      /\ pc' = [pc EXCEPT ![n] = "idle"] /\ view' = [view EXCEPT ![n] = NoView] /\ "idle" \in Places
      /\ pc'[n] = "idle" /\ view'[n] = NoView /\ now' = now
  BY DEF ClaimRelease, clock, GotoView, Goto, IInv, TypeInv, Places
<1>1. faults' \in 0 .. MaxFaults
  BY SystemTaskAssumption DEF ClaimRelease, NoFault, Fault, IInv, TypeInv
<1>2. CASE ReleaseSystemTaskLock(view[n].task, n)
  BY <1>0, <1>1, <1>2, GiveBackStep
<1>3. CASE UNCHANGED lock
  <2>1. RunnerInv(n)'
    BY <1>0, IdleInv, Basics
  <2> QED BY <1>0, <1>1, <1>3, <2>1, NoViewType, LocalStep
<1> QED BY <1>2, <1>3 DEF ClaimRelease

LEMMA ClaimExpireStep == ASSUME IInv, NEW n \in Runners, ClaimExpire(n) PROVE IInv'
<1>0. pc[n] = "expire" /\ UNCHANGED <<clock, lock, execs>> /\ RunnerInv(n) /\ view[n] \in Views
      /\ "update" \in Places
  BY DEF ClaimExpire, IInv, TypeInv, Places, Claiming
<1>1. ASSUME NEW p \in {"update", "giveUp"}, UNCHANGED <<rows, view>>, Goto(n, p), NoFault \/ Fault
      PROVE  IInv'
  BY <1>0, <1>1, WithinClaim
<1>2. CASE MarkSystemTaskLeaseExpired(view[n].expired) /\ Goto(n, "update") /\ NoFault /\ UNCHANGED view
  <2>1. pc' = [pc EXCEPT ![n] = "update"] /\ pc'[n] = "update" /\ view[n].expired \in Tasks \cup {NoTask}
    BY <1>0, <1>2 DEF Goto, IInv, TypeInv, Views
  <2>2. Forward /\ \A t \in Tasks : status'[t] = "running" => status[t] = "running"
    BY <1>2, <2>1, MarkEffect
  <2>3. RunnerInv(n)'
    BY <1>0, <1>2, <2>1, <2>2
       DEF RunnerInv, ViewInv, HoldInv, YoungInv, AloneInv, MyLock, Claiming, clock, execs, Forward
  <2>4. RunInv'
    BY <1>0, <1>2, <2>2 DEF IInv, RunInv, clock
  <2> QED BY <1>0, <1>2, <2>1, <2>3, <2>4, MarkStep DEF NoFault
<1> QED BY <1>1, <1>2 DEF ClaimExpire

LEMMA ClaimUpdateStep == ASSUME IInv, NEW n \in Runners, ClaimUpdate(n) PROVE IInv'
<1>0. pc[n] = "update" /\ UNCHANGED <<clock, lock, view, execs>> /\ RunnerInv(n) /\ view[n] \in Views
      /\ "dispatch" \in Places /\ now' = now /\ late' = late /\ ex' = ex
  BY DEF ClaimUpdate, IInv, TypeInv, Places, clock, execs
<1>1. CASE (NoFault \/ Fault) /\ Goto(n, "giveUp") /\ UNCHANGED rows
  BY <1>0, <1>1, WithinClaim
<1>2. ASSUME status[view[n].task] = "pending",
             status' = [status EXCEPT ![view[n].task] = "running"],
             by' = [by EXCEPT ![view[n].task] = n],
             upd' = [upd EXCEPT ![view[n].task] = view[n].at],
             Goto(n, "dispatch"), NoFault, UNCHANGED key
      PROVE  IInv'
  <2> DEFINE t == view[n].task
  <2>1. t \in Tasks /\ ex[<<n, t>>] = "none" /\ view[n].at \in Times
    BY <1>0 DEF RunnerInv, ViewInv, Views, Claiming
  <2>2. pc' = [pc EXCEPT ![n] = "dispatch"] /\ pc'[n] = "dispatch"
        /\ \A m \in Runners \ {n} : pc'[m] = pc[m]
    BY <1>2 DEF Goto, IInv, TypeInv
  <2>3. ~late => MyLock(n) \in lock /\ view[n].until >= now /\ \A u \in Tasks : status[u] # "running"
    BY <1>0, Basics DEF RunnerInv, AloneInv, HoldInv, Claiming
  <2>4. status'[t] = "running" /\ \A u \in Tasks \ {t} : status'[u] = status[u]
    BY <1>2, <2>1 DEF IInv, TypeInv
  <2>5. TypeInv'
    <3>1. status' \in [Tasks -> Statuses]
      BY <1>2, <2>1 DEF IInv, TypeInv, Statuses, Active
    <3>2. by' \in [Tasks -> Runners \cup {NoRunner}] /\ upd' \in [Tasks -> Times]
      BY <1>2, <2>1 DEF IInv, TypeInv
    <3> QED BY <1>0, <1>2, <2>2, <3>1, <3>2 DEF IInv, TypeInv, clock, execs, NoFault
  <2>6. LockInv' /\ KeyInv'
    BY <1>0, <1>2, <2>1, <2>4 DEF IInv, LockInv, KeyInv, Active
  <2>7. MyLock(n).task = t /\ MyLock(n).until = view[n].until /\ MyLock(n).by = n
    BY DEF MyLock
  <2>8. RunInv'
    BY <1>0, <1>2, <2>3, <2>4, <2>7 DEF RunInv
  <2>9. Forward
    BY <1>2, <2>4 DEF Forward, Terminal
  <2>10. Younger
    <3>1. \A l, k \in lock : l = k
      BY DEF IInv, LockInv
    <3> QED BY <1>0, <1>2, <2>3, <2>7, <3>1 DEF Younger
  <2>11. RunnerInv(n)'
    BY <1>0, <1>2, <2>1, <2>2, <2>4 DEF RunnerInv, ViewInv, HoldInv, YoungInv, AloneInv, MyLock, Claiming
  <2>12. ASSUME NEW m \in Runners \ {n} PROVE RunnerInv(m)'
    <3>1. RunnerInv(m)
      BY DEF IInv
    <3>2. ~(~late /\ pc[m] \in {"expire", "update", "giveUp"})
      <4> SUFFICES ASSUME ~late, pc[m] \in {"expire", "update", "giveUp"} PROVE FALSE
        OBVIOUS
      <4>1. MyLock(m) \in lock
        BY <3>1, Basics DEF RunnerInv, AloneInv, HoldInv, Claiming
      <4>2. MyLock(m).by = m
        BY DEF MyLock
      <4> QED BY <4>1, <4>2, <2>3, <2>7 DEF IInv, LockInv
    <3>3. view'[m] = view[m]
      BY <1>0
    <3> QED BY <3>1, <3>2, <3>3, <1>0, <1>2, <2>2, <2>9, <2>10, OtherRunner, Basics
            DEF RunnerInv, ViewInv, HoldInv
  <2>13. ASSUME NEW m \in Runners, NEW u \in Tasks PROVE ExecInv(m, u)' /\ LeaseInv(m, u)'
    BY <1>0, <1>2, <2>9, OtherExec DEF execs
  <2> QED BY <2>5, <2>6, <2>8, <2>11, <2>12, <2>13 DEF IInv
<1> QED BY <1>1, <1>2 DEF ClaimUpdate

\* A step that concerns one execution, of runner n and task t, and no row of the
\* lock table but its own.
OwnRow(n, t) == \A l \in lock \cup lock' : (l.task = t /\ l.by = n) \/ (l \in lock /\ l \in lock')
OwnExec(n, t) ==
    \A d \in Execs : d # <<n, t>> => ex'[d] = ex[d] /\ hb'[d] = hb[d] /\ lease'[d] = lease[d]

LEMMA OneExec ==
    ASSUME IInv, NEW n \in Runners, NEW t \in Tasks, UNCHANGED clock, OwnRow(n, t), OwnExec(n, t),
           TypeInv', LockInv', KeyInv', RunInv', Forward, Younger, ExecInv(n, t)', LeaseInv(n, t)',
           \A u \in Tasks : status'[u] = "running" => status[u] = "running",
           \A m \in Runners \ {n} : pc'[m] = pc[m] /\ view'[m] = view[m], RunnerInv(n)'
    PROVE  IInv'
<1>0. \A l \in lock' : l.until \in Int
  BY TimesInt DEF TypeInv, Locks
<1>1. ASSUME NEW m \in Runners \ {n} PROVE RunnerInv(m)'
  <2>1. RunnerInv(m)
    BY DEF IInv
  <2>2. ASSUME pc[m] \in Claiming \cup {"dispatch"} PROVE ex'[<<m, view[m].task>>] = "none"
    <3>1. view[m].task \in Tasks /\ ex[<<m, view[m].task>>] = "none"
      BY <2>1, <2>2 DEF RunnerInv, ViewInv
    <3>2. <<m, view[m].task>> \in Execs /\ <<m, view[m].task>> # <<n, t>>
      BY <3>1 DEF Execs
    <3> QED BY <3>1, <3>2 DEF OwnExec
  <2>3. MyLock(m) \in lock => MyLock(m) \in lock'
    BY DEF OwnRow, MyLock
  <2> QED BY <1>0, <2>1, <2>2, <2>3, OtherRunner DEF RunnerInv, HoldInv
<1>2. ASSUME NEW m \in Runners, NEW u \in Tasks, <<m, u>> # <<n, t>> PROVE ExecInv(m, u)' /\ LeaseInv(m, u)'
  <2>1. <<m, u>> \in Execs
    BY DEF Execs
  <2>2. ex'[<<m, u>>] = ex[<<m, u>>] /\ hb'[<<m, u>>] = hb[<<m, u>>] /\ lease'[<<m, u>>] = lease[<<m, u>>]
    BY <1>2, <2>1 DEF OwnExec
  <2>3. \A l \in lock \cup lock' : l.task = u /\ l.by = m => l \in lock /\ l \in lock'
    BY <1>2 DEF OwnRow
  <2>4. now' = now
    BY DEF clock
  <2> QED BY <2>2, <2>3, <2>4, OtherExec
<1>3. ASSUME NEW m \in Runners, NEW u \in Tasks PROVE ExecInv(m, u)' /\ LeaseInv(m, u)'
  <2>1. CASE <<m, u>> = <<n, t>>
    <3>1. m = n /\ u = t
      BY <2>1
    <3> QED BY <3>1
  <2> QED BY <1>2, <2>1
<1> QED BY <1>1, <1>3 DEF IInv

\* The same when no runner moves: the execution is not of a task that its runner
\* is about to claim.
LEMMA ExecOnly ==
    ASSUME IInv, NEW n \in Runners, NEW t \in Tasks, UNCHANGED <<clock, pc, view>>, OwnRow(n, t), OwnExec(n, t),
           TypeInv', LockInv', KeyInv', RunInv', Forward, Younger, ExecInv(n, t)', LeaseInv(n, t)',
           \A u \in Tasks : status'[u] = "running" => status[u] = "running", ex[<<n, t>>] # "none"
    PROVE  IInv'
<1>0. \A l \in lock' : l.until \in Int
  BY TimesInt DEF TypeInv, Locks
<1>1. RunnerInv(n)
  BY DEF IInv
<1>2. ASSUME pc[n] \in Claiming \cup {"dispatch"}
      PROVE  /\ ex'[<<n, view[n].task>>] = "none"
             /\ MyLock(n) \in lock => MyLock(n) \in lock'
  <2>1. view[n].task \in Tasks /\ ex[<<n, view[n].task>>] = "none"
    BY <1>1, <1>2 DEF RunnerInv, ViewInv
  <2>2. view[n].task # t
    BY <2>1
  <2>3. <<n, view[n].task>> \in Execs /\ <<n, view[n].task>> # <<n, t>>
    BY <2>1, <2>2 DEF Execs
  <2>4. MyLock(n) \in lock => MyLock(n) \in lock'
    BY <2>2 DEF OwnRow, MyLock
  <2> QED BY <2>1, <2>3, <2>4 DEF OwnExec
<1>3. RunnerInv(n)'
  BY <1>0, <1>1, <1>2, OtherRunner DEF RunnerInv, HoldInv, Claiming
<1> QED BY <1>3, OneExec

LEMMA ClaimDispatchStep == ASSUME IInv, NEW n \in Runners, ClaimDispatch(n) PROVE IInv'
<1>0. /\ pc[n] = "dispatch" /\ UNCHANGED <<clock, rows, lock>> /\ RunnerInv(n)
      /\ pc' = [pc EXCEPT ![n] = "idle"] /\ view' = [view EXCEPT ![n] = NoView] /\ "idle" \in Places
      /\ pc'[n] = "idle" /\ view'[n] = NoView
      /\ \A m \in Runners \ {n} : pc'[m] = pc[m] /\ view'[m] = view[m]
      /\ now' = now /\ late' = late /\ status' = status /\ lock' = lock
  BY DEF ClaimDispatch, clock, rows, GotoView, Goto, IInv, TypeInv, Places
<1>1. RunnerInv(n)'
  BY <1>0, IdleInv, Basics
<1>2. CASE Fault /\ UNCHANGED execs
  <2>1. faults' \in 0 .. MaxFaults
    BY <1>2, SystemTaskAssumption DEF Fault, IInv, TypeInv
  <2> QED BY <1>0, <1>1, <1>2, <2>1, NoViewType, LocalStep
<1>3. CASE /\ ex' = [ex EXCEPT ![<<n, view[n].task>>] = "work"]
           /\ hb' = [hb EXCEPT ![<<n, view[n].task>>].pc = "on"]
           /\ lease' = [lease EXCEPT ![<<n, view[n].task>>] = view[n].until] /\ NoFault
  <2>0. view[n].task \in Tasks
    BY <1>0 DEF RunnerInv, ViewInv
  <2> PICK t \in Tasks : t = view[n].task
    BY <2>0
  <2> PICK e \in Execs : e = <<n, t>>
    BY DEF Execs
  <2>1. status[t] \in {"running"} \cup Terminal /\ view[n].until \in Times
    BY <1>0, Basics DEF RunnerInv, ViewInv, IInv, TypeInv, Statuses, Active, Views
  <2>2. ex' = [ex EXCEPT ![e] = "work"] /\ hb' = [hb EXCEPT ![e] = [hb[e] EXCEPT !.pc = "on"]]
        /\ lease' = [lease EXCEPT ![e] = view[n].until]
    BY <1>3 DEF IInv, TypeInv
  <2>3. [hb[e] EXCEPT !.pc = "on"] \in Beats /\ [hb[e] EXCEPT !.pc = "on"].pc = "on"
        /\ [hb[e] EXCEPT !.pc = "on"].at = hb[e].at
    BY DEF IInv, TypeInv, Beats
  <2> DEFINE b == [hb[e] EXCEPT !.pc = "on"]
  <2> HIDE DEF b
  <2>4. ex'[e] = "work" /\ hb'[e] = b /\ lease'[e] = view[n].until /\ OwnExec(n, t)
    BY <2>2 DEF IInv, TypeInv, OwnExec, b
  <2>5. TypeInv'
    BY <1>0, <1>3, <2>1, <2>2, <2>3, NoViewType DEF b, IInv, TypeInv, clock, rows, NoFault
  <2>6. LockInv' /\ KeyInv' /\ RunInv' /\ Forward /\ Younger /\ OwnRow(n, t)
    BY <1>0, Basics DEF IInv, LockInv, KeyInv, RunInv, Forward, Younger, rows, OwnRow
  <2>7. ExecInv(n, t)'
    <3>1. ExecInv(n, t)
      BY DEF IInv
    <3> QED BY <3>1, <1>0, <2>1, <2>3, <2>4 DEF ExecInv, b
  <2>8. LeaseInv(n, t)'
    BY <1>0, <2>4 DEF LeaseInv, RunnerInv, HoldInv, MyLock
  <2> QED BY <1>0, <1>1, <2>4, <2>5, <2>6, <2>7, <2>8, OneExec
<1> QED BY <1>2, <1>3 DEF ClaimDispatch

LEMMA HeartbeatTickStep ==
    ASSUME IInv, NEW n \in Runners, NEW t \in Tasks, HeartbeatTick(n, t) PROVE IInv'
<1> PICK e \in Execs : e = <<n, t>>
  BY DEF Execs
<1>0. /\ UNCHANGED <<clock, rows, lock, pc, view, ex, lease, faults>>
      /\ now' = now /\ late' = late /\ status' = status /\ lock' = lock /\ ex' = ex /\ lease' = lease
      /\ hb[e].pc = "on" /\ ExecInv(n, t) /\ LeaseInv(n, t)
  BY DEF HeartbeatTick, clock, rows, IInv
<1>1. PICK b \in Beats : /\ hb' = [hb EXCEPT ![e] = b] /\ b.at \in {0, now}
                         /\ b.pc = "renew" => b.at = now
  <2>1. [pc |-> "off", at |-> 0] \in Beats /\ [pc |-> "renew", at |-> now] \in Beats
    BY TimesInt DEF Beats, IInv, TypeInv
  <2>2. CASE ex[e] \in {"end", "release"}
    <3>1. hb' = [hb EXCEPT ![e] = [pc |-> "off", at |-> 0]]
      BY <2>2 DEF HeartbeatTick
    <3> QED BY <2>1, <3>1
  <2>3. CASE ex[e] \notin {"end", "release"}
    <3>1. hb' = [hb EXCEPT ![e] = [pc |-> "renew", at |-> now]]
      BY <2>3 DEF HeartbeatTick
    <3> QED BY <2>1, <3>1
  <2> QED BY <2>2, <2>3
<1>2. hb'[e] = b /\ OwnExec(n, t)
  BY <1>0, <1>1 DEF OwnExec, IInv, TypeInv
<1>3. TypeInv'
  BY <1>0, <1>1 DEF IInv, TypeInv, clock, rows
<1>4. LockInv' /\ KeyInv' /\ RunInv' /\ Forward /\ Younger /\ OwnRow(n, t)
  BY <1>0, Basics DEF IInv, LockInv, KeyInv, RunInv, Forward, Younger, rows, OwnRow
<1>5. ex[e] # "none"
  BY <1>0 DEF ExecInv
<1>6. ExecInv(n, t)'
  BY <1>0, <1>1, <1>2, <1>5, Basics DEF ExecInv, IInv, LockInv
<1>7. LeaseInv(n, t)'
  BY <1>0 DEF LeaseInv
<1> QED BY <1>0, <1>2, <1>3, <1>4, <1>5, <1>6, <1>7, ExecOnly

\* A renewal writes the row of the execution anew and never shortens it.
LEMMA RenewSystemTaskLockStep ==
    ASSUME IInv, NEW n \in Runners, NEW t \in Tasks, RenewSystemTaskLock(n, t) PROVE IInv'
<1> PICK e \in Execs : e = <<n, t>>
  BY DEF Execs
<1>0. /\ UNCHANGED <<clock, rows, pc, view, ex>>
      /\ now' = now /\ late' = late /\ status' = status /\ ex' = ex
      /\ hb[e].pc = "renew" /\ ExecInv(n, t) /\ LeaseInv(n, t)
  BY DEF RenewSystemTaskLock, clock, rows, IInv
<1>1. ex[e] # "none" /\ Forward
  BY <1>0 DEF ExecInv, Forward
<1> DEFINE on == [pc |-> "on", at |-> 0]
           off == [pc |-> "off", at |-> 0]
<1>2. on \in Beats /\ on.pc = "on" /\ on.at = 0 /\ off \in Beats /\ off.pc = "off" /\ off.at = 0
  BY TimesInt DEF Beats
<1> HIDE DEF on, off
<1>3. CASE /\ hb' = [hb EXCEPT ![e] = off] /\ UNCHANGED <<lock, lease>> /\ faults' \in 0 .. MaxFaults
  <2>1. hb'[e] = off /\ OwnExec(n, t)
    BY <1>0, <1>3 DEF OwnExec, IInv, TypeInv
  <2>2. TypeInv'
    BY <1>0, <1>2, <1>3 DEF IInv, TypeInv, clock, rows
  <2>3. LockInv' /\ KeyInv' /\ RunInv' /\ Younger /\ OwnRow(n, t)
    BY <1>0, <1>3, Basics DEF IInv, LockInv, KeyInv, RunInv, Forward, Younger, rows, OwnRow
  <2>4. ExecInv(n, t)'
    BY <1>0, <1>2, <2>1, Basics DEF ExecInv
  <2>5. LeaseInv(n, t)'
    BY <1>0, <1>3 DEF LeaseInv
  <2> QED BY <1>0, <1>1, <2>1, <2>2, <2>3, <2>4, <2>5, ExecOnly
<1>4. CASE /\ HoldsLiveLock(t, n, hb[e].at)
           /\ lock' = {[task |-> t, by |-> n, until |-> hb[e].at + TTL]}
           /\ lease' = [lease EXCEPT ![e] = IF ex[e] = "work" THEN hb[e].at + TTL ELSE 0]
           /\ hb' = [hb EXCEPT ![e] = on] /\ NoFault
  <2>1. PICK l \in lock : l.task = t /\ l.by = n
    BY <1>4 DEF HoldsLiveLock
  <2>2. PICK k \in Locks : k = [task |-> t, by |-> n, until |-> hb[e].at + TTL]
    <3>1. hb[e].at \in 0 .. MaxTime
      <4>1. hb[e].at \in Times /\ hb[e].at <= now /\ now \in 0 .. MaxTime
        BY <1>0 DEF ExecInv, IInv, TypeInv, Beats
      <4> QED BY <4>1, SystemTaskAssumption DEF Times
    <3>2. hb[e].at + TTL \in Times
      BY <3>1, TimesInt
    <3> QED BY <3>2 DEF Locks
  <2>3. k.task = t /\ k.by = n /\ k.until = hb[e].at + TTL /\ k.until \in Times /\ lock' = {k}
    BY <1>4, <2>2 DEF Locks
  <2>4. lock = {l} /\ l.until <= k.until /\ l.until \in Int /\ k.until \in Int /\ k.until <= now + TTL
    <3>1. \A d \in lock : d = l
      BY DEF IInv, LockInv
    <3>2. l.until <= hb[e].at + TTL /\ hb[e].at <= now
      BY <1>0, <2>1 DEF ExecInv
    <3> QED BY <3>1, <3>2, <2>3, TimesInt, Basics
  <2>5. lease' = [lease EXCEPT ![e] = IF ex[e] = "work" THEN k.until ELSE 0]
    BY <1>4, <2>3
  <2>6. hb'[e] = on /\ lease'[e] = (IF ex[e] = "work" THEN k.until ELSE 0) /\ OwnExec(n, t)
    BY <1>0, <1>4, <2>5 DEF OwnExec, IInv, TypeInv
  <2>7. TypeInv'
    <3>1. (IF ex[e] = "work" THEN k.until ELSE 0) \in Times
      BY <2>3, TimesInt
    <3>2. lease' \in [Execs -> Times]
      BY <2>5, <3>1 DEF IInv, TypeInv
    <3>3. lock' \subseteq Locks
      BY <2>3
    <3> QED BY <1>0, <1>2, <1>4, <3>2, <3>3 DEF IInv, TypeInv, clock, rows, NoFault
  <2>8. LockInv'
    BY <1>0, <2>3, <2>4 DEF LockInv
  <2>9. KeyInv' /\ RunInv'
    BY <1>0, <2>1, <2>3, <2>4 DEF IInv, KeyInv, RunInv, rows
  <2>10. Younger /\ OwnRow(n, t)
    BY <1>0, <2>1, <2>3, <2>4 DEF Younger, OwnRow
  <2>11. ExecInv(n, t)'
    BY <1>0, <1>2, <2>6, Basics DEF ExecInv
  <2>12. LeaseInv(n, t)'
    BY <1>0, <2>2, <2>3, <2>6 DEF LeaseInv
  <2> QED BY <1>0, <1>1, <2>6, <2>7, <2>8, <2>9, <2>10, <2>11, <2>12, ExecOnly
<1> QED
  <2>1. NoFault \/ Fault => faults' \in 0 .. MaxFaults
    BY SystemTaskAssumption DEF Fault, NoFault, IInv, TypeInv
  <2> QED BY <1>3, <1>4, <2>1 DEF RenewSystemTaskLock, on, off

\* The handler comes to its end; its row of the lock table may go.
LEMMA ExecEnds ==
    ASSUME IInv, NEW n \in Runners, NEW t \in Tasks, NEW e \in Execs, e = <<n, t>>,
           NEW l \in {"end", "release"}, ex[e] # "none",
           ex' = [ex EXCEPT ![e] = l], lease' \in {lease, [lease EXCEPT ![e] = 0]},
           l = "release" => status'[t] \in Terminal,
           UNCHANGED <<clock, pc, view, hb, by>>, lock' \subseteq lock, OwnRow(n, t), Forward, KeyInv', RunInv',
           status' \in [Tasks -> Statuses], key' \in [Tasks -> BOOLEAN], upd' \in [Tasks -> Times],
           faults' \in 0 .. MaxFaults, \A u \in Tasks : status'[u] = "running" => status[u] = "running"
    PROVE  IInv'
<1>0. ex'[e] = l /\ OwnExec(n, t) /\ ExecInv(n, t) /\ now' = now
  BY DEF OwnExec, IInv, TypeInv, clock
<1>1. TypeInv'
  <2>1. lease' \in [Execs -> Times] /\ ex' \in [Execs -> {"none", "work", "release", "end"}]
    BY TimesInt DEF IInv, TypeInv
  <2> QED BY <2>1 DEF IInv, TypeInv, clock
<1>2. LockInv'
  BY <1>0 DEF IInv, LockInv
<1>3. Younger
  BY Basics DEF Younger
<1>4. ExecInv(n, t)'
  BY <1>0 DEF ExecInv, Forward
<1>5. LeaseInv(n, t)'
  BY <1>0 DEF LeaseInv
<1> QED BY <1>0, <1>1, <1>2, <1>3, <1>4, <1>5, ExecOnly

\* The time that a statement compares with was read after the row's last write.
LEMMA ReadBefore == ASSUME IInv, NEW t \in Tasks PROVE \A at \in upd[t] .. now : at \in Times
<1>1. upd[t] \in Times /\ now \in 0 .. MaxTime
  BY DEF IInv, TypeInv
<1> QED BY <1>1, SystemTaskAssumption DEF Times

LEMMA UpdateSystemTaskStateStep ==
    ASSUME IInv, NEW n \in Runners, NEW t \in Tasks, UpdateSystemTaskState(n, t) PROVE IInv'
<1> PICK e \in Execs : e = <<n, t>>
  BY DEF Execs
<1>0. /\ UNCHANGED <<clock, status, key, by, lock, pc, view, hb, faults>>
      /\ now' = now /\ late' = late /\ status' = status /\ lock' = lock /\ key' = key /\ hb' = hb
      /\ ex[e] = "work" /\ ExecInv(n, t) /\ LeaseInv(n, t)
  BY DEF UpdateSystemTaskState, clock, IInv
<1>1. LockInv' /\ KeyInv' /\ RunInv' /\ Forward /\ Younger /\ OwnRow(n, t)
  BY <1>0, Basics DEF IInv, LockInv, KeyInv, RunInv, Forward, Younger, OwnRow
<1>2. ASSUME NEW at \in upd[t] .. now, upd' = [upd EXCEPT ![t] = at], UNCHANGED <<ex, lease>>
      PROVE  IInv'
  <2>1. TypeInv'
    <3>1. upd' \in [Tasks -> Times]
      BY <1>2, ReadBefore DEF IInv, TypeInv
    <3> QED BY <1>0, <1>2, <3>1 DEF IInv, TypeInv, clock
  <2>2. ExecInv(n, t)' /\ LeaseInv(n, t)' /\ OwnExec(n, t)
    BY <1>0, <1>2 DEF ExecInv, LeaseInv, OwnExec
  <2> QED BY <1>0, <1>1, <2>1, <2>2, ExecOnly
<1>3. CASE EndExec(e, "end") /\ UNCHANGED upd
  <2>1. ex' = [ex EXCEPT ![e] = "end"] /\ lease' = [lease EXCEPT ![e] = 0]
    BY <1>3 DEF EndExec
  <2>2. /\ status' \in [Tasks -> Statuses] /\ key' \in [Tasks -> BOOLEAN] /\ upd' \in [Tasks -> Times]
        /\ faults' \in 0 .. MaxFaults
    BY <1>0, <1>3 DEF IInv, TypeInv
  <2> QED BY <1>0, <1>1, <2>1, <2>2, ExecEnds
<1> QED BY <1>2, <1>3 DEF UpdateSystemTaskState

LEMMA FinishSystemTaskStep ==
    ASSUME IInv, NEW n \in Runners, NEW t \in Tasks, FinishSystemTask(n, t) PROVE IInv'
<1> PICK e \in Execs : e = <<n, t>>
  BY DEF Execs
<1>0. /\ UNCHANGED <<clock, lock, pc, view, hb>>
      /\ now' = now /\ late' = late /\ lock' = lock
      /\ ex[e] = "work" /\ OwnRow(n, t)
  BY DEF FinishSystemTask, clock, OwnRow
<1>1. NoFault \/ Fault => faults' \in 0 .. MaxFaults
  BY SystemTaskAssumption DEF Fault, NoFault, IInv, TypeInv
<1>2. ASSUME NEW at \in upd[t] .. now, status[t] = "running",
             \E s \in Terminal : status' = [status EXCEPT ![t] = s],
             key' = [key EXCEPT ![t] = FALSE], upd' = [upd EXCEPT ![t] = at],
             EndExec(e, "release"), NoFault, UNCHANGED by
      PROVE  IInv'
  <2>1. PICK s \in Terminal : status' = [status EXCEPT ![t] = s]
    BY <1>2
  <2>2. /\ status'[t] = s /\ \A u \in Tasks \ {t} : status'[u] = status[u]
        /\ s \in {"succeeded", "failed"}
    BY <2>1 DEF IInv, TypeInv, Terminal
  <2>3. ~key'[t] /\ \A u \in Tasks \ {t} : key'[u] = key[u]
    BY <1>2 DEF IInv, TypeInv
  <2>4. status' \in [Tasks -> Statuses]
    BY <2>1 DEF IInv, TypeInv, Statuses
  <2>5. key' \in [Tasks -> BOOLEAN]
    BY <1>2 DEF IInv, TypeInv
  <2>6. upd' \in [Tasks -> Times]
    BY <1>2, ReadBefore DEF IInv, TypeInv
  <2>7. Forward /\ \A u \in Tasks : status'[u] = "running" => status[u] = "running"
    BY <1>2, <2>2 DEF Forward, Terminal
  <2>8. KeyInv'
    BY <2>2, <2>3 DEF IInv, KeyInv, Active
  <2>9. RunInv'
    BY <1>0, <2>7 DEF IInv, RunInv
  <2>10. ex' = [ex EXCEPT ![e] = "release"] /\ lease' = [lease EXCEPT ![e] = 0]
    BY <1>2 DEF EndExec
  <2>11. status'[t] \in Terminal
    BY <2>2
  <2> QED BY <1>0, <1>1, <1>2, <2>4, <2>5, <2>6, <2>7, <2>8, <2>9, <2>10, <2>11, ExecEnds
<1>3. CASE EndExec(e, "end") /\ (NoFault \/ Fault) /\ UNCHANGED rows
  <2>1. ex' = [ex EXCEPT ![e] = "end"] /\ lease' = [lease EXCEPT ![e] = 0]
    BY <1>3 DEF EndExec
  <2>2. /\ status' = status /\ key' = key /\ by' = by /\ status' \in [Tasks -> Statuses]
        /\ key' \in [Tasks -> BOOLEAN] /\ upd' \in [Tasks -> Times]
    BY <1>3 DEF IInv, TypeInv, rows
  <2>3. Forward /\ KeyInv' /\ RunInv'
    BY <1>0, <2>2 DEF Forward, IInv, KeyInv, RunInv
  <2> QED BY <1>0, <1>1, <1>3, <2>1, <2>2, <2>3, ExecEnds
<1> QED BY <1>2, <1>3 DEF FinishSystemTask, Writable

LEMMA FinishReleaseStep ==
    ASSUME IInv, NEW n \in Runners, NEW t \in Tasks, FinishRelease(n, t) PROVE IInv'
<1> PICK e \in Execs : e = <<n, t>>
  BY DEF Execs
<1>0. /\ UNCHANGED <<clock, rows, pc, view, hb, lease>>
      /\ now' = now /\ late' = late /\ status' = status /\ key' = key /\ by' = by
      /\ ex[e] = "release" /\ ex' = [ex EXCEPT ![e] = "end"] /\ ExecInv(n, t)
  BY DEF FinishRelease, clock, rows, IInv
<1>1. faults' \in 0 .. MaxFaults
  BY SystemTaskAssumption DEF FinishRelease, Fault, NoFault, IInv, TypeInv
<1>2. lock' = lock \/ lock' = {l \in lock : ~(l.task = t /\ l.by = n)}
  BY DEF FinishRelease, ReleaseSystemTaskLock
<1>3. lock' \subseteq lock /\ OwnRow(n, t)
  BY <1>2 DEF OwnRow
<1>4. status[t] \in Terminal
  BY <1>0 DEF ExecInv
<1>5. KeyInv' /\ RunInv' /\ Forward
  <2>1. \A u \in Tasks : status[u] = "running" => u # t
    BY <1>4 DEF Terminal
  <2> QED BY <1>0, <1>2, <2>1 DEF IInv, KeyInv, RunInv, Forward
<1>6. status' \in [Tasks -> Statuses] /\ key' \in [Tasks -> BOOLEAN] /\ upd' \in [Tasks -> Times]
  BY <1>0 DEF IInv, TypeInv, rows
<1> QED BY <1>0, <1>1, <1>3, <1>5, <1>6, ExecEnds

\* A runner that dies leaves its lock row to the others.
LEMMA CrashStep == ASSUME IInv, NEW n \in Runners, Crash(n) PROVE IInv'
<1>0. /\ UNCHANGED <<clock, rows, lock, faults>>
      /\ pc' = [pc EXCEPT ![n] = "down"] /\ view' = [view EXCEPT ![n] = NoView] /\ "down" \in Places
      /\ pc'[n] = "down" /\ view'[n] = NoView
      /\ \A m \in Runners \ {n} : pc'[m] = pc[m] /\ view'[m] = view[m]
      /\ now' = now /\ late' = late /\ status' = status /\ lock' = lock
  BY DEF Crash, clock, rows, GotoView, Goto, IInv, TypeInv, Places
<1> DEFINE off == [pc |-> "off", at |-> 0]
<1>1. off \in Beats /\ off.pc = "off" /\ off.at = 0
  BY TimesInt DEF Beats
<1> HIDE DEF off
<1>2. /\ ex' = [e \in Execs |-> IF e[1] = n /\ ex[e] # "none" THEN "end" ELSE ex[e]]
      /\ hb' = [e \in Execs |-> IF e[1] = n THEN off ELSE hb[e]]
      /\ lease' = [e \in Execs |-> IF e[1] = n THEN 0 ELSE lease[e]]
  BY DEF Crash, off
<1>3. TypeInv'
  <2>1. ex' \in [Execs -> {"none", "work", "release", "end"}]
    BY <1>2 DEF IInv, TypeInv
  <2>2. hb' \in [Execs -> Beats]
    BY <1>1, <1>2 DEF IInv, TypeInv
  <2>3. lease' \in [Execs -> Times]
    BY <1>2, TimesInt DEF IInv, TypeInv
  <2> QED BY <1>0, <2>1, <2>2, <2>3, NoViewType DEF IInv, TypeInv, clock, rows
<1>4. LockInv' /\ KeyInv' /\ RunInv' /\ Forward /\ Younger
  BY <1>0, Basics DEF IInv, LockInv, KeyInv, RunInv, Forward, Younger, rows
<1>5. ASSUME NEW m \in Runners, NEW t \in Tasks
      PROVE  /\ m # n => ex'[<<m, t>>] = ex[<<m, t>>] /\ hb'[<<m, t>>] = hb[<<m, t>>]
                         /\ lease'[<<m, t>>] = lease[<<m, t>>]
             /\ m = n => /\ ex'[<<m, t>>] = (IF ex[<<m, t>>] # "none" THEN "end" ELSE "none")
                         /\ hb'[<<m, t>>] = off
  <2>1. <<m, t>> \in Execs /\ <<m, t>>[1] = m
    BY DEF Execs
  <2> QED BY <1>2, <2>1
<1>6. RunnerInv(n)'
  BY <1>0, IdleInv, Basics
<1>7. ASSUME NEW m \in Runners \ {n} PROVE RunnerInv(m)'
  <2>1. RunnerInv(m)
    BY DEF IInv
  <2>2. pc[m] \in Claiming \cup {"dispatch"} => ex'[<<m, view[m].task>>] = "none"
    BY <2>1, <1>5 DEF RunnerInv, ViewInv
  <2> QED BY <2>1, <2>2, <1>0, <1>4, OtherRunner, Basics DEF RunnerInv, HoldInv
<1>8. ASSUME NEW m \in Runners, NEW t \in Tasks PROVE ExecInv(m, t)' /\ LeaseInv(m, t)'
  <2>1. CASE m # n
    BY <2>1, <1>0, <1>4, <1>5, OtherExec
  <2>2. CASE m = n
    <3>1. ExecInv(m, t)
      BY DEF IInv
    <3>2. ex'[<<m, t>>] = (IF ex[<<m, t>>] # "none" THEN "end" ELSE "none") /\ hb'[<<m, t>>] = off
      BY <2>2, <1>5
    <3>3. ExecInv(m, t)'
      BY <3>1, <3>2, <1>0, <1>1, Basics DEF ExecInv
    <3>4. LeaseInv(m, t)'
      BY <3>2 DEF LeaseInv
    <3> QED BY <3>3, <3>4
  <2> QED BY <2>1, <2>2
<1> QED BY <1>3, <1>4, <1>6, <1>7, <1>8 DEF IInv

\* Time only ends leases; a claim that it overtakes is recorded in late.
LEMMA TickStep == ASSUME IInv, Tick PROVE IInv'
<1>0. /\ UNCHANGED <<rows, lock, pc, view, execs, faults>>
      /\ status' = status /\ key' = key /\ lock' = lock /\ pc' = pc /\ view' = view
      /\ ex' = ex /\ hb' = hb /\ lease' = lease /\ now < MaxTime /\ now' = now + 1
  BY DEF Tick, rows, execs
<1>1. now' \in 0 .. MaxTime
  BY <1>0, SystemTaskAssumption DEF IInv, TypeInv
<1>2. late' \in BOOLEAN
  BY DEF Tick
<1>3. ~late' => ~late /\ \A n \in Runners : pc[n] \in Claiming => ~(now >= view[n].until)
  BY DEF Tick
<1>4. TypeInv'
  BY <1>0, <1>1, <1>2 DEF IInv, TypeInv, rows
<1>5. LockInv'
  BY <1>0, Basics DEF IInv, LockInv
<1>6. KeyInv' /\ RunInv'
  BY <1>0, <1>3 DEF IInv, KeyInv, RunInv
<1>7. ASSUME NEW n \in Runners PROVE RunnerInv(n)'
  <2>0. RunnerInv(n)
    BY DEF IInv
  <2>1. ViewInv(n)'
    BY <2>0, <1>0, Basics DEF RunnerInv, ViewInv
  <2>2. HoldInv(n)'
    BY <2>0, <1>0, Basics DEF RunnerInv, HoldInv, MyLock
  <2>3. YoungInv(n)'
    BY <2>0, <1>0, <1>3 DEF RunnerInv, YoungInv
  <2>4. AloneInv(n)'
    <3>1. pc[n] \in Claiming /\ ~late' => now + 1 <= view[n].until
      BY <1>3, Basics
    <3> QED BY <3>1, <2>0, <1>0, <1>3 DEF RunnerInv, AloneInv
  <2> QED BY <2>1, <2>2, <2>3, <2>4 DEF RunnerInv
<1>8. ASSUME NEW n \in Runners, NEW t \in Tasks PROVE ExecInv(n, t)' /\ LeaseInv(n, t)'
  <2>0. ExecInv(n, t) /\ LeaseInv(n, t)
    BY DEF IInv
  <2>1. ExecInv(n, t)'
    BY <2>0, <1>0, Basics DEF ExecInv
  <2>2. LeaseInv(n, t)'
    BY <2>0, <1>0, Basics DEF LeaseInv
  <2> QED BY <2>1, <2>2
<1> QED BY <1>4, <1>5, <1>6, <1>7, <1>8 DEF IInv

-----------------------------------------------------------------------------
(* The theorems. *)

LEMMA NextIInv == IInv /\ [Next]_vars => IInv'
<1> SUFFICES ASSUME IInv, [Next]_vars PROVE IInv'
  OBVIOUS
<1>1. ASSUME NEW n \in Runners, RunnerStep(n) PROVE IInv'
  BY <1>1, StaleScanStep, StaleMarkStep, StaleDeleteStep, ScheduleReadStep, ScheduleCreateStep, ClaimFindStep,
     AcquireInsertStep, AcquireReadStep, AcquireTakeoverStep, ClaimExpireStep, ClaimUpdateStep,
     ClaimReleaseStep, ClaimDispatchStep, CrashStep DEF RunnerStep
<1>2. ASSUME NEW n \in Runners, NEW t \in Tasks, ExecStep(n, t) PROVE IInv'
  BY <1>2, HeartbeatTickStep, RenewSystemTaskLockStep, UpdateSystemTaskStateStep, FinishSystemTaskStep,
     FinishReleaseStep DEF ExecStep
<1>3. CASE UNCHANGED vars
  <2>1. UNCHANGED <<clock, rows, lock, pc, view, execs, faults>>
    BY <1>3 DEF vars, clock, rows, execs
  <2>2. TypeInv' /\ LockInv' /\ KeyInv' /\ RunInv'
    BY <2>1 DEF IInv, TypeInv, LockInv, KeyInv, RunInv, clock, rows, execs
  <2>3. \A n \in Runners : RunnerInv(n)'
    BY <2>1 DEF IInv, RunnerInv, ViewInv, HoldInv, YoungInv, AloneInv, MyLock, clock, rows, execs
  <2>4. \A n \in Runners, t \in Tasks : ExecInv(n, t)' /\ LeaseInv(n, t)'
    BY <2>1 DEF IInv, ExecInv, LeaseInv, clock, rows, execs
  <2> QED BY <2>2, <2>3, <2>4 DEF IInv
<1> QED BY <1>1, <1>2, <1>3, EnqueueStep, TickStep DEF Next

\* The inductive invariant holds throughout.
THEOREM AlwaysIInv == Spec => []IInv
BY InitIInv, NextIInv, PTL DEF Spec

\* TypeOK: the variables keep their types and the lock table has one row for the
\* type at most, whatever acquires, takes over, renews and releases it.
THEOREM TypeCorrect == Spec => []TypeOK
<1>1. ASSUME IInv PROVE TypeOK
  <2>1. Cardinality(lock) <= 1
    <3>1. CASE lock = {}
      BY <3>1, FS_EmptySet
    <3>2. CASE lock # {}
      <4>1. PICK l \in lock : TRUE
        BY <3>2
      <4>2. lock = {l}
        BY <1>1, <4>1 DEF IInv, LockInv
      <4> QED BY <4>2, FS_Singleton
    <3> QED BY <3>1, <3>2
  <2>2. now \in Times
    BY <1>1, TimesInt DEF IInv, TypeInv
  <2> QED BY <1>1, <2>1, <2>2 DEF IInv, TypeInv, TypeOK, Statuses, Locks, Views, Places, Beats
<1> QED BY <1>1, AlwaysIInv, PTL

\* LeaseExclusive: an execution that is inside the lease it last wrote still has
\* its row in the lock table, and the table has one row.
THEOREM AlwaysLeaseExclusive == Spec => []LeaseExclusive
<1>1. ASSUME IInv PROVE LeaseExclusive
  <2> SUFFICES ASSUME NEW d \in Execs, NEW e \in Execs, ex[d] = "work", ex[e] = "work",
                      ~(lease[d] < now), ~(lease[e] < now)
               PROVE  d = e
    BY DEF LeaseExclusive
  <2>1. PICK m \in Runners, u \in Tasks : d = <<m, u>>
    BY DEF Execs
  <2>2. PICK n \in Runners, t \in Tasks : e = <<n, t>>
    BY DEF Execs
  <2>3. lease[d] >= now /\ lease[e] >= now
    BY <1>1, <2>1, <2>2, Basics
  <2>4. /\ [task |-> u, by |-> m, until |-> lease[d]] \in lock
        /\ [task |-> t, by |-> n, until |-> lease[e]] \in lock
    BY <1>1, <2>1, <2>2, <2>3 DEF IInv, LeaseInv
  <2>5. [task |-> u, by |-> m, until |-> lease[d]] = [task |-> t, by |-> n, until |-> lease[e]]
    BY <1>1, <2>4 DEF IInv, LockInv
  <2>6. u = t /\ m = n
    BY <2>5
  <2> QED BY <2>1, <2>2, <2>6
<1> QED BY <1>1, AlwaysIInv, PTL

\* ActiveKeyRecoverable: a task that holds the active_key is pending or running, and
\* a running one is covered by a lock row as long as no claim outlasts its lease.
THEOREM AlwaysActiveKeyRecoverable == Spec => []ActiveKeyRecoverable
<1>1. ASSUME IInv PROVE ActiveKeyRecoverable
  BY <1>1 DEF IInv, KeyInv, RunInv, ActiveKeyRecoverable, Recoverable, Active
<1> QED BY <1>1, AlwaysIInv, PTL

\* TerminalStable: only MarkSystemTaskLeaseExpired, ClaimUpdate and FinishSystemTask
\* write the status of a row that exists, and each looks at it in the same statement.
THEOREM AlwaysTerminalStable == Spec => TerminalStable
<1> DEFINE Stable == \A t \in Tasks : status[t] \in Terminal => status'[t] = status[t]
<1>1. ASSUME IInv, [Next]_vars PROVE Stable
  <2>0. UNCHANGED status => Stable
    OBVIOUS
  <2>1. ASSUME CreateSystemTask PROVE Stable
    BY <1>1, <2>1 DEF CreateSystemTask, Terminal, IInv, TypeInv
  <2>2. ASSUME NEW u \in Tasks \cup {NoTask}, MarkSystemTaskLeaseExpired(u) PROVE Stable
    BY <1>1, <2>2 DEF MarkSystemTaskLeaseExpired, Terminal, IInv, TypeInv
  <2>3. ASSUME NEW n \in Runners, RunnerStep(n) PROVE Stable
    <3>0. view[n].task \in Tasks \cup {NoTask} /\ view[n].expired \in Tasks \cup {NoTask}
      BY <1>1 DEF IInv, TypeInv, Views
    <3>1. CASE StaleScan(n) \/ StaleDelete(n) \/ ScheduleRead(n) \/ ClaimFind(n) \/ AcquireInsert(n)
                \/ AcquireRead(n) \/ AcquireTakeover(n) \/ ClaimRelease(n) \/ ClaimDispatch(n) \/ Crash(n)
      <4>1. status' = status
        BY <3>1 DEF StaleScan, StaleDelete, ScheduleRead, ClaimFind, AcquireInsert, AcquireRead,
                    AcquireTakeover, ClaimRelease, ClaimDispatch, Crash, rows
      <4> QED BY <4>1
    <3>2. CASE StaleMark(n)
      BY <3>0, <3>2, <2>2 DEF StaleMark, rows
    <3>3. CASE ScheduleCreate(n)
      BY <3>3, <2>1 DEF ScheduleCreate, rows
    <3>4. CASE ClaimExpire(n)
      BY <3>0, <3>4, <2>2 DEF ClaimExpire, rows
    <3>5. CASE ClaimUpdate(n)
      BY <1>1, <3>5 DEF ClaimUpdate, rows, Terminal, IInv, TypeInv
    <3> QED BY <2>3, <3>1, <3>2, <3>3, <3>4, <3>5 DEF RunnerStep
  <2>4. ASSUME NEW n \in Runners, NEW t \in Tasks, ExecStep(n, t) PROVE Stable
    <3>1. CASE HeartbeatTick(n, t) \/ RenewSystemTaskLock(n, t) \/ UpdateSystemTaskState(n, t) \/ FinishRelease(n, t)
      <4>1. status' = status
        BY <3>1 DEF HeartbeatTick, RenewSystemTaskLock, UpdateSystemTaskState, FinishRelease, rows
      <4> QED BY <4>1
    <3>2. CASE FinishSystemTask(n, t)
      <4>1. status' = status \/ (status[t] = "running" /\ \E s \in Terminal : status' = [status EXCEPT ![t] = s])
        BY <3>2 DEF FinishSystemTask, Writable, rows
      <4> QED BY <1>1, <4>1 DEF Terminal, IInv, TypeInv
    <3> QED BY <2>4, <3>1, <3>2 DEF ExecStep
  <2>5. CASE UNCHANGED vars
    BY <2>5 DEF vars
  <2>6. CASE EnqueueSystemTask
    BY <2>6, <2>1 DEF EnqueueSystemTask
  <2>7. CASE Tick
    BY <2>7 DEF Tick, rows
  <2> QED BY <1>1, <2>3, <2>4, <2>5, <2>6, <2>7 DEF Next
<1>2. IInv /\ [Next]_vars => [Stable]_vars
  BY <1>1
<1> QED BY <1>2, AlwaysIInv, PTL DEF Spec, TerminalStable
=============================================================================
