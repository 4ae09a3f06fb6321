----------------------------- MODULE SystemTask -----------------------------
(***************************************************************************)
(* The system task runner: model/system_task.go and service/system_task.go.*)
(* Every master node runs one runner.  In each pass it fails the tasks of  *)
(* expired leases, schedules new tasks and claims a pending one; a claimed *)
(* task is executed in a goroutine of its own beside a heartbeat that      *)
(* renews the lease.  Task types do not interact, so the module follows    *)
(* one type: its rows of system_tasks and its row of system_task_locks.    *)
(*                                                                         *)
(* Each action is one SQL statement; the time it compares with is read     *)
(* before it, so a statement may run late.  A runner that crashes comes    *)
(* back under a new runnerID, that is as another member of Runners.        *)
(***************************************************************************)
EXTENDS Integers, FiniteSets

CONSTANTS
    Runners,        \* runnerIDs
    MaxTasks,       \* bound: rows of system_tasks
    MaxTime,        \* bound: the clock
    TTL,            \* systemTaskLockTTL
    Interval,       \* Interval() of the scheduled handler
    MaxFaults       \* bound: statements that fail

ASSUME SystemTaskAssumption ==
    /\ MaxTasks \in Nat \ {0} /\ MaxTime \in Nat /\ TTL \in Nat \ {0}
    /\ Interval \in Nat /\ MaxFaults \in Nat
    /\ 0 \notin Runners

Tasks == 1 .. MaxTasks
Execs == Runners \X Tasks
NoTask == 0
NoRunner == 0

VARIABLES
    now,        \* the clock of the nodes
    status,     \* system_tasks.status, "absent" for a row not yet inserted
    key,        \* active_key is set
    by,         \* locked_by
    upd,        \* updated_at
    lock,       \* the rows of system_task_locks for the type: none or one
    pc,         \* where each runner is in its pass
    view,       \* what a runner holds in local variables
    ex,         \* where the handler of a runner's claimed task is
    hb,         \* where its heartbeat is
    lease,      \* the locked_until this execution last wrote, 0 once it is over
    late,       \* some call of ClaimSystemTask has outlasted the lease it took
    faults

vars == <<now, status, key, by, upd, lock, pc, view, ex, hb, lease, late, faults>>
rows == <<status, key, by, upd>>
execs == <<ex, hb, lease>>

NoView == [task |-> NoTask, by |-> NoRunner, at |-> 0, until |-> 0, expired |-> NoTask]

Init ==
    /\ now = 0
    /\ status = [t \in Tasks |-> "absent"]
    /\ key = [t \in Tasks |-> FALSE]
    /\ by = [t \in Tasks |-> NoRunner]
    /\ upd = [t \in Tasks |-> 0]
    /\ lock = {}
    /\ pc = [n \in Runners |-> "idle"]
    /\ view = [n \in Runners |-> NoView]
    /\ ex = [e \in Execs |-> "none"]
    /\ hb = [e \in Execs |-> [pc |-> "off", at |-> 0]]
    /\ lease = [e \in Execs |-> 0]
    /\ late = FALSE
    /\ faults = 0

Terminal == {"succeeded", "failed"}
Active == {"pending", "running"}

Fault == faults < MaxFaults /\ faults' = faults + 1
NoFault == UNCHANGED faults

clock == <<now, late>>

Goto(n, l) == pc' = [pc EXCEPT ![n] = l]
GotoView(n, l, v) == Goto(n, l) /\ view' = [view EXCEPT ![n] = v]

-----------------------------------------------------------------------------
(* Statements.                                                             *)

\* CreateSystemTask: the unique index on active_key refuses a second active
\* row of the type.
CreateSystemTask ==
    /\ \A t \in Tasks : ~key[t]
    /\ \E t \in Tasks :
          /\ status[t] = "absent" /\ \A u \in Tasks : u < t => status[u] # "absent"
          /\ status' = [status EXCEPT ![t] = "pending"]
          /\ key' = [key EXCEPT ![t] = TRUE]
          /\ upd' = [upd EXCEPT ![t] = now]
          /\ UNCHANGED by

\* Mutant: the status of the row is not looked at.
MarkAnyLeaseExpired(task) ==
    /\ status' = [t \in Tasks |-> IF t = task THEN "failed" ELSE status[t]]
    /\ key' = [t \in Tasks |-> IF t = task THEN FALSE ELSE key[t]]
    /\ UNCHANGED <<by, upd>>

\* Mutant: the active key is not cleared.
MarkLeaseExpiredKeepsKey(task) ==
    LET hit(t) == t = task /\ status[t] = "running" IN
    /\ status' = [t \in Tasks |-> IF hit(t) THEN "failed" ELSE status[t]]
    /\ upd' = [t \in Tasks |-> IF hit(t) THEN now ELSE upd[t]]
    /\ UNCHANGED <<key, by>>

\* MarkSystemTaskLeaseExpired.
MarkSystemTaskLeaseExpired(task) ==
    LET hit(t) == t = task /\ status[t] = "running" IN
    /\ status' = [t \in Tasks |-> IF hit(t) THEN "failed" ELSE status[t]]
    /\ key' = [t \in Tasks |-> IF hit(t) THEN FALSE ELSE key[t]]
    /\ upd' = [t \in Tasks |-> IF hit(t) THEN now ELSE upd[t]]
    /\ UNCHANGED by

ReleaseSystemTaskLock(task, n) ==
    lock' = {l \in lock : ~(l.task = task /\ l.by = n)}

\* The EXISTS clause of UpdateSystemTaskState and FinishSystemTask.
HoldsLiveLock(task, n, at) == \E l \in lock : l.task = task /\ l.by = n /\ l.until >= at

\* The WHERE clause of both, at being the time read before the statement.
Writable(task, n, at) == status[task] = "running" /\ by[task] = n /\ HoldsLiveLock(task, n, at)

-----------------------------------------------------------------------------
(* The stale-lock part of a pass: ExpireStaleSystemTaskLocks.  The three   *)
(* parts of a pass are throttled apart and passes follow one another for   *)
(* ever, so any part may be the next one that an idle runner starts.       *)

StaleScan(n) ==
    /\ pc[n] = "idle"
    /\ LET stale == {l \in lock : l.until < now} IN
       \/ \E l \in stale :
             GotoView(n, "mark", [NoView EXCEPT !.task = l.task, !.by = l.by, !.at = now])
       \/ stale = {} /\ Goto(n, "idle") /\ UNCHANGED view
    /\ UNCHANGED <<clock, rows, lock, execs, faults>>

StaleMark(n) ==
    /\ pc[n] = "mark"
    /\ \/ MarkSystemTaskLeaseExpired(view[n].task) /\ Goto(n, "delete") /\ NoFault
       \/ Fault /\ Goto(n, "idle") /\ UNCHANGED rows
    /\ UNCHANGED <<clock, lock, view, execs>>

StaleDelete(n) ==
    /\ pc[n] = "delete"
    /\ LET v == view[n] IN
       \/ lock' = {l \in lock : ~(l.task = v.task /\ l.by = v.by /\ l.until < v.at)} /\ NoFault
       \/ Fault /\ UNCHANGED lock
    /\ GotoView(n, "idle", NoView)
    /\ UNCHANGED <<clock, rows, execs>>

-----------------------------------------------------------------------------
(* The scheduler and the API.                                              *)

Created == {t \in Tasks : status[t] # "absent"}

Latest == CHOOSE t \in Created : \A u \in Created : u <= t

\* runSystemTaskScheduler reads the latest row and decides ...
ScheduleRead(n) ==
    /\ pc[n] = "idle"
    /\ LET due == Created = {} \/ (status[Latest] \in Terminal /\ now - upd[Latest] >= Interval)
       IN Goto(n, IF due THEN "create" ELSE "idle")
    /\ UNCHANGED <<clock, rows, lock, view, execs, faults>>

\* ... and creates in a second statement.
ScheduleCreate(n) ==
    /\ pc[n] = "create"
    /\ \/ CreateSystemTask
       \/ (Created = Tasks \/ \E t \in Tasks : key[t]) /\ UNCHANGED rows
    /\ Goto(n, "idle")
    /\ UNCHANGED <<clock, lock, view, execs, faults>>

\* EnqueueSystemTask and StartLogCleanupTask, called by an administrator.
EnqueueSystemTask ==
    /\ CreateSystemTask
    /\ UNCHANGED <<clock, lock, pc, view, execs, faults>>

-----------------------------------------------------------------------------
(* The claim part of a pass: ClaimSystemTask.                              *)

\* The earliest pending row; the time and the end of the lease are fixed here.
ClaimFind(n) ==
    /\ pc[n] = "idle"
    /\ LET pending == {t \in Tasks : status[t] = "pending"} IN
       \/ /\ pending = {}
          /\ Goto(n, "idle") /\ UNCHANGED view
       \/ \E t \in pending :
             /\ \A u \in pending : t <= u
             /\ GotoView(n, "acquire", [NoView EXCEPT !.task = t, !.at = now, !.until = now + TTL])
    /\ UNCHANGED <<clock, rows, lock, execs, faults>>

MyLock(n) == [task |-> view[n].task, by |-> n, until |-> view[n].until]

\* Mutant: the type is not the primary key of the lock table.
AcquireInsertNoKey(n) ==
    /\ pc[n] = "acquire"
    /\ lock' = lock \cup {MyLock(n)}
    /\ Goto(n, "update") /\ NoFault
    /\ UNCHANGED <<clock, rows, view, execs>>

\* acquireSystemTaskLock: insert the type's row ...
AcquireInsert(n) ==
    /\ pc[n] = "acquire"
    /\ \/ /\ lock = {}
          /\ lock' = {MyLock(n)}
          /\ Goto(n, "update") /\ NoFault
       \/ /\ lock # {}
          /\ Goto(n, "read") /\ NoFault /\ UNCHANGED lock
       \/ Fault /\ Goto(n, "read") /\ UNCHANGED lock
    /\ UNCHANGED <<clock, rows, view, execs>>

\* ... or read the row that is there ...
AcquireRead(n) ==
    /\ pc[n] = "read"
    /\ \/ \E l \in lock :
             /\ l.until < view[n].at
             /\ GotoView(n, "takeover", [view[n] EXCEPT !.expired = l.task])
       \/ /\ \A l \in lock : l.until >= view[n].at
          /\ GotoView(n, "idle", NoView)
    /\ UNCHANGED <<clock, rows, lock, execs, faults>>

\* Mutant: the row read is believed, the UPDATE has no condition on the time.
TakeoverUnchecked(n) ==
    /\ pc[n] = "takeover"
    /\ \/ /\ lock # {}
          /\ lock' = {MyLock(n)}
          /\ Goto(n, "expire") /\ NoFault /\ UNCHANGED view
       \/ /\ lock = {}
          /\ GotoView(n, "idle", NoView) /\ NoFault /\ UNCHANGED lock
    /\ UNCHANGED <<clock, rows, execs>>

\* ... and take it over if it is still expired.
AcquireTakeover(n) ==
    /\ pc[n] = "takeover"
    /\ LET stale == {l \in lock : l.until < view[n].at} IN
       \/ /\ stale # {}
          /\ lock' = {MyLock(n)}
          /\ Goto(n, "expire") /\ NoFault /\ UNCHANGED view
       \/ /\ stale = {}
          /\ GotoView(n, "idle", NoView) /\ NoFault /\ UNCHANGED lock
       \/ Fault /\ GotoView(n, "idle", NoView) /\ UNCHANGED lock
    /\ UNCHANGED <<clock, rows, execs>>

\* The task of the lease taken over is failed, unless it is the claimed one.
ClaimExpire(n) ==
    /\ pc[n] = "expire"
    /\ LET other == view[n].expired # view[n].task IN
       \/ ~other /\ Goto(n, "update") /\ NoFault /\ UNCHANGED <<rows, view>>
       \/ /\ other
          /\ MarkSystemTaskLeaseExpired(view[n].expired)
          /\ Goto(n, "update") /\ NoFault /\ UNCHANGED view
       \/ other /\ Fault /\ Goto(n, "giveUp") /\ UNCHANGED <<rows, view>>
    /\ UNCHANGED <<clock, lock, execs>>

\* pending -> running, on the status alone.
ClaimUpdate(n) ==
    /\ pc[n] = "update"
    /\ LET t == view[n].task IN
       \/ /\ status[t] = "pending"
          /\ status' = [status EXCEPT ![t] = "running"]
          /\ by' = [by EXCEPT ![t] = n]
          /\ upd' = [upd EXCEPT ![t] = view[n].at]
          /\ Goto(n, "dispatch") /\ NoFault /\ UNCHANGED key
       \/ status[t] # "pending" /\ Goto(n, "giveUp") /\ NoFault /\ UNCHANGED rows
       \/ Fault /\ Goto(n, "giveUp") /\ UNCHANGED rows
    /\ UNCHANGED <<clock, lock, view, execs>>

\* A claim that failed after it took the lock gives it back; an error of that
\* statement is dropped, and the lock stays until it expires.
ClaimRelease(n) ==
    /\ pc[n] = "giveUp"
    /\ \/ ReleaseSystemTaskLock(view[n].task, n) /\ NoFault
       \/ Fault /\ UNCHANGED lock
    /\ GotoView(n, "idle", NoView)
    /\ UNCHANGED <<clock, rows, execs>>

\* The row is read once more and handed to runWithLeaseHeartbeat.
ClaimDispatch(n) ==
    /\ pc[n] = "dispatch"
    /\ \/ LET e == <<n, view[n].task>> IN
          /\ ex' = [ex EXCEPT ![e] = "work"]
          /\ hb' = [hb EXCEPT ![e].pc = "on"]
          /\ lease' = [lease EXCEPT ![e] = view[n].until]
          /\ NoFault
       \/ Fault /\ UNCHANGED execs
    /\ GotoView(n, "idle", NoView)
    /\ UNCHANGED <<clock, rows, lock>>

-----------------------------------------------------------------------------
(* Execution: the handler and its heartbeat.                               *)

\* The handler is over, or has only the lock left to release.
EndExec(e, l) == ex' = [ex EXCEPT ![e] = l] /\ lease' = [lease EXCEPT ![e] = 0]

HeartbeatTick(n, t) ==
    LET e == <<n, t>> IN
    /\ hb[e].pc = "on"
    /\ hb' = [hb EXCEPT ![e] = IF ex[e] \in {"end", "release"} THEN [pc |-> "off", at |-> 0]
                               ELSE [pc |-> "renew", at |-> now]]
    /\ UNCHANGED <<clock, rows, lock, pc, view, ex, lease, faults>>

\* RenewSystemTaskLock; an error or a lost lock cancels the handler's context.
RenewSystemTaskLock(n, t) ==
    LET e == <<n, t>>
        until == hb[e].at + TTL
    IN
    /\ hb[e].pc = "renew"
    /\ \/ /\ HoldsLiveLock(t, n, hb[e].at)
          /\ lock' = {[task |-> t, by |-> n, until |-> until]}
          /\ lease' = [lease EXCEPT ![e] = IF ex[e] = "work" THEN until ELSE 0]
          /\ hb' = [hb EXCEPT ![e] = [pc |-> "on", at |-> 0]] /\ NoFault
       \/ /\ ~HoldsLiveLock(t, n, hb[e].at)
          /\ hb' = [hb EXCEPT ![e] = [pc |-> "off", at |-> 0]]
          /\ NoFault /\ UNCHANGED <<lock, lease>>
       \/ /\ Fault
          /\ hb' = [hb EXCEPT ![e] = [pc |-> "off", at |-> 0]]
          /\ UNCHANGED <<lock, lease>>
    /\ UNCHANGED <<clock, rows, pc, view, ex>>

\* UpdateSystemTaskState: the time is read before the statement, at or after
\* the row's last write, which was this handler's or its claim's.  A handler
\* that finds its lock lost may return.
UpdateSystemTaskState(n, t) ==
    LET e == <<n, t>> IN
    /\ ex[e] = "work"
    /\ \E at \in upd[t] .. now :
          \/ /\ Writable(t, n, at)
             /\ upd' = [upd EXCEPT ![t] = at] /\ UNCHANGED <<ex, lease>>
          \/ /\ ~Writable(t, n, at)
             /\ EndExec(e, "end") /\ UNCHANGED upd
    /\ UNCHANGED <<clock, status, key, by, lock, pc, view, hb, faults>>

\* FinishSystemTask: the status first, as late after the time was read ...
FinishSystemTask(n, t) ==
    LET e == <<n, t>> IN
    /\ ex[e] = "work"
    /\ \/ \E at \in upd[t] .. now :
             \/ /\ Writable(t, n, at)
                /\ \E s \in Terminal : status' = [status EXCEPT ![t] = s]
                /\ key' = [key EXCEPT ![t] = FALSE]
                /\ upd' = [upd EXCEPT ![t] = at]
                /\ EndExec(e, "release")
                /\ NoFault /\ UNCHANGED by
             \/ /\ ~Writable(t, n, at)
                /\ EndExec(e, "end") /\ NoFault /\ UNCHANGED rows
       \/ Fault /\ EndExec(e, "end") /\ UNCHANGED rows
    /\ UNCHANGED <<clock, lock, pc, view, hb>>

\* ... then the lock.
FinishRelease(n, t) ==
    LET e == <<n, t>> IN
    /\ ex[e] = "release"
    /\ ex' = [ex EXCEPT ![e] = "end"]
    /\ \/ ReleaseSystemTaskLock(t, n) /\ NoFault
       \/ Fault /\ UNCHANGED lock
    /\ UNCHANGED <<clock, rows, pc, view, hb, lease>>

-----------------------------------------------------------------------------
\* The process of a runner dies with everything it was doing; another master
\* is up.
Crash(n) ==
    /\ pc[n] # "down"
    /\ \E m \in Runners \ {n} : pc[m] # "down"
    /\ GotoView(n, "down", NoView)
    /\ ex' = [e \in Execs |-> IF e[1] = n /\ ex[e] # "none" THEN "end" ELSE ex[e]]
    /\ hb' = [e \in Execs |-> IF e[1] = n THEN [pc |-> "off", at |-> 0] ELSE hb[e]]
    /\ lease' = [e \in Execs |-> IF e[1] = n THEN 0 ELSE lease[e]]
    /\ UNCHANGED <<clock, rows, lock, faults>>

Claiming == {"acquire", "read", "takeover", "expire", "update", "giveUp"}

\* Time passes, also while a runner is between two statements of its claim.
Tick ==
    /\ now < MaxTime
    /\ now' = now + 1
    /\ late' = (late \/ \E n \in Runners : pc[n] \in Claiming /\ now >= view[n].until)
    /\ UNCHANGED <<rows, lock, pc, view, execs, faults>>

RunnerStep(n) ==
    \/ StaleScan(n) \/ StaleMark(n) \/ StaleDelete(n)
    \/ ScheduleRead(n) \/ ScheduleCreate(n)
    \/ ClaimFind(n) \/ AcquireInsert(n) \/ AcquireRead(n) \/ AcquireTakeover(n)
    \/ ClaimExpire(n) \/ ClaimUpdate(n) \/ ClaimRelease(n) \/ ClaimDispatch(n)
    \/ Crash(n)

ExecStep(n, t) ==
    \/ HeartbeatTick(n, t) \/ RenewSystemTaskLock(n, t)
    \/ UpdateSystemTaskState(n, t) \/ FinishSystemTask(n, t) \/ FinishRelease(n, t)

Next ==
    \/ \E n \in Runners : RunnerStep(n) \/ \E t \in Tasks : ExecStep(n, t)
    \/ EnqueueSystemTask
    \/ Tick

Spec == Init /\ [][Next]_vars

-----------------------------------------------------------------------------
(* Properties.                                                             *)

Times == 0 .. (MaxTime + TTL)

\* The type of the state; the type has at most one lock row.
TypeOK ==
    /\ now \in Times
    /\ status \in [Tasks -> {"absent"} \cup Active \cup Terminal]
    /\ key \in [Tasks -> BOOLEAN]
    /\ by \in [Tasks -> Runners \cup {NoRunner}]
    /\ upd \in [Tasks -> Times]
    /\ lock \subseteq [task : Tasks, by : Runners, until : Times]
    /\ Cardinality(lock) <= 1
    /\ pc \in [Runners -> {"idle", "mark", "delete", "create", "dispatch", "down"}
                             \cup Claiming]
    /\ view \in [Runners -> [task : Tasks \cup {NoTask}, by : Runners \cup {NoRunner},
                             at : Times, until : Times, expired : Tasks \cup {NoTask}]]
    /\ ex \in [Execs -> {"none", "work", "release", "end"}]
    /\ hb \in [Execs -> [pc : {"off", "on", "renew"}, at : Times]]
    /\ lease \in [Execs -> Times]
    /\ late \in BOOLEAN /\ faults \in 0 .. MaxFaults

\* The lease does its work (service/system_task.go:262, "the per-type lock
\* guarantees only one runner executes"): two executions of the type never
\* both believe, from the last lease each has written, that they are inside
\* it, whatever statements run late and whichever runner cleans up.
LeaseExclusive ==
    \A d, e \in Execs :
        /\ d # e
        /\ ex[d] = "work" /\ ex[e] = "work"
        => lease[d] < now \/ lease[e] < now

\* A task that was reported succeeded or failed stays so: a runner that lost
\* its lease, a late heartbeat and a stale-lock pass that read the row long ago
\* change nothing any more (model/system_task.go:350, 390).
TerminalStable ==
    [][\A t \in Tasks : status[t] \in Terminal => status'[t] = status[t]]_vars

\* Whatever holds the type's active_key, and so keeps the scheduler from
\* creating another task, can be claimed, or is covered by a lock row through
\* which ExpireStaleSystemTaskLocks will fail it once its runner is gone.
Recoverable(t) ==
    \/ status[t] = "pending"
    \/ status[t] = "running" /\ \E l \in lock : l.task = t

\* As long as every call of ClaimSystemTask ends within the lease it took, no
\* crash, failing statement, takeover or late heartbeat leaves a task that
\* holds the active_key and that nothing will ever end (model/system_task.go:
\* 238, 348, 405).
ActiveKeyRecoverable == ~late => \A t \in Tasks : key[t] => Recoverable(t)

\* service/system_task.go:18: a pass is to "mark expired leases failed", so that
\* no task holds the active_key for ever, whatever the pauses of the runners.
ExpiredLeasesFail == \A t \in Tasks : key[t] => Recoverable(t)
=============================================================================
