------------------------------- MODULE Sched -------------------------------
(***************************************************************************)
(* The scheduler as a state machine: the services that a running task      *)
(* calls (pre-emption lock, priorities, yield, task creation, deletion,    *)
(* restart and exit) and the interrupts that wake tasks and drive the      *)
(* round-robin time slice, on the lists of TaskLists.                      *)
(*                                                                         *)
(* The services that block a task (semaphores, signals, message queues)    *)
(* appear here only as Block and Wakeup: a running task may block at any   *)
(* time, and a blocked task may be woken at any time, by the running task  *)
(* or by an interrupt.                                                     *)
(*                                                                         *)
(* A service that goes on after a context switch leaves its rest in pc:    *)
(* sched_setparam(), sched_setscheduler() and task_restart() call          *)
(* sched_unlock() when their caller runs again.                            *)
(***************************************************************************)
EXTENDS TaskLists

CONSTANTS MaxPrio,    \* highest priority used (255 in the code)
          LockBound,  \* bound on lockcount in the guards
          WaitUsed    \* the blocked states that Block uses

ASSUME BoundAssumption == /\ MaxPrio \in Nat \ {0}
                          /\ LockBound \in Nat /\ LockBound < MAX_LOCK_COUNT
                          /\ WaitUsed \subseteq WaitStates

VARIABLES k,         \* the task lists and TCBs, a record of Kernel
          rr,        \* the tasks with TCB_FLAG_ROUND_ROBIN
          init_prio, \* init_priority of every TCB
          pc         \* "user", or "unlock" inside a service that must still unlock

vars == <<k, rr, init_prio, pc>>

User == Task \ {Idle}
Prio == SCHED_PRIORITY_MIN..MaxPrio

\* The fields that the services assign keep their types: a state is one of
\* tstate_e, and the counts of locks and of ticks are never negative.
TypeOK == /\ k \in Kernel
          /\ rr \subseteq User
          /\ init_prio \in [Task -> Nat]
          /\ pc \in [Task -> {"user", "unlock"}]

\* os_start(): only the idle task exists, and it runs.
Init ==
  /\ k = [rtr   |-> <<Idle>>,
          pend  |-> << >>,
          blk   |-> [s \in BlockedStates |-> << >>],
          state |-> [t \in Task |-> IF t = Idle THEN "RUNNING" ELSE "INVALID"],
          prio  |-> [t \in Task |-> IF t = Idle THEN 0 ELSE SCHED_PRIORITY_MIN],
          lock  |-> [t \in Task |-> 0],
          slice |-> [t \in Task |-> 0],
          panic |-> FALSE]
  /\ rr = {}
  /\ init_prio = k.prio
  /\ pc = [t \in Task |-> "user"]

\* The running task is r and is not inside a service.
Calls(r) == r = Running(k) /\ pc[r] = "user" /\ ~k.panic

\* r may take the pre-emption lock once more.
MayLock(r) == k.lock[r] < LockBound

Exists(t) == k.state[t] # "INVALID"

-----------------------------------------------------------------------------
(* Services called by the running task.                                    *)

Lock(r) ==
  /\ Calls(r) /\ MayLock(r)
  /\ k' = sched_lock(k)
  /\ UNCHANGED <<rr, init_prio, pc>>

\* sched_unlock by the application, or the end of an interrupted service.
Unlock(r) ==
  /\ r = Running(k) /\ ~k.panic
  /\ k' = sched_unlock(k)
  /\ pc' = [pc EXCEPT ![r] = "user"]
  /\ UNCHANGED <<rr, init_prio>>

Yield(r) ==
  /\ Calls(r) /\ r # Idle
  /\ k' = sched_setpriority(k, r, k.prio[r])
  /\ UNCHANGED <<rr, init_prio, pc>>

\* sched_setparam up to the point where it unlocks again.
SetParam(r, t, p) ==
  /\ Calls(r) /\ MayLock(r) /\ r # Idle
  /\ t \in User /\ Exists(t)
  /\ k' = sched_setpriority(sched_lock(k), t, p)
  /\ pc' = [pc EXCEPT ![r] = "unlock"]
  /\ UNCHANGED <<rr, init_prio>>

\* sched_setscheduler up to the point where it unlocks again.
SetScheduler(r, t, robin, p) ==
  /\ Calls(r) /\ MayLock(r) /\ r # Idle
  /\ t \in User /\ Exists(t)
  /\ robin => RRTicks > 0
  /\ rr' = IF robin THEN rr \cup {t} ELSE rr \ {t}
  /\ LET k1 == sched_lock(k)
         k2 == IF RRTicks > 0
               THEN [k1 EXCEPT !.slice[t] = IF robin THEN RRTicks ELSE 0]
               ELSE k1
     IN  k' = sched_setpriority(k2, t, p)
  /\ pc' = [pc EXCEPT ![r] = "unlock"]
  /\ UNCHANGED init_prio

\* The running task blocks in a service of another module.
Block(r, s) ==
  /\ Calls(r) /\ r # Idle
  /\ s \in WaitUsed
  /\ k' = up_block_task(k, r, s)
  /\ UNCHANGED <<rr, init_prio, pc>>

-----------------------------------------------------------------------------
(* The life of a task.                                                     *)

\* A TCB that is in no list gets a priority and goes to g_inactivetasks.
MadeInactive(kk, t, p) ==
  [kk EXCEPT !.prio[t] = p,
             !.blk["INACTIVE"] = dq_addfirst(@, t),
             !.state[t] = "INACTIVE"]

\* task_schedsetup() of a TCB that task_create() has just zeroed.  One step,
\* as task_delete() below: an interrupt between sched_lock() and
\* sched_unlock() only makes tasks pending, which the unlock merges, as if it
\* had come after the step.
TaskSetup(r, t, p) ==
  /\ Calls(r)
  /\ t \in User /\ ~Exists(t)
  /\ k' = sched_unlock(MadeInactive(sched_lock(k), t, p))
  /\ init_prio' = [init_prio EXCEPT ![t] = p]
  /\ UNCHANGED <<rr, pc>>

TaskActivate(r, t) ==
  /\ Calls(r)
  /\ k.state[t] = "INACTIVE"
  /\ k' = up_unblock_task(k, t)
  /\ UNCHANGED <<rr, init_prio, pc>>

\* The list that g_tasklisttable gives for the state of t, without t.
Unlist(kk, t) ==
  LET s == kk.state[t]
      k1 == CASE s = "PENDING" -> [kk EXCEPT !.pend = dq_rem(@, t)]
              [] s \in {"READYTORUN", "RUNNING"} -> [kk EXCEPT !.rtr = dq_rem(@, t)]
              [] s \in BlockedStates -> [kk EXCEPT !.blk[s] = dq_rem(@, t)]
              [] OTHER -> kk
  IN  [k1 EXCEPT !.state[t] = "INVALID"]

\* sched_releasetcb(): the TCB is freed; the next task_create() zeroes it.
Freed(kk, t) ==
  [kk EXCEPT !.prio[t] = SCHED_PRIORITY_MIN, !.lock[t] = 0, !.slice[t] = 0]

\* task_delete() of a task that is not the running one.  Behind sched_unlock()
\* the TCB is in no list and counts as freed, though sched_releasetcb() comes
\* a little later.
task_delete(kk, t) ==
  LET k1 == sched_lock(kk)
      k2 == ASSERT(k1, k1.state[t] # "RUNNING")
  IN  Freed(sched_unlock(Unlist(k2, t)), t)

\* exit(): the next task in the list is locked while the TCB goes away, the
\* pending tasks are merged, and then the head of the list is unlocked.
task_deletecurrent(kk) ==
  LET d == Running(kk)
      k1 == sched_removereadytorun(kk, d)
      r == Running(k1)
      k2 == [sched_lock(k1) EXCEPT !.state[r] = "READYTORUN"]
      k3 == task_delete(sched_addblocked(k2, d, "INACTIVE"), d)
      k4 == [k3 EXCEPT !.state[r] = "RUNNING"]
  IN  sched_unlock(sched_mergepending(k4))

TaskDelete(r, t) ==
  /\ Calls(r) /\ r # t
  /\ t \in User /\ Exists(t)
  /\ k' = task_delete(k, t)
  /\ rr' = rr \ {t}
  /\ init_prio' = [init_prio EXCEPT ![t] = SCHED_PRIORITY_MIN]
  /\ pc' = [pc EXCEPT ![t] = "user"]

Exit(r) ==
  /\ Calls(r) /\ r # Idle
  /\ MayLock(k.rtr[2])
  /\ k' = task_deletecurrent(k)
  /\ rr' = rr \ {r}
  /\ init_prio' = [init_prio EXCEPT ![r] = SCHED_PRIORITY_MIN]
  /\ pc' = [pc EXCEPT ![r] = "user"]

\* task_restart() of another task, up to the point where it unlocks again.
TaskRestart(r, t) ==
  /\ Calls(r) /\ MayLock(r) /\ r # t
  /\ t \in User /\ Exists(t)
  /\ LET k1 == MadeInactive(Unlist(sched_lock(k), t), t, init_prio[t])
     IN  k' = up_unblock_task(k1, t)
  /\ pc' = [pc EXCEPT ![r] = "unlock", ![t] = "user"]
  /\ UNCHANGED <<rr, init_prio>>

\* task_restart() of the caller or of a pid without a TCB: an error return.
TaskRestartError(r) ==
  /\ Calls(r) /\ MayLock(r)
  /\ k' = sched_lock(k)
  /\ UNCHANGED <<rr, init_prio, pc>>

-----------------------------------------------------------------------------
(* Interrupts.  They may come whatever the running task is doing.          *)

\* A wait of t ends: an interrupt handler or the running task posts a
\* semaphore, sends a signal or a message.
Wakeup(t) ==
  /\ ~k.panic
  /\ k.state[t] \in WaitStates
  /\ k' = up_unblock_task(k, t)
  /\ UNCHANGED <<rr, init_prio, pc>>

Tick ==
  /\ ~k.panic
  /\ k' = sched_process_timeslice(k, rr)
  /\ UNCHANGED <<rr, init_prio, pc>>

Next ==
  \/ \E r \in Task :
       \/ Lock(r) \/ Unlock(r) \/ Yield(r) \/ Exit(r) \/ TaskRestartError(r)
       \/ \E s \in WaitUsed : Block(r, s)
       \/ \E t \in Task :
            \/ TaskActivate(r, t) \/ TaskDelete(r, t) \/ TaskRestart(r, t)
            \/ \E p \in Prio : \/ SetParam(r, t, p) \/ TaskSetup(r, t, p)
                               \/ \E robin \in BOOLEAN : SetScheduler(r, t, robin, p)
  \/ \E t \in Task : Wakeup(t)
  \/ Tick

Spec == Init /\ [][Next]_vars

-----------------------------------------------------------------------------
(* Properties.                                                             *)

\* Every TCB is in the list that g_tasklisttable gives for its task_state and
\* in no other, a freed TCB is in none, no list holds a TCB twice, and the
\* lists that the table calls prioritized are ordered by priority: whatever
\* the order of services and interrupts, no TCB is lost or listed twice.
ListsMatchStates == Ordered(k) /\ \A t \in Task : Member(k, t)

\* "The head of this list is the currently active task; the tail of this
\* list is always the idle task" (os_start.c), and only the head is RUNNING.
HeadRunsIdleLast == k.rtr # << >> /\ Last(k.rtr) = Idle /\ HeadRuns(k)

\* The running task has the highest priority of all the tasks that could
\* run, unless it has pre-emption disabled: no path through the services
\* leaves a better task behind in a list.
HighestRuns ==
  k.lock[Running(k)] = 0 =>
    \A t \in ToSet(k.rtr) \cup ToSet(k.pend) : k.prio[t] <= k.prio[Running(k)]

\* A task waits in g_pendingtasks only while the running task has
\* pre-emption disabled: a task is never stranded there.
PendingOnlyWhileLocked == k.pend # << >> => k.lock[Running(k)] > 0

\* No ASSERT and no PANIC of the scheduler can fire.
NoPanic == ~k.panic

\* What sched_lock() protects against: neither the timer interrupt nor the
\* wake-up of any task takes the CPU from a task that disabled pre-emption.
LockHoldsOffInterrupts ==
  [][ (Tick \/ \E t \in Task : Wakeup(t)) /\ k.lock[Running(k)] > 0
        => Running(k') = Running(k) ]_vars

\* What every action preserves, and the invariants above follow from.
IInv == /\ TypeOK
        /\ KInv(k)
        /\ IdleLowest(init_prio)
        /\ \A t \in Task : k.lock[t] <= LockBound

\* task_deletecurrent.c: "Now calling sched_unlock() should have no effect":
\* the exit of a task leaves the pre-emption lock of every other task alone.
ExitLeavesLocks ==
  [][ \A r \in Task : Exit(r) => \A t \in Task \ {r} : k'.lock[t] = k.lock[t] ]_vars
=============================================================================
