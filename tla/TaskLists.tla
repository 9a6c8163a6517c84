----------------------------- MODULE TaskLists -----------------------------
(***************************************************************************)
(* The task lists of the NuttX scheduler (sched/sched_*.c) and the context *)
(* switch primitives that every blocking kernel service is built on        *)
(* (arch/arm/src/arm/up_*.c), as operators on one kernel record:           *)
(*                                                                         *)
(*   rtr, pend   g_readytorun and g_pendingtasks, head first               *)
(*   blk         the lists of the blocked states, by state                 *)
(*   state, prio, lock, slice                                              *)
(*               task_state, sched_priority, lockcount and timeslice of    *)
(*               every TCB                                                 *)
(*   panic       an ASSERT or a PANIC of these functions has fired         *)
(*                                                                         *)
(* Every one of these functions runs with interrupts disabled on the only  *)
(* CPU, so each is one indivisible transformation of the record.  A        *)
(* context switch is the change of Head(rtr): what the task that was       *)
(* switched out still has to do is the business of the calling service.    *)
(***************************************************************************)
EXTENDS Queues

CONSTANTS Task,       \* the TCBs
          Idle,       \* g_idletcb
          RRTicks,    \* CONFIG_RR_INTERVAL / MSEC_PER_TICK; 0: no round robin
          MAX_LOCK_COUNT

ASSUME TaskAssumption == Idle \in Task /\ IsFiniteSet(Task)
ASSUME RRAssumption == RRTicks \in Nat
ASSUME LockAssumption == MAX_LOCK_COUNT \in Nat \ {0}

SCHED_PRIORITY_MIN == 1

WaitStates == {"WAIT_SEM", "WAIT_SIG", "WAIT_MQNOTEMPTY", "WAIT_MQNOTFULL"}
BlockedStates == WaitStates \cup {"INACTIVE"}
TaskStates == BlockedStates \cup {"INVALID", "PENDING", "READYTORUN", "RUNNING"}

\* The "prioritized" column of g_tasklisttable, for the blocked states.
Prioritized(s) == s \notin {"INACTIVE", "WAIT_SIG"}

Kernel == [rtr   : Seq(Task),
           pend  : Seq(Task),
           blk   : [BlockedStates -> Seq(Task)],
           state : [Task -> TaskStates],
           prio  : [Task -> Nat],
           lock  : [Task -> Nat],
           slice : [Task -> Int],
           panic : BOOLEAN]

Running(k) == Head(k.rtr)

\* An ASSERT or PANIC: the system stops.
ASSERT(k, cond) == [k EXCEPT !.panic = @ \/ ~cond]

-----------------------------------------------------------------------------
(* Lists.                                                                  *)

\* Where t goes in q, searching from position `from': before the first task
\* of a strictly lower priority, at the end when there is none.
Slot(q, from, prio, t) ==
  LET p == SelectInSubSeq(q, from, Len(q), LAMBDA u : prio[u] < prio[t])
  IN  IF p = 0 THEN Len(q) + 1 ELSE p

sched_addprioritized(q, prio, t) == InsertAt(q, Slot(q, 1, prio, t), t)

\* A mutant: the pre-emption lock of the running task is not tested.
sched_addreadytorun_Unlocked(k, t) ==
  LET rtcb == Running(k)
      q == sched_addprioritized(k.rtr, k.prio, t)
  IN  IF Head(q) = t
      THEN ASSERT([k EXCEPT !.rtr = q,
                            !.state = [@ EXCEPT ![t] = "RUNNING",
                                                ![rtcb] = "READYTORUN"]],
                  k.lock[rtcb] = 0)
      ELSE [k EXCEPT !.rtr = q, !.state[t] = "READYTORUN"]

\* Adds btcb to the ready-to-run list, or to the pending list when the
\* running task has pre-emption disabled and would be pre-empted.
sched_addreadytorun(k, t) ==
  LET rtcb == Running(k)
      q == sched_addprioritized(k.rtr, k.prio, t)
  IN  IF k.lock[rtcb] > 0 /\ k.prio[rtcb] < k.prio[t]
      THEN [k EXCEPT !.pend = sched_addprioritized(@, k.prio, t),
                     !.state[t] = "PENDING"]
      ELSE IF Head(q) = t
      THEN ASSERT([k EXCEPT !.rtr = q,
                            !.state = [@ EXCEPT ![t] = "RUNNING",
                                                ![rtcb] = "READYTORUN"]],
                  k.lock[rtcb] = 0)
      ELSE [k EXCEPT !.rtr = q, !.state[t] = "READYTORUN"]

sched_removereadytorun(k, t) ==
  IF Running(k) = t
  THEN ASSERT([k EXCEPT !.rtr = dq_rem(@, t),
                        !.state = [@ EXCEPT ![k.rtr[2]] = "RUNNING",
                                            ![t] = "INVALID"]],
              Len(k.rtr) > 1)
  ELSE [k EXCEPT !.rtr = dq_rem(@, t), !.state[t] = "INVALID"]

\* One iteration of the loop of sched_mergepending(): the search resumes
\* where the previous pending task was inserted.
MergeOne(m, prio, t) ==
  LET p == Slot(m.rtr, m.at, prio, t)
  IN  [rtr |-> InsertAt(m.rtr, p, t), at |-> p]

MergeLoop(k) ==
  LET loop[n \in 0..Len(k.pend)] ==
        IF n = 0 THEN [rtr |-> k.rtr, at |-> 1]
                 ELSE MergeOne(loop[n-1], k.prio, k.pend[n])
  IN  loop

\* A mutant: the task that was running stays marked RUNNING.
sched_mergepending_StaleHead(k) ==
  LET q == MergeLoop(k)[Len(k.pend)].rtr
  IN  [k EXCEPT !.rtr = q,
                !.pend = << >>,
                !.state = [t \in Task |->
                    IF t \in ToSet(k.pend)
                    THEN IF t = Head(q) THEN "RUNNING" ELSE "READYTORUN"
                    ELSE k.state[t]]]

\* Moves every pending task to the ready-to-run list.  A pending task that
\* would land behind the idle task is PANIC(OSERR_NOIDLETASK).
sched_mergepending(k) ==
  LET q == MergeLoop(k)[Len(k.pend)].rtr
      moved == ToSet(k.pend)
  IN  ASSERT([k EXCEPT
                !.rtr = q,
                !.pend = << >>,
                !.state = [t \in Task |->
                    IF t \in moved
                    THEN IF t = Head(q) THEN "RUNNING" ELSE "READYTORUN"
                    ELSE IF t = Running(k) /\ t # Head(q) THEN "READYTORUN"
                    ELSE k.state[t]]],
             Last(q) = Last(k.rtr))

sched_addblocked(k, t, s) ==
  [k EXCEPT !.blk[s] = IF Prioritized(s)
                       THEN sched_addprioritized(@, k.prio, t)
                       ELSE dq_addlast(@, t),
            !.state[t] = s]

sched_removeblocked(k, t) ==
  [k EXCEPT !.blk[k.state[t]] = dq_rem(@, t), !.state[t] = "INVALID"]

-----------------------------------------------------------------------------
(* Context switches.                                                       *)

\* A mutant: the pending tasks are left pending.
up_block_task_Pending(k, t, s) ==
  sched_addblocked(sched_removereadytorun(k, t), t, s)

\* The running task t goes to the list of blocked state s.
up_block_task(k, t, s) ==
  LET k1 == sched_removereadytorun(ASSERT(k, k.state[t] \in {"READYTORUN", "RUNNING"}), t)
  IN  sched_mergepending(sched_addblocked(k1, t, s))

up_unblock_task(k, t) ==
  LET k1 == sched_removeblocked(ASSERT(k, k.state[t] \in BlockedStates), t)
      k2 == IF RRTicks > 0 THEN [k1 EXCEPT !.slice[t] = RRTicks] ELSE k1
  IN  sched_addreadytorun(k2, t)

\* switch_needed is the exclusive or of what the removal and the insertion
\* report; the pending tasks are merged only when a switch is needed.
up_reprioritize_rtr(k, t, p) ==
  LET k0 == ASSERT(k, k.state[t] \in {"READYTORUN", "RUNNING"} /\ p >= SCHED_PRIORITY_MIN)
      k1 == [sched_removereadytorun(k0, t) EXCEPT !.prio[t] = p]
      k2 == sched_addreadytorun(k1, t)
      removed == Running(k) = t
      added == Running(k2) = t
  IN  IF removed # added THEN sched_mergepending(k2) ELSE k2

up_release_pending(k) == sched_mergepending(k)

-----------------------------------------------------------------------------
(* The scheduler services that change the lists.                           *)

sched_lock(k) ==
  ASSERT([k EXCEPT !.lock[Running(k)] = @ + 1], k.lock[Running(k)] < MAX_LOCK_COUNT)

\* A mutant: an unlock without a lock makes lockcount negative.
sched_unlock_Negative(k) ==
  LET r == Running(k)
      k1 == [k EXCEPT !.lock[r] = @ - 1]
  IN  IF k1.lock[r] <= 0 /\ k1.pend # << >> THEN up_release_pending(k1) ELSE k1

sched_unlock(k) ==
  LET r == Running(k)
      k1 == [k EXCEPT !.lock[r] = IF @ > 0 THEN @ - 1 ELSE 0]
  IN  IF k1.lock[r] = 0 /\ k1.pend # << >> THEN up_release_pending(k1) ELSE k1

\* The task that follows t in the ready-to-run list (tcb->flink).
Flink(k, t) == k.rtr[SelectInSeq(k.rtr, LAMBDA u : u = t) + 1]

\* A task that is ready to run, and stays so, gets priority p.
MoveReady(k, t, p) ==
  LET k1 == ASSERT(sched_removereadytorun(k, t), Running(k) # t)
      k2 == sched_addreadytorun([k1 EXCEPT !.prio[t] = p], t)
  IN  ASSERT(k2, Running(k2) # t)

MovePending(k, t, p) ==
  LET prio == [k.prio EXCEPT ![t] = p]
  IN  [k EXCEPT !.prio = prio,
                !.pend = sched_addprioritized(dq_rem(@, t), prio, t)]

\* A mutant: the task keeps its place in the list.
MoveBlocked_InPlace(k, t, p) == [k EXCEPT !.prio[t] = p]

MoveBlocked(k, t, p) ==
  LET prio == [k.prio EXCEPT ![t] = p]
  IN  [k EXCEPT !.prio = prio,
                !.blk[k.state[t]] = IF Prioritized(k.state[t])
                                    THEN sched_addprioritized(dq_rem(@, t), prio, t)
                                    ELSE @]

\* A mutant: a running task keeps the CPU whatever its priority becomes.
sched_setpriority_KeepCPU(k, t, p) ==
  CASE k.state[t] = "READYTORUN" -> up_reprioritize_rtr(k, t, p)
    [] k.state[t] = "PENDING" -> MovePending(k, t, p)
    [] k.state[t] \in BlockedStates -> MoveBlocked(k, t, p)
    [] OTHER -> [k EXCEPT !.prio[t] = p]

\* sched_setpriority for a valid priority p.
sched_setpriority(k, t, p) ==
  CASE k.state[t] = "RUNNING" ->
         IF p <= k.prio[Flink(k, t)]
         THEN up_reprioritize_rtr(k, t, p)
         ELSE [k EXCEPT !.prio[t] = p]
    [] k.state[t] = "READYTORUN" ->
         IF p > k.prio[Running(k)]
         THEN up_reprioritize_rtr(k, t, p)
         ELSE MoveReady(k, t, p)
    [] k.state[t] = "PENDING" -> MovePending(k, t, p)
    [] k.state[t] \in BlockedStates -> MoveBlocked(k, t, p)
    [] OTHER -> [k EXCEPT !.prio[t] = p]

\* A mutant: only a task of a higher priority takes over.
sched_process_timeslice_Strict(k, rr) ==
  LET r == Running(k)
      k1 == [k EXCEPT !.slice[r] = RRTicks]
  IN  IF RRTicks = 0 \/ r \notin rr THEN k
      ELSE IF k.slice[r] > 1 THEN [k EXCEPT !.slice[r] = @ - 1]
      ELSE IF k.lock[r] > 0 THEN k
      ELSE IF Len(k.rtr) > 1 /\ k.prio[k.rtr[2]] > k.prio[r]
      THEN up_reprioritize_rtr(k1, r, k.prio[r])
      ELSE k1

\* The timer interrupt's round-robin logic; rr is the set of tasks with
\* TCB_FLAG_ROUND_ROBIN.
sched_process_timeslice(k, rr) ==
  LET r == Running(k)
      k1 == [k EXCEPT !.slice[r] = RRTicks]
  IN  IF RRTicks = 0 \/ r \notin rr THEN k
      ELSE IF k.slice[r] > 1 THEN [k EXCEPT !.slice[r] = @ - 1]
      ELSE IF k.lock[r] > 0 THEN k
      ELSE IF Len(k.rtr) > 1 /\ k.prio[k.rtr[2]] >= k.prio[r]
      THEN up_reprioritize_rtr(k1, r, k.prio[r])
      ELSE k1

-----------------------------------------------------------------------------
(* Well-formed lists.                                                      *)

Inj(q) == \A i, j \in 1..Len(q) : q[i] = q[j] => i = j

\* Highest priority first.
Desc(q, prio) == \A i, j \in 1..Len(q) : i < j => prio[q[i]] >= prio[q[j]]

\* The idle task has the only priority below SCHED_PRIORITY_MIN.
IdleLowest(prio) == prio[Idle] = 0 /\ \A t \in Task \ {Idle} : prio[t] >= 1

\* t is in the list of its state and in no other.
Member(k, t) ==
    /\ t \in ToSet(k.rtr) <=> k.state[t] \in {"READYTORUN", "RUNNING"}
    /\ t \in ToSet(k.pend) <=> k.state[t] = "PENDING"
    /\ \A s \in BlockedStates : t \in ToSet(k.blk[s]) <=> k.state[t] = s

\* No list holds a task twice; the prioritized lists are ordered.
Ordered(k) == 
  /\ Inj(k.rtr) /\ Desc(k.rtr, k.prio)
  /\ Inj(k.pend) /\ Desc(k.pend, k.prio)
  /\ \A s \in BlockedStates : /\ Inj(k.blk[s])
                              /\ Prioritized(s) => Desc(k.blk[s], k.prio)

\* The head of g_readytorun, and no other task, is RUNNING.
HeadRuns(k) == \A t \in Task : k.state[t] = "RUNNING" <=> t = Head(k.rtr)

\* The lists are well formed.
Lists(k) ==
  /\ k \in Kernel
  /\ \A t \in Task : Member(k, t)
  /\ Ordered(k)
  /\ k.rtr # << >> /\ Last(k.rtr) = Idle
  /\ IdleLowest(k.prio)
  /\ ~k.panic

\* The state between two services: the head of the list runs, and a task is
\* pending only while the running task has pre-emption disabled.
KInv(k) ==
  /\ Lists(k)
  /\ HeadRuns(k)
  /\ k.pend # << >> => k.lock[Running(k)] > 0

-----------------------------------------------------------------------------
(* The lists once all the tasks are ready to run with the priorities p;    *)
(* tasks of the same priority are in the order in which they got ready.    *)

AllReady(p) ==
  LET prio == [t \in Task |-> IF t = Idle THEN 0 ELSE p[t]]
  IN  {[rtr   |-> q,
        pend  |-> << >>,
        blk   |-> [s \in BlockedStates |-> << >>],
        state |-> [t \in Task |-> IF t = Head(q) THEN "RUNNING" ELSE "READYTORUN"],
        prio  |-> prio,
        lock  |-> [t \in Task |-> 0],
        slice |-> [t \in Task |-> 0],
        panic |-> FALSE] : q \in {q \in SetToSeqs(Task) : Desc(q, prio)}}
=============================================================================
