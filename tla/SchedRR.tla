------------------------------ MODULE SchedRR ------------------------------
(***************************************************************************)
(* Round-robin scheduling (CONFIG_RR_INTERVAL > 0) of tasks of the same    *)
(* priority: the timer interrupt of Sched against tasks that disable       *)
(* pre-emption, yield, block and are woken.                                *)
(***************************************************************************)
EXTENDS Sched

\* Every task has been created, made round robin with the same priority
\* by sched_setscheduler(), and waits; only the idle task runs.
RRInit ==
  /\ k = [rtr   |-> <<Idle>>,
          pend  |-> << >>,
          blk   |-> [s \in BlockedStates |->
                       IF s = "WAIT_SEM" THEN (CHOOSE q \in SetToSeqs(User) : TRUE) ELSE << >>],
          state |-> [t \in Task |-> IF t = Idle THEN "RUNNING" ELSE "WAIT_SEM"],
          prio  |-> [t \in Task |-> IF t = Idle THEN 0 ELSE SCHED_PRIORITY_MIN],
          lock  |-> [t \in Task |-> 0],
          slice |-> [t \in Task |-> IF t = Idle THEN 0 ELSE RRTicks],
          panic |-> FALSE]
  /\ rr = User
  /\ init_prio = k.prio
  /\ pc = [t \in Task |-> "user"]

RRNext ==
  \/ \E r \in User : Lock(r) \/ Unlock(r) \/ Yield(r) \/ \E s \in WaitUsed : Block(r, s)
  \/ \E t \in Task : Wakeup(t)
  \/ Tick

\* A round-robin task runs, with pre-emption enabled or disabled.
Preemptible == Running(k) \in rr /\ k.lock[Running(k)] = 0
Locked == Running(k) \in rr /\ k.lock[Running(k)] > 0

\* The timer keeps interrupting a running task, also at times when it has
\* pre-emption enabled: strong fairness of Tick in the states of Preemptible,
\* where a tick changes the time slice.  A task does not keep pre-emption
\* disabled for ever: weak fairness of Unlock in the states of Locked.
RRFairness ==
  /\ []<>Preemptible => []<><<Preemptible /\ Tick>>_vars
  /\ <>[]Locked => []<><<\E r \in User : Unlock(r)>>_vars

RRSpec == RRInit /\ [][RRNext]_vars /\ RRFairness

\* Round robin: a task that is ready to run gets the CPU, though no task of
\* its priority ever yields or blocks and each may lock pre-emption again and
\* again (sched_process_timeslice).
EveryoneRuns ==
  \A t \in User : (k.state[t] \in {"READYTORUN", "PENDING"}) ~> (Running(k) = t)
=============================================================================
