------------------------------ MODULE Threads ------------------------------
(***************************************************************************)
(* Threads on one CPU that block on semaphores, as the services above the  *)
(* semaphores see them.  The scheduler may pick any thread that is ready   *)
(* (any priorities, any time slices), but takes the CPU from a thread that *)
(* has pre-emption disabled only when it blocks; Sched shows that much of  *)
(* the scheduler.  A service is cut where its caller can lose the CPU; pc  *)
(* says where it goes on.                                                  *)
(***************************************************************************)
EXTENDS CountingSem

CONSTANT NoThread

VARIABLES cpu,   \* the thread that runs with pre-emption disabled, if any
          lock,  \* lockcount of every thread
          pc     \* where every thread goes on

threadvars == <<sem, res, cpu, lock, pc>>

At(l) == [at |-> l]
Goto(t, l) == pc' = [pc EXCEPT ![t] = At(l)]

\* t can be given the CPU, or keeps it.
Runs(t) ==
  /\ ~Blocked(t)
  /\ cpu \in {t, NoThread} \/ Blocked(cpu)

sched_lock(t) ==
  /\ lock' = [lock EXCEPT ![t] = @ + 1]
  /\ cpu' = t

sched_unlock(t) ==
  /\ lock' = [lock EXCEPT ![t] = IF @ > 0 THEN @ - 1 ELSE 0]
  /\ cpu' = IF lock[t] > 1 THEN t ELSE NoThread

\* A step of t that leaves pre-emption as it is.
SameLock(t) ==
  /\ UNCHANGED lock
  /\ cpu' = IF lock[t] > 0 THEN t ELSE NoThread

\* pthread_takesemaphore(): t goes on at the place k with a count of s.  A
\* signal does not end the wait, t waits again (Retry).
Take(t, s, k) ==
  /\ SemWait(t, s)
  /\ pc' = [pc EXCEPT ![t] = IF sem[s].cnt > 0 THEN k
                             ELSE [at |-> "take", sem |-> s, then |-> k]]

Retry(t) ==
  /\ Runs(t) /\ pc[t].at = "take"
  /\ \/ /\ res[t] = "OK"
        /\ pc' = [pc EXCEPT ![t] = pc[t].then]
        /\ UNCHANGED <<sem, res>>
     \/ /\ res[t] = "EINTR" /\ Take(t, pc[t].sem, pc[t].then)
  /\ SameLock(t)

\* pthread_givesemaphore().
Give(s) == SemPost(s)

\* A signal for t ends its wait (sig_received() and sem_waitirq()).  If nobody has
\* made a step since t blocked, somebody else has the CPU all the same.
Interrupted(t) ==
  /\ SemEnd(t, "EINTR")
  /\ cpu' = IF cpu = t THEN NoThread ELSE cpu
  /\ UNCHANGED <<lock, pc>>

ThreadsInit(s0) ==
  /\ sem = s0
  /\ res = [t \in Thread |-> "OK"]
  /\ cpu = NoThread
  /\ lock = [t \in Thread |-> 0]
  /\ pc = [t \in Thread |-> At("user")]

Calls(t) == Runs(t) /\ pc[t] = At("user")
=============================================================================
