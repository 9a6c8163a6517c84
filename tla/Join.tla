-------------------------------- MODULE Join --------------------------------
(***************************************************************************)
(* The life of a pthread from pthread_create() to the pthread_join() that  *)
(* collects its exit value, with pthread_detach(), pthread_exit() and      *)
(* pthread_cancel() (sched/pthread_create.c, pthread_join.c,               *)
(* pthread_completejoin.c, pthread_detach.c, pthread_exit.c,               *)
(* pthread_cancel.c, pthread_setcancelstate.c).                            *)
(*                                                                         *)
(* A thread inside a service is at a place that names the service's next   *)
(* step, the pthread `of' it is about and the exit value `val'.  A         *)
(* behaviour ends when `broken' becomes TRUE: a join_t is used after it    *)
(* was freed, data_sem is initialised while its creator waits for it, or a *)
(* thread is deleted in the middle of a service, whose semaphores nobody   *)
(* gives then.                                                             *)
(***************************************************************************)
EXTENDS Threads

CONSTANTS Child,         \* the pthreads that can be created
          Value,         \* the exit values
          Canceled,      \* PTHREAD_CANCELED
          Interruptible  \* the semaphores whose waits signals interrupt

VARIABLES alive,   \* the threads that have a TCB
          info,    \* the join_t of every pthread
          cancel,  \* TCB_FLAG_NONCANCELABLE and TCB_FLAG_CANCEL_PENDING
          broken

vars == <<threadvars, alive, info, cancel, broken>>

JoinSem == <<"join">>        \* g_join_semaphore
DataSem(p) == <<"data", p>>  \* data_sem of the join_t of p
ExitSem(p) == <<"exit", p>>  \* exit_sem of the join_t of p

ASSUME JoinAssumption ==
  /\ NoThread \notin Thread /\ Child \subseteq Thread /\ Canceled \notin Value
  /\ Sem = {JoinSem} \cup {DataSem(p) : p \in Child} \cup {ExitSem(p) : p \in Child}
  /\ Interruptible \subseteq Sem

NoInfo == [mem |-> "none", listed |-> FALSE, started |-> FALSE, crefs |-> 0,
           detached |-> FALSE, terminated |-> FALSE, val |-> "unset"]

Init ==
  /\ sem = [s \in Sem |-> SemInit(IF s = JoinSem THEN 1 ELSE 0)]
  /\ res = [t \in Thread |-> "OK"]
  /\ alive = Thread \ Child
  /\ cpu = NoThread
  /\ lock = [t \in Thread |-> 0]
  /\ pc = [t \in Thread |-> At(IF t \in Child THEN "start" ELSE "user")]
  /\ info = [p \in Child |-> NoInfo]
  /\ cancel = [t \in Thread |-> "enabled"]
  /\ broken = FALSE

Place(l, p, v) == [at |-> l, of |-> p, val |-> v]
Move(t, k) == pc' = [pc EXCEPT ![t] = k]

\* t is at the step l of a service about p.
Does(t, l) == ~broken /\ t \in alive /\ Runs(t) /\ pc[t].at = l
Asks(t) == ~broken /\ t \in alive /\ Calls(t)

\* t uses the join_t of p through its own pointer.
Uses(p) == broken' = (info[p].mem = "freed")

\* pthread_findjoininfo() and pthread_destroyjoin().
Found(p) == p \in Child /\ info[p].listed
Destroy(p) == info' = [info EXCEPT ![p].mem = "freed", ![p].listed = FALSE]

-----------------------------------------------------------------------------
(* Creation.                                                               *)

\* pthread_create() waits for the new thread with pre-emption disabled.
Create(t, p) ==
  /\ Asks(t) /\ info[p].mem = "none"
  /\ info' = [info EXCEPT ![p].mem = "alloc"]
  /\ alive' = alive \cup {p}
  /\ sched_lock(t) /\ Take(t, DataSem(p), Place("created", p, Canceled))
  /\ UNCHANGED <<cancel, broken>>

Created(t) ==
  /\ Does(t, "created")
  /\ Uses(pc[t].of) /\ sched_unlock(t)
  /\ Move(t, Place("close", pc[t].of, Canceled))
  /\ UNCHANGED <<sem, res, alive, info, cancel>>

CreateReturns(t) ==
  /\ Does(t, "close")
  /\ Uses(pc[t].of)
  /\ sem' = [sem EXCEPT ![DataSem(pc[t].of)] = Destroyed(@)]
  /\ Goto(t, "user")
  /\ SameLock(t) /\ UNCHANGED <<res, alive, info, cancel>>

\* pthread_start() of the new thread.
Start(p) ==
  /\ Does(p, "start")
  /\ Take(p, JoinSem, At("add"))
  /\ SameLock(p) /\ UNCHANGED <<alive, info, cancel, broken>>

StartAdds(p) ==
  /\ Does(p, "add")
  /\ info' = [info EXCEPT ![p].listed = TRUE]
  /\ Give(JoinSem) /\ Goto(p, "started")
  /\ SameLock(p) /\ UNCHANGED <<alive, cancel, broken>>

Started(p) ==
  /\ Does(p, "started")
  /\ Uses(p) /\ info' = [info EXCEPT ![p].started = TRUE]
  /\ Give(DataSem(p)) /\ Goto(p, "user")
  /\ SameLock(p) /\ UNCHANGED <<alive, cancel>>

-----------------------------------------------------------------------------
(* The end of a thread.                                                    *)

\* pthread_completejoin(), for p = t or for a pthread that t cancels.
Complete(t, p, v) == Take(t, JoinSem, Place("end", p, v))

\* pthread_exit().
Exit(t, v) ==
  /\ Asks(t)
  /\ Complete(t, t, v)
  /\ SameLock(t) /\ UNCHANGED <<alive, info, cancel, broken>>

\* pthread_cancel(); ESRCH if p has no TCB.  The look-up and the test of the flags
\* are one step here, although pre-emption is enabled between the two; what follows
\* does not look again.
Cancel(t, p) ==
  /\ Asks(t) /\ p \in alive
  /\ \/ cancel[p] = "enabled" /\ Move(t, Place("cancel", p, Canceled)) /\ UNCHANGED cancel
     \/ cancel[p] # "enabled" /\ cancel' = [cancel EXCEPT ![p] = "pending"] /\ UNCHANGED pc
  /\ SameLock(t) /\ UNCHANGED <<sem, res, alive, info, broken>>

Cancels(t) ==
  /\ Does(t, "cancel")
  /\ Complete(t, pc[t].of, Canceled)
  /\ SameLock(t) /\ UNCHANGED <<alive, info, cancel, broken>>

\* pthread_setcancelstate().
Disable(t) ==
  /\ Asks(t) /\ cancel[t] = "enabled"
  /\ cancel' = [cancel EXCEPT ![t] = "disabled"]
  /\ SameLock(t) /\ UNCHANGED <<sem, res, pc, alive, info, broken>>

Enable(t) ==
  /\ Asks(t) /\ cancel[t] # "enabled"
  /\ cancel' = [cancel EXCEPT ![t] = "enabled"]
  /\ IF cancel[t] = "pending"
     THEN sched_lock(t) /\ Complete(t, t, Canceled)
     ELSE SameLock(t) /\ UNCHANGED <<sem, res, pc>>
  /\ UNCHANGED <<alive, info, broken>>

\* The rest of pthread_completejoin(), with g_join_semaphore.  sem_init() of
\* data_sem with minus the number of further waiters is an error, unless
\* there is only one waiter.
CompleteNotFound(t) ==
  /\ Does(t, "end") /\ ~Found(pc[t].of)
  /\ Give(JoinSem) /\ Move(t, [pc[t] EXCEPT !.at = "ended"])
  /\ SameLock(t) /\ UNCHANGED <<alive, info, cancel, broken>>

Ended(p, v) == [info[p] EXCEPT !.terminated = TRUE, !.val = v]

CompleteNoWaiters(t) ==
  /\ Does(t, "end") /\ Found(pc[t].of)
  /\ LET p == pc[t].of IN
       /\ Semcount(sem[ExitSem(p)]) >= 0
       /\ info' = [info EXCEPT ![p] =
                    IF @.detached THEN [Ended(p, pc[t].val) EXCEPT !.mem = "freed", !.listed = FALSE]
                                  ELSE Ended(p, pc[t].val)]
  /\ Give(JoinSem) /\ Move(t, [pc[t] EXCEPT !.at = "ended"])
  /\ SameLock(t) /\ UNCHANGED <<alive, cancel, broken>>

CompleteWaiters_ValueLate(t) ==
  /\ Does(t, "end") /\ Found(pc[t].of)
  /\ LET p == pc[t].of IN
       /\ Semcount(sem[ExitSem(p)]) < 0
       /\ info' = [info EXCEPT ![p].terminated = TRUE]
       /\ sem' = [sem EXCEPT ![DataSem(p)].cnt = IF Semcount(sem[ExitSem(p)]) = -1 THEN 0 ELSE @]
       /\ broken' = (Semcount(sem[ExitSem(p)]) = -1 /\ sem[DataSem(p)].q # {})
  /\ Move(t, [pc[t] EXCEPT !.at = "notify"])
  /\ SameLock(t) /\ UNCHANGED <<res, alive, cancel>>

CompleteWaiters(t) ==
  /\ Does(t, "end") /\ Found(pc[t].of)
  /\ LET p == pc[t].of IN
       /\ Semcount(sem[ExitSem(p)]) < 0
       /\ info' = [info EXCEPT ![p] = Ended(p, pc[t].val)]
       /\ sem' = [sem EXCEPT ![DataSem(p)].cnt = IF Semcount(sem[ExitSem(p)]) = -1 THEN 0 ELSE @]
       /\ broken' = (Semcount(sem[ExitSem(p)]) = -1 /\ sem[DataSem(p)].q # {})
  /\ Move(t, [pc[t] EXCEPT !.at = "notify"])
  /\ SameLock(t) /\ UNCHANGED <<res, alive, cancel>>

\* pthread_notifywaiters() posts once and then while threads wait, and waits
\* until they have got the value.
Notify(t) ==
  /\ Does(t, "notify")
  /\ Give(ExitSem(pc[t].of)) /\ Move(t, [pc[t] EXCEPT !.at = "again"])
  /\ SameLock(t) /\ UNCHANGED <<alive, info, cancel, broken>>

NotifyAgain(t) ==
  /\ Does(t, "again")
  /\ IF Semcount(sem[ExitSem(pc[t].of)]) < 0
     THEN Give(ExitSem(pc[t].of)) /\ UNCHANGED pc
     ELSE Take(t, DataSem(pc[t].of), [pc[t] EXCEPT !.at = "told"])
  /\ SameLock(t) /\ UNCHANGED <<alive, info, cancel, broken>>

Notified(t) ==
  /\ Does(t, "told")
  /\ Give(JoinSem) /\ Move(t, [pc[t] EXCEPT !.at = "ended"])
  /\ SameLock(t) /\ UNCHANGED <<alive, info, cancel, broken>>

\* _exit() of t, or task_delete() of the pthread that t cancels.
Gone(t) ==
  /\ Does(t, "ended")
  /\ alive' = alive \ {pc[t].of}
  /\ broken' = (pc[t].of \in alive \ {t} /\ pc[pc[t].of].at # "user")
  /\ IF pc[t].of = t
     THEN lock' = [lock EXCEPT ![t] = 0] /\ cpu' = NoThread /\ UNCHANGED pc
     ELSE Goto(t, "user") /\ SameLock(t)
  /\ UNCHANGED <<sem, res, info, cancel>>

-----------------------------------------------------------------------------
(* pthread_join().                                                         *)

Join(t, p) ==
  /\ Asks(t) /\ p # t
  /\ Take(t, JoinSem, Place("join", p, Canceled))
  /\ SameLock(t) /\ UNCHANGED <<alive, info, cancel, broken>>

JoinNotFound(t) ==
  /\ Does(t, "join") /\ ~Found(pc[t].of)
  /\ Give(JoinSem) /\ Goto(t, "user")
  /\ SameLock(t) /\ UNCHANGED <<alive, info, cancel, broken>>

\* The thread has terminated: t keeps g_join_semaphore and drops its
\* reference next.
JoinTerminated(t) ==
  /\ Does(t, "join") /\ Found(pc[t].of) /\ info[pc[t].of].terminated
  /\ info' = [info EXCEPT ![pc[t].of].crefs = @ + 1]
  /\ Move(t, [pc[t] EXCEPT !.at = "drop"])
  /\ SameLock(t) /\ UNCHANGED <<sem, res, alive, cancel, broken>>

JoinRunning_NotLocked(t) ==
  /\ Does(t, "join") /\ Found(pc[t].of) /\ ~info[pc[t].of].terminated
  /\ info' = [info EXCEPT ![pc[t].of].crefs = @ + 1]
  /\ Give(JoinSem) /\ Move(t, [pc[t] EXCEPT !.at = "sleep"])
  /\ SameLock(t) /\ UNCHANGED <<alive, cancel, broken>>

\* The thread still runs: t gives g_join_semaphore and waits for exit_sem
\* with pre-emption disabled.
JoinRunning(t) ==
  /\ Does(t, "join") /\ Found(pc[t].of) /\ ~info[pc[t].of].terminated
  /\ info' = [info EXCEPT ![pc[t].of].crefs = @ + 1]
  /\ sched_lock(t)
  /\ Give(JoinSem) /\ Move(t, [pc[t] EXCEPT !.at = "sleep"])
  /\ UNCHANGED <<alive, cancel, broken>>

JoinSleeps(t) ==
  /\ Does(t, "sleep")
  /\ Take(t, ExitSem(pc[t].of), [pc[t] EXCEPT !.at = "woken"])
  /\ SameLock(t) /\ UNCHANGED <<alive, info, cancel, broken>>

\* t reads exit_value.
JoinWoken(t) ==
  /\ Does(t, "woken")
  /\ Uses(pc[t].of)
  /\ Give(DataSem(pc[t].of)) /\ Move(t, [pc[t] EXCEPT !.at = "retake"])
  /\ SameLock(t) /\ UNCHANGED <<alive, info, cancel>>

JoinRetakes(t) ==
  /\ Does(t, "retake")
  /\ Take(t, JoinSem, [pc[t] EXCEPT !.at = "unlock"])
  /\ SameLock(t) /\ UNCHANGED <<alive, info, cancel, broken>>

JoinUnlocks(t) ==
  /\ Does(t, "unlock")
  /\ sched_unlock(t) /\ Move(t, [pc[t] EXCEPT !.at = "drop"])
  /\ UNCHANGED <<sem, res, alive, info, cancel, broken>>

JoinDrops_Leak(t) ==
  /\ Does(t, "drop")
  /\ Uses(pc[t].of)
  /\ info' = [info EXCEPT ![pc[t].of].crefs = @ - 1]
  /\ Give(JoinSem) /\ Goto(t, "user")
  /\ SameLock(t) /\ UNCHANGED <<alive, cancel>>

JoinDrops(t) ==
  /\ Does(t, "drop")
  /\ Uses(pc[t].of)
  /\ LET p == pc[t].of IN
     info' = IF info[p].crefs = 1
             THEN [info EXCEPT ![p].crefs = 0, ![p].mem = "freed", ![p].listed = FALSE]
             ELSE [info EXCEPT ![p].crefs = @ - 1]
  /\ Give(JoinSem) /\ Goto(t, "user")
  /\ SameLock(t) /\ UNCHANGED <<alive, cancel>>

-----------------------------------------------------------------------------
(* pthread_detach().                                                       *)

Detach(t, p) ==
  /\ Asks(t)
  /\ Take(t, JoinSem, Place("detach", p, Canceled))
  /\ SameLock(t) /\ UNCHANGED <<alive, info, cancel, broken>>

Detaches(t) ==
  /\ Does(t, "detach")
  /\ LET p == pc[t].of IN
     \/ ~Found(p) /\ UNCHANGED info
     \/ Found(p) /\ info[p].terminated /\ Destroy(p)
     \/ Found(p) /\ ~info[p].terminated /\ info' = [info EXCEPT ![p].detached = TRUE]
  /\ Give(JoinSem) /\ Goto(t, "user")
  /\ SameLock(t) /\ UNCHANGED <<alive, cancel, broken>>

-----------------------------------------------------------------------------

\* A wait of t is over.
WaitEnds(t) ==
  /\ ~broken /\ t \in alive
  /\ Retry(t)
  /\ UNCHANGED <<alive, info, cancel, broken>>

\* A signal ends a wait of t; pthread_exit() has masked all signals.
Signal(t) ==
  /\ ~broken /\ pc[t].at = "take" /\ pc[t].sem \in Interruptible
  /\ pc[t].then.at \in {"end", "told"} => pc[t].then.of # t
  /\ Interrupted(t)
  /\ UNCHANGED <<alive, info, cancel, broken>>

Next ==
  \E t \in Thread :
    \/ \E p \in Child : Create(t, p) \/ Cancel(t, p) \/ Join(t, p) \/ Detach(t, p)
    \/ \E v \in Value : Exit(t, v)
    \/ Created(t) \/ CreateReturns(t) \/ Start(t) \/ StartAdds(t) \/ Started(t)
    \/ Cancels(t) \/ Disable(t) \/ Enable(t)
    \/ CompleteNotFound(t) \/ CompleteNoWaiters(t) \/ CompleteWaiters(t)
    \/ Notify(t) \/ NotifyAgain(t) \/ Notified(t) \/ Gone(t)
    \/ JoinNotFound(t) \/ JoinTerminated(t) \/ JoinRunning(t) \/ JoinSleeps(t)
    \/ JoinWoken(t) \/ JoinRetakes(t) \/ JoinUnlocks(t) \/ JoinDrops(t)
    \/ Detaches(t) \/ WaitEnds(t) \/ Signal(t)

Spec == Init /\ [][Next]_vars

-----------------------------------------------------------------------------
(* Properties.                                                             *)

\* The place at which t is, or will be when its wait is over.
Where(t) == IF pc[t].at = "take" THEN pc[t].then ELSE pc[t]

\* The threads between `++crefs' and `--crefs' of a pthread_join() of p.
Joiners(p) ==
  {t \in Thread : /\ Where(t).at \in {"sleep", "woken", "retake", "unlock", "drop"}
                  /\ Where(t).of = p}

\* A joiner is let through exit_sem only after the thread has terminated and
\* its exit value is stored: pthread_join() never returns a value of its own.
JoinGetsValue ==
  \A t \in Thread :
    pc[t].at \in {"woken", "retake", "unlock", "drop"} =>
      info[pc[t].of].terminated /\ info[pc[t].of].val \in Value \cup {Canceled}

\* No joiner is forgotten: when a pthread has terminated, threads wait for
\* its exit_sem only as long as pthread_notifywaiters() is at work.
NoJoinerForgotten ==
  \A p \in Child :
    info[p].terminated /\ ~broken /\ sem[ExitSem(p)].q # {} =>
      \E t \in Thread : pc[t].at \in {"notify", "again"} /\ pc[t].of = p

\* crefs counts the joiners, so the last one frees the join_t, and the
\* join_t of a detached pthread that is gone is left to nobody.
JoinInfoReleased ==
  \A p \in Child :
    info[p].mem = "alloc" /\ ~broken =>
      /\ info[p].crefs = Cardinality(Joiners(p))
      /\ info[p].terminated /\ info[p].detached => Joiners(p) # {}
=============================================================================
