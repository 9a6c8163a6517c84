------------------------------ MODULE Pthread ------------------------------
(***************************************************************************)
(* Mutexes, condition variables and barriers (sched/pthread_mutex*.c,      *)
(* pthread_cond*.c, pthread_barrierwait.c) on the semaphores of Threads:   *)
(* one of each, used by threads that hand over items in the usual way.  A  *)
(* producer adds an item while it owns the mutex and owes a signal or a    *)
(* broadcast then; a consumer that finds no item waits for the condition,  *)
(* and looks again whenever the wait is over.                              *)
(*                                                                         *)
(* Places in the services: "lock" pthread_mutex_lock(), "cw*"              *)
(* pthread_cond_wait(), "tw*" pthread_cond_timedwait(), "sig", "bc", "open"*)
(* the posts of pthread_cond_signal(), pthread_cond_broadcast() and        *)
(* pthread_barrier_wait(), "pass" the end of pthread_barrier_wait().       *)
(***************************************************************************)
EXTENDS Threads

CONSTANTS BarrierCount,  \* count of the barrier
          Interruptible, \* the semaphores whose untimed waits signals interrupt
          NestBound,     \* bound on the locks of a recursive mutex
          ItemBound      \* bound on the items

ASSUME PthreadAssumption ==
  /\ Sem = {"mutex", "cond", "barrier"}
  /\ NoThread \notin Thread /\ Interruptible \subseteq Sem
  /\ BarrierCount \in Nat /\ NestBound \in Nat /\ ItemBound \in Nat

VARIABLES recursive,  \* the type of the mutex
          pid,        \* pid of the mutex: its owner
          nlocks,     \* nlocks of the mutex
          wdog,       \* the threads whose watchdog is active
          items, owes, want  \* the items, who owes a signal, who wants an item

mutexvars == <<recursive, pid, nlocks>>
uservars == <<items, owes, want>>
vars == <<threadvars, mutexvars, wdog, uservars>>

Init ==
  /\ ThreadsInit([s \in Sem |-> SemInit(IF s = "mutex" THEN 1 ELSE 0)])
  /\ recursive \in BOOLEAN /\ pid = NoThread /\ nlocks = 0
  /\ wdog = {} /\ items = 0 /\ owes = {} /\ want = {}

\* A thread that is free to start something new.
Idles(t) == Calls(t) /\ t \notin owes /\ t \notin want

-----------------------------------------------------------------------------
(* The mutex.                                                              *)

\* A new owner, at the end of pthread_mutex_lock().
Own(t, n) == pid' = t /\ nlocks' = n /\ UNCHANGED recursive

\* pthread_mutex_lock() of a mutex that t does not own.
Lock(t) ==
  /\ Idles(t) /\ pid # t
  /\ sched_lock(t) /\ Take(t, "mutex", At("lock"))
  /\ UNCHANGED <<mutexvars, wdog, uservars>>

Locked(t) ==
  /\ Runs(t) /\ pc[t] = At("lock")
  /\ Own(t, 1) /\ sched_unlock(t) /\ Goto(t, "user")
  /\ UNCHANGED <<sem, res, wdog, uservars>>

\* pthread_mutex_lock() by the owner; EDEADLK unless the mutex is recursive.
Relock(t) ==
  /\ Idles(t) /\ pid = t
  /\ recursive /\ nlocks < NestBound
  /\ Own(t, nlocks + 1)
  /\ SameLock(t) /\ UNCHANGED <<sem, res, pc, wdog, uservars>>

TryLock_Waiters(t) ==
  /\ Idles(t) /\ sem["mutex"].q = {}
  /\ sem' = [sem EXCEPT !["mutex"].cnt = 0]
  /\ Own(t, nlocks)
  /\ SameLock(t) /\ UNCHANGED <<res, pc, wdog, uservars>>

\* pthread_mutex_trylock(); EBUSY if there is no count to take.
TryLock(t) ==
  /\ Idles(t) /\ sem["mutex"].cnt > 0
  /\ sem' = [sem EXCEPT !["mutex"] = Taken(@)]
  /\ Own(t, nlocks)
  /\ SameLock(t) /\ UNCHANGED <<res, pc, wdog, uservars>>

\* pthread_mutex_unlock() by the owner, EPERM for all others.  A consumer
\* gives up only when there is no item.
Unlock(t) ==
  /\ Calls(t) /\ pid = t
  /\ t \in want => items = 0
  /\ want' = want \ {t}
  /\ \/ recursive /\ nlocks > 1 /\ Own(t, nlocks - 1) /\ UNCHANGED <<sem, res>>
     \/ (recursive => nlocks <= 1) /\ Own(NoThread, 0) /\ Give("mutex")
  /\ SameLock(t) /\ UNCHANGED <<pc, wdog, items, owes>>

-----------------------------------------------------------------------------
(* The condition variable.                                                 *)

Produce(t) ==
  /\ Idles(t) /\ pid = t /\ items < ItemBound
  /\ items' = items + 1 /\ owes' = owes \cup {t}
  /\ SameLock(t) /\ UNCHANGED <<sem, res, pc, mutexvars, wdog, want>>

Consume(t) ==
  /\ Calls(t) /\ pid = t /\ t \notin owes /\ items > 0
  /\ items' = items - 1 /\ want' = want \ {t}
  /\ SameLock(t) /\ UNCHANGED <<sem, res, pc, mutexvars, wdog, owes>>

Wants(t) == Calls(t) /\ pid = t /\ t \notin owes /\ items = 0 /\ want' = want \cup {t}

CondWait_NotLocked(t) ==
  /\ Wants(t)
  /\ SameLock(t)
  /\ Own(NoThread, nlocks) /\ Give("mutex") /\ Goto(t, "cw1")
  /\ UNCHANGED <<wdog, items, owes>>

\* pthread_cond_wait(): t gives the mutex up and takes the condition with
\* pre-emption disabled, and gets the mutex back with pre-emption enabled.
CondWait(t) ==
  /\ Wants(t)
  /\ sched_lock(t)
  /\ Own(NoThread, nlocks) /\ Give("mutex") /\ Goto(t, "cw1")
  /\ UNCHANGED <<wdog, items, owes>>

CondWaitTakes(t) ==
  /\ Runs(t)
  /\ \/ pc[t] = At("cw1") /\ Take(t, "cond", At("cw2")) /\ SameLock(t)
     \/ pc[t] = At("cw2") /\ sched_unlock(t) /\ Goto(t, "cw3") /\ UNCHANGED <<sem, res>>
     \/ pc[t] = At("cw3") /\ Take(t, "mutex", At("cw4")) /\ SameLock(t)
  /\ UNCHANGED <<mutexvars, wdog, uservars>>

CondWaitReturns_NotOwner(t) ==
  /\ Runs(t) /\ pc[t] = At("cw4")
  /\ Goto(t, "user")
  /\ SameLock(t) /\ UNCHANGED <<sem, res, mutexvars, wdog, uservars>>

CondWaitReturns(t) ==
  /\ Runs(t) /\ pc[t] = At("cw4")
  /\ Own(t, nlocks) /\ Goto(t, "user")
  /\ SameLock(t) /\ UNCHANGED <<sem, res, wdog, uservars>>

\* pthread_cond_timedwait(): the mutex, the watchdog and the condition in
\* one step, with interrupts disabled.  A time that has passed changes nothing.
TimedWait(t) ==
  /\ Wants(t)
  /\ sched_lock(t)
  /\ Own(NoThread, nlocks)
  /\ wdog' = wdog \cup {t}
  /\ \E m \in Posted(sem["mutex"]) :
       sem' = [sem EXCEPT !["mutex"] = m, !["cond"] = Waited(@, t)]
  /\ res' = [res EXCEPT ![t] = "OK"]
  /\ Goto(t, "tw1")
  /\ UNCHANGED <<items, owes>>

TimedWaitTakes(t) ==
  /\ Runs(t) /\ pc[t] = At("tw1")
  /\ Take(t, "mutex", At("tw2"))
  /\ SameLock(t) /\ UNCHANGED <<mutexvars, wdog, uservars>>

TimedWaitOwns(t) ==
  /\ Runs(t) /\ pc[t] = At("tw2")
  /\ Own(t, nlocks) /\ sched_unlock(t) /\ Goto(t, "tw3")
  /\ UNCHANGED <<sem, res, wdog, uservars>>

TimedWaitReturns(t) ==
  /\ Runs(t) /\ pc[t] = At("tw3")
  /\ wdog' = wdog \ {t} /\ Goto(t, "user")
  /\ SameLock(t) /\ UNCHANGED <<sem, res, mutexvars, uservars>>

\* pthread_condtimedout(): the signal SIGCONDTIMEDOUT, for which there is no
\* action, ends whatever wait t is in.
Timeout(t) ==
  /\ t \in wdog
  /\ wdog' = wdog \ {t}
  /\ \/ Interrupted(t)
     \/ ~Blocked(t) /\ UNCHANGED threadvars
  /\ UNCHANGED <<mutexvars, uservars>>

\* Any other signal.
Signal(t) ==
  /\ pc[t].at = "take" => pc[t].sem \in Interruptible
  /\ Interrupted(t)
  /\ UNCHANGED <<mutexvars, wdog, uservars>>

MaySignal(t) == Calls(t) /\ t \notin want

\* pthread_cond_signal() looks at the semaphore first; no lock keeps what it
\* sees true until it posts.
CondSignal(t) ==
  /\ MaySignal(t)
  /\ IF Semcount(sem["cond"]) < 0
     THEN Goto(t, "sig") /\ UNCHANGED owes
     ELSE owes' = owes \ {t} /\ UNCHANGED pc
  /\ SameLock(t) /\ UNCHANGED <<sem, res, mutexvars, wdog, items, want>>

CondSignalPosts(t) ==
  /\ Runs(t) /\ pc[t] = At("sig")
  /\ Give("cond") /\ Goto(t, "user") /\ owes' = owes \ {t}
  /\ SameLock(t) /\ UNCHANGED <<mutexvars, wdog, items, want>>

\* pthread_cond_broadcast() posts as often as threads waited at the start.
Broadcast(t) ==
  /\ MaySignal(t)
  /\ sched_lock(t)
  /\ pc' = [pc EXCEPT ![t] = [at |-> "bc", n |-> Semcount(sem["cond"])]]
  /\ UNCHANGED <<sem, res, mutexvars, wdog, uservars>>

BroadcastPosts_OnlyOne(t) ==
  /\ Runs(t) /\ pc[t].at = "bc"
  /\ IF pc[t].n < 0 THEN Give("cond") ELSE UNCHANGED <<sem, res>>
  /\ sched_unlock(t) /\ Goto(t, "user") /\ owes' = owes \ {t}
  /\ UNCHANGED <<mutexvars, wdog, items, want>>

BroadcastPosts(t) ==
  /\ Runs(t) /\ pc[t].at = "bc"
  /\ IF pc[t].n < 0
     THEN /\ Give("cond") /\ pc' = [pc EXCEPT ![t].n = @ + 1]
          /\ SameLock(t) /\ UNCHANGED owes
     ELSE /\ sched_unlock(t) /\ Goto(t, "user") /\ owes' = owes \ {t}
          /\ UNCHANGED <<sem, res>>
  /\ UNCHANGED <<mutexvars, wdog, items, want>>

-----------------------------------------------------------------------------
(* The barrier.                                                            *)

\* pthread_barrier_wait(): the last thread opens the barrier, the others wait.
BarrierWait(t) ==
  /\ Idles(t) /\ pid # t
  /\ sched_lock(t)
  /\ \/ /\ 1 - Semcount(sem["barrier"]) >= BarrierCount
        /\ pc' = [pc EXCEPT ![t] = [at |-> "open", n |-> Semcount(sem["barrier"])]]
        /\ UNCHANGED <<sem, res>>
     \/ /\ 1 - Semcount(sem["barrier"]) < BarrierCount
        /\ Take(t, "barrier", At("pass"))
  /\ UNCHANGED <<mutexvars, wdog, uservars>>

BarrierOpens(t) ==
  /\ Runs(t) /\ pc[t].at = "open"
  /\ IF pc[t].n < 0
     THEN /\ Give("barrier") /\ SameLock(t)
          /\ pc' = [pc EXCEPT ![t].n = Semcount(sem'["barrier"])]
     ELSE sched_unlock(t) /\ Goto(t, "user") /\ UNCHANGED <<sem, res>>
  /\ UNCHANGED <<mutexvars, wdog, uservars>>

BarrierPass(t) ==
  /\ Runs(t) /\ pc[t] = At("pass")
  /\ sched_unlock(t) /\ Goto(t, "user")
  /\ UNCHANGED <<sem, res, mutexvars, wdog, uservars>>

-----------------------------------------------------------------------------

Next ==
  \E t \in Thread :
    \/ Lock(t) \/ Locked(t) \/ Relock(t) \/ TryLock(t) \/ Unlock(t)
    \/ Produce(t) \/ Consume(t)
    \/ CondWait(t) \/ CondWaitTakes(t) \/ CondWaitReturns(t)
    \/ TimedWait(t) \/ TimedWaitTakes(t) \/ TimedWaitOwns(t) \/ TimedWaitReturns(t)
    \/ CondSignal(t) \/ CondSignalPosts(t) \/ Broadcast(t) \/ BroadcastPosts(t)
    \/ BarrierWait(t) \/ BarrierOpens(t) \/ BarrierPass(t)
    \/ Retry(t) /\ UNCHANGED <<mutexvars, wdog, uservars>>
    \/ Timeout(t) \/ Signal(t)

Spec == Init /\ [][Next]_vars

-----------------------------------------------------------------------------
(* Properties.                                                             *)

\* t has the count of the mutex: it owns it, or is about to write its pid.
HasMutex(t) ==
  \/ pid = t
  \/ pc[t].at \in {"lock", "cw4", "tw2"}
  \/ /\ pc[t].at = "take" /\ pc[t].sem = "mutex"
     /\ t \notin sem["mutex"].q /\ res[t] = "OK"

\* Mutual exclusion, whichever services get and return the mutex, and
\* whatever signals interrupt: its only count is free or has one taker, and
\* pid never names a thread that has not got it.
MutexSound ==
  /\ \A t, u \in Thread : HasMutex(t) /\ HasMutex(u) => t = u
  /\ sem["mutex"].cnt = IF \E t \in Thread : HasMutex(t) THEN 0 ELSE 1
  /\ pid # NoThread => pc[pid].at \notin {"lock", "cw1", "cw2", "cw3", "cw4", "tw1", "tw2"}

\* A wait for the condition, timed or not, signalled, timed out or
\* interrupted, returns to a caller that owns the mutex.
WaitReturnsMutex ==
  \A t \in want : pc[t] = At("user") => pid = t

\* No wake-up is lost: as long as a consumer waits, the items are no more
\* than the threads that are on their way to look at them, or owe a signal.
EveryItemWakes ==
  LET waiting == want \cap sem["cond"].q
      coming == (want \ waiting) \cup owes
  IN  waiting # {} => items <= Cardinality(coming)

\* When pthread_cond_broadcast() returns, every thread that waited has been
\* set free: pre-emption is disabled, so that nobody else has come to wait
\* and has taken a post that was meant for them.
BroadcastWakesAll ==
  [][ \A t \in Thread : pc[t].at = "bc" /\ pc'[t].at # "bc" => sem["cond"].q = {} ]_vars

\* The threads at the barrier are never as many as it is for: the last one
\* has opened it.
BarrierNotFull == Cardinality(sem["barrier"].q) < BarrierCount
=============================================================================
