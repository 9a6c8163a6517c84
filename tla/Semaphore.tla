----------------------------- MODULE Semaphore -----------------------------
(***************************************************************************)
(* Counting semaphores (sched/sem_*.c) on the task lists: waits, with and  *)
(* without a timeout, posts by tasks and by interrupt handlers, and waits  *)
(* that a signal or a timeout ends.                                        *)
(*                                                                         *)
(* A service runs with interrupts disabled up to the point where it loses  *)
(* the CPU; pc says where its caller goes on when it runs again:           *)
(*   wait    behind up_block_task() in sem_wait()                          *)
(*   post    in sem_restorebaseprio(): the caller of sem_post() had its    *)
(*           own priority lowered                                          *)
(*   signal  in sem_canceled(): the same, for the caller of kill()         *)
(***************************************************************************)
EXTENDS SemHolder

CONSTANTS PriorityInheritance,  \* CONFIG_PRIORITY_INHERITANCE
          Discipline,           \* a task waits for one count at most, and only
                                \* a task that holds a count posts it
          EarlyEnds,            \* what ends waits early: "timeout", "irq", "kill"
          MaxPrio,              \* the priorities of the tasks: 1..MaxPrio
          InitCount,            \* the value that sem_init() gets
          CountBound            \* bound on the value of a semaphore

ASSUME SemAssumption == /\ PriorityInheritance \in BOOLEAN
                        /\ Discipline \in BOOLEAN
                        /\ EarlyEnds \subseteq {"timeout", "irq", "kill"}
                        /\ PriorityInheritance => Discipline
                        /\ MaxPrio \in Nat /\ InitCount \in Nat /\ CountBound \in Nat
                        /\ InitCount <= CountBound

VARIABLES g,        \* the task lists and the holders, see SemHolder
          count,    \* semcount of every semaphore
          waitsem,  \* waitsem of every TCB
          errno,    \* pterrno of every TCB; "OK" is all but EINTR and ETIMEDOUT
          timer,    \* the tasks whose watchdog of sem_timedwait() is active
          pc,
          net,      \* history: initial value plus posts minus completed waits
          held,     \* history: the counts that a task holds
          cut       \* history: a kill() has lost the CPU inside sem_waitirq()

vars == <<g, count, waitsem, errno, timer, pc, net, held, cut>>

k == g.k
User == Task \ {Idle}
AtUser == [at |-> "user"]

\* The order of the priorities matters only: the lowest is 1.
Priorities == {p \in [User -> 1..MaxPrio] : \E t \in User : p[t] = 1}

\* The fields that sem_wait(), sem_post() and their helpers assign keep their
\* types; g.nfree says that the pool of holders (sem_holder.c) neither runs
\* below zero nor gets back more entries than it lent.
TypeOK ==
  /\ k \in Kernel
  /\ g.base \in [Task -> Nat] /\ g.reprios \in [Task -> Seq(Nat)]
  /\ g.hlist \in [Sem -> Seq(Entry)] /\ g.nfree \in 0..PREALLOCHOLDERS
  /\ count \in [Sem -> Int]
  /\ waitsem \in [Task -> Sem \cup {NULL}]
  /\ errno \in [Task -> {"OK", "EINTR", "ETIMEDOUT"}]
  /\ timer \subseteq User
  /\ \A t \in Task : pc[t].at \in {"user", "wait", "post", "signal"}
  /\ net \in [Sem -> Int] /\ held \in [Task -> [Sem -> Nat]] /\ cut \in BOOLEAN

\* All the tasks are ready to run, with any priorities.
Init ==
  /\ \E p \in Priorities : \E kk \in AllReady(p) :
       g = [k |-> kk,
            base |-> kk.prio,
            reprios |-> [t \in Task |-> << >>],
            hlist |-> [s \in Sem |-> <<NoEntry>>],
            nfree |-> PREALLOCHOLDERS,
            overrun |-> FALSE]
  /\ count = [s \in Sem |-> InitCount]
  /\ waitsem = [t \in Task |-> NULL]
  /\ errno = [t \in Task |-> "OK"]
  /\ timer = {}
  /\ pc = [t \in Task |-> AtUser]
  /\ net = count
  /\ held = [t \in Task |-> [s \in Sem |-> 0]]
  /\ cut = FALSE

\* Nothing is said of the system after a PANIC or a write beyond an array.
Alive == ~k.panic /\ ~g.overrun
Runs(r) == r = Running(k) /\ Alive
Calls(r) == Runs(r) /\ r # Idle /\ pc[r] = AtUser
MayWait(r, s) == Calls(r) /\ (Discipline => held[r][s] = 0)

\* The operations that are compiled in for priority inheritance only.
WithPI(gg, op(_)) == IF PriorityInheritance THEN op(gg) ELSE gg
OnK(gg, op(_)) == [gg EXCEPT !.k = op(@)]
LockIfPI(gg) == WithPI(gg, LAMBDA x : OnK(x, sched_lock))
UnlockIf(b, gg) == IF b THEN OnK(gg, sched_unlock) ELSE gg
UnlockIfPI(gg) == UnlockIf(PriorityInheritance, gg)

-----------------------------------------------------------------------------
(* Waiting.                                                                *)

\* r gets a count of s without waiting; sem_trywait() and sem_timedwait()
\* do not enter r in the holder list.
Take(r, s, list) ==
  /\ MayWait(r, s) /\ count[s] > 0
  /\ count' = [count EXCEPT ![s] = @ - 1]
  /\ g' = IF list THEN WithPI(g, LAMBDA x : sem_addholder(x, s)) ELSE g
  /\ waitsem' = [waitsem EXCEPT ![r] = NULL]
  /\ errno' = [errno EXCEPT ![r] = "OK"]
  /\ net' = [net EXCEPT ![s] = @ - 1]
  /\ held' = IF Discipline THEN [held EXCEPT ![r][s] = @ + 1] ELSE held
  /\ UNCHANGED <<timer, pc, cut>>

\* sem_wait() of a semaphore without a count; a second wait is
\* PANIC(OSERR_BADWAITSEM).
Wait(r, s, timed) ==
  /\ MayWait(r, s) /\ count[s] <= 0
  /\ timed => "timeout" \in EarlyEnds
  /\ count' = [count EXCEPT ![s] = @ - 1]
  /\ waitsem' = [waitsem EXCEPT ![r] = s]
  /\ errno' = [errno EXCEPT ![r] = "OK"]
  /\ timer' = IF timed THEN timer \cup {r} ELSE timer
  /\ LET g1 == OnK(g, LAMBDA kk : ASSERT(kk, waitsem[r] = NULL))
         g2 == WithPI(LockIfPI(g1), LAMBDA x : sem_boostpriority(x, s))
     IN  g' = OnK(g2, LAMBDA kk : up_block_task(kk, r, "WAIT_SEM"))
  /\ pc' = [pc EXCEPT ![r] = [at |-> "wait", sem |-> s, timed |-> timed]]
  /\ UNCHANGED <<net, held, cut>>

WaitReturns_TimerLeft(r) ==
  LET s == pc[r].sem
      got == errno[r] = "OK"
  IN  /\ Runs(r) /\ pc[r].at = "wait"
      /\ g' = UnlockIfPI(IF got THEN WithPI(g, LAMBDA x : sem_addholder(x, s)) ELSE g)
      /\ net' = IF got THEN [net EXCEPT ![s] = @ - 1] ELSE net
      /\ held' = IF got /\ Discipline THEN [held EXCEPT ![r][s] = @ + 1] ELSE held
      /\ timer' = timer
      /\ pc' = [pc EXCEPT ![r] = AtUser]
      /\ UNCHANGED <<count, waitsem, errno, cut>>

\* r runs again, with the count unless a signal or a timeout ended the wait.
WaitReturns(r) ==
  LET s == pc[r].sem
      got == errno[r] = "OK"
  IN  /\ Runs(r) /\ pc[r].at = "wait"
      /\ g' = UnlockIfPI(IF got THEN WithPI(g, LAMBDA x : sem_addholder(x, s)) ELSE g)
      /\ net' = IF got THEN [net EXCEPT ![s] = @ - 1] ELSE net
      /\ held' = IF got /\ Discipline THEN [held EXCEPT ![r][s] = @ + 1] ELSE held
      /\ timer' = timer \ {r}
      /\ pc' = [pc EXCEPT ![r] = AtUser]
      /\ UNCHANGED <<count, waitsem, errno, cut>>

-----------------------------------------------------------------------------
(* Posting.                                                                *)

FirstWaiter_Last(s) ==
  LET q == k.blk["WAIT_SEM"]
      i == SelectLastInSeq(q, LAMBDA t : waitsem[t] = s)
  IN  IF i = 0 THEN NULL ELSE q[i]

\* The first task in g_waitingforsemaphore that waits for s, or NULL.
FirstWaiter(s) ==
  LET q == k.blk["WAIT_SEM"]
      i == SelectInSeq(q, LAMBDA t : waitsem[t] = s)
  IN  IF i = 0 THEN NULL ELSE q[i]

Receiver_LastWaits(s) == IF count[s] + 1 < 0 THEN FirstWaiter(s) ELSE NULL

\* The task that gets the count of a post, if the new semcount is <= 0.
Receiver(s) == IF count[s] + 1 <= 0 THEN FirstWaiter(s) ELSE NULL

\* The semaphore gets a count, and the receiver takes it.
Hand(s, st) ==
  /\ count' = [count EXCEPT ![s] = @ + 1]
  /\ net' = [net EXCEPT ![s] = @ + 1]
  /\ waitsem' = IF st = NULL THEN waitsem ELSE [waitsem EXCEPT ![st] = NULL]
Woken(gg, st) == IF st = NULL THEN gg ELSE OnK(gg, LAMBDA kk : up_unblock_task(kk, st))

PostEnds_EntryKept(gg, r, s) == OnK(gg, sched_unlock)

\* The end of sem_restorebaseprio() and of sem_post().
PostEnds(gg, r, s) ==
  LET i == sem_findholder(gg.hlist[s], r)
      g1 == IF i # 0 /\ gg.hlist[s][i].counts = 0 THEN sem_freeholder(gg, s, i) ELSE gg
  IN  OnK(g1, sched_unlock)

\* sem_post() without priority inheritance, by a task or an interrupt handler.
PostPlain(s) ==
  LET st == Receiver(s)
  IN  /\ ~PriorityInheritance /\ count[s] < CountBound
      /\ Hand(s, st)
      /\ g' = Woken(g, st)
      /\ UNCHANGED <<errno, timer, pc, cut>>

Post(r, s) ==
  /\ Calls(r) /\ PostPlain(s)
  /\ Discipline => held[r][s] > 0
  /\ held' = IF Discipline THEN [held EXCEPT ![r][s] = @ - 1] ELSE held

PostIrq(s) ==
  /\ Alive /\ ~Discipline
  /\ PostPlain(s)
  /\ UNCHANGED held

\* sem_restorebaseprio(): the holders but r, then r itself.
RestoreOthers(gg, r, s, st) ==
  IF st = NULL THEN gg
  ELSE RestoreAll(gg, SelectSeq(Holders(gg, s), LAMBDA h : h # r), st)
RestoreOwn(gg, r, s, st) ==
  IF st = NULL \/ sem_findholder(gg.hlist[s], r) = 0 THEN gg
  ELSE sem_restoreholderprio(gg, r, st)

\* When r loses the CPU by its own new priority, the rest of the service
\* waits until r runs again.
PostGoesOn(gg, r, s, clear) ==
  LET switched == Running(gg.k) # r
  IN  /\ g' = IF switched THEN gg ELSE PostEnds(gg, r, s)
      /\ pc' = IF switched
               THEN [pc EXCEPT ![r] = [at |-> "post", sem |-> s, clear |-> clear]]
               ELSE pc
PostOwn(gg, r, s, st) == PostGoesOn(RestoreOwn(gg, r, s, st), r, s, Reprioritizes(gg, r))

\* sem_post() with priority inheritance.
PostPI(r, s) ==
  LET st == Receiver(s)
      g1 == Woken(LockIfPI(sem_releaseholder(g, s)), st)
  IN  /\ PriorityInheritance /\ Calls(r) /\ held[r][s] > 0
      /\ Hand(s, st)
      /\ PostOwn(RestoreOthers(g1, r, s, st), r, s, st)
      /\ held' = [held EXCEPT ![r][s] = @ - 1]
      /\ UNCHANGED <<errno, timer, cut>>

PostReturns(r) ==
  /\ Runs(r) /\ pc[r].at = "post"
  /\ g' = PostEnds(IF pc[r].clear THEN ClearReprios(g, r) ELSE g, r, pc[r].sem)
  /\ pc' = [pc EXCEPT ![r] = AtUser]
  /\ UNCHANGED <<count, waitsem, errno, timer, net, held, cut>>

-----------------------------------------------------------------------------
(* Waits that end early (sem_waitirq.c).                                   *)

\* The holders hs no longer need the priority of t.
sem_canceled(gg, hs, t) == WithPI(gg, LAMBDA x : RestoreAll(x, hs, t))

WaitIrqEnds_NoErrno(gg, t, s, err, locked) ==
  /\ count' = [count EXCEPT ![s] = @ + 1]
  /\ waitsem' = [waitsem EXCEPT ![t] = NULL]
  /\ errno' = errno
  /\ LET g1 == OnK(gg, LAMBDA kk : IF kk.state[t] \in BlockedStates
                                   THEN up_unblock_task(kk, t)
                                   ELSE ASSERT(kk, FALSE))
     IN  g' = UnlockIf(locked, g1)
  /\ UNCHANGED <<net, held, cut>>

\* The end of sem_waitirq(): t stops waiting for s.  up_unblock_task() of a
\* task that is not blocked is PANIC(OSERR_BADUNBLOCKSTATE).  A caller that
\* holds the pre-emption lock releases it.
WaitIrqEnds(gg, t, s, err, locked) ==
  /\ count' = [count EXCEPT ![s] = @ + 1]
  /\ waitsem' = [waitsem EXCEPT ![t] = NULL]
  /\ errno' = [errno EXCEPT ![t] = err]
  /\ LET g1 == OnK(gg, LAMBDA kk : IF kk.state[t] \in BlockedStates
                                   THEN up_unblock_task(kk, t)
                                   ELSE ASSERT(kk, FALSE))
     IN  g' = UnlockIf(locked, g1)
  /\ UNCHANGED <<net, held, cut>>

WaitIrq_NotChecked(t, err) ==
  /\ LET s == waitsem[t]
         g1 == sem_canceled(g, Holders(g, s), t)
     IN  WaitIrqEnds(g1, t, s, err, FALSE)
  /\ UNCHANGED pc

\* sem_waitirq() by an interrupt handler.
WaitIrq(t, err) ==
  /\ k.state[t] = "WAIT_SEM"
  /\ LET s == waitsem[t]
         g1 == sem_canceled(g, Holders(g, s), t)
     IN  WaitIrqEnds(g1, t, s, err, FALSE)
  /\ UNCHANGED pc

\* The watchdog of sem_timedwait() expires: sem_timeout().
Timeout(t) ==
  /\ Alive /\ t \in timer
  /\ timer' = timer \ {t}
  /\ \/ WaitIrq(t, "ETIMEDOUT")
     \/ /\ k.state[t] # "WAIT_SEM"
        /\ UNCHANGED <<g, count, waitsem, errno, pc, net, held, cut>>

\* An interrupt handler sends a signal to t.
SignalIrq(t) ==
  /\ Alive /\ "irq" \in EarlyEnds
  /\ WaitIrq(t, "EINTR")
  /\ UNCHANGED timer

\* kill(), behind the new priority of r: when r has lost the CPU by it, the
\* holders in rest are still to be visited.
KillRest(gg, clear, r, t, s, rest) ==
  IF Running(gg.k) # r
  THEN /\ g' = gg
       /\ pc' = [pc EXCEPT ![r] = [at |-> "signal", who |-> t, sem |-> s,
                                   rest |-> rest, clear |-> clear]]
       /\ cut' = TRUE
       /\ UNCHANGED <<count, waitsem, errno, net, held>>
  ELSE /\ WaitIrqEnds(sem_canceled(gg, rest, t), t, s, "EINTR", TRUE)
       /\ UNCHANGED pc
KillOwn(gg, r, t, s, hs, n) ==
  KillRest(IF n = 0 THEN gg ELSE sem_restoreholderprio(gg, hs[n], t),
           Reprioritizes(gg, r), r, t, s, SubSeq(hs, n + 1, Len(hs)))

\* kill() by the running task r.  When r holds s, its own priority may drop
\* in the middle of sem_canceled().  (Bound: no kill() after one that was
\* cut in two.)
Kill(r, t) ==
  LET s == waitsem[t]
      hs == IF PriorityInheritance THEN Holders(g, s) ELSE << >>
      i == SelectInSeq(hs, LAMBDA h : h = r)
      n == IF i = 0 THEN Len(hs) ELSE i
  IN  /\ Calls(r) /\ "kill" \in EarlyEnds /\ ~cut
      /\ k.state[t] = "WAIT_SEM"
      /\ KillOwn(sem_canceled(OnK(g, sched_lock), SubSeq(hs, 1, n - 1), t), r, t, s, hs, n)
      /\ UNCHANGED timer

KillGoesOn(r) ==
  /\ Runs(r) /\ pc[r].at = "signal"
  /\ LET g1 == IF pc[r].clear THEN ClearReprios(g, r) ELSE g
         g2 == sem_canceled(g1, pc[r].rest, pc[r].who)
     IN  WaitIrqEnds(g2, pc[r].who, pc[r].sem, "EINTR", TRUE)
  /\ pc' = [pc EXCEPT ![r] = AtUser]
  /\ UNCHANGED timer

-----------------------------------------------------------------------------
(* What else tasks do: r waits for something else, an interrupt wakes it.  *)

Sleep(r) ==
  /\ Calls(r)
  /\ g' = OnK(g, LAMBDA kk : up_block_task(kk, r, "WAIT_SIG"))
  /\ UNCHANGED <<count, waitsem, errno, timer, pc, net, held, cut>>

Wakeup(t) ==
  /\ Alive /\ k.state[t] = "WAIT_SIG"
  /\ g' = OnK(g, LAMBDA kk : up_unblock_task(kk, t))
  /\ UNCHANGED <<count, waitsem, errno, timer, pc, net, held, cut>>

-----------------------------------------------------------------------------

Next ==
  \/ \E r \in Task :
       \/ WaitReturns(r) \/ PostReturns(r) \/ KillGoesOn(r) \/ Sleep(r)
       \/ \E s \in Sem :
            \/ \E b \in BOOLEAN : Take(r, s, b) \/ Wait(r, s, b)
            \/ Post(r, s) \/ PostPI(r, s)
       \/ \E t \in User : Kill(r, t)
  \/ \E s \in Sem : PostIrq(s)
  \/ \E t \in User : Timeout(t) \/ SignalIrq(t) \/ Wakeup(t)

Spec == Init /\ [][Next]_vars

-----------------------------------------------------------------------------
(* Properties.                                                             *)

Waiting(t, s) == k.state[t] = "WAIT_SEM" /\ waitsem[t] = s

\* The scheduler's lists survive whatever the semaphores do to them, and no
\* ASSERT or PANIC fires: the services leave the lists well formed, the head
\* running, and no task pending without a pre-emption lock.
SchedulerIntact == cut \/ KInv(k)

\* No ASSERT or PANIC fires.
NoAssertFails == ~k.panic

\* include/semaphore.h: a negative semcount is the number of the waiting
\* tasks, and nobody waits for a semaphore that has a count; also when posts,
\* signals and timeouts race for the same waiter.
CountIsWaiters ==
  cut \/ \A s \in Sem : Cardinality({t \in User : Waiting(t, s)}) = Max({0, -count[s]})

\* Every post is worth exactly one completed wait: a count is either in
\* semcount or has been handed to a task that has yet to return from
\* sem_wait().  A wait that ends by a signal or a timeout takes none, and no
\* post is lost on a task whose wait ends at the same time.
NoPostLost ==
  cut \/ \A s \in Sem :
    net[s] = Max({0, count[s]})
             + Cardinality({t \in User : /\ pc[t].at = "wait" /\ pc[t].sem = s
                                         /\ ~Waiting(t, s) /\ errno[t] = "OK"})

\* Whatever the lists, the watchdogs and the priorities do, the services are
\* those of CountingSem, on which pthreads, joins and pipes are built: a post
\* frees one waiter or leaves a count, and each wait ends in one way.
Abstract == INSTANCE CountingSem
              WITH Thread <- Task,
                   sem <- [s \in Sem |-> [cnt |-> Max({0, count[s]}),
                                          q |-> {t \in Task : Waiting(t, s)}]],
                   res <- errno
ImplementsCountingSem == Abstract!SemSpec

\* A post hands its count to a waiter of the highest priority of the moment.
BestWaiterFirst ==
  [][ \A s \in Sem, t \in User :
        Waiting(t, s) /\ k'.state[t] # "WAIT_SEM" /\ errno'[t] = "OK"
          => \A u \in User : Waiting(u, s) => k.prio[u] <= k.prio[t] ]_vars

\* A watchdog that expires late never ends a later wait: sem_wait() does not
\* return ETIMEDOUT, and a timed call leaves no watchdog behind.
NoStaleTimeout ==
  \A t \in User : /\ pc[t].at = "wait" /\ errno[t] = "ETIMEDOUT" => pc[t].timed
                  /\ t \in timer => pc[t].at = "wait"

\* The holder lists: a task has one entry at most, an entry says what its
\* task holds, an entry without a count belongs to a task inside sem_post(),
\* and every entry of the pool is in a list or free (the user guide fears
\* that memory is stranded there).  No task falls below its base priority.
HoldersSound ==
  /\ \A s \in Sem : \A i, j \in 1..Len(g.hlist[s]) :
       LET e == g.hlist[s][i]
       IN  e.holder # NULL =>
             /\ e.holder = g.hlist[s][j].holder => i = j
             /\ e.counts <= held[e.holder][s]
             /\ e.counts = 0 => pc[e.holder].at = "post" /\ pc[e.holder].sem = s
  /\ g.nfree + MapThenSumSet(LAMBDA s : Len(g.hlist[s]) - 1, Sem) = PREALLOCHOLDERS
  /\ \A t \in Task : k.prio[t] >= g.base[t]

\* A priority is boosted only as long as somebody waits for a count that the
\* task holds, or until the end of the sem_post() that hands it over.
BoostEnds ==
  \A h \in User :
    pc[h].at \in {"user", "wait"} /\ k.prio[h] > g.base[h]
      => \E s \in Sem, t \in User : Waiting(t, s) /\ held[h][s] > 0

\* pend_reprios is not written beyond CONFIG_SEM_NNESTPRIO entries.
NoOverrun == ~g.overrun
=============================================================================
