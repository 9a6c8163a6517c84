-------------------------- MODULE SemaphoreProofs ---------------------------
(***************************************************************************)
(* Without CONFIG_PRIORITY_INHERITANCE, the semaphores keep the scheduler's*)
(* lists, lose no post, wake the best waiter and implement CountingSem,    *)
(* for any number of tasks, semaphores, priorities and counts.             *)
(***************************************************************************)
EXTENDS Semaphore, TaskListsProofs

Pos(n) == IF n > 0 THEN n ELSE 0

\* The tasks that wait for s, and those to which a post has handed a count
\* of s but that have not run since.
Waiters(s) == {t \in User : Waiting(t, s)}
Granted(s) == {t \in User : /\ pc[t].at = "wait" /\ pc[t].sem = s
                            /\ ~Waiting(t, s) /\ errno[t] = "OK"}

GRecord == [k : Kernel, base : [Task -> Nat], reprios : [Task -> Seq(Nat)],
            hlist : [Sem -> Seq(Entry)], nfree : 0..PREALLOCHOLDERS, overrun : {FALSE}]

TypeInv ==
  /\ g \in GRecord
  /\ count \in [Sem -> Int] /\ net \in [Sem -> Int]
  /\ waitsem \in [Task -> Sem \cup {NULL}]
  /\ errno \in [Task -> {"OK", "EINTR", "ETIMEDOUT"}]
  /\ timer \subseteq User
  /\ pc = [t \in Task |-> pc[t]]
  /\ ~cut

\* Where a task is, and what its TCB says of its wait.
TaskInv(t) ==
  /\ pc[t] = AtUser \/ (pc[t].at = "wait" /\ pc[t].sem \in Sem /\ pc[t].timed \in BOOLEAN)
  /\ IF k.state[t] = "WAIT_SEM"
     THEN pc[t].at = "wait" /\ waitsem[t] = pc[t].sem /\ errno[t] = "OK"
     ELSE waitsem[t] = NULL
  /\ pc[t].at = "wait" /\ errno[t] = "ETIMEDOUT" => pc[t].timed
  /\ t \in timer => pc[t].at = "wait" /\ pc[t].timed
  /\ t = Idle => pc[t] = AtUser

\* Of the counts of s: the waiters that lack one and the posts that are still
\* to be consumed.
SemInv(s) ==
  /\ Cardinality(Waiters(s)) = Pos(-count[s])
  /\ net[s] = Pos(count[s]) + Cardinality(Granted(s))

IInv ==
  /\ TypeInv
  /\ KInv(k) /\ k.lock = [t \in Task |-> 0]
  /\ \A t \in Task : TaskInv(t)
  /\ \A s \in Sem : SemInv(s)

-----------------------------------------------------------------------------
(* What the steps come to, without the scheduler's part in them.           *)

\* The lists change, but nobody except t starts or stops to wait for a
\* semaphore.
KMoves(t) ==
  /\ g' \in GRecord /\ KInv(k') /\ k'.lock = [u \in Task |-> 0]
  /\ \A u \in Task \ {t} : k'.state[u] = "WAIT_SEM" <=> k.state[u] = "WAIT_SEM"

TakeStep(r, s) ==
  /\ r \in User /\ k.state[r] # "WAIT_SEM" /\ pc[r] = AtUser /\ count[s] > 0
  /\ count' = [count EXCEPT ![s] = @ - 1] /\ net' = [net EXCEPT ![s] = @ - 1]
  /\ waitsem' = [waitsem EXCEPT ![r] = NULL] /\ errno' = [errno EXCEPT ![r] = "OK"]
  /\ UNCHANGED <<g, timer, pc, cut>>

WaitStep(r, s, timed) ==
  /\ r \in User /\ k.state[r] # "WAIT_SEM" /\ pc[r] = AtUser /\ count[s] <= 0
  /\ count' = [count EXCEPT ![s] = @ - 1]
  /\ waitsem' = [waitsem EXCEPT ![r] = s] /\ errno' = [errno EXCEPT ![r] = "OK"]
  /\ timer' = IF timed THEN timer \cup {r} ELSE timer
  /\ pc' = [pc EXCEPT ![r] = [at |-> "wait", sem |-> s, timed |-> timed]]
  /\ KMoves(r) /\ k'.state[r] = "WAIT_SEM"
  /\ UNCHANGED <<net, cut>>

ReturnStep(r) ==
  /\ r \in User /\ k.state[r] # "WAIT_SEM" /\ pc[r].at = "wait"
  /\ net' = IF errno[r] = "OK" THEN [net EXCEPT ![pc[r].sem] = @ - 1] ELSE net
  /\ timer' = timer \ {r} /\ pc' = [pc EXCEPT ![r] = AtUser]
  /\ UNCHANGED <<g, count, waitsem, errno, cut>>

\* A post leaves a count, or hands it to st.
PostStep(s) ==
  /\ count[s] >= 0
  /\ count' = [count EXCEPT ![s] = @ + 1] /\ net' = [net EXCEPT ![s] = @ + 1]
  /\ UNCHANGED <<g, waitsem, errno, timer, pc, cut>>
HandStep(s, st) ==
  /\ st \in User /\ Waiting(st, s) /\ count[s] < 0
  /\ \A u \in Task : Waiting(u, s) => k.prio[u] <= k.prio[st]
  /\ count' = [count EXCEPT ![s] = @ + 1] /\ net' = [net EXCEPT ![s] = @ + 1]
  /\ waitsem' = [waitsem EXCEPT ![st] = NULL]
  /\ KMoves(st) /\ k'.state[st] # "WAIT_SEM"
  /\ UNCHANGED <<errno, timer, pc, cut>>

\* A signal or a timeout ends the wait of t.
EndStep(t, s, err) ==
  /\ t \in User /\ Waiting(t, s)
  /\ err = "EINTR" \/ (err = "ETIMEDOUT" /\ t \in timer)
  /\ count' = [count EXCEPT ![s] = @ + 1]
  /\ waitsem' = [waitsem EXCEPT ![t] = NULL] /\ errno' = [errno EXCEPT ![t] = err]
  /\ timer' \subseteq timer
  /\ KMoves(t) /\ k'.state[t] # "WAIT_SEM"
  /\ UNCHANGED <<net, pc, cut>>

\* Everything else.
QuietStep(t) ==
  /\ KMoves(t) /\ (t \in Task => k.state[t] # "WAIT_SEM" /\ k'.state[t] # "WAIT_SEM")
  /\ timer' \subseteq timer
  /\ UNCHANGED <<count, waitsem, errno, pc, net, cut>>

Effect ==
  \/ \E r \in User, s \in Sem : TakeStep(r, s)
  \/ \E r \in User, s \in Sem, timed \in BOOLEAN : WaitStep(r, s, timed)
  \/ \E r \in User : ReturnStep(r)
  \/ \E s \in Sem : PostStep(s)
  \/ \E s \in Sem, st \in User : HandStep(s, st)
  \/ \E t \in User, s \in Sem, err \in {"EINTR", "ETIMEDOUT"} : EndStep(t, s, err)
  \/ \E t \in Task \cup {NULL} : QuietStep(t)

\* The steps are first-order, except where they cite SMT.
USE Zenon

-----------------------------------------------------------------------------
(* Lemmas.                                                                 *)

\* Max({0, n}), of CountIsWaiters, NoPostLost and the refinement mapping.
LEMMA MaxIsPos ==
  ASSUME NEW n \in Int
  PROVE  Max({0, n}) = Pos(n)
<1>1. \E x \in {0, n} : \A y \in {0, n} : x >= y
  BY SMT
<1>2. Max({0, n}) \in {0, n} /\ \A y \in {0, n} : Max({0, n}) >= y
  BY <1>1 DEF Max
<1> QED
  BY <1>2, SMT DEF Pos

\* What t adds to a set A that becomes B.
Delta(A, B, t) == IF t \in A THEN IF t \in B THEN 0 ELSE -1
                             ELSE IF t \in B THEN 1 ELSE 0

\* A set that gains or loses t only.
LEMMA CardMoves ==
  ASSUME NEW A, NEW B, IsFiniteSet(A), NEW t, \A u : u # t => (u \in B <=> u \in A)
  PROVE  /\ Cardinality(A) \in Nat
         /\ Cardinality(B) = Cardinality(A) + Delta(A, B, t)
<1> Cardinality(A) \in Nat
  BY FS_CardinalityType
<1>2. CASE t \in A
  <2>1. Cardinality(A \ {t}) = Cardinality(A) - 1
    BY <1>2, FS_RemoveElement
  <2>2. B = IF t \in B THEN A ELSE A \ {t}
    BY <1>2, SMT
  <2> QED
    BY <1>2, <2>1, <2>2, SMT DEF Delta
<1>3. CASE t \notin A
  <2>1. Cardinality(A \cup {t}) = Cardinality(A) + 1
    BY <1>3, FS_AddElement
  <2>2. B = IF t \in B THEN A \cup {t} ELSE A
    BY <1>3, SMT
  <2> QED
    BY <1>3, <2>1, <2>2, SMT DEF Delta
<1> QED
  BY <1>2, <1>3

\* The waiters are tasks, so there are finitely many.
LEMMA WaitersFinite ==
  ASSUME NEW s
  PROVE  IsFiniteSet(Waiters(s)) /\ IsFiniteSet(Granted(s))
<1>1. Waiters(s) \subseteq Task /\ Granted(s) \subseteq Task
  BY DEF Waiters, Granted, User
<1> QED
  BY <1>1, TaskAssumption, FS_Subset

\* g gets new task lists.
LEMMA SetK ==
  ASSUME g \in GRecord, NEW kk \in Kernel, g' = [g EXCEPT !.k = kk]
  PROVE  g' \in GRecord /\ k' = kk
BY DEF GRecord, k

\* The last of two new task lists counts.
LEMMA SetKTwice ==
  ASSUME g \in GRecord, NEW k1, NEW k2
  PROVE  [[g EXCEPT !.k = k1] EXCEPT !.k = k2] = [g EXCEPT !.k = k2]
BY DEF GRecord

\* What IInv says of the task lists.
LEMMA KFacts ==
  ASSUME IInv
  PROVE  /\ g \in GRecord /\ KInv(k) /\ Lists(k) /\ k \in Kernel
         /\ Running(k) \in Task /\ k.state[Running(k)] = "RUNNING"
         /\ k.lock = [t \in Task |-> 0] /\ k.state \in [Task -> TaskStates]
         /\ ~k.panic /\ Alive
<1> g \in GRecord /\ KInv(k) /\ Lists(k) /\ HeadRuns(k) /\ k.lock = [t \in Task |-> 0]
  BY DEF IInv, TypeInv, KInv
<1>2. k \in Kernel /\ Running(k) \in Task
  BY ListsFacts
<1>3. g.overrun = FALSE
  BY DEF GRecord
<1> QED
  BY <1>2, <1>3, KernelFields DEF HeadRuns, Running, Lists, Alive

\* The first waiter in g_waitingforsemaphore is one of the best, and there is
\* none only when nobody waits.
LEMMA FirstWaiterFacts ==
  ASSUME IInv, NEW s \in Sem
  PROVE  IF \E u \in Task : Waiting(u, s)
         THEN /\ FirstWaiter(s) \in User /\ Waiting(FirstWaiter(s), s)
              /\ \A u \in Task : Waiting(u, s) => k.prio[u] <= k.prio[FirstWaiter(s)]
         ELSE FirstWaiter(s) = NULL
<1> DEFINE q == k.blk["WAIT_SEM"]
           I == {i \in 1..Len(q) : waitsem[q[i]] = s}
           m == Min(I)
<1>1. /\ q \in Seq(Task) /\ Desc(q, k.prio) /\ k.prio \in [Task -> Nat]
      /\ \A u \in Task : u \in ToSet(q) <=> k.state[u] = "WAIT_SEM"
  <2>1. "WAIT_SEM" \in BlockedStates /\ Prioritized("WAIT_SEM")
    BY DEF BlockedStates, WaitStates, Prioritized
  <2>2. Lists(k) /\ k.blk \in [BlockedStates -> Seq(Task)] /\ k.prio \in [Task -> Nat]
    BY KFacts, KernelFields
  <2>3. Desc(q, k.prio)
    BY <2>1, <2>2 DEF Lists, Ordered
  <2>4. \A u \in Task : u \in ToSet(q) <=> k.state[u] = "WAIT_SEM"
    BY <2>1, <2>2 DEF Lists, Member
  <2> QED
    BY <2>1, <2>2, <2>3, <2>4
<1>2. k.state[Idle] # "WAIT_SEM"
  BY KFacts, IdleReady
<1>3. FirstWaiter(s) = LET i == IF I # {} THEN m ELSE 0
                       IN  IF i = 0 THEN NULL ELSE q[i]
  BY DEF FirstWaiter, SelectInSeq
<1>4. I \in SUBSET Nat /\ 0 \notin I /\ \A i \in I : q[i] \in Task /\ i \in 1..Len(q)
  BY <1>1, SMT
<1>5. \A i \in I : q[i] \in User /\ Waiting(q[i], s)
  <2> TAKE i \in I
  <2>1. q[i] \in ToSet(q) /\ q[i] \in Task /\ waitsem[q[i]] = s
    BY <1>1, <1>4, InToSet
  <2> QED
    BY <1>1, <1>2, <2>1 DEF Waiting, User
<1>6. \A u \in Task : Waiting(u, s) => \E i \in I : q[i] = u
  BY <1>1, InToSet DEF Waiting
<1>7. CASE I = {}
  BY <1>3, <1>6, <1>7
<1>8. CASE I # {}
  <2>1. m \in I /\ \A n \in I : m <= n
    BY <1>4, <1>8, MinIsLeast
  <2> HIDE DEF m
  <2>2. FirstWaiter(s) = q[m]
    BY <1>3, <1>4, <1>8, <2>1
  <2>3. ASSUME NEW i \in I
        PROVE  k.prio[q[i]] <= k.prio[q[m]]
    BY <1>1, <1>4, <2>1, SMTT(20) DEF Desc
  <2> HIDE DEF I, q
  <2> QED
    BY <1>5, <1>6, <2>1, <2>2, <2>3 DEF User
<1> QED
  BY <1>7, <1>8

-----------------------------------------------------------------------------
(* The scheduler's part in the steps.                                      *)

\* The running task blocks.
LEMMA BlockMoves ==
  ASSUME IInv, NEW r \in User, r = Running(k), NEW x \in BlockedStates,
         g' = [g EXCEPT !.k = up_block_task(k, r, x)]
  PROVE  KMoves(r) /\ k'.state[r] = x
<1> DEFINE kk == up_block_task(k, r, x)
<1> KInv(kk) /\ kk.lock = k.lock /\ kk.state[r] = x /\ BlockedAs(k, kk, r)
  <2>1. KInv(k) /\ r \in Task \ {Idle}
    BY KFacts DEF User
  <2> QED
    BY <2>1, BlockEffect, SMTT(30)
<1> HIDE DEF kk
<1>2. kk \in Kernel
  BY ListsFacts DEF KInv
<1>3. g' \in GRecord /\ k' = kk
  BY <1>2, KFacts, SetK DEF kk
<1>4. "WAIT_SEM" \in BlockedStates
  BY DEF BlockedStates, WaitStates
<1> QED
  BY <1>3, <1>4, KFacts DEF KMoves, BlockedAs, Sleepers

\* A blocked task becomes ready to run.
LEMMA UnblockMoves ==
  ASSUME IInv, NEW t \in Task, k.state[t] \in BlockedStates,
         g' = [g EXCEPT !.k = up_unblock_task(k, t)]
  PROVE  KMoves(t) /\ k'.state[t] \notin BlockedStates
<1> DEFINE kk == up_unblock_task(k, t)
<1> KInv(kk) /\ kk.lock = k.lock /\ kk.state[t] \notin BlockedStates /\ BlockedAs(k, kk, t)
  BY KFacts, UnblockEffect
<1> HIDE DEF kk
<1>2. kk \in Kernel
  BY ListsFacts DEF KInv
<1>3. g' \in GRecord /\ k' = kk
  BY <1>2, KFacts, SetK DEF kk
<1>4. "WAIT_SEM" \in BlockedStates
  BY DEF BlockedStates, WaitStates
<1> QED
  BY <1>3, <1>4, KFacts DEF KMoves, BlockedAs, Sleepers

\* The same, with pre-emption disabled meanwhile.
LEMMA KillMoves ==
  ASSUME IInv, NEW t \in Task, k.state[t] \in BlockedStates,
         g' = [g EXCEPT !.k = sched_unlock(up_unblock_task(sched_lock(k), t))]
  PROVE  KMoves(t) /\ k'.state[t] \notin BlockedStates
<1> DEFINE r == Running(k)
           k1 == sched_lock(k)
           k2 == up_unblock_task(k1, t)
           k3 == sched_unlock(k2)
           Z == [u \in Task |-> 0]
<1>1. r \in Task /\ KInv(k) /\ Lists(k) /\ k.lock = Z /\ k.lock[r] = 0
  BY KFacts
<1>2. k.lock[r] < MAX_LOCK_COUNT
  BY <1>1, LockAssumption, SMT
<1>3. SameLists(k, k1) /\ k1.lock = [k.lock EXCEPT ![r] = @ + 1] /\ KInv(k1)
  BY <1>1, <1>2, LockInv
<1> HIDE DEF k1
<1>4. k1.state = k.state /\ Running(k1) = r /\ k1.lock = [Z EXCEPT ![r] = 1] /\ k1.lock[r] > 0
  <2>1. k1.state = k.state /\ Running(k1) = r
    BY <1>1, <1>3, SameListsInv DEF SameLists
  <2>2. k1.lock = [Z EXCEPT ![r] = 1] /\ k1.lock[r] > 0
    BY <1>1, <1>3, SMT
  <2> QED
    BY <2>1, <2>2
<1>5. /\ KInv(k2) /\ k2.lock = k1.lock /\ k2.state[t] \notin BlockedStates
      /\ BlockedAs(k1, k2, t) /\ Running(k2) = r
  BY <1>3, <1>4, UnblockEffect
<1> HIDE DEF k2
<1>6. KInv(k3) /\ k3.lock = [k2.lock EXCEPT ![r] = IF @ > 0 THEN @ - 1 ELSE 0]
  BY <1>5, UnlockInv
<1>7. Sleepers(k2, k3, Task)
  BY <1>5, UnlockEffect
<1> HIDE DEF k3
<1>8. k3.lock = Z
  BY <1>1, <1>4, <1>5, <1>6, SMT
<1>9. k3 \in Kernel
  BY <1>6, ListsFacts DEF KInv
<1>10. g' \in GRecord /\ k' = k3
  BY <1>9, KFacts, SetK DEF k1, k2, k3
<1>11. "WAIT_SEM" \in BlockedStates
  BY DEF BlockedStates, WaitStates
<1>12. k3.state[t] \notin BlockedStates
  BY <1>5, <1>7 DEF Sleepers
<1>13. ASSUME NEW u \in Task \ {t}
       PROVE  k3.state[u] = "WAIT_SEM" <=> k.state[u] = "WAIT_SEM"
  <2>1. k3.state[u] = "WAIT_SEM" <=> k2.state[u] = "WAIT_SEM"
    BY <1>7, <1>11 DEF Sleepers
  <2>2. k2.state[u] = "WAIT_SEM" <=> k1.state[u] = "WAIT_SEM"
    BY <1>5, <1>11 DEF Sleepers, BlockedAs
  <2> QED
    BY <1>4, <2>1, <2>2
<1> QED
  BY <1>6, <1>8, <1>10, <1>12, <1>13 DEF KMoves

-----------------------------------------------------------------------------
(* Every step of Semaphore has one of the effects.                         *)

\* The caller of a service runs, and waits for nothing.
LEMMA CallerFacts ==
  ASSUME IInv, NEW r \in Task, Calls(r)
  PROVE  /\ r \in User /\ r = Running(k) /\ k.state[r] = "RUNNING"
         /\ k.state[r] # "WAIT_SEM" /\ pc[r] = AtUser /\ waitsem[r] = NULL
<1> r \in User /\ r = Running(k) /\ pc[r] = AtUser
  BY DEF Calls, Runs, User
<1>2. k.state[r] = "RUNNING" /\ "RUNNING" # "WAIT_SEM"
  BY KFacts
<1> QED
  BY <1>2 DEF IInv, TaskInv

\* A task that waits, waits for a semaphore and is not the idle task.
LEMMA WaiterFacts ==
  ASSUME IInv, NEW t \in Task, k.state[t] = "WAIT_SEM"
  PROVE  /\ t \in User /\ waitsem[t] \in Sem /\ Waiting(t, waitsem[t])
         /\ k.state[t] \in BlockedStates
         /\ pc[t].at = "wait" /\ pc[t].sem = waitsem[t] /\ errno[t] = "OK"
<1> TaskInv(t)
  BY DEF IInv
<1> pc[t].at = "wait" /\ pc[t].sem = waitsem[t] /\ errno[t] = "OK"
  BY DEF TaskInv
<1>3. pc[t] # AtUser
  <2>1. AtUser.at = "user" /\ "user" # "wait"
    BY SMT DEF AtUser
  <2> QED
    BY <2>1
<1>4. t # Idle /\ pc[t].sem \in Sem
  BY <1>3 DEF TaskInv
<1>5. "WAIT_SEM" \in BlockedStates
  BY DEF BlockedStates, WaitStates
<1> QED
  BY <1>4, <1>5 DEF User, Waiting

\* sem_wait() of a semaphore with a count, and sem_trywait().
LEMMA TakeEffect ==
  ASSUME IInv, ~PriorityInheritance, NEW r \in Task, NEW s \in Sem, NEW b, Take(r, s, b)
  PROVE  TakeStep(r, s)
<1>1. Calls(r)
  BY DEF Take, MayWait
<1>2. r \in User /\ k.state[r] # "WAIT_SEM" /\ pc[r] = AtUser
  BY <1>1, CallerFacts
<1>3. g' = g
  BY DEF Take, WithPI
<1> QED
  BY <1>2, <1>3 DEF Take, TakeStep

\* sem_wait() of a semaphore without a count.
LEMMA WaitEffect ==
  ASSUME IInv, ~PriorityInheritance, NEW r \in Task, NEW s \in Sem, NEW timed \in BOOLEAN,
         Wait(r, s, timed)
  PROVE  WaitStep(r, s, timed)
<1>1. Calls(r)
  BY DEF Wait, MayWait
<1> r \in User /\ r = Running(k) /\ k.state[r] # "WAIT_SEM" /\ pc[r] = AtUser /\ waitsem[r] = NULL
  BY <1>1, CallerFacts
<1> DEFINE g1 == [g EXCEPT !.k = ASSERT(k, waitsem[r] = NULL)]
<1>3. ASSERT(k, waitsem[r] = NULL) = k
  BY KFacts, AssertTrue
<1>4. g1 = g
  BY <1>3, KFacts, SMT DEF GRecord, k
<1>5. g' = [g1 EXCEPT !.k = up_block_task(@, r, "WAIT_SEM")]
  BY DEF Wait, WithPI, LockIfPI, OnK, k
<1> HIDE DEF g1
<1>6. g' = [g EXCEPT !.k = up_block_task(k, r, "WAIT_SEM")]
  BY <1>4, <1>5 DEF k
<1>7. KMoves(r) /\ k'.state[r] = "WAIT_SEM"
  <2>1. "WAIT_SEM" \in BlockedStates
    BY DEF BlockedStates, WaitStates
  <2> QED
    BY <1>6, <2>1, BlockMoves
<1> QED
  BY <1>7 DEF Wait, WaitStep

\* The end of sem_wait().
LEMMA ReturnEffect ==
  ASSUME IInv, ~PriorityInheritance, NEW r \in Task, WaitReturns(r)
  PROVE  ReturnStep(r)
<1> r = Running(k) /\ pc[r].at = "wait"
  BY DEF WaitReturns, Runs
<1>2. k.state[r] # "WAIT_SEM"
  <2>1. k.state[r] = "RUNNING" /\ "RUNNING" # "WAIT_SEM"
    BY KFacts
  <2> QED
    BY <2>1
<1>3. r \in User
  <2>1. AtUser.at = "user" /\ "user" # "wait"
    BY SMT DEF AtUser
  <2>2. r = Idle => pc[r] = AtUser
    BY DEF IInv, TaskInv
  <2> QED
    BY <2>1, <2>2 DEF User
<1>4. g' = g
  BY DEF WaitReturns, UnlockIfPI, UnlockIf, WithPI
<1> QED
  BY <1>2, <1>3, <1>4 DEF WaitReturns, ReturnStep

\* sem_post(), by a task or an interrupt handler.
LEMMA PostEffect ==
  ASSUME IInv, NEW s \in Sem, PostPlain(s)
  PROVE  PostStep(s) \/ \E st \in User : HandStep(s, st)
<1> DEFINE st == Receiver(s)
<1> count[s] \in Int
  BY DEF IInv, TypeInv
<1>2. CASE count[s] >= 0
  <2>1. st = NULL
    BY <1>2, SMT DEF Receiver
  <2>2. g' = g /\ waitsem' = waitsem
    BY <2>1 DEF PostPlain, Woken, Hand
  <2> QED
    BY <1>2, <2>2 DEF PostPlain, Hand, PostStep
<1>3. CASE count[s] < 0
  <2>1. st = FirstWaiter(s)
    BY <1>3, SMT DEF Receiver
  <2>2. Cardinality(Waiters(s)) > 0
    <3>1. Cardinality(Waiters(s)) = Pos(-count[s])
      BY DEF IInv, SemInv
    <3> QED
      BY <1>3, <3>1, SMT DEF Pos
  <2>3. \E u \in Task : Waiting(u, s)
    <3>1. Waiters(s) # {}
      BY <2>2, FS_EmptySet, SMT
    <3> QED
      BY <3>1 DEF Waiters, User
  <2> /\ st \in User /\ Waiting(st, s)
      /\ \A u \in Task : Waiting(u, s) => k.prio[u] <= k.prio[st]
    BY <2>1, <2>3, FirstWaiterFacts
  <2> st # NULL /\ st \in Task /\ k.state[st] \in BlockedStates
    BY HolderAssumption, WaiterFacts DEF User, Waiting
  <2>6. waitsem' = [waitsem EXCEPT ![st] = NULL]
    BY DEF PostPlain, Hand
  <2>7. g' = [g EXCEPT !.k = up_unblock_task(k, st)]
    BY DEF PostPlain, Woken, OnK, k
  <2> HIDE DEF st
  <2> KMoves(st) /\ k'.state[st] \notin BlockedStates
    BY <2>7, UnblockMoves
  <2>9. k'.state[st] # "WAIT_SEM"
    BY DEF BlockedStates, WaitStates
  <2>10. HandStep(s, st)
    BY <1>3, <2>6, <2>9 DEF PostPlain, Hand, HandStep
  <2> QED
    BY <2>10
<1> QED
  BY <1>2, <1>3, SMT

\* sem_waitirq() by an interrupt handler.
LEMMA WaitIrqEffect ==
  ASSUME IInv, ~PriorityInheritance, NEW t \in User, NEW err, WaitIrq(t, err),
         err = "EINTR" \/ (err = "ETIMEDOUT" /\ t \in timer), timer' \subseteq timer
  PROVE  EndStep(t, waitsem[t], err)
<1> DEFINE s == waitsem[t]
<1> k.state[t] = "WAIT_SEM" /\ t \in Task
  BY DEF WaitIrq, User
<1> Waiting(t, s) /\ k.state[t] \in BlockedStates
  BY WaiterFacts
<1> WaitIrqEnds(g, t, s, err, FALSE) /\ pc' = pc
  BY DEF WaitIrq, sem_canceled, WithPI
<1>4. g' = [g EXCEPT !.k = up_unblock_task(k, t)]
  BY DEF WaitIrqEnds, OnK, UnlockIf, k
<1> KMoves(t) /\ k'.state[t] \notin BlockedStates
  BY <1>4, UnblockMoves
<1>6. k'.state[t] # "WAIT_SEM"
  BY DEF BlockedStates, WaitStates
<1> QED
  BY <1>6 DEF WaitIrqEnds, EndStep

\* kill() by a task: pre-emption is disabled up to the end of sem_waitirq().
LEMMA KillEffect ==
  ASSUME IInv, ~PriorityInheritance, NEW r \in Task, NEW t \in User, Kill(r, t)
  PROVE  EndStep(t, waitsem[t], "EINTR")
<1> DEFINE s == waitsem[t]
           hs == << >>
           i == SelectInSeq(hs, LAMBDA h : h = r)
           n == IF i = 0 THEN Len(hs) ELSE i
           g1 == [g EXCEPT !.k = sched_lock(k)]
           k1 == sched_lock(k)
<1> k.state[t] = "WAIT_SEM" /\ t \in Task /\ Calls(r)
  BY DEF Kill, User
<1> Waiting(t, s) /\ k.state[t] \in BlockedStates
  BY WaiterFacts
<1>3. r = Running(k)
  BY CallerFacts
<1>4. SameLists(k, k1) /\ KInv(k1)
  <2>1. k.lock[Running(k)] < MAX_LOCK_COUNT
    BY KFacts, LockAssumption, SMT
  <2> QED
    BY <2>1, KFacts, LockInv
<1> Running(k1) = r /\ k1.state = k.state /\ k1 \in Kernel
  BY <1>3, <1>4, KFacts, SameListsInv DEF SameLists
<1> g1.k = k1
  BY KFacts, SMT DEF GRecord
<1>7. i = 0
  <2>1. {j \in 1..Len(hs) : hs[j] = r} = {}
    BY SMT
  <2> QED
    BY <2>1 DEF SelectInSeq
<1>8. n = 0
  BY <1>7, SMT
<1> /\ KillOwn(sem_canceled(OnK(g, sched_lock), SubSeq(hs, 1, n - 1), t), r, t, s, hs, n)
    /\ timer' = timer
  BY DEF Kill
<1>10. KillOwn(g1, r, t, s, hs, n)
  BY DEF sem_canceled, WithPI, OnK, k
<1> HIDE DEF n, hs, i, g1
<1>11. KillRest(g1, Reprioritizes(g1, r), r, t, s, SubSeq(hs, n + 1, Len(hs)))
  BY <1>8, <1>10 DEF KillOwn
<1> WaitIrqEnds(g1, t, s, "EINTR", TRUE) /\ pc' = pc
  BY <1>11 DEF KillRest, sem_canceled, WithPI
<1> DEFINE k2 == up_unblock_task(k1, t)
           g2 == [g1 EXCEPT !.k = k2]
<1>13. g' = [g2 EXCEPT !.k = sched_unlock(@)]
  BY DEF WaitIrqEnds, OnK, UnlockIf
<1> HIDE DEF k1
<1>14. g' = [g EXCEPT !.k = sched_unlock(up_unblock_task(k1, t))]
  <2> g2 = [g EXCEPT !.k = k2]
    BY KFacts, SetKTwice DEF g1, k1
  <2>2. g2.k = k2
    BY KFacts DEF GRecord
  <2>3. [g2 EXCEPT !.k = sched_unlock(k2)] = [g EXCEPT !.k = sched_unlock(k2)]
    BY KFacts, SetKTwice
  <2> HIDE DEF g2, k2
  <2>4. g' = [g EXCEPT !.k = sched_unlock(k2)]
    BY <1>13, <2>2, <2>3
  <2> QED
    BY <2>4 DEF k2
<1> KMoves(t) /\ k'.state[t] \notin BlockedStates
  BY <1>14, KillMoves DEF k1
<1>16. k'.state[t] # "WAIT_SEM"
  BY DEF BlockedStates, WaitStates
<1>17. timer' \subseteq timer
  OBVIOUS
<1> QED
  BY <1>16, <1>17 DEF WaitIrqEnds, EndStep

\* The watchdog of sem_timedwait() ends the wait, or is late.
LEMMA TimeoutEffect ==
  ASSUME IInv, ~PriorityInheritance, NEW t \in User, Timeout(t)
  PROVE  EndStep(t, waitsem[t], "ETIMEDOUT") \/ QuietStep(t)
<1> t \in timer /\ timer' = timer \ {t} /\ timer' \subseteq timer
  BY DEF Timeout
<1>2. CASE WaitIrq(t, "ETIMEDOUT")
  BY <1>2, WaitIrqEffect
<1>3. CASE ~WaitIrq(t, "ETIMEDOUT")
  <2> k.state[t] # "WAIT_SEM" /\ UNCHANGED <<g, count, waitsem, errno, pc, net, cut>>
    BY <1>3 DEF Timeout
  <2> k' = k /\ g' = g
    BY DEF k
  <2>3. KMoves(t)
    BY KFacts DEF KMoves
  <2> QED
    BY <2>3 DEF QuietStep
<1> QED
  BY <1>2, <1>3

\* A task waits for something else.
LEMMA SleepEffect ==
  ASSUME IInv, NEW r \in Task, Sleep(r)
  PROVE  QuietStep(r)
<1> r \in User /\ r = Running(k) /\ k.state[r] # "WAIT_SEM"
  BY CallerFacts DEF Sleep
<1>2. g' = [g EXCEPT !.k = up_block_task(k, r, "WAIT_SIG")]
  BY DEF Sleep, OnK, k
<1> "WAIT_SIG" \in BlockedStates /\ "WAIT_SIG" # "WAIT_SEM"
  BY DEF BlockedStates, WaitStates
<1>4. KMoves(r) /\ k'.state[r] = "WAIT_SIG"
  BY <1>2, BlockMoves
<1> QED
  BY <1>4 DEF QuietStep, Sleep

\* That wait ends.
LEMMA WakeupEffect ==
  ASSUME IInv, NEW t \in User, Wakeup(t)
  PROVE  QuietStep(t)
<1> t \in Task /\ k.state[t] = "WAIT_SIG"
  BY DEF Wakeup, User
<1>2. g' = [g EXCEPT !.k = up_unblock_task(k, t)]
  BY DEF Wakeup, OnK, k
<1> "WAIT_SIG" \in BlockedStates /\ "WAIT_SIG" # "WAIT_SEM" /\ "WAIT_SEM" \in BlockedStates
  BY DEF BlockedStates, WaitStates
<1>4. KMoves(t) /\ k'.state[t] \notin BlockedStates
  BY <1>2, UnblockMoves
<1> QED
  BY <1>4 DEF QuietStep, Wakeup

\* All the steps.
LEMMA NextEffect ==
  ASSUME IInv, ~PriorityInheritance, [Next]_vars
  PROVE  Effect
<1>1. CASE UNCHANGED vars
  <2> g' = g /\ k' = k /\ UNCHANGED <<count, waitsem, errno, timer, pc, net, cut>>
    BY <1>1 DEF vars, k
  <2>2. KMoves(NULL)
    BY KFacts DEF KMoves
  <2>3. QuietStep(NULL)
    BY <2>2, HolderAssumption DEF QuietStep
  <2> QED
    BY <2>3 DEF Effect
<1>2. ASSUME NEW r \in Task, WaitReturns(r) \/ Sleep(r)
      PROVE  Effect
  <2>1. CASE WaitReturns(r)
    <3> ReturnStep(r)
      BY <2>1, ReturnEffect
    <3>2. r \in User
      BY DEF ReturnStep
    <3> QED
      BY <3>2 DEF Effect
  <2>2. CASE Sleep(r)
    BY <2>2, SleepEffect DEF Effect
  <2> QED
    BY <1>2, <2>1, <2>2
<1>3. ASSUME NEW r \in Task, PostReturns(r) \/ KillGoesOn(r)
      PROVE  FALSE
  <2>1. pc[r].at = "user" \/ pc[r].at = "wait"
    BY SMT DEF IInv, TaskInv, AtUser
  <2>2. pc[r].at = "post" \/ pc[r].at = "signal"
    BY <1>3 DEF PostReturns, KillGoesOn
  <2> QED
    BY <2>1, <2>2
<1>4. ASSUME NEW r \in Task, NEW s \in Sem, NEW b \in BOOLEAN, Take(r, s, b) \/ Wait(r, s, b)
      PROVE  Effect
  <2>1. CASE Take(r, s, b)
    <3> TakeStep(r, s)
      BY <2>1, TakeEffect
    <3>2. r \in User
      BY DEF TakeStep
    <3> QED
      BY <3>2 DEF Effect
  <2>2. CASE Wait(r, s, b)
    <3> WaitStep(r, s, b)
      BY <2>2, WaitEffect
    <3>2. r \in User
      BY DEF WaitStep
    <3> QED
      BY <3>2 DEF Effect
  <2> QED
    BY <1>4, <2>1, <2>2
<1>5. ASSUME NEW s \in Sem, PostPlain(s)
      PROVE  Effect
  BY <1>5, PostEffect DEF Effect
<1>6. ASSUME NEW r \in Task, NEW t \in User, Kill(r, t)
      PROVE  Effect
  <2>1. waitsem[t] \in Sem
    BY <1>6, WaiterFacts DEF Kill, User
  <2> QED
    BY <1>6, <2>1, KillEffect DEF Effect
<1>7. ASSUME NEW t \in User, Timeout(t) \/ SignalIrq(t) \/ Wakeup(t)
      PROVE  Effect
  <2>1. ASSUME NEW err \in {"EINTR", "ETIMEDOUT"}, EndStep(t, waitsem[t], err)
        PROVE  Effect
    <3>1. waitsem[t] \in Sem
      BY <2>1, WaiterFacts DEF EndStep, Waiting, User
    <3> QED
      BY <2>1, <3>1 DEF Effect
  <2>2. ASSUME QuietStep(t)
        PROVE  Effect
    BY <2>2 DEF Effect, User
  <2>3. CASE Timeout(t)
    BY <2>1, <2>2, <2>3, TimeoutEffect
  <2>4. CASE SignalIrq(t)
    <3>1. WaitIrq(t, "EINTR") /\ timer' \subseteq timer
      BY <2>4 DEF SignalIrq
    <3> QED
      BY <2>1, <3>1, WaitIrqEffect
  <2>5. CASE Wakeup(t)
    BY <2>2, <2>5, WakeupEffect
  <2> QED
    BY <1>7, <2>3, <2>4, <2>5
<1>8. CASE Next
  <2>1. CASE \E r \in Task : WaitReturns(r) \/ PostReturns(r) \/ KillGoesOn(r) \/ Sleep(r)
    BY <1>2, <1>3, <2>1
  <2>2. CASE \E r \in Task, s \in Sem : \E b \in BOOLEAN : Take(r, s, b) \/ Wait(r, s, b)
    BY <1>4, <2>2
  <2>3. CASE \E r \in Task, s \in Sem : Post(r, s) \/ PostPI(r, s)
    BY <1>5, <2>3 DEF Post, PostPI
  <2>4. CASE \E r \in Task, t \in User : Kill(r, t)
    BY <1>6, <2>4
  <2>5. CASE \E s \in Sem : PostIrq(s)
    BY <1>5, <2>5 DEF PostIrq
  <2>6. CASE \E t \in User : Timeout(t) \/ SignalIrq(t) \/ Wakeup(t)
    BY <1>7, <2>6
  <2> QED
    BY <1>8, <2>1, <2>2, <2>3, <2>4, <2>5, <2>6 DEF Next
<1> QED
  BY <1>1, <1>8

-----------------------------------------------------------------------------
(* The effects keep the invariant.                                         *)

\* Nothing that the invariant says of u changes.
Kept(u) ==
  /\ pc'[u] = pc[u] /\ waitsem'[u] = waitsem[u] /\ errno'[u] = errno[u]
  /\ u \in timer' => u \in timer
  /\ k'.state[u] = "WAIT_SEM" <=> k.state[u] = "WAIT_SEM"

\* A task that keeps all that, keeps its place.
LEMMA KeptTask ==
  ASSUME NEW u \in Task, Kept(u)
  PROVE  /\ TaskInv(u) => TaskInv(u)'
         /\ \A s : (u \in Waiters(s)' <=> u \in Waiters(s)) /\ (u \in Granted(s)' <=> u \in Granted(s))
<1>1. TaskInv(u) => TaskInv(u)'
  BY DEF Kept, TaskInv
<1>2. \A s : Waiting(u, s)' <=> Waiting(u, s)
  BY DEF Kept, Waiting
<1> QED
  BY <1>1, <1>2 DEF Kept, Waiters, Granted

\* When only t moves, the sets of the waiters change by t at most.
LEMMA OneMoves ==
  ASSUME NEW t, \A u \in Task \ {t} : Kept(u), NEW s
  PROVE  /\ Cardinality(Waiters(s)) \in Nat /\ Cardinality(Granted(s)) \in Nat
         /\ Cardinality(Waiters(s)') = Cardinality(Waiters(s)) + Delta(Waiters(s), Waiters(s)', t)
         /\ Cardinality(Granted(s)') = Cardinality(Granted(s)) + Delta(Granted(s), Granted(s)', t)
<1> DEFINE A == Waiters(s)
           B == A'
           C == Granted(s)
           D == C'
<1>1. \A u : u # t => (u \in B <=> u \in A)
  BY KeptTask DEF Waiters, User
<1>2. \A u : u # t => (u \in D <=> u \in C)
  BY KeptTask DEF Granted, User
<1> IsFiniteSet(A) /\ IsFiniteSet(C)
  BY WaitersFinite
<1> HIDE DEF A, C
<1>4. Cardinality(A) \in Nat /\ Cardinality(B) = Cardinality(A) + Delta(A, B, t)
  BY <1>1, CardMoves
<1>5. Cardinality(C) \in Nat /\ Cardinality(D) = Cardinality(C) + Delta(C, D, t)
  BY <1>2, CardMoves
<1> QED
  BY <1>4, <1>5 DEF A, C

\* What is granted follows what net counts beyond the count.
Follows(n, m, a, b, v, d) ==
  /\ n \in Int /\ m \in Int /\ a \in Int /\ b \in Int /\ v \in Int /\ d \in Int
  /\ n - m = a - b + d /\ m = b + v

\* The sum that n then is.
LEMMA NetSum ==
  ASSUME NEW n, NEW m, NEW a, NEW b, NEW v, NEW d, Follows(n, m, a, b, v, d)
  PROVE  n = a + (v + d)
BY SMTT(20) DEF Follows

\* The counts follow the waiters.
LEMMA SemMoves ==
  ASSUME IInv, NEW t, \A u \in Task \ {t} : Kept(u), NEW x \in Sem,
         NEW c \in Int, NEW n \in Int, count'[x] = c, net'[x] = n,
         Pos(-c) = Pos(-count[x]) + Delta(Waiters(x), Waiters(x)', t),
         n - net[x] = Pos(c) - Pos(count[x]) + Delta(Granted(x), Granted(x)', t)
  PROVE  SemInv(x)'
<1> DEFINE w == Cardinality(Waiters(x))
           v == Cardinality(Granted(x))
           dw == Delta(Waiters(x), Waiters(x)', t)
           dv == Delta(Granted(x), Granted(x)', t)
<1> w \in Nat /\ v \in Nat /\ Cardinality(Waiters(x)') = w + dw /\ Cardinality(Granted(x)') = v + dv
  BY OneMoves
<1> w = Pos(-count[x]) /\ net[x] = Pos(count[x]) + v
  BY DEF IInv, SemInv
<1> count[x] \in Int /\ net[x] \in Int
  BY DEF IInv, TypeInv
<1>4. dw \in Int /\ dv \in Int
  BY SMT DEF Delta
<1> Pos(c) \in Int /\ Pos(count[x]) \in Int /\ n - net[x] = Pos(c) - Pos(count[x]) + dv
  BY SMT DEF Pos
<1>6. Pos(-c) = w + dw
  OBVIOUS
<1> HIDE DEF w, v, dw, dv
<1>7. n = Pos(c) + (v + dv)
  <2>1. v \in Int
    BY SMT
  <2>2. n \in Int /\ net[x] \in Int /\ Pos(c) \in Int /\ Pos(count[x]) \in Int /\ v \in Int /\ dv \in Int
    BY <1>4, <2>1
  <2>3. n - net[x] = Pos(c) - Pos(count[x]) + dv
    OBVIOUS
  <2>4. net[x] = Pos(count[x]) + v
    OBVIOUS
  <2>5. Follows(n, net[x], Pos(c), Pos(count[x]), v, dv)
    BY <2>2, <2>3, <2>4 DEF Follows
  <2> QED
    BY <2>5, NetSum, SMTT(20)
<1> QED
  BY <1>6, <1>7 DEF SemInv

\* Somebody waits only for a semaphore without a count.
LEMMA WaiterCount ==
  ASSUME IInv, NEW t \in User, NEW s \in Sem, Waiting(t, s)
  PROVE  count[s] < 0
<1>1. t \in Waiters(s)
  BY DEF Waiters
<1>2. Cardinality(Waiters(s)) # 0
  BY <1>1, WaitersFinite, FS_EmptySet
<1>3. Cardinality(Waiters(s)) = Pos(-count[s]) /\ count[s] \in Int
  BY DEF IInv, SemInv, TypeInv
<1> QED
  BY <1>2, <1>3, SMT DEF Pos

\* The invariant, when only t moves.
LEMMA Assemble ==
  ASSUME IInv, NEW t, \A u \in Task \ {t} : Kept(u), t \in Task => TaskInv(t)',
         TypeInv', KInv(k'), k'.lock = [u \in Task |-> 0], \A x \in Sem : SemInv(x)'
  PROVE  IInv'
<1>1. ASSUME NEW u \in Task
      PROVE  TaskInv(u)'
  BY KeptTask DEF IInv
<1> QED
  BY <1>1 DEF IInv

\* r takes a count.
LEMMA TakeKeeps ==
  ASSUME IInv, NEW r \in User, NEW s \in Sem, TakeStep(r, s)
  PROVE  IInv'
<1> r \in Task /\ k.state[r] # "WAIT_SEM" /\ pc[r] = AtUser /\ g' = g /\ k' = k /\ TaskInv(r)
  BY DEF TakeStep, User, k, IInv
<1>2. TypeInv'
  BY SMT DEF IInv, TypeInv, TakeStep, User
<1>3. ASSUME NEW u \in Task \ {r}
      PROVE  Kept(u)
  BY SMT DEF IInv, TypeInv, TakeStep, Kept
<1> waitsem'[r] = NULL /\ errno'[r] = "OK" /\ pc' = pc /\ timer' = timer
  BY DEF IInv, TypeInv, TakeStep
<1>5. TaskInv(r)'
  BY DEF TaskInv
<1>6. ASSUME NEW x \in Sem
      PROVE  SemInv(x)'
  <2>1. /\ r \notin Waiters(x) /\ r \notin Waiters(x)'
        /\ r \notin Granted(x) /\ r \notin Granted(x)'
    <3>1. AtUser.at # "wait"
      BY SMT DEF AtUser
    <3> QED
      BY <3>1 DEF Waiters, Granted, Waiting
  <2>2. /\ count[x] \in Int /\ net[x] \in Int
        /\ count'[x] = IF x = s THEN count[x] - 1 ELSE count[x]
        /\ net'[x] = IF x = s THEN net[x] - 1 ELSE net[x]
        /\ x = s => count[x] > 0
    BY DEF IInv, TypeInv, TakeStep
  <2>3. Delta(Waiters(x), Waiters(x)', r) = 0 /\ Delta(Granted(x), Granted(x)', r) = 0
    BY <2>1 DEF Delta
  <2> DEFINE c == count'[x]
             n == net'[x]
  <2>4. c \in Int /\ n \in Int /\ Pos(-c) = Pos(-count[x]) + 0 /\ n - net[x] = Pos(c) - Pos(count[x]) + 0
    BY <2>2, SMT DEF Pos
  <2> QED
    BY <1>3, <2>3, <2>4, SemMoves
<1> QED
  BY <1>2, <1>3, <1>5, <1>6, KFacts, Assemble

\* r waits.
LEMMA WaitKeeps ==
  ASSUME IInv, NEW r \in User, NEW s \in Sem, NEW timed \in BOOLEAN, WaitStep(r, s, timed)
  PROVE  IInv'
<1> r \in Task /\ r # Idle /\ k.state[r] # "WAIT_SEM" /\ pc[r] = AtUser /\ TaskInv(r) /\ KMoves(r)
  BY DEF WaitStep, User, IInv
<1>2. TypeInv'
  <2>1. g' \in GRecord
    BY DEF KMoves
  <2>2. pc' = [u \in Task |-> pc'[u]]
    BY DEF IInv, TypeInv, WaitStep
  <2>3. count' \in [Sem -> Int] /\ timer' \subseteq User
    BY SMT DEF IInv, TypeInv, WaitStep
  <2> QED
    BY <2>1, <2>2, <2>3 DEF IInv, TypeInv, WaitStep, User
<1>3. ASSUME NEW u \in Task \ {r}
      PROVE  Kept(u)
  <2>1. k'.state[u] = "WAIT_SEM" <=> k.state[u] = "WAIT_SEM"
    BY DEF KMoves
  <2> QED
    BY <2>1, SMT DEF IInv, TypeInv, WaitStep, Kept
<1> /\ waitsem'[r] = s /\ errno'[r] = "OK" /\ k'.state[r] = "WAIT_SEM"
    /\ pc'[r] = [at |-> "wait", sem |-> s, timed |-> timed]
    /\ r \in timer' => timed \/ r \in timer
  BY DEF IInv, TypeInv, WaitStep
<1> pc'[r].at = "wait" /\ pc'[r].sem = s /\ pc'[r].timed = timed
  BY SMT
<1> r \notin timer /\ AtUser.at # "wait"
  <2>1. AtUser.at # "wait"
    BY SMT DEF AtUser
  <2> QED
    BY <2>1 DEF TaskInv
<1>7. TaskInv(r)'
  <2>1. "OK" # "ETIMEDOUT"
    OBVIOUS
  <2> QED
    BY <2>1 DEF TaskInv
<1>8. ASSUME NEW x \in Sem
      PROVE  SemInv(x)'
  <2>1. /\ r \notin Waiters(x) /\ r \notin Granted(x) /\ r \notin Granted(x)'
        /\ r \in Waiters(x)' <=> x = s
    BY DEF Waiters, Granted, Waiting
  <2>2. /\ count[x] \in Int /\ net[x] \in Int
        /\ count'[x] = IF x = s THEN count[x] - 1 ELSE count[x]
        /\ net'[x] = net[x]
        /\ x = s => count[x] <= 0
    BY DEF IInv, TypeInv, WaitStep
  <2>3. /\ Delta(Waiters(x), Waiters(x)', r) = IF x = s THEN 1 ELSE 0
        /\ Delta(Granted(x), Granted(x)', r) = 0
    BY <2>1 DEF Delta
  <2> DEFINE c == count'[x]
             n == net'[x]
  <2>4. /\ c \in Int /\ n \in Int
        /\ Pos(-c) = Pos(-count[x]) + (IF x = s THEN 1 ELSE 0)
        /\ n - net[x] = Pos(c) - Pos(count[x]) + 0
    BY <2>2, SMT DEF Pos
  <2> QED
    BY <1>3, <2>3, <2>4, SemMoves
<1> QED
  BY <1>2, <1>3, <1>7, <1>8, Assemble DEF KMoves

\* The wait of r returns.
LEMMA ReturnKeeps ==
  ASSUME IInv, NEW r \in User, ReturnStep(r)
  PROVE  IInv'
<1> DEFINE got == errno[r] = "OK"
<1>1. r \in Task /\ r # Idle /\ k.state[r] # "WAIT_SEM" /\ pc[r].at = "wait" /\ g' = g /\ k' = k /\ TaskInv(r)
  BY DEF ReturnStep, User, k, IInv
<1>2. PICK p : p = pc[r].sem
  OBVIOUS
<1>3. p \in Sem /\ AtUser.at # "wait"
  <2>1. AtUser.at # "wait"
    BY SMT DEF AtUser
  <2> QED
    BY <1>1, <1>2, <2>1 DEF TaskInv
<1>4. net' = IF got THEN [net EXCEPT ![p] = @ - 1] ELSE net
  BY <1>2 DEF ReturnStep
<1>5. TypeInv'
  BY <1>3, <1>4, SMT DEF IInv, TypeInv, ReturnStep, User
<1>6. ASSUME NEW u \in Task \ {r}
      PROVE  Kept(u)
  BY <1>1, SMT DEF IInv, TypeInv, ReturnStep, Kept
<1>7. pc'[r] = AtUser /\ r \notin timer' /\ waitsem' = waitsem
  BY <1>1 DEF IInv, TypeInv, ReturnStep
<1>8. TaskInv(r)'
  BY <1>1, <1>3, <1>7 DEF TaskInv
<1>9. ASSUME NEW x \in Sem
      PROVE  SemInv(x)'
  <2>1. /\ r \notin Waiters(x) /\ r \notin Waiters(x)' /\ r \notin Granted(x)'
        /\ r \in Granted(x) <=> x = p /\ got
    BY <1>1, <1>2, <1>3, <1>7 DEF Waiters, Granted, Waiting
  <2>2. /\ count[x] \in Int /\ net[x] \in Int /\ count'[x] = count[x]
        /\ net'[x] = IF x = p /\ got THEN net[x] - 1 ELSE net[x]
    BY <1>3, <1>4 DEF IInv, TypeInv, ReturnStep
  <2>3. /\ Delta(Waiters(x), Waiters(x)', r) = 0
        /\ Delta(Granted(x), Granted(x)', r) = IF x = p /\ got THEN -1 ELSE 0
    BY <2>1 DEF Delta
  <2> DEFINE c == count'[x]
             n == net'[x]
  <2>4. /\ c \in Int /\ n \in Int /\ Pos(-c) = Pos(-count[x]) + 0
        /\ n - net[x] = Pos(c) - Pos(count[x]) + (IF x = p /\ got THEN -1 ELSE 0)
    BY <2>2, SMT DEF Pos
  <2> QED
    BY <1>6, <2>3, <2>4, SemMoves
<1> QED
  BY <1>1, <1>5, <1>6, <1>8, <1>9, KFacts, Assemble

\* A post leaves a count.
LEMMA PostKeeps ==
  ASSUME IInv, NEW s \in Sem, PostStep(s)
  PROVE  IInv'
<1> g' = g /\ k' = k
  BY DEF PostStep, k
<1>2. TypeInv'
  BY SMT DEF IInv, TypeInv, PostStep
<1> \A u \in Task : Kept(u)
  BY DEF PostStep, Kept
<1> NULL \notin Task
  BY HolderAssumption
<1>5. ASSUME NEW x \in Sem
      PROVE  SemInv(x)'
  <2>1. /\ count[x] \in Int /\ net[x] \in Int
        /\ count'[x] = IF x = s THEN count[x] + 1 ELSE count[x]
        /\ net'[x] = IF x = s THEN net[x] + 1 ELSE net[x]
        /\ x = s => count[x] >= 0
    BY DEF IInv, TypeInv, PostStep
  <2>2. Delta(Waiters(x), Waiters(x)', NULL) = 0 /\ Delta(Granted(x), Granted(x)', NULL) = 0
    BY DEF Delta, Waiters, Granted, User
  <2> DEFINE c == count'[x]
             n == net'[x]
  <2>3. c \in Int /\ n \in Int /\ Pos(-c) = Pos(-count[x]) + 0 /\ n - net[x] = Pos(c) - Pos(count[x]) + 0
    BY <2>1, SMT DEF Pos
  <2> QED
    BY <2>2, <2>3, SemMoves
<1> QED
  BY <1>2, <1>5, KFacts, Assemble

\* st no longer waits for s, and its wait has succeeded or not.
LEMMA WaitEnds ==
  ASSUME IInv, NEW st \in User, NEW s \in Sem, Waiting(st, s), NEW d \in {0, 1},
         KMoves(st), k'.state[st] # "WAIT_SEM",
         count' = [count EXCEPT ![s] = @ + 1], net' = [net EXCEPT ![s] = @ + d],
         waitsem' = [waitsem EXCEPT ![st] = NULL], pc' = pc, cut' = cut,
         timer' \subseteq timer, errno' \in [Task -> {"OK", "EINTR", "ETIMEDOUT"}],
         \A u \in Task \ {st} : errno'[u] = errno[u],
         errno'[st] = "ETIMEDOUT" => st \in timer,
         errno'[st] = "OK" <=> d = 1
  PROVE  IInv'
<1> st \in Task /\ st # Idle /\ k.state[st] = "WAIT_SEM" /\ waitsem[st] = s /\ TaskInv(st)
  BY DEF User, IInv, Waiting
<1> pc[st].at = "wait" /\ pc[st].sem = s
  BY WaiterFacts
<1>3. TypeInv'
  <2>1. g' \in GRecord
    BY DEF KMoves
  <2>2. count' \in [Sem -> Int] /\ net' \in [Sem -> Int] /\ timer' \subseteq User
    BY SMT DEF IInv, TypeInv
  <2>3. waitsem' \in [Task -> Sem \cup {NULL}]
    BY DEF IInv, TypeInv
  <2> QED
    BY <2>1, <2>2, <2>3 DEF IInv, TypeInv
<1>4. ASSUME NEW u \in Task \ {st}
      PROVE  Kept(u)
  <2>1. k'.state[u] = "WAIT_SEM" <=> k.state[u] = "WAIT_SEM"
    BY DEF KMoves
  <2>2. waitsem'[u] = waitsem[u]
    BY DEF IInv, TypeInv
  <2> QED
    BY <2>1, <2>2 DEF Kept
<1>5. waitsem'[st] = NULL
  BY DEF IInv, TypeInv
<1>6. TaskInv(st)'
  BY <1>5 DEF TaskInv
<1>7. ASSUME NEW x \in Sem
      PROVE  SemInv(x)'
  <2>1. /\ st \notin Waiters(x)' /\ st \notin Granted(x)
        /\ st \in Waiters(x) <=> x = s
        /\ st \in Granted(x)' <=> x = s /\ d = 1
    BY DEF Waiters, Granted, Waiting
  <2>2. /\ count[x] \in Int /\ net[x] \in Int
        /\ count'[x] = IF x = s THEN count[x] + 1 ELSE count[x]
        /\ net'[x] = IF x = s THEN net[x] + d ELSE net[x]
    BY DEF IInv, TypeInv
  <2>3. x = s => count[x] < 0
    BY WaiterCount
  <2> DEFINE c == count'[x]
             n == net'[x]
             dw == IF x = s THEN -1 ELSE 0
             dv == IF x = s /\ d = 1 THEN 1 ELSE 0
  <2>4. Delta(Waiters(x), Waiters(x)', st) = dw /\ Delta(Granted(x), Granted(x)', st) = dv
    BY <2>1 DEF Delta
  <2>5. /\ c \in Int /\ n \in Int
        /\ Pos(-c) = Pos(-count[x]) + dw /\ n - net[x] = Pos(c) - Pos(count[x]) + dv
    BY <2>2, <2>3, SMT DEF Pos
  <2> HIDE DEF dw, dv, c, n
  <2>6. count'[x] = c /\ net'[x] = n
    BY DEF c, n
  <2> QED
    BY <1>4, <2>4, <2>5, <2>6, SemMoves
<1> QED
  BY <1>3, <1>4, <1>6, <1>7, Assemble DEF KMoves

\* A post hands its count to st.
LEMMA HandKeeps ==
  ASSUME IInv, NEW s \in Sem, NEW st \in User, HandStep(s, st)
  PROVE  IInv'
<1> errno' = errno /\ errno[st] = "OK"
  BY WaiterFacts DEF HandStep, Waiting, User
<1>2. errno' \in [Task -> {"OK", "EINTR", "ETIMEDOUT"}] /\ errno'[st] # "ETIMEDOUT"
  BY DEF IInv, TypeInv
<1>3. /\ Waiting(st, s) /\ KMoves(st) /\ k'.state[st] # "WAIT_SEM"
      /\ count' = [count EXCEPT ![s] = @ + 1] /\ net' = [net EXCEPT ![s] = @ + 1]
      /\ waitsem' = [waitsem EXCEPT ![st] = NULL] /\ pc' = pc /\ cut' = cut
      /\ timer' \subseteq timer
  BY DEF HandStep
<1>4. 1 \in {0, 1} /\ (errno'[st] = "OK" <=> 1 = 1) /\ \A u \in Task \ {st} : errno'[u] = errno[u]
  OBVIOUS
<1> QED
  BY <1>2, <1>3, <1>4, WaitEnds

\* The wait of t ends early.
LEMMA EndKeeps ==
  ASSUME IInv, NEW t \in User, NEW s \in Sem, NEW err \in {"EINTR", "ETIMEDOUT"}, EndStep(t, s, err)
  PROVE  IInv'
<1>0. errno \in [Task -> {"OK", "EINTR", "ETIMEDOUT"}] /\ errno' = [errno EXCEPT ![t] = err] /\ t \in Task
  BY DEF IInv, TypeInv, EndStep, User
<1> /\ errno' \in [Task -> {"OK", "EINTR", "ETIMEDOUT"}] /\ errno'[t] = err
    /\ \A u \in Task \ {t} : errno'[u] = errno[u]
  BY <1>0, SMT
<1>2. errno'[t] # "OK"
  OBVIOUS
<1>3. net' = [net EXCEPT ![s] = @ + 0]
  <2>1. net \in [Sem -> Int]
    BY DEF IInv, TypeInv
  <2> QED
    BY <2>1, SMT DEF EndStep
<1>4. err = "ETIMEDOUT" => t \in timer
  BY DEF EndStep
<1>5. /\ Waiting(t, s) /\ KMoves(t) /\ k'.state[t] # "WAIT_SEM"
      /\ count' = [count EXCEPT ![s] = @ + 1] /\ waitsem' = [waitsem EXCEPT ![t] = NULL]
      /\ pc' = pc /\ cut' = cut /\ timer' \subseteq timer
  BY DEF EndStep
<1>6. 0 \in {0, 1} /\ ~(0 = 1)
  BY SMT
<1> QED
  BY <1>2, <1>3, <1>4, <1>5, <1>6, WaitEnds

\* Nothing of it concerns the semaphores.
LEMMA QuietKeeps ==
  ASSUME IInv, NEW t, QuietStep(t)
  PROVE  IInv'
<1> \A u \in Task : Kept(u)
  BY DEF QuietStep, KMoves, Kept
<1>2. TypeInv'
  BY DEF IInv, TypeInv, QuietStep, KMoves
<1> NULL \notin Task
  BY HolderAssumption
<1>4. ASSUME NEW x \in Sem
      PROVE  SemInv(x)'
  <2> count[x] \in Int /\ net[x] \in Int /\ count'[x] = count[x] /\ net'[x] = net[x]
    BY DEF IInv, TypeInv, QuietStep
  <2>2. Delta(Waiters(x), Waiters(x)', NULL) = 0 /\ Delta(Granted(x), Granted(x)', NULL) = 0
    BY DEF Delta, Waiters, Granted, User
  <2>3. /\ Pos(-count[x]) = Pos(-count[x]) + 0
        /\ net[x] - net[x] = Pos(count[x]) - Pos(count[x]) + 0
    BY SMT DEF Pos
  <2> QED
    BY <2>2, <2>3, SemMoves
<1> QED
  BY <1>2, <1>4, Assemble DEF QuietStep, KMoves

-----------------------------------------------------------------------------
(* The theorems.                                                           *)

\* All the tasks are ready to run, and nobody waits.
LEMMA InitInv ==
  ASSUME Init
  PROVE  IInv
<1>0. PICK p \in Priorities : \E kk \in AllReady(p) :
        g = [k |-> kk, base |-> kk.prio, reprios |-> [t \in Task |-> << >>],
             hlist |-> [s \in Sem |-> <<NoEntry>>], nfree |-> PREALLOCHOLDERS, overrun |-> FALSE]
  BY DEF Init
<1>1. PICK kk \in AllReady(p) :
        g = [k |-> kk, base |-> kk.prio, reprios |-> [t \in Task |-> << >>],
             hlist |-> [s \in Sem |-> <<NoEntry>>], nfree |-> PREALLOCHOLDERS, overrun |-> FALSE]
  BY <1>0
<1>2. p \in [Task \ {Idle} -> Nat \ {0}]
  BY SemAssumption, SMT DEF Priorities, User
<1> /\ KInv(kk) /\ kk.lock = [t \in Task |-> 0]
    /\ \A t \in Task : kk.state[t] \notin BlockedStates
  BY <1>2, AllReadyInv
<1>4. kk \in Kernel /\ kk.prio \in [Task -> Nat]
  BY ListsFacts, KernelFields DEF KInv
<1> g \in GRecord /\ k = kk
  BY <1>1, <1>4, HolderAssumption, SMT DEF GRecord, Entry, NoEntry, k
<1>6. TypeInv
  BY SemAssumption, SMT DEF TypeInv, Init, User
<1> \A t \in Task : k.state[t] # "WAIT_SEM"
  BY DEF BlockedStates, WaitStates
<1> \A t \in Task : pc[t] = AtUser /\ waitsem[t] = NULL /\ errno[t] = "OK" /\ t \notin timer
  BY DEF Init
<1> AtUser.at # "wait" /\ "OK" # "ETIMEDOUT"
  BY SMT DEF AtUser
<1>10. ASSUME NEW t \in Task
       PROVE  TaskInv(t)
  BY DEF TaskInv
<1>11. ASSUME NEW s \in Sem
       PROVE  SemInv(s)
  <2>1. Waiters(s) = {} /\ Granted(s) = {}
    BY DEF Waiters, Granted, Waiting, User
  <2>2. Cardinality(Waiters(s)) = 0 /\ Cardinality(Granted(s)) = 0
    BY <2>1, FS_EmptySet
  <2>3. count[s] = InitCount /\ net[s] = InitCount
    BY DEF Init
  <2> QED
    BY <2>2, <2>3, SemAssumption, SMT DEF SemInv, Pos
<1> QED
  BY <1>6, <1>10, <1>11 DEF IInv

\* Every step keeps the invariant.
LEMMA NextInv ==
  ASSUME ~PriorityInheritance, IInv, [Next]_vars
  PROVE  IInv'
<1>1. Effect
  BY NextEffect
<1> QED
  BY <1>1, TakeKeeps, WaitKeeps, ReturnKeeps, PostKeeps, HandKeeps, EndKeeps, QuietKeeps DEF Effect

\* The strengthening of the invariants below: of each task, where it is and
\* what its TCB says; of each semaphore, what its count says of the waiters.
THEOREM Invariance ==
  ASSUME ~PriorityInheritance
  PROVE  Spec => []IInv
<1>1. Init => IInv
  BY InitInv
<1>2. IInv /\ [Next]_vars => IInv'
  BY NextInv
<1> QED
  BY <1>1, <1>2, PTL DEF Spec

\* sem_wait(), sem_post() and sem_waitirq() keep the task lists well formed,
\* the head running and nobody pending, and no ASSERT or PANIC fires.
THEOREM ListsSurvive ==
  ASSUME ~PriorityInheritance
  PROVE  Spec => []SchedulerIntact
<1>1. IInv => SchedulerIntact
  BY DEF IInv, SchedulerIntact
<1> QED
  BY <1>1, Invariance, PTL

\* A negative semcount is the number of the waiting tasks, and nobody waits
\* for a semaphore that has a count.
THEOREM CountsAreWaiters ==
  ASSUME ~PriorityInheritance
  PROVE  Spec => []CountIsWaiters
<1>1. ASSUME IInv
      PROVE  CountIsWaiters
  <2>1. ASSUME NEW s \in Sem
        PROVE  Cardinality({t \in User : Waiting(t, s)}) = Max({0, -count[s]})
    <3>1. -count[s] \in Int
      BY <1>1, SMT DEF IInv, TypeInv
    <3>2. Cardinality(Waiters(s)) = Pos(-count[s])
      BY <1>1 DEF IInv, SemInv
    <3> QED
      BY <3>1, <3>2, MaxIsPos DEF Waiters
  <2> QED
    BY <2>1 DEF CountIsWaiters
<1>2. IInv => CountIsWaiters
  BY <1>1
<1> QED
  BY <1>2, Invariance, PTL

\* Every post is worth exactly one completed wait, whichever signals and
\* timeouts end waits at the same time.
THEOREM PostsAreKept ==
  ASSUME ~PriorityInheritance
  PROVE  Spec => []NoPostLost
<1>1. ASSUME IInv
      PROVE  NoPostLost
  <2>1. ASSUME NEW s \in Sem
        PROVE  net[s] = Max({0, count[s]}) + Cardinality(Granted(s))
    <3>1. count[s] \in Int
      BY <1>1 DEF IInv, TypeInv
    <3>2. net[s] = Pos(count[s]) + Cardinality(Granted(s))
      BY <1>1 DEF IInv, SemInv
    <3> QED
      BY <3>1, <3>2, MaxIsPos
  <2> QED
    BY <2>1 DEF NoPostLost, Granted
<1>2. IInv => NoPostLost
  BY <1>1
<1> QED
  BY <1>2, Invariance, PTL

\* A late watchdog ends no later wait: only timed waits return ETIMEDOUT.
THEOREM TimeoutsAreFresh ==
  ASSUME ~PriorityInheritance
  PROVE  Spec => []NoStaleTimeout
<1>1. IInv => NoStaleTimeout
  BY DEF IInv, TaskInv, NoStaleTimeout, User
<1> QED
  BY <1>1, Invariance, PTL

\* The count of a post goes to a waiter of the highest priority.
LEMMA BestStep ==
  ASSUME IInv, Effect, NEW s \in Sem, NEW t \in User,
         Waiting(t, s), k'.state[t] # "WAIT_SEM", errno'[t] = "OK"
  PROVE  \A u \in User : Waiting(u, s) => k.prio[u] <= k.prio[t]
<1> k.state[t] = "WAIT_SEM" /\ waitsem[t] = s /\ t \in Task
  BY DEF Waiting, User
<1> k' # k
  OBVIOUS
<1> \A r : KMoves(r) => r = t
  BY DEF KMoves
<1>4. ASSUME NEW r, NEW x, TakeStep(r, x)
      PROVE  FALSE
  BY <1>4 DEF TakeStep, k
<1>5. ASSUME NEW r, NEW x, NEW timed, WaitStep(r, x, timed)
      PROVE  FALSE
  BY <1>5 DEF WaitStep
<1>6. ASSUME NEW r, ReturnStep(r)
      PROVE  FALSE
  BY <1>6 DEF ReturnStep, k
<1>7. ASSUME NEW x, PostStep(x)
      PROVE  FALSE
  BY <1>7 DEF PostStep, k
<1>8. ASSUME NEW x \in Sem, NEW st \in User, HandStep(x, st)
      PROVE  \A u \in User : Waiting(u, s) => k.prio[u] <= k.prio[t]
  <2> st = t /\ Waiting(st, x)
    BY <1>8 DEF HandStep
  <2>2. x = s
    BY DEF Waiting
  <2> QED
    BY <1>8, <2>2 DEF HandStep, User
<1>9. ASSUME NEW w \in User, NEW x \in Sem, NEW err \in {"EINTR", "ETIMEDOUT"}, EndStep(w, x, err)
      PROVE  FALSE
  <2>1. w = t /\ errno' = [errno EXCEPT ![w] = err]
    BY <1>9 DEF EndStep
  <2>2. errno'[t] = err
    BY <2>1 DEF IInv, TypeInv
  <2> QED
    BY <2>2
<1>10. ASSUME NEW w, QuietStep(w)
       PROVE  FALSE
  BY <1>10 DEF QuietStep
<1> QED
  BY <1>4, <1>5, <1>6, <1>7, <1>8, <1>9, <1>10 DEF Effect

\* A post hands its count to a waiter of the highest priority of the moment.
THEOREM BestWaiterGetsCount ==
  ASSUME ~PriorityInheritance
  PROVE  Spec => BestWaiterFirst
<1> DEFINE A == \A s \in Sem, t \in User :
                  Waiting(t, s) /\ k'.state[t] # "WAIT_SEM" /\ errno'[t] = "OK"
                    => \A u \in User : Waiting(u, s) => k.prio[u] <= k.prio[t]
<1>1. IInv /\ [Next]_vars => A
  BY BestStep, NextEffect
<1>2. IInv /\ [Next]_vars => [A]_vars
  BY <1>1
<1>3. BestWaiterFirst <=> [][A]_vars
  BY DEF BestWaiterFirst
<1> HIDE DEF A
<1> QED
  BY <1>2, <1>3, Invariance, PTL DEF Spec

-----------------------------------------------------------------------------
(* The semaphores implement CountingSem.                                   *)

Sems == [s \in Sem |-> [cnt |-> Max({0, count[s]}), q |-> {t \in Task : Waiting(t, s)}]]
SemOf(s) == [cnt |-> Pos(count[s]), q |-> Waiters(s)]

\* The idle task never waits.
LEMMA SemsIs ==
  /\ IInv => Sems = [s \in Sem |-> SemOf(s)]
  /\ IInv' => Sems' = [s \in Sem |-> SemOf(s)']
<1> AtUser.at # "wait" /\ Idle \in Task
  BY TaskAssumption, SMT DEF AtUser
<1>1. ASSUME IInv, NEW s \in Sem
      PROVE  Max({0, count[s]}) = Pos(count[s]) /\ {t \in Task : Waiting(t, s)} = Waiters(s)
  <2>1. k.state[Idle] # "WAIT_SEM"
    BY <1>1 DEF IInv, TaskInv
  <2>2. count[s] \in Int
    BY <1>1 DEF IInv, TypeInv
  <2> QED
    BY <2>1, <2>2, MaxIsPos DEF Waiters, Waiting, User
<1>2. ASSUME IInv', NEW s \in Sem
      PROVE  Max({0, count'[s]}) = Pos(count'[s]) /\ {t \in Task : Waiting(t, s)'} = Waiters(s)'
  <2>1. k'.state[Idle] # "WAIT_SEM"
    BY <1>2 DEF IInv, TaskInv
  <2>2. count'[s] \in Int
    BY <1>2 DEF IInv, TypeInv
  <2> QED
    BY <2>1, <2>2, MaxIsPos DEF Waiters, Waiting, User
<1> QED
  BY <1>1, <1>2 DEF Sems, SemOf

\* The semaphore s is the only one that changes.
LEMMA SemsStep ==
  ASSUME IInv, IInv', NEW s \in Sem,
         \A x \in Sem \ {s} : count'[x] = count[x] /\ Waiters(x)' = Waiters(x)
  PROVE  Sems[s] = SemOf(s) /\ Sems' = [Sems EXCEPT ![s] = SemOf(s)']
<1>1. \A x \in Sem \ {s} : SemOf(x)' = SemOf(x)
  BY DEF SemOf
<1>2. Sems = [x \in Sem |-> SemOf(x)] /\ Sems' = [x \in Sem |-> SemOf(x)']
  BY SemsIs
<1> QED
  BY <1>1, <1>2

\* No semaphore changes.
LEMMA SemsStay ==
  ASSUME IInv, IInv', count' = count, \A x \in Sem : Waiters(x)' = Waiters(x)
  PROVE  Sems' = Sems
<1>1. \A x \in Sem : SemOf(x)' = SemOf(x)
  BY DEF SemOf
<1> QED
  BY <1>1, SemsIs

\* Who waits when t stops waiting for s.
LEMMA EndWaiters ==
  ASSUME IInv, NEW t \in User, NEW s \in Sem, Waiting(t, s), KMoves(t), k'.state[t] # "WAIT_SEM",
         waitsem' = [waitsem EXCEPT ![t] = NULL]
  PROVE  /\ Waiters(s)' = Waiters(s) \ {t} /\ t \in Waiters(s)
         /\ \A x \in Sem \ {s} : Waiters(x)' = Waiters(x)
<1>1. t \in Task /\ waitsem \in [Task -> Sem \cup {NULL}]
  BY DEF User, IInv, TypeInv
<1>2. ASSUME NEW u \in User, NEW x
      PROVE  Waiting(u, x)' <=> (u # t /\ Waiting(u, x))
  <2>1. CASE u = t
    BY <2>1 DEF Waiting
  <2>2. CASE u # t
    <3> u \in Task /\ waitsem'[u] = waitsem[u]
      BY <1>1, <2>2 DEF User
    <3>2. k'.state[u] = "WAIT_SEM" <=> k.state[u] = "WAIT_SEM"
      BY <2>2 DEF KMoves
    <3> QED
      BY <2>2, <3>2 DEF Waiting
  <2> QED
    BY <2>1, <2>2
<1> QED
  BY <1>2, SMTT(30) DEF Waiters, Waiting

\* r takes a count.
LEMMA TakeRefines ==
  ASSUME IInv, IInv', NEW r \in User, NEW s \in Sem, TakeStep(r, s)
  PROVE  /\ \A x \in Sem : r \notin Sems[x].q
         /\ Sems' = [Sems EXCEPT ![s] = Abstract!Waited(@, r)]
<1> k.state[r] # "WAIT_SEM" /\ k' = k /\ r \in Task
  BY DEF TakeStep, k, User
<1>2. ASSUME NEW u \in User, NEW x \in Sem
      PROVE  Waiting(u, x)' <=> Waiting(u, x)
  <2>1. u # r => waitsem'[u] = waitsem[u]
    BY DEF TakeStep, IInv, TypeInv, User
  <2> QED
    BY <2>1 DEF Waiting
<1> \A x \in Sem : Waiters(x)' = Waiters(x) /\ r \notin Waiters(x)
  BY <1>2 DEF Waiters, Waiting
<1> /\ count[s] \in Int /\ count[s] > 0 /\ count'[s] = count[s] - 1
    /\ \A x \in Sem \ {s} : count'[x] = count[x]
  BY DEF TakeStep, IInv, TypeInv
<1>5. Sems[s] = SemOf(s) /\ Sems' = [Sems EXCEPT ![s] = SemOf(s)']
  BY SemsStep
<1>6. SemOf(s)' = Abstract!Waited(SemOf(s), r)
  <2>1. Waiters(s)' = Waiters(s)
    OBVIOUS
  <2> QED
    BY <2>1, SMT DEF SemOf, Pos, Abstract!Waited, Abstract!Taken
<1>7. \A x \in Sem : Sems[x].q = Waiters(x)
  BY SemsIs, SMT DEF SemOf
<1> QED
  BY <1>5, <1>6, <1>7

\* r waits.
LEMMA WaitRefines ==
  ASSUME IInv, IInv', NEW r \in User, NEW s \in Sem, NEW timed, WaitStep(r, s, timed)
  PROVE  /\ \A x \in Sem : r \notin Sems[x].q
         /\ Sems' = [Sems EXCEPT ![s] = Abstract!Waited(@, r)]
<1>1. k.state[r] # "WAIT_SEM" /\ k'.state[r] = "WAIT_SEM" /\ KMoves(r) /\ r \in Task /\ waitsem'[r] = s
  BY DEF WaitStep, IInv, TypeInv, User
<1>2. ASSUME NEW u \in User, NEW x \in Sem
      PROVE  Waiting(u, x)' <=> Waiting(u, x) \/ (u = r /\ x = s)
  <2>1. CASE u = r
    BY <1>1, <2>1 DEF Waiting
  <2>2. CASE u # r
    <3>1. u \in Task /\ waitsem'[u] = waitsem[u]
      BY <2>2 DEF WaitStep, IInv, TypeInv, User
    <3>2. k'.state[u] = "WAIT_SEM" <=> k.state[u] = "WAIT_SEM"
      BY <1>1, <2>2, <3>1 DEF KMoves
    <3> QED
      BY <2>2, <3>1, <3>2 DEF Waiting
  <2> QED
    BY <2>1, <2>2
<1>3. /\ \A x \in Sem : r \notin Waiters(x)
      /\ \A x \in Sem \ {s} : Waiters(x)' = Waiters(x)
      /\ Waiters(s)' = Waiters(s) \cup {r}
  BY <1>1, <1>2 DEF Waiters, Waiting
<1>4. /\ count[s] \in Int /\ count[s] <= 0 /\ count'[s] = count[s] - 1
      /\ \A x \in Sem \ {s} : count'[x] = count[x]
  BY DEF WaitStep, IInv, TypeInv
<1>5. Sems[s] = SemOf(s) /\ Sems' = [Sems EXCEPT ![s] = SemOf(s)']
  BY <1>3, <1>4, SemsStep
<1>6. SemOf(s)' = Abstract!Waited(SemOf(s), r)
  <2>1. Waiters(s)' = Waiters(s) \cup {r}
    BY <1>3
  <2>2. SemOf(s) = [cnt |-> 0, q |-> Waiters(s)] /\ SemOf(s)' = [cnt |-> 0, q |-> Waiters(s) \cup {r}]
    <3>1. Pos(count[s]) = 0 /\ Pos(count'[s]) = 0
      BY <1>4, SMT DEF Pos
    <3> QED
      BY <2>1, <3>1 DEF SemOf
  <2>3. ~(0 > 0)
    BY SMT
  <2>4. /\ SemOf(s).cnt = 0 /\ SemOf(s).q = Waiters(s)
        /\ [SemOf(s) EXCEPT !.q = Waiters(s) \cup {r}] = [cnt |-> 0, q |-> Waiters(s) \cup {r}]
    BY <2>2, SMT
  <2> QED
    BY <2>2, <2>3, <2>4 DEF Abstract!Waited, Abstract!Queued
<1>7. \A x \in Sem : Sems[x].q = Waiters(x)
  BY SemsIs, SMT DEF SemOf
<1> QED
  BY <1>3, <1>5, <1>6, <1>7

\* A post leaves a count.
LEMMA PostRefines ==
  ASSUME IInv, IInv', NEW s \in Sem, PostStep(s)
  PROVE  \E y \in Abstract!Posted(Sems[s]) : Sems' = [Sems EXCEPT ![s] = y]
<1> \A x \in Sem : Waiters(x)' = Waiters(x)
  BY DEF PostStep, Waiters, Waiting, k
<1> /\ count[s] \in Int /\ count[s] >= 0 /\ count'[s] = count[s] + 1
    /\ \A x \in Sem \ {s} : count'[x] = count[x]
  BY DEF PostStep, IInv, TypeInv
<1>3. Sems[s] = SemOf(s) /\ Sems' = [Sems EXCEPT ![s] = SemOf(s)']
  BY SemsStep
<1>4. Waiters(s) = {}
  <2>1. Cardinality(Waiters(s)) = Pos(-count[s])
    BY DEF IInv, SemInv
  <2>2. Pos(-count[s]) = 0
    BY SMT DEF Pos
  <2> QED
    BY <2>1, <2>2, WaitersFinite, FS_EmptySet
<1>5. SemOf(s)' = [SemOf(s) EXCEPT !.cnt = @ + 1] /\ SemOf(s).q = {}
  <2>1. Waiters(s)' = Waiters(s)
    OBVIOUS
  <2>2. Pos(count'[s]) = Pos(count[s]) + 1
    BY SMT DEF Pos
  <2> /\ SemOf(s) = [cnt |-> Pos(count[s]), q |-> Waiters(s)]
      /\ SemOf(s)' = [cnt |-> Pos(count[s]) + 1, q |-> Waiters(s)]
    BY <2>1, <2>2 DEF SemOf
  <2>4. /\ SemOf(s).cnt = Pos(count[s]) /\ SemOf(s).q = Waiters(s)
        /\ [SemOf(s) EXCEPT !.cnt = Pos(count[s]) + 1] = [cnt |-> Pos(count[s]) + 1, q |-> Waiters(s)]
    BY SMT
  <2> QED
    BY <1>4, <2>4
<1>6. SemOf(s)' \in Abstract!Posted(SemOf(s))
  BY <1>5 DEF Abstract!Posted
<1> QED
  BY <1>3, <1>6

\* A post frees one waiter.
LEMMA HandRefines ==
  ASSUME IInv, IInv', NEW s \in Sem, NEW st \in User, HandStep(s, st)
  PROVE  \E y \in Abstract!Posted(Sems[s]) : Sems' = [Sems EXCEPT ![s] = y]
<1>1. /\ Waiters(s)' = Waiters(s) \ {st} /\ st \in Waiters(s)
      /\ \A x \in Sem \ {s} : Waiters(x)' = Waiters(x)
  BY EndWaiters DEF HandStep
<1>2. /\ count[s] \in Int /\ count[s] < 0 /\ count'[s] = count[s] + 1
      /\ \A x \in Sem \ {s} : count'[x] = count[x]
  BY DEF HandStep, IInv, TypeInv
<1>3. Sems[s] = SemOf(s) /\ Sems' = [Sems EXCEPT ![s] = SemOf(s)']
  BY <1>1, <1>2, SemsStep
<1>4. SemOf(s)' = [SemOf(s) EXCEPT !.q = @ \ {st}] /\ SemOf(s).q = Waiters(s)
  <2>1. Waiters(s)' = Waiters(s) \ {st}
    BY <1>1
  <2>2. Pos(count'[s]) = Pos(count[s])
    BY <1>2, SMT DEF Pos
  <2>3. /\ SemOf(s) = [cnt |-> Pos(count[s]), q |-> Waiters(s)]
        /\ SemOf(s)' = [cnt |-> Pos(count[s]), q |-> Waiters(s) \ {st}]
    BY <2>1, <2>2 DEF SemOf
  <2>4. /\ SemOf(s).q = Waiters(s)
        /\ [SemOf(s) EXCEPT !.q = Waiters(s) \ {st}] = [cnt |-> Pos(count[s]), q |-> Waiters(s) \ {st}]
    BY <2>3, SMT
  <2> QED
    BY <2>3, <2>4
<1>5. SemOf(s)' \in Abstract!Posted(SemOf(s))
  BY <1>1, <1>4 DEF Abstract!Posted
<1> QED
  BY <1>3, <1>5

\* The wait of t ends early.
LEMMA EndRefines ==
  ASSUME IInv, IInv', NEW t \in User, NEW s \in Sem, NEW err, EndStep(t, s, err)
  PROVE  t \in Sems[s].q /\ Sems' = [Sems EXCEPT ![s].q = @ \ {t}]
<1>1. /\ Waiters(s)' = Waiters(s) \ {t} /\ t \in Waiters(s)
      /\ \A x \in Sem \ {s} : Waiters(x)' = Waiters(x)
  BY EndWaiters DEF EndStep
<1>2. /\ count[s] \in Int /\ count'[s] = count[s] + 1
      /\ \A x \in Sem \ {s} : count'[x] = count[x]
  BY DEF EndStep, IInv, TypeInv
<1>3. count[s] < 0
  BY WaiterCount DEF EndStep
<1>4. Sems[s] = SemOf(s) /\ Sems' = [Sems EXCEPT ![s] = SemOf(s)']
  BY <1>1, <1>2, SemsStep
<1>5. SemOf(s)' = [SemOf(s) EXCEPT !.q = @ \ {t}] /\ SemOf(s).q = Waiters(s)
  <2>1. Waiters(s)' = Waiters(s) \ {t}
    BY <1>1
  <2>2. Pos(count'[s]) = Pos(count[s])
    BY <1>2, <1>3, SMT DEF Pos
  <2>3. /\ SemOf(s) = [cnt |-> Pos(count[s]), q |-> Waiters(s)]
        /\ SemOf(s)' = [cnt |-> Pos(count[s]), q |-> Waiters(s) \ {t}]
    BY <2>1, <2>2 DEF SemOf
  <2>4. /\ SemOf(s).q = Waiters(s)
        /\ [SemOf(s) EXCEPT !.q = Waiters(s) \ {t}] = [cnt |-> Pos(count[s]), q |-> Waiters(s) \ {t}]
    BY <2>3, SMT
  <2> QED
    BY <2>3, <2>4
<1> QED
  BY <1>1, <1>4, <1>5

\* Nobody starts or stops to wait.
LEMMA OtherRefines ==
  ASSUME IInv, IInv', (\E r \in User : ReturnStep(r)) \/ (\E t \in Task \cup {NULL} : QuietStep(t))
  PROVE  Sems' = Sems /\ errno' = errno
<1> count' = count /\ waitsem' = waitsem /\ errno' = errno
  BY DEF ReturnStep, QuietStep
<1>2. \A u \in Task : k'.state[u] = "WAIT_SEM" <=> k.state[u] = "WAIT_SEM"
  BY DEF ReturnStep, QuietStep, KMoves, k
<1>3. \A x \in Sem : Waiters(x)' = Waiters(x)
  BY <1>2 DEF Waiters, Waiting, User
<1> QED
  BY <1>3, SemsStay

\* The initial states are initial states of CountingSem.
LEMMA InitRefines ==
  ASSUME Init
  PROVE  Abstract!SemStart
<1> IInv
  BY InitInv
<1>2. ASSUME NEW s \in Sem
      PROVE  Pos(count[s]) \in Nat /\ Waiters(s) = {}
  <2>1. count[s] \in Nat
    BY SemAssumption DEF Init
  <2>2. Pos(count[s]) \in Nat /\ Pos(-count[s]) = 0
    BY <2>1, SMT DEF Pos
  <2>3. Cardinality(Waiters(s)) = Pos(-count[s])
    BY DEF IInv, SemInv
  <2> QED
    BY <2>2, <2>3, WaitersFinite, FS_EmptySet
<1>3. Sems = [s \in Sem |-> SemOf(s)]
  BY SemsIs
<1>4. ASSUME NEW s \in Sem
      PROVE  SemOf(s) \in Abstract!SemRecord /\ SemOf(s).q = {}
  BY <1>2, SMT DEF SemOf, Abstract!SemRecord
<1>5. Sems \in [Sem -> Abstract!SemRecord] /\ \A s \in Sem : Sems[s].q = {}
  BY <1>3, <1>4
<1>6. errno = [t \in Task |-> "OK"]
  BY DEF Init
<1> QED
  BY <1>5, <1>6 DEF Abstract!SemStart, Sems

\* Every effect is a step of CountingSem or leaves its variables alone.
LEMMA StepRefines ==
  ASSUME IInv, IInv', Effect
  PROVE  [Abstract!SemStep]_<<Sems, errno>>
<1>1. ASSUME NEW r \in User, NEW s \in Sem,
             TakeStep(r, s) \/ \E timed \in BOOLEAN : WaitStep(r, s, timed)
      PROVE  Abstract!SemStep
  <2>1. \A x \in Sem : r \notin Sems[x].q
    BY <1>1, TakeRefines, WaitRefines
  <2>2. Sems' = [Sems EXCEPT ![s] = Abstract!Waited(@, r)]
    BY <1>1, TakeRefines, WaitRefines
  <2>3. errno' = [errno EXCEPT ![r] = "OK"]
    BY <1>1 DEF TakeStep, WaitStep
  <2>4. ~Abstract!Blocked(r)
    BY <2>1 DEF Abstract!Blocked, Sems
  <2>5. Abstract!SemWait(r, s)
    BY <2>2, <2>3 DEF Abstract!SemWait, Sems
  <2> QED
    BY <2>4, <2>5 DEF Abstract!SemStep, User
<1>2. ASSUME NEW s \in Sem, PostStep(s) \/ \E st \in User : HandStep(s, st)
      PROVE  Abstract!SemStep
  <2>1. \E y \in Abstract!Posted(Sems[s]) : Sems' = [Sems EXCEPT ![s] = y]
    BY <1>2, PostRefines, HandRefines
  <2>2. errno' = errno
    BY <1>2 DEF PostStep, HandStep
  <2>3. Abstract!SemPost(s)
    BY <2>1, <2>2 DEF Abstract!SemPost, Sems
  <2> QED
    BY <2>3 DEF Abstract!SemStep
<1>3. ASSUME NEW t \in User, NEW s \in Sem, NEW err \in {"EINTR", "ETIMEDOUT"}, EndStep(t, s, err)
      PROVE  Abstract!SemStep
  <2>1. t \in Sems[s].q /\ Sems' = [Sems EXCEPT ![s].q = @ \ {t}]
    BY <1>3, EndRefines
  <2>2. errno' = [errno EXCEPT ![t] = err]
    BY <1>3 DEF EndStep
  <2>3. Abstract!SemEnd(t, err)
    BY <2>1, <2>2 DEF Abstract!SemEnd, Sems
  <2> QED
    BY <2>3 DEF Abstract!SemStep, User
<1>4. ASSUME (\E r \in User : ReturnStep(r)) \/ (\E t \in Task \cup {NULL} : QuietStep(t))
      PROVE  UNCHANGED <<Sems, errno>>
  BY <1>4, OtherRefines
<1> QED
  BY <1>1, <1>2, <1>3, <1>4 DEF Effect

\* The semaphores on the task lists, with watchdogs, signals and priorities,
\* implement CountingSem, on which pthreads, joins and pipes are built.
THEOREM SemaphoresImplementCounting ==
  ASSUME ~PriorityInheritance
  PROVE  Spec => ImplementsCountingSem
<1>1. Init => Abstract!SemStart
  BY InitRefines
<1>2. IInv /\ [Next]_vars => [Abstract!SemStep]_<<Sems, errno>>
  BY NextEffect, NextInv, StepRefines
<1>3. Spec => Abstract!SemSpec
  BY <1>1, <1>2, Invariance, PTL DEF Spec, Abstract!SemSpec, Sems
<1> QED
  BY <1>3 DEF ImplementsCountingSem

=============================================================================
