---------------------------- MODULE SchedProofs ----------------------------
(***************************************************************************)
(* Every service and every interrupt of Sched preserves IInv: the lists    *)
(* are well formed, their head runs, and tasks are pending only while the  *)
(* running task has pre-emption disabled.  The first part proves it of the *)
(* operators of a task's life, the second of the actions, and the third    *)
(* has the theorems.                                                       *)
(***************************************************************************)
EXTENDS Sched, TaskListsProofs

\* Unlist of a task other than the running one.
LEMMA UnlistPending ==
  ASSUME NEW kk, Lists(kk), NEW t \in Task, kk.state[t] = "PENDING"
  PROVE  LET r == [kk EXCEPT !.pend = dq_rem(@, t), !.state[t] = "INVALID"]
         IN  /\ Lists(r) /\ (HeadRuns(kk) => HeadRuns(r))
             /\ r.rtr = kk.rtr /\ r.prio = kk.prio /\ r.lock = kk.lock /\ r.slice = kk.slice
             /\ r.state = [kk.state EXCEPT ![t] = "INVALID"]
             /\ r.pend # << >> => kk.pend # << >>
<1> DEFINE q == dq_rem(kk.pend, t)
           r == [kk EXCEPT !.pend = q, !.state[t] = "INVALID"]
<1>1. /\ kk \in Kernel /\ kk.pend \in Seq(Task) /\ kk.prio \in [Task -> Nat]
      /\ Inj(kk.pend) /\ Desc(kk.pend, kk.prio) /\ kk.state \in [Task -> TaskStates]
  BY ListsFacts, KernelFields DEF Lists, Ordered
<1>2. t \in ToSet(kk.pend)
  BY DEF Lists, Member
<1>3. q \in Seq(Task) /\ Inj(q) /\ Desc(q, kk.prio) /\ ToSet(q) = ToSet(kk.pend) \ {t}
  BY <1>1, <1>2, RemFacts
<1>a. kk \in Kernel /\ q \in Seq(Task) /\ "INVALID" \in TaskStates
  BY <1>1, <1>3 DEF TaskStates
<1>b. kk.pend # << >>
  BY <1>2, EmptySet
<1> HIDE DEF q
<1>4. /\ r \in Kernel
      /\ r.rtr = kk.rtr /\ r.pend = q /\ r.blk = kk.blk /\ r.prio = kk.prio /\ r.lock = kk.lock
      /\ r.slice = kk.slice /\ r.panic = kk.panic
      /\ r.state = [kk.state EXCEPT ![t] = "INVALID"]
  BY <1>a, Zenon DEF Kernel
<1> HIDE DEF r
<1>5. Ordered(r)
  BY <1>3, <1>4 DEF Lists, Ordered
<1>6. ASSUME NEW u \in Task PROVE Member(r, u)
  <2>1. Member(kk, u)
    BY DEF Lists
  <2>2. r.state[u] = IF u = t THEN "INVALID" ELSE kk.state[u]
    BY <1>1, <1>4
  <2>3. u = t => kk.state[u] = "PENDING"
    OBVIOUS
  <2> QED BY <2>1, <2>2, <2>3, <1>3, <1>4 DEF Member, BlockedStates, WaitStates
<1>7. Lists(r)
  BY <1>4, <1>5, <1>6 DEF Lists
<1>8. HeadRuns(kk) => HeadRuns(r)
  BY <1>1, <1>4 DEF HeadRuns
<1> QED BY <1>4, <1>7, <1>8, <1>b DEF r, q

\* Unlist takes a task that does not run out of its list.
LEMMA UnlistFacts ==
  ASSUME NEW kk, Lists(kk), NEW t \in Task \ {Idle}, t # Running(kk), kk.state[t] # "RUNNING",
         kk.state[t] # "INVALID"
  PROVE  LET r == Unlist(kk, t)
         IN  /\ Lists(r) /\ (HeadRuns(kk) => HeadRuns(r))
             /\ Running(r) = Running(kk) /\ r.prio = kk.prio /\ r.lock = kk.lock /\ r.slice = kk.slice
             /\ r.state = [kk.state EXCEPT ![t] = "INVALID"]
             /\ r.pend # << >> => kk.pend # << >>
<1> DEFINE r == Unlist(kk, t)
<1>1. kk \in Kernel /\ kk.state \in [Task -> TaskStates] /\ Member(kk, t)
  BY ListsFacts, KernelFields DEF Lists
<1>2. CASE kk.state[t] = "PENDING"
  <2> DEFINE z == [kk EXCEPT !.pend = dq_rem(@, t), !.state[t] = "INVALID"]
  <2>1. r = z
    BY <1>1, <1>2, Zenon DEF Unlist, Kernel, BlockedStates, WaitStates
  <2>2. /\ Lists(z) /\ (HeadRuns(kk) => HeadRuns(z))
        /\ z.rtr = kk.rtr /\ z.prio = kk.prio /\ z.lock = kk.lock /\ z.slice = kk.slice
        /\ z.state = [kk.state EXCEPT ![t] = "INVALID"]
        /\ z.pend # << >> => kk.pend # << >>
    BY <1>2, UnlistPending, Zenon
  <2> HIDE DEF z
  <2> QED BY <2>1, <2>2 DEF Running
<1>3. CASE kk.state[t] = "READYTORUN"
  <2>1. r = sched_removereadytorun(kk, t)
    BY <1>1, <1>3, Zenon DEF Unlist, sched_removereadytorun, Kernel, BlockedStates, WaitStates
  <2>2. t \in ToSet(kk.rtr) \ {Idle}
    BY <1>1, <1>3 DEF Member
  <2> DEFINE z == sched_removereadytorun(kk, t)
  <2>3. /\ Lists(z) /\ (HeadRuns(kk) => HeadRuns(z))
        /\ z.prio = kk.prio /\ z.lock = kk.lock /\ z.slice = kk.slice /\ z.pend = kk.pend
        /\ Running(z) = IF Running(kk) = t THEN kk.rtr[2] ELSE Running(kk)
    BY <2>2, RemoveReady
  <2>4. z.state = [kk.state EXCEPT ![t] = "INVALID"]
    BY <1>1 DEF sched_removereadytorun, Kernel
  <2> HIDE DEF z
  <2> QED BY <2>1, <2>3, <2>4 DEF z
<1>4. CASE kk.state[t] \in BlockedStates
  <2> DEFINE z == sched_removeblocked(kk, t)
  <2>0. kk.state[t] \notin {"PENDING", "READYTORUN", "RUNNING"}
    BY <1>4 DEF BlockedStates, WaitStates
  <2>1. r = z
    BY <1>1, <1>4, <2>0, Zenon DEF Unlist, sched_removeblocked, Kernel
  <2>2. /\ Lists(z) /\ (HeadRuns(kk) => HeadRuns(z))
        /\ z.rtr = kk.rtr /\ z.pend = kk.pend /\ z.prio = kk.prio
        /\ z.lock = kk.lock /\ z.slice = kk.slice
        /\ z.state = [kk.state EXCEPT ![t] = "INVALID"]
    BY <1>4, RemoveBlocked
  <2> HIDE DEF z
  <2> QED BY <2>1, <2>2 DEF Running
<1> QED BY <1>1, <1>2, <1>3, <1>4 DEF TaskStates

\* A freed TCB, which is in no list.
LEMMA FreedFacts ==
  ASSUME NEW kk, Lists(kk), NEW t \in Task \ {Idle}, kk.state[t] = "INVALID"
  PROVE  LET r == Freed(kk, t)
         IN  /\ Lists(r) /\ (HeadRuns(kk) => HeadRuns(r))
             /\ r.rtr = kk.rtr /\ r.pend = kk.pend /\ r.state = kk.state
             /\ r.lock = [kk.lock EXCEPT ![t] = 0]
             /\ t # Running(kk)
<1> DEFINE z == [kk EXCEPT !.prio[t] = SCHED_PRIORITY_MIN]
           r == Freed(kk, t)
<1>1. kk \in Kernel /\ t \in Task /\ SCHED_PRIORITY_MIN \in Nat /\ SCHED_PRIORITY_MIN >= SCHED_PRIORITY_MIN
  BY ListsFacts DEF SCHED_PRIORITY_MIN
<1>2. Lists(z) /\ (HeadRuns(kk) => HeadRuns(z))
  BY <1>1, SetPrioInvalid
<1>3. /\ z \in Kernel /\ z.rtr = kk.rtr /\ z.pend = kk.pend /\ z.lock = kk.lock
      /\ z.state = kk.state
  BY <1>1, SetPrioFields
<1>4. r = [z EXCEPT !.lock[t] = 0, !.slice[t] = 0]
  BY <1>1 DEF Freed, Kernel
<1> HIDE DEF z, r
<1>5. SameLists(z, r) /\ r.lock = [z.lock EXCEPT ![t] = 0]
  <2> DEFINE y == [z EXCEPT !.lock[t] = 0]
  <2>1. SameLists(z, y) /\ y.lock = [z.lock EXCEPT ![t] = 0]
    BY <1>2, SetLock
  <2>2. r = [y EXCEPT !.slice[t] = 0]
    BY <1>4
  <2> HIDE DEF y
  <2>3. Lists(y)
    BY <1>2, <2>1, SameListsInv
  <2>4. SameLists(y, r) /\ r.lock = y.lock
    BY <2>2, <2>3, SetSlice
  <2> QED BY <2>1, <2>4 DEF SameLists
<1>6. Lists(r) /\ (HeadRuns(z) => HeadRuns(r))
  BY <1>2, <1>5, SameListsInv
<1>7. r.rtr = kk.rtr /\ r.pend = kk.pend /\ r.state = kk.state
  BY <1>3, <1>5 DEF SameLists
<1>8. t # Running(kk)
  BY ListsFacts, InvalidNowhere
<1> QED BY <1>2, <1>3, <1>5, <1>6, <1>7, <1>8 DEF r

\* task_delete() of another task.
LEMMA DeleteInv ==
  ASSUME NEW kk, KInv(kk), NEW t \in Task \ {Idle}, t # Running(kk), kk.state[t] # "INVALID",
         kk.lock[Running(kk)] < MAX_LOCK_COUNT
  PROVE  LET r == task_delete(kk, t)
         IN  KInv(r) /\ r.lock = [kk.lock EXCEPT ![t] = 0]
<1> DEFINE h == Running(kk)
           k1 == sched_lock(kk)
           k2 == Unlist(k1, t)
           k3 == sched_unlock(k2)
           r == Freed(k3, t)
<1>1. Lists(kk) /\ HeadRuns(kk) /\ h \in Task /\ kk.lock \in [Task -> Nat] /\ kk \in Kernel
      /\ kk.state \in [Task -> TaskStates]
  BY ListsFacts, KernelFields DEF KInv
<1>2. /\ SameLists(kk, k1) /\ KInv(k1)
      /\ k1.lock = [kk.lock EXCEPT ![h] = @ + 1]
  BY <1>1, LockInv
<1> HIDE DEF k1
<1>3. Lists(k1) /\ HeadRuns(k1) /\ Running(k1) = h /\ k1.state = kk.state /\ k1 \in Kernel
      /\ k1.pend = kk.pend
  BY <1>2, ListsFacts DEF KInv, SameLists, Running
<1>4. k1.state[t] # "RUNNING" /\ k1.state[t] # "INVALID" /\ t # Running(k1)
  BY <1>1, <1>3 DEF HeadRuns, Running
<1>5. task_delete(kk, t) = r
  <2>1. ASSERT(k1, k1.state[t] # "RUNNING") = k1
    BY <1>3, <1>4, AssertTrue, Zenon
  <2> QED BY <2>1 DEF task_delete, k1
<1>6. /\ Lists(k2) /\ (HeadRuns(k1) => HeadRuns(k2))
      /\ Running(k2) = Running(k1) /\ k2.lock = k1.lock
      /\ k2.state = [k1.state EXCEPT ![t] = "INVALID"]
      /\ k2.pend # << >> => k1.pend # << >>
  BY <1>3, <1>4, UnlistFacts
<1> HIDE DEF k2
<1>7. KInv(k2)
  BY <1>2, <1>3, <1>6 DEF KInv
<1>8. k2.state[t] = "INVALID"
  BY <1>1, <1>3, <1>6
<1>9. /\ KInv(k3)
      /\ k3.lock = [k2.lock EXCEPT ![Running(k2)] = IF @ > 0 THEN @ - 1 ELSE 0]
      /\ k3.state[t] = "INVALID"
  BY <1>7, <1>8, UnlockInv
<1> HIDE DEF k3
<1>10. k3.lock = kk.lock
  <2> DEFINE L == kk.lock
  <2>1. k2.lock = [L EXCEPT ![h] = @ + 1] /\ Running(k2) = h
    BY <1>2, <1>3, <1>6
  <2>2. L \in [Task -> Nat] /\ h \in Task
    BY <1>1
  <2> HIDE DEF L, h
  <2>3. k3.lock = [[L EXCEPT ![h] = @ + 1] EXCEPT ![h] = IF @ > 0 THEN @ - 1 ELSE 0]
    BY <1>9, <2>1
  <2>4. L[h] + 1 > 0 /\ L[h] + 1 - 1 = L[h]
    BY <2>2
  <2>5. k3.lock = L
    BY <2>2, <2>3, <2>4
  <2> QED BY <2>5 DEF L
<1>11. Lists(k3) /\ HeadRuns(k3)
  BY <1>9 DEF KInv
<1>12. /\ Lists(r) /\ HeadRuns(r) /\ r.rtr = k3.rtr /\ r.pend = k3.pend
       /\ r.lock = [k3.lock EXCEPT ![t] = 0] /\ t # Running(k3)
  BY <1>9, <1>11, FreedFacts
<1> HIDE DEF r
<1>13. KInv(r)
  <2>1. Running(r) = Running(k3) /\ Running(k3) \in Task /\ k3.lock \in [Task -> Nat]
    BY <1>10, <1>11, <1>12, <1>1, ListsFacts DEF Running
  <2>2. r.lock[Running(r)] = k3.lock[Running(k3)]
    BY <1>12, <2>1
  <2>3. k3.pend # << >> => k3.lock[Running(k3)] > 0
    BY <1>9 DEF KInv
  <2> QED BY <1>12, <2>2, <2>3 DEF KInv
<1> QED BY <1>5, <1>10, <1>12, <1>13

\* task_delete() inside exit(): the running task holds the lock, and no task
\* is marked RUNNING.
LEMMA DeleteNested ==
  ASSUME NEW kk, Lists(kk), NEW t \in Task \ {Idle}, kk.state[t] = "INACTIVE",
         kk.lock[Running(kk)] > 0, kk.lock[Running(kk)] < MAX_LOCK_COUNT
  PROVE  LET r == task_delete(kk, t)
         IN  /\ Lists(r) /\ Running(r) = Running(kk)
             /\ r.lock = [kk.lock EXCEPT ![t] = 0]
             /\ r.state = [kk.state EXCEPT ![t] = "INVALID"]
<1> DEFINE h == Running(kk)
           k1 == sched_lock(kk)
           k2 == Unlist(k1, t)
           k3 == sched_unlock(k2)
           r == Freed(k3, t)
<1>1. /\ h \in Task /\ h \in ToSet(kk.rtr) /\ kk.lock \in [Task -> Nat] /\ kk \in Kernel
      /\ kk.state \in [Task -> TaskStates] /\ Member(kk, t)
  BY ListsFacts, KernelFields DEF Lists
<1>2. SameLists(kk, k1) /\ Lists(k1) /\ k1.lock = [kk.lock EXCEPT ![h] = @ + 1]
  BY LockInv
<1> HIDE DEF k1
<1>3. Running(k1) = h /\ k1.state = kk.state /\ k1 \in Kernel
  BY <1>2 DEF SameLists, Running
<1>4. k1.state[t] # "RUNNING" /\ k1.state[t] # "INVALID" /\ t # Running(k1)
  BY <1>1, <1>3 DEF Member
<1>5. task_delete(kk, t) = r
  <2>1. ASSERT(k1, k1.state[t] # "RUNNING") = k1
    BY <1>3, <1>4, AssertTrue, Zenon
  <2> QED BY <2>1 DEF task_delete, k1
<1>6. /\ Lists(k2) /\ Running(k2) = Running(k1) /\ k2.lock = k1.lock
      /\ k2.state = [k1.state EXCEPT ![t] = "INVALID"]
  BY <1>2, <1>4, UnlistFacts
<1> HIDE DEF k2, h
<1>a. Running(k2) = h
  BY <1>3, <1>6
<1>7. k3 = [k2 EXCEPT !.lock[h] = kk.lock[h]]
  <2>1. k2.lock[h] = kk.lock[h] + 1 /\ kk.lock[h] \in Nat /\ kk.lock[h] > 0
    BY <1>1, <1>2, <1>6 DEF h
  <2> DEFINE m == IF k2.lock[h] > 0 THEN k2.lock[h] - 1 ELSE 0
             y == [k2 EXCEPT !.lock[h] = m]
  <2>2. m = kk.lock[h] /\ m \in Nat /\ m # 0
    BY <2>1
  <2>3. k3 = IF y.lock[h] = 0 /\ y.pend # << >> THEN sched_mergepending(y) ELSE y
    BY <1>a DEF sched_unlock, up_release_pending
  <2> HIDE DEF m
  <2>4. y.lock = [k2.lock EXCEPT ![h] = m]
    BY <1>6, <1>1, <2>2, SetLock
  <2>5. y.lock[h] # 0
    BY <1>1, <1>2, <1>6, <2>2, <2>4
  <2> HIDE DEF y
  <2>6. k3 = y
    BY <2>3, <2>5
  <2> QED BY <2>6, <2>2 DEF y
<1>b. kk.lock[h] \in Nat
  BY <1>1
<1>8. SameLists(k2, k3) /\ k3.lock = [k2.lock EXCEPT ![h] = kk.lock[h]]
  BY <1>1, <1>6, <1>7, <1>b, SetLock
<1> HIDE DEF k3
<1>9. Lists(k3) /\ Running(k3) = h /\ k3.state = [kk.state EXCEPT ![t] = "INVALID"]
  BY <1>3, <1>6, <1>8, <1>a, SameListsInv DEF SameLists
<1>10. k3.lock = kk.lock
  <2> DEFINE L == kk.lock
  <2>1. k3.lock = [[L EXCEPT ![h] = @ + 1] EXCEPT ![h] = L[h]] /\ L \in [Task -> Nat] /\ h \in Task
    BY <1>1, <1>2, <1>6, <1>8 DEF h
  <2> HIDE DEF L
  <2>2. k3.lock = L
    BY <2>1
  <2> QED BY <2>2 DEF L
<1>11. k3.state[t] = "INVALID"
  BY <1>1, <1>9
<1>12. /\ Lists(r) /\ r.rtr = k3.rtr /\ r.state = k3.state
       /\ r.lock = [k3.lock EXCEPT ![t] = 0]
  BY <1>9, <1>11, FreedFacts
<1> HIDE DEF r
<1> QED BY <1>5, <1>9, <1>10, <1>12 DEF Running, h

\* A task in no list becomes inactive, with a priority.
LEMMA InactiveFacts ==
  ASSUME NEW kk, Lists(kk), NEW t \in Task \ {Idle}, kk.state[t] = "INVALID",
         NEW p \in Nat, p >= SCHED_PRIORITY_MIN
  PROVE  LET r == MadeInactive(kk, t, p)
         IN  /\ Lists(r) /\ (HeadRuns(kk) => HeadRuns(r))
             /\ r.rtr = kk.rtr /\ r.pend = kk.pend /\ r.lock = kk.lock
             /\ r.state[t] = "INACTIVE"
<1> DEFINE z == [kk EXCEPT !.prio[t] = p]
           q == dq_addfirst(z.blk["INACTIVE"], t)
           r == MadeInactive(kk, t, p)
<1>1. kk \in Kernel /\ t \in Task /\ kk.state \in [Task -> TaskStates] /\ "INACTIVE" \in BlockedStates
  BY ListsFacts, KernelFields DEF BlockedStates
<1>2. Lists(z) /\ (HeadRuns(kk) => HeadRuns(z))
  BY SetPrioInvalid
<1>3. /\ z \in Kernel /\ z.rtr = kk.rtr /\ z.pend = kk.pend /\ z.lock = kk.lock
      /\ z.state = kk.state
  BY <1>1, SetPrioFields
<1>4. r = [z EXCEPT !.blk["INACTIVE"] = q, !.state[t] = "INACTIVE"]
  BY <1>1 DEF MadeInactive, Kernel
<1> HIDE DEF z, r
<1>5. /\ z.blk["INACTIVE"] \in Seq(Task) /\ Inj(z.blk["INACTIVE"])
      /\ z.blk \in [BlockedStates -> Seq(Task)] /\ t \notin ToSet(z.blk["INACTIVE"])
  BY <1>1, <1>2, <1>3, KernelFields, InvalidNowhere, Zenon DEF Lists, Ordered
<1>6. q \in Seq(Task) /\ Inj(q) /\ ToSet(q) = ToSet(z.blk["INACTIVE"]) \cup {t}
  BY <1>5, PrependFacts
<1> HIDE DEF q
<1>7. /\ r \in Kernel
      /\ r.rtr = z.rtr /\ r.pend = z.pend /\ r.prio = z.prio /\ r.lock = z.lock /\ r.panic = z.panic
      /\ r.blk = [z.blk EXCEPT !["INACTIVE"] = q]
      /\ r.state = [z.state EXCEPT ![t] = "INACTIVE"]
  <2>1. z \in Kernel /\ q \in Seq(Task) /\ t \in Task /\ "INACTIVE" \in BlockedStates
    BY <1>1, <1>3, <1>6
  <2> QED BY <2>1, <1>4 DEF Kernel, TaskStates
<1>8. Enlisted(z, r, t, "INACTIVE")
  <2>1. r.blk["INACTIVE"] = q /\ \A x \in BlockedStates \ {"INACTIVE"} : r.blk[x] = z.blk[x]
    BY <1>1, <1>5, <1>7
  <2>2. ~Prioritized("INACTIVE")
    BY DEF Prioritized
  <2> QED BY <1>6, <1>7, <2>1, <2>2 DEF Enlisted
<1>9. Lists(r) /\ (HeadRuns(z) => HeadRuns(r))
  BY <1>1, <1>2, <1>3, <1>8, Enlist
<1>10. r.state[t] = "INACTIVE"
  BY <1>1, <1>3, <1>7
<1> QED BY <1>2, <1>3, <1>7, <1>9, <1>10 DEF r

\* A task of g_readytorun may be marked RUNNING or READYTORUN.
LEMMA StateInRtr ==
  ASSUME NEW kk, Lists(kk), NEW t \in Task, kk.state[t] \in {"RUNNING", "READYTORUN"},
         NEW s \in {"RUNNING", "READYTORUN"}
  PROVE  LET r == [kk EXCEPT !.state[t] = s]
         IN  /\ Lists(r) /\ r.lock = kk.lock /\ r.rtr = kk.rtr
             /\ r.state = [kk.state EXCEPT ![t] = s]
<1> DEFINE r == [kk EXCEPT !.state[t] = s]
<1>1. kk \in Kernel /\ kk.state \in [Task -> TaskStates] /\ s \in TaskStates
  BY ListsFacts, KernelFields DEF TaskStates
<1>2. /\ r \in Kernel
      /\ r.rtr = kk.rtr /\ r.pend = kk.pend /\ r.blk = kk.blk /\ r.prio = kk.prio
      /\ r.lock = kk.lock /\ r.panic = kk.panic
      /\ r.state = [kk.state EXCEPT ![t] = s]
  BY <1>1, Zenon DEF Kernel
<1> HIDE DEF r
<1>3. ASSUME NEW u \in Task PROVE Member(r, u)
  <2>1. Member(kk, u)
    BY DEF Lists
  <2>2. r.state[u] = IF u = t THEN s ELSE kk.state[u]
    BY <1>1, <1>2
  <2> QED BY <1>2, <2>1, <2>2 DEF Member, BlockedStates, WaitStates
<1>4. Lists(r)
  BY <1>2, <1>3 DEF Lists, Ordered
<1> QED BY <1>2, <1>4 DEF r

\* exit(): the list functions of task_deletecurrent() in their order.
LEMMA ExitInv ==
  ASSUME NEW kk, KInv(kk), NEW d \in Task \ {Idle}, d = Running(kk),
         NEW n, n = kk.rtr[2], kk.lock[n] + 1 < MAX_LOCK_COUNT
  PROVE  LET r == task_deletecurrent(kk)
         IN  /\ KInv(r)
             /\ \A u \in Task : r.lock[u] <= kk.lock[u] + (IF u = n THEN 1 ELSE 0)
<1> DEFINE k1 == sched_removereadytorun(kk, d)
           k2 == [sched_lock(k1) EXCEPT !.state[Running(k1)] = "READYTORUN"]
           k3 == sched_addblocked(k2, d, "INACTIVE")
           k4 == task_delete(k3, d)
           k5 == [k4 EXCEPT !.state[Running(k1)] = "RUNNING"]
           k6 == sched_mergepending(k5)
           r == sched_unlock(k6)
<1>0. task_deletecurrent(kk) = r
  BY DEF task_deletecurrent
<1>1. /\ Lists(kk) /\ HeadRuns(kk) /\ d \in ToSet(kk.rtr) \ {Idle} /\ kk.lock \in [Task -> Nat]
  BY ListsFacts, KernelFields DEF KInv
<1>2. /\ Lists(k1) /\ HeadRuns(k1) /\ k1.state[d] = "INVALID" /\ k1.lock = kk.lock
      /\ Running(k1) = n
  BY <1>1, RemoveReady
<1>3. /\ n \in Task /\ k1 \in Kernel /\ k1.state \in [Task -> TaskStates] /\ n # d
      /\ Member(k1, n) /\ n \in ToSet(k1.rtr)
  BY <1>2, ListsFacts, KernelFields, InvalidNowhere DEF Lists
<1>a. kk.lock[n] \in Nat /\ kk.lock[n] < MAX_LOCK_COUNT
  BY <1>1, <1>3, LockAssumption
<1> HIDE DEF k1
<1> DEFINE w == sched_lock(k1)
<1>4. SameLists(k1, w) /\ Lists(w) /\ w.lock = [kk.lock EXCEPT ![n] = @ + 1]
  <2>1. k1.lock[Running(k1)] < MAX_LOCK_COUNT
    BY <1>2, <1>a
  <2>2. SameLists(k1, w) /\ Lists(w) /\ w.lock = [k1.lock EXCEPT ![Running(k1)] = @ + 1]
    BY <1>2, <2>1, LockInv
  <2> QED BY <1>2, <2>2
<1>5. k2 = [w EXCEPT !.state[n] = "READYTORUN"] /\ k5 = [k4 EXCEPT !.state[n] = "RUNNING"]
  BY <1>2
<1> HIDE DEF w, k2, k5
<1>6. /\ Lists(k2) /\ k2.lock = w.lock /\ Running(k2) = n
      /\ \A u \in Task : k2.state[u] # "RUNNING"
      /\ k2.state[d] = "INVALID"
  <2>1. w \in Kernel /\ w.state = k1.state /\ w.rtr = k1.rtr /\ w.state[n] \in {"RUNNING", "READYTORUN"}
    BY <1>3, <1>4 DEF SameLists, Member
  <2>2. Lists(k2) /\ k2.lock = w.lock /\ k2.rtr = w.rtr /\ k2.state = [w.state EXCEPT ![n] = "READYTORUN"]
    BY <1>3, <1>4, <1>5, <2>1, StateInRtr, Zenon
  <2>3. \A u \in Task : k1.state[u] = "RUNNING" <=> u = n
    BY <1>2 DEF HeadRuns, Running
  <2> QED BY <1>2, <1>3, <2>1, <2>2, <2>3 DEF Running
<1>7. /\ Lists(k3) /\ k3.lock = k2.lock /\ Running(k3) = n
      /\ \A u \in Task : k3.state[u] # "RUNNING"
      /\ k3.state[d] = "INACTIVE"
  <2>1. "INACTIVE" \in BlockedStates /\ k2.state \in [Task -> TaskStates]
    BY <1>6, ListsFacts, KernelFields DEF BlockedStates
  <2>2. Lists(k3) /\ k3.rtr = k2.rtr /\ k3.lock = k2.lock /\ k3.state = [k2.state EXCEPT ![d] = "INACTIVE"]
    BY <1>6, <2>1, AddBlocked
  <2> HIDE DEF k3
  <2> QED BY <1>6, <2>1, <2>2 DEF Running
<1> HIDE DEF k3
<1>8. k3.lock[n] = kk.lock[n] + 1
  BY <1>1, <1>3, <1>4, <1>6, <1>7
<1>9. /\ Lists(k4) /\ Running(k4) = n
      /\ k4.lock = [k3.lock EXCEPT ![d] = 0]
      /\ k4.state = [k3.state EXCEPT ![d] = "INVALID"]
  <2>1. k3.lock[Running(k3)] > 0 /\ k3.lock[Running(k3)] < MAX_LOCK_COUNT
    BY <1>7, <1>8, <1>a
  <2> QED BY <1>7, <2>1, DeleteNested
<1> HIDE DEF k4
<1>10. Lists(k5) /\ HeadRuns(k5) /\ k5.lock = k4.lock
  <2>0. k3.state \in [Task -> TaskStates] /\ n \in ToSet(k4.rtr) /\ Member(k4, n)
    <3>1. k3.state \in [Task -> TaskStates]
      BY <1>7, ListsFacts, KernelFields
    <3>2. n \in ToSet(k4.rtr)
      BY <1>9, ListsFacts
    <3>3. Member(k4, n)
      BY <1>3, <1>9 DEF Lists
    <3> QED BY <3>1, <3>2, <3>3
  <2>1. k4.state[n] \in {"RUNNING", "READYTORUN"}
    BY <2>0 DEF Member
  <2>2. Lists(k5) /\ k5.lock = k4.lock /\ k5.rtr = k4.rtr /\ k5.state = [k4.state EXCEPT ![n] = "RUNNING"]
    BY <1>3, <1>5, <1>9, <2>1, StateInRtr, Zenon
  <2>3. \A u \in Task : k5.state[u] = "RUNNING" <=> u = n
    BY <1>3, <1>7, <1>9, <2>0, <2>2
  <2> QED BY <1>9, <2>2, <2>3 DEF HeadRuns, Running
<1>11. KInv(k6) /\ k6.lock = k5.lock
  BY <1>10, Merge DEF KInv
<1> HIDE DEF k6
<1>12. KInv(r) /\ r.lock = [k6.lock EXCEPT ![Running(k6)] = IF @ > 0 THEN @ - 1 ELSE 0]
  BY <1>11, UnlockInv
<1> HIDE DEF r
<1>13. ASSUME NEW u \in Task PROVE r.lock[u] <= kk.lock[u] + (IF u = n THEN 1 ELSE 0)
  <2> DEFINE L == kk.lock
             m == Running(k6)
  <2>1. L \in [Task -> Nat]
    BY <1>1
  <2>2. k6.lock = [[L EXCEPT ![n] = @ + 1] EXCEPT ![d] = 0]
    BY <1>4, <1>6, <1>7, <1>9, <1>10, <1>11
  <2>3. r.lock = [k6.lock EXCEPT ![m] = IF @ > 0 THEN @ - 1 ELSE 0]
    BY <1>12
  <2> HIDE DEF L, m
  <2>4. k6.lock \in [Task -> Nat] /\ k6.lock[u] <= L[u] + (IF u = n THEN 1 ELSE 0)
    BY <1>3, <2>1, <2>2
  <2>5. r.lock[u] <= k6.lock[u] /\ r.lock[u] \in Nat
    BY <2>3, <2>4
  <2>6. r.lock[u] <= L[u] + (IF u = n THEN 1 ELSE 0)
    BY <2>1, <2>4, <2>5
  <2> QED BY <2>6 DEF L
<1> QED BY <1>0, <1>12, <1>13

-----------------------------------------------------------------------------
(* The actions.                                                            *)

\* What IInv says of the kernel record.
Safe(kk) == KInv(kk) /\ \A t \in Task : kk.lock[t] <= LockBound

\* What IInv says of the other variables.
Rest == /\ rr \subseteq User
        /\ init_prio \in [Task -> Nat] /\ IdleLowest(init_prio)
        /\ pc \in [Task -> {"user", "unlock"}]

\* IInv splits into its two parts.
LEMMA IInvParts == IInv <=> Safe(k) /\ Rest
  BY DEF IInv, TypeOK, Safe, Rest, KInv, Lists

\* The same of the state after a step.
LEMMA IInvNext ==
  ASSUME Safe(k'), Rest'
  PROVE  IInv'
  BY DEF IInv, TypeOK, Safe, Rest, KInv, Lists

\* The facts about a state of IInv that the actions use.
LEMMA SafeFacts ==
  ASSUME NEW kk, Safe(kk)
  PROVE  /\ KInv(kk) /\ Lists(kk) /\ HeadRuns(kk) /\ Running(kk) \in Task
         /\ kk.state \in [Task -> TaskStates]
         /\ kk.lock \in [Task -> Nat] /\ kk.prio \in [Task -> Nat]
         /\ kk.lock[Running(kk)] < MAX_LOCK_COUNT
<1>1. KInv(kk) /\ Lists(kk) /\ HeadRuns(kk)
  BY DEF Safe, KInv
<1>2. kk \in Kernel /\ Running(kk) \in Task
  BY <1>1, ListsFacts
<1>3. kk.state \in [Task -> TaskStates] /\ kk.lock \in [Task -> Nat] /\ kk.prio \in [Task -> Nat]
  BY <1>2, KernelFields
<1>4. kk.lock[Running(kk)] < MAX_LOCK_COUNT
  BY <1>2, <1>3, BoundAssumption, LockAssumption DEF Safe
<1> QED BY <1>1, <1>2, <1>3, <1>4

\* sched_lock() within the bound.
LEMMA LockSafe ==
  ASSUME NEW kk, Safe(kk), kk.lock[Running(kk)] < LockBound
  PROVE  LET r == sched_lock(kk)
         IN  /\ Safe(r) /\ SameLists(kk, r) /\ Running(r) = Running(kk)
             /\ r.lock = [kk.lock EXCEPT ![Running(kk)] = @ + 1]
<1> DEFINE r == sched_lock(kk)
<1>1. /\ KInv(kk) /\ Lists(kk) /\ Running(kk) \in Task /\ kk.lock \in [Task -> Nat]
      /\ kk.lock[Running(kk)] < MAX_LOCK_COUNT
  BY SafeFacts
<1>2. KInv(r) /\ SameLists(kk, r) /\ r.lock = [kk.lock EXCEPT ![Running(kk)] = @ + 1]
  BY <1>1, LockInv
<1> HIDE DEF r
<1>3. ASSUME NEW u \in Task PROVE r.lock[u] <= LockBound
  BY <1>1, <1>2, BoundAssumption DEF Safe
<1>4. Running(r) = Running(kk)
  BY <1>2 DEF SameLists, Running
<1> QED BY <1>2, <1>3, <1>4 DEF Safe, r

\* A step that leaves the lock counts alone or lowers them.
LEMMA LowerSafe ==
  ASSUME NEW kk, Safe(kk), NEW r, KInv(r),
         \A u \in Task : r.lock[u] <= kk.lock[u]
  PROVE  Safe(r)
<1>1. kk.lock \in [Task -> Nat] /\ r.lock \in [Task -> Nat]
  BY SafeFacts, ListsFacts, KernelFields DEF KInv
<1>2. \A u \in Task : r.lock[u] <= LockBound
  BY <1>1, BoundAssumption DEF Safe
<1> QED BY <1>2 DEF Safe

\* sched_unlock().
LEMMA UnlockSafe ==
  ASSUME NEW kk, Safe(kk)
  PROVE  Safe(sched_unlock(kk))
<1> DEFINE r == sched_unlock(kk)
<1>1. KInv(kk) /\ kk.lock \in [Task -> Nat] /\ Running(kk) \in Task
  BY SafeFacts
<1>2. KInv(r) /\ r.lock = [kk.lock EXCEPT ![Running(kk)] = IF @ > 0 THEN @ - 1 ELSE 0]
  BY <1>1, UnlockInv
<1> HIDE DEF r
<1>3. \A u \in Task : r.lock[u] <= kk.lock[u]
  BY <1>1, <1>2
<1>4. Safe(r)
  BY <1>2, <1>3, LowerSafe, Zenon
<1> QED BY <1>4 DEF r

\* A step that leaves the lock counts alone.
LEMMA SameSafe ==
  ASSUME NEW kk, Safe(kk), NEW r, KInv(r), r.lock = kk.lock
  PROVE  Safe(r)
  BY DEF Safe

\* sched_setpriority().
LEMMA SetPrioritySafe ==
  ASSUME NEW kk, Safe(kk), NEW t \in User, NEW p \in Nat, p >= SCHED_PRIORITY_MIN
  PROVE  Safe(sched_setpriority(kk, t, p))
<1> DEFINE r == sched_setpriority(kk, t, p)
<1>1. KInv(r) /\ r.lock = kk.lock
  BY SafeFacts, SetPriorityInv DEF User
<1> HIDE DEF r
<1>2. Safe(r)
  BY <1>1, SameSafe
<1> QED BY <1>2 DEF r

\* up_unblock_task().
LEMMA UnblockSafe ==
  ASSUME NEW kk, Safe(kk), NEW t \in Task, kk.state[t] \in BlockedStates
  PROVE  /\ Safe(up_unblock_task(kk, t))
         /\ kk.lock[Running(kk)] > 0 => Running(up_unblock_task(kk, t)) = Running(kk)
<1> DEFINE r == up_unblock_task(kk, t)
<1>1. /\ KInv(r) /\ r.lock = kk.lock
      /\ kk.lock[Running(kk)] > 0 => Running(r) = Running(kk)
  BY SafeFacts, UnblockInv
<1> HIDE DEF r
<1>2. Safe(r)
  BY <1>1, SameSafe
<1> QED BY <1>1, <1>2 DEF r

\* Lock and the error returns of task_restart().
LEMMA LockStep ==
  ASSUME IInv, NEW r \in Task, Lock(r) \/ TaskRestartError(r)
  PROVE  IInv'
<1>1. Safe(k) /\ Rest
  BY IInvParts
<1>2. r = Running(k) /\ k.lock[r] < LockBound /\ k' = sched_lock(k)
  BY DEF Lock, TaskRestartError, Calls, MayLock
<1>3. Safe(k')
  BY <1>1, <1>2, LockSafe, Zenon
<1>4. Rest'
  BY <1>1 DEF Rest, Lock, TaskRestartError
<1> QED BY <1>3, <1>4, IInvNext

\* Unlock.
LEMMA UnlockStep ==
  ASSUME IInv, NEW r \in Task, Unlock(r)
  PROVE  IInv'
<1>1. Safe(k) /\ Rest
  BY IInvParts
<1>2. Safe(k')
  BY <1>1, UnlockSafe DEF Unlock
<1>3. Rest'
  BY <1>1 DEF Rest, Unlock
<1> QED BY <1>2, <1>3, IInvNext

\* Yield sets the priority that the task has.
LEMMA YieldStep ==
  ASSUME IInv, NEW r \in Task, Yield(r)
  PROVE  IInv'
<1>1. Safe(k) /\ Rest
  BY IInvParts
<1>2. r \in User /\ k.prio[r] \in Nat /\ k.prio[r] >= SCHED_PRIORITY_MIN
  BY <1>1, SafeFacts DEF Yield, User, Lists, IdleLowest, SCHED_PRIORITY_MIN
<1>3. Safe(k')
  BY <1>1, <1>2, SetPrioritySafe DEF Yield
<1>4. Rest'
  BY <1>1 DEF Rest, Yield
<1> QED BY <1>3, <1>4, IInvNext

\* A priority of the model is a valid one.
LEMMA PrioFacts ==
  ASSUME NEW p \in Prio
  PROVE  p \in Nat /\ p >= SCHED_PRIORITY_MIN
  BY BoundAssumption DEF Prio, SCHED_PRIORITY_MIN

\* SetParam.
LEMMA SetParamStep ==
  ASSUME IInv, NEW r \in Task, NEW t \in Task, NEW p \in Prio, SetParam(r, t, p)
  PROVE  IInv'
<1>1. Safe(k) /\ Rest
  BY IInvParts
<1>2. r = Running(k) /\ k.lock[r] < LockBound /\ t \in User
  BY DEF SetParam, Calls, MayLock
<1>3. Safe(sched_lock(k))
  BY <1>1, <1>2, LockSafe, Zenon
<1>4. Safe(k')
  BY <1>2, <1>3, PrioFacts, SetPrioritySafe DEF SetParam
<1>5. Rest'
  BY <1>1 DEF Rest, SetParam
<1> QED BY <1>4, <1>5, IInvNext

\* SetScheduler writes the time slice between the lock and the priority.
LEMMA SetSchedulerStep ==
  ASSUME IInv, NEW r \in Task, NEW t \in Task, NEW robin \in BOOLEAN, NEW p \in Prio,
         SetScheduler(r, t, robin, p)
  PROVE  IInv'
<1> DEFINE k1 == sched_lock(k)
           n == IF robin THEN RRTicks ELSE 0
           z == [k1 EXCEPT !.slice[t] = n]
           k2 == IF RRTicks > 0 THEN z ELSE k1
<1>1. Safe(k) /\ Rest
  BY IInvParts
<1>2. r = Running(k) /\ k.lock[r] < LockBound /\ t \in User /\ t \in Task
  BY DEF SetScheduler, Calls, MayLock
<1>3. Safe(k1)
  BY <1>1, <1>2, LockSafe, Zenon
<1>4. k' = sched_setpriority(k2, t, p)
  BY DEF SetScheduler
<1>5. n \in Int
  BY RRAssumption
<1> HIDE DEF k1, n
<1>6. Safe(z)
  <2>1. KInv(z) /\ z.lock = k1.lock
    BY <1>2, <1>3, <1>5, SafeFacts, SliceInv
  <2> QED BY <1>3, <2>1, SameSafe
<1> HIDE DEF z
<1>7. Safe(k2)
  BY <1>3, <1>6
<1> HIDE DEF k2
<1>8. Safe(k')
  BY <1>2, <1>4, <1>7, PrioFacts, SetPrioritySafe
<1>9. Rest'
  BY <1>1, <1>2 DEF Rest, SetScheduler
<1> QED BY <1>8, <1>9, IInvNext

\* Block.
LEMMA BlockStep ==
  ASSUME IInv, NEW r \in Task, NEW s \in WaitUsed, Block(r, s)
  PROVE  IInv'
<1>1. Safe(k) /\ Rest
  BY IInvParts
<1>2. r \in Task \ {Idle} /\ r = Running(k) /\ s \in BlockedStates
  BY BoundAssumption DEF Block, Calls, BlockedStates
<1>3. KInv(k') /\ k'.lock = k.lock
  BY <1>1, <1>2, SafeFacts, BlockInv DEF Block
<1>4. Safe(k')
  BY <1>1, <1>3, SameSafe
<1>5. Rest'
  BY <1>1 DEF Rest, Block
<1> QED BY <1>4, <1>5, IInvNext

\* TaskActivate and Wakeup.
LEMMA UnblockStep ==
  ASSUME IInv, NEW t \in Task, Wakeup(t) \/ \E r \in Task : TaskActivate(r, t)
  PROVE  IInv'
<1>1. Safe(k) /\ Rest
  BY IInvParts
<1>2. k.state[t] \in BlockedStates /\ k' = up_unblock_task(k, t)
  BY DEF Wakeup, TaskActivate, BlockedStates
<1>3. Safe(k')
  BY <1>1, <1>2, UnblockSafe
<1>4. Rest'
  BY <1>1 DEF Rest, Wakeup, TaskActivate
<1> QED BY <1>3, <1>4, IInvNext

\* The timer interrupt.
LEMMA TickStep ==
  ASSUME IInv, Tick
  PROVE  IInv'
<1>1. Safe(k) /\ Rest
  BY IInvParts
<1>2. Idle \notin rr
  BY <1>1 DEF Rest, User
<1>3. KInv(k') /\ k'.lock = k.lock
  BY <1>1, <1>2, SafeFacts, TimesliceInv DEF Tick
<1>4. Safe(k')
  BY <1>1, <1>3, SameSafe
<1>5. Rest'
  BY <1>1 DEF Rest, Tick
<1> QED BY <1>4, <1>5, IInvNext

\* task_schedsetup(): the lock is taken and released again.
LEMMA TaskSetupStep ==
  ASSUME IInv, NEW r \in Task, NEW t \in Task, NEW p \in Prio, TaskSetup(r, t, p)
  PROVE  IInv'
<1> DEFINE k1 == sched_lock(k)
           k2 == MadeInactive(k1, t, p)
           k3 == sched_unlock(k2)
           h == Running(k)
<1>1. Safe(k) /\ Rest
  BY IInvParts
<1>2. /\ t \in User /\ t \in Task \ {Idle} /\ k.state[t] = "INVALID" /\ k' = k3
      /\ p \in Nat /\ p >= SCHED_PRIORITY_MIN
  BY PrioFacts DEF TaskSetup, Exists, User
<1>3. KInv(k) /\ Lists(k) /\ k.lock \in [Task -> Nat] /\ h \in Task /\ k.lock[h] < MAX_LOCK_COUNT
  BY <1>1, SafeFacts
<1>4. KInv(k1) /\ SameLists(k, k1) /\ k1.lock = [k.lock EXCEPT ![h] = @ + 1]
  BY <1>3, LockInv
<1> HIDE DEF k1
<1>5. Lists(k1) /\ HeadRuns(k1) /\ k1.state[t] = "INVALID" /\ Running(k1) = h
      /\ (k1.pend # << >> => k1.lock[h] > 0)
  BY <1>2, <1>4 DEF KInv, SameLists, Running
<1>6. /\ Lists(k2) /\ (HeadRuns(k1) => HeadRuns(k2))
      /\ k2.rtr = k1.rtr /\ k2.pend = k1.pend /\ k2.lock = k1.lock
  BY <1>2, <1>5, InactiveFacts
<1> HIDE DEF k2
<1>7. KInv(k2) /\ Running(k2) = h
  BY <1>5, <1>6 DEF KInv, Running
<1>8. KInv(k3) /\ k3.lock = [k2.lock EXCEPT ![Running(k2)] = IF @ > 0 THEN @ - 1 ELSE 0]
  BY <1>7, UnlockInv
<1> HIDE DEF k3
<1>9. ASSUME NEW u \in Task PROVE k3.lock[u] <= k.lock[u]
  <2> DEFINE L == k.lock
  <2>1. /\ k3.lock = [[L EXCEPT ![h] = @ + 1] EXCEPT ![h] = IF @ > 0 THEN @ - 1 ELSE 0]
        /\ L \in [Task -> Nat] /\ h \in Task
    BY <1>3, <1>4, <1>6, <1>7, <1>8
  <2> HIDE DEF L, h
  <2>2. k3.lock[u] <= L[u]
    BY <2>1
  <2> QED BY <2>2 DEF L
<1>10. Safe(k')
  BY <1>1, <1>2, <1>8, <1>9, LowerSafe, Zenon
<1>11. Rest'
  <2>1. init_prio' = [init_prio EXCEPT ![t] = p] /\ rr' = rr /\ pc' = pc
    BY DEF TaskSetup
  <2>2. init_prio' \in [Task -> Nat] /\ IdleLowest(init_prio')
    BY <1>1, <1>2, <2>1 DEF Rest, IdleLowest, SCHED_PRIORITY_MIN
  <2> QED BY <1>1, <2>1, <2>2 DEF Rest
<1> QED BY <1>10, <1>11, IInvNext

\* The variables other than k after a task is freed.
LEMMA FreedRest ==
  ASSUME Rest, NEW t \in User, rr' = rr \ {t}, pc' = [pc EXCEPT ![t] = "user"],
         init_prio' = [init_prio EXCEPT ![t] = SCHED_PRIORITY_MIN]
  PROVE  Rest'
<1>1. init_prio' \in [Task -> Nat] /\ IdleLowest(init_prio')
  BY DEF Rest, IdleLowest, SCHED_PRIORITY_MIN, User
<1> QED BY <1>1 DEF Rest

\* task_delete() of another task.
LEMMA TaskDeleteStep ==
  ASSUME IInv, NEW r \in Task, NEW t \in Task, TaskDelete(r, t)
  PROVE  IInv'
<1>1. Safe(k) /\ Rest
  BY IInvParts
<1>2. /\ t \in User /\ t \in Task \ {Idle} /\ t # Running(k) /\ k.state[t] # "INVALID"
      /\ k' = task_delete(k, t)
  BY DEF TaskDelete, Calls, Exists, User
<1>3. KInv(k) /\ k.lock \in [Task -> Nat] /\ k.lock[Running(k)] < MAX_LOCK_COUNT
  BY <1>1, SafeFacts
<1>4. KInv(k') /\ k'.lock = [k.lock EXCEPT ![t] = 0]
  BY <1>2, <1>3, DeleteInv
<1>5. \A u \in Task : k'.lock[u] <= k.lock[u]
  BY <1>3, <1>4
<1>6. Safe(k')
  BY <1>1, <1>4, <1>5, LowerSafe, Zenon
<1>7. Rest'
  BY <1>1, <1>2, FreedRest, Zenon DEF TaskDelete
<1> QED BY <1>6, <1>7, IInvNext

\* exit().
LEMMA ExitStep ==
  ASSUME IInv, NEW r \in Task, Exit(r)
  PROVE  IInv'
<1> DEFINE n == k.rtr[2]
<1>1. Safe(k) /\ Rest
  BY IInvParts
<1>2. /\ r \in User /\ r \in Task \ {Idle} /\ r = Running(k)
      /\ k.lock[n] < LockBound /\ k' = task_deletecurrent(k)
  BY DEF Exit, Calls, User, MayLock
<1>3. KInv(k) /\ Lists(k) /\ k.lock \in [Task -> Nat]
  BY <1>1, SafeFacts
<1>4. n \in Task
  <2>1. r \in ToSet(k.rtr) \ {Idle}
    BY <1>2, <1>3, ListsFacts
  <2>2. /\ Lists(sched_removereadytorun(k, r))
        /\ Running(sched_removereadytorun(k, r)) = IF Running(k) = r THEN k.rtr[2] ELSE Running(k)
    BY <1>3, <2>1, RemoveReady
  <2> QED BY <1>2, <2>2, ListsFacts
<1>5. k.lock[n] \in Nat /\ k.lock[n] + 1 <= LockBound /\ k.lock[n] + 1 < MAX_LOCK_COUNT
  BY <1>2, <1>3, <1>4, BoundAssumption, LockAssumption
<1>6. KInv(k') /\ \A u \in Task : k'.lock[u] <= k.lock[u] + (IF u = n THEN 1 ELSE 0)
  BY <1>2, <1>3, <1>5, ExitInv
<1>7. k'.lock \in [Task -> Nat]
  BY <1>6, ListsFacts, KernelFields DEF KInv
<1> HIDE DEF n
<1>8. ASSUME NEW u \in Task PROVE k'.lock[u] <= LockBound
  <2>1. k.lock[u] <= LockBound
    BY <1>1 DEF Safe
  <2> QED BY <1>3, <1>5, <1>6, <1>7, <2>1, BoundAssumption
<1>9. Safe(k')
  BY <1>6, <1>8 DEF Safe
<1>10. Rest'
  BY <1>1, <1>2, FreedRest, Zenon DEF Exit
<1> QED BY <1>9, <1>10, IInvNext

\* task_restart() of another task.
LEMMA TaskRestartStep ==
  ASSUME IInv, NEW r \in Task, NEW t \in Task, TaskRestart(r, t)
  PROVE  IInv'
<1> DEFINE k1 == sched_lock(k)
           k2 == Unlist(k1, t)
           p == init_prio[t]
           k3 == MadeInactive(k2, t, p)
<1>1. Safe(k) /\ Rest
  BY IInvParts
<1>2. /\ t \in Task \ {Idle} /\ t # Running(k) /\ k.state[t] # "INVALID"
      /\ k.lock[Running(k)] < LockBound /\ k' = up_unblock_task(k3, t)
  BY DEF TaskRestart, Calls, MayLock, Exists, User
<1>3. p \in Nat /\ p >= SCHED_PRIORITY_MIN
  BY <1>1, <1>2 DEF Rest, IdleLowest, SCHED_PRIORITY_MIN
<1> HIDE DEF p
<1>4. Safe(k1) /\ SameLists(k, k1) /\ Running(k1) = Running(k)
  BY <1>1, <1>2, LockSafe, Zenon
<1> HIDE DEF k1
<1>5. /\ KInv(k1) /\ Lists(k1) /\ HeadRuns(k1) /\ k1.state \in [Task -> TaskStates]
      /\ k1.state = k.state
  BY <1>4, SafeFacts DEF SameLists
<1>6. k1.state[t] # "INVALID" /\ k1.state[t] # "RUNNING" /\ t # Running(k1)
  BY <1>2, <1>4, <1>5 DEF HeadRuns, Running
<1>7. /\ Lists(k2) /\ (HeadRuns(k1) => HeadRuns(k2)) /\ Running(k2) = Running(k1)
      /\ k2.lock = k1.lock /\ k2.state = [k1.state EXCEPT ![t] = "INVALID"]
      /\ k2.pend # << >> => k1.pend # << >>
  BY <1>2, <1>5, <1>6, UnlistFacts
<1> HIDE DEF k2
<1>8. k2.state[t] = "INVALID"
  BY <1>5, <1>7, Zenon
<1>9. /\ Lists(k3) /\ (HeadRuns(k2) => HeadRuns(k3))
      /\ k3.rtr = k2.rtr /\ k3.pend = k2.pend /\ k3.lock = k2.lock
      /\ k3.state[t] = "INACTIVE"
  <2>1. Lists(k2) /\ t \in Task \ {Idle} /\ p \in Nat /\ p >= SCHED_PRIORITY_MIN
    BY <1>2, <1>3, <1>7
  <2> QED BY <1>8, <2>1, InactiveFacts
<1> HIDE DEF k3
<1>10. KInv(k3)
  <2>1. Running(k3) = Running(k1) /\ k3.lock = k1.lock
    BY <1>7, <1>9 DEF Running
  <2> QED BY <1>5, <1>7, <1>9, <2>1 DEF KInv
<1>11. Safe(k3)
  BY <1>4, <1>7, <1>9, <1>10, SameSafe
<1>12. Safe(k')
  BY <1>2, <1>9, <1>11, UnblockSafe DEF BlockedStates
<1>13. Rest'
  BY <1>1 DEF Rest, TaskRestart
<1> QED BY <1>12, <1>13, IInvNext

-----------------------------------------------------------------------------
(* The theorems.                                                           *)

\* os_start() establishes the invariant.
LEMMA InitIInv == Init => IInv
<1> SUFFICES ASSUME Init PROVE IInv
  OBVIOUS
<1>1. /\ k.rtr = <<Idle>> /\ k.pend = << >> /\ k.blk = [s \in BlockedStates |-> << >>]
      /\ k.state = [t \in Task |-> IF t = Idle THEN "RUNNING" ELSE "INVALID"]
      /\ k.prio = [t \in Task |-> IF t = Idle THEN 0 ELSE SCHED_PRIORITY_MIN]
      /\ k.lock = [t \in Task |-> 0] /\ k.panic = FALSE
  BY DEF Init
<1>2. k \in Kernel
  BY TaskAssumption DEF Init, Kernel, TaskStates, SCHED_PRIORITY_MIN
<1>3. ToSet(<<Idle>>) = {Idle} /\ ToSet(<< >>) = {}
  BY EmptySet, TaskAssumption DEF ToSet
<1>4. ASSUME NEW t \in Task PROVE Member(k, t)
  BY <1>1, <1>3, TaskAssumption DEF Member, BlockedStates, WaitStates
<1>5. Ordered(k)
  BY <1>1 DEF Ordered, Inj, Desc
<1>6. k.rtr # << >> /\ Last(k.rtr) = Idle
  BY <1>1 DEF Last
<1>7. IdleLowest(k.prio)
  BY <1>1, TaskAssumption DEF IdleLowest, SCHED_PRIORITY_MIN
<1>8. HeadRuns(k)
  BY <1>1 DEF HeadRuns
<1>9. Lists(k)
  BY <1>1, <1>2, <1>4, <1>5, <1>6, <1>7 DEF Lists
<1>10. Safe(k)
  BY <1>1, <1>8, <1>9, BoundAssumption DEF Safe, KInv
<1>11. Rest
  <2>1. rr = {} /\ init_prio = k.prio /\ pc = [t \in Task |-> "user"]
    BY DEF Init
  <2>2. k.prio \in [Task -> Nat]
    BY <1>2, KernelFields
  <2> QED BY <2>1, <2>2, <1>7 DEF Rest
<1> QED BY <1>10, <1>11, IInvParts

\* Every service and every interrupt preserves the invariant.
LEMMA NextIInv == IInv /\ [Next]_vars => IInv'
<1> SUFFICES ASSUME IInv, [Next]_vars PROVE IInv'
  OBVIOUS
<1>1. CASE UNCHANGED vars
  BY <1>1 DEF IInv, TypeOK, vars
<1>2. ASSUME NEW r \in Task, Lock(r) \/ TaskRestartError(r) PROVE IInv'
  BY <1>2, LockStep
<1>3. ASSUME NEW r \in Task, Unlock(r) PROVE IInv'
  BY <1>3, UnlockStep
<1>4. ASSUME NEW r \in Task, Yield(r) PROVE IInv'
  BY <1>4, YieldStep
<1>5. ASSUME NEW r \in Task, Exit(r) PROVE IInv'
  BY <1>5, ExitStep
<1>6. ASSUME NEW r \in Task, NEW s \in WaitUsed, Block(r, s) PROVE IInv'
  BY <1>6, BlockStep
<1>7. ASSUME NEW r \in Task, NEW t \in Task, TaskActivate(r, t) PROVE IInv'
  BY <1>7, UnblockStep
<1>8. ASSUME NEW r \in Task, NEW t \in Task, TaskDelete(r, t) PROVE IInv'
  BY <1>8, TaskDeleteStep
<1>9. ASSUME NEW r \in Task, NEW t \in Task, TaskRestart(r, t) PROVE IInv'
  BY <1>9, TaskRestartStep
<1>10. ASSUME NEW r \in Task, NEW t \in Task, NEW p \in Prio, SetParam(r, t, p) PROVE IInv'
  BY <1>10, SetParamStep
<1>11. ASSUME NEW r \in Task, NEW t \in Task, NEW p \in Prio, TaskSetup(r, t, p) PROVE IInv'
  BY <1>11, TaskSetupStep
<1>12. ASSUME NEW r \in Task, NEW t \in Task, NEW p \in Prio, NEW robin \in BOOLEAN,
              SetScheduler(r, t, robin, p)
       PROVE  IInv'
  BY <1>12, SetSchedulerStep
<1>13. ASSUME NEW t \in Task, Wakeup(t) PROVE IInv'
  BY <1>13, UnblockStep
<1>14. CASE Tick
  BY <1>14, TickStep
<1> QED
  BY <1>1, <1>2, <1>3, <1>4, <1>5, <1>6, <1>7, <1>8, <1>9, <1>10, <1>11, <1>12, <1>13, <1>14
  DEF Next

\* In every reachable state the lists are well formed, their head runs, and
\* tasks are pending only while the running task has pre-emption disabled.
THEOREM Invariance == Spec => []IInv
<1>1. Init => IInv
  BY InitIInv
<1>2. IInv /\ [Next]_vars => IInv'
  BY NextIInv
<1> QED BY <1>1, <1>2, PTL DEF Spec

\* The kernel record, the flags and the histories keep their types.
THEOREM TypeCorrect == Spec => []TypeOK
<1>1. IInv => TypeOK
  BY DEF IInv
<1> QED BY <1>1, Invariance, PTL

\* No TCB is lost or listed twice, and the prioritized lists are ordered.
THEOREM ListsCorrect == Spec => []ListsMatchStates
<1>1. IInv => ListsMatchStates
  BY DEF IInv, KInv, Lists, ListsMatchStates
<1> QED BY <1>1, Invariance, PTL

\* The head of g_readytorun runs and its tail is the idle task.
THEOREM HeadCorrect == Spec => []HeadRunsIdleLast
<1>1. IInv => HeadRunsIdleLast
  BY DEF IInv, KInv, Lists, HeadRunsIdleLast
<1> QED BY <1>1, Invariance, PTL

\* A task is pending only while the running task has pre-emption disabled.
THEOREM PendingCorrect == Spec => []PendingOnlyWhileLocked
<1>1. IInv => PendingOnlyWhileLocked
  BY DEF IInv, KInv, PendingOnlyWhileLocked
<1> QED BY <1>1, Invariance, PTL

\* No ASSERT and no PANIC of the scheduler fires.
THEOREM NeverPanics == Spec => []NoPanic
<1>1. IInv => NoPanic
  BY DEF IInv, KInv, Lists, NoPanic
<1> QED BY <1>1, Invariance, PTL

\* With pre-emption enabled, the running task has the highest priority of
\* all the tasks that are ready to run or pending.
THEOREM PriorityScheduling == Spec => []HighestRuns
<1>1. ASSUME IInv PROVE HighestRuns
  <2> SUFFICES ASSUME k.lock[Running(k)] = 0, NEW t \in ToSet(k.rtr) \cup ToSet(k.pend)
               PROVE  k.prio[t] <= k.prio[Running(k)]
    BY DEF HighestRuns
  <2>1. Lists(k) /\ k.pend = << >>
    BY <1>1 DEF IInv, KInv
  <2>2. /\ k.rtr \in Seq(Task) /\ k.rtr # << >> /\ Desc(k.rtr, k.prio) /\ k.prio \in [Task -> Nat]
    BY <2>1, ListsFacts, KernelFields, Zenon DEF Lists, Ordered
  <2>3. t \in ToSet(k.rtr)
    BY <2>1, EmptySet
  <2>4. PICK i \in 1..Len(k.rtr) : k.rtr[i] = t
    BY <2>2, <2>3, InToSet
  <2>5. k.rtr[1] = Running(k) /\ k.rtr[1] \in Task /\ t \in Task
    BY <2>2, <2>4 DEF Running
  <2>6. CASE i = 1
    BY <2>2, <2>4, <2>5, <2>6
  <2>7. CASE i > 1
    BY <2>2, <2>4, <2>5, <2>7 DEF Desc
  <2> QED BY <2>4, <2>6, <2>7
<1> QED BY <1>1, Invariance, PTL

\* The timer interrupt and wake-ups leave the CPU to a task that has
\* pre-emption disabled.
THEOREM LockProtects == Spec => LockHoldsOffInterrupts
<1> DEFINE A == (Tick \/ \E t \in Task : Wakeup(t)) /\ k.lock[Running(k)] > 0
                  => Running(k') = Running(k)
<1>1. ASSUME IInv, Tick, k.lock[Running(k)] > 0 PROVE Running(k') = Running(k)
  <2>1. KInv(k) /\ Idle \notin rr
    BY <1>1 DEF IInv, TypeOK, User
  <2> QED BY <1>1, <2>1, TimesliceInv DEF Tick
<1>2. ASSUME IInv, NEW t \in Task, Wakeup(t), k.lock[Running(k)] > 0
      PROVE  Running(k') = Running(k)
  BY <1>2, IInvParts, UnblockSafe DEF Wakeup, BlockedStates
<1>3. IInv => [A]_vars
  BY <1>1, <1>2
<1> QED BY <1>3, Invariance, PTL DEF LockHoldsOffInterrupts
=============================================================================
