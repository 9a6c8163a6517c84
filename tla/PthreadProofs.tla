--------------------------- MODULE PthreadProofs ---------------------------
(***************************************************************************)
(* Mutual exclusion of the mutex of Pthread, that every wait for the       *)
(* condition returns with the mutex, that a broadcast sets all waiting     *)
(* threads free, and that no wake-up is lost, for any number of threads.   *)
(***************************************************************************)
EXTENDS Pthread, FiniteSetTheorems, TLAPS

Labels == {"user", "lock", "cw1", "cw2", "cw3", "cw4", "tw1", "tw2", "tw3", "sig", "pass"}
TakeAt(s, l) == [at |-> "take", sem |-> s, then |-> At(l)]

\* The places of the threads.
Place(k) ==
  \/ \E l \in Labels : k = At(l)
  \/ \E l \in {"lock", "cw4", "tw2"} : k = TakeAt("mutex", l)
  \/ k = TakeAt("cond", "cw2")
  \/ k = TakeAt("barrier", "pass")
  \/ k.at \in {"bc", "open"} /\ DOMAIN k = {"at", "n"}

TypeInv ==
  /\ sem \in [Sem -> SemRecord]
  /\ res \in [Thread -> {"OK", "EINTR"}]
  /\ pc = [t \in Thread |-> pc[t]] /\ \A t \in Thread : Place(pc[t])
  /\ pid \in Thread \cup {NoThread}
  /\ want \subseteq Thread

\* A thread in the queue of a semaphore is at the place that waits for it.
QueueInv ==
  \A t \in Thread :
    /\ t \in sem["mutex"].q => /\ pc[t].at = "take" /\ pc[t].sem = "mutex"
                               /\ res[t] = "OK"
    /\ t \in sem["cond"].q => pc[t] \in {At("tw1"), TakeAt("cond", "cw2")}
    /\ t \in sem["barrier"].q => pc[t] = TakeAt("barrier", "pass")

\* The owner of the mutex is at a place where it may own it.
OwnerInv == pid # NoThread => pc[pid].at \in {"user", "sig", "bc", "tw3"}

\* A thread that wants an item is at a place of the waits, or owns the mutex.
WantInv ==
  \A t \in want :
    \/ pc[t].at \in {"user", "tw3"} /\ pid = t
    \/ pc[t].at \in {"cw1", "cw2", "cw3", "cw4", "tw1", "tw2"}
    \/ pc[t] \in {TakeAt("mutex", "cw4"), TakeAt("mutex", "tw2"), TakeAt("cond", "cw2")}

IInv == TypeInv /\ QueueInv /\ MutexSound /\ OwnerInv /\ WantInv

-----------------------------------------------------------------------------

\* The steps are first-order, except where they cite SMT.
USE Zenon

\* The initial states satisfy the invariant.
LEMMA InitInv == Init => IInv
<1> SUFFICES ASSUME Init PROVE IInv
  OBVIOUS
<1> USE PthreadAssumption DEF Init, ThreadsInit, SemInit, At
<1>1. TypeInv
  BY DEF TypeInv, SemRecord, Place, Labels
<1>2. QueueInv /\ OwnerInv /\ WantInv
  BY DEF QueueInv, OwnerInv, WantInv
<1>3. MutexSound
  BY DEF MutexSound, HasMutex
<1> QED
  BY <1>1, <1>2, <1>3 DEF IInv

-----------------------------------------------------------------------------
(* What the operations on semaphores change.                               *)

\* sem_wait() takes a count of s, or puts t into its queue.
LEMMA SemWaitEffect ==
  ASSUME sem \in [Sem -> SemRecord], res \in [Thread -> {"OK", "EINTR"}],
         NEW t \in Thread, NEW s \in Sem, SemWait(t, s)
  PROVE  /\ sem' \in [Sem -> SemRecord] /\ res' \in [Thread -> {"OK", "EINTR"}]
         /\ \A r \in Sem : r # s => sem'[r] = sem[r]
         /\ \/ sem[s].cnt > 0 /\ sem'[s].cnt = sem[s].cnt - 1 /\ sem'[s].q = sem[s].q
            \/ ~(sem[s].cnt > 0) /\ sem'[s].cnt = sem[s].cnt /\ sem'[s].q = sem[s].q \cup {t}
         /\ res'[t] = "OK" /\ \A u \in Thread : u # t => res'[u] = res[u]
<1>1. sem[s] \in [cnt : Nat, q : SUBSET Thread]
  BY DEF SemRecord
<1>2. CASE sem[s].cnt > 0
  <2>1. sem' = [sem EXCEPT ![s] = Taken(sem[s])]
    BY <1>2 DEF SemWait, Waited
  <2>2. /\ Taken(sem[s]) \in SemRecord
        /\ Taken(sem[s]).cnt = sem[s].cnt - 1 /\ Taken(sem[s]).q = sem[s].q
    BY <1>1, <1>2, SMT DEF Taken, SemRecord
  <2> QED
    BY <1>2, <2>1, <2>2 DEF SemWait
<1>3. CASE ~(sem[s].cnt > 0)
  <2>1. sem' = [sem EXCEPT ![s] = Queued(sem[s], t)]
    BY <1>3 DEF SemWait, Waited
  <2>2. /\ Queued(sem[s], t) \in SemRecord
        /\ Queued(sem[s], t).cnt = sem[s].cnt /\ Queued(sem[s], t).q = sem[s].q \cup {t}
    BY <1>1 DEF Queued, SemRecord
  <2> QED
    BY <1>3, <2>1, <2>2 DEF SemWait
<1> QED
  BY <1>2, <1>3

\* What a post makes of a semaphore.
LEMMA PostedEffect ==
  ASSUME NEW x \in SemRecord, NEW y \in Posted(x)
  PROVE  /\ y \in SemRecord
         /\ \/ x.q = {} /\ y.cnt = x.cnt + 1 /\ y.q = {}
            \/ \E w \in x.q : y.cnt = x.cnt /\ y.q = x.q \ {w}
<1>1. CASE x.q = {}
  <2>1. y = [x EXCEPT !.cnt = x.cnt + 1]
    BY <1>1 DEF Posted
  <2> QED
    BY <1>1, <2>1, SMT DEF SemRecord
<1>2. CASE x.q # {}
  <2>1. PICK w \in x.q : y = [x EXCEPT !.q = x.q \ {w}]
    BY <1>2 DEF Posted
  <2> QED
    BY <1>2, <2>1 DEF SemRecord
<1> QED
  BY <1>1, <1>2

\* sem_post() adds a count to s, or takes one thread out of its queue.
LEMMA SemPostEffect ==
  ASSUME sem \in [Sem -> SemRecord], NEW s \in Sem, SemPost(s)
  PROVE  /\ sem' \in [Sem -> SemRecord]
         /\ \A r \in Sem : r # s => sem'[r] = sem[r]
         /\ \/ sem[s].q = {} /\ sem'[s].cnt = sem[s].cnt + 1 /\ sem'[s].q = {}
            \/ \E w \in sem[s].q : sem'[s].cnt = sem[s].cnt /\ sem'[s].q = sem[s].q \ {w}
         /\ res' = res
<1>1. PICK x \in Posted(sem[s]) : sem' = [sem EXCEPT ![s] = x]
  BY DEF SemPost
<1>2. /\ x \in SemRecord
      /\ \/ sem[s].q = {} /\ x.cnt = sem[s].cnt + 1 /\ x.q = {}
         \/ \E w \in sem[s].q : x.cnt = sem[s].cnt /\ x.q = sem[s].q \ {w}
  BY PostedEffect
<1> QED
  BY <1>1, <1>2 DEF SemPost

\* The end of a wait takes t out of the queue of one semaphore.
LEMMA SemEndEffect ==
  ASSUME sem \in [Sem -> SemRecord], res \in [Thread -> {"OK", "EINTR"}],
         NEW t \in Thread, SemEnd(t, "EINTR")
  PROVE  /\ sem' \in [Sem -> SemRecord] /\ res' \in [Thread -> {"OK", "EINTR"}]
         /\ \E s \in Sem : /\ t \in sem[s].q
                           /\ \A r \in Sem : r # s => sem'[r] = sem[r]
                           /\ sem'[s].cnt = sem[s].cnt /\ sem'[s].q = sem[s].q \ {t}
         /\ res'[t] = "EINTR" /\ \A u \in Thread : u # t => res'[u] = res[u]
<1>1. PICK s \in Sem : t \in sem[s].q /\ sem' = [sem EXCEPT ![s] = [sem[s] EXCEPT !.q = sem[s].q \ {t}]]
  BY DEF SemEnd
<1>2. /\ [sem[s] EXCEPT !.q = sem[s].q \ {t}] \in SemRecord
      /\ [sem[s] EXCEPT !.q = sem[s].q \ {t}].cnt = sem[s].cnt
      /\ [sem[s] EXCEPT !.q = sem[s].q \ {t}].q = sem[s].q \ {t}
  BY DEF SemRecord
<1> QED
  BY <1>1, <1>2 DEF SemEnd

-----------------------------------------------------------------------------
(* The kinds of steps.                                                     *)

\* t has, or waits for, the count of the mutex at the place k.
MutexPlace(k) == k.at \in {"lock", "cw4", "tw2"} \/ (k.at = "take" /\ k.sem = "mutex")

\* A place where a thread that wants an item may be without the mutex.
WantPlace(k) ==
  \/ k.at \in {"cw1", "cw2", "cw3", "cw4", "tw1", "tw2"}
  \/ k \in {TakeAt("mutex", "cw4"), TakeAt("mutex", "tw2"), TakeAt("cond", "cw2")}

\* A step of t that has nothing to do with the mutex.
LEMMA Elsewhere ==
  ASSUME IInv, NEW t \in Thread, ~Blocked(t), NEW k, Place(k),
         pc' = [pc EXCEPT ![t] = k],
         sem' \in [Sem -> SemRecord], res' \in [Thread -> {"OK", "EINTR"}],
         sem'["mutex"] = sem["mutex"], \A u \in Thread : u # t => res'[u] = res[u],
         \A s \in Sem : sem'[s].q \subseteq sem[s].q \cup {t},
         t \in sem'["cond"].q => k = TakeAt("cond", "cw2"),
         t \in sem'["barrier"].q => k = TakeAt("barrier", "pass"),
         ~MutexPlace(pc[t]), ~MutexPlace(k),
         pid' = pid, pid = t => k.at \in {"user", "sig", "bc", "tw3"},
         want' = want, t \in want => WantPlace(k) \/ (k.at = "user" /\ pid = t)
  PROVE  IInv'
<1> USE PthreadAssumption DEF IInv
<1>1. pc'[t] = k /\ \A u \in Thread : u # t => pc'[u] = pc[u]
  BY DEF TypeInv
<1>2. TypeInv'
  BY <1>1 DEF TypeInv
<1>3. t \notin sem["mutex"].q /\ t \notin sem["cond"].q /\ t \notin sem["barrier"].q
  BY DEF Blocked
<1>4. QueueInv'
  BY <1>1, <1>3, SMT DEF QueueInv, TypeInv
<1>5. \A u \in Thread : HasMutex(u)' <=> HasMutex(u)
  BY <1>1 DEF HasMutex, MutexPlace
<1>6. OwnerInv'
  BY <1>1 DEF OwnerInv, TypeInv
<1>7. MutexSound'
  <2>1. pid' # NoThread => pc'[pid'].at \notin {"lock", "cw1", "cw2", "cw3", "cw4", "tw1", "tw2"}
    BY <1>6 DEF OwnerInv
  <2> QED
    BY <1>5, <2>1 DEF MutexSound
<1>8. WantInv'
  BY <1>1 DEF WantInv, WantPlace, TypeInv
<1> QED
  BY <1>2, <1>4, <1>6, <1>7, <1>8

\* A step of t that takes the count of the mutex, or waits for it.
LEMMA TakesMutex ==
  ASSUME IInv, NEW t \in Thread, ~Blocked(t), ~HasMutex(t),
         NEW l \in {"lock", "cw4", "tw2"}, Take(t, "mutex", At(l)),
         pid' = pid, want' = want, t \in want => l # "lock"
  PROVE  IInv'
<1> USE PthreadAssumption DEF IInv
<1> DEFINE k == IF sem["mutex"].cnt > 0 THEN At(l) ELSE TakeAt("mutex", l)
<1>1. /\ sem' \in [Sem -> SemRecord] /\ res' \in [Thread -> {"OK", "EINTR"}]
      /\ \A r \in Sem : r # "mutex" => sem'[r] = sem[r]
      /\ \/ /\ sem["mutex"].cnt > 0 /\ sem'["mutex"].cnt = sem["mutex"].cnt - 1
            /\ sem'["mutex"].q = sem["mutex"].q
         \/ /\ ~(sem["mutex"].cnt > 0) /\ sem'["mutex"].cnt = sem["mutex"].cnt
            /\ sem'["mutex"].q = sem["mutex"].q \cup {t}
      /\ res'[t] = "OK" /\ \A u \in Thread : u # t => res'[u] = res[u]
  BY SemWaitEffect DEF Take, TypeInv
<1>2. pc'[t] = k /\ \A u \in Thread : u # t => pc'[u] = pc[u]
  BY DEF TypeInv, Take, TakeAt
<1>3. Place(k)
  BY DEF Place, Labels
<1>4. TypeInv'
  BY <1>1, <1>2, <1>3 DEF TypeInv, Take
<1>5. t \notin sem["mutex"].q /\ t \notin sem["cond"].q /\ t \notin sem["barrier"].q
  BY DEF Blocked
<1>6. QueueInv'
  BY <1>1, <1>2, <1>5, SMT DEF QueueInv, TakeAt
<1>7. pid # t
  BY DEF HasMutex
<1>8. OwnerInv'
  BY <1>2, <1>7 DEF OwnerInv, TypeInv
<1>9. \A u \in Thread : u # t => (HasMutex(u)' <=> HasMutex(u))
  BY <1>1, <1>2, SMT DEF HasMutex
<1>10. HasMutex(t)' <=> sem["mutex"].cnt > 0
  BY <1>1, <1>2, <1>5, <1>7, SMT DEF HasMutex, At, TakeAt
<1>11. MutexSound'
  <2>1. pid' # NoThread => pc'[pid'].at \notin {"lock", "cw1", "cw2", "cw3", "cw4", "tw1", "tw2"}
    BY <1>8 DEF OwnerInv
  <2> QED
    BY <1>1, <1>9, <1>10, <2>1, SMT DEF MutexSound
<1>12. WantInv'
  BY <1>2, SMT DEF WantInv, TypeInv, At
<1> QED
  BY <1>4, <1>6, <1>8, <1>11, <1>12

\* A step of t that takes a count of the condition or of the barrier, or
\* waits for it.
LEMMA TakesOther ==
  ASSUME IInv, NEW t \in Thread, ~Blocked(t), ~MutexPlace(pc[t]), pid # t,
         NEW s, NEW l, (s = "cond" /\ l = "cw2") \/ (s = "barrier" /\ l = "pass" /\ t \notin want),
         Take(t, s, At(l)), pid' = pid, want' = want
  PROVE  IInv'
<1> USE PthreadAssumption
<1> DEFINE k == IF sem[s].cnt > 0 THEN At(l) ELSE TakeAt(s, l)
<1>1. \A r \in Sem : t \notin sem[r].q
  BY DEF Blocked
<1>2. /\ sem' \in [Sem -> SemRecord] /\ res' \in [Thread -> {"OK", "EINTR"}]
      /\ \A r \in Sem : r # s => sem'[r] = sem[r]
      /\ \/ sem[s].cnt > 0 /\ sem'[s].q = sem[s].q
         \/ ~(sem[s].cnt > 0) /\ sem'[s].q = sem[s].q \cup {t}
      /\ \A u \in Thread : u # t => res'[u] = res[u]
  BY SemWaitEffect, SMT DEF Take, IInv, TypeInv
<1>3. pc' = [pc EXCEPT ![t] = k] /\ Place(k)
  BY DEF Take, TakeAt, Place, Labels
<1>4. ~MutexPlace(k) /\ (t \in want => WantPlace(k))
  BY DEF MutexPlace, WantPlace, At, TakeAt
<1>5. /\ \A r \in Sem : sem'[r].q \subseteq sem[r].q \cup {t}
      /\ t \in sem'["cond"].q => k = TakeAt("cond", "cw2")
      /\ t \in sem'["barrier"].q => k = TakeAt("barrier", "pass")
  BY <1>1, <1>2
<1>6. sem'["mutex"] = sem["mutex"]
  BY <1>2
<1> HIDE DEF k
<1> QED
  BY <1>2, <1>3, <1>4, <1>5, <1>6, Elsewhere

\* A step of t that makes it the owner of the mutex.
LEMMA Owns ==
  ASSUME IInv, NEW t \in Thread, pc[t].at \in {"lock", "cw4", "tw2"},
         NEW l \in {"user", "tw3"}, Goto(t, l),
         UNCHANGED <<sem, res, want>>, pid' = t
  PROVE  IInv'
<1> USE PthreadAssumption DEF IInv
<1>1. pc'[t] = At(l) /\ \A u \in Thread : u # t => pc'[u] = pc[u]
  BY DEF TypeInv, Goto
<1>2. Place(At(l))
  BY DEF Place, Labels
<1>3. TypeInv'
  BY <1>1, <1>2 DEF TypeInv, Goto
<1>4. \A s \in Sem : t \notin sem[s].q
  BY SMT DEF QueueInv, At, TakeAt
<1>5. QueueInv'
  BY <1>1, <1>4 DEF QueueInv
<1>6. OwnerInv'
  BY <1>1, SMT DEF OwnerInv, At
<1>7. HasMutex(t) /\ HasMutex(t)'
  BY DEF HasMutex
<1>8. \A u \in Thread : u # t => ~HasMutex(u)
  BY <1>7 DEF MutexSound
<1>9. \A u \in Thread : u # t => ~HasMutex(u)'
  BY <1>1, <1>8 DEF HasMutex
<1>10. MutexSound'
  <2>1. pid' # NoThread => pc'[pid'].at \notin {"lock", "cw1", "cw2", "cw3", "cw4", "tw1", "tw2"}
    BY <1>6 DEF OwnerInv
  <2>2. sem'["mutex"].cnt = 0
    BY <1>7 DEF MutexSound
  <2> QED
    BY <1>7, <1>9, <2>1, <2>2 DEF MutexSound
<1>11. WantInv'
  <2> SUFFICES ASSUME NEW u \in want
               PROVE  \/ pc'[u].at \in {"user", "tw3"} /\ pid' = u
                      \/ WantPlace(pc'[u])
    BY DEF WantInv, WantPlace
  <2>1. CASE u = t
    BY <1>1, <2>1, SMT DEF At
  <2>2. CASE u # t
    <3>1. pid # u
      BY <1>8, <2>2 DEF HasMutex, TypeInv
    <3> QED
      BY <1>1, <2>2, <3>1 DEF WantInv, WantPlace, TypeInv
  <2> QED
    BY <2>1, <2>2
<1> QED
  BY <1>3, <1>5, <1>6, <1>10, <1>11

\* A step of the owner t that gives the mutex up, to a waiting thread if there
\* is one; t may come to wait for the condition in the same step.
LEMMA GivesMutex ==
  ASSUME IInv, NEW t \in Thread, ~Blocked(t), pid = t, pc[t] = At("user"), pid' = NoThread,
         NEW l \in {"user", "cw1", "tw1"}, pc' = [pc EXCEPT ![t] = At(l)],
         sem' \in [Sem -> SemRecord], res' \in [Thread -> {"OK", "EINTR"}],
         \A u \in Thread : u # t => res'[u] = res[u],
         \/ /\ sem["mutex"].q = {} /\ sem'["mutex"].q = {}
            /\ sem'["mutex"].cnt = sem["mutex"].cnt + 1
         \/ \E w \in sem["mutex"].q : /\ sem'["mutex"].cnt = sem["mutex"].cnt
                                      /\ sem'["mutex"].q = sem["mutex"].q \ {w},
         sem'["barrier"] = sem["barrier"], sem'["cond"].q \subseteq sem["cond"].q \cup {t},
         t \in sem'["cond"].q => l = "tw1",
         want' \subseteq want \cup {t}, t \in want' => l # "user"
  PROVE  IInv'
<1> USE PthreadAssumption DEF IInv
<1>1. pc'[t] = At(l) /\ \A u \in Thread : u # t => pc'[u] = pc[u]
  BY DEF TypeInv
<1>2. Place(At(l))
  BY DEF Place, Labels
<1>3. TypeInv'
  BY <1>1, <1>2, SMT DEF TypeInv
<1>4. t \notin sem["mutex"].q /\ t \notin sem["cond"].q /\ t \notin sem["barrier"].q
  BY DEF Blocked
<1>5. QueueInv'
  BY <1>1, <1>4, SMT DEF QueueInv
<1>6. OwnerInv'
  BY DEF OwnerInv
<1>7. HasMutex(t) /\ \A u \in Thread : u # t => ~HasMutex(u)
  BY DEF HasMutex, MutexSound
<1>8. sem["mutex"].cnt = 0
  BY <1>7 DEF MutexSound
<1>9. ~HasMutex(t)'
  BY <1>1, SMT DEF HasMutex, At
<1>10. MutexSound'
  <2>1. CASE sem["mutex"].q = {} /\ sem'["mutex"].q = {} /\ sem'["mutex"].cnt = sem["mutex"].cnt + 1
    <3>1. \A u \in Thread : u # t => ~HasMutex(u)'
      BY <1>1, <1>7, <2>1, SMT DEF HasMutex
    <3> QED
      BY <1>8, <1>9, <2>1, <3>1, SMT DEF MutexSound
  <2>2. ASSUME NEW w \in sem["mutex"].q, sem'["mutex"].cnt = sem["mutex"].cnt,
               sem'["mutex"].q = sem["mutex"].q \ {w}
        PROVE  MutexSound'
    <3>1. w \in Thread /\ w # t
      BY <1>4, SMT DEF TypeInv, SemRecord
    <3>2. HasMutex(w)'
      BY <1>1, <2>2, <3>1, SMT DEF HasMutex, QueueInv
    <3>3. \A u \in Thread : u # w => ~HasMutex(u)'
      BY <1>1, <1>7, <1>9, <2>2, SMT DEF HasMutex
    <3> QED
      BY <1>8, <2>2, <3>1, <3>2, <3>3 DEF MutexSound
  <2> QED
    BY <2>1, <2>2
<1>11. WantInv'
  BY <1>1, SMT DEF WantInv, At, TypeInv
<1> QED
  BY <1>3, <1>5, <1>6, <1>10, <1>11

\* A signal or a timeout that ends a wait of t.
LEMMA InterruptedInv ==
  ASSUME IInv, NEW t \in Thread, Interrupted(t), pid' = pid, want' = want
  PROVE  IInv'
<1> USE PthreadAssumption DEF IInv
<1>1. /\ sem' \in [Sem -> SemRecord] /\ res' \in [Thread -> {"OK", "EINTR"}]
      /\ \E s \in Sem : /\ t \in sem[s].q
                        /\ \A r \in Sem : r # s => sem'[r] = sem[r]
                        /\ sem'[s].cnt = sem[s].cnt /\ sem'[s].q = sem[s].q \ {t}
      /\ res'[t] = "EINTR" /\ \A u \in Thread : u # t => res'[u] = res[u]
  BY SemEndEffect DEF Interrupted, TypeInv
<1>2. PICK s \in Sem : /\ t \in sem[s].q
                       /\ \A r \in Sem : r # s => sem'[r] = sem[r]
                       /\ sem'[s].cnt = sem[s].cnt /\ sem'[s].q = sem[s].q \ {t}
  BY <1>1
<1>3. pc' = pc
  BY DEF Interrupted
<1>4. TypeInv'
  BY <1>1, <1>3 DEF TypeInv
<1>5. t \notin sem'["mutex"].q
  BY <1>2, SMT DEF QueueInv, At, TakeAt
<1>6. QueueInv'
  BY <1>1, <1>2, <1>3, <1>5, SMT DEF QueueInv
<1>7. ~HasMutex(t) /\ ~HasMutex(t)'
  <2>1. pc[t].at \in {"take", "tw1"} /\ (pc[t].at = "take" /\ pc[t].sem = "mutex" => s = "mutex")
    BY <1>2, SMT DEF QueueInv, At, TakeAt
  <2>2. pid # t
    BY <2>1 DEF OwnerInv
  <2> QED
    BY <1>1, <1>2, <1>3, <2>1, <2>2 DEF HasMutex
<1>8. \A u \in Thread : u # t => (HasMutex(u)' <=> HasMutex(u))
  BY <1>1, <1>2, <1>3 DEF HasMutex
<1>9. sem'["mutex"].cnt = sem["mutex"].cnt
  BY <1>2
<1>10. MutexSound'
  BY <1>3, <1>7, <1>8, <1>9 DEF MutexSound
<1>11. OwnerInv' /\ WantInv'
  BY <1>3 DEF OwnerInv, WantInv
<1> QED
  BY <1>4, <1>6, <1>10, <1>11

\* A step that leaves the threads where they are and the mutex to its owner.
LEMMA SamePlaces ==
  ASSUME IInv, UNCHANGED <<sem, res, pc, pid>>, want' \subseteq want
  PROVE  IInv'
<1>1. MutexSound'
  BY DEF IInv, MutexSound, HasMutex
<1> QED
  BY <1>1 DEF IInv, TypeInv, QueueInv, OwnerInv, WantInv

-----------------------------------------------------------------------------
(* The actions.                                                            *)

\* pthread_mutex_trylock() takes the count and owns the mutex in one step.
LEMMA TryLockInv ==
  ASSUME IInv, NEW t \in Thread, TryLock(t)
  PROVE  IInv'
<1> USE PthreadAssumption DEF IInv
<1>1. ~Blocked(t) /\ pc[t] = At("user") /\ sem["mutex"].cnt > 0
  BY DEF TryLock, Idles, Calls, Runs
<1>2. pid' = t /\ UNCHANGED <<res, pc, want>>
  BY DEF TryLock, Own, uservars
<1>3. sem["mutex"] \in SemRecord /\ sem' = [sem EXCEPT !["mutex"] = Taken(sem["mutex"])]
  BY DEF TypeInv, TryLock
<1>4. /\ Taken(sem["mutex"]) \in SemRecord
      /\ Taken(sem["mutex"]).cnt = sem["mutex"].cnt - 1
      /\ Taken(sem["mutex"]).q = sem["mutex"].q
  BY <1>1, <1>3, SMT DEF Taken, SemRecord
<1>5. /\ sem' \in [Sem -> SemRecord]
      /\ \A s \in Sem : sem'[s].q = sem[s].q
      /\ sem'["mutex"].cnt = sem["mutex"].cnt - 1
  BY <1>3, <1>4 DEF TypeInv
<1>6. TypeInv'
  BY <1>2, <1>5 DEF TypeInv
<1>7. QueueInv'
  BY <1>2, <1>5 DEF QueueInv
<1>8. OwnerInv'
  BY <1>1, <1>2, SMT DEF OwnerInv, At
<1>9. \A u \in Thread : ~HasMutex(u)
  BY <1>1, SMT DEF MutexSound
<1>10. HasMutex(t)' /\ \A u \in Thread : u # t => ~HasMutex(u)'
  BY <1>2, <1>5, <1>9 DEF HasMutex
<1>11. sem["mutex"].cnt = 1
  BY <1>9 DEF MutexSound
<1>12. MutexSound'
  <2>1. pid' # NoThread => pc'[pid'].at \notin {"lock", "cw1", "cw2", "cw3", "cw4", "tw1", "tw2"}
    BY <1>8 DEF OwnerInv
  <2> QED
    BY <1>5, <1>10, <1>11, <2>1, SMT DEF MutexSound
<1>13. WantInv'
  <2>1. \A u \in want : pid # u
    BY <1>9 DEF HasMutex, TypeInv
  <2> QED
    BY <1>2, <2>1 DEF WantInv
<1> QED
  BY <1>6, <1>7, <1>8, <1>12, <1>13

\* pthread_mutex_lock(), _trylock() and _unlock().
LEMMA MutexActionsInv ==
  ASSUME IInv, NEW t \in Thread,
         Lock(t) \/ Locked(t) \/ Relock(t) \/ TryLock(t) \/ Unlock(t)
  PROVE  IInv'
<1> USE PthreadAssumption
<1>1. CASE Lock(t)
  <2>1. ~Blocked(t) /\ pc[t] = At("user") /\ pid # t /\ t \notin want
    BY <1>1 DEF Lock, Idles, Calls, Runs
  <2>2. ~HasMutex(t)
    BY <2>1, SMT DEF HasMutex, At
  <2> QED
    BY <1>1, <2>1, <2>2, TakesMutex DEF Lock, mutexvars, uservars
<1>2. CASE Locked(t)
  BY <1>2, Owns, SMT DEF Locked, Own, uservars, At
<1>3. CASE Relock(t)
  BY <1>3, SamePlaces DEF Relock, Own, uservars
<1>4. CASE TryLock(t)
  BY <1>4, TryLockInv
<1>5. CASE Unlock(t)
  <2>1. /\ ~Blocked(t) /\ pc[t] = At("user") /\ pid = t
        /\ want' = want \ {t} /\ pc' = pc
    BY <1>5 DEF Unlock, Calls, Runs
  <2>2. CASE Own(t, nlocks - 1) /\ UNCHANGED <<sem, res>>
    BY <2>1, <2>2, SamePlaces DEF Own
  <2>3. CASE Own(NoThread, 0) /\ Give("mutex")
    <3>1. /\ sem' \in [Sem -> SemRecord] /\ res' = res
          /\ \A r \in Sem : r # "mutex" => sem'[r] = sem[r]
          /\ \/ /\ sem["mutex"].q = {} /\ sem'["mutex"].q = {}
                /\ sem'["mutex"].cnt = sem["mutex"].cnt + 1
             \/ \E w \in sem["mutex"].q : /\ sem'["mutex"].cnt = sem["mutex"].cnt
                                          /\ sem'["mutex"].q = sem["mutex"].q \ {w}
      BY <2>3, SemPostEffect DEF Give, IInv, TypeInv
    <3>2. pc' = [pc EXCEPT ![t] = At("user")]
      BY <2>1 DEF IInv, TypeInv
    <3>3. t \notin sem["cond"].q
      BY <2>1 DEF Blocked
    <3>4. pid' = NoThread /\ res' \in [Thread -> {"OK", "EINTR"}]
      BY <2>3, <3>1 DEF Own, IInv, TypeInv
    <3> QED
      BY <2>1, <3>1, <3>2, <3>3, <3>4, GivesMutex
  <2> QED
    BY <1>5, <2>2, <2>3 DEF Unlock
<1> QED
  BY <1>1, <1>2, <1>3, <1>4, <1>5

\* pthread_cond_wait().
LEMMA CondWaitInv ==
  ASSUME IInv, NEW t \in Thread,
         CondWait(t) \/ CondWaitTakes(t) \/ CondWaitReturns(t)
  PROVE  IInv'
<1> USE PthreadAssumption
<1>1. CASE CondWait(t)
  <2>1. /\ ~Blocked(t) /\ pc[t] = At("user") /\ pid = t /\ want' = want \cup {t}
        /\ pid' = NoThread /\ pc' = [pc EXCEPT ![t] = At("cw1")] /\ SemPost("mutex")
    BY <1>1 DEF CondWait, Wants, Calls, Runs, Own, Goto, Give
  <2>2. /\ sem' \in [Sem -> SemRecord] /\ res' = res
        /\ \A r \in Sem : r # "mutex" => sem'[r] = sem[r]
        /\ \/ /\ sem["mutex"].q = {} /\ sem'["mutex"].q = {}
              /\ sem'["mutex"].cnt = sem["mutex"].cnt + 1
           \/ \E w \in sem["mutex"].q : /\ sem'["mutex"].cnt = sem["mutex"].cnt
                                        /\ sem'["mutex"].q = sem["mutex"].q \ {w}
    BY <2>1, SemPostEffect DEF IInv, TypeInv
  <2>3. t \notin sem["cond"].q /\ res' \in [Thread -> {"OK", "EINTR"}]
    BY <2>1, <2>2 DEF Blocked, IInv, TypeInv
  <2> QED
    BY <2>1, <2>2, <2>3, GivesMutex
<1>2. CASE CondWaitTakes(t)
  <2>1. ~Blocked(t) /\ pid' = pid /\ want' = want
    BY <1>2 DEF CondWaitTakes, Runs, mutexvars, uservars
  <2>2. \A s \in Sem : t \notin sem[s].q
    BY <2>1 DEF Blocked
  <2>3. CASE pc[t] = At("cw1") /\ Take(t, "cond", At("cw2"))
    <3>1. ~MutexPlace(pc[t]) /\ pid # t
      BY <2>3, SMT DEF MutexPlace, At, IInv, OwnerInv
    <3> QED
      BY <2>1, <2>3, <3>1, TakesOther
  <2>4. CASE pc[t] = At("cw2") /\ Goto(t, "cw3") /\ UNCHANGED <<sem, res>>
    <3>1. Place(At("cw3")) /\ ~MutexPlace(pc[t]) /\ ~MutexPlace(At("cw3")) /\ WantPlace(At("cw3")) /\ pid # t
      BY <2>4, SMT DEF MutexPlace, WantPlace, At, IInv, OwnerInv, Place, Labels
    <3> QED
      BY <2>1, <2>2, <2>4, <3>1, Elsewhere DEF Goto, IInv, TypeInv
  <2>5. CASE pc[t] = At("cw3") /\ Take(t, "mutex", At("cw4"))
    <3>1. ~HasMutex(t)
      BY <2>5, SMT DEF HasMutex, At, IInv, OwnerInv
    <3> QED
      BY <2>1, <2>5, <3>1, TakesMutex
  <2> QED
    BY <1>2, <2>3, <2>4, <2>5 DEF CondWaitTakes
<1>3. CASE CondWaitReturns(t)
  BY <1>3, Owns, SMT DEF CondWaitReturns, Own, uservars, At
<1> QED
  BY <1>1, <1>2, <1>3

\* pthread_cond_timedwait().
LEMMA TimedWaitInv ==
  ASSUME IInv, NEW t \in Thread,
         TimedWait(t) \/ TimedWaitTakes(t) \/ TimedWaitOwns(t) \/ TimedWaitReturns(t)
  PROVE  IInv'
<1> USE PthreadAssumption
<1>1. CASE TimedWait(t)
  <2>1. /\ ~Blocked(t) /\ pc[t] = At("user") /\ pid = t /\ want' = want \cup {t}
        /\ pid' = NoThread /\ pc' = [pc EXCEPT ![t] = At("tw1")]
        /\ res' = [res EXCEPT ![t] = "OK"]
    BY <1>1 DEF TimedWait, Wants, Calls, Runs, Own, Goto
  <2>2. PICK m \in Posted(sem["mutex"]) :
          sem' = [sem EXCEPT !["mutex"] = m, !["cond"] = Waited(sem["cond"], t)]
    BY <1>1 DEF TimedWait
  <2>3. sem["mutex"] \in SemRecord /\ sem["cond"] \in SemRecord
    BY DEF IInv, TypeInv
  <2>4. /\ m \in SemRecord
        /\ \/ sem["mutex"].q = {} /\ m.cnt = sem["mutex"].cnt + 1 /\ m.q = {}
           \/ \E w \in sem["mutex"].q : m.cnt = sem["mutex"].cnt /\ m.q = sem["mutex"].q \ {w}
    BY <2>3, PostedEffect
  <2>5. /\ Waited(sem["cond"], t) \in SemRecord
        /\ Waited(sem["cond"], t).q \subseteq sem["cond"].q \cup {t}
    <3>1. CASE sem["cond"].cnt > 0
      BY <2>3, <3>1, SMT DEF Waited, Taken, SemRecord
    <3>2. CASE ~(sem["cond"].cnt > 0)
      BY <2>3, <3>2 DEF Waited, Queued, SemRecord
    <3> QED
      BY <3>1, <3>2
  <2>6. /\ sem' \in [Sem -> SemRecord] /\ sem'["mutex"] = m
        /\ sem'["barrier"] = sem["barrier"] /\ sem'["cond"].q \subseteq sem["cond"].q \cup {t}
    BY <2>2, <2>4, <2>5 DEF IInv, TypeInv
  <2>7. res' \in [Thread -> {"OK", "EINTR"}] /\ \A u \in Thread : u # t => res'[u] = res[u]
    BY <2>1 DEF IInv, TypeInv
  <2> QED
    BY <2>1, <2>4, <2>6, <2>7, GivesMutex
<1>2. CASE TimedWaitTakes(t)
  <2>1. /\ ~Blocked(t) /\ pc[t] = At("tw1") /\ Take(t, "mutex", At("tw2"))
        /\ pid' = pid /\ want' = want
    BY <1>2 DEF TimedWaitTakes, Runs, mutexvars, uservars
  <2>2. ~HasMutex(t)
    BY <2>1, SMT DEF HasMutex, At, IInv, OwnerInv
  <2> QED
    BY <2>1, <2>2, TakesMutex
<1>3. CASE TimedWaitOwns(t)
  BY <1>3, Owns, SMT DEF TimedWaitOwns, Own, uservars, At
<1>4. CASE TimedWaitReturns(t)
  <2>1. /\ ~Blocked(t) /\ pc[t] = At("tw3") /\ pc' = [pc EXCEPT ![t] = At("user")]
        /\ UNCHANGED <<sem, res, pid, want>>
    BY <1>4 DEF TimedWaitReturns, Runs, Goto, mutexvars, uservars
  <2>2. /\ Place(At("user")) /\ ~MutexPlace(pc[t]) /\ ~MutexPlace(At("user"))
        /\ t \in want => pid = t
    BY <2>1, SMT DEF Place, Labels, MutexPlace, At, TakeAt, IInv, WantInv
  <2>3. \A s \in Sem : t \notin sem[s].q
    BY <2>1 DEF Blocked
  <2> QED
    BY <2>1, <2>2, <2>3, Elsewhere DEF At, IInv, TypeInv
<1> QED
  BY <1>1, <1>2, <1>3, <1>4

\* pthread_cond_signal() and pthread_cond_broadcast().
LEMMA CondSignalInv ==
  ASSUME IInv, NEW t \in Thread,
         CondSignal(t) \/ CondSignalPosts(t) \/ Broadcast(t) \/ BroadcastPosts(t)
  PROVE  IInv'
<1> USE PthreadAssumption
<1> DEFINE Posts == /\ sem' \in [Sem -> SemRecord] /\ res' = res
                    /\ sem'["mutex"] = sem["mutex"]
                    /\ \A s \in Sem : sem'[s].q \subseteq sem[s].q
<1>1. ~Blocked(t) /\ pid' = pid /\ want' = want
  BY DEF CondSignal, CondSignalPosts, Broadcast, BroadcastPosts, MaySignal, Calls, Runs,
         mutexvars, uservars
<1>2. \A s \in Sem : t \notin sem[s].q
  BY <1>1 DEF Blocked
<1>3. Give("cond") \/ UNCHANGED <<sem, res>> => Posts
  BY SemPostEffect DEF Give, IInv, TypeInv
<1>4. ASSUME NEW k, Place(k), ~MutexPlace(pc[t]), ~MutexPlace(k), Posts, t \notin want,
             pid = t => k.at \in {"user", "sig", "bc"}, pc' = [pc EXCEPT ![t] = k]
      PROVE  IInv'
  BY <1>1, <1>2, <1>4, Elsewhere DEF IInv, TypeInv
<1>5. CASE CondSignal(t)
  <2>1. CASE Goto(t, "sig")
    <3>1. /\ pc[t] = At("user") /\ t \notin want /\ Posts
          /\ Place(At("sig")) /\ ~MutexPlace(pc[t]) /\ ~MutexPlace(At("sig"))
      BY <1>3, <1>5, SMT DEF CondSignal, MaySignal, Calls, Place, Labels, MutexPlace, At
    <3> QED
      BY <1>4, <2>1, <3>1 DEF Goto, At
  <2>2. CASE UNCHANGED pc
    BY <1>1, <1>5, <2>2, SamePlaces DEF CondSignal
  <2> QED
    BY <1>5, <2>1, <2>2 DEF CondSignal
<1>6. CASE CondSignalPosts(t)
  <2>1. /\ pc[t] = At("sig") /\ pc' = [pc EXCEPT ![t] = At("user")] /\ Posts
        /\ Place(At("user")) /\ ~MutexPlace(pc[t]) /\ ~MutexPlace(At("user"))
    BY <1>3, <1>6, SMT DEF CondSignalPosts, Goto, Place, Labels, MutexPlace, At
  <2>2. t \notin want
    BY <2>1, SMT DEF IInv, WantInv, At, TakeAt
  <2> QED
    BY <1>4, <2>1, <2>2 DEF At
<1>7. CASE Broadcast(t)
  <2> DEFINE k == [at |-> "bc", n |-> Semcount(sem["cond"])]
  <2>1. pc[t] = At("user") /\ pc' = [pc EXCEPT ![t] = k] /\ Posts /\ t \notin want
    BY <1>3, <1>7 DEF Broadcast, MaySignal, Calls
  <2>2. k.at = "bc" /\ Place(k) /\ ~MutexPlace(pc[t]) /\ ~MutexPlace(k)
    BY <2>1, SMT DEF Place, MutexPlace, At
  <2> HIDE DEF k
  <2> QED
    BY <1>4, <2>1, <2>2
<1>8. CASE BroadcastPosts(t)
  <2>1. pc[t].at = "bc" /\ ~MutexPlace(pc[t])
    BY <1>8 DEF BroadcastPosts, MutexPlace
  <2>2. t \notin want
    BY <2>1, SMT DEF IInv, WantInv, At, TakeAt
  <2>3. CASE Give("cond") /\ pc' = [pc EXCEPT ![t] = [pc[t] EXCEPT !.n = pc[t].n + 1]]
    <3> DEFINE k == [pc[t] EXCEPT !.n = pc[t].n + 1]
    <3>1. Place(pc[t])
      BY DEF IInv, TypeInv
    <3>2. DOMAIN pc[t] = {"at", "n"}
      BY <2>1, <3>1, SMT DEF Place, At, TakeAt, Labels
    <3>3. DOMAIN k = {"at", "n"} /\ k.at = "bc"
      BY <2>1, <3>2
    <3> HIDE DEF k
    <3>4. Place(k) /\ ~MutexPlace(k)
      BY <3>3 DEF Place, MutexPlace
    <3>5. pc' = [pc EXCEPT ![t] = k]
      BY <2>3 DEF k
    <3> QED
      BY <1>3, <1>4, <2>1, <2>2, <2>3, <3>3, <3>4, <3>5
  <2>4. CASE Goto(t, "user") /\ UNCHANGED <<sem, res>>
    <3>1. Place(At("user")) /\ ~MutexPlace(At("user"))
      BY DEF Place, Labels, MutexPlace, At
    <3> QED
      BY <1>3, <1>4, <2>1, <2>2, <2>4, <3>1 DEF Goto, At
  <2> QED
    BY <1>8, <2>3, <2>4 DEF BroadcastPosts
<1> QED
  BY <1>5, <1>6, <1>7, <1>8

\* pthread_barrier_wait().
LEMMA BarrierInv ==
  ASSUME IInv, NEW t \in Thread, BarrierWait(t) \/ BarrierOpens(t) \/ BarrierPass(t)
  PROVE  IInv'
<1> USE PthreadAssumption
<1> DEFINE Posts == /\ sem' \in [Sem -> SemRecord] /\ res' = res
                    /\ sem'["mutex"] = sem["mutex"]
                    /\ \A s \in Sem : sem'[s].q \subseteq sem[s].q
<1>1. ~Blocked(t) /\ pid' = pid /\ want' = want
  BY DEF BarrierWait, BarrierOpens, BarrierPass, Idles, Calls, Runs, mutexvars, uservars
<1>2. \A s \in Sem : t \notin sem[s].q
  BY <1>1 DEF Blocked
<1>3. Give("barrier") \/ UNCHANGED <<sem, res>> => Posts
  BY SemPostEffect DEF Give, IInv, TypeInv
<1>4. ASSUME NEW k, Place(k), ~MutexPlace(pc[t]), ~MutexPlace(k), Posts, t \notin want,
             pid # t, pc' = [pc EXCEPT ![t] = k]
      PROVE  IInv'
  BY <1>1, <1>2, <1>4, Elsewhere DEF IInv, TypeInv
<1>5. CASE BarrierWait(t)
  <2>1. pc[t] = At("user") /\ t \notin want /\ pid # t
    BY <1>5 DEF BarrierWait, Idles, Calls
  <2>2. ~MutexPlace(pc[t])
    BY <2>1, SMT DEF MutexPlace, At
  <2>3. CASE /\ pc' = [pc EXCEPT ![t] = [at |-> "open", n |-> Semcount(sem["barrier"])]]
             /\ UNCHANGED <<sem, res>>
    <3> DEFINE k == [at |-> "open", n |-> Semcount(sem["barrier"])]
    <3>1. Place(k) /\ ~MutexPlace(k)
      BY DEF Place, MutexPlace
    <3> HIDE DEF k
    <3>2. pc' = [pc EXCEPT ![t] = k]
      BY <2>3 DEF k
    <3> QED
      BY <1>3, <1>4, <2>1, <2>2, <2>3, <3>1, <3>2
  <2>4. CASE Take(t, "barrier", At("pass"))
    BY <1>1, <2>1, <2>2, <2>4, TakesOther
  <2> QED
    BY <1>5, <2>3, <2>4 DEF BarrierWait
<1>6. Place(At("user")) /\ ~MutexPlace(At("user"))
  BY DEF Place, Labels, MutexPlace, At
<1>7. CASE BarrierOpens(t)
  <2>1. pc[t].at = "open" /\ ~MutexPlace(pc[t])
    BY <1>7 DEF BarrierOpens, MutexPlace
  <2>2. t \notin want /\ pid # t
    BY <2>1, SMT DEF IInv, WantInv, OwnerInv, At, TakeAt
  <2>3. CASE /\ Give("barrier")
             /\ pc' = [pc EXCEPT ![t] = [pc[t] EXCEPT !.n = Semcount(sem'["barrier"])]]
    <3> DEFINE k == [pc[t] EXCEPT !.n = Semcount(sem'["barrier"])]
    <3>1. Place(pc[t])
      BY DEF IInv, TypeInv
    <3>2. DOMAIN pc[t] = {"at", "n"}
      BY <2>1, <3>1, SMT DEF Place, At, TakeAt, Labels
    <3>3. DOMAIN k = {"at", "n"} /\ k.at = "open"
      BY <2>1, <3>2
    <3> HIDE DEF k
    <3>4. Place(k) /\ ~MutexPlace(k)
      BY <3>3 DEF Place, MutexPlace
    <3>5. pc' = [pc EXCEPT ![t] = k]
      BY <2>3 DEF k
    <3> QED
      BY <1>3, <1>4, <2>1, <2>2, <2>3, <3>4, <3>5
  <2>4. CASE Goto(t, "user") /\ UNCHANGED <<sem, res>>
    BY <1>3, <1>4, <1>6, <2>1, <2>2, <2>4 DEF Goto
  <2> QED
    BY <1>7, <2>3, <2>4 DEF BarrierOpens
<1>8. CASE BarrierPass(t)
  <2>1. pc[t] = At("pass") /\ pc' = [pc EXCEPT ![t] = At("user")] /\ UNCHANGED <<sem, res>>
    BY <1>8 DEF BarrierPass, Goto
  <2>2. t \notin want /\ pid # t /\ ~MutexPlace(pc[t])
    BY <2>1, SMT DEF IInv, WantInv, OwnerInv, MutexPlace, At, TakeAt
  <2> QED
    BY <1>3, <1>4, <1>6, <2>1, <2>2
<1> QED
  BY <1>5, <1>7, <1>8

\* A thread whose wait is over goes on, or waits again after a signal.
LEMMA RetryInv ==
  ASSUME IInv, NEW t \in Thread, Retry(t), UNCHANGED <<mutexvars, wdog, uservars>>
  PROVE  IInv'
<1> USE PthreadAssumption
<1>1. ~Blocked(t) /\ pc[t].at = "take" /\ pid' = pid /\ want' = want
  BY DEF Retry, Runs, mutexvars, uservars
<1>2. pid # t /\ \A s \in Sem : t \notin sem[s].q
  BY <1>1 DEF IInv, OwnerInv, Blocked
<1>3. \/ \E l \in {"lock", "cw4", "tw2"} : pc[t] = TakeAt("mutex", l)
      \/ pc[t] = TakeAt("cond", "cw2")
      \/ pc[t] = TakeAt("barrier", "pass")
  BY <1>1, SMT DEF IInv, TypeInv, Place, At, Labels
<1>4. ASSUME NEW l \in {"lock", "cw4", "tw2"}, pc[t] = TakeAt("mutex", l)
      PROVE  IInv'
  <2>1. t \in want => l # "lock"
    BY <1>4, SMT DEF IInv, WantInv, TakeAt, At
  <2>2. CASE res[t] = "EINTR" /\ Take(t, "mutex", At(l))
    <3>1. ~HasMutex(t)
      BY <1>1, <1>2, <2>2 DEF HasMutex
    <3> QED
      BY <1>1, <2>1, <2>2, <3>1, TakesMutex
  <2>3. CASE res[t] = "OK" /\ pc' = [pc EXCEPT ![t] = At(l)] /\ UNCHANGED <<sem, res>>
    <3> USE DEF IInv
    <3>1. pc'[t] = At(l) /\ \A u \in Thread : u # t => pc'[u] = pc[u]
      BY <2>3 DEF TypeInv
    <3>2. TypeInv'
      BY <1>1, <2>3, <3>1, SMT DEF TypeInv, Place, Labels
    <3>3. QueueInv'
      BY <1>2, <2>3, <3>1 DEF QueueInv
    <3>4. OwnerInv'
      BY <1>1, <1>2, <3>1 DEF OwnerInv, TypeInv
    <3>5. HasMutex(t) /\ HasMutex(t)'
      BY <1>2, <1>4, <2>3, <3>1, SMT DEF HasMutex, TakeAt, At
    <3>6. \A u \in Thread : u # t => (HasMutex(u)' <=> HasMutex(u))
      BY <1>1, <2>3, <3>1 DEF HasMutex
    <3>7. MutexSound'
      <4>1. pid' # NoThread => pc'[pid'].at \notin {"lock", "cw1", "cw2", "cw3", "cw4", "tw1", "tw2"}
        BY <3>4 DEF OwnerInv
      <4> QED
        BY <2>3, <3>5, <3>6, <4>1 DEF MutexSound
    <3>8. WantInv'
      BY <1>1, <2>1, <3>1, SMT DEF WantInv, At, TypeInv
    <3> QED
      BY <3>2, <3>3, <3>4, <3>7, <3>8
  <2> QED
    BY <1>4, <2>2, <2>3, SMT DEF Retry, TakeAt
<1>5. ASSUME NEW s, NEW l, (s = "cond" /\ l = "cw2") \/ (s = "barrier" /\ l = "pass"),
             pc[t] = TakeAt(s, l)
      PROVE  IInv'
  <2>1. ~MutexPlace(pc[t]) /\ (s = "barrier" => t \notin want)
    BY <1>5, SMT DEF MutexPlace, TakeAt, At, IInv, WantInv
  <2>2. CASE res[t] = "EINTR" /\ Take(t, s, At(l))
    BY <1>1, <1>2, <1>5, <2>1, <2>2, TakesOther
  <2>3. CASE res[t] = "OK" /\ pc' = [pc EXCEPT ![t] = At(l)] /\ UNCHANGED <<sem, res>>
    <3>1. Place(At(l)) /\ ~MutexPlace(At(l)) /\ (t \in want => WantPlace(At(l)))
      BY <1>5, <2>1 DEF Place, Labels, MutexPlace, WantPlace, At
    <3> QED
      BY <1>1, <1>2, <2>1, <2>3, <3>1, Elsewhere DEF IInv, TypeInv
  <2> QED
    BY <1>5, <2>2, <2>3, SMT DEF Retry, TakeAt
<1> QED
  BY <1>3, <1>4, <1>5

\* Signals and timeouts.
LEMMA InterruptsInv ==
  ASSUME IInv, NEW t \in Thread, Timeout(t) \/ Signal(t)
  PROVE  IInv'
<1>1. pid' = pid /\ want' = want
  BY DEF Timeout, Signal, mutexvars, uservars
<1>2. CASE Interrupted(t)
  BY <1>1, <1>2, InterruptedInv
<1>3. CASE UNCHANGED threadvars
  BY <1>1, <1>3, SamePlaces DEF threadvars
<1> QED
  BY <1>2, <1>3 DEF Timeout, Signal

\* Every step keeps the invariant.
LEMMA StepInv == IInv /\ [Next]_vars => IInv'
<1> SUFFICES ASSUME IInv, [Next]_vars PROVE IInv'
  OBVIOUS
<1>1. CASE UNCHANGED vars
  BY <1>1, SamePlaces DEF vars, threadvars, mutexvars, uservars
<1>2. ASSUME NEW t \in Thread, Produce(t) \/ Consume(t)
      PROVE  IInv'
  BY <1>2, SamePlaces DEF Produce, Consume, mutexvars
<1> QED
  BY <1>1, <1>2, MutexActionsInv, CondWaitInv, TimedWaitInv, CondSignalInv, BarrierInv,
     RetryInv, InterruptsInv DEF Next

-----------------------------------------------------------------------------
(* The theorems.                                                           *)

\* The inductive invariant holds: threads wait where their places say, the
\* count of the mutex is with one thread or free, its owner is at a place
\* where it may own it, and so is a thread that wants an item.
THEOREM Invariance == Spec => []IInv
BY InitInv, StepInv, PTL DEF Spec

\* pthread_mutex_lock(), _trylock(), _unlock() and the waits for a condition
\* keep mutual exclusion, whatever signals and timeouts end their waits.
THEOREM MutualExclusion == Spec => []MutexSound
<1>1. IInv => MutexSound
  BY DEF IInv
<1> QED
  BY <1>1, Invariance, PTL

\* pthread_cond_wait() and pthread_cond_timedwait() return with the mutex.
THEOREM WaitsReturnMutex == Spec => []WaitReturnsMutex
<1>1. IInv => WaitReturnsMutex
  BY SMT DEF IInv, WantInv, WaitReturnsMutex, At, TakeAt
<1> QED
  BY <1>1, Invariance, PTL

-----------------------------------------------------------------------------
(* pthread_cond_broadcast().                                               *)

\* A semaphore has counts to give, or threads that wait, or none of both.
CountOrQueue(x) == x.cnt > 0 => x.q = {}

\* A thread that has disabled pre-emption to post, or to wait, and has not
\* done so yet, keeps the CPU; so the posts that are left are enough for the
\* threads that wait.
BroadcastInv ==
  /\ lock \in [Thread -> Nat]
  /\ IsFiniteSet(sem["cond"].q) /\ CountOrQueue(sem["cond"])
  /\ \A t \in Thread : pc[t].at \in {"bc", "cw1"} => cpu = t /\ lock[t] > 0
  /\ \A t \in Thread : pc[t].at = "bc" =>
       /\ pc[t].n \in Int
       /\ sem["cond"].q = {} \/ Cardinality(sem["cond"].q) <= 0 - pc[t].n

\* The lock counts stay naturals.
LEMMA LockCounts ==
  ASSUME lock \in [Thread -> Nat], NEW t \in Thread,
         sched_lock(t) \/ sched_unlock(t) \/ SameLock(t)
  PROVE  lock' \in [Thread -> Nat]
<1>1. CASE sched_lock(t)
  BY <1>1, SMT DEF sched_lock
<1>2. CASE sched_unlock(t)
  <2>1. (IF lock[t] > 0 THEN lock[t] - 1 ELSE 0) \in Nat
    BY SMT
  <2> QED
    BY <1>2, <2>1 DEF sched_unlock
<1>3. CASE SameLock(t)
  BY <1>3 DEF SameLock
<1> QED
  BY <1>1, <1>2, <1>3

\* While one thread runs, no other one is in the middle of such a service.
LEMMA OthersElsewhere ==
  ASSUME IInv, BroadcastInv, NEW t \in Thread, Runs(t)
  PROVE  \A u \in Thread : u # t => pc[u].at \notin {"bc", "cw1"}
<1> SUFFICES ASSUME NEW u \in Thread, u # t, pc[u].at \in {"bc", "cw1"} PROVE FALSE
  OBVIOUS
<1>1. cpu = u
  BY DEF BroadcastInv
<1>2. \A s \in Sem : u \notin sem[s].q
  BY PthreadAssumption, SMT DEF IInv, QueueInv, At, TakeAt
<1>3. ~Blocked(u)
  BY <1>2 DEF Blocked
<1> QED
  BY <1>1, <1>3, PthreadAssumption DEF Runs

\* A step of t to a place outside of these services.
LEMMA MovesOn ==
  ASSUME IInv, BroadcastInv, NEW t \in Thread, Runs(t),
         NEW k, k.at \notin {"bc", "cw1"}, pc' = [pc EXCEPT ![t] = k],
         sched_lock(t) \/ sched_unlock(t) \/ SameLock(t),
         sem'["cond"].q \subseteq sem["cond"].q \cup {t}, CountOrQueue(sem'["cond"])
  PROVE  BroadcastInv'
<1>1. lock' \in [Thread -> Nat]
  BY LockCounts DEF BroadcastInv
<1>2. IsFiniteSet(sem'["cond"].q)
  <2>1. IsFiniteSet(sem["cond"].q \cup {t})
    BY FS_AddElement DEF BroadcastInv
  <2> QED
    BY <2>1, FS_Subset
<1>3. \A u \in Thread : pc'[u].at \notin {"bc", "cw1"}
  BY OthersElsewhere DEF IInv, TypeInv
<1> QED
  BY <1>1, <1>2, <1>3 DEF BroadcastInv

\* The queue of the condition grows by the thread that runs at most.
LEMMA CondQueue ==
  ASSUME IInv, BroadcastInv, NEW t \in Thread, NEW s \in Sem, NEW k,
         Take(t, s, k) \/ Give(s) \/ UNCHANGED sem
  PROVE  sem'["cond"].q \subseteq sem["cond"].q \cup {t} /\ CountOrQueue(sem'["cond"])
<1>0. /\ sem \in [Sem -> SemRecord] /\ res \in [Thread -> {"OK", "EINTR"}] /\ "cond" \in Sem
      /\ CountOrQueue(sem["cond"]) /\ sem["cond"].cnt \in Nat
  BY PthreadAssumption DEF IInv, TypeInv, BroadcastInv, SemRecord
<1>1. CASE s # "cond" \/ UNCHANGED sem
  <2>1. sem'["cond"] = sem["cond"]
    BY <1>0, <1>1, SemWaitEffect, SemPostEffect, SMT DEF Take, Give
  <2> QED
    BY <1>0, <2>1
<1>2. CASE s = "cond" /\ Take(t, s, k)
  <2>1. \/ sem[s].cnt > 0 /\ sem'[s].cnt = sem[s].cnt - 1 /\ sem'[s].q = sem[s].q
        \/ ~(sem[s].cnt > 0) /\ sem'[s].cnt = sem[s].cnt /\ sem'[s].q = sem[s].q \cup {t}
    BY <1>0, <1>2, SemWaitEffect DEF Take
  <2> QED
    BY <1>0, <1>2, <2>1 DEF CountOrQueue
<1>3. CASE s = "cond" /\ Give(s)
  <2>1. \/ sem[s].q = {} /\ sem'[s].q = {}
        \/ \E w \in sem[s].q : sem'[s].cnt = sem[s].cnt /\ sem'[s].q = sem[s].q \ {w}
    BY <1>0, <1>3, SemPostEffect DEF Give
  <2> QED
    BY <1>0, <1>3, <2>1 DEF CountOrQueue
<1> QED
  BY <1>1, <1>2, <1>3

\* An interrupt takes a thread out of a queue, and changes no place.
LEMMA InterruptsBroadcast ==
  ASSUME IInv, BroadcastInv, NEW t \in Thread, Interrupted(t) \/ UNCHANGED threadvars
  PROVE  BroadcastInv'
<1>1. lock' = lock /\ pc' = pc
  BY DEF Interrupted, threadvars
<1>2. sem'["cond"].q \subseteq sem["cond"].q /\ sem'["cond"].cnt = sem["cond"].cnt
  <2>1. CASE Interrupted(t)
    <3>1. \E s \in Sem : /\ \A r \in Sem : r # s => sem'[r] = sem[r]
                         /\ sem'[s].q = sem[s].q \ {t} /\ sem'[s].cnt = sem[s].cnt
      BY <2>1, SemEndEffect DEF Interrupted, IInv, TypeInv
    <3> QED
      BY <3>1, PthreadAssumption
  <2>2. CASE UNCHANGED threadvars
    BY <2>2 DEF threadvars
  <2> QED
    BY <2>1, <2>2
<1>3. /\ IsFiniteSet(sem'["cond"].q) /\ Cardinality(sem'["cond"].q) <= Cardinality(sem["cond"].q)
      /\ Cardinality(sem'["cond"].q) \in Nat /\ Cardinality(sem["cond"].q) \in Nat
  BY <1>2, FS_Subset, FS_CardinalityType DEF BroadcastInv
<1>4. ASSUME NEW u \in Thread, pc[u].at = "bc"
      PROVE  /\ pc[u].n \in Int
             /\ sem'["cond"].q = {} \/ Cardinality(sem'["cond"].q) <= 0 - pc[u].n
  <2>1. pc[u].n \in Int /\ (sem["cond"].q = {} \/ Cardinality(sem["cond"].q) <= 0 - pc[u].n)
    BY <1>4 DEF BroadcastInv
  <2>2. CASE sem["cond"].q = {}
    BY <1>2, <2>1, <2>2
  <2>3. CASE Cardinality(sem["cond"].q) <= 0 - pc[u].n
    BY <1>3, <2>1, <2>3, SMT
  <2> QED
    BY <2>1, <2>2, <2>3
<1>5. CountOrQueue(sem'["cond"])
  BY <1>2 DEF BroadcastInv, CountOrQueue
<1>6. ASSUME NEW u \in Thread, pc[u].at \in {"bc", "cw1"}
      PROVE  cpu' = u
  <2>1. cpu = u
    BY <1>6 DEF BroadcastInv
  <2>2. CASE Interrupted(t)
    <3>1. PICK s \in Sem : t \in sem[s].q
      BY <2>2 DEF Interrupted, SemEnd
    <3>2. u # t
      BY <1>6, <3>1, PthreadAssumption, SMT DEF IInv, QueueInv, At, TakeAt
    <3> QED
      BY <2>1, <2>2, <3>2 DEF Interrupted
  <2>3. CASE UNCHANGED threadvars
    BY <2>1, <2>3 DEF threadvars
  <2> QED
    BY <2>2, <2>3
<1> QED
  BY <1>1, <1>3, <1>4, <1>5, <1>6 DEF BroadcastInv

\* The start of pthread_cond_broadcast(), and one of its posts.
LEMMA BroadcastStep ==
  ASSUME IInv, BroadcastInv, NEW t \in Thread, Broadcast(t) \/ BroadcastPosts(t)
  PROVE  BroadcastInv'
<1> USE PthreadAssumption
<1>0. /\ sem \in [Sem -> SemRecord] /\ pc = [u \in Thread |-> pc[u]]
      /\ sem["cond"].cnt \in Nat /\ IsFiniteSet(sem["cond"].q) /\ Cardinality(sem["cond"].q) \in Nat
      /\ lock \in [Thread -> Nat] /\ CountOrQueue(sem["cond"])
  BY FS_CardinalityType DEF IInv, TypeInv, SemRecord, BroadcastInv
<1>1. Runs(t) /\ \A u \in Thread : u # t => pc[u].at \notin {"bc", "cw1"}
  BY OthersElsewhere DEF Broadcast, BroadcastPosts, MaySignal, Calls
<1>2. CASE Broadcast(t)
  <2> DEFINE k == [at |-> "bc", n |-> Semcount(sem["cond"])]
  <2>1. sched_lock(t) /\ sem' = sem /\ pc' = [pc EXCEPT ![t] = k]
    BY <1>2 DEF Broadcast
  <2>2. lock' \in [Thread -> Nat] /\ cpu' = t /\ lock'[t] > 0
    BY <1>0, <2>1, SMT DEF sched_lock
  <2>3. k.n \in Int /\ (sem["cond"].q = {} \/ Cardinality(sem["cond"].q) <= 0 - k.n)
    BY <1>0, SMT DEF Semcount, CountOrQueue
  <2> HIDE DEF k
  <2>4. pc'[t] = k /\ \A u \in Thread : u # t => pc'[u] = pc[u]
    BY <1>0, <2>1
  <2> QED
    BY <1>0, <1>1, <2>1, <2>2, <2>3, <2>4 DEF BroadcastInv
<1>3. CASE BroadcastPosts(t) /\ pc[t].n < 0
  <2>1. /\ pc[t].at = "bc" /\ Give("cond") /\ SameLock(t)
        /\ pc' = [pc EXCEPT ![t] = [pc[t] EXCEPT !.n = pc[t].n + 1]]
    BY <1>3 DEF BroadcastPosts
  <2> DEFINE k == [pc[t] EXCEPT !.n = pc[t].n + 1]
  <2>2. /\ lock[t] > 0 /\ pc[t].n \in Int
        /\ sem["cond"].q = {} \/ Cardinality(sem["cond"].q) <= 0 - pc[t].n
    BY <2>1 DEF BroadcastInv
  <2>3. lock' = lock /\ cpu' = t
    BY <2>1, <2>2 DEF SameLock
  <2>4. k.n = pc[t].n + 1 /\ k.n \in Int
    <3>1. Place(pc[t])
      BY DEF IInv, TypeInv
    <3>2. DOMAIN pc[t] = {"at", "n"}
      BY <2>1, <3>1, SMT DEF Place, At, TakeAt, Labels
    <3> QED
      BY <2>2, <3>2, SMT
  <2> HIDE DEF k
  <2>5. pc'[t] = k /\ \A u \in Thread : u # t => pc'[u] = pc[u]
    BY <1>0, <2>1 DEF k
  <2>6. CountOrQueue(sem'["cond"])
    BY <2>1, CondQueue
  <2>7. \/ sem["cond"].q = {} /\ sem'["cond"].q = {}
        \/ \E w \in sem["cond"].q : sem'["cond"].q = sem["cond"].q \ {w}
    BY <1>0, <2>1, SemPostEffect DEF Give
  <2>8. /\ IsFiniteSet(sem'["cond"].q)
        /\ sem'["cond"].q = {} \/ Cardinality(sem'["cond"].q) <= 0 - k.n
    <3>1. CASE sem["cond"].q = {} /\ sem'["cond"].q = {}
      BY <3>1, FS_EmptySet
    <3>2. ASSUME NEW w \in sem["cond"].q, sem'["cond"].q = sem["cond"].q \ {w}
          PROVE  IsFiniteSet(sem'["cond"].q) /\ Cardinality(sem'["cond"].q) <= 0 - k.n
      <4>1. /\ IsFiniteSet(sem["cond"].q \ {w})
            /\ Cardinality(sem["cond"].q \ {w}) = Cardinality(sem["cond"].q) - 1
        BY <1>0, FS_RemoveElement, SMT
      <4>2. Cardinality(sem["cond"].q) <= 0 - pc[t].n
        BY <2>2
      <4> QED
        BY <1>0, <2>2, <2>4, <3>2, <4>1, <4>2, SMT
    <3> QED
      BY <2>7, <3>1, <3>2
  <2> QED
    BY <1>0, <1>1, <2>2, <2>3, <2>4, <2>5, <2>6, <2>8 DEF BroadcastInv
<1>4. CASE BroadcastPosts(t) /\ ~(pc[t].n < 0)
  <2>1. sched_unlock(t) /\ pc' = [pc EXCEPT ![t] = At("user")] /\ sem' = sem
    BY <1>4 DEF BroadcastPosts, Goto
  <2>2. At("user").at = "user"
    BY DEF At
  <2> QED
    BY <1>0, <1>1, <2>1, <2>2, MovesOn
<1> QED
  BY <1>2, <1>3, <1>4

\* pthread_cond_wait() and pthread_cond_timedwait() at their start.
LEMMA WaitStarts ==
  ASSUME IInv, BroadcastInv, NEW t \in Thread, CondWait(t) \/ TimedWait(t)
  PROVE  BroadcastInv'
<1> USE PthreadAssumption
<1>0. /\ sem \in [Sem -> SemRecord] /\ pc = [u \in Thread |-> pc[u]]
      /\ lock \in [Thread -> Nat] /\ CountOrQueue(sem["cond"]) /\ IsFiniteSet(sem["cond"].q)
      /\ sem["cond"] \in SemRecord /\ sem["mutex"] \in SemRecord
  BY DEF IInv, TypeInv, BroadcastInv
<1>1. Runs(t) /\ sched_lock(t) /\ \A u \in Thread : u # t => pc[u].at \notin {"bc", "cw1"}
  BY OthersElsewhere DEF CondWait, TimedWait, Wants, Calls
<1>2. lock' \in [Thread -> Nat] /\ cpu' = t /\ lock'[t] > 0
  BY <1>0, <1>1, SMT DEF sched_lock
<1>3. CASE CondWait(t)
  <2>1. pc' = [pc EXCEPT ![t] = At("cw1")] /\ Give("mutex")
    BY <1>3 DEF CondWait, Goto
  <2>2. sem'["cond"] = sem["cond"]
    BY <1>0, <2>1, SemPostEffect DEF Give
  <2>3. pc'[t].at = "cw1" /\ \A u \in Thread : u # t => pc'[u] = pc[u]
    BY <1>0, <2>1 DEF At
  <2> QED
    BY <1>0, <1>1, <1>2, <2>2, <2>3 DEF BroadcastInv
<1>4. CASE TimedWait(t)
  <2>1. PICK m \in Posted(sem["mutex"]) :
          sem' = [sem EXCEPT !["mutex"] = m, !["cond"] = Waited(sem["cond"], t)]
    BY <1>4 DEF TimedWait
  <2>2. sem'["cond"] = Waited(sem["cond"], t)
    BY <1>0, <2>1
  <2>3. sem'["cond"].q \subseteq sem["cond"].q \cup {t} /\ CountOrQueue(sem'["cond"])
    <3>1. CASE sem["cond"].cnt > 0
      BY <1>0, <2>2, <3>1 DEF Waited, Taken, SemRecord, CountOrQueue
    <3>2. CASE ~(sem["cond"].cnt > 0)
      BY <1>0, <2>2, <3>2 DEF Waited, Queued, SemRecord, CountOrQueue
    <3> QED
      BY <3>1, <3>2
  <2>4. pc' = [pc EXCEPT ![t] = At("tw1")] /\ At("tw1").at = "tw1"
    BY <1>4 DEF TimedWait, Goto, At
  <2> QED
    BY <1>1, <2>3, <2>4, MovesOn
<1> QED
  BY <1>3, <1>4

\* Every step keeps the invariant.
LEMMA StepBroadcast == IInv /\ BroadcastInv /\ [Next]_vars => BroadcastInv'
<1> SUFFICES ASSUME IInv, BroadcastInv, [Next]_vars PROVE BroadcastInv'
  OBVIOUS
<1> USE PthreadAssumption
<1>0. sem \in [Sem -> SemRecord] /\ pc = [u \in Thread |-> pc[u]] /\ \A t \in Thread : Place(pc[t])
  BY DEF IInv, TypeInv
<1>1. CASE UNCHANGED vars
  BY <1>1 DEF vars, threadvars, BroadcastInv, CountOrQueue
\* A step of t to the place k, with at most one operation on a semaphore.
<1>2. ASSUME NEW t \in Thread, Runs(t), NEW k, k.at \notin {"bc", "cw1"}, pc' = [pc EXCEPT ![t] = k],
             sched_lock(t) \/ sched_unlock(t) \/ SameLock(t),
             NEW s \in Sem, NEW k2, Take(t, s, k2) \/ Give(s) \/ UNCHANGED sem
      PROVE  BroadcastInv'
  <2>1. sem'["cond"].q \subseteq sem["cond"].q \cup {t} /\ CountOrQueue(sem'["cond"])
    BY <1>2, CondQueue
  <2> QED
    BY <1>2, <2>1, MovesOn
<1>3. ASSUME NEW t \in Thread, Runs(t), pc' = pc, pc[t] = At("user"), SameLock(t),
             Give("mutex") \/ UNCHANGED sem
      PROVE  BroadcastInv'
  <2>1. pc' = [pc EXCEPT ![t] = pc[t]] /\ pc[t].at = "user"
    BY <1>0, <1>3, SMT DEF At
  <2> QED
    BY <1>2, <1>3, <2>1
<1>4. ASSUME NEW t \in Thread, NEW l, l \in Labels \ {"cw1"}, Goto(t, l), Runs(t),
             sched_lock(t) \/ sched_unlock(t) \/ SameLock(t),
             NEW s \in Sem, Give(s) \/ UNCHANGED sem
      PROVE  BroadcastInv'
  <2>1. pc' = [pc EXCEPT ![t] = At(l)] /\ At(l).at \notin {"bc", "cw1"}
    BY <1>4 DEF Goto, At, Labels
  <2> QED
    BY <1>2, <1>4, <2>1
<1>5. ASSUME NEW t \in Thread, NEW s \in Sem, NEW k, k.at \notin {"bc", "cw1"}, Take(t, s, k), Runs(t),
             sched_lock(t) \/ sched_unlock(t) \/ SameLock(t)
      PROVE  BroadcastInv'
  <2> DEFINE p == IF sem[s].cnt > 0 THEN k ELSE [at |-> "take", sem |-> s, then |-> k]
  <2>1. pc' = [pc EXCEPT ![t] = p] /\ p.at \notin {"bc", "cw1"}
    BY <1>5 DEF Take
  <2> HIDE DEF p
  <2> QED
    BY <1>2, <1>5, <2>1
<1>6. \A l : At(l).at = l
  BY DEF At
<1>7. ASSUME NEW t \in Thread, Lock(t) \/ Locked(t) \/ Relock(t) \/ TryLock(t) \/ Unlock(t)
      PROVE  BroadcastInv'
  <2>1. CASE Lock(t)
    BY <1>5, <1>6, <2>1 DEF Lock, Idles, Calls
  <2>2. CASE Locked(t)
    BY <1>4, <2>2 DEF Locked, Labels
  <2>3. CASE Relock(t)
    BY <1>3, <2>3 DEF Relock, Idles, Calls
  <2>4. CASE TryLock(t)
    <3>1. sem'["cond"] = sem["cond"]
      BY <1>0, <2>4 DEF TryLock
    <3>2. pc' = [pc EXCEPT ![t] = pc[t]] /\ pc[t].at = "user" /\ Runs(t) /\ SameLock(t)
      BY <1>0, <1>6, <2>4 DEF TryLock, Idles, Calls
    <3>3. CountOrQueue(sem'["cond"]) /\ sem'["cond"].q \subseteq sem["cond"].q \cup {t}
      BY <3>1 DEF BroadcastInv
    <3> QED
      BY <3>2, <3>3, MovesOn
  <2>5. CASE Unlock(t)
    BY <1>3, <2>5 DEF Unlock, Calls
  <2> QED
    BY <1>7, <2>1, <2>2, <2>3, <2>4, <2>5
<1>8. ASSUME NEW t \in Thread, Produce(t) \/ Consume(t)
      PROVE  BroadcastInv'
  BY <1>3, <1>8 DEF Produce, Consume, Idles, Calls
<1>9. ASSUME NEW t \in Thread, CondWaitTakes(t) \/ CondWaitReturns(t)
      PROVE  BroadcastInv'
  <2>1. CASE Take(t, "cond", At("cw2")) /\ SameLock(t) /\ Runs(t)
    BY <1>5, <1>6, <2>1
  <2>2. CASE Goto(t, "cw3") /\ UNCHANGED sem /\ sched_unlock(t) /\ Runs(t)
    BY <1>4, <2>2 DEF Labels
  <2>3. CASE Take(t, "mutex", At("cw4")) /\ SameLock(t) /\ Runs(t)
    BY <1>5, <1>6, <2>3
  <2>4. CASE CondWaitReturns(t)
    BY <1>4, <2>4 DEF CondWaitReturns, Labels
  <2> QED
    BY <1>9, <2>1, <2>2, <2>3, <2>4 DEF CondWaitTakes
<1>10. ASSUME NEW t \in Thread, TimedWaitTakes(t) \/ TimedWaitOwns(t) \/ TimedWaitReturns(t)
       PROVE  BroadcastInv'
  <2>1. CASE TimedWaitTakes(t)
    BY <1>5, <1>6, <2>1 DEF TimedWaitTakes
  <2>2. CASE TimedWaitOwns(t)
    BY <1>4, <2>2 DEF TimedWaitOwns, Labels
  <2>3. CASE TimedWaitReturns(t)
    BY <1>4, <2>3 DEF TimedWaitReturns, Labels
  <2> QED
    BY <1>10, <2>1, <2>2, <2>3
<1>11. ASSUME NEW t \in Thread, CondSignal(t) \/ CondSignalPosts(t)
       PROVE  BroadcastInv'
  <2>1. CASE CondSignal(t) /\ Goto(t, "sig")
    BY <1>4, <2>1 DEF CondSignal, MaySignal, Calls, Labels
  <2>2. CASE CondSignal(t) /\ UNCHANGED pc
    BY <1>3, <2>2 DEF CondSignal, MaySignal, Calls
  <2>3. CASE CondSignalPosts(t)
    BY <1>4, <2>3 DEF CondSignalPosts, Labels
  <2> QED
    BY <1>11, <2>1, <2>2, <2>3 DEF CondSignal
<1>12. ASSUME NEW t \in Thread, BarrierWait(t) \/ BarrierOpens(t) \/ BarrierPass(t)
       PROVE  BroadcastInv'
  <2>1. ASSUME NEW k, k.at = "open", pc' = [pc EXCEPT ![t] = k], Runs(t),
               sched_lock(t) \/ SameLock(t), Give("barrier") \/ UNCHANGED sem
        PROVE  BroadcastInv'
    BY <1>2, <2>1
  <2>2. CASE BarrierWait(t) /\ UNCHANGED sem
    <3>1. [at |-> "open", n |-> Semcount(sem["barrier"])].at = "open"
      OBVIOUS
    <3>2. CASE pc' = [pc EXCEPT ![t] = [at |-> "open", n |-> Semcount(sem["barrier"])]]
      BY <2>1, <2>2, <3>1, <3>2 DEF BarrierWait, Idles, Calls
    <3>3. CASE Take(t, "barrier", At("pass"))
      BY <1>5, <1>6, <2>2, <3>3 DEF BarrierWait, Idles, Calls
    <3> QED
      BY <2>2, <3>2, <3>3 DEF BarrierWait
  <2>3. CASE BarrierWait(t) /\ Take(t, "barrier", At("pass"))
    BY <1>5, <1>6, <2>3 DEF BarrierWait, Idles, Calls
  <2>4. CASE BarrierOpens(t) /\ pc[t].n < 0
    <3> DEFINE k == [pc[t] EXCEPT !.n = Semcount(sem'["barrier"])]
    <3>1. Runs(t) /\ pc[t].at = "open" /\ Give("barrier") /\ SameLock(t) /\ pc' = [pc EXCEPT ![t] = k]
      BY <2>4 DEF BarrierOpens
    <3>2. DOMAIN pc[t] = {"at", "n"}
      BY <1>0, <3>1, SMT DEF Place, At, TakeAt, Labels
    <3>3. k.at = "open"
      BY <3>1, <3>2
    <3> HIDE DEF k
    <3> QED
      BY <2>1, <3>1, <3>3
  <2>5. CASE BarrierOpens(t) /\ ~(pc[t].n < 0)
    BY <1>4, <2>5 DEF BarrierOpens, Labels
  <2>6. CASE BarrierPass(t)
    BY <1>4, <2>6 DEF BarrierPass, Labels
  <2> QED
    BY <1>12, <2>2, <2>3, <2>4, <2>5, <2>6 DEF BarrierWait
<1>13. ASSUME NEW t \in Thread, Retry(t)
       PROVE  BroadcastInv'
  <2>1. Runs(t) /\ pc[t].at = "take" /\ SameLock(t)
    BY <1>13 DEF Retry
  <2>2. PICK s \in Sem, l \in {"lock", "cw4", "tw2", "cw2", "pass"} : pc[t] = TakeAt(s, l)
    BY <1>0, <2>1, SMT DEF Place, At, Labels
  <2>3. pc[t].then = At(l) /\ pc[t].sem = s /\ At(l).at \notin {"bc", "cw1"}
    BY <2>2, SMT DEF TakeAt, At
  <2>4. CASE pc' = [pc EXCEPT ![t] = pc[t].then] /\ UNCHANGED sem
    BY <1>2, <2>1, <2>3, <2>4
  <2>5. CASE Take(t, pc[t].sem, pc[t].then)
    BY <1>5, <2>1, <2>3, <2>5
  <2> QED
    BY <1>13, <2>4, <2>5 DEF Retry
<1>14. ASSUME NEW t \in Thread, Timeout(t) \/ Signal(t)
       PROVE  BroadcastInv'
  BY <1>14, InterruptsBroadcast DEF Timeout, Signal
<1> QED
  BY <1>1, <1>7, <1>8, <1>9, <1>10, <1>11, <1>12, <1>13, <1>14, BroadcastStep, WaitStarts DEF Next

\* At first nobody waits.
LEMMA InitBroadcast == Init => BroadcastInv
<1> SUFFICES ASSUME Init PROVE BroadcastInv
  OBVIOUS
<1>1. sem["cond"].q = {} /\ \A t \in Thread : pc[t].at = "user"
  BY PthreadAssumption DEF Init, ThreadsInit, SemInit, At
<1>2. lock \in [Thread -> Nat] /\ IsFiniteSet({})
  BY FS_EmptySet DEF Init, ThreadsInit
<1> QED
  BY <1>1, <1>2 DEF BroadcastInv, CountOrQueue

\* When pthread_cond_broadcast() returns, nobody waits for the condition,
\* however many threads waited, and whatever signals and timeouts came in
\* between.
THEOREM BroadcastIsComplete == Spec => BroadcastWakesAll
<1> DEFINE A == \A t \in Thread : pc[t].at = "bc" /\ pc'[t].at # "bc" => sem["cond"].q = {}
<1>1. IInv /\ BroadcastInv /\ [Next]_vars => [A]_vars
  <2> SUFFICES ASSUME IInv, BroadcastInv, Next, NEW t \in Thread, pc[t].at = "bc", pc'[t].at # "bc"
               PROVE  sem["cond"].q = {}
    OBVIOUS
  <2>1. PICK u \in Thread :
          \/ Lock(u) \/ Locked(u) \/ Relock(u) \/ TryLock(u) \/ Unlock(u)
          \/ Produce(u) \/ Consume(u)
          \/ CondWait(u) \/ CondWaitTakes(u) \/ CondWaitReturns(u)
          \/ TimedWait(u) \/ TimedWaitTakes(u) \/ TimedWaitOwns(u) \/ TimedWaitReturns(u)
          \/ CondSignal(u) \/ CondSignalPosts(u) \/ Broadcast(u) \/ BroadcastPosts(u)
          \/ BarrierWait(u) \/ BarrierOpens(u) \/ BarrierPass(u)
          \/ Retry(u) \/ Timeout(u) \/ Signal(u)
    BY DEF Next
  <2>2. ~(Timeout(u) \/ Signal(u))
    BY DEF Timeout, Signal, Interrupted, threadvars
  <2>3. Runs(u)
    BY <2>1, <2>2 DEF Lock, Locked, Relock, TryLock, Unlock, Produce, Consume, CondWait,
         CondWaitTakes, CondWaitReturns, TimedWait, TimedWaitTakes, TimedWaitOwns, TimedWaitReturns,
         CondSignal, CondSignalPosts, Broadcast, BroadcastPosts, BarrierWait, BarrierOpens, BarrierPass,
         Retry, Wants, MaySignal, Idles, Calls
  <2>4. u = t
    BY <2>3, OthersElsewhere
  <2>5. BroadcastPosts(t)
    <3>1. \A l : pc[t] = At(l) => l = "bc"
      BY SMT DEF At
    <3> QED
      BY <2>1, <2>2, <2>4, <3>1 DEF Lock, Locked, Relock, TryLock, Unlock, Produce, Consume, CondWait,
         CondWaitTakes, CondWaitReturns, TimedWait, TimedWaitTakes, TimedWaitOwns, TimedWaitReturns,
         CondSignal, CondSignalPosts, Broadcast, BarrierWait, BarrierOpens, BarrierPass,
         Retry, Wants, MaySignal, Idles, Calls
  <2>6. ~(pc[t].n < 0)
    <3> SUFFICES ASSUME pc[t].n < 0 PROVE FALSE
      OBVIOUS
    <3>1. pc' = [pc EXCEPT ![t] = [pc[t] EXCEPT !.n = pc[t].n + 1]]
      BY <2>5 DEF BroadcastPosts
    <3>2. Place(pc[t]) /\ pc = [v \in Thread |-> pc[v]]
      BY DEF IInv, TypeInv
    <3>3. DOMAIN pc[t] = {"at", "n"}
      BY <3>2, SMT DEF Place, At, TakeAt, Labels
    <3> QED
      BY <3>1, <3>2, <3>3
  <2>7. /\ IsFiniteSet(sem["cond"].q) /\ pc[t].n \in Int
        /\ sem["cond"].q = {} \/ Cardinality(sem["cond"].q) <= 0 - pc[t].n
    BY DEF BroadcastInv
  <2>8. Cardinality(sem["cond"].q) \in Nat /\ (Cardinality(sem["cond"].q) = 0 => sem["cond"].q = {})
    BY <2>7, FS_CardinalityType, FS_EmptySet
  <2> QED
    BY <2>6, <2>7, <2>8, SMT
<1> HIDE DEF A
<1>2. Spec => [][A]_vars
  BY <1>1, Invariance, InitBroadcast, StepBroadcast, PTL DEF Spec
<1> QED
  BY <1>2 DEF A, BroadcastWakesAll

-----------------------------------------------------------------------------
(* The wake-ups of pthread_cond_signal() and pthread_cond_broadcast().     *)

\* The places of a thread whose watchdog is active.
TimedPlace(k) == k \in {At("tw1"), At("tw2"), At("tw3"), TakeAt("mutex", "tw2")}

\* No signal has ended an untimed wait for the condition, and a thread on its
\* way to that wait still sees what it saw: no item.
PlaceInv ==
  /\ wdog \subseteq Thread /\ \A t \in wdog : TimedPlace(pc[t])
  /\ \A t \in Thread : pc[t].at = "cw1" => items = 0 /\ t \in want
  /\ \A t \in Thread : pc[t] = TakeAt("cond", "cw2") => res[t] = "OK"

\* The threads that are on their way to look at the items, or owe a signal.
Coming == (want \ sem["cond"].q) \cup owes

\* Those who wait for the condition want an item and owe no signal, and
\* while there are any, the items are no more than the threads that come.
WakeInv ==
  /\ IsFiniteSet(want) /\ IsFiniteSet(owes) /\ items \in Nat
  /\ sem["cond"].q \subseteq want /\ want \cap owes = {}
  /\ sem["cond"].q # {} => items <= Cardinality(Coming)

\* The threads that come are finitely many.
LEMMA ComingFinite ==
  ASSUME WakeInv
  PROVE  IsFiniteSet(Coming) /\ Cardinality(Coming) \in Nat
<1>1. IsFiniteSet(want \ sem["cond"].q)
  <2>1. want \ sem["cond"].q \in SUBSET want
    OBVIOUS
  <2> QED
    BY <2>1, FS_Subset DEF WakeInv
<1>2. IsFiniteSet(Coming)
  BY <1>1, FS_Union DEF WakeInv, Coming
<1> QED
  BY <1>2, FS_CardinalityType

\* A step of t that keeps items, debts and wants, and at most frees threads
\* that waited.
LEMMA FreesOnly ==
  ASSUME WakeInv, UNCHANGED uservars, sem'["cond"].q \subseteq sem["cond"].q
  PROVE  WakeInv'
<1>1. items' = items /\ owes' = owes /\ want' = want
  BY DEF uservars
<1>2. Coming \in SUBSET Coming' /\ IsFiniteSet(Coming') /\ Cardinality(Coming) \in Nat
  <2>1. want \ sem'["cond"].q \in SUBSET want
    OBVIOUS
  <2>2. IsFiniteSet(want \ sem'["cond"].q)
    BY <2>1, FS_Subset DEF WakeInv
  <2>3. IsFiniteSet(Coming')
    BY <1>1, <2>2, FS_Union DEF WakeInv, Coming
  <2> QED
    BY <1>1, <2>3, ComingFinite DEF Coming
<1>3. Cardinality(Coming) <= Cardinality(Coming') /\ Cardinality(Coming') \in Nat
  BY <1>2, FS_Subset, FS_CardinalityType
<1>4. sem'["cond"].q # {} => items <= Cardinality(Coming')
  <2>1. sem'["cond"].q # {} => items <= Cardinality(Coming)
    BY DEF WakeInv
  <2>2. items \in Nat
    BY DEF WakeInv
  <2> QED
    BY <1>2, <1>3, <2>1, <2>2, SMT
<1> QED
  BY <1>1, <1>4 DEF WakeInv

\* A post on the condition by t, which may pay its debt with it.
LEMMA Pays ==
  ASSUME WakeInv, NEW t, t \notin sem["cond"].q, t \notin want,
         \/ sem["cond"].q = {} /\ sem'["cond"].q = {}
         \/ \E w \in sem["cond"].q : sem'["cond"].q = sem["cond"].q \ {w},
         items' = items, want' = want, owes' = owes \/ owes' = owes \ {t}
  PROVE  WakeInv'
<1>0. IsFiniteSet(owes') /\ want' \cap owes' = {}
  BY FS_RemoveElement, SMT DEF WakeInv
<1>1. CASE sem["cond"].q = {} /\ sem'["cond"].q = {}
  BY <1>0, <1>1 DEF WakeInv
<1>2. ASSUME NEW w \in sem["cond"].q, sem'["cond"].q = sem["cond"].q \ {w}
      PROVE  WakeInv'
  <2>1. w \in want /\ w \notin owes /\ w # t /\ w \notin Coming
    BY DEF WakeInv, Coming
  <2> DEFINE C == (Coming \ {t}) \cup {w}
  <2>2. IsFiniteSet(Coming) /\ Cardinality(Coming) \in Nat
    BY ComingFinite
  <2>3. IsFiniteSet(Coming \ {t}) /\ Cardinality(Coming \ {t}) >= Cardinality(Coming) - 1 /\ Cardinality(Coming \ {t}) \in Nat
    BY <2>2, FS_RemoveElement, FS_CardinalityType, SMT
  <2>4. IsFiniteSet(C) /\ Cardinality(C) = Cardinality(Coming \ {t}) + 1
    BY <2>1, <2>3, FS_AddElement
  <2>5. Coming' = C \/ Coming' = C \cup {t}
    BY <1>2, <2>1 DEF Coming
  <2>6. IsFiniteSet(Coming') /\ C \in SUBSET Coming'
    BY <2>4, <2>5, FS_AddElement, SMT
  <2>7. Cardinality(C) <= Cardinality(Coming') /\ Cardinality(Coming') \in Nat
    BY <2>6, FS_Subset, FS_CardinalityType
  <2>8. items \in Nat /\ items <= Cardinality(Coming)
    BY DEF WakeInv
  <2>9. items <= Cardinality(Coming')
    <3> HIDE DEF C
    <3> QED BY <2>2, <2>3, <2>4, <2>7, <2>8, SMT
  <2> QED
    BY <1>0, <1>2, <2>9 DEF WakeInv
<1> QED
  BY <1>1, <1>2

\* Produce and Consume.
LEMMA ItemsWake ==
  ASSUME IInv, WakeInv, NEW t \in Thread, Produce(t) \/ Consume(t)
  PROVE  WakeInv'
<1> USE PthreadAssumption
<1>0. /\ IsFiniteSet(want) /\ IsFiniteSet(owes) /\ items \in Nat
      /\ sem["cond"].q \subseteq want /\ want \cap owes = {}
      /\ IsFiniteSet(Coming) /\ Cardinality(Coming) \in Nat
      /\ sem["cond"].q # {} => items <= Cardinality(Coming)
  BY ComingFinite DEF WakeInv
<1>1. t \notin sem["cond"].q /\ sem' = sem
  BY DEF Produce, Consume, Idles, Calls, Runs, Blocked
<1>2. CASE Produce(t)
  <2>1. t \notin owes /\ t \notin want /\ items' = items + 1 /\ owes' = owes \cup {t} /\ want' = want
    BY <1>2 DEF Produce, Idles
  <2>2. Coming' = Coming \cup {t} /\ t \notin Coming
    BY <1>1, <2>1 DEF Coming
  <2>3. Cardinality(Coming') = Cardinality(Coming) + 1
    BY <1>0, <2>2, FS_AddElement
  <2>4. IsFiniteSet(owes') /\ want' \cap owes' = {}
    BY <1>0, <2>1, FS_AddElement, SMT
  <2>5. sem'["cond"].q # {} => items' <= Cardinality(Coming')
    BY <1>0, <1>1, <2>1, <2>3, SMT
  <2> QED
    BY <1>0, <1>1, <2>1, <2>4, <2>5, SMT DEF WakeInv
<1>3. CASE Consume(t)
  <2>1. t \notin owes /\ items > 0 /\ items' = items - 1 /\ owes' = owes /\ want' = want \ {t}
    BY <1>3 DEF Consume
  <2>2. Coming' = Coming \ {t}
    BY <1>1, <2>1 DEF Coming
  <2>3. Cardinality(Coming') >= Cardinality(Coming) - 1 /\ Cardinality(Coming') \in Nat
    BY <1>0, <2>2, FS_RemoveElement, FS_CardinalityType, SMT
  <2>4. IsFiniteSet(want') /\ want' \cap owes' = {} /\ sem'["cond"].q \subseteq want'
    BY <1>0, <1>1, <2>1, FS_RemoveElement
  <2>5. sem'["cond"].q # {} => items' <= Cardinality(Coming')
    BY <1>0, <1>1, <2>1, <2>3, SMT
  <2>6. items' \in Nat
    BY <1>0, <2>1, SMT
  <2> QED
    BY <1>0, <2>1, <2>4, <2>5, <2>6 DEF WakeInv
<1> QED
  BY <1>2, <1>3

\* While there is no item, threads come and go as they like.
LEMMA NoItem ==
  ASSUME IInv, WakeInv, NEW t \in Thread, items = 0, items' = items, owes' = owes,
         want' \in {want, want \cup {t}, want \ {t}}, t \in want' => t \notin owes,
         sem'["cond"].q \subseteq sem["cond"].q \cup {t}, sem'["cond"].q \subseteq want'
  PROVE  WakeInv'
<1>1. IsFiniteSet(want') /\ want' \cap owes' = {}
  BY FS_AddElement, FS_RemoveElement, SMT DEF WakeInv
<1>2. IsFiniteSet(Coming') /\ Cardinality(Coming') \in Nat
  <2>1. want' \ sem'["cond"].q \in SUBSET want'
    OBVIOUS
  <2>2. IsFiniteSet(want' \ sem'["cond"].q)
    BY <1>1, <2>1, FS_Subset
  <2>3. IsFiniteSet(Coming')
    BY <2>2, FS_Union DEF WakeInv, Coming
  <2> QED
    BY <2>3, FS_CardinalityType
<1> QED
  BY <1>1, <1>2, SMT DEF WakeInv

\* A step of t to the place k.
LEMMA PlaceStep ==
  ASSUME IInv, BroadcastInv, PlaceInv, NEW t \in Thread, Runs(t),
         NEW k, pc' = [pc EXCEPT ![t] = k],
         \A u \in Thread : u # t => res'[u] = res[u],
         wdog' \subseteq wdog \cup {t}, t \in wdog' => TimedPlace(k),
         k.at = "cw1" => items' = 0 /\ t \in want', k = TakeAt("cond", "cw2") => res'[t] = "OK"
  PROVE  PlaceInv'
<1>1. pc'[t] = k /\ \A u \in Thread : u # t => pc'[u] = pc[u]
  BY DEF IInv, TypeInv
<1>2. \A u \in Thread : u # t => pc'[u].at # "cw1"
  BY <1>1, OthersElsewhere
<1>3. wdog' \subseteq Thread /\ \A u \in wdog' : TimedPlace(pc'[u])
  BY <1>1 DEF PlaceInv
<1>4. \A u \in Thread : pc'[u] = TakeAt("cond", "cw2") => res'[u] = "OK"
  BY <1>1 DEF PlaceInv
<1> QED
  BY <1>1, <1>2, <1>3, <1>4 DEF PlaceInv

\* A step of t that has nothing to do with the condition.
LEMMA Quiet ==
  ASSUME IInv, BroadcastInv, PlaceInv, WakeInv, NEW t \in Thread, Runs(t),
         NEW k, pc' = [pc EXCEPT ![t] = k], k.at # "cw1", k # TakeAt("cond", "cw2"),
         \A u \in Thread : u # t => res'[u] = res[u],
         sem'["cond"] = sem["cond"], UNCHANGED uservars,
         wdog' \subseteq wdog, t \in wdog' => TimedPlace(k)
  PROVE  PlaceInv' /\ WakeInv'
<1>1. WakeInv'
  BY FreesOnly
<1>2. PlaceInv'
  BY PlaceStep
<1> QED
  BY <1>1, <1>2

\* A step of t to a plain place, which may post the mutex or the barrier.
LEMMA QuietGoto ==
  ASSUME IInv, BroadcastInv, PlaceInv, WakeInv, NEW t \in Thread, Runs(t),
         NEW l, l # "cw1", Goto(t, l),
         UNCHANGED <<sem, res>> \/ Give("mutex") \/ Give("barrier"), UNCHANGED uservars,
         wdog' \subseteq wdog, t \in wdog' => l \in {"tw1", "tw2", "tw3"}
  PROVE  PlaceInv' /\ WakeInv'
<1>1. pc' = [pc EXCEPT ![t] = At(l)] /\ At(l).at # "cw1" /\ At(l) # TakeAt("cond", "cw2")
  BY DEF Goto, At, TakeAt
<1>2. res' = res /\ sem'["cond"] = sem["cond"]
  BY SemPostEffect, PthreadAssumption DEF Give, IInv, TypeInv
<1>3. t \in wdog' => TimedPlace(At(l))
  BY DEF TimedPlace
<1> QED
  BY <1>1, <1>2, <1>3, Quiet

\* A step of t that takes a count of the mutex or of the barrier, or waits
\* for it.
LEMMA QuietTake ==
  ASSUME IInv, BroadcastInv, PlaceInv, WakeInv, NEW t \in Thread, Runs(t),
         NEW s, NEW l \in {"lock", "cw4", "tw2", "pass"}, Take(t, s, At(l)),
         s = "mutex" \/ s = "barrier", UNCHANGED uservars,
         wdog' = wdog, t \in wdog => s = "mutex" /\ l = "tw2"
  PROVE  PlaceInv' /\ WakeInv'
<1> USE PthreadAssumption
<1> DEFINE k == IF sem[s].cnt > 0 THEN At(l) ELSE TakeAt(s, l)
<1>1. pc' = [pc EXCEPT ![t] = k] /\ k.at # "cw1" /\ k # TakeAt("cond", "cw2")
  BY DEF Take, TakeAt, At
<1>2. t \in wdog' => TimedPlace(k)
  BY DEF TimedPlace
<1>3. sem'["cond"] = sem["cond"] /\ \A u \in Thread : u # t => res'[u] = res[u]
  BY SemWaitEffect, SMT DEF Take, IInv, TypeInv
<1> HIDE DEF k
<1> QED
  BY <1>1, <1>2, <1>3, Quiet

\* pthread_mutex_lock(), _trylock() and _unlock().
LEMMA MutexWake ==
  ASSUME IInv, BroadcastInv, PlaceInv, WakeInv, NEW t \in Thread,
         Lock(t) \/ Locked(t) \/ Relock(t) \/ TryLock(t) \/ Unlock(t)
  PROVE  PlaceInv' /\ WakeInv'
<1> USE PthreadAssumption
<1>0. pc = [u \in Thread |-> pc[u]] /\ sem \in [Sem -> SemRecord]
  BY DEF IInv, TypeInv
<1>1. Runs(t) /\ wdog' = wdog /\ (pc[t] = At("user") \/ pc[t] = At("lock"))
  BY DEF Lock, Locked, Relock, TryLock, Unlock, Idles, Calls
<1>2. t \notin wdog
  BY <1>1, SMT DEF PlaceInv, TimedPlace, At, TakeAt
<1>3. CASE Lock(t)
  BY <1>1, <1>2, <1>3, QuietTake DEF Lock
<1>4. CASE Locked(t)
  BY <1>1, <1>2, <1>4, QuietGoto DEF Locked
<1>5. CASE Relock(t) \/ TryLock(t)
  <2>1. pc[t] = At("user") /\ pc' = [pc EXCEPT ![t] = At("user")] /\ res' = res /\ UNCHANGED uservars
    BY <1>0, <1>5 DEF Relock, TryLock, Idles, Calls
  <2>2. sem'["cond"] = sem["cond"]
    BY <1>0, <1>5 DEF Relock, TryLock
  <2>3. At("user").at # "cw1" /\ At("user") # TakeAt("cond", "cw2")
    BY DEF At, TakeAt
  <2> QED
    BY <1>1, <1>2, <2>1, <2>2, <2>3, Quiet
<1>6. CASE Unlock(t)
  <2>1. /\ pc[t] = At("user") /\ pc' = [pc EXCEPT ![t] = At("user")] /\ items' = items /\ owes' = owes
        /\ want' = want \ {t} /\ (t \in want => items = 0)
    BY <1>0, <1>6 DEF Unlock, Calls
  <2>2. sem'["cond"] = sem["cond"] /\ res' = res
    BY <1>0, <1>6, SemPostEffect DEF Unlock, Give
  <2>3. t \notin sem["cond"].q
    BY <1>1 DEF Runs, Blocked
  <2>4. WakeInv'
    <3>1. CASE t \in want
      BY <2>1, <2>2, <2>3, <3>1, NoItem DEF WakeInv
    <3>2. CASE t \notin want
      <4>1. want' = want
        BY <2>1, <3>2
      <4> QED BY <2>1, <2>2, <4>1, FreesOnly DEF uservars
    <3> QED BY <3>1, <3>2
  <2>5. At("user").at # "cw1" /\ At("user") # TakeAt("cond", "cw2")
    BY DEF At, TakeAt
  <2>6. PlaceInv'
    BY <1>1, <1>2, <2>1, <2>2, <2>5, PlaceStep
  <2> QED BY <2>4, <2>6
<1> QED
  BY <1>3, <1>4, <1>5, <1>6

\* pthread_cond_wait() and pthread_cond_timedwait().
LEMMA WaitWake ==
  ASSUME IInv, BroadcastInv, PlaceInv, WakeInv, NEW t \in Thread,
         \/ CondWait(t) \/ CondWaitTakes(t) \/ CondWaitReturns(t)
         \/ TimedWait(t) \/ TimedWaitTakes(t) \/ TimedWaitOwns(t) \/ TimedWaitReturns(t)
  PROVE  PlaceInv' /\ WakeInv'
<1> USE PthreadAssumption
<1>0. /\ pc = [u \in Thread |-> pc[u]] /\ sem \in [Sem -> SemRecord]
      /\ res \in [Thread -> {"OK", "EINTR"}] /\ items \in Nat
      /\ \A l : t \in wdog /\ pc[t] = At(l) => l \in {"tw1", "tw2", "tw3"}
  BY SMT DEF IInv, TypeInv, WakeInv, PlaceInv, TimedPlace, At, TakeAt
<1>1. Runs(t)
  BY DEF CondWait, CondWaitTakes, CondWaitReturns, TimedWait, TimedWaitTakes, TimedWaitOwns,
         TimedWaitReturns, Wants, Calls
<1>2. t \notin sem["cond"].q
  BY <1>1 DEF Runs, Blocked
<1>3. CASE CondWait(t)
  <2>1. /\ pc[t] = At("user") /\ pc' = [pc EXCEPT ![t] = At("cw1")] /\ items = 0 /\ items' = items
        /\ owes' = owes /\ wdog' = wdog /\ t \notin owes /\ want' = want \cup {t} /\ Give("mutex")
    BY <1>3 DEF CondWait, Wants, Calls, Goto
  <2>2. sem'["cond"] = sem["cond"] /\ res' = res
    BY <1>0, <2>1, SemPostEffect DEF Give
  <2>3. WakeInv'
    BY <2>1, <2>2, NoItem DEF WakeInv
  <2>4. At("cw1") # TakeAt("cond", "cw2") /\ t \notin wdog
    BY <1>0, <2>1, SMT DEF At, TakeAt
  <2> QED BY <1>1, <2>1, <2>2, <2>3, <2>4, PlaceStep
<1>4. CASE TimedWait(t)
  <2>1. /\ pc[t] = At("user") /\ pc' = [pc EXCEPT ![t] = At("tw1")] /\ items = 0 /\ items' = items
        /\ owes' = owes /\ wdog' = wdog \cup {t} /\ t \notin owes /\ want' = want \cup {t}
        /\ res' = [res EXCEPT ![t] = "OK"]
    BY <1>4 DEF TimedWait, Wants, Calls, Goto
  <2>2. PICK m \in Posted(sem["mutex"]) :
          sem' = [sem EXCEPT !["mutex"] = m, !["cond"] = Waited(sem["cond"], t)]
    BY <1>4 DEF TimedWait
  <2>3. sem'["cond"] = Waited(sem["cond"], t) /\ sem["cond"] \in SemRecord
    BY <1>0, <2>2
  <2>4. sem'["cond"].q \subseteq sem["cond"].q \cup {t}
    <3>1. CASE sem["cond"].cnt > 0
      BY <2>3, <3>1 DEF Waited, Taken, SemRecord
    <3>2. CASE ~(sem["cond"].cnt > 0)
      BY <2>3, <3>2 DEF Waited, Queued, SemRecord
    <3> QED BY <3>1, <3>2
  <2>5. WakeInv'
    BY <2>1, <2>4, NoItem DEF WakeInv
  <2>6. /\ At("tw1") # TakeAt("cond", "cw2") /\ TimedPlace(At("tw1")) /\ At("tw1").at # "cw1"
        /\ \A u \in Thread : u # t => res'[u] = res[u]
    BY <1>0, <2>1 DEF At, TakeAt, TimedPlace
  <2> QED BY <1>1, <2>1, <2>5, <2>6, PlaceStep
<1>5. CASE pc[t] = At("cw1") /\ Take(t, "cond", At("cw2")) /\ UNCHANGED <<wdog, uservars>>
  <2> DEFINE k == IF sem["cond"].cnt > 0 THEN At("cw2") ELSE TakeAt("cond", "cw2")
  <2>1. pc' = [pc EXCEPT ![t] = k] /\ k.at # "cw1" /\ t \notin wdog
    BY <1>0, <1>5, SMT DEF Take, At, TakeAt
  <2>2. items = 0 /\ t \in want /\ items' = items /\ owes' = owes /\ want' = want /\ wdog' = wdog
    BY <1>5, SMT DEF PlaceInv, At, uservars
  <2>3. /\ sem'["cond"].q \subseteq sem["cond"].q \cup {t}
        /\ res'[t] = "OK" /\ \A u \in Thread : u # t => res'[u] = res[u]
    BY <1>0, <1>5, SemWaitEffect DEF Take
  <2>4. WakeInv'
    BY <2>2, <2>3, NoItem DEF WakeInv
  <2> HIDE DEF k
  <2> QED
    BY <1>1, <2>1, <2>2, <2>3, <2>4, PlaceStep
<1>6. CASE pc[t] = At("cw2") /\ Goto(t, "cw3") /\ UNCHANGED <<sem, res, wdog, uservars>>
  BY <1>0, <1>1, <1>6, QuietGoto, SMT
<1>7. CASE pc[t] = At("cw3") /\ Take(t, "mutex", At("cw4")) /\ UNCHANGED <<wdog, uservars>>
  BY <1>0, <1>1, <1>7, QuietTake, SMT
<1>8. CASE CondWaitReturns(t)
  BY <1>0, <1>1, <1>8, QuietGoto, SMT DEF CondWaitReturns
<1>9. CASE TimedWaitTakes(t)
  BY <1>0, <1>1, <1>9, QuietTake DEF TimedWaitTakes
<1>10. CASE TimedWaitOwns(t)
  BY <1>0, <1>1, <1>10, QuietGoto DEF TimedWaitOwns
<1>11. CASE TimedWaitReturns(t)
  BY <1>0, <1>1, <1>11, QuietGoto DEF TimedWaitReturns
<1> QED
  BY <1>3, <1>4, <1>5, <1>6, <1>7, <1>8, <1>9, <1>10, <1>11 DEF CondWaitTakes

\* pthread_cond_signal() and pthread_cond_broadcast().
LEMMA SignalWake ==
  ASSUME IInv, BroadcastInv, PlaceInv, WakeInv, NEW t \in Thread,
         CondSignal(t) \/ CondSignalPosts(t) \/ Broadcast(t) \/ BroadcastPosts(t)
  PROVE  PlaceInv' /\ WakeInv'
<1> USE PthreadAssumption
<1>0. /\ pc = [u \in Thread |-> pc[u]] /\ sem \in [Sem -> SemRecord] /\ Place(pc[t])
      /\ CountOrQueue(sem["cond"]) /\ IsFiniteSet(sem["cond"].q) /\ sem["cond"].cnt \in Nat
  BY DEF IInv, TypeInv, BroadcastInv, SemRecord
<1>1. /\ Runs(t) /\ wdog' = wdog /\ items' = items /\ want' = want /\ res' = res
      /\ pc[t].at \in {"user", "sig", "bc"}
  BY SMT DEF CondSignal, CondSignalPosts, Broadcast, BroadcastPosts, MaySignal, Calls, At, Give, SemPost, uservars
<1>2. t \notin sem["cond"].q /\ t \notin wdog
  BY <1>1, SMT DEF Runs, Blocked, PlaceInv, TimedPlace, At, TakeAt
<1>3. t \notin want
  <2>1. CASE pc[t].at \in {"sig", "bc"}
    BY <2>1, SMT DEF IInv, WantInv, TakeAt
  <2>2. CASE pc[t].at = "user"
    BY <2>2, SMT DEF CondSignal, CondSignalPosts, Broadcast, BroadcastPosts, MaySignal, At
  <2> QED
    BY <1>1, <2>1, <2>2
<1>4. ASSUME NEW k, pc' = [pc EXCEPT ![t] = k], k.at \in {"user", "sig", "bc"}
      PROVE  PlaceInv'
  <2>1. k.at # "cw1" /\ k # TakeAt("cond", "cw2")
    BY <1>4, SMT DEF TakeAt
  <2> QED
    BY <1>1, <1>2, <1>4, <2>1, PlaceStep
<1>5. \A l : At(l).at = l
  BY DEF At
<1>6. CASE CondSignal(t) /\ Semcount(sem["cond"]) < 0
  <2>1. pc' = [pc EXCEPT ![t] = At("sig")] /\ owes' = owes /\ sem' = sem
    BY <1>6 DEF CondSignal, Goto
  <2>2. WakeInv'
    BY <1>1, <2>1, FreesOnly DEF uservars
  <2> QED
    BY <1>4, <1>5, <2>1, <2>2
<1>7. CASE CondSignal(t) /\ ~(Semcount(sem["cond"]) < 0)
  <2>1. pc' = pc /\ pc[t].at = "user" /\ owes' = owes \ {t} /\ sem' = sem
    BY <1>7, SMT DEF CondSignal, MaySignal, Calls, At
  <2>2. sem["cond"].q = {}
    <3>1. Cardinality(sem["cond"].q) \in Nat /\ (Cardinality(sem["cond"].q) = 0 <=> sem["cond"].q = {})
      BY <1>0, FS_CardinalityType, FS_EmptySet
    <3> QED
      BY <1>0, <1>7, <3>1, SMT DEF Semcount, CountOrQueue
  <2>3. WakeInv'
    BY <1>1, <1>2, <1>3, <2>1, <2>2, Pays
  <2>4. pc' = [pc EXCEPT ![t] = pc[t]]
    BY <1>0, <2>1
  <2> QED
    BY <1>4, <2>1, <2>3, <2>4
<1>8. ASSUME Give("cond"), owes' = owes \/ owes' = owes \ {t}
      PROVE  WakeInv'
  <2>1. \/ sem["cond"].q = {} /\ sem'["cond"].q = {}
        \/ \E w \in sem["cond"].q : sem'["cond"].q = sem["cond"].q \ {w}
    BY <1>0, <1>8, SemPostEffect DEF Give
  <2> QED
    BY <1>1, <1>2, <1>3, <1>8, <2>1, Pays
<1>9. CASE CondSignalPosts(t)
  <2>1. pc' = [pc EXCEPT ![t] = At("user")] /\ owes' = owes \ {t} /\ Give("cond")
    BY <1>9 DEF CondSignalPosts, Goto
  <2> QED
    BY <1>4, <1>5, <1>8, <2>1
<1>10. CASE Broadcast(t)
  <2> DEFINE k == [at |-> "bc", n |-> Semcount(sem["cond"])]
  <2>1. pc' = [pc EXCEPT ![t] = k] /\ k.at = "bc" /\ sem' = sem /\ UNCHANGED uservars
    BY <1>10 DEF Broadcast
  <2> HIDE DEF k
  <2>2. WakeInv'
    BY <2>1, FreesOnly
  <2> QED
    BY <1>4, <2>1, <2>2
<1>11. CASE BroadcastPosts(t) /\ pc[t].n < 0
  <2> DEFINE k == [pc[t] EXCEPT !.n = pc[t].n + 1]
  <2>1. pc[t].at = "bc" /\ pc' = [pc EXCEPT ![t] = k] /\ owes' = owes /\ Give("cond")
    BY <1>11 DEF BroadcastPosts
  <2>2. DOMAIN pc[t] = {"at", "n"}
    BY <1>0, <2>1, SMT DEF Place, At, TakeAt, Labels
  <2>3. k.at = "bc"
    BY <2>1, <2>2
  <2> HIDE DEF k
  <2> QED
    BY <1>4, <1>8, <2>1, <2>3
<1>12. CASE BroadcastPosts(t) /\ ~(pc[t].n < 0)
  <2>1. pc[t].at = "bc" /\ pc' = [pc EXCEPT ![t] = At("user")] /\ owes' = owes \ {t} /\ sem' = sem
    BY <1>12 DEF BroadcastPosts, Goto
  <2>2. pc[t].n \in Int /\ (sem["cond"].q = {} \/ Cardinality(sem["cond"].q) <= 0 - pc[t].n)
    BY <2>1 DEF BroadcastInv
  <2>3. Cardinality(sem["cond"].q) \in Nat /\ (Cardinality(sem["cond"].q) = 0 <=> sem["cond"].q = {})
    BY <1>0, FS_CardinalityType, FS_EmptySet
  <2>4. sem["cond"].q = {}
    BY <1>12, <2>2, <2>3, SMT
  <2>5. WakeInv'
    BY <1>1, <1>2, <1>3, <2>1, <2>4, Pays
  <2> QED
    BY <1>4, <1>5, <2>1, <2>5
<1> QED
  BY <1>6, <1>7, <1>9, <1>10, <1>11, <1>12

\* pthread_barrier_wait().
LEMMA BarrierWake ==
  ASSUME IInv, BroadcastInv, PlaceInv, WakeInv, NEW t \in Thread,
         BarrierWait(t) \/ BarrierOpens(t) \/ BarrierPass(t)
  PROVE  PlaceInv' /\ WakeInv'
<1> USE PthreadAssumption
<1>0. pc = [u \in Thread |-> pc[u]] /\ sem \in [Sem -> SemRecord] /\ Place(pc[t])
  BY DEF IInv, TypeInv
<1>1. Runs(t) /\ wdog' = wdog /\ UNCHANGED uservars /\ pc[t].at \in {"user", "open", "pass"}
  BY SMT DEF BarrierWait, BarrierOpens, BarrierPass, Idles, Calls, At
<1>2. t \notin wdog
  BY <1>1, SMT DEF PlaceInv, TimedPlace, At, TakeAt
<1>3. ASSUME NEW k, pc' = [pc EXCEPT ![t] = k], k.at = "open", Give("barrier") \/ UNCHANGED <<sem, res>>
      PROVE  PlaceInv' /\ WakeInv'
  <2>1. k.at # "cw1" /\ k # TakeAt("cond", "cw2")
    BY <1>3, SMT DEF TakeAt
  <2>2. res' = res /\ sem'["cond"] = sem["cond"]
    BY <1>0, <1>3, SemPostEffect DEF Give
  <2> QED
    BY <1>1, <1>2, <1>3, <2>1, <2>2, Quiet
<1>4. CASE BarrierWait(t) /\ Take(t, "barrier", At("pass"))
  BY <1>1, <1>2, <1>4, QuietTake
<1>5. CASE /\ pc' = [pc EXCEPT ![t] = [at |-> "open", n |-> Semcount(sem["barrier"])]]
           /\ UNCHANGED <<sem, res>>
  <2>1. [at |-> "open", n |-> Semcount(sem["barrier"])].at = "open"
    OBVIOUS
  <2> QED
    BY <1>3, <1>5, <2>1
<1>6. CASE BarrierOpens(t) /\ pc[t].n < 0
  <2> DEFINE k == [pc[t] EXCEPT !.n = Semcount(sem'["barrier"])]
  <2>1. pc[t].at = "open" /\ Give("barrier") /\ pc' = [pc EXCEPT ![t] = k]
    BY <1>6 DEF BarrierOpens
  <2>2. DOMAIN pc[t] = {"at", "n"}
    BY <1>0, <2>1, SMT DEF Place, At, TakeAt, Labels
  <2>3. k.at = "open"
    BY <2>1, <2>2
  <2> HIDE DEF k
  <2> QED
    BY <1>3, <2>1, <2>3
<1>7. CASE BarrierOpens(t) /\ ~(pc[t].n < 0)
  BY <1>1, <1>2, <1>7, QuietGoto DEF BarrierOpens
<1>8. CASE BarrierPass(t)
  BY <1>1, <1>2, <1>8, QuietGoto DEF BarrierPass
<1> QED
  BY <1>4, <1>5, <1>6, <1>7, <1>8 DEF BarrierWait

\* A wait that is over, or starts again.
LEMMA RetryWake ==
  ASSUME IInv, BroadcastInv, PlaceInv, WakeInv, NEW t \in Thread, Retry(t), UNCHANGED <<wdog, uservars>>
  PROVE  PlaceInv' /\ WakeInv'
<1> USE PthreadAssumption
<1>0. pc = [u \in Thread |-> pc[u]] /\ sem \in [Sem -> SemRecord] /\ Place(pc[t])
  BY DEF IInv, TypeInv
<1>1. Runs(t) /\ pc[t].at = "take"
  BY DEF Retry
<1>2. PICK s \in Sem, l \in {"lock", "cw4", "tw2", "cw2", "pass"} :
        /\ pc[t] = TakeAt(s, l)
        /\ s = "cond" <=> l = "cw2"
  BY <1>0, <1>1, SMT DEF Place, At, Labels
<1>3. /\ pc[t].then = At(l) /\ pc[t].sem = s /\ (t \in wdog => s = "mutex" /\ l = "tw2")
      /\ s = "cond" => res[t] = "OK"
  BY <1>1, <1>2, SMT DEF TakeAt, At, PlaceInv, TimedPlace
<1>4. CASE res[t] = "OK" /\ pc' = [pc EXCEPT ![t] = pc[t].then] /\ UNCHANGED <<sem, res>>
  <2>1. Goto(t, l)
    BY <1>3, <1>4 DEF Goto
  <2> QED
    BY <1>1, <1>3, <1>4, <2>1, QuietGoto
<1>5. CASE res[t] = "EINTR" /\ Take(t, s, At(l))
  BY <1>1, <1>2, <1>3, <1>5, QuietTake
<1> QED
  BY <1>3, <1>4, <1>5 DEF Retry

\* A timeout or a signal does not end an untimed wait for the condition.
LEMMA InterruptsWake ==
  ASSUME "cond" \notin Interruptible,
         IInv, PlaceInv, WakeInv, NEW t \in Thread, Timeout(t) \/ Signal(t)
  PROVE  PlaceInv' /\ WakeInv'
<1> USE PthreadAssumption
<1>0. /\ UNCHANGED uservars /\ wdog' \subseteq wdog /\ pc' = pc
      /\ sem \in [Sem -> SemRecord] /\ res \in [Thread -> {"OK", "EINTR"}]
  BY DEF Timeout, Signal, Interrupted, threadvars, IInv, TypeInv
<1>1. CASE UNCHANGED threadvars
  <2>1. WakeInv'
    BY <1>0, <1>1, FreesOnly DEF threadvars
  <2> QED
    BY <1>0, <1>1, <2>1 DEF threadvars, uservars, PlaceInv
<1>2. CASE Interrupted(t)
  <2>1. /\ sem'["cond"].q \subseteq sem["cond"].q
        /\ \A u \in Thread : u # t => res'[u] = res[u]
    BY <1>0, <1>2, SemEndEffect, SMT DEF Interrupted
  <2>2. WakeInv'
    BY <1>0, <2>1, FreesOnly
  <2>3. pc[t] # TakeAt("cond", "cw2")
    BY SMT DEF Timeout, Signal, PlaceInv, TimedPlace, At, TakeAt
  <2> QED
    BY <1>0, <2>1, <2>2, <2>3 DEF PlaceInv, uservars
<1> QED
  BY <1>1, <1>2 DEF Timeout, Signal

\* Every step keeps the places and the wake-ups.
LEMMA StepWake ==
  ASSUME "cond" \notin Interruptible
  PROVE  IInv /\ BroadcastInv /\ PlaceInv /\ WakeInv /\ [Next]_vars => PlaceInv' /\ WakeInv'
<1> SUFFICES ASSUME IInv, BroadcastInv, PlaceInv, WakeInv, [Next]_vars PROVE PlaceInv' /\ WakeInv'
  OBVIOUS
<1>1. CASE UNCHANGED vars
  BY <1>1 DEF vars, threadvars, uservars, PlaceInv, WakeInv, Coming
<1>2. ASSUME NEW t \in Thread, Produce(t) \/ Consume(t)
      PROVE  PlaceInv' /\ WakeInv'
  <2>1. WakeInv'
    BY <1>2, ItemsWake
  <2>2. pc = [u \in Thread |-> pc[u]]
    BY DEF IInv, TypeInv
  <2>3. Runs(t) /\ pc[t] = At("user") /\ pc' = [pc EXCEPT ![t] = At("user")] /\ res' = res /\ wdog' = wdog
    BY <1>2, <2>2 DEF Produce, Consume, Idles, Calls
  <2>4. t \notin wdog /\ At("user").at # "cw1" /\ At("user") # TakeAt("cond", "cw2")
    BY <2>3, SMT DEF PlaceInv, TimedPlace, At, TakeAt
  <2> QED
    BY <2>1, <2>3, <2>4, PlaceStep
<1> QED
  BY <1>1, <1>2, MutexWake, WaitWake, SignalWake, BarrierWake, RetryWake, InterruptsWake DEF Next

\* No wake-up is lost, with any number of threads and of items, if only
\* timeouts end waits for the condition: as long as a consumer waits, at least
\* as many threads as there are items come to look, or owe a signal.
THEOREM NoWakeupLost ==
  ASSUME "cond" \notin Interruptible
  PROVE  Spec => []EveryItemWakes
<1>1. Init => PlaceInv /\ WakeInv
  <2> SUFFICES ASSUME Init PROVE PlaceInv /\ WakeInv
    OBVIOUS
  <2>1. sem["cond"].q = {} /\ \A t \in Thread : pc[t].at = "user"
    BY PthreadAssumption DEF Init, ThreadsInit, SemInit, At
  <2> QED
    BY <2>1, FS_EmptySet, SMT DEF Init, PlaceInv, WakeInv, TakeAt
<1>2. WakeInv => EveryItemWakes
  <2> SUFFICES ASSUME WakeInv, want \cap sem["cond"].q # {}
               PROVE  items <= Cardinality((want \ (want \cap sem["cond"].q)) \cup owes)
    BY DEF EveryItemWakes
  <2>1. (want \ (want \cap sem["cond"].q)) \cup owes = Coming
    BY DEF Coming
  <2> QED
    BY <2>1 DEF WakeInv
<1> QED
  BY <1>1, <1>2, Invariance, InitBroadcast, StepBroadcast, StepWake, PTL DEF Spec

=============================================================================
