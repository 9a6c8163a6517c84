----------------------------- MODULE JoinProofs -----------------------------
(***************************************************************************)
(* pthread_join() never returns before the exit value is there, never      *)
(* leaves a join_t behind and forgets no thread that waits, for any number *)
(* of threads, joiners and exit values.                                    *)
(***************************************************************************)
EXTENDS Join, FiniteSetTheorems, TLAPS

ExitValue == Value \cup {Canceled}

\* The steps about one of the pthreads, between `++crefs' and `--crefs' and
\* elsewhere.
JoinerStep == {"sleep", "woken", "retake", "unlock", "drop"}
ChildStep == {"created", "close", "cancel", "notify", "again", "told", "join", "detach"} \cup JoinerStep

\* The places at which t goes on without a wait, the semaphore for which it
\* waits before it is there, and the places of t.
Step(t, k) ==
  \/ k = At("user")
  \/ t \in Child /\ k.at \in {"start", "add", "started"} /\ k = At(k.at)
  \/ /\ \/ k.at \in ChildStep /\ k.of \in Child
        \/ k.at \in {"end", "ended"} /\ k.of \in Thread
     /\ k.val \in ExitValue /\ k = Place(k.at, k.of, k.val)
AwaitsFor(s, k) ==
  \/ s = JoinSem /\ k.at \in {"add", "end", "join", "unlock", "detach"}
  \/ s = DataSem(k.of) /\ k.at \in {"created", "told"}
  \/ s = ExitSem(k.of) /\ k.at = "woken"
WaitAt(s, k) == [at |-> "take", sem |-> s, then |-> k]
PlaceOf(t, k) ==
  \/ Step(t, k)
  \/ /\ k.at = "take" /\ k = WaitAt(k.sem, k.then)
     /\ k.sem \in Sem /\ Step(t, k.then) /\ AwaitsFor(k.sem, k.then)

InfoRecord ==
  [mem : {"none", "alloc", "freed"}, listed : BOOLEAN, started : BOOLEAN, crefs : Int,
   detached : BOOLEAN, terminated : BOOLEAN, val : ExitValue \cup {"unset"}]

TypeInv ==
  /\ sem \in [Sem -> SemRecord]
  /\ res \in [Thread -> {"OK", "EINTR"}]
  /\ pc = [t \in Thread |-> pc[t]] /\ \A t \in Thread : PlaceOf(t, pc[t])
  /\ lock \in [Thread -> Nat]
  /\ info \in [Child -> InfoRecord]
  /\ alive \subseteq Thread

\* A thread in the queue of a semaphore is at the place that waits for it.
QueueInv ==
  \A t \in Thread, s \in Sem : t \in sem[s].q => pc[t].at = "take" /\ pc[t].sem = s

\* t is at a step, or will be there without a further wait for exit_sem, that
\* only follows the end of the thread it is about.
KnowsEnd(t) ==
  \/ pc[t].at \in {"woken", "retake", "unlock", "drop", "notify", "again", "told"}
  \/ pc[t].at = "take" /\ pc[t].then.at \in {"unlock", "told"}
  \/ /\ pc[t].at = "take" /\ pc[t].then.at = "woken"
     /\ t \notin sem[pc[t].sem].q /\ res[t] = "OK"

\* Nobody passes exit_sem before the thread has terminated.
EndInv ==
  /\ \A p \in Child : info[p].terminated => info[p].val \in ExitValue
  /\ \A p \in Child : sem[ExitSem(p)].cnt > 0 => info[p].terminated
  /\ \A t \in Thread : KnowsEnd(t) => info[Where(t).of].terminated

IInv == TypeInv /\ QueueInv /\ EndInv

\* p has not put its join_t into the list yet.
Fresh(p) == Where(p).at \in {"start", "add"}

\* What holds of the join_t of p: crefs counts the joiners, the join_t of a
\* detached pthread that has terminated is left to one of them, and p has put
\* its join_t into the list if others have found it there.
RefOf(p) ==
  /\ IsFiniteSet(Joiners(p))
  /\ info[p].mem = "alloc" =>
       /\ info[p].crefs = Cardinality(Joiners(p))
       /\ info[p].terminated /\ info[p].detached => Joiners(p) # {}
  /\ info[p].listed => info[p].mem = "alloc" /\ ~Fresh(p)
  /\ info[p].mem = "none" => Fresh(p)
  /\ Fresh(p) => /\ Joiners(p) = {} /\ info[p].crefs = 0 /\ ~info[p].terminated
                 /\ info[p].mem = IF p \in alive THEN "alloc" ELSE "none"

RefInv == ~broken => \A p \in Child : RefOf(p)

\* Threads that have counts to take do not wait.
CountOrQueue(x) == IsFiniteSet(x.q) /\ (x.cnt > 0 => x.q = {})

\* A joiner on its way to exit_sem has the CPU and the thread still runs, no
\* signal has ended a wait for exit_sem, and nobody is forgotten.
SleepInv ==
  ~broken =>
    /\ \A t \in Thread : pc[t].at = "sleep" =>
         cpu = t /\ lock[t] > 0 /\ ~info[pc[t].of].terminated
    /\ \A p \in Child : CountOrQueue(sem[ExitSem(p)])
    /\ \A t \in Thread : pc[t].at = "take" /\ pc[t].then.at = "woken" => res[t] = "OK"
    /\ NoJoinerForgotten

-----------------------------------------------------------------------------
(* What the operations on semaphores change.                               *)

\* The steps are first-order, except where they cite SMT.
USE Zenon

\* sem_wait() takes a count of s, or puts t into its queue.
LEMMA SemWaitEffect ==
  ASSUME sem \in [Sem -> SemRecord], res \in [Thread -> {"OK", "EINTR"}],
         NEW t \in Thread, NEW s \in Sem, SemWait(t, s)
  PROVE  /\ sem' \in [Sem -> SemRecord] /\ res' \in [Thread -> {"OK", "EINTR"}]
         /\ \A r \in Sem : r # s => sem'[r] = sem[r]
         /\ \/ sem[s].cnt > 0 /\ sem'[s].cnt = sem[s].cnt - 1 /\ sem'[s].q = sem[s].q
            \/ ~(sem[s].cnt > 0) /\ sem'[s].cnt = sem[s].cnt /\ sem'[s].q = sem[s].q \cup {t}
         /\ res'[t] = "OK" /\ \A u \in Thread : u # t => res'[u] = res[u]
<1>1. sem[s] \in [cnt : Nat, q : SUBSET Thread]
  BY DEF SemRecord
<1>2. CASE sem[s].cnt > 0
  <2>1. sem' = [sem EXCEPT ![s] = Taken(sem[s])]
    BY <1>2 DEF SemWait, Waited
  <2>2. /\ Taken(sem[s]) \in SemRecord
        /\ Taken(sem[s]).cnt = sem[s].cnt - 1 /\ Taken(sem[s]).q = sem[s].q
    BY <1>1, <1>2, SMT DEF Taken, SemRecord
  <2> QED
    BY <1>2, <2>1, <2>2 DEF SemWait
<1>3. CASE ~(sem[s].cnt > 0)
  <2>1. sem' = [sem EXCEPT ![s] = Queued(sem[s], t)]
    BY <1>3 DEF SemWait, Waited
  <2>2. /\ Queued(sem[s], t) \in SemRecord
        /\ Queued(sem[s], t).cnt = sem[s].cnt /\ Queued(sem[s], t).q = sem[s].q \cup {t}
    BY <1>1 DEF Queued, SemRecord
  <2> QED
    BY <1>3, <2>1, <2>2 DEF SemWait
<1> QED
  BY <1>2, <1>3

\* What a post makes of a semaphore.
LEMMA PostedEffect ==
  ASSUME NEW x \in SemRecord, NEW y \in Posted(x)
  PROVE  /\ y \in SemRecord
         /\ \/ x.q = {} /\ y.cnt = x.cnt + 1 /\ y.q = {}
            \/ \E w \in x.q : y.cnt = x.cnt /\ y.q = x.q \ {w}
<1>1. CASE x.q = {}
  <2>1. y = [x EXCEPT !.cnt = x.cnt + 1]
    BY <1>1 DEF Posted
  <2> QED
    BY <1>1, <2>1, SMT DEF SemRecord
<1>2. CASE x.q # {}
  <2>1. PICK w \in x.q : y = [x EXCEPT !.q = x.q \ {w}]
    BY <1>2 DEF Posted
  <2> QED
    BY <1>2, <2>1 DEF SemRecord
<1> QED
  BY <1>1, <1>2

\* sem_post() adds a count to s, or takes one thread out of its queue.
LEMMA SemPostEffect ==
  ASSUME sem \in [Sem -> SemRecord], NEW s \in Sem, SemPost(s)
  PROVE  /\ sem' \in [Sem -> SemRecord]
         /\ \A r \in Sem : r # s => sem'[r] = sem[r]
         /\ \/ sem[s].q = {} /\ sem'[s].cnt = sem[s].cnt + 1 /\ sem'[s].q = {}
            \/ \E w \in sem[s].q : sem'[s].cnt = sem[s].cnt /\ sem'[s].q = sem[s].q \ {w}
         /\ res' = res
<1>1. PICK x \in Posted(sem[s]) : sem' = [sem EXCEPT ![s] = x]
  BY DEF SemPost
<1>2. /\ x \in SemRecord
      /\ \/ sem[s].q = {} /\ x.cnt = sem[s].cnt + 1 /\ x.q = {}
         \/ \E w \in sem[s].q : x.cnt = sem[s].cnt /\ x.q = sem[s].q \ {w}
  BY PostedEffect
<1> QED
  BY <1>1, <1>2 DEF SemPost

\* The end of a wait takes t out of the queue of one semaphore.
LEMMA SemEndEffect ==
  ASSUME sem \in [Sem -> SemRecord], res \in [Thread -> {"OK", "EINTR"}],
         NEW t \in Thread, SemEnd(t, "EINTR")
  PROVE  /\ sem' \in [Sem -> SemRecord] /\ res' \in [Thread -> {"OK", "EINTR"}]
         /\ \E s \in Sem : /\ t \in sem[s].q
                           /\ \A r \in Sem : r # s => sem'[r] = sem[r]
                           /\ sem'[s].cnt = sem[s].cnt /\ sem'[s].q = sem[s].q \ {t}
         /\ res'[t] = "EINTR" /\ \A u \in Thread : u # t => res'[u] = res[u]
<1>1. PICK s \in Sem : t \in sem[s].q /\ sem' = [sem EXCEPT ![s] = [sem[s] EXCEPT !.q = sem[s].q \ {t}]]
  BY DEF SemEnd
<1>2. /\ [sem[s] EXCEPT !.q = sem[s].q \ {t}] \in SemRecord
      /\ [sem[s] EXCEPT !.q = sem[s].q \ {t}].cnt = sem[s].cnt
      /\ [sem[s] EXCEPT !.q = sem[s].q \ {t}].q = sem[s].q \ {t}
  BY DEF SemRecord
<1> QED
  BY <1>1, <1>2 DEF SemEnd

\* The semaphores are different ones.
LEMMA SemsDiffer ==
  /\ JoinSem \in Sem /\ \A p \in Child : DataSem(p) \in Sem /\ ExitSem(p) \in Sem
  /\ \A p \in Child : JoinSem # DataSem(p) /\ JoinSem # ExitSem(p)
  /\ \A p, q \in Child : ExitSem(p) # DataSem(q) /\ (ExitSem(p) = ExitSem(q) => p = q)
BY JoinAssumption DEF JoinSem, DataSem, ExitSem

-----------------------------------------------------------------------------
(* The kinds of steps.                                                     *)

\* What a step may make of the join_t's.
InfoGrows ==
  /\ info' \in [Child -> InfoRecord]
  /\ \A p \in Child : info[p].terminated => info'[p].terminated
  /\ \A p \in Child : info'[p].terminated => info'[p].val \in ExitValue

\* The steps of those who know that the thread has terminated.
EndStep == {"woken", "retake", "unlock", "drop", "notify", "again", "told"}

\* A wait is no step.
LEMMA StepPlain ==
  ASSUME NEW t, NEW k, Step(t, k)
  PROVE  k.at # "take"
BY SMT DEF Step, At, Place, ChildStep, JoinerStep

\* The place of a thread that waits.
LEMMA TakePlace ==
  ASSUME TypeInv, NEW u \in Thread, pc[u].at = "take"
  PROVE  /\ pc[u] = WaitAt(pc[u].sem, pc[u].then)
         /\ pc[u].sem \in Sem /\ Step(u, pc[u].then) /\ AwaitsFor(pc[u].sem, pc[u].then)
BY StepPlain DEF TypeInv, PlaceOf

\* Those steps are about a pthread.
LEMMA KnownChild ==
  ASSUME TypeInv, NEW u \in Thread, KnowsEnd(u)
  PROVE  Where(u).of \in Child
<1>1. PlaceOf(u, pc[u])
  BY DEF TypeInv
<1>2. Where(u).at \in EndStep /\ Step(u, Where(u))
  BY <1>1, SMT DEF KnowsEnd, EndStep, Where, PlaceOf, Step, At, Place, ChildStep, JoinerStep
<1> QED
  BY <1>2, SMT DEF Step, At, Place, EndStep

\* A step of t to the place k that adds nobody but t to a queue.
LEMMA TypeStep ==
  ASSUME IInv, NEW t \in Thread, ~Blocked(t), NEW k, PlaceOf(t, k), Move(t, k),
         sem' \in [Sem -> SemRecord], res' \in [Thread -> {"OK", "EINTR"}],
         lock' \in [Thread -> Nat], InfoGrows, alive' \subseteq Thread,
         \A s \in Sem : /\ sem'[s].q \subseteq sem[s].q \cup {t}
                        /\ t \in sem'[s].q => k.at = "take" /\ k.sem = s
  PROVE  TypeInv' /\ QueueInv' /\ pc'[t] = k /\ \A u \in Thread : u # t => pc'[u] = pc[u]
<1>1. pc'[t] = k /\ \A u \in Thread : u # t => pc'[u] = pc[u]
  BY DEF IInv, TypeInv, Move
<1>2. TypeInv'
  BY <1>1 DEF IInv, TypeInv, Move, InfoGrows
<1>3. QueueInv'
  BY <1>1, SMT DEF IInv, QueueInv
<1> QED
  BY <1>1, <1>2, <1>3

\* The others know no more than they did, or what is true.
LEMMA EndStays ==
  ASSUME IInv, NEW t \in Thread, InfoGrows, \A u \in Thread : u # t => pc'[u] = pc[u],
         \A p \in Child : sem'[ExitSem(p)].cnt > 0 => info'[p].terminated,
         \A u \in Thread : u # t /\ KnowsEnd(u)' => KnowsEnd(u) \/ info'[Where(u).of].terminated,
         KnowsEnd(t)' => info'[Where(t)'.of].terminated
  PROVE  EndInv'
<1>1. \A u \in Thread : u # t => Where(u)' = Where(u)
  BY DEF Where
<1>2. ASSUME NEW u \in Thread, KnowsEnd(u)'
      PROVE  info'[Where(u)'.of].terminated
  <2>1. CASE u = t
    BY <1>2, <2>1
  <2>2. CASE u # t /\ KnowsEnd(u)
    BY <1>1, <2>2, KnownChild DEF IInv, EndInv, InfoGrows
  <2> QED
    BY <1>1, <1>2, <2>1, <2>2
<1> QED
  BY <1>2 DEF EndInv, InfoGrows

\* A step that touches no queue, and no exit_sem.
LEMMA Moves ==
  ASSUME IInv, NEW t \in Thread, ~Blocked(t), NEW k, Step(t, k), Move(t, k),
         sem' \in [Sem -> SemRecord], res' = res, \A s \in Sem : sem'[s].q = sem[s].q,
         \A p \in Child : sem'[ExitSem(p)] = sem[ExitSem(p)],
         lock' \in [Thread -> Nat], InfoGrows, alive' \subseteq Thread,
         k.at \in EndStep => info'[k.of].terminated
  PROVE  IInv'
<1>1. PlaceOf(t, k) /\ k.at # "take"
  BY SMT DEF PlaceOf, Step, At, Place, ChildStep, JoinerStep
<1>2. t \notin UNION {sem[s].q : s \in Sem}
  BY DEF Blocked
<1>3. TypeInv' /\ QueueInv' /\ pc'[t] = k /\ \A u \in Thread : u # t => pc'[u] = pc[u]
  <2>1. res' \in [Thread -> {"OK", "EINTR"}]
    BY DEF IInv, TypeInv
  <2>2. \A s \in Sem : /\ sem'[s].q \subseteq sem[s].q \cup {t}
                       /\ t \in sem'[s].q => k.at = "take" /\ k.sem = s
    BY <1>2
  <2> QED
    BY <1>1, <2>1, <2>2, TypeStep
<1>4. ASSUME NEW u \in Thread, u # t, KnowsEnd(u)'
      PROVE  KnowsEnd(u)
  <2>1. CASE pc[u].at = "take"
    <3>1. pc[u].sem \in Sem
      BY <2>1, TakePlace DEF IInv
    <3>2. sem'[pc[u].sem].q = sem[pc[u].sem].q
      BY <3>1
    <3> QED
      BY <1>3, <1>4, <2>1, <3>2 DEF KnowsEnd
  <2>2. CASE pc[u].at # "take"
    BY <1>3, <1>4, <2>2 DEF KnowsEnd
  <2> QED
    BY <2>1, <2>2
<1>5. KnowsEnd(t)' => info'[Where(t)'.of].terminated
  BY <1>1, <1>3 DEF KnowsEnd, Where, EndStep
<1>6. \A p \in Child : sem'[ExitSem(p)].cnt > 0 => info'[p].terminated
  BY DEF IInv, EndInv, InfoGrows
<1>7. EndInv'
  BY <1>3, <1>4, <1>5, <1>6, EndStays
<1> QED
  BY <1>3, <1>7 DEF IInv

\* A step that posts a semaphore, exit_sem only when the thread has terminated.
LEMMA Gives ==
  ASSUME IInv, NEW t \in Thread, ~Blocked(t), NEW k, Step(t, k), Move(t, k),
         NEW s \in Sem, Give(s), \A p \in Child : s = ExitSem(p) => info[p].terminated,
         lock' \in [Thread -> Nat], InfoGrows, alive' \subseteq Thread,
         k.at \in EndStep => info'[k.of].terminated
  PROVE  IInv'
<1>0. sem \in [Sem -> SemRecord]
  BY DEF IInv, TypeInv
<1>1. PlaceOf(t, k) /\ k.at # "take"
  BY StepPlain DEF PlaceOf
<1>2. /\ sem' \in [Sem -> SemRecord] /\ res' = res
      /\ \A r \in Sem : r # s => sem'[r] = sem[r]
      /\ sem'[s].q \subseteq sem[s].q
  BY <1>0, SemPostEffect DEF Give
<1>3. \A r \in Sem : sem'[r].q \subseteq sem[r].q /\ t \notin sem[r].q
  BY <1>2 DEF Blocked
<1>4. TypeInv' /\ QueueInv' /\ pc'[t] = k /\ \A u \in Thread : u # t => pc'[u] = pc[u]
  <2>1. res' \in [Thread -> {"OK", "EINTR"}]
    BY <1>2 DEF IInv, TypeInv
  <2>2. \A r \in Sem : /\ sem'[r].q \subseteq sem[r].q \cup {t}
                       /\ t \in sem'[r].q => k.at = "take" /\ k.sem = r
    BY <1>3
  <2> QED
    BY <1>1, <1>2, <2>1, <2>2, TypeStep
<1>5. ASSUME NEW u \in Thread, u # t, KnowsEnd(u)', ~KnowsEnd(u)
      PROVE  info'[Where(u).of].terminated
  <2>1. pc[u].at = "take" /\ pc[u].then.at = "woken"
    BY <1>2, <1>4, <1>5 DEF KnowsEnd
  <2>2. pc[u].sem \in Sem /\ pc[u].sem = ExitSem(pc[u].then.of) /\ pc[u].then.of \in Child
    <3>1. pc[u].sem \in Sem /\ Step(u, pc[u].then) /\ AwaitsFor(pc[u].sem, pc[u].then)
      BY <2>1, TakePlace DEF IInv
    <3> QED
      BY <2>1, <3>1, SMT DEF AwaitsFor, Step, At, Place
  <2>3. pc[u].sem = s
    BY <1>2, <1>4, <1>5, <2>1, <2>2 DEF KnowsEnd
  <2> QED
    BY <2>1, <2>2, <2>3 DEF Where, InfoGrows
<1>6. KnowsEnd(t)' => info'[Where(t)'.of].terminated
  BY <1>1, <1>4 DEF KnowsEnd, Where, EndStep
<1>7. ASSUME NEW p \in Child, sem'[ExitSem(p)].cnt > 0
      PROVE  info'[p].terminated
  <2>1. CASE s = ExitSem(p)
    BY <2>1 DEF InfoGrows
  <2>2. CASE s # ExitSem(p)
    BY <1>2, <1>7, <2>2, SemsDiffer DEF IInv, EndInv, InfoGrows
  <2> QED
    BY <2>1, <2>2
<1>8. EndInv'
  BY <1>4, <1>5, <1>6, <1>7, EndStays
<1> QED
  BY <1>4, <1>8 DEF IInv

\* A step that takes a count, or waits for one.
LEMMA Takes ==
  ASSUME IInv, NEW t \in Thread, ~Blocked(t), NEW k, Step(t, k),
         NEW s \in Sem, AwaitsFor(s, k), Take(t, s, k),
         lock' \in [Thread -> Nat], InfoGrows, alive' \subseteq Thread,
         k.at \in {"unlock", "told"} => info[k.of].terminated
  PROVE  IInv'
<1> DEFINE n == IF sem[s].cnt > 0 THEN k ELSE WaitAt(s, k)
<1>0. sem \in [Sem -> SemRecord] /\ res \in [Thread -> {"OK", "EINTR"}]
  BY DEF IInv, TypeInv
<1>1. k.at # "take" /\ WaitAt(s, k).at = "take" /\ WaitAt(s, k).sem = s /\ WaitAt(s, k).then = k
  BY StepPlain DEF WaitAt
<1>2. /\ sem' \in [Sem -> SemRecord] /\ res' \in [Thread -> {"OK", "EINTR"}]
      /\ \A r \in Sem : r # s => sem'[r] = sem[r]
      /\ \/ sem[s].cnt > 0 /\ sem'[s].cnt = sem[s].cnt - 1 /\ sem'[s].q = sem[s].q
         \/ ~(sem[s].cnt > 0) /\ sem'[s].cnt = sem[s].cnt /\ sem'[s].q = sem[s].q \cup {t}
      /\ res'[t] = "OK" /\ \A u \in Thread : u # t => res'[u] = res[u]
  BY <1>0, SemWaitEffect DEF Take
<1>3. Move(t, n) /\ PlaceOf(t, n)
  BY <1>1 DEF Take, Move, WaitAt, PlaceOf
<1>4. \A r \in Sem : /\ sem'[r].q \subseteq sem[r].q \cup {t}
                     /\ t \in sem'[r].q => n.at = "take" /\ n.sem = r
  BY <1>1, <1>2 DEF Blocked
<1>5. sem[s].cnt > 0 => n = k
  OBVIOUS
<1>6. ~(sem[s].cnt > 0) => n = WaitAt(s, k)
  OBVIOUS
<1> HIDE DEF n
<1>7. TypeInv' /\ QueueInv' /\ pc'[t] = n /\ \A u \in Thread : u # t => pc'[u] = pc[u]
  BY <1>2, <1>3, <1>4, TypeStep, SMT
<1>8. ASSUME NEW u \in Thread, u # t, KnowsEnd(u)'
      PROVE  KnowsEnd(u)
  <2>1. CASE pc[u].at = "take"
    <3>1. pc[u].sem \in Sem
      BY <2>1, TakePlace DEF IInv
    <3>2. u \notin sem'[pc[u].sem].q => u \notin sem[pc[u].sem].q
      BY <1>2, <1>8, <3>1
    <3> QED
      BY <1>2, <1>7, <1>8, <2>1, <3>2 DEF KnowsEnd
  <2>2. CASE pc[u].at # "take"
    BY <1>7, <1>8, <2>2 DEF KnowsEnd
  <2> QED
    BY <2>1, <2>2
<1>9. k.at \in EndStep /\ sem[s].cnt > 0 => k.at \in {"unlock", "told", "woken"}
  BY DEF AwaitsFor, EndStep
<1>10. ASSUME k.at = "woken", sem[s].cnt > 0
       PROVE  info[k.of].terminated
  BY <1>10, SMT DEF AwaitsFor, Step, At, Place, IInv, EndInv
<1>11. ASSUME KnowsEnd(t)'
       PROVE  info'[Where(t)'.of].terminated
  <2>0. k.at \in {"unlock", "told", "woken"} => k.of \in Child
    BY SMT DEF Step, At, Place
  <2>1. CASE sem[s].cnt > 0
    <3>1. pc'[t] = k
      BY <1>5, <1>7, <2>1
    <3>2. k.at \in EndStep /\ Where(t)' = k
      BY <1>1, <1>11, <3>1 DEF KnowsEnd, EndStep, Where
    <3> QED
      BY <1>9, <1>10, <2>0, <2>1, <3>2 DEF InfoGrows
  <2>2. CASE ~(sem[s].cnt > 0)
    <3>1. pc'[t] = WaitAt(s, k)
      BY <1>6, <1>7, <2>2
    <3>2. k.at \in {"unlock", "told"} /\ Where(t)' = k
      BY <1>1, <1>2, <1>11, <2>2, <3>1 DEF KnowsEnd, Where
    <3> QED
      BY <2>0, <3>2 DEF InfoGrows
  <2> QED
    BY <2>1, <2>2
<1>12. ASSUME NEW p \in Child, sem'[ExitSem(p)].cnt > 0
       PROVE  info'[p].terminated
  <2>1. sem[ExitSem(p)].cnt \in Nat /\ ExitSem(p) \in Sem
    BY <1>0, SemsDiffer DEF SemRecord
  <2>2. sem[ExitSem(p)].cnt > 0
    BY <1>2, <1>12, <2>1
  <2> QED
    BY <2>2 DEF IInv, EndInv, InfoGrows
<1>13. EndInv'
  BY <1>7, <1>8, <1>11, <1>12, EndStays
<1> QED
  BY <1>7, <1>13 DEF IInv

\* A signal ends the wait of t.
LEMMA Interrupts ==
  ASSUME IInv, NEW t \in Thread, Interrupted(t), UNCHANGED <<alive, info>>
  PROVE  IInv'
<1>0. sem \in [Sem -> SemRecord] /\ res \in [Thread -> {"OK", "EINTR"}]
  BY DEF IInv, TypeInv
<1>1. PICK s \in Sem : /\ t \in sem[s].q
                       /\ \A r \in Sem : r # s => sem'[r] = sem[r]
                       /\ sem'[s].cnt = sem[s].cnt /\ sem'[s].q = sem[s].q \ {t}
  BY <1>0, SemEndEffect DEF Interrupted
<1>2. /\ sem' \in [Sem -> SemRecord] /\ res' \in [Thread -> {"OK", "EINTR"}]
      /\ res'[t] = "EINTR" /\ \A u \in Thread : u # t => res'[u] = res[u]
      /\ pc' = pc /\ lock' = lock
  BY <1>0, SemEndEffect DEF Interrupted
<1>3. TypeInv' /\ QueueInv'
  <2>1. TypeInv'
    BY <1>2 DEF IInv, TypeInv
  <2> QED
    BY <1>1, <1>2, <2>1 DEF IInv, QueueInv
<1>4. InfoGrows
  BY DEF InfoGrows, IInv, TypeInv, EndInv
<1>5. ASSUME NEW u \in Thread, u # t, KnowsEnd(u)'
      PROVE  KnowsEnd(u)
  <2>1. CASE pc[u].at = "take"
    <3>1. pc[u].sem \in Sem
      BY <2>1, TakePlace DEF IInv
    <3>2. u \notin sem'[pc[u].sem].q => u \notin sem[pc[u].sem].q
      BY <1>1, <1>5, <3>1
    <3> QED
      BY <1>2, <1>5, <2>1, <3>2 DEF KnowsEnd
  <2>2. CASE pc[u].at # "take"
    BY <1>2, <1>5, <2>2 DEF KnowsEnd
  <2> QED
    BY <2>1, <2>2
<1>6. KnowsEnd(t)' => KnowsEnd(t)
  BY <1>2 DEF KnowsEnd
<1>7. KnowsEnd(t)' => info'[Where(t)'.of].terminated
  BY <1>2, <1>6 DEF Where, IInv, EndInv
<1>8. \A p \in Child : sem'[ExitSem(p)].cnt > 0 => info'[p].terminated
  BY <1>1, SemsDiffer DEF IInv, EndInv
<1>9. EndInv'
  BY <1>2, <1>4, <1>5, <1>7, <1>8, EndStays
<1> QED
  BY <1>3, <1>9 DEF IInv

-----------------------------------------------------------------------------
(* The actions.                                                            *)

\* Pre-emption locks stay natural numbers.
LEMMA LockType ==
  ASSUME lock \in [Thread -> Nat], NEW t \in Thread, sched_lock(t) \/ sched_unlock(t) \/ SameLock(t)
  PROVE  lock' \in [Thread -> Nat]
<1>1. CASE sched_lock(t)
  BY <1>1, SMT DEF sched_lock
<1>2. CASE sched_unlock(t)
  BY <1>2, SMT DEF sched_unlock
<1>3. CASE SameLock(t)
  BY <1>3 DEF SameLock
<1> QED
  BY <1>1, <1>2, <1>3

\* A thread inside a service, and its next place there.
LEMMA AtPlace ==
  ASSUME TypeInv, NEW t \in Thread, pc[t].at \in ChildStep \cup {"end", "ended"}
  PROVE  /\ pc[t].at \in ChildStep => pc[t].of \in Child
         /\ pc[t].of \in Thread /\ pc[t].val \in ExitValue
         /\ \A l : [pc[t] EXCEPT !.at = l] = Place(l, pc[t].of, pc[t].val)
<1>1. Step(t, pc[t])
  BY DEF TypeInv, PlaceOf, ChildStep, JoinerStep
<1>2. /\ \/ pc[t].at \in ChildStep /\ pc[t].of \in Child
         \/ pc[t].at \in {"end", "ended"} /\ pc[t].of \in Thread
      /\ pc[t].val \in ExitValue /\ pc[t] = Place(pc[t].at, pc[t].of, pc[t].val)
  BY <1>1, SMT DEF Step, At, ChildStep, JoinerStep
<1> QED
  BY <1>2, JoinAssumption, SMT DEF Place, ChildStep, JoinerStep

\* A thread in pthread_start().
LEMMA StartPlace ==
  ASSUME TypeInv, NEW t \in Thread, pc[t].at \in {"start", "add", "started"}
  PROVE  t \in Child /\ pc[t] = At(pc[t].at)
<1>1. Step(t, pc[t])
  BY DEF TypeInv, PlaceOf
<1> QED
  BY <1>1, SMT DEF Step, At, Place, ChildStep, JoinerStep

\* The places of services.
LEMMA Places ==
  /\ \A t \in Thread, l \in ChildStep, p \in Child, v \in ExitValue : Step(t, Place(l, p, v))
  /\ \A t \in Thread, l \in {"end", "ended"}, p \in Thread, v \in ExitValue : Step(t, Place(l, p, v))
  /\ \A t : Step(t, At("user"))
  /\ \A t \in Child, l \in {"start", "add", "started"} : Step(t, At(l))
  /\ \A l, p, v : Place(l, p, v).at = l /\ Place(l, p, v).of = p /\ Place(l, p, v).val = v
  /\ \A l : At(l).at = l
BY SMT DEF Step, Place, At

\* Nothing happens to the join_t's.
LEMMA InfoSame == IInv /\ info' = info => InfoGrows
BY DEF IInv, TypeInv, EndInv, InfoGrows

\* pthread_create() and pthread_start().
LEMMA CreateInv ==
  ASSUME IInv, NEW t \in Thread,
         \/ \E p \in Child : Create(t, p)
         \/ Created(t) \/ CreateReturns(t) \/ Start(t) \/ StartAdds(t) \/ Started(t)
  PROVE  IInv'
<1> USE SemsDiffer
<1>0. /\ sem \in [Sem -> SemRecord] /\ lock \in [Thread -> Nat] /\ alive \subseteq Thread
      /\ info \in [Child -> InfoRecord] /\ TypeInv /\ Child \subseteq Thread /\ Canceled \in ExitValue
  BY JoinAssumption DEF IInv, TypeInv, ExitValue
<1>1. ~Blocked(t) /\ lock' \in [Thread -> Nat]
  BY <1>0, LockType DEF Create, Created, CreateReturns, Start, StartAdds, Started, Asks, Does, Calls, Runs
<1>2. ASSUME NEW p \in Child, Create(t, p)
      PROVE  IInv'
  <2>1. InfoGrows
    <3>1. info' = [info EXCEPT ![p] = [info[p] EXCEPT !.mem = "alloc"]]
      BY <1>2 DEF Create
    <3>2. [info[p] EXCEPT !.mem = "alloc"] \in InfoRecord
      BY <1>0, SMT DEF InfoRecord
    <3> QED
      BY <1>0, <3>1, <3>2 DEF InfoGrows, InfoRecord, IInv, EndInv
  <2>2. alive' \subseteq Thread /\ Take(t, DataSem(p), Place("created", p, Canceled))
    BY <1>0, <1>2 DEF Create
  <2>3. Step(t, Place("created", p, Canceled)) /\ AwaitsFor(DataSem(p), Place("created", p, Canceled))
    BY <1>0, Places, SMT DEF ChildStep, AwaitsFor
  <2>4. Place("created", p, Canceled).at = "created"
    BY Places
  <2> QED
    BY <1>1, <2>1, <2>2, <2>3, <2>4, Takes
<1>3. CASE Created(t)
  <2>1. pc[t].at = "created" /\ Move(t, Place("close", pc[t].of, Canceled)) /\ UNCHANGED <<sem, res, alive, info>>
    BY <1>3 DEF Created, Does
  <2>2. pc[t].of \in Child
    BY <1>0, <2>1, AtPlace DEF ChildStep
  <2>3. /\ Step(t, Place("close", pc[t].of, Canceled))
        /\ Place("close", pc[t].of, Canceled).at \notin EndStep
    BY <1>0, <2>2, Places, SMT DEF ChildStep, EndStep
  <2> QED
    BY <1>0, <1>1, <2>1, <2>3, Moves, InfoSame
<1>4. CASE CreateReturns(t)
  <2> DEFINE d == DataSem(pc[t].of)
  <2>1. /\ pc[t].at = "close" /\ Move(t, At("user")) /\ UNCHANGED <<res, alive, info>>
        /\ sem' = [sem EXCEPT ![d] = Destroyed(sem[d])]
    BY <1>4 DEF CreateReturns, Does, Goto, Move
  <2>2. pc[t].of \in Child
    BY <1>0, <2>1, AtPlace DEF ChildStep
  <2>3. d \in Sem /\ \A p \in Child : ExitSem(p) # d
    BY <2>2
  <2> HIDE DEF d
  <2>4. Destroyed(sem[d]) \in SemRecord /\ Destroyed(sem[d]).q = sem[d].q
    BY <1>0, <2>3 DEF Destroyed, SemRecord
  <2>5. /\ sem' \in [Sem -> SemRecord] /\ \A s \in Sem : sem'[s].q = sem[s].q
        /\ \A p \in Child : sem'[ExitSem(p)] = sem[ExitSem(p)]
    BY <1>0, <2>1, <2>3, <2>4
  <2>6. Step(t, At("user")) /\ At("user").at \notin EndStep
    BY Places, SMT DEF EndStep
  <2> QED
    BY <1>0, <1>1, <2>1, <2>5, <2>6, Moves, InfoSame
<1>5. CASE Start(t)
  <2>1. pc[t].at = "start" /\ Take(t, JoinSem, At("add")) /\ UNCHANGED <<alive, info>>
    BY <1>5 DEF Start, Does
  <2>2. t \in Child
    BY <1>0, <2>1, StartPlace
  <2>3. Step(t, At("add")) /\ AwaitsFor(JoinSem, At("add")) /\ At("add").at = "add"
    BY <2>2, Places DEF AwaitsFor
  <2> QED
    BY <1>0, <1>1, <2>1, <2>3, Takes, InfoSame
<1>6. CASE StartAdds(t) \/ Started(t)
  <2>1. pc[t].at \in {"add", "started"} /\ alive' = alive
    BY <1>6 DEF StartAdds, Started, Does
  <2>2. t \in Child
    BY <1>0, <2>1, StartPlace
  <2>3. InfoGrows
    <3>1. PICK x \in InfoRecord : info' = [info EXCEPT ![t] = x] /\ x.terminated = info[t].terminated
                                  /\ x.val = info[t].val
      <4>1. CASE StartAdds(t)
        <5>0. info[t] \in InfoRecord
          BY <1>0, <2>2
        <5>1. [info[t] EXCEPT !.listed = TRUE] \in InfoRecord
          BY <5>0 DEF InfoRecord
        <5> QED
          BY <1>0, <2>2, <4>1, <5>1 DEF StartAdds, InfoRecord
      <4>2. CASE Started(t)
        <5>0. info[t] \in InfoRecord
          BY <1>0, <2>2
        <5>1. [info[t] EXCEPT !.started = TRUE] \in InfoRecord
          BY <5>0 DEF InfoRecord
        <5> QED
          BY <1>0, <2>2, <4>2, <5>1 DEF Started, InfoRecord
      <4> QED
        BY <1>6, <4>1, <4>2
    <3> QED
      BY <1>0, <2>2, <3>1 DEF InfoGrows, IInv, EndInv
  <2>4. \A l \in {"started", "user"} : Step(t, At(l)) /\ At(l).at \notin EndStep
    BY <2>2, Places DEF EndStep
  <2>5. CASE StartAdds(t)
    <3>1. Give(JoinSem) /\ Move(t, At("started"))
      BY <2>5 DEF StartAdds, Goto, Move
    <3> QED
      BY <1>0, <1>1, <2>1, <2>3, <2>4, <3>1, Gives
  <2>6. CASE Started(t)
    <3>1. Give(DataSem(t)) /\ Move(t, At("user"))
      BY <2>6 DEF Started, Goto, Move
    <3> QED
      BY <1>0, <1>1, <2>1, <2>2, <2>3, <2>4, <3>1, Gives
  <2> QED
    BY <1>6, <2>5, <2>6
<1> QED
  BY <1>2, <1>3, <1>4, <1>5, <1>6

\* pthread_exit(), pthread_cancel() and pthread_setcancelstate().
LEMMA ExitInv ==
  ASSUME IInv, NEW t \in Thread,
         \/ \E v \in Value : Exit(t, v)
         \/ \E p \in Child : Cancel(t, p)
         \/ Cancels(t) \/ Disable(t) \/ Enable(t) \/ Gone(t)
  PROVE  IInv'
<1> USE SemsDiffer
<1>0. /\ sem \in [Sem -> SemRecord] /\ lock \in [Thread -> Nat] /\ alive \subseteq Thread
      /\ TypeInv /\ Child \subseteq Thread /\ Canceled \in ExitValue /\ Value \subseteq ExitValue
      /\ pc = [u \in Thread |-> pc[u]]
  BY JoinAssumption DEF IInv, TypeInv, ExitValue
<1>1. ~Blocked(t) /\ info' = info /\ alive' \subseteq Thread
  BY <1>0 DEF Exit, Cancel, Cancels, Disable, Enable, Gone, Asks, Does, Calls, Runs
<1>2. InfoGrows
  BY <1>1, InfoSame
<1>3. ASSUME NEW p \in Thread, NEW v \in ExitValue, Complete(t, p, v), lock' \in [Thread -> Nat]
      PROVE  IInv'
  <2>1. Step(t, Place("end", p, v)) /\ AwaitsFor(JoinSem, Place("end", p, v)) /\ Place("end", p, v).at = "end"
    BY Places DEF AwaitsFor
  <2> QED
    BY <1>1, <1>2, <1>3, <2>1, Takes DEF Complete
<1>4. ASSUME NEW k, Step(t, k), k.at \notin EndStep, Move(t, k), UNCHANGED <<sem, res>>, lock' \in [Thread -> Nat]
      PROVE  IInv'
  BY <1>0, <1>1, <1>2, <1>4, Moves
<1>5. Step(t, At("user")) /\ At("user").at \notin EndStep
  BY Places, SMT DEF EndStep
<1>6. ASSUME NEW v \in Value, Exit(t, v)
      PROVE  IInv'
  BY <1>0, <1>3, <1>6, LockType DEF Exit
<1>7. ASSUME NEW p \in Child, Cancel(t, p)
      PROVE  IInv'
  <2>1. lock' \in [Thread -> Nat] /\ UNCHANGED <<sem, res>> /\ pc[t] = At("user")
    BY <1>0, <1>7, LockType DEF Cancel, Asks, Calls
  <2>2. CASE Move(t, Place("cancel", p, Canceled))
    <3>1. "cancel" \in ChildStep /\ "cancel" \notin EndStep
      BY DEF ChildStep, EndStep
    <3>2. Step(t, Place("cancel", p, Canceled)) /\ Place("cancel", p, Canceled).at \notin EndStep
      BY <1>0, <3>1, Places, SMT
    <3> QED
      BY <1>4, <2>1, <2>2, <3>2
  <2>3. CASE pc' = pc
    <3>1. Move(t, At("user"))
      BY <1>0, <2>1, <2>3 DEF Move
    <3> QED
      BY <1>4, <1>5, <2>1, <3>1
  <2> QED
    BY <1>7, <2>2, <2>3 DEF Cancel
<1>8. CASE Cancels(t)
  <2>1. pc[t].at = "cancel" /\ Complete(t, pc[t].of, Canceled) /\ lock' \in [Thread -> Nat]
    BY <1>0, <1>8, LockType DEF Cancels, Does
  <2>2. pc[t].of \in Child
    BY <1>0, <2>1, AtPlace DEF ChildStep
  <2> QED
    BY <1>0, <1>3, <2>1, <2>2
<1>9. CASE Disable(t)
  <2>1. Move(t, At("user")) /\ lock' \in [Thread -> Nat] /\ UNCHANGED <<sem, res>>
    BY <1>0, <1>9, LockType DEF Disable, Asks, Calls, Move
  <2> QED
    BY <1>4, <1>5, <2>1
<1>10. CASE Enable(t)
  <2>1. lock' \in [Thread -> Nat]
    BY <1>0, <1>10, LockType DEF Enable
  <2>2. CASE Complete(t, t, Canceled)
    BY <1>0, <1>3, <2>1, <2>2
  <2>3. CASE UNCHANGED <<sem, res, pc>>
    <3>1. Move(t, At("user"))
      BY <1>0, <1>10, <2>3 DEF Enable, Asks, Calls, Move
    <3> QED
      BY <1>4, <1>5, <2>1, <2>3, <3>1
  <2> QED
    BY <1>10, <2>2, <2>3 DEF Enable
<1>11. CASE Gone(t)
  <2>1. pc[t].at = "ended" /\ UNCHANGED <<sem, res>>
    BY <1>11 DEF Gone, Does
  <2>2. CASE pc[t].of = t
    <3>0. lock' = [lock EXCEPT ![t] = 0] /\ pc' = pc
      BY <1>11, <2>2 DEF Gone
    <3>1. lock' \in [Thread -> Nat] /\ pc' = pc
      BY <1>0, <3>0
    <3>2. Move(t, pc[t]) /\ Step(t, pc[t]) /\ pc[t].at \notin EndStep
      BY <1>0, <2>1, <3>1 DEF Move, TypeInv, PlaceOf, EndStep
    <3> QED
      BY <1>4, <2>1, <3>1, <3>2
  <2>3. CASE pc[t].of # t
    <3>1. lock' \in [Thread -> Nat] /\ Move(t, At("user"))
      BY <1>0, <1>11, <2>3, LockType DEF Gone, Goto, Move
    <3> QED
      BY <1>4, <1>5, <2>1, <3>1
  <2> QED
    BY <2>2, <2>3
<1> QED
  BY <1>6, <1>7, <1>8, <1>9, <1>10, <1>11

\* pthread_completejoin().
LEMMA CompleteInv ==
  ASSUME IInv, NEW t \in Thread,
         \/ CompleteNotFound(t) \/ CompleteNoWaiters(t) \/ CompleteWaiters(t)
         \/ Notify(t) \/ NotifyAgain(t) \/ Notified(t)
  PROVE  IInv'
<1> USE SemsDiffer
<1> DEFINE p == pc[t].of
<1> DEFINE v == pc[t].val
<1>0. /\ sem \in [Sem -> SemRecord] /\ lock \in [Thread -> Nat] /\ info \in [Child -> InfoRecord] /\ TypeInv
  BY DEF IInv, TypeInv
<1>1. ~Blocked(t) /\ alive' \subseteq Thread /\ lock' \in [Thread -> Nat] /\ SameLock(t)
  <2>1. ~Blocked(t) /\ alive' = alive /\ SameLock(t)
    BY DEF CompleteNotFound, CompleteNoWaiters, CompleteWaiters, Notify, NotifyAgain, Notified, Does, Runs
  <2> QED
    BY <1>0, <2>1, LockType DEF TypeInv
<1>2. pc[t].at \in {"end", "notify", "again", "told"}
  BY DEF CompleteNotFound, CompleteNoWaiters, CompleteWaiters, Notify, NotifyAgain, Notified, Does
<1>3. /\ pc[t].at \in {"notify", "again", "told"} => p \in Child
      /\ p \in Thread /\ v \in ExitValue /\ \A l : [pc[t] EXCEPT !.at = l] = Place(l, p, v)
  BY <1>0, <1>2, AtPlace DEF ChildStep
<1>4. pc[t].at \in {"notify", "again", "told"} => info[p].terminated
  BY <1>2 DEF IInv, EndInv, KnowsEnd, Where
<1> HIDE DEF p, v
<1>5. /\ Step(t, Place("ended", p, v)) /\ Place("ended", p, v).at \notin EndStep
      /\ \A l \in {"notify", "again", "told"} :
           p \in Child => Step(t, Place(l, p, v)) /\ Place(l, p, v).at = l /\ Place(l, p, v).of = p
  <2>1. {"notify", "again", "told"} \subseteq ChildStep /\ "ended" \notin EndStep
    BY DEF ChildStep, EndStep
  <2> QED
    BY <1>3, <2>1, Places, SMT
<1>6. CASE CompleteNotFound(t) \/ Notified(t)
  <2>1. Give(JoinSem) /\ Move(t, Place("ended", p, v)) /\ info' = info
    BY <1>3, <1>6 DEF CompleteNotFound, Notified
  <2> QED
    BY <1>1, <1>5, <2>1, Gives, InfoSame
<1>7. ASSUME NEW x, x \in InfoRecord, p \in Child, info' = [info EXCEPT ![p] = x], x.terminated, x.val = v
      PROVE  InfoGrows /\ info'[p].terminated
  BY <1>0, <1>3, <1>7 DEF InfoGrows, IInv, EndInv
<1>8. p \in Child => Ended(p, v) \in InfoRecord /\ Ended(p, v).terminated /\ Ended(p, v).val = v
  BY <1>0, <1>3 DEF Ended, InfoRecord
<1>9. CASE CompleteNoWaiters(t)
  <2> DEFINE x == IF info[p].detached THEN [Ended(p, v) EXCEPT !.mem = "freed", !.listed = FALSE]
                                       ELSE Ended(p, v)
  <2>1. p \in Child /\ info' = [info EXCEPT ![p] = x] /\ Give(JoinSem) /\ Move(t, Place("ended", p, v))
    BY <1>3, <1>9 DEF CompleteNoWaiters, Found, p, v
  <2>2. x \in InfoRecord /\ x.terminated /\ x.val = v
    BY <1>8, <2>1 DEF InfoRecord
  <2> HIDE DEF x
  <2>3. InfoGrows
    BY <1>7, <2>1, <2>2
  <2> QED
    BY <1>1, <1>5, <2>1, <2>3, Gives
<1>10. CASE CompleteWaiters(t)
  <2> DEFINE d == DataSem(p)
  <2>1. p \in Child /\ info' = [info EXCEPT ![p] = Ended(p, v)] /\ Move(t, Place("notify", p, v)) /\ res' = res
    BY <1>3, <1>10 DEF CompleteWaiters, Found, p, v
  <2>2. PICK n : sem' = [sem EXCEPT ![d] = [sem[d] EXCEPT !.cnt = n]] /\ (n = 0 \/ n = sem[d].cnt)
    BY <1>10 DEF CompleteWaiters, p
  <2>3. d \in Sem /\ \A q \in Child : ExitSem(q) # d
    BY <2>1
  <2> HIDE DEF d
  <2>4. [sem[d] EXCEPT !.cnt = n] \in SemRecord /\ [sem[d] EXCEPT !.cnt = n].q = sem[d].q
    BY <1>0, <2>2, <2>3, SMTT(30) DEF SemRecord
  <2>5. /\ sem' \in [Sem -> SemRecord] /\ \A s \in Sem : sem'[s].q = sem[s].q
        /\ \A q \in Child : sem'[ExitSem(q)] = sem[ExitSem(q)]
    BY <1>0, <2>2, <2>3, <2>4
  <2>6. InfoGrows /\ info'[p].terminated
    BY <1>7, <1>8, <2>1
  <2> QED
    BY <1>1, <1>5, <2>1, <2>5, <2>6, Moves
<1>11. CASE Notify(t)
  <2>1. Give(ExitSem(p)) /\ Move(t, Place("again", p, v)) /\ info' = info /\ pc[t].at = "notify"
    BY <1>3, <1>11 DEF Notify, Does, p
  <2> QED
    BY <1>1, <1>3, <1>4, <1>5, <2>1, Gives, InfoSame
<1>12. CASE NotifyAgain(t)
  <2>1. pc[t].at = "again" /\ info' = info
    BY <1>12 DEF NotifyAgain, Does
  <2>2. CASE Give(ExitSem(p)) /\ pc' = pc
    <3>1. Move(t, pc[t]) /\ Step(t, pc[t]) /\ pc[t].of = p
      BY <1>0, <2>1, <2>2 DEF Move, TypeInv, PlaceOf, p
    <3> QED
      BY <1>1, <1>3, <1>4, <2>1, <2>2, <3>1, Gives, InfoSame
  <2>3. CASE Take(t, DataSem(p), Place("told", p, v))
    BY <1>1, <1>3, <1>4, <1>5, <2>1, <2>3, Takes, InfoSame DEF AwaitsFor
  <2> QED
    BY <1>3, <1>12, <2>2, <2>3 DEF NotifyAgain, p
<1> QED
  BY <1>6, <1>9, <1>10, <1>11, <1>12

\* pthread_join() and pthread_detach().
LEMMA JoinInv ==
  ASSUME IInv, NEW t \in Thread,
         \/ \E p \in Child : Join(t, p) \/ Detach(t, p)
         \/ JoinNotFound(t) \/ JoinTerminated(t) \/ JoinRunning(t) \/ JoinSleeps(t)
         \/ JoinWoken(t) \/ JoinRetakes(t) \/ JoinUnlocks(t) \/ JoinDrops(t) \/ Detaches(t)
  PROVE  IInv'
<1> USE SemsDiffer
<1>0. /\ sem \in [Sem -> SemRecord] /\ lock \in [Thread -> Nat] /\ info \in [Child -> InfoRecord]
      /\ TypeInv /\ Canceled \in ExitValue
  BY DEF IInv, TypeInv, ExitValue
<1>1. ~Blocked(t) /\ alive' \subseteq Thread /\ lock' \in [Thread -> Nat]
  <2>1. ~Blocked(t) /\ alive' = alive /\ (SameLock(t) \/ sched_lock(t) \/ sched_unlock(t))
    BY DEF Join, Detach, JoinNotFound, JoinTerminated, JoinRunning, JoinSleeps, JoinWoken, JoinRetakes,
           JoinUnlocks, JoinDrops, Detaches, Does, Asks, Calls, Runs
  <2> QED
    BY <1>0, <2>1, LockType DEF TypeInv
<1>2. ASSUME NEW p \in Child, Join(t, p) \/ Detach(t, p)
      PROVE  IInv'
  <2>1. PICK l \in {"join", "detach"} : Take(t, JoinSem, Place(l, p, Canceled)) /\ info' = info
    BY <1>2 DEF Join, Detach
  <2>2. l \in ChildStep
    BY DEF ChildStep
  <2>3. /\ Step(t, Place(l, p, Canceled)) /\ AwaitsFor(JoinSem, Place(l, p, Canceled))
        /\ Place(l, p, Canceled).at \notin {"unlock", "told"}
    BY <1>0, <2>2, Places, SMT DEF AwaitsFor
  <2> QED
    BY <1>1, <2>1, <2>3, Takes, InfoSame
<1>3. SUFFICES ASSUME \/ JoinNotFound(t) \/ JoinTerminated(t) \/ JoinRunning(t) \/ JoinSleeps(t)
                      \/ JoinWoken(t) \/ JoinRetakes(t) \/ JoinUnlocks(t) \/ JoinDrops(t) \/ Detaches(t)
               PROVE  IInv'
  BY <1>2
<1> DEFINE p == pc[t].of
<1> DEFINE v == pc[t].val
<1>4. pc[t].at \in {"join", "detach"} \cup JoinerStep
  BY <1>3 DEF JoinNotFound, JoinTerminated, JoinRunning, JoinSleeps, JoinWoken, JoinRetakes,
           JoinUnlocks, JoinDrops, Detaches, Does, JoinerStep
<1>5. p \in Child /\ v \in ExitValue /\ \A l : [pc[t] EXCEPT !.at = l] = Place(l, p, v)
  BY <1>0, <1>4, AtPlace DEF ChildStep
<1>6. pc[t].at \in {"woken", "retake", "unlock", "drop"} => info[p].terminated
  BY DEF IInv, EndInv, KnowsEnd, Where
<1> HIDE DEF p, v
<1>7. /\ \A l \in JoinerStep : Step(t, Place(l, p, v)) /\ Place(l, p, v).at = l /\ Place(l, p, v).of = p
      /\ Step(t, At("user")) /\ At("user").at \notin EndStep /\ "sleep" \notin EndStep
  <2>1. JoinerStep \subseteq ChildStep /\ "user" \notin EndStep /\ "sleep" \notin EndStep
    BY DEF ChildStep, EndStep
  <2> QED
    BY <1>5, <2>1, Places, SMT
<1>8. ASSUME NEW x, x \in InfoRecord, info' = [info EXCEPT ![p] = x],
             x.terminated = info[p].terminated, x.val = info[p].val
      PROVE  InfoGrows
  BY <1>0, <1>5, <1>8 DEF InfoGrows, IInv, EndInv
<1>9. info[p] \in InfoRecord
  BY <1>0, <1>5
<1>10. CASE JoinNotFound(t)
  <2>1. Give(JoinSem) /\ Move(t, At("user")) /\ info' = info
    BY <1>10 DEF JoinNotFound, Goto, Move
  <2> QED
    BY <1>1, <1>7, <2>1, Gives, InfoSame
<1>11. CASE JoinTerminated(t) \/ JoinRunning(t)
  <2> DEFINE x == [info[p] EXCEPT !.crefs = info[p].crefs + 1]
  <2>1. info' = [info EXCEPT ![p] = x]
    BY <1>11 DEF JoinTerminated, JoinRunning, p
  <2>2. x \in InfoRecord /\ x.terminated = info[p].terminated /\ x.val = info[p].val
    BY <1>9, SMT DEF InfoRecord
  <2> HIDE DEF x
  <2>3. InfoGrows /\ info'[p].terminated = info[p].terminated
    BY <1>0, <1>5, <1>8, <2>1, <2>2
  <2>4. CASE JoinTerminated(t)
    <3>1. Move(t, Place("drop", p, v)) /\ sem' = sem /\ res' = res /\ info[p].terminated
      BY <1>5, <2>4 DEF JoinTerminated, p
    <3>2. "drop" \in JoinerStep
      BY DEF JoinerStep
    <3> QED
      BY <1>0, <1>1, <1>7, <2>3, <3>1, <3>2, Moves
  <2>5. CASE JoinRunning(t)
    <3>1. Move(t, Place("sleep", p, v)) /\ Give(JoinSem)
      BY <1>5, <2>5 DEF JoinRunning, p
    <3>2. "sleep" \in JoinerStep
      BY DEF JoinerStep
    <3> QED
      BY <1>1, <1>7, <2>3, <3>1, <3>2, Gives, SMT
  <2> QED
    BY <1>11, <2>4, <2>5
<1>12. CASE JoinSleeps(t)
  <2>1. Take(t, ExitSem(p), Place("woken", p, v)) /\ info' = info
    BY <1>5, <1>12 DEF JoinSleeps, p
  <2>2. "woken" \in JoinerStep
    BY DEF JoinerStep
  <2>3. AwaitsFor(ExitSem(p), Place("woken", p, v))
    BY <1>7, <2>2 DEF AwaitsFor
  <2> QED
    BY <1>1, <1>5, <1>7, <2>1, <2>2, <2>3, Takes, InfoSame
<1>13. CASE JoinWoken(t)
  <2>1. Give(DataSem(p)) /\ Move(t, Place("retake", p, v)) /\ info' = info /\ pc[t].at = "woken"
    BY <1>5, <1>13 DEF JoinWoken, Does, p
  <2>2. "retake" \in JoinerStep
    BY DEF JoinerStep
  <2> QED
    BY <1>1, <1>5, <1>6, <1>7, <2>1, <2>2, Gives, InfoSame, SMT
<1>14. CASE JoinRetakes(t)
  <2>1. Take(t, JoinSem, Place("unlock", p, v)) /\ info' = info /\ pc[t].at = "retake"
    BY <1>5, <1>14 DEF JoinRetakes, Does
  <2>2. "unlock" \in JoinerStep
    BY DEF JoinerStep
  <2>3. AwaitsFor(JoinSem, Place("unlock", p, v))
    BY <1>7, <2>2 DEF AwaitsFor
  <2> QED
    BY <1>1, <1>6, <1>7, <2>1, <2>2, <2>3, Takes, InfoSame
<1>15. CASE JoinUnlocks(t)
  <2>1. Move(t, Place("drop", p, v)) /\ UNCHANGED <<sem, res, info>> /\ pc[t].at = "unlock"
    BY <1>5, <1>15 DEF JoinUnlocks, Does
  <2>2. "drop" \in JoinerStep
    BY DEF JoinerStep
  <2> QED
    BY <1>0, <1>1, <1>6, <1>7, <2>1, <2>2, Moves, InfoSame
<1>16. CASE JoinDrops(t) \/ Detaches(t)
  <2>1. Give(JoinSem) /\ Move(t, At("user"))
    BY <1>16 DEF JoinDrops, Detaches, Goto, Move
  <2>2. InfoGrows
    <3>1. CASE info' = info
      BY <3>1, InfoSame
    <3>2. CASE info' # info
      <4>1. \/ info' = [info EXCEPT ![p] = [info[p] EXCEPT !.crefs = 0, !.mem = "freed", !.listed = FALSE]]
            \/ info' = [info EXCEPT ![p] = [info[p] EXCEPT !.crefs = info[p].crefs - 1]]
            \/ info' = [info EXCEPT ![p] = [info[p] EXCEPT !.mem = "freed", !.listed = FALSE]]
            \/ info' = [info EXCEPT ![p] = [info[p] EXCEPT !.detached = TRUE]]
        <5>1. CASE JoinDrops(t) /\ info[p].crefs = 1
          <6>1. info' = [info EXCEPT ![p].crefs = 0, ![p].mem = "freed", ![p].listed = FALSE]
            BY <5>1 DEF JoinDrops, p
          <6> QED
            BY <1>0, <1>5, <6>1
        <5>2. CASE JoinDrops(t) /\ info[p].crefs # 1
          BY <5>2 DEF JoinDrops, p
        <5>3. CASE Detaches(t) /\ ~Found(p)
          BY <3>2, <5>3 DEF Detaches, p
        <5>4. CASE Detaches(t) /\ Found(p) /\ info[p].terminated
          <6>1. info' = [info EXCEPT ![p].mem = "freed", ![p].listed = FALSE]
            BY <5>4 DEF Detaches, Destroy, p
          <6> QED
            BY <1>0, <1>5, <6>1
        <5>5. CASE Detaches(t) /\ Found(p) /\ ~info[p].terminated
          BY <5>5 DEF Detaches, p
        <5> QED
          BY <1>16, <5>1, <5>2, <5>3, <5>4, <5>5
      <4>2. PICK x : /\ info' = [info EXCEPT ![p] = x]
                     /\ x \in { [info[p] EXCEPT !.crefs = 0, !.mem = "freed", !.listed = FALSE],
                                [info[p] EXCEPT !.crefs = info[p].crefs - 1],
                                [info[p] EXCEPT !.mem = "freed", !.listed = FALSE],
                                [info[p] EXCEPT !.detached = TRUE] }
        BY <4>1
      <4>3. x \in InfoRecord /\ x.terminated = info[p].terminated /\ x.val = info[p].val
        <5>1. CASE x = [info[p] EXCEPT !.crefs = 0, !.mem = "freed", !.listed = FALSE]
          <6>1. PICK y : y = [info[p] EXCEPT !.crefs = 0]
            OBVIOUS
          <6>2. y \in InfoRecord /\ y.terminated = info[p].terminated /\ y.val = info[p].val
            BY <1>9, <6>1, SMT DEF InfoRecord
          <6>3. x = [y EXCEPT !.mem = "freed", !.listed = FALSE]
            BY <5>1, <6>1, SMT
          <6> QED
            BY <6>2, <6>3 DEF InfoRecord
        <5>2. CASE x = [info[p] EXCEPT !.crefs = info[p].crefs - 1]
          BY <1>9, <5>2, SMT DEF InfoRecord
        <5>3. CASE x = [info[p] EXCEPT !.mem = "freed", !.listed = FALSE]
          BY <1>9, <5>3 DEF InfoRecord
        <5>4. CASE x = [info[p] EXCEPT !.detached = TRUE]
          BY <1>9, <5>4 DEF InfoRecord
        <5> QED
          BY <4>2, <5>1, <5>2, <5>3, <5>4
      <4> QED
        BY <1>8, <4>2, <4>3
    <3> QED
      BY <3>1, <3>2
  <2> QED
    BY <1>1, <1>7, <2>1, <2>2, Gives
<1> QED
  BY <1>3, <1>10, <1>11, <1>12, <1>13, <1>14, <1>15, <1>16

\* A wait that is over, or starts again.
LEMMA RetryInv ==
  ASSUME IInv, NEW t \in Thread, Retry(t), UNCHANGED <<alive, info>>
  PROVE  IInv'
<1> DEFINE k == pc[t].then
<1> DEFINE s == pc[t].sem
<1>0. /\ sem \in [Sem -> SemRecord] /\ lock \in [Thread -> Nat] /\ TypeInv /\ alive' \subseteq Thread
      /\ SameLock(t) /\ ~Blocked(t) /\ pc[t].at = "take"
  BY DEF IInv, TypeInv, Retry, Runs
<1>1. s \in Sem /\ Step(t, k) /\ AwaitsFor(s, k)
  BY <1>0, TakePlace
<1>2. lock' \in [Thread -> Nat] /\ InfoGrows
  BY <1>0, LockType, InfoSame
<1>3. t \notin sem[s].q
  BY <1>0, <1>1 DEF Blocked
<1>4. /\ k.at \in {"unlock", "told"} => info[k.of].terminated
      /\ k.at = "woken" /\ res[t] = "OK" => info[k.of].terminated
  BY <1>0, <1>3 DEF KnowsEnd, Where, IInv, EndInv
<1>5. CASE res[t] = "OK" /\ pc' = [pc EXCEPT ![t] = k] /\ UNCHANGED <<sem, res>>
  <2>1. Move(t, k)
    BY <1>5 DEF Move
  <2>2. k.at \in EndStep => k.at \in {"unlock", "told", "woken"}
    BY <1>1 DEF AwaitsFor, EndStep
  <2> HIDE DEF k, s
  <2> QED
    BY <1>0, <1>1, <1>2, <1>4, <1>5, <2>1, <2>2, Moves
<1>6. CASE Take(t, s, k)
  <2> HIDE DEF k, s
  <2> QED
    BY <1>0, <1>1, <1>2, <1>4, <1>6, Takes
<1> QED
  BY <1>5, <1>6 DEF Retry

\* Every step keeps the invariant.
LEMMA StepInv == IInv /\ [Next]_vars => IInv'
<1> SUFFICES ASSUME IInv, [Next]_vars PROVE IInv'
  OBVIOUS
<1>1. CASE UNCHANGED vars
  BY <1>1 DEF vars, threadvars, IInv, TypeInv, QueueInv, EndInv, KnowsEnd, Where
<1>2. ASSUME NEW t \in Thread, WaitEnds(t)
      PROVE  IInv'
  BY <1>2, RetryInv DEF WaitEnds
<1>3. ASSUME NEW t \in Thread, Signal(t)
      PROVE  IInv'
  BY <1>3, Interrupts DEF Signal
<1> QED
  BY <1>1, <1>2, <1>3, CreateInv, ExitInv, CompleteInv, JoinInv DEF Next

\* At first no pthread has been created.
LEMMA InitInv == Init => IInv
<1> SUFFICES ASSUME Init PROVE IInv
  OBVIOUS
<1>1. TypeInv
  <2>1. \A t \in Thread : PlaceOf(t, pc[t])
    BY Places DEF Init, PlaceOf
  <2>2. NoInfo \in InfoRecord
    BY SMT DEF NoInfo, InfoRecord
  <2>3. sem \in [Sem -> SemRecord]
    BY DEF Init, SemInit, SemRecord
  <2> QED
    BY <2>1, <2>2, <2>3 DEF Init, TypeInv
<1>2. QueueInv
  BY DEF Init, SemInit, QueueInv
<1>3. EndInv
  <2>1. \A t \in Thread : pc[t].at \in {"start", "user"}
    BY Places DEF Init
  <2>2. \A p \in Child : sem[ExitSem(p)].cnt = 0 /\ ~info[p].terminated
    BY SemsDiffer DEF Init, SemInit, NoInfo
  <2> QED
    BY <2>1, <2>2, SMT DEF EndInv, KnowsEnd
<1> QED
  BY <1>1, <1>2, <1>3 DEF IInv

\* The invariant holds in every reachable state.
THEOREM Invariance == Spec => []IInv
BY InitInv, StepInv, PTL DEF Spec

\* A pthread_join() that is past exit_sem, or has found the thread
\* terminated, finds an exit value, with any number of joiners.
THEOREM JoinersGetValue == Spec => []JoinGetsValue
<1>1. IInv => JoinGetsValue
  <2> SUFFICES ASSUME IInv, NEW t \in Thread, pc[t].at \in {"woken", "retake", "unlock", "drop"}
               PROVE  info[pc[t].of].terminated /\ info[pc[t].of].val \in Value \cup {Canceled}
    BY DEF JoinGetsValue
  <2>1. KnowsEnd(t) /\ Where(t) = pc[t]
    BY DEF KnowsEnd, Where
  <2>2. pc[t].of \in Child
    BY <2>1, KnownChild DEF IInv
  <2> QED
    BY <2>1, <2>2 DEF IInv, EndInv, ExitValue
<1> QED
  BY <1>1, Invariance, PTL

-----------------------------------------------------------------------------
(* The references to the join_t's.                                         *)

IsJoiner(k, p) == k.at \in JoinerStep /\ k.of = p
FreshPlace == {"start", "add"}

\* t goes on at the step k, possibly after a wait.
Goes(t, k) == Where(t)' = k /\ \A u \in Thread : u # t => Where(u)' = Where(u)

\* A step without a wait, and one that may have to wait.
LEMMA GoesOn ==
  ASSUME TypeInv, NEW t \in Thread, NEW k, k.at # "take",
         Move(t, k) \/ \E s : Take(t, s, k)
  PROVE  Goes(t, k)
<1>0. pc = [u \in Thread |-> pc[u]]
  BY DEF TypeInv
<1>1. CASE Move(t, k)
  BY <1>0, <1>1 DEF Move, Goes, Where
<1>2. ASSUME NEW s, Take(t, s, k)
      PROVE  Goes(t, k)
  <2>1. CASE sem[s].cnt > 0
    <3>1. pc' = [pc EXCEPT ![t] = k]
      BY <1>2, <2>1 DEF Take
    <3> QED
      BY <1>0, <3>1 DEF Goes, Where
  <2>2. CASE ~(sem[s].cnt > 0)
    <3>1. pc' = [pc EXCEPT ![t] = WaitAt(s, k)]
      BY <1>2, <2>2 DEF Take, WaitAt
    <3>2. WaitAt(s, k).at = "take" /\ WaitAt(s, k).then = k
      BY DEF WaitAt
    <3>3. pc'[t] = WaitAt(s, k) /\ \A u \in Thread : u # t => pc'[u] = pc[u]
      BY <1>0, <3>1
    <3> QED
      BY <3>2, <3>3 DEF Goes, Where
  <2> QED
    BY <2>1, <2>2
<1> QED
  BY <1>1, <1>2

\* The joiners after a step of t.
LEMMA JoinersMove ==
  ASSUME NEW t \in Thread, NEW k, Goes(t, k), NEW p
  PROVE  /\ IsJoiner(k, p) => Joiners(p)' = Joiners(p) \cup {t}
         /\ ~IsJoiner(k, p) => Joiners(p)' = Joiners(p) \ {t}
         /\ t \in Joiners(p) <=> IsJoiner(Where(t), p)
<1>1. \A u \in Thread : u \in Joiners(p) <=> IsJoiner(Where(u), p)
  BY DEF Joiners, IsJoiner, JoinerStep
<1>2. \A u \in Thread : u \in Joiners(p)' <=> IsJoiner(Where(u)', p)
  BY DEF Joiners, IsJoiner, JoinerStep
<1>3. Joiners(p) \subseteq Thread /\ Joiners(p)' \subseteq Thread
  BY DEF Joiners
<1>4. \A u \in Thread : u # t => Where(u)' = Where(u)
  BY DEF Goes
<1>5. Where(t)' = k
  BY DEF Goes
<1> QED
  BY <1>1, <1>2, <1>3, <1>4, <1>5

\* A step of t that has nothing to do with the join_t of p.
LEMMA RefKept ==
  ASSUME NEW p \in Child, RefOf(p), NEW t \in Thread, NEW k, Goes(t, k), Child \subseteq Thread,
         IsJoiner(k, p) <=> IsJoiner(Where(t), p),
         t = p => (k.at \in FreshPlace <=> Where(t).at \in FreshPlace),
         info'[p].mem = info[p].mem, info'[p].listed = info[p].listed,
         info'[p].crefs = info[p].crefs, info'[p].terminated = info[p].terminated,
         info'[p].detached = info[p].detached,
         Fresh(p) => (p \in alive' <=> p \in alive)
  PROVE  RefOf(p)'
<1>1. Joiners(p)' = Joiners(p)
  BY JoinersMove, SMT
<1>2. Fresh(p)' <=> Fresh(p)
  BY DEF Fresh, FreshPlace, Goes
<1> QED
  BY <1>1, <1>2 DEF RefOf

\* A step of t between places that have nothing to do with any join_t.
LEMMA RefPlain ==
  ASSUME RefInv, ~broken, NEW t \in Thread, NEW k, Goes(t, k),
         \A p \in Child : IsJoiner(k, p) <=> IsJoiner(Where(t), p),
         k.at \in FreshPlace <=> Where(t).at \in FreshPlace,
         info' = info, \A p \in Child : Fresh(p) => (p \in alive' <=> p \in alive)
  PROVE  RefInv'
<1> SUFFICES ASSUME NEW p \in Child PROVE RefOf(p)'
  BY DEF RefInv
<1>1. RefOf(p) /\ Child \subseteq Thread
  BY JoinAssumption DEF RefInv
<1> QED
  BY <1>1, RefKept

\* pthread_create() and pthread_start().
LEMMA CreateRef ==
  ASSUME IInv, RefInv, NEW t \in Thread,
         \/ \E p \in Child : Create(t, p)
         \/ Created(t) \/ CreateReturns(t) \/ Start(t) \/ StartAdds(t) \/ Started(t)
  PROVE  RefInv'
<1>0. TypeInv /\ info \in [Child -> InfoRecord] /\ Child \subseteq Thread
  BY JoinAssumption DEF IInv, TypeInv
<1>1. ~broken /\ t \in alive
  BY DEF Create, Created, CreateReturns, Start, StartAdds, Started, Asks, Does
<1>2. \A p \in Child : RefOf(p)
  BY <1>1 DEF RefInv
<1>3. ASSUME NEW p \in Child, Create(t, p)
      PROVE  RefInv'
  <2> DEFINE k == Place("created", p, Canceled)
  <2>1. Goes(t, k) /\ k.at = "created" /\ Where(t).at = "user"
    <3>1. k.at = "created" /\ k.at # "take"
      BY Places, SMT
    <3>2. Take(t, DataSem(p), k) /\ pc[t] = At("user")
      BY <1>3 DEF Create, Asks, Calls
    <3>3. Goes(t, k)
      <4> HIDE DEF k
      <4> QED BY <1>0, <3>1, <3>2, GoesOn
    <3> QED
      BY <3>1, <3>2, <3>3, Places DEF Where
  <2> HIDE DEF k
  <2>2. \A q : ~IsJoiner(k, q) /\ ~IsJoiner(Where(t), q)
    BY <2>1 DEF IsJoiner, JoinerStep
  <2>3. k.at \notin FreshPlace /\ Where(t).at \notin FreshPlace
    BY <2>1 DEF FreshPlace
  <2>4. info' = [info EXCEPT ![p] = [info[p] EXCEPT !.mem = "alloc"]] /\ alive' = alive \cup {p} /\ info[p].mem = "none"
    BY <1>3 DEF Create
  <2>5. RefOf(p)'
    <3>1. /\ Fresh(p) /\ p # t /\ Joiners(p) = {} /\ info[p].crefs = 0 /\ ~info[p].terminated
          /\ ~info[p].listed
      BY <1>1, <1>2, <2>3, <2>4 DEF RefOf, Fresh, FreshPlace
    <3>2. Fresh(p)'
      BY <1>0, <2>1, <3>1 DEF Fresh, Goes
    <3>3. Joiners(p)' = {}
      BY <2>1, <2>2, <3>1, JoinersMove
    <3>4. info[p] \in InfoRecord
      BY <1>0
    <3>5. /\ info'[p].mem = "alloc" /\ info'[p].crefs = 0 /\ ~info'[p].terminated
          /\ ~info'[p].listed
      BY <1>0, <2>4, <3>1, <3>4 DEF InfoRecord
    <3> QED
      BY <2>4, <3>2, <3>3, <3>5, FS_EmptySet DEF RefOf
  <2>6. ASSUME NEW q \in Child, q # p
        PROVE  RefOf(q)'
    <3>1. info'[q] = info[q] /\ (q \in alive' <=> q \in alive)
      BY <1>0, <2>4, <2>6
    <3> QED
      BY <1>0, <1>2, <2>1, <2>2, <2>3, <3>1, RefKept
  <2> QED
    BY <2>5, <2>6 DEF RefInv
<1>4. CASE Created(t) \/ CreateReturns(t)
  <2>1. PICK k : Move(t, k) /\ k.at \in {"close", "user"}
    <3>1. CASE Created(t)
      <4>1. Move(t, Place("close", pc[t].of, Canceled))
        BY <3>1 DEF Created
      <4> QED
        BY <4>1, Places, SMT
    <3>2. CASE CreateReturns(t)
      <4>1. Move(t, At("user"))
        BY <3>2 DEF CreateReturns, Goto, Move
      <4> QED
        BY <4>1, Places
    <3> QED
      BY <1>4, <3>1, <3>2
  <2>2. pc[t].at \in {"created", "close"} /\ UNCHANGED <<alive, info>>
    BY <1>4 DEF Created, CreateReturns, Does
  <2>3. Goes(t, k) /\ Where(t) = pc[t]
    BY <1>0, <2>1, <2>2, GoesOn DEF Where
  <2>4. /\ \A q : ~IsJoiner(k, q) /\ ~IsJoiner(Where(t), q)
        /\ k.at \notin FreshPlace /\ Where(t).at \notin FreshPlace
    BY <2>1, <2>2, <2>3 DEF IsJoiner, JoinerStep, FreshPlace
  <2> QED
    BY <1>1, <2>2, <2>3, <2>4, RefPlain
<1>5. CASE Start(t)
  <2>1. Take(t, JoinSem, At("add")) /\ pc[t].at = "start" /\ UNCHANGED <<alive, info>> /\ At("add").at = "add"
    BY <1>5, Places DEF Start, Does
  <2>2. Goes(t, At("add")) /\ Where(t) = pc[t]
    BY <1>0, <2>1, GoesOn DEF Where
  <2>3. /\ \A q : ~IsJoiner(At("add"), q) /\ ~IsJoiner(Where(t), q)
        /\ At("add").at \in FreshPlace /\ Where(t).at \in FreshPlace
    BY <2>1, <2>2 DEF IsJoiner, JoinerStep, FreshPlace
  <2> QED
    BY <1>1, <2>1, <2>2, <2>3, RefPlain
<1>6. CASE StartAdds(t)
  <2>1. /\ Move(t, At("started")) /\ pc[t].at = "add" /\ alive' = alive
        /\ info' = [info EXCEPT ![t] = [info[t] EXCEPT !.listed = TRUE]]
    BY <1>6 DEF StartAdds, Does, Goto, Move
  <2>2. t \in Child /\ At("started").at = "started"
    BY <1>0, <2>1, StartPlace, Places
  <2>3. Goes(t, At("started")) /\ Where(t) = pc[t]
    BY <1>0, <2>1, <2>2, GoesOn DEF Where
  <2>4. \A q : ~IsJoiner(At("started"), q) /\ ~IsJoiner(Where(t), q)
    BY <2>1, <2>2, <2>3 DEF IsJoiner, JoinerStep
  <2>5. RefOf(t)'
    <3>1. Joiners(t) = {} /\ info[t].crefs = 0 /\ ~info[t].terminated /\ info[t].mem = "alloc"
      BY <1>1, <1>2, <2>1, <2>2, <2>3 DEF RefOf, Fresh
    <3>2. ~Fresh(t)'
      BY <2>2, <2>3 DEF Fresh, Goes
    <3>3. Joiners(t)' = {}
      BY <2>3, <2>4, <3>1, JoinersMove
    <3>4. info[t] \in InfoRecord
      BY <1>0, <2>2
    <3>5. info'[t].mem = "alloc" /\ info'[t].crefs = 0 /\ ~info'[t].terminated
      BY <1>0, <2>1, <2>2, <3>1, <3>4 DEF InfoRecord
    <3> QED
      BY <3>2, <3>3, <3>5, FS_EmptySet DEF RefOf
  <2>6. ASSUME NEW q \in Child, q # t
        PROVE  RefOf(q)'
    <3>1. info'[q] = info[q]
      BY <1>0, <2>1, <2>6
    <3> QED
      BY <1>0, <1>2, <2>1, <2>3, <2>4, <2>6, <3>1, RefKept
  <2> QED
    BY <2>2, <2>5, <2>6 DEF RefInv
<1>7. CASE Started(t)
  <2>1. /\ Move(t, At("user")) /\ pc[t].at = "started" /\ alive' = alive
        /\ info' = [info EXCEPT ![t] = [info[t] EXCEPT !.started = TRUE]]
    BY <1>7 DEF Started, Does, Goto, Move
  <2>2. t \in Child /\ At("user").at = "user"
    BY <1>0, <2>1, StartPlace, Places
  <2>3. Goes(t, At("user")) /\ Where(t) = pc[t]
    BY <1>0, <2>1, <2>2, GoesOn DEF Where
  <2>4. /\ \A q : ~IsJoiner(At("user"), q) /\ ~IsJoiner(Where(t), q)
        /\ At("user").at \notin FreshPlace /\ Where(t).at \notin FreshPlace
    BY <2>1, <2>2, <2>3 DEF IsJoiner, JoinerStep, FreshPlace
  <2>5. ASSUME NEW q \in Child
        PROVE  RefOf(q)'
    <3>1. info[q] \in InfoRecord
      BY <1>0
    <3>2. /\ info'[q].mem = info[q].mem /\ info'[q].listed = info[q].listed
          /\ info'[q].crefs = info[q].crefs /\ info'[q].terminated = info[q].terminated
          /\ info'[q].detached = info[q].detached
      BY <1>0, <2>1, <3>1 DEF InfoRecord
    <3> QED
      BY <1>0, <1>2, <2>1, <2>3, <2>4, <3>2, RefKept
  <2> QED
    BY <2>5 DEF RefInv
<1> QED
  BY <1>3, <1>4, <1>5, <1>6, <1>7

\* A step of t to k, without a change of the join_t's, from and to places of
\* nobody who has a reference.
LEMMA RefElsewhere ==
  ASSUME TypeInv, RefInv, ~broken, NEW t \in Thread, pc[t].at \notin JoinerStep \cup FreshPlace \cup {"take"},
         NEW k, k.at \notin JoinerStep \cup FreshPlace \cup {"take"},
         Move(t, k) \/ \E s : Take(t, s, k),
         info' = info, \A p \in Child : Fresh(p) => (p \in alive' <=> p \in alive)
  PROVE  RefInv'
<1>1. Goes(t, k) /\ Where(t) = pc[t]
  BY GoesOn DEF Where
<1>2. \A p : ~IsJoiner(k, p) /\ ~IsJoiner(pc[t], p)
  BY DEF IsJoiner
<1> QED
  BY <1>1, <1>2, RefPlain

\* pthread_exit(), pthread_cancel() and pthread_setcancelstate().
LEMMA ExitRef ==
  ASSUME IInv, RefInv, NEW t \in Thread,
         \/ \E v \in Value : Exit(t, v)
         \/ \E p \in Child : Cancel(t, p)
         \/ Cancels(t) \/ Disable(t) \/ Enable(t) \/ Gone(t)
  PROVE  RefInv'
<1>0. TypeInv /\ pc = [u \in Thread |-> pc[u]] /\ Child \subseteq Thread
  BY JoinAssumption DEF IInv, TypeInv
<1>1. ~broken /\ t \in alive /\ info' = info
  BY DEF Exit, Cancel, Cancels, Disable, Enable, Gone, Asks, Does
<1>2. ASSUME NEW k, k.at \in {"user", "end", "cancel"}, Move(t, k) \/ (\E s : Take(t, s, k)),
             pc[t].at \in {"user", "cancel"}, alive' = alive
      PROVE  RefInv'
  BY <1>0, <1>1, <1>2, RefElsewhere DEF JoinerStep, FreshPlace
<1>3. At("user").at = "user" /\ \A l, p, v : Place(l, p, v).at = l
  BY Places
<1>4. ASSUME NEW p, NEW v, Complete(t, p, v), pc[t].at \in {"user", "cancel"}, alive' = alive
      PROVE  RefInv'
  BY <1>2, <1>3, <1>4, SMT DEF Complete
<1>5. CASE pc' = pc /\ pc[t] = At("user") /\ alive' = alive
  <2>1. Move(t, At("user"))
    BY <1>0, <1>5 DEF Move
  <2> QED
    BY <1>2, <1>3, <1>5, <2>1, SMT
<1>6. ASSUME NEW v \in Value, Exit(t, v)
      PROVE  RefInv'
  BY <1>3, <1>4, <1>6 DEF Exit, Asks, Calls
<1>7. ASSUME NEW p \in Child, Cancel(t, p)
      PROVE  RefInv'
  <2>1. CASE Move(t, Place("cancel", p, Canceled))
    BY <1>2, <1>3, <1>7, <2>1, SMT DEF Cancel, Asks, Calls
  <2>2. CASE pc' = pc
    BY <1>5, <1>7, <2>2 DEF Cancel, Asks, Calls
  <2> QED
    BY <1>7, <2>1, <2>2 DEF Cancel
<1>8. CASE Cancels(t)
  BY <1>4, <1>8 DEF Cancels, Does
<1>9. CASE Disable(t)
  BY <1>5, <1>9 DEF Disable, Asks, Calls
<1>10. CASE Enable(t)
  BY <1>3, <1>4, <1>5, <1>10 DEF Enable, Asks, Calls
<1>11. CASE Gone(t)
  <2>1. SUFFICES ASSUME ~broken' PROVE RefInv'
    BY DEF RefInv
  <2>2. /\ pc[t].at = "ended" /\ alive' = alive \ {pc[t].of}
        /\ pc[t].of = t \/ pc[t].of \notin alive \/ pc[pc[t].of].at = "user"
    BY <1>11, <2>1 DEF Gone, Does
  <2>3. ASSUME NEW p \in Child, Fresh(p)
        PROVE  p \in alive' <=> p \in alive
    <3>1. pc[p].at # "user" /\ p # t
      BY <2>2, <2>3 DEF Fresh, Where
    <3> QED
      BY <2>2, <3>1
  <2>4. PICK k : Move(t, k) /\ k.at \in {"ended", "user"}
    <3>1. CASE pc[t].of = t
      <4>1. Move(t, pc[t])
        BY <1>0, <1>11, <3>1 DEF Gone, Move
      <4> QED
        BY <2>2, <4>1
    <3>2. CASE pc[t].of # t
      <4>1. Move(t, At("user"))
        BY <1>11, <3>2 DEF Gone, Goto, Move
      <4> QED
        BY <1>3, <4>1
    <3> QED
      BY <3>1, <3>2
  <2> QED
    BY <1>0, <1>1, <2>2, <2>3, <2>4, RefElsewhere DEF JoinerStep, FreshPlace
<1> QED
  BY <1>6, <1>7, <1>8, <1>9, <1>10, <1>11

\* pthread_completejoin().
LEMMA CompleteRef ==
  ASSUME IInv, RefInv, NEW t \in Thread,
         \/ CompleteNotFound(t) \/ CompleteNoWaiters(t) \/ CompleteWaiters(t)
         \/ Notify(t) \/ NotifyAgain(t) \/ Notified(t)
  PROVE  RefInv'
<1>p. PICK p, v : p = pc[t].of /\ v = pc[t].val
  OBVIOUS
<1>0. TypeInv /\ pc = [u \in Thread |-> pc[u]] /\ Child \subseteq Thread /\ info \in [Child -> InfoRecord]
  BY JoinAssumption DEF IInv, TypeInv
<1>1. ~broken /\ t \in alive /\ alive' = alive /\ pc[t].at \in {"end", "notify", "again", "told"}
  BY DEF CompleteNotFound, CompleteNoWaiters, CompleteWaiters, Notify, NotifyAgain, Notified, Does
<1>2. \A l : [pc[t] EXCEPT !.at = l] = Place(l, p, v) /\ Place(l, p, v).at = l
  <2>1. pc[t].at \in ChildStep \cup {"end", "ended"}
    BY <1>1 DEF ChildStep
  <2>2. \A l : [pc[t] EXCEPT !.at = l] = Place(l, pc[t].of, pc[t].val)
    BY <1>0, <2>1, AtPlace
  <2> QED
    BY <1>p, <2>2, Places
<1>3. ASSUME NEW k, k.at \in {"end", "notify", "again", "told", "ended"}, Move(t, k) \/ (\E s : Take(t, s, k)), info' = info
      PROVE  RefInv'
  BY <1>0, <1>1, <1>3, RefElsewhere DEF JoinerStep, FreshPlace
<1>4. CASE CompleteNotFound(t) \/ Notified(t) \/ Notify(t)
  <2>1. PICK l \in {"ended", "again"} : Move(t, Place(l, p, v)) /\ info' = info
    BY <1>2, <1>4 DEF CompleteNotFound, Notified, Notify
  <2>2. Place(l, p, v).at = l
    BY <1>2
  <2> QED
    BY <1>3, <2>1, <2>2, SMT
<1>5. CASE NotifyAgain(t)
  <2>1. CASE pc' = pc
    <3>1. Move(t, pc[t])
      BY <1>0, <2>1 DEF Move
    <3> QED
      BY <1>1, <1>3, <1>5, <3>1, SMT DEF NotifyAgain
  <2>2. CASE Take(t, DataSem(p), Place("told", p, v))
    BY <1>2, <1>3, <1>5, <2>2, SMT DEF NotifyAgain
  <2> QED
    BY <1>p, <1>2, <1>5, <2>1, <2>2 DEF NotifyAgain
<1>6. CASE CompleteNoWaiters(t) \/ CompleteWaiters(t)
  <2>1. PICK k : Move(t, k) /\ k.at \in {"ended", "notify"}
    BY <1>p, <1>2, <1>6 DEF CompleteNoWaiters, CompleteWaiters
  <2>2. Goes(t, k) /\ Where(t) = pc[t]
    BY <1>0, <1>1, <2>1, GoesOn DEF Where
  <2>3. /\ \A q : ~IsJoiner(k, q) /\ ~IsJoiner(Where(t), q)
        /\ k.at \notin FreshPlace /\ Where(t).at \notin FreshPlace
    BY <1>1, <2>1, <2>2 DEF IsJoiner, JoinerStep, FreshPlace
  <2>4. p \in Child /\ info[p].listed
    BY <1>p, <1>6 DEF CompleteNoWaiters, CompleteWaiters, Found
  <2>5. PICK x : info' = [info EXCEPT ![p] = x]
    BY <1>p, <1>6 DEF CompleteNoWaiters, CompleteWaiters
  <2>6. RefOf(p)
    BY <1>1, <2>4 DEF RefInv
  <2>7. Joiners(p)' = Joiners(p) /\ ~Fresh(p)' /\ ~Fresh(p)
    <3>1. ~Fresh(p)
      BY <2>4, <2>6 DEF RefOf
    <3>2. Fresh(p)' <=> Fresh(p)
      BY <1>0, <2>2, <2>3, <2>4 DEF Fresh, FreshPlace, Goes
    <3> QED
      BY <2>2, <2>3, <3>1, <3>2, JoinersMove, SMT
  <2>8. ASSUME NEW q \in Child, q # p
        PROVE  RefOf(q)'
    <3>1. info'[q] = info[q] /\ RefOf(q)
      BY <1>0, <1>1, <2>5, <2>8 DEF RefInv
    <3> QED
      BY <1>0, <1>1, <2>2, <2>3, <3>1, RefKept
  <2>9. info[p] \in InfoRecord
    BY <1>0, <2>4
  <2>10. /\ Ended(p, v).mem = info[p].mem /\ Ended(p, v).listed = info[p].listed
         /\ Ended(p, v).crefs = info[p].crefs /\ Ended(p, v).detached = info[p].detached
         /\ DOMAIN Ended(p, v) = {"mem", "listed", "started", "crefs", "detached", "terminated", "val"}
    BY <2>9 DEF Ended, InfoRecord
  <2>11. info[p].mem = "alloc"
    BY <2>4, <2>6 DEF RefOf
  <2>12. CASE CompleteNoWaiters(t) /\ info[p].detached
    <3>1. info' = [info EXCEPT ![p] = [Ended(p, v) EXCEPT !.mem = "freed", !.listed = FALSE]]
      BY <1>p, <2>12 DEF CompleteNoWaiters
    <3>2. info'[p].mem = "freed" /\ ~info'[p].listed
      BY <1>0, <2>4, <2>10, <3>1
    <3>3. RefOf(p)'
      BY <2>6, <2>7, <3>2 DEF RefOf
    <3> QED
      BY <2>8, <3>3 DEF RefInv
  <2>13. CASE CompleteNoWaiters(t) /\ ~info[p].detached
    <3>1. info' = [info EXCEPT ![p] = Ended(p, v)]
      BY <1>p, <2>13 DEF CompleteNoWaiters
    <3>2. /\ info'[p].mem = "alloc" /\ info'[p].crefs = info[p].crefs /\ ~info'[p].detached
      BY <1>0, <2>4, <2>10, <2>11, <2>13, <3>1
    <3>3. RefOf(p)'
      BY <2>6, <2>7, <2>11, <3>2 DEF RefOf
    <3> QED
      BY <2>8, <3>3 DEF RefInv
  <2>14. CASE CompleteWaiters(t)
    <3>1. info' = [info EXCEPT ![p] = Ended(p, v)] /\ Semcount(sem[ExitSem(p)]) < 0
      BY <1>p, <2>14 DEF CompleteWaiters
    <3>2. sem[ExitSem(p)].q # {}
      <4>1. sem[ExitSem(p)] \in SemRecord
        BY <2>4, SemsDiffer DEF IInv, TypeInv
      <4>2. sem[ExitSem(p)].q = {} => Cardinality(sem[ExitSem(p)].q) = 0
        BY FS_EmptySet
      <4> QED
        BY <3>1, <4>1, <4>2, SMT DEF Semcount, SemRecord
    <3>3. PICK u \in Thread : u \in sem[ExitSem(p)].q
      <4>1. sem[ExitSem(p)] \in SemRecord
        BY <2>4, SemsDiffer DEF IInv, TypeInv
      <4> QED
        BY <3>2, <4>1 DEF SemRecord
    <3>4. pc[u].at = "take" /\ pc[u].sem = ExitSem(p)
      BY <2>4, <3>3, SemsDiffer DEF IInv, QueueInv
    <3>5. Step(u, pc[u].then) /\ AwaitsFor(pc[u].sem, pc[u].then)
      BY <1>0, <3>4, TakePlace
    <3>6. pc[u].then.at = "woken" /\ pc[u].then.of = p
      <4>1. pc[u].then.at \in {"created", "told", "woken"} => pc[u].then.of \in Child
        BY <3>5, SMT DEF Step, At, Place
      <4> QED
        BY <2>4, <3>4, <3>5, <4>1, SemsDiffer DEF AwaitsFor
    <3>7. u \in Joiners(p)
      BY <3>4, <3>6 DEF Joiners, Where
    <3>8. info'[p].mem = "alloc" /\ info'[p].crefs = info[p].crefs
      BY <1>0, <2>4, <2>10, <2>11, <3>1
    <3>9. RefOf(p)'
      BY <2>6, <2>7, <2>11, <3>7, <3>8 DEF RefOf
    <3> QED
      BY <2>8, <3>9 DEF RefInv
  <2> QED
    BY <1>6, <2>12, <2>13, <2>14
<1> QED
  BY <1>4, <1>5, <1>6

\* pthread_join() and pthread_detach().
LEMMA JoinRef ==
  ASSUME IInv, RefInv, NEW t \in Thread,
         \/ \E p \in Child : Join(t, p) \/ Detach(t, p)
         \/ JoinNotFound(t) \/ JoinTerminated(t) \/ JoinRunning(t) \/ JoinSleeps(t)
         \/ JoinWoken(t) \/ JoinRetakes(t) \/ JoinUnlocks(t) \/ JoinDrops(t) \/ Detaches(t)
  PROVE  RefInv'
<1>0. TypeInv /\ Child \subseteq Thread /\ info \in [Child -> InfoRecord]
  BY JoinAssumption DEF IInv, TypeInv
<1>1. ~broken /\ t \in alive /\ alive' = alive
  BY DEF Join, Detach, JoinNotFound, JoinTerminated, JoinRunning, JoinSleeps, JoinWoken, JoinRetakes,
         JoinUnlocks, JoinDrops, Detaches, Does, Asks
<1>2. At("user").at = "user"
  BY Places
<1>3. ASSUME NEW p \in Child, Join(t, p) \/ Detach(t, p)
      PROVE  RefInv'
  <2>1. PICK l \in {"join", "detach"} : Take(t, JoinSem, Place(l, p, Canceled)) /\ info' = info /\ pc[t] = At("user")
    BY <1>3 DEF Join, Detach, Asks, Calls
  <2>2. Place(l, p, Canceled).at = l
    BY Places
  <2> QED
    BY <1>0, <1>1, <1>2, <2>1, <2>2, RefElsewhere DEF JoinerStep, FreshPlace
<1>4. SUFFICES ASSUME \/ JoinNotFound(t) \/ JoinTerminated(t) \/ JoinRunning(t) \/ JoinSleeps(t)
                      \/ JoinWoken(t) \/ JoinRetakes(t) \/ JoinUnlocks(t) \/ JoinDrops(t) \/ Detaches(t)
               PROVE  RefInv'
  BY <1>3
<1>p. PICK p, v : p = pc[t].of /\ v = pc[t].val
  OBVIOUS
<1>5. pc[t].at \in {"join", "detach"} \cup JoinerStep
  BY <1>4 DEF JoinNotFound, JoinTerminated, JoinRunning, JoinSleeps, JoinWoken, JoinRetakes,
           JoinUnlocks, JoinDrops, Detaches, Does, JoinerStep
<1>6. /\ p \in Child /\ v \in ExitValue
      /\ \A l : [pc[t] EXCEPT !.at = l] = Place(l, p, v) /\ Place(l, p, v).at = l /\ Place(l, p, v).of = p
  <2>1. pc[t].at \in ChildStep
    BY <1>5 DEF ChildStep
  <2>2. /\ pc[t].of \in Child /\ pc[t].val \in ExitValue
        /\ \A l : [pc[t] EXCEPT !.at = l] = Place(l, pc[t].of, pc[t].val)
    BY <1>0, <2>1, AtPlace
  <2>3. \A l : Place(l, p, v).at = l /\ Place(l, p, v).of = p
    BY Places, SMT
  <2> QED
    BY <1>p, <2>2, <2>3
<1>7. RefOf(p) /\ info[p] \in InfoRecord /\ Where(t) = pc[t] /\ pc[t].at \notin FreshPlace
  BY <1>0, <1>1, <1>5, <1>6 DEF RefInv, Where, JoinerStep, FreshPlace
<1>8. ASSUME NEW k, Goes(t, k), NEW x, info' = [info EXCEPT ![p] = x], k.at \notin FreshPlace,
             k.at \in JoinerStep => k.of = p
      PROVE  /\ \A q \in Child : q # p => RefOf(q)'
             /\ t = p => ~Fresh(p) /\ ~Fresh(p)'
             /\ t # p => (Fresh(p)' <=> Fresh(p))
  <2>1. ASSUME NEW q \in Child, q # p
        PROVE  RefOf(q)'
    <3>1. info'[q] = info[q] /\ RefOf(q) /\ ~IsJoiner(k, q) /\ ~IsJoiner(Where(t), q)
      BY <1>0, <1>1, <1>p, <1>7, <1>8, <2>1 DEF RefInv, IsJoiner
    <3> QED
      BY <1>0, <1>1, <1>7, <1>8, <3>1, RefKept
  <2> QED
    BY <1>0, <1>6, <1>7, <1>8, <2>1 DEF Fresh, FreshPlace, Goes
<1>9. CASE JoinNotFound(t)
  <2>1. Move(t, At("user")) /\ info' = info /\ pc[t].at = "join"
    BY <1>9 DEF JoinNotFound, Does, Goto, Move
  <2> QED
    BY <1>0, <1>1, <1>2, <2>1, RefElsewhere DEF JoinerStep, FreshPlace
<1>10. CASE JoinSleeps(t) \/ JoinWoken(t) \/ JoinRetakes(t) \/ JoinUnlocks(t)
  <2>1. /\ info' = info /\ pc[t].at \in JoinerStep
        /\ \E l \in JoinerStep : Move(t, Place(l, p, v)) \/ \E s : Take(t, s, Place(l, p, v))
    <3>1. CASE JoinSleeps(t)
      BY <1>6, <3>1 DEF JoinSleeps, Does, JoinerStep
    <3>2. CASE JoinWoken(t)
      BY <1>6, <3>2 DEF JoinWoken, Does, JoinerStep
    <3>3. CASE JoinRetakes(t)
      BY <1>6, <3>3 DEF JoinRetakes, Does, JoinerStep
    <3>4. CASE JoinUnlocks(t)
      BY <1>6, <3>4 DEF JoinUnlocks, Does, JoinerStep
    <3> QED
      BY <1>10, <3>1, <3>2, <3>3, <3>4
  <2>2. PICK l \in JoinerStep : Move(t, Place(l, p, v)) \/ \E s : Take(t, s, Place(l, p, v))
    BY <2>1
  <2>3. Place(l, p, v).at \in JoinerStep /\ Place(l, p, v).at # "take" /\ Place(l, p, v).at \notin FreshPlace
    BY <1>6 DEF JoinerStep, FreshPlace
  <2>4. Goes(t, Place(l, p, v))
    BY <1>0, <2>2, <2>3, GoesOn
  <2>5. \A q \in Child : IsJoiner(Place(l, p, v), q) <=> IsJoiner(Where(t), q)
    BY <1>p, <1>6, <1>7, <2>1, <2>3 DEF IsJoiner
  <2> QED
    BY <1>1, <1>7, <2>1, <2>3, <2>4, <2>5, RefPlain
<1>11. CASE JoinTerminated(t) \/ JoinRunning(t)
  <2>1. PICK l \in {"drop", "sleep"} : Move(t, Place(l, p, v)) /\ pc[t].at = "join"
    BY <1>6, <1>11 DEF JoinTerminated, JoinRunning, Does
  <2>2. info[p].listed /\ info' = [info EXCEPT ![p] = [info[p] EXCEPT !.crefs = info[p].crefs + 1]]
    BY <1>p, <1>11 DEF JoinTerminated, JoinRunning, Found
  <2>3. Place(l, p, v).at = l /\ Place(l, p, v).of = p
    BY <1>6
  <2>4. Goes(t, Place(l, p, v))
    BY <1>0, <2>1, <2>3, GoesOn
  <2>5. l \in JoinerStep /\ l \notin FreshPlace /\ "join" \notin JoinerStep
    BY DEF JoinerStep, FreshPlace
  <2>6. IsJoiner(Place(l, p, v), p) /\ ~IsJoiner(Where(t), p)
    BY <1>7, <2>1, <2>3, <2>5 DEF IsJoiner
  <2>7. Joiners(p)' = Joiners(p) \cup {t} /\ t \notin Joiners(p)
    BY <2>4, <2>6, JoinersMove
  <2>8. /\ info'[p].crefs = info[p].crefs + 1 /\ info'[p].mem = info[p].mem
    BY <1>0, <1>6, <1>7, <2>2 DEF InfoRecord
  <2>9. info[p].mem = "alloc" /\ ~Fresh(p) /\ IsFiniteSet(Joiners(p)) /\ info[p].crefs = Cardinality(Joiners(p))
    BY <1>7, <2>2 DEF RefOf
  <2>10. /\ \A q \in Child : q # p => RefOf(q)'
         /\ ~Fresh(p)'
    BY <1>8, <2>2, <2>3, <2>4, <2>5, <2>9
  <2>11. IsFiniteSet(Joiners(p)') /\ Cardinality(Joiners(p)') = Cardinality(Joiners(p)) + 1
    BY <2>7, <2>9, FS_AddElement, SMT
  <2>12. RefOf(p)'
    <3>1. info'[p].crefs = Cardinality(Joiners(p)') /\ Joiners(p)' # {} /\ info'[p].mem = "alloc"
      BY <2>7, <2>8, <2>9, <2>11
    <3> QED
      BY <2>10, <2>11, <3>1 DEF RefOf
  <2> QED
    BY <2>10, <2>12 DEF RefInv
<1>12. CASE JoinDrops(t)
  <2>1. Move(t, At("user")) /\ pc[t].at = "drop"
    BY <1>12 DEF JoinDrops, Does, Goto, Move
  <2>2. Goes(t, At("user"))
    BY <1>0, <1>2, <2>1, GoesOn
  <2>3. "drop" \in JoinerStep /\ "user" \notin JoinerStep /\ "user" \notin FreshPlace
    BY DEF JoinerStep, FreshPlace
  <2>4. ~IsJoiner(At("user"), p) /\ IsJoiner(Where(t), p)
    BY <1>2, <1>p, <1>7, <2>1, <2>3 DEF IsJoiner
  <2>5. Joiners(p)' = Joiners(p) \ {t} /\ t \in Joiners(p)
    BY <2>2, <2>4, JoinersMove
  <2>6. ~Fresh(p) /\ IsFiniteSet(Joiners(p))
    BY <1>7, <2>5 DEF RefOf
  <2>7. IsFiniteSet(Joiners(p)') /\ Cardinality(Joiners(p)') = Cardinality(Joiners(p)) - 1 /\ Cardinality(Joiners(p)) \in Nat
    BY <2>5, <2>6, FS_RemoveElement, FS_CardinalityType, SMT
  <2>8. CASE info[p].crefs = 1
    <3>1. info' = [info EXCEPT ![p].crefs = 0, ![p].mem = "freed", ![p].listed = FALSE]
      BY <1>p, <1>12, <2>8 DEF JoinDrops
    <3>2. info' = [info EXCEPT ![p] = [info[p] EXCEPT !.crefs = 0, !.mem = "freed", !.listed = FALSE]]
      BY <1>0, <1>6, <3>1
    <3>3. info'[p].mem = "freed" /\ ~info'[p].listed
      BY <1>0, <1>6, <1>7, <3>2 DEF InfoRecord
    <3>4. (\A q \in Child : q # p => RefOf(q)') /\ ~Fresh(p)'
      BY <1>2, <1>8, <2>2, <2>3, <2>6, <3>2
    <3>5. RefOf(p)'
      BY <2>7, <3>3, <3>4 DEF RefOf
    <3> QED
      BY <3>4, <3>5 DEF RefInv
  <2>9. CASE info[p].crefs # 1
    <3>1. info' = [info EXCEPT ![p] = [info[p] EXCEPT !.crefs = info[p].crefs - 1]]
      BY <1>p, <1>12, <2>9 DEF JoinDrops
    <3>2. /\ info'[p].mem = info[p].mem /\ info'[p].listed = info[p].listed
          /\ info'[p].crefs = info[p].crefs - 1
      BY <1>0, <1>6, <1>7, <3>1 DEF InfoRecord
    <3>3. (\A q \in Child : q # p => RefOf(q)') /\ ~Fresh(p)'
      BY <1>2, <1>8, <2>2, <2>3, <2>6, <3>1
    <3>4. info[p].mem = "alloc" => info'[p].crefs = Cardinality(Joiners(p)') /\ Joiners(p)' # {}
      <4> SUFFICES ASSUME info[p].mem = "alloc"
                   PROVE  info'[p].crefs = Cardinality(Joiners(p)') /\ Joiners(p)' # {}
        OBVIOUS
      <4>1. info[p].crefs = Cardinality(Joiners(p))
        BY <1>7 DEF RefOf
      <4>2. Joiners(p)' = {} => Cardinality(Joiners(p)') = 0
        BY FS_EmptySet
      <4> QED
        BY <2>7, <2>9, <3>2, <4>1, <4>2, SMT
    <3>5. RefOf(p)'
      BY <1>7, <2>6, <2>7, <3>2, <3>3, <3>4 DEF RefOf
    <3> QED
      BY <3>3, <3>5 DEF RefInv
  <2> QED
    BY <2>8, <2>9
<1>13. CASE Detaches(t)
  <2>1. Move(t, At("user")) /\ pc[t].at = "detach"
    BY <1>13 DEF Detaches, Does, Goto, Move
  <2>2. Goes(t, At("user"))
    BY <1>0, <1>2, <2>1, GoesOn
  <2>3. "detach" \notin JoinerStep /\ "user" \notin JoinerStep /\ "user" \notin FreshPlace
    BY DEF JoinerStep, FreshPlace
  <2>4. ~IsJoiner(At("user"), p) /\ ~IsJoiner(Where(t), p)
    BY <1>2, <1>7, <2>1, <2>3 DEF IsJoiner
  <2>5. Joiners(p)' = Joiners(p)
    BY <2>2, <2>4, JoinersMove, SMT
  <2>6. CASE info' = info
    BY <1>0, <1>1, <1>2, <2>1, <2>6, RefElsewhere DEF JoinerStep, FreshPlace
  <2>7. CASE Found(p) /\ info[p].terminated /\ Destroy(p)
    <3>1. info' = [info EXCEPT ![p] = [info[p] EXCEPT !.mem = "freed", !.listed = FALSE]]
      BY <1>0, <1>6, <2>7 DEF Destroy
    <3>2. info'[p].mem = "freed" /\ ~info'[p].listed
      BY <1>0, <1>6, <1>7, <3>1 DEF InfoRecord
    <3>3. ~Fresh(p)
      BY <1>7, <2>7 DEF Found, RefOf
    <3>4. (\A q \in Child : q # p => RefOf(q)') /\ ~Fresh(p)'
      BY <1>2, <1>8, <2>2, <2>3, <3>1, <3>3
    <3>5. RefOf(p)'
      BY <1>7, <2>5, <3>2, <3>4 DEF RefOf
    <3> QED
      BY <3>4, <3>5 DEF RefInv
  <2>8. CASE Found(p) /\ ~info[p].terminated /\ info' = [info EXCEPT ![p].detached = TRUE]
    <3>1. info' = [info EXCEPT ![p] = [info[p] EXCEPT !.detached = TRUE]]
      BY <2>8
    <3>2. /\ info'[p].mem = info[p].mem /\ info'[p].listed = info[p].listed
          /\ info'[p].crefs = info[p].crefs /\ ~info'[p].terminated
      BY <1>0, <1>6, <1>7, <2>8, <3>1, SMT DEF InfoRecord
    <3>3. ~Fresh(p)
      BY <1>7, <2>8 DEF Found, RefOf
    <3>4. (\A q \in Child : q # p => RefOf(q)') /\ ~Fresh(p)'
      BY <1>2, <1>8, <2>2, <2>3, <3>1, <3>3
    <3>5. RefOf(p)'
      BY <1>7, <2>5, <3>2, <3>3, <3>4 DEF RefOf
    <3> QED
      BY <3>4, <3>5 DEF RefInv
  <2> QED
    BY <1>p, <1>13, <2>6, <2>7, <2>8 DEF Detaches
<1> QED
  BY <1>4, <1>9, <1>10, <1>11, <1>12, <1>13

\* A step that leaves all places and join_t's alone.
LEMMA RefUnchanged ==
  ASSUME RefInv, pc' = pc, info' = info, alive' = alive, broken' = broken
  PROVE  RefInv'
<1>1. \A u : Where(u)' = Where(u)
  BY DEF Where
<1>2. \A p : Joiners(p)' = Joiners(p) /\ (Fresh(p)' <=> Fresh(p))
  BY <1>1 DEF Joiners, Fresh
<1> QED
  BY <1>2 DEF RefInv, RefOf

\* Every step keeps the references.
LEMMA StepRef == IInv /\ RefInv /\ [Next]_vars => RefInv'
<1> SUFFICES ASSUME IInv, RefInv, [Next]_vars PROVE RefInv'
  OBVIOUS
<1>1. CASE UNCHANGED vars
  <2>1. pc' = pc /\ info' = info /\ alive' = alive /\ broken' = broken
    BY <1>1 DEF vars, threadvars
  <2> QED
    BY <2>1, RefUnchanged
<1>2. ASSUME NEW t \in Thread, WaitEnds(t)
      PROVE  RefInv'
  <2>1. ~broken /\ pc[t].at = "take" /\ info' = info /\ alive' = alive /\ TypeInv
    BY <1>2 DEF WaitEnds, Retry, IInv
  <2>2. PICK k, s : k = pc[t].then /\ s = pc[t].sem
    OBVIOUS
  <2>3. k.at # "take"
    BY <2>1, <2>2, TakePlace, StepPlain
  <2>4. Move(t, k) \/ Take(t, s, k)
    BY <1>2, <2>2 DEF WaitEnds, Retry, Move
  <2>5. Goes(t, k) /\ Where(t) = k
    BY <2>1, <2>2, <2>3, <2>4, GoesOn DEF Where
  <2> QED
    BY <2>1, <2>5, RefPlain
<1>3. ASSUME NEW t \in Thread, Signal(t)
      PROVE  RefInv'
  <2>1. ~broken /\ pc' = pc /\ info' = info /\ alive' = alive /\ broken' = broken
    BY <1>3 DEF Signal, Interrupted
  <2> QED
    BY <2>1, RefUnchanged
<1> QED
  BY <1>1, <1>2, <1>3, CreateRef, ExitRef, CompleteRef, JoinRef DEF Next

\* crefs counts the joiners, with any number of them, and nobody leaves the
\* join_t of a detached pthread behind.
THEOREM JoinInfosReleased == Spec => []JoinInfoReleased
<1>1. Init => RefInv
  <2> SUFFICES ASSUME Init, NEW p \in Child PROVE RefOf(p)
    BY DEF RefInv
  <2>1. \A t \in Thread : Where(t).at \in {"start", "user"} /\ Where(t) = pc[t]
    BY Places, SMT DEF Init, Where
  <2>2. Joiners(p) = {}
    BY <2>1 DEF Joiners
  <2>3. p \in Thread /\ Where(p).at = "start" /\ p \notin alive
    BY <2>1, Places, JoinAssumption DEF Init, Where
  <2> QED
    BY <2>2, <2>3, FS_EmptySet DEF RefOf, Fresh, Init, NoInfo
<1>2. RefInv => JoinInfoReleased
  BY DEF RefInv, RefOf, JoinInfoReleased
<1> QED
  BY <1>1, <1>2, Invariance, StepRef, PTL DEF Spec

-----------------------------------------------------------------------------
(* The threads that wait for exit_sem.                                     *)

\* While t runs, nobody else is on its way to exit_sem.
LEMMA OthersAwake ==
  ASSUME IInv, SleepInv, ~broken, NEW t \in Thread, Runs(t), NEW u \in Thread, u # t
  PROVE  pc[u].at # "sleep"
<1> SUFFICES ASSUME pc[u].at = "sleep" PROVE FALSE
  OBVIOUS
<1>1. cpu = u
  BY DEF SleepInv
<1>2. ~Blocked(u)
  BY DEF Blocked, IInv, QueueInv
<1> QED
  BY <1>1, <1>2, JoinAssumption DEF Runs

\* A step of t to the place n.
LEMMA SleepStep ==
  ASSUME IInv, SleepInv, ~broken, NEW t \in Thread, Runs(t), NEW n, Move(t, n),
         n.at = "sleep" => cpu' = t /\ lock'[t] > 0 /\ ~info'[n.of].terminated,
         \A u \in Thread : u # t => res'[u] = res[u],
         n.at = "take" /\ n.then.at = "woken" => res'[t] = "OK",
         \A p \in Child : CountOrQueue(sem'[ExitSem(p)]),
         \A p \in Child : info'[p].terminated /\ sem'[ExitSem(p)].q # {} =>
           \E u \in Thread : pc'[u].at \in {"notify", "again"} /\ pc'[u].of = p
  PROVE  SleepInv'
<1>1. pc'[t] = n /\ \A u \in Thread : u # t => pc'[u] = pc[u]
  BY DEF IInv, TypeInv, Move
<1>2. \A u \in Thread : u # t => pc'[u].at # "sleep"
  BY <1>1, OthersAwake, SMT
<1>3. \A u \in Thread : pc'[u].at = "sleep" => cpu' = u /\ lock'[u] > 0 /\ ~info'[pc'[u].of].terminated
  BY <1>1, <1>2
<1>4. \A u \in Thread : pc'[u].at = "take" /\ pc'[u].then.at = "woken" => res'[u] = "OK"
  BY <1>1, SMT DEF SleepInv
<1>5. NoJoinerForgotten'
  BY DEF NoJoinerForgotten
<1> QED
  BY <1>3, <1>4, <1>5 DEF SleepInv

\* A step of t that has nothing to do with any exit_sem.
LEMMA SleepQuiet ==
  ASSUME IInv, SleepInv, ~broken, NEW t \in Thread, Runs(t), pc[t].at \notin {"notify", "again"},
         NEW k, k.at \notin {"woken", "sleep", "take"},
         NEW s \in Sem, \A p \in Child : s # ExitSem(p),
         \/ Move(t, k) /\ res' = res /\ \A p \in Child : sem'[ExitSem(p)] = sem[ExitSem(p)]
         \/ Move(t, k) /\ Give(s)
         \/ Take(t, s, k),
         \A p \in Child : info'[p].terminated => info[p].terminated
  PROVE  SleepInv'
<1>0. sem \in [Sem -> SemRecord] /\ res \in [Thread -> {"OK", "EINTR"}]
  BY DEF IInv, TypeInv
<1>1. /\ \A p \in Child : sem'[ExitSem(p)] = sem[ExitSem(p)]
      /\ \A u \in Thread : u # t => res'[u] = res[u]
  <2>1. CASE Give(s)
    BY <1>0, <2>1, SemPostEffect, SemsDiffer DEF Give
  <2>2. CASE Take(t, s, k)
    BY <1>0, <2>2, SemWaitEffect, SemsDiffer, SMT DEF Take
  <2> QED
    BY <2>1, <2>2
<1>2. PICK n : Move(t, n) /\ n.at # "sleep" /\ ~(n.at = "take" /\ n.then.at = "woken")
  <2>1. CASE Move(t, k)
    BY <2>1
  <2>2. CASE Take(t, s, k)
    <3>1. Move(t, k) \/ Move(t, WaitAt(s, k))
      BY <2>2 DEF Take, Move, WaitAt
    <3>2. WaitAt(s, k).at = "take" /\ WaitAt(s, k).then = k
      BY DEF WaitAt
    <3> QED
      BY <3>1, <3>2
  <2> QED
    BY <2>1, <2>2
<1>3. \A u \in Thread : u # t => pc'[u] = pc[u]
  BY <1>2 DEF Move, IInv, TypeInv
<1>4. ASSUME NEW p \in Child, info'[p].terminated, sem'[ExitSem(p)].q # {}
      PROVE  \E u \in Thread : pc'[u].at \in {"notify", "again"} /\ pc'[u].of = p
  <2>1. \E u \in Thread : pc[u].at \in {"notify", "again"} /\ pc[u].of = p
    BY <1>1, <1>4 DEF SleepInv, NoJoinerForgotten
  <2> QED
    BY <1>3, <2>1
<1>5. \A p \in Child : CountOrQueue(sem'[ExitSem(p)])
  BY <1>1 DEF SleepInv
<1> QED
  BY <1>1, <1>2, <1>4, <1>5, SleepStep, SMT

\* pthread_create(), pthread_start(), pthread_exit(), pthread_cancel() and
\* pthread_setcancelstate().
LEMMA LifeSleep ==
  ASSUME IInv, SleepInv, NEW t \in Thread,
         \/ \E p \in Child : Create(t, p) \/ Cancel(t, p)
         \/ \E v \in Value : Exit(t, v)
         \/ Created(t) \/ CreateReturns(t) \/ Start(t) \/ StartAdds(t) \/ Started(t)
         \/ Cancels(t) \/ Disable(t) \/ Enable(t) \/ Gone(t)
  PROVE  SleepInv'
<1> USE SemsDiffer
<1>0. TypeInv /\ pc = [u \in Thread |-> pc[u]] /\ info \in [Child -> InfoRecord] /\ sem \in [Sem -> SemRecord]
  BY DEF IInv, TypeInv
<1>1. ~broken /\ Runs(t)
  BY DEF Create, Created, CreateReturns, Start, StartAdds, Started,
         Exit, Cancel, Cancels, Disable, Enable, Gone, Asks, Does, Calls
<1>2. (\A l : At(l).at = l) /\ \A l, p, v : Place(l, p, v).at = l
  BY Places
<1>3. ASSUME NEW p, NEW v, Complete(t, p, v), info' = info, pc[t].at \notin {"notify", "again"}
      PROVE  SleepInv'
  BY <1>1, <1>2, <1>3, SleepQuiet, SMT DEF Complete
<1>4. ASSUME NEW k, k.at \in {"user", "cancel", "close", "ended"}, Move(t, k), sem' = sem, res' = res, info' = info,
             pc[t].at \notin {"notify", "again"}
      PROVE  SleepInv'
  BY <1>1, <1>4, SleepQuiet
<1>5. ASSUME NEW p \in Child, Create(t, p)
      PROVE  SleepInv'
  <2>1. Take(t, DataSem(p), Place("created", p, Canceled)) /\ pc[t].at = "user"
    BY <1>2, <1>5 DEF Create, Asks, Calls
  <2>2. info' = [info EXCEPT ![p] = [info[p] EXCEPT !.mem = "alloc"]]
    BY <1>5 DEF Create
  <2>3. \A q \in Child : info'[q].terminated = info[q].terminated
    BY <1>0, <2>2 DEF InfoRecord
  <2> QED
    BY <1>1, <1>2, <2>1, <2>3, SleepQuiet, SMT
<1>6. CASE Created(t)
  <2>1. Move(t, Place("close", pc[t].of, Canceled)) /\ UNCHANGED <<sem, res, info>> /\ pc[t].at = "created"
    BY <1>6 DEF Created, Does
  <2>2. PICK k : k = Place("close", pc[t].of, Canceled)
    OBVIOUS
  <2> QED
    BY <1>2, <1>4, <2>1, <2>2, SMT
<1>7. CASE CreateReturns(t)
  <2>1. /\ Move(t, At("user")) /\ UNCHANGED <<res, info>> /\ pc[t].at = "close"
        /\ sem' = [sem EXCEPT ![DataSem(pc[t].of)] = Destroyed(sem[DataSem(pc[t].of)])]
    BY <1>7 DEF CreateReturns, Does, Goto, Move
  <2>2. pc[t].of \in Child
    BY <1>0, <2>1, AtPlace DEF ChildStep
  <2>3. \A q \in Child : sem'[ExitSem(q)] = sem[ExitSem(q)]
    BY <1>0, <2>1, <2>2
  <2> QED
    BY <1>1, <1>2, <2>1, <2>3, SleepQuiet
<1>8. CASE Start(t)
  <2>1. Take(t, JoinSem, At("add")) /\ info' = info /\ pc[t].at = "start"
    BY <1>8 DEF Start, Does
  <2> QED
    BY <1>1, <1>2, <2>1, SleepQuiet
<1>9. CASE StartAdds(t)
  <2>1. Move(t, At("started")) /\ Give(JoinSem) /\ pc[t].at = "add" /\ info' = [info EXCEPT ![t] = [info[t] EXCEPT !.listed = TRUE]]
    BY <1>9 DEF StartAdds, Does, Goto, Move
  <2>2. \A q \in Child : info'[q].terminated = info[q].terminated
    BY <1>0, <2>1 DEF InfoRecord
  <2> QED
    BY <1>1, <1>2, <2>1, <2>2, SleepQuiet
<1>10. CASE Started(t)
  <2>1. Move(t, At("user")) /\ Give(DataSem(t)) /\ pc[t].at = "started" /\ info' = [info EXCEPT ![t] = [info[t] EXCEPT !.started = TRUE]]
    BY <1>10 DEF Started, Does, Goto, Move
  <2>2. \A q \in Child : info'[q].terminated = info[q].terminated
    BY <1>0, <2>1 DEF InfoRecord
  <2>3. t \in Child
    BY <1>0, <2>1, StartPlace
  <2> QED
    BY <1>1, <1>2, <2>1, <2>2, <2>3, SleepQuiet
<1>11. CASE pc' = pc /\ pc[t].at = "user" /\ UNCHANGED <<sem, res, info>>
  <2>1. Move(t, pc[t])
    BY <1>0, <1>11 DEF Move
  <2>2. PICK k : k = pc[t]
    OBVIOUS
  <2> QED
    BY <1>4, <1>11, <2>1, <2>2, SMT
<1>12. ASSUME NEW v \in Value, Exit(t, v)
       PROVE  SleepInv'
  BY <1>2, <1>3, <1>12, SMT DEF Exit, Asks, Calls
<1>13. ASSUME NEW p \in Child, Cancel(t, p)
       PROVE  SleepInv'
  <2>1. CASE Move(t, Place("cancel", p, Canceled))
    BY <1>2, <1>4, <1>13, <2>1, SMTT(30) DEF Cancel, Asks, Calls
  <2>2. CASE pc' = pc
    BY <1>2, <1>11, <1>13, <2>2 DEF Cancel, Asks, Calls
  <2> QED
    BY <1>13, <2>1, <2>2 DEF Cancel
<1>14. CASE Cancels(t)
  <2>1. PICK p : p = pc[t].of
    OBVIOUS
  <2> QED
    BY <1>3, <1>14, <2>1 DEF Cancels, Does
<1>15. CASE Disable(t)
  BY <1>2, <1>11, <1>15 DEF Disable, Asks, Calls
<1>16. CASE Enable(t)
  BY <1>2, <1>3, <1>11, <1>16 DEF Enable, Asks, Calls
<1>17. CASE Gone(t)
  <2>1. pc[t].at = "ended" /\ UNCHANGED <<sem, res, info>>
    BY <1>17 DEF Gone, Does
  <2>2. PICK k : Move(t, k) /\ k.at \in {"ended", "user"}
    <3>1. CASE pc[t].of = t
      <4>1. Move(t, pc[t])
        BY <1>0, <1>17, <3>1 DEF Gone, Move
      <4> QED
        BY <2>1, <4>1
    <3>2. CASE pc[t].of # t
      <4>1. Move(t, At("user"))
        BY <1>17, <3>2 DEF Gone, Goto, Move
      <4> QED
        BY <1>2, <4>1
    <3> QED
      BY <3>1, <3>2
  <2> QED
    BY <1>4, <2>1, <2>2, SMTT(30)
<1> QED
  BY <1>5, <1>6, <1>7, <1>8, <1>9, <1>10, <1>12, <1>13, <1>14, <1>15, <1>16, <1>17

\* pthread_completejoin() and pthread_notifywaiters().
LEMMA CompleteSleep ==
  ASSUME IInv, SleepInv, NEW t \in Thread,
         \/ CompleteNotFound(t) \/ CompleteNoWaiters(t) \/ CompleteWaiters(t)
         \/ Notify(t) \/ NotifyAgain(t) \/ Notified(t)
  PROVE  SleepInv'
<1> USE SemsDiffer
<1>0. TypeInv /\ pc = [u \in Thread |-> pc[u]] /\ info \in [Child -> InfoRecord] /\ sem \in [Sem -> SemRecord]
  BY DEF IInv, TypeInv
<1>1. ~broken /\ Runs(t) /\ pc[t].at \in {"end", "notify", "again", "told"}
  BY DEF CompleteNotFound, CompleteNoWaiters, CompleteWaiters, Notify, NotifyAgain, Notified, Does
<1>p. PICK p, v : p = pc[t].of /\ v = pc[t].val
  OBVIOUS
<1>2. /\ \A l : [pc[t] EXCEPT !.at = l] = Place(l, p, v) /\ Place(l, p, v).at = l /\ Place(l, p, v).of = p
      /\ pc[t].at \in {"notify", "again", "told"} => p \in Child
  <2>1. /\ \A l : [pc[t] EXCEPT !.at = l] = Place(l, p, v)
        /\ pc[t].at \in {"notify", "again", "told"} => p \in Child
    BY <1>0, <1>1, <1>p, AtPlace DEF ChildStep
  <2> QED
    BY <2>1, Places, SMT
<1>3. \A q \in Child : /\ CountOrQueue(sem[ExitSem(q)]) /\ sem[ExitSem(q)] \in SemRecord
                       /\ Cardinality(sem[ExitSem(q)].q) \in Nat
                       /\ Cardinality(sem[ExitSem(q)].q) = 0 <=> sem[ExitSem(q)].q = {}
  <2>1. \A q \in Child : CountOrQueue(sem[ExitSem(q)]) /\ IsFiniteSet(sem[ExitSem(q)].q)
    BY <1>1 DEF SleepInv, CountOrQueue
  <2> QED
    BY <1>0, <2>1, FS_CardinalityType, FS_EmptySet
<1>4. \A q \in Child : Semcount(sem[ExitSem(q)]) >= 0 => sem[ExitSem(q)].q = {}
  BY <1>3, SMT DEF Semcount, CountOrQueue, SemRecord
\* The others who notify are about other pthreads.
<1>5. ASSUME NEW q \in Child, q # p, info[q].terminated, sem[ExitSem(q)].q # {}, \A u \in Thread : u # t => pc'[u] = pc[u]
      PROVE  \E u \in Thread : pc'[u].at \in {"notify", "again"} /\ pc'[u].of = q
  <2>1. PICK u \in Thread : pc[u].at \in {"notify", "again"} /\ pc[u].of = q
    BY <1>1, <1>5 DEF SleepInv, NoJoinerForgotten
  <2> QED
    BY <1>p, <1>5, <2>1
<1>6. CASE CompleteNotFound(t) \/ Notified(t)
  <2>1. Move(t, Place("ended", p, v)) /\ Give(JoinSem) /\ info' = info /\ pc[t].at \in {"end", "told"}
    BY <1>2, <1>6 DEF CompleteNotFound, Notified, Does
  <2> QED
    BY <1>1, <1>2, <2>1, SleepQuiet, SMT
<1>7. CASE CompleteNoWaiters(t) \/ CompleteWaiters(t)
  <2>1. PICK l \in {"ended", "notify"} : Move(t, Place(l, p, v)) /\ (CompleteWaiters(t) => l = "notify")
    BY <1>2, <1>7 DEF CompleteNoWaiters, CompleteWaiters
  <2>2. p \in Child /\ res' = res /\ (CompleteNoWaiters(t) => Semcount(sem[ExitSem(p)]) >= 0)
    BY <1>p, <1>7 DEF CompleteNoWaiters, CompleteWaiters, Found, Give, SemPost
  <2>3. \A q \in Child : sem'[ExitSem(q)] = sem[ExitSem(q)]
    <3>1. CASE CompleteNoWaiters(t)
      BY <1>0, <3>1, SemPostEffect DEF CompleteNoWaiters, Give
    <3>2. CASE CompleteWaiters(t)
      <4>1. PICK n : sem' = [sem EXCEPT ![DataSem(p)] = [sem[DataSem(p)] EXCEPT !.cnt = n]]
        BY <1>p, <3>2 DEF CompleteWaiters
      <4> QED
        BY <1>0, <2>2, <4>1
    <3> QED
      BY <1>7, <3>1, <3>2
  <2>4. \E x : info' = [info EXCEPT ![p] = x]
    BY <1>p, <1>7 DEF CompleteNoWaiters, CompleteWaiters
  <2>5. \A q \in Child : q # p => info'[q] = info[q]
    BY <1>0, <2>4
  <2>6. pc'[t] = Place(l, p, v) /\ \A u \in Thread : u # t => pc'[u] = pc[u]
    BY <1>0, <2>1 DEF Move
  <2>7. ASSUME NEW q \in Child, info'[q].terminated, sem'[ExitSem(q)].q # {}
        PROVE  \E u \in Thread : pc'[u].at \in {"notify", "again"} /\ pc'[u].of = q
    <3>1. CASE q # p
      BY <1>5, <2>3, <2>5, <2>6, <2>7, <3>1
    <3>2. CASE q = p
      <4>1. CompleteWaiters(t)
        BY <1>4, <1>7, <2>2, <2>3, <2>7, <3>2
      <4> QED
        BY <1>2, <2>1, <2>6, <3>2, <4>1, SMT
    <3> QED
      BY <3>1, <3>2
  <2>8. Place(l, p, v).at = l /\ \A q \in Child : CountOrQueue(sem'[ExitSem(q)])
    BY <1>2, <1>3, <2>3
  <2> QED
    BY <1>1, <2>1, <2>2, <2>7, <2>8, SleepStep
<1>8. ASSUME NEW k, k.at = "again", k.of = p, Move(t, k), Give(ExitSem(p)), info' = info, p \in Child
      PROVE  SleepInv'
  <2>1. /\ \A r \in Sem : r # ExitSem(p) => sem'[r] = sem[r]
        /\ \/ sem[ExitSem(p)].q = {} /\ sem'[ExitSem(p)].q = {}
           \/ \E w \in sem[ExitSem(p)].q : /\ sem'[ExitSem(p)].cnt = sem[ExitSem(p)].cnt
                                           /\ sem'[ExitSem(p)].q = sem[ExitSem(p)].q \ {w}
        /\ res' = res
    BY <1>0, <1>8, SemPostEffect DEF Give
  <2>2. CountOrQueue(sem'[ExitSem(p)])
    <3>1. CASE sem'[ExitSem(p)].q = {}
      BY <3>1, FS_EmptySet DEF CountOrQueue
    <3>2. ASSUME NEW w \in sem[ExitSem(p)].q, sem'[ExitSem(p)].cnt = sem[ExitSem(p)].cnt,
                 sem'[ExitSem(p)].q = sem[ExitSem(p)].q \ {w}
          PROVE  CountOrQueue(sem'[ExitSem(p)])
      <4>1. IsFiniteSet(sem[ExitSem(p)].q) /\ ~(sem[ExitSem(p)].cnt > 0)
        BY <1>3, <1>8, <3>2 DEF CountOrQueue
      <4>2. IsFiniteSet(sem[ExitSem(p)].q \ {w})
        BY <4>1, FS_RemoveElement
      <4> QED
        BY <3>2, <4>1, <4>2 DEF CountOrQueue
    <3> QED
      BY <2>1, <3>1, <3>2
  <2>3. \A q \in Child : q # p => sem'[ExitSem(q)] = sem[ExitSem(q)]
    BY <2>1, <1>8
  <2>4. pc'[t] = k /\ \A u \in Thread : u # t => pc'[u] = pc[u]
    BY <1>0, <1>8 DEF Move
  <2>5. ASSUME NEW q \in Child, info'[q].terminated, sem'[ExitSem(q)].q # {}
        PROVE  \E u \in Thread : pc'[u].at \in {"notify", "again"} /\ pc'[u].of = q
    <3>1. CASE q # p
      BY <1>5, <1>8, <2>3, <2>4, <2>5, <3>1
    <3>2. CASE q = p
      BY <1>8, <2>4, <3>2
    <3> QED
      BY <3>1, <3>2
  <2>6. \A q \in Child : CountOrQueue(sem'[ExitSem(q)])
    BY <1>3, <2>2, <2>3
  <2> QED
    BY <1>1, <1>8, <2>1, <2>5, <2>6, SleepStep
<1>9. CASE Notify(t)
  <2>1. Move(t, Place("again", p, v)) /\ Give(ExitSem(p)) /\ info' = info /\ pc[t].at = "notify"
    BY <1>p, <1>2, <1>9 DEF Notify, Does
  <2> QED
    BY <1>2, <1>8, <2>1
<1>10. CASE NotifyAgain(t) /\ Semcount(sem[ExitSem(p)]) < 0
  <2>1. pc' = pc /\ Give(ExitSem(p)) /\ info' = info /\ pc[t].at = "again"
    BY <1>p, <1>10 DEF NotifyAgain, Does
  <2>2. PICK k : k = pc[t]
    OBVIOUS
  <2>3. Move(t, k)
    BY <1>0, <2>1, <2>2 DEF Move
  <2> QED
    BY <1>p, <1>2, <1>8, <2>1, <2>2, <2>3
<1>11. CASE NotifyAgain(t) /\ ~(Semcount(sem[ExitSem(p)]) < 0)
  <2>1. Take(t, DataSem(p), Place("told", p, v)) /\ info' = info /\ pc[t].at = "again" /\ p \in Child
    BY <1>p, <1>2, <1>11 DEF NotifyAgain, Does
  <2>2. sem[ExitSem(p)].q = {}
    <3>1. Semcount(sem[ExitSem(p)]) \in Int
      BY <1>3, <2>1, SMT DEF Semcount, SemRecord
    <3> QED
      BY <1>4, <1>11, <2>1, <3>1, SMT
  <2>3. PICK n : Move(t, n) /\ n.at # "sleep" /\ ~(n.at = "take" /\ n.then.at = "woken")
    <3>1. Move(t, Place("told", p, v)) \/ Move(t, WaitAt(DataSem(p), Place("told", p, v)))
      BY <2>1 DEF Take, Move, WaitAt
    <3>2. \A s, k : WaitAt(s, k).then = k /\ WaitAt(s, k).at = "take"
      BY DEF WaitAt
    <3>3. CASE Move(t, Place("told", p, v))
      BY <1>2, <3>3
    <3>4. CASE Move(t, WaitAt(DataSem(p), Place("told", p, v)))
      BY <1>2, <3>2, <3>4, SMT
    <3> QED
      BY <3>1, <3>3, <3>4
  <2>4. /\ \A q \in Child : sem'[ExitSem(q)] = sem[ExitSem(q)]
        /\ \A u \in Thread : u # t => res'[u] = res[u]
    BY <1>0, <2>1, SemWaitEffect, SMT DEF Take, TypeInv
  <2>5. \A u \in Thread : u # t => pc'[u] = pc[u]
    BY <1>0, <2>3 DEF Move
  <2>6. ASSUME NEW q \in Child, info'[q].terminated, sem'[ExitSem(q)].q # {}
        PROVE  \E u \in Thread : pc'[u].at \in {"notify", "again"} /\ pc'[u].of = q
    BY <1>5, <2>1, <2>2, <2>4, <2>5, <2>6
  <2>7. \A q \in Child : CountOrQueue(sem'[ExitSem(q)])
    BY <1>3, <2>4
  <2> QED
    BY <1>1, <2>3, <2>4, <2>6, <2>7, SleepStep
<1> QED
  BY <1>6, <1>7, <1>9, <1>10, <1>11

\* pthread_join() and pthread_detach().
LEMMA JoinSleep ==
  ASSUME IInv, SleepInv, NEW t \in Thread,
         \/ \E p \in Child : Join(t, p) \/ Detach(t, p)
         \/ JoinNotFound(t) \/ JoinTerminated(t) \/ JoinRunning(t) \/ JoinSleeps(t)
         \/ JoinWoken(t) \/ JoinRetakes(t) \/ JoinUnlocks(t) \/ JoinDrops(t) \/ Detaches(t)
  PROVE  SleepInv'
<1> USE SemsDiffer
<1>0. TypeInv /\ pc = [u \in Thread |-> pc[u]] /\ info \in [Child -> InfoRecord] /\ sem \in [Sem -> SemRecord]
      /\ lock \in [Thread -> Nat] /\ res \in [Thread -> {"OK", "EINTR"}]
  BY DEF IInv, TypeInv
<1>1. ~broken /\ Runs(t)
  BY DEF Join, Detach, JoinNotFound, JoinTerminated, JoinRunning, JoinSleeps, JoinWoken, JoinRetakes,
         JoinUnlocks, JoinDrops, Detaches, Does, Asks, Calls
<1>2. (\A l : At(l).at = l) /\ \A l, p, v : Place(l, p, v).at = l /\ Place(l, p, v).of = p
  BY Places, SMT
<1>3. ASSUME NEW p \in Child, Join(t, p) \/ Detach(t, p)
      PROVE  SleepInv'
  <2>1. PICK l \in {"join", "detach"} : Take(t, JoinSem, Place(l, p, Canceled)) /\ info' = info /\ pc[t].at = "user"
    BY <1>2, <1>3 DEF Join, Detach, Asks, Calls
  <2> QED
    BY <1>1, <1>2, <2>1, SleepQuiet
<1>4. SUFFICES ASSUME \/ JoinNotFound(t) \/ JoinTerminated(t) \/ JoinRunning(t) \/ JoinSleeps(t)
                      \/ JoinWoken(t) \/ JoinRetakes(t) \/ JoinUnlocks(t) \/ JoinDrops(t) \/ Detaches(t)
               PROVE  SleepInv'
  BY <1>3
<1>p. PICK p, v : p = pc[t].of /\ v = pc[t].val
  OBVIOUS
<1>5. pc[t].at \in {"join", "detach"} \cup JoinerStep
  BY <1>4 DEF JoinNotFound, JoinTerminated, JoinRunning, JoinSleeps, JoinWoken, JoinRetakes,
           JoinUnlocks, JoinDrops, Detaches, Does, JoinerStep
<1>6. /\ p \in Child
      /\ \A l : [pc[t] EXCEPT !.at = l] = Place(l, p, v)
  <2>1. pc[t].at \in ChildStep
    BY <1>5 DEF JoinerStep, ChildStep
  <2> QED
    BY <1>0, <1>p, <2>1, AtPlace
<1>7. pc[t].at \notin {"notify", "again"}
  BY <1>5 DEF JoinerStep
<1>8. CASE JoinNotFound(t) \/ JoinDrops(t) \/ Detaches(t)
  <2>1. Move(t, At("user")) /\ Give(JoinSem)
    BY <1>8 DEF JoinNotFound, JoinDrops, Detaches, Goto, Move
  <2>2. \A q \in Child : info'[q].terminated = info[q].terminated
    <3>1. info[p] \in InfoRecord
      BY <1>0, <1>6
    <3>2. \/ info' = info
          \/ \E x : info' = [info EXCEPT ![p] = x] /\ x.terminated = info[p].terminated
      <4>1. CASE JoinNotFound(t)
        BY <4>1 DEF JoinNotFound
      <4>2. CASE JoinDrops(t)
        <5>1. \/ info' = [info EXCEPT ![p] = [info[p] EXCEPT !.crefs = 0, !.mem = "freed", !.listed = FALSE]]
              \/ info' = [info EXCEPT ![p] = [info[p] EXCEPT !.crefs = @ - 1]]
          BY <1>0, <1>6, <1>p, <4>2 DEF JoinDrops
        <5>2. /\ [info[p] EXCEPT !.crefs = 0, !.mem = "freed", !.listed = FALSE].terminated = info[p].terminated
              /\ [info[p] EXCEPT !.crefs = @ - 1].terminated = info[p].terminated
          BY <3>1 DEF InfoRecord
        <5> QED
          BY <5>1, <5>2
      <4>3. CASE Detaches(t)
        <5>1. \/ info' = info
              \/ info' = [info EXCEPT ![p] = [info[p] EXCEPT !.mem = "freed", !.listed = FALSE]]
              \/ info' = [info EXCEPT ![p] = [info[p] EXCEPT !.detached = TRUE]]
          BY <1>0, <1>6, <1>p, <4>3 DEF Detaches, Destroy
        <5>2. /\ [info[p] EXCEPT !.mem = "freed", !.listed = FALSE].terminated = info[p].terminated
              /\ [info[p] EXCEPT !.detached = TRUE].terminated = info[p].terminated
          BY <3>1 DEF InfoRecord
        <5> QED
          BY <5>1, <5>2
      <4> QED
        BY <1>8, <4>1, <4>2, <4>3
    <3> QED
      BY <1>0, <1>6, <3>2
  <2> QED
    BY <1>1, <1>2, <1>7, <2>1, <2>2, SleepQuiet, SMTT(30)
<1>9. ASSUME JoinTerminated(t) \/ JoinRunning(t)
      PROVE  \A q \in Child : info'[q].terminated = info[q].terminated
  <2>1. info' = [info EXCEPT ![p] = [info[p] EXCEPT !.crefs = @ + 1]]
    BY <1>0, <1>6, <1>p, <1>9 DEF JoinTerminated, JoinRunning
  <2> QED
    BY <1>0, <1>6, <2>1, SMT DEF InfoRecord
<1>10. CASE JoinTerminated(t)
  <2>1. Move(t, Place("drop", p, v)) /\ sem' = sem /\ res' = res
    BY <1>6, <1>10 DEF JoinTerminated
  <2> QED
    BY <1>1, <1>2, <1>7, <1>9, <1>10, <2>1, SleepQuiet, SMTT(30)
<1>11. CASE JoinWoken(t)
  <2>1. Move(t, Place("retake", p, v)) /\ Give(DataSem(p)) /\ info' = info
    BY <1>6, <1>p, <1>11 DEF JoinWoken
  <2> QED
    BY <1>1, <1>2, <1>6, <1>7, <2>1, SleepQuiet, SMT
<1>12. CASE JoinRetakes(t)
  <2>1. Take(t, JoinSem, Place("unlock", p, v)) /\ info' = info
    BY <1>6, <1>12 DEF JoinRetakes
  <2> QED
    BY <1>1, <1>2, <1>7, <2>1, SleepQuiet, SMT
<1>13. CASE JoinUnlocks(t)
  <2>1. Move(t, Place("drop", p, v)) /\ info' = info /\ sem' = sem /\ res' = res
    BY <1>6, <1>13 DEF JoinUnlocks
  <2> QED
    BY <1>1, <1>2, <1>7, <2>1, SleepQuiet, SMT
\* Where the waits of the others stand.
<1>14. ASSUME NEW q \in Child, info[q].terminated, sem[ExitSem(q)].q # {}, \A u \in Thread : u # t => pc'[u] = pc[u]
       PROVE  \E u \in Thread : pc'[u].at \in {"notify", "again"} /\ pc'[u].of = q
  <2>1. PICK u \in Thread : pc[u].at \in {"notify", "again"} /\ pc[u].of = q
    BY <1>1, <1>14 DEF SleepInv, NoJoinerForgotten
  <2> QED
    BY <1>7, <1>14, <2>1
<1>15. \A q \in Child : CountOrQueue(sem[ExitSem(q)])
  BY <1>1 DEF SleepInv
<1>16. CASE JoinRunning(t)
  <2>1. /\ Move(t, Place("sleep", p, v)) /\ Give(JoinSem) /\ ~info[p].terminated
        /\ cpu' = t /\ lock' = [lock EXCEPT ![t] = lock[t] + 1]
    BY <1>6, <1>p, <1>16 DEF JoinRunning, sched_lock
  <2>2. lock'[t] > 0 /\ ~info'[p].terminated
    BY <1>0, <1>6, <1>9, <1>16, <2>1, SMT
  <2>3. (\A q \in Child : sem'[ExitSem(q)] = sem[ExitSem(q)]) /\ res' = res
    BY <1>0, <2>1, SemPostEffect DEF Give
  <2>4. \A u \in Thread : u # t => pc'[u] = pc[u]
    BY <1>0, <2>1 DEF Move
  <2>5. ASSUME NEW q \in Child, info'[q].terminated, sem'[ExitSem(q)].q # {}
        PROVE  \E u \in Thread : pc'[u].at \in {"notify", "again"} /\ pc'[u].of = q
    BY <1>9, <1>14, <1>16, <2>3, <2>4, <2>5
  <2>6. PICK n : n = Place("sleep", p, v)
    OBVIOUS
  <2>7. n.at = "sleep" /\ n.of = p /\ Move(t, n)
    BY <1>2, <2>1, <2>6, SMTT(30)
  <2>8. \A q \in Child : CountOrQueue(sem'[ExitSem(q)])
    BY <1>15, <2>3
  <2> QED
    BY <1>1, <2>1, <2>2, <2>3, <2>5, <2>7, <2>8, SleepStep
<1>17. CASE JoinSleeps(t)
  <2>1. Take(t, ExitSem(p), Place("woken", p, v)) /\ info' = info /\ ~info[p].terminated
    BY <1>1, <1>6, <1>p, <1>17 DEF JoinSleeps, Does, SleepInv
  <2>2. ~(sem[ExitSem(p)].cnt > 0)
    BY <1>6, <2>1 DEF IInv, EndInv
  <2>3. /\ \A r \in Sem : r # ExitSem(p) => sem'[r] = sem[r]
        /\ sem'[ExitSem(p)].cnt = sem[ExitSem(p)].cnt /\ sem'[ExitSem(p)].q = sem[ExitSem(p)].q \cup {t}
        /\ res'[t] = "OK" /\ \A u \in Thread : u # t => res'[u] = res[u]
    BY <1>0, <1>6, <2>1, <2>2, SemWaitEffect DEF Take
  <2>4. PICK n : Move(t, n) /\ n.at = "take"
    <3>1. Move(t, WaitAt(ExitSem(p), Place("woken", p, v)))
      BY <2>1, <2>2 DEF Take, Move, WaitAt
    <3>2. WaitAt(ExitSem(p), Place("woken", p, v)).at = "take"
      BY DEF WaitAt
    <3> QED
      BY <3>1, <3>2
  <2>5. \A q \in Child : q # p => sem'[ExitSem(q)] = sem[ExitSem(q)]
    BY <1>6, <2>3
  <2>6. CountOrQueue(sem'[ExitSem(p)])
    <3>1. IsFiniteSet(sem[ExitSem(p)].q)
      BY <1>6, <1>15 DEF CountOrQueue
    <3>2. IsFiniteSet(sem[ExitSem(p)].q \cup {t})
      BY <3>1, FS_AddElement
    <3> QED
      BY <2>2, <2>3, <3>2 DEF CountOrQueue
  <2>7. \A q \in Child : CountOrQueue(sem'[ExitSem(q)])
    BY <1>15, <2>5, <2>6
  <2>8. \A u \in Thread : u # t => pc'[u] = pc[u]
    BY <1>0, <2>4 DEF Move
  <2>9. ASSUME NEW q \in Child, info'[q].terminated, sem'[ExitSem(q)].q # {}
        PROVE  \E u \in Thread : pc'[u].at \in {"notify", "again"} /\ pc'[u].of = q
    BY <1>14, <2>1, <2>5, <2>8, <2>9
  <2> QED
    BY <1>1, <2>3, <2>4, <2>7, <2>9, SleepStep
<1> QED
  BY <1>4, <1>8, <1>10, <1>11, <1>12, <1>13, <1>16, <1>17

\* The steps that follow a wait for data_sem or exit_sem are about a pthread.
LEMMA StepOf ==
  ASSUME NEW t \in Thread, NEW k, Step(t, k), k.at \in {"created", "told", "woken"}
  PROVE  k.of \in Child
<1>1. k # At("user") /\ \A l \in {"start", "add", "started"} : k # At(l)
  BY Places, SMT
<1> QED
  BY <1>1 DEF Step

\* Only the wait before "woken" is one for exit_sem.
LEMMA NoExitWait ==
  ASSUME NEW t \in Thread, NEW k, Step(t, k), NEW s, AwaitsFor(s, k), k.at # "woken", NEW p \in Child
  PROVE  s # ExitSem(p)
<1>1. CASE s = JoinSem
  BY <1>1, SemsDiffer
<1>2. CASE s = DataSem(k.of) /\ k.at \in {"created", "told"}
  <2>1. PICK c \in Child : c = k.of
    BY <1>2, StepOf
  <2>2. s = DataSem(c)
    BY <1>2, <2>1
  <2> QED
    BY <2>2, SemsDiffer
<1> QED
  BY <1>1, <1>2 DEF AwaitsFor

\* The end of a wait.
LEMMA RetrySleep ==
  ASSUME IInv, SleepInv, NEW t \in Thread, WaitEnds(t)
  PROVE  SleepInv'
<1>0. /\ sem \in [Sem -> SemRecord] /\ pc = [u \in Thread |-> pc[u]] /\ TypeInv
      /\ ~broken /\ Runs(t) /\ pc[t].at = "take" /\ info' = info
  BY DEF IInv, TypeInv, WaitEnds, Retry
<1>1. PICK k, s : k = pc[t].then /\ s = pc[t].sem
  OBVIOUS
<1>2. s \in Sem /\ Step(t, k) /\ AwaitsFor(s, k)
  BY <1>0, <1>1, TakePlace
<1>3. k.at # "take" /\ k.at # "sleep"
  BY <1>2, StepPlain DEF AwaitsFor
<1>4. \/ res[t] = "OK" /\ Move(t, k) /\ sem' = sem /\ res' = res
      \/ res[t] = "EINTR" /\ Take(t, s, k)
  BY <1>1 DEF WaitEnds, Retry, Move
<1>5. CASE k.at = "woken"
  <2>1. res[t] = "OK"
    BY <1>0, <1>1, <1>5 DEF SleepInv
  <2>2. Move(t, k) /\ sem' = sem /\ res' = res
    BY <1>4, <2>1
  <2>3. \A p \in Child : CountOrQueue(sem'[ExitSem(p)])
    BY <1>0, <2>2 DEF SleepInv
  <2>4. \A u \in Thread : u # t => pc'[u] = pc[u]
    BY <1>0, <2>2 DEF Move
  <2>5. ASSUME NEW p \in Child, info'[p].terminated, sem'[ExitSem(p)].q # {}
        PROVE  \E u \in Thread : pc'[u].at \in {"notify", "again"} /\ pc'[u].of = p
    <3>1. PICK u \in Thread : pc[u].at \in {"notify", "again"} /\ pc[u].of = p
      BY <1>0, <2>2, <2>5 DEF SleepInv, NoJoinerForgotten
    <3> QED
      BY <1>0, <2>4, <3>1
  <2> QED
    BY <1>0, <1>5, <2>2, <2>3, <2>5, SleepStep
<1>6. CASE k.at # "woken"
  <2>1. \A p \in Child : s # ExitSem(p)
    BY <1>2, <1>6, NoExitWait
  <2>2. \/ Move(t, k) /\ res' = res /\ \A p \in Child : sem'[ExitSem(p)] = sem[ExitSem(p)]
        \/ Take(t, s, k)
    BY <1>4
  <2> QED
    BY <1>0, <1>2, <1>3, <1>6, <2>1, <2>2, SleepQuiet
<1> QED
  BY <1>5, <1>6

\* A signal, when no wait for exit_sem is one that a signal ends.
LEMMA SignalSleep ==
  ASSUME IInv, SleepInv, NEW t \in Thread, Signal(t), \A p \in Child : ExitSem(p) \notin Interruptible
  PROVE  SleepInv'
<1>0. /\ sem \in [Sem -> SemRecord] /\ res \in [Thread -> {"OK", "EINTR"}] /\ TypeInv
      /\ ~broken /\ pc[t].at = "take" /\ pc[t].sem \in Interruptible
      /\ info' = info /\ pc' = pc /\ (cpu # t => cpu' = cpu) /\ lock' = lock /\ SemEnd(t, "EINTR")
  BY DEF IInv, TypeInv, Signal, Interrupted
<1>1. PICK k, s : k = pc[t].then /\ s = pc[t].sem
  OBVIOUS
<1>2. s \in Sem /\ AwaitsFor(s, k) /\ Step(t, k)
  BY <1>0, <1>1, TakePlace
<1>3. k.at # "woken" /\ \A p \in Child : s # ExitSem(p)
  <2>1. k.at = "woken" => s = ExitSem(k.of) /\ k.of \in Child
    BY <1>2, StepOf DEF AwaitsFor
  <2>2. k.at # "woken"
    BY <1>0, <1>1, <2>1
  <2> QED
    BY <1>2, <2>2, NoExitWait
<1>4. (\A p \in Child : t \notin sem[ExitSem(p)].q)
  BY <1>1, <1>3, SemsDiffer DEF IInv, QueueInv
<1>5. (\A p \in Child : sem'[ExitSem(p)] = sem[ExitSem(p)]) /\ \A u \in Thread : u # t => res'[u] = res[u]
  BY <1>0, <1>4, SemEndEffect, SemsDiffer, SMT
<1>6. \A p \in Child : CountOrQueue(sem'[ExitSem(p)])
  BY <1>0, <1>5 DEF SleepInv
<1>7. NoJoinerForgotten'
  BY <1>0, <1>5, SMT DEF SleepInv, NoJoinerForgotten
<1>8. \A u \in Thread : pc'[u].at = "take" /\ pc'[u].then.at = "woken" => res'[u] = "OK"
  BY <1>0, <1>1, <1>3, <1>5 DEF SleepInv
<1>9. \A u \in Thread : pc'[u].at = "sleep" => cpu' = u /\ lock'[u] > 0 /\ ~info'[pc'[u].of].terminated
  BY <1>0 DEF SleepInv
<1> QED
  BY <1>6, <1>7, <1>8, <1>9 DEF SleepInv

\* Where no signal ends a wait for exit_sem, a joiner that waits for the exit
\* of a terminated pthread is one that pthread_notifywaiters() will still wake.
THEOREM NoJoinerIsForgotten ==
  ASSUME \A p \in Child : ExitSem(p) \notin Interruptible
  PROVE  Spec => []NoJoinerForgotten
<1>1. Init => SleepInv
  <2> SUFFICES ASSUME Init PROVE SleepInv
    OBVIOUS
  <2>1. \A t \in Thread : pc[t].at \in {"start", "user"}
    BY Places DEF Init
  <2>2. \A p \in Child : ~info[p].terminated
    BY DEF Init, NoInfo
  <2>3. \A p \in Child : sem[ExitSem(p)].q = {}
    BY SemsDiffer DEF Init, SemInit
  <2>4. \A p \in Child : CountOrQueue(sem[ExitSem(p)])
    BY <2>3, FS_EmptySet DEF CountOrQueue
  <2>5. NoJoinerForgotten
    BY <2>2 DEF NoJoinerForgotten
  <2> QED
    BY <2>1, <2>4, <2>5 DEF SleepInv
<1>2. IInv /\ SleepInv /\ [Next]_vars => SleepInv'
  <2> SUFFICES ASSUME IInv, SleepInv, [Next]_vars PROVE SleepInv'
    OBVIOUS
  <2>1. CASE UNCHANGED vars
    <3>1. sem' = sem /\ res' = res /\ cpu' = cpu /\ lock' = lock /\ pc' = pc /\ info' = info /\ broken' = broken
      BY <2>1 DEF vars, threadvars
    <3>2. NoJoinerForgotten' = NoJoinerForgotten
      BY <3>1 DEF NoJoinerForgotten
    <3> QED
      BY <3>1, <3>2 DEF SleepInv
  <2> QED
    BY <2>1, LifeSleep, CompleteSleep, JoinSleep, RetrySleep, SignalSleep DEF Next
<1>3. SleepInv => NoJoinerForgotten
  BY DEF SleepInv, NoJoinerForgotten
<1> QED
  BY <1>1, <1>2, <1>3, Invariance, PTL DEF Spec

=============================================================================
