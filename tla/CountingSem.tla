---------------------------- MODULE CountingSem ----------------------------
(***************************************************************************)
(* What the semaphores promise to their users (sched/sem_*.c): a semaphore *)
(* has counts to give or threads that wait, a post hands its count to one  *)
(* of them, and a wait that a signal or a timeout ends takes none.         *)
(* Semaphore implements this specification; the modules of the services    *)
(* that are built on semaphores use its operators.                         *)
(*                                                                         *)
(*   sem   of every semaphore, the counts that it can give and the threads *)
(*         that wait; semcount is the difference                           *)
(*   res   how the last wait of every thread ended                         *)
(***************************************************************************)
EXTENDS Integers, FiniteSets

CONSTANTS Thread, Sem

VARIABLES sem, res

SemRecord == [cnt : Nat, q : SUBSET Thread]
SemInit(v) == [cnt |-> v, q |-> {}]
Semcount(x) == x.cnt - Cardinality(x.q)

\* sem_wait(): t takes a count or waits.
Taken(x) == [x EXCEPT !.cnt = @ - 1]
Queued(x, t) == [x EXCEPT !.q = @ \cup {t}]
Waited(x, t) == IF x.cnt > 0 THEN Taken(x) ELSE Queued(x, t)

\* sem_post(): any of the waiting threads may have the highest priority.
Posted(x) ==
  IF x.q = {} THEN {[x EXCEPT !.cnt = @ + 1]}
              ELSE {[x EXCEPT !.q = @ \ {w}] : w \in x.q}

\* sem_destroy() resets a semaphore that nobody waits for.
Destroyed(x) == IF x.q = {} THEN [x EXCEPT !.cnt = 1] ELSE x

Blocked(t) == \E s \in Sem : t \in sem[s].q

SemWait(t, s) ==
  /\ sem' = [sem EXCEPT ![s] = Waited(@, t)]
  /\ res' = [res EXCEPT ![t] = "OK"]

SemPost(s) ==
  /\ \E x \in Posted(sem[s]) : sem' = [sem EXCEPT ![s] = x]
  /\ UNCHANGED res

\* A signal or a timeout ends the wait of t.
SemEnd(t, err) ==
  /\ \E s \in Sem : /\ t \in sem[s].q
                    /\ sem' = [sem EXCEPT ![s].q = @ \ {t}]
  /\ res' = [res EXCEPT ![t] = err]

SemStart == /\ sem \in [Sem -> SemRecord] /\ \A s \in Sem : sem[s].q = {}
            /\ res = [t \in Thread |-> "OK"]
SemStep ==
  \/ \E t \in Thread, s \in Sem : ~Blocked(t) /\ SemWait(t, s)
  \/ \E s \in Sem : SemPost(s)
  \/ \E t \in Thread, err \in {"EINTR", "ETIMEDOUT"} : SemEnd(t, err)

SemSpec == SemStart /\ [][SemStep]_<<sem, res>>
=============================================================================
