----------------------------- MODULE SemHolder -----------------------------
(***************************************************************************)
(* Priority inheritance (sched/sem_holder.c) as operators on a record g:   *)
(*                                                                         *)
(*   k        the task lists and TCBs, see TaskLists                       *)
(*   base     base_priority of every TCB                                   *)
(*   reprios  pend_reprios[0 .. npend_reprio-1] of every TCB               *)
(*   hlist    the holder list of every semaphore; the first entry is the   *)
(*            one inside the semaphore, the others come from a common pool *)
(*   nfree    the entries left in that pool (g_freeholders)                *)
(*   overrun  pend_reprios was written beyond its end                      *)
(*                                                                         *)
(* No task is deleted while it is in a holder list, so that                *)
(* sched_verifytcb() of a holder is true.                                  *)
(***************************************************************************)
EXTENDS TaskLists

CONSTANTS Sem,
          NULL,
          PREALLOCHOLDERS,  \* CONFIG_SEM_PREALLOCHOLDERS
          NNESTPRIO         \* CONFIG_SEM_NNESTPRIO

ASSUME HolderAssumption == /\ NULL \notin Task /\ NULL \notin Sem
                           /\ PREALLOCHOLDERS \in Nat /\ NNESTPRIO \in Nat

Entry == [holder : Task \cup {NULL}, counts : Nat]
NoEntry == [holder |-> NULL, counts |-> 0]

sem_findholder(h, t) == SelectInSeq(h, LAMBDA e : e.holder = t)

\* The running task has got a count: it is entered in the holder list, if
\* there is an entry to be had.
sem_addholder(g, s) ==
  LET t == Running(g.k)
      h == g.hlist[s]
      i == sem_findholder(h, t)
      e == [holder |-> t, counts |-> 1]
  IN  IF i # 0 THEN [g EXCEPT !.hlist[s][i].counts = @ + 1]
      ELSE IF h[1].holder = NULL THEN [g EXCEPT !.hlist[s][1] = e]
      ELSE IF g.nfree > 0
      THEN [g EXCEPT !.hlist[s] = <<h[1], e>> \o Tail(h), !.nfree = @ - 1]
      ELSE g

\* The running task gives a count back; its entry stays.
sem_releaseholder(g, s) ==
  LET i == sem_findholder(g.hlist[s], Running(g.k))
  IN  IF i # 0 /\ g.hlist[s][i].counts > 0
      THEN [g EXCEPT !.hlist[s][i].counts = @ - 1]
      ELSE g

sem_freeholder(g, s, i) ==
  IF i = 1 THEN [g EXCEPT !.hlist[s][1] = NoEntry]
           ELSE [g EXCEPT !.hlist[s] = RemoveAt(@, i), !.nfree = @ + 1]

\* The tasks that sem_foreachholder visits, in its order.
Holders(g, s) ==
  LET h == SelectSeq(g.hlist[s], LAMBDA e : e.holder # NULL)
  IN  [i \in 1..Len(h) |-> h[i].holder]

SetPriority(g, t, p) == [g EXCEPT !.k = sched_setpriority(@, t, p)]

\* pend_reprios[npend_reprio++] = p.
PushReprio(g, h, p) ==
  [g EXCEPT !.reprios[h] = Append(@, p),
            !.overrun = @ \/ Len(g.reprios[h]) >= NNESTPRIO]

\* Holder h gets the priority p of a task that is about to wait.
sem_boostholderprio(g, h, p) ==
  LET boosted == g.k.prio[h] > g.base[h]
      room == Len(g.reprios[h]) < NNESTPRIO
  IN  IF p > g.k.prio[h]
      THEN SetPriority(IF boosted /\ room THEN PushReprio(g, h, g.k.prio[h]) ELSE g, h, p)
      ELSE IF NNESTPRIO > 0 /\ p > g.base[h] THEN PushReprio(g, h, p)
      ELSE g

sem_boostpriority(g, s) ==
  LET p == g.k.prio[Running(g.k)]
  IN  FoldLeft(LAMBDA gg, h : sem_boostholderprio(gg, h, p), g, Holders(g, s))

\* Entry j is overwritten by the last one.
DropReprio(g, h, j) ==
  LET r == g.reprios[h]
  IN  [g EXCEPT !.reprios[h] = SubSeq([r EXCEPT ![j] = r[Len(r)]], 1, Len(r) - 1)]

\* The wait of st is over, and holder h no longer needs its priority.
sem_restoreholderprio(g, h, st) ==
  LET r == g.reprios[h]
      p == g.k.prio[st]
      j == CHOOSE i \in 1..Len(r) : /\ \A n \in 1..Len(r) : r[n] <= r[i]
                                    /\ \A n \in 1..(i-1) : r[n] < r[i]
      match == SelectInSeq(r, LAMBDA x : x = p)
  IN  IF g.k.prio[h] = g.base[h] THEN g
      ELSE IF r = << >> \/ g.k.prio[h] <= p
      THEN SetPriority(IF r = << >> THEN g ELSE DropReprio(g, h, j), h,
                       IF r = << >> THEN g.base[h] ELSE r[j])
      ELSE IF match # 0 THEN DropReprio(g, h, match)
      ELSE g

\* sched_reprioritize() to the base priority is used when pend_reprios is
\* empty, and clears it once more after the switch that it may cause.
Reprioritizes(g, h) == g.k.prio[h] # g.base[h] /\ g.reprios[h] = << >>
ClearReprios(g, h) == [g EXCEPT !.reprios[h] = << >>]

RestoreAll(g, hs, st) ==
  FoldLeft(LAMBDA gg, h : sem_restoreholderprio(gg, h, st), g, hs)
=============================================================================
