-------------------------- MODULE TaskListsProofs ---------------------------
(***************************************************************************)
(* What the list functions of the scheduler, the context switch primitives *)
(* (up_*.c) and the scheduler services built on them preserve, for any     *)
(* number of tasks and any priorities.  The lemmas are about the operators *)
(* of TaskLists, not about one state machine: every module that composes a *)
(* service with the scheduler can cite them.                               *)
(***************************************************************************)
EXTENDS TaskLists, SequenceTheorems, FiniteSetTheorems, WellFoundedInduction, TLAPS

-----------------------------------------------------------------------------
(* The lists as sequences: insertion by priority, removal, moving a task.  *)

\* The steps are first-order, except where they cite SMT.
USE Zenon

\* A non-empty set of naturals has a least element; induction over a bounded
\* range is done with it, on the set of counterexamples.
LEMMA LeastElement ==
  ASSUME NEW S \in SUBSET Nat, S # {}
  PROVE  \E m \in S : \A n \in S : m <= n
<1>1. PICK x \in S : \A y \in S : ~(<<y, x>> \in OpToRel(<, Nat))
  BY WFMin, NatLessThanWellFounded, Zenon
<1>2. \A y \in S : ~(y < x)
  BY <1>1 DEF OpToRel
<1> QED
  BY <1>2, SMT

\* The community module's Min is the least element.
LEMMA MinIsLeast ==
  ASSUME NEW S \in SUBSET Nat, S # {}
  PROVE  /\ Min(S) \in S
         /\ \A n \in S : Min(S) <= n
<1>1. \E m \in S : \A n \in S : m <= n
  BY LeastElement
<1> QED
  BY <1>1 DEF Min

\* Membership in the set of the elements of a list.
LEMMA InToSet ==
  ASSUME NEW q \in Seq(Task)
  PROVE  \A x : x \in ToSet(q) <=> \E i \in 1..Len(q) : q[i] = x
BY LenProperties DEF ToSet

\* The empty list has no element.
LEMMA EmptySet == ToSet(<< >>) = {}
BY SMT DEF ToSet

\* r is q with t put at position p and the rest moved back.
InsertedAt(q, p, t, r) ==
  /\ r \in Seq(Task)
  /\ Len(r) = Len(q) + 1
  /\ \A i \in 1..Len(q)+1 : r[i] = IF i < p THEN q[i] ELSE IF i = p THEN t ELSE q[i-1]

\* What InsertAt does.
LEMMA InsertAtFacts ==
  ASSUME NEW q \in Seq(Task), NEW p \in 1..Len(q)+1, NEW t \in Task
  PROVE  InsertedAt(q, p, t, InsertAt(q, p, t))
<1> DEFINE a == SubSeq(q, 1, p-1)
           b == SubSeq(q, p, Len(q))
<1>1. /\ a \in Seq(Task) /\ Len(a) = p - 1
      /\ \A i \in 1..p-1 : a[i] = q[i]
  BY SubSeqProperties, SMT
<1>2. /\ b \in Seq(Task) /\ Len(b) = Len(q) - p + 1
      /\ \A i \in 1..Len(q)-p+1 : b[i] = q[p+i-1]
  BY SubSeqProperties, SMT
<1>3. /\ a \o <<t>> \in Seq(Task) /\ Len(a \o <<t>>) = p
      /\ \A i \in 1..p : (a \o <<t>>)[i] = IF i < p THEN q[i] ELSE t
  BY <1>1, ConcatProperties, SMT
<1>4. /\ (a \o <<t>>) \o b \in Seq(Task) /\ Len((a \o <<t>>) \o b) = Len(q) + 1
      /\ \A i \in 1..Len(q)+1 : ((a \o <<t>>) \o b)[i] =
            IF i <= p THEN (a \o <<t>>)[i] ELSE b[i-p]
  <2> DEFINE c == a \o <<t>>
  <2>1. c \in Seq(Task) /\ b \in Seq(Task) /\ Len(c) = p /\ Len(b) = Len(q) - p + 1
    BY <1>2, <1>3
  <2> HIDE DEF b, c
  <2>2. /\ c \o b \in Seq(Task) /\ Len(c \o b) = Len(c) + Len(b)
        /\ \A i \in 1..Len(c)+Len(b) : (c \o b)[i] = IF i <= Len(c) THEN c[i] ELSE b[i-Len(c)]
    BY <2>1, ConcatProperties
  <2>3. Len(c) + Len(b) = Len(q) + 1
    BY <2>1, SMT
  <2> QED BY <2>1, <2>2, <2>3 DEF c
<1>5. \A i \in p+1..Len(q)+1 : b[i-p] = q[i-1]
  BY <1>2, SMT
<1>6. InsertAt(q, p, t) = (a \o <<t>>) \o b
  BY DEF InsertAt
<1> HIDE DEF a, b
<1> DEFINE c == a \o <<t>>
           d == c \o b
<1>7. ASSUME NEW i \in 1..Len(q)+1
      PROVE  d[i] = IF i < p THEN q[i] ELSE IF i = p THEN t ELSE q[i-1]
  <2>0. Len(q) \in Nat /\ p \in Nat /\ i \in Nat
    BY SMT
  <2>1. d[i] = IF i <= p THEN c[i] ELSE b[i-p]
    BY <1>4
  <2>2. i <= p => i \in 1..p /\ c[i] = IF i < p THEN q[i] ELSE t
    BY <1>3, <2>0, SMT
  <2>3. ~(i <= p) => i \in p+1..Len(q)+1 /\ b[i-p] = q[i-1]
    BY <1>5, <2>0, SMT
  <2> HIDE DEF c, d
  <2> QED BY <2>0, <2>1, <2>2, <2>3, SMT
<1>8. d \in Seq(Task) /\ Len(d) = Len(q) + 1 /\ InsertAt(q, p, t) = d
  BY <1>4, <1>6
<1> HIDE DEF d
<1> QED
  BY <1>7, <1>8 DEF InsertedAt

\* RemoveAt takes out position p and moves the rest up.
LEMMA RemoveAtFacts ==
  ASSUME NEW q \in Seq(Task), NEW p \in 1..Len(q)
  PROVE  /\ RemoveAt(q, p) \in Seq(Task)
         /\ Len(RemoveAt(q, p)) = Len(q) - 1
         /\ \A i \in 1..Len(q)-1 : RemoveAt(q, p)[i] = IF i < p THEN q[i] ELSE q[i+1]
<1> DEFINE a == SubSeq(q, 1, p-1)
           b == SubSeq(q, p+1, Len(q))
<1>1. /\ a \in Seq(Task) /\ Len(a) = p - 1
      /\ \A i \in 1..p-1 : a[i] = q[i]
  BY SubSeqProperties, SMT
<1>2. /\ b \in Seq(Task) /\ Len(b) = Len(q) - p
      /\ \A i \in 1..Len(q)-p : b[i] = q[p+i]
  BY SubSeqProperties, SMT
<1>3. /\ a \o b \in Seq(Task) /\ Len(a \o b) = Len(q) - 1
      /\ \A i \in 1..Len(q)-1 : (a \o b)[i] = IF i <= p-1 THEN a[i] ELSE b[i-(p-1)]
  <2>1. a \in Seq(Task) /\ b \in Seq(Task) /\ Len(a) = p - 1 /\ Len(b) = Len(q) - p
    BY <1>1, <1>2
  <2> HIDE DEF a, b
  <2>2. /\ a \o b \in Seq(Task) /\ Len(a \o b) = Len(a) + Len(b)
        /\ \A i \in 1..Len(a)+Len(b) : (a \o b)[i] = IF i <= Len(a) THEN a[i] ELSE b[i-Len(a)]
    BY <2>1, ConcatProperties
  <2>3. Len(a) + Len(b) = Len(q) - 1
    BY <2>1, SMT
  <2> QED BY <2>1, <2>2, <2>3
<1>4. RemoveAt(q, p) = a \o b
  BY DEF RemoveAt
<1>5. \A i \in p..Len(q)-1 : b[i-(p-1)] = q[i+1]
  BY <1>2, SMT
<1> HIDE DEF a, b
<1> DEFINE d == a \o b
<1>6. ASSUME NEW i \in 1..Len(q)-1
      PROVE  d[i] = IF i < p THEN q[i] ELSE q[i+1]
  <2>0. Len(q) \in Nat /\ p \in Nat /\ i \in Nat
    BY SMT
  <2>1. d[i] = IF i <= p-1 THEN a[i] ELSE b[i-(p-1)]
    BY <1>3
  <2>2. i < p => i <= p-1 /\ i \in 1..p-1 /\ a[i] = q[i]
    BY <1>1, <2>0, SMT
  <2>3. ~(i < p) => ~(i <= p-1) /\ i \in p..Len(q)-1 /\ b[i-(p-1)] = q[i+1]
    BY <1>5, <2>0, SMT
  <2> HIDE DEF d
  <2> QED BY <2>1, <2>2, <2>3
<1>7. d \in Seq(Task) /\ Len(d) = Len(q) - 1 /\ RemoveAt(q, p) = d
  BY <1>3, <1>4
<1> HIDE DEF d
<1> QED
  BY <1>6, <1>7

\* The loop that looks for the place of t stops before the first task of a
\* lower priority, and has passed only tasks of at least t's priority.
LEMMA SlotFacts ==
  ASSUME NEW q \in Seq(Task), NEW prio \in [Task -> Nat], NEW t \in Task,
         NEW from \in 1..Len(q)+1
  PROVE  LET p == Slot(q, from, prio, t)
         IN  /\ p \in from..Len(q)+1
             /\ \A i \in from..p-1 : prio[q[i]] >= prio[t]
             /\ p <= Len(q) => prio[q[p]] < prio[t]
<1> DEFINE I == {i \in from..Len(q) : prio[q[i]] < prio[t]}
<1>1. SelectInSubSeq(q, from, Len(q), LAMBDA u : prio[u] < prio[t])
        = IF I # {} THEN Min(I) ELSE 0
  BY DEF SelectInSubSeq
<1>2. I \in SUBSET Nat
  BY SMT
<1>3. CASE I = {}
  <2>1. Slot(q, from, prio, t) = Len(q) + 1
    BY <1>1, <1>3 DEF Slot
  <2>2. \A i \in from..Len(q) : prio[q[i]] >= prio[t]
    BY <1>3, SMT
  <2> QED
    BY <2>1, <2>2, SMT
<1>4. CASE I # {}
  <2>1. Min(I) \in I /\ \A n \in I : Min(I) <= n
    BY <1>2, <1>4, MinIsLeast
  <2>2. Slot(q, from, prio, t) = Min(I)
    BY <1>1, <1>4, <2>1, SMT DEF Slot
  <2>3. ASSUME NEW i \in from..Min(I)-1
        PROVE  prio[q[i]] >= prio[t]
    <3>1. Min(I) \in Nat /\ Min(I) <= Len(q) /\ i \in Nat /\ from <= i /\ i < Min(I)
      BY <2>1, SMT
    <3>2. i \notin I /\ i \in from..Len(q)
      BY <2>1, <3>1, SMTT(30)
    <3>3. q[i] \in Task /\ ~(prio[q[i]] < prio[t])
      BY <3>2, SMT
    <3> QED
      BY <3>3, SMT
  <2> QED
    BY <2>1, <2>2, <2>3, SMT
<1> QED
  BY <1>3, <1>4

\* Inserting t from position `from' on, when everything before `from' has at
\* least t's priority, keeps the list ordered and adds just t.
LEMMA InsertFacts ==
  ASSUME NEW q \in Seq(Task), NEW prio \in [Task -> Nat], NEW t \in Task,
         NEW from \in 1..Len(q)+1,
         Inj(q), Desc(q, prio), t \notin ToSet(q),
         \A i \in 1..from-1 : prio[q[i]] >= prio[t]
  PROVE  LET p == Slot(q, from, prio, t)
             r == InsertAt(q, p, t)
         IN  /\ p \in from..Len(q)+1
             /\ r \in Seq(Task) /\ Len(r) = Len(q) + 1
             /\ Inj(r) /\ Desc(r, prio)
             /\ ToSet(r) = ToSet(q) \cup {t}
             /\ Head(r) = IF q = << >> \/ p = 1 THEN t ELSE Head(q)
             /\ q # << >> => (p = 1 <=> prio[Head(q)] < prio[t])
             /\ q # << >> /\ prio[Last(q)] < prio[t] => Last(r) = Last(q)
             /\ \A i \in 1..p : prio[r[i]] >= prio[t]
<1> DEFINE p == Slot(q, from, prio, t)
           r == InsertAt(q, p, t)
<1>1. /\ p \in from..Len(q)+1
      /\ \A i \in from..p-1 : prio[q[i]] >= prio[t]
      /\ p <= Len(q) => prio[q[p]] < prio[t]
  BY SlotFacts
<1> HIDE DEF p
<1>2. p \in 1..Len(q)+1
  BY <1>1, SMT
<1>3. /\ r \in Seq(Task) /\ Len(r) = Len(q) + 1
      /\ \A i \in 1..Len(q)+1 : r[i] = IF i < p THEN q[i] ELSE IF i = p THEN t ELSE q[i-1]
  <2>1. InsertedAt(q, p, t, r)
    BY <1>2, InsertAtFacts
  <2> QED BY <2>1 DEF InsertedAt
<1> HIDE DEF r
<1>4. \A i \in 1..p-1 : prio[q[i]] >= prio[t]
  BY <1>1, SMT
<1>5. \A i \in p..Len(q) : prio[q[i]] < prio[t]
  BY <1>1, <1>2, SMT DEF Desc
<1> DEFINE g(i) == IF i < p THEN i ELSE i-1
           h(i) == IF i < p THEN i ELSE i+1
<1>a. Len(q) \in Nat /\ p \in Nat /\ r[p] = t /\ p \in 1..Len(r)
  BY <1>2, <1>3, SMT
<1>b. ASSUME NEW i \in 1..Len(r), i # p
      PROVE  r[i] = q[g(i)] /\ g(i) \in 1..Len(q)
  <2>1. i \in 1..Len(q)+1 /\ r[i] = IF i < p THEN q[i] ELSE q[i-1]
    BY <1>3, <1>b
  <2>2. (IF i < p THEN i ELSE i-1) \in 1..Len(q)
    BY <1>2, <1>a, <1>b, <2>1, SMT
  <2> QED BY <2>1, <2>2
<1>c. \A i, j \in 1..Len(r) : i # p /\ j # p =>
        (g(i) = g(j) => i = j) /\ (i < j => g(i) < g(j))
  <2>1. \A i, j \in Int : i # p /\ j # p =>
          (g(i) = g(j) => i = j) /\ (i < j => g(i) < g(j))
    BY <1>a, SMT
  <2> QED BY <2>1, <1>3, SMT
<1>d. \A i \in 1..Len(r) : (i < p => g(i) \in 1..p-1) /\ (i > p => g(i) \in p..Len(q))
  BY <1>2, <1>3, <1>a, SMT
<1>e. \A i \in 1..Len(q) : h(i) \in 1..Len(r) /\ h(i) # p /\ g(h(i)) = i
  BY <1>2, <1>3, <1>a, SMT
<1> HIDE DEF g, h
<1>6. Inj(r)
  <2>1. \A i \in 1..Len(r) : i # p => r[i] # t
    BY <1>b, InToSet
  <2> QED BY <2>1, <1>a, <1>b, <1>c DEF Inj
<1>7. Desc(r, prio)
  <2> SUFFICES ASSUME NEW i \in 1..Len(r), NEW j \in 1..Len(r), i < j
               PROVE  prio[r[i]] >= prio[r[j]]
    BY DEF Desc
  <2>0. \A x \in 1..Len(q) : prio[q[x]] \in Nat
    BY SMT
  <2>1. CASE i = p
    <3>1. g(j) \in p..Len(q) /\ r[j] = q[g(j)]
      BY <2>1, <1>b, <1>d, SMTT(20)
    <3>2. prio[q[g(j)]] < prio[t]
      BY <3>1, <1>5
    <3> QED BY <2>1, <3>1, <3>2, <1>a, <1>2, SMT
  <2>2. CASE j = p
    <3>1. g(i) \in 1..p-1 /\ r[i] = q[g(i)]
      BY <2>2, <1>b, <1>d, SMT
    <3> QED BY <2>2, <3>1, <1>a, <1>4
  <2>3. CASE i # p /\ j # p
    BY <2>3, <1>a, <1>b, <1>c DEF Desc
  <2> QED BY <2>1, <2>2, <2>3
<1>8. ToSet(r) = ToSet(q) \cup {t}
  <2>0. /\ \A x : x \in ToSet(q) <=> \E i \in 1..Len(q) : q[i] = x
        /\ \A x : x \in ToSet(r) <=> \E i \in 1..Len(r) : r[i] = x
    BY <1>3, InToSet
  <2>1. ASSUME NEW i \in 1..Len(r) PROVE r[i] \in ToSet(q) \cup {t}
    <3>1. CASE i = p
      BY <3>1, <1>a
    <3>2. CASE i # p
      <4>1. r[i] = q[g(i)] /\ g(i) \in 1..Len(q)
        BY <3>2, <1>b
      <4> QED BY <4>1, <2>0
    <3> QED BY <3>1, <3>2
  <2>2. t \in ToSet(r)
    BY <1>a, <2>0
  <2>3. ASSUME NEW i \in 1..Len(q) PROVE q[i] \in ToSet(r)
    <3>1. h(i) \in 1..Len(r) /\ h(i) # p /\ g(h(i)) = i
      BY <1>e
    <3>2. r[h(i)] = q[i]
      BY <3>1, <1>b
    <3> QED BY <3>1, <3>2, <2>0
  <2> QED BY <2>0, <2>1, <2>2, <2>3
<1>9. Head(r) = IF q = << >> \/ p = 1 THEN t ELSE Head(q)
  BY <1>2, <1>3, SMT
<1>10. q # << >> => (p = 1 <=> prio[Head(q)] < prio[t])
  <2>1. q # << >> => prio[q[1]] \in Nat /\ prio[t] \in Nat /\ Head(q) = q[1] /\ Len(q) >= 1
    BY SMT
  <2> QED BY <1>2, <1>4, <1>5, <2>1, SMT
<1>11. q # << >> /\ prio[Last(q)] < prio[t] => Last(r) = Last(q)
  <2> SUFFICES ASSUME q # << >>, prio[Last(q)] < prio[t] PROVE Last(r) = Last(q)
    OBVIOUS
  <2>1. Len(q) \in 1..Len(q) /\ prio[q[Len(q)]] \in Nat /\ prio[t] \in Nat
    BY SMT
  <2>2. ~(Len(q) \in 1..p-1)
    BY <1>4, <2>1, SMT DEF Last
  <2> QED BY <1>2, <1>3, <2>1, <2>2, SMT DEF Last
<1>12. \A i \in 1..p : prio[r[i]] >= prio[t]
  <2> TAKE i \in 1..p
  <2>1. prio[t] \in Nat /\ i \in 1..Len(q)+1
    BY <1>2, SMT
  <2>2. CASE i < p
    <3>1. i \in 1..p-1 /\ r[i] = q[i]
      BY <2>1, <2>2, <1>3, <1>a, SMT
    <3> QED BY <3>1, <1>4
  <2>3. CASE i = p
    BY <2>1, <2>3, <1>a, SMT
  <2> QED BY <1>2, <2>2, <2>3, SMT
<1> QED
  BY <1>1, <1>3, <1>6, <1>7, <1>8, <1>9, <1>10, <1>11, <1>12 DEF p, r

\* What InsertFacts needs and what it gives.
Insertable(q, prio, t, from) ==
  /\ q \in Seq(Task) /\ prio \in [Task -> Nat] /\ t \in Task /\ from \in 1..Len(q)+1
  /\ Inj(q) /\ Desc(q, prio) /\ t \notin ToSet(q)
  /\ \A i \in 1..from-1 : prio[q[i]] >= prio[t]

Inserted(q, prio, t, from) == 
   LET p == Slot(q, from, prio, t)
             r == InsertAt(q, p, t)
         IN  /\ p \in from..Len(q)+1
             /\ r \in Seq(Task) /\ Len(r) = Len(q) + 1
             /\ Inj(r) /\ Desc(r, prio)
             /\ ToSet(r) = ToSet(q) \cup {t}
             /\ Head(r) = IF q = << >> \/ p = 1 THEN t ELSE Head(q)
             /\ q # << >> => (p = 1 <=> prio[Head(q)] < prio[t])
             /\ q # << >> /\ prio[Last(q)] < prio[t] => Last(r) = Last(q)
             /\ \A i \in 1..p : prio[r[i]] >= prio[t]

\* InsertFacts, with its hypotheses and its conclusions each as one fact.
LEMMA InsertPacked ==
  ASSUME NEW q, NEW prio, NEW t, NEW from, Insertable(q, prio, t, from)
  PROVE Inserted(q, prio, t, from)
BY InsertFacts DEF Insertable, Inserted

\* sched_addprioritized on an ordered list.
LEMMA AddPrioritizedFacts ==
  ASSUME NEW q \in Seq(Task), NEW prio \in [Task -> Nat], NEW t \in Task,
         Inj(q), Desc(q, prio), t \notin ToSet(q)
  PROVE  LET r == sched_addprioritized(q, prio, t)
         IN  /\ r \in Seq(Task) /\ r # << >>
             /\ Inj(r) /\ Desc(r, prio)
             /\ ToSet(r) = ToSet(q) \cup {t}
             /\ q # << >> => Head(r) = IF prio[Head(q)] < prio[t] THEN t ELSE Head(q)
             /\ q # << >> /\ prio[Last(q)] < prio[t] => Last(r) = Last(q)
<1>1. 1 \in 1..Len(q)+1 /\ \A i \in 1..1-1 : prio[q[i]] >= prio[t]
  BY SMT
<1>2. Len(q) + 1 > 0
  BY SMT
<1> QED
  BY <1>1, <1>2, InsertFacts, SMT DEF sched_addprioritized

\* dq_rem of a member keeps the order and removes just that task.
LEMMA RemFacts ==
  ASSUME NEW q \in Seq(Task), NEW t \in ToSet(q), Inj(q)
  PROVE  LET r == dq_rem(q, t)
         IN  /\ r \in Seq(Task) /\ Len(r) = Len(q) - 1
             /\ Inj(r)
             /\ \A prio \in [Task -> Nat] : Desc(q, prio) => Desc(r, prio)
             /\ ToSet(r) = ToSet(q) \ {t}
             /\ r # << >> => Head(r) = IF Head(q) = t THEN q[2] ELSE Head(q)
             /\ Last(q) # t => r # << >> /\ Last(r) = Last(q)
<1> DEFINE I == {i \in 1..Len(q) : q[i] = t}
           p == Min(I)
           r == RemoveAt(q, p)
<1>1. I \in SUBSET Nat /\ I # {}
  BY InToSet, SMT
<1>2. p \in I
  BY <1>1, MinIsLeast
<1>3. p \in 1..Len(q) /\ q[p] = t /\ t \in Task
  BY <1>2, SMT
<1>5. dq_rem(q, t) = r
  BY <1>1 DEF dq_rem
<1> HIDE DEF I, p
<1>6. /\ r \in Seq(Task) /\ Len(r) = Len(q) - 1
      /\ \A i \in 1..Len(q)-1 : r[i] = IF i < p THEN q[i] ELSE q[i+1]
  BY <1>3, RemoveAtFacts
<1> HIDE DEF r
<1> DEFINE g(i) == IF i < p THEN i ELSE i+1
<1>a. Len(q) \in Nat /\ p \in Nat
  BY <1>3, SMT
<1>b. \A i \in 1..Len(r) : r[i] = q[g(i)] /\ g(i) \in 1..Len(q) /\ g(i) # p
  BY <1>3, <1>6, <1>a, SMT
<1>c. \A i, j \in 1..Len(r) : (g(i) = g(j) => i = j) /\ (i < j => g(i) < g(j))
  BY <1>6, <1>a, SMT
<1>d. \A i \in 1..Len(q) : i # p => \E j \in 1..Len(r) : g(j) = i
  <2> TAKE i \in 1..Len(q)
  <2> HAVE i # p
  <2> DEFINE j == IF i < p THEN i ELSE i-1
  <2>1. j \in 1..Len(r) /\ g(j) = i
    BY <1>6, <1>a, <1>3, SMT
  <2> QED BY <2>1
<1> HIDE DEF g
<1>7. Inj(r)
  BY <1>b, <1>c DEF Inj
<1>8. \A prio \in [Task -> Nat] : Desc(q, prio) => Desc(r, prio)
  BY <1>b, <1>c DEF Desc
<1>9. ToSet(r) = ToSet(q) \ {t}
  <2>0. /\ \A x : x \in ToSet(q) <=> \E i \in 1..Len(q) : q[i] = x
        /\ \A x : x \in ToSet(r) <=> \E i \in 1..Len(r) : r[i] = x
    BY <1>6, InToSet
  <2>1. ASSUME NEW i \in 1..Len(r) PROVE r[i] \in ToSet(q) \ {t}
    <3>1. r[i] = q[g(i)] /\ g(i) \in 1..Len(q) /\ g(i) # p
      BY <1>b
    <3>2. q[g(i)] # q[p]
      BY <1>3, <3>1 DEF Inj
    <3> QED BY <1>3, <2>0, <3>1, <3>2
  <2>2. ASSUME NEW i \in 1..Len(q), q[i] # t PROVE q[i] \in ToSet(r)
    <3>1. PICK j \in 1..Len(r) : g(j) = i
      BY <1>3, <1>d, <2>2
    <3> QED BY <3>1, <1>b, <2>0
  <2> QED BY <2>0, <2>1, <2>2
<1>10. r # << >> => Head(r) = IF Head(q) = t THEN q[2] ELSE Head(q)
  <2> SUFFICES ASSUME r # << >> PROVE Head(r) = IF Head(q) = t THEN q[2] ELSE Head(q)
    OBVIOUS
  <2>1. Len(q) >= 2 /\ Head(q) = q[1] /\ Head(r) = r[1]
    BY <1>6, SMT
  <2>2. q[1] = t <=> p = 1
    BY <1>3, <2>1, SMT DEF Inj
  <2> QED BY <1>3, <1>6, <2>1, <2>2, SMT
<1>11. Last(q) # t => r # << >> /\ Last(r) = Last(q)
  <2> SUFFICES ASSUME q[Len(q)] # t PROVE r # << >> /\ r[Len(r)] = q[Len(q)]
    BY DEF Last
  <2>1. p < Len(q)
    BY <1>3, SMT
  <2> QED BY <1>3, <1>6, <2>1, SMT
<1> QED
  BY <1>5, <1>6, <1>7, <1>8, <1>9, <1>10, <1>11

\* Appending at the end of a list that is not prioritized.
LEMMA AppendFacts ==
  ASSUME NEW q \in Seq(Task), NEW t \in Task, Inj(q), t \notin ToSet(q)
  PROVE  LET r == dq_addlast(q, t)
         IN  r \in Seq(Task) /\ Inj(r) /\ ToSet(r) = ToSet(q) \cup {t}
<1> DEFINE r == dq_addlast(q, t)
<1>1. /\ r \in Seq(Task) /\ Len(r) = Len(q) + 1 /\ r[Len(q)+1] = t
      /\ \A i \in 1..Len(q) : r[i] = q[i]
  BY AppendProperties, SMT DEF dq_addlast
<1> HIDE DEF r
<1>2. /\ \A x : x \in ToSet(q) <=> \E i \in 1..Len(q) : q[i] = x
      /\ \A x : x \in ToSet(r) <=> \E i \in 1..Len(r) : r[i] = x
  BY <1>1, InToSet
<1>3. ToSet(r) = ToSet(q) \cup {t}
  <2>1. ASSUME NEW i \in 1..Len(r) PROVE r[i] \in ToSet(q) \cup {t}
    BY <1>1, <1>2, SMT
  <2>2. t \in ToSet(r)
    <3>1. Len(q)+1 \in 1..Len(r)
      BY <1>1, SMT
    <3> QED BY <1>1, <1>2, <3>1
  <2>3. ASSUME NEW i \in 1..Len(q) PROVE q[i] \in ToSet(r)
    <3>1. i \in 1..Len(r)
      BY <1>1, SMT
    <3> QED BY <1>1, <1>2, <3>1
  <2> QED BY <1>2, <2>1, <2>2, <2>3
<1>4. Inj(r)
  <2>1. \A i \in 1..Len(q) : q[i] # t
    BY <1>2
  <2> QED BY <1>1, <2>1, SMT DEF Inj
<1> QED
  BY <1>1, <1>3, <1>4 DEF r

\* Adding at the front of a list that is not prioritized.
LEMMA PrependFacts ==
  ASSUME NEW q \in Seq(Task), NEW t \in Task, Inj(q), t \notin ToSet(q)
  PROVE  LET r == dq_addfirst(q, t)
         IN  r \in Seq(Task) /\ Inj(r) /\ ToSet(r) = ToSet(q) \cup {t}
<1> DEFINE r == dq_addfirst(q, t)
<1>1. /\ r \in Seq(Task) /\ Len(r) = Len(q) + 1 /\ r[1] = t
      /\ \A i \in 2..Len(q)+1 : r[i] = q[i-1]
  <2>1. <<t>> \in Seq(Task) /\ Len(<<t>>) = 1
    BY SMT
  <2> QED BY <2>1, ConcatProperties, SMT DEF dq_addfirst
<1> HIDE DEF r
<1>2. /\ \A x : x \in ToSet(q) <=> \E i \in 1..Len(q) : q[i] = x
      /\ \A x : x \in ToSet(r) <=> \E i \in 1..Len(r) : r[i] = x
  BY <1>1, InToSet
<1>a. Len(q) \in Nat
  BY SMT
<1>b. \A i \in 1..Len(r) : i = 1 \/ (i \in 2..Len(q)+1 /\ i-1 \in 1..Len(q))
  BY <1>1, <1>a, SMT
<1>3. ToSet(r) = ToSet(q) \cup {t}
  <2>1. ASSUME NEW i \in 1..Len(r) PROVE r[i] \in ToSet(q) \cup {t}
    BY <1>1, <1>2, <1>b
  <2>2. t \in ToSet(r)
    <3>1. 1 \in 1..Len(r)
      BY <1>1, <1>a, SMT
    <3> QED BY <1>1, <1>2, <3>1
  <2>3. ASSUME NEW i \in 1..Len(q) PROVE q[i] \in ToSet(r)
    <3>1. i+1 \in 1..Len(r) /\ i+1 \in 2..Len(q)+1 /\ r[i+1] = q[i]
      BY <1>1, <1>a, SMT
    <3> QED BY <1>2, <3>1
  <2> QED BY <1>2, <2>1, <2>2, <2>3
<1>4. Inj(r)
  <2>1. \A i \in 1..Len(q) : q[i] # t
    BY <1>2
  <2>2. \A i \in 2..Len(q)+1 : r[i] # t
    BY <1>1, <1>a, <2>1, SMT
  <2> SUFFICES ASSUME NEW i \in 1..Len(r), NEW j \in 1..Len(r), r[i] = r[j] PROVE i = j
    BY DEF Inj
  <2>3. CASE i = 1 \/ j = 1
    BY <1>1, <1>b, <2>2, <2>3
  <2>4. CASE i # 1 /\ j # 1
    <3>1. i-1 \in 1..Len(q) /\ j-1 \in 1..Len(q) /\ q[i-1] = q[j-1]
      BY <1>1, <1>b, <2>4
    <3> QED BY <3>1, SMT DEF Inj
  <2> QED BY <2>3, <2>4
<1> QED
  BY <1>1, <1>3, <1>4 DEF r

\* A change of the priority of a task that is not in the list does not matter.
LEMMA DescOther ==
  ASSUME NEW q \in Seq(Task), NEW prio \in [Task -> Nat], NEW t \in Task, t \notin ToSet(q),
         NEW p \in Nat, Desc(q, prio)
  PROVE  Desc(q, [prio EXCEPT ![t] = p])
<1>1. \A i \in 1..Len(q) : q[i] # t /\ q[i] \in Task
  BY InToSet, SMT
<1> QED BY <1>1 DEF Desc

\* A task moved to the place of its new priority in a prioritized list.
LEMMA MoveFacts ==
  ASSUME NEW q \in Seq(Task), NEW prio \in [Task -> Nat], NEW t \in ToSet(q), NEW p \in Nat,
         Inj(q), Desc(q, prio)
  PROVE  LET pr == [prio EXCEPT ![t] = p]
             r == sched_addprioritized(dq_rem(q, t), pr, t)
         IN  r \in Seq(Task) /\ r # << >> /\ Inj(r) /\ Desc(r, pr) /\ ToSet(r) = ToSet(q)
<1> DEFINE pr == [prio EXCEPT ![t] = p]
           w == dq_rem(q, t)
           r == sched_addprioritized(w, pr, t)
<1>1. t \in Task /\ pr \in [Task -> Nat]
  BY InToSet, SMT
<1>2. w \in Seq(Task) /\ Inj(w) /\ Desc(w, prio) /\ ToSet(w) = ToSet(q) \ {t}
  BY RemFacts
<1> HIDE DEF w
<1>3. Desc(w, pr) /\ t \notin ToSet(w)
  BY <1>1, <1>2, DescOther
<1> HIDE DEF pr
<1>4. r \in Seq(Task) /\ r # << >> /\ Inj(r) /\ Desc(r, pr) /\ ToSet(r) = ToSet(w) \cup {t}
  BY <1>1, <1>2, <1>3, AddPrioritizedFacts
<1> QED BY <1>2, <1>4 DEF pr, w

-----------------------------------------------------------------------------
(* The list functions.                                                     *)

\* The types of the fields.
LEMMA KernelFields ==
  ASSUME NEW k \in Kernel
  PROVE  /\ k.rtr \in Seq(Task) /\ k.pend \in Seq(Task)
         /\ k.blk \in [BlockedStates -> Seq(Task)]
         /\ k.state \in [Task -> TaskStates]
         /\ k.prio \in [Task -> Nat] /\ k.lock \in [Task -> Nat]
         /\ k.slice \in [Task -> Int] /\ k.panic \in BOOLEAN
BY DEF Kernel

\* A well-formed ready-to-run list has a head and ends with the idle task.
LEMMA ListsFacts ==
  ASSUME NEW k, Lists(k)
  PROVE  /\ k \in Kernel
         /\ k.rtr # << >> /\ Running(k) \in Task /\ Running(k) \in ToSet(k.rtr)
         /\ Last(k.rtr) = Idle /\ Idle \in ToSet(k.rtr)
<1>1. k \in Kernel /\ k.rtr \in Seq(Task) /\ k.rtr # << >> /\ Last(k.rtr) = Idle
  BY KernelFields DEF Lists
<1>2. Len(k.rtr) >= 1 /\ Running(k) = k.rtr[1] /\ k.rtr[Len(k.rtr)] = Idle
  BY <1>1, SMT DEF Running, Last
<1> QED BY <1>1, <1>2, InToSet, SMT

\* A task with no state is in no list.
LEMMA InvalidNowhere ==
  ASSUME NEW k, Lists(k), NEW t \in Task, k.state[t] = "INVALID"
  PROVE  /\ t \notin ToSet(k.rtr) /\ t \notin ToSet(k.pend)
         /\ \A s \in BlockedStates : t \notin ToSet(k.blk[s])
<1>1. Member(k, t)
  BY DEF Lists
<1> QED BY <1>1 DEF Member, BlockedStates, WaitStates

\* The idle task is always ready to run.
LEMMA IdleReady ==
  ASSUME NEW k, Lists(k)
  PROVE  k.state[Idle] \in {"READYTORUN", "RUNNING"}
BY ListsFacts, TaskAssumption DEF Lists, Member

\* An ASSERT that holds changes nothing.
LEMMA AssertTrue ==
  ASSUME NEW k \in Kernel, NEW cond, cond
  PROVE  ASSERT(k, cond) = k
BY DEF ASSERT, Kernel

\* sched_addreadytorun: the lists stay well formed, no ASSERT fires, and the
\* running task changes only when pre-emption is enabled and t is better.
LEMMA AddReady ==
  ASSUME NEW k, Lists(k), HeadRuns(k), NEW t \in Task \ {Idle}, k.state[t] = "INVALID"
  PROVE  LET r == sched_addreadytorun(k, t)
         IN  /\ Lists(r) /\ HeadRuns(r)
             /\ r.prio = k.prio /\ r.lock = k.lock /\ r.slice = k.slice
             /\ Running(r) = IF k.lock[Running(k)] = 0 /\ k.prio[Running(k)] < k.prio[t]
                             THEN t ELSE Running(k)
             /\ k.lock[Running(k)] = 0 => r.pend = k.pend
<1> DEFINE r == sched_addreadytorun(k, t)
           h == Running(k)
           q == sched_addprioritized(k.rtr, k.prio, t)
           w == sched_addprioritized(k.pend, k.prio, t)
<1>a. k \in Kernel /\ t \in Task /\ h \in Task /\ k.rtr # << >> /\ Last(k.rtr) = Idle /\ h \in ToSet(k.rtr)
  BY ListsFacts
<1>b. /\ t \notin ToSet(k.rtr) /\ t \notin ToSet(k.pend)
      /\ \A s \in BlockedStates : t \notin ToSet(k.blk[s])
  BY InvalidNowhere
<1>c. h # t
  BY <1>a, <1>b
<1>d. k.prio[h] \in Nat /\ k.prio[t] \in Nat /\ k.lock[h] \in Nat
  BY <1>a, KernelFields
<1>1. /\ q \in Seq(Task) /\ q # << >> /\ Inj(q) /\ Desc(q, k.prio) /\ ToSet(q) = ToSet(k.rtr) \cup {t}
      /\ Head(q) = IF k.prio[h] < k.prio[t] THEN t ELSE h
      /\ Last(q) = Idle
  <2>1. Inj(k.rtr) /\ Desc(k.rtr, k.prio) /\ k.rtr \in Seq(Task) /\ k.prio \in [Task -> Nat]
    BY KernelFields, <1>a DEF Lists, Ordered
  <2>2. k.prio[Last(k.rtr)] < k.prio[t]
    BY <1>a, <1>d, SMT DEF Lists, IdleLowest
  <2> QED BY <1>a, <1>b, <2>1, <2>2, AddPrioritizedFacts DEF Running
<1>2. /\ w \in Seq(Task) /\ Inj(w) /\ Desc(w, k.prio) /\ ToSet(w) = ToSet(k.pend) \cup {t}
  <2>1. Inj(k.pend) /\ Desc(k.pend, k.prio) /\ k.pend \in Seq(Task) /\ k.prio \in [Task -> Nat]
    BY KernelFields, <1>a DEF Lists, Ordered
  <2> QED BY <1>b, <2>1, AddPrioritizedFacts
<1>e. q \in Seq(Task) /\ w \in Seq(Task)
  BY <1>1, <1>2
<1> HIDE DEF q, w, h
<1>3. CASE k.lock[h] > 0 /\ k.prio[h] < k.prio[t]
  <2>1. r = [k EXCEPT !.pend = w, !.state[t] = "PENDING"]
    BY <1>3 DEF sched_addreadytorun, h, w
  <2> HIDE DEF r
  <2>2. /\ r \in Kernel
        /\ r.rtr = k.rtr /\ r.pend = w /\ r.blk = k.blk /\ r.prio = k.prio /\ r.lock = k.lock
        /\ r.slice = k.slice /\ r.panic = k.panic
        /\ r.state = [k.state EXCEPT ![t] = "PENDING"]
    BY <2>1, <1>a, <1>e DEF Kernel, TaskStates
  <2>3. ASSUME NEW u \in Task PROVE Member(r, u)
    <3>1. Member(k, u) /\ k.state \in [Task -> TaskStates]
      BY <1>a, KernelFields DEF Lists
    <3> QED BY <2>2, <3>1, <1>b, <1>2, SMT DEF Member, BlockedStates, WaitStates
  <2>4. Lists(r)
    BY <2>2, <2>3, <1>2 DEF Lists, Ordered
  <2>5. HeadRuns(r)
    <3>1. k.state \in [Task -> TaskStates]
      BY <1>a, KernelFields 
    <3> QED BY <3>1, <2>2, <1>c DEF HeadRuns, h, Running
  <2> QED BY <1>3, <2>2, <2>4, <2>5, SMT DEF r, h, Running
<1>4. CASE ~(k.lock[h] > 0 /\ k.prio[h] < k.prio[t]) /\ Head(q) = t
  <2>0. k.lock[h] = 0 /\ k.prio[h] < k.prio[t]
    BY <1>1, <1>4, <1>c, <1>d, SMT
  <2>1. r = ASSERT([k EXCEPT !.rtr = q,
                            !.state = [@ EXCEPT ![t] = "RUNNING",
                                                ![h] = "READYTORUN"]], TRUE)
    BY <1>4, <2>0 DEF sched_addreadytorun, h, q
  <2> HIDE DEF r
  <2>2. /\ r \in Kernel
        /\ r.rtr = q /\ r.pend = k.pend /\ r.blk = k.blk /\ r.prio = k.prio /\ r.lock = k.lock
        /\ r.slice = k.slice /\ r.panic = (k.panic \/ ~TRUE)
        /\ r.state = [k.state EXCEPT ![t] = "RUNNING", ![h] = "READYTORUN"]
    BY <2>1, <1>a, <1>e DEF Kernel, TaskStates, ASSERT
  <2>3. ASSUME NEW u \in Task PROVE Member(r, u)
    <3>1. Member(k, u) /\ k.state \in [Task -> TaskStates] /\ k.state[h] = "RUNNING"
      BY <1>a, KernelFields DEF Lists, HeadRuns, h, Running
    <3> QED BY <2>2, <3>1, <1>a, <1>b, <1>c, <1>1, SMT DEF Member, BlockedStates, WaitStates
  <2>4. Lists(r)
    BY <2>2, <2>3, <1>1 DEF Lists, Ordered
  <2>5. HeadRuns(r)
    <3>1. k.state \in [Task -> TaskStates]
      BY <1>a, KernelFields 
    <3> QED BY <3>1, <2>2, <1>4, <1>a, <1>c DEF HeadRuns, h, Running
  <2> QED BY <1>4, <2>0, <2>2, <2>4, <2>5 DEF r, h, Running
<1>5. CASE ~(k.lock[h] > 0 /\ k.prio[h] < k.prio[t]) /\ Head(q) # t
  <2>0. Head(q) = h /\ ~(k.prio[h] < k.prio[t])
    BY <1>1, <1>5
  <2>1. r = [k EXCEPT !.rtr = q, !.state[t] = "READYTORUN"]
    BY <1>5 DEF sched_addreadytorun, h, q
  <2> HIDE DEF r
  <2>2. /\ r \in Kernel
        /\ r.rtr = q /\ r.pend = k.pend /\ r.blk = k.blk /\ r.prio = k.prio /\ r.lock = k.lock
        /\ r.slice = k.slice /\ r.panic = k.panic
        /\ r.state = [k.state EXCEPT ![t] = "READYTORUN"]
    BY <2>1, <1>a, <1>e DEF Kernel, TaskStates
  <2>3. ASSUME NEW u \in Task PROVE Member(r, u)
    <3>1. Member(k, u) /\ k.state \in [Task -> TaskStates]
      BY <1>a, KernelFields DEF Lists
    <3> QED BY <2>2, <3>1, <1>b, <1>1, SMT DEF Member, BlockedStates, WaitStates
  <2>4. Lists(r)
    BY <2>2, <2>3, <1>1 DEF Lists, Ordered
  <2>5. HeadRuns(r)
    <3>1. k.state \in [Task -> TaskStates]
      BY <1>a, KernelFields 
    <3> QED BY <3>1, <2>0, <2>2, <1>c DEF HeadRuns, h, Running
  <2> QED BY <2>0, <2>2, <2>4, <2>5 DEF r, h, Running
<1> QED
  BY <1>3, <1>4, <1>5

\* sched_removereadytorun of a task that is not the idle task.
LEMMA RemoveReady ==
  ASSUME NEW k, Lists(k), NEW t \in ToSet(k.rtr) \ {Idle}
  PROVE  LET r == sched_removereadytorun(k, t)
         IN  /\ Lists(r) /\ (HeadRuns(k) => HeadRuns(r))
             /\ r.state[t] = "INVALID"
             /\ r.prio = k.prio /\ r.lock = k.lock /\ r.slice = k.slice
             /\ r.pend = k.pend
             /\ Running(r) = IF Running(k) = t THEN k.rtr[2] ELSE Running(k)
<1> DEFINE r == sched_removereadytorun(k, t)
           q == dq_rem(k.rtr, t)
           n == k.rtr[2]
<1>1. /\ k \in Kernel /\ k.rtr \in Seq(Task) /\ k.rtr # << >> /\ Last(k.rtr) = Idle
      /\ k.prio \in [Task -> Nat] /\ Inj(k.rtr) /\ Desc(k.rtr, k.prio)
      /\ k.state \in [Task -> TaskStates]
  BY ListsFacts, KernelFields DEF Lists, Ordered
<1>2. /\ q \in Seq(Task) /\ Inj(q) /\ Desc(q, k.prio) /\ ToSet(q) = ToSet(k.rtr) \ {t}
      /\ q # << >> /\ Last(q) = Idle /\ Len(q) = Len(k.rtr) - 1
      /\ Head(q) = IF Head(k.rtr) = t THEN k.rtr[2] ELSE Head(k.rtr)
  BY <1>1, RemFacts, SMT
<1>3. Len(k.rtr) > 1 /\ t \in Task /\ n \in Task
  <2>1. Len(q) # 0 /\ Len(q) \in Nat
    BY <1>2, EmptySeq
  <2>2. Len(k.rtr) > 1 /\ Len(k.rtr) \in Nat
    BY <1>1, <1>2, <2>1, SMT
  <2>3. 2 \in 1..Len(k.rtr)
    BY <2>2, SMT
  <2>4. PICK i \in 1..Len(k.rtr) : k.rtr[i] = t
    BY <1>1, InToSet
  <2> QED
    BY <1>1, <2>2, <2>3, <2>4, ElementOfSeq
<1>4. n \in ToSet(k.rtr) /\ (Running(k) = t => n # t)
  BY <1>1, <1>3, InToSet, SMT DEF Inj, Running
<1>a. k \in Kernel /\ t \in Task /\ n \in Task /\ q \in Seq(Task)
  BY <1>1, <1>2, <1>3
<1>b. q # << >> /\ Head(q) = IF Running(k) = t THEN n ELSE Running(k)
  BY <1>2 DEF Running
<1> HIDE DEF q, n
<1>5. CASE Running(k) = t
  <2>1. r = ASSERT([k EXCEPT !.rtr = q,
                        !.state = [@ EXCEPT ![n] = "RUNNING", ![t] = "INVALID"]], TRUE)
    BY <1>5, <1>3 DEF sched_removereadytorun, q, n
  <2> HIDE DEF r
  <2>2. /\ r \in Kernel
        /\ r.rtr = q /\ r.pend = k.pend /\ r.blk = k.blk /\ r.prio = k.prio /\ r.lock = k.lock
        /\ r.slice = k.slice /\ r.panic = (k.panic \/ ~TRUE)
        /\ r.state = [k.state EXCEPT ![n] = "RUNNING", ![t] = "INVALID"]
    BY <2>1, <1>a DEF Kernel, TaskStates, ASSERT
  <2>3. ASSUME NEW u \in Task PROVE Member(r, u)
    <3>1. Member(k, u) /\ Member(k, t) /\ Member(k, n)
      BY <1>a DEF Lists
    <3>2. r.state[u] = IF u = t THEN "INVALID" ELSE IF u = n THEN "RUNNING" ELSE k.state[u]
      BY <1>1, <1>4, <1>5, <1>a, <2>2
    <3>3. CASE u = t
      BY <3>1, <3>2, <3>3, <2>2, <1>2 DEF Member, BlockedStates, WaitStates
    <3>4. CASE u = n
      BY <3>1, <3>2, <3>4, <2>2, <1>2, <1>4, <1>5 DEF Member, BlockedStates, WaitStates
    <3>5. CASE u # t /\ u # n
      BY <3>1, <3>2, <3>5, <2>2, <1>2 DEF Member, BlockedStates, WaitStates
    <3> QED BY <3>3, <3>4, <3>5
  <2>4. Lists(r)
    BY <2>2, <2>3, <1>2 DEF Lists, Ordered
  <2>5. HeadRuns(k) => HeadRuns(r)
    BY <2>2, <1>1, <1>4, <1>5, <1>a, <1>b DEF HeadRuns, Running
  <2> QED BY <1>1, <1>5, <1>a, <1>b, <2>2, <2>4, <2>5 DEF r, n, Running
<1>6. CASE Running(k) # t
  <2>1. r = [k EXCEPT !.rtr = q, !.state[t] = "INVALID"]
    BY <1>6 DEF sched_removereadytorun, q
  <2> HIDE DEF r
  <2>2. /\ r \in Kernel
        /\ r.rtr = q /\ r.pend = k.pend /\ r.blk = k.blk /\ r.prio = k.prio /\ r.lock = k.lock
        /\ r.slice = k.slice /\ r.panic = k.panic
        /\ r.state = [k.state EXCEPT ![t] = "INVALID"]
    BY <2>1, <1>a DEF Kernel, TaskStates
  <2>3. ASSUME NEW u \in Task PROVE Member(r, u)
    <3>1. Member(k, u) /\ Member(k, t)
      BY <1>a DEF Lists
    <3>2. r.state[u] = IF u = t THEN "INVALID" ELSE k.state[u]
      BY <1>1, <1>a, <2>2
    <3> QED BY <3>1, <3>2, <2>2, <1>2 DEF Member, BlockedStates, WaitStates
  <2>4. Lists(r)
    BY <2>2, <2>3, <1>2 DEF Lists, Ordered
  <2>5. HeadRuns(k) => HeadRuns(r)
    BY <2>2, <1>1, <1>6, <1>a, <1>b DEF HeadRuns, Running
  <2> QED BY <1>1, <1>6, <1>a, <1>b, <2>2, <2>4, <2>5 DEF r, Running
<1> QED
  BY <1>5, <1>6

\* r is k with t, which was in no list, added to the list of blocked state s.
Enlisted(k, r, t, s) ==
  /\ r \in Kernel
  /\ r.rtr = k.rtr /\ r.pend = k.pend /\ r.prio = k.prio /\ r.panic = k.panic
  /\ r.state = [k.state EXCEPT ![t] = s]
  /\ \A x \in BlockedStates \ {s} : r.blk[x] = k.blk[x]
  /\ Inj(r.blk[s]) /\ ToSet(r.blk[s]) = ToSet(k.blk[s]) \cup {t}
  /\ Prioritized(s) => Desc(r.blk[s], k.prio)

\* A task that was in no list may be added to a blocked list.
LEMMA Enlist ==
  ASSUME NEW k, Lists(k), NEW t \in Task, k.state[t] = "INVALID", NEW s \in BlockedStates,
         NEW r, Enlisted(k, r, t, s)
  PROVE  Lists(r) /\ (HeadRuns(k) => HeadRuns(r))
<1>1. /\ r \in Kernel
      /\ r.rtr = k.rtr /\ r.pend = k.pend /\ r.prio = k.prio /\ r.panic = k.panic
      /\ r.state = [k.state EXCEPT ![t] = s]
      /\ \A x \in BlockedStates \ {s} : r.blk[x] = k.blk[x]
      /\ Inj(r.blk[s]) /\ ToSet(r.blk[s]) = ToSet(k.blk[s]) \cup {t}
      /\ Prioritized(s) => Desc(r.blk[s], k.prio)
  BY DEF Enlisted
<1>3. /\ t \notin ToSet(k.rtr) /\ t \notin ToSet(k.pend)
      /\ \A x \in BlockedStates : t \notin ToSet(k.blk[x])
  BY InvalidNowhere
<1>4. k.state \in [Task -> TaskStates]
  BY ListsFacts, KernelFields
<1>6. Ordered(r)
  <2>1. Ordered(k)
    BY DEF Lists
  <2> QED BY <1>1, <2>1 DEF Ordered
<1>7. s \notin {"READYTORUN", "RUNNING", "PENDING"}
  BY DEF BlockedStates, WaitStates
<1>8. ASSUME NEW u \in Task PROVE Member(r, u)
  <2>1. Member(k, u)
    BY DEF Lists
  <2>2. r.state[u] = IF u = t THEN s ELSE k.state[u]
    BY <1>1, <1>4
  <2>3. CASE u = t
    <3>1. \A x \in BlockedStates : u \in ToSet(r.blk[x]) <=> x = s
      BY <1>1, <2>3, <1>3
    <3> QED BY <1>1, <2>2, <2>3, <1>3, <1>7, <3>1 DEF Member
  <2>4. CASE u # t
    <3>1. \A x \in BlockedStates : u \in ToSet(r.blk[x]) <=> u \in ToSet(k.blk[x])
      BY <1>1, <2>4
    <3> QED BY <1>1, <2>1, <2>2, <2>4, <3>1 DEF Member
  <2> QED BY <2>3, <2>4
<1>9. Lists(r)
  BY <1>1, <1>6, <1>8 DEF Lists
<1>10. HeadRuns(k) => HeadRuns(r)
  BY <1>1, <1>4, <1>7 DEF HeadRuns
<1> QED
  BY <1>9, <1>10

\* sched_addblocked: prioritized or first-in first-out, by the state.
LEMMA AddBlocked ==
  ASSUME NEW k, Lists(k), NEW t \in Task, k.state[t] = "INVALID", NEW s \in BlockedStates
  PROVE  LET r == sched_addblocked(k, t, s)
         IN  /\ Lists(r) /\ (HeadRuns(k) => HeadRuns(r))
             /\ r.rtr = k.rtr /\ r.pend = k.pend /\ r.prio = k.prio
             /\ r.lock = k.lock /\ r.slice = k.slice
             /\ r.state = [k.state EXCEPT ![t] = s]
<1> DEFINE q == IF Prioritized(s) THEN sched_addprioritized(k.blk[s], k.prio, t)
                                  ELSE dq_addlast(k.blk[s], t)
           r == sched_addblocked(k, t, s)
<1>1. /\ k \in Kernel
      /\ k.blk[s] \in Seq(Task) /\ k.prio \in [Task -> Nat] /\ Inj(k.blk[s])
      /\ Prioritized(s) => Desc(k.blk[s], k.prio)
      /\ k.blk \in [BlockedStates -> Seq(Task)]
  BY ListsFacts, KernelFields DEF Lists, Ordered
<1>2. t \notin ToSet(k.blk[s])
  BY InvalidNowhere
<1>3. /\ q \in Seq(Task) /\ Inj(q) /\ ToSet(q) = ToSet(k.blk[s]) \cup {t}
      /\ Prioritized(s) => Desc(q, k.prio)
  <2>1. CASE Prioritized(s)
    BY <2>1, <1>1, <1>2, AddPrioritizedFacts
  <2>2. CASE ~Prioritized(s)
    BY <2>2, <1>1, <1>2, AppendFacts
  <2> QED BY <2>1, <2>2
<1>4. r = [k EXCEPT !.blk[s] = q, !.state[t] = s]
  BY DEF sched_addblocked
<1>a. k \in Kernel /\ q \in Seq(Task)
  BY <1>1, <1>3
<1> HIDE DEF q, r
<1>5. /\ r \in Kernel
      /\ r.rtr = k.rtr /\ r.pend = k.pend /\ r.prio = k.prio /\ r.lock = k.lock
      /\ r.slice = k.slice /\ r.panic = k.panic
      /\ r.blk = [k.blk EXCEPT ![s] = q]
      /\ r.state = [k.state EXCEPT ![t] = s]
  BY <1>a, <1>4 DEF Kernel, TaskStates
<1>6. r.blk[s] = q /\ \A x \in BlockedStates \ {s} : r.blk[x] = k.blk[x]
  BY <1>1, <1>5
<1>b. Enlisted(k, r, t, s)
  BY <1>3, <1>5, <1>6 DEF Enlisted
<1>7. Lists(r) /\ (HeadRuns(k) => HeadRuns(r))
  BY <1>b, Enlist
<1> QED
  BY <1>5, <1>7 DEF r

\* The blocked task t leaves its list.
LEMMA RemoveBlocked ==
  ASSUME NEW k, Lists(k), NEW t \in Task, k.state[t] \in BlockedStates
  PROVE  LET r == sched_removeblocked(k, t)
         IN  /\ Lists(r) /\ (HeadRuns(k) => HeadRuns(r))
             /\ r.rtr = k.rtr /\ r.pend = k.pend /\ r.prio = k.prio
             /\ r.lock = k.lock /\ r.slice = k.slice
             /\ r.state = [k.state EXCEPT ![t] = "INVALID"]
<1> DEFINE r == sched_removeblocked(k, t)
           s == k.state[t]
           q == dq_rem(k.blk[s], t)
<1>1. /\ k \in Kernel /\ k.blk[s] \in Seq(Task) /\ k.prio \in [Task -> Nat] /\ Inj(k.blk[s])
      /\ Prioritized(s) => Desc(k.blk[s], k.prio)
      /\ k.blk \in [BlockedStates -> Seq(Task)] /\ k.state \in [Task -> TaskStates]
  BY ListsFacts, KernelFields DEF Lists, Ordered
<1>2. t \in ToSet(k.blk[s])
  BY DEF Lists, Member
<1>3. /\ q \in Seq(Task) /\ Inj(q) /\ ToSet(q) = ToSet(k.blk[s]) \ {t}
      /\ Prioritized(s) => Desc(q, k.prio)
  BY <1>1, <1>2, RemFacts
<1>a. k \in Kernel /\ s \in BlockedStates /\ q \in Seq(Task)
  BY <1>1, <1>3
<1>4. r = [k EXCEPT !.blk[s] = q, !.state[t] = "INVALID"]
  BY DEF sched_removeblocked
<1> HIDE DEF q, s, r
<1>5. /\ r \in Kernel
      /\ r.rtr = k.rtr /\ r.pend = k.pend /\ r.prio = k.prio /\ r.lock = k.lock
      /\ r.slice = k.slice /\ r.panic = k.panic
      /\ r.blk = [k.blk EXCEPT ![s] = q]
      /\ r.state = [k.state EXCEPT ![t] = "INVALID"]
  BY <1>a, <1>4 DEF Kernel, TaskStates
<1>6. \A x \in BlockedStates : r.blk[x] = IF x = s THEN q ELSE k.blk[x]
  BY <1>1, <1>5, <1>a
<1>7. Ordered(r)
  <2>1. Ordered(k)
    BY DEF Lists
  <2> QED BY <1>3, <1>5, <1>6, <2>1 DEF Ordered
<1>8. s \notin {"READYTORUN", "RUNNING", "PENDING", "INVALID"}
  BY <1>a DEF BlockedStates, WaitStates
<1>b. "INVALID" \notin BlockedStates
  BY DEF BlockedStates, WaitStates
<1>9. ASSUME NEW u \in Task PROVE Member(r, u)
  <2>1. Member(k, u)
    BY DEF Lists
  <2>2. r.state[u] = IF u = t THEN "INVALID" ELSE k.state[u]
    BY <1>1, <1>5
  <2>3. CASE u = t
    BY <2>1, <2>2, <2>3, <1>3, <1>5, <1>6, <1>8, <1>b, SMT DEF Member, s
  <2>4. CASE u # t
    BY <2>1, <2>2, <2>4, <1>3, <1>5, <1>6 DEF Member
  <2> QED BY <2>3, <2>4
<1>10. Lists(r)
  BY <1>5, <1>7, <1>9 DEF Lists
<1>11. HeadRuns(k) => HeadRuns(r)
  BY <1>1, <1>5, <1>8, SMT DEF HeadRuns, s
<1> QED
  BY <1>5, <1>10, <1>11 DEF r

\* The priority of a task in no list may be set freely.
LEMMA SetPrioInvalid ==
  ASSUME NEW k, Lists(k), NEW t \in Task \ {Idle}, k.state[t] = "INVALID",
         NEW p \in Nat, p >= SCHED_PRIORITY_MIN
  PROVE  /\ Lists([k EXCEPT !.prio[t] = p])
         /\ HeadRuns(k) => HeadRuns([k EXCEPT !.prio[t] = p])
<1> DEFINE r == [k EXCEPT !.prio[t] = p]
<1>1. k \in Kernel /\ t \in Task
  BY ListsFacts
<1>2. /\ r \in Kernel
      /\ r.rtr = k.rtr /\ r.pend = k.pend /\ r.blk = k.blk /\ r.lock = k.lock
      /\ r.slice = k.slice /\ r.panic = k.panic /\ r.state = k.state
      /\ r.prio = [k.prio EXCEPT ![t] = p]
  BY <1>1 DEF Kernel
<1> HIDE DEF r
<1>3. /\ t \notin ToSet(k.rtr) /\ t \notin ToSet(k.pend)
      /\ \A s \in BlockedStates : t \notin ToSet(k.blk[s])
  BY InvalidNowhere
<1>4. Ordered(r)
  <2>1. Ordered(k)
    BY DEF Lists
  <2>2. /\ k.rtr \in Seq(Task) /\ k.pend \in Seq(Task) /\ k.prio \in [Task -> Nat]
        /\ \A s \in BlockedStates : k.blk[s] \in Seq(Task)
    BY <1>1, KernelFields
  <2>a. Desc(k.rtr, k.prio) /\ Desc(k.pend, k.prio)
    BY <2>1 DEF Ordered
  <2>3. /\ Desc(k.rtr, [k.prio EXCEPT ![t] = p])
        /\ Desc(k.pend, [k.prio EXCEPT ![t] = p])
    BY <1>1, <1>3, <2>a, <2>2, DescOther
  <2>4. ASSUME NEW s \in BlockedStates, Prioritized(s)
        PROVE  Desc(k.blk[s], [k.prio EXCEPT ![t] = p])
    <3>1. Desc(k.blk[s], k.prio) /\ k.blk[s] \in Seq(Task) /\ t \notin ToSet(k.blk[s])
      BY <1>3, <2>1, <2>2, <2>4 DEF Ordered
    <3> QED BY <1>1, <2>2, <3>1, DescOther
  <2> QED BY <1>2, <2>1, <2>3, <2>4 DEF Ordered
<1>5. \A u \in Task : Member(r, u)
  BY <1>2, SMT DEF Lists, Member
<1>6. IdleLowest(r.prio)
  <2>1. k.prio \in [Task -> Nat] /\ IdleLowest(k.prio)
    BY <1>1, KernelFields DEF Lists
  <2> QED BY <1>2, <2>1, SMT DEF IdleLowest, SCHED_PRIORITY_MIN
<1> QED
  BY <1>2, <1>4, <1>5, <1>6 DEF Lists, HeadRuns, r

\* Setting the priority of a task in no list, with the other fields.
LEMMA SetPrioFields ==
  ASSUME NEW k \in Kernel, NEW t \in Task, NEW p \in Nat
  PROVE  LET r == [k EXCEPT !.prio[t] = p]
         IN  /\ r \in Kernel /\ r.rtr = k.rtr /\ r.pend = k.pend /\ r.lock = k.lock
             /\ r.state = k.state /\ r.slice = k.slice
             /\ r.prio = [k.prio EXCEPT ![t] = p] /\ r.prio[t] = p
BY DEF Kernel

\* The loop of sched_mergepending(), unrolled once.
LEMMA MergeLoopDef ==
  ASSUME NEW k \in Kernel
  PROVE  \A n \in 0..Len(k.pend) :
           MergeLoop(k)[n] = IF n = 0 THEN [rtr |-> k.rtr, at |-> 1]
                             ELSE MergeOne(MergeLoop(k)[n-1], k.prio, k.pend[n])
<1> DEFINE N == Len(k.pend)
           Body(f, n) == IF n = 0 THEN [rtr |-> k.rtr, at |-> 1]
                         ELSE MergeOne(f[n-1], k.prio, k.pend[n])
           Def(m) == \E f : f = [n \in 0..m |-> Body(f, n)]
           Bad == {m \in 0..N : ~Def(m)}
<1>1. N \in Nat
  BY SMT DEF Kernel
<1>2. Bad = {}
  <2> SUFFICES ASSUME Bad # {} PROVE FALSE
    OBVIOUS
  <2>0. Bad \in SUBSET Nat
    BY <1>1, SMT
  <2>1. PICK m \in Bad : \A n \in Bad : m <= n
    <3> HIDE DEF Bad
    <3> QED BY <2>0, LeastElement
  <2>2. m # 0
    <3>1. [n \in 0..0 |-> [rtr |-> k.rtr, at |-> 1]] = [n \in 0..0 |-> Body([i \in 0..0 |-> [rtr |-> k.rtr, at |-> 1]], n)]
      BY SMT
    <3>2. Def(0)
      BY <3>1
    <3> QED BY <3>2, <2>1
  <2>3. m-1 \in 0..N /\ Def(m-1)
    <3> HIDE DEF Def
    <3> QED BY <1>1, <2>1, <2>2, SMT
  <2>4. PICK f : f = [n \in 0..m-1 |-> Body(f, n)]
    BY <2>3
  <2> DEFINE g == [n \in 0..m |-> IF n < m THEN f[n] ELSE Body(f, m)]
  <2>5. \A n \in 0..m : g[n] = Body(g, n)
    <3> TAKE n \in 0..m
    <3>1. CASE n = 0
      BY <3>1, <1>1, <2>1, <2>2, <2>4, SMT
    <3>2. CASE n # 0
      <4>1. n-1 \in 0..m /\ n-1 < m /\ g[n-1] = f[n-1]
        BY <3>2, <1>1, <2>1, SMT
      <4>2. Body(g, n) = Body(f, n)
        BY <4>1, <3>2
      <4>3. n < m => f[n] = Body(f, n)
        <5> HIDE DEF Body
        <5> QED BY <2>4, <2>1, <1>1, SMT
      <4> HIDE DEF Body
      <4> QED BY <4>2, <4>3, <2>1, <1>1, SMT
    <3> QED BY <3>1, <3>2
  <2>6. g = [n \in 0..m |-> Body(g, n)]
    <3> HIDE DEF Body
    <3>1. g = [n \in 0..m |-> g[n]]
      OBVIOUS
    <3> HIDE DEF g
    <3> QED BY <3>1, <2>5
  <2>7. Def(m)
    <3> HIDE DEF g, Body
    <3> QED BY <2>6
  <2> QED BY <2>7, <2>1
<1>3. Def(N)
  <2> HIDE DEF Def
  <2> QED BY <1>1, <1>2, SMT
<1>4. MergeLoop(k) = [n \in 0..N |-> Body(MergeLoop(k), n)]
  BY <1>3 DEF MergeLoop
<1> QED
  BY <1>4

\* The loop of sched_mergepending() after n tasks: m.rtr is well formed and
\* holds them, and nothing before m.at has a lower priority than the last one.
MergeInv(k, m, n) ==
  /\ m.rtr \in Seq(Task) /\ m.rtr # << >> /\ Inj(m.rtr) /\ Desc(m.rtr, k.prio)
  /\ Last(m.rtr) = Idle
  /\ ToSet(m.rtr) = ToSet(k.rtr) \cup {k.pend[i] : i \in 1..n}
  /\ Head(m.rtr) \in {Head(k.rtr)} \cup {k.pend[i] : i \in 1..n}
  /\ m.at \in 1..Len(m.rtr)+1
  /\ \A i \in 1..m.at-1 : n > 0 /\ k.prio[m.rtr[i]] >= k.prio[k.pend[n]]

\* The n-th pending task is not in g_readytorun, and is no better than those
\* before it.
LEMMA PendFacts ==
  ASSUME NEW k, Lists(k), NEW n \in 1..Len(k.pend)
  PROVE  /\ k.pend[n] \in Task \ {Idle} /\ k.pend[n] \notin ToSet(k.rtr)
         /\ \A i \in 1..n-1 : k.pend[i] # k.pend[n] /\ k.prio[k.pend[i]] >= k.prio[k.pend[n]]
<1>1. k.pend \in Seq(Task) /\ Inj(k.pend) /\ Desc(k.pend, k.prio)
  BY ListsFacts, KernelFields DEF Lists, Ordered
<1>2. k.pend[n] \in Task /\ k.pend[n] \in ToSet(k.pend)
  BY <1>1, InToSet, SMT
<1>3. Member(k, k.pend[n])
  BY <1>2 DEF Lists
<1>4. k.pend[n] \notin ToSet(k.rtr)
  BY <1>2, <1>3 DEF Member
<1>5. Idle \in ToSet(k.rtr)
  BY ListsFacts
<1>6. \A i \in 1..n-1 : i \in 1..Len(k.pend) /\ i < n /\ i # n
  BY <1>1, SMT
<1>7. \A i \in 1..n-1 : k.pend[i] # k.pend[n] /\ k.prio[k.pend[i]] >= k.prio[k.pend[n]]
  BY <1>1, <1>6 DEF Inj, Desc
<1> QED BY <1>2, <1>4, <1>5, <1>7

\* One iteration of the loop keeps the loop invariant.
LEMMA MergeStep ==
  ASSUME NEW k, Lists(k), NEW n \in 1..Len(k.pend), NEW m, MergeInv(k, m, n-1)
  PROVE  MergeInv(k, MergeOne(m, k.prio, k.pend[n]), n)
<1> DEFINE t == k.pend[n]
           p == Slot(m.rtr, m.at, k.prio, t)
           q == InsertAt(m.rtr, p, t)
           r == MergeOne(m, k.prio, t)
<1>1. /\ m.rtr \in Seq(Task) /\ m.rtr # << >> /\ Inj(m.rtr) /\ Desc(m.rtr, k.prio)
      /\ Last(m.rtr) = Idle
      /\ ToSet(m.rtr) = ToSet(k.rtr) \cup {k.pend[i] : i \in 1..n-1}
      /\ Head(m.rtr) \in {Head(k.rtr)} \cup {k.pend[i] : i \in 1..n-1}
      /\ m.at \in 1..Len(m.rtr)+1
  BY DEF MergeInv
<1>2. \A i \in 1..m.at-1 : n-1 > 0 /\ k.prio[m.rtr[i]] >= k.prio[k.pend[n-1]]
  BY DEF MergeInv
<1>a. k.pend \in Seq(Task) /\ k.prio \in [Task -> Nat] /\ IdleLowest(k.prio)
  BY ListsFacts, KernelFields DEF Lists
<1>b. Len(k.pend) \in Nat /\ n \in Nat
  BY <1>a, SMT
<1>c. /\ t \in Task /\ t # Idle /\ t \notin ToSet(k.rtr)
      /\ \A i \in 1..n-1 : k.pend[i] # t /\ k.prio[k.pend[i]] >= k.prio[t]
  BY PendFacts
<1>3. t \notin ToSet(m.rtr)
  BY <1>1, <1>c
<1>4. \A i \in 1..m.at-1 : k.prio[m.rtr[i]] >= k.prio[t]
  <2> TAKE i \in 1..m.at-1
  <2>1. n-1 \in 1..n-1 /\ k.prio[m.rtr[i]] >= k.prio[k.pend[n-1]]
    BY <1>2, <1>b, SMT
  <2>2. k.prio[k.pend[n-1]] >= k.prio[t]
    BY <1>c, <2>1
  <2>3. m.rtr[i] \in Task /\ k.pend[n-1] \in Task
    <3>1. i \in 1..Len(m.rtr)
      BY <1>1, SMT
    <3>2. n-1 \in 1..Len(k.pend)
      BY <1>b, <2>1, SMT
    <3>3. m.rtr[i] \in Task
      BY <1>1, <3>1, ElementOfSeq
    <3>4. k.pend[n-1] \in Task
      BY <1>a, <3>2, ElementOfSeq
    <3> QED BY <3>3, <3>4
  <2>4. k.prio[m.rtr[i]] \in Nat /\ k.prio[k.pend[n-1]] \in Nat /\ k.prio[t] \in Nat
    BY <1>a, <1>c, <2>3
  <2> HIDE DEF t
  <2> QED BY <2>1, <2>2, <2>4, SMT
<1>5. k.prio[Last(m.rtr)] < k.prio[t]
  BY <1>1, <1>a, <1>c, SMTT(20) DEF IdleLowest
<1> HIDE DEF t
<1>6. /\ p \in m.at..Len(m.rtr)+1
      /\ q \in Seq(Task) /\ Len(q) = Len(m.rtr) + 1
      /\ Inj(q) /\ Desc(q, k.prio)
      /\ ToSet(q) = ToSet(m.rtr) \cup {t}
      /\ Head(q) = IF p = 1 THEN t ELSE Head(m.rtr)
      /\ Last(q) = Last(m.rtr)
      /\ \A i \in 1..p : k.prio[q[i]] >= k.prio[t]
  <2>1. Insertable(m.rtr, k.prio, t, m.at)
    BY <1>1, <1>3, <1>4, <1>5, <1>a, <1>c DEF Insertable
  <2>2. Inserted(m.rtr, k.prio, t, m.at)
    BY <2>1, InsertPacked
  <2> QED BY <1>1, <1>5, <2>2 DEF Inserted
<1>7. r.rtr = q /\ r.at = p
  BY DEF MergeOne
<1>8. {k.pend[i] : i \in 1..n} = {k.pend[i] : i \in 1..n-1} \cup {t}
  <2>1. \A i \in 1..n : i = n \/ i \in 1..n-1
    BY <1>b, SMT
  <2>2. \A i \in 1..n-1 : i \in 1..n
    BY <1>b, SMT
  <2> QED BY <2>1, <2>2, <1>b, SMT DEF t
<1>d. q # << >> /\ p \in 1..Len(q)+1
  BY <1>1, <1>6, SMT
<1> HIDE DEF q, p, r
<1>e. \A i \in 1..p-1 : n > 0 /\ k.prio[q[i]] >= k.prio[k.pend[n]]
  <2> TAKE i \in 1..p-1
  <2>1. i \in 1..p /\ n > 0
    BY <1>b, <1>d, SMT
  <2> QED BY <2>1, <1>6 DEF t
<1>f. Head(q) \in {Head(k.rtr)} \cup {k.pend[i] : i \in 1..n}
  BY <1>1, <1>6, <1>8
<1>9. MergeInv(k, r, n)
  BY <1>1, <1>6, <1>7, <1>8, <1>d, <1>e, <1>f DEF MergeInv
<1> QED BY <1>9 DEF r, t

\* The loop invariant holds when the loop ends.
LEMMA MergeAll ==
  ASSUME NEW k, Lists(k)
  PROVE  MergeInv(k, MergeLoop(k)[Len(k.pend)], Len(k.pend))
<1> DEFINE N == Len(k.pend)
           Bad == {n \in 0..N : ~MergeInv(k, MergeLoop(k)[n], n)}
<1>0. k \in Kernel /\ N \in Nat
  BY ListsFacts, KernelFields, SMT
<1>1. \A n \in 0..N : MergeLoop(k)[n] = IF n = 0 THEN [rtr |-> k.rtr, at |-> 1]
                             ELSE MergeOne(MergeLoop(k)[n-1], k.prio, k.pend[n])
  BY <1>0, MergeLoopDef
<1>2. MergeInv(k, MergeLoop(k)[0], 0)
  <2>1. /\ k.rtr \in Seq(Task) /\ k.rtr # << >> /\ Inj(k.rtr) /\ Desc(k.rtr, k.prio)
        /\ Last(k.rtr) = Idle
    BY <1>0, KernelFields DEF Lists, Ordered
  <2>2. MergeLoop(k)[0] = [rtr |-> k.rtr, at |-> 1]
    BY <1>0, <1>1, SMT
  <2>3. {k.pend[i] : i \in 1..0} = {}
    BY SMT
  <2>4. MergeLoop(k)[0].rtr = k.rtr /\ MergeLoop(k)[0].at = 1
    BY <2>2, SMT
  <2>5. 1 \in 1..Len(k.rtr)+1 /\ 1..1-1 = {}
    BY <2>1, SMT
  <2> QED BY <2>1, <2>3, <2>4, <2>5 DEF MergeInv
<1>3. Bad = {}
  <2> SUFFICES ASSUME Bad # {} PROVE FALSE
    OBVIOUS
  <2>0. Bad \in SUBSET Nat
    BY <1>0, SMT
  <2>1. PICK n \in Bad : \A x \in Bad : n <= x
    <3> HIDE DEF Bad
    <3> QED BY <2>0, LeastElement
  <2>2. n # 0 /\ n \in 1..N /\ n-1 \in 0..N /\ n-1 < n
    BY <1>0, <1>2, <2>1, SMT
  <2>3. MergeInv(k, MergeLoop(k)[n-1], n-1)
    BY <2>1, <2>2, SMT
  <2>4. MergeInv(k, MergeOne(MergeLoop(k)[n-1], k.prio, k.pend[n]), n)
    BY <2>2, <2>3, MergeStep
  <2>5. MergeInv(k, MergeLoop(k)[n], n)
    BY <1>1, <2>2, <2>4
  <2> QED BY <2>1, <2>5
<1> QED BY <1>0, <1>3, SMT

\* sched_mergepending: no PANIC, every pending task becomes ready to run.
LEMMA Merge ==
  ASSUME NEW k, Lists(k)
  PROVE  LET r == sched_mergepending(k)
         IN  /\ Lists(r) /\ (HeadRuns(k) => HeadRuns(r))
             /\ r.pend = << >> /\ r.prio = k.prio /\ r.lock = k.lock /\ r.slice = k.slice
             /\ Running(r) \in {Running(k)} \cup ToSet(k.pend)
             /\ \A u \in Task : k.state[u] = "INVALID" => r.state[u] = "INVALID"
<1> DEFINE r == sched_mergepending(k)
           q == MergeLoop(k)[Len(k.pend)].rtr
           P == ToSet(k.pend)
           st == [t \in Task |->
                    IF t \in P
                    THEN IF t = Head(q) THEN "RUNNING" ELSE "READYTORUN"
                    ELSE IF t = Running(k) /\ t # Head(q) THEN "READYTORUN"
                    ELSE k.state[t]]
<1>1. k \in Kernel /\ k.pend \in Seq(Task) /\ Len(k.pend) \in Nat /\ Last(k.rtr) = Idle
      /\ k.state \in [Task -> TaskStates] /\ Running(k) \in ToSet(k.rtr) /\ Running(k) \in Task
  BY ListsFacts, KernelFields, SMT
<1>2. P = {k.pend[i] : i \in 1..Len(k.pend)}
  BY <1>1, InToSet
<1>3. /\ q \in Seq(Task) /\ q # << >> /\ Inj(q) /\ Desc(q, k.prio)
      /\ Last(q) = Idle
      /\ ToSet(q) = ToSet(k.rtr) \cup P
      /\ Head(q) \in {Running(k)} \cup P
  BY <1>2, MergeAll DEF MergeInv, Running
<1>4. r = ASSERT([k EXCEPT !.rtr = q, !.pend = << >>, !.state = st], TRUE)
  BY <1>1, <1>3 DEF sched_mergepending
<1>5. st \in [Task -> TaskStates]
  BY <1>1 DEF TaskStates
<1>a. k \in Kernel /\ q \in Seq(Task)
  BY <1>1, <1>3
<1>b. \A u \in Task : st[u] = IF u \in P
                    THEN IF u = Head(q) THEN "RUNNING" ELSE "READYTORUN"
                    ELSE IF u = Running(k) /\ u # Head(q) THEN "READYTORUN"
                    ELSE k.state[u]
  OBVIOUS
<1> HIDE DEF q, st, r, P
<1>6. /\ r \in Kernel
      /\ r.rtr = q /\ r.pend = << >> /\ r.blk = k.blk /\ r.prio = k.prio /\ r.lock = k.lock
      /\ r.slice = k.slice /\ r.panic = (k.panic \/ ~TRUE)
      /\ r.state = st
  <2> DEFINE e == << >>
  <2>1. e \in Seq(Task) /\ r = ASSERT([k EXCEPT !.rtr = q, !.pend = e, !.state = st], TRUE)
    BY <1>4, SMT
  <2> HIDE DEF e
  <2>2. /\ r \in Kernel
        /\ r.rtr = q /\ r.pend = e /\ r.blk = k.blk /\ r.prio = k.prio /\ r.lock = k.lock
        /\ r.slice = k.slice /\ r.panic = (k.panic \/ ~TRUE)
        /\ r.state = st
    BY <2>1, <1>5, <1>a DEF Kernel, ASSERT
  <2> QED BY <2>2 DEF e
<1>7. ASSUME NEW u \in Task PROVE Member(r, u)
  <2>1. Member(k, u) /\ (u = Running(k) => u \in ToSet(k.rtr))
    BY <1>1 DEF Lists
  <2>2. r.state[u] = IF u \in P
                    THEN IF u = Head(q) THEN "RUNNING" ELSE "READYTORUN"
                    ELSE IF u = Running(k) /\ u # Head(q) THEN "READYTORUN"
                    ELSE k.state[u]
    BY <1>6, <1>b
  <2>3. ToSet(r.pend) = {}
    BY <1>6, EmptySet
  <2>4. CASE u \in P
    BY <2>1, <2>2, <2>3, <2>4, <1>3, <1>6 DEF Member, BlockedStates, WaitStates, P
  <2>5. CASE u \notin P
    BY <2>1, <2>2, <2>3, <2>5, <1>3, <1>6 DEF Member, BlockedStates, WaitStates, P
  <2> QED BY <2>4, <2>5
<1>8. Ordered(r)
  <2>1. Ordered(k)
    BY DEF Lists
  <2>2. Inj(r.pend) /\ Desc(r.pend, r.prio)
    BY <1>6, SMT DEF Inj, Desc
  <2> QED BY <1>3, <1>6, <2>1, <2>2 DEF Ordered
<1>9. Lists(r)
  BY <1>3, <1>6, <1>7, <1>8 DEF Lists
<1>10. HeadRuns(k) => HeadRuns(r)
  <2> SUFFICES ASSUME HeadRuns(k), NEW u \in Task
               PROVE  r.state[u] = "RUNNING" <=> u = Head(r.rtr)
    BY DEF HeadRuns
  <2>1. k.state[u] = "RUNNING" <=> u = Running(k)
    BY DEF HeadRuns, Running
  <2> QED BY <1>3, <1>6, <1>b, <2>1
<1>11. ASSUME NEW u \in Task, k.state[u] = "INVALID" PROVE r.state[u] = "INVALID"
  <2>1. u \notin P /\ u # Running(k)
    BY <1>1, <1>11, InvalidNowhere DEF P
  <2> QED BY <1>6, <1>11, <1>b, <2>1
<1> QED
  BY <1>3, <1>6, <1>9, <1>10, <1>11 DEF r, Running, P

-----------------------------------------------------------------------------
(* Context switches and scheduler services.                                *)

\* r differs from k only in fields that the lists do not depend on.
SameLists(k, r) ==
  /\ r \in Kernel
  /\ r.rtr = k.rtr /\ r.pend = k.pend /\ r.blk = k.blk
  /\ r.state = k.state /\ r.prio = k.prio /\ r.panic = k.panic

\* Such a change keeps the lists well formed.
LEMMA SameListsInv ==
  ASSUME NEW k, NEW r, SameLists(k, r), Lists(k)
  PROVE  Lists(r) /\ (HeadRuns(k) => HeadRuns(r)) /\ Running(r) = Running(k)
<1>1. /\ r \in Kernel
      /\ r.rtr = k.rtr /\ r.pend = k.pend /\ r.blk = k.blk
      /\ r.state = k.state /\ r.prio = k.prio /\ r.panic = k.panic
  BY DEF SameLists
<1>2. \A u \in Task : Member(r, u)
  BY <1>1, SMT DEF Lists, Member
<1>3. Ordered(r)
  BY <1>1 DEF Lists, Ordered
<1> QED BY <1>1, <1>2, <1>3 DEF Lists, HeadRuns, Running

\* A change of a lockcount is one, and so is a change of a time slice.
LEMMA SetLock ==
  ASSUME NEW k, Lists(k), NEW t \in Task, NEW n \in Nat
  PROVE  LET r == [k EXCEPT !.lock[t] = n]
         IN  SameLists(k, r) /\ r.lock = [k.lock EXCEPT ![t] = n] /\ r.slice = k.slice
<1>1. k \in Kernel
  BY DEF Lists
<1> QED BY <1>1 DEF Kernel, SameLists

\* A change of a time slice, field by field.
LEMMA SetSlice ==
  ASSUME NEW k, Lists(k), NEW t \in Task, NEW n \in Int
  PROVE  LET r == [k EXCEPT !.slice[t] = n]
         IN  SameLists(k, r) /\ r.slice = [k.slice EXCEPT ![t] = n] /\ r.lock = k.lock
<1>1. k \in Kernel
  BY DEF Lists
<1> QED BY <1>1 DEF Kernel, SameLists

\* A change of a time slice.
LEMMA SliceInv ==
  ASSUME NEW k, KInv(k), NEW t \in Task, NEW n \in Int
  PROVE  LET r == [k EXCEPT !.slice[t] = n]
         IN  KInv(r) /\ SameLists(k, r) /\ r.lock = k.lock
<1> DEFINE r == [k EXCEPT !.slice[t] = n]
<1>1. SameLists(k, r) /\ r.lock = k.lock
  BY SetSlice DEF KInv
<1> HIDE DEF r
<1>2. Lists(r) /\ (HeadRuns(k) => HeadRuns(r)) /\ Running(r) = Running(k)
  BY <1>1, SameListsInv DEF KInv
<1>3. r.pend = k.pend
  BY <1>1 DEF SameLists
<1>4. KInv(r)
  BY <1>1, <1>2, <1>3 DEF KInv
<1> QED BY <1>1, <1>4 DEF r

\* sched_lock below the limit.
LEMMA LockInv ==
  ASSUME NEW k, Lists(k), k.lock[Running(k)] < MAX_LOCK_COUNT
  PROVE  LET r == sched_lock(k)
         IN  /\ SameLists(k, r) /\ r.slice = k.slice
             /\ r.lock = [k.lock EXCEPT ![Running(k)] = @ + 1]
             /\ Lists(r) /\ (KInv(k) => KInv(r))
<1> DEFINE r == sched_lock(k)
           h == Running(k)
           n == k.lock[h] + 1
           k1 == [k EXCEPT !.lock[h] = n]
<1>1. h \in Task /\ k.lock \in [Task -> Nat]
  BY ListsFacts, KernelFields
<1>2. n \in Nat
  BY <1>1, SMT
<1> HIDE DEF n
<1>3. SameLists(k, k1) /\ k1.lock = [k.lock EXCEPT ![h] = n] /\ k1.slice = k.slice
  BY <1>1, <1>2, SetLock, SMT
<1>4. k1 \in Kernel
  BY <1>3 DEF SameLists
<1>5. r = ASSERT(k1, k.lock[h] < MAX_LOCK_COUNT)
  BY DEF sched_lock, n
<1> HIDE DEF k1, r, h
<1>6. r = k1
  BY <1>4, <1>5, AssertTrue DEF h
<1>7. Lists(r) /\ (HeadRuns(k) => HeadRuns(r)) /\ Running(r) = h
  BY <1>3, <1>6, SameListsInv DEF h
<1>8. KInv(k) => KInv(r)
  <2>1. r.lock[h] > 0
    BY <1>1, <1>3, <1>6, SMT DEF n
  <2> QED BY <2>1, <1>7 DEF KInv
<1>9. r.lock = [k.lock EXCEPT ![h] = @ + 1]
  BY <1>3, <1>6, <1>1 DEF n
<1> QED BY <1>3, <1>6, <1>7, <1>8, <1>9 DEF r, h

\* sched_unlock: the pending tasks are merged when the count becomes zero.
LEMMA UnlockInv ==
  ASSUME NEW k, KInv(k)
  PROVE  LET r == sched_unlock(k)
         IN  /\ KInv(r)
             /\ r.lock = [k.lock EXCEPT ![Running(k)] = IF @ > 0 THEN @ - 1 ELSE 0]
             /\ \A u \in Task : k.state[u] = "INVALID" => r.state[u] = "INVALID"
             /\ r.prio = k.prio /\ r.slice = k.slice
<1> DEFINE r == sched_unlock(k)
           h == Running(k)
           n == IF k.lock[h] > 0 THEN k.lock[h] - 1 ELSE 0
           k1 == [k EXCEPT !.lock[h] = n]
<1>0. Lists(k) /\ HeadRuns(k)
  BY DEF KInv
<1>1. h \in Task /\ k.lock \in [Task -> Nat]
  BY <1>0, ListsFacts, KernelFields
<1>2. n \in Nat /\ n <= k.lock[h]
  BY <1>1, SMT
<1> HIDE DEF n
<1>3. SameLists(k, k1) /\ k1.lock = [k.lock EXCEPT ![h] = n] /\ k1.slice = k.slice
  BY <1>0, <1>1, <1>2, SetLock, ZenonT(40)
<1>4. r = IF k1.lock[h] = 0 /\ k1.pend # << >> THEN sched_mergepending(k1) ELSE k1
  BY DEF sched_unlock, up_release_pending, n
<1> HIDE DEF k1, r
<1>5. Lists(k1) /\ HeadRuns(k1) /\ Running(k1) = h
  BY <1>0, <1>3, SameListsInv
<1>6. k1.lock[h] \in Nat /\ k1.lock = [k.lock EXCEPT ![h] = IF @ > 0 THEN @ - 1 ELSE 0]
  BY <1>1, <1>2, <1>3 DEF n
<1>a. k1.prio = k.prio /\ k1.state = k.state
  BY <1>3 DEF SameLists
<1>7. CASE k1.lock[h] = 0 /\ k1.pend # << >>
  <2>1. /\ Lists(sched_mergepending(k1)) /\ HeadRuns(sched_mergepending(k1))
        /\ sched_mergepending(k1).pend = << >>
        /\ sched_mergepending(k1).lock = k1.lock
        /\ sched_mergepending(k1).prio = k1.prio
        /\ sched_mergepending(k1).slice = k1.slice
        /\ \A u \in Task : k1.state[u] = "INVALID" => sched_mergepending(k1).state[u] = "INVALID"
    BY <1>5, Merge
  <2>2. r = sched_mergepending(k1)
    BY <1>4, <1>7
  <2> QED BY <2>1, <2>2, <1>6, <1>3, <1>a DEF KInv, r
<1>8. CASE ~(k1.lock[h] = 0 /\ k1.pend # << >>)
  <2>1. r = k1
    BY <1>4, <1>8
  <2> QED BY <2>1, <1>8, <1>1, <1>5, <1>6, <1>3, <1>a, SMT DEF KInv, r
<1> QED BY <1>7, <1>8

\* up_block_task of the running task.
LEMMA BlockInv ==
  ASSUME NEW k, KInv(k), NEW t \in Task \ {Idle}, t = Running(k), NEW s \in BlockedStates
  PROVE  LET r == up_block_task(k, t, s)
         IN  KInv(r) /\ r.lock = k.lock /\ r.prio = k.prio /\ r.slice = k.slice
<1> DEFINE k1 == sched_removereadytorun(k, t)
           k2 == sched_addblocked(k1, t, s)
           r == sched_mergepending(k2)
<1>1. Lists(k) /\ HeadRuns(k) /\ k \in Kernel /\ t \in Task /\ t \in ToSet(k.rtr) \ {Idle}
  BY ListsFacts DEF KInv
<1>2. k.state[t] \in {"READYTORUN", "RUNNING"}
  BY <1>1 DEF Lists, Member
<1>3. up_block_task(k, t, s) = r
  BY <1>1, <1>2, AssertTrue DEF up_block_task
<1>4. Lists(k1) /\ HeadRuns(k1) /\ k1.state[t] = "INVALID" /\ k1.lock = k.lock /\ k1.prio = k.prio
      /\ k1.slice = k.slice
  BY <1>1, RemoveReady
<1> HIDE DEF k1
<1>5. Lists(k2) /\ HeadRuns(k2) /\ k2.lock = k.lock /\ k2.prio = k.prio /\ k2.slice = k.slice
  <2>1. Lists(k1) /\ HeadRuns(k1) /\ k1.state[t] = "INVALID" /\ t \in Task
    BY <1>1, <1>4
  <2>2. Lists(k2) /\ HeadRuns(k2) /\ k2.lock = k1.lock /\ k2.prio = k1.prio /\ k2.slice = k1.slice
    <3> HIDE DEF k2
    <3>1. LET r2 == sched_addblocked(k1, t, s)
          IN  Lists(r2) /\ (HeadRuns(k1) => HeadRuns(r2))
              /\ r2.prio = k1.prio /\ r2.lock = k1.lock /\ r2.slice = k1.slice
      BY <2>1, AddBlocked, ZenonT(60)
    <3> QED BY <2>1, <3>1 DEF k2
  <2> QED BY <1>4, <2>2
<1> HIDE DEF k2
<1>6. Lists(r) /\ HeadRuns(r) /\ r.pend = << >> /\ r.lock = k.lock /\ r.prio = k.prio /\ r.slice = k.slice
  BY <1>5, Merge
<1> QED BY <1>3, <1>6 DEF KInv

\* up_unblock_task: the task that runs with pre-emption disabled goes on.
LEMMA UnblockInv ==
  ASSUME NEW k, KInv(k), NEW t \in Task, k.state[t] \in BlockedStates
  PROVE  LET r == up_unblock_task(k, t)
         IN  /\ KInv(r) /\ r.lock = k.lock /\ r.prio = k.prio
             /\ k.lock[Running(k)] > 0 => Running(r) = Running(k)
<1> DEFINE k1 == sched_removeblocked(k, t)
           k2 == IF RRTicks > 0 THEN [k1 EXCEPT !.slice[t] = RRTicks] ELSE k1
           r == sched_addreadytorun(k2, t)
<1>1. Lists(k) /\ HeadRuns(k) /\ k \in Kernel /\ Running(k) \in Task
  BY ListsFacts DEF KInv
<1>2. up_unblock_task(k, t) = r
  BY <1>1, AssertTrue DEF up_unblock_task
<1>3. t # Idle
  BY <1>1, IdleReady DEF BlockedStates, WaitStates
<1>4. /\ Lists(k1) /\ HeadRuns(k1) /\ k1.rtr = k.rtr /\ k1.pend = k.pend
      /\ k1.lock = k.lock /\ k1.prio = k.prio /\ k1.state = [k.state EXCEPT ![t] = "INVALID"]
  BY <1>1, RemoveBlocked
<1>a. Running(k1) = Running(k)
  BY <1>4 DEF Running
<1>b. k1.state[t] = "INVALID"
  BY <1>1, <1>4, KernelFields
<1>5. KInv(k1)
  BY <1>4, <1>a DEF KInv
<1> HIDE DEF k1
<1>6. KInv(k2) /\ SameLists(k1, k2) /\ k2.lock = k.lock
  <2>1. CASE RRTicks > 0
    BY <2>1, <1>4, <1>5, SliceInv, RRAssumption, SMT
  <2>2. CASE ~(RRTicks > 0)
    BY <2>2, <1>4, <1>5 DEF SameLists, KInv, Lists
  <2> QED BY <2>1, <2>2
<1> HIDE DEF k2
<1>7. Lists(k2) /\ HeadRuns(k2) /\ k2.state[t] = "INVALID" /\ k2.pend = k.pend
      /\ Running(k2) = Running(k) /\ k2.prio = k.prio
  BY <1>4, <1>6, <1>a, <1>b DEF SameLists, KInv, Running
<1> DEFINE h == Running(k)
<1>8. /\ Lists(r) /\ HeadRuns(r) /\ r.lock = k.lock /\ r.prio = k.prio
      /\ Running(r) = IF k.lock[h] = 0 /\ k.prio[h] < k.prio[t] THEN t ELSE h
      /\ k.lock[h] = 0 => r.pend = k.pend
  BY <1>3, <1>6, <1>7, AddReady, SMT
<1>9. k.lock[h] \in Nat
  BY <1>1, KernelFields
<1> HIDE DEF r
<1>10. KInv(r)
  BY <1>8, <1>9, SMT DEF KInv
<1> QED BY <1>2, <1>8, <1>9, <1>10, SMT

\* Taking a task out of g_readytorun and putting it back with priority p.
LEMMA Reinsert ==
  ASSUME NEW k, KInv(k), NEW t \in ToSet(k.rtr) \ {Idle},
         NEW p \in Nat, p >= SCHED_PRIORITY_MIN
  PROVE  LET k1 == sched_removereadytorun(k, t)
             k2 == [k1 EXCEPT !.prio[t] = p]
             r == sched_addreadytorun(k2, t)
             h == Running(k1)
         IN  /\ Lists(r) /\ HeadRuns(r)
             /\ r.lock = k.lock /\ r.prio = [k.prio EXCEPT ![t] = p] /\ r.slice = k.slice
             /\ h \in Task /\ h # t
             /\ h = IF Running(k) = t THEN k.rtr[2] ELSE Running(k)
             /\ Running(r) = IF k.lock[h] = 0 /\ k.prio[h] < p THEN t ELSE h
             /\ k.lock[h] = 0 => r.pend = k.pend
<1> DEFINE k1 == sched_removereadytorun(k, t)
           k2 == [k1 EXCEPT !.prio[t] = p]
           r == sched_addreadytorun(k2, t)
           h == Running(k1)
<1>1. Lists(k) /\ HeadRuns(k) /\ k \in Kernel /\ k.rtr \in Seq(Task)
  BY ListsFacts, KernelFields DEF KInv
<1>2. t \in Task \ {Idle}
  BY <1>1, InToSet, SMT
<1>3. /\ Lists(k1) /\ HeadRuns(k1) /\ k1.state[t] = "INVALID"
      /\ k1.prio = k.prio /\ k1.lock = k.lock /\ k1.slice = k.slice /\ k1.pend = k.pend
      /\ h = IF Running(k) = t THEN k.rtr[2] ELSE Running(k)
  BY <1>1, RemoveReady
<1>4. k1 \in Kernel /\ k1.rtr # << >> /\ h \in Task /\ h \in ToSet(k1.rtr) /\ t \notin ToSet(k1.rtr)
  BY <1>2, <1>3, ListsFacts, InvalidNowhere
<1> HIDE DEF k1
<1>5. /\ Lists(k2) /\ HeadRuns(k2)
  BY <1>2, <1>3, SetPrioInvalid
<1>6. /\ k2 \in Kernel /\ k2.rtr = k1.rtr /\ k2.pend = k.pend /\ k2.lock = k.lock
      /\ k2.state = k1.state /\ k2.slice = k.slice
      /\ k2.prio = [k.prio EXCEPT ![t] = p] /\ k2.prio[t] = p
  <2>1. k1 \in Kernel /\ t \in Task
    BY <1>2, <1>4
  <2>2. /\ k2 \in Kernel /\ k2.rtr = k1.rtr /\ k2.pend = k1.pend /\ k2.lock = k1.lock
        /\ k2.state = k1.state /\ k2.slice = k1.slice
        /\ k2.prio = [k1.prio EXCEPT ![t] = p] /\ k2.prio[t] = p
    BY <2>1, SetPrioFields, SMT
  <2> QED BY <1>3, <2>2
<1> HIDE DEF k2
<1>7. h # t /\ Running(k2) = h
  BY <1>4, <1>6 DEF Running
<1>8. k2.prio[h] = k.prio[h]
  BY <1>1, <1>4, <1>6, <1>7, KernelFields
<1> HIDE DEF h
<1>9. /\ Lists(r) /\ HeadRuns(r) /\ r.lock = k.lock /\ r.prio = k2.prio /\ r.slice = k.slice
      /\ Running(r) = IF k.lock[h] = 0 /\ k.prio[h] < p THEN t ELSE h
      /\ k.lock[h] = 0 => r.pend = k.pend
  <2>1. Lists(k2) /\ HeadRuns(k2) /\ k2.state[t] = "INVALID"
    BY <1>3, <1>5, <1>6
  <2>2. /\ Lists(r) /\ HeadRuns(r) /\ r.lock = k2.lock /\ r.prio = k2.prio /\ r.slice = k2.slice
        /\ Running(r) = IF k2.lock[Running(k2)] = 0 /\ k2.prio[Running(k2)] < k2.prio[t]
                        THEN t ELSE Running(k2)
        /\ k2.lock[Running(k2)] = 0 => r.pend = k2.pend
    BY <1>2, <2>1, AddReady
  <2> HIDE DEF r
  <2> QED BY <1>6, <1>7, <1>8, <2>2
<1> HIDE DEF r
<1> QED BY <1>3, <1>4, <1>6, <1>7, <1>9 DEF k1, k2, r, h

\* up_reprioritize_rtr: removing, changing the priority and re-inserting keeps
\* the invariant, with the merge of the pending tasks exactly when the
\* exclusive or of the two switches asks for it.
LEMMA ReprioInv ==
  ASSUME NEW k, KInv(k), NEW t \in ToSet(k.rtr) \ {Idle},
         NEW p \in Nat, p >= SCHED_PRIORITY_MIN
  PROVE  LET r == up_reprioritize_rtr(k, t, p)
         IN  KInv(r) /\ r.lock = k.lock /\ r.prio = [k.prio EXCEPT ![t] = p]
<1> DEFINE k1 == sched_removereadytorun(k, t)
           k2 == [k1 EXCEPT !.prio[t] = p]
           z == sched_addreadytorun(k2, t)
           h == Running(k1)
           r == up_reprioritize_rtr(k, t, p)
<1>1. Lists(k) /\ HeadRuns(k) /\ k \in Kernel /\ k.rtr \in Seq(Task) /\ k.lock \in [Task -> Nat]
      /\ (k.pend # << >> => k.lock[Running(k)] > 0)
  BY ListsFacts, KernelFields DEF KInv
<1>2. t \in Task
  BY <1>1, InToSet, SMT
<1>3. k.state[t] \in {"READYTORUN", "RUNNING"}
  BY <1>1, <1>2 DEF Lists, Member
<1>4. ASSERT(k, k.state[t] \in {"READYTORUN", "RUNNING"} /\ p >= SCHED_PRIORITY_MIN) = k
  BY <1>1, <1>3, AssertTrue
<1>5. r = IF (Running(k) = t) # (Running(z) = t) THEN sched_mergepending(z) ELSE z
  BY <1>4 DEF up_reprioritize_rtr
<1>6. /\ Lists(z) /\ HeadRuns(z)
      /\ z.lock = k.lock /\ z.prio = [k.prio EXCEPT ![t] = p]
      /\ h \in Task /\ h # t
      /\ h = IF Running(k) = t THEN k.rtr[2] ELSE Running(k)
      /\ Running(z) = IF k.lock[h] = 0 /\ k.prio[h] < p THEN t ELSE h
      /\ k.lock[h] = 0 => z.pend = k.pend
  BY Reinsert, SMT
<1> HIDE DEF z, h, r
<1>7. CASE (Running(k) = t) # (Running(z) = t)
  <2>1. r = sched_mergepending(z)
    BY <1>5, <1>7
  <2>2. Lists(r) /\ HeadRuns(r) /\ r.pend = << >> /\ r.lock = z.lock /\ r.prio = z.prio
    BY <2>1, <1>6, Merge
  <2> QED BY <2>2, <1>6 DEF KInv, r
<1>8. CASE (Running(k) = t) = (Running(z) = t)
  <2>1. r = z
    BY <1>5, <1>8
  <2>2. z.pend # << >> => z.lock[Running(z)] > 0
    <3>1. k.lock[h] \in Nat
      BY <1>1, <1>6
    <3>2. CASE Running(k) = t
      BY <3>1, <3>2, <1>1, <1>6, <1>8
    <3>3. CASE Running(k) # t
      BY <3>1, <3>3, <1>1, <1>6, <1>8, SMT
    <3> QED BY <3>2, <3>3
  <2> QED BY <2>1, <2>2, <1>6 DEF KInv, r
<1> QED BY <1>7, <1>8

\* r is k after t got priority p and was moved within the lists.
Moved(k, r, t, p) ==
  /\ r \in Kernel
  /\ r.state = k.state /\ r.lock = k.lock /\ r.panic = k.panic
  /\ r.prio = [k.prio EXCEPT ![t] = p]
  /\ Running(r) = Running(k) /\ r.rtr # << >> /\ Last(r.rtr) = Idle
  /\ Ordered(r)
  /\ ToSet(r.rtr) = ToSet(k.rtr)
  /\ ToSet(r.pend) = ToSet(k.pend) /\ (r.pend # << >> => k.pend # << >>)
  /\ \A s \in BlockedStates : ToSet(r.blk[s]) = ToSet(k.blk[s])

\* Such a move keeps the invariant.
LEMMA MovedInv ==
  ASSUME NEW k, NEW r, NEW t \in Task \ {Idle}, NEW p \in Nat, p >= SCHED_PRIORITY_MIN,
         KInv(k), Moved(k, r, t, p)
  PROVE  KInv(r)
<1>1. /\ r \in Kernel
      /\ r.state = k.state /\ r.lock = k.lock /\ r.panic = k.panic
      /\ r.prio = [k.prio EXCEPT ![t] = p]
      /\ Running(r) = Running(k) /\ r.rtr # << >> /\ Last(r.rtr) = Idle
      /\ Ordered(r)
      /\ ToSet(r.rtr) = ToSet(k.rtr)
      /\ ToSet(r.pend) = ToSet(k.pend) /\ (r.pend # << >> => k.pend # << >>)
      /\ \A s \in BlockedStates : ToSet(r.blk[s]) = ToSet(k.blk[s])
  BY DEF Moved
<1>2. Lists(k) /\ HeadRuns(k) /\ (k.pend # << >> => k.lock[Running(k)] > 0)
  BY DEF KInv
<1>3. \A u \in Task : Member(r, u)
  BY <1>1, <1>2, SMT DEF Lists, Member
<1>4. IdleLowest(r.prio)
  <2>1. k.prio \in [Task -> Nat] /\ IdleLowest(k.prio)
    BY <1>2, ListsFacts, KernelFields DEF Lists
  <2> QED BY <1>1, <2>1, SMT DEF IdleLowest, SCHED_PRIORITY_MIN
<1>5. Lists(r)
  BY <1>1, <1>2, <1>3, <1>4 DEF Lists
<1>6. HeadRuns(r)
  BY <1>1, <1>2 DEF HeadRuns, Running
<1> QED BY <1>1, <1>2, <1>5, <1>6 DEF KInv

\* The other lists stay ordered when the priority of t changes.
LEMMA OthersOrdered ==
  ASSUME NEW k, Lists(k), NEW t \in Task, NEW p \in Nat
  PROVE  LET pr == [k.prio EXCEPT ![t] = p]
         IN  /\ k.state[t] \notin {"READYTORUN", "RUNNING"} => Desc(k.rtr, pr)
             /\ k.state[t] # "PENDING" => Desc(k.pend, pr)
             /\ \A s \in BlockedStates : k.state[t] # s /\ Prioritized(s) => Desc(k.blk[s], pr)
<1>1. Ordered(k) /\ Member(k, t)
  BY DEF Lists
<1>2. /\ k.rtr \in Seq(Task) /\ k.pend \in Seq(Task) /\ k.prio \in [Task -> Nat]
      /\ \A s \in BlockedStates : k.blk[s] \in Seq(Task)
  BY ListsFacts, KernelFields
<1>3. k.state[t] \notin {"READYTORUN", "RUNNING"} => Desc(k.rtr, [k.prio EXCEPT ![t] = p])
  <2>1. Desc(k.rtr, k.prio) /\ (k.state[t] \notin {"READYTORUN", "RUNNING"} => t \notin ToSet(k.rtr))
    BY <1>1 DEF Ordered, Member
  <2> QED BY <2>1, <1>2, DescOther
<1>4. k.state[t] # "PENDING" => Desc(k.pend, [k.prio EXCEPT ![t] = p])
  <2>1. Desc(k.pend, k.prio) /\ (k.state[t] # "PENDING" => t \notin ToSet(k.pend))
    BY <1>1 DEF Ordered, Member
  <2> QED BY <2>1, <1>2, DescOther
<1>5. ASSUME NEW s \in BlockedStates, k.state[t] # s, Prioritized(s)
      PROVE  Desc(k.blk[s], [k.prio EXCEPT ![t] = p])
  <2>1. Desc(k.blk[s], k.prio) /\ t \notin ToSet(k.blk[s]) /\ k.blk[s] \in Seq(Task)
    BY <1>1, <1>2, <1>5 DEF Ordered, Member
  <2> QED BY <2>1, <1>2, DescOther
<1> QED BY <1>3, <1>4, <1>5

\* sched_setpriority of the running task to a priority above the next one's.
LEMMA SetPrioRunning ==
  ASSUME NEW k, KInv(k), NEW t \in Task \ {Idle}, t = Running(k),
         NEW p \in Nat, p >= SCHED_PRIORITY_MIN, p > k.prio[k.rtr[2]]
  PROVE  KInv([k EXCEPT !.prio[t] = p]) /\ [k EXCEPT !.prio[t] = p].lock = k.lock
<1> DEFINE r == [k EXCEPT !.prio[t] = p]
           pr == [k.prio EXCEPT ![t] = p]
<1>1. Lists(k) /\ HeadRuns(k) /\ k \in Kernel /\ k.rtr \in Seq(Task) /\ k.prio \in [Task -> Nat]
      /\ Ordered(k) /\ Last(k.rtr) = Idle /\ k.rtr # << >>
  BY ListsFacts, KernelFields DEF KInv, Lists
<1>2. /\ r \in Kernel
      /\ r.rtr = k.rtr /\ r.pend = k.pend /\ r.blk = k.blk /\ r.lock = k.lock
      /\ r.slice = k.slice /\ r.panic = k.panic /\ r.state = k.state
      /\ r.prio = pr
  BY <1>1 DEF Kernel
<1>3. k.state[t] = "RUNNING"
  BY <1>1 DEF HeadRuns, Running
<1> DEFINE q == k.rtr
           po == k.prio
<1>a. q \in Seq(Task) /\ po \in [Task -> Nat] /\ Inj(q) /\ Desc(q, po) /\ q[1] = t
      /\ Len(q) \in Nat
  BY <1>1, SMT DEF Ordered, Running
<1>4. Desc(q, [po EXCEPT ![t] = p])
  <2> SUFFICES ASSUME NEW i \in 1..Len(q), NEW j \in 1..Len(q), i < j
               PROVE  [po EXCEPT ![t] = p][q[i]] >= [po EXCEPT ![t] = p][q[j]]
    BY DEF Desc
  <2>1. j # 1 /\ 1 \in 1..Len(q) /\ 2 \in 1..Len(q) /\ (j = 2 \/ 2 < j)
    BY <1>a, SMT
  <2>2. q[j] # t /\ q[j] \in Task /\ q[i] \in Task /\ q[2] \in Task
    BY <1>a, <2>1, SMT DEF Inj
  <2>3. po[q[2]] >= po[q[j]] /\ po[q[i]] >= po[q[j]]
    BY <1>a, <2>1, <2>2, SMT DEF Desc
  <2>4. po[q[2]] \in Nat /\ po[q[j]] \in Nat /\ po[q[i]] \in Nat /\ p > po[q[2]]
    BY <1>a, <2>2
  <2>5. [po EXCEPT ![t] = p][q[j]] = po[q[j]]
    BY <1>a, <2>2
  <2>6. [po EXCEPT ![t] = p][q[i]] = IF q[i] = t THEN p ELSE po[q[i]]
    BY <1>a, <2>2
  <2> HIDE DEF po, q
  <2> QED BY <2>3, <2>4, <2>5, <2>6, SMT
<1>5. /\ Desc(k.pend, pr)
      /\ \A s \in BlockedStates : Prioritized(s) => Desc(k.blk[s], pr)
  <2>1. k.state[t] # "PENDING" /\ \A s \in BlockedStates : k.state[t] # s
    BY <1>3 DEF BlockedStates, WaitStates
  <2> QED BY <1>1, <2>1, OthersOrdered
<1> HIDE DEF r, pr
<1>6. Ordered(r)
  BY <1>1, <1>2, <1>4, <1>5 DEF Ordered, pr
<1>7. Moved(k, r, t, p)
  BY <1>1, <1>2, <1>6 DEF Moved, Running, pr
<1> QED BY <1>2, <1>7, MovedInv DEF r

\* sched_setpriority of a pending task.
LEMMA SetPrioPending ==
  ASSUME NEW k, KInv(k), NEW t \in Task \ {Idle}, k.state[t] = "PENDING",
         NEW p \in Nat, p >= SCHED_PRIORITY_MIN
  PROVE  KInv(MovePending(k, t, p)) /\ MovePending(k, t, p).lock = k.lock
<1> DEFINE pr == [k.prio EXCEPT ![t] = p]
           w == sched_addprioritized(dq_rem(k.pend, t), pr, t)
           r == [k EXCEPT !.prio = pr, !.pend = w]
<1>1. Lists(k) /\ k \in Kernel /\ k.pend \in Seq(Task) /\ k.prio \in [Task -> Nat]
      /\ Ordered(k) /\ Last(k.rtr) = Idle /\ k.rtr # << >>
  BY ListsFacts, KernelFields DEF KInv, Lists
<1>2. t \in ToSet(k.pend) /\ Inj(k.pend) /\ Desc(k.pend, k.prio)
  BY <1>1 DEF Lists, Member, Ordered
<1>3. w \in Seq(Task) /\ w # << >> /\ Inj(w) /\ Desc(w, pr) /\ ToSet(w) = ToSet(k.pend)
  BY <1>1, <1>2, MoveFacts, SMT
<1>a. pr \in [Task -> Nat] /\ k.pend # << >>
  BY <1>1, <1>2, EmptySet
<1> HIDE DEF pr, w
<1>4. /\ r \in Kernel
      /\ r.rtr = k.rtr /\ r.pend = w /\ r.blk = k.blk /\ r.lock = k.lock
      /\ r.slice = k.slice /\ r.panic = k.panic /\ r.state = k.state
      /\ r.prio = pr
  <2>1. w \in Seq(Task) /\ pr \in [Task -> Nat] /\ k \in Kernel
    BY <1>1, <1>3, <1>a
  <2> QED BY <2>1 DEF Kernel
<1>5. /\ Desc(k.rtr, pr)
      /\ \A s \in BlockedStates : Prioritized(s) => Desc(k.blk[s], pr)
  <2>1. k.state[t] \notin {"READYTORUN", "RUNNING"} /\ \A s \in BlockedStates : k.state[t] # s
    BY DEF BlockedStates, WaitStates
  <2> QED BY <1>1, <2>1, OthersOrdered DEF pr
<1> HIDE DEF r
<1>6. Ordered(r)
  BY <1>1, <1>3, <1>4, <1>5 DEF Ordered
<1>7. Moved(k, r, t, p)
  BY <1>1, <1>3, <1>a, <1>4, <1>6 DEF Moved, Running, pr
<1>8. KInv(r) /\ r.lock = k.lock
  BY <1>4, <1>7, MovedInv
<1> QED BY <1>8 DEF r, pr, w, MovePending

\* sched_setpriority of a blocked task, in a prioritized list or not.
LEMMA SetPrioBlocked ==
  ASSUME NEW k, KInv(k), NEW t \in Task \ {Idle}, k.state[t] \in BlockedStates,
         NEW p \in Nat, p >= SCHED_PRIORITY_MIN
  PROVE  KInv(MoveBlocked(k, t, p)) /\ MoveBlocked(k, t, p).lock = k.lock
<1> DEFINE pr == [k.prio EXCEPT ![t] = p]
           z == k.state[t]
           w == IF Prioritized(z) THEN sched_addprioritized(dq_rem(k.blk[z], t), pr, t)
                                  ELSE k.blk[z]
           r == [k EXCEPT !.prio = pr, !.blk[z] = w]
<1>1. Lists(k) /\ k \in Kernel /\ k.blk[z] \in Seq(Task) /\ k.prio \in [Task -> Nat]
      /\ Ordered(k) /\ Last(k.rtr) = Idle /\ k.rtr # << >> /\ k.blk \in [BlockedStates -> Seq(Task)]
  BY ListsFacts, KernelFields DEF KInv, Lists
<1>2. t \in ToSet(k.blk[z]) /\ Inj(k.blk[z]) /\ (Prioritized(z) => Desc(k.blk[z], k.prio))
  BY <1>1 DEF Lists, Member, Ordered
<1>3. w \in Seq(Task) /\ Inj(w) /\ (Prioritized(z) => Desc(w, pr)) /\ ToSet(w) = ToSet(k.blk[z])
  <2>1. CASE Prioritized(z)
    <3>1. Desc(k.blk[z], k.prio)
      BY <2>1, <1>2
    <3> HIDE DEF z
    <3>2. LET x == sched_addprioritized(dq_rem(k.blk[z], t), pr, t)
          IN  x \in Seq(Task) /\ Inj(x) /\ Desc(x, pr) /\ ToSet(x) = ToSet(k.blk[z])
      BY <1>1, <1>2, <3>1, MoveFacts, SMT
    <3> QED BY <2>1, <3>2
  <2>2. CASE ~Prioritized(z)
    BY <2>2, <1>1, <1>2
  <2> QED BY <2>1, <2>2
<1>a. pr \in [Task -> Nat]
  BY <1>1
<1>b. z \in BlockedStates /\ z \notin {"READYTORUN", "RUNNING", "PENDING"}
  BY DEF BlockedStates, WaitStates
<1>5. /\ Desc(k.rtr, pr) /\ Desc(k.pend, pr)
      /\ \A s \in BlockedStates : s # z /\ Prioritized(s) => Desc(k.blk[s], pr)
  <2>1. k.state[t] \notin {"READYTORUN", "RUNNING"} /\ k.state[t] # "PENDING"
    BY <1>b
  <2> QED BY <1>1, <2>1, OthersOrdered
<1> HIDE DEF pr, w, z
<1>4. /\ r \in Kernel
      /\ r.rtr = k.rtr /\ r.pend = k.pend /\ r.blk = [k.blk EXCEPT ![z] = w] /\ r.lock = k.lock
      /\ r.slice = k.slice /\ r.panic = k.panic /\ r.state = k.state
      /\ r.prio = pr
  <2>1. w \in Seq(Task) /\ pr \in [Task -> Nat] /\ k \in Kernel
    BY <1>1, <1>3, <1>a
  <2> QED BY <2>1, <1>b DEF Kernel
<1> HIDE DEF r
<1>c. \A s \in BlockedStates : r.blk[s] = IF s = z THEN w ELSE k.blk[s]
  BY <1>1, <1>4, <1>b
<1>6. Ordered(r)
  BY <1>1, <1>3, <1>4, <1>5, <1>c DEF Ordered
<1>7. Moved(k, r, t, p)
  <2>1. \A s \in BlockedStates : ToSet(r.blk[s]) = ToSet(k.blk[s])
    BY <1>3, <1>c
  <2> QED BY <1>1, <1>4, <1>6, <2>1 DEF Moved, Running, pr
<1>8. KInv(r) /\ r.lock = k.lock
  BY <1>4, <1>7, MovedInv
<1> QED BY <1>8 DEF r, pr, w, z, MoveBlocked

\* The task after the running one.
LEMMA FlinkHead ==
  ASSUME NEW k, Lists(k)
  PROVE  Flink(k, Running(k)) = k.rtr[2]
<1> DEFINE t == Running(k)
           I == {i \in 1..Len(k.rtr) : k.rtr[i] = t}
<1>1. k.rtr \in Seq(Task) /\ k.rtr # << >> /\ Inj(k.rtr)
  BY ListsFacts, KernelFields DEF Lists, Ordered
<1>2. k.rtr[1] = t /\ 1 \in 1..Len(k.rtr)
  BY <1>1, SMT DEF Running
<1>3. I = {1}
  BY <1>1, <1>2, SMT DEF Inj
<1>4. Min(I) = 1
  <2>1. {1} \in SUBSET Nat /\ {1} # {}
    BY SMT
  <2> QED BY <1>3, <2>1, MinIsLeast
<1>5. SelectInSeq(k.rtr, LAMBDA u : u = t) = Min(I)
  BY <1>3 DEF SelectInSeq
<1> QED BY <1>4, <1>5, SMT DEF Flink

\* A ready task that stays behind the running one.
LEMMA SetPrioReady ==
  ASSUME NEW k, KInv(k), NEW t \in ToSet(k.rtr) \ {Idle}, t # Running(k),
         NEW p \in Nat, p >= SCHED_PRIORITY_MIN, k.prio[Running(k)] >= p
  PROVE  KInv(MoveReady(k, t, p)) /\ MoveReady(k, t, p).lock = k.lock
<1> DEFINE k1 == sched_removereadytorun(k, t)
           k2 == [k1 EXCEPT !.prio[t] = p]
           k3 == sched_addreadytorun(k2, t)
           h == Running(k)
           r == MoveReady(k, t, p)
<1>1. Lists(k) /\ k.prio \in [Task -> Nat] /\ k.lock \in [Task -> Nat] /\ h \in Task
  BY ListsFacts, KernelFields DEF KInv
<1>2. k1 \in Kernel
  BY <1>1, RemoveReady DEF Lists
<1>3. ASSERT(k1, h # t) = k1
  BY <1>2, AssertTrue
<1>4. r = ASSERT(k3, Running(k3) # t)
  BY <1>3 DEF MoveReady
<1> DEFINE n == Running(k1)
<1>5. /\ Lists(k3) /\ HeadRuns(k3)
      /\ k3.lock = k.lock /\ k3.prio = [k.prio EXCEPT ![t] = p]
      /\ n \in Task /\ n # t
      /\ n = IF Running(k) = t THEN k.rtr[2] ELSE Running(k)
      /\ Running(k3) = IF k.lock[n] = 0 /\ k.prio[n] < p THEN t ELSE n
      /\ k.lock[n] = 0 => k3.pend = k.pend
  BY Reinsert, SMT
<1> HIDE DEF k3, r, n
<1>6. n = h
  BY <1>5
<1>7. Running(k3) = h /\ k3 \in Kernel
  BY <1>1, <1>5, <1>6, SMT DEF Lists
<1>8. r = k3
  BY <1>4, <1>7, AssertTrue
<1>9. KInv(k3) /\ k3.lock = k.lock
  BY <1>1, <1>5, <1>6, <1>7, SMT DEF KInv
<1> QED BY <1>8, <1>9 DEF r

\* sched_setpriority keeps the lists whatever state the task is in.
LEMMA SetPriorityInv ==
  ASSUME NEW k, KInv(k), NEW t \in Task \ {Idle}, NEW p \in Nat, p >= SCHED_PRIORITY_MIN
  PROVE  LET r == sched_setpriority(k, t, p)
         IN  KInv(r) /\ r.lock = k.lock
<1> DEFINE r == sched_setpriority(k, t, p)
<1>1. Lists(k) /\ HeadRuns(k) /\ k \in Kernel /\ k.state \in [Task -> TaskStates]
      /\ k.prio \in [Task -> Nat] /\ k.lock \in [Task -> Nat] /\ Running(k) \in Task
      /\ Member(k, t)
  BY ListsFacts, KernelFields DEF KInv, Lists
<1>2. /\ k.state[t] = "RUNNING" <=> t = Running(k)
      /\ k.state[t] \in {"READYTORUN", "RUNNING"} => t \in ToSet(k.rtr) \ {Idle}
  BY <1>1 DEF HeadRuns, Running, Member
<1>3. CASE k.state[t] = "RUNNING"
  <2>1. Flink(k, t) = k.rtr[2] /\ t = Running(k)
    BY <1>1, <1>2, <1>3, FlinkHead
  <2>2. r = IF p <= k.prio[k.rtr[2]] THEN up_reprioritize_rtr(k, t, p) ELSE [k EXCEPT !.prio[t] = p]
    BY <1>3, <2>1 DEF sched_setpriority, BlockedStates, WaitStates
  <2>3. CASE p <= k.prio[k.rtr[2]]
    <3>1. t \in ToSet(k.rtr) \ {Idle}
      BY <1>2, <1>3
    <3>2. KInv(up_reprioritize_rtr(k, t, p)) /\ up_reprioritize_rtr(k, t, p).lock = k.lock
      BY <3>1, ReprioInv
    <3> QED BY <2>2, <2>3, <3>2
  <2>4. CASE ~(p <= k.prio[k.rtr[2]])
    <3>1. k.rtr[2] \in Task
      <4>1. k.rtr \in Seq(Task) /\ k.rtr # << >> /\ Last(k.rtr) = Idle /\ Len(k.rtr) \in Nat
        BY <1>1, KernelFields, ListsFacts, SMT
      <4>2. Len(k.rtr) >= 2
        BY <4>1, <2>1, SMT DEF Last, Running
      <4> QED BY <4>1, <4>2, SMT
    <3>2. p > k.prio[k.rtr[2]]
      BY <1>1, <2>4, <3>1, SMT
    <3>3. KInv([k EXCEPT !.prio[t] = p]) /\ [k EXCEPT !.prio[t] = p].lock = k.lock
      BY <2>1, <3>2, SetPrioRunning
    <3> QED BY <2>2, <2>4, <3>3
  <2> QED BY <2>3, <2>4
<1>4. CASE k.state[t] = "READYTORUN"
  <2>0. t \in ToSet(k.rtr) \ {Idle} /\ t # Running(k)
    BY <1>2, <1>4
  <2>a. r = IF p > k.prio[Running(k)] THEN up_reprioritize_rtr(k, t, p) ELSE MoveReady(k, t, p)
    BY <1>4 DEF sched_setpriority, BlockedStates, WaitStates
  <2> HIDE DEF r
  <2>1. CASE p > k.prio[Running(k)]
    <3>1. KInv(up_reprioritize_rtr(k, t, p)) /\ up_reprioritize_rtr(k, t, p).lock = k.lock
      BY <2>0, ReprioInv
    <3> QED BY <2>a, <2>1, <3>1 DEF r
  <2>2. CASE ~(p > k.prio[Running(k)])
    <3>1. k.prio[Running(k)] >= p
      BY <1>1, <2>2, SMT
    <3>2. KInv(MoveReady(k, t, p)) /\ MoveReady(k, t, p).lock = k.lock
      BY <2>0, <3>1, SetPrioReady
    <3> QED BY <2>a, <2>2, <3>2 DEF r
  <2> QED BY <2>1, <2>2
<1>5. CASE k.state[t] = "PENDING"
  <2>1. r = MovePending(k, t, p)
    BY <1>5 DEF sched_setpriority, BlockedStates, WaitStates
  <2>2. KInv(MovePending(k, t, p)) /\ MovePending(k, t, p).lock = k.lock
    BY <1>5, SetPrioPending
  <2> QED BY <2>1, <2>2
<1>6. CASE k.state[t] \in BlockedStates
  <2>0. k.state[t] \notin {"RUNNING", "READYTORUN", "PENDING"}
    BY <1>6 DEF BlockedStates, WaitStates
  <2>1. r = MoveBlocked(k, t, p)
    BY <1>6, <2>0 DEF sched_setpriority
  <2>2. KInv(MoveBlocked(k, t, p)) /\ MoveBlocked(k, t, p).lock = k.lock
    BY <1>6, SetPrioBlocked
  <2> QED BY <2>1, <2>2
<1>7. CASE k.state[t] = "INVALID"
  <2>0. k.state[t] \notin BlockedStates
    BY <1>7 DEF BlockedStates, WaitStates
  <2>1. r = [k EXCEPT !.prio[t] = p]
    BY <1>7, <2>0 DEF sched_setpriority
  <2>2. Lists([k EXCEPT !.prio[t] = p]) /\ HeadRuns([k EXCEPT !.prio[t] = p])
    BY <1>1, <1>7, SetPrioInvalid
  <2>3. /\ [k EXCEPT !.prio[t] = p].pend = k.pend /\ [k EXCEPT !.prio[t] = p].rtr = k.rtr
        /\ [k EXCEPT !.prio[t] = p].lock = k.lock
    BY <1>1, SetPrioFields, SMT
  <2> QED BY <2>1, <2>2, <2>3 DEF KInv, Running
<1>8. k.state[t] \in {"RUNNING", "READYTORUN", "PENDING", "INVALID"} \cup BlockedStates
  BY <1>1 DEF TaskStates
<1> QED BY <1>3, <1>4, <1>5, <1>6, <1>7, <1>8

\* The time slice: a locked task keeps the CPU.
LEMMA TimesliceInv ==
  ASSUME NEW k, KInv(k), NEW rr, Idle \notin rr
  PROVE  LET r == sched_process_timeslice(k, rr)
         IN  /\ KInv(r) /\ r.lock = k.lock
             /\ k.lock[Running(k)] > 0 => Running(r) = Running(k)
<1> DEFINE r == sched_process_timeslice(k, rr)
           h == Running(k)
           k1 == [k EXCEPT !.slice[h] = RRTicks]
           k2 == [k EXCEPT !.slice[h] = k.slice[h] - 1]
           p == k.prio[h]
<1>1. Lists(k) /\ h \in Task /\ k.slice \in [Task -> Int] /\ k.lock \in [Task -> Nat]
      /\ k.prio \in [Task -> Nat] /\ h \in ToSet(k.rtr)
  BY ListsFacts, KernelFields DEF KInv
<1>2. /\ KInv(k1) /\ SameLists(k, k1) /\ k1.lock = k.lock
  BY <1>1, RRAssumption, SliceInv, SMT
<1>3. KInv(k2) /\ SameLists(k, k2) /\ k2.lock = k.lock
  <2> DEFINE x == k.slice[h] - 1
  <2>1. x \in Int
    BY <1>1, SMT
  <2> HIDE DEF x
  <2> QED BY <1>1, <2>1, SliceInv DEF x
<1>4. \/ r = k
      \/ r = k2
      \/ k.lock[h] = 0 /\ h # Idle /\ r = up_reprioritize_rtr(k1, h, p)
      \/ r = k1
  BY <1>1, SMT DEF sched_process_timeslice
<1> HIDE DEF r, k1, k2, p
<1>5. CASE r = k
  BY <1>5 DEF r
<1>6. CASE r = k2
  BY <1>6, <1>3 DEF r, SameLists, Running
<1>7. CASE r = k1
  BY <1>7, <1>2 DEF r, SameLists, Running
<1>8. CASE k.lock[h] = 0 /\ h # Idle /\ r = up_reprioritize_rtr(k1, h, p)
  <2>1. h \in ToSet(k1.rtr) \ {Idle}
    BY <1>1, <1>2, <1>8 DEF SameLists
  <2>2. p \in Nat /\ p >= SCHED_PRIORITY_MIN
    BY <1>1, <1>8 DEF Lists, IdleLowest, SCHED_PRIORITY_MIN, p
  <2> DEFINE z == up_reprioritize_rtr(k1, h, p)
  <2> HIDE DEF h
  <2>3. KInv(z) /\ z.lock = k1.lock
    BY <1>2, <2>1, <2>2, ReprioInv
  <2> HIDE DEF z
  <2>4. r = z
    BY <1>8 DEF z
  <2> QED BY <2>3, <2>4, <1>2, <1>8, SMT DEF r, h
<1> QED BY <1>4, <1>5, <1>6, <1>7, <1>8

-----------------------------------------------------------------------------
(* Who is blocked, and in which state.                                     *)

\* The tasks of T are blocked in r as they are in k; all but t are, and nobody
\* has another priority.
Sleepers(k, r, T) == \A u \in T, x \in BlockedStates : r.state[u] = x <=> k.state[u] = x
BlockedAs(k, r, t) == r.prio = k.prio /\ Sleepers(k, r, Task \ {t})

\* The pending tasks that become ready to run were not blocked.
LEMMA MergeSleepers ==
  ASSUME NEW k, Lists(k)
  PROVE  Sleepers(k, sched_mergepending(k), Task)
<1> DEFINE r == sched_mergepending(k)
           q == MergeLoop(k)[Len(k.pend)].rtr
           st == [t \in Task |->
                    IF t \in ToSet(k.pend)
                    THEN IF t = Head(q) THEN "RUNNING" ELSE "READYTORUN"
                    ELSE IF t = Running(k) /\ t # Head(q) THEN "READYTORUN"
                    ELSE k.state[t]]
<1>1. k \in Kernel /\ Running(k) \in ToSet(k.rtr)
  BY ListsFacts DEF Running
<1>2. r.state = st
  <2>1. r = ASSERT([k EXCEPT !.rtr = q, !.pend = << >>, !.state = st], Last(q) = Last(k.rtr))
    BY DEF sched_mergepending
  <2> HIDE DEF q, st
  <2> QED
    BY <1>1, <2>1 DEF ASSERT, Kernel
<1>3. ASSUME NEW u \in Task, NEW x \in BlockedStates
      PROVE  st[u] = x <=> k.state[u] = x
  <2>1. Member(k, u)
    BY DEF Lists
  <2>2. x \notin {"READYTORUN", "RUNNING", "PENDING"}
    BY DEF BlockedStates, WaitStates
  <2>3. (st[u] \in {"READYTORUN", "RUNNING"} /\ k.state[u] \in {"READYTORUN", "RUNNING", "PENDING"}) \/ st[u] = k.state[u]
    BY <1>1, <2>1 DEF Member
  <2> QED
    BY <2>2, <2>3
<1> HIDE DEF st, r
<1> QED
  BY <1>2, <1>3 DEF Sleepers, r

\* up_block_task: t, and no other task, is blocked in addition.
LEMMA BlockEffect ==
  ASSUME NEW k, KInv(k), NEW t \in Task \ {Idle}, t = Running(k), NEW s \in BlockedStates
  PROVE  LET r == up_block_task(k, t, s)
         IN  KInv(r) /\ r.lock = k.lock /\ r.state[t] = s /\ BlockedAs(k, r, t)
<1> DEFINE k1 == sched_removereadytorun(k, t)
           k2 == sched_addblocked(k1, t, s)
           r == sched_mergepending(k2)
           n == k.rtr[2]
<1>1. Lists(k) /\ HeadRuns(k) /\ k \in Kernel /\ t \in Task /\ t \in ToSet(k.rtr) \ {Idle}
  BY ListsFacts DEF KInv
<1>2. k.state[t] \in {"READYTORUN", "RUNNING"} /\ k.state \in [Task -> TaskStates]
  BY <1>1, KernelFields DEF Lists, Member
<1>3. up_block_task(k, t, s) = r
  BY <1>1, <1>2, AssertTrue DEF up_block_task
<1>4. Lists(k1) /\ HeadRuns(k1) /\ k1.state[t] = "INVALID" /\ k1.prio = k.prio /\ Running(k1) = n
  BY <1>1, RemoveReady
<1>5. k1.state = [k.state EXCEPT ![n] = "RUNNING", ![t] = "INVALID"]
  BY <1>1 DEF sched_removereadytorun, ASSERT, Kernel
<1>6. n \in Task /\ n \in ToSet(k.rtr)
  <2>1. n \in Task /\ k1.state[n] = "RUNNING"
    BY <1>4, ListsFacts DEF HeadRuns, Running
  <2>2. k.rtr \in Seq(Task) /\ Last(k.rtr) = Idle /\ k.rtr # << >> /\ Idle \in ToSet(k.rtr)
    BY <1>1, ListsFacts, KernelFields
  <2>3. Len(k.rtr) >= 2
    BY <1>1, <2>2, SMT DEF Last, Running
  <2> QED
    BY <2>1, <2>2, <2>3, InToSet, SMT
<1>7. k.state[n] \in {"READYTORUN", "RUNNING"}
  BY <1>1, <1>6 DEF Lists, Member
<1> HIDE DEF k1
<1>8. /\ Lists(k2) /\ HeadRuns(k2) /\ k2.prio = k.prio /\ k2.state = [k1.state EXCEPT ![t] = s]
  <2>1. Lists(k1) /\ HeadRuns(k1) /\ k1.state[t] = "INVALID" /\ t \in Task
    BY <1>1, <1>4
  <2>2. LET r2 == sched_addblocked(k1, t, s)
        IN  Lists(r2) /\ (HeadRuns(k1) => HeadRuns(r2)) /\ r2.prio = k1.prio /\ r2.state = [k1.state EXCEPT ![t] = s]
    <3> HIDE DEF k2
    <3> QED BY <2>1, AddBlocked, ZenonT(60)
  <2> QED BY <1>4, <2>1, <2>2
<1> HIDE DEF k2
<1>9. Sleepers(k2, r, Task) /\ r.prio = k.prio
  BY <1>8, MergeSleepers, Merge
<1>10. KInv(r) /\ r.lock = k.lock
  BY <1>3, BlockInv, SMT
<1> HIDE DEF r
<1>11. r.state[t] = s
  <2>1. k2.state[t] = s
    BY <1>1, <1>2, <1>5, <1>8
  <2> QED
    BY <1>1, <1>9, <2>1 DEF Sleepers
<1>12. ASSUME NEW u \in Task \ {t}, NEW x \in BlockedStates
       PROVE  r.state[u] = x <=> k.state[u] = x
  <2>1. k2.state[u] = IF u = n THEN "RUNNING" ELSE k.state[u]
    BY <1>1, <1>2, <1>5, <1>8
  <2>2. x # "RUNNING" /\ x # "READYTORUN"
    BY DEF BlockedStates, WaitStates
  <2> QED
    BY <1>7, <1>9, <2>1, <2>2 DEF Sleepers
<1> QED
  BY <1>3, <1>9, <1>10, <1>11, <1>12, SMT DEF BlockedAs, Sleepers

\* up_unblock_task: t, and no other task, is blocked no longer.
LEMMA UnblockEffect ==
  ASSUME NEW k, KInv(k), NEW t \in Task, k.state[t] \in BlockedStates
  PROVE  LET r == up_unblock_task(k, t)
         IN  /\ KInv(r) /\ r.lock = k.lock /\ r.state[t] \notin BlockedStates /\ BlockedAs(k, r, t)
             /\ k.lock[Running(k)] > 0 => Running(r) = Running(k)
<1> DEFINE k1 == sched_removeblocked(k, t)
           k2 == IF RRTicks > 0 THEN [k1 EXCEPT !.slice[t] = RRTicks] ELSE k1
           r == sched_addreadytorun(k2, t)
           h == Running(k)
<1>1. Lists(k) /\ HeadRuns(k) /\ k \in Kernel /\ h \in Task /\ k.state \in [Task -> TaskStates]
  BY ListsFacts, KernelFields DEF KInv
<1>2. up_unblock_task(k, t) = r
  BY <1>1, AssertTrue DEF up_unblock_task
<1>3. KInv(r) /\ r.lock = k.lock /\ r.prio = k.prio /\ (k.lock[Running(k)] > 0 => Running(r) = Running(k))
  BY <1>2, UnblockInv
<1>4. Lists(k1) /\ k1.rtr = k.rtr /\ k1.state = [k.state EXCEPT ![t] = "INVALID"]
  BY <1>1, RemoveBlocked
<1> HIDE DEF k1
<1>5. k2 \in Kernel /\ k2.rtr = k.rtr /\ k2.state = k1.state
  <2>1. CASE RRTicks > 0
    <3>1. SameLists(k1, k2)
      BY <1>4, <2>1, RRAssumption, SetSlice, SMT
    <3> QED
      BY <1>4, <3>1 DEF SameLists
  <2>2. CASE ~(RRTicks > 0)
    BY <1>4, <2>2 DEF Lists
  <2> QED
    BY <2>1, <2>2
<1> HIDE DEF k2
<1>6. \/ r.state = [k2.state EXCEPT ![t] = "PENDING"]
      \/ r.state = [k2.state EXCEPT ![t] = "RUNNING", ![h] = "READYTORUN"]
      \/ r.state = [k2.state EXCEPT ![t] = "READYTORUN"]
  <2> DEFINE q == sched_addprioritized(k2.rtr, k2.prio, t)
             w == sched_addprioritized(k2.pend, k2.prio, t)
  <2>1. Running(k2) = h
    BY <1>5 DEF Running
  <2>2. \/ r = [k2 EXCEPT !.pend = w, !.state = [k2.state EXCEPT ![t] = "PENDING"]]
        \/ r = ASSERT([k2 EXCEPT !.rtr = q, !.state = [k2.state EXCEPT ![t] = "RUNNING", ![h] = "READYTORUN"]],
                      k2.lock[h] = 0)
        \/ r = [k2 EXCEPT !.rtr = q, !.state = [k2.state EXCEPT ![t] = "READYTORUN"]]
    BY <1>5, <2>1 DEF sched_addreadytorun, Kernel
  <2> HIDE DEF q, w, r
  <2> QED
    BY <1>5, <2>2 DEF Kernel, ASSERT
<1>7. h # t /\ k.state[h] \in {"READYTORUN", "RUNNING"}
  BY <1>1 DEF HeadRuns, Running, BlockedStates, WaitStates
<1>8. \A x \in BlockedStates : x \notin {"RUNNING", "READYTORUN", "PENDING"}
  BY DEF BlockedStates, WaitStates
<1> HIDE DEF r, h
<1>9. r.state[t] \in {"RUNNING", "READYTORUN", "PENDING"}
  BY <1>1, <1>4, <1>5, <1>6, <1>7
<1>10. ASSUME NEW u \in Task \ {t}, NEW x \in BlockedStates
       PROVE  r.state[u] = x <=> k.state[u] = x
  <2>1. k2.state[u] = k.state[u]
    BY <1>1, <1>4, <1>5
  <2>2. r.state[u] = k.state[u] \/ (u = h /\ r.state[u] = "READYTORUN")
    BY <1>1, <1>4, <1>5, <1>6, <1>7, <2>1, SMT
  <2> QED
    BY <1>7, <1>8, <2>2
<1> QED
  BY <1>2, <1>3, <1>8, <1>9, <1>10 DEF BlockedAs, Sleepers, h

\* sched_unlock: nobody is blocked or unblocked.
LEMMA UnlockEffect ==
  ASSUME NEW k, KInv(k)
  PROVE  Sleepers(k, sched_unlock(k), Task)
<1> DEFINE h == Running(k)
           n == IF k.lock[h] > 0 THEN k.lock[h] - 1 ELSE 0
           k1 == [k EXCEPT !.lock[h] = n]
<1>1. h \in Task /\ k.lock \in [Task -> Nat] /\ Lists(k)
  BY ListsFacts, KernelFields DEF KInv
<1>2. n \in Nat
  BY <1>1, SMT
<1> HIDE DEF n
<1>3. SameLists(k, k1)
  BY <1>1, <1>2, SetLock
<1>4. sched_unlock(k) = IF k1.lock[h] = 0 /\ k1.pend # << >> THEN sched_mergepending(k1) ELSE k1
  BY DEF sched_unlock, up_release_pending, n
<1> HIDE DEF k1
<1>5. Lists(k1) /\ k1.state = k.state
  BY <1>1, <1>3, SameListsInv DEF SameLists
<1> QED
  BY <1>4, <1>5, MergeSleepers, SMT DEF Sleepers

\* The state in which all the tasks are ready to run.
LEMMA AllReadyInv ==
  ASSUME NEW p \in [Task \ {Idle} -> Nat \ {0}], NEW k \in AllReady(p)
  PROVE  /\ KInv(k) /\ k.lock = [t \in Task |-> 0]
         /\ \A t \in Task : k.state[t] \notin BlockedStates
<1> DEFINE prio == [t \in Task |-> IF t = Idle THEN 0 ELSE p[t]]
<1>1. PICK q \in SetToSeqs(Task) :
        /\ Desc(q, prio)
        /\ k = [rtr   |-> q,
                pend  |-> << >>,
                blk   |-> [s \in BlockedStates |-> << >>],
                state |-> [t \in Task |-> IF t = Head(q) THEN "RUNNING" ELSE "READYTORUN"],
                prio  |-> prio,
                lock  |-> [t \in Task |-> 0],
                slice |-> [t \in Task |-> 0],
                panic |-> FALSE]
  BY DEF AllReady
<1> DEFINE n == Cardinality(Task)
<1>2. IsFiniteSet(Task) /\ n \in Nat /\ n >= 1 /\ Idle \in Task
  BY TaskAssumption, FS_CardinalityType, FS_EmptySet, SMT
<1>3. q \in [1..n -> Task] /\ \A i, j \in 1..n : i # j => q[i] # q[j]
  BY <1>1 DEF SetToSeqs
<1> HIDE DEF n, prio
<1>4. ToSet(q) = Task
  <2>1. q \in Injection(1..n, Task)
    BY <1>3 DEF Injection, IsInjective
  <2>2. Cardinality(1..n) = n
    BY <1>2, FS_Interval, SMT
  <2>3. q \in Surjection(1..n, Task)
    BY <1>2, <2>1, <2>2, FS_Injection DEF n
  <2>4. \A t \in Task : \E i \in 1..n : q[i] = t
    BY <2>3 DEF Surjection
  <2> QED
    BY <1>3, <2>4, SMT DEF ToSet
<1>5. q \in Seq(Task) /\ Len(q) = n /\ q # << >> /\ Inj(q) /\ Head(q) \in Task
  BY <1>2, <1>3, SMT DEF Inj
<1>6. prio \in [Task -> Nat] /\ IdleLowest(prio)
  BY <1>2, SMT DEF prio, IdleLowest
<1>7. Last(q) = Idle
  <2>1. PICK i \in 1..n : q[i] = Idle
    BY <1>2, <1>3, <1>4 DEF ToSet
  <2>2. CASE i = n
    BY <1>5, <2>1, <2>2 DEF Last
  <2>3. CASE i < n
    <3>1. prio[q[i]] >= prio[q[n]] /\ q[n] # q[i] /\ q[n] \in Task
      BY <1>1, <1>2, <1>3, <1>5, <2>3, SMT DEF Desc
    <3> QED
      BY <1>6, <2>1, <3>1, SMT DEF IdleLowest
  <2> QED
    BY <1>2, <2>1, <2>2, <2>3, SMT
<1>8. /\ k.rtr = q /\ k.pend = << >> /\ k.blk = [s \in BlockedStates |-> << >>]
      /\ k.state = [t \in Task |-> IF t = Head(q) THEN "RUNNING" ELSE "READYTORUN"]
      /\ k.prio = prio /\ k.lock = [t \in Task |-> 0] /\ ~k.panic /\ k \in Kernel
  BY <1>1, <1>5, <1>6, SMT DEF Kernel, TaskStates
<1>9. \A t \in Task : k.state[t] \in {"RUNNING", "READYTORUN"}
  BY <1>8
<1>10. \A t \in Task : Member(k, t)
  BY <1>4, <1>8, <1>9, EmptySet DEF Member, BlockedStates, WaitStates
<1>11. Ordered(k)
  BY <1>1, <1>5, <1>8, SMT DEF Ordered, Inj, Desc
<1>12. HeadRuns(k)
  BY <1>5, <1>8 DEF HeadRuns
<1> QED
  BY <1>5, <1>6, <1>7, <1>8, <1>9, <1>10, <1>11, <1>12 DEF KInv, Lists, BlockedStates, WaitStates

=============================================================================
