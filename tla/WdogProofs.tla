----------------------------- MODULE WdogProofs -----------------------------
(***************************************************************************)
(* The delta list of Wdog implements the independent alarms of AlarmClock, *)
(* and wd_start() is exact, for any number of watchdogs and any delays.    *)
(***************************************************************************)
EXTENDS Wdog, SequenceTheorems, FiniteSetTheorems, WellFoundedInduction, TLAPS

-----------------------------------------------------------------------------
(* Sets of naturals and sequences.                                         *)

\* A non-empty set of naturals has a least element; induction over a range
\* is done with it, on the set of counterexamples.
LEMMA LeastElement ==
  ASSUME NEW S \in SUBSET Nat, S # {}
  PROVE  \E m \in S : \A n \in S : m <= n
<1>1. PICK x \in S : \A y \in S : ~(<<y, x>> \in OpToRel(<, Nat))
  BY WFMin, NatLessThanWellFounded, Zenon
<1>2. \A y \in S : ~(y < x)
  BY <1>1, Zenon DEF OpToRel
<1> QED
  BY <1>2

\* No watchdog is twice in q.
Inj(q) == \A i, j \in 1..Len(q) : q[i] = q[j] => i = j

\* r is q with w put at position p, or with position p taken out.
Inserted(q, p, w, r) ==
  /\ r \in Seq(Wdog) /\ Len(r) = Len(q) + 1
  /\ \A i \in 1..Len(q)+1 : r[i] = IF i < p THEN q[i] ELSE IF i = p THEN w ELSE q[i-1]
Removed(q, p, r) ==
  /\ r \in Seq(Wdog) /\ Len(r) = Len(q) - 1
  /\ \A i \in 1..Len(q)-1 : r[i] = IF i < p THEN q[i] ELSE q[i+1]

\* Membership in the set of the elements of a list.
LEMMA InToSet ==
  ASSUME NEW q \in Seq(Wdog)
  PROVE  \A x : x \in ToSet(q) <=> \E i \in 1..Len(q) : q[i] = x
BY LenProperties DEF ToSet

\* The empty list has no elements.
LEMMA EmptyToSet == ToSet(<< >>) = {}
<1>1. << >> \in Seq(Wdog) /\ Len(<< >>) = 0 /\ 1..0 = {}
  BY EmptySeq
<1>2. \A x : x \in ToSet(<< >>) <=> \E i \in 1..Len(<< >>) : << >>[i] = x
  BY <1>1, InToSet, Zenon
<1>3. \A x : x \notin ToSet(<< >>)
  BY <1>1, <1>2
<1> QED
  BY <1>3

\* Two lists, one behind the other.
LEMMA Joined ==
  ASSUME NEW a \in Seq(Wdog), NEW b \in Seq(Wdog)
  PROVE  /\ a \o b \in Seq(Wdog) /\ Len(a \o b) = Len(a) + Len(b)
         /\ \A i \in 1..Len(a) : (a \o b)[i] = a[i]
         /\ \A i \in 1..Len(b) : (a \o b)[Len(a) + i] = b[i]
<1>1. /\ a \o b \in Seq(Wdog) /\ Len(a \o b) = Len(a) + Len(b)
      /\ \A i \in 1..Len(a)+Len(b) : (a \o b)[i] = IF i <= Len(a) THEN a[i] ELSE b[i-Len(a)]
  BY ConcatProperties
<1>2. Len(a) \in Nat /\ Len(b) \in Nat
  OBVIOUS
<1>3. ASSUME NEW i \in 1..Len(b)
      PROVE  (a \o b)[Len(a) + i] = b[i]
  <2> DEFINE j == Len(a) + i
  <2>1. j \in 1..Len(a)+Len(b) /\ ~(j <= Len(a)) /\ j - Len(a) = i
    BY <1>2
  <2> HIDE DEF j
  <2>2. (a \o b)[j] = b[j - Len(a)]
    BY <1>1, <2>1
  <2> QED
    BY <2>1, <2>2 DEF j
<1>4. ASSUME NEW i \in 1..Len(a)
      PROVE  (a \o b)[i] = a[i]
  BY <1>1, <1>2
<1> QED
  BY <1>1, <1>3, <1>4

\* InsertAt puts w at position p.
LEMMA InsertAtFacts ==
  ASSUME NEW q \in Seq(Wdog), NEW p \in 1..Len(q)+1, NEW w \in Wdog
  PROVE  Inserted(q, p, w, InsertAt(q, p, w))
<1> DEFINE a == SubSeq(q, 1, p-1)
           b == SubSeq(q, p, Len(q))
           c == a \o <<w>>
<1>0. Len(q) \in Nat /\ p \in Nat /\ p >= 1 /\ p <= Len(q) + 1
  OBVIOUS
<1>1. a \in Seq(Wdog) /\ Len(a) = p - 1 /\ \A i \in 1..p-1 : a[i] = q[i]
  BY SubSeqProperties
<1>2. b \in Seq(Wdog) /\ Len(b) = Len(q) - p + 1 /\ \A i \in 1..Len(q)-p+1 : b[i] = q[p+i-1]
  BY SubSeqProperties
<1>3. <<w>> \in Seq(Wdog) /\ Len(<<w>>) = 1 /\ <<w>>[1] = w
  OBVIOUS
<1>4. InsertAt(q, p, w) = c \o b
  BY DEF InsertAt
<1> HIDE DEF a, b
<1>5. c \in Seq(Wdog) /\ Len(c) = p /\ c[p] = w /\ \A i \in 1..p-1 : c[i] = q[i]
  <2> DEFINE e == <<w>>
  <2>1. e \in Seq(Wdog) /\ Len(e) = 1 /\ e[1] = w
    BY <1>3
  <2> HIDE DEF e
  <2>2. /\ a \o e \in Seq(Wdog) /\ Len(a \o e) = Len(a) + Len(e)
        /\ \A i \in 1..Len(a) : (a \o e)[i] = a[i]
        /\ \A i \in 1..Len(e) : (a \o e)[Len(a) + i] = e[i]
    BY <1>1, <2>1, Joined, Zenon
  <2>3. 1 \in 1..Len(e) /\ Len(a) + 1 = p
    BY <1>0, <1>1, <2>1
  <2>4. (a \o e)[p] = w
    BY <2>1, <2>2, <2>3
  <2> QED
    BY <1>0, <1>1, <2>1, <2>2, <2>4 DEF e
<1> HIDE DEF c
<1> DEFINE d == c \o b
<1>6. /\ d \in Seq(Wdog) /\ Len(d) = Len(c) + Len(b)
      /\ \A i \in 1..Len(c) : d[i] = c[i]
      /\ \A i \in 1..Len(b) : d[Len(c) + i] = b[i]
  BY <1>2, <1>5, Joined
<1> HIDE DEF d
<1>7. ASSUME NEW i \in 1..Len(q)+1
      PROVE  d[i] = IF i < p THEN q[i] ELSE IF i = p THEN w ELSE q[i-1]
  <2>1. CASE i <= p
    BY <1>0, <1>5, <1>6, <2>1
  <2>2. CASE i > p
    <3> DEFINE j == i - p
    <3>1. j \in 1..Len(b) /\ j \in 1..Len(q)-p+1 /\ p + j = i /\ p + j - 1 = i - 1
      BY <1>0, <1>2, <2>2
    <3> HIDE DEF j
    <3>2. d[p + j] = b[j] /\ b[j] = q[p + j - 1]
      BY <1>2, <1>5, <1>6, <3>1
    <3> QED
      BY <1>0, <2>2, <3>1, <3>2
  <2> QED
    BY <1>0, <2>1, <2>2
<1>8. Len(d) = Len(q) + 1
  BY <1>0, <1>2, <1>5, <1>6
<1> QED
  BY <1>4, <1>6, <1>7, <1>8 DEF Inserted, d

\* RemoveAt takes a position out.
LEMMA RemoveAtFacts ==
  ASSUME NEW q \in Seq(Wdog), NEW p \in 1..Len(q)
  PROVE  Removed(q, p, RemoveAt(q, p))
<1> DEFINE a == SubSeq(q, 1, p-1)
           b == SubSeq(q, p+1, Len(q))
<1>0. Len(q) \in Nat /\ p \in Nat /\ p >= 1 /\ p <= Len(q)
  OBVIOUS
<1>1. a \in Seq(Wdog) /\ Len(a) = p - 1 /\ \A i \in 1..p-1 : a[i] = q[i]
  BY SubSeqProperties
<1>2. b \in Seq(Wdog) /\ Len(b) = Len(q) - p /\ \A i \in 1..Len(q)-p : b[i] = q[p+i]
  BY SubSeqProperties
<1>3. RemoveAt(q, p) = a \o b
  BY DEF RemoveAt
<1> HIDE DEF a, b
<1> DEFINE d == a \o b
<1>4. /\ d \in Seq(Wdog) /\ Len(d) = Len(a) + Len(b)
      /\ \A i \in 1..Len(a) : d[i] = a[i]
      /\ \A i \in 1..Len(b) : d[Len(a) + i] = b[i]
  BY <1>1, <1>2, Joined, Zenon
<1> HIDE DEF d
<1>5. ASSUME NEW i \in 1..Len(q)-1
      PROVE  d[i] = IF i < p THEN q[i] ELSE q[i+1]
  <2>1. CASE i < p
    BY <1>0, <1>1, <1>4, <2>1
  <2>2. CASE ~(i < p)
    <3> DEFINE j == i - (p - 1)
    <3>1. j \in 1..Len(b) /\ j \in 1..Len(q)-p /\ p - 1 + j = i /\ p + j = i + 1
      BY <1>0, <1>2, <2>2
    <3> HIDE DEF j
    <3>2. d[p - 1 + j] = b[j] /\ b[j] = q[p + j]
      BY <1>1, <1>2, <1>4, <3>1
    <3> QED
      BY <2>2, <3>1, <3>2
  <2> QED
    BY <2>1, <2>2
<1>6. Len(d) = Len(q) - 1
  BY <1>0, <1>1, <1>2, <1>4
<1> QED
  BY <1>3, <1>4, <1>5, <1>6, Zenon DEF Removed, d

\* Position finds an element.
LEMMA PositionFacts ==
  ASSUME NEW q \in Seq(Wdog), Inj(q), NEW i \in 1..Len(q)
  PROVE  Position(q, q[i]) = i
<1> DEFINE I == {j \in 1..Len(q) : q[j] = q[i]}
<1>1. I = {i}
  BY DEF Inj
<1>2. Min({i}) = i
  BY DEF Min
<1>3. Position(q, q[i]) = IF I # {} THEN Min(I) ELSE 0
  BY DEF Position, SelectInSeq
<1> QED
  BY <1>1, <1>2, <1>3, Zenon

-----------------------------------------------------------------------------
(* The ticks until the watchdogs of a delta list expire.                   *)

\* f sums the lags up.
Sums(tm, f) ==
  /\ f[0] = 0
  /\ \A i \in 1..Len(tm.q) : f[i] = f[i-1] + tm.lag[tm.q[i]]

\* The fields of a delta list.
LEMMA TimerFields ==
  ASSUME NEW tm \in Timer
  PROVE  /\ tm.q \in Seq(Wdog) /\ tm.lag \in [Wdog -> Nat] /\ Len(tm.q) \in Nat
         /\ \A i \in 1..Len(tm.q) : tm.q[i] \in Wdog /\ tm.lag[tm.q[i]] \in Nat
BY DEF Timer

\* Now is defined, and sums the lags up.
LEMMA NowSums ==
  ASSUME NEW tm \in Timer
  PROVE  Sums(tm, Now(tm))
<1> DEFINE N == Len(tm.q)
           Body(f, n) == IF n = 0 THEN 0 ELSE f[n-1] + tm.lag[tm.q[n]]
           Def(m) == \E f : f = [n \in 0..m |-> Body(f, n)]
           Bad == {m \in 0..N : ~Def(m)}
<1>1. N \in Nat
  BY TimerFields
<1>2. Bad = {}
  <2> SUFFICES ASSUME Bad # {} PROVE FALSE
    OBVIOUS
  <2>0. Bad \in SUBSET Nat
    BY <1>1
  <2>1. PICK m \in Bad : \A n \in Bad : m <= n
    <3> HIDE DEF Bad
    <3> QED BY <2>0, LeastElement
  <2>2. m # 0
    <3>1. [n \in 0..0 |-> 0] = [n \in 0..0 |-> Body([i \in 0..0 |-> 0], n)]
      OBVIOUS
    <3>2. Def(0)
      BY <3>1, Zenon
    <3> HIDE DEF Def
    <3> QED BY <3>2, <2>1
  <2>3. m-1 \in 0..N /\ Def(m-1)
    <3> HIDE DEF Def
    <3> QED BY <1>1, <2>1, <2>2
  <2>4. PICK f : f = [n \in 0..m-1 |-> Body(f, n)]
    BY <2>3
  <2> DEFINE g == [n \in 0..m |-> IF n < m THEN f[n] ELSE Body(f, m)]
  <2>5. \A n \in 0..m : g[n] = Body(g, n)
    <3> TAKE n \in 0..m
    <3>1. CASE n = 0
      BY <3>1, <1>1, <2>1, <2>2, <2>4
    <3>2. CASE n # 0
      <4>1. n-1 \in 0..m /\ n-1 < m /\ g[n-1] = f[n-1]
        BY <3>2, <1>1, <2>1
      <4>2. Body(g, n) = Body(f, n)
        BY <4>1, <3>2
      <4>3. n < m => f[n] = Body(f, n)
        <5> HIDE DEF Body
        <5> QED BY <2>4, <2>1, <1>1
      <4> HIDE DEF Body
      <4> QED BY <4>2, <4>3, <2>1, <1>1
    <3> QED BY <3>1, <3>2
  <2>6. g = [n \in 0..m |-> Body(g, n)]
    <3> HIDE DEF Body
    <3>1. g = [n \in 0..m |-> g[n]]
      OBVIOUS
    <3> HIDE DEF g
    <3> QED BY <3>1, <2>5
  <2>7. Def(m)
    <3> HIDE DEF g, Body
    <3> QED BY <2>6
  <2> QED BY <2>7, <2>1
<1>3. Def(N)
  <2> HIDE DEF Def
  <2> QED BY <1>1, <1>2
<1>4. Now(tm) = [n \in 0..N |-> Body(Now(tm), n)]
  BY <1>3 DEF Now
<1>5. \A n \in 0..N : Now(tm)[n] = Body(Now(tm), n)
  <2> HIDE DEF Body
  <2> QED BY <1>4
<1>6. 0 \in 0..N /\ \A n \in 1..N : n \in 0..N /\ n # 0
  BY <1>1
<1> QED
  BY <1>5, <1>6 DEF Sums

\* Sums of lags are naturals ...
LEMMA SumsNat ==
  ASSUME NEW tm \in Timer, NEW f, Sums(tm, f)
  PROVE  \A i \in 0..Len(tm.q) : f[i] \in Nat
<1> DEFINE N == Len(tm.q)
           Bad == {i \in 0..N : f[i] \notin Nat}
<1>1. N \in Nat
  BY TimerFields
<1> SUFFICES ASSUME Bad # {} PROVE FALSE
  OBVIOUS
<1>2. Bad \in SUBSET Nat
  BY <1>1
<1>3. PICK m \in Bad : \A n \in Bad : m <= n
  <2> HIDE DEF Bad
  <2> QED BY <1>2, LeastElement
<1>4. m \in 1..N
  BY <1>1, <1>3 DEF Sums
<1>5. m-1 \in 0..N /\ m-1 \notin Bad
  BY <1>1, <1>3, <1>4
<1>6. f[m] = f[m-1] + tm.lag[tm.q[m]] /\ tm.lag[tm.q[m]] \in Nat
  BY <1>4, TimerFields DEF Sums
<1> QED
  BY <1>3, <1>5, <1>6

\* ... that never go down along the list.
LEMMA SumsMonotone ==
  ASSUME NEW tm \in Timer, NEW f, Sums(tm, f), NEW i \in 0..Len(tm.q)
  PROVE  \A j \in i..Len(tm.q) : f[i] <= f[j]
<1> DEFINE N == Len(tm.q)
           Bad == {j \in i..N : ~(f[i] <= f[j])}
<1>1. N \in Nat /\ i \in Nat
  BY TimerFields
<1> SUFFICES ASSUME Bad # {} PROVE FALSE
  OBVIOUS
<1>2. Bad \in SUBSET Nat
  BY <1>1
<1>3. PICK m \in Bad : \A n \in Bad : m <= n
  <2> HIDE DEF Bad
  <2> QED BY <1>2, LeastElement
<1>4. \A n \in 0..N : f[n] \in Nat
  BY SumsNat
<1>5. m \in 1..N /\ m > i
  BY <1>1, <1>3, <1>4
<1>6. m-1 \in i..N /\ m-1 \in 0..N /\ m-1 \notin Bad
  BY <1>1, <1>3, <1>5
<1>7. f[m] = f[m-1] + tm.lag[tm.q[m]] /\ tm.lag[tm.q[m]] \in Nat
  BY <1>5, TimerFields DEF Sums
<1>8. f[i] \in Nat /\ f[m-1] \in Nat /\ f[i] <= f[m-1] /\ ~(f[i] <= f[m])
  BY <1>3, <1>4, <1>6
<1> QED
  BY <1>7, <1>8

\* There is one such sum.
LEMMA SumsUnique ==
  ASSUME NEW tm \in Timer, NEW f, Sums(tm, f), NEW g, Sums(tm, g)
  PROVE  \A i \in 0..Len(tm.q) : f[i] = g[i]
<1> DEFINE N == Len(tm.q)
           Bad == {i \in 0..N : f[i] # g[i]}
<1>1. N \in Nat
  BY TimerFields
<1> SUFFICES ASSUME Bad # {} PROVE FALSE
  OBVIOUS
<1>2. Bad \in SUBSET Nat
  BY <1>1
<1>3. PICK m \in Bad : \A n \in Bad : m <= n
  <2> HIDE DEF Bad
  <2> QED BY <1>2, LeastElement
<1>4. m \in 1..N
  BY <1>1, <1>3 DEF Sums
<1>5. m-1 \in 0..N /\ m-1 \notin Bad
  BY <1>1, <1>3, <1>4
<1>6. f[m] = f[m-1] + tm.lag[tm.q[m]] /\ g[m] = g[m-1] + tm.lag[tm.q[m]]
  BY <1>4 DEF Sums
<1> QED
  BY <1>3, <1>5, <1>6

-----------------------------------------------------------------------------
(* What the operations on the delta list do to those ticks.                *)

\* Two lags that are added in either order.
LEMMA Turned ==
  ASSUME NEW a \in Nat, NEW b \in Nat, NEW c \in Nat
  PROVE  (a + b) + c = a + (c + b)
  OBVIOUS

\* The new list r.q has the ticks of the old one, but for the watchdog that
\* was taken out.
LEMMA UnlinkFacts ==
  ASSUME NEW tm \in Timer, Inj(tm.q), NEW p \in 1..Len(tm.q)
  PROVE  LET r == Unlink(tm, tm.q[p])
         IN  /\ r \in Timer /\ Removed(tm.q, p, r.q)
             /\ \A i \in 0..Len(tm.q)-1 : Now(r)[i] = IF i < p THEN Now(tm)[i] ELSE Now(tm)[i+1]
<1> DEFINE w == tm.q[p]
           n == Len(tm.q)
           now == Now(tm)
           l == IF p < n THEN [tm.lag EXCEPT ![tm.q[p+1]] = @ + tm.lag[w]] ELSE tm.lag
           r == [q |-> RemoveAt(tm.q, p), lag |-> l]
           f == [i \in 0..n-1 |-> IF i < p THEN now[i] ELSE now[i+1]]
<1>1. /\ tm.q \in Seq(Wdog) /\ tm.lag \in [Wdog -> Nat] /\ n \in Nat /\ p \in Nat
      /\ \A i \in 1..n : tm.q[i] \in Wdog /\ tm.lag[tm.q[i]] \in Nat
  BY TimerFields
<1>2. Unlink(tm, w) = r
  <2>1. Position(tm.q, w) = p
    BY <1>1, PositionFacts
  <2> QED
    BY <2>1 DEF Unlink
<1>3. Removed(tm.q, p, r.q)
  BY <1>1, RemoveAtFacts
<1>4. l \in [Wdog -> Nat]
  <2>1. CASE p < n
    <3>1. p+1 \in 1..n
      BY <1>1, <2>1
    <3>2. tm.q[p+1] \in Wdog /\ tm.lag[tm.q[p+1]] \in Nat /\ tm.lag[w] \in Nat
      BY <1>1, <3>1
    <3> QED
      BY <1>1, <2>1, <3>2
  <2>2. CASE ~(p < n)
    BY <1>1, <2>2
  <2> QED
    BY <2>1, <2>2
<1>5. r \in Timer /\ r.lag = l
  BY <1>3, <1>4 DEF Timer, Removed
<1>6. Sums(tm, now)
  BY NowSums
<1>7. Sums(r, f)
  <2>1. f[0] = 0
    BY <1>1, <1>6 DEF Sums
  <2>2. Len(r.q) = n - 1
    BY <1>3 DEF Removed
  <2>3. ASSUME NEW i \in 1..n-1
        PROVE  f[i] = f[i-1] + l[r.q[i]]
    <3>n. n \in Nat /\ p \in Nat /\ p \in 1..n /\ i \in Nat /\ i \in 1..n /\ i+1 \in 1..n
      <4> HIDE DEF l, f, r, now
      <4> QED
        BY <1>1
    <3>0. /\ r.q[i] = IF i < p THEN tm.q[i] ELSE tm.q[i+1]
          /\ i \in Nat /\ i \in 1..n /\ i+1 \in 1..n /\ i-1 \in 0..n-1 /\ i \in 0..n-1
      <4> HIDE DEF l, f, r, now
      <4>1. r.q[i] = IF i < p THEN tm.q[i] ELSE tm.q[i+1]
        BY <1>3, Zenon DEF Removed
      <4>2. i-1 \in 0..n-1 /\ i \in 0..n-1
        <5> HIDE DEF n
        <5> QED
          BY <3>n
      <4> QED
        BY <3>n, <4>1, <4>2, Zenon
    <3>1. \A j \in 1..n : now[j] = now[j-1] + tm.lag[tm.q[j]]
      BY <1>6 DEF Sums
    <3>2. \A j \in 0..n : now[j] \in Nat
      BY <1>6, SumsNat
    <3>3. f[i] = (IF i < p THEN now[i] ELSE now[i+1]) /\ f[i-1] = (IF i-1 < p THEN now[i-1] ELSE now[i])
      BY <3>0
    <3>4. CASE i < p
      <4>1. l[tm.q[i]] = tm.lag[tm.q[i]]
        <5>1. p < n => p+1 \in 1..n /\ p+1 # i
          <6> HIDE DEF n, l, f, r, now
          <6> QED
            BY <3>n, <3>4
        <5>2. p < n => tm.q[p+1] # tm.q[i]
          BY <3>0, <5>1, Zenon DEF Inj
        <5> QED
          BY <1>1, <3>0, <5>1, <5>2, Zenon
      <4>2. i - 1 < p
        <5> HIDE DEF n, l, f, r, now
        <5> QED
          BY <3>n, <3>4
      <4> HIDE DEF l, f, r, now
      <4>3. f[i] = now[i] /\ f[i-1] = now[i-1] /\ r.q[i] = tm.q[i]
        BY <3>0, <3>3, <3>4, <4>2, Zenon
      <4>4. now[i] = now[i-1] + tm.lag[tm.q[i]]
        BY <3>0, <3>1, Zenon
      <4> QED
        BY <4>1, <4>3, <4>4, Zenon
    <3>5. CASE i = p
      <4>0. p < n
        <5> HIDE DEF n, l, f, r, now
        <5> QED
          BY <3>n, <3>5
      <4>1. l[tm.q[i+1]] = tm.lag[tm.q[i+1]] + tm.lag[tm.q[i]]
        <5> DEFINE a == tm.q[i+1]
                   lag == tm.lag
        <5>1. a \in Wdog /\ lag \in [Wdog -> Nat] /\ l = [lag EXCEPT ![a] = @ + lag[tm.q[i]]]
          BY <1>1, <3>0, <3>5, <4>0, Zenon
        <5> HIDE DEF a, lag, l
        <5>2. l[a] = lag[a] + lag[tm.q[i]]
          BY <5>1
        <5> QED
          BY <5>2 DEF a, lag
      <4>9. i+1-1 = i
        <5> HIDE DEF n, l, f, r, now
        <5> QED
          BY <3>n
      <4>2. now[i] = now[i-1] + tm.lag[tm.q[i]] /\ now[i+1] = now[i+1-1] + tm.lag[tm.q[i+1]] /\ i+1-1 = i
        <5> HIDE DEF n, l, f, r, now
        <5> QED
          BY <3>n, <3>1, <4>9
      <4>3. now[i-1] \in Nat /\ tm.lag[tm.q[i]] \in Nat /\ tm.lag[tm.q[i+1]] \in Nat
        <5>1. i-1 \in 0..n
          <6> HIDE DEF n, l, f, r, now
          <6> QED
            BY <3>n
        <5> HIDE DEF n, l, f, r, now
        <5> QED
          BY <1>1, <3>n, <3>2, <5>1, Zenon
      <4>10. ~(i < p) /\ i-1 < p
        <5> HIDE DEF n, l, f, r, now
        <5> QED
          BY <3>n, <3>5
      <4>4. f[i] = now[i+1] /\ f[i-1] = now[i-1] /\ r.q[i] = tm.q[i+1]
        <5> HIDE DEF n, l, f, r, now
        <5> QED
          BY <3>0, <3>3, <4>10, Zenon
      <4>5. now[i+1] = now[i] + tm.lag[tm.q[i+1]]
        BY <4>2, Zenon
      <4>6. l[r.q[i]] = tm.lag[tm.q[i+1]] + tm.lag[tm.q[i]]
        BY <4>1, <4>4, Zenon
      <4> HIDE DEF l, f, r, now
      <4>7. now[i+1] = (now[i-1] + tm.lag[tm.q[i]]) + tm.lag[tm.q[i+1]]
        BY <4>2, <4>5, Zenon
      <4>8. f[i-1] + l[r.q[i]] = now[i-1] + (tm.lag[tm.q[i+1]] + tm.lag[tm.q[i]])
        BY <4>4, <4>6, Zenon
      <4> QED
        BY <4>3, <4>4, <4>7, <4>8, Turned, Zenon
    <3>6. CASE i > p
      <4>1. l[tm.q[i+1]] = tm.lag[tm.q[i+1]]
        <5>1. p < n => p+1 \in 1..n /\ p+1 # i+1
          <6> HIDE DEF n, l, f, r, now
          <6> QED
            BY <3>n, <3>6
        <5>2. p < n => tm.q[p+1] # tm.q[i+1]
          BY <3>0, <5>1, Zenon DEF Inj
        <5> QED
          BY <1>1, <3>0, <5>1, <5>2, Zenon
      <4>2. now[i+1] = now[i+1-1] + tm.lag[tm.q[i+1]] /\ i+1-1 = i
        <5> HIDE DEF n, l, f, r, now
        <5> QED
          BY <3>n, <3>1
      <4> HIDE DEF l, f, r, now
      <4> QED
        BY <1>1, <3>0, <3>3, <3>6, <4>1, <4>2
    <3> HIDE DEF n, l, f, r, now
    <3> QED
      BY <3>n, <3>4, <3>5, <3>6
  <2> QED
    BY <1>5, <2>1, <2>2, <2>3, Zenon DEF Sums
<1>8. \A i \in 0..n-1 : Now(r)[i] = f[i]
  <2>1. Len(r.q) = n - 1
    BY <1>3 DEF Removed
  <2> HIDE DEF r, f
  <2> QED
    BY <1>5, <1>7, <2>1, NowSums, SumsUnique
<1> HIDE DEF r, l, now
<1> QED
  BY <1>2, <1>3, <1>5, <1>8, Zenon DEF now

\* The loops of wd_start() stop at the first watchdog that expires after
\* delay, or at the last one.
LEMMA StopFacts ==
  ASSUME NEW n \in Nat \ {0}, NEW now, \A i \in 0..n : now[i] \in Nat, NEW delay \in Nat
  PROVE  LET i == Stop(now, n, delay)
         IN  /\ i \in 1..n /\ (now[i] > delay \/ i = n)
             /\ \A j \in 1..i-1 : now[j] <= delay
<1> DEFINE First(i) == (now[i] >= 0 \/ i = n) /\ \A j \in 1..(i-1) : now[j] < 0
           Last1(i) == (now[i] > delay \/ i = n) /\ \A j \in 1..(i-1) : now[j] <= delay
           S == {i \in 1..n : now[i] > delay \/ i = n}
<1>0. n \in 1..n /\ 1 \in 1..n /\ \A i \in 1..n : now[i] \in Nat
  OBVIOUS
<1>1. First(1)
  BY <1>0
<1>2. \A i \in 1..n : First(i) => i = 1
  <2> SUFFICES ASSUME NEW i \in 1..n, First(i), i # 1 PROVE FALSE
    OBVIOUS
  <2>1. 1 \in 1..(i-1)
    OBVIOUS
  <2> QED
    BY <1>0, <2>1
<1>3. (CHOOSE i \in 1..n : First(i)) = 1
  <2> HIDE DEF First
  <2> QED BY <1>0, <1>1, <1>2
<1>4. PICK m \in S : \A i \in S : m <= i
  <2>1. S \in SUBSET Nat /\ n \in S
    BY <1>0
  <2> HIDE DEF S
  <2> QED BY <2>1, LeastElement
<1>5. m \in 1..n /\ Last1(m)
  <2>1. ASSUME NEW j \in 1..(m-1) PROVE now[j] <= delay
    <3>1. j \in 1..n /\ j \notin S
      BY <1>4
    <3> QED
      BY <1>0, <3>1
  <2> QED
    BY <1>4, <2>1
<1>6. \E i \in 1..n : Last1(i)
  BY <1>5
<1>7. Stop(now, n, delay) = CHOOSE i \in 1..n : Last1(i)
  BY <1>3, Zenon DEF Stop
<1>8. Stop(now, n, delay) \in 1..n /\ Last1(Stop(now, n, delay))
  <2> HIDE DEF Last1
  <2> QED BY <1>6, <1>7
<1> HIDE DEF S, First
<1> QED
  BY <1>8, Zenon

\* In r, w is at position p of tm, delay ticks from now, and the watchdog
\* behind it has its lag cut.
Linked(tm, r, w, delay, p) ==
  /\ Inserted(tm.q, p, w, r.q)
  /\ r.lag[w] = delay - Now(tm)[p-1]
  /\ p <= Len(tm.q) => r.lag[tm.q[p]] = Now(tm)[p] - delay
  /\ \A i \in 1..Len(tm.q) : i # p => r.lag[tm.q[i]] = tm.lag[tm.q[i]]

\* The ticks of r are those of tm, with delay put at position p.
Shifted(tm, r, delay, p) ==
  \A i \in 0..Len(tm.q)+1 :
    Now(r)[i] = IF i < p THEN Now(tm)[i] ELSE IF i = p THEN delay ELSE Now(tm)[i-1]

\* Every other watchdog keeps its ticks.
LEMMA LinkedSums ==
  ASSUME NEW tm \in Timer, NEW r \in Timer, NEW w, NEW delay \in Nat,
         NEW p \in 1..Len(tm.q)+1, Linked(tm, r, w, delay, p)
  PROVE  Shifted(tm, r, delay, p)
<1> DEFINE n == Len(tm.q)
           now == Now(tm)
           f == [i \in 0..n+1 |-> IF i < p THEN now[i] ELSE IF i = p THEN delay ELSE now[i-1]]
<1>1. n \in Nat /\ p \in Nat /\ p >= 1 /\ p <= n + 1
  BY TimerFields
<1>2. Sums(tm, now)
  BY NowSums
<1>3. \A i \in 0..n : now[i] \in Nat
  BY <1>2, SumsNat
<1>4. Len(r.q) = n + 1 /\ Inserted(tm.q, p, w, r.q)
  BY DEF Linked, Inserted
<1>5. Sums(r, f)
  <2>1. f[0] = 0
    BY <1>1, <1>2 DEF Sums
  <2>2. ASSUME NEW i \in 1..n+1
        PROVE  f[i] = f[i-1] + r.lag[r.q[i]]
    <3>0. /\ r.q[i] = IF i < p THEN tm.q[i] ELSE IF i = p THEN w ELSE tm.q[i-1]
          /\ i \in Nat /\ i-1 \in 0..n+1 /\ i \in 0..n+1 /\ i-1 \in 0..n
      <4>1. r.q[i] = IF i < p THEN tm.q[i] ELSE IF i = p THEN w ELSE tm.q[i-1]
        BY <1>4, Zenon DEF Inserted
      <4>2. i \in Nat /\ i-1 \in 0..n+1 /\ i \in 0..n+1 /\ i-1 \in 0..n
        BY <1>1
      <4> QED BY <4>1, <4>2
    <3>1. /\ f[i] = IF i < p THEN now[i] ELSE IF i = p THEN delay ELSE now[i-1]
          /\ f[i-1] = IF i-1 < p THEN now[i-1] ELSE IF i-1 = p THEN delay ELSE now[i-1-1]
      BY <3>0
    <3>2. CASE i < p
      <4>0. i \in 1..n /\ i # p
        BY <1>1, <3>0, <3>2
      <4>1. i \in 1..n /\ i # p /\ now[i] = now[i-1] + tm.lag[tm.q[i]]
        BY <1>2, <4>0, Zenon DEF Sums
      <4>2. f[i] = now[i] /\ f[i-1] = now[i-1] /\ r.lag[r.q[i]] = tm.lag[tm.q[i]]
        <5> HIDE DEF f
        <5> QED BY <3>0, <3>1, <3>2, <4>1 DEF Linked
      <4> HIDE DEF f
      <4> QED BY <4>1, <4>2
    <3>3. CASE i = p
      <4>1. f[i] = delay /\ f[i-1] = now[i-1] /\ r.lag[r.q[i]] = delay - now[i-1] /\ now[i-1] \in Nat
        <5> HIDE DEF f
        <5> QED BY <1>3, <3>0, <3>1, <3>3 DEF Linked
      <4> HIDE DEF f
      <4> QED BY <4>1
    <3>4. CASE i > p
      <4> DEFINE j == i-1
      <4>1. j \in 1..n /\ j \in 0..n /\ j-1 \in 0..n /\ ~(i < p) /\ i # p
        BY <1>1, <3>0, <3>4
      <4>2. f[i] = now[j] /\ r.q[i] = tm.q[j] /\ now[j] = now[j-1] + tm.lag[tm.q[j]]
        <5> HIDE DEF f
        <5> QED BY <1>2, <3>0, <3>1, <4>1 DEF Sums
      <4>3. now[j] \in Nat /\ now[j-1] \in Nat
        BY <1>3, <4>1
      <4>4. CASE j = p
        <5>1. f[j] = delay /\ r.lag[tm.q[j]] = now[j] - delay
          <6> HIDE DEF f
          <6> QED BY <3>1, <4>1, <4>4 DEF Linked
        <5> HIDE DEF f, j
        <5>2. f[i] = f[j] + r.lag[r.q[i]]
          BY <4>2, <4>3, <5>1
        <5> QED BY <5>2 DEF j
      <4>5. CASE j # p
        <5>1. f[j] = now[j-1] /\ r.lag[tm.q[j]] = tm.lag[tm.q[j]]
          <6>1. ~(j < p)
            BY <1>1, <3>0, <3>4
          <6> HIDE DEF f
          <6> QED BY <3>1, <4>1, <4>5, <6>1 DEF Linked
        <5> HIDE DEF f, j
        <5>2. f[i] = f[j] + r.lag[r.q[i]]
          BY <4>2, <5>1
        <5> QED BY <5>2 DEF j
      <4> QED BY <4>4, <4>5
    <3> QED
      BY <1>1, <3>0, <3>2, <3>3, <3>4
  <2> QED
    BY <1>4, <2>1, <2>2, Zenon DEF Sums
<1>6. \A i \in 0..n+1 : Now(r)[i] = f[i]
  <2> HIDE DEF f
  <2> QED
    BY <1>4, <1>5, NowSums, SumsUnique
<1> QED
  BY <1>6, Zenon DEF Shifted

\* wd_start() puts w where it belongs, behind those that expire at the same
\* tick.
LEMMA LinkFacts ==
  ASSUME NEW tm \in Timer, NEW w \in Wdog, NEW delay \in Nat,
         Inj(tm.q), \A i \in 1..Len(tm.q) : tm.q[i] # w
  PROVE  LET r == Link(tm, w, delay)
         IN  /\ r \in Timer
             /\ \E p \in 1..Len(tm.q)+1 :
                  /\ Inserted(tm.q, p, w, r.q)
                  /\ Shifted(tm, r, delay, p)
                  /\ \A i \in 1..p-1 : Now(tm)[i] <= delay
                  /\ \A i \in p..Len(tm.q) : Now(tm)[i] > delay
<1> DEFINE n == Len(tm.q)
           now == Now(tm)
           stop == Stop(now, n, delay)
           before == delay - (now[stop] - tm.lag[tm.q[stop]])
           r == Link(tm, w, delay)
           Goal == /\ r \in Timer
                   /\ \E p \in 1..n+1 :
                        /\ Inserted(tm.q, p, w, r.q)
                        /\ Shifted(tm, r, delay, p)
                        /\ \A i \in 1..p-1 : now[i] <= delay
                        /\ \A i \in p..n : now[i] > delay
<1>1. /\ n \in Nat /\ tm.q \in Seq(Wdog) /\ tm.lag \in [Wdog -> Nat]
      /\ \A i \in 1..n : tm.q[i] \in Wdog /\ tm.lag[tm.q[i]] \in Nat
  BY TimerFields
<1>2. Sums(tm, now) /\ now[0] = 0 /\ \A i \in 1..n : now[i] = now[i-1] + tm.lag[tm.q[i]]
  BY NowSums DEF Sums
<1>3. \A i \in 0..n : now[i] \in Nat
  BY <1>2, SumsNat
<1>4. r = IF n = 0
          THEN [q |-> <<w>>, lag |-> [tm.lag EXCEPT ![w] = delay]]
          ELSE IF delay < now[stop]
          THEN [q   |-> InsertAt(tm.q, stop, w),
                lag |-> [tm.lag EXCEPT ![tm.q[stop]] = @ - before, ![w] = before]]
          ELSE [q   |-> Append(tm.q, w),
                lag |-> [tm.lag EXCEPT ![w] = delay - now[stop]]]
  BY Zenon DEF Link
<1>5. ASSUME n # 0
      PROVE  /\ stop \in 1..n /\ (now[stop] > delay \/ stop = n)
             /\ \A j \in 1..stop-1 : now[j] <= delay
  <2> HIDE DEF now, n
  <2> QED BY <1>1, <1>3, <1>5, StopFacts
<1> HIDE DEF r, now, stop, before
<1>6. CASE n = 0
  <2>1. r.q = <<w>> /\ r.lag = [tm.lag EXCEPT ![w] = delay]
    BY <1>4, <1>6
  <2>2. r \in Timer
    BY <1>1, <1>4, <1>6, <2>1 DEF Timer
  <2>3. Inserted(tm.q, 1, w, r.q)
    BY <1>6, <2>1 DEF Inserted
  <2>4. r.lag[w] = delay - now[1-1]
    BY <1>1, <1>2, <2>1
  <2>5. 1 \in 1..n+1 /\ ~(1 <= n) /\ 1..n = {}
    BY <1>6
  <2>6. Shifted(tm, r, delay, 1)
    <3>1. Linked(tm, r, w, delay, 1)
      BY <2>3, <2>4, <2>5 DEF Linked, now
    <3> QED
      BY <2>2, <2>5, <3>1, LinkedSums
  <2>7. Goal
    BY <1>6, <2>2, <2>3, <2>5, <2>6
  <2> QED
    BY <2>7 DEF r, now
<1>7. CASE n # 0 /\ delay < now[stop]
  <2>0. /\ stop \in 1..n /\ stop \in Nat /\ stop \in 1..n+1 /\ stop-1 \in 0..n /\ stop <= n
        /\ \A j \in 1..stop-1 : now[j] <= delay
    BY <1>1, <1>5, <1>7
  <2>1. /\ r.q = InsertAt(tm.q, stop, w)
        /\ r.lag = [tm.lag EXCEPT ![tm.q[stop]] = @ - before, ![w] = before]
    BY <1>4, <1>7
  <2>2. now[stop-1] <= delay
    <3>1. CASE stop = 1
      BY <1>2, <3>1
    <3>2. CASE stop # 1
      BY <2>0, <3>2
    <3> QED BY <3>1, <3>2
  <2>3. /\ now[stop] = now[stop-1] + tm.lag[tm.q[stop]]
        /\ now[stop-1] \in Nat /\ now[stop] \in Nat /\ tm.lag[tm.q[stop]] \in Nat
    BY <1>1, <1>2, <1>3, <2>0
  <2>4. before = delay - now[stop-1] /\ before \in Nat
    BY <2>2, <2>3 DEF before
  <2>5. tm.lag[tm.q[stop]] - before = now[stop] - delay /\ tm.lag[tm.q[stop]] - before \in Nat
    BY <1>7, <2>3, <2>4
  <2>6. Inserted(tm.q, stop, w, r.q) /\ r.q \in Seq(Wdog)
    <3>1. Inserted(tm.q, stop, w, InsertAt(tm.q, stop, w))
      <4> HIDE DEF n
      <4> QED BY <1>1, <2>0, InsertAtFacts DEF n
    <3> QED
      BY <2>1, <3>1 DEF Inserted
  <2>7. tm.q[stop] # w /\ tm.q[stop] \in Wdog
    BY <1>1, <2>0
  <2>8. /\ r.lag \in [Wdog -> Nat] /\ r.lag[w] = before
        /\ r.lag[tm.q[stop]] = tm.lag[tm.q[stop]] - before
        /\ \A x \in Wdog : x # w /\ x # tm.q[stop] => r.lag[x] = tm.lag[x]
    <3> DEFINE lag == tm.lag
               a == tm.q[stop]
               l == r.lag
    <3>1. /\ lag \in [Wdog -> Nat] /\ a \in Wdog /\ a # w /\ before \in Nat /\ lag[a] - before \in Nat
          /\ l = [lag EXCEPT ![a] = @ - before, ![w] = before]
      BY <1>1, <2>1, <2>4, <2>5, <2>7, Zenon
    <3> HIDE DEF lag, a, l
    <3>2. /\ l \in [Wdog -> Nat] /\ l[w] = before /\ l[a] = lag[a] - before
          /\ \A x \in Wdog : x # w /\ x # a => l[x] = lag[x]
      BY <3>1
    <3> QED
      BY <3>2, Zenon DEF lag, a, l
  <2>9. r \in Timer
    BY <1>4, <1>7, <2>6, <2>8, Zenon DEF Timer
  <2>10. \A i \in 1..n : i # stop => r.lag[tm.q[i]] = tm.lag[tm.q[i]]
    BY <1>1, <2>0, <2>8, Zenon DEF Inj
  <2>11. Shifted(tm, r, delay, stop)
    <3>1. Linked(tm, r, w, delay, stop)
      BY <2>4, <2>5, <2>6, <2>8, <2>10, Zenon DEF Linked, now
    <3> QED
      BY <2>0, <2>9, <3>1, LinkedSums
  <2>12. \A i \in stop..n : now[i] > delay
    <3>1. stop \in 0..n /\ \A i \in stop..n : i \in 0..n
      BY <1>1, <2>0
    <3>2. \A i \in stop..n : now[stop] <= now[i]
      BY <1>2, <3>1, SumsMonotone
    <3> QED
      BY <1>3, <1>7, <2>3, <3>1, <3>2
  <2>13. Goal
    BY <2>0, <2>6, <2>9, <2>11, <2>12
  <2> QED
    BY <2>13 DEF r, now
<1>8. CASE n # 0 /\ ~(delay < now[stop])
  <2>0. stop = n /\ n \in 1..n /\ n \in 0..n /\ (\A j \in 1..n-1 : now[j] <= delay) /\ now[n] \in Nat
    BY <1>1, <1>3, <1>5, <1>8
  <2>1. r.q = Append(tm.q, w) /\ r.lag = [tm.lag EXCEPT ![w] = delay - now[n]]
    BY <1>4, <1>8, <2>0
  <2>2. delay - now[n] \in Nat
    BY <1>8, <2>0
  <2>3. Inserted(tm.q, n+1, w, r.q) /\ r.q \in Seq(Wdog)
    <3>1. r.q \in Seq(Wdog) /\ Len(r.q) = n+1 /\ (\A i \in 1..n : r.q[i] = tm.q[i]) /\ r.q[n+1] = w
      BY <1>1, <2>1, AppendProperties
    <3> QED
      BY <1>1, <3>1 DEF Inserted
  <2>4. /\ r.lag \in [Wdog -> Nat] /\ r.lag[w] = delay - now[n]
        /\ \A x \in Wdog : x # w => r.lag[x] = tm.lag[x]
    BY <1>1, <2>1, <2>2
  <2>5. r \in Timer
    BY <1>4, <1>8, <2>3, <2>4 DEF Timer
  <2>6. \A i \in 1..n : r.lag[tm.q[i]] = tm.lag[tm.q[i]]
    BY <1>1, <2>4, Zenon
  <2> DEFINE p == n+1
  <2>7. p \in 1..n+1 /\ p-1 = n /\ ~(p <= n)
    BY <1>1
  <2>8. Inserted(tm.q, p, w, r.q) /\ r.lag[w] = delay - now[p-1]
    BY <2>3, <2>4, <2>7
  <2> HIDE DEF p
  <2>9. Shifted(tm, r, delay, p)
    <3>1. Linked(tm, r, w, delay, p)
      BY <2>6, <2>7, <2>8, Zenon DEF Linked, now
    <3> QED
      BY <2>5, <2>7, <3>1, LinkedSums
  <2>10. \A i \in 1..p-1 : now[i] <= delay
    BY <1>1, <1>8, <2>0, <2>7
  <2>11. \A i \in p..n : now[i] > delay
    BY <1>1, <2>7
  <2>12. Goal
    BY <2>5, <2>7, <2>8, <2>9, <2>10, <2>11
  <2> QED
    BY <2>12 DEF r, now
<1> QED
  BY <1>6, <1>7, <1>8

-----------------------------------------------------------------------------
(* The same, by watchdog: when each is due.                                *)

\* A watchdog in the list, and one that is not.
LEMMA Gettime ==
  ASSUME NEW tm \in Timer, Inj(tm.q)
  PROVE  /\ \A i \in 1..Len(tm.q) : DueIn(tm, tm.q[i]) = Now(tm)[i] /\ Now(tm)[i] \in Nat
         /\ \A x : x \notin ToSet(tm.q) => DueIn(tm, x) = -1
         /\ \A x \in ToSet(tm.q) : DueIn(tm, x) \in Nat
<1>1. tm.q \in Seq(Wdog) /\ Len(tm.q) \in Nat
  BY TimerFields
<1>2. ASSUME NEW i \in 1..Len(tm.q)
      PROVE  DueIn(tm, tm.q[i]) = Now(tm)[i] /\ Now(tm)[i] \in Nat
  <2>1. Position(tm.q, tm.q[i]) = i
    BY <1>1, PositionFacts
  <2>2. tm.q[i] \in ToSet(tm.q)
    BY <1>1, InToSet
  <2>3. \A j \in 0..Len(tm.q) : Now(tm)[j] \in Nat
    BY NowSums, SumsNat
  <2>4. i \in 0..Len(tm.q)
    BY <1>1
  <2> QED
    BY <2>1, <2>2, <2>3, <2>4 DEF DueIn, wd_gettime
<1>3. \A x : x \notin ToSet(tm.q) => DueIn(tm, x) = -1
  BY DEF DueIn, wd_gettime
<1>4. \A x \in ToSet(tm.q) : \E i \in 1..Len(tm.q) : tm.q[i] = x
  BY <1>1, InToSet
<1> QED
  BY <1>2, <1>3, <1>4

\* The first watchdog is the first to expire.
LEMMA HeadIsNext ==
  ASSUME NEW tm \in Timer, Inj(tm.q), tm.q # << >>
  PROVE  /\ Head(tm.q) = tm.q[1] /\ Head(tm.q) \in ToSet(tm.q) /\ Head(tm.q) \in Wdog
         /\ 1 \in 1..Len(tm.q) /\ tm.lag[Head(tm.q)] \in Nat
         /\ DueIn(tm, Head(tm.q)) = tm.lag[Head(tm.q)]
         /\ \A x \in ToSet(tm.q) : DueIn(tm, x) >= tm.lag[Head(tm.q)]
<1>1. tm.q \in Seq(Wdog) /\ Len(tm.q) \in Nat /\ \A i \in 1..Len(tm.q) : tm.q[i] \in Wdog /\ tm.lag[tm.q[i]] \in Nat
  BY TimerFields
<1>2. 1 \in 1..Len(tm.q) /\ 1 \in 0..Len(tm.q) /\ Head(tm.q) = tm.q[1]
  BY <1>1, EmptySeq
<1>3. tm.q[1] \in ToSet(tm.q)
  BY <1>1, <1>2, InToSet
<1>4. Sums(tm, Now(tm))
  BY NowSums
<1>5. Now(tm)[1] = tm.lag[tm.q[1]]
  BY <1>1, <1>2, <1>4 DEF Sums
<1>6. \A j \in 1..Len(tm.q) : Now(tm)[1] <= Now(tm)[j]
  BY <1>2, <1>4, SumsMonotone
<1>7. \A x \in ToSet(tm.q) : \E i \in 1..Len(tm.q) : tm.q[i] = x
  BY <1>1, InToSet
<1>8. \A i \in 1..Len(tm.q) : DueIn(tm, tm.q[i]) = Now(tm)[i] /\ Now(tm)[i] \in Nat
  BY Gettime
<1>9. ASSUME NEW x \in ToSet(tm.q)
      PROVE  DueIn(tm, x) >= tm.lag[tm.q[1]]
  <2>1. PICK i \in 1..Len(tm.q) : tm.q[i] = x
    BY <1>7
  <2>2. DueIn(tm, x) = Now(tm)[i] /\ Now(tm)[i] \in Nat /\ Now(tm)[1] <= Now(tm)[i]
    BY <1>6, <1>8, <2>1
  <2>3. tm.lag[tm.q[1]] \in Nat
    BY <1>1, <1>2
  <2> QED
    BY <1>5, <2>2, <2>3
<1> QED
  BY <1>1, <1>2, <1>3, <1>5, <1>8, <1>9

\* Unlink stops w and no other watchdog.
LEMMA UnlinkAlarms ==
  ASSUME NEW tm \in Timer, Inj(tm.q), NEW w \in ToSet(tm.q)
  PROVE  LET r == Unlink(tm, w)
         IN  /\ r \in Timer /\ Inj(r.q) /\ ToSet(r.q) = ToSet(tm.q) \ {w}
             /\ \A x : DueIn(r, x) = IF x = w THEN -1 ELSE DueIn(tm, x)
<1> DEFINE n == Len(tm.q)
           r == Unlink(tm, w)
<1>1. tm.q \in Seq(Wdog) /\ n \in Nat
  BY TimerFields
<1>2. PICK p \in 1..n : tm.q[p] = w
  BY <1>1, InToSet
<1>3. /\ r \in Timer /\ Removed(tm.q, p, r.q)
      /\ \A i \in 0..n-1 : Now(r)[i] = IF i < p THEN Now(tm)[i] ELSE Now(tm)[i+1]
  BY <1>2, UnlinkFacts
<1> HIDE DEF r
<1> DEFINE old(i) == IF i < p THEN i ELSE i+1
<1>4. /\ r.q \in Seq(Wdog) /\ Len(r.q) = n-1
      /\ \A i \in 1..n-1 : r.q[i] = tm.q[old(i)] /\ Now(r)[i] = Now(tm)[old(i)]
  BY <1>1, <1>3 DEF Removed
<1>5. /\ \A i \in 1..n-1 : old(i) \in 1..n /\ old(i) # p
      /\ \A i, j \in 1..n-1 : old(i) = old(j) => i = j
      /\ \A j \in 1..n : j # p => \E i \in 1..n-1 : old(i) = j
  <2>1. ASSUME NEW j \in 1..n, j # p PROVE \E i \in 1..n-1 : old(i) = j
    <3>1. CASE j < p
      BY <1>1, <3>1
    <3>2. CASE j > p
      <4>1. j-1 \in 1..n-1 /\ old(j-1) = j
        BY <1>1, <3>2
      <4> QED BY <4>1
    <3> QED BY <1>1, <2>1, <3>1, <3>2
  <2>2. \A i \in 1..n-1 : old(i) \in 1..n /\ old(i) # p
    BY <1>1
  <2>3. \A i, j \in 1..n-1 : old(i) = old(j) => i = j
    BY <1>1
  <2> QED BY <2>1, <2>2, <2>3
<1> HIDE DEF old
<1>6. Inj(r.q)
  <2> SUFFICES ASSUME NEW i \in 1..n-1, NEW j \in 1..n-1, r.q[i] = r.q[j] PROVE i = j
    BY <1>4 DEF Inj
  <2>1. tm.q[old(i)] = tm.q[old(j)] /\ old(i) \in 1..n /\ old(j) \in 1..n
    BY <1>4, <1>5
  <2> QED
    BY <1>5, <2>1, Zenon DEF Inj
<1>7. ASSUME NEW x PROVE x \in ToSet(r.q) <=> x \in ToSet(tm.q) /\ x # w
  <2>1. x \in ToSet(r.q) <=> \E i \in 1..n-1 : r.q[i] = x
    BY <1>4, InToSet
  <2>2. x \in ToSet(tm.q) <=> \E i \in 1..n : tm.q[i] = x
    BY <1>1, InToSet
  <2>3. ASSUME NEW i \in 1..n-1, r.q[i] = x PROVE x \in ToSet(tm.q) /\ x # w
    <3>1. x = tm.q[old(i)] /\ old(i) \in 1..n /\ old(i) # p
      BY <1>4, <1>5, <2>3, Zenon
    <3> QED
      BY <1>2, <2>2, <3>1, Zenon DEF Inj
  <2>4. ASSUME NEW j \in 1..n, tm.q[j] = x, x # w PROVE x \in ToSet(r.q)
    <3>1. PICK i \in 1..n-1 : old(i) = j
      BY <1>2, <1>5, <2>4, Zenon
    <3> QED
      BY <1>4, <2>1, <2>4, <3>1, Zenon
  <2> QED BY <2>1, <2>2, <2>3, <2>4
<1>8. /\ \A i \in 1..n-1 : DueIn(r, r.q[i]) = Now(r)[i]
      /\ \A x : x \notin ToSet(r.q) => DueIn(r, x) = -1
  BY <1>3, <1>4, <1>6, Gettime
<1>9. /\ \A i \in 1..n : DueIn(tm, tm.q[i]) = Now(tm)[i]
      /\ \A x : x \notin ToSet(tm.q) => DueIn(tm, x) = -1
  BY Gettime
<1>10. ASSUME NEW x PROVE DueIn(r, x) = IF x = w THEN -1 ELSE DueIn(tm, x)
  <2>1. CASE x \in ToSet(r.q)
    <3>1. PICK i \in 1..n-1 : r.q[i] = x
      BY <1>4, <2>1, InToSet
    <3>2. /\ x = tm.q[old(i)] /\ old(i) \in 1..n
          /\ Now(r)[i] = Now(tm)[old(i)]
      BY <1>4, <1>5, <3>1, Zenon
    <3>3. DueIn(r, x) = Now(r)[i]
      BY <1>8, <3>1, Zenon
    <3>4. DueIn(tm, x) = Now(tm)[old(i)]
      BY <1>9, <3>2, Zenon
    <3>5. DueIn(r, x) = DueIn(tm, x)
      BY <3>2, <3>3, <3>4, Zenon
    <3> QED BY <1>7, <2>1, <3>5
  <2>2. CASE x \notin ToSet(r.q)
    BY <1>7, <1>8, <1>9, <2>2
  <2> QED BY <2>1, <2>2
<1> QED
  BY <1>3, <1>6, <1>7, <1>10 DEF r

\* Link starts w, with the delay, and no other watchdog; those that expire at
\* the same tick stay in front.
LEMMA LinkAlarms ==
  ASSUME NEW tm \in Timer, Inj(tm.q), NEW w \in Wdog, w \notin ToSet(tm.q), NEW delay \in Nat
  PROVE  LET r == Link(tm, w, delay)
         IN  /\ r \in Timer /\ Inj(r.q) /\ ToSet(r.q) = ToSet(tm.q) \cup {w}
             /\ \A x : DueIn(r, x) = IF x = w THEN delay ELSE DueIn(tm, x)
             /\ \A x \in ToSet(tm.q) :
                  DueIn(tm, x) = delay => Position(r.q, x) < Position(r.q, w)
<1> DEFINE n == Len(tm.q)
           r == Link(tm, w, delay)
<1>1. tm.q \in Seq(Wdog) /\ n \in Nat
  BY TimerFields
<1>2. \A i \in 1..n : tm.q[i] # w
  BY <1>1, InToSet
<1>3. /\ r \in Timer
      /\ \E p \in 1..n+1 : /\ Inserted(tm.q, p, w, r.q) /\ Shifted(tm, r, delay, p)
                           /\ \A i \in 1..p-1 : Now(tm)[i] <= delay
                           /\ \A i \in p..n : Now(tm)[i] > delay
  BY <1>2, LinkFacts, Zenon
<1> HIDE DEF r
<1>4. PICK p \in 1..n+1 : /\ Inserted(tm.q, p, w, r.q) /\ Shifted(tm, r, delay, p)
                          /\ \A i \in p..n : Now(tm)[i] > delay
  BY <1>3
<1> DEFINE new(i) == IF i < p THEN i ELSE i+1
<1>5. /\ \A i \in 1..n : new(i) \in 1..n+1 /\ new(i) # p /\ (i < p => new(i) < p)
      /\ \A j \in 1..n+1 : j # p => \E i \in 1..n : new(i) = j
  <2>1. ASSUME NEW j \in 1..n+1, j # p PROVE \E i \in 1..n : new(i) = j
    <3>1. CASE j < p
      BY <1>1, <3>1
    <3>2. CASE j > p
      <4>1. j-1 \in 1..n /\ new(j-1) = j
        BY <1>1, <3>2
      <4> QED BY <4>1
    <3> QED BY <1>1, <2>1, <3>1, <3>2
  <2>2. \A i \in 1..n : new(i) \in 1..n+1 /\ new(i) # p /\ (i < p => new(i) < p)
    BY <1>1
  <2> QED BY <2>1, <2>2
<1>6. /\ r.q \in Seq(Wdog) /\ Len(r.q) = n+1 /\ r.q[p] = w /\ Now(r)[p] = delay
      /\ \A i \in 1..n : r.q[new(i)] = tm.q[i] /\ Now(r)[new(i)] = Now(tm)[i]
  <2>1. r.q \in Seq(Wdog) /\ Len(r.q) = n+1 /\ r.q[p] = w
    BY <1>4 DEF Inserted
  <2>2. p \in 0..n+1 /\ ~(p < p)
    BY <1>1
  <2>3. Now(r)[p] = delay
    BY <1>4, <2>2 DEF Shifted
  <2>4. ASSUME NEW i \in 1..n
        PROVE  r.q[new(i)] = tm.q[i] /\ Now(r)[new(i)] = Now(tm)[i]
    <3>1. CASE i < p
      <4>1. new(i) = i /\ i \in 1..n+1 /\ i \in 0..n+1
        BY <1>1, <3>1
      <4> HIDE DEF new
      <4> QED BY <1>4, <3>1, <4>1 DEF Inserted, Shifted
    <3>2. CASE ~(i < p)
      <4> DEFINE k == i+1
      <4>1. new(i) = k /\ k \in 1..n+1 /\ k \in 0..n+1 /\ ~(k < p) /\ k # p /\ k-1 = i
        BY <1>1, <3>2
      <4> HIDE DEF new, k
      <4> QED BY <1>4, <4>1 DEF Inserted, Shifted
    <3> QED BY <3>1, <3>2
  <2> HIDE DEF new
  <2> QED BY <2>1, <2>3, <2>4
<1> HIDE DEF new
<1>7. Inj(r.q)
  <2> SUFFICES ASSUME NEW i \in 1..n+1, NEW j \in 1..n+1, r.q[i] = r.q[j] PROVE i = j
    BY <1>6 DEF Inj
  <2>0. ASSUME NEW k \in 1..n+1, k # p PROVE r.q[k] # w
    <3>1. PICK m \in 1..n : new(m) = k
      BY <1>5, <2>0, Zenon
    <3> QED
      BY <1>2, <1>6, <3>1, Zenon
  <2>1. CASE i = p \/ j = p
    BY <1>6, <2>0, <2>1
  <2>2. CASE i # p /\ j # p
    <3>1. PICK k \in 1..n : new(k) = i
      BY <1>5, <2>2, Zenon
    <3>2. PICK m \in 1..n : new(m) = j
      BY <1>5, <2>2, Zenon
    <3>3. tm.q[k] = tm.q[m]
      BY <1>6, <3>1, <3>2
    <3> QED
      BY <3>1, <3>2, <3>3 DEF Inj
  <2> QED BY <2>1, <2>2
<1>8. ASSUME NEW x PROVE x \in ToSet(r.q) <=> x \in ToSet(tm.q) \/ x = w
  <2>1. x \in ToSet(r.q) <=> \E i \in 1..n+1 : r.q[i] = x
    BY <1>6, InToSet
  <2>2. x \in ToSet(tm.q) <=> \E i \in 1..n : tm.q[i] = x
    BY <1>1, InToSet
  <2>3. ASSUME NEW j \in 1..n+1, r.q[j] = x PROVE x \in ToSet(tm.q) \/ x = w
    BY <1>5, <1>6, <2>2, <2>3, Zenon
  <2>4. ASSUME NEW i \in 1..n, tm.q[i] = x PROVE x \in ToSet(r.q)
    BY <1>5, <1>6, <2>1, <2>4, Zenon
  <2> QED BY <1>6, <2>1, <2>2, <2>3, <2>4, Zenon
<1>9. /\ \A i \in 1..n+1 : DueIn(r, r.q[i]) = Now(r)[i]
      /\ \A x : x \notin ToSet(r.q) => DueIn(r, x) = -1
  BY <1>3, <1>6, <1>7, Gettime
<1>10. /\ \A i \in 1..n : DueIn(tm, tm.q[i]) = Now(tm)[i] /\ Now(tm)[i] \in Nat
       /\ \A x : x \notin ToSet(tm.q) => DueIn(tm, x) = -1
  BY Gettime
<1>11. ASSUME NEW x PROVE DueIn(r, x) = IF x = w THEN delay ELSE DueIn(tm, x)
  <2>1. CASE x = w
    BY <1>6, <1>9, <2>1
  <2>2. CASE x # w /\ x \in ToSet(tm.q)
    <3>1. PICK i \in 1..n : tm.q[i] = x
      BY <1>1, <2>2, InToSet
    <3>2. DueIn(r, x) = DueIn(tm, x)
      BY <1>5, <1>6, <1>9, <1>10, <3>1, Zenon
    <3> QED BY <2>2, <3>2
  <2>3. CASE x # w /\ x \notin ToSet(tm.q)
    BY <1>8, <1>9, <1>10, <2>3
  <2> QED BY <2>1, <2>2, <2>3
<1>12. ASSUME NEW x \in ToSet(tm.q), DueIn(tm, x) = delay
       PROVE  Position(r.q, x) < Position(r.q, w)
  <2>1. PICK i \in 1..n : tm.q[i] = x
    BY <1>1, InToSet
  <2>2. Now(tm)[i] = delay
    BY <1>10, <1>12, <2>1
  <2>3. i < p
    BY <1>1, <1>4, <2>2
  <2>4. Position(r.q, r.q[p]) = p /\ Position(r.q, r.q[new(i)]) = new(i)
    BY <1>5, <1>6, <1>7, PositionFacts
  <2> QED
    BY <1>5, <1>6, <2>1, <2>3, <2>4
<1> QED
  BY <1>3, <1>7, <1>8, <1>11, <1>12 DEF r

\* A tick brings every watchdog in the list one tick nearer.
LEMMA TickAlarms ==
  ASSUME NEW tm \in Timer, Inj(tm.q), tm.q # << >>, tm.lag[Head(tm.q)] > 0
  PROVE  LET r == [tm EXCEPT !.lag[Head(tm.q)] = @ - 1]
         IN  /\ r \in Timer /\ r.q = tm.q
             /\ \A x : DueIn(r, x) = IF x \in ToSet(tm.q) THEN DueIn(tm, x) - 1 ELSE -1
<1> DEFINE n == Len(tm.q)
           h == tm.q[1]
           r == [tm EXCEPT !.lag[Head(tm.q)] = @ - 1]
           f == [i \in 0..n |-> IF i = 0 THEN 0 ELSE Now(tm)[i] - 1]
<1>1. /\ tm.q \in Seq(Wdog) /\ n \in Nat /\ tm.lag \in [Wdog -> Nat]
      /\ \A i \in 1..n : tm.q[i] \in Wdog /\ tm.lag[tm.q[i]] \in Nat
  BY TimerFields
<1>2. Head(tm.q) = h /\ 1 \in 1..n /\ h \in Wdog /\ tm.lag[h] \in Nat /\ tm.lag[h] > 0
  BY HeadIsNext
<1>3. r.q = tm.q /\ r.lag = [tm.lag EXCEPT ![h] = @ - 1] /\ r = [q |-> r.q, lag |-> r.lag]
  <2>1. tm = [q |-> tm.q, lag |-> tm.lag]
    BY DEF Timer
  <2>2. r = [q |-> tm.q, lag |-> [tm.lag EXCEPT ![Head(tm.q)] = @ - 1]]
    BY <2>1
  <2> HIDE DEF r
  <2> QED BY <1>2, <2>2
<1>4. /\ r.lag \in [Wdog -> Nat] /\ r.lag[h] = tm.lag[h] - 1
      /\ \A x \in Wdog : x # h => r.lag[x] = tm.lag[x]
  BY <1>1, <1>2, <1>3
<1>5. r \in Timer
  BY <1>1, <1>3, <1>4 DEF Timer
<1>6. Sums(tm, Now(tm)) /\ \A i \in 0..n : Now(tm)[i] \in Nat
  BY NowSums, SumsNat
<1> HIDE DEF r
<1>7. Sums(r, f)
  <2>1. f[0] = 0
    BY <1>1
  <2>2. ASSUME NEW i \in 1..n PROVE f[i] = f[i-1] + r.lag[r.q[i]]
    <3>1. i \in 0..n /\ i-1 \in 0..n /\ i # 0
      BY <1>1
    <3>2. f[i] = Now(tm)[i] - 1 /\ f[i-1] = IF i = 1 THEN 0 ELSE Now(tm)[i-1] - 1
      BY <3>1
    <3>3. Now(tm)[i] = Now(tm)[i-1] + tm.lag[tm.q[i]] /\ Now(tm)[0] = 0
      BY <1>6 DEF Sums
    <3>4. Now(tm)[i-1] \in Nat /\ tm.lag[tm.q[i]] \in Nat
      BY <1>1, <1>6, <3>1
    <3>5. CASE i = 1
      <4>1. r.lag[r.q[i]] = tm.lag[tm.q[i]] - 1 /\ Now(tm)[i] = tm.lag[tm.q[i]] /\ f[i-1] = 0
        BY <1>3, <1>4, <3>2, <3>3, <3>4, <3>5
      <4> HIDE DEF f
      <4> QED BY <3>2, <3>4, <4>1
    <3>6. CASE i # 1
      <4>1. tm.q[i] # h
        BY <1>2, <3>6 DEF Inj
      <4>2. r.lag[r.q[i]] = tm.lag[tm.q[i]]
        BY <1>1, <1>3, <1>4, <4>1
      <4> HIDE DEF f
      <4> QED BY <3>2, <3>3, <3>4, <3>6, <4>2
    <3> QED BY <3>5, <3>6
  <2> QED BY <1>3, <2>1, <2>2 DEF Sums
<1>8. \A i \in 0..n : Now(r)[i] = f[i]
  <2> HIDE DEF f
  <2> QED BY <1>3, <1>5, <1>7, NowSums, SumsUnique
<1>9. \A i \in 1..n : Now(r)[i] = Now(tm)[i] - 1
  <2>1. \A i \in 1..n : i \in 0..n /\ f[i] = Now(tm)[i] - 1
    BY <1>1
  <2> HIDE DEF f
  <2> QED BY <1>8, <2>1
<1>10. /\ \A i \in 1..n : DueIn(r, tm.q[i]) = Now(r)[i]
       /\ \A x : x \notin ToSet(tm.q) => DueIn(r, x) = -1
  BY <1>3, <1>5, Gettime
<1>11. \A i \in 1..n : DueIn(tm, tm.q[i]) = Now(tm)[i]
  BY Gettime
<1>12. \A x \in ToSet(tm.q) : \E i \in 1..n : tm.q[i] = x
  BY <1>1, InToSet
<1>13. ASSUME NEW x PROVE DueIn(r, x) = IF x \in ToSet(tm.q) THEN DueIn(tm, x) - 1 ELSE -1
  BY <1>9, <1>10, <1>11, <1>12
<1> QED
  BY <1>3, <1>5, <1>13 DEF r

\* The loop of wd_timer() takes the first watchdog off as wd_cancel() would.
LEMMA ExpireUnlinks ==
  ASSUME NEW tm \in Timer, Inj(tm.q), tm.q # << >>
  PROVE  [q   |-> Tail(tm.q),
          lag |-> IF Tail(tm.q) # << >>
                  THEN [tm.lag EXCEPT ![Head(Tail(tm.q))] = @ + tm.lag[Head(tm.q)]]
                  ELSE tm.lag] = Unlink(tm, Head(tm.q))
<1>1. tm.q \in Seq(Wdog) /\ Len(tm.q) \in Nat
  BY TimerFields
<1>2. Head(tm.q) = tm.q[1] /\ 1 \in 1..Len(tm.q)
  BY HeadIsNext
<1>3. Position(tm.q, tm.q[1]) = 1
  BY <1>1, <1>2, PositionFacts
<1>4. Removed(tm.q, 1, RemoveAt(tm.q, 1))
  BY <1>1, <1>2, RemoveAtFacts
<1>5. /\ Tail(tm.q) \in Seq(Wdog) /\ Len(Tail(tm.q)) = Len(tm.q) - 1
      /\ \A i \in 1..Len(tm.q)-1 : Tail(tm.q)[i] = tm.q[i+1]
  BY <1>1, HeadTailProperties
<1>6. RemoveAt(tm.q, 1) = Tail(tm.q)
  <2>1. /\ RemoveAt(tm.q, 1) \in Seq(Wdog) /\ Len(RemoveAt(tm.q, 1)) = Len(tm.q) - 1
        /\ \A i \in 1..Len(tm.q)-1 : RemoveAt(tm.q, 1)[i] = tm.q[i+1]
    BY <1>1, <1>4 DEF Removed
  <2> DEFINE a == RemoveAt(tm.q, 1)
             b == Tail(tm.q)
  <2>2. a \in Seq(Wdog) /\ b \in Seq(Wdog) /\ Len(a) = Len(b) /\ \A i \in 1..Len(a) : a[i] = b[i]
    BY <1>5, <2>1
  <2> HIDE DEF a, b
  <2>3. a = b
    BY <2>2, SeqEqual
  <2> QED BY <2>3 DEF a, b
<1>7. /\ Tail(tm.q) # << >> <=> 1 < Len(tm.q)
      /\ 1 < Len(tm.q) => Head(Tail(tm.q)) = tm.q[1+1]
  <2>1. Tail(tm.q) # << >> <=> 1 < Len(tm.q)
    <3> DEFINE b == Tail(tm.q)
    <3>1. b \in Seq(Wdog) /\ Len(b) = Len(tm.q) - 1
      BY <1>5
    <3> HIDE DEF b
    <3>2. (b # << >> => Len(b) # 0) /\ (b = << >> => Len(b) = 0)
      BY <3>1, EmptySeq, Zenon
    <3>3. b # << >> <=> 1 < Len(tm.q)
      BY <1>1, <1>2, <3>1, <3>2
    <3> QED BY <3>3 DEF b
  <2>2. ASSUME 1 < Len(tm.q) PROVE Head(Tail(tm.q)) = tm.q[1+1]
    <3>1. Head(Tail(tm.q)) = Tail(tm.q)[1] /\ 1 \in 1..Len(tm.q)-1
      BY <1>1, <1>5, <2>1, <2>2
    <3> QED BY <1>5, <3>1
  <2> QED BY <2>1, <2>2
<1> QED
  BY <1>2, <1>3, <1>6, <1>7, Zenon DEF Unlink

-----------------------------------------------------------------------------
(* The invariant.                                                          *)

\* The flag, the list and the pool agree, and between two ticks no watchdog
\* is due.
IInv ==
  /\ TypeOK
  /\ Inj(timer.q) /\ Inj(free)
  /\ \A w \in Wdog : isactive[w] <=> w \in ToSet(timer.q)
  /\ ToSet(timer.q) \cap ToSet(free) = {}
  /\ pc = "idle" => \A w \in ToSet(timer.q) : DueIn(timer, w) > 0

\* The ticks of wd_start() are a positive number.
LEMMA TicksPositive == \A delay \in Delays : Ticks(delay) \in Nat /\ Ticks(delay) > 0
BY DelayAssumption DEF Ticks

\* The watchdogs of a finite pool can be put in a list.
LEMMA PoolOrder == SetToSeq(Wdog) \in Seq(Wdog) /\ Inj(SetToSeq(Wdog))
<1> DEFINE n == Cardinality(Wdog)
           s == SetToSeq(Wdog)
<1>1. n \in Nat /\ ExistsBijection(1..n, Wdog)
  BY PoolAssumption, FS_CardinalityType
<1>2. \E f \in [1..n -> Wdog] : IsInjective(f)
  BY <1>1 DEF ExistsBijection, Bijection, Injection, IsInjective
<1>3. s \in [1..n -> Wdog] /\ IsInjective(s)
  BY <1>2 DEF SetToSeq
<1> HIDE DEF s, n
<1>4. s \in Seq(Wdog) /\ Len(s) = n /\ DOMAIN s = 1..n
  BY <1>1, <1>3
<1>5. Inj(s)
  BY <1>3, <1>4 DEF Inj, IsInjective
<1> QED
  BY <1>4, <1>5 DEF s

\* A list without repetition has as many elements as places.
LEMMA InjCardinality ==
  ASSUME NEW q \in Seq(Wdog), Inj(q)
  PROVE  Len(q) = Cardinality(ToSet(q))
<1>1. Len(q) \in Nat /\ DOMAIN q = 1..Len(q) /\ q = [i \in 1..Len(q) |-> q[i]]
  OBVIOUS
<1>2. \A x : x \in ToSet(q) <=> \E i \in 1..Len(q) : q[i] = x
  BY InToSet
<1>3. q \in [1..Len(q) -> ToSet(q)]
  BY <1>1, <1>2
<1>4. q \in Bijection(1..Len(q), ToSet(q))
  <2>1. IsInjective(q)
    BY <1>1 DEF IsInjective, Inj
  <2>2. \A x \in ToSet(q) : \E i \in 1..Len(q) : q[i] = x
    BY <1>2
  <2> QED
    BY <1>3, <2>1, <2>2 DEF Bijection, Injection, Surjection
<1>5. ExistsBijection(1..Len(q), ToSet(q))
  BY <1>4 DEF ExistsBijection
<1> QED
  BY <1>1, <1>5, FS_CountingElements

\* The list is left by a watchdog of the pool only, and the head of the free
\* list is not in the rest of it.
LEMMA FreeLists ==
  ASSUME NEW q \in Seq(Wdog), Inj(q)
  PROVE  /\ q # << >> => /\ Head(q) \in ToSet(q) /\ Head(q) \in Wdog
                         /\ Tail(q) \in Seq(Wdog) /\ Inj(Tail(q))
                         /\ ToSet(Tail(q)) \subseteq ToSet(q)
         /\ \A w \in Wdog : w \notin ToSet(q) => /\ Append(q, w) \in Seq(Wdog) /\ Inj(Append(q, w))
                                                 /\ ToSet(Append(q, w)) = ToSet(q) \cup {w}
<1>0. Len(q) \in Nat /\ \A x : x \in ToSet(q) <=> \E i \in 1..Len(q) : q[i] = x
  BY InToSet
<1>1. ASSUME q # << >>
      PROVE  /\ Head(q) \in ToSet(q) /\ Head(q) \in Wdog
             /\ Tail(q) \in Seq(Wdog) /\ Inj(Tail(q)) /\ ToSet(Tail(q)) \subseteq ToSet(q)
  <2>1. Len(q) \in Nat \ {0} /\ Head(q) = q[1] /\ 1 \in 1..Len(q)
    BY <1>1, EmptySeq
  <2> DEFINE t == Tail(q)
  <2>2. /\ t \in Seq(Wdog) /\ Len(t) = Len(q) - 1
        /\ \A i \in 1..Len(q)-1 : t[i] = q[i+1]
    BY <1>1, HeadTailProperties
  <2> HIDE DEF t
  <2>3. \A i \in 1..Len(q)-1 : i+1 \in 1..Len(q)
    BY <2>1
  <2>4. \A i, j \in 1..Len(q)-1 : i+1 = j+1 => i = j
    OBVIOUS
  <2>5. Inj(t)
    <3> SUFFICES ASSUME NEW i \in 1..Len(q)-1, NEW j \in 1..Len(q)-1, t[i] = t[j] PROVE i = j
      BY <2>2 DEF Inj
    <3>1. q[i+1] = q[j+1] /\ i+1 \in 1..Len(q) /\ j+1 \in 1..Len(q)
      BY <2>2, <2>3
    <3>2. i+1 = j+1
      BY <3>1, Zenon DEF Inj
    <3> QED BY <2>4, <3>2
  <2>6. \A x \in ToSet(t) : \E i \in 1..Len(t) : t[i] = x
    BY <2>2, InToSet
  <2>7. \A x \in ToSet(t) : x \in ToSet(q)
    BY <1>0, <2>2, <2>3, <2>6
  <2> QED
    BY <1>0, <2>1, <2>2, <2>5, <2>7 DEF t
<1>2. ASSUME NEW w \in Wdog, w \notin ToSet(q)
      PROVE  /\ Append(q, w) \in Seq(Wdog) /\ Inj(Append(q, w))
             /\ ToSet(Append(q, w)) = ToSet(q) \cup {w}
  <2> DEFINE a == Append(q, w)
             n == Len(q)
  <2>1. /\ a \in Seq(Wdog) /\ Len(a) = n + 1
        /\ (\A i \in 1..n : a[i] = q[i]) /\ a[n+1] = w
    BY AppendProperties
  <2> HIDE DEF a
  <2>2. \A i \in 1..n : q[i] # w
    BY <1>0, <1>2
  <2>3. \A i \in 1..n+1 : i \in 1..n \/ i = n+1
    BY <1>0
  <2>4. Inj(a)
    BY <2>1, <2>2, <2>3 DEF Inj
  <2>5. ASSUME NEW x PROVE x \in ToSet(a) <=> x \in ToSet(q) \/ x = w
    <3>1. x \in ToSet(a) <=> \E i \in 1..n+1 : a[i] = x
      BY <2>1, InToSet
    <3>2. n+1 \in 1..n+1 /\ \A i \in 1..n : i \in 1..n+1
      BY <1>0
    <3> QED BY <1>0, <2>1, <2>3, <3>1, <3>2
  <2> QED BY <2>1, <2>4, <2>5 DEF a
<1> QED BY <1>1, <1>2

\* The invariant says what ActiveIsListed says.
LEMMA InvListed == IInv => ActiveIsListed
<1> SUFFICES ASSUME IInv PROVE ActiveIsListed
  OBVIOUS
<1>1. timer.q \in Seq(Wdog) /\ free \in Seq(Wdog) /\ Inj(timer.q) /\ Inj(free)
  BY DEF IInv, TypeOK, Timer
<1>2. Len(timer.q) = Cardinality(ToSet(timer.q)) /\ Len(free) = Cardinality(ToSet(free))
  BY <1>1, InjCardinality
<1> QED
  BY <1>2 DEF IInv, ActiveIsListed

-----------------------------------------------------------------------------
(* What the steps do to the alarms.                                        *)

\* wd_start(): w gets its delay, the others are not moved.
LEMMA StartFacts ==
  ASSUME IInv, NEW w \in Wdog, NEW delay \in Delays, wd_start(w, delay)
  PROVE  /\ timer' \in Timer /\ Inj(timer'.q) /\ ToSet(timer'.q) = ToSet(timer.q) \cup {w}
         /\ \A x : DueIn(timer', x) = IF x = w THEN Ticks(delay) ELSE DueIn(timer, x)
         /\ \A x \in Wdog \ {w} : DueIn(timer, x) = Ticks(delay)
                                    => Position(timer'.q, x) < Position(timer'.q, w)
<1> DEFINE tm == IF isactive[w] THEN Unlink(timer, w) ELSE timer
           d == Ticks(delay)
<1>1. timer \in Timer /\ Inj(timer.q) /\ (isactive[w] <=> w \in ToSet(timer.q))
  BY DEF IInv, TypeOK
<1>2. d \in Nat /\ d > 0
  BY TicksPositive
<1>3. timer' = Link(tm, w, d)
  BY DEF wd_start
<1>4. /\ tm \in Timer /\ Inj(tm.q) /\ ToSet(tm.q) = ToSet(timer.q) \ {w}
      /\ \A x : x # w => DueIn(tm, x) = DueIn(timer, x)
  <2>1. CASE isactive[w]
    <3>1. tm = Unlink(timer, w)
      BY <2>1
    <3> HIDE DEF tm
    <3> QED BY <1>1, <2>1, <3>1, UnlinkAlarms
  <2>2. CASE ~isactive[w]
    <3>1. tm = timer /\ w \notin ToSet(timer.q)
      BY <1>1, <2>2
    <3> HIDE DEF tm
    <3> QED BY <1>1, <3>1
  <2> QED BY <2>1, <2>2
<1> HIDE DEF tm, d
<1>5. /\ timer' \in Timer /\ Inj(timer'.q) /\ ToSet(timer'.q) = ToSet(tm.q) \cup {w}
      /\ \A x : DueIn(timer', x) = IF x = w THEN d ELSE DueIn(tm, x)
      /\ \A x \in ToSet(tm.q) : DueIn(tm, x) = d => Position(timer'.q, x) < Position(timer'.q, w)
  BY <1>2, <1>3, <1>4, LinkAlarms
<1>6. ASSUME NEW x \in Wdog \ {w}, DueIn(timer, x) = d
      PROVE  Position(timer'.q, x) < Position(timer'.q, w)
  <2>1. x \in ToSet(timer.q)
    BY <1>1, <1>2, <1>6, Gettime
  <2> QED BY <1>4, <1>5, <1>6, <2>1
<1>7. ToSet(timer'.q) = ToSet(timer.q) \cup {w}
  BY <1>4, <1>5
<1>8. \A x : DueIn(timer', x) = IF x = w THEN d ELSE DueIn(timer, x)
  BY <1>4, <1>5
<1> QED
  BY <1>5, <1>6, <1>7, <1>8 DEF d

\* wd_cancel(), wd_delete() of an active watchdog, and the loop of wd_timer():
\* w is stopped, the others are not moved.
LEMMA StopAlarm ==
  ASSUME IInv, NEW w \in Wdog, isactive[w], timer' = Unlink(timer, w)
  PROVE  /\ timer' \in Timer /\ Inj(timer'.q) /\ ToSet(timer'.q) = ToSet(timer.q) \ {w}
         /\ \A x : DueIn(timer', x) = IF x = w THEN -1 ELSE DueIn(timer, x)
<1>1. timer \in Timer /\ Inj(timer.q) /\ w \in ToSet(timer.q)
  BY DEF IInv, TypeOK
<1> QED
  BY <1>1, UnlinkAlarms

\* The watchdog that the loop takes off is active, and due now.
LEMMA ExpireFacts ==
  ASSUME IInv, Expire
  PROVE  /\ Head(timer.q) \in Wdog /\ isactive[Head(timer.q)]
         /\ DueIn(timer, Head(timer.q)) = 0
         /\ timer' = Unlink(timer, Head(timer.q))
<1>1. timer \in Timer /\ Inj(timer.q) /\ timer.q # << >> /\ timer.lag[Head(timer.q)] <= 0
  BY DEF IInv, TypeOK, Expire, Expired
<1>2. /\ Head(timer.q) \in Wdog /\ Head(timer.q) \in ToSet(timer.q) /\ timer.lag[Head(timer.q)] \in Nat
      /\ DueIn(timer, Head(timer.q)) = timer.lag[Head(timer.q)]
  BY <1>1, HeadIsNext
<1>3. timer' = Unlink(timer, Head(timer.q))
  BY <1>1, ExpireUnlinks, Zenon DEF Expire
<1> QED
  BY <1>1, <1>2, <1>3 DEF IInv

\* The timer interrupt: nothing is due, and every alarm comes nearer.
LEMMA TickFacts ==
  ASSUME IInv, wd_timer
  PROVE  /\ timer' \in Timer /\ timer'.q = timer.q
         /\ \A x \in ToSet(timer.q) : DueIn(timer, x) \in Nat /\ DueIn(timer, x) > 0
         /\ \A x : DueIn(timer', x) = IF x \in ToSet(timer.q) THEN DueIn(timer, x) - 1 ELSE -1
         /\ pc' = "idle" => \A x \in ToSet(timer.q) : DueIn(timer, x) > 1
<1> DEFINE h == Head(timer.q)
<1>1. timer \in Timer /\ Inj(timer.q) /\ timer.q # << >> /\ pc = "idle"
  BY DEF IInv, TypeOK, wd_timer
<1>2. /\ h \in ToSet(timer.q) /\ timer.lag[h] \in Nat /\ DueIn(timer, h) = timer.lag[h]
      /\ \A x \in ToSet(timer.q) : DueIn(timer, x) >= timer.lag[h]
  BY <1>1, HeadIsNext
<1>3. \A x \in ToSet(timer.q) : DueIn(timer, x) \in Nat /\ DueIn(timer, x) > 0
  BY <1>1, Gettime DEF IInv
<1>4. timer.lag[h] > 0
  BY <1>2, <1>3
<1>5. timer' = [timer EXCEPT !.lag[h] = @ - 1] /\ (pc' = "idle" => ~(timer.lag[h] <= 1))
  BY DEF wd_timer
<1>6. /\ timer' \in Timer /\ timer'.q = timer.q
      /\ \A x : DueIn(timer', x) = IF x \in ToSet(timer.q) THEN DueIn(timer, x) - 1 ELSE -1
  BY <1>1, <1>4, <1>5, TickAlarms, Zenon
<1>7. pc' = "idle" => \A x \in ToSet(timer.q) : DueIn(timer, x) > 1
  BY <1>2, <1>3, <1>5
<1> QED
  BY <1>3, <1>6, <1>7

-----------------------------------------------------------------------------
(* The invariant is inductive.                                             *)

\* No watchdog is active at first.
LEMMA InitInv == Init => IInv
<1> SUFFICES ASSUME Init PROVE IInv
  OBVIOUS
<1>1. timer.q = << >> /\ timer \in Timer
  BY DEF Init, Timer
<1>2. Inj(timer.q) /\ ToSet(timer.q) = {}
  <2>1. Len(<< >>) = 0
    BY EmptySeq
  <2> QED BY <1>1, <2>1, EmptyToSet DEF Inj
<1>3. free \in Seq(Wdog) /\ Inj(free)
  BY PoolOrder DEF Init
<1> QED
  BY <1>1, <1>2, <1>3 DEF Init, IInv, TypeOK

\* Every step keeps the invariant.
LEMMA NextInv == IInv /\ [Next]_vars => IInv'
<1> SUFFICES ASSUME IInv, [Next]_vars PROVE IInv'
  OBVIOUS
<1>0. /\ timer \in Timer /\ isactive \in [Wdog -> BOOLEAN] /\ free \in Seq(Wdog)
      /\ pc \in {"idle", "loop", "handler"}
      /\ Inj(timer.q) /\ Inj(free)
      /\ \A w \in Wdog : isactive[w] <=> w \in ToSet(timer.q)
      /\ \A x : ~(x \in ToSet(timer.q) /\ x \in ToSet(free))
      /\ pc = "idle" => \A w \in ToSet(timer.q) : DueIn(timer, w) > 0
  BY DEF IInv, TypeOK
<1> USE DEF IInv, TypeOK
<1>1. CASE wd_create
  <2>1. /\ Head(free) \in ToSet(free) /\ Head(free) \in Wdog /\ Tail(free) \in Seq(Wdog)
        /\ Inj(Tail(free)) /\ \A x \in ToSet(Tail(free)) : x \in ToSet(free)
    BY <1>0, <1>1, FreeLists, Zenon DEF wd_create
  <2>2. /\ timer' = timer /\ pc' = pc /\ free' = Tail(free)
        /\ isactive' = [isactive EXCEPT ![Head(free)] = FALSE]
    BY <1>1 DEF wd_create
  <2>3. Head(free) \notin ToSet(timer.q)
    BY <1>0, <2>1
  <2>4. \A w \in Wdog : isactive'[w] <=> w \in ToSet(timer.q)
    BY <1>0, <2>1, <2>2, <2>3
  <2> QED
    BY <1>0, <2>1, <2>2, <2>4
<1>2. ASSUME NEW w \in Wdog, NEW delay \in Delays, wd_start(w, delay)
      PROVE  IInv'
  <2>1. /\ timer' \in Timer /\ Inj(timer'.q) /\ ToSet(timer'.q) = ToSet(timer.q) \cup {w}
        /\ \A x : DueIn(timer', x) = IF x = w THEN Ticks(delay) ELSE DueIn(timer, x)
    BY <1>2, StartFacts, Zenon
  <2>2. /\ w \notin ToSet(free) /\ free' = free /\ pc' = pc
        /\ isactive' = [isactive EXCEPT ![w] = TRUE]
    BY <1>2 DEF wd_start, Holds
  <2>3. \A x \in Wdog : isactive'[x] <=> x \in ToSet(timer'.q)
    BY <1>0, <2>1, <2>2
  <2>4. ToSet(timer'.q) \cap ToSet(free') = {}
    BY <1>0, <2>1, <2>2
  <2>5. pc' = "idle" => \A x \in ToSet(timer'.q) : DueIn(timer', x) > 0
    <3>1. Ticks(delay) > 0
      BY TicksPositive
    <3> QED BY <1>0, <2>1, <2>2, <3>1
  <2> QED BY <1>0, <2>1, <2>2, <2>3, <2>4, <2>5
<1>3. ASSUME NEW w \in Wdog, isactive[w], timer' = Unlink(timer, w),
             isactive' = [isactive EXCEPT ![w] = FALSE],
             free' = free \/ (free' = Append(free, w) /\ w \notin ToSet(free)), pc' \in {pc, "handler"}
      PROVE  IInv'
  <2>1. /\ timer' \in Timer /\ Inj(timer'.q) /\ ToSet(timer'.q) = ToSet(timer.q) \ {w}
        /\ \A x : DueIn(timer', x) = IF x = w THEN -1 ELSE DueIn(timer, x)
    BY <1>3, StopAlarm
  <2>2. /\ free' \in Seq(Wdog) /\ Inj(free')
        /\ \A x \in ToSet(free') : x \in ToSet(free) \/ x = w
    <3>1. CASE free' = free
      BY <1>0, <3>1
    <3>2. CASE free' = Append(free, w) /\ w \notin ToSet(free)
      <4>1. /\ Append(free, w) \in Seq(Wdog) /\ Inj(Append(free, w))
            /\ ToSet(Append(free, w)) = ToSet(free) \cup {w}
        BY <1>0, <3>2, FreeLists
      <4> QED BY <3>2, <4>1
    <3> QED BY <1>3, <3>1, <3>2
  <2>3. \A x \in Wdog : isactive'[x] <=> x \in ToSet(timer'.q)
    BY <1>0, <1>3, <2>1
  <2>4. ToSet(timer'.q) \cap ToSet(free') = {}
    BY <1>0, <2>1, <2>2
  <2>5. pc' = "idle" => \A x \in ToSet(timer'.q) : DueIn(timer', x) > 0
    BY <1>0, <1>3, <2>1
  <2> QED BY <1>0, <1>3, <2>1, <2>2, <2>3, <2>4, <2>5
<1>4. ASSUME NEW w \in Wdog, wd_cancel(w)
      PROVE  IInv'
  BY <1>3, <1>4, Zenon DEF wd_cancel
<1>5. ASSUME NEW w \in Wdog, wd_delete(w)
      PROVE  IInv'
  <2>1. CASE isactive[w]
    BY <1>3, <1>5, <2>1, Zenon DEF wd_delete, Holds
  <2>2. CASE ~isactive[w]
    <3>1. /\ timer' = timer /\ pc' = pc /\ free' = Append(free, w) /\ w \notin ToSet(free)
          /\ isactive' = [isactive EXCEPT ![w] = FALSE] /\ isactive' = isactive
      BY <1>0, <1>5, <2>2 DEF wd_delete, Holds
    <3>2. free' \in Seq(Wdog) /\ Inj(free') /\ ToSet(free') = ToSet(free) \cup {w}
      BY <1>0, <3>1, FreeLists
    <3>3. w \notin ToSet(timer.q)
      BY <1>0, <2>2
    <3>4. ToSet(timer'.q) \cap ToSet(free') = {}
      BY <1>0, <3>1, <3>2, <3>3
    <3> QED BY <1>0, <3>1, <3>2, <3>4
  <2> QED BY <2>1, <2>2
<1>6. CASE wd_timer
  <2>1. /\ timer' \in Timer /\ timer'.q = timer.q
        /\ \A x \in ToSet(timer.q) : DueIn(timer, x) \in Nat
        /\ \A x : DueIn(timer', x) = IF x \in ToSet(timer.q) THEN DueIn(timer, x) - 1 ELSE -1
        /\ pc' = "idle" => \A x \in ToSet(timer.q) : DueIn(timer, x) > 1
    BY <1>6, TickFacts
  <2>2. free' = free /\ isactive' = isactive /\ pc' \in {"idle", "loop"}
    BY <1>6 DEF wd_timer
  <2>3. pc' = "idle" => \A x \in ToSet(timer'.q) : DueIn(timer', x) > 0
    BY <2>1
  <2> QED BY <1>0, <2>1, <2>2, <2>3
<1>7. CASE Expire
  <2>1. /\ Head(timer.q) \in Wdog /\ isactive[Head(timer.q)] /\ timer' = Unlink(timer, Head(timer.q))
    BY <1>7, ExpireFacts, Zenon
  <2>2. /\ isactive' = [isactive EXCEPT ![Head(timer.q)] = FALSE] /\ free' = free /\ pc' = "handler"
    BY <1>7 DEF Expire
  <2> QED BY <1>3, <2>1, <2>2
<1>8. CASE HandlerReturns
  BY <1>0, <1>8 DEF HandlerReturns
<1>9. CASE TimerReturns
  <2>1. timer' = timer /\ isactive' = isactive /\ free' = free /\ pc' = "idle" /\ ~Expired
    BY <1>9 DEF TimerReturns
  <2>2. ASSUME NEW x \in ToSet(timer.q) PROVE DueIn(timer, x) > 0
    <3>1. timer.q # << >>
      BY EmptyToSet
    <3>2. timer.lag[Head(timer.q)] \in Nat /\ DueIn(timer, x) >= timer.lag[Head(timer.q)]
      BY <1>0, <3>1, HeadIsNext
    <3>3. DueIn(timer, x) \in Nat
      BY <1>0, Gettime
    <3> QED BY <2>1, <3>1, <3>2, <3>3 DEF Expired
  <2> QED BY <1>0, <2>1, <2>2
<1>10. CASE UNCHANGED vars
  BY <1>0, <1>10 DEF vars
<1> QED
  BY <1>1, <1>2, <1>4, <1>5, <1>6, <1>7, <1>8, <1>9, <1>10, Zenon DEF Next

\* wdog->active, g_wdactivelist and g_wdfreelist agree at all times, so that
\* wd_cancel() always finds the watchdog it looks for.
THEOREM ListsAgree == Spec => []ActiveIsListed
<1>1. Init => IInv
  BY InitInv
<1>2. IInv /\ [Next]_vars => IInv'
  BY NextInv
<1>3. IInv => ActiveIsListed
  BY InvListed
<1> QED
  BY <1>1, <1>2, <1>3, PTL DEF Spec

\* The invariant holds at all times.
LEMMA Invariance == Spec => []IInv
<1>1. Init => IInv
  BY InitInv
<1>2. IInv /\ [Next]_vars => IInv'
  BY NextInv
<1> QED
  BY <1>1, <1>2, PTL DEF Spec

-----------------------------------------------------------------------------
(* The theorems about steps.                                               *)

\* wd_start() gives the watchdog its delay plus one tick, moves no other
\* watchdog and goes behind those of the same tick, in whatever order
\* watchdogs were started, cancelled and deleted before.
THEOREM StartExact == Spec => StartIsExact
<1> DEFINE A == \A w \in Wdog, delay \in Delays :
                  wd_start(w, delay) =>
                    /\ DueIn(timer', w) = Ticks(delay)
                    /\ \A x \in Wdog \ {w} :
                         /\ DueIn(timer', x) = DueIn(timer, x)
                         /\ DueIn(timer, x) = Ticks(delay)
                              => Position(timer'.q, x) < Position(timer'.q, w)
<1>1. IInv /\ [Next]_vars => [A]_vars
  <2> SUFFICES ASSUME IInv, NEW w \in Wdog, NEW delay \in Delays, wd_start(w, delay)
               PROVE  /\ DueIn(timer', w) = Ticks(delay)
                      /\ \A x \in Wdog \ {w} :
                           /\ DueIn(timer', x) = DueIn(timer, x)
                           /\ DueIn(timer, x) = Ticks(delay)
                                => Position(timer'.q, x) < Position(timer'.q, w)
    OBVIOUS
  <2>1. /\ \A x : DueIn(timer', x) = IF x = w THEN Ticks(delay) ELSE DueIn(timer, x)
        /\ \A x \in Wdog \ {w} : DueIn(timer, x) = Ticks(delay)
                                   => Position(timer'.q, x) < Position(timer'.q, w)
    BY StartFacts
  <2> QED BY <2>1
<1> HIDE DEF A
<1>2. Spec => [][A]_vars
  BY <1>1, Invariance, PTL DEF Spec
<1> QED
  BY <1>2 DEF A, StartIsExact

\* The alarms that are set, and their ticks.
Armed == {w \in Wdog : isactive[w]}
Due == [w \in Wdog |-> DueIn(timer, w)]

\* No alarm is set at first.
LEMMA InitAlarms == Init => Clock!Init
<1> SUFFICES ASSUME Init PROVE Clock!Init
  OBVIOUS
<1>1. timer \in Timer /\ Inj(timer.q) /\ timer.q = << >> /\ \A w \in Wdog : ~isactive[w]
  BY InitInv DEF Init, IInv, TypeOK
<1>2. \A w : DueIn(timer, w) = -1
  BY <1>1, EmptyToSet, Gettime
<1> QED
  BY <1>1, <1>2 DEF Clock!Init, Clock!Off

\* Every step of the delta list is a step of the alarms, or none.
LEMMA StepAlarms == IInv /\ [Next]_vars => [Clock!Next]_<<Armed, Due>>
<1> SUFFICES ASSUME IInv, [Next]_vars PROVE [Clock!Next]_<<Armed, Due>>
  OBVIOUS
<1>0. /\ isactive \in [Wdog -> BOOLEAN]
      /\ \A w \in Wdog : isactive[w] <=> w \in ToSet(timer.q)
      /\ timer \in Timer /\ Inj(timer.q)
      /\ \A x : ~(x \in ToSet(timer.q) /\ x \in ToSet(free))
  BY DEF IInv, TypeOK
<1>1. ASSUME timer' = timer, isactive' = isactive
      PROVE  UNCHANGED <<Armed, Due>>
  BY <1>1 DEF Armed, Due
<1>2. ASSUME NEW w \in Wdog, NEW delay \in Delays, wd_start(w, delay)
      PROVE  Clock!Set(w)
  <2>1. \A x : DueIn(timer', x) = IF x = w THEN Ticks(delay) ELSE DueIn(timer, x)
    BY <1>2, StartFacts
  <2>2. Ticks(delay) > 0
    BY TicksPositive
  <2>3. isactive' = [isactive EXCEPT ![w] = TRUE]
    BY <1>2 DEF wd_start
  <2>4. Due'[w] > 0
    BY <2>1, <2>2 DEF Due
  <2>5. Due' = [Due EXCEPT ![w] = Due'[w]]
    BY <2>1, Zenon DEF Due
  <2>6. Armed' = Armed \cup {w}
    BY <1>0, <2>3 DEF Armed
  <2> QED
    BY <2>4, <2>5, <2>6 DEF Clock!Set, Armed, Due
<1>3. ASSUME NEW w \in Wdog, isactive[w], timer' = Unlink(timer, w),
             isactive' = [isactive EXCEPT ![w] = FALSE]
      PROVE  Due' = [Due EXCEPT ![w] = -1] /\ Armed' = Armed \ {w}
  <2>1. \A x : DueIn(timer', x) = IF x = w THEN -1 ELSE DueIn(timer, x)
    BY <1>3, StopAlarm
  <2>2. Due' = [Due EXCEPT ![w] = -1]
    BY <2>1, Zenon DEF Due
  <2>3. Armed' = Armed \ {w}
    BY <1>0, <1>3 DEF Armed
  <2> QED BY <2>2, <2>3
<1>4. ASSUME NEW w \in Wdog, wd_cancel(w)
      PROVE  Clock!Clear(w)
  BY <1>3, <1>4, Zenon DEF wd_cancel, Clock!Clear, Clock!Off, Armed, Due
<1>5. ASSUME NEW w \in Wdog, wd_delete(w)
      PROVE  Clock!Clear(w) \/ UNCHANGED <<Armed, Due>>
  <2>1. CASE isactive[w]
    BY <1>3, <1>5, <2>1, Zenon DEF wd_delete, Clock!Clear, Clock!Off, Armed, Due
  <2>2. CASE ~isactive[w]
    <3>1. timer' = timer /\ isactive' = isactive
      BY <1>0, <1>5, <2>2 DEF wd_delete
    <3> QED BY <1>1, <3>1
  <2> QED BY <2>1, <2>2
<1>6. CASE wd_timer
  <2>1. /\ \A x \in ToSet(timer.q) : DueIn(timer, x) > 0
        /\ \A x : DueIn(timer', x) = IF x \in ToSet(timer.q) THEN DueIn(timer, x) - 1 ELSE -1
    BY <1>6, TickFacts
  <2>2. isactive' = isactive
    BY <1>6 DEF wd_timer
  <2>3. Armed' = Armed /\ \A x \in Armed : x \in ToSet(timer.q) /\ x \in Wdog
    BY <1>0, <2>2 DEF Armed
  <2>4. \A x \in Armed : Due[x] > 0
    BY <2>1, <2>3 DEF Due
  <2>5. Due' = [x \in Wdog |-> IF x \in Armed THEN Due[x] - 1 ELSE -1]
    BY <1>0, <2>1 DEF Due, Armed
  <2>6. Clock!Tick
    BY <2>3, <2>4, <2>5 DEF Clock!Tick, Clock!Off, Armed, Due
  <2> QED BY <2>6 DEF Clock!Next
<1>7. CASE Expire
  <2>1. PICK h \in Wdog : /\ h = Head(timer.q) /\ isactive[h] /\ DueIn(timer, h) = 0
                          /\ timer' = Unlink(timer, h)
    BY <1>7, ExpireFacts
  <2>2. isactive' = [isactive EXCEPT ![h] = FALSE]
    BY <1>7, <2>1 DEF Expire
  <2>3. h \in Armed /\ Due[h] = 0
    BY <2>1 DEF Armed, Due
  <2>4. Clock!Ring(h)
    BY <1>3, <2>1, <2>2, <2>3, Zenon DEF Clock!Ring, Clock!Off, Armed, Due
  <2> QED BY <2>1, <2>4 DEF Clock!Next
<1>8. CASE HandlerReturns \/ TimerReturns \/ UNCHANGED vars
  BY <1>1, <1>8 DEF HandlerReturns, TimerReturns, vars
<1>9. CASE wd_create
  <2>1. Head(free) \in ToSet(free) /\ Head(free) \in Wdog
    BY <1>9, FreeLists, Zenon DEF wd_create, IInv, TypeOK
  <2>2. isactive' = [isactive EXCEPT ![Head(free)] = FALSE] /\ timer' = timer
    BY <1>9 DEF wd_create
  <2>3. ~isactive[Head(free)]
    BY <1>0, <2>1
  <2>4. isactive' = isactive
    BY <1>0, <2>1, <2>2, <2>3
  <2> QED BY <1>1, <2>2, <2>4
<1> QED
  BY <1>2, <1>4, <1>5, <1>6, <1>7, <1>8, <1>9 DEF Next, Clock!Next

\* The delta list implements independent alarms: every watchdog expires at
\* its own tick, for any pool of watchdogs and any delays, whatever tasks and
\* handlers start, cancel and delete in between.
THEOREM DeltaListImplementsAlarms == Spec => ImplementsAlarmClock
<1>1. Init => Clock!Init
  BY InitAlarms
<1>2. IInv /\ [Next]_vars => [Clock!Next]_<<Armed, Due>>
  BY StepAlarms
<1>3. Spec => Clock!Spec
  BY <1>1, <1>2, Invariance, PTL DEF Spec, Clock!Spec, Armed, Due
<1> QED
  BY <1>3 DEF ImplementsAlarmClock

=============================================================================
