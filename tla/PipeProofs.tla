----------------------------- MODULE PipeProofs -----------------------------
(***************************************************************************)
(* The ring of Pipe implements the FIFO of ByteFifo, d_refs counts the     *)
(* open files, and no sleeper is forgotten, for any number of threads and  *)
(* any size of the ring.                                                   *)
(***************************************************************************)
EXTENDS Pipe, TLAPS

-----------------------------------------------------------------------------
(* The ring.                                                               *)

Wrap(x) == x % Size
UsedOf(w, r) == Wrap(w + Size - r)
Place(r, i) == Wrap(r + i - 1)
ContentOf(b, w, r) == [i \in 1..UsedOf(w, r) |-> b[Place(r, i)]]
Rest(b, r, n) == [i \in Ring |-> IF UsedOf(i, r) < n THEN 0 ELSE b[i]]

\* Sequences of the same bytes are equal.
LEMMA SameSeq ==
  ASSUME NEW S, NEW s \in Seq(S), NEW u \in Seq(S),
         Len(s) = Len(u), \A i \in 1..Len(s) : s[i] = u[i]
  PROVE  s = u
  OBVIOUS

\* The bytes of a sequence after one is appended to it.
LEMMA Appended ==
  ASSUME NEW S, NEW s \in Seq(S), NEW x \in S
  PROVE  /\ s \o <<x>> \in Seq(S) /\ Len(s \o <<x>>) = Len(s) + 1
         /\ \A i \in 1..(Len(s) + 1) : (s \o <<x>>)[i] = IF i <= Len(s) THEN s[i] ELSE x
  OBVIOUS

\* The bytes of a part of a sequence.
LEMMA PartOfSeq ==
  ASSUME NEW S, NEW s, NEW m \in Int, NEW n \in Int, \A i \in m..n : s[i] \in S
  PROVE  /\ SubSeq(s, m, n) \in Seq(S)
         /\ Len(SubSeq(s, m, n)) = IF m <= n THEN n - m + 1 ELSE 0
         /\ \A i \in 1..(n - m + 1) : SubSeq(s, m, n)[i] = s[m + i - 1]
  OBVIOUS

\* The first component of a pair.
LEMMA PairFirst ==
  ASSUME NEW A, NEW B, NEW a, NEW b, <<a, b>> \in A \X B
  PROVE  a \in A
  OBVIOUS

\* The definitions of the module FiniteSets.  The library that proves what the
\* counters need to know about finite sets is instantiated only below, before
\* the theorems, so that the lemmas do without it; these definitions are what
\* the finite sets of the lemmas and of the library have in common.
Listed(S) == \E q \in Seq(S) : \A x \in S : \E n \in 1..Len(q) : q[n] = x
SizeOf(S) ==
  LET CS[T \in SUBSET S] == IF T = {} THEN 0 ELSE 1 + CS[T \ {CHOOSE x : x \in T}]
  IN  CS[S]

\* The size of the finite set S, and of S with a member more or less.
Counted(S) ==
  /\ SizeOf(S) \in Nat
  /\ SizeOf(S) = 0 <=> S = {}
  /\ \A T \in SUBSET S : Listed(T)
  /\ \A x : /\ Listed(S \cup {x}) /\ Listed(S \ {x})
            /\ SizeOf(S \cup {x}) = IF x \in S THEN SizeOf(S) ELSE SizeOf(S) + 1
            /\ SizeOf(S \ {x}) = IF x \in S THEN SizeOf(S) - 1 ELSE SizeOf(S)

\* What the lemmas assume about finite sets; Counting below proves it.
Cardinals ==
  /\ Listed({}) /\ SizeOf({}) = 0
  /\ \A S : Listed(S) => Counted(S)

\* The finite sets of the model.
LEMMA Finite == \A S : (IsFiniteSet(S) <=> Listed(S)) /\ Cardinality(S) = SizeOf(S)
<1> TAKE S
<1>1. IsFiniteSet(S) <=> Listed(S)
  BY Zenon DEF Listed, IsFiniteSet
<1>2. Cardinality(S) = SizeOf(S)
  BY Zenon DEF SizeOf, Cardinality
<1> QED
  BY <1>1, <1>2

\* The empty set is the set of no members.
LEMMA NoMembers ==
  ASSUME Cardinals
  PROVE  /\ IsFiniteSet({}) /\ Cardinality({}) = 0
         /\ \A S : IsFiniteSet(S) => (Cardinality(S) = 0 <=> S = {})
  BY Finite, Zenon DEF Cardinals, Counted

\* A cardinality is a number.
LEMMA CardinalNat ==
  ASSUME Cardinals, NEW S, IsFiniteSet(S)
  PROVE  Cardinality(S) \in Nat
  BY Finite, Zenon DEF Cardinals, Counted

\* A part of a finite set is finite.
LEMMA PartFinite ==
  ASSUME Cardinals, NEW S, IsFiniteSet(S), NEW T \in SUBSET S
  PROVE  IsFiniteSet(T)
  BY Finite, Zenon DEF Cardinals, Counted

\* A member more.
LEMMA OneMore ==
  ASSUME Cardinals, NEW S, NEW x, IsFiniteSet(S)
  PROVE  /\ IsFiniteSet(S \cup {x})
         /\ Cardinality(S \cup {x}) = IF x \in S THEN Cardinality(S) ELSE Cardinality(S) + 1
<1>1. /\ Listed(S \cup {x})
      /\ SizeOf(S \cup {x}) = IF x \in S THEN SizeOf(S) ELSE SizeOf(S) + 1
  BY Finite, Zenon DEF Cardinals, Counted
<1>2. /\ IsFiniteSet(S \cup {x}) <=> Listed(S \cup {x})
      /\ Cardinality(S \cup {x}) = SizeOf(S \cup {x})
      /\ Cardinality(S) = SizeOf(S)
  BY Finite
<1> QED
  BY <1>1, <1>2

\* A member less.
LEMMA OneLess ==
  ASSUME Cardinals, NEW S, NEW x, IsFiniteSet(S)
  PROVE  /\ IsFiniteSet(S \ {x})
         /\ Cardinality(S \ {x}) = IF x \in S THEN Cardinality(S) - 1 ELSE Cardinality(S)
<1>1. /\ Listed(S \ {x})
      /\ SizeOf(S \ {x}) = IF x \in S THEN SizeOf(S) - 1 ELSE SizeOf(S)
  BY Finite, Zenon DEF Cardinals, Counted
<1>2. /\ IsFiniteSet(S \ {x}) <=> Listed(S \ {x})
      /\ Cardinality(S \ {x}) = SizeOf(S \ {x})
      /\ Cardinality(S) = SizeOf(S)
  BY Finite
<1> QED
  BY <1>1, <1>2

\* An index that runs over the end of the ring at most once.
LEMMA Wraps ==
  ASSUME NEW x \in Int, 0 <= x, x < Size + Size
  PROVE  Wrap(x) = IF x < Size THEN x ELSE x - Size
<1>1. Size \in Nat \ {0}
  BY PipeAssumption
<1>2. CASE x < Size
  BY <1>1, <1>2 DEF Wrap
<1>3. CASE ~(x < Size)
  BY <1>1, <1>3 DEF Wrap
<1> QED
  BY <1>2, <1>3

\* The number of bytes between the indices.
LEMMA UsedValue ==
  ASSUME NEW w \in Ring, NEW r \in Ring
  PROVE  /\ UsedOf(w, r) = IF w >= r THEN w - r ELSE w + Size - r
         /\ UsedOf(w, r) \in 0..(Size - 1)
<1> DEFINE x == w + Size - r
<1>1. x \in Int /\ 0 <= x /\ x < Size + Size
  BY PipeAssumption DEF Ring
<1> HIDE DEF x
<1>2. Wrap(x) = IF x < Size THEN x ELSE x - Size
  BY <1>1, Wraps
<1>3. UsedOf(w, r) = Wrap(x)
  BY DEF UsedOf, x
<1> QED
  BY <1>2, <1>3, PipeAssumption DEF Ring, x

\* The place of the i-th byte.
LEMMA PlaceValue ==
  ASSUME NEW r \in Ring, NEW i \in 1..Size
  PROVE  /\ Place(r, i) = IF r + i - 1 < Size THEN r + i - 1 ELSE r + i - 1 - Size
         /\ Place(r, i) \in Ring
<1> DEFINE x == r + i - 1
<1>1. x \in Int /\ 0 <= x /\ x < Size + Size
  BY PipeAssumption DEF Ring
<1> HIDE DEF x
<1>2. Wrap(x) = IF x < Size THEN x ELSE x - Size
  BY <1>1, Wraps
<1>3. Place(r, i) = Wrap(x)
  BY DEF Place, x
<1> QED
  BY <1>1, <1>2, <1>3, PipeAssumption DEF Ring, x

\* The bytes in the ring are a sequence.
LEMMA ContentSeq ==
  ASSUME NEW b \in [Ring -> Byte], NEW w \in Ring, NEW r \in Ring
  PROVE  /\ ContentOf(b, w, r) \in Seq(Byte)
         /\ Len(ContentOf(b, w, r)) = UsedOf(w, r)
         /\ \A i \in 1..UsedOf(w, r) : ContentOf(b, w, r)[i] = b[Place(r, i)]
<1>1. UsedOf(w, r) \in 0..(Size - 1)
  BY UsedValue
<1>2. \A i \in 1..UsedOf(w, r) : b[Place(r, i)] \in Byte
  BY <1>1, PlaceValue, PipeAssumption
<1> DEFINE m == UsedOf(w, r)
<1>3. m \in Nat
  BY <1>1, PipeAssumption
<1> HIDE DEF m
<1>4. [i \in 1..m |-> b[Place(r, i)]] \in [1..m -> Byte]
  BY <1>2 DEF m
<1>5. [i \in 1..m |-> b[Place(r, i)]] \in Seq(Byte)
  BY <1>3, <1>4
<1> QED
  BY <1>3, <1>4, <1>5 DEF ContentOf, m

\* A byte behind the last one.
LEMMA RingPut ==
  ASSUME NEW b \in [Ring -> Byte], NEW w \in Ring, NEW r \in Ring, NEW x \in Byte,
         Wrap(w + 1) # r
  PROVE  /\ Wrap(w + 1) \in Ring
         /\ UsedOf(w, r) < Size - 1
         /\ ContentOf([b EXCEPT ![w] = x], Wrap(w + 1), r) = ContentOf(b, w, r) \o <<x>>
<1> DEFINE v == Wrap(w + 1)
           d == [b EXCEPT ![w] = x]
           m == UsedOf(w, r)
<1>1. v = (IF w + 1 < Size THEN w + 1 ELSE 0) /\ v \in Ring
  <2> DEFINE y == w + 1
  <2>1. y \in Int /\ 0 <= y /\ y < Size + Size
    BY PipeAssumption DEF Ring
  <2> HIDE DEF y
  <2>2. Wrap(y) = IF y < Size THEN y ELSE y - Size
    BY <2>1, Wraps
  <2> QED
    BY <2>2, PipeAssumption DEF y, Ring
<1> m = (IF w >= r THEN w - r ELSE w + Size - r) /\ m \in 0..(Size - 1)
  BY UsedValue
<1>3. v # r /\ d \in [Ring -> Byte] /\ d[w] = x /\ \A i \in Ring : i # w => d[i] = b[i]
  OBVIOUS
<1> HIDE DEF m, v, d
<1>4. UsedOf(v, r) = IF v >= r THEN v - r ELSE v + Size - r
  BY <1>1, UsedValue
<1>5. UsedOf(v, r) = m + 1 /\ m < Size - 1 /\ m \in Nat
  BY <1>1, <1>3, <1>4, PipeAssumption DEF Ring
<1>6. \A i \in 1..m : d[Place(r, i)] = b[Place(r, i)]
  <2> TAKE i \in 1..m
  <2>1. i \in 1..Size
    BY <1>5, PipeAssumption
  <2>2. /\ Place(r, i) = IF r + i - 1 < Size THEN r + i - 1 ELSE r + i - 1 - Size
        /\ Place(r, i) \in Ring
    BY <2>1, PlaceValue
  <2>3. Place(r, i) # w
    BY <2>2, PipeAssumption DEF Ring
  <2> QED
    BY <1>3, <2>2, <2>3
<1>7. Place(r, m + 1) = w
  <2> DEFINE i == m + 1
  <2>1. i \in 1..Size
    BY <1>5, PipeAssumption
  <2> HIDE DEF i
  <2>2. Place(r, i) = IF r + i - 1 < Size THEN r + i - 1 ELSE r + i - 1 - Size
    BY <2>1, PlaceValue
  <2>3. Place(r, i) = w
    BY <2>2, PipeAssumption DEF Ring, i
  <2> QED
    BY <2>3 DEF i
<1> DEFINE c == ContentOf(b, w, r)
           e == ContentOf(d, v, r)
<1>8. /\ c \in Seq(Byte) /\ Len(c) = m
      /\ \A i \in 1..m : c[i] = b[Place(r, i)]
  BY ContentSeq DEF m
<1>9. /\ e \in Seq(Byte) /\ Len(e) = m + 1
      /\ \A i \in 1..UsedOf(v, r) : e[i] = d[Place(r, i)]
  BY <1>1, <1>3, <1>5, ContentSeq, Zenon
<1> HIDE DEF c, e
<1>11. /\ c \o <<x>> \in Seq(Byte) /\ Len(c \o <<x>>) = m + 1
       /\ \A i \in 1..(m + 1) : (c \o <<x>>)[i] = IF i <= m THEN c[i] ELSE x
  BY <1>8, Appended
<1>12. \A i \in 1..(m + 1) : e[i] = (c \o <<x>>)[i]
  <2> SUFFICES ASSUME NEW i \in 1..(m + 1) PROVE e[i] = (c \o <<x>>)[i]
    BY Zenon
  <2>1. i \in 1..UsedOf(v, r)
    BY <1>5
  <2>2. e[i] = d[Place(r, i)]
    BY <1>9, <2>1
  <2>3. CASE i <= m
    <3>1. i \in 1..m
      BY <1>5, <2>3
    <3> QED
      BY <1>6, <1>8, <1>11, <2>2, <2>3, <3>1
  <2>4. CASE ~(i <= m)
    <3>1. i = m + 1
      BY <1>5, <2>4
    <3>2. (c \o <<x>>)[i] = x
      BY <1>5, <1>11, <2>4, <3>1
    <3> QED
      BY <1>3, <1>7, <2>2, <3>1, <3>2, Zenon
  <2> QED
    BY <2>3, <2>4, Zenon
<1>13. e = c \o <<x>>
  BY <1>9, <1>11, <1>12, SameSeq, Zenon
<1> QED
  BY <1>1, <1>5, <1>13, Zenon DEF v, d, m, c, e

\* The first n bytes are taken out.
LEMMA RingGet ==
  ASSUME NEW b \in [Ring -> Byte], NEW w \in Ring, NEW r \in Ring,
         NEW n \in 1..UsedOf(w, r)
  PROVE  /\ Wrap(r + n) \in Ring /\ Rest(b, r, n) \in [Ring -> Byte]
         /\ ContentOf(Rest(b, r, n), w, Wrap(r + n)) = SubSeq(ContentOf(b, w, r), n + 1, UsedOf(w, r))
<1> DEFINE v == Wrap(r + n)
           m == UsedOf(w, r)
           d == Rest(b, r, n)
<1> m = (IF w >= r THEN w - r ELSE w + Size - r) /\ m \in 0..(Size - 1)
  BY UsedValue
<1> HIDE DEF m
<1> n \in 1..m
  BY DEF m
<1> v = (IF r + n < Size THEN r + n ELSE r + n - Size) /\ v \in Ring
  <2> DEFINE y == r + n
  <2>1. y \in Int /\ 0 <= y /\ y < Size + Size
    BY PipeAssumption DEF Ring
  <2> HIDE DEF y
  <2>2. Wrap(y) = IF y < Size THEN y ELSE y - Size
    BY <2>1, Wraps
  <2> QED
    BY <2>2, PipeAssumption DEF y, Ring
<1> HIDE DEF v
<1> d \in [Ring -> Byte] /\ \A i \in Ring : ~(UsedOf(i, r) < n) => d[i] = b[i]
  BY DEF Byte, Rest
<1> HIDE DEF d
<1>5. UsedOf(w, v) = IF w >= v THEN w - v ELSE w + Size - v
  BY UsedValue
<1> UsedOf(w, v) = m - n /\ m - n \in Nat /\ m \in Nat /\ n \in Nat
  BY <1>5, PipeAssumption DEF Ring
<1>7. ASSUME NEW i \in 1..(m - n)
      PROVE  d[Place(v, i)] = b[Place(r, n + i)]
  <2> DEFINE j == n + i
  <2>1. i \in 1..Size /\ j \in 1..Size
    BY PipeAssumption
  <2> HIDE DEF j
  <2> /\ Place(v, i) = IF v + i - 1 < Size THEN v + i - 1 ELSE v + i - 1 - Size
      /\ Place(v, i) \in Ring
    BY <2>1, PlaceValue
  <2>3. Place(r, j) = IF r + j - 1 < Size THEN r + j - 1 ELSE r + j - 1 - Size
    BY <2>1, PlaceValue
  <2>4. Place(r, j) = Place(v, i)
    BY <2>3, PipeAssumption DEF Ring, j
  <2>5. UsedOf(Place(v, i), r) = IF Place(v, i) >= r THEN Place(v, i) - r ELSE Place(v, i) + Size - r
    BY UsedValue, Zenon
  <2>6. ~(UsedOf(Place(v, i), r) < n)
    BY <2>5, PipeAssumption DEF Ring
  <2> QED
    BY <2>4, <2>6, Zenon DEF j
<1> DEFINE c == ContentOf(b, w, r)
           e == ContentOf(d, w, v)
<1>8. c \in Seq(Byte) /\ Len(c) = m /\ \A i \in 1..m : c[i] = b[Place(r, i)]
  BY ContentSeq, Zenon DEF m
<1>9. e \in Seq(Byte) /\ Len(e) = m - n /\ \A i \in 1..UsedOf(w, v) : e[i] = d[Place(v, i)]
  BY ContentSeq, Zenon
<1> HIDE DEF c, e
<1> DEFINE f == SubSeq(c, n + 1, m)
<1>10. /\ f \in Seq(Byte) /\ Len(f) = m - n
       /\ \A i \in 1..(m - n) : f[i] = c[n + i]
  <2>1. \A i \in (n + 1)..m : c[i] \in Byte
    BY <1>8
  <2>2. n + 1 \in Int /\ m \in Int
    OBVIOUS
  <2> /\ f \in Seq(Byte) /\ Len(f) = IF n + 1 <= m THEN m - (n + 1) + 1 ELSE 0
      /\ \A i \in 1..(m - (n + 1) + 1) : f[i] = c[(n + 1) + i - 1]
    BY <2>1, <2>2, PartOfSeq
  <2>4. Len(f) = m - n
    OBVIOUS
  <2>5. ASSUME NEW i \in 1..(m - n) PROVE f[i] = c[n + i]
    <3>1. i \in 1..(m - (n + 1) + 1) /\ (n + 1) + i - 1 = n + i
      OBVIOUS
    <3> QED
      BY <3>1
  <2> QED
    BY <2>4, <2>5
<1> HIDE DEF f
<1>11. \A i \in 1..(m - n) : e[i] = f[i]
  <2> SUFFICES ASSUME NEW i \in 1..(m - n) PROVE e[i] = f[i]
    OBVIOUS
  <2>1. i \in 1..UsedOf(w, v) /\ n + i \in 1..m
    OBVIOUS
  <2>2. c[n + i] = b[Place(r, n + i)]
    BY <1>8, <2>1
  <2> QED
    BY <1>7, <1>9, <1>10, <2>1, <2>2
<1>12. e = f
  BY <1>9, <1>10, <1>11, SameSeq
<1> QED
  BY <1>12 DEF v, m, c, d, e, f

-----------------------------------------------------------------------------
(* The inductive invariant.                                                *)

AnyMode == {"O_RDONLY", "O_WRONLY", "O_RDWR"}
AnyLength == Nat \ {0}

\* The places of a thread that opens or closes its file, and of one that uses
\* it.
OpenStage == [at : {"open", "opened", "close"}, mode : AnyMode]
             \cup [at : {"first", "found", "fail", "closed"}]
ReadStage == [at : {"read", "empty", "bytes"}, n : AnyLength]
WriteStage == [at : {"write", "full", "room", "again"}, n : AnyLength, put : BOOLEAN]
OtherStage == [at : {"error", "readend", "writeend", "polling", "polled", "teardown"}]
PollStage == [at : {"poll"}, events : SUBSET {"POLLIN", "POLLOUT"}]
UseStage == ReadStage \cup WriteStage \cup OtherStage \cup PollStage

\* A thread whose file has the mode m may be at the place k outside of waits.
Simple(k, m) ==
  \/ k \in OpenStage /\ m = "none"
  \/ k \in UseStage /\ m \in AnyMode
  \/ k = At("user")

\* It may be there also in waits, after which it goes on at k.then.
Then(k) == k.at \notin {"first", "fail", "user"}
Else(k, e) == IF k.at = "found" THEN e = At("fail")
              ELSE k.at \in {"open", "read", "bytes", "write"} /\ e \in {At("user"), At("error")}
Stage(k, m) ==
  \/ Simple(k, m)
  \/ /\ k.at \in {"take", "test", "post"} /\ DOMAIN k = {"at", "sem", "then"}
     /\ Simple(k.then, m) /\ Then(k.then)
  \/ /\ k.at = "wait" /\ Simple(k.then, m) /\ Simple(k.else, m)
     /\ Then(k.then) /\ Else(k.then, k.else)

RingInv == buf \in [Ring -> Byte] /\ wrndx \in Ring /\ rdndx \in Ring

StageInv ==
  /\ pc = [t \in Thread |-> pc[t]]
  /\ mode \in [Thread -> AnyMode \cup {"none"}]
  /\ \A t \in Thread : Stage(pc[t], mode[t])

RefInv == refs = Cardinality({t \in Thread : HasFile(t)})

IInv == RingInv /\ StageInv /\ RefInv

\* HasFile for a thread at k with the mode m.
FileAt(k, m) ==
  \/ m # "none"
  \/ k.at \in {"opened", "first", "found", "fail", "close"}
  \/ k.at \in {"wait", "take", "test", "post"} /\ k.then.at \in {"opened", "found", "close"}

\* The initial states satisfy the invariant.
LEMMA InitInv ==
  ASSUME Cardinals
  PROVE  Init => IInv
<1> SUFFICES ASSUME Init PROVE IInv
  OBVIOUS
<1> USE DEF Init, ThreadsInit
<1>1. RingInv
  BY PipeAssumption DEF RingInv, Ring, Byte
<1>2. StageInv
  BY DEF StageInv, Stage, Simple
<1>3. {t \in Thread : HasFile(t)} = {}
  BY DEF HasFile, At
<1>4. RefInv
  BY <1>3, NoMembers, Zenon DEF RefInv
<1> QED
  BY <1>1, <1>2, <1>4 DEF IInv

\* A step of t to the place k and the mode m that counts its file.
LEMMA Counts ==
  ASSUME Cardinals, IInv, RingInv', NEW t \in Thread, NEW k, NEW m \in AnyMode \cup {"none"},
         Stage(k, m), pc' = [pc EXCEPT ![t] = k], mode' = [mode EXCEPT ![t] = m],
         \/ (FileAt(k, m) <=> HasFile(t)) /\ refs' = refs
         \/ FileAt(k, m) /\ ~HasFile(t) /\ refs' = refs + 1
         \/ ~FileAt(k, m) /\ HasFile(t) /\ refs' = refs - 1
  PROVE  IInv'
<1> USE DEF IInv
<1> /\ pc'[t] = k /\ mode'[t] = m
    /\ \A u \in Thread : u # t => pc'[u] = pc[u] /\ mode'[u] = mode[u]
  BY DEF StageInv
<1>2. StageInv'
  BY DEF StageInv
<1> DEFINE F == {u \in Thread : HasFile(u)}
           G == {u \in Thread : HasFile(u)'}
<1> \A u \in Thread : u # t => (u \in G <=> u \in F)
  BY DEF HasFile
<1> t \in G <=> FileAt(k, m)
  BY DEF HasFile, FileAt
<1> IsFiniteSet(F) /\ refs = Cardinality(F) /\ F \subseteq Thread /\ G \subseteq Thread
  BY PipeAssumption, PartFinite DEF RefInv
<1> t \in F <=> HasFile(t)
  OBVIOUS
<1> HIDE DEF F, G
<1>7. refs' = Cardinality(G)
  <2>1. CASE (FileAt(k, m) <=> HasFile(t)) /\ refs' = refs
    <3>1. G = F
      BY <2>1
    <3> QED
      BY <2>1, <3>1
  <2>2. CASE FileAt(k, m) /\ ~HasFile(t) /\ refs' = refs + 1
    <3>1. G = F \cup {t} /\ t \notin F
      BY <2>2
    <3> QED
      BY <2>2, <3>1, OneMore, Zenon
  <2>3. CASE ~FileAt(k, m) /\ HasFile(t) /\ refs' = refs - 1
    <3>1. G = F \ {t} /\ t \in F
      BY <2>3
    <3> QED
      BY <2>3, <3>1, OneLess, Zenon
  <2> QED
    BY <2>1, <2>2, <2>3
<1>8. RefInv'
  BY <1>7 DEF RefInv, G
<1> QED
  BY <1>2, <1>8

-----------------------------------------------------------------------------
(* Steps that leave the ring and the counts alone.                         *)

\* A step of t to the place k that keeps its file, or stays without one.
LEMMA Quiet ==
  ASSUME Cardinals, IInv, NEW t \in Thread, NEW k, Stage(k, mode[t]),
         FileAt(k, mode[t]) <=> FileAt(pc[t], mode[t]),
         pc' = [pc EXCEPT ![t] = k], UNCHANGED <<ringvars, refs, mode>>
  PROVE  IInv'
<1>1. RingInv'
  BY DEF IInv, RingInv, ringvars
<1>2. mode[t] \in AnyMode \cup {"none"} /\ mode' = [mode EXCEPT ![t] = mode[t]]
  BY DEF IInv, StageInv
<1>3. FileAt(pc[t], mode[t]) <=> HasFile(t)
  BY DEF FileAt, HasFile
<1> QED
  BY <1>1, <1>2, <1>3, Counts, Zenon

\* A place outside of waits has none of the labels of waits.
LEMMA SimpleLabel ==
  ASSUME NEW k, NEW m, Simple(k, m)
  PROVE  k.at \notin {"wait", "take", "test", "post"}
BY DEF Simple, OpenStage, UseStage, ReadStage, WriteStage, OtherStage, PollStage, At

\* What waits and loops make of a place.
LEMMA Composite ==
  ASSUME NEW k, NEW m, Simple(k, m), Then(k), NEW x,
         \/ x = k
         \/ \E l \in {"take", "test", "post"} : \E s : x = [at |-> l, sem |-> s, then |-> k]
         \/ \E s, e : /\ x = [at |-> "wait", sem |-> s, then |-> k, else |-> e]
                      /\ Simple(e, m) /\ Else(k, e)
  PROVE  Stage(x, m) /\ (FileAt(x, m) <=> FileAt(k, m))
<1>1. k.at \notin {"wait", "take", "test", "post"}
  BY SimpleLabel
<1>2. CASE x = k
  BY <1>2 DEF Stage
<1>3. ASSUME NEW l \in {"take", "test", "post"}, NEW s, x = [at |-> l, sem |-> s, then |-> k]
      PROVE  Stage(x, m) /\ (FileAt(x, m) <=> FileAt(k, m))
  <2>1. x.at = l /\ x.then = k /\ DOMAIN x = {"at", "sem", "then"}
    BY <1>3
  <2>2. Stage(x, m)
    BY <2>1 DEF Stage
  <2>3. FileAt(x, m) <=> FileAt(k, m)
    BY <1>1, <2>1 DEF FileAt, Then
  <2> QED
    BY <2>2, <2>3
<1>4. ASSUME NEW s, NEW e, x = [at |-> "wait", sem |-> s, then |-> k, else |-> e],
             Simple(e, m), Else(k, e)
      PROVE  Stage(x, m) /\ (FileAt(x, m) <=> FileAt(k, m))
  <2>1. x.at = "wait" /\ x.then = k /\ x.else = e
    BY <1>4
  <2>2. Stage(x, m)
    BY <1>4, <2>1 DEF Stage
  <2>3. FileAt(x, m) <=> FileAt(k, m)
    BY <1>1, <2>1 DEF FileAt, Then
  <2> QED
    BY <2>2, <2>3
<1> QED
  BY <1>2, <1>3, <1>4

\* A step of t that takes a count of s, or waits for it, and goes on at k.
LEMMA QuietTake ==
  ASSUME Cardinals, IInv, NEW t \in Thread, NEW s, NEW k, Simple(k, mode[t]), Then(k), Take(t, s, k),
         FileAt(k, mode[t]) <=> FileAt(pc[t], mode[t]), UNCHANGED <<ringvars, refs, mode>>
  PROVE  IInv'
<1> DEFINE x == IF sem[s].cnt > 0 THEN k ELSE [at |-> "take", sem |-> s, then |-> k]
<1>1. Stage(x, mode[t]) /\ (FileAt(x, mode[t]) <=> FileAt(k, mode[t]))
  BY Composite
<1>2. pc' = [pc EXCEPT ![t] = x]
  BY DEF Take
<1> HIDE DEF x
<1> QED
  BY <1>1, <1>2, Quiet, Zenon

\* The same for a wait that a signal can end.
LEMMA QuietWait ==
  ASSUME Cardinals, IInv, NEW t \in Thread, NEW s, NEW k, NEW e, Simple(k, mode[t]), Then(k),
         Simple(e, mode[t]), Else(k, e), Wait(t, s, k, e),
         FileAt(k, mode[t]) <=> FileAt(pc[t], mode[t]), UNCHANGED <<ringvars, refs, mode>>
  PROVE  IInv'
<1> DEFINE x == IF sem[s].cnt > 0 THEN k ELSE [at |-> "wait", sem |-> s, then |-> k, else |-> e]
<1>1. Stage(x, mode[t]) /\ (FileAt(x, mode[t]) <=> FileAt(k, mode[t]))
  BY Composite
<1>2. pc' = [pc EXCEPT ![t] = x]
  BY DEF Wait, Move
<1> HIDE DEF x
<1> QED
  BY <1>1, <1>2, Quiet, Zenon

\* A step of t to a place outside of waits.
LEMMA QuietMove ==
  ASSUME Cardinals, IInv, NEW t \in Thread, NEW k, Simple(k, mode[t]), Move(t, k),
         FileAt(k, mode[t]) <=> FileAt(pc[t], mode[t]), UNCHANGED <<ringvars, refs, mode>>
  PROVE  IInv'
<1>1. Stage(k, mode[t])
  BY DEF Stage
<1> QED
  BY <1>1, Quiet, Zenon DEF Move

\* A step of t to a loop of posts before such a place.
LEMMA QuietWake ==
  ASSUME Cardinals, IInv, NEW t \in Thread, NEW k, Simple(k, mode[t]), Then(k), NEW s,
         Move(t, Waking(s, k)),
         FileAt(k, mode[t]) <=> FileAt(pc[t], mode[t]), UNCHANGED <<ringvars, refs, mode>>
  PROVE  IInv'
<1> DEFINE x == Waking(s, k)
<1>1. Stage(x, mode[t]) /\ (FileAt(x, mode[t]) <=> FileAt(k, mode[t]))
  BY Composite DEF Waking
<1>2. pc' = [pc EXCEPT ![t] = x]
  BY DEF Move
<1> HIDE DEF x
<1> QED
  BY <1>1, <1>2, Quiet, Zenon

\* What the place of a thread says of it.
LEMMA Places ==
  ASSUME IInv, NEW t \in Thread
  PROVE  /\ pc[t].at \in {"open", "opened", "close"} =>
              pc[t] \in [at : {"open", "opened", "close"}, mode : AnyMode] /\ mode[t] = "none"
         /\ pc[t].at \in {"first", "found", "fail", "closed"} =>
              pc[t] = At(pc[t].at) /\ mode[t] = "none"
         /\ pc[t].at \in {"read", "empty", "bytes"} => pc[t] \in ReadStage /\ mode[t] \in AnyMode
         /\ pc[t].at \in {"write", "full", "room", "again"} =>
              pc[t] \in WriteStage /\ mode[t] \in AnyMode
         /\ pc[t].at \in {"error", "readend", "writeend", "polling", "polled", "teardown", "poll"} =>
              mode[t] \in AnyMode
         /\ pc[t].at = "take" => Simple(pc[t].then, mode[t]) /\ Then(pc[t].then)
         /\ pc[t].at \in {"test", "post"} => /\ DOMAIN pc[t] = {"at", "sem", "then"}
                                             /\ Simple(pc[t].then, mode[t]) /\ Then(pc[t].then)
         /\ pc[t].at = "wait" => /\ Simple(pc[t].then, mode[t]) /\ Simple(pc[t].else, mode[t])
                                 /\ Then(pc[t].then) /\ Else(pc[t].then, pc[t].else)
<1>1. Stage(pc[t], mode[t])
  BY DEF IInv, StageInv
<1>2. CASE Simple(pc[t], mode[t])
  BY <1>2 DEF Simple, OpenStage, UseStage, ReadStage, WriteStage, OtherStage, PollStage, At
<1>3. CASE ~Simple(pc[t], mode[t])
  BY <1>1, <1>3 DEF Stage
<1> QED
  BY <1>2, <1>3

-----------------------------------------------------------------------------
(* The actions.                                                            *)

\* The steps of pipecommon_open() that count nothing.
LEMMA OpenInv ==
  ASSUME Cardinals, IInv, NEW t \in Thread,
         \/ \E m \in Modes : Open(t, m)
         \/ OpenFails(t) \/ Opened(t) \/ OpenWaits(t) \/ OpenReturns(t) \/ OpenCloses(t)
  PROVE  IInv'
<1> USE DEF Asks, Calls, Does, At, openvars
<1>1. ASSUME NEW m \in Modes, Open(t, m)
      PROVE  IInv'
  <2> DEFINE k == [at |-> "open", mode |-> m]
  <2>1. mode[t] = "none" /\ pc[t] = At("user")
    BY <1>1 DEF Open
  <2>2. Simple(k, mode[t]) /\ Simple(At("user"), mode[t]) /\ Then(k) /\ Else(k, At("user"))
    BY <2>1, PipeAssumption DEF Simple, OpenStage, AnyMode, Then, Else
  <2>3. FileAt(k, mode[t]) <=> FileAt(pc[t], mode[t])
    BY <2>1 DEF FileAt
  <2>4. Wait(t, "bf", k, At("user")) /\ UNCHANGED <<ringvars, refs, mode>>
    BY <1>1 DEF Open
  <2> HIDE DEF k
  <2> QED
    BY <2>2, <2>3, <2>4, QuietWait
<1>2. CASE OpenFails(t)
  <2>1. pc[t].at = "open" /\ mode[t] = "none"
    BY <1>2, Places, Zenon DEF OpenFails
  <2>2. Simple(At("user"), mode[t]) /\ (FileAt(At("user"), mode[t]) <=> FileAt(pc[t], mode[t]))
    BY <2>1 DEF Simple, FileAt
  <2>3. Move(t, At("user")) /\ UNCHANGED <<ringvars, refs, mode>>
    BY <1>2 DEF OpenFails, Goto, Move
  <2> QED
    BY <2>2, <2>3, QuietMove
<1>3. CASE Opened(t)
  <2> /\ pc[t].at = "opened" /\ mode[t] = "none"
      /\ pc[t] \in [at : {"open", "opened", "close"}, mode : AnyMode]
    BY <1>3, Places, Zenon DEF Opened
  <2>2. CASE Move(t, At("first")) /\ UNCHANGED mode
    <3>1. Simple(At("first"), mode[t]) /\ (FileAt(At("first"), mode[t]) <=> FileAt(pc[t], mode[t]))
      BY DEF Simple, OpenStage, FileAt
    <3>2. UNCHANGED <<ringvars, refs, mode>>
      BY <1>3, <2>2 DEF Opened
    <3> QED
      BY <2>2, <3>1, <3>2, QuietMove
  <2>3. CASE Goto(t, "user") /\ mode' = [mode EXCEPT ![t] = pc[t].mode]
    <3>1. Stage(At("user"), pc[t].mode) /\ pc[t].mode \in AnyMode \cup {"none"}
      BY DEF Stage, Simple
    <3>2. FileAt(At("user"), pc[t].mode) /\ HasFile(t)
      BY DEF FileAt, HasFile, AnyMode
    <3>3. RingInv' /\ refs' = refs
      BY <1>3 DEF Opened, IInv, RingInv, ringvars
    <3>4. pc' = [pc EXCEPT ![t] = At("user")]
      BY <2>3 DEF Goto
    <3> QED
      BY <2>3, <3>1, <3>2, <3>3, <3>4, Counts, Zenon
  <2> QED
    BY <1>3, <2>2, <2>3 DEF Opened
<1>4. CASE OpenWaits(t)
  <2>1. pc[t].at = "first" /\ mode[t] = "none"
    BY <1>4, Places, Zenon DEF OpenWaits
  <2>2. /\ Simple(At("found"), mode[t]) /\ Simple(At("fail"), mode[t])
        /\ Then(At("found")) /\ Else(At("found"), At("fail"))
        /\ FileAt(At("found"), mode[t]) <=> FileAt(pc[t], mode[t])
    BY <2>1 DEF Simple, OpenStage, Then, Else, FileAt
  <2>3. Wait(t, "rd", At("found"), At("fail")) /\ UNCHANGED <<ringvars, refs, mode>>
    BY <1>4 DEF OpenWaits
  <2> QED
    BY <2>2, <2>3, QuietWait
<1>5. CASE OpenReturns(t)
  <2>1. pc[t].at = "found"
    BY <1>5 DEF OpenReturns
  <2>2. Stage(At("user"), "O_RDONLY") /\ "O_RDONLY" \in AnyMode \cup {"none"}
    BY DEF Stage, Simple, AnyMode
  <2>3. FileAt(At("user"), "O_RDONLY") /\ HasFile(t)
    BY <2>1 DEF FileAt, HasFile
  <2>4. RingInv' /\ refs' = refs /\ mode' = [mode EXCEPT ![t] = "O_RDONLY"]
    BY <1>5 DEF OpenReturns, IInv, RingInv, ringvars
  <2>5. pc' = [pc EXCEPT ![t] = At("user")]
    BY <1>5 DEF OpenReturns, Goto
  <2> QED
    BY <2>2, <2>3, <2>4, <2>5, Counts, Zenon
<1>6. CASE OpenCloses(t)
  <2> DEFINE k == [at |-> "close", mode |-> "O_RDONLY"]
  <2>1. pc[t].at = "fail" /\ mode[t] = "none"
    BY <1>6, Places, Zenon DEF OpenCloses
  <2>2. Simple(k, mode[t]) /\ Then(k) /\ (FileAt(k, mode[t]) <=> FileAt(pc[t], mode[t]))
    BY <2>1 DEF Simple, OpenStage, AnyMode, Then, FileAt
  <2>3. Take(t, "bf", k) /\ UNCHANGED <<ringvars, refs, mode>>
    BY <1>6 DEF OpenCloses
  <2> HIDE DEF k
  <2> QED
    BY <2>2, <2>3, QuietTake
<1> QED
  BY <1>1, <1>2, <1>3, <1>4, <1>5, <1>6

\* The steps that count an open file, or forget one.
LEMMA CountInv ==
  ASSUME Cardinals, IInv, NEW t \in Thread,
         OpenCounts(t) \/ Close(t) \/ CloseCounts(t) \/ CloseLast(t) \/ Closed(t)
  PROVE  IInv'
<1> USE DEF Does, At
<1>1. CASE OpenCounts(t)
  <2> DEFINE k == [pc[t] EXCEPT !.at = "opened"]
  <2> /\ pc[t].at = "open" /\ mode[t] = "none"
      /\ pc[t] \in [at : {"open", "opened", "close"}, mode : AnyMode]
    BY <1>1, Places, Zenon DEF OpenCounts
  <2>2. k \in [at : {"open", "opened", "close"}, mode : AnyMode] /\ k.at = "opened"
    OBVIOUS
  <2>3. PICK x : pc' = [pc EXCEPT ![t] = x] /\ (x = k \/ x = Waking("rd", k))
    BY <1>1, Zenon DEF OpenCounts, Move
  <2> HIDE DEF k
  <2>4. Simple(k, mode[t]) /\ Then(k) /\ FileAt(k, mode[t])
    BY <2>2 DEF Simple, OpenStage, Then, FileAt
  <2>5. Stage(x, mode[t]) /\ FileAt(x, mode[t])
    BY <2>3, <2>4, Composite DEF Waking
  <2>6. ~HasFile(t)
    BY DEF HasFile
  <2>7. RingInv' /\ refs' = refs + 1 /\ mode' = mode
    BY <1>1 DEF OpenCounts, IInv, RingInv, ringvars
  <2>8. mode[t] \in AnyMode \cup {"none"} /\ mode' = [mode EXCEPT ![t] = mode[t]]
    BY <2>7 DEF IInv, StageInv
  <2> QED
    BY <2>3, <2>5, <2>6, <2>7, <2>8, Counts, Zenon
<1>2. CASE Close(t)
  <2> DEFINE k == [at |-> "close", mode |-> mode[t]]
  <2>1. mode[t] \in AnyMode /\ HasFile(t)
    BY <1>2, PipeAssumption, Zenon DEF Close, Asks, AnyMode, HasFile
  <2>2. Simple(k, "none") /\ Then(k) /\ FileAt(k, "none")
    BY <2>1 DEF Simple, OpenStage, Then, FileAt
  <2>3. PICK x : pc' = [pc EXCEPT ![t] = x] /\ (x = k \/ x = [at |-> "take", sem |-> "bf", then |-> k])
    BY <1>2, Zenon DEF Close, Take
  <2> HIDE DEF k
  <2>4. Stage(x, "none") /\ FileAt(x, "none")
    BY <2>2, <2>3, Composite
  <2>5. RingInv' /\ refs' = refs /\ mode' = [mode EXCEPT ![t] = "none"]
    BY <1>2 DEF Close, IInv, RingInv, ringvars
  <2> QED
    BY <2>1, <2>3, <2>4, <2>5, Counts, Zenon
<1>3. ASSUME CloseCounts(t) \/ CloseLast(t)
      PROVE  IInv'
  <2> pc[t].at = "close" /\ mode[t] = "none" /\ HasFile(t)
    BY <1>3, Places, Zenon DEF CloseCounts, CloseLast, HasFile
  <2>2. PICK x : pc' = [pc EXCEPT ![t] = x] /\ (x = At("closed") \/ x = Waking("rd", At("closed")))
    BY <1>3 DEF CloseCounts, CloseLast, Goto, Move
  <2>3. Simple(At("closed"), mode[t]) /\ Then(At("closed")) /\ ~FileAt(At("closed"), mode[t])
    BY DEF Simple, OpenStage, Then, FileAt
  <2>4. Stage(x, mode[t]) /\ ~FileAt(x, mode[t])
    BY <2>2, <2>3, Composite DEF Waking
  <2>5. mode' = mode
    BY <1>3 DEF CloseCounts, CloseLast
  <2>6. mode[t] \in AnyMode \cup {"none"} /\ mode' = [mode EXCEPT ![t] = mode[t]]
    BY <2>5 DEF IInv, StageInv
  <2>7. refs' = refs - 1
    <3>1. CASE CloseCounts(t)
      BY <3>1 DEF CloseCounts
    <3>2. CASE CloseLast(t)
      <4> DEFINE F == {u \in Thread : HasFile(u)}
      <4>1. IsFiniteSet(F) /\ refs = Cardinality(F) /\ t \in F
        BY PipeAssumption, PartFinite DEF IInv, RefInv
      <4>2. refs \in Nat /\ refs # 0
        BY <4>1, CardinalNat, NoMembers
      <4> QED
        BY <3>2, <4>2 DEF CloseLast
    <3> QED
      BY <1>3, <3>1, <3>2
  <2>8. RingInv'
    <3>1. CASE CloseCounts(t)
      BY <3>1, Zenon DEF CloseCounts, IInv, RingInv, ringvars
    <3>2. CASE CloseLast(t)
      BY <3>2, PipeAssumption DEF CloseLast, RingInv, Ring, Byte
    <3> QED
      BY <1>3, <3>1, <3>2
  <2> QED
    BY <2>2, <2>4, <2>6, <2>7, <2>8, Counts, Zenon
<1>4. CASE Closed(t)
  <2>1. pc[t].at = "closed" /\ mode[t] = "none"
    BY <1>4, Places, Zenon DEF Closed
  <2>2. Simple(At("user"), mode[t]) /\ (FileAt(At("user"), mode[t]) <=> FileAt(pc[t], mode[t]))
    BY <2>1 DEF Simple, FileAt
  <2>3. Move(t, At("user")) /\ UNCHANGED <<ringvars, refs, mode>>
    BY <1>4 DEF Closed, Goto, Move, openvars
  <2> QED
    BY <2>2, <2>3, QuietMove, Zenon
<1> QED
  BY <1>1, <1>2, <1>3, <1>4

\* pipecommon_read(), but for the bytes.
LEMMA ReadInv ==
  ASSUME Cardinals, IInv, NEW t \in Thread,
         \/ \E n \in ReadLengths : Read(t, n)
         \/ ReadNothing(t) \/ ReadGives(t) \/ ReadSleeps(t) \/ ReadWakes(t) \/ ReadFails(t)
  PROVE  IInv'
<1> USE DEF Does, openvars
<1> mode[t] \in AnyMode /\ UNCHANGED <<ringvars, refs, mode>>
  BY Places, Zenon DEF Read, ReadNothing, ReadGives, ReadSleeps, ReadWakes, ReadFails, Asks, AnyMode
<1> \A k : FileAt(k, mode[t])
  BY DEF FileAt, AnyMode
<1> Simple(At("user"), mode[t]) /\ Simple(At("error"), mode[t])
  BY DEF Simple, UseStage, OtherStage, At
<1>4. ASSUME NEW k \in ReadStage
      PROVE  Simple(k, mode[t])
  BY DEF Simple, UseStage
<1>5. CASE \E n \in ReadLengths : Read(t, n)
  <2>1. PICK n \in ReadLengths : Read(t, n)
    BY <1>5
  <2> DEFINE k == [at |-> "read", n |-> n]
  <2>2. k \in ReadStage /\ Then(k) /\ Else(k, At("user"))
    BY PipeAssumption DEF ReadStage, AnyLength, Then, Else
  <2>3. Wait(t, "bf", k, At("user"))
    BY <2>1 DEF Read
  <2> HIDE DEF k
  <2> QED
    BY <1>4, <2>2, <2>3, QuietWait
<1>6. CASE ReadNothing(t) \/ ReadFails(t)
  <2>1. Move(t, At("user"))
    BY <1>6 DEF ReadNothing, ReadFails, Goto, Move
  <2> QED
    BY <2>1, QuietMove
<1>7. ASSUME NEW l \in {"empty", "bytes", "read"}, pc[t] \in ReadStage
      PROVE  [pc[t] EXCEPT !.at = l] \in ReadStage /\ [pc[t] EXCEPT !.at = l].at = l
  BY <1>7 DEF ReadStage
<1>8. CASE ReadGives(t)
  <2> DEFINE k == [pc[t] EXCEPT !.at = "empty"]
  <2>1. k \in ReadStage
    BY <1>7, <1>8, Places DEF ReadGives
  <2>2. Move(t, k)
    BY <1>8 DEF ReadGives
  <2> HIDE DEF k
  <2> QED
    BY <1>4, <2>1, <2>2, QuietMove, Zenon
<1>9. CASE ReadSleeps(t)
  <2> DEFINE k == [pc[t] EXCEPT !.at = "bytes"]
  <2>1. k \in ReadStage /\ k.at = "bytes"
    BY <1>7, <1>9, Places DEF ReadSleeps
  <2>2. Wait(t, "rd", k, At("error"))
    BY <1>9 DEF ReadSleeps
  <2> HIDE DEF k
  <2>3. Then(k) /\ Else(k, At("error"))
    BY <2>1 DEF Then, Else
  <2> QED
    BY <1>4, <2>1, <2>2, <2>3, QuietWait
<1>10. CASE ReadWakes(t)
  <2> DEFINE k == [pc[t] EXCEPT !.at = "read"]
  <2>1. k \in ReadStage /\ k.at = "read"
    BY <1>7, <1>10, Places DEF ReadWakes
  <2>2. Wait(t, "bf", k, At("user"))
    BY <1>10 DEF ReadWakes
  <2> HIDE DEF k
  <2>3. Then(k) /\ Else(k, At("user"))
    BY <2>1 DEF Then, Else
  <2> QED
    BY <1>4, <2>1, <2>2, <2>3, QuietWait
<1> QED
  BY <1>5, <1>6, <1>8, <1>9, <1>10

\* pipecommon_write(), but for the bytes.
LEMMA WriteInv ==
  ASSUME Cardinals, IInv, NEW t \in Thread,
         \/ \E n \in WriteLengths : Write(t, n)
         \/ WriteReturns(t) \/ WriteFull(t) \/ WriteReturnsPart(t)
         \/ WriteGives(t) \/ WriteSleeps(t) \/ WriteWakes(t)
  PROVE  IInv'
<1> USE DEF Does, openvars
<1> mode[t] \in AnyMode /\ UNCHANGED <<ringvars, refs, mode>>
  BY Places, Zenon DEF Write, WriteReturns, WriteFull, WriteReturnsPart, WriteGives, WriteSleeps,
                WriteWakes, Asks, AnyMode
<1> \A k : FileAt(k, mode[t])
  BY DEF FileAt, AnyMode
<1>3. Simple(At("user"), mode[t])
  BY DEF Simple
<1>4. ASSUME NEW k \in WriteStage
      PROVE  Simple(k, mode[t])
  BY DEF Simple, UseStage
<1>5. CASE \E n \in WriteLengths : Write(t, n)
  <2>1. PICK n \in WriteLengths : Write(t, n)
    BY <1>5
  <2> DEFINE k == [at |-> "write", n |-> n, put |-> FALSE]
  <2>2. k \in WriteStage /\ Then(k) /\ Else(k, At("user"))
    BY PipeAssumption DEF WriteStage, AnyLength, Then, Else
  <2>3. Wait(t, "bf", k, At("user"))
    BY <2>1 DEF Write
  <2> HIDE DEF k
  <2> QED
    BY <1>3, <1>4, <2>2, <2>3, QuietWait
<1>6. CASE WriteReturns(t) \/ WriteReturnsPart(t)
  <2>1. Move(t, At("user"))
    BY <1>6 DEF WriteReturns, WriteReturnsPart, Goto, Move
  <2> QED
    BY <1>3, <2>1, QuietMove
<1>7. CASE WriteFull(t)
  <2> DEFINE k == [pc[t] EXCEPT !.at = "full", !.put = FALSE]
  <2>1. pc[t] \in WriteStage
    BY <1>7, Places DEF WriteFull
  <2>2. k \in WriteStage /\ k.at = "full"
    BY <2>1, Zenon DEF WriteStage
  <2>3. Move(t, Waking("rd", k)) \/ Move(t, k)
    BY <1>7 DEF WriteFull
  <2> HIDE DEF k
  <2>4. Then(k)
    BY <2>2 DEF Then
  <2> QED
    BY <1>4, <2>2, <2>3, <2>4, QuietMove, QuietWake, Zenon
<1>8. ASSUME NEW l \in {"room", "again", "write"}, pc[t] \in WriteStage
      PROVE  [pc[t] EXCEPT !.at = l] \in WriteStage /\ [pc[t] EXCEPT !.at = l].at = l
  BY <1>8 DEF WriteStage
<1>9. CASE WriteGives(t)
  <2> DEFINE k == [pc[t] EXCEPT !.at = "room"]
  <2>1. k \in WriteStage
    BY <1>8, <1>9, Places DEF WriteGives
  <2>2. Move(t, k)
    BY <1>9 DEF WriteGives
  <2> HIDE DEF k
  <2> QED
    BY <1>4, <2>1, <2>2, QuietMove, Zenon
<1>10. CASE WriteSleeps(t)
  <2> DEFINE k == [pc[t] EXCEPT !.at = "again"]
  <2>1. k \in WriteStage /\ k.at = "again"
    BY <1>8, <1>10, Places DEF WriteSleeps
  <2>2. Take(t, "wr", k)
    BY <1>10 DEF WriteSleeps
  <2> HIDE DEF k
  <2>3. Then(k)
    BY <2>1 DEF Then
  <2> QED
    BY <1>4, <2>1, <2>2, <2>3, QuietTake
<1>11. CASE WriteWakes(t)
  <2> DEFINE k == [pc[t] EXCEPT !.at = "write"]
  <2>1. k \in WriteStage /\ k.at = "write"
    BY <1>8, <1>11, Places DEF WriteWakes
  <2>2. Take(t, "bf", k)
    BY <1>11 DEF WriteWakes
  <2> HIDE DEF k
  <2>3. Then(k)
    BY <2>1 DEF Then
  <2> QED
    BY <1>4, <2>1, <2>2, <2>3, QuietTake
<1> QED
  BY <1>5, <1>6, <1>7, <1>9, <1>10, <1>11

\* poll().
LEMMA PollInv ==
  ASSUME Cardinals, IInv, NEW t \in Thread,
         \/ \E e \in {f[2] : f \in PollFor} : Poll(t, e)
         \/ PollBusy(t) \/ PollSetup(t) \/ PollSleeps(t) \/ Polled(t) \/ PollReturns(t)
  PROVE  IInv'
<1> USE DEF Does, openvars
<1> mode[t] \in AnyMode /\ UNCHANGED <<ringvars, refs, mode>>
  <2>1. \A e : <<mode[t], e>> \in PollFor => mode[t] \in AnyMode
    BY PipeAssumption, Zenon DEF AnyMode
  <2> QED
    BY <2>1, Places, Zenon DEF Poll, PollBusy, PollSetup, PollSleeps, Polled, PollReturns
<1> \A k : FileAt(k, mode[t])
  BY DEF FileAt, AnyMode
<1>3. ASSUME NEW l \in {"user", "polling", "polled", "teardown"}
      PROVE  Simple(At(l), mode[t]) /\ (l # "user" => Then(At(l)))
  BY DEF Simple, UseStage, OtherStage, At, Then
<1>4. CASE \E e \in {f[2] : f \in PollFor} : Poll(t, e)
  <2>1. PICK e : Poll(t, e)
    BY <1>4
  <2>2. e \in SUBSET {"POLLIN", "POLLOUT"}
    BY <2>1, PipeAssumption DEF Poll
  <2> DEFINE k == [at |-> "poll", events |-> e]
  <2>3. Simple(k, mode[t]) /\ Then(k)
    BY <2>2 DEF Simple, UseStage, PollStage, Then
  <2>4. Take(t, "bf", k)
    BY <2>1 DEF Poll
  <2> HIDE DEF k
  <2> QED
    BY <2>3, <2>4, QuietTake
<1>5. CASE PollBusy(t) \/ PollSetup(t) \/ PollReturns(t)
  <2>1. PICK l \in {"user", "polling"} : Move(t, At(l))
    BY <1>5 DEF PollBusy, PollSetup, PollReturns, Goto, Move
  <2> QED
    BY <1>3, <2>1, QuietMove
<1>6. CASE PollSleeps(t) \/ Polled(t)
  <2>1. PICK l \in {"polled", "teardown"} : \E s : Take(t, s, At(l))
    BY <1>6, Zenon DEF PollSleeps, Polled
  <2> QED
    BY <1>3, <2>1, QuietTake
<1> QED
  BY <1>4, <1>5, <1>6

\* The ends of waits, and the loops of posts.
LEMMA WaitInv ==
  ASSUME Cardinals, IInv, NEW t \in Thread,
         WakeTests(t) \/ WakePosts(t) \/ WaitEnds(t) \/ TakeEnds(t) \/ Signal(t)
  PROVE  IInv'
<1> USE DEF Does, openvars
<1> UNCHANGED <<ringvars, refs, mode>>
  BY DEF WakeTests, WakePosts, WaitEnds, TakeEnds, Signal
<1> DEFINE m == mode[t]
           h == pc[t].then
<1>2. ASSUME pc[t].at \in {"take", "test", "post", "wait"}
      PROVE  Simple(h, m) /\ Then(h) /\ (FileAt(h, m) <=> FileAt(pc[t], m))
  <2>1. Simple(h, m) /\ Then(h)
    BY <1>2, Places
  <2>2. h.at \notin {"wait", "take", "test", "post"}
    BY <2>1, SimpleLabel
  <2> QED
    BY <1>2, <2>1, <2>2 DEF FileAt, Then
<1>3. ASSUME pc[t].at \in {"test", "post"}, NEW l \in {"test", "post"}, Move(t, [pc[t] EXCEPT !.at = l])
      PROVE  IInv'
  <2> DEFINE k == [pc[t] EXCEPT !.at = l]
  <2>1. DOMAIN pc[t] = {"at", "sem", "then"}
    BY <1>3, Places
  <2>2. k.at = l /\ k.then = h /\ DOMAIN k = {"at", "sem", "then"}
    BY <2>1
  <2>3. pc' = [pc EXCEPT ![t] = k]
    BY <1>3 DEF Move
  <2> HIDE DEF k
  <2>4. Stage(k, m)
    BY <1>2, <1>3, <2>2 DEF Stage
  <2>5. FileAt(k, m) <=> FileAt(pc[t], m)
    BY <1>3, <2>2 DEF FileAt
  <2> QED
    BY <2>3, <2>4, <2>5, Quiet, Zenon
<1>4. CASE WakeTests(t)
  <2>1. pc[t].at = "test" /\ (Move(t, [pc[t] EXCEPT !.at = "post"]) \/ Move(t, h))
    BY <1>4 DEF WakeTests
  <2>2. CASE Move(t, h)
    BY <1>2, <2>1, <2>2, QuietMove
  <2> QED
    BY <1>3, <2>1, <2>2
<1>5. CASE WakePosts(t)
  BY <1>3, <1>5 DEF WakePosts
<1>6. CASE WaitEnds(t)
  <2> pc[t].at = "wait" /\ (Move(t, h) \/ Move(t, pc[t].else))
    BY <1>6 DEF WaitEnds
  <2>2. CASE Move(t, h)
    BY <1>2, <2>2, QuietMove
  <2>3. CASE Move(t, pc[t].else)
    <3> DEFINE e == pc[t].else
    <3> Simple(e, m) /\ Else(h, e)
      BY Places, Zenon
    <3>2. FileAt(e, m) <=> FileAt(h, m)
      <4>1. CASE m = "none"
        <5>1. h.at \in {"found", "open", "read", "bytes", "write"}
          BY DEF Else
        <5>2. CASE h.at = "found"
          <6>1. e.at = "fail"
            BY <5>2 DEF Else, At
          <6> QED
            BY <5>2, <6>1 DEF FileAt
        <5>3. CASE h.at # "found"
          <6>1. e.at \in {"user", "error"}
            BY <5>3 DEF Else, At
          <6> HIDE DEF e, h
          <6> QED
            BY <4>1, <5>1, <5>3, <6>1 DEF FileAt
        <5> QED
          BY <5>2, <5>3
      <4> QED
        BY <4>1, Zenon DEF FileAt
    <3> HIDE DEF e
    <3> QED
      BY <1>2, <2>3, <3>2, QuietMove DEF e
  <2> QED
    BY <2>2, <2>3
<1>7. CASE TakeEnds(t)
  <2>1. pc[t].at = "take" /\ (Move(t, h) \/ Take(t, pc[t].sem, h))
    BY <1>7 DEF TakeEnds, Retry, Move
  <2> HIDE DEF h
  <2> QED
    BY <1>2, <2>1, QuietMove, QuietTake, Zenon
<1>8. CASE Signal(t)
  <2>1. UNCHANGED <<pc, mode, refs, ringvars>>
    BY <1>8 DEF Signal, Interrupted
  <2> QED
    BY <2>1 DEF IInv, RingInv, StageInv, RefInv, HasFile, ringvars
<1> QED
  BY <1>4, <1>5, <1>6, <1>7, <1>8

-----------------------------------------------------------------------------
(* The steps that move bytes, and the FIFO.                                *)

\* The ring of the pipe.
LEMMA RingContent ==
  /\ Used = UsedOf(wrndx, rdndx) /\ Content = ContentOf(buf, wrndx, rdndx)
  /\ Content' = ContentOf(buf', wrndx', rdndx')
BY DEF Used, Content, UsedOf, ContentOf, Place, Wrap

\* A pipe with an open file is open.
LEMMA FileOpens ==
  ASSUME Cardinals, IInv, NEW t \in Thread, HasFile(t)
  PROVE  refs \in Nat /\ refs > 0
<1> DEFINE F == {u \in Thread : HasFile(u)}
<1>1. IsFiniteSet(F) /\ refs = Cardinality(F) /\ t \in F
  BY PipeAssumption, PartFinite DEF IInv, RefInv
<1>2. refs \in Nat /\ refs # 0
  BY <1>1, CardinalNat, NoMembers
<1> QED
  BY <1>2

\* A pass of the loop of pipecommon_write() puts a byte into the FIFO.
LEMMA WriteByteStep ==
  ASSUME Cardinals, IInv, NEW t \in Thread, WriteByte(t)
  PROVE  IInv' /\ Fifo!Put
<1> DEFINE x == NextByte
<1> pc[t].at = "write" /\ pc[t] \in WriteStage /\ mode[t] \in AnyMode
  BY Places DEF WriteByte, Does
<1>2. HasFile(t)
  BY DEF HasFile, AnyMode
<1> buf \in [Ring -> Byte] /\ wrndx \in Ring /\ rdndx \in Ring
  BY DEF IInv, RingInv
<1> x \in Byte
  <2>1. CASE Used = 0
    BY <2>1 DEF NextByte, Byte
  <2>2. CASE Used # 0
    <3>1. Used \in 1..Used
      BY <2>2, RingContent, UsedValue, PipeAssumption
    <3>2. Content \in Seq(Byte) /\ Len(Content) = Used
      BY RingContent, ContentSeq
    <3>3. Content[Used] \in Byte
      BY <3>1, <3>2
    <3> QED
      BY <2>2, <3>3 DEF NextByte, Byte
  <2> QED
    BY <2>1, <2>2
<1> /\ Wrap(wrndx + 1) # rdndx
    /\ buf' = [buf EXCEPT ![wrndx] = x] /\ wrndx' = Wrap(wrndx + 1)
    /\ rdndx' = rdndx /\ out' = out /\ refs' = refs /\ mode' = mode
  BY DEF WriteByte, Wrap, openvars
<1> HIDE DEF x
<1> /\ wrndx' \in Ring /\ UsedOf(wrndx, rdndx) < Size - 1
    /\ ContentOf(buf', wrndx', rdndx') = ContentOf(buf, wrndx, rdndx) \o <<x>>
  BY RingPut, Zenon
<1>7. IInv'
  <2>1. RingInv'
    BY DEF RingInv
  <2>2. PICK k : pc' = [pc EXCEPT ![t] = k] /\ Stage(k, mode[t])
    <3>1. CASE pc[t].n = 1
      <4>1. Simple(At("writeend"), mode[t]) /\ Then(At("writeend"))
        BY DEF Simple, UseStage, OtherStage, Then, At
      <4>2. Stage(Waking("rd", At("writeend")), mode[t])
        BY <4>1, Composite DEF Waking
      <4> QED
        BY <3>1, <4>2, Zenon DEF WriteByte, Move
    <3>2. CASE pc[t].n # 1
      <4> DEFINE k == [pc[t] EXCEPT !.n = pc[t].n - 1, !.put = TRUE]
      <4>1. k \in WriteStage
        <5>1. pc[t].n \in Nat \ {0}
          BY DEF WriteStage, AnyLength
        <5>2. pc[t].n - 1 \in AnyLength
          BY <3>2, <5>1 DEF AnyLength
        <5> QED
          BY <5>2, Zenon DEF WriteStage
      <4>2. pc' = [pc EXCEPT ![t] = k]
        BY <3>2 DEF WriteByte, Move
      <4> HIDE DEF k
      <4>3. Stage(k, mode[t])
        BY <4>1 DEF Stage, Simple, UseStage
      <4> QED
        BY <4>2, <4>3, Zenon
    <3> QED
      BY <3>1, <3>2
  <2>3. FileAt(k, mode[t])
    BY DEF FileAt, AnyMode
  <2>4. mode' = [mode EXCEPT ![t] = mode[t]]
    BY DEF IInv, StageInv
  <2> QED
    BY <1>2, <2>1, <2>2, <2>3, <2>4, Counts, Zenon
<1>8. Fifo!Put
  <2>1. refs > 0 /\ refs' > 0 /\ refs' = refs
    BY <1>2, FileOpens
  <2>2. Content' = Content \o <<x>>
    BY RingContent
  <2>3. Len(Content) = UsedOf(wrndx, rdndx) /\ UsedOf(wrndx, rdndx) \in 0..(Size - 1)
    BY RingContent, ContentSeq, UsedValue, Zenon
  <2>4. 1 \in 1..((Size - 1) - Len(Content)) /\ <<x>> \in [1..1 -> Byte]
    BY <2>3, PipeAssumption
  <2> QED
    BY <2>1, <2>2, <2>4, Zenon DEF Fifo!Put
<1> QED
  BY <1>7, <1>8

\* pipecommon_read() takes its bytes out of the FIFO in one step.
LEMMA ReadBytesStep ==
  ASSUME Cardinals, IInv, NEW t \in Thread, ReadBytes(t)
  PROVE  IInv' /\ Fifo!Get
<1> DEFINE n == Least(pc[t].n, Used)
<1> pc[t].at = "read" /\ pc[t] \in ReadStage /\ mode[t] \in AnyMode
  BY Places, Zenon DEF ReadBytes, Does
<1>2. HasFile(t)
  BY DEF HasFile, AnyMode
<1> buf \in [Ring -> Byte] /\ wrndx \in Ring /\ rdndx \in Ring
  BY DEF IInv, RingInv
<1>4. n \in 1..UsedOf(wrndx, rdndx)
  <2>1. wrndx # rdndx
    BY Zenon DEF ReadBytes
  <2>2. Used \in Nat /\ Used > 0
    <3>1. /\ UsedOf(wrndx, rdndx) = IF wrndx >= rdndx THEN wrndx - rdndx ELSE wrndx + Size - rdndx
          /\ UsedOf(wrndx, rdndx) \in 0..(Size - 1)
      BY UsedValue
    <3>2. wrndx \in Nat /\ rdndx \in Nat /\ rdndx < Size /\ Size \in Nat
      BY PipeAssumption DEF Ring
    <3>3. Used = UsedOf(wrndx, rdndx)
      BY RingContent
    <3> QED
      BY <2>1, <3>1, <3>2, <3>3, SMTT(30)
  <2>3. pc[t].n \in Nat /\ pc[t].n > 0
    BY DEF ReadStage, AnyLength
  <2> QED
    BY <2>2, <2>3, RingContent, SMTT(30) DEF Least
<1> /\ out' = SubSeq(Content, 1, n) /\ rdndx' = Wrap(rdndx + n)
    /\ buf' = Rest(buf, rdndx, n)
    /\ wrndx' = wrndx /\ refs' = refs /\ mode' = mode
  BY DEF ReadBytes, Wrap, UsedOf, Rest, openvars
<1> HIDE DEF n
<1>6. /\ rdndx' \in Ring /\ buf' \in [Ring -> Byte]
      /\ ContentOf(buf', wrndx, rdndx') = SubSeq(ContentOf(buf, wrndx, rdndx), n + 1, UsedOf(wrndx, rdndx))
  BY <1>4, RingGet
<1>7. IInv'
  <2>1. RingInv'
    BY <1>6 DEF RingInv
  <2>2. Simple(At("readend"), mode[t]) /\ Then(At("readend"))
    BY DEF Simple, UseStage, OtherStage, Then, At
  <2> DEFINE k == Waking("wr", At("readend"))
  <2>3. Stage(k, mode[t]) /\ FileAt(k, mode[t])
    BY <2>2, Composite DEF Waking, FileAt, AnyMode
  <2>4. pc' = [pc EXCEPT ![t] = k]
    BY DEF ReadBytes, Move
  <2>5. mode' = [mode EXCEPT ![t] = mode[t]]
    BY DEF IInv, StageInv
  <2> HIDE DEF k
  <2> QED
    BY <1>2, <2>1, <2>3, <2>4, <2>5, Counts, Zenon
<1>8. Fifo!Get
  <2>1. refs > 0 /\ refs' > 0
    BY <1>2, FileOpens
  <2>2. Len(Content) = UsedOf(wrndx, rdndx)
    BY RingContent, ContentSeq
  <2>3. Content' = SubSeq(Content, n + 1, Len(Content))
    BY <1>6, <2>2, RingContent
  <2> QED
    BY <1>4, <2>1, <2>2, <2>3 DEF Fifo!Get
<1> QED
  BY <1>7, <1>8

\* pipecommon_read() returns.
LEMMA ReadReturnsInv ==
  ASSUME Cardinals, IInv, NEW t \in Thread, ReadReturns(t)
  PROVE  IInv'
<1>1. mode[t] \in AnyMode
  BY Places, Zenon DEF ReadReturns, Does
<1>2. RingInv' /\ refs' = refs /\ mode' = mode /\ pc' = [pc EXCEPT ![t] = At("user")]
  BY DEF ReadReturns, IInv, RingInv, Goto, openvars
<1>3. mode' = [mode EXCEPT ![t] = mode[t]]
  BY <1>2 DEF IInv, StageInv
<1>4. Stage(At("user"), mode[t])
  BY DEF Stage, Simple
<1>5. FileAt(At("user"), mode[t]) /\ HasFile(t)
  BY <1>1 DEF FileAt, HasFile, AnyMode
<1> QED
  BY <1>1, <1>2, <1>3, <1>4, <1>5, Counts, Zenon

\* Every step keeps the invariant.
LEMMA StepInv ==
  ASSUME Cardinals
  PROVE  IInv /\ [Next]_vars => IInv'
<1> SUFFICES ASSUME IInv, [Next]_vars PROVE IInv'
  OBVIOUS
<1>1. CASE UNCHANGED vars
  BY <1>1 DEF vars, threadvars, ringvars, openvars, IInv, RingInv, StageInv, RefInv, HasFile
<1>2. CASE Next
  BY <1>2, OpenInv, CountInv, ReadInv, WriteInv, PollInv, WaitInv, WriteByteStep, ReadBytesStep,
     ReadReturnsInv, Zenon DEF Next
<1> QED
  BY <1>1, <1>2

\* A step of the FIFO.
FifoNext == Fifo!Put \/ Fifo!Get \/ Fifo!Return \/ Fifo!Open \/ Fifo!CloseLast

\* Every step is a step of the FIFO, or changes nothing of it.
LEMMA StepRefines ==
  ASSUME Cardinals
  PROVE  IInv /\ [Next]_vars => [FifoNext]_<<Content, out, refs > 0>>
<1> SUFFICES ASSUME IInv, [Next]_vars PROVE [FifoNext]_<<Content, out, refs > 0>>
  OBVIOUS
<1>1. ASSUME UNCHANGED <<buf, wrndx, rdndx>>
      PROVE  Content' = Content
  BY <1>1, RingContent
<1>2. ASSUME UNCHANGED <<ringvars, refs>>
      PROVE  UNCHANGED <<Content, out, refs > 0>>
  BY <1>1, <1>2 DEF ringvars
<1>3. ASSUME NEW t \in Thread, OpenCounts(t)
      PROVE  Fifo!Open
  <2>1. Content' = Content /\ out' = out /\ refs' = refs + 1
    BY <1>1, <1>3 DEF OpenCounts, ringvars
  <2>2. refs \in Nat
    BY PartFinite, CardinalNat, PipeAssumption DEF IInv, RefInv
  <2>3. refs' > 0
    BY <2>1, <2>2
  <2> QED
    BY <2>1, <2>3 DEF Fifo!Open
<1>4. ASSUME NEW t \in Thread, CloseCounts(t) \/ CloseLast(t)
      PROVE  [FifoNext]_<<Content, out, refs > 0>>
  <2>1. HasFile(t)
    BY <1>4, Zenon DEF CloseCounts, CloseLast, Does, HasFile
  <2>2. refs \in Nat /\ refs > 0
    BY <2>1, FileOpens
  <2>3. CASE CloseCounts(t)
    <3>1. Content' = Content /\ out' = out /\ refs' = refs - 1 /\ refs > 1
      BY <1>1, <2>3 DEF CloseCounts, ringvars
    <3>2. (refs > 0) /\ (refs' > 0)
      BY <2>2, <3>1
    <3> QED
      BY <3>1, <3>2
  <2>4. CASE CloseLast(t)
    <3> /\ buf' = [i \in Ring |-> 0] /\ wrndx' = 0 /\ rdndx' = 0
        /\ out' = out /\ refs' = 0
      BY <2>4 DEF CloseLast
    <3>2. buf' \in [Ring -> Byte] /\ 0 \in Ring
      BY PipeAssumption DEF Ring, Byte
    <3>3. UsedOf(0, 0) = 0
      BY <3>2, UsedValue
    <3>4. Content' \in Seq(Byte) /\ Len(Content') = 0
      BY <3>2, <3>3, RingContent, ContentSeq
    <3>5. Content' = <<>>
      BY <3>4
    <3>6. ~(refs' > 0)
      OBVIOUS
    <3> QED
      BY <2>2, <3>5, <3>6 DEF FifoNext, Fifo!CloseLast
  <2> QED
    BY <1>4, <2>3, <2>4
<1>5. ASSUME NEW t \in Thread, ReadReturns(t)
      PROVE  Fifo!Return
  BY <1>1, <1>5 DEF ReadReturns, openvars, Fifo!Return
<1>6. CASE UNCHANGED vars
  BY <1>2, <1>6 DEF vars, openvars
<1>7. ASSUME NEW t \in Thread,
             \/ \E m \in Modes : Open(t, m)
             \/ OpenFails(t) \/ Opened(t) \/ OpenWaits(t) \/ OpenReturns(t)
             \/ OpenCloses(t) \/ Close(t) \/ Closed(t)
      PROVE  UNCHANGED <<ringvars, refs>>
  BY <1>7, Zenon DEF Open, OpenFails, Opened, OpenWaits, OpenReturns, OpenCloses, Close, Closed, openvars
<1>8. ASSUME NEW t \in Thread,
             \/ \E n \in ReadLengths : Read(t, n)
             \/ \E n \in WriteLengths : Write(t, n)
             \/ ReadNothing(t) \/ ReadGives(t) \/ ReadSleeps(t) \/ ReadWakes(t) \/ ReadFails(t)
             \/ WriteReturns(t) \/ WriteFull(t) \/ WriteReturnsPart(t) \/ WriteGives(t)
             \/ WriteSleeps(t) \/ WriteWakes(t)
      PROVE  UNCHANGED <<ringvars, refs>>
  BY <1>8, Zenon DEF Read, Write, ReadNothing, ReadGives, ReadSleeps, ReadWakes, ReadFails, WriteReturns,
              WriteFull, WriteReturnsPart, WriteGives, WriteSleeps, WriteWakes, openvars
<1>9. ASSUME NEW t \in Thread,
             \/ \E e \in {f[2] : f \in PollFor} : Poll(t, e)
             \/ PollBusy(t) \/ PollSetup(t) \/ PollSleeps(t) \/ Polled(t) \/ PollReturns(t)
             \/ WakeTests(t) \/ WakePosts(t) \/ WaitEnds(t) \/ TakeEnds(t) \/ Signal(t)
      PROVE  UNCHANGED <<ringvars, refs>>
  BY <1>9, Zenon DEF Poll, PollBusy, PollSetup, PollSleeps, Polled, PollReturns, WakeTests, WakePosts,
              WaitEnds, TakeEnds, Signal, openvars
<1>10. CASE Next
  BY <1>2, <1>3, <1>4, <1>5, <1>7, <1>8, <1>9, <1>10, WriteByteStep, ReadBytesStep, Zenon DEF Next, FifoNext
<1> QED
  BY <1>6, <1>10

-----------------------------------------------------------------------------
(* The theorems.                                                           *)

\* The ring starts as an empty FIFO.
LEMMA FifoStarts == Init => Fifo!FifoInit
<1> SUFFICES ASSUME Init PROVE Fifo!FifoInit
  OBVIOUS
<1> buf \in [Ring -> Byte] /\ wrndx = 0 /\ rdndx = 0 /\ 0 \in Ring /\ out = <<>> /\ refs = 0
  BY PipeAssumption DEF Init, Ring, Byte
<1>2. UsedOf(0, 0) = 0
  BY UsedValue
<1>3. Content \in Seq(Byte) /\ Len(Content) = 0
  BY <1>2, RingContent, ContentSeq
<1>4. Content = <<>>
  BY <1>3
<1> QED
  BY <1>4 DEF Fifo!FifoInit

-----------------------------------------------------------------------------
(* Sleepers and those who wake them.                                       *)

\* The places where a thread holds d_bfsem, and those between d_bfsem and a
\* sleep, where it has the CPU.
Holding == {"open", "opened", "close", "closed", "read", "readend", "write", "writeend", "full",
            "poll", "teardown", "test", "post"}
Bridge == {"first", "empty", "room"}

\* What a thread waits for says how it goes on.
WaitPlace(k) ==
  \/ k.sem = "bf" /\ k.then.at \in {"open", "close", "read", "write", "poll", "teardown"}
  \/ k.sem = "rd" /\ k.at = "wait" /\ k.then.at \in {"bytes", "found"}
  \/ k.sem = "wr" /\ k.at = "take" /\ k.then.at = "again"
  \/ k.sem \in Thread /\ k.at = "take" /\ k.then.at = "polled"

PlaceInv(k) ==
  /\ k.at \in {"wait", "take"} => WaitPlace(k)
  /\ k.at = "wait" => k.else.at \in {"user", "fail", "error"}
  /\ k.at \in {"test", "post"} =>
       k.sem \in {"rd", "wr"} /\ k.then.at \in {"opened", "closed", "readend", "writeend", "full"}

\* The holder of d_bfsem; a post may have given it to a thread that has not
\* run since.
Holds(t) ==
  \/ pc[t].at \in Holding
  \/ pc[t].at \in {"wait", "take"} /\ pc[t].sem = "bf" /\ t \notin sem["bf"].q /\ res[t] = "OK"

\* A thread at k in the queue of x, or at k with the result r of its last wait.
Queues(k, x, r) == k.at \in {"wait", "take"} /\ k.sem = x /\ r = "OK"
Stands(k, r) == PlaceInv(k) /\ (k.at = "take" /\ k.sem = "wr" => r = "OK")

SemType ==
  /\ sem \in [Sem -> SemRecord] /\ res \in [Thread -> {"OK", "EINTR"}] /\ slots \subseteq Thread
  /\ \A s \in {"bf", "rd", "wr"} : sem[s].cnt > 0 => sem[s].q = {}

SemInv ==
  /\ SemType
  /\ \A s \in Sem : \A t \in sem[s].q : Queues(pc[t], s, res[t])
  /\ \A t \in Thread : Stands(pc[t], res[t])

\* One thread holds d_bfsem, or its count is there.
HoldInv ==
  /\ \A t, u \in Thread : Holds(t) /\ Holds(u) => t = u
  /\ sem["bf"].cnt > 0 => sem["bf"].cnt = 1 /\ \A t \in Thread : ~Holds(t)

\* A thread on its way to a sleep has the CPU, and still has its reason to
\* sleep: with c = cpu, n = d_nwriters and u bytes in the pipe.
Reasoned(k, t, c, n, u) ==
  /\ k.at \in Bridge => c = t
  /\ k.at = "empty" => u = 0 /\ n > 0
  /\ k.at = "first" => n < 1
  /\ k.at \in {"full", "room"} => u = Size - 1
  /\ k.at \in {"test", "post"} /\ k.then.at = "full" => u = Size - 1

BridgeInv == nwriters \in Int /\ \A t \in Thread : Reasoned(pc[t], t, cpu, nwriters, Used)

SInv == IInv /\ SemInv /\ HoldInv /\ BridgeInv /\ NoSleeperForgotten

\* The thread t goes from its place to k, and the others stay where they are.
Goes(t, k) == pc'[t] = k /\ \A u \in Thread : u # t => pc'[u] = pc[u]

\* The steps are first-order, except where they cite SMT.
USE Zenon

\* The semaphores of the pipe are three.
LEMMA SemNames ==
  /\ "bf" \in Sem /\ "rd" \in Sem /\ "wr" \in Sem /\ Thread \subseteq Sem
  /\ \A s \in Thread : s # "bf" /\ s # "rd" /\ s # "wr"
BY PipeAssumption

\* A step of t.
LEMMA MoveGoes ==
  ASSUME IInv, NEW t \in Thread, NEW k, Move(t, k)
  PROVE  Goes(t, k)
BY DEF IInv, StageInv, Move, Goes

\* Whether another thread holds d_bfsem.
LEMMA HoldsSame ==
  ASSUME NEW u, pc'[u] = pc[u], res'[u] = res[u], u \in sem'["bf"].q <=> u \in sem["bf"].q
  PROVE  Holds(u)' <=> Holds(u)
BY DEF Holds

\* A step of t that leaves the semaphores alone.
MovesOn(t, k) ==
  /\ Goes(t, k) /\ ~Blocked(t) /\ slots' = slots
  /\ k.at \notin {"wait", "take"} /\ PlaceInv(k) /\ (k.at \in Holding <=> Holds(t))
  /\ UNCHANGED <<sem, res>>

\* Such a step keeps the semaphores in order.
LEMMA SemMoves ==
  ASSUME SemInv, HoldInv, NEW t \in Thread, NEW k, MovesOn(t, k)
  PROVE  SemInv' /\ HoldInv'
<1> sem' = sem /\ res' = res /\ slots' = slots
  BY DEF MovesOn
<1> pc'[t] = k /\ \A u \in Thread : u # t => pc'[u] = pc[u]
  BY DEF MovesOn, Goes
<1>3. \A s \in Sem : \A u \in sem[s].q : u \in Thread /\ u # t
  <2>1. \A y \in SemRecord : y.q \subseteq Thread
    BY DEF SemRecord
  <2> QED
    BY <2>1 DEF Blocked, MovesOn, SemInv, SemType
<1>4. SemInv'
  <2>1. \A s \in Sem : \A u \in sem'[s].q : Queues(pc'[u], s, res'[u])
    BY <1>3 DEF SemInv
  <2>2. Stands(k, res'[t])
    BY DEF MovesOn, Stands
  <2>3. \A u \in Thread : Stands(pc'[u], res'[u])
    BY <2>2 DEF SemInv
  <2>4. SemType'
    BY DEF SemInv, SemType
  <2> QED
    BY <2>1, <2>3, <2>4 DEF SemInv
<1>5. \A u \in Thread : Holds(u)' <=> Holds(u)
  <2> TAKE u \in Thread
  <2>1. CASE u = t
    BY <2>1 DEF Holds, MovesOn
  <2>2. CASE u # t
    BY <2>2, HoldsSame
  <2> QED
    BY <2>1, <2>2
<1>6. HoldInv'
  BY <1>5 DEF HoldInv
<1> QED
  BY <1>4, <1>6

\* A step of t that takes a count of s and goes on at k, or waits at x.
WaitsFor(t, s, k, x) ==
  /\ SemWait(t, s) /\ Goes(t, IF sem[s].cnt > 0 THEN k ELSE x) /\ ~Blocked(t) /\ slots' = slots
  /\ PlaceInv(k) /\ k.at \notin {"wait", "take"} /\ (k.at \in Holding <=> s = "bf")
  /\ PlaceInv(x) /\ x.at \in {"wait", "take"} /\ x.sem = s
  /\ ~Holds(t)

\* sem_wait() takes a count of s, or puts t into its queue.
LEMMA SemWaitEffect ==
  ASSUME sem \in [Sem -> SemRecord], res \in [Thread -> {"OK", "EINTR"}],
         NEW t \in Thread, NEW s \in Sem, SemWait(t, s)
  PROVE  /\ sem' \in [Sem -> SemRecord] /\ res' \in [Thread -> {"OK", "EINTR"}]
         /\ \A r \in Sem : r # s => sem'[r] = sem[r]
         /\ \/ sem[s].cnt > 0 /\ sem'[s].cnt = sem[s].cnt - 1 /\ sem'[s].q = sem[s].q
            \/ ~(sem[s].cnt > 0) /\ sem'[s].cnt = sem[s].cnt /\ sem'[s].q = sem[s].q \cup {t}
         /\ res'[t] = "OK" /\ \A u \in Thread : u # t => res'[u] = res[u]
<1>1. sem[s] \in [cnt : Nat, q : SUBSET Thread]
  BY DEF SemRecord
<1>2. CASE sem[s].cnt > 0
  <2>1. sem' = [sem EXCEPT ![s] = Taken(sem[s])]
    BY <1>2 DEF SemWait, Waited
  <2>2. /\ Taken(sem[s]) \in SemRecord
        /\ Taken(sem[s]).cnt = sem[s].cnt - 1 /\ Taken(sem[s]).q = sem[s].q
    BY <1>1, <1>2, SMT DEF Taken, SemRecord
  <2> QED
    BY <1>2, <2>1, <2>2 DEF SemWait
<1>3. CASE ~(sem[s].cnt > 0)
  <2>1. sem' = [sem EXCEPT ![s] = Queued(sem[s], t)]
    BY <1>3 DEF SemWait, Waited
  <2>2. /\ Queued(sem[s], t) \in SemRecord
        /\ Queued(sem[s], t).cnt = sem[s].cnt /\ Queued(sem[s], t).q = sem[s].q \cup {t}
    BY <1>1 DEF Queued, SemRecord
  <2> QED
    BY <1>3, <2>1, <2>2 DEF SemWait
<1> QED
  BY <1>2, <1>3

\* What a post makes of a semaphore.
LEMMA PostedEffect ==
  ASSUME NEW x \in SemRecord, NEW y \in Posted(x)
  PROVE  /\ y \in SemRecord
         /\ \/ x.q = {} /\ y.cnt = x.cnt + 1 /\ y.q = {}
            \/ \E w \in x.q : y.cnt = x.cnt /\ y.q = x.q \ {w}
<1>1. CASE x.q = {}
  <2>1. y = [x EXCEPT !.cnt = x.cnt + 1]
    BY <1>1 DEF Posted
  <2> QED
    BY <1>1, <2>1, SMT DEF SemRecord
<1>2. CASE x.q # {}
  <2>1. PICK w \in x.q : y = [x EXCEPT !.q = x.q \ {w}]
    BY <1>2 DEF Posted
  <2> QED
    BY <1>2, <2>1 DEF SemRecord
<1> QED
  BY <1>1, <1>2

\* sem_post() adds a count to s, or takes one thread out of its queue.
LEMMA SemPostEffect ==
  ASSUME sem \in [Sem -> SemRecord], NEW s \in Sem, SemPost(s)
  PROVE  /\ sem' \in [Sem -> SemRecord]
         /\ \A r \in Sem : r # s => sem'[r] = sem[r]
         /\ \/ sem[s].q = {} /\ sem'[s].cnt = sem[s].cnt + 1 /\ sem'[s].q = {}
            \/ \E w \in sem[s].q : sem'[s].cnt = sem[s].cnt /\ sem'[s].q = sem[s].q \ {w}
         /\ res' = res
<1>1. PICK x \in Posted(sem[s]) : sem' = [sem EXCEPT ![s] = x]
  BY DEF SemPost
<1>2. /\ x \in SemRecord
      /\ \/ sem[s].q = {} /\ x.cnt = sem[s].cnt + 1 /\ x.q = {}
         \/ \E w \in sem[s].q : x.cnt = sem[s].cnt /\ x.q = sem[s].q \ {w}
  BY PostedEffect
<1> QED
  BY <1>1, <1>2 DEF SemPost

\* The end of a wait takes t out of the queue of one semaphore.
LEMMA SemEndEffect ==
  ASSUME sem \in [Sem -> SemRecord], res \in [Thread -> {"OK", "EINTR"}],
         NEW t \in Thread, SemEnd(t, "EINTR")
  PROVE  /\ sem' \in [Sem -> SemRecord] /\ res' \in [Thread -> {"OK", "EINTR"}]
         /\ \E s \in Sem : /\ t \in sem[s].q
                           /\ \A r \in Sem : r # s => sem'[r] = sem[r]
                           /\ sem'[s].cnt = sem[s].cnt /\ sem'[s].q = sem[s].q \ {t}
         /\ res'[t] = "EINTR" /\ \A u \in Thread : u # t => res'[u] = res[u]
<1>1. PICK s \in Sem : t \in sem[s].q /\ sem' = [sem EXCEPT ![s] = [sem[s] EXCEPT !.q = sem[s].q \ {t}]]
  BY DEF SemEnd
<1>2. /\ [sem[s] EXCEPT !.q = sem[s].q \ {t}] \in SemRecord
      /\ [sem[s] EXCEPT !.q = sem[s].q \ {t}].cnt = sem[s].cnt
      /\ [sem[s] EXCEPT !.q = sem[s].q \ {t}].q = sem[s].q \ {t}
  BY DEF SemRecord
<1> QED
  BY <1>1, <1>2 DEF SemEnd

\* A wait keeps the semaphores in order.
LEMMA SemWaits ==
  ASSUME SemInv, HoldInv, NEW t \in Thread, NEW s \in Sem, NEW k, NEW x, WaitsFor(t, s, k, x)
  PROVE  SemInv' /\ HoldInv'
<1> /\ sem' \in [Sem -> SemRecord] /\ res' \in [Thread -> {"OK", "EINTR"}]
    /\ \A y \in Sem : y # s => sem'[y] = sem[y]
    /\ sem[s].cnt > 0 => sem'[s].cnt = sem[s].cnt - 1 /\ sem'[s].q = sem[s].q
    /\ ~(sem[s].cnt > 0) => sem'[s].cnt = sem[s].cnt /\ sem'[s].q = sem[s].q \cup {t}
    /\ res'[t] = "OK" /\ \A u \in Thread : u # t => res'[u] = res[u]
  <2>1. sem \in [Sem -> SemRecord] /\ res \in [Thread -> {"OK", "EINTR"}] /\ SemWait(t, s)
    BY DEF WaitsFor, SemInv, SemType
  <2> QED
    BY <2>1, SemWaitEffect
<1> \A u \in Thread : u # t => pc'[u] = pc[u]
  BY DEF WaitsFor, Goes
<1> \A y \in Sem : t \notin sem[y].q /\ sem[y].q \subseteq Thread /\ sem[y].cnt \in Nat
  <2>1. \A y \in SemRecord : y.q \subseteq Thread /\ y.cnt \in Nat
    BY DEF SemRecord
  <2> QED
    BY <2>1 DEF Blocked, WaitsFor, SemInv, SemType
<1> "bf" \in Sem /\ "rd" \in Sem /\ "wr" \in Sem
  BY SemNames
<1>5. SemType'
  <2>1. \A y \in {"bf", "rd", "wr"} : sem[y].cnt > 0 => sem[y].q = {}
    BY DEF SemInv, SemType
  <2>2. \A y \in {"bf", "rd", "wr"} : sem'[y].cnt > 0 => sem'[y].q = {}
    <3> TAKE y \in {"bf", "rd", "wr"}
    <3>1. CASE y # s
      BY <2>1, <3>1
    <3>2. CASE y = s /\ sem[s].cnt > 0
      BY <2>1, <3>2
    <3>3. CASE y = s /\ ~(sem[s].cnt > 0)
      BY <3>3
    <3> QED
      BY <3>1, <3>2, <3>3
  <2>3. slots' \subseteq Thread
    BY DEF WaitsFor, SemInv, SemType
  <2> QED
    BY <2>2, <2>3 DEF SemType
<1>6. ASSUME NEW y \in Sem, NEW u \in sem'[y].q, u # t
      PROVE  u \in Thread /\ Queues(pc'[u], y, res'[u])
  <2>1. u \in sem[y].q
    BY <1>6
  <2> QED
    BY <1>6, <2>1 DEF SemInv
<1>7. \A u \in Thread : u # t => Stands(pc'[u], res'[u])
  BY DEF SemInv
<1> \A u \in Thread : u # t => (Holds(u)' <=> Holds(u))
  <2> TAKE u \in Thread
  <2> HAVE u # t
  <2>1. u \in sem'["bf"].q <=> u \in sem["bf"].q
    OBVIOUS
  <2> QED
    BY <2>1, HoldsSame
<1>9. CASE sem[s].cnt > 0
  <2>1. pc'[t] = k /\ PlaceInv(k) /\ k.at \notin {"wait", "take"} /\ (k.at \in Holding <=> s = "bf")
    BY <1>9 DEF WaitsFor, Goes
  <2>2. \A y \in Sem : t \notin sem'[y].q
    BY <1>9
  <2>3. SemInv'
    <3>1. ASSUME NEW y \in Sem, NEW u \in sem'[y].q
          PROVE  Queues(pc'[u], y, res'[u])
      <4>1. u # t
        BY <2>2, <3>1, Zenon
      <4> QED
        BY <1>6, <3>1, <4>1, Zenon
    <3>2. Stands(pc'[t], res'[t])
      <4>1. Stands(k, res'[t])
        BY <2>1, Zenon DEF Stands
      <4> QED
        BY <2>1, <4>1, Zenon
    <3>3. \A u \in Thread : Stands(pc'[u], res'[u])
      BY <1>7, <3>2, Zenon
    <3> QED
      BY <1>5, <3>1, <3>3, Zenon DEF SemInv
  <2>4. Holds(t)' <=> s = "bf"
    BY <2>1 DEF Holds
  <2>5. CASE s = "bf"
    <3>1. sem["bf"].cnt = 1 /\ \A u \in Thread : ~Holds(u)
      BY <1>9, <2>5 DEF HoldInv
    <3>2. sem'["bf"].cnt = 0
      BY <1>9, <2>5, <3>1, SMTT(30)
    <3> QED
      BY <2>3, <3>1, <3>2, SMTT(30) DEF HoldInv
  <2>6. CASE s # "bf"
    BY <2>3, <2>4, <2>6 DEF HoldInv
  <2> QED
    BY <2>5, <2>6
<1>10. CASE ~(sem[s].cnt > 0)
  <2>1. pc'[t] = x /\ PlaceInv(x) /\ x.at \in {"wait", "take"} /\ x.sem = s
    BY <1>10 DEF WaitsFor, Goes
  <2>2. t \in sem'[s].q /\ \A y \in Sem : y # s => t \notin sem'[y].q
    BY <1>10
  <2>3. Queues(pc'[t], s, res'[t]) /\ Stands(pc'[t], res'[t])
    BY <2>1 DEF Queues, Stands
  <2>4. SemInv'
    BY <1>5, <1>6, <1>7, <2>2, <2>3 DEF SemInv
  <2>5. ~Holds(t)'
    BY <2>1, <2>2 DEF Holds, Holding
  <2>6. sem'["bf"].cnt = sem["bf"].cnt
    BY <1>10
  <2> QED
    BY <2>4, <2>5, <2>6 DEF HoldInv, WaitsFor
<1> QED
  BY <1>9, <1>10

\* A step of t that gives d_bfsem and goes on at k; it may post to threads
\* that poll.
GivesBf(t, k) ==
  /\ Goes(t, k) /\ pc[t].at \in Holding /\ ~Blocked(t) /\ slots' \subseteq Thread
  /\ k.at \notin Holding /\ k.at \notin {"wait", "take"}
  /\ sem' \in [Sem -> SemRecord] /\ sem'["bf"] \in Posted(sem["bf"])
  /\ \A s \in Sem : sem'[s].q \subseteq sem[s].q
  /\ sem'["rd"] = sem["rd"] /\ sem'["wr"] = sem["wr"] /\ UNCHANGED res

\* Such a step keeps the semaphores in order.
LEMMA SemGives ==
  ASSUME SemInv, HoldInv, NEW t \in Thread, NEW k, GivesBf(t, k)
  PROVE  SemInv' /\ HoldInv'
<1> pc'[t] = k /\ \A u \in Thread : u # t => pc'[u] = pc[u]
  BY DEF GivesBf, Goes
<1> /\ sem' \in [Sem -> SemRecord] /\ res' = res /\ slots' \subseteq Thread
    /\ \A s \in Sem : sem'[s].q \subseteq sem[s].q
    /\ sem'["rd"] = sem["rd"] /\ sem'["wr"] = sem["wr"]
  BY DEF GivesBf
<1>3. "bf" \in Sem /\ "rd" \in Sem /\ "wr" \in Sem
  BY SemNames
<1>4. \A y \in Sem : t \notin sem[y].q /\ sem[y].q \subseteq Thread
  <2>1. \A y \in SemRecord : y.q \subseteq Thread
    BY DEF SemRecord
  <2> QED
    BY <2>1 DEF Blocked, GivesBf, SemInv, SemType
<1>5. Holds(t)
  BY DEF Holds, GivesBf
<1>6. ~(sem["bf"].cnt > 0) /\ sem["bf"] \in SemRecord
  BY <1>3, <1>5 DEF HoldInv, SemInv, SemType
<1>7. \/ sem["bf"].q = {} /\ sem'["bf"].cnt = sem["bf"].cnt + 1 /\ sem'["bf"].q = {}
      \/ \E w \in sem["bf"].q : sem'["bf"].cnt = sem["bf"].cnt /\ sem'["bf"].q = sem["bf"].q \ {w}
  BY <1>6, PostedEffect DEF GivesBf
<1> sem'["bf"].cnt > 0 => sem'["bf"].cnt = 1 /\ sem'["bf"].q = {} /\ sem["bf"].q = {}
  <2>1. sem["bf"].cnt = 0
    BY <1>6, SMT DEF SemRecord
  <2> QED
    BY <1>7, <2>1, SMT
<1>9. SemInv'
  <2>1. \A s \in {"bf", "rd", "wr"} : sem'[s].cnt > 0 => sem'[s].q = {}
    BY DEF SemInv, SemType
  <2>2. SemType'
    BY <2>1 DEF SemInv, SemType
  <2>3. \A s \in Sem : \A u \in sem'[s].q : Queues(pc'[u], s, res'[u])
    <3> TAKE s \in Sem
    <3> TAKE u \in sem'[s].q
    <3>1. u \in sem[s].q /\ u \in Thread /\ u # t
      BY <1>4
    <3> QED
      BY <3>1 DEF SemInv
  <2>4. Stands(k, res'[t])
    BY DEF GivesBf, Stands, PlaceInv, Holding
  <2>5. \A u \in Thread : Stands(pc'[u], res'[u])
    BY <2>4 DEF SemInv
  <2> QED
    BY <2>2, <2>3, <2>5 DEF SemInv
<1>10. ~Holds(t)'
  BY DEF Holds, GivesBf
<1>11. \A u \in Thread : u # t => ~Holds(u)
  BY <1>5 DEF HoldInv
<1>12. CASE sem["bf"].q = {}
  <2>1. \A u \in Thread : u # t => (Holds(u)' <=> Holds(u))
    <3>1. \A u : u \notin sem'["bf"].q /\ u \notin sem["bf"].q
      BY <1>3, <1>12
    <3> QED
      BY <3>1, HoldsSame
  <2> QED
    BY <1>9, <1>10, <1>11, <2>1 DEF HoldInv
<1>13. CASE sem["bf"].q # {}
  <2>1. PICK w \in sem["bf"].q : sem'["bf"].q = sem["bf"].q \ {w}
    BY <1>7, <1>13
  <2>2. \A u \in Thread : u # t /\ u # w => (Holds(u)' <=> Holds(u))
    <3> TAKE u \in Thread
    <3> HAVE u # t /\ u # w
    <3>1. u \in sem'["bf"].q <=> u \in sem["bf"].q
      BY <2>1
    <3> QED
      BY <3>1, HoldsSame
  <2>3. ~(sem'["bf"].cnt > 0)
    BY <1>13
  <2> QED
    BY <1>9, <1>10, <1>11, <2>2, <2>3 DEF HoldInv
<1> QED
  BY <1>12, <1>13

\* A step of t in a loop that posts s.
PostsTo(t, s, k) ==
  /\ Goes(t, k) /\ pc[t].at \in Holding /\ k.at \in Holding /\ PlaceInv(k) /\ ~Blocked(t)
  /\ s \in {"rd", "wr"} /\ SemPost(s) /\ slots' = slots

\* Such a step keeps the semaphores in order.
LEMMA SemPosts ==
  ASSUME SemInv, HoldInv, NEW t \in Thread, NEW s, NEW k, PostsTo(t, s, k)
  PROVE  SemInv' /\ HoldInv' /\ \A y \in Sem : sem'[y].q \subseteq sem[y].q
<1> pc'[t] = k /\ \A u \in Thread : u # t => pc'[u] = pc[u]
  BY DEF PostsTo, Goes
<1> "bf" \in Sem /\ "rd" \in Sem /\ "wr" \in Sem
  BY SemNames
<1> s \in Sem /\ s # "bf" /\ SemPost(s) /\ slots' = slots
  BY DEF PostsTo
<1>4. sem \in [Sem -> SemRecord] /\ slots \subseteq Thread
  BY DEF SemInv, SemType
<1> /\ sem' \in [Sem -> SemRecord]
    /\ \A r \in Sem : r # s => sem'[r] = sem[r]
    /\ \/ sem[s].q = {} /\ sem'[s].cnt = sem[s].cnt + 1 /\ sem'[s].q = {}
       \/ \E w \in sem[s].q : sem'[s].cnt = sem[s].cnt /\ sem'[s].q = sem[s].q \ {w}
    /\ res' = res
  BY <1>4, SemPostEffect
<1>6. \A y \in Sem : sem'[y].q \subseteq sem[y].q
  OBVIOUS
<1>7. \A y \in Sem : t \notin sem[y].q /\ sem[y].q \subseteq Thread
  <2>1. \A y \in SemRecord : y.q \subseteq Thread
    BY DEF SemRecord
  <2> QED
    BY <2>1 DEF Blocked, PostsTo, SemInv, SemType
<1>8. SemInv'
  <2>1. \A y \in {"bf", "rd", "wr"} : sem'[y].cnt > 0 => sem'[y].q = {}
    BY DEF SemInv, SemType
  <2>2. SemType'
    BY <1>4, <2>1 DEF SemInv, SemType
  <2>3. \A y \in Sem : \A u \in sem'[y].q : Queues(pc'[u], y, res'[u])
    <3> TAKE y \in Sem
    <3> TAKE u \in sem'[y].q
    <3>1. u \in sem[y].q /\ u \in Thread /\ u # t
      BY <1>6, <1>7
    <3> QED
      BY <3>1 DEF SemInv
  <2>4. Stands(k, res'[t])
    BY DEF PostsTo, Stands, Holding
  <2>5. \A u \in Thread : Stands(pc'[u], res'[u])
    BY <2>4 DEF SemInv
  <2> QED
    BY <2>2, <2>3, <2>5 DEF SemInv
<1>9. \A u \in Thread : Holds(u)' <=> Holds(u)
  <2> TAKE u \in Thread
  <2>1. CASE u = t
    BY <2>1 DEF Holds, PostsTo
  <2>2. CASE u # t
    <3>1. sem'["bf"] = sem["bf"]
      OBVIOUS
    <3> QED
      BY <2>2, <3>1, HoldsSame
  <2> QED
    BY <2>1, <2>2
<1>10. HoldInv'
  BY <1>9 DEF HoldInv
<1> QED
  BY <1>6, <1>8, <1>10

\* A signal ends the wait of t.
LEMMA SemSignals ==
  ASSUME SemInv, HoldInv, NEW t \in Thread, SemEnd(t, "EINTR"), UNCHANGED <<pc, slots>>,
         pc[t].sem # "wr"
  PROVE  SemInv' /\ HoldInv' /\ \A y \in Sem : sem'[y].q \subseteq sem[y].q
<1> sem \in [Sem -> SemRecord] /\ res \in [Thread -> {"OK", "EINTR"}] /\ slots \subseteq Thread
  BY DEF SemInv, SemType
<1> /\ sem' \in [Sem -> SemRecord] /\ res' \in [Thread -> {"OK", "EINTR"}]
    /\ \E s \in Sem : /\ t \in sem[s].q
                      /\ \A r \in Sem : r # s => sem'[r] = sem[r]
                      /\ sem'[s].cnt = sem[s].cnt /\ sem'[s].q = sem[s].q \ {t}
    /\ res'[t] = "EINTR" /\ \A u \in Thread : u # t => res'[u] = res[u]
  BY SemEndEffect
<1>3. PICK s \in Sem : /\ t \in sem[s].q
                       /\ \A r \in Sem : r # s => sem'[r] = sem[r]
                       /\ sem'[s].cnt = sem[s].cnt /\ sem'[s].q = sem[s].q \ {t}
  OBVIOUS
<1> \A y \in Sem : sem'[y].q \subseteq sem[y].q
  BY <1>3
<1>5. \A y \in Sem : t \notin sem'[y].q
  <2> SUFFICES ASSUME NEW y \in Sem, t \in sem'[y].q PROVE FALSE
    OBVIOUS
  <2>1. y # s
    BY <1>3
  <2>2. t \in sem[y].q
    BY <1>3, <2>1
  <2>3. \A r \in Sem : t \in sem[r].q => pc[t].sem = r
    BY DEF SemInv, Queues
  <2>4. pc[t].sem = s /\ pc[t].sem = y
    BY <1>3, <2>2, <2>3
  <2> QED
    BY <2>1, <2>4
<1>6. SemInv'
  <2>1. \A y \in {"bf", "rd", "wr"} : sem'[y].cnt > 0 => sem'[y].q = {}
    <3> TAKE y \in {"bf", "rd", "wr"}
    <3>1. y \in Sem /\ (sem[y].cnt > 0 => sem[y].q = {})
      BY SemNames DEF SemInv, SemType
    <3>2. sem'[y].cnt = sem[y].cnt /\ sem'[y].q \subseteq sem[y].q
      BY <1>3, <3>1
    <3> QED
      BY <3>1, <3>2
  <2>2. SemType'
    BY <2>1 DEF SemType
  <2>3. \A y \in Sem : \A u \in sem'[y].q : Queues(pc'[u], y, res'[u])
    <3> TAKE y \in Sem
    <3> TAKE u \in sem'[y].q
    <3>1. u \in sem[y].q /\ u # t
      BY <1>5
    <3>2. u \in Thread
      <4>1. \A x \in SemRecord : x.q \subseteq Thread
        BY DEF SemRecord
      <4> QED
        BY <3>1, <4>1
    <3> QED
      BY <3>1, <3>2 DEF SemInv
  <2>4. Stands(pc[t], res'[t])
    BY DEF SemInv, Stands
  <2>5. \A u \in Thread : Stands(pc'[u], res'[u])
    BY <2>4 DEF SemInv
  <2> QED
    BY <2>2, <2>3, <2>5 DEF SemInv
<1>7. \A u \in Thread : Holds(u)' => Holds(u)
  <2> TAKE u \in Thread
  <2>1. CASE u = t
    <3>1. pc[t].at \notin Holding
      BY <1>3 DEF SemInv, Queues, Holding
    <3> QED
      BY <2>1, <3>1 DEF Holds
  <2>2. CASE u # t
    <3>1. u \in sem'["bf"].q <=> u \in sem["bf"].q
      BY <1>3, <2>2, SemNames
    <3> QED
      BY <2>2, <3>1, HoldsSame
  <2> QED
    BY <2>1, <2>2
<1>8. sem'["bf"].cnt = sem["bf"].cnt
  BY <1>3, SemNames
<1>9. HoldInv'
  BY <1>7, <1>8 DEF HoldInv
<1> QED
  BY <1>6, <1>9

-----------------------------------------------------------------------------
(* Reasons to sleep, and wake-ups.                                         *)

\* Nobody but a thread that runs is on its way to a sleep.
LEMMA NoBridge ==
  ASSUME SemInv, BridgeInv, NEW t \in Thread, Runs(t), NEW u \in Thread, u # t
  PROVE  pc[u].at \notin Bridge
<1> SUFFICES ASSUME pc[u].at \in Bridge PROVE FALSE
  OBVIOUS
<1>1. cpu = u
  BY DEF BridgeInv, Reasoned
<1>2. ~Blocked(u)
  BY DEF Blocked, SemInv, Queues, Bridge
<1>3. u # NoThread
  BY PipeAssumption
<1> QED
  BY <1>1, <1>2, <1>3 DEF Runs

\* A step of t keeps the reasons of the others: it leaves the pipe alone, or
\* holds d_bfsem.
LEMMA BridgeStep ==
  ASSUME SemInv, HoldInv, BridgeInv, NEW t \in Thread, NEW k, Runs(t), Goes(t, k), nwriters' \in Int,
         UNCHANGED <<wrndx, rdndx, nwriters>> \/ pc[t].at \in Holding,
         Reasoned(k, t, cpu', nwriters', Used')
  PROVE  BridgeInv'
<1>1. pc'[t] = k /\ \A u \in Thread : u # t => pc'[u] = pc[u]
  BY DEF Goes
<1>2. ASSUME NEW u \in Thread, u # t
      PROVE  Reasoned(pc[u], u, cpu', nwriters', Used')
  <2> pc[u].at \notin Bridge
    BY <1>2, NoBridge
  <2>2. pc[u].at \notin {"empty", "first", "room"}
    BY DEF Bridge
  <2>3. Reasoned(pc[u], u, cpu, nwriters, Used)
    BY DEF BridgeInv
  <2>4. CASE UNCHANGED <<wrndx, rdndx, nwriters>>
    <3>1. Used' = Used
      BY <2>4 DEF Used
    <3> QED
      BY <2>2, <2>3, <3>1 DEF Reasoned
  <2>5. CASE pc[t].at \in Holding
    <3>1. pc[u].at \notin Holding
      BY <1>2, <2>5 DEF HoldInv, Holds
    <3>2. pc[u].at \notin {"full", "test", "post"}
      BY <3>1 DEF Holding
    <3> QED
      BY <2>2, <3>2 DEF Reasoned
  <2> QED
    BY <2>4, <2>5
<1> QED
  BY <1>1, <1>2 DEF BridgeInv

\* A thread at k is yet to wake those who sleep on x.
Waker(k, x) ==
  \/ k.at \in {"test", "post"} /\ k.sem = x
  \/ k.at = "write" /\ k.put /\ x = "rd"

\* Those who sleep on x inside the service with the place l are not forgotten
\* in the case of c.
Heard(x, l, c) == \A t \in Thread : Sleeps(t, x, l) /\ c => Wakes(x)

\* The reasons to wake a reader, a writer, and who opens the pipe to read.
Some == Used > 0 \/ nwriters = 0
Room == Used < Size - 1
Opens == nwriters > 0

\* These are the reasons of NoSleeperForgotten.
LEMMA AllHeard ==
  NoSleeperForgotten <=> Heard("rd", "bytes", Some) /\ Heard("wr", "again", Room) /\ Heard("rd", "found", Opens)
BY DEF NoSleeperForgotten, Heard, Some, Room, Opens

\* A step of t to k: those who sleep on x stay heard if t does not add to them
\* without need, wakes them where a need arises (d for the former c), and
\* stops to wake them only when nobody is left.
LEMMA HeardStep ==
  ASSUME NEW x, NEW l, NEW c, NEW d, Heard(x, l, c), NEW t \in Thread, NEW k, Goes(t, k),
         \A u \in Thread : u # t /\ u \in sem'[x].q => u \in sem[x].q,
         t \in sem'[x].q /\ k.at \in {"wait", "take"} /\ k.then.at = l => ~d,
         d => c \/ Waker(k, x),
         Waker(pc[t], x) => Waker(k, x) \/ sem'[x].q = {}
  PROVE  \A u \in Thread : Sleeps(u, x, l)' /\ d => Wakes(x)'
<1> SUFFICES ASSUME NEW u \in Thread, Sleeps(u, x, l)', d PROVE Wakes(x)'
  OBVIOUS
<1> pc'[t] = k /\ \A v \in Thread : v # t => pc'[v] = pc[v]
  BY DEF Goes
<1>2. Waker(k, x) => Wakes(x)'
  BY DEF Waker, Wakes
<1>3. u # t
  BY DEF Sleeps
<1>4. Sleeps(u, x, l) /\ u \in sem'[x].q
  BY <1>3 DEF Sleeps
<1>5. c => Wakes(x)
  BY <1>4 DEF Heard
<1>6. CASE Wakes(x)
  <2>1. PICK v \in Thread : Waker(pc[v], x)
    BY <1>6 DEF Wakes, Waker
  <2>2. CASE v = t
    BY <1>2, <1>4, <2>1, <2>2
  <2>3. CASE v # t
    <3>1. Waker(pc'[v], x)
      BY <2>1, <2>3
    <3> QED
      BY <3>1 DEF Wakes, Waker
  <2> QED
    BY <2>2, <2>3
<1> QED
  BY <1>2, <1>5, <1>6

\* Such a step of a thread that wakes nobody and leaves the pipe alone.
LEMMA HeardSame ==
  ASSUME NoSleeperForgotten, NEW t \in Thread, NEW k, Goes(t, k),
         \A u \in Thread : \A x \in {"rd", "wr"} : u \in sem'[x].q => u # t /\ u \in sem[x].q,
         \A x \in {"rd", "wr"} : Waker(pc[t], x) => Waker(k, x),
         UNCHANGED <<wrndx, rdndx, nwriters>>
  PROVE  NoSleeperForgotten'
<1> /\ \A u \in Thread : u # t /\ u \in sem'["rd"].q => u \in sem["rd"].q
    /\ \A u \in Thread : u # t /\ u \in sem'["wr"].q => u \in sem["wr"].q
    /\ t \notin sem'["rd"].q /\ t \notin sem'["wr"].q
  OBVIOUS
<1>2. Used' = Used /\ Some' = Some /\ Room' = Room /\ Opens' = Opens
  BY DEF Used, Some, Room, Opens
<1> Heard("rd", "bytes", Some) /\ Heard("wr", "again", Room) /\ Heard("rd", "found", Opens)
  BY AllHeard
<1> /\ Waker(pc[t], "rd") => Waker(k, "rd")
    /\ Waker(pc[t], "wr") => Waker(k, "wr")
  OBVIOUS
<1>5. \A u \in Thread : Sleeps(u, "rd", "bytes")' /\ Some => Wakes("rd")'
  BY HeardStep
<1>6. \A u \in Thread : Sleeps(u, "wr", "again")' /\ Room => Wakes("wr")'
  BY HeardStep
<1>7. \A u \in Thread : Sleeps(u, "rd", "found")' /\ Opens => Wakes("rd")'
  BY HeardStep
<1> QED
  BY <1>2, <1>5, <1>6, <1>7 DEF NoSleeperForgotten, Some, Room, Opens

\* A place that makes no claim and wakes nobody.
Idles(k) == k.at \notin Bridge /\ k.at \notin {"full", "test", "post"}

\* Such a place needs no reason.
LEMMA IdlesReasoned ==
  ASSUME NEW k, Idles(k), NEW t, NEW c, NEW n, NEW u
  PROVE  Reasoned(k, t, c, n, u)
BY DEF Idles, Reasoned, Bridge

\* What a thread that wakes others is doing.
LEMMA WakerPlace ==
  ASSUME NEW k, NEW x, k.at \notin {"write", "test", "post"}
  PROVE  ~Waker(k, x)
BY DEF Waker

\* A step that gives d_bfsem.
LEMMA GiveKeeps ==
  ASSUME SInv, IInv', NEW t \in Thread, NEW k, Runs(t), GivesBf(t, k),
         pc[t].at \notin {"write", "test", "post"}, UNCHANGED <<wrndx, rdndx, nwriters>>,
         Reasoned(k, t, cpu', nwriters, Used)
  PROVE  SInv'
<1> SemInv /\ HoldInv /\ BridgeInv /\ NoSleeperForgotten
  BY DEF SInv
<1>2. SemInv' /\ HoldInv'
  BY SemGives
<1>3. Goes(t, k)
  BY DEF GivesBf
<1>4. Used' = Used /\ nwriters' = nwriters /\ nwriters' \in Int
  BY DEF Used, BridgeInv
<1>5. BridgeInv'
  BY <1>3, <1>4, BridgeStep
<1>6. \A x \in {"rd", "wr"} : ~Waker(pc[t], x)
  BY WakerPlace
<1>7. \A u \in Thread : \A x \in {"rd", "wr"} : u \in sem'[x].q => u # t /\ u \in sem[x].q
  <2>1. t \notin sem["rd"].q /\ t \notin sem["wr"].q
    BY SemNames DEF GivesBf, Blocked
  <2> QED
    BY <2>1 DEF GivesBf
<1>8. NoSleeperForgotten'
  BY <1>3, <1>6, <1>7, HeardSame
<1> QED
  BY <1>2, <1>5, <1>8 DEF SInv

\* A step that leaves the semaphores and the pipe alone.
LEMMA MoveKeeps ==
  ASSUME SInv, IInv', NEW t \in Thread, NEW k, Runs(t), MovesOn(t, k),
         pc[t].at \notin {"write", "test", "post"}, UNCHANGED <<wrndx, rdndx, nwriters>>,
         Idles(k)
  PROVE  SInv'
<1> SemInv /\ HoldInv /\ BridgeInv /\ NoSleeperForgotten
  BY DEF SInv
<1>2. SemInv' /\ HoldInv'
  BY SemMoves
<1>3. Goes(t, k)
  BY DEF MovesOn
<1>4. Used' = Used /\ nwriters' = nwriters /\ nwriters' \in Int
  BY DEF Used, BridgeInv
<1>5. BridgeInv'
  BY <1>3, <1>4, BridgeStep, IdlesReasoned
<1>6. \A x \in {"rd", "wr"} : ~Waker(pc[t], x)
  BY WakerPlace
<1>7. \A u \in Thread : \A x \in {"rd", "wr"} : u \in sem'[x].q => u # t /\ u \in sem[x].q
  BY SemNames DEF MovesOn, Blocked
<1>8. NoSleeperForgotten'
  BY <1>3, <1>6, <1>7, HeardSame
<1> QED
  BY <1>2, <1>5, <1>8 DEF SInv

\* A step that takes d_bfsem or waits for it.
LEMMA BfKeeps ==
  ASSUME SInv, IInv', NEW t \in Thread, NEW k, NEW x, Runs(t), WaitsFor(t, "bf", k, x),
         Idles(k), UNCHANGED <<wrndx, rdndx, nwriters>>
  PROVE  SInv'
<1> DEFINE y == IF sem["bf"].cnt > 0 THEN k ELSE x
<1> SemInv /\ HoldInv /\ BridgeInv /\ NoSleeperForgotten
  BY DEF SInv
<1>2. SemInv' /\ HoldInv'
  BY SemNames, SemWaits
<1>3. Goes(t, y)
  BY DEF WaitsFor
<1>4. Used' = Used /\ nwriters' = nwriters /\ nwriters' \in Int
  BY DEF Used, BridgeInv
<1>5. Idles(y)
  BY DEF Idles, WaitsFor, Bridge
<1>6. pc[t].at \notin {"write", "test", "post"}
  BY DEF WaitsFor, Holds, Holding
<1> HIDE DEF y
<1>7. BridgeInv'
  BY <1>3, <1>4, <1>5, BridgeStep, IdlesReasoned
<1>8. \A z \in {"rd", "wr"} : ~Waker(pc[t], z)
  BY <1>6, WakerPlace
<1>9. \A u \in Thread : \A z \in {"rd", "wr"} : u \in sem'[z].q => u # t /\ u \in sem[z].q
  <2>1. t \notin sem["rd"].q /\ t \notin sem["wr"].q
    BY SemNames DEF WaitsFor, Blocked
  <2>2. sem'["rd"] = sem["rd"] /\ sem'["wr"] = sem["wr"]
    <3>1. sem' = [sem EXCEPT !["bf"] = Waited(@, t)] /\ sem \in [Sem -> SemRecord]
      BY DEF WaitsFor, SemWait, SemInv, SemType
    <3> QED
      BY <3>1, SemNames
  <2> QED
    BY <2>1, <2>2
<1>10. NoSleeperForgotten'
  BY <1>3, <1>4, <1>8, <1>9, HeardSame
<1> QED
  BY <1>2, <1>7, <1>10 DEF SInv

\* A thread goes to sleep on s with the reason that it saw under d_bfsem.
Sleepy(s, k) ==
  /\ s # "bf" /\ k.at \in {"bytes", "found", "again", "polled"}
  /\ s = "rd" => \/ k.at = "bytes" /\ Used = 0 /\ nwriters > 0
                 \/ k.at = "found" /\ nwriters < 1
  /\ s = "wr" => k.at = "again" /\ Used = Size - 1

\* A step that takes a count of such a semaphore or waits for it.
LEMMA SleepKeeps ==
  ASSUME SInv, IInv', NEW t \in Thread, NEW s \in Sem, NEW k, NEW x, Runs(t), WaitsFor(t, s, k, x),
         x.then = k, Sleepy(s, k), UNCHANGED <<wrndx, rdndx, nwriters>>
  PROVE  SInv'
<1> DEFINE y == IF sem[s].cnt > 0 THEN k ELSE x
<1>1. SemInv /\ HoldInv /\ BridgeInv /\ NoSleeperForgotten
  BY DEF SInv
<1>2. SemInv' /\ HoldInv'
  BY <1>1, SemWaits
<1>3. Goes(t, y)
  BY DEF WaitsFor
<1>4. Used' = Used /\ nwriters' = nwriters /\ nwriters' \in Int
  BY <1>1 DEF Used, BridgeInv
<1>5. Idles(y)
  BY DEF Idles, WaitsFor, Bridge, Sleepy
<1>6. pc[t].at \notin {"write", "test", "post"}
  BY DEF WaitsFor, Holds, Holding
<1>7. y.at \in {"wait", "take"} => y = x /\ y.then = k
  BY DEF Sleepy
<1> HIDE DEF y
<1>8. BridgeInv'
  BY <1>1, <1>3, <1>4, <1>5, BridgeStep, IdlesReasoned
<1>9. ~Waker(pc[t], "rd") /\ ~Waker(pc[t], "wr")
  BY <1>6, WakerPlace
<1>10. \A z \in Sem : t \notin sem[z].q
  BY DEF WaitsFor, Blocked
<1>11. /\ \A z \in Sem : z # s => sem'[z] = sem[z]
       /\ sem'[s].q \subseteq sem[s].q \cup {t}
  <2>1. sem \in [Sem -> SemRecord] /\ res \in [Thread -> {"OK", "EINTR"}] /\ SemWait(t, s)
    BY <1>1 DEF WaitsFor, SemInv, SemType
  <2> QED
    BY <2>1, SemWaitEffect
<1>12. /\ \A u \in Thread : u # t /\ u \in sem'["rd"].q => u \in sem["rd"].q
       /\ \A u \in Thread : u # t /\ u \in sem'["wr"].q => u \in sem["wr"].q
       /\ t \in sem'["rd"].q => s = "rd"
       /\ t \in sem'["wr"].q => s = "wr"
  BY <1>10, <1>11, SemNames
<1>13. /\ s = "rd" /\ k.at = "bytes" => ~Some
       /\ s = "wr" => ~Room
       /\ s = "rd" /\ k.at = "found" => ~Opens
  <2>1. nwriters \in Int /\ Size \in Int
    BY <1>1, PipeAssumption, SMT DEF BridgeInv
  <2> QED
    BY <2>1, SMT DEF Sleepy, Some, Room, Opens
<1>14. Heard("rd", "bytes", Some) /\ Heard("wr", "again", Room) /\ Heard("rd", "found", Opens)
  BY <1>1, AllHeard
<1>15. \A u \in Thread : Sleeps(u, "rd", "bytes")' /\ Some => Wakes("rd")'
  BY <1>3, <1>7, <1>9, <1>12, <1>13, <1>14, HeardStep
<1>16. \A u \in Thread : Sleeps(u, "wr", "again")' /\ Room => Wakes("wr")'
  BY <1>3, <1>7, <1>9, <1>12, <1>13, <1>14, HeardStep
<1>17. \A u \in Thread : Sleeps(u, "rd", "found")' /\ Opens => Wakes("rd")'
  BY <1>3, <1>7, <1>9, <1>12, <1>13, <1>14, HeardStep
<1>18. NoSleeperForgotten'
  BY <1>4, <1>15, <1>16, <1>17 DEF NoSleeperForgotten, Some, Room, Opens
<1> QED
  BY <1>2, <1>8, <1>18 DEF SInv

\* The places of waits.
TakeAt(s, k) == [at |-> "take", sem |-> s, then |-> k]
WaitAt(s, k, e) == [at |-> "wait", sem |-> s, then |-> k, else |-> e]

\* The place after d_bfsem was taken.
BfPlace == {"open", "close", "read", "write", "poll", "teardown"}

\* pthread_takesemaphore() in the form of WaitsFor.
LEMMA TakeForm ==
  ASSUME SInv, NEW t \in Thread, NEW s \in Sem, NEW k, Runs(t), Take(t, s, k), ~Holds(t), slots' = slots,
         \/ s = "bf" /\ k.at \in BfPlace
         \/ s = "wr" /\ k.at = "again"
         \/ s \in Thread /\ k.at = "polled"
  PROVE  WaitsFor(t, s, k, TakeAt(s, k)) /\ TakeAt(s, k).then = k
<1> DEFINE x == TakeAt(s, k)
<1> x.at = "take" /\ x.sem = s /\ x.then = k
  BY DEF TakeAt
<1>2. Goes(t, IF sem[s].cnt > 0 THEN k ELSE x)
  BY MoveGoes DEF SInv, Take, TakeAt, Move
<1> HIDE DEF x
<1>3. WaitPlace(x)
  BY DEF WaitPlace, BfPlace
<1>4. PlaceInv(x)
  BY <1>3 DEF PlaceInv
<1>5. PlaceInv(k) /\ k.at \notin {"wait", "take"}
  BY DEF PlaceInv, BfPlace
<1>6. k.at \in Holding <=> s = "bf"
  BY SemNames DEF BfPlace, Holding
<1>7. SemWait(t, s) /\ ~Blocked(t)
  BY DEF Take, Runs
<1> QED
  BY <1>2, <1>4, <1>5, <1>6, <1>7 DEF WaitsFor, x

\* Where sem_wait() goes on.
WaitGoes(s, k, e) ==
  /\ e.at \in {"user", "fail", "error"}
  /\ \/ s = "bf" /\ k.at \in BfPlace
     \/ s = "rd" /\ k.at \in {"bytes", "found"}

\* sem_wait() in the form of WaitsFor.
LEMMA WaitForm ==
  ASSUME SInv, NEW t \in Thread, NEW s \in Sem, NEW k, NEW e, Runs(t), Wait(t, s, k, e), ~Holds(t),
         slots' = slots, WaitGoes(s, k, e)
  PROVE  WaitsFor(t, s, k, WaitAt(s, k, e))
<1> DEFINE x == WaitAt(s, k, e)
<1> x.at = "wait" /\ x.sem = s /\ x.then = k /\ x.else = e
  BY DEF WaitAt
<1>2. Goes(t, IF sem[s].cnt > 0 THEN k ELSE x)
  BY MoveGoes DEF SInv, Wait, WaitAt
<1> HIDE DEF x
<1>3. WaitPlace(x)
  BY DEF WaitPlace, BfPlace, WaitGoes
<1>4. PlaceInv(x)
  BY <1>3 DEF PlaceInv, WaitGoes
<1>5. PlaceInv(k) /\ k.at \notin {"wait", "take"}
  BY DEF PlaceInv, BfPlace, WaitGoes
<1>6. k.at \in Holding <=> s = "bf"
  BY DEF BfPlace, Holding, WaitGoes
<1>7. SemWait(t, s) /\ ~Blocked(t)
  BY DEF Wait, Runs
<1> QED
  BY <1>2, <1>4, <1>5, <1>6, <1>7 DEF WaitsFor, x

\* The indices say how many bytes there are.
LEMMA UsedEmpty ==
  ASSUME IInv
  PROVE  /\ Used \in 0..(Size - 1) /\ Size \in Nat /\ Size > 1
         /\ wrndx = rdndx <=> Used = 0
         /\ (wrndx + 1) % Size = rdndx <=> Used = Size - 1
<1>1. wrndx \in Ring /\ rdndx \in Ring
  BY DEF IInv, RingInv
<1> Size \in Nat /\ Size > 1
  BY PipeAssumption, SMT
<1> /\ UsedOf(wrndx, rdndx) = IF wrndx >= rdndx THEN wrndx - rdndx ELSE wrndx + Size - rdndx
    /\ UsedOf(wrndx, rdndx) \in 0..(Size - 1)
  BY <1>1, UsedValue
<1> Used = UsedOf(wrndx, rdndx)
  BY RingContent
<1> wrndx \in Nat /\ wrndx < Size /\ rdndx \in Nat /\ rdndx < Size
  BY <1>1, SMT DEF Ring
<1> DEFINE y == wrndx + 1
<1>6. y \in Int /\ 0 <= y /\ y < Size + Size
  BY SMT
<1>7. Wrap(y) = IF y < Size THEN y ELSE y - Size
  BY <1>6, Wraps
<1>8. Wrap(y) = (wrndx + 1) % Size
  BY DEF Wrap
<1>9. wrndx = rdndx <=> Used = 0
  BY SMT
<1>10. Wrap(y) = rdndx <=> Used = Size - 1
  BY <1>7, SMT
<1> QED
  BY <1>8, <1>9, <1>10

-----------------------------------------------------------------------------
(* The actions again.                                                      *)

\* Variables that a step of the semaphores leaves alone.
LEMMA SameRing ==
  ASSUME UNCHANGED <<ringvars, openvars, pollvars>>
  PROVE  UNCHANGED <<wrndx, rdndx, nwriters, slots>>
BY DEF ringvars, openvars, pollvars

\* The steps that take d_bfsem.
LEMMA TakesBfKeep ==
  ASSUME SInv, IInv', NEW t \in Thread,
         \/ \E m \in Modes : Open(t, m)
         \/ OpenCloses(t) \/ Close(t)
         \/ \E n \in ReadLengths : Read(t, n)
         \/ \E n \in WriteLengths : Write(t, n)
         \/ ReadWakes(t) \/ WriteWakes(t) \/ Polled(t)
         \/ \E e : Poll(t, e)
  PROVE  SInv'
<1>1. ASSUME NEW k, Runs(t), Take(t, "bf", k) \/ (\E e : e.at = "user" /\ Wait(t, "bf", k, e)),
             pc[t].at \in {"user", "fail", "again", "polled", "bytes"}, k.at \in BfPlace,
             UNCHANGED <<wrndx, rdndx, nwriters, slots>>
      PROVE  SInv'
  <2>1. ~Holds(t) /\ slots' = slots /\ "bf" \in Sem
    BY <1>1, SemNames DEF Holds, Holding
  <2>2. Idles(k)
    BY <1>1 DEF Idles, BfPlace, Bridge
  <2>3. CASE Take(t, "bf", k)
    <3>1. WaitsFor(t, "bf", k, TakeAt("bf", k))
      BY <1>1, <2>1, <2>3, TakeForm
    <3> QED
      BY <1>1, <2>2, <3>1, BfKeeps
  <2>4. ASSUME NEW e, e.at = "user", Wait(t, "bf", k, e)
        PROVE  SInv'
    <3>1. WaitGoes("bf", k, e)
      BY <1>1, <2>4 DEF WaitGoes
    <3>2. WaitsFor(t, "bf", k, WaitAt("bf", k, e))
      BY <1>1, <2>1, <2>4, <3>1, WaitForm
    <3> QED
      BY <1>1, <2>2, <3>2, BfKeeps
  <2> QED
    BY <1>1, <2>3, <2>4
<1> At("user").at = "user" /\ "open" \in BfPlace /\ "close" \in BfPlace /\ "read" \in BfPlace
    /\ "write" \in BfPlace /\ "poll" \in BfPlace /\ "teardown" \in BfPlace
  BY DEF At, BfPlace
<1> Calls(t) => pc[t].at = "user" /\ Runs(t)
  BY DEF Calls
<1>4. ASSUME NEW m \in Modes, Open(t, m) PROVE SInv'
  <2>1. [at |-> "open", mode |-> m].at = "open"
    OBVIOUS
  <2>2. pc[t].at = "user" /\ Runs(t) /\ Wait(t, "bf", [at |-> "open", mode |-> m], At("user"))
    BY <1>4 DEF Open, Asks
  <2>3. UNCHANGED <<wrndx, rdndx, nwriters, slots>>
    BY <1>4, SameRing DEF Open
  <2> QED
    BY <1>1, <2>1, <2>2, <2>3
<1>5. CASE OpenCloses(t)
  <2> DEFINE k == [at |-> "close", mode |-> "O_RDONLY"]
  <2>1. k.at = "close"
    OBVIOUS
  <2>2. pc[t].at = "fail" /\ Runs(t) /\ Take(t, "bf", k)
    BY <1>5 DEF OpenCloses, Does
  <2>3. UNCHANGED <<wrndx, rdndx, nwriters, slots>>
    BY <1>5, SameRing DEF OpenCloses
  <2> QED
    BY <1>1, <2>1, <2>2, <2>3
<1>6. CASE Close(t)
  <2> DEFINE k == [at |-> "close", mode |-> mode[t]]
  <2>1. k.at = "close"
    OBVIOUS
  <2>2. pc[t].at = "user" /\ Runs(t) /\ Take(t, "bf", k)
    BY <1>6 DEF Close, Asks
  <2>3. UNCHANGED <<wrndx, rdndx, nwriters, slots>>
    BY <1>6 DEF Close, ringvars, pollvars
  <2> QED
    BY <1>1, <2>1, <2>2, <2>3
<1>7. ASSUME NEW n \in ReadLengths, Read(t, n) PROVE SInv'
  <2>1. [at |-> "read", n |-> n].at = "read"
    OBVIOUS
  <2>2. pc[t].at = "user" /\ Runs(t) /\ Wait(t, "bf", [at |-> "read", n |-> n], At("user"))
    BY <1>7 DEF Read, Asks
  <2>3. UNCHANGED <<wrndx, rdndx, nwriters, slots>>
    BY <1>7, SameRing DEF Read
  <2> QED
    BY <1>1, <2>1, <2>2, <2>3
<1>8. ASSUME NEW n \in WriteLengths, Write(t, n) PROVE SInv'
  <2> DEFINE k == [at |-> "write", n |-> n, put |-> FALSE]
  <2>1. k.at = "write"
    OBVIOUS
  <2>2. pc[t].at = "user" /\ Runs(t) /\ Wait(t, "bf", k, At("user"))
    BY <1>8 DEF Write, Asks
  <2>3. UNCHANGED <<wrndx, rdndx, nwriters, slots>>
    BY <1>8, SameRing DEF Write
  <2> QED
    BY <1>1, <2>1, <2>2, <2>3
<1>9. CASE ReadWakes(t)
  <2> DEFINE k == [pc[t] EXCEPT !.at = "read"]
  <2>1. pc[t].at = "bytes" /\ Runs(t) /\ Wait(t, "bf", k, At("user"))
    BY <1>9 DEF ReadWakes, Does
  <2>2. k.at = "read"
    BY <2>1, Places DEF SInv, ReadStage
  <2>3. UNCHANGED <<wrndx, rdndx, nwriters, slots>>
    BY <1>9, SameRing DEF ReadWakes
  <2> QED
    BY <1>1, <2>1, <2>2, <2>3
<1>10. CASE WriteWakes(t)
  <2> DEFINE k == [pc[t] EXCEPT !.at = "write"]
  <2>1. pc[t].at = "again" /\ Runs(t) /\ Take(t, "bf", k)
    BY <1>10 DEF WriteWakes, Does
  <2>2. k.at = "write"
    BY <2>1, Places DEF SInv, WriteStage
  <2>3. UNCHANGED <<wrndx, rdndx, nwriters, slots>>
    BY <1>10, SameRing DEF WriteWakes
  <2> QED
    BY <1>1, <2>1, <2>2, <2>3
<1>11. CASE Polled(t)
  <2>1. At("teardown").at = "teardown"
    BY DEF At
  <2>2. pc[t].at = "polled" /\ Runs(t) /\ Take(t, "bf", At("teardown"))
    BY <1>11 DEF Polled, Does
  <2>3. UNCHANGED <<wrndx, rdndx, nwriters, slots>>
    BY <1>11, SameRing DEF Polled
  <2> QED
    BY <1>1, <2>1, <2>2, <2>3
<1>12. ASSUME NEW e, Poll(t, e) PROVE SInv'
  <2>1. [at |-> "poll", events |-> e].at = "poll"
    OBVIOUS
  <2>2. pc[t].at = "user" /\ Runs(t) /\ Take(t, "bf", [at |-> "poll", events |-> e])
    BY <1>12 DEF Poll
  <2>3. UNCHANGED <<wrndx, rdndx, nwriters, slots>>
    BY <1>12, SameRing DEF Poll
  <2> QED
    BY <1>1, <2>1, <2>2, <2>3
<1> QED
  BY <1>4, <1>5, <1>6, <1>7, <1>8, <1>9, <1>10, <1>11, <1>12

\* The steps that sleep, or take the count of the semaphore they would sleep on.
LEMMA SleepsKeep ==
  ASSUME SInv, IInv', NEW t \in Thread,
         OpenWaits(t) \/ ReadSleeps(t) \/ WriteSleeps(t) \/ PollSleeps(t)
  PROVE  SInv'
<1> Runs(t) /\ pc[t].at \in {"first", "empty", "room", "polling"}
  BY DEF OpenWaits, ReadSleeps, WriteSleeps, PollSleeps, Does
<1>2. UNCHANGED <<wrndx, rdndx, nwriters, slots>>
  BY SameRing DEF OpenWaits, ReadSleeps, WriteSleeps, PollSleeps
<1> ~Holds(t) /\ slots' = slots
  BY <1>2 DEF Holds, Holding
<1> UNCHANGED <<wrndx, rdndx, nwriters>>
  BY <1>2
<1> Reasoned(pc[t], t, cpu, nwriters, Used)
  BY DEF SInv, BridgeInv
<1>6. CASE OpenWaits(t)
  <2> DEFINE k == At("found")
             e == At("fail")
  <2> k.at = "found" /\ e.at = "fail"
    BY DEF At
  <2> Wait(t, "rd", k, e) /\ pc[t].at = "first"
    BY <1>6 DEF OpenWaits, Does
  <2> HIDE DEF k, e
  <2>3. Sleepy("rd", k)
    BY DEF Sleepy, Reasoned
  <2>4. WaitGoes("rd", k, e) /\ "rd" \in Sem
    BY SemNames DEF WaitGoes
  <2>5. WaitsFor(t, "rd", k, WaitAt("rd", k, e))
    BY <2>4, WaitForm
  <2>6. WaitAt("rd", k, e).then = k
    BY DEF WaitAt
  <2> QED
    BY <2>3, <2>4, <2>5, <2>6, SleepKeeps
<1>7. CASE ReadSleeps(t)
  <2> DEFINE k == [pc[t] EXCEPT !.at = "bytes"]
             e == At("error")
  <2> Wait(t, "rd", k, e) /\ pc[t].at = "empty"
    BY <1>7 DEF ReadSleeps, Does
  <2> k.at = "bytes" /\ e.at = "error"
    BY Places DEF At, SInv, ReadStage
  <2> HIDE DEF k, e
  <2>3. Sleepy("rd", k)
    BY DEF Sleepy, Reasoned
  <2>4. WaitGoes("rd", k, e) /\ "rd" \in Sem
    BY SemNames DEF WaitGoes
  <2>5. WaitsFor(t, "rd", k, WaitAt("rd", k, e))
    BY <2>4, WaitForm
  <2>6. WaitAt("rd", k, e).then = k
    BY DEF WaitAt
  <2> QED
    BY <2>3, <2>4, <2>5, <2>6, SleepKeeps
<1>8. CASE WriteSleeps(t)
  <2> DEFINE k == [pc[t] EXCEPT !.at = "again"]
  <2> Take(t, "wr", k) /\ pc[t].at = "room"
    BY <1>8 DEF WriteSleeps, Does
  <2>2. k.at = "again"
    BY Places DEF SInv, WriteStage
  <2> HIDE DEF k
  <2>3. Sleepy("wr", k)
    BY <2>2 DEF Sleepy, Reasoned
  <2>4. WaitsFor(t, "wr", k, TakeAt("wr", k)) /\ TakeAt("wr", k).then = k
    BY <2>2, TakeForm, SemNames
  <2> QED
    BY <2>3, <2>4, SleepKeeps, SemNames
<1>9. CASE PollSleeps(t)
  <2> DEFINE k == At("polled")
  <2> Take(t, t, k) /\ k.at = "polled" /\ t \in Sem
    BY <1>9, SemNames DEF PollSleeps, At
  <2> HIDE DEF k
  <2>2. Sleepy(t, k)
    BY SemNames DEF Sleepy
  <2>3. WaitsFor(t, t, k, TakeAt(t, k)) /\ TakeAt(t, k).then = k
    BY TakeForm
  <2> QED
    BY <2>2, <2>3, SleepKeeps
<1> QED
  BY <1>6, <1>7, <1>8, <1>9

\* The end of a thread's wait for d_bfsem, or for the others.
LEMMA EndsKeep ==
  ASSUME SInv, IInv', NEW t \in Thread,
         OpenReturns(t) \/ ReadFails(t) \/ WaitEnds(t) \/ TakeEnds(t)
  PROVE  SInv'
<1> Runs(t) /\ pc[t].at \in {"found", "error", "wait", "take"} /\ ~Blocked(t)
  BY DEF OpenReturns, ReadFails, WaitEnds, TakeEnds, Retry, Does, Runs
<1>2. UNCHANGED <<wrndx, rdndx, nwriters, slots>>
  BY DEF OpenReturns, ReadFails, WaitEnds, TakeEnds, ringvars, openvars, pollvars
<1> UNCHANGED <<wrndx, rdndx, nwriters>> /\ slots' = slots
  BY <1>2
<1> PlaceInv(pc[t]) /\ (pc[t].at = "take" /\ pc[t].sem = "wr" => res[t] = "OK")
  BY DEF SInv, SemInv, Stands
<1>5. \A s \in Sem : t \notin sem[s].q
  BY DEF Blocked
<1>6. res[t] \in {"OK", "EINTR"}
  BY DEF SInv, SemInv, SemType
<1>7. ASSUME NEW k, Goes(t, k), UNCHANGED <<sem, res>>, k.at \notin {"wait", "take"}, PlaceInv(k),
             k.at \in Holding <=> Holds(t), Idles(k)
      PROVE  SInv'
  <2>1. MovesOn(t, k)
    BY <1>7 DEF MovesOn
  <2> QED
    BY <1>7, <2>1, MoveKeeps
<1>8. ASSUME pc[t].at \in {"wait", "take"}, res[t] = "OK"
      PROVE  LET k == pc[t].then IN
             /\ k.at \notin {"wait", "take"} /\ PlaceInv(k) /\ (k.at \in Holding <=> Holds(t)) /\ Idles(k)
  <2>1. WaitPlace(pc[t])
    BY <1>8 DEF PlaceInv
  <2>2. Holds(t) <=> pc[t].sem = "bf"
    BY <1>5, <1>8, SemNames DEF Holds, Holding
  <2>3. pc[t].then.at \in BfPlace \cup {"bytes", "found", "again", "polled"}
    BY <2>1 DEF WaitPlace, BfPlace
  <2>4. pc[t].then.at \in BfPlace <=> pc[t].sem = "bf"
    BY <2>1, SemNames DEF WaitPlace, BfPlace
  <2> QED
    BY <2>2, <2>3, <2>4 DEF PlaceInv, Holding, Idles, BfPlace, Bridge
<1>9. ASSUME Goes(t, At("user")), UNCHANGED <<sem, res>>, ~Holds(t)
      PROVE  SInv'
  <2>1. At("user").at = "user"
    BY DEF At
  <2> QED
    BY <1>7, <1>9, <2>1 DEF PlaceInv, Holding, Idles, Bridge
<1>10. CASE OpenReturns(t) \/ ReadFails(t)
  <2>1. Goes(t, At("user")) /\ UNCHANGED <<sem, res>>
    BY <1>10, MoveGoes DEF OpenReturns, ReadFails, Goto, Move, SInv
  <2>2. ~Holds(t)
    BY <1>10 DEF OpenReturns, ReadFails, Does, Holds, Holding
  <2> QED
    BY <1>9, <2>1, <2>2
<1>11. CASE WaitEnds(t)
  <2> DEFINE k == IF res[t] = "OK" THEN pc[t].then ELSE pc[t].else
  <2> Goes(t, k) /\ UNCHANGED <<sem, res>> /\ pc[t].at = "wait"
    BY <1>11, MoveGoes DEF WaitEnds, Does, SInv
  <2>2. CASE res[t] = "OK"
    <3>1. k = pc[t].then
      BY <2>2
    <3> QED
      BY <1>7, <1>8, <2>2, <3>1
  <2>3. CASE res[t] # "OK"
    <3>1. k.at \in {"user", "fail", "error"}
      BY <2>3 DEF PlaceInv
    <3>2. ~Holds(t)
      BY <2>3 DEF Holds, Holding
    <3> HIDE DEF k
    <3> QED
      BY <1>7, <3>1, <3>2 DEF PlaceInv, Holding, Idles, Bridge
  <2> QED
    BY <2>2, <2>3
<1>12. CASE TakeEnds(t)
  <2> pc[t].at = "take"
    BY <1>12 DEF TakeEnds, Retry
  <2>2. CASE res[t] = "OK"
    <3>1. Move(t, pc[t].then) /\ UNCHANGED <<sem, res>>
      BY <1>12, <2>2 DEF TakeEnds, Retry, Move
    <3>2. Goes(t, pc[t].then)
      BY <3>1, MoveGoes DEF SInv
    <3> QED
      BY <1>7, <1>8, <2>2, <3>1, <3>2
  <2>3. CASE res[t] # "OK"
    <3> DEFINE k == pc[t].then
               s == pc[t].sem
    <3>1. Take(t, s, k) /\ s # "wr"
      BY <1>12, <2>3 DEF TakeEnds, Retry
    <3>2. ~Holds(t)
      BY <2>3 DEF Holds, Holding
    <3>3. WaitPlace(pc[t])
      BY DEF PlaceInv
    <3> \/ s = "bf" /\ k.at \in BfPlace
        \/ s \in Thread /\ k.at = "polled"
      BY <3>1, <3>3 DEF WaitPlace, BfPlace
    <3>5. s \in Sem
      BY SemNames
    <3> HIDE DEF k, s
    <3>6. WaitsFor(t, s, k, TakeAt(s, k)) /\ TakeAt(s, k).then = k
      BY <3>1, <3>2, <3>5, TakeForm
    <3>7. CASE s = "bf"
      <4>1. Idles(k)
        BY <3>7, SemNames DEF Idles, Bridge, BfPlace
      <4> QED
        BY <3>6, <3>7, <4>1, BfKeeps
    <3>8. CASE s # "bf"
      <4>1. Sleepy(s, k)
        BY <3>8, SemNames DEF Sleepy
      <4> QED
        BY <3>5, <3>6, <4>1, SleepKeeps
    <3> QED
      BY <3>7, <3>8
  <2> QED
    BY <2>2, <2>3
<1> QED
  BY <1>10, <1>11, <1>12

\* sem_post() of d_bfsem as the end of a service.
LEMMA GiveForm ==
  ASSUME SInv, NEW t \in Thread, NEW k, Runs(t), Give("bf"), Move(t, k), pc[t].at \in Holding,
         k.at \notin Holding, k.at \notin {"wait", "take"}, slots' = slots
  PROVE  GivesBf(t, k)
<1>1. Goes(t, k)
  BY MoveGoes DEF SInv
<1> ~Blocked(t) /\ slots' \subseteq Thread /\ sem \in [Sem -> SemRecord]
  BY DEF Runs, SInv, SemInv, SemType
<1> /\ sem' \in [Sem -> SemRecord] /\ res' = res
    /\ \A r \in Sem : r # "bf" => sem'[r] = sem[r]
    /\ \/ sem["bf"].q = {} /\ sem'["bf"].q = {}
       \/ \E w \in sem["bf"].q : sem'["bf"].q = sem["bf"].q \ {w}
  BY SemNames, SemPostEffect DEF Give
<1>4. \A s \in Sem : sem'[s].q \subseteq sem[s].q
  OBVIOUS
<1>5. sem'["rd"] = sem["rd"] /\ sem'["wr"] = sem["wr"]
  BY SemNames
<1>6. sem'["bf"] \in Posted(sem["bf"])
  BY SemNames DEF Give, SemPost
<1> QED
  BY <1>1, <1>4, <1>5, <1>6 DEF GivesBf

\* The steps that give d_bfsem and leave the pipe alone.
LEMMA GivesKeep ==
  ASSUME SInv, IInv', NEW t \in Thread,
         \/ OpenFails(t) \/ Opened(t) \/ Closed(t) \/ ReadNothing(t) \/ ReadGives(t)
         \/ WriteReturnsPart(t) \/ WriteGives(t) \/ PollBusy(t)
  PROVE  SInv'
<1> /\ Runs(t) /\ Give("bf")
    /\ pc[t].at \in {"open", "opened", "closed", "read", "full", "poll"}
  BY DEF OpenFails, Opened, Closed, ReadNothing, ReadGives, WriteReturnsPart, WriteGives, PollBusy, Does
<1>2. UNCHANGED <<wrndx, rdndx, nwriters>> /\ slots' = slots
  BY DEF OpenFails, Opened, Closed, ReadNothing, ReadGives, WriteReturnsPart, WriteGives, PollBusy,
         ringvars, openvars, pollvars
<1>3. pc[t].at \in Holding /\ pc[t].at \notin {"write", "test", "post"}
  BY DEF Holding
<1>4. Reasoned(pc[t], t, cpu, nwriters, Used)
  BY DEF SInv, BridgeInv
<1>5. ASSUME NEW k, Move(t, k), k.at \in {"user", "first", "empty", "room"},
             Reasoned(k, t, cpu', nwriters, Used)
      PROVE  SInv'
  <2>1. k.at \notin Holding /\ k.at \notin {"wait", "take"}
    BY <1>5 DEF Holding
  <2>2. GivesBf(t, k)
    BY <1>2, <1>3, <1>5, <2>1, GiveForm
  <2> QED
    BY <1>2, <1>3, <1>5, <2>2, GiveKeeps
<1>6. ASSUME Goto(t, "user") PROVE SInv'
  <2> DEFINE k == At("user")
  <2>1. k.at = "user" /\ Move(t, k)
    BY <1>6 DEF At, Goto, Move
  <2> HIDE DEF k
  <2>2. Reasoned(k, t, cpu', nwriters, Used)
    BY <2>1, IdlesReasoned DEF Idles, Bridge
  <2> QED
    BY <1>5, <2>1, <2>2
<1>7. CASE OpenFails(t) \/ Closed(t) \/ ReadNothing(t) \/ WriteReturnsPart(t) \/ PollBusy(t)
  BY <1>6, <1>7 DEF OpenFails, Closed, ReadNothing, WriteReturnsPart, PollBusy
<1>8. CASE Opened(t)
  <2>1. CASE pc[t].mode = "O_RDONLY" /\ nwriters < 1
    <3> DEFINE k == At("first")
    <3>1. k.at = "first" /\ Move(t, k) /\ cpu' = t
      BY <1>8, <2>1 DEF Opened, At, sched_lock
    <3> HIDE DEF k
    <3>2. Reasoned(k, t, cpu', nwriters, Used)
      BY <2>1, <3>1 DEF Reasoned
    <3> QED
      BY <1>5, <3>1, <3>2
  <2>2. CASE ~(pc[t].mode = "O_RDONLY" /\ nwriters < 1)
    BY <1>6, <1>8, <2>2 DEF Opened
  <2> QED
    BY <2>1, <2>2
<1>9. CASE ReadGives(t)
  <2> DEFINE k == [pc[t] EXCEPT !.at = "empty"]
  <2> Move(t, k) /\ cpu' = t /\ pc[t].at = "read" /\ wrndx = rdndx /\ nwriters > 0
    BY <1>9 DEF ReadGives, Does, sched_lock
  <2>2. k.at = "empty"
    BY Places DEF SInv, ReadStage
  <2>3. Used = 0
    BY UsedEmpty DEF SInv
  <2> HIDE DEF k
  <2>4. Reasoned(k, t, cpu', nwriters, Used)
    BY <2>2, <2>3 DEF Reasoned
  <2> QED
    BY <1>5, <2>2, <2>4
<1>10. CASE WriteGives(t)
  <2> DEFINE k == [pc[t] EXCEPT !.at = "room"]
  <2> Move(t, k) /\ cpu' = t /\ pc[t].at = "full"
    BY <1>10 DEF WriteGives, Does, sched_lock
  <2>2. k.at = "room"
    BY Places DEF SInv, WriteStage
  <2> HIDE DEF k
  <2>3. Reasoned(k, t, cpu', nwriters, Used)
    BY <1>4, <2>2 DEF Reasoned
  <2> QED
    BY <1>5, <2>2, <2>3
<1> QED
  BY <1>7, <1>8, <1>9, <1>10

\* The bytes that pipecommon_pollnotify() is about do not matter here: it posts
\* to semaphores of threads only.
LEMMA NotifiedSems ==
  ASSUME NEW p, NEW at \in SUBSET Thread, NEW sm \in [Sem -> SemRecord]
  PROVE  /\ Notified(p, at, sm) \in [Sem -> SemRecord]
         /\ \A s \in Sem : Notified(p, at, sm)[s].q \subseteq sm[s].q
         /\ \A s \in {"bf", "rd", "wr"} : Notified(p, at, sm)[s] = sm[s]
<1>1. ASSUME NEW x \in SemRecord
      PROVE  PollPosted(x) \in SemRecord /\ PollPosted(x).q \subseteq x.q
  <2> x \in [cnt : Nat, q : SUBSET Thread] /\ PollPosts \in Nat
    BY <1>1, PipeAssumption DEF SemRecord
  <2>2. CASE x.q # {}
    BY <2>2, SMT DEF PollPosted, SemRecord
  <2>3. CASE x.q = {}
    <3> DEFINE n == IF x.cnt < PollPosts THEN x.cnt + 1 ELSE x.cnt
    <3>1. n \in Nat
      BY SMT
    <3>2. PollPosted(x) = [x EXCEPT !.cnt = n]
      BY <2>3 DEF PollPosted
    <3> HIDE DEF n
    <3> QED
      BY <3>1, <3>2, SMT DEF SemRecord
  <2> QED
    BY <2>2, <2>3
<1>2. \A s \in Sem : Notified(p, at, sm)[s] =
                       IF s \in at /\ p[s].revents # {} THEN PollPosted(sm[s]) ELSE sm[s]
  BY DEF Notified
<1>3. \A s \in Sem : Notified(p, at, sm)[s] \in SemRecord /\ Notified(p, at, sm)[s].q \subseteq sm[s].q
  BY <1>1, <1>2
<1>4. Notified(p, at, sm) \in [Sem -> SemRecord]
  <2>1. Notified(p, at, sm) = [s \in Sem |-> Notified(p, at, sm)[s]]
    BY DEF Notified
  <2> QED
    BY <1>3, <2>1
<1>5. \A s \in {"bf", "rd", "wr"} : Notified(p, at, sm)[s] = sm[s]
  BY <1>2, SemNames
<1> QED
  BY <1>3, <1>4, <1>5

\* The steps that give d_bfsem and notify those who poll.
LEMMA NotifiesKeep ==
  ASSUME SInv, IInv', NEW t \in Thread,
         ReadReturns(t) \/ WriteReturns(t) \/ PollSetup(t) \/ PollReturns(t)
  PROVE  SInv'
<1> Runs(t) /\ pc[t].at \in {"readend", "writeend", "poll", "teardown"} /\ ~Blocked(t)
  BY DEF ReadReturns, WriteReturns, PollSetup, PollReturns, Does, Runs
<1> UNCHANGED <<wrndx, rdndx, nwriters>> /\ res' = res /\ slots' \subseteq Thread
  <2>1. slots \subseteq Thread
    BY DEF SInv, SemInv, SemType
  <2> QED
    BY <2>1 DEF ReadReturns, WriteReturns, PollSetup, PollReturns, NotifyAndGive, ringvars, openvars
<1>3. PICK l \in {"user", "polling"} : Goto(t, l)
  BY DEF ReadReturns, WriteReturns, PollSetup, PollReturns
<1> sem \in [Sem -> SemRecord] /\ slots \subseteq Thread
  BY DEF SInv, SemInv, SemType
<1>5. PICK b \in Posted(sem["bf"]) :
        \/ \E p : \E at \in SUBSET Thread : sem' = Notified(p, at, [sem EXCEPT !["bf"] = b])
        \/ sem' = [sem EXCEPT !["bf"] = b]
        \/ sem' = [sem EXCEPT !["bf"] = b, ![t] = SemInit(0)]
  <2>1. CASE ReadReturns(t) \/ WriteReturns(t)
    BY <2>1 DEF ReadReturns, WriteReturns, NotifyAndGive
  <2>2. CASE PollSetup(t)
    BY <2>2 DEF PollSetup
  <2>3. CASE PollReturns(t)
    BY <2>3 DEF PollReturns
  <2> QED
    BY <2>1, <2>2, <2>3
<1> DEFINE sm == [sem EXCEPT !["bf"] = b]
<1>6. b \in SemRecord /\ b.q \subseteq sem["bf"].q
  <2>1. sem["bf"] \in SemRecord
    BY SemNames
  <2> QED
    BY <2>1, PostedEffect
<1> /\ sm \in [Sem -> SemRecord] /\ sm["bf"] = b /\ sm["rd"] = sem["rd"] /\ sm["wr"] = sem["wr"]
    /\ \A s \in Sem : sm[s].q \subseteq sem[s].q
  BY <1>6, SemNames
<1> HIDE DEF sm
<1>8. /\ sem' \in [Sem -> SemRecord] /\ \A s \in Sem : sem'[s].q \subseteq sm[s].q
      /\ sem'["bf"] = sm["bf"] /\ sem'["rd"] = sm["rd"] /\ sem'["wr"] = sm["wr"]
  <2>1. ASSUME NEW p, NEW at \in SUBSET Thread, sem' = Notified(p, at, sm)
        PROVE  <1>8!:
    BY <2>1, NotifiedSems
  <2>2. CASE sem' = sm
    BY <2>2
  <2>3. CASE sem' = [sem EXCEPT !["bf"] = b, ![t] = SemInit(0)]
    <3>1. sem' = [sm EXCEPT ![t] = SemInit(0)]
      BY <2>3 DEF sm
    <3>2. SemInit(0) \in SemRecord /\ SemInit(0).q = {}
      BY SMTT(30) DEF SemInit, SemRecord
    <3> QED
      BY <3>1, <3>2, SemNames
  <2> QED
    BY <1>5, <2>1, <2>2, <2>3 DEF sm
<1> DEFINE k == At(l)
<1> k.at \in {"user", "polling"} /\ Goes(t, k)
  BY <1>3, MoveGoes DEF At, Goto, Move, SInv
<1> HIDE DEF k
<1>10. GivesBf(t, k)
  <2>1. pc[t].at \in Holding /\ k.at \notin Holding /\ k.at \notin {"wait", "take"}
    BY DEF Holding
  <2>2. sem'["bf"] \in Posted(sem["bf"]) /\ \A s \in Sem : sem'[s].q \subseteq sem[s].q
    BY <1>5, <1>8
  <2> QED
    BY <1>8, <2>1, <2>2 DEF GivesBf
<1>11. Reasoned(k, t, cpu', nwriters, Used)
  BY IdlesReasoned DEF Idles, Bridge
<1> QED
  BY <1>10, <1>11, GiveKeeps

-----------------------------------------------------------------------------
(* The writers.                                                            *)

\* d_nwriters counts the writers.
WriterInv == nwriters = Cardinality({t \in Thread : Writer(t)})

\* The writers are the same but for t, which a step may add or remove.
LEMMA WriterCount ==
  ASSUME Cardinals, WriterInv, NEW t \in Thread, \A u \in Thread : u # t => (Writer(u)' <=> Writer(u)),
         \/ (Writer(t)' <=> Writer(t)) /\ nwriters' = nwriters
         \/ Writer(t)' /\ ~Writer(t) /\ nwriters' = nwriters + 1
         \/ ~Writer(t)' /\ Writer(t) /\ nwriters' = nwriters - 1
  PROVE  WriterInv'
<1> DEFINE F == {u \in Thread : Writer(u)}
           G == {u \in Thread : Writer(u)'}
<1> IsFiniteSet(F) /\ nwriters = Cardinality(F) /\ F \subseteq Thread /\ G \subseteq Thread
  BY PipeAssumption, PartFinite DEF WriterInv
<1> \A u \in Thread : u # t => (u \in G <=> u \in F)
  OBVIOUS
<1> (t \in F <=> Writer(t)) /\ (t \in G <=> Writer(t)')
  OBVIOUS
<1> nwriters' = Cardinality(G) => WriterInv'
  BY DEF WriterInv
<1> HIDE DEF F, G
<1>5. CASE (Writer(t)' <=> Writer(t)) /\ nwriters' = nwriters
  <2>1. G = F
    BY <1>5, SMT
  <2> QED
    BY <1>5, <2>1
<1>6. CASE Writer(t)' /\ ~Writer(t) /\ nwriters' = nwriters + 1
  <2>1. G = F \cup {t} /\ t \notin F
    BY <1>6
  <2>2. Cardinality(F \cup {t}) = Cardinality(F) + 1
    BY <2>1, OneMore
  <2> QED
    BY <1>6, <2>1, <2>2
<1>7. CASE ~Writer(t)' /\ Writer(t) /\ nwriters' = nwriters - 1
  <2>1. G = F \ {t} /\ t \in F
    BY <1>7
  <2>2. Cardinality(F \ {t}) = Cardinality(F) - 1
    BY <2>1, OneLess
  <2> QED
    BY <1>7, <2>1, <2>2
<1> QED
  BY <1>5, <1>6, <1>7

\* d_nwriters is a number, and not 0 if there is a writer.
LEMMA WriterNat ==
  ASSUME Cardinals, WriterInv
  PROVE  nwriters \in Nat /\ \A t \in Thread : Writer(t) => nwriters # 0
<1> DEFINE F == {u \in Thread : Writer(u)}
<1>1. IsFiniteSet(F) /\ nwriters = Cardinality(F)
  BY PipeAssumption, PartFinite DEF WriterInv
<1> QED
  BY <1>1, CardinalNat, NoMembers

\* A step of t to the place k that keeps the mode of its file.
LEMMA WriterMoves ==
  ASSUME Cardinals, WriterInv, NEW t \in Thread, NEW k, Goes(t, k), mode' = mode, nwriters' = nwriters,
         mode[t] # "none" \/ (Opening(k) <=> Opening(pc[t]))
  PROVE  WriterInv'
<1>1. \A u \in Thread : u # t => (Writer(u)' <=> Writer(u))
  BY DEF Goes, Writer
<1>2. Writer(t)' <=> Writer(t)
  BY DEF Goes, Writer, WriterAt
<1> QED
  BY <1>1, <1>2, WriterCount

\* Places where nobody counts as a writer yet, or still.
LEMMA NotOpening ==
  ASSUME NEW k, \/ k.at \notin {"opened", "close", "take", "test", "post"}
                \/ k.at \in {"take", "test", "post"} /\ k.then.at \notin {"opened", "close"}
  PROVE  ~Opening(k)
BY DEF Opening

\* The steps of threads with a file.
LEMMA WriterUses ==
  ASSUME Cardinals, IInv, WriterInv, NEW t \in Thread,
         \/ \E n \in ReadLengths : Read(t, n)
         \/ \E n \in WriteLengths : Write(t, n)
         \/ ReadNothing(t) \/ ReadGives(t) \/ ReadSleeps(t) \/ ReadWakes(t) \/ ReadFails(t)
         \/ ReadBytes(t) \/ ReadReturns(t)
         \/ WriteByte(t) \/ WriteReturns(t) \/ WriteFull(t) \/ WriteReturnsPart(t) \/ WriteGives(t)
         \/ WriteSleeps(t) \/ WriteWakes(t)
         \/ \E e \in {f[2] : f \in PollFor} : Poll(t, e)
         \/ PollBusy(t) \/ PollSetup(t) \/ PollSleeps(t) \/ Polled(t) \/ PollReturns(t)
  PROVE  WriterInv'
<1>1. mode' = mode /\ nwriters' = nwriters
  BY DEF Read, Write, ReadNothing, ReadGives, ReadSleeps, ReadWakes, ReadFails, ReadBytes, ReadReturns,
         WriteByte, WriteReturns, WriteFull, WriteReturnsPart, WriteGives, WriteSleeps, WriteWakes,
         Poll, PollBusy, PollSetup, PollSleeps, Polled, PollReturns, openvars
<1>2. mode[t] # "none"
  <2>1. CASE pc[t].at \in {"error", "readend", "writeend", "polling", "polled", "teardown", "poll", "read",
                           "empty", "bytes", "write", "full", "room", "again"}
    <3>1. mode[t] \in AnyMode
      BY <2>1, Places
    <3> QED
      BY <3>1 DEF AnyMode
  <2>2. CASE mode[t] \in {"O_RDONLY", "O_WRONLY", "O_RDWR"}
    BY <2>2
  <2>3. ASSUME NEW e, Poll(t, e) PROVE mode[t] \in {"O_RDONLY", "O_WRONLY", "O_RDWR"}
    <3>1. <<mode[t], e>> \in Modes \X SUBSET {"POLLIN", "POLLOUT"}
      BY <2>3, PipeAssumption DEF Poll
    <3>2. mode[t] \in Modes
      BY <3>1, PairFirst
    <3> QED
      BY <3>2, PipeAssumption
  <2> QED
    BY <2>1, <2>2, <2>3
       DEF Read, Write, ReadNothing, ReadGives, ReadSleeps, ReadWakes, ReadFails, ReadBytes, ReadReturns,
           WriteByte, WriteReturns, WriteFull, WriteReturnsPart, WriteGives, WriteSleeps, WriteWakes,
           PollBusy, PollSetup, PollSleeps, Polled, PollReturns, Asks, Does
<1>3. PICK k : Move(t, k)
  BY DEF Read, Write, ReadNothing, ReadGives, ReadSleeps, ReadWakes, ReadFails, ReadBytes, ReadReturns,
         WriteByte, WriteReturns, WriteFull, WriteReturnsPart, WriteGives, WriteSleeps, WriteWakes,
         Poll, PollBusy, PollSetup, PollSleeps, Polled, PollReturns, Wait, Take, Goto, Move
<1>4. Goes(t, k)
  BY <1>3, MoveGoes
<1> QED
  BY <1>1, <1>2, <1>4, WriterMoves

\* The steps of waits and of the loops that wake.
LEMMA WriterWaits ==
  ASSUME Cardinals, IInv, WriterInv, NEW t \in Thread,
         WakeTests(t) \/ WakePosts(t) \/ WaitEnds(t) \/ TakeEnds(t) \/ Signal(t)
  PROVE  WriterInv'
<1>1. mode' = mode /\ nwriters' = nwriters
  BY DEF WakeTests, WakePosts, WaitEnds, TakeEnds, Signal, openvars
<1>3. ASSUME NEW k, Move(t, k), Opening(k) <=> Opening(pc[t])
      PROVE  WriterInv'
  BY <1>1, <1>3, MoveGoes, WriterMoves
<1>4. CASE Signal(t)
  <2>1. Goes(t, pc[t])
    BY <1>4 DEF Signal, Interrupted, Goes
  <2> QED
    BY <1>1, <2>1, WriterMoves
<1>5. ASSUME pc[t].at \in {"take", "test", "post"}
      PROVE  Opening(pc[t].then) <=> Opening(pc[t])
  <2>1. Simple(pc[t].then, mode[t])
    BY <1>5, Places
  <2>2. pc[t].then.at \notin {"take", "test", "post"}
    BY <2>1, SimpleLabel
  <2> QED
    BY <1>5, <2>2 DEF Opening
<1>6. ASSUME NEW l \in {"test", "post"}, pc[t].at \in {"test", "post"}, Move(t, [pc[t] EXCEPT !.at = l])
      PROVE  WriterInv'
  <2> DEFINE k == [pc[t] EXCEPT !.at = l]
  <2>1. DOMAIN pc[t] = {"at", "sem", "then"}
    BY <1>6, Places
  <2>2. k.at = l /\ k.then = pc[t].then
    BY <2>1
  <2> HIDE DEF k
  <2>3. Opening(k) <=> Opening(pc[t])
    BY <1>6, <2>2 DEF Opening
  <2> QED
    BY <1>3, <1>6, <2>3 DEF k
<1>7. CASE WakeTests(t)
  <2>1. pc[t].at = "test"
    BY <1>7 DEF WakeTests, Does
  <2>2. Move(t, [pc[t] EXCEPT !.at = "post"]) \/ Move(t, pc[t].then)
    BY <1>7 DEF WakeTests
  <2> QED
    BY <1>3, <1>5, <1>6, <2>1, <2>2
<1>8. CASE WakePosts(t)
  BY <1>6, <1>8 DEF WakePosts, Does
<1>9. CASE WaitEnds(t)
  <2> pc[t].at = "wait" /\ (Move(t, pc[t].then) \/ Move(t, pc[t].else))
    BY <1>9 DEF WaitEnds, Does
  <2>2. ~Opening(pc[t])
    BY NotOpening
  <2>3. Simple(pc[t].then, mode[t]) /\ Else(pc[t].then, pc[t].else)
    BY Places
  <2>4. pc[t].then.at \in {"found", "open", "read", "bytes", "write"}
    BY <2>3 DEF Else
  <2>5. pc[t].else.at \in {"user", "fail", "error"}
    <3>1. At("user").at = "user" /\ At("fail").at = "fail" /\ At("error").at = "error"
      BY DEF At
    <3>2. pc[t].else = At("user") \/ pc[t].else = At("fail") \/ pc[t].else = At("error")
      BY <2>3, Zenon DEF Else
    <3> QED
      BY <3>1, <3>2, Zenon
  <2>6. ~Opening(pc[t].then) /\ ~Opening(pc[t].else)
    BY <2>4, <2>5, NotOpening
  <2> QED
    BY <1>3, <2>2, <2>6
<1>10. CASE TakeEnds(t)
  <2> DEFINE x == TakeAt(pc[t].sem, pc[t].then)
  <2>1. pc[t].at = "take" /\ (Move(t, pc[t].then) \/ Move(t, x))
    BY <1>10 DEF TakeEnds, Retry, Take, TakeAt, Move
  <2>2. Opening(x) <=> Opening(pc[t])
    <3>1. x.at = "take" /\ x.then = pc[t].then
      BY DEF TakeAt
    <3> HIDE DEF x
    <3> QED
      BY <2>1, <3>1 DEF Opening
  <2> QED
    BY <1>3, <1>5, <2>1, <2>2
<1> QED
  BY <1>4, <1>7, <1>8, <1>9, <1>10

\* The steps of pipecommon_open() and pipecommon_close() that count nothing.
LEMMA WriterOpens ==
  ASSUME Cardinals, IInv, WriterInv, NEW t \in Thread,
         \/ \E m \in Modes : Open(t, m)
         \/ OpenFails(t) \/ Opened(t) \/ OpenWaits(t) \/ OpenReturns(t)
         \/ OpenCloses(t) \/ Close(t) \/ Closed(t)
  PROVE  WriterInv'
<1>1. nwriters' = nwriters
  BY DEF Open, OpenFails, Opened, OpenWaits, OpenReturns, OpenCloses, Close, Closed, openvars
<1>2. ASSUME NEW k, Move(t, k), ~Opening(k), ~Opening(pc[t]), mode' = mode
      PROVE  WriterInv'
  BY <1>1, <1>2, MoveGoes, WriterMoves
<1>3. ASSUME NEW k, Move(t, k), NEW m, mode' = [mode EXCEPT ![t] = m], WriterAt(k, m) <=> Writer(t)
      PROVE  WriterInv'
  <2>1. mode'[t] = m /\ \A u \in Thread : u # t => mode'[u] = mode[u]
    BY <1>3 DEF IInv, StageInv
  <2>2. pc'[t] = k /\ \A u \in Thread : u # t => pc'[u] = pc[u]
    BY <1>3, MoveGoes DEF Goes
  <2>3. \A u \in Thread : u # t => (Writer(u)' <=> Writer(u))
    BY <2>1, <2>2 DEF Writer
  <2>4. Writer(t)' <=> Writer(t)
    BY <1>3, <2>1, <2>2 DEF Writer
  <2> QED
    BY <1>1, <2>3, <2>4, WriterCount
<1>4. ASSUME NEW m \in Modes, Open(t, m)
      PROVE  WriterInv'
  <2> DEFINE k == [at |-> "open", mode |-> m]
             x == WaitAt("bf", k, At("user"))
  <2>1. pc[t] = At("user") /\ (Move(t, k) \/ Move(t, x)) /\ mode' = mode
    BY <1>4 DEF Open, Asks, Calls, Wait, WaitAt, openvars
  <2>2. k.at = "open" /\ x.at = "wait" /\ At("user").at = "user"
    BY DEF WaitAt, At
  <2> HIDE DEF k, x
  <2>3. ~Opening(k) /\ ~Opening(x) /\ ~Opening(pc[t])
    BY <2>1, <2>2, NotOpening
  <2> QED
    BY <1>2, <2>1, <2>3
<1>5. CASE OpenFails(t) \/ Closed(t)
  <2>1. At("user").at = "user"
    BY DEF At
  <2>2. Move(t, At("user")) /\ mode' = mode /\ pc[t].at \in {"open", "closed"}
    BY <1>5 DEF OpenFails, Closed, Goto, Move, Does, openvars
  <2>3. ~Opening(At("user")) /\ ~Opening(pc[t])
    BY <2>1, <2>2, NotOpening
  <2> QED
    BY <1>2, <2>2, <2>3
<1>6. CASE OpenWaits(t)
  <2> DEFINE k == At("found")
             x == WaitAt("rd", k, At("fail"))
  <2>1. pc[t].at = "first" /\ (Move(t, k) \/ Move(t, x)) /\ mode' = mode
    BY <1>6 DEF OpenWaits, Does, Wait, WaitAt, openvars
  <2>2. k.at = "found" /\ x.at = "wait"
    BY DEF WaitAt, At
  <2> HIDE DEF k, x
  <2>3. ~Opening(k) /\ ~Opening(x) /\ ~Opening(pc[t])
    BY <2>1, <2>2, NotOpening
  <2> QED
    BY <1>2, <2>1, <2>3
<1>7. CASE OpenReturns(t)
  <2>1. pc[t].at = "found" /\ Move(t, At("user")) /\ mode' = [mode EXCEPT ![t] = "O_RDONLY"]
    BY <1>7 DEF OpenReturns, Does, Goto, Move
  <2>2. mode[t] = "none" /\ ~Opening(pc[t])
    BY <2>1, Places, NotOpening
  <2>3. WriterAt(At("user"), "O_RDONLY") <=> Writer(t)
    BY <2>2 DEF Writer, WriterAt, Writes
  <2> QED
    BY <1>3, <2>1, <2>3
<1>8. CASE OpenCloses(t)
  <2> DEFINE k == [at |-> "close", mode |-> "O_RDONLY"]
             x == TakeAt("bf", k)
  <2>1. pc[t].at = "fail" /\ (Move(t, k) \/ Move(t, x)) /\ mode' = mode
    BY <1>8 DEF OpenCloses, Does, Take, TakeAt, Move, openvars
  <2>2. k.at = "close" /\ k.mode = "O_RDONLY" /\ x.at = "take" /\ x.then = k
    BY DEF TakeAt
  <2> HIDE DEF k, x
  <2>3. ~Opening(k) /\ ~Opening(x) /\ ~Opening(pc[t])
    BY <2>1, <2>2 DEF Opening, Writes
  <2> QED
    BY <1>2, <2>1, <2>3
<1>9. CASE Close(t)
  <2> DEFINE k == [at |-> "close", mode |-> mode[t]]
             x == TakeAt("bf", k)
  <2>1. (Move(t, k) \/ Move(t, x)) /\ mode' = [mode EXCEPT ![t] = "none"] /\ mode[t] # "none"
    BY <1>9, PipeAssumption DEF Close, Asks, Take, TakeAt, Move
  <2>2. k.at = "close" /\ k.mode = mode[t] /\ x.at = "take" /\ x.then = k
    BY DEF TakeAt
  <2> HIDE DEF k, x
  <2>3. (Opening(k) <=> Writes(mode[t])) /\ (Opening(x) <=> Writes(mode[t]))
    BY <2>2 DEF Opening
  <2>4. (WriterAt(k, "none") <=> Writer(t)) /\ (WriterAt(x, "none") <=> Writer(t))
    BY <2>1, <2>3 DEF Writer, WriterAt
  <2> QED
    BY <1>3, <2>1, <2>4
<1>10. CASE Opened(t)
  <2> pc[t].at = "opened" /\ pc[t].mode \in AnyMode /\ mode[t] = "none"
    BY <1>10, Places DEF Opened, Does
  <2>2. Writer(t) <=> Writes(pc[t].mode)
    BY DEF Writer, WriterAt, Opening
  <2>3. CASE pc[t].mode = "O_RDONLY" /\ nwriters < 1
    <3>1. Move(t, At("first")) /\ mode' = mode /\ At("first").at = "first"
      BY <1>10, <2>3 DEF Opened, At
    <3>2. ~Opening(At("first")) /\ ~Opening(pc[t])
      BY <2>3, <3>1 DEF Opening, Writes
    <3> QED
      BY <1>2, <3>1, <3>2
  <2>4. CASE ~(pc[t].mode = "O_RDONLY" /\ nwriters < 1)
    <3>1. Move(t, At("user")) /\ mode' = [mode EXCEPT ![t] = pc[t].mode]
      BY <1>10, <2>4 DEF Opened, Goto, Move
    <3>2. WriterAt(At("user"), pc[t].mode) <=> Writer(t)
      BY <2>2 DEF WriterAt, AnyMode
    <3> QED
      BY <1>3, <3>1, <3>2
  <2> QED
    BY <2>3, <2>4
<1> QED
  BY <1>4, <1>5, <1>6, <1>7, <1>8, <1>9, <1>10

\* open() counts a writer.
LEMMA WriterCounted ==
  ASSUME Cardinals, IInv, WriterInv, NEW t \in Thread, OpenCounts(t)
  PROVE  WriterInv'
<1> DEFINE k == [pc[t] EXCEPT !.at = "opened"]
           x == IF Writes(pc[t].mode) /\ nwriters = 0 THEN Waking("rd", k) ELSE k
<1>1. /\ pc[t].at = "open" /\ Move(t, x) /\ mode' = mode
      /\ nwriters' = nwriters + IF Writes(pc[t].mode) THEN 1 ELSE 0
  <2>1. pc[t].at = "open" /\ mode' = mode
    BY DEF OpenCounts, Does
  <2>2. Move(t, x)
    BY DEF OpenCounts
  <2>3. nwriters' = nwriters + IF Writes(pc[t].mode) THEN 1 ELSE 0
    BY DEF OpenCounts
  <2> QED
    BY <2>1, <2>2, <2>3
<1>2. pc[t] \in [at : {"open", "opened", "close"}, mode : AnyMode] /\ mode[t] = "none"
  BY <1>1, Places
<1>3. k.at = "opened" /\ k.mode = pc[t].mode
  BY <1>2
<1>4. Waking("rd", k).at = "test" /\ Waking("rd", k).then = k
  BY DEF Waking
<1> HIDE DEF k
<1>5. Opening(x) <=> Writes(pc[t].mode)
  <2>1. CASE Writes(pc[t].mode) /\ nwriters = 0
    BY <1>3, <1>4, <2>1 DEF Opening
  <2>2. CASE ~(Writes(pc[t].mode) /\ nwriters = 0)
    BY <1>3, <2>2 DEF Opening
  <2> QED
    BY <2>1, <2>2
<1> HIDE DEF x
<1>6. nwriters \in Nat
  BY WriterNat
<1>7. ~Writer(t)
  BY <1>1, <1>2 DEF Writer, WriterAt, Opening
<1>8. pc'[t] = x /\ \A u \in Thread : u # t => pc'[u] = pc[u]
  BY <1>1, MoveGoes DEF Goes
<1>9. \A u \in Thread : u # t => (Writer(u)' <=> Writer(u))
  BY <1>1, <1>8 DEF Writer
<1>10. Writer(t)' <=> Writes(pc[t].mode)
  BY <1>1, <1>2, <1>5, <1>8 DEF Writer, WriterAt
<1>11. /\ Writes(pc[t].mode) => nwriters' = nwriters + 1
       /\ ~Writes(pc[t].mode) => nwriters' = nwriters
  BY <1>1, <1>6, SMT
<1> QED
  BY <1>7, <1>9, <1>10, <1>11, WriterCount

\* close() of a file that is not the last.
LEMMA WriterUncounted ==
  ASSUME Cardinals, IInv, WriterInv, NEW t \in Thread, CloseCounts(t)
  PROVE  WriterInv'
<1> DEFINE k == At("closed")
           x == IF Writes(pc[t].mode) /\ nwriters = 1 THEN Waking("rd", k) ELSE k
<1>1. /\ pc[t].at = "close" /\ Move(t, x) /\ mode' = mode
      /\ nwriters' = nwriters - IF Writes(pc[t].mode) THEN 1 ELSE 0
  <2>1. pc[t].at = "close" /\ mode' = mode
    BY DEF CloseCounts, Does
  <2>2. Move(t, x)
    BY DEF CloseCounts
  <2>3. nwriters' = nwriters - IF Writes(pc[t].mode) THEN 1 ELSE 0
    BY DEF CloseCounts
  <2> QED
    BY <2>1, <2>2, <2>3
<1>2. mode[t] = "none"
  BY <1>1, Places
<1>3. k.at = "closed"
  BY DEF At
<1>4. Waking("rd", k).at = "test" /\ Waking("rd", k).then = k
  BY DEF Waking
<1> HIDE DEF k
<1>5. ~Opening(x)
  <2>1. CASE Writes(pc[t].mode) /\ nwriters = 1
    BY <1>3, <1>4, <2>1, NotOpening
  <2>2. CASE ~(Writes(pc[t].mode) /\ nwriters = 1)
    BY <1>3, <2>2, NotOpening
  <2> QED
    BY <2>1, <2>2
<1> HIDE DEF x
<1>6. nwriters \in Nat
  BY WriterNat
<1>7. Writer(t) <=> Writes(pc[t].mode)
  BY <1>1, <1>2 DEF Writer, WriterAt, Opening
<1>8. pc'[t] = x /\ \A u \in Thread : u # t => pc'[u] = pc[u]
  BY <1>1, MoveGoes DEF Goes
<1>9. \A u \in Thread : u # t => (Writer(u)' <=> Writer(u))
  BY <1>1, <1>8 DEF Writer
<1>10. ~Writer(t)'
  BY <1>1, <1>2, <1>5, <1>8 DEF Writer, WriterAt
<1>11. /\ Writes(pc[t].mode) => nwriters' = nwriters - 1
       /\ ~Writes(pc[t].mode) => nwriters' = nwriters
  BY <1>1, <1>6, SMTT(30)
<1> QED
  BY <1>7, <1>9, <1>10, <1>11, WriterCount

\* When close() frees the buffer, nobody else has a file.
LEMMA LastFile ==
  ASSUME Cardinals, IInv, NEW t \in Thread, CloseLast(t), NEW u \in Thread, u # t
  PROVE  ~HasFile(u)
<1> DEFINE F == {v \in Thread : HasFile(v)}
<1> pc[t].at = "close" /\ refs <= 1
  BY DEF CloseLast, Does
<1>1. HasFile(t)
  BY DEF HasFile
<1> IsFiniteSet(F) /\ refs = Cardinality(F) /\ t \in F
  BY <1>1, PipeAssumption, PartFinite DEF IInv, RefInv
<1>3. u \in F <=> HasFile(u)
  OBVIOUS
<1> HIDE DEF F
<1> IsFiniteSet(F \ {t}) /\ Cardinality(F \ {t}) = Cardinality(F) - 1
  BY OneLess
<1>5. Cardinality(F) \in Nat /\ Cardinality(F \ {t}) \in Nat
  BY CardinalNat
<1>6. Cardinality(F \ {t}) = 0
  BY <1>5, SMTT(30)
<1>7. F \ {t} = {}
  BY <1>6, NoMembers
<1> QED
  BY <1>3, <1>7

\* close() of the last file.
LEMMA WriterLast ==
  ASSUME Cardinals, IInv, NEW t \in Thread, CloseLast(t)
  PROVE  WriterInv'
<1>1. pc[t].at = "close" /\ Move(t, At("closed")) /\ mode' = mode /\ nwriters' = 0
  BY DEF CloseLast, Does, Goto, Move
<1>2. mode[t] = "none"
  BY <1>1, Places
<1>3. pc'[t] = At("closed") /\ \A u \in Thread : u # t => pc'[u] = pc[u]
  BY <1>1, MoveGoes DEF Goes
<1>4. ASSUME NEW u \in Thread
      PROVE  ~Writer(u)'
  <2>1. CASE u = t
    <3>1. At("closed").at = "closed"
      BY DEF At
    <3>2. pc'[u].at = "closed" /\ mode'[u] = "none"
      BY <1>1, <1>2, <1>3, <2>1, <3>1, Zenon
    <3> QED
      BY <3>2 DEF Writer, WriterAt, Opening
  <2>2. CASE u # t
    <3>1. ~HasFile(u) /\ pc'[u] = pc[u] /\ mode'[u] = mode[u]
      BY <1>1, <1>3, <2>2, LastFile
    <3> QED
      BY <3>1 DEF Writer, WriterAt, Opening, HasFile
  <2> QED
    BY <2>1, <2>2
<1>5. {u \in Thread : Writer(u)'} = {}
  BY <1>4
<1> QED
  BY <1>1, <1>5, NoMembers DEF WriterInv

\* At first there are no writers.
LEMMA WriterInit ==
  ASSUME Cardinals
  PROVE  Init => WriterInv
<1> SUFFICES ASSUME Init PROVE WriterInv
  OBVIOUS
<1>1. \A t \in Thread : pc[t].at = "user" /\ mode[t] = "none"
  BY DEF Init, ThreadsInit, At
<1>2. nwriters = 0
  BY DEF Init
<1>3. {t \in Thread : Writer(t)} = {}
  BY <1>1 DEF Writer, WriterAt, Opening
<1> QED
  BY <1>2, <1>3, NoMembers DEF WriterInv

\* Every step keeps the count of the writers.
LEMMA WriterStep ==
  ASSUME Cardinals
  PROVE  IInv /\ WriterInv /\ [Next]_vars => WriterInv'
<1> SUFFICES ASSUME IInv, WriterInv, [Next]_vars PROVE WriterInv'
  OBVIOUS
<1>1. CASE UNCHANGED vars
  BY <1>1 DEF WriterInv, Writer, WriterAt, Opening, vars, threadvars, openvars
<1>2. ASSUME NEW t \in Thread,
             \/ \E m \in Modes : Open(t, m)
             \/ OpenFails(t) \/ Opened(t) \/ OpenWaits(t) \/ OpenReturns(t)
             \/ OpenCloses(t) \/ Close(t) \/ Closed(t)
      PROVE  WriterInv'
  BY <1>2, WriterOpens
<1>3. ASSUME NEW t \in Thread, OpenCounts(t) \/ CloseCounts(t) \/ CloseLast(t)
      PROVE  WriterInv'
  BY <1>3, WriterCounted, WriterUncounted, WriterLast
<1>4. ASSUME NEW t \in Thread,
             \/ \E n \in ReadLengths : Read(t, n)
             \/ \E n \in WriteLengths : Write(t, n)
             \/ ReadNothing(t) \/ ReadGives(t) \/ ReadSleeps(t) \/ ReadWakes(t) \/ ReadFails(t)
             \/ ReadBytes(t) \/ ReadReturns(t)
             \/ WriteByte(t) \/ WriteReturns(t) \/ WriteFull(t) \/ WriteReturnsPart(t) \/ WriteGives(t)
             \/ WriteSleeps(t) \/ WriteWakes(t)
             \/ \E e \in {f[2] : f \in PollFor} : Poll(t, e)
             \/ PollBusy(t) \/ PollSetup(t) \/ PollSleeps(t) \/ Polled(t) \/ PollReturns(t)
      PROVE  WriterInv'
  BY <1>4, WriterUses
<1>5. ASSUME NEW t \in Thread,
             WakeTests(t) \/ WakePosts(t) \/ WaitEnds(t) \/ TakeEnds(t) \/ Signal(t)
      PROVE  WriterInv'
  BY <1>5, WriterWaits
<1>6. CASE Next
  BY <1>2, <1>3, <1>4, <1>5, <1>6 DEF Next
<1> QED
  BY <1>1, <1>6

-----------------------------------------------------------------------------
(* The steps under d_bfsem.                                                *)

\* A step under d_bfsem that may change the pipe.
LEMMA HolderKeeps ==
  ASSUME SInv, IInv', NEW t \in Thread, NEW k, Runs(t), MovesOn(t, k), pc[t].at \in Holding,
         nwriters' \in Int, Reasoned(k, t, cpu', nwriters', Used'), NoSleeperForgotten'
  PROVE  SInv'
<1>1. SemInv /\ HoldInv /\ BridgeInv /\ Goes(t, k)
  BY DEF SInv, MovesOn
<1>2. SemInv' /\ HoldInv'
  BY <1>1, SemMoves
<1>3. BridgeInv'
  BY <1>1, BridgeStep
<1> QED
  BY <1>2, <1>3 DEF SInv

\* It wakes those for whom it makes bytes or room, and stops to wake when
\* nobody is left.
LEMMA HolderHeard ==
  ASSUME NoSleeperForgotten, NEW t \in Thread, NEW k, MovesOn(t, k),
         Some' => Some \/ Waker(k, "rd"), Room' => Room \/ Waker(k, "wr"),
         Opens' => Opens \/ Waker(k, "rd"),
         Waker(pc[t], "rd") => Waker(k, "rd") \/ sem["rd"].q = {},
         Waker(pc[t], "wr") => Waker(k, "wr") \/ sem["wr"].q = {}
  PROVE  NoSleeperForgotten'
<1> Heard("rd", "bytes", Some) /\ Heard("wr", "again", Room) /\ Heard("rd", "found", Opens)
  BY AllHeard
<1> sem' = sem /\ Goes(t, k) /\ k.at \notin {"wait", "take"}
  BY DEF MovesOn
<1> /\ \A u \in Thread : u # t /\ u \in sem'["rd"].q => u \in sem["rd"].q
    /\ \A u \in Thread : u # t /\ u \in sem'["wr"].q => u \in sem["wr"].q
    /\ Waker(pc[t], "rd") => Waker(k, "rd") \/ sem'["rd"].q = {}
    /\ Waker(pc[t], "wr") => Waker(k, "wr") \/ sem'["wr"].q = {}
  OBVIOUS
<1>4. \A u \in Thread : Sleeps(u, "rd", "bytes")' /\ Some' => Wakes("rd")'
  BY HeardStep
<1>5. \A u \in Thread : Sleeps(u, "wr", "again")' /\ Room' => Wakes("wr")'
  BY HeardStep
<1>6. \A u \in Thread : Sleeps(u, "rd", "found")' /\ Opens' => Wakes("rd")'
  BY HeardStep
<1> QED
  BY <1>4, <1>5, <1>6 DEF NoSleeperForgotten, Some, Room, Opens

\* A step of the holder in the form of MovesOn.
LEMMA HolderForm ==
  ASSUME SInv, NEW t \in Thread, NEW k, Runs(t), Move(t, k), UNCHANGED <<sem, res>>, slots' = slots,
         pc[t].at \in Holding, k.at \in Holding, PlaceInv(k)
  PROVE  MovesOn(t, k)
<1>1. Goes(t, k)
  BY MoveGoes DEF SInv
<1>2. Holds(t) /\ ~Blocked(t)
  BY DEF Holds, Runs
<1>3. k.at \notin {"wait", "take"}
  BY DEF Holding
<1> QED
  BY <1>1, <1>2, <1>3 DEF MovesOn

\* The places where the loops that wake go on.
Woken == {"opened", "closed", "readend", "writeend", "full"}

\* The loops that wake.
LEMMA WakingPlace ==
  ASSUME NEW s, s = "rd" \/ s = "wr", NEW k, k.at \in Woken
  PROVE  /\ Waking(s, k).at = "test" /\ Waking(s, k).sem = s /\ Waking(s, k).then = k
         /\ PlaceInv(Waking(s, k)) /\ Waker(Waking(s, k), s)
<1> DEFINE x == Waking(s, k)
<1>1. x.at = "test" /\ x.sem = s /\ x.then = k
  BY DEF Waking
<1> HIDE DEF x
<1>2. PlaceInv(x) /\ Waker(x, s)
  BY <1>1 DEF PlaceInv, Waker, Woken
<1> QED
  BY <1>1, <1>2 DEF x

\* What every step under d_bfsem shares.
LEMMA UnderBf ==
  ASSUME SInv, IInv', NEW t \in Thread, NEW k, Runs(t), Move(t, k), UNCHANGED <<sem, res>>, slots' = slots,
         pc[t].at \in Holding, k.at \in Holding, PlaceInv(k), nwriters' \in Int,
         Reasoned(k, t, cpu', nwriters', Used'),
         Some' => Some \/ Waker(k, "rd"), Room' => Room \/ Waker(k, "wr"),
         Opens' => Opens \/ Waker(k, "rd"),
         Waker(pc[t], "rd") => Waker(k, "rd") \/ sem["rd"].q = {},
         Waker(pc[t], "wr") => Waker(k, "wr") \/ sem["wr"].q = {}
  PROVE  SInv'
<1>1. MovesOn(t, k)
  BY HolderForm
<1>2. NoSleeperForgotten
  BY DEF SInv
<1>3. NoSleeperForgotten'
  BY <1>1, <1>2, HolderHeard
<1> QED
  BY <1>1, <1>3, HolderKeeps

\* An open file is counted; the first writer wakes those who wait for it.
LEMMA OpenCountsKeeps ==
  ASSUME Cardinals, SInv, IInv', WriterInv, NEW t \in Thread, OpenCounts(t)
  PROVE  SInv'
<1> DEFINE k == [pc[t] EXCEPT !.at = "opened"]
           x == IF Writes(pc[t].mode) /\ nwriters = 0 THEN Waking("rd", k) ELSE k
<1>1. /\ Runs(t) /\ pc[t].at = "open" /\ Move(t, x) /\ UNCHANGED <<sem, res>> /\ mode' = mode
      /\ nwriters' = nwriters + IF Writes(pc[t].mode) THEN 1 ELSE 0
      /\ wrndx' = wrndx /\ rdndx' = rdndx /\ slots' = slots
  <2>1. Runs(t) /\ pc[t].at = "open" /\ UNCHANGED <<sem, res>> /\ mode' = mode
    BY DEF OpenCounts, Does
  <2>2. wrndx' = wrndx /\ rdndx' = rdndx /\ slots' = slots
    BY DEF OpenCounts, ringvars, pollvars
  <2>3. Move(t, x)
    BY DEF OpenCounts
  <2>4. nwriters' = nwriters + IF Writes(pc[t].mode) THEN 1 ELSE 0
    BY DEF OpenCounts
  <2> QED
    BY <2>1, <2>2, <2>3, <2>4
<1>2. pc[t] \in [at : {"open", "opened", "close"}, mode : AnyMode] /\ mode[t] = "none"
  BY <1>1, Places DEF SInv
<1>3. k.at = "opened" /\ k.mode = pc[t].mode /\ k.at \in Woken
  BY <1>2 DEF Woken
<1> HIDE DEF k
<1>4. /\ Waking("rd", k).at = "test" /\ Waking("rd", k).sem = "rd" /\ Waking("rd", k).then = k
      /\ PlaceInv(Waking("rd", k)) /\ Waker(Waking("rd", k), "rd")
  BY <1>3, WakingPlace
<1>5. /\ x.at \in {"opened", "test"} /\ (x.at = "test" => x.then.at = "opened") /\ PlaceInv(x)
      /\ Writes(pc[t].mode) /\ nwriters = 0 => Waker(x, "rd")
  <2>1. CASE Writes(pc[t].mode) /\ nwriters = 0
    BY <1>3, <1>4, <2>1
  <2>2. CASE ~(Writes(pc[t].mode) /\ nwriters = 0)
    BY <1>3, <2>2 DEF PlaceInv
  <2> QED
    BY <2>1, <2>2
<1> HIDE DEF x
<1>6. nwriters \in Nat
  BY WriterNat
<1>7. /\ nwriters' \in Nat /\ (nwriters' = 0 => nwriters = 0)
      /\ nwriters' > 0 => nwriters > 0 \/ (Writes(pc[t].mode) /\ nwriters = 0)
  BY <1>1, <1>6, SMTT(30)
<1>8. Used' = Used
  BY <1>1 DEF Used
<1>9. (Some' => Some) /\ (Room' => Room) /\ (Opens' => Opens \/ Waker(x, "rd"))
  BY <1>5, <1>7, <1>8 DEF Some, Room, Opens
<1>10. nwriters' \in Int
  BY <1>7, SMT
<1>11. Reasoned(x, t, cpu', nwriters', Used')
  BY <1>5 DEF Reasoned, Bridge
<1>12. pc[t].at \in Holding /\ x.at \in Holding /\ ~Waker(pc[t], "rd") /\ ~Waker(pc[t], "wr")
  BY <1>1, <1>5 DEF Holding, Waker
<1> QED
  BY <1>1, <1>5, <1>9, <1>10, <1>11, <1>12, UnderBf

\* A file is closed; the last writer wakes the readers.
LEMMA CloseCountsKeeps ==
  ASSUME Cardinals, SInv, IInv', WriterInv, NEW t \in Thread, CloseCounts(t)
  PROVE  SInv'
<1> DEFINE k == At("closed")
           x == IF Writes(pc[t].mode) /\ nwriters = 1 THEN Waking("rd", k) ELSE k
<1> /\ Runs(t) /\ pc[t].at = "close" /\ Move(t, x) /\ UNCHANGED <<sem, res>> /\ mode' = mode
    /\ nwriters' = nwriters - IF Writes(pc[t].mode) THEN 1 ELSE 0
    /\ wrndx' = wrndx /\ rdndx' = rdndx /\ slots' = slots
  <2>1. Runs(t) /\ pc[t].at = "close" /\ UNCHANGED <<sem, res>> /\ mode' = mode
    BY DEF CloseCounts, Does
  <2>2. wrndx' = wrndx /\ rdndx' = rdndx /\ slots' = slots
    BY DEF CloseCounts, ringvars, pollvars
  <2>3. Move(t, x)
    BY DEF CloseCounts
  <2>4. nwriters' = nwriters - IF Writes(pc[t].mode) THEN 1 ELSE 0
    BY DEF CloseCounts
  <2> QED
    BY <2>1, <2>2, <2>3, <2>4
<1> k.at = "closed" /\ k.at \in Woken
  BY DEF At, Woken
<1> HIDE DEF k
<1>4. /\ Waking("rd", k).at = "test" /\ Waking("rd", k).sem = "rd" /\ Waking("rd", k).then = k
      /\ PlaceInv(Waking("rd", k)) /\ Waker(Waking("rd", k), "rd")
  BY WakingPlace
<1> /\ x.at \in {"closed", "test"} /\ (x.at = "test" => x.then.at = "closed") /\ PlaceInv(x)
    /\ Writes(pc[t].mode) /\ nwriters = 1 => Waker(x, "rd")
  <2>1. CASE Writes(pc[t].mode) /\ nwriters = 1
    BY <1>4, <2>1
  <2>2. CASE ~(Writes(pc[t].mode) /\ nwriters = 1)
    BY <2>2 DEF PlaceInv
  <2> QED
    BY <2>1, <2>2
<1> HIDE DEF x
<1>7. nwriters \in Nat
  BY WriterNat
<1>8. /\ nwriters' \in Int /\ (nwriters' > 0 => nwriters > 0)
      /\ nwriters' = 0 => nwriters = 0 \/ (Writes(pc[t].mode) /\ nwriters = 1)
  BY <1>7, SMTT(30)
<1>9. Used' = Used
  BY DEF Used
<1>10. (Some' => Some \/ Waker(x, "rd")) /\ (Room' => Room) /\ (Opens' => Opens)
  BY <1>8, <1>9 DEF Some, Room, Opens
<1>11. Reasoned(x, t, cpu', nwriters', Used')
  BY DEF Reasoned, Bridge
<1>12. pc[t].at \in Holding /\ x.at \in Holding /\ ~Waker(pc[t], "rd") /\ ~Waker(pc[t], "wr")
  BY DEF Holding, Waker
<1> QED
  BY <1>8, <1>10, <1>11, <1>12, UnderBf

\* The last file is closed: nobody else has one, so nobody sleeps.
LEMMA CloseLastKeeps ==
  ASSUME Cardinals, SInv, IInv', NEW t \in Thread, CloseLast(t)
  PROVE  SInv'
<1> DEFINE k == At("closed")
<1> /\ Runs(t) /\ pc[t].at = "close" /\ Move(t, k) /\ UNCHANGED <<sem, res>> /\ mode' = mode
    /\ nwriters' = 0 /\ slots' = slots /\ refs <= 1
  BY DEF CloseLast, Does, Goto, Move, pollvars
<1> k.at = "closed" /\ k.at \in Holding /\ PlaceInv(k) /\ pc[t].at \in Holding
  BY DEF At, Holding, PlaceInv
<1> HIDE DEF k
<1> IInv /\ mode[t] = "none"
  BY Places DEF SInv
<1>4. \A u \in Thread : u # t => ~HasFile(u)
  BY LastFile
<1> pc'[t] = k /\ \A u \in Thread : u # t => pc'[u] = pc[u]
  BY MoveGoes DEF Goes
<1>6. ASSUME NEW u \in Thread, NEW x, NEW l \in {"bytes", "again", "found"}, Sleeps(u, x, l)'
      PROVE  FALSE
  <2>1. u # t
    BY <1>6 DEF Sleeps
  <2> pc[u].at \in {"wait", "take"} /\ pc[u].then.at = l
    BY <1>6, <2>1 DEF Sleeps
  <2>3. Simple(pc[u].then, mode[u])
    BY Places
  <2>4. HasFile(u)
    <3>1. CASE l = "found"
      BY <3>1 DEF HasFile
    <3>2. CASE l # "found"
      <4>1. mode[u] \in AnyMode
        BY <2>3, <3>2, SMTT(30) DEF Simple, OpenStage, At
      <4> QED
        BY <4>1 DEF HasFile, AnyMode
    <3> QED
      BY <3>1, <3>2
  <2> QED
    BY <1>4, <2>1, <2>4
<1>7. NoSleeperForgotten'
  BY <1>6 DEF NoSleeperForgotten
<1>8. MovesOn(t, k)
  BY HolderForm
<1>9. nwriters' \in Int
  BY SMT
<1>10. Reasoned(k, t, cpu', nwriters', Used')
  BY IdlesReasoned DEF Idles, Bridge
<1> QED
  BY <1>7, <1>8, <1>9, <1>10, HolderKeeps

\* The steps that move bytes: who makes bytes wakes the readers, and who makes
\* room the writers.
LEMMA BytesKeep ==
  ASSUME SInv, IInv', NEW t \in Thread, ReadBytes(t) \/ WriteByte(t) \/ WriteFull(t)
  PROVE  SInv'
<1>1. /\ Runs(t) /\ pc[t].at \in {"read", "write"} /\ UNCHANGED <<sem, res>>
      /\ nwriters' = nwriters /\ slots' = slots
  BY DEF ReadBytes, WriteByte, WriteFull, Does, openvars, pollvars
<1>2. nwriters' \in Int /\ Opens' = Opens
  BY <1>1 DEF SInv, BridgeInv, Opens
<1>3. pc[t].at \in Holding /\ ~Waker(pc[t], "wr")
  BY <1>1 DEF Holding, Waker
<1>4. /\ Used \in 0..(Size - 1) /\ Size \in Nat /\ Size > 1
      /\ wrndx = rdndx <=> Used = 0
      /\ (wrndx + 1) % Size = rdndx <=> Used = Size - 1
  BY UsedEmpty DEF SInv
<1>5. (Used # 0 => Some) /\ (Used # Size - 1 => Room)
  BY <1>4, SMT DEF Some, Room
<1>6. ASSUME NEW k, Move(t, k), k.at \in Holding, PlaceInv(k), Reasoned(k, t, cpu', nwriters', Used'),
             Some' => Some \/ Waker(k, "rd"), Room' => Room \/ Waker(k, "wr"),
             Waker(pc[t], "rd") => Waker(k, "rd")
      PROVE  SInv'
  BY <1>1, <1>2, <1>3, <1>6, UnderBf
<1>7. CASE ReadBytes(t)
  <2> DEFINE k == Waking("wr", At("readend"))
  <2>1. Move(t, k) /\ pc[t].at = "read" /\ wrndx # rdndx
    BY <1>7 DEF ReadBytes, Does
  <2>2. At("readend").at = "readend" /\ At("readend").at \in Woken
    BY DEF At, Woken
  <2>3. k.at = "test" /\ k.then = At("readend") /\ PlaceInv(k) /\ Waker(k, "wr")
    BY <2>2, WakingPlace, SMTT(30)
  <2> HIDE DEF k
  <2>4. k.at \in Holding /\ k.at \notin Bridge
    BY <2>3 DEF Holding, Bridge
  <2>5. Reasoned(k, t, cpu', nwriters', Used')
    BY <2>2, <2>3, <2>4 DEF Reasoned
  <2>6. Some /\ ~Waker(pc[t], "rd")
    BY <1>4, <1>5, <2>1 DEF Waker
  <2> QED
    BY <1>6, <2>1, <2>3, <2>4, <2>5, <2>6
<1>8. CASE WriteByte(t)
  <2>1. pc[t].at = "write" /\ (wrndx + 1) % Size # rdndx /\ pc[t] \in WriteStage
    BY <1>8, Places DEF WriteByte, Does, SInv
  <2>2. Room
    BY <1>4, <1>5, <2>1
  <2>3. CASE pc[t].n = 1
    <3> DEFINE k == Waking("rd", At("writeend"))
    <3>1. Move(t, k)
      BY <1>8, <2>3 DEF WriteByte
    <3>2. At("writeend").at = "writeend" /\ At("writeend").at \in Woken
      BY DEF At, Woken
    <3>3. k.at = "test" /\ k.then = At("writeend") /\ PlaceInv(k) /\ Waker(k, "rd")
      BY <3>2, WakingPlace, SMTT(30)
    <3> HIDE DEF k
    <3>4. k.at \in Holding /\ k.at \notin Bridge
      BY <3>3 DEF Holding, Bridge
    <3>5. Reasoned(k, t, cpu', nwriters', Used')
      BY <3>2, <3>3, <3>4 DEF Reasoned
    <3> QED
      BY <1>6, <2>2, <3>1, <3>3, <3>4, <3>5
  <2>4. CASE pc[t].n # 1
    <3> DEFINE k == [pc[t] EXCEPT !.n = pc[t].n - 1, !.put = TRUE]
    <3>1. Move(t, k)
      BY <1>8, <2>4 DEF WriteByte
    <3>2. k.at = "write" /\ k.put = TRUE
      BY <2>1 DEF WriteStage
    <3> HIDE DEF k
    <3>3. Waker(k, "rd") /\ k.at \in Holding /\ PlaceInv(k) /\ Reasoned(k, t, cpu', nwriters', Used')
      BY <3>2 DEF Waker, Holding, PlaceInv, Reasoned, Bridge
    <3> QED
      BY <1>6, <2>2, <3>1, <3>3
  <2> QED
    BY <2>3, <2>4
<1>9. CASE WriteFull(t)
  <2> DEFINE k == [pc[t] EXCEPT !.at = "full", !.put = FALSE]
             x == IF pc[t].put THEN Waking("rd", k) ELSE k
  <2>1. Move(t, x) /\ pc[t].at = "write" /\ (wrndx + 1) % Size = rdndx /\ wrndx' = wrndx /\ rdndx' = rdndx
    BY <1>9 DEF WriteFull, Does, ringvars
  <2>2. pc[t] \in WriteStage
    BY <2>1, Places DEF SInv
  <2>3. k.at = "full" /\ k.at \in Woken
    BY <2>2 DEF WriteStage, Woken
  <2> HIDE DEF k
  <2>4. /\ Waking("rd", k).at = "test" /\ Waking("rd", k).sem = "rd" /\ Waking("rd", k).then = k
        /\ PlaceInv(Waking("rd", k)) /\ Waker(Waking("rd", k), "rd")
    BY <2>3, WakingPlace
  <2>5. Used' = Used /\ Used = Size - 1 /\ Some' = Some /\ Room' = Room
    BY <1>1, <1>4, <2>1 DEF Used, Some, Room
  <2>6. CASE pc[t].put
    <3>1. x = Waking("rd", k)
      BY <2>6
    <3> HIDE DEF x
    <3>2. x.at = "test" /\ x.then = k /\ PlaceInv(x) /\ Waker(x, "rd")
      BY <2>4, <3>1
    <3>3. x.at \in Holding /\ Reasoned(x, t, cpu', nwriters', Used')
      <4>1. x.at \in Holding /\ x.at \notin Bridge
        BY <3>2 DEF Holding, Bridge
      <4>2. Used' = Size - 1
        BY <2>5
      <4> QED
        BY <3>2, <4>1, <4>2 DEF Reasoned
    <3> QED
      BY <1>6, <2>1, <2>5, <3>2, <3>3
  <2>7. CASE ~pc[t].put
    <3>1. x = k
      BY <2>7
    <3> HIDE DEF x
    <3>2. x.at \in Holding /\ PlaceInv(x) /\ Reasoned(x, t, cpu', nwriters', Used')
      BY <2>3, <2>5, <3>1 DEF Holding, PlaceInv, Reasoned, Bridge
    <3>3. ~Waker(pc[t], "rd")
      BY <2>1, <2>7 DEF Waker
    <3> QED
      BY <1>6, <2>1, <2>5, <3>2, <3>3
  <2> QED
    BY <2>6, <2>7
<1> QED
  BY <1>7, <1>8, <1>9

\* Nobody waits for a semaphore of the pipe whose count is not negative.
LEMMA NobodyWaits ==
  ASSUME Cardinals, SemType, NEW s \in {"bf", "rd", "wr"}, ~(Semcount(sem[s]) < 0)
  PROVE  sem[s].q = {}
<1> DEFINE c == sem[s].cnt
           q == sem[s].q
<1>1. sem[s] \in SemRecord
  BY SemNames DEF SemType
<1>2. c \in Nat /\ q \in SUBSET Thread
  BY <1>1 DEF SemRecord
<1>3. c > 0 => q = {}
  BY DEF SemType
<1>4. ~(c - Cardinality(q) < 0)
  BY DEF Semcount
<1> HIDE DEF c, q
<1>5. IsFiniteSet(Thread)
  BY PipeAssumption
<1>6. IsFiniteSet(q)
  BY <1>2, <1>5, PartFinite
<1>7. Cardinality(q) \in Nat
  BY <1>6, CardinalNat
<1>8. c > 0 \/ Cardinality(q) = 0
  BY <1>2, <1>4, <1>7, SMT
<1>9. q = {}
  BY <1>3, <1>6, <1>8, NoMembers
<1> QED
  BY <1>9 DEF q

\* A pass of a loop that wakes.
LEMMA WakesKeep ==
  ASSUME Cardinals, SInv, IInv', NEW t \in Thread, WakeTests(t) \/ WakePosts(t)
  PROVE  SInv'
<1> DEFINE s == pc[t].sem
<1> /\ Runs(t) /\ pc[t].at \in {"test", "post"} /\ ~Blocked(t)
    /\ wrndx' = wrndx /\ rdndx' = rdndx /\ nwriters' = nwriters /\ slots' = slots
  BY DEF WakeTests, WakePosts, Does, Runs, ringvars, openvars, pollvars
<1> PlaceInv(pc[t]) /\ Reasoned(pc[t], t, cpu, nwriters, Used) /\ nwriters \in Int
  BY DEF SInv, SemInv, Stands, BridgeInv
<1> (s = "rd" \/ s = "wr") /\ pc[t].then.at \in Woken
  BY DEF PlaceInv, Woken
<1> Used' = Used /\ Some' = Some /\ Room' = Room /\ Opens' = Opens /\ nwriters' \in Int
  BY DEF Used, Some, Room, Opens
<1> pc[t].at \in Holding /\ \A x : Waker(pc[t], x) <=> x = s
  BY DEF Holding, Waker
<1>6. ASSUME NEW l \in {"test", "post"}
      PROVE  LET k == [pc[t] EXCEPT !.at = l] IN
             /\ k.at = l /\ k.sem = s /\ k.then = pc[t].then /\ k.at \in Holding /\ PlaceInv(k)
             /\ Waker(k, s) /\ Reasoned(k, t, cpu', nwriters', Used')
  <2> DEFINE k == [pc[t] EXCEPT !.at = l]
  <2>1. DOMAIN pc[t] = {"at", "sem", "then"}
    BY Places DEF SInv
  <2> k.at = l /\ k.sem = s /\ k.then = pc[t].then
    BY <2>1
  <2> HIDE DEF k
  <2>3. k.at \in Holding /\ PlaceInv(k) /\ Waker(k, s)
    BY DEF Holding, PlaceInv, Waker, Woken
  <2>4. pc[t].then.at = "full" => Used = Size - 1
    BY DEF Reasoned
  <2>5. Reasoned(k, t, cpu', nwriters', Used')
    BY <2>4 DEF Reasoned, Bridge
  <2> QED
    BY <2>3, <2>5 DEF k
<1>7. CASE WakeTests(t)
  <2>1. pc[t].at = "test" /\ UNCHANGED <<sem, res>>
    BY <1>7 DEF WakeTests, Does
  <2>2. CASE Semcount(sem[s]) < 0
    <3> DEFINE k == [pc[t] EXCEPT !.at = "post"]
    <3>1. Move(t, k)
      BY <1>7, <2>2 DEF WakeTests
    <3>2. k.at \in Holding /\ PlaceInv(k) /\ Waker(k, s) /\ Reasoned(k, t, cpu', nwriters', Used')
      BY <1>6
    <3> HIDE DEF k
    <3> QED
      BY <2>1, <3>1, <3>2, UnderBf
  <2>3. CASE ~(Semcount(sem[s]) < 0)
    <3> DEFINE k == pc[t].then
    <3>1. Move(t, k)
      BY <1>7, <2>3 DEF WakeTests
    <3>2. sem[s].q = {}
      BY <2>3, NobodyWaits DEF SInv, SemInv
    <3>3. k.at \in Holding /\ PlaceInv(k)
      BY DEF Woken, Holding, PlaceInv
    <3>4. k.at = "full" => Used = Size - 1
      BY DEF Reasoned
    <3>5. Reasoned(k, t, cpu', nwriters', Used')
      BY <3>4 DEF Reasoned, Bridge, Woken
    <3> HIDE DEF k
    <3> QED
      BY <2>1, <3>1, <3>2, <3>3, <3>5, UnderBf
  <2> QED
    BY <2>2, <2>3
<1>8. CASE WakePosts(t)
  <2> DEFINE k == [pc[t] EXCEPT !.at = "test"]
  <2>1. Move(t, k) /\ SemPost(s)
    BY <1>8 DEF WakePosts, Give
  <2> k.at \in Holding /\ PlaceInv(k) /\ Waker(k, s) /\ Reasoned(k, t, cpu', nwriters', Used')
    BY <1>6
  <2> HIDE DEF k
  <2> Goes(t, k) /\ SemInv /\ HoldInv /\ BridgeInv /\ NoSleeperForgotten
    BY <2>1, MoveGoes DEF SInv
  <2>4. PostsTo(t, s, k)
    BY <2>1 DEF PostsTo
  <2>5. SemInv' /\ HoldInv' /\ \A y \in Sem : sem'[y].q \subseteq sem[y].q
    BY <2>4, SemPosts
  <2>6. BridgeInv'
    BY BridgeStep
  <2>7. \A u \in Thread : \A x \in {"rd", "wr"} : u \in sem'[x].q => u # t /\ u \in sem[x].q
    BY <2>5, SemNames DEF Blocked
  <2>8. \A x \in {"rd", "wr"} : Waker(pc[t], x) => Waker(k, x)
    OBVIOUS
  <2>9. NoSleeperForgotten'
    BY <2>7, <2>8, HeardSame
  <2> QED
    BY <2>5, <2>6, <2>9 DEF SInv
<1> QED
  BY <1>7, <1>8

\* A signal.
LEMMA SignalKeeps ==
  ASSUME SInv, IInv', "wr" \notin Interruptible, NEW t \in Thread, Signal(t)
  PROVE  SInv'
<1> SemInv /\ HoldInv /\ BridgeInv /\ NoSleeperForgotten
  BY DEF SInv
<1>2. SemEnd(t, "EINTR") /\ UNCHANGED <<pc, slots>> /\ pc[t].sem # "wr"
  BY DEF Signal, Interrupted, pollvars
<1> /\ pc' = pc /\ wrndx' = wrndx /\ rdndx' = rdndx /\ nwriters' = nwriters
    /\ cpu # t => cpu' = cpu
  BY DEF Signal, Interrupted, ringvars, openvars
<1>4. SemInv' /\ HoldInv' /\ \A y \in Sem : sem'[y].q \subseteq sem[y].q
  BY <1>2, SemSignals
<1>5. Used' = Used
  BY DEF Used
<1>6. BridgeInv'
  <2>1. pc[t].at \notin Bridge
    BY DEF Signal, Bridge
  <2>2. ASSUME NEW u \in Thread
        PROVE  Reasoned(pc[u], u, cpu', nwriters, Used)
    <3>1. Reasoned(pc[u], u, cpu, nwriters, Used)
      BY DEF BridgeInv
    <3>2. pc[u].at \in Bridge => cpu' = u
      BY <2>1, <3>1 DEF Reasoned
    <3> QED
      BY <3>1, <3>2 DEF Reasoned
  <2> QED
    BY <1>5, <2>2 DEF BridgeInv
<1>7. \A u \in Thread : \A x \in {"rd", "wr"} : u \in sem'[x].q => u \in sem[x].q
  BY <1>4, SemNames
<1>8. NoSleeperForgotten'
  <2>1. /\ Wakes("rd")' <=> Wakes("rd")
        /\ Wakes("wr")' <=> Wakes("wr")
    BY DEF Wakes
  <2>2. \A u \in Thread : \A l : /\ Sleeps(u, "rd", l)' => Sleeps(u, "rd", l)
                                 /\ Sleeps(u, "wr", l)' => Sleeps(u, "wr", l)
    BY <1>7 DEF Sleeps
  <2> QED
    BY <1>5, <2>1, <2>2 DEF NoSleeperForgotten
<1> QED
  BY <1>4, <1>6, <1>8 DEF SInv

-----------------------------------------------------------------------------
(* The theorem about sleepers.                                             *)

\* The invariant of the initial states.
LEMMA SleepInit ==
  ASSUME Cardinals
  PROVE  Init => SInv
<1> SUFFICES ASSUME Init PROVE SInv
  OBVIOUS
<1>1. IInv
  BY InitInv
<1> /\ sem = [s \in Sem |-> SemInit(IF s = "bf" THEN 1 ELSE 0)] /\ res = [t \in Thread |-> "OK"]
    /\ pc = [t \in Thread |-> At("user")] /\ mode = [t \in Thread |-> "none"]
    /\ nwriters = 0 /\ slots = {}
  BY DEF Init, ThreadsInit
<1> \A s \in Sem : sem[s] \in SemRecord /\ sem[s].q = {}
  <2>1. SemInit(0) \in SemRecord /\ SemInit(1) \in SemRecord /\ SemInit(0).q = {} /\ SemInit(1).q = {}
    BY SMTT(30) DEF SemInit, SemRecord
  <2> QED
    BY <2>1
<1>4. sem["bf"].cnt = 1
  BY SemNames DEF SemInit
<1> \A t \in Thread : pc[t].at = "user" /\ mode[t] = "none"
  BY DEF At
<1>6. SemType
  <2>1. sem \in [Sem -> SemRecord]
    <3>1. sem = [s \in Sem |-> sem[s]]
      OBVIOUS
    <3> QED
      BY <3>1
  <2>2. res \in [Thread -> {"OK", "EINTR"}]
    OBVIOUS
  <2> QED
    BY <2>1, <2>2, SemNames DEF SemType
<1>7. SemInv
  BY <1>6 DEF SemInv, Stands, PlaceInv
<1>8. \A t \in Thread : ~Holds(t)
  BY DEF Holds, Holding
<1>9. HoldInv
  BY <1>4, <1>8 DEF HoldInv
<1>10. nwriters \in Int
  BY SMT
<1>11. BridgeInv
  BY <1>10 DEF BridgeInv, Reasoned, Bridge
<1>12. NoSleeperForgotten
  BY DEF NoSleeperForgotten, Sleeps
<1> QED
  BY <1>1, <1>7, <1>9, <1>11, <1>12 DEF SInv

\* Every step keeps the invariant.
LEMMA SleepStep ==
  ASSUME Cardinals, "wr" \notin Interruptible
  PROVE  SInv /\ WriterInv /\ [Next]_vars => SInv'
<1> SUFFICES ASSUME SInv, WriterInv, [Next]_vars PROVE SInv'
  OBVIOUS
<1> IInv /\ IInv'
  BY StepInv DEF SInv
<1>2. CASE UNCHANGED vars
  <2> USE DEF vars, threadvars, ringvars, openvars, pollvars
  <2>1. SemInv'
    BY <1>2 DEF SInv, SemInv, SemType, Stands
  <2>2. HoldInv' /\ BridgeInv'
    BY <1>2 DEF SInv, HoldInv, Holds, BridgeInv, Reasoned, Used
  <2>3. NoSleeperForgotten'
    <3>1. UNCHANGED <<pc, sem, nwriters, wrndx, rdndx>>
      BY <1>2
    <3>2. \A u, x, l : Sleeps(u, x, l)' = Sleeps(u, x, l)
      BY <3>1 DEF Sleeps
    <3>3. \A x : Wakes(x)' = Wakes(x)
      BY <3>1 DEF Wakes
    <3>4. Used' = Used /\ nwriters' = nwriters
      BY <3>1 DEF Used
    <3> QED
      BY <3>2, <3>3, <3>4 DEF SInv, NoSleeperForgotten
  <2> QED
    BY <2>1, <2>2, <2>3 DEF SInv
<1>3. ASSUME NEW t \in Thread,
             \/ \E m \in Modes : Open(t, m)
             \/ OpenFails(t) \/ Opened(t) \/ OpenWaits(t) \/ OpenReturns(t)
             \/ OpenCloses(t) \/ Close(t) \/ Closed(t)
      PROVE  SInv'
  BY <1>3, TakesBfKeep, GivesKeep, SleepsKeep, EndsKeep
<1>4. ASSUME NEW t \in Thread, OpenCounts(t) \/ CloseCounts(t) \/ CloseLast(t)
      PROVE  SInv'
  BY <1>4, OpenCountsKeeps, CloseCountsKeeps, CloseLastKeeps
<1>5. ASSUME NEW t \in Thread,
             \/ \E n \in ReadLengths : Read(t, n)
             \/ \E n \in WriteLengths : Write(t, n)
             \/ ReadNothing(t) \/ ReadGives(t) \/ ReadSleeps(t) \/ ReadWakes(t) \/ ReadFails(t)
             \/ ReadBytes(t) \/ ReadReturns(t)
             \/ WriteByte(t) \/ WriteReturns(t) \/ WriteFull(t) \/ WriteReturnsPart(t) \/ WriteGives(t)
             \/ WriteSleeps(t) \/ WriteWakes(t)
             \/ \E e \in {f[2] : f \in PollFor} : Poll(t, e)
             \/ PollBusy(t) \/ PollSetup(t) \/ PollSleeps(t) \/ Polled(t) \/ PollReturns(t)
      PROVE  SInv'
  BY <1>5, TakesBfKeep, GivesKeep, SleepsKeep, EndsKeep, NotifiesKeep, BytesKeep
<1>6. ASSUME NEW t \in Thread,
             WakeTests(t) \/ WakePosts(t) \/ WaitEnds(t) \/ TakeEnds(t) \/ Signal(t)
      PROVE  SInv'
  BY <1>6, WakesKeep, EndsKeep, SignalKeeps
<1>7. CASE Next
  BY <1>3, <1>4, <1>5, <1>6, <1>7 DEF Next
<1> QED
  BY <1>2, <1>7

-----------------------------------------------------------------------------
(* The theorems.                                                           *)

LOCAL INSTANCE FiniteSetTheorems

\* The finite sets of the library.
LEMMA LibraryFinite == \A S : (IsFiniteSet(S) <=> Listed(S)) /\ Cardinality(S) = SizeOf(S)
<1> TAKE S
<1>1. IsFiniteSet(S) <=> Listed(S)
  BY DEF Listed, IsFiniteSet
<1>2. Cardinality(S) = SizeOf(S)
  BY DEF SizeOf, Cardinality
<1> QED
  BY <1>1, <1>2

\* The library proves what the lemmas assume about finite sets.
LEMMA Counting == Cardinals
<1>1. Listed({}) /\ SizeOf({}) = 0
  BY LibraryFinite, FS_EmptySet
<1> SUFFICES ASSUME NEW S, Listed(S) PROVE Counted(S)
  BY <1>1 DEF Cardinals
<1>2. IsFiniteSet(S)
  BY LibraryFinite
<1>3. SizeOf(S) \in Nat
  BY <1>2, LibraryFinite, FS_CardinalityType
<1>4. SizeOf(S) = 0 <=> S = {}
  BY <1>2, LibraryFinite, FS_EmptySet
<1>5. \A T \in SUBSET S : Listed(T)
  BY <1>2, LibraryFinite, FS_Subset
<1>6. ASSUME NEW x
      PROVE  /\ Listed(S \cup {x})
             /\ SizeOf(S \cup {x}) = IF x \in S THEN SizeOf(S) ELSE SizeOf(S) + 1
  <2>1. /\ IsFiniteSet(S \cup {x})
        /\ Cardinality(S \cup {x}) = IF x \in S THEN Cardinality(S) ELSE Cardinality(S) + 1
    BY <1>2, FS_AddElement
  <2> QED
    BY <2>1, LibraryFinite, SMT
<1>7. ASSUME NEW x
      PROVE  /\ Listed(S \ {x})
             /\ SizeOf(S \ {x}) = IF x \in S THEN SizeOf(S) - 1 ELSE SizeOf(S)
  <2>1. /\ IsFiniteSet(S \ {x})
        /\ Cardinality(S \ {x}) = IF x \in S THEN Cardinality(S) - 1 ELSE Cardinality(S)
    BY <1>2, FS_RemoveElement
  <2> QED
    BY <2>1, LibraryFinite, SMT
<1> QED
  BY <1>3, <1>4, <1>5, <1>6, <1>7 DEF Counted

\* The inductive invariant holds: the indices are in the ring, every thread is
\* at a place that fits the mode of its file, and d_refs counts the files.
THEOREM Invariance == Spec => []IInv
<1>1. Init => IInv
  BY Counting, InitInv
<1>2. IInv /\ [Next]_vars => IInv'
  BY Counting, StepInv
<1> QED
  BY <1>1, <1>2, PTL DEF Spec

\* d_nwriters of pipe_common.c counts the files that are open for writing.
LEMMA WritersCounted == Spec => []WriterInv
<1>1. Init => WriterInv
  BY Counting, WriterInit
<1>2. IInv /\ WriterInv /\ [Next]_vars => WriterInv'
  BY Counting, WriterStep
<1> QED
  BY <1>1, <1>2, Invariance, PTL DEF Spec

\* d_refs of pipe_common.c counts the open files and d_nwriters those that are
\* open for writing, also when a signal ends an open() and when opens and
\* closes of several threads overlap.
THEOREM RefsCorrect == Spec => []RefsSound
<1>1. IInv /\ WriterInv => RefsSound
  BY DEF IInv, RefInv, WriterInv, RefsSound
<1> QED
  BY <1>1, Invariance, WritersCounted, PTL

\* The ring of pipe_common.c is a FIFO, whatever threads read, write, open and
\* close it, and however their steps interleave.
THEOREM RingImplementsFifo == Spec => ImplementsFifo
<1>1. IInv /\ [Next]_vars => [FifoNext]_<<Content, out, refs > 0>>
  BY Counting, StepRefines
<1> QED
  BY <1>1, FifoStarts, Invariance, PTL DEF Spec, ImplementsFifo, Fifo!FifoSpec, FifoNext

\* No sleeper of pipe_common.c is forgotten: a reader that sleeps while there
\* are bytes, or no writer left, a writer that sleeps while there is room, and
\* who waits for a first writer that has come, is one that the holder of
\* d_bfsem is about to wake.  The writers' sleep is pipecommon_semtake(),
\* which waits again after a signal without another look at the ring: the
\* theorem is about signals elsewhere.
THEOREM SleepersAreWoken ==
  ASSUME "wr" \notin Interruptible
  PROVE  Spec => []NoSleeperForgotten
<1>1. SInv => NoSleeperForgotten
  BY DEF SInv
<1>2. Init => SInv
  BY Counting, SleepInit
<1>3. SInv /\ WriterInv /\ [Next]_vars => SInv'
  BY Counting, SleepStep
<1> QED
  BY <1>1, <1>2, <1>3, WritersCounted, PTL DEF Spec
=============================================================================
