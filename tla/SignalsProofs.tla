--------------------------- MODULE SignalsProofs ---------------------------
(***************************************************************************)
(* The signals of a task are handled completely and leave no trace, for    *)
(* any signals, masks, handlers and containers, and any depth of nesting.  *)
(***************************************************************************)
EXTENDS Signals, SequenceTheorems, NaturalsInduction, WellFoundedInduction, TLAPS

-----------------------------------------------------------------------------
(* The inductive invariant, in parts that look at some fields of the TCB.  *)

FrameType ==
  [k : {"user", "handler", "wait", "suspend", "deliver", "unmask"}, irq : BOOLEAN,
   at : {"start", "pick", "run", "called", "unmasked"},
   cur : Container \cup {NoOne}, nxt : Container \cup {NoOne},
   saved : SUBSET Signal, set : SUBSET Signal]

TcbType ==
  [stack : Seq(FrameType), mask : SUBSET Signal, waitmask : SUBSET Signal,
   asleep : BOOLEAN, timer : BOOLEAN, unbinfo : Signal \cup {NoOne},
   pending : [Signal -> Nat], acts : SUBSET Signal, actq : Seq(Container),
   posted : SUBSET Container, of : [Container -> Signal \cup {NoOne}], armed : BOOLEAN]

TypeInv ==
  /\ tcb \in TcbType /\ adding \in Signal \cup {NoOne}
  /\ umask \in SUBSET Signal /\ broken \in BOOLEAN

\* Every frame has its place: the program is at the bottom, it waits in a
\* service of its own, and a handler is called by sig_deliver().
Shape(st) ==
  \A i \in 1..Len(st) :
    /\ st[i].k = "user" <=> i = 1
    /\ st[i].k \in {"wait", "suspend"} => i = 2
    /\ st[i].k = "handler" => i > 1 /\ st[i - 1].k = "deliver" /\ st[i - 1].at = "called"

\* The mask of the program is saved in the lowest frame that restores a mask.
Restores(f) == f.k = "suspend" \/ (f.k = "deliver" /\ f.at = "called")

MaskInv(st, mask, u) ==
  /\ (\A i \in 1..Len(st) : ~Restores(st[i])) => mask = u
  /\ \A i \in 1..Len(st) :
       Restores(st[i]) => st[i].saved = u \/ \E j \in 1..(i - 1) : Restores(st[j])

\* A pending signal is masked, or some frame is about to receive it again.
Unmasks(st, s) == \E i \in 1..Len(st) : st[i].k = "unmask" /\ s \in st[i].set

PendInv(st, mask, pending) ==
  \A s \in Signal : /\ pending[s] <= 1
                    /\ pending[s] = 0 \/ s \in mask \/ Unmasks(st, s)

\* The last sig_deliver() is about to take the head of sigpendactionq, unless
\* another one is to come or the queue is empty.
Delivers(f, q) ==
  \/ f.at = "start"
  \/ f.at = "run" /\ f.cur = q[1] /\ f.nxt = (IF Len(q) > 1 THEN q[2] ELSE NoOne)
  \/ f.at = "pick" /\ f.cur = q[1]
  \/ f.at \in {"called", "unmasked"} /\ f.nxt = q[1]

QueueInv(st, q, armed) ==
  \/ armed \/ Len(q) = 0
  \/ \E i \in 1..Len(st) : /\ st[i].k = "deliver" /\ Delivers(st[i], q)
                           /\ \A j \in (i + 1)..Len(st) : st[j].k # "deliver"

\* The containers in sigpostedq are those of the handlers that have been
\* called, each of one handler.
Posts(f) == f.k = "deliver" /\ f.at \in {"called", "unmasked"}

PostInv(st, posted) ==
  /\ \A i \in 1..Len(st) : Posts(st[i]) => st[i].cur \in posted
  /\ \A i, j \in 1..Len(st) : Posts(st[i]) /\ Posts(st[j]) /\ st[i].cur = st[j].cur => i = j
  /\ \A c \in posted : \E i \in 1..Len(st) : Posts(st[i]) /\ st[i].cur = c

\* A container is in use, or free; it is in one queue once.
Has(q, c) == \E i \in 1..Len(q) : q[i] = c

HeldInv(q, posted, of) ==
  /\ \A i, j \in 1..Len(q) : q[i] = q[j] => i = j
  /\ \A c \in Container : of[c] # NoOne <=> Has(q, c) \/ c \in posted
  /\ \A c \in posted : ~Has(q, c)

\* A task that sleeps waits for other signals than those that have come.
SleepInv(st, mask, waitmask, asleep, pending, armed, a) ==
  /\ asleep => /\ ~armed /\ st[Len(st)].k \in {"wait", "suspend"}
               /\ \A s \in waitmask : pending[s] = 0
               /\ a \notin waitmask
  /\ a # NoOne => a \in mask

LiveInv(r, a, u) ==
  /\ Shape(r.stack) /\ MaskInv(r.stack, r.mask, u)
  /\ PendInv(r.stack, r.mask, r.pending)
  /\ QueueInv(r.stack, r.actq, r.armed) /\ PostInv(r.stack, r.posted)
  /\ SleepInv(r.stack, r.mask, r.waitmask, r.asleep, r.pending, r.armed, a)

IInv ==
  /\ TypeInv
  /\ ~broken => HeldInv(tcb.actq, tcb.posted, tcb.of)
  /\ Alive => LiveInv(tcb, adding, umask)
  /\ ~broken /\ tcb.stack = <<>> => tcb.of = [c \in Container |-> NoOne]

-----------------------------------------------------------------------------
(* The steps of a stack.                                                   *)

Grows(a, b, f) ==
  /\ b \in Seq(FrameType) /\ Len(b) = Len(a) + 1
  /\ b[Len(a) + 1] = f /\ \A i \in 1..Len(a) : b[i] = a[i]

Shrinks(a, b) ==
  /\ b \in Seq(FrameType) /\ Len(a) = Len(b) + 1
  /\ \A i \in 1..Len(b) : b[i] = a[i]

Tops(a, b, f) ==
  /\ b \in Seq(FrameType) /\ Len(b) = Len(a)
  /\ b[Len(a)] = f /\ \A i \in 1..(Len(a) - 1) : b[i] = a[i]

Stack(a) == a \in Seq(FrameType) /\ Len(a) \in Nat \ {0}

\* The steps are first-order, except where they cite SMT.
USE Zenon

\* A stack that is not empty has a frame on top.
LEMMA TopFrame ==
  ASSUME NEW a \in Seq(FrameType), a # <<>>
  PROVE  Stack(a) /\ Len(a) \in 1..Len(a) /\ a[Len(a)] \in FrameType
<1>1. Len(a) \in Nat \ {0}
  BY EmptySeq
<1>2. Len(a) \in 1..Len(a)
  BY <1>1, SMT
<1> QED
  BY <1>1, <1>2, ElementOfSeq DEF Stack

\* Push().
LEMMA PushGrows ==
  ASSUME NEW a \in Seq(FrameType), NEW f \in FrameType
  PROVE  Grows(a, Append(a, f), f) /\ Append(a, f) # <<>>
BY AppendProperties, SMT DEF Grows

\* Pop().
LEMMA PopShrinks ==
  ASSUME NEW a, Stack(a)
  PROVE  Shrinks(a, SubSeq(a, 1, Len(a) - 1))
<1> DEFINE n == Len(a) - 1
<1>1. n \in Nat /\ Len(a) = n + 1
  BY SMT DEF Stack
<1>2. \A i \in 1..n : a[i] \in FrameType
  <2> TAKE i \in 1..n
  <2>1. i \in 1..Len(a)
    BY <1>1, SMT
  <2> QED
    BY <2>1, ElementOfSeq DEF Stack
<1> HIDE DEF n
<1>3. /\ SubSeq(a, 1, n) \in Seq(FrameType)
      /\ Len(SubSeq(a, 1, n)) = IF 1 <= n THEN n - 1 + 1 ELSE 0
      /\ \A i \in 1..(n - 1 + 1) : SubSeq(a, 1, n)[i] = a[1 + i - 1]
  <2>1. 1 \in Int /\ n \in Int
    BY <1>1, SMT
  <2> QED
    BY <1>2, <2>1, SubSeqProperties, SMT
<1>4. Len(SubSeq(a, 1, n)) = n /\ \A i \in 1..n : SubSeq(a, 1, n)[i] = a[i]
  BY <1>1, <1>3, SMT
<1> QED
  BY <1>1, <1>3, <1>4 DEF Shrinks, n

\* SetTop().
LEMMA SetTops ==
  ASSUME NEW a, Stack(a), NEW f \in FrameType
  PROVE  Tops(a, [a EXCEPT ![Len(a)] = f], f) /\ [a EXCEPT ![Len(a)] = f] # <<>>
<1> DEFINE n == Len(a)
           b == [a EXCEPT ![n] = f]
<1>1. n \in 1..Len(a) /\ a \in Seq(FrameType) /\ n \in Nat /\ n # 0
  BY SMT DEF Stack
<1>2. b \in Seq(FrameType) /\ Len(b) = n /\ \A j \in 1..n : b[j] = IF j = n THEN f ELSE a[j]
  BY <1>1, ExceptSeq, SMT
<1> HIDE DEF b
<1>3. b # <<>>
  BY <1>1, <1>2, EmptySeq
<1> HIDE DEF n
<1>4. b[n] = f /\ \A j \in 1..(n - 1) : b[j] = a[j]
  BY <1>1, <1>2, SMT
<1> QED
  BY <1>2, <1>3, <1>4 DEF Tops, b, n

-----------------------------------------------------------------------------
(* The shape of the stack.                                                 *)

\* A new frame.
LEMMA ShapeGrows ==
  ASSUME NEW a, NEW b, NEW f, Stack(a), Grows(a, b, f), Shape(a), f.k # "user",
         f.k \in {"wait", "suspend"} => Len(a) = 1,
         f.k = "handler" => a[Len(a)].k = "deliver" /\ a[Len(a)].at = "called"
  PROVE  Shape(b)
<1> SUFFICES ASSUME NEW i \in 1..Len(b)
             PROVE  /\ b[i].k = "user" <=> i = 1
                    /\ b[i].k \in {"wait", "suspend"} => i = 2
                    /\ b[i].k = "handler" => i > 1 /\ b[i - 1].k = "deliver" /\ b[i - 1].at = "called"
  BY DEF Shape
<1>1. CASE i \in 1..Len(a)
  <2>1. b[i] = a[i] /\ (i > 1 => b[i - 1] = a[i - 1])
    BY <1>1, SMT DEF Grows, Stack
  <2> QED
    BY <1>1, <2>1, SMT DEF Shape
<1>2. CASE i = Len(a) + 1
  <2>1. b[i] = f /\ i # 1 /\ i > 1 /\ b[i - 1] = a[Len(a)] /\ (Len(a) = 1 => i = 2)
    BY <1>2, SMT DEF Grows, Stack
  <2> QED
    BY <2>1
<1> QED
  BY <1>1, <1>2, SMT DEF Grows, Stack

\* The top frame goes.
LEMMA ShapeShrinks ==
  ASSUME NEW a, NEW b, Stack(a), Shrinks(a, b), Shape(a)
  PROVE  Shape(b)
<1> SUFFICES ASSUME NEW i \in 1..Len(b)
             PROVE  /\ b[i].k = "user" <=> i = 1
                    /\ b[i].k \in {"wait", "suspend"} => i = 2
                    /\ b[i].k = "handler" => i > 1 /\ b[i - 1].k = "deliver" /\ b[i - 1].at = "called"
  BY DEF Shape
<1>1. i \in 1..Len(a) /\ b[i] = a[i] /\ (i > 1 => b[i - 1] = a[i - 1])
  BY SMT DEF Shrinks, Stack
<1> QED
  BY <1>1, SMT DEF Shape

\* The top frame goes on.
LEMMA ShapeTops ==
  ASSUME NEW a, NEW b, NEW f, Stack(a), Tops(a, b, f), Shape(a), f.k = a[Len(a)].k
  PROVE  Shape(b)
<1> SUFFICES ASSUME NEW i \in 1..Len(b)
             PROVE  /\ b[i].k = "user" <=> i = 1
                    /\ b[i].k \in {"wait", "suspend"} => i = 2
                    /\ b[i].k = "handler" => i > 1 /\ b[i - 1].k = "deliver" /\ b[i - 1].at = "called"
  BY DEF Shape
<1>1. i \in 1..Len(a) /\ b[i].k = a[i].k /\ (i > 1 => b[i - 1] = a[i - 1])
  BY SMT DEF Tops, Stack
<1> QED
  BY <1>1, SMT DEF Shape

-----------------------------------------------------------------------------
(* The masks that are saved.                                               *)

\* A new frame that restores no mask.
LEMMA MaskGrows ==
  ASSUME NEW a, NEW b, NEW f, NEW m, NEW u, Stack(a), Grows(a, b, f), MaskInv(a, m, u), ~Restores(f)
  PROVE  MaskInv(b, m, u)
<1>1. \A i \in 1..Len(a) : i \in 1..Len(b) /\ b[i] = a[i]
  BY SMT DEF Grows, Stack
<1>2. \A i \in 1..Len(b) : Restores(b[i]) => i \in 1..Len(a)
  BY SMT DEF Grows, Stack
<1>3. \A i \in 1..Len(a) : \A j \in 1..(i - 1) : j \in 1..Len(a)
  BY SMT DEF Stack
<1> QED
  BY <1>1, <1>2, <1>3 DEF MaskInv

\* A new frame that saves the mask, whatever the new mask is.
LEMMA MaskSaved ==
  ASSUME NEW a, NEW b, NEW f, NEW m, NEW u, NEW n, Stack(a), Grows(a, b, f), MaskInv(a, m, u),
         Restores(f), f.saved = m
  PROVE  MaskInv(b, n, u)
<1>1. \A i \in 1..Len(a) : i \in 1..Len(b) /\ b[i] = a[i]
  BY SMT DEF Grows, Stack
<1>2. /\ Len(a) + 1 \in 1..Len(b) /\ b[Len(a) + 1] = f
      /\ \A i \in 1..Len(a) : i \in 1..(Len(a) + 1 - 1)
      /\ \A i \in 1..Len(b) : i \in 1..Len(a) \/ i = Len(a) + 1
  BY SMT DEF Grows, Stack
<1>3. \A i \in 1..Len(a) : \A j \in 1..(i - 1) : j \in 1..Len(a)
  BY SMT DEF Stack
<1>4. ASSUME NEW i \in 1..Len(b), Restores(b[i])
      PROVE  b[i].saved = u \/ \E j \in 1..(i - 1) : Restores(b[j])
  <2>1. CASE i \in 1..Len(a)
    BY <1>1, <1>3, <1>4, <2>1 DEF MaskInv
  <2>2. CASE i = Len(a) + 1
    BY <1>1, <1>2, <2>2, SMT DEF MaskInv
  <2> QED
    BY <1>2, <2>1, <2>2
<1> QED
  BY <1>2, <1>4 DEF MaskInv

\* The top frame, which restores no mask, goes.
LEMMA MaskShrinks ==
  ASSUME NEW a, NEW b, NEW m, NEW u, Stack(a), Shrinks(a, b), MaskInv(a, m, u), ~Restores(a[Len(a)])
  PROVE  MaskInv(b, m, u)
<1>1. \A i \in 1..Len(b) : i \in 1..Len(a) /\ b[i] = a[i]
  BY SMT DEF Shrinks, Stack
<1>2. \A i \in 1..Len(a) : i \in 1..Len(b) \/ i = Len(a)
  BY SMT DEF Shrinks, Stack
<1>3. \A i \in 1..Len(b) : \A j \in 1..(i - 1) : j \in 1..Len(b)
  BY LenProperties, SMT DEF Shrinks
<1> QED
  BY <1>1, <1>2, <1>3 DEF MaskInv

\* The top frame goes and restores the mask.
LEMMA MaskRestoredByPop ==
  ASSUME NEW a, NEW b, NEW m, NEW u, Stack(a), Shrinks(a, b), MaskInv(a, m, u), Restores(a[Len(a)])
  PROVE  MaskInv(b, a[Len(a)].saved, u)
<1>1. \A i \in 1..Len(b) : i \in 1..Len(a) /\ b[i] = a[i]
  BY SMT DEF Shrinks, Stack
<1>2. Len(a) \in 1..Len(a) /\ \A i \in 1..(Len(a) - 1) : i \in 1..Len(b)
  BY SMT DEF Shrinks, Stack
<1>3. \A i \in 1..Len(b) : \A j \in 1..(i - 1) : j \in 1..Len(b)
  BY LenProperties, SMT DEF Shrinks
<1> QED
  BY <1>1, <1>2, <1>3 DEF MaskInv

\* The top frame goes on; it restores the mask neither before nor after.
LEMMA MaskTops ==
  ASSUME NEW a, NEW b, NEW f, NEW m, NEW u, Stack(a), Tops(a, b, f), MaskInv(a, m, u),
         ~Restores(a[Len(a)]), ~Restores(f)
  PROVE  MaskInv(b, m, u)
<1>1. \A i \in 1..Len(b) : i \in 1..Len(a) /\ (Restores(b[i]) => b[i] = a[i])
  BY SMT DEF Tops, Stack
<1>2. \A i \in 1..Len(a) : i \in 1..Len(b) /\ (Restores(a[i]) => b[i] = a[i])
  BY SMT DEF Tops, Stack
<1>3. \A i \in 1..Len(b) : \A j \in 1..(i - 1) : j \in 1..Len(b)
  BY LenProperties, SMT DEF Tops
<1> QED
  BY <1>1, <1>2, <1>3 DEF MaskInv

\* The top frame saves the mask, whatever the new mask is.
LEMMA MaskTopSaves ==
  ASSUME NEW a, NEW b, NEW f, NEW m, NEW u, NEW n, Stack(a), Tops(a, b, f), MaskInv(a, m, u),
         ~Restores(a[Len(a)]), Restores(f), f.saved = m
  PROVE  MaskInv(b, n, u)
<1>1. \A i \in 1..Len(b) : i \in 1..Len(a) /\ (i # Len(a) => b[i] = a[i])
  BY SMT DEF Tops, Stack
<1>2. /\ Len(a) \in 1..Len(b) /\ b[Len(a)] = f
      /\ \A i \in 1..Len(a) : i # Len(a) => i \in 1..(Len(a) - 1) /\ b[i] = a[i]
  BY SMT DEF Tops, Stack
<1>3. \A i \in 1..Len(a) : \A j \in 1..(i - 1) : j \in 1..Len(a) /\ j # Len(a)
  BY SMT DEF Stack
<1>4. ASSUME NEW i \in 1..Len(b), Restores(b[i])
      PROVE  b[i].saved = u \/ \E j \in 1..(i - 1) : Restores(b[j])
  <2>1. CASE i # Len(a)
    BY <1>1, <1>2, <1>3, <1>4, <2>1 DEF MaskInv
  <2>2. CASE i = Len(a)
    BY <1>1, <1>2, <2>2 DEF MaskInv
  <2> QED
    BY <2>1, <2>2
<1> QED
  BY <1>2, <1>4 DEF MaskInv

\* The top frame restores the mask.
LEMMA MaskTopRestores ==
  ASSUME NEW a, NEW b, NEW f, NEW m, NEW u, Stack(a), Tops(a, b, f), MaskInv(a, m, u),
         Restores(a[Len(a)]), ~Restores(f)
  PROVE  MaskInv(b, a[Len(a)].saved, u)
<1>1. \A i \in 1..Len(b) : i \in 1..Len(a) /\ (Restores(b[i]) => b[i] = a[i])
  BY SMT DEF Tops, Stack
<1>2. Len(a) \in 1..Len(a) /\ \A i \in 1..(Len(a) - 1) : i \in 1..Len(b) /\ b[i] = a[i]
  BY SMT DEF Tops, Stack
<1>3. \A i \in 1..Len(a) : \A j \in 1..(i - 1) : j \in 1..(Len(a) - 1)
  BY SMT DEF Stack
<1> QED
  BY <1>1, <1>2, <1>3 DEF MaskInv

\* A handler may set any mask.
LEMMA MaskFree ==
  ASSUME NEW a, NEW m, NEW u, NEW n, MaskInv(a, m, u), \E i \in 1..Len(a) : Restores(a[i])
  PROVE  MaskInv(a, n, u)
BY DEF MaskInv

-----------------------------------------------------------------------------
(* The pending signals.                                                    *)

\* A new frame.
LEMMA PendGrows ==
  ASSUME NEW a, NEW b, NEW f, NEW m, NEW p, Stack(a), Grows(a, b, f), PendInv(a, m, p)
  PROVE  PendInv(b, m, p)
<1>1. \A i \in 1..Len(a) : i \in 1..Len(b) /\ b[i] = a[i]
  BY SMT DEF Grows, Stack
<1> QED
  BY <1>1 DEF PendInv, Unmasks

\* A new frame that looks at all signals that are pending.
LEMMA PendUnmasks ==
  ASSUME NEW a, NEW b, NEW f, NEW m, NEW p \in [Signal -> Nat], Stack(a), Grows(a, b, f),
         \A s \in Signal : p[s] <= 1, f.k = "unmask", f.set = {s \in Signal : p[s] > 0} \ m
  PROVE  PendInv(b, m, p)
<1>1. Len(a) + 1 \in 1..Len(b) /\ b[Len(a) + 1] = f
  BY SMT DEF Grows, Stack
<1>2. \A s \in Signal : s \in f.set => Unmasks(b, s)
  BY <1>1 DEF Unmasks
<1>3. \A s \in Signal : p[s] > 0 \/ p[s] = 0
  BY SMT
<1> QED
  BY <1>2, <1>3 DEF PendInv

\* The top frame, which unmasks nothing any more, goes.
LEMMA PendShrinks ==
  ASSUME NEW a, NEW b, NEW m, NEW p, Stack(a), Shrinks(a, b), PendInv(a, m, p),
         a[Len(a)].k = "unmask" => a[Len(a)].set = {}
  PROVE  PendInv(b, m, p)
<1>1. \A i \in 1..Len(a) : (i \in 1..Len(b) /\ b[i] = a[i]) \/ i = Len(a)
  BY SMT DEF Shrinks, Stack
<1> QED
  BY <1>1 DEF PendInv, Unmasks

\* The top frame goes on.
LEMMA PendTops ==
  ASSUME NEW a, NEW b, NEW f, NEW m, NEW p, Stack(a), Tops(a, b, f), PendInv(a, m, p),
         a[Len(a)].k # "unmask"
  PROVE  PendInv(b, m, p)
<1>1. \A i \in 1..Len(a) : (i \in 1..Len(b) /\ b[i] = a[i]) \/ i = Len(a)
  BY SMT DEF Tops, Stack
<1> QED
  BY <1>1 DEF PendInv, Unmasks

\* The top frame has looked at the signal s.
LEMMA PendLooked ==
  ASSUME NEW a, NEW b, NEW f, NEW m, NEW p, NEW s, NEW n \in [Signal -> Nat], Stack(a),
         Tops(a, b, f), PendInv(a, m, p), f.k = a[Len(a)].k, f.set = a[Len(a)].set \ {s},
         \A x \in Signal : x # s => n[x] = p[x],
         s \in Signal => n[s] <= 1 /\ (n[s] = 0 \/ s \in m)
  PROVE  PendInv(b, m, n)
<1>1. /\ Len(a) \in 1..Len(b) /\ b[Len(a)] = f
      /\ \A i \in 1..Len(a) : (i \in 1..Len(b) /\ b[i] = a[i]) \/ i = Len(a)
  BY SMT DEF Tops, Stack
<1>2. \A x \in Signal : x # s /\ Unmasks(a, x) => Unmasks(b, x)
  BY <1>1 DEF Unmasks
<1> QED
  BY <1>2 DEF PendInv

-----------------------------------------------------------------------------
(* The queued actions.                                                     *)

\* A new sig_deliver() is to take whatever is queued.
LEMMA QueueStarts ==
  ASSUME NEW a, NEW b, NEW f, NEW q, NEW w, Stack(a), Grows(a, b, f),
         f.k = "deliver", f.at = "start"
  PROVE  QueueInv(b, q, w)
<1>1. /\ Len(a) + 1 \in 1..Len(b) /\ b[Len(a) + 1] = f
      /\ \A j \in (Len(a) + 1 + 1)..Len(b) : FALSE
  BY SMT DEF Grows, Stack
<1> QED
  BY <1>1 DEF QueueInv, Delivers

\* A new frame that is no sig_deliver().
LEMMA QueueGrows ==
  ASSUME NEW a, NEW b, NEW f, NEW q, NEW w, Stack(a), Grows(a, b, f), QueueInv(a, q, w),
         f.k # "deliver"
  PROVE  QueueInv(b, q, w)
<1>1. \A i \in 1..Len(a) : i \in 1..Len(b) /\ b[i] = a[i]
  BY SMT DEF Grows, Stack
<1>2. \A i \in 1..Len(a) : \A j \in (i + 1)..Len(b) : b[j] = f \/ (j \in (i + 1)..Len(a) /\ b[j] = a[j])
  BY SMT DEF Grows, Stack
<1> QED
  BY <1>1, <1>2, SMT DEF QueueInv

\* The top frame, which is no sig_deliver(), goes.
LEMMA QueueShrinks ==
  ASSUME NEW a, NEW b, NEW q, NEW w, Stack(a), Shrinks(a, b), QueueInv(a, q, w),
         a[Len(a)].k # "deliver"
  PROVE  QueueInv(b, q, w)
<1>1. \A i \in 1..Len(a) : (i \in 1..Len(b) /\ b[i] = a[i]) \/ i = Len(a)
  BY SMT DEF Shrinks, Stack
<1>2. \A i \in 1..Len(b) : \A j \in (i + 1)..Len(b) : j \in (i + 1)..Len(a) /\ b[j] = a[j]
  BY LenProperties, SMT DEF Shrinks, Stack
<1> QED
  BY <1>1, <1>2, ZenonT(40) DEF QueueInv

\* The top frame, which is no sig_deliver(), goes on.
LEMMA QueueTops ==
  ASSUME NEW a, NEW b, NEW f, NEW q, NEW w, Stack(a), Tops(a, b, f), QueueInv(a, q, w),
         a[Len(a)].k # "deliver", f.k # "deliver"
  PROVE  QueueInv(b, q, w)
<1>1. \A i \in 1..Len(a) : (i \in 1..Len(b) /\ b[i] = a[i]) \/ i = Len(a)
  BY SMT DEF Tops, Stack
<1>2. \A i \in 1..Len(a) : \A j \in (i + 1)..Len(b) : b[j] = f \/ (j \in (i + 1)..Len(a) /\ b[j] = a[j])
  BY SMT DEF Tops, Stack
<1> QED
  BY <1>1, <1>2 DEF QueueInv

\* The sig_deliver() on top is the last one.
LEMMA QueueTop ==
  ASSUME NEW a, NEW q, Stack(a), a[Len(a)].k = "deliver"
  PROVE  QueueInv(a, q, FALSE) <=> Len(q) = 0 \/ Delivers(a[Len(a)], q)
<1>1. Len(a) \in 1..Len(a) /\ \A j \in (Len(a) + 1)..Len(a) : FALSE
  BY SMT DEF Stack
<1>2. \A i \in 1..Len(a) : i = Len(a) \/ Len(a) \in (i + 1)..Len(a)
  BY SMT DEF Stack
<1> QED
  BY <1>1, <1>2 DEF QueueInv

\* The sig_deliver() on top goes on.
LEMMA QueueDelivers ==
  ASSUME NEW a, NEW b, NEW f, NEW q, NEW w, Stack(a), Tops(a, b, f),
         f.k = "deliver", Delivers(f, q) \/ Len(q) = 0
  PROVE  QueueInv(b, q, w)
<1>1. /\ Len(a) \in 1..Len(b) /\ b[Len(a)] = f
      /\ \A j \in (Len(a) + 1)..Len(b) : FALSE
  BY SMT DEF Tops, Stack
<1> QED
  BY <1>1 DEF QueueInv

-----------------------------------------------------------------------------
(* The handlers that have been called.                                     *)

\* A new frame.
LEMMA PostGrows ==
  ASSUME NEW a, NEW b, NEW f, NEW p, Stack(a), Grows(a, b, f), PostInv(a, p), ~Posts(f)
  PROVE  PostInv(b, p)
<1>1. \A i \in 1..Len(a) : i \in 1..Len(b) /\ b[i] = a[i]
  BY SMT DEF Grows, Stack
<1>2. \A i \in 1..Len(b) : Posts(b[i]) => i \in 1..Len(a)
  BY SMT DEF Grows, Stack
<1> QED
  BY <1>1, <1>2 DEF PostInv

\* The top frame, which has called no handler, goes.
LEMMA PostShrinks ==
  ASSUME NEW a, NEW b, NEW p, Stack(a), Shrinks(a, b), PostInv(a, p), ~Posts(a[Len(a)])
  PROVE  PostInv(b, p)
<1>1. \A i \in 1..Len(b) : i \in 1..Len(a) /\ b[i] = a[i]
  BY SMT DEF Shrinks, Stack
<1>2. \A i \in 1..Len(a) : i \in 1..Len(b) \/ i = Len(a)
  BY SMT DEF Shrinks, Stack
<1> QED
  BY <1>1, <1>2 DEF PostInv

\* The top frame goes on, with the handler it has called if any.
LEMMA PostTops ==
  ASSUME NEW a, NEW b, NEW f, NEW p, Stack(a), Tops(a, b, f), PostInv(a, p),
         Posts(f) <=> Posts(a[Len(a)]), Posts(f) => f.cur = a[Len(a)].cur
  PROVE  PostInv(b, p)
<1>1. \A i : i \in 1..Len(a) <=> i \in 1..Len(b)
  BY DEF Tops
<1>2. \A i \in 1..Len(a) : (Posts(b[i]) <=> Posts(a[i])) /\ (Posts(b[i]) => b[i].cur = a[i].cur)
  BY SMT DEF Tops, Stack
<1> QED
  BY <1>1, <1>2 DEF PostInv

\* The top frame calls the handler for the container c.
LEMMA PostCalls ==
  ASSUME NEW a, NEW b, NEW f, NEW p, Stack(a), Tops(a, b, f), PostInv(a, p),
         ~Posts(a[Len(a)]), Posts(f), f.cur \notin p
  PROVE  PostInv(b, p \cup {f.cur})
<1>1. /\ \A i : i \in 1..Len(a) <=> i \in 1..Len(b)
      /\ Len(a) \in 1..Len(b) /\ b[Len(a)] = f
  BY SMT DEF Tops, Stack
<1>2. \A i \in 1..Len(a) : i = Len(a) \/ b[i] = a[i]
  BY SMT DEF Tops, Stack
<1> QED
  BY <1>1, <1>2, SMT DEF PostInv

\* The top frame has no handler any more.
LEMMA PostReturns ==
  ASSUME NEW a, NEW b, NEW f, NEW p, Stack(a), Tops(a, b, f), PostInv(a, p),
         Posts(a[Len(a)]), ~Posts(f)
  PROVE  PostInv(b, p \ {a[Len(a)].cur})
<1>1. /\ \A i : i \in 1..Len(a) <=> i \in 1..Len(b)
      /\ Len(a) \in 1..Len(b) /\ b[Len(a)] = f
  BY SMT DEF Tops, Stack
<1>2. \A i \in 1..Len(a) : i = Len(a) \/ b[i] = a[i]
  BY SMT DEF Tops, Stack
<1> QED
  BY <1>1, <1>2, SMT DEF PostInv

-----------------------------------------------------------------------------
(* The fields of a TCB.                                                    *)

\* What the invariant looks at.
Looks(x, st, m, wm, sl, p, q, po, of, ar) ==
  /\ x \in TcbType /\ x.stack = st /\ x.mask = m /\ x.waitmask = wm /\ x.asleep = sl
  /\ x.pending = p /\ x.actq = q /\ x.posted = po /\ x.of = of /\ x.armed = ar

Sound(r, a, u) ==
  /\ r \in TcbType /\ r.stack # <<>>
  /\ HeldInv(r.actq, r.posted, r.of) /\ LiveInv(r, a, u)

\* The types of the fields.
LEMMA Fields ==
  ASSUME NEW r \in TcbType
  PROVE  /\ r.stack \in Seq(FrameType) /\ r.mask \in SUBSET Signal /\ r.waitmask \in SUBSET Signal
         /\ r.asleep \in BOOLEAN /\ r.timer \in BOOLEAN /\ r.unbinfo \in Signal \cup {NoOne}
         /\ r.pending \in [Signal -> Nat] /\ r.acts \in SUBSET Signal /\ r.actq \in Seq(Container)
         /\ r.posted \in SUBSET Container /\ r.of \in [Container -> Signal \cup {NoOne}]
         /\ r.armed \in BOOLEAN
BY DEF TcbType

\* The fields of a frame.
LEMMA FrameFields ==
  ASSUME NEW f \in FrameType
  PROVE  /\ f.k \in {"user", "handler", "wait", "suspend", "deliver", "unmask"} /\ f.irq \in BOOLEAN
         /\ f.at \in {"start", "pick", "run", "called", "unmasked"}
         /\ f.cur \in Container \cup {NoOne} /\ f.nxt \in Container \cup {NoOne}
         /\ f.saved \in SUBSET Signal /\ f.set \in SUBSET Signal
BY DEF FrameType

\* A frame that starts.
LEMMA NewFrame ==
  ASSUME NEW kind \in {"user", "handler", "wait", "suspend", "deliver", "unmask"}, NEW irq \in BOOLEAN
  PROVE  /\ Frame(kind, irq) \in FrameType
         /\ Frame(kind, irq).k = kind /\ Frame(kind, irq).at = "start"
BY DEF Frame, FrameType

\* The TCB with another stack.
LEMMA SetStack ==
  ASSUME NEW r \in TcbType, NEW st \in Seq(FrameType)
  PROVE  Looks([r EXCEPT !.stack = st], st, r.mask, r.waitmask, r.asleep, r.pending, r.actq,
               r.posted, r.of, r.armed)
BY DEF TcbType, Looks

\* A frame is pushed.
LEMMA PushLooks ==
  ASSUME NEW r \in TcbType, NEW f \in FrameType
  PROVE  Looks(Push(r, f), Append(r.stack, f), r.mask, r.waitmask, r.asleep, r.pending, r.actq,
               r.posted, r.of, r.armed)
<1>1. Append(r.stack, f) \in Seq(FrameType)
  BY Fields, AppendProperties
<1> QED
  BY <1>1, SetStack DEF Push

\* A frame is popped.
LEMMA PopLooks ==
  ASSUME NEW r \in TcbType, r.stack # <<>>
  PROVE  Looks(Pop(r), SubSeq(r.stack, 1, Len(r.stack) - 1), r.mask, r.waitmask, r.asleep, r.pending,
               r.actq, r.posted, r.of, r.armed)
<1>1. SubSeq(r.stack, 1, Len(r.stack) - 1) \in Seq(FrameType)
  BY Fields, TopFrame, PopShrinks DEF Shrinks
<1> QED
  BY <1>1, SetStack DEF Pop

\* The top frame is set.
LEMMA SetTopLooks ==
  ASSUME NEW r \in TcbType, r.stack # <<>>, NEW f \in FrameType
  PROVE  Looks(SetTop(r, f), [r.stack EXCEPT ![Len(r.stack)] = f], r.mask, r.waitmask, r.asleep,
               r.pending, r.actq, r.posted, r.of, r.armed)
<1>1. [r.stack EXCEPT ![Len(r.stack)] = f] \in Seq(FrameType)
  BY Fields, TopFrame, SetTops DEF Tops
<1> QED
  BY <1>1, SetStack DEF SetTop

\* The least of some numbers.
LEMMA LeastIn ==
  ASSUME NEW S \in SUBSET Nat, S # {}
  PROVE  Least(S) \in S
<1>1. PICK x \in S : \A y \in S : ~(<<y, x>> \in OpToRel(<, Nat))
  BY WFMin, NatLessThanWellFounded
<1>2. \A y \in S : ~(y < x)
  BY <1>1 DEF OpToRel
<1>3. \A y \in S : x <= y
  BY <1>2, SMT
<1> QED
  BY <1>3 DEF Least

\* The top frame of a task that is alive.
LEMMA SoundTop ==
  ASSUME NEW r, NEW a, NEW u, Sound(r, a, u)
  PROVE  /\ Stack(r.stack) /\ Top(r) = r.stack[Len(r.stack)] /\ Top(r) \in FrameType
         /\ Len(r.stack) \in 1..Len(r.stack)
BY Fields, TopFrame DEF Sound, Top

-----------------------------------------------------------------------------
(* sig_received().                                                         *)

\* The parts of the invariant make the whole.
LEMMA Sounds ==
  ASSUME NEW x, NEW st, NEW m, NEW wm, NEW sl, NEW p, NEW q, NEW po, NEW of, NEW ar,
         Looks(x, st, m, wm, sl, p, q, po, of, ar), NEW a, NEW u,
         st # <<>>, Shape(st), MaskInv(st, m, u), PendInv(st, m, p), QueueInv(st, q, ar),
         PostInv(st, po), HeldInv(q, po, of),
         SleepInv(st, m, wm, sl, p, ar, a)
  PROVE  Sound(x, a, u)
BY DEF Looks, Sound, LiveInv

\* sig_queueaction() takes a free container, if there is one.
LEMMA QueueActionLooks ==
  ASSUME NEW r \in TcbType, NEW s \in Signal
  PROVE  \E q \in Seq(Container), of \in [Container -> Signal \cup {NoOne}] :
           /\ Looks(QueueAction(r, s), r.stack, r.mask, r.waitmask, r.asleep, r.pending, q, r.posted,
                    of, r.armed)
           /\ \/ q = r.actq /\ of = r.of
              \/ \E c \in Container : /\ r.of[c] = NoOne /\ q = Append(r.actq, c)
                                      /\ of = [r.of EXCEPT ![c] = s]
<1>1. /\ r.actq \in Seq(Container) /\ r.of \in [Container -> Signal \cup {NoOne}]
      /\ Looks(r, r.stack, r.mask, r.waitmask, r.asleep, r.pending, r.actq, r.posted, r.of, r.armed)
  BY Fields DEF Looks
<1>2. CASE s \in r.acts /\ Free(r) # {}
  <2> DEFINE c == Least(Free(r))
             q == Append(r.actq, c)
             of == [r.of EXCEPT ![c] = s]
  <2>1. c \in Free(r)
    <3>1. Free(r) \in SUBSET Nat
      BY SignalsAssumption DEF Free
    <3> QED
      BY <1>2, <3>1, LeastIn
  <2>2. c \in Container /\ r.of[c] = NoOne
    BY <2>1 DEF Free
  <2> HIDE DEF c
  <2>3. q \in Seq(Container)
    BY <1>1, <2>2, AppendProperties
  <2>4. of \in [Container -> Signal \cup {NoOne}]
    BY <1>1, <2>2
  <2>5. QueueAction(r, s) = [r EXCEPT !.actq = q, !.of = of]
    BY <1>2 DEF QueueAction, c
  <2> HIDE DEF q, of
  <2>6. Looks([r EXCEPT !.actq = q, !.of = of], r.stack, r.mask, r.waitmask, r.asleep, r.pending, q,
              r.posted, of, r.armed)
    BY <2>3, <2>4 DEF TcbType, Looks
  <2>7. \E d \in Container : r.of[d] = NoOne /\ q = Append(r.actq, d) /\ of = [r.of EXCEPT ![d] = s]
    BY <2>2 DEF q, of
  <2> QED
    BY <2>3, <2>4, <2>5, <2>6, <2>7
<1>3. CASE ~(s \in r.acts /\ Free(r) # {})
  BY <1>1, <1>3 DEF QueueAction
<1> QED
  BY <1>2, <1>3

\* up_schedule_sigaction().
LEMMA ScheduleLooks ==
  ASSUME NEW r \in TcbType, NEW self
  PROVE  \E st \in Seq(FrameType), ar \in BOOLEAN :
           /\ Looks(Schedule(r, self), st, r.mask, r.waitmask, r.asleep, r.pending, r.actq, r.posted,
                    r.of, ar)
           /\ \/ st = r.stack /\ ar = TRUE
              \/ st = Append(r.stack, Frame("deliver", FALSE)) /\ ar = r.armed
<1>1. Frame("deliver", FALSE) \in FrameType
  BY NewFrame
<1>2. /\ r.stack \in Seq(FrameType) /\ r.armed \in BOOLEAN
      /\ Looks(r, r.stack, r.mask, r.waitmask, r.asleep, r.pending, r.actq, r.posted, r.of, r.armed)
  BY Fields DEF Looks
<1>3. CASE r.armed
  BY <1>2, <1>3 DEF Schedule
<1>4. CASE ~r.armed /\ self
  <2>1. Append(r.stack, Frame("deliver", FALSE)) \in Seq(FrameType)
    BY <1>1, <1>2, AppendProperties
  <2>2. Schedule(r, self) = Push(r, Frame("deliver", FALSE))
    BY <1>4 DEF Schedule
  <2> QED
    BY <1>1, <1>2, <2>1, <2>2, PushLooks
<1>5. CASE ~r.armed /\ ~self
  <2>1. Looks([r EXCEPT !.armed = TRUE], r.stack, r.mask, r.waitmask, r.asleep, r.pending, r.actq,
              r.posted, r.of, TRUE)
    BY DEF TcbType, Looks
  <2> QED
    BY <1>2, <1>5, <2>1 DEF Schedule
<1> QED
  BY <1>3, <1>4, <1>5

\* The task is awake afterwards.
LEMMA UnblockLooks ==
  ASSUME NEW r \in TcbType, NEW s \in Signal
  PROVE  \E wm \in SUBSET Signal :
           Looks(Unblock(r, s), r.stack, r.mask, wm, FALSE, r.pending, r.actq, r.posted, r.of, r.armed)
<1>1. CASE r.asleep
  <2>1. Looks([r EXCEPT !.asleep = FALSE, !.unbinfo = s, !.waitmask = {}], r.stack, r.mask, {}, FALSE,
              r.pending, r.actq, r.posted, r.of, r.armed)
    BY DEF TcbType, Looks
  <2> QED
    BY <1>1, <2>1 DEF Unblock
<1>2. CASE ~r.asleep
  <2>1. r.asleep = FALSE /\ r.waitmask \in SUBSET Signal
    BY <1>2, Fields
  <2> QED
    BY <1>2, <2>1 DEF Unblock, Looks
<1> QED
  BY <1>1, <1>2

\* A container is taken for a new action.
LEMMA HeldMore ==
  ASSUME NEW q \in Seq(Container), NEW po, NEW of \in [Container -> Signal \cup {NoOne}],
         HeldInv(q, po, of), NEW c \in Container, of[c] = NoOne, NEW s \in Signal
  PROVE  HeldInv(Append(q, c), po, [of EXCEPT ![c] = s])
<1> DEFINE b == Append(q, c)
<1>1. /\ b \in Seq(Container) /\ Len(b) = Len(q) + 1 /\ Len(q) \in Nat
      /\ b[Len(q) + 1] = c /\ \A i \in 1..Len(q) : b[i] = q[i]
  BY AppendProperties, LenProperties, SMT
<1> HIDE DEF b
<1>2. ~Has(q, c) /\ c \notin po
  BY DEF HeldInv
<1>3. s # NoOne
  BY SignalsAssumption
<1>4. \A i \in 1..Len(b) : (i \in 1..Len(q) /\ b[i] = q[i]) \/ (i = Len(q) + 1 /\ b[i] = c)
  BY <1>1, SMT
<1>5. \A i \in 1..Len(q) : i \in 1..Len(b) /\ b[i] = q[i]
  BY <1>1, SMT
<1>6. Len(q) + 1 \in 1..Len(b) /\ b[Len(q) + 1] = c
  BY <1>1, SMT
<1>7. \A x : Has(b, x) <=> Has(q, x) \/ x = c
  BY <1>4, <1>5, <1>6 DEF Has
<1>8. \A i, j \in 1..Len(b) : b[i] = b[j] => i = j
  <2> SUFFICES ASSUME NEW i \in 1..Len(b), NEW j \in 1..Len(b), b[i] = b[j] PROVE i = j
    OBVIOUS
  <2>1. CASE i \in 1..Len(q) /\ j \in 1..Len(q)
    BY <1>5, <2>1 DEF HeldInv
  <2>2. CASE i = Len(q) + 1 /\ j = Len(q) + 1
    BY <2>2
  <2>3. CASE (i \in 1..Len(q) /\ j = Len(q) + 1) \/ (j \in 1..Len(q) /\ i = Len(q) + 1)
    BY <1>2, <1>5, <1>6, <2>3 DEF Has
  <2> QED
    BY <1>4, <2>1, <2>2, <2>3
<1>9. \A x \in Container : [of EXCEPT ![c] = s][x] = IF x = c THEN s ELSE of[x]
  OBVIOUS
<1> QED
  BY <1>2, <1>3, <1>7, <1>8, <1>9 DEF HeldInv, b

\* A signal that is not masked: the action is queued, sig_deliver() will
\* run, and the task does not sleep.
LEMMA QueuedSound ==
  ASSUME NEW r, NEW a, NEW u, Sound(r, a, u), NEW s \in Signal, NEW self
  PROVE  Sound(Queued(r, s, self), a, u)
<1>1. r \in TcbType /\ r.stack # <<>> /\ HeldInv(r.actq, r.posted, r.of) /\ LiveInv(r, a, u)
  BY DEF Sound
<1>2. r.stack \in Seq(FrameType) /\ r.actq \in Seq(Container) /\ r.of \in [Container -> Signal \cup {NoOne}]
  BY <1>1, Fields
<1> DEFINE r1 == QueueAction(r, s)
           r2 == Schedule(r1, self)
<1>3. PICK q \in Seq(Container), of \in [Container -> Signal \cup {NoOne}] :
        /\ Looks(r1, r.stack, r.mask, r.waitmask, r.asleep, r.pending, q, r.posted, of, r.armed)
        /\ \/ q = r.actq /\ of = r.of
           \/ \E c \in Container : /\ r.of[c] = NoOne /\ q = Append(r.actq, c)
                                   /\ of = [r.of EXCEPT ![c] = s]
  BY <1>1, QueueActionLooks
<1>4. HeldInv(q, r.posted, of)
  <2>1. CASE q = r.actq /\ of = r.of
    BY <1>1, <2>1
  <2>2. CASE \E c \in Container : /\ r.of[c] = NoOne /\ q = Append(r.actq, c)
                                  /\ of = [r.of EXCEPT ![c] = s]
    <3>1. PICK c \in Container : r.of[c] = NoOne /\ q = Append(r.actq, c) /\ of = [r.of EXCEPT ![c] = s]
      BY <2>2
    <3>2. HeldInv(Append(r.actq, c), r.posted, [r.of EXCEPT ![c] = s])
      BY <1>1, <1>2, <3>1, HeldMore
    <3> QED
      BY <3>1, <3>2
  <2> QED
    BY <1>3, <2>1, <2>2
<1> HIDE DEF r1
<1>5. PICK st \in Seq(FrameType), ar \in BOOLEAN :
        /\ Looks(r2, st, r1.mask, r1.waitmask, r1.asleep, r1.pending, r1.actq, r1.posted, r1.of, ar)
        /\ \/ st = r1.stack /\ ar = TRUE
           \/ st = Append(r1.stack, Frame("deliver", FALSE)) /\ ar = r1.armed
  <2>1. r1 \in TcbType
    BY <1>3 DEF Looks
  <2> QED
    BY <2>1, ScheduleLooks
<1> HIDE DEF r2
<1>6. PICK wm \in SUBSET Signal :
        Looks(Unblock(r2, s), r2.stack, r2.mask, wm, FALSE, r2.pending, r2.actq, r2.posted, r2.of, r2.armed)
  <2>1. r2 \in TcbType
    BY <1>5 DEF Looks
  <2> QED
    BY <2>1, UnblockLooks
<1>7. Looks(Unblock(r2, s), st, r.mask, wm, FALSE, r.pending, q, r.posted, of, ar)
  BY <1>3, <1>5, <1>6 DEF Looks
<1>8. (st = r.stack /\ ar = TRUE) \/ st = Append(r.stack, Frame("deliver", FALSE))
  BY <1>3, <1>5 DEF Looks
<1>9. SleepInv(st, r.mask, wm, FALSE, r.pending, ar, a)
  BY <1>1 DEF LiveInv, SleepInv
<1>10. /\ st # <<>> /\ Shape(st) /\ MaskInv(st, r.mask, u) /\ PendInv(st, r.mask, r.pending)
       /\ QueueInv(st, q, ar) /\ PostInv(st, r.posted)
  <2>1. CASE st = r.stack /\ ar = TRUE
    BY <1>1, <2>1 DEF LiveInv, QueueInv
  <2>2. CASE st = Append(r.stack, Frame("deliver", FALSE))
    <3> DEFINE f == Frame("deliver", FALSE)
    <3>1. f \in FrameType /\ f.k = "deliver" /\ f.at = "start"
      BY NewFrame
    <3>2. f.k # "user" /\ f.k \notin {"wait", "suspend"} /\ f.k # "handler" /\ ~Restores(f) /\ ~Posts(f)
      BY <3>1 DEF Restores, Posts
    <3> HIDE DEF f
    <3>3. Stack(r.stack)
      BY <1>1, <1>2, TopFrame
    <3>4. Grows(r.stack, st, f) /\ st # <<>>
      BY <1>2, <2>2, <3>1, PushGrows DEF f
    <3> QED
      BY <1>1, <3>1, <3>2, <3>3, <3>4, ShapeGrows, MaskGrows, PendGrows, QueueStarts, PostGrows
         DEF LiveInv
  <2> QED
    BY <1>8, <2>1, <2>2
<1> QED
  BY <1>4, <1>7, <1>9, <1>10, Sounds DEF Queued, r1, r2

\* A masked signal that the task waits for.
LEMMA UnblockSound ==
  ASSUME NEW r, NEW a, NEW u, Sound(r, a, u), NEW s \in Signal
  PROVE  Sound(Unblock(r, s), a, u)
<1>1. r \in TcbType /\ r.stack # <<>> /\ HeldInv(r.actq, r.posted, r.of) /\ LiveInv(r, a, u)
  BY DEF Sound
<1>2. PICK wm \in SUBSET Signal :
        Looks(Unblock(r, s), r.stack, r.mask, wm, FALSE, r.pending, r.actq, r.posted, r.of, r.armed)
  BY <1>1, UnblockLooks
<1>3. SleepInv(r.stack, r.mask, wm, FALSE, r.pending, r.armed, a)
  BY <1>1 DEF LiveInv, SleepInv
<1> QED
  BY <1>1, <1>2, <1>3, Sounds DEF LiveInv

\* A TCB with other pending signals.
LEMMA SetPending ==
  ASSUME NEW r \in TcbType, NEW p \in [Signal -> Nat]
  PROVE  Looks([r EXCEPT !.pending = p], r.stack, r.mask, r.waitmask, r.asleep, p, r.actq,
               r.posted, r.of, r.armed)
BY DEF TcbType, Looks

\* One signal more or less is pending: s, which is masked or not pending.
LEMMA PendingSound ==
  ASSUME NEW r, NEW a, NEW b, NEW u, Sound(r, a, u), NEW s, NEW n \in {0, 1},
         n = 0 \/ s \in r.mask, n = 0 \/ ~r.asleep \/ s \notin r.waitmask,
         b = a \/ b = NoOne
  PROVE  Sound([r EXCEPT !.pending[s] = n], b, u)
<1> DEFINE p == [r.pending EXCEPT ![s] = n]
<1>1. r \in TcbType /\ r.stack # <<>> /\ HeldInv(r.actq, r.posted, r.of) /\ LiveInv(r, a, u)
  BY DEF Sound
<1>2. r.pending \in [Signal -> Nat] /\ r.waitmask \in SUBSET Signal
  BY <1>1, Fields
<1>3. n \in Nat /\ n <= 1
  BY SMT
<1>4. p \in [Signal -> Nat]
  BY <1>2, <1>3
<1>5. \A x \in Signal : p[x] = IF x = s THEN n ELSE r.pending[x]
  BY <1>2
<1>6. [r EXCEPT !.pending[s] = n] = [r EXCEPT !.pending = p]
  OBVIOUS
<1> HIDE DEF p
<1>7. Looks([r EXCEPT !.pending = p], r.stack, r.mask, r.waitmask, r.asleep, p, r.actq, r.posted, r.of,
            r.armed)
  BY <1>1, <1>4, SetPending
<1>8. PendInv(r.stack, r.mask, p)
  BY <1>1, <1>3, <1>5 DEF PendInv, LiveInv
<1>9. NoOne \notin r.waitmask
  BY <1>2, SignalsAssumption
<1>10. SleepInv(r.stack, r.mask, r.waitmask, r.asleep, p, r.armed, b)
  <2>1. SleepInv(r.stack, r.mask, r.waitmask, r.asleep, r.pending, r.armed, a)
    BY <1>1 DEF LiveInv
  <2>2. ASSUME r.asleep, NEW x \in r.waitmask PROVE p[x] = 0
    BY <1>2, <1>5, <2>1, <2>2 DEF SleepInv
  <2> QED
    BY <1>9, <2>1, <2>2 DEF SleepInv
<1>11. Shape(r.stack) /\ MaskInv(r.stack, r.mask, u) /\ QueueInv(r.stack, r.actq, r.armed) /\ PostInv(r.stack, r.posted)
  BY <1>1 DEF LiveInv
<1>12. Sound([r EXCEPT !.pending = p], b, u)
  BY <1>1, <1>7, <1>8, <1>10, <1>11, Sounds
<1> QED
  BY <1>6, <1>12

\* sig_addpendingsignal() when nothing interferes.
LEMMA AddPendingSound ==
  ASSUME NEW r, NEW a, NEW u, Sound(r, a, u), NEW s \in Signal, s \in r.mask, ~Awaited(r, s)
  PROVE  Sound(AddPending(r, s), a, u)
<1>1. r.pending \in [Signal -> Nat] /\ PendInv(r.stack, r.mask, r.pending)
  BY Fields DEF Sound, LiveInv
<1>2. r.pending[s] \in Nat /\ r.pending[s] <= 1
  BY <1>1 DEF PendInv
<1>3. (IF r.pending[s] = 0 THEN 1 ELSE r.pending[s]) = 1
  BY <1>2, SMT
<1>4. AddPending(r, s) = [r EXCEPT !.pending[s] = 1]
  BY <1>3 DEF AddPending
<1>5. 1 \in {0, 1} /\ (~r.asleep \/ s \notin r.waitmask)
  BY DEF Awaited
<1>6. Sound([r EXCEPT !.pending[s] = 1], a, u)
  BY <1>5, PendingSound
<1> QED
  BY <1>4, <1>6

\* sig_unmaskpendingsignal() starts after any change of the mask.
LEMMA UnmaskingSound ==
  ASSUME NEW r \in TcbType, NEW a, NEW u, r.stack # <<>>, HeldInv(r.actq, r.posted, r.of),
         Shape(r.stack), MaskInv(r.stack, r.mask, u), \A s \in Signal : r.pending[s] <= 1,
         QueueInv(r.stack, r.actq, r.armed), PostInv(r.stack, r.posted), ~r.asleep,
         a # NoOne => a \in r.mask
  PROVE  Sound(Unmasking(r), a, u)
<1> DEFINE g == Frame("unmask", Top(r).irq)
           f == [g EXCEPT !.set = PendingSet(r) \ r.mask]
           st == Append(r.stack, f)
<1>1. /\ r.stack \in Seq(FrameType) /\ r.pending \in [Signal -> Nat] /\ r.asleep = FALSE
      /\ r.waitmask \in SUBSET Signal
  BY Fields
<1>2. Stack(r.stack) /\ Top(r) \in FrameType
  BY <1>1, TopFrame DEF Top
<1>3. g \in FrameType /\ g.k = "unmask"
  BY <1>2, NewFrame, FrameFields
<1> HIDE DEF g
<1>4. f \in FrameType /\ f.k = "unmask" /\ f.set = PendingSet(r) \ r.mask
  <2>1. PendingSet(r) \ r.mask \in SUBSET Signal
    BY DEF PendingSet
  <2> QED
    BY <1>3, <2>1 DEF FrameType
<1>5. Unmasking(r) = Push(r, f)
  BY DEF Unmasking, g
<1> HIDE DEF f
<1>6. Looks(Push(r, f), st, r.mask, r.waitmask, FALSE, r.pending, r.actq, r.posted, r.of, r.armed)
  BY <1>1, <1>4, PushLooks
<1>7. Grows(r.stack, st, f) /\ st # <<>>
  BY <1>1, <1>4, PushGrows
<1> HIDE DEF st
<1>8. f.k # "user" /\ f.k \notin {"wait", "suspend"} /\ f.k # "handler" /\ f.k # "deliver"
  BY <1>4
<1>9. ~Restores(f) /\ ~Posts(f)
  BY <1>8 DEF Restores, Posts
<1>10. f.set = {s \in Signal : r.pending[s] > 0} \ r.mask
  BY <1>4 DEF PendingSet
<1>11. PendInv(st, r.mask, r.pending)
  BY <1>1, <1>2, <1>4, <1>7, <1>10, PendUnmasks
<1>12. Shape(st) /\ MaskInv(st, r.mask, u) /\ QueueInv(st, r.actq, r.armed) /\ PostInv(st, r.posted)
  BY <1>2, <1>7, <1>8, <1>9, ShapeGrows, MaskGrows, QueueGrows, PostGrows
<1>13. SleepInv(st, r.mask, r.waitmask, FALSE, r.pending, r.armed, a)
  BY DEF SleepInv
<1> QED
  BY <1>5, <1>6, <1>7, <1>11, <1>12, <1>13, Sounds

-----------------------------------------------------------------------------
(* The steps of Signals keep the invariant.  First, the senders.           *)

SoundNow == Sound(tcb, adding, umask)

\* An interrupt handler sends a signal.
LEMMA InterruptKeeps ==
  ASSUME SoundNow, NEW s \in Signal, Interrupt(s)
  PROVE  SoundNow'
<1>1. adding' = adding /\ umask' = umask
  BY DEF Interrupt
<1>2. CASE s \notin tcb.mask
  BY <1>1, <1>2, QueuedSound DEF Interrupt, SoundNow
<1>3. CASE s \in tcb.mask /\ Awaited(tcb, s)
  BY <1>1, <1>3, UnblockSound DEF Interrupt, SoundNow
<1>4. CASE s \in tcb.mask /\ ~Awaited(tcb, s)
  BY <1>1, <1>4, AddPendingSound DEF Interrupt, SoundNow
<1> QED
  BY <1>2, <1>3, <1>4

\* A task sends a signal.
LEMMA SendKeeps ==
  ASSUME SoundNow, adding = NoOne, NEW s \in Signal, NEW self, Send(s, self)
  PROVE  SoundNow'
<1>1. umask' = umask
  BY DEF Send
<1>2. CASE s \notin tcb.mask
  BY <1>1, <1>2, QueuedSound DEF Send, SoundNow
<1>3. CASE s \in tcb.mask /\ Awaited(tcb, s)
  BY <1>1, <1>3, UnblockSound DEF Send, SoundNow
<1>4. CASE s \in tcb.mask /\ ~Awaited(tcb, s) /\ s \in PendingSet(tcb)
  BY <1>1, <1>4 DEF Send, SoundNow
<1>5. CASE s \in tcb.mask /\ ~Awaited(tcb, s) /\ s \notin PendingSet(tcb)
  <2>1. adding' = s /\ tcb' = tcb
    BY <1>5 DEF Send
  <2>2. SleepInv(tcb.stack, tcb.mask, tcb.waitmask, tcb.asleep, tcb.pending, tcb.armed, s)
    BY <1>5 DEF SoundNow, Sound, LiveInv, SleepInv, Awaited
  <2> QED
    BY <1>1, <2>1, <2>2 DEF SoundNow, Sound, LiveInv
<1> QED
  BY <1>2, <1>3, <1>4, <1>5

\* The signal that a task was about to add; twice in the queue is broken.
LEMMA AddKeeps ==
  ASSUME SoundNow, NEW s \in Signal, Add(s), ~broken'
  PROVE  SoundNow'
<1>1. adding = s /\ adding' = NoOne /\ umask' = umask /\ s \notin PendingSet(tcb) /\ s # NoOne
  BY SignalsAssumption DEF Add
<1>2. tcb.pending \in [Signal -> Nat]
  BY Fields DEF SoundNow, Sound
<1>3. tcb.pending[s] = 0
  <2>1. ~(tcb.pending[s] > 0) /\ tcb.pending[s] \in Nat
    BY <1>1, <1>2 DEF PendingSet
  <2> QED
    BY <2>1, SMT
<1>4. tcb' = [tcb EXCEPT !.pending[s] = 1]
  <2>1. tcb.pending[s] + 1 = 1
    BY <1>3, SMT
  <2> QED
    BY <2>1 DEF Add
<1>5. s \in tcb.mask /\ (~tcb.asleep \/ s \notin tcb.waitmask)
  BY <1>1 DEF SoundNow, Sound, LiveInv, SleepInv
<1>6. Sound([tcb EXCEPT !.pending[s] = 1], NoOne, umask)
  <2>1. 1 \in {0, 1}
    OBVIOUS
  <2> QED
    BY <1>5, <2>1, PendingSound DEF SoundNow
<1> QED
  BY <1>1, <1>4, <1>6 DEF SoundNow

-----------------------------------------------------------------------------
(* Delivery.                                                               *)

\* What is known of the task that executes an instruction.
LEMMA Running ==
  ASSUME SoundNow, NEW kind, Executes(kind)
  PROVE  /\ tcb \in TcbType /\ Stack(tcb.stack) /\ tcb.stack # <<>>
         /\ Top(tcb) = tcb.stack[Len(tcb.stack)] /\ Top(tcb) \in FrameType /\ Top(tcb).k = kind
         /\ tcb.asleep = FALSE /\ tcb.armed = FALSE /\ adding = NoOne
         /\ HeldInv(tcb.actq, tcb.posted, tcb.of)
         /\ Shape(tcb.stack) /\ MaskInv(tcb.stack, tcb.mask, umask)
         /\ PendInv(tcb.stack, tcb.mask, tcb.pending)
         /\ QueueInv(tcb.stack, tcb.actq, FALSE) /\ PostInv(tcb.stack, tcb.posted)
<1>1. tcb \in TcbType /\ tcb.stack # <<>>
  BY DEF SoundNow, Sound
<1>2. tcb.asleep \in BOOLEAN /\ tcb.armed \in BOOLEAN
  BY <1>1, Fields
<1> QED
  BY <1>1, <1>2, SoundTop DEF SoundNow, Sound, LiveInv, Executes

\* Nobody is asleep and nobody adds a signal.
LEMMA Awake ==
  ASSUME NEW st, NEW m, NEW wm, NEW p, NEW ar
  PROVE  SleepInv(st, m, wm, FALSE, p, ar, NoOne)
BY DEF SleepInv

\* up_sigdeliver().
LEMMA TrampolineKeeps ==
  ASSUME SoundNow, Trampoline
  PROVE  SoundNow'
<1> DEFINE f == Frame("deliver", Top(tcb).irq)
           r == [tcb EXCEPT !.armed = FALSE]
           st == Append(tcb.stack, f)
<1>1. tcb \in TcbType /\ tcb.stack # <<>> /\ HeldInv(tcb.actq, tcb.posted, tcb.of) /\ LiveInv(tcb, adding, umask)
  BY DEF SoundNow, Sound
<1>2. /\ ~tcb.asleep /\ adding = NoOne /\ tcb' = Push(r, f) /\ adding' = adding /\ umask' = umask
  BY DEF Trampoline
<1>3. tcb.stack \in Seq(FrameType) /\ tcb.asleep = FALSE
  BY <1>1, <1>2, Fields
<1>4. Stack(tcb.stack) /\ Top(tcb) \in FrameType
  BY <1>1, SoundTop DEF SoundNow
<1>5. f \in FrameType /\ f.k = "deliver" /\ f.at = "start"
  BY <1>4, FrameFields, NewFrame
<1>6. f.k # "user" /\ f.k \notin {"wait", "suspend"} /\ f.k # "handler" /\ ~Restores(f) /\ ~Posts(f)
  BY <1>5 DEF Restores, Posts
<1> HIDE DEF f
<1>7. Looks(r, tcb.stack, tcb.mask, tcb.waitmask, tcb.asleep, tcb.pending, tcb.actq, tcb.posted, tcb.of, FALSE)
  BY <1>1 DEF TcbType, Looks
<1> HIDE DEF r
<1>8. Looks(Push(r, f), st, tcb.mask, tcb.waitmask, FALSE, tcb.pending, tcb.actq, tcb.posted, tcb.of, FALSE)
  <2>1. Looks(Push(r, f), Append(r.stack, f), r.mask, r.waitmask, r.asleep, r.pending, r.actq, r.posted, r.of, r.armed)
    BY <1>5, <1>7, PushLooks DEF Looks
  <2> QED
    BY <1>3, <1>7, <2>1 DEF Looks
<1>9. Grows(tcb.stack, st, f) /\ st # <<>>
  BY <1>3, <1>5, PushGrows
<1> HIDE DEF st
<1>10. /\ Shape(st) /\ MaskInv(st, tcb.mask, umask) /\ PendInv(st, tcb.mask, tcb.pending)
       /\ QueueInv(st, tcb.actq, FALSE) /\ PostInv(st, tcb.posted)
  BY <1>1, <1>4, <1>5, <1>6, <1>9, ShapeGrows, MaskGrows, PendGrows, QueueStarts, PostGrows DEF LiveInv
<1>11. Sound(Push(r, f), NoOne, umask)
  BY <1>1, <1>8, <1>9, <1>10, Awake, Sounds
<1> QED
  BY <1>2, <1>11 DEF SoundNow

\* The head of sigpendactionq and its flink.
LEMMA FlinkHead ==
  ASSUME tcb \in TcbType, HeldInv(tcb.actq, tcb.posted, tcb.of), Len(tcb.actq) # 0
  PROVE  /\ 1 \in 1..Len(tcb.actq) /\ tcb.actq[1] \in Container
         /\ InQueue(tcb.actq[1]) /\ Place(tcb.actq[1]) = 1
         /\ Flink(tcb.actq[1]) = (IF Len(tcb.actq) > 1 THEN tcb.actq[2] ELSE NoOne)
         /\ Flink(tcb.actq[1]) \in Container \cup {NoOne}
<1> DEFINE q == tcb.actq
           n == Len(q)
<1>1. q \in Seq(Container) /\ n \in Nat /\ \A i, j \in 1..n : q[i] = q[j] => i = j
  BY Fields, LenProperties DEF HeldInv
<1>2. 1 \in 1..n /\ (n > 1 => 2 \in 1..n) /\ 1 + 1 = 2 /\ (n > 1 <=> 1 < n)
  BY <1>1, SMT
<1>3. q[1] \in Container /\ (n > 1 => q[2] \in Container)
  BY <1>1, <1>2, ElementOfSeq
<1>4. Place(q[1]) = 1
  BY <1>1, <1>2 DEF Place
<1>5. Flink(q[1]) = (IF n > 1 THEN q[2] ELSE NoOne)
  BY <1>2, <1>4 DEF Flink
<1> QED
  BY <1>2, <1>3, <1>4, <1>5 DEF InQueue

\* The head of the queue is the container with which sig_deliver() goes on.
LEMMA CurIsHead ==
  ASSUME SoundNow, Executes("deliver")
  PROVE  Len(tcb.actq) = 0 \/ Delivers(Top(tcb), tcb.actq)
BY Running, QueueTop

\* The top frame goes.
LEMMA PopSound ==
  ASSUME NEW r, NEW u, Sound(r, NoOne, u), ~r.asleep, Top(r).k # "user",
         ~Restores(Top(r)), ~Posts(Top(r)),
         Top(r).k = "unmask" => Top(r).set = {}, Top(r).k = "deliver" => Len(r.actq) = 0
  PROVE  Sound(Pop(r), NoOne, u)
<1> DEFINE b == SubSeq(r.stack, 1, Len(r.stack) - 1)
<1>1. r \in TcbType /\ r.stack # <<>> /\ HeldInv(r.actq, r.posted, r.of) /\ LiveInv(r, NoOne, u)
  BY DEF Sound
<1>2. Stack(r.stack) /\ Top(r) = r.stack[Len(r.stack)] /\ Len(r.stack) \in 1..Len(r.stack)
  BY SoundTop
<1>3. r.asleep = FALSE
  BY <1>1, Fields
<1>4. Looks(Pop(r), b, r.mask, r.waitmask, FALSE, r.pending, r.actq, r.posted, r.of, r.armed)
  BY <1>1, <1>3, PopLooks
<1>5. Shrinks(r.stack, b)
  BY <1>2, PopShrinks
<1> HIDE DEF b
<1>6. b # <<>>
  <2>1. Len(r.stack) # 1
    <3>1. Shape(r.stack)
      BY <1>1 DEF LiveInv
    <3>2. r.stack[Len(r.stack)].k = "user" <=> Len(r.stack) = 1
      BY <1>2, <3>1 DEF Shape
    <3> QED
      BY <1>2, <3>2
  <2>2. Len(b) # 0
    BY <1>5, <2>1, SMT DEF Shrinks
  <2> QED
    BY <2>2, EmptySeq
<1>7. QueueInv(b, r.actq, r.armed)
  <2>1. CASE Top(r).k = "deliver"
    BY <2>1 DEF QueueInv
  <2>2. CASE Top(r).k # "deliver"
    BY <1>1, <1>2, <1>5, <2>2, QueueShrinks DEF LiveInv
  <2> QED
    BY <2>1, <2>2
<1>8. Shape(b) /\ MaskInv(b, r.mask, u) /\ PendInv(b, r.mask, r.pending) /\ PostInv(b, r.posted)
  BY <1>1, <1>2, <1>5, ShapeShrinks, MaskShrinks, PendShrinks, PostShrinks DEF LiveInv
<1> QED
  BY <1>1, <1>4, <1>6, <1>7, <1>8, Awake, Sounds

\* sig_deliver() on top goes on to another place, with no handler.
LEMMA DeliverGoesOn ==
  ASSUME SoundNow, Executes("deliver"), NEW f \in FrameType, f.k = "deliver",
         Delivers(f, tcb.actq), ~Posts(Top(tcb)), ~Posts(f), tcb' = SetTop(tcb, f),
         adding' = adding, umask' = umask
  PROVE  SoundNow'
<1> DEFINE b == [tcb.stack EXCEPT ![Len(tcb.stack)] = f]
<1>1. /\ tcb \in TcbType /\ tcb.stack # <<>> /\ Stack(tcb.stack) /\ tcb.asleep = FALSE /\ adding = NoOne
      /\ Top(tcb) = tcb.stack[Len(tcb.stack)] /\ Top(tcb).k = "deliver"
      /\ HeldInv(tcb.actq, tcb.posted, tcb.of) /\ Shape(tcb.stack)
      /\ MaskInv(tcb.stack, tcb.mask, umask) /\ PendInv(tcb.stack, tcb.mask, tcb.pending)
      /\ PostInv(tcb.stack, tcb.posted)
  BY Running
<1>2. Looks(tcb', b, tcb.mask, tcb.waitmask, FALSE, tcb.pending, tcb.actq, tcb.posted, tcb.of, tcb.armed)
  BY <1>1, SetTopLooks
<1>3. Tops(tcb.stack, b, f) /\ b # <<>>
  BY <1>1, SetTops
<1> HIDE DEF b
<1>4. ~Restores(Top(tcb)) /\ ~Restores(f) /\ Top(tcb).k # "unmask"
  BY <1>1 DEF Restores, Posts
<1>5. Shape(b) /\ MaskInv(b, tcb.mask, umask) /\ PendInv(b, tcb.mask, tcb.pending)
  BY <1>1, <1>3, <1>4, ShapeTops, MaskTops, PendTops
<1>6. QueueInv(b, tcb.actq, tcb.armed)
  BY <1>1, <1>3, QueueDelivers
<1>7. PostInv(b, tcb.posted)
  <2>1. ~Posts(tcb.stack[Len(tcb.stack)])
    BY <1>1
  <2> QED
    BY <1>1, <1>3, <2>1, PostTops
<1>8. Sound(tcb', NoOne, umask)
  <2>1. SleepInv(b, tcb.mask, tcb.waitmask, FALSE, tcb.pending, tcb.armed, NoOne)
    BY Awake
  <2>2. HeldInv(tcb.actq, tcb.posted, tcb.of)
    BY <1>1
  <2> QED
    BY <1>2, <1>3, <1>5, <1>6, <1>7, <2>1, <2>2, Sounds
<1> QED
  BY <1>1, <1>8 DEF SoundNow

\* The loop of sig_deliver() starts.
LEMMA DeliverStartKeeps ==
  ASSUME SoundNow, DeliverStart
  PROVE  SoundNow'
<1>1. /\ Executes("deliver") /\ Top(tcb).at = "start" /\ adding' = adding /\ umask' = umask
  BY DEF DeliverStart
<1>2. /\ tcb \in TcbType /\ tcb.asleep = FALSE /\ adding = NoOne /\ Top(tcb) \in FrameType
      /\ Top(tcb).k = "deliver" /\ HeldInv(tcb.actq, tcb.posted, tcb.of)
  BY <1>1, Running
<1>3. ~Restores(Top(tcb)) /\ ~Posts(Top(tcb)) /\ Top(tcb).k # "user" /\ Top(tcb).k # "unmask"
  BY <1>1, <1>2 DEF Restores, Posts
<1>4. tcb.actq \in Seq(Container)
  BY <1>2, Fields
<1>5. CASE tcb.actq = <<>>
  <2>1. tcb' = Pop(tcb) /\ Len(tcb.actq) = 0
    BY <1>5, EmptySeq DEF DeliverStart
  <2>2. Sound(Pop(tcb), NoOne, umask)
    BY <1>2, <1>3, <2>1, PopSound DEF SoundNow
  <2> QED
    BY <1>1, <1>2, <2>1, <2>2 DEF SoundNow
<1>6. CASE tcb.actq # <<>>
  <2> DEFINE c == tcb.actq[1]
             f == [Top(tcb) EXCEPT !.at = "run", !.cur = c, !.nxt = Flink(c)]
  <2>1. Len(tcb.actq) # 0 /\ Head(tcb.actq) = c
    BY <1>4, <1>6, EmptySeq, SMT
  <2>2. c \in Container /\ Flink(c) = (IF Len(tcb.actq) > 1 THEN tcb.actq[2] ELSE NoOne)
        /\ Flink(c) \in Container \cup {NoOne}
    BY <1>2, <2>1, FlinkHead
  <2>3. tcb' = SetTop(tcb, f)
    BY <1>6, <2>1 DEF DeliverStart
  <2>4. f \in FrameType /\ f.k = "deliver" /\ f.at = "run" /\ f.cur = c /\ f.nxt = Flink(c)
    <3> HIDE DEF c
    <3> QED
      BY <1>2, <2>2 DEF FrameType
  <2> HIDE DEF f
  <2>5. Delivers(f, tcb.actq) /\ ~Posts(f)
    BY <2>2, <2>4 DEF Delivers, Posts
  <2> QED
    BY <1>1, <1>3, <2>3, <2>4, <2>5, DeliverGoesOn
<1> QED
  BY <1>5, <1>6

\* The next pass of the loop.
LEMMA DeliverPickKeeps ==
  ASSUME SoundNow, DeliverPick, ~broken'
  PROVE  SoundNow'
<1>1. /\ Executes("deliver") /\ Top(tcb).at = "pick" /\ adding' = adding /\ umask' = umask
  BY DEF DeliverPick
<1>2. /\ tcb \in TcbType /\ tcb.asleep = FALSE /\ adding = NoOne /\ Top(tcb) \in FrameType
      /\ Top(tcb).k = "deliver" /\ HeldInv(tcb.actq, tcb.posted, tcb.of)
  BY <1>1, Running
<1>3. ~Restores(Top(tcb)) /\ ~Posts(Top(tcb)) /\ Top(tcb).k # "user" /\ Top(tcb).k # "unmask"
  BY <1>1, <1>2 DEF Restores, Posts
<1>4. Len(tcb.actq) = 0 \/ Top(tcb).cur = tcb.actq[1]
  BY <1>1, CurIsHead DEF Delivers
<1>5. CASE Top(tcb).cur = NoOne
  <2>1. tcb' = Pop(tcb)
    BY <1>5 DEF DeliverPick
  <2>2. Len(tcb.actq) = 0
    BY <1>2, <1>4, <1>5, FlinkHead, SignalsAssumption
  <2>3. Sound(Pop(tcb), NoOne, umask)
    BY <1>2, <1>3, <2>2, PopSound DEF SoundNow
  <2> QED
    BY <1>1, <1>2, <2>1, <2>3 DEF SoundNow
<1>6. CASE Top(tcb).cur # NoOne
  <2> DEFINE c == Top(tcb).cur
             f == [Top(tcb) EXCEPT !.at = "run", !.nxt = Flink(c)]
  <2>1. InQueue(c) /\ tcb' = SetTop(tcb, f)
    BY <1>6 DEF DeliverPick
  <2>2. Len(tcb.actq) # 0
    <3>1. tcb.actq \in Seq(Container)
      BY <1>2, Fields
    <3>2. \E i \in 1..Len(tcb.actq) : TRUE
      BY <2>1 DEF InQueue
    <3> QED
      BY <3>1, <3>2, LenProperties, SMT
  <2>3. c = tcb.actq[1] /\ Flink(c) = (IF Len(tcb.actq) > 1 THEN tcb.actq[2] ELSE NoOne)
        /\ Flink(c) \in Container \cup {NoOne}
    BY <1>2, <1>4, <2>2, FlinkHead
  <2>4. f \in FrameType /\ f.k = "deliver" /\ f.at = "run" /\ f.cur = c /\ f.nxt = Flink(c)
    BY <1>2, <2>3 DEF FrameType
  <2> HIDE DEF f
  <2>5. Delivers(f, tcb.actq) /\ ~Posts(f)
    BY <2>3, <2>4 DEF Delivers, Posts
  <2> QED
    BY <1>1, <1>3, <2>1, <2>4, <2>5, DeliverGoesOn
<1> QED
  BY <1>5, <1>6

\* A handler returns.
LEMMA HandlerReturnsKeeps ==
  ASSUME SoundNow, HandlerReturns
  PROVE  SoundNow'
<1>1. Executes("handler") /\ tcb' = Pop(tcb) /\ adding' = adding /\ umask' = umask
  BY DEF HandlerReturns
<1>2. tcb.asleep = FALSE /\ adding = NoOne /\ Top(tcb).k = "handler"
  BY <1>1, Running
<1>3. /\ ~Restores(Top(tcb)) /\ ~Posts(Top(tcb)) /\ Top(tcb).k # "user" /\ Top(tcb).k # "unmask"
      /\ Top(tcb).k # "deliver"
  BY <1>2 DEF Restores, Posts
<1>4. Sound(Pop(tcb), NoOne, umask)
  BY <1>2, <1>3, PopSound DEF SoundNow
<1> QED
  BY <1>1, <1>2, <1>4 DEF SoundNow

\* sq_rem() of the head of sigpendactionq.
LEMMA RemoveHead ==
  ASSUME NEW q \in Seq(Container), Len(q) # 0
  PROVE  /\ sq_rem(q, 1) \in Seq(Container) /\ Len(q) = Len(sq_rem(q, 1)) + 1
         /\ \A i \in 1..Len(sq_rem(q, 1)) : sq_rem(q, 1)[i] = q[i + 1]
<1> DEFINE n == Len(q)
           b == SubSeq(q, 2, n)
<1>1. n \in Nat /\ n # 0
  BY LenProperties
<1>2. \A i \in 2..n : q[i] \in Container
  <2> TAKE i \in 2..n
  <2>1. i \in 1..Len(q)
    BY <1>1, SMT
  <2> QED
    BY <2>1, ElementOfSeq
<1>3. SubSeq(q, 1, 1 - 1) = <<>>
  <2>1. 1 \in Int /\ 1 - 1 \in Int /\ 1 - 1 < 1
    BY SMT
  <2> QED
    BY <2>1, SubSeqEmpty
<1> HIDE DEF n
<1>4. /\ b \in Seq(Container)
      /\ Len(b) = IF 2 <= n THEN n - 2 + 1 ELSE 0
      /\ \A i \in 1..(n - 2 + 1) : b[i] = q[2 + i - 1]
  <2>1. 2 \in Int /\ n \in Int
    BY <1>1, SMT
  <2> QED
    BY <1>2, <2>1, SubSeqProperties, SMT
<1>5. n = Len(b) + 1 /\ \A i \in 1..Len(b) : b[i] = q[i + 1]
  BY <1>1, <1>4, SMT
<1>6. sq_rem(q, 1) = b
  <2>1. 1 + 1 = 2
    BY SMT
  <2>2. sq_rem(q, 1) = SubSeq(q, 1, 1 - 1) \o SubSeq(q, 1 + 1, Len(q))
    BY DEF sq_rem
  <2>3. <<>> \o b = b
    BY <1>4, ConcatEmptySeq
  <2> QED
    BY <1>3, <2>1, <2>2, <2>3 DEF n
<1> QED
  BY <1>4, <1>5, <1>6 DEF n

\* The head of sigpendactionq goes to sigpostedq.
LEMMA HeldMoves ==
  ASSUME NEW q \in Seq(Container), NEW po, NEW of, HeldInv(q, po, of), Len(q) # 0
  PROVE  HeldInv(sq_rem(q, 1), po \cup {q[1]}, of) /\ q[1] \notin po /\ of[q[1]] # NoOne
<1> DEFINE b == sq_rem(q, 1)
<1>1. b \in Seq(Container) /\ Len(q) = Len(b) + 1 /\ \A i \in 1..Len(b) : b[i] = q[i + 1]
  BY RemoveHead
<1>2. Len(b) \in Nat
  BY <1>1, LenProperties
<1> HIDE DEF b
<1>3. 1 \in 1..Len(q) /\ \A i \in 1..Len(b) : i + 1 \in 1..Len(q) /\ i + 1 # 1
  BY <1>1, <1>2, SMT
<1>4. \A i, j \in 1..Len(b) : i + 1 = j + 1 => i = j
  BY SMT
<1>5. \A i \in 1..Len(q) : i = 1 \/ \E j \in 1..Len(b) : j + 1 = i
  <2> TAKE i \in 1..Len(q)
  <2>1. i # 1 => i - 1 \in 1..Len(b) /\ (i - 1) + 1 = i
    BY <1>1, <1>2, SMT
  <2> QED
    BY <2>1
<1>6. \A i, j \in 1..Len(q) : q[i] = q[j] => i = j
  BY DEF HeldInv
<1>7. \A i, j \in 1..Len(b) : b[i] = b[j] => i = j
  BY <1>1, <1>3, <1>4, <1>6
<1>8. \A c : Has(q, c) <=> Has(b, c) \/ c = q[1]
  <2>1. \A i \in 1..Len(b) : \E j \in 1..Len(q) : q[j] = b[i]
    BY <1>1, <1>3
  <2>2. \A i \in 1..Len(q) : q[i] = q[1] \/ \E j \in 1..Len(b) : b[j] = q[i]
    BY <1>1, <1>5
  <2> QED
    BY <1>3, <2>1, <2>2 DEF Has
<1>9. ~Has(b, q[1])
  BY <1>1, <1>3, <1>6 DEF Has
<1>10. q[1] \in Container
  BY <1>3, ElementOfSeq
<1>11. q[1] \notin po /\ of[q[1]] # NoOne
  BY <1>8, <1>10 DEF HeldInv
<1>12. \A c \in Container : of[c] # NoOne <=> Has(b, c) \/ c \in po \cup {q[1]}
  BY <1>8 DEF HeldInv
<1>13. \A c \in po \cup {q[1]} : ~Has(b, c)
  BY <1>8, <1>9 DEF HeldInv
<1> QED
  BY <1>7, <1>11, <1>12, <1>13 DEF HeldInv, b

\* More signals are masked.
LEMMA PendMasked ==
  ASSUME NEW a, NEW m, NEW p, PendInv(a, m, p), NEW n, m \subseteq n
  PROVE  PendInv(a, n, p)
BY DEF PendInv

\* A handler is called.
LEMMA DeliverRunKeeps ==
  ASSUME SoundNow, DeliverRun, ~broken'
  PROVE  SoundNow'
<1> DEFINE t == Top(tcb)
           c == t.cur
           s == tcb.of[c]
           q == sq_rem(tcb.actq, 1)
           m == tcb.mask \cup SaMask[s] \cup {s}
           po == tcb.posted \cup {c}
           f == [t EXCEPT !.at = "called", !.saved = tcb.mask]
           h == Frame("handler", t.irq)
           r == [tcb EXCEPT !.actq = q, !.posted = po, !.mask = m]
           a == [tcb.stack EXCEPT ![Len(tcb.stack)] = f]
           b == Append(a, h)
<1>1. Executes("deliver") /\ t.at = "run" /\ adding' = adding /\ umask' = umask /\ InQueue(c)
  BY DEF DeliverRun
<1>2. /\ tcb \in TcbType /\ tcb.stack # <<>> /\ Stack(tcb.stack) /\ t \in FrameType
      /\ t = tcb.stack[Len(tcb.stack)] /\ t.k = "deliver" /\ tcb.asleep = FALSE /\ adding = NoOne
      /\ HeldInv(tcb.actq, tcb.posted, tcb.of) /\ Shape(tcb.stack)
      /\ MaskInv(tcb.stack, tcb.mask, umask) /\ PendInv(tcb.stack, tcb.mask, tcb.pending)
      /\ PostInv(tcb.stack, tcb.posted)
  BY <1>1, Running
<1>3. /\ tcb.actq \in Seq(Container) /\ tcb.mask \in SUBSET Signal /\ tcb.posted \in SUBSET Container
      /\ tcb.of \in [Container -> Signal \cup {NoOne}]
  BY <1>2, Fields
<1>4. Len(tcb.actq) # 0
  <2>1. \E i \in 1..Len(tcb.actq) : TRUE
    BY <1>1 DEF InQueue
  <2> QED
    BY <1>3, <2>1, LenProperties, SMT
<1>5. c = tcb.actq[1] /\ t.nxt = (IF Len(tcb.actq) > 1 THEN tcb.actq[2] ELSE NoOne)
  BY <1>1, <1>4, CurIsHead DEF Delivers
<1>6. c \in Container /\ Place(c) = 1
  BY <1>2, <1>4, <1>5, FlinkHead
<1>7. HeldInv(q, po, tcb.of) /\ c \notin tcb.posted /\ s # NoOne
  BY <1>2, <1>3, <1>4, <1>5, HeldMoves
<1>8. s \in Signal /\ m \in SUBSET Signal /\ tcb.mask \subseteq m /\ po \in SUBSET Container
  <2>1. s \in Signal
    BY <1>3, <1>6, <1>7
  <2>2. SaMask[s] \in SUBSET Signal
    BY <2>1, SignalsAssumption
  <2> HIDE DEF s
  <2>3. m \in SUBSET Signal /\ tcb.mask \subseteq m
    BY <1>3, <2>1, <2>2
  <2>4. po \in SUBSET Container
    BY <1>3, <1>6
  <2> QED
    BY <2>1, <2>3, <2>4
<1>9. q \in Seq(Container) /\ Len(tcb.actq) = Len(q) + 1 /\ \A i \in 1..Len(q) : q[i] = tcb.actq[i + 1]
  BY <1>3, <1>4, RemoveHead
<1>10. /\ f \in FrameType /\ f.k = "deliver" /\ f.at = "called" /\ f.saved = tcb.mask
       /\ f.cur = c /\ f.nxt = t.nxt
  BY <1>2, <1>3 DEF FrameType
<1>11. h \in FrameType /\ h.k = "handler"
  BY <1>2, FrameFields, NewFrame
<1>12. tcb' = Push(SetTop(r, f), h)
  BY <1>1, <1>6 DEF DeliverRun
<1> HIDE DEF t, s, q, m, po, f, h
<1>13. Looks(r, tcb.stack, m, tcb.waitmask, FALSE, tcb.pending, q, po, tcb.of, tcb.armed)
  BY <1>2, <1>8, <1>9 DEF TcbType, Looks
<1> HIDE DEF r
<1>14. Looks(SetTop(r, f), a, m, tcb.waitmask, FALSE, tcb.pending, q, po, tcb.of, tcb.armed)
  <2>1. r \in TcbType /\ r.stack # <<>>
    BY <1>2, <1>13 DEF Looks
  <2>2. Looks(SetTop(r, f), [r.stack EXCEPT ![Len(r.stack)] = f], r.mask, r.waitmask, r.asleep, r.pending,
              r.actq, r.posted, r.of, r.armed)
    BY <1>10, <2>1, SetTopLooks
  <2> QED
    BY <1>13, <2>2 DEF Looks
<1>15. Tops(tcb.stack, a, f) /\ a # <<>>
  BY <1>2, <1>10, SetTops
<1> HIDE DEF a
<1>16. Stack(a) /\ Len(a) = Len(tcb.stack) /\ a[Len(a)] = f /\ a \in Seq(FrameType)
  BY <1>15, TopFrame DEF Tops
<1>17. Looks(tcb', b, m, tcb.waitmask, FALSE, tcb.pending, q, po, tcb.of, tcb.armed)
  <2> DEFINE x == SetTop(r, f)
  <2>1. x \in TcbType
    BY <1>14 DEF Looks
  <2>2. Looks(Push(x, h), Append(x.stack, h), x.mask, x.waitmask, x.asleep, x.pending, x.actq, x.posted,
              x.of, x.armed)
    BY <1>11, <2>1, PushLooks
  <2> HIDE DEF x
  <2>3. Looks(x, a, m, tcb.waitmask, FALSE, tcb.pending, q, po, tcb.of, tcb.armed) /\ tcb' = Push(x, h)
    BY <1>12, <1>14 DEF x
  <2> QED
    BY <2>2, <2>3 DEF Looks
<1>18. Grows(a, b, h) /\ b # <<>>
  BY <1>11, <1>16, PushGrows
<1> HIDE DEF b
<1>19. /\ ~Restores(tcb.stack[Len(tcb.stack)]) /\ ~Posts(tcb.stack[Len(tcb.stack)])
       /\ tcb.stack[Len(tcb.stack)].k = "deliver" /\ tcb.stack[Len(tcb.stack)].k # "unmask"
  BY <1>1, <1>2 DEF Restores, Posts
<1>20. Restores(f) /\ Posts(f) /\ ~Restores(h) /\ ~Posts(h)
  BY <1>10, <1>11 DEF Restores, Posts
<1>21. Shape(a) /\ MaskInv(a, m, umask) /\ PendInv(a, m, tcb.pending)
  <2>1. Shape(a)
    BY <1>2, <1>10, <1>15, <1>19, ShapeTops
  <2>2. MaskInv(a, m, umask)
    BY <1>2, <1>10, <1>15, <1>19, <1>20, MaskTopSaves
  <2>3. PendInv(a, tcb.mask, tcb.pending)
    BY <1>2, <1>15, <1>19, PendTops
  <2> QED
    BY <1>8, <2>1, <2>2, <2>3, PendMasked
<1>22. QueueInv(a, q, tcb.armed) /\ PostInv(a, po)
  <2>1. Delivers(f, q) \/ Len(q) = 0
    <3>1. Len(q) \in Nat
      BY <1>9, LenProperties
    <3>2. Len(q) # 0 => Len(tcb.actq) > 1 /\ q[1] = tcb.actq[2]
      <4>1. Len(q) # 0 => Len(tcb.actq) > 1 /\ 1 \in 1..Len(q) /\ 1 + 1 = 2
        BY <1>9, <3>1, SMT
      <4> QED
        BY <1>9, <4>1
    <3> QED
      BY <1>5, <1>10, <3>2 DEF Delivers
  <2>2. f.cur \notin tcb.posted /\ po = tcb.posted \cup {f.cur}
    BY <1>7, <1>10 DEF po
  <2>3. QueueInv(a, q, tcb.armed)
    BY <1>2, <1>10, <1>15, <2>1, QueueDelivers
  <2>4. PostInv(a, tcb.posted \cup {f.cur})
    BY <1>2, <1>15, <1>19, <1>20, <2>2, PostCalls
  <2> QED
    BY <2>2, <2>3, <2>4
<1>23. /\ Shape(b) /\ MaskInv(b, m, umask) /\ PendInv(b, m, tcb.pending)
       /\ QueueInv(b, q, tcb.armed) /\ PostInv(b, po)
  <2>1. h.k # "user" /\ h.k \notin {"wait", "suspend"} /\ h.k # "deliver" /\ a[Len(a)].k = "deliver"
        /\ a[Len(a)].at = "called"
    BY <1>10, <1>11, <1>16
  <2>2. Shape(b)
    BY <1>16, <1>18, <1>21, <2>1, ShapeGrows
  <2> QED
    BY <1>16, <1>18, <1>20, <1>21, <1>22, <2>1, <2>2, MaskGrows, PendGrows, QueueGrows, PostGrows
<1>24. SleepInv(b, m, tcb.waitmask, FALSE, tcb.pending, tcb.armed, NoOne)
  BY Awake
<1>25. Sound(tcb', NoOne, umask)
  BY <1>7, <1>17, <1>18, <1>23, <1>24, Sounds
<1> QED
  BY <1>1, <1>2, <1>25 DEF SoundNow

\* The handler has returned: the mask is restored, and signals that it let
\* pend are received.
LEMMA DeliverUnmasksKeeps ==
  ASSUME SoundNow, DeliverUnmasks
  PROVE  SoundNow'
<1> DEFINE t == Top(tcb)
           f == [t EXCEPT !.at = "unmasked"]
           r == [tcb EXCEPT !.mask = t.saved]
           a == [tcb.stack EXCEPT ![Len(tcb.stack)] = f]
           x == SetTop(r, f)
<1>1. /\ Executes("deliver") /\ t.at = "called" /\ adding' = adding /\ umask' = umask
      /\ tcb' = Unmasking(x)
  BY DEF DeliverUnmasks
<1>2. /\ tcb \in TcbType /\ tcb.stack # <<>> /\ Stack(tcb.stack) /\ t \in FrameType
      /\ t = tcb.stack[Len(tcb.stack)] /\ t.k = "deliver" /\ tcb.asleep = FALSE /\ adding = NoOne
      /\ HeldInv(tcb.actq, tcb.posted, tcb.of) /\ Shape(tcb.stack)
      /\ MaskInv(tcb.stack, tcb.mask, umask) /\ PendInv(tcb.stack, tcb.mask, tcb.pending)
      /\ PostInv(tcb.stack, tcb.posted)
  BY <1>1, Running
<1>3. t.saved \in SUBSET Signal
  BY <1>2, FrameFields
<1>4. f \in FrameType /\ f.k = "deliver" /\ f.at = "unmasked" /\ f.cur = t.cur /\ f.nxt = t.nxt
  BY <1>2 DEF FrameType
<1> HIDE DEF t, f
<1>5. Looks(r, tcb.stack, t.saved, tcb.waitmask, FALSE, tcb.pending, tcb.actq, tcb.posted, tcb.of, tcb.armed)
  BY <1>2, <1>3 DEF TcbType, Looks
<1> HIDE DEF r
<1>6. Looks(x, a, t.saved, tcb.waitmask, FALSE, tcb.pending, tcb.actq, tcb.posted, tcb.of, tcb.armed)
  <2>1. r \in TcbType /\ r.stack # <<>>
    BY <1>2, <1>5 DEF Looks
  <2>2. Looks(SetTop(r, f), [r.stack EXCEPT ![Len(r.stack)] = f], r.mask, r.waitmask, r.asleep, r.pending,
              r.actq, r.posted, r.of, r.armed)
    BY <1>4, <2>1, SetTopLooks
  <2> QED
    BY <1>5, <2>2 DEF Looks
<1>7. Tops(tcb.stack, a, f) /\ a # <<>>
  BY <1>2, <1>4, SetTops
<1> HIDE DEF a, x
<1> DEFINE y == tcb.stack[Len(tcb.stack)]
<1>8. Restores(y) /\ Posts(y) /\ y.k = "deliver" /\ y.saved = t.saved /\ y.cur = t.cur
  BY <1>1, <1>2 DEF Restores, Posts
<1>9. ~Restores(f) /\ Posts(f)
  BY <1>4 DEF Restores, Posts
<1>10. Delivers(f, tcb.actq) \/ Len(tcb.actq) = 0
  BY <1>1, <1>4, CurIsHead DEF Delivers, t
<1>11. Shape(a) /\ QueueInv(a, tcb.actq, tcb.armed)
  BY <1>2, <1>4, <1>7, <1>8, <1>10, ShapeTops, QueueDelivers
<1>12. MaskInv(a, t.saved, umask)
  <2>1. MaskInv(a, y.saved, umask)
    BY <1>2, <1>7, <1>8, <1>9, MaskTopRestores
  <2> QED
    BY <1>8, <2>1
<1>13. PostInv(a, tcb.posted)
  <2>1. (Posts(f) <=> Posts(y)) /\ (Posts(f) => f.cur = y.cur)
    BY <1>4, <1>8, <1>9
  <2> QED
    BY <1>2, <1>7, <2>1, PostTops
<1>14. \A s \in Signal : tcb.pending[s] <= 1
  BY <1>2 DEF PendInv
<1>15. Sound(Unmasking(x), NoOne, umask)
  <2>1. /\ x \in TcbType /\ x.stack # <<>> /\ HeldInv(x.actq, x.posted, x.of)
        /\ Shape(x.stack) /\ MaskInv(x.stack, x.mask, umask) /\ \A s \in Signal : x.pending[s] <= 1
        /\ QueueInv(x.stack, x.actq, x.armed) /\ PostInv(x.stack, x.posted) /\ ~x.asleep
    BY <1>2, <1>6, <1>7, <1>11, <1>12, <1>13, <1>14 DEF Looks
  <2> QED
    BY <2>1, UnmaskingSound
<1> QED
  BY <1>1, <1>2, <1>15 DEF SoundNow

\* The container is released.
LEMMA DeliverReleasesKeeps ==
  ASSUME SoundNow, DeliverReleases
  PROVE  SoundNow'
<1> DEFINE t == Top(tcb)
           c == t.cur
           po == tcb.posted \ {c}
           of == [tcb.of EXCEPT ![c] = NoOne]
           f == [t EXCEPT !.at = "pick", !.cur = t.nxt]
           r == [tcb EXCEPT !.posted = po, !.of = of]
           a == [tcb.stack EXCEPT ![Len(tcb.stack)] = f]
<1>1. /\ Executes("deliver") /\ t.at = "unmasked" /\ adding' = adding /\ umask' = umask
      /\ tcb' = SetTop(r, f)
  BY DEF DeliverReleases
<1>2. /\ tcb \in TcbType /\ tcb.stack # <<>> /\ Stack(tcb.stack) /\ t \in FrameType
      /\ t = tcb.stack[Len(tcb.stack)] /\ t.k = "deliver" /\ tcb.asleep = FALSE /\ adding = NoOne
      /\ HeldInv(tcb.actq, tcb.posted, tcb.of) /\ Shape(tcb.stack)
      /\ MaskInv(tcb.stack, tcb.mask, umask) /\ PendInv(tcb.stack, tcb.mask, tcb.pending)
      /\ PostInv(tcb.stack, tcb.posted)
  BY <1>1, Running
<1>3. tcb.posted \in SUBSET Container /\ tcb.of \in [Container -> Signal \cup {NoOne}]
  BY <1>2, Fields
<1>4. f \in FrameType /\ f.k = "deliver" /\ f.at = "pick" /\ f.cur = t.nxt
  <2>1. t.nxt \in Container \cup {NoOne}
    BY <1>2, FrameFields
  <2> QED
    BY <1>2, <2>1 DEF FrameType
<1> DEFINE y == tcb.stack[Len(tcb.stack)]
<1>5. /\ ~Restores(y) /\ Posts(y) /\ y.k = "deliver" /\ y.k # "unmask" /\ y.cur = c
      /\ ~Restores(f) /\ ~Posts(f)
  BY <1>1, <1>2, <1>4 DEF Restores, Posts
<1>6. c \in tcb.posted /\ c \in Container
  <2>1. Len(tcb.stack) \in 1..Len(tcb.stack)
    BY SoundTop DEF SoundNow
  <2> QED
    BY <1>2, <1>3, <1>5, <2>1 DEF PostInv
<1>7. po \in SUBSET Container /\ of \in [Container -> Signal \cup {NoOne}]
      /\ \A d \in Container : of[d] = IF d = c THEN NoOne ELSE tcb.of[d]
  BY <1>3, <1>6
<1>8. HeldInv(tcb.actq, po, of)
  <2>1. ~Has(tcb.actq, c)
    BY <1>2, <1>6 DEF HeldInv
  <2>2. \A d : d \in po <=> d \in tcb.posted /\ d # c
    OBVIOUS
  <2> HIDE DEF po, of, c
  <2> QED
    BY <1>2, <1>7, <2>1, <2>2 DEF HeldInv
<1>9. Delivers(f, tcb.actq) \/ Len(tcb.actq) = 0
  BY <1>1, <1>4, CurIsHead DEF Delivers
<1> HIDE DEF t, f, po, of
<1>10. Looks(r, tcb.stack, tcb.mask, tcb.waitmask, FALSE, tcb.pending, tcb.actq, po, of, tcb.armed)
  BY <1>2, <1>7 DEF TcbType, Looks
<1> HIDE DEF r
<1>11. Looks(tcb', a, tcb.mask, tcb.waitmask, FALSE, tcb.pending, tcb.actq, po, of, tcb.armed)
  <2>1. r \in TcbType /\ r.stack # <<>>
    BY <1>2, <1>10 DEF Looks
  <2>2. Looks(SetTop(r, f), [r.stack EXCEPT ![Len(r.stack)] = f], r.mask, r.waitmask, r.asleep, r.pending,
              r.actq, r.posted, r.of, r.armed)
    BY <1>4, <2>1, SetTopLooks
  <2> QED
    BY <1>1, <1>10, <2>2 DEF Looks
<1>12. Tops(tcb.stack, a, f) /\ a # <<>>
  BY <1>2, <1>4, SetTops
<1> HIDE DEF a
<1>13. Shape(a) /\ QueueInv(a, tcb.actq, tcb.armed)
  BY <1>2, <1>4, <1>5, <1>9, <1>12, ShapeTops, QueueDelivers
<1>14. MaskInv(a, tcb.mask, umask) /\ PendInv(a, tcb.mask, tcb.pending)
  BY <1>2, <1>5, <1>12, MaskTops, PendTops
<1>15. PostInv(a, po)
  <2>1. PostInv(a, tcb.posted \ {y.cur})
    BY <1>2, <1>5, <1>12, PostReturns
  <2> QED
    BY <1>5, <2>1 DEF po
<1>16. SleepInv(a, tcb.mask, tcb.waitmask, FALSE, tcb.pending, tcb.armed, NoOne)
  BY Awake
<1>17. Sound(tcb', NoOne, umask)
  BY <1>8, <1>11, <1>12, <1>13, <1>14, <1>15, <1>16, Sounds
<1> QED
  BY <1>1, <1>2, <1>17 DEF SoundNow

\* sig_unmaskpendingsignal() has looked at s, which is not pending any more.
LEMMA LookedSound ==
  ASSUME SoundNow, Executes("unmask"), NEW s \in Signal, NEW f \in FrameType, f.k = "unmask",
         f.set = Top(tcb).set \ {s}, NEW n \in [Signal -> Nat], n[s] = 0,
         \A z \in Signal : z # s => n[z] = tcb.pending[z],
         NEW x, NEW a, Tops(tcb.stack, a, f), a # <<>>,
         Looks(x, a, tcb.mask, tcb.waitmask, FALSE, n, tcb.actq, tcb.posted, tcb.of, tcb.armed)
  PROVE  Sound(x, NoOne, umask)
<1> DEFINE y == tcb.stack[Len(tcb.stack)]
<1>1. /\ Stack(tcb.stack) /\ Top(tcb) = y /\ Top(tcb).k = "unmask" /\ tcb.armed = FALSE
      /\ HeldInv(tcb.actq, tcb.posted, tcb.of) /\ Shape(tcb.stack)
      /\ MaskInv(tcb.stack, tcb.mask, umask) /\ PendInv(tcb.stack, tcb.mask, tcb.pending)
      /\ QueueInv(tcb.stack, tcb.actq, FALSE) /\ PostInv(tcb.stack, tcb.posted)
  BY Running
<1>2. /\ y.k = "unmask" /\ f.k = y.k /\ f.set = y.set \ {s} /\ y.k # "deliver" /\ f.k # "deliver"
      /\ ~Restores(y) /\ ~Posts(y) /\ ~Restores(f) /\ ~Posts(f)
  BY <1>1 DEF Restores, Posts
<1>3. n[s] <= 1
  BY SMT
<1> HIDE DEF y
<1>4. PendInv(a, tcb.mask, n)
  BY <1>1, <1>2, <1>3, PendLooked DEF y
<1>5. Shape(a) /\ MaskInv(a, tcb.mask, umask)
  BY <1>1, <1>2, ShapeTops, MaskTops DEF y
<1>6. QueueInv(a, tcb.actq, tcb.armed)
  BY <1>1, <1>2, QueueTops DEF y
<1>7. PostInv(a, tcb.posted)
  <2>1. (Posts(f) <=> Posts(y)) /\ (Posts(f) => f.cur = y.cur)
    BY <1>2
  <2> QED
    BY <1>1, <2>1, PostTops DEF y
<1>8. SleepInv(a, tcb.mask, tcb.waitmask, FALSE, n, tcb.armed, NoOne)
  BY Awake
<1> QED
  BY <1>1, <1>4, <1>5, <1>6, <1>7, <1>8, Sounds

\* The loop of sig_unmaskpendingsignal().
LEMMA UnmaskKeeps ==
  ASSUME SoundNow, Unmask
  PROVE  SoundNow'
<1> DEFINE t == Top(tcb)
           s == Least(t.set)
           f == [t EXCEPT !.set = @ \ {s}]
           r == SetTop(tcb, f)
           a == [tcb.stack EXCEPT ![Len(tcb.stack)] = f]
           n == [tcb.pending EXCEPT ![s] = 0]
           p == [r EXCEPT !.pending = n]
<1>1. Executes("unmask") /\ adding' = adding /\ umask' = umask
  BY DEF Unmask
<1>2. /\ tcb \in TcbType /\ tcb.stack # <<>> /\ Stack(tcb.stack) /\ t \in FrameType
      /\ t.k = "unmask" /\ tcb.asleep = FALSE /\ adding = NoOne
      /\ PendInv(tcb.stack, tcb.mask, tcb.pending)
  BY <1>1, Running
<1>3. CASE t.set = {}
  <2>1. tcb' = Pop(tcb)
    BY <1>3 DEF Unmask
  <2>2. t.k # "user" /\ t.k # "deliver" /\ ~Restores(t) /\ ~Posts(t)
    BY <1>2 DEF Restores, Posts
  <2>3. Sound(Pop(tcb), NoOne, umask)
    BY <1>2, <1>3, <2>2, PopSound DEF SoundNow
  <2> QED
    BY <1>1, <1>2, <2>1, <2>3 DEF SoundNow
<1>4. CASE t.set # {}
  <2>1. s \in t.set /\ t.set \in SUBSET Signal
    <3>1. t.set \in SUBSET Signal
      BY <1>2, FrameFields
    <3>2. t.set \in SUBSET Nat
      BY <3>1, SignalsAssumption
    <3> QED
      BY <1>4, <3>1, <3>2, LeastIn
  <2>2. s \in Signal
    BY <2>1
  <2>3. tcb.pending \in [Signal -> Nat]
    BY <1>2, Fields
  <2>4. tcb' = IF tcb.pending[s] = 0 THEN r
               ELSE LET b == [r EXCEPT !.pending[s] = @ - 1]
                    IN  IF s \in b.mask THEN AddPending(b, s) ELSE Queued(b, s, TRUE)
    BY <1>4 DEF Unmask
  <2>5. f \in FrameType /\ f.k = "unmask" /\ f.set = t.set \ {s}
    <3> DEFINE S == t.set \ {s}
    <3>1. S \in SUBSET Signal
      BY <2>1
    <3>2. f = [t EXCEPT !.set = S]
      OBVIOUS
    <3> HIDE DEF S, f, s
    <3>3. f \in FrameType /\ f.k = "unmask" /\ f.set = S
      BY <1>2, <3>1, <3>2 DEF FrameType
    <3> QED
      BY <3>3 DEF S
  <2> HIDE DEF s, f
  <2>6. Tops(tcb.stack, a, f) /\ a # <<>>
    BY <1>2, <2>5, SetTops
  <2>7. Looks(r, a, tcb.mask, tcb.waitmask, FALSE, tcb.pending, tcb.actq, tcb.posted, tcb.of, tcb.armed)
    BY <1>2, <2>5, SetTopLooks
  <2> HIDE DEF a, r
  <2>8. CASE tcb.pending[s] = 0
    <3>1. tcb' = r
      BY <2>4, <2>8
    <3>2. Sound(r, NoOne, umask)
      BY <1>1, <2>2, <2>3, <2>5, <2>6, <2>7, <2>8, LookedSound DEF t
    <3> QED
      BY <1>1, <1>2, <3>1, <3>2 DEF SoundNow
  <2>9. CASE tcb.pending[s] # 0
    <3>1. tcb.pending[s] - 1 = 0
      <4>1. tcb.pending[s] \in Nat /\ tcb.pending[s] <= 1
        BY <1>2, <2>2, <2>3 DEF PendInv
      <4> QED
        BY <2>9, <4>1, SMT
    <3>2. 0 \in Nat
      BY SMT
    <3>3. n \in [Signal -> Nat] /\ n[s] = 0 /\ \A z \in Signal : z # s => n[z] = tcb.pending[z]
      BY <2>2, <2>3, <3>2
    <3>4. r.pending = tcb.pending /\ r \in TcbType
      BY <2>7 DEF Looks
    <3>5. [r EXCEPT !.pending[s] = @ - 1] = p
      BY <3>1, <3>4
    <3> HIDE DEF n
    <3>6. Looks(p, a, tcb.mask, tcb.waitmask, FALSE, n, tcb.actq, tcb.posted, tcb.of, tcb.armed)
      <4>1. Looks(p, r.stack, r.mask, r.waitmask, r.asleep, n, r.actq, r.posted, r.of, r.armed)
        BY <3>3, <3>4, SetPending
      <4> QED
        BY <2>7, <4>1 DEF Looks
    <3> HIDE DEF p
    <3>7. Sound(p, NoOne, umask)
      BY <1>1, <2>2, <2>5, <2>6, <3>3, <3>6, LookedSound DEF t
    <3>8. p.asleep = FALSE
      BY <3>6 DEF Looks
    <3>9. CASE s \in p.mask
      <4>1. tcb' = AddPending(p, s)
        BY <2>4, <2>9, <3>5, <3>9
      <4>2. Sound(AddPending(p, s), NoOne, umask)
        BY <2>2, <3>7, <3>8, <3>9, AddPendingSound DEF Awaited
      <4> QED
        BY <1>1, <1>2, <4>1, <4>2 DEF SoundNow
    <3>10. CASE s \notin p.mask
      <4>1. tcb' = Queued(p, s, TRUE)
        BY <2>4, <2>9, <3>5, <3>10
      <4>2. Sound(Queued(p, s, TRUE), NoOne, umask)
        BY <2>2, <3>7, QueuedSound
      <4> QED
        BY <1>1, <1>2, <4>1, <4>2 DEF SoundNow
    <3> QED
      BY <3>9, <3>10
  <2> QED
    BY <2>8, <2>9
<1> QED
  BY <1>3, <1>4

\* A step that changes no field that the invariant looks at.
LEMMA SameSound ==
  ASSUME NEW r, NEW a, NEW u, Sound(r, a, u), NEW x,
         Looks(x, r.stack, r.mask, r.waitmask, r.asleep, r.pending, r.actq, r.posted, r.of, r.armed)
  PROVE  Sound(x, a, u)
BY Sounds DEF Sound, LiveInv

\* A step that wakes the task, or leaves it awake.
LEMMA WakeSound ==
  ASSUME NEW r, NEW a, NEW u, Sound(r, a, u), NEW x, NEW wm,
         Looks(x, r.stack, r.mask, wm, FALSE, r.pending, r.actq, r.posted, r.of, r.armed)
  PROVE  Sound(x, a, u)
<1>1. SleepInv(r.stack, r.mask, wm, FALSE, r.pending, r.armed, a)
  BY DEF Sound, LiveInv, SleepInv
<1> QED
  BY <1>1, Sounds DEF Sound, LiveInv

\* The program's own code is the only frame when it executes.
LEMMA ProgramAlone ==
  ASSUME NEW st, Stack(st), Shape(st), st[Len(st)].k = "user"
  PROVE  /\ Len(st) = 1
         /\ \A i \in 1..Len(st) : st[i].k = "user"
<1>1. Len(st) \in 1..Len(st) /\ Len(st) \in Nat
  BY SMT DEF Stack
<1>2. Len(st) = 1
  BY <1>1 DEF Shape
<1>3. \A i \in 1..Len(st) : i = Len(st)
  BY <1>2, SMT
<1> QED
  BY <1>2, <1>3

\* sigaction().
LEMMA SigactionKeeps ==
  ASSUME SoundNow, NEW s \in Signal, sigaction(s)
  PROVE  SoundNow'
<1> DEFINE A == IF s \in tcb.acts THEN tcb.acts \ {s} ELSE tcb.acts \cup {s}
           x == [tcb EXCEPT !.acts = A]
<1>1. tcb' = x /\ adding' = adding /\ umask' = umask
  BY DEF sigaction
<1>2. tcb \in TcbType
  BY DEF SoundNow, Sound
<1>3. A \in SUBSET Signal
  BY <1>2, Fields
<1> HIDE DEF A
<1>4. Looks(x, tcb.stack, tcb.mask, tcb.waitmask, tcb.asleep, tcb.pending, tcb.actq, tcb.posted,
            tcb.of, tcb.armed)
  BY <1>2, <1>3 DEF Looks, TcbType
<1> HIDE DEF x
<1>5. Sound(x, adding, umask)
  BY <1>4, SameSound DEF SoundNow
<1> QED
  BY <1>1, <1>5 DEF SoundNow

\* sigprocmask(): in the program the mask is its own from now on; in a handler
\* the mask of the program stays saved below.
LEMMA SigprocmaskKeeps ==
  ASSUME SoundNow, NEW m \in Masks, sigprocmask(m)
  PROVE  SoundNow'
<1> DEFINE x == [tcb EXCEPT !.mask = m]
           t == tcb.stack[Len(tcb.stack)]
<1>1. PICK kind \in {"user", "handler"} : Executes(kind)
  BY DEF sigprocmask, UserCode
<1>2. /\ tcb \in TcbType /\ Stack(tcb.stack) /\ tcb.stack # <<>> /\ Top(tcb) = t /\ t.k = kind
      /\ tcb.asleep = FALSE /\ tcb.armed = FALSE /\ adding = NoOne
      /\ HeldInv(tcb.actq, tcb.posted, tcb.of) /\ Shape(tcb.stack)
      /\ MaskInv(tcb.stack, tcb.mask, umask) /\ PendInv(tcb.stack, tcb.mask, tcb.pending)
      /\ QueueInv(tcb.stack, tcb.actq, FALSE) /\ PostInv(tcb.stack, tcb.posted)
  BY <1>1, Running
<1>3. tcb' = Unmasking(x) /\ umask' = (IF t.k = "user" THEN m ELSE umask) /\ adding' = adding
  BY <1>2 DEF sigprocmask
<1>4. m \in SUBSET Signal
  BY SignalsAssumption
<1>5. Looks(x, tcb.stack, m, tcb.waitmask, FALSE, tcb.pending, tcb.actq, tcb.posted, tcb.of, FALSE)
  BY <1>2, <1>4 DEF Looks, TcbType
<1> HIDE DEF x
<1>6. MaskInv(tcb.stack, m, umask')
  <2>1. CASE t.k = "user"
    <3>1. \A i \in 1..Len(tcb.stack) : ~Restores(tcb.stack[i])
      <4>1. \A i \in 1..Len(tcb.stack) : tcb.stack[i].k = "user"
        BY <1>2, <2>1, ProgramAlone
      <4> QED
        BY <4>1 DEF Restores
    <3>2. umask' = m
      BY <1>3, <2>1
    <3> QED
      BY <3>1, <3>2 DEF MaskInv
  <2>2. CASE t.k = "handler"
    <3>1. Len(tcb.stack) \in 1..Len(tcb.stack) /\ Len(tcb.stack) \in Nat
      BY <1>2, SMT DEF Stack
    <3>2. /\ Len(tcb.stack) > 1
          /\ tcb.stack[Len(tcb.stack) - 1].k = "deliver" /\ tcb.stack[Len(tcb.stack) - 1].at = "called"
      BY <1>2, <2>2, <3>1 DEF Shape
    <3>3. Len(tcb.stack) - 1 \in 1..Len(tcb.stack)
      BY <3>1, <3>2, SMT
    <3>4. \E i \in 1..Len(tcb.stack) : Restores(tcb.stack[i])
      BY <3>2, <3>3 DEF Restores
    <3>5. umask' = umask
      BY <1>3, <2>2
    <3>6. MaskInv(tcb.stack, m, umask)
      BY <1>2, <3>4, MaskFree
    <3> QED
      BY <3>5, <3>6
  <2> QED
    BY <1>2, <2>1, <2>2
<1>7. Sound(Unmasking(x), NoOne, umask')
  <2>1. /\ x \in TcbType /\ x.stack # <<>> /\ HeldInv(x.actq, x.posted, x.of) /\ Shape(x.stack)
        /\ QueueInv(x.stack, x.actq, x.armed) /\ PostInv(x.stack, x.posted) /\ ~x.asleep
    BY <1>2, <1>5 DEF Looks
  <2>2. \A s \in Signal : x.pending[s] <= 1
    BY <1>2, <1>5 DEF Looks, PendInv
  <2>3. MaskInv(x.stack, x.mask, umask')
    BY <1>5, <1>6 DEF Looks
  <2> QED
    BY <2>1, <2>2, <2>3, UnmaskingSound
<1> QED
  BY <1>2, <1>3, <1>7 DEF SoundNow

\* A service takes a pending signal.
LEMMA ConsumeSound ==
  ASSUME SoundNow, NEW s \in Signal, tcb.pending[s] > 0
  PROVE  Sound(Consume(tcb, s), adding, umask)
<1>1. tcb.pending \in [Signal -> Nat] /\ PendInv(tcb.stack, tcb.mask, tcb.pending)
  BY Fields DEF SoundNow, Sound, LiveInv
<1>2. tcb.pending[s] \in Nat /\ tcb.pending[s] <= 1
  BY <1>1 DEF PendInv
<1>3. tcb.pending[s] - 1 = 0
  BY <1>2, SMT
<1>4. Consume(tcb, s) = [tcb EXCEPT !.pending[s] = 0]
  BY <1>3 DEF Consume
<1>5. Sound([tcb EXCEPT !.pending[s] = 0], adding, umask)
  BY PendingSound DEF SoundNow
<1> QED
  BY <1>4, <1>5

\* sigtimedwait() that blocks.
LEMMA WaitBlocks ==
  ASSUME SoundNow, Executes("user"), NEW m \in SUBSET Signal, NEW timed \in BOOLEAN,
         m \cap PendingSet(tcb) = {}
  PROVE  Sound(Push([tcb EXCEPT !.waitmask = m, !.asleep = TRUE, !.timer = timed], Frame("wait", FALSE)),
               NoOne, umask)
<1> DEFINE r == [tcb EXCEPT !.waitmask = m, !.asleep = TRUE, !.timer = timed]
           f == Frame("wait", FALSE)
           st == Append(tcb.stack, f)
<1>1. /\ tcb \in TcbType /\ Stack(tcb.stack) /\ tcb.stack[Len(tcb.stack)].k = "user"
      /\ tcb.armed = FALSE /\ HeldInv(tcb.actq, tcb.posted, tcb.of) /\ Shape(tcb.stack)
      /\ MaskInv(tcb.stack, tcb.mask, umask) /\ PendInv(tcb.stack, tcb.mask, tcb.pending)
      /\ QueueInv(tcb.stack, tcb.actq, FALSE) /\ PostInv(tcb.stack, tcb.posted)
  BY Running
<1>2. Looks(r, tcb.stack, tcb.mask, m, TRUE, tcb.pending, tcb.actq, tcb.posted, tcb.of, FALSE)
  BY <1>1 DEF Looks, TcbType
<1>3. f \in FrameType /\ f.k = "wait" /\ f.at = "start"
  BY NewFrame
<1> HIDE DEF f, r
<1>4. r \in TcbType /\ r.stack = tcb.stack /\ tcb.stack \in Seq(FrameType)
  BY <1>1, <1>2 DEF Looks, Stack
<1>5. Looks(Push(r, f), st, tcb.mask, m, TRUE, tcb.pending, tcb.actq, tcb.posted, tcb.of, FALSE)
  <2>1. Looks(Push(r, f), Append(r.stack, f), r.mask, r.waitmask, r.asleep, r.pending, r.actq,
              r.posted, r.of, r.armed)
    BY <1>3, <1>4, PushLooks
  <2> QED
    BY <1>2, <2>1 DEF Looks
<1>6. Grows(tcb.stack, st, f) /\ st # <<>>
  BY <1>3, <1>4, PushGrows
<1> HIDE DEF st
<1>7. f.k # "user" /\ f.k # "handler" /\ f.k # "deliver" /\ ~Restores(f) /\ ~Posts(f)
  BY <1>3 DEF Restores, Posts
<1>8. Len(tcb.stack) = 1
  BY <1>1, ProgramAlone
<1>9. Shape(st)
  BY <1>1, <1>6, <1>7, <1>8, ShapeGrows
<1>10. MaskInv(st, tcb.mask, umask)
  BY <1>1, <1>6, <1>7, MaskGrows
<1>11. PendInv(st, tcb.mask, tcb.pending)
  BY <1>1, <1>6, PendGrows
<1>12. QueueInv(st, tcb.actq, FALSE) /\ PostInv(st, tcb.posted)
  BY <1>1, <1>6, <1>7, QueueGrows, PostGrows
<1>13. SleepInv(st, tcb.mask, m, TRUE, tcb.pending, FALSE, NoOne)
  <2>1. st[Len(st)].k = "wait"
    BY <1>3, <1>6 DEF Grows
  <2>2. \A s \in m : tcb.pending[s] = 0
    <3> TAKE s \in m
    <3>1. s \in Signal /\ ~(tcb.pending[s] > 0)
      BY DEF PendingSet
    <3>2. tcb.pending[s] \in Nat
      BY <1>1, <3>1, Fields
    <3> QED
      BY <3>1, <3>2, SMT
  <2>3. NoOne \notin m
    BY SignalsAssumption
  <2> QED
    BY <2>1, <2>2, <2>3 DEF SleepInv
<1>14. Sound(Push(r, f), NoOne, umask)
  BY <1>1, <1>5, <1>6, <1>9, <1>10, <1>11, <1>12, <1>13, Sounds
<1> QED
  BY <1>14 DEF r, f

\* sigtimedwait().
LEMMA SigtimedwaitKeeps ==
  ASSUME SoundNow, NEW m \in Masks, NEW timed \in BOOLEAN, sigtimedwait(m, timed)
  PROVE  SoundNow'
<1> DEFINE S == m \cap PendingSet(tcb)
<1>1. Executes("user") /\ adding' = adding /\ umask' = umask
  BY DEF sigtimedwait
<1>2. adding = NoOne /\ m \in SUBSET Signal
  BY <1>1, SignalsAssumption DEF Executes
<1>3. CASE S # {}
  <2>1. tcb' = Consume(tcb, Least(S))
    BY <1>3 DEF sigtimedwait
  <2>2. S \in SUBSET Nat
    BY <1>2, SignalsAssumption
  <2> HIDE DEF S
  <2>3. Least(S) \in S
    BY <1>3, <2>2, LeastIn
  <2>4. Least(S) \in Signal /\ tcb.pending[Least(S)] > 0
    BY <2>3 DEF S, PendingSet
  <2>5. Sound(Consume(tcb, Least(S)), adding, umask)
    BY <2>4, ConsumeSound
  <2> QED
    BY <1>1, <2>1, <2>5 DEF SoundNow
<1>4. CASE S = {}
  <2>1. tcb' = Push([tcb EXCEPT !.waitmask = m, !.asleep = TRUE, !.timer = timed], Frame("wait", FALSE))
    BY <1>4 DEF sigtimedwait
  <2>2. Sound(tcb', NoOne, umask)
    BY <1>1, <1>2, <1>4, <2>1, WaitBlocks
  <2> QED
    BY <1>1, <1>2, <2>2 DEF SoundNow
<1> QED
  BY <1>3, <1>4

\* sigsuspend() that blocks, with the mask of the program saved in its frame.
LEMMA SuspendBlocks ==
  ASSUME SoundNow, Executes("user"), NEW m \in SUBSET Signal, PendingSet(tcb) \ m = {}
  PROVE  Sound(Push([tcb EXCEPT !.mask = m, !.waitmask = {}, !.asleep = TRUE],
                    [Frame("suspend", FALSE) EXCEPT !.saved = tcb.mask]), NoOne, umask)
<1> DEFINE r == [tcb EXCEPT !.mask = m, !.waitmask = {}, !.asleep = TRUE]
           g == Frame("suspend", FALSE)
           f == [g EXCEPT !.saved = tcb.mask]
           st == Append(tcb.stack, f)
<1>1. /\ tcb \in TcbType /\ Stack(tcb.stack) /\ tcb.stack[Len(tcb.stack)].k = "user"
      /\ tcb.armed = FALSE /\ HeldInv(tcb.actq, tcb.posted, tcb.of) /\ Shape(tcb.stack)
      /\ MaskInv(tcb.stack, tcb.mask, umask) /\ PendInv(tcb.stack, tcb.mask, tcb.pending)
      /\ QueueInv(tcb.stack, tcb.actq, FALSE) /\ PostInv(tcb.stack, tcb.posted)
  BY Running
<1>2. Looks(r, tcb.stack, m, {}, TRUE, tcb.pending, tcb.actq, tcb.posted, tcb.of, FALSE)
  BY <1>1 DEF Looks, TcbType
<1>3. f \in FrameType /\ f.k = "suspend" /\ f.saved = tcb.mask
  <2>1. g \in FrameType /\ g.k = "suspend"
    BY NewFrame
  <2>2. tcb.mask \in SUBSET Signal
    BY <1>1, Fields
  <2> HIDE DEF g
  <2> QED
    BY <2>1, <2>2 DEF FrameType
<1> HIDE DEF f, r
<1>4. r \in TcbType /\ r.stack = tcb.stack /\ tcb.stack \in Seq(FrameType)
  BY <1>1, <1>2 DEF Looks, Stack
<1>5. Looks(Push(r, f), st, m, {}, TRUE, tcb.pending, tcb.actq, tcb.posted, tcb.of, FALSE)
  <2>1. Looks(Push(r, f), Append(r.stack, f), r.mask, r.waitmask, r.asleep, r.pending, r.actq,
              r.posted, r.of, r.armed)
    BY <1>3, <1>4, PushLooks
  <2> QED
    BY <1>2, <2>1 DEF Looks
<1>6. Grows(tcb.stack, st, f) /\ st # <<>>
  BY <1>3, <1>4, PushGrows
<1> HIDE DEF st
<1>7. f.k # "user" /\ f.k # "handler" /\ f.k # "deliver" /\ Restores(f) /\ ~Posts(f)
  BY <1>3 DEF Restores, Posts
<1>8. Len(tcb.stack) = 1
  BY <1>1, ProgramAlone
<1>9. Shape(st)
  BY <1>1, <1>6, <1>7, <1>8, ShapeGrows
<1>10. MaskInv(st, m, umask)
  BY <1>1, <1>3, <1>6, <1>7, MaskSaved
<1>11. PendInv(st, m, tcb.pending)
  <2> SUFFICES ASSUME NEW s \in Signal
               PROVE  tcb.pending[s] <= 1 /\ (tcb.pending[s] = 0 \/ s \in m)
    BY DEF PendInv
  <2>1. tcb.pending[s] \in Nat /\ tcb.pending[s] <= 1
    BY <1>1, Fields DEF PendInv
  <2>2. tcb.pending[s] > 0 => s \in m
    BY DEF PendingSet
  <2> QED
    BY <2>1, <2>2, SMT
<1>12. QueueInv(st, tcb.actq, FALSE) /\ PostInv(st, tcb.posted)
  BY <1>1, <1>6, <1>7, QueueGrows, PostGrows
<1>13. SleepInv(st, m, {}, TRUE, tcb.pending, FALSE, NoOne)
  <2>1. st[Len(st)].k = "suspend"
    BY <1>3, <1>6 DEF Grows
  <2> QED
    BY <2>1 DEF SleepInv
<1>14. Sound(Push(r, f), NoOne, umask)
  BY <1>1, <1>5, <1>6, <1>9, <1>10, <1>11, <1>12, <1>13, Sounds
<1> QED
  BY <1>14 DEF r, f, g

\* sigsuspend().
LEMMA SigsuspendKeeps ==
  ASSUME SoundNow, NEW m \in Masks, sigsuspend(m)
  PROVE  SoundNow'
<1> DEFINE S == PendingSet(tcb) \ m
<1>1. Executes("user") /\ adding' = adding /\ umask' = umask
  BY DEF sigsuspend
<1>2. adding = NoOne /\ m \in SUBSET Signal
  BY <1>1, SignalsAssumption DEF Executes
<1>3. CASE S # {}
  <2>1. tcb' = Consume(tcb, Least(S))
    BY <1>3 DEF sigsuspend
  <2>2. S \in SUBSET Nat
    BY SignalsAssumption DEF PendingSet
  <2> HIDE DEF S
  <2>3. Least(S) \in S
    BY <1>3, <2>2, LeastIn
  <2>4. Least(S) \in Signal /\ tcb.pending[Least(S)] > 0
    BY <2>3 DEF S, PendingSet
  <2>5. Sound(Consume(tcb, Least(S)), adding, umask)
    BY <2>4, ConsumeSound
  <2> QED
    BY <1>1, <2>1, <2>5 DEF SoundNow
<1>4. CASE S = {}
  <2>1. tcb' = Push([tcb EXCEPT !.mask = m, !.waitmask = {}, !.asleep = TRUE],
                    [Frame("suspend", FALSE) EXCEPT !.saved = tcb.mask])
    BY <1>4 DEF sigsuspend
  <2>2. Sound(tcb', NoOne, umask)
    BY <1>1, <1>2, <1>4, <2>1, SuspendBlocks
  <2> QED
    BY <1>1, <1>2, <2>2 DEF SoundNow
<1> QED
  BY <1>3, <1>4

\* The timeout of sigtimedwait().
LEMMA TimeoutKeeps ==
  ASSUME SoundNow, sig_timeout
  PROVE  SoundNow'
<1> DEFINE x == [tcb EXCEPT !.timer = FALSE, !.asleep = FALSE, !.unbinfo = NoOne]
           y == [tcb EXCEPT !.timer = FALSE]
<1>1. adding' = adding /\ umask' = umask /\ tcb' = (IF tcb.asleep THEN x ELSE y)
  BY DEF sig_timeout
<1>2. tcb \in TcbType
  BY DEF SoundNow, Sound
<1>3. CASE tcb.asleep
  <2>1. Looks(x, tcb.stack, tcb.mask, tcb.waitmask, FALSE, tcb.pending, tcb.actq, tcb.posted,
              tcb.of, tcb.armed)
    BY <1>2 DEF Looks, TcbType
  <2> HIDE DEF x
  <2>2. Sound(x, adding, umask)
    BY <2>1, WakeSound DEF SoundNow
  <2> QED
    BY <1>1, <1>3, <2>2 DEF SoundNow
<1>4. CASE ~tcb.asleep
  <2>1. Looks(y, tcb.stack, tcb.mask, tcb.waitmask, tcb.asleep, tcb.pending, tcb.actq, tcb.posted,
              tcb.of, tcb.armed)
    BY <1>2 DEF Looks, TcbType
  <2> HIDE DEF y
  <2>2. Sound(y, adding, umask)
    BY <2>1, SameSound DEF SoundNow
  <2> QED
    BY <1>1, <1>4, <2>2 DEF SoundNow
<1> QED
  BY <1>3, <1>4

\* sigtimedwait() returns.
LEMMA WaitReturnsKeeps ==
  ASSUME SoundNow, WaitReturns
  PROVE  SoundNow'
<1> DEFINE r == Pop(tcb)
           x == [r EXCEPT !.waitmask = {}, !.timer = FALSE, !.unbinfo = NoOne]
<1>1. Executes("wait") /\ adding' = adding /\ umask' = umask /\ tcb' = x
  BY DEF WaitReturns
<1>2. tcb.asleep = FALSE /\ adding = NoOne /\ Top(tcb).k = "wait"
  BY <1>1, Running
<1>3. /\ Top(tcb).k # "user" /\ Top(tcb).k # "unmask" /\ Top(tcb).k # "deliver"
      /\ ~Restores(Top(tcb)) /\ ~Posts(Top(tcb))
  BY <1>2 DEF Restores, Posts
<1>4. Sound(r, NoOne, umask)
  BY <1>2, <1>3, PopSound DEF SoundNow
<1>5. r.asleep = FALSE
  BY <1>2, PopLooks DEF SoundNow, Sound, Looks
<1> HIDE DEF r
<1>6. r \in TcbType
  BY <1>4 DEF Sound
<1>7. Looks(x, r.stack, r.mask, {}, FALSE, r.pending, r.actq, r.posted, r.of, r.armed)
  BY <1>5, <1>6 DEF Looks, TcbType
<1> HIDE DEF x
<1>8. Sound(x, NoOne, umask)
  BY <1>4, <1>7, WakeSound
<1> QED
  BY <1>1, <1>2, <1>8 DEF SoundNow

\* sigsuspend() returns with the mask that it saved.
LEMMA SuspendReturnsKeeps ==
  ASSUME SoundNow, SuspendReturns
  PROVE  SoundNow'
<1> DEFINE t == tcb.stack[Len(tcb.stack)]
           b == SubSeq(tcb.stack, 1, Len(tcb.stack) - 1)
           r == Pop(tcb)
           x == [r EXCEPT !.mask = t.saved, !.unbinfo = NoOne]
<1>1. Executes("suspend") /\ adding' = adding /\ umask' = umask
  BY DEF SuspendReturns
<1>2. /\ tcb \in TcbType /\ Stack(tcb.stack) /\ tcb.stack # <<>> /\ Top(tcb) = t /\ t \in FrameType
      /\ t.k = "suspend" /\ tcb.asleep = FALSE /\ tcb.armed = FALSE /\ adding = NoOne
      /\ HeldInv(tcb.actq, tcb.posted, tcb.of) /\ Shape(tcb.stack)
      /\ MaskInv(tcb.stack, tcb.mask, umask) /\ PendInv(tcb.stack, tcb.mask, tcb.pending)
      /\ QueueInv(tcb.stack, tcb.actq, FALSE) /\ PostInv(tcb.stack, tcb.posted)
  BY <1>1, Running
<1>3. tcb' = Unmasking(x)
  BY <1>2 DEF SuspendReturns
<1>4. t.k # "user" /\ t.k # "deliver" /\ Restores(t) /\ ~Posts(t) /\ t.saved \in SUBSET Signal
  BY <1>2, FrameFields DEF Restores, Posts
<1>5. Looks(r, b, tcb.mask, tcb.waitmask, FALSE, tcb.pending, tcb.actq, tcb.posted, tcb.of, FALSE)
  BY <1>2, PopLooks
<1>6. Shrinks(tcb.stack, b)
  BY <1>2, PopShrinks
<1> HIDE DEF t, b, r
<1>7. Looks(x, b, t.saved, tcb.waitmask, FALSE, tcb.pending, tcb.actq, tcb.posted, tcb.of, FALSE)
  <2>1. r \in TcbType
    BY <1>5 DEF Looks
  <2>2. Looks(x, r.stack, t.saved, r.waitmask, r.asleep, r.pending, r.actq, r.posted, r.of, r.armed)
    BY <1>4, <2>1 DEF Looks, TcbType
  <2> QED
    BY <1>5, <2>2 DEF Looks
<1> HIDE DEF x
<1>8. b # <<>>
  <2>1. Len(tcb.stack) \in 1..Len(tcb.stack) /\ Len(tcb.stack) \in Nat
    BY <1>2, SMT DEF Stack
  <2>2. Len(tcb.stack) # 1
    BY <1>2, <1>4, <2>1 DEF Shape, t
  <2>3. Len(b) # 0
    BY <1>6, <2>1, <2>2, SMT DEF Shrinks
  <2> QED
    BY <2>3, EmptySeq
<1>9. Shape(b)
  BY <1>2, <1>6, ShapeShrinks
<1>10. MaskInv(b, t.saved, umask)
  BY <1>2, <1>4, <1>6, MaskRestoredByPop DEF t
<1>11. QueueInv(b, tcb.actq, FALSE) /\ PostInv(b, tcb.posted)
  BY <1>2, <1>4, <1>6, QueueShrinks, PostShrinks DEF t
<1>12. Sound(Unmasking(x), NoOne, umask)
  <2>1. /\ x \in TcbType /\ x.stack # <<>> /\ HeldInv(x.actq, x.posted, x.of) /\ Shape(x.stack)
        /\ QueueInv(x.stack, x.actq, x.armed) /\ PostInv(x.stack, x.posted) /\ ~x.asleep
    BY <1>2, <1>7, <1>8, <1>9, <1>11 DEF Looks
  <2>2. \A s \in Signal : x.pending[s] <= 1
    BY <1>2, <1>7 DEF Looks, PendInv
  <2>3. MaskInv(x.stack, x.mask, umask)
    BY <1>7, <1>10 DEF Looks
  <2> QED
    BY <2>1, <2>2, <2>3, UnmaskingSound
<1> QED
  BY <1>1, <1>2, <1>3, <1>12 DEF SoundNow

\* sig_cleanup() empties the queues.
LEMMA CleanupKeeps ==
  ASSUME IInv, Cleanup
  PROVE  IInv'
<1> DEFINE p == [s \in Signal |-> 0]
           o == [c \in Container |-> NoOne]
           x == [tcb EXCEPT !.stack = <<>>, !.acts = {}, !.pending = p, !.actq = <<>>,
                            !.posted = {}, !.of = o, !.mask = Signal, !.waitmask = {},
                            !.asleep = FALSE, !.timer = FALSE]
<1>1. tcb' = x /\ adding' = adding /\ umask' = umask /\ broken' = broken
  BY DEF Cleanup
<1>2. <<>> \in Seq(FrameType) /\ <<>> \in Seq(Container)
  BY EmptySeq
<1>3. p \in [Signal -> Nat] /\ o \in [Container -> Signal \cup {NoOne}]
  <2>1. 0 \in Nat
    BY SMT
  <2> QED
    BY <2>1
<1>4. tcb \in TcbType
  BY DEF IInv, TypeInv
<1>5. HeldInv(<<>>, {}, o)
  BY SMT DEF HeldInv, Has
<1> HIDE DEF p, o
<1>6. x \in TcbType /\ x.stack = <<>> /\ x.actq = <<>> /\ x.posted = {} /\ x.of = o
  BY <1>2, <1>3, <1>4 DEF TcbType
<1> HIDE DEF x
<1>7. TypeInv'
  BY <1>1, <1>6 DEF IInv, TypeInv
<1>8. HeldInv(tcb.actq, tcb.posted, tcb.of)'
  BY <1>1, <1>5, <1>6
<1>9. ~Alive' /\ tcb'.of = o
  BY <1>1, <1>6 DEF Alive
<1> QED
  BY <1>7, <1>8, <1>9 DEF IInv, o

-----------------------------------------------------------------------------
(* The invariant.                                                          *)

\* A task that is there is in a sound state.
LEMMA InvIsSound ==
  ASSUME IInv, Alive
  PROVE  SoundNow
BY DEF IInv, TypeInv, Alive, SoundNow, Sound

\* And a sound state is all of the invariant.
LEMMA SoundIsInv ==
  ASSUME SoundNow', adding' \in Signal \cup {NoOne}, umask' \in SUBSET Signal, broken' \in BOOLEAN
  PROVE  IInv'
BY DEF IInv, TypeInv, SoundNow, Sound

\* The steps that change the TCB only.
LEMMA TcbStep ==
  ASSUME IInv, SoundNow', UNCHANGED <<adding, umask, broken>>
  PROVE  IInv'
BY SoundIsInv DEF IInv, TypeInv

\* Behaviours begin in it: the task executes its own code.
LEMMA InitInv ==
  ASSUME Init
  PROVE  IInv
<1> DEFINE f == Frame("user", TRUE)
           p == [s \in Signal |-> 0]
           o == [c \in Container |-> NoOne]
<1>1. f \in FrameType /\ f.k = "user"
  BY NewFrame
<1>2. /\ tcb = [stack |-> <<f>>, mask |-> {}, waitmask |-> {}, asleep |-> FALSE, timer |-> FALSE,
                unbinfo |-> NoOne, pending |-> p, acts |-> {}, actq |-> <<>>, posted |-> {},
                of |-> o, armed |-> FALSE]
      /\ adding = NoOne /\ umask = {} /\ broken = FALSE
  BY DEF Init
<1>3. p \in [Signal -> Nat] /\ \A s \in Signal : p[s] = 0
  BY SMT
<1>4. o \in [Container -> Signal \cup {NoOne}] /\ \A c \in Container : o[c] = NoOne
  OBVIOUS
<1> HIDE DEF f, p, o
<1>5. <<f>> \in Seq(FrameType) /\ Len(<<f>>) = 1 /\ <<f>>[1] = f /\ <<f>> # <<>>
  BY <1>1, SMT
<1>6. <<>> \in Seq(Container)
  BY EmptySeq
<1>7. Looks(tcb, <<f>>, {}, {}, FALSE, p, <<>>, {}, o, FALSE)
  <2>1. /\ tcb.stack = <<f>> /\ tcb.mask = {} /\ tcb.waitmask = {} /\ tcb.asleep = FALSE
        /\ tcb.pending = p /\ tcb.actq = <<>> /\ tcb.posted = {} /\ tcb.of = o /\ tcb.armed = FALSE
    BY <1>2, SMT
  <2>2. tcb \in TcbType
    BY <1>2, <1>3, <1>4, <1>5, <1>6 DEF TcbType
  <2> QED
    BY <2>1, <2>2 DEF Looks
<1> DEFINE st == <<f>>
<1>8. \A i \in 1..Len(st) : i = 1 /\ st[i] = f
  BY <1>5, SMT
<1>9. st # <<>>
  BY <1>5
<1> HIDE DEF st
<1>10. Shape(st) /\ PostInv(st, {}) /\ MaskInv(st, {}, {})
  BY <1>1, <1>8 DEF Shape, PostInv, MaskInv, Posts, Restores
<1>11. PendInv(st, {}, p) /\ QueueInv(st, <<>>, FALSE)
  <2>1. 0 <= 1 /\ Len(<<>>) = 0
    BY SMT
  <2> QED
    BY <1>3, <2>1 DEF PendInv, QueueInv
<1>12. HeldInv(<<>>, {}, o)
  BY <1>4, SMT DEF HeldInv, Has
<1>13. SleepInv(st, {}, {}, FALSE, p, FALSE, NoOne)
  BY Awake
<1>14. Sound(tcb, NoOne, {})
  BY <1>7, <1>9, <1>10, <1>11, <1>12, <1>13, Sounds DEF st
<1> QED
  BY <1>2, <1>14 DEF IInv, TypeInv, Sound

\* sig_addpendingsignal() may break the task, but not the types.
LEMMA AddInv ==
  ASSUME IInv, NEW s \in Signal, Add(s)
  PROVE  IInv'
<1> DEFINE n == tcb.pending[s] + 1
           p == [tcb.pending EXCEPT ![s] = n]
<1>1. SoundNow /\ adding' = NoOne /\ umask' = umask /\ broken' \in BOOLEAN
  <2>1. SoundNow /\ adding' = NoOne /\ umask' = umask
    BY InvIsSound DEF Add
  <2>2. broken' \in BOOLEAN
    BY SMT DEF Add
  <2> QED
    BY <2>1, <2>2
<1>2. tcb' = [tcb EXCEPT !.pending = p]
  BY DEF Add
<1>3. tcb \in TcbType /\ umask \in SUBSET Signal
  BY DEF IInv, TypeInv
<1>4. p \in [Signal -> Nat]
  <2>1. tcb.pending \in [Signal -> Nat]
    BY <1>3, Fields
  <2>2. n \in Nat
    BY <2>1, SMT
  <2> HIDE DEF n
  <2> QED
    BY <2>1, <2>2
<1> HIDE DEF p
<1>5. tcb' \in TcbType
  BY <1>2, <1>3, <1>4, SetPending DEF Looks
<1>6. CASE broken'
  BY <1>1, <1>3, <1>5, <1>6 DEF IInv, TypeInv, Alive
<1>7. CASE ~broken'
  <2>1. SoundNow'
    BY <1>1, <1>7, AddKeeps
  <2> QED
    BY <1>1, <1>3, <2>1, SoundIsInv
<1> QED
  BY <1>6, <1>7

\* sig_deliver() may find that its container is stale.
LEMMA DeliverInv ==
  ASSUME IInv, DeliverPick \/ DeliverRun
  PROVE  IInv'
<1>1. SoundNow /\ adding' = adding /\ umask' = umask
  BY InvIsSound DEF DeliverPick, DeliverRun, Executes
<1>2. (broken' = TRUE /\ tcb' = tcb) \/ broken' = broken
  BY DEF DeliverPick, DeliverRun
<1>3. CASE broken' = TRUE /\ tcb' = tcb
  BY <1>1, <1>3 DEF IInv, TypeInv, Alive
<1>4. CASE broken' = broken
  <2>1. ~broken'
    BY <1>4 DEF DeliverPick, DeliverRun, Executes, Alive
  <2>2. SoundNow'
    BY <1>1, <2>1, DeliverPickKeeps, DeliverRunKeeps
  <2> QED
    BY <1>1, <1>4, <2>2, TcbStep
<1> QED
  BY <1>2, <1>3, <1>4

\* A trampoline on top of itself breaks the task, but not the types.
LEMMA RearmedInv ==
  ASSUME IInv, NEW s \in Signal, Rearmed(s)
  PROVE  IInv'
<1>1. tcb' = tcb /\ adding' = adding /\ umask' = umask /\ broken' = TRUE
  BY DEF Rearmed
<1> QED
  BY <1>1 DEF IInv, TypeInv, Alive

\* Every step keeps the invariant.
LEMMA NextInv ==
  ASSUME IInv, [Next]_vars
  PROVE  IInv'
<1>1. adding \in Signal \cup {NoOne} /\ umask \in SUBSET Signal /\ broken \in BOOLEAN
  BY DEF IInv, TypeInv
<1>2. ASSUME NEW s \in Signal, Interrupt(s)
      PROVE  IInv'
  BY <1>2, InvIsSound, InterruptKeeps, TcbStep DEF Interrupt
<1>3. ASSUME NEW s \in Signal, SendSelf(s) \/ SendOther(s)
      PROVE  IInv'
  <2>1. SoundNow
    BY <1>3, InvIsSound DEF SendSelf, SendOther, UserCode, Executes
  <2>2. PICK self \in BOOLEAN : Send(s, self)
    BY <1>3 DEF SendSelf, SendOther
  <2>3. adding = NoOne
    BY <1>3 DEF SendSelf, SendOther, UserCode, Executes
  <2>4. SoundNow'
    BY <2>1, <2>2, <2>3, SendKeeps
  <2>5. (adding' = adding \/ adding' = s) /\ umask' = umask /\ broken' = broken
    BY <2>2 DEF Send
  <2>6. adding' \in Signal \cup {NoOne} /\ umask' \in SUBSET Signal /\ broken' \in BOOLEAN
    BY <1>1, <2>5
  <2> QED
    BY <2>4, <2>6, SoundIsInv
<1>4. ASSUME NEW s \in Signal, sigaction(s)
      PROVE  IInv'
  BY <1>4, InvIsSound, SigactionKeeps, TcbStep DEF sigaction, UserCode, Executes
<1>5. ASSUME NEW m \in Masks, sigprocmask(m)
      PROVE  IInv'
  <2>1. SoundNow
    BY <1>5, InvIsSound DEF sigprocmask, UserCode, Executes
  <2>2. SoundNow'
    BY <1>5, <2>1, SigprocmaskKeeps
  <2>3. (umask' = umask \/ umask' = m) /\ adding' = adding /\ broken' = broken
    BY <1>5 DEF sigprocmask
  <2>4. m \in SUBSET Signal
    BY SignalsAssumption
  <2>5. adding' \in Signal \cup {NoOne} /\ umask' \in SUBSET Signal /\ broken' \in BOOLEAN
    BY <1>1, <2>3, <2>4
  <2> QED
    BY <2>2, <2>5, SoundIsInv
<1>6. ASSUME NEW m \in Masks, sigsuspend(m)
      PROVE  IInv'
  BY <1>6, InvIsSound, SigsuspendKeeps, TcbStep DEF sigsuspend, Executes
<1>7. ASSUME NEW m \in Masks, NEW timed \in BOOLEAN, sigtimedwait(m, timed)
      PROVE  IInv'
  BY <1>7, InvIsSound, SigtimedwaitKeeps, TcbStep DEF sigtimedwait, Executes
<1>8. CASE Trampoline
  BY <1>8, InvIsSound, TrampolineKeeps, TcbStep DEF Trampoline
<1>9. CASE DeliverStart
  BY <1>9, InvIsSound, DeliverStartKeeps, TcbStep DEF DeliverStart, Executes
<1>10. CASE HandlerReturns
  BY <1>10, InvIsSound, HandlerReturnsKeeps, TcbStep DEF HandlerReturns, Executes
<1>11. CASE DeliverUnmasks
  BY <1>11, InvIsSound, DeliverUnmasksKeeps, TcbStep DEF DeliverUnmasks, Executes
<1>12. CASE DeliverReleases
  BY <1>12, InvIsSound, DeliverReleasesKeeps, TcbStep DEF DeliverReleases, Executes
<1>13. CASE Unmask
  BY <1>13, InvIsSound, UnmaskKeeps, TcbStep DEF Unmask, Executes
<1>14. CASE sig_timeout
  BY <1>14, InvIsSound, TimeoutKeeps, TcbStep DEF sig_timeout
<1>15. CASE WaitReturns
  BY <1>15, InvIsSound, WaitReturnsKeeps, TcbStep DEF WaitReturns, Executes
<1>16. CASE SuspendReturns
  BY <1>16, InvIsSound, SuspendReturnsKeeps, TcbStep DEF SuspendReturns, Executes
<1>17. CASE UNCHANGED vars
  BY <1>17 DEF IInv, TypeInv, Alive, vars
<1>18. CASE Next
  BY <1>2, <1>3, <1>4, <1>5, <1>6, <1>7, <1>8, <1>9, <1>10, <1>11, <1>12, <1>13, <1>14, <1>15, <1>16,
     <1>18, AddInv, RearmedInv, DeliverInv, CleanupKeeps DEF Next
<1> QED
  BY <1>17, <1>18

\* The invariant holds in every state that the signals of a task reach.
THEOREM Invariance == Spec => []IInv
<1>1. Init => IInv
  BY InitInv
<1>2. IInv /\ [Next]_vars => IInv'
  BY NextInv
<1> QED
  BY <1>1, <1>2, PTL DEF Spec

-----------------------------------------------------------------------------
(* What the program can rely on.                                           *)

\* When the program executes its own code, its mask is the one that it set:
\* no other frame is there, so none restores a mask.
THEOREM MaskIsRestored == Spec => []MaskRestored
<1>1. IInv => MaskRestored
  <2> SUFFICES ASSUME IInv, Executes("user")
               PROVE  tcb.mask = umask
    BY DEF MaskRestored
  <2>1. SoundNow
    BY InvIsSound DEF Executes
  <2>2. /\ Stack(tcb.stack) /\ Shape(tcb.stack) /\ MaskInv(tcb.stack, tcb.mask, umask)
        /\ tcb.stack[Len(tcb.stack)].k = "user"
    BY <2>1, Running
  <2>3. \A i \in 1..Len(tcb.stack) : tcb.stack[i].k = "user"
    BY <2>2, ProgramAlone
  <2> QED
    BY <2>2, <2>3 DEF MaskInv, Restores
<1> QED
  BY <1>1, Invariance, PTL

\* When the program executes its own code, every handler that was queued has
\* been called and has returned, and a pending signal is one that it masks.
THEOREM NothingIsLeft == Spec => []NothingLeftBehind
<1>1. IInv => NothingLeftBehind
  <2> SUFFICES ASSUME IInv, Executes("user")
               PROVE  tcb.actq = <<>> /\ tcb.posted = {} /\ PendingSet(tcb) \subseteq tcb.mask
    BY DEF NothingLeftBehind
  <2>1. SoundNow
    BY InvIsSound DEF Executes
  <2>2. /\ Stack(tcb.stack) /\ Shape(tcb.stack) /\ tcb \in TcbType
        /\ PendInv(tcb.stack, tcb.mask, tcb.pending) /\ QueueInv(tcb.stack, tcb.actq, FALSE)
        /\ PostInv(tcb.stack, tcb.posted) /\ tcb.stack[Len(tcb.stack)].k = "user"
    BY <2>1, Running
  <2>3. \A i \in 1..Len(tcb.stack) : tcb.stack[i].k = "user"
    BY <2>2, ProgramAlone
  <2>4. tcb.actq = <<>>
    <3>1. Len(tcb.actq) = 0
      BY <2>2, <2>3 DEF QueueInv
    <3> QED
      BY <2>2, <3>1, Fields, EmptySeq
  <2>5. tcb.posted = {}
    BY <2>2, <2>3 DEF PostInv, Posts
  <2>6. PendingSet(tcb) \subseteq tcb.mask
    <3>1. \A s \in Signal : tcb.pending[s] = 0 \/ s \in tcb.mask
      BY <2>2, <2>3 DEF PendInv, Unmasks
    <3> QED
      BY <3>1, SMT DEF PendingSet
  <2> QED
    BY <2>4, <2>5, <2>6
<1> QED
  BY <1>1, Invariance, PTL

\* A task never sleeps in sigtimedwait() or sigsuspend() while a signal that
\* it waits for or lets through is there, or a handler is to be called.
THEOREM SleepersHear == Spec => []NoSleeperMissesSignal
<1>1. IInv => NoSleeperMissesSignal
  <2> SUFFICES ASSUME IInv, Alive, tcb.asleep
               PROVE  /\ PendingSet(tcb) \cap tcb.waitmask = {}
                      /\ PendingSet(tcb) \subseteq tcb.mask /\ tcb.actq = <<>>
    BY DEF NoSleeperMissesSignal
  <2> DEFINE st == tcb.stack
             n == Len(st)
  <2>1. SoundNow
    BY InvIsSound
  <2>2. /\ Stack(st) /\ Shape(st) /\ tcb \in TcbType /\ PendInv(st, tcb.mask, tcb.pending)
        /\ QueueInv(st, tcb.actq, tcb.armed)
        /\ SleepInv(st, tcb.mask, tcb.waitmask, tcb.asleep, tcb.pending, tcb.armed, adding)
    BY <2>1, SoundTop DEF SoundNow, Sound, LiveInv
  <2>3. ~tcb.armed /\ st[n].k \in {"wait", "suspend"} /\ \A s \in tcb.waitmask : tcb.pending[s] = 0
    BY <2>2 DEF SleepInv
  <2>4. n \in Nat /\ n \in 1..n
    BY <2>2, SMT DEF Stack
  <2>5. n = 2
    BY <2>2, <2>3, <2>4 DEF Shape
  <2>6. 1 \in 1..n /\ \A i \in 1..n : i = 1 \/ i = n
    BY <2>4, <2>5, SMT
  <2>7. \A i \in 1..n : st[i].k \in {"user", "wait", "suspend"}
    BY <2>2, <2>3, <2>6 DEF Shape
  <2> HIDE DEF st, n
  <2>8. \A i \in 1..Len(tcb.stack) : tcb.stack[i].k # "unmask" /\ tcb.stack[i].k # "deliver"
    BY <2>7 DEF st, n
  <2>9. \A s \in Signal : tcb.pending[s] = 0 \/ s \in tcb.mask
    BY <2>2, <2>8 DEF PendInv, Unmasks, st
  <2>10. tcb.actq = <<>>
    <3>1. Len(tcb.actq) = 0
      BY <2>2, <2>3, <2>8 DEF QueueInv, st
    <3> QED
      BY <2>2, <3>1, Fields, EmptySeq
  <2> QED
    BY <2>3, <2>9, <2>10, SMT DEF PendingSet
<1> QED
  BY <1>1, Invariance, PTL

\* A container is in one of the queues of the task or free, and none stays
\* with a task that is gone.
THEOREM ContainersAreSound == Spec => []ContainersSound
<1>1. IInv => ContainersSound
  <2> SUFFICES ASSUME IInv, ~broken
               PROVE  /\ \A c \in Container : tcb.of[c] # NoOne <=> InQueue(c) \/ c \in tcb.posted
                      /\ \A c \in tcb.posted : ~InQueue(c)
                      /\ tcb.stack = <<>> => Free(tcb) = Container
    BY DEF ContainersSound
  <2>1. HeldInv(tcb.actq, tcb.posted, tcb.of)
    BY DEF IInv
  <2>2. tcb.stack = <<>> => \A c \in Container : tcb.of[c] = NoOne
    BY DEF IInv
  <2> QED
    BY <2>1, <2>2 DEF HeldInv, Has, InQueue, Free
<1> QED
  BY <1>1, Invariance, PTL

=============================================================================
