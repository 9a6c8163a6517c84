------------------------------ MODULE Signals ------------------------------
(***************************************************************************)
(* The signals of one task (sched/sig_*.c and, for the way in which a      *)
(* handler gets the CPU, arch/arm/src/arm/up_schedulesigaction.c and       *)
(* up_sigdeliver.c), sent by the task itself, by other tasks and by        *)
(* interrupt handlers.                                                     *)
(*                                                                         *)
(* The task is a stack of frames: its own code at the bottom and above it  *)
(* the services and handlers that run on its stack.                        *)
(*   "user"     the program, "handler" a signal handler                    *)
(*   "wait"     sigtimedwait() that has blocked                            *)
(*   "suspend"  sigsuspend() that has blocked                              *)
(*   "deliver"  sig_deliver(): at "start", or with the container `cur' of  *)
(*              its loop at "pick", "run", "called" or "unmasked"          *)
(*   "unmask"   the loop of sig_unmaskpendingsignal() over `set'           *)
(* `irq' of a frame says whether interrupts are enabled in it.  Behaviours *)
(* end when a stale container is used, when a signal is pending twice or   *)
(* when the trampoline is scheduled twice (`broken').                      *)
(***************************************************************************)
EXTENDS Integers, Sequences, FiniteSets

CONSTANTS Signal,     \* signal numbers
          SaMask,     \* sa_mask of the handler of every signal
          Container,  \* sigq_t structures for queued actions
          Masks,      \* the sets that the program gives to the services
          DepthBound, \* bound on the frames below a new signal
          NoOne

ASSUME SignalsAssumption ==
  /\ Signal \subseteq Nat /\ SaMask \in [Signal -> SUBSET Signal]
  /\ Masks \subseteq SUBSET Signal
  /\ IsFiniteSet(Container) /\ Container \subseteq Nat /\ NoOne \notin Container \cup Signal
  /\ DepthBound \in Nat

VARIABLES tcb,     \* the signal state of the task, a record
          adding,  \* the signal that a task is about to add to sigpendingq
          umask,   \* the mask that the program set in its own code
          broken

vars == <<tcb, adding, umask, broken>>

Frame(k, irq) == [k |-> k, irq |-> irq, at |-> "start", cur |-> NoOne, nxt |-> NoOne,
                  saved |-> {}, set |-> {}]

Init ==
  /\ tcb = [stack |-> <<Frame("user", TRUE)>>,
            mask |-> {},                         \* sigprocmask
            waitmask |-> {}, asleep |-> FALSE,   \* sigwaitmask, TSTATE_WAIT_SIG
            timer |-> FALSE,                     \* the watchdog of sigtimedwait()
            unbinfo |-> NoOne,                   \* sigunbinfo
            pending |-> [s \in Signal |-> 0],    \* sigpendingq
            acts |-> {},                         \* the signals in sigactionq
            actq |-> <<>>, posted |-> {},        \* sigpendactionq, sigpostedq
            of |-> [c \in Container |-> NoOne],  \* the signals of containers in use
            armed |-> FALSE]                     \* xcp.sigdeliver
  /\ adding = NoOne /\ umask = {} /\ broken = FALSE

Top(r) == r.stack[Len(r.stack)]
Push(r, f) == [r EXCEPT !.stack = Append(@, f)]
Pop(r) == [r EXCEPT !.stack = SubSeq(@, 1, Len(@) - 1)]
SetTop(r, f) == [r EXCEPT !.stack[Len(r.stack)] = f]

Alive == ~broken /\ tcb.stack # <<>>

\* The task executes an instruction of its frame k.
Executes(k) == Alive /\ ~tcb.asleep /\ ~tcb.armed /\ adding = NoOne /\ Top(tcb).k = k
UserCode == Executes("user") \/ Executes("handler")

Least(S) == CHOOSE x \in S : \A y \in S : x <= y
PendingSet(r) == {s \in Signal : r.pending[s] > 0}

\* sig_releasependingsigaction() and sig_allocatependingsigaction().
Free(r) == {c \in Container : r.of[c] = NoOne}

-----------------------------------------------------------------------------
(* sig_received().                                                         *)

\* sig_queueaction(); without a container the action is lost.
QueueAction(r, s) ==
  IF s \in r.acts /\ Free(r) # {}
  THEN [r EXCEPT !.actq = Append(@, Least(Free(r))), !.of[Least(Free(r))] = s]
  ELSE r

Unblock(r, s) == IF r.asleep THEN [r EXCEPT !.asleep = FALSE, !.unbinfo = s, !.waitmask = {}] ELSE r

\* up_schedule_sigaction(): the task itself calls sig_deliver() at once and
\* with interrupts disabled.
Schedule(r, self) ==
  IF r.armed THEN r
  ELSE IF self THEN Push(r, Frame("deliver", FALSE))
  ELSE [r EXCEPT !.armed = TRUE]

Queued(r, s, self) == Unblock(Schedule(QueueAction(r, s), self), s)

\* What becomes of a signal that is masked: its number is awaited, or is
\* added to the pending signals unless it is there.
Awaited(r, s) == r.asleep /\ s \in r.waitmask
AddPending(r, s) == [r EXCEPT !.pending[s] = IF @ = 0 THEN 1 ELSE @]

\* From an interrupt handler, which nothing interrupts.
IrqEnabled == Top(tcb).irq \/ Top(tcb).k \in {"wait", "suspend"}
Shallow == Len(tcb.stack) <= DepthBound

Interrupt(s) ==
  /\ Alive /\ IrqEnabled /\ Shallow
  /\ tcb' = IF s \notin tcb.mask THEN Queued(tcb, s, FALSE)
            ELSE IF Awaited(tcb, s) THEN Unblock(tcb, s)
            ELSE AddPending(tcb, s)
  /\ UNCHANGED <<adding, umask, broken>>

\* From a task: kill() or sigqueue().  A masked signal is looked for and then
\* added, and an interrupt handler may add it in between.
Send(s, self) ==
  /\ IF s \notin tcb.mask THEN tcb' = Queued(tcb, s, self) /\ UNCHANGED adding
     ELSE IF Awaited(tcb, s) THEN tcb' = Unblock(tcb, s) /\ UNCHANGED adding
     ELSE IF s \in PendingSet(tcb) THEN UNCHANGED <<tcb, adding>>
     ELSE adding' = s /\ UNCHANGED tcb
  /\ UNCHANGED <<umask, broken>>

SendSelf(s) == UserCode /\ Shallow /\ Send(s, TRUE)

SendOther(s) ==
  /\ Alive /\ adding = NoOne /\ Top(tcb).k \in {"user", "wait", "suspend"}
  /\ Send(s, FALSE)

\* The same, interrupted in up_schedule_sigaction() between its test of
\* xcp.sigdeliver and irqsave(): an interrupt handler that sends an unmasked
\* signal schedules the trampoline, which then is scheduled on top of itself.
\* Any other interrupt there has the effect of one before or after the whole step.
Rearmed(s) ==
  /\ Alive /\ adding = NoOne /\ Top(tcb).k \in {"user", "wait", "suspend"}
  /\ s \notin tcb.mask /\ ~tcb.armed
  /\ broken' = TRUE
  /\ UNCHANGED <<tcb, adding, umask>>

Add(s) ==
  /\ Alive /\ adding = s
  /\ tcb' = [tcb EXCEPT !.pending[s] = @ + 1]
  /\ broken' = (s \in PendingSet(tcb))
  /\ adding' = NoOne
  /\ UNCHANGED umask

-----------------------------------------------------------------------------
(* Delivery.                                                               *)

\* up_sigdeliver(), on top of whatever the task was doing.
Trampoline ==
  /\ Alive /\ ~tcb.asleep /\ tcb.armed /\ adding = NoOne
  /\ tcb' = Push([tcb EXCEPT !.armed = FALSE], Frame("deliver", Top(tcb).irq))
  /\ UNCHANGED <<adding, umask, broken>>

\* A container in sigpendactionq, its flink, and its removal.
InQueue(c) == \E i \in 1..Len(tcb.actq) : tcb.actq[i] = c
Place(c) == CHOOSE i \in 1..Len(tcb.actq) : tcb.actq[i] = c
Flink(c) == IF Place(c) < Len(tcb.actq) THEN tcb.actq[Place(c) + 1] ELSE NoOne

sq_rem(q, i) == SubSeq(q, 1, i - 1) \o SubSeq(q, i + 1, Len(q))

\* The loop reads the head of the queue and its flink.
DeliverStart ==
  /\ Executes("deliver") /\ Top(tcb).at = "start"
  /\ tcb' = IF tcb.actq = <<>> THEN Pop(tcb)
            ELSE SetTop(tcb, [Top(tcb) EXCEPT !.at = "run", !.cur = Head(tcb.actq), !.nxt = Flink(Head(tcb.actq))])
  /\ UNCHANGED <<adding, umask, broken>>

\* The next container, as its predecessor saw it, and its flink.
DeliverPick ==
  /\ Executes("deliver") /\ Top(tcb).at = "pick"
  /\ LET c == Top(tcb).cur IN
     IF c = NoOne THEN tcb' = Pop(tcb) /\ UNCHANGED broken
     ELSE IF InQueue(c)
     THEN tcb' = SetTop(tcb, [Top(tcb) EXCEPT !.at = "run", !.nxt = Flink(c)]) /\ UNCHANGED broken
     ELSE broken' = TRUE /\ UNCHANGED tcb
  /\ UNCHANGED <<adding, umask>>

\* The container goes to sigpostedq, and the handler is called.
DeliverRun ==
  /\ Executes("deliver") /\ Top(tcb).at = "run"
  /\ LET c == Top(tcb).cur
         s == tcb.of[c]
     IN  IF InQueue(c)
         THEN /\ tcb' = Push(SetTop([tcb EXCEPT !.actq = sq_rem(@, Place(c)),
                                                !.posted = @ \cup {c},
                                                !.mask = @ \cup SaMask[s] \cup {s}],
                                    [Top(tcb) EXCEPT !.at = "called", !.saved = tcb.mask]),
                             Frame("handler", Top(tcb).irq))
              /\ UNCHANGED broken
         ELSE broken' = TRUE /\ UNCHANGED tcb
  /\ UNCHANGED <<adding, umask>>

HandlerReturns ==
  /\ Executes("handler")
  /\ tcb' = Pop(tcb)
  /\ UNCHANGED <<adding, umask, broken>>

\* A loop of sig_unmaskpendingsignal() on top of r.
Unmasking(r) == Push(r, [Frame("unmask", Top(r).irq) EXCEPT !.set = PendingSet(r) \ r.mask])

DeliverUnmasks_MaskKept ==
  /\ Executes("deliver") /\ Top(tcb).at = "called"
  /\ tcb' = Unmasking(SetTop(tcb, [Top(tcb) EXCEPT !.at = "unmasked"]))
  /\ UNCHANGED <<adding, umask, broken>>

DeliverUnmasks_NotLooked ==
  /\ Executes("deliver") /\ Top(tcb).at = "called"
  /\ tcb' = SetTop([tcb EXCEPT !.mask = Top(tcb).saved], [Top(tcb) EXCEPT !.at = "unmasked"])
  /\ UNCHANGED <<adding, umask, broken>>

DeliverUnmasks ==
  /\ Executes("deliver") /\ Top(tcb).at = "called"
  /\ tcb' = Unmasking(SetTop([tcb EXCEPT !.mask = Top(tcb).saved], [Top(tcb) EXCEPT !.at = "unmasked"]))
  /\ UNCHANGED <<adding, umask, broken>>

\* The container is released; `sigq = next'.
DeliverReleases ==
  /\ Executes("deliver") /\ Top(tcb).at = "unmasked"
  /\ LET c == Top(tcb).cur IN
     tcb' = SetTop([tcb EXCEPT !.posted = @ \ {c}, !.of[c] = NoOne],
                   [Top(tcb) EXCEPT !.at = "pick", !.cur = Top(tcb).nxt])
  /\ UNCHANGED <<adding, umask, broken>>

\* sig_unmaskpendingsignal() receives the unmasked signals once more.  The
\* handlers that run in between leave the mask as they found it.
Unmask ==
  /\ Executes("unmask")
  /\ LET s == Least(Top(tcb).set)
         r == SetTop(tcb, [Top(tcb) EXCEPT !.set = @ \ {s}])
     IN  tcb' = IF Top(tcb).set = {} THEN Pop(tcb)
                ELSE IF tcb.pending[s] = 0 THEN r
                ELSE LET p == [r EXCEPT !.pending[s] = @ - 1]
                     IN  IF s \in p.mask THEN AddPending(p, s) ELSE Queued(p, s, TRUE)
  /\ UNCHANGED <<adding, umask, broken>>

-----------------------------------------------------------------------------
(* The services that the program calls.                                    *)

\* sigaction() that installs or removes the handler of s.
sigaction(s) ==
  /\ UserCode
  /\ tcb' = [tcb EXCEPT !.acts = IF s \in @ THEN @ \ {s} ELSE @ \cup {s}]
  /\ UNCHANGED <<adding, umask, broken>>

\* sigprocmask(SIG_SETMASK); what a handler sets is undone when it returns.
sigprocmask(m) ==
  /\ UserCode /\ Shallow /\ m # tcb.mask
  /\ tcb' = Unmasking([tcb EXCEPT !.mask = m])
  /\ umask' = IF Top(tcb).k = "user" THEN m ELSE umask
  /\ UNCHANGED <<adding, broken>>

Consume(r, s) == [r EXCEPT !.pending[s] = @ - 1]

sigtimedwait_NotChecked(m, timed) ==
  /\ Executes("user")
  /\ tcb' = Push([tcb EXCEPT !.waitmask = m, !.asleep = TRUE, !.timer = timed], Frame("wait", FALSE))
  /\ UNCHANGED <<adding, umask, broken>>

\* sigtimedwait() takes a pending signal, or waits; if wd_create() has no watchdog
\* for the timeout, it returns at once and leaves everything as it was.
sigtimedwait(m, timed) ==
  /\ Executes("user")
  /\ tcb' = IF m \cap PendingSet(tcb) # {}
            THEN Consume(tcb, Least(m \cap PendingSet(tcb)))
            ELSE Push([tcb EXCEPT !.waitmask = m, !.asleep = TRUE, !.timer = timed], Frame("wait", FALSE))
  /\ UNCHANGED <<adding, umask, broken>>

sig_timeout ==
  /\ Alive /\ tcb.timer
  /\ tcb' = IF tcb.asleep THEN [tcb EXCEPT !.timer = FALSE, !.asleep = FALSE, !.unbinfo = NoOne]
                          ELSE [tcb EXCEPT !.timer = FALSE]
  /\ UNCHANGED <<adding, umask, broken>>

WaitReturns ==
  /\ Executes("wait")
  /\ tcb' = [Pop(tcb) EXCEPT !.waitmask = {}, !.timer = FALSE, !.unbinfo = NoOne]
  /\ UNCHANGED <<adding, umask, broken>>

\* sigsuspend() discards a pending signal that m does not mask, or waits
\* with the mask m.
sigsuspend(m) ==
  /\ Executes("user")
  /\ tcb' = IF PendingSet(tcb) \ m # {}
            THEN Consume(tcb, Least(PendingSet(tcb) \ m))
            ELSE Push([tcb EXCEPT !.mask = m, !.waitmask = {}, !.asleep = TRUE],
                      [Frame("suspend", FALSE) EXCEPT !.saved = tcb.mask])
  /\ UNCHANGED <<adding, umask, broken>>

SuspendReturns ==
  /\ Executes("suspend")
  /\ tcb' = Unmasking([Pop(tcb) EXCEPT !.mask = Top(tcb).saved, !.unbinfo = NoOne])
  /\ UNCHANGED <<adding, umask, broken>>

Cleanup_PostedKept ==
  /\ Alive /\ adding = NoOne
  /\ tcb' = [tcb EXCEPT !.stack = <<>>, !.acts = {}, !.pending = [s \in Signal |-> 0],
                        !.actq = <<>>,
                        !.of = [c \in Container |-> IF c \in tcb.posted THEN tcb.of[c] ELSE NoOne],
                        !.mask = Signal, !.waitmask = {}, !.asleep = FALSE, !.timer = FALSE]
  /\ UNCHANGED <<adding, umask, broken>>

\* sig_cleanup(), when the task exits or is deleted.
Cleanup ==
  /\ Alive /\ adding = NoOne
  /\ tcb' = [tcb EXCEPT !.stack = <<>>, !.acts = {}, !.pending = [s \in Signal |-> 0],
                        !.actq = <<>>, !.posted = {}, !.of = [c \in Container |-> NoOne],
                        !.mask = Signal, !.waitmask = {}, !.asleep = FALSE, !.timer = FALSE]
  /\ UNCHANGED <<adding, umask, broken>>

-----------------------------------------------------------------------------

Next ==
  \/ \E s \in Signal : Interrupt(s) \/ SendSelf(s) \/ SendOther(s) \/ Rearmed(s)
                      \/ Add(s) \/ sigaction(s)
  \/ Trampoline \/ DeliverStart \/ DeliverPick \/ DeliverRun \/ HandlerReturns
  \/ DeliverUnmasks \/ DeliverReleases \/ Unmask
  \/ \E m \in Masks : sigprocmask(m) \/ sigsuspend(m) \/ \E timed \in BOOLEAN : sigtimedwait(m, timed)
  \/ sig_timeout \/ WaitReturns \/ SuspendReturns \/ Cleanup

Spec == Init /\ [][Next]_vars

-----------------------------------------------------------------------------
(* Properties.                                                             *)

\* Whenever the program executes its own code, its mask is the one it set
\* itself: handlers, however nested, and sigsuspend() leave no trace.
MaskRestored == Executes("user") => tcb.mask = umask

\* Nothing is left behind: when the program executes its own code, no action
\* waits in sigpendactionq, no handler is half done, and no signal is
\* pending that its mask lets through.
NothingLeftBehind ==
  Executes("user") => /\ tcb.actq = <<>> /\ tcb.posted = {}
                      /\ PendingSet(tcb) \subseteq tcb.mask

\* The task does not sleep on a signal that has come: none is pending that
\* it waits for or lets through, and no handler is to be called.
NoSleeperMissesSignal ==
  Alive /\ tcb.asleep => /\ PendingSet(tcb) \cap tcb.waitmask = {}
                         /\ PendingSet(tcb) \subseteq tcb.mask
                         /\ tcb.actq = <<>>

\* A container is free, or is in one of the queues of the task, which has
\* none when it is gone.
ContainersSound ==
  ~broken => /\ \A c \in Container : tcb.of[c] # NoOne <=> InQueue(c) \/ c \in tcb.posted
             /\ \A c \in tcb.posted : ~InQueue(c)
             /\ tcb.stack = <<>> => Free(tcb) = Container

\* sig_addpendingsignal() keeps one entry for each pending signal.
OnePending == \A s \in Signal : tcb.pending[s] <= 1
=============================================================================
