------------------------------ MODULE MsgQueue ------------------------------
(***************************************************************************)
(* POSIX message queues (sched/mq_*.c) on the task lists: sending and      *)
(* receiving, with and without a timeout, by tasks, and sending by         *)
(* interrupt handlers.  The queues stay open.                              *)
(*                                                                         *)
(* A task holds the pre-emption lock from the beginning of a service to    *)
(* its end, so that other tasks run only while it is blocked; but          *)
(* interrupts are disabled in parts of the services only, and an interrupt *)
(* handler may send, end waits and wake tasks in between.  pc is the place *)
(* where interrupts are enabled, or where the task blocked:                *)
(*   full, empty   behind up_block_task() in mq_waitsend/mq_waitreceive()  *)
(*   alloc         mq_waitsend() or its test is done: no longer full       *)
(*   insert        mq_msgalloc() has returned a container                  *)
(*   nomemory      mq_msgalloc() has found none: PANIC                     *)
(*   sent          the message is in the queue                             *)
(*   clear         in the notification part of mq_dosend()                 *)
(*   wake          before the last part of mq_dosend()                     *)
(*   got           mq_waitreceive() has removed a message                  *)
(*   unblock       mq_doreceive() has seen nwaitnotfull > 0                *)
(*                                                                         *)
(* Left out: calls with O_NONBLOCK that fail with EAGAIN, and calls with   *)
(* bad arguments.  They change nothing but errno, except mq_notify(NULL),  *)
(* which gives back a pre-emption lock that it has not taken: that changes *)
(* nothing either for a caller that holds none, as the tasks here.         *)
(***************************************************************************)
EXTENDS TaskLists

CONSTANTS Queue,
          Fixed,      \* the containers of g_msgfree
          Irq,        \* the containers of g_msgfreeirq
          Dyn,        \* bound: the containers that the heap has room for
          MaxMsgs,    \* maxmsgs of every queue
          MsgPrio,    \* the priorities of messages
          MaxPrio,    \* the priorities of tasks: 1..MaxPrio
          NULL

ASSUME MqAssumption == /\ MaxMsgs \in Nat \ {0} /\ MaxPrio \in Nat
                       /\ MsgPrio \subseteq Nat
                       /\ NULL \notin Task \cup Queue

VARIABLES w,        \* the tasks and who waits for what:
                    \*   k      the task lists, see TaskLists
                    \*   waitq  msgwaitq of every TCB
                    \*   nwait  nwaitnotempty and nwaitnotfull of every queue
                    \*   errno  pterrno of a TCB whose task waits; it is set
                    \*          before every wait and "OK" in between
          msglist,  \* the messages of every queue, as their containers
          nmsgs,    \* nmsgs of every queue
          mprio,    \* the priority of the message in a container
          free,     \* the containers in the free lists and in the heap
          nt,       \* ntpid of every queue, NULL when ntmqdes is NULL
          timer,    \* the tasks whose watchdog of a timed call is active
          pc,
          arrival   \* history: msglist in the order of the sends

vars == <<w, msglist, nmsgs, mprio, free, nt, timer, pc, arrival>>

k == w.k
User == Task \ {Idle}
Msg == Fixed \cup Irq \cup Dyn
MqWaits == {"WAIT_MQNOTEMPTY", "WAIT_MQNOTFULL"}
AtUser == [at |-> "user"]

\* The order of the priorities matters only: the lowest is 1.
Priorities == {p \in [User -> 1..MaxPrio] : \E t \in User : p[t] = 1}

Init ==
  /\ \E p \in Priorities : \E kk \in AllReady(p) :
       w = [k |-> kk,
            waitq |-> [t \in Task |-> NULL],
            nwait |-> [q \in Queue |-> [s \in MqWaits |-> 0]],
            errno |-> [t \in Task |-> "OK"]]
  /\ msglist = [q \in Queue |-> << >>]
  /\ nmsgs = [q \in Queue |-> 0]
  /\ mprio = [m \in Msg |-> NULL]
  /\ free = Msg
  /\ nt = [q \in Queue |-> NULL]
  /\ timer = {}
  /\ pc = [t \in Task |-> AtUser]
  /\ arrival = msglist

Runs(r) == r = Running(k) /\ ~k.panic
Calls(r) == Runs(r) /\ r # Idle /\ pc[r] = AtUser
At(r, place) == Runs(r) /\ pc[r].at = place
Go(r, place) == pc' = [pc EXCEPT ![r] = place]

-----------------------------------------------------------------------------
(* Waiting and waking, as operators on w.                                  *)

Lock(v) == [v EXCEPT !.k = sched_lock(@)]
Unlock(v) == [v EXCEPT !.k = sched_unlock(@)]

\* The body of the loops of mq_waitsend() and mq_waitreceive().
Blocked(v, t, q, s) ==
  [v EXCEPT !.waitq[t] = q, !.nwait[q][s] = @ + 1, !.errno[t] = "OK",
            !.k = up_block_task(@, t, s)]

\* A signal or a timeout ends the wait of t.
mq_waitirq(v, t, err) ==
  LET s == v.k.state[t]
      q == v.waitq[t]
  IN  IF s \in MqWaits
      THEN [v EXCEPT !.waitq[t] = NULL, !.nwait[q][s] = @ - 1, !.errno[t] = err,
                     !.k = up_unblock_task(@, t)]
      ELSE v

UnblockFirst_CountKept(v, q, s) ==
  LET l == v.k.blk[s]
      i == SelectInSeq(l, LAMBDA t : v.waitq[t] = q)
  IN  IF i = 0 THEN [v EXCEPT !.k = ASSERT(@, FALSE)]
      ELSE [v EXCEPT !.waitq[l[i]] = NULL, !.k = up_unblock_task(@, l[i])]

\* The first task in the list of state s that waits for q goes on; none is
\* PANIC(OSERR_MQNONEMPTYCOUNT) or PANIC(OSERR_MQNOTFULLCOUNT).
UnblockFirst(v, q, s) ==
  LET l == v.k.blk[s]
      i == SelectInSeq(l, LAMBDA t : v.waitq[t] = q)
  IN  IF i = 0 THEN [v EXCEPT !.k = ASSERT(@, FALSE)]
      ELSE [v EXCEPT !.waitq[l[i]] = NULL, !.nwait[q][s] = @ - 1,
                     !.k = up_unblock_task(@, l[i])]

\* The signal that mq_notify() asked for; a stale pid has no TCB.
sig_mqnotempty(v, t) ==
  IF t = NULL THEN v ELSE mq_waitirq(v, t, "EINTR")

WakeReceiver_WasEmpty(v, q) ==
  IF v.nwait[q]["WAIT_MQNOTEMPTY"] > 0 /\ nmsgs[q] <= 1
  THEN UnblockFirst(v, q, "WAIT_MQNOTEMPTY") ELSE v

WakeReceiver(v, q) ==
  IF v.nwait[q]["WAIT_MQNOTEMPTY"] > 0 THEN UnblockFirst(v, q, "WAIT_MQNOTEMPTY") ELSE v

-----------------------------------------------------------------------------
(* Sending.                                                                *)

Full(q) == nmsgs[q] >= MaxMsgs

\* mq_send() and mq_timedsend() up to the end of mq_waitsend().
Send(r, q, timed) ==
  /\ Calls(r)
  /\ \/ /\ ~Full(q)
        /\ w' = Lock(w)
        /\ Go(r, [at |-> "alloc", q |-> q])
        /\ UNCHANGED timer
     \/ /\ Full(q)
        /\ w' = Blocked(Lock(w), r, q, "WAIT_MQNOTFULL")
        /\ timer' = IF timed THEN timer \cup {r} ELSE timer
        /\ Go(r, [at |-> "full", q |-> q, timed |-> timed])
  /\ UNCHANGED <<msglist, nmsgs, mprio, free, nt, arrival>>

\* The sender runs again: the wait was ended early, or the queue is looked
\* at once more.
SendResumes(r) ==
  LET q == pc[r].q
  IN  /\ At(r, "full")
      /\ \/ /\ w.errno[r] # "OK"
            /\ w' = [Unlock(w) EXCEPT !.errno[r] = "OK"]
            /\ timer' = timer \ {r} /\ Go(r, AtUser)
         \/ /\ w.errno[r] = "OK" /\ ~Full(q)
            /\ timer' = timer \ {r} /\ Go(r, [at |-> "alloc", q |-> q])
            /\ UNCHANGED w
         \/ /\ w.errno[r] = "OK" /\ Full(q)
            /\ w' = Blocked(w, r, q, "WAIT_MQNOTFULL")
            /\ UNCHANGED <<timer, pc>>
      /\ UNCHANGED <<msglist, nmsgs, mprio, free, nt, arrival>>

\* mq_msgalloc() by a task and by an interrupt handler.
TaskContainers == IF free \cap Fixed # {} THEN free \cap Fixed ELSE free \cap Dyn
IrqContainers == IF free \cap Fixed # {} THEN free \cap Fixed ELSE free \cap Irq

InsertPos_NewestFirst(q, p) ==
  LET i == SelectInSeq(msglist[q], LAMBDA m : mprio[m] <= p)
  IN  IF i = 0 THEN Len(msglist[q]) + 1 ELSE i

\* A message goes behind the messages of the same or a higher priority.
InsertPos(q, p) ==
  LET i == SelectInSeq(msglist[q], LAMBDA m : mprio[m] < p)
  IN  IF i = 0 THEN Len(msglist[q]) + 1 ELSE i

Insert(q, m, p) ==
  /\ mprio' = [mprio EXCEPT ![m] = p]
  /\ msglist' = [msglist EXCEPT ![q] = InsertAt(@, InsertPos(q, p), m)]
  /\ nmsgs' = [nmsgs EXCEPT ![q] = @ + 1]
  /\ arrival' = [arrival EXCEPT ![q] = Append(@, m)]

\* mq_msgalloc() takes a container, or the heap, which others use too, has no room
\* for one: PANIC(OSERR_OUTOFMESSAGES).
Alloc(r) ==
  LET q == pc[r].q
  IN  /\ At(r, "alloc")
      /\ \/ \E m \in TaskContainers :
              /\ free' = free \ {m}
              /\ Go(r, [at |-> "insert", q |-> q, msg |-> m])
              /\ UNCHANGED w
         \/ /\ free \cap Fixed = {}
            /\ w' = [w EXCEPT !.k = ASSERT(@, FALSE)]
            /\ Go(r, [at |-> "nomemory", q |-> q])
            /\ UNCHANGED free
      /\ UNCHANGED <<msglist, nmsgs, mprio, nt, timer, arrival>>

\* The first part of mq_dosend().  The message has any priority p.
Enqueue(r) ==
  /\ At(r, "insert")
  /\ \E p \in MsgPrio : Insert(pc[r].q, pc[r].msg, p)
  /\ Go(r, [at |-> "sent", q |-> pc[r].q])
  /\ UNCHANGED <<w, free, nt, timer>>

\* The notification, with interrupts enabled: ntmqdes is tested and ntpid
\* read (an interrupt in between would leave no pid to signal), and later ...
NotifyRead(r) ==
  LET q == pc[r].q
  IN  /\ At(r, "sent")
      /\ Go(r, IF nt[q] # NULL THEN [at |-> "clear", q |-> q, pid |-> nt[q]]
                               ELSE [at |-> "wake", q |-> q])
      /\ UNCHANGED <<w, msglist, nmsgs, mprio, free, nt, timer, arrival>>

\* ... the registration is cleared and the signal sent.
NotifySignal(r) ==
  /\ At(r, "clear")
  /\ nt' = [nt EXCEPT ![pc[r].q] = NULL]
  /\ w' = sig_mqnotempty(w, pc[r].pid)
  /\ Go(r, [at |-> "wake", q |-> pc[r].q])
  /\ UNCHANGED <<msglist, nmsgs, mprio, free, timer, arrival>>

SendEnds(r) ==
  /\ At(r, "wake")
  /\ w' = Unlock(WakeReceiver(w, pc[r].q))
  /\ Go(r, AtUser)
  /\ UNCHANGED <<msglist, nmsgs, mprio, free, nt, timer, arrival>>

\* mq_send() by an interrupt handler: never blocks, and is not bounded by
\* maxmsgs but by the containers.
SendIrq(q, p) ==
  /\ ~k.panic
  /\ \E m \in IrqContainers : Insert(q, m, p) /\ free' = free \ {m}
  /\ nt' = [nt EXCEPT ![q] = NULL]
  /\ w' = WakeReceiver(sig_mqnotempty(w, nt[q]), q)
  /\ UNCHANGED <<timer, pc>>

-----------------------------------------------------------------------------
(* Receiving.                                                              *)

Dequeue(q) ==
  /\ msglist' = [msglist EXCEPT ![q] = Tail(@)]
  /\ nmsgs' = [nmsgs EXCEPT ![q] = @ - 1]
  /\ arrival' = [arrival EXCEPT ![q] = dq_rem(@, Head(msglist[q]))]

\* mq_receive() and mq_timedreceive() up to the end of mq_waitreceive().
Receive(r, q, timed) ==
  /\ Calls(r)
  /\ \/ /\ msglist[q] # << >>
        /\ w' = Lock(w) /\ Dequeue(q)
        /\ Go(r, [at |-> "got", q |-> q, msg |-> Head(msglist[q])])
        /\ UNCHANGED timer
     \/ /\ msglist[q] = << >>
        /\ w' = Blocked(Lock(w), r, q, "WAIT_MQNOTEMPTY")
        /\ timer' = IF timed THEN timer \cup {r} ELSE timer
        /\ Go(r, [at |-> "empty", q |-> q, timed |-> timed])
        /\ UNCHANGED <<msglist, nmsgs, arrival>>
  /\ UNCHANGED <<mprio, free, nt>>

ReceiveResumes(r) ==
  LET q == pc[r].q
  IN  /\ At(r, "empty")
      /\ \/ /\ w.errno[r] # "OK"
            /\ w' = [Unlock(w) EXCEPT !.errno[r] = "OK"]
            /\ timer' = timer \ {r} /\ Go(r, AtUser)
            /\ UNCHANGED <<msglist, nmsgs, arrival>>
         \/ /\ w.errno[r] = "OK" /\ msglist[q] # << >>
            /\ Dequeue(q)
            /\ timer' = timer \ {r}
            /\ Go(r, [at |-> "got", q |-> q, msg |-> Head(msglist[q])])
            /\ UNCHANGED w
         \/ /\ w.errno[r] = "OK" /\ msglist[q] = << >>
            /\ w' = Blocked(w, r, q, "WAIT_MQNOTEMPTY")
            /\ UNCHANGED <<timer, pc, msglist, nmsgs, arrival>>
      /\ UNCHANGED <<mprio, free, nt>>

Free_IrqLeaked(r) ==
  LET q == pc[r].q
      waiters == w.nwait[q]["WAIT_MQNOTFULL"] > 0
  IN  /\ At(r, "got")
      /\ free' = free \cup ({pc[r].msg} \ Irq)
      /\ mprio' = [mprio EXCEPT ![pc[r].msg] = NULL]
      /\ w' = IF waiters THEN w ELSE Unlock(w)
      /\ Go(r, IF waiters THEN [at |-> "unblock", q |-> q] ELSE AtUser)
      /\ UNCHANGED <<msglist, nmsgs, nt, timer, arrival>>

\* mq_doreceive(): mq_msgfree() and the test of nwaitnotfull, ...
Free(r) ==
  LET q == pc[r].q
      waiters == w.nwait[q]["WAIT_MQNOTFULL"] > 0
  IN  /\ At(r, "got")
      /\ free' = free \cup {pc[r].msg}
      /\ mprio' = [mprio EXCEPT ![pc[r].msg] = NULL]
      /\ w' = IF waiters THEN w ELSE Unlock(w)
      /\ Go(r, IF waiters THEN [at |-> "unblock", q |-> q] ELSE AtUser)
      /\ UNCHANGED <<msglist, nmsgs, nt, timer, arrival>>

\* ... and, interrupts disabled again, the wake-up of a sender.
UnblockSender(r) ==
  /\ At(r, "unblock")
  /\ w' = Unlock(UnblockFirst(w, pc[r].q, "WAIT_MQNOTFULL"))
  /\ Go(r, AtUser)
  /\ UNCHANGED <<msglist, nmsgs, mprio, free, nt, timer, arrival>>

-----------------------------------------------------------------------------
(* Notifications, timeouts and signals.                                    *)

\* mq_notify(): r attaches itself, detaches itself, or gets EBUSY.
Notify(r, q, attach) ==
  /\ Calls(r)
  /\ \/ nt[q] = NULL /\ attach /\ nt' = [nt EXCEPT ![q] = r]
     \/ nt[q] = r /\ ~attach /\ nt' = [nt EXCEPT ![q] = NULL]
  /\ UNCHANGED <<w, msglist, nmsgs, mprio, free, timer, pc, arrival>>

\* mq_sndtimeout() and mq_rcvtimeout().
Timeout(t) ==
  /\ ~k.panic /\ t \in timer
  /\ timer' = timer \ {t}
  /\ w' = IF k.state[t] = (IF pc[t].at = "full" THEN "WAIT_MQNOTFULL" ELSE "WAIT_MQNOTEMPTY")
          THEN mq_waitirq(w, t, "ETIMEDOUT")
          ELSE w
  /\ UNCHANGED <<msglist, nmsgs, mprio, free, nt, pc, arrival>>

\* An interrupt handler sends a signal to t.
SignalIrq(t) ==
  /\ ~k.panic /\ k.state[t] \in MqWaits
  /\ w' = mq_waitirq(w, t, "EINTR")
  /\ UNCHANGED <<msglist, nmsgs, mprio, free, nt, timer, pc, arrival>>

-----------------------------------------------------------------------------

Next ==
  \/ \E r \in Task :
       \/ \E q \in Queue, b \in BOOLEAN :
            Send(r, q, b) \/ Receive(r, q, b) \/ Notify(r, q, b)
       \/ SendResumes(r) \/ Alloc(r) \/ Enqueue(r) \/ NotifyRead(r)
       \/ NotifySignal(r) \/ SendEnds(r)
       \/ ReceiveResumes(r) \/ Free(r) \/ UnblockSender(r)
  \/ \E q \in Queue, p \in MsgPrio : SendIrq(q, p)
  \/ \E t \in User : Timeout(t) \/ SignalIrq(t)

Spec == Init /\ [][Next]_vars

-----------------------------------------------------------------------------
(* Properties.                                                             *)

\* The fields of the queues and of the TCBs that mq_*.c assigns keep their
\* types; the counts of waiting tasks and of messages are never negative.
TypeOK ==
  /\ k \in Kernel
  /\ w.waitq \in [Task -> Queue \cup {NULL}]
  /\ w.nwait \in [Queue -> [MqWaits -> Nat]]
  /\ w.errno \in [Task -> {"OK", "EINTR", "ETIMEDOUT"}]
  /\ msglist \in [Queue -> Seq(Msg)] /\ arrival \in [Queue -> Seq(Msg)]
  /\ nmsgs \in [Queue -> Nat]
  /\ mprio \in [Msg -> MsgPrio \cup {NULL}]
  /\ free \subseteq Msg /\ timer \subseteq User
  /\ nt \in [Queue -> Task \cup {NULL}]

WaitsFor(t, q, s) == k.state[t] = s /\ w.waitq[t] = q

\* The scheduler's lists survive whatever the services do to them.
SchedulerIntact == k.panic \/ KInv(k)

\* nwaitnotempty and nwaitnotfull are the numbers of the tasks that wait,
\* although sends, receives, signals and timeouts race for the same waiter.
WaitCountsExact ==
  \A q \in Queue, s \in MqWaits :
    w.nwait[q][s] = Cardinality({t \in User : WaitsFor(t, q, s)}) \/ k.panic

\* The tasks that are on their way: those that run in the service at one of
\* the places, and those that have been woken in one and have not run yet.
OnTheWay(q, places, s) ==
  {t \in User : /\ pc[t].at # "user" /\ pc[t].q = q
                /\ \/ pc[t].at \in places
                   \/ /\ pc[t].at = (IF s = "WAIT_MQNOTEMPTY" THEN "empty" ELSE "full")
                      /\ k.state[t] # s /\ w.errno[t] = "OK"}

\* No wake-up is lost: a task waits for a message only while every message in
\* the queue has somebody who will take it or wake the next one, and waits
\* for room only while every free place has.
NoLostWakeup ==
  \A q \in Queue, t \in User :
    /\ WaitsFor(t, q, "WAIT_MQNOTEMPTY")
         => nmsgs[q] <= Cardinality(OnTheWay(q, {"sent", "clear", "wake"},
                                             "WAIT_MQNOTEMPTY"))
    /\ WaitsFor(t, q, "WAIT_MQNOTFULL")
         => MaxMsgs - nmsgs[q] <= Cardinality(OnTheWay(q, {"alloc", "insert", "nomemory",
                                                           "got", "unblock"},
                                                       "WAIT_MQNOTFULL"))

\* No container is lost or in two places at once: each is free, in one queue,
\* or in the hands of a sender or a receiver; nmsgs is the length of the list.
MessagesConserved ==
  /\ \A q \in Queue : nmsgs[q] = Len(msglist[q])
  /\ \A m \in Msg :
       Cardinality({q \in Queue : m \in ToSet(msglist[q])})
       + Cardinality({t \in User : pc[t].at \in {"insert", "got"} /\ pc[t].msg = m})
       + (IF m \in free THEN 1 ELSE 0) = 1

\* mq_receive.c: the oldest of the messages of the highest priority comes
\* first.
OldestOfHighest ==
  \A q \in Queue : \A i, j \in 1..Len(msglist[q]) :
    LET m == msglist[q][i]
        n == msglist[q][j]
        earlier == SelectInSeq(arrival[q], LAMBDA x : x \in {m, n})
    IN  i < j => \/ mprio[m] > mprio[n]
                 \/ mprio[m] = mprio[n] /\ arrival[q][earlier] = m

\* No ASSERT or PANIC fires but the one for a heap that is exhausted.
NoPanic == k.panic => \E t \in User : pc[t].at = "nomemory"

\* mq_timedsend.c, mq_timedreceive.c: abstime is a ceiling on the time for
\* which the call blocks, so the watchdog is active as long as it does.
TimedWaitEnds ==
  \A t \in User : k.state[t] \in MqWaits /\ pc[t].timed => t \in timer
=============================================================================
