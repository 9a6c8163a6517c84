-------------------------------- MODULE Pipe --------------------------------
(***************************************************************************)
(* One pipe or FIFO (drivers/pipes/pipe_common.c) and the threads that     *)
(* open, read, write, poll (fs/fs_poll.c) and close it, each through one   *)
(* file of its own.  The pipe is a ring of bytes under d_bfsem; readers    *)
(* sleep on d_rdsem and writers on d_wrsem, and whoever makes bytes or     *)
(* room posts these semaphores until nobody waits.                         *)
(*                                                                         *)
(* A thread inside a service is at a place that names the service's next   *)
(* step, with the bytes `n' left to do and whether something was `put' in  *)
(* this pass of pipecommon_write().                                        *)
(***************************************************************************)
EXTENDS Threads, Sequences

CONSTANTS Size,          \* CONFIG_DEV_PIPE_SIZE
          NPollWaiters,  \* CONFIG_DEV_PIPE_NPOLLWAITERS
          Modes,         \* f_oflags of the files
          ReadLengths, WriteLengths,  \* the lengths of reads and writes
          PollFor,       \* the events to poll for, with the modes of the files
          PollPosts,     \* bound on the count of a poll() semaphore
          Interruptible  \* the semaphores whose waits signals interrupt

\* Lengths are at least 1.  On the ring a write() of 0 bytes is one of 1 byte: it
\* stores the byte before it compares the count, and returns 0.
ASSUME PipeAssumption ==
  /\ IsFiniteSet(Thread) /\ NoThread \notin Thread /\ Thread \cap {"bf", "rd", "wr"} = {}
  /\ Sem = {"bf", "rd", "wr"} \cup Thread  \* a poll() of t waits for t
  /\ Size \in Nat \ {0, 1} /\ ReadLengths \cup WriteLengths \subseteq Nat \ {0}
  /\ Modes \subseteq {"O_RDONLY", "O_WRONLY", "O_RDWR"}
  /\ PollFor \subseteq Modes \X SUBSET {"POLLIN", "POLLOUT"}
  /\ NPollWaiters \in Nat /\ PollPosts \in Nat \ {0}
  /\ Interruptible \subseteq Sem

Ring == 0..(Size - 1)
Byte == {0, 1}

VARIABLES buf, wrndx, rdndx,  \* d_buffer, d_wrndx, d_rdndx; 0 where no byte is
          refs, nwriters,     \* d_refs, d_nwriters
          poll,               \* the struct pollfd of every thread
          slots,              \* the threads in d_fds
          mode,               \* f_oflags of every thread's file
          out                 \* the bytes of a read

ringvars == <<buf, wrndx, rdndx, out>>
openvars == <<refs, nwriters, mode>>
pollvars == <<poll, slots>>
vars == <<threadvars, ringvars, openvars, pollvars>>

NoPoll == [events |-> {}, revents |-> {}]

Init ==
  /\ ThreadsInit([s \in Sem |-> SemInit(IF s = "bf" THEN 1 ELSE 0)])
  /\ buf = [i \in Ring |-> 0] /\ wrndx = 0 /\ rdndx = 0
  /\ refs = 0 /\ nwriters = 0
  /\ poll = [t \in Thread |-> NoPoll] /\ slots = {}
  /\ mode = [t \in Thread |-> "none"]
  /\ out = <<>>

Move(t, k) == pc' = [pc EXCEPT ![t] = k]
Does(t, l) == Runs(t) /\ pc[t].at = l
Asks(t, m) == Calls(t) /\ mode[t] \in m

\* sem_wait() whose caller goes on at k, or at e if a signal ends the wait.
Wait(t, s, k, e) ==
  /\ SemWait(t, s)
  /\ Move(t, IF sem[s].cnt > 0 THEN k ELSE [at |-> "wait", sem |-> s, then |-> k, else |-> e])

WaitEnds(t) ==
  /\ Does(t, "wait")
  /\ Move(t, IF res[t] = "OK" THEN pc[t].then ELSE pc[t].else)
  /\ SameLock(t) /\ UNCHANGED <<sem, res, ringvars, openvars, pollvars>>

TakeEnds(t) ==
  /\ Retry(t)
  /\ UNCHANGED <<ringvars, openvars, pollvars>>

Signal(t) ==
  /\ pc[t].at \in {"take", "wait"} /\ pc[t].sem \in Interruptible
  /\ Interrupted(t)
  /\ UNCHANGED <<ringvars, openvars, pollvars>>

\* The loops `while (sem_getvalue(...) == 0 && sval < 0) sem_post(...)'; t
\* goes on at k.
Waking(s, k) == [at |-> "test", sem |-> s, then |-> k]

WakeTests(t) ==
  /\ Does(t, "test")
  /\ Move(t, IF Semcount(sem[pc[t].sem]) < 0 THEN [pc[t] EXCEPT !.at = "post"] ELSE pc[t].then)
  /\ SameLock(t) /\ UNCHANGED <<sem, res, ringvars, openvars, pollvars>>

WakePosts(t) ==
  /\ Does(t, "post")
  /\ Give(pc[t].sem) /\ Move(t, [pc[t] EXCEPT !.at = "test"])
  /\ SameLock(t) /\ UNCHANGED <<ringvars, openvars, pollvars>>

\* pipecommon_pollnotify(): what a thread in d_fds hears of the events e,
\* and the semaphores with a post for each that has something to hear.
Revents(e) == [t \in Thread |-> IF t \in slots
                                THEN [poll[t] EXCEPT !.revents = @ \cup (poll[t].events \cap e)]
                                ELSE poll[t]]

PollPosted(x) == IF x.q # {} THEN [x EXCEPT !.q = {}]
                 ELSE [x EXCEPT !.cnt = IF @ < PollPosts THEN @ + 1 ELSE @]

Notified(p, at, sm) == [s \in Sem |-> IF s \in at /\ p[s].revents # {} THEN PollPosted(sm[s]) ELSE sm[s]]

\* The end of a service that notifies and gives d_bfsem.
NotifyAndGive(e) ==
  /\ poll' = Revents(e)
  /\ \E b \in Posted(sem["bf"]) : sem' = Notified(poll', slots, [sem EXCEPT !["bf"] = b])
  /\ UNCHANGED <<res, slots>>

-----------------------------------------------------------------------------
(* pipecommon_open() and pipecommon_close().                               *)

Writes(m) == m \in {"O_WRONLY", "O_RDWR"}

Open(t, m) ==
  /\ Asks(t, {"none"})
  /\ Wait(t, "bf", [at |-> "open", mode |-> m], At("user"))
  /\ SameLock(t) /\ UNCHANGED <<ringvars, openvars, pollvars>>

\* ENOMEM.
OpenFails(t) ==
  /\ Does(t, "open") /\ refs = 0
  /\ Give("bf") /\ Goto(t, "user")
  /\ SameLock(t) /\ UNCHANGED <<ringvars, openvars, pollvars>>

OpenCounts(t) ==
  /\ Does(t, "open")
  /\ refs' = refs + 1
  /\ nwriters' = nwriters + IF Writes(pc[t].mode) THEN 1 ELSE 0
  /\ LET done == [pc[t] EXCEPT !.at = "opened"] IN
     Move(t, IF Writes(pc[t].mode) /\ nwriters = 0 THEN Waking("rd", done) ELSE done)
  /\ SameLock(t) /\ UNCHANGED <<sem, res, mode, ringvars, pollvars>>

\* Who opens for reading only waits for the first writer, with pre-emption
\* disabled from before it gives d_bfsem.
Opened(t) ==
  /\ Does(t, "opened")
  /\ Give("bf")
  /\ IF pc[t].mode = "O_RDONLY" /\ nwriters < 1
     THEN sched_lock(t) /\ Move(t, At("first")) /\ UNCHANGED mode
     ELSE Goto(t, "user") /\ mode' = [mode EXCEPT ![t] = pc[t].mode] /\ SameLock(t)
  /\ UNCHANGED <<refs, nwriters, ringvars, pollvars>>

OpenWaits(t) ==
  /\ Does(t, "first")
  /\ Wait(t, "rd", At("found"), At("fail"))
  /\ SameLock(t) /\ UNCHANGED <<ringvars, openvars, pollvars>>

OpenReturns(t) ==
  /\ Does(t, "found")
  /\ sched_unlock(t) /\ Goto(t, "user")
  /\ mode' = [mode EXCEPT ![t] = "O_RDONLY"]
  /\ UNCHANGED <<sem, res, refs, nwriters, ringvars, pollvars>>

OpenCloses_NotClosed(t) ==
  /\ Does(t, "fail")
  /\ sched_unlock(t) /\ Goto(t, "user")
  /\ UNCHANGED <<sem, res, ringvars, openvars, pollvars>>

\* A signal has ended the wait: pipecommon_open() closes the pipe.
OpenCloses(t) ==
  /\ Does(t, "fail")
  /\ Take(t, "bf", [at |-> "close", mode |-> "O_RDONLY"])
  /\ SameLock(t) /\ UNCHANGED <<ringvars, openvars, pollvars>>

Close(t) ==
  /\ Asks(t, Modes)
  /\ Take(t, "bf", [at |-> "close", mode |-> mode[t]])
  /\ mode' = [mode EXCEPT ![t] = "none"]
  /\ SameLock(t) /\ UNCHANGED <<refs, nwriters, ringvars, pollvars>>

CloseCounts(t) ==
  /\ Does(t, "close") /\ refs > 1
  /\ refs' = refs - 1
  /\ nwriters' = nwriters - IF Writes(pc[t].mode) THEN 1 ELSE 0
  /\ Move(t, IF Writes(pc[t].mode) /\ nwriters = 1 THEN Waking("rd", At("closed")) ELSE At("closed"))
  /\ SameLock(t) /\ UNCHANGED <<sem, res, mode, ringvars, pollvars>>

CloseLast(t) ==
  /\ Does(t, "close") /\ refs <= 1
  /\ wrndx' = 0 /\ rdndx' = 0 /\ refs' = 0 /\ nwriters' = 0
  /\ buf' = [i \in Ring |-> 0]
  /\ Goto(t, "closed")
  /\ SameLock(t) /\ UNCHANGED <<sem, res, mode, out, pollvars>>

\* sched_unlock() is that of pipecommon_open().
Closed(t) ==
  /\ Does(t, "closed")
  /\ Give("bf") /\ sched_unlock(t) /\ Goto(t, "user")
  /\ UNCHANGED <<ringvars, openvars, pollvars>>

-----------------------------------------------------------------------------
(* pipecommon_read().                                                      *)

Read(t, n) ==
  /\ Asks(t, {"O_RDONLY", "O_RDWR"})
  /\ Wait(t, "bf", [at |-> "read", n |-> n], At("user"))
  /\ SameLock(t) /\ UNCHANGED <<ringvars, openvars, pollvars>>

\* EAGAIN with O_NONBLOCK, which fcntl() can set and clear at any time, or
\* the end of the file.
ReadNothing(t) ==
  /\ Does(t, "read") /\ wrndx = rdndx
  /\ Give("bf") /\ Goto(t, "user")
  /\ SameLock(t) /\ UNCHANGED <<ringvars, openvars, pollvars>>

ReadGives(t) ==
  /\ Does(t, "read") /\ wrndx = rdndx /\ nwriters > 0
  /\ sched_lock(t) /\ Give("bf") /\ Move(t, [pc[t] EXCEPT !.at = "empty"])
  /\ UNCHANGED <<ringvars, openvars, pollvars>>

ReadSleeps(t) ==
  /\ Does(t, "empty")
  /\ Wait(t, "rd", [pc[t] EXCEPT !.at = "bytes"], At("error"))
  /\ SameLock(t) /\ UNCHANGED <<ringvars, openvars, pollvars>>

ReadWakes(t) ==
  /\ Does(t, "bytes")
  /\ sched_unlock(t) /\ Wait(t, "bf", [pc[t] EXCEPT !.at = "read"], At("user"))
  /\ UNCHANGED <<ringvars, openvars, pollvars>>

ReadFails(t) ==
  /\ Does(t, "error")
  /\ sched_unlock(t) /\ Goto(t, "user")
  /\ UNCHANGED <<sem, res, ringvars, openvars, pollvars>>

\* The bytes in the pipe, in the order of d_rdndx, and the place of the n-th.
Used == (wrndx + Size - rdndx) % Size
Content == [i \in 1..Used |-> buf[(rdndx + i - 1) % Size]]
Least(a, b) == IF a < b THEN a ELSE b

ReadBytes(t) ==
  /\ Does(t, "read") /\ wrndx # rdndx
  /\ LET n == Least(pc[t].n, Used) IN
       /\ out' = SubSeq(Content, 1, n)
       /\ rdndx' = (rdndx + n) % Size
       /\ buf' = [i \in Ring |-> IF (i + Size - rdndx) % Size < n THEN 0 ELSE buf[i]]
  /\ Move(t, Waking("wr", At("readend")))
  /\ SameLock(t) /\ UNCHANGED <<sem, res, wrndx, openvars, pollvars>>

ReadReturns(t) ==
  /\ Does(t, "readend")
  /\ NotifyAndGive({"POLLOUT"}) /\ Goto(t, "user")
  /\ out' = <<>>
  /\ SameLock(t) /\ UNCHANGED <<buf, wrndx, rdndx, openvars>>

-----------------------------------------------------------------------------
(* pipecommon_write().                                                     *)

Write(t, n) ==
  /\ Asks(t, {"O_WRONLY", "O_RDWR"})
  /\ Wait(t, "bf", [at |-> "write", n |-> n, put |-> FALSE], At("user"))
  /\ SameLock(t) /\ UNCHANGED <<ringvars, openvars, pollvars>>

\* The input: a byte that differs from the byte before it.
NextByte == IF Used = 0 THEN 0 ELSE 1 - Content[Used]

WriteByte_Full(t) ==
  /\ Does(t, "write") /\ Used < Size
  /\ buf' = [buf EXCEPT ![wrndx] = NextByte]
  /\ wrndx' = (wrndx + 1) % Size
  /\ Move(t, IF pc[t].n = 1 THEN Waking("rd", At("writeend"))
                            ELSE [pc[t] EXCEPT !.n = @ - 1, !.put = TRUE])
  /\ SameLock(t) /\ UNCHANGED <<sem, res, rdndx, out, openvars, pollvars>>

\* The pass of the loop that stores a byte.
WriteByte(t) ==
  /\ Does(t, "write") /\ (wrndx + 1) % Size # rdndx
  /\ buf' = [buf EXCEPT ![wrndx] = NextByte]
  /\ wrndx' = (wrndx + 1) % Size
  /\ Move(t, IF pc[t].n = 1 THEN Waking("rd", At("writeend"))
                            ELSE [pc[t] EXCEPT !.n = @ - 1, !.put = TRUE])
  /\ SameLock(t) /\ UNCHANGED <<sem, res, rdndx, out, openvars, pollvars>>

WriteReturns(t) ==
  /\ Does(t, "writeend")
  /\ NotifyAndGive({"POLLIN"}) /\ Goto(t, "user")
  /\ SameLock(t) /\ UNCHANGED <<ringvars, openvars>>

WriteFull_NoWakeup(t) ==
  /\ Does(t, "write") /\ (wrndx + 1) % Size = rdndx
  /\ Move(t, [pc[t] EXCEPT !.at = "full", !.put = FALSE])
  /\ SameLock(t) /\ UNCHANGED <<sem, res, ringvars, openvars, pollvars>>

\* No room: the readers are woken if there is something new.
WriteFull(t) ==
  /\ Does(t, "write") /\ (wrndx + 1) % Size = rdndx
  /\ LET full == [pc[t] EXCEPT !.at = "full", !.put = FALSE] IN
     Move(t, IF pc[t].put THEN Waking("rd", full) ELSE full)
  /\ SameLock(t) /\ UNCHANGED <<sem, res, ringvars, openvars, pollvars>>

\* O_NONBLOCK returns what was written, or EAGAIN.
WriteReturnsPart(t) ==
  /\ Does(t, "full")
  /\ Give("bf") /\ Goto(t, "user")
  /\ SameLock(t) /\ UNCHANGED <<ringvars, openvars, pollvars>>

WriteGives(t) ==
  /\ Does(t, "full")
  /\ sched_lock(t) /\ Give("bf") /\ Move(t, [pc[t] EXCEPT !.at = "room"])
  /\ UNCHANGED <<ringvars, openvars, pollvars>>

WriteSleeps(t) ==
  /\ Does(t, "room")
  /\ Take(t, "wr", [pc[t] EXCEPT !.at = "again"])
  /\ SameLock(t) /\ UNCHANGED <<ringvars, openvars, pollvars>>

WriteWakes(t) ==
  /\ Does(t, "again")
  /\ sched_unlock(t) /\ Take(t, "bf", [pc[t] EXCEPT !.at = "write"])
  /\ UNCHANGED <<ringvars, openvars, pollvars>>

-----------------------------------------------------------------------------
(* poll() of this one file, without a timeout.                             *)

Poll(t, e) ==
  /\ Calls(t) /\ <<mode[t], e>> \in PollFor
  /\ Take(t, "bf", [at |-> "poll", events |-> e])
  /\ SameLock(t) /\ UNCHANGED <<ringvars, openvars, pollvars>>

PollBusy(t) ==
  /\ Does(t, "poll") /\ Cardinality(slots) >= NPollWaiters
  /\ Give("bf") /\ Goto(t, "user")
  /\ SameLock(t) /\ UNCHANGED <<ringvars, openvars, pollvars>>

\* nbytes of pipecommon_poll().
NBytes == IF wrndx >= rdndx THEN wrndx - rdndx ELSE Size - 1 + wrndx - rdndx

EventSet == (IF NBytes < Size - 1 THEN {"POLLOUT"} ELSE {})
            \cup (IF NBytes > 0 THEN {"POLLIN"} ELSE {})

PollSetup(t) ==
  /\ Does(t, "poll") /\ Cardinality(slots) < NPollWaiters
  /\ slots' = slots \cup {t}
  /\ poll' = [u \in Thread |->
                IF u \in slots' THEN LET f == IF u = t THEN [events |-> pc[t].events, revents |-> {}] ELSE poll[u]
                                     IN  [f EXCEPT !.revents = @ \cup (f.events \cap EventSet)]
                ELSE poll[u]]
  /\ \E b \in Posted(sem["bf"]) :
       sem' = IF EventSet = {} THEN [sem EXCEPT !["bf"] = b]
              ELSE Notified(poll', slots', [sem EXCEPT !["bf"] = b])
  /\ Goto(t, "polling")
  /\ SameLock(t) /\ UNCHANGED <<res, ringvars, openvars>>

PollSleeps(t) ==
  /\ Does(t, "polling")
  /\ Take(t, t, At("polled"))
  /\ SameLock(t) /\ UNCHANGED <<ringvars, openvars, pollvars>>

Polled(t) ==
  /\ Does(t, "polled")
  /\ Take(t, "bf", At("teardown"))
  /\ SameLock(t) /\ UNCHANGED <<ringvars, openvars, pollvars>>

PollReturns(t) ==
  /\ Does(t, "teardown")
  /\ slots' = slots \ {t} /\ poll' = [poll EXCEPT ![t] = NoPoll]
  /\ \E b \in Posted(sem["bf"]) : sem' = [sem EXCEPT !["bf"] = b, ![t] = SemInit(0)]
  /\ Goto(t, "user")
  /\ SameLock(t) /\ UNCHANGED <<res, ringvars, openvars>>

-----------------------------------------------------------------------------

Next ==
  \E t \in Thread :
    \/ \E m \in Modes : Open(t, m)
    \/ OpenFails(t) \/ OpenCounts(t) \/ Opened(t) \/ OpenWaits(t) \/ OpenReturns(t)
    \/ OpenCloses(t) \/ Close(t) \/ CloseCounts(t) \/ CloseLast(t) \/ Closed(t)
    \/ \E n \in ReadLengths : Read(t, n)
    \/ \E n \in WriteLengths : Write(t, n)
    \/ ReadNothing(t) \/ ReadGives(t) \/ ReadSleeps(t) \/ ReadWakes(t) \/ ReadFails(t)
    \/ ReadBytes(t) \/ ReadReturns(t)
    \/ WriteByte(t) \/ WriteReturns(t) \/ WriteFull(t) \/ WriteReturnsPart(t) \/ WriteGives(t) \/ WriteSleeps(t)
    \/ WriteWakes(t)
    \/ \E e \in {f[2] : f \in PollFor} : Poll(t, e)
    \/ PollBusy(t) \/ PollSetup(t) \/ PollSleeps(t) \/ Polled(t) \/ PollReturns(t)
    \/ WakeTests(t) \/ WakePosts(t) \/ WaitEnds(t) \/ TakeEnds(t) \/ Signal(t)

Spec == Init /\ [][Next]_vars

-----------------------------------------------------------------------------
(* Properties.                                                             *)

Fifo == INSTANCE ByteFifo WITH fifo <- Content, got <- out, open <- (refs > 0), Capacity <- Size - 1

\* The ring is a FIFO for all its readers and writers: no byte is lost,
\* repeated, overwritten or read out of order.
ImplementsFifo == Fifo!FifoSpec

\* t sleeps on s inside the service with the place l.
Sleeps(t, s, l) == t \in sem[s].q /\ pc[t].at \in {"wait", "take"} /\ pc[t].then.at = l

\* Somebody holds d_bfsem and is yet to wake those who sleep on s.
Wakes(s) == \E t \in Thread :
  \/ pc[t].at \in {"test", "post"} /\ pc[t].sem = s
  \/ pc[t].at = "write" /\ pc[t].put /\ s = "rd"

\* No sleeper is forgotten: no reader sleeps while there are bytes to read,
\* or while there is no writer left; no writer sleeps while there is room;
\* and nobody waits for a first writer that has come.
NoSleeperForgotten ==
  \A t \in Thread :
    /\ Sleeps(t, "rd", "bytes") /\ (Used > 0 \/ nwriters = 0) => Wakes("rd")
    /\ Sleeps(t, "wr", "again") /\ Used < Size - 1 => Wakes("wr")
    /\ Sleeps(t, "rd", "found") /\ nwriters > 0 => Wakes("rd")

\* t has an open file: open() has counted it, and close() has not yet.
HasFile(t) ==
  \/ mode[t] # "none"
  \/ pc[t].at \in {"opened", "first", "found", "fail", "close"}
  \/ pc[t].at \in {"wait", "take", "test", "post"} /\ pc[t].then.at \in {"opened", "found", "close"}

\* One that is open for writing: k is a place in open() or close().
Opening(k) ==
  \/ k.at \in {"opened", "close"} /\ Writes(k.mode)
  \/ k.at \in {"take", "test", "post"} /\ k.then.at \in {"opened", "close"} /\ Writes(k.then.mode)

WriterAt(k, m) == IF m = "none" THEN Opening(k) ELSE Writes(m)
Writer(t) == WriterAt(pc[t], mode[t])

\* d_refs counts the open files and d_nwriters those that are open for writing,
\* so the buffer is there for whoever reads or writes, and goes when the last file
\* is closed, and readers see the end of the file when the last writer closes.
RefsSound ==
  /\ refs = Cardinality({t \in Thread : HasFile(t)})
  /\ nwriters = Cardinality({t \in Thread : Writer(t)})

\* A thread that polls for bytes does not sleep while the pipe has bytes
\* and nobody is at work on it (d_bfsem is free).
PollerWoken ==
  \A t \in Thread :
    t \in sem[t].q /\ "POLLIN" \in poll[t].events /\ sem["bf"].cnt = 1 => Used = 0
=============================================================================
