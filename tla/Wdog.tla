-------------------------------- MODULE Wdog --------------------------------
(***************************************************************************)
(* Watchdog timers (sched/wd_*.c).  g_wdactivelist is a delta list: a      *)
(* watchdog holds in `lag' the ticks by which it expires after the one     *)
(* before it.  Tasks and watchdog handlers create, start, cancel and       *)
(* delete watchdogs; the timer interrupt (wd_timer) decrements the first   *)
(* lag and runs the handlers of the watchdogs that expire, one after the   *)
(* other, and a handler may itself start, cancel and delete watchdogs.     *)
(***************************************************************************)
EXTENDS Integers, SequencesExt

CONSTANTS Wdog,    \* the watchdogs of the pool, CONFIG_PREALLOC_WDOGS of them
          Delays   \* the delays that wd_start is called with

\* INT_MAX, whose successor is not an int, is not among the delays.
ASSUME DelayAssumption == Delays \subseteq Nat
ASSUME PoolAssumption == IsFiniteSet(Wdog)

VARIABLES timer,     \* [q |-> g_wdactivelist, lag |-> wdog->lag by watchdog]
          isactive,  \* wdog->active
          free,      \* g_wdfreelist
          pc         \* where wd_timer is: "idle", "loop" or "handler"

vars == <<timer, isactive, free, pc>>

Timer == [q : Seq(Wdog), lag : [Wdog -> Nat]]

\* A lag is never negative, not even between the handlers of one tick.
TypeOK ==
  /\ timer \in Timer
  /\ isactive \in [Wdog -> BOOLEAN]
  /\ free \in Seq(Wdog)
  /\ pc \in {"idle", "loop", "handler"}

-----------------------------------------------------------------------------
(* The delta list.                                                         *)

\* now[i]: the ticks until the i-th watchdog expires.
Now(tm) ==
  LET now[i \in 0..Len(tm.q)] == IF i = 0 THEN 0 ELSE now[i-1] + tm.lag[tm.q[i]]
  IN  now

Position(q, w) == SelectInSeq(q, LAMBDA x : x = w)

\* A mutant: the remaining ticks of w are lost.
Unlink_LagLost(tm, w) == [tm EXCEPT !.q = RemoveAt(@, Position(@, w))]

\* The watchdog that follows w inherits the remaining ticks of w.
Unlink(tm, w) ==
  LET p == Position(tm.q, w)
  IN  [q   |-> RemoveAt(tm.q, p),
       lag |-> IF p < Len(tm.q)
               THEN [tm.lag EXCEPT ![tm.q[p+1]] = @ + tm.lag[w]]
               ELSE tm.lag]

\* A mutant: the delay is taken as it is.
Ticks_Exact(delay) == delay

\* The delay of wd_start, plus one.
Ticks(delay) == IF delay = 0 THEN 1 ELSE delay + 1

\* Where the two loops of wd_start stop: at the first watchdog in positive
\* time, and from there at the first one that expires after delay; or at the
\* end of the list.
Stop(now, n, delay) ==
  LET i0 == CHOOSE i \in 1..n : /\ now[i] >= 0 \/ i = n
                                /\ \A j \in 1..(i-1) : now[j] < 0
  IN  CHOOSE i \in i0..n : /\ now[i] > delay \/ i = n
                           /\ \A j \in i0..(i-1) : now[j] <= delay

\* A mutant: the watchdog behind w keeps its lag.
Link_LagKept(tm, w, delay) ==
  LET n == Len(tm.q)
      now == Now(tm)
      i == Stop(now, n, delay)
  IN  IF n > 0 /\ delay < now[i]
      THEN [q   |-> InsertAt(tm.q, i, w),
            lag |-> [tm.lag EXCEPT ![w] = delay - (now[i] - tm.lag[tm.q[i]])]]
      ELSE [q   |-> Append(tm.q, w),
            lag |-> [tm.lag EXCEPT ![w] = delay - now[n]]]

\* w goes before the watchdog at Stop, whose lag shrinks, or behind the last
\* one.  A watchdog with the same expiry stays in front of w.
Link(tm, w, delay) ==
  LET n == Len(tm.q)
      now == Now(tm)
      i == Stop(now, n, delay)
      curr == tm.q[i]
      before == delay - (now[i] - tm.lag[curr])
  IN  IF n = 0
      THEN [q |-> <<w>>, lag |-> [tm.lag EXCEPT ![w] = delay]]
      ELSE IF delay < now[i]
      THEN [q   |-> InsertAt(tm.q, i, w),
            lag |-> [tm.lag EXCEPT ![curr] = @ - before, ![w] = before]]
      ELSE [q   |-> Append(tm.q, w),
            lag |-> [tm.lag EXCEPT ![w] = delay - now[i]]]

-----------------------------------------------------------------------------

Init ==
  /\ timer = [q |-> << >>, lag |-> [w \in Wdog |-> 0]]
  /\ isactive = [w \in Wdog |-> FALSE]
  /\ free = SetToSeq(Wdog)
  /\ pc = "idle"

\* A task, or the handler that is running, holds watchdog w.
Calls == pc \in {"idle", "handler"}
Holds(w) == Calls /\ w \notin ToSet(free)

wd_create ==
  /\ Calls /\ free # << >>
  /\ free' = Tail(free)
  /\ isactive' = [isactive EXCEPT ![Head(free)] = FALSE]
  /\ UNCHANGED <<timer, pc>>

wd_start(w, delay) ==
  /\ Holds(w)
  /\ LET tm == IF isactive[w] THEN Unlink(timer, w) ELSE timer
     IN  timer' = Link(tm, w, Ticks(delay))
  /\ isactive' = [isactive EXCEPT ![w] = TRUE]
  /\ UNCHANGED <<free, pc>>

wd_cancel(w) ==
  /\ Holds(w) /\ isactive[w]
  /\ timer' = Unlink(timer, w)
  /\ isactive' = [isactive EXCEPT ![w] = FALSE]
  /\ UNCHANGED <<free, pc>>

wd_delete(w) ==
  /\ Holds(w)
  /\ timer' = IF isactive[w] THEN Unlink(timer, w) ELSE timer
  /\ isactive' = [isactive EXCEPT ![w] = FALSE]
  /\ free' = Append(free, w)
  /\ UNCHANGED pc

\* The timer interrupt: the first lag is decremented.
wd_timer ==
  /\ pc = "idle" /\ timer.q # << >>
  /\ LET h == Head(timer.q)
     IN  /\ timer' = [timer EXCEPT !.lag[h] = @ - 1]
         /\ pc' = IF timer.lag[h] <= 1 THEN "loop" ELSE "idle"
  /\ UNCHANGED <<isactive, free>>

Expired == timer.q # << >> /\ timer.lag[Head(timer.q)] <= 0

\* A mutant: the watchdog stays marked active.
Expire_Active ==
  /\ pc = "loop" /\ Expired
  /\ timer' = [timer EXCEPT !.q = Tail(@)]
  /\ pc' = "handler"
  /\ UNCHANGED <<isactive, free>>

\* The loop of wd_timer takes an expired watchdog and calls its handler.
Expire ==
  /\ pc = "loop" /\ Expired
  /\ LET h == Head(timer.q)
         rest == Tail(timer.q)
     IN  /\ timer' = [q   |-> rest,
                      lag |-> IF rest # << >>
                              THEN [timer.lag EXCEPT ![Head(rest)] = @ + timer.lag[h]]
                              ELSE timer.lag]
         /\ isactive' = [isactive EXCEPT ![h] = FALSE]
  /\ pc' = "handler"
  /\ UNCHANGED free

HandlerReturns ==
  /\ pc = "handler"
  /\ pc' = "loop"
  /\ UNCHANGED <<timer, isactive, free>>

TimerReturns ==
  /\ pc = "loop" /\ ~Expired
  /\ pc' = "idle"
  /\ UNCHANGED <<timer, isactive, free>>

Next ==
  \/ wd_create \/ wd_timer \/ Expire \/ HandlerReturns \/ TimerReturns
  \/ \E w \in Wdog : \/ wd_cancel(w) \/ wd_delete(w)
                     \/ \E delay \in Delays : wd_start(w, delay)

Spec == Init /\ [][Next]_vars

\* The timer keeps ticking; the loop of wd_timer goes on and a handler
\* returns.  Nothing obliges a task or a handler to call a service.
Fairness == WF_vars(wd_timer) /\ WF_vars(Expire \/ HandlerReturns \/ TimerReturns)

FairSpec == Spec /\ Fairness

-----------------------------------------------------------------------------
(* Properties.                                                             *)

\* wdog->active says exactly that the watchdog is in g_wdactivelist, so that
\* wd_cancel never finds an active watchdog missing (PANIC(OSERR_WDOGNOTFOUND)),
\* and no watchdog is listed twice, or listed and free at once: also after a
\* handler has restarted, cancelled or deleted any watchdog.
ActiveIsListed ==
  /\ \A w \in Wdog : isactive[w] <=> w \in ToSet(timer.q)
  /\ ToSet(timer.q) \cap ToSet(free) = {}
  /\ Len(timer.q) = Cardinality(ToSet(timer.q))
  /\ Len(free) = Cardinality(ToSet(free))

\* wd_gettime: the ticks until w expires, and 0 when it is not active.
wd_gettime(tm, w) ==
  IF w \in ToSet(tm.q) THEN Now(tm)[Position(tm.q, w)] ELSE 0

\* The same, but a watchdog that expires now is told from one that is not active.
DueIn(tm, w) == IF w \in ToSet(tm.q) THEN wd_gettime(tm, w) ELSE -1

Clock == INSTANCE AlarmClock
           WITH Alarm <- Wdog,
                armed <- {w \in Wdog : isactive[w]},
                due   <- [w \in Wdog |-> DueIn(timer, w)]

\* The delta list implements independent alarms: whatever is started,
\* cancelled or deleted around it, by tasks or by handlers in the middle of a
\* tick, a watchdog expires at its own tick.
ImplementsAlarmClock == Clock!Spec

\* wd_start gives the watchdog the delay that the caller asked for, plus the
\* tick that is under way, moves no other watchdog, and lets those that
\* expire at the same tick expire first.
StartIsExact ==
  [][ \A w \in Wdog, delay \in Delays :
        wd_start(w, delay) =>
          /\ DueIn(timer', w) = Ticks(delay)
          /\ \A x \in Wdog \ {w} : 
               /\ DueIn(timer', x) = DueIn(timer, x)
               /\ DueIn(timer, x) = Ticks(delay)
                    => Position(timer'.q, x) < Position(timer'.q, w) ]_vars

\* wd_timer comes to an end, though handlers restart watchdogs, their own
\* included and with a delay of 0, in every tick.
TimerEnds == pc = "loop" ~> pc = "idle"

\* A watchdog that is not restarted for ever expires or is cancelled.
EveryWatchdogEnds ==
  \A w \in Wdog :
    <>[][~\E delay \in Delays : wd_start(w, delay)]_vars => (isactive[w] ~> ~isactive[w])
=============================================================================
