----------------------------- MODULE AlarmClock -----------------------------
(***************************************************************************)
(* What the watchdog timers promise (include/wdog.h): an alarm that is set *)
(* to n ticks rings once, n ticks later and neither earlier nor later,     *)
(* unless it is cleared or set anew before.  Any number of alarms may ring *)
(* at one tick, and an alarm may be set or cleared while another rings.    *)
(***************************************************************************)
EXTENDS Integers

CONSTANT Alarm

VARIABLES armed,  \* the alarms that were set and have not rung
          due     \* the ticks until an alarm rings, or Off

Off == -1

Init == armed = {} /\ due = [w \in Alarm |-> Off]

\* w is set to any positive number of ticks.
Set(w) ==
  /\ due'[w] > 0
  /\ due' = [due EXCEPT ![w] = due'[w]]
  /\ armed' = armed \cup {w}

Clear(w) ==
  /\ due' = [due EXCEPT ![w] = Off]
  /\ armed' = armed \ {w}

\* Time does not pass an alarm that is due.
Tick ==
  /\ \A w \in armed : due[w] > 0
  /\ due' = [w \in Alarm |-> IF w \in armed THEN due[w] - 1 ELSE Off]
  /\ UNCHANGED armed

Ring(w) ==
  /\ w \in armed /\ due[w] = 0
  /\ due' = [due EXCEPT ![w] = Off]
  /\ armed' = armed \ {w}

Next == Tick \/ \E w \in Alarm : Set(w) \/ Clear(w) \/ Ring(w)

Spec == Init /\ [][Next]_<<armed, due>>
=============================================================================
