---------------------------- MODULE TimerService ----------------------------
(***************************************************************************)
(* What the event loop promises to who sets a timer (OnTimerCallback): its *)
(* callback is called once, after its time, and after the callbacks of the *)
(* timers that were due before it.  Timers are lost only while the loop is *)
(* not up: before it has started, and when it starts again.                *)
(***************************************************************************)
EXTENDS Naturals

VARIABLES
  now,       \* the clock
  up,        \* the loop is up
  waiting,   \* timers set and not called back: [id, due]
  count      \* timers set so far

vars == <<now, up, waiting, count>>

Init == now = 0 /\ ~up /\ waiting = {} /\ count = 0

Tick ==
  /\ now' = now + 1
  /\ UNCHANGED <<up, waiting, count>>

Set ==
  /\ count' = count + 1
  /\ \E t \in waiting' :
       /\ t.id = count' /\ t.due >= now
       /\ waiting' = waiting \union {t}
  /\ UNCHANGED <<now, up>>

Before(t, u) == t.due < u.due \/ (t.due = u.due /\ t.id <= u.id)

CallBack ==
  /\ up
  /\ \E t \in waiting :
       /\ t.due < now
       /\ \A u \in waiting : Before(t, u)
       /\ waiting' = waiting \ {t}
  /\ UNCHANGED <<now, up, count>>

Start ==
  /\ up' = ~up
  /\ UNCHANGED <<now, waiting, count>>

Lose ==
  /\ ~up
  /\ waiting' = {}
  /\ UNCHANGED <<now, up, count>>

Next == Tick \/ Set \/ CallBack \/ Start \/ Lose

Spec == Init /\ [][Next]_vars
=============================================================================
