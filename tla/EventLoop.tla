----------------------------- MODULE EventLoop -----------------------------
(***************************************************************************)
(* The event loop of the HRIL (hril_event.cpp, hril_timer_callback.cpp):   *)
(* one thread that waits in select for the next timer or for a byte in a   *)
(* pipe, the threads that set timers through it, and the destructor of     *)
(* HRilManager, which stops it.  When select fails the loop starts again   *)
(* with a new HRilEvent, while the others go on using event_.              *)
(*                                                                         *)
(* The pipe is the only descriptor the program listens to, and it holds    *)
(* its place in the table of listened descriptors (isHolding).             *)
(***************************************************************************)
EXTENDS Naturals, Sequences

CONSTANTS
  Setters,     \* threads that set timers
  MaxTimers,   \* bound: timers set
  MaxTime,     \* bound: the clock
  Delays,      \* the times asked for
  MaxStarts    \* bound: how often the loop starts

ASSUME BoundAssumption ==
  /\ MaxTimers \in Nat /\ MaxTime \in Nat /\ MaxStarts \in Nat \ {0}
  /\ Delays \subseteq Nat

VARIABLES
  now,         \* CLOCK_MONOTONIC
  loop,        \* where the thread of the loop is
  event,       \* event_: the number of the start that made it, 0 for null
  timers,      \* timerList_ of that event
  pending,     \* pendingList_ of that event
  listening,   \* the table and readFds_ of that event have the pipe
  destroy,     \* isNormalDestory of that event
  piped,       \* triggerWriteFd_: the number of the start that made the pipe
  bytes,       \* there is a byte in that pipe
  until,       \* when select times out
  ready,       \* select returned with the pipe in rfds
  setter,      \* [Setters -> where it is, and the event it is using]
  count,       \* timers set
  manager,     \* where the destructor of the manager is
  lapses       \* history: what was lost when event_ was replaced

Forever == MaxTime + 1

events == <<event, timers, pending, listening, destroy>>
pipe   == <<piped, bytes>>
wait   == <<until, ready>>
vars == <<now, loop, events, pipe, wait, setter, count, manager, lapses>>

Idle == [at |-> "idle", event |-> 0]

Init ==
  /\ now = 0
  /\ loop = "off" /\ until = Forever /\ ready = FALSE
  /\ event = 0 /\ timers = <<>> /\ pending = <<>>
  /\ listening = FALSE /\ destroy = FALSE
  /\ piped = 0 /\ bytes = FALSE
  /\ setter = [s \in Setters |-> Idle] /\ count = 0
  /\ manager = "up"
  /\ lapses = {}

Tick ==
  /\ now < MaxTime
  /\ now' = now + 1
  /\ UNCHANGED <<loop, events, pipe, wait, setter, count, manager, lapses>>

-----------------------------------------------------------------------------
(* HRilInit makes the thread, and that looks whether there still is a      *)
(* manager before it enters EventLoop.                                     *)
HRilInit ==
  /\ loop = "off" /\ manager = "up"
  /\ loop' = "boot"
  /\ UNCHANGED <<now, events, pipe, wait, setter, count, manager, lapses>>

HRilBootUpEventLoop ==
  /\ loop = "boot"
  /\ loop' = IF manager = "up" THEN "start" ELSE "over"
  /\ UNCHANGED <<now, events, pipe, wait, setter, count, manager, lapses>>

(* event_ is replaced, and the old one with its lists is gone: so is an    *)
(* order to stop that was given through it.                                *)
ReplaceEvent ==
  /\ loop = "start"
  /\ event' = event + 1
  /\ timers' = <<>> /\ pending' = <<>>
  /\ listening' = FALSE /\ destroy' = FALSE
  /\ loop' = "init"
  /\ lapses' = IF destroy THEN lapses \union {"order lost"} ELSE lapses
  /\ UNCHANGED <<now, pipe, wait, setter, count, manager>>

TimerEventInit ==
  /\ loop = "init"
  /\ timers' = <<>> /\ pending' = <<>> /\ listening' = FALSE
  /\ loop' = "pipe"
  /\ UNCHANGED <<now, event, destroy, pipe, wait, setter, count, manager,
                 lapses>>

(* Without a pipe the thread ends.  The old pipe is not closed.            *)
MakePipe ==
  /\ loop = "pipe"
  /\ \/ loop' = "over" /\ UNCHANGED pipe
     \/ loop' = "listen" /\ piped' = event /\ bytes' = FALSE
  /\ UNCHANGED <<now, events, wait, setter, count, manager, lapses>>

AddEventMessage ==
  /\ loop = "listen"
  /\ listening' = TRUE
  /\ loop' = "next"
  /\ UNCHANGED <<now, event, timers, pending, destroy, pipe, wait, setter,
                 count, manager, lapses>>

-----------------------------------------------------------------------------
(* Faulty: a timer that is due already counts for none.                    *)
NextTimeOutSkipped ==
  /\ loop = "next"
  /\ until' = IF timers # <<>> /\ Head(timers).due > now
              THEN Head(timers).due ELSE Forever
  /\ loop' = "select"
  /\ UNCHANGED <<now, events, pipe, ready, setter, count, manager, lapses>>

(* GetNextTimeOut: no time at all for what is due already.                 *)
GetNextTimeOut ==
  /\ loop = "next"
  /\ until' = IF timers = <<>> THEN Forever
              ELSE IF Head(timers).due > now THEN Head(timers).due ELSE now
  /\ loop' = "select"
  /\ UNCHANGED <<now, events, pipe, ready, setter, count, manager, lapses>>

Readable == listening /\ bytes
Expired  == until <= now

(* The order to stop is seen when select returns, for whatever reason.     *)
SelectReturns ==
  /\ loop = "select"
  /\ Readable \/ Expired
  /\ ready' = Readable
  /\ loop' = IF destroy THEN "over" ELSE "timers"
  /\ UNCHANGED <<now, events, pipe, until, setter, count, manager, lapses>>

(* EINTR, when there is nothing else to return for.                        *)
SelectInterrupted ==
  /\ loop = "select"
  /\ ~Readable /\ ~Expired
  /\ loop' = IF destroy THEN "over" ELSE "next"
  /\ UNCHANGED <<now, events, pipe, wait, setter, count, manager, lapses>>

(* Any other error: out of EventMessageLoop, and then either out of        *)
(* EventLoop or into it again.                                             *)
SelectFails ==
  /\ loop = "select"
  /\ event < MaxStarts
  /\ loop' = IF destroy THEN "over" ELSE "again"
  /\ UNCHANGED <<now, events, pipe, wait, setter, count, manager, lapses>>

StartAgain ==
  /\ loop = "again"
  /\ loop' = IF destroy THEN "over" ELSE "start"
  /\ UNCHANGED <<now, events, pipe, wait, setter, count, manager, lapses>>

-----------------------------------------------------------------------------
(* Faulty: what GetNextTimeOut takes for due.                              *)
IsDueNow(t) == now >= t.due

IsDue(t) == now > t.due

(* The timers at the head of the list as far as they are due, which is     *)
(* strictly after their time.                                              *)
ProcessTimerList ==
  /\ loop = "timers"
  /\ \E n \in 0..Len(timers) :
       /\ \A i \in 1..n : IsDue(timers[i])
       /\ n < Len(timers) => ~IsDue(timers[n + 1])
       /\ pending' = pending \o SubSeq(timers, 1, n)
       /\ timers' = SubSeq(timers, n + 1, Len(timers))
  /\ loop' = "events"
  /\ UNCHANGED <<now, event, listening, destroy, pipe, wait, setter, count,
                 manager, lapses>>

Trigger == [id |-> 0, due |-> 0]    \* fdTriggerEvent_

ProcessEvents ==
  /\ loop = "events"
  /\ pending' = IF ready /\ listening THEN Append(pending, Trigger) ELSE pending
  /\ loop' = "run"
  /\ UNCHANGED <<now, event, timers, listening, destroy, pipe, wait, setter,
                 count, manager, lapses>>

(* ProcessPendingList, one callback after the other, with no lock.  The    *)
(* pipe is emptied, also of the byte that came with an order to stop since *)
(* select returned.                                                        *)
FdTriggerCallback ==
  /\ loop = "run"
  /\ pending # <<>> /\ Head(pending) = Trigger
  /\ pending' = Tail(pending)
  /\ bytes' = FALSE
  /\ lapses' = IF destroy /\ bytes THEN lapses \union {"drained"} ELSE lapses
  /\ UNCHANGED <<now, loop, event, timers, listening, destroy, piped, wait,
                 setter, count, manager>>

(* The callback of a timer may set another: PdpContextListCallback, whose  *)
(* answer is a notification that takes the running lock.                   *)
TimerCallback ==
  /\ loop = "run"
  /\ pending # <<>> /\ Head(pending) # Trigger
  /\ pending' = Tail(pending)
  /\ loop' \in {"run", "callback"}
  /\ UNCHANGED <<now, event, timers, listening, destroy, pipe, wait, setter,
                 count, manager, lapses>>

PendingListDone ==
  /\ loop = "run"
  /\ pending = <<>>
  /\ loop' = "next"
  /\ UNCHANGED <<now, events, pipe, wait, setter, count, manager, lapses>>

-----------------------------------------------------------------------------
(* Faulty: a timer goes to the end of the list.                            *)
AppendTimer(t) == timers' = Append(timers, t)

(* AddTimerEvent puts a timer before the first that is due after it.       *)
InsertTimer(t) ==
  \E n \in 0..Len(timers) :
    /\ \A i \in 1..n : timers[i].due <= t.due
    /\ n < Len(timers) => timers[n + 1].due > t.due
    /\ timers' = SubSeq(timers, 1, n) \o <<t>>
                   \o SubSeq(timers, n + 1, Len(timers))

AddTimer ==
  /\ count < MaxTimers
  /\ count' = count + 1
  /\ \E d \in Delays :
       /\ now + d < MaxTime
       /\ InsertTimer([id |-> count', due |-> now + d])

(* On the thread of the loop no byte is written: it looks at the timers    *)
(* again before it waits.                                                  *)
CallbackSetsTimer ==
  /\ loop = "callback"
  /\ \/ AddTimer
     \/ UNCHANGED <<timers, count>>
  /\ loop' = "run"
  /\ UNCHANGED <<now, event, pending, listening, destroy, pipe, wait, setter,
                 manager, lapses>>

(* HRilSetTimerCallbackInfo of another thread does nothing before event_   *)
(* exists.  After that it uses the event it has read the pointer to.       *)
SetTimer(s) ==
  /\ setter[s] = Idle /\ manager = "up"
  /\ event # 0
  /\ setter' = [setter EXCEPT ![s] = [at |-> "add", event |-> event]]
  /\ UNCHANGED <<now, loop, events, pipe, wait, count, manager, lapses>>

(* Faulty: the loop is not woken.                                          *)
AddQuietly(s) ==
  /\ setter[s].at = "add" /\ setter[s].event = event
  /\ AddTimer
  /\ setter' = [setter EXCEPT ![s] = Idle]
  /\ UNCHANGED <<now, loop, event, pending, listening, destroy, pipe, wait,
                 manager, lapses>>

(* If that event is gone by now the timer is put into freed memory.        *)
AddTimerEvent(s) ==
  /\ setter[s].at = "add"
  /\ IF setter[s].event = event
       THEN AddTimer /\ UNCHANGED lapses
       ELSE /\ lapses' = lapses \union {"freed"}
            /\ UNCHANGED <<timers, count>>
  /\ setter' = [setter EXCEPT ![s].at = "trigger"]
  /\ UNCHANGED <<now, loop, event, pending, listening, destroy, pipe, wait,
                 manager>>

(* A byte into the pipe there is; before the first there is none.          *)
OnTriggerEvent == bytes' = (piped # 0) /\ UNCHANGED piped

SetterTriggers(s) ==
  /\ setter[s].at = "trigger"
  /\ OnTriggerEvent
  /\ setter' = [setter EXCEPT ![s] = Idle]
  /\ UNCHANGED <<now, loop, events, wait, count, manager, lapses>>

-----------------------------------------------------------------------------
(* ~HRilManager.  With no event_ it returns at once, and the end of a      *)
(* thread object whose thread has been made ends the process.              *)
ManagerEnds ==
  /\ manager = "up"
  /\ manager' = IF event # 0 THEN "order"
                ELSE IF loop # "off" THEN "terminated" ELSE "gone"
  /\ UNCHANGED <<now, loop, events, pipe, wait, setter, count, lapses>>

SetNormalDestory ==
  /\ manager = "order"
  /\ destroy' = TRUE
  /\ manager' = "trigger"
  /\ UNCHANGED <<now, loop, event, timers, pending, listening, pipe, wait,
                 setter, count, lapses>>

(* Faulty: the loop is told to stop and not woken.                         *)
ManagerJoinsAtOnce ==
  /\ manager = "trigger"
  /\ manager' = "join"
  /\ UNCHANGED <<now, loop, events, pipe, wait, setter, count, lapses>>

(* The byte is not heard when this start has not made its pipe yet.        *)
ManagerTriggers ==
  /\ manager = "trigger"
  /\ OnTriggerEvent
  /\ lapses' = IF piped # event THEN lapses \union {"unheard"} ELSE lapses
  /\ manager' = "join"
  /\ UNCHANGED <<now, loop, events, wait, setter, count>>

ManagerJoins ==
  /\ manager = "join"
  /\ loop = "over"
  /\ manager' = "gone"
  /\ UNCHANGED <<now, loop, events, pipe, wait, setter, count, lapses>>

-----------------------------------------------------------------------------
LoopStep ==
  \/ HRilBootUpEventLoop
  \/ ReplaceEvent \/ TimerEventInit \/ MakePipe \/ AddEventMessage
  \/ GetNextTimeOut \/ SelectReturns \/ StartAgain
  \/ ProcessTimerList \/ ProcessEvents
  \/ FdTriggerCallback \/ TimerCallback \/ CallbackSetsTimer \/ PendingListDone

SetterStep(s)  == AddTimerEvent(s) \/ SetterTriggers(s)
ManagerStep    == SetNormalDestory \/ ManagerTriggers \/ ManagerJoins

Next ==
  \/ Tick \/ HRilInit
  \/ LoopStep \/ SelectInterrupted \/ SelectFails
  \/ \E s \in Setters : SetTimer(s) \/ SetterStep(s)
  \/ ManagerEnds \/ ManagerStep

(* Time passes and threads run; select need not be interrupted or fail.    *)
Fairness ==
  /\ WF_vars(Tick) /\ WF_vars(LoopStep) /\ WF_vars(ManagerStep)
  /\ \A s \in Setters : WF_vars(SetterStep(s))

Spec     == Init /\ [][Next]_vars
FairSpec == Spec /\ Fairness

-----------------------------------------------------------------------------
Timer    == [id : 1..MaxTimers, due : 0..MaxTime]
Listed   == {timers[i] : i \in DOMAIN timers}
Expiring == {pending[i] : i \in DOMAIN pending} \ {Trigger}
Waiting  == Listed \union Expiring

(* The timer list is sorted as ProcessTimerList and GetNextTimeOut, which  *)
(* look at its head, take for granted.                                     *)
TypeOK ==
  /\ now \in 0..MaxTime /\ event \in 0..MaxStarts /\ piped \in 0..event
  /\ loop \in {"off", "boot", "start", "init", "pipe", "listen", "next",
               "select", "timers", "events", "run", "callback", "again", "over"}
  /\ timers \in Seq(Timer) /\ pending \in Seq(Timer \union {Trigger})
  /\ \A i, j \in DOMAIN timers : i < j => timers[i].due <= timers[j].due
  /\ listening \in BOOLEAN /\ destroy \in BOOLEAN
  /\ bytes \in BOOLEAN /\ ready \in BOOLEAN /\ until \in 0..Forever
  /\ setter \in [Setters -> [at : {"idle", "add", "trigger"},
                             event : 0..MaxStarts]]
  /\ count \in 0..MaxTimers
  /\ manager \in {"up", "order", "trigger", "join", "gone", "terminated"}
  /\ lapses \subseteq {"order lost", "freed", "unheard", "drained"}

(* The loop does not sleep over what it should do: while it is in select   *)
(* with no reason to come back, a timer that is due before it wakes up     *)
(* still has its byte to come, and so has an order to stop, except one     *)
(* whose byte found no pipe or was emptied with those that woke the loop.  *)
SleepsOnlyIfNothingToDo ==
  loop = "select" /\ ~Readable /\ ~Expired =>
    /\ timers # <<>> /\ Head(timers).due < until
         => \E s \in Setters : setter[s].at = "trigger"
    /\ destroy => \/ manager = "trigger"
                  \/ lapses \intersect {"unheard", "drained"} # {}

(* HRilEvent keeps the promise of TimerService, over the timer list and    *)
(* the pending list, which the callbacks are called from with no lock.     *)
Up == loop \in {"next", "select", "timers", "events", "run", "callback"}
Service == INSTANCE TimerService WITH up <- Up, waiting <- Waiting
ImplementsTimerService == Service!Spec

(* A timer that is set is called back, or is gone with its event; or the   *)
(* loop has ended.                                                         *)
TimersEnd ==
  \A id \in 1..MaxTimers :
    (\E t \in Waiting : t.id = id)
      ~> (loop \in {"over", "start"} \/ ~\E t \in Waiting : t.id = id)

(* The destructor comes back from join, unless its order went to an event  *)
(* that was being replaced, or its byte nowhere or the way of another.     *)
JoinReturns ==
  manager = "join" ~> \/ manager = "gone"
                      \/ lapses \ {"freed"} # {}
=============================================================================
