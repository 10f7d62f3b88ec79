---------------------------- MODULE RunningLock ----------------------------
(***************************************************************************)
(* The running lock of HRilManager (hril_manager.cpp): every message to    *)
(* the upper layer that must be acknowledged takes it, so that the device  *)
(* does not fall asleep before the message is handled.  The lock is given  *)
(* back by SendRilAck, or by a timer of 200 ms that each message starts.   *)
(*                                                                         *)
(* A message that takes the lock is named by the value runningSerialNum_   *)
(* gets for it.  The 200 ms are abstracted to the order in which the       *)
(* timers run out, which is the order they were started in.                *)
(***************************************************************************)
EXTENDS Integers, Sequences, FiniteSets

CONSTANTS
  MaxMessages,  \* bound: messages that must be acknowledged
  MaxRestarts   \* bound: how often select fails and the loop starts again

ASSUME BoundAssumption == MaxMessages \in Nat /\ MaxRestarts \in Nat

VARIABLES
  power,     \* powerInterface_ is not null
  held,      \* the power service holds HRilRunningLock for this process
  count,     \* runningLockCount_
  serial,    \* runningSerialNum_
  loopUp,    \* timerCallback_->event_ exists: the event loop has started
  timers,    \* timerList_: the serials whose 200 ms are running
  due,       \* pendingList_: expired, their callback has not run yet
  restarts   \* how often the event loop has started again

VARIABLES    \* history, for the acknowledgements and the properties
  bare,      \* how many messages were sent without a lock
  bareAcked, \* how many of these were acknowledged
  acked,     \* messages with a lock that were acknowledged
  released,  \* messages whose hold on the lock the timer has ended
  stray      \* a message without a hold on the lock was acknowledged

lockVars    == <<held, count>>
timerVars   == <<timers, due>>
historyVars == <<bare, bareAcked, acked, released, stray>>
vars == <<power, lockVars, serial, loopUp, timerVars, restarts, historyVars>>

Messages == 1..serial

TypeOK ==
  /\ power \in BOOLEAN /\ held \in BOOLEAN /\ loopUp \in BOOLEAN
  /\ count \in Nat /\ serial \in Nat /\ restarts \in Nat
  /\ timers \in Seq(Nat) /\ due \in Seq(Nat)
  /\ bare \in Nat /\ bareAcked \in Nat /\ stray \in BOOLEAN
  /\ acked \in SUBSET Messages /\ released \in SUBSET Messages

(* HRilInit may or may not find the power service, and starts the thread   *)
(* of the event loop.                                                      *)
Init ==
  /\ power \in BOOLEAN
  /\ held = FALSE /\ count = 0 /\ serial = 0
  /\ loopUp = FALSE /\ timers = << >> /\ due = << >> /\ restarts = 0
  /\ bare = 0 /\ bareAcked = 0
  /\ acked = {} /\ released = {} /\ stray = FALSE

EventLoop ==
  /\ ~loopUp
  /\ loopUp' = TRUE
  /\ UNCHANGED <<power, lockVars, serial, timerVars, restarts, historyVars>>

(* select fails, between two rounds of callbacks: EventLoop calls itself   *)
(* and the new HRilEvent has no timers.                                    *)
RestartEventLoop ==
  /\ loopUp /\ due = << >>
  /\ restarts < MaxRestarts
  /\ restarts' = restarts + 1
  /\ timers' = << >>
  /\ UNCHANGED <<power, lockVars, serial, loopUp, due, historyVars>>

(* HRilSetTimerCallbackInfo drops the timer when there is no event loop.   *)
SetTimer(n) == timers' = IF loopUp THEN Append(timers, n) ELSE timers

(* Faulty variants, here and below, for the mutation tests of the          *)
(* properties.  The count only grows when the lock is taken.               *)
SendLockedUncounted ==
  /\ serial + bare < MaxMessages
  /\ power
  /\ held' = (held \/ count = 0)
  /\ count' = IF count = 0 THEN 1 ELSE count
  /\ serial' = serial + 1
  /\ SetTimer(serial + 1)
  /\ UNCHANGED <<power, loopUp, due, restarts, historyVars>>

(* ApplyRunningLock, with and without a power service, and the message     *)
(* that is sent after it.                                                  *)
SendLocked ==
  /\ serial + bare < MaxMessages
  /\ power
  /\ held' = (held \/ count = 0)
  /\ count' = count + 1
  /\ serial' = serial + 1
  /\ SetTimer(serial + 1)
  /\ UNCHANGED <<power, loopUp, due, restarts, historyVars>>

SendBare ==
  /\ serial + bare < MaxMessages
  /\ ~power
  /\ power' \in BOOLEAN        \* IPowerInterface::Get
  /\ bare' = bare + 1
  /\ UNCHANGED <<lockVars, serial, loopUp, timerVars, restarts, bareAcked,
                 acked, released, stray>>

(* Faulty: the count is not kept at zero.                                  *)
ReleaseBelowZero ==
  IF ~power THEN UNCHANGED lockVars
  ELSE /\ count' = count - 1
       /\ held' = (count > 1)

(* Faulty: every acknowledgement ends the hold.                            *)
ReleaseAtOnce ==
  IF ~power THEN UNCHANGED lockVars
  ELSE /\ count' = IF count > 1 THEN count - 1 ELSE 0
       /\ held' = FALSE

(* Faulty: the last acknowledgement is not taken off the count.            *)
ReleaseKeepsOne ==
  IF ~power THEN UNCHANGED lockVars
  ELSE IF count > 1
    THEN /\ count' = count - 1
         /\ UNCHANGED held
    ELSE /\ held' = FALSE
         /\ UNCHANGED count

ReleaseRunningLock ==
  IF ~power THEN UNCHANGED lockVars
  ELSE IF count > 1
    THEN /\ count' = count - 1
         /\ UNCHANGED held
    ELSE /\ count' = 0
         /\ held' = FALSE

(* SendRilAck: the acknowledgement does not say what it acknowledges.      *)
AckLocked(n) ==
  /\ n \in Messages \ acked
  /\ ReleaseRunningLock
  /\ acked' = acked \union {n}
  /\ stray' = (stray \/ n \in released)
  /\ UNCHANGED <<power, serial, loopUp, timerVars, restarts, bare, bareAcked,
                 released>>

AckBare ==
  /\ bareAcked < bare
  /\ ReleaseRunningLock
  /\ bareAcked' = bareAcked + 1
  /\ stray' = (stray \/ power)
  /\ UNCHANGED <<power, serial, loopUp, timerVars, restarts, bare, acked,
                 released>>

(* ProcessTimerList: the timers with the oldest deadlines are due.         *)
ProcessTimerList ==
  /\ timers # << >>
  /\ due' = Append(due, Head(timers))
  /\ timers' = Tail(timers)
  /\ UNCHANGED <<power, lockVars, serial, loopUp, restarts, historyVars>>

(* Faulty: every timer lets go.                                            *)
LetsGoAlways(n) == power

(* Faulty: the timer carries the serial number before it was increased.    *)
LetsGoOffByOne(n) == power /\ n + 1 = serial

(* Only the timer of the newest message lets go, and of everything.        *)
LetsGo(n) == power /\ n = serial

RunningLockCallback ==
  /\ due # << >>
  /\ due' = Tail(due)
  /\ IF LetsGo(Head(due))
       THEN /\ count' = 0
            /\ held' = FALSE
            /\ released' = Messages
       ELSE UNCHANGED <<lockVars, released>>
  /\ UNCHANGED <<power, serial, loopUp, timers, restarts, bare, bareAcked,
                 acked, stray>>

Next ==
  \/ EventLoop
  \/ RestartEventLoop
  \/ SendLocked
  \/ SendBare
  \/ \E n \in Messages : AckLocked(n)
  \/ AckBare
  \/ ProcessTimerList
  \/ RunningLockCallback

(* Time passes and the event loop runs; nobody has to acknowledge.         *)
Fairness ==
  /\ WF_vars(ProcessTimerList)
  /\ WF_vars(RunningLockCallback)

Spec     == Init /\ [][Next]_vars
FairSpec == Spec /\ Fairness

-----------------------------------------------------------------------------
(* Messages that still have their share in the lock, as far as the manager *)
(* was told: neither acknowledged nor let go by the timer.                 *)
Sharing == Messages \ (acked \union released)

(* Messages whose 200 ms have not passed and which nobody acknowledged.    *)
Fresh == {n \in Messages \ acked : \E i \in DOMAIN timers : timers[i] = n}

(* The process holds the lock of the power service exactly while           *)
(* runningLockCount_ is positive, over HoldRunningLock in one function and *)
(* UnholdRunningLock in two others.                                        *)
HeldWhileCounted == held <=> count > 0

(* The count never exceeds the messages that are still to be acknowledged: *)
(* once all are acknowledged the lock is free, whatever the timers and the *)
(* stray acknowledgements did in between.                                  *)
FreeWhenAllAcked == count <= Cardinality(Messages \ acked)

(* As long as every acknowledgement came while its message shared in the   *)
(* lock, the count is the number of messages that share in it: timers that *)
(* were overtaken by newer messages have not disturbed it.                 *)
CountsTheSharing == ~stray => count = Cardinality(Sharing)

(* A message that nobody acknowledged and whose 200 ms are still running   *)
(* is protected by the lock, unless the manager received stray             *)
(* acknowledgements.                                                       *)
FreshProtectedUnlessStray == Fresh # {} /\ ~stray => held

(* The lock that the newest message armed a timer for is given back even   *)
(* if nobody ever acknowledges: the timers of older messages do nothing,   *)
(* and some later timer does what they do not do; only a restart of the    *)
(* event loop loses the timer.                                             *)
ArmedLockIsReleased ==
  \A r \in 0..MaxRestarts :
    (held /\ restarts = r /\ \E i \in DOMAIN timers : timers[i] = serial)
      ~> (~held \/ restarts > r)

(* What the knowledge base promises: a message that needs the lock is      *)
(* protected until it is acknowledged or its 200 ms are over.              *)
FreshProtected == Fresh # {} => held
=============================================================================
