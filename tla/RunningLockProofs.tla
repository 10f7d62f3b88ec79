------------------------- MODULE RunningLockProofs -------------------------
(***************************************************************************)
(* Proofs about RunningLock, for any number of messages.  The invariants   *)
(* are inductive together with two facts: nothing is counted before the    *)
(* power service is there, and the timers run out in the order the         *)
(* messages were sent.                                                     *)
(***************************************************************************)
EXTENDS RunningLock, FiniteSetTheorems, TLAPS

CountedWithPower == ~power => count = 0 /\ serial = 0

TimersInOrder ==
  /\ \A i \in DOMAIN timers : timers[i] \in Messages \ released
  /\ \A i, j \in DOMAIN timers : i < j => timers[i] < timers[j]
  /\ \A i \in DOMAIN timers, j \in DOMAIN due : due[j] < timers[i]
  /\ \A j \in DOMAIN due : due[j] <= serial

Inv ==
  /\ TypeOK
  /\ HeldWhileCounted
  /\ FreeWhenAllAcked
  /\ CountsTheSharing
  /\ CountedWithPower
  /\ TimersInOrder

-----------------------------------------------------------------------------
(* Lemmas about what is counted. *)

(* The sets whose cardinalities the invariant compares are finite.         *)
LEMMA MessagesFinite ==
  ASSUME NEW n \in Nat, NEW S \in SUBSET (1..n)
  PROVE  IsFiniteSet(S) /\ Cardinality(S) \in Nat
<1>1. IsFiniteSet(1..n)
  BY FS_Interval
<1>2. IsFiniteSet(S)
  BY <1>1, FS_Subset
<1> QED BY <1>2, FS_CardinalityType

(* A new message adds itself to what is not in an older set S.             *)
LEMMA NewMessage ==
  ASSUME NEW n \in Nat, NEW S \in SUBSET (1..n)
  PROVE  Cardinality((1..(n+1)) \ S) = Cardinality((1..n) \ S) + 1
<1>1. (1..(n+1)) \ S = ((1..n) \ S) \union {n+1}
  OBVIOUS
<1>2. n+1 \notin (1..n) \ S
  OBVIOUS
<1>3. IsFiniteSet((1..n) \ S)
  BY MessagesFinite
<1> QED BY <1>1, <1>2, <1>3, FS_AddElement

(* An acknowledged message leaves what is not in S.                        *)
LEMMA OneFewer ==
  ASSUME NEW n \in Nat, NEW S \in SUBSET (1..n), NEW m \in (1..n) \ S
  PROVE  /\ Cardinality((1..n) \ (S \union {m})) = Cardinality((1..n) \ S) - 1
         /\ Cardinality((1..n) \ S) >= 1
<1> DEFINE T == (1..n) \ S
<1>1. (1..n) \ (S \union {m}) = T \ {m} /\ m \in T
  OBVIOUS
<1>2. IsFiniteSet(T) /\ Cardinality(T) \in Nat
  BY MessagesFinite
<1> HIDE DEF T
<1>3. Cardinality(T \ {m}) = Cardinality(T) - 1
  BY <1>1, <1>2, FS_RemoveElement
<1>4. Cardinality(T) # 0
  BY <1>1, <1>2, FS_EmptySet
<1>5. Cardinality(T) >= 1
  BY <1>2, <1>4
<1> QED BY <1>1, <1>3, <1>5 DEF T

(* ReleaseRunningLock takes one off the count, not below zero, and holds   *)
(* the lock exactly while the count is positive.                           *)
LEMMA ReleaseCounts ==
  ASSUME Inv, ReleaseRunningLock
  PROVE  /\ count' \in Nat /\ held' \in BOOLEAN
         /\ HeldWhileCounted'
         /\ count > 0 => count' = count - 1
         /\ count = 0 => count' = 0
         /\ ~power => count' = 0
<1>1. /\ count \in Nat /\ held \in BOOLEAN
      /\ held <=> count > 0
      /\ ~power => count = 0
  BY DEF Inv, TypeOK, HeldWhileCounted, CountedWithPower
<1>2. CASE ~power
  BY <1>1, <1>2 DEF ReleaseRunningLock, lockVars, HeldWhileCounted
<1>3. CASE power /\ count > 1
  BY <1>1, <1>3 DEF ReleaseRunningLock, HeldWhileCounted
<1>4. CASE power /\ ~(count > 1)
  <2>1. count' = 0 /\ held' = FALSE
    BY <1>4 DEF ReleaseRunningLock
  <2>2. count > 0 => count' = count - 1
    BY <1>1, <1>4, <2>1
  <2>3. ~(count' > 0)
    BY <2>1
  <2>4. HeldWhileCounted'
    BY <2>1, <2>3 DEF HeldWhileCounted
  <2> QED BY <1>4, <2>1, <2>2, <2>4
<1> QED BY <1>2, <1>3, <1>4

-----------------------------------------------------------------------------
(* One lemma per action. *)

LEMMA InitInv == Init => Inv
<1> SUFFICES ASSUME Init PROVE Inv
  OBVIOUS
<1>1. Messages = {} /\ Sharing = {}
  BY DEF Init, Messages, Sharing
<1>2. TypeOK
  <2>1. timers \in Seq(Nat) /\ due \in Seq(Nat)
    BY DEF Init
  <2>2. acked \in SUBSET Messages /\ released \in SUBSET Messages
    BY DEF Init
  <2> QED BY <2>1, <2>2 DEF Init, TypeOK
<1>3. HeldWhileCounted /\ CountedWithPower /\ TimersInOrder
  BY DEF Init, HeldWhileCounted, CountedWithPower, TimersInOrder
<1>4. FreeWhenAllAcked /\ CountsTheSharing
  BY <1>1, FS_EmptySet DEF Init, FreeWhenAllAcked, CountsTheSharing
<1> QED BY <1>2, <1>3, <1>4 DEF Inv

LEMMA SendLockedKeepsInv == Inv /\ SendLocked => Inv'
<1> SUFFICES ASSUME Inv, SendLocked PROVE Inv'
  OBVIOUS
<1>1. /\ serial \in Nat /\ serial' = serial + 1
      /\ count \in Nat /\ count' = count + 1
      /\ acked \in SUBSET Messages /\ released \in SUBSET Messages
      /\ timers \in Seq(Nat) /\ due \in Seq(Nat)
      /\ UNCHANGED <<power, due, acked, released, stray>>
  BY DEF Inv, TypeOK, SendLocked, historyVars
<1>2. Messages \subseteq Messages' /\ serial + 1 \in Messages'
  BY <1>1 DEF Messages
<1>3. timers' = timers \/ timers' = Append(timers, serial + 1)
  BY DEF SendLocked, SetTimer
<1>4. TypeOK'
  <2>1. timers' \in Seq(Nat) /\ held' \in BOOLEAN
    BY <1>1, <1>3 DEF SendLocked, Inv, TypeOK
  <2> QED BY <1>1, <1>2, <2>1 DEF Inv, TypeOK, SendLocked, historyVars
<1>5. HeldWhileCounted' /\ CountedWithPower'
  <2>1. count > 0 <=> held
    BY DEF Inv, HeldWhileCounted
  <2>2. count' > 0
    BY <1>1
  <2>3. count > 0 \/ count = 0
    BY <1>1
  <2>4. held'
    BY <2>1, <2>3 DEF SendLocked
  <2> QED BY <1>1, <2>2, <2>4
          DEF HeldWhileCounted, CountedWithPower, SendLocked
<1>6. FreeWhenAllAcked'
  <2>1. Cardinality(Messages' \ acked) = Cardinality(Messages \ acked) + 1
    BY <1>1, NewMessage DEF Messages
  <2>2. Cardinality(Messages \ acked) \in Nat
    BY <1>1, MessagesFinite DEF Messages
  <2> QED BY <1>1, <2>1, <2>2 DEF Inv, FreeWhenAllAcked
<1>7. CountsTheSharing'
  <2>1. Cardinality(Sharing') = Cardinality(Sharing) + 1
    BY <1>1, NewMessage DEF Messages, Sharing
  <2> QED BY <1>1, <2>1 DEF Inv, CountsTheSharing
<1>8. TimersInOrder'
  <2>1. CASE timers' = timers
    BY <1>1, <1>2, <2>1 DEF Inv, TimersInOrder
  <2>2. CASE timers' = Append(timers, serial + 1)
    <3>1. /\ DOMAIN timers' = 1..(Len(timers) + 1)
          /\ DOMAIN timers = 1..Len(timers)
          /\ timers'[Len(timers) + 1] = serial + 1
          /\ \A i \in DOMAIN timers : timers'[i] = timers[i]
      BY <1>1, <2>2
    <3>2. \A i \in DOMAIN timers : timers[i] < serial + 1
      BY <1>1 DEF Inv, TimersInOrder, Messages
    <3>3. serial + 1 \notin released
      BY <1>1 DEF Messages
    <3>4. \A j \in DOMAIN due : due[j] < serial + 1
      BY <1>1 DEF Inv, TimersInOrder, Messages
    <3>5. \A i \in DOMAIN timers' : timers'[i] \in Messages' \ released'
      BY <1>1, <1>2, <3>1, <3>3 DEF Inv, TimersInOrder
    <3>6. \A i, j \in DOMAIN timers' : i < j => timers'[i] < timers'[j]
      BY <1>1, <3>1, <3>2 DEF Inv, TimersInOrder
    <3>7. \A i \in DOMAIN timers', j \in DOMAIN due' : due'[j] < timers'[i]
      BY <1>1, <3>1, <3>4 DEF Inv, TimersInOrder
    <3>8. \A j \in DOMAIN due' : due'[j] <= serial'
      <4>1. \A j \in DOMAIN due : due[j] \in Nat /\ due[j] <= serial
        BY <1>1 DEF Inv, TimersInOrder
      <4> QED BY <1>1, <4>1
    <3> QED BY <3>5, <3>6, <3>7, <3>8 DEF TimersInOrder
  <2> QED BY <1>3, <2>1, <2>2
<1> QED BY <1>4, <1>5, <1>6, <1>7, <1>8 DEF Inv

LEMMA LoopKeepsInv == Inv /\ (EventLoop \/ RestartEventLoop) => Inv'
<1> SUFFICES ASSUME Inv, EventLoop \/ RestartEventLoop PROVE Inv'
  OBVIOUS
<1>1. UNCHANGED <<power, held, count, serial, due, bare, bareAcked, acked,
                  released, stray>>
  BY DEF EventLoop, RestartEventLoop, lockVars, timerVars, historyVars
<1>2. /\ timers' = timers \/ timers' = << >>
      /\ loopUp' \in BOOLEAN /\ restarts' \in Nat
  <2>1. loopUp \in BOOLEAN /\ restarts \in Nat
    BY DEF Inv, TypeOK
  <2>2. timers' = timers \/ timers' = << >>
    BY DEF EventLoop, RestartEventLoop, timerVars
  <2>3. loopUp' = loopUp \/ loopUp' = TRUE
    BY DEF EventLoop, RestartEventLoop
  <2>4. restarts' = restarts \/ restarts' = restarts + 1
    BY DEF EventLoop, RestartEventLoop
  <2>5. loopUp' \in BOOLEAN
    BY <2>1, <2>3
  <2>6. restarts' \in Nat
    BY <2>1, <2>4
  <2> QED BY <2>2, <2>5, <2>6
<1>3. TypeOK'
  <2>1. timers' \in Seq(Nat)
    <3>1. timers \in Seq(Nat) /\ << >> \in Seq(Nat)
      BY DEF Inv, TypeOK
    <3> QED BY <1>2, <3>1
  <2> QED BY <1>1, <1>2, <2>1 DEF Inv, TypeOK, Messages
<1>4. HeldWhileCounted' /\ FreeWhenAllAcked' /\ CountsTheSharing'
      /\ CountedWithPower'
  BY <1>1 DEF Inv, HeldWhileCounted, FreeWhenAllAcked, CountsTheSharing,
              CountedWithPower, Messages, Sharing
<1>5. TimersInOrder'
  BY <1>1, <1>2 DEF Inv, TimersInOrder, Messages
<1> QED BY <1>3, <1>4, <1>5 DEF Inv

LEMMA SendBareKeepsInv == Inv /\ SendBare => Inv'
<1> SUFFICES ASSUME Inv, SendBare PROVE Inv'
  OBVIOUS
<1>1. UNCHANGED <<held, count, serial, loopUp, timers, due, restarts,
                  bareAcked, acked, released, stray>>
  BY DEF SendBare, lockVars, timerVars
<1>2. ~power /\ power' \in BOOLEAN /\ bare' \in Nat
  BY DEF SendBare, Inv, TypeOK
<1>3. TypeOK'
  BY <1>1, <1>2 DEF Inv, TypeOK, Messages
<1>4. HeldWhileCounted' /\ FreeWhenAllAcked' /\ CountsTheSharing'
      /\ TimersInOrder'
  BY <1>1 DEF Inv, HeldWhileCounted, FreeWhenAllAcked, CountsTheSharing,
              TimersInOrder, Messages, Sharing
<1>5. CountedWithPower'
  BY <1>1, <1>2 DEF Inv, CountedWithPower
<1> QED BY <1>3, <1>4, <1>5 DEF Inv

LEMMA AckLockedKeepsInv ==
  ASSUME Inv, NEW n \in Messages, AckLocked(n)
  PROVE  Inv'
<1>1. /\ n \notin acked /\ acked' = acked \union {n}
      /\ stray' = (stray \/ n \in released)
      /\ ReleaseRunningLock
      /\ UNCHANGED <<power, serial, loopUp, timers, due, restarts, bare,
                     bareAcked, released>>
  BY DEF AckLocked, timerVars
<1>2. /\ serial \in Nat /\ count \in Nat
      /\ acked \in SUBSET Messages /\ released \in SUBSET Messages
  BY DEF Inv, TypeOK
<1>3. /\ count' \in Nat /\ held' \in BOOLEAN
      /\ HeldWhileCounted'
      /\ count > 0 => count' = count - 1
      /\ count = 0 => count' = 0
      /\ ~power => count' = 0
  BY <1>1, ReleaseCounts
<1>4. TypeOK'
  BY <1>1, <1>2, <1>3 DEF Inv, TypeOK, Messages
<1>5. FreeWhenAllAcked'
  <2>1. /\ Cardinality(Messages \ acked') = Cardinality(Messages \ acked) - 1
        /\ Cardinality(Messages \ acked) >= 1
    BY <1>1, <1>2, OneFewer DEF Messages
  <2>2. Cardinality(Messages \ acked) \in Nat
    BY <1>2, MessagesFinite DEF Messages
  <2>3. count <= Cardinality(Messages \ acked)
    BY DEF Inv, FreeWhenAllAcked
  <2>4. count' <= Cardinality(Messages \ acked')
    BY <1>2, <1>3, <2>1, <2>2, <2>3
  <2> QED BY <1>1, <2>4 DEF FreeWhenAllAcked, Messages
<1>6. CountsTheSharing'
  <2> SUFFICES ASSUME ~stray' PROVE count' = Cardinality(Sharing')
    BY DEF CountsTheSharing
  <2>1. ~stray /\ n \notin released
    BY <1>1
  <2> DEFINE S == acked \union released
  <2>2. S \in SUBSET (1..serial) /\ n \in (1..serial) \ S
    BY <1>1, <1>2, <2>1 DEF Messages
  <2>3. Sharing' = (1..serial) \ (S \union {n}) /\ Sharing = (1..serial) \ S
    BY <1>1 DEF Sharing, Messages
  <2> HIDE DEF S
  <2>4. /\ Cardinality(Sharing') = Cardinality(Sharing) - 1
        /\ Cardinality(Sharing) >= 1
    BY <1>2, <2>2, <2>3, OneFewer
  <2>5. count = Cardinality(Sharing)
    BY <2>1 DEF Inv, CountsTheSharing
  <2> QED BY <1>2, <1>3, <2>4, <2>5
<1>7. CountedWithPower' /\ TimersInOrder'
  BY <1>1, <1>3 DEF Inv, CountedWithPower, TimersInOrder, Messages
<1> QED BY <1>3, <1>4, <1>5, <1>6, <1>7 DEF Inv

LEMMA AckBareKeepsInv == Inv /\ AckBare => Inv'
<1> SUFFICES ASSUME Inv, AckBare PROVE Inv'
  OBVIOUS
<1>1. /\ stray' = (stray \/ power) /\ bareAcked' = bareAcked + 1
      /\ ReleaseRunningLock
      /\ UNCHANGED <<power, serial, loopUp, timers, due, restarts, bare,
                     acked, released>>
  BY DEF AckBare, timerVars
<1>2. /\ serial \in Nat /\ count \in Nat /\ power \in BOOLEAN
      /\ acked \in SUBSET Messages /\ bareAcked \in Nat
  BY DEF Inv, TypeOK
<1>3. /\ count' \in Nat /\ held' \in BOOLEAN
      /\ HeldWhileCounted'
      /\ count > 0 => count' = count - 1
      /\ count = 0 => count' = 0
      /\ ~power => count' = 0
  BY <1>1, ReleaseCounts
<1>4. TypeOK'
  BY <1>1, <1>2, <1>3 DEF Inv, TypeOK, Messages
<1>5. FreeWhenAllAcked'
  <2>1. Cardinality(Messages \ acked) \in Nat
    BY <1>2, MessagesFinite DEF Messages
  <2>2. count' <= Cardinality(Messages \ acked)
    BY <1>2, <1>3, <2>1 DEF Inv, FreeWhenAllAcked
  <2> QED BY <1>1, <2>2 DEF FreeWhenAllAcked, Messages
<1>6. CountsTheSharing'
  <2> SUFFICES ASSUME ~stray' PROVE count' = Cardinality(Sharing')
    BY DEF CountsTheSharing
  <2>1. ~stray /\ ~power
    BY <1>1
  <2>2. count = 0 /\ count' = 0
    BY <1>3, <2>1 DEF Inv, CountedWithPower
  <2>3. count = Cardinality(Sharing) /\ Sharing' = Sharing
    BY <1>1, <2>1 DEF Inv, CountsTheSharing, Sharing, Messages
  <2> QED BY <2>2, <2>3
<1>7. CountedWithPower' /\ TimersInOrder'
  BY <1>1, <1>3 DEF Inv, CountedWithPower, TimersInOrder, Messages
<1> QED BY <1>3, <1>4, <1>5, <1>6, <1>7 DEF Inv

LEMMA ProcessTimerListKeepsInv == Inv /\ ProcessTimerList => Inv'
<1> SUFFICES ASSUME Inv, ProcessTimerList PROVE Inv'
  OBVIOUS
<1>1. /\ timers # << >> /\ timers' = Tail(timers)
      /\ due' = Append(due, Head(timers))
      /\ UNCHANGED <<power, held, count, serial, loopUp, restarts, bare,
                     bareAcked, acked, released, stray>>
  BY DEF ProcessTimerList, lockVars, historyVars
<1>2. timers \in Seq(Nat) /\ due \in Seq(Nat)
  BY DEF Inv, TypeOK
<1>3. TypeOK'
  <2>1. timers' \in Seq(Nat) /\ due' \in Seq(Nat)
    BY <1>1, <1>2
  <2> QED BY <1>1, <2>1 DEF Inv, TypeOK, Messages
<1>4. HeldWhileCounted' /\ FreeWhenAllAcked' /\ CountsTheSharing'
      /\ CountedWithPower'
  BY <1>1 DEF Inv, HeldWhileCounted, FreeWhenAllAcked, CountsTheSharing,
              CountedWithPower, Messages, Sharing
<1>5. TimersInOrder'
  <2>1. /\ Len(timers) \in Nat /\ Len(timers) >= 1
        /\ DOMAIN timers = 1..Len(timers)
        /\ DOMAIN timers' = 1..(Len(timers) - 1)
        /\ \A i \in DOMAIN timers' : timers'[i] = timers[i + 1]
        /\ Head(timers) = timers[1]
    BY <1>1, <1>2
  <2>2. /\ DOMAIN due' = 1..(Len(due) + 1) /\ DOMAIN due = 1..Len(due)
        /\ \A j \in DOMAIN due : due'[j] = due[j]
        /\ due'[Len(due) + 1] = timers[1]
        /\ Len(due) \in Nat
    BY <1>1, <1>2, <2>1
  <2>3. \A i \in DOMAIN timers' : i + 1 \in DOMAIN timers /\ 1 < i + 1
    BY <2>1
  <2>4. 1 \in DOMAIN timers
    BY <2>1
  <2>5. \A i \in DOMAIN timers' : timers'[i] \in Messages' \ released'
    BY <1>1, <2>1, <2>3 DEF Inv, TimersInOrder, Messages
  <2>6. \A i, j \in DOMAIN timers' : i < j => timers'[i] < timers'[j]
    <3> SUFFICES ASSUME NEW i \in DOMAIN timers', NEW j \in DOMAIN timers',
                        i < j
                 PROVE  timers[i + 1] < timers[j + 1]
      BY <2>1
    <3>1. i + 1 < j + 1
      BY <2>1
    <3> QED BY <2>3, <3>1 DEF Inv, TimersInOrder
  <2>7. \A i \in DOMAIN timers', j \in DOMAIN due' : due'[j] < timers'[i]
    <3> SUFFICES ASSUME NEW i \in DOMAIN timers', NEW j \in DOMAIN due'
                 PROVE  due'[j] < timers[i + 1]
      BY <2>1
    <3>1. CASE j \in DOMAIN due
      BY <2>2, <2>3, <3>1 DEF Inv, TimersInOrder
    <3>2. CASE j = Len(due) + 1
      BY <2>2, <2>3, <2>4, <3>2 DEF Inv, TimersInOrder
    <3> QED BY <2>2, <3>1, <3>2
  <2>8. \A j \in DOMAIN due' : due'[j] <= serial'
    <3>1. \A j \in DOMAIN due : due[j] <= serial
      BY DEF Inv, TimersInOrder
    <3>2. timers[1] <= serial
      BY <2>4 DEF Inv, TimersInOrder, TypeOK, Messages
    <3> QED BY <1>1, <2>2, <3>1, <3>2
  <2> QED BY <2>5, <2>6, <2>7, <2>8 DEF TimersInOrder
<1> QED BY <1>3, <1>4, <1>5 DEF Inv

LEMMA CallbackKeepsInv == Inv /\ RunningLockCallback => Inv'
<1> SUFFICES ASSUME Inv, RunningLockCallback PROVE Inv'
  OBVIOUS
<1>1. /\ due # << >> /\ due' = Tail(due)
      /\ UNCHANGED <<power, serial, loopUp, timers, restarts, bare,
                     bareAcked, acked, stray>>
  BY DEF RunningLockCallback
<1>2. /\ timers \in Seq(Nat) /\ due \in Seq(Nat) /\ serial \in Nat
      /\ Messages' = Messages
  BY <1>1 DEF Inv, TypeOK, Messages
<1>3. /\ DOMAIN due' = 1..(Len(due) - 1) /\ DOMAIN due = 1..Len(due)
      /\ Len(due) \in Nat /\ Len(due) >= 1
      /\ \A j \in DOMAIN due' : due'[j] = due[j + 1] /\ j + 1 \in DOMAIN due
      /\ Head(due) = due[1] /\ 1 \in DOMAIN due
      /\ due' \in Seq(Nat)
  BY <1>1, <1>2
<1>4. /\ \A i \in DOMAIN timers', j \in DOMAIN due' : due'[j] < timers'[i]
      /\ \A j \in DOMAIN due' : due'[j] <= serial'
  BY <1>1, <1>3 DEF Inv, TimersInOrder
<1>5. CASE ~LetsGo(Head(due))
  <2>1. UNCHANGED <<held, count, released>>
    BY <1>5 DEF RunningLockCallback, lockVars
  <2>2. TypeOK'
    BY <1>1, <1>2, <1>3, <2>1 DEF Inv, TypeOK
  <2>3. HeldWhileCounted' /\ FreeWhenAllAcked' /\ CountsTheSharing'
        /\ CountedWithPower'
    BY <1>1, <1>2, <2>1 DEF Inv, HeldWhileCounted, FreeWhenAllAcked,
                            CountsTheSharing, CountedWithPower, Sharing
  <2>4. TimersInOrder'
    BY <1>1, <1>2, <1>4, <2>1 DEF Inv, TimersInOrder
  <2> QED BY <2>2, <2>3, <2>4 DEF Inv
<1>6. CASE LetsGo(Head(due))
  <2>1. count' = 0 /\ held' = FALSE /\ released' = Messages
    BY <1>6 DEF RunningLockCallback
  <2>2. TypeOK'
    BY <1>1, <1>2, <1>3, <2>1 DEF Inv, TypeOK
  <2>3. HeldWhileCounted' /\ CountedWithPower'
    <3>1. ~(count' > 0)
      BY <2>1
    <3> QED BY <1>1, <2>1, <3>1
            DEF Inv, HeldWhileCounted, CountedWithPower
  <2>4. FreeWhenAllAcked'
    <3>1. acked \in SUBSET Messages
      BY DEF Inv, TypeOK
    <3>2. Cardinality(Messages \ acked) \in Nat
      BY <1>2, <3>1, MessagesFinite DEF Messages
    <3> QED BY <1>1, <1>2, <2>1, <3>2 DEF FreeWhenAllAcked
  <2>5. CountsTheSharing'
    <3>1. Sharing' = {}
      BY <1>1, <1>2, <2>1 DEF Sharing
    <3> QED BY <2>1, <3>1, FS_EmptySet DEF CountsTheSharing
  <2>6. TimersInOrder'
    <3>1. \A i \in DOMAIN timers : due[1] < timers[i] /\ timers[i] \in 1..serial
      BY <1>3 DEF Inv, TimersInOrder, Messages
    <3>2. due[1] = serial
      BY <1>3, <1>6 DEF LetsGo
    <3>3. DOMAIN timers = {}
      BY <1>2, <3>1, <3>2
    <3> QED BY <1>1, <1>4, <3>3 DEF TimersInOrder
  <2> QED BY <2>2, <2>3, <2>4, <2>5, <2>6 DEF Inv
<1> QED BY <1>5, <1>6

LEMMA StepKeepsInv == Inv /\ [Next]_vars => Inv'
<1> SUFFICES ASSUME Inv, [Next]_vars PROVE Inv'
  OBVIOUS
<1>1. CASE UNCHANGED vars
  BY <1>1 DEF Inv, TypeOK, HeldWhileCounted, FreeWhenAllAcked,
              CountsTheSharing, CountedWithPower, TimersInOrder, Messages,
              Sharing, vars, lockVars, timerVars, historyVars
<1> QED
  BY <1>1, LoopKeepsInv, SendLockedKeepsInv, SendBareKeepsInv,
     AckLockedKeepsInv, AckBareKeepsInv, ProcessTimerListKeepsInv,
     CallbackKeepsInv DEF Next

-----------------------------------------------------------------------------
LEMMA SpecInv == Spec => []Inv
BY InitInv, StepKeepsInv, PTL DEF Spec

(* Every variable of the running lock keeps its type; in particular the    *)
(* count of ReleaseRunningLock never goes below zero.                      *)
THEOREM LockTypes == Spec => []TypeOK
<1>1. Inv => TypeOK
  BY DEF Inv
<1> QED BY <1>1, SpecInv, PTL

(* The process holds the lock of the power service exactly while           *)
(* runningLockCount_ is positive.                                          *)
THEOREM LockFollowsCount == Spec => []HeldWhileCounted
<1>1. Inv => HeldWhileCounted
  BY DEF Inv
<1> QED BY <1>1, SpecInv, PTL

(* The count never exceeds the number of messages still unacknowledged, so *)
(* that the last acknowledgement frees the lock.                           *)
THEOREM LastAckFreesLock == Spec => []FreeWhenAllAcked
<1>1. Inv => FreeWhenAllAcked
  BY DEF Inv
<1> QED BY <1>1, SpecInv, PTL

(* Without stray acknowledgements the count is the number of messages that *)
(* share in the lock, for any number of messages and timers.               *)
THEOREM CountIsExact == Spec => []CountsTheSharing
<1>1. Inv => CountsTheSharing
  BY DEF Inv
<1> QED BY <1>1, SpecInv, PTL

(* Without stray acknowledgements a message whose 200 ms are running is    *)
(* protected: its timer is not among those that were let go, so it shares  *)
(* in the lock, so the count is positive and the lock is held.             *)
THEOREM FreshIsProtected == Spec => []FreshProtectedUnlessStray
<1>1. Inv => FreshProtectedUnlessStray
  <2> SUFFICES ASSUME Inv, NEW n \in Fresh, ~stray PROVE held
    BY DEF FreshProtectedUnlessStray
  <2>1. n \in Sharing
    BY DEF Fresh, Sharing, Inv, TimersInOrder
  <2>2. IsFiniteSet(Sharing) /\ Cardinality(Sharing) \in Nat
    <3>1. serial \in Nat /\ Sharing \in SUBSET (1..serial)
      BY DEF Inv, TypeOK, Sharing, Messages
    <3> QED BY <3>1, MessagesFinite
  <2>3. Cardinality(Sharing) # 0
    BY <2>1, <2>2, FS_EmptySet
  <2>4. count > 0
    BY <2>2, <2>3 DEF Inv, CountsTheSharing
  <2> QED BY <2>4 DEF Inv, HeldWhileCounted
<1> QED BY <1>1, SpecInv, PTL

-----------------------------------------------------------------------------
(* The timer that gives the lock back.  What ArmedLockIsReleased needs of  *)
(* the steps, without fairness.                                            *)

(* The timer of the newest message runs, or has run out and its callback   *)
(* is still to be called.                                                  *)
Armed == \/ \E i \in DOMAIN timers : timers[i] = serial
         \/ \E j \in DOMAIN due : due[j] = serial

(* There are no timers before the event loop has started.                  *)
TimersNeedLoop == ~loopUp => timers = << >> /\ due = << >>

(* A lock with a timer that will give it back keeps one: a newer message   *)
(* brings its own (SendLocked), the timer goes on to pendingList_, and its *)
(* callback frees the lock.  The timers of older messages, which do        *)
(* nothing, are never all that is left, unless the event loop starts       *)
(* again without them.                                                     *)
ArmedUntilReleased ==
  [][held /\ Armed => Armed' \/ ~held' \/ restarts' > restarts]_vars

LEMMA StepKeepsTimersNeedLoop ==
  Inv /\ TimersNeedLoop /\ [Next]_vars => TimersNeedLoop'
BY DEF TimersNeedLoop, Next, EventLoop, RestartEventLoop, SendLocked,
       SetTimer, SendBare, AckLocked, AckBare, ProcessTimerList,
       RunningLockCallback, vars, timerVars

LEMMA StepKeepsArmed ==
  ASSUME Inv, TimersNeedLoop, [Next]_vars, held, Armed, held',
         restarts' = restarts
  PROVE  Armed'
<1>1. /\ timers \in Seq(Nat) /\ due \in Seq(Nat) /\ serial \in Nat
      /\ loopUp /\ power
  BY DEF Inv, TypeOK, Armed, TimersNeedLoop, HeldWhileCounted,
         CountedWithPower
<1>2. CASE SendLocked
  <2>1. timers' = Append(timers, serial + 1) /\ serial' = serial + 1
    BY <1>1, <1>2 DEF SendLocked, SetTimer
  <2>2. /\ Len(timers) + 1 \in DOMAIN timers'
        /\ timers'[Len(timers) + 1] = serial'
    BY <1>1, <2>1
  <2> QED BY <2>2 DEF Armed
<1>3. CASE ProcessTimerList
  <2>1. /\ serial' = serial /\ timers # << >>
        /\ timers' = Tail(timers) /\ due' = Append(due, Head(timers))
    BY <1>3 DEF ProcessTimerList
  <2>2. ASSUME NEW i \in DOMAIN timers, timers[i] = serial
        PROVE  Armed'
    <3>1. CASE i = 1
      <4>1. /\ Len(due) + 1 \in DOMAIN due'
            /\ due'[Len(due) + 1] = serial'
        BY <1>1, <2>1, <2>2, <3>1
      <4> QED BY <4>1 DEF Armed
    <3>2. CASE i # 1
      <4>1. i - 1 \in DOMAIN timers' /\ timers'[i - 1] = serial'
        BY <1>1, <2>1, <2>2, <3>2
      <4> QED BY <4>1 DEF Armed
    <3> QED BY <3>1, <3>2
  <2>3. ASSUME NEW j \in DOMAIN due, due[j] = serial
        PROVE  Armed'
    <3>1. Head(timers) \in Nat
      BY <1>1, <2>1
    <3>2. j \in DOMAIN due' /\ due'[j] = serial'
      BY <1>1, <2>1, <2>3, <3>1
    <3> QED BY <3>2 DEF Armed
  <2> QED BY <2>2, <2>3 DEF Armed
<1>4. CASE RunningLockCallback
  <2>1. /\ due # << >> /\ due' = Tail(due) /\ due[1] # serial
        /\ serial' = serial /\ timers' = timers
    BY <1>1, <1>4 DEF RunningLockCallback, LetsGo
  <2>2. ASSUME NEW j \in DOMAIN due, due[j] = serial
        PROVE  Armed'
    <3>1. j - 1 \in DOMAIN due' /\ due'[j - 1] = serial'
      BY <1>1, <2>1, <2>2
    <3> QED BY <3>1 DEF Armed
  <2> QED BY <2>1, <2>2 DEF Armed
<1>5. CASE RestartEventLoop
  BY <1>5 DEF RestartEventLoop, Inv, TypeOK
<1>6. CASE \/ EventLoop \/ SendBare \/ AckBare
           \/ \E n \in Messages : AckLocked(n)
           \/ UNCHANGED vars
  BY <1>6 DEF EventLoop, SendBare, AckBare, AckLocked, Armed, vars, timerVars
<1> QED BY <1>2, <1>3, <1>4, <1>5, <1>6 DEF Next

(* For any number of messages and timers: once a timer was to end it, the  *)
(* lock is never left to acknowledgements alone, which the upper layer may *)
(* fail to send, but by a restart of the event loop.                       *)
THEOREM LockKeepsItsTimer == Spec => ArmedUntilReleased
<1>1. Init => TimersNeedLoop
  BY DEF Init, TimersNeedLoop
<1>2. Spec => []TimersNeedLoop
  BY <1>1, SpecInv, StepKeepsTimersNeedLoop, PTL DEF Spec
<1>3. Inv /\ TimersNeedLoop /\ [Next]_vars =>
        [held /\ Armed => Armed' \/ ~held' \/ restarts' > restarts]_vars
  <2>1. Inv /\ [Next]_vars => restarts' = restarts \/ restarts' > restarts
    BY DEF Next, EventLoop, RestartEventLoop, SendLocked, SendBare, AckLocked,
           AckBare, ProcessTimerList, RunningLockCallback, vars, Inv, TypeOK
  <2> QED BY <2>1, StepKeepsArmed
<1> QED BY <1>2, <1>3, SpecInv, PTL DEF Spec, ArmedUntilReleased
=============================================================================
