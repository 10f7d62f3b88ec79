-------------------------- MODULE EventLoopProofs --------------------------
(***************************************************************************)
(* Proofs about EventLoop, for any threads, delays and bounds: the loop    *)
(* never sleeps over a timer or an order to stop, its lists stay in order, *)
(* and it implements TimerService.                                         *)
(***************************************************************************)
EXTENDS EventLoop, SequenceTheorems, TLAPS

Running == {"next", "select", "timers", "events", "run", "callback"}
Places  == {"off", "boot", "start", "init", "pipe", "listen", "again", "over"}
             \union Running

(* TypeOK without the order of the timers.                                 *)
Lists == timers \in Seq(Timer) /\ pending \in Seq(Timer \union {Trigger})

Scalars ==
  /\ now \in 0..MaxTime /\ event \in 0..MaxStarts /\ piped \in 0..event
  /\ loop \in Places
  /\ listening \in BOOLEAN /\ destroy \in BOOLEAN
  /\ bytes \in BOOLEAN /\ ready \in BOOLEAN /\ until \in 0..Forever
  /\ setter \in [Setters -> [at : {"idle", "add", "trigger"},
                             event : 0..MaxStarts]]
  /\ count \in 0..MaxTimers
  /\ manager \in {"up", "order", "trigger", "join", "gone", "terminated"}
  /\ lapses \subseteq {"order lost", "freed", "unheard", "drained"}

Types == Lists /\ Scalars

(* Which start has made what, and where there is none yet.                 *)
Starts ==
  /\ loop \in {"off", "boot"} => event = 0
  /\ loop \in {"start", "again"} => event < MaxStarts
  /\ loop \in {"init", "pipe"} => piped # event
  /\ loop \in {"listen"} \union Running => piped = event /\ event # 0
  /\ loop \in Running => listening
  /\ manager \in {"order", "trigger", "join"} => event # 0

(* The one is called back before the other.                                *)
Precedes(t, u) == t.due < u.due \/ (t.due = u.due /\ t.id < u.id)

TimersInOrder ==
  /\ \A i, j \in 1..Len(timers) : i < j => Precedes(timers[i], timers[j])
  /\ \A i \in 1..Len(timers) : timers[i].id <= count

(* What is being called back was due before the clock's time and before    *)
(* what is listed.                                                         *)
PendingInOrder ==
  /\ loop \notin {"events", "run", "callback"} => pending = <<>>
  /\ \A i \in 1..Len(pending) : pending[i] # Trigger =>
       /\ pending[i].due < now
       /\ \A j \in 1..Len(timers) : pending[i].due < timers[j].due
       /\ \A j \in 1..Len(pending) :
            i < j /\ pending[j] # Trigger => Precedes(pending[i], pending[j])

(* Whoever sets a timer that is due before the loop wakes up has the byte  *)
(* still to write.                                                         *)
TimersAwaken ==
  loop = "select" /\ ~Readable /\ ~Expired /\ timers # <<>>
    => (Head(timers).due < until
          => \E s \in Setters : setter[s].at = "trigger")

(* An order to stop is in the pipe of this start, or on its way, or lost.  *)
OrderArrives ==
  destroy =>
    /\ event # 0
    /\ \/ manager = "trigger"
       \/ piped = event /\ bytes
       \/ lapses \intersect {"unheard", "drained"} # {}

Inv == /\ Types /\ Starts /\ TimersInOrder /\ PendingInOrder
       /\ TimersAwaken /\ OrderArrives

-----------------------------------------------------------------------------
(* Lemmas about lists. *)

(* A list cut in two after its first n.                                    *)
LEMMA Cut ==
  ASSUME NEW S, NEW q \in Seq(S), NEW n \in 0..Len(q)
  PROVE  /\ SubSeq(q, 1, n) \in Seq(S) /\ Len(SubSeq(q, 1, n)) = n
         /\ \A i \in 1..n : SubSeq(q, 1, n)[i] = q[i]
         /\ SubSeq(q, n + 1, Len(q)) \in Seq(S)
         /\ Len(SubSeq(q, n + 1, Len(q))) = Len(q) - n
         /\ \A i \in 1..(Len(q) - n) :
              SubSeq(q, n + 1, Len(q))[i] = q[n + i]
OBVIOUS

(* An element put behind the first n.                                      *)
Inserting(q, n, t) == SubSeq(q, 1, n) \o <<t>> \o SubSeq(q, n + 1, Len(q))

LEMMA Inserted ==
  ASSUME NEW q \in Seq(Timer), NEW n \in 0..Len(q), NEW t \in Timer
  PROVE  /\ Inserting(q, n, t) \in Seq(Timer)
         /\ Len(Inserting(q, n, t)) = Len(q) + 1
         /\ \A i \in 1..n : Inserting(q, n, t)[i] = q[i]
         /\ Inserting(q, n, t)[n + 1] = t
         /\ \A i \in (n + 2)..(Len(q) + 1) :
              Inserting(q, n, t)[i] = q[i - 1]
<1> DEFINE a == SubSeq(q, 1, n)
           b == SubSeq(q, n + 1, Len(q))
           c == a \o <<t>>
           r == c \o b
<1>1. /\ a \in Seq(Timer) /\ Len(a) = n /\ \A i \in 1..n : a[i] = q[i]
      /\ b \in Seq(Timer) /\ Len(b) = Len(q) - n
      /\ \A i \in 1..(Len(q) - n) : b[i] = q[n + i]
      /\ Len(q) \in Nat /\ n \in Nat /\ n <= Len(q)
  BY Cut
<1> HIDE DEF a, b
<1>2. /\ c \in Seq(Timer) /\ Len(c) = n + 1
      /\ \A i \in 1..n : c[i] = a[i]
      /\ c[n + 1] = t
  BY <1>1
<1> HIDE DEF c
<1>3. /\ r \in Seq(Timer) /\ Len(r) = Len(c) + Len(b)
      /\ \A i \in 1..(Len(c) + Len(b)) :
           r[i] = IF i <= Len(c) THEN c[i] ELSE b[i - Len(c)]
  <2>1. c \in Seq(Timer) /\ b \in Seq(Timer)
    BY <1>1, <1>2
  <2> QED BY <2>1, ConcatProperties, Zenon
<1> HIDE DEF r
<1>4. /\ Len(r) = Len(q) + 1
      /\ \A i \in 1..(n + 1) : r[i] = c[i]
      /\ \A i \in (n + 2)..(Len(q) + 1) : r[i] = b[i - (n + 1)]
  <2>1. /\ Len(c) + Len(b) = Len(q) + 1 /\ Len(c) = n + 1
        /\ n + 1 <= Len(q) + 1
    BY <1>1, <1>2
  <2>2. /\ Len(r) = Len(q) + 1
        /\ \A i \in 1..(Len(q) + 1) :
             r[i] = IF i <= n + 1 THEN c[i] ELSE b[i - (n + 1)]
    BY <1>3, <2>1
  <2>3. /\ \A i \in 1..(n + 1) : i \in 1..(Len(q) + 1) /\ i <= n + 1
        /\ \A i \in (n + 2)..(Len(q) + 1) :
             i \in 1..(Len(q) + 1) /\ ~(i <= n + 1)
    BY <1>1
  <2> QED BY <2>2, <2>3
<1>5. \A i \in (n + 2)..(Len(q) + 1) : r[i] = q[i - 1]
  <2> TAKE i \in (n + 2)..(Len(q) + 1)
  <2>1. i - (n + 1) \in 1..(Len(q) - n) /\ n + (i - (n + 1)) = i - 1
    BY <1>1
  <2>2. r[i] = b[i - (n + 1)]
    BY <1>4
  <2> QED BY <1>1, <2>1, <2>2
<1>6. r[n + 1] = t /\ \A i \in 1..n : r[i] = q[i]
  BY <1>1, <1>2, <1>4
<1>7. Inserting(q, n, t) = r
  BY DEF Inserting, a, b, c, r
<1> QED BY <1>3, <1>4, <1>5, <1>6, <1>7

(* A list without its head.                                                *)
LEMMA Beheaded ==
  ASSUME NEW S, NEW q \in Seq(S), q # <<>>
  PROVE  /\ Tail(q) \in Seq(S) /\ Len(Tail(q)) = Len(q) - 1
         /\ Head(q) = q[1] /\ q[1] \in S /\ Len(q) \in Nat /\ Len(q) >= 1
         /\ \A i \in 1..(Len(q) - 1) : Tail(q)[i] = q[i + 1]
OBVIOUS

-----------------------------------------------------------------------------
(* What the operations make of the lists.                                  *)

LEMMA TimerIsNoTrigger == \A t \in Timer : t # Trigger /\ t.id \in Nat /\ t.due \in Nat
BY BoundAssumption DEF Timer, Trigger

(* A timer has been put behind the first n.                                *)
Put(t, n) ==
  /\ t.id = count + 1 /\ t.due >= now
  /\ timers' \in Seq(Timer) /\ Len(timers') = Len(timers) + 1
  /\ \A i \in 1..n : timers'[i] = timers[i] /\ timers[i].due <= t.due
  /\ timers'[n + 1] = t
  /\ \A i \in (n + 2)..(Len(timers) + 1) :
       timers'[i] = timers[i - 1] /\ timers[i - 1].due > t.due

LEMMA AddTimerPuts ==
  ASSUME Types, TimersInOrder, AddTimer
  PROVE  /\ count' = count + 1 /\ count' \in 0..MaxTimers
         /\ \E t \in Timer, n \in 0..Len(timers) : Put(t, n)
<1>1. /\ count' = count + 1 /\ count' \in 1..MaxTimers
      /\ now \in Nat /\ count \in Nat /\ timers \in Seq(Timer)
  <2>1. now \in 0..MaxTime /\ count \in 0..MaxTimers /\ timers \in Seq(Timer)
    BY DEF Types, Scalars, Lists
  <2>2. count < MaxTimers /\ count' = count + 1
    BY DEF AddTimer
  <2> QED BY <2>1, <2>2, BoundAssumption
<1>2. PICK d \in Delays : /\ now + d < MaxTime
                          /\ InsertTimer([id |-> count', due |-> now + d])
  BY DEF AddTimer
<1>3. d \in Nat
  BY BoundAssumption
<1> DEFINE t == [id |-> count', due |-> now + d]
<1>4. t \in Timer /\ t.id = count + 1 /\ t.due >= now
  BY <1>1, <1>2, <1>3, BoundAssumption DEF Timer
<1>5. PICK n \in 0..Len(timers) :
        /\ \A i \in 1..n : timers[i].due <= t.due
        /\ n < Len(timers) => timers[n + 1].due > t.due
        /\ timers' = SubSeq(timers, 1, n) \o <<t>>
                       \o SubSeq(timers, n + 1, Len(timers))
  BY <1>2 DEF InsertTimer
<1> HIDE DEF t
<1>6. /\ timers' \in Seq(Timer) /\ Len(timers') = Len(timers) + 1
      /\ \A i \in 1..n : timers'[i] = timers[i]
      /\ timers'[n + 1] = t
      /\ \A i \in (n + 2)..(Len(timers) + 1) : timers'[i] = timers[i - 1]
  <2>1. timers \in Seq(Timer) /\ t \in Timer /\ n \in 0..Len(timers)
    BY <1>1, <1>4, <1>5
  <2>2. timers' = Inserting(timers, n, t)
    BY <1>5 DEF Inserting
  <2>3. \A u \in Timer :
          /\ Inserting(timers, n, u) \in Seq(Timer)
          /\ Len(Inserting(timers, n, u)) = Len(timers) + 1
          /\ \A i \in 1..n : Inserting(timers, n, u)[i] = timers[i]
          /\ Inserting(timers, n, u)[n + 1] = u
          /\ \A i \in (n + 2)..(Len(timers) + 1) :
               Inserting(timers, n, u)[i] = timers[i - 1]
    BY <2>1, Inserted
  <2> QED BY <2>1, <2>2, <2>3
<1>7. \A i \in (n + 2)..(Len(timers) + 1) : timers[i - 1].due > t.due
  <2> TAKE i \in (n + 2)..(Len(timers) + 1)
  <2>1. /\ Len(timers) \in Nat
        /\ \A j \in 1..Len(timers) : timers[j] \in Timer
    BY <1>1
  <2>2. /\ i - 1 \in 1..Len(timers) /\ n + 1 \in 1..Len(timers)
        /\ i - 1 = n + 1 \/ n + 1 < i - 1
    BY <2>1
  <2>3. timers[n + 1].due > t.due
    BY <1>5, <2>1, <2>2
  <2>4. i - 1 = n + 1 \/ Precedes(timers[n + 1], timers[i - 1])
    BY <2>2 DEF TimersInOrder
  <2>5. /\ timers[n + 1].due \in Nat /\ timers[i - 1].due \in Nat
        /\ t.due \in Nat
    BY <1>4, <2>1, <2>2, TimerIsNoTrigger
  <2> QED BY <2>3, <2>4, <2>5 DEF Precedes
<1>8. Put(t, n)
  BY <1>4, <1>5, <1>6, <1>7 DEF Put
<1> QED BY <1>1, <1>4, <1>8

(* The first n have gone to the pending list.                              *)
Moved(n) ==
  /\ pending' \in Seq(Timer) /\ Len(pending') = n
  /\ \A i \in 1..n : pending'[i] = timers[i] /\ timers[i].due < now
  /\ timers' \in Seq(Timer) /\ Len(timers') = Len(timers) - n
  /\ \A i \in 1..(Len(timers) - n) :
       timers'[i] = timers[n + i] /\ timers[n + i].due >= now

LEMMA DueTimersMove ==
  ASSUME Types, TimersInOrder, PendingInOrder, ProcessTimerList
  PROVE  \E n \in 0..Len(timers) : Moved(n)
<1>1. /\ timers \in Seq(Timer) /\ pending = <<>> /\ Len(timers) \in Nat
      /\ now \in Nat
      /\ \A i \in 1..Len(timers) : timers[i] \in Timer /\ timers[i].due \in Nat
  <2>1. timers \in Seq(Timer) /\ pending = <<>> /\ now \in Nat
    <3>1. loop = "timers"
      BY DEF ProcessTimerList
    <3>2. now \in 0..MaxTime /\ timers \in Seq(Timer)
      BY DEF Types, Scalars, Lists
    <3> QED BY <3>1, <3>2 DEF PendingInOrder
  <2>2. \A i \in 1..Len(timers) : timers[i] \in Timer
    BY <2>1
  <2> QED BY <2>1, <2>2, TimerIsNoTrigger
<1>2. PICK n \in 0..Len(timers) :
        /\ \A i \in 1..n : IsDue(timers[i])
        /\ n < Len(timers) => ~IsDue(timers[n + 1])
        /\ pending' = pending \o SubSeq(timers, 1, n)
        /\ timers' = SubSeq(timers, n + 1, Len(timers))
  BY DEF ProcessTimerList
<1>3. /\ SubSeq(timers, 1, n) \in Seq(Timer) /\ Len(SubSeq(timers, 1, n)) = n
      /\ \A i \in 1..n : SubSeq(timers, 1, n)[i] = timers[i]
      /\ timers' \in Seq(Timer) /\ Len(timers') = Len(timers) - n
      /\ \A i \in 1..(Len(timers) - n) : timers'[i] = timers[n + i]
  BY <1>1, <1>2, Cut
<1>4. pending' = SubSeq(timers, 1, n)
  <2>1. SubSeq(timers, 1, n) \in Seq(Timer)
    BY <1>3
  <2> QED BY <1>1, <1>2, <2>1, ConcatEmptySeq, Zenon
<1>5. \A i \in 1..n : timers[i].due < now
  BY <1>1, <1>2 DEF IsDue
<1>6. \A i \in 1..(Len(timers) - n) : timers[n + i].due >= now
  <2> TAKE i \in 1..(Len(timers) - n)
  <2>1. /\ n + i \in 1..Len(timers) /\ n + 1 \in 1..Len(timers)
        /\ n + i = n + 1 \/ n + 1 < n + i
    BY <1>1
  <2>2. timers[n + 1].due >= now
    BY <1>1, <1>2, <2>1 DEF IsDue
  <2>3. n + i = n + 1 \/ Precedes(timers[n + 1], timers[n + i])
    BY <2>1 DEF TimersInOrder
  <2> QED BY <1>1, <2>1, <2>2, <2>3 DEF Precedes
<1> QED BY <1>3, <1>4, <1>5, <1>6 DEF Moved

(* What is known of the members of the lists.                              *)
LEMMA Members ==
  ASSUME Types
  PROVE  /\ Len(timers) \in Nat /\ Len(pending) \in Nat
         /\ now \in Nat /\ count \in Nat
         /\ \A i \in 1..Len(timers) : /\ timers[i] \in Timer
                                      /\ timers[i].id \in Nat
                                      /\ timers[i].due \in Nat
         /\ \A i \in 1..Len(pending) :
              pending[i] # Trigger => /\ pending[i] \in Timer
                                      /\ pending[i].id \in Nat
                                      /\ pending[i].due \in Nat
<1>1. /\ timers \in Seq(Timer) /\ pending \in Seq(Timer \union {Trigger})
      /\ now \in 0..MaxTime /\ count \in 0..MaxTimers
  BY DEF Types, Scalars, Lists
<1>2. /\ \A i \in 1..Len(timers) : timers[i] \in Timer
      /\ \A i \in 1..Len(pending) : pending[i] \in Timer \union {Trigger}
      /\ Len(timers) \in Nat /\ Len(pending) \in Nat
  BY <1>1
<1> QED BY <1>1, <1>2, TimerIsNoTrigger, BoundAssumption

LEMMA PutKeepsTimersInOrder ==
  ASSUME Types, TimersInOrder, NEW t \in Timer, NEW n \in 0..Len(timers),
         Put(t, n), count' = count + 1
  PROVE  TimersInOrder'
<1>1. /\ Len(timers') = Len(timers) + 1 /\ t.id = count + 1
      /\ timers'[n + 1] = t
      /\ \A i \in 1..n : timers'[i] = timers[i] /\ timers[i].due <= t.due
      /\ \A i \in (n + 2)..(Len(timers) + 1) :
           timers'[i] = timers[i - 1] /\ timers[i - 1].due > t.due
  BY DEF Put
<1>2. /\ Len(timers) \in Nat /\ count \in Nat /\ n \in Nat /\ n <= Len(timers)
      /\ t.due \in Nat /\ t.id \in Nat
      /\ \A i \in 1..Len(timers) : /\ timers[i].id \in Nat
                                   /\ timers[i].due \in Nat
                                   /\ timers[i].id <= count
  BY Members, TimerIsNoTrigger DEF TimersInOrder
<1>3. \A i \in 1..Len(timers') : timers'[i].id <= count'
  <2> TAKE i \in 1..Len(timers')
  <2>1. CASE i \in 1..n
    <3>1. i \in 1..Len(timers) /\ timers[i].id \in Nat /\ timers[i].id <= count
      BY <1>2, <2>1
    <3> QED BY <1>1, <1>2, <2>1, <3>1
  <2>2. CASE i = n + 1
    BY <1>1, <1>2, <2>2
  <2>3. CASE i \in (n + 2)..(Len(timers) + 1)
    <3>1. i - 1 \in 1..Len(timers)
      BY <1>2, <2>3
    <3>2. timers[i - 1].id \in Nat /\ timers[i - 1].id <= count
      BY <1>2, <3>1
    <3>3. timers'[i] = timers[i - 1]
      BY <1>1, <2>3
    <3>4. \A m \in Nat : m <= count => m <= count + 1
      BY <1>2
    <3> QED BY <3>2, <3>3, <3>4
  <2> QED BY <1>1, <1>2, <2>1, <2>2, <2>3
<1>4. \A i, j \in 1..Len(timers') : i < j => Precedes(timers'[i], timers'[j])
  <2> SUFFICES ASSUME NEW i \in 1..Len(timers'), NEW j \in 1..Len(timers'),
                      i < j
               PROVE  Precedes(timers'[i], timers'[j])
    OBVIOUS
  <2>1. CASE j \in 1..n
    <3>1. i \in 1..n /\ i \in 1..Len(timers) /\ j \in 1..Len(timers)
      BY <1>1, <1>2, <2>1
    <3> QED BY <1>1, <2>1, <3>1 DEF TimersInOrder
  <2>2. CASE j = n + 1
    <3>1. /\ i \in 1..n /\ timers[i].due <= t.due /\ timers[i].id < t.id
          /\ timers[i].due \in Nat
      BY <1>1, <1>2, <2>2
    <3> QED BY <1>1, <1>2, <2>2, <3>1 DEF Precedes
  <2>3. CASE j \in (n + 2)..(Len(timers) + 1) /\ i = n + 1
    <3>1. j - 1 \in 1..Len(timers)
      BY <1>2, <2>3
    <3> QED BY <1>1, <1>2, <2>3, <3>1 DEF Precedes
  <2>4. CASE j \in (n + 2)..(Len(timers) + 1) /\ i \in 1..n
    <3>1. j - 1 \in 1..Len(timers) /\ i < j - 1 /\ i \in 1..Len(timers)
      BY <1>2, <2>4
    <3> QED BY <1>1, <2>4, <3>1 DEF TimersInOrder
  <2>5. CASE /\ j \in (n + 2)..(Len(timers) + 1)
             /\ i \in (n + 2)..(Len(timers) + 1)
    <3>1. /\ j - 1 \in 1..Len(timers) /\ i - 1 \in 1..Len(timers)
          /\ i - 1 < j - 1
      BY <1>2, <2>5
    <3> QED BY <1>1, <2>5, <3>1 DEF TimersInOrder
  <2> QED BY <1>1, <1>2, <2>1, <2>2, <2>3, <2>4, <2>5
<1> QED BY <1>3, <1>4 DEF TimersInOrder

LEMMA PutKeepsPendingInOrder ==
  ASSUME Types, PendingInOrder, NEW t \in Timer, NEW n \in 0..Len(timers),
         Put(t, n), UNCHANGED <<pending, now>>,
         loop' \in {"events", "run", "callback"} \/ pending = <<>>
  PROVE  PendingInOrder'
<1>1. /\ Len(timers') = Len(timers) + 1 /\ t.due >= now
      /\ timers'[n + 1] = t
      /\ \A i \in 1..n : timers'[i] = timers[i]
      /\ \A i \in (n + 2)..(Len(timers) + 1) : timers'[i] = timers[i - 1]
  BY DEF Put
<1>2. /\ Len(timers) \in Nat /\ n \in Nat /\ n <= Len(timers) /\ t.due \in Nat
      /\ now \in Nat
  BY Members, TimerIsNoTrigger
<1>3. loop' \notin {"events", "run", "callback"} => pending = <<>>
  OBVIOUS
<1>4. ASSUME NEW i \in 1..Len(pending), pending[i] # Trigger,
             NEW j \in 1..Len(timers')
      PROVE  pending[i].due < timers'[j].due
  <2>1. /\ pending[i].due < now /\ pending[i].due \in Nat
        /\ \A k \in 1..Len(timers) : pending[i].due < timers[k].due
    BY <1>4, Members DEF PendingInOrder
  <2>2. CASE j \in 1..n
    BY <1>1, <1>2, <2>1, <2>2
  <2>3. CASE j = n + 1
    BY <1>1, <1>2, <2>1, <2>3
  <2>4. CASE j \in (n + 2)..(Len(timers) + 1)
    <3>1. j - 1 \in 1..Len(timers)
      BY <1>2, <2>4
    <3> QED BY <1>1, <2>1, <2>4, <3>1
  <2> QED BY <1>1, <1>2, <2>2, <2>3, <2>4
<1> QED BY <1>3, <1>4 DEF PendingInOrder

LEMMA MovedKeepsOrder ==
  ASSUME Types, TimersInOrder, NEW n \in 0..Len(timers), Moved(n),
         UNCHANGED <<now, count>>, loop' = "events"
  PROVE  TimersInOrder' /\ PendingInOrder'
<1>1. /\ Len(pending') = n /\ Len(timers') = Len(timers) - n
      /\ \A i \in 1..n : pending'[i] = timers[i] /\ timers[i].due < now
      /\ \A i \in 1..(Len(timers) - n) :
           timers'[i] = timers[n + i] /\ timers[n + i].due >= now
  BY DEF Moved
<1>2. /\ Len(timers) \in Nat /\ n \in Nat /\ n <= Len(timers) /\ now \in Nat
      /\ \A i \in 1..(Len(timers) - n) : n + i \in 1..Len(timers)
      /\ \A i \in 1..n : i \in 1..Len(timers)
      /\ \A i \in 1..Len(timers) : timers[i].due \in Nat
  BY Members
<1>3. TimersInOrder'
  <2>1. ASSUME NEW i \in 1..Len(timers'), NEW j \in 1..Len(timers'), i < j
        PROVE  Precedes(timers'[i], timers'[j])
    <3>1. n + i < n + j
      BY <1>2, <2>1
    <3> QED BY <1>1, <1>2, <3>1 DEF TimersInOrder
  <2>2. \A i \in 1..Len(timers') : timers'[i].id <= count'
    BY <1>1, <1>2 DEF TimersInOrder
  <2> QED BY <2>1, <2>2 DEF TimersInOrder
<1>4. PendingInOrder'
  <2>1. ASSUME NEW i \in 1..Len(pending'), NEW j \in 1..Len(timers')
        PROVE  pending'[i].due < timers'[j].due
    BY <1>1, <1>2
  <2>2. ASSUME NEW i \in 1..Len(pending'), NEW j \in 1..Len(pending'), i < j
        PROVE  Precedes(pending'[i], pending'[j])
    BY <1>1, <1>2, <2>2 DEF TimersInOrder
  <2>3. \A i \in 1..Len(pending') : pending'[i].due < now'
    BY <1>1
  <2> QED BY <2>1, <2>2, <2>3 DEF PendingInOrder
<1> QED BY <1>3, <1>4

-----------------------------------------------------------------------------
(* The steps, one part of the invariant at a time.                         *)

LEMMA InitInv == Init => Inv
<1> SUFFICES ASSUME Init PROVE Inv
  OBVIOUS
<1>1. Types
  <2>1. timers \in Seq(Timer) /\ pending \in Seq(Timer \union {Trigger})
    BY DEF Init
  <2>2. setter \in [Setters -> [at : {"idle", "add", "trigger"},
                                event : 0..MaxStarts]]
    BY BoundAssumption DEF Init, Idle
  <2>3. /\ now \in 0..MaxTime /\ until \in 0..Forever /\ count \in 0..MaxTimers
        /\ event \in 0..MaxStarts /\ piped \in 0..event
    BY BoundAssumption DEF Init, Forever
  <2>4. loop \in Places /\ Lists
    BY <2>1 DEF Init, Places, Lists
  <2>5. /\ listening \in BOOLEAN /\ destroy \in BOOLEAN
        /\ bytes \in BOOLEAN /\ ready \in BOOLEAN
        /\ manager \in {"up", "order", "trigger", "join", "gone", "terminated"}
        /\ lapses \subseteq {"order lost", "freed", "unheard", "drained"}
    BY DEF Init
  <2> QED BY <2>2, <2>3, <2>4, <2>5 DEF Types, Scalars
<1>2. Starts /\ OrderArrives /\ TimersAwaken
  BY DEF Init, Starts, Running, OrderArrives, TimersAwaken
<1>3. TimersInOrder /\ PendingInOrder
  BY DEF Init, TimersInOrder, PendingInOrder
<1> QED BY <1>1, <1>2, <1>3 DEF Inv

LEMMA StepKeepsTypes == Types /\ Starts /\ TimersInOrder /\ PendingInOrder
                          /\ [Next]_vars => Types'
<1> SUFFICES ASSUME Types, Starts, TimersInOrder, PendingInOrder, [Next]_vars
             PROVE  Types'
  OBVIOUS
<1>0. /\ Scalars /\ Lists
      /\ MaxTime \in Nat /\ MaxStarts \in Nat /\ MaxTimers \in Nat
  BY BoundAssumption DEF Types
<1>1. CASE UNCHANGED vars
  BY <1>0, <1>1 DEF vars, events, pipe, wait, Types, Scalars, Lists
<1>2. CASE Tick
  <2>1. Lists' /\ UNCHANGED <<loop, events, pipe, wait, setter, count, manager,
                              lapses>>
    BY <1>0, <1>2 DEF Tick, Lists, events
  <2>2. now' \in 0..MaxTime
    <3>1. now \in 0..MaxTime /\ now < MaxTime /\ now' = now + 1
      BY <1>0, <1>2 DEF Tick, Scalars
    <3> QED BY <1>0, <3>1
  <2> QED BY <1>0, <2>1, <2>2 DEF Types, Scalars, events, pipe, wait
<1>3. CASE HRilInit \/ HRilBootUpEventLoop \/ SelectInterrupted \/ SelectFails
             \/ StartAgain \/ PendingListDone
  <2>1. loop' \in Places
    BY <1>3 DEF HRilInit, HRilBootUpEventLoop, SelectInterrupted, SelectFails,
                StartAgain, PendingListDone, Places, Running
  <2>2. UNCHANGED <<now, events, pipe, wait, setter, count, manager, lapses>>
    BY <1>3 DEF HRilInit, HRilBootUpEventLoop, SelectInterrupted, SelectFails,
                StartAgain, PendingListDone
  <2> QED BY <1>0, <2>1, <2>2 DEF events, pipe, wait, Types, Scalars, Lists
<1>4. CASE ReplaceEvent
  <2>1. event' \in 0..MaxStarts /\ piped' \in 0..event'
    <3>1. /\ event' = event + 1 /\ event \in 0..MaxStarts /\ event < MaxStarts
          /\ piped' = piped /\ piped \in 0..event
      BY <1>0, <1>4 DEF ReplaceEvent, Starts, Scalars, pipe
    <3> QED BY <1>0, <3>1
  <2>2. Lists' /\ loop' \in Places
    <3>1. timers' = <<>> /\ pending' = <<>> /\ loop' = "init"
      BY <1>4 DEF ReplaceEvent
    <3> QED BY <3>1 DEF Lists, Places
  <2>3. lapses' \subseteq {"order lost", "freed", "unheard", "drained"}
    BY <1>0, <1>4 DEF ReplaceEvent, Scalars
  <2> QED BY <1>0, <1>4, <2>1, <2>2, <2>3
          DEF ReplaceEvent, Types, Scalars, pipe, wait
<1>5. CASE TimerEventInit
  <2>1. Lists' /\ loop' \in Places
    BY <1>5 DEF TimerEventInit, Lists, Places
  <2> QED BY <1>0, <1>5, <2>1 DEF TimerEventInit, Types, Scalars, pipe, wait
<1>6. CASE MakePipe
  <2>1. Lists' /\ loop' \in Places
    BY <1>0, <1>6 DEF MakePipe, Lists, Places, events
  <2>2. piped' \in 0..event /\ bytes' \in BOOLEAN
    <3>1. /\ event \in 0..MaxStarts /\ piped \in 0..event /\ bytes \in BOOLEAN
          /\ \/ piped' = piped /\ bytes' = bytes
             \/ piped' = event /\ bytes' = FALSE
      BY <1>0, <1>6 DEF MakePipe, Scalars, pipe
    <3>2. event \in 0..event
      BY <1>0, <3>1
    <3> QED BY <3>1, <3>2
  <2> QED BY <1>0, <1>6, <2>1, <2>2 DEF MakePipe, Types, Scalars, events, wait
<1>7. CASE AddEventMessage
  <2>1. Lists' /\ loop' \in Places
    BY <1>0, <1>7 DEF AddEventMessage, Lists, Places, Running
  <2> QED BY <1>0, <1>7, <2>1 DEF AddEventMessage, Types, Scalars, pipe, wait
<1>8. CASE GetNextTimeOut
  <2>1. until' \in 0..Forever
    <3>1. timers = <<>> \/ Head(timers).due \in 0..MaxTime
      <4>1. timers # <<>> => Head(timers) \in Timer
        BY <1>0, Beheaded DEF Lists
      <4> QED BY <4>1 DEF Timer
    <3>2. until' = Forever \/ until' \in 0..MaxTime
      BY <1>0, <1>8, <3>1 DEF GetNextTimeOut, Scalars
    <3>3. Forever \in 0..Forever /\ 0..MaxTime \subseteq 0..Forever
      BY <1>0 DEF Forever
    <3> QED BY <3>2, <3>3
  <2>2. Lists' /\ loop' \in Places
    BY <1>0, <1>8 DEF GetNextTimeOut, Lists, Places, Running, events
  <2> QED BY <1>0, <1>8, <2>1, <2>2
          DEF GetNextTimeOut, Types, Scalars, events, pipe
<1>9. CASE SelectReturns
  <2>1. Lists' /\ loop' \in Places
    BY <1>0, <1>9 DEF SelectReturns, Lists, Places, Running, events
  <2>2. ready' \in BOOLEAN
    BY <1>9 DEF SelectReturns, Readable
  <2> QED BY <1>0, <1>9, <2>1, <2>2
          DEF SelectReturns, Types, Scalars, events, pipe
<1>10. CASE ProcessTimerList
  <2>1. timers' \in Seq(Timer) /\ pending' \in Seq(Timer)
    BY <1>10, DueTimersMove DEF Moved
  <2>2. Lists'
    BY <2>1, SeqMonotonic DEF Lists
  <2>3. /\ loop' = "events"
        /\ UNCHANGED <<now, event, listening, destroy, pipe, wait, setter,
                       count, manager, lapses>>
    BY <1>10 DEF ProcessTimerList
  <2> QED BY <1>0, <2>2, <2>3 DEF Types, Scalars, pipe, wait, Places, Running
<1>11. CASE ProcessEvents
  <2>1. Lists'
    <3>1. pending' = pending \/ pending' = Append(pending, Trigger)
      BY <1>11 DEF ProcessEvents
    <3> QED BY <1>0, <1>11, <3>1 DEF ProcessEvents, Lists
  <2>2. loop' \in Places
    BY <1>11 DEF ProcessEvents, Places, Running
  <2> QED BY <1>0, <1>11, <2>1, <2>2 DEF ProcessEvents, Types, Scalars, pipe, wait
<1>12. CASE FdTriggerCallback \/ TimerCallback
  <2>1. Lists'
    <3>1. pending # <<>> /\ pending' = Tail(pending) /\ timers' = timers
      BY <1>12 DEF FdTriggerCallback, TimerCallback
    <3> QED BY <1>0, <3>1, Beheaded DEF Lists
  <2>2. /\ loop' \in Places /\ bytes' \in BOOLEAN
        /\ lapses' \subseteq {"order lost", "freed", "unheard", "drained"}
    BY <1>0, <1>12
       DEF FdTriggerCallback, TimerCallback, Scalars, pipe, Places, Running
  <2>3. UNCHANGED <<now, event, listening, destroy, piped, until, ready, setter,
                    count, manager>>
    BY <1>12 DEF FdTriggerCallback, TimerCallback, pipe, wait
  <2> QED BY <1>0, <2>1, <2>2, <2>3 DEF Types, Scalars
<1>13. CASE CallbackSetsTimer
  <2>1. timers' \in Seq(Timer) /\ count' \in 0..MaxTimers
    BY <1>0, <1>13, AddTimerPuts DEF CallbackSetsTimer, Put, Lists, Scalars
  <2>2. Lists' /\ loop' \in Places
    BY <1>0, <1>13, <2>1 DEF CallbackSetsTimer, Lists, Places, Running
  <2> QED BY <1>0, <1>13, <2>1, <2>2
          DEF CallbackSetsTimer, Types, Scalars, pipe, wait
<1>14. ASSUME NEW s \in Setters, AddTimerEvent(s) PROVE Types'
  <2>1. timers' \in Seq(Timer) /\ count' \in 0..MaxTimers
    BY <1>0, <1>14, AddTimerPuts DEF AddTimerEvent, Put, Lists, Scalars
  <2>2. /\ setter' = [setter EXCEPT ![s].at = "trigger"]
        /\ lapses' = lapses \/ lapses' = lapses \union {"freed"}
        /\ UNCHANGED <<now, loop, event, pending, listening, destroy, pipe,
                       wait, manager>>
    BY <1>14 DEF AddTimerEvent
  <2>3. setter' \in [Setters -> [at : {"idle", "add", "trigger"},
                                 event : 0..MaxStarts]]
    BY <1>0, <2>2 DEF Scalars
  <2>4. /\ Lists'
        /\ lapses' \subseteq {"order lost", "freed", "unheard", "drained"}
    BY <1>0, <2>1, <2>2 DEF Lists, Scalars
  <2> QED BY <1>0, <2>1, <2>2, <2>3, <2>4 DEF Types, Scalars, pipe, wait
<1>15. ASSUME NEW s \in Setters, SetTimer(s) \/ SetterTriggers(s) PROVE Types'
  <2>1. setter' \in [Setters -> [at : {"idle", "add", "trigger"},
                                 event : 0..MaxStarts]]
    <3>1. Idle \in [at : {"idle", "add", "trigger"}, event : 0..MaxStarts]
      BY <1>0 DEF Idle
    <3>2. [at |-> "add", event |-> event]
            \in [at : {"idle", "add", "trigger"}, event : 0..MaxStarts]
      BY <1>0 DEF Scalars
    <3> QED BY <1>0, <1>15, <3>1, <3>2 DEF SetTimer, SetterTriggers, Scalars
  <2>2. piped' = piped /\ bytes' \in BOOLEAN
    BY <1>0, <1>15 DEF SetTimer, SetterTriggers, OnTriggerEvent, Scalars, pipe
  <2>3. UNCHANGED <<now, loop, events, wait, count, manager, lapses>>
    BY <1>15 DEF SetTimer, SetterTriggers
  <2> QED BY <1>0, <2>1, <2>2, <2>3 DEF Types, Scalars, Lists, events, wait
<1>16. CASE ManagerEnds \/ ManagerStep
  <2>1. /\ manager' \in {"up", "order", "trigger", "join", "gone", "terminated"}
        /\ destroy' \in BOOLEAN /\ bytes' \in BOOLEAN /\ piped' = piped
        /\ lapses' = lapses \/ lapses' = lapses \union {"unheard"}
    BY <1>0, <1>16
       DEF ManagerEnds, ManagerStep, SetNormalDestory, ManagerTriggers,
           ManagerJoins, OnTriggerEvent, Scalars, events, pipe
  <2>2. UNCHANGED <<now, loop, event, timers, pending, listening, wait, setter,
                    count>>
    BY <1>16 DEF ManagerEnds, ManagerStep, SetNormalDestory, ManagerTriggers,
                 ManagerJoins, events
  <2> QED BY <1>0, <2>1, <2>2 DEF Types, Scalars, Lists, wait
<1> QED BY <1>1, <1>2, <1>3, <1>4, <1>5, <1>6, <1>7, <1>8, <1>9, <1>10, <1>11,
           <1>12, <1>13, <1>14, <1>15, <1>16 DEF Next, LoopStep, SetterStep

LEMMA StepKeepsStarts == Types /\ Starts /\ [Next]_vars => Starts'
<1> SUFFICES ASSUME Types, Starts, [Next]_vars PROVE Starts'
  OBVIOUS
<1>1. event \in Nat /\ piped \in 0..event
  <2>1. event \in 0..MaxStarts /\ piped \in 0..event
    BY DEF Types, Scalars
  <2> QED BY <2>1
<1>2. CASE \/ UNCHANGED vars \/ Tick
           \/ \E s \in Setters : SetTimer(s) \/ SetterStep(s)
  <2>1. UNCHANGED <<loop, event, piped, listening, manager>>
    BY <1>2 DEF vars, events, pipe, Tick, SetTimer, SetterStep, AddTimerEvent,
                SetterTriggers, OnTriggerEvent
  <2> QED BY <2>1 DEF Starts
<1>3. CASE HRilInit \/ HRilBootUpEventLoop
  <2>1. UNCHANGED <<event, piped, listening, manager>> /\ event = 0
    BY <1>3 DEF HRilInit, HRilBootUpEventLoop, events, pipe, Starts
  <2>2. loop' \in {"boot", "start", "over"}
    BY <1>3 DEF HRilInit, HRilBootUpEventLoop
  <2> QED BY <2>1, <2>2, BoundAssumption DEF Starts, Running
<1>4. CASE ReplaceEvent
  <2>1. /\ loop' = "init" /\ event' = event + 1 /\ piped' = piped
        /\ manager' = manager
    BY <1>4 DEF ReplaceEvent, pipe
  <2>2. event' # 0 /\ piped' # event'
    BY <1>1, <2>1
  <2> QED BY <2>1, <2>2 DEF Starts, Running
<1>5. CASE TimerEventInit
  BY <1>5 DEF TimerEventInit, Starts, Running, pipe
<1>6. CASE MakePipe
  <2>1. event # 0
    BY <1>1, <1>6 DEF MakePipe, Starts
  <2>2. UNCHANGED <<event, manager>>
    BY <1>6 DEF MakePipe, events
  <2>3. loop' = "over" \/ (loop' = "listen" /\ piped' = event)
    BY <1>6, Zenon DEF MakePipe
  <2> QED BY <2>1, <2>2, <2>3 DEF Starts, Running
<1>7. CASE AddEventMessage
  BY <1>7 DEF AddEventMessage, Starts, Running, pipe
<1>8. CASE SelectFails
  BY <1>8 DEF SelectFails, Starts, Running, events, pipe
<1>9. CASE StartAgain
  BY <1>9 DEF StartAgain, Starts, Running, events, pipe
<1>10. CASE \/ GetNextTimeOut \/ SelectReturns \/ SelectInterrupted
            \/ ProcessTimerList \/ ProcessEvents \/ FdTriggerCallback
            \/ TimerCallback \/ CallbackSetsTimer \/ PendingListDone
  <2>1. UNCHANGED <<event, piped, listening, manager>>
    BY <1>10 DEF GetNextTimeOut, SelectReturns, SelectInterrupted,
         ProcessTimerList, ProcessEvents, FdTriggerCallback, TimerCallback,
         CallbackSetsTimer, PendingListDone, events, pipe
  <2>2. loop \in Running /\ loop' \in Running \union {"over"}
    BY <1>10 DEF GetNextTimeOut, SelectReturns, SelectInterrupted,
         ProcessTimerList, ProcessEvents, FdTriggerCallback, TimerCallback,
         CallbackSetsTimer, PendingListDone, Running
  <2> QED BY <2>1, <2>2 DEF Starts, Running
<1>11. CASE ManagerEnds \/ ManagerStep
  <2>1. UNCHANGED <<loop, event, piped, listening>>
    BY <1>11 DEF ManagerEnds, ManagerStep, SetNormalDestory, ManagerTriggers,
                 ManagerJoins, OnTriggerEvent, events, pipe
  <2>2. manager' \in {"order", "trigger", "join"} => event # 0
    BY <1>11 DEF ManagerEnds, ManagerStep, SetNormalDestory, ManagerTriggers,
                 ManagerJoins, Starts
  <2> QED BY <2>1, <2>2 DEF Starts
<1> QED BY <1>2, <1>3, <1>4, <1>5, <1>6, <1>7, <1>8, <1>9, <1>10, <1>11
        DEF Next, LoopStep

LEMMA StepKeepsOrder ==
  Inv /\ [Next]_vars => TimersInOrder' /\ PendingInOrder'
<1> SUFFICES ASSUME Inv, [Next]_vars PROVE TimersInOrder' /\ PendingInOrder'
  OBVIOUS
<1>1. Types /\ Starts /\ TimersInOrder /\ PendingInOrder
  BY DEF Inv
<1>2. CASE Tick
  <2>1. now \in Nat /\ now' = now + 1
        /\ UNCHANGED <<loop, timers, pending, count>>
    BY <1>1, <1>2, Members DEF Tick, events
  <2>2. TimersInOrder'
    BY <1>1, <2>1 DEF TimersInOrder
  <2>3. \A i \in 1..Len(pending) : pending[i] # Trigger => pending[i].due < now'
    BY <1>1, <2>1, Members DEF PendingInOrder
  <2> QED BY <1>1, <2>1, <2>2, <2>3 DEF PendingInOrder
<1>3. CASE ReplaceEvent \/ TimerEventInit
  <2>1. timers' = <<>> /\ pending' = <<>>
    BY <1>3 DEF ReplaceEvent, TimerEventInit
  <2>2. Len(timers') = 0 /\ Len(pending') = 0
    BY <2>1
  <2> QED BY <2>1, <2>2 DEF TimersInOrder, PendingInOrder
<1>4. CASE \/ UNCHANGED vars \/ HRilInit \/ HRilBootUpEventLoop \/ MakePipe
           \/ AddEventMessage \/ GetNextTimeOut \/ SelectReturns
           \/ SelectInterrupted \/ SelectFails \/ StartAgain
           \/ PendingListDone \/ ManagerEnds \/ ManagerStep
           \/ \E s \in Setters : SetTimer(s) \/ SetterTriggers(s)
  <2>1. UNCHANGED <<now, timers, pending, count>>
    BY <1>4 DEF vars, HRilInit, HRilBootUpEventLoop, MakePipe, AddEventMessage,
         GetNextTimeOut, SelectReturns, SelectInterrupted, SelectFails,
         StartAgain, PendingListDone, ManagerEnds, ManagerStep,
         SetNormalDestory, ManagerTriggers, ManagerJoins, SetTimer,
         SetterTriggers, events
  <2>2. \/ pending = <<>> \/ loop' = loop
    BY <1>1, <1>4 DEF vars, HRilInit, HRilBootUpEventLoop, MakePipe,
         AddEventMessage, GetNextTimeOut, SelectReturns, SelectInterrupted,
         SelectFails, StartAgain, PendingListDone, ManagerEnds, ManagerStep,
         SetNormalDestory, ManagerTriggers, ManagerJoins, SetTimer,
         SetterTriggers, PendingInOrder
  <2> QED BY <1>1, <2>1, <2>2 DEF TimersInOrder, PendingInOrder
<1>5. CASE ProcessTimerList
  <2>1. PICK n \in 0..Len(timers) : Moved(n)
    BY <1>1, <1>5, DueTimersMove
  <2>2. UNCHANGED <<now, count>> /\ loop' = "events"
    BY <1>5 DEF ProcessTimerList
  <2> QED BY <1>1, <2>1, <2>2, MovedKeepsOrder
<1>6. CASE ProcessEvents
  <2>1. /\ UNCHANGED <<now, timers, count>> /\ loop' = "run"
        /\ pending' = pending \/ pending' = Append(pending, Trigger)
    BY <1>6 DEF ProcessEvents
  <2>2. /\ Len(pending) \in Nat
        /\ \A i \in 1..Len(pending') :
             pending'[i] # Trigger => i \in 1..Len(pending)
                                      /\ pending'[i] = pending[i]
    BY <1>1, <2>1 DEF Types, Lists
  <2> QED BY <1>1, <2>1, <2>2 DEF TimersInOrder, PendingInOrder
<1>7. CASE FdTriggerCallback \/ TimerCallback
  <2>1. /\ UNCHANGED <<now, timers, count>> /\ pending # <<>>
        /\ pending' = Tail(pending) /\ loop' \in {"run", "callback"}
    BY <1>7 DEF FdTriggerCallback, TimerCallback
  <2>2. /\ Len(pending) \in Nat
        /\ \A i \in 1..Len(pending') : /\ i + 1 \in 1..Len(pending)
                                       /\ pending'[i] = pending[i + 1]
    BY <1>1, <2>1, Beheaded DEF Types, Lists
  <2>3. \A i, j \in 1..Len(pending') : i < j => i + 1 < j + 1
    BY <2>2
  <2> QED BY <1>1, <2>1, <2>2, <2>3 DEF TimersInOrder, PendingInOrder
<1>8. CASE CallbackSetsTimer
  <2>1. UNCHANGED <<now, pending>> /\ loop = "callback" /\ loop' = "run"
    BY <1>8 DEF CallbackSetsTimer
  <2>2. CASE UNCHANGED <<timers, count>>
    BY <1>1, <2>1, <2>2 DEF TimersInOrder, PendingInOrder
  <2>3. CASE AddTimer
    <3>1. PICK t \in Timer, n \in 0..Len(timers) : Put(t, n)
      BY <1>1, <2>3, AddTimerPuts
    <3>2. count' = count + 1
      BY <2>3 DEF AddTimer
    <3>3. TimersInOrder'
      BY <1>1, <3>1, <3>2, PutKeepsTimersInOrder
    <3>4. loop' \in {"events", "run", "callback"} \/ pending = <<>>
      BY <1>1, <2>1 DEF PendingInOrder
    <3>5. PendingInOrder'
      BY <1>1, <2>1, <3>1, <3>4, PutKeepsPendingInOrder
    <3> QED BY <3>3, <3>5
  <2> QED BY <1>8, <2>2, <2>3 DEF CallbackSetsTimer
<1>9. ASSUME NEW s \in Setters, AddTimerEvent(s)
      PROVE  TimersInOrder' /\ PendingInOrder'
  <2>1. UNCHANGED <<now, pending, loop>>
    BY <1>9 DEF AddTimerEvent
  <2>2. CASE UNCHANGED <<timers, count>>
    BY <1>1, <2>1, <2>2 DEF TimersInOrder, PendingInOrder
  <2>3. CASE AddTimer
    <3>1. PICK t \in Timer, n \in 0..Len(timers) : Put(t, n)
      BY <1>1, <2>3, AddTimerPuts
    <3>2. count' = count + 1
      BY <2>3 DEF AddTimer
    <3>3. TimersInOrder'
      BY <1>1, <3>1, <3>2, PutKeepsTimersInOrder
    <3>4. loop' \in {"events", "run", "callback"} \/ pending = <<>>
      BY <1>1, <2>1 DEF PendingInOrder
    <3>5. PendingInOrder'
      BY <1>1, <2>1, <3>1, <3>4, PutKeepsPendingInOrder
    <3> QED BY <3>3, <3>5
  <2> QED BY <1>9, <2>2, <2>3 DEF AddTimerEvent
<1> QED BY <1>2, <1>3, <1>4, <1>5, <1>6, <1>7, <1>8, <1>9
        DEF Next, LoopStep, SetterStep

LEMMA StepKeepsOrderArrives ==
  Types /\ Starts /\ OrderArrives /\ [Next]_vars => OrderArrives'
<1> SUFFICES ASSUME Types, Starts, OrderArrives, [Next]_vars
             PROVE  OrderArrives'
  OBVIOUS
<1>1. CASE \/ UNCHANGED vars \/ Tick \/ HRilInit \/ HRilBootUpEventLoop
           \/ TimerEventInit \/ AddEventMessage \/ GetNextTimeOut
           \/ SelectReturns \/ SelectInterrupted \/ SelectFails \/ StartAgain
           \/ ProcessTimerList \/ ProcessEvents \/ TimerCallback
           \/ CallbackSetsTimer \/ PendingListDone
           \/ \E s \in Setters : SetTimer(s)
  <2>1. UNCHANGED <<destroy, manager, piped, event, bytes, lapses>>
    BY <1>1 DEF vars, events, pipe, Tick, HRilInit, HRilBootUpEventLoop,
         TimerEventInit, AddEventMessage, GetNextTimeOut, SelectReturns,
         SelectInterrupted, SelectFails, StartAgain, ProcessTimerList,
         ProcessEvents, TimerCallback, CallbackSetsTimer, PendingListDone,
         SetTimer
  <2> QED BY <2>1 DEF OrderArrives
<1>2. CASE ReplaceEvent
  BY <1>2 DEF ReplaceEvent, OrderArrives
<1>3. CASE MakePipe
  <2>1. piped # event /\ UNCHANGED <<destroy, manager, event, lapses>>
    BY <1>3 DEF MakePipe, Starts, events
  <2> QED BY <2>1 DEF OrderArrives
<1>4. CASE FdTriggerCallback
  BY <1>4 DEF FdTriggerCallback, OrderArrives
<1>5. ASSUME NEW s \in Setters, AddTimerEvent(s) PROVE OrderArrives'
  <2>1. /\ UNCHANGED <<destroy, manager, piped, event, bytes>>
        /\ lapses' = lapses \/ lapses' = lapses \union {"freed"}
    BY <1>5 DEF AddTimerEvent, pipe
  <2> QED BY <2>1 DEF OrderArrives
<1>6. ASSUME NEW s \in Setters, SetterTriggers(s) PROVE OrderArrives'
  <2>1. /\ UNCHANGED <<destroy, manager, piped, event, lapses>>
        /\ bytes' = (piped # 0)
    BY <1>6 DEF SetterTriggers, OnTriggerEvent, events
  <2> QED BY <2>1 DEF OrderArrives
<1>7. CASE ManagerEnds
  BY <1>7 DEF ManagerEnds, OrderArrives, events, pipe
<1>8. CASE SetNormalDestory
  BY <1>8 DEF SetNormalDestory, OrderArrives, Starts
<1>9. CASE ManagerTriggers
  <2>1. /\ event # 0 /\ UNCHANGED <<piped, event>> /\ bytes' = (piped # 0)
        /\ lapses' = IF piped # event THEN lapses \union {"unheard"} ELSE lapses
    BY <1>9 DEF ManagerTriggers, OnTriggerEvent, events, Starts
  <2> QED BY <2>1 DEF OrderArrives
<1>10. CASE ManagerJoins
  BY <1>10 DEF ManagerJoins, OrderArrives, events, pipe
<1> QED BY <1>1, <1>2, <1>3, <1>4, <1>5, <1>6, <1>7, <1>8, <1>9, <1>10
        DEF Next, LoopStep, SetterStep, ManagerStep

LEMMA StepKeepsTimersAwaken == Inv /\ [Next]_vars => TimersAwaken'
<1> SUFFICES ASSUME Inv, [Next]_vars, loop' = "select", ~Readable', ~Expired',
                    timers' # <<>>, Head(timers').due < until'
             PROVE  \E s \in Setters : setter'[s].at = "trigger"
  BY DEF TimersAwaken
<1>1. Types /\ Starts /\ TimersAwaken /\ now \in Nat /\ until \in Nat
  <2>1. now \in 0..MaxTime /\ until \in 0..Forever
    BY DEF Inv, Types, Scalars
  <2> QED BY <2>1 DEF Inv
<1>2. CASE GetNextTimeOut
  <2>1. /\ now' = now /\ timers' = timers
        /\ until' = IF Head(timers).due > now THEN Head(timers).due ELSE now
    BY <1>2 DEF GetNextTimeOut, events
  <2>2. ~(until' <= now') /\ Head(timers').due < until'
    BY DEF Expired
  <2>3. Head(timers).due \in Nat
    <3>1. timers \in Seq(Timer) /\ timers # <<>>
      BY <1>1, <2>1 DEF Types, Lists
    <3>2. Head(timers) \in Timer
      BY <3>1, Beheaded
    <3> QED BY <3>2, TimerIsNoTrigger
  <2> QED BY <1>1, <2>1, <2>2, <2>3
<1>3. ASSUME NEW s \in Setters, AddTimerEvent(s)
      PROVE  \E q \in Setters : setter'[q].at = "trigger"
  <2>1. setter'[s].at = "trigger"
    BY <1>1, <1>3 DEF AddTimerEvent, Types, Scalars
  <2> QED BY <2>1
<1>4. ASSUME NEW s \in Setters, SetterTriggers(s) PROVE FALSE
  <2>1. loop = "select" /\ UNCHANGED <<listening, piped>>
    BY <1>4 DEF SetterTriggers, OnTriggerEvent, events
  <2>2. listening /\ piped # 0
    BY <1>1, <2>1 DEF Starts, Running
  <2>3. bytes' = (piped # 0)
    BY <1>4 DEF SetterTriggers, OnTriggerEvent
  <2> QED BY <2>1, <2>2, <2>3 DEF Readable
<1>5. ASSUME NEW s \in Setters, SetTimer(s)
      PROVE  \E q \in Setters : setter'[q].at = "trigger"
  <2>1. UNCHANGED <<now, loop, timers, listening, bytes, until>>
    BY <1>5 DEF SetTimer, events, pipe, wait
  <2>2. PICK q \in Setters : setter[q].at = "trigger"
    BY <1>1, <2>1 DEF TimersAwaken, Readable, Expired
  <2>3. q # s
    BY <1>5, <2>2 DEF SetTimer, Idle
  <2>4. setter'[q] = setter[q]
    BY <1>1, <1>5, <2>3 DEF SetTimer, Types, Scalars
  <2> QED BY <2>2, <2>4
<1>6. CASE Tick
  <2>1. now' = now + 1 /\ UNCHANGED <<loop, timers, listening, bytes, until, setter>>
    BY <1>6 DEF Tick, events, pipe, wait
  <2>2. ~Expired
    BY <1>1, <2>1 DEF Expired
  <2> QED BY <1>1, <2>1, <2>2 DEF TimersAwaken, Readable
<1>7. CASE UNCHANGED vars \/ ManagerEnds \/ SetNormalDestory \/ ManagerJoins
  <2>1. UNCHANGED <<now, loop, timers, listening, bytes, until, setter>>
    BY <1>7 DEF vars, ManagerEnds, SetNormalDestory, ManagerJoins, events, pipe,
                wait
  <2> QED BY <1>1, <2>1 DEF TimersAwaken, Readable, Expired
<1>8. CASE ManagerTriggers
  <2>1. /\ UNCHANGED <<now, loop, timers, listening, piped, until, setter>>
        /\ bytes' = (piped # 0)
    BY <1>8 DEF ManagerTriggers, OnTriggerEvent, events, wait
  <2>2. listening /\ piped # 0
    BY <1>1, <2>1 DEF Starts, Running
  <2> QED BY <2>1, <2>2 DEF Readable
<1>9. CASE \/ HRilInit \/ HRilBootUpEventLoop \/ ReplaceEvent \/ TimerEventInit
           \/ MakePipe \/ AddEventMessage \/ SelectReturns \/ SelectInterrupted
           \/ SelectFails \/ StartAgain \/ ProcessTimerList \/ ProcessEvents
           \/ FdTriggerCallback \/ TimerCallback \/ CallbackSetsTimer
           \/ PendingListDone
  BY <1>9 DEF HRilInit, HRilBootUpEventLoop, ReplaceEvent, TimerEventInit,
       MakePipe, AddEventMessage, SelectReturns, SelectInterrupted, SelectFails,
       StartAgain, ProcessTimerList, ProcessEvents, FdTriggerCallback,
       TimerCallback, CallbackSetsTimer, PendingListDone
<1> QED BY <1>2, <1>3, <1>4, <1>5, <1>6, <1>7, <1>8, <1>9
        DEF Next, LoopStep, SetterStep, ManagerStep

LEMMA StepKeepsInv == Inv /\ [Next]_vars => Inv'
<1> SUFFICES ASSUME Inv, [Next]_vars PROVE Inv'
  OBVIOUS
<1>1. Types /\ Starts /\ TimersInOrder /\ PendingInOrder /\ OrderArrives
  BY DEF Inv
<1> QED BY <1>1, StepKeepsTypes, StepKeepsStarts, StepKeepsOrder,
           StepKeepsTimersAwaken, StepKeepsOrderArrives DEF Inv

LEMMA SpecInv == Spec => []Inv
BY InitInv, StepKeepsInv, PTL DEF Spec

-----------------------------------------------------------------------------
(* Types, and the timer list is sorted, however many timers are set by     *)
(* whom and whenever select fails: GetNextTimeOut and ProcessTimerList may *)
(* look at its head alone.                                                 *)
THEOREM EventLoopTypes == Spec => []TypeOK
<1>1. Inv => TypeOK
  <2> SUFFICES ASSUME Inv PROVE TypeOK
    OBVIOUS
  <2>1. Lists /\ Scalars /\ TimersInOrder
    BY DEF Inv, Types
  <2>2. DOMAIN timers = 1..Len(timers)
    BY <2>1 DEF Lists
  <2>3. \A i, j \in DOMAIN timers : i < j => timers[i].due <= timers[j].due
    <3>1. \A i \in 1..Len(timers) : timers[i].due \in Nat
      BY Members DEF Inv
    <3> QED BY <2>1, <2>2, <3>1 DEF TimersInOrder, Precedes
  <2> QED BY <2>1, <2>3 DEF TypeOK, Lists, Scalars, Places, Running
<1> QED BY <1>1, SpecInv, PTL

(* The loop does not sleep over a timer or an order to stop.               *)
THEOREM LoopNeverOversleeps == Spec => []SleepsOnlyIfNothingToDo
<1>1. Inv => SleepsOnlyIfNothingToDo
  <2> SUFFICES ASSUME Inv, loop = "select", ~Readable, ~Expired
               PROVE  /\ timers # <<>> /\ Head(timers).due < until
                           => \E s \in Setters : setter[s].at = "trigger"
                      /\ destroy => \/ manager = "trigger"
                                    \/ lapses \intersect {"unheard", "drained"} # {}
    BY DEF SleepsOnlyIfNothingToDo
  <2>1. listening
    BY DEF Inv, Starts, Running
  <2> QED BY <2>1 DEF Inv, TimersAwaken, OrderArrives, Readable
<1> QED BY <1>1, SpecInv, PTL

-----------------------------------------------------------------------------
(* Every step is a step of TimerService or leaves its variables alone.     *)

(* What is waiting, by the places of the lists.                            *)
LEMMA WaitingAtPlaces ==
  /\ Types => /\ Listed = {timers[i] : i \in 1..Len(timers)}
              /\ Expiring = {pending[i] : i \in 1..Len(pending)} \ {Trigger}
  /\ Types' => /\ Listed' = {timers'[i] : i \in 1..Len(timers')}
               /\ Expiring' = {pending'[i] : i \in 1..Len(pending')} \ {Trigger}
<1>1. ASSUME Types
      PROVE  /\ Listed = {timers[i] : i \in 1..Len(timers)}
             /\ Expiring = {pending[i] : i \in 1..Len(pending)} \ {Trigger}
  <2>1. DOMAIN timers = 1..Len(timers) /\ DOMAIN pending = 1..Len(pending)
    BY <1>1 DEF Types, Lists
  <2> QED BY <2>1 DEF Listed, Expiring
<1>2. ASSUME Types'
      PROVE  /\ Listed' = {timers'[i] : i \in 1..Len(timers')}
             /\ Expiring' = {pending'[i] : i \in 1..Len(pending')} \ {Trigger}
  <2>1. timers' \in Seq(Timer) /\ pending' \in Seq(Timer \union {Trigger})
    BY <1>2 DEF Types, Lists
  <2>2. DOMAIN timers' = 1..Len(timers') /\ DOMAIN pending' = 1..Len(pending')
    BY <2>1
  <2> QED BY <2>2 DEF Listed, Expiring, Trigger
<1> QED BY <1>1, <1>2

(* A timer that is put into the list is one more that waits.               *)
LEMMA SetRefines ==
  ASSUME Inv, Inv', AddTimer, pending' = pending, now' = now, Up' = Up
  PROVE  Service!Set
<1>1. /\ Types /\ Types' /\ TimersInOrder
      /\ count' = count + 1
  BY AddTimerPuts DEF Inv
<1>2. PICK t \in Timer, n \in 0..Len(timers) : Put(t, n)
  BY <1>1, AddTimerPuts
<1>3. /\ Len(timers') = Len(timers) + 1 /\ t.id = count + 1 /\ t.due >= now
      /\ timers'[n + 1] = t
      /\ \A i \in 1..n : timers'[i] = timers[i]
      /\ \A i \in (n + 2)..(Len(timers) + 1) : timers'[i] = timers[i - 1]
  BY <1>2 DEF Put
<1>4. Len(timers) \in Nat /\ n \in Nat /\ n <= Len(timers)
  BY <1>1, Members
<1>5. Listed' = Listed \union {t}
  <2>1. /\ Listed = {timers[i] : i \in 1..Len(timers)}
        /\ Listed' = {timers'[i] : i \in 1..Len(timers')}
    BY <1>1, WaitingAtPlaces
  <2>2. ASSUME NEW i \in 1..Len(timers') PROVE timers'[i] \in Listed \union {t}
    <3>1. CASE i \in 1..n
      <4>1. i \in 1..Len(timers)
        BY <1>4, <3>1
      <4> QED BY <1>3, <2>1, <3>1, <4>1
    <3>2. CASE i = n + 1
      BY <1>3, <3>2
    <3>3. CASE i \in (n + 2)..(Len(timers) + 1)
      <4>1. i - 1 \in 1..Len(timers)
        BY <1>4, <3>3
      <4> QED BY <1>3, <2>1, <3>3, <4>1
    <3> QED BY <1>3, <1>4, <3>1, <3>2, <3>3
  <2>3. ASSUME NEW i \in 1..Len(timers)
        PROVE  \E j \in 1..Len(timers') : timers'[j] = timers[i]
    <3>1. CASE i \in 1..n
      <4>1. i \in 1..Len(timers')
        BY <1>3, <1>4, <3>1
      <4> QED BY <1>3, <3>1, <4>1
    <3>2. CASE i \notin 1..n
      <4>1. /\ i + 1 \in 1..Len(timers') /\ (i + 1) - 1 = i
            /\ i + 1 \in (n + 2)..(Len(timers) + 1)
        BY <1>3, <1>4, <3>2
      <4>2. timers'[i + 1] = timers[i]
        BY <1>3, <4>1
      <4> QED BY <4>1, <4>2
    <3> QED BY <3>1, <3>2
  <2>4. n + 1 \in 1..Len(timers')
    BY <1>3, <1>4
  <2>5. Listed' \subseteq Listed \union {t}
    BY <2>1, <2>2
  <2>6. Listed \subseteq Listed'
    BY <2>1, <2>3
  <2>7. t \in Listed'
    BY <1>3, <2>1, <2>4
  <2> QED BY <2>5, <2>6, <2>7
<1>6. Waiting' = Waiting \union {t} /\ t \in Waiting'
  <2>1. Expiring' = Expiring
    BY DEF Expiring
  <2> QED BY <1>5, <2>1 DEF Waiting
<1> QED BY <1>1, <1>3, <1>6 DEF Service!Set

(* What has moved to the pending list still waits.                         *)
LEMMA MoveStutters ==
  ASSUME Inv, Inv', ProcessTimerList
  PROVE  UNCHANGED <<now, Up, Waiting, count>>
<1>1. Types /\ Types' /\ TimersInOrder /\ PendingInOrder
  BY DEF Inv
<1>2. /\ UNCHANGED <<now, count>> /\ loop = "timers" /\ loop' = "events"
      /\ pending = <<>>
  BY <1>1 DEF ProcessTimerList, PendingInOrder
<1>3. PICK n \in 0..Len(timers) : Moved(n)
  BY <1>1, DueTimersMove
<1>4. /\ Len(pending') = n /\ Len(timers') = Len(timers) - n
      /\ \A i \in 1..n : pending'[i] = timers[i]
      /\ \A i \in 1..(Len(timers) - n) : timers'[i] = timers[n + i]
  BY <1>3 DEF Moved
<1>5. /\ Len(timers) \in Nat /\ n \in Nat /\ n <= Len(timers)
      /\ \A i \in 1..Len(timers) : timers[i] # Trigger
  BY <1>1, Members, TimerIsNoTrigger
<1>6. /\ Listed = {timers[i] : i \in 1..Len(timers)} /\ Expiring = {}
      /\ Listed' = {timers'[i] : i \in 1..Len(timers')}
      /\ Expiring' = {pending'[i] : i \in 1..Len(pending')} \ {Trigger}
  <2>1. Len(pending) = 0
    BY <1>2
  <2> QED BY <1>1, <2>1, WaitingAtPlaces
<1>7. Waiting' = Waiting
  <2>1. ASSUME NEW i \in 1..Len(timers) PROVE timers[i] \in Waiting'
    <3>1. CASE i \in 1..n
      BY <1>4, <1>5, <1>6, <3>1 DEF Waiting
    <3>2. CASE i \notin 1..n
      <4>1. i - n \in 1..(Len(timers) - n) /\ n + (i - n) = i
        BY <1>5, <3>2
      <4>2. timers'[i - n] = timers[i]
        BY <1>4, <4>1
      <4> QED BY <1>4, <1>6, <4>1, <4>2 DEF Waiting
    <3> QED BY <3>1, <3>2
  <2>2. ASSUME NEW i \in 1..Len(timers') PROVE timers'[i] \in Listed
    <3>1. n + i \in 1..Len(timers) /\ timers'[i] = timers[n + i]
      BY <1>4, <1>5
    <3> QED BY <1>6, <3>1
  <2>3. ASSUME NEW i \in 1..Len(pending') PROVE pending'[i] \in Listed
    <3>1. i \in 1..Len(timers) /\ pending'[i] = timers[i]
      BY <1>4, <1>5
    <3> QED BY <1>6, <3>1
  <2>4. Waiting \subseteq Waiting'
    BY <1>6, <2>1 DEF Waiting
  <2>5. Waiting' \subseteq Waiting
    BY <1>6, <2>2, <2>3 DEF Waiting
  <2> QED BY <2>4, <2>5
<1> QED BY <1>2, <1>7 DEF Up

(* The first of the pending list is called back: no other that waits is    *)
(* due before it.                                                          *)
LEMMA CallBackRefines ==
  ASSUME Inv, Inv', TimerCallback
  PROVE  Service!CallBack
<1> DEFINE t == pending[1]
<1>1. /\ Types /\ Types' /\ PendingInOrder
      /\ loop = "run" /\ loop' \in {"run", "callback"}
      /\ UNCHANGED <<now, timers, count>>
  BY DEF Inv, TimerCallback
<1>2. /\ Len(pending) \in Nat /\ 1 \in 1..Len(pending) /\ t # Trigger
      /\ Len(pending') = Len(pending) - 1
      /\ \A i \in 1..(Len(pending) - 1) : pending'[i] = pending[i + 1]
  <2>1. pending \in Seq(Timer \union {Trigger})
    BY <1>1 DEF Types, Lists
  <2>2. pending # <<>> /\ Head(pending) # Trigger /\ pending' = Tail(pending)
    BY DEF TimerCallback
  <2> QED BY <2>1, <2>2, Beheaded
<1>3. /\ t.due < now
      /\ \A j \in 1..Len(timers) : t.due < timers[j].due
      /\ \A j \in 1..Len(pending) :
           1 < j /\ pending[j] # Trigger => Precedes(t, pending[j])
  BY <1>1, <1>2 DEF PendingInOrder
<1>4. /\ t.due \in Nat /\ t.id \in Nat
      /\ \A j \in 1..Len(timers) : timers[j].due \in Nat
      /\ \A j \in 1..Len(pending) : pending[j] # Trigger =>
           pending[j].due \in Nat /\ pending[j].id \in Nat
  BY <1>1, <1>2, Members
<1>5. /\ Listed = {timers[i] : i \in 1..Len(timers)}
      /\ Expiring = {pending[i] : i \in 1..Len(pending)} \ {Trigger}
      /\ Expiring' = {pending'[i] : i \in 1..Len(pending')} \ {Trigger}
      /\ Listed' = Listed
  BY <1>1, WaitingAtPlaces DEF Listed
<1> HIDE DEF t
<1>6. \A u \in Waiting : Service!Before(t, u)
  <2>1. ASSUME NEW j \in 1..Len(timers) PROVE Service!Before(t, timers[j])
    BY <1>3 DEF Service!Before
  <2>2. ASSUME NEW j \in 1..Len(pending), pending[j] # Trigger
        PROVE  Service!Before(t, pending[j])
    <3>1. CASE j = 1
      BY <1>4, <3>1 DEF t, Service!Before
    <3>2. CASE j # 1
      <4>1. 1 < j
        BY <1>2, <3>2
      <4> QED BY <1>3, <1>4, <2>2, <4>1 DEF Precedes, Service!Before
    <3> QED BY <3>1, <3>2
  <2> QED BY <1>5, <2>1, <2>2 DEF Waiting
<1>7. t \in Waiting
  BY <1>2, <1>5 DEF Waiting, t
<1>8. t \notin Listed
  BY <1>3, <1>4, <1>5
<1>9. Expiring' = Expiring \ {t}
  <2>1. ASSUME NEW i \in 1..Len(pending'), pending'[i] # Trigger
        PROVE  pending'[i] \in Expiring /\ pending'[i] # t
    <3>1. /\ i + 1 \in 1..Len(pending) /\ 1 < i + 1
          /\ pending'[i] = pending[i + 1]
      BY <1>2
    <3>2. Precedes(t, pending[i + 1])
      BY <1>3, <2>1, <3>1
    <3>3. pending[i + 1] # t
      BY <1>4, <3>2 DEF Precedes
    <3> QED BY <1>5, <2>1, <3>1, <3>3
  <2>2. ASSUME NEW i \in 1..Len(pending), pending[i] # t
        PROVE  \E j \in 1..Len(pending') : pending'[j] = pending[i]
    <3>1. i # 1
      BY <2>2 DEF t
    <3>2. /\ i - 1 \in 1..(Len(pending) - 1) /\ (i - 1) + 1 = i
          /\ i - 1 \in 1..Len(pending')
      BY <1>2, <3>1
    <3>3. pending'[i - 1] = pending[i]
      BY <1>2, <3>2
    <3> QED BY <3>2, <3>3
  <2>3. Expiring' \subseteq Expiring \ {t}
    BY <1>5, <2>1
  <2>4. Expiring \ {t} \subseteq Expiring'
    BY <1>5, <2>2
  <2> QED BY <2>3, <2>4
<1>10. Waiting' = Waiting \ {t}
  BY <1>5, <1>8, <1>9 DEF Waiting
<1>11. Up /\ Up'
  BY <1>1 DEF Up
<1> QED BY <1>1, <1>3, <1>6, <1>7, <1>10, <1>11, Zenon DEF Service!CallBack

(* The event of the pipe is no timer.                                      *)
LEMMA TriggerStutters ==
  ASSUME Inv, Inv', ProcessEvents \/ FdTriggerCallback
  PROVE  UNCHANGED <<now, Up, Waiting, count>>
<1>1. /\ Types /\ Types' /\ UNCHANGED <<now, timers, count>>
      /\ loop \in {"events", "run"} /\ loop' = "run"
  BY DEF Inv, ProcessEvents, FdTriggerCallback
<1>2. /\ Expiring = {pending[i] : i \in 1..Len(pending)} \ {Trigger}
      /\ Expiring' = {pending'[i] : i \in 1..Len(pending')} \ {Trigger}
      /\ Listed' = Listed
      /\ pending \in Seq(Timer \union {Trigger}) /\ Len(pending) \in Nat
  BY <1>1, WaitingAtPlaces DEF Listed, Types, Lists
<1>3. Expiring' = Expiring
  <2>1. CASE pending' = pending
    BY <1>2, <2>1
  <2>2. CASE pending' = Append(pending, Trigger)
    <3>1. /\ Len(pending') = Len(pending) + 1
          /\ pending'[Len(pending) + 1] = Trigger
          /\ \A i \in 1..Len(pending) : pending'[i] = pending[i]
      BY <1>2, <2>2
    <3>2. \A i \in 1..Len(pending') : i \in 1..Len(pending)
                                      \/ i = Len(pending) + 1
      BY <1>2, <3>1
    <3>3. \A i \in 1..Len(pending) : i \in 1..Len(pending')
      BY <1>2, <3>1
    <3> QED BY <1>2, <3>1, <3>2, <3>3
  <2>3. CASE FdTriggerCallback
    <3>1. pending # <<>> /\ Head(pending) = Trigger /\ pending' = Tail(pending)
      BY <2>3 DEF FdTriggerCallback
    <3>2. /\ Len(pending') = Len(pending) - 1 /\ pending[1] = Trigger
          /\ \A i \in 1..(Len(pending) - 1) : pending'[i] = pending[i + 1]
      BY <1>2, <3>1, Beheaded
    <3>3. \A i \in 1..Len(pending') :
            i + 1 \in 1..Len(pending) /\ pending'[i] = pending[i + 1]
      BY <1>2, <3>2
    <3>4. ASSUME NEW i \in 1..Len(pending), pending[i] # Trigger
          PROVE  \E j \in 1..Len(pending') : pending'[j] = pending[i]
      <4>1. i # 1
        BY <3>2, <3>4
      <4>2. /\ i - 1 \in 1..(Len(pending) - 1) /\ (i - 1) + 1 = i
            /\ i - 1 \in 1..Len(pending')
        BY <1>2, <3>2, <4>1
      <4> QED BY <3>2, <4>2
    <3>5. Expiring' \subseteq Expiring
      BY <1>2, <3>3
    <3>6. Expiring \subseteq Expiring'
      BY <1>2, <3>4
    <3> QED BY <3>5, <3>6
  <2> QED BY <2>1, <2>2, <2>3 DEF ProcessEvents
<1>4. Up' = Up
  BY <1>1 DEF Up
<1>5. Waiting' = Waiting
  BY <1>2, <1>3 DEF Waiting
<1> QED BY <1>1, <1>4, <1>5

(* A new event has no timers, and the loop is not up.                      *)
LEMMA NewEventLoses ==
  ASSUME Inv, Inv', ReplaceEvent \/ TimerEventInit
  PROVE  Service!Lose
<1>1. /\ timers' = <<>> /\ pending' = <<>> /\ UNCHANGED <<now, count>>
      /\ loop \in {"start", "init"} /\ loop' \in {"init", "pipe"}
  BY DEF ReplaceEvent, TimerEventInit
<1>2. Waiting' = {}
  BY <1>1 DEF Waiting, Listed, Expiring
<1>3. ~Up /\ Up' = Up
  BY <1>1 DEF Up
<1> QED BY <1>1, <1>2, <1>3, Zenon DEF Service!Lose

LEMMA OthersStutter ==
  ASSUME UNCHANGED <<now, timers, pending, count>>, Up' = Up
  PROVE  UNCHANGED <<now, Up, Waiting, count>>
BY DEF Waiting, Listed, Expiring

LEMMA StartRefines ==
  ASSUME UNCHANGED <<now, timers, pending, count>>, Up' = ~Up
  PROVE  Service!Start
<1>1. Waiting' = Waiting
  BY DEF Waiting, Listed, Expiring
<1> QED BY <1>1, Zenon DEF Service!Start

LEMMA InitRefines == Init => Service!Init
<1> SUFFICES ASSUME Init PROVE Service!Init
  OBVIOUS
<1>1. Waiting = {} /\ ~Up
  BY DEF Init, Waiting, Listed, Expiring, Up
<1> QED BY <1>1 DEF Init, Service!Init

(* The loop comes up with its first look at the timers, and goes down when *)
(* select returns with an order to stop or fails.                          *)
LEMMA StepRefines ==
  Inv /\ Inv' /\ [Next]_vars => [Service!Next]_(Service!vars)
<1> SUFFICES ASSUME Inv, Inv', [Next]_vars
             PROVE  Service!Next \/ UNCHANGED <<now, Up, Waiting, count>>
  BY DEF Service!vars
<1>1. CASE Tick
  <2>1. now' = now + 1 /\ UNCHANGED <<loop, timers, pending, count>>
    BY <1>1 DEF Tick, events
  <2>2. Waiting' = Waiting /\ Up' = Up
    BY <2>1 DEF Waiting, Listed, Expiring, Up
  <2>3. Service!Tick
    BY <2>1, <2>2 DEF Service!Tick
  <2> QED BY <2>3 DEF Service!Next
<1>2. CASE \/ UNCHANGED vars \/ ManagerEnds \/ ManagerStep
           \/ \E s \in Setters : SetTimer(s) \/ SetterTriggers(s)
  <2>1. UNCHANGED <<now, loop, timers, pending, count>>
    BY <1>2 DEF vars, ManagerEnds, ManagerStep, SetNormalDestory,
         ManagerTriggers, ManagerJoins, SetTimer, SetterTriggers, events
  <2>2. Up' = Up
    BY <2>1 DEF Up
  <2> QED BY <2>1, <2>2, OthersStutter
<1>3. CASE HRilInit \/ HRilBootUpEventLoop \/ MakePipe \/ StartAgain
           \/ GetNextTimeOut \/ PendingListDone
  <2>1. UNCHANGED <<now, timers, pending, count>>
    BY <1>3 DEF HRilInit, HRilBootUpEventLoop, MakePipe, StartAgain,
         GetNextTimeOut, PendingListDone, events
  <2>2. Up' = Up
    BY <1>3 DEF HRilInit, HRilBootUpEventLoop, MakePipe, StartAgain,
         GetNextTimeOut, PendingListDone, Up
  <2> QED BY <2>1, <2>2, OthersStutter
<1>4. CASE AddEventMessage
  <2>1. UNCHANGED <<now, timers, pending, count>>
    BY <1>4 DEF AddEventMessage
  <2>2. Up' = ~Up
    BY <1>4 DEF AddEventMessage, Up
  <2>3. Service!Start
    BY <2>1, <2>2, StartRefines
  <2> QED BY <2>3 DEF Service!Next
<1>5. CASE SelectReturns \/ SelectInterrupted \/ SelectFails
  <2>1. UNCHANGED <<now, timers, pending, count>>
    BY <1>5 DEF SelectReturns, SelectInterrupted, SelectFails, events
  <2>2. Up' = Up \/ Up' = ~Up
    BY <1>5 DEF SelectReturns, SelectInterrupted, SelectFails, Up
  <2>3. Service!Start \/ UNCHANGED <<now, Up, Waiting, count>>
    BY <2>1, <2>2, StartRefines, OthersStutter
  <2> QED BY <2>3 DEF Service!Next
<1>6. CASE ReplaceEvent \/ TimerEventInit
  <2>1. Service!Lose
    BY <1>6, NewEventLoses
  <2> QED BY <2>1 DEF Service!Next
<1>7. CASE ProcessTimerList
  BY <1>7, MoveStutters
<1>8. CASE ProcessEvents \/ FdTriggerCallback
  BY <1>8, TriggerStutters
<1>9. CASE TimerCallback
  <2>1. Service!CallBack
    BY <1>9, CallBackRefines
  <2> QED BY <2>1 DEF Service!Next
<1>10. CASE CallbackSetsTimer
  <2>1. UNCHANGED <<now, pending>> /\ loop = "callback" /\ loop' = "run"
    BY <1>10 DEF CallbackSetsTimer
  <2>2. Up' = Up
    BY <2>1 DEF Up
  <2>3. CASE AddTimer
    <3>1. Service!Set
      BY <2>1, <2>2, <2>3, SetRefines
    <3> QED BY <3>1 DEF Service!Next
  <2>4. CASE UNCHANGED <<timers, count>>
    BY <2>1, <2>2, <2>4, OthersStutter
  <2> QED BY <1>10, <2>3, <2>4 DEF CallbackSetsTimer
<1>11. ASSUME NEW s \in Setters, AddTimerEvent(s)
       PROVE  Service!Next \/ UNCHANGED <<now, Up, Waiting, count>>
  <2>1. UNCHANGED <<now, pending, loop>>
    BY <1>11 DEF AddTimerEvent
  <2>2. Up' = Up
    BY <2>1 DEF Up
  <2>3. CASE AddTimer
    <3>1. Service!Set
      BY <2>1, <2>2, <2>3, SetRefines
    <3> QED BY <3>1 DEF Service!Next
  <2>4. CASE UNCHANGED <<timers, count>>
    BY <2>1, <2>2, <2>4, OthersStutter
  <2> QED BY <1>11, <2>3, <2>4 DEF AddTimerEvent
<1> QED BY <1>1, <1>2, <1>3, <1>4, <1>5, <1>6, <1>7, <1>8, <1>9, <1>10, <1>11
        DEF Next, LoopStep, SetterStep

(* HRilEvent keeps the promise of TimerService: the callback of every      *)
(* timer that is set is called once, after its time and in the order of    *)
(* the times, and none is lost but while the loop is not up.               *)
THEOREM TimersAreServed == Spec => ImplementsTimerService
BY InitRefines, StepRefines, SpecInv, PTL
   DEF Spec, ImplementsTimerService, Service!Spec
=============================================================================
