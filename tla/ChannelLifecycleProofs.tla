----------------------- MODULE ChannelLifecycleProofs -----------------------
(***************************************************************************)
(* Proofs about ChannelLifecycle, for any number of request threads,       *)
(* readers, descriptors and faults: the channel is never left deaf, and    *)
(* the listener sleeps through a loss only when it missed the signal.      *)
(***************************************************************************)
EXTENDS ChannelLifecycle, TLAPS

Asleep  == {"decided", "asleep"}
Started == {"init", "radio", "check"} \union Asleep

(* A closed channel whose loss is not marked is about to be marked, or to  *)
(* be opened by a new reader.                                              *)
ClosedIsPassing ==
  readerClosed /\ ~atStatus /\ listener \in Started =>
    \/ \E r \in Readers : reader[r].at = "created"
    \/ \E t \in Threads : act[t].at = "status"

(* NoDeafChannel, from the start of the reader on.                         *)
Watched ==
  ~atStatus /\ listener \in Started =>
    (\E r \in Readers : Guards(r)) \/ (\E t \in Threads : Closing(t))

(* SleepsOnlyThroughMissedSignal, from the look at g_atStatus on.          *)
LossIsTold ==
  atStatus /\ listener \in Asleep => missed \/ \E t \in Threads : Telling(t)

Inv == TypeOK /\ ClosedIsPassing /\ Watched /\ LossIsTold

-----------------------------------------------------------------------------
(* Types. *)

Acts == [at : Call, new : RadioState, old : RadioState]

LEMMA ReadersAreThreads == Readers \subseteq Threads /\ Requests \subseteq Threads
                             /\ Listener \in Threads
BY DEF Threads

(* Every change of act keeps its type.                                     *)
LEMMA GotoTypes ==
  ASSUME TypeOK, NEW t \in Threads, NEW a \in Call, Goto(t, a)
  PROVE  act' \in [Threads -> Acts]
<1>1. In(a) \in Acts
  BY DEF In, Acts, RadioState
<1> QED BY <1>1 DEF Goto, TypeOK, Acts

LEMMA CallTypes ==
  ASSUME TypeOK, NEW t \in Threads, CallStep(t)
  PROVE  TypeOK'
<1>1. act \in [Threads -> Acts] /\ act[t] \in Acts
  BY DEF TypeOK, Acts
<1>2. ASSUME NEW from \in {"send", "cfun"},
             RefuseSend(t, from) \/ FailSend(t, from) \/ Send(t, from)
               \/ EndSend(t, from)
      PROVE  TypeOK'
  <2>1. PICK a \in Call : Goto(t, a)
    BY <1>2 DEF RefuseSend, FailSend, Send, EndSend, Sent, Call
  <2>2. act' \in [Threads -> Acts]
    BY <2>1, GotoTypes
  <2>3. faults' \in Nat
    BY <1>2 DEF TypeOK, RefuseSend, FailSend, Send, EndSend, kernelVars
  <2>4. UNCHANGED <<radio, channelVars, listenerVars, reader, open, gone>>
    BY <1>2 DEF RefuseSend, FailSend, Send, EndSend, kernelVars
  <2> QED BY <2>2, <2>3, <2>4 DEF TypeOK, Acts, channelVars, listenerVars
<1>3. ASSUME OnReaderClosed(t) PROVE TypeOK'
  <2>1. \E a \in Call : Goto(t, a)
    BY <1>3 DEF OnReaderClosed, Call
  <2>2. act' \in [Threads -> Acts]
    BY <2>1, GotoTypes
  <2> QED BY <1>3, <2>2
          DEF OnReaderClosed, TypeOK, Acts, channelVars, listenerVars, kernelVars
<1>4. ASSUME ATCloseReadLoop(t) PROVE TypeOK'
  <2>1. act' \in [Threads -> Acts]
    BY <1>4, GotoTypes DEF ATCloseReadLoop, Call
  <2>2. open' \in SUBSET Descriptors
    BY <1>4 DEF ATCloseReadLoop, TypeOK
  <2> QED BY <1>4, <2>1, <2>2 DEF ATCloseReadLoop, TypeOK, Acts, listenerVars
<1>5. ASSUME MarkLost(t) PROVE TypeOK'
  <2>1. act' \in [Threads -> Acts]
    BY <1>5, GotoTypes DEF MarkLost, Call
  <2> QED BY <1>5, <2>1 DEF MarkLost, TypeOK, Acts, listenerVars, kernelVars
<1>6. ASSUME ForgetFd(t) PROVE TypeOK'
  <2>1. act' \in [Threads -> Acts]
    BY <1>6, GotoTypes DEF ForgetFd, Call
  <2> QED BY <1>6, <2>1 DEF ForgetFd, TypeOK, Acts, listenerVars, kernelVars
<1>7. ASSUME SignalLoss(t) PROVE TypeOK'
  <2>1. act' \in [Threads -> Acts]
    BY <1>7, GotoTypes DEF SignalLoss, Call
  <2>2. missed' \in BOOLEAN
    BY <1>7, Zenon DEF SignalLoss, TypeOK
  <2>3. /\ UNCHANGED <<radio, channelVars, reader, kernelVars>>
        /\ listener' \in {listener, "check"}
    BY <1>7 DEF SignalLoss, WakeListener
  <2> QED BY <2>1, <2>2, <2>3 DEF TypeOK, Acts, channelVars, kernelVars
<1>8. ASSUME SeeChannel(t) PROVE TypeOK'
  <2>1. act' \in [Threads -> Acts]
    <3>1. [act[t] EXCEPT !.at = "change"] \in Acts
      BY <1>1 DEF Acts, Call
    <3> QED BY <1>1, <1>8, <3>1 DEF SeeChannel
  <2> QED BY <1>8, <2>1
          DEF SeeChannel, TypeOK, Acts, channelVars, listenerVars, kernelVars
<1>9. ASSUME ChangeRadio(t) PROVE TypeOK'
  <2>1. act' \in [Threads -> Acts]
    <3>1. CASE Goto(t, "none")
      BY <3>1, GotoTypes DEF Call
    <3>2. CASE act' = [act EXCEPT ![t].at = "cfun", ![t].old = radio]
      <4>1. [[act[t] EXCEPT !.at = "cfun"] EXCEPT !.old = radio] \in Acts
        BY <1>1 DEF Acts, Call, TypeOK
      <4> QED BY <1>1, <3>2, <4>1 DEF Acts, Call, TypeOK
    <3> QED BY <1>9, <3>1, <3>2 DEF ChangeRadio
  <2>2. radio' \in RadioState
    BY <1>1, <1>9 DEF ChangeRadio, TypeOK, Acts
  <2>3. /\ UNCHANGED <<channelVars, reader, kernelVars, missed>>
        /\ listener' \in {listener, "check"}
    BY <1>9 DEF ChangeRadio, WakeListener, listenerVars
  <2> QED BY <2>1, <2>2, <2>3 DEF TypeOK, Acts, channelVars, kernelVars
<1> QED BY <1>2, <1>3, <1>4, <1>5, <1>6, <1>7, <1>8, <1>9 DEF CallStep

(* A reader is at one of its places, and reads a descriptor only in read.  *)
ReaderStates ==
  [at : {"none", "created", "call", "eof"}, fd : {0}]
    \union [at : {"reading"}, fd : Descriptors]

LEMMA ReaderTypes ==
  ASSUME TypeOK, NEW r \in Readers, ReaderStep(r) \/ ReadLine(r)
  PROVE  TypeOK'
<1>1. reader \in [Readers -> ReaderStates] /\ reader[r] \in ReaderStates
  BY DEF TypeOK, ReaderStates
<1>2. r \in Threads
  BY ReadersAreThreads
<1>3. CASE ReaderLoop(r)
  <2>1. [reader[r] EXCEPT !.at = "call"] \in ReaderStates
    BY <1>1, <1>3 DEF ReaderLoop, At, ReaderStates
  <2>2. reader' \in [Readers -> ReaderStates]
    BY <1>1, <1>3, <2>1 DEF ReaderLoop
  <2> QED BY <1>3, <2>2
          DEF ReaderLoop, TypeOK, ReaderStates, callVars, listenerVars, kernelVars
<1>4. CASE ReadResponse(r) \/ ReadLine(r) \/ ReadEof(r)
  <2>1. \E s \in ReaderStates : reader' = [reader EXCEPT ![r] = s]
    BY <1>4 DEF ReadResponse, ReadLine, ReadEof, ReaderStates, TypeOK
  <2>2. reader' \in [Readers -> ReaderStates]
    BY <1>1, <2>1
  <2>3. UNCHANGED <<callVars, channelVars, listenerVars, kernelVars>>
    BY <1>4 DEF ReadResponse, ReadLine, ReadEof
  <2> QED BY <2>2, <2>3
          DEF TypeOK, ReaderStates, callVars, channelVars, listenerVars, kernelVars
<1>5. CASE EndReader(r)
  <2>1. reader' \in [Readers -> ReaderStates]
    BY <1>1, <1>5 DEF EndReader, NoRead, ReaderStates
  <2>2. act' \in [Threads -> Acts]
    BY <1>2, <1>5, GotoTypes DEF EndReader, Call
  <2> QED BY <1>5, <2>1, <2>2
          DEF EndReader, TypeOK, ReaderStates, Acts, channelVars, listenerVars,
              kernelVars
<1> QED BY <1>3, <1>4, <1>5 DEF ReaderStep

LEMMA SetRadioTypes ==
  ASSUME TypeOK, NEW t \in Threads, NEW s \in RadioState, CallSetRadioState(t, s)
  PROVE  act' \in [Threads -> Acts]
<1>1. [In("setRadio") EXCEPT !.new = s] \in Acts
  BY DEF In, Acts, Call, RadioState
<1> QED BY <1>1 DEF CallSetRadioState, TypeOK, Acts

LEMMA ListenerTypes ==
  ASSUME TypeOK, ListenerStep
  PROVE  TypeOK'
<1>1. CASE OpenDevice
  <2>1. /\ fd' \in Descriptors \union {0} /\ open' \in SUBSET Descriptors
        /\ gone' \in SUBSET Descriptors /\ listener' \in {listener, "reset"}
    BY <1>1 DEF OpenDevice, TypeOK
  <2> QED BY <1>1, <2>1 DEF OpenDevice, TypeOK, callVars
<1>2. CASE ResetStatus
  BY <1>2 DEF ResetStatus, TypeOK, callVars, kernelVars
<1>3. CASE ATStartReadLoop
  <2>1. reader' \in [Readers -> ReaderStates] /\ newest' \in Readers
    BY <1>3 DEF ATStartReadLoop, TypeOK, ReaderStates
  <2> QED BY <1>3, <2>1
          DEF ATStartReadLoop, TypeOK, ReaderStates, callVars, kernelVars
<1>4. CASE ModemInit
  <2>1. act' \in [Threads -> Acts] /\ listener' \in {"radio", "check"}
    BY <1>4, GotoTypes, SetRadioTypes, ReadersAreThreads
       DEF ModemInit, Call, RadioState
  <2> QED BY <1>4, <2>1 DEF ModemInit, TypeOK, Acts, channelVars, kernelVars
<1>5. CASE WaitAtClose
  <2>1. /\ listener' \in {"open", "decided", "asleep"} /\ missed' \in BOOLEAN
    BY <1>5 DEF WaitAtClose, TypeOK
  <2> QED BY <1>5, <2>1 DEF WaitAtClose, TypeOK, callVars, channelVars, kernelVars
<1> QED BY <1>1, <1>2, <1>3, <1>4, <1>5 DEF ListenerStep

LEMMA StepKeepsTypes == TypeOK /\ [Next]_vars => TypeOK'
<1> SUFFICES ASSUME TypeOK, [Next]_vars PROVE TypeOK'
  OBVIOUS
<1>1. CASE UNCHANGED vars
  BY <1>1 DEF vars, TypeOK, callVars, channelVars, listenerVars, kernelVars
<1>2. ASSUME NEW q \in Requests, Request(q) \/ ReqSetRadioState(q) PROVE TypeOK'
  <2>1. act' \in [Threads -> Acts]
    BY <1>2, GotoTypes, SetRadioTypes, ReadersAreThreads
       DEF Request, ReqSetRadioState, Call, RadioState
  <2>2. UNCHANGED <<radio, channelVars, listenerVars, reader, kernelVars>>
    BY <1>2 DEF Request, ReqSetRadioState
  <2> QED BY <2>1, <2>2 DEF TypeOK, Acts, channelVars, listenerVars, kernelVars
<1>3. CASE LoseDevice
  <2>1. gone' \in SUBSET Descriptors
    <3>1. \A r \in Readers : reader[r].fd \in Descriptors \union {0}
      BY DEF TypeOK
    <3> QED BY <1>3, <3>1 DEF LoseDevice, TypeOK
  <2>2. faults' \in Nat
    BY <1>3 DEF LoseDevice, TypeOK
  <2> QED BY <1>3, <2>1, <2>2
          DEF LoseDevice, TypeOK, callVars, channelVars, listenerVars
<1> QED BY <1>1, <1>2, <1>3, CallTypes, ReaderTypes, ListenerTypes DEF Next

-----------------------------------------------------------------------------
(* The parts of the invariant. *)

(* What a step of one thread's call leaves of the other threads.           *)
LEMMA OthersStay ==
  ASSUME TypeOK, NEW t \in Threads, CallStep(t)
  PROVE  /\ \A u \in Threads \ {t} : act'[u] = act[u]
         /\ UNCHANGED reader
BY DEF CallStep, RefuseSend, FailSend, Send, EndSend, OnReaderClosed,
       ATCloseReadLoop, MarkLost, ForgetFd, SignalLoss, SeeChannel,
       ChangeRadio, Goto, TypeOK

(* The steps that have no part in a loss: a command, or a new radio state  *)
(* on a channel that is not lost.                                          *)
Quiet(t) ==
  /\ act[t].at \in {"send", "sent", "cfun", "cfunSent", "setRadio", "change"}
  /\ act[t].at = "setRadio" => ~atStatus
  /\ UNCHANGED <<readerClosed, atStatus, missed>>
  /\ \/ listener' = listener
     \/ listener = "asleep" /\ listener' = "check"

LEMMA CallCases ==
  ASSUME NEW t \in Threads, CallStep(t)
  PROVE  \/ OnReaderClosed(t) \/ ATCloseReadLoop(t) \/ MarkLost(t)
         \/ ForgetFd(t) \/ SignalLoss(t) \/ Quiet(t)
<1>1. ASSUME NEW from \in {"send", "cfun"},
             RefuseSend(t, from) \/ FailSend(t, from) \/ Send(t, from)
               \/ EndSend(t, from)
      PROVE  Quiet(t)
  <2>1. act[t].at \in {"send", "sent", "cfun", "cfunSent"}
    BY <1>1 DEF RefuseSend, FailSend, MaySend, Send, EndSend, Sent
  <2>2. UNCHANGED <<channelVars, listenerVars>>
    BY <1>1 DEF RefuseSend, FailSend, Send, EndSend
  <2> QED BY <2>1, <2>2 DEF Quiet, channelVars, listenerVars
<1>2. ASSUME SeeChannel(t) \/ ChangeRadio(t) PROVE Quiet(t)
  BY <1>2 DEF SeeChannel, ChangeRadio, Quiet, channelVars, listenerVars,
              WakeListener
<1> QED BY <1>1, <1>2 DEF CallStep

(* A call marks the channel lost when it was marked closed, and the only   *)
(* call that closes it goes on to that.                                    *)
LEMMA CallKeepsClosed ==
  ASSUME TypeOK, ClosedIsPassing, NEW t \in Threads, CallStep(t)
  PROVE  ClosedIsPassing'
<1>1. UNCHANGED reader /\ \A u \in Threads \ {t} : act'[u] = act[u]
  BY OthersStay
<1>2. CASE ATCloseReadLoop(t)
  <2>1. act'[t].at = "status"
    BY <1>2 DEF ATCloseReadLoop, Goto, In, TypeOK
  <2> QED BY <2>1 DEF ClosedIsPassing
<1>3. CASE MarkLost(t)
  BY <1>3 DEF MarkLost, ClosedIsPassing
<1>4. CASE OnReaderClosed(t) \/ ForgetFd(t) \/ SignalLoss(t) \/ Quiet(t)
  <2>1. act[t].at # "status" /\ UNCHANGED <<readerClosed, atStatus>>
    BY <1>4 DEF OnReaderClosed, ForgetFd, SignalLoss, Quiet, channelVars
  <2>2. \/ listener' = listener
        \/ listener = "asleep" /\ listener' = "check"
    BY <1>4 DEF OnReaderClosed, ForgetFd, SignalLoss, Quiet, listenerVars,
                WakeListener
  <2> QED BY <1>1, <2>1, <2>2 DEF ClosedIsPassing, Started, Asleep
<1> QED BY <1>2, <1>3, <1>4, CallCases

LEMMA StepKeepsClosed == TypeOK /\ ClosedIsPassing /\ [Next]_vars => ClosedIsPassing'
<1> SUFFICES ASSUME TypeOK, ClosedIsPassing, [Next]_vars PROVE ClosedIsPassing'
  OBVIOUS
<1>1. CASE UNCHANGED vars \/ LoseDevice
  BY <1>1 DEF vars, LoseDevice, callVars, channelVars, listenerVars,
              ClosedIsPassing
<1>2. ASSUME NEW q \in Requests, Request(q) \/ ReqSetRadioState(q)
      PROVE  ClosedIsPassing'
  <2>1. /\ act[q].at = "none" /\ \A u \in Threads \ {q} : act'[u] = act[u]
        /\ UNCHANGED <<channelVars, listenerVars, reader>>
    BY <1>2 DEF Request, ReqSetRadioState, Goto, CallSetRadioState, TypeOK
  <2> QED BY <2>1 DEF ClosedIsPassing, channelVars, listenerVars
<1>3. ASSUME NEW r \in Readers, ReaderStep(r) \/ ReadLine(r)
      PROVE  ClosedIsPassing'
  <2>1. CASE ReaderLoop(r)
    BY <2>1 DEF ReaderLoop, ClosedIsPassing
  <2>2. CASE ~ReaderLoop(r)
    <3>1. /\ reader[r].at # "created" /\ act[r].at = "none"
          /\ \A u \in Readers \ {r} : reader'[u] = reader[u]
          /\ \A u \in Threads \ {r} : act'[u] = act[u]
          /\ UNCHANGED <<channelVars, listenerVars>>
      BY <1>3, <2>2 DEF ReaderStep, ReadResponse, ReadLine, ReadEof, EndReader,
           At, Goto, TypeOK, callVars
    <3> QED BY <3>1 DEF ClosedIsPassing, channelVars, listenerVars
  <2> QED BY <2>1, <2>2
<1>4. CASE OpenDevice \/ ResetStatus
  BY <1>4 DEF OpenDevice, ResetStatus, ClosedIsPassing, Started, Asleep
<1>5. CASE ATStartReadLoop
  <2>1. \E r \in Readers : reader'[r].at = "created"
    BY <1>5 DEF ATStartReadLoop, TypeOK
  <2> QED BY <2>1 DEF ClosedIsPassing
<1>6. CASE ModemInit
  <2>1. /\ act[Listener].at = "none" /\ listener \in Started
        /\ \A u \in Threads \ {Listener} : act'[u] = act[u]
        /\ UNCHANGED <<channelVars, reader>>
    BY <1>6 DEF ModemInit, Goto, CallSetRadioState, TypeOK, Started
  <2> QED BY <2>1 DEF ClosedIsPassing, channelVars
<1>7. CASE WaitAtClose
  BY <1>7 DEF WaitAtClose, ClosedIsPassing, Started, Asleep, callVars, channelVars
<1> QED BY <1>1, <1>2, <1>3, <1>4, <1>5, <1>6, <1>7, CallKeepsClosed
        DEF Next, ListenerStep

(* A reader whose read failed finds the channel closed only when another   *)
(* is about to mark it lost, or is its successor.                          *)
LEMMA CallKeepsWatched ==
  ASSUME TypeOK, ClosedIsPassing, Watched, NEW t \in Threads, CallStep(t)
  PROVE  Watched'
<1> SUFFICES ASSUME ~atStatus', listener' \in Started
             PROVE  (\E r \in Readers : Guards(r)')
                      \/ (\E u \in Threads : Closing(u)')
  BY DEF Watched
<1>1. UNCHANGED reader /\ \A u \in Threads \ {t} : act'[u] = act[u]
  BY OthersStay
<1>2. listener \in Started
  BY DEF CallStep, RefuseSend, FailSend, Send, EndSend, OnReaderClosed,
       ATCloseReadLoop, MarkLost, ForgetFd, SignalLoss, SeeChannel, ChangeRadio,
       listenerVars, WakeListener, Started, Asleep
<1>3. ~atStatus
  BY DEF CallStep, RefuseSend, FailSend, Send, EndSend, OnReaderClosed,
       ATCloseReadLoop, MarkLost, ForgetFd, SignalLoss, SeeChannel, ChangeRadio,
       channelVars
<1>4. CASE OnReaderClosed(t)
  <2>1. CASE readerClosed
    <3>1. act[t].at # "status"
      BY <1>4 DEF OnReaderClosed
    <3>2. \/ \E r \in Readers : reader[r].at = "created"
          \/ \E u \in Threads \ {t} : act[u].at = "status"
      BY <1>2, <1>3, <2>1, <3>1 DEF ClosedIsPassing
    <3> QED BY <1>1, <3>2 DEF Guards, Closing
  <2>2. CASE ~readerClosed
    <3>1. act'[t].at = "close"
      BY <1>4, <2>2 DEF OnReaderClosed, Goto, In, TypeOK
    <3> QED BY <3>1 DEF Closing
  <2> QED BY <2>1, <2>2
<1>5. CASE ATCloseReadLoop(t)
  <2>1. act'[t].at = "status"
    BY <1>5 DEF ATCloseReadLoop, Goto, In, TypeOK
  <2> QED BY <2>1 DEF Closing
<1>6. CASE MarkLost(t) \/ ForgetFd(t) \/ SignalLoss(t) \/ Quiet(t)
  <2>1. act[t].at \notin {"failed", "close"}
    BY <1>6 DEF MarkLost, ForgetFd, SignalLoss, Quiet
  <2>2. act[t].at # "status"
    BY <1>6 DEF MarkLost, ForgetFd, SignalLoss, Quiet
  <2>3. (\E r \in Readers : Guards(r)) \/ (\E u \in Threads \ {t} : Closing(u))
    BY <1>2, <1>3, <2>1, <2>2 DEF Watched, Closing
  <2>4. ASSUME NEW r \in Readers, Guards(r) PROVE Guards(r)'
    BY <1>1, <2>1, <2>4, ReadersAreThreads DEF Guards
  <2> QED BY <1>1, <2>3, <2>4 DEF Closing
<1> QED BY <1>4, <1>5, <1>6, CallCases

LEMMA StepKeepsWatched ==
  TypeOK /\ ClosedIsPassing /\ Watched /\ [Next]_vars => Watched'
<1> SUFFICES ASSUME TypeOK, ClosedIsPassing, Watched, [Next]_vars PROVE Watched'
  OBVIOUS
<1>1. CASE UNCHANGED vars \/ LoseDevice
  BY <1>1 DEF vars, LoseDevice, callVars, channelVars, listenerVars, Watched,
              Guards, Closing
<1>2. ASSUME NEW q \in Requests, Request(q) \/ ReqSetRadioState(q) PROVE Watched'
  <2>1. /\ act[q].at = "none" /\ \A u \in Threads \ {q} : act'[u] = act[u]
        /\ UNCHANGED <<channelVars, listenerVars, reader>>
    BY <1>2 DEF Request, ReqSetRadioState, Goto, CallSetRadioState, TypeOK
  <2> QED BY <2>1, ReadersAreThreads
          DEF Watched, Guards, Closing, channelVars, listenerVars
<1>3. ASSUME NEW r \in Readers, ReaderStep(r) \/ ReadLine(r) PROVE Watched'
  <2>1. reader'[r].at # "none" \/ act'[r].at = "failed"
    BY <1>3, ReadersAreThreads
       DEF ReaderStep, ReaderLoop, ReadResponse, ReadLine, ReadEof, EndReader,
           At, Goto, In, TypeOK
  <2> QED BY <2>1 DEF Watched, Guards
<1>4. CASE OpenDevice \/ ResetStatus
  BY <1>4 DEF OpenDevice, ResetStatus, Watched, Started, Asleep
<1>5. CASE ATStartReadLoop
  <2>1. \E r \in Readers : reader'[r].at # "none"
    BY <1>5 DEF ATStartReadLoop, TypeOK
  <2> QED BY <2>1 DEF Watched, Guards
<1>6. CASE ModemInit
  <2>1. /\ act[Listener].at = "none" /\ listener \in Started
        /\ \A u \in Threads \ {Listener} : act'[u] = act[u]
        /\ UNCHANGED <<channelVars, reader>>
    BY <1>6 DEF ModemInit, Goto, CallSetRadioState, TypeOK, Started
  <2> QED BY <2>1, ReadersAreThreads DEF Watched, Guards, Closing, channelVars
<1>7. CASE WaitAtClose
  BY <1>7 DEF WaitAtClose, Watched, Guards, Closing, Started, Asleep, callVars,
              channelVars
<1> QED BY <1>1, <1>2, <1>3, <1>4, <1>5, <1>6, <1>7, CallKeepsWatched
        DEF Next, ListenerStep

(* A loss that is marked while the listener is between its look and its    *)
(* wait is still to be told, until the signal that is missed.              *)
LEMMA CallKeepsTold ==
  ASSUME TypeOK, LossIsTold, NEW t \in Threads, CallStep(t)
  PROVE  LossIsTold'
<1> SUFFICES ASSUME atStatus', listener' \in Asleep
             PROVE  missed' \/ \E u \in Threads : Telling(u)'
  BY DEF LossIsTold
<1>1. \A u \in Threads \ {t} : act'[u] = act[u]
  BY OthersStay
<1>2. CASE MarkLost(t)
  <2>1. act'[t].at = "forget"
    BY <1>2 DEF MarkLost, Goto, In, TypeOK
  <2> QED BY <2>1 DEF Telling
<1>3. CASE ForgetFd(t)
  <2>1. act'[t].at = "setRadio"
    BY <1>3 DEF ForgetFd, Goto, In, TypeOK
  <2> QED BY <2>1 DEF Telling
<1>4. CASE SignalLoss(t)
  <2>1. missed'
    BY <1>4 DEF SignalLoss, WakeListener, Asleep
  <2> QED BY <2>1
<1>5. CASE OnReaderClosed(t) \/ ATCloseReadLoop(t) \/ Quiet(t)
  <2>1. atStatus' = atStatus
    BY <1>5 DEF OnReaderClosed, ATCloseReadLoop, Quiet, channelVars
  <2>2. act[t].at \notin {"forget", "setRadio"}
    BY <1>5, <2>1 DEF OnReaderClosed, ATCloseReadLoop, Quiet
  <2>3. listener \in Asleep /\ missed' = missed
    BY <1>5 DEF OnReaderClosed, ATCloseReadLoop, Quiet, listenerVars, Asleep
  <2>4. missed \/ \E u \in Threads : Telling(u)
    BY <2>1, <2>3 DEF LossIsTold
  <2> QED BY <1>1, <2>2, <2>3, <2>4 DEF Telling
<1> QED BY <1>2, <1>3, <1>4, <1>5, CallCases

LEMMA StepKeepsTold == TypeOK /\ LossIsTold /\ [Next]_vars => LossIsTold'
<1> SUFFICES ASSUME TypeOK, LossIsTold, [Next]_vars PROVE LossIsTold'
  OBVIOUS
<1>1. CASE UNCHANGED vars \/ LoseDevice
  BY <1>1 DEF vars, LoseDevice, callVars, channelVars, listenerVars, LossIsTold,
              Telling
<1>2. ASSUME NEW q \in Requests, Request(q) \/ ReqSetRadioState(q)
      PROVE  LossIsTold'
  <2>1. /\ act[q].at = "none" /\ \A u \in Threads \ {q} : act'[u] = act[u]
        /\ UNCHANGED <<channelVars, listenerVars>>
    BY <1>2 DEF Request, ReqSetRadioState, Goto, CallSetRadioState, TypeOK
  <2> QED BY <2>1 DEF LossIsTold, Telling, channelVars, listenerVars
<1>3. ASSUME NEW r \in Readers, ReaderStep(r) \/ ReadLine(r) PROVE LossIsTold'
  <2>1. /\ act[r].at = "none" /\ \A u \in Threads \ {r} : act'[u] = act[u]
        /\ UNCHANGED <<atStatus, listener, missed>>
    BY <1>3 DEF ReaderStep, ReaderLoop, ReadResponse, ReadLine, ReadEof,
         EndReader, At, Goto, TypeOK, callVars, channelVars, listenerVars
  <2> QED BY <2>1 DEF LossIsTold, Telling
<1>4. CASE OpenDevice \/ ResetStatus \/ ATStartReadLoop \/ ModemInit
  BY <1>4 DEF OpenDevice, ResetStatus, ATStartReadLoop, ModemInit, LossIsTold,
              Asleep
<1>5. CASE WaitAtClose
  <2>1. CASE listener = "check"
    BY <1>5, <2>1 DEF WaitAtClose, LossIsTold, Asleep, channelVars
  <2>2. CASE listener = "decided"
    BY <1>5, <2>2 DEF WaitAtClose, LossIsTold, Asleep, Telling, callVars,
                      channelVars
  <2> QED BY <1>5, <2>1, <2>2 DEF WaitAtClose
<1> QED BY <1>1, <1>2, <1>3, <1>4, <1>5, CallKeepsTold DEF Next, ListenerStep

-----------------------------------------------------------------------------
LEMMA InitInv == Init => Inv
<1> SUFFICES ASSUME Init PROVE Inv
  OBVIOUS
<1>1. TypeOK
  <2>1. In("none") \in Acts
    BY DEF In, Acts, Call, RadioState
  <2>2. reader \in [Readers -> ReaderStates]
    BY DEF Init, NoRead, ReaderStates
  <2> QED BY <2>1, <2>2 DEF Init, TypeOK, Acts, ReaderStates, RadioState
<1>2. ClosedIsPassing /\ Watched /\ LossIsTold
  BY DEF Init, ClosedIsPassing, Watched, LossIsTold, Started, Asleep
<1> QED BY <1>1, <1>2 DEF Inv

LEMMA SpecInv == Spec => []Inv
<1>1. Inv /\ [Next]_vars => Inv'
  BY StepKeepsTypes, StepKeepsClosed, StepKeepsWatched, StepKeepsTold DEF Inv
<1> QED BY InitInv, <1>1, PTL DEF Spec

(* Types, for any number of threads and descriptors: a reader reads an     *)
(* open file of the process or none.                                       *)
THEOREM LifecycleTypes == Spec => []TypeOK
<1>1. Inv => TypeOK
  BY DEF Inv
<1> QED BY <1>1, SpecInv, PTL

(* The adapter never waits for a modem that nobody listens to, however     *)
(* readers, requests and the listener meet in AtOnUnusual.                 *)
THEOREM ChannelIsNeverDeaf == Spec => []NoDeafChannel
<1>1. Inv => NoDeafChannel
  BY DEF Inv, Watched, NoDeafChannel, Started, Asleep
<1> QED BY <1>1, SpecInv, PTL

(* The signal between the look at g_atStatus and the wait is the one way   *)
(* to sleep through a loss.                                                *)
THEOREM OnlyMissedSignals == Spec => []SleepsOnlyThroughMissedSignal
<1>1. Inv => SleepsOnlyThroughMissedSignal
  BY DEF Inv, LossIsTold, SleepsOnlyThroughMissedSignal, Asleep
<1> QED BY <1>1, SpecInv, PTL
=============================================================================
