-------------------------- MODULE ChannelLifecycle --------------------------
(***************************************************************************)
(* Opening, losing and reopening the AT device (vendor_adapter.c and the   *)
(* start and close of the reader in at_support.c).  The listener thread    *)
(* opens the device, starts a reader thread, initialises the modem and     *)
(* sleeps until g_atStatus says that the channel is lost.  Whichever       *)
(* thread meets the loss first runs AtOnUnusual: a reader whose read       *)
(* fails, or a sender whose write fails.                                   *)
(*                                                                         *)
(* The matching of answers is in AtChannel; here a command is sent and     *)
(* then succeeds, times out or finds the channel closed.  0 stands for a   *)
(* descriptor of -1.                                                       *)
(***************************************************************************)
EXTENDS Integers, FiniteSets

CONSTANTS
  Listener,     \* the thread of EventListeners
  Requests,     \* threads that run requests
  Readers,      \* names for reader threads
  NoReader,     \* g_reader before the first reader
  Descriptors,  \* what open returns: positive numbers
  MaxFaults     \* bound: lost devices and failed writes

ASSUME ThreadAssumption ==
  /\ Listener \notin Requests \union Readers
  /\ Requests \intersect Readers = {}
  /\ NoReader \notin Readers

ASSUME DescriptorAssumption ==
  Descriptors \subseteq Nat \ {0} /\ MaxFaults \in Nat

Threads == {Listener} \union Requests \union Readers

VARIABLES
  fd,            \* g_fd
  atFd,          \* g_atFd
  readerClosed,  \* g_readerClosed
  newest,        \* g_reader
  atStatus,      \* g_atStatus is 1: the channel was lost
  radio,         \* g_radioState
  listener,      \* where EventListeners is
  reader,        \* where each reader is, and the descriptor of its read
  act            \* the call each thread is in: SendCommandLock, AtOnUnusual,
                 \* SetRadioState with its newState and oldState

VARIABLES        \* the kernel
  open,          \* descriptors open in the process
  gone           \* descriptors whose device has gone

VARIABLES
  faults,        \* for the bound
  missed         \* history: the listener was signalled of a loss when it had
                 \* looked at g_atStatus and did not wait yet

callVars     == <<act, radio>>
channelVars  == <<fd, atFd, readerClosed, newest, atStatus>>
kernelVars   == <<open, gone, faults>>
listenerVars == <<listener, missed>>
vars == <<callVars, channelVars, listenerVars, reader, kernelVars>>

-----------------------------------------------------------------------------
RadioState == {"unavailable", "off", "on"}

(* The steps of a call: sending a command and waiting for its answer, also *)
(* the AT+CFUN of SetRadioState; OnReaderClosed; AtOnUnusual;              *)
(* SetRadioState.  What it reports to the upper layer is left out.         *)
Call == {"none", "send", "sent", "cfun", "cfunSent", "failed", "close",
         "status", "forget", "setRadio", "change"}

TypeOK ==
  /\ fd \in Descriptors \union {0} /\ atFd \in Descriptors \union {0}
  /\ readerClosed \in BOOLEAN /\ atStatus \in BOOLEAN
  /\ newest \in Readers \union {NoReader}
  /\ radio \in RadioState
  /\ listener \in {"open", "reset", "start", "init", "radio", "check",
                   "decided", "asleep"}
  /\ reader \in [Readers ->
       [at : {"none", "created", "call", "eof"}, fd : {0}]
         \union [at : {"reading"}, fd : Descriptors]]
  /\ act \in [Threads -> [at : Call, new : RadioState, old : RadioState]]
  /\ open \in SUBSET Descriptors /\ gone \in SUBSET Descriptors
  /\ faults \in Nat /\ missed \in BOOLEAN

NoRead == [at |-> "none", fd |-> 0]

(* A thread at step a of a call with no radio state to set.                *)
In(a) == [at |-> a, new |-> "off", old |-> "off"]

Init ==
  /\ fd = 0 /\ atFd = 0
  /\ readerClosed = FALSE /\ atStatus = FALSE
  /\ newest = NoReader
  /\ radio = "unavailable"
  /\ listener = "open"
  /\ reader = [r \in Readers |-> NoRead]
  /\ act = [t \in Threads |-> In("none")]
  /\ open = {} /\ gone = {} /\ faults = 0 /\ missed = FALSE

(* Thread t goes on with step a of its call.                               *)
Goto(t, a) == act' = [act EXCEPT ![t] = In(a)]

(* Works(d): a write to d reaches the modem.                               *)
Works(d) == d \in open \ gone

-----------------------------------------------------------------------------
(* SendCommandLock, for a command (from = "send") and for the AT+CFUN of   *)
(* SetRadioState (from = "cfun").                                          *)

InFlight == \E t \in Threads : act[t].at \in {"sent", "cfunSent"}
Sent(from) == IF from = "send" THEN "sent" ELSE "cfunSent"

(* The newest reader may not send, a command may be pending, the channel   *)
(* may be closed; AT+CFUN is not sent when somebody has already changed    *)
(* g_radioState back.                                                      *)
RefuseSend(t, from) ==
  /\ act[t].at = from
  /\ \/ from = "cfun" /\ radio = act[t].old
     \/ t = newest
     \/ InFlight
     \/ atFd = 0
     \/ Works(atFd) /\ readerClosed
  /\ Goto(t, "none")
  /\ UNCHANGED <<radio, channelVars, listenerVars, reader, kernelVars>>

MaySend(t, from) ==
  /\ act[t].at = from
  /\ from = "cfun" => radio # act[t].old
  /\ t # newest /\ ~InFlight /\ atFd # 0

(* write fails: AT_ERR_GENERIC, on a descriptor that does not work or by a *)
(* fault of the line.                                                      *)
FailSend(t, from) ==
  /\ MaySend(t, from)
  /\ \/ ~Works(atFd) /\ UNCHANGED faults
     \/ Works(atFd) /\ faults < MaxFaults /\ faults' = faults + 1
  /\ Goto(t, "failed")
  /\ UNCHANGED <<radio, channelVars, listenerVars, reader,
                 open, gone>>

Send(t, from) ==
  /\ MaySend(t, from)
  /\ Works(atFd) /\ ~readerClosed
  /\ Goto(t, Sent(from))
  /\ UNCHANGED <<radio, channelVars, listenerVars, reader, kernelVars>>

(* The wait ends: an answer has come, the channel is closed, or the time   *)
(* is over; the callers here go on alike.                                  *)
EndSend(t, from) ==
  /\ act[t].at = Sent(from)
  /\ Goto(t, "none")
  /\ UNCHANGED <<radio, channelVars, listenerVars, reader, kernelVars>>

-----------------------------------------------------------------------------
(* OnReaderClosed, AtOnUnusual *)

OnReaderClosed(t) ==
  /\ act[t].at = "failed"
  /\ Goto(t, IF readerClosed THEN "none" ELSE "close")
  /\ UNCHANGED <<radio, channelVars, listenerVars, reader, kernelVars>>

ATCloseReadLoop(t) ==
  /\ act[t].at = "close"
  /\ open' = open \ {atFd}
  /\ atFd' = 0
  /\ readerClosed' = TRUE
  /\ Goto(t, "status")
  /\ UNCHANGED <<radio, fd, newest, atStatus, listenerVars,
                 reader, gone, faults>>

MarkLost(t) ==
  /\ act[t].at = "status"
  /\ atStatus' = TRUE
  /\ Goto(t, "forget")
  /\ UNCHANGED <<radio, fd, atFd, readerClosed, newest,
                 listenerVars, reader, kernelVars>>

ForgetFd(t) ==
  /\ act[t].at = "forget"
  /\ fd' = 0
  /\ Goto(t, "setRadio")
  /\ UNCHANGED <<radio, atFd, readerClosed, newest, atStatus,
                 listenerVars, reader, kernelVars>>

-----------------------------------------------------------------------------
(* SetRadioState *)

CallSetRadioState(t, newState) ==
  act' = [act EXCEPT ![t] = [In("setRadio") EXCEPT !.new = newState]]

(* g_statusCond: if the listener waits, it looks at g_atStatus again.  A   *)
(* wait that ends with no signal is allowed to pthread_cond_wait but never *)
(* owed, and is left out.                                                  *)
WakeListener == listener' = IF listener = "asleep" THEN "check" ELSE listener

(* Faulty: a lost channel is refused and the listener not told.            *)
SignalLossSilently(t) ==
  /\ act[t].at = "setRadio"
  /\ atStatus
  /\ Goto(t, "none")
  /\ UNCHANGED <<radio, channelVars, listenerVars, reader, kernelVars>>

(* The channel is lost: signal, without g_statusMutex, and give up.        *)
SignalLoss(t) ==
  /\ act[t].at = "setRadio"
  /\ atStatus
  /\ WakeListener
  /\ missed' = (missed \/ listener = "decided")
  /\ Goto(t, "none")
  /\ UNCHANGED <<radio, channelVars, reader, kernelVars>>

SeeChannel(t) ==
  /\ act[t].at = "setRadio"
  /\ ~atStatus
  /\ act' = [act EXCEPT ![t].at = "change"]
  /\ UNCHANGED <<radio, channelVars, listenerVars, reader, kernelVars>>

(* g_statusMutex is free: the listener is not between its look at          *)
(* g_atStatus and pthread_cond_wait.                                       *)
ChangeRadio(t) ==
  /\ act[t].at = "change"
  /\ listener # "decided"
  /\ IF radio = act[t].new
       THEN Goto(t, "none") /\ UNCHANGED <<radio, listenerVars>>
       ELSE /\ act' = [act EXCEPT ![t].at = "cfun", ![t].old = radio]
            /\ radio' = act[t].new
            /\ WakeListener
            /\ UNCHANGED missed
  /\ UNCHANGED <<channelVars, reader, kernelVars>>

-----------------------------------------------------------------------------
(* The listener: EventListeners, ModemInit, WaitAtClose *)

(* The loop around open: g_fd is read again after open, and a device that  *)
(* is not there is a retry.  A descriptor stands for an open file, so one  *)
(* that a reader still reads is not given out again.                       *)
OpenDevice ==
  /\ listener = "open"
  /\ \/ /\ fd # 0
        /\ listener' = "reset"
        /\ UNCHANGED <<fd, open, gone>>
     \/ /\ fd = 0
        /\ \E d \in Descriptors \ (open \union {reader[r].fd : r \in Readers}) :
             /\ fd' = d
             /\ open' = open \union {d}
             /\ gone' = gone \ {d}
        /\ UNCHANGED listener
  /\ UNCHANGED <<callVars, atFd, readerClosed, newest, atStatus, reader,
                 faults, missed>>

ResetStatus ==
  /\ listener = "reset"
  /\ atStatus' = FALSE
  /\ listener' = "start"
  /\ UNCHANGED <<callVars, fd, atFd, readerClosed, newest, reader, kernelVars,
                 missed>>

ATStartReadLoop ==
  /\ listener = "start"
  /\ atFd' = fd
  /\ \E r \in Readers :
       /\ reader[r].at = "none" /\ act[r].at = "none"
       /\ reader' = [reader EXCEPT ![r] = [at |-> "created", fd |-> 0]]
       /\ newest' = r
  /\ listener' = "init"
  /\ UNCHANGED <<callVars, fd, readerClosed, atStatus, kernelVars, missed>>

(* ModemInit: its commands, one of which is modelled, then the radio on.   *)
ModemInit ==
  /\ act[Listener].at = "none"
  /\ \/ /\ listener = "init"
        /\ Goto(Listener, "send")
        /\ listener' = "radio"
     \/ /\ listener = "radio"
        /\ CallSetRadioState(Listener, "on")
        /\ listener' = "check"
  /\ UNCHANGED <<radio, channelVars, reader, kernelVars, missed>>

(* WaitAtClose: the look at g_atStatus, under g_statusMutex, and the wait. *)
WaitAtClose ==
  /\ act[Listener].at = "none"
  /\ \/ /\ listener = "check"
        /\ listener' = IF atStatus THEN "open" ELSE "decided"
        /\ missed' = FALSE
     \/ /\ listener = "decided"
        /\ listener' = "asleep"
        /\ UNCHANGED missed
  /\ UNCHANGED <<callVars, channelVars, reader, kernelVars>>

ListenerStep ==
  OpenDevice \/ ResetStatus \/ ATStartReadLoop \/ ModemInit \/ WaitAtClose

-----------------------------------------------------------------------------
(* The readers: ReaderLoop *)

At(r, a) == reader[r].at = a /\ act[r].at = "none"

(* Faulty: the new reader leaves the channel closed.                       *)
ReaderLoopKeepsClosed(r) ==
  /\ At(r, "created")
  /\ reader' = [reader EXCEPT ![r].at = "call"]
  /\ UNCHANGED <<callVars, channelVars, listenerVars, kernelVars>>

ReaderLoop(r) ==
  /\ At(r, "created")
  /\ readerClosed' = FALSE
  /\ reader' = [reader EXCEPT ![r].at = "call"]
  /\ UNCHANGED <<callVars, fd, atFd, newest, atStatus, listenerVars, kernelVars>>

(* Faulty: an error of read is taken for no data yet.                      *)
ReadResponseUnchecked(r) ==
  /\ At(r, "call")
  /\ reader' = [reader EXCEPT ![r] = [at |-> "reading", fd |-> atFd]]
  /\ UNCHANGED <<callVars, channelVars, listenerVars, kernelVars>>

(* ReadResponse(g_atFd): read fails at once on a descriptor that is closed.*)
ReadResponse(r) ==
  /\ At(r, "call")
  /\ reader' = [reader EXCEPT ![r] =
       IF atFd \in open THEN [at |-> "reading", fd |-> atFd]
                        ELSE [at |-> "eof", fd |-> 0]]
  /\ UNCHANGED <<callVars, channelVars, listenerVars, kernelVars>>

(* A line arrives; read goes on after a close as long as the device does.  *)
ReadLine(r) ==
  /\ At(r, "reading") /\ reader[r].fd \notin gone
  /\ reader' = [reader EXCEPT ![r] = [at |-> "call", fd |-> 0]]
  /\ UNCHANGED <<callVars, channelVars, listenerVars, kernelVars>>

ReadEof(r) ==
  /\ At(r, "reading") /\ reader[r].fd \in gone
  /\ reader' = [reader EXCEPT ![r] = [at |-> "eof", fd |-> 0]]
  /\ UNCHANGED <<callVars, channelVars, listenerVars, kernelVars>>

EndReader(r) ==
  /\ At(r, "eof")
  /\ reader' = [reader EXCEPT ![r] = NoRead]
  /\ Goto(r, "failed")
  /\ UNCHANGED <<radio, channelVars, listenerVars, kernelVars>>

ReaderStep(r) ==
  ReaderLoop(r) \/ ReadResponse(r) \/ ReadEof(r) \/ EndReader(r)

-----------------------------------------------------------------------------
(* Requests and the device *)

Request(q) ==
  /\ act[q].at = "none"
  /\ Goto(q, "send")
  /\ UNCHANGED <<radio, channelVars, listenerVars, reader, kernelVars>>

ReqSetRadioState(q) ==
  /\ act[q].at = "none"
  /\ \E s \in {"off", "on"} : CallSetRadioState(q, s)
  /\ UNCHANGED <<radio, channelVars, listenerVars, reader, kernelVars>>

LoseDevice ==
  /\ faults < MaxFaults
  /\ faults' = faults + 1
  /\ open # {}
  /\ gone' = gone \union open \union ({reader[r].fd : r \in Readers} \ {0})
  /\ UNCHANGED <<callVars, channelVars, listenerVars, reader, open>>

CallStep(t) ==
  \/ \E from \in {"send", "cfun"} : \/ RefuseSend(t, from) \/ FailSend(t, from)
                                    \/ Send(t, from) \/ EndSend(t, from)
  \/ OnReaderClosed(t) \/ ATCloseReadLoop(t) \/ MarkLost(t) \/ ForgetFd(t)
  \/ SignalLoss(t) \/ SeeChannel(t) \/ ChangeRadio(t)

Next ==
  \/ ListenerStep
  \/ \E t \in Threads : CallStep(t)
  \/ \E r \in Readers : ReaderStep(r) \/ ReadLine(r)
  \/ \E q \in Requests : Request(q) \/ ReqSetRadioState(q)
  \/ LoseDevice

Spec == Init /\ [][Next]_vars

(* The scheduler runs every thread, the device can be opened again, and    *)
(* the wait for an answer is timed.  Lines, requests and faults need not   *)
(* come.                                                                   *)
Fairness ==
  /\ WF_vars(ListenerStep)
  /\ \A t \in Threads : WF_vars(CallStep(t))
  /\ \A r \in Readers : WF_vars(ReaderStep(r))

FairSpec == Spec /\ Fairness

-----------------------------------------------------------------------------
(* Properties *)

(* Thread r is a reader that will run AtOnUnusual when its read fails.     *)
Guards(r) == reader[r].at # "none" \/ act[r].at = "failed"

Closing(t) == act[t].at \in {"close", "status"}

(* The adapter never waits for a modem that nobody listens to: when the    *)
(* listener of vendor_adapter.c is at rest and the channel is not marked   *)
(* lost, a reader is on the device, or somebody is about to mark it lost.  *)
NoDeafChannel ==
  listener \in {"decided", "asleep"} /\ ~atStatus =>
    (\E r \in Readers : Guards(r)) \/ (\E t \in Threads : Closing(t))

Telling(t) == act[t].at \in {"forget", "setRadio"}

(* The one way to sleep through a loss: the listener waits in WaitAtClose  *)
(* on a lost channel only while somebody is on the way to signal it, or    *)
(* after a signal between its look at g_atStatus and its wait.             *)
SleepsOnlyThroughMissedSignal ==
  listener = "asleep" /\ atStatus => missed \/ \E t \in Threads : Telling(t)

(* The listener reopens the device after every loss: AtOnUnusual sets      *)
(* g_atStatus and WaitAtClose sees it.                                     *)
LostChannelIsReopened == atStatus ~> ~atStatus
=============================================================================
