# Verification of telephony_ril_adapter

The RIL adapter of OpenHarmony connects the telephony core service, through an
HDI, with a modem that speaks AT commands over a serial device. This directory
holds TLA+ models of the parts of it that are concurrent or keep state, the TLC
configurations that check them, and TLAPS proofs about them. Paths are relative
to the repository; `at_support.c`, `vendor_*.c` and `at_*.c` are in
`services/vendor/src`, `hril_*.cpp` in `services/hril/src`.

## The system

### Threads

| Thread | Code | Runs |
|---|---|---|
| HDI requests | `hril_manager.cpp` `TaskSchedule` | one request at a time, under `dispatchMutex`, down to the vendor function that sends the AT command and waits for its answer |
| reader | `at_support.c` `ReaderLoop` | reads lines, matches them with the pending command or reports them |
| listener | `vendor_adapter.c` `EventListeners` | opens the device, starts a reader, initialises the modem, waits for the loss of the channel |
| event loop | `hril_event.cpp` `EventMessageLoop` | `select`, timers and their callbacks; one callback, `PdpContextListCallback`, sends AT commands |

`dispatchMutex` serialises requests only: the listener (`ModemInit`,
`SetRadioState`) and the event loop send commands beside them. The reader may
not send (`SendCommandLock` refuses the thread `g_reader`).

### Components

For each: its state, its operations, how it meets the others, what is hard, and
what makes it correct.

1. **AT command channel** (`at_support.c`). State: `g_response`, `g_prefix`,
   `g_smsPdu`, `g_isNeedATPause`, `g_readerClosed`, `g_atFd`, under
   `g_commandmutex` (mostly) with `g_commandcond`. Operations: the three
   `SendCommand*Lock`, `ProcessResponse`, `ATStartReadLoop`, `ATCloseReadLoop`.
   Hard: a line does not name its command; timeouts with late answers; state
   read or reset outside the mutex; one condition variable. Correct: one owner
   of the response, answers that reach their command, no lost wakeup.
2. **Channel lifecycle** (`vendor_adapter.c`, start and close in
   `at_support.c`). State: `g_fd`, `g_atStatus`, `g_radioState`, `g_statusMutex`
   with `g_statusCond`, the reader threads. Operations: `EventListeners`,
   `ModemInit`, `AtOnUnusual`, `SetRadioState`, `WaitAtClose`. Hard: several
   threads find the same loss; the loss is signalled without the mutex; old
   readers outlive their device. Correct: a lost channel is noticed and
   reopened, the adapter never rests on a channel that nobody reads.
3. **Running lock** (`hril_manager.cpp`). State: `runningLockCount_`,
   `runningSerialNum_`, `powerInterface_`, the timers of 200 ms. Operations:
   `ApplyRunningLock`, `ReleaseRunningLock` (from `SendRilAck`),
   `RunningLockCallback`. Hard: acknowledgements that name no message, timers
   that overlap, a power service that comes late, timers that get lost.
   Correct: the lock is held exactly while the count says so, protects messages
   that are neither acknowledged nor expired, and is given back.
4. **Request lifecycle** (`hril_manager.cpp`, `hril_base.h`, `hril_base.cpp`).
   State: `requestList_`, `dispatchMutex`, the callbacks, the destroyed flag.
   Operations: `TaskSchedule`, `CreateHRilRequest`, `ReportResponse`,
   `ReleaseHRilRequest`, `SetRilCallback`, `SetHrilManagerDestroy`. Hard: an
   operation that reports twice, later or never; reports from three threads;
   records whose address is used again. Correct: every request is answered
   exactly once and released exactly once.
5. **Event loop** (`hril_event.cpp`, `hril_timer_callback.cpp`). State:
   `timerList_`, `pendingList_`, the table of 8 descriptors, the pipe, `event_`.
   Operations: `AddTimerEvent`, `AddEventMessage`, one round of
   `EventMessageLoop`, the restart, the order to stop. Hard: timers set from
   other threads, a restart that replaces `event_`, an order given through one
   byte. Correct: every timer runs once, in order, a new one wakes the loop, and
   the destructor comes back.
6. **Network search** (`at_network.c`). State:
   `g_reportInfoForOperListToUse`, `g_networkSearchInformationMutex`, the pause
   flag and its mutex, the alarm. Operations: the request, `PerformTimeOut` (a
   signal handler), `GetNetworkSearchInformationPause`,
   `DealNetworkSearchInformation`. Hard: four parties answer one request, two
   mutexes in both orders, a handler that locks. Correct: one answer, no
   deadlock.
7. **HRIL sub-modules** (`hril_call.cpp` and its like) and **vendor handlers**
   (`at_call.c`, `at_sms.c`, `at_sim.c`, `at_modem.c`, `at_data.c`, the rest of
   `at_network.c`): tables of requests, operations and handlers, without state
   of their own. Hard: 125 methods whose four tables (method, operation,
   report, handler) are kept by hand in different files. Correct: each is
   answered, and with the error that there was.
8. **Data calls** (`at_data.c`). The calls are kept by the modem and the kernel;
   what is left is in 7, and the inquiry from a timer is a sender of 1 and 6.
9. **Line framing** (`vendor_channel.c`): the buffer of `ReadResponse`.
10. **Dispatch of unsolicited lines** (`vendor_report.c`): from the prefix of a
    line to a notification.
11. **Registration and start-up** (`hril_hdf.c`, `HRilInit`, `HRilRegOps`) and
    the **interfaces** (`hril_request.h`, `hril_notification.h`,
    `hril_vendor_*_defs.h`): once, on one thread; tables of codes and operations.

`PROJECT.json` lists all of these with their status, and under `hazards` what
can go wrong in each at the line where it does.

## The modules

| Module | Models | Kind |
|---|---|---|
| `AtChannel` | component 1, one session of the device | detailed specification |
| `CommandSlot` | what component 1 promises a caller | abstract specification |
| `AtChannelProofs`, `AtAnswersProofs` | | theorems |
| `ChannelLifecycle` | component 2, across sessions | detailed specification |
| `ChannelLifecycleProofs` | | theorems |
| `RunningLock` | component 3 and the timers it needs of 5 | detailed specification |
| `RunningLockProofs` | | theorems |
| `HrilDispatch` | component 4, one slot, tables as parameters | detailed specification |
| `RequestLedger` | what component 4 promises the client | abstract specification |
| `HrilDispatchProofs` | | theorems |
| `CallHandlers`, `DataHandlers`, `ModemHandlers`, `SmsHandlers`, `SimHandlers`, `NetworkHandlers` | component 7, the HRIL side: requests and handlers | tables |
| `HrilTables` | the methods of `HRilManager` and all tables of the HRIL together | tables |
| `VendorReports` | component 7, the vendor side: what each operation reports | tables |
| `VendorOps`, `HrilCodes` | component 11: operations, which of them are registered, codes, lock policy | tables |
| `Payloads` | what a report carries, and the kinds of handlers | operators |
| `HrilAnswers` | what 4 and 7 make of each request together, and what that asks of the tables | properties |
| `HrilAnswersProofs` | | theorems |
| `NetworkSearch` | component 6, with what it needs of 1 | detailed specification |
| `NetworkSearchProofs` | | theorems |
| `EventLoop` | component 5 | detailed specification |
| `TimerService` | what component 5 promises to who sets a timer | abstract specification |
| `EventLoopProofs` | | theorems |
| `MCAtChannel`, `MCChannelLifecycle`, `MCHrilTables`, `MCHrilDispatch` | | instances for TLC |

Definitions named `...Unchecked`, `...Silently` and the like, each marked
"Faulty", are wrong versions of the definition that follows them. No
specification uses them: they are the mutations with which it was tried that
each property fails when the code is wrong.

### AtChannel

State. One variable per global of `at_support.c`: `owner`, `lines` and `result`
are `g_response` (allocated or not, its list, its result), `prefix`, `smsPdu`,
`atPause`, `readerClosed` the globals of these names. `mutex` is
`g_commandmutex`, but only where it is kept between two steps: a step runs from
one point where another thread may interfere to the next, and the code holds
the mutex in between. `signalled` stands for a signal of `g_commandcond` that
the waiter has not acted on; there is never more than one waiter (`OneOwner`),
so a flag is enough. `reader` keeps the line and the `isPrefix` that
`ProcessResponse` computes before it locks. The modem and the line to it are the
environment.

Actions. `SendCommandLock`, `SendCommandNetWorksLock` and `SendCommandSmsLock`
run up to the wait; `SendCommandLockPaused` and `SendAfterResync` are
`SendCommandLock` when a search has asked for a pause, before and after the
`AT` it sends first; `WakeUp`, `WaitAgain` and `TimeOut` are the three things
that happen in the loop around `pthread_cond_timedwait`. `ClearSmsPdu` is apart
because the code does it after it unlocks. The reader has `ReadLine` (with the
comparison outside the mutex) and then one action per branch of
`ProcessResponse`.

Data. A line is its form (intermediate, prompt, final), its prefix and, for the
properties only, the command that the modem wrote it for. A response holds the
set of its intermediate lines. An unsolicited SMS and its PDU are one line. The
modem writes at most one intermediate line per command. Callers: threads in
`Requesters` hold `dispatchMutex` one at a time, so one is enough; the other
threads never send SMS or search.

`CommandSlot` says what is left of it for a caller: a call takes the slot or is
refused, as pending exactly when the slot is taken; only the holder gives it
back; each call is answered under its own number. `AtChannel` implements it
with `holder <- owner`.

### ChannelLifecycle

State: `fd` and `atFd` are `g_fd` and `g_atFd` (0 for -1), the others carry
their names. `listener` is where `EventListeners` is, with the look of
`WaitAtClose` at `g_atStatus` (`decided`) apart from its wait (`asleep`).
`reader` is where each reader thread is and which file it reads. `act` is the
call a thread is in: `SendCommandLock`, `OnReaderClosed`, `AtOnUnusual` and
`SetRadioState` are the same for every thread, one step per access of shared
state. The kernel keeps which files are open and whose device has gone; a
descriptor stands for an open file, the reuse of its number is left out. An
answer, a timeout and a closed channel are one step (`EndSend`), since no caller
here goes on differently; what they mean for the command is in `AtChannel`.
`missed` is a history variable.

Not in it: `sleep(1)` before `WaitAtClose` and the retries of `open`, which only
take time; the one thread that may call `ModemInit` sends one command for the 25
of the code.

### RunningLock

A message that takes the lock is named by the value that `runningSerialNum_`
gets. `timers` and `due` are `timerList_` and `pendingList_`; as all timers run
200 ms, their order is the order of the messages. `held` is what the power
service believes. `EventLoop` and `RestartEventLoop` are there because timers
set before the first are dropped and those set before the second are lost.
`Init` leaves open whether `HRilInit` found the power service, and `SendBare`
whether `ApplyRunningLock` finds it. The acknowledgements are the upper layer:
each message is acknowledged at most once, in any order, at any time.

### HrilDispatch and the tables

State. `task` is the call that holds `dispatchMutex`. `heap` are the request
records by address, freed and used again; `requestList` holds code and address
as `requestList_` does, so that `ListIsHeap` can fail. `kept` is the pointer the
search leaves in `g_reportInfoForOperListToUse`. `report` is the report each of
the three threads (the task, the reader, the alarm handler) is in the middle of.
`callback` is set per sub-module, as `SetRilCallback` goes through them one by
one. `asked`, `exchange`, `answers`, `notice` and `raced` are history.

Actions. `Refuse`, `NotImplemented` and `CreateHRilRequest` are the ways a
method begins; `Operate` is the operation of the vendor library with one of the
outcomes its table gives; a report is `ReadRecord` (with what is in the record,
or was, if it has been freed), `ReleaseRecord` and `ProcessResponse`, where other
threads may come between. `TakeKept` is the deferred report of a search.
`ReportNotification`, `SetRilCallback` with `SetNextCallback`, and
`SetHrilManagerDestroy` are the others.

The tables say per method which sub-module, request code and operation it has;
per operation what it reports when the exchange with the modem is done and when
it fails, and to which sub-module (`VendorReports`); per code what the handler
forwards, and where it puts in an error or takes one out. A record is what the
handlers test of it: whether the pointer is null, how the length relates to one
record, whether the record itself names a failure. Fields, text and conversion
are left out. `SendRilAck` and the count of the lock are `RunningLock`.

`RequestLedger` is what the client is promised: refused at once, or open,
withdrawn once, settled once, told at most once. `HrilDispatch` implements it
with the status of a request computed from the records that are live and the
reports under way. The promise ends with `raced`: the reader and the alarm
handler have both begun to report on one search.

### NetworkSearch

State: the three mutexes, the pause flag, whether `g_atWatch` is set, whether
the alarm runs, the kept request and its error, `g_response` (whose) and
`g_prefix` (`+COPS:` or not), the lists the modem still owes. `host` is the
thread that the signal handler runs on top of, which cannot go on before the
handler has ended. The request thread, one other sender, the reader and the
handler have a program counter each. Every step lies between two accesses to
shared state; `SetAtPauseFlag(false)` is two steps (`LockFlag`, `ClearFlag`),
since a handler can arrive between them.

A command is reduced to the ends of its exchange, which are those of `AtChannel`,
and a report to one step, whose steps `HrilDispatch` has. A signal on an idle
thread is the same as one on a thread outside this part. The request of a search
and the taking of its first mutex are one step.

`lapses` is a history of the ways in which a search loses its alarm or its flag;
`Stuck` defines a set of threads that wait for each other.

### EventLoop

State: the lists, the table (one slot is enough: the pipe is the only descriptor
the program listens to) and the stop order of the current `event_`, which is
named by the number of the start that made it; the pipe, by the same number;
`until` and `ready`, with which `select` was entered and left. `Forever` stands
for no timeout.

Actions: the start from the thread to the pipe; one round of `EventMessageLoop`
from `GetNextTimeOut` to the end of the pending list; `SelectInterrupted` and
`SelectFails`; a timer set by another thread (read `event_`, add, write a byte)
or by a callback; the destructor of `HRilManager`. Between reading the clock in
`GetNextTimeOut` and entering `select` no time passes.

`TimerService` promises one callback per timer, after its time, in the order of
the times, and that timers are lost only while the loop is not up. `EventLoop`
implements it with the timers of both lists.

## The runs

| Run | Checks | Result |
|---|---|---|
| `channel` | `TypeOK`, `OneOwner`, `CrossedAnswersWereAbandoned`, `PromptsGetTheirPdu`, `LinesLostOnlyWhenDisturbed`, `ImplementsSlot` | hold, 3.2 million states |
| `channel_live` | `AnsweredSendersReturn`, `ClosedChannelReleases` | hold |
| `channel_prefix` | `CollectedLinesMatchPrefix` | violated |
| `running_lock` | `TypeOK`, `HeldWhileCounted`, `FreeWhenAllAcked`, `CountsTheSharing`, `FreshProtectedUnlessStray`, `ArmedLockIsReleased` | hold |
| `running_lock_fresh` | `FreshProtected` | violated |
| `lifecycle` | `TypeOK`, `NoDeafChannel`, `SleepsOnlyThroughMissedSignal`, no deadlock | hold, 2.5 million states |
| `lifecycle_lost` | `LostChannelIsReopened` | violated |
| `dispatch` | `TypeOK`, `ListIsHeap`, `AnsweredOnce`, `LeaksAreSilent`, `DestroyWaitsForTheTask`, `ImplementsLedger`, `RequestsSettle` | hold, 576 thousand states |
| `dispatch_tables` | `UnansweredAreKnown`, `QuietFailuresAreKnown`, `DoneIsNoError`, `NoticesHoldTheLock` | hold for every method and notification, 142 thousand states |
| `dispatch_failures` | `FailuresCarryTheirError` | violated |
| `network_search` | `TypeOK`, `OnlyTheHandlerMeets`, `OthersListsAreLate`, `SearchIsGuarded`, `FlagMeansSearch`, `CyclesAreKnown`, `SearchesEnd` | hold, 1.7 million states |
| `event_loop` | `TypeOK`, `SleepsOnlyIfNothingToDo`, `ImplementsTimerService`, `TimersEnd`, `JoinReturns` | hold, 430 thousand states |

**What holds.** Answers of the modem shift to another command only after a
command was given up (a timeout, the prompt of an SMS taken for its result);
threads that interleave do not cause it. No sender waits for a signal that was
already given. The count of the running lock and the lock agree at all times,
and never outlive the last acknowledgement; a lock that a timer was armed for is
given back unless the event loop starts again. The listener never rests while
the channel is unread, and sleeps through a loss in one way only. A request is
listed exactly while its record lives, is answered at most once, and is settled
unless its operation is one of those that return without a report, as long as
reader and alarm do not meet over a search. A search is answered, unless it had
one of the lapses named below or threads are stuck in one of two ways. The loop
calls timers back in order and never sleeps over one.

**What does not.**
- `CollectedLinesMatchPrefix`: `ProcessResponse` reads `g_prefix` (line 162)
  before it locks (163). A line compared with the prefix of one command can be
  collected for the next. `docs/knowledge/expert/concurrency.md:8` calls
  `g_prefix` synchronised.
- `FreshProtected`: `SendRilAck` names no message. The acknowledgement of a
  message that never had a share in the lock, or lost it to the timer, takes
  the share of another, whose 200 ms still run
  (`docs/knowledge/expert/concurrency.md:19`). `FreshProtectedUnlessStray` shows
  that this is the only way.
- `LostChannelIsReopened`: `SetRadioState` (207-208) signals a loss without
  `g_statusMutex`. If that falls between the look of `WaitAtClose` at
  `g_atStatus` and its wait, the listener sleeps on
  (`docs/knowledge/expert/concurrency.md:9` promises the reconnect). A later
  `SetRadioState` of a request signals again and repairs it; nothing else does,
  so the run has no requests. `SleepsOnlyThroughMissedSignal` shows that this
  is the only way.
- `FailuresCarryTheirError`: several operations report a failed exchange as a
  success (they do not look at the response, or take the error number of a bare
  `ERROR`, which has none), or the handler clears the error, against
  `docs/knowledge/expert/defect-patterns.md:43-44`. `QuietFailuresAreKnown`
  shows that the 14 methods of `QuietMethods` are all.

**Exceptions that the properties name.** The properties of the new components
hold with exceptions that are part of their statement, so that one more would
violate them.
- Requests never answered (`SilentMethods`, `DroppedMethods`): eight operations
  return without a report on an error path, three reports find no handler or one
  that drops them.
- Searches. A request that waits for the answer of its search holds the mutex of
  the search, while another sender that pauses the search waits for it under the
  mutex of the command: from the second search on, both stop for good. The
  handler of the alarm waits for `g_atPauseFlagMutex`, which the thread it
  interrupted may hold. A repeated request turns the alarm of the running search
  off (`"repeat"`). A command that pauses before `SetWatchFunction` has run
  takes flag and alarm from the search and tells nobody (`"unwatched"`).
  `signal` may fail (`"no handler"`), and a handler of the search before may be
  late (`"late handler"`). Two answers, or one with the error of another end,
  come of the handler alone, which reports with no mutex. The list of a search
  that had ended is reported to the next; one that comes while a response is
  pending under `+COPS:` is thrown away. The list of a search that had not ended
  is reported to another only after a late handler: it has taken the search for
  its own and lets it go unanswered, and the list ends the search after that.
- The event loop. The destructor does not come back from `join` when its order
  went to an `event_` that was replaced after it, when its byte found no pipe of
  the present start, or when `FdTriggerCallback` read that byte together with
  the one that woke the loop. A timer set through an `event_` that has been
  replaced goes to freed memory. A destructor that runs after the thread was
  made and before `event_` ends the process, as the thread object is joinable.

Seen while modelling, and stated by no document: two readers can come to read
one file, when an old reader outlives its device and goes on with the new
`g_atFd`; and a reopened file can be left open, when a second thread is still
in `AtOnUnusual`, sets `g_fd` to -1, and the listener opens another.

### Bounds

- `channel`: two senders are a request and a background thread, and no more can
  be in the channel at a time that behave differently (a third would be refused
  like the second). Three commands: one given up, one that gets its late answer,
  one after. One mishap (unsolicited line, timeout, failed write, loss), two
  prefixes. Prefixes are symmetric.
- `channel_live`: no timeouts, no spurious wakeups, no unsolicited lines, as
  each would rescue a lost signal or only take time; the loss of the device
  remains.
- `running_lock`: five messages allow two that share, one bare, one expired and
  one newer at once. One restart.
- `lifecycle`: two readers, an old one and its successor; the listener waits for
  a name to become free, where the code could start a third. One request thread
  besides the listener and the readers. One fault: its consequences (stale
  descriptors, failed reads of closed files) lose the channel again and again
  without another. Two files at a time. Readers are symmetric.

- `dispatch`: two requests and two addresses, so that a record can be freed and
  used again under a report that still has its address; three methods: the
  search, one that may return silently, and one that the vendor library lacks.
  Two registrations: a client that comes and one that takes its place. Before it
  starts, TLC also evaluates `TablesAgree` for every method and notification
  (`EveryTableAgrees`), which the theorems about `HrilAnswers` ask for.
- `dispatch_tables`, `dispatch_failures`: every method, one request and one
  address, since the question is what the tables make of one request; a client
  is registered all along.
- `network_search`: two searches, since the mutexes are taken in both orders
  from the second on, and a list can be late for the second only; one other
  command, by either sender. More commands only repeat the pause. The exception
  of `OthersListsAreLate` for a late handler needs a third search; a run of three
  searches and no other command (2.3 million states) meets it, and the theorem
  covers every number.
- `event_loop`: two timers that can be equal, earlier or later than each other,
  a clock of 0 to 2 with delays of 0 and 1 (due is strictly after), two starts,
  two threads that set timers.

No run but `lifecycle` checks deadlock: in the others the bounds end the
behaviour (commands, messages, requests, timers), or the device is gone for
good, or, in `network_search`, the threads can stop for good in the two ways
that `CyclesAreKnown` states.

### Fairness

- `AtChannel!Fairness`: the reader takes a line that is there, a signalled
  waiter runs, a thread between two steps of a call goes on. This is the
  scheduler. The modem, callers, faults and timeouts are not fair; where an
  answer is needed (`AnsweredSendersReturn`) it is a premise.
- `RunningLock!Fairness`: time passes and the event loop runs its callbacks. No
  acknowledgement is assumed.
- `ChannelLifecycle!Fairness`: the listener (with the device there to be opened
  again), every thread within a call, every reader whose read can return. An
  end of the wait for an answer is fair because that wait is timed. Lines,
  requests and faults are not.
- `HrilDispatch!Fairness`: an operation returns, since each wait in it is timed,
  and a report that has begun goes on. Calls, the report of a search,
  notifications and registrations are not fair.
- `NetworkSearch!Fairness`: threads run, waits time out, and an alarm that runs
  goes off. Nobody has to call, and the modem owes nothing: `SearchesEnd` rests
  on the alarm.
- `EventLoop!Fairness`: time passes; the loop, a thread that is setting a timer
  and the destructor go on. `EINTR` and failures of `select` are not fair.

## The proofs

`tlapm` proves the following for all values of the constants that satisfy the
named assumptions, the bounds included. `SenderAssumption`, `ThreadAssumption`
and `NamesAssumption` say that the names of threads and the special values
differ; `BoundAssumption` and `DescriptorAssumption` that bounds are numbers;
`TablesAssumption` that the tables of `HrilDispatch` are tables of the right
kind, with no failed exchange that defers its report, and that `"Network"` is a
sub-module. `RequestAssumption` says that there is one thread of `Requesters` at
most, which is what `dispatchMutex` makes of the request threads (`TaskSchedule`
locks it around a request); with two of them, an SMS refused as pending would
leave its PDU in `g_smsPdu` for the prompt of the one that is waited for, and
`PromptsGetTheirPdu` would be false.
`PrefixAssumption` says that a prefix is not `NULL`. TLC evaluates each of them
in the runs.

Every module proves one inductive invariant (`Inv`; the two modules that build
on another's, `AtAnswersProofs` and `HrilAnswersProofs`, add to it in
`AnswersInv`), by a lemma for `Init` and one for a step, which is split by
action and conjunct. The theorems are its conjuncts or follow from it in a step.

Liveness is not proved, but where it rests on one fact about steps, that fact is:
`WakeUpsAreNotLost`, `LockKeepsItsTimer`, `LoopNeverOversleeps` and
`KeptSearchIsGuarded` say that whoever waits is signalled, timed or guarded, and
that only a lapse which the property names ends that.

`AtChannelProofs`. `Inv` is `TypeOK` and `OneOwner`; it is inductive as it is.
`OneOwner` relates the program counters to the owner of the response, and types
are needed because most actions move records between variables.
- `ChannelTypes`, `ResponseHasOneOwner`: the two conjuncts. The lemmas follow
  the code: what `Issue` keeps in any of its callers, the callers, the ways out
  of the wait, the reader, the modem.
- `ChannelIsASlot`: the refinement of `CommandSlot`. Writing a command is
  `Accept`, the two refusals are `Refuse`, leaving the wait is `Complete`
  (here `OneOwner` is needed: the thread that leaves is the holder), all else
  stutters.
- `WakeUpsAreNotLost`: a thread that waits while its final line is stored, or its
  channel is closed, has a signal it has not acted on (`NoWakeUpIsLost`,
  inductive with `Inv`). `OneOwner` says that somebody is there to be signalled;
  a channel that is closed allocates no response; and a prompt that takes the
  place of a stored final line leaves the signal where it is.

`AtAnswersProofs` adds to that `Inv` who the lines are for that are under way:
on the wire, with the reader, collected. No such property is inductive alone,
because a thread that gives up leaves its command and its lines behind.
- The final line is the last of its command (`FinalIsLast`): the modem has a
  command once, and when its final line is on the wire, with the reader or stored,
  nothing of that command follows. So whoever leaves with his own final line
  leaves nothing behind, and all that he otherwise leaves is in `abandoned`.
- What is under way is unsolicited, given up, or of the command that is waited
  for (`OneIsAwaited`). Hence `AnswersReachTheirCommand`.
- `g_smsPdu` is of a request still in `SendCommandSmsLock` (`SmsOwns`), and a
  prompt of the awaited command means that this is an SMS (`AsSent`); as one
  thread at most sends those, it is the same. Hence `PromptsFindTheirPdu`.
- As long as no other thread has set `g_prefix` or `g_smsPdu`, the line that the
  modem wrote for the awaited command is collected, on the wire, or with the
  reader, which has found it to match (`Collecting`). `ProcessResponse` makes that
  comparison before it locks; the proof shows why this does no harm to a command
  that is undisturbed: its `g_prefix` is set before the modem has the command.
  Hence `LinesAreCollected`.

The lemmas about the two queues (`Receives`, `Prompts`, `Finishes`, `Writes`,
`Reads`) say what is in them after a step; `Calls`, `LeaveKeepsAnswers`,
`QuietKeepsAnswers` and `SpeakKeepsAnswers` each stand for all the actions of one
kind. The strengthening was checked with TLC on the bounds of `channel` first.

`ChannelLifecycleProofs`. `NoDeafChannel` speaks of a listener at rest, so it is
not inductive: `Watched` says the same from the start of the reader on.
`ClosedIsPassing` says that a closed channel whose loss is not marked has a
thread about to mark it or a reader about to open it; without it a thread could
find the channel closed, leave it to another that does not exist, and take the
last guard with it. `LossIsTold` is `SleepsOnlyThroughMissedSignal` from the look
at `g_atStatus` on.
- `LifecycleTypes`, `ChannelIsNeverDeaf`, `OnlyMissedSignals`.

`RunningLockProofs`. `Inv` adds two facts that no property states and that the
induction needs: before the power service is found nothing is counted
(`CountedWithPower`), and timers run out in the order of their messages
(`TimersInOrder`), so that the callback of the newest message ends every share
there is, and the serial of a running timer is never one that was let go.
- `LockTypes`, `LockFollowsCount`, `LastAckFreesLock`, `CountIsExact`: its
  conjuncts. The cardinalities are those of the sets of messages; the lemmas
  about them come first.
- `FreshIsProtected`: follows from `CountIsExact`, since a fresh message shares
  in the lock and a positive count means a held lock.
- `LockKeepsItsTimer`, an action property (`ArmedUntilReleased`): a held lock whose
  newest message has a timer, running or due, keeps one until it is given back.
  The steps that could break it are a newer message, which brings a timer of its
  own because the loop is up (`TimersNeedLoop`), the callback, which frees the
  lock if its timer is that of the newest message, and the restart, which is the
  exception.

`HrilDispatchProofs`, for any tables. The properties rest on who owns a record
(`Ownership`): the task its own until it has released it, the search the one it
keeps until it is reported, never both the same. `OneOfEach` says that a request
has one record, or one report that has released it, or an answer. Both hold until
`raced`; `Reports` (whom a report belongs to), `ListIsHeap` and
`DestroyWaitsForTheTask` hold beyond it. `Leaks` says that a record which nobody
owns was left by a silent operation; it must also speak of a record that has been
put, at the same address, where the record was that the search has released.
- `DispatchTypes`, `ListFollowsHeap`, `NoSecondAnswer`, `OnlySilenceLeaks`,
  `DestroyWaits`.
- `RequestsFollowTheLedger`: the refinement of `RequestLedger`. The status of a
  request changes in four places: a refusal (`Refuse`), `CreateHRilRequest`
  (`Ask`), `ReleaseRecord` (`Withdraw`), `ProcessResponse` (`Settle`);
  `OneOfEach` gives that no other request changes with it (`OneChanges`). Once
  `raced`, the ledger promises nothing (`Fault`), and `raced` stays.

`HrilAnswersProofs`, for any tables, on top of that `Inv`. `AnswersInv` adds, until
`raced`, where an answer comes from (`Sources`) and the answers themselves
(`AnswersAreTheirOwn`). `Sources` says that the code in a record is the one its
request's method makes, that the kept record is of a method that defers and whose
exchange is done, that each report under way is one which the operation of its
own request gives for how that request's exchange ended, and that a silent
exchange came of an outcome without a report. None of these is inductive alone,
since a report reads its record in one step and releases it in another, and the
address may be used again in between. After `raced` they are false: the second
report can meet a record that is already another's. TLC checked the strengthening
first, with re-registrations and three requests.
- `AnswersComeFromTheirOperation`: whatever a client is told of a request is what
  its own handler makes of a report of its own operation.
- `NoAnswerIsLost`: as long as the client stays registered (`ClientStays`), a
  request that is settled without an answer is one whose handler drops what its
  operation reports (`UnheardAreDropped`, with `AnswersInv` in `HeardInv`). It uses
  the lemmas of the refinement of the ledger: only a refusal and `ProcessResponse`
  settle anything. `ClientsMayStay` shows that the premise is met by every
  behaviour in which the client is there at first and nobody registers.
- `UnansweredAreThoseTheTablesDrop`, `QuietFailuresAreThoseOfTheTables`,
  `ErrorsAreThoseOfTheTables`, `NoticesHoldTheLockTheTablesGive`: the four
  invariants of the run `dispatch_tables`, until `raced` (the last one always), for
  any number of requests, of addresses and of registrations, and for any tables
  that agree. What agreeing means is a hypothesis of each theorem, one conjunct
  or two of `TablesAgree`, which speaks of single methods, reports and
  notifications and of no state: for instance `QuietIsKnown`, that no handler
  outside `QuietMethods` makes a success of a report that its operation gives when
  it fails. TLC evaluates `TablesAgree` on the tables of the program for all 125
  methods and all notifications in `dispatch`; with any one exception taken off
  the lists of `HrilAnswers` it is false.

`NetworkSearchProofs`, for any number of searches and commands. Three layers,
each resting on the one before.
- Places and mutexes (`Places`, `Holders`): which thread can be where, and that a
  mutex is held exactly in its sections. `TwoWaysToStop` follows from these
  alone: whoever is stuck waits for a mutex, so `Holders` bounds who holds what,
  and every set but the two named ones has a member that can go on.
- The answers (`Values`, `Answered`): nobody but the handler has reported the
  kept search before it is let go (`Unreported`), and its error is nobody's
  (`ErrorIsFresh`). Hence `OneAnswerButForTheHandler`.
- The alarm and the flag (`Guarded`): while nothing has lapsed, who takes the flag
  down or the alarm off is on his way to end the search. The eight parts are about
  each other's steps and only hold together. Hence `KeptSearchIsGuarded` and
  `FlagAndAlarmAgree`.
- The lists (`Late`): a list still to come is of the search that is kept or being
  begun, or of one that has been answered (`ListsKnown`), as a search is answered
  before it is let go (`Heard`). Hence `ForeignListsAreLate`.

`EventLoopProofs`. `TimersInOrder` orders the list by deadline and then by number,
which makes the order of equal deadlines that of their setting; the lemma
`AddTimerPuts` says where `AddTimer` puts a timer, `DueTimersMove` what
`ProcessTimerList` takes out. `PendingInOrder` puts all that is being called back
before all that is listed. `TimersAwaken`: a timer that is due before `select`
ends was set by a thread that has its byte still to write. `OrderArrives` follows
the byte of the destructor. `Starts` says which start made what.
- `EventLoopTypes`, `LoopNeverOversleeps`.
- `TimersAreServed`: the refinement of `TimerService`. `AddTimer` is `Set`, a
  callback is the abstract callback of the first of all waiting timers (needing
  both orders), a move from list to list stutters, a new `event_` loses what
  waits.

Only model-checked is all liveness (`AnsweredSendersReturn`,
`ClosedChannelReleases`, `ArmedLockIsReleased`, `RequestsSettle`, `SearchesEnd`,
`TimersEnd`, `JoinReturns`), which the proof system does not handle under
fairness. Every invariant of the runs that hold, and every refinement, is proved;
and that the tables of this program agree is a computation, which TLC makes.

## Not modelled

- Line framing: a pure algorithm over the bytes of the buffer, in one thread at
  a time. That a read returns a line or fails is in `ChannelLifecycle`.
- The dispatch of unsolicited lines: comparisons in sequence, without state.
  What comes of it is `ReportNotification`, with every notification.
- The data calls themselves: the modem and the kernel keep them. What the
  operations report is in `VendorReports`.
- The text of commands, the parsing of answers, the conversion of records, logs.
- Loading the vendor library: once, on one thread, before anything else.
- The value of the radio state that `SetRilCallback` hands to a new client.
- The unit and fuzz tests, read as documentation.

## The plan

Done: the channel and its lifecycle, the running lock, requests with the tables
of both sides, the search, the event loop, and proofs about each. Left is
`LineFraming`: the buffer of `ReadResponse` against a reference definition.

## Running

```
tlc -workers 2 -config MCAtChannel.cfg MCAtChannel
tlc -workers 2 -config MCRunningLock.cfg RunningLock
tlc -workers 2 -config MCChannelLifecycle.cfg MCChannelLifecycle
tlc -workers 2 -config MCHrilDispatch.cfg MCHrilDispatch
tlc -workers 2 -config MCHrilTables.cfg MCHrilTables
tlc -workers 2 -config MCNetworkSearch.cfg NetworkSearch
tlc -workers 2 -config MCEventLoop.cfg EventLoop
tlapm AtChannelProofs.tla
tlapm AtAnswersProofs.tla
tlapm RunningLockProofs.tla
tlapm ChannelLifecycleProofs.tla
tlapm HrilDispatchProofs.tla
tlapm HrilAnswersProofs.tla
tlapm NetworkSearchProofs.tla
tlapm EventLoopProofs.tla
```

`MCAtChannelLive.cfg` and `MCAtChannelPrefix.cfg` go with `MCAtChannel`,
`MCRunningLockFresh.cfg` with `RunningLock`, `MCChannelLifecycleLost.cfg` with
`MCChannelLifecycle`, `MCHrilFailures.cfg` with `MCHrilTables`.
