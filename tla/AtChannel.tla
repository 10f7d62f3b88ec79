----------------------------- MODULE AtChannel -----------------------------
(***************************************************************************)
(* The AT command channel of the vendor library (at_support.c): several    *)
(* threads send commands, one reader thread takes the lines the modem      *)
(* writes and either hands them to the one command that is pending or      *)
(* reports them as unsolicited.  One session of the channel is modelled,   *)
(* from the opening of the device to its loss.                             *)
(*                                                                         *)
(* A line is matched with the pending command by its form and by g_prefix  *)
(* only, nothing in it names the command.  The field "of" of a line is the *)
(* command the modem wrote it for; the code never reads it.                *)
(***************************************************************************)
EXTENDS Integers, Sequences, FiniteSets

CONSTANTS
  Senders,          \* threads that call SendCommand*Lock
  Requesters,       \* those among them that run requests (SMS, search)
  Nobody,           \* no thread
  Prefixes,         \* prefixes of intermediate lines ("+CREG:", "^DCONN:")
  NoPrefix,         \* NULL passed for a prefix
  Digits,           \* the form of a line that starts with a digit
  SpuriousWakeups,  \* may pthread_cond_timedwait return without a signal?
  MaxCommands,      \* bound: calls of SendCommand*Lock
  Mishaps,          \* which of "urc", "timeout" and "fault" happen
  MaxMishaps        \* bound: how often, altogether

ASSUME SenderAssumption ==
  /\ Requesters \subseteq Senders
  /\ Nobody \notin Senders

(* TaskSchedule holds dispatchMutex through a request, so that there is    *)
(* one thread at most that runs one.                                       *)
ASSUME RequestAssumption == \A s, t \in Requesters : s = t

ASSUME PrefixAssumption == NoPrefix \notin Prefixes

ASSUME BoundAssumption ==
  /\ SpuriousWakeups \in BOOLEAN
  /\ MaxCommands \in Nat /\ MaxMishaps \in Nat

VARIABLES
  mutex,         \* g_commandmutex: who keeps it between two steps, or Nobody
  pc,            \* where each sending thread is
  cmd,           \* the command each thread is sending, or sent last
  owner,         \* whose g_response is allocated; Nobody: g_response is NULL
  lines,         \* g_response->head: the intermediate lines collected
  result,        \* g_response->result
  prefix,        \* g_prefix
  smsPdu,        \* g_smsPdu: whose PDU it points to, or Nobody
  atPause,       \* g_isNeedATPause
  readerClosed,  \* g_readerClosed; in one session also: g_atFd is -1
  signalled,     \* g_commandcond was signalled and the waiter has not run
  reader,        \* the reader thread: where it is, its line, its isPrefix
  outcome        \* what SendCommandNoLock last returned to each thread

VARIABLES modem, wire   \* commands the modem has, lines it has written

VARIABLES               \* history, for the bounds and the properties
  issued,        \* commands numbered so far
  spent,         \* mishaps so far
  spoken,        \* commands for which the modem wrote an intermediate line
  abandoned,     \* commands whose thread returned before their last line
  disturbed,     \* commands whose g_prefix or g_smsPdu another thread set
  promptUses     \* which PDU was written for the prompt of which command

threadVars  == <<mutex, pc, cmd, outcome>>
commandVars == <<owner, lines, result, prefix, smsPdu, atPause>>
modemVars   == <<modem, wire, spoken>>
historyVars == <<issued, spent, abandoned, disturbed, promptUses>>
vars == <<threadVars, commandVars, readerClosed, signalled, reader,
          modemVars, historyVars>>

-----------------------------------------------------------------------------
(* Data *)

Tags     == Prefixes \union {NoPrefix, Digits}
LineKind == {"none", "data", "prompt", "final"}
Line     == [kind : LineKind, tag : Tags, of : Nat]
NoLine   == [kind |-> "none", tag |-> NoPrefix, of |-> 0]
Final(l) == l.kind = "final"   \* IsResponseSuccess or IsResponseError

CommandKind == {"plain", "sms", "search", "resync"}
Command     == [id : Nat, kind : CommandKind, prefix : Tags]
NoCommand   == [id |-> 0, kind |-> "plain", prefix |-> NoPrefix]

Errors  == {"none", "success", "pending", "closed", "generic", "timeout"}
Outcome == [id : Nat, err : Errors, with : Line, lines : SUBSET Line]
Return(c, e) == [id |-> c.id, err |-> e, with |-> NoLine, lines |-> {}]

(* An unsolicited line, a wait that times out, a write that fails or the   *)
(* loss of the device.                                                     *)
Mishap(kind) ==
  /\ kind \in Mishaps
  /\ spent < MaxMishaps
  /\ spent' = spent + 1

Waiting(s) == pc[s] \in {"waiting", "resync"}
Waiters    == {s \in Senders : Waiting(s)}

(* pthread_cond_signal: it is lost when nobody waits.                      *)
Signal == signalled' = (Waiters # {})

TypeOK ==
  /\ mutex \in Senders \union {Nobody}
  /\ pc \in [Senders -> {"idle", "waiting", "resync", "resynced",
                         "clearPdu", "failed"}]
  /\ cmd \in [Senders -> Command]
  /\ outcome \in [Senders -> Outcome]
  /\ owner \in Senders \union {Nobody}
  /\ lines \in SUBSET Line
  /\ result \in Line
  /\ prefix \in Tags
  /\ smsPdu \in Senders \union {Nobody}
  /\ atPause \in BOOLEAN /\ readerClosed \in BOOLEAN /\ signalled \in BOOLEAN
  /\ reader \in [pc : {"reading", "matched", "eof", "dead"},
                 line : Line, isPrefix : BOOLEAN]
  /\ modem \in Seq(Command) /\ wire \in Seq(Line)
  /\ issued \in Nat /\ spent \in Nat
  /\ spoken \in SUBSET Nat /\ abandoned \in SUBSET Nat
  /\ disturbed \in SUBSET Nat
  /\ promptUses \in SUBSET [pdu : Nat, prompt : Nat]

Init ==
  /\ mutex = Nobody
  /\ pc = [s \in Senders |-> "idle"]
  /\ cmd = [s \in Senders |-> NoCommand]
  /\ outcome = [s \in Senders |-> Return(NoCommand, "none")]
  /\ owner = Nobody /\ lines = {} /\ result = NoLine
  /\ prefix = NoPrefix /\ smsPdu = Nobody /\ atPause = FALSE
  /\ readerClosed = FALSE /\ signalled = FALSE
  /\ reader = [pc |-> "reading", line |-> NoLine, isPrefix |-> FALSE]
  /\ modem = << >> /\ wire = << >> /\ spoken = {}
  /\ issued = 0 /\ spent = 0
  /\ abandoned = {} /\ disturbed = {} /\ promptUses = {}

-----------------------------------------------------------------------------
(* SendCommandNoLock, as far as the wait.  The caller holds the mutex and  *)
(* has numbered the command c.                                             *)

(* NewResponseInfo finds g_response allocated: AT_ERR_COMMAND_PENDING.     *)
RefusePending(s, c) ==
  /\ owner # Nobody
  /\ outcome' = [outcome EXCEPT ![s] = Return(c, "pending")]
  /\ disturbed' = disturbed \union {cmd[owner].id}
  /\ UNCHANGED <<owner, lines, result, modem, spent>>

(* WriteATCommand fails, on a closed descriptor or with an error of write; *)
(* ClearCurCommand frees the response that NewResponseInfo just allocated. *)
FailWrite(s, c) ==
  /\ owner = Nobody
  /\ \/ /\ readerClosed
        /\ outcome' = [outcome EXCEPT ![s] = Return(c, "closed")]
        /\ UNCHANGED spent
     \/ /\ ~readerClosed
        /\ Mishap("fault")
        /\ outcome' = [outcome EXCEPT ![s] = Return(c, "generic")]
  /\ UNCHANGED <<owner, lines, result, modem, disturbed>>

(* Faulty variants, here and below, for the mutation tests of the          *)
(* properties.  NewResponseInfo with malloc in place of calloc.            *)
WriteCommandUninitialised(s, c) ==
  /\ owner = Nobody
  /\ ~readerClosed
  /\ owner' = s
  /\ lines' = {}
  /\ result' = [NoLine EXCEPT !.kind = "garbage"]
  /\ modem' = Append(modem, c)
  /\ UNCHANGED <<disturbed, outcome, spent>>

(* NewResponseInfo without the check for a pending command.                *)
WriteCommandUnchecked(s, c) ==
  /\ ~readerClosed
  /\ owner' = s
  /\ lines' = {}
  /\ result' = NoLine
  /\ modem' = Append(modem, c)
  /\ UNCHANGED <<disturbed, outcome, spent>>

WriteCommand(s, c) ==
  /\ owner = Nobody
  /\ ~readerClosed
  /\ owner' = s
  /\ lines' = {}
  /\ result' = NoLine
  /\ modem' = Append(modem, c)
  /\ disturbed' = IF smsPdu \in {Nobody, s} THEN disturbed
                  ELSE disturbed \union {c.id}
  /\ UNCHANGED <<outcome, spent>>

(* Where a thread goes when SendCommandNoLock returned e: the SMS variant  *)
(* still has to clear g_smsPdu, SendCommandLock calls OnReaderClosed on    *)
(* AT_ERR_GENERIC, and after the resynchronising "AT" SendCommandLock goes *)
(* on with the command proper.                                             *)
After(c, e) ==
  IF c.kind = "sms" THEN "clearPdu"
  ELSE IF c.kind = "resync" THEN "resynced"
  ELSE IF c.kind = "plain" /\ e = "generic" THEN "failed"
  ELSE "idle"

NumberCommand(s, c) ==
  /\ issued' = c.id
  /\ cmd' = [cmd EXCEPT ![s] = c]

(* g_prefix and g_smsPdu are set before SendCommandNoLock looks whether a  *)
(* command is pending; ClearCurCommand resets g_prefix when it is not and  *)
(* the write fails.                                                        *)
Issue(s, c) ==
  /\ NumberCommand(s, c)
  /\ smsPdu' = IF c.kind = "sms" THEN s ELSE smsPdu
  /\ \/ /\ RefusePending(s, c)
        /\ prefix' = c.prefix
        /\ pc' = [pc EXCEPT ![s] = After(c, "pending")]
     \/ /\ FailWrite(s, c)
        /\ prefix' = NoPrefix
        /\ pc' = [pc EXCEPT ![s] = After(c, outcome'[s].err)]
     \/ /\ WriteCommand(s, c)
        /\ prefix' = c.prefix
        /\ pc' = [pc EXCEPT ![s] = "waiting"]

-----------------------------------------------------------------------------
(* The sending threads *)

MayEnter(s) == pc[s] = "idle" /\ mutex = Nobody /\ issued < MaxCommands

(* SendCommandLock, when no pause was asked for.                           *)
SendCommandLock(s) ==
  /\ MayEnter(s)
  /\ ~atPause
  /\ \E p \in Prefixes \union {NoPrefix} :
       Issue(s, [id |-> issued + 1, kind |-> "plain", prefix |-> p])
  /\ UNCHANGED <<mutex, atPause, signalled, readerClosed, reader, wire,
                 spoken, abandoned, promptUses>>

(* SendCommandLock, when the network search left g_isNeedATPause set: it   *)
(* wakes the waiter and first sends "AT".  That may find a command pending *)
(* or fail, and then the command proper follows at once; g_prefix is not   *)
(* touched until then.  g_atWatch belongs to the network search.           *)
SendCommandLockPaused(s) ==
  LET at == [id |-> issued + 1, kind |-> "resync", prefix |-> NoPrefix] IN
  /\ MayEnter(s)
  /\ atPause
  /\ Signal
  /\ NumberCommand(s, at)
  /\ \/ /\ RefusePending(s, at)
        /\ pc' = [pc EXCEPT ![s] = "resynced"]
        /\ mutex' = s
        /\ UNCHANGED prefix
     \/ /\ FailWrite(s, at)
        /\ pc' = [pc EXCEPT ![s] = "resynced"]
        /\ mutex' = s
        /\ prefix' = NoPrefix
     \/ /\ WriteCommand(s, at)
        /\ pc' = [pc EXCEPT ![s] = "resync"]
        /\ UNCHANGED <<mutex, prefix>>
  /\ UNCHANGED <<smsPdu, atPause, readerClosed, reader, wire, spoken,
                 abandoned, promptUses>>

(* The rest of SendCommandLock after the resynchronisation, still under    *)
(* the mutex.                                                              *)
SendAfterResync(s) ==
  /\ pc[s] = "resynced"
  /\ atPause' = FALSE
  /\ mutex' = Nobody
  /\ \E p \in Prefixes \union {NoPrefix} :
       Issue(s, [id |-> issued + 1, kind |-> "plain", prefix |-> p])
  /\ UNCHANGED <<signalled, readerClosed, reader, wire, spoken, abandoned,
                 promptUses>>

SendCommandNetWorksLock(s) ==
  /\ MayEnter(s)
  /\ s \in Requesters
  /\ atPause' = TRUE
  /\ \E p \in Prefixes :
       Issue(s, [id |-> issued + 1, kind |-> "search", prefix |-> p])
  /\ UNCHANGED <<mutex, signalled, readerClosed, reader, wire, spoken,
                 abandoned, promptUses>>

(* Faulty: an SMS sent by a thread that does not hold dispatchMutex.       *)
SendCommandSmsLockAnywhere(s) ==
  /\ MayEnter(s)
  /\ \E p \in Prefixes :
       Issue(s, [id |-> issued + 1, kind |-> "sms", prefix |-> p])
  /\ UNCHANGED <<mutex, atPause, signalled, readerClosed, reader, wire,
                 spoken, abandoned, promptUses>>

SendCommandSmsLock(s) ==
  /\ MayEnter(s)
  /\ s \in Requesters
  /\ \E p \in Prefixes :
       Issue(s, [id |-> issued + 1, kind |-> "sms", prefix |-> p])
  /\ UNCHANGED <<mutex, atPause, signalled, readerClosed, reader, wire,
                 spoken, abandoned, promptUses>>

(* SendCommandNoLock leaves its wait with e: g_response is NULL again.  The*)
(* thread that sent the resynchronising "AT" keeps the mutex.              *)
LeaveWait(s, e, l, ls) ==
  /\ owner' = Nobody /\ lines' = {} /\ result' = NoLine
  /\ outcome' = [outcome EXCEPT ![s] =
                   [id |-> cmd[s].id, err |-> e, with |-> l, lines |-> ls]]
  /\ abandoned' = IF l.of = cmd[s].id /\ Final(l)
                    THEN abandoned ELSE abandoned \union {cmd[s].id}
  /\ pc' = [pc EXCEPT ![s] = After(cmd[s], e)]
  /\ mutex' = IF cmd[s].kind = "resync" THEN s ELSE Nobody
  /\ signalled' = FALSE
  /\ UNCHANGED <<cmd, smsPdu, atPause, readerClosed, reader, modemVars,
                 issued, disturbed, promptUses>>

(* The waiter runs and the condition of its loop is false.  It hands over  *)
(* whatever g_response holds, even when the channel is closed.             *)
WakeUp(s) ==
  /\ Waiting(s) /\ mutex = Nobody
  /\ signalled \/ SpuriousWakeups
  /\ \/ /\ readerClosed
        /\ prefix' = NoPrefix
        /\ LeaveWait(s, "closed", result, lines)
     \/ /\ ~readerClosed
        /\ owner = Nobody \/ result # NoLine
        /\ UNCHANGED prefix
        /\ LeaveWait(s, "success", result, lines)
  /\ UNCHANGED spent

(* The waiter runs and waits again.                                        *)
WaitAgain(s) ==
  /\ Waiting(s) /\ mutex = Nobody
  /\ signalled
  /\ owner # Nobody /\ result = NoLine /\ ~readerClosed
  /\ signalled' = FALSE
  /\ UNCHANGED <<threadVars, commandVars, readerClosed, reader, modemVars,
                 historyVars>>

(* Faulty: a timeout that does not call ClearCurCommand.                   *)
TimeOutWithoutClearing(s) ==
  /\ Waiting(s) /\ mutex = Nobody
  /\ Mishap("timeout")
  /\ outcome' = [outcome EXCEPT ![s] = Return(cmd[s], "timeout")]
  /\ abandoned' = abandoned \union {cmd[s].id}
  /\ pc' = [pc EXCEPT ![s] = After(cmd[s], "timeout")]
  /\ mutex' = IF cmd[s].kind = "resync" THEN s ELSE Nobody
  /\ UNCHANGED <<cmd, commandVars, readerClosed, signalled, reader, modemVars,
                 issued, disturbed, promptUses>>

(* pthread_cond_timedwait returns ETIMEDOUT, whatever has arrived since.   *)
TimeOut(s) ==
  /\ Waiting(s) /\ mutex = Nobody
  /\ Mishap("timeout")
  /\ prefix' = NoPrefix
  /\ LeaveWait(s, "timeout", NoLine, {})

(* SendCommandSmsLock resets g_smsPdu, after it has unlocked.              *)
ClearSmsPdu(s) ==
  /\ pc[s] = "clearPdu"
  /\ smsPdu' = Nobody
  /\ pc' = [pc EXCEPT ![s] = "idle"]
  /\ UNCHANGED <<mutex, cmd, outcome, owner, lines, result, prefix, atPause,
                 readerClosed, signalled, reader, modemVars, historyVars>>

(* Faulty: closing without pthread_cond_signal.                            *)
ATCloseReadLoopSilently ==
  /\ mutex = Nobody
  /\ readerClosed' = TRUE
  /\ UNCHANGED signalled

(* OnReaderClosed: within one session closing twice changes nothing.       *)
ATCloseReadLoop ==
  /\ mutex = Nobody
  /\ IF readerClosed THEN UNCHANGED signalled ELSE Signal
  /\ readerClosed' = TRUE

SenderOnReaderClosed(s) ==
  /\ pc[s] = "failed"
  /\ ATCloseReadLoop
  /\ pc' = [pc EXCEPT ![s] = "idle"]
  /\ UNCHANGED <<mutex, cmd, outcome, commandVars, reader, modemVars,
                 historyVars>>

-----------------------------------------------------------------------------
(* The reader thread *)

(* ReadResponse returns a line; ProcessResponse compares it with g_prefix  *)
(* before it takes the mutex.                                              *)
ReadLine ==
  /\ reader.pc = "reading"
  /\ wire # << >>
  /\ reader' = [pc |-> "matched", line |-> Head(wire),
                isPrefix |-> prefix # NoPrefix /\ Head(wire).tag = prefix]
  /\ wire' = Tail(wire)
  /\ UNCHANGED <<threadVars, commandVars, readerClosed, signalled, modem,
                 spoken, historyVars>>

BackToRead ==
  reader' = [pc |-> "reading", line |-> NoLine, isPrefix |-> FALSE]

(* No command is pending: the line is unsolicited whatever it says.        *)
NotifyIdle ==
  /\ reader.pc = "matched" /\ mutex = Nobody
  /\ owner = Nobody
  /\ BackToRead
  /\ UNCHANGED <<threadVars, commandVars, readerClosed, signalled, modemVars,
                 historyVars>>

(* Faulty: the final line is stored but nobody is signalled.               *)
TakeFinalSilently ==
  /\ reader.pc = "matched" /\ mutex = Nobody
  /\ owner # Nobody
  /\ Final(reader.line)
  /\ result' = reader.line
  /\ BackToRead
  /\ UNCHANGED <<threadVars, owner, lines, prefix, smsPdu, atPause,
                 readerClosed, signalled, modemVars, historyVars>>

TakeFinal ==
  /\ reader.pc = "matched" /\ mutex = Nobody
  /\ owner # Nobody
  /\ Final(reader.line)
  /\ result' = reader.line
  /\ Signal
  /\ BackToRead
  /\ UNCHANGED <<threadVars, owner, lines, prefix, smsPdu, atPause,
                 readerClosed, modemVars, historyVars>>

(* The prompt is stored as a result and the PDU follows it, but the waiter *)
(* is not signalled.                                                       *)
TakePrompt ==
  /\ reader.pc = "matched" /\ mutex = Nobody
  /\ owner # Nobody
  /\ reader.line.kind = "prompt" /\ smsPdu # Nobody
  /\ result' = reader.line
  /\ promptUses' = promptUses \union
                     {[pdu |-> cmd[smsPdu].id, prompt |-> reader.line.of]}
  /\ BackToRead
  /\ UNCHANGED <<threadVars, owner, lines, prefix, smsPdu, atPause,
                 readerClosed, signalled, modemVars, issued, spent,
                 abandoned, disturbed>>

(* Lines that are neither final nor the prompt of an SMS being sent.       *)
Other(l) == l.kind = "data" \/ (l.kind = "prompt" /\ smsPdu = Nobody)

(* Faulty: while an SMS is sent no line is collected.                      *)
CollectsOutsideSms == /\ smsPdu = Nobody
                      /\ reader.isPrefix \/ reader.line.tag = Digits

Collects == \/ reader.isPrefix
            \/ reader.line.tag = Digits /\ smsPdu = Nobody

(* AddLinkListNode appends the line to the pending response.               *)
CollectLine ==
  /\ reader.pc = "matched" /\ mutex = Nobody
  /\ owner # Nobody
  /\ Other(reader.line) /\ Collects
  /\ lines' = lines \union {reader.line}
  /\ BackToRead
  /\ UNCHANGED <<threadVars, owner, result, prefix, smsPdu, atPause,
                 readerClosed, signalled, modemVars, historyVars>>

(* IsResponseOtherCases unlocks and reports the line as unsolicited.       *)
NotifyBusy ==
  /\ reader.pc = "matched" /\ mutex = Nobody
  /\ owner # Nobody
  /\ Other(reader.line) /\ ~Collects
  /\ BackToRead
  /\ UNCHANGED <<threadVars, commandVars, readerClosed, signalled, modemVars,
                 historyVars>>

ReaderEof ==
  /\ reader.pc = "reading"
  /\ Mishap("fault")
  /\ reader' = [reader EXCEPT !.pc = "eof"]
  /\ UNCHANGED <<threadVars, commandVars, readerClosed, signalled, modemVars,
                 issued, abandoned, disturbed, promptUses>>

ReaderOnReaderClosed ==
  /\ reader.pc = "eof"
  /\ ATCloseReadLoop
  /\ reader' = [reader EXCEPT !.pc = "dead"]
  /\ UNCHANGED <<threadVars, commandVars, modemVars, historyVars>>

-----------------------------------------------------------------------------
(* The modem answers commands in the order it got them: an intermediate    *)
(* line or none, the prompt if it is an SMS, a final line.                 *)

Write(l) == wire' = Append(wire, l)
ModemUnchanged == UNCHANGED <<threadVars, commandVars, readerClosed,
  signalled, reader, issued, abandoned, disturbed, promptUses>>

FormOf(c) == IF c.prefix = NoPrefix THEN Digits ELSE c.prefix

ModemData ==
  /\ modem # << >> /\ Head(modem).kind # "resync"
  /\ Head(modem).id \notin spoken
  /\ Write([kind |-> "data", tag |-> FormOf(Head(modem)),
            of |-> Head(modem).id])
  /\ spoken' = spoken \union {Head(modem).id}
  /\ ModemUnchanged /\ UNCHANGED <<modem, spent>>

ModemPrompt ==
  /\ modem # << >> /\ Head(modem).kind = "sms"
  /\ Head(modem).id \notin spoken
  /\ Write([kind |-> "prompt", tag |-> NoPrefix, of |-> Head(modem).id])
  /\ modem' = <<[Head(modem) EXCEPT !.kind = "plain"]>> \o Tail(modem)
  /\ ModemUnchanged /\ UNCHANGED <<spoken, spent>>

ModemFinal ==
  /\ modem # << >>
  /\ Write([kind |-> "final", tag |-> NoPrefix, of |-> Head(modem).id])
  /\ modem' = Tail(modem)
  /\ ModemUnchanged /\ UNCHANGED <<spoken, spent>>

ModemUrc ==
  /\ Mishap("urc")
  /\ \E p \in Prefixes : Write([kind |-> "data", tag |-> p, of |-> 0])
  /\ ModemUnchanged /\ UNCHANGED <<modem, spoken>>

-----------------------------------------------------------------------------
SenderStep(s) ==
  \/ SendCommandLock(s)
  \/ SendCommandLockPaused(s)
  \/ SendAfterResync(s)
  \/ SendCommandNetWorksLock(s)
  \/ SendCommandSmsLock(s)
  \/ WakeUp(s)
  \/ WaitAgain(s)
  \/ TimeOut(s)
  \/ ClearSmsPdu(s)
  \/ SenderOnReaderClosed(s)

ReaderStep ==
  \/ ReadLine
  \/ NotifyIdle
  \/ TakeFinal
  \/ TakePrompt
  \/ CollectLine
  \/ NotifyBusy
  \/ ReaderEof
  \/ ReaderOnReaderClosed

ModemStep == ModemData \/ ModemPrompt \/ ModemFinal \/ ModemUrc

Next == (\E s \in Senders : SenderStep(s)) \/ ReaderStep \/ ModemStep

Spec == Init /\ [][Next]_vars

-----------------------------------------------------------------------------
(* Fairness: threads that can run do run, a signalled waiter wakes.  The   *)
(* callers, the modem, faults and timeouts are not fair.                   *)
Fairness ==
  /\ WF_vars(ReadLine \/ NotifyIdle \/ TakeFinal \/ TakePrompt
             \/ CollectLine \/ NotifyBusy \/ ReaderOnReaderClosed)
  /\ \A s \in Senders :
       /\ WF_vars(WakeUp(s) \/ WaitAgain(s))
       /\ WF_vars(SendAfterResync(s))
       /\ WF_vars(ClearSmsPdu(s) \/ SenderOnReaderClosed(s))

FairSpec == Spec /\ Fairness

-----------------------------------------------------------------------------
(* Properties *)

(* g_response belongs to exactly one thread and that thread is in          *)
(* pthread_cond_timedwait: no two threads ever wait at once, so            *)
(* pthread_cond_signal, which wakes one thread, cannot wake the wrong one, *)
(* and nobody waits for a response that somebody else took away.           *)
OneOwner ==
  /\ \A s \in Senders : Waiting(s) <=> owner = s
  /\ \A s \in Senders : pc[s] = "resynced" <=> mutex = s

(* What a thread gets back as the response to its command was written for  *)
(* that command or unsolicited, or for one whose thread had returned       *)
(* before its final line: the modem's answers shift by one only after a    *)
(* timeout or an early return, never by an interleaving of live threads    *)
(* (ProcessResponse against SendCommandNoLock).                            *)
CrossedAnswersWereAbandoned ==
  \A s \in Senders : \A l \in {outcome[s].with} \union outcome[s].lines :
    l.of \in {0, outcome[s].id} \union abandoned

(* The PDU of an SMS is written for the prompt of that SMS, unless the     *)
(* prompt is that of an SMS given up earlier: g_smsPdu never lets the text *)
(* of one message into the dialogue of another that is still waited for.   *)
PromptsGetTheirPdu ==
  \A u \in promptUses : u.pdu = u.prompt \/ u.prompt \in abandoned

(* A command that got its own final line also got the intermediate line    *)
(* the modem wrote for it, unless another thread set g_prefix or g_smsPdu  *)
(* under it, which SendCommandLock does before it finds out that a command *)
(* is pending.                                                             *)
LinesLostOnlyWhenDisturbed ==
  \A s \in Senders :
    LET o == outcome[s] IN
    /\ o.err = "success" /\ Final(o.with) /\ o.with.of = o.id
    /\ o.id \in spoken \ disturbed
    => \E l \in o.lines : l.of = o.id

(* The thread comes back from every command that the modem answers, with   *)
(* no timeout to rescue it: no signal of the reader is lost on the way.    *)
AnsweredSendersReturn ==
  ([]<>(modem = << >>)) =>
    \A s \in Senders : Waiting(s) ~> ~Waiting(s)

(* Losing the device releases the waiting thread even if the modem never   *)
(* answers (ATCloseReadLoop signals g_commandcond under the mutex).        *)
ClosedChannelReleases ==
  \A s \in Senders : (readerClosed /\ Waiting(s)) ~> ~Waiting(s)

(* The code collects a line for the pending command only if it carries the *)
(* prefix that command asked for, or starts with a digit: what the         *)
(* knowledge base says when it calls g_prefix synchronised by              *)
(* g_commandmutex.  ProcessResponse reads g_prefix before it locks.        *)
CollectedLinesMatchPrefix ==
  \A l \in lines : l.tag \in {cmd[owner].prefix, Digits}

(* The channel is a single command slot.                                   *)
Slot == INSTANCE CommandSlot WITH
  holder <- owner,
  next   <- issued,
  call   <- [s \in Senders |-> cmd[s].id],
  reply  <- [s \in Senders |-> [id |-> outcome[s].id, err |-> outcome[s].err]]

(* Every call takes the slot or is refused, pending exactly when the slot  *)
(* is taken, and only the thread that took it frees it, answering its own  *)
(* last call.                                                              *)
ImplementsSlot == Slot!Spec
=============================================================================
