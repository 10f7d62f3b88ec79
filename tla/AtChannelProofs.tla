-------------------------- MODULE AtChannelProofs --------------------------
(***************************************************************************)
(* Proofs about AtChannel: types, the ownership of the pending response,   *)
(* and that the channel implements the single slot of CommandSlot.         *)
(***************************************************************************)
EXTENDS AtChannel, TLAPS

Inv == TypeOK /\ OneOwner

(* After never leads back into a wait, and keeps the mutex only after the  *)
(* resynchronising "AT".                                                   *)
LEMMA AfterType ==
  ASSUME NEW c \in Command, NEW e \in Errors
  PROVE  /\ After(c, e) \in {"idle", "resynced", "clearPdu", "failed"}
         /\ After(c, e) = "resynced" <=> c.kind = "resync"
BY DEF After, Command, CommandKind

LEMMA ReturnType ==
  ASSUME NEW c \in Command, NEW e \in Errors
  PROVE  Return(c, e) \in Outcome
BY DEF Return, Outcome, Command, NoLine, Line, LineKind, Tags

(* Issue in the state of its callers: a command is numbered, the caller    *)
(* waits for it or has its answer.                                         *)
LEMMA IssueKeepsInv ==
  ASSUME Inv, NEW s \in Senders, NEW c \in Command,
         c.kind # "resync", ~Waiting(s),
         \A t \in Senders : pc[t] = "resynced" => t = s,
         mutex' = Nobody, atPause' \in BOOLEAN,
         Issue(s, c),
         UNCHANGED <<signalled, readerClosed, reader, wire, spoken,
                     abandoned, promptUses>>
  PROVE  Inv'
<1> USE DEF Inv
<1>1. /\ c.id \in Nat /\ c.prefix \in Tags
      /\ \A e \in Errors : /\ After(c, e) \in {"idle", "clearPdu", "failed"}
                           /\ Return(c, e) \in Outcome
  BY AfterType, ReturnType DEF Command
<1>2. NoLine \in Line /\ NoPrefix \in Tags
  BY DEF NoLine, Line, LineKind, Tags
<1>3. /\ issued' \in Nat /\ cmd' \in [Senders -> Command]
      /\ smsPdu' \in Senders \union {Nobody}
  BY <1>1 DEF Issue, NumberCommand, TypeOK
<1>4. CASE RefusePending(s, c) /\ prefix' = c.prefix
           /\ pc' = [pc EXCEPT ![s] = After(c, "pending")]
  <2>1. "pending" \in Errors
    BY DEF Errors
  <2>2. TypeOK'
    BY <1>1, <1>3, <1>4, <2>1 DEF TypeOK, RefusePending, Command
  <2>3. OneOwner'
    BY <1>1, <1>4, <2>1, SenderAssumption
       DEF TypeOK, OneOwner, Waiting, RefusePending
  <2> QED BY <2>2, <2>3
<1>5. CASE FailWrite(s, c) /\ prefix' = NoPrefix
           /\ pc' = [pc EXCEPT ![s] = After(c, outcome'[s].err)]
  <2>1. \E e \in Errors : /\ outcome' = [outcome EXCEPT ![s] = Return(c, e)]
                          /\ outcome'[s].err = e
    BY <1>5 DEF FailWrite, Errors, Return, TypeOK
  <2>2. spent' \in Nat /\ disturbed' = disturbed /\ modem' = modem
        /\ owner' = owner /\ lines' = lines /\ result' = result
    BY <1>5 DEF FailWrite, Mishap, TypeOK
  <2>3. TypeOK'
    BY <1>1, <1>2, <1>3, <1>5, <2>1, <2>2 DEF TypeOK
  <2>4. OneOwner'
    BY <1>1, <1>5, <2>1, <2>2, SenderAssumption DEF TypeOK, OneOwner, Waiting
  <2> QED BY <2>3, <2>4
<1>6. CASE WriteCommand(s, c) /\ prefix' = c.prefix
           /\ pc' = [pc EXCEPT ![s] = "waiting"]
  <2>1. TypeOK'
    <3>1. modem' \in Seq(Command)
      BY <1>6 DEF TypeOK, WriteCommand
    <3>2. disturbed' \in SUBSET Nat
      BY <1>1, <1>6 DEF TypeOK, WriteCommand
    <3>3. /\ owner' \in Senders /\ lines' \in SUBSET Line /\ result' \in Line
          /\ outcome' \in [Senders -> Outcome] /\ spent' \in Nat
      BY <1>2, <1>6 DEF TypeOK, WriteCommand
    <3>4. /\ pc' \in [Senders -> {"idle", "waiting", "resync", "resynced",
                                  "clearPdu", "failed"}]
          /\ prefix' \in Tags
      BY <1>1, <1>6 DEF TypeOK
    <3> QED BY <1>3, <3>1, <3>2, <3>3, <3>4 DEF TypeOK
  <2>2. OneOwner'
    BY <1>6, SenderAssumption DEF TypeOK, OneOwner, Waiting, WriteCommand
  <2> QED BY <2>1, <2>2
<1> QED BY <1>4, <1>5, <1>6 DEF Issue

-----------------------------------------------------------------------------
(* The commands the callers issue. *)
LEMMA NewCommandType ==
  ASSUME Inv, NEW k \in CommandKind, NEW p \in Prefixes \union {NoPrefix}
  PROVE  [id |-> issued + 1, kind |-> k, prefix |-> p] \in Command
BY DEF Inv, TypeOK, Command, Tags

LEMMA SendCommandKeepsInv ==
  ASSUME Inv, NEW s \in Senders,
         \/ SendCommandLock(s)
         \/ SendCommandNetWorksLock(s)
         \/ SendCommandSmsLock(s)
         \/ SendAfterResync(s)
  PROVE  Inv'
<1>1. /\ ~Waiting(s)
      /\ \A t \in Senders : pc[t] = "resynced" => t = s
      /\ mutex' = Nobody
      /\ atPause' \in BOOLEAN
      /\ UNCHANGED <<signalled, readerClosed, reader, wire, spoken,
                     abandoned, promptUses>>
  BY SenderAssumption
     DEF Inv, TypeOK, OneOwner, Waiting, MayEnter, SendCommandLock,
         SendCommandNetWorksLock, SendCommandSmsLock, SendAfterResync
<1>2. PICK k \in {"plain", "search", "sms"}, p \in Prefixes \union {NoPrefix} :
        Issue(s, [id |-> issued + 1, kind |-> k, prefix |-> p])
  BY DEF SendCommandLock, SendCommandNetWorksLock, SendCommandSmsLock,
         SendAfterResync
<1> DEFINE c == [id |-> issued + 1, kind |-> k, prefix |-> p]
<1>3. c \in Command /\ c.kind # "resync"
  BY NewCommandType DEF CommandKind
<1> HIDE DEF c
<1> QED BY <1>1, <1>2, <1>3, IssueKeepsInv DEF c

LEMMA ResyncKeepsInv ==
  ASSUME Inv, NEW s \in Senders, SendCommandLockPaused(s)
  PROVE  Inv'
<1> DEFINE at == [id |-> issued + 1, kind |-> "resync", prefix |-> NoPrefix]
<1> USE DEF Inv
<1>1. at \in Command
  BY NewCommandType DEF CommandKind
<1>2. \A e \in Errors : Return(at, e) \in Outcome
  BY <1>1, ReturnType
<1>3. at.id \in Nat
  BY <1>1 DEF Command
<1>4. NoLine \in Line /\ NoPrefix \in Tags
  BY DEF NoLine, Line, LineKind, Tags
<1> HIDE DEF at
<1>5. /\ pc[s] = "idle" /\ mutex = Nobody
      /\ issued' \in Nat /\ cmd' \in [Senders -> Command]
      /\ signalled' \in BOOLEAN
      /\ UNCHANGED <<smsPdu, atPause, readerClosed, reader, wire, spoken,
                     abandoned, promptUses>>
  BY <1>1, <1>3 DEF SendCommandLockPaused, NumberCommand, TypeOK, MayEnter,
                    Signal, at
<1>6. CASE RefusePending(s, at) /\ pc' = [pc EXCEPT ![s] = "resynced"]
           /\ mutex' = s /\ prefix' = prefix
  <2>1. outcome' \in [Senders -> Outcome]
    BY <1>2, <1>6 DEF TypeOK, RefusePending, Errors
  <2>2. TypeOK'
    BY <1>3, <1>5, <1>6, <2>1 DEF TypeOK, RefusePending, Command
  <2>3. OneOwner'
    BY <1>5, <1>6, SenderAssumption
       DEF TypeOK, OneOwner, Waiting, RefusePending
  <2> QED BY <2>2, <2>3
<1>7. CASE FailWrite(s, at) /\ pc' = [pc EXCEPT ![s] = "resynced"]
           /\ mutex' = s /\ prefix' = NoPrefix
  <2>1. outcome' \in [Senders -> Outcome]
    BY <1>2, <1>7 DEF TypeOK, FailWrite, Errors
  <2>2. TypeOK'
    BY <1>4, <1>5, <1>7, <2>1 DEF TypeOK, FailWrite, Mishap
  <2>3. OneOwner'
    BY <1>5, <1>7, SenderAssumption DEF TypeOK, OneOwner, Waiting, FailWrite
  <2> QED BY <2>2, <2>3
<1>8. CASE WriteCommand(s, at) /\ pc' = [pc EXCEPT ![s] = "resync"]
           /\ mutex' = mutex /\ prefix' = prefix
  <2>1. /\ modem' \in Seq(Command)
        /\ disturbed' \in SUBSET Nat
    <3>1. modem' \in Seq(Command)
      BY <1>1, <1>8 DEF TypeOK, WriteCommand
    <3>2. disturbed' \in SUBSET Nat
      BY <1>3, <1>8 DEF TypeOK, WriteCommand
    <3> QED BY <3>1, <3>2
  <2>2. TypeOK'
    BY <1>4, <1>5, <1>8, <2>1 DEF TypeOK, WriteCommand
  <2>3. OneOwner'
    BY <1>5, <1>8, SenderAssumption
       DEF TypeOK, OneOwner, Waiting, WriteCommand
  <2> QED BY <2>2, <2>3
<1> QED BY <1>6, <1>7, <1>8 DEF SendCommandLockPaused, at

LEMMA LeaveWaitKeepsInv ==
  ASSUME Inv, NEW s \in Senders, Waiting(s), mutex = Nobody,
         NEW e \in Errors, NEW l \in Line, NEW ls \in SUBSET Line,
         LeaveWait(s, e, l, ls),
         prefix' \in Tags, spent' \in Nat
  PROVE  Inv'
<1> USE DEF Inv
<1>1. /\ cmd[s] \in Command /\ cmd[s].id \in Nat
      /\ After(cmd[s], e) \in {"idle", "resynced", "clearPdu", "failed"}
      /\ After(cmd[s], e) = "resynced" <=> cmd[s].kind = "resync"
  BY AfterType DEF TypeOK, Command
<1>2. NoLine \in Line
  BY DEF NoLine, Line, LineKind, Tags
<1>3. outcome' \in [Senders -> Outcome]
  BY <1>1 DEF LeaveWait, TypeOK, Outcome
<1>4. TypeOK'
  BY <1>1, <1>2, <1>3 DEF LeaveWait, TypeOK, modemVars
<1>5. OneOwner'
  BY <1>1, SenderAssumption DEF LeaveWait, TypeOK, OneOwner, Waiting
<1> QED BY <1>4, <1>5

LEMMA WaiterKeepsInv ==
  ASSUME Inv, NEW s \in Senders, WakeUp(s) \/ TimeOut(s)
  PROVE  Inv'
<1>1. /\ NoLine \in Line /\ NoPrefix \in Tags
      /\ {"closed", "success", "timeout"} \subseteq Errors
  BY DEF NoLine, Line, LineKind, Tags, Errors
<1>2. /\ Waiting(s) /\ mutex = Nobody
      /\ prefix' \in Tags /\ spent' \in Nat
      /\ result \in Line /\ lines \in SUBSET Line
  BY <1>1 DEF Inv, TypeOK, WakeUp, TimeOut, Mishap
<1>3. PICK e \in Errors, l \in Line, ls \in SUBSET Line :
        LeaveWait(s, e, l, ls)
  BY <1>1, <1>2 DEF WakeUp, TimeOut
<1> QED BY <1>2, <1>3, LeaveWaitKeepsInv

-----------------------------------------------------------------------------
(* The other steps leave the threads' waits and the response's owner alone.*)

LEMMA SenderStepKeepsInv ==
  ASSUME Inv, NEW s \in Senders, SenderStep(s)
  PROVE  Inv'
<1>1. CASE WaitAgain(s)
  BY <1>1 DEF Inv, TypeOK, OneOwner, Waiting, WaitAgain, threadVars,
              commandVars, modemVars, historyVars
<1>2. CASE ClearSmsPdu(s)
  BY <1>2, SenderAssumption
     DEF Inv, TypeOK, OneOwner, Waiting, ClearSmsPdu, modemVars, historyVars
<1>3. CASE SenderOnReaderClosed(s)
  <2>1. signalled' \in BOOLEAN /\ readerClosed' \in BOOLEAN
    BY <1>3 DEF SenderOnReaderClosed, ATCloseReadLoop, Signal, Inv, TypeOK
  <2> QED
    BY <1>3, <2>1, SenderAssumption
       DEF Inv, TypeOK, OneOwner, Waiting, SenderOnReaderClosed, commandVars,
           modemVars, historyVars
<1> QED
  BY <1>1, <1>2, <1>3, SendCommandKeepsInv, ResyncKeepsInv, WaiterKeepsInv
     DEF SenderStep

LEMMA ReaderStepKeepsInv ==
  ASSUME Inv, ReaderStep
  PROVE  Inv'
<1> USE DEF Inv, threadVars, commandVars, modemVars, historyVars
<1>1. NoLine \in Line
  BY DEF NoLine, Line, LineKind, Tags
<1>2. OneOwner' /\ pc' = pc /\ mutex' = mutex /\ owner' = owner
  BY DEF OneOwner, Waiting, ReaderStep, ReadLine, NotifyIdle, TakeFinal,
         TakePrompt, CollectLine, NotifyBusy, ReaderEof, ReaderOnReaderClosed
<1>3. CASE ReadLine
  <2>1. Head(wire) \in Line /\ Tail(wire) \in Seq(Line)
    BY <1>3 DEF ReadLine, TypeOK
  <2> QED BY <1>2, <1>3, <2>1 DEF ReadLine, TypeOK
<1>4. CASE NotifyIdle \/ NotifyBusy
  <2>1. reader' \in [pc : {"reading", "matched", "eof", "dead"},
                   line : Line, isPrefix : BOOLEAN]
    <3>1. BackToRead
      BY <1>4 DEF NotifyIdle, NotifyBusy
    <3> QED BY ONLY <1>1, <3>1 DEF BackToRead
  <2>2. UNCHANGED <<threadVars, commandVars, readerClosed, signalled,
                    modemVars, historyVars>>
    BY <1>4 DEF NotifyIdle, NotifyBusy
  <2>3. TypeOK'
    BY <2>1, <2>2 DEF TypeOK
  <2> QED BY <1>2, <2>3
<1>5. CASE TakeFinal
  <2>1. signalled' \in BOOLEAN
    BY <1>5 DEF TakeFinal, Signal
  <2> QED BY <1>1, <1>2, <1>5, <2>1 DEF TakeFinal, BackToRead, TypeOK
<1>6. CASE TakePrompt
  <2>1. smsPdu \in Senders /\ cmd[smsPdu].id \in Nat /\ reader.line.of \in Nat
    BY <1>6 DEF TakePrompt, TypeOK, Command, Line
  <2>2. promptUses' \in SUBSET [pdu : Nat, prompt : Nat]
    BY <1>6, <2>1 DEF TakePrompt, TypeOK
  <2>3. /\ result' \in Line
        /\ reader' \in [pc : {"reading", "matched", "eof", "dead"},
                       line : Line, isPrefix : BOOLEAN]
    BY <1>1, <1>6 DEF TakePrompt, BackToRead, TypeOK
  <2>4. UNCHANGED <<threadVars, owner, lines, prefix, smsPdu, atPause,
                    readerClosed, signalled, modemVars, issued, spent,
                    abandoned, disturbed>>
    BY <1>6 DEF TakePrompt
  <2>5. TypeOK'
    BY <2>2, <2>3, <2>4 DEF TypeOK
  <2> QED BY <1>2, <2>5
<1>7. CASE CollectLine
  BY <1>1, <1>2, <1>7 DEF CollectLine, BackToRead, TypeOK
<1>8. CASE ReaderEof
  BY <1>2, <1>8 DEF ReaderEof, Mishap, TypeOK
<1>9. CASE ReaderOnReaderClosed
  <2>1. signalled' \in BOOLEAN /\ readerClosed' \in BOOLEAN
    BY <1>9 DEF ReaderOnReaderClosed, ATCloseReadLoop, Signal, TypeOK
  <2> QED BY <1>2, <1>9, <2>1 DEF ReaderOnReaderClosed, TypeOK
<1> QED
  BY <1>3, <1>4, <1>5, <1>6, <1>7, <1>8, <1>9 DEF ReaderStep

LEMMA ModemStepKeepsInv ==
  ASSUME Inv, ModemStep
  PROVE  Inv'
<1> USE DEF Inv, ModemUnchanged, threadVars, commandVars, Write
<1>1. OneOwner'
  BY DEF OneOwner, Waiting, ModemStep, ModemData, ModemPrompt, ModemFinal,
         ModemUrc
<1>2. ASSUME modem # << >>
      PROVE  /\ Head(modem) \in Command /\ Head(modem).id \in Nat
             /\ FormOf(Head(modem)) \in Tags
             /\ Tail(modem) \in Seq(Command)
  <2>1. Head(modem) \in Command /\ Tail(modem) \in Seq(Command)
    BY <1>2 DEF TypeOK
  <2>2. Head(modem).id \in Nat /\ FormOf(Head(modem)) \in Tags
    BY <2>1 DEF Command, FormOf, Tags
  <2> QED BY <2>1, <2>2
<1>3. ASSUME NEW k \in LineKind, NEW t \in Tags, NEW n \in Nat
      PROVE  /\ [kind |-> k, tag |-> t, of |-> n] \in Line
             /\ Append(wire, [kind |-> k, tag |-> t, of |-> n]) \in Seq(Line)
  <2>1. [kind |-> k, tag |-> t, of |-> n] \in Line
    BY DEF Line
  <2> QED BY <2>1 DEF TypeOK
<1>4. NoPrefix \in Tags /\ Prefixes \subseteq Tags
  BY DEF Tags
<1>5. {"data", "prompt", "final"} \subseteq LineKind
  BY DEF LineKind
<1>6. CASE ModemData
  <2>1. wire' \in Seq(Line) /\ spoken' \in SUBSET Nat
    BY <1>2, <1>3, <1>5, <1>6 DEF ModemData, TypeOK
  <2> QED BY <1>1, <1>6, <2>1 DEF ModemData, TypeOK
<1>7. CASE ModemPrompt
  <2>1. [Head(modem) EXCEPT !.kind = "plain"] \in Command
    BY <1>2, <1>7 DEF ModemPrompt, Command, CommandKind
  <2>2. modem' \in Seq(Command)
    BY <1>2, <1>7, <2>1 DEF ModemPrompt, TypeOK
  <2>3. wire' \in Seq(Line)
    BY <1>2, <1>3, <1>4, <1>5, <1>7 DEF ModemPrompt
  <2> QED BY <1>1, <1>7, <2>2, <2>3 DEF ModemPrompt, TypeOK
<1>8. CASE ModemFinal
  <2>1. wire' \in Seq(Line)
    BY <1>2, <1>3, <1>4, <1>5, <1>8 DEF ModemFinal
  <2> QED BY <1>1, <1>2, <1>8, <2>1 DEF ModemFinal, TypeOK
<1>9. CASE ModemUrc
  <2>1. wire' \in Seq(Line) /\ spent' \in Nat
    BY <1>3, <1>4, <1>5, <1>9 DEF ModemUrc, Mishap, TypeOK
  <2> QED BY <1>1, <1>9, <2>1 DEF ModemUrc, TypeOK
<1> QED BY <1>6, <1>7, <1>8, <1>9 DEF ModemStep

LEMMA InitInv == Init => Inv
<1>1. NoLine \in Line /\ NoCommand \in Command
  BY DEF NoLine, Line, LineKind, Tags, NoCommand, Command, CommandKind
<1>2. Return(NoCommand, "none") \in Outcome
  BY <1>1, ReturnType DEF Errors
<1> SUFFICES ASSUME Init PROVE TypeOK /\ OneOwner
  BY DEF Inv
<1>3. TypeOK
  <2>1. /\ cmd \in [Senders -> Command] /\ outcome \in [Senders -> Outcome]
        /\ result \in Line
    BY <1>1, <1>2 DEF Init
  <2>2. reader \in [pc : {"reading", "matched", "eof", "dead"},
                   line : Line, isPrefix : BOOLEAN]
    BY <1>1 DEF Init
  <2>3. modem \in Seq(Command) /\ wire \in Seq(Line)
    BY DEF Init
  <2> QED BY <2>1, <2>2, <2>3 DEF Init, TypeOK, Tags
<1>4. OneOwner
  BY SenderAssumption DEF Init, OneOwner, Waiting
<1> QED BY <1>3, <1>4

LEMMA StepKeepsInv == Inv /\ [Next]_vars => Inv'
<1> SUFFICES ASSUME Inv, [Next]_vars PROVE Inv'
  OBVIOUS
<1>1. CASE UNCHANGED vars
  BY <1>1 DEF Inv, TypeOK, OneOwner, Waiting, vars, threadVars, commandVars,
              modemVars, historyVars
<1> QED
  BY <1>1, SenderStepKeepsInv, ReaderStepKeepsInv, ModemStepKeepsInv DEF Next

(* Every variable of the channel keeps its type, for any number of threads,*)
(* prefixes, commands and mishaps.                                         *)
THEOREM ChannelTypes == Spec => []TypeOK
<1>1. Inv => TypeOK
  BY DEF Inv
<1> QED BY <1>1, InitInv, StepKeepsInv, PTL DEF Spec

(* The pending response of at_support.c belongs to exactly the thread that *)
(* waits for it, whatever the threads, the reader, timeouts and the loss   *)
(* of the device interleave.                                               *)
THEOREM ResponseHasOneOwner == Spec => []OneOwner
<1>1. Inv => OneOwner
  BY DEF Inv
<1> QED BY <1>1, InitInv, StepKeepsInv, PTL DEF Spec
-----------------------------------------------------------------------------
(* The refinement of CommandSlot.  A call takes the slot when its command  *)
(* is written, and is refused otherwise; leaving the wait completes it;    *)
(* every other step stutters.                                              *)

(* A command is numbered, as in Slot!Number.                               *)
LEMMA NumberRefines ==
  ASSUME Inv, NEW s \in Senders, NEW c \in Command, c.id = issued + 1,
         NumberCommand(s, c)
  PROVE  Slot!Number(s)
<1>1. /\ issued' = issued + 1
      /\ cmd \in [Senders -> Command]
      /\ cmd' = [cmd EXCEPT ![s] = c]
  BY DEF NumberCommand, Inv, TypeOK
<1>2. [t \in Senders |-> cmd'[t].id]
        = [[t \in Senders |-> cmd[t].id] EXCEPT ![s] = issued + 1]
  BY <1>1
<1> QED BY <1>1, <1>2 DEF Slot!Number

(* A thread is answered, as in Slot!Answer.                                *)
LEMMA AnswerRefines ==
  ASSUME Inv, NEW s \in Senders, NEW o, NEW errors, o.err \in errors,
         outcome' = [outcome EXCEPT ![s] = o]
  PROVE  Slot!Answer(s, o.id, errors)
<1>1. outcome \in [Senders -> Outcome]
  BY DEF Inv, TypeOK
<1>2. [t \in Senders |-> [id |-> outcome'[t].id, err |-> outcome'[t].err]]
        = [[t \in Senders |-> [id |-> outcome[t].id, err |-> outcome[t].err]]
             EXCEPT ![s] = [id |-> o.id, err |-> o.err]]
  BY <1>1
<1> QED BY <1>2 DEF Slot!Answer

(* The part of SendCommandNoLock before the wait takes the slot or refuses.*)
LEMMA CallRefines ==
  ASSUME Inv, NEW s \in Senders, NEW c \in Command, c.id = issued + 1,
         ~Waiting(s), NumberCommand(s, c),
         RefusePending(s, c) \/ FailWrite(s, c) \/ WriteCommand(s, c)
  PROVE  Slot!Next
<1>1. Slot!Number(s)
  BY NumberRefines
<1>2. owner # s /\ s # Nobody
  BY SenderAssumption DEF Inv, OneOwner
<1>3. \A e : Return(c, e).id = issued + 1 /\ Return(c, e).err = e
  BY DEF Return
<1>4. CASE RefusePending(s, c)
  <2>1. owner # Nobody /\ owner' = owner
    BY <1>4 DEF RefusePending
  <2>2. Slot!Answer(s, issued + 1, {"pending"})
    <3>1. outcome' = [outcome EXCEPT ![s] = Return(c, "pending")]
      BY <1>4 DEF RefusePending
    <3>2. Slot!Answer(s, Return(c, "pending").id, {"pending"})
      BY <1>3, <3>1, AnswerRefines
    <3> QED BY <1>3, <3>2
  <2>3. Slot!Refuse(s)
    BY <1>1, <1>2, <2>1, <2>2 DEF Slot!Refuse
  <2> QED BY <2>3 DEF Slot!Next
<1>5. CASE FailWrite(s, c)
  <2>1. owner = Nobody /\ owner' = owner
    BY <1>5 DEF FailWrite
  <2>2. Slot!Answer(s, issued + 1, {"closed", "generic"})
    <3>1. PICK e \in {"closed", "generic"} :
            outcome' = [outcome EXCEPT ![s] = Return(c, e)]
      BY <1>5 DEF FailWrite
    <3>2. Slot!Answer(s, Return(c, e).id, {"closed", "generic"})
      BY <1>3, <3>1, AnswerRefines
    <3> QED BY <1>3, <3>2
  <2>3. Slot!Refuse(s)
    BY <1>1, <1>2, <2>1, <2>2 DEF Slot!Refuse
  <2> QED BY <2>3 DEF Slot!Next
<1>6. CASE WriteCommand(s, c)
  <2>1. owner = Nobody /\ owner' = s /\ outcome' = outcome
    BY <1>6 DEF WriteCommand
  <2>2. Slot!Accept(s)
    BY <1>1, <2>1 DEF Slot!Accept
  <2> QED BY <2>2 DEF Slot!Next
<1> QED BY <1>4, <1>5, <1>6

LEMMA SendRefines ==
  ASSUME Inv, NEW s \in Senders,
         \/ SendCommandLock(s)
         \/ SendCommandLockPaused(s)
         \/ SendAfterResync(s)
         \/ SendCommandNetWorksLock(s)
         \/ SendCommandSmsLock(s)
  PROVE  Slot!Next
<1>1. ~Waiting(s)
  BY DEF SendCommandLock, SendCommandLockPaused, SendAfterResync,
         SendCommandNetWorksLock, SendCommandSmsLock, MayEnter, Waiting
<1>2. PICK k \in CommandKind, p \in Prefixes \union {NoPrefix} :
        LET c == [id |-> issued + 1, kind |-> k, prefix |-> p] IN
        /\ NumberCommand(s, c)
        /\ RefusePending(s, c) \/ FailWrite(s, c) \/ WriteCommand(s, c)
  BY DEF SendCommandLock, SendCommandLockPaused, SendAfterResync,
         SendCommandNetWorksLock, SendCommandSmsLock, Issue, CommandKind
<1> DEFINE c == [id |-> issued + 1, kind |-> k, prefix |-> p]
<1>3. c \in Command /\ c.id = issued + 1
  BY NewCommandType
<1>4. /\ NumberCommand(s, c)
      /\ RefusePending(s, c) \/ FailWrite(s, c) \/ WriteCommand(s, c)
  BY <1>2
<1> HIDE DEF c
<1> QED BY <1>1, <1>3, <1>4, CallRefines

LEMMA LeaveRefines ==
  ASSUME Inv, NEW s \in Senders, WakeUp(s) \/ TimeOut(s)
  PROVE  Slot!Next
<1>1. /\ Waiting(s)
      /\ \E e \in {"success", "timeout", "closed"} :
           \E l, ls : LeaveWait(s, e, l, ls)
  BY DEF WakeUp, TimeOut
<1>a. PICK e \in {"success", "timeout", "closed"} :
        \E l, ls : LeaveWait(s, e, l, ls)
  BY <1>1
<1>2. PICK l, ls : LeaveWait(s, e, l, ls)
  BY <1>a
<1>3. owner = s /\ owner' = Nobody /\ issued' = issued /\ cmd' = cmd
  BY <1>1, <1>2 DEF LeaveWait, Inv, OneOwner
<1> DEFINE o == [id |-> cmd[s].id, err |-> e, with |-> l, lines |-> ls]
<1>4. Slot!Answer(s, cmd[s].id, {"success", "timeout", "closed"})
  <2>1. outcome' = [outcome EXCEPT ![s] = o]
    BY <1>2 DEF LeaveWait
  <2>2. o.id = cmd[s].id /\ o.err = e
    OBVIOUS
  <2> HIDE DEF o
  <2>3. Slot!Answer(s, o.id, {"success", "timeout", "closed"})
    BY <2>1, <2>2, AnswerRefines
  <2> QED BY <2>2, <2>3
<1>5. Slot!Complete(s)
  BY <1>3, <1>4 DEF Slot!Complete
<1> QED BY <1>5 DEF Slot!Next

LEMMA OthersStutter ==
  ASSUME \/ \E s \in Senders : \/ WaitAgain(s) \/ ClearSmsPdu(s)
                               \/ SenderOnReaderClosed(s)
         \/ ReaderStep \/ ModemStep
         \/ UNCHANGED vars
  PROVE  UNCHANGED Slot!vars
<1>1. owner' = owner /\ issued' = issued /\ cmd' = cmd /\ outcome' = outcome
  BY DEF WaitAgain, ClearSmsPdu, SenderOnReaderClosed, ReaderStep, ReadLine,
         NotifyIdle, TakeFinal, TakePrompt, CollectLine, NotifyBusy,
         ReaderEof, ReaderOnReaderClosed, ModemStep, ModemData, ModemPrompt,
         ModemFinal, ModemUrc, ModemUnchanged, Mishap, vars, threadVars,
         commandVars, modemVars, historyVars
<1> QED BY <1>1 DEF Slot!vars

LEMMA InitRefines == Init => Slot!Init
<1> SUFFICES ASSUME Init PROVE Slot!Init
  OBVIOUS
<1>1. owner = Nobody /\ issued = 0
      /\ cmd = [s \in Senders |-> NoCommand]
      /\ outcome = [s \in Senders |-> Return(NoCommand, "none")]
  BY DEF Init
<1>2. /\ NoCommand.id = 0
      /\ Return(NoCommand, "none").id = 0
      /\ Return(NoCommand, "none").err = "none"
  BY DEF NoCommand, Return
<1> QED BY <1>1, <1>2 DEF Slot!Init

LEMMA StepRefines == Inv /\ [Next]_vars => [Slot!Next]_(Slot!vars)
<1> SUFFICES ASSUME Inv, [Next]_vars PROVE Slot!Next \/ UNCHANGED Slot!vars
  OBVIOUS
<1>1. CASE \E s \in Senders : \/ SendCommandLock(s) \/ SendCommandLockPaused(s)
                              \/ SendAfterResync(s)
                              \/ SendCommandNetWorksLock(s)
                              \/ SendCommandSmsLock(s)
  BY <1>1, SendRefines
<1>2. CASE \E s \in Senders : WakeUp(s) \/ TimeOut(s)
  BY <1>2, LeaveRefines
<1>3. CASE \/ \E s \in Senders : \/ WaitAgain(s) \/ ClearSmsPdu(s)
                                 \/ SenderOnReaderClosed(s)
           \/ ReaderStep \/ ModemStep
           \/ UNCHANGED vars
  BY <1>3, OthersStutter
<1> QED BY <1>1, <1>2, <1>3 DEF Next, SenderStep

(* The channel is a single command slot for any number of threads: every   *)
(* SendCommandNoLock takes it or is refused, and only the thread that took *)
(* it gives it back, with the answer to its own last call.                 *)
THEOREM ChannelIsASlot == Spec => ImplementsSlot
BY InitInv, StepKeepsInv, InitRefines, StepRefines, PTL
   DEF Spec, ImplementsSlot, Slot!Spec

-----------------------------------------------------------------------------
(* The condition of the wait.  What AnsweredSendersReturn and              *)
(* ClosedChannelReleases need of the steps, without fairness.              *)

(* Once the final line is stored or the channel is closed, the thread that *)
(* waits has been signalled and has not acted on it: the reader stores and *)
(* closes under the mutex with the signal, a prompt that takes the place   *)
(* of a final line leaves the signal, and a thread that goes back to its   *)
(* wait has found neither (TakeFinal, ATCloseReadLoop, WaitAgain).         *)
NoWakeUpIsLost ==
  owner # Nobody /\ (Final(result) \/ readerClosed) => signalled

(* The response that a caller allocates is empty, and none is allocated on *)
(* a closed channel; who sends does not take a signal from one who waits.  *)
LEMMA SendLosesNoWakeUp ==
  ASSUME Inv, NoWakeUpIsLost, NEW s \in Senders,
         \/ SendCommandLock(s) \/ SendCommandLockPaused(s)
         \/ SendAfterResync(s) \/ SendCommandNetWorksLock(s)
         \/ SendCommandSmsLock(s)
  PROVE  NoWakeUpIsLost'
<1>1. PICK c : RefusePending(s, c) \/ FailWrite(s, c) \/ WriteCommand(s, c)
  BY DEF SendCommandLock, SendCommandLockPaused, SendAfterResync,
         SendCommandNetWorksLock, SendCommandSmsLock, Issue
<1>2. readerClosed' = readerClosed
  BY DEF SendCommandLock, SendCommandLockPaused, SendAfterResync,
         SendCommandNetWorksLock, SendCommandSmsLock
<1>3. signalled' = signalled \/ signalled' = (Waiters # {})
  BY DEF SendCommandLock, SendCommandLockPaused, SendAfterResync,
         SendCommandNetWorksLock, SendCommandSmsLock, Signal
<1>4. CASE WriteCommand(s, c)
  BY <1>2, <1>4 DEF NoWakeUpIsLost, WriteCommand, NoLine, Final
<1>5. CASE RefusePending(s, c) \/ FailWrite(s, c)
  <2>1. owner' = owner /\ result' = result
    BY <1>5 DEF RefusePending, FailWrite
  <2>2. owner # Nobody => Waiters # {}
    BY DEF Inv, TypeOK, OneOwner, Waiters
  <2> QED BY <1>2, <1>3, <2>1, <2>2 DEF NoWakeUpIsLost, Final
<1> QED BY <1>1, <1>4, <1>5

(* Whoever closes the channel for the first time signals who waits.        *)
LEMMA CloseLosesNoWakeUp ==
  ASSUME Inv, NoWakeUpIsLost, ATCloseReadLoop,
         UNCHANGED <<owner, result>>
  PROVE  NoWakeUpIsLost'
<1>1. owner # Nobody => Waiters # {}
  BY DEF Inv, TypeOK, OneOwner, Waiters
<1>2. CASE readerClosed
  BY <1>2 DEF ATCloseReadLoop, NoWakeUpIsLost, Final
<1>3. CASE ~readerClosed
  BY <1>1, <1>3 DEF ATCloseReadLoop, Signal, NoWakeUpIsLost
<1> QED BY <1>2, <1>3

LEMMA ReaderLosesNoWakeUp ==
  ASSUME Inv, NoWakeUpIsLost, ReaderStep
  PROVE  NoWakeUpIsLost'
<1>1. CASE TakeFinal
  <2>1. Waiters # {}
    BY <1>1 DEF Inv, TypeOK, OneOwner, Waiters, TakeFinal
  <2> QED BY <1>1, <2>1 DEF TakeFinal, Signal, NoWakeUpIsLost
<1>2. CASE TakePrompt
  BY <1>2 DEF TakePrompt, NoWakeUpIsLost, Final
<1>3. CASE ReaderOnReaderClosed
  BY <1>3, CloseLosesNoWakeUp DEF ReaderOnReaderClosed, commandVars
<1>4. CASE ReadLine \/ NotifyIdle \/ CollectLine \/ NotifyBusy \/ ReaderEof
  BY <1>4 DEF ReadLine, NotifyIdle, CollectLine, NotifyBusy, ReaderEof,
              NoWakeUpIsLost, Final, commandVars
<1> QED BY <1>1, <1>2, <1>3, <1>4 DEF ReaderStep

LEMMA StepLosesNoWakeUp ==
  Inv /\ NoWakeUpIsLost /\ [Next]_vars => NoWakeUpIsLost'
<1> SUFFICES ASSUME Inv, NoWakeUpIsLost, [Next]_vars PROVE NoWakeUpIsLost'
  OBVIOUS
<1>1. CASE \E s \in Senders : WakeUp(s) \/ TimeOut(s)
  BY <1>1 DEF WakeUp, TimeOut, LeaveWait, NoWakeUpIsLost
<1>2. CASE \E s \in Senders : WaitAgain(s)
  BY <1>2 DEF WaitAgain, NoWakeUpIsLost, NoLine, Final, commandVars
<1>3. CASE \E s \in Senders : SenderOnReaderClosed(s)
  BY <1>3, CloseLosesNoWakeUp DEF SenderOnReaderClosed, commandVars
<1>4. CASE (\E s \in Senders : ClearSmsPdu(s)) \/ ModemStep \/ UNCHANGED vars
  BY <1>4 DEF ClearSmsPdu, ModemStep, ModemData, ModemPrompt, ModemFinal,
              ModemUrc, ModemUnchanged, vars, commandVars, NoWakeUpIsLost,
              Final
<1> QED
  BY <1>1, <1>2, <1>3, <1>4, SendLosesNoWakeUp, ReaderLosesNoWakeUp
     DEF Next, SenderStep

(* No signal of g_commandcond is lost or taken by another, for any number  *)
(* of threads, timeouts and faults: a thread in pthread_cond_timedwait     *)
(* whose answer is complete or whose device is gone can run.               *)
THEOREM WakeUpsAreNotLost == Spec => []NoWakeUpIsLost
<1>1. Init => NoWakeUpIsLost
  BY DEF Init, NoWakeUpIsLost
<1> QED BY <1>1, InitInv, StepKeepsInv, StepLosesNoWakeUp, PTL DEF Spec
=============================================================================
