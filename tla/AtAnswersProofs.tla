-------------------------- MODULE AtAnswersProofs --------------------------
(***************************************************************************)
(* Proofs about AtChannel: whose line reaches whom.  Nothing in a line     *)
(* names its command, so these rest on what is under way between the modem *)
(* and the pending response: lines of commands that were given up, and of  *)
(* the one command that is waited for, its final line last.                *)
(***************************************************************************)
EXTENDS AtChannelProofs

Orders == {modem[i] : i \in 1..Len(modem)}
Wired  == {wire[i] : i \in 1..Len(wire)}
InFlight == Wired \union {reader.line, result} \union lines

Ordered(n) == \E c \in Orders : c.id = n
OnWire(n)  == \E l \in Wired : l.of = n

(* A line is of a command that was issued; only an unsolicited line, which *)
(* is never final nor a prompt, is of none.                                *)
Numbered(l) == l.of \in 0..issued /\ (l.kind \in {"prompt", "final"} => l.of # 0)

Numbers ==
  /\ \A c \in Orders : c.id \in 1..issued
  /\ \A l \in InFlight : Numbered(l)
  /\ spoken \subseteq 0..issued
  /\ \A s \in Senders : cmd[s].id \in 0..issued /\ outcome[s].id \in 0..issued

(* The modem has each command once, and nothing follows its final line.    *)
Once == \A i, j \in 1..Len(modem) : modem[i].id = modem[j].id => i = j
LastOnWire ==
  \A i, j \in 1..Len(wire) : Final(wire[i]) /\ i < j => wire[j].of # wire[i].of

FinalIsLast ==
  /\ Once /\ LastOnWire
  /\ \A l \in Wired : Final(l) => ~Ordered(l.of)
  /\ \A l \in {reader.line, result} :
       Final(l) => ~OnWire(l.of) /\ ~Ordered(l.of)
  /\ Final(result) => reader.line.of # result.of

(* What is under way is unsolicited, given up, or of the pending command.  *)
Accounted(n) == \/ n \in {0} \union abandoned
                \/ owner # Nobody /\ n = cmd[owner].id

OneIsAwaited == /\ \A c \in Orders : Accounted(c.id)
                /\ \A l \in InFlight : Accounted(l.of)

(* g_smsPdu belongs to a request that is in SendCommandSmsLock.            *)
SmsOwns ==
  /\ \A s \in Senders :
       /\ cmd[s].kind = "sms" => s \in Requesters
       /\ cmd[s].kind \in {"sms", "search"} => cmd[s].prefix # NoPrefix
  /\ smsPdu # Nobody => /\ smsPdu \in Requesters
                        /\ pc[smsPdu] \in {"waiting", "clearPdu"}
                        /\ cmd[smsPdu].kind = "sms"

(* The modem has the pending command as it was sent, but for the prompt of *)
(* an SMS, which it gives once.                                            *)
AsSent ==
  owner # Nobody =>
    /\ \A c \in Orders : c.id = cmd[owner].id =>
         /\ c.prefix = cmd[owner].prefix
         /\ c.kind = "sms" => cmd[owner].kind = "sms"
         /\ cmd[owner].kind = "resync" => c.kind = "resync"
    /\ \A l \in InFlight :
         l.of = cmd[owner].id /\ l.kind = "prompt" => cmd[owner].kind = "sms"
    /\ cmd[owner].id \in spoken => cmd[owner].kind # "resync"

(* As long as no other thread has set g_prefix or g_smsPdu, the line that  *)
(* the modem wrote for the pending command is, or will be, collected.      *)
Undisturbed == /\ owner # Nobody /\ cmd[owner].id \notin disturbed
               /\ cmd[owner].kind # "resync"

IsOwn(l) == /\ l.kind = "data" /\ l.of = cmd[owner].id
            /\ l.tag = FormOf(cmd[owner])

Collecting ==
  Undisturbed =>
    /\ prefix = cmd[owner].prefix
    /\ cmd[owner].prefix = NoPrefix => smsPdu = Nobody
    /\ cmd[owner].id \in spoken =>
         \/ \E l \in lines : l.of = cmd[owner].id
         \/ \E l \in Wired : IsOwn(l)
         \/ /\ reader.pc = "matched" /\ IsOwn(reader.line)
            /\ reader.isPrefix \/ cmd[owner].prefix = NoPrefix

(* A command that got its own final line is over for the modem.            *)
GotItsFinal(o) == o.err = "success" /\ Final(o.with) /\ o.with.of = o.id

Over ==
  \A s \in Senders : GotItsFinal(outcome[s]) =>
    \A c \in Orders : c.id # outcome[s].id

Under == /\ Numbers /\ FinalIsLast /\ OneIsAwaited /\ SmsOwns /\ AsSent
         /\ Collecting /\ Over
Props == /\ CrossedAnswersWereAbandoned /\ PromptsGetTheirPdu
         /\ LinesLostOnlyWhenDisturbed
AnswersInv == Inv /\ Under /\ Props

-----------------------------------------------------------------------------
(* What the modem's queue and the line to it are after a step. *)

LEMMA Members ==
  ASSUME TypeOK
  PROVE  /\ \A c \in Orders : c \in Command /\ c.id \in Nat
         /\ \A l \in InFlight : l \in Line /\ l.of \in Nat
         /\ NoLine \in Line /\ NoLine.of = 0 /\ ~Final(NoLine)
         /\ NoLine.kind = "none"
<1>1. \A c \in Orders : c \in Command
  BY DEF TypeOK, Orders
<1>2. \A l \in Wired : l \in Line
  BY DEF TypeOK, Wired
<1>3. reader.line \in Line /\ result \in Line /\ lines \subseteq Line
  BY DEF TypeOK
<1>4. \A l \in InFlight : l \in Line
  BY <1>2, <1>3 DEF InFlight
<1>5. \A c \in Command : c.id \in Nat
  BY DEF Command
<1>6. \A l \in Line : l.of \in Nat
  BY DEF Line
<1>7. /\ NoLine \in Line /\ NoLine.of = 0 /\ ~Final(NoLine)
      /\ NoLine.kind = "none"
  BY DEF NoLine, Line, LineKind, Tags, Final
<1> QED BY <1>1, <1>4, <1>5, <1>6, <1>7

LEMMA Receives ==
  ASSUME TypeOK, NEW c \in Command, modem' = Append(modem, c)
  PROVE  /\ Orders' = Orders \union {c}
         /\ Once /\ ~Ordered(c.id) => Once'
<1>1. /\ Len(modem) \in Nat /\ Len(modem') = Len(modem) + 1
      /\ \A i \in 1..Len(modem) : modem'[i] = modem[i]
      /\ modem'[Len(modem) + 1] = c
  BY DEF TypeOK
<1>2. \A i : i \in 1..(Len(modem) + 1) <=> i \in 1..Len(modem) \/ i = Len(modem) + 1
  BY <1>1
<1>3. Orders' = Orders \union {c}
  BY <1>1, <1>2 DEF Orders
<1>4. ASSUME Once, ~Ordered(c.id) PROVE Once'
  <2> SUFFICES ASSUME NEW i \in 1..Len(modem'), NEW j \in 1..Len(modem'),
                      modem'[i].id = modem'[j].id
               PROVE  i = j
    BY DEF Once
  <2>1. \A k \in 1..Len(modem) : modem[k].id # c.id
    BY <1>4 DEF Ordered, Orders
  <2>2. i \in 1..Len(modem) \/ i = Len(modem) + 1
    BY <1>1, <1>2
  <2>3. j \in 1..Len(modem) \/ j = Len(modem) + 1
    BY <1>1, <1>2
  <2> QED BY <1>1, <1>4, <2>1, <2>2, <2>3 DEF Once
<1> QED BY <1>3, <1>4

LEMMA HeadOfModem ==
  ASSUME TypeOK, modem # <<>>
  PROVE  /\ Head(modem) \in Orders /\ Head(modem) = modem[1]
         /\ Len(modem) \in Nat /\ Len(modem) >= 1 /\ Head(modem) \in Command
<1>1. Len(modem) \in Nat /\ Len(modem) >= 1 /\ Head(modem) = modem[1]
      /\ Head(modem) \in Command
  BY DEF TypeOK
<1> QED BY <1>1 DEF Orders

LEMMA Finishes ==
  ASSUME TypeOK, modem # <<>>, modem' = Tail(modem)
  PROVE  /\ Orders' \subseteq Orders
         /\ Once => Once' /\ \A c \in Orders' : c.id # Head(modem).id
<1>1. /\ Len(modem) \in Nat /\ Len(modem) >= 1 /\ Head(modem) = modem[1]
      /\ Len(modem') = Len(modem) - 1
      /\ \A i \in 1..(Len(modem) - 1) : modem'[i] = modem[i + 1]
  BY DEF TypeOK
<1>2. \A i \in 1..(Len(modem) - 1) : i + 1 \in 1..Len(modem) /\ i + 1 # 1
  BY <1>1
<1>3. \A i, j \in 1..(Len(modem) - 1) : i + 1 = j + 1 => i = j
  BY <1>1
<1>4. 1 \in 1..Len(modem)
  BY <1>1
<1>5. Orders' \subseteq Orders
  BY <1>1, <1>2 DEF Orders
<1>6. ASSUME Once PROVE Once'
  BY <1>1, <1>2, <1>3, <1>6 DEF Once
<1>7. ASSUME Once PROVE \A c \in Orders' : c.id # Head(modem).id
  <2>1. \A i \in 1..(Len(modem) - 1) : modem'[i].id # modem[1].id
    BY <1>1, <1>2, <1>4, <1>7 DEF Once
  <2> QED BY <1>1, <2>1 DEF Orders
<1> QED BY <1>5, <1>6, <1>7

LEMMA Prompts ==
  ASSUME TypeOK, modem # <<>>, NEW c \in Command, c.id = Head(modem).id,
         modem' = <<c>> \o Tail(modem)
  PROVE  /\ Orders' \subseteq Orders \union {c}
         /\ Once => Once'
<1>1. /\ Len(modem) \in Nat /\ Len(modem) >= 1 /\ Head(modem) = modem[1]
      /\ Tail(modem) \in Seq(Command) /\ Len(Tail(modem)) = Len(modem) - 1
      /\ \A i \in 1..(Len(modem) - 1) : Tail(modem)[i] = modem[i + 1]
  BY DEF TypeOK
<1>2. /\ Len(modem') = Len(modem) /\ modem'[1] = c
      /\ \A i \in 2..Len(modem) : modem'[i] = Tail(modem)[i - 1]
  BY <1>1
<1>3. \A i \in 2..Len(modem) : /\ i - 1 \in 1..(Len(modem) - 1)
                               /\ (i - 1) + 1 = i /\ i \in 1..Len(modem)
  BY <1>1
<1>4. \A i \in 2..Len(modem) : modem'[i] = modem[i]
  BY <1>1, <1>2, <1>3
<1>5. \A i \in 1..Len(modem) : i = 1 \/ i \in 2..Len(modem)
  BY <1>1
<1>6. Orders' \subseteq Orders \union {c}
  BY <1>2, <1>3, <1>4, <1>5 DEF Orders
<1>7. \A i \in 1..Len(modem) : modem'[i].id = modem[i].id
  BY <1>1, <1>2, <1>4, <1>5
<1>8. Once => Once'
  BY <1>2, <1>7 DEF Once
<1> QED BY <1>6, <1>8

(* The modem writes a line, which is not of a command whose final line is  *)
(* still on the wire.                                                      *)
LEMMA Writes ==
  ASSUME TypeOK, NEW l \in Line, Write(l)
  PROVE  /\ Wired' = Wired \union {l}
         /\ LastOnWire /\ (\A k \in Wired : Final(k) => k.of # l.of)
              => LastOnWire'
<1>1. /\ Len(wire) \in Nat /\ Len(wire') = Len(wire) + 1
      /\ \A i \in 1..Len(wire) : wire'[i] = wire[i]
      /\ wire'[Len(wire) + 1] = l
  BY DEF TypeOK, Write
<1>2. \A i : i \in 1..(Len(wire) + 1) <=> i \in 1..Len(wire) \/ i = Len(wire) + 1
  BY <1>1
<1>3. Wired' = Wired \union {l}
  BY <1>1, <1>2 DEF Wired
<1>4. ASSUME LastOnWire, \A k \in Wired : Final(k) => k.of # l.of
      PROVE  LastOnWire'
  <2> SUFFICES ASSUME NEW i \in 1..Len(wire'), NEW j \in 1..Len(wire'),
                      Final(wire'[i]), i < j
               PROVE  wire'[j].of # wire'[i].of
    BY DEF LastOnWire, Final
  <2>1. \A k \in 1..Len(wire) : Final(wire[k]) => wire[k].of # l.of
    BY <1>4 DEF Wired
  <2>2. /\ i \in 1..Len(wire)
        /\ j \in 1..Len(wire) \/ j = Len(wire) + 1
    BY <1>1
  <2> QED BY <1>1, <1>4, <2>1, <2>2 DEF LastOnWire
<1> QED BY <1>3, <1>4

(* The reader takes the first line off the wire.                           *)
LEMMA Reads ==
  ASSUME TypeOK, wire # <<>>, wire' = Tail(wire)
  PROVE  /\ Head(wire) \in Wired /\ Wired' \subseteq Wired
         /\ Wired \subseteq Wired' \union {Head(wire)}
         /\ LastOnWire => LastOnWire'
         /\ LastOnWire /\ Final(Head(wire))
              => \A l \in Wired' : l.of # Head(wire).of
<1>1. /\ Len(wire) \in Nat /\ Len(wire) >= 1 /\ Head(wire) = wire[1]
      /\ Len(wire') = Len(wire) - 1
      /\ \A i \in 1..(Len(wire) - 1) : wire'[i] = wire[i + 1]
  BY DEF TypeOK
<1>2. /\ 1 \in 1..Len(wire)
      /\ \A i \in 1..(Len(wire) - 1) : i + 1 \in 1..Len(wire) /\ 1 < i + 1
      /\ \A i, j \in 1..(Len(wire) - 1) : i < j => i + 1 < j + 1
      /\ \A i \in 1..Len(wire) :
           i = 1 \/ (i - 1 \in 1..(Len(wire) - 1) /\ (i - 1) + 1 = i)
  BY <1>1
<1>3. Head(wire) \in Wired /\ Wired' \subseteq Wired
  BY <1>1, <1>2 DEF Wired
<1>4. Wired \subseteq Wired' \union {Head(wire)}
  <2> SUFFICES ASSUME NEW i \in 1..Len(wire)
               PROVE  wire[i] \in Wired' \union {Head(wire)}
    BY DEF Wired
  <2>1. CASE i = 1
    BY <1>1, <2>1
  <2>2. CASE i - 1 \in 1..(Len(wire) - 1) /\ (i - 1) + 1 = i
    <3>1. wire'[i - 1] = wire[i]
      BY <1>1, <2>2
    <3> QED BY <1>1, <2>2, <3>1 DEF Wired
  <2> QED BY <1>2, <2>1, <2>2
<1>5. ASSUME LastOnWire PROVE LastOnWire'
  <2> SUFFICES ASSUME NEW i \in 1..Len(wire'), NEW j \in 1..Len(wire'),
                      Final(wire'[i]), i < j
               PROVE  wire'[j].of # wire'[i].of
    BY DEF LastOnWire, Final
  <2>1. /\ i + 1 \in 1..Len(wire) /\ j + 1 \in 1..Len(wire) /\ i + 1 < j + 1
        /\ wire'[i] = wire[i + 1] /\ wire'[j] = wire[j + 1]
    BY <1>1, <1>2
  <2> QED BY <1>5, <2>1 DEF LastOnWire
<1>6. ASSUME LastOnWire, Final(Head(wire))
      PROVE  \A l \in Wired' : l.of # Head(wire).of
  <2>1. \A i \in 1..(Len(wire) - 1) : wire'[i].of # wire[1].of
    BY <1>1, <1>2, <1>6 DEF LastOnWire
  <2> QED BY <1>1, <2>1 DEF Wired
<1> QED BY <1>3, <1>4, <1>5, <1>6

-----------------------------------------------------------------------------
(* A call, as far as the wait. *)

Calls(s, c) ==
  /\ c.id = issued + 1 /\ NumberCommand(s, c)
  /\ pc[s] \in {"idle", "resynced"}
  /\ \A t \in Senders \ {s} : pc'[t] = pc[t]
  /\ c.kind = "sms" => s \in Requesters /\ pc'[s] \in {"waiting", "clearPdu"}
  /\ c.kind \in {"sms", "search"} => c.prefix # NoPrefix
  /\ smsPdu' = IF c.kind = "sms" THEN s ELSE smsPdu
  /\ \/ RefusePending(s, c)
     \/ FailWrite(s, c)
     \/ WriteCommand(s, c) /\ (c.kind # "resync" => prefix' = c.prefix)
  /\ UNCHANGED <<reader, wire, spoken, abandoned, promptUses>>

LEMMA IssueCalls ==
  ASSUME Inv, NEW s \in Senders, NEW c \in Command, c.id = issued + 1,
         c.kind # "resync", pc[s] \in {"idle", "resynced"},
         c.kind = "sms" => s \in Requesters,
         c.kind \in {"sms", "search"} => c.prefix # NoPrefix,
         Issue(s, c),
         UNCHANGED <<reader, wire, spoken, abandoned, promptUses>>
  PROVE  Calls(s, c)
<1>1. PICK a : /\ pc' = [pc EXCEPT ![s] = a]
               /\ c.kind = "sms" => a \in {"waiting", "clearPdu"}
  BY DEF Issue, After
<1>2. /\ \A t \in Senders \ {s} : pc'[t] = pc[t]
      /\ c.kind = "sms" => pc'[s] \in {"waiting", "clearPdu"}
  BY <1>1 DEF Inv, TypeOK
<1>3. \/ RefusePending(s, c)
      \/ FailWrite(s, c)
      \/ WriteCommand(s, c) /\ prefix' = c.prefix
  BY DEF Issue
<1>4. /\ NumberCommand(s, c)
      /\ smsPdu' = IF c.kind = "sms" THEN s ELSE smsPdu
  BY DEF Issue
<1> QED BY <1>2, <1>3, <1>4 DEF Calls

LEMMA SendingCalls ==
  ASSUME Inv, NEW s \in Senders,
         \/ SendCommandLock(s)
         \/ SendCommandLockPaused(s)
         \/ SendAfterResync(s)
         \/ SendCommandNetWorksLock(s)
         \/ SendCommandSmsLock(s)
  PROVE  \E c \in Command : Calls(s, c)
<1>1. CASE SendCommandLockPaused(s)
  <2> DEFINE at == [id |-> issued + 1, kind |-> "resync", prefix |-> NoPrefix]
  <2>1. at \in Command /\ at.id = issued + 1 /\ at.kind = "resync"
    BY NewCommandType DEF CommandKind
  <2>2. /\ NumberCommand(s, at) /\ pc[s] = "idle"
        /\ RefusePending(s, at) \/ FailWrite(s, at) \/ WriteCommand(s, at)
        /\ UNCHANGED <<smsPdu, reader, wire, spoken, abandoned, promptUses>>
        /\ \E a : pc' = [pc EXCEPT ![s] = a]
    BY <1>1 DEF SendCommandLockPaused, MayEnter
  <2> HIDE DEF at
  <2>3. \A t \in Senders \ {s} : pc'[t] = pc[t]
    BY <2>2 DEF Inv, TypeOK
  <2>4. Calls(s, at)
    BY <2>1, <2>2, <2>3 DEF Calls
  <2> QED BY <2>1, <2>4
<1>2. CASE \/ SendCommandLock(s) \/ SendAfterResync(s)
           \/ SendCommandNetWorksLock(s) \/ SendCommandSmsLock(s)
  <2>1. PICK k \in {"plain", "search", "sms"}, p \in Prefixes \union {NoPrefix} :
          /\ Issue(s, [id |-> issued + 1, kind |-> k, prefix |-> p])
          /\ k = "sms" => s \in Requesters
          /\ k \in {"sms", "search"} => p \in Prefixes
    BY <1>2 DEF SendCommandLock, SendCommandNetWorksLock, SendCommandSmsLock,
                SendAfterResync
  <2>2. /\ pc[s] \in {"idle", "resynced"}
        /\ UNCHANGED <<reader, wire, spoken, abandoned, promptUses>>
    BY <1>2 DEF SendCommandLock, SendCommandNetWorksLock, SendCommandSmsLock,
                SendAfterResync, MayEnter
  <2> DEFINE c == [id |-> issued + 1, kind |-> k, prefix |-> p]
  <2>3. c \in Command /\ c.id = issued + 1 /\ c.kind = k /\ c.prefix = p
    BY NewCommandType DEF CommandKind
  <2>4. Issue(s, c)
    BY <2>1
  <2> HIDE DEF c
  <2>5. /\ c.kind # "resync"
        /\ c.kind = "sms" => s \in Requesters
        /\ c.kind \in {"sms", "search"} => c.prefix # NoPrefix
    BY <2>1, <2>3, PrefixAssumption
  <2>6. Calls(s, c)
    BY <2>2, <2>3, <2>4, <2>5, IssueCalls
  <2> QED BY <2>3, <2>6
<1> QED BY <1>1, <1>2

(* What is under way after a call: what there was, and the new command.    *)
LEMMA CallMoves ==
  ASSUME Inv, NEW s \in Senders, NEW c \in Command, Calls(s, c)
  PROVE  /\ issued' = issued + 1 /\ c.id = issued' /\ issued \in Nat
         /\ cmd'[s] = c /\ \A t \in Senders \ {s} : cmd'[t] = cmd[t]
         /\ Wired' = Wired /\ (LastOnWire => LastOnWire')
         /\ InFlight' \subseteq InFlight \union {NoLine}
         /\ result' \in {result, NoLine} /\ reader' = reader
         /\ UNCHANGED <<spoken, abandoned, promptUses>>
         /\ disturbed \subseteq disturbed'
         /\ \A t \in Senders : \/ outcome'[t] = outcome[t]
                               \/ /\ t = s /\ outcome'[t].id = c.id
                                  /\ outcome'[t].with = NoLine
                                  /\ outcome'[t].lines = {}
<1>1. /\ issued \in Nat /\ cmd \in [Senders -> Command]
      /\ outcome \in [Senders -> Outcome]
  BY DEF Inv, TypeOK
<1>2. /\ issued' = c.id /\ c.id = issued + 1 /\ cmd' = [cmd EXCEPT ![s] = c]
      /\ UNCHANGED <<reader, wire, spoken, abandoned, promptUses>>
  BY DEF Calls, NumberCommand
<1>3. \/ outcome' = outcome
      \/ \E e : outcome' = [outcome EXCEPT ![s] = Return(c, e)]
  BY DEF Calls, RefusePending, FailWrite, WriteCommand
<1>4. \A t \in Senders : \/ outcome'[t] = outcome[t]
                         \/ /\ t = s /\ outcome'[t].id = c.id
                            /\ outcome'[t].with = NoLine
                            /\ outcome'[t].lines = {}
  BY <1>1, <1>3 DEF Return
<1>5. /\ lines' \subseteq lines /\ result' \in {result, NoLine}
      /\ disturbed \subseteq disturbed'
  BY DEF Calls, RefusePending, FailWrite, WriteCommand
<1>6. Wired' = Wired /\ (LastOnWire => LastOnWire')
  BY <1>2 DEF Wired, LastOnWire, Final
<1>7. InFlight' \subseteq InFlight \union {NoLine}
  BY <1>2, <1>5, <1>6 DEF InFlight
<1> QED BY <1>1, <1>2, <1>4, <1>5, <1>6, <1>7

LEMMA CallKeepsUnder ==
  ASSUME Inv, Under, NEW s \in Senders, NEW c \in Command, Calls(s, c)
  PROVE  Under'
<1> USE DEF Under
<1>1. /\ issued' = issued + 1 /\ c.id = issued' /\ issued \in Nat
      /\ cmd'[s] = c /\ \A t \in Senders \ {s} : cmd'[t] = cmd[t]
      /\ Wired' = Wired /\ (LastOnWire => LastOnWire')
      /\ InFlight' \subseteq InFlight \union {NoLine}
      /\ result' \in {result, NoLine} /\ reader' = reader
      /\ UNCHANGED <<spoken, abandoned, promptUses>>
      /\ disturbed \subseteq disturbed'
  BY CallMoves
<1>2. \A t \in Senders : \/ outcome'[t] = outcome[t]
                         \/ /\ t = s /\ outcome'[t].id = c.id
                            /\ outcome'[t].with = NoLine
                            /\ outcome'[t].lines = {}
  BY CallMoves
<1>3. /\ TypeOK /\ OneOwner /\ s # Nobody /\ owner # s
      /\ owner \in Senders \union {Nobody}
  BY SenderAssumption DEF Inv, TypeOK, OneOwner, Waiting, Calls
<1>4. /\ \A d \in Orders : d \in Command /\ d.id \in Nat
      /\ \A l \in InFlight : l \in Line /\ l.of \in Nat
      /\ NoLine \in Line /\ NoLine.of = 0 /\ ~Final(NoLine)
      /\ NoLine.kind = "none"
  BY <1>3, Members
<1>5. \A n \in 0..issued : n \in 0..issued' /\ n # c.id
  BY <1>1
<1>6. /\ Orders' \subseteq Orders \union {c} /\ Once'
      /\ ~WriteCommand(s, c) => Orders' = Orders
  <2>1. ~Ordered(c.id)
    BY <1>1, <1>5 DEF Numbers, Ordered
  <2>2. CASE modem' = modem
    BY <2>2 DEF Orders, FinalIsLast, Once
  <2>3. CASE WriteCommand(s, c)
    <3>1. modem' = Append(modem, c)
      BY <2>3 DEF WriteCommand
    <3> QED BY <1>3, <2>1, <2>3, <3>1, Receives DEF FinalIsLast
  <2> QED BY <2>2, <2>3 DEF Calls, RefusePending, FailWrite
<1>7. Numbers'
  <2>1. \A d \in Orders' : d.id \in 1..issued'
    BY <1>1, <1>6 DEF Numbers
  <2>2. \A l \in InFlight' : Numbered(l)'
    BY <1>1, <1>4 DEF Numbers, Numbered
  <2>3. \A t \in Senders : cmd'[t].id \in 0..issued' /\ outcome'[t].id \in 0..issued'
    BY <1>1, <1>2 DEF Numbers
  <2>4. spoken' \subseteq 0..issued'
    BY <1>1, <1>5 DEF Numbers
  <2> QED BY <2>1, <2>2, <2>3, <2>4 DEF Numbers
<1>8. \A l \in InFlight : l.of # c.id
  BY <1>5 DEF Numbers, Numbered
<1>9. FinalIsLast'
  <2>1. \A l \in InFlight : ~Ordered(l.of) => ~Ordered(l.of)'
    BY <1>6, <1>8 DEF Ordered
  <2>2. \A l \in Wired : Final(l) => ~Ordered(l.of)'
    BY <2>1 DEF FinalIsLast, InFlight
  <2>3. \A l \in {reader.line, result, NoLine} :
          Final(l) => ~OnWire(l.of)' /\ ~Ordered(l.of)'
    BY <1>1, <1>4, <2>1 DEF FinalIsLast, InFlight, OnWire
  <2>4. Final(result') => reader.line'.of # result'.of
    BY <1>1, <1>4 DEF FinalIsLast
  <2> QED BY <1>1, <1>6, <2>2, <2>3, <2>4 DEF FinalIsLast, Final
<1>10. OneIsAwaited'
  <2>1. CASE owner # Nobody
    <3>1. owner' = owner /\ cmd'[owner] = cmd[owner] /\ Orders' = Orders
      BY <1>1, <1>3, <1>6, <2>1 DEF Calls, RefusePending, FailWrite, WriteCommand
    <3>2. \A n : Accounted(n) => Accounted(n)'
      BY <1>1, <3>1 DEF Accounted
    <3> QED BY <1>1, <1>4, <3>1, <3>2 DEF OneIsAwaited, Accounted
  <2>2. CASE owner = Nobody
    <3>1. \A n : Accounted(n) => Accounted(n)'
      BY <1>1, <2>2 DEF Accounted
    <3>2. WriteCommand(s, c) => owner' = s
      BY DEF WriteCommand
    <3>3. c \in Orders' /\ c \notin Orders => Accounted(c.id)'
      BY <1>1, <1>3, <1>6, <3>2 DEF Accounted
    <3> QED BY <1>1, <1>4, <1>6, <3>1, <3>3 DEF OneIsAwaited, Accounted
  <2> QED BY <2>1, <2>2
<1>11. SmsOwns'
  <2>1. /\ c.kind = "sms" => s \in Requesters /\ pc'[s] \in {"waiting", "clearPdu"}
        /\ c.kind \in {"sms", "search"} => c.prefix # NoPrefix
        /\ smsPdu' = IF c.kind = "sms" THEN s ELSE smsPdu
        /\ \A t \in Senders \ {s} : pc'[t] = pc[t]
        /\ pc[s] \in {"idle", "resynced"}
    BY DEF Calls
  <2>2. \A t \in Senders :
          /\ cmd'[t].kind = "sms" => t \in Requesters
          /\ cmd'[t].kind \in {"sms", "search"} => cmd'[t].prefix # NoPrefix
    BY <1>1, <2>1 DEF SmsOwns
  <2>3. smsPdu # Nobody => smsPdu \in Senders \ {s}
    BY <2>1, SenderAssumption DEF SmsOwns
  <2>4. smsPdu' # Nobody => /\ smsPdu' \in Requesters
                            /\ pc'[smsPdu'] \in {"waiting", "clearPdu"}
                            /\ cmd'[smsPdu'].kind = "sms"
    BY <1>1, <2>1, <2>3 DEF SmsOwns
  <2> QED BY <2>2, <2>4 DEF SmsOwns
<1>12. AsSent'
  <2>1. CASE RefusePending(s, c)
    <3>1. owner' = owner /\ owner # Nobody /\ cmd'[owner] = cmd[owner]
          /\ Orders' = Orders
      BY <1>1, <1>3, <1>6, <2>1 DEF RefusePending, WriteCommand
    <3> QED BY <1>1, <1>4, <3>1 DEF AsSent
  <2>2. CASE FailWrite(s, c)
    BY <2>2 DEF FailWrite, AsSent
  <2>3. CASE WriteCommand(s, c)
    <3>1. owner' = s
      BY <2>3 DEF WriteCommand
    <3>2. \A d \in Orders' : d.id = c.id => d = c
      BY <1>5, <1>6 DEF Numbers
    <3>3. \A l \in InFlight' : l.kind = "prompt" => l.of # c.id
      BY <1>1, <1>4, <1>8
    <3>4. c.id \notin spoken'
      BY <1>1, <1>5 DEF Numbers
    <3> QED BY <1>1, <3>1, <3>2, <3>3, <3>4 DEF AsSent
  <2> QED BY <2>1, <2>2, <2>3 DEF Calls
<1>13. Collecting'
  <2>1. CASE RefusePending(s, c)
    <3>1. owner' = owner /\ cmd'[owner] = cmd[owner]
          /\ cmd[owner].id \in disturbed'
      BY <1>1, <1>3, <2>1 DEF RefusePending
    <3> QED BY <3>1 DEF Collecting, Undisturbed
  <2>2. CASE FailWrite(s, c)
    BY <2>2 DEF FailWrite, Collecting, Undisturbed
  <2>3. CASE WriteCommand(s, c) /\ (c.kind # "resync" => prefix' = c.prefix)
    <3> SUFFICES ASSUME Undisturbed'
                 PROVE  /\ prefix' = c.prefix
                        /\ c.prefix = NoPrefix => smsPdu' = Nobody
                        /\ c.id \notin spoken'
      BY <1>1, <2>3 DEF Collecting, WriteCommand
    <3>1. owner' = s /\ c.id \notin disturbed' /\ c.kind # "resync"
      BY <1>1, <2>3 DEF Undisturbed, WriteCommand
    <3>2. smsPdu \in {Nobody, s}
      BY <2>3, <3>1 DEF WriteCommand
    <3>3. smsPdu = Nobody
      BY <3>2 DEF SmsOwns, Calls
    <3>4. c.prefix = NoPrefix => smsPdu' = Nobody
      BY <3>3 DEF Calls
    <3>5. c.id \notin spoken'
      BY <1>1, <1>5 DEF Numbers
    <3> QED BY <2>3, <3>1, <3>4, <3>5
  <2> QED BY <2>1, <2>2, <2>3 DEF Calls
<1>14. Over'
  <2> SUFFICES ASSUME NEW t \in Senders, GotItsFinal(outcome'[t]),
                      NEW d \in Orders'
               PROVE  d.id # outcome'[t].id
    BY DEF Over, GotItsFinal, Final
  <2>1. outcome'[t] = outcome[t]
    BY <1>2, <1>4 DEF GotItsFinal
  <2>2. outcome[t].id # c.id /\ \A o \in Orders : o.id # outcome[t].id
    BY <1>5, <2>1 DEF Over, Numbers
  <2> QED BY <1>6, <2>1, <2>2
<1> QED BY <1>7, <1>9, <1>10, <1>11, <1>12, <1>13, <1>14

LEMMA CallKeepsProps ==
  ASSUME Inv, Under, Props, NEW s \in Senders, NEW c \in Command, Calls(s, c)
  PROVE  Props'
<1>1. /\ UNCHANGED <<spoken, abandoned, promptUses>>
      /\ disturbed \subseteq disturbed'
      /\ \A t \in Senders : \/ outcome'[t] = outcome[t]
                            \/ /\ t = s /\ outcome'[t].id = c.id
                               /\ outcome'[t].with = NoLine
                               /\ outcome'[t].lines = {}
  BY CallMoves
<1>2. NoLine.of = 0 /\ ~Final(NoLine)
  BY Members DEF Inv
<1>3. CrossedAnswersWereAbandoned'
  BY <1>1, <1>2 DEF Props, CrossedAnswersWereAbandoned
<1>4. PromptsGetTheirPdu'
  BY <1>1 DEF Props, PromptsGetTheirPdu
<1>5. LinesLostOnlyWhenDisturbed'
  BY <1>1, <1>2 DEF Props, LinesLostOnlyWhenDisturbed, Final
<1> QED BY <1>3, <1>4, <1>5 DEF Props

-----------------------------------------------------------------------------
(* The end of a wait.  What is left of the command is given up, or its     *)
(* final line was the last of it.                                          *)

LEMMA LeaveKeepsAnswers ==
  ASSUME Inv, Under, Props, NEW s \in Senders, Waiting(s),
         NEW e \in Errors, NEW l \in {result, NoLine}, NEW ls,
         LeaveWait(s, e, l, ls), ls \subseteq lines, l # NoLine => ls = lines
  PROVE  Under' /\ Props'
<1>1. /\ TypeOK /\ owner = s /\ s # Nobody
      /\ cmd[s].id \in Nat /\ cmd[s] \in Command
  BY SenderAssumption DEF Inv, TypeOK, OneOwner, Command
<1>2. /\ owner' = Nobody /\ lines' = {} /\ result' = NoLine
      /\ UNCHANGED <<cmd, smsPdu, reader, modem, wire, spoken, issued,
                     disturbed, promptUses>>
      /\ abandoned' = IF l.of = cmd[s].id /\ Final(l)
                        THEN abandoned ELSE abandoned \union {cmd[s].id}
  BY DEF LeaveWait, modemVars
<1>3. /\ outcome'[s].id = cmd[s].id /\ outcome'[s].err = e
      /\ outcome'[s].with = l /\ outcome'[s].lines = ls
      /\ \A t \in Senders : t # s => outcome'[t] = outcome[t]
      /\ pc'[s] = After(cmd[s], e)
      /\ \A t \in Senders : t # s => pc'[t] = pc[t]
  BY DEF LeaveWait, Inv, TypeOK
<1>4. /\ NoLine.of = 0 /\ ~Final(NoLine) /\ NoLine.kind = "none"
      /\ \A k \in InFlight : k \in Line /\ k.of \in Nat
  BY <1>1, Members
<1>5. /\ Orders' = Orders /\ Wired' = Wired
      /\ InFlight' = Wired \union {reader.line, NoLine}
  BY <1>2 DEF Orders, Wired, InFlight
<1>6. l.of = cmd[s].id /\ Final(l) =>
        /\ \A c \in Orders : c.id # cmd[s].id
        /\ \A k \in Wired \union {reader.line} : k.of # cmd[s].id
  BY <1>4 DEF Under, FinalIsLast, Ordered, OnWire
<1>7. Under'
  <2>1. Numbers'
    <3>1. \A k \in InFlight' : Numbered(k)'
      <4>1. issued \in Nat
        BY <1>1 DEF TypeOK
      <4>2. \A k \in Wired \union {reader.line} : Numbered(k)
        BY DEF Under, Numbers, InFlight
      <4> QED BY <1>2, <1>4, <1>5, <4>1, <4>2 DEF Numbered
    <3>2. \A t \in Senders : /\ cmd'[t].id \in 0..issued'
                             /\ outcome'[t].id \in 0..issued'
      BY <1>2, <1>3 DEF Under, Numbers
    <3> QED BY <1>2, <1>5, <3>1, <3>2 DEF Under, Numbers
  <2>2. FinalIsLast'
    BY <1>2, <1>4, <1>5
       DEF Under, FinalIsLast, Once, LastOnWire, Final, Ordered, OnWire
  <2>3. OneIsAwaited'
    <3>1. \A n : Accounted(n) => n \in {0, cmd[s].id} \union abandoned
      BY <1>1 DEF Accounted
    <3>2. \A n \in {0} \union abandoned' : Accounted(n)'
      BY <1>2 DEF Accounted
    <3>3. /\ abandoned \subseteq abandoned'
          /\ cmd[s].id \notin abandoned' => l.of = cmd[s].id /\ Final(l)
      BY <1>2, Zenon
    <3>4. \A c \in Orders : c.id \in {0} \union abandoned'
      BY <1>6, <3>1, <3>3 DEF Under, OneIsAwaited
    <3>5. \A k \in Wired \union {reader.line} : k.of \in {0} \union abandoned'
      BY <1>6, <3>1, <3>3 DEF Under, OneIsAwaited, InFlight
    <3> QED BY <1>4, <1>5, <3>2, <3>4, <3>5 DEF OneIsAwaited
  <2>4. SmsOwns'
    <3>1. cmd[s].kind = "sms" => pc'[s] = "clearPdu"
      BY <1>3 DEF After
    <3> QED BY <1>2, <1>3, <3>1, SenderAssumption DEF Under, SmsOwns
  <2>5. AsSent' /\ Collecting'
    BY <1>2 DEF AsSent, Collecting, Undisturbed
  <2>6. Over'
    <3> SUFFICES ASSUME NEW t \in Senders, GotItsFinal(outcome'[t]),
                        NEW d \in Orders
                 PROVE  d.id # outcome'[t].id
      BY <1>5 DEF Over, GotItsFinal, Final
    <3>1. CASE t = s
      BY <1>3, <1>6, <3>1 DEF GotItsFinal
    <3>2. CASE t # s
      BY <1>3, <3>2 DEF Under, Over
    <3> QED BY <3>1, <3>2
  <2> QED BY <2>1, <2>2, <2>3, <2>4, <2>5, <2>6 DEF Under
<1>8. CrossedAnswersWereAbandoned'
  <2>1. abandoned \subseteq abandoned'
    BY <1>2
  <2>2. \A k \in {l} \union ls : k.of \in {0, cmd[s].id} \union abandoned
    BY <1>1, <1>4 DEF Under, OneIsAwaited, Accounted, InFlight
  <2> QED BY <1>3, <2>1, <2>2 DEF Props, CrossedAnswersWereAbandoned
<1>9. PromptsGetTheirPdu'
  BY <1>2 DEF Props, PromptsGetTheirPdu
<1>10. LinesLostOnlyWhenDisturbed'
  <2> SUFFICES ASSUME NEW t \in Senders, GotItsFinal(outcome'[t]),
                      outcome'[t].id \in spoken \ disturbed
               PROVE  \E k \in outcome'[t].lines : k.of = outcome'[t].id
    BY <1>2 DEF LinesLostOnlyWhenDisturbed, GotItsFinal, Final
  <2>1. CASE t = s
    <3>1. /\ Final(l) /\ l.of = cmd[s].id /\ l = result /\ ls = lines
          /\ cmd[owner].id \in spoken \ disturbed
      BY <1>1, <1>3, <1>4, <2>1 DEF GotItsFinal
    <3>2. Undisturbed
      BY <1>1, <3>1 DEF Undisturbed, Under, AsSent
    <3>3. \E k \in lines : k.of = cmd[owner].id
      BY <1>1, <1>6, <3>1, <3>2 DEF Under, Collecting, IsOwn
    <3> QED BY <1>1, <1>3, <2>1, <3>1, <3>3
  <2>2. CASE t # s
    BY <1>3, <2>2 DEF Props, LinesLostOnlyWhenDisturbed, GotItsFinal
  <2> QED BY <2>1, <2>2
<1> QED BY <1>7, <1>8, <1>9, <1>10 DEF Props

LEMMA WaiterKeepsAnswers ==
  ASSUME Inv, Under, Props, NEW s \in Senders, WakeUp(s) \/ TimeOut(s)
  PROVE  Under' /\ Props'
<1>1. CASE WakeUp(s)
  <2>1. PICK e \in {"closed", "success"} : LeaveWait(s, e, result, lines)
    BY <1>1 DEF WakeUp
  <2> QED BY <1>1, <2>1, LeaveKeepsAnswers DEF WakeUp, Errors
<1>2. CASE TimeOut(s)
  <2>1. Waiting(s) /\ LeaveWait(s, "timeout", NoLine, {})
    BY <1>2 DEF TimeOut
  <2>2. "timeout" \in Errors /\ NoLine \in {result, NoLine}
    BY DEF Errors
  <2> QED BY <2>1, <2>2, LeaveKeepsAnswers
<1> QED BY <1>1, <1>2

-----------------------------------------------------------------------------
(* Steps that move no line. *)

LEMMA QuietKeepsAnswers ==
  ASSUME Inv, Under, Props,
         UNCHANGED <<cmd, outcome, owner, lines, result, prefix, modem, wire,
                     spoken, issued, abandoned, disturbed, promptUses>>,
         reader'.line = reader.line, reader'.isPrefix = reader.isPrefix,
         reader'.pc = reader.pc \/ reader.pc # "matched",
         smsPdu' \in {smsPdu, Nobody},
         smsPdu' # Nobody => pc'[smsPdu] \in {"waiting", "clearPdu"}
  PROVE  Under' /\ Props'
<1>1. Orders' = Orders /\ Wired' = Wired /\ InFlight' = InFlight
  BY DEF Orders, Wired, InFlight
<1>2. Numbers'
  BY <1>1 DEF Under, Numbers, Numbered
<1>3. FinalIsLast'
  BY <1>1 DEF Under, FinalIsLast, Once, LastOnWire, Final, Ordered, OnWire
<1>4. OneIsAwaited'
  BY <1>1 DEF Under, OneIsAwaited, Accounted
<1>5. SmsOwns'
  BY DEF Under, SmsOwns
<1>6. AsSent'
  BY <1>1 DEF Under, AsSent
<1>7. Collecting'
  BY <1>1 DEF Under, Collecting, Undisturbed, IsOwn, FormOf
<1>8. Over'
  BY <1>1 DEF Under, Over, GotItsFinal, Final
<1>9. Props'
  BY DEF Props, CrossedAnswersWereAbandoned, PromptsGetTheirPdu,
         LinesLostOnlyWhenDisturbed, Final
<1> QED BY <1>2, <1>3, <1>4, <1>5, <1>6, <1>7, <1>8, <1>9 DEF Under

LEMMA SenderKeepsAnswers ==
  ASSUME Inv, Under, Props, NEW s \in Senders, SenderStep(s)
  PROVE  Under' /\ Props'
<1>1. CASE \/ SendCommandLock(s)
           \/ SendCommandLockPaused(s)
           \/ SendAfterResync(s)
           \/ SendCommandNetWorksLock(s)
           \/ SendCommandSmsLock(s)
  BY <1>1, SendingCalls, CallKeepsUnder, CallKeepsProps
<1>2. CASE WakeUp(s) \/ TimeOut(s)
  BY <1>2, WaiterKeepsAnswers
<1>3. smsPdu # Nobody => pc[smsPdu] \in {"waiting", "clearPdu"}
                           /\ smsPdu \in Senders
  BY SenderAssumption DEF Under, SmsOwns
<1>4. CASE WaitAgain(s)
  <2>1. UNCHANGED <<pc, cmd, outcome, owner, lines, result, prefix, smsPdu,
                    modem, wire, spoken, issued, abandoned, disturbed,
                    promptUses, reader>>
    BY <1>4 DEF WaitAgain, threadVars, commandVars, modemVars, historyVars
  <2> QED BY <1>3, <2>1, QuietKeepsAnswers
<1>5. CASE ClearSmsPdu(s)
  <2>1. /\ UNCHANGED <<cmd, outcome, owner, lines, result, prefix, modem,
                       wire, spoken, issued, abandoned, disturbed,
                       promptUses, reader>>
        /\ smsPdu' = Nobody
    BY <1>5 DEF ClearSmsPdu, modemVars, historyVars
  <2> QED BY <2>1, QuietKeepsAnswers
<1>6. CASE SenderOnReaderClosed(s)
  <2>1. /\ UNCHANGED <<cmd, outcome, owner, lines, result, prefix, smsPdu,
                       modem, wire, spoken, issued, abandoned, disturbed,
                       promptUses, reader>>
        /\ pc[s] = "failed" /\ pc' = [pc EXCEPT ![s] = "idle"]
    BY <1>6 DEF SenderOnReaderClosed, commandVars, modemVars, historyVars
  <2>2. smsPdu' # Nobody => pc'[smsPdu] \in {"waiting", "clearPdu"}
    BY <1>3, <2>1 DEF Inv, TypeOK
  <2> QED BY <2>1, <2>2, QuietKeepsAnswers
<1> QED BY <1>1, <1>2, <1>4, <1>5, <1>6 DEF SenderStep

-----------------------------------------------------------------------------
(* The reader. *)

LEMMA ReadLineKeepsAnswers ==
  ASSUME Inv, Under, Props, ReadLine
  PROVE  Under' /\ Props'
<1>1. /\ reader.pc = "reading" /\ wire # <<>> /\ wire' = Tail(wire)
      /\ reader'.pc = "matched" /\ reader'.line = Head(wire)
      /\ reader'.isPrefix = (prefix # NoPrefix /\ Head(wire).tag = prefix)
      /\ UNCHANGED <<pc, cmd, outcome, owner, lines, result, prefix, smsPdu,
                     modem, spoken, issued, abandoned, disturbed, promptUses>>
  BY DEF ReadLine, threadVars, commandVars, historyVars
<1>2. /\ Head(wire) \in Wired /\ Wired' \subseteq Wired
      /\ Wired \subseteq Wired' \union {Head(wire)}
      /\ LastOnWire => LastOnWire'
      /\ LastOnWire /\ Final(Head(wire))
           => \A l \in Wired' : l.of # Head(wire).of
  BY <1>1, Reads DEF Inv
<1>3. Orders' = Orders /\ InFlight' \subseteq InFlight
  BY <1>1, <1>2 DEF Orders, InFlight
<1>4. Numbers'
  BY <1>1, <1>3 DEF Under, Numbers, Numbered
<1>5. FinalIsLast'
  <2>1. Once' /\ LastOnWire'
    BY <1>1, <1>2 DEF Under, FinalIsLast, Once
  <2>2. \A l \in Wired : Final(l) => \A c \in Orders' : c.id # l.of
    BY <1>3 DEF Under, FinalIsLast, Ordered
  <2>3. Final(result) => /\ \A c \in Orders' : c.id # result.of
                         /\ \A l \in Wired : l.of # result.of
    BY <1>3 DEF Under, FinalIsLast, Ordered, OnWire
  <2>4. Final(Head(wire)) => \A l \in Wired' : l.of # Head(wire).of
    BY <1>2 DEF Under, FinalIsLast
  <2> QED BY <1>1, <1>2, <2>1, <2>2, <2>3, <2>4
          DEF FinalIsLast, Ordered, OnWire, Final
<1>6. OneIsAwaited'
  BY <1>1, <1>3 DEF Under, OneIsAwaited, Accounted
<1>7. SmsOwns'
  BY <1>1 DEF Under, SmsOwns
<1>8. AsSent'
  BY <1>1, <1>3 DEF Under, AsSent
<1>9. Collecting'
  <2> SUFFICES ASSUME Undisturbed
               PROVE  /\ prefix = cmd[owner].prefix
                      /\ cmd[owner].prefix = NoPrefix => smsPdu = Nobody
                      /\ cmd[owner].id \in spoken =>
                           \/ \E l \in lines : l.of = cmd[owner].id
                           \/ \E l \in Wired' : IsOwn(l)
                           \/ /\ IsOwn(Head(wire))
                              /\ \/ prefix # NoPrefix
                                    /\ Head(wire).tag = prefix
                                 \/ cmd[owner].prefix = NoPrefix
    BY <1>1 DEF Collecting, Undisturbed, IsOwn, FormOf
  <2>1. /\ prefix = cmd[owner].prefix
        /\ cmd[owner].prefix = NoPrefix => smsPdu = Nobody
        /\ cmd[owner].id \in spoken =>
             \/ \E l \in lines : l.of = cmd[owner].id
             \/ \E l \in Wired : IsOwn(l)
    BY <1>1 DEF Under, Collecting
  <2>2. IsOwn(Head(wire)) => \/ prefix # NoPrefix /\ Head(wire).tag = prefix
                             \/ cmd[owner].prefix = NoPrefix
    BY <2>1 DEF IsOwn, FormOf
  <2> QED BY <1>2, <2>1, <2>2
<1>10. Over'
  BY <1>1, <1>3 DEF Under, Over, GotItsFinal, Final
<1>11. Props'
  BY <1>1 DEF Props, CrossedAnswersWereAbandoned, PromptsGetTheirPdu,
              LinesLostOnlyWhenDisturbed, Final
<1> QED BY <1>4, <1>5, <1>6, <1>7, <1>8, <1>9, <1>10, <1>11 DEF Under

Takes == \/ NotifyIdle \/ TakeFinal \/ TakePrompt \/ CollectLine \/ NotifyBusy

LEMMA TakeKeepsAnswers ==
  ASSUME Inv, Under, Props, Takes
  PROVE  Under' /\ Props'
<1>1. /\ reader.pc = "matched"
      /\ reader'.pc = "reading" /\ reader'.line = NoLine
      /\ UNCHANGED <<pc, cmd, outcome, owner, prefix, smsPdu, modem, wire,
                     spoken, issued, abandoned, disturbed>>
  BY DEF Takes, NotifyIdle, TakeFinal, TakePrompt, CollectLine, NotifyBusy,
         BackToRead, threadVars, commandVars, modemVars, historyVars
<1>2. /\ result' \in {result, reader.line}
      /\ lines \subseteq lines' /\ lines' \subseteq lines \union {reader.line}
  BY DEF Takes, NotifyIdle, TakeFinal, TakePrompt, CollectLine, NotifyBusy,
         commandVars
<1>3. /\ Orders' = Orders /\ Wired' = Wired
      /\ InFlight' \subseteq InFlight \union {NoLine}
  BY <1>1, <1>2 DEF Orders, Wired, InFlight
<1>4. /\ NoLine.of = 0 /\ ~Final(NoLine) /\ NoLine.kind = "none"
      /\ issued \in Nat
      /\ \A l \in InFlight : l \in Line /\ l.of \in Nat
  BY Members DEF Inv, TypeOK
<1>5. Numbers'
  <2>1. \A l \in InFlight' : Numbered(l)'
    BY <1>1, <1>3, <1>4 DEF Under, Numbers, Numbered
  <2> QED BY <1>1, <1>3, <2>1 DEF Under, Numbers
<1>6. FinalIsLast'
  <2>1. Once' /\ LastOnWire'
    BY <1>1 DEF Under, FinalIsLast, Once, LastOnWire, Final
  <2>2. \A l \in Wired : Final(l) => ~Ordered(l.of)'
    BY <1>3 DEF Under, FinalIsLast, Ordered
  <2>3. \A l \in {NoLine, result, reader.line} :
          Final(l) => ~OnWire(l.of)' /\ ~Ordered(l.of)'
    BY <1>3, <1>4 DEF Under, FinalIsLast, Ordered, OnWire
  <2>4. \A l \in {result, reader.line} : Final(l) => l.of # 0
    BY DEF Under, Numbers, Numbered, Final, InFlight
  <2> QED BY <1>1, <1>2, <1>3, <1>4, <2>1, <2>2, <2>3, <2>4
          DEF FinalIsLast, Final
<1>7. OneIsAwaited'
  <2>1. \A n : Accounted(n) => Accounted(n)'
    BY <1>1 DEF Accounted
  <2>2. Accounted(NoLine.of)
    BY <1>4 DEF Accounted
  <2> QED BY <1>3, <2>1, <2>2 DEF Under, OneIsAwaited
<1>8. SmsOwns'
  BY <1>1 DEF Under, SmsOwns
<1>9. AsSent'
  BY <1>1, <1>3, <1>4 DEF Under, AsSent
<1>10. Collecting'
  <2> SUFFICES ASSUME Undisturbed
               PROVE  /\ prefix = cmd[owner].prefix
                      /\ cmd[owner].prefix = NoPrefix => smsPdu = Nobody
                      /\ cmd[owner].id \in spoken =>
                           \/ \E l \in lines' : l.of = cmd[owner].id
                           \/ \E l \in Wired : IsOwn(l)
    BY <1>1, <1>3 DEF Collecting, Undisturbed, IsOwn, FormOf
  <2>1. /\ prefix = cmd[owner].prefix
        /\ cmd[owner].prefix = NoPrefix => smsPdu = Nobody
        /\ cmd[owner].id \in spoken =>
             \/ \E l \in lines : l.of = cmd[owner].id
             \/ \E l \in Wired : IsOwn(l)
             \/ /\ IsOwn(reader.line)
                /\ reader.isPrefix \/ cmd[owner].prefix = NoPrefix
    BY <1>1 DEF Under, Collecting
  <2>2. ASSUME IsOwn(reader.line),
               reader.isPrefix \/ cmd[owner].prefix = NoPrefix
        PROVE  \E l \in lines' : l.of = cmd[owner].id
    <3>1. Collects
      BY <2>1, <2>2 DEF Collects, IsOwn, FormOf
    <3>2. CollectLine
      BY <2>2, <3>1 DEF Takes, NotifyIdle, TakeFinal, TakePrompt, NotifyBusy,
                        Undisturbed, IsOwn, Final
    <3> QED BY <2>2, <3>2 DEF CollectLine, IsOwn
  <2> QED BY <1>2, <2>1, <2>2
<1>11. Over'
  BY <1>1, <1>3 DEF Under, Over, GotItsFinal, Final
<1>12. PromptsGetTheirPdu'
  <2>1. CASE promptUses' = promptUses
    BY <1>1, <2>1 DEF Props, PromptsGetTheirPdu
  <2>2. CASE TakePrompt
    <3>1. /\ owner # Nobody /\ smsPdu # Nobody /\ reader.line.kind = "prompt"
          /\ promptUses' = promptUses \union
                {[pdu |-> cmd[smsPdu].id, prompt |-> reader.line.of]}
      BY <2>2 DEF TakePrompt
    <3>2. reader.line.of # 0
          /\ reader.line.of \in abandoned \union {cmd[owner].id}
      BY <3>1 DEF Under, Numbers, Numbered, OneIsAwaited, Accounted, InFlight
    <3>3. reader.line.of = cmd[owner].id => owner = smsPdu
      <4>1. owner \in Senders
        BY <3>1 DEF Inv, TypeOK
      <4>2. reader.line.of = cmd[owner].id => owner \in Requesters
        BY <3>1, <4>1 DEF Under, AsSent, SmsOwns, InFlight
      <4> QED BY <3>1, <4>2, RequestAssumption DEF Under, SmsOwns
    <3>4. \A u \in promptUses' : u \in promptUses
              \/ (u.pdu = cmd[smsPdu].id /\ u.prompt = reader.line.of)
      BY <3>1
    <3> QED BY <1>1, <3>2, <3>3, <3>4 DEF Props, PromptsGetTheirPdu
  <2> QED BY <2>1, <2>2 DEF Takes, NotifyIdle, TakeFinal, CollectLine,
                            NotifyBusy, historyVars
<1>13. CrossedAnswersWereAbandoned' /\ LinesLostOnlyWhenDisturbed'
  BY <1>1 DEF Props, CrossedAnswersWereAbandoned, LinesLostOnlyWhenDisturbed,
              Final
<1> QED BY <1>5, <1>6, <1>7, <1>8, <1>9, <1>10, <1>11, <1>12, <1>13
        DEF Under, Props

LEMMA ReaderKeepsAnswers ==
  ASSUME Inv, Under, Props, ReaderStep
  PROVE  Under' /\ Props'
<1>1. CASE ReadLine
  BY <1>1, ReadLineKeepsAnswers
<1>2. CASE Takes
  BY <1>2, TakeKeepsAnswers
<1>3. CASE ReaderEof \/ ReaderOnReaderClosed
  <2>1. /\ UNCHANGED <<pc, cmd, outcome, owner, lines, result, prefix, smsPdu,
                       modem, wire, spoken, issued, abandoned, disturbed,
                       promptUses>>
        /\ reader.pc # "matched"
        /\ \E a : reader' = [reader EXCEPT !.pc = a]
    BY <1>3 DEF ReaderEof, ReaderOnReaderClosed, threadVars, commandVars,
                modemVars, historyVars
  <2>2. reader'.line = reader.line /\ reader'.isPrefix = reader.isPrefix
    BY <2>1 DEF Inv, TypeOK
  <2>3. smsPdu' # Nobody => pc'[smsPdu] \in {"waiting", "clearPdu"}
    BY <2>1 DEF Under, SmsOwns
  <2> QED BY <2>1, <2>2, <2>3, QuietKeepsAnswers
<1> QED BY <1>1, <1>2, <1>3 DEF ReaderStep, Takes

-----------------------------------------------------------------------------
(* The modem. *)

(* The modem writes the line l, for nobody or for a command it has.        *)
LEMMA SpeakKeepsAnswers ==
  ASSUME Inv, Under, Props, ModemUnchanged, NEW l \in Line, Write(l),
         l.of = 0 => l.kind = "data",
         l.of # 0 => Ordered(l.of),
         l.kind = "prompt" =>
           \E c \in Orders : c.id = l.of /\ c.kind = "sms",
         Final(l) => \A c \in Orders' : c.id # l.of,
         Once',
         \A c \in Orders' : \E d \in Orders :
           /\ c.id = d.id /\ c.prefix = d.prefix
           /\ c.kind = d.kind \/ (c.kind = "plain" /\ d.kind = "sms"),
         \/ spoken' = spoken
         \/ /\ l.kind = "data" /\ spoken' = spoken \union {l.of}
            /\ \E c \in Orders : /\ c.id = l.of /\ c.kind # "resync"
                                 /\ l.tag = FormOf(c)
  PROVE  Under' /\ Props'
<1>1. UNCHANGED <<pc, cmd, outcome, owner, lines, result, prefix, smsPdu,
                  reader, issued, abandoned, disturbed, promptUses>>
  BY DEF ModemUnchanged, threadVars, commandVars
<1>2. /\ Wired' = Wired \union {l}
      /\ LastOnWire /\ (\A k \in Wired : Final(k) => k.of # l.of)
           => LastOnWire'
  BY Writes DEF Inv
<1>3. InFlight' = InFlight \union {l}
  BY <1>1, <1>2 DEF InFlight
<1>4. \A c \in Orders' : \E d \in Orders : c.id = d.id
  OBVIOUS
<1>5. issued \in Nat /\ l.of \in Nat
  BY DEF Inv, TypeOK, Line
<1>6. Numbered(l)
  <2>1. l.of # 0 => l.of \in 1..issued
    BY DEF Ordered, Under, Numbers
  <2> QED BY <1>5, <2>1 DEF Numbered
<1>7. spoken \subseteq spoken' /\ spoken' \subseteq spoken \union {l.of}
      /\ \A n \in spoken' \ spoken : Ordered(n)
  BY DEF Ordered
<1>8. Numbers'
  <2>1. \A k \in InFlight' : Numbered(k)'
    BY <1>1, <1>3, <1>6 DEF Under, Numbers, Numbered
  <2>2. \A c \in Orders' : c.id \in 1..issued
    BY <1>4 DEF Under, Numbers
  <2>3. spoken' \subseteq 0..issued
    BY <1>6, <1>7 DEF Under, Numbers, Numbered
  <2> QED BY <1>1, <2>1, <2>2, <2>3 DEF Under, Numbers
<1>9. FinalIsLast'
  <2>1. \A n : Ordered(n)' => Ordered(n)
    BY <1>4 DEF Ordered
  <2>2. \A k \in Wired \union {reader.line, result} :
          Final(k) => k.of # l.of
    <3>1. \A k \in Wired \union {reader.line, result} :
            Final(k) => ~Ordered(k.of) /\ k.of # 0
      BY DEF Under, FinalIsLast, Numbers, Numbered, InFlight, Final
    <3> QED BY <3>1
  <2>3. LastOnWire'
    BY <1>2, <2>2 DEF Under, FinalIsLast
  <2>4. \A k \in Wired' : Final(k) => ~Ordered(k.of)'
    BY <1>2, <2>1 DEF Under, FinalIsLast, Ordered
  <2>5. \A k \in {reader.line, result} :
          Final(k) => ~OnWire(k.of)' /\ ~Ordered(k.of)'
    BY <1>2, <2>1, <2>2 DEF Under, FinalIsLast, OnWire
  <2>6. Final(result) => reader.line.of # result.of
    BY DEF Under, FinalIsLast
  <2> QED BY <1>1, <2>3, <2>4, <2>5, <2>6 DEF FinalIsLast, Final
<1>10. OneIsAwaited'
  <2>1. \A n : Accounted(n)' <=> Accounted(n)
    BY <1>1 DEF Accounted
  <2>2. \A c \in Orders' : Accounted(c.id)
    BY <1>4 DEF Under, OneIsAwaited
  <2>3. Accounted(l.of)
    BY DEF Under, OneIsAwaited, Ordered, Accounted
  <2> QED BY <1>3, <2>1, <2>2, <2>3 DEF Under, OneIsAwaited
<1>11. SmsOwns'
  BY <1>1 DEF Under, SmsOwns
<1>12. AsSent'
  <2> SUFFICES ASSUME owner # Nobody
               PROVE  /\ \A c \in Orders' : c.id = cmd[owner].id =>
                           /\ c.prefix = cmd[owner].prefix
                           /\ c.kind = "sms" => cmd[owner].kind = "sms"
                           /\ cmd[owner].kind = "resync" => c.kind = "resync"
                      /\ \A k \in InFlight \union {l} :
                           k.of = cmd[owner].id /\ k.kind = "prompt"
                             => cmd[owner].kind = "sms"
                      /\ cmd[owner].id \in spoken'
                           => cmd[owner].kind # "resync"
    BY <1>1, <1>3 DEF AsSent
  <2>1. /\ \A c \in Orders : c.id = cmd[owner].id =>
             /\ c.prefix = cmd[owner].prefix
             /\ c.kind = "sms" => cmd[owner].kind = "sms"
             /\ cmd[owner].kind = "resync" => c.kind = "resync"
        /\ \A k \in InFlight :
             k.of = cmd[owner].id /\ k.kind = "prompt"
               => cmd[owner].kind = "sms"
        /\ cmd[owner].id \in spoken => cmd[owner].kind # "resync"
    BY DEF Under, AsSent
  <2>2. \A c \in Orders' : c.id = cmd[owner].id =>
          /\ c.prefix = cmd[owner].prefix
          /\ c.kind = "sms" => cmd[owner].kind = "sms"
          /\ cmd[owner].kind = "resync" => c.kind = "resync"
    BY <2>1
  <2>3. l.of = cmd[owner].id /\ l.kind = "prompt" => cmd[owner].kind = "sms"
    BY <2>1
  <2>4. cmd[owner].id \in spoken' => cmd[owner].kind # "resync"
    BY <2>1
  <2> QED BY <2>1, <2>2, <2>3, <2>4
<1>13. Collecting'
  <2> SUFFICES ASSUME Undisturbed
               PROVE  /\ prefix = cmd[owner].prefix
                      /\ cmd[owner].prefix = NoPrefix => smsPdu = Nobody
                      /\ cmd[owner].id \in spoken' =>
                           \/ \E k \in lines : k.of = cmd[owner].id
                           \/ \E k \in Wired \union {l} : IsOwn(k)
                           \/ /\ reader.pc = "matched" /\ IsOwn(reader.line)
                              /\ reader.isPrefix \/ cmd[owner].prefix = NoPrefix
    BY <1>1, <1>2 DEF Collecting, Undisturbed, IsOwn, FormOf
  <2>1. /\ prefix = cmd[owner].prefix
        /\ cmd[owner].prefix = NoPrefix => smsPdu = Nobody
        /\ cmd[owner].id \in spoken =>
             \/ \E k \in lines : k.of = cmd[owner].id
             \/ \E k \in Wired : IsOwn(k)
             \/ /\ reader.pc = "matched" /\ IsOwn(reader.line)
                /\ reader.isPrefix \/ cmd[owner].prefix = NoPrefix
    BY DEF Under, Collecting
  <2>2. cmd[owner].id \in spoken' \ spoken => IsOwn(l)
    <3>1. \A c \in Orders : c.id = cmd[owner].id
                              => FormOf(c) = FormOf(cmd[owner])
      BY DEF Under, AsSent, Undisturbed, FormOf
    <3> QED BY <3>1 DEF IsOwn
  <2> QED BY <2>1, <2>2
<1>14. Over'
  BY <1>1, <1>4 DEF Under, Over, GotItsFinal, Final
<1>15. CrossedAnswersWereAbandoned' /\ PromptsGetTheirPdu'
  BY <1>1 DEF Props, CrossedAnswersWereAbandoned, PromptsGetTheirPdu
<1>16. LinesLostOnlyWhenDisturbed'
  <2> SUFFICES ASSUME NEW t \in Senders, GotItsFinal(outcome[t]),
                      outcome[t].id \in spoken' \ disturbed
               PROVE  \E k \in outcome[t].lines : k.of = outcome[t].id
    BY <1>1 DEF LinesLostOnlyWhenDisturbed, GotItsFinal, Final
  <2>1. outcome[t].id \in spoken
    BY <1>7 DEF Under, Over, Ordered
  <2> QED BY <2>1 DEF Props, LinesLostOnlyWhenDisturbed, GotItsFinal
<1> QED BY <1>8, <1>9, <1>10, <1>11, <1>12, <1>13, <1>14, <1>15, <1>16
        DEF Under, Props

LEMMA ModemKeepsAnswers ==
  ASSUME Inv, Under, Props, ModemStep
  PROVE  Under' /\ Props'
<1>1. TypeOK /\ Once
  BY DEF Inv, Under, FinalIsLast
<1>2. \A n \in Nat, k \in {"data", "prompt", "final"}, t \in Tags :
        [kind |-> k, tag |-> t, of |-> n] \in Line
  BY DEF Line, LineKind
<1>3. NoPrefix \in Tags /\ \A p \in Prefixes : p \in Tags
  BY DEF Tags
<1>4. ASSUME modem # <<>>
      PROVE  /\ Head(modem) \in Orders /\ Head(modem) \in Command
             /\ Head(modem).id \in Nat /\ Head(modem).id # 0
             /\ FormOf(Head(modem)) \in Tags
  <2>1. Head(modem) \in Orders /\ Head(modem) \in Command
    BY <1>1, <1>4, HeadOfModem
  <2>2. Head(modem).id \in 1..issued /\ issued \in Nat
    BY <1>1, <2>1 DEF Under, Numbers, TypeOK
  <2>3. FormOf(Head(modem)) \in Tags
    BY <2>1 DEF FormOf, Command, Tags
  <2> QED BY <2>1, <2>2, <2>3
<1>5. ASSUME modem' = modem PROVE Orders' = Orders /\ Once'
  BY <1>1, <1>5 DEF Orders, Once
<1>6. CASE ModemData
  <2> DEFINE l == [kind |-> "data", tag |-> FormOf(Head(modem)),
                   of |-> Head(modem).id]
  <2>1. /\ modem # <<>> /\ Head(modem).kind # "resync" /\ Write(l)
        /\ spoken' = spoken \union {l.of} /\ ModemUnchanged /\ modem' = modem
    BY <1>6 DEF ModemData
  <2>2. l \in Line /\ l.kind = "data" /\ l.of = Head(modem).id
        /\ l.tag = FormOf(Head(modem)) /\ ~Final(l)
    BY <1>2, <1>4, <2>1 DEF Final
  <2> HIDE DEF l
  <2>3. Ordered(l.of)
    BY <1>4, <2>1, <2>2 DEF Ordered
  <2> QED BY <1>4, <1>5, <2>1, <2>2, <2>3, SpeakKeepsAnswers
<1>7. CASE ModemPrompt
  <2> DEFINE l == [kind |-> "prompt", tag |-> NoPrefix, of |-> Head(modem).id]
             d == [Head(modem) EXCEPT !.kind = "plain"]
  <2>1. /\ modem # <<>> /\ Head(modem).kind = "sms" /\ Write(l)
        /\ modem' = <<d>> \o Tail(modem)
        /\ ModemUnchanged /\ spoken' = spoken
    BY <1>7 DEF ModemPrompt
  <2>2. l \in Line /\ l.kind = "prompt" /\ l.of = Head(modem).id /\ ~Final(l)
    BY <1>2, <1>3, <1>4, <2>1 DEF Final
  <2>3. /\ d \in Command /\ d.id = Head(modem).id
        /\ d.prefix = Head(modem).prefix /\ d.kind = "plain"
    BY <1>4, <2>1 DEF Command, CommandKind
  <2> HIDE DEF l, d
  <2>4. Orders' \subseteq Orders \union {d} /\ Once'
    BY <1>1, <2>1, <2>3, Prompts
  <2>5. Ordered(l.of)
    BY <1>4, <2>1, <2>2 DEF Ordered
  <2>6. \A c \in Orders' : \E e \in Orders :
           /\ c.id = e.id /\ c.prefix = e.prefix
           /\ c.kind = e.kind \/ (c.kind = "plain" /\ e.kind = "sms")
    BY <1>4, <2>1, <2>3, <2>4
  <2> QED BY <1>4, <2>1, <2>2, <2>4, <2>5, <2>6, SpeakKeepsAnswers
<1>8. CASE ModemFinal
  <2> DEFINE l == [kind |-> "final", tag |-> NoPrefix, of |-> Head(modem).id]
  <2>1. /\ modem # <<>> /\ Write(l) /\ modem' = Tail(modem)
        /\ ModemUnchanged /\ spoken' = spoken
    BY <1>8 DEF ModemFinal
  <2>2. l \in Line /\ l.kind = "final" /\ l.of = Head(modem).id
    BY <1>2, <1>3, <1>4, <2>1
  <2> HIDE DEF l
  <2>3. Orders' \subseteq Orders /\ Once' /\ \A c \in Orders' : c.id # l.of
    BY <1>1, <2>1, <2>2, Finishes
  <2>4. Ordered(l.of)
    BY <1>4, <2>1, <2>2 DEF Ordered
  <2> QED BY <1>4, <2>1, <2>2, <2>3, <2>4, SpeakKeepsAnswers
<1>9. CASE ModemUrc
  <2>1. PICK p \in Prefixes : Write([kind |-> "data", tag |-> p, of |-> 0])
    BY <1>9 DEF ModemUrc
  <2> DEFINE l == [kind |-> "data", tag |-> p, of |-> 0]
  <2>2. l \in Line /\ l.kind = "data" /\ l.of = 0 /\ ~Final(l) /\ Write(l)
    BY <1>2, <1>3, <2>1 DEF Final
  <2>3. ModemUnchanged /\ modem' = modem /\ spoken' = spoken
    BY <1>9 DEF ModemUrc
  <2> HIDE DEF l
  <2> QED BY <1>5, <2>2, <2>3, SpeakKeepsAnswers
<1> QED BY <1>6, <1>7, <1>8, <1>9 DEF ModemStep

-----------------------------------------------------------------------------
LEMMA InitAnswers == Init => Under /\ Props
<1> SUFFICES ASSUME Init PROVE Under /\ Props
  OBVIOUS
<1>1. NoLine.of = 0 /\ NoLine.kind = "none" /\ ~Final(NoLine)
  BY DEF NoLine, Final
<1>2. /\ modem = <<>> /\ wire = <<>> /\ spoken = {} /\ issued = 0
      /\ owner = Nobody /\ smsPdu = Nobody /\ lines = {} /\ result = NoLine
      /\ reader.line = NoLine /\ promptUses = {}
      /\ \A s \in Senders : /\ cmd[s].id = 0 /\ cmd[s].kind = "plain"
                            /\ outcome[s].id = 0 /\ outcome[s].with = NoLine
                            /\ outcome[s].lines = {}
  BY DEF Init, Return, NoCommand
<1>3. Orders = {} /\ Wired = {} /\ InFlight = {NoLine}
  BY <1>2 DEF Orders, Wired, InFlight
<1>4. Numbers
  BY <1>1, <1>2, <1>3 DEF Numbers, Numbered
<1>5. FinalIsLast
  BY <1>1, <1>2, <1>3 DEF FinalIsLast, Once, LastOnWire
<1>6. OneIsAwaited
  BY <1>1, <1>3 DEF OneIsAwaited, Accounted
<1>7. SmsOwns /\ AsSent /\ Collecting /\ Over
  BY <1>2, <1>3 DEF SmsOwns, AsSent, Collecting, Undisturbed, Over
<1>8. Props
  BY <1>1, <1>2 DEF Props, CrossedAnswersWereAbandoned, PromptsGetTheirPdu,
                    LinesLostOnlyWhenDisturbed
<1> QED BY <1>4, <1>5, <1>6, <1>7, <1>8 DEF Under

LEMMA StepKeepsAnswers == AnswersInv /\ [Next]_vars => AnswersInv'
<1> SUFFICES ASSUME AnswersInv, [Next]_vars PROVE AnswersInv'
  OBVIOUS
<1> USE DEF AnswersInv
<1>1. Inv'
  BY StepKeepsInv
<1>2. CASE \E s \in Senders : SenderStep(s)
  BY <1>1, <1>2, SenderKeepsAnswers
<1>3. CASE ReaderStep
  BY <1>1, <1>3, ReaderKeepsAnswers
<1>4. CASE ModemStep
  BY <1>1, <1>4, ModemKeepsAnswers
<1>5. CASE UNCHANGED vars
  <2>1. UNCHANGED <<pc, cmd, outcome, owner, lines, result, prefix, smsPdu,
                    modem, wire, spoken, issued, abandoned, disturbed,
                    promptUses, reader>>
    BY <1>5 DEF vars, threadVars, commandVars, modemVars, historyVars
  <2>2. smsPdu' # Nobody => pc'[smsPdu] \in {"waiting", "clearPdu"}
    BY <2>1 DEF Under, SmsOwns
  <2> QED BY <1>1, <2>1, <2>2, QuietKeepsAnswers
<1> QED BY <1>2, <1>3, <1>4, <1>5 DEF Next

LEMMA SpecAnswers == Spec => []AnswersInv
<1>1. Init => AnswersInv
  BY InitInv, InitAnswers DEF AnswersInv
<1> QED BY <1>1, StepKeepsAnswers, PTL DEF Spec

(* What ProcessResponse hands to a thread as the response to its command   *)
(* was written for that command or unsolicited, or for a command whose     *)
(* thread had returned before its final line: only a timeout or an early   *)
(* return shifts the modem's answers, never an interleaving.               *)
THEOREM AnswersReachTheirCommand == Spec => []CrossedAnswersWereAbandoned
<1>1. AnswersInv => CrossedAnswersWereAbandoned
  BY DEF AnswersInv, Props
<1> QED BY <1>1, SpecAnswers, PTL

(* The PDU that follows a prompt is that of the SMS the modem asks for,    *)
(* unless that SMS was given up: while the thread of SendCommandSmsLock    *)
(* waits, g_smsPdu is its own.                                             *)
THEOREM PromptsFindTheirPdu == Spec => []PromptsGetTheirPdu
<1>1. AnswersInv => PromptsGetTheirPdu
  BY DEF AnswersInv, Props
<1> QED BY <1>1, SpecAnswers, PTL

(* A command that got its own final line also got the intermediate line    *)
(* the modem wrote for it, unless another thread set g_prefix or g_smsPdu  *)
(* in between.  This although ProcessResponse reads g_prefix before it     *)
(* locks g_commandmutex.                                                   *)
THEOREM LinesAreCollected == Spec => []LinesLostOnlyWhenDisturbed
<1>1. AnswersInv => LinesLostOnlyWhenDisturbed
  BY DEF AnswersInv, Props
<1> QED BY <1>1, SpecAnswers, PTL
=============================================================================
