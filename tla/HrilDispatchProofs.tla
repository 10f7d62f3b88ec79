------------------------- MODULE HrilDispatchProofs -------------------------
(***************************************************************************)
(* Proofs about HrilDispatch, for any tables, methods, requests and        *)
(* addresses.  The invariants are inductive together with who owns which   *)
(* record: the task its own until it has released it, the pointer kept by  *)
(* the search another one; each until reader and alarm handler meet.       *)
(***************************************************************************)
EXTENDS HrilDispatch, TLAPS

Outside == {"reader", "alarm"}
Busy(p) == report[p].step # "none"

Answer == [error : BOOLEAN, payload : Payload]

ReportRecord ==
  [block : Blocks \union {NoBlock},
   step : {"none", "check", "release", "answer"},
   module : SubModules \union {"Network", "none"},
   payload : Payload, error : BOOLEAN,
   code : Codes \union {NoCode}, serial : Serials \union {NoSerial}]

(* TypeOK with the fields of a report, and the domains of the functions.   *)
Types ==
  /\ destroyed \in BOOLEAN /\ raced \in BOOLEAN
  /\ callback \in [SubModules -> BOOLEAN]
  /\ registering \in [left : Seq(SubModules), client : BOOLEAN]
  /\ registrations \in 0..MaxRegistrations
  /\ task \in {NoTask} \union [serial : Serials, block : Blocks]
  /\ heap \in [Blocks -> [live : BOOLEAN, code : Codes \union {NoCode},
                          serial : Serials \union {NoSerial}]]
  /\ requestList \subseteq Codes \X Blocks
  /\ kept \in Blocks \union {NoBlock}
  /\ report \in [Reporters -> ReportRecord]
  /\ asked \in [Serials -> Methods \union {NoMethod}]
  /\ exchange \in [Serials -> {"none", "refused", "silent", "done", "failed"}]
  /\ answers \in [Serials -> Seq(Answer)]

(* A report has an address, that of the task its own; a record that lives  *)
(* belongs to a request that was asked.                                    *)
Reports ==
  /\ \A p \in Reporters : IF Busy(p) THEN report[p].block \in Blocks
                                     ELSE report[p] = NoReport
  /\ Busy("task") => task # NoTask /\ report["task"].block = task.block
  /\ task # NoTask => asked[task.serial] # NoMethod
  /\ \A a \in Blocks : Live(a) => /\ heap[a].serial \in Serials
                                  /\ asked[heap[a].serial] # NoMethod

TaskOwns == task # NoTask /\ report["task"].step # "answer"
KeptOwns == kept # NoBlock /\ \A p \in Outside : report[p].step # "answer"

(* Who owns a record, and that what a report has read of it is still so.   *)
Ownership ==
  /\ TaskOwns => Live(task.block) /\ heap[task.block].serial = task.serial
  /\ KeptOwns => Live(kept)
  /\ TaskOwns /\ KeptOwns => task.block # kept
  /\ \A p \in Outside : Busy(p) => kept # NoBlock /\ report[p].block = kept
  /\ ~(Busy("reader") /\ Busy("alarm"))
  /\ \A p \in Reporters : report[p].step = "release" =>
       /\ report[p].code = heap[report[p].block].code
       /\ report[p].serial = heap[report[p].block].serial
  /\ report["task"].step = "answer" => ~Live(task.block)

(* Each request has one record, or one report that has released it, or has *)
(* been answered.                                                          *)
OneOfEach ==
  /\ \A s \in Serials : asked[s] = NoMethod => answers[s] = <<>>
  /\ \A a, b \in Blocks :
       Live(a) /\ Live(b) /\ heap[a].serial = heap[b].serial => a = b
  /\ \A a \in Blocks : Live(a) => answers[heap[a].serial] = <<>>
  /\ \A p \in Reporters : report[p].step = "answer" =>
       /\ report[p].serial \in Serials
       /\ asked[report[p].serial] # NoMethod
       /\ answers[report[p].serial] = <<>>
       /\ \A a \in Blocks : Live(a) => heap[a].serial # report[p].serial
  /\ \A p, q \in Reporters :
       /\ report[p].step = "answer" /\ report[q].step = "answer"
       /\ report[p].serial = report[q].serial
       => p = q
  /\ \A s \in Serials : Len(answers[s]) <= 1

Silent(a) == exchange[heap[a].serial] = "silent"

(* A record that nobody owns was left by a silent operation, also one that *)
(* has been put where the record was that the search has released.         *)
Leaks ==
  /\ \A a \in Blocks : Live(a) => a \in {task.block, kept} \/ Silent(a)
  /\ \A p \in Outside : report[p].step = "answer" /\ Live(kept)
                          => kept = task.block \/ Silent(kept)

Inv ==
  /\ Types /\ Reports /\ ListIsHeap /\ DestroyWaitsForTheTask
  /\ ~raced => Ownership /\ OneOfEach
  /\ ~raced /\ ~destroyed => Leaks

-----------------------------------------------------------------------------
(* The initial state, and the steps that leave records alone.              *)

LEMMA InitInv == Init => Inv
<1> SUFFICES ASSUME Init PROVE Inv
  OBVIOUS
<1>1. Types
  <2>1. NoReport \in ReportRecord
    BY DEF NoReport, Payload, ReportRecord
  <2>2. registering \in [left : Seq(SubModules), client : BOOLEAN]
    BY DEF Init, Idle
  <2>3. report \in [Reporters -> ReportRecord]
    BY <2>1 DEF Init
  <2>4. answers \in [Serials -> Seq(Answer)]
    BY DEF Init
  <2>5. /\ callback \in [SubModules -> BOOLEAN] /\ registrations = 0
        /\ registrations \in 0..MaxRegistrations
        /\ asked \in [Serials -> Methods \union {NoMethod}]
        /\ exchange \in [Serials -> {"none", "refused", "silent", "done",
                                    "failed"}]
        /\ heap \in [Blocks -> [live : BOOLEAN, code : Codes \union {NoCode},
                                serial : Serials \union {NoSerial}]]
    BY TablesAssumption DEF Init
  <2> QED BY <2>2, <2>3, <2>4, <2>5 DEF Init, Types
<1>2. Reports /\ ListIsHeap /\ DestroyWaitsForTheTask
  BY DEF Init, Reports, ListIsHeap, DestroyWaitsForTheTask, Live, Busy,
         NoReport, Reporters
<1>3. Ownership
  BY DEF Init, Ownership, TaskOwns, KeptOwns, Live, Busy, NoReport, Outside,
         Reporters
<1>4. OneOfEach /\ Leaks
  BY DEF Init, OneOfEach, Leaks, Live, NoReport, Outside, Reporters
<1> QED BY <1>1, <1>2, <1>3, <1>4 DEF Inv

(* What is not types depends on these alone.                               *)
recordState == <<destroyed, task, heap, requestList, kept, report, asked,
                 exchange, answers, raced>>

LEMMA OthersKeepInv == Inv /\ UNCHANGED recordState /\ Types' => Inv'
BY DEF Inv, recordState, Reports, ListIsHeap, DestroyWaitsForTheTask,
       Ownership, OneOfEach, Leaks, TaskOwns, KeptOwns, Live, Busy, Silent

LEMMA ClientKeepsInv ==
  ASSUME Inv, SetRilCallback \/ SetNextCallback \/ UNCHANGED vars
              \/ \E m \in SubModules : \E c, p : ReportNotification(m, c, p)
  PROVE  Inv'
<1>1. UNCHANGED recordState
  BY DEF SetRilCallback, SetNextCallback, ReportNotification, recordState,
         vars, taskVars, recordVars, clientVars
<1>2. Types
  BY DEF Inv
<1>3. CASE SetRilCallback
  <2>1. registering' \in [left : Seq(SubModules), client : BOOLEAN]
    BY <1>3, TablesAssumption DEF SetRilCallback
  <2>2. registrations' \in 0..MaxRegistrations /\ callback' = callback
    BY <1>2, <1>3, TablesAssumption DEF SetRilCallback, Types
  <2>3. Types'
    BY <1>1, <1>2, <2>1, <2>2 DEF Types, recordState
  <2> QED BY <1>1, <2>3, OthersKeepInv
<1>4. CASE SetNextCallback
  <2>1. /\ registering.left \in Seq(SubModules) /\ registering.left # <<>>
        /\ registering.client \in BOOLEAN
    BY <1>2, <1>4 DEF SetNextCallback, Types
  <2>2. /\ Head(registering.left) \in SubModules
        /\ Tail(registering.left) \in Seq(SubModules)
    BY <2>1
  <2>3. callback' \in [SubModules -> BOOLEAN]
    BY <1>2, <1>4, <2>1, <2>2 DEF SetNextCallback, Types
  <2>4. registering' \in [left : Seq(SubModules), client : BOOLEAN]
    <3>1. Idle \in [left : Seq(SubModules), client : BOOLEAN]
      BY DEF Idle
    <3>2. [registering EXCEPT !.left = Tail(@)]
            \in [left : Seq(SubModules), client : BOOLEAN]
      BY <1>2, <2>2 DEF Types
    <3> QED BY <1>4, <3>1, <3>2 DEF SetNextCallback
  <2>5. registrations' = registrations
    BY <1>4 DEF SetNextCallback
  <2>6. Types'
    BY <1>1, <1>2, <2>3, <2>4, <2>5 DEF Types, recordState
  <2> QED BY <1>1, <2>6, OthersKeepInv
<1>5. CASE UNCHANGED vars \/ \E m \in SubModules : \E c, p :
                                ReportNotification(m, c, p)
  <2>1. UNCHANGED clientVars
    BY <1>5 DEF vars, ReportNotification
  <2>2. Types'
    BY <1>1, <1>2, <2>1 DEF Types, recordState, clientVars
  <2> QED BY <1>1, <2>2, OthersKeepInv
<1> QED BY <1>3, <1>4, <1>5

LEMMA DestroyKeepsInv == Inv /\ SetHrilManagerDestroy => Inv'
<1> SUFFICES ASSUME Inv, SetHrilManagerDestroy PROVE Inv'
  OBVIOUS
<1>1. /\ destroyed' = TRUE /\ task = NoTask
      /\ UNCHANGED <<callback, registering, registrations, task, asked,
                     exchange, heap, requestList, kept, report, answers, raced>>
  BY DEF SetHrilManagerDestroy, clientVars, taskVars, recordVars
<1>2. Types'
  BY <1>1 DEF Inv, Types
<1>4. Reports' /\ ListIsHeap' /\ DestroyWaitsForTheTask'
  BY <1>1 DEF Inv, Reports, ListIsHeap, DestroyWaitsForTheTask, Live, Busy
<1>3. ~raced' => Ownership' /\ OneOfEach'
  BY <1>1 DEF Inv, Ownership, OneOfEach, TaskOwns, KeptOwns, Live, Busy
<1> QED BY <1>1, <1>2, <1>3, <1>4 DEF Inv
-----------------------------------------------------------------------------
(* The call. *)

(* What telling the client does to its answers.                            *)
LEMMA TellingAppends ==
  ASSUME answers \in [Serials -> Seq(Answer)], NEW s, NEW e \in Answer,
         answers' = [answers EXCEPT ![s] = Append(@, e)]
  PROVE  /\ answers' \in [Serials -> Seq(Answer)]
         /\ \A t \in Serials : t # s => answers'[t] = answers[t]
         /\ s \in Serials => Len(answers'[s]) = Len(answers[s]) + 1
<1>1. \A q \in Seq(Answer) : /\ Append(q, e) \in Seq(Answer)
                              /\ Len(Append(q, e)) = Len(q) + 1
  OBVIOUS
<1>2. s \in Serials => answers[s] \in Seq(Answer)
  OBVIOUS
<1> QED BY <1>1, <1>2

LEMMA RefusalKeepsInv ==
  ASSUME Inv, NEW s \in Serials, NEW m \in Methods,
         Refuse(s, m) \/ NotImplemented(s, m)
  PROVE  Inv'
<1>1. /\ asked[s] = NoMethod /\ asked' = [asked EXCEPT ![s] = m]
      /\ exchange' = [exchange EXCEPT ![s] = "refused"]
      /\ answers' = answers \/ Tell(s, TRUE, "none")
      /\ task = NoTask
      /\ UNCHANGED <<destroyed, callback, registering, registrations, task,
                     heap, requestList, kept, report, raced>>
  BY DEF Refuse, NotImplemented, Called, Refused, clientVars, recordVars
<1>2. /\ Types /\ Reports /\ ListIsHeap
      /\ ~raced => Ownership /\ OneOfEach
      /\ ~raced /\ ~destroyed => Leaks
  BY DEF Inv
<1>3. m # NoMethod
  BY NamesAssumption
<1>5. \A a \in Blocks : Live(a) => heap[a].serial # s
  BY <1>1, <1>2 DEF Reports
<1>6. /\ answers' \in [Serials -> Seq(Answer)]
      /\ \A t \in Serials : t # s => /\ asked'[t] = asked[t]
                                     /\ exchange'[t] = exchange[t]
                                     /\ answers'[t] = answers[t]
      /\ Len(answers'[s]) <= Len(answers[s]) + 1
  <2>1. answers \in [Serials -> Seq(Answer)] /\ Len(answers[s]) \in Nat
    <3>1. answers \in [Serials -> Seq(Answer)]
      BY <1>2 DEF Types
    <3> QED BY <3>1
  <2>2. [error |-> TRUE, payload |-> "none"] \in Answer
    BY DEF Answer, Payload
  <2>3. \A t \in Serials : t # s => /\ asked'[t] = asked[t]
                                    /\ exchange'[t] = exchange[t]
    BY <1>1, <1>2 DEF Types
  <2>4. CASE answers' = answers
    BY <2>1, <2>3, <2>4
  <2>5. CASE Tell(s, TRUE, "none")
    <3>1. /\ answers' \in [Serials -> Seq(Answer)]
          /\ \A t \in Serials : t # s => answers'[t] = answers[t]
          /\ Len(answers'[s]) = Len(answers[s]) + 1
      BY <2>1, <2>2, <2>5, TellingAppends DEF Tell
    <3> QED BY <2>1, <2>3, <3>1
  <2> QED BY <1>1, <2>4, <2>5
<1>4. Types'
  <2>2. answers' \in [Serials -> Seq(Answer)]
    BY <1>6
  <2>3. /\ asked' \in [Serials -> Methods \union {NoMethod}]
        /\ exchange' \in [Serials -> {"none", "refused", "silent", "done",
                                     "failed"}]
    BY <1>1, <1>2 DEF Types
  <2> QED BY <1>1, <1>2, <2>2, <2>3 DEF Types
<1>7. asked'[s] = m
  BY <1>1, <1>2 DEF Types
<1>8. Reports' /\ ListIsHeap' /\ DestroyWaitsForTheTask'
  <2>1. Reports'
    BY <1>1, <1>2, <1>3, <1>6, <1>7 DEF Reports, Live, Busy
  <2>2. ListIsHeap' /\ DestroyWaitsForTheTask'
    BY <1>1, <1>2 DEF ListIsHeap, DestroyWaitsForTheTask, Live
  <2> QED BY <2>1, <2>2
<1>9. ASSUME ~raced PROVE Ownership' /\ OneOfEach'
  <2>1. Ownership'
    BY <1>1, <1>2, <1>9 DEF Ownership, TaskOwns, KeptOwns, Live, Busy
  <2>2. OneOfEach
    BY <1>2, <1>9
  <2>3. Len(answers'[s]) <= 1
    <3>1. answers[s] = <<>>
      BY <1>1, <2>2 DEF OneOfEach
    <3>2. Len(answers[s]) = 0
      BY <3>1
    <3> QED BY <1>6, <3>2
  <2>4. /\ \A t \in Serials : asked'[t] = NoMethod => answers'[t] = <<>>
        /\ \A t \in Serials : Len(answers'[t]) <= 1
    BY <1>3, <1>6, <1>7, <2>2, <2>3 DEF OneOfEach
  <2>5. \A a \in Blocks : Live(a) => answers'[heap[a].serial] = <<>>
    BY <1>2, <1>5, <1>6, <2>2 DEF OneOfEach, Reports
  <2>6. \A p \in Reporters : report[p].step = "answer" =>
           /\ report[p].serial \in Serials
           /\ asked'[report[p].serial] # NoMethod
           /\ answers'[report[p].serial] = <<>>
           /\ \A a \in Blocks : Live(a) => heap[a].serial # report[p].serial
    BY <1>1, <1>6, <2>2 DEF OneOfEach
  <2>7. OneOfEach'
    BY <1>1, <2>2, <2>4, <2>5, <2>6 DEF OneOfEach, Live
  <2> QED BY <2>1, <2>7
<1>10. ASSUME ~raced, ~destroyed PROVE Leaks'
  <2>1. Leaks /\ Ownership
    BY <1>2, <1>10
  <2>2. \A a \in Blocks : Live(a) => Silent(a)' = Silent(a)
    BY <1>1, <1>2, <1>5, <1>6 DEF Silent, Reports
  <2>3. \A p \in Outside : report[p].step = "answer" => kept \in Blocks
    BY <1>2, <2>1 DEF Ownership, Busy, Types
  <2> QED BY <1>1, <2>1, <2>2, <2>3 DEF Leaks, Live
<1> QED BY <1>1, <1>4, <1>8, <1>9, <1>10 DEF Inv

LEMMA CreateKeepsInv ==
  ASSUME Inv, NEW s \in Serials, NEW m \in Methods, CreateHRilRequest(s, m)
  PROVE  Inv'
<1> DEFINE c == RequestOf[m].code
<1>1. PICK a \in Blocks :
        /\ ~Live(a)
        /\ heap' = [heap EXCEPT ![a] = [live |-> TRUE, serial |-> s,
                                        code |-> c]]
        /\ requestList' = requestList \union {<<c, a>>}
        /\ task' = [serial |-> s, block |-> a]
  BY DEF CreateHRilRequest
<1>2. /\ asked[s] = NoMethod /\ asked' = [asked EXCEPT ![s] = m]
      /\ task = NoTask /\ ~destroyed
      /\ UNCHANGED <<destroyed, callback, registering, registrations, exchange,
                     kept, report, answers, raced>>
  BY DEF CreateHRilRequest, Called, clientVars
<1>3. /\ Types /\ Reports /\ ListIsHeap
      /\ ~raced => Ownership /\ OneOfEach
      /\ ~raced /\ ~destroyed => Leaks
  BY DEF Inv
<1>4. m # NoMethod /\ c \in Codes /\ task' # NoTask
  BY <1>1, NamesAssumption DEF Codes, NoTask
<1> HIDE DEF c
<1>5. /\ heap'[a] = [live |-> TRUE, serial |-> s, code |-> c]
      /\ \A b \in Blocks : b # a => heap'[b] = heap[b]
      /\ asked'[s] = m
      /\ \A t \in Serials : t # s => asked'[t] = asked[t]
  BY <1>1, <1>2, <1>3 DEF Types
<1>6. heap'[a].live = TRUE /\ heap'[a].serial = s /\ heap'[a].code = c
  BY <1>5
<1>7. Types'
  <2>1. /\ heap' \in [Blocks -> [live : BOOLEAN, code : Codes \union {NoCode},
                                serial : Serials \union {NoSerial}]]
        /\ asked' \in [Serials -> Methods \union {NoMethod}]
        /\ task' \in [serial : Serials, block : Blocks]
        /\ requestList' \subseteq Codes \X Blocks
    BY <1>1, <1>2, <1>3, <1>4 DEF Types
  <2> QED BY <1>2, <1>3, <2>1 DEF Types
<1>8. report["task"] = NoReport /\ ~Busy("task")
  BY <1>2, <1>3 DEF Reports, Reporters
<1>9. \A b \in Blocks : Live(b) => heap[b].serial # s
  BY <1>2, <1>3 DEF Reports
<1>10. Reports'
  <2>1. \A b \in Blocks : Live(b)' => /\ heap'[b].serial \in Serials
                                      /\ asked'[heap'[b].serial] # NoMethod
    BY <1>3, <1>4, <1>5, <1>6 DEF Reports, Live
  <2>2. asked'[task'.serial] # NoMethod
    BY <1>1, <1>4, <1>5
  <2> QED BY <1>2, <1>3, <1>8, <2>1, <2>2 DEF Reports, Busy
<1>11. ListIsHeap'
  <2>1. {<<heap'[b].code, b>> : b \in {x \in Blocks : heap'[x].live}}
          = {<<heap[b].code, b>> : b \in {x \in Blocks : heap[x].live}}
              \union {<<c, a>>}
    BY <1>1, <1>5, <1>6 DEF Live
  <2> QED BY <1>1, <1>3, <2>1 DEF ListIsHeap, Live
<1>12. DestroyWaitsForTheTask'
  BY <1>2 DEF DestroyWaitsForTheTask
<1>13. ASSUME ~raced PROVE Ownership' /\ OneOfEach' /\ Leaks'
  <2>1. Ownership /\ OneOfEach /\ Leaks
    BY <1>2, <1>3, <1>13
  <2>2. TaskOwns' /\ task'.block = a /\ task'.serial = s
    BY <1>1, <1>2, <1>4, <1>8 DEF TaskOwns, NoReport
  <2>3. KeptOwns' => kept # a /\ heap'[kept] = heap[kept]
    BY <1>1, <1>2, <1>3, <1>5, <2>1 DEF Ownership, KeptOwns, Types
  <2>4. \A p \in Reporters : report[p].step = "release" =>
          report[p].block \in Blocks /\ report[p].block # a
    <3> SUFFICES ASSUME NEW p \in Reporters, report[p].step = "release"
                 PROVE  report[p].block \in Blocks /\ report[p].block # a
      OBVIOUS
    <3>1. p \in Outside /\ Busy(p) /\ report[p].block \in Blocks
      BY <1>3, <1>8 DEF Reporters, Outside, Busy, Reports
    <3>2. report[p].block = kept /\ kept # NoBlock
      BY <2>1, <3>1 DEF Ownership
    <3>3. \A q \in Outside : report[q].step # "answer"
      BY <2>1, <3>1 DEF Ownership, Outside, Busy
    <3>4. Live(kept)
      BY <2>1, <3>2, <3>3 DEF Ownership, KeptOwns
    <3> QED BY <1>1, <3>1, <3>2, <3>4
  <2>5. Ownership'
    <3>1. TaskOwns' => Live(task.block)' /\ heap'[task'.block].serial = s
      BY <1>6, <2>2 DEF Live
    <3>2. KeptOwns' => Live(kept)' /\ task'.block # kept'
      BY <1>2, <2>1, <2>2, <2>3 DEF Ownership, KeptOwns, Live
    <3>3. \A p \in Reporters : report[p].step = "release" =>
            heap'[report[p].block] = heap[report[p].block]
      BY <1>5, <2>4
    <3>4. report'["task"].step # "answer"
      BY <1>2, <1>8 DEF NoReport
    <3>5. \A p \in Reporters : report'[p].step = "release" =>
            /\ report'[p].code = heap'[report'[p].block].code
            /\ report'[p].serial = heap'[report'[p].block].serial
      BY <1>2, <2>1, <3>3 DEF Ownership
    <3>6. /\ \A p \in Outside : Busy(p)' =>
               kept' # NoBlock /\ report'[p].block = kept'
          /\ ~(Busy("reader")' /\ Busy("alarm")')
      BY <1>2, <2>1 DEF Ownership, Busy
    <3> QED BY <2>2, <3>1, <3>2, <3>4, <3>5, <3>6 DEF Ownership
  <2>6. OneOfEach'
    <3>1. answers[s] = <<>>
      BY <1>2, <2>1 DEF OneOfEach
    <3>2. \A p \in Reporters : report[p].step = "answer" =>
            report[p].serial # s
      BY <1>2, <2>1 DEF OneOfEach
    <3>3. \A t \in Serials : asked'[t] = NoMethod => answers'[t] = <<>>
      BY <1>2, <1>4, <1>5, <2>1 DEF OneOfEach
    <3>4. \A b, d \in Blocks :
            Live(b)' /\ Live(d)' /\ heap'[b].serial = heap'[d].serial => b = d
      BY <1>5, <1>6, <1>9, <2>1 DEF OneOfEach, Live
    <3>5. \A b \in Blocks : Live(b)' => answers'[heap'[b].serial] = <<>>
      BY <1>2, <1>5, <1>6, <2>1, <3>1 DEF OneOfEach, Live
    <3>6. \A p \in Reporters : report'[p].step = "answer" =>
            /\ report'[p].serial \in Serials
            /\ asked'[report'[p].serial] # NoMethod
            /\ answers'[report'[p].serial] = <<>>
            /\ \A b \in Blocks :
                 Live(b)' => heap'[b].serial # report'[p].serial
      BY <1>2, <1>5, <1>6, <2>1, <3>2 DEF OneOfEach, Live
    <3> QED BY <1>2, <2>1, <3>3, <3>4, <3>5, <3>6 DEF OneOfEach
  <2>7. Leaks'
    <3>1. \A b \in Blocks : Live(b)' =>
            b \in {task'.block, kept'} \/ Silent(b)'
      <4> SUFFICES ASSUME NEW b \in Blocks, Live(b)', b # a
                   PROVE  b = kept' \/ Silent(b)'
        BY <2>2
      <4>1. Live(b) /\ heap'[b] = heap[b]
        BY <1>5 DEF Live
      <4>2. b # task.block
        BY <1>2, NamesAssumption DEF NoTask
      <4> QED BY <1>2, <2>1, <4>1, <4>2 DEF Leaks, Silent
    <3>2. \A p \in Outside : report'[p].step = "answer" /\ Live(kept)'
            => kept' = task'.block \/ Silent(kept)'
      <4> SUFFICES ASSUME NEW p \in Outside, report'[p].step = "answer",
                          Live(kept)', kept' # a
                   PROVE  Silent(kept)'
        BY <2>2
      <4>1. kept \in Blocks
        BY <1>2, <1>3, <2>1 DEF Ownership, Busy, Types
      <4>2. heap'[kept'] = heap[kept] /\ kept' = kept
        BY <1>2, <1>5, <4>1
      <4>3. Live(kept)
        BY <4>2 DEF Live
      <4>4. kept # task.block
        BY <1>2, <4>1, NamesAssumption DEF NoTask
      <4> QED BY <1>2, <2>1, <4>2, <4>3, <4>4 DEF Leaks, Silent
    <3> QED BY <3>1, <3>2 DEF Leaks
  <2> QED BY <2>5, <2>6, <2>7
<1> QED BY <1>2, <1>7, <1>10, <1>11, <1>12, <1>13 DEF Inv

-----------------------------------------------------------------------------
(* The operation, and the reports of a search. *)

(* What an operation may come to: a search that leaves its record to be    *)
(* reported on later finds no other one kept.                              *)
LEMMA OutcomeKinds ==
  ASSUME NEW m \in Methods, NEW how \in {"done", "failed"},
         NEW o \in Outcomes(m, how)
  PROVE  /\ o.kind \in {"report", "silent", "deferred"}
         /\ o.payload \in Payload /\ o.error \in BOOLEAN
         /\ o.kind = "deferred" => kept = NoBlock
<1>1. CASE m \in Deferring /\ kept # NoBlock
  <2>1. o = [kind |-> "report", payload |-> "nullLong", error |-> TRUE]
    BY <1>1 DEF Outcomes
  <2> QED BY <2>1 DEF Payload
<1>2. CASE ~(m \in Deferring /\ kept # NoBlock)
  <2>1. \/ how = "done" /\ o \in OutcomesOf[m].done
        \/ how = "failed" /\ o \in OutcomesOf[m].failed
    BY <1>2 DEF Outcomes
  <2>2. o.kind = "deferred" => m \in Deferring
    BY <2>1, TablesAssumption DEF Deferring
  <2> QED BY <1>2, <2>1, <2>2, TablesAssumption
<1> QED BY <1>1, <1>2

LEMMA OperateKeepsInv == Inv /\ Operate => Inv'
<1> SUFFICES ASSUME Inv, Operate PROVE Inv'
  OBVIOUS
<1> DEFINE s == task.serial
           m == asked[s]
           a == task.block
<1>0. PICK how \in {"done", "failed"} : \E o \in Outcomes(m, how) :
        /\ exchange' = [exchange EXCEPT ![s] =
                          IF o.kind = "silent" THEN "silent" ELSE how]
        /\ ComesBack(o, m, a)
  BY DEF Operate
<1>1. PICK o \in Outcomes(m, how) :
        /\ exchange' = [exchange EXCEPT ![s] =
                          IF o.kind = "silent" THEN "silent" ELSE how]
        /\ ComesBack(o, m, a)
  BY <1>0
<1>2. /\ task # NoTask /\ report["task"] = NoReport
      /\ UNCHANGED <<destroyed, callback, registering, registrations, heap,
                     requestList, asked, answers, raced>>
  BY DEF Operate, InVendor, clientVars, recordVars
<1>3. /\ Types /\ Reports /\ ListIsHeap /\ DestroyWaitsForTheTask
      /\ ~raced => Ownership /\ OneOfEach
      /\ ~raced /\ ~destroyed => Leaks
  BY DEF Inv
<1>4. s \in Serials /\ a \in Blocks /\ m \in Methods
  BY <1>2, <1>3 DEF Types, Reports
<1>5. ~destroyed
  BY <1>2, <1>3 DEF DestroyWaitsForTheTask
<1>6. /\ o.kind \in {"report", "silent", "deferred"}
      /\ o.payload \in Payload /\ o.error \in BOOLEAN
      /\ o.kind = "deferred" => kept = NoBlock
  BY <1>1, <1>4, OutcomeKinds
<1>7. /\ exchange' \in [Serials -> {"none", "refused", "silent", "done",
                                   "failed"}]
      /\ \A t \in Serials : t # s => exchange'[t] = exchange[t]
      /\ o.kind = "silent" => exchange'[s] = "silent"
  BY <1>1, <1>3, <1>4 DEF Types
<1> HIDE DEF s, m, a
<1>8. ASSUME ~raced
      PROVE  /\ Ownership /\ OneOfEach /\ Leaks
             /\ Live(a) /\ heap[a].serial = s
             /\ \A b \in Blocks : Live(b) /\ b # a => Silent(b)' = Silent(b)
  <2>1. Ownership /\ OneOfEach /\ Leaks
    BY <1>3, <1>5, <1>8
  <2>2. Live(a) /\ heap[a].serial = s
    BY <1>2, <2>1 DEF Ownership, TaskOwns, NoReport, a, s
  <2>3. \A b \in Blocks : Live(b) /\ b # a => heap[b].serial # s
    BY <1>4, <2>1, <2>2 DEF OneOfEach
  <2>4. \A b \in Blocks : Live(b) => heap[b].serial \in Serials
    BY <1>3 DEF Reports
  <2> QED BY <1>2, <1>7, <2>1, <2>2, <2>3, <2>4 DEF Silent
<1>9. ASSUME ~raced PROVE OneOfEach'
  <2>1. \A p \in Reporters : report'[p].step = "answer" =>
          report'[p] = report[p]
    <3> DEFINE r == Report(a, ReportsToOf[m], o.payload, o.error)
    <3>1. report' = report \/ report' = [report EXCEPT !["task"] = r]
      BY <1>1, <1>6 DEF ComesBack
    <3>2. r.step = "check"
      BY DEF Report, NoReport
    <3> HIDE DEF r
    <3> QED BY <1>3, <3>1, <3>2 DEF Types, Reporters
  <2> QED BY <1>2, <1>8, <1>9, <2>1 DEF OneOfEach, Live
<1>10. CASE o.kind = "report"
  <2> DEFINE r == Report(a, ReportsToOf[m], o.payload, o.error)
  <2>1. report' = [report EXCEPT !["task"] = r] /\ UNCHANGED <<task, kept>>
    BY <1>1, <1>10 DEF ComesBack
  <2>2. r \in ReportRecord /\ r.step = "check" /\ r.block = a
    BY <1>4, <1>6, TablesAssumption DEF Report, NoReport, ReportRecord
  <2> HIDE DEF r
  <2>3. /\ report'["task"] = r
        /\ \A p \in Reporters : p # "task" => report'[p] = report[p]
        /\ report' \in [Reporters -> ReportRecord]
    BY <1>3, <2>1, <2>2 DEF Types, Reporters
  <2>4. Types'
    BY <1>2, <1>3, <1>7, <2>1, <2>3 DEF Types
  <2>5. Reports'
    BY <1>2, <1>3, <1>4, <2>1, <2>2, <2>3 DEF Reports, Busy, Live, a
  <2>6. ListIsHeap' /\ DestroyWaitsForTheTask'
    BY <1>2, <1>3, <1>5 DEF ListIsHeap, DestroyWaitsForTheTask, Live
  <2>7. ASSUME ~raced PROVE Ownership' /\ Leaks'
    <3>1. \A p \in Outside : report'[p] = report[p]
      BY <2>3 DEF Outside, Reporters
    <3>2. \A p \in Reporters : report'[p].step = "release" =>
            report'[p] = report[p]
      BY <2>2, <2>3
    <3>3. "reader" \in Outside /\ "alarm" \in Outside
      BY DEF Outside
    <3>4. Ownership'
      BY <1>2, <1>8, <2>1, <2>2, <2>3, <2>7, <3>1, <3>2, <3>3
         DEF Ownership, TaskOwns, KeptOwns, Live, Busy, NoReport
    <3>5. \A p \in Outside : report[p].step = "answer" => kept \in Blocks
      BY <1>3, <1>8, <2>7 DEF Ownership, Busy, Types
    <3>6. Leaks'
      BY <1>2, <1>8, <2>1, <2>7, <3>1, <3>5 DEF Leaks, Live, a
    <3> QED BY <3>4, <3>6
  <2> QED BY <1>2, <1>9, <2>4, <2>5, <2>6, <2>7 DEF Inv
<1>11. CASE o.kind \in {"silent", "deferred"}
  <2>1. /\ task' = NoTask /\ report' = report
        /\ o.kind = "silent" => kept' = kept
        /\ o.kind = "deferred" => kept' = a
    BY <1>1, <1>11 DEF ComesBack
  <2>2. Types'
    BY <1>2, <1>3, <1>4, <1>7, <1>11, <2>1 DEF Types
  <2>3. Reports'
    <3>1. ~Busy("task")'
      BY <1>2, <2>1 DEF Busy, NoReport
    <3> QED BY <1>2, <1>3, <2>1, <3>1 DEF Reports, Busy, Live
  <2>4. ListIsHeap' /\ DestroyWaitsForTheTask'
    BY <1>2, <1>3, <1>5 DEF ListIsHeap, DestroyWaitsForTheTask, Live
  <2>5. ASSUME ~raced PROVE Ownership' /\ Leaks'
    <3>1. o.kind = "deferred" => \A p \in Outside : ~Busy(p)
      BY <1>6, <1>8, <2>5 DEF Ownership
    <3>2. Ownership'
      <4>1. KeptOwns' => Live(kept)'
        BY <1>2, <1>8, <1>11, <2>1, <2>5 DEF Ownership, KeptOwns, Live
      <4>2. \A p \in Outside : Busy(p)' => kept' # NoBlock /\
                                           report'[p].block = kept'
        BY <1>8, <1>11, <2>1, <2>5, <3>1 DEF Ownership, Busy
      <4> QED BY <1>2, <1>8, <2>1, <2>5, <4>1, <4>2
              DEF Ownership, TaskOwns, Live, Busy, NoReport
    <3>3. \A b \in Blocks : Live(b)' =>
            b \in {task'.block, kept'} \/ Silent(b)'
      <4> SUFFICES ASSUME NEW b \in Blocks, Live(b)
                   PROVE  b = kept' \/ Silent(b)'
        BY <1>2 DEF Live
      <4>1. CASE b = a
        BY <1>2, <1>7, <1>8, <1>11, <2>1, <2>5, <4>1 DEF Silent
      <4>2. CASE b # a
        <5>1. b = kept \/ Silent(b)
          BY <1>8, <2>5, <4>2 DEF Leaks, a
        <5>2. b = kept => kept' = kept
          BY <1>4, <1>6, <1>11, <2>1, NamesAssumption
        <5> QED BY <1>8, <2>5, <4>2, <5>1, <5>2
      <4> QED BY <4>1, <4>2
    <3>4. \A p \in Outside : report'[p].step = "answer" /\ Live(kept)'
            => kept' = task'.block \/ Silent(kept)'
      <4> SUFFICES ASSUME NEW p \in Outside, report[p].step = "answer",
                          Live(kept)'
                   PROVE  Silent(kept)'
        BY <2>1
      <4>1. o.kind = "silent" /\ kept' = kept /\ kept \in Blocks
        BY <1>3, <1>8, <1>11, <2>1, <2>5, <3>1 DEF Busy, Ownership, Types
      <4>2. Live(kept)
        BY <1>2, <4>1 DEF Live
      <4>3. CASE kept = a
        BY <1>2, <1>7, <1>8, <2>5, <4>1, <4>3 DEF Silent
      <4>4. CASE kept # a
        <5>1. Silent(kept)
          BY <1>8, <2>5, <4>2, <4>4 DEF Leaks, a
        <5>2. exchange'[heap[kept].serial] = exchange[heap[kept].serial]
          BY <1>3, <1>4, <1>7, <1>8, <2>5, <4>1, <4>2, <4>4
             DEF OneOfEach, Reports
        <5> QED BY <1>2, <4>1, <5>1, <5>2 DEF Silent
      <4> QED BY <4>3, <4>4
    <3> QED BY <3>2, <3>3, <3>4 DEF Leaks
  <2> QED BY <1>2, <1>9, <2>2, <2>3, <2>4, <2>5 DEF Inv
<1> QED BY <1>6, <1>10, <1>11

LEMMA TakeKeptKeepsInv ==
  ASSUME Inv, NEW p \in Reporters, TakeKept(p)
  PROVE  Inv'
<1>1. PICK payload \in {"fits", "none"} :
        report' = [report EXCEPT ![p] =
                     Report(kept, "Network", payload, payload = "none")]
  BY DEF TakeKept
<1>2. /\ p \in Outside /\ kept # NoBlock /\ report[p] = NoReport
      /\ raced' = (raced \/ \E q \in Reporters \ {p} : report[q].block = kept)
      /\ UNCHANGED <<destroyed, callback, registering, registrations, task,
                     heap, requestList, kept, asked, exchange, answers>>
  BY DEF TakeKept, Outside, clientVars, taskVars, recordVars
<1>3. /\ Types /\ Reports /\ ListIsHeap /\ DestroyWaitsForTheTask
      /\ ~raced => Ownership /\ OneOfEach
      /\ ~raced /\ ~destroyed => Leaks
  BY DEF Inv
<1> DEFINE r == Report(kept, "Network", payload, payload = "none")
<1>4. r \in ReportRecord /\ r.step = "check" /\ r.block = kept
  <2>1. payload \in Payload /\ (payload = "none") \in BOOLEAN
    BY <1>1 DEF Payload
  <2> QED BY <1>2, <1>3, <2>1 DEF Report, NoReport, ReportRecord, Types
<1>5. /\ report'[p] = r
      /\ \A q \in Reporters : q # p => report'[q] = report[q]
      /\ report' \in [Reporters -> ReportRecord]
  BY <1>1, <1>3, <1>4 DEF Types
<1> HIDE DEF r
<1>6. Types'
  BY <1>2, <1>3, <1>5 DEF Types
<1>7. Reports'
  <2>1. p # "task" /\ kept \in Blocks
    BY <1>2, <1>3 DEF Outside, Types
  <2> QED BY <1>2, <1>3, <1>4, <1>5, <2>1 DEF Reports, Busy, Live, Reporters
<1>8. ListIsHeap' /\ DestroyWaitsForTheTask'
  BY <1>2, <1>3 DEF ListIsHeap, DestroyWaitsForTheTask, Live
<1>9. ASSUME ~raced' PROVE Ownership' /\ OneOfEach' /\ (~destroyed => Leaks')
  <2>1. Ownership /\ OneOfEach /\ (~destroyed => Leaks)
    BY <1>2, <1>3, <1>9
  <2>2. \A q \in Outside : q # p => ~Busy(q)
    BY <1>2, <1>9, <2>1 DEF Ownership, Outside, Reporters
  <2>3. p # "task" /\ Outside \subseteq Reporters /\ "task" \in Reporters
    BY <1>2 DEF Outside, Reporters
  <2>4. \A q \in Outside : report[q].step # "answer" /\
                           report'[q].step # "answer"
    BY <1>2, <1>4, <1>5, <2>2, <2>3 DEF Busy, NoReport
  <2>5. Ownership'
    <3>1. ~(Busy("reader")' /\ Busy("alarm")')
      BY <1>5, <2>2, <2>3 DEF Busy, Outside
    <3>2. \A q \in Outside : Busy(q)' =>
            kept' # NoBlock /\ report'[q].block = kept'
      BY <1>2, <1>4, <1>5, <2>2, <2>3 DEF Busy
    <3>3. \A q \in Reporters : report'[q].step = "release" =>
            /\ report'[q].code = heap'[report'[q].block].code
            /\ report'[q].serial = heap'[report'[q].block].serial
      BY <1>2, <1>4, <1>5, <2>1 DEF Ownership
    <3>4. /\ TaskOwns' = TaskOwns /\ KeptOwns' = KeptOwns
          /\ report'["task"] = report["task"]
      BY <1>2, <1>5, <2>3, <2>4 DEF TaskOwns, KeptOwns
    <3> QED BY <1>2, <2>1, <3>1, <3>2, <3>3, <3>4 DEF Ownership, Live
  <2>6. \A q \in Reporters : report'[q].step = "answer" =>
          report'[q] = report[q]
    BY <1>4, <1>5
  <2>7. OneOfEach'
    BY <1>2, <2>1, <2>6 DEF OneOfEach, Live
  <2>8. ~destroyed => Leaks'
    BY <1>2, <2>1, <2>4 DEF Leaks, Live, Silent
  <2> QED BY <2>5, <2>7, <2>8
<1> QED BY <1>2, <1>6, <1>7, <1>8, <1>9 DEF Inv

-----------------------------------------------------------------------------
(* The steps of a report. *)

(* What is left when a report has ended.                                   *)
LEMMA EndsFacts ==
  ASSUME Inv, NEW p \in Reporters, Busy(p), Ends(p)
  PROVE  /\ report' \in [Reporters -> ReportRecord]
         /\ report'[p] = NoReport
         /\ \A q \in Reporters : q # p => report'[q] = report[q]
         /\ \A q \in Reporters : report'[q].step \in {"release", "answer"} =>
              q # p /\ report'[q] = report[q]
         /\ task' = IF p = "task" THEN NoTask ELSE task
         /\ kept' = IF p = "task" THEN kept ELSE NoBlock
         /\ p = "task" => task # NoTask /\ report[p].block = task.block
         /\ p # "task" => p \in Outside
<1>1. NoReport \in ReportRecord /\ NoReport.step = "none"
  BY DEF NoReport, ReportRecord, Payload
<1>2. Types /\ Reports
  BY DEF Inv
<1> QED BY <1>1, <1>2 DEF Ends, Types, Reports, Outside, Reporters

LEMMA EndsKeepsReports ==
  ASSUME Inv, NEW p \in Reporters, Busy(p), Ends(p),
         UNCHANGED <<heap, asked>>
  PROVE  Reports'
<1>1. Reports
  BY DEF Inv
<1>2. ~Busy(p)'
  BY EndsFacts DEF Busy, NoReport
<1>3. \A q \in Reporters : IF Busy(q)' THEN report'[q].block \in Blocks
                                       ELSE report'[q] = NoReport
  BY <1>1, <1>2, EndsFacts DEF Reports, Busy
<1>4. Busy("task")' => /\ p # "task" /\ Busy("task") /\ task' = task
                       /\ report'["task"] = report["task"]
  BY <1>2, EndsFacts DEF Busy, Reporters
<1>5. task' # NoTask => task' = task
  BY EndsFacts
<1> QED BY <1>1, <1>3, <1>4, <1>5 DEF Reports, Live

LEMMA EndsKeepsOwnership ==
  ASSUME Inv, ~raced, NEW p \in Reporters, Busy(p), Ends(p), UNCHANGED heap
  PROVE  Ownership'
<1>1. Ownership /\ Types
  BY DEF Inv
<1>2. ~Busy(p)' /\ report'[p].step = "none"
  BY EndsFacts DEF Busy, NoReport
<1>3. /\ Outside \subseteq Reporters
      /\ "task" \in Reporters /\ "task" \notin Outside
      /\ Outside = {"reader", "alarm"}
  BY DEF Outside, Reporters
<1>4. \A q \in Reporters : report'[q].step = "release" =>
        /\ report'[q].code = heap'[report'[q].block].code
        /\ report'[q].serial = heap'[report'[q].block].serial
  BY <1>1, EndsFacts DEF Ownership
<1>5. report'["task"].step = "answer" => ~Live(task.block)'
  BY <1>1, <1>2, <1>3, EndsFacts DEF Ownership, Live
<1>6. CASE p = "task"
  <2>1. task' = NoTask /\ kept' = kept
    BY <1>6, EndsFacts
  <2>2. \A q \in Outside : report'[q] = report[q]
    BY <1>3, <1>6, EndsFacts
  <2> QED BY <1>1, <1>3, <1>4, <1>5, <2>1, <2>2
          DEF Ownership, TaskOwns, KeptOwns, Busy, Live
<1>7. CASE p # "task"
  <2>1. task' = task /\ kept' = NoBlock /\ p \in Outside
    BY <1>7, EndsFacts
  <2>2. report'["task"] = report["task"]
    BY <1>3, <1>7, EndsFacts
  <2>3. \A q \in Outside : ~Busy(q)'
    <3>1. \A q \in Outside : q # p => report'[q] = report[q] /\ ~Busy(q)
      BY <1>1, <1>3, <2>1, EndsFacts DEF Ownership
    <3> QED BY <1>2, <3>1 DEF Busy
  <2>4. ~KeptOwns'
    BY <2>1 DEF KeptOwns
  <2>5. ~(Busy("reader")' /\ Busy("alarm")')
    BY <1>3, <2>3
  <2>6. TaskOwns' = TaskOwns
    BY <2>1, <2>2 DEF TaskOwns
  <2> QED BY <1>1, <1>4, <1>5, <2>1, <2>2, <2>3, <2>4, <2>5, <2>6
          DEF Ownership, Live
<1> QED BY <1>6, <1>7

LEMMA ReadRecordKeepsInv ==
  ASSUME Inv, NEW p \in Reporters, ReadRecord(p)
  PROVE  Inv'
<1>1. /\ report[p].step = "check" /\ Busy(p)
      /\ UNCHANGED <<destroyed, callback, registering, registrations, asked,
                     exchange, heap, requestList, answers, raced>>
  <2>1. UNCHANGED <<destroyed, callback, registering, registrations, asked,
                    exchange, heap, requestList, answers, raced>>
    BY Zenon DEF ReadRecord, clientVars, recordVars
  <2>2. report[p].step = "check"
    BY Zenon DEF ReadRecord
  <2> QED BY <2>1, <2>2 DEF Busy
<1>2. /\ Types /\ Reports /\ ListIsHeap /\ DestroyWaitsForTheTask
      /\ ~raced => Ownership /\ OneOfEach
      /\ ~raced /\ ~destroyed => Leaks
  BY DEF Inv
<1>3. CASE destroyed /\ Ends(p)
  <2>1. Types'
    BY <1>1, <1>2, <1>3, EndsFacts DEF Types
  <2>2. Reports' /\ (~raced => Ownership')
    BY <1>1, <1>3, EndsKeepsReports, EndsKeepsOwnership
  <2>3. ListIsHeap' /\ DestroyWaitsForTheTask'
    BY <1>1, <1>2, <1>3, EndsFacts DEF ListIsHeap, DestroyWaitsForTheTask, Live
  <2>4. ~raced => OneOfEach'
    BY <1>1, <1>2, <1>3, EndsFacts DEF OneOfEach, Live
  <2> QED BY <1>1, <1>3, <2>1, <2>2, <2>3, <2>4 DEF Inv
<1>4. CASE ~(destroyed /\ Ends(p))
  <2> DEFINE a == report[p].block
  <2>1. a \in Blocks
    BY <1>1, <1>2 DEF Reports
  <2>2. PICK code \in {heap[a].code}
                        \union (IF heap[a].live THEN {} ELSE {NoCode}) :
          report' = [report EXCEPT ![p].step = "release", ![p].code = code,
                       ![p].serial = IF code = NoCode THEN NoSerial
                                     ELSE heap[a].serial]
    BY <1>4, Zenon DEF ReadRecord
  <2>3. ~destroyed /\ UNCHANGED <<task, kept>>
    BY <1>4, Zenon DEF ReadRecord
  <2> HIDE DEF a
  <2>4. heap[a] \in [live : BOOLEAN, code : Codes \union {NoCode},
                     serial : Serials \union {NoSerial}]
    BY <1>2, <2>1 DEF Types
  <2>5. code \in Codes \union {NoCode}
    BY <2>2, <2>4
  <2> DEFINE r == [report[p] EXCEPT !.step = "release", !.code = code,
                     !.serial = IF code = NoCode THEN NoSerial
                                ELSE heap[a].serial]
  <2>6. report' = [report EXCEPT ![p] = r]
    BY <1>2, <2>2 DEF Types
  <2>7. report[p] \in ReportRecord
    BY <1>2 DEF Types
  <2>8. /\ r \in ReportRecord /\ r.step = "release" /\ r.block = a
        /\ r.code = code
        /\ r.serial = IF code = NoCode THEN NoSerial ELSE heap[a].serial
    BY <2>4, <2>5, <2>7 DEF ReportRecord, a
  <2> HIDE DEF r
  <2>9. /\ report'[p] = r
        /\ \A q \in Reporters : q # p => report'[q] = report[q]
        /\ report' \in [Reporters -> ReportRecord]
    BY <1>2, <2>6, <2>8 DEF Types
  <2>10. Types'
    BY <1>1, <1>2, <2>3, <2>9 DEF Types
  <2>11. \A q \in Reporters : Busy(q)' = Busy(q)
                              /\ report'[q].block = report[q].block
    BY <1>1, <2>8, <2>9 DEF Busy, a
  <2>12. Reports'
    <3>1. p = "task" => task # NoTask
      BY <1>1, <1>2 DEF Reports
    <3>2. "task" \in Reporters
      BY DEF Reporters
    <3>3. Busy("task")' => task' # NoTask /\ report'["task"].block = task'.block
      BY <1>2, <2>3, <2>11, <3>2 DEF Reports
    <3>4. \A q \in Reporters : IF Busy(q)' THEN report'[q].block \in Blocks
                                           ELSE report'[q] = NoReport
      BY <1>1, <1>2, <2>9, <2>11 DEF Reports
    <3>5. /\ task' # NoTask => asked'[task'.serial] # NoMethod
          /\ \A b \in Blocks : Live(b)' => /\ heap'[b].serial \in Serials
                                           /\ asked'[heap'[b].serial] # NoMethod
      BY <1>1, <1>2, <2>3 DEF Reports, Live
    <3> QED BY <3>3, <3>4, <3>5 DEF Reports
  <2>13. ListIsHeap' /\ DestroyWaitsForTheTask'
    BY <1>1, <1>2, <2>3 DEF ListIsHeap, DestroyWaitsForTheTask, Live
  <2>14. ASSUME ~raced PROVE Ownership' /\ OneOfEach' /\ Leaks'
    <3>1. Ownership /\ OneOfEach /\ Leaks
      BY <1>2, <2>3, <2>14
    <3>2. Outside \subseteq Reporters /\ Reporters = Outside \union {"task"}
          /\ Outside = {"reader", "alarm"}
      BY DEF Outside, Reporters
    <3>3. Live(a)
      <4>1. CASE p = "task"
        BY <1>1, <1>2, <3>1, <4>1 DEF Ownership, TaskOwns, Reports, a
      <4>2. CASE p \in Outside
        <5>1. a = kept /\ kept # NoBlock
          BY <1>1, <3>1, <4>2 DEF Ownership, a
        <5>2. \A q \in Outside : q # p => ~Busy(q)
          BY <1>1, <3>1, <3>2, <4>2 DEF Ownership
        <5>3. KeptOwns
          BY <1>1, <5>1, <5>2 DEF KeptOwns, Busy
        <5> QED BY <3>1, <5>1, <5>3 DEF Ownership
      <4> QED BY <3>2, <4>1, <4>2
    <3>4. code = heap[a].code /\ code \in Codes
      <4>1. code = heap[a].code
        BY <2>2, <3>3 DEF Live
      <4>2. <<heap[a].code, a>> \in requestList
        BY <1>2, <2>1, <3>3 DEF ListIsHeap
      <4> QED BY <1>2, <4>1, <4>2 DEF Types
    <3>5. r.code = heap[a].code /\ r.serial = heap[a].serial
      BY <2>8, <3>4, NamesAssumption
    <3>6. \A q \in Reporters :
            (report'[q].step = "answer") = (report[q].step = "answer")
      BY <1>1, <2>8, <2>9
    <3>7. \A q \in Reporters : report'[q].step = "release" =>
            /\ report'[q].code = heap'[report'[q].block].code
            /\ report'[q].serial = heap'[report'[q].block].serial
      BY <1>1, <2>8, <2>9, <3>1, <3>5 DEF Ownership
    <3>8. TaskOwns' = TaskOwns /\ KeptOwns' = KeptOwns
      BY <2>3, <3>2, <3>6 DEF TaskOwns, KeptOwns
    <3>9. Ownership'
      <4>1. \A q \in Outside : Busy(q)' => kept' # NoBlock /\
                                           report'[q].block = kept'
        BY <2>3, <2>11, <3>1, <3>2 DEF Ownership
      <4>2. ~(Busy("reader")' /\ Busy("alarm")')
        BY <2>11, <3>1, <3>2 DEF Ownership
      <4>3. report'["task"].step = "answer" => ~Live(task.block)'
        BY <1>1, <2>3, <3>1, <3>2, <3>6 DEF Ownership, Live
      <4> QED BY <1>1, <2>3, <3>1, <3>7, <3>8, <4>1, <4>2, <4>3
              DEF Ownership, Live
    <3>10. OneOfEach'
      <4>1. \A q \in Reporters : report'[q].step = "answer" =>
              report'[q] = report[q]
        BY <2>8, <2>9
      <4> QED BY <1>1, <3>1, <4>1 DEF OneOfEach, Live
    <3>11. Leaks'
      BY <1>1, <2>3, <3>1, <3>2, <3>6 DEF Leaks, Live, Silent
    <3> QED BY <3>9, <3>10, <3>11
  <2> QED BY <1>1, <2>10, <2>12, <2>13, <2>14 DEF Inv
<1> QED BY <1>3, <1>4

LEMMA ReleaseRecordKeepsInv ==
  ASSUME Inv, NEW p \in Reporters, ReleaseRecord(p)
  PROVE  Inv'
<1>1. /\ report[p].step = "release" /\ Busy(p)
      /\ ReleaseHRilRequest(report[p].code, report[p].block)
      /\ report' = [report EXCEPT ![p].step = "answer"]
      /\ UNCHANGED <<destroyed, callback, registering, registrations, task,
                     asked, exchange, kept, answers, raced>>
  BY DEF ReleaseRecord, clientVars, taskVars, Busy
<1>2. /\ Types /\ Reports /\ ListIsHeap /\ DestroyWaitsForTheTask
      /\ ~raced => Ownership /\ OneOfEach
      /\ ~raced /\ ~destroyed => Leaks
  BY DEF Inv
<1>3. PICK a \in Blocks, c \in Codes \union {NoCode} :
        a = report[p].block /\ c = report[p].code
  BY <1>1, <1>2 DEF Reports, Types, ReportRecord
<1>4. \/ /\ <<c, a>> \in requestList /\ Live(a) /\ heap[a].code = c
         /\ heap' = [heap EXCEPT ![a].live = FALSE]
         /\ requestList' = requestList \ {<<c, a>>}
      \/ /\ <<c, a>> \notin requestList
         /\ UNCHANGED <<heap, requestList>>
  BY <1>1, <1>2, <1>3 DEF ReleaseHRilRequest, recordVars, ListIsHeap
<1>5. /\ report'[p] = [report[p] EXCEPT !.step = "answer"]
      /\ \A q \in Reporters : q # p => report'[q] = report[q]
      /\ report' \in [Reporters -> ReportRecord]
  <2>1. report[p] \in ReportRecord
    BY <1>2 DEF Types
  <2>2. [report[p] EXCEPT !.step = "answer"] \in ReportRecord
    BY <2>1 DEF ReportRecord
  <2> QED BY <1>1, <1>2, <2>2 DEF Types
<1>6. /\ report'[p].step = "answer" /\ report'[p].block = a
      /\ report'[p].serial = report[p].serial
  <2>1. report[p] \in ReportRecord
    BY <1>2 DEF Types
  <2> QED BY <1>3, <1>5, <2>1 DEF ReportRecord
<1>7. /\ heap' \in [Blocks -> [live : BOOLEAN, code : Codes \union {NoCode},
                              serial : Serials \union {NoSerial}]]
      /\ \A b \in Blocks : /\ heap'[b].code = heap[b].code
                           /\ heap'[b].serial = heap[b].serial
                           /\ b # a => heap'[b].live = heap[b].live
                           /\ Live(b)' => Live(b)
      /\ <<c, a>> \in requestList => ~Live(a)'
  <2>1. heap \in [Blocks -> [live : BOOLEAN, code : Codes \union {NoCode},
                             serial : Serials \union {NoSerial}]]
    BY <1>2 DEF Types
  <2>2. CASE UNCHANGED <<heap, requestList>> /\ <<c, a>> \notin requestList
    BY <2>1, <2>2 DEF Live
  <2>3. CASE heap' = [heap EXCEPT ![a].live = FALSE]
    <3> DEFINE h == [heap[a] EXCEPT !.live = FALSE]
    <3>1. heap[a] \in [live : BOOLEAN, code : Codes \union {NoCode},
                       serial : Serials \union {NoSerial}]
      BY <2>1
    <3>2. /\ h \in [live : BOOLEAN, code : Codes \union {NoCode},
                    serial : Serials \union {NoSerial}]
          /\ h.live = FALSE /\ h.code = heap[a].code
          /\ h.serial = heap[a].serial
      BY <3>1
    <3>3. heap' = [heap EXCEPT ![a] = h]
      BY <2>1, <2>3
    <3> HIDE DEF h
    <3>4. heap'[a] = h /\ \A b \in Blocks : b # a => heap'[b] = heap[b]
      BY <2>1, <3>3
    <3>5. heap' \in [Blocks -> [live : BOOLEAN, code : Codes \union {NoCode},
                                serial : Serials \union {NoSerial}]]
      BY <2>1, <3>2, <3>3
    <3> QED BY <3>2, <3>4, <3>5 DEF Live
  <2> QED BY <1>4, <2>2, <2>3
<1>8. \A q \in Reporters : /\ Busy(q)' = Busy(q)
                           /\ report'[q].block = report[q].block
                           /\ report'[q].serial = report[q].serial
  BY <1>1, <1>3, <1>5, <1>6 DEF Busy
<1>9. Types'
  <2>1. requestList' \subseteq Codes \X Blocks
    BY <1>2, <1>4 DEF Types
  <2> QED BY <1>1, <1>2, <1>5, <1>7, <2>1 DEF Types
<1>10. Reports'
  <2>1. "task" \in Reporters
    BY DEF Reporters
  <2>2. Busy("task")' => task' # NoTask /\ report'["task"].block = task'.block
    BY <1>1, <1>2, <1>8, <2>1 DEF Reports
  <2>3. \A q \in Reporters : IF Busy(q)' THEN report'[q].block \in Blocks
                                         ELSE report'[q] = NoReport
    BY <1>1, <1>2, <1>5, <1>8 DEF Reports
  <2>4. /\ task' # NoTask => asked'[task'.serial] # NoMethod
        /\ \A b \in Blocks : Live(b)' => /\ heap'[b].serial \in Serials
                                         /\ asked'[heap'[b].serial] # NoMethod
    BY <1>1, <1>2, <1>7 DEF Reports
  <2> QED BY <2>2, <2>3, <2>4 DEF Reports
<1>11. ListIsHeap'
  <2>1. CASE UNCHANGED <<heap, requestList>>
    BY <1>2, <2>1 DEF ListIsHeap, Live
  <2>2. CASE /\ <<c, a>> \in requestList /\ Live(a) /\ heap[a].code = c
             /\ heap' = [heap EXCEPT ![a].live = FALSE]
             /\ requestList' = requestList \ {<<c, a>>}
    <3>1. ~Live(a)'
      BY <1>7, <2>2
    <3>2. {b \in Blocks : Live(b)'} = {b \in Blocks : Live(b)} \ {a}
      BY <1>7, <3>1 DEF Live
    <3>3. requestList' = {<<heap[b].code, b>> : b \in {x \in Blocks : Live(x)}}
                           \ {<<c, a>>}
      BY <1>2, <2>2 DEF ListIsHeap
    <3>4. requestList' = {<<heap[b].code, b>> :
                            b \in {x \in Blocks : Live(x)'}}
      BY <2>2, <3>2, <3>3
    <3>5. requestList' = {<<heap'[b].code, b>> :
                            b \in {x \in Blocks : Live(x)'}}
      BY <1>7, <3>4
    <3> QED BY <3>5 DEF ListIsHeap
  <2> QED BY <1>4, <2>1, <2>2
<1>12. DestroyWaitsForTheTask'
  BY <1>1, <1>2 DEF DestroyWaitsForTheTask
<1>13. ASSUME ~raced PROVE Ownership' /\ OneOfEach' /\ (~destroyed => Leaks')
  <2>1. Ownership /\ OneOfEach /\ (~destroyed => Leaks)
    BY <1>2, <1>13
  <2>2. Outside \subseteq Reporters /\ Reporters = Outside \union {"task"}
        /\ Outside = {"reader", "alarm"} /\ "task" \notin Outside
    BY DEF Outside, Reporters
  <2>3. p \in Outside => /\ a = kept /\ kept # NoBlock /\ KeptOwns
                         /\ \A q \in Outside : q # p => ~Busy(q)
    <3> SUFFICES ASSUME p \in Outside
                 PROVE  /\ a = kept /\ kept # NoBlock /\ KeptOwns
                        /\ \A q \in Outside : q # p => ~Busy(q)
      OBVIOUS
    <3>1. a = kept /\ kept # NoBlock
      BY <1>1, <1>3, <2>1 DEF Ownership
    <3>2. \A q \in Outside : q # p => ~Busy(q)
      BY <1>1, <2>1, <2>2 DEF Ownership
    <3> QED BY <1>1, <3>1, <3>2 DEF KeptOwns, Busy
  <2>4. p = "task" => /\ a = task.block /\ TaskOwns
    BY <1>1, <1>2, <1>3 DEF Reports, TaskOwns
  <2>5. Live(a) /\ c = heap[a].code /\ report[p].serial = heap[a].serial
    BY <1>1, <1>3, <2>1, <2>2, <2>3, <2>4 DEF Ownership
  <2>6. ~Live(a)'
    <3>1. <<c, a>> \in requestList
      BY <1>2, <1>3, <2>5 DEF ListIsHeap
    <3> QED BY <1>7, <3>1
  <2>7. Ownership'
    <3>1. TaskOwns' => /\ p # "task" /\ TaskOwns /\ task.block # a
                       /\ task.block \in Blocks
      BY <1>1, <1>2, <1>6, <2>1, <2>2, <2>3, <1>5
         DEF TaskOwns, Ownership, Types
    <3>2. KeptOwns' => /\ p = "task" /\ KeptOwns /\ kept # a
                       /\ kept \in Blocks
      BY <1>1, <1>2, <1>6, <2>1, <2>2, <2>4, <1>5
         DEF KeptOwns, Ownership, Types
    <3>3. TaskOwns' => /\ Live(task.block)'
                       /\ heap'[task'.block].serial = task'.serial
      BY <1>1, <1>7, <2>1, <3>1 DEF Ownership, Live
    <3>4. KeptOwns' => Live(kept)'
      BY <1>1, <1>7, <2>1, <3>2 DEF Ownership, Live
    <3>5. /\ \A q \in Outside : Busy(q)' =>
               kept' # NoBlock /\ report'[q].block = kept'
          /\ ~(Busy("reader")' /\ Busy("alarm")')
      BY <1>1, <1>8, <2>1, <2>2 DEF Ownership
    <3>6. \A q \in Reporters : report'[q].step = "release" =>
            /\ report'[q].code = heap'[report'[q].block].code
            /\ report'[q].serial = heap'[report'[q].block].serial
      <4> SUFFICES ASSUME NEW q \in Reporters, report'[q].step = "release"
                   PROVE  /\ report'[q].code = heap'[report'[q].block].code
                          /\ report'[q].serial = heap'[report'[q].block].serial
        OBVIOUS
      <4>1. q # p /\ report'[q] = report[q]
        BY <1>5, <1>6
      <4>2. report[q].block \in Blocks
        BY <1>2, <4>1 DEF Reports, Busy
      <4> QED BY <1>7, <2>1, <4>1, <4>2 DEF Ownership
    <3>7. report'["task"].step = "answer" => ~Live(task.block)'
      <4>1. CASE p = "task"
        BY <1>1, <2>4, <2>6, <4>1 DEF Live
      <4>2. CASE p # "task"
        <5> SUFFICES ASSUME report'["task"].step = "answer"
                     PROVE  ~Live(task.block)'
          OBVIOUS
        <5>1. report["task"].step = "answer"
          BY <1>5, <2>2, <4>2
        <5>2. task.block \in Blocks
          BY <1>2, <2>2, <5>1 DEF Reports, Busy
        <5> QED BY <1>1, <1>7, <2>1, <5>1, <5>2 DEF Ownership, Live
      <4> QED BY <4>1, <4>2
    <3>8. TaskOwns' /\ KeptOwns' => task'.block # kept'
      BY <3>1, <3>2
    <3> QED BY <3>3, <3>4, <3>5, <3>6, <3>7, <3>8 DEF Ownership
  <2>8. OneOfEach'
    <3>1. /\ \A s \in Serials : asked'[s] = NoMethod => answers'[s] = <<>>
          /\ \A s \in Serials : Len(answers'[s]) <= 1
      BY <1>1, <2>1 DEF OneOfEach
    <3>2. \A b, d \in Blocks :
            Live(b)' /\ Live(d)' /\ heap'[b].serial = heap'[d].serial => b = d
      BY <1>7, <2>1 DEF OneOfEach
    <3>3. \A b \in Blocks : Live(b)' => answers'[heap'[b].serial] = <<>>
      BY <1>1, <1>7, <2>1 DEF OneOfEach
    <3>4. \A q \in Reporters : report'[q].step = "answer" =>
            /\ report'[q].serial \in Serials
            /\ asked'[report'[q].serial] # NoMethod
            /\ answers'[report'[q].serial] = <<>>
            /\ \A b \in Blocks :
                 Live(b)' => heap'[b].serial # report'[q].serial
      <4> SUFFICES ASSUME NEW q \in Reporters, report'[q].step = "answer"
                   PROVE  /\ report'[q].serial \in Serials
                          /\ asked'[report'[q].serial] # NoMethod
                          /\ answers'[report'[q].serial] = <<>>
                          /\ \A b \in Blocks :
                               Live(b)' => heap'[b].serial # report'[q].serial
        OBVIOUS
      <4>1. CASE q = p
        <5>1. report'[q].serial = heap[a].serial
          BY <1>6, <2>5, <4>1
        <5>2. \A b \in Blocks :
                Live(b)' => b # a /\ heap'[b].serial # heap[a].serial
          BY <1>3, <1>7, <2>1, <2>5, <2>6 DEF OneOfEach
        <5>3. /\ heap[a].serial \in Serials /\ asked[heap[a].serial] # NoMethod
              /\ answers[heap[a].serial] = <<>>
          BY <1>2, <1>3, <2>1, <2>5 DEF OneOfEach, Reports
        <5> QED BY <1>1, <5>1, <5>2, <5>3
      <4>2. CASE q # p
        <5>1. report'[q] = report[q]
          BY <1>5, <4>2
        <5>2. /\ report[q].serial \in Serials
              /\ asked[report[q].serial] # NoMethod
              /\ answers[report[q].serial] = <<>>
              /\ \A b \in Blocks :
                   Live(b) => heap[b].serial # report[q].serial
          BY <2>1, <5>1 DEF OneOfEach
        <5> QED BY <1>1, <1>7, <5>1, <5>2
      <4> QED BY <4>1, <4>2
    <3>5. \A q, t \in Reporters :
            /\ report'[q].step = "answer" /\ report'[t].step = "answer"
            /\ report'[q].serial = report'[t].serial
            => q = t
      <4>1. \A q \in Reporters : q # p /\ report'[q].step = "answer" =>
              report'[q].serial # report'[p].serial
        BY <1>3, <1>5, <1>6, <2>1, <2>5 DEF OneOfEach
      <4> SUFFICES ASSUME NEW q \in Reporters, NEW t \in Reporters,
                          report'[q].step = "answer",
                          report'[t].step = "answer",
                          report'[q].serial = report'[t].serial
                   PROVE  q = t
        OBVIOUS
      <4>2. CASE q # p /\ t # p
        <5>1. report'[q] = report[q] /\ report'[t] = report[t]
          BY <1>5, <4>2
        <5> QED BY <2>1, <5>1 DEF OneOfEach
      <4> QED BY <4>1, <4>2
    <3> QED BY <3>1, <3>2, <3>3, <3>4, <3>5 DEF OneOfEach
  <2>9. ASSUME ~destroyed PROVE Leaks'
    <3>1. \A b \in Blocks : Live(b)' =>
            b \in {task'.block, kept'} \/ Silent(b)'
      BY <1>1, <1>7, <2>1, <2>9 DEF Leaks, Silent
    <3>2. \A q \in Outside : report'[q].step = "answer" /\ Live(kept)'
            => kept' = task'.block \/ Silent(kept)'
      <4> SUFFICES ASSUME NEW q \in Outside, report'[q].step = "answer",
                          Live(kept)'
                   PROVE  kept' = task'.block \/ Silent(kept)'
        OBVIOUS
      <4>1. kept \in Blocks
        BY <1>2, <1>6, <1>8, <2>1, <2>2 DEF Busy, Ownership, Types
      <4>2. CASE q = p
        BY <1>1, <2>3, <2>6, <4>2 DEF Live
      <4>3. CASE q # p
        <5>1. report[q].step = "answer" /\ Live(kept)
          BY <1>1, <1>5, <1>7, <2>2, <4>1, <4>3 DEF Live
        <5> QED BY <1>1, <1>7, <2>1, <2>9, <4>1, <5>1 DEF Leaks, Silent
      <4> QED BY <4>2, <4>3
    <3> QED BY <3>1, <3>2 DEF Leaks
  <2> QED BY <2>7, <2>8, <2>9
<1> QED BY <1>1, <1>9, <1>10, <1>11, <1>12, <1>13 DEF Inv

LEMMA ProcessResponseKeepsInv ==
  ASSUME Inv, NEW p \in Reporters, ProcessResponse(p)
  PROVE  Inv'
<1> DEFINE s == report[p].serial
<1>1. /\ report[p].step = "answer" /\ Busy(p) /\ Ends(p)
      /\ \/ answers' = answers
         \/ \E h : Tell(s, ErrorPassedOn(h, report[p].payload,
                                         report[p].error), report[p].payload)
      /\ UNCHANGED <<destroyed, callback, registering, registrations, asked,
                     exchange, heap, requestList, raced>>
  BY DEF ProcessResponse, clientVars, recordVars, Busy
<1>2. /\ Types /\ Reports /\ ListIsHeap /\ DestroyWaitsForTheTask
      /\ ~raced => Ownership /\ OneOfEach
      /\ ~raced /\ ~destroyed => Leaks
  BY DEF Inv
<1>3. answers \in [Serials -> Seq(Answer)] /\ report[p] \in ReportRecord
  BY <1>2 DEF Types
<1>4. /\ answers' \in [Serials -> Seq(Answer)]
      /\ \A t \in Serials : t # s => answers'[t] = answers[t]
      /\ s \in Serials => Len(answers'[s]) <= Len(answers[s]) + 1
  <2>1. s \in Serials => Len(answers[s]) \in Nat
    BY <1>3
  <2>2. CASE answers' = answers
    BY <1>3, <2>1, <2>2
  <2>3. CASE answers' # answers
    <3>1. PICK h : Tell(s, ErrorPassedOn(h, report[p].payload,
                                         report[p].error), report[p].payload)
      BY <1>1, <2>3
    <3> DEFINE e == [error |-> ErrorPassedOn(h, report[p].payload,
                                             report[p].error),
                     payload |-> report[p].payload]
    <3>2. e \in Answer
      BY <1>3 DEF Answer, ReportRecord, ErrorPassedOn
    <3>3. answers' = [answers EXCEPT ![s] = Append(@, e)]
      BY <3>1 DEF Tell
    <3> HIDE DEF e, s
    <3>4. /\ answers' \in [Serials -> Seq(Answer)]
          /\ \A t \in Serials : t # s => answers'[t] = answers[t]
          /\ s \in Serials => Len(answers'[s]) = Len(answers[s]) + 1
      BY <1>3, <3>2, <3>3, TellingAppends
    <3> QED BY <2>1, <3>4 DEF s
  <2> QED BY <2>2, <2>3
<1> HIDE DEF s
<1>5. Types'
  BY <1>1, <1>2, <1>4, EndsFacts DEF Types
<1>6. Reports' /\ (~raced => Ownership')
  BY <1>1, EndsKeepsReports, EndsKeepsOwnership
<1>7. ListIsHeap' /\ DestroyWaitsForTheTask'
  BY <1>1, <1>2, EndsFacts DEF ListIsHeap, DestroyWaitsForTheTask, Live
<1>8. ASSUME ~raced PROVE OneOfEach' /\ (~destroyed => Leaks')
  <2>1. Ownership /\ OneOfEach /\ (~destroyed => Leaks)
    BY <1>2, <1>8
  <2>2. /\ s \in Serials /\ asked[s] # NoMethod /\ answers[s] = <<>>
        /\ \A b \in Blocks : Live(b) => heap[b].serial # s
        /\ \A q \in Reporters : q # p /\ report[q].step = "answer" =>
             report[q].serial # s
    BY <1>1, <2>1 DEF OneOfEach, s
  <2>3. \A q \in Reporters : report'[q].step = "answer" =>
          q # p /\ report'[q] = report[q]
    BY <1>1, EndsFacts
  <2>4. OneOfEach'
    <3>1. Len(answers'[s]) <= 1
      <4>1. Len(answers[s]) = 0
        BY <2>2
      <4>2. Len(answers'[s]) \in Nat
        BY <1>4, <2>2
      <4> QED BY <1>4, <2>2, <4>1, <4>2
    <3>2. /\ \A t \in Serials : asked'[t] = NoMethod => answers'[t] = <<>>
          /\ \A t \in Serials : Len(answers'[t]) <= 1
      BY <1>1, <1>4, <2>1, <2>2, <3>1 DEF OneOfEach
    <3>3. \A b \in Blocks : Live(b)' => answers'[heap'[b].serial] = <<>>
      BY <1>1, <1>2, <1>4, <2>1, <2>2 DEF OneOfEach, Live, Reports
    <3>4. \A q \in Reporters : report'[q].step = "answer" =>
            /\ report'[q].serial \in Serials
            /\ asked'[report'[q].serial] # NoMethod
            /\ answers'[report'[q].serial] = <<>>
            /\ \A b \in Blocks :
                 Live(b)' => heap'[b].serial # report'[q].serial
      BY <1>1, <1>4, <2>1, <2>2, <2>3 DEF OneOfEach, Live
    <3>5. \A q, t \in Reporters :
            /\ report'[q].step = "answer" /\ report'[t].step = "answer"
            /\ report'[q].serial = report'[t].serial
            => q = t
      BY <2>1, <2>3 DEF OneOfEach
    <3>6. \A b, d \in Blocks :
            Live(b)' /\ Live(d)' /\ heap'[b].serial = heap'[d].serial => b = d
      BY <1>1, <2>1 DEF OneOfEach, Live
    <3> QED BY <3>2, <3>3, <3>4, <3>5, <3>6 DEF OneOfEach
  <2>5. ASSUME ~destroyed PROVE Leaks'
    <3>1. CASE p = "task"
      <4>1. task' = NoTask /\ kept' = kept /\ ~Live(task.block)
        BY <1>1, <2>1, <3>1, EndsFacts DEF Ownership
      <4>2. \A q \in Outside : report'[q].step = "answer" =>
              report[q].step = "answer"
        BY <2>3 DEF Outside, Reporters
      <4> QED BY <1>1, <2>1, <2>5, <4>1, <4>2 DEF Leaks, Live, Silent
    <3>2. CASE p # "task"
      <4>1. task' = task /\ kept' = NoBlock /\ p \in Outside
        BY <1>1, <3>2, EndsFacts
      <4>2. \A q \in Outside : report'[q].step # "answer"
        BY <1>1, <2>1, <2>3, <4>1 DEF Ownership, Outside, Reporters, Busy
      <4> QED BY <1>1, <2>1, <2>5, <4>1, <4>2 DEF Leaks, Live, Silent
    <3> QED BY <3>1, <3>2
  <2> QED BY <2>4, <2>5
<1> QED BY <1>1, <1>5, <1>6, <1>7, <1>8 DEF Inv

-----------------------------------------------------------------------------
LEMMA StepKeepsInv == Inv /\ [Next]_vars => Inv'
<1> SUFFICES ASSUME Inv, [Next]_vars PROVE Inv'
  OBVIOUS
<1>1. CASE \E s \in Serials, m \in Methods : Call(s, m)
  BY <1>1, RefusalKeepsInv, CreateKeepsInv DEF Call
<1>2. CASE Operate
  BY <1>2, OperateKeepsInv
<1>3. CASE \E p \in Reporters : TakeKept(p) \/ ReportStep(p)
  BY <1>3, TakeKeptKeepsInv, ReadRecordKeepsInv, ReleaseRecordKeepsInv,
     ProcessResponseKeepsInv DEF ReportStep
<1>4. CASE \/ SetRilCallback \/ SetNextCallback \/ UNCHANGED vars
           \/ \E module \in SubModules, payload \in NoticePayloads :
                \E code \in NoticeIds[module] :
                  ReportNotification(module, code, payload)
  BY <1>4, ClientKeepsInv
<1>5. CASE SetHrilManagerDestroy
  BY <1>5, DestroyKeepsInv
<1> QED BY <1>1, <1>2, <1>3, <1>4, <1>5 DEF Next

LEMMA SpecInv == Spec => []Inv
BY InitInv, StepKeepsInv, PTL DEF Spec

-----------------------------------------------------------------------------
(* The invariants of the runs. *)

(* Types, and a task has a request and a record, for any methods, tables   *)
(* and number of requests (hril_base.h, CreateHRilRequest).                *)
THEOREM DispatchTypes == Spec => []TypeOK
<1>1. Inv => TypeOK
  BY DEF Inv, Types, TypeOK, ReportRecord, Answer
<1> QED BY <1>1, SpecInv, PTL

(* requestList_ holds exactly the records that have not been freed, also   *)
(* after the reader and the alarm handler have reported on the same one.   *)
THEOREM ListFollowsHeap == Spec => []ListIsHeap
<1>1. Inv => ListIsHeap
  BY DEF Inv
<1> QED BY <1>1, SpecInv, PTL

(* Until the reader and the alarm handler meet no client is told twice of  *)
(* a request.                                                              *)
THEOREM NoSecondAnswer == Spec => []AnsweredOnce
<1>1. Inv => AnsweredOnce
  BY DEF Inv, OneOfEach, AnsweredOnce
<1> QED BY <1>1, SpecInv, PTL

(* A record that nobody will report on was left by an operation that       *)
(* returned without a report, unless the manager was destroyed or reader   *)
(* and alarm handler have met: no other path loses a record.               *)
THEOREM OnlySilenceLeaks == Spec => []LeaksAreSilent
<1>1. Inv => LeaksAreSilent
  BY DEF Inv, Leaks, LeaksAreSilent, Silent
<1> QED BY <1>1, SpecInv, PTL

(* The manager is not destroyed while a call holds dispatchMutex.          *)
THEOREM DestroyWaits == Spec => []DestroyWaitsForTheTask
<1>1. Inv => DestroyWaitsForTheTask
  BY DEF Inv
<1> QED BY <1>1, SpecInv, PTL

-----------------------------------------------------------------------------
(* The refinement of RequestLedger. *)

(* Where a request is, as long as reader and alarm have not met.           *)
LEMMA WhereARequestIs ==
  ASSUME Inv, ~raced, NEW s \in Serials
  PROVE  /\ asked[s] = NoMethod => /\ StatusOf(s) = "unasked"
                                   /\ ~Open(s) /\ ~Withdrawn(s)
                                   /\ Len(answers[s]) = 0
         /\ Open(s) => /\ StatusOf(s) = "open" /\ asked[s] # NoMethod
                       /\ ~Withdrawn(s)
         /\ Withdrawn(s) => /\ StatusOf(s) = "withdrawn"
                            /\ asked[s] # NoMethod
                            /\ ~Open(s)
         /\ asked[s] # NoMethod /\ ~Open(s) /\ ~Withdrawn(s)
              => StatusOf(s) = "settled"
         /\ Len(answers[s]) \in {0, 1}
<1>1. Types /\ Reports /\ OneOfEach
  BY DEF Inv
<1>2. Open(s) => asked[s] # NoMethod
  BY <1>1 DEF Open, Reports
<1>3. Withdrawn(s) => asked[s] # NoMethod /\ ~Open(s)
  BY <1>1 DEF Withdrawn, Open, OneOfEach
<1>4. Len(answers[s]) \in {0, 1}
  <2>1. answers[s] \in Seq(Answer)
    BY <1>1 DEF Types
  <2>2. Len(answers[s]) \in Nat
    BY <2>1
  <2>3. Len(answers[s]) <= 1
    BY <1>1 DEF OneOfEach
  <2>4. \A n \in Nat : n <= 1 => n \in {0, 1}
    OBVIOUS
  <2> QED BY <2>2, <2>3, <2>4
<1>5. asked[s] = NoMethod => Len(answers[s]) = 0
  BY <1>1 DEF OneOfEach
<1> QED BY <1>2, <1>3, <1>4, <1>5 DEF StatusOf

Alone(s) == \A t \in Serials : t # s => /\ asked'[t] = asked[t]
                                        /\ Open(t)' <=> Open(t)
                                        /\ Withdrawn(t)' <=> Withdrawn(t)
                                        /\ answers'[t] = answers[t]

(* One request changes, as the ledger writes it.                           *)
LEMMA OneChanges ==
  ASSUME NEW s \in Serials, Alone(s)
  PROVE  /\ [t \in Serials |-> StatusOf(t)]' =
              [[t \in Serials |-> StatusOf(t)] EXCEPT ![s] = StatusOf(s)']
         /\ [t \in Serials |-> Len(answers[t])]' =
              [[t \in Serials |-> Len(answers[t])] EXCEPT
                 ![s] = Len(answers'[s])]
<1>1. \A t \in Serials : t # s => StatusOf(t)' = StatusOf(t)
  BY DEF Alone, StatusOf
<1>2. \A t \in Serials : t # s => answers'[t] = answers[t]
  BY DEF Alone
<1> QED BY <1>1, <1>2

LEMMA InitRefines == Init => Ledger!Init
<1> SUFFICES ASSUME Init PROVE Ledger!Init
  OBVIOUS
<1>1. \A s \in Serials : StatusOf(s) = "unasked" /\ Len(answers[s]) = 0
  <2>1. \A s \in Serials : asked[s] = NoMethod /\ answers[s] = <<>>
    BY DEF Init
  <2>2. ASSUME NEW s \in Serials PROVE StatusOf(s) = "unasked"
    <3>1. asked[s] = NoMethod /\ ~Open(s) /\ ~Withdrawn(s)
      BY <2>1 DEF Init, Open, Live, Withdrawn, NoReport
    <3> QED BY <3>1 DEF StatusOf
  <2>3. \A s \in Serials : Len(answers[s]) = 0
    BY <2>1
  <2> QED BY <2>2, <2>3
<1>2. raced = FALSE
  BY DEF Init
<1> QED BY <1>1, <1>2 DEF Ledger!Init

(* A call that is refused, with or without the answer that it was.         *)
LEMMA RefusalRefines ==
  ASSUME Inv, ~raced, NEW s \in Serials, NEW m \in Methods,
         Refuse(s, m) \/ NotImplemented(s, m)
  PROVE  Ledger!Refuse(s)
<1>1. /\ asked[s] = NoMethod /\ asked' = [asked EXCEPT ![s] = m]
      /\ answers' = answers \/ Tell(s, TRUE, "none")
      /\ UNCHANGED <<heap, report>>
  BY DEF Refuse, NotImplemented, Called, recordVars
<1>2. Types
  BY DEF Inv
<1>3. /\ asked'[s] = m /\ m # NoMethod
      /\ \A t \in Serials : t # s => asked'[t] = asked[t]
  BY <1>1, <1>2, NamesAssumption DEF Types
<1>4. \A t \in Serials : /\ Open(t)' <=> Open(t)
                         /\ Withdrawn(t)' <=> Withdrawn(t)
  BY <1>1 DEF Open, Withdrawn, Live
<1>5. /\ StatusOf(s) = "unasked" /\ ~Open(s) /\ ~Withdrawn(s)
      /\ Len(answers[s]) = 0
  BY <1>1, WhereARequestIs
<1>6. StatusOf(s)' = "settled"
  BY <1>3, <1>4, <1>5 DEF StatusOf
<1>7. /\ \A t \in Serials : t # s => answers'[t] = answers[t]
      /\ Len(answers'[s]) \in {0, 1}
  <2>1. answers \in [Serials -> Seq(Answer)]
    BY <1>2 DEF Types
  <2>2. CASE answers' = answers
    BY <1>5, <2>2
  <2>3. CASE Tell(s, TRUE, "none")
    <3>1. [error |-> TRUE, payload |-> "none"] \in Answer
      BY DEF Answer, Payload
    <3>2. /\ \A t \in Serials : t # s => answers'[t] = answers[t]
          /\ Len(answers'[s]) = Len(answers[s]) + 1
      BY <2>1, <2>3, <3>1, TellingAppends DEF Tell
    <3> QED BY <1>5, <3>2
  <2> QED BY <1>1, <2>2, <2>3
<1>8. Alone(s)
  BY <1>3, <1>4, <1>7 DEF Alone
<1> QED BY <1>5, <1>6, <1>7, <1>8, OneChanges DEF Ledger!Refuse

(* A call that the vendor library is to answer.                            *)
LEMMA CreateRefines ==
  ASSUME Inv, ~raced, NEW s \in Serials, NEW m \in Methods,
         CreateHRilRequest(s, m)
  PROVE  Ledger!Ask(s)
<1>1. PICK a \in Blocks :
        /\ ~Live(a)
        /\ heap' = [heap EXCEPT ![a] = [live |-> TRUE, serial |-> s,
                                        code |-> RequestOf[m].code]]
  BY DEF CreateHRilRequest
<1>2. /\ asked[s] = NoMethod /\ asked' = [asked EXCEPT ![s] = m]
      /\ UNCHANGED <<report, answers>>
  BY DEF CreateHRilRequest, Called
<1>3. Types
  BY DEF Inv
<1>4. /\ heap'[a].live = TRUE /\ heap'[a].serial = s
      /\ \A b \in Blocks : b # a => heap'[b] = heap[b]
      /\ asked'[s] # NoMethod
      /\ \A t \in Serials : t # s => asked'[t] = asked[t]
  BY <1>1, <1>2, <1>3, NamesAssumption DEF Types
<1>5. \A t \in Serials : Withdrawn(t)' <=> Withdrawn(t)
  BY <1>2 DEF Withdrawn
<1>6. \A t \in Serials : t # s => (Open(t)' <=> Open(t))
  BY <1>1, <1>4 DEF Open, Live
<1>7. Open(s)'
  BY <1>4 DEF Open, Live
<1>8. StatusOf(s) = "unasked"
  BY <1>2, WhereARequestIs
<1>9. StatusOf(s)' = "open"
  <2>1. ~Withdrawn(s)
    BY <1>2, WhereARequestIs
  <2> QED BY <1>4, <1>5, <1>7, <2>1 DEF StatusOf
<1>10. Alone(s)
  BY <1>2, <1>4, <1>5, <1>6 DEF Alone
<1>11. [t \in Serials |-> Len(answers[t])]'
         = [t \in Serials |-> Len(answers[t])]
  BY <1>2
<1> QED BY <1>8, <1>9, <1>10, <1>11, OneChanges DEF Ledger!Ask

(* A report that releases the record.                                      *)
LEMMA ReleaseRefines ==
  ASSUME Inv, ~raced, NEW p \in Reporters, ReleaseRecord(p)
  PROVE  \E s \in Serials : Ledger!Withdraw(s)
<1>1. /\ report[p].step = "release" /\ Busy(p)
      /\ ReleaseHRilRequest(report[p].code, report[p].block)
      /\ report' = [report EXCEPT ![p].step = "answer"]
      /\ UNCHANGED <<asked, answers>>
  BY DEF ReleaseRecord, taskVars, Busy
<1>2. /\ Types /\ Reports /\ ListIsHeap /\ Ownership /\ OneOfEach
  BY DEF Inv
<1>3. PICK a \in Blocks, s \in Serials \union {NoSerial} :
        a = report[p].block /\ s = report[p].serial
  BY <1>1, <1>2 DEF Reports, Types, ReportRecord
<1>4. Live(a) /\ report[p].code = heap[a].code /\ s = heap[a].serial
  <2>1. CASE p = "task"
    BY <1>1, <1>2, <1>3, <2>1 DEF Ownership, Reports, TaskOwns
  <2>2. CASE p # "task"
    <3>1. p \in Outside /\ Outside = {"reader", "alarm"}
      BY <2>2 DEF Outside, Reporters
    <3>2. a = kept /\ kept # NoBlock /\ \A q \in Outside : q # p => ~Busy(q)
      BY <1>1, <1>2, <1>3, <3>1 DEF Ownership
    <3>3. KeptOwns
      BY <1>1, <3>2 DEF KeptOwns, Busy
    <3> QED BY <1>1, <1>2, <1>3, <3>2, <3>3 DEF Ownership
  <2> QED BY <2>1, <2>2
<1>5. s \in Serials /\ asked[s] # NoMethod
  BY <1>2, <1>4 DEF Reports
<1>6. heap' = [heap EXCEPT ![a].live = FALSE]
  <2>1. <<heap[a].code, a>> \in requestList
    BY <1>2, <1>4 DEF ListIsHeap
  <2> QED BY <1>1, <1>3, <1>4, <2>1 DEF ReleaseHRilRequest
<1>7. /\ ~Live(a)'
      /\ \A b \in Blocks : b # a => heap'[b] = heap[b]
  <2>1. heap[a] \in [live : BOOLEAN, code : Codes \union {NoCode},
                     serial : Serials \union {NoSerial}]
    BY <1>2 DEF Types
  <2> DEFINE h == [heap[a] EXCEPT !.live = FALSE]
  <2>2. h.live = FALSE
    BY <2>1
  <2>3. heap' = [heap EXCEPT ![a] = h]
    BY <1>2, <1>6 DEF Types
  <2> HIDE DEF h
  <2> QED BY <1>2, <2>2, <2>3 DEF Types, Live
<1>8. /\ report'[p].step = "answer" /\ report'[p].serial = s
      /\ \A q \in Reporters : q # p => report'[q] = report[q]
  <2>1. report[p] \in ReportRecord
    BY <1>2 DEF Types
  <2> DEFINE r == [report[p] EXCEPT !.step = "answer"]
  <2>2. r.step = "answer" /\ r.serial = s
    BY <1>3, <2>1 DEF ReportRecord
  <2>3. report' = [report EXCEPT ![p] = r]
    BY <1>1, <1>2 DEF Types
  <2> HIDE DEF r
  <2> QED BY <1>2, <2>2, <2>3 DEF Types
<1>9. Open(s) /\ ~Open(s)'
  <2>1. \A b \in Blocks : b # a => ~(Live(b) /\ heap[b].serial = s)
    BY <1>2, <1>4 DEF OneOfEach
  <2> QED BY <1>4, <1>7, <2>1 DEF Open, Live
<1>10. \A t \in Serials : t # s => (Open(t)' <=> Open(t))
  BY <1>4, <1>7 DEF Open, Live
<1>11. Withdrawn(s)' /\ \A t \in Serials : t # s =>
                          (Withdrawn(t)' <=> Withdrawn(t))
  BY <1>1, <1>3, <1>8 DEF Withdrawn
<1>12. StatusOf(s) = "open"
  BY <1>5, <1>9, WhereARequestIs
<1>13. StatusOf(s)' = "withdrawn"
  BY <1>1, <1>5, <1>9, <1>11 DEF StatusOf
<1>14. Alone(s)
  BY <1>1, <1>10, <1>11 DEF Alone
<1>15. [t \in Serials |-> Len(answers[t])]'
         = [t \in Serials |-> Len(answers[t])]
  BY <1>1
<1>16. Ledger!Withdraw(s)
  BY <1>5, <1>12, <1>13, <1>14, <1>15, OneChanges DEF Ledger!Withdraw
<1> QED BY <1>5, <1>16

(* A report that has released the record, and tells the client or not.     *)
LEMMA ResponseRefines ==
  ASSUME Inv, ~raced, NEW p \in Reporters, ProcessResponse(p)
  PROVE  \E s \in Serials : Ledger!Settle(s)
<1>1. /\ report[p].step = "answer" /\ Busy(p) /\ Ends(p)
      /\ \/ answers' = answers
         \/ \E h : Tell(report[p].serial,
                        ErrorPassedOn(h, report[p].payload, report[p].error),
                        report[p].payload)
      /\ UNCHANGED <<asked, heap>>
  BY DEF ProcessResponse, recordVars, Busy
<1>2. /\ Types /\ Reports /\ OneOfEach
  BY DEF Inv
<1>3. PICK s \in Serials : s = report[p].serial
  BY <1>1, <1>2 DEF OneOfEach
<1>4. Withdrawn(s)
  BY <1>1, <1>3 DEF Withdrawn
<1>5. /\ StatusOf(s) = "withdrawn" /\ asked[s] # NoMethod /\ ~Open(s)
      /\ Len(answers[s]) = 0
  <2>1. answers[s] = <<>>
    BY <1>1, <1>2, <1>3 DEF OneOfEach
  <2> QED BY <1>4, <2>1, WhereARequestIs
<1>6. \A q \in Reporters : /\ q # p => report'[q] = report[q]
                           /\ report'[p].step # "answer"
  BY <1>1, EndsFacts DEF NoReport
<1>7. \A t \in Serials : Open(t)' <=> Open(t)
  BY <1>1 DEF Open, Live
<1>8. ~Withdrawn(s)'
  BY <1>1, <1>2, <1>3, <1>6 DEF Withdrawn, OneOfEach
<1>9. \A t \in Serials : t # s => (Withdrawn(t)' <=> Withdrawn(t))
  BY <1>1, <1>3, <1>6 DEF Withdrawn
<1>10. StatusOf(s)' = "settled"
  BY <1>1, <1>5, <1>7, <1>8 DEF StatusOf
<1>11. /\ \A t \in Serials : t # s => answers'[t] = answers[t]
       /\ Len(answers'[s]) \in {0, 1}
  <2>1. answers \in [Serials -> Seq(Answer)] /\ report[p] \in ReportRecord
    BY <1>2 DEF Types
  <2>2. CASE answers' = answers
    BY <1>5, <2>2
  <2>3. CASE answers' # answers
    <3>1. PICK h : Tell(s, ErrorPassedOn(h, report[p].payload,
                                         report[p].error), report[p].payload)
      BY <1>1, <1>3, <2>3
    <3> DEFINE e == [error |-> ErrorPassedOn(h, report[p].payload,
                                             report[p].error),
                     payload |-> report[p].payload]
    <3>2. e \in Answer
      BY <2>1 DEF Answer, ReportRecord, ErrorPassedOn
    <3>3. answers' = [answers EXCEPT ![s] = Append(@, e)]
      BY <3>1 DEF Tell
    <3> HIDE DEF e
    <3>4. /\ \A t \in Serials : t # s => answers'[t] = answers[t]
          /\ Len(answers'[s]) = Len(answers[s]) + 1
      BY <2>1, <3>2, <3>3, TellingAppends
    <3> QED BY <1>5, <3>4
  <2> QED BY <2>2, <2>3
<1>12. Alone(s)
  BY <1>1, <1>7, <1>9, <1>11 DEF Alone
<1>13. Ledger!Settle(s)
  BY <1>5, <1>10, <1>11, <1>12, OneChanges DEF Ledger!Settle
<1> QED BY <1>13

(* Every other step is none of the ledger's: no report gets to or away     *)
(* from its answer.                                                        *)
LEMMA NoAnswerMoves ==
  ASSUME UNCHANGED <<asked, heap, answers, raced>>,
         \A q \in Reporters :
           \/ report'[q] = report[q]
           \/ report'[q].step # "answer" /\ report[q].step # "answer"
  PROVE  UNCHANGED Ledger!vars
<1>1. \A t \in Serials : /\ Open(t)' <=> Open(t)
                         /\ Withdrawn(t)' <=> Withdrawn(t)
  BY DEF Open, Withdrawn, Live
<1>2. \A t \in Serials : StatusOf(t)' = StatusOf(t)
  BY <1>1 DEF StatusOf
<1> QED BY <1>2 DEF Ledger!vars

LEMMA OperateStutters == Inv /\ Operate => UNCHANGED Ledger!vars
<1> SUFFICES ASSUME Inv, Operate PROVE UNCHANGED Ledger!vars
  OBVIOUS
<1>1. Types /\ "task" \in Reporters
  BY DEF Inv, Reporters
<1>2. UNCHANGED <<asked, heap, answers, raced>> /\ report["task"] = NoReport
  BY DEF Operate, InVendor, recordVars
<1>3. \/ UNCHANGED report
      \/ \E m, b, e : report' = [report EXCEPT !["task"] =
                                    Report(task.block, m, b, e)]
  <2> DEFINE m == asked[task.serial]
  <2>1. PICK how \in {"done", "failed"} : \E o \in Outcomes(m, how) :
          ComesBack(o, m, task.block)
    BY DEF Operate
  <2>2. m \in Methods
    BY <1>1 DEF Operate, InVendor, Inv, Reports, Types
  <2> HIDE DEF m
  <2>3. PICK o \in Outcomes(m, how) : ComesBack(o, m, task.block)
    BY <2>1
  <2>4. o.kind \in {"report", "silent", "deferred"}
    BY <2>2, OutcomeKinds
  <2> QED BY <2>3, <2>4 DEF ComesBack
<1>4. ASSUME NEW m, NEW b, NEW e,
             report' = [report EXCEPT !["task"] = Report(task.block, m, b, e)]
      PROVE  \A q \in Reporters :
               \/ report'[q] = report[q]
               \/ report'[q].step # "answer" /\ report[q].step # "answer"
  <2>1. /\ report'["task"] = Report(task.block, m, b, e)
        /\ \A q \in Reporters : q # "task" => report'[q] = report[q]
    BY <1>1, <1>4 DEF Types
  <2>2. report'["task"].step = "check" /\ report["task"].step = "none"
    BY <1>2, <2>1 DEF Report, NoReport
  <2> QED BY <2>1, <2>2
<1> QED BY <1>2, <1>3, <1>4, NoAnswerMoves

LEMMA TakeKeptStutters ==
  ASSUME Inv, NEW p \in Reporters, TakeKept(p), ~raced'
  PROVE  UNCHANGED Ledger!vars
<1>1. Types
  BY DEF Inv
<1>2. UNCHANGED <<asked, heap, answers>> /\ report[p] = NoReport
  BY DEF TakeKept, recordVars, taskVars
<1>3. UNCHANGED raced
  <2>1. raced' = (raced \/ \E q \in Reporters \ {p} : report[q].block = kept)
    BY DEF TakeKept
  <2>2. raced \in BOOLEAN
    BY <1>1 DEF Types
  <2> QED BY <2>1, <2>2, Zenon
<1>4. PICK b, e : report' = [report EXCEPT ![p] =
                               Report(kept, "Network", b, e)]
  BY DEF TakeKept
<1>5. /\ report'[p] = Report(kept, "Network", b, e)
      /\ \A q \in Reporters : q # p => report'[q] = report[q]
  BY <1>1, <1>4 DEF Types
<1>6. report'[p].step = "check" /\ report[p].step = "none"
  BY <1>2, <1>5 DEF Report, NoReport
<1> QED BY <1>2, <1>3, <1>5, <1>6, NoAnswerMoves

LEMMA ReadRecordStutters ==
  ASSUME Inv, NEW p \in Reporters, ReadRecord(p)
  PROVE  UNCHANGED Ledger!vars
<1>1. Types
  BY DEF Inv
<1>2. /\ UNCHANGED <<asked, heap, answers, raced>>
      /\ report[p].step = "check" /\ Busy(p)
  <2>1. UNCHANGED <<asked, heap, answers, raced>>
    BY Zenon DEF ReadRecord, recordVars
  <2>2. report[p].step = "check"
    BY Zenon DEF ReadRecord
  <2> QED BY <2>1, <2>2 DEF Busy
<1>3. CASE Ends(p)
  <2>1. /\ \A q \in Reporters : q # p => report'[q] = report[q]
        /\ report'[p].step = "none"
    BY <1>2, <1>3, EndsFacts DEF NoReport
  <2> QED BY <1>2, <2>1, NoAnswerMoves
<1>4. CASE ~Ends(p)
  <2>1. PICK c \in {heap[report[p].block].code}
                     \union (IF heap[report[p].block].live THEN {}
                             ELSE {NoCode}) :
          report' = [report EXCEPT ![p].step = "release", ![p].code = c,
                       ![p].serial = IF c = NoCode THEN NoSerial
                                     ELSE heap[report[p].block].serial]
    BY <1>4, Zenon DEF ReadRecord
  <2> DEFINE r == [report[p] EXCEPT !.step = "release", !.code = c,
                     !.serial = IF c = NoCode THEN NoSerial
                                ELSE heap[report[p].block].serial]
  <2>2. report[p] \in ReportRecord
    BY <1>1 DEF Types
  <2>3. r.step = "release"
    BY <2>2 DEF ReportRecord
  <2>4. report' = [report EXCEPT ![p] = r]
    BY <1>1, <2>1 DEF Types
  <2> HIDE DEF r
  <2>5. /\ \A q \in Reporters : q # p => report'[q] = report[q]
        /\ report'[p].step = "release"
    BY <1>1, <2>3, <2>4 DEF Types
  <2> QED BY <1>2, <2>5, NoAnswerMoves
<1> QED BY <1>3, <1>4

LEMMA OthersStutter ==
  ASSUME \/ SetRilCallback \/ SetNextCallback \/ SetHrilManagerDestroy
         \/ UNCHANGED vars
         \/ \E m \in SubModules : \E c, x : ReportNotification(m, c, x)
  PROVE  UNCHANGED Ledger!vars
<1>1. UNCHANGED <<asked, heap, answers, raced, report>>
  BY DEF SetRilCallback, SetNextCallback, SetHrilManagerDestroy, vars,
         ReportNotification, taskVars, recordVars
<1> QED BY <1>1, NoAnswerMoves

(* That reader and alarm have met is not forgotten.                        *)
LEMMA RacedStays == Inv /\ Next /\ ~raced' => ~raced
<1> SUFFICES ASSUME Inv, Next, ~raced' PROVE ~raced
  OBVIOUS
<1>1. raced \in BOOLEAN
  BY DEF Inv, Types
<1>2. CASE \E s \in Serials, m \in Methods : Call(s, m)
  BY <1>2 DEF Call, Refuse, NotImplemented, CreateHRilRequest
<1>3. ASSUME NEW p \in Reporters, TakeKept(p) PROVE ~raced
  <2>1. raced' = (raced \/ \E q \in Reporters \ {p} : report[q].block = kept)
    BY <1>3 DEF TakeKept
  <2> QED BY <1>1, <2>1, Zenon
<1>4. ASSUME NEW p \in Reporters, ReportStep(p) PROVE ~raced
  <2>1. UNCHANGED raced
    BY <1>4, Zenon DEF ReportStep, ReadRecord, ReleaseRecord, ProcessResponse
  <2> QED BY <2>1
<1>5. CASE Operate \/ SetRilCallback \/ SetNextCallback
             \/ SetHrilManagerDestroy
             \/ \E m \in SubModules : \E c, x : ReportNotification(m, c, x)
  BY <1>5 DEF Operate, ReportNotification, SetRilCallback, SetNextCallback,
              SetHrilManagerDestroy
<1> QED BY <1>2, <1>3, <1>4, <1>5 DEF Next

LEMMA StepRefines == Inv /\ [Next]_vars => [Ledger!Next]_(Ledger!vars)
<1> SUFFICES ASSUME Inv, [Next]_vars, ~raced'
             PROVE  Ledger!Next \/ UNCHANGED Ledger!vars
  BY DEF Ledger!Next, Ledger!Fault
<1>1. CASE UNCHANGED vars
  BY <1>1, OthersStutter
<1> SUFFICES ASSUME Next PROVE Ledger!Next \/ UNCHANGED Ledger!vars
  BY <1>1
<1>6. ~raced
  BY RacedStays
<1>2. ASSUME NEW s \in Serials,
             Ledger!Ask(s) \/ Ledger!Refuse(s) \/ Ledger!Withdraw(s)
               \/ Ledger!Settle(s)
      PROVE  Ledger!Next
  BY <1>2, <1>6 DEF Ledger!Next
<1>3. CASE \E s \in Serials, m \in Methods : Call(s, m)
  BY <1>2, <1>3, <1>6, RefusalRefines, CreateRefines DEF Call
<1>4. ASSUME NEW p \in Reporters, ReleaseRecord(p) \/ ProcessResponse(p)
      PROVE  Ledger!Next
  BY <1>2, <1>4, <1>6, ReleaseRefines, ResponseRefines
<1> QED BY <1>3, <1>4, OperateStutters, TakeKeptStutters, ReadRecordStutters,
           OthersStutter DEF Next, ReportStep

(* The records and reports keep the promise that RequestLedger makes to    *)
(* the client: a request is refused at once or open, withdrawn once, and   *)
(* then settled with at most one answer, until reader and alarm meet.      *)
THEOREM RequestsFollowTheLedger == Spec => ImplementsLedger
BY InitRefines, StepRefines, SpecInv, PTL
   DEF Spec, ImplementsLedger, Ledger!Spec
=============================================================================
