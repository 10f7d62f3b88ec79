---------------------------- MODULE HrilDispatch ----------------------------
(***************************************************************************)
(* The life of a request between the client and the vendor library         *)
(* (hril_manager.cpp, hril_base.h, hril_base.cpp).  The client calls a     *)
(* method; under dispatchMutex, which is held until the call returns, a    *)
(* sub-module allocates a request record, lists it, and calls the          *)
(* operation of the vendor library.  The report releases the record and    *)
(* calls the client back.  A search for networks keeps the record, and the *)
(* reader thread or the alarm handler reports on it later.                 *)
(*                                                                         *)
(* The tables of HrilTables and VendorReports are parameters here.         *)
(***************************************************************************)
EXTENDS Naturals, Sequences, FiniteSets, Payloads

CONSTANTS
  SubModules,       \* HRilCall, HRilModem, ...
  CallbackOrder,    \* the order in which SetRilCallback goes through them
  Methods,          \* what the client may call
  RequestOf,        \* [Methods -> what the sub-module makes of the call]
  ModuleOf,         \* [Methods -> SubModules]
  Implements,       \* [Methods -> BOOLEAN]: the operation is registered
  OutcomesOf,       \* [Methods -> what the operation may report]
  ReportsToOf,      \* [Methods -> the sub-module it reports to]
  ResponsesOf,      \* [SubModules -> [code -> Handler]]
  NoticesOf,        \* [SubModules -> [code -> payloads forwarded]]
  NoticeIds,        \* [SubModules -> the notifications that may arrive]
  NoticePayloads,   \* what they bring
  Locked,           \* those that are delivered under the running lock
  Serials,          \* the requests, by the serial number the client gives
  Blocks,           \* the heap: addresses of request records
  Registered,       \* whether a client is registered at the start
  MaxRegistrations, \* bound: calls of SetRilCallback
  NoMethod, NoBlock, NoCode, NoSerial

VARIABLES
  destroyed,     \* g_isHrilManagerDestory
  callback,      \* [SubModules -> BOOLEAN]: callback_ is not null
  registering,   \* SetRilCallback in progress: what is set and where it is
  registrations, \* how many calls of SetRilCallback there have been
  task,          \* the call that holds dispatchMutex
  heap,          \* the request records
  requestList,   \* requestList_: <<code, address>>
  kept,          \* g_reportInfo.requestInfo of the search for networks
  report,        \* the report each thread is in the middle of
  asked,         \* [Serials -> Methods]: history of the calls
  exchange,      \* [Serials -> how the exchange with the modem ended]
  answers,       \* [Serials -> what the client was told, in order]
  notice,        \* the last notification
  raced          \* reader and alarm have reported on the same record

taskVars   == <<task, asked, exchange>>
recordVars == <<heap, requestList>>
clientVars == <<callback, registering, registrations>>
vars == <<destroyed, clientVars, taskVars, recordVars, kept, report, answers,
          notice, raced>>

Reporters == {"task", "reader", "alarm"}
Codes == {RequestOf[m].code : m \in Methods}

ASSUME NamesAssumption ==
  /\ NoMethod \notin Methods /\ NoBlock \notin Blocks
  /\ NoCode \notin Codes /\ NoSerial \notin Serials

ASSUME TablesAssumption ==
  /\ CallbackOrder \in Seq(SubModules)
  /\ "Network" \in SubModules
  /\ \A m \in Methods :
       /\ ReportsToOf[m] \in SubModules
       /\ \A o \in OutcomesOf[m].done \union OutcomesOf[m].failed :
            /\ o.kind \in {"report", "silent", "deferred"}
            /\ o.payload \in Payload /\ o.error \in BOOLEAN
       /\ \A o \in OutcomesOf[m].failed : o.kind # "deferred"
  /\ Registered \in BOOLEAN /\ MaxRegistrations \in Nat

(* The operations that leave their record to be reported on later.         *)
Deferring == {m \in Methods : \E o \in OutcomesOf[m].done : o.kind = "deferred"}

NoTask   == [serial |-> NoSerial, block |-> NoBlock]
NoReport == [block |-> NoBlock, step |-> "none", module |-> "none",
             payload |-> "none", error |-> FALSE, code |-> NoCode,
             serial |-> NoSerial]
NoNotice == [code |-> NoCode, locked |-> FALSE, heard |-> FALSE]
LastRadioState == "last radio state"
Idle     == [left |-> <<>>, client |-> FALSE]

Init ==
  /\ destroyed = FALSE
  /\ callback = [s \in SubModules |-> Registered]
  /\ registering = Idle /\ registrations = 0
  /\ task = NoTask
  /\ heap = [a \in Blocks |-> [live |-> FALSE, code |-> NoCode,
                               serial |-> NoSerial]]
  /\ requestList = {}
  /\ kept = NoBlock
  /\ report = [p \in Reporters |-> NoReport]
  /\ asked = [s \in Serials |-> NoMethod]
  /\ exchange = [s \in Serials |-> "none"]
  /\ answers = [s \in Serials |-> <<>>]
  /\ notice = NoNotice
  /\ raced = FALSE

Live(a) == heap[a].live

Tell(s, error, payload) ==
  answers' = [answers EXCEPT ![s] =
                Append(@, [error |-> error, payload |-> payload])]

-----------------------------------------------------------------------------
(* The call.  A call that returns an error was refused; the client learns  *)
(* it from the call, and if the vendor library lacks the operation also    *)
(* from CommonErrorResponse, when RequestVendor finds a client.            *)

Called(s, m) == /\ task = NoTask
                /\ asked[s] = NoMethod
                /\ asked' = [asked EXCEPT ![s] = m]

Refused(s) == exchange' = [exchange EXCEPT ![s] = "refused"]

(* TaskSchedule of a destroyed manager, a check of the arguments that      *)
(* fails, malloc that fails.                                               *)
Refuse(s, m) ==
  /\ Called(s, m)
  /\ \/ destroyed
     \/ RequestOf[m].checked
     \/ Implements[m]
  /\ Refused(s)
  /\ UNCHANGED <<destroyed, clientVars, task, recordVars, kept, report,
                 answers, notice, raced>>

(* CommonErrorResponse with VENDOR_NOT_IMPLEMENT.                          *)
NotImplemented(s, m) ==
  /\ Called(s, m)
  /\ ~destroyed /\ ~Implements[m]
  /\ Refused(s)
  /\ IF RequestOf[m].path = "vendor" /\ callback[ModuleOf[m]]
     THEN Tell(s, TRUE, "none") ELSE UNCHANGED answers
  /\ UNCHANGED <<destroyed, clientVars, task, recordVars, kept, report,
                 notice, raced>>

(* Faulty: the operation is called with what malloc gives, or null.        *)
CreateUnchecked(s, m) ==
  /\ Called(s, m)
  /\ ~destroyed /\ Implements[m]
  /\ task' = [serial |-> s, block |-> NoBlock]
  /\ UNCHANGED <<destroyed, clientVars, exchange, recordVars, kept, report,
                 answers, notice, raced>>

(* CreateHRilRequest, then the operation of the vendor library.            *)
CreateHRilRequest(s, m) ==
  /\ Called(s, m)
  /\ ~destroyed /\ Implements[m]
  /\ \E a \in Blocks :
       /\ ~Live(a)
       /\ heap' = [heap EXCEPT ![a] = [live |-> TRUE, serial |-> s,
                                       code |-> RequestOf[m].code]]
       /\ requestList' = requestList \union {<<RequestOf[m].code, a>>}
       /\ task' = [serial |-> s, block |-> a]
  /\ UNCHANGED <<destroyed, clientVars, exchange, kept, report, answers,
                 notice, raced>>

-----------------------------------------------------------------------------
(* The operation.  The search holds g_networkSearchInformationMutex, under *)
(* which the reader reports too; the alarm handler does not take it.  A    *)
(* second search is answered that one is running.                          *)

InVendor == task # NoTask /\ report["task"] = NoReport

Outcomes(m, how) ==
  IF m \in Deferring /\ kept # NoBlock
  THEN IF how = "failed"
       THEN {[kind |-> "report", payload |-> "nullLong", error |-> TRUE]}
       ELSE {}
  ELSE IF how = "done" THEN OutcomesOf[m].done ELSE OutcomesOf[m].failed

Report(a, module, payload, error) ==
  [NoReport EXCEPT !.block = a, !.step = "check", !.module = module,
                   !.payload = payload, !.error = error]

(* It reports, or comes back without a report and leaves the record, kept  *)
(* or not.                                                                 *)
ComesBack(o, m, a) ==
  CASE o.kind = "report" ->
         /\ report' = [report EXCEPT !["task"] =
                         Report(a, ReportsToOf[m], o.payload, o.error)]
         /\ UNCHANGED <<task, kept>>
    [] o.kind = "silent" -> task' = NoTask /\ UNCHANGED <<report, kept>>
    [] o.kind = "deferred" ->
         task' = NoTask /\ kept' = a /\ UNCHANGED report

Operate ==
  /\ InVendor
  /\ LET s == task.serial  m == asked[task.serial] IN
     \E how \in {"done", "failed"} : \E o \in Outcomes(m, how) :
       /\ m \in Deferring => report["reader"] = NoReport
       /\ exchange' = [exchange EXCEPT ![s] =
                         IF o.kind = "silent" THEN "silent" ELSE how]
       /\ ComesBack(o, m, task.block)
  /\ UNCHANGED <<destroyed, clientVars, recordVars, asked, answers, notice,
                 raced>>

(* The reader has the list of networks, or the alarm goes off: each copies *)
(* the ReportInfo, reports, and only then sets requestInfo to null.        *)
TakeKept(p) ==
  /\ p \in {"reader", "alarm"}
  /\ kept # NoBlock
  /\ report[p] = NoReport
  /\ p = "reader" => ~(InVendor /\ asked[task.serial] \in Deferring)
  /\ \E payload \in {"fits", "none"} :
       /\ payload = "fits" => p = "reader"
       /\ report' = [report EXCEPT ![p] =
                       Report(kept, "Network", payload, payload = "none")]
  /\ raced' = (raced \/ \E q \in Reporters \ {p} : report[q].block = kept)
  /\ UNCHANGED <<destroyed, clientVars, taskVars, recordVars, kept, answers,
                 notice>>

-----------------------------------------------------------------------------
(* The report.                                                             *)

(* Faulty: the kept pointer stays.                                         *)
EndsKept(p) ==
  /\ report' = [report EXCEPT ![p] = NoReport]
  /\ task' = IF p = "task" THEN NoTask ELSE task
  /\ kept' = kept

(* When the thread is through with it: the task returns, the others set    *)
(* the kept pointer to null.                                               *)
Ends(p) ==
  /\ report' = [report EXCEPT ![p] = NoReport]
  /\ task' = IF p = "task" THEN NoTask ELSE task
  /\ kept' = IF p = "task" THEN kept ELSE NoBlock

(* IsHrilManagerValid, then ReportResponse reads the record.  What is left *)
(* of a freed record is what was in it, or nothing that means anything.    *)
ReadRecord(p) ==
  /\ report[p].step = "check"
  /\ \/ /\ destroyed
        /\ Ends(p)
     \/ /\ ~destroyed
        /\ LET b == heap[report[p].block] IN
           \E code \in {b.code} \union (IF b.live THEN {} ELSE {NoCode}) :
             report' = [report EXCEPT ![p].step = "release", ![p].code = code,
                          ![p].serial = IF code = NoCode THEN NoSerial
                                        ELSE b.serial]
        /\ UNCHANGED <<task, kept>>
  /\ UNCHANGED <<destroyed, clientVars, asked, exchange, recordVars, answers,
                 notice, raced>>

(* Faulty: nothing is released.                                            *)
ReleaseNothing(code, a) == UNCHANGED recordVars

(* Faulty: the record is freed whether it is listed or not.                *)
ReleaseUnlisted(code, a) ==
  /\ heap' = [heap EXCEPT ![a].live = FALSE]
  /\ requestList' = requestList \ {<<code, a>>}

(* Frees what is listed under the code.                                    *)
ReleaseHRilRequest(code, a) ==
  IF <<code, a>> \in requestList
  THEN /\ heap' = [heap EXCEPT ![a].live = FALSE]
       /\ requestList' = requestList \ {<<code, a>>}
  ELSE UNCHANGED recordVars

ReleaseRecord(p) ==
  /\ report[p].step = "release"
  /\ ReleaseHRilRequest(report[p].code, report[p].block)
  /\ report' = [report EXCEPT ![p].step = "answer"]
  /\ UNCHANGED <<destroyed, clientVars, taskVars, kept, answers, notice,
                 raced>>

(* The error the handler passes on.                                        *)
ErrorPassedOn(handler, payload, error) ==
  /\ payload \notin handler.clears
  /\ error \/ payload \in handler.fills

(* ProcessResponse: the handler of the code, if the sub-module has one;    *)
(* Response: the client, if the sub-module has one.                        *)
ProcessResponse(p) ==
  /\ report[p].step = "answer"
  /\ LET r == report[p]  handlers == ResponsesOf[report[p].module] IN
     IF /\ r.code \in DOMAIN handlers
        /\ r.payload \in handlers[r.code].forwards
        /\ callback[r.module]
     THEN Tell(r.serial, ErrorPassedOn(handlers[r.code], r.payload, r.error),
               r.payload)
     ELSE UNCHANGED answers
  /\ Ends(p)
  /\ UNCHANGED <<destroyed, clientVars, asked, exchange, recordVars, notice,
                 raced>>

(* ReportNotification: the running lock first, then the handler.           *)
ReportNotification(module, code, payload) ==
  /\ ~destroyed
  /\ notice' = [code |-> code, locked |-> code \in Locked,
                heard |-> /\ code \in DOMAIN NoticesOf[module]
                          /\ payload \in NoticesOf[module][code]
                          /\ callback[module]]
  /\ UNCHANGED <<destroyed, clientVars, taskVars, recordVars, kept, report,
                 answers, raced>>

-----------------------------------------------------------------------------
(* The client.  SetRilCallback goes from sub-module to sub-module, under   *)
(* the mutex of each in turn and not under dispatchMutex.                  *)

SetRilCallback ==
  /\ registering = Idle
  /\ registrations < MaxRegistrations
  /\ \E client \in BOOLEAN :
       registering' = [left |-> CallbackOrder, client |-> client]
  /\ registrations' = registrations + 1
  /\ UNCHANGED <<destroyed, callback, taskVars, recordVars, kept, report,
                 answers, notice, raced>>

(* When all are set a new client hears the last state of the radio, which  *)
(* is no notification of the vendor library and takes no running lock.     *)
SetNextCallback ==
  /\ registering.left # <<>>
  /\ callback' = [callback EXCEPT ![Head(registering.left)] =
                    registering.client]
  /\ LET last == Len(registering.left) = 1 IN
     /\ registering' = IF last THEN Idle
                       ELSE [registering EXCEPT !.left = Tail(@)]
     /\ notice' = IF last /\ registering.client
                  THEN [code |-> LastRadioState, locked |-> FALSE,
                        heard |-> TRUE]
                  ELSE notice
  /\ UNCHANGED <<destroyed, registrations, taskVars, recordVars, kept, report,
                 answers, raced>>

(* Faulty: the flag is set without dispatchMutex.                          *)
DestroyUnlocked ==
  /\ ~destroyed
  /\ destroyed' = TRUE
  /\ UNCHANGED <<clientVars, taskVars, recordVars, kept, report, answers,
                 notice, raced>>

SetHrilManagerDestroy ==
  /\ ~destroyed
  /\ task = NoTask
  /\ destroyed' = TRUE
  /\ UNCHANGED <<clientVars, taskVars, recordVars, kept, report, answers,
                 notice, raced>>

Call(s, m) ==
  Refuse(s, m) \/ NotImplemented(s, m) \/ CreateHRilRequest(s, m)

ReportStep(p) == ReadRecord(p) \/ ReleaseRecord(p) \/ ProcessResponse(p)

Next ==
  \/ \E s \in Serials, m \in Methods : Call(s, m)
  \/ Operate
  \/ \E p \in Reporters : TakeKept(p) \/ ReportStep(p)
  \/ \E module \in SubModules, payload \in NoticePayloads :
       \E code \in NoticeIds[module] : ReportNotification(module, code, payload)
  \/ SetRilCallback \/ SetNextCallback
  \/ SetHrilManagerDestroy

(* Threads run: an operation returns (its exchange has a timeout), and a   *)
(* report that has begun goes on to its end.                               *)
Fairness == WF_vars(Operate) /\ \A p \in Reporters : WF_vars(ReportStep(p))

Spec == Init /\ [][Next]_vars /\ Fairness

-----------------------------------------------------------------------------
(* Properties.                                                             *)

(* Types, and what belongs together: a task has a request and a record.    *)
TypeOK ==
  /\ destroyed \in BOOLEAN /\ raced \in BOOLEAN
  /\ callback \in [SubModules -> BOOLEAN]
  /\ registering.left \in Seq(SubModules) /\ registering.client \in BOOLEAN
  /\ registrations \in 0..MaxRegistrations
  /\ task \in {NoTask} \union [serial : Serials, block : Blocks]
  /\ heap \in [Blocks -> [live : BOOLEAN, code : Codes \union {NoCode},
                          serial : Serials \union {NoSerial}]]
  /\ requestList \subseteq Codes \X Blocks
  /\ kept \in Blocks \union {NoBlock}
  /\ \A p \in Reporters :
       /\ report[p].block \in Blocks \union {NoBlock}
       /\ report[p].step \in {"none", "check", "release", "answer"}
       /\ report[p].serial \in Serials \union {NoSerial}
  /\ asked \in [Serials -> Methods \union {NoMethod}]
  /\ exchange \in [Serials -> {"none", "refused", "silent", "done", "failed"}]
  /\ \A s \in Serials : answers[s] \in Seq([error : BOOLEAN,
                                            payload : Payload])

(* requestList_ holds exactly the records that have not been freed, each   *)
(* under its own code, also when two threads report on the same record:    *)
(* CreateHRilRequest and ReleaseHRilRequest keep them together.            *)
ListIsHeap ==
  requestList = {<<heap[a].code, a>> : a \in {b \in Blocks : Live(b)}}

(* A client is told of a request at most once, as long as the reader and   *)
(* the alarm handler have not met over a search (at_network.c:664).        *)
AnsweredOnce == raced \/ \A s \in Serials : Len(answers[s]) <= 1

(* A record that nobody will report on any more belongs to a request the   *)
(* vendor library returned from without a report; any other is freed by    *)
(* its report (ReleaseHRilRequest), unless the manager was destroyed or a  *)
(* second report has taken the place of the first.                         *)
LeaksAreSilent ==
  \A a \in Blocks :
    Live(a) => \/ a \in {task.block, kept}
               \/ \E p \in Reporters : report[p].block = a
               \/ exchange[heap[a].serial] = "silent"
               \/ destroyed \/ raced

(* The manager is never destroyed under a call: SetHrilManagerDestroy      *)
(* waits for dispatchMutex, and TaskSchedule looks at the flag under it.   *)
DestroyWaitsForTheTask == destroyed => task = NoTask

(* What a request looks like to the client, from the records.              *)
Open(s) == \E a \in Blocks : Live(a) /\ heap[a].serial = s
Withdrawn(s) ==
  \E p \in Reporters : report[p].step = "answer" /\ report[p].serial = s
StatusOf(s) == CASE asked[s] = NoMethod -> "unasked"
                 [] Open(s) -> "open"
                 [] Withdrawn(s) /\ ~Open(s) -> "withdrawn"
                 [] OTHER -> "settled"

Ledger == INSTANCE RequestLedger
            WITH status <- [s \in Serials |-> StatusOf(s)],
                 told <- [s \in Serials |-> Len(answers[s])],
                 fault <- raced

(* The bookkeeping of records and reports implements the promise made to   *)
(* the client: open, withdrawn once, and settled with at most one answer.  *)
ImplementsLedger == Ledger!Spec

(* A request that is open is settled, unless the operation returned        *)
(* without a report, left the record to be reported on later, or the       *)
(* manager was destroyed: dispatchMutex is not held for ever.              *)
RequestsSettle ==
  \A s \in Serials :
    (StatusOf(s) = "open") ~>
      \/ StatusOf(s) = "settled" \/ exchange[s] = "silent"
      \/ asked[s] \in Deferring \/ destroyed
=============================================================================
