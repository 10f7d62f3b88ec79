------------------------- MODULE HrilAnswersProofs --------------------------
(***************************************************************************)
(* Proofs about HrilAnswers: for any tables, what a request is told, or    *)
(* not told, follows from its own method and the end of its own exchange   *)
(* with the modem; so what the tables say of a request that is alone holds *)
(* of all of them.  The invariant says where each report on a record and   *)
(* each answer has come from, until reader and alarm handler meet.         *)
(***************************************************************************)
EXTENDS HrilAnswers, HrilDispatchProofs

Ended(s) == exchange[s] \in {"done", "failed"}
Reported(p) == [module |-> report[p].module, payload |-> report[p].payload,
                error |-> report[p].error]
IsOf(p, s) == Ended(s) /\ Reported(p) \in Reportable(asked[s], exchange[s])
Fell(s) == \E how \in {"done", "failed"} :
             \E o \in OperationOutcomes(asked[s], how) : o.kind = "silent"

(* Where a record, the report on it and the end of the exchange come from: *)
(* a request that was asked, the operation of its method, and the search   *)
(* that has kept the record.                                               *)
Sources ==
  /\ \A s \in Serials : asked[s] = NoMethod => exchange[s] = "none"
  /\ \A s \in Serials : exchange[s] = "silent" => Fell(s)
  /\ \A a \in Blocks : Live(a) =>
       heap[a].code = RequestOf[asked[heap[a].serial]].code
  /\ KeptOwns => /\ asked[heap[kept].serial] \in Deferring
                 /\ exchange[heap[kept].serial] = "done"
  /\ \A p \in Reporters : report[p].step \in {"check", "release"} =>
       IsOf(p, heap[report[p].block].serial)
  /\ \A p \in Reporters : report[p].step = "answer" =>
       /\ IsOf(p, report[p].serial)
       /\ report[p].code = RequestOf[asked[report[p].serial]].code

(* What the client was told of a request whose exchange has ended is what  *)
(* the handler of its code makes of a report of its operation; and if the  *)
(* request is settled and nothing was told, the handler drops one.         *)
AnswersAreTheirOwn ==
  \A s \in Serials : Ended(s) => \A i \in 1..Len(answers[s]) :
    \E r \in Reportable(asked[s], exchange[s]) :
      Forwarded(asked[s], r) /\ answers[s][i] = AnswerTo(asked[s], r)

UnheardAreDropped ==
  \A s \in Serials :
    Ended(s) /\ StatusOf(s) = "settled" /\ answers[s] = <<>> =>
      \E r \in Reportable(asked[s], exchange[s]) : ~Forwarded(asked[s], r)

AnswersInv == Inv /\ (~raced => Sources /\ AnswersAreTheirOwn)

-----------------------------------------------------------------------------
(* The record that a report is about. *)

LEMMA ReportedRecord ==
  ASSUME Inv, ~raced, NEW p \in Reporters,
         report[p].step \in {"check", "release"}
  PROVE  LET a == report[p].block IN
         /\ a \in Blocks /\ Live(a)
         /\ heap[a].serial \in Serials /\ answers[heap[a].serial] = <<>>
         /\ asked[heap[a].serial] \in Methods
         /\ p = "task" => TaskOwns /\ a = task.block
         /\ p # "task" => KeptOwns /\ a = kept
<1> DEFINE a == report[p].block
<1>1. /\ Types /\ Reports /\ Ownership /\ OneOfEach /\ Busy(p)
      /\ Outside = {"reader", "alarm"} /\ Reporters = Outside \union {"task"}
  BY DEF Inv, Busy, Outside, Reporters
<1>2. a \in Blocks
  BY <1>1 DEF Reports
<1>3. /\ Live(a)
      /\ p = "task" => TaskOwns /\ a = task.block
      /\ p # "task" => KeptOwns /\ a = kept
  <2>1. CASE p = "task"
    <3>1. TaskOwns /\ a = task.block
      BY <1>1, <2>1 DEF TaskOwns, Reports
    <3> QED BY <1>1, <2>1, <3>1 DEF Ownership
  <2>2. CASE p \in Outside
    <3>1. a = kept /\ kept # NoBlock /\ \A q \in Outside : q # p => ~Busy(q)
      BY <1>1, <2>2 DEF Ownership
    <3>2. KeptOwns
      BY <3>1 DEF KeptOwns, Busy
    <3>3. p # "task"
      BY <2>2 DEF Outside
    <3> QED BY <1>1, <3>1, <3>2, <3>3 DEF Ownership
  <2> QED BY <1>1, <2>1, <2>2
<1> HIDE DEF a
<1>4. heap[a].serial \in Serials /\ asked[heap[a].serial] # NoMethod
  BY <1>1, <1>2, <1>3 DEF Reports
<1>5. asked[heap[a].serial] \in Methods
  BY <1>1, <1>4 DEF Types
<1>6. answers[heap[a].serial] = <<>>
  BY <1>1, <1>2, <1>3 DEF OneOfEach
<1> QED BY <1>2, <1>3, <1>4, <1>5, <1>6 DEF a

(* A record that lives is kept, or belongs to the task, or to neither; the *)
(* kept one belongs to a request.                                          *)
LEMMA KeptRecord ==
  ASSUME Inv, ~raced, KeptOwns
  PROVE  /\ kept \in Blocks /\ Live(kept)
         /\ heap[kept].serial \in Serials
<1>1. Types /\ Reports /\ Ownership
  BY DEF Inv
<1> QED BY <1>1 DEF Types, Ownership, KeptOwns, Reports

(* Two records that live are of two requests; and no report has released   *)
(* the record of a request that is still open.                             *)
LEMMA RecordsAreApart ==
  ASSUME Inv, ~raced, NEW a \in Blocks, Live(a)
  PROVE  /\ heap[a].serial \in Serials /\ asked[heap[a].serial] # NoMethod
         /\ answers[heap[a].serial] = <<>>
         /\ Open(heap[a].serial)
         /\ \A b \in Blocks : Live(b) /\ b # a =>
              heap[b].serial # heap[a].serial
         /\ \A p \in Reporters : report[p].step = "answer" =>
              report[p].serial # heap[a].serial
<1>1. Reports /\ OneOfEach
  BY DEF Inv
<1> QED BY <1>1 DEF Reports, OneOfEach, Open

(* Whose report it is does not change while the request and the report do  *)
(* not.                                                                    *)
LEMMA StillIsOf ==
  ASSUME NEW p, NEW t, IsOf(p, t),
         asked'[t] = asked[t], exchange'[t] = exchange[t],
         report'[p].module = report[p].module,
         report'[p].payload = report[p].payload,
         report'[p].error = report[p].error
  PROVE  IsOf(p, t)'
<1>1. Reported(p)' = Reported(p) /\ Ended(t)
  BY DEF Reported, IsOf
<1>2. Reportable(asked'[t], exchange'[t]) = Reportable(asked[t], exchange[t])
  OBVIOUS
<1>3. Ended(t)'
  BY <1>1 DEF Ended
<1> QED BY <1>1, <1>2, <1>3 DEF IsOf

(* What is left alone when neither the requests nor the answers change.    *)
LEMMA AnswersStand ==
  ASSUME AnswersAreTheirOwn, UNCHANGED <<asked, exchange, answers>>
  PROVE  AnswersAreTheirOwn'
BY DEF AnswersAreTheirOwn, Ended

LEMMA InitAnswers == Init => AnswersInv
<1> SUFFICES ASSUME Init PROVE Sources /\ AnswersAreTheirOwn
  BY InitInv DEF AnswersInv
<1>1. Sources
  BY DEF Init, Sources, Live, KeptOwns, NoReport
<1>2. AnswersAreTheirOwn
  BY DEF Init, AnswersAreTheirOwn, Ended
<1> QED BY <1>1, <1>2

-----------------------------------------------------------------------------
(* The call. *)

(* A request that nobody has asked has no record and no report.            *)
LEMMA UnaskedHasNothing ==
  ASSUME Inv, ~raced, NEW s \in Serials, asked[s] = NoMethod
  PROVE  /\ \A a \in Blocks : Live(a) => heap[a].serial # s
         /\ \A p \in Reporters : report[p].step = "answer" =>
              report[p].serial # s
         /\ answers[s] = <<>>
<1>1. Reports /\ OneOfEach
  BY DEF Inv
<1> QED BY <1>1 DEF Reports, OneOfEach

LEMMA RefusalKeepsAnswers ==
  ASSUME Inv, ~raced, Sources, AnswersAreTheirOwn,
         NEW s \in Serials, NEW m \in Methods,
         Refuse(s, m) \/ NotImplemented(s, m)
  PROVE  Sources' /\ AnswersAreTheirOwn'
<1>1. /\ asked[s] = NoMethod /\ asked' = [asked EXCEPT ![s] = m]
      /\ exchange' = [exchange EXCEPT ![s] = "refused"]
      /\ answers' = answers \/ Tell(s, TRUE, "none")
      /\ UNCHANGED <<heap, kept, report>>
  BY DEF Refuse, NotImplemented, Called, Refused, recordVars
<1>2. Types
  BY DEF Inv
<1>3. /\ asked'[s] = m /\ m # NoMethod /\ exchange'[s] = "refused"
      /\ \A t \in Serials : t # s => /\ asked'[t] = asked[t]
                                     /\ exchange'[t] = exchange[t]
                                     /\ answers'[t] = answers[t]
  <2>1. m # NoMethod
    BY NamesAssumption
  <2> QED BY <1>1, <1>2, <2>1 DEF Types, Tell
<1>4. Sources'
  <2>1. /\ \A t \in Serials : asked'[t] = NoMethod => exchange'[t] = "none"
        /\ \A t \in Serials : exchange'[t] = "silent" => Fell(t)'
    BY <1>3 DEF Sources, Fell
  <2>2. \A a \in Blocks : Live(a)' =>
          heap'[a].code = RequestOf[asked'[heap'[a].serial]].code
    <3> SUFFICES ASSUME NEW a \in Blocks, Live(a)
                 PROVE  heap[a].code = RequestOf[asked'[heap[a].serial]].code
      BY <1>1 DEF Live
    <3>1. heap[a].serial # s /\ heap[a].serial \in Serials
      BY <1>1, UnaskedHasNothing, RecordsAreApart
    <3> QED BY <1>3, <3>1 DEF Sources
  <2>3. KeptOwns' => /\ asked'[heap'[kept'].serial] \in Deferring
                     /\ exchange'[heap'[kept'].serial] = "done"
    <3> SUFFICES ASSUME KeptOwns
                 PROVE  /\ asked'[heap[kept].serial] \in Deferring
                        /\ exchange'[heap[kept].serial] = "done"
      BY <1>1 DEF KeptOwns
    <3>1. heap[kept].serial # s /\ heap[kept].serial \in Serials
      BY <1>1, UnaskedHasNothing, KeptRecord
    <3> QED BY <1>3, <3>1 DEF Sources
  <2>4. \A p \in Reporters : report'[p].step \in {"check", "release"} =>
          IsOf(p, heap[report[p].block].serial)'
    <3> SUFFICES ASSUME NEW p \in Reporters,
                        report[p].step \in {"check", "release"}
                 PROVE  IsOf(p, heap[report[p].block].serial)'
      BY <1>1
    <3>1. PICK t \in Serials : t # s /\ t = heap[report[p].block].serial
      BY <1>1, UnaskedHasNothing, ReportedRecord
    <3>2. IsOf(p, t)
      BY <3>1 DEF Sources
    <3>3. IsOf(p, t)'
      BY <1>1, <1>3, <3>1, <3>2, StillIsOf
    <3> QED BY <1>1, <3>1, <3>3 DEF IsOf, Ended
  <2>5. \A p \in Reporters : report'[p].step = "answer" =>
          /\ IsOf(p, report[p].serial)'
          /\ report'[p].code = RequestOf[asked'[report'[p].serial]].code
    <3> SUFFICES ASSUME NEW p \in Reporters, report[p].step = "answer"
                 PROVE  /\ IsOf(p, report[p].serial)'
                        /\ report[p].code =
                             RequestOf[asked'[report[p].serial]].code
      BY <1>1
    <3>1. PICK t \in Serials : t # s /\ t = report[p].serial
      BY <1>1, UnaskedHasNothing DEF Inv, OneOfEach
    <3>2. IsOf(p, t) /\ report[p].code = RequestOf[asked[t]].code
      BY <3>1 DEF Sources
    <3>3. IsOf(p, t)'
      BY <1>1, <1>3, <3>1, <3>2, StillIsOf
    <3> QED BY <1>1, <1>3, <3>1, <3>2, <3>3 DEF IsOf, Ended
  <2> QED BY <2>1, <2>2, <2>3, <2>4, <2>5 DEF Sources
<1>5. AnswersAreTheirOwn'
  BY <1>3 DEF AnswersAreTheirOwn, Ended
<1> QED BY <1>4, <1>5

LEMMA CreateKeepsAnswers ==
  ASSUME Inv, ~raced, Sources, AnswersAreTheirOwn,
         NEW s \in Serials, NEW m \in Methods, CreateHRilRequest(s, m)
  PROVE  Sources' /\ AnswersAreTheirOwn'
<1>1. PICK a \in Blocks :
        /\ ~Live(a)
        /\ heap' = [heap EXCEPT ![a] = [live |-> TRUE, serial |-> s,
                                        code |-> RequestOf[m].code]]
  BY DEF CreateHRilRequest
<1>2. /\ asked[s] = NoMethod /\ asked' = [asked EXCEPT ![s] = m]
      /\ UNCHANGED <<exchange, kept, report, answers>>
  BY DEF CreateHRilRequest, Called
<1>3. Types
  BY DEF Inv
<1>4. /\ asked'[s] = m /\ m # NoMethod /\ exchange[s] = "none"
      /\ \A t \in Serials : t # s => asked'[t] = asked[t]
  <2>1. m # NoMethod
    BY NamesAssumption
  <2> QED BY <1>2, <1>3, <2>1 DEF Types, Sources
<1>5. /\ heap'[a].serial = s /\ heap'[a].code = RequestOf[m].code
      /\ \A b \in Blocks : b # a => heap'[b] = heap[b]
  BY <1>1, <1>3 DEF Types
<1>6. Sources'
  <2>1. /\ \A t \in Serials : asked'[t] = NoMethod => exchange'[t] = "none"
        /\ \A t \in Serials : exchange'[t] = "silent" => Fell(t)'
    BY <1>2, <1>4 DEF Sources, Fell
  <2>2. \A b \in Blocks : Live(b)' =>
          heap'[b].code = RequestOf[asked'[heap'[b].serial]].code
    <3> SUFFICES ASSUME NEW b \in Blocks, Live(b)', b # a
                 PROVE  heap'[b].code = RequestOf[asked'[heap'[b].serial]].code
      BY <1>4, <1>5
    <3>1. heap'[b] = heap[b] /\ Live(b)
      BY <1>5 DEF Live
    <3>2. heap[b].serial # s /\ heap[b].serial \in Serials
      BY <1>2, <3>1, UnaskedHasNothing, RecordsAreApart
    <3> QED BY <1>4, <3>1, <3>2 DEF Sources
  <2>3. KeptOwns' => /\ asked'[heap'[kept'].serial] \in Deferring
                     /\ exchange'[heap'[kept'].serial] = "done"
    <3> SUFFICES ASSUME KeptOwns
                 PROVE  /\ asked'[heap'[kept].serial] \in Deferring
                        /\ exchange[heap'[kept].serial] = "done"
      BY <1>2 DEF KeptOwns
    <3>1. heap[kept].serial # s /\ heap[kept].serial \in Serials
      BY <1>2, UnaskedHasNothing, KeptRecord
    <3>2. heap'[kept] = heap[kept]
      BY <1>1, <1>5, KeptRecord
    <3> QED BY <1>4, <3>1, <3>2 DEF Sources
  <2>4. \A p \in Reporters : report'[p].step \in {"check", "release"} =>
          IsOf(p, heap[report[p].block].serial)'
    <3> SUFFICES ASSUME NEW p \in Reporters,
                        report[p].step \in {"check", "release"}
                 PROVE  IsOf(p, heap[report[p].block].serial)'
      BY <1>2
    <3>1. PICK t \in Serials : t # s /\ t = heap[report[p].block].serial
      BY <1>2, UnaskedHasNothing, ReportedRecord
    <3>2. heap'[report[p].block] = heap[report[p].block]
      BY <1>1, <1>5, ReportedRecord
    <3>3. IsOf(p, t)
      BY <3>1 DEF Sources
    <3>4. IsOf(p, t)'
      BY <1>2, <1>4, <3>1, <3>3, StillIsOf
    <3> QED BY <1>2, <3>1, <3>2, <3>4 DEF IsOf, Ended
  <2>5. \A p \in Reporters : report'[p].step = "answer" =>
          /\ IsOf(p, report[p].serial)'
          /\ report'[p].code = RequestOf[asked'[report'[p].serial]].code
    <3> SUFFICES ASSUME NEW p \in Reporters, report[p].step = "answer"
                 PROVE  /\ IsOf(p, report[p].serial)'
                        /\ report[p].code =
                             RequestOf[asked'[report[p].serial]].code
      BY <1>2
    <3>1. PICK t \in Serials : t # s /\ t = report[p].serial
      BY <1>2, UnaskedHasNothing DEF Inv, OneOfEach
    <3>2. IsOf(p, t) /\ report[p].code = RequestOf[asked[t]].code
      BY <3>1 DEF Sources
    <3>3. IsOf(p, t)'
      BY <1>2, <1>4, <3>1, <3>2, StillIsOf
    <3> QED BY <1>2, <1>4, <3>1, <3>2, <3>3 DEF IsOf, Ended
  <2> QED BY <2>1, <2>2, <2>3, <2>4, <2>5 DEF Sources
<1>7. AnswersAreTheirOwn'
  BY <1>2, <1>4 DEF AnswersAreTheirOwn, Ended
<1> QED BY <1>6, <1>7

-----------------------------------------------------------------------------
(* The operation, and the reports of a search. *)

(* What an operation may come to is in its table, or says that a search is *)
(* already running.                                                        *)
LEMMA OutcomesAreReportable ==
  ASSUME NEW m \in Methods, NEW how \in {"done", "failed"},
         NEW o \in Outcomes(m, how)
  PROVE  /\ o.kind = "report" =>
              [module |-> ReportsToOf[m], payload |-> o.payload,
               error |-> o.error] \in Reportable(m, how)
         /\ o.kind = "silent" =>
              \E x \in OperationOutcomes(m, how) : x.kind = "silent"
         /\ o.kind = "deferred" => m \in Deferring /\ how = "done"
<1>1. CASE m \in Deferring /\ kept # NoBlock
  <2>1. /\ how = "failed"
        /\ o = [kind |-> "report", payload |-> "nullLong", error |-> TRUE]
    BY <1>1 DEF Outcomes
  <2>2. [module |-> ReportsToOf[m], payload |-> o.payload,
         error |-> o.error] \in SearchRefusal(m)
    BY <2>1 DEF SearchRefusal
  <2>3. SearchRefusal(m) \subseteq Reportable(m, how)
    BY <1>1, <2>1 DEF Reportable
  <2> QED BY <2>1, <2>2, <2>3
<1>2. CASE ~(m \in Deferring /\ kept # NoBlock)
  <2>1. o \in OperationOutcomes(m, how)
    BY <1>2 DEF Outcomes, OperationOutcomes
  <2>2. o.kind = "report" =>
          [module |-> ReportsToOf[m], payload |-> o.payload,
           error |-> o.error] \in OperationReports(m, how)
    BY <2>1 DEF OperationReports
  <2>3. OperationReports(m, how) \subseteq Reportable(m, how)
    BY DEF Reportable
  <2>4. o.kind = "deferred" => m \in Deferring /\ how = "done"
    BY <2>1, TablesAssumption DEF Deferring, OperationOutcomes
  <2> QED BY <2>1, <2>2, <2>3, <2>4
<1> QED BY <1>1, <1>2

LEMMA OperateKeepsAnswers ==
  ASSUME Inv, ~raced, Sources, AnswersAreTheirOwn, Operate
  PROVE  Sources' /\ AnswersAreTheirOwn'
<1>1. PICK s \in Serials, a \in Blocks, m \in Methods :
        s = task.serial /\ a = task.block /\ m = asked[s]
  <2>1. task \in [serial : Serials, block : Blocks]
    BY DEF Inv, Types, Operate, InVendor
  <2>2. asked[task.serial] \in Methods
    BY <2>1 DEF Inv, Types, Reports, Operate, InVendor
  <2> QED BY <2>1, <2>2
<1>2. /\ task # NoTask /\ report["task"] = NoReport
      /\ UNCHANGED <<heap, asked, answers>>
      /\ "task" \in Reporters
  BY DEF Operate, InVendor, recordVars, Reporters
<1>3. PICK how \in {"done", "failed"} : \E o \in Outcomes(m, how) :
        /\ exchange' = [exchange EXCEPT ![s] =
                          IF o.kind = "silent" THEN "silent" ELSE how]
        /\ ComesBack(o, m, a)
  BY <1>1 DEF Operate
<1>4. PICK o \in Outcomes(m, how) :
        /\ exchange' = [exchange EXCEPT ![s] =
                          IF o.kind = "silent" THEN "silent" ELSE how]
        /\ ComesBack(o, m, a)
  BY <1>3
<1>5. Types /\ Ownership
  BY DEF Inv
<1>6. /\ exchange'[s] = IF o.kind = "silent" THEN "silent" ELSE how
      /\ \A t \in Serials : t # s => exchange'[t] = exchange[t]
  BY <1>4, <1>5 DEF Types
<1>7. TaskOwns /\ Live(a) /\ heap[a].serial = s
  <2>1. TaskOwns
    BY <1>2 DEF TaskOwns, NoReport
  <2> QED BY <1>1, <1>5, <2>1 DEF Ownership
<1>8. /\ answers[s] = <<>> /\ asked[s] # NoMethod
      /\ \A b \in Blocks : Live(b) /\ b # a => heap[b].serial # s
      /\ \A p \in Reporters : report[p].step = "answer" =>
           report[p].serial # s
  BY <1>7, RecordsAreApart
<1>9. KeptOwns => kept # a /\ heap[kept].serial \in Serials \ {s}
  BY <1>1, <1>5, <1>7, <1>8, KeptRecord DEF Ownership
<1>10. /\ o.kind \in {"report", "silent", "deferred"}
       /\ o.kind = "report" =>
            [module |-> ReportsToOf[m], payload |-> o.payload,
             error |-> o.error] \in Reportable(m, how)
       /\ o.kind = "silent" => Fell(s)
       /\ o.kind = "deferred" => m \in Deferring /\ how = "done"
  BY <1>1, OutcomeKinds, OutcomesAreReportable DEF Fell
<1> DEFINE r == Report(a, ReportsToOf[m], o.payload, o.error)
<1>11. /\ r.block = a /\ r.step = "check" /\ r.module = ReportsToOf[m]
       /\ r.payload = o.payload /\ r.error = o.error
  BY DEF Report, NoReport
<1>12. /\ o.kind = "report" => report' = [report EXCEPT !["task"] = r]
       /\ o.kind # "report" => report' = report
       /\ o.kind # "deferred" => kept' = kept
       /\ o.kind = "deferred" => kept' = a
  BY <1>4, <1>10 DEF ComesBack
<1> HIDE DEF r
<1>13. /\ o.kind = "report" => report'["task"] = r
       /\ \A p \in Reporters : p # "task" => report'[p] = report[p]
       /\ \A p \in Reporters : report'[p].step = "answer" =>
            report'[p] = report[p]
  BY <1>2, <1>5, <1>11, <1>12 DEF Types
<1>14. Sources'
  <2>1. \A t \in Serials : asked'[t] = NoMethod => exchange'[t] = "none"
    BY <1>2, <1>6, <1>8 DEF Sources
  <2>2. \A t \in Serials : exchange'[t] = "silent" => Fell(t)'
    BY <1>2, <1>6, <1>10 DEF Sources, Fell
  <2>3. \A b \in Blocks : Live(b)' =>
          heap'[b].code = RequestOf[asked'[heap'[b].serial]].code
    BY <1>2 DEF Sources, Live
  <2>4. KeptOwns' => /\ asked'[heap'[kept'].serial] \in Deferring
                     /\ exchange'[heap'[kept'].serial] = "done"
    <3>1. CASE o.kind = "deferred"
      BY <1>1, <1>2, <1>6, <1>7, <1>10, <1>12, <3>1
    <3>2. CASE o.kind # "deferred"
      <4>1. KeptOwns' => KeptOwns
        BY <1>12, <1>13, <3>2 DEF KeptOwns, Outside, Reporters
      <4> QED BY <1>2, <1>6, <1>9, <1>12, <3>2, <4>1 DEF Sources
    <3> QED BY <3>1, <3>2
  <2>5. \A p \in Reporters : report'[p].step \in {"check", "release"} =>
          IsOf(p, heap[report[p].block].serial)'
    <3> SUFFICES ASSUME NEW p \in Reporters,
                        report'[p].step \in {"check", "release"}
                 PROVE  IsOf(p, heap[report[p].block].serial)'
      OBVIOUS
    <3>1. CASE p = "task"
      <4>1. o.kind = "report" /\ report'[p] = r
        BY <1>2, <1>12, <1>13, <3>1 DEF NoReport
      <4>2. asked'[s] = m /\ exchange'[s] = how
        BY <1>1, <1>2, <1>6, <4>1
      <4>3. Reported(p)' = [module |-> ReportsToOf[m], payload |-> o.payload,
                            error |-> o.error]
        BY <1>11, <4>1 DEF Reported
      <4>4. IsOf(p, s)'
        <5>1. Reported(p)' \in Reportable(m, how)
          BY <1>10, <4>1, <4>3
        <5> QED BY <4>2, <5>1 DEF IsOf, Ended
      <4>5. s = heap'[report'[p].block].serial
        BY <1>2, <1>7, <1>11, <4>1
      <4> QED BY <4>4, <4>5 DEF IsOf, Ended
    <3>2. CASE p # "task"
      <4>1. report'[p] = report[p]
        BY <1>13, <3>2
      <4>2. KeptOwns /\ report[p].block = kept
        BY <3>2, <4>1, ReportedRecord
      <4>3. PICK t \in Serials \ {s} : t = heap[report[p].block].serial
        BY <1>9, <4>2
      <4>4. IsOf(p, t)
        BY <4>1, <4>3 DEF Sources
      <4>5. IsOf(p, t)'
        BY <1>2, <1>6, <4>1, <4>3, <4>4, StillIsOf
      <4> QED BY <1>2, <4>1, <4>3, <4>5 DEF IsOf, Ended
    <3> QED BY <3>1, <3>2
  <2>6. \A p \in Reporters : report'[p].step = "answer" =>
          /\ IsOf(p, report[p].serial)'
          /\ report'[p].code = RequestOf[asked'[report'[p].serial]].code
    <3> SUFFICES ASSUME NEW p \in Reporters, report[p].step = "answer",
                        report'[p] = report[p]
                 PROVE  /\ IsOf(p, report[p].serial)'
                        /\ report[p].code =
                             RequestOf[asked'[report[p].serial]].code
      BY <1>13
    <3>1. PICK t \in Serials : t # s /\ t = report[p].serial
      BY <1>8 DEF Inv, OneOfEach
    <3>2. IsOf(p, t) /\ report[p].code = RequestOf[asked[t]].code
      BY <3>1 DEF Sources
    <3>3. IsOf(p, t)'
      BY <1>2, <1>6, <3>1, <3>2, StillIsOf
    <3> QED BY <1>2, <3>1, <3>2, <3>3 DEF IsOf, Ended
  <2> QED BY <2>1, <2>2, <2>3, <2>4, <2>5, <2>6 DEF Sources
<1>15. AnswersAreTheirOwn'
  <2> SUFFICES ASSUME NEW t \in Serials, Ended(t)',
                      NEW i \in 1..Len(answers'[t])
               PROVE  \E x \in Reportable(asked'[t], exchange'[t]) :
                        /\ Forwarded(asked'[t], x)
                        /\ answers'[t][i] = AnswerTo(asked'[t], x)
    BY DEF AnswersAreTheirOwn
  <2>1. t # s
    <3>1. 1..Len(answers'[s]) = {}
      BY <1>2, <1>8
    <3> QED BY <3>1
  <2>2. asked'[t] = asked[t] /\ exchange'[t] = exchange[t]
    BY <1>2, <1>6, <2>1
  <2>3. Ended(t)
    BY <2>2 DEF Ended
  <2> QED BY <1>2, <2>2, <2>3 DEF AnswersAreTheirOwn
<1> QED BY <1>14, <1>15

LEMMA TakeKeptKeepsAnswers ==
  ASSUME Inv, ~raced', Sources, AnswersAreTheirOwn,
         NEW p \in Reporters, TakeKept(p)
  PROVE  Sources' /\ AnswersAreTheirOwn'
<1>1. PICK payload \in {"fits", "none"} :
        report' = [report EXCEPT ![p] =
                     Report(kept, "Network", payload, payload = "none")]
  BY DEF TakeKept
<1>2. /\ p \in Outside /\ kept # NoBlock /\ report[p] = NoReport
      /\ raced' = (raced \/ \E q \in Reporters \ {p} : report[q].block = kept)
      /\ UNCHANGED <<heap, kept, asked, exchange, answers>>
  BY DEF TakeKept, Outside, taskVars, recordVars
<1>3. Types
  BY DEF Inv
<1>4. ~raced /\ \A q \in Reporters \ {p} : report[q].block # kept
  <2>1. raced \in BOOLEAN
    BY <1>3 DEF Types
  <2> QED BY <1>2, <2>1, Zenon
<1>5. KeptOwns
  <2>1. Ownership /\ Outside \subseteq Reporters
    BY <1>4 DEF Inv, Outside, Reporters
  <2>2. \A q \in Outside : q # p => ~Busy(q)
    BY <1>4, <2>1 DEF Ownership
  <2> QED BY <1>2, <2>2 DEF KeptOwns, Busy, NoReport
<1>6. PICK s \in Serials : s = heap[kept].serial
  BY <1>4, <1>5, KeptRecord
<1>7. asked[s] \in Deferring /\ exchange[s] = "done"
  BY <1>5, <1>6 DEF Sources
<1> DEFINE r == Report(kept, "Network", payload, payload = "none")
<1>8. /\ r.block = kept /\ r.step = "check" /\ r.module = "Network"
      /\ r.payload = payload /\ r.error = (payload = "none")
  BY DEF Report, NoReport
<1>9. /\ report'[p] = r
      /\ \A q \in Reporters : q # p => report'[q] = report[q]
  BY <1>1, <1>3 DEF Types
<1> HIDE DEF r
<1>10. IsOf(p, s)'
  <2>1. Reported(p)' \in SearchReports
    <3>1. Reported(p)' = [module |-> "Network", payload |-> payload,
                          error |-> (payload = "none")]
      BY <1>8, <1>9 DEF Reported
    <3> QED BY <1>1, <3>1 DEF SearchReports
  <2>2. SearchReports \subseteq Reportable(asked[s], "done")
    BY <1>7 DEF Reportable
  <2>3. asked'[s] = asked[s] /\ exchange'[s] = "done"
    BY <1>2, <1>7
  <2> QED BY <2>1, <2>2, <2>3 DEF IsOf, Ended
<1>11. Sources'
  <2>1. /\ \A t \in Serials : asked'[t] = NoMethod => exchange'[t] = "none"
        /\ \A t \in Serials : exchange'[t] = "silent" => Fell(t)'
        /\ \A a \in Blocks : Live(a)' =>
             heap'[a].code = RequestOf[asked'[heap'[a].serial]].code
        /\ KeptOwns' => /\ asked'[heap'[kept'].serial] \in Deferring
                        /\ exchange'[heap'[kept'].serial] = "done"
    BY <1>2, <1>5 DEF Sources, Fell, Live
  <2>2. \A q \in Reporters : report'[q].step \in {"check", "release"} =>
          IsOf(q, heap[report[q].block].serial)'
    <3> SUFFICES ASSUME NEW q \in Reporters,
                        report'[q].step \in {"check", "release"}
                 PROVE  IsOf(q, heap[report[q].block].serial)'
      OBVIOUS
    <3>1. CASE q = p
      BY <1>2, <1>6, <1>8, <1>9, <1>10, <3>1 DEF IsOf, Ended
    <3>2. CASE q # p
      BY <1>2, <1>9, <3>2 DEF Sources, IsOf, Ended, Reported
    <3> QED BY <3>1, <3>2
  <2>3. \A q \in Reporters : report'[q].step = "answer" =>
          /\ IsOf(q, report[q].serial)'
          /\ report'[q].code = RequestOf[asked'[report'[q].serial]].code
    <3> SUFFICES ASSUME NEW q \in Reporters, report'[q].step = "answer"
                 PROVE  /\ IsOf(q, report[q].serial)'
                        /\ report'[q].code =
                             RequestOf[asked'[report'[q].serial]].code
      OBVIOUS
    <3>1. report'[q] = report[q]
      BY <1>8, <1>9
    <3> QED BY <1>2, <3>1 DEF Sources, IsOf, Ended, Reported
  <2> QED BY <2>1, <2>2, <2>3 DEF Sources
<1> QED BY <1>2, <1>11, AnswersStand

-----------------------------------------------------------------------------
(* The steps of a report. *)

LEMMA EndsKeepsSources ==
  ASSUME Inv, Sources, NEW p \in Reporters, Busy(p), Ends(p),
         UNCHANGED <<heap, asked, exchange>>
  PROVE  Sources'
<1>1. \A q \in Reporters :
        report'[q].step \in {"check", "release", "answer"} =>
          report'[q] = report[q]
  BY EndsFacts DEF NoReport
<1>2. KeptOwns' => KeptOwns /\ kept' = kept
  <2>1. CASE p = "task"
    <3>1. /\ kept' = kept
          /\ \A q \in Outside : report'[q] = report[q]
      BY <2>1, EndsFacts DEF Outside, Reporters
    <3> QED BY <3>1 DEF KeptOwns
  <2>2. CASE p # "task"
    BY <2>2, EndsFacts DEF KeptOwns
  <2> QED BY <2>1, <2>2
<1>3. /\ \A t \in Serials : asked'[t] = NoMethod => exchange'[t] = "none"
      /\ \A t \in Serials : exchange'[t] = "silent" => Fell(t)'
      /\ \A a \in Blocks : Live(a)' =>
           heap'[a].code = RequestOf[asked'[heap'[a].serial]].code
      /\ KeptOwns' => /\ asked'[heap'[kept'].serial] \in Deferring
                      /\ exchange'[heap'[kept'].serial] = "done"
  BY <1>2 DEF Sources, Fell, Live
<1>4. \A q \in Reporters : report'[q].step \in {"check", "release"} =>
        IsOf(q, heap[report[q].block].serial)'
  BY <1>1 DEF Sources, IsOf, Ended, Reported
<1>5. \A q \in Reporters : report'[q].step = "answer" =>
        /\ IsOf(q, report[q].serial)'
        /\ report'[q].code = RequestOf[asked'[report'[q].serial]].code
  BY <1>1 DEF Sources, IsOf, Ended, Reported
<1> QED BY <1>3, <1>4, <1>5 DEF Sources

LEMMA ReadRecordKeepsAnswers ==
  ASSUME Inv, ~raced, Sources, AnswersAreTheirOwn,
         NEW p \in Reporters, ReadRecord(p)
  PROVE  Sources' /\ AnswersAreTheirOwn'
<1>1. /\ UNCHANGED <<asked, exchange, heap, answers>>
      /\ report[p].step = "check" /\ Busy(p)
  <2>1. UNCHANGED <<asked, exchange, heap, answers>>
    BY Zenon DEF ReadRecord, recordVars
  <2>2. report[p].step = "check"
    BY Zenon DEF ReadRecord
  <2> QED BY <2>1, <2>2 DEF Busy
<1>2. CASE Ends(p)
  BY <1>1, <1>2, EndsKeepsSources, AnswersStand
<1>3. CASE ~Ends(p)
  <2> DEFINE b == heap[report[p].block]
  <2>1. PICK c \in {b.code} \union (IF b.live THEN {} ELSE {NoCode}) :
          report' = [report EXCEPT ![p].step = "release", ![p].code = c,
                       ![p].serial = IF c = NoCode THEN NoSerial
                                     ELSE b.serial]
    BY <1>3, Zenon DEF ReadRecord
  <2>2. UNCHANGED kept
    BY <1>3, Zenon DEF ReadRecord
  <2> HIDE DEF b
  <2> DEFINE r == [report[p] EXCEPT !.step = "release", !.code = c,
                     !.serial = IF c = NoCode THEN NoSerial ELSE b.serial]
  <2>3. report[p] \in ReportRecord /\ Types
    BY DEF Inv, Types
  <2>4. /\ r.step = "release" /\ r.block = report[p].block
        /\ r.module = report[p].module /\ r.payload = report[p].payload
        /\ r.error = report[p].error
    BY <2>3 DEF ReportRecord
  <2>5. report' = [report EXCEPT ![p] = r]
    BY <2>1, <2>3 DEF Types
  <2> HIDE DEF r
  <2>6. /\ report'[p] = r
        /\ \A q \in Reporters : q # p => report'[q] = report[q]
    BY <2>3, <2>5 DEF Types
  <2>7. KeptOwns' => KeptOwns
    <3>1. \A q \in Reporters : report[q].step = "answer" =>
            report'[q].step = "answer"
      BY <1>1, <2>6
    <3> QED BY <2>2, <3>1 DEF KeptOwns, Outside, Reporters
  <2>8. /\ \A t \in Serials : asked'[t] = NoMethod => exchange'[t] = "none"
        /\ \A t \in Serials : exchange'[t] = "silent" => Fell(t)'
        /\ \A a \in Blocks : Live(a)' =>
             heap'[a].code = RequestOf[asked'[heap'[a].serial]].code
        /\ KeptOwns' => /\ asked'[heap'[kept'].serial] \in Deferring
                        /\ exchange'[heap'[kept'].serial] = "done"
    BY <1>1, <2>2, <2>7 DEF Sources, Fell, Live
  <2>9. \A q \in Reporters : report'[q].step \in {"check", "release"} =>
          IsOf(q, heap[report[q].block].serial)'
    <3> SUFFICES ASSUME NEW q \in Reporters,
                        report'[q].step \in {"check", "release"}
                 PROVE  IsOf(q, heap[report[q].block].serial)'
      OBVIOUS
    <3>1. /\ report[q].step \in {"check", "release"}
          /\ report'[q].block = report[q].block
          /\ report'[q].module = report[q].module
          /\ report'[q].payload = report[q].payload
          /\ report'[q].error = report[q].error
      BY <1>1, <2>4, <2>6
    <3> QED BY <1>1, <3>1 DEF Sources, IsOf, Ended, Reported
  <2>10. \A q \in Reporters : report'[q].step = "answer" =>
           /\ IsOf(q, report[q].serial)'
           /\ report'[q].code = RequestOf[asked'[report'[q].serial]].code
    <3> SUFFICES ASSUME NEW q \in Reporters, report'[q].step = "answer"
                 PROVE  /\ IsOf(q, report[q].serial)'
                        /\ report'[q].code =
                             RequestOf[asked'[report'[q].serial]].code
      OBVIOUS
    <3>1. report'[q] = report[q]
      BY <2>4, <2>6
    <3> QED BY <1>1, <3>1 DEF Sources, IsOf, Ended, Reported
  <2>11. Sources'
    BY <2>8, <2>9, <2>10 DEF Sources
  <2> QED BY <1>1, <2>11, AnswersStand
<1> QED BY <1>2, <1>3

LEMMA ReleaseRecordKeepsAnswers ==
  ASSUME Inv, ~raced, Sources, AnswersAreTheirOwn,
         NEW p \in Reporters, ReleaseRecord(p)
  PROVE  Sources' /\ AnswersAreTheirOwn'
<1>1. /\ report[p].step = "release"
      /\ ReleaseHRilRequest(report[p].code, report[p].block)
      /\ report' = [report EXCEPT ![p].step = "answer"]
      /\ UNCHANGED <<asked, exchange, kept, answers>>
  BY DEF ReleaseRecord, taskVars
<1>2. Types /\ Ownership /\ report[p] \in ReportRecord
  BY DEF Inv, Types
<1>3. PICK a \in Blocks, s \in Serials :
        /\ a = report[p].block /\ s = heap[a].serial /\ Live(a)
        /\ s = report[p].serial /\ heap[a].code = report[p].code
  BY <1>1, <1>2, ReportedRecord DEF Ownership
<1> DEFINE r == [report[p] EXCEPT !.step = "answer"]
<1>4. /\ r.step = "answer" /\ r.block = a /\ r.serial = s
      /\ r.module = report[p].module /\ r.payload = report[p].payload
      /\ r.error = report[p].error /\ r.code = heap[a].code
  BY <1>2, <1>3 DEF ReportRecord
<1>5. report' = [report EXCEPT ![p] = r]
  BY <1>1, <1>2 DEF Types
<1> HIDE DEF r
<1>6. /\ report'[p] = r
      /\ \A q \in Reporters : q # p => report'[q] = report[q]
  BY <1>2, <1>5 DEF Types
<1>7. \A b \in Blocks : /\ heap'[b].code = heap[b].code
                        /\ heap'[b].serial = heap[b].serial
                        /\ Live(b)' => Live(b)
  <2>1. heap' = heap \/ heap' = [heap EXCEPT ![a].live = FALSE]
    BY <1>1, <1>3 DEF ReleaseHRilRequest, recordVars
  <2>2. heap[a] \in [live : BOOLEAN, code : Codes \union {NoCode},
                     serial : Serials \union {NoSerial}]
    BY <1>2 DEF Types
  <2> DEFINE h == [heap[a] EXCEPT !.live = FALSE]
  <2>3. h.live = FALSE /\ h.code = heap[a].code /\ h.serial = heap[a].serial
    BY <2>2
  <2>4. heap' = heap \/ heap' = [heap EXCEPT ![a] = h]
    BY <1>2, <2>1 DEF Types
  <2> HIDE DEF h
  <2> QED BY <1>2, <2>3, <2>4 DEF Types, Live
<1>8. KeptOwns' => KeptOwns
  BY <1>1, <1>4, <1>6 DEF KeptOwns, Outside, Reporters
<1>9. IsOf(p, s) /\ heap[a].code = RequestOf[asked[s]].code
  BY <1>1, <1>3 DEF Sources
<1>10. Sources'
  <2>1. /\ \A t \in Serials : asked'[t] = NoMethod => exchange'[t] = "none"
        /\ \A t \in Serials : exchange'[t] = "silent" => Fell(t)'
        /\ \A b \in Blocks : Live(b)' =>
             heap'[b].code = RequestOf[asked'[heap'[b].serial]].code
    BY <1>1, <1>7 DEF Sources, Fell
  <2>2. KeptOwns' => /\ asked'[heap'[kept'].serial] \in Deferring
                     /\ exchange'[heap'[kept'].serial] = "done"
    <3> SUFFICES ASSUME KeptOwns
                 PROVE  /\ asked[heap'[kept].serial] \in Deferring
                        /\ exchange[heap'[kept].serial] = "done"
      BY <1>1, <1>8
    <3>1. heap'[kept].serial = heap[kept].serial
      BY <1>7, KeptRecord
    <3> QED BY <3>1 DEF Sources
  <2>3. \A q \in Reporters : report'[q].step \in {"check", "release"} =>
          IsOf(q, heap[report[q].block].serial)'
    <3> SUFFICES ASSUME NEW q \in Reporters,
                        report'[q].step \in {"check", "release"}
                 PROVE  IsOf(q, heap[report[q].block].serial)'
      OBVIOUS
    <3>1. q # p /\ report'[q] = report[q]
      BY <1>4, <1>6
    <3>2. PICK t \in Serials : t = heap[report[q].block].serial
      BY <3>1, ReportedRecord
    <3>3. heap'[report'[q].block].serial = t
      BY <1>7, <3>1, <3>2, ReportedRecord
    <3>4. IsOf(q, t)
      BY <3>1, <3>2 DEF Sources
    <3>5. IsOf(q, t)'
      BY <1>1, <3>1, <3>4, StillIsOf
    <3> QED BY <3>3, <3>5 DEF IsOf, Ended
  <2>4. \A q \in Reporters : report'[q].step = "answer" =>
          /\ IsOf(q, report[q].serial)'
          /\ report'[q].code = RequestOf[asked'[report'[q].serial]].code
    <3> SUFFICES ASSUME NEW q \in Reporters, report'[q].step = "answer"
                 PROVE  /\ IsOf(q, report[q].serial)'
                        /\ report'[q].code =
                             RequestOf[asked'[report'[q].serial]].code
      OBVIOUS
    <3>1. CASE q = p
      <4>1. IsOf(p, s)'
        BY <1>1, <1>4, <1>6, <1>9, StillIsOf
      <4> QED BY <1>1, <1>4, <1>6, <1>9, <3>1, <4>1 DEF IsOf, Ended
    <3>2. CASE q # p
      <4>1. report'[q] = report[q]
        BY <1>6, <3>2
      <4> QED BY <1>1, <4>1 DEF Sources, IsOf, Ended, Reported
    <3> QED BY <3>1, <3>2
  <2> QED BY <2>1, <2>2, <2>3, <2>4 DEF Sources
<1> QED BY <1>1, <1>10, AnswersStand

(* What is told is what the handler makes of the report, told to its own   *)
(* request.                                                                *)
LEMMA ResponseTells ==
  ASSUME Inv, ~raced, Sources, NEW p \in Reporters, ProcessResponse(p)
  PROVE  \E s \in Serials :
           /\ s = report[p].serial /\ IsOf(p, s) /\ answers[s] = <<>>
           /\ \A t \in Serials : t # s => answers'[t] = answers[t]
           /\ IF Forwarded(asked[s], Reported(p)) /\ callback[report[p].module]
              THEN answers'[s] = <<AnswerTo(asked[s], Reported(p))>>
              ELSE answers'[s] = <<>>
<1>1. report[p].step = "answer"
  BY DEF ProcessResponse
<1>2. PICK s \in Serials : s = report[p].serial /\ answers[s] = <<>>
  BY <1>1 DEF Inv, OneOfEach
<1>3. IsOf(p, s) /\ report[p].code = RequestOf[asked[s]].code
  BY <1>1, <1>2 DEF Sources
<1> DEFINE x == Reported(p)
<1>4. x.module = report[p].module /\ x.payload = report[p].payload
      /\ x.error = report[p].error
  BY DEF Reported
<1>5. answers \in [Serials -> Seq(Answer)]
  BY DEF Inv, Types
<1>6. CASE Forwarded(asked[s], x) /\ callback[report[p].module]
  <2> DEFINE e == AnswerTo(asked[s], x)
  <2>1. answers' = [answers EXCEPT ![s] = Append(@, e)]
    <3>1. /\ report[p].code \in DOMAIN ResponsesOf[report[p].module]
          /\ report[p].payload \in
               ResponsesOf[report[p].module][report[p].code].forwards
          /\ callback[report[p].module]
      BY <1>3, <1>4, <1>6 DEF Forwarded, HandlerOf
    <3>2. Tell(s, ErrorPassedOn(ResponsesOf[report[p].module][report[p].code],
                                report[p].payload, report[p].error),
               report[p].payload)
      BY <1>2, <3>1 DEF ProcessResponse
    <3> QED BY <1>3, <1>4, <3>2 DEF Tell, AnswerTo, HandlerOf
  <2> HIDE DEF e
  <2>2. answers'[s] = Append(<<>>, e)
    BY <1>2, <1>5, <2>1
  <2>3. answers'[s] = <<e>>
    BY <2>2
  <2>4. \A t \in Serials : t # s => answers'[t] = answers[t]
    BY <1>5, <2>1
  <2> QED BY <1>2, <1>3, <1>6, <2>3, <2>4 DEF e
<1>7. CASE ~(Forwarded(asked[s], x) /\ callback[report[p].module])
  <2>1. ~(/\ report[p].code \in DOMAIN ResponsesOf[report[p].module]
          /\ report[p].payload \in
               ResponsesOf[report[p].module][report[p].code].forwards
          /\ callback[report[p].module])
    BY <1>3, <1>4, <1>7 DEF Forwarded, HandlerOf
  <2>2. answers' = answers
    BY <2>1 DEF ProcessResponse
  <2> QED BY <1>2, <1>3, <1>7, <2>2
<1> QED BY <1>6, <1>7

LEMMA ProcessResponseKeepsAnswers ==
  ASSUME Inv, ~raced, Sources, AnswersAreTheirOwn,
         NEW p \in Reporters, ProcessResponse(p)
  PROVE  Sources' /\ AnswersAreTheirOwn'
<1>1. /\ Busy(p) /\ Ends(p) /\ UNCHANGED <<asked, exchange, heap>>
  BY DEF ProcessResponse, recordVars, Busy
<1>2. Sources'
  BY <1>1, EndsKeepsSources
<1>3. PICK s \in Serials :
        /\ IsOf(p, s)
        /\ \A t \in Serials : t # s => answers'[t] = answers[t]
        /\ IF Forwarded(asked[s], Reported(p)) /\ callback[report[p].module]
           THEN answers'[s] = <<AnswerTo(asked[s], Reported(p))>>
           ELSE answers'[s] = <<>>
  BY ResponseTells
<1>4. AnswersAreTheirOwn'
  <2> SUFFICES ASSUME NEW t \in Serials, Ended(t)',
                      NEW i \in 1..Len(answers'[t])
               PROVE  \E x \in Reportable(asked[t], exchange[t]) :
                        /\ Forwarded(asked[t], x)
                        /\ answers'[t][i] = AnswerTo(asked[t], x)
    BY <1>1 DEF AnswersAreTheirOwn
  <2>1. CASE t = s
    <3>1. CASE answers'[s] = <<>>
      <4>1. 1..Len(answers'[s]) = {}
        BY <3>1
      <4> QED BY <2>1, <4>1
    <3>2. CASE answers'[s] # <<>>
      <4>1. /\ Forwarded(asked[s], Reported(p))
            /\ answers'[s] = <<AnswerTo(asked[s], Reported(p))>>
        BY <1>3, <3>2
      <4>2. i = 1
        <5>1. Len(answers'[s]) = 1
          BY <4>1
        <5> QED BY <2>1, <5>1
      <4>3. answers'[t][i] = AnswerTo(asked[s], Reported(p))
        BY <2>1, <4>1, <4>2
      <4> QED BY <1>3, <2>1, <4>1, <4>3 DEF IsOf
    <3> QED BY <3>1, <3>2
  <2>2. CASE t # s
    <3>1. answers'[t] = answers[t] /\ Ended(t)
      BY <1>1, <1>3, <2>2 DEF Ended
    <3> QED BY <3>1 DEF AnswersAreTheirOwn
  <2> QED BY <2>1, <2>2
<1> QED BY <1>2, <1>4

(* The other steps touch nothing of this.                                  *)
LEMMA OthersKeepAnswers ==
  ASSUME Sources, AnswersAreTheirOwn,
         \/ SetRilCallback \/ SetNextCallback \/ SetHrilManagerDestroy
         \/ UNCHANGED vars
         \/ \E m \in SubModules : \E c, x : ReportNotification(m, c, x)
  PROVE  Sources' /\ AnswersAreTheirOwn'
<1>1. UNCHANGED <<asked, exchange, heap, kept, report, answers>>
  BY DEF SetRilCallback, SetNextCallback, SetHrilManagerDestroy, vars,
         ReportNotification, taskVars, recordVars
<1>2. Sources'
  BY <1>1 DEF Sources, Fell, Live, KeptOwns, IsOf, Ended, Reported
<1> QED BY <1>1, <1>2, AnswersStand

LEMMA StepKeepsAnswers == AnswersInv /\ [Next]_vars => AnswersInv'
<1> SUFFICES ASSUME AnswersInv, [Next]_vars, ~raced'
             PROVE  Sources' /\ AnswersAreTheirOwn'
  BY StepKeepsInv DEF AnswersInv
<1>1. Inv
  BY DEF AnswersInv
<1>2. CASE UNCHANGED vars
  <2>1. ~raced
    BY <1>2 DEF vars
  <2> QED BY <1>2, <2>1, OthersKeepAnswers DEF AnswersInv
<1> SUFFICES ASSUME Next PROVE Sources' /\ AnswersAreTheirOwn'
  BY <1>2
<1>3. ~raced /\ Sources /\ AnswersAreTheirOwn
  BY <1>1, RacedStays DEF AnswersInv
<1>4. CASE \E s \in Serials, m \in Methods : Call(s, m)
  BY <1>1, <1>3, <1>4, RefusalKeepsAnswers, CreateKeepsAnswers DEF Call
<1>5. CASE Operate
  BY <1>1, <1>3, <1>5, OperateKeepsAnswers
<1>6. CASE \E p \in Reporters : TakeKept(p) \/ ReportStep(p)
  BY <1>1, <1>3, <1>6, TakeKeptKeepsAnswers, ReadRecordKeepsAnswers,
     ReleaseRecordKeepsAnswers, ProcessResponseKeepsAnswers DEF ReportStep
<1>7. CASE \/ SetRilCallback \/ SetNextCallback \/ SetHrilManagerDestroy
           \/ \E module \in SubModules, payload \in NoticePayloads :
                \E code \in NoticeIds[module] :
                  ReportNotification(module, code, payload)
  BY <1>3, <1>7, OthersKeepAnswers
<1> QED BY <1>4, <1>5, <1>6, <1>7 DEF Next

LEMMA SpecAnswersInv == Spec => []AnswersInv
BY InitAnswers, StepKeepsAnswers, PTL DEF Spec

(* For any tables: until reader and alarm handler meet, what a client is   *)
(* told of a request is what the handler of its own code makes of a report *)
(* that the operation of its own method gives when the exchange with the   *)
(* modem ends as that of this request did; no other request, thread or     *)
(* reused record gets into it (ReportResponse, ReleaseHRilRequest).        *)
THEOREM AnswersComeFromTheirOperation == Spec => [](raced \/ AnswersAreTheirOwn)
<1>1. AnswersInv => raced \/ AnswersAreTheirOwn
  BY DEF AnswersInv
<1> QED BY <1>1, SpecAnswersInv, PTL

-----------------------------------------------------------------------------
(* Nothing is lost on the way. *)

(* A client that is registered all along, with SetRilCallback or without.  *)
ClientStays == \A s \in SubModules : callback[s]

HeardInv == AnswersInv /\ (~raced => UnheardAreDropped)


(* One request moves; the others stay settled, or unsettled, as they were. *)
LEMMA OneRequestMoves ==
  ASSUME UnheardAreDropped, NEW s \in Serials,
         Ended(s)' /\ StatusOf(s)' = "settled" /\ answers'[s] = <<>> =>
           \E r \in Reportable(asked'[s], exchange'[s]) :
             ~Forwarded(asked'[s], r),
         \A t \in Serials : t # s =>
           /\ asked'[t] = asked[t] /\ exchange'[t] = exchange[t]
           /\ answers'[t] = answers[t] /\ StatusOf(t)' = StatusOf(t)
  PROVE  UnheardAreDropped'
<1> SUFFICES ASSUME NEW t \in Serials, Ended(t)', StatusOf(t)' = "settled",
                    answers'[t] = <<>>, t # s
             PROVE  \E r \in Reportable(asked'[t], exchange'[t]) :
                      ~Forwarded(asked'[t], r)
  BY DEF UnheardAreDropped
<1>1. /\ asked'[t] = asked[t] /\ exchange'[t] = exchange[t]
      /\ StatusOf(t) = "settled" /\ answers[t] = <<>>
  OBVIOUS
<1>2. Ended(t)
  BY <1>1 DEF Ended
<1> QED BY <1>1, <1>2 DEF UnheardAreDropped

LEMMA LedgerStands ==
  ASSUME UNCHANGED Ledger!vars
  PROVE  \A t \in Serials : StatusOf(t)' = StatusOf(t)
<1>1. [t \in Serials |-> StatusOf(t)]' = [t \in Serials |-> StatusOf(t)]
  BY DEF Ledger!vars
<1> SUFFICES ASSUME NEW t \in Serials PROVE StatusOf(t)' = StatusOf(t)
  OBVIOUS
<1>2. [u \in Serials |-> StatusOf(u)][t] = StatusOf(t)
  OBVIOUS
<1>3. [u \in Serials |-> StatusOf(u)]'[t] = StatusOf(t)'
  OBVIOUS
<1> QED BY <1>1, <1>2, <1>3

LEMMA NoRequestMoves ==
  ASSUME UnheardAreDropped, UNCHANGED <<asked, exchange, answers>>,
         UNCHANGED Ledger!vars
  PROVE  UnheardAreDropped'
BY LedgerStands DEF UnheardAreDropped, Ended

(* The ledger's steps, as steps of the status.                             *)
LEMMA LedgerMoves ==
  ASSUME NEW s \in Serials,
         Ledger!Ask(s) \/ Ledger!Refuse(s) \/ Ledger!Withdraw(s)
           \/ Ledger!Settle(s)
  PROVE  /\ \A t \in Serials : t # s => StatusOf(t)' = StatusOf(t)
         /\ Ledger!Ask(s) => StatusOf(s)' = "open"
         /\ Ledger!Withdraw(s) => StatusOf(s)' = "withdrawn"
<1> DEFINE f == [t \in Serials |-> StatusOf(t)]
<1>1. \A t \in Serials : f[t] = StatusOf(t) /\ f'[t] = StatusOf(t)'
  OBVIOUS
<1>2. /\ \E x : f' = [f EXCEPT ![s] = x]
      /\ Ledger!Ask(s) => f' = [f EXCEPT ![s] = "open"]
      /\ Ledger!Withdraw(s) => f' = [f EXCEPT ![s] = "withdrawn"]
  BY DEF Ledger!Ask, Ledger!Refuse, Ledger!Withdraw, Ledger!Settle
<1>3. DOMAIN f = Serials
  OBVIOUS
<1> HIDE DEF f
<1> QED BY <1>1, <1>2, <1>3

LEMMA RefusalIsHeard ==
  ASSUME Inv, ~raced, UnheardAreDropped,
         NEW s \in Serials, NEW m \in Methods,
         Refuse(s, m) \/ NotImplemented(s, m)
  PROVE  UnheardAreDropped'
<1>1. /\ asked' = [asked EXCEPT ![s] = m]
      /\ exchange' = [exchange EXCEPT ![s] = "refused"]
      /\ answers' = answers \/ Tell(s, TRUE, "none")
  BY DEF Refuse, NotImplemented, Called, Refused
<1>2. Types
  BY DEF Inv
<1>3. /\ ~Ended(s)'
      /\ \A t \in Serials : t # s => /\ asked'[t] = asked[t]
                                     /\ exchange'[t] = exchange[t]
                                     /\ answers'[t] = answers[t]
  BY <1>1, <1>2 DEF Types, Tell, Ended
<1>4. \A t \in Serials : t # s => StatusOf(t)' = StatusOf(t)
  BY RefusalRefines, LedgerMoves
<1> QED BY <1>3, <1>4, OneRequestMoves

LEMMA CreateIsHeard ==
  ASSUME Inv, ~raced, UnheardAreDropped,
         NEW s \in Serials, NEW m \in Methods, CreateHRilRequest(s, m)
  PROVE  UnheardAreDropped'
<1>1. /\ asked' = [asked EXCEPT ![s] = m] /\ UNCHANGED <<exchange, answers>>
  BY DEF CreateHRilRequest, Called
<1>2. \A t \in Serials : t # s => asked'[t] = asked[t]
  BY <1>1 DEF Inv, Types
<1>3. /\ StatusOf(s)' = "open"
      /\ \A t \in Serials : t # s => StatusOf(t)' = StatusOf(t)
  BY CreateRefines, LedgerMoves
<1> QED BY <1>1, <1>2, <1>3, OneRequestMoves

LEMMA OperateIsHeard ==
  ASSUME Inv, ~raced, UnheardAreDropped, Operate
  PROVE  UnheardAreDropped'
<1>1. PICK s \in Serials : s = task.serial
  BY DEF Inv, Types, Operate, InVendor
<1>2. /\ UNCHANGED <<asked, answers>>
      /\ \E x : exchange' = [exchange EXCEPT ![s] = x]
  BY <1>1 DEF Operate
<1>3. \A t \in Serials : t # s => exchange'[t] = exchange[t]
  BY <1>2 DEF Inv, Types
<1>4. \A t \in Serials : StatusOf(t)' = StatusOf(t)
  BY OperateStutters, LedgerStands
<1>5. StatusOf(s) = "open"
  <2>1. TaskOwns
    BY DEF Operate, InVendor, TaskOwns, NoReport
  <2>2. task.block \in Blocks /\ Live(task.block) /\ heap[task.block].serial = s
    BY <1>1, <2>1 DEF Inv, Types, Ownership, TaskOwns
  <2> QED BY <2>2, WhereARequestIs DEF Open
<1> QED BY <1>2, <1>3, <1>4, <1>5, OneRequestMoves

LEMMA ReleaseIsHeard ==
  ASSUME Inv, ~raced, UnheardAreDropped,
         NEW p \in Reporters, ReleaseRecord(p)
  PROVE  UnheardAreDropped'
<1>1. UNCHANGED <<asked, exchange, answers>>
  BY DEF ReleaseRecord, taskVars
<1>2. PICK s \in Serials : Ledger!Withdraw(s)
  BY ReleaseRefines
<1>3. /\ StatusOf(s)' = "withdrawn"
      /\ \A t \in Serials : t # s => StatusOf(t)' = StatusOf(t)
  BY <1>2, LedgerMoves
<1> QED BY <1>1, <1>3, OneRequestMoves

(* The one that could lose an answer: the sub-module it reports to has the *)
(* client, so it is the handler that has dropped what it does not tell.    *)
LEMMA ResponseIsHeard ==
  ASSUME Inv, ~raced, Sources, UnheardAreDropped, ClientStays,
         NEW p \in Reporters, ProcessResponse(p)
  PROVE  UnheardAreDropped'
<1>1. /\ report[p].step = "answer"
      /\ UNCHANGED <<asked, exchange, heap>>
  BY DEF ProcessResponse, recordVars
<1>2. PICK s \in Serials :
        /\ s = report[p].serial /\ IsOf(p, s)
        /\ \A t \in Serials : t # s => answers'[t] = answers[t]
        /\ IF Forwarded(asked[s], Reported(p)) /\ callback[report[p].module]
           THEN answers'[s] = <<AnswerTo(asked[s], Reported(p))>>
           ELSE answers'[s] = <<>>
  BY ResponseTells
<1>3. report[p].module \in SubModules
  <2> DEFINE m == asked[s]
  <2>1. m \in Methods
    BY <1>1, <1>2 DEF Inv, Types, OneOfEach
  <2>2. \A how : \A x \in Reportable(m, how) : x.module \in SubModules
    BY <2>1, TablesAssumption
       DEF Reportable, OperationReports, SearchReports, SearchRefusal
  <2>3. Reported(p).module \in SubModules
    BY <1>2, <2>2 DEF IsOf
  <2> QED BY <2>3 DEF Reported
<1>4. answers'[s] = <<>> =>
        \E x \in Reportable(asked'[s], exchange'[s]) :
          ~Forwarded(asked'[s], x)
  <2>1. answers'[s] = <<>> => ~Forwarded(asked[s], Reported(p))
    BY <1>2, <1>3 DEF ClientStays
  <2> QED BY <1>1, <1>2, <2>1 DEF IsOf
<1>5. \A t \in Serials : t # s => StatusOf(t)' = StatusOf(t)
  <2>1. \A q \in Reporters : /\ q # p => report'[q] = report[q]
                             /\ report'[p].step # "answer"
    BY <1>1, EndsFacts DEF ProcessResponse, Busy, NoReport
  <2>2. \A t \in Serials : t # s => (Withdrawn(t)' <=> Withdrawn(t))
    BY <1>1, <1>2, <2>1 DEF Withdrawn
  <2>3. \A t \in Serials : Open(t)' <=> Open(t)
    BY <1>1 DEF Open, Live
  <2> QED BY <1>1, <2>2, <2>3 DEF StatusOf
<1> QED BY <1>1, <1>2, <1>4, <1>5, OneRequestMoves

LEMMA StepIsHeard == HeardInv /\ ClientStays /\ [Next]_vars => HeardInv'
<1> SUFFICES ASSUME AnswersInv, ~raced => UnheardAreDropped, ClientStays,
                    [Next]_vars, ~raced'
             PROVE  UnheardAreDropped'
  BY StepKeepsAnswers DEF HeardInv
<1>1. Inv
  BY DEF AnswersInv
<1>2. CASE UNCHANGED vars
  <2>1. ~raced /\ UNCHANGED <<asked, exchange, answers>>
    BY <1>2 DEF vars, taskVars
  <2> QED BY <1>2, <2>1, OthersStutter, NoRequestMoves
<1> SUFFICES ASSUME Next PROVE UnheardAreDropped'
  BY <1>2
<1>3. ~raced /\ Sources /\ UnheardAreDropped
  BY <1>1, RacedStays DEF AnswersInv
<1>4. CASE \E s \in Serials, m \in Methods : Call(s, m)
  BY <1>1, <1>3, <1>4, RefusalIsHeard, CreateIsHeard DEF Call
<1>5. CASE Operate
  BY <1>1, <1>3, <1>5, OperateIsHeard
<1>6. ASSUME NEW p \in Reporters, ReleaseRecord(p) \/ ProcessResponse(p)
      PROVE  UnheardAreDropped'
  BY <1>1, <1>3, <1>6, ReleaseIsHeard, ResponseIsHeard
<1>7. ASSUME NEW p \in Reporters, TakeKept(p) \/ ReadRecord(p)
      PROVE  UnheardAreDropped'
  <2>1. UNCHANGED <<asked, exchange, answers>>
    BY <1>7, Zenon DEF TakeKept, ReadRecord, taskVars
  <2> QED BY <1>1, <1>3, <1>7, <2>1, TakeKeptStutters, ReadRecordStutters,
             NoRequestMoves
<1>8. CASE \/ SetRilCallback \/ SetNextCallback \/ SetHrilManagerDestroy
           \/ \E module \in SubModules, payload \in NoticePayloads :
                \E code \in NoticeIds[module] :
                  ReportNotification(module, code, payload)
  <2>1. UNCHANGED <<asked, exchange, answers>>
    BY <1>8 DEF SetRilCallback, SetNextCallback, SetHrilManagerDestroy,
                ReportNotification, taskVars
  <2> QED BY <1>3, <1>8, <2>1, OthersStutter, NoRequestMoves
<1> QED BY <1>4, <1>5, <1>6, <1>7, <1>8 DEF Next, ReportStep

LEMMA InitIsHeard == Init => HeardInv
<1> SUFFICES ASSUME Init PROVE UnheardAreDropped
  BY InitAnswers DEF HeardInv
<1> QED BY DEF Init, UnheardAreDropped, Ended

LEMMA SpecHeardInv == Spec /\ []ClientStays => []HeardInv
BY InitIsHeard, StepIsHeard, PTL DEF Spec

(* A client that is registered stays so when nobody registers another; the *)
(* theorems below are not about an empty set of behaviours.                *)
LEMMA ClientsMayStay ==
  Registered /\ MaxRegistrations = 0 => (Spec => []ClientStays)
<1> DEFINE I == /\ callback = [s \in SubModules |-> TRUE]
                /\ registering = Idle /\ registrations = 0
<1> SUFFICES ASSUME Registered /\ MaxRegistrations = 0
             PROVE  Spec => []ClientStays
  OBVIOUS
<1>1. Init => I
  BY DEF Init
<1>2. I /\ [Next]_vars => I'
  <2> SUFFICES ASSUME I, [Next]_vars PROVE I'
    OBVIOUS
  <2>1. ~SetRilCallback /\ ~SetNextCallback
    BY DEF SetRilCallback, SetNextCallback, Idle
  <2>2. UNCHANGED clientVars
    <3>1. CASE UNCHANGED vars
      BY <3>1 DEF vars
    <3>2. CASE \E s \in Serials, m \in Methods : Call(s, m)
      BY <3>2 DEF Call, Refuse, NotImplemented, CreateHRilRequest
    <3>3. CASE \E p \in Reporters : TakeKept(p) \/ ReportStep(p)
      BY <3>3, Zenon DEF TakeKept, ReportStep, ReadRecord, ReleaseRecord,
                         ProcessResponse
    <3>4. CASE \/ Operate \/ SetHrilManagerDestroy
               \/ \E module \in SubModules, payload \in NoticePayloads :
                    \E code \in NoticeIds[module] :
                      ReportNotification(module, code, payload)
      BY <3>4 DEF Operate, SetHrilManagerDestroy, ReportNotification
    <3> QED BY <2>1, <3>1, <3>2, <3>3, <3>4 DEF Next
  <2> QED BY <2>2 DEF clientVars
<1>3. I => ClientStays
  BY DEF ClientStays
<1> QED BY <1>1, <1>2, <1>3, PTL DEF Spec

(* For any tables: until reader and alarm handler meet, and while the      *)
(* client stays registered, a request whose exchange has ended and that is *)
(* settled without an answer is one whose handler does not forward what    *)
(* its operation reports; nothing else between them loses an answer.       *)
THEOREM NoAnswerIsLost ==
  Spec /\ []ClientStays => [](raced \/ UnheardAreDropped)
<1>1. HeardInv => raced \/ UnheardAreDropped
  BY DEF HeardInv
<1> QED BY <1>1, SpecHeardInv, PTL

-----------------------------------------------------------------------------
(* The invariants of the runs, for tables that agree. *)

LEMMA AskedIsMethod ==
  ASSUME AnswersInv, ~raced, NEW s \in Serials, exchange[s] # "none"
  PROVE  asked[s] \in Methods
BY DEF AnswersInv, Inv, Types, Sources

(* Every request that was not refused is answered, except those of the     *)
(* methods whose operations or handlers say nothing, whatever the tables,  *)
(* if in them no other operation comes back without a report and no other  *)
(* handler drops one; for a client that stays, until reader and alarm meet *)
(* (OnRequest functions of the vendor library, Response handlers of        *)
(* hril_*.cpp).                                                            *)
THEOREM UnansweredAreThoseTheTablesDrop ==
  ASSUME SilenceIsKnown, DropsAreKnown
  PROVE  Spec /\ []ClientStays => [](raced \/ UnansweredAreKnown)
<1>1. HeardInv => raced \/ UnansweredAreKnown
  <2> SUFFICES ASSUME HeardInv, ~raced, NEW s \in Serials,
                      \/ exchange[s] = "silent"
                      \/ /\ exchange[s] \in {"done", "failed"}
                         /\ StatusOf(s) = "settled",
                      answers[s] = <<>>
               PROVE  asked[s] \in SilentMethods \union DroppedMethods
    BY DEF UnansweredAreKnown
  <2>1. AnswersInv /\ Sources /\ UnheardAreDropped
    BY DEF HeardInv, AnswersInv
  <2>2. asked[s] \in Methods
    BY <2>1, AskedIsMethod
  <2>3. CASE exchange[s] = "silent"
    BY <2>1, <2>2, <2>3, SilenceIsKnown DEF Sources, Fell, SilenceIsKnown
  <2>4. CASE Ended(s) /\ StatusOf(s) = "settled"
    <3>1. PICK r \in Reportable(asked[s], exchange[s]) :
            ~Forwarded(asked[s], r)
      BY <2>1, <2>4 DEF UnheardAreDropped
    <3> QED BY <2>2, <2>4, <3>1, DropsAreKnown DEF Ended, DropsAreKnown
  <2> QED BY <2>3, <2>4 DEF Ended
<1> QED BY <1>1, SpecHeardInv, PTL

(* What the client was told comes from a report and its handler.           *)
LEMMA WhatWasTold ==
  ASSUME AnswersInv, ~raced, NEW s \in Serials, Ended(s),
         NEW e, Told(s, e)
  PROVE  \E r \in Reportable(asked[s], exchange[s]) :
           Forwarded(asked[s], r) /\ e = AnswerTo(asked[s], r)
<1>1. AnswersAreTheirOwn /\ answers[s] \in Seq(Answer)
  BY DEF AnswersInv, Inv, Types
<1>2. PICK i \in DOMAIN answers[s] : answers[s][i] = e
  BY DEF Told
<1>3. i \in 1..Len(answers[s])
  BY <1>1, <1>2
<1> QED BY <1>1, <1>2, <1>3 DEF AnswersAreTheirOwn

(* A failed exchange is told as an error, or by a record that says what    *)
(* failed, except for the methods that QuietMethods lists, if the handlers *)
(* clear or lose the error of no other (until reader and alarm meet).      *)
THEOREM QuietFailuresAreThoseOfTheTables ==
  ASSUME QuietIsKnown
  PROVE  Spec => [](raced \/ QuietFailuresAreKnown)
<1>1. AnswersInv => raced \/ QuietFailuresAreKnown
  <2> SUFFICES ASSUME AnswersInv, ~raced, NEW s \in Serials,
                      NEW payload \in Payload \ {"verdict"},
                      exchange[s] = "failed",
                      Told(s, [error |-> FALSE, payload |-> payload])
               PROVE  asked[s] \in QuietMethods
    BY DEF QuietFailuresAreKnown
  <2>1. asked[s] \in Methods
    BY AskedIsMethod
  <2>2. PICK r \in Reportable(asked[s], "failed") :
          /\ Forwarded(asked[s], r)
          /\ [error |-> FALSE, payload |-> payload] = AnswerTo(asked[s], r)
    BY WhatWasTold DEF Ended
  <2>3. AnswerTo(asked[s], r).error = FALSE /\ r.payload = payload
    BY <2>2 DEF AnswerTo
  <2> QED BY <2>1, <2>2, <2>3, QuietIsKnown DEF QuietIsKnown
<1> QED BY <1>1, SpecAnswersInv, PTL

(* What was done is not told as an error, except for a search and the      *)
(* answer to GetImeiSv, if no handler puts an error into another report    *)
(* (until reader and alarm meet).                                          *)
THEOREM ErrorsAreThoseOfTheTables ==
  ASSUME ErrorsAreKnown
  PROVE  Spec => [](raced \/ DoneIsNoError)
<1>1. AnswersInv => raced \/ DoneIsNoError
  <2> SUFFICES ASSUME AnswersInv, ~raced, NEW s \in Serials,
                      NEW payload \in Payload, exchange[s] = "done",
                      Told(s, [error |-> TRUE, payload |-> payload])
               PROVE  asked[s] \in Deferring \union {"GetImeiSv"}
    BY DEF DoneIsNoError
  <2>1. asked[s] \in Methods
    BY AskedIsMethod
  <2>2. PICK r \in Reportable(asked[s], "done") :
          /\ Forwarded(asked[s], r)
          /\ [error |-> TRUE, payload |-> payload] = AnswerTo(asked[s], r)
    BY WhatWasTold DEF Ended
  <2>3. AnswerTo(asked[s], r).error = TRUE
    BY <2>2 DEF AnswerTo
  <2> QED BY <2>1, <2>2, <2>3, ErrorsAreKnown DEF ErrorsAreKnown
<1> QED BY <1>1, SpecAnswersInv, PTL

(* A notification takes the running lock only if some sub-module handles   *)
(* it, and one that is heard without the lock is listed, if the two maps   *)
(* agree on each notification; what SetRilCallback tells a new client is   *)
(* no exception (ReportNotification, SetRilCallback).                      *)
THEOREM NoticesHoldTheLockTheTablesGive ==
  ASSUME NoticesAreHandled
  PROVE  Spec => []NoticesHoldTheLock
<1>1. Init => NoticesHoldTheLock
  BY DEF Init, NoNotice, NoticesHoldTheLock
<1>2. NoticesHoldTheLock /\ [Next]_vars => NoticesHoldTheLock'
  <2> SUFFICES ASSUME NoticesHoldTheLock, [Next]_vars
               PROVE  NoticesHoldTheLock'
    OBVIOUS
  <2>1. CASE UNCHANGED notice
    BY <2>1 DEF NoticesHoldTheLock
  <2>2. ASSUME NEW module \in SubModules, NEW payload \in NoticePayloads,
               NEW code \in NoticeIds[module],
               ReportNotification(module, code, payload)
        PROVE  NoticesHoldTheLock'
    <3>1. /\ notice'.code = code /\ notice'.locked = (code \in Locked)
          /\ notice'.heard => code \in DOMAIN NoticesOf[module]
      BY <2>2 DEF ReportNotification
    <3> QED BY <3>1, NoticesAreHandled
            DEF NoticesAreHandled, NoticesHoldTheLock
  <2>3. CASE SetNextCallback
    <3>1. \/ UNCHANGED notice
          \/ notice' = [code |-> LastRadioState, locked |-> FALSE,
                        heard |-> TRUE]
      BY <2>3, Zenon DEF SetNextCallback
    <3> QED BY <2>1, <3>1 DEF NoticesHoldTheLock, UnlockedNotices
  <2>4. ASSUME NEW p \in Reporters, TakeKept(p) \/ ReportStep(p)
        PROVE  UNCHANGED notice
    BY <2>4, Zenon DEF TakeKept, ReportStep, ReadRecord, ReleaseRecord,
                       ProcessResponse
  <2>5. CASE \/ \E s \in Serials, m \in Methods : Call(s, m)
             \/ Operate \/ SetRilCallback \/ SetHrilManagerDestroy
             \/ UNCHANGED vars
    BY <2>1, <2>5 DEF Call, Refuse, NotImplemented, CreateHRilRequest, Operate,
                      SetRilCallback, SetHrilManagerDestroy, vars
  <2> QED BY <2>1, <2>2, <2>3, <2>4, <2>5 DEF Next
<1> QED BY <1>1, <1>2, PTL DEF Spec
=============================================================================
