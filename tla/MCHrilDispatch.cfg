SPECIFICATION Spec
CONSTANTS
  NoMethod = NoMethod
  NoBlock = NoBlock
  NoCode = NoCode
  NoSerial = NoSerial
  Methods <- FewMethods
  SubModules <- TwoModules
  CallbackOrder <- TwoOrder
  RequestOf <- Request
  ModuleOf <- Module
  Implements <- Has
  OutcomesOf <- Outcomes_
  ReportsToOf <- ReportModule
  ResponsesOf <- Responses
  NoticesOf <- Notices
  NoticeIds <- NoNoticeIds
  NoticePayloads = {"none", "fits"}
  Locked <- NeedLock
  Serials = {s1, s2}
  Blocks = {a1, a2}
  Registered = FALSE
  MaxRegistrations = 2
INVARIANTS
  TypeOK
  ListIsHeap
  AnsweredOnce
  LeaksAreSilent
  DestroyWaitsForTheTask
PROPERTIES
  ImplementsLedger
  RequestsSettle
CHECK_DEADLOCK FALSE
