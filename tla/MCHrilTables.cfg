SPECIFICATION Spec
CONSTANTS
  NoMethod = NoMethod
  NoBlock = NoBlock
  NoCode = NoCode
  NoSerial = NoSerial
  Methods <- AllMethods
  SubModules <- AllModules
  CallbackOrder <- AllOrder
  RequestOf <- Request
  ModuleOf <- Module
  Implements <- Has
  OutcomesOf <- Outcomes_
  ReportsToOf <- ReportModule
  ResponsesOf <- Responses
  NoticesOf <- Notices
  NoticeIds <- AllNoticeIds
  NoticePayloads = {"none", "fits"}
  Locked <- NeedLock
  Serials = {s1}
  Blocks = {a1}
  Registered = TRUE
  MaxRegistrations = 0
INVARIANTS
  UnansweredAreKnown
  
  
  NoticesHoldTheLock
CHECK_DEADLOCK FALSE
