--------------------------- MODULE MCHrilTables ----------------------------
(***************************************************************************)
(* HrilDispatch with the tables of the source.                             *)
(***************************************************************************)
EXTENDS HrilAnswers

T == INSTANCE HrilTables
V == INSTANCE VendorReports
C == INSTANCE HrilCodes

AllMethods == T!HrilMethods

Module   == [m \in AllMethods |-> T!SubModuleOf(m)]
Request  == [m \in AllMethods |-> T!RequestMade(m)]
Has      == [m \in AllMethods |-> Request[m].op \in T!Implemented[Module[m]]]
Outcomes_ == [m \in AllMethods |-> IF Has[m]
               THEN V!VendorReportsOf[Module[m]][Request[m].op]
               ELSE V!Ever({})]
ReportModule == [m \in AllMethods |-> V!ReportsTo(Module[m], Request[m].op)]
Responses  == T!ResponseMaps
Notices    == T!NoticeMaps
AllNoticeIds == C!NotificationIds
NoNoticeIds == [s \in T!HrilSubModules |-> {}]
AllModules == T!HrilSubModules
NeedLock   == C!LockedNotices
AllOrder   == <<"Call", "Modem", "Network", "Sim", "Sms", "Data">>
=============================================================================
