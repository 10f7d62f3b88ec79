--------------------------- MODULE MCHrilDispatch ---------------------------
(***************************************************************************)
(* A few methods, one of each kind, for several requests at a time; and    *)
(* what the theorems about HrilAnswers ask of the tables of the source,    *)
(* for every method and notification.                                      *)
(***************************************************************************)
EXTENDS MCHrilTables

FewMethods == {"GetNetworkSearchInformation", "GetSimLockStatus",
               "SetPrimarySlot"}
TwoModules == {"Network", "Sim"}
TwoOrder   == <<"Network", "Sim">>

Every == INSTANCE HrilAnswers
           WITH Methods <- AllMethods, SubModules <- AllModules,
                NoticeIds <- AllNoticeIds

ASSUME EveryTableAgrees == Every!TablesAgree
=============================================================================
