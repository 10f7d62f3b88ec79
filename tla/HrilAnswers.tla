---------------------------- MODULE HrilAnswers -----------------------------
(***************************************************************************)
(* What the tables of the HRIL and of the vendor library make of each      *)
(* request together: who is not told, who is told the wrong thing.  Who is *)
(* not told is meant for a client that is registered all along.            *)
(***************************************************************************)
EXTENDS HrilDispatch

-----------------------------------------------------------------------------
(* Known exceptions, each at the line that makes it one.                   *)

(* The operation returns without a report when its command fails: in       *)
(* at_data.c:935, at_sms.c:509, 532, 792, at_sim.c:434, 478, 1127 and      *)
(* at_network.c:699.                                                       *)
SilentMethods ==
  {"GetLinkBandwidthInfo", "GetSmscAddr", "GetCBConfig", "SetCBConfig",
   "GetImsi", "GetSimLockStatus", "SetRadioProtocol",
   "GetNetworkSearchInformation"}

(* The handler drops what the operation reports: a length of 0             *)
(* (at_call.c:533), a record without cells (at_network.c:1147); or the     *)
(* report goes to a sub-module without a handler (at_network.c:2140).      *)
DroppedMethods == {"GetClip", "GetNeighboringCellInfoList", "GetNrSsbId"}

(* A failure the client is not told of: the answer of the modem is not     *)
(* looked at (at_call.c:749, at_sms.c:176), a bare ERROR leaves the error  *)
(* number as it was (at_sim.c, at_network.c), a zeroed record is reported  *)
(* (at_sim.c:650, 1300), or the handler clears the error.                  *)
QuietMethods ==
  {"CombineConference", "SendSmsAck", "UnlockPin", "UnlockSimLock",
   "SetNetworkSelectionMode", "SetPreferredNetwork", "SetLocateUpdates",
   "GetImsi", "SetActiveSim", "SimStkSendTerminalResponse",
   "SimStkSendEnvelope", "SimStkIsReady", "SimOpenLogicalChannel",
   "SimCloseLogicalChannel"}

(* Delivered without the running lock: UNNEED_LOCK, or not in the map; and *)
(* what SetRilCallback itself tells a new client.                          *)
UnlockedNotices ==
  {LastRadioState} \union
  {"NETWORK_SIGNAL_STRENGTH_UPDATED", "NETWORK_RRC_CONNECTION_STATE_UPDATED",
   "CALL_SS_REPORT", "SIM_REFRESH_NOTIFY", "SIM_RADIO_PROTOCOL_UPDATED",
   "NETWORK_RESIDENT_NETWORK_UPDATED"}

-----------------------------------------------------------------------------
(* What the tables make of a request that is alone.                        *)

(* The reports on a request of method m when its exchange with the modem   *)
(* has ended in this way: those of the operation; that a search is already *)
(* running; the list of networks, and the end of the wait for it.          *)
SearchReports ==
  {[module |-> "Network", payload |-> "fits", error |-> FALSE],
   [module |-> "Network", payload |-> "none", error |-> TRUE]}
SearchRefusal(m) ==
  {[module |-> ReportsToOf[m], payload |-> "nullLong", error |-> TRUE]}

OperationOutcomes(m, how) ==
  IF how = "done" THEN OutcomesOf[m].done ELSE OutcomesOf[m].failed
OperationReports(m, how) ==
  {[module |-> ReportsToOf[m], payload |-> o.payload, error |-> o.error] :
     o \in {x \in OperationOutcomes(m, how) : x.kind = "report"}}
Reportable(m, how) ==
  OperationReports(m, how) \union
    (IF m \notin Deferring THEN {}
     ELSE IF how = "done" THEN SearchReports ELSE SearchRefusal(m))

(* Whether the handler of the code forwards the report, and as what.       *)
HandlerOf(m, r) == ResponsesOf[r.module][RequestOf[m].code]
Forwarded(m, r) == /\ RequestOf[m].code \in DOMAIN ResponsesOf[r.module]
                   /\ r.payload \in HandlerOf(m, r).forwards
AnswerTo(m, r) == [error |-> ErrorPassedOn(HandlerOf(m, r), r.payload, r.error),
                   payload |-> r.payload]

(* What the properties below ask of the tables.                            *)
SilenceIsKnown ==
  \A m \in Methods, how \in {"done", "failed"} :
    (\E o \in OperationOutcomes(m, how) : o.kind = "silent")
      => m \in SilentMethods

DropsAreKnown ==
  \A m \in Methods, how \in {"done", "failed"} :
    \A r \in Reportable(m, how) :
      Forwarded(m, r) \/ m \in SilentMethods \union DroppedMethods

QuietIsKnown ==
  \A m \in Methods : \A r \in Reportable(m, "failed") :
    Forwarded(m, r) /\ r.payload # "verdict"
      => AnswerTo(m, r).error \/ m \in QuietMethods

ErrorsAreKnown ==
  \A m \in Methods : \A r \in Reportable(m, "done") :
    Forwarded(m, r) /\ AnswerTo(m, r).error
      => m \in Deferring \union {"GetImeiSv"}

NoticesAreHandled ==
  \A module \in SubModules : \A code \in NoticeIds[module] :
    IF code \in Locked
    THEN \E other \in SubModules : code \in DOMAIN NoticesOf[other]
    ELSE code \in DOMAIN NoticesOf[module] => code \in UnlockedNotices

TablesAgree == /\ SilenceIsKnown /\ DropsAreKnown /\ QuietIsKnown
               /\ ErrorsAreKnown /\ NoticesAreHandled

-----------------------------------------------------------------------------
(* Every request that was not refused is answered in the end, except those *)
(* of the methods named above (vendor operations and the Response handlers *)
(* of hril_*.cpp, taken together).                                         *)
UnansweredAreKnown ==
  \A s \in Serials :
    /\ \/ exchange[s] = "silent"
       \/ exchange[s] \in {"done", "failed"} /\ StatusOf(s) = "settled"
    /\ answers[s] = <<>>
    => asked[s] \in SilentMethods \union DroppedMethods

Told(s, answer) == \E i \in DOMAIN answers[s] : answers[s][i] = answer

(* The client learns of a failed exchange with the modem by an error, or   *)
(* by a record that says itself what failed.                               *)
FailuresCarryTheirError ==
  \A s \in Serials, payload \in Payload \ {"verdict"} :
    exchange[s] = "failed" => ~Told(s, [error |-> FALSE, payload |-> payload])

(* The same, but for the methods named above.                              *)
QuietFailuresAreKnown ==
  \A s \in Serials, payload \in Payload \ {"verdict"} :
    exchange[s] = "failed" /\ Told(s, [error |-> FALSE, payload |-> payload])
      => asked[s] \in QuietMethods

(* No handler turns what was done into an error, except the answer to      *)
(* GetImeiSv, which the vendor library reports without any text; a search  *)
(* that was begun may still fail.                                          *)
DoneIsNoError ==
  \A s \in Serials, payload \in Payload :
    exchange[s] = "done" /\ Told(s, [error |-> TRUE, payload |-> payload])
      => asked[s] \in Deferring \union {"GetImeiSv"}

(* The running lock is taken for a notification only if its sub-module has *)
(* a handler for it, so that somebody can acknowledge it; and what is      *)
(* delivered without the lock is one of those named above                  *)
(* (notificationMap_ against notiMemberFuncMap_).                          *)
NoticesHoldTheLock ==
  /\ notice.locked =>
       \E module \in SubModules : notice.code \in DOMAIN NoticesOf[module]
  /\ notice.heard /\ ~notice.locked => notice.code \in UnlockedNotices
=============================================================================
