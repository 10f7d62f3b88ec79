--------------------------- MODULE VendorReports ----------------------------
(***************************************************************************)
(* What the operations of the vendor library report for the request they   *)
(* are given, in the thread that calls them (at_call.c, at_data.c,         *)
(* at_modem.c, at_sms.c, at_sim.c, at_network.c).  An exchange with the    *)
(* modem is done or has failed: no channel, no answer in time, an answer   *)
(* of ERROR or one that cannot be read.  For either the table gives the    *)
(* outcomes the code can reach.                                            *)
(***************************************************************************)
EXTENDS Payloads, TLC

Outcome == [kind : {"report", "silent", "deferred"}, payload : Payload,
            error : BOOLEAN]

Ok(p)    == [kind |-> "report", payload |-> p, error |-> FALSE]
Err(p)   == [kind |-> "report", payload |-> p, error |-> TRUE]
Silent   == [kind |-> "silent", payload |-> "none", error |-> TRUE]
Deferred == [kind |-> "deferred", payload |-> "none", error |-> FALSE]

Reporting(done, failed) == [done |-> done, failed |-> failed]
Ever(outcomes) == [done |-> outcomes, failed |-> {}]

Plain == Reporting({Ok("none")}, {Err("none")})
Reads == Reporting({Ok("fits")}, {Err("none"), Err("fits")})
Gives == Reporting({Ok("fits")}, {Err("none")})
Lists == Reporting({Ok(p) : p \in {"empty", "fits", "many"}}, {Err("none")})

(* The modem's own error number is passed on; a bare ERROR carries none.   *)
PlainCoded == Reporting({Ok("none")}, {Err("none"), Ok("none")})
GivesCoded == Reporting({Ok("fits")}, {Err("none"), Ok("none")})

-----------------------------------------------------------------------------
(* at_call.c.  ReqCombineConference takes no response from SendCommandLock *)
(* and does not see an ERROR; ReqGetClip reports a failed send with a      *)
(* pointer and a length of 0.                                              *)
CallControlReports ==
  [GetCallList |-> Lists,
   GetClip |-> Reporting({Ok("fits")}, {Err("fits"), Err("empty")}),
   GetClir |-> Reads, CombineConference |-> PlainCoded] @@
  [op \in {"Dial", "Hangup", "Reject", "Answer", "SetClip", "SetClir",
           "StartDtmf", "SendDtmf", "StopDtmf", "HoldCall", "UnHoldCall",
           "SwitchCall", "SeparateConference"} |-> Plain]

CallSupplementaryReports ==
  [GetCallWaiting |-> Reporting({Ok("fits")}, {Err("fits")}),
   GetCallTransferInfo |-> Reads, GetCallRestriction |-> Reads] @@
  [op \in {"CallSupplement", "SetCallWaiting", "SetCallTransferInfo",
           "SetCallRestriction", "SetBarringPassword"} |-> Plain]

CallDeviceReports ==
  [op \in {"GetCallPreferenceMode", "GetUssd", "GetMute"} |-> Reads] @@
  [op \in {"SetCallPreferenceMode", "SetUssd", "CloseUnFinishedUssd",
           "SetMute", "SetEmergencyCallList"} |-> Plain] @@
  [GetCallFailReason |-> Gives, GetEmergencyCallList |-> Lists,
   SetVonrSwitch |-> Ever({Ok("none")})]

(* at_data.c.  A refused PDP context is reported with its reason, and with *)
(* an error only when the exchange itself failed.                          *)
RefusedPdp == {Ok("verdict"), Err("verdict"), Err("none")}
Activates  == Reporting(Lists.done, RefusedPdp)

DataReports ==
  [ActivatePdpContext |-> Activates,
   ActivatePdpContextWithApnTypes |-> Activates,
   DeactivatePdpContext |-> Reporting({Ok("none")}, RefusedPdp),
   GetPdpContextList |-> Lists, SetInitApnInfo |-> Plain,
   GetLinkBandwidthInfo |->
     Reporting({Ok("fits")}, {Err("none"), Err("fits"), Silent})] @@
  [op \in {"SetLinkBandwidthReportingRule", "SetDataPermitted",
           "GetLinkCapability", "CleanAllConnections"} |-> Ever({Ok("none")})]

ModemReports ==
  [SetRadioState |-> Plain, GetRadioState |-> Gives, GetImei |-> GivesCoded,
   GetMeid |-> GivesCoded, GetImeiSv |-> Ever({Ok("none")}),
   GetVoiceRadioTechnology |-> Reads]

-----------------------------------------------------------------------------
(* at_sms.c.  ReqSendSmsAck looks for an answer only when there is none.   *)
SmsSendReports ==
  [SendGsmSms |->
     Reporting({Ok("fits")}, {Err("none"), Ok("none"), Err("fits")}),
   SendCdmaSms |-> GivesCoded, SendSmsAck |-> PlainCoded]

SmsStoreReports ==
  [op \in {"AddSimMessage", "UpdateSimMessage", "DelSimMessage",
           "SetSmscAddr"} |-> Plain] @@
  [GetSmscAddr |->
     Reporting({Ok("fits")}, {Err("none"), Err("fits"), Silent})]

SmsBroadcastReports ==
  [GetCBConfig |-> Reporting(Lists.done, {Err("none"), Silent}),
   SetCBConfig |-> Reporting({Ok("none")}, {Err("none"), Silent}),
   GetCdmaCBConfig |-> Gives] @@
  [op \in {"SetCdmaCBConfig", "AddCdmaSimMessageV2", "DelCdmaSimMessage",
           "UpdateCdmaSimMessage"} |-> Plain]

SmsReports == SmsSendReports @@ SmsStoreReports @@ SmsBroadcastReports

(* at_sim.c.  A refused password is reported with what is left of the      *)
(* attempts.  ReqUnlockPin reports a lost channel, and ReqUnlockSimLock an *)
(* answer it cannot read, as a zeroed record, which reads as unlocked.     *)
SimCardReports ==
  [GetSimStatus |-> GivesCoded, GetSimIO |-> GivesCoded,
   GetSimImsi |-> Reporting({Ok("empty")}, {Err("none"), Ok("none"), Silent}),
   GetSimLockStatus |->
     Reporting({Ok("fits")}, {Err("none"), Ok("none"), Silent})] @@
  [op \in {"SetSimLock", "ChangeSimPassword"} |->
     Reporting({Ok("fits")}, {Ok("verdict"), Err("verdict")})]

SimPinReports ==
  [UnlockPin |->
     Reporting({Ok("fits")}, {Ok("fits"), Ok("verdict"), Err("verdict")})] @@
  [op \in {"UnlockPuk", "UnlockPin2", "UnlockPuk2"} |->
     Reporting({Ok("fits")}, {Ok("verdict"), Err("verdict")})]

SimServiceReports ==
  [op \in {"SetActiveSim", "SimStkSendTerminalResponse", "SimStkSendEnvelope",
           "SimStkIsReady", "SimCloseLogicalChannel",
           "SimOpenLogicalChannel"} |-> PlainCoded] @@
  [op \in {"SimStkSendCallSetupRequestResult",
           "SendSimMatchedOperatorInfo"} |-> Ever({Ok("none")})] @@
  [op \in {"GetRadioProtocol", "SimAuthentication"} |-> Ever({Ok("fits")})] @@
  [SetRadioProtocol |-> Ever({Ok("fits"), Silent}),
   SimTransmitApduLogicalChannel |-> GivesCoded,
   UnlockSimLock |->
     Reporting({Ok("fits")}, {Err("none"), Ok("none"), Ok("fits")})]

SimReports == SimCardReports @@ SimPinReports @@ SimServiceReports

-----------------------------------------------------------------------------
(* at_network.c.  A list of neighbouring cells that cannot be had is       *)
(* reported as a record with neither count nor array.                      *)
NetworkStateReports ==
  [op \in {"GetSignalStrength", "GetCsRegStatus", "GetPsRegStatus",
           "GetOperatorInfo"} |-> Reads]

NetworkSearchReports ==
  [GetNetworkSearchInformation |->
     Reporting({Deferred}, {Err("nullLong"), Err("none"), Silent}),
   GetNeighboringCellInfoList |->
     Reporting({Ok("fits"), Ok("bad")}, {Err("bad")}),
   GetCurrentCellInfo |-> Reporting({Ok("fits")}, {Err("fits")})]

NetworkModeReports ==
  [op \in {"GetNetworkSelectionMode", "GetPreferredNetwork"} |-> Gives] @@
  [op \in {"SetPreferredNetwork", "SetLocateUpdates"} |-> PlainCoded] @@
  [op \in {"SetNotificationFilter", "SetDeviceState"} |-> Ever({Ok("none")})] @@
  [SetNetworkSelectionMode |->
     Reporting({Ok("none")}, {Err("nullLong"), Err("none"), Ok("none")}),
   GetPhysicalChannelConfig |-> Ever({Ok("fits")}), GetNrSsbId |-> Reads]

NetworkReports ==
  NetworkStateReports @@ NetworkSearchReports @@ NetworkModeReports

VendorReportsOf ==
  [Call |-> CallControlReports @@ CallSupplementaryReports
              @@ CallDeviceReports,
   Data |-> DataReports, Modem |-> ModemReports, Sms |-> SmsReports,
   Sim |-> SimReports, Network |-> NetworkReports]

(* ReqGetNrSsbId reports to OnModemReport; the others to their own         *)
(* sub-module.                                                             *)
ReportsTo(subModule, op) == IF op = "GetNrSsbId" THEN "Modem" ELSE subModule
=============================================================================
