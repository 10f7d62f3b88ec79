----------------------------- MODULE HrilTables -----------------------------
(***************************************************************************)
(* What the HRIL manager can be asked (the forwarders of hril_manager.cpp, *)
(* each a TaskSchedule of one method of one sub-module) with what the sub- *)
(* modules do of it: the request each method makes and the handlers that   *)
(* answer.                                                                 *)
(***************************************************************************)
EXTENDS CallHandlers, DataHandlers, ModemHandlers, SmsHandlers, SimHandlers,
        NetworkHandlers, VendorOps

CallControlTasks ==
  {"SetEmergencyCallList", "GetEmergencyCallList", "GetCallList", "Dial",
   "Reject", "Hangup", "Answer", "HoldCall", "UnHoldCall", "SwitchCall",
   "CombineConference", "SeparateConference", "GetCallWaiting",
   "SetCallWaiting", "GetCallTransferInfo", "SetCallTransferInfo",
   "GetCallRestriction", "SetCallRestriction", "GetClip", "SetClip",
   "GetClir", "SetClir"}

CallDeviceTasks ==
  {"SetCallPreferenceMode", "GetCallPreferenceMode", "SetUssd", "GetUssd",
   "SetMute", "GetMute", "GetCallFailReason", "CallSupplement", "SendDtmf",
   "StartDtmf", "StopDtmf", "SetBarringPassword", "CloseUnFinishedUssd",
   "SetVonrSwitch"}

DataTasks ==
  {"ActivatePdpContext", "ActivatePdpContextWithApnTypes",
   "DeactivatePdpContext", "GetPdpContextList", "SetInitApnInfo",
   "GetLinkBandwidthInfo", "GetLinkCapability",
   "SetLinkBandwidthReportingRule", "SetDataPermitted", "SetDataProfileInfo",
   "SendDataPerformanceMode", "SendDataSleepMode", "CleanAllConnections",
   "SendUrspDecodeResult", "SendUePolicySectionIdentifier", "SendImsRsdList",
   "GetNetworkSliceAllowedNssai", "GetNetworkSliceEhplmn",
   "ActivatePdpContextWithApnTypesforSlice"}

ModemTasks ==
  {"SetRadioState", "GetRadioState", "GetImei", "GetImeiSv", "GetMeid",
   "GetVoiceRadioTechnology", "GetBasebandVersion", "ShutDown"}

SimTasks ==
  {"GetSimIO", "GetSimStatus", "GetImsi", "GetSimLockStatus", "SetSimLock",
   "ChangeSimPassword", "UnlockPin", "UnlockPuk", "UnlockPin2", "UnlockPuk2",
   "SetActiveSim", "SimStkSendTerminalResponse", "SimStkSendEnvelope",
   "SimStkSendCallSetupRequestResult", "SimStkIsReady", "GetRadioProtocol",
   "SetRadioProtocol", "SimOpenLogicalChannel",
   "SimOpenLogicalChannelWithPort", "SimCloseLogicalChannel",
   "SimTransmitApduLogicalChannel", "SimTransmitApduBasicChannel",
   "SimAuthentication", "UnlockSimLock", "SendSimMatchedOperatorInfo",
   "GetPrimarySlot", "SetPrimarySlot"}

NetworkTasks ==
  {"GetSignalStrength", "GetCsRegStatus", "GetPsRegStatus", "GetOperatorInfo",
   "GetNetworkSearchInformation", "GetNetworkSelectionMode",
   "SetNetworkSelectionMode", "GetNeighboringCellInfoList",
   "GetCurrentCellInfo", "SetPreferredNetwork", "GetPreferredNetwork",
   "GetPhysicalChannelConfig", "SetLocateUpdates", "SetNotificationFilter",
   "SetDeviceState", "SetNrOptionMode", "GetNrOptionMode",
   "GetRrcConnectionState", "GetNrSsbId"}

SmsTasks ==
  {"SendGsmSms", "SendCdmaSms", "AddSimMessage", "DelSimMessage",
   "UpdateSimMessage", "AddCdmaSimMessage", "DelCdmaSimMessage",
   "UpdateCdmaSimMessage", "SetSmscAddr", "GetSmscAddr", "SetCBConfig",
   "GetCBConfig", "SetCdmaCBConfig", "GetCdmaCBConfig", "SendSmsMoreMode",
   "SendSmsAck"}

HrilSubModules == {"Call", "Modem", "Network", "Sim", "Sms", "Data"}

TasksOf ==
  [Call |-> CallControlTasks \union CallDeviceTasks, Data |-> DataTasks,
   Modem |-> ModemTasks, Sim |-> SimTasks, Network |-> NetworkTasks,
   Sms |-> SmsTasks]

HrilMethods == UNION {TasksOf[s] : s \in HrilSubModules}
SubModuleOf(method) == CHOOSE s \in HrilSubModules : method \in TasksOf[s]

(* The request a method makes, under the version of the operations the     *)
(* vendor library registered.                                              *)
RequestsOf ==
  [Call |-> CallRequests, Data |-> DataRequests(VendorVersion),
   Modem |-> ModemRequests, Sim |-> SimRequests, Network |-> NetworkRequests,
   Sms |-> SmsRequests]
RequestMade(method) == RequestsOf[SubModuleOf(method)][method]

ResponseMaps ==
  [Call |-> CallResponses, Data |-> DataResponses, Modem |-> ModemResponses,
   Sim |-> SimResponses, Network |-> NetworkResponses, Sms |-> SmsResponses]

NoticeMaps ==
  [Call |-> CallNotices, Data |-> DataNotices, Modem |-> ModemNotices,
   Sim |-> SimNotices, Network |-> NetworkNotices, Sms |-> SmsNotices]
=============================================================================
