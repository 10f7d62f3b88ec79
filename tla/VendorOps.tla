----------------------------- MODULE VendorOps ------------------------------
(***************************************************************************)
(* The operations an HRilOps table may hold (the HRil*Req structs of       *)
(* hril_vendor_*_defs.h) and those the vendor library of the repository    *)
(* leaves null in the tables it registers (vendor_adapter.c).              *)
(***************************************************************************)

CallControlOps ==
  {"GetCallList", "Dial", "Hangup", "Reject", "Answer", "GetClip", "SetClip",
   "HoldCall", "UnHoldCall", "SwitchCall", "CombineConference",
   "SeparateConference", "CallSupplement"}

CallSupplementaryOps ==
  {"GetCallWaiting", "SetCallWaiting", "SetCallTransferInfo",
   "GetCallTransferInfo", "GetCallRestriction", "SetCallRestriction",
   "GetClir", "SetClir", "StartDtmf", "SendDtmf", "StopDtmf", "GetImsCallList"}

CallDeviceOps ==
  {"GetCallPreferenceMode", "SetCallPreferenceMode", "GetLteImsSwitchStatus",
   "SetLteImsSwitchStatus", "SetUssd", "GetUssd", "SetMute", "GetMute",
   "GetEmergencyCallList", "GetCallFailReason", "SetEmergencyCallList",
   "SetBarringPassword", "CloseUnFinishedUssd",
   "ExplicitCallTransferConnection", "SetVonrSwitch",
   "SetSuppSrvNotification", "GetTTYMode", "SetTTYMode"}

CallOps == CallControlOps \union CallSupplementaryOps \union CallDeviceOps

PdpOps ==
  {"SetInitApnInfo", "ActivatePdpContext", "DeactivatePdpContext",
   "GetPdpContextList", "GetLinkBandwidthInfo",
   "SetLinkBandwidthReportingRule", "SetDataProfileInfo",
   "SendDataPerformanceMode", "SendDataSleepMode", "SetDataPermitted",
   "GetLinkCapability", "CleanAllConnections"}

ApnTypesAndSliceOps ==
  {"ActivatePdpContextWithApnTypes", "SendUrspDecodeResult",
   "SendUePolicySectionIdentifier", "SendImsRsdList",
   "GetNetworkSliceAllowedNssai", "GetNetworkSliceEhplmn",
   "ActivatePdpContextWithApnTypesforSlice"}

DataOps == PdpOps \union ApnTypesAndSliceOps

ModemOps ==
  {"SetRadioState", "GetRadioState", "GetImei", "GetImeiSv", "GetMeid",
   "GetVoiceRadioTechnology", "GetBasebandVersion", "ShutDown"}

SimOps ==
  {"GetSimStatus", "GetSimIO", "GetSimImsi", "GetSimLockStatus", "SetSimLock",
   "ChangeSimPassword", "UnlockPin", "UnlockPuk", "GetSimPinInputTimes",
   "UnlockPin2", "UnlockPuk2", "GetSimPin2InputTimes", "SetActiveSim",
   "SimStkSendTerminalResponse", "SimStkSendEnvelope",
   "SimStkSendEnvelopeResponseContainStatus",
   "SimStkSendCallSetupRequestResult", "SimStkIsReady", "GetRadioProtocol",
   "SetRadioProtocol", "SimOpenLogicalChannel", "SimCloseLogicalChannel",
   "SimTransmitApduLogicalChannel", "SimTransmitApduBasicChannel",
   "SimAuthentication", "UnlockSimLock", "SendSimMatchedOperatorInfo",
   "SetSimPowerState", "GetPrimarySlot", "SetPrimarySlot",
   "SimOpenLogicalChannelWithPort"}

NetworkOps ==
  {"GetImsRegStatus", "GetSignalStrength", "GetCsRegStatus", "GetPsRegStatus",
   "GetOperatorInfo", "GetNeighboringCellInfoList", "GetCurrentCellInfo",
   "GetNetworkSearchInformation", "GetNetworkSelectionMode",
   "SetNetworkSelectionMode", "GetPreferredNetwork", "SetPreferredNetwork",
   "GetPhysicalChannelConfig", "SetLocateUpdates", "SetNotificationFilter",
   "SetDeviceState", "GetRrcConnectionState", "SetNrOptionMode",
   "GetNrOptionMode", "GetNrSsbId"}

SmsOps ==
  {"SendGsmSms", "SendSmsAck", "SendCdmaSms", "SendCdmaAck", "AddSimMessage",
   "DelSimMessage", "UpdateSimMessage", "SetSmscAddr", "GetSmscAddr",
   "SetCBConfig", "GetCBConfig", "GetCdmaCBConfig", "SetCdmaCBConfig",
   "AddCdmaSimMessage", "AddCdmaSimMessageV2", "DelCdmaSimMessage",
   "UpdateCdmaSimMessage", "SetSmsMemoryStatus"}

-----------------------------------------------------------------------------
(* What g_*ReqOps do not mention.                                          *)
CallMissing ==
  {"GetImsCallList", "GetLteImsSwitchStatus", "SetLteImsSwitchStatus",
   "ExplicitCallTransferConnection", "SetSuppSrvNotification", "GetTTYMode",
   "SetTTYMode"}

DataMissing ==
  {"SetDataProfileInfo", "SendDataPerformanceMode", "SendDataSleepMode",
   "SendUrspDecodeResult", "SendUePolicySectionIdentifier", "SendImsRsdList",
   "GetNetworkSliceAllowedNssai", "GetNetworkSliceEhplmn",
   "ActivatePdpContextWithApnTypesforSlice"}

ModemMissing ==
  {"GetBasebandVersion", "ShutDown"}

SimMissing ==
  {"GetSimPinInputTimes", "GetSimPin2InputTimes",
   "SimStkSendEnvelopeResponseContainStatus", "SimTransmitApduBasicChannel",
   "SetSimPowerState", "GetPrimarySlot", "SetPrimarySlot",
   "SimOpenLogicalChannelWithPort"}

NetworkMissing ==
  {"GetImsRegStatus", "GetRrcConnectionState", "SetNrOptionMode",
   "GetNrOptionMode"}

SmsMissing ==
  {"AddCdmaSimMessage", "SetSmsMemoryStatus"}

(* g_hrilOps, whose version is not given and is 0.                         *)
VendorVersion == 0

Implemented ==
  [Call |-> CallOps \ CallMissing, Data |-> DataOps \ DataMissing,
   Modem |-> ModemOps \ ModemMissing, Sim |-> SimOps \ SimMissing,
   Network |-> NetworkOps \ NetworkMissing, Sms |-> SmsOps \ SmsMissing]
=============================================================================
