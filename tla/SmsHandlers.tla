---------------------------- MODULE SmsHandlers -----------------------------
(***************************************************************************)
(* HRilSms (hril_sms.cpp).  Some requests check the message first, and     *)
(* some look for the operation themselves: when it is missing the caller   *)
(* gets an error from the call but no CommonErrorResponse.                 *)
(***************************************************************************)
EXTENDS Payloads, TLC

(* It looks for the operation before it goes through RequestVendor.        *)
RequestWithStrings(code) == ViaOwnCall(code, "SendGsmSms")

SmsMessageRequests ==
  [SendGsmSms |-> RequestWithStrings("SMS_SEND_GSM_SMS"),
   SendCdmaSms |-> ViaVendor("SMS_SEND_CDMA_SMS", "SendCdmaSms"),
   AddSimMessage |-> CheckedVendor("SMS_ADD_SIM_MESSAGE", "AddSimMessage"),
   DelSimMessage |-> ViaOwnCall("SMS_DEL_SIM_MESSAGE", "DelSimMessage"),
   UpdateSimMessage |->
     CheckedVendor("SMS_UPDATE_SIM_MESSAGE", "UpdateSimMessage"),
   SetSmscAddr |-> CheckedVendor("SMS_SET_SMSC_ADDR", "SetSmscAddr"),
   GetSmscAddr |-> ViaVendor("SMS_GET_SMSC_ADDR", "GetSmscAddr")]

SmsBroadcastRequests ==
  [SetCBConfig |-> CheckedVendor("SMS_SET_CB_CONFIG", "SetCBConfig"),
   GetCBConfig |-> ViaVendor("SMS_GET_CB_CONFIG", "GetCBConfig"),
   SetCdmaCBConfig |->
     ViaOwnCall("SMS_SET_CDMA_CB_CONFIG", "SetCdmaCBConfig"),
   GetCdmaCBConfig |->
     ViaVendor("SMS_GET_CDMA_CB_CONFIG", "GetCdmaCBConfig"),
   SendSmsMoreMode |-> RequestWithStrings("SMS_SEND_SMS_MORE_MODE")]

SmsCdmaRequests ==
  [SendSmsAck |-> ViaOwnCall("SMS_SEND_SMS_ACK", "SendSmsAck"),
   AddCdmaSimMessage |->
     CheckedVendor("SMS_ADD_CDMA_SIM_MESSAGE", "AddCdmaSimMessageV2"),
   DelCdmaSimMessage |->
     ViaOwnCall("SMS_DEL_CDMA_SIM_MESSAGE", "DelCdmaSimMessage"),
   UpdateCdmaSimMessage |->
     CheckedVendor("SMS_UPDATE_CDMA_SIM_MESSAGE", "UpdateCdmaSimMessage")]

SmsRequests == SmsMessageRequests @@ SmsBroadcastRequests @@ SmsCdmaRequests

-----------------------------------------------------------------------------
(* AddHandlerToMap and AddNotificationToMap.                               *)

SmsResponseCodes ==
  {"SMS_SEND_GSM_SMS", "SMS_SEND_SMS_MORE_MODE", "SMS_SEND_SMS_ACK",
   "SMS_ADD_SIM_MESSAGE", "SMS_DEL_SIM_MESSAGE", "SMS_UPDATE_SIM_MESSAGE",
   "SMS_SET_SMSC_ADDR", "SMS_GET_SMSC_ADDR", "SMS_SET_CB_CONFIG",
   "SMS_GET_CB_CONFIG", "SMS_GET_CDMA_CB_CONFIG", "SMS_SET_CDMA_CB_CONFIG",
   "SMS_SEND_CDMA_SMS", "SMS_ADD_CDMA_SIM_MESSAGE",
   "SMS_DEL_CDMA_SIM_MESSAGE", "SMS_UPDATE_CDMA_SIM_MESSAGE"}

SmsNoticeCodes ==
  {"SMS_NEW_SMS", "SMS_NEW_CDMA_SMS", "SMS_STATUS_REPORT",
   "SMS_NEW_SMS_STORED_ON_SIM", "CB_CONFIG_REPORT"}

(* GetCBConfigResponse answers with an empty configuration, and no error,  *)
(* when there is nothing to read.                                          *)
SmsMessageHandlers ==
  [c \in {"SMS_SEND_GSM_SMS", "SMS_SEND_CDMA_SMS", "SMS_GET_SMSC_ADDR"}
     |-> LenientExact] @@
  [c \in {"SMS_ADD_SIM_MESSAGE", "SMS_DEL_SIM_MESSAGE",
          "SMS_UPDATE_SIM_MESSAGE", "SMS_SET_SMSC_ADDR", "SMS_SET_CB_CONFIG",
          "SMS_GET_CB_CONFIG"} |-> Bare]

SmsCdmaHandlers ==
  [c \in {"SMS_SEND_SMS_MORE_MODE"} |-> LenientExact] @@
  [c \in {"SMS_SET_CDMA_CB_CONFIG", "SMS_GET_CDMA_CB_CONFIG",
          "SMS_SEND_SMS_ACK", "SMS_ADD_CDMA_SIM_MESSAGE",
          "SMS_DEL_CDMA_SIM_MESSAGE", "SMS_UPDATE_CDMA_SIM_MESSAGE"} |-> Bare]

(* A short message is forwarded when its PDU is a hexadecimal string.      *)
SmsNoticeHandlers ==
  [c \in {"SMS_STATUS_REPORT"} |-> TextNotice \ {"bad"}] @@
  [c \in {"SMS_NEW_SMS_STORED_ON_SIM"} |-> RecordNotice] @@
  [c \in {"SMS_NEW_SMS", "SMS_NEW_CDMA_SMS"} |-> {"fits", "many"}] @@
  [c \in {"CB_CONFIG_REPORT"} |-> AnyNotice]

SmsHandlerOf == SmsMessageHandlers @@ SmsCdmaHandlers
SmsResponses == [c \in SmsResponseCodes |-> SmsHandlerOf[c]]
SmsNotices == [c \in SmsNoticeCodes |-> SmsNoticeHandlers[c]]
=============================================================================
