---------------------------- MODULE CallHandlers ----------------------------
(***************************************************************************)
(* HRilCall (hril_call.cpp): the requests it passes to the vendor library, *)
(* with the code each is registered and answered under, and its response   *)
(* and notification handlers.  Every request goes through RequestVendor    *)
(* to the operation of its own name.                                       *)
(***************************************************************************)
EXTENDS Payloads, TLC

CallControlCodes ==
  [GetCallList |-> "CALL_GET_CALL_LIST", Dial |-> "CALL_DIAL",
   Hangup |-> "CALL_HANGUP", Reject |-> "CALL_REJECT",
   Answer |-> "CALL_ANSWER", HoldCall |-> "CALL_HOLD_CALL",
   UnHoldCall |-> "CALL_UNHOLD_CALL", SwitchCall |-> "CALL_SWITCH_CALL",
   CombineConference |-> "CALL_COMBINE_CONFERENCE",
   SeparateConference |-> "CALL_SEPARATE_CONFERENCE",
   CallSupplement |-> "CALL_CALL_SUPPLEMENT"]

CallSupplementaryCodes ==
  [GetClip |-> "CALL_GET_CLIP", SetClip |-> "CALL_SET_CLIP",
   GetClir |-> "CALL_GET_CLIR", SetClir |-> "CALL_SET_CLIR",
   GetCallRestriction |-> "CALL_GET_CALL_RESTRICTION",
   SetCallRestriction |-> "CALL_SET_CALL_RESTRICTION",
   GetCallWaiting |-> "CALL_GET_CALL_WAITING",
   SetCallWaiting |-> "CALL_SET_CALL_WAITING",
   GetCallTransferInfo |-> "CALL_GET_CALL_TRANSFER_INFO",
   SetCallTransferInfo |-> "CALL_SET_CALL_TRANSFER_INFO",
   GetCallPreferenceMode |-> "CALL_GET_CALL_PREFERENCE",
   SetCallPreferenceMode |-> "CALL_SET_CALL_PREFERENCE",
   SetUssd |-> "CALL_SET_USSD", GetUssd |-> "CALL_GET_USSD"]

CallDeviceCodes ==
  [SetMute |-> "CALL_SET_MUTE", GetMute |-> "CALL_GET_MUTE",
   GetCallFailReason |-> "CALL_GET_FAIL_REASON",
   GetEmergencyCallList |-> "CALL_GET_EMERGENCY_LIST",
   SetBarringPassword |-> "CALL_SET_BARRING_PASSWORD",
   StartDtmf |-> "CALL_START_DTMF", SendDtmf |-> "CALL_SEND_DTMF",
   StopDtmf |-> "CALL_STOP_DTMF",
   CloseUnFinishedUssd |-> "CALL_CLOSE_UNFINISHED_USSD",
   SetVonrSwitch |-> "SET_VONR_SWITCH"]

CallEmergencyCodes == [SetEmergencyCallList |-> "CALL_SET_EMERGENCY_LIST"]

CallCodes == CallControlCodes @@ CallSupplementaryCodes @@ CallDeviceCodes
               @@ CallEmergencyCodes

CallRequests == [m \in DOMAIN CallCodes |-> ViaVendor(CallCodes[m], m)]

-----------------------------------------------------------------------------
(* The codes the constructor registers a handler for.                      *)

CallBasicResponses ==
  {"CALL_GET_CALL_LIST", "CALL_DIAL", "CALL_HANGUP", "CALL_REJECT",
   "CALL_ANSWER", "CALL_HOLD_CALL", "CALL_UNHOLD_CALL", "CALL_SWITCH_CALL",
   "CALL_COMBINE_CONFERENCE", "CALL_SEPARATE_CONFERENCE",
   "CALL_GET_EMERGENCY_LIST", "CALL_SET_EMERGENCY_LIST",
   "CALL_GET_FAIL_REASON", "CALL_SET_BARRING_PASSWORD",
   "CALL_CLOSE_UNFINISHED_USSD"}

CallSupplementResponses ==
  {"CALL_GET_CLIP", "CALL_SET_CLIP", "CALL_CALL_SUPPLEMENT",
   "CALL_GET_CALL_WAITING", "CALL_SET_CALL_WAITING",
   "CALL_GET_CALL_TRANSFER_INFO", "CALL_SET_CALL_TRANSFER_INFO",
   "CALL_GET_CALL_RESTRICTION", "CALL_SET_CALL_RESTRICTION",
   "CALL_GET_CLIR", "CALL_SET_CLIR", "CALL_GET_CALL_PREFERENCE",
   "CALL_SET_CALL_PREFERENCE", "CALL_SET_USSD", "CALL_GET_USSD"}

CallAdditionalResponses ==
  {"CALL_START_DTMF", "CALL_SEND_DTMF", "CALL_STOP_DTMF", "CALL_SET_MUTE",
   "CALL_GET_MUTE", "SET_VONR_SWITCH"}

CallNoticeCodes ==
  {"CALL_STATE_UPDATED", "CALL_USSD_REPORT", "CALL_SRVCC_STATUS_REPORT",
   "CALL_RINGBACK_VOICE_REPORT", "CALL_EMERGENCY_NUMBER_REPORT",
   "CALL_SS_REPORT", "CALL_RSRVCC_STATUS_REPORT"}

-----------------------------------------------------------------------------
(* The handlers.  A response handler that reads a record accepts the       *)
(* record or nothing; one that reads a list, any whole number of records.  *)

CallControlHandlers ==
  [c \in {"CALL_GET_CALL_LIST"} |-> OptionalList] @@
  [c \in {"CALL_DIAL", "CALL_HANGUP", "CALL_REJECT", "CALL_ANSWER",
          "CALL_HOLD_CALL"} |-> Bare]

CallConferenceHandlers ==
  [c \in {"CALL_GET_CLIP", "CALL_GET_CALL_WAITING"} |-> OptionalRecord] @@
  [c \in {"CALL_GET_CALL_TRANSFER_INFO"} |-> OptionalList] @@
  [c \in {"CALL_SET_CLIP", "CALL_UNHOLD_CALL", "CALL_SWITCH_CALL",
          "CALL_COMBINE_CONFERENCE", "CALL_SEPARATE_CONFERENCE",
          "CALL_CALL_SUPPLEMENT", "CALL_SET_CALL_WAITING",
          "CALL_SET_CALL_TRANSFER_INFO"} |-> Bare]

CallSettingHandlers ==
  [c \in {"CALL_GET_CLIR", "CALL_GET_CALL_RESTRICTION",
          "CALL_GET_CALL_PREFERENCE", "CALL_GET_MUTE"} |-> OptionalRecord] @@
  [c \in {"CALL_SET_CLIR", "CALL_SET_CALL_RESTRICTION",
          "CALL_SET_BARRING_PASSWORD", "CALL_START_DTMF", "CALL_SEND_DTMF",
          "CALL_STOP_DTMF", "CALL_SET_CALL_PREFERENCE", "CALL_SET_USSD",
          "CALL_SET_MUTE"} |-> Bare]

CallRecordHandlers ==
  [c \in {"CALL_GET_USSD", "CALL_GET_FAIL_REASON"} |-> OptionalRecord] @@
  [c \in {"CALL_GET_EMERGENCY_LIST"} |-> OptionalList] @@
  [c \in {"CALL_SET_EMERGENCY_LIST", "CALL_CLOSE_UNFINISHED_USSD",
          "SET_VONR_SWITCH"} |-> Bare]

CallNoticeHandlers ==
  [c \in {"CALL_STATE_UPDATED", "CALL_RSRVCC_STATUS_REPORT"} |-> AnyNotice] @@
  [c \in {"CALL_USSD_REPORT", "CALL_SS_REPORT", "CALL_SRVCC_STATUS_REPORT",
          "CALL_RINGBACK_VOICE_REPORT"} |-> RecordNotice] @@
  [c \in {"CALL_EMERGENCY_NUMBER_REPORT"} |-> ListNotice]

CallHandlerOf == CallControlHandlers @@ CallConferenceHandlers
                   @@ CallSettingHandlers @@ CallRecordHandlers

(* respMemberFuncMap_ and notiMemberFuncMap_.                              *)
CallResponses ==
  [c \in CallBasicResponses \union CallSupplementResponses
           \union CallAdditionalResponses |-> CallHandlerOf[c]]
CallNotices == [c \in CallNoticeCodes |-> CallNoticeHandlers[c]]
=============================================================================
