---------------------------- MODULE SimHandlers -----------------------------
(***************************************************************************)
(* HRilSim (hril_sim.cpp): requests, response handlers and notification    *)
(* handlers.  Every request goes through RequestVendor, to the operation   *)
(* of its own name except GetImsi.                                         *)
(***************************************************************************)
EXTENDS Payloads, TLC

SimCardCodes ==
  [GetSimIO |-> "SIM_GET_SIM_IO", GetSimStatus |-> "SIM_GET_SIM_STATUS",
   GetImsi |-> "SIM_GET_IMSI", GetSimLockStatus |-> "SIM_GET_SIM_LOCK_STATUS",
   SetSimLock |-> "SIM_SET_SIM_LOCK",
   ChangeSimPassword |-> "SIM_CHANGE_SIM_PASSWORD",
   UnlockPin |-> "SIM_UNLOCK_PIN", UnlockPuk |-> "SIM_UNLOCK_PUK",
   UnlockPin2 |-> "SIM_UNLOCK_PIN2", UnlockPuk2 |-> "SIM_UNLOCK_PUK2",
   SetActiveSim |-> "SIM_SET_ACTIVE_SIM"]

SimServiceCodes ==
  [SimStkSendTerminalResponse |-> "SIM_STK_SEND_TERMINAL_RESPONSE",
   SimStkSendEnvelope |-> "SIM_STK_SEND_ENVELOPE",
   SimStkSendCallSetupRequestResult |->
     "SIM_STK_SEND_CALL_SETUP_REQUEST_RESULT",
   SimStkIsReady |-> "SIM_STK_IS_READY",
   GetRadioProtocol |-> "SIM_GET_RADIO_PROTOCOL",
   SetRadioProtocol |-> "SIM_SET_RADIO_PROTOCOL",
   SimOpenLogicalChannel |-> "SIM_OPEN_LOGICAL_CHANNEL",
   SimOpenLogicalChannelWithPort |-> "SIM_OPEN_LOGICAL_CHANNEL_WITH_PORT",
   SimCloseLogicalChannel |-> "SIM_CLOSE_LOGICAL_CHANNEL",
   SimTransmitApduLogicalChannel |-> "SIM_TRANSMIT_APDU_LOGICAL_CHANNEL",
   SimTransmitApduBasicChannel |-> "SIM_TRANSMIT_APDU_BASIC_CHANNEL",
   SimAuthentication |-> "SIM_AUTHENTICATION",
   UnlockSimLock |-> "SIM_UNLOCK_SIM_LOCK",
   SendSimMatchedOperatorInfo |-> "SIM_SEND_NCFG_OPER_INFO"]

PrimarySlotCodes == [GetPrimarySlot |-> "SIM_GET_PRIMARY_SLOT",
                     SetPrimarySlot |-> "SIM_SET_PRIMARY_SLOT"]

SimCodes == SimCardCodes @@ SimServiceCodes @@ PrimarySlotCodes

SimRequests ==
  [m \in DOMAIN SimCodes |->
     ViaVendor(SimCodes[m], IF m = "GetImsi" THEN "GetSimImsi" ELSE m)]

-----------------------------------------------------------------------------
(* The codes the constructor registers a handler for.                      *)

SimBasicResponses ==
  {"SIM_GET_SIM_IO", "SIM_GET_SIM_STATUS", "SIM_GET_IMSI",
   "SIM_SET_ACTIVE_SIM", "SIM_GET_RADIO_PROTOCOL", "SIM_SET_RADIO_PROTOCOL",
   "SIM_OPEN_LOGICAL_CHANNEL", "SIM_CLOSE_LOGICAL_CHANNEL",
   "SIM_TRANSMIT_APDU_LOGICAL_CHANNEL", "SIM_TRANSMIT_APDU_BASIC_CHANNEL",
   "SIM_SEND_NCFG_OPER_INFO", "SIM_GET_PRIMARY_SLOT", "SIM_SET_PRIMARY_SLOT",
   "SIM_OPEN_LOGICAL_CHANNEL_WITH_PORT"}

SimLockResponses ==
  {"SIM_GET_SIM_LOCK_STATUS", "SIM_SET_SIM_LOCK", "SIM_CHANGE_SIM_PASSWORD",
   "SIM_UNLOCK_PIN", "SIM_UNLOCK_PUK", "SIM_UNLOCK_PIN2", "SIM_UNLOCK_PUK2",
   "SIM_AUTHENTICATION", "SIM_UNLOCK_SIM_LOCK"}

SimStkResponses ==
  {"SIM_STK_SEND_TERMINAL_RESPONSE", "SIM_STK_SEND_ENVELOPE",
   "SIM_STK_SEND_CALL_SETUP_REQUEST_RESULT", "SIM_STK_IS_READY"}

SimNoticeCodes ==
  {"SIM_STATUS_CHANGED", "SIM_STK_SESSION_END_NOTIFY",
   "SIM_STK_PROACTIVE_NOTIFY", "SIM_STK_ALPHA_NOTIFY",
   "SIM_STK_EVENT_NOTIFY", "SIM_STK_CALL_SETUP_NOTIFY", "SIM_REFRESH_NOTIFY",
   "SIM_RADIO_PROTOCOL_UPDATED"}

-----------------------------------------------------------------------------
(* BuildSimIOResp: one record, or nothing, which puts in an error.         *)
IccResult == Filling({"none"} \union OneRecord, {"none"})

(* A failure to read the IMSI is reported as an empty one, without error;  *)
(* a channel that did not open, as channel -1 without error.               *)
ImsiResult    == [Bare EXCEPT !.clears = NullPayloads]
ChannelResult == [Bare EXCEPT !.clears = Payload \ OneRecord]

SimCardHandlers ==
  [c \in {"SIM_GET_SIM_IO", "SIM_GET_SIM_STATUS"} |-> IccResult] @@
  [c \in {"SIM_GET_IMSI"} |-> ImsiResult] @@
  [c \in {"SIM_GET_SIM_LOCK_STATUS", "SIM_SET_SIM_LOCK",
          "SIM_CHANGE_SIM_PASSWORD", "SIM_UNLOCK_PIN", "SIM_UNLOCK_PUK",
          "SIM_UNLOCK_PIN2", "SIM_UNLOCK_PUK2"} |-> LenientExact] @@
  [c \in {"SIM_SET_ACTIVE_SIM", "SIM_STK_SEND_TERMINAL_RESPONSE",
          "SIM_STK_SEND_ENVELOPE", "SIM_STK_SEND_CALL_SETUP_REQUEST_RESULT"}
     |-> Bare]

SimServiceHandlers ==
  [c \in {"SIM_TRANSMIT_APDU_LOGICAL_CHANNEL",
          "SIM_TRANSMIT_APDU_BASIC_CHANNEL", "SIM_AUTHENTICATION"}
     |-> IccResult] @@
  [c \in {"SIM_OPEN_LOGICAL_CHANNEL", "SIM_OPEN_LOGICAL_CHANNEL_WITH_PORT"}
     |-> ChannelResult] @@
  [c \in {"SIM_GET_RADIO_PROTOCOL", "SIM_SET_RADIO_PROTOCOL",
          "SIM_UNLOCK_SIM_LOCK"} |-> LenientExact] @@
  [c \in {"SIM_STK_IS_READY", "SIM_CLOSE_LOGICAL_CHANNEL",
          "SIM_SEND_NCFG_OPER_INFO"} |-> Bare]

PrimarySlotHandlers ==
  [c \in {"SIM_GET_PRIMARY_SLOT"} |-> LenientExact] @@
  [c \in {"SIM_SET_PRIMARY_SLOT"} |-> Bare]

SimNoticeHandlers ==
  [c \in {"SIM_STATUS_CHANGED", "SIM_STK_SESSION_END_NOTIFY",
          "SIM_STK_CALL_SETUP_NOTIFY", "SIM_REFRESH_NOTIFY"} |-> AnyNotice] @@
  [c \in {"SIM_STK_PROACTIVE_NOTIFY", "SIM_STK_ALPHA_NOTIFY",
          "SIM_STK_EVENT_NOTIFY"} |-> DataPayloads] @@
  [c \in {"SIM_RADIO_PROTOCOL_UPDATED"} |-> RecordNotice]

SimHandlerOf == SimCardHandlers @@ SimServiceHandlers @@ PrimarySlotHandlers
SimResponses ==
  [c \in SimBasicResponses \union SimLockResponses \union SimStkResponses
     |-> SimHandlerOf[c]]
SimNotices == [c \in SimNoticeCodes |-> SimNoticeHandlers[c]]
=============================================================================
