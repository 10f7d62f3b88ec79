--------------------------- MODULE ModemHandlers ----------------------------
(* HRilModem (hril_modem.cpp): requests, response and notification handlers. *)
EXTENDS Payloads, TLC

ModemCodes ==
  [ShutDown |-> "MODEM_SHUT_DOWN", SetRadioState |-> "MODEM_SET_RADIO_STATUS",
   GetRadioState |-> "MODEM_GET_RADIO_STATUS", GetImei |-> "MODEM_GET_IMEI",
   GetImeiSv |-> "MODEM_GET_IMEISV", GetMeid |-> "MODEM_GET_MEID",
   GetVoiceRadioTechnology |-> "MODEM_GET_VOICE_RADIO",
   GetBasebandVersion |-> "MODEM_GET_BASEBAND_VERSION"]

ModemRequests == [m \in DOMAIN ModemCodes |-> ViaVendor(ModemCodes[m], m)]

(* AddHandlerToMap: HRilModem registers a code of the SIM module as well.  *)
ModemResponseCodes ==
  {"MODEM_SHUT_DOWN", "MODEM_SET_RADIO_STATUS", "SIM_SET_ACTIVE_SIM",
   "MODEM_GET_RADIO_STATUS", "MODEM_GET_IMEI", "MODEM_GET_IMEISV",
   "MODEM_GET_MEID", "MODEM_GET_VOICE_RADIO", "MODEM_GET_BASEBAND_VERSION"}

ModemStateHandlers ==
  [c \in {"MODEM_SHUT_DOWN", "MODEM_SET_RADIO_STATUS"} |-> Bare] @@
  [c \in {"MODEM_GET_RADIO_STATUS"} |-> LenientRecord] @@
  [c \in {"MODEM_GET_IMEI", "MODEM_GET_IMEISV", "MODEM_GET_MEID"}
     |-> LenientText]

ModemVersionHandlers ==
  [c \in {"MODEM_GET_VOICE_RADIO"} |-> LenientRecord] @@
  [c \in {"MODEM_GET_BASEBAND_VERSION"} |-> LenientText]

ActiveSimHandler == [c \in {"SIM_SET_ACTIVE_SIM"} |-> Bare]

ModemHandlerOf == ModemStateHandlers @@ ModemVersionHandlers
                    @@ ActiveSimHandler
ModemResponses == [c \in ModemResponseCodes |-> ModemHandlerOf[c]]

(* Faulty: AddHandlerToMap leaves out what the lock policy has.            *)
ModemNoticesForgotten ==
  [c \in {"MODEM_RADIO_STATE_UPDATED", "MODEM_VOICE_TECH_UPDATED",
          "MODEM_DSDS_MODE_UPDATED"} |-> ListNotice]

ModemNotices ==
  [c \in {"MODEM_RADIO_STATE_UPDATED", "MODEM_VOICE_TECH_UPDATED",
          "MODEM_DSDS_MODE_UPDATED", "MODEM_NCFG_FINISHED_RESULT",
          "MODEM_RESTART_RILD_NV_MATCH"} |-> ListNotice]
=============================================================================
