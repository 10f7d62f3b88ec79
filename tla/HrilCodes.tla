----------------------------- MODULE HrilCodes ------------------------------
(***************************************************************************)
(* The request and notification codes of the interface between the HRIL    *)
(* and the vendor library (hril_request.h, hril_notification.h), without   *)
(* their HREQ_ and HNOTI_ prefixes, and the lock policy of the             *)
(* notifications (hril_notification_map.h).                                *)
(***************************************************************************)

CallRequestCodes ==
  {"CALL_GET_CALL_LIST", "CALL_DIAL", "CALL_HANGUP", "CALL_REJECT",
   "CALL_ANSWER", "CALL_HOLD_CALL", "CALL_UNHOLD_CALL", "CALL_SWITCH_CALL",
   "CALL_COMBINE_CONFERENCE", "CALL_SEPARATE_CONFERENCE",
   "CALL_CALL_SUPPLEMENT", "CALL_SEND_DTMF", "CALL_START_DTMF",
   "CALL_STOP_DTMF", "CALL_SET_CLIP", "CALL_GET_CLIP",
   "CALL_GET_CALL_WAITING", "CALL_SET_CALL_WAITING",
   "CALL_GET_CALL_RESTRICTION", "CALL_SET_CALL_RESTRICTION",
   "CALL_GET_CALL_TRANSFER_INFO", "CALL_SET_CALL_TRANSFER_INFO",
   "CALL_GET_CLIR", "CALL_SET_CLIR", "CALL_GET_CALL_PREFERENCE",
   "CALL_SET_CALL_PREFERENCE", "CALL_SET_USSD", "CALL_GET_USSD",
   "CALL_SET_MUTE", "CALL_GET_MUTE", "CALL_GET_EMERGENCY_LIST",
   "CALL_SET_EMERGENCY_LIST", "CALL_GET_FAIL_REASON",
   "CALL_SET_BARRING_PASSWORD", "CALL_CLOSE_UNFINISHED_USSD",
   "EXPLICIT_CALL_TRANSFER_CONNECTION", "SET_VONR_SWITCH",
   "CALL_SET_SUPP_SRV_NOTIFICATION", "CALL_GET_TTY_MODE", "CALL_SET_TTY_MODE"}

SmsRequestCodes ==
  {"SMS_SEND_GSM_SMS", "SMS_SEND_CDMA_SMS", "SMS_ADD_SIM_MESSAGE",
   "SMS_DEL_SIM_MESSAGE", "SMS_UPDATE_SIM_MESSAGE", "SMS_SEND_SMS_MORE_MODE",
   "SMS_SEND_SMS_ACK", "SMS_SET_SMSC_ADDR", "SMS_GET_SMSC_ADDR",
   "SMS_SET_CB_CONFIG", "SMS_GET_CB_CONFIG", "SMS_GET_CDMA_CB_CONFIG",
   "SMS_SET_CDMA_CB_CONFIG", "SMS_ADD_CDMA_SIM_MESSAGE",
   "SMS_DEL_CDMA_SIM_MESSAGE", "SMS_UPDATE_CDMA_SIM_MESSAGE",
   "SMS_SET_MEMORY_STATUS"}

SimRequestCodes ==
  {"SIM_GET_SIM_STATUS", "SIM_GET_IMSI", "SIM_GET_SIM_IO",
   "SIM_GET_SIM_LOCK_STATUS", "SIM_SET_SIM_LOCK", "SIM_CHANGE_SIM_PASSWORD",
   "SIM_UNLOCK_PIN", "SIM_UNLOCK_PUK", "SIM_GET_SIM_PIN_INPUT_TIMES",
   "SIM_UNLOCK_PIN2", "SIM_UNLOCK_PUK2", "SIM_GET_SIM_PIN2_INPUT_TIMES",
   "SIM_SET_ACTIVE_SIM", "SIM_GET_RADIO_PROTOCOL", "SIM_SET_RADIO_PROTOCOL",
   "SIM_GET_PRIMARY_SLOT", "SIM_SET_PRIMARY_SLOT",
   "SIM_STK_SEND_TERMINAL_RESPONSE", "SIM_STK_SEND_ENVELOPE",
   "SIM_STK_SEND_ENVELOPE_RESPONSE_CONTAIN_STATUS",
   "SIM_STK_SEND_CALL_SETUP_REQUEST_RESULT", "SIM_STK_IS_READY",
   "SIM_OPEN_LOGICAL_CHANNEL", "SIM_CLOSE_LOGICAL_CHANNEL",
   "SIM_TRANSMIT_APDU_LOGICAL_CHANNEL", "SIM_TRANSMIT_APDU_BASIC_CHANNEL",
   "SIM_AUTHENTICATION", "SIM_UNLOCK_SIM_LOCK", "SIM_SEND_NCFG_OPER_INFO",
   "SIM_SET_SIM_POWER_STATE", "SIM_OPEN_LOGICAL_CHANNEL_WITH_PORT"}

DataRequestCodes ==
  {"DATA_SET_INIT_APN_INFO", "DATA_DEACTIVATE_PDP_CONTEXT",
   "DATA_ACTIVATE_PDP_CONTEXT", "DATA_GET_PDP_CONTEXT_LIST",
   "DATA_GET_LINK_BANDWIDTH_INFO", "DATA_SET_LINK_BANDWIDTH_REPORTING_RULE",
   "DATA_SET_DATA_PROFILE_INFO", "DATA_SEND_DATA_PERFORMANCE_MODE",
   "DATA_SEND_DATA_SLEEP_MODE", "DATA_SET_DATA_PERMITTED",
   "DATA_GET_LINK_CAPABILITY", "DATA_CLEAN_ALL_CONNECTIONS",
   "DATA_SEND_UEPOLICY_DECODE_RESULT", "DATA_SEND_UE_SECTION_IDENTIFIER",
   "DATA_SEND_IMS_RSD_LIST", "DATA_SYNC_ALLOWED_NSSAI_WITH_MODEM",
   "DATA_SYNC_EHPLMN_WITH_MODEM"}

NetworkRequestCodes ==
  {"NETWORK_GET_SIGNAL_STRENGTH", "NETWORK_GET_CS_REG_STATUS",
   "NETWORK_GET_PS_REG_STATUS", "NETWORK_GET_OPERATOR_INFO",
   "NETWORK_GET_NETWORK_SEARCH_INFORMATION",
   "NETWORK_GET_NETWORK_SELECTION_MODE", "NETWORK_SET_NETWORK_SELECTION_MODE",
   "NETWORK_GET_NEIGHBORING_CELLINFO_LIST", "NETWORK_GET_CURRENT_CELL_INFO",
   "NETWORK_SET_PREFERRED_NETWORK", "NETWORK_GET_PREFERRED_NETWORK",
   "NETWORK_GET_RADIO_CAPABILITY", "NETWORK_GET_PHYSICAL_CHANNEL_CONFIG",
   "NETWORK_SET_LOCATE_UPDATES", "NETWORK_SET_NOTIFICATION_FILTER",
   "NETWORK_SET_DEVICE_STATE", "NETWORK_GET_RRC_CONNECTION_STATE",
   "NETWORK_SET_NR_OPTION_MODE", "NETWORK_GET_NR_OPTION_MODE",
   "NETWORK_GET_NR_SSBID_INFO"}

ModemRequestCodes ==
  {"MODEM_SHUT_DOWN", "MODEM_SET_RADIO_STATUS", "MODEM_GET_RADIO_STATUS",
   "MODEM_GET_IMEI", "MODEM_GET_IMEISV", "MODEM_GET_MEID",
   "MODEM_GET_BASEBAND_VERSION", "MODEM_GET_VOICE_RADIO"}

RequestCodes ==
  [Call |-> CallRequestCodes, Sms |-> SmsRequestCodes, Sim |-> SimRequestCodes,
   Data |-> DataRequestCodes, Network |-> NetworkRequestCodes,
   Modem |-> ModemRequestCodes]

-----------------------------------------------------------------------------
CallNoticeIds ==
  {"CALL_STATE_UPDATED", "CALL_USSD_REPORT", "CALL_RINGBACK_VOICE_REPORT",
   "CALL_SRVCC_STATUS_REPORT", "CALL_EMERGENCY_NUMBER_REPORT",
   "CALL_SS_REPORT", "CALL_RSRVCC_STATUS_REPORT", "CALL_SUPP_SVC_NOTIFY"}

SmsNoticeIds ==
  {"SMS_NEW_SMS", "SMS_NEW_CDMA_SMS", "SMS_STATUS_REPORT",
   "SMS_NEW_SMS_STORED_ON_SIM", "CB_CONFIG_REPORT", "SMS_SIM_SMS_MEMORY_FULL"}

SimNoticeIds ==
  {"SIM_STATUS_CHANGED", "SIM_STK_SESSION_END_NOTIFY",
   "SIM_STK_PROACTIVE_NOTIFY", "SIM_STK_ALPHA_NOTIFY", "SIM_STK_EVENT_NOTIFY",
   "SIM_STK_CALL_SETUP_NOTIFY", "SIM_REFRESH_NOTIFY",
   "SIM_RADIO_PROTOCOL_UPDATED"}

DataNoticeIds ==
  {"DATA_PDP_CONTEXT_LIST_UPDATED", "DATA_LINK_CAPABILITY_UPDATED",
   "DATA_NETWORKSLICE_URSP_RPT", "DATA_NETWORKSLICE_ALLOWED_NSSAI_RPT",
   "DATA_NETWORKSLICE_EHPLMN_RPT"}

NetworkNoticeIds ==
  {"NETWORK_CS_REG_STATUS_UPDATED", "NETWORK_SIGNAL_STRENGTH_UPDATED",
   "NETWORK_TIME_UPDATED", "NETWORK_TIME_ZONE_UPDATED",
   "NETWORK_IMS_REG_STATUS_UPDATED", "NETWORK_PS_REG_STATUS_UPDATED",
   "NETWORK_PHY_CHNL_CFG_UPDATED", "NETWORK_CURRENT_CELL_UPDATED",
   "NETWORK_RRC_CONNECTION_STATE_UPDATED", "NETWORK_RESIDENT_NETWORK_UPDATED",
   "NETWORK_RESTRICTED_STATE_UPDATED"}

ModemNoticeIds ==
  {"MODEM_RADIO_STATE_UPDATED", "MODEM_VOICE_TECH_UPDATED",
   "MODEM_DSDS_MODE_UPDATED", "MODEM_NCFG_FINISHED_RESULT",
   "MODEM_RESTART_RILD_NV_MATCH"}

NotificationIds ==
  [Call |-> CallNoticeIds, Sms |-> SmsNoticeIds, Sim |-> SimNoticeIds,
   Data |-> DataNoticeIds, Network |-> NetworkNoticeIds,
   Modem |-> ModemNoticeIds]

(* notificationMap_: what is delivered under the running lock, what is     *)
(* delivered without; a code in neither set is delivered without too.      *)
NeedLock ==
  {"CALL_STATE_UPDATED", "CALL_USSD_REPORT", "CALL_RINGBACK_VOICE_REPORT",
   "CALL_SRVCC_STATUS_REPORT", "CALL_EMERGENCY_NUMBER_REPORT",
   "CALL_RSRVCC_STATUS_REPORT", "SMS_NEW_SMS", "SMS_NEW_CDMA_SMS",
   "SMS_STATUS_REPORT", "SMS_NEW_SMS_STORED_ON_SIM", "CB_CONFIG_REPORT",
   "SIM_STATUS_CHANGED", "SIM_STK_SESSION_END_NOTIFY",
   "SIM_STK_PROACTIVE_NOTIFY", "SIM_STK_ALPHA_NOTIFY", "SIM_STK_EVENT_NOTIFY",
   "SIM_STK_CALL_SETUP_NOTIFY", "DATA_PDP_CONTEXT_LIST_UPDATED",
   "DATA_LINK_CAPABILITY_UPDATED", "NETWORK_CS_REG_STATUS_UPDATED",
   "NETWORK_TIME_UPDATED", "NETWORK_TIME_ZONE_UPDATED",
   "NETWORK_PS_REG_STATUS_UPDATED", "NETWORK_PHY_CHNL_CFG_UPDATED",
   "NETWORK_CURRENT_CELL_UPDATED", "MODEM_RADIO_STATE_UPDATED",
   "MODEM_VOICE_TECH_UPDATED", "MODEM_DSDS_MODE_UPDATED",
   "MODEM_NCFG_FINISHED_RESULT", "MODEM_RESTART_RILD_NV_MATCH",
   "DATA_NETWORKSLICE_URSP_RPT", "DATA_NETWORKSLICE_ALLOWED_NSSAI_RPT",
   "DATA_NETWORKSLICE_EHPLMN_RPT"}

UnneedLock ==
  {"NETWORK_SIGNAL_STRENGTH_UPDATED", "NETWORK_RRC_CONNECTION_STATE_UPDATED"}

(* notificationEventMap_, the names for the log, has the same keys; what   *)
(* it does not name is delivered without the lock whatever its policy.     *)
NamedNotices == NeedLock \union UnneedLock
LockedNotices == NeedLock \intersect NamedNotices
=============================================================================
