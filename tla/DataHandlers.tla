---------------------------- MODULE DataHandlers ----------------------------
(***************************************************************************)
(* HRilData (hril_data.cpp): requests, response handlers and notification  *)
(* handlers.  Several requests share the code ACTIVATE_PDP_CONTEXT, and    *)
(* which operation they go to depends on the version the vendor library    *)
(* registered.                                                             *)
(***************************************************************************)
EXTENDS Payloads, TLC, Naturals

ActiveVersion == 13   \* HRILOPS_ACTIVE_VERSION

ActivateFor(version, op) ==
  ViaVendor("DATA_ACTIVATE_PDP_CONTEXT",
            IF version < ActiveVersion THEN "ActivatePdpContext" ELSE op)

PdpRequests(version) ==
  [DeactivatePdpContext |->
     ViaVendor("DATA_DEACTIVATE_PDP_CONTEXT", "DeactivatePdpContext"),
   ActivatePdpContext |->
     ViaVendor("DATA_ACTIVATE_PDP_CONTEXT", "ActivatePdpContext"),
   ActivatePdpContextWithApnTypes |->
     ActivateFor(version, "ActivatePdpContextWithApnTypes"),
   GetPdpContextList |->
     ViaVendor("DATA_GET_PDP_CONTEXT_LIST", "GetPdpContextList"),
   SetInitApnInfo |-> ViaVendor("DATA_SET_INIT_APN_INFO", "SetInitApnInfo")]

(* SetDataProfileInfo refuses a size that is not that of the list, and     *)
(* SetLinkBandwidthReportingRule more thresholds than MAX_LINK_KBPS_SIZE.  *)
LinkRequests ==
  [SendDataPerformanceMode |->
     ViaVendor("DATA_SEND_DATA_PERFORMANCE_MODE", "SendDataPerformanceMode"),
   SendDataSleepMode |->
     ViaVendor("DATA_SEND_DATA_SLEEP_MODE", "SendDataSleepMode"),
   SetDataProfileInfo |->
     CheckedVendor("DATA_SET_DATA_PROFILE_INFO", "SetDataProfileInfo"),
   GetLinkCapability |->
     ViaVendor("DATA_GET_LINK_CAPABILITY", "GetLinkCapability"),
   GetLinkBandwidthInfo |->
     ViaVendor("DATA_GET_LINK_BANDWIDTH_INFO", "GetLinkBandwidthInfo"),
   SetLinkBandwidthReportingRule |->
     CheckedVendor("DATA_SET_LINK_BANDWIDTH_REPORTING_RULE",
                   "SetLinkBandwidthReportingRule"),
   SetDataPermitted |->
     ViaVendor("DATA_SET_DATA_PERMITTED", "SetDataPermitted"),
   CleanAllConnections |->
     ViaVendor("DATA_CLEAN_ALL_CONNECTIONS", "CleanAllConnections")]

SliceRequests(version) ==
  [SendUrspDecodeResult |->
     ViaVendor("DATA_SEND_UEPOLICY_DECODE_RESULT", "SendUrspDecodeResult"),
   SendUePolicySectionIdentifier |->
     ViaVendor("DATA_SEND_UE_SECTION_IDENTIFIER",
               "SendUePolicySectionIdentifier"),
   SendImsRsdList |-> ViaVendor("DATA_SEND_IMS_RSD_LIST", "SendImsRsdList"),
   GetNetworkSliceAllowedNssai |->
     ViaVendor("DATA_SYNC_ALLOWED_NSSAI_WITH_MODEM",
               "GetNetworkSliceAllowedNssai"),
   GetNetworkSliceEhplmn |->
     ViaVendor("DATA_SYNC_EHPLMN_WITH_MODEM", "GetNetworkSliceEhplmn"),
   ActivatePdpContextWithApnTypesforSlice |->
     ActivateFor(version, "ActivatePdpContextWithApnTypesforSlice")]

DataRequests(version) ==
  PdpRequests(version) @@ LinkRequests @@ SliceRequests(version)

-----------------------------------------------------------------------------
(* The codes registered: AddHandlerToMap and AddHandlerToMapForSlice.      *)

DataResponseCodes ==
  {"DATA_SET_INIT_APN_INFO", "DATA_SET_DATA_PROFILE_INFO",
   "DATA_ACTIVATE_PDP_CONTEXT", "DATA_DEACTIVATE_PDP_CONTEXT",
   "DATA_GET_PDP_CONTEXT_LIST", "DATA_GET_LINK_BANDWIDTH_INFO",
   "DATA_SET_LINK_BANDWIDTH_REPORTING_RULE", "DATA_SET_DATA_PERMITTED",
   "DATA_GET_LINK_CAPABILITY", "DATA_CLEAN_ALL_CONNECTIONS"}

SliceResponseCodes ==
  {"DATA_SEND_UEPOLICY_DECODE_RESULT", "DATA_SEND_UE_SECTION_IDENTIFIER",
   "DATA_SEND_IMS_RSD_LIST", "DATA_SYNC_ALLOWED_NSSAI_WITH_MODEM",
   "DATA_SYNC_EHPLMN_WITH_MODEM"}

(* An empty list of contexts is forwarded as a failed or an empty answer.  *)
PdpHandlers ==
  [c \in {"DATA_ACTIVATE_PDP_CONTEXT", "DATA_GET_PDP_CONTEXT_LIST"}
     |-> OptionalList] @@
  [c \in {"DATA_CLEAN_ALL_CONNECTIONS", "DATA_DEACTIVATE_PDP_CONTEXT",
          "DATA_SET_INIT_APN_INFO", "DATA_SET_LINK_BANDWIDTH_REPORTING_RULE"}
     |-> Bare] @@
  [c \in {"DATA_SET_DATA_PROFILE_INFO"} |-> Mute]

LinkHandlers ==
  [c \in {"DATA_GET_LINK_CAPABILITY", "DATA_GET_LINK_BANDWIDTH_INFO"}
     |-> OptionalList] @@
  [c \in {"DATA_SET_DATA_PERMITTED"} |-> Bare]

(* The answers of the slice requests return before the callback.           *)
SliceHandlers == [c \in SliceResponseCodes |-> Mute]

PdpNotices ==
  [c \in {"DATA_PDP_CONTEXT_LIST_UPDATED"} |-> WholeRecords] @@
  [c \in {"DATA_LINK_CAPABILITY_UPDATED"} |-> ListNotice]

SliceNotices ==
  [c \in {"DATA_NETWORKSLICE_URSP_RPT", "DATA_NETWORKSLICE_ALLOWED_NSSAI_RPT",
          "DATA_NETWORKSLICE_EHPLMN_RPT"} |-> TextNotice]

DataHandlerOf == PdpHandlers @@ LinkHandlers @@ SliceHandlers
DataResponses == [c \in DataResponseCodes \union SliceResponseCodes
                    |-> DataHandlerOf[c]]
DataNotices == PdpNotices @@ SliceNotices
=============================================================================
