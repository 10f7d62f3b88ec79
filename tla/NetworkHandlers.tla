-------------------------- MODULE NetworkHandlers ---------------------------
(***************************************************************************)
(* HRilNetwork (hril_network.cpp): requests, response handlers and         *)
(* notification handlers.  Every request goes through RequestVendor to the *)
(* operation of its own name; SetLocateUpdates refuses an unknown mode.    *)
(***************************************************************************)
EXTENDS Payloads, TLC

NetworkCodes ==
  [GetSignalStrength |-> "NETWORK_GET_SIGNAL_STRENGTH",
   GetCsRegStatus |-> "NETWORK_GET_CS_REG_STATUS",
   GetPsRegStatus |-> "NETWORK_GET_PS_REG_STATUS",
   GetOperatorInfo |-> "NETWORK_GET_OPERATOR_INFO",
   GetNeighboringCellInfoList |-> "NETWORK_GET_NEIGHBORING_CELLINFO_LIST",
   GetCurrentCellInfo |-> "NETWORK_GET_CURRENT_CELL_INFO",
   GetNetworkSearchInformation |-> "NETWORK_GET_NETWORK_SEARCH_INFORMATION",
   GetNetworkSelectionMode |-> "NETWORK_GET_NETWORK_SELECTION_MODE",
   SetNetworkSelectionMode |-> "NETWORK_SET_NETWORK_SELECTION_MODE",
   SetPreferredNetwork |-> "NETWORK_SET_PREFERRED_NETWORK",
   GetPreferredNetwork |-> "NETWORK_GET_PREFERRED_NETWORK",
   GetPhysicalChannelConfig |-> "NETWORK_GET_PHYSICAL_CHANNEL_CONFIG",
   SetLocateUpdates |-> "NETWORK_SET_LOCATE_UPDATES",
   SetNotificationFilter |-> "NETWORK_SET_NOTIFICATION_FILTER",
   SetDeviceState |-> "NETWORK_SET_DEVICE_STATE",
   SetNrOptionMode |-> "NETWORK_SET_NR_OPTION_MODE",
   GetNrOptionMode |-> "NETWORK_GET_NR_OPTION_MODE",
   GetRrcConnectionState |-> "NETWORK_GET_RRC_CONNECTION_STATE",
   GetNrSsbId |-> "NETWORK_GET_NR_SSBID_INFO"]

NetworkRequests ==
  [m \in DOMAIN NetworkCodes |->
     IF m = "SetLocateUpdates" THEN CheckedVendor(NetworkCodes[m], m)
     ELSE ViaVendor(NetworkCodes[m], m)]

-----------------------------------------------------------------------------
(* The codes the constructor registers a handler for.                      *)

NetworkBasicResponses ==
  {"NETWORK_GET_SIGNAL_STRENGTH", "NETWORK_GET_CS_REG_STATUS",
   "NETWORK_GET_PS_REG_STATUS", "NETWORK_GET_OPERATOR_INFO",
   "NETWORK_SET_LOCATE_UPDATES", "NETWORK_SET_NOTIFICATION_FILTER",
   "NETWORK_SET_DEVICE_STATE", "NETWORK_SET_NR_OPTION_MODE",
   "NETWORK_GET_NR_OPTION_MODE", "NETWORK_GET_RRC_CONNECTION_STATE",
   "NETWORK_GET_NR_SSBID_INFO"}

NetworkSearchResponses ==
  {"NETWORK_GET_NETWORK_SEARCH_INFORMATION",
   "NETWORK_GET_NETWORK_SELECTION_MODE", "NETWORK_SET_NETWORK_SELECTION_MODE",
   "NETWORK_SET_PREFERRED_NETWORK", "NETWORK_GET_PREFERRED_NETWORK",
   "NETWORK_GET_NEIGHBORING_CELLINFO_LIST", "NETWORK_GET_CURRENT_CELL_INFO",
   "NETWORK_GET_PHYSICAL_CHANNEL_CONFIG"}

NetworkNoticeCodes ==
  {"NETWORK_CS_REG_STATUS_UPDATED", "NETWORK_SIGNAL_STRENGTH_UPDATED",
   "NETWORK_TIME_UPDATED", "NETWORK_TIME_ZONE_UPDATED",
   "NETWORK_PS_REG_STATUS_UPDATED", "NETWORK_PHY_CHNL_CFG_UPDATED",
   "NETWORK_CURRENT_CELL_UPDATED", "NETWORK_RRC_CONNECTION_STATE_UPDATED",
   "NETWORK_RESIDENT_NETWORK_UPDATED"}

-----------------------------------------------------------------------------
(* Cells and channels are refused, and nothing is sent, when the record    *)
(* counts too many of them or has no array: BuildNeighboringCellList,      *)
(* BuildNrCellSsbIdsInfo.                                                  *)
CountedRecord == Filling(Payload \ {"bad"}, Payload \ OneRecord)

NetworkStateHandlers ==
  [c \in {"NETWORK_GET_SIGNAL_STRENGTH", "NETWORK_GET_CS_REG_STATUS",
          "NETWORK_GET_PS_REG_STATUS", "NETWORK_GET_OPERATOR_INFO"}
     |-> LenientExact] @@
  [c \in {"NETWORK_GET_NETWORK_SEARCH_INFORMATION"} |-> LenientText]

NetworkModeHandlers ==
  [c \in {"NETWORK_GET_NETWORK_SELECTION_MODE",
          "NETWORK_GET_PREFERRED_NETWORK", "NETWORK_GET_CURRENT_CELL_INFO"}
     |-> LenientExact] @@
  [c \in {"NETWORK_SET_NETWORK_SELECTION_MODE",
          "NETWORK_SET_PREFERRED_NETWORK"} |-> Bare] @@
  [c \in {"NETWORK_GET_NEIGHBORING_CELLINFO_LIST"} |-> CountedRecord]

NetworkRadioHandlers ==
  [c \in {"NETWORK_GET_PHYSICAL_CHANNEL_CONFIG", "NETWORK_GET_NR_SSBID_INFO"}
     |-> CountedRecord] @@
  [c \in {"NETWORK_SET_LOCATE_UPDATES", "NETWORK_SET_NOTIFICATION_FILTER",
          "NETWORK_SET_DEVICE_STATE", "NETWORK_SET_NR_OPTION_MODE"} |-> Bare] @@
  [c \in {"NETWORK_GET_NR_OPTION_MODE", "NETWORK_GET_RRC_CONNECTION_STATE"}
     |-> LenientExact]

NetworkStatusNotices ==
  [c \in {"NETWORK_CS_REG_STATUS_UPDATED", "NETWORK_PS_REG_STATUS_UPDATED",
          "NETWORK_SIGNAL_STRENGTH_UPDATED"} |-> RecordNotice] @@
  [c \in {"NETWORK_TIME_UPDATED", "NETWORK_TIME_ZONE_UPDATED"} |-> TextNotice]

NetworkCellNotices ==
  [c \in {"NETWORK_PHY_CHNL_CFG_UPDATED"} |-> RecordNotice \ {"bad"}] @@
  [c \in {"NETWORK_CURRENT_CELL_UPDATED"} |-> RecordNotice] @@
  [c \in {"NETWORK_RRC_CONNECTION_STATE_UPDATED"} |-> ListNotice] @@
  [c \in {"NETWORK_RESIDENT_NETWORK_UPDATED"} |-> TextNotice]

NetworkHandlerOf == NetworkStateHandlers @@ NetworkModeHandlers
                      @@ NetworkRadioHandlers
NetworkResponses ==
  [c \in NetworkBasicResponses \union NetworkSearchResponses
     |-> NetworkHandlerOf[c]]
NetworkNotices ==
  [c \in NetworkNoticeCodes
     |-> (NetworkStatusNotices @@ NetworkCellNotices)[c]]
=============================================================================
