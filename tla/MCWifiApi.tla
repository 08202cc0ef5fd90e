------------------------------- MODULE MCWifiApi -------------------------------
(* A small instance of WifiApi for TLC. *)
EXTENDS WifiApi

CONSTANTS free, pinned, a, b

MCConfigs == {free, pinned}
MCPinned  == {pinned}
MCAccessPoints == {a, b}

================================================================================
