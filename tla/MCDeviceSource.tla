--------------------------- MODULE MCDeviceSource ---------------------------
(* Instances of DeviceSource for TLC: two buffer handles, so that a new    *)
(* buffer can be told from the one it replaces and a handle can be reused. *)
EXTENDS DeviceSource

CONSTANTS b1, b2
=============================================================================
