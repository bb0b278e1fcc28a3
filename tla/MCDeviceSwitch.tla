--------------------------- MODULE MCDeviceSwitch ---------------------------
(* Model-checking instances of DeviceSwitch: three devices, a short stop    *)
(* queue and few attempts, so that it overflows and gives up.               *)
EXTENDS DeviceSwitch
=============================================================================
