--------------------------- MODULE MCDeviceStatus ---------------------------
(* The status machine with two threads in the middle of something at a     *)
(* time, and any number of restarts.                                       *)
EXTENDS DeviceStatus
=============================================================================
