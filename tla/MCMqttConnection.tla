-------------------------- MODULE MCMqttConnection ---------------------------
(* Two generations, the current one and one that is being closed or whose  *)
(* answer is still on its way, and two reconnect jobs at a time.           *)
EXTENDS MqttConnection
=============================================================================
