---------------------------- MODULE MCSerialLink ----------------------------
(* The board may fall silent, come back and change its port at any time.   *)
(* The thresholds keep the order of the code's: 3, 5, 15 and 30 seconds    *)
(* (attempt, stable, timeout, rediscovery) become 2, 2, 4 and 5 units, and *)
(* a round takes one unit or two.                                          *)
EXTENDS SerialLink
=============================================================================
