--------------------------- MODULE MCSellPlatform ----------------------------
(* One sale with the limits of the code.                                   *)
EXTENDS SellPlatform
=============================================================================
