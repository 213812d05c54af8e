------------------------- MODULE MCLinkedTransaction ------------------------
(* The code's own numbers: four packages and two retries.                  *)
EXTENDS LinkedTransaction
=============================================================================
