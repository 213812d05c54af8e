--------------------------- MODULE MCOrderIntake ----------------------------
(* Two orders of two sausages; the message of one of them arrives twice.   *)
EXTENDS OrderIntake, TLC

OneTwice ==
    LET twice == CHOOSE o \in Order : TRUE
    IN [o \in Order |-> IF o = twice THEN 2 ELSE 1]
=============================================================================
