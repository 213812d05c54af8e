---------------------------- MODULE OrderService ----------------------------
(***************************************************************************)
(* What the order numbers of OrderStateManager promise, without messages,  *)
(* coroutines, the arm and the device: an order is begun, handed over and  *)
(* recorded; one that is given up may be begun again, and a restart gives  *)
(* up every order that is not recorded yet, the ones already handed over   *)
(* among them.                                                             *)
(***************************************************************************)
EXTENDS Naturals

CONSTANT Order      \* order numbers

VARIABLES
    status,         \* open, running, handed (over) or finished, per order
    served,         \* how often all sausages of an order were handed over
    restarts        \* of the app

serviceVars == <<status, served, restarts>>

ServiceInit ==
    /\ status = [o \in Order |-> "open"]
    /\ served = [o \in Order |-> 0]
    /\ restarts = 0

Change(o, from, to) ==
    /\ status[o] = from
    /\ status' = [status EXCEPT ![o] = to]

Begin(o) ==
    /\ Change(o, "open", "running")
    /\ UNCHANGED <<served, restarts>>

GiveUp(o) ==
    /\ Change(o, "running", "open")
    /\ UNCHANGED <<served, restarts>>

HandOver(o) ==
    /\ Change(o, "running", "handed")
    /\ served' = [served EXCEPT ![o] = @ + 1]
    /\ UNCHANGED restarts

\* Final states on their way to the disk arrive there.
Finish ==
    /\ \E done \in SUBSET {o \in Order : status[o] = "handed"} :
          status' = [o \in Order |-> IF o \in done THEN "finished" ELSE status[o]]
    /\ UNCHANGED <<served, restarts>>

Restart ==
    /\ status' = [o \in Order |->
                    IF status[o] = "finished" THEN "finished" ELSE "open"]
    /\ restarts' = restarts + 1
    /\ UNCHANGED served

ServiceNext ==
    \/ \E o \in Order : Begin(o) \/ GiveUp(o) \/ HandOver(o)
    \/ Finish
    \/ Restart

ServiceSpec == ServiceInit /\ [][ServiceNext]_serviceVars
=============================================================================
