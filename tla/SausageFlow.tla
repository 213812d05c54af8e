----------------------------- MODULE SausageFlow ------------------------------
(***************************************************************************)
(* What may happen to the sausages on the pans, whoever moves them: they   *)
(* are loaded onto empty pans, cook, move to empty pans once cooked, and   *)
(* are taken when they are warm.  Nothing cooks twice and nothing vanishes *)
(* while it cooks.                                                         *)
(*                                                                         *)
(* Three promises have a hole, and the state says where: tidying is the    *)
(* work that moves sausages by a plan it does not look at again, and after *)
(* killed a launch or a batch may go by what is no longer true.  The kill  *)
(* itself may leave any pans: those that were written last.                *)
(***************************************************************************)
CONSTANT Pan

VARIABLES
    pan,      \* empty, heating or holding
    killed,   \* the app was killed
    tidying   \* the planned moves that are under way: none, evacuate, compact

flowVars == <<pan, killed, tidying>>

FlowInit ==
    /\ pan = [p \in Pan |-> "empty"]
    /\ killed = FALSE /\ tidying = "none"

\* Some of the sausages are cooked.
Cook ==
    \E S \in SUBSET {p \in Pan : pan[p] = "heating"} :
        pan' = [p \in Pan |-> IF p \in S THEN "holding" ELSE pan[p]]

\* After a kill a launch may load onto a sausage.
Load(p) ==
    /\ pan[p] = "empty" \/ killed
    /\ pan' = [pan EXCEPT ![p] = "heating"]

\* The compaction does not look whether a sausage cooks.
Move(p, q) ==
    /\ \/ pan[p] = "holding"
       \/ pan[p] = "heating" /\ (tidying = "compact" \/ killed)
    /\ pan[q] = "empty"
    /\ pan' = [pan EXCEPT ![p] = "empty", ![q] = "holding"]

\* A sausage that was to be moved has been sold meanwhile: its new place is
\* booked all the same.
Misbook(q) ==
    /\ tidying # "none" /\ pan[q] = "empty"
    /\ pan' = [pan EXCEPT ![q] = "holding"]

Take(p) == pan[p] = "holding" /\ pan' = [pan EXCEPT ![p] = "empty"]

\* A step on the pans; what is being tidied may change with any of them.
Flow ==
    /\ \/ Cook \/ UNCHANGED pan
       \/ \E p \in Pan : Load(p) \/ Misbook(p) \/ Take(p)
       \/ \E p, q \in Pan : Move(p, q)
    /\ tidying' \in {"none", "evacuate", "compact"}
    /\ UNCHANGED killed

Kill ==
    /\ killed' = TRUE /\ tidying' = "none"
    /\ pan' \in [Pan -> {"empty", "heating", "holding"}]

FlowNext == Flow \/ Kill

FlowSpec == FlowInit /\ [][FlowNext]_flowVars
=============================================================================
