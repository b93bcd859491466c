----------------------------- MODULE NseService -----------------------------
(***************************************************************************)
(* What an NS entity promises its user (the BSSGP layer): it is available  *)
(* exactly while NS-VCs that carry data and NS-VCs that carry signalling   *)
(* are unblocked, the user is told of every change as it happens, once,    *)
(* and is told which recovery is the first.  Module Ns2Link implements it. *)
(***************************************************************************)
VARIABLES
    dataVcs,  \* the NS-VCs with a data weight, as configured
    sigVcs,   \* the NS-VCs with a signalling weight
    usable,   \* those of them that are unblocked
    alive,    \* the entity is available
    first,    \* it has not been so far
    news      \* what the last step told the user

vars == <<dataVcs, sigVcs, usable, alive, first, news>>

Available(u) == u \cap dataVcs # {} /\ u \cap sigVcs # {}

Init == usable = {} /\ alive = FALSE /\ first = TRUE /\ news = <<>>

Change ==
    /\ \/ usable' = usable
       \/ \E v \in dataVcs \cup sigVcs : usable' \in {usable \cup {v}, usable \ {v}}
    /\ alive' = Available(usable')
    /\ first' = (first /\ ~alive')
    /\ news' = IF alive' = alive THEN <<>>
               ELSE <<[cause |-> IF alive' THEN "RECOVERY" ELSE "FAILURE", first |-> first]>>
    /\ UNCHANGED <<dataVcs, sigVcs>>

(* The process that the entity is part of starts again. *)
Restart ==
    /\ usable' = {} /\ alive' = FALSE /\ first' = TRUE /\ news' = <<>>
    /\ UNCHANGED <<dataVcs, sigVcs>>

Spec == Init /\ [][Change \/ Restart]_vars
=============================================================================
