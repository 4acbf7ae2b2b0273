----------------------------- MODULE PowerStage -----------------------------
(***************************************************************************)
(* What the control board promises about the power stage, seen from its    *)
(* gate signals: ThreeLevel implements this.  law is the control law whose *)
(* duties drive the switches: 0 none, 1 charge, 2 discharge.               *)
(***************************************************************************)
EXTENDS Naturals

VARIABLES enabled, law, latched

stageVars == <<enabled, law, latched>>

Init == enabled = FALSE /\ law = 0 /\ latched = FALSE

(* Only a disabled stage without a latched fault is started, in one mode.  *)
Start == /\ ~enabled /\ ~latched
         /\ enabled' = TRUE
         /\ law' \in {1, 2}
         /\ UNCHANGED latched

(* While it is being stopped the stage may see enabled frames without duty.*)
Fade == /\ enabled
        /\ law' = 0
        /\ UNCHANGED <<enabled, latched>>

Stop == /\ enabled' = FALSE /\ law' = 0
        /\ UNCHANGED latched

(* A latched fault stops the stage in the same step and is never released. *)
Latch == enabled' = FALSE /\ law' = 0 /\ latched' = TRUE

Next == Start \/ Fade \/ Stop \/ Latch

Spec == Init /\ [][Next]_stageVars
=============================================================================
