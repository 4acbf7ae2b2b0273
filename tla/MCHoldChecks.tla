---------------------------- MODULE MCHoldChecks ----------------------------
(* Constants for model checking HoldChecks.                                *)
EXTENDS HoldChecks

UInCheck     == <<[fail |-> "uInMaxSlow", relay |-> "uInMax1HoldTime"]>>
SharedCheck  == <<[fail |-> "uCfly", relay |-> "uCFly2HoldTime"],
                  [fail |-> "uCfly", relay |-> "uCFly2HoldTime"]>>
NoSample     == [f \in Fast |-> 0]
=============================================================================
