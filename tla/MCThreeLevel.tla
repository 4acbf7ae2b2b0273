---------------------------- MODULE MCThreeLevel ----------------------------
(* Constants for model checking ThreeLevel.                                *)
EXTENDS ThreeLevel

NoCheck      == <<>>
UInCheck     == <<[fail |-> "uInMaxSlow", relay |-> "uInMax1HoldTime"]>>
OneSample    == [f \in Fast |-> 1]
=============================================================================
