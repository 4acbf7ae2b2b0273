------------------------------- MODULE MCCanTx -------------------------------
(* Constants for model checking CanTx.                                     *)
EXTENDS CanTx

(* A poll answered in two packets and the reply of the update in one; the  *)
(* poll comes twice, or once beside two replies of the update.             *)
PollAndIap     == <<2, 1>>
TwoPollsOrBoth == {<<2, 0>>, <<1, 2>>}
=============================================================================
