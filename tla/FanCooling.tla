----------------------------- MODULE FanCooling -----------------------------
(***************************************************************************)
(* FanLogic on its own: the order and the hotter IGBT temperature change   *)
(* freely from cycle to cycle, inside the sets given.                      *)
(***************************************************************************)
EXTENDS FanLogic, Integers

CONSTANTS Temps, Orders

ASSUME TempsAssumption == Temps \subseteq Int

VARIABLES order, temp,   (* what this cycle read                           *)
          since,         (* history: cycles the relay has been closed,     *)
                         (* capped                                          *)
          viaHalf,       (* history: HALF was passed since the last STOP    *)
          tick           (* history: flips each cycle, so that a cycle that *)
                         (* changes nothing else is a step and not a stutter*)

vars == <<fanVars, order, temp, since, viaHalf, tick>>

Init == /\ FanInit /\ order = 0 /\ temp \in Temps
        /\ since = 0 /\ viaHalf = FALSE /\ tick = 0

Cycle ==
  /\ order' \in Orders /\ temp' \in Temps
  /\ FanCycle(order', temp')
  /\ since' = IF ~fanRelay' THEN 0
              ELSE IF since < FanRunMax THEN since + 1 ELSE since
  /\ viaHalf' = (fanState # "STOP" /\ (viaHalf \/ fanState = "HALF"))
  /\ tick' = 1 - tick

(* FanLogic is part of the logic thread's 10 ms cycle.                     *)
Spec == Init /\ [][Cycle]_vars /\ WF_vars(Cycle)

(* "风机启动1S之后，进入稳定状态" (ThreeLevel.cpp:291): where the fan went  *)
(* from STOP straight to FULL it counts as steady only after FanLimit      *)
(* cycles with its relay closed, so no stop, however short, leaves it      *)
(* steady (ThreeLevel.cpp:246, 292).  The code counts the cycles in HALF   *)
(* as well, where the relay is open: of that way nothing can be said.      *)
SteadyWithoutHalf == fanSteady /\ ~viaHalf => since > FanLimit

(* A stage that stays hot at rest ends with the relay closed, through      *)
(* HALF, although the test against 50 in STOP is never reached.            *)
HotStageIsCooled == <>[](temp > 50) => <>[]fanRelay

(* An order that stays ends with a steady fan, so it can start the stage.  *)
OrderMakesFanSteady == <>[](order > 0) => <>[]fanSteady

(* The switching thresholds leave a hysteresis: at a constant temperature  *)
(* at rest the fan settles in one state.                                   *)
ComesToRestIn(s) == <>[](fanState = s)
FanSettles ==
  \A t \in Temps : <>[](order = 0 /\ temp = t)
                     => \E s \in FanStates : ComesToRestIn(s)
=============================================================================
