------------------------------ MODULE FanLogic ------------------------------
(***************************************************************************)
(* The cooling fan of the power stage: ThreeLevel::FanLogic, run once per  *)
(* 10 ms by the logic thread.  The two IGBT temperatures only enter        *)
(* through "one of them above" and "both below", so the model keeps the    *)
(* hotter of the two.  The relay of the fan (output 4) is all that reaches *)
(* the hardware, and only FULL closes it: HALF is meant to drive the fan   *)
(* through a speed board, but fanDuty, which would tell that board, is     *)
(* written and never read, so it is left out and HALF is open like STOP.   *)
(* The relay follows the state BEFORE the transition.                      *)
(***************************************************************************)
EXTENDS Naturals

CONSTANTS FanLimit,    (* 100 in the code: cycles until the fan is steady  *)
          FanRunMax    (* 10000 in the code: where fanRunTime stops        *)

ASSUME FanAssumption == /\ FanLimit \in Nat
                        /\ FanRunMax \in Nat
                        /\ FanRunMax > FanLimit

VARIABLES fanState, fanRunTime, fanSteady,
          fanRelay   (* the relay of the fan is closed                      *)

fanVars == <<fanState, fanRunTime, fanSteady, fanRelay>>

FanStates == {"STOP", "HALF", "FULL"}

FanTypeOK ==
  /\ fanState \in FanStates
  /\ fanRunTime \in 0 .. FanRunMax
  /\ fanSteady \in BOOLEAN
  /\ fanRelay \in BOOLEAN

FanInit ==
  /\ fanState = "STOP"
  /\ fanRunTime = 0
  /\ fanSteady = FALSE
  /\ fanRelay = FALSE

(* Mutants of the switch: HALF stops below 45, where STOP starts above 40; *)
(* HALF does not look at the heat; FULL does not look at the order.        *)
NarrowFanNext(order, temp) ==
  CASE fanState = "STOP" -> IF order > 0 THEN "FULL"
                            ELSE IF temp > 40 THEN "HALF" ELSE "STOP"
    [] fanState = "HALF" -> IF order > 0 THEN "FULL"
                            ELSE IF temp < 45 THEN "STOP"
                            ELSE IF temp > 50 THEN "FULL" ELSE "HALF"
    [] OTHER             -> IF temp < 45 /\ order = 0 THEN "STOP" ELSE "FULL"
CoolFanNext(order, temp) ==
  CASE fanState = "STOP" -> IF order > 0 THEN "FULL"
                            ELSE IF temp > 40 THEN "HALF" ELSE "STOP"
    [] fanState = "HALF" -> IF order > 0 THEN "FULL"
                            ELSE IF temp < 35 THEN "STOP" ELSE "HALF"
    [] OTHER             -> IF temp < 45 /\ order = 0 THEN "STOP" ELSE "FULL"
RestlessFanNext(order, temp) ==
  CASE fanState = "STOP" -> IF order > 0 THEN "FULL"
                            ELSE IF temp > 40 THEN "HALF" ELSE "STOP"
    [] fanState = "HALF" -> IF order > 0 THEN "FULL"
                            ELSE IF temp < 35 THEN "STOP"
                            ELSE IF temp > 50 THEN "FULL" ELSE "HALF"
    [] OTHER             -> IF temp < 45 THEN "STOP" ELSE "FULL"

(***************************************************************************)
(* The transition of the switch.  In STOP the test against 40 comes before *)
(* the test against 50, so a hot stage at rest reaches FULL through HALF.  *)
(***************************************************************************)
FanNext(order, temp) ==
  CASE fanState = "STOP" -> IF order > 0 THEN "FULL"
                            ELSE IF temp > 40 THEN "HALF" ELSE "STOP"
    [] fanState = "HALF" -> IF order > 0 THEN "FULL"
                            ELSE IF temp < 35 THEN "STOP"
                            ELSE IF temp > 50 THEN "FULL" ELSE "HALF"
    [] OTHER             -> IF temp < 45 /\ order = 0 THEN "STOP" ELSE "FULL"

(* Mutants of the cycle: the time is not reset in STOP, or passes its end. *)
FanCycleNoReset(order, temp) ==
  /\ fanState' = FanNext(order, temp)
  /\ fanRelay' = (fanState = "FULL")
  /\ fanRunTime' = IF fanState = "STOP" \/ fanRunTime = FanRunMax
                   THEN fanRunTime ELSE fanRunTime + 1
  /\ fanSteady' = (fanState' # "STOP" /\ fanRunTime' > FanLimit)
FanCycleTooLong(order, temp) ==
  /\ fanState' = FanNext(order, temp)
  /\ fanRelay' = (fanState = "FULL")
  /\ fanRunTime' = IF fanState = "STOP" THEN 0
                   ELSE IF fanRunTime <= FanRunMax THEN fanRunTime + 1
                   ELSE fanRunTime
  /\ fanSteady' = (fanState' # "STOP" /\ fanRunTime' > FanLimit)

FanCycle(order, temp) ==
  /\ fanState' = FanNext(order, temp)
  /\ fanRelay' = (fanState = "FULL")
  /\ fanRunTime' = IF fanState = "STOP" THEN 0
                   ELSE IF fanRunTime < FanRunMax THEN fanRunTime + 1
                   ELSE fanRunTime
  /\ fanSteady' = (fanState' # "STOP" /\ fanRunTime' > FanLimit)

=============================================================================
