------------------------------ MODULE FanProofs ------------------------------
(* The fan, for any limits, temperatures and orders.                        *)
EXTENDS FanCooling, TLAPS

(* Without HALF the time that ThreeLevel counts is the time the relay is    *)
(* closed: both follow the state one cycle behind it.                       *)
FanInv ==
  /\ FanTypeOK
  /\ viaHalf \in BOOLEAN
  /\ ~viaHalf => since = fanRunTime
  /\ fanSteady => fanRunTime > FanLimit

LEMMA FanInitially == Init => FanInv
<1> SUFFICES ASSUME Init PROVE FanInv
  OBVIOUS
<1>1. FanTypeOK
  <2>1. 0 \in 0 .. FanRunMax
    BY FanAssumption
  <2> QED
    BY <2>1, Zenon DEF Init, FanInit, FanTypeOK, FanStates
<1>2. since = fanRunTime /\ viaHalf = FALSE
  BY DEF Init, FanInit
<1>3. ~fanSteady
  BY Zenon DEF Init, FanInit
<1> QED
  BY <1>1, <1>2, <1>3 DEF FanInv

LEMMA FanStep == FanInv /\ [Cycle]_vars => FanInv'
<1> SUFFICES ASSUME FanInv, [Cycle]_vars PROVE FanInv'
  OBVIOUS
<1>1. CASE Cycle
  <2>1. FanCycle(order', temp')
    BY <1>1 DEF Cycle
  <2>2. fanState' \in FanStates /\ fanRelay' \in BOOLEAN
    BY <2>1 DEF FanCycle, FanNext, FanInv, FanTypeOK, FanStates
  <2>3. fanRunTime' \in 0 .. FanRunMax
    BY <2>1, FanAssumption DEF FanCycle, FanInv, FanTypeOK
  <2>4. fanSteady' = (fanState' # "STOP" /\ fanRunTime' > FanLimit)
    BY <2>1 DEF FanCycle
  <2>5. viaHalf' \in BOOLEAN
    BY <1>1 DEF Cycle
  <2>6. ASSUME ~viaHalf' PROVE since' = fanRunTime'
    <3>1. fanState = "STOP" \/ (fanState # "HALF" /\ ~viaHalf)
      BY <1>1, <2>6 DEF Cycle
    <3>2. CASE fanState = "STOP"
      BY <1>1, <2>1, <3>2 DEF Cycle, FanCycle
    <3>3. CASE fanState = "FULL" /\ ~viaHalf
      <4>1. fanRelay' /\ since = fanRunTime
        BY <2>1, <3>3 DEF FanCycle, FanInv
      <4> QED
        BY <1>1, <2>1, <3>3, <4>1 DEF Cycle, FanCycle
    <3> QED
      BY <3>1, <3>2, <3>3 DEF FanInv, FanTypeOK, FanStates
  <2> QED
    BY <2>2, <2>3, <2>4, <2>5, <2>6 DEF FanInv, FanTypeOK
<1>2. CASE UNCHANGED vars
  BY <1>2 DEF vars, fanVars, FanInv, FanTypeOK
<1> QED
  BY <1>1, <1>2

LEMMA FanInvariant == Spec => []FanInv
BY FanInitially, FanStep, PTL DEF Spec

(* The state, the relay and the run time of FanLogic keep their ranges: the *)
(* run time stops at FanRunMax instead of overflowing.                      *)
THEOREM FanTypeCorrect == Spec => []FanTypeOK
<1>1. FanInv => FanTypeOK
  BY DEF FanInv
<1> QED
  BY <1>1, FanInvariant, PTL

(* A fan that did not pass through HALF counts as steady only after more    *)
(* than FanLimit cycles with its relay closed, however the orders and the   *)
(* heat come and go.                                                        *)
THEOREM SteadyIsEarned == Spec => []SteadyWithoutHalf
<1>1. FanInv => SteadyWithoutHalf
  BY DEF FanInv, SteadyWithoutHalf
<1> QED
  BY <1>1, FanInvariant, PTL

(***************************************************************************)
(* What happens in the end                                                 *)
(***************************************************************************)
(* Nothing stops the cycle: all its values are assigned, and tick changes. *)
(* The provers know nothing of ENABLED, so the theorems name it; in the    *)
(* run it is the absence of deadlock.                                      *)
CyclesOn == []ENABLED <<Cycle>>_vars

LEMMA NeverAtRest == Spec /\ CyclesOn => []<><<Cycle>>_vars
BY PTL DEF Spec, CyclesOn

(* A stage that stays hot ends with the relay of the fan closed, from any  *)
(* state and any history of orders: STOP goes to HALF or FULL, HALF goes   *)
(* to FULL, FULL stays, and the relay follows a cycle later.               *)
THEOREM HotStageCools == Spec /\ CyclesOn => HotStageIsCooled
<1> DEFINE hot  == temp > 50
           stop == fanState = "STOP"
           half == fanState = "HALF"
           full == fanState = "FULL"
           fast == fanRelay
<1>1. FanInv => stop \/ half \/ full
  BY DEF FanInv, FanTypeOK, FanStates
<1>2. Cycle => temp' \in Int
  BY TempsAssumption DEF Cycle
<1>3. Cycle /\ hot' /\ stop => half' \/ full'
  BY <1>2 DEF Cycle, FanCycle, FanNext
<1>4. Cycle /\ hot' /\ half => full'
  BY <1>2 DEF Cycle, FanCycle, FanNext
<1>5. Cycle /\ hot' /\ full => full' /\ fast'
  <2>1. Cycle /\ hot' /\ full => full'
    BY <1>2 DEF Cycle, FanCycle, FanNext
  <2>2. Cycle /\ full => fast'
    BY Zenon DEF Cycle, FanCycle
  <2> QED
    BY <2>1, <2>2
<1>6. UNCHANGED vars =>
        (stop <=> stop') /\ (half <=> half') /\ (full <=> full') /\ (fast <=> fast')
  BY DEF vars, fanVars
<1> HIDE DEF hot, stop, half, full, fast
<1>7. Spec /\ []<><<Cycle>>_vars => (<>[]hot => <>[]fast)
  BY <1>1, <1>3, <1>4, <1>5, <1>6, FanInvariant, PTL DEF Spec
<1> QED
  BY <1>7, NeverAtRest DEF HotStageIsCooled, hot, fast

(* At rest and at one temperature the state settles.  Up to 40 FULL falls  *)
(* to STOP, which stays, and HALF stays or stops; up to 50 HALF stays, and *)
(* STOP leads there; above, everything leads to FULL.                      *)
LEMMA SettlesAt ==
  ASSUME NEW t \in Temps
  PROVE  Spec /\ CyclesOn /\ <>[](order = 0 /\ temp = t) =>
           ComesToRestIn("STOP") \/ ComesToRestIn("HALF") \/ ComesToRestIn("FULL")
<1> DEFINE still == order = 0 /\ temp = t
           stop  == fanState = "STOP"
           half  == fanState = "HALF"
           full  == fanState = "FULL"
           Move  == still' /\ Cycle
<1>1. FanInv => stop \/ half \/ full
  BY DEF FanInv, FanTypeOK, FanStates
<1>2. UNCHANGED vars => (stop <=> stop') /\ (half <=> half') /\ (full <=> full')
  BY DEF vars, fanVars
<1>3. t \in Int
  BY TempsAssumption
<1>4. Move => fanState' = FanNext(0, t)
  BY DEF Cycle, FanCycle, FanNext
<1>5. Spec /\ []<><<Cycle>>_vars /\ <>[]still => <>[]stop \/ <>[]half \/ <>[]full
  <2>1. CASE t <= 40
    <3>1. /\ Move /\ (stop \/ full) => stop'
          /\ Move /\ half => stop' \/ half'
      BY <1>3, <1>4, <2>1 DEF FanNext
    <3> HIDE DEF still, stop, half, full
    <3> QED
      BY <3>1, <1>1, <1>2, FanInvariant, PTL DEF Spec
  <2>2. CASE 40 < t /\ t <= 50
    <3>1. /\ Move /\ (stop \/ half) => half'
          /\ Move /\ full => stop' \/ full'
      BY <1>3, <1>4, <2>2 DEF FanNext
    <3> HIDE DEF still, stop, half, full
    <3> QED
      BY <3>1, <1>1, <1>2, FanInvariant, PTL DEF Spec
  <2>3. CASE 50 < t
    <3>1. /\ Move /\ stop => half'
          /\ Move /\ (half \/ full) => full'
      BY <1>3, <1>4, <2>3 DEF FanNext
    <3> HIDE DEF still, stop, half, full
    <3> QED
      BY <3>1, <1>1, <1>2, FanInvariant, PTL DEF Spec
  <2> QED
    BY <1>3, <2>1, <2>2, <2>3
<1> QED
  BY <1>5, NeverAtRest DEF ComesToRestIn, still, stop, half, full

(* The switching thresholds leave a hysteresis for every temperature: at   *)
(* rest the fan ends in one state and does not hunt between two.           *)
THEOREM FanComesToRest == Spec /\ CyclesOn => FanSettles
<1> SUFFICES ASSUME NEW t \in Temps
             PROVE  Spec /\ CyclesOn => (<>[](order = 0 /\ temp = t)
                       => \E s \in FanStates : ComesToRestIn(s))
  BY DEF FanSettles
<1>1. Spec /\ CyclesOn /\ <>[](order = 0 /\ temp = t) =>
        ComesToRestIn("STOP") \/ ComesToRestIn("HALF") \/ ComesToRestIn("FULL")
  BY SettlesAt
<1>2. ComesToRestIn("STOP") \/ ComesToRestIn("HALF") \/ ComesToRestIn("FULL")
      => \E s \in FanStates : ComesToRestIn(s)
  BY DEF FanStates
<1> QED
  BY <1>1, <1>2
=============================================================================
