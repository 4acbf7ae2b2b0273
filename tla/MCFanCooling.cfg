SPECIFICATION Spec
CONSTANTS
  FanLimit = 2
  FanRunMax = 5
  Temps = {30, 38, 43, 48, 55}
  Orders = {0, 1}
INVARIANTS FanTypeOK SteadyWithoutHalf
PROPERTIES HotStageIsCooled OrderMakesFanSteady FanSettles
