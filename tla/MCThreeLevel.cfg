SPECIFICATION Spec
CONSTANTS
  Fast = {"iBatMaxFast"}
  Slow = {"uInMaxSlow"}
  Warning = {}
  HoldRelays = {"uInMax1HoldTime"}
  RunChecks <- NoCheck
  IdleChecks <- UInCheck
  CountLimit <- OneSample
  LimitedTimes = 2
  HoldTime = 1
  KeepTime = 1
  RestartTime = 1
  Temps = {30, 43}
  FanLimit = 0
  FanRunMax = 1
INVARIANTS TypeOK LockedFaultDisables StopReachesFpga SteadyWhileOn LockNeedsRepeatedFault ReportsAreReal
PROPERTIES ImplementsPowerStage FaultClearsOnlyWhenOff MinimumPause
