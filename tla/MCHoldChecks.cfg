SPECIFICATION HoldSpec
CONSTANTS
  Fast = {}
  Slow = {"uCfly", "uInMaxSlow"}
  Warning = {}
  HoldRelays = {"uCFly2HoldTime", "uInMax1HoldTime"}
  RunChecks <- SharedCheck
  IdleChecks <- UInCheck
  CountLimit <- NoSample
  LimitedTimes = 2
  HoldTime = 1
  KeepTime = 0
  RestartTime = 1
  Temps = {30}
  FanLimit = 0
  FanRunMax = 1
INVARIANT HoldTimersRest
PROPERTIES MetIffSustained FaultIsResolved PersistentFaultLocks
