----------------------------- MODULE ThreeLevel -----------------------------
(***************************************************************************)
(* Start, stop and protection of the power stage: class ThreeLevel with    *)
(* the Bat it owns, the failure list (Failure, FailureCheck), the hold     *)
(* timers (Relay, RelayModule) and the FPGA registers it drives.           *)
(*                                                                         *)
(* Two threads share this state without a lock:                            *)
(*  - "ad" (priority 2) runs BatControl after every conversion.  It never  *)
(*    waits inside, and the logic thread can not preempt it: one action.   *)
(*  - "logic" (priority 12) runs StateControl every 10 ms and can be       *)
(*    preempted by ad between any two accesses: one action per access.     *)
(* The CAN and serial threads write the order, dcdcCmd.ord, at any time    *)
(* and without any rule, so each read of it returns any order at all.      *)
(*                                                                         *)
(* Measured values are abstracted to "this check finds its value beyond    *)
(* its limit", chosen anew at every check.                                 *)
(***************************************************************************)
EXTENDS Naturals, Sequences

CONSTANTS
  Fast,          (* failures encountered by Bat::FastCheck, in ad          *)
  Slow,          (* failures encountered by Bat::SlowCheck, in logic       *)
  Warning,       (* failures above bit 15: faultMast hides them            *)
  HoldRelays,    (* the hold timers registered in Bat::relays              *)
  RunChecks,     (* the checks SlowCheck makes while running, in order     *)
  IdleChecks,    (* the checks SlowCheck always makes, after those         *)
  CountLimit,    (* [Fast -> Nat], consecutive samples a Counter lets pass *)
  LimitedTimes,  (* Failure::maxTimes, 3 in the code                       *)
  HoldTime,      (* hold timers, in 10 ms cycles (10 and 20 in the code)   *)
  KeepTime,      (* faultKeepTime, 3000 cycles in the code                 *)
  RestartTime,   (* restartTime, 10 cycles in the code                     *)
  Temps,         (* the temperatures the fan logic may read                *)
  FanLimit, FanRunMax

Failures == Fast \cup Slow
Checks   == RunChecks \o IdleChecks
CheckIds == 1 .. Len(Checks)

ASSUME ConstantsAssumption ==
  /\ Fast \cap Slow = {}
  /\ Warning \subseteq Failures
  /\ RunChecks \in Seq([fail : Slow, relay : HoldRelays])
  /\ IdleChecks \in Seq([fail : Slow, relay : HoldRelays])
  /\ CountLimit \in [Fast -> Nat]
  /\ LimitedTimes \in Nat \ {0}
  /\ HoldTime \in Nat /\ KeepTime \in Nat /\ RestartTime \in Nat
  /\ Temps \subseteq Nat
  /\ FanLimit \in Nat /\ FanRunMax \in Nat /\ FanRunMax > FanLimit

(* The checks made while running (IOutCheck, UCflyCheck) have timers of    *)
(* their own.                                                              *)
ASSUME TimersAssumption ==
  \A i \in 1 .. Len(RunChecks), j \in 1 .. Len(IdleChecks) :
    RunChecks[i].relay # IdleChecks[j].relay

VARIABLES
  occurred, times, locked,       (* Failure: isOccurred, presentTimes, isLocked *)
  fault, faultLock, listLock,    (* FailureCheck of bat                    *)
  sysFault, sysLock,             (* ThreeLevel::sys_fault, sys_lock        *)
  count,         (* the Counter of each fast failure                       *)
  hold, relayLock,               (* RelayModule relays of bat              *)
  keep, restart, (* faultKeepTime and restartTime                          *)
  tlOn, startMode,               (* ThreeLevel: isStartEnable, startMode   *)
  batOn, batMode,                (* Bat: isStartEnable, startMode          *)
  fpga,          (* Bat::fpga, the image BatControl sends                  *)
  hw,            (* the FPGA registers as last written                     *)
  fanState, fanRunTime, fanSteady, fanRelay,
  pc, ctrlOrd, step, pend,       (* logic: where it is, its locals         *)
  adRan,         (* ad has run since logic went to sleep                   *)
  resets,        (* history: how often ResetFaulture was carried out       *)
  pause          (* history: cycles since the FPGA was last disabled       *)

failVars  == <<occurred, times, locked>>
listVars  == <<fault, faultLock, listLock>>
sysVars   == <<sysFault, sysLock>>
timerVars == <<hold, relayLock, keep, restart>>
fanVars   == <<fanState, fanRunTime, fanSteady, fanRelay>>
stageVars == <<tlOn, startMode, batOn, batMode, fpga>>
adVars    == <<sysVars, count, hw>>
locals    == <<ctrlOrd, step, pend>>
cycleVars == <<locals, adRan, resets, pause>>
vars == <<failVars, listVars, sysVars, count, timerVars, tlOn, startMode,
          batOn, batMode, fpga, hw, fanVars, pc, cycleVars>>

Fan == INSTANCE FanLogic

(* SC_START_NONE, SC_START_CHARGE, SC_START_DISCHARGE.                     *)
Modes  == 0 .. 2
(* The order is a byte any master may write; 3 stands for those above 2.   *)
Orders == 0 .. 3

-----------------------------------------------------------------------------
(* Relay: a timer that counts the refreshes since it was started.          *)

RelayReset == [time |-> 0, cond |-> FALSE, result |-> FALSE]

RelayType(limit) == [time : 0 .. limit, cond : BOOLEAN, result : BOOLEAN]

RelayStart(r) == [r EXCEPT !.cond = TRUE]

(* Mutant: the delay compared with >.                                      *)
LateRelayRefresh(r, limit) ==
  IF ~r.cond THEN r
  ELSE IF r.time > limit THEN [r EXCEPT !.result = TRUE]
  ELSE [r EXCEPT !.time = @ + 1]

RelayRefresh(r, limit) ==
  IF ~r.cond THEN r
  ELSE IF r.time >= limit THEN [r EXCEPT !.result = TRUE]
  ELSE [r EXCEPT !.time = @ + 1]

(* Mutant: every encounter counts, also of what has already occurred.      *)
CountEveryTime(S) == [f \in Failures |-> IF f \in S THEN times[f] + 1 ELSE times[f]]

(* Failure::Encounter: the times a failure set has occurred after the      *)
(* failures in S are met, and those of S it locks.                         *)
TimesAfter(S)  == [f \in Failures |-> IF f \in S \ occurred
                                      THEN times[f] + 1 ELSE times[f]]
LockedAfter(S) == {f \in S : TimesAfter(S)[f] >= LimitedTimes}

Frame(en, d1, d2) == [enable |-> en, duty1 |-> d1, duty2 |-> d2]

-----------------------------------------------------------------------------
FailureInit ==
  /\ occurred = {} /\ locked = {}
  /\ times = [f \in Failures |-> 0]
  /\ fault = {} /\ faultLock = {} /\ listLock = FALSE
  /\ sysFault = {} /\ sysLock = {}
  /\ count = [f \in Fast |-> 0]

TimerInit ==
  /\ hold = [r \in HoldRelays |-> RelayReset] /\ relayLock = FALSE
  /\ keep = RelayReset /\ restart = RelayReset

StageInit ==
  /\ tlOn = FALSE /\ startMode = 0
  /\ batOn = FALSE /\ batMode = 0
  /\ fpga = Frame(FALSE, 0, 0)
  /\ hw = Frame(FALSE, 0, 0)

LogicInit ==
  /\ pc = "sleep" /\ ctrlOrd = 0 /\ step = 0 /\ pend = 0
  /\ adRan = FALSE
  /\ resets = 0
  /\ pause = RestartTime + 1

Init == FailureInit /\ TimerInit /\ StageInit /\ Fan!FanInit /\ LogicInit

-----------------------------------------------------------------------------
(***************************************************************************)
(* The ad thread.                                                          *)
(***************************************************************************)

(* Counter::Increase saturates one above its limit, which is its result.   *)
CountAfter(over) ==
  [f \in Fast |-> IF f \notin over THEN 0
                  ELSE IF count[f] > CountLimit[f] THEN count[f]
                  ELSE count[f] + 1]

(* Bat::FastCheck returns at once, counters untouched, when not running.   *)
FastCheck(over) ==
  LET tripped == {f \in over : CountAfter(over)[f] > CountLimit[f]}
  IN IF batOn
     THEN /\ count' = CountAfter(over)
          /\ times' = TimesAfter(tripped)
          /\ occurred' = occurred \cup tripped
          /\ locked' = locked \cup LockedAfter(tripped)
     ELSE UNCHANGED <<count, failVars>>

(* UpdateFaultState is skipped while another thread holds listLock.        *)
UpdateFaultState ==
  IF listLock THEN UNCHANGED <<fault, faultLock>>
  ELSE /\ fault' = fault \cup occurred'
       /\ faultLock' = faultLock \cup locked'

(* relays.Reset is skipped while another thread holds relayLock.           *)
AdOff ==
  /\ tlOn' = FALSE
  /\ restart' = IF tlOn THEN RelayReset ELSE restart
  /\ batOn' = FALSE
  /\ hold' = IF batOn /\ ~relayLock
             THEN [r \in HoldRelays |-> RelayReset] ELSE hold
  /\ fpga' = Frame(FALSE, 0, 0)

(* Bat::Run computes both duties under the control law of batMode; a frame *)
(* carries the mode its duties were computed for, 0 standing for no duty.  *)
AdRun ==
  /\ fpga' = IF batOn THEN Frame(TRUE, batMode, batMode) ELSE fpga
  /\ UNCHANGED <<tlOn, restart, batOn, hold>>

(* Left out: start_record_fault, which copies samples for the fault log    *)
(* when a running stage is locked; nothing here depends on them.           *)
BatControl(over) ==
  /\ FastCheck(over)
  /\ UpdateFaultState
  /\ sysFault' = fault' \ Warning
  /\ sysLock' = faultLock' \ Warning
  /\ IF sysFault' # {} /\ sysLock' # {} THEN AdOff ELSE AdRun
  /\ hw' = fpga'
  /\ adRan' = TRUE
  /\ pause' = IF hw.enable /\ ~hw'.enable THEN 0 ELSE pause
  /\ UNCHANGED <<listLock, relayLock, keep, startMode, batMode, fanVars,
                 pc, locals, resets>>

Ad == \E over \in SUBSET Fast : BatControl(over)

(***************************************************************************)
(* The logic thread: StateControl, one action per access to shared state.  *)
(***************************************************************************)
Goto(from, to) == pc = from /\ pc' = to

(* rt_thread_delay(10) is over: ad, which waits at most 5 ms, has run.     *)
ReadOrder ==
  /\ Goto("sleep", "check")
  /\ adRan
  /\ ctrlOrd' \in Orders
  /\ step' = IF batOn THEN 1 ELSE Len(RunChecks) + 1
  /\ UNCHANGED <<failVars, listVars, adVars, timerVars, stageVars,
                 fanVars, pend, adRan, resets, pause>>

(* Mutant: a value within its limit leaves the hold timer running.         *)
SlowCheckKeepsTimer ==
  /\ pc = "check" /\ step \in CheckIds
  /\ \E over \in BOOLEAN :
       LET c   == Checks[step]
           met == IF over /\ hold[c.relay].result THEN {c.fail} ELSE {}
       IN /\ hold' = [hold EXCEPT ![c.relay] = IF over THEN RelayStart(@) ELSE @]
          /\ times' = TimesAfter(met)
          /\ occurred' = occurred \cup met
          /\ pc' = IF met = {} THEN "check" ELSE "lock"
          /\ step' = IF met = {} THEN step + 1 ELSE step
  /\ UNCHANGED <<locked, listVars, adVars, relayLock, keep, restart,
                 stageVars, fanVars, ctrlOrd, pend, adRan, resets, pause>>

(* IsMaximizing with a hold timer: it runs while the value is over, and a  *)
(* failure is met once it has run out.                                     *)
SlowCheck ==
  /\ pc = "check" /\ step \in CheckIds
  /\ \E over \in BOOLEAN :
       LET c   == Checks[step]
           met == IF over /\ hold[c.relay].result THEN {c.fail} ELSE {}
       IN /\ hold' = [hold EXCEPT ![c.relay] =
                        IF over THEN RelayStart(@) ELSE RelayReset]
          /\ times' = TimesAfter(met)
          /\ occurred' = occurred \cup met
          /\ pc' = IF met = {} THEN "check" ELSE "lock"
          /\ step' = IF met = {} THEN step + 1 ELSE step
  /\ UNCHANGED <<locked, listVars, adVars, relayLock, keep, restart,
                 stageVars, fanVars, ctrlOrd, pend, adRan, resets, pause>>

(* The last statement of Encounter, after isOccurred was set.              *)
EncounterLock ==
  /\ Goto("lock", "check")
  /\ locked' = IF times[Checks[step].fail] >= LimitedTimes
               THEN locked \cup {Checks[step].fail}
               ELSE locked \ {Checks[step].fail}
  /\ step' = step + 1
  /\ UNCHANGED <<occurred, times, listVars, adVars, timerVars,
                 stageVars, fanVars, ctrlOrd, pend, adRan, resets, pause>>

LockRelays ==
  /\ Goto("check", "refresh")
  /\ step \notin CheckIds
  /\ step' = 0
  /\ relayLock' = TRUE
  /\ UNCHANGED <<failVars, listVars, adVars, hold, keep, restart,
                 stageVars, fanVars, ctrlOrd, pend, adRan, resets, pause>>

RefreshRelays ==
  /\ Goto("refresh", "timers")
  /\ hold' = [r \in HoldRelays |-> RelayRefresh(hold[r], HoldTime)]
  /\ relayLock' = FALSE
  /\ UNCHANGED <<failVars, listVars, adVars, keep, restart, stageVars,
                 fanVars, cycleVars>>

(***************************************************************************)
(* faultKeepTime is used by this thread alone.  restartTime is also reset  *)
(* by ad: Refresh reads its fields here and writes one of them in the next *)
(* step.  pend is the pending write: 0 none, RestartTime + 1 m_result,     *)
(* anything else the new presentTime.                                      *)
(***************************************************************************)
RefreshTimers ==
  /\ Goto("timers", "store")
  /\ keep' = RelayRefresh(keep, KeepTime)
  /\ pend' = IF ~restart.cond THEN 0
             ELSE IF restart.time >= RestartTime THEN RestartTime + 1
             ELSE restart.time + 1
  /\ UNCHANGED <<failVars, listVars, adVars, hold, relayLock, restart,
                 stageVars, fanVars, ctrlOrd, step, adRan, resets, pause>>

StoreRestart ==
  /\ Goto("store", "decide")
  /\ restart' = IF pend = 0 THEN restart
                ELSE IF pend > RestartTime THEN [restart EXCEPT !.result = TRUE]
                ELSE [restart EXCEPT !.time = pend]
  /\ pend' = 0
  /\ UNCHANGED <<failVars, listVars, adVars, hold, relayLock, keep,
                 stageVars, fanVars, ctrlOrd, step, adRan, resets, pause>>

(* Mutants: a locked fault, or the fan, is not looked at.                  *)
PermittedDespiteLock == ctrlOrd > 0 /\ fanSteady /\ ctrlOrd = startMode
PermittedWithoutFan  == /\ sysFault = {} /\ sysLock = {}
                        /\ ctrlOrd > 0 /\ ctrlOrd = startMode

Permitted == /\ sysFault = {} /\ sysLock = {}
             /\ ctrlOrd > 0 /\ fanSteady /\ ctrlOrd = startMode

Decide ==
  /\ pc = "decide"
  /\ pc' = IF Permitted THEN "on" ELSE "off"
  /\ UNCHANGED <<failVars, listVars, adVars, timerVars, stageVars,
                 fanVars, cycleVars>>

-----------------------------------------------------------------------------
(* ThreeLevel::On.                                                         *)

OnPrepare ==
  /\ Goto("on", "onWait")
  /\ batMode' = IF tlOn THEN batMode ELSE startMode
  /\ restart' = IF tlOn THEN restart ELSE RelayStart(restart)
  /\ UNCHANGED <<failVars, listVars, adVars, hold, relayLock, keep,
                 tlOn, startMode, batOn, fpga, fanVars, cycleVars>>

OnWait ==
  /\ pc = "onWait"
  /\ pc' = IF restart.result THEN "onProduct" ELSE "onDone"
  /\ UNCHANGED <<failVars, listVars, adVars, timerVars, stageVars,
                 fanVars, cycleVars>>

OnProduct ==
  /\ Goto("onProduct", "onBat")
  /\ tlOn' = TRUE
  /\ UNCHANGED <<failVars, listVars, adVars, timerVars, startMode,
                 batOn, batMode, fpga, fanVars, cycleVars>>

OnBat ==
  /\ Goto("onBat", "onDone")
  /\ batOn' = TRUE
  /\ UNCHANGED <<failVars, listVars, adVars, timerVars, tlOn, startMode,
                 batMode, fpga, fanVars, cycleVars>>

(* Left out: the set points of the control laws, and fpga.unlock, which is *)
(* cleared here, was clear from the start and is never set.                *)
OnDone ==
  /\ Goto("onDone", "fan")
  /\ keep' = RelayReset
  /\ UNCHANGED <<failVars, listVars, adVars, hold, relayLock, restart,
                 stageVars, fanVars, cycleVars>>

-----------------------------------------------------------------------------
(* ThreeLevel::Off and Bat::Off.                                           *)

OffProduct ==
  /\ pc = "off"
  /\ pc' = IF tlOn THEN "offRestart" ELSE "offBat"
  /\ tlOn' = FALSE
  /\ UNCHANGED <<failVars, listVars, adVars, timerVars, startMode,
                 batOn, batMode, fpga, fanVars, cycleVars>>

(* Mutant: the restart delay keeps its result.                             *)
OffKeepsRestart ==
  /\ Goto("offRestart", "offBat")
  /\ UNCHANGED <<failVars, listVars, adVars, timerVars, stageVars,
                 fanVars, cycleVars>>

OffRestart ==
  /\ Goto("offRestart", "offBat")
  /\ restart' = RelayReset
  /\ UNCHANGED <<failVars, listVars, adVars, hold, relayLock, keep,
                 stageVars, fanVars, cycleVars>>

(* Mutant: isStartEnable of the Bat stays set.                             *)
OffBatForgets ==
  /\ pc = "offBat"
  /\ pc' = IF batOn THEN "offRelays" ELSE "offDuty1"
  /\ UNCHANGED <<failVars, listVars, adVars, timerVars, stageVars,
                 fanVars, cycleVars>>

OffBat ==
  /\ pc = "offBat"
  /\ pc' = IF batOn THEN "offRelays" ELSE "offDuty1"
  /\ batOn' = FALSE
  /\ UNCHANGED <<failVars, listVars, adVars, timerVars, tlOn, startMode,
                 batMode, fpga, fanVars, cycleVars>>

(* Mutant: the hold timers are not reset.                                  *)
OffKeepsRelays ==
  /\ Goto("offRelays", "offDuty1")
  /\ UNCHANGED <<failVars, listVars, adVars, timerVars, stageVars,
                 fanVars, cycleVars>>

OffRelays ==
  /\ Goto("offRelays", "offDuty1")
  /\ hold' = [r \in HoldRelays |-> RelayReset]
  /\ UNCHANGED <<failVars, listVars, adVars, relayLock, keep, restart,
                 stageVars, fanVars, cycleVars>>

OffDuty1 ==
  /\ Goto("offDuty1", "offDuty2")
  /\ fpga' = [fpga EXCEPT !.duty1 = 0]
  /\ UNCHANGED <<failVars, listVars, adVars, timerVars, tlOn, startMode,
                 batOn, batMode, fanVars, cycleVars>>

OffDuty2 ==
  /\ Goto("offDuty2", "offEnable")
  /\ fpga' = [fpga EXCEPT !.duty2 = 0]
  /\ UNCHANGED <<failVars, listVars, adVars, timerVars, tlOn, startMode,
                 batOn, batMode, fanVars, cycleVars>>

(* Mutant: only the duties are cleared.                                    *)
OffKeepsEnable ==
  /\ Goto("offEnable", "offDone")
  /\ UNCHANGED <<failVars, listVars, adVars, timerVars, stageVars,
                 fanVars, cycleVars>>

OffEnable ==
  /\ Goto("offEnable", "offDone")
  /\ fpga' = [fpga EXCEPT !.enable = batOn]
  /\ UNCHANGED <<failVars, listVars, adVars, timerVars, tlOn, startMode,
                 batOn, batMode, fanVars, cycleVars>>

(* Mutants: the reset does not wait for faultKeepTime, or it never runs.   *)
OffDoneAtOnce ==
  /\ pc = "offDone"
  /\ pc' = IF sysFault # {} /\ sysLock = {} THEN "reset" ELSE "fan"
  /\ keep' = RelayStart(keep)
  /\ UNCHANGED <<failVars, listVars, adVars, hold, relayLock, restart,
                 stageVars, fanVars, cycleVars>>
OffDoneNoKeep ==
  /\ pc = "offDone"
  /\ pc' = IF keep.result /\ sysFault # {} /\ sysLock = {}
           THEN "reset" ELSE "fan"
  /\ UNCHANGED <<failVars, listVars, adVars, timerVars, stageVars,
                 fanVars, cycleVars>>

(* faultKeepTime.Start, then ResetFaulture if it has run out.              *)
OffDone ==
  /\ pc = "offDone"
  /\ pc' = IF keep.result /\ sysFault # {} /\ sysLock = {}
           THEN "reset" ELSE "fan"
  /\ keep' = RelayStart(keep)
  /\ UNCHANGED <<failVars, listVars, adVars, hold, relayLock, restart,
                 stageVars, fanVars, cycleVars>>

-----------------------------------------------------------------------------
(* FailureCheck::ResetFaulture.                                            *)

(* Mutant: ad is not locked out of the list.                               *)
ResetUnlocked ==
  /\ Goto("reset", "resetList")
  /\ UNCHANGED <<failVars, listVars, adVars, timerVars,
                 stageVars, fanVars, cycleVars>>

ResetBegin ==
  /\ Goto("reset", "resetList")
  /\ listLock' = TRUE
  /\ UNCHANGED <<failVars, fault, faultLock, adVars, timerVars,
                 stageVars, fanVars, cycleVars>>

ResetList ==
  /\ Goto("resetList", "resetFault")
  /\ occurred' = {}
  /\ UNCHANGED <<times, locked, listVars, adVars, timerVars, stageVars,
                 fanVars, cycleVars>>

ResetFault ==
  /\ Goto("resetFault", "fan")
  /\ fault' = {}
  /\ listLock' = FALSE
  /\ keep' = RelayReset
  /\ resets' = resets + 1
  /\ UNCHANGED <<failVars, faultLock, adVars, hold, relayLock, restart,
                 stageVars, fanVars, locals, adRan, pause>>

(* FanLogic reads the order again; then the mode follows the order that    *)
(* was read at the start, and the thread sleeps.                           *)
FinishCycle ==
  /\ Goto("fan", "sleep")
  /\ \E o \in Orders, t \in Temps : Fan!FanCycle(o, t)
  /\ startMode' = IF ctrlOrd \in Modes THEN ctrlOrd ELSE 0
  /\ ctrlOrd' = 0
  /\ adRan' = FALSE
  /\ pause' = IF pause > RestartTime THEN pause ELSE pause + 1
  /\ UNCHANGED <<failVars, listVars, adVars, timerVars, tlOn, batOn,
                 batMode, fpga, step, pend, resets>>

On      == OnPrepare \/ OnWait \/ OnProduct \/ OnBat \/ OnDone
Off     == \/ OffProduct \/ OffRestart \/ OffBat \/ OffRelays \/ OffDuty1
           \/ OffDuty2 \/ OffEnable \/ OffDone
ResetFaulture == ResetBegin \/ ResetList \/ ResetFault
Refresh == LockRelays \/ RefreshRelays \/ RefreshTimers \/ StoreRestart

StateControl == \/ ReadOrder \/ SlowCheck \/ EncounterLock \/ Refresh
                \/ Decide \/ On \/ Off \/ ResetFaulture \/ FinishCycle

Next == Ad \/ StateControl

Spec == Init /\ [][Next]_vars

-----------------------------------------------------------------------------
(***************************************************************************)
(* Properties.                                                             *)
(***************************************************************************)

Places == {"sleep", "check", "lock", "refresh", "timers", "store", "decide",
           "on", "onWait", "onProduct", "onBat", "onDone",
           "off", "offRestart", "offBat", "offRelays", "offDuty1", "offDuty2",
           "offEnable", "offDone", "reset", "resetList", "resetFault", "fan"}

Frames == [enable : BOOLEAN, duty1 : Modes, duty2 : Modes]

FailureTypeOK ==
  /\ occurred \subseteq Failures /\ locked \subseteq Failures
  /\ times \in [Failures -> Nat]
  /\ fault \subseteq Failures /\ faultLock \subseteq Failures
  /\ listLock \in BOOLEAN
  /\ sysFault \subseteq Failures /\ sysLock \subseteq Failures
  /\ count \in [Fast -> Nat]

TimerTypeOK ==
  /\ hold \in [HoldRelays -> RelayType(HoldTime)] /\ relayLock \in BOOLEAN
  /\ keep \in RelayType(KeepTime) /\ restart \in RelayType(RestartTime)

StageTypeOK ==
  /\ tlOn \in BOOLEAN /\ startMode \in Modes
  /\ batOn \in BOOLEAN /\ batMode \in Modes
  /\ fpga \in Frames /\ hw \in Frames

LogicTypeOK ==
  /\ pc \in Places
  /\ ctrlOrd \in Orders /\ step \in Nat /\ pend \in 0 .. RestartTime + 1
  /\ adRan \in BOOLEAN
  /\ resets \in Nat
  /\ pause \in 0 .. RestartTime + 1

(* Every variable keeps the type of its C++ member; above all no timer     *)
(* counts past its delay, where Relay::Refresh compares with >=.           *)
TypeOK == FailureTypeOK /\ TimerTypeOK /\ StageTypeOK /\ Fan!FanTypeOK /\ LogicTypeOK

(* From the conversion in which a locked fault becomes visible the FPGA is *)
(* disabled with both duties zero, wherever in StateControl the logic      *)
(* thread was preempted: even between finding the restart delay over and   *)
(* switching the stage on (BatControl, ThreeLevel.cpp:95-103).             *)
LockedFaultDisables == sysLock # {} => hw = Frame(FALSE, 0, 0)

(* A stage that stopped is disabled in the registers by the first          *)
(* conversion after the cycle that stopped it; until then an enabled frame *)
(* may survive, but only without a second switch-on.                       *)
StopReachesFpga == pc = "sleep" /\ adRan /\ ~batOn => hw = Frame(FALSE, 0, 0)

(* FanLogic reads the order again after StateControl has decided on it,    *)
(* and may take the steady fan away from a stage it has just switched on.  *)
(* Such a stage runs to the end of the next StateControl at most: when the *)
(* cycle comes to FanLogic again, the stage is off or the fan is steady    *)
(* (ThreeLevel.cpp:122-151, 294).  Steady is the flag; HALF earns it with  *)
(* the relay open (FanCooling, SteadyWithoutHalf).                         *)
SteadyWhileOn == pc = "fan" /\ batOn => fanSteady

(* A failure locks only after LimitedTimes occurrences, and two of them    *)
(* never count without a ResetFaulture in between.                         *)
LockNeedsRepeatedFault ==
  \A f \in Failures : /\ times[f] <= resets + 1
                      /\ f \in locked => resets + 1 >= LimitedTimes

(* Whatever is reported as fault was met and not reset since, and whatever *)
(* is locked stays locked: no later ResetFaulture unlocks it.              *)
ReportsAreReal ==
  /\ faultLock \subseteq locked
  /\ fault \subseteq occurred \/ listLock

(* A stage that was stopped by the order keeps no hold timer running into  *)
(* its next start, although the checks that restart them are not made      *)
(* while it rests (Bat::Off, SlowCheck).                                   *)
HoldTimersRest ==
  pc = "sleep" /\ ~batOn /\ sysLock = {}
    => \A i \in 1 .. Len(RunChecks) : hold[RunChecks[i].relay] = RelayReset

(* The registers implement PowerStage: charge and discharge are separated  *)
(* by a disabled frame however fast the order flips, and a locked fault    *)
(* disables the stage in the very frame it is first seen in, for ever.     *)
Law   == IF ~hw.enable THEN 0
         ELSE IF hw.duty1 # 0 THEN hw.duty1 ELSE hw.duty2
Stage == INSTANCE PowerStage WITH enabled <- hw.enable, law <- Law,
                                  latched <- sysLock # {}
ImplementsPowerStage == Stage!Spec

(* A fault is cleared only with the stage off in the registers.            *)
FaultClearsOnlyWhenOff ==
  [][fault \ fault' # {} => ~batOn /\ ~hw.enable]_vars

(* Between a stop and the next start the FPGA stays disabled for the       *)
(* restart delay, also when the start was ordered, withdrawn and ordered   *)
(* again meanwhile.                                                        *)
MinimumPause == [][~hw.enable /\ hw'.enable => pause >= RestartTime]_vars

(* A fault that is visible is either reset after faultKeepTime or locks.   *)
FaultIsResolved == sysFault # {} ~> sysFault = {} \/ sysLock # {}
=============================================================================
