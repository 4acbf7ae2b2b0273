-------------------------- MODULE ThreeLevelProofs --------------------------
(* What holds of ThreeLevel for every choice of failures, checks and times.*)
EXTENDS HoldChecks, SequenceTheorems, TLAPS

(* Every check SlowCheck makes names a slow failure and a hold timer.      *)
LEMMA ChecksType ==
  ASSUME NEW i \in CheckIds
  PROVE  Checks[i].fail \in Slow /\ Checks[i].relay \in HoldRelays
<1>1. Checks \in Seq([fail : Slow, relay : HoldRelays])
  BY ConstantsAssumption, ConcatProperties DEF Checks
<1>2. Checks[i] \in [fail : Slow, relay : HoldRelays]
  BY <1>1, ElementOfSeq DEF CheckIds
<1> QED
  BY <1>2

(* A timer keeps its type whatever is done to it.                          *)
LEMMA RelayTyping ==
  ASSUME NEW limit \in Nat, NEW r \in RelayType(limit)
  PROVE  /\ RelayReset \in RelayType(limit)
         /\ RelayStart(r) \in RelayType(limit)
         /\ RelayRefresh(r, limit) \in RelayType(limit)
<1> USE DEF RelayType
<1>1. RelayReset \in RelayType(limit)
  BY DEF RelayReset
<1>2. RelayStart(r) \in RelayType(limit)
  BY DEF RelayStart
<1>3. RelayRefresh(r, limit) \in RelayType(limit)
  <2>1. CASE ~r.cond
    BY <2>1 DEF RelayRefresh
  <2>2. CASE r.cond /\ r.time >= limit
    BY <2>2 DEF RelayRefresh
  <2>3. CASE r.cond /\ ~(r.time >= limit)
    <3>1. r.time + 1 \in 0 .. limit
      BY <2>3
    <3>2. RelayRefresh(r, limit) = [r EXCEPT !.time = r.time + 1]
      BY <2>3 DEF RelayRefresh
    <3> QED
      BY <3>1, <3>2
  <2> QED
    BY <2>1, <2>2, <2>3
<1> QED
  BY <1>1, <1>2, <1>3

LEMMA TimesTyping ==
  ASSUME NEW S, times \in [Failures -> Nat]
  PROVE  TimesAfter(S) \in [Failures -> Nat]
BY DEF TimesAfter

(* While Encounter is under way, step names a check.                       *)
StepInRange == pc = "lock" => step \in CheckIds

TypeInv == TypeOK /\ StepInRange

LEMMA TypeInit == Init => TypeInv
<1> SUFFICES ASSUME FailureInit, TimerInit, StageInit, Fan!FanInit, LogicInit
             PROVE  TypeInv
  BY DEF Init
<1>1. FailureTypeOK
  BY DEF FailureInit, FailureTypeOK
<1>2. TimerTypeOK
  <2>1. \A limit \in Nat : RelayReset \in RelayType(limit)
    BY DEF RelayReset, RelayType
  <2> QED
    BY <2>1, ConstantsAssumption DEF TimerInit, TimerTypeOK
<1>3. StageTypeOK
  <2>1. 0 \in Modes
    BY DEF Modes
  <2>2. Frame(FALSE, 0, 0) \in Frames
    BY <2>1 DEF Frame, Frames
  <2> QED
    BY <2>1, <2>2 DEF StageInit, StageTypeOK
<1>4. Fan!FanTypeOK
  <2>1. 0 \in 0 .. FanRunMax
    BY ConstantsAssumption
  <2> QED
    BY <2>1 DEF Fan!FanInit, Fan!FanTypeOK, Fan!FanStates
<1>5. LogicTypeOK /\ StepInRange
  <2>1. /\ 0 \in Orders /\ 0 \in Nat /\ 0 \in 0 .. RestartTime + 1
        /\ RestartTime + 1 \in 0 .. RestartTime + 1
    BY ConstantsAssumption DEF Orders
  <2>2. pc \in Places /\ StepInRange
    BY DEF LogicInit, Places, StepInRange
  <2> QED
    BY <2>1, <2>2 DEF LogicInit, LogicTypeOK
<1> QED
  BY <1>1, <1>2, <1>3, <1>4, <1>5 DEF TypeInv, TypeOK

-----------------------------------------------------------------------------
(* Type correctness, one part at a time: the actions that write a variable *)
(* of the part, then all the others together.                              *)

LEMMA CheckedStep ==
  ASSUME SlowCheck \/ (pc = "lock" /\ StepInRange)
  PROVE  Checks[step].fail \in Slow /\ Checks[step].relay \in HoldRelays
BY ChecksType DEF SlowCheck, StepInRange

LEMMA SlowCheckHold ==
  ASSUME SlowCheck
  PROVE  \E over \in BOOLEAN :
           hold' = [hold EXCEPT ![Checks[step].relay] =
                      IF over THEN RelayStart(@) ELSE RelayReset]
BY DEF SlowCheck

LEMMA FailureTyping == TypeInv /\ Next => FailureTypeOK'
<1> SUFFICES ASSUME FailureTypeOK, StepInRange, Next
             PROVE  FailureTypeOK'
  BY DEF TypeInv, TypeOK
<1> USE DEF FailureTypeOK
<1>1. CASE Ad
  <2>1. PICK over \in SUBSET Fast : BatControl(over)
    BY <1>1 DEF Ad
  <2>2. FastCheck(over) /\ UpdateFaultState
    BY <2>1 DEF BatControl
  <2>3. count' \in [Fast -> Nat]
    <3>1. CountAfter(over) \in [Fast -> Nat]
      BY ConstantsAssumption DEF CountAfter
    <3> QED
      BY <3>1, <2>2 DEF FastCheck
  <2>4. times' \in [Failures -> Nat]
    BY <2>2, TimesTyping DEF FastCheck, failVars
  <2>5. occurred' \subseteq Failures /\ locked' \subseteq Failures
    BY <2>2 DEF FastCheck, failVars, LockedAfter, Failures
  <2>6. fault' \subseteq Failures /\ faultLock' \subseteq Failures
    BY <2>2, <2>5 DEF UpdateFaultState
  <2> QED
    BY <2>1, <2>3, <2>4, <2>5, <2>6 DEF BatControl
<1>2. CASE SlowCheck
  <2>1. PICK met \in SUBSET {Checks[step].fail} :
          times' = TimesAfter(met) /\ occurred' = occurred \cup met
    BY <1>2 DEF SlowCheck
  <2>2. times' \in [Failures -> Nat]
    BY <2>1, TimesTyping
  <2>3. occurred' \subseteq Failures
    BY <1>2, <2>1, CheckedStep DEF Failures
  <2> QED
    BY <1>2, <2>2, <2>3 DEF SlowCheck, listVars, adVars, sysVars
<1>3. CASE EncounterLock
  <2>1. Checks[step].fail \in Failures
    BY <1>3, CheckedStep DEF EncounterLock, Goto, Failures
  <2> QED
    BY <1>3, <2>1 DEF EncounterLock, listVars, adVars, sysVars
<1>4. CASE ResetFaulture
  BY <1>4 DEF ResetFaulture, ResetBegin, ResetList, ResetFault,
              failVars, listVars, adVars, sysVars
<1>5. CASE ReadOrder \/ Refresh \/ Decide \/ On \/ Off \/ FinishCycle
  <2>1. UNCHANGED <<failVars, listVars, adVars>>
    BY <1>5 DEF ReadOrder, Refresh, LockRelays, RefreshRelays, RefreshTimers,
                StoreRestart, Decide, On, OnPrepare, OnWait, OnProduct, OnBat,
                OnDone, Off, OffProduct, OffRestart, OffBat, OffRelays, OffDuty1,
                OffDuty2, OffEnable, OffDone, FinishCycle
  <2> QED
    BY <2>1 DEF failVars, listVars, adVars, sysVars
<1> QED
  BY <1>1, <1>2, <1>3, <1>4, <1>5 DEF Next, StateControl

LEMMA TimerTyping == TypeInv /\ Next => TimerTypeOK'
<1> SUFFICES ASSUME TimerTypeOK, pend \in 0 .. RestartTime + 1, Next
             PROVE  TimerTypeOK'
  BY DEF TypeInv, TypeOK, LogicTypeOK
<1> USE DEF TimerTypeOK
<1>r. \A limit \in Nat : \A r \in RelayType(limit) :
        /\ RelayReset \in RelayType(limit)
        /\ RelayStart(r) \in RelayType(limit)
        /\ RelayRefresh(r, limit) \in RelayType(limit)
  BY RelayTyping
<1>h. HoldTime \in Nat /\ KeepTime \in Nat /\ RestartTime \in Nat
  BY ConstantsAssumption
<1>z. [r \in HoldRelays |-> RelayReset] \in [HoldRelays -> RelayType(HoldTime)]
  <2>1. RelayReset \in RelayType(HoldTime)
    BY <1>h DEF RelayReset, RelayType
  <2> QED
    BY <2>1
<1>1. CASE Ad
  <2>1. PICK over \in SUBSET Fast : BatControl(over)
    BY <1>1 DEF Ad
  <2>2. hold' \in [HoldRelays -> RelayType(HoldTime)]
    BY <2>1, <1>z DEF BatControl, AdOff, AdRun
  <2>3. restart' \in RelayType(RestartTime)
    BY <2>1, <1>r, <1>h DEF BatControl, AdOff, AdRun
  <2> QED
    BY <2>1, <2>2, <2>3 DEF BatControl
<1>2. CASE SlowCheck
  <2>1. Checks[step].relay \in HoldRelays
    BY <1>2, ChecksType DEF SlowCheck
  <2>2. PICK over \in BOOLEAN :
          hold' = [hold EXCEPT ![Checks[step].relay] =
                     IF over THEN RelayStart(@) ELSE RelayReset]
    BY <1>2, SlowCheckHold
  <2>3. hold[Checks[step].relay] \in RelayType(HoldTime)
    BY <2>1
  <2>4. {RelayStart(hold[Checks[step].relay]), RelayReset} \subseteq RelayType(HoldTime)
    BY <2>3, <1>r, <1>h
  <2>5. hold' \in [HoldRelays -> RelayType(HoldTime)]
    BY <2>1, <2>2, <2>4
  <2> QED
    BY <1>2, <2>5 DEF SlowCheck
<1>3. CASE RefreshRelays
  <2>1. \A r \in HoldRelays : RelayRefresh(hold[r], HoldTime) \in RelayType(HoldTime)
    BY <1>r, <1>h
  <2> QED
    BY <1>3, <2>1 DEF RefreshRelays
<1>4. CASE RefreshTimers
  BY <1>4, <1>r, <1>h DEF RefreshTimers
<1>5. CASE StoreRestart
  <2>1. CASE pend \in 1 .. RestartTime
    BY <1>5, <1>h, <2>1 DEF StoreRestart, RelayType
  <2>2. CASE pend = 0
    BY <1>5, <2>2 DEF StoreRestart
  <2>3. CASE pend > RestartTime
    BY <1>5, <1>h, <2>3 DEF StoreRestart, RelayType
  <2> QED
    BY <2>1, <2>2, <2>3, <1>h
<1>6. CASE OnPrepare \/ OnDone \/ OffRestart \/ OffDone \/ ResetFault
  <2>1. keep' \in {keep, RelayReset, RelayStart(keep)}
    BY <1>6 DEF OnPrepare, OnDone, OffRestart, OffDone, ResetFault
  <2>2. restart' \in {restart, RelayReset, RelayStart(restart)}
    BY <1>6 DEF OnPrepare, OnDone, OffRestart, OffDone, ResetFault
  <2>3. UNCHANGED <<hold, relayLock>>
    BY <1>6 DEF OnPrepare, OnDone, OffRestart, OffDone, ResetFault
  <2> QED
    BY <2>1, <2>2, <2>3, <1>r, <1>h
<1>7. CASE OffRelays
  BY <1>7, <1>z DEF OffRelays
<1>8. CASE LockRelays
  BY <1>8 DEF LockRelays
<1>9. CASE \/ ReadOrder \/ EncounterLock \/ Decide \/ OnWait \/ OnProduct \/ OnBat
           \/ OffProduct \/ OffBat \/ OffDuty1 \/ OffDuty2 \/ OffEnable
           \/ ResetBegin \/ ResetList \/ FinishCycle
  <2>1. UNCHANGED timerVars
    BY <1>9 DEF ReadOrder, EncounterLock, Decide, OnWait, OnProduct, OnBat,
                OffProduct, OffBat, OffDuty1, OffDuty2, OffEnable, ResetBegin,
                ResetList, FinishCycle
  <2> QED
    BY <2>1 DEF timerVars
<1> QED
  BY <1>1, <1>2, <1>3, <1>4, <1>5, <1>6, <1>7, <1>8, <1>9
     DEF Next, StateControl, Refresh, On, Off, ResetFaulture

LEMMA StageTyping == TypeInv /\ Next => StageTypeOK'
<1> SUFFICES ASSUME StageTypeOK, Next
             PROVE  StageTypeOK'
  BY DEF TypeInv, TypeOK
<1> USE DEF StageTypeOK
<1>m. \A en \in BOOLEAN, d1 \in Modes, d2 \in Modes : Frame(en, d1, d2) \in Frames
  BY DEF Frame, Frames
<1>z. 0 \in Modes
  BY DEF Modes
<1>1. CASE Ad
  <2>1. PICK over \in SUBSET Fast : BatControl(over)
    BY <1>1 DEF Ad
  <2>2. fpga' \in {Frame(FALSE, 0, 0), Frame(TRUE, batMode, batMode), fpga}
    BY <2>1 DEF BatControl, AdOff, AdRun
  <2>3. fpga' \in Frames
    BY <2>2, <1>m, <1>z
  <2> QED
    BY <2>1, <2>3 DEF BatControl, AdOff, AdRun
<1>2. CASE OffDuty1 \/ OffDuty2 \/ OffEnable
  <2>1. fpga' \in Frames
    BY <1>2, <1>z DEF OffDuty1, OffDuty2, OffEnable, Frames
  <2> QED
    BY <1>2, <2>1 DEF OffDuty1, OffDuty2, OffEnable, adVars
<1>3. CASE OnPrepare \/ OnProduct \/ OnBat \/ OffProduct \/ OffBat
  BY <1>3 DEF OnPrepare, OnProduct, OnBat, OffProduct, OffBat, adVars
<1>4. CASE FinishCycle
  BY <1>4, <1>z DEF FinishCycle, adVars
<1>5. CASE \/ ReadOrder \/ SlowCheck \/ EncounterLock \/ Refresh \/ Decide
           \/ OnWait \/ OnDone \/ OffRestart \/ OffRelays \/ OffDone \/ ResetFaulture
  <2>1. UNCHANGED <<adVars, stageVars>>
    BY <1>5 DEF ReadOrder, SlowCheck, EncounterLock, Refresh, LockRelays,
                RefreshRelays, RefreshTimers, StoreRestart, Decide, OnWait,
                OnDone, OffRestart, OffRelays, OffDone, ResetFaulture,
                ResetBegin, ResetList, ResetFault
  <2> QED
    BY <2>1 DEF adVars, stageVars
<1> QED
  BY <1>1, <1>2, <1>3, <1>4, <1>5 DEF Next, StateControl, On, Off

(* The logic thread's own fan logic, and the place it has reached.         *)
LEMMA FanTyping == TypeInv /\ Next => Fan!FanTypeOK'
<1> SUFFICES ASSUME Fan!FanTypeOK, Next
             PROVE  Fan!FanTypeOK'
  BY DEF TypeInv, TypeOK
<1> USE DEF Fan!FanTypeOK
<1>1. CASE FinishCycle
  <2>1. PICK o \in Orders, t \in Temps : Fan!FanCycle(o, t)
    BY <1>1 DEF FinishCycle
  <2>2. fanState' \in Fan!FanStates /\ fanRelay' \in BOOLEAN
    BY <2>1 DEF Fan!FanCycle, Fan!FanNext, Fan!FanStates
  <2>3. fanRunTime' \in 0 .. FanRunMax
    BY <2>1, ConstantsAssumption DEF Fan!FanCycle
  <2> QED
    BY <2>1, <2>2, <2>3 DEF Fan!FanCycle
<1>2. CASE ~FinishCycle
  <2>1. UNCHANGED fanVars
    BY <1>2 DEF Next, StateControl, Ad, BatControl, ReadOrder, SlowCheck,
                EncounterLock, Refresh, LockRelays, RefreshRelays,
                RefreshTimers, StoreRestart, Decide, On, OnPrepare, OnWait,
                OnProduct, OnBat, OnDone, Off, OffProduct, OffRestart, OffBat,
                OffRelays, OffDuty1, OffDuty2, OffEnable, OffDone,
                ResetFaulture, ResetBegin, ResetList, ResetFault
  <2> QED
    BY <2>1 DEF fanVars
<1> QED
  BY <1>1, <1>2

LEMMA LogicTyping == TypeInv /\ Next => LogicTypeOK' /\ StepInRange'
<1> SUFFICES ASSUME LogicTypeOK, TimerTypeOK, StepInRange, Next
             PROVE  LogicTypeOK' /\ StepInRange'
  BY DEF TypeInv, TypeOK
<1> USE DEF LogicTypeOK, StepInRange, Places
<1>r. RestartTime \in Nat
  BY ConstantsAssumption
<1>1. CASE Ad
  BY <1>1, <1>r DEF Ad, BatControl, locals
<1>2. CASE ReadOrder
  <2>1. Len(RunChecks) + 1 \in Nat
    BY ConstantsAssumption, LenProperties
  <2> QED
    BY <1>2, <2>1 DEF ReadOrder, Goto
<1>3. CASE SlowCheck
  <2>1. step \in CheckIds
    BY <1>3 DEF SlowCheck
  <2>2. pc' \in {"check", "lock"} /\ step' \in {step, step + 1} /\ (pc' = "lock" => step' = step)
    BY <1>3 DEF SlowCheck
  <2>3. UNCHANGED <<ctrlOrd, pend, adRan, resets, pause>>
    BY <1>3 DEF SlowCheck
  <2>4. step' \in Nat
    BY <2>2
  <2> QED
    BY <2>1, <2>2, <2>3, <2>4
<1>4. CASE EncounterLock \/ LockRelays
  BY <1>4 DEF EncounterLock, LockRelays, Goto
<1>5. CASE RefreshTimers
  <2>1. restart.time \in 0 .. RestartTime
    BY DEF TimerTypeOK, RelayType
  <2>2. pend' \in 0 .. RestartTime + 1
    BY <1>5, <1>r, <2>1 DEF RefreshTimers
  <2> QED
    BY <1>5, <2>2 DEF RefreshTimers, Goto
<1>6. CASE StoreRestart
  BY <1>6, <1>r DEF StoreRestart, Goto
<1>7. CASE FinishCycle
  <2>1. 0 \in Orders
    BY DEF Orders
  <2>2. pause' \in 0 .. RestartTime + 1
    BY <1>7, <1>r DEF FinishCycle
  <2> QED
    BY <1>7, <2>1, <2>2 DEF FinishCycle, Goto
<1>8. CASE ResetFault
  BY <1>8 DEF ResetFault, Goto, locals
<1>9. CASE \/ RefreshRelays \/ Decide \/ On \/ Off \/ ResetBegin \/ ResetList
  BY <1>9 DEF RefreshRelays, Decide, On, OnPrepare, OnWait, OnProduct, OnBat,
              OnDone, Off, OffProduct, OffRestart, OffBat, OffRelays, OffDuty1,
              OffDuty2, OffEnable, OffDone, ResetBegin, ResetList, Goto,
              cycleVars, locals
<1> QED
  BY <1>1, <1>2, <1>3, <1>4, <1>5, <1>6, <1>7, <1>8, <1>9
     DEF Next, StateControl, Refresh, ResetFaulture

LEMMA TypeInvariance == Spec => []TypeInv
<1>1. TypeInv /\ [Next]_vars => TypeInv'
  <2>1. TypeInv /\ Next => TypeInv'
    BY FailureTyping, TimerTyping, StageTyping, FanTyping, LogicTyping
       DEF TypeInv, TypeOK
  <2>2. TypeInv /\ UNCHANGED vars => TypeInv'
    BY DEF TypeInv, TypeOK, vars, FailureTypeOK, TimerTypeOK, StageTypeOK,
           Fan!FanTypeOK, LogicTypeOK, StepInRange, failVars, listVars,
           sysVars, timerVars, fanVars, cycleVars, locals
  <2> QED
    BY <2>1, <2>2
<1> QED
  BY TypeInit, <1>1, PTL DEF Spec

(* Whatever the failures, checks and delays, every variable keeps its type *)
(* and no timer counts past its delay.                                     *)
THEOREM TypeCorrect == Spec => []TypeOK
<1>1. TypeInv => TypeOK
  BY DEF TypeInv
<1> QED
  BY TypeInvariance, <1>1, PTL

-----------------------------------------------------------------------------
(***************************************************************************)
(* LockedFaultDisables.  BatControl disables the FPGA only when a fault    *)
(* AND a lock are reported.  The lock outlives the fault: ResetFaulture    *)
(* clears the latter.  What makes the property true nevertheless is that   *)
(* wherever the reported fault is missing the stage is already off, and    *)
(* stays off, because StateControl can not decide to switch it on before   *)
(* ad has reported the lock once more.                                     *)
(***************************************************************************)
Rest    == Frame(FALSE, 0, 0)
Stopped == ~batOn /\ fpga = Rest
OnPath  == {"on", "onWait", "onProduct", "onBat"}

(* Failures whose lock survived the reset of their occurrence.             *)
Orphans == (locked \ occurred) \ Warning

(* sysLock and listLock are what the logic thread may infer from them.     *)
Reported ==
  /\ sysLock = faultLock \ Warning
  /\ listLock <=> pc \in {"resetList", "resetFault"}
  /\ pc = "lock" => Checks[step].fail \in occurred

(* How far the switching off has come.                                     *)
OffProgress ==
  /\ pc \in {"offDone", "reset", "resetList", "resetFault"} => Stopped
  /\ pc \in {"offRelays", "offDuty1", "offDuty2", "offEnable"} => ~batOn
  /\ pc \in {"offDuty2", "offEnable"} => fpga.duty1 = 0
  /\ pc = "offEnable" => fpga.duty2 = 0

(* A lock without an occurrence rests, and is reported before Decide.      *)
OrphanRests ==
  Orphans # {} =>
    /\ Stopped /\ pc \notin OnPath
    /\ sysLock # {} \/ pc \in {"resetFault", "fan"} \/ (pc = "sleep" /\ ~adRan)

(* A reported lock without a reported fault rests as well, and while On is *)
(* under way the fault is there.                                           *)
LockRests ==
  sysLock # {} /\ fault \ Warning = {} => Stopped /\ pc \notin OnPath

LockInv == /\ Reported /\ OffProgress /\ OrphanRests /\ LockRests
           /\ LockedFaultDisables

LEMMA LockInit == Init => LockInv
BY DEF Init, FailureInit, StageInit, LogicInit, LockInv, Reported, OffProgress,
       OrphanRests, Orphans, LockRests, LockedFaultDisables, Rest

LEMMA LockAd == TypeInv /\ LockInv /\ Ad => LockInv'
<1> SUFFICES ASSUME LockInv, NEW over \in SUBSET Fast, BatControl(over)
             PROVE  LockInv'
  BY DEF Ad
<1> USE DEF LockInv, Reported
<1>1. UNCHANGED <<pc, step, listLock>>
  BY DEF BatControl, locals
<1>2. /\ occurred \subseteq occurred' /\ locked \subseteq locked'
      /\ locked' \ locked \subseteq occurred'
  BY DEF BatControl, FastCheck, LockedAfter, failVars
<1>3. /\ fault' = IF listLock THEN fault ELSE fault \cup occurred'
      /\ faultLock' = IF listLock THEN faultLock ELSE faultLock \cup locked'
      /\ sysFault' = fault' \ Warning /\ sysLock' = faultLock' \ Warning
  BY DEF BatControl, UpdateFaultState
<1>4. Orphans' \subseteq Orphans
  BY <1>2 DEF Orphans
<1>5. sysLock \subseteq sysLock'
  BY <1>3
<1>6. hw' = fpga' /\ adRan'
  BY DEF BatControl
<1>7. Reported'
  BY <1>1, <1>2, <1>3
<1>8. CASE sysFault' # {} /\ sysLock' # {}
  <2>1. ~batOn' /\ fpga' = Rest
    BY <1>8 DEF BatControl, AdOff, Rest
  <2>2. OffProgress'
    BY <2>1, <1>1 DEF OffProgress, Stopped, Rest, Frame
  <2>3. OrphanRests'
    BY <2>1, <1>1, <1>4, <1>8 DEF OrphanRests, Stopped
  <2>4. LockRests'
    BY <1>3, <1>8 DEF LockRests
  <2> QED
    BY <2>1, <2>2, <2>3, <2>4, <1>6, <1>7 DEF LockedFaultDisables, Rest
<1>9. CASE ~(sysFault' # {} /\ sysLock' # {})
  <2>1. batOn' = batOn /\ (~batOn => fpga' = fpga)
    BY <1>9 DEF BatControl, AdRun
  <2>2. OffProgress'
    BY <2>1, <1>1 DEF OffProgress, Stopped
  <2>3. ASSUME sysLock' # {}
        PROVE  Stopped /\ pc \notin OnPath
    <3>1. fault' \ Warning = {}
      BY <1>3, <1>9, <2>3
    <3>2. CASE sysLock # {}
      BY <1>3, <3>1, <3>2 DEF LockRests
    <3>3. CASE sysLock = {}
      <4>1. ~listLock
        BY <1>3, <2>3, <3>3
      <4>2. PICK f : f \in locked' \ Warning
        BY <1>3, <2>3, <3>3, <4>1
      <4>3. f \notin occurred'
        BY <1>3, <3>1, <4>1, <4>2
      <4>4. Orphans # {}
        BY <1>4, <4>2, <4>3 DEF Orphans
      <4> QED
        BY <4>4 DEF OrphanRests
    <3> QED
      BY <3>2, <3>3
  <2>4. OrphanRests'
    <3> SUFFICES ASSUME Orphans' # {}
                 PROVE  /\ Stopped' /\ pc' \notin OnPath
                        /\ sysLock' # {} \/ pc' \in {"resetFault", "fan"}
      BY DEF OrphanRests
    <3>1. /\ Stopped /\ pc \notin OnPath
          /\ sysLock # {} \/ pc \in {"resetFault", "fan"} \/ (pc = "sleep" /\ ~adRan)
      BY <1>4 DEF OrphanRests
    <3>2. CASE pc = "sleep"
      <4>1. faultLock' = faultLock \cup locked'
        BY <1>3, <3>2
      <4> QED
        BY <1>1, <1>3, <2>1, <3>1, <4>1 DEF Orphans, Stopped
    <3> QED
      BY <1>1, <1>5, <2>1, <3>1, <3>2 DEF Stopped
  <2>5. LockRests' /\ LockedFaultDisables'
    BY <1>1, <1>6, <2>1, <2>3 DEF LockRests, LockedFaultDisables, Stopped, Rest
  <2> QED
    BY <1>7, <2>2, <2>4, <2>5
<1> QED
  BY <1>8, <1>9

(* The steps of the logic thread leave what is reported alone.             *)
LEMMA LockReport ==
  ASSUME StateControl
  PROVE  UNCHANGED <<sysLock, faultLock, hw>>
BY DEF StateControl, ReadOrder, SlowCheck, EncounterLock, Refresh, LockRelays,
       RefreshRelays, RefreshTimers, StoreRestart, Decide, On, OnPrepare,
       OnWait, OnProduct, OnBat, OnDone, Off, OffProduct, OffRestart, OffBat,
       OffRelays, OffDuty1, OffDuty2, OffEnable, OffDone, ResetFaulture,
       ResetBegin, ResetList, ResetFault, FinishCycle, adVars, sysVars, listVars

LEMMA LockStateControl == TypeInv /\ LockInv /\ StateControl => LockInv'
<1> SUFFICES ASSUME StageTypeOK, LockInv, StateControl
             PROVE  LockInv'
  BY DEF TypeInv, TypeOK
<1> USE DEF LockInv, Goto
<1>1. UNCHANGED <<sysLock, faultLock, hw>>
  BY LockReport
<1>2. LockedFaultDisables'
  BY <1>1 DEF LockedFaultDisables
<1>3. CASE SlowCheck
  <2>1. PICK met \in SUBSET {Checks[step].fail} :
          /\ occurred' = occurred \cup met
          /\ pc' = IF met = {} THEN "check" ELSE "lock"
          /\ step' = IF met = {} THEN step + 1 ELSE step
    BY <1>3 DEF SlowCheck
  <2>2. /\ pc = "check"
        /\ UNCHANGED <<locked, fault, listLock, batOn, fpga, adRan>>
    BY <1>3 DEF SlowCheck, listVars, stageVars
  <2>3. Reported'
    BY <1>1, <2>1, <2>2 DEF Reported
  <2>4. OrphanRests'
    BY <1>1, <2>1, <2>2 DEF OrphanRests, Orphans, Stopped, OnPath
  <2> QED
    BY <1>1, <1>2, <2>1, <2>2, <2>3, <2>4 DEF OffProgress, LockRests, Stopped, OnPath
<1>4. CASE EncounterLock
  <2>1. /\ pc = "lock" /\ pc' = "check"
        /\ locked' \ locked \subseteq occurred
        /\ UNCHANGED <<occurred, fault, listLock, batOn, fpga, adRan>>
    BY <1>4 DEF EncounterLock, Reported, listVars, stageVars
  <2>2. Orphans' \subseteq Orphans
    BY <2>1 DEF Orphans
  <2> QED
    BY <1>1, <1>2, <2>1, <2>2 DEF Reported, OffProgress, OrphanRests, LockRests, Stopped, OnPath
<1>5. CASE ReadOrder \/ FinishCycle
  <2>1. /\ UNCHANGED <<occurred, locked, fault, listLock, batOn, fpga>>
        /\ \/ pc = "sleep" /\ adRan /\ pc' = "check"
           \/ pc = "fan" /\ pc' = "sleep" /\ ~adRan'
    BY <1>5 DEF ReadOrder, FinishCycle, failVars, listVars, stageVars
  <2> QED
    BY <1>1, <1>2, <2>1 DEF Reported, OffProgress, OrphanRests, Orphans,
                            LockRests, Stopped, OnPath
<1>6. CASE \/ Refresh \/ Decide \/ OnPrepare \/ OnWait \/ OnProduct \/ OnDone
           \/ OffProduct \/ OffRestart \/ OffRelays \/ OffDone
  <2>1. UNCHANGED <<occurred, locked, fault, listLock, batOn, fpga>>
    BY <1>6 DEF Refresh, LockRelays, RefreshRelays, RefreshTimers, StoreRestart,
                Decide, OnPrepare, OnWait, OnProduct, OnDone, OffProduct,
                OffRestart, OffRelays, OffDone, failVars, listVars, stageVars
  <2>2. /\ pc \notin {"sleep", "lock", "offDuty1", "offDuty2", "offEnable",
                      "reset", "resetList", "resetFault"}
        /\ pc' \notin {"sleep", "lock", "offRelays", "offDuty2", "offEnable",
                       "offDone", "resetList", "resetFault"}
        /\ pc' = "offDuty1" => pc = "offRelays"
        /\ pc' = "reset" => pc = "offDone"
        /\ pc = "fan" => pc' = "fan"
        /\ pc' \in OnPath => pc \in OnPath \/ sysLock = {}
    BY <1>6 DEF Refresh, LockRelays, RefreshRelays, RefreshTimers, StoreRestart,
                Decide, Permitted, OnPrepare, OnWait, OnProduct, OnDone,
                OffProduct, OffRestart, OffRelays, OffDone, OnPath
  <2> QED
    BY <1>1, <1>2, <2>1, <2>2 DEF Reported, OffProgress, OrphanRests, Orphans,
                                  LockRests, Stopped
<1>7. CASE OnBat
  <2>1. /\ pc = "onBat" /\ pc' = "onDone"
        /\ UNCHANGED <<occurred, locked, fault, listLock, fpga>>
    BY <1>7 DEF OnBat, failVars, listVars
  <2> QED
    BY <1>1, <1>2, <2>1 DEF Reported, OffProgress, OrphanRests, Orphans,
                            LockRests, OnPath
<1>8. CASE OffBat
  <2>1. /\ pc = "offBat" /\ pc' \in {"offRelays", "offDuty1"} /\ ~batOn'
        /\ UNCHANGED <<occurred, locked, fault, listLock, fpga>>
    BY <1>8 DEF OffBat, failVars, listVars
  <2> QED
    BY <1>1, <1>2, <2>1 DEF Reported, OffProgress, OrphanRests, Orphans,
                            LockRests, Stopped, OnPath
<1>9. CASE OffDuty1 \/ OffDuty2 \/ OffEnable
  <2>1. /\ pc \in {"offDuty1", "offDuty2", "offEnable"}
        /\ pc' \in {"offDuty2", "offEnable", "offDone"}
        /\ UNCHANGED <<occurred, locked, fault, listLock, batOn>>
    BY <1>9 DEF OffDuty1, OffDuty2, OffEnable, failVars, listVars
  <2>2. ~batOn
    BY <2>1 DEF OffProgress
  <2>3. fpga = Rest => fpga' = Rest
    BY <1>9, <2>2 DEF OffDuty1, OffDuty2, OffEnable, Rest, Frame
  <2>4. OffProgress'
    <3>1. fpga \in [enable : BOOLEAN, duty1 : Modes, duty2 : Modes]
      BY DEF StageTypeOK, Frames
    <3> QED
      BY <1>9, <2>1, <2>2, <3>1 DEF OffDuty1, OffDuty2, OffEnable, OffProgress,
                                    Stopped, Rest, Frame
  <2> QED
    BY <1>1, <1>2, <2>1, <2>3, <2>4 DEF Reported, OrphanRests, Orphans,
                                        LockRests, Stopped, OnPath
<1>10. CASE ResetFaulture
  <2>1. /\ pc \in {"reset", "resetList", "resetFault"}
        /\ pc' \in {"resetList", "resetFault", "fan"}
        /\ listLock' <=> pc' # "fan"
        /\ pc # "resetFault" => fault' = fault
        /\ pc # "resetList" => occurred' = occurred
        /\ pc = "resetList" => pc' = "resetFault"
        /\ UNCHANGED <<locked, batOn, fpga>>
    BY <1>10 DEF ResetFaulture, ResetBegin, ResetList, ResetFault, Reported,
                 failVars, listVars, stageVars
  <2>2. Stopped
    BY <2>1 DEF OffProgress
  <2> QED
    BY <1>1, <1>2, <1>10, <2>1, <2>2
       DEF Reported, OffProgress, OrphanRests, Orphans, LockRests, Stopped, OnPath,
           ResetFaulture, ResetBegin, ResetList, ResetFault
<1> QED
  BY <1>3, <1>4, <1>5, <1>6, <1>7, <1>8, <1>9, <1>10
     DEF StateControl, On, Off

LEMMA LockInvariance == Spec => []LockInv
<1>1. TypeInv /\ LockInv /\ [Next]_vars => LockInv'
  <2>1. CASE Next
    BY <2>1, LockAd, LockStateControl DEF Next
  <2>2. CASE UNCHANGED vars
    BY <2>2 DEF LockInv, Reported, OffProgress, OrphanRests, Orphans, LockRests,
                Stopped, LockedFaultDisables, vars, failVars, listVars, sysVars,
                cycleVars, locals
  <2> QED
    BY <2>1, <2>2
<1> QED
  BY LockInit, TypeInvariance, <1>1, PTL DEF Spec

(* From the conversion in which a locked fault becomes visible the FPGA is *)
(* disabled with both duties zero, for any failures, checks and delays and *)
(* wherever ad preempts StateControl.                                      *)
THEOREM LockedFaultDisablesStage == Spec => []LockedFaultDisables
<1>1. LockInv => LockedFaultDisables
  BY DEF LockInv
<1> QED
  BY LockInvariance, <1>1, PTL

-----------------------------------------------------------------------------
(***************************************************************************)
(* SteadyWhileOn.  FanLogic may take the steady fan away at the end of any *)
(* cycle, for it reads the order again; but a cycle that lets the stage    *)
(* run has found the fan steady, and any other switches it off.            *)
(***************************************************************************)
FanInv ==
  /\ pc \in OnPath \cup {"onDone"} => fanSteady
  /\ SteadyWhileOn

LEMMA FanInitially == Init => FanInv
BY DEF Init, StageInit, LogicInit, Fan!FanInit, FanInv, SteadyWhileOn, OnPath

LEMMA FanStep == TypeInv /\ LockInv /\ FanInv /\ Next => FanInv'
<1> SUFFICES ASSUME OffProgress, FanInv, Next
             PROVE  FanInv'
  BY DEF LockInv
<1> USE DEF FanInv, SteadyWhileOn
<1>1. CASE FinishCycle
  BY <1>1 DEF FinishCycle, Goto, OnPath
<1>2. CASE Ad
  <2>1. UNCHANGED <<fanVars, pc>> /\ (batOn' = batOn \/ ~batOn')
    BY <1>2 DEF Ad, BatControl, AdOff, AdRun
  <2> QED
    BY <2>1 DEF fanVars
<1>3. CASE OnBat
  BY <1>3 DEF OnBat, Goto, fanVars, OnPath
<1>4. CASE StateControl /\ ~FinishCycle /\ ~OnBat
  <2>1. UNCHANGED fanVars /\ (batOn' = batOn \/ ~batOn')
    BY <1>4 DEF StateControl, ReadOrder, SlowCheck, EncounterLock, Refresh,
                LockRelays, RefreshRelays, RefreshTimers, StoreRestart, Decide,
                On, OnPrepare, OnWait, OnProduct, OnDone, Off, OffProduct,
                OffRestart, OffBat, OffRelays, OffDuty1, OffDuty2, OffEnable,
                OffDone, ResetFaulture, ResetBegin, ResetList, ResetFault, stageVars
  <2>2. /\ pc' \in OnPath \cup {"onDone"} => pc \in OnPath \/ fanSteady
        /\ pc' = "fan" => pc \in {"onDone", "offDone", "resetFault"}
    BY <1>4 DEF StateControl, ReadOrder, SlowCheck, EncounterLock, Refresh,
                LockRelays, RefreshRelays, RefreshTimers, StoreRestart, Decide,
                Permitted, On, OnPrepare, OnWait, OnProduct, OnDone, Off,
                OffProduct, OffRestart, OffBat, OffRelays, OffDuty1, OffDuty2,
                OffEnable, OffDone, ResetFaulture, ResetBegin, ResetList,
                ResetFault, Goto, OnPath
  <2> QED
    BY <2>1, <2>2 DEF fanVars, OffProgress, Stopped
<1> QED
  BY <1>1, <1>2, <1>3, <1>4 DEF Next

(* A stage never outlives the steady fan by more than the cycle in which   *)
(* FanLogic took it away, for any fan timing and any sequence of orders.   *)
THEOREM SteadyIsWatched == Spec => []SteadyWhileOn
<1>1. TypeInv /\ LockInv /\ FanInv /\ [Next]_vars => FanInv'
  <2>1. CASE Next
    BY <2>1, FanStep
  <2>2. CASE UNCHANGED vars
    BY <2>2 DEF FanInv, SteadyWhileOn, vars, fanVars
  <2> QED
    BY <2>1, <2>2
<1>2. FanInv => SteadyWhileOn
  BY DEF FanInv
<1> QED
  BY FanInitially, TypeInvariance, LockInvariance, <1>1, <1>2, PTL DEF Spec

(***************************************************************************)
(* Failure list, stops, pauses and hold timers, and the refinement.        *)
(***************************************************************************)

Stopping == {"offRelays", "offDuty1", "offDuty2", "offEnable"}

(***************************************************************************)
(* The failure list.                                                       *)
(***************************************************************************)
(* What has not occurred since the last reset may occur once more; what    *)
(* ResetList has just cleared may do so when the reset is counted.         *)
CountInv ==
  /\ \A f \in locked : times[f] >= LimitedTimes
  /\ \A f \in Failures : times[f] <= resets + 1
  /\ pc # "resetFault" => \A f \in Failures \ occurred : times[f] <= resets

FaultInv == CountInv /\ ReportsAreReal

LEMMA TimesGrow ==
  ASSUME TypeOK, CountInv, pc # "resetFault", NEW S \in SUBSET Failures
  PROVE  /\ TimesAfter(S) \in [Failures -> Nat]
         /\ \A f \in Failures : /\ TimesAfter(S)[f] >= times[f]
                                /\ TimesAfter(S)[f] <= resets + 1
                                /\ f \notin occurred \cup S => TimesAfter(S)[f] <= resets
<1>1. times \in [Failures -> Nat] /\ resets \in Nat
  BY DEF TypeOK, FailureTypeOK, LogicTypeOK
<1> QED
  BY <1>1 DEF TimesAfter, CountInv

LEMMA LimitType == LimitedTimes \in Nat \ {0}
BY ConstantsAssumption

LEMMA FaultInitially == Init => FaultInv
BY ConstantsAssumption DEF Init, FailureInit, LogicInit, FaultInv, CountInv, ReportsAreReal

LEMMA FaultAd == TypeInv /\ LockInv /\ FaultInv /\ Ad => FaultInv'
<1> SUFFICES ASSUME TypeOK, LockInv, FaultInv, NEW over \in SUBSET Fast, BatControl(over)
             PROVE  FaultInv'
  BY DEF Ad, TypeInv
<1> USE DEF FaultInv
<1>1. UNCHANGED <<pc, resets, listLock>>
  BY DEF BatControl
<1>2. times \in [Failures -> Nat] /\ resets \in Nat
  BY DEF TypeOK, FailureTypeOK, LogicTypeOK
<1>3. CASE batOn
  <2>1. pc # "resetFault"
    BY <1>3 DEF LockInv, OffProgress, Stopped
  <2>2. PICK met \in SUBSET Failures :
          /\ times' = TimesAfter(met) /\ occurred' = occurred \cup met
          /\ locked' = locked \cup LockedAfter(met)
    BY <1>3 DEF BatControl, FastCheck, Failures
  <2>3. \A f \in Failures : /\ times'[f] >= times[f]
                            /\ times'[f] <= resets + 1
                            /\ f \notin occurred' => times'[f] <= resets
    BY <2>1, <2>2, TimesGrow
  <2>4. \A f \in locked' : times'[f] >= LimitedTimes
    <3> SUFFICES ASSUME NEW f \in locked'
                 PROVE  times'[f] >= LimitedTimes
      OBVIOUS
    <3>1. CASE f \in LockedAfter(met)
      BY <2>2, <3>1 DEF LockedAfter
    <3>2. CASE f \in locked
      <4>1. f \in Failures /\ times[f] >= LimitedTimes /\ times'[f] \in Nat
        BY <1>2, <2>2, <3>2, TimesTyping DEF TypeOK, FailureTypeOK, CountInv
      <4>2. times'[f] >= times[f] /\ times[f] \in Nat
        BY <1>2, <2>3, <4>1
      <4> QED
        BY <4>1, <4>2, LimitType
    <3> QED
      BY <2>2, <3>1, <3>2
  <2>5. CountInv'
    BY <1>1, <2>3, <2>4 DEF CountInv
  <2>6. ReportsAreReal'
    BY <1>1, <2>2 DEF BatControl, UpdateFaultState, ReportsAreReal
  <2> QED
    BY <2>5, <2>6
<1>4. CASE ~batOn
  <2>1. UNCHANGED failVars
    BY <1>4 DEF BatControl, FastCheck
  <2> QED
    BY <1>1, <2>1 DEF failVars, CountInv, ReportsAreReal, BatControl, UpdateFaultState
<1> QED
  BY <1>3, <1>4

LEMMA FaultStateControl == TypeInv /\ LockInv /\ FaultInv /\ StateControl => FaultInv'
<1> SUFFICES ASSUME TypeInv, LockInv, FaultInv, StateControl
             PROVE  FaultInv'
  OBVIOUS
<1> USE DEF FaultInv
<1>1. times \in [Failures -> Nat] /\ resets \in Nat /\ locked \subseteq Failures
  BY DEF TypeInv, TypeOK, FailureTypeOK, LogicTypeOK
<1>2. CASE SlowCheck
  <2>1. /\ pc = "check" /\ pc' # "resetFault"
        /\ UNCHANGED <<locked, fault, faultLock, listLock, resets>>
    BY <1>2 DEF SlowCheck, listVars
  <2>2. PICK met \in SUBSET {Checks[step].fail} :
          times' = TimesAfter(met) /\ occurred' = occurred \cup met
    BY <1>2 DEF SlowCheck
  <2>3. met \subseteq Failures
    BY <1>2, CheckedStep DEF Failures
  <2>4. /\ times' \in [Failures -> Nat]
        /\ \A f \in Failures : /\ times'[f] >= times[f]
                               /\ times'[f] <= resets + 1
                               /\ f \notin occurred' => times'[f] <= resets
    BY <2>1, <2>2, <2>3, TimesGrow DEF TypeInv
  <2>5. \A f \in locked' : times'[f] >= LimitedTimes
    <3> SUFFICES ASSUME NEW f \in locked
                 PROVE  times'[f] >= LimitedTimes
      BY <2>1
    <3>1. times[f] >= LimitedTimes /\ times[f] \in Nat /\ times'[f] \in Nat
      BY <1>1, <2>4 DEF CountInv
    <3>2. times'[f] >= times[f]
      BY <1>1, <2>4
    <3> QED
      BY <3>1, <3>2, LimitType
  <2> QED
    BY <2>1, <2>2, <2>4, <2>5 DEF CountInv, ReportsAreReal
<1>3. CASE EncounterLock
  <2>1. /\ pc = "lock" /\ pc' = "check"
        /\ UNCHANGED <<occurred, times, fault, faultLock, listLock, resets>>
    BY <1>3 DEF EncounterLock, Goto, listVars
  <2>2. locked \subseteq locked' /\ \A f \in locked' : times[f] >= LimitedTimes
    BY <1>3 DEF EncounterLock, CountInv
  <2> QED
    BY <2>1, <2>2 DEF CountInv, ReportsAreReal
<1>4. CASE ResetFaulture
  <2>1. UNCHANGED <<times, locked, faultLock>>
    BY <1>4 DEF ResetFaulture, ResetBegin, ResetList, ResetFault, failVars, listVars
  <2>2. CASE ResetBegin
    BY <2>1, <2>2 DEF ResetBegin, Goto, failVars, cycleVars, CountInv, ReportsAreReal
  <2>3. CASE ResetList
    <3>1. listLock
      BY <2>3 DEF LockInv, Reported, ResetList, Goto
    <3> QED
      BY <2>1, <2>3, <3>1 DEF ResetList, Goto, listVars, cycleVars, CountInv, ReportsAreReal
  <2>4. CASE ResetFault
    BY <1>1, <2>1, <2>4 DEF ResetFault, Goto, failVars, CountInv, ReportsAreReal
  <2> QED
    BY <1>4, <2>2, <2>3, <2>4 DEF ResetFaulture
<1>5. CASE ReadOrder \/ Refresh \/ Decide \/ On \/ Off \/ FinishCycle
  <2>1. UNCHANGED <<failVars, listVars, resets>> /\ pc # "resetFault" /\ pc' # "resetFault"
    BY <1>5 DEF ReadOrder, Refresh, LockRelays, RefreshRelays, RefreshTimers,
                StoreRestart, Decide, On, OnPrepare, OnWait, OnProduct, OnBat,
                OnDone, Off, OffProduct, OffRestart, OffBat, OffRelays, OffDuty1,
                OffDuty2, OffEnable, OffDone, FinishCycle, Goto, cycleVars
  <2> QED
    BY <2>1 DEF failVars, listVars, CountInv, ReportsAreReal
<1> QED
  BY <1>2, <1>3, <1>4, <1>5 DEF StateControl

LEMMA FaultInvariance == Spec => []FaultInv
<1>1. TypeInv /\ LockInv /\ FaultInv /\ [Next]_vars => FaultInv'
  <2>1. CASE Next
    BY <2>1, FaultAd, FaultStateControl DEF Next
  <2>2. CASE UNCHANGED vars
    BY <2>2 DEF FaultInv, CountInv, ReportsAreReal, vars, failVars, listVars, cycleVars
  <2> QED
    BY <2>1, <2>2
<1> QED
  BY FaultInitially, TypeInvariance, LockInvariance, <1>1, PTL DEF Spec

(* Whatever is reported as fault was met and not reset since, and whatever *)
(* is reported as locked stays locked, wherever ad preempts ResetFaulture. *)
THEOREM OnlyRealReports == Spec => []ReportsAreReal
<1>1. FaultInv => ReportsAreReal
  BY DEF FaultInv
<1> QED
  BY FaultInvariance, <1>1, PTL

(* For any number of failures and checks, a failure locks only after       *)
(* LimitedTimes occurrences with a ResetFaulture between any two of them.  *)
THEOREM LocksNeedRepetition == Spec => []LockNeedsRepeatedFault
<1>1. TypeInv /\ FaultInv => LockNeedsRepeatedFault
  <2> SUFFICES ASSUME TypeInv, CountInv, NEW f \in Failures
               PROVE  /\ times[f] <= resets + 1
                      /\ f \in locked => resets + 1 >= LimitedTimes
    BY DEF FaultInv, LockNeedsRepeatedFault
  <2>1. times[f] \in Nat /\ resets \in Nat
    BY DEF TypeInv, TypeOK, FailureTypeOK, LogicTypeOK
  <2> QED
    BY <2>1, ConstantsAssumption DEF CountInv
<1> QED
  BY FaultInvariance, TypeInvariance, <1>1, PTL

(***************************************************************************)
(* Stops.                                                                  *)
(***************************************************************************)
(* Where the registers may still hold the frame of a stage that is being   *)
(* stopped: until ad has run after the cycle that stopped it.              *)
Settling == Stopping \cup {"offDone", "reset", "resetList", "resetFault", "fan"}

StopInv ==
  /\ ~batOn /\ pc \notin Stopping => fpga = Rest
  /\ ~batOn /\ pc \notin Settling /\ (pc = "sleep" => adRan) => hw = Rest

LEMMA StopInitially == Init => StopInv
BY DEF Init, StageInit, LogicInit, StopInv, Rest

(* What ad does to the frames.                                             *)
LEMMA AdKeeps ==
  ASSUME Ad
  PROVE  /\ UNCHANGED <<pc, ctrlOrd, step, pend, keep, startMode, batMode, relayLock>>
         /\ hw' = fpga' /\ adRan' = TRUE
BY DEF Ad, BatControl, locals

LEMMA AdFrames ==
  ASSUME Ad
  PROVE  \/ /\ ~tlOn' /\ ~batOn' /\ fpga' = Rest
            /\ sysFault' # {} /\ sysLock' # {}
         \/ /\ UNCHANGED <<tlOn, batOn, restart, hold>>
            /\ batOn => fpga' = Frame(TRUE, batMode, batMode)
            /\ ~batOn => fpga' = fpga
BY DEF Ad, BatControl, AdOff, AdRun, Rest

LEMMA AdStops ==
  ASSUME Ad
  PROVE  /\ batOn' => batOn
         /\ ~batOn' => fpga' = Rest \/ (~batOn /\ fpga' = fpga)
<1>1. CASE ~batOn' /\ fpga' = Rest
  BY <1>1
<1>2. CASE /\ batOn' = batOn
           /\ ~batOn => fpga' = fpga
  BY <1>2, Zenon
<1>3. \/ ~batOn' /\ fpga' = Rest
      \/ /\ batOn' = batOn
         /\ ~batOn => fpga' = fpga
  BY AdFrames, Zenon
<1> QED
  BY <1>1, <1>2, <1>3, Zenon

LEMMA StopStep == TypeInv /\ LockInv /\ StopInv /\ Next => StopInv'
<1> SUFFICES ASSUME StageTypeOK, OffProgress, StopInv, Next
             PROVE  StopInv'
  BY DEF LockInv, TypeInv, TypeOK
<1> USE DEF StopInv, Stopping, Settling
<1>1. CASE Ad
  BY <1>1, AdKeeps, AdStops
<1>2. CASE OnBat
  BY <1>2 DEF OnBat, Goto
<1>3. CASE OffBat
  BY <1>3 DEF OffBat
<1>4. CASE OffDuty1 \/ OffDuty2
  BY <1>4 DEF OffDuty1, OffDuty2, Goto, adVars
<1>5. CASE OffEnable
  <2>1. pc = "offEnable" /\ pc' = "offDone" /\ ~batOn
    BY <1>5 DEF OffEnable, Goto, OffProgress
  <2>2. fpga' = Rest
    <3>1. /\ fpga \in Frames /\ fpga.duty1 = 0 /\ fpga.duty2 = 0
          /\ fpga' = [fpga EXCEPT !.enable = FALSE]
      BY <1>5, <2>1 DEF OffEnable, OffProgress, StageTypeOK
    <3> QED
      BY <3>1 DEF Frames, Rest, Frame
  <2> QED
    BY <2>1, <2>2
<1>6. CASE FinishCycle
  BY <1>6 DEF FinishCycle, Goto, adVars
<1>7. CASE \/ ReadOrder \/ SlowCheck \/ EncounterLock \/ Refresh \/ Decide
           \/ OnPrepare \/ OnWait \/ OnProduct \/ OnDone
           \/ OffProduct \/ OffRestart \/ OffRelays \/ OffDone \/ ResetFaulture
  <2>1. UNCHANGED <<batOn, fpga, hw, adRan>>
    BY <1>7 DEF ReadOrder, SlowCheck, EncounterLock, Refresh, LockRelays,
                RefreshRelays, RefreshTimers, StoreRestart, Decide, OnPrepare,
                OnWait, OnProduct, OnDone, OffProduct, OffRestart, OffRelays, OffDone,
                ResetFaulture, ResetBegin, ResetList, ResetFault, adVars, stageVars, cycleVars
  <2>2. /\ pc \in Stopping => pc' \in Stopping
        /\ pc' \notin Settling \cup {"sleep"} => pc \notin Settling /\ (pc = "sleep" => adRan)
        /\ pc' # "sleep"
    BY <1>7 DEF ReadOrder, SlowCheck, EncounterLock, Refresh, LockRelays,
                RefreshRelays, RefreshTimers, StoreRestart, Decide, OnPrepare,
                OnWait, OnProduct, OnDone, OffProduct, OffRestart, OffRelays, OffDone,
                ResetFaulture, ResetBegin, ResetList, ResetFault, Goto
  <2> QED
    BY <2>1, <2>2
<1> QED
  BY <1>1, <1>2, <1>3, <1>4, <1>5, <1>6, <1>7 DEF Next, StateControl, On, Off

LEMMA StopInvariance == Spec => []StopInv
<1>1. TypeInv /\ LockInv /\ StopInv /\ [Next]_vars => StopInv'
  <2>1. CASE Next
    BY <2>1, StopStep
  <2>2. CASE UNCHANGED vars
    BY <2>2 DEF StopInv, vars, cycleVars
  <2> QED
    BY <2>1, <2>2
<1> QED
  BY StopInitially, TypeInvariance, LockInvariance, <1>1, PTL DEF Spec

(* A stage that stopped is disabled in the registers by the first          *)
(* conversion after the cycle that stopped it, wherever Off was preempted. *)
THEOREM StopsReachFpga == Spec => []StopReachesFpga
<1>1. StopInv => StopReachesFpga
  BY DEF StopInv, StopReachesFpga, Settling, Stopping, Rest
<1> QED
  BY StopInvariance, <1>1, PTL

(* faultKeepTime runs from one stop to the next start, and runs out only   *)
(* in a later cycle, when ad has sent the disabled frame.                  *)
KeepInv ==
  /\ keep.result => keep.cond
  /\ pc \in {"reset", "resetList", "resetFault"} => keep.cond
  /\ keep.cond /\ batOn => pc = "onDone"
  /\ keep.cond /\ pc # "onDone" => fpga = Rest
  /\ keep.cond /\ pc \notin {"onDone", "fan"} /\ (pc = "sleep" => adRan) => hw = Rest

LEMMA KeepInitially == Init => KeepInv
BY DEF Init, StageInit, TimerInit, LogicInit, KeepInv, RelayReset, Rest

LEMMA RelayFields ==
  ASSUME NEW limit \in Nat, NEW r \in RelayType(limit)
  PROVE  /\ ~RelayReset.cond /\ ~RelayReset.result
         /\ RelayStart(r).cond /\ RelayStart(r).result = r.result
         /\ RelayStart(r).time = r.time
         /\ RelayRefresh(r, limit).cond = r.cond
         /\ RelayRefresh(r, limit).result => r.cond \/ r.result
BY DEF RelayType, RelayReset, RelayStart, RelayRefresh

LEMMA KeepStep == TypeInv /\ LockInv /\ StopInv /\ KeepInv /\ Next => KeepInv'
<1> SUFFICES ASSUME keep \in RelayType(KeepTime), OffProgress, StopInv, KeepInv, Next
             PROVE  KeepInv'
  BY DEF LockInv, TypeInv, TypeOK, TimerTypeOK
<1> USE DEF KeepInv
<1>k. /\ ~RelayReset.cond /\ ~RelayReset.result
      /\ RelayStart(keep).cond /\ RelayStart(keep).result = keep.result
      /\ RelayRefresh(keep, KeepTime).cond = keep.cond
      /\ RelayRefresh(keep, KeepTime).result => keep.cond
  BY RelayFields, ConstantsAssumption
<1>1. CASE Ad
  BY <1>1, AdKeeps, AdStops
<1>2. CASE OnBat
  BY <1>2 DEF OnBat, Goto, timerVars
<1>3. CASE OffBat \/ OffProduct \/ OffRestart \/ OffRelays
  BY <1>3 DEF OffBat, OffProduct, OffRestart, OffRelays, Goto, timerVars, adVars, stageVars
<1>4. CASE OffDuty1 \/ OffDuty2 \/ OffEnable
  <2>1. ~batOn /\ pc \in Stopping /\ pc' \in Stopping \cup {"offDone"}
    BY <1>4 DEF OffDuty1, OffDuty2, OffEnable, Goto, OffProgress, Stopping
  <2>2. UNCHANGED <<keep, batOn, hw>>
    BY <1>4 DEF OffDuty1, OffDuty2, OffEnable, timerVars, adVars
  <2>3. fpga = Rest => fpga' = Rest
    BY <1>4, <2>1 DEF OffDuty1, OffDuty2, OffEnable, Rest, Frame
  <2> QED
    BY <2>1, <2>2, <2>3 DEF Stopping
<1>5. CASE OffDone
  <2>1. ~batOn /\ fpga = Rest /\ UNCHANGED <<batOn, fpga, hw>>
    BY <1>5 DEF OffDone, OffProgress, Stopped, stageVars, adVars
  <2> QED
    BY <1>5, <1>k, <2>1 DEF OffDone
<1>6. CASE FinishCycle
  BY <1>6 DEF FinishCycle, Goto, timerVars, adVars
<1>7. CASE OnDone \/ ResetFaulture
  BY <1>7, <1>k DEF OnDone, ResetFaulture, ResetBegin, ResetList, ResetFault, Goto,
              timerVars, adVars, stageVars
<1>8. CASE RefreshTimers
  BY <1>8, <1>k DEF RefreshTimers, Goto, adVars, stageVars
<1>9. CASE \/ ReadOrder \/ SlowCheck \/ EncounterLock \/ LockRelays \/ RefreshRelays
           \/ StoreRestart \/ Decide \/ OnPrepare \/ OnWait \/ OnProduct
  <2>1. UNCHANGED <<keep, batOn, fpga, hw, adRan>>
    BY <1>9 DEF ReadOrder, SlowCheck, EncounterLock, LockRelays, RefreshRelays,
                StoreRestart, Decide, OnPrepare, OnWait, OnProduct,
                timerVars, adVars, stageVars, cycleVars
  <2>2. /\ pc \notin {"fan", "onDone"} /\ (pc = "sleep" => adRan)
        /\ pc' \notin {"fan", "sleep", "reset", "resetList", "resetFault"}
    BY <1>9 DEF ReadOrder, SlowCheck, EncounterLock, LockRelays, RefreshRelays,
                StoreRestart, Decide, OnPrepare, OnWait, OnProduct, Goto
  <2> QED
    BY <2>1, <2>2
<1> QED
  BY <1>1, <1>2, <1>3, <1>4, <1>5, <1>6, <1>7, <1>8, <1>9
     DEF Next, StateControl, Refresh, On, Off

LEMMA KeepInvariance == Spec => []KeepInv
<1>1. TypeInv /\ LockInv /\ StopInv /\ KeepInv /\ [Next]_vars => KeepInv'
  <2>1. CASE Next
    BY <2>1, KeepStep
  <2>2. CASE UNCHANGED vars
    BY <2>2 DEF KeepInv, vars, timerVars, cycleVars
  <2> QED
    BY <2>1, <2>2
<1> QED
  BY KeepInitially, TypeInvariance, LockInvariance, StopInvariance, <1>1, PTL DEF Spec

(* A fault is cleared only with the stage off in the registers, for any    *)
(* faultKeepTime, zero included: it never runs out in the cycle that       *)
(* stopped the stage.                                                      *)
THEOREM FaultsClearAtRest == Spec => FaultClearsOnlyWhenOff
<1>1. LockInv /\ KeepInv /\ [Next]_vars => [fault \ fault' # {} => ~batOn /\ ~hw.enable]_vars
  <2> SUFFICES ASSUME OffProgress, KeepInv, Next, fault \ fault' # {}
               PROVE  ~batOn /\ ~hw.enable
    BY DEF LockInv
  <2>1. CASE ResetFault
    <3>1. pc = "resetFault"
      BY <2>1 DEF ResetFault, Goto
    <3> QED
      BY <3>1 DEF OffProgress, Stopped, KeepInv, Rest, Frame
  <2>2. CASE ~ResetFault
    <3>1. CASE Ad
      BY <3>1 DEF Ad, BatControl, UpdateFaultState
    <3>2. CASE ReadOrder \/ SlowCheck \/ EncounterLock \/ Refresh \/ Decide
      BY <3>2 DEF ReadOrder, SlowCheck, EncounterLock, Refresh, LockRelays,
                  RefreshRelays, RefreshTimers, StoreRestart, Decide, listVars
    <3>3. CASE On \/ Off \/ FinishCycle
      BY <3>3 DEF On, OnPrepare, OnWait, OnProduct, OnBat, OnDone, Off,
                  OffProduct, OffRestart, OffBat, OffRelays, OffDuty1, OffDuty2,
                  OffEnable, OffDone, FinishCycle, listVars
    <3>4. CASE ResetBegin \/ ResetList
      BY <3>4 DEF ResetBegin, ResetList, listVars
    <3> QED
      BY <2>2, <3>1, <3>2, <3>3, <3>4 DEF Next, StateControl, ResetFaulture
  <2> QED
    BY <2>1, <2>2
<1> QED
  BY LockInvariance, KeepInvariance, <1>1, PTL DEF Spec, FaultClearsOnlyWhenOff

(***************************************************************************)
(* The restart delay.                                                      *)
(***************************************************************************)
(* Both isStartEnable are set and cleared one after the other.             *)
Enables ==
  /\ pc \notin {"onBat", "offRestart", "offBat"} => tlOn = batOn
  /\ pc = "onBat" => tlOn
  /\ pc = "offRestart" => batOn /\ ~tlOn
  /\ pc = "offBat" => ~tlOn /\ (batOn => restart = RelayReset)

(* restartTime runs only while the stage is disabled in the registers and  *)
(* never has run for longer than they have been disabled: its first        *)
(* refresh is one cycle after its start.                                   *)
Elapsed ==
  /\ ~hw.enable
  /\ restart.time <= pause
  /\ pc \in {"sleep", "check", "lock", "refresh", "timers"} => restart.time < pause
  /\ restart.result \/ pend > RestartTime => pause >= RestartTime
  /\ pend <= RestartTime => pend <= pause

Pausing ==
  /\ ~restart.cond => restart = RelayReset /\ pend = 0
  /\ pend # 0 => pc = "store"
  /\ pc \in {"onProduct", "onBat"} => restart.result
  /\ restart.cond /\ ~batOn => Elapsed
  /\ batOn /\ ~hw.enable => pause >= RestartTime

(* The mode whose duties are driven.                                       *)
Modal ==
  /\ pc = "on" => startMode \in {1, 2}
  /\ pc \in {"onWait", "onProduct", "onBat"} \/ batOn => batMode \in {1, 2}
  /\ batOn => fpga = hw /\ (hw.enable => hw = Frame(TRUE, batMode, batMode))
  /\ fpga.enable => hw.enable
  /\ ~fpga.enable => fpga = Rest
  /\ {fpga.duty1, fpga.duty2} \subseteq {0, Law}

PauseInv == sysLock = {} => Enables /\ Modal /\ Pausing

LEMMA EnablesStep ==
  ASSUME StageTypeOK, Enables, StateControl
  PROVE  Enables'
<1> USE DEF Enables, Goto
<1>1. CASE OnProduct
  BY <1>1 DEF OnProduct, timerVars
<1>2. CASE OnBat
  BY <1>2 DEF OnBat, StageTypeOK
<1>3. CASE OffProduct
  BY <1>3 DEF OffProduct, timerVars, StageTypeOK
<1>4. CASE OffRestart
  BY <1>4 DEF OffRestart, stageVars
<1>5. CASE OffBat
  BY <1>5 DEF OffBat, StageTypeOK
<1>6. CASE \/ ReadOrder \/ SlowCheck \/ EncounterLock \/ Refresh \/ Decide
           \/ OnPrepare \/ OnWait \/ OnDone \/ OffRelays \/ OffDuty1 \/ OffDuty2
           \/ OffEnable \/ OffDone \/ ResetFaulture \/ FinishCycle
  <2>1. /\ UNCHANGED <<tlOn, batOn>>
        /\ pc \notin {"onBat", "offRestart", "offBat"}
        /\ pc' \notin {"onBat", "offRestart", "offBat"}
    BY <1>6 DEF ReadOrder, SlowCheck, EncounterLock, Refresh, LockRelays,
                RefreshRelays, RefreshTimers, StoreRestart, Decide, OnPrepare,
                OnWait, OnDone, OffRelays, OffDuty1, OffDuty2, OffEnable, OffDone,
                ResetFaulture, ResetBegin, ResetList, ResetFault, FinishCycle,
                stageVars
  <2> QED
    BY <2>1
<1> QED
  BY <1>1, <1>2, <1>3, <1>4, <1>5, <1>6 DEF StateControl, On, Off

LEMMA ModalStep ==
  ASSUME StageTypeOK, LogicTypeOK, OffProgress, StopInv, Enables, Modal, StateControl
  PROVE  Modal'
<1> USE DEF Modal, Goto
<1>1. UNCHANGED <<hw, Law>>
  BY LockReport DEF Law
<1>2. CASE OnPrepare
  <2>1. /\ pc = "on" /\ pc' = "onWait" /\ startMode \in {1, 2} /\ tlOn = batOn
        /\ batMode' = IF tlOn THEN batMode ELSE startMode
        /\ UNCHANGED <<startMode, batOn, fpga>>
    BY <1>2 DEF OnPrepare, Enables
  <2> QED
    BY <1>1, <2>1 DEF StageTypeOK
<1>3. CASE OnBat
  <2>1. /\ pc = "onBat" /\ pc' = "onDone" /\ batOn'
        /\ UNCHANGED <<startMode, batMode, fpga>>
    BY <1>3 DEF OnBat
  <2>2. ~batOn => fpga = Rest /\ hw = Rest
    BY <2>1 DEF StopInv, Stopping, Settling
  <2>3. fpga = hw /\ (hw.enable => hw = Frame(TRUE, batMode, batMode)) /\ batMode \in {1, 2}
    <3>1. CASE ~batOn
      <4>1. fpga = hw /\ ~hw.enable
        <5>1. ~Rest.enable
          BY DEF Rest, Frame
        <5> QED
          BY <2>2, <3>1, <5>1, Zenon
      <4> QED
        BY <2>1, <4>1
    <3>2. CASE batOn
      BY <3>2
    <3> QED
      BY <3>1, <3>2
  <2> QED
    BY <1>1, <2>1, <2>3
<1>4. CASE OffBat
  BY <1>1, <1>4 DEF OffBat
<1>5. CASE OffDuty1 \/ OffDuty2 \/ OffEnable
  <2>1. /\ pc \in {"offDuty1", "offDuty2", "offEnable"}
        /\ pc' \in {"offDuty2", "offEnable", "offDone"}
        /\ UNCHANGED <<startMode, batOn, batMode>>
    BY <1>5 DEF OffDuty1, OffDuty2, OffEnable
  <2>2. ~batOn
    BY <2>1 DEF OffProgress
  <2>3. fpga = [enable |-> fpga.enable, duty1 |-> fpga.duty1, duty2 |-> fpga.duty2]
    BY DEF StageTypeOK, Frames
  <2>4. /\ fpga'.enable => fpga.enable
        /\ {fpga'.duty1, fpga'.duty2} \subseteq {0, fpga.duty1, fpga.duty2}
    BY <1>5, <2>2, <2>3 DEF OffDuty1, OffDuty2, OffEnable
  <2>5. ~fpga'.enable => fpga' = Rest
    <3>1. CASE OffEnable
      BY <2>2, <2>3, <3>1 DEF OffEnable, OffProgress, StageTypeOK, Rest, Frame
    <3>2. CASE OffDuty1 \/ OffDuty2
      BY <2>3, <3>2 DEF OffDuty1, OffDuty2, Rest, Frame
    <3> QED
      BY <1>5, <3>1, <3>2
  <2> QED
    BY <1>1, <2>1, <2>2, <2>4, <2>5
<1>6. CASE Decide
  <2>1. pc' = "on" => startMode \in {1, 2}
    BY <1>6 DEF Decide, Permitted, StageTypeOK, Modes
  <2> QED
    BY <1>1, <1>6, <2>1 DEF Decide, stageVars
<1>7. CASE FinishCycle
  BY <1>1, <1>7 DEF FinishCycle
<1>8. CASE OnWait \/ OnProduct
  <2>1. /\ UNCHANGED <<startMode, batOn, batMode, fpga>>
        /\ pc \in {"onWait", "onProduct"} /\ pc' \in {"onProduct", "onBat", "onDone"}
    BY <1>8 DEF OnWait, OnProduct, stageVars
  <2> QED
    BY <1>1, <2>1
<1>9. CASE \/ ReadOrder \/ SlowCheck \/ EncounterLock \/ Refresh
           \/ OnDone \/ OffProduct \/ OffRestart \/ OffRelays \/ OffDone \/ ResetFaulture
  <2>1. /\ UNCHANGED <<startMode, batOn, batMode, fpga>>
        /\ pc' \notin {"on", "onWait", "onProduct", "onBat"}
    BY <1>9 DEF ReadOrder, SlowCheck, EncounterLock, Refresh, LockRelays,
                RefreshRelays, RefreshTimers, StoreRestart, OnDone, OffProduct,
                OffRestart, OffRelays, OffDone, ResetFaulture, ResetBegin,
                ResetList, ResetFault, stageVars
  <2> QED
    BY <1>1, <2>1
<1> QED
  BY <1>2, <1>3, <1>4, <1>5, <1>6, <1>7, <1>8, <1>9 DEF StateControl, On, Off

LEMMA PausingStep ==
  ASSUME TimerTypeOK, LogicTypeOK, StopInv, Enables, Pausing, StateControl
  PROVE  Pausing'
<1> USE DEF Pausing, Goto
<1>1. UNCHANGED hw
  BY LockReport
<1>2. /\ restart \in RelayType(RestartTime) /\ RestartTime \in Nat
      /\ pend \in Nat /\ pause \in 0 .. RestartTime + 1
  BY ConstantsAssumption DEF TimerTypeOK, LogicTypeOK
<1>3. CASE RefreshTimers
  <2>1. /\ pc = "timers" /\ pc' = "store" /\ UNCHANGED <<restart, batOn, pause>>
        /\ pend' = IF ~restart.cond THEN 0
                   ELSE IF restart.time >= RestartTime THEN RestartTime + 1
                   ELSE restart.time + 1
    BY <1>3 DEF RefreshTimers, stageVars
  <2>2. restart.time \in 0 .. RestartTime
    BY <1>2 DEF RelayType
  <2>3. restart.cond /\ ~batOn => Elapsed'
    BY <1>1, <1>2, <2>1, <2>2 DEF Elapsed
  <2> QED
    BY <1>1, <2>1, <2>3
<1>4. CASE StoreRestart
  <2>1. /\ pc = "store" /\ pc' = "decide" /\ UNCHANGED <<batOn, pause>>
        /\ restart' = IF pend = 0 THEN restart
                      ELSE IF pend > RestartTime THEN [restart EXCEPT !.result = TRUE]
                      ELSE [restart EXCEPT !.time = pend]
        /\ pend' = 0
    BY <1>4 DEF StoreRestart, stageVars
  <2>2. /\ restart'.cond = restart.cond
        /\ restart'.time = restart.time \/ (restart'.time = pend /\ pend <= RestartTime)
        /\ restart'.result => restart.result \/ pend > RestartTime
    BY <1>2, <2>1 DEF RelayType
  <2>3. restart.cond /\ ~batOn => Elapsed'
    BY <1>1, <1>2, <2>1, <2>2 DEF Elapsed
  <2>4. ~restart.cond => restart' = restart
    BY <2>1
  <2> QED
    BY <1>1, <2>1, <2>2, <2>3, <2>4
<1>5. CASE OnPrepare
  <2>1. /\ pc = "on" /\ pc' = "onWait" /\ UNCHANGED <<batOn, pend, pause>>
        /\ restart' = IF tlOn THEN restart ELSE RelayStart(restart)
    BY <1>5 DEF OnPrepare, cycleVars, locals
  <2>2. CASE restart' = restart
    BY <1>1, <2>1, <2>2 DEF Elapsed
  <2>3. CASE restart' = RelayStart(restart)
    <3>1. /\ restart'.cond /\ restart'.time = restart.time
          /\ restart'.result = restart.result /\ pend = 0
      BY <1>2, <2>1, <2>3 DEF RelayType, RelayStart
    <3>2. ~batOn => ~hw.enable
      BY <2>1 DEF StopInv, Settling, Stopping, Rest, Frame
    <3>3. ~batOn => Elapsed'
      <4>1. CASE restart.cond
        BY <1>1, <2>1, <3>1, <4>1 DEF Elapsed
      <4>2. CASE ~restart.cond
        BY <1>1, <1>2, <2>1, <3>1, <3>2, <4>2 DEF Elapsed, RelayReset
      <4> QED
        BY <4>1, <4>2
    <3> QED
      BY <1>1, <2>1, <3>1, <3>3
  <2> QED
    BY <2>1, <2>2, <2>3
<1>6. CASE OnBat
  <2>1. /\ pc = "onBat" /\ pc' = "onDone" /\ batOn' /\ UNCHANGED <<restart, pend, pause>>
    BY <1>6 DEF OnBat, timerVars, cycleVars, locals
  <2>2. ~batOn => pause >= RestartTime
    BY <2>1 DEF Elapsed, RelayReset
  <2> QED
    BY <1>1, <2>1, <2>2
<1>7. CASE OffBat
  <2>1. /\ pc = "offBat" /\ pc' \in {"offRelays", "offDuty1"} /\ ~batOn'
        /\ UNCHANGED <<restart, pend, pause>>
    BY <1>7 DEF OffBat, timerVars, cycleVars, locals
  <2>2. batOn => ~restart.cond
    BY <2>1 DEF Enables, RelayReset
  <2> QED
    BY <1>1, <2>1, <2>2 DEF Elapsed
<1>8. CASE OffRestart
  BY <1>1, <1>8 DEF OffRestart, RelayReset, stageVars, cycleVars, locals
<1>9. CASE FinishCycle
  <2>1. /\ pc = "fan" /\ pc' = "sleep" /\ UNCHANGED <<batOn, restart, pend>>
        /\ pause' = IF pause > RestartTime THEN pause ELSE pause + 1
    BY <1>9 DEF FinishCycle, timerVars
  <2>2. pend = 0 /\ restart.time \in 0 .. RestartTime
    BY <1>2, <2>1 DEF RelayType
  <2>3. /\ restart.time <= pause => restart.time < pause'
        /\ pause >= RestartTime => pause' >= RestartTime
        /\ pause' >= 0
    BY <1>2, <2>1, <2>2
  <2>4. restart.cond /\ ~batOn => Elapsed'
    BY <1>1, <1>2, <2>1, <2>2, <2>3 DEF Elapsed
  <2> QED
    BY <1>1, <2>1, <2>3, <2>4
<1>10. CASE OnWait
  BY <1>1, <1>10 DEF OnWait, Elapsed, timerVars, stageVars, cycleVars, locals
<1>11. CASE OnProduct
  BY <1>1, <1>11 DEF OnProduct, Elapsed, timerVars, cycleVars, locals
<1>12. CASE \/ ReadOrder \/ SlowCheck \/ EncounterLock \/ LockRelays \/ RefreshRelays
            \/ Decide \/ OnDone \/ OffProduct \/ OffRelays \/ OffDuty1 \/ OffDuty2
            \/ OffEnable \/ OffDone \/ ResetFaulture
  <2>1. UNCHANGED <<restart, batOn, pend, pause>>
    BY <1>12 DEF ReadOrder, SlowCheck, EncounterLock, LockRelays, RefreshRelays,
                 Decide, OnDone, OffProduct, OffRelays, OffDuty1, OffDuty2, OffEnable,
                 OffDone, ResetFaulture, ResetBegin, ResetList, ResetFault,
                 timerVars, stageVars, cycleVars, locals
  <2>2. /\ pc # "store" /\ pc' \notin {"onProduct", "onBat"}
        /\ pc' \in {"sleep", "check", "lock", "refresh", "timers"} =>
             pc \in {"sleep", "check", "lock", "refresh", "timers"}
    BY <1>12 DEF ReadOrder, SlowCheck, EncounterLock, LockRelays, RefreshRelays,
                 Decide, OnDone, OffProduct, OffRelays, OffDuty1, OffDuty2, OffEnable,
                 OffDone, ResetFaulture, ResetBegin, ResetList, ResetFault
  <2> QED
    BY <1>1, <2>1, <2>2 DEF Elapsed
<1> QED
  BY <1>3, <1>4, <1>5, <1>6, <1>7, <1>8, <1>9, <1>10, <1>11, <1>12
     DEF StateControl, Refresh, On, Off

LEMMA PauseInitially == Init => PauseInv
<1> SUFFICES ASSUME StageInit, TimerInit, LogicInit
             PROVE  Enables /\ Modal /\ Pausing
  BY DEF Init, PauseInv
<1>1. Enables /\ Modal
  BY DEF StageInit, LogicInit, Enables, Modal, Law, Rest, Frame
<1>2. Pausing
  BY ConstantsAssumption DEF StageInit, TimerInit, LogicInit, Pausing, RelayReset
<1> QED
  BY <1>1, <1>2

LEMMA PauseAd ==
  ASSUME StageTypeOK, LogicTypeOK, Enables, Modal, Pausing, Ad, sysLock' = {}
  PROVE  Enables' /\ Modal' /\ Pausing'
<1>1. /\ UNCHANGED <<pc, startMode, batMode, pend>>
      /\ hw' = fpga'
  BY AdKeeps
<1>2. /\ UNCHANGED <<tlOn, batOn, restart>>
      /\ batOn => fpga' = Frame(TRUE, batMode, batMode)
      /\ ~batOn => fpga' = fpga
  BY AdFrames, Zenon
<1>3. pause' = IF hw.enable /\ ~hw'.enable THEN 0 ELSE pause
  BY DEF Ad, BatControl
<1>4. Enables'
  BY <1>1, <1>2 DEF Enables
<1>5. CASE batOn
  <2>1. /\ batOn' /\ fpga' = Frame(TRUE, batMode, batMode)
        /\ hw' = Frame(TRUE, batMode, batMode) /\ batMode \in {1, 2}
    BY <1>1, <1>2, <1>5 DEF Modal
  <2>2. Law' = batMode
    BY <2>1 DEF Law, Frame
  <2>3. Modal'
    BY <1>1, <2>1, <2>2 DEF Modal, Frame
  <2>4. Pausing'
    BY <1>1, <1>2, <2>1 DEF Pausing, Frame
  <2> QED
    BY <1>4, <2>3, <2>4
<1>6. CASE ~batOn
  <2>1. ~batOn' /\ fpga' = fpga /\ hw' = fpga
    BY <1>1, <1>2, <1>6, Zenon
  <2>2. {fpga.duty1, fpga.duty2} \subseteq {0, Law'}
    <3>1. CASE fpga.enable
      BY <2>1, <3>1 DEF Modal, Law
    <3>2. CASE ~fpga.enable
      BY <3>2 DEF Modal, Rest, Frame
    <3> QED
      BY <3>1, <3>2
  <2>3. Modal'
    BY <1>1, <2>1, <2>2 DEF Modal
  <2>4. restart.cond => pause' = pause /\ ~hw'.enable
    BY <1>3, <1>6, <2>1 DEF Pausing, Elapsed, Modal
  <2>5. Pausing'
    BY <1>1, <1>2, <1>6, <2>1, <2>4 DEF Pausing, Elapsed
  <2> QED
    BY <1>4, <2>3, <2>5
<1> QED
  BY <1>5, <1>6

LEMMA LocksStay == TypeInv /\ LockInv /\ Next => sysLock \subseteq sysLock'
<1> SUFFICES ASSUME Reported, Next
             PROVE  sysLock \subseteq sysLock'
  BY DEF LockInv
<1>1. CASE Ad
  BY <1>1 DEF Ad, BatControl, UpdateFaultState, Reported
<1>2. CASE StateControl
  BY <1>2, LockReport
<1> QED
  BY <1>1, <1>2 DEF Next

LEMMA PauseInvariance == Spec => []PauseInv
<1>1. TypeInv /\ LockInv /\ StopInv /\ PauseInv /\ [Next]_vars => PauseInv'
  <2> SUFFICES ASSUME TypeInv, LockInv, StopInv, PauseInv, [Next]_vars, sysLock' = {}
               PROVE  Enables' /\ Modal' /\ Pausing'
    BY DEF PauseInv
  <2>1. StageTypeOK /\ LogicTypeOK /\ TimerTypeOK /\ OffProgress
    BY DEF TypeInv, TypeOK, LockInv
  <2>2. CASE Next
    <3>1. Enables /\ Modal /\ Pausing
      BY <2>2, LocksStay DEF PauseInv
    <3> QED
      BY <2>1, <2>2, <3>1, PauseAd, EnablesStep, ModalStep, PausingStep DEF Next
  <2>3. CASE UNCHANGED vars
    <3>1. /\ UNCHANGED <<tlOn, startMode, batOn, batMode, fpga, hw, pc>>
          /\ UNCHANGED <<sysLock, restart, pend, pause>>
      BY <2>3 DEF vars, sysVars, timerVars, cycleVars, locals
    <3>2. Enables /\ Modal /\ Pausing
      BY <3>1 DEF PauseInv
    <3>3. Law' = Law
      BY <3>1 DEF Law
    <3>4. Enables'
      BY <3>1, <3>2 DEF Enables
    <3>5. Modal'
      BY <3>1, <3>2, <3>3 DEF Modal
    <3>6. Pausing'
      BY <3>1, <3>2 DEF Pausing, Elapsed
    <3> QED
      BY <3>4, <3>5, <3>6
  <2> QED
    BY <2>2, <2>3
<1> QED
  BY PauseInitially, TypeInvariance, LockInvariance, StopInvariance, <1>1, PTL DEF Spec

(* Between a stop and the next start the registers stay disabled for the   *)
(* whole restart delay, for any delay and wherever ad preempts the two     *)
(* accesses of Relay::Refresh.                                             *)
THEOREM PauseIsKept == Spec => MinimumPause
<1>1. /\ TypeInv /\ LockInv /\ LockInv' /\ PauseInv /\ [Next]_vars
      => [~hw.enable /\ hw'.enable => pause >= RestartTime]_vars
  <2> SUFFICES ASSUME TypeInv, LockInv, LockInv', PauseInv, Next,
                      ~hw.enable, hw'.enable
               PROVE  pause >= RestartTime
    BY Zenon
  <2>1. Ad
    BY LockReport DEF Next
  <2>2. sysLock' = {}
    BY DEF LockInv, LockedFaultDisables, Frame
  <2>3. Modal /\ Pausing
    BY <2>2, LocksStay DEF PauseInv
  <2>4. hw' = fpga' /\ (~batOn => fpga' = fpga)
    BY <2>1, <2>2, AdKeeps, AdFrames, Zenon
  <2>5. batOn
    BY <2>3, <2>4 DEF Modal
  <2> QED
    BY <2>3, <2>5 DEF Pausing
<1> QED
  BY TypeInvariance, LockInvariance, PauseInvariance, <1>1, PTL DEF Spec, MinimumPause

-----------------------------------------------------------------------------
(***************************************************************************)
(* The refinement: only ad writes the registers, and what it writes is a   *)
(* start, a fade, a stop or a latch of PowerStage.                         *)
(***************************************************************************)
LEMMA StageInitially == Init => Stage!Init
BY DEF Init, StageInit, FailureInit, Stage!Init, Law, Frame

LEMMA StageAd ==
  ASSUME TypeInv, TypeInv', LockInv, LockInv', PauseInv, Ad
  PROVE  [Stage!Next]_(Stage!stageVars)
<1>1. hw.enable \in BOOLEAN /\ hw'.enable \in BOOLEAN
  BY DEF TypeInv, TypeOK, StageTypeOK, Frames
<1>2. CASE sysLock' # {}
  <2>1. hw' = Frame(FALSE, 0, 0)
    BY <1>2 DEF LockInv, LockedFaultDisables
  <2>2. hw'.enable = FALSE /\ Law' = 0
    BY <2>1 DEF Law, Frame
  <2>3. Stage!Latch
    BY <1>2, <2>2 DEF Stage!Latch
  <2> QED
    BY <2>3 DEF Stage!Next
<1>3. CASE sysLock' = {}
  <2>1. sysLock = {} /\ Modal
    BY <1>3, LocksStay DEF PauseInv, Next
  <2>2. (sysLock # {})' = (sysLock # {})
    BY <1>3, <2>1
  <2>3. hw' = fpga' /\ batMode' = batMode
    BY AdKeeps
  <2>4. /\ batOn => fpga' = Frame(TRUE, batMode, batMode)
        /\ ~batOn => fpga' = fpga
    BY <1>3, AdFrames, Zenon
  <2>5. CASE ~hw'.enable
    <3>1. hw'.enable = FALSE /\ Law' = 0
      BY <1>1, <2>5 DEF Law
    <3>2. Stage!Stop
      BY <2>2, <3>1 DEF Stage!Stop
    <3> QED
      BY <3>2 DEF Stage!Next
  <2>6. CASE hw'.enable /\ batOn
    <3>1. hw' = Frame(TRUE, batMode, batMode) /\ batMode \in {1, 2}
      BY <2>1, <2>3, <2>4, <2>6 DEF Modal
    <3>2. hw'.enable = TRUE /\ Law' = batMode
      BY <3>1 DEF Law, Frame
    <3>3. CASE ~hw.enable
      <4>1. hw.enable = FALSE
        BY <1>1, <3>3
      <4>2. Stage!Start
        BY <2>1, <2>2, <3>1, <3>2, <4>1 DEF Stage!Start
      <4> QED
        BY <4>2 DEF Stage!Next
    <3>4. CASE hw.enable
      <4>1. hw' = hw
        BY <2>1, <2>6, <3>1, <3>4, Zenon DEF Modal
      <4>2. UNCHANGED Stage!stageVars
        BY <2>2, <4>1 DEF Stage!stageVars, Law
      <4> QED
        BY <4>2
    <3> QED
      BY <3>3, <3>4
  <2>7. CASE hw'.enable /\ ~batOn
    <3>1. hw' = fpga
      BY <2>3, <2>4, <2>7, Zenon
    <3>2. hw.enable = TRUE /\ hw'.enable = TRUE
      BY <1>1, <2>1, <2>7, <3>1 DEF Modal
    <3>3. Law' \in {0, Law}
      BY <2>1, <3>1, <3>2 DEF Modal, Law
    <3>4. CASE Law' = 0
      <4>1. Stage!Fade
        BY <2>2, <3>2, <3>4 DEF Stage!Fade
      <4> QED
        BY <4>1 DEF Stage!Next
    <3>5. CASE Law' = Law
      BY <2>2, <3>2, <3>5 DEF Stage!stageVars
    <3> QED
      BY <3>3, <3>4, <3>5
  <2> QED
    BY <2>5, <2>6, <2>7
<1> QED
  BY <1>2, <1>3

(* The registers implement PowerStage, for every choice of the constants:  *)
(* a mode starts only from a disabled stage, changes only through one, and *)
(* a latched fault disables in its own step and is never released.         *)
THEOREM StageRefinesPowerStage == Spec => ImplementsPowerStage
<1>1. /\ TypeInv /\ TypeInv' /\ LockInv /\ LockInv' /\ PauseInv /\ [Next]_vars
      => [Stage!Next]_(Stage!stageVars)
  <2> SUFFICES ASSUME TypeInv, TypeInv', LockInv, LockInv', PauseInv, [Next]_vars
               PROVE  [Stage!Next]_(Stage!stageVars)
    OBVIOUS
  <2>1. CASE Ad
    BY <2>1, StageAd
  <2>2. CASE StateControl
    <3>1. UNCHANGED <<sysLock, hw>>
      BY <2>2, LockReport
    <3> QED
      BY <3>1 DEF Stage!stageVars, Law
  <2>3. CASE UNCHANGED vars
    <3>1. UNCHANGED <<sysLock, hw>>
      BY <2>3 DEF vars, sysVars
    <3> QED
      BY <3>1 DEF Stage!stageVars, Law
  <2> QED
    BY <2>1, <2>2, <2>3 DEF Next
<1> QED
  BY StageInitially, TypeInvariance, LockInvariance, PauseInvariance, <1>1, PTL
     DEF Spec, ImplementsPowerStage, Stage!Spec

(***************************************************************************)
(* The hold timers.                                                        *)
(***************************************************************************)
RunTimers == {RunChecks[i].relay : i \in 1 .. Len(RunChecks)}

LEMMA RunTimersType == RunTimers \subseteq HoldRelays
<1>1. RunChecks \in Seq([fail : Slow, relay : HoldRelays])
  BY ConstantsAssumption
<1>2. \A i \in 1 .. Len(RunChecks) : RunChecks[i] \in [fail : Slow, relay : HoldRelays]
  BY <1>1, ElementOfSeq
<1> QED
  BY <1>2 DEF RunTimers

(* The checks made at rest leave the timers of the other checks alone.     *)
LEMMA IdleTimer ==
  ASSUME step \in CheckIds, step > Len(RunChecks)
  PROVE  Checks[step].relay \notin RunTimers
<1>1. RunChecks \in Seq([fail : Slow, relay : HoldRelays])
      /\ IdleChecks \in Seq([fail : Slow, relay : HoldRelays])
  BY ConstantsAssumption
<1>2. /\ Len(Checks) = Len(RunChecks) + Len(IdleChecks)
      /\ \A i \in 1 .. Len(Checks) :
           i > Len(RunChecks) => Checks[i] = IdleChecks[i - Len(RunChecks)]
  BY <1>1, ConcatProperties DEF Checks
<1>3. Len(RunChecks) \in Nat /\ Len(IdleChecks) \in Nat /\ step \in 1 .. Len(Checks)
  BY <1>1, LenProperties DEF CheckIds
<1>4. /\ Checks[step] = IdleChecks[step - Len(RunChecks)]
      /\ step - Len(RunChecks) \in 1 .. Len(IdleChecks)
  BY <1>2, <1>3
<1> QED
  BY <1>4, TimersAssumption DEF RunTimers

HoldInv ==
  sysLock = {} /\ ~batOn =>
    /\ pc \in {"check", "lock"} => step > Len(RunChecks)
    /\ pc # "offRelays" => \A r \in RunTimers : hold[r] = RelayReset

LEMMA HoldInitially == Init => HoldInv
BY RunTimersType DEF Init, TimerInit, LogicInit, HoldInv

LEMMA HoldStep == TypeInv /\ LockInv /\ HoldInv /\ Next => HoldInv'
<1> SUFFICES ASSUME TypeInv, LockInv, HoldInv, Next, sysLock' = {}, ~batOn'
             PROVE  /\ pc' \in {"check", "lock"} => step' > Len(RunChecks)
                    /\ pc' # "offRelays" => \A r \in RunTimers : hold'[r] = RelayReset
  BY DEF HoldInv, RunTimers
<1>1. sysLock = {}
  BY LocksStay
<1>2. hold \in [HoldRelays -> RelayType(HoldTime)] /\ step \in Nat /\ Len(RunChecks) \in Nat
  BY ConstantsAssumption, LenProperties DEF TypeInv, TypeOK, TimerTypeOK, LogicTypeOK
<1> USE DEF HoldInv, Goto
<1>3. CASE Ad
  <2>1. UNCHANGED <<batOn, hold>>
    BY <1>3, AdFrames, Zenon
  <2>2. UNCHANGED <<pc, step>>
    BY <1>3, AdKeeps
  <2> QED
    BY <1>1, <2>1, <2>2
<1>4. CASE ReadOrder
  BY <1>1, <1>2, <1>4 DEF ReadOrder, stageVars, timerVars
<1>5. CASE SlowCheck
  <2>1. /\ pc = "check" /\ step \in CheckIds /\ ~batOn
        /\ step' \in {step, step + 1} /\ pc' \in {"check", "lock"}
    BY <1>5 DEF SlowCheck, stageVars
  <2>2. step > Len(RunChecks) /\ \A r \in RunTimers : hold[r] = RelayReset
    BY <1>1, <2>1
  <2>3. \A r \in RunTimers : hold'[r] = hold[r]
    <3>1. Checks[step].relay \notin RunTimers
      BY <2>1, <2>2, IdleTimer
    <3>2. PICK over \in BOOLEAN :
            hold' = [hold EXCEPT ![Checks[step].relay] =
                       IF over THEN RelayStart(@) ELSE RelayReset]
      BY <1>5, SlowCheckHold
    <3> QED
      BY <1>2, <3>1, <3>2, RunTimersType
  <2> QED
    BY <1>2, <2>1, <2>2, <2>3
<1>6. CASE EncounterLock
  BY <1>1, <1>2, <1>6 DEF EncounterLock, stageVars, timerVars
<1>7. CASE RefreshRelays
  <2>1. /\ pc = "refresh" /\ pc' = "timers" /\ ~batOn
        /\ hold' = [r \in HoldRelays |-> RelayRefresh(hold[r], HoldTime)]
    BY <1>7 DEF RefreshRelays, stageVars
  <2>2. RelayRefresh(RelayReset, HoldTime) = RelayReset
    BY DEF RelayRefresh, RelayReset
  <2> QED
    BY <1>1, <2>1, <2>2, RunTimersType
<1>8. CASE OffBat
  BY <1>1, <1>8 DEF OffBat, timerVars
<1>9. CASE OffRelays
  <2>1. pc' = "offDuty1" /\ hold' = [r \in HoldRelays |-> RelayReset]
    BY <1>9 DEF OffRelays
  <2> QED
    BY <2>1, RunTimersType
<1>10. CASE OnBat
  BY <1>10 DEF OnBat
<1>11. CASE \/ LockRelays \/ RefreshTimers \/ StoreRestart \/ Decide
            \/ OnPrepare \/ OnWait \/ OnProduct \/ OnDone
            \/ OffProduct \/ OffRestart \/ OffDuty1 \/ OffDuty2 \/ OffEnable \/ OffDone
            \/ ResetFaulture \/ FinishCycle
  <2>1. UNCHANGED <<batOn, hold>>
    BY <1>11 DEF LockRelays, RefreshTimers, StoreRestart, Decide, OnPrepare, OnWait,
                 OnProduct, OnDone, OffProduct, OffRestart, OffDuty1, OffDuty2,
                 OffEnable, OffDone, ResetFaulture, ResetBegin, ResetList, ResetFault,
                 FinishCycle, stageVars, timerVars
  <2>2. pc # "offRelays" /\ pc' \notin {"check", "lock"}
    BY <1>11 DEF LockRelays, RefreshTimers, StoreRestart, Decide, OnPrepare, OnWait,
                 OnProduct, OnDone, OffProduct, OffRestart, OffDuty1, OffDuty2,
                 OffEnable, OffDone, ResetFaulture, ResetBegin, ResetList, ResetFault,
                 FinishCycle
  <2> QED
    BY <1>1, <2>1, <2>2
<1> QED
  BY <1>3, <1>4, <1>5, <1>6, <1>7, <1>8, <1>9, <1>10, <1>11
     DEF Next, StateControl, Refresh, On, Off

(* No hold timer of a check made while running keeps running through a     *)
(* stop, for any number of checks, as long as the checks made at rest have *)
(* timers of their own.                                                    *)
THEOREM HoldTimersAreReset == Spec => []HoldTimersRest
<1>1. TypeInv /\ LockInv /\ HoldInv /\ [Next]_vars => HoldInv'
  <2>1. CASE Next
    BY <2>1, HoldStep
  <2>2. CASE UNCHANGED vars
    BY <2>2 DEF HoldInv, RunTimers, vars, sysVars, timerVars, cycleVars, locals
  <2> QED
    BY <2>1, <2>2
<1>2. HoldInv => HoldTimersRest
  BY DEF HoldInv, HoldTimersRest, RunTimers
<1> QED
  BY HoldInitially, TypeInvariance, LockInvariance, <1>1, <1>2, PTL DEF Spec

(***************************************************************************)
(* The hold timers over time.  HoldSpec is Spec with the history beyond,   *)
(* so what was proved of Spec holds of it.                                 *)
(***************************************************************************)
(* Whether check j has been made since the last refresh.                   *)
Passed(j) ==
  IF \/ pc = "refresh"
     \/ pc = "check" /\ j < step
     \/ pc = "lock" /\ j <= step
  THEN 1 ELSE 0

(* Whether a later check of the same cycle decides on the timer of check j.*)
Overruled(j) ==
  IF \E i \in CheckIds : i > j /\ Checks[i].relay = Checks[j].relay THEN 1 ELSE 0

(* How far the timer of check j has come: its result counts one more.      *)
Timer(j)    == hold[Checks[j].relay]
Progress(j) == IF Timer(j).result THEN HoldTime + 1 ELSE Timer(j).time

(* While a lock is reported the checks made while running are not made any *)
(* more, except in the cycle that was under way.                           *)
Counting(j) ==
  \/ j > Len(RunChecks)
  \/ sysLock = {}
  \/ pc \in {"check", "lock"} /\ step <= Len(RunChecks)

LockedRests == sysLock # {} /\ pc = "sleep" /\ adRan => ~batOn

TimerFacts ==
  /\ \A r \in HoldRelays : ~hold[r].cond => hold[r] = RelayReset
  /\ pc \in {"check", "lock"} => step >= 1
  /\ beyond \in [CheckIds -> 0 .. Enough]

(* A running timer has not come farther than any of its checks; one that   *)
(* has not run out is not farther behind than each of them.                *)
NotAhead ==
  \A j \in CheckIds : Counting(j) /\ Timer(j).cond =>
    beyond[j] + Overruled(j) >= Progress(j) + Passed(j)

NotBehind ==
  \A i \in CheckIds : ~Timer(i).result =>
    \E j \in Sharing(i) :
      beyond[j] <= Timer(i).time + (IF Timer(i).cond THEN Passed(j) ELSE 0)

SustainInv == LockedRests /\ TimerFacts /\ NotAhead /\ NotBehind

LEMMA HoldStepIsStep == [HoldAd \/ HoldLogic]_holdVars => [Next]_vars
BY DEF HoldAd, HoldLogic, Next, holdVars

LEMMA HoldSpecIsSpec == HoldSpec => Spec
<1>1. HoldInit => Init
  BY DEF HoldInit
<1> QED
  BY <1>1, HoldStepIsStep, PTL DEF HoldSpec, Spec

LEMMA CheckNumbers ==
  /\ Len(RunChecks) \in Nat /\ Len(Checks) \in Nat
  /\ Len(RunChecks) <= Len(Checks)
  /\ CheckIds = 1 .. Len(Checks)
<1>1. RunChecks \in Seq([fail : Slow, relay : HoldRelays])
      /\ IdleChecks \in Seq([fail : Slow, relay : HoldRelays])
  BY ConstantsAssumption
<1>2. Len(Checks) = Len(RunChecks) + Len(IdleChecks)
  BY <1>1, ConcatProperties DEF Checks
<1> QED
  BY <1>1, <1>2, LenProperties DEF CheckIds

(* A reported lock finds the stage off when logic wakes up, for ad has run *)
(* since it went to sleep.                                                 *)
LEMMA LockedRestsStep == TypeInv /\ LockInv /\ LockedRests /\ Next => LockedRests'
<1> SUFFICES ASSUME TypeInv, LockInv, LockedRests, Next,
                    sysLock' # {}, pc' = "sleep", adRan'
             PROVE  ~batOn'
  BY DEF LockedRests
<1>1. CASE Ad
  <2>1. LockInv'
    BY <1>1, LockAd
  <2>2. CASE sysFault' = {}
    <3>1. fault' \ Warning = {}
      BY <1>1, <2>2 DEF Ad, BatControl
    <3> QED
      BY <2>1, <3>1 DEF LockInv, LockRests, Stopped
  <2>3. CASE sysFault' # {}
    BY <1>1, <2>3 DEF Ad, BatControl, AdOff
  <2> QED
    BY <2>2, <2>3
<1>2. CASE StateControl
  BY <1>2 DEF StateControl, ReadOrder, SlowCheck, EncounterLock, Refresh, LockRelays,
       RefreshRelays, RefreshTimers, StoreRestart, Decide, On, OnPrepare,
       OnWait, OnProduct, OnBat, OnDone, Off, OffProduct, OffRestart, OffBat,
       OffRelays, OffDuty1, OffDuty2, OffEnable, OffDone, ResetFaulture,
       ResetBegin, ResetList, ResetFault, FinishCycle, Goto
<1> QED
  BY <1>1, <1>2 DEF Next
(* The history follows exactly one of the cases of Watch.                  *)
LEMMA WatchCases ==
  ASSUME Watch
  PROVE  /\ TimersStopped /\ ~Made => beyond' = [i \in CheckIds |-> 0]
         /\ Made /\ ~TimersStopped =>
              beyond' = [beyond EXCEPT ![step] = IF FoundOver THEN CapAt(@ + 1) ELSE 0]
         /\ ~Made /\ ~TimersStopped => beyond' = beyond
BY DEF Watch

(***************************************************************************)
(* What a step does to the timers and to the history.                      *)
(***************************************************************************)
Halting ==
  /\ hold' = [r \in HoldRelays |-> RelayReset]
  /\ beyond' = [i \in CheckIds |-> 0]

Checking(over) ==
  LET r == Checks[step].relay
  IN /\ pc = "check" /\ step \in CheckIds
     /\ hold' = [hold EXCEPT ![r] = IF over THEN RelayStart(@) ELSE RelayReset]
     /\ beyond' = [beyond EXCEPT ![step] = IF over THEN CapAt(@ + 1) ELSE 0]
     /\ IF over /\ hold[r].result
        THEN pc' = "lock" /\ step' = step
        ELSE pc' = "check" /\ step' = step + 1
     /\ UNCHANGED sysLock

Refreshing ==
  /\ pc = "refresh" /\ pc' = "timers"
  /\ hold' = [r \in HoldRelays |-> RelayRefresh(hold[r], HoldTime)]
  /\ UNCHANGED <<sysLock, beyond>>

Waking ==
  /\ pc = "sleep" /\ pc' = "check" /\ adRan
  /\ step' = IF batOn THEN 1 ELSE Len(RunChecks) + 1
  /\ UNCHANGED <<sysLock, hold, beyond>>

(* The steps that leave both alone and pass no check.                      *)
Resting ==
  /\ UNCHANGED <<hold, beyond>>
  /\ sysLock \subseteq sysLock'
  /\ \/ UNCHANGED <<pc, step>>
     \/ pc = "lock" /\ pc' = "check" /\ step' = step + 1
     \/ pc = "check" /\ step \notin CheckIds /\ pc' = "refresh"
     \/ /\ pc \notin {"check", "lock", "refresh"}
        /\ pc' \notin {"check", "lock", "refresh"}

LEMMA CheckingStep ==
  ASSUME TypeInv, Watch, SlowCheck
  PROVE  \E over \in BOOLEAN : Checking(over)
<1> DEFINE r == Checks[step].relay
<1>1. /\ pc = "check" /\ step \in CheckIds
      /\ UNCHANGED <<batOn, sysLock>>
  BY DEF SlowCheck, stageVars, adVars, sysVars
<1>2. PICK over \in BOOLEAN :
        /\ hold' = [hold EXCEPT ![r] = IF over THEN RelayStart(@) ELSE RelayReset]
        /\ IF over /\ hold[r].result
           THEN pc' = "lock" /\ step' = step
           ELSE pc' = "check" /\ step' = step + 1
  BY DEF SlowCheck
<1>3. r \in HoldRelays /\ hold \in [HoldRelays -> RelayType(HoldTime)] /\ step \in Nat
  BY <1>1, ChecksType DEF TypeInv, TypeOK, TimerTypeOK, LogicTypeOK
<1>4. FoundOver <=> over
  <2>1. hold'[r] = IF over THEN RelayStart(hold[r]) ELSE RelayReset
    BY <1>2, <1>3
  <2>2. RelayReset.cond = FALSE
    BY DEF RelayReset
  <2>3. RelayStart(hold[r]).cond = TRUE
    BY <1>3 DEF RelayStart, RelayType
  <2> QED
    BY <2>1, <2>2, <2>3 DEF FoundOver
<1>5. Made /\ ~TimersStopped
  BY <1>1, <1>2, <1>3 DEF Made, TimersStopped
<1>6. beyond' = [beyond EXCEPT ![step] = IF over THEN CapAt(@ + 1) ELSE 0]
  BY <1>4, <1>5, WatchCases
<1> QED
  BY <1>1, <1>2, <1>6 DEF Checking

LEMMA AdTimers ==
  ASSUME TypeInv, LockInv, Watch, Ad
  PROVE  Halting \/ Resting
<1>1. UNCHANGED <<pc, step>>
  BY AdKeeps
<1>2. ~Made /\ sysLock \subseteq sysLock'
  BY <1>1, LocksStay DEF Made, Next
<1>3. CASE batOn /\ ~batOn' /\ ~relayLock
  <2>1. hold' = [r \in HoldRelays |-> RelayReset]
    BY <1>3 DEF Ad, BatControl, AdOff, AdRun
  <2>2. TimersStopped
    BY <1>1, <1>3 DEF TimersStopped
  <2> QED
    BY <1>2, <2>1, <2>2, WatchCases DEF Halting
<1>4. CASE ~(batOn /\ ~batOn' /\ ~relayLock)
  <2>1. hold' = hold
    BY <1>4 DEF Ad, BatControl, AdOff, AdRun
  <2>2. ~TimersStopped
    BY <1>1, <1>4 DEF TimersStopped
  <2> QED
    BY <1>1, <1>2, <2>1, <2>2, WatchCases DEF Resting
<1> QED
  BY <1>3, <1>4

LEMMA TimerSteps ==
  ASSUME TypeInv, LockInv, Watch, Next
  PROVE  \/ Halting \/ Refreshing \/ Waking \/ Resting
         \/ SlowCheck /\ \E over \in BOOLEAN : Checking(over)
<1>1. CASE Ad
  BY <1>1, AdTimers
<1>2. CASE SlowCheck
  BY <1>2, CheckingStep
<1>3. CASE ReadOrder
  <2>1. ~Made /\ ~TimersStopped
    BY <1>3 DEF ReadOrder, Goto, Made, TimersStopped
  <2> QED
    BY <1>3, <2>1, WatchCases DEF ReadOrder, Goto, Waking, timerVars, adVars, sysVars
<1>4. CASE RefreshRelays
  <2>1. ~Made /\ ~TimersStopped
    BY <1>4 DEF RefreshRelays, Goto, Made, TimersStopped
  <2> QED
    BY <1>4, <2>1, WatchCases DEF RefreshRelays, Goto, Refreshing, adVars, sysVars
<1>5. CASE OffRelays
  <2>1. ~Made /\ TimersStopped
    BY <1>5 DEF OffRelays, Goto, Made, TimersStopped
  <2> QED
    BY <1>5, <2>1, WatchCases DEF OffRelays, Goto, Halting
<1>6. CASE EncounterLock \/ LockRelays
  <2>1. ~Made /\ ~TimersStopped
    BY <1>6 DEF EncounterLock, LockRelays, Goto, Made, TimersStopped
  <2> QED
    BY <1>6, <2>1, WatchCases
       DEF EncounterLock, LockRelays, Goto, Resting, timerVars, adVars, sysVars
<1>7. CASE \/ RefreshTimers \/ StoreRestart \/ Decide \/ On
           \/ OffProduct \/ OffRestart \/ OffBat \/ OffDuty1 \/ OffDuty2
           \/ OffEnable \/ OffDone \/ ResetFaulture \/ FinishCycle
  <2>1. /\ UNCHANGED <<hold, sysLock>>
        /\ pc \notin {"check", "lock", "refresh", "offRelays"}
        /\ pc' \notin {"check", "lock", "refresh"}
        /\ pc' # pc
    BY <1>7 DEF RefreshTimers, StoreRestart, Decide, On, OnPrepare, OnWait, OnProduct,
                OnBat, OnDone, OffProduct, OffRestart, OffBat, OffDuty1, OffDuty2,
                OffEnable, OffDone, ResetFaulture, ResetBegin, ResetList, ResetFault,
                FinishCycle, Goto, timerVars, adVars, sysVars
  <2>2. ~Made /\ ~TimersStopped
    BY <2>1 DEF Made, TimersStopped
  <2> QED
    BY <2>1, <2>2, WatchCases DEF Resting
<1> QED
  BY <1>1, <1>2, <1>3, <1>4, <1>5, <1>6, <1>7
     DEF Next, StateControl, Refresh, Off
(***************************************************************************)
(* The invariant, one part at a time.                                      *)
(***************************************************************************)
LEMMA TimersType ==
  ASSUME TypeInv, NEW j \in CheckIds
  PROVE  /\ Checks[j].relay \in HoldRelays
         /\ Timer(j) \in RelayType(HoldTime)
         /\ Progress(j) \in 0 .. HoldTime + 1
         /\ Passed(j) \in 0 .. 1 /\ Overruled(j) \in 0 .. 1
<1>1. Checks[j].relay \in HoldRelays
  BY ChecksType
<1>2. Timer(j) \in RelayType(HoldTime)
  BY <1>1 DEF Timer, TypeInv, TypeOK, TimerTypeOK
<1> QED
  BY <1>1, <1>2, ConstantsAssumption DEF Progress, Passed, Overruled, RelayType

LEMMA StepCounts ==
  ASSUME TypeInv, pc \in {"check", "lock"} => step >= 1, Next
  PROVE  pc' \in {"check", "lock"} => step' >= 1
<1>1. step \in Nat
  BY DEF TypeInv, TypeOK, LogicTypeOK
<1>2. CASE Ad
  BY <1>2, AdKeeps
<1>3. CASE ReadOrder \/ SlowCheck \/ EncounterLock
  <2>1. CASE ReadOrder
    <3>1. step' = 1 \/ step' = Len(RunChecks) + 1
      BY <2>1 DEF ReadOrder
    <3> QED
      BY <3>1, CheckNumbers
  <2>2. CASE SlowCheck
    <3>1. pc = "check" /\ step' \in {step, step + 1}
      BY <2>2 DEF SlowCheck
    <3> QED
      BY <3>1, <1>1
  <2>3. CASE EncounterLock
    <3>1. step' = step + 1
      BY <2>3 DEF EncounterLock
    <3> QED
      BY <3>1, <1>1
  <2> QED
    BY <1>3, <2>1, <2>2, <2>3
<1>4. CASE \/ LockRelays \/ RefreshRelays \/ RefreshTimers \/ StoreRestart
           \/ Decide \/ On \/ Off \/ ResetFaulture \/ FinishCycle
  BY <1>4 DEF LockRelays, RefreshRelays, RefreshTimers, StoreRestart, Decide, On,
       OnPrepare, OnWait, OnProduct, OnBat, OnDone, Off, OffProduct, OffRestart,
       OffBat, OffRelays, OffDuty1, OffDuty2, OffEnable, OffDone, ResetFaulture,
       ResetBegin, ResetList, ResetFault, FinishCycle, Goto
<1> QED
  BY <1>2, <1>3, <1>4 DEF Next, StateControl, Refresh

LEMMA FactsStep ==
  ASSUME TypeInv, LockInv, TimerFacts, Watch, Next
  PROVE  TimerFacts'
<1>1. /\ hold \in [HoldRelays -> RelayType(HoldTime)]
      /\ HoldTime \in Nat /\ step \in Nat
  BY ConstantsAssumption DEF TypeInv, TypeOK, TimerTypeOK, LogicTypeOK
<1>2. pc' \in {"check", "lock"} => step' >= 1
  BY StepCounts DEF TimerFacts
<1> SUFFICES /\ \A r \in HoldRelays : ~hold'[r].cond => hold'[r] = RelayReset
             /\ beyond' \in [CheckIds -> 0 .. Enough]
  BY <1>2 DEF TimerFacts
<1> USE DEF TimerFacts
<1>3. CASE Halting
  BY <1>1, <1>3 DEF Halting, Enough
<1>4. ASSUME NEW over \in BOOLEAN, Checking(over)
      PROVE  /\ \A r \in HoldRelays : ~hold'[r].cond => hold'[r] = RelayReset
             /\ beyond' \in [CheckIds -> 0 .. Enough]
  <2>1. beyond' \in [CheckIds -> 0 .. Enough]
    <3>1. /\ step \in CheckIds
          /\ beyond' = [beyond EXCEPT ![step] = IF over THEN CapAt(@ + 1) ELSE 0]
      BY <1>4 DEF Checking
    <3>2. CapAt(beyond[step] + 1) \in 0 .. Enough /\ 0 \in 0 .. Enough
      BY <1>1, <3>1 DEF CapAt, Enough
    <3> QED
      BY <3>1, <3>2
  <2>2. ASSUME NEW r \in HoldRelays, ~hold'[r].cond
        PROVE  hold'[r] = RelayReset
    <3>1. hold' = [hold EXCEPT ![Checks[step].relay] =
                     IF over THEN RelayStart(@) ELSE RelayReset]
      BY <1>4 DEF Checking
    <3>2. RelayStart(hold[r]).cond = TRUE
      BY <1>1 DEF RelayStart, RelayType
    <3> QED
      BY <1>1, <2>2, <3>1, <3>2
  <2> QED
    BY <2>1, <2>2
<1>5. CASE Refreshing
  <2>1. ASSUME NEW r \in HoldRelays, ~hold'[r].cond
        PROVE  hold'[r] = RelayReset
    <3>1. hold'[r] = RelayRefresh(hold[r], HoldTime)
      BY <1>5 DEF Refreshing
    <3>2. hold[r] \in RelayType(HoldTime)
      BY <1>1
    <3>3. hold'[r].cond = hold[r].cond
      BY <3>1, <3>2 DEF RelayRefresh, RelayType
    <3> QED
      BY <2>1, <3>1, <3>3 DEF RelayRefresh
  <2> QED
    BY <1>5, <2>1 DEF Refreshing
<1>6. CASE Waking \/ Resting
  BY <1>6 DEF Waking, Resting
<1> QED
  BY <1>3, <1>4, <1>5, <1>6, TimerSteps

(* What a refresh does to a timer that runs: it comes one step farther, or *)
(* has run out already.                                                    *)
LEMMA RefreshProgress ==
  ASSUME TypeInv, NEW j \in CheckIds, Refreshing
  PROVE  /\ Timer(j)'.cond = Timer(j).cond
         /\ Timer(j).result => Timer(j)'.result
         /\ Progress(j)' \in Nat /\ Progress(j)' <= Progress(j) + 1
         /\ Timer(j).cond /\ ~Timer(j)'.result => Timer(j)'.time = Timer(j).time + 1
         /\ ~Timer(j).cond => Timer(j)' = Timer(j)
<1>1. HoldTime \in Nat /\ Timer(j) \in RelayType(HoldTime)
  BY TimersType, ConstantsAssumption
<1>2. Timer(j)' = RelayRefresh(Timer(j), HoldTime)
  BY TimersType DEF Timer, Refreshing
<1>3. Progress(j)' = IF Timer(j)'.result THEN HoldTime + 1 ELSE Timer(j)'.time
  BY DEF Progress
<1>4. CASE ~Timer(j).cond
  BY <1>1, <1>2, <1>3, <1>4 DEF RelayRefresh, Progress, RelayType
<1>5. CASE Timer(j).cond /\ Timer(j).time >= HoldTime
  <2>1. Timer(j)' = [Timer(j) EXCEPT !.result = TRUE]
    BY <1>2, <1>5 DEF RelayRefresh
  <2>2. Timer(j)'.result = TRUE /\ Timer(j)'.cond = Timer(j).cond
    BY <1>1, <2>1 DEF RelayType
  <2> QED
    BY <1>1, <1>3, <1>5, <2>2 DEF Progress, RelayType
<1>6. CASE Timer(j).cond /\ ~(Timer(j).time >= HoldTime)
  <2>1. Timer(j)' = [Timer(j) EXCEPT !.time = @ + 1]
    BY <1>2, <1>6 DEF RelayRefresh
  <2>2. /\ Timer(j)'.result = Timer(j).result /\ Timer(j)'.cond = Timer(j).cond
        /\ Timer(j)'.time = Timer(j).time + 1
    BY <1>1, <2>1 DEF RelayType
  <2> QED
    BY <1>1, <1>3, <1>6, <2>2 DEF Progress, RelayType
<1> QED
  BY <1>4, <1>5, <1>6

(* What a check does to the timers, and to those it shares one with.       *)
LEMMA CheckedTimer ==
  ASSUME TypeInv, TimerFacts, NEW over \in BOOLEAN, Checking(over), NEW j \in CheckIds
  PROVE  /\ Passed(step) = 0
         /\ Passed(j) = IF j < step THEN 1 ELSE 0
         /\ Passed(j)' = IF j = step THEN 1 ELSE Passed(j)
         /\ j # step => beyond'[j] = beyond[j]
         /\ beyond'[step] = IF over THEN CapAt(beyond[step] + 1) ELSE 0
         /\ j \notin Sharing(step) => Timer(j)' = Timer(j)
         /\ j \in Sharing(step) /\ ~over => Timer(j)' = RelayReset
         /\ j \in Sharing(step) /\ over =>
              /\ Timer(j)'.cond = TRUE
              /\ Timer(j)'.result = Timer(j).result
              /\ Timer(j)'.time = Timer(j).time
<1>1. /\ pc = "check" /\ step \in CheckIds /\ step \in Nat /\ j \in Nat
      /\ beyond \in [CheckIds -> 0 .. Enough]
  BY CheckNumbers DEF Checking, TimerFacts
<1>2. \/ pc' = "lock" /\ step' = step
      \/ pc' = "check" /\ step' = step + 1
  BY DEF Checking
<1>3. /\ Passed(step) = 0
      /\ Passed(j) = IF j < step THEN 1 ELSE 0
      /\ Passed(j)' = IF j = step THEN 1 ELSE Passed(j)
  BY <1>1, <1>2 DEF Passed
<1>4. /\ j # step => beyond'[j] = beyond[j]
      /\ beyond'[step] = IF over THEN CapAt(beyond[step] + 1) ELSE 0
  BY <1>1 DEF Checking
<1>5. /\ hold' = [hold EXCEPT ![Checks[step].relay] =
                    IF over THEN RelayStart(@) ELSE RelayReset]
      /\ hold \in [HoldRelays -> RelayType(HoldTime)]
      /\ Checks[j].relay \in HoldRelays /\ Checks[step].relay \in HoldRelays
  BY <1>1, ChecksType DEF Checking, TypeInv, TypeOK, TimerTypeOK
<1>6. j \notin Sharing(step) => Timer(j)' = Timer(j)
  BY <1>1, <1>5 DEF Sharing, Timer
<1>7. j \in Sharing(step) =>
        Timer(j)' = IF over THEN RelayStart(Timer(j)) ELSE RelayReset
  BY <1>5 DEF Sharing, Timer
<1>8. /\ RelayStart(Timer(j)).cond = TRUE
      /\ RelayStart(Timer(j)).result = Timer(j).result
      /\ RelayStart(Timer(j)).time = Timer(j).time
  BY TimersType DEF RelayStart, RelayType
<1> QED
  BY <1>3, <1>4, <1>6, <1>7, <1>8

LEMMA RunTimer ==
  ASSUME NEW j \in CheckIds, j <= Len(RunChecks)
  PROVE  Checks[j].relay \in RunTimers
<1>1. RunChecks \in Seq([fail : Slow, relay : HoldRelays])
      /\ IdleChecks \in Seq([fail : Slow, relay : HoldRelays])
  BY ConstantsAssumption
<1>2. j \in 1 .. Len(RunChecks) /\ Checks[j] = RunChecks[j]
  BY <1>1, CheckNumbers, ConcatProperties DEF Checks
<1> QED
  BY <1>2 DEF RunTimers

LEMMA NotAheadStep ==
  ASSUME TypeInv, LockInv, HoldInv, LockedRests, TimerFacts, NotAhead, Watch, Next
  PROVE  NotAhead'
<1> SUFFICES ASSUME NEW j \in CheckIds, Counting(j)', Timer(j)'.cond
             PROVE  beyond'[j] + Overruled(j) >= Progress(j)' + Passed(j)'
  BY DEF NotAhead, Overruled
<1>1. /\ HoldTime \in Nat /\ step \in Nat /\ j \in Nat
      /\ Len(RunChecks) \in Nat
      /\ Progress(j) \in 0 .. HoldTime + 1
      /\ Passed(j) \in 0 .. 1 /\ Overruled(j) \in 0 .. 1
      /\ beyond[j] \in 0 .. Enough
  BY TimersType, CheckNumbers, ConstantsAssumption
     DEF TypeInv, TypeOK, LogicTypeOK, TimerFacts
<1>2. Counting(j) /\ Timer(j).cond => beyond[j] + Overruled(j) >= Progress(j) + Passed(j)
  BY DEF NotAhead
<1>3. Progress(j)' = IF Timer(j)'.result THEN HoldTime + 1 ELSE Timer(j)'.time
  BY DEF Progress
<1>4. RelayReset.cond = FALSE /\ RelayReset.result = FALSE /\ RelayReset.time = 0
  BY DEF RelayReset
<1>5. CASE Halting
  <2>1. Timer(j)' = RelayReset
    BY <1>5, TimersType DEF Halting, Timer
  <2> QED
    BY <1>4, <2>1
<1>6. CASE Refreshing
  <2>1. pc = "refresh" /\ pc' = "timers" /\ UNCHANGED <<sysLock, beyond>>
    BY <1>6 DEF Refreshing
  <2>2. Passed(j) = 1 /\ Passed(j)' = 0 /\ Counting(j)
    BY <2>1 DEF Passed, Counting
  <2>3. Timer(j).cond /\ Progress(j)' \in Nat /\ Progress(j)' <= Progress(j) + 1
    BY <1>6, RefreshProgress
  <2> QED
    BY <1>1, <1>2, <2>1, <2>2, <2>3
<1>7. ASSUME NEW over \in BOOLEAN, Checking(over)
      PROVE  beyond'[j] + Overruled(j) >= Progress(j)' + Passed(j)'
  <2>1. /\ pc = "check" /\ step \in CheckIds /\ UNCHANGED sysLock
        /\ step' \in {step, step + 1}
        /\ beyond[step] \in 0 .. Enough
    BY <1>7 DEF Checking, TimerFacts
  <2>2. Counting(j)
    BY <1>1, <2>1 DEF Counting
  <2>3. CASE j \notin Sharing(step)
    <3>1. j # step /\ Timer(j)' = Timer(j)
      BY <1>7, <2>1, <2>3, CheckedTimer DEF Sharing
    <3>2. Passed(j)' = Passed(j) /\ beyond'[j] = beyond[j] /\ Progress(j)' = Progress(j)
      BY <1>3, <1>7, <3>1, CheckedTimer DEF Progress
    <3> QED
      BY <1>2, <2>2, <3>1, <3>2
  <2>4. CASE j \in Sharing(step)
    <3>1. over
      BY <1>4, <1>7, <2>4, CheckedTimer
    <3>2. Progress(j)' = Progress(j)
      BY <1>3, <1>7, <2>4, <3>1, CheckedTimer DEF Progress
    <3>3. ~Timer(j).cond => Progress(j) = 0
      BY <1>4, TimersType DEF Progress, TimerFacts, Timer
    <3>4. CASE j = step
      <4>1. Passed(j) = 0 /\ Passed(j)' = 1 /\ beyond'[j] = CapAt(beyond[j] + 1)
        BY <1>7, <3>1, <3>4, CheckedTimer
      <4>2. beyond'[j] >= 1 /\ (beyond'[j] = beyond[j] + 1 \/ beyond'[j] = HoldTime + 2)
        BY <1>1, <4>1 DEF CapAt, Enough
      <4> QED
        BY <1>1, <1>2, <2>2, <3>2, <3>3, <4>1, <4>2
    <3>5. CASE j # step
      <4>1. /\ Passed(j)' = Passed(j) /\ beyond'[j] = beyond[j]
            /\ Passed(j) = IF j < step THEN 1 ELSE 0
        BY <1>7, <3>5, CheckedTimer
      <4>2. j < step => Overruled(j) = 1
        BY <2>1, <2>4 DEF Overruled, Sharing
      <4> QED
        BY <1>1, <1>2, <2>2, <3>2, <3>3, <4>1, <4>2
    <3> QED
      BY <3>4, <3>5
  <2> QED
    BY <2>3, <2>4
<1>8. CASE Waking
  <2>1. /\ pc = "sleep" /\ pc' = "check" /\ adRan
        /\ step' = IF batOn THEN 1 ELSE Len(RunChecks) + 1
        /\ UNCHANGED <<sysLock, hold, beyond>>
    BY <1>8 DEF Waking
  <2>2. Timer(j)' = Timer(j) /\ Progress(j)' = Progress(j) /\ Passed(j) = 0
    BY <2>1 DEF Timer, Progress, Passed
  <2>3. Counting(j)
    BY <1>1, <2>1 DEF Counting, LockedRests
  <2>4. Passed(j)' = 0
    <3>1. SUFFICES ASSUME j < step'
                   PROVE  FALSE
      BY <2>1 DEF Passed
    <3>2. ~batOn /\ j <= Len(RunChecks)
      BY <1>1, <2>1, <3>1, CheckNumbers
    <3>3. sysLock = {}
      BY <1>1, <2>1, <2>3, <3>2 DEF Counting
    <3>4. Timer(j) = RelayReset
      BY <2>1, <3>2, <3>3, RunTimer DEF HoldInv, Timer
    <3> QED
      BY <1>4, <2>2, <3>4
  <2> QED
    BY <1>2, <2>1, <2>2, <2>3, <2>4
<1>9. CASE Resting
  <2>1. Timer(j)' = Timer(j) /\ Progress(j)' = Progress(j) /\ beyond'[j] = beyond[j]
    BY <1>9 DEF Resting, Timer, Progress
  <2>2. Passed(j)' = Passed(j)
    BY <1>1, <1>9, CheckNumbers DEF Resting, Passed, TimerFacts
  <2>3. Counting(j)
    BY <1>1, <1>9 DEF Resting, Counting
  <2> QED
    BY <1>2, <2>1, <2>2, <2>3
<1> QED
  BY <1>5, <1>6, <1>7, <1>8, <1>9, TimerSteps

LEMMA NotBehindStep ==
  ASSUME TypeInv, LockInv, TimerFacts, NotBehind, Watch, Next
  PROVE  NotBehind'
<1> DEFINE Late(i, j) == IF Timer(i).cond THEN Passed(j) ELSE 0
<1> SUFFICES ASSUME NEW i \in CheckIds, ~Timer(i)'.result
             PROVE  \E j \in Sharing(i) : beyond'[j] <= Timer(i)'.time + Late(i, j)'
  BY DEF NotBehind, Sharing
<1> HIDE DEF Late
<1>1. /\ i \in Sharing(i)
      /\ \A j \in Sharing(i) : j \in CheckIds /\ beyond[j] \in Nat /\ Passed(j) \in 0 .. 1
  BY TimersType DEF Sharing, TimerFacts, Enough
<1>2. /\ HoldTime \in Nat /\ step \in Nat /\ Timer(i).time \in Nat
      /\ Timer(i) \in RelayType(HoldTime)
  BY TimersType, ConstantsAssumption DEF RelayType, TypeInv, TypeOK, LogicTypeOK
<1>3. ~Timer(i).result =>
        \E j \in Sharing(i) : beyond[j] <= Timer(i).time + Late(i, j)
  BY DEF NotBehind, Late
<1>4. RelayReset.cond = FALSE /\ RelayReset.result = FALSE /\ RelayReset.time = 0
  BY DEF RelayReset
<1>5. \A j : Late(i, j)' = IF Timer(i)'.cond THEN Passed(j)' ELSE 0
  BY DEF Late
<1>6. CASE Halting
  <2>1. Timer(i)' = RelayReset /\ beyond'[i] = 0
    BY <1>6, TimersType DEF Halting, Timer
  <2> QED
    BY <1>1, <1>4, <1>5, <2>1
<1>7. CASE Refreshing
  <2>1. /\ Timer(i)'.cond = Timer(i).cond /\ ~Timer(i).result
        /\ Timer(i).cond => Timer(i)'.time = Timer(i).time + 1
        /\ ~Timer(i).cond => Timer(i)'.time = Timer(i).time
    BY <1>7, RefreshProgress
  <2>2. PICK j \in Sharing(i) : beyond[j] <= Timer(i).time + Late(i, j)
    BY <1>3, <2>1
  <2>3. beyond'[j] = beyond[j] /\ Passed(j)' = 0
    BY <1>7 DEF Refreshing, Passed
  <2>4. Late(i, j) = IF Timer(i).cond THEN Passed(j) ELSE 0
    BY DEF Late
  <2>5. beyond'[j] <= Timer(i)'.time + Late(i, j)'
    BY <1>1, <1>2, <1>5, <2>1, <2>2, <2>3, <2>4
  <2> QED
    BY <2>5
<1>8. ASSUME NEW over \in BOOLEAN, Checking(over)
      PROVE  \E j \in Sharing(i) : beyond'[j] <= Timer(i)'.time + Late(i, j)'
  <2>1. step \in CheckIds /\ beyond[step] \in Nat
    BY <1>8 DEF Checking, TimerFacts, Enough
  <2>2. CASE i \notin Sharing(step)
    <3>1. Timer(i)' = Timer(i)
      BY <1>8, <2>2, CheckedTimer
    <3>2. PICK j \in Sharing(i) : beyond[j] <= Timer(i).time + Late(i, j)
      BY <1>3, <3>1
    <3>3. j # step /\ j \in CheckIds
      BY <1>1, <2>2 DEF Sharing
    <3>4. beyond'[j] = beyond[j] /\ Passed(j)' = Passed(j)
      BY <1>8, <3>3, CheckedTimer
    <3>5. Late(i, j)' = Late(i, j)
      BY <1>5, <3>1, <3>4 DEF Late
    <3> QED
      BY <3>1, <3>2, <3>4, <3>5
  <2>3. CASE i \in Sharing(step) /\ ~over
    <3>1. Timer(i)' = RelayReset /\ beyond'[step] = 0 /\ step \in Sharing(i)
      BY <1>8, <2>1, <2>3, CheckedTimer DEF Sharing
    <3> QED
      BY <1>4, <1>5, <3>1
  <2>4. CASE i \in Sharing(step) /\ over
    <3>1. /\ Timer(i)'.cond = TRUE /\ Timer(i)'.time = Timer(i).time
          /\ ~Timer(i).result
      BY <1>8, <2>4, CheckedTimer
    <3>2. PICK j \in Sharing(i) : beyond[j] <= Timer(i).time + Late(i, j)
      BY <1>3, <3>1
    <3>3. j \in CheckIds /\ Passed(j) \in 0 .. 1 /\ beyond[j] \in Nat
      BY <1>1
    <3>4. Late(i, j)' = Passed(j)' /\ Late(i, j) \in {0, Passed(j)}
      BY <1>5, <3>1 DEF Late
    <3>5. CASE j = step
      <4>1. /\ Passed(j) = 0 /\ Passed(j)' = 1
            /\ beyond'[j] = CapAt(beyond[j] + 1)
        BY <1>8, <2>4, <3>3, <3>5, CheckedTimer
      <4>2. CapAt(beyond[j] + 1) <= beyond[j] + 1
        BY <1>2, <3>3 DEF CapAt, Enough
      <4>3. beyond'[j] <= Timer(i)'.time + Late(i, j)'
        <5>1. beyond'[j] <= beyond[j] + 1 /\ beyond'[j] \in Nat
          BY <1>2, <3>3, <4>1, <4>2 DEF CapAt, Enough
        <5> QED
          BY <1>2, <3>1, <3>2, <3>3, <3>4, <4>1, <5>1
      <4> QED
        BY <4>3
    <3>6. CASE j # step
      <4>1. beyond'[j] = beyond[j] /\ Passed(j)' = Passed(j)
        BY <1>8, <3>3, <3>6, CheckedTimer
      <4>2. beyond'[j] <= Timer(i)'.time + Late(i, j)'
        BY <1>2, <3>1, <3>2, <3>3, <3>4, <4>1
      <4> QED
        BY <4>2
    <3> QED
      BY <3>5, <3>6
  <2> QED
    BY <2>2, <2>3, <2>4
<1>9. CASE Waking
  <2>1. Timer(i)' = Timer(i) /\ beyond' = beyond
    BY <1>9 DEF Waking, Timer
  <2>2. PICK j \in Sharing(i) : beyond[j] <= Timer(i).time + Late(i, j)
    BY <1>3, <2>1
  <2>3. Passed(j) = 0 /\ Passed(j)' \in 0 .. 1
    BY <1>9 DEF Waking, Passed
  <2>4. beyond'[j] <= Timer(i)'.time + Late(i, j)'
    BY <1>1, <1>2, <1>5, <2>1, <2>2, <2>3 DEF Late
  <2> QED
    BY <2>4
<1>10. CASE Resting
  <2>1. Timer(i)' = Timer(i) /\ beyond' = beyond
    BY <1>10 DEF Resting, Timer
  <2>2. PICK j \in Sharing(i) : beyond[j] <= Timer(i).time + Late(i, j)
    BY <1>3, <2>1
  <2>3. Passed(j)' = Passed(j)
    <3>1. j \in 1 .. Len(Checks) /\ Len(Checks) \in Nat
      BY <1>1, CheckNumbers
    <3> QED
      BY <1>2, <1>10, <3>1, CheckNumbers DEF Resting, Passed, TimerFacts
  <2>4. Late(i, j)' = Late(i, j)
    BY <1>5, <2>1, <2>3 DEF Late
  <2> QED
    BY <2>1, <2>2, <2>4
<1> QED
  BY <1>6, <1>7, <1>8, <1>9, <1>10, TimerSteps

LEMMA SustainInitially == HoldInit => SustainInv
<1> SUFFICES ASSUME HoldInit
             PROVE  SustainInv
  OBVIOUS
<1>1. /\ sysLock = {} /\ pc = "sleep" /\ HoldTime \in Nat
      /\ beyond = [i \in CheckIds |-> 0]
      /\ \A r \in HoldRelays : hold[r] = RelayReset
  BY ConstantsAssumption DEF HoldInit, Init, FailureInit, TimerInit, LogicInit
<1>2. \A j \in CheckIds : Timer(j) = RelayReset
  BY <1>1, ChecksType DEF Timer
<1>3. RelayReset.cond = FALSE /\ RelayReset.result = FALSE /\ RelayReset.time = 0
  BY DEF RelayReset
<1>4. LockedRests /\ TimerFacts /\ NotAhead
  BY <1>1, <1>2, <1>3 DEF LockedRests, TimerFacts, NotAhead, Enough
<1>5. NotBehind
  BY <1>1, <1>2, <1>3 DEF NotBehind, Sharing
<1> QED
  BY <1>4, <1>5 DEF SustainInv

LEMMA SustainStep ==
  TypeInv /\ LockInv /\ HoldInv /\ SustainInv /\ [HoldAd \/ HoldLogic]_holdVars => SustainInv'
<1> SUFFICES ASSUME TypeInv, LockInv, HoldInv, SustainInv, [HoldAd \/ HoldLogic]_holdVars
             PROVE  SustainInv'
  OBVIOUS
<1>1. CASE HoldAd \/ HoldLogic
  <2>1. Next /\ Watch
    BY <1>1 DEF HoldAd, HoldLogic, Next
  <2> QED
    BY <2>1, LockedRestsStep, FactsStep, NotAheadStep, NotBehindStep DEF SustainInv
<1>2. CASE UNCHANGED holdVars
  BY <1>2 DEF SustainInv, LockedRests, TimerFacts, NotAhead, NotBehind, Counting, Timer,
              Progress, Passed, Sharing, holdVars, vars, sysVars, timerVars, cycleVars, locals
<1> QED
  BY <1>1, <1>2

LEMMA HoldInvariance == HoldSpec => [](TypeInv /\ LockInv /\ HoldInv /\ SustainInv)
<1>1. TypeInv /\ LockInv /\ HoldInv /\ [HoldAd \/ HoldLogic]_holdVars => HoldInv'
  <2>1. TypeInv /\ LockInv /\ HoldInv /\ Next => HoldInv'
    BY HoldStep
  <2>2. HoldInv /\ UNCHANGED vars => HoldInv'
    BY DEF HoldInv, RunTimers, vars, sysVars, timerVars, cycleVars, locals
  <2> QED
    BY <2>1, <2>2, HoldStepIsStep
<1>2. HoldInit => HoldInv
  BY HoldInitially DEF HoldInit
<1> QED
  BY <1>1, <1>2, HoldSpecIsSpec, TypeInvariance, LockInvariance, SustainInitially,
     SustainStep, PTL DEF HoldSpec

(* A check that meets its failure found the value beyond the limit for the *)
(* hold time, and so did every check that shares its timer.                *)
LEMMA MetIsSustained ==
  ASSUME TypeInv, TimerFacts, NotAhead, NEW over \in BOOLEAN, Checking(over), Met
  PROVE  \A j \in Sharing(step) : beyond'[j] > HoldTime
<1> SUFFICES ASSUME NEW j \in Sharing(step)
             PROVE  beyond'[j] > HoldTime
  OBVIOUS
<1>1. /\ pc = "check" /\ step \in CheckIds /\ step \in Nat
      /\ over /\ Timer(step).result
  BY CheckNumbers DEF Checking, Met, Timer
<1>2. j \in CheckIds /\ Timer(j) = Timer(step) /\ Checks[j].relay = Checks[step].relay
  BY <1>1 DEF Sharing, Timer
<1>3. /\ j \in 1 .. Len(Checks) /\ Len(Checks) \in Nat /\ HoldTime \in Nat
      /\ Overruled(j) \in 0 .. 1 /\ beyond[j] \in Nat
      /\ Len(RunChecks) \in Nat
  BY <1>2, CheckNumbers, TimersType, ConstantsAssumption DEF TimerFacts, Enough
<1>4. Timer(j).cond
  <2>1. ~Timer(j).cond => Timer(j) = RelayReset
    BY <1>2, ChecksType DEF TimerFacts, Timer
  <2> QED
    BY <1>1, <1>2, <2>1 DEF RelayReset
<1>5. Counting(j)
  <2>1. j <= Len(RunChecks) => step <= Len(RunChecks)
    <3>1. SUFFICES ASSUME j <= Len(RunChecks), step > Len(RunChecks)
                   PROVE  FALSE
      BY <1>1, <1>3
    <3> QED
      BY <1>1, <1>2, <3>1, RunTimer, IdleTimer
  <2> QED
    BY <1>1, <1>3, <2>1 DEF Counting
<1>6. beyond[j] + Overruled(j) >= HoldTime + 1 + Passed(j)
  BY <1>1, <1>2, <1>4, <1>5 DEF NotAhead, Progress
<1>7. Passed(j) = IF j < step THEN 1 ELSE 0
  BY <1>2, CheckedTimer
<1>8. CASE j = step
  <2>1. beyond'[j] = CapAt(beyond[j] + 1)
    BY <1>1, <1>2, <1>8, CheckedTimer
  <2> QED
    BY <1>1, <1>3, <1>6, <1>7, <1>8, <2>1 DEF CapAt, Enough
<1>9. CASE j < step
  <2>1. beyond'[j] = beyond[j]
    <3>1. j # step
      BY <1>1, <1>3, <1>9
    <3> QED
      BY <1>1, <1>2, <3>1, CheckedTimer
  <2> QED
    BY <1>3, <1>6, <1>7, <1>9, <2>1
<1>10. CASE j > step
  <2>1. beyond'[j] = beyond[j]
    <3>1. j # step
      BY <1>1, <1>3, <1>10
    <3> QED
      BY <1>1, <1>2, <3>1, CheckedTimer
  <2>2. Overruled(j) = 0
    <3>1. SUFFICES ASSUME NEW i \in CheckIds, i > j, Checks[i].relay = Checks[j].relay
                   PROVE  FALSE
      BY DEF Overruled
    <3>2. i \in Sharing(step) /\ i \in Nat
      BY <1>2, <3>1, CheckNumbers DEF Sharing
    <3> QED
      BY <1>1, <1>2, <1>3, <1>10, <3>1, <3>2, PairsAssumption
  <2> QED
    BY <1>3, <1>6, <1>7, <1>10, <2>1, <2>2
<1> QED
  BY <1>1, <1>3, <1>8, <1>9, <1>10

(* A check whose value, with those that share its timer, has been beyond   *)
(* the limit one check longer than the hold time, meets its failure.       *)
LEMMA SustainedIsMet ==
  ASSUME TypeInv, TimerFacts, NotBehind, NEW over \in BOOLEAN, Checking(over),
         \A j \in Sharing(step) : beyond'[j] >= Enough
  PROVE  pc' = "lock"
<1>1. /\ pc = "check" /\ step \in CheckIds /\ HoldTime \in Nat
      /\ step \in Sharing(step)
  BY ConstantsAssumption DEF Checking, Sharing
<1>2. over
  <2>1. SUFFICES ASSUME ~over
                 PROVE  FALSE
    OBVIOUS
  <2>2. beyond'[step] = 0
    BY <1>1, <2>1, CheckedTimer
  <2> QED
    BY <1>1, <2>2 DEF Enough
<1>3. SUFFICES ASSUME ~Timer(step).result
               PROVE  FALSE
  BY <1>2 DEF Checking, Timer
<1>4. Timer(step).time \in 0 .. HoldTime
  BY <1>1, TimersType DEF RelayType
<1>5. PICK j \in Sharing(step) :
        beyond[j] <= Timer(step).time + (IF Timer(step).cond THEN Passed(j) ELSE 0)
  BY <1>1, <1>3 DEF NotBehind
<1>6. j \in CheckIds /\ Passed(j) \in 0 .. 1 /\ beyond[j] \in Nat
  BY TimersType DEF Sharing, TimerFacts, Enough
<1>7. CASE j = step
  <2>1. Passed(j) = 0 /\ beyond'[j] = CapAt(beyond[j] + 1)
    BY <1>1, <1>2, <1>7, CheckedTimer
  <2>2. beyond[j] <= HoldTime
    BY <1>1, <1>4, <1>5, <1>6, <2>1
  <2> QED
    BY <1>1, <1>6, <2>1, <2>2 DEF CapAt, Enough
<1>8. CASE j # step
  <2>1. beyond'[j] = beyond[j]
    BY <1>6, <1>8, CheckedTimer
  <2> QED
    BY <1>1, <1>4, <1>5, <1>6, <2>1 DEF Enough
<1> QED
  BY <1>7, <1>8

(* Nothing but a check is one of SlowCheck's.                              *)
LEMMA MadeIsSlowCheck ==
  ASSUME Next, Made
  PROVE  SlowCheck
<1>1. ~Ad
  BY AdKeeps DEF Made
<1> QED
  BY <1>1 DEF Next, Made, StateControl, ReadOrder, EncounterLock, Refresh, LockRelays,
       RefreshRelays, RefreshTimers, StoreRestart, Decide, On, OnPrepare,
       OnWait, OnProduct, OnBat, OnDone, Off, OffProduct, OffRestart, OffBat,
       OffRelays, OffDuty1, OffDuty2, OffEnable, OffDone, ResetFaulture,
       ResetBegin, ResetList, ResetFault, FinishCycle, Goto

(* A slow check meets its failure exactly when its value, and that of every*)
(* check that shares its timer, has been beyond the limit for the hold     *)
(* time: for any checks, timers and hold time, with at most two checks on  *)
(* one timer, however ad and stops come in between.                        *)
THEOREM FailuresAreSustained == HoldSpec => MetIffSustained
<1>1. ASSUME TypeInv, LockInv, HoldInv, SustainInv, [HoldAd \/ HoldLogic]_holdVars
      PROVE  [/\ Met => /\ beyond'[step] > HoldTime
                        /\ \A j \in Sharing(step) : beyond'[j] > HoldTime
              /\ Made /\ (\A j \in Sharing(step) : beyond'[j] >= Enough) => Met]_holdVars
  <2>1. CASE Made /\ (HoldAd \/ HoldLogic)
    <3>1. Next /\ Watch
      BY <2>1 DEF HoldAd, HoldLogic, Next
    <3>2. \E over \in BOOLEAN : Checking(over)
      BY <1>1, <2>1, <3>1, MadeIsSlowCheck, CheckingStep
    <3>3. step \in Sharing(step)
      BY <2>1 DEF Made, Sharing
    <3> QED
      BY <1>1, <2>1, <3>2, <3>3, MetIsSustained, SustainedIsMet DEF SustainInv, Met
  <2>2. CASE ~Made
    BY <2>2 DEF Met
  <2>3. CASE UNCHANGED holdVars
    BY <2>3
  <2> QED
    BY <1>1, <2>1, <2>2, <2>3
<1> QED
  BY <1>1, HoldInvariance, PTL DEF HoldSpec, MetIffSustained
=============================================================================
