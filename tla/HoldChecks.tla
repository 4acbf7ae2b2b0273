----------------------------- MODULE HoldChecks -----------------------------
(***************************************************************************)
(* The slow checks of Bat over time: ThreeLevel with a history of how long *)
(* each value has been beyond its limit.  The history is derived from the  *)
(* steps alone, so it restricts no behaviour.                              *)
(*                                                                         *)
(* Two checks may name the same hold timer: Bat::UCflyCheck starts and     *)
(* resets uCFly2HoldTime once for uCfly > 1100 and once for                *)
(* uIn - uCfly > 1300 in every cycle, so the later check undoes what the   *)
(* earlier one has started.                                                *)
(***************************************************************************)
EXTENDS ThreeLevel

VARIABLE beyond   (* history: checks in a row that found the value beyond  *)
                  (* its limit, since the stage last stopped; capped       *)

holdVars == <<vars, beyond>>

Enough == HoldTime + 2

CapAt(n) == IF n > Enough THEN Enough ELSE n

Sharing(i) == {j \in CheckIds : Checks[j].relay = Checks[i].relay}

(* No three checks share a timer.                                          *)
ASSUME PairsAssumption ==
  \A i, j, k \in CheckIds :
    j \in Sharing(i) /\ k \in Sharing(i) => i = j \/ j = k \/ i = k

Made      == pc = "check" /\ step \in CheckIds /\ (pc' # pc \/ step' # step)
(* The timer runs after a check exactly when the value was beyond.         *)
FoundOver == hold'[Checks[step].relay].cond
Met       == Made /\ pc' = "lock"

(* Off resets every hold timer, unless ad finds the list being refreshed.  *)
TimersStopped == \/ pc = "offRelays" /\ pc' # pc
                 \/ pc' = pc /\ batOn /\ ~batOn' /\ ~relayLock

Watch ==
  beyond' = CASE TimersStopped -> [i \in CheckIds |-> 0]
              [] Made ->
                   [beyond EXCEPT ![step] = IF FoundOver THEN CapAt(@ + 1) ELSE 0]
              [] OTHER -> beyond

HoldInit == Init /\ beyond = [i \in CheckIds |-> 0]

HoldAd    == Ad /\ Watch
HoldLogic == StateControl /\ Watch

(* Both threads are scheduled for ever: ad by the timeout of its semaphore *)
(* and logic by the end of its delay.                                      *)
HoldSpec == /\ HoldInit /\ [][HoldAd \/ HoldLogic]_holdVars
            /\ WF_holdVars(HoldAd) /\ WF_holdVars(HoldLogic)

(* A failure is met by a slow check exactly when its value has been beyond *)
(* the limit for the hold time: one cycle starts the timer, HoldTime + 1   *)
(* refreshes let it run out, the next check meets the failure.  Of the     *)
(* checks that share a timer none does so alone: each of them must have    *)
(* been beyond its limit all the time (Bat.cpp:587,588), and an interrupted*)
(* stop or a refresh that ad runs into never shortens the delay.           *)
MetIffSustained ==
  [][/\ Met => /\ beyond'[step] > HoldTime
               /\ \A j \in Sharing(step) : beyond'[j] > HoldTime
     /\ Made /\ (\A j \in Sharing(step) : beyond'[j] >= Enough) => Met]_holdVars

(* A value that stays beyond its limit at every check that is made also at *)
(* rest ends in a lock that keeps the stage off for good, however orders,  *)
(* stops and resets fall in between.                                       *)
Stays(i) == <>[][Made /\ step = i => FoundOver]_holdVars
PersistentFaultLocks ==
  \A i \in Len(RunChecks) + 1 .. Len(Checks) :
    Stays(i) => <>[](sysLock # {} /\ ~hw.enable)
=============================================================================
