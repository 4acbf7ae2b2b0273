# Verification of the DCDC control board firmware

The firmware in `src/SC_CtrlBoard_arm` runs the control board of a battery
charge/discharge converter (a three-level DCDC stage) on an STM32F4 under
RT-Thread. This directory holds TLA+ models of its own logic
(`bsp/stm32f40x/{userApp,cpptools,flash,drivers,TOOLS,applications}`), the TLC
runs that check them on small instances and the TLAPS proofs of what holds for
every instance. Paths below are relative to
`src/SC_CtrlBoard_arm/bsp/stm32f40x/` unless they begin with `src/`.

Run a check with `tlc -config <cfg> <module>.tla`, the proofs of a component with
`tlapm` on its module of proofs: `ThreeLevelProofs`, `FanProofs`, `CanReceiveProofs`,
`CanTxProofs`, `ParametersProofs`, `FlashStorageProofs`, `IapProofs`, `CanUpdateProofs`
(section 5). `PROJECT.json` lists runs, mutants, hazards, theorems and the source lines of every definition.
Definitions commented "Mutant" or "Faulty" are wrong on purpose: put in place of
the definition after them they show that a property can fail.

## 1. Inventory

Threads, a lower number being a higher priority: `iap_svr` 1, `ad` 2,
`can1_s_rx` and `can2_s_rx` 3, `can_s_tx` 6, `can_tx` 9, `init` 10, `logic` 12,
`console` 15, `fst` 18. A thread is preempted by those before it at any
instruction; almost nothing is locked, and most shared state lies in `shareData`
(`ScData`, DataStruct.h) or in the object `tl` (ThreeLevel.cpp:10).

| Component | State | Operations | Interacts with |
|---|---|---|---|
| Stage control and protection: `ThreeLevel`, `Bat`, `Failure`, `FailureCheck`, `Relay`, `RelayModule`, `Counter` | failures (occurred, times, locked), reported faults and locks, hold timers, restart and keep timers, start flags and modes, FPGA frame | `BatControl` after every conversion (ad); `StateControl` every 10 ms (logic); `On`, `Off`, `ResetFaulture`, the checks | reads the order any CAN or serial command wrote; writes the FPGA registers; asks the fan |
| Fan control: `ThreeLevel::FanLogic` | state, run time, steady flag, speed | once per `StateControl` | start condition of the stage |
| CAN reception: can.c, canTask.c | ring of 64 slots and a mailbox of 64 pointers per port | receive interrupt, receive thread | `MsgRx_Manage` |
| CAN block assembly: canApp.cpp | byte count per message, `CanBuf`, the application's copies | `MsgRx_Deal`, `RxMsgUpdate_data` | parameters, calibration, orders |
| CAN transmission: canApp.cpp, canTask.c, can.c | update flags, port of each reply, `tx_index`, mailbox | `SendCan`, `TriggerMsgPush`, `can_send_buffer`, `can_tx_services_entry` | replies of every other component |
| Parameters and calibration: record.c, logicApp.c, canApp.cpp, serial_util.c | `cbPara`/`cbWrPara`, `cbAdj`/`cbWrAdj`, request flags | orders by CAN and serial line, `UserRecord`, start-up reading | record storage through the mailbox of `fst` |
| Record storage: flash_storage_at45dbxx.c | catalog and record areas in data flash, maps in RAM | `flash_storage_init`, `write_record`, `flash_storage_read` | record.c, serial command 0xE0 |
| Firmware update: update_app.c, iap_service.c, own_flash.c, application.c | description and lengths in RAM, image in flash, `sem_reset_cpu` | `'u'`, `'f'`, 0xcc by serial line, the same by CAN; `init` thread's reset | serial protocol, CAN |
| Serial protocol: serial_protocol.c, serial_util.c, usart_ex.c | parser position and checksum, transmit buffers | bytes of a frame, commands | parameters, orders, update, fault records |
| Fault log: record.c | ring of samples around a fault | `push_ad_record`, `start_record_fault` | stage control, record storage |
| Control laws and AD sampling: Bat.cpp, PID, transducers, ad.c | filters, integrators | `Bat::Run`, scaling | inputs of the checks |
| Terminal, board drivers, containers, start-up | | | |

What is hard, and what makes each component correct:

* **Stage control.** Two threads share everything without a lock; `logic` may be
  preempted by `ad` between deciding to switch on and doing so, or half-way
  through switching off. Correct means: a locked fault disables the converter in
  the conversion it is first seen in and for good; charge and discharge are separated by a
  disabled frame; the restart pause is kept; a fault is reset only with the stage
  off; a failure locks only after it was reset and came
  back often enough, and a failure that stays does lock.
* **Fan.** The order is read twice in a cycle, the thresholds overlap, and only full speed
  reaches the hardware: a stage whose fan is not steady is stopped in the next cycle, a steady fan
  that came straight to full speed was driven for its second, and a hot stage is cooled.
* **CAN reception.** Nothing marks a slot as free: messages are handled once, in
  order and whole as long as the ring does not come round.
* **CAN blocks.** Packets are counted in bytes: no mixture of two blocks may be taken
  over, and no loss may block the next complete block.
* **Parameters.** Three threads and interrupted read-modify-writes of one word:
  what is in use is what was ordered, and what a reset brings back.
* **Storage.** Power may fail in any write, and the console reads while the flash thread
  moves the map: the newest record is found again, the last good one is not overwritten
  first, and a read returns the record asked for or none.
* **Update.** Frames are repeated and damaged, the acknowledgement comes before the
  knowledge, an erasure may be skipped, cut short or come from the init thread, and over
  CAN the number of a block is looked at one block too late: a positive answer to the check
  means the whole file is in flash, and an update begun again succeeds.
* **CAN transmission.** Replies are refreshed while they are split and sent, retries give
  up single packets, the highest bits of the identifiers the controllers send by are unset, a
  bus-off ends the thread: what ends on the bus is one answer, whole
  and of one copy, and the last request is answered.

## 2. Modules

| Module | Models | State and actions in terms of the code |
|---|---|---|
| `ThreeLevel` | ThreeLevel.cpp, Bat.cpp, Failure*, Relay*, Counter, fsmc.c | One variable per C++ member. `Ad` is one action: nothing before `ad` touches this state and it never waits. `StateControl` is cut at every access to shared state; `pc` says where `logic` is. A measured value is "this check finds its value beyond its limit", chosen at each check. The order is any byte at each read. |
| `FanLogic`, `FanCooling` | `ThreeLevel::FanLogic` | `FanLogic` has the transition, used by `ThreeLevel` through INSTANCE; `FanCooling` runs it alone. The relay (output 4) is what the fan gets: `fanDuty` is written and never read, so HALF leaves it as STOP does. |
| `PowerStage` | | Abstract: what the board promises about the gate signals. `ThreeLevel` implements it (`ImplementsPowerStage`, mapping in ThreeLevel.tla). |
| `HoldChecks` | Bat.cpp slow checks, RelayModule | EXTENDS `ThreeLevel` with a history of how long each value has been beyond its limit; two checks may share a timer as in `UCflyCheck`. |
| `CanRx` | can.c, canTask.c, `can_rx_interface` | A slot holds the number of the message in it. `Arrive` is the interrupt, possible between any two of `Take`, `CopyHeader`, `CopyData`, `Manage`. |
| `CanAssembly` | `MsgRx_Deal`, `RxMsgUpdate_data` | A packet carries the number of its block. `Receive`, `Lose` and `Repeat` are what reaches the byte count. |
| `CanReceive` | the two together | Composition: EXTENDS `CanAssembly`, INSTANCEs `CanRx`. The bus (external) delivers, loses or repeats packets into the ring; `Handle` is `Manage` of `CanRx` and a step of `CanAssembly` in one. `Skip` is bookkeeping: a packet that never came to the thread is booked as lost when the next one does. |
| `CanTx` | canApp.cpp, canTask.c, can.c: sending | `SendCan` is one step (priorities 1 and 3 stand above both senders), `can_s_tx` is cut at each packet it copies and at each it hands over, `can_tx` at each attempt. Controllers and master are external: a controller sends what it holds by identifier (TXFP is disabled), whose priority bits `MakeCanMsgExtID` never sets and may be anything in `Prios`; it goes bus-off and recovers (ABOM is enabled). |
| `Parameters` | record.c, canApp.cpp, serial_util.c, logicApp.c | `cur` and `wr` are the two copies, `flags` the request bits. A CAN order is one action (priority 3 preempts everything below); the console and `logic` are cut at each access. |
| `FlashStorage` | flash_storage_at45dbxx.c | Two rings of slots. `write_record` is cut at the three assignments that move the map, then `Program` and read-back; `ReadBegin` is a read of the console that preempts it and waits for the lock with the page computed. `GiveUp` is the end of the last attempt. `Crash` may leave the slot torn or erased; `Boot` is the search (`Search`, one turn `Look`). |
| `IapUpdate` | update_app.c, iap_service.c, own_flash.c, application.c, serial_util.c | A part of the file stands for the blocks of one sector. `Handle` is one action: `iap_svr` has the highest priority and is done before `rt_mb_send` returns; only the power may fail inside its erasure (`CutErasure`). The host and the line are external: the host repeats a request when no answer comes and starts anew on an error, which is what the code's answer to a lower block number is made for. |
| `CanUpdate` | `IapRx_Deal`, iap_service.c, update_app.c | `FilePacket` keeps what the buffer held when a block began, the number that is compared. The master (external) follows the number in the answers. The command of the message is any (`HandOver`); with that of a check the block is called as a function, and the board may hang in a fault handler until the power fails (`hung`). `InfoBlock` erases unless the three words `own_flash_erase` looks at are blank; `InitTake` finds the tag, which a file may carry or not, or erases the first sector; `CutErasure` is a power failure inside an erasure. |
| `MCThreeLevel`, `MCHoldChecks`, `MCCanTx` | | Constants that a .cfg can not write. |
| `ThreeLevelProofs`, `FanProofs`, `CanReceiveProofs`, `CanTxProofs`, `ParametersProofs`, `FlashStorageProofs`, `IapProofs`, `CanUpdateProofs` | | Theorems and proofs, section 5. |

## 3. Runs

| Run | States | What it shows |
|---|---|---|
| `stage` | 3.9 M | Both threads interleaved at every access, one fast failure and one slow failure that is always checked. Locked faults disable (`LockedFaultDisables`); a stop reaches the registers with the next conversion (`StopReachesFpga`); a running stage has a steady fan each time the cycle comes to `FanLogic` (`SteadyWhileOn`); locks need repeated faults (`LockNeedsRepeatedFault`); reports are real (`ReportsAreReal`); the pause (`MinimumPause`); faults cleared only at rest (`FaultClearsOnlyWhenOff`); refinement of `PowerStage`. |
| `stage_live` | 1.5 M | Two slow checks on one hold timer that are made only while the stage runs, one check that is always made. No stop leaves a timer running (`HoldTimersRest`); a failure is met exactly when its value has been beyond the limit for the hold time (`MetIffSustained`), which for the shared timer means both values; visible faults are reset or lock (`FaultIsResolved`), and a value that stays beyond its limit ends in a lock (`PersistentFaultLocks`). |
| `fan` | 443 | Without HALF on the way the fan is steady only after its relay was closed for a second (`SteadyWithoutHalf`), a hot stage ends with the relay closed, an order makes the fan steady, no oscillation at a constant temperature. |
| `can_receive` | 1.7 M | From the bus to the application's copy: `HandledInOrder`, `InStep`, `NoMixture`, `CompleteBlockTaken`, and every message is handled (`EveryMessageHandled`). |
| `can_tx` | 1.3 M | An answer that ends on the bus is whole (`AnswersWhole`), none is older than one before it (`AnswersInOrder`), and the last request for a reply is answered (`LastRequestAnswered`), each unless something named below happened to it. |
| `can_busoff` (violation) | | Finding 1. |
| `parameters` | 0.7 M | What is in use survives a reset (`ParaPersisted`), was ordered (`ParaWasOrdered`), the copies agree between orders (`CopiesAgree`), an order is written in the end (`OrderStored`). |
| `parameters_early` (violation) | | Finding 2. |
| `storage` | 5.1 M | `NewestFound`, `LastReportedKept`, `ReadsWithinLap`, and with readers inside a write `ReadsAskedOrNothing`. |
| `fault_records` (violation) | | Finding 3. |
| `update` | 1.6 M | `OkMeansWhole`, `LossesAreHarmless`, `ResetIntoWhole`, `UpdateCompletes`. |
| `can_update` | 2.3 M | Over CAN each block is stored once and in its place (`FileArrives`), and no attempt goes on for ever (`AttemptEnds`). |

### Conditions in the properties

Where the code loses something by design or for lack of a check, the property
names the case with a history variable and claims the rest.

* `overrun` (CanRx): a message arrived while all slots were awaited. The mailbox
  does not prevent it: it takes as many pointers as there are slots, and the thread
  holds one more.
* `chasm`, `lost`, `twice` (CanAssembly, CanReceive): byte counting mixes blocks if as many
  packets are lost of two successive blocks as a block has, or if one is lost and
  another repeated. `chasm` is exact; with `Parts` = 3 TLC finds a mixture as soon
  as it is dropped. In the composition a packet that the ring overwrote counts as lost,
  one that comes out of it in the wrong order as lost and repeated.
* `crossed`, `lost`, `overtaken`, `returned` (CanTx): the reply was asked for again while it
  was under way (there is one buffer, and it is refreshed while it is split); a packet was
  dropped for want of memory, of room in the queue or of a transmit mailbox; a packet went
  into a controller that still held one of the reply which does not go before it, as an older
  answer or higher priority bits make possible; the thread has ended.
  TLC refutes each property as soon as one of them is left out.
* `clobbered`, `dropped`, `crossed` (Parameters): a flag set between the load and the
  store of another one is lost; a full mailbox loses the write; orders from both lines at
  the same moment mix. All three leave `cbPara` in use but not in flash.
* `EarlyOrders` (Parameters): whether orders arrive in the two seconds before
  the stored blocks are read. The passing run excludes it, Finding 2 shows why.
* `Searchable`, `RingNotLost` (FlashStorage): the boot search passes
  `Forward` slots that hold nothing newer; more erased slots in a row hide what is
  behind them. `blanks` counts the slots left erased since the catalog in flash: one by a
  write that was given up, and one by a power failure (`cut`) as soon as the boot
  after it fails to save its catalog, for then the next search has to pass it too. Once
  too many are left nothing is claimed any more, not even that a read returns the
  record asked for: a boot may then take an old record for the newest, and the
  numbers in the ring are no longer in order.
* `early`, `blind`, `again` (IapUpdate): in the two seconds after a start
  `check_updated` compares nothing; in the second between check and reset another update
  may erase the file.
* `fileLength > 0` (IapUpdate): if the description and every part of an update were damaged,
  nothing of it was written, and the check at its end is made, and answered, for the
  file before (`start_update` and `set_file_buffer` report a wrong CRC over CAN only).
* `damaged` (IapUpdate): a part was damaged or a sector kept old data since the
  last `'u'`, or the board restarted. The check must find it out
  (`OkMeansWhole`); without it the check must succeed (`LossesAreHarmless`).
* `damaged` (CanUpdate): since the last good description the board was restarted; the erasure
  was skipped and left old data (own_flash.c:72), as it may be after the init thread
  erased the first sector only or the power failed in an erasure; the init thread erased the file
  for its missing tag (application.c:100), after which a repeated check, its answer lost, fails;
  a message for a block carried another command, which
  the code leaves to chance (canApp.cpp:145); or half a block was accepted.
* `hung` (CanUpdate): the fault handlers loop for ever (drivers/stm32f4xx_it.c) and the
  watchdog is off (`IWDG_EN` 0, drivers/board.h:21).
* `viaHalf` (FanCooling): the fan passed through HALF since it last stood.

### Findings

1. can.c enables the automatic bus-off management of the controllers, which go back to work
   by themselves. `can_tx_services_entry` returns from the thread when it meets a
   bus-off (can.c:458); nothing is sent any more on either port until a restart.
2. `MsgRx_Manage` compares and takes over `cbWrPara` on every packet of an order
   (canApp.cpp:347), not on the complete block as the comment at canApp.cpp:199
   says. Before the stored block is read, the first packet of an order makes the
   zeros of static storage the parameters in use and has them written to flash.
3. Command 0xd1 reports a number of fault records, command 0xE0 reads one by its
   index; once the ring has wrapped, some of the reported records can not be read
   (flash_storage_at45dbxx.c:272, :284).

Observed while modelling, without a run of their own: `RelayModule::Reset` does nothing
while `Refresh` holds `listLock` (RelayModule.cpp:5), so a stop by `ad` may leave hold timers
running until the stop by `logic` that follows in the same cycle, which is what
`HoldTimersRest` and `MetIffSustained` allow for. `uCFly2HoldTime` serves two
comparisons (Bat.cpp:587, :588): each alone never trips. A packet that `can_tx` can not
queue is never freed (`can_send_buffer`). The first block of an update over CAN is allocated
where the description's message lay, and may inherit its command.

HALF opens the relay of the fan like STOP (ThreeLevel.cpp:267, :245); the 50 % its comment gives to
a speed board are written to `fanDuty`, which nothing reads (drivers/fsmc.c:223 sends another
member, never written). `fanRunTime` counts HALF all the same: an order that comes after a while
in HALF finds the fan steady, though the comment at ThreeLevel.cpp:291 asks for a second of driving,
and the stage may start before the relay was ever closed. TLC shows it as soon as `viaHalf` is left
out of `SteadyWithoutHalf`.

`MakeCanMsgExtID` takes what its caller calls the priority (canApp.cpp:266) for the class and leaves
the priority bits of its local unset (canApp.cpp:459-472); the mask at its end keeps them. If they
differ between two packets, a later packet of an answer may leave a controller before an earlier
one. TLC shows it as soon as `overtaken` is left out of `AnswersWhole`; with one value in
`Prios` the condition is not needed there.

## 4. Bounds and fairness

* Stage: one failure of each kind is enough for the interleavings of one failure with
  itself and with the other thread; sets of failures are only joined and compared,
  and the proofs of section 5 do not bound them. `LimitedTimes` 2, delays of one cycle:
  a delay is passed through all its phases (started, running, out); longer ones add
  cycles that change nothing else. A second of the fan is 0 to 2 cycles.
* HoldChecks: `HoldTime` 1 lets a timer start, run and end, with a cycle more than that
  told apart (`Enough`); `KeepTime` 0 since `stage` has the keep time.
* CanReceive: three packets in a block as in the code, two blocks, four faults, a ring
  of two slots that the six packets and their repetitions pass several times. The proofs
  about `CanAssembly` are for any number of packets and blocks.
* CanTx: a reply of two packets and one of one packet (also sent by `iap_svr`), a queue of two,
  two transmit mailboxes, two attempts: each is full or used up in some behaviour. Two
  requests of the first reply, or one of it and two of the second; one failed allocation or
  bus-off. Two values of the priority bits are enough to send two packets in any order.
* Parameters: two blocks to order, one of them implausible as calibration; a mailbox of
  one, so that it is full as often as possible (a longer one is a queue whose head is
  written: it only delays). No bound on orders or resets.
* FlashStorage: four slots of two pages and six records let the ring wrap; two catalogs
  and three boots let the catalog wrap; two attempts for a write; `Sector` 6, so that a search
  passes three slots and one of them may be erased. `MaxWrites` and `MaxBoots` bound the
  run. A write that fails is taken to have erased the slot or torn it, as the erasure built into
  it does: `check_crc` compares no number and would take the old record for the new one. The proofs are for rings of any size and do not use the bounds.
* IapUpdate: two sizes, so that the words `own_flash_erase` looks at miss the rest of
  a longer or shorter old file; with and without the tag; at most three faults
  in a behaviour (enough to damage the description and both parts of a short file), any number of updates and resets.
* CanUpdate: four blocks of three packets, so that the words looked at before an erasure (first,
  middle, last) leave a block between them; three losses, power cuts or erasures cut short in
  a behaviour, which is enough to break an update off, have the erasure after it
  skipped over old data, and lose an answer; any number of updates. The flash begins
  erased or with another program.

`CHECK_DEADLOCK FALSE` is set where a bound stops the environment (messages, blocks,
records); the other runs check deadlock.

Fairness: `ad` waits for its semaphore with a timeout of 5 ms, so it runs whether
the conversion is reported or not; `logic` sleeps 10 ms (`rt_thread_delay`) and never
blocks on anything else (WF of `Ad` and of `StateControl`). The receive thread waits for
its mailbox with a timeout and only `iap_svr` and `ad` go before it (WF). `can_s_tx` and
`can_tx` run when they have something to do, a working bus sends what waits, and a
controller recovers (WF). `console` and
`fst` run in the delays of `logic`, which come again and again (SF). In
`IapUpdate` and `CanUpdate` the host goes on with what it began and answers time out (WF), and losses
are bounded. Nobody is assumed to give orders or to begin an update.

## 5. Proofs

Every invariant and every action property of the passing runs is a theorem, and so is the
refinement of `PowerStage`; of liveness, what happens without counting is. `PROJECT.json` lists them. The proofs assume what the modules name and what
a theorem says itself:

* `ConstantsAssumption` and `TimersAssumption` (ThreeLevel): any sets of failures, checks, timers,
  any delays and limits; the checks made while running have hold timers of their own, as
  `IOutCheck` and `UCflyCheck` do.
* `PairsAssumption` (HoldChecks), for `FailuresAreSustained` alone: no timer serves more than two
  checks, as in Bat.cpp, where one serves two. With three the first check can count
  one cycle less than the timer; TLC shows it.
* `FanAssumption`, and `TempsAssumption` (temperatures are integers, `int16_t` in DataStruct.h); `AssemblyAssumption`: any number of blocks, of two packets or more.
* `CanRxAssumption`: the mailbox takes as many pointers as the ring has slots, or more.
* `TxAssumption`: any replies, queue and mailboxes; the reply `iap_svr` sends by itself has one
  packet (canApp.cpp:38).
* `ParametersAssumption`, and in each theorem `EarlyOrders = FALSE`: no order before the
  stored blocks are read. Finding 2 is what happens otherwise.
* `StorageAssumption`: rings of any size from two slots. `ReadsAreAsked` also has
  `Span > 1`: in an area with one page for a record the way back over the start of the area
  is a whole record short (flash_storage_at45dbxx.c:284), and the code only reads such areas
  at index 0 (serial_util.c:194, record.c:162, :220).
* `UpdateAssumption`: files of any sizes, the largest of which the flash holds.
  `CanUpdateAssumption`: a file of any number of blocks, of two packets or more.

Each invariant was checked with TLC on the instance of the run, often on a larger
one, before its proof. None of the properties is inductive by itself:

**`ThreeLevelProofs`.** `TypeCorrect`: `TypeInv` adds that `step` names a check while
`Encounter` is under way; without it the failure that is locked would have no type.
`LockedFaultDisablesStage`: `BatControl` disables only if a fault *and* a lock are
reported, and `ResetFaulture` clears the fault and keeps the lock. `LockInv` therefore says in
addition that wherever a lock has lost its fault (`OrphanRests`, `LockRests`) the stage
is off and `logic` is not on the way to switching it on, how far a switching-off has
come (`OffProgress`), and what `logic` knows of the lists (`Reported`).
`SteadyIsWatched`: `FanInv` follows the flag from `Decide` to `FanLogic`, the only place that
changes it: what `On` has switched on was decided with a steady fan, and what a former cycle
left on without one goes through `Off` first.

From `LockInv` the module goes on to the other promises of the stage:

* `OnlyRealReports`, `LocksNeedRepetition`: `CountInv` bounds the times a failure was met
  by the resets, one more for what occurred since the last one; while `ResetFaulture` is under
  way, the failures `ResetList` has just cleared may already have been met again.
* `StopsReachFpga`: `StopInv` names the places of `logic` in which the registers or the
  frame may still be those of a running stage.
* `FaultsClearAtRest`: `KeepInv` ties the keep timer to the stop. The property holds for a keep
  time of zero as well, because a timer that starts runs out in the next cycle at the
  earliest, and by then `ad` has sent the disabled frame.
* `PauseIsKept`: `PauseInv` relates three clocks, the relay, the value `logic` is about to store
  in it, and the cycles the registers have been disabled; and that the two start
  flags differ only inside `On` and `Off`.
* `StageRefinesPowerStage`: each step of `ThreeLevel` is one of `PowerStage` or leaves the
  registers and the lock alone; `ad` alone takes proper steps. It needs `PauseInv` for the mode
  the duties are driven in, and `LockInv` for the latch.
* `HoldTimersAreReset`: while `listLock` is held a stop by `ad` resets nothing; `HoldInv`
  finds the timers at rest as soon as `logic` has passed `offRelays` or goes on to the checks made
  at rest.
* `FailuresAreSustained`: `SustainInv` compares each timer with the history of its checks. A
  timer that runs is not ahead of any of them (`NotAhead`), one for the check that is made
  before the other and one for a check since the last refresh allowed for; and it is not
  behind all of them (`NotBehind`). Every step is one of five kinds (`TimerSteps`). What
  keeps old results out of a new start is `HoldInv`, and, once a lock is reported, that `logic`
  finds the stage off when it wakes (`LockedRests`).

**`FanProofs`.** `FanTypeCorrect`, and `SteadyIsEarned`: as long as HALF was not passed the run
time is the time the relay has been closed. Two liveness properties are proved, for every set of temperatures and orders:
`HotStageCools` (a stage that stays hot ends with the relay of the fan closed, from any state) and `FanComesToRest` (no temperature makes the fan hunt; the three bands up to 40,
up to 50 and above differ in where it settles). Both follow from the fairness of `Spec`
and `CyclesOn`, that a cycle is always possible: the prover has no rule for ENABLED, so the
theorems name it, and TLC finds it true as the absence of deadlock in `fan`. A cycle
assigns every variable and always changes `tick`.

**`CanReceiveProofs`**, the assembly: `TypeCorrect`, `NeverMixed`, `CompleteTaken`. `Inv` relates
the byte count to the packets missed of the current block and the one before (`Counted`),
the buffer to the packets that arrived (`InOrder`, `Filled`), and bounds the misses
(`FewMissed`); the count alone does not say which block its bytes came from.

The whole reception: `HandlesInOrder`, `StaysInStep` for the ring: `RingInv` says that until
an overrun the mailbox holds the slots of the last messages in order (`Awaited`) and
every slot less than a round old its message; the arithmetic is that two
messages less than a round apart have different places. `ReceptionNeverMixes` and
`ReceptionTakesComplete` carry the invariant of the assembly through the composition:
also what an overrun overwrites reaches the byte count as losses and repetitions
(`DisorderInv`).

**`CanTxProofs`.** `AnswersAreWhole`, `AnswersStayInOrder` by `TxInv`: a packet on its way,
being made, queued, in the hand of `can_tx` or in a mailbox, is what `can_s_tx` cuts out of the
reply (`FitInv`); older copies and lower numbers go first (`OrderInv`); the master
has nothing newer than what still comes (`AgeInv`); and each packet of a fair answer continues
what the master has, or its predecessor is still on its way (`WholeInv`).

**`ParametersProofs`.** `ParametersPersist`, `ParametersWereOrdered`, `BothCopiesAgree`.
`PhaseInv` follows the start, when only `logic` sets and clears flags; `CopyInv` the two
copies between comparison and taking over; `StoreInv` says that what is in use is in flash,
or is the last of its kind in the mailbox (`Kept`), or that somebody will still write it
(`Pending`), wherever in a read-modify-write of the flags that somebody is.

**`FlashStorageProofs`.** The search is a recursive function over the turns; what it knows
after k turns is shown by induction over the set of turns: it never leaves the ring or
goes back (`SearchSound`), finds the newest record if fewer erased slots than its patience
lie before it (`SearchFinds`), and stays with the map it began with if nothing is
newer (`SearchStays`). `FlashInv` then says that there is a newest catalog and a newest
number of the records, in RAM or not, around which the numbers in the rings go down
by one a slot (`InOrder`), that the catalog holds a map the records passed less than a lap ago
(`Behind`), and that the erased slots a search from there would meet are at most `blanks`
(`Hidden`), in each of the phases `Off`, `Booting`, `Ready`, `Moving` and `Writing`. From
it: `ReportedIsKept`, `NewestIsFound`, `ReadsAreAsked`; `ReadsAreWithinLap` and `FlashTypeCorrect`
need less.

**`IapProofs`.** `OkIsWhole`, `LossesDoNoHarm`, `ResetsAreSafe` by `IapInv`. There is one request
or one answer on the line, and it belongs to the host's step (`LineInv`): no late answer
is taken for another. In an update nothing was damaged in, the parts in flash are those the
host has an answer for, or one more (`ProgressInv`). A check may succeed for the description of
another file only if the file in flash is whole; what was written since the last `'u'` begins
in the first sector, so that file is the host's (`FirstInv`). `ResetInv` carries what
the check found to the reset.

**`CanUpdateProofs`.** `FileHasArrived` by `ArrivalInv`: in an update nothing went wrong in, the number
of blocks accepted is that of blocks written, and the master is at that block or at the
one before. In the latter case the block it repeats is refused, because neither the buffer
nor `RxIndex` holds the number of its successor: the number that is compared is one
block old, and still the right one.

What the attempts at these proofs corrected:

* `OkMeansWhole` held in the run because two faults are too few: three damage an
  update wholly, and the check then succeeds for the file before. The condition `fileLength > 0`
  says so now, and the run has three faults.
* `MetIffSustained` is false if three checks share a timer; `PairsAssumption` says so.
* `NewestFound` held in the run by its bounds only: a boot that fails to
  save its catalog after a power failure left an erased slot makes the next search
  pass that slot as well. `blanks` counts it now (`cut`), and a saved catalog
  starts the count anew only if nothing was hidden before.
* `ReadsAskedOrNothing` needs `Searchable` too: with more records than the bound of the run
  then had, a boot that found an old record leads to numbers that are in the ring twice.
* `HoldTimersRest` is false if a check made at rest shares a timer with one made
  while running; the code's do not, which `TimersAssumption` now says.
* `HandledInOrder` is false if the ring has more slots than the mailbox has entries, for a
  pointer that finds the mailbox full is dropped; `CanRxAssumption` says so.
* The invariant of `CanAssembly` claimed more of the buffer than holds when packets of a block
  are lost and others repeated, which only the composition does.

Only model-checked is the liveness that is reached by counting: a timer that runs out, a queue
that empties, packets that are sent one by one. For a bound that is a constant this is an
induction over temporal formulas, which the provers can not do, and so are left to TLC:
`FaultIsResolved`, `PersistentFaultLocks`, `EveryMessageHandled`, `LastRequestAnswered`,
`OrderStored`, `UpdateCompletes`, `AttemptEnds`, `OrderMakesFanSteady`.

## 6. Not modelled

Measured values and control laws (floating point), the registers of the peripherals, the
SPI and AT45 drivers below a page write, the terminal, the kernel, the vendor libraries
and Modbus (not in the build). `Bat::CanCheck` is commented out in
`ThreeLevel::Run` and left out. `sys_adj_read` takes a plausible calibration for
implausible and the other way round (record.c:184); the model does what the code does,
and no property speaks of it as no document says which calibration is right.

The fault log (record.c, `push_ad_record`, `start_record_fault`) copies samples once a fault
is seen; nothing acts on the result, and nothing sets the flags `wFaultFlag` and
`rFaultFlag`. `start_record_fault` copies the reported faults as `RefreshCanData` of
`logic` left them in the cycle before, which seldom hold the fault that began the record.
Its hand-over to the flash is that of the parameters, its storage that of `FlashStorage`.

Blocks whose packets come over both CAN ports would meet in the byte count of two
threads of one priority (canApp.cpp:178); `CanReceive` has one port. The frame parser of the
serial line and the commands that only report are not modelled yet. The reading of
`flash_storage_read` by a callback is used by nobody.

## 7. Plan

Done: the stage with its fan and its refinement, hold checks, reception and assembly composed,
transmission, parameters, storage with its readers, both ways of an update; the proofs of
every safety property, of the refinement, and of liveness where nothing is counted (section 5).

Left, in this order:

1. `SerialProtocol`: the frame parser and `get_output_data` as its inverse, and how many
   frames are lost after a damaged one.
2. A second port in `CanReceive`, and the theorems about it with two threads.
3. `FaultLog`: the rotation of the samples around a fault.
