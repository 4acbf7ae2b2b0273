----------------------------- MODULE CanUpdate -----------------------------
(***************************************************************************)
(* Firmware update over CAN (CanApp::IapRx_Deal and iap_svr behind it).  A *)
(* block of the file is sent in packets: the first carries its number, the *)
(* last its length; the data has a CRC of its own.  What the board looks   *)
(* at is not the number of the block it receives but what the buffer held  *)
(* when the first packet came: the number of the block before, or 0 once a *)
(* block was accepted.  So every block but the first is refused once.      *)
(*                                                                         *)
(* The master is not part of the repository.  Each packet is answered with *)
(* a code and the number of blocks accepted; the master waits for the last *)
(* answer and then sends the block of that number, or begins anew after an *)
(* error.  Packets and answers may be lost, the power may fail.            *)
(*                                                                         *)
(* The first block stands for all that lie in the first sector of the      *)
(* flash, behind the description of the file.                              *)
(***************************************************************************)
EXTENDS Naturals

CONSTANTS
    Size,       \* blocks of the file
    Parts,      \* packets of a block (up to 32)
    MaxFaults   \* bound: losses and power cuts

ASSUME CanUpdateAssumption ==
    Size \in Nat \ {0} /\ Parts \in Nat \ {0, 1} /\ MaxFaults \in Nat

VARIABLES
    master,     \* its step, the block and the packet it sends next
    reply,      \* the last answer on its way, or NoReply
    buf,        \* CanBuf.iap_file: the block each packet in it came from
    dataLen,    \* DataLen, in packets
    rxIndex,    \* RxIndex
    fileCnt,    \* file_cnt
    code,       \* iap_reply[0]
    info,       \* new_app_info: "none", "file", "stray"
    fileLength, \* file_length, in blocks
    described,  \* is there a description in flash?
    image,      \* the flash: the block in each place
    hung,       \* is a fault handler in its endless loop?
    early,      \* is rt_tick_get() < 2000?
    sem,        \* sem_reset_cpu
    init,       \* init thread: "take", "wait" (the delay before the reset), "gone"
    faults,     \* number of faults
    damaged     \* history: since the last good description, did the board restart,
                \* was a block left unerased or erased by the init thread, half a
                \* block accepted, or did a message carry a wrong command?

rx == <<buf, dataLen, rxIndex, fileCnt>>
flash == <<described, image>>
service == <<code, info, fileLength, flash, hung>>
reset == <<early, sem, init>>
vars == <<master, reply, rx, service, reset, faults, damaged>>

Packets == 0 .. Parts - 1
Blocks  == 0 .. Size - 1
Blank   == Size        \* zeros in the buffer, erased flash
Garbled == Size + 1
NoReply == [code |-> "none", cnt |-> 0]

Erased == [b \in Blocks |-> Blank]
ErasedUpTo(n) == [b \in Blocks |-> IF b < n THEN Blank ELSE image[b]]
Empty  == [p \in Packets |-> Blank]
Number(content) == IF content[0] = Blank THEN 0 ELSE content[0]

(***************************************************************************)
(* iap_svr, which is done with a message before rt_mb_send returns         *)
(***************************************************************************)
\* own_flash_erase looks at the first, the last and the middle word only.
LooksBlank == ~described /\ image[Size - 1] = Blank /\ image[Size \div 2] = Blank

\* own_flash_write: what is not blank is garbled by any other data.
Programmed(place, b) ==
    [image EXCEPT ![place] = IF @ \in {Blank, b} THEN b ELSE Garbled]

\* set_file_buffer.  A failed write is not reported, and counted; behind the end of
\* the file (fileLength = Size, its bound) any outcome.
WriteFile(good, b) ==
    /\ UNCHANGED <<info, described>>
    /\ \/ ~good /\ code' = "error" /\ UNCHANGED <<image, fileLength>>
       \/ /\ good /\ fileLength = Size
          /\ code' \in {code, "ok"} /\ UNCHANGED <<image, fileLength>>
       \/ /\ good /\ fileLength < Size
          /\ image' = Programmed(fileLength, b) /\ fileLength' = fileLength + 1
          /\ code' = IF image'[fileLength] = b THEN "ok" ELSE code

\* start_update with a block for a description: the CRC of the block is as good as
\* one of a description, the size found in it decides how much is erased.
StrayInfo(good) ==
    /\ IF good THEN /\ info' = "stray" /\ described' = TRUE
                    /\ \E n \in 0 .. Size : image' = ErasedUpTo(n)
               ELSE UNCHANGED <<info, flash>>
    /\ fileLength' = 0
    /\ code' = IF good THEN "ok" ELSE "error"

(***************************************************************************)
(* CanApp::IapRx_Deal                                                      *)
(***************************************************************************)
\* The last byte that was counted is the length of the block; after a loss it is
\* any byte, which may look the same.
LengthFits(n) == {TRUE} \cup (IF n = Parts THEN {} ELSE {FALSE})

\* Faulty NumberFits: the number is not compared.
AnyNumberFits(index) == TRUE

NumberFits(index) == index = fileCnt

\* Faulty Kept: the buffer is also cleared when the block was refused.
NothingKept(accepted, content) == Empty

\* rt_memset after a block was handed over
Kept(accepted, content) == IF accepted THEN Empty ELSE content

\* The command of the message is never set: it is what the heap held there, that
\* of an earlier message or any other value.  With the command of a check iap_svr
\* calls the data of the block as a function, and with that of a description it may
\* read behind the flash: the fault handlers loop for ever and there is no watchdog.
HandOver(content, n) ==
    LET good == n = Parts /\ \A p \in Packets : content[p] = content[0]
    IN \/ WriteFile(good, content[0]) /\ damaged' = (damaged \/ ~good) /\ UNCHANGED hung
       \/ StrayInfo(good) /\ damaged' = TRUE /\ UNCHANGED hung
       \/ UNCHANGED <<code, info, fileLength, flash>> /\ damaged' = TRUE /\ hung' \in BOOLEAN

\* Packet p of block b.
FilePacket(b, p) ==
    LET content == [buf EXCEPT ![p] = b]
        index   == IF p = 0 THEN Number(buf) ELSE rxIndex
        n       == IF p = 0 THEN 1 ELSE dataLen + 1
    IN  /\ rxIndex' = index
        /\ IF p < Parts - 1
           THEN /\ buf' = content /\ dataLen' = n
                /\ UNCHANGED <<fileCnt, service, damaged>>
           ELSE /\ dataLen' = 0
                /\ \E fits \in LengthFits(n) :
                     LET accepted == fits /\ NumberFits(index)
                     IN /\ buf' = Kept(accepted, content)
                        /\ IF accepted
                           THEN fileCnt' = fileCnt + 1 /\ HandOver(content, n)
                           ELSE UNCHANGED <<fileCnt, service, damaged>>

\* CAN_FUNC_IAP_INFO and start_update.
InfoBlock(good) ==
    /\ fileCnt' = 0 /\ fileLength' = 0
    /\ IF good
       THEN /\ info' = "file" /\ described' = TRUE
            /\ image' = IF LooksBlank THEN image ELSE Erased
            /\ damaged' = \E b \in Blocks : image'[b] # Blank
       ELSE UNCHANGED <<info, flash, damaged>>
    /\ code' = IF good THEN "ok" ELSE "error"
    /\ UNCHANGED <<buf, dataLen, rxIndex, hung>>

Whole == info = "file" /\ \A b \in Blocks : image[b] = b

\* CAN_FUNC_IAP_CHECK and check_updated.  Size + 1 bounds the count.
CheckBlock ==
    /\ fileCnt' = IF fileCnt > Size THEN fileCnt ELSE fileCnt + 1
    /\ code' = IF early \/ Whole THEN "ok" ELSE "error"
    /\ sem' = (sem \/ code' = "ok")
    /\ UNCHANGED <<buf, dataLen, rxIndex, info, fileLength, flash, hung, damaged>>

(***************************************************************************)
(* The init thread                                                         *)
(***************************************************************************)
\* The thread looks for the tag "DCDC", which a file may carry or not; without it
\* the first sector is erased and the thread ends.
InitTake ==
    /\ ~hung /\ sem /\ init = "take"
    /\ sem' = FALSE
    /\ \/ image[0] # Blank /\ init' = "wait" /\ UNCHANGED <<flash, damaged>>
       \/ /\ init' = "gone"
          /\ described' = FALSE /\ image' = ErasedUpTo(1) /\ damaged' = TRUE
    /\ UNCHANGED <<master, reply, rx, code, info, fileLength, hung, early, faults>>

\* What a start finds: the flash only.
Start ==
    /\ buf' = Empty /\ dataLen' = 0 /\ rxIndex' = 0 /\ fileCnt' = 0
    /\ code' = "ok" /\ info' = "none" /\ fileLength' = 0 /\ hung' = FALSE
    /\ early' = TRUE /\ sem' = FALSE /\ init' = "take" /\ damaged' = TRUE
    /\ UNCHANGED reply

\* NVIC_SystemReset after a second
Reset ==
    /\ ~hung /\ init = "wait"
    /\ Start /\ UNCHANGED <<master, flash, faults>>

(***************************************************************************)
(* The master and the bus                                                  *)
(***************************************************************************)
Awaits == master.packet = Parts

\* A block of another kind is one packet for the model: the last.
Sending == ~Awaits /\ master.step # "rest"
After   == [master EXCEPT !.packet = IF master.step = "file" THEN @ + 1 ELSE Parts]

\* Every packet received is answered, with what the board knows by then.
Send ==
    /\ Sending /\ ~hung
    /\ master' = After
    /\ CASE master.step = "file"  -> FilePacket(master.next, master.packet)
         [] master.step = "info"  -> InfoBlock(TRUE)
         [] master.step = "check" -> CheckBlock
    /\ reply' = IF hung' THEN reply ELSE [code |-> code', cnt |-> fileCnt']
    /\ master.step # "check" => UNCHANGED sem
    /\ UNCHANGED <<early, init, faults>>

\* A board that hangs answers nothing.
SendInVain ==
    /\ Sending /\ hung
    /\ master' = After
    /\ UNCHANGED <<reply, rx, service, reset, faults, damaged>>

Begun(step, n) == [step |-> step, next |-> n, packet |-> 0]

Answer ==
    /\ Awaits /\ reply # NoReply /\ reply' = NoReply
    /\ master' = IF reply.code = "error" THEN Begun("info", 0)
                 ELSE IF master.step = "check" THEN Begun("rest", 0)
                 ELSE IF reply.cnt >= Size THEN Begun("check", 0)
                 ELSE Begun("file", reply.cnt)
    /\ UNCHANGED <<rx, service, reset, faults, damaged>>

\* No answer: the block is sent again.
Timeout ==
    /\ Awaits /\ reply = NoReply
    /\ master' = [master EXCEPT !.packet = 0]
    /\ UNCHANGED <<reply, rx, service, reset, faults, damaged>>

BeginUpdate ==
    /\ master.step = "rest"
    /\ master' = Begun("info", 0)
    /\ UNCHANGED <<reply, rx, service, reset, faults, damaged>>

Tick ==
    /\ ~hung /\ early /\ early' = FALSE
    /\ UNCHANGED <<master, reply, rx, service, sem, init, faults, damaged>>

\* Half a description: the last packet still ends it, what it finds in the buffer may
\* be the rest of the same one; or the first packet alone, which waits for the rest.
LosePacket ==
    /\ Sending /\ master' = After
    /\ \/ UNCHANGED <<rx, service, reply, damaged>>
       \/ /\ master.step = "info" /\ ~hung
          /\ \E good \in BOOLEAN : InfoBlock(good)
          /\ reply' = [code |-> code', cnt |-> fileCnt']
    /\ UNCHANGED reset

LoseReply ==
    /\ reply # NoReply /\ reply' = NoReply
    /\ UNCHANGED <<master, rx, service, reset, damaged>>

PowerCut == Start /\ UNCHANGED <<master, flash>>

\* The power fails inside the erasure: some sectors are erased, the next one may
\* hold anything.
CutErasure ==
    /\ Sending /\ master.step = "info" /\ ~hung /\ ~LooksBlank
    /\ master' = After /\ described' = FALSE
    /\ \E n \in 1 .. Size :
         image' \in {ErasedUpTo(n), [ErasedUpTo(n) EXCEPT ![n - 1] = Garbled]}
    /\ Start

Fault == /\ faults < MaxFaults /\ faults' = faults + 1
         /\ LosePacket \/ LoseReply \/ PowerCut \/ CutErasure

Init ==
    /\ master = Begun("rest", 0) /\ reply = NoReply
    /\ buf = Empty /\ dataLen = 0 /\ rxIndex = 0 /\ fileCnt = 0
    /\ code = "ok" /\ info = "none" /\ fileLength = 0 /\ hung = FALSE
    /\ \/ image = Erased /\ described = FALSE
       \/ image = [b \in Blocks |-> Garbled] /\ described = TRUE
    /\ early = TRUE /\ sem = FALSE /\ init = "take" /\ faults = 0 /\ damaged = TRUE

Next ==
    \/ Send \/ SendInVain \/ Answer \/ Timeout \/ BeginUpdate
    \/ InitTake \/ Reset \/ Tick
    \/ Fault

Spec == Init /\ [][Next]_vars

\* The master goes on with what it has begun; the board answers at once.
FairSpec == Spec /\ WF_vars(Send) /\ WF_vars(Answer) /\ WF_vars(Timeout)

(***************************************************************************)
(* Properties                                                              *)
(***************************************************************************)
\* The number that is compared is that of the block before, yet whatever packets
\* and answers are lost, each block is stored once and in its place: the check is
\* answered with 0x0 if every command happened to be right, the board did not
\* restart, the erasure was not skipped over old data (own_flash.c:72) and the init
\* thread did not erase the file for its missing tag (application.c:100).
FileArrives ==
    [][(Send /\ master.step = "check" /\ ~damaged) => code' = "ok"]_vars

\* An attempt to send the file ends, in the check or in an error: every block is
\* accepted when it comes the second time, also after an attempt that was broken
\* off in the middle of a block.  Unless iap_svr called the data of a block as a
\* function: then the board hangs and nothing but a power cycle ends it.
AttemptEnds == (master.step = "file") ~> (master.step # "file" \/ hung)
=============================================================================
