----------------------------- MODULE IapUpdate -----------------------------
(***************************************************************************)
(* Firmware update over the serial line: the console thread takes the      *)
(* requests of the host computer ('u', 'f' and 0xcc in serial_util.c) and  *)
(* hands them to iap_svr, which has the highest priority and is done with  *)
(* a request before rt_mb_send returns (iap_service.c, update_app.c).  A   *)
(* successful check wakes the init thread, which resets the processor      *)
(* (application.c).  Requests and answers may be lost, a damaged request   *)
(* may pass the 8-bit checksum of the line, the power may fail.            *)
(*                                                                         *)
(* A part of the file stands for all its blocks that go into one sector    *)
(* of the flash; the description of the file lies in the first sector.     *)
(***************************************************************************)
EXTENDS Naturals

CONSTANTS
    Sizes,      \* sizes of the files, in parts
    MaxFaults   \* bound: losses, damages and power cuts

ASSUME UpdateAssumption ==
    /\ Sizes \subseteq Nat \ {0}
    /\ \E n \in Sizes : \A s \in Sizes : s <= n
    /\ MaxFaults \in Nat

VARIABLES
    host,       \* the host: its step, file, next part, and whether it awaits an answer
    request,    \* the request on the line
    reply,      \* the answer on the line
    info,       \* new_app_info, a file or NoFile
    fileLength, \* file_length, in parts
    fileIndex,  \* file_write_index
    stored,     \* the description in flash
    cells,      \* the parts in flash
    sem,        \* has sem_reset_cpu been released?
    init,       \* init thread: "take", "wait" (the delay before the reset), "gone"
    early,      \* is rt_tick_get() < 2000?
    faults,     \* number of faults
    damaged,    \* history: since the last 'u', was a request damaged, the board
                \* restarted, a part left unerased or erased by the init thread?
    blind,      \* history: was the check that released the semaphore early?
    again       \* history: was a 'u' or an 'f' handled after the semaphore's release?

board == <<info, fileLength, fileIndex>>
flash == <<stored, cells>>
history == <<damaged, blind, again>>
vars == <<host, request, reply, board, flash, sem, init, early, faults, history>>

MaxSize == CHOOSE n \in Sizes : \A s \in Sizes : s <= n
Places == 0 .. MaxSize - 1

\* A file: its size and whether it carries the tag "DCDC" of this product.
Files == [size : Sizes, tag : BOOLEAN]
NoFile == [size |-> 0, tag |-> FALSE]

Part(f, k) == [of |-> f, part |-> k]
Blank == Part(NoFile, 0)   \* 0xffffffff
Garbled == Part(NoFile, 1)

NoRequest == [cmd |-> "none", file |-> NoFile, part |-> 0, ok |-> TRUE]

\* The whole file f is in flash.
Whole(f) == f # NoFile /\ \A k \in 0 .. f.size - 1 : cells[k] = Part(f, k)

(***************************************************************************)
(* The host                                                                *)
(***************************************************************************)
HostSend ==
    /\ host.step # "rest" /\ ~host.awaits
    /\ request' = [cmd |-> host.step, file |-> host.file, part |-> host.next, ok |-> TRUE]
    /\ host' = [host EXCEPT !.awaits = TRUE]
    /\ UNCHANGED <<reply, board, flash, sem, init, early, faults, history>>

\* No answer: the request is sent again.
HostTimeout ==
    /\ host.awaits /\ request = NoRequest /\ reply = "none"
    /\ host' = [host EXCEPT !.awaits = FALSE]
    /\ UNCHANGED <<request, reply, board, flash, sem, init, early, faults, history>>

Started(f) == [step |-> "info", file |-> f, next |-> 0, awaits |-> FALSE]

\* An error begins the update anew, with the same file or another.
HostAnswer ==
    /\ reply # "none" /\ reply' = "none"
    /\ IF reply = "error"
       THEN \E f \in Files : host' = Started(f)
       ELSE host' = CASE host.step = "info" -> [host EXCEPT !.step = "file", !.awaits = FALSE]
                      [] host.step = "file" ->
                            [host EXCEPT !.next = @ + 1, !.awaits = FALSE,
                                         !.step = IF host.next + 1 = host.file.size
                                                  THEN "check" ELSE "file"]
                      [] OTHER -> [step |-> "rest", file |-> NoFile, next |-> 0,
                                   awaits |-> FALSE]
    /\ UNCHANGED <<request, board, flash, sem, init, early, faults, history>>

HostBegin ==
    /\ host.step = "rest"
    /\ \E f \in Files : host' = Started(f)
    /\ UNCHANGED <<request, reply, board, flash, sem, init, early, faults, history>>

(***************************************************************************)
(* The board                                                               *)
(***************************************************************************)
\* own_flash_erase looks at the first, the last and the middle word only.
LooksBlank(f) ==
    stored = NoFile /\ cells[f.size - 1] = Blank /\ cells[f.size \div 2] = Blank

\* Faulty CellsErased: the first sector only.
OneCellErased(f) == IF LooksBlank(f) THEN cells ELSE [cells EXCEPT ![0] = Blank]

CellsErased(f) ==
    IF LooksBlank(f) THEN cells ELSE [k \in Places |-> IF k < f.size THEN Blank ELSE cells[k]]

\* own_flash_write: what is not blank is garbled by any other data.
Programmed(k, data) ==
    [cells EXCEPT ![k] = IF @ = Blank \/ @ = data THEN data ELSE Garbled]

\* 'u': start_update.  A description with a wrong CRC is reported over CAN only.
Info ==
    /\ request.cmd = "info"
    /\ fileIndex' = 0 /\ fileLength' = 0
    /\ IF request.ok
       THEN /\ info' = request.file
            /\ stored' = request.file
            /\ cells' = CellsErased(request.file)
            /\ damaged' = \E k \in 0 .. request.file.size - 1 : cells'[k] # Blank
       ELSE UNCHANGED <<info, flash>> /\ damaged' = TRUE
    /\ reply' = "ok"
    /\ again' = (again \/ sem \/ init = "wait")
    /\ UNCHANGED <<sem, blind>>

\* Faulty Accepts: a part that comes again is written again.
AcceptsRepeated == request.part <= fileIndex

Accepts == request.part = fileIndex

\* set_file_buffer: a block with a wrong CRC is reported over CAN only.
SetFileBuffer ==
    IF request.ok
    THEN /\ fileLength' = fileLength + 1
         /\ cells' = Programmed(fileLength, Part(request.file, request.part))
    ELSE UNCHANGED <<fileLength, cells>>

\* 'f'
File ==
    /\ request.cmd = "file"
    /\ IF Accepts
       THEN /\ fileIndex' = fileIndex + 1 /\ SetFileBuffer
            /\ damaged' = (damaged \/ ~request.ok)
       ELSE UNCHANGED <<fileIndex, fileLength, cells, damaged>>
    /\ reply' = IF request.part <= fileIndex THEN "ok" ELSE "error"
    /\ again' = (again \/ sem \/ init = "wait")
    /\ UNCHANGED <<info, stored, sem, blind>>

\* Faulty CheckUpdated: the size is tested, the CRC is not.
SizeCheckUpdated == early \/ info # NoFile

\* check_updated
CheckUpdated == early \/ Whole(info)

\* Faulty Releases: the semaphore is released whatever the check found.
AlwaysReleases == TRUE

Releases == CheckUpdated

\* 0xcc
Check ==
    /\ request.cmd = "check"
    /\ fileIndex' = 0
    /\ reply' = IF CheckUpdated THEN "ok" ELSE "error"
    /\ sem' = (sem \/ Releases)
    /\ IF sem \/ init = "wait"
       THEN UNCHANGED <<blind, again>>
       ELSE blind' = early /\ again' = FALSE
    /\ UNCHANGED <<info, fileLength, flash, damaged>>

\* The init thread goes before the console, except in its own delay at the start.
Preempted == sem /\ init = "take" /\ ~early

Handle ==
    /\ request # NoRequest /\ reply = "none" /\ ~Preempted
    /\ Info \/ File \/ Check
    /\ request' = NoRequest
    /\ UNCHANGED <<host, init, early, faults>>

\* The init thread looks for the tag; without it the first sector is erased and
\* the thread ends.
InitTake ==
    /\ sem /\ init = "take"
    /\ sem' = FALSE
    /\ IF cells[0].of.tag
       THEN init' = "wait" /\ UNCHANGED <<flash, damaged>>
       ELSE /\ init' = "gone"
            /\ stored' = NoFile /\ cells' = [cells EXCEPT ![0] = Blank]
            /\ damaged' = TRUE
    /\ UNCHANGED <<host, request, reply, board, early, faults, blind, again>>

\* What a start finds: the flash only.
Start ==
    /\ info' = NoFile /\ fileLength' = 0 /\ fileIndex' = 0
    /\ sem' = FALSE /\ init' = "take" /\ early' = TRUE
    /\ damaged' = TRUE /\ again' = FALSE
    /\ UNCHANGED <<host, reply, blind>>

\* NVIC_SystemReset after a second
Reset ==
    /\ init = "wait"
    /\ Start /\ UNCHANGED <<request, flash, faults>>

\* Two seconds have passed since the start.
Tick ==
    /\ early /\ early' = FALSE
    /\ UNCHANGED <<host, request, reply, board, flash, sem, init, faults, history>>

(***************************************************************************)
(* Faults                                                                  *)
(***************************************************************************)
LoseRequest ==
    /\ request # NoRequest /\ request' = NoRequest
    /\ UNCHANGED <<reply, board, flash, sem, init, early, history>>

LoseReply ==
    /\ reply # "none" /\ reply' = "none"
    /\ UNCHANGED <<request, board, flash, sem, init, early, history>>

\* Only the data is damaged, and only where a CRC of its own is kept.
DamageRequest ==
    /\ request.cmd \in {"info", "file"} /\ request.ok
    /\ request' = [request EXCEPT !.ok = FALSE]
    /\ UNCHANGED <<reply, board, flash, sem, init, early, history>>

\* The power fails inside the erasure for a 'u': some sectors are erased, the next
\* one may hold anything.
CutErasure ==
    LET f == request.file
    IN /\ request.cmd = "info" /\ request.ok /\ ~LooksBlank(f)
       /\ stored' = NoFile
       /\ \E n \in 1 .. f.size :
            LET erased == [k \in Places |-> IF k < n THEN Blank ELSE cells[k]]
            IN cells' \in {erased, [erased EXCEPT ![n - 1] = Garbled]}
       /\ Start /\ request' = NoRequest

Fault ==
    /\ faults < MaxFaults /\ faults' = faults + 1
    /\ \/ (LoseRequest \/ LoseReply \/ DamageRequest) /\ UNCHANGED host
       \/ Start /\ UNCHANGED <<request, flash>>
       \/ CutErasure

Init ==
    /\ host = [step |-> "rest", file |-> NoFile, next |-> 0, awaits |-> FALSE]
    /\ request = NoRequest /\ reply = "none"
    /\ info = NoFile /\ fileLength = 0 /\ fileIndex = 0
    /\ stored = NoFile /\ cells = [k \in Places |-> Blank]
    /\ sem = FALSE /\ init = "take" /\ early = TRUE
    /\ faults = 0 /\ damaged = TRUE /\ blind = FALSE /\ again = FALSE

Next ==
    \/ HostSend \/ HostTimeout \/ HostAnswer \/ HostBegin
    \/ Handle \/ InitTake \/ Reset \/ Tick
    \/ Fault

Spec == Init /\ [][Next]_vars

\* The host goes on with an update it has begun, the board answers, time passes.
FairSpec ==
    /\ Spec
    /\ WF_vars(HostSend) /\ WF_vars(HostTimeout) /\ WF_vars(HostAnswer)
    /\ WF_vars(Handle) /\ WF_vars(InitTake) /\ WF_vars(Reset) /\ WF_vars(Tick)

(***************************************************************************)
(* Properties                                                              *)
(***************************************************************************)
\* A file the board reports as good is in flash, whole and the one the host sent,
\* though losses, damages and power cuts are answered with 0x0 on the way.  But a
\* check in the two seconds after a start compares nothing (update_app.c:80), and
\* if the description and every part of it were damaged, fileLength is zero and the
\* check is made of the file before.
OkMeansWhole ==
    [][(Handle /\ request.cmd = "check" /\ reply' = "ok" /\ ~early /\ fileLength > 0) =>
            Whole(request.file)]_vars

\* Requests and answers that are only lost, and requests that are repeated for
\* it, do no harm: the check of such an update is answered with 0x0.  A restart in
\* between does harm: if the answer to a check is lost, and the check comes again
\* after the reset it led to, new_app_info is empty and the answer is an error.
LossesAreHarmless ==
    [][(Handle /\ request.cmd = "check" /\ ~damaged) => reply' = "ok"]_vars

\* The processor is reset only into a file that is whole and carries the tag,
\* unless the check was early or another update was begun within the second
\* between the check and the reset.
ResetIntoWhole ==
    [][Reset => (Whole(stored) /\ stored.tag) \/ blind \/ again]_vars

\* However many attempts were broken off, an update that is begun again and again
\* ends with the board's consent once the faults have ended: every attempt starts
\* from an erased flash in the end, although own_flash_erase looks at three words.
UpdateCompletes == (host.step # "rest") ~> (host.step = "rest")
=============================================================================
