------------------------------ MODULE IapProofs ------------------------------
(* The update over the serial line, for files of any sizes and any number of *)
(* losses, damages and power failures.                                       *)
EXTENDS IapUpdate, TLAPS

(***************************************************************************)
(* Types                                                                   *)
(***************************************************************************)
Steps    == {"info", "file", "check"}
Cells    == [of : Files \cup {NoFile}, part : Nat]
Requests == [cmd : Steps, file : Files, part : Nat, ok : BOOLEAN]

IapTypeOK ==
    /\ host \in [step : Steps \cup {"rest"}, file : Files \cup {NoFile}, next : Nat,
                 awaits : BOOLEAN]
    /\ host.step # "rest" => host.file \in Files
    /\ request \in Requests \cup {NoRequest} /\ reply \in {"none", "ok", "error"}
    /\ info \in Files \cup {NoFile} /\ stored \in Files \cup {NoFile}
    /\ fileLength \in Nat /\ fileIndex \in Nat
    /\ cells \in [Places -> Cells]
    /\ sem \in BOOLEAN /\ init \in {"take", "wait", "gone"} /\ early \in BOOLEAN
    /\ damaged \in BOOLEAN /\ blind \in BOOLEAN /\ again \in BOOLEAN

(***************************************************************************)
(* The line: one request or one answer, and it belongs to the host's step. *)
(***************************************************************************)
LineInv ==
    /\ request # NoRequest =>
        /\ host.awaits /\ reply = "none"
        /\ request.cmd = host.step /\ request.file = host.file /\ request.part = host.next
    /\ reply # "none" => host.awaits /\ host.step # "rest" /\ request = NoRequest
    /\ host.step = "info" => reply # "error" /\ host.next = 0
    /\ host.step = "rest" => ~host.awaits

(***************************************************************************)
(* The first part                                                          *)
(***************************************************************************)
\* The host has been told that the update it is at has begun.
Begun == host.step \in {"file", "check"}

\* What was written since then begins in the first sector.
FirstInv ==
    /\ Begun /\ fileLength > 0 =>
        cells[0] \in {Blank, Garbled} \/ cells[0].of = host.file
    /\ host.step = "info" /\ reply # "none" => fileLength = 0

(***************************************************************************)
(* An update nothing was damaged in                                        *)
(***************************************************************************)
\* The first n parts of the file f are in flash, the others are erased.
Stored(f, n) ==
    /\ info = f /\ n <= f.size
    /\ \A k \in 0 .. f.size - 1 : cells[k] = IF k < n THEN Part(f, k) ELSE Blank

Counted(n) == fileLength = n /\ fileIndex = n /\ Stored(host.file, n)

\* The host repeats a part whose answer was lost.
ProgressInv ==
    ~damaged =>
        /\ host.step = "info" /\ reply # "none" => Counted(0)
        /\ host.step = "file" =>
            /\ host.next < host.file.size
            /\ Counted(host.next + 1) \/ (Counted(host.next) /\ reply = "none")
            /\ reply # "error"
        /\ host.step = "check" => Stored(host.file, host.file.size)

(***************************************************************************)
(* The way to the reset                                                    *)
(***************************************************************************)
\* A check that compared released the semaphore, and nothing has come since.
ResetInv ==
    /\ info # NoFile /\ init # "gone" => stored = info
    /\ (sem \/ init = "wait") /\ ~blind /\ ~again /\ init # "gone" => Whole(info)
    /\ init = "wait" /\ ~blind /\ ~again => info.tag

IapInv == IapTypeOK /\ LineInv /\ FirstInv /\ ProgressInv /\ ResetInv

(***************************************************************************)
(* Types are kept                                                          *)
(***************************************************************************)
LEMMA FileTypes ==
    /\ NoFile \notin Files
    /\ \A f \in Files : f.size \in Nat \ {0} /\ f.tag \in BOOLEAN /\ 0 .. f.size - 1 \subseteq Places
    /\ 0 \in Places
<1>1. PICK n \in Sizes : \A s \in Sizes : s <= n
    BY UpdateAssumption
<1>2. MaxSize \in Sizes /\ \A s \in Sizes : s <= MaxSize
    BY <1>1 DEF MaxSize
<1>3. Sizes \subseteq Nat \ {0}
    BY UpdateAssumption
<1>4. ASSUME NEW f \in Files
      PROVE  /\ f # NoFile /\ f.size \in Nat \ {0} /\ f.tag \in BOOLEAN
             /\ 0 .. f.size - 1 \subseteq Places
  <2>1. f.size \in Sizes /\ f.tag \in BOOLEAN
      BY DEF Files
  <2>2. NoFile.size = 0
      BY DEF NoFile
  <2>3. f.size \in Nat \ {0} /\ MaxSize \in Nat /\ f.size <= MaxSize
      BY <1>2, <1>3, <2>1
  <2>4. 0 .. f.size - 1 \subseteq Places
      BY <2>3 DEF Places
  <2> QED
      BY <2>1, <2>2, <2>3, <2>4
<1> QED
    BY <1>2, <1>3, <1>4 DEF Places

LEMMA PartTypes ==
    /\ \A f \in Files \cup {NoFile}, k \in Nat : Part(f, k) \in Cells
    /\ Blank \in Cells /\ Garbled \in Cells /\ Blank # Garbled
    /\ \A f \in Files, k \in Nat : Part(f, k) # Blank /\ Part(f, k) # Garbled
    /\ \A f, k : Part(f, k).of = f
<1>1. NoFile \notin Files
    BY FileTypes
<1> QED
    BY <1>1 DEF Part, Blank, Garbled, Cells

\* What the operations on the flash leave in it.
LEMMA FlashTypes ==
    ASSUME IapTypeOK, NEW f \in Files, NEW p \in Nat
    PROVE  /\ CellsErased(f) \in [Places -> Cells]
           /\ Programmed(fileLength, Part(f, p)) \in [Places -> Cells]
<1>1. cells \in [Places -> Cells]
    BY DEF IapTypeOK
<1>2. CellsErased(f) \in [Places -> Cells]
    BY <1>1, PartTypes DEF CellsErased
<1>3. Programmed(fileLength, Part(f, p)) \in [Places -> Cells]
    BY <1>1, PartTypes DEF Programmed
<1> QED
    BY <1>2, <1>3

LEMMA RequestTypes ==
    /\ NoRequest \notin Requests /\ NoRequest.cmd = "none"
    /\ \A r \in Requests : /\ r.cmd \in Steps /\ r.file \in Files /\ r.part \in Nat
                           /\ r.ok \in BOOLEAN
<1>1. NoRequest.cmd = "none"
    BY DEF NoRequest
<1>2. \A r \in Requests : r.cmd \in Steps
    BY DEF Requests
<1>3. NoRequest \notin Requests
    BY <1>1, <1>2 DEF Steps
<1> QED
    BY <1>1, <1>3 DEF Requests

LEMMA IapTypeInit == Init => IapTypeOK
<1> SUFFICES ASSUME Init PROVE IapTypeOK
    OBVIOUS
<1>1. host \in [step : Steps \cup {"rest"}, file : Files \cup {NoFile}, next : Nat,
                awaits : BOOLEAN]
    BY DEF Init
<1>2. cells \in [Places -> Cells]
    BY PartTypes DEF Init
<1> QED
    BY <1>1, <1>2 DEF Init, IapTypeOK

\* The four fields of the host.
HostTypeOK(h) ==
    /\ h \in [step : Steps \cup {"rest"}, file : Files \cup {NoFile}, next : Nat,
              awaits : BOOLEAN]
    /\ h.step # "rest" => h.file \in Files

LEMMA HostSteps ==
    ASSUME IapTypeOK, HostSend \/ HostTimeout \/ HostAnswer \/ HostBegin
    PROVE  HostTypeOK(host')
<1>1. host = [step |-> host.step, file |-> host.file, next |-> host.next, awaits |-> host.awaits]
      /\ host.step \in Steps \cup {"rest"} /\ host.file \in Files \cup {NoFile}
      /\ host.next \in Nat /\ host.awaits \in BOOLEAN
      /\ host.file.size = host.file.size
      /\ (host.step # "rest" => host.file \in Files)
    BY DEF IapTypeOK
<1>2. ASSUME NEW f \in Files PROVE HostTypeOK(Started(f))
    BY DEF HostTypeOK, Started, Steps
<1>3. CASE HostSend
    BY <1>1, <1>2, <1>3 DEF HostSend, HostTypeOK
<1>4. CASE HostTimeout
    BY <1>1, <1>2, <1>4 DEF HostTimeout, HostTypeOK
<1>5. CASE HostBegin
    BY <1>1, <1>2, <1>5 DEF HostBegin
<1>6. CASE HostAnswer
  <2>1. CASE reply = "error"
      BY <1>2, <1>6, <2>1 DEF HostAnswer
  <2>2. CASE reply # "error" /\ host.step = "info"
    <3>1. host' = [host EXCEPT !.step = "file", !.awaits = FALSE]
        BY <1>6, <2>2 DEF HostAnswer
    <3>2. host' = [step |-> "file", file |-> host.file, next |-> host.next,
                   awaits |-> FALSE]
        BY <1>1, <3>1
    <3> QED
        BY <1>1, <2>2, <3>2 DEF HostTypeOK, Steps
  <2>3. CASE reply # "error" /\ host.step = "file"
    <3>1. host' = [host EXCEPT !.next = @ + 1, !.awaits = FALSE,
                               !.step = IF host.next + 1 = host.file.size
                                        THEN "check" ELSE "file"]
        BY <1>6, <2>3 DEF HostAnswer
    <3>2. \E s \in {"check", "file"} :
             host' = [step |-> s, file |-> host.file, next |-> host.next + 1,
                      awaits |-> FALSE]
        BY <1>1, <3>1
    <3> QED
        BY <1>1, <2>3, <3>2 DEF HostTypeOK, Steps
  <2>4. CASE reply # "error" /\ host.step \notin {"info", "file"}
    <3>1. host' = [step |-> "rest", file |-> NoFile, next |-> 0, awaits |-> FALSE]
        BY <1>6, <2>4 DEF HostAnswer
    <3> QED
        BY <3>1 DEF HostTypeOK
  <2> QED
      BY <2>1, <2>2, <2>3, <2>4
<1> QED
    BY <1>3, <1>4, <1>5, <1>6

\* What a request may be when the board handles it.
LEMMA Handled ==
    ASSUME IapTypeOK, LineInv, Handle
    PROVE  /\ request \in Requests /\ request.file \in Files /\ request.part \in Nat
           /\ request.ok \in BOOLEAN /\ request.cmd \in Steps
           /\ host.step = request.cmd /\ host.file = request.file /\ host.next = request.part
           /\ host.awaits /\ reply = "none" /\ reply' \in {"ok", "error"}
           /\ request' = NoRequest
           /\ UNCHANGED <<host, init, early>>
<1>1. request # NoRequest /\ request' = NoRequest /\ UNCHANGED <<host, init, early>>
    BY DEF Handle
<1>2. request \in Requests
    BY <1>1 DEF IapTypeOK
<1>3. reply' \in {"ok", "error"}
    BY DEF Handle, Info, File, Check
<1> QED
    BY <1>1, <1>2, <1>3, RequestTypes DEF LineInv

LEMMA InfoTypes ==
    ASSUME IapTypeOK, request.file \in Files, Info
    PROVE  /\ info' \in Files \cup {NoFile} /\ stored' \in Files \cup {NoFile}
           /\ fileLength' = 0 /\ fileIndex' = 0 /\ cells' \in [Places -> Cells]
           /\ sem' \in BOOLEAN /\ damaged' \in BOOLEAN /\ blind' \in BOOLEAN
           /\ again' \in BOOLEAN
<1>1. fileLength' = 0 /\ fileIndex' = 0 /\ UNCHANGED <<sem, blind>>
      /\ again' = (again \/ sem \/ init = "wait")
    BY DEF Info
<1>2. CASE request.ok
  <2>1. info' = request.file /\ stored' = request.file /\ cells' = CellsErased(request.file)
        /\ damaged' = \E k \in 0 .. request.file.size - 1 : cells'[k] # Blank
      BY <1>2 DEF Info
  <2>2. cells' \in [Places -> Cells]
      BY <2>1, FlashTypes
  <2>3. damaged' \in BOOLEAN
      BY <2>1
  <2> QED
      BY <1>1, <2>1, <2>2, <2>3 DEF IapTypeOK
<1>3. CASE ~request.ok
    BY <1>1, <1>3 DEF Info, flash, IapTypeOK
<1> QED
    BY <1>2, <1>3

LEMMA FileTypesKept ==
    ASSUME IapTypeOK, request.file \in Files, request.part \in Nat, request.ok \in BOOLEAN, File
    PROVE  /\ fileLength' \in Nat /\ fileIndex' \in Nat /\ cells' \in [Places -> Cells]
           /\ damaged' \in BOOLEAN /\ again' \in BOOLEAN
           /\ UNCHANGED <<info, stored, sem, blind>>
<1>1. UNCHANGED <<info, stored, sem, blind>> /\ again' = (again \/ sem \/ init = "wait")
    BY DEF File
<1>2. fileLength' \in Nat /\ fileIndex' \in Nat /\ cells' \in [Places -> Cells]
  <2>1. CASE Accepts /\ request.ok
    <3>1. /\ fileIndex' = fileIndex + 1 /\ fileLength' = fileLength + 1
          /\ cells' = Programmed(fileLength, Part(request.file, request.part))
        BY <2>1 DEF File, SetFileBuffer
    <3>2. cells' \in [Places -> Cells]
        BY <3>1, FlashTypes
    <3> QED
        BY <3>1, <3>2 DEF IapTypeOK
  <2>2. CASE Accepts /\ ~request.ok
      BY <2>2 DEF File, SetFileBuffer, IapTypeOK
  <2>3. CASE ~Accepts
      BY <2>3 DEF File, IapTypeOK
  <2> QED
      BY <2>1, <2>2, <2>3
<1>3. damaged' \in BOOLEAN
  <2>1. CASE Accepts
    <3>1. damaged' = (damaged \/ ~request.ok)
        BY <2>1 DEF File
    <3> QED
        BY <3>1
  <2>2. CASE ~Accepts
      BY <2>2 DEF File, IapTypeOK
  <2> QED
      BY <2>1, <2>2
<1> QED
    BY <1>1, <1>2, <1>3

\* A reset, a power cut, and one inside an erasure.
Restart == (Start /\ UNCHANGED <<request, flash>>) \/ CutErasure

LEMMA CutCells ==
    ASSUME IapTypeOK, CutErasure
    PROVE  cells' \in [Places -> Cells]
<1> DEFINE erased(n) == [k \in Places |-> IF k < n THEN Blank ELSE cells[k]]
<1>1. cells \in [Places -> Cells] /\ Blank \in Cells /\ Garbled \in Cells
    BY PartTypes DEF IapTypeOK
<1>2. \A n \in Nat : erased(n) \in [Places -> Cells]
    BY <1>1
<1>3. PICK n \in 1 .. request.file.size :
        cells' \in {erased(n), [erased(n) EXCEPT ![n - 1] = Garbled]}
    BY DEF CutErasure
<1>4. request.file.size \in Nat
  <2>1. request # NoRequest
      BY DEF CutErasure, NoRequest
  <2>2. request.file \in Files
      BY <2>1 DEF IapTypeOK, Requests
  <2> QED
      BY <2>2, FileTypes
<1>5. erased(n) \in [Places -> Cells]
    BY <1>2, <1>4
<1> HIDE DEF erased
<1> QED
    BY <1>1, <1>3, <1>5

LEMMA IapTypeStep == IapTypeOK /\ LineInv /\ [Next]_vars => IapTypeOK'
<1> SUFFICES ASSUME IapTypeOK, LineInv, [Next]_vars PROVE IapTypeOK'
    OBVIOUS
<1>1. CASE HostSend \/ HostTimeout \/ HostAnswer \/ HostBegin
  <2>1. UNCHANGED <<board, flash, sem, init, early, history>>
      BY <1>1 DEF HostSend, HostTimeout, HostAnswer, HostBegin
  <2>2. HostTypeOK(host')
      BY <1>1, HostSteps
  <2>3. request' \in Requests \cup {NoRequest} /\ reply' \in {"none", "ok", "error"}
    <3>1. CASE HostSend
      <4>1. host.step \in Steps /\ host.file \in Files /\ host.next \in Nat
          BY <3>1 DEF HostSend, IapTypeOK
      <4>2. request' = [cmd |-> host.step, file |-> host.file, part |-> host.next, ok |-> TRUE]
          BY <3>1 DEF HostSend
      <4>3. request' \in Requests
          BY <4>1, <4>2 DEF Requests
      <4> QED
          BY <3>1, <4>3 DEF HostSend, IapTypeOK
    <3>2. CASE HostTimeout \/ HostAnswer \/ HostBegin
        BY <3>2 DEF HostTimeout, HostAnswer, HostBegin, IapTypeOK
    <3> QED
        BY <1>1, <3>1, <3>2
  <2> QED
      BY <2>1, <2>2, <2>3 DEF HostTypeOK, IapTypeOK, board, flash, history
<1>2. CASE Handle
  <2>1. request.file \in Files /\ request.part \in Nat /\ request.ok \in BOOLEAN
        /\ reply' \in {"ok", "error"} /\ request' = NoRequest
        /\ UNCHANGED <<host, init, early>>
      BY <1>2, Handled
  <2>2. /\ info' \in Files \cup {NoFile} /\ stored' \in Files \cup {NoFile}
        /\ fileLength' \in Nat /\ fileIndex' \in Nat /\ cells' \in [Places -> Cells]
        /\ sem' \in BOOLEAN /\ damaged' \in BOOLEAN /\ blind' \in BOOLEAN
        /\ again' \in BOOLEAN
    <3>1. CASE Info
        BY <2>1, <3>1, InfoTypes
    <3>2. CASE File
        BY <2>1, <3>2, FileTypesKept DEF IapTypeOK
    <3>3. CASE Check
      <4>1. UNCHANGED <<info, fileLength, stored, cells, damaged>> /\ fileIndex' = 0
          BY <3>3 DEF Check, flash
      <4>2. sem' \in BOOLEAN
          BY <3>3, Zenon DEF Check
      <4>3. blind' \in BOOLEAN /\ again' \in BOOLEAN
        <5>1. CASE sem \/ init = "wait"
            BY <3>3, <5>1 DEF Check, IapTypeOK
        <5>2. CASE ~(sem \/ init = "wait")
            BY <3>3, <5>2 DEF Check, IapTypeOK
        <5> QED
            BY <5>1, <5>2
      <4> QED
          BY <4>1, <4>2, <4>3 DEF IapTypeOK
    <3> QED
        BY <1>2, <3>1, <3>2, <3>3 DEF Handle
  <2> QED
      BY <2>1, <2>2 DEF IapTypeOK
<1>3. CASE InitTake
  <2>1. UNCHANGED <<host, request, reply, board, early, blind, again>> /\ sem' = FALSE
      BY <1>3 DEF InitTake
  <2>2. /\ init' \in {"take", "wait", "gone"} /\ stored' \in Files \cup {NoFile}
        /\ cells' \in [Places -> Cells] /\ damaged' \in BOOLEAN
    <3>1. CASE cells[0].of.tag
        BY <1>3, <3>1 DEF InitTake, flash, IapTypeOK
    <3>2. CASE ~cells[0].of.tag
        BY <1>3, <3>2, PartTypes DEF InitTake, IapTypeOK
    <3> QED
        BY <3>1, <3>2
  <2>3. /\ UNCHANGED <<host, request, reply, info, fileLength, fileIndex>>
        /\ UNCHANGED <<early, blind, again>> /\ sem' = FALSE
      BY <2>1 DEF board
  <2>4. /\ host' \in [step : Steps \cup {"rest"}, file : Files \cup {NoFile}, next : Nat,
                     awaits : BOOLEAN]
        /\ host'.step # "rest" => host'.file \in Files
      BY <2>3 DEF IapTypeOK
  <2>5. /\ request' \in Requests \cup {NoRequest} /\ reply' \in {"none", "ok", "error"}
        /\ info' \in Files \cup {NoFile} /\ fileLength' \in Nat /\ fileIndex' \in Nat
      BY <2>3 DEF IapTypeOK
  <2>6. sem' \in BOOLEAN /\ early' \in BOOLEAN /\ blind' \in BOOLEAN /\ again' \in BOOLEAN
      BY <2>3, Zenon DEF IapTypeOK
  <2> QED
      BY <2>2, <2>4, <2>5, <2>6 DEF IapTypeOK
<1>4. CASE Restart
  <2>1. /\ UNCHANGED <<host, reply, blind>>
        /\ info' = NoFile /\ fileLength' = 0 /\ fileIndex' = 0
        /\ sem' = FALSE /\ init' = "take" /\ early' = TRUE
        /\ damaged' = TRUE /\ again' = FALSE
      BY <1>4 DEF Restart, CutErasure, Start
  <2>2. /\ request' \in {request, NoRequest} /\ stored' \in {stored, NoFile}
        /\ cells' \in [Places -> Cells]
    <3>1. CASE UNCHANGED <<request, flash>>
        BY <3>1 DEF flash, IapTypeOK
    <3>2. CASE CutErasure
        BY <3>2, CutCells DEF CutErasure
    <3> QED
        BY <1>4, <3>1, <3>2 DEF Restart
  <2>3. /\ request' \in Requests \cup {NoRequest} /\ stored' \in Files \cup {NoFile}
      BY <2>2 DEF IapTypeOK
  <2> QED
      BY <2>1, <2>2, <2>3 DEF IapTypeOK
<1>5. CASE Tick
  <2>1. /\ UNCHANGED <<host, request, reply, info, fileLength, fileIndex, stored, cells>>
        /\ UNCHANGED <<sem, init, damaged, blind, again>> /\ early' = FALSE
      BY <1>5 DEF Tick, board, flash, history
  <2>2. /\ host' \in [step : Steps \cup {"rest"}, file : Files \cup {NoFile}, next : Nat,
                     awaits : BOOLEAN]
        /\ host'.step # "rest" => host'.file \in Files
      BY <2>1 DEF IapTypeOK
  <2>3. /\ request' \in Requests \cup {NoRequest} /\ reply' \in {"none", "ok", "error"}
        /\ info' \in Files \cup {NoFile} /\ stored' \in Files \cup {NoFile}
        /\ fileLength' \in Nat /\ fileIndex' \in Nat
        /\ cells' \in [Places -> Cells]
      BY <2>1 DEF IapTypeOK
  <2>4. /\ sem' \in BOOLEAN /\ init' \in {"take", "wait", "gone"} /\ early' \in BOOLEAN
        /\ damaged' \in BOOLEAN /\ blind' \in BOOLEAN /\ again' \in BOOLEAN
      BY <2>1, Zenon DEF IapTypeOK
  <2> QED
      BY <2>2, <2>3, <2>4 DEF IapTypeOK
<1>6. CASE (LoseRequest \/ LoseReply \/ DamageRequest) /\ UNCHANGED host
  <2>1. UNCHANGED <<board, flash, sem, init, early, history, host>>
      BY <1>6 DEF LoseRequest, LoseReply, DamageRequest
  <2>2. request' \in Requests \cup {NoRequest} /\ reply' \in {"none", "ok", "error"}
    <3>1. CASE LoseRequest \/ LoseReply
        BY <3>1 DEF LoseRequest, LoseReply, IapTypeOK
    <3>2. CASE DamageRequest
      <4>1. request \in Requests
          BY <3>2, RequestTypes DEF DamageRequest, IapTypeOK
      <4>2. request' \in Requests
          BY <3>2, <4>1 DEF DamageRequest, Requests
      <4> QED
          BY <3>2, <4>2 DEF DamageRequest, IapTypeOK
    <3> QED
        BY <1>6, <3>1, <3>2
  <2> QED
      BY <2>1, <2>2 DEF IapTypeOK, board, flash, history
<1>7. CASE UNCHANGED vars
    BY <1>7 DEF IapTypeOK, vars, board, flash, history
<1> QED
    BY <1>1, <1>2, <1>3, <1>4, <1>5, <1>6, <1>7 DEF Next, Reset, Fault, Restart

(***************************************************************************)
(* The line                                                                *)
(***************************************************************************)
LEMMA LineStep == IapTypeOK /\ LineInv /\ [Next]_vars => LineInv'
<1> SUFFICES ASSUME IapTypeOK, LineInv, [Next]_vars PROVE LineInv'
    OBVIOUS
<1>0. host = [step |-> host.step, file |-> host.file, next |-> host.next, awaits |-> host.awaits]
      /\ host.step \in Steps \cup {"rest"}
    BY DEF IapTypeOK
<1>1. CASE HostSend
  <2>1. /\ host.step # "rest" /\ ~host.awaits /\ reply' = reply
        /\ request' = [cmd |-> host.step, file |-> host.file, part |-> host.next, ok |-> TRUE]
        /\ host' = [step |-> host.step, file |-> host.file, next |-> host.next, awaits |-> TRUE]
      BY <1>0, <1>1 DEF HostSend
  <2> QED
      BY <2>1 DEF LineInv
<1>2. CASE HostTimeout
  <2>1. /\ request = NoRequest /\ reply = "none" /\ UNCHANGED <<request, reply>>
        /\ host' = [step |-> host.step, file |-> host.file, next |-> host.next, awaits |-> FALSE]
      BY <1>0, <1>2 DEF HostTimeout
  <2> QED
      BY <2>1 DEF LineInv
<1>3. CASE HostAnswer
  <2>1. /\ request' = request /\ request = NoRequest /\ reply' = "none"
        /\ ~host'.awaits /\ (host'.step = "info" => host'.next = 0)
    <3>1. reply # "none" /\ reply' = "none" /\ request' = request
        BY <1>3 DEF HostAnswer
    <3>2. request = NoRequest /\ host.step # "rest"
        BY <3>1 DEF LineInv
    <3>3. CASE reply = "error"
        BY <1>3, <3>1, <3>2, <3>3 DEF HostAnswer, Started
    <3>4. CASE reply # "error" /\ host.step = "info"
      <4>1. host' = [host EXCEPT !.step = "file", !.awaits = FALSE]
          BY <1>3, <3>4 DEF HostAnswer
      <4> QED
          BY <1>0, <3>1, <3>2, <4>1
    <3>5. CASE reply # "error" /\ host.step = "file"
      <4>1. host' = [host EXCEPT !.next = @ + 1, !.awaits = FALSE,
                                 !.step = IF host.next + 1 = host.file.size
                                          THEN "check" ELSE "file"]
          BY <1>3, <3>5 DEF HostAnswer
      <4> QED
          BY <1>0, <3>1, <3>2, <4>1
    <3>6. CASE reply # "error" /\ host.step \notin {"info", "file"}
      <4>1. host' = [step |-> "rest", file |-> NoFile, next |-> 0, awaits |-> FALSE]
          BY <1>3, <3>6 DEF HostAnswer
      <4> QED
          BY <3>1, <3>2, <4>1
    <3> QED
        BY <3>3, <3>4, <3>5, <3>6
  <2> QED
      BY <2>1 DEF LineInv
<1>4. CASE HostBegin
  <2>1. host.step = "rest" /\ UNCHANGED <<request, reply>>
        /\ \E f \in Files : host' = [step |-> "info", file |-> f, next |-> 0, awaits |-> FALSE]
      BY <1>4 DEF HostBegin, Started
  <2>2. request = NoRequest /\ reply = "none"
      BY <2>1 DEF LineInv
  <2> QED
      BY <2>1, <2>2 DEF LineInv
<1>5. CASE Handle
  <2>1. /\ host.awaits /\ host.step = request.cmd /\ request' = NoRequest
        /\ request.cmd \in Steps /\ UNCHANGED host
      BY <1>5, Handled
  <2>2. request.cmd = "info" => reply' # "error"
      BY <1>5 DEF Handle, Info, File, Check
  <2> QED
      BY <2>1, <2>2 DEF LineInv, Steps
<1>6. CASE InitTake \/ Tick \/ UNCHANGED vars
    BY <1>6 DEF InitTake, Tick, vars, LineInv
<1>8. CASE Restart
  <2>1. request' \in {request, NoRequest} /\ UNCHANGED <<host, reply>>
      BY <1>8 DEF Restart, CutErasure, Start
  <2> QED
      BY <2>1 DEF LineInv
<1>7. CASE (LoseRequest \/ LoseReply \/ DamageRequest) /\ UNCHANGED host
  <2>1. CASE LoseRequest
      BY <1>7, <2>1 DEF LoseRequest, LineInv
  <2>2. CASE LoseReply
      BY <1>7, <2>2 DEF LoseReply, LineInv
  <2>3. CASE DamageRequest
    <3>1. request # NoRequest
        BY <2>3, RequestTypes DEF DamageRequest
    <3>2. request \in Requests
        BY <3>1 DEF IapTypeOK
    <3>3. request'.cmd = request.cmd /\ request'.file = request.file
          /\ request'.part = request.part /\ reply' = reply
        BY <2>3, <3>2 DEF DamageRequest, Requests
    <3> QED
        BY <1>7, <3>1, <3>3 DEF LineInv
  <2> QED
      BY <1>7, <2>1, <2>2, <2>3
<1> QED
    BY <1>1, <1>2, <1>3, <1>4, <1>5, <1>6, <1>7, <1>8 DEF Next, Reset, Fault, Restart

\* Where an answer takes the host.
LEMMA HostMoves ==
    ASSUME IapTypeOK, LineInv, HostSend \/ HostTimeout \/ HostAnswer \/ HostBegin
    PROVE  /\ UNCHANGED <<board, flash, sem, init, early, history>> /\ reply' = "none"
           /\ \/ host'.step \in {"info", "rest"}
              \/ UNCHANGED <<host.step, host.file, host.next>> /\ reply = "none"
              \/ /\ reply = "ok" /\ host'.file = host.file
                 /\ \/ host.step = "info" /\ host'.step = "file" /\ host'.next = host.next
                    \/ /\ host.step = "file" /\ host'.next = host.next + 1
                       /\ host'.step = IF host.next + 1 = host.file.size THEN "check" ELSE "file"
<1>0. host = [step |-> host.step, file |-> host.file, next |-> host.next, awaits |-> host.awaits]
      /\ host.step \in Steps \cup {"rest"}
    BY DEF IapTypeOK
<1>1. UNCHANGED <<board, flash, sem, init, early, history>>
    BY DEF HostSend, HostTimeout, HostAnswer, HostBegin
<1>2. CASE HostSend
  <2>1. host' = [step |-> host.step, file |-> host.file, next |-> host.next, awaits |-> TRUE]
        /\ reply' = reply /\ ~host.awaits
      BY <1>0, <1>2 DEF HostSend
  <2> QED
      BY <1>1, <2>1 DEF LineInv
<1>3. CASE HostTimeout
  <2>1. host' = [step |-> host.step, file |-> host.file, next |-> host.next, awaits |-> FALSE]
        /\ reply' = reply /\ reply = "none"
      BY <1>0, <1>3 DEF HostTimeout
  <2> QED
      BY <1>1, <2>1
<1>4. CASE HostBegin
  <2>1. host.step = "rest" /\ host'.step = "info" /\ reply' = reply
      BY <1>4 DEF HostBegin, Started
  <2> QED
      BY <1>1, <2>1 DEF LineInv
<1>5. CASE HostAnswer
  <2>1. reply # "none" /\ reply' = "none" /\ reply \in {"none", "ok", "error"}
      BY <1>5 DEF HostAnswer, IapTypeOK
  <2>2. CASE reply = "error"
    <3>1. host'.step = "info"
        BY <1>5, <2>2 DEF HostAnswer, Started
    <3> QED
        BY <1>1, <2>1, <3>1
  <2>3. CASE reply # "error" /\ host.step = "info"
    <3>1. host' = [host EXCEPT !.step = "file", !.awaits = FALSE]
        BY <1>5, <2>3 DEF HostAnswer
    <3>2. host' = [step |-> "file", file |-> host.file, next |-> host.next, awaits |-> FALSE]
        BY <1>0, <3>1
    <3> QED
        BY <1>1, <2>1, <2>3, <3>2
  <2>4. CASE reply # "error" /\ host.step = "file"
    <3>1. host' = [host EXCEPT !.next = @ + 1, !.awaits = FALSE,
                               !.step = IF host.next + 1 = host.file.size
                                        THEN "check" ELSE "file"]
        BY <1>5, <2>4 DEF HostAnswer
    <3>2. host' = [step |-> IF host.next + 1 = host.file.size THEN "check" ELSE "file",
                   file |-> host.file, next |-> host.next + 1, awaits |-> FALSE]
        BY <1>0, <3>1
    <3> QED
        BY <1>1, <2>1, <2>4, <3>2
  <2>5. CASE reply # "error" /\ host.step \notin {"info", "file"}
    <3>1. host'.step = "rest"
        BY <1>5, <2>5 DEF HostAnswer
    <3> QED
        BY <1>1, <2>1, <3>1
  <2> QED
      BY <2>2, <2>3, <2>4, <2>5
<1> QED
    BY <1>2, <1>3, <1>4, <1>5

LEMMA FirstStep == IapTypeOK /\ LineInv /\ FirstInv /\ [Next]_vars => FirstInv'
<1> SUFFICES ASSUME IapTypeOK, LineInv, FirstInv, [Next]_vars PROVE FirstInv'
    OBVIOUS
<1>1. CASE HostSend \/ HostTimeout \/ HostAnswer \/ HostBegin
  <2>1. UNCHANGED <<fileLength, cells>>
      BY <1>1, HostMoves DEF board, flash
  <2> QED
      BY <1>1, <2>1, HostMoves DEF FirstInv, Begun
<1>2. CASE Handle
  <2>0. /\ host.file = request.file /\ host.step = request.cmd /\ reply = "none"
        /\ UNCHANGED host /\ request.part \in Nat /\ request.file \in Files
      BY <1>2, Handled
  <2>1. CASE Info
      BY <2>0, <2>1 DEF Info, FirstInv, Begun
  <2>2. CASE Check
      BY <2>0, <2>2 DEF Check, flash, FirstInv, Begun
  <2>3. CASE File
    <3>1. CASE Accepts /\ request.ok
      <4>1. /\ fileLength' = fileLength + 1
            /\ cells' = Programmed(fileLength, Part(request.file, request.part))
          BY <2>3, <3>1 DEF File, SetFileBuffer
      <4>2. fileLength \in Nat /\ cells \in [Places -> Cells] /\ 0 \in Places
          BY FileTypes DEF IapTypeOK
      <4>3. CASE fileLength = 0
        <5>1. cells'[0] \in {Part(request.file, request.part), Garbled}
            BY <4>1, <4>2, <4>3 DEF Programmed
        <5> QED
            BY <2>0, <2>3, <5>1, PartTypes DEF FirstInv, File
      <4>4. CASE fileLength # 0
        <5>1. cells'[0] = cells[0]
            BY <4>1, <4>2, <4>4 DEF Programmed
        <5> QED
            BY <2>0, <2>3, <4>2, <4>4, <5>1 DEF FirstInv, File, Begun
      <4> QED
          BY <4>3, <4>4
    <3>2. CASE ~(Accepts /\ request.ok)
      <4>1. UNCHANGED <<fileLength, cells>>
          BY <2>3, <3>2 DEF File, SetFileBuffer
      <4> QED
          BY <2>0, <2>3, <4>1 DEF FirstInv, File, Begun
    <3> QED
        BY <3>1, <3>2
  <2> QED
      BY <1>2, <2>1, <2>2, <2>3 DEF Handle
<1>3. CASE InitTake
  <2>1. cells \in [Places -> Cells] /\ 0 \in Places
      BY FileTypes DEF IapTypeOK
  <2>2. cells'[0] \in {cells[0], Blank}
      BY <1>3, <2>1 DEF InitTake, flash
  <2>3. UNCHANGED <<host, reply, fileLength>>
      BY <1>3 DEF InitTake, board
  <2> QED
      BY <2>2, <2>3 DEF FirstInv, Begun
<1>4. CASE Restart
    BY <1>4 DEF Restart, CutErasure, Start, FirstInv, Begun
<1>5. CASE Tick \/ UNCHANGED vars
    BY <1>5 DEF Tick, vars, board, flash, FirstInv, Begun
<1>6. CASE (LoseRequest \/ LoseReply \/ DamageRequest) /\ UNCHANGED host
    BY <1>6 DEF LoseRequest, LoseReply, DamageRequest, board, flash, FirstInv, Begun
<1> QED
    BY <1>1, <1>2, <1>3, <1>4, <1>5, <1>6 DEF Next, Reset, Fault, Restart

LEMMA ProgressStep ==
    IapTypeOK /\ LineInv /\ ProgressInv /\ [Next]_vars => ProgressInv'
<1> SUFFICES ASSUME IapTypeOK, LineInv, ProgressInv, [Next]_vars, ~damaged'
             PROVE  ProgressInv'
    BY DEF ProgressInv
<1> USE DEF Counted, Stored
<1>1. CASE HostSend \/ HostTimeout \/ HostAnswer \/ HostBegin
  <2>1. UNCHANGED <<info, fileLength, fileIndex, cells, damaged>> /\ reply' = "none"
      BY <1>1, HostMoves DEF board, flash, history
  <2>2. CASE host'.step \in {"info", "rest"}
      BY <2>1, <2>2 DEF ProgressInv
  <2>3. CASE UNCHANGED <<host.step, host.file, host.next>> /\ reply = "none"
      BY <2>1, <2>3 DEF ProgressInv
  <2>4. CASE reply = "ok" /\ host'.file = host.file /\ host.step = "info"
             /\ host'.step = "file" /\ host'.next = host.next
    <3>1. host.next = 0 /\ host.file.size \in Nat \ {0}
        BY <2>4, FileTypes DEF LineInv, IapTypeOK
    <3>2. fileLength = 0 /\ fileIndex = 0 /\ Stored(host.file, 0)
        BY <1>1, <2>1, <2>4 DEF ProgressInv
    <3> QED
        BY <2>1, <2>4, <3>1, <3>2 DEF ProgressInv
  <2>5. CASE reply = "ok" /\ host'.file = host.file /\ host.step = "file"
             /\ host'.next = host.next + 1
             /\ host'.step = IF host.next + 1 = host.file.size THEN "check" ELSE "file"
    <3>1. host.next < host.file.size /\ Counted(host.next + 1)
        BY <2>1, <2>5 DEF ProgressInv
    <3>2. host.next \in Nat /\ host.file.size \in Nat
        BY <2>5, FileTypes DEF IapTypeOK
    <3> QED
        BY <2>1, <2>5, <3>1, <3>2 DEF ProgressInv
  <2> QED
      BY <1>1, <2>2, <2>3, <2>4, <2>5, HostMoves
<1>2. CASE Handle
  <2>0. /\ host.file = request.file /\ host.step = request.cmd /\ host.next = request.part
        /\ UNCHANGED host /\ request.part \in Nat /\ request.file \in Files
        /\ reply = "none" /\ request.ok \in BOOLEAN
      BY <1>2, Handled
  <2>1. CASE Info
    <3>1. request.ok
        BY <2>1 DEF Info
    <3>2. /\ info' = host.file /\ fileLength' = 0 /\ fileIndex' = 0 /\ host.step = "info"
          /\ \A k \in 0 .. host.file.size - 1 : cells'[k] = Blank
        BY <2>0, <2>1, <3>1 DEF Info
    <3>3. host.file.size \in Nat \ {0}
        BY <2>0, FileTypes
    <3> QED
        BY <2>0, <3>2, <3>3 DEF ProgressInv
  <2>2. CASE Check
    <3>1. UNCHANGED <<info, cells, damaged>> /\ host.step = "check"
        BY <2>0, <2>2 DEF Check, flash
    <3> QED
        BY <2>0, <3>1 DEF ProgressInv
  <2>3. CASE File
    <3>1. host.step = "file" /\ ~damaged /\ UNCHANGED info
        BY <2>0, <2>3 DEF File
    <3>2. /\ host.next < host.file.size
          /\ Counted(host.next + 1) \/ Counted(host.next)
        BY <3>1 DEF ProgressInv
    <3>3. host.file.size \in Nat \ {0} /\ host.next \in Nat /\ host.file \in Files
        BY <2>0, FileTypes
    <3>4. CASE Accepts
      <4>1. Counted(host.next)
          BY <2>0, <3>2, <3>3, <3>4 DEF Accepts
      <4>2. request.ok
          BY <2>3, <3>4 DEF File
      <4>3. /\ fileIndex' = fileIndex + 1 /\ fileLength' = fileLength + 1 /\ reply' = "ok"
            /\ cells' = Programmed(fileLength, Part(host.file, host.next))
          BY <2>0, <2>3, <3>3, <3>4, <4>1, <4>2 DEF File, SetFileBuffer, Accepts
      <4>4. 0 .. host.file.size - 1 \subseteq Places /\ cells \in [Places -> Cells]
          BY <3>3, FileTypes DEF IapTypeOK
      <4>5. \A k \in 0 .. host.file.size - 1 :
              cells'[k] = IF k < host.next + 1 THEN Part(host.file, k) ELSE Blank
        <5> SUFFICES ASSUME NEW k \in 0 .. host.file.size - 1
                     PROVE  cells'[k] = IF k < host.next + 1 THEN Part(host.file, k) ELSE Blank
            OBVIOUS
        <5>1. CASE k = host.next
          <6>1. cells[k] = Blank
              BY <4>1, <5>1
          <6> QED
              BY <3>3, <4>1, <4>3, <4>4, <5>1, <6>1 DEF Programmed
        <5>2. CASE k # host.next
          <6>1. cells'[k] = cells[k]
              BY <4>1, <4>3, <4>4, <5>2 DEF Programmed
          <6> QED
              BY <3>3, <4>1, <5>2, <6>1
        <5> QED
            BY <5>1, <5>2
      <4>6. info' = host.file /\ host.next + 1 <= host.file.size
          BY <3>1, <3>2, <3>3, <4>1
      <4> QED
          BY <2>0, <3>1, <3>2, <4>1, <4>3, <4>5, <4>6 DEF ProgressInv
    <3>5. CASE ~Accepts
      <4>1. UNCHANGED <<fileIndex, fileLength, cells, damaged>>
          BY <2>3, <3>5 DEF File
      <4>2. Counted(host.next + 1)
          BY <2>0, <3>2, <3>3, <3>5 DEF Accepts
      <4>3. reply' = "ok"
          BY <2>0, <2>3, <3>3, <4>2 DEF File
      <4> QED
          BY <2>0, <3>1, <3>2, <4>1, <4>2, <4>3 DEF ProgressInv
    <3> QED
        BY <3>4, <3>5
  <2> QED
      BY <1>2, <2>1, <2>2, <2>3 DEF Handle
<1>3. CASE InitTake
  <2>1. UNCHANGED <<host, reply, info, fileLength, fileIndex, cells, damaged>>
      BY <1>3 DEF InitTake, board, flash
  <2> QED
      BY <2>1 DEF ProgressInv
<1>4. CASE Restart
  <2>1. damaged'
      BY <1>4 DEF Restart, CutErasure, Start
  <2> QED
      BY <2>1 DEF ProgressInv
<1>5. CASE Tick \/ UNCHANGED vars
  <2>1. UNCHANGED <<host, reply, info, fileLength, fileIndex, cells, damaged>>
      BY <1>5 DEF Tick, vars, board, flash, history
  <2> QED
      BY <2>1 DEF ProgressInv
<1>6. CASE (LoseRequest \/ LoseReply \/ DamageRequest) /\ UNCHANGED host
  <2>1. UNCHANGED <<host, info, fileLength, fileIndex, cells, damaged>>
        /\ reply' \in {reply, "none"}
      BY <1>6 DEF LoseRequest, LoseReply, DamageRequest, board, flash, history
  <2> QED
      BY <2>1 DEF ProgressInv
<1> QED
    BY <1>1, <1>2, <1>3, <1>4, <1>5, <1>6 DEF Next, Reset, Fault, Restart

LEMMA ResetStep == IapTypeOK /\ LineInv /\ ResetInv /\ [Next]_vars => ResetInv'
<1> SUFFICES ASSUME IapTypeOK, LineInv, ResetInv, [Next]_vars PROVE ResetInv'
    OBVIOUS
<1>1. CASE \/ HostSend \/ HostTimeout \/ HostAnswer \/ HostBegin
           \/ LoseRequest \/ LoseReply \/ DamageRequest \/ Tick \/ UNCHANGED vars
  <2>1. UNCHANGED <<info, stored, cells, sem, init, blind, again>>
      BY <1>1 DEF HostSend, HostTimeout, HostAnswer, HostBegin, LoseRequest, LoseReply,
         DamageRequest, Tick, vars, board, flash, history
  <2> QED
      BY <2>1 DEF ResetInv, Whole
<1>2. CASE Handle
  <2>0. UNCHANGED init
      BY <1>2 DEF Handle
  <2>1. CASE Info \/ File
    <3>1. /\ again' = (again \/ sem \/ init = "wait") /\ sem' = sem
          /\ info' = stored' \/ UNCHANGED <<info, stored>>
        BY <2>1 DEF Info, File, flash
    <3> QED
        BY <2>0, <3>1 DEF ResetInv
  <2>2. CASE Check
    <3>1. UNCHANGED <<info, stored, cells>> /\ sem' = (sem \/ Releases)
        BY <2>2 DEF Check, flash
    <3>2. CASE sem \/ init = "wait"
      <4>1. UNCHANGED <<blind, again>>
          BY <2>2, <3>2 DEF Check
      <4> QED
          BY <2>0, <3>1, <3>2, <4>1 DEF ResetInv, Whole
    <3>3. CASE ~(sem \/ init = "wait")
      <4>1. blind' = early
          BY <2>2, <3>3 DEF Check
      <4>2. sem' /\ ~blind' => Whole(info)
          BY <3>1, <3>3, <4>1 DEF Releases, CheckUpdated
      <4> QED
          BY <2>0, <3>1, <3>3, <4>2 DEF ResetInv, Whole
    <3> QED
        BY <3>2, <3>3
  <2> QED
      BY <1>2, <2>1, <2>2 DEF Handle
<1>3. CASE InitTake
  <2>0. sem /\ init = "take" /\ UNCHANGED <<info, blind, again>> /\ sem' = FALSE
      BY <1>3 DEF InitTake, board
  <2>1. CASE cells[0].of.tag
    <3>1. init' = "wait" /\ UNCHANGED <<stored, cells>>
        BY <1>3, <2>1 DEF InitTake, flash
    <3>2. ~blind /\ ~again => Whole(info)
        BY <2>0 DEF ResetInv
    <3>3. Whole(info) => info.tag
      <4> SUFFICES ASSUME Whole(info) PROVE info.tag
          OBVIOUS
      <4>1. info \in Files
          BY DEF Whole, IapTypeOK
      <4>2. 0 \in 0 .. info.size - 1
          BY <4>1, FileTypes
      <4>3. cells[0] = Part(info, 0)
          BY <4>2 DEF Whole
      <4> QED
          BY <2>1, <4>3, PartTypes
    <3> QED
        BY <2>0, <3>1, <3>2, <3>3 DEF ResetInv, Whole
  <2>2. CASE ~cells[0].of.tag
    <3>1. init' = "gone"
        BY <1>3, <2>2 DEF InitTake
    <3> QED
        BY <3>1 DEF ResetInv
  <2> QED
      BY <2>1, <2>2
<1>4. CASE Restart
    BY <1>4 DEF Restart, CutErasure, Start, ResetInv
<1> QED
    BY <1>1, <1>2, <1>3, <1>4 DEF Next, Reset, Fault, Restart

(***************************************************************************)
(* What it shows                                                           *)
(***************************************************************************)
LEMMA IapInitially == Init => IapInv
<1> SUFFICES ASSUME Init PROVE IapInv
    OBVIOUS
<1>1. LineInv /\ FirstInv /\ ProgressInv /\ ResetInv
    BY DEF Init, LineInv, FirstInv, Begun, ProgressInv, ResetInv
<1> QED
    BY <1>1, IapTypeInit DEF IapInv

LEMMA IapInvariant == Spec => []IapInv
<1>1. IapInv /\ [Next]_vars => IapInv'
    BY IapTypeStep, LineStep, FirstStep, ProgressStep, ResetStep DEF IapInv
<1> QED
    BY IapInitially, <1>1, PTL DEF Spec

\* Every variable keeps its type, for files of any sizes and any number of faults.
THEOREM IapTypeCorrect == Spec => []IapTypeOK
<1>1. IapInv => IapTypeOK
    BY DEF IapInv
<1> QED
    BY IapInvariant, <1>1, PTL

\* However requests and answers are lost, repeated and damaged, and wherever the
\* power fails: an answer of 0x0 to a check that compares means that the file the
\* host sent is in flash, every part of it, if one part of it was stored.
THEOREM OkIsWhole == Spec => OkMeansWhole
<1>1. IapInv /\ [Next]_vars =>
        ((Handle /\ request.cmd = "check" /\ reply' = "ok" /\ ~early /\ fileLength > 0) =>
            Whole(request.file))
  <2> SUFFICES ASSUME IapInv, Handle, request.cmd = "check", reply' = "ok", ~early,
                      fileLength > 0
               PROVE  Whole(request.file)
      OBVIOUS
  <2> USE DEF IapInv
  <2>1. host.step = "check" /\ host.file = request.file
      BY Handled
  <2>2. Whole(info)
    <3>1. Check
        BY DEF Handle, Info, File
    <3> QED
        BY <3>1 DEF Check, CheckUpdated
  <2>3. info \in Files
      BY <2>2 DEF Whole, IapTypeOK
  <2>4. 0 \in 0 .. info.size - 1
      BY <2>3, FileTypes
  <2>5. cells[0] = Part(info, 0)
      BY <2>2, <2>4 DEF Whole
  <2>6. cells[0].of = host.file
      BY <2>1, <2>3, <2>5, PartTypes DEF FirstInv, Begun
  <2> QED
      BY <2>1, <2>2, <2>5, <2>6, PartTypes
<1> QED
    BY IapInvariant, <1>1, PTL DEF Spec, OkMeansWhole

\* Any number of lost and repeated requests and answers leave an update that is
\* answered with 0x0, as long as nothing was damaged and the board went on.
THEOREM LossesDoNoHarm == Spec => LossesAreHarmless
<1>1. IapInv /\ [Next]_vars =>
        ((Handle /\ request.cmd = "check" /\ ~damaged) => reply' = "ok")
  <2> SUFFICES ASSUME IapInv, Handle, request.cmd = "check", ~damaged
               PROVE  reply' = "ok"
      OBVIOUS
  <2> USE DEF IapInv
  <2>1. host.step = "check" /\ host.file \in Files
      BY Handled
  <2>2. Stored(host.file, host.file.size)
      BY <2>1 DEF ProgressInv
  <2>3. host.file.size \in Nat /\ host.file # NoFile
      BY <2>1, FileTypes
  <2>4. Whole(info)
      BY <2>2, <2>3 DEF Whole, Stored
  <2>5. Check
      BY DEF Handle, Info, File
  <2> QED
      BY <2>4, <2>5 DEF Check, CheckUpdated
<1> QED
    BY IapInvariant, <1>1, PTL DEF Spec, LossesAreHarmless

\* The init thread never resets the processor into an incomplete file or one without
\* the tag, whatever the host does in between, unless the check was early or an
\* update was begun after it.
THEOREM ResetsAreSafe == Spec => ResetIntoWhole
<1>1. IapInv /\ [Next]_vars => (Reset => (Whole(stored) /\ stored.tag) \/ blind \/ again)
  <2> SUFFICES ASSUME ResetInv, init = "wait", ~blind, ~again
               PROVE  Whole(stored) /\ stored.tag
      BY DEF IapInv, Reset
  <2>1. Whole(info) /\ info.tag
      BY DEF ResetInv
  <2>2. stored = info
      BY <2>1 DEF ResetInv, Whole
  <2> QED
      BY <2>1, <2>2
<1> QED
    BY IapInvariant, <1>1, PTL DEF Spec, ResetIntoWhole
=============================================================================
