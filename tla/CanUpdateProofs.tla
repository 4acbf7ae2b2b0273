--------------------------- MODULE CanUpdateProofs ---------------------------
(* The update over CAN, for any number of blocks, of packets in a block and  *)
(* of losses and restarts.                                                   *)
EXTENDS CanUpdate, TLAPS

(***************************************************************************)
(* Types                                                                   *)
(***************************************************************************)
Contents == Blocks \cup {Blank}
Replies  == [code : {"ok", "error"}, cnt : Nat] \cup {NoReply}

CanUpdateTypeOK ==
    /\ master \in [step : {"rest", "info", "file", "check"}, next : Blocks, packet : 0 .. Parts]
    /\ reply \in Replies
    /\ buf \in [Packets -> Contents] /\ dataLen \in Nat /\ rxIndex \in Nat /\ fileCnt \in Nat
    /\ code \in {"ok", "error"} /\ info \in {"none", "file", "stray"} /\ fileLength \in 0 .. Size
    /\ described \in BOOLEAN /\ image \in [Blocks -> Contents \cup {Garbled}]
    /\ hung \in BOOLEAN /\ early \in BOOLEAN /\ sem \in BOOLEAN
    /\ init \in {"take", "wait", "gone"} /\ damaged \in BOOLEAN

(***************************************************************************)
(* An update in which nothing was damaged                                  *)
(***************************************************************************)
\* The first n blocks of the file are in flash, the places behind them are erased.
Arrived(n) ==
    /\ info = "file" /\ n <= Size
    /\ \A b \in Blocks : image[b] = IF b < n THEN b ELSE Blank

\* The answers carry the number of blocks accepted, which is the number of blocks
\* written, and the master sends the next of them or repeats the one before.
\* That one is never accepted again: neither the buffer nor the number noted of it
\* can hold the number of a block the master has not begun.
ArrivalInv ==
    /\ master.step = "rest" => reply = NoReply
    /\ ~damaged =>
        /\ reply # NoReply => reply.cnt = fileCnt
        /\ master.step = "info" /\ reply.code = "ok" => Arrived(0) /\ fileLength = 0 /\ fileCnt = 0
        /\ master.step = "file" =>
            /\ Arrived(fileLength) /\ fileLength = fileCnt
            /\ \/ master.next = fileCnt
               \/ /\ master.next + 1 = fileCnt
                  /\ buf[0] \in {Blank, master.next} /\ rxIndex # fileCnt
        /\ master.step = "check" => Arrived(Size)

CanUpdateInv == CanUpdateTypeOK /\ ArrivalInv

LEMMA SizesType ==
    /\ Size \in Nat \ {0} /\ Parts \in Nat /\ Parts > 1
    /\ 0 \in Blocks /\ 0 \in Packets /\ Parts - 1 \in Packets /\ Parts - 1 # 0
    /\ Blocks \subseteq Nat /\ Contents \subseteq Nat /\ Blank \notin Blocks
<1>1. Size \in Nat \ {0} /\ Parts \in Nat /\ Parts > 1
    BY CanUpdateAssumption
<1> QED
    BY <1>1 DEF Blocks, Packets, Contents, Blank

LEMMA NumberType ==
    ASSUME NEW content \in [Packets -> Contents]
    PROVE  Number(content) \in Nat /\ Number(content) \in {0, content[0]}
<1>1. content[0] \in Contents
    BY SizesType
<1> QED
    BY <1>1, SizesType DEF Number

LEMMA EmptyType == Empty \in [Packets -> Contents] /\ Empty[0] = Blank
BY SizesType DEF Empty, Contents

LEMMA ImageTypes ==
    /\ Erased \in [Blocks -> Contents \cup {Garbled}]
    /\ [b \in Blocks |-> Garbled] \in [Blocks -> Contents \cup {Garbled}]
    /\ \A b \in Blocks : Erased[b] = Blank
BY DEF Erased, Contents

LEMMA ErasedType ==
    ASSUME CanUpdateTypeOK, NEW n \in Nat
    PROVE  /\ ErasedUpTo(n) \in [Blocks -> Contents \cup {Garbled}]
           /\ \A k : [ErasedUpTo(n) EXCEPT ![k] = Garbled] \in [Blocks -> Contents \cup {Garbled}]
<1>1. image \in [Blocks -> Contents \cup {Garbled}]
    BY DEF CanUpdateTypeOK
<1>2. ErasedUpTo(n) \in [Blocks -> Contents \cup {Garbled}]
    BY <1>1 DEF ErasedUpTo, Contents
<1> QED
    BY <1>2

(***************************************************************************)
(* What a block handed over does                                           *)
(***************************************************************************)
ServiceTypeOK ==
    /\ code \in {"ok", "error"} /\ info \in {"none", "file", "stray"}
    /\ fileLength \in 0 .. Size /\ image \in [Blocks -> Contents \cup {Garbled}]
    /\ described \in BOOLEAN /\ hung \in BOOLEAN /\ damaged \in BOOLEAN

\* A block that is good and taken for a block is written to the next place, and
\* nothing but such a block leaves the update undamaged.
LEMMA HandedOver ==
    ASSUME CanUpdateTypeOK, NEW content \in [Packets -> Contents], NEW n \in Nat,
           HandOver(content, n)
    PROVE  /\ ServiceTypeOK'
           /\ ~damaged' =>
                /\ ~damaged /\ info' = info /\ hung' = hung
                /\ \A p \in Packets : content[p] = content[0]
                /\ fileLength < Size =>
                     fileLength' = fileLength + 1 /\ image' = Programmed(fileLength, content[0])
<1> DEFINE good == n = Parts /\ \A p \in Packets : content[p] = content[0]
<1>0. content[0] \in Contents /\ Size \in Nat
    BY SizesType
<1>1. /\ ServiceTypeOK /\ fileLength \in Nat
      /\ Programmed(fileLength, content[0]) \in [Blocks -> Contents \cup {Garbled}]
  <2>1. ServiceTypeOK
      BY DEF CanUpdateTypeOK, ServiceTypeOK
  <2>2. image \in [Blocks -> Contents \cup {Garbled}] /\ fileLength \in Nat
      BY <1>0, <2>1 DEF ServiceTypeOK
  <2>3. \A v \in Contents \cup {Garbled} :
           [image EXCEPT ![fileLength] = v] \in [Blocks -> Contents \cup {Garbled}]
      BY <2>2
  <2>4. Programmed(fileLength, content[0]) =
           [image EXCEPT ![fileLength] = IF image[fileLength] \in {Blank, content[0]}
                                         THEN content[0] ELSE Garbled]
      BY DEF Programmed
  <2> QED
      BY <1>0, <2>1, <2>2, <2>3, <2>4
<1>2. CASE WriteFile(good, content[0]) /\ damaged' = (damaged \/ ~good) /\ UNCHANGED hung
  <2>1. damaged' \in BOOLEAN /\ info' = info /\ described' = described /\ hung' = hung
      BY <1>2 DEF WriteFile
  <2>2. CASE ~good /\ code' = "error" /\ UNCHANGED <<image, fileLength>>
      BY <1>1, <1>2, <2>1, <2>2 DEF ServiceTypeOK
  <2>3. CASE /\ good /\ fileLength = Size
             /\ code' \in {code, "ok"} /\ UNCHANGED <<image, fileLength>>
      BY <1>0, <1>1, <1>2, <2>1, <2>3 DEF ServiceTypeOK
  <2>4. CASE /\ good /\ fileLength < Size
             /\ image' = Programmed(fileLength, content[0]) /\ fileLength' = fileLength + 1
             /\ code' = IF image'[fileLength] = content[0] THEN "ok" ELSE code
      BY <1>0, <1>1, <1>2, <2>1, <2>4 DEF ServiceTypeOK
  <2> QED
      BY <1>2, <2>2, <2>3, <2>4 DEF WriteFile
<1>3. CASE StrayInfo(good) /\ damaged' = TRUE /\ UNCHANGED hung
  <2>1. 0 \in 0 .. Size
      BY <1>0
  <2>2. \A k \in 0 .. Size : ErasedUpTo(k) \in [Blocks -> Contents \cup {Garbled}]
      BY <1>0, ErasedType
  <2>3. image' \in [Blocks -> Contents \cup {Garbled}] /\ described' \in BOOLEAN
      BY <1>1, <1>3, <2>2 DEF StrayInfo, ServiceTypeOK, flash
  <2>4. info' \in {"none", "file", "stray"} /\ fileLength' = 0 /\ code' \in {"ok", "error"}
      BY <1>1, <1>3 DEF StrayInfo, ServiceTypeOK
  <2> QED
      BY <1>1, <1>3, <2>1, <2>3, <2>4 DEF ServiceTypeOK
<1>4. CASE /\ UNCHANGED <<code, info, fileLength, flash>>
           /\ damaged' = TRUE /\ hung' \in BOOLEAN
    BY <1>1, <1>4 DEF flash, ServiceTypeOK
<1> QED
    BY <1>2, <1>3, <1>4 DEF HandOver

LEMMA FilePacketTypes ==
    ASSUME CanUpdateTypeOK, NEW b \in Blocks, NEW p \in Packets, FilePacket(b, p)
    PROVE  /\ ServiceTypeOK'
           /\ buf' \in [Packets -> Contents] /\ dataLen' \in Nat /\ rxIndex' \in Nat
           /\ fileCnt' \in Nat
<1> DEFINE content == [buf EXCEPT ![p] = b]
           index   == IF p = 0 THEN Number(buf) ELSE rxIndex
           n       == IF p = 0 THEN 1 ELSE dataLen + 1
<1>1. content \in [Packets -> Contents] /\ index \in Nat /\ n \in Nat
    BY NumberType DEF CanUpdateTypeOK, Contents
<1>2. rxIndex' = index
    BY DEF FilePacket
<1>3. ServiceTypeOK
    BY DEF CanUpdateTypeOK, ServiceTypeOK
<1>4. CASE p < Parts - 1
  <2>1. buf' = content /\ dataLen' = n /\ UNCHANGED <<fileCnt, service, damaged>>
      BY <1>4 DEF FilePacket
  <2> QED
      BY <1>1, <1>2, <1>3, <2>1 DEF CanUpdateTypeOK, ServiceTypeOK, service, flash
<1>5. CASE ~(p < Parts - 1)
  <2>1. /\ dataLen' = 0
        /\ \E fits \in LengthFits(n) :
             LET accepted == fits /\ NumberFits(index)
             IN /\ buf' = Kept(accepted, content)
                /\ IF accepted THEN fileCnt' = fileCnt + 1 /\ HandOver(content, n)
                   ELSE UNCHANGED <<fileCnt, service, damaged>>
      BY <1>5 DEF FilePacket
  <2>2. \/ buf' = Kept(TRUE, content) /\ fileCnt' = fileCnt + 1 /\ HandOver(content, n)
        \/ buf' = Kept(FALSE, content) /\ UNCHANGED <<fileCnt, service, damaged>>
      BY <2>1
  <2>3. buf' \in [Packets -> Contents]
      BY <1>1, <2>2, EmptyType DEF Kept
  <2>4. ServiceTypeOK' /\ fileCnt' \in Nat
    <3>1. CASE fileCnt' = fileCnt + 1 /\ HandOver(content, n)
      <4>1. ServiceTypeOK'
          BY <1>1, <3>1, HandedOver
      <4> QED
          BY <3>1, <4>1 DEF CanUpdateTypeOK
    <3>2. CASE UNCHANGED <<fileCnt, service, damaged>>
        BY <1>3, <3>2 DEF CanUpdateTypeOK, ServiceTypeOK, service, flash
    <3> QED
        BY <2>2, <3>1, <3>2
  <2> QED
      BY <1>1, <1>2, <2>1, <2>3, <2>4
<1> QED
    BY <1>4, <1>5

\* The way of a packet in an update that stays undamaged: a block that is accepted
\* is the next one, and is written to the next place.
LEMMA PacketArrives ==
    ASSUME CanUpdateTypeOK, ArrivalInv, master.step = "file", master.packet \in Packets,
           FilePacket(master.next, master.packet), ~damaged'
    PROVE  /\ ~damaged /\ Arrived(fileLength)' /\ fileLength' = fileCnt' /\ hung' = hung
           /\ \/ master.next = fileCnt'
              \/ /\ master.next + 1 = fileCnt'
                 /\ buf'[0] \in {Blank, master.next} /\ rxIndex' # fileCnt'
<1> DEFINE b == master.next
           p == master.packet
           content == [buf EXCEPT ![p] = b]
           index   == IF p = 0 THEN Number(buf) ELSE rxIndex
           n       == IF p = 0 THEN 1 ELSE dataLen + 1
<1>1. /\ content \in [Packets -> Contents] /\ index \in Nat /\ n \in Nat /\ rxIndex' = index
      /\ b \in Blocks /\ p \in Packets /\ buf \in [Packets -> Contents]
      /\ fileCnt \in Nat /\ fileLength \in 0 .. Size /\ b \in Nat
    BY NumberType, SizesType DEF CanUpdateTypeOK, Contents, FilePacket
<1>2. \/ /\ p < Parts - 1
         /\ buf' = content /\ UNCHANGED <<fileCnt, service, damaged>>
      \/ /\ p = Parts - 1
         /\ buf' = content /\ UNCHANGED <<fileCnt, service, damaged>>
      \/ /\ p = Parts - 1 /\ index = fileCnt
         /\ buf' = Empty /\ fileCnt' = fileCnt + 1 /\ HandOver(content, n)
  <2>1. CASE p < Parts - 1
      BY <2>1 DEF FilePacket
  <2>2. CASE ~(p < Parts - 1)
    <3>1. p = Parts - 1
        BY <1>1, <2>2, SizesType DEF Packets
    <3>2. \E fits \in LengthFits(n) :
             LET accepted == fits /\ NumberFits(index)
             IN /\ buf' = Kept(accepted, content)
                /\ IF accepted THEN fileCnt' = fileCnt + 1 /\ HandOver(content, n)
                   ELSE UNCHANGED <<fileCnt, service, damaged>>
        BY <2>2 DEF FilePacket
    <3> QED
        BY <3>1, <3>2 DEF Kept, NumberFits
  <2> QED
      BY <2>1, <2>2
<1>3. CASE buf' = content /\ UNCHANGED <<fileCnt, service, damaged>>
  <2>1. /\ ~damaged /\ Arrived(fileLength) /\ fileLength = fileCnt
        /\ \/ b = fileCnt
           \/ b + 1 = fileCnt /\ buf[0] \in {Blank, b} /\ rxIndex # fileCnt
      BY <1>3 DEF ArrivalInv
  <2>2. Arrived(fileLength)' /\ fileLength' = fileCnt'
      BY <1>3, <2>1 DEF Arrived, service, flash
  <2>3. ASSUME b + 1 = fileCnt, buf[0] \in {Blank, b}, rxIndex # fileCnt
        PROVE  buf'[0] \in {Blank, b} /\ rxIndex' # fileCnt'
    <3>1. buf'[0] \in {buf[0], b}
        BY <1>1, <1>3, SizesType
    <3>2. Number(buf) \in {0, b}
        BY <1>1, <2>3 DEF Number
    <3>3. rxIndex' # fileCnt
        BY <1>1, <2>3, <3>2
    <3> QED
        BY <1>3, <2>3, <3>1, <3>3
  <2>4. hung' = hung
      BY <1>3 DEF service
  <2> QED
      BY <1>3, <2>1, <2>2, <2>3, <2>4
<1>4. CASE /\ p = Parts - 1 /\ index = fileCnt
           /\ buf' = Empty /\ fileCnt' = fileCnt + 1 /\ HandOver(content, n)
  <2>1. /\ ~damaged /\ info' = info /\ hung' = hung
        /\ \A q \in Packets : content[q] = content[0]
        /\ fileLength < Size =>
             fileLength' = fileLength + 1 /\ image' = Programmed(fileLength, content[0])
      BY <1>1, <1>4, HandedOver
  <2>2. /\ Arrived(fileLength) /\ fileLength = fileCnt
        /\ \/ b = fileCnt
           \/ b + 1 = fileCnt /\ buf[0] \in {Blank, b} /\ rxIndex # fileCnt
      BY <2>1 DEF ArrivalInv
  <2>3. content[p] = b
      BY <1>1
  <2>4. content[0] = b
      BY <1>1, <2>1, <2>3
  <2>5. b = fileCnt
      BY <1>4, <2>2, SizesType
  <2>6. fileLength < Size /\ Size \in Nat /\ fileLength \in Blocks
      BY <1>1, <2>2, <2>5, SizesType DEF Blocks
  <2>7. fileLength' = fileLength + 1 /\ image' = Programmed(fileLength, b)
      BY <2>1, <2>4, <2>6
  <2>8. \A k \in Blocks : image'[k] = IF k < fileLength + 1 THEN k ELSE Blank
    <3> SUFFICES ASSUME NEW k \in Blocks
                 PROVE  image'[k] = IF k < fileLength + 1 THEN k ELSE Blank
        OBVIOUS
    <3>1. image \in [Blocks -> Contents \cup {Garbled}] /\ k \in Nat /\ fileLength \in Nat
        BY <2>6, SizesType DEF CanUpdateTypeOK
    <3>2. CASE k = fileLength
      <4>1. image[k] = Blank
          BY <2>2, <3>1, <3>2 DEF Arrived
      <4>2. image'[k] = b
          BY <2>7, <3>1, <3>2, <4>1 DEF Programmed
      <4> QED
          BY <2>2, <2>5, <3>1, <3>2, <4>2
    <3>3. CASE k # fileLength
      <4>1. image'[k] = image[k]
          BY <2>7, <3>1, <3>3 DEF Programmed
      <4> QED
          BY <2>2, <3>1, <3>3, <4>1 DEF Arrived
    <3> QED
        BY <3>2, <3>3
  <2>9. Arrived(fileLength)'
    <3>1. info' = "file" /\ fileLength' <= Size
      <4>1. fileLength' <= Size
          BY <2>6, <2>7, SizesType
      <4> QED
          BY <2>1, <2>2, <4>1 DEF Arrived
    <3>2. \A k \in Blocks : image'[k] = IF k < fileLength' THEN k ELSE Blank
        BY <2>7, <2>8
    <3> QED
        BY <3>1, <3>2 DEF Arrived
  <2>10. rxIndex' # fileCnt' /\ buf'[0] = Blank /\ b + 1 = fileCnt' /\ fileLength' = fileCnt'
      BY <1>1, <1>4, <2>2, <2>5, <2>7, EmptyType
  <2> QED
      BY <2>1, <2>9, <2>10
<1> QED
    BY <1>2, <1>3, <1>4

(***************************************************************************)
(* The steps                                                               *)
(***************************************************************************)
ReceiverTypeOK ==
    /\ buf \in [Packets -> Contents] /\ dataLen \in Nat /\ rxIndex \in Nat /\ fileCnt \in Nat

MasterTypeOK(m) ==
    m \in [step : {"rest", "info", "file", "check"}, next : Blocks, packet : 0 .. Parts]

LEMMA TypesApart ==
    CanUpdateTypeOK <=> /\ MasterTypeOK(master) /\ ReceiverTypeOK /\ ServiceTypeOK
                        /\ reply \in Replies
                        /\ early \in BOOLEAN /\ sem \in BOOLEAN
                        /\ init \in {"take", "wait", "gone"}
BY DEF CanUpdateTypeOK, MasterTypeOK, ReceiverTypeOK, ServiceTypeOK

LEMMA InfoBlockKeeps ==
    ASSUME CanUpdateTypeOK, NEW good \in BOOLEAN, InfoBlock(good)
    PROVE  /\ ReceiverTypeOK' /\ ServiceTypeOK' /\ fileCnt' = 0 /\ hung' = hung
           /\ ~damaged' /\ code' = "ok" => Arrived(0)' /\ fileLength' = 0
<1>1. fileCnt' = 0 /\ fileLength' = 0 /\ UNCHANGED <<buf, dataLen, rxIndex, hung>>
    BY DEF InfoBlock
<1>2. 0 \in 0 .. Size /\ 0 \in Nat
    BY SizesType
<1>3. CASE good
  <2>1. /\ info' = "file" /\ image' \in {image, Erased} /\ described' = TRUE
        /\ code' = "ok"
      BY <1>3 DEF InfoBlock
  <2>2. damaged' = \E b \in Blocks : image'[b] # Blank
      BY <1>3 DEF InfoBlock
  <2>3. ~damaged' => Arrived(0)'
    <3>1. ~damaged' => \A b \in Blocks : image'[b] = Blank
        BY <2>2
    <3>2. 0 <= Size /\ \A b \in Blocks : ~(b < 0)
        BY SizesType DEF Blocks
    <3> QED
        BY <2>1, <3>1, <3>2 DEF Arrived
  <2>4. image' \in [Blocks -> Contents \cup {Garbled}]
      BY <2>1, ImageTypes DEF CanUpdateTypeOK
  <2>5. damaged' \in BOOLEAN
      BY <2>2
  <2> QED
      BY <1>1, <1>2, <2>1, <2>3, <2>4, <2>5
         DEF CanUpdateTypeOK, ReceiverTypeOK, ServiceTypeOK
<1>4. CASE ~good
  <2>1. UNCHANGED <<info, described, image, damaged>> /\ code' = "error"
      BY <1>4 DEF InfoBlock, flash
  <2> QED
      BY <1>1, <1>2, <2>1 DEF CanUpdateTypeOK, ReceiverTypeOK, ServiceTypeOK
<1> QED
    BY <1>3, <1>4

LEMMA AfterType ==
    ASSUME CanUpdateTypeOK, Sending
    PROVE  /\ MasterTypeOK(After) /\ After.step = master.step /\ After.next = master.next
           /\ master.packet \in Packets /\ master.next \in Blocks
           /\ master.step \in {"info", "file", "check"}
<1>1. /\ master = [step |-> master.step, next |-> master.next, packet |-> master.packet]
      /\ master.step \in {"rest", "info", "file", "check"}
      /\ master.next \in Blocks /\ master.packet \in 0 .. Parts
    BY DEF CanUpdateTypeOK
<1>2. master.packet # Parts /\ master.step # "rest"
    BY DEF Sending, Awaits
<1>3. master.packet \in Packets
    BY <1>1, <1>2, SizesType DEF Packets
<1>4. \E q \in 0 .. Parts : After = [step |-> master.step, next |-> master.next, packet |-> q]
  <2>1. Parts \in 0 .. Parts /\ master.packet + 1 \in 0 .. Parts
      BY <1>3, SizesType DEF Packets
  <2>2. After = [master EXCEPT !.packet = IF master.step = "file" THEN master.packet + 1
                                          ELSE Parts]
      BY DEF After
  <2> QED
      BY <1>1, <2>1, <2>2
<1> QED
    BY <1>1, <1>2, <1>3, <1>4 DEF MasterTypeOK

LEMMA SendKeeps == CanUpdateInv /\ Send => CanUpdateInv'
<1> SUFFICES ASSUME CanUpdateTypeOK, ArrivalInv, Send PROVE CanUpdateInv'
    BY DEF CanUpdateInv
<1>1. /\ MasterTypeOK(master') /\ master'.step = master.step /\ master'.next = master.next
      /\ master.packet \in Packets /\ master.next \in Blocks
      /\ master.step \in {"info", "file", "check"}
      /\ reply' = IF hung' THEN reply ELSE [code |-> code', cnt |-> fileCnt']
      /\ UNCHANGED <<early, init>> /\ ~hung
    BY AfterType DEF Send
<1>2. ~hung' => reply'.code = code' /\ reply'.cnt = fileCnt'
    BY <1>1
<1>3. ASSUME ReceiverTypeOK', ServiceTypeOK', sem' \in BOOLEAN
      PROVE  CanUpdateTypeOK'
  <2>1. reply' \in Replies
    <3>1. [code |-> code', cnt |-> fileCnt'] \in Replies
        BY <1>3 DEF ReceiverTypeOK, ServiceTypeOK, Replies
    <3> QED
        BY <1>1, <3>1 DEF CanUpdateTypeOK
  <2>2. early' \in BOOLEAN /\ init' \in {"take", "wait", "gone"}
      BY <1>1 DEF CanUpdateTypeOK
  <2> QED
      BY <1>1, <1>3, <2>1, <2>2 DEF CanUpdateTypeOK, MasterTypeOK, ReceiverTypeOK, ServiceTypeOK
<1>4. CASE master.step = "file"
  <2>1. FilePacket(master.next, master.packet) /\ UNCHANGED sem
      BY <1>4 DEF Send
  <2>2. ReceiverTypeOK' /\ ServiceTypeOK'
      BY <1>1, <2>1, FilePacketTypes DEF ReceiverTypeOK
  <2>3. CanUpdateTypeOK'
      BY <1>3, <2>1, <2>2 DEF CanUpdateTypeOK
  <2>4. ~damaged' => /\ Arrived(fileLength)' /\ fileLength' = fileCnt' /\ ~hung'
                     /\ \/ master.next = fileCnt'
                        \/ /\ master.next + 1 = fileCnt'
                           /\ buf'[0] \in {Blank, master.next} /\ rxIndex' # fileCnt'
      BY <1>1, <1>4, <2>1, PacketArrives
  <2>5. ArrivalInv'
      BY <1>1, <1>2, <1>4, <2>4 DEF ArrivalInv
  <2> QED
      BY <2>3, <2>5 DEF CanUpdateInv
<1>5. CASE master.step = "info"
  <2>1. InfoBlock(TRUE) /\ UNCHANGED sem
      BY <1>5 DEF Send
  <2>2. /\ ReceiverTypeOK' /\ ServiceTypeOK' /\ fileCnt' = 0 /\ ~hung'
        /\ ~damaged' /\ code' = "ok" => Arrived(0)' /\ fileLength' = 0
      BY <1>1, <2>1, InfoBlockKeeps
  <2>3. CanUpdateTypeOK'
      BY <1>3, <2>1, <2>2 DEF CanUpdateTypeOK
  <2>4. ArrivalInv'
      BY <1>1, <1>2, <1>5, <2>2 DEF ArrivalInv
  <2> QED
      BY <2>3, <2>4 DEF CanUpdateInv
<1>6. CASE master.step = "check"
  <2>1. CheckBlock
      BY <1>6 DEF Send
  <2>2. /\ UNCHANGED <<buf, dataLen, rxIndex, info, fileLength, described, image, hung,
                        damaged>>
        /\ fileCnt' \in {fileCnt, fileCnt + 1} /\ code' \in {"ok", "error"}
      BY <2>1 DEF CheckBlock, flash
  <2>3. sem' \in BOOLEAN
      BY <2>1, Zenon DEF CheckBlock
  <2>4. ReceiverTypeOK' /\ ServiceTypeOK'
      BY <2>2 DEF CanUpdateTypeOK, ReceiverTypeOK, ServiceTypeOK
  <2>5. ArrivalInv'
      BY <1>1, <1>2, <1>6, <2>2 DEF ArrivalInv, Arrived
  <2> QED
      BY <1>3, <2>3, <2>4, <2>5 DEF CanUpdateInv
<1> QED
    BY <1>1, <1>4, <1>5, <1>6

LEMMA BegunType ==
    ASSUME NEW s \in {"rest", "info", "file", "check"}, NEW n \in Blocks
    PROVE  /\ MasterTypeOK(Begun(s, n)) /\ Begun(s, n).step = s /\ Begun(s, n).next = n
BY SizesType DEF Begun, MasterTypeOK

LEMMA MasterKeeps == CanUpdateInv /\ (Answer \/ Timeout \/ BeginUpdate \/ Tick) => CanUpdateInv'
<1> SUFFICES ASSUME CanUpdateTypeOK, ArrivalInv, Answer \/ Timeout \/ BeginUpdate \/ Tick
             PROVE  CanUpdateInv'
    BY DEF CanUpdateInv
<1>0. /\ master = [step |-> master.step, next |-> master.next, packet |-> master.packet]
      /\ master.step \in {"rest", "info", "file", "check"} /\ master.next \in Blocks
      /\ reply \in Replies
      /\ 0 \in Blocks /\ 0 \in 0 .. Parts /\ Size \in Nat \ {0}
      /\ NoReply \in Replies /\ NoReply.code = "none"
      /\ (reply # NoReply => reply.cnt \in Nat)
    BY SizesType DEF CanUpdateTypeOK, Replies, NoReply
<1>1. UNCHANGED <<buf, dataLen, rxIndex, fileCnt, code, info, fileLength, described, image,
                  hung, sem, init, damaged>>
    BY DEF Answer, Timeout, BeginUpdate, Tick, rx, service, flash, reset
<1>2. ASSUME MasterTypeOK(master'), reply' \in Replies,
             early' \in BOOLEAN
      PROVE  CanUpdateTypeOK'
    BY <1>1, <1>2 DEF CanUpdateTypeOK, MasterTypeOK
<1>3. CASE Answer
  <2>1. reply # NoReply /\ reply' = NoReply /\ UNCHANGED early
      BY <1>3 DEF Answer, reset
  <2>2. CASE reply.code = "error"
    <3>1. master' = Begun("info", 0)
        BY <1>3, <2>2 DEF Answer
    <3>2. MasterTypeOK(master') /\ master'.step = "info"
        BY <1>0, <3>1, BegunType
    <3>3. ArrivalInv'
        BY <1>0, <2>1, <3>2 DEF ArrivalInv
    <3> QED
        BY <1>0, <1>2, <2>1, <3>2, <3>3 DEF CanUpdateInv, CanUpdateTypeOK
  <2>3. CASE reply.code # "error" /\ master.step = "check"
    <3>1. master' = Begun("rest", 0)
        BY <1>3, <2>3 DEF Answer
    <3>2. MasterTypeOK(master') /\ master'.step = "rest"
        BY <1>0, <3>1, BegunType
    <3>3. ArrivalInv'
        BY <1>0, <2>1, <3>2 DEF ArrivalInv
    <3> QED
        BY <1>0, <1>2, <2>1, <3>2, <3>3 DEF CanUpdateInv, CanUpdateTypeOK
  <2>4. CASE reply.code # "error" /\ master.step # "check"
    <3>1. master' = IF reply.cnt >= Size THEN Begun("check", 0) ELSE Begun("file", reply.cnt)
        BY <1>3, <2>4 DEF Answer
    <3>2. master.step \in {"info", "file"}
        BY <1>0, <2>1, <2>4 DEF ArrivalInv
    <3>3. ~damaged => /\ reply.cnt = fileCnt /\ fileLength = fileCnt /\ Arrived(fileLength)
      <4> SUFFICES ASSUME ~damaged
                   PROVE  reply.cnt = fileCnt /\ fileLength = fileCnt /\ Arrived(fileLength)
          OBVIOUS
      <4>1. CASE master.step = "file"
          BY <2>1, <4>1 DEF ArrivalInv
      <4>2. CASE master.step = "info"
        <5>1. reply.code = "ok"
          <6>1. reply.code \in {"ok", "error"}
              BY <1>0, <2>1 DEF Replies
          <6> QED
              BY <2>4, <6>1
        <5> QED
            BY <2>1, <4>2, <5>1 DEF ArrivalInv
      <4> QED
          BY <3>2, <4>1, <4>2
    <3>4. CASE reply.cnt >= Size
      <4>1. MasterTypeOK(master') /\ master'.step = "check"
          BY <1>0, <3>1, <3>4, BegunType
      <4>2. ~damaged => Arrived(Size)
          BY <1>0, <3>3, <3>4 DEF Arrived, CanUpdateTypeOK
      <4>3. ArrivalInv'
          BY <1>0, <1>1, <2>1, <4>1, <4>2 DEF ArrivalInv, Arrived
      <4> QED
          BY <1>0, <1>2, <2>1, <4>1, <4>3 DEF CanUpdateInv, CanUpdateTypeOK
    <3>5. CASE ~(reply.cnt >= Size)
      <4>1. reply.cnt \in Blocks
          BY <1>0, <2>1, <3>5 DEF Blocks
      <4>2. MasterTypeOK(master') /\ master'.step = "file" /\ master'.next = reply.cnt
          BY <3>1, <3>5, <4>1, BegunType
      <4>3. ArrivalInv'
          BY <1>0, <1>1, <2>1, <3>3, <4>2 DEF ArrivalInv, Arrived
      <4> QED
          BY <1>0, <1>2, <2>1, <4>2, <4>3 DEF CanUpdateInv, CanUpdateTypeOK
    <3> QED
        BY <3>4, <3>5
  <2> QED
      BY <2>2, <2>3, <2>4
<1>4. CASE Timeout
  <2>1. /\ master' = [step |-> master.step, next |-> master.next, packet |-> 0]
        /\ UNCHANGED <<reply, early>>
      BY <1>0, <1>4 DEF Timeout, reset
  <2>2. MasterTypeOK(master') /\ master'.step = master.step /\ master'.next = master.next
      BY <1>0, <2>1 DEF MasterTypeOK
  <2>3. ArrivalInv'
      BY <1>1, <2>1, <2>2 DEF ArrivalInv, Arrived
  <2> QED
      BY <1>0, <1>2, <2>1, <2>2, <2>3 DEF CanUpdateInv, CanUpdateTypeOK
<1>5. CASE BeginUpdate
  <2>1. master' = Begun("info", 0) /\ UNCHANGED <<reply, early>> /\ reply = NoReply
      BY <1>5 DEF BeginUpdate, ArrivalInv, reset
  <2>2. MasterTypeOK(master') /\ master'.step = "info"
      BY <1>0, <2>1, BegunType
  <2>3. ArrivalInv'
      BY <1>0, <2>1, <2>2 DEF ArrivalInv
  <2> QED
      BY <1>0, <1>2, <2>1, <2>2, <2>3 DEF CanUpdateInv, CanUpdateTypeOK
<1>6. CASE Tick
  <2>1. UNCHANGED <<master, reply>> /\ early' = FALSE
      BY <1>6 DEF Tick
  <2>2. ArrivalInv'
      BY <1>1, <2>1 DEF ArrivalInv, Arrived
  <2>3. CanUpdateTypeOK'
      BY <1>1, <2>1 DEF CanUpdateTypeOK
  <2> QED
      BY <2>2, <2>3 DEF CanUpdateInv
<1> QED
    BY <1>3, <1>4, <1>5, <1>6

LEMMA StartKeeps ==
    ASSUME CanUpdateInv, Start,
           MasterTypeOK(master'), master'.step = master.step,
           image' \in [Blocks -> Contents \cup {Garbled}], described' \in BOOLEAN
    PROVE  CanUpdateInv'
<1>1. 0 \in 0 .. Size /\ 0 \in Nat /\ "ok" \in {"ok", "error"}
    BY SizesType
<1>2. ReceiverTypeOK'
    BY <1>1, EmptyType DEF Start, ReceiverTypeOK
<1>3. ServiceTypeOK'
    BY <1>1 DEF Start, ServiceTypeOK
<1>4. /\ early' \in BOOLEAN /\ sem' \in BOOLEAN /\ init' \in {"take", "wait", "gone"}
      /\ reply' \in Replies /\ reply' = reply /\ damaged'
    BY DEF Start, CanUpdateInv, CanUpdateTypeOK
<1>5. CanUpdateTypeOK'
    BY <1>2, <1>3, <1>4 DEF CanUpdateTypeOK, MasterTypeOK, ReceiverTypeOK, ServiceTypeOK
<1>6. ArrivalInv'
    BY <1>4 DEF CanUpdateInv, ArrivalInv
<1> QED
    BY <1>5, <1>6 DEF CanUpdateInv

LEMMA InitThreadKeeps == CanUpdateInv /\ (InitTake \/ Reset) => CanUpdateInv'
<1> SUFFICES ASSUME CanUpdateTypeOK, ArrivalInv, InitTake \/ Reset PROVE CanUpdateInv'
    BY DEF CanUpdateInv
<1>1. CASE InitTake
  <2>1. /\ UNCHANGED <<master, reply, buf, dataLen, rxIndex, fileCnt, code, info, fileLength,
                       hung, early>>
        /\ sem' = FALSE /\ init' \in {"wait", "gone"}
      BY <1>1 DEF InitTake, rx
  <2>2. \/ UNCHANGED <<described, image, damaged>>
        \/ described' = FALSE /\ image' = ErasedUpTo(1) /\ damaged'
      BY <1>1 DEF InitTake, flash
  <2>3. /\ image' \in [Blocks -> Contents \cup {Garbled}] /\ described' \in BOOLEAN
        /\ damaged' \in BOOLEAN
    <3>1. ErasedUpTo(1) \in [Blocks -> Contents \cup {Garbled}]
        BY ErasedType
    <3>2. CASE UNCHANGED <<described, image, damaged>>
        BY <3>2 DEF CanUpdateTypeOK
    <3>3. CASE described' = FALSE /\ image' = ErasedUpTo(1) /\ damaged'
      <4>1. damaged' \in BOOLEAN
          BY <1>1, <3>3 DEF InitTake, CanUpdateTypeOK, flash
      <4> QED
          BY <3>1, <3>3, <4>1
    <3> QED
        BY <2>2, <3>2, <3>3
  <2>4. CanUpdateTypeOK'
      BY <2>1, <2>3 DEF CanUpdateTypeOK
  <2>5. ArrivalInv'
    <3>1. CASE UNCHANGED <<described, image, damaged>>
        BY <2>1, <3>1 DEF ArrivalInv, Arrived
    <3>2. CASE damaged'
        BY <2>1, <3>2 DEF ArrivalInv
    <3> QED
        BY <2>2, <3>1, <3>2
  <2> QED
      BY <2>4, <2>5 DEF CanUpdateInv
<1>2. CASE Reset
  <2>1. Start /\ UNCHANGED <<master, described, image>>
      BY <1>2 DEF Reset, flash
  <2>2. /\ MasterTypeOK(master') /\ described' \in BOOLEAN
        /\ image' \in [Blocks -> Contents \cup {Garbled}]
      BY <2>1 DEF CanUpdateTypeOK, MasterTypeOK
  <2> QED
      BY <2>1, <2>2, StartKeeps DEF CanUpdateInv
<1> QED
    BY <1>1, <1>2

LEMMA FaultKeeps == CanUpdateInv /\ (SendInVain \/ Fault) => CanUpdateInv'
<1> SUFFICES ASSUME CanUpdateTypeOK, ArrivalInv,
                    SendInVain \/ LosePacket \/ LoseReply \/ PowerCut \/ CutErasure
             PROVE  CanUpdateInv'
    BY DEF CanUpdateInv, Fault
<1>0. NoReply \in Replies /\ NoReply.code = "none"
    BY DEF Replies, NoReply
<1>1. CASE SendInVain \/ LosePacket
  <2>0. /\ MasterTypeOK(master') /\ master'.step = master.step /\ master'.next = master.next
        /\ UNCHANGED <<early, sem, init>> /\ master.step # "rest"
      BY <1>1, AfterType DEF SendInVain, LosePacket, reset
  <2>1. CASE UNCHANGED <<rx, service, reply, damaged>>
    <3>0. UNCHANGED <<buf, dataLen, rxIndex, fileCnt, code, info, fileLength, described, image,
                      hung, reply, damaged>>
        BY <2>1 DEF rx, service, flash
    <3>1. CanUpdateTypeOK'
        BY <2>0, <3>0 DEF CanUpdateTypeOK, MasterTypeOK
    <3>2. ArrivalInv'
        BY <2>0, <3>0 DEF ArrivalInv, Arrived
    <3> QED
        BY <3>1, <3>2 DEF CanUpdateInv
  <2>2. ASSUME master.step = "info", NEW good \in BOOLEAN, InfoBlock(good),
               reply' = [code |-> code', cnt |-> fileCnt']
        PROVE  CanUpdateInv'
    <3>1. /\ ReceiverTypeOK' /\ ServiceTypeOK' /\ fileCnt' = 0
          /\ ~damaged' /\ code' = "ok" => Arrived(0)' /\ fileLength' = 0
        BY <2>2, InfoBlockKeeps
    <3>2. reply'.code = code' /\ reply'.cnt = fileCnt'
          /\ reply' \in Replies
        BY <2>2, <3>1 DEF ReceiverTypeOK, ServiceTypeOK, Replies
    <3>3. CanUpdateTypeOK'
        BY <2>0, <3>1, <3>2 DEF CanUpdateTypeOK, MasterTypeOK, ReceiverTypeOK, ServiceTypeOK
    <3>4. ArrivalInv'
        BY <2>0, <2>2, <3>1, <3>2 DEF ArrivalInv
    <3> QED
        BY <3>3, <3>4 DEF CanUpdateInv
  <2> QED
      BY <1>1, <2>1, <2>2 DEF SendInVain, LosePacket
<1>2. CASE LoseReply
  <2>1. reply' = NoReply
        /\ UNCHANGED <<master, buf, dataLen, rxIndex, fileCnt, code, info, fileLength,
                       described, image, hung, early, sem, init, damaged>>
      BY <1>2 DEF LoseReply, rx, service, flash, reset
  <2>2. CanUpdateTypeOK'
      BY <1>0, <2>1 DEF CanUpdateTypeOK
  <2>3. ArrivalInv'
      BY <1>0, <2>1 DEF ArrivalInv, Arrived
  <2> QED
      BY <2>2, <2>3 DEF CanUpdateInv
<1>3. CASE PowerCut
  <2>1. Start /\ UNCHANGED <<master, described, image>>
      BY <1>3 DEF PowerCut, flash
  <2>2. /\ MasterTypeOK(master') /\ described' \in BOOLEAN
        /\ image' \in [Blocks -> Contents \cup {Garbled}]
      BY <2>1 DEF CanUpdateTypeOK, MasterTypeOK
  <2> QED
      BY <2>1, <2>2, StartKeeps DEF CanUpdateInv
<1>4. CASE CutErasure
  <2>1. Start /\ described' = FALSE /\ Sending /\ master' = After
      BY <1>4 DEF CutErasure
  <2>2. MasterTypeOK(master') /\ master'.step = master.step
      BY <2>1, AfterType
  <2>3. PICK n \in 1 .. Size :
          image' \in {ErasedUpTo(n), [ErasedUpTo(n) EXCEPT ![n - 1] = Garbled]}
      BY <1>4 DEF CutErasure
  <2>4. n \in Nat
      BY SizesType
  <2>5. image' \in [Blocks -> Contents \cup {Garbled}]
      BY <2>3, <2>4, ErasedType
  <2> QED
      BY <2>1, <2>2, <2>5, StartKeeps DEF CanUpdateInv
<1> QED
    BY <1>1, <1>2, <1>3, <1>4

LEMMA CanUpdateInvariant == Spec => []CanUpdateInv
<1>1. Init => CanUpdateInv
  <2> SUFFICES ASSUME Init PROVE CanUpdateInv
      OBVIOUS
  <2>1. MasterTypeOK(master) /\ master.step = "rest"
      BY SizesType, BegunType DEF Init
  <2>2. reply \in Replies
      BY DEF Init, Replies
  <2>3. CanUpdateTypeOK
    <3>1. 0 \in 0 .. Size /\ 0 \in Nat
        BY SizesType
    <3> QED
        BY <2>1, <2>2, <3>1, EmptyType, ImageTypes DEF Init, CanUpdateTypeOK, MasterTypeOK
  <2> QED
      BY <2>3 DEF Init, ArrivalInv, CanUpdateInv
<1>2. CanUpdateInv /\ [Next]_vars => CanUpdateInv'
  <2>1. CanUpdateInv /\ UNCHANGED vars => CanUpdateInv'
    <3> SUFFICES ASSUME CanUpdateTypeOK, ArrivalInv, UNCHANGED vars PROVE CanUpdateInv'
        BY DEF CanUpdateInv
    <3>1. UNCHANGED <<master, reply, buf, dataLen, rxIndex, fileCnt, code, info, fileLength,
                      described, image, hung, early, sem, init, damaged>>
        BY DEF vars, rx, service, flash, reset
    <3>2. CanUpdateTypeOK'
        BY <3>1 DEF CanUpdateTypeOK
    <3>3. ArrivalInv'
        BY <3>1 DEF ArrivalInv, Arrived
    <3> QED
        BY <3>2, <3>3 DEF CanUpdateInv
  <2> QED
      BY <2>1, SendKeeps, MasterKeeps, InitThreadKeeps, FaultKeeps DEF Next
<1> QED
    BY <1>1, <1>2, PTL DEF Spec

\* Every variable keeps its type, for a file of any size, and fileLength never goes
\* past the size of the file.
THEOREM CanUpdateTypeCorrect == Spec => []CanUpdateTypeOK
<1>1. CanUpdateInv => CanUpdateTypeOK
    BY DEF CanUpdateInv
<1> QED
    BY CanUpdateInvariant, <1>1, PTL

\* For any number of blocks, packets and losses, although the number that
\* IapRx_Deal compares is that of the block before: each block is stored once and in
\* its place, and the check of an update succeeds, however often the erasure looked
\* at three words only, if it left no old data, every command was right, and neither
\* a restart nor the init thread came in between.
THEOREM FileHasArrived == Spec => FileArrives
<1>1. CanUpdateInv /\ [Next]_vars =>
        ((Send /\ master.step = "check" /\ ~damaged) => code' = "ok")
  <2> SUFFICES ASSUME CanUpdateTypeOK, ArrivalInv, Send, master.step = "check", ~damaged
               PROVE  code' = "ok"
      BY DEF CanUpdateInv
  <2>1. CheckBlock
      BY DEF Send
  <2>2. Arrived(Size)
      BY DEF ArrivalInv
  <2>3. \A b \in Blocks : b < Size
      BY SizesType DEF Blocks
  <2>4. Whole
      BY <2>2, <2>3 DEF Arrived, Whole
  <2> QED
      BY <2>1, <2>4 DEF CheckBlock
<1> QED
    BY CanUpdateInvariant, <1>1, PTL DEF Spec, FileArrives
=============================================================================
