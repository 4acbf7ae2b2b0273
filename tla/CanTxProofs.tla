----------------------------- MODULE CanTxProofs -----------------------------
(* The answers on the bus, for any replies, queue, mailboxes and requests.  *)
EXTENDS CanTx, Integers, SequenceTheorems, FiniteSetTheorems, WellFoundedInduction, TLAPS

(***************************************************************************)
(* Types                                                                   *)
(***************************************************************************)
Packet(P) == [prio : Nat, frame : Replies, no : Nat, ver : Nat,
              last : BOOLEAN, port : P]
Sent      == Packet(Ports)
Slots     == Sent \cup {NoPacket}

TxTypeOK ==
  /\ canBuf \in [Replies -> Nat] /\ update \subseteq Replies
  /\ canPort \in [Replies -> Ports \cup {PORTx}]
  /\ pc \in {"wait", "scan", "pack", "send"} /\ no \in Nat
  /\ pc \in {"pack", "send"} => frame \in Replies
  /\ pc = "send" => tCyc \in Packet({0}) /\ tCyc.frame = frame
  /\ mb \in Seq(Sent) /\ tx \in Slots
  /\ box \in [Ports -> [1 .. Boxes -> Slots]]
  /\ rx \in [Replies -> [Ports -> [next : Nat, ver : Nat]]]
  /\ got \in [Replies -> [Ports -> Nat]]

(***************************************************************************)
(* The way of a packet: made by can_s_tx, queued, in the hand of can_tx,   *)
(* in a mailbox of a controller.                                           *)
(***************************************************************************)
(* What Pack is about to make and what it has made, both without the       *)
(* priority bits: these matter in the mailboxes alone.                     *)
Cut == [prio |-> 0, frame |-> frame, no |-> no, ver |-> canBuf[frame],
        last |-> (no + 1 = Packets[frame]), port |-> 0]
Bare(m) == [m EXCEPT !.prio = 0]

Coming == IF pc = "pack" THEN {Cut} ELSE IF pc = "send" THEN {Bare(tCyc)} ELSE {}
Behind == InHand \cup Queued \cup Coming      (* not in a mailbox yet      *)
Flow   == InBoxes \cup Behind

(* Neither asked for again on its way nor a packet lost or overtaken.      *)
Fair(f) == f \notin crossed \cup lost \cup overtaken

Fits(m) == /\ m.no < Packets[m.frame] /\ m.ver <= canBuf[m.frame]
           /\ m.last = (m.no + 1 = Packets[m.frame])

FitInv ==
  /\ \A m \in Flow : Fits(m)
  /\ pc \in {"wait", "scan"} => no = 0
  /\ pc = "send" => tCyc.no = no
  /\ \A p \in Ports, b \in 1 .. Boxes : box[p][b] # NoPacket => box[p][b].port = p
  /\ \A f \in Replies : canPort[f] = PORTx /\ (f \in update \/ Splitting(f)) => f \in Own

(* Of one reply the older copy is ahead, and of one copy the lower number. *)
Follows(m, n) ==
  m.frame = n.frame => m.ver <= n.ver /\ (Fair(m.frame) => m.no < n.no)

OrderInv ==
  /\ \A i, j \in 1 .. Len(mb) : i < j => Follows(mb[i], mb[j])
  /\ \A m \in InHand, n \in Queued : Follows(m, n)
  /\ \A m \in InBoxes, n \in InHand \cup Queued : Follows(m, n)
  /\ \A m \in InBoxes \cup InHand \cup Queued, n \in Coming : Follows(m, n)

(* No packet is older than what the master had last, and in the mailboxes  *)
(* of a controller the identifiers order the copies, until one is          *)
(* overtaken.                                                              *)
AgeInv ==
  /\ \A f \in Replies, p \in Ports : got[f][p] <= canBuf[f] /\ rx[f][p].ver <= canBuf[f]
  /\ \A m \in Behind, p \in Ports : got[m.frame][p] <= m.ver
  /\ \A p \in Ports, b \in 1 .. Boxes :
       box[p][b] # NoPacket /\ box[p][b].frame \notin overtaken =>
         /\ got[box[p][b].frame][p] <= box[p][b].ver
         /\ \A c \in 1 .. Boxes :
              c # b /\ box[p][c].frame = box[p][b].frame =>
                \/ Ahead(box[p][b], box[p][c]) /\ box[p][b].ver <= box[p][c].ver
                \/ Ahead(box[p][c], box[p][b])

(* A packet is the first of its answer, or continues what the master has,  *)
(* or the packet before it is still on its way.                            *)
Continued(m) ==
  \/ m.no = 0
  \/ rx[m.frame][canPort[m.frame]] = [next |-> m.no, ver |-> m.ver]
  \/ \E n \in Flow : n.frame = m.frame /\ n.no + 1 = m.no

(* The packets of a reply differ in their numbers, and a controller sends  *)
(* them by number.                                                         *)
Sorted(m, n) == Ahead(m, n) => m.no < n.no

Apart ==
  \A p, q \in Ports, b, c \in 1 .. Boxes :
    Fair(box[p][b].frame) /\ box[p][b] # NoPacket /\ <<p, b>> # <<q, c>> =>
      (box[q][c].frame = box[p][b].frame =>
         /\ box[p][b].no # box[q][c].no
         /\ p = q => Sorted(box[p][b], box[q][c]))

Unbroken(m) ==
  /\ m.frame \notin update /\ m.ver = canBuf[m.frame]
  /\ Packets[m.frame] > 1 /\ m.port # 0 => m.port = canPort[m.frame]
  /\ Continued(m)
  /\ \A p \in Ports : rx[m.frame][p].ver = m.ver => rx[m.frame][p].next <= m.no

WholeInv ==
  /\ AnswersWhole
  /\ Apart
  /\ \A f \in update, p \in Ports : Fair(f) => rx[f][p].ver < canBuf[f]
  /\ \A m \in Flow : Fair(m.frame) => Unbroken(m)

TxInv == TxTypeOK /\ FitInv /\ OrderInv /\ AgeInv /\ WholeInv

LEMMA RepliesType ==
  /\ Replies = 1 .. Len(Packets) /\ Len(Packets) \in Nat
  /\ \A f \in Replies : Packets[f] \in Nat \ {0} /\ f # 0
<1>1. Packets \in Seq(Nat \ {0})
  BY TxAssumption
<1>2. /\ DOMAIN Packets = 1 .. Len(Packets) /\ Len(Packets) \in Nat
      /\ \A f \in 1 .. Len(Packets) : Packets[f] \in Nat \ {0}
  BY <1>1, LenProperties, ElementOfSeq
<1> QED
  BY <1>2 DEF Replies

LEMMA BoxesType == Boxes \in Nat \ {0}
BY TxAssumption

LEMMA PortsType == Ports = {1, 2} /\ 0 \notin Ports /\ PORTx \notin Ports
BY DEF Ports, PORTx

LEMMA NoPacketIsNone == NoPacket.frame = 0 /\ NoPacket \notin Sent
<1>1. NoPacket.frame = 0
  BY DEF NoPacket
<1> QED
  BY <1>1, RepliesType DEF Sent, Packet

(* A set of numbers up to n that is not empty has a least one.              *)
LEMMA MinIsMember ==
  ASSUME NEW n \in Nat, NEW S \in SUBSET (1 .. n), S # {}
  PROVE  Min(S) \in S
<1> DEFINE Under(x) == 1 .. x
           T == {Under(x) : x \in S}
<1>1. T \subseteq FiniteSubsetsOf(1 .. n) /\ T # {}
  <2>1. ASSUME NEW x \in S PROVE Under(x) \in FiniteSubsetsOf(1 .. n)
    <3>1. x \in Nat /\ Under(x) \in SUBSET (1 .. n)
      OBVIOUS
    <3>2. IsFiniteSet(Under(x))
      <4>1. 1 \in Int /\ x \in Int
        BY <3>1
      <4> QED
        BY <4>1, FS_Interval, Zenon
    <3> QED
      BY <3>1, <3>2 DEF FiniteSubsetsOf
  <2> HIDE DEF Under
  <2> QED
    BY <2>1
<1>2. PICK t \in T : \A u \in T : <<u, t>> \notin StrictSubsetOrdering(1 .. n)
  <2>1. IsWellFoundedOn(StrictSubsetOrdering(1 .. n), FiniteSubsetsOf(1 .. n))
    BY FS_StrictSubsetOrderingWellFounded
  <2> HIDE DEF T
  <2> QED
    BY <1>1, <2>1, WFMin
<1>3. PICK x \in S : t = Under(x)
  OBVIOUS
<1>4. ASSUME NEW y \in S, y < x PROVE FALSE
  <2>1. /\ Under(y) \in SUBSET (1 .. n) /\ Under(x) \in SUBSET (1 .. n)
        /\ Under(y) \subseteq Under(x) /\ x \in Under(x) /\ x \notin Under(y)
    BY <1>4
  <2>2. Under(y) \in T
    OBVIOUS
  <2> HIDE DEF T, Under
  <2>3. <<Under(y), Under(x)>> \in StrictSubsetOrdering(1 .. n)
    BY <2>1 DEF StrictSubsetOrdering
  <2> QED
    BY <2>2, <2>3, <1>2, <1>3
<1>5. \A y \in S : x <= y
  BY <1>4
<1>6. \E z \in S : \A y \in S : z <= y
  BY <1>5
<1> QED
  BY <1>6 DEF Min

(* The first empty mailbox of a controller.                                 *)
LEMMA FirstFree ==
  ASSUME TxTypeOK, NEW p \in Ports, Free(p) # {}
  PROVE  Min(Free(p)) \in 1 .. Boxes /\ box[p][Min(Free(p))] = NoPacket
<1>1. Free(p) \in SUBSET (1 .. Boxes) /\ Boxes \in Nat
  BY BoxesType DEF Free
<1>2. Min(Free(p)) \in Free(p)
  BY <1>1, MinIsMember
<1> QED
  BY <1>2 DEF Free

(* The parts of the way and what is on them.                                *)
LEMMA FlowTypes ==
  ASSUME TxTypeOK
  PROVE  /\ InBoxes \subseteq Sent /\ InHand \subseteq Sent /\ Queued \subseteq Sent
         /\ tx # NoPacket => tx \in Sent /\ InHand = {tx}
         /\ tx = NoPacket => InHand = {}
         /\ \A p \in Ports, b \in 1 .. Boxes : box[p][b] # NoPacket =>
              box[p][b] \in Sent /\ box[p][b] \in InBoxes
         /\ \A m \in InBoxes : \E p \in Ports, b \in 1 .. Boxes : m = box[p][b]
         /\ Len(mb) \in Nat /\ \A i \in 1 .. Len(mb) : mb[i] \in Queued
<1>1. /\ \A m \in Sent : m.frame # 0
      /\ NoPacket.frame = 0
  BY NoPacketIsNone, RepliesType DEF Sent, Packet
<1>2. \A p \in Ports, b \in 1 .. Boxes : box[p][b] \in Slots
  BY DEF TxTypeOK
<1>3. InBoxes \subseteq Sent
  BY <1>2 DEF InBoxes, Slots
<1>4. Queued \subseteq Sent /\ Len(mb) \in Nat
  <2>1. mb \in Seq(Sent)
    BY DEF TxTypeOK
  <2>2. Len(mb) \in Nat /\ \A i \in 1 .. Len(mb) : mb[i] \in Sent
    BY <2>1, ElementOfSeq, LenProperties
  <2> QED
    BY <2>2 DEF Queued
<1>5. /\ tx # NoPacket => tx \in Sent /\ InHand = {tx}
      /\ tx = NoPacket => InHand = {}
  BY <1>1 DEF TxTypeOK, Slots, InHand
<1>6. InHand \subseteq Sent
  BY <1>5
<1>7. \A p \in Ports, b \in 1 .. Boxes : box[p][b] # NoPacket =>
        box[p][b] \in Sent /\ box[p][b] \in InBoxes
  BY <1>2 DEF InBoxes, Slots
<1> QED
  BY <1>3, <1>4, <1>5, <1>6, <1>7 DEF InBoxes, Queued

LEMMA ComingType ==
  ASSUME TxTypeOK
  PROVE  /\ Coming \subseteq Packet({0})
         /\ \A m \in Coming : m.frame = frame /\ frame \in Replies
         /\ pc \in {"wait", "scan"} => Coming = {}
         /\ pc = "pack" => Coming = {Cut}
         /\ pc = "send" => /\ Coming = {Bare(tCyc)}
                           /\ Bare(tCyc).frame = tCyc.frame /\ Bare(tCyc).no = tCyc.no
                           /\ Bare(tCyc).ver = tCyc.ver /\ Bare(tCyc).last = tCyc.last
<1>1. pc = "pack" => Cut \in Packet({0}) /\ Cut.frame = frame
  BY DEF TxTypeOK, Cut, Packet
<1>2. pc = "send" => /\ Bare(tCyc) \in Packet({0}) /\ Bare(tCyc).frame = frame
                     /\ Bare(tCyc).frame = tCyc.frame /\ Bare(tCyc).no = tCyc.no
                     /\ Bare(tCyc).ver = tCyc.ver /\ Bare(tCyc).last = tCyc.last
                     /\ frame \in Replies
  BY DEF TxTypeOK, Bare, Packet
<1>3. pc \in {"wait", "scan", "pack", "send"} /\ (pc = "pack" => frame \in Replies)
  BY DEF TxTypeOK
<1> QED
  BY <1>1, <1>2, <1>3 DEF Coming

LEMMA TxInit == Init => TxTypeOK
<1> SUFFICES ASSUME Init PROVE TxTypeOK
  OBVIOUS
<1>1. /\ rx \in [Replies -> [Ports -> [next : Nat, ver : Nat]]]
      /\ got \in [Replies -> [Ports -> Nat]]
  BY DEF Init, Nothing
<1>2. box \in [Ports -> [1 .. Boxes -> Slots]] /\ tx \in Slots
  BY DEF Init, Slots
<1>3. mb \in Seq(Sent)
  BY DEF Init
<1> QED
  BY <1>1, <1>2, <1>3 DEF Init, TxTypeOK
LEMMA TxTypeStep == TxTypeOK /\ FitInv /\ [Next]_vars => TxTypeOK'
<1> SUFFICES ASSUME TxTypeOK, FitInv, [Next]_vars PROVE TxTypeOK'
  OBVIOUS
<1> USE DEF TxTypeOK
<1>0. TxTypeOK
  OBVIOUS
<1>1. ASSUME NEW f \in Replies, SendCan(f),
             canPort' \in [Replies -> Ports \cup {PORTx}],
             UNCHANGED <<sendVars, mb, txVars, busVars, rx, got>>
      PROVE  TxTypeOK'
  <2>1. canBuf' \in [Replies -> Nat] /\ update' \subseteq Replies
    BY <1>1 DEF SendCan
  <2> QED
    BY <1>1, <2>1 DEF sendVars, txVars, busVars
<1>2. ASSUME NEW f \in Replies, NEW p \in Ports, Request(f, p) PROVE TxTypeOK'
  <2>1. canPort' \in [Replies -> Ports \cup {PORTx}]
    BY <1>2 DEF Request
  <2> QED
    BY <1>1, <1>2, <2>1 DEF Request
<1>3. ASSUME NEW f \in Own, IapSend(f) PROVE TxTypeOK'
  <2>1. f \in Replies
    BY TxAssumption
  <2> QED
    BY <1>1, <1>3, <2>1 DEF IapSend
<1>4. CASE TriggerMsgPush
  <2>1. CASE WaitEvent \/ ScanEnd \/ ScanSkip
    BY <2>1 DEF WaitEvent, ScanEnd, ScanSkip, bufVars, txVars, busVars, rxVars
  <2>2. CASE ScanTake
    BY <2>2 DEF ScanTake, txVars, busVars, rxVars
  <2>3. CASE Pack
    <3>1. tCyc' \in Packet({0}) /\ tCyc'.frame = frame'
      <4>1. Prios \subseteq Nat
        BY TxAssumption
      <4> QED
        BY <2>3, <4>1 DEF Pack, Packet
    <3> QED
      BY <2>3, <3>1 DEF Pack, bufVars, txVars, busVars, rxVars
  <2>4. CASE Send
    <3>1. /\ canBuf' = canBuf /\ update' = update /\ canPort' = canPort /\ tx' = tx
          /\ box' = box /\ rx' = rx /\ got' = got
      BY <2>4 DEF Send, NextPacket, txVars, rxVars
    <3>2. /\ pc' \in {"scan", "pack"} /\ no' \in Nat
          /\ pc' = "pack" => frame' = frame
      BY <2>4 DEF Send, NextPacket
    <3>3. mb' \in Seq(Sent)
      <4>1. PortNow \in Ports
        BY <2>4, PortsType DEF Send, PortNow
      <4>2. [tCyc EXCEPT !.port = PortNow] \in Sent
        BY <2>4, <4>1 DEF Send, Sent, Packet
      <4>3. mb' = mb \/ mb' = Append(mb, [tCyc EXCEPT !.port = PortNow])
        BY <2>4 DEF Send, NextPacket, CanSendBuffer
      <4>4. Append(mb, [tCyc EXCEPT !.port = PortNow]) \in Seq(Sent)
        BY <4>2, AppendProperties
      <4> QED
        BY <4>3, <4>4
    <3> QED
      BY <2>4, <3>1, <3>2, <3>3 DEF Send
  <2> QED
    BY <1>4, <2>1, <2>2, <2>3, <2>4 DEF TriggerMsgPush
<1>5. CASE CanTxService
  <2>1. CASE Receive
    <3>1. Head(mb) \in Sent /\ mb' \in Seq(Sent)
      BY <2>1, HeadTailProperties DEF Receive
    <3>2. tx' \in Slots
      BY <2>1, <3>1 DEF Receive, Slots
    <3> QED
      BY <2>1, <3>1, <3>2 DEF Receive, bufVars, sendVars, busVars, rxVars
  <2>2. CASE Transmit
    <3>1. tx \in Sent /\ tx.port \in Ports
      BY <2>2 DEF Transmit, Slots, Sent, Packet
    <3>2. Min(Free(tx.port)) \in 1 .. Boxes
      BY <2>2, <3>1, FirstFree DEF Transmit
    <3>3. box' \in [Ports -> [1 .. Boxes -> Slots]] /\ tx' \in Slots
      BY <2>2, <3>1, <3>2 DEF Transmit, Slots
    <3> QED
      BY <2>2, <3>3 DEF Transmit, bufVars, sendVars, rxVars
  <2>3. CASE NoMailBox
    BY <2>3 DEF NoMailBox, bufVars, sendVars, busVars, rxVars, Slots
  <2> QED
    BY <1>5, <2>1, <2>2, <2>3 DEF CanTxService
<1>6. ASSUME NEW p \in Ports, Controller(p) PROVE TxTypeOK'
  <2>1. CASE OnBus(p)
    <3>1. PICK b \in Waiting(p) :
            LET m == box[p][b]  r == Joined(rx[m.frame][p], m) IN
              /\ box' = [box EXCEPT ![p][b] = NoPacket]
              /\ rx' = [rx EXCEPT ![m.frame][p] = IF m.last THEN Nothing ELSE r]
              /\ got' = IF m.last /\ r # Nothing THEN [got EXCEPT ![m.frame][p] = m.ver] ELSE got
      BY <2>1 DEF OnBus
    <3> DEFINE m == box[p][b]
               r == Joined(rx[m.frame][p], m)
    <3>2. b \in 1 .. Boxes /\ m \in Sent
      BY FlowTypes DEF Waiting
    <3>3. m.frame \in Replies /\ m.ver \in Nat /\ m.no \in Nat
      BY <3>2 DEF Sent, Packet
    <3>4. box' \in [Ports -> [1 .. Boxes -> Slots]]
      BY <3>1, <3>2 DEF Slots
    <3>5. r \in [next : Nat, ver : Nat] /\ Nothing \in [next : Nat, ver : Nat]
      BY <3>3 DEF Joined, Nothing
    <3>6. rx' \in [Replies -> [Ports -> [next : Nat, ver : Nat]]]
      <4> HIDE DEF m, r
      <4>1. rx' = [rx EXCEPT ![m.frame][p] = IF m.last THEN Nothing ELSE r]
        BY <3>1 DEF m, r
      <4> QED
        BY <4>1, <3>3, <3>5
    <3>7. got' \in [Replies -> [Ports -> Nat]]
      <4> HIDE DEF m, r
      <4>1. got' = [got EXCEPT ![m.frame][p] = m.ver] \/ got' = got
        BY <3>1 DEF m, r
      <4>2. got \in [Replies -> [Ports -> Nat]]
        OBVIOUS
      <4>3. [got EXCEPT ![m.frame][p] = m.ver] \in [Replies -> [Ports -> Nat]]
        BY <4>2, <3>3
      <4> QED
        BY <4>1, <4>2, <4>3
    <3> QED
      BY <2>1, <3>4, <3>6, <3>7 DEF OnBus, bufVars, sendVars, txVars
  <2>2. CASE BusOffBegins(p) \/ BusOffEnds(p)
    BY <2>2 DEF BusOffBegins, BusOffEnds, bufVars, sendVars, txVars, rxVars
  <2> QED
    BY <1>6, <2>1, <2>2 DEF Controller
<1>7. CASE UNCHANGED vars
  BY <1>7 DEF vars, bufVars, sendVars, txVars, busVars, rxVars
<1> QED
  BY <1>2, <1>3, <1>4, <1>5, <1>6, <1>7 DEF Next
(***************************************************************************)
(* Steps that move no packet                                               *)
(***************************************************************************)
LEMMA SameWay ==
  ASSUME mb' = mb, tx' = tx, box' = box, Coming' = Coming
  PROVE  /\ InBoxes' = InBoxes /\ InHand' = InHand /\ Queued' = Queued
         /\ Behind' = Behind /\ Flow' = Flow
<1>1. InBoxes' = InBoxes /\ InHand' = InHand /\ Queued' = Queued
  BY DEF InBoxes, InHand, Queued
<1> QED
  BY <1>1 DEF Behind, Flow

Still == /\ mb' = mb /\ tx' = tx /\ box' = box /\ Coming' = Coming
         /\ canBuf' = canBuf /\ update' = update /\ canPort' = canPort
         /\ rx' = rx /\ got' = got /\ broken' = broken
         /\ crossed' = crossed /\ lost' = lost /\ overtaken' = overtaken

LEMMA StillKeeps ==
  ASSUME TxInv, Still,
         pc' \in {"wait", "scan"} => no' = 0, pc' = "send" => tCyc'.no = no',
         \A f \in Replies : Splitting(f)' => Splitting(f)
  PROVE  FitInv' /\ OrderInv' /\ AgeInv' /\ WholeInv'
<1>1. /\ InBoxes' = InBoxes /\ InHand' = InHand /\ Queued' = Queued
      /\ Behind' = Behind /\ Flow' = Flow
  BY SameWay DEF Still
<1>2. FitInv'
  BY <1>1 DEF TxInv, FitInv, Fits, Still
<1>3. OrderInv'
  <2>1. \A m, n : Follows(m, n)' = Follows(m, n)
    BY DEF Follows, Fair, Still
  <2>2. mb' = mb /\ Coming' = Coming /\ OrderInv
    BY DEF TxInv, Still
  <2> QED
    BY <1>1, <2>1, <2>2 DEF OrderInv
<1>4. AgeInv'
  BY <1>1 DEF TxInv, AgeInv, Still
<1>5. WholeInv'
  <2>1. AnswersWhole' /\ Apart'
    BY DEF TxInv, WholeInv, AnswersWhole, Apart, Fair, Still
  <2>2. \A m \in Flow : Unbroken(m) => Unbroken(m)'
    BY <1>1 DEF Unbroken, Continued, Still
  <2>3. \A f : Fair(f)' = Fair(f)
    BY DEF Fair, Still
  <2> QED
    BY <2>1, <2>2, <2>3, <1>1 DEF TxInv, WholeInv, Still
<1> QED
  BY <1>2, <1>3, <1>4, <1>5

LEMMA QuietKeeps ==
  ASSUME TxInv, NEW p \in Ports,
         \/ WaitEvent \/ ScanEnd \/ ScanSkip \/ Pack
         \/ BusOffBegins(p) \/ BusOffEnds(p) \/ UNCHANGED vars
  PROVE  FitInv' /\ OrderInv' /\ AgeInv' /\ WholeInv'
<1>0. TxTypeOK /\ FitInv
  BY DEF TxInv
<1>1. CASE WaitEvent \/ ScanEnd \/ ScanSkip
  <2>1. /\ mb' = mb /\ tx' = tx /\ box' = box /\ canBuf' = canBuf /\ update' = update
        /\ canPort' = canPort /\ rx' = rx /\ got' = got /\ broken' = broken
        /\ crossed' = crossed /\ lost' = lost /\ overtaken' = overtaken /\ no' = no
        /\ pc \in {"wait", "scan"} /\ pc' \in {"wait", "scan"}
    BY <1>1 DEF WaitEvent, ScanEnd, ScanSkip, bufVars, txVars, busVars, rxVars, history
  <2>2. Coming' = {} /\ Coming = {}
    BY <2>1 DEF Coming, Bare
  <2>3. no' = 0
    BY <2>1, <1>0 DEF FitInv
  <2>4. Still
    BY <2>1, <2>2 DEF Still
  <2> QED
    BY <2>1, <2>3, <2>4, StillKeeps DEF Splitting
<1>2. CASE Pack
  <2>1. /\ mb' = mb /\ tx' = tx /\ box' = box /\ canBuf' = canBuf /\ update' = update
        /\ canPort' = canPort /\ rx' = rx /\ got' = got /\ broken' = broken
        /\ crossed' = crossed /\ lost' = lost /\ overtaken' = overtaken /\ no' = no
        /\ pc = "pack" /\ pc' = "send" /\ frame' = frame
    BY <1>2 DEF Pack, bufVars, txVars, busVars, rxVars, history
  <2>p. Bare(tCyc') = Cut /\ tCyc'.no = no
    BY <1>2 DEF Pack, Cut, Bare
  <2>2. Coming' = Coming
    BY <2>1, <2>p DEF Coming, Bare
  <2>3. tCyc'.no = no'
    BY <2>1, <2>p
  <2>4. Still
    BY <2>1, <2>2 DEF Still
  <2> QED
    BY <2>1, <2>3, <2>4, StillKeeps DEF Splitting
<1>3. CASE BusOffBegins(p) \/ BusOffEnds(p) \/ UNCHANGED vars
  <2>1. /\ mb' = mb /\ tx' = tx /\ box' = box /\ canBuf' = canBuf /\ update' = update
        /\ canPort' = canPort /\ rx' = rx /\ got' = got /\ broken' = broken
        /\ crossed' = crossed /\ lost' = lost /\ overtaken' = overtaken /\ no' = no
        /\ pc' = pc /\ frame' = frame /\ tCyc' = tCyc
    BY <1>3 DEF BusOffBegins, BusOffEnds, bufVars, sendVars, txVars, busVars, rxVars, history,
                vars
  <2>2. Coming' = Coming
    BY <2>1 DEF Coming, Bare, Cut
  <2>3. Still
    BY <2>1, <2>2 DEF Still
  <2> QED
    BY <2>1, <2>3, <1>0, StillKeeps DEF Splitting, FitInv
<1> QED
  BY <1>1, <1>2, <1>3
(***************************************************************************)
(* A request                                                               *)
(***************************************************************************)
(* A reply of which a packet is on its way stays what it is, or is crossed. *)
LEMMA NoteKeeps ==
  ASSUME NEW f \in Replies, Note(f), TxTypeOK
  PROVE  /\ \A m \in Flow : /\ Fair(m.frame)' => Fair(m.frame) /\ m.frame # f
                            /\ m.frame \in overtaken => m.frame \in overtaken'
         /\ \A g : g # f => (Fair(g)' = Fair(g))
<1>1. \A m \in Flow : m.frame = f => UnderWay(f)
  BY ComingType DEF Flow, Behind, Coming, UnderWay, Splitting
<1> QED
  BY <1>1 DEF Note, Fair

LEMMA RequestKeeps ==
  ASSUME TxInv, NEW f \in Replies, SendCan(f), Note(f),
         UNCHANGED <<sendVars, mb, txVars, busVars, rx, got>>,
         \/ f \in Own /\ canPort' = canPort
         \/ \E p \in Ports : canPort' = [canPort EXCEPT ![f] = p]
  PROVE  FitInv' /\ OrderInv' /\ AgeInv' /\ WholeInv'
<1>0. TxTypeOK /\ FitInv /\ OrderInv /\ AgeInv /\ WholeInv
  BY DEF TxInv
<1>1. /\ mb' = mb /\ tx' = tx /\ box' = box /\ rx' = rx /\ got' = got
      /\ pc' = pc /\ frame' = frame /\ no' = no /\ tCyc' = tCyc
      /\ update' = update \cup {f}
  BY DEF SendCan, sendVars, txVars, busVars
<1>2. /\ canBuf \in [Replies -> Nat] /\ canBuf' \in [Replies -> Nat]
      /\ canBuf'[f] = canBuf[f] + 1
      /\ \A g \in Replies : g # f => canBuf'[g] = canBuf[g] /\ canPort'[g] = canPort[g]
      /\ \A g \in Replies : canBuf[g] <= canBuf'[g]
  BY <1>0 DEF SendCan, TxTypeOK
<1>3. InBoxes' = InBoxes /\ InHand' = InHand /\ Queued' = Queued
  BY <1>1 DEF InBoxes, InHand, Queued
<1>4. \A n \in Coming' :
        /\ n.frame = frame /\ frame \in Replies /\ n.ver \in Nat
        /\ frame # f => n \in Coming
        /\ \E c \in Coming : /\ c.frame = n.frame /\ c.no = n.no /\ c.last = n.last
                             /\ c.ver \in Nat /\ c.ver <= n.ver
                             /\ n.ver <= canBuf'[frame]
  <2>1. CASE pc = "pack"
    <3>1. Coming = {Cut} /\ Coming' = {Cut'} /\ frame \in Replies
      BY <2>1, <1>0, <1>1 DEF Coming, TxTypeOK
    <3>2. frame # f => Cut' = Cut
      BY <3>1, <1>1, <1>2 DEF Cut
    <3>3. /\ Cut.frame = frame /\ Cut.no = no /\ Cut.last = (no + 1 = Packets[frame])
          /\ Cut.ver = canBuf[frame]
          /\ Cut'.frame = frame /\ Cut'.no = no /\ Cut'.last = (no + 1 = Packets[frame])
          /\ Cut'.ver = canBuf'[frame]
      BY <1>1 DEF Cut
    <3>4. canBuf[frame] \in Nat /\ canBuf'[frame] \in Nat /\ canBuf[frame] <= canBuf'[frame]
      BY <3>1, <1>2
    <3> HIDE DEF Cut
    <3> QED
      BY <3>1, <3>2, <3>3, <3>4
  <2>2. CASE pc = "send"
    <3>t. PICK t : t = Bare(tCyc)
      OBVIOUS
    <3>1. Coming = {t} /\ Coming' = {t}
      BY <2>2, <1>1, <3>t DEF Coming, Bare
    <3>2. t.frame = frame /\ frame \in Replies /\ t.ver \in Nat
      BY <2>2, <3>t, <1>0, ComingType DEF TxTypeOK, Packet
    <3>3. t.ver <= canBuf[frame]
      BY <3>1, <3>2, <1>0 DEF FitInv, Fits, Flow, Behind
    <3>4. canBuf[frame] \in Nat /\ canBuf'[frame] \in Nat /\ canBuf[frame] <= canBuf'[frame]
      BY <3>2, <1>2
    <3> QED
      BY <3>1, <3>2, <3>3, <3>4
  <2>3. CASE pc \notin {"pack", "send"}
    BY <2>3, <1>1 DEF Coming, Bare
  <2> QED
    BY <2>1, <2>2, <2>3
<1>5. \A m \in Flow : /\ Fair(m.frame)' => Fair(m.frame) /\ m.frame # f
                      /\ m.frame \in overtaken => m.frame \in overtaken'
  BY <1>0, NoteKeeps
<1>6. \A m : m.frame # f => (m \in Flow <=> m \in Flow')
  <2>1. \A m : m.frame # f => (m \in Coming <=> m \in Coming')
    <3>1. CASE frame = f
      BY <3>1, <1>4, <1>0, ComingType
    <3>2. CASE frame # f
      <4>1. CASE pc = "pack"
        <5>1. Cut' = Cut
          BY <4>1, <3>2, <1>0, <1>1, <1>2 DEF Cut, TxTypeOK
        <5> QED
          BY <4>1, <5>1, <1>1 DEF Coming
      <4>2. CASE pc # "pack"
        BY <4>2, <1>1 DEF Coming, Bare
      <4> QED
        BY <4>1, <4>2
    <3> QED
      BY <3>1, <3>2
  <2> QED
    BY <2>1, <1>3 DEF Flow, Behind
<1>7. FitInv'
  <2>1. ASSUME NEW m \in Flow' PROVE Fits(m)'
    <3>1. CASE m \in InBoxes \cup InHand \cup Queued
      <4>1. m \in Flow /\ m \in Sent
        BY <3>1, <1>0, FlowTypes DEF Flow, Behind
      <4>2. m.frame \in Replies /\ m.ver \in Nat
        BY <4>1 DEF Sent, Packet
      <4> QED
        BY <4>1, <4>2, <1>0, <1>2 DEF FitInv, Fits
    <3>2. CASE m \in Coming'
      <4>1. PICK c \in Coming : /\ c.frame = m.frame /\ c.no = m.no /\ c.last = m.last
                                /\ m.ver <= canBuf'[m.frame]
        BY <3>2, <1>4
      <4>2. c \in Flow
        BY DEF Flow, Behind
      <4> QED
        BY <4>1, <4>2, <1>0 DEF FitInv, Fits
    <3> QED
      BY <3>1, <3>2, <1>3 DEF Flow, Behind
  <2>2. ASSUME NEW g \in Replies, canPort'[g] = PORTx, g \in update' \/ Splitting(g)'
        PROVE  g \in Own
    <3>1. CASE g = f
      BY <3>1, <2>2, <1>0, PortsType DEF TxTypeOK
    <3>2. CASE g # f
      BY <3>2, <2>2, <1>0, <1>1, <1>2 DEF FitInv, Splitting
    <3> QED
      BY <3>1, <3>2
  <2> QED
    BY <2>1, <2>2, <1>0, <1>1 DEF FitInv
<1>8. OrderInv'
  <2>1. ASSUME NEW m, NEW n, Follows(m, n), m \in Flow PROVE Follows(m, n)'
    BY <2>1, <1>5 DEF Follows
  <2>2. InBoxes \cup InHand \cup Queued \subseteq Flow /\ \A i \in 1 .. Len(mb) : mb[i] \in Flow
    BY <1>0, FlowTypes DEF Flow, Behind
  <2>3. ASSUME NEW m \in InBoxes \cup InHand \cup Queued, NEW n \in Coming'
        PROVE  Follows(m, n)'
    <3>1. PICK c \in Coming : /\ c.frame = n.frame /\ c.no = n.no
                              /\ c.ver \in Nat /\ n.ver \in Nat /\ c.ver <= n.ver
      BY <1>4
    <3>2. Follows(m, c)
      BY <1>0 DEF OrderInv
    <3>3. m.ver \in Nat
      BY <1>0, FlowTypes DEF Sent, Packet
    <3>4. Follows(m, n)
      BY <3>1, <3>2, <3>3 DEF Follows
    <3> QED
      BY <3>4, <2>1, <2>2
  <2> QED
    BY <2>1, <2>2, <2>3, <1>0, <1>1, <1>3 DEF OrderInv
<1>9. AgeInv'
  <2>1. ASSUME NEW g \in Replies, NEW q \in Ports
        PROVE  got'[g][q] <= canBuf'[g] /\ rx'[g][q].ver <= canBuf'[g]
    <3>1. got[g][q] \in Nat /\ rx[g][q].ver \in Nat /\ canBuf[g] \in Nat /\ canBuf'[g] \in Nat
      BY <1>0, <1>2 DEF TxTypeOK
    <3>2. got[g][q] <= canBuf[g] /\ rx[g][q].ver <= canBuf[g]
      BY <1>0 DEF AgeInv
    <3>3. canBuf[g] <= canBuf'[g]
      BY <1>0, <1>2
    <3> QED
      BY <1>1, <3>1, <3>2, <3>3
  <2>2. ASSUME NEW m \in Behind', NEW q \in Ports PROVE got'[m.frame][q] <= m.ver
    <3>1. CASE m \in Behind
      BY <3>1, <1>0, <1>1 DEF AgeInv
    <3>2. CASE m \in Coming'
      <4>1. PICK c \in Coming : /\ c.frame = m.frame /\ c.ver \in Nat /\ m.ver \in Nat
                                /\ c.ver <= m.ver /\ m.frame \in Replies
        BY <3>2, <1>4
      <4>2. got[c.frame][q] <= c.ver
        BY <1>0 DEF AgeInv, Behind
      <4>3. got[c.frame][q] \in Nat
        BY <4>1, <1>0 DEF TxTypeOK
      <4> QED
        BY <4>1, <4>2, <4>3, <1>1
    <3> QED
      BY <3>1, <3>2, <1>3 DEF Behind
  <2>3. \A q \in Ports, b \in 1 .. Boxes :
          box[q][b] # NoPacket /\ box[q][b].frame \in overtaken =>
            box[q][b].frame \in overtaken'
    BY <1>0, <1>5, FlowTypes DEF Flow
  <2>4. box' = box /\ got' = got
    BY <1>1
  <2>5. AgeInv
    BY <1>0
  <2> QED
    BY <2>1, <2>2, <2>3, <2>4, <2>5 DEF AgeInv
<1>10. WholeInv'
  <2>1. AnswersWhole'
    BY <1>0 DEF WholeInv, AnswersWhole, Note
  <2>2. Apart'
    <3>0. \A q \in Ports, b \in 1 .. Boxes : box[q][b] # NoPacket => box[q][b] \in Flow
      BY <1>0, FlowTypes DEF Flow
    <3>1. ASSUME NEW q \in Ports, NEW b \in 1 .. Boxes,
                 box[q][b] # NoPacket, Fair(box[q][b].frame)'
          PROVE  Fair(box[q][b].frame)
      <4>1. box[q][b] \in Flow
        BY <3>0, <3>1
      <4> QED
        BY <4>1, <3>1, <1>1, <1>5
    <3> QED
      BY <3>1, <1>0, <1>1 DEF WholeInv, Apart
  <2>3. ASSUME NEW g \in update', NEW q \in Ports, Fair(g)'
        PROVE  rx'[g][q].ver < canBuf'[g]
    <3>1. CASE g = f
      <4>1. rx[f][q].ver <= canBuf[f] /\ rx[f][q].ver \in Nat /\ canBuf[f] \in Nat
        BY <1>0 DEF AgeInv, TxTypeOK
      <4> QED
        BY <4>1, <3>1, <1>1, <1>2
    <3>2. CASE g # f
      <4>1. g \in update /\ Fair(g) /\ g \in Replies
        BY <3>2, <2>3, <1>0, <1>1, NoteKeeps DEF TxTypeOK
      <4> QED
        BY <4>1, <3>2, <1>0, <1>1, <1>2 DEF WholeInv
    <3> QED
      BY <3>1, <3>2
  <2>4. ASSUME NEW m \in Flow', Fair(m.frame)' PROVE Unbroken(m)'
    <3>1. PICK c \in Flow : c.frame = m.frame /\ c.frame \in Replies
      <4>1. CASE m \in InBoxes \cup InHand \cup Queued
        BY <4>1, <1>0, FlowTypes DEF Flow, Behind, Sent, Packet
      <4>2. CASE m \in Coming'
        BY <4>2, <1>4 DEF Flow, Behind
      <4> QED
        BY <4>1, <4>2, <1>3 DEF Flow, Behind
    <3>2. Fair(m.frame) /\ m.frame # f /\ m \in Flow
      BY <3>1, <2>4, <1>5, <1>6
    <3>3. Unbroken(m)
      BY <3>2, <1>0 DEF WholeInv
    <3>4. Continued(m)'
      <4>1. \A n \in Flow : n.frame = m.frame => n \in Flow'
        BY <3>2, <1>6
      <4>2. canPort'[m.frame] = canPort[m.frame]
        BY <3>1, <3>2, <1>2
      <4> QED
        BY <4>1, <4>2, <3>3, <1>1 DEF Unbroken, Continued
    <3> QED
      BY <3>1, <3>2, <3>3, <3>4, <1>1, <1>2 DEF Unbroken
  <2> QED
    BY <2>1, <2>2, <2>3, <2>4 DEF WholeInv
<1> QED
  BY <1>7, <1>8, <1>9, <1>10
(***************************************************************************)
(* The way of a packet up to the mailboxes                                 *)
(***************************************************************************)
(* A packet of an answer of which nothing is lost stays what it is as long  *)
(* as each packet of it stays on its way.                                   *)
LEMMA UnbrokenKeeps ==
  ASSUME WholeInv, NEW m \in Flow, Fair(m.frame)',
         crossed' = crossed, lost \subseteq lost', overtaken \subseteq overtaken',
         update' \subseteq update,
         canBuf' = canBuf, canPort' = canPort, rx' = rx,
         \A n \in Flow : n.frame = m.frame =>
            \E k \in Flow' : k.frame = n.frame /\ k.no = n.no
  PROVE  Unbroken(m)'
<1>1. Fair(m.frame)
  BY DEF Fair
<1>2. Unbroken(m)
  BY <1>1 DEF WholeInv
<1>3. Continued(m)'
  BY <1>2 DEF Unbroken, Continued
<1> QED
  BY <1>2, <1>3 DEF Unbroken

LEMMA TakeKeeps ==
  ASSUME TxInv, ScanTake
  PROVE  FitInv' /\ OrderInv' /\ AgeInv' /\ WholeInv'
<1>0. TxTypeOK /\ FitInv /\ OrderInv /\ AgeInv /\ WholeInv
  BY DEF TxInv
<1>1. /\ mb' = mb /\ tx' = tx /\ box' = box /\ canBuf' = canBuf /\ canPort' = canPort
      /\ rx' = rx /\ got' = got /\ broken' = broken /\ crossed' = crossed /\ lost' = lost
      /\ overtaken' = overtaken /\ no' = no /\ frame' = frame
      /\ pc = "scan" /\ pc' = "pack" /\ frame \in update /\ update' = update \ {frame}
  BY DEF ScanTake, txVars, busVars, rxVars, history
<1>2. /\ frame \in Replies /\ no = 0 /\ canBuf[frame] \in Nat
      /\ Packets[frame] \in Nat \ {0}
  BY <1>0, <1>1, RepliesType DEF TxTypeOK, FitInv
<1>n. PICK n : n = Cut'
  OBVIOUS
<1>3. /\ Coming = {} /\ Coming' = {n}
      /\ n.frame = frame /\ n.no = 0 /\ n.ver = canBuf[frame] /\ n.port = 0
      /\ n.last = (0 + 1 = Packets[frame])
  BY <1>1, <1>2, <1>n DEF Coming, Bare, Cut
<1>4. /\ InBoxes' = InBoxes /\ InHand' = InHand /\ Queued' = Queued
      /\ Flow = InBoxes \cup InHand \cup Queued
      /\ Flow' = Flow \cup {n} /\ Behind' = Behind \cup {n}
  <2>1. InBoxes' = InBoxes /\ InHand' = InHand /\ Queued' = Queued
    BY <1>1 DEF InBoxes, InHand, Queued
  <2> QED
    BY <2>1, <1>3 DEF Flow, Behind
<1>5. \A m \in Flow : m.ver \in Nat /\ (Fair(m.frame) => m.frame # frame)
  BY <1>0, <1>1, <1>4, FlowTypes DEF WholeInv, Unbroken, Sent, Packet
<1>6. \A g : Fair(g)' = Fair(g)
  BY <1>1 DEF Fair
<1>7. FitInv'
  <2>1. Fits(n)'
    BY <1>1, <1>2, <1>3 DEF Fits
  <2>2. \A m \in Flow : Fits(m)'
    BY <1>0, <1>1 DEF FitInv, Fits
  <2>3. \A g \in Replies : canPort'[g] = PORTx /\ (g \in update' \/ Splitting(g)') => g \in Own
    BY <1>0, <1>1 DEF FitInv, Splitting
  <2> QED
    BY <2>1, <2>2, <2>3, <1>0, <1>1, <1>4 DEF FitInv
<1>8. OrderInv'
  <2>1. \A m, k : Follows(m, k)' = Follows(m, k)
    BY <1>6 DEF Follows
  <2>2. \A m \in Flow : Follows(m, n)
    BY <1>0, <1>3, <1>5 DEF Follows, FitInv, Fits
  <2> QED
    BY <2>1, <2>2, <1>0, <1>1, <1>3, <1>4 DEF OrderInv
<1>9. AgeInv'
  <2>1. \A p \in Ports : got[n.frame][p] <= n.ver
    BY <1>0, <1>2, <1>3 DEF AgeInv
  <2> QED
    BY <2>1, <1>0, <1>1, <1>4 DEF AgeInv
<1>10. WholeInv'
  <2>1. AnswersWhole' /\ Apart'
    BY <1>0, <1>1, <1>6 DEF WholeInv, AnswersWhole, Apart
  <2>2. ASSUME NEW m \in Flow, Fair(m.frame)' PROVE Unbroken(m)'
    BY <2>2, <1>0, <1>1, <1>4, UnbrokenKeeps
  <2>3. ASSUME Fair(frame) PROVE Unbroken(n)'
    <3>1. \A p \in Ports : rx[frame][p].ver < canBuf[frame] /\ rx[frame][p].ver \in Nat
      BY <2>3, <1>0, <1>1, <1>2 DEF WholeInv, TxTypeOK
    <3>2. \A p \in Ports : rx[frame][p].ver # canBuf[frame]
      BY <3>1, <1>2
    <3>3. Continued(n)'
      BY <1>3 DEF Continued
    <3> QED
      BY <3>2, <3>3, <1>1, <1>3 DEF Unbroken
  <2>4. \A g \in update', p \in Ports : Fair(g)' => rx'[g][p].ver < canBuf'[g]
    BY <1>0, <1>1, <1>6 DEF WholeInv
  <2> QED
    BY <2>1, <2>2, <2>3, <2>4, <1>3, <1>4, <1>6 DEF WholeInv
<1> QED
  BY <1>7, <1>8, <1>9, <1>10
(* The packet goes to the end of the queue, or is lost with nobody told.    *)
LEMMA SendKeeps ==
  ASSUME TxInv, Send
  PROVE  FitInv' /\ OrderInv' /\ AgeInv' /\ WholeInv'
<1>0. TxTypeOK /\ FitInv /\ OrderInv /\ AgeInv /\ WholeInv
  BY DEF TxInv
<1>f. PICK f : f = frame
  OBVIOUS
<1>1. /\ tx' = tx /\ box' = box /\ canBuf' = canBuf /\ canPort' = canPort
      /\ update' = update /\ rx' = rx /\ got' = got /\ broken' = broken
      /\ crossed' = crossed /\ overtaken' = overtaken
      /\ pc = "send"
  BY DEF Send, NextPacket, txVars, rxVars
<1>t. PICK t : t = Bare(tCyc)
  OBVIOUS
<1>2. /\ tCyc \in Packet({0}) /\ tCyc.frame = frame /\ tCyc.no = no
      /\ frame \in Replies /\ no \in Nat /\ canBuf[frame] \in Nat
      /\ Packets[frame] \in Nat /\ tCyc.ver \in Nat
      /\ t \in Packet({0}) /\ t.frame = frame /\ t.no = no
      /\ t.ver = tCyc.ver /\ t.last = tCyc.last
      /\ Coming = {t} /\ t \in Flow /\ t \in Behind
  <2>1. /\ tCyc \in Packet({0}) /\ tCyc.frame = frame /\ tCyc.no = no
        /\ frame \in Replies /\ no \in Nat /\ canBuf[frame] \in Nat
        /\ Packets[frame] \in Nat
    BY <1>0, <1>1, RepliesType DEF TxTypeOK, FitInv
  <2>2. tCyc.ver \in Nat
    BY <2>1 DEF Packet
  <2>3. /\ Coming = {t} /\ Coming \subseteq Packet({0})
        /\ t.frame = tCyc.frame /\ t.no = tCyc.no
        /\ t.ver = tCyc.ver /\ t.last = tCyc.last
    BY <1>0, <1>1, <1>t, ComingType
  <2>4. t \in Flow /\ t \in Behind
    BY <2>3 DEF Flow, Behind
  <2> QED
    BY <2>1, <2>2, <2>3, <2>4
<1>3. /\ Fits(t) /\ no < Packets[frame] /\ tCyc.ver <= canBuf[frame]
      /\ tCyc.last = (no + 1 = Packets[frame])
  BY <1>0, <1>2 DEF FitInv, Fits
<1>p. PortNow \in Ports
  BY <1>0, <1>2, PortsType DEF PortNow, TxTypeOK
<1>s. PICK s : s = [tCyc EXCEPT !.port = PortNow]
  OBVIOUS
<1>4. /\ s \in Sent /\ s.frame = frame /\ s.no = no /\ s.ver = tCyc.ver
      /\ s.last = tCyc.last /\ s.port = PortNow
  BY <1>p, <1>2, <1>s DEF Sent, Packet
<1>5. /\ lost \subseteq lost'
      /\ \/ mb' = Append(mb, s) /\ lost' = lost
         \/ mb' = mb /\ frame \in lost'
  BY <1>4, <1>s DEF Send, NextPacket, CanSendBuffer
<1>6. /\ Len(mb) \in Nat /\ \A i \in 1 .. Len(mb) : mb[i] \in Queued
      /\ \/ lost' = lost /\ Len(mb') = Len(mb) + 1 /\ mb'[Len(mb) + 1] = s
         \/ frame \in lost' /\ Len(mb') = Len(mb)
      /\ \A i \in 1 .. Len(mb) : mb'[i] = mb[i]
  <2>1. mb \in Seq(Sent)
    BY <1>0 DEF TxTypeOK
  <2>2. CASE mb' = Append(mb, s) /\ lost' = lost
    BY <2>1, <2>2, <1>0, <1>4, AppendProperties, FlowTypes
  <2>3. CASE mb' = mb /\ frame \in lost'
    BY <2>3, <1>0, FlowTypes
  <2> QED
    BY <2>2, <2>3, <1>5
<1>7. /\ InBoxes' = InBoxes /\ InHand' = InHand
      /\ Queued \subseteq Queued' /\ Queued' \subseteq Queued \cup {s}
      /\ frame \in lost' \/ s \in Queued'
  <2>1. InBoxes' = InBoxes /\ InHand' = InHand
    BY <1>1 DEF InBoxes, InHand
  <2>2. Queued \subseteq Queued' /\ Queued' \subseteq Queued \cup {s}
    BY <1>6 DEF Queued
  <2>3. frame \in lost' \/ s \in Queued'
    BY <1>6 DEF Queued
  <2> QED
    BY <2>1, <2>2, <2>3
<1>8. PICK n : n = Cut'
  OBVIOUS
<1>9. /\ Coming' = IF tCyc.last THEN {} ELSE {n}
      /\ ~tCyc.last => /\ n.frame = frame /\ n.no = no + 1 /\ n.ver = canBuf[frame]
                       /\ n.port = 0 /\ n.last = ((no + 1) + 1 = Packets[frame])
      /\ pc' = IF tCyc.last THEN "scan" ELSE "pack"
      /\ pc' = "scan" => no' = 0
      /\ \A g \in Replies : Splitting(g)' => Splitting(g)
  <2>1. CASE tCyc.last
    <3>1. pc' = "scan" /\ no' = 0
      BY <2>1 DEF Send, NextPacket
    <3> QED
      BY <3>1, <2>1 DEF Coming, Splitting
  <2>2. CASE ~tCyc.last
    <3>1. pc' = "pack" /\ no' = no + 1 /\ frame' = frame
      BY <2>2 DEF Send, NextPacket
    <3> QED
      BY <3>1, <2>2, <1>1, <1>8 DEF Coming, Cut, Splitting
  <2> QED
    BY <2>1, <2>2
<1>10. /\ \A m \in Flow' : m \in Flow \/ m = s \/ (m = n /\ ~tCyc.last)
       /\ \A m \in Behind' : m \in Behind \/ m = s \/ (m = n /\ ~tCyc.last)
       /\ \A m \in Flow : m \in Flow' \/ m = t
       /\ \A m \in InBoxes \cup InHand \cup Queued : m \in Flow /\ m.ver \in Nat
  BY <1>0, <1>2, <1>7, <1>9, FlowTypes DEF Flow, Behind, Sent, Packet
<1>11. \A g : Fair(g)' => Fair(g) /\ ~(g = frame /\ frame \in lost')
  BY <1>1, <1>5 DEF Fair
<1>12. FitInv'
  <2>1. Fits(s)'
    BY <1>1, <1>3, <1>4, <1>2 DEF Fits
  <2>2. ASSUME ~tCyc.last PROVE Fits(n)'
    <3>1. no + 1 < Packets[frame]
      <4>1. no + 1 # Packets[frame]
        BY <2>2, <1>3, Zenon
      <4> QED
        BY <4>1, <1>2, <1>3
    <3> QED
      BY <3>1, <2>2, <1>1, <1>9, <1>2 DEF Fits
  <2>3. \A m \in Flow : Fits(m)'
    BY <1>0, <1>1 DEF FitInv, Fits
  <2> QED
    BY <2>1, <2>2, <2>3, <1>0, <1>1, <1>9, <1>10 DEF FitInv
<1>13. OrderInv'
  <2>1. \A m, k : Follows(m, k) => Follows(m, k)'
    BY <1>11 DEF Follows
  <2>2. \A m : Follows(m, t) => Follows(m, s)
    BY <1>2, <1>4 DEF Follows
  <2>3. \A m \in InBoxes \cup InHand \cup Queued : Follows(m, t) /\ Follows(m, s)'
    BY <2>1, <2>2, <1>0, <1>2 DEF OrderInv
  <2>4. ASSUME NEW i \in 1 .. Len(mb'), NEW j \in 1 .. Len(mb'), i < j,
               NEW m, NEW k, m = mb'[i], k = mb'[j]
        PROVE  Follows(m, k)'
    <3>1. i \in 1 .. Len(mb) /\ m = mb[i] /\ m \in Queued
      BY <2>4, <1>6
    <3>2. CASE j \in 1 .. Len(mb)
      <4>1. Follows(m, k)
        BY <3>1, <3>2, <2>4, <1>0, <1>6 DEF OrderInv
      <4> QED
        BY <4>1, <2>1
    <3>3. CASE j \notin 1 .. Len(mb)
      <4>1. k = s
        BY <3>3, <2>4, <1>6
      <4> QED
        BY <4>1, <3>1, <2>3
    <3> QED
      BY <3>2, <3>3
  <2>5. ASSUME NEW m \in InBoxes \cup InHand \cup Queued', ~tCyc.last
        PROVE  Follows(m, n)'
    <3>1. CASE m = s
      BY <3>1, <2>5, <1>2, <1>3, <1>4, <1>9 DEF Follows
    <3>2. CASE m \in InBoxes \cup InHand \cup Queued
      <4>1. Follows(m, t) /\ Fits(m) /\ m.no \in Nat
        BY <3>2, <2>3, <1>0, <1>10, FlowTypes DEF FitInv, Sent, Packet
      <4>2. m.frame = frame => m.ver <= canBuf[frame] /\ (Fair(m.frame) => m.no < no + 1)
        BY <4>1, <1>2 DEF Follows, Fits
      <4>3. Follows(m, n)
        BY <4>2, <2>5, <1>9 DEF Follows
      <4> QED
        BY <4>3, <2>1
    <3> QED
      BY <3>1, <3>2, <1>7
  <2>6. /\ \A m \in InHand, k \in Queued' : Follows(m, k)'
        /\ \A m \in InBoxes, k \in InHand \cup Queued' : Follows(m, k)'
    BY <2>1, <2>3, <1>0, <1>7 DEF OrderInv
  <2>7. /\ \A m \in InHand', k \in Queued' : Follows(m, k)'
        /\ \A m \in InBoxes', k \in InHand' \cup Queued' : Follows(m, k)'
    BY <2>6, <1>7
  <2>8. \A m \in InBoxes' \cup InHand' \cup Queued', k \in Coming' : Follows(m, k)'
    BY <2>5, <1>7, <1>9
  <2> QED
    BY <2>4, <2>7, <2>8 DEF OrderInv
<1>14. AgeInv'
  <2>1. \A p \in Ports : got[frame][p] <= t.ver /\ got[frame][p] <= canBuf[frame]
    BY <1>0, <1>2 DEF AgeInv
  <2>2. \A m \in Behind', p \in Ports : got[m.frame][p] <= m.ver
    BY <2>1, <1>0, <1>2, <1>4, <1>9, <1>10 DEF AgeInv
  <2> QED
    BY <2>2, <1>0, <1>1 DEF AgeInv
<1>15. WholeInv'
  <2>1. AnswersWhole' /\ Apart'
    BY <1>0, <1>1, <1>5, <1>11 DEF WholeInv, AnswersWhole, Apart
  <2>2. \A g \in update', p \in Ports : Fair(g)' => rx'[g][p].ver < canBuf'[g]
    BY <1>0, <1>1, <1>11 DEF WholeInv
  <2>3. \A m \in Flow : Fair(m.frame)' =>
          \E k \in Flow' : k.frame = m.frame /\ k.no = m.no
    <3>1. Fair(f)' => s \in Flow'
      BY <1>f, <1>7, <1>11 DEF Flow, Behind
    <3> QED
      BY <3>1, <1>f, <1>2, <1>4, <1>10
  <2>4. ASSUME NEW m \in Flow, Fair(m.frame)' PROVE Unbroken(m)'
    <3>1. \A k \in Flow : k.frame = m.frame => \E j \in Flow' : j.frame = k.frame /\ j.no = k.no
      BY <2>3, <2>4
    <3> QED
      BY <3>1, <2>4, <1>0, <1>1, <1>5, UnbrokenKeeps
  <2>5. ASSUME Fair(f)' PROVE Unbroken(s)' /\ (~tCyc.last => Unbroken(n)')
    <3>1. s \in Flow'
      BY <2>5, <1>f, <1>7, <1>11 DEF Flow, Behind
    <3>2. /\ frame \notin update' /\ tCyc.ver = canBuf'[frame]
          /\ \A p \in Ports : rx'[frame][p].ver = tCyc.ver => rx'[frame][p].next <= no
          /\ \/ no = 0
             \/ rx'[frame][canPort'[frame]] = [next |-> no, ver |-> tCyc.ver]
             \/ \E k \in Flow' : k.frame = frame /\ k.no + 1 = no
      <4>2. Unbroken(t)
        BY <1>0, <1>2, <1>f, <1>11, <2>5 DEF WholeInv
      <4>3. \/ no = 0
            \/ rx[frame][canPort[frame]] = [next |-> no, ver |-> tCyc.ver]
            \/ \E k \in Flow : k.frame = frame /\ k.no + 1 = no
        BY <4>2, <1>2 DEF Unbroken, Continued
      <4>4. \A k \in Flow : k.frame = frame =>
               \E j \in Flow' : j.frame = k.frame /\ j.no = k.no
        BY <2>3, <2>5, <1>f
      <4>5. (\E k \in Flow : k.frame = frame /\ k.no + 1 = no)
              => \E k \in Flow' : k.frame = frame /\ k.no + 1 = no
        BY <4>4
      <4> QED
        BY <4>2, <4>3, <4>5, <1>1, <1>2 DEF Unbroken
    <3>3. Packets[frame] > 1 => PortNow = canPort[frame]
      <4>1. canPort[frame] = PORTx => frame \in Own
        BY <1>0, <1>1, <1>2 DEF FitInv, Splitting
      <4>2. frame \in Own => Packets[frame] = 1
        BY TxAssumption
      <4> QED
        BY <4>1, <4>2 DEF PortNow
    <3>4. Unbroken(s)'
      BY <3>2, <3>3, <1>1, <1>4 DEF Unbroken, Continued
    <3>5. ASSUME ~tCyc.last PROVE Unbroken(n)'
      <4>1. Continued(n)'
        BY <3>1, <3>5, <1>4, <1>9 DEF Continued
      <4>2. \A p \in Ports : rx'[frame][p].ver = tCyc.ver => rx'[frame][p].next <= no + 1
        <5>1. \A p \in Ports : rx'[frame][p].next \in Nat
          BY <1>0, <1>1, <1>2 DEF TxTypeOK
        <5> QED
          BY <5>1, <3>2, <1>2
      <4> QED
        BY <4>1, <4>2, <3>2, <3>5, <1>1, <1>9 DEF Unbroken
    <3> QED
      BY <3>4, <3>5
  <2> QED
    BY <2>1, <2>2, <2>4, <2>5, <1>f, <1>4, <1>9, <1>10 DEF WholeInv
<1> QED
  BY <1>12, <1>13, <1>14, <1>15
(* can_tx takes the oldest packet, or is ended by it.                       *)
LEMMA ReceiveKeeps ==
  ASSUME TxInv, Receive
  PROVE  FitInv' /\ OrderInv' /\ AgeInv' /\ WholeInv'
<1>0. TxTypeOK /\ FitInv /\ OrderInv /\ AgeInv /\ WholeInv
  BY DEF TxInv
<1>1. /\ box' = box /\ canBuf' = canBuf /\ canPort' = canPort /\ update' = update
      /\ rx' = rx /\ got' = got /\ broken' = broken /\ crossed' = crossed
      /\ overtaken' = overtaken /\ pc' = pc /\ frame' = frame /\ no' = no /\ tCyc' = tCyc
      /\ tx = NoPacket /\ mb # <<>> /\ mb' = Tail(mb)
  BY DEF Receive, bufVars, sendVars, busVars, rxVars
<1>h. PICK h : h = Head(mb)
  OBVIOUS
<1>2. /\ Len(mb) \in Nat /\ Len(mb) > 0 /\ Len(mb') = Len(mb) - 1
      /\ \A i \in 1 .. Len(mb') : mb'[i] = mb[i + 1]
      /\ h = mb[1] /\ h \in Sent /\ h \in Queued /\ h \in Flow
  <2>1. mb \in Seq(Sent)
    BY <1>0 DEF TxTypeOK
  <2>2. /\ Len(mb) \in Nat /\ Len(mb) > 0 /\ Len(mb') = Len(mb) - 1
        /\ \A i \in 1 .. Len(mb') : mb'[i] = mb[i + 1]
        /\ h = mb[1]
    BY <2>1, <1>1, <1>h, HeadTailProperties, LenProperties, EmptySeq
  <2>3. h \in Sent /\ h \in Queued
    BY <2>1, <2>2, ElementOfSeq DEF Queued
  <2> QED
    BY <2>2, <2>3 DEF Flow, Behind
<1>3. /\ lost \subseteq lost'
      /\ \/ InHand' = {h} /\ lost' = lost
         \/ InHand' = {} /\ h.frame \in lost'
  <2>1. h.frame # 0
    BY <1>2, RepliesType DEF Sent, Packet
  <2>2. CASE h.port \in busOff
    <3>1. lost' = lost \cup {h.frame} /\ tx' = tx
      BY <2>2, <1>h DEF Receive
    <3> QED
      BY <3>1, <1>1, NoPacketIsNone DEF InHand
  <2>3. CASE h.port \notin busOff
    <3>1. lost' = lost /\ tx' = h
      BY <2>3, <1>h DEF Receive
    <3> QED
      BY <3>1, <2>1 DEF InHand
  <2> QED
    BY <2>2, <2>3
<1>4. /\ \A i \in 1 .. Len(mb') : i + 1 \in 1 .. Len(mb) /\ mb'[i] \in Queued
      /\ Queued' \subseteq Queued /\ Queued \subseteq Queued' \cup {h}
  <2>1. \A i \in 1 .. Len(mb') : i + 1 \in 1 .. Len(mb) /\ mb'[i] \in Queued
    BY <1>2 DEF Queued
  <2>2. Queued' \subseteq Queued
    BY <2>1 DEF Queued
  <2>3. ASSUME NEW m \in Queued, m # h PROVE m \in Queued'
    <3>1. PICK i \in 1 .. Len(mb) : m = mb[i]
      BY DEF Queued
    <3>2. i - 1 \in 1 .. Len(mb') /\ (i - 1) + 1 = i
      BY <3>1, <2>3, <1>2
    <3>3. m = mb'[i - 1]
      BY <3>1, <3>2, <1>2
    <3> QED
      BY <3>2, <3>3 DEF Queued
  <2> QED
    BY <2>1, <2>2, <2>3
<1>5. InBoxes' = InBoxes /\ Coming' = Coming /\ InHand = {}
  BY <1>0, <1>1, FlowTypes DEF InBoxes, Coming, Bare, Cut
<1>6. /\ Flow' \subseteq Flow /\ Behind' \subseteq Behind
      /\ \A m \in Flow : m \in Flow' \/ (m = h /\ h.frame \in lost')
  BY <1>2, <1>3, <1>4, <1>5 DEF Flow, Behind
<1>7. \A g : Fair(g)' => Fair(g) /\ g \notin lost'
  BY <1>1, <1>3 DEF Fair
<1>8. FitInv'
  <2>1. \A m \in Flow : Fits(m)'
    BY <1>0, <1>1 DEF FitInv, Fits
  <2> QED
    BY <2>1, <1>0, <1>1, <1>6 DEF FitInv, Splitting
<1>9. OrderInv'
  <2>1. \A m, k : Follows(m, k) => Follows(m, k)'
    BY <1>7 DEF Follows
  <2>2. ASSUME NEW i \in 1 .. Len(mb'), NEW j \in 1 .. Len(mb'), i < j,
               NEW m, NEW k, m = mb'[i], k = mb'[j]
        PROVE  Follows(m, k)'
    <3>1. /\ i + 1 \in 1 .. Len(mb) /\ j + 1 \in 1 .. Len(mb) /\ i + 1 < j + 1
          /\ m = mb[i + 1] /\ k = mb[j + 1]
      BY <2>2, <1>2, <1>4
    <3>2. Follows(m, k)
      BY <3>1, <1>0 DEF OrderInv
    <3> QED
      BY <3>2, <2>1
  <2>3. \A k \in Queued' : Follows(h, k)
    <3>1. ASSUME NEW k \in Queued' PROVE Follows(h, k)
      <4>1. PICK j \in 1 .. Len(mb') : k = mb'[j]
        BY DEF Queued
      <4>2. /\ 1 \in 1 .. Len(mb) /\ j + 1 \in 1 .. Len(mb) /\ 1 < j + 1
            /\ k = mb[j + 1]
        BY <4>1, <1>2, <1>4
      <4> QED
        BY <4>2, <1>0, <1>2 DEF OrderInv
    <3> QED
      BY <3>1
  <2>4. \A m \in InHand', k \in Queued' : Follows(m, k)'
    BY <2>1, <2>3, <1>3
  <2>o. OrderInv /\ h \in Queued /\ InHand' \subseteq {h} /\ Queued' \subseteq Queued
    BY <1>0, <1>2, <1>3, <1>4
  <2>5. \A m \in InBoxes', k \in InHand' \cup Queued' : Follows(m, k)'
    <3>1. ASSUME NEW m \in InBoxes', NEW k \in InHand' \cup Queued' PROVE Follows(m, k)
      BY <2>o, <1>5 DEF OrderInv
    <3> QED
      BY <3>1, <2>1
  <2>6. \A m \in InBoxes' \cup InHand' \cup Queued', k \in Coming' : Follows(m, k)'
    <3>1. ASSUME NEW m \in InBoxes' \cup InHand' \cup Queued', NEW k \in Coming'
          PROVE  Follows(m, k)
      BY <2>o, <1>5 DEF OrderInv
    <3> QED
      BY <3>1, <2>1
  <2> QED
    BY <2>2, <2>4, <2>5, <2>6 DEF OrderInv
<1>10. AgeInv'
  BY <1>0, <1>1, <1>6 DEF AgeInv
<1>11. WholeInv'
  <2>1. AnswersWhole' /\ Apart'
    BY <1>0, <1>1, <1>3, <1>7 DEF WholeInv, AnswersWhole, Apart
  <2>2. ASSUME NEW m \in Flow, Fair(m.frame)' PROVE Unbroken(m)'
    <3>1. \A k \in Flow : k.frame = m.frame => k \in Flow'
      BY <2>2, <1>6, <1>7
    <3> QED
      BY <3>1, <2>2, <1>0, <1>1, <1>3, UnbrokenKeeps
  <2> QED
    BY <2>1, <2>2, <1>0, <1>1, <1>6, <1>7 DEF WholeInv
<1> QED
  BY <1>8, <1>9, <1>10, <1>11

(* No mailbox is free: the packet stays in hand or is dropped.              *)
LEMMA DropKeeps ==
  ASSUME TxInv, NoMailBox
  PROVE  FitInv' /\ OrderInv' /\ AgeInv' /\ WholeInv'
<1>0. TxTypeOK /\ FitInv /\ OrderInv /\ AgeInv /\ WholeInv
  BY DEF TxInv
<1>1. /\ box' = box /\ canBuf' = canBuf /\ canPort' = canPort /\ update' = update
      /\ rx' = rx /\ got' = got /\ broken' = broken /\ crossed' = crossed
      /\ overtaken' = overtaken /\ pc' = pc /\ frame' = frame /\ no' = no /\ tCyc' = tCyc
      /\ mb' = mb /\ tx # NoPacket
      /\ \/ tx' = tx /\ lost' = lost
         \/ tx' = NoPacket /\ lost' = lost \cup {tx.frame}
  BY DEF NoMailBox, bufVars, sendVars, busVars, rxVars
<1>2. InBoxes' = InBoxes /\ Queued' = Queued /\ Coming' = Coming /\ InHand = {tx}
  BY <1>0, <1>1, FlowTypes DEF InBoxes, Queued, Coming, Bare, Cut
<1>3. \/ InHand' = InHand
      \/ InHand' = {} /\ tx.frame \in lost'
  BY <1>1, NoPacketIsNone DEF InHand
<1>4. /\ Flow' \subseteq Flow /\ Behind' \subseteq Behind /\ InHand' \subseteq InHand
      /\ \A m \in Flow : m \in Flow' \/ m.frame \in lost'
  BY <1>2, <1>3 DEF Flow, Behind
<1>5. lost \subseteq lost' /\ \A g : Fair(g)' => Fair(g) /\ g \notin lost'
  BY <1>1 DEF Fair
<1>6. FitInv'
  <2>1. \A m \in Flow : Fits(m)'
    BY <1>0, <1>1 DEF FitInv, Fits
  <2> QED
    BY <2>1, <1>0, <1>1, <1>4 DEF FitInv, Splitting
<1>7. OrderInv'
  <2>1. \A m, k : Follows(m, k) => Follows(m, k)'
    BY <1>5 DEF Follows
  <2> QED
    BY <2>1, <1>0, <1>1, <1>2, <1>4 DEF OrderInv
<1>8. AgeInv'
  BY <1>0, <1>1, <1>4 DEF AgeInv
<1>9. WholeInv'
  <2>1. AnswersWhole' /\ Apart'
    BY <1>0, <1>1, <1>5 DEF WholeInv, AnswersWhole, Apart
  <2>2. ASSUME NEW m \in Flow, Fair(m.frame)' PROVE Unbroken(m)'
    <3>1. \A k \in Flow : k.frame = m.frame => k \in Flow'
      BY <2>2, <1>4, <1>5
    <3> QED
      BY <3>1, <2>2, <1>0, <1>1, <1>5, UnbrokenKeeps
  <2> QED
    BY <2>1, <2>2, <1>0, <1>1, <1>4, <1>5 DEF WholeInv
<1> QED
  BY <1>6, <1>7, <1>8, <1>9
(***************************************************************************)
(* The mailboxes and the bus                                               *)
(***************************************************************************)
LEMMA TransmitKeeps ==
  ASSUME TxInv, Transmit
  PROVE  FitInv' /\ OrderInv' /\ AgeInv' /\ WholeInv'
<1>0. TxTypeOK /\ FitInv /\ OrderInv /\ AgeInv /\ WholeInv
  BY DEF TxInv
<1>1. /\ canBuf' = canBuf /\ canPort' = canPort /\ update' = update
      /\ rx' = rx /\ got' = got /\ broken' = broken /\ crossed' = crossed
      /\ lost' = lost /\ pc' = pc /\ frame' = frame /\ no' = no /\ tCyc' = tCyc
      /\ mb' = mb /\ tx # NoPacket /\ tx' = NoPacket
  BY DEF Transmit, bufVars, sendVars, rxVars
<1>2. tx \in Sent /\ InHand = {tx} /\ tx \in Behind /\ tx \in Flow
  BY <1>0, <1>1, FlowTypes DEF Behind, Flow
<1>p. PICK p \in Ports : p = tx.port
  BY <1>2 DEF Sent, Packet
<1>f. PICK f : f = tx.frame
  OBVIOUS
<1>b. PICK b \in 1 .. Boxes : b = Min(Free(p)) /\ box[p][b] = NoPacket
  BY <1>0, <1>p, FirstFree DEF Transmit
<1>3. /\ box'[p][b] = tx
      /\ \A q \in Ports, c \in 1 .. Boxes : <<q, c>> # <<p, b>> => box'[q][c] = box[q][c]
  <2>1. box' = [box EXCEPT ![p][b] = tx]
    BY <1>p, <1>b DEF Transmit
  <2> QED
    BY <2>1, <1>0, <1>p, <1>b DEF TxTypeOK
<1>4. /\ overtaken \subseteq overtaken'
      /\ tx.frame \notin overtaken' =>
           \A c \in 1 .. Boxes : box[p][c].frame = tx.frame => Ahead(box[p][c], tx)
  BY <1>p DEF Transmit
<1>5. /\ InBoxes' = InBoxes \cup {tx} /\ InHand' = {}
      /\ Queued' = Queued /\ Coming' = Coming
  <2>1. InHand' = {} /\ Queued' = Queued /\ Coming' = Coming
    BY <1>1, NoPacketIsNone DEF InHand, Queued, Coming, Bare, Cut
  <2>2. InBoxes' = InBoxes \cup {tx}
    <3>1. ASSUME NEW m \in InBoxes' PROVE m \in InBoxes \cup {tx}
      BY <3>1, <1>3 DEF InBoxes
    <3>2. ASSUME NEW m \in InBoxes PROVE m \in InBoxes'
      <4>1. PICK q \in Ports, c \in 1 .. Boxes : m = box[q][c] /\ m # NoPacket
        BY DEF InBoxes
      <4>2. <<q, c>> # <<p, b>>
        BY <4>1, <1>b
      <4>3. m = box'[q][c]
        BY <4>1, <4>2, <1>3
      <4> QED
        BY <4>1, <4>3 DEF InBoxes
    <3>3. tx \in InBoxes'
      BY <1>1, <1>3 DEF InBoxes
    <3> QED
      BY <3>1, <3>2, <3>3
  <2> QED
    BY <2>1, <2>2
<1>6. Flow' = Flow /\ Behind' \subseteq Behind
  BY <1>2, <1>5 DEF Flow, Behind
<1>7. \A g : Fair(g)' => Fair(g) /\ g \notin overtaken'
  BY <1>1, <1>4 DEF Fair
<1>8. \A q \in Ports, c \in 1 .. Boxes : box[q][c] # NoPacket =>
        /\ Follows(box[q][c], tx) /\ box[q][c] \in Sent
  BY <1>0, <1>2, FlowTypes DEF OrderInv
<1>9. FitInv'
  <2>1. \A m \in Flow : Fits(m)'
    BY <1>0, <1>1 DEF FitInv, Fits
  <2>2. \A q \in Ports, c \in 1 .. Boxes : box'[q][c] # NoPacket => box'[q][c].port = q
    BY <1>0, <1>3, <1>p DEF FitInv
  <2> QED
    BY <2>1, <2>2, <1>0, <1>1, <1>6 DEF FitInv, Splitting
<1>10. OrderInv'
  <2>1. \A m, k : Follows(m, k) => Follows(m, k)'
    BY <1>7 DEF Follows
  <2>2. mb' = mb /\ OrderInv
    BY <1>0, <1>1
  <2>3. ASSUME NEW i \in 1 .. Len(mb'), NEW j \in 1 .. Len(mb'), i < j,
               NEW m, NEW k, m = mb'[i], k = mb'[j]
        PROVE  Follows(m, k)'
    <3>1. Follows(m, k)
      BY <2>2, <2>3 DEF OrderInv
    <3> QED
      BY <3>1, <2>1
  <2>4. \A m \in InBoxes', n \in InHand' \cup Queued' : Follows(m, n)'
    BY <2>1, <2>2, <1>2, <1>5 DEF OrderInv
  <2>5. \A m \in InBoxes' \cup InHand' \cup Queued', n \in Coming' : Follows(m, n)'
    BY <2>1, <2>2, <1>2, <1>5 DEF OrderInv
  <2> QED
    BY <2>3, <2>4, <2>5, <1>5 DEF OrderInv
<1>11. AgeInv'
  <2>1. ASSUME NEW q \in Ports, NEW c \in 1 .. Boxes, box'[q][c] # NoPacket,
               box'[q][c].frame \notin overtaken'
        PROVE  /\ got[box'[q][c].frame][q] <= box'[q][c].ver
               /\ \A d \in 1 .. Boxes :
                    d # c /\ box'[q][d].frame = box'[q][c].frame =>
                      \/ /\ Ahead(box'[q][c], box'[q][d])
                         /\ box'[q][c].ver <= box'[q][d].ver
                      \/ Ahead(box'[q][d], box'[q][c])
    <3>1. CASE <<q, c>> = <<p, b>>
      <4>1. q = p /\ c = b /\ box'[q][c] = tx
        BY <3>1, <1>3
      <4>2. got[tx.frame][q] <= tx.ver
        BY <1>0, <1>2 DEF AgeInv
      <4>3. ASSUME NEW d \in 1 .. Boxes, d # c, box'[q][d].frame = tx.frame
            PROVE  Ahead(box'[q][d], tx)
        <5>1. box'[q][d] = box[p][d]
          BY <4>1, <4>3, <1>3
        <5> QED
          BY <5>1, <4>1, <4>3, <2>1, <1>4
      <4> QED
        BY <4>1, <4>2, <4>3
    <3>2. CASE <<q, c>> # <<p, b>>
      <4>1. box'[q][c] = box[q][c] /\ box[q][c].frame \notin overtaken /\ box[q][c] # NoPacket
        BY <3>2, <2>1, <1>3, <1>4
      <4>2. got[box[q][c].frame][q] <= box[q][c].ver
        BY <4>1, <1>0 DEF AgeInv
      <4>3. ASSUME NEW d \in 1 .. Boxes, d # c, box'[q][d].frame = box[q][c].frame
            PROVE  \/ /\ Ahead(box[q][c], box'[q][d])
                      /\ box[q][c].ver <= box'[q][d].ver
                   \/ Ahead(box'[q][d], box[q][c])
        <5>1. CASE <<q, d>> = <<p, b>>
          <6>1. q = p /\ box'[q][d] = tx
            BY <5>1, <1>3
          <6>2. box[q][c].ver <= tx.ver
            BY <6>1, <4>1, <4>3, <1>8 DEF Follows
          <6>3. Ahead(box[q][c], tx)
            <7>1. box[p][c].frame = tx.frame /\ tx.frame \notin overtaken'
              BY <6>1, <4>1, <4>3, <2>1
            <7> QED
              BY <7>1, <6>1, <1>4
          <6> QED
            BY <6>1, <6>2, <6>3
        <5>2. CASE <<q, d>> # <<p, b>>
          <6>1. box'[q][d] = box[q][d]
            BY <5>2, <1>3
          <6> QED
            BY <6>1, <4>1, <4>3, <1>0 DEF AgeInv
        <5> QED
          BY <5>1, <5>2
      <4> QED
        BY <4>1, <4>2, <4>3
    <3> QED
      BY <3>1, <3>2
  <2>2. \A m \in Behind', q \in Ports : got'[m.frame][q] <= m.ver
    BY <1>0, <1>1, <1>6 DEF AgeInv
  <2> QED
    BY <2>1, <2>2, <1>0, <1>1 DEF AgeInv
<1>12. WholeInv'
  <2>1. AnswersWhole'
    BY <1>0, <1>1, <1>4 DEF WholeInv, AnswersWhole
  <2>2. Apart'
    <3>1. ASSUME NEW q \in Ports, NEW c \in 1 .. Boxes, box[q][c] # NoPacket,
                 box[q][c].frame = f, Fair(f)'
          PROVE  /\ box[q][c].no < tx.no /\ box[q][c].no # tx.no
                 /\ q = p => ~Ahead(tx, box[q][c])
      <4>1. /\ box[q][c].no \in Nat /\ tx.no \in Nat
            /\ box[q][c].prio \in Nat /\ tx.prio \in Nat
        BY <3>1, <1>2, <1>8 DEF Sent, Packet
      <4>2. box[q][c].no < tx.no
        BY <3>1, <1>f, <1>7, <1>8 DEF Follows
      <4>3. ASSUME q = p PROVE ~Ahead(tx, box[q][c])
        <5>1. Ahead(box[q][c], tx)
          BY <3>1, <4>3, <1>f, <1>4, <1>7
        <5> QED
          BY <5>1, <4>1 DEF Ahead
      <4> QED
        BY <4>1, <4>2, <4>3
    <3>2. \A m \in Sent : m.frame # 0
      BY RepliesType DEF Sent, Packet
    <3>3. ASSUME NEW q \in Ports, NEW r \in Ports, NEW c \in 1 .. Boxes, NEW d \in 1 .. Boxes,
                 NEW g, g = box'[q][c].frame, Fair(g)',
                 box'[q][c] # NoPacket, <<q, c>> # <<r, d>>, box'[r][d].frame = g
          PROVE  /\ box'[q][c].no # box'[r][d].no
                 /\ q = r => Sorted(box'[q][c], box'[r][d])
      <4>1. CASE <<q, c>> = <<p, b>>
        <5>1. box'[q][c] = tx /\ box'[r][d] = box[r][d]
          BY <4>1, <3>3, <1>3
        <5>2. box[r][d] # NoPacket
          BY <5>1, <3>2, <3>3, <1>2, NoPacketIsNone
        <5>3. /\ box[r][d].no # tx.no
              /\ q = r => ~Ahead(tx, box[r][d])
          BY <5>1, <5>2, <4>1, <3>1, <3>3, <1>f
        <5> QED
          BY <5>1, <5>3 DEF Sorted
      <4>2. CASE <<r, d>> = <<p, b>>
        <5>1. box'[r][d] = tx /\ box'[q][c] = box[q][c]
          BY <4>2, <3>3, <1>3
        <5>2. box[q][c].no < tx.no /\ box[q][c].no # tx.no
          BY <5>1, <3>1, <3>3, <1>f
        <5> QED
          BY <5>1, <5>2 DEF Sorted
      <4>3. CASE <<q, c>> # <<p, b>> /\ <<r, d>> # <<p, b>>
        <5>1. box'[r][d] = box[r][d] /\ box'[q][c] = box[q][c]
          BY <4>3, <1>3
        <5> QED
          BY <5>1, <3>3, <1>0, <1>7 DEF WholeInv, Apart
      <4> QED
        BY <4>1, <4>2, <4>3
    <3> QED
      BY <3>3 DEF Apart, Sorted
  <2>3. ASSUME NEW m \in Flow, Fair(m.frame)' PROVE Unbroken(m)'
    BY <2>3, <1>0, <1>1, <1>4, <1>6, UnbrokenKeeps
  <2> QED
    BY <2>1, <2>2, <2>3, <1>0, <1>1, <1>6, <1>7 DEF WholeInv
<1> QED
  BY <1>9, <1>10, <1>11, <1>12
(* The controller sends the lowest identifier, and the master joins it to   *)
(* what it has.                                                             *)
LEMMA BusKeeps ==
  ASSUME TxInv, NEW p \in Ports, OnBus(p)
  PROVE  FitInv' /\ OrderInv' /\ AgeInv' /\ WholeInv'
<1>0. TxTypeOK /\ FitInv /\ OrderInv /\ AgeInv /\ WholeInv
  BY DEF TxInv
<1>1. /\ canBuf' = canBuf /\ canPort' = canPort /\ update' = update
      /\ crossed' = crossed /\ lost' = lost /\ overtaken' = overtaken
      /\ pc' = pc /\ frame' = frame /\ no' = no /\ tCyc' = tCyc /\ mb' = mb /\ tx' = tx
  BY DEF OnBus, bufVars, sendVars, txVars, history
<1>b. PICK b \in Waiting(p) :
        /\ \A c \in Waiting(p) : Before(p, b, c)
        /\ LET m == box[p][b]  r == Joined(rx[m.frame][p], m) IN
             /\ box' = [box EXCEPT ![p][b] = NoPacket]
             /\ rx' = [rx EXCEPT ![m.frame][p] = IF m.last THEN Nothing ELSE r]
             /\ got' = IF m.last /\ r # Nothing THEN [got EXCEPT ![m.frame][p] = m.ver] ELSE got
             /\ broken' = IF m.last /\ r = Nothing THEN broken \cup {m.frame} ELSE broken
  BY DEF OnBus
<1>m. PICK m : m = box[p][b]
  OBVIOUS
<1>r. PICK r : r = Joined(rx[m.frame][p], m)
  OBVIOUS
<1>2. /\ b \in 1 .. Boxes /\ m # NoPacket /\ m \in Sent /\ m \in InBoxes /\ m \in Flow
      /\ m.frame \in Replies /\ m.no \in Nat /\ m.ver \in Nat /\ m.port = p
      /\ Packets[m.frame] \in Nat
      /\ Fits(m)
  <2>1. b \in 1 .. Boxes /\ m # NoPacket
    BY <1>m DEF Waiting
  <2>2. m \in Sent /\ m \in InBoxes /\ m.port = p
    BY <2>1, <1>0, <1>m, FlowTypes DEF FitInv
  <2>3. m \in Flow
    BY <2>2 DEF Flow
  <2> QED
    BY <2>1, <2>2, <2>3, <1>0, RepliesType DEF FitInv, Sent, Packet
<1>3. /\ box'[p][b] = NoPacket
      /\ \A q \in Ports, c \in 1 .. Boxes : <<q, c>> # <<p, b>> => box'[q][c] = box[q][c]
  <2>1. box' = [box EXCEPT ![p][b] = NoPacket]
    BY <1>b
  <2> QED
    BY <2>1, <1>0, <1>2 DEF TxTypeOK
<1>4. /\ rx'[m.frame][p] = IF m.last THEN Nothing ELSE r
      /\ \A g \in Replies, q \in Ports : <<g, q>> # <<m.frame, p>> => rx'[g][q] = rx[g][q]
      /\ \A g \in Replies : g # m.frame => rx'[g] = rx[g]
  <2>1. rx' = [rx EXCEPT ![m.frame][p] = IF m.last THEN Nothing ELSE r]
    BY <1>b, <1>m, <1>r
  <2> QED
    BY <2>1, <1>0, <1>2 DEF TxTypeOK
<1>5. /\ got'[m.frame][p] = m.ver \/ got'[m.frame][p] = got[m.frame][p]
      /\ \A g \in Replies, q \in Ports : <<g, q>> # <<m.frame, p>> => got'[g][q] = got[g][q]
  <2>1. got' = [got EXCEPT ![m.frame][p] = m.ver] \/ got' = got
    BY <1>b, <1>m, <1>r
  <2>2. got \in [Replies -> [Ports -> Nat]]
    BY <1>0 DEF TxTypeOK
  <2>3. CASE got' = got
    BY <2>3
  <2>4. CASE got' = [got EXCEPT ![m.frame][p] = m.ver]
    BY <2>2, <2>4, <1>2
  <2> QED
    BY <2>1, <2>3, <2>4
<1>6. /\ r = [next |-> m.no + 1, ver |-> m.ver] \/ r = Nothing
      /\ r # [next |-> m.no + 1, ver |-> m.ver] =>
           m.no # 0 /\ rx[m.frame][p] # [next |-> m.no, ver |-> m.ver]
  BY <1>r DEF Joined
<1>7. /\ InBoxes' \subseteq InBoxes /\ InHand' = InHand /\ Queued' = Queued
      /\ Coming' = Coming
      /\ \A n \in InBoxes : n \in InBoxes' \/ n = m
  <2>1. InHand' = InHand /\ Queued' = Queued /\ Coming' = Coming
    BY <1>1 DEF InHand, Queued, Coming, Bare, Cut
  <2>2. InBoxes' \subseteq InBoxes
    BY <1>3 DEF InBoxes
  <2>3. ASSUME NEW n \in InBoxes, n # m PROVE n \in InBoxes'
    <3>1. PICK q \in Ports, c \in 1 .. Boxes : n = box[q][c] /\ n # NoPacket
      BY DEF InBoxes
    <3>2. n = box'[q][c]
      BY <3>1, <2>3, <1>3, <1>m
    <3> QED
      BY <3>1, <3>2 DEF InBoxes
  <2> QED
    BY <2>1, <2>2, <2>3
<1>8. /\ Behind' = Behind /\ Flow' \subseteq Flow
      /\ \A n \in Flow : n \in Flow' \/ n = m
  BY <1>7 DEF Flow, Behind
<1>9. \A g : Fair(g)' = Fair(g)
  BY <1>1 DEF Fair
(* The packets of the same answer are behind the one that is sent.         *)
<1>10. \A n \in Behind : Follows(m, n)
  BY <1>0, <1>2 DEF OrderInv, Behind
<1>11. ASSUME NEW c \in 1 .. Boxes, c # b, box[p][c].frame = m.frame
       PROVE  /\ ~Ahead(box[p][c], m)
              /\ box[p][c].no = m.no \/ Ahead(m, box[p][c])
  <2>n. PICK n : n = box[p][c]
    OBVIOUS
  <2>1. n # NoPacket
    BY <2>n, <1>11, <1>2, NoPacketIsNone, RepliesType
  <2>2. Before(p, b, c)
    BY <2>1, <2>n, <1>11, <1>b DEF Waiting
  <2>3. n.no \in Nat /\ n.prio \in Nat /\ m.no \in Nat /\ m.prio \in Nat
    BY <2>1, <2>n, <1>0, <1>2, FlowTypes DEF Sent, Packet
  <2>4. m.frame \in Nat /\ n.frame = m.frame
    BY <2>n, <1>2, <1>11, RepliesType
  <2>5. \/ m.prio < n.prio \/ Ahead(m, n)
        \/ m.prio = n.prio /\ m.no = n.no
    BY <2>2, <2>4, <2>n, <1>m DEF Before
  <2>6. /\ ~Ahead(n, m)
        /\ n.no = m.no \/ Ahead(m, n)
    BY <2>3, <2>5 DEF Ahead
  <2> QED
    BY <2>6, <2>n
<1>12. ASSUME NEW n \in Flow', n.frame = m.frame, Fair(m.frame), Packets[m.frame] > 1
       PROVE  m.no < n.no /\ n.no \in Nat
  <2>1. CASE n \in Behind
    <3>1. n.no \in Nat
      BY <2>1, <1>0, FlowTypes, ComingType DEF Behind, Sent, Packet
    <3> QED
      BY <2>1, <3>1, <1>10, <1>12 DEF Follows
  <2>2. CASE n \in InBoxes'
    <3>1. PICK q \in Ports, c \in 1 .. Boxes : n = box'[q][c] /\ n # NoPacket
      BY <2>2 DEF InBoxes
    <3>2. <<q, c>> # <<p, b>> /\ n = box[q][c]
      BY <3>1, <1>3
    <3>3. n \in Sent /\ n.no \in Nat /\ n.port = q /\ n \in Flow
      BY <3>1, <3>2, <1>0, FlowTypes DEF FitInv, Flow, Sent, Packet
    <3>4. q = p
      <4>1. q # 0 /\ p # 0
        BY PortsType
      <4> QED
        BY <4>1, <3>3, <1>0, <1>2, <1>12 DEF WholeInv, Unbroken
    <3>5. n.no # m.no /\ Sorted(m, n)
      BY <3>1, <3>2, <3>4, <1>0, <1>2, <1>12, <1>m DEF WholeInv, Apart
    <3>6. n.no = m.no \/ Ahead(m, n)
      BY <3>2, <3>4, <1>11, <1>12
    <3> QED
      BY <3>3, <3>5, <3>6 DEF Sorted
  <2> QED
    BY <2>1, <2>2, <1>8 DEF Flow
(* So an answer of which nothing is lost goes on.                          *)
<1>13. ASSUME Fair(m.frame)
       PROVE  r = [next |-> m.no + 1, ver |-> m.ver]
  <2>1. CASE m.no = 0
    BY <2>1, <1>6
  <2>2. CASE m.no # 0
    <3>1. Packets[m.frame] > 1
      BY <2>2, <1>2 DEF Fits
    <3>2. Unbroken(m)
      BY <1>0, <1>2, <1>13 DEF WholeInv
    <3>3. canPort[m.frame] = p
      BY <3>1, <3>2, <1>2, PortsType DEF Unbroken
    <3>4. ~\E n \in Flow : n.frame = m.frame /\ n.no + 1 = m.no
      <4>1. SUFFICES ASSUME NEW n \in Flow, n.frame = m.frame, n.no + 1 = m.no PROVE FALSE
        OBVIOUS
      <4>2. n # m
        BY <4>1, <1>2
      <4>3. m.no < n.no /\ n.no \in Nat
        BY <4>1, <4>2, <3>1, <1>8, <1>12, <1>13
      <4> QED
        BY <4>1, <4>3, <1>2
    <3>5. rx[m.frame][p] = [next |-> m.no, ver |-> m.ver]
      BY <2>2, <3>2, <3>3, <3>4 DEF Unbroken, Continued
    <3> QED
      BY <3>5, <1>6
  <2> QED
    BY <2>1, <2>2
<1>14. FitInv'
  <2>1. \A n \in Flow : Fits(n)'
    BY <1>0, <1>1 DEF FitInv, Fits
  <2>2. \A q \in Ports, c \in 1 .. Boxes : box'[q][c] # NoPacket => box'[q][c].port = q
    BY <1>0, <1>3 DEF FitInv
  <2> QED
    BY <2>1, <2>2, <1>0, <1>1, <1>8 DEF FitInv, Splitting
<1>15. OrderInv'
  <2>1. \A n, k : Follows(n, k)' = Follows(n, k)
    BY <1>9 DEF Follows
  <2> QED
    BY <2>1, <1>0, <1>1, <1>7 DEF OrderInv
<1>16. AgeInv'
  <2>1. ASSUME NEW g \in Replies, NEW q \in Ports
        PROVE  got'[g][q] <= canBuf'[g] /\ rx'[g][q].ver <= canBuf'[g]
    <3>1. CASE <<g, q>> = <<m.frame, p>>
      <4>1. m.ver <= canBuf[m.frame] /\ canBuf[m.frame] \in Nat
        BY <1>0, <1>2 DEF Fits, TxTypeOK
      <4>2. got[m.frame][p] <= canBuf[m.frame]
        BY <1>0, <1>2 DEF AgeInv
      <4>3. rx'[m.frame][p].ver = m.ver \/ rx'[m.frame][p].ver = 0
        BY <1>4, <1>6 DEF Nothing
      <4> QED
        BY <4>1, <4>2, <4>3, <3>1, <1>1, <1>5
    <3>2. CASE <<g, q>> # <<m.frame, p>>
      BY <3>2, <1>0, <1>1, <1>4, <1>5 DEF AgeInv
    <3> QED
      BY <3>1, <3>2
  <2>2. ASSUME NEW n \in Behind, NEW q \in Ports PROVE got'[n.frame][q] <= n.ver
    <3>1. n.frame \in Replies
      BY <1>0, FlowTypes, ComingType DEF Behind, Sent, Packet
    <3>2. CASE n.frame = m.frame /\ q = p
      BY <3>2, <1>0, <1>5, <1>10 DEF Follows, AgeInv
    <3>3. CASE ~(n.frame = m.frame /\ q = p)
      BY <3>1, <3>3, <1>0, <1>5 DEF AgeInv
    <3> QED
      BY <3>2, <3>3
  <2>3. ASSUME NEW q \in Ports, NEW c \in 1 .. Boxes, box'[q][c] # NoPacket,
               box'[q][c].frame \notin overtaken'
        PROVE  /\ got'[box'[q][c].frame][q] <= box'[q][c].ver
               /\ \A d \in 1 .. Boxes :
                    d # c /\ box'[q][d].frame = box'[q][c].frame =>
                      \/ /\ Ahead(box'[q][c], box'[q][d])
                         /\ box'[q][c].ver <= box'[q][d].ver
                      \/ Ahead(box'[q][d], box'[q][c])
    <3>1. PICK n : n = box[q][c]
      OBVIOUS
    <3>2. /\ box'[q][c] = n /\ <<q, c>> # <<p, b>> /\ n # NoPacket
          /\ n.frame \notin overtaken
      BY <2>3, <3>1, <1>1, <1>3
    <3>3. n \in Sent /\ n.frame \in Replies /\ n.no \in Nat /\ n.frame # 0
      BY <3>1, <3>2, <1>0, FlowTypes, RepliesType DEF Sent, Packet
    <3>4. got'[n.frame][q] <= n.ver
      <4>1. CASE n.frame = m.frame /\ q = p
        <5>1. c # b /\ box[p][c].frame = m.frame /\ ~Ahead(n, m)
          BY <4>1, <3>1, <3>2, <3>3, <1>11
        <5>2. m.ver <= n.ver
          BY <5>1, <4>1, <3>1, <3>2, <1>0, <1>2, <1>m DEF AgeInv
        <5>3. got[n.frame][q] <= n.ver
          BY <3>1, <3>2, <1>0 DEF AgeInv
        <5> QED
          BY <4>1, <5>2, <5>3, <1>5
      <4>2. CASE ~(n.frame = m.frame /\ q = p)
        <5>1. got'[n.frame][q] = got[n.frame][q]
          BY <4>2, <3>3, <1>5
        <5> QED
          BY <5>1, <3>1, <3>2, <1>0 DEF AgeInv
      <4> QED
        BY <4>1, <4>2
    <3>5. ASSUME NEW d \in 1 .. Boxes, d # c, box'[q][d].frame = n.frame
          PROVE  \/ Ahead(n, box'[q][d]) /\ n.ver <= box'[q][d].ver
                 \/ Ahead(box'[q][d], n)
      <4>1. <<q, d>> # <<p, b>>
        BY <3>3, <3>5, <1>3, NoPacketIsNone
      <4>2. box'[q][d] = box[q][d]
        BY <4>1, <1>3
      <4> QED
        BY <4>2, <3>1, <3>2, <3>5, <1>0 DEF AgeInv
    <3> QED
      BY <3>2, <3>4, <3>5
  <2> QED
    BY <2>1, <2>2, <2>3, <1>8 DEF AgeInv
<1>17. WholeInv'
  <2>1. AnswersWhole'
    <3>1. CASE Fair(m.frame)
      <4>1. r # Nothing
        <5>1. m.no + 1 # 0
          BY <1>2
        <5> QED
          BY <5>1, <3>1, <1>13 DEF Nothing
      <4>2. broken' = broken
        BY <4>1, <1>b, <1>m, <1>r
      <4> QED
        BY <4>2, <1>0, <1>1 DEF WholeInv, AnswersWhole
    <3>2. CASE ~Fair(m.frame)
      <4>1. broken' \subseteq broken \cup {m.frame}
        BY <1>b, <1>m, <1>r
      <4> QED
        BY <4>1, <3>2, <1>0, <1>1 DEF WholeInv, AnswersWhole, Fair
    <3> QED
      BY <3>1, <3>2
  <2>2. Apart'
    <3>1. \A m2 \in Sent : m2.frame # 0
      BY RepliesType DEF Sent, Packet
    <3>2. ASSUME NEW q \in Ports, NEW k \in Ports, NEW c \in 1 .. Boxes, NEW d \in 1 .. Boxes,
                 Fair(box'[q][c].frame), box'[q][c] # NoPacket, <<q, c>> # <<k, d>>,
                 box'[k][d].frame = box'[q][c].frame
          PROVE  /\ box'[q][c].no # box'[k][d].no
                 /\ q = k => Sorted(box'[q][c], box'[k][d])
      <4>1. box'[q][c] = box[q][c]
        BY <3>2, <1>3
      <4>2. box[q][c].frame # 0
        BY <4>1, <3>1, <3>2, <1>0, FlowTypes
      <4>3. box'[k][d] = box[k][d]
        BY <4>1, <4>2, <3>2, <1>3, NoPacketIsNone
      <4> QED
        BY <4>1, <4>3, <3>2, <1>0 DEF WholeInv, Apart
    <3> QED
      BY <3>2, <1>9 DEF Apart, Sorted
  <2>3. ASSUME NEW g \in update', NEW q \in Ports, Fair(g)'
        PROVE  rx'[g][q].ver < canBuf'[g]
    <3>1. g \in Replies /\ g \in update /\ Fair(g)
      BY <2>3, <1>0, <1>1, <1>9 DEF TxTypeOK
    <3>2. g # m.frame
      BY <3>1, <1>0, <1>2 DEF WholeInv, Unbroken
    <3>3. rx'[g][q] = rx[g][q]
      BY <3>1, <3>2, <1>4
    <3> QED
      BY <3>1, <3>3, <1>0, <1>1 DEF WholeInv
  <2>4. ASSUME NEW n \in Flow', Fair(n.frame)' PROVE Unbroken(n)'
    <3>1. n \in Flow /\ Fair(n.frame) /\ Unbroken(n) /\ Fits(n)
      BY <2>4, <1>0, <1>8, <1>9 DEF WholeInv, FitInv
    <3>2. n.frame \in Replies /\ n.no \in Nat /\ Packets[n.frame] \in Nat
      BY <3>1, <1>0, FlowTypes, ComingType, RepliesType DEF Flow, Behind, Sent, Packet
    <3>3. CASE n.frame # m.frame
      <4>1. \A q \in Ports : rx'[n.frame][q] = rx[n.frame][q]
        BY <3>2, <3>3, <1>4
      <4>2. Continued(n)'
        <5>1. rx'[n.frame] = rx[n.frame]
          BY <3>3, <3>2, <1>4
        <5> QED
          BY <5>1, <4>1, <3>1, <3>3, <1>1, <1>8 DEF Unbroken, Continued
      <4> QED
        BY <4>1, <4>2, <3>1, <1>1 DEF Unbroken
    <3>4. CASE n.frame = m.frame
      <4>1. Unbroken(m) /\ m.ver = n.ver /\ Fair(m.frame)
        BY <3>1, <3>4, <1>0, <1>2 DEF WholeInv, Unbroken
      <4>2. CASE Packets[m.frame] > 1
        <5>1. m.no < n.no /\ canPort[m.frame] = p
          BY <4>1, <4>2, <3>4, <2>4, <1>2, <1>12, PortsType DEF Unbroken
        <5>2. \A q \in Ports : rx'[n.frame][q].ver = n.ver => rx'[n.frame][q].next <= n.no
          <6>1. CASE m.last
            <7>1. rx'[n.frame][p].next = 0
              BY <6>1, <3>4, <1>4 DEF Nothing
            <7> QED
              BY <7>1, <3>1, <3>2, <3>4, <1>4 DEF Unbroken
          <6>2. CASE ~m.last
            <7>1. rx'[n.frame][p].next = m.no + 1
              BY <6>2, <3>4, <4>1, <1>4, <1>13
            <7>2. m.no + 1 <= n.no
              BY <5>1, <3>2, <1>2
            <7> QED
              BY <7>1, <7>2, <3>1, <3>2, <3>4, <1>4 DEF Unbroken
          <6> QED
            BY <6>1, <6>2
        <5>3. Continued(n)'
          <6>1. CASE rx[n.frame][canPort[n.frame]] = [next |-> n.no, ver |-> n.ver]
            <7>1. rx[m.frame][p].next = n.no /\ rx[m.frame][p].ver = m.ver
              BY <6>1, <5>1, <4>1, <3>4
            <7>2. n.no <= m.no
              BY <7>1, <4>1 DEF Unbroken
            <7> QED
              BY <7>2, <5>1, <3>2, <1>2
          <6>2. CASE \E k \in Flow : k.frame = n.frame /\ k.no + 1 = n.no
            <7>1. PICK k \in Flow : k.frame = n.frame /\ k.no + 1 = n.no
              BY <6>2
            <7>2. CASE k \in Flow'
              BY <7>1, <7>2 DEF Continued
            <7>3. CASE k = m
              <8>1. ~m.last
                <9>1. m.no + 1 # Packets[m.frame]
                  BY <7>1, <7>3, <3>1, <3>2, <3>4 DEF Fits
                <9> QED
                  BY <9>1, <1>2 DEF Fits
              <8>2. rx'[n.frame][p] = [next |-> n.no, ver |-> n.ver]
                BY <8>1, <7>1, <7>3, <4>1, <3>4, <1>4, <1>13
              <8> QED
                BY <8>2, <5>1, <3>4, <1>1 DEF Continued
            <7> QED
              BY <7>1, <7>2, <7>3, <1>8
          <6>3. CASE n.no = 0
            BY <6>3 DEF Continued
          <6> QED
            BY <6>1, <6>2, <6>3, <3>1 DEF Unbroken, Continued
        <5> QED
          BY <5>2, <5>3, <3>1, <1>1 DEF Unbroken
      <4>3. CASE ~(Packets[m.frame] > 1)
        <5>1. n.no = 0 /\ m.no + 1 = Packets[m.frame]
          BY <4>3, <3>1, <3>2, <3>4, <1>2 DEF Fits
        <5>2. m.last
          BY <5>1, <1>2 DEF Fits
        <5>3. rx'[n.frame][p].next = 0
          BY <5>2, <3>4, <1>4 DEF Nothing
        <5>4. \A q \in Ports : rx'[n.frame][q].ver = n.ver => rx'[n.frame][q].next <= n.no
          BY <5>3, <5>1, <3>1, <3>2, <3>4, <1>4 DEF Unbroken
        <5>5. Continued(n)'
          BY <5>1 DEF Continued
        <5> QED
          BY <5>4, <5>5, <3>1, <1>1 DEF Unbroken
      <4> QED
        BY <4>2, <4>3
    <3> QED
      BY <3>3, <3>4
  <2> QED
    BY <2>1, <2>2, <2>3, <2>4 DEF WholeInv
<1> QED
  BY <1>14, <1>15, <1>16, <1>17
(***************************************************************************)
(* The invariant                                                           *)
(***************************************************************************)
LEMMA TxInitially == Init => TxInv
<1> SUFFICES ASSUME Init PROVE TxInv
  OBVIOUS
<1>1. TxTypeOK
  BY TxInit
<1>2. InBoxes = {} /\ Behind = {} /\ Flow = {} /\ Len(mb) = 0
  <2>1. InBoxes = {}
    BY DEF Init, InBoxes
  <2>2. InHand = {} /\ Coming = {}
    BY DEF Init, InHand, Coming, NoPacket
  <2>3. Queued = {} /\ Len(mb) = 0
    BY DEF Init, Queued
  <2> QED
    BY <2>1, <2>2, <2>3 DEF Behind, Flow
<1>3. /\ \A p \in Ports, b \in 1 .. Boxes : box[p][b] = NoPacket
      /\ \A f \in Replies, p \in Ports : got[f][p] = 0 /\ rx[f][p].ver = 0
      /\ \A f \in Replies : canBuf[f] = 0
      /\ update = {} /\ broken = {} /\ pc = "wait" /\ no = 0
  BY DEF Init, Nothing
<1>4. FitInv
  BY <1>2, <1>3 DEF FitInv, Splitting
<1>5. OrderInv
  BY <1>2 DEF OrderInv, Flow, Behind
<1>6. AgeInv
  BY <1>2, <1>3 DEF AgeInv
<1>7. WholeInv
  BY <1>2, <1>3 DEF WholeInv, AnswersWhole, Apart
<1> QED
  BY <1>1, <1>4, <1>5, <1>6, <1>7 DEF TxInv

LEMMA TxStep == TxInv /\ [Next]_vars => TxInv'
<1> SUFFICES ASSUME TxInv, [Next]_vars PROVE TxInv'
  OBVIOUS
<1>1. TxTypeOK'
  BY TxTypeStep DEF TxInv
<1>2. ASSUME NEW f \in Replies, NEW p \in Ports, Request(f, p)
      PROVE  FitInv' /\ OrderInv' /\ AgeInv' /\ WholeInv'
  BY <1>2, RequestKeeps DEF Request
<1>3. ASSUME NEW f \in Own, IapSend(f)
      PROVE  FitInv' /\ OrderInv' /\ AgeInv' /\ WholeInv'
  <2>1. f \in Replies
    BY TxAssumption
  <2> QED
    BY <2>1, <1>3, RequestKeeps DEF IapSend
<1>4. ASSUME TriggerMsgPush PROVE FitInv' /\ OrderInv' /\ AgeInv' /\ WholeInv'
  <2>1. 1 \in Ports
    BY PortsType
  <2> QED
    BY <2>1, <1>4, QuietKeeps, TakeKeeps, SendKeeps DEF TriggerMsgPush
<1>5. ASSUME CanTxService PROVE FitInv' /\ OrderInv' /\ AgeInv' /\ WholeInv'
  BY <1>5, ReceiveKeeps, TransmitKeeps, DropKeeps DEF CanTxService
<1>6. ASSUME NEW p \in Ports, Controller(p)
      PROVE  FitInv' /\ OrderInv' /\ AgeInv' /\ WholeInv'
  BY <1>6, QuietKeeps, BusKeeps DEF Controller
<1>7. ASSUME UNCHANGED vars PROVE FitInv' /\ OrderInv' /\ AgeInv' /\ WholeInv'
  <2>1. 1 \in Ports
    BY PortsType
  <2> QED
    BY <2>1, <1>7, QuietKeeps
<1>8. FitInv' /\ OrderInv' /\ AgeInv' /\ WholeInv'
  BY <1>2, <1>3, <1>4, <1>5, <1>6, <1>7 DEF Next
<1> QED
  BY <1>1, <1>8 DEF TxInv

LEMMA TxInvariant == Spec => []TxInv
<1> QED
  BY TxInitially, TxStep, PTL DEF Spec

(* However requests, refreshing and sending interleave, an answer that ends *)
(* on the bus is whole and from one copy of its data unless the reply was   *)
(* asked for again on its way, a packet of it was lost or one was overtaken *)
(* in the mailboxes: canApp.cpp clears update before it cuts the reply into *)
(* packets, mb_can_tx keeps them in order, and whatever the stack puts into *)
(* the priority bits of the identifiers, only a packet that still waits in  *)
(* a mailbox can be passed by a later one.                                  *)
THEOREM AnswersAreWhole == Spec => []AnswersWhole
<1>1. TxInv => AnswersWhole
  BY DEF TxInv, WholeInv
<1> QED
  BY <1>1, TxInvariant, PTL

(* On a port the answers of one reply come in the order of the requests,    *)
(* unless an older packet was still in a mailbox of the controller.         *)
THEOREM AnswersStayInOrder == Spec => AnswersInOrder
<1>1. ASSUME TxInv, [Next]_vars, NEW f \in Replies, NEW p \in Ports,
             got'[f][p] < got[f][p]
      PROVE  f \in overtaken
  <2>0. TxTypeOK /\ AgeInv
    BY <1>1 DEF TxInv
  <2>1. got[f][p] \in Nat
    BY <2>0 DEF TxTypeOK
  <2>2. PICK q \in Ports : OnBus(q)
    <3>1. got' # got
      BY <2>1, <1>1
    <3> QED
      BY <3>1, <1>1 DEF Next, TriggerMsgPush, CanTxService, Controller, Request, IapSend,
           WaitEvent, ScanEnd, ScanSkip, ScanTake, Pack, Send, NextPacket, Receive, Transmit,
           NoMailBox, BusOffBegins, BusOffEnds, rxVars, vars
  <2>3. PICK b \in Waiting(q) :
          got' = got \/ got' = [got EXCEPT ![box[q][b].frame][q] = box[q][b].ver]
    BY <2>2 DEF OnBus
  <2>4. b \in 1 .. Boxes /\ box[q][b] # NoPacket
    BY DEF Waiting
  <2>5. PICK m : m = box[q][b]
    OBVIOUS
  <2>6. got' = [got EXCEPT ![m.frame][q] = m.ver]
    BY <2>1, <2>3, <2>5, <1>1
  <2>7. f = m.frame /\ p = q /\ got'[f][p] = m.ver
    <3>1. got \in [Replies -> [Ports -> Nat]]
      BY <2>0 DEF TxTypeOK
    <3>2. f = m.frame
      BY <3>1, <2>1, <2>6, <1>1
    <3>3. p = q
      BY <3>1, <3>2, <2>1, <2>6, <1>1
    <3> QED
      BY <3>1, <3>2, <3>3, <2>6
  <2>8. m.ver \in Nat /\ ~(got[m.frame][q] <= m.ver)
    <3>1. m \in Sent
      BY <2>0, <2>4, <2>5, FlowTypes
    <3>2. m.ver \in Nat
      BY <3>1 DEF Sent, Packet
    <3> QED
      BY <3>2, <2>1, <2>7, <1>1
  <2> QED
    BY <2>0, <2>4, <2>5, <2>7, <2>8 DEF AgeInv
<1>2. TxInv /\ [Next]_vars =>
        [\A f \in Replies, p \in Ports : got'[f][p] < got[f][p] => f \in overtaken]_vars
  BY <1>1
<1> QED
  BY <1>2, TxInvariant, PTL DEF Spec, AnswersInOrder
=============================================================================
