------------------------------- MODULE CanTx -------------------------------
(***************************************************************************)
(* CAN transmission (canApp.cpp, canTask.c, can.c).                        *)
(*                                                                         *)
(* A reply is asked for by the receive threads (priority 3), which answer  *)
(* a request on the port it came from, or by iap_svr (priority 1).  The    *)
(* thread can_s_tx (priority 6) splits it into packets while those threads *)
(* go on refreshing it; can_tx (priority 9) hands the packets one by one   *)
(* to the transmit mailboxes of the two controllers.                       *)
(*                                                                         *)
(* The content of a reply is the number of the request it was copied for.  *)
(* External: the controllers, which send what they hold in the order of    *)
(* the identifiers, go bus-off and recover, and the master, which puts the *)
(* packets of an answer together again.                                    *)
(***************************************************************************)
EXTENDS Naturals, FiniteSetsExt, Sequences

CONSTANTS
  Packets,       (* packets of each reply, in the order of _std_msg_table   *)
  Own,           (* replies that iap_svr also sends by itself               *)
  Depth,         (* entries of mb_can_tx, 256 in the code                   *)
  Boxes,         (* transmit mailboxes of a controller, 3                   *)
  SendRetries,   (* CAN_SEND_RETRYTIMES, 3 in the code                      *)
  Prios,         (* what the priority bits may hold, 0 .. 7 in the code     *)
  MaxAsks,       (* bound: how many requests for each reply, one of these    *)
  MaxFaults      (* bound: failed allocations and bus-offs                   *)

Replies == DOMAIN Packets
Ports   == 1 .. 2
PORTx   == 3                             (* "either port"                   *)

(* The reply of the update has eight bytes (canApp.cpp:38): one packet.    *)
ASSUME TxAssumption ==
  /\ Packets \in Seq(Nat \ {0}) /\ Own \subseteq Replies
  /\ \A f \in Own : Packets[f] = 1
  /\ Depth \in Nat \ {0} /\ Boxes \in Nat \ {0} /\ SendRetries \in Nat \ {0}
  /\ Prios \subseteq Nat /\ Prios # {}
  /\ MaxAsks \subseteq [Replies -> Nat] /\ MaxFaults \in Nat

VARIABLES
  canBuf,        (* CanBuffData of each reply: the request it answers       *)
  update,        (* replies whose update is set                             *)
  canPort,       (* canPort of each reply                                   *)
  event,         (* EventCanSend                                            *)
  pc, frame, no, (* can_s_tx: where it is, ScanFrame, frameCnt              *)
  tCyc,          (* _tCyc, the packet can_s_tx has made                     *)
  txIndex,       (* tx_index                                                *)
  mb,            (* mb_can_tx                                               *)
  tx, retry,     (* can_tx: tx_info, retry_times                            *)
  returned,      (* can_tx has returned from its entry function             *)
  box,           (* [Ports -> [1..Boxes -> packet]] the transmit mailboxes  *)
  busOff,        (* controllers with CAN_FLAG_BOF                           *)
  faults,        (* bound: failed allocations and bus-offs so far           *)
  rx,            (* the master: what it has of each answer on each port     *)
  got, broken,   (* history: last whole answer; an answer ended incomplete  *)
  crossed, lost, overtaken   (* history: what happened to a reply on its way*)

bufVars  == <<canBuf, update, canPort, event>>
sendVars == <<pc, frame, no, tCyc, txIndex>>
txVars   == <<tx, retry, returned>>
busVars  == <<box, busOff, faults>>
rxVars   == <<rx, got, broken>>
history  == <<crossed, lost, overtaken>>
vars == <<bufVars, sendVars, mb, txVars, busVars, rxVars, history>>

NoPacket == [prio |-> 0, frame |-> 0, no |-> 0, ver |-> 0, last |-> FALSE, port |-> 0]
Nothing  == [next |-> 0, ver |-> 0]

Init ==
  /\ canBuf = [f \in Replies |-> 0] /\ update = {}
  /\ canPort = [f \in Replies |-> PORTx] /\ event = FALSE
  /\ pc = "wait" /\ frame = 1 /\ no = 0 /\ tCyc = NoPacket /\ txIndex = FALSE
  /\ mb = <<>> /\ tx = NoPacket /\ retry = 0 /\ returned = FALSE
  /\ box = [p \in Ports |-> [b \in 1 .. Boxes |-> NoPacket]]
  /\ busOff = {} /\ faults = 0
  /\ rx = [f \in Replies |-> [p \in Ports |-> Nothing]]
  /\ got = [f \in Replies |-> [p \in Ports |-> 0]]
  /\ broken = {} /\ crossed = {} /\ lost = {} /\ overtaken = {}

-----------------------------------------------------------------------------
(* Packets on their way.                                                   *)

InHand    == IF tx.frame = 0 THEN {} ELSE {tx}
InBoxes   == {box[p][b] : p \in Ports, b \in 1 .. Boxes} \ {NoPacket}
Queued    == {mb[i] : i \in 1 .. Len(mb)}
Made      == IF pc = "send" THEN {tCyc} ELSE {}
Splitting(f) == pc \in {"pack", "send"} /\ frame = f
UnderWay(f) ==
  \/ f \in update \/ Splitting(f)
  \/ \E m \in InHand \cup InBoxes \cup Queued \cup Made : m.frame = f

-----------------------------------------------------------------------------
(***************************************************************************)
(* SendCan: the reply is refreshed, marked and the service woken.  All of  *)
(* it happens above can_s_tx, in one go for that thread.                   *)
(***************************************************************************)

SendCan(f) ==
  /\ canBuf' = [canBuf EXCEPT ![f] = @ + 1]
  /\ update' = update \cup {f}
  /\ event' = TRUE

MayAsk(f) == \E most \in MaxAsks :
  \A g \in Replies : canBuf[g] + (IF g = f THEN 1 ELSE 0) <= most[g]

(* A request starts a new history unless the reply is still under way.     *)
Note(f) ==
  IF UnderWay(f) THEN crossed' = crossed \cup {f} /\ UNCHANGED <<lost, overtaken, broken>>
  ELSE /\ crossed' = crossed \ {f} /\ lost' = lost \ {f}
       /\ overtaken' = overtaken \ {f} /\ broken' = broken \ {f}

(* MsgRx_Manage: the reply goes to the port of the request.                *)
Request(f, p) ==
  /\ MayAsk(f)
  /\ canPort' = [canPort EXCEPT ![f] = p]
  /\ SendCan(f) /\ Note(f)
  /\ UNCHANGED <<sendVars, mb, txVars, busVars, rx, got>>

(* iap_send: the port stays that of the last request.                      *)
IapSend(f) ==
  /\ MayAsk(f)
  /\ SendCan(f) /\ Note(f)
  /\ UNCHANGED <<canPort, sendVars, mb, txVars, busVars, rx, got>>

-----------------------------------------------------------------------------
(* The thread can_s_tx: Bsp_can_check_event and TriggerMsgPush.            *)

WaitEvent ==
  /\ pc = "wait" /\ event
  /\ event' = FALSE /\ pc' = "scan"
  /\ UNCHANGED <<canBuf, update, canPort, frame, no, tCyc, txIndex, mb, txVars, busVars,
                 rxVars, history>>

ScanEnd ==
  /\ pc = "scan" /\ frame \notin Replies
  /\ pc' = "wait" /\ frame' = 1
  /\ UNCHANGED <<bufVars, no, tCyc, txIndex, mb, txVars, busVars, rxVars, history>>

ScanSkip ==
  /\ pc = "scan" /\ frame \in Replies \ update
  /\ frame' = frame + 1
  /\ UNCHANGED <<bufVars, pc, no, tCyc, txIndex, mb, txVars, busVars, rxVars, history>>

ScanTake ==
  /\ pc = "scan" /\ frame \in update
  /\ update' = update \ {frame}
  /\ pc' = "pack"
  /\ UNCHANGED <<canBuf, canPort, event, frame, no, tCyc, txIndex, mb, txVars, busVars,
                 rxVars, history>>

(* MakeCanMsgExtID and MakeTxAckMsg: eight bytes of the buffer as it is    *)
(* now.  The identifier is a local that is never initialised, every field  *)
(* of it is set but prio, the highest one, and the mask keeps those bits:  *)
(* each packet has whatever priority the stack held.                       *)
Pack ==
  /\ pc = "pack" /\ pc' = "send"
  /\ \E q \in Prios :
       tCyc' = [prio |-> q, frame |-> frame, no |-> no, ver |-> canBuf[frame],
                last |-> no + 1 = Packets[frame], port |-> 0]
  /\ UNCHANGED <<bufVars, frame, no, txIndex, mb, txVars, busVars, rxVars, history>>

(* The port is read for every packet; PORTx alternates.                    *)
PortNow == IF canPort[frame] = PORTx THEN (IF txIndex THEN 1 ELSE 2) ELSE canPort[frame]

(* can_send_buffer: no memory or a full mailbox loses the packet, and      *)
(* nobody is told.                                                         *)
CanSendBuffer(m) ==
  \/ /\ Len(mb) < Depth
     /\ mb' = Append(mb, m)
     /\ UNCHANGED <<lost, faults>>
  \/ /\ Len(mb) < Depth => faults < MaxFaults
     /\ faults' = IF Len(mb) < Depth THEN faults + 1 ELSE faults
     /\ lost' = lost \cup {m.frame}
     /\ UNCHANGED mb

NextPacket ==
  /\ CanSendBuffer([tCyc EXCEPT !.port = PortNow])
  /\ txIndex' = IF canPort[frame] = PORTx THEN ~txIndex ELSE txIndex
  /\ tCyc' = NoPacket
  /\ IF tCyc.last THEN pc' = "scan" /\ frame' = frame + 1 /\ no' = 0
     ELSE pc' = "pack" /\ frame' = frame /\ no' = no + 1
  /\ UNCHANGED <<canBuf, canPort, event, txVars, box, busOff, rxVars, crossed, overtaken>>

(* Mutant: update is cleared when the reply is out, not before.            *)
SendClearing ==
  /\ pc = "send" /\ NextPacket
  /\ update' = IF tCyc.last THEN update \ {frame} ELSE update

Send ==
  /\ pc = "send" /\ NextPacket
  /\ UNCHANGED update

-----------------------------------------------------------------------------
(* The thread can_tx; tx is the packet it holds, NoPacket while it waits.  *)

(* Mutant: the newest packet is taken from the queue.                      *)
ReceiveNewest ==
  /\ ~returned /\ tx = NoPacket /\ mb # <<>>
  /\ tx' = mb[Len(mb)] /\ mb' = SubSeq(mb, 1, Len(mb) - 1) /\ retry' = SendRetries
  /\ UNCHANGED <<bufVars, sendVars, returned, busVars, rxVars, history>>

(* A packet for a controller that is bus-off ends the thread.              *)
Receive ==
  /\ ~returned /\ tx = NoPacket /\ mb # <<>>
  /\ mb' = Tail(mb)
  /\ LET m == Head(mb) IN
       IF m.port \in busOff
       THEN /\ returned' = TRUE /\ lost' = lost \cup {m.frame}
            /\ UNCHANGED <<tx, retry>>
       ELSE /\ tx' = m /\ retry' = SendRetries
            /\ UNCHANGED <<returned, lost>>
  /\ UNCHANGED <<bufVars, sendVars, busVars, rxVars, crossed, overtaken>>

Free(p) == {b \in 1 .. Boxes : box[p][b] = NoPacket}

(* The identifiers of two packets of one reply.                            *)
Ahead(m, n) == m.prio < n.prio \/ (m.prio = n.prio /\ m.no < n.no)

(* CAN_Transmit: the first empty mailbox.  The reply is overtaken if a     *)
(* packet of it is there that does not go before this one.                 *)
Transmit ==
  /\ ~returned /\ tx # NoPacket /\ Free(tx.port) # {}
  /\ box' = [box EXCEPT ![tx.port][Min(Free(tx.port))] = tx]
  /\ overtaken' = IF \E b \in 1 .. Boxes : /\ box[tx.port][b].frame = tx.frame
                                           /\ ~Ahead(box[tx.port][b], tx)
                  THEN overtaken \cup {tx.frame} ELSE overtaken
  /\ tx' = NoPacket /\ retry' = 0
  /\ UNCHANGED <<bufVars, sendVars, mb, returned, busOff, faults, rxVars, crossed, lost>>

(* No mailbox: a tick of delay, and the packet is dropped after the last   *)
(* attempt.                                                                *)
NoMailBox ==
  /\ ~returned /\ tx # NoPacket /\ Free(tx.port) = {}
  /\ retry' = retry - 1
  /\ IF retry = 1 THEN tx' = NoPacket /\ lost' = lost \cup {tx.frame}
     ELSE UNCHANGED <<tx, lost>>
  /\ UNCHANGED <<bufVars, sendVars, mb, returned, busVars, rxVars, crossed, overtaken>>

-----------------------------------------------------------------------------
(* External: the controllers and the master.                               *)

Waiting(p) == {b \in 1 .. Boxes : box[p][b] # NoPacket}

(* TXFP is off: the lowest identifier goes first, which is the packet with *)
(* the lowest priority bits, of these the reply with the lowest function   *)
(* number and of it the lowest packet; of two equal ones the lower mailbox.*)
(* The last packet's lastFrame bit agrees with its number.                 *)
Before(p, b, c) ==
  LET m == box[p][b]  n == box[p][c]
  IN \/ m.prio < n.prio
     \/ m.prio = n.prio /\ m.frame < n.frame
     \/ m.frame = n.frame /\ Ahead(m, n)
     \/ m.prio = n.prio /\ m.frame = n.frame /\ m.no = n.no /\ b <= c

(* What the master has of the answer after packet m.                       *)
Joined(r, m) == IF m.no = 0 \/ r = [next |-> m.no, ver |-> m.ver]
                THEN [next |-> m.no + 1, ver |-> m.ver] ELSE Nothing

OnBus(p) ==
  /\ p \notin busOff
  /\ \E b \in Waiting(p) :
       /\ \A c \in Waiting(p) : Before(p, b, c)
       /\ LET m == box[p][b]  r == Joined(rx[m.frame][p], m) IN
            /\ box' = [box EXCEPT ![p][b] = NoPacket]
            /\ rx' = [rx EXCEPT ![m.frame][p] = IF m.last THEN Nothing ELSE r]
            /\ got' = IF m.last /\ r # Nothing THEN [got EXCEPT ![m.frame][p] = m.ver] ELSE got
            /\ broken' = IF m.last /\ r = Nothing THEN broken \cup {m.frame} ELSE broken
  /\ UNCHANGED <<bufVars, sendVars, mb, txVars, busOff, faults, history>>

BusOffBegins(p) ==
  /\ p \notin busOff /\ faults < MaxFaults
  /\ busOff' = busOff \cup {p} /\ faults' = faults + 1
  /\ UNCHANGED <<bufVars, sendVars, mb, txVars, box, rxVars, history>>

(* ABOM is on: the controller recovers by itself.                          *)
BusOffEnds(p) ==
  /\ p \in busOff
  /\ busOff' = busOff \ {p}
  /\ UNCHANGED <<bufVars, sendVars, mb, txVars, box, faults, rxVars, history>>

-----------------------------------------------------------------------------
TriggerMsgPush   == WaitEvent \/ ScanEnd \/ ScanSkip \/ ScanTake \/ Pack \/ Send
CanTxService     == Receive \/ Transmit \/ NoMailBox
Controller(p)    == OnBus(p) \/ BusOffBegins(p) \/ BusOffEnds(p)

Next ==
  \/ \E f \in Replies, p \in Ports : Request(f, p)
  \/ \E f \in Own : IapSend(f)
  \/ TriggerMsgPush \/ CanTxService
  \/ \E p \in Ports : Controller(p)

Spec == Init /\ [][Next]_vars

(* can_s_tx and can_tx run whenever they have something to do, a working   *)
(* bus carries what waits and a controller recovers.  Nobody has to ask.   *)
FairSpec ==
  /\ Spec /\ WF_vars(TriggerMsgPush) /\ WF_vars(CanTxService)
  /\ WF_vars(\E p \in Ports : OnBus(p)) /\ WF_vars(\E p \in Ports : BusOffEnds(p))

-----------------------------------------------------------------------------
(* An answer that ends on the bus is whole and from one copy of its data,  *)
(* unless it was asked for again while it was under way, a packet of it    *)
(* was lost (no memory, mailbox full, three attempts without a mailbox) or *)
(* its unset priority bits let a later packet pass an earlier one that     *)
(* still waited in a mailbox of the controller.                            *)
AnswersWhole == broken \subseteq crossed \cup lost \cup overtaken

(* No answer on a port is older than one before it there, though each      *)
(* reply has one buffer, unless the controller held an older copy when     *)
(* the newer one came: it sends by identifier, not by age.                 *)
AnswersInOrder ==
  [][\A f \in Replies, p \in Ports : got'[f][p] < got[f][p] => f \in overtaken]_vars

Answered(f) ==
  IF canPort[f] = PORTx THEN \E p \in Ports : got[f][p] = canBuf[f]
  ELSE got[f][canPort[f]] = canBuf[f]

(* However requests, refreshing and sending interleave, the last request   *)
(* for a reply is answered whole, with its data, on its port, unless a     *)
(* packet of it was lost or overtaken: clearing update before splitting    *)
(* loses no request.                                                       *)
LastRequestAnswered ==
  <>[](\A f \in Replies :
         canBuf[f] = 0 \/ Answered(f) \/ f \in lost \cup overtaken \/ returned)

(* stm32f4xx_can.h:79 says of CAN_ABOM, which can.c:98 and :133 enable,    *)
(* that it is the automatic bus-off management: the controller goes back   *)
(* to work by itself.  So packets are taken from the queue again.          *)
BusOffIsSurvived == []<>(mb = <<>>)
=============================================================================
