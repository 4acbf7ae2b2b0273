----------------------------- MODULE CanReceive -----------------------------
(***************************************************************************)
(* Reception as a whole: the packets of the master's blocks cross the bus, *)
(* where they may be lost or repeated, pass the ring and the mailbox of    *)
(* CanRx, where they may be overwritten, refused or dropped, and are put   *)
(* together by CanAssembly in the receive thread.                          *)
(*                                                                         *)
(* block and part of CanAssembly are the place in the stream the thread    *)
(* has come to; the bus is ahead of it by what the ring holds.  A packet   *)
(* that never reaches the thread is booked as lost when the thread meets   *)
(* the next one that does.                                                 *)
(***************************************************************************)
EXTENDS CanAssembly, Sequences

CONSTANTS
    Slots, Depth, MaxMessages,   \* of CanRx
    MaxFaults                    \* bound: packets lost, repeated or dropped

\* The mailbox takes as many pointers as there are slots (64 and 256 / 4).
ASSUME CanRxAssumption == /\ {Slots, Depth, MaxMessages} \subseteq Nat \ {0}
                          /\ Slots <= Depth
                          /\ MaxFaults \in Nat

VARIABLES
    ring, index, mbox, arrived, pc, slot, header, data, last, overrun,   \* CanRx
    sent,      \* packets the master has sent
    load,      \* the packet in each slot of the ring
    taken,     \* the packet whose bytes were copied
    fresh,     \* was the packet sent last received, and not repeated since?
    faults     \* number of faults

rxVars == <<ring, index, mbox, arrived, pc, slot, header, data, last, overrun>>
busVars == <<sent, fresh, faults>>
receiveVars == <<vars, rxVars, busVars, load, taken>>

Rx == INSTANCE CanRx

\* Packets are numbered from 0 through all blocks.
BlockOf(n) == n \div Parts + 1
PartOf(n)  == n % Parts
Reached    == (block - 1) * Parts + part

(***************************************************************************)
(* The bus                                                                 *)
(***************************************************************************)
\* CAN1_RX0_IRQHandler stores the packet where the index stands.
Arrives(n) ==
    /\ Rx!Arrive
    /\ load' = [load EXCEPT ![index] = n]
    /\ UNCHANGED <<vars, taken>>

Fault == faults < MaxFaults /\ faults' = faults + 1

PacketArrives ==
    /\ sent < MaxBlocks * Parts
    /\ Arrives(sent)
    /\ sent' = sent + 1 /\ fresh' = TRUE
    /\ UNCHANGED faults

PacketLost ==
    /\ sent < MaxBlocks * Parts
    /\ Fault
    /\ sent' = sent + 1 /\ fresh' = FALSE
    /\ UNCHANGED <<vars, rxVars, load, taken>>

PacketRepeated ==
    /\ fresh /\ fresh' = FALSE
    /\ Fault
    /\ Arrives(sent - 1)
    /\ UNCHANGED sent

(***************************************************************************)
(* The receive thread                                                      *)
(***************************************************************************)
\* The packet the slot in the thread's hand holds by now.
Packet == load[slot]

Fetch ==
    /\ Rx!Take \/ Rx!CopyHeader
    /\ UNCHANGED <<vars, busVars, load, taken>>

Copy ==
    /\ Rx!CopyData
    /\ taken' = Packet
    /\ UNCHANGED <<vars, busVars, load>>

Drop ==
    /\ Rx!NoMemory /\ Fault
    /\ UNCHANGED <<vars, sent, fresh, load, taken>>

\* Bookkeeping only: what lies between the last packet and this one is lost.
Skip ==
    /\ pc = "manage" /\ Packet > Reached
    /\ Lose
    /\ UNCHANGED <<rxVars, busVars, load, taken>>

\* A packet from before the place reached, out of order: the identifier is that
\* of the slot, the bytes are those that were copied.  For CanAssembly a packet is
\* missing where it belongs and another one comes twice.
Disorder ==
    /\ Deal(BlockOf(taken), PartOf(Packet))
    /\ clean' = 0 /\ lost' = TRUE /\ twice' = TRUE
    /\ UNCHANGED <<block, part, again, missed, chasm>>

Handle ==
    /\ Rx!Manage /\ Packet <= Reached
    /\ CASE taken = Packet /\ Packet = Reached              -> Receive
         [] taken = Packet /\ Packet = Reached - 1 /\ again -> Repeat
         [] OTHER                                           -> Disorder
    /\ taken' = 0
    /\ UNCHANGED <<busVars, load>>

ReceiveInit ==
    /\ Init /\ Rx!Init
    /\ load = [k \in 0 .. Slots - 1 |-> 0] /\ taken = 0
    /\ sent = 0 /\ fresh = FALSE /\ faults = 0

Bus    == PacketArrives \/ PacketLost \/ PacketRepeated
Thread == Fetch \/ Copy \/ Drop \/ Skip \/ Handle

ReceiveSpec == ReceiveInit /\ [][Bus \/ Thread]_receiveVars

\* The thread has priority 3; the threads and interrupts before it leave it time.
FairReceive == ReceiveSpec /\ WF_receiveVars(Thread)

(***************************************************************************)
(* Properties                                                              *)
(***************************************************************************)
\* As long as the ring never comes round to a slot that is awaited, the messages
\* are handled in the order they came, none left out and none twice, each copied
\* from one message.  The mailbox alone does not ensure it: it takes as many
\* pointers as there are slots while the thread holds one more (can.c:517).
HandledInOrder == Rx!HandledInOrder

\* Whatever was overwritten: once the thread has caught up, it is again in step
\* with the interrupt handler, and the next message is found where it points.
InStep == Rx!InStep

\* The thread always comes to rest again with nothing left in the mailbox, though
\* only the mailbox wakes it (canTask.c:156): no message waits for the next one.
EveryMessageHandled == []<>Rx!Idle

\* NoMixture and CompleteBlockTaken of CanAssembly hold in the composition too: for
\* packets lost on the bus, lost for want of memory or overwritten in the ring.
=============================================================================
