------------------------------- MODULE CanRx -------------------------------
(***************************************************************************)
(* Reception on one CAN port: the interrupt handler writes a message into  *)
(* a ring of slots and sends a pointer to the slot through a mailbox       *)
(* (can.c), the receive thread copies the message out of the slot          *)
(* (canTask.c, can_rx_interface).  Nothing marks a slot as free: a slot    *)
(* is written again when the ring has come round, read or not.             *)
(***************************************************************************)
EXTENDS Naturals, Sequences

CONSTANTS
    Slots,        \* can1_rx_msgs (64)
    Depth,        \* messages in mb_can1_rx (256 / 4 = 64)
    MaxMessages   \* bound: messages received

VARIABLES
    ring,     \* the number of the message in each slot, 0 for none
    index,    \* can1_rx_msgs_index
    mbox,     \* the pointers in the mailbox, as slot numbers
    arrived,  \* number of messages received
    pc,       \* receive thread: "wait", "header", "data", "manage"
    slot,     \* the pointer in its hand
    header,   \* the message the copied header came from
    data,     \* the message the copied data came from
    last,     \* history: the last message handled or given up
    overrun   \* history: since the thread was last idle, a message arrived that
              \* found every slot awaited

vars == <<ring, index, mbox, arrived, pc, slot, header, data, last, overrun>>

Idle == pc = "wait" /\ mbox = <<>>

\* Messages received and not yet handled.
Backlog == Len(mbox) + (IF pc = "wait" THEN 0 ELSE 1)

\* Faulty Pushed: the index is advanced before the pointer is taken.
LatePushed == IF Len(mbox) < Depth THEN Append(mbox, (index + 1) % Slots) ELSE mbox

\* rt_mb_send from the interrupt: refused when the mailbox is full, which nobody
\* looks at.
Pushed == IF Len(mbox) < Depth THEN Append(mbox, index) ELSE mbox

NextIndex == (index + 1) % Slots

\* CAN1_RX0_IRQHandler, between any two steps of the thread.
Arrive ==
    /\ arrived < MaxMessages
    /\ arrived' = arrived + 1
    /\ ring' = [ring EXCEPT ![index] = arrived + 1]
    /\ mbox' = Pushed
    /\ index' = NextIndex
    /\ overrun' = (IF Idle THEN FALSE ELSE overrun \/ Backlog >= Slots)
    /\ last' = IF Idle THEN arrived ELSE last
    /\ UNCHANGED <<pc, slot, header, data>>

\* rt_mb_recv
Take ==
    /\ pc = "wait" /\ mbox # <<>>
    /\ slot' = Head(mbox) /\ mbox' = Tail(mbox)
    /\ pc' = "header"
    /\ UNCHANGED <<ring, index, arrived, header, data, last, overrun>>

\* can_rx_interface without memory: the message is dropped.
NoMemory ==
    /\ pc = "header"
    /\ last' = ring[slot]
    /\ pc' = "wait" /\ slot' = 0
    /\ UNCHANGED <<ring, index, mbox, arrived, header, data, overrun>>

\* StdId, ExtId, IDE, RTR and DLC are copied, then the eight bytes.
CopyHeader ==
    /\ pc = "header"
    /\ header' = ring[slot]
    /\ pc' = "data"
    /\ UNCHANGED <<ring, index, mbox, arrived, slot, data, last, overrun>>

CopyData ==
    /\ pc = "data"
    /\ data' = ring[slot]
    /\ pc' = "manage"
    /\ UNCHANGED <<ring, index, mbox, arrived, slot, header, last, overrun>>

\* Faulty Done: back to the mailbox only if another message waits.
StuckDone == IF mbox = <<>> THEN "manage" ELSE "wait"

Done == "wait"

\* MsgRx_Manage, for the identifier that is read from the slot once more.
Manage ==
    /\ pc = "manage"
    /\ last' = ring[slot]
    /\ pc' = Done /\ slot' = 0 /\ header' = 0 /\ data' = 0
    /\ UNCHANGED <<ring, index, mbox, arrived, overrun>>

Init ==
    /\ ring = [k \in 0 .. Slots - 1 |-> 0]
    /\ index = 0 /\ mbox = <<>> /\ arrived = 0
    /\ pc = "wait" /\ slot = 0 /\ header = 0 /\ data = 0
    /\ last = 0 /\ overrun = FALSE

Thread == Take \/ NoMemory \/ CopyHeader \/ CopyData \/ Manage
Next == Arrive \/ Thread

(***************************************************************************)
(* Properties                                                              *)
(***************************************************************************)
\* The messages are handled in the order they came, none left out and none
\* twice, each copied from one message, as long as the ring never comes round to
\* a slot that is awaited.  The mailbox alone does not ensure it: it takes as many
\* pointers as there are slots while the thread holds one more.
HandledInOrder ==
    (pc = "manage" /\ ~overrun) =>
        header = last + 1 /\ data = last + 1 /\ ring[slot] = last + 1

\* Whatever was overwritten: once the thread has caught up, it is again in step
\* with the interrupt handler, and the next message is found where it points.
InStep ==
    \A k \in 1 .. Len(mbox) : ~overrun => ring[mbox[k]] = arrived - Len(mbox) + k
=============================================================================
