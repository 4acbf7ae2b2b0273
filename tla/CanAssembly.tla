---------------------------- MODULE CanAssembly ----------------------------
(***************************************************************************)
(* How blocks longer than a CAN frame are put together (MsgRx_Deal): the   *)
(* packets of a block are sent in order, each may be lost, or arrive twice *)
(* (a sender that misses the end of the acknowledgement repeats a frame).  *)
(* The receiver keeps no packet numbers: it counts bytes, from a packet 0  *)
(* to a last packet.  Packets arrive in the order they were sent; that is  *)
(* so as long as the master uses one of the two ports for a block.         *)
(***************************************************************************)
EXTENDS Naturals

CONSTANTS
    Parts,      \* packets of a block (3: 24 bytes, 8 in a packet)
    MaxBlocks   \* bound: blocks sent

ASSUME AssemblyAssumption == Parts \in Nat \ {0, 1} /\ MaxBlocks \in Nat \ {0}

VARIABLES
    block,    \* number of the block whose packets are sent
    part,     \* number of its next packet
    buf,      \* CanBuffData: which block each eighth byte came from
    len,      \* DataLen, in packets
    app,      \* AppBuffData: the block copied last
    again,    \* may the last packet arrive once more?
    missed,   \* history: packets lost of the block before and of the current one
    chasm,    \* history: were Parts packets lost of two successive blocks?
    lost,     \* history: has a packet been lost?
    twice,    \* history: has a packet arrived twice?
    clean     \* history: packets of the current block that arrived exactly once

vars == <<block, part, buf, len, app, again, missed, chasm, lost, twice, clean>>

PartNumbers == 0 .. Parts - 1
None == 0
Whole(b) == [p \in PartNumbers |-> b]

\* The next packet is sent.
Send ==
    /\ block <= MaxBlocks
    /\ part' = IF part = Parts - 1 THEN 0 ELSE part + 1
    /\ block' = IF part = Parts - 1 THEN block + 1 ELSE block

\* Faulty LenAfter: the count goes on over a packet 0.
EndlessLenAfter(p) == len + 1

\* Faulty LenAfter: any packet begins a block when nothing was counted.
EagerLenAfter(p) == IF p = 0 THEN 1 ELSE IF len = 0 THEN p + 1 ELSE len + 1

\* What DataLen is after a packet was counted.
LenAfter(p) == IF p = 0 THEN 1 ELSE len + 1

\* MsgRx_Deal and RxMsgUpdate_data for part p of block b: the packet is copied
\* to its place and counted; the last one decides.
Deal(b, p) ==
    /\ buf' = [buf EXCEPT ![p] = b]
    /\ IF p = Parts - 1
       THEN /\ len' = 0
            /\ app' = IF LenAfter(p) = Parts THEN buf' ELSE app
       ELSE len' = LenAfter(p) /\ UNCHANGED app

\* The counts of lost packets once n more of the current block are.
Missed(n) ==
    IF part = 0 THEN [before |-> missed.now, now |-> n] ELSE [missed EXCEPT !.now = @ + n]

Receive ==
    /\ Send
    /\ Deal(block, part)
    /\ again' = TRUE
    /\ missed' = Missed(0)
    /\ clean' = IF part = 0 THEN 1 ELSE clean + 1
    /\ UNCHANGED <<chasm, lost, twice>>

Lose ==
    /\ Send
    /\ again' = FALSE
    /\ missed' = Missed(1)
    /\ chasm' = (chasm \/ missed'.before + missed'.now >= Parts)
    /\ lost' = TRUE
    /\ clean' = IF part = 0 THEN 0 ELSE clean
    /\ UNCHANGED <<buf, len, app, twice>>

\* The packet received last comes again, once.
Repeat ==
    /\ again
    /\ IF part = 0 THEN Deal(block - 1, Parts - 1) ELSE Deal(block, part - 1)
    /\ again' = FALSE /\ twice' = TRUE /\ clean' = 0
    /\ UNCHANGED <<block, part, missed, chasm, lost>>

Init ==
    /\ block = 1 /\ part = 0
    /\ buf = Whole(None) /\ len = 0 /\ app = Whole(None)
    /\ again = FALSE /\ missed = [before |-> 0, now |-> 0]
    /\ chasm = FALSE /\ lost = FALSE /\ twice = FALSE /\ clean = 0

Next == Receive \/ Lose \/ Repeat

Spec == Init /\ [][Next]_vars

(***************************************************************************)
(* Properties                                                              *)
(***************************************************************************)
Contents == [PartNumbers -> None .. MaxBlocks]

TypeOK ==
    /\ block \in 1 .. MaxBlocks + 1 /\ part \in PartNumbers
    /\ buf \in Contents /\ app \in Contents /\ len \in Nat
    /\ missed \in [before : 0 .. Parts, now : 0 .. Parts] /\ clean \in 0 .. Parts
    /\ {again, chasm, lost, twice} \subseteq BOOLEAN

\* A block that is taken over was sent: its packets are of one block.  Byte
\* counting ensures that as long as fewer than Parts packets are lost of any two
\* successive blocks, and none is lost if others arrive twice.
NoMixture ==
    (~chasm /\ ~(lost /\ twice)) => \E b \in None .. MaxBlocks : app = Whole(b)

\* Whatever was lost or repeated before, a block whose packets all arrive, once
\* each, is taken over with its last packet.
CompleteBlockTaken ==
    (part = 0 /\ clean = Parts) => app = Whole(block - 1)
=============================================================================
