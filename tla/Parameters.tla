----------------------------- MODULE Parameters -----------------------------
(***************************************************************************)
(* The charge parameters and the calibration ("par", "adj"): how a block   *)
(* ordered over CAN or the serial line becomes the one in use (cbPara,     *)
(* cbAdj), how the logic thread hands it to the flash thread, and how it   *)
(* is read back after a reset.  The actors, from the highest priority:     *)
(* the CAN receive thread (3), logic (12), console (15), fst (18).  A      *)
(* thread is interrupted by those before it only; the request flags are    *)
(* bit-fields of one word, changed by a load and a store.                  *)
(***************************************************************************)
EXTENDS Naturals, Sequences

CONSTANTS
    Orders,       \* the blocks the master may order
    Odd,          \* those whose values sys_adj_read takes for implausible
    Zero,         \* what static storage holds before anything is read
    Default,      \* config.cbPara, config.cbAdj
    Garbage,      \* a heap block that was never written
    None,         \* nothing in the flash
    MailMax,      \* slots of fs_mailbox (32)
    EarlyOrders   \* may orders arrive before the stored blocks were read?

ASSUME ParametersAssumption ==
    /\ Odd \subseteq Orders
    /\ {Zero, Default, Garbage, None} \cap Orders = {}
    /\ MailMax \in Nat \ {0}
    /\ EarlyOrders \in BOOLEAN

Items == {"par", "adj"}
Values == Orders \cup {Zero, Default, Garbage}

VARIABLES
    cur,        \* cbPara, cbAdj: the block in use
    wr,         \* cbWrPara, cbWrAdj: the block ordered last
    flags,      \* status_bit: which of wParFlag, rParFlag, wAdjFlag, rAdjFlag are set
    lpc,        \* logic: "start", "set", "delay", "clear", "do", "half"
    lop,        \* logic: the flag it is setting or serving
    lword,      \* logic: the word loaded to change a bit of it
    spc,        \* console: "idle", "compare", "load", "store"
    sitem,      \* console: the block being ordered
    sword,      \* console: the word loaded to set a bit of it
    mbox,       \* fs_mailbox: the blocks to write
    stored,     \* the newest record of each block in the flash
    read,       \* history: the stored blocks read since the reset
    clobbered,  \* history: set flags lost to the store of a stale word
    dropped,    \* history: blocks whose last write found the mailbox full
    crossed     \* history: blocks ordered over CAN amid an order from the console

ram == <<cur, wr>>
logic == <<lpc, lop, lword>>
console == <<spc, sitem, sword>>
flash == <<mbox, stored, dropped>>
vars == <<ram, flags, logic, console, flash, read, clobbered, crossed>>

Booted == read = Items

W(i) == <<"w", i>>
R(i) == <<"r", i>>
NoOp == <<>>   \* between two requests

\* The order in which UserRecord looks at the flags.
Priority == <<W("par"), R("par"), W("adj"), R("adj")>>
First(word) ==
    Priority[CHOOSE k \in 1 .. 4 :
        Priority[k] \in word /\ \A j \in 1 .. k - 1 : Priority[j] \notin word]

\* A word loaded earlier is stored with one bit changed: flags set since are lost.
Store(word, loaded) ==
    /\ flags' = word
    /\ clobbered' = (clobbered \cup (flags \ loaded)) \ word

(***************************************************************************)
(* CAN receive thread: no other actor runs while it does                   *)
(***************************************************************************)
MayOrder == EarlyOrders \/ Booted

\* Faulty Apply: the block is taken over before it is compared.
BlindApply(i, v) ==
    /\ wr' = [wr EXCEPT ![i] = v]
    /\ cur' = [cur EXCEPT ![i] = v]
    /\ UNCHANGED <<flags, clobbered>>

\* MsgRx_Manage once the block ordered last is v: a block that differs from the
\* one in use is taken into use and marked for writing.
Apply(i, v) ==
    /\ wr' = [wr EXCEPT ![i] = v]
    /\ IF v # cur[i]
       THEN cur' = [cur EXCEPT ![i] = v] /\ Store(flags \cup {W(i)}, flags)
       ELSE UNCHANGED <<cur, flags, clobbered>>

\* The last packet of a complete block.
CanBlock(i, v) ==
    /\ MayOrder
    /\ Apply(i, v)
    /\ crossed' = IF spc # "idle" /\ sitem = i THEN crossed \cup {i}
                  ELSE IF v # cur[i] THEN crossed \ {i} ELSE crossed
    /\ UNCHANGED <<logic, console, flash, read>>

\* Any other packet of a block: the comparison is made all the same.
CanPacket(i) ==
    /\ MayOrder
    /\ Apply(i, wr[i])
    /\ UNCHANGED <<logic, console, flash, read, crossed>>

(***************************************************************************)
(* Console thread, while logic sleeps                                      *)
(***************************************************************************)
Asleep == lpc \in {"start", "delay"}

SerialOrder(i, v) ==
    /\ Asleep /\ MayOrder /\ spc = "idle"
    /\ wr' = [wr EXCEPT ![i] = v]
    /\ spc' = "compare" /\ sitem' = i
    /\ UNCHANGED <<cur, flags, logic, sword, flash, read, clobbered, crossed>>

SerialCompare ==
    /\ Asleep /\ spc = "compare"
    /\ IF wr[sitem] # cur[sitem]
       THEN cur' = [cur EXCEPT ![sitem] = wr[sitem]] /\ spc' = "load" /\ UNCHANGED sitem
       ELSE spc' = "idle" /\ sitem' = "par" /\ UNCHANGED cur
    /\ UNCHANGED <<wr, flags, logic, sword, flash, read, clobbered, crossed>>

SerialLoad ==
    /\ Asleep /\ spc = "load"
    /\ sword' = flags /\ spc' = "store"
    /\ UNCHANGED <<ram, flags, logic, sitem, flash, read, clobbered, crossed>>

SerialStore ==
    /\ Asleep /\ spc = "store"
    /\ Store(sword \cup {W(sitem)}, sword)
    /\ spc' = "idle" /\ sitem' = "par" /\ sword' = {}
    /\ UNCHANGED <<ram, logic, flash, read, crossed>>

Serial ==
    \/ \E i \in Items, v \in Orders : SerialOrder(i, v)
    \/ SerialCompare \/ SerialLoad \/ SerialStore

(***************************************************************************)
(* Logic thread: start-up, then UserRecord in every cycle                  *)
(***************************************************************************)
\* Two seconds after the start the thread asks itself for both blocks.
BootLoad ==
    /\ lpc = "start"
    /\ lword' = flags /\ lpc' = "set"
    /\ UNCHANGED <<ram, flags, lop, console, flash, read, clobbered, crossed>>

BootStore ==
    /\ lpc = "set"
    /\ Store(lword \cup {lop}, lword)
    /\ IF lop = R("par") THEN lop' = R("adj") /\ lpc' = "start"
                         ELSE lop' = NoOp /\ lpc' = "delay"
    /\ lword' = {}
    /\ UNCHANGED <<ram, console, flash, read, crossed>>

\* One flag is served in a cycle; it is cleared first.
Fetch ==
    /\ lpc = "delay" /\ flags # {}
    /\ lop' = First(flags) /\ lword' = flags /\ lpc' = "clear"
    /\ UNCHANGED <<ram, flags, console, flash, read, clobbered, crossed>>

Clear ==
    /\ lpc = "clear"
    /\ Store(lword \ {lop}, lword)
    /\ lpc' = "do" /\ lword' = {}
    /\ UNCHANGED <<ram, lop, console, flash, read, crossed>>

\* sys_par_write, sys_adj_write: a copy goes to the flash thread; nobody sees
\* whether the mailbox took it.
DoWrite ==
    LET i == lop[2] IN
    /\ lpc = "do" /\ lop[1] = "w"
    /\ IF Len(mbox) < MailMax
       THEN mbox' = Append(mbox, <<i, wr[i]>>) /\ dropped' = dropped \ {i}
       ELSE dropped' = dropped \cup {i} /\ UNCHANGED mbox
    /\ lpc' = "delay" /\ lop' = NoOp
    /\ UNCHANGED <<ram, flags, lword, console, stored, read, clobbered, crossed>>

Readable == stored[lop[2]] # None

\* sys_par_read, first store: the stored block to cbPara, or the default to cbWrPara.
DoReadPar ==
    /\ lpc = "do" /\ lop = R("par")
    /\ IF Readable THEN cur' = [cur EXCEPT !["par"] = stored["par"]] /\ UNCHANGED wr
                   ELSE wr' = [wr EXCEPT !["par"] = Default] /\ UNCHANGED cur
    /\ lpc' = "half"
    /\ UNCHANGED <<flags, lop, lword, console, flash, read, clobbered, crossed>>

\* Faulty HalfReadPar: cbWrPara is left alone.
LoneHalfReadPar ==
    /\ lpc = "half" /\ lop = R("par")
    /\ IF Readable THEN UNCHANGED ram
                   ELSE cur' = [cur EXCEPT !["par"] = Default] /\ UNCHANGED wr
    /\ lpc' = "delay" /\ lop' = NoOp /\ read' = read \cup {"par"}
    /\ UNCHANGED <<flags, lword, console, flash, clobbered, crossed>>

\* sys_par_read, second store.
HalfReadPar ==
    /\ lpc = "half" /\ lop = R("par")
    /\ IF Readable THEN wr' = [wr EXCEPT !["par"] = cur["par"]] /\ UNCHANGED cur
                   ELSE cur' = [cur EXCEPT !["par"] = Default] /\ UNCHANGED wr
    /\ lpc' = "delay" /\ lop' = NoOp /\ read' = read \cup {"par"}
    /\ UNCHANGED <<flags, lword, console, flash, clobbered, crossed>>

\* sys_adj_read: the test is the wrong way round.  A plausible stored block is
\* discarded for the default, anything else is used.
Plausible == Readable /\ stored["adj"] \notin Odd

DoReadAdj ==
    /\ lpc = "do" /\ lop = R("adj")
    /\ cur' = [cur EXCEPT !["adj"] = IF Plausible THEN Default
                                     ELSE IF Readable THEN stored["adj"] ELSE Garbage]
    /\ lpc' = "half"
    /\ UNCHANGED <<wr, flags, lop, lword, console, flash, read, clobbered, crossed>>

HalfReadAdj ==
    /\ lpc = "half" /\ lop = R("adj")
    /\ wr' = [wr EXCEPT !["adj"] = IF Plausible THEN Default ELSE cur["adj"]]
    /\ lpc' = "delay" /\ lop' = NoOp /\ read' = read \cup {"adj"}
    /\ UNCHANGED <<cur, flags, lword, console, flash, clobbered, crossed>>

Logic ==
    \/ BootLoad \/ BootStore \/ Fetch \/ Clear \/ DoWrite
    \/ DoReadPar \/ HalfReadPar \/ DoReadAdj \/ HalfReadAdj

(***************************************************************************)
(* Flash thread and reset                                                  *)
(***************************************************************************)
\* While logic does not run; a read of logic waits for the mutex, so a write is
\* seen by it as a whole.
FlashWrite ==
    /\ Asleep /\ mbox # <<>>
    /\ stored' = [stored EXCEPT ![Head(mbox)[1]] = Head(mbox)[2]]
    /\ mbox' = Tail(mbox)
    /\ UNCHANGED <<ram, flags, logic, console, dropped, read, clobbered, crossed>>

Unread == [i \in Items |-> Zero]

Init ==
    /\ cur = Unread /\ wr = Unread
    /\ flags = {}
    /\ lpc = "start" /\ lop = R("par") /\ lword = {}
    /\ spc = "idle" /\ sitem = "par" /\ sword = {}
    /\ mbox = <<>> /\ stored = [i \in Items |-> None]
    /\ read = {} /\ clobbered = {} /\ dropped = {} /\ crossed = {}

\* Power failure, the reboot orders, or the end of an update.
Reset ==
    /\ cur' = Unread /\ wr' = Unread
    /\ flags' = {}
    /\ lpc' = "start" /\ lop' = R("par") /\ lword' = {}
    /\ spc' = "idle" /\ sitem' = "par" /\ sword' = {}
    /\ mbox' = <<>>
    /\ read' = {} /\ clobbered' = {} /\ dropped' = {} /\ crossed' = {}
    /\ UNCHANGED stored

Next ==
    \/ \E i \in Items, v \in Orders : CanBlock(i, v)
    \/ \E i \in Items : CanPacket(i)
    \/ Serial \/ Logic \/ FlashWrite \/ Reset

Spec == Init /\ [][Next]_vars

\* Logic runs again after its delay of 10 ms; the console and the flash thread,
\* below it, run in those delays, again and again.  Nobody is bound to order.
Fairness ==
    /\ WF_vars(Logic)
    /\ SF_vars(SerialCompare \/ SerialLoad \/ SerialStore)
    /\ SF_vars(FlashWrite)

FairSpec == Spec /\ Fairness

(***************************************************************************)
(* Properties                                                              *)
(***************************************************************************)
\* Nothing is under way: no request, no order half made, nothing to write.
Quiet == Booted /\ flags = {} /\ lpc = "delay" /\ spc = "idle" /\ mbox = <<>>

Excused(i) == W(i) \in clobbered \/ i \in dropped \cup crossed

\* The parameters in use are the ones a reset brings back, unless the request to
\* write them was lost in one of three ways: a flag overwritten by the store of a
\* stale word, a full mailbox, or orders from both lines at the same moment.
ParaPersisted ==
    (Quiet /\ ~Excused("par")) =>
        stored["par"] = cur["par"] \/ (stored["par"] = None /\ cur["par"] = Default)

\* Parameters that were never ordered are neither written nor, once the stored
\* ones were read, in use; in particular not the zeros of static storage.
ParaWasOrdered ==
    /\ stored["par"] \in Orders \cup {None, Default}
    /\ Booted => cur["par"] \in Orders \cup {Default}

\* Between two orders the block ordered last is the block in use: if they
\* differed, the next packet of any order would take an old block into use.
CopiesAgree == (Booted /\ spc = "idle") => wr = cur

\* An ordered block is written in the end, unless another takes its place.
OrderStored ==
    \A v \in Orders : cur["par"] = v ~> (stored["par"] = v \/ cur["par"] # v \/ Excused("par"))
=============================================================================
