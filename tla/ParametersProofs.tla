--------------------------- MODULE ParametersProofs ---------------------------
(* The parameters in use and those in the flash, for any blocks, any mailbox *)
(* and any interleaving, when no order arrives before the stored blocks were *)
(* read (run parameters_early shows what happens when one does).             *)
EXTENDS Parameters, Integers, SequenceTheorems, TLAPS

(***************************************************************************)
(* Types                                                                   *)
(***************************************************************************)
Writes   == {W("par"), W("adj")}
Reads    == {R("par"), R("adj")}
Requests == Writes \cup Reads

ParaTypeOK ==
  /\ cur \in [Items -> Values] /\ wr \in [Items -> Values]
  /\ flags \subseteq Requests /\ lword \subseteq Requests /\ sword \subseteq Requests
  /\ lop \in Requests \cup {NoOp} /\ sitem \in Items
  /\ lpc \in {"start", "set", "delay", "clear", "do", "half"}
  /\ spc \in {"idle", "compare", "load", "store"}
  /\ mbox \in Seq(Items \X Values)
  /\ stored \in [Items -> Values \cup {None}]
  /\ read \subseteq Items

(***************************************************************************)
(* The start: nobody orders yet, so the requests of the logic thread to    *)
(* itself are neither lost nor repeated, and nothing is written.           *)
(***************************************************************************)
Starting ==
  \/ /\ lop = R("par") /\ read = {}
     /\ \/ lpc = "start" /\ flags = {}
        \/ lpc = "set" /\ flags = {} /\ lword = {}
        \/ lpc = "clear" /\ flags = Reads /\ lword = Reads
        \/ lpc \in {"do", "half"} /\ flags = {R("adj")} /\ lword = {}
  \/ /\ lop = R("adj") /\ read = {}
     /\ \/ lpc = "start" /\ flags = {R("par")}
        \/ lpc = "set" /\ flags = {R("par")} /\ lword = {R("par")}
  \/ /\ lop = R("adj") /\ read = {"par"}
     /\ \/ lpc = "clear" /\ flags = {R("adj")} /\ lword = {R("adj")}
        \/ lpc \in {"do", "half"} /\ flags = {} /\ lword = {}
  \/ lpc = "delay" /\ read = {} /\ flags = Reads
  \/ lpc = "delay" /\ read = {"par"} /\ flags = {R("adj")}

(* Afterwards only writes are asked for.                                   *)
Serving ==
  /\ flags \subseteq Writes /\ lword \subseteq Writes /\ sword \subseteq Writes
  /\ lpc \in {"delay", "clear", "do"}
  /\ lpc \in {"clear", "do"} => lop \in Writes
  /\ lpc = "clear" => lop \in lword

PhaseInv ==
  IF Booted THEN Serving ELSE Starting /\ spc = "idle" /\ sword = {} /\ mbox = <<>>

(***************************************************************************)
(* The two copies of a block                                               *)
(***************************************************************************)
Ordered == Orders \cup {Default}

CopyInv ==
  /\ \A i \in read : wr[i] = cur[i] \/ (spc = "compare" /\ sitem = i)
  /\ "par" \in read => cur["par"] \in Ordered /\ wr["par"] \in Ordered
  /\ lpc = "half" /\ lop = R("par") =>
       IF stored["par"] # None THEN cur["par"] = stored["par"] ELSE wr["par"] = Default
  /\ lpc = "half" /\ lop = R("adj") =>
       (stored["adj"] = None \/ stored["adj"] \in Odd \/ cur["adj"] = Default)
  /\ \A k \in 1 .. Len(mbox) : mbox[k][1] = "par" => mbox[k][2] \in Ordered
  /\ stored["par"] \in Ordered \cup {None}

(***************************************************************************)
(* The parameters in use and the flash                                     *)
(***************************************************************************)
(* The next boot would read back what is in use, or choose it by default.  *)
Recalled == stored["par"] = cur["par"] \/ (stored["par"] = None /\ cur["par"] = Default)

(* ... once the flash thread has emptied its mailbox.                      *)
Kept ==
  \/ \E k \in 1 .. Len(mbox) :
       /\ mbox[k] = <<"par", cur["par"]>>
       /\ \A j \in 1 .. Len(mbox) : j > k => mbox[j][1] # "par"
  \/ Recalled /\ \A k \in 1 .. Len(mbox) : mbox[k][1] # "par"

(* Somebody is still going to write them.                                  *)
Pending ==
  \/ W("par") \in flags
  \/ lpc \in {"clear", "do"} /\ lop = W("par")
  \/ spc \in {"load", "store"} /\ sitem = "par"
  \/ spc = "compare" /\ sitem = "par" /\ wr["par"] # cur["par"]

StoreInv == "par" \in read /\ ~Excused("par") => Kept \/ Pending

ParaInv == ParaTypeOK /\ PhaseInv /\ CopyInv /\ StoreInv
(***************************************************************************)
(* Requests                                                                *)
(***************************************************************************)
LEMMA RequestsDiffer ==
  /\ W("par") # W("adj") /\ R("par") # R("adj")
  /\ \A i, j \in Items : W(i) # R(j)
  /\ \A i \in Items : W(i) # NoOp /\ R(i) # NoOp
BY DEF W, R, NoOp

LEMMA RequestParts ==
  \A i \in Items : /\ W(i)[1] = "w" /\ W(i)[2] = i
                   /\ R(i)[1] = "r" /\ R(i)[2] = i
BY DEF W, R

LEMMA ItemsAre == Items = {"par", "adj"} /\ "par" # "adj"
BY DEF Items

(* A flag that is set is served; a read of the parameters before one of the *)
(* calibration.                                                             *)
LEMMA FirstIsSet ==
  ASSUME NEW word \in SUBSET Requests, word # {}
  PROVE  /\ First(word) \in word
         /\ word = Reads => First(word) = R("par")
<1> DEFINE Leads(k) == /\ Priority[k] \in word
                       /\ \A j \in 1 .. k - 1 : Priority[j] \notin word
<1>1. /\ Priority[1] = W("par") /\ Priority[2] = R("par")
      /\ Priority[3] = W("adj") /\ Priority[4] = R("adj")
  BY DEF Priority
<1>2. \E k \in 1 .. 4 : Leads(k)
  <2>1. CASE W("par") \in word
    <3>1. Leads(1)
      BY <2>1, <1>1
    <3> QED
      BY <3>1
  <2>2. CASE W("par") \notin word /\ R("par") \in word
    <3>1. \A j \in 1 .. 2 - 1 : j = 1
      OBVIOUS
    <3>2. Leads(2)
      BY <2>2, <1>1, <3>1
    <3> QED
      BY <3>2
  <2>3. CASE W("par") \notin word /\ R("par") \notin word /\ W("adj") \in word
    <3>1. \A j \in 1 .. 3 - 1 : j = 1 \/ j = 2
      OBVIOUS
    <3>2. Leads(3)
      BY <2>3, <1>1, <3>1
    <3> QED
      BY <3>2
  <2>4. CASE word = {R("adj")}
    <3>1. \A j \in 1 .. 4 - 1 : j = 1 \/ j = 2 \/ j = 3
      OBVIOUS
    <3>2. /\ W("par") \notin word /\ R("par") \notin word /\ W("adj") \notin word
      BY <2>4, RequestsDiffer, ItemsAre
    <3>3. Leads(4)
      BY <2>4, <1>1, <3>1, <3>2
    <3> QED
      BY <3>3
  <2>5. \/ W("par") \in word \/ R("par") \in word \/ W("adj") \in word
        \/ word = {R("adj")}
    BY DEF Requests, Writes, Reads
  <2> QED
    BY <2>1, <2>2, <2>3, <2>4, <2>5
<1> DEFINE first == CHOOSE k \in 1 .. 4 : Leads(k)
<1>3. first \in 1 .. 4 /\ Leads(first)
  BY <1>2
<1>4. First(word) = Priority[first]
  BY DEF First
<1>5. ASSUME word = Reads PROVE first = 2
  <2>1. /\ W("par") \notin word /\ R("par") \in word /\ W("adj") \notin word
    BY <1>5, RequestsDiffer, ItemsAre DEF Reads
  <2>2. first # 1 /\ first # 3
    BY <2>1, <1>1, <1>3
  <2>3. first # 4
    <3>1. 2 \in 1 .. 4 - 1
      OBVIOUS
    <3> QED
      BY <2>1, <1>1, <1>3, <3>1
  <2> QED
    BY <2>2, <2>3, <1>3
<1> QED
  BY <1>1, <1>3, <1>4, <1>5

(* What the store of a word does to a flag: it stays, or was in the word    *)
(* that was loaded, or is noted as lost; and what is not noted any more is  *)
(* set.                                                                     *)
LEMMA StoreKeeps ==
  ASSUME NEW word, NEW loaded, NEW w, Store(word, loaded)
  PROVE  /\ flags' = word
         /\ w \in flags => w \in word \/ w \in loaded \/ w \in clobbered'
         /\ w \in clobbered => w \in word \/ w \in clobbered'
BY DEF Store
(***************************************************************************)
(* The mailbox                                                             *)
(***************************************************************************)
Mail == Items \X Values

(* A copy put into the mailbox is the last one; another block's changes     *)
(* nothing.                                                                 *)
LEMMA KeptAppended ==
  ASSUME mbox \in Seq(Mail), NEW i \in Items, NEW v \in Values,
         mbox' = Append(mbox, <<i, v>>), stored' = stored, cur' = cur
  PROVE  /\ i = "par" /\ v = cur["par"] => Kept'
         /\ i # "par" /\ Kept => Kept'
<1> DEFINE m == <<i, v>>
<1>1. m \in Mail
  BY DEF Mail
<1>2. /\ Len(mbox) \in Nat /\ Len(mbox') = Len(mbox) + 1
      /\ \A k \in 1 .. Len(mbox) : mbox'[k] = mbox[k]
      /\ mbox'[Len(mbox) + 1] = m
  BY <1>1, AppendProperties, LenProperties
<1> HIDE DEF m
<1>3. /\ Len(mbox) + 1 \in 1 .. Len(mbox')
      /\ \A j \in 1 .. Len(mbox') : ~(j > Len(mbox) + 1)
      /\ \A j \in 1 .. Len(mbox') : j \in 1 .. Len(mbox) \/ j = Len(mbox) + 1
  BY <1>2
<1>4. ASSUME i = "par", v = cur["par"] PROVE Kept'
  <2>1. mbox'[Len(mbox) + 1] = <<"par", cur'["par"]>>
    BY <1>2, <1>4 DEF m
  <2>2. \E k \in 1 .. Len(mbox') :
           /\ mbox'[k] = <<"par", cur'["par"]>>
           /\ \A j \in 1 .. Len(mbox') : j > k => mbox'[j][1] # "par"
    BY <2>1, <1>3
  <2> QED
    BY <2>2 DEF Kept
<1>5. ASSUME i # "par", Kept PROVE Kept'
  <2>1. mbox'[Len(mbox) + 1][1] # "par"
    BY <1>2, <1>5 DEF m
  <2>2. CASE \E k \in 1 .. Len(mbox) :
                /\ mbox[k] = <<"par", cur["par"]>>
                /\ \A j \in 1 .. Len(mbox) : j > k => mbox[j][1] # "par"
    <3>1. PICK k \in 1 .. Len(mbox) :
                /\ mbox[k] = <<"par", cur["par"]>>
                /\ \A j \in 1 .. Len(mbox) : j > k => mbox[j][1] # "par"
      BY <2>2
    <3>2. k \in 1 .. Len(mbox') /\ mbox'[k] = <<"par", cur'["par"]>>
      BY <3>1, <1>2
    <3>3. ASSUME NEW j \in 1 .. Len(mbox'), j > k PROVE mbox'[j][1] # "par"
      <4>1. CASE j = Len(mbox) + 1
        BY <4>1, <2>1
      <4>2. CASE j \in 1 .. Len(mbox)
        BY <4>2, <3>1, <3>3, <1>2
      <4> QED
        BY <4>1, <4>2, <1>3
    <3> QED
      BY <3>2, <3>3 DEF Kept
  <2>3. CASE Recalled /\ \A k \in 1 .. Len(mbox) : mbox[k][1] # "par"
    <3>1. \A k \in 1 .. Len(mbox') : mbox'[k][1] # "par"
      BY <2>3, <2>1, <1>2, <1>3
    <3>2. Recalled'
      BY <2>3 DEF Recalled
    <3> QED
      BY <3>1, <3>2 DEF Kept
  <2> QED
    BY <2>2, <2>3, <1>5 DEF Kept
<1> QED
  BY <1>4, <1>5

(* The flash thread moves the first copy from the mailbox to the flash.     *)
LEMMA KeptWritten ==
  ASSUME ParaTypeOK, FlashWrite, Kept
  PROVE  Kept'
<1>1. mbox \in Seq(Mail) /\ mbox # <<>> /\ mbox' = Tail(mbox)
  BY DEF ParaTypeOK, FlashWrite, Mail
<1>2. /\ Len(mbox) \in Nat /\ Len(mbox) > 0 /\ Len(mbox') = Len(mbox) - 1
      /\ \A k \in 1 .. Len(mbox') : mbox'[k] = mbox[k + 1]
      /\ Head(mbox) = mbox[1]
  BY <1>1, HeadTailProperties, LenProperties, EmptySeq
<1>3. mbox[1] \in Mail
  BY <1>1, <1>2, ElementOfSeq
<1>4. /\ cur' = cur /\ stored' = [stored EXCEPT ![mbox[1][1]] = mbox[1][2]]
      /\ stored \in [Items -> Values \cup {None}]
  BY <1>2 DEF FlashWrite, ram, ParaTypeOK
<1>5. "par" \in Items
  BY DEF Items
<1>6. CASE \E k \in 1 .. Len(mbox) :
              /\ mbox[k] = <<"par", cur["par"]>>
              /\ \A j \in 1 .. Len(mbox) : j > k => mbox[j][1] # "par"
  <2>1. PICK k \in 1 .. Len(mbox) :
              /\ mbox[k] = <<"par", cur["par"]>>
              /\ \A j \in 1 .. Len(mbox) : j > k => mbox[j][1] # "par"
    BY <1>6
  <2>2. CASE k = 1
    <3>1. mbox[1][1] = "par" /\ mbox[1][2] = cur["par"]
      BY <2>1, <2>2
    <3>2. stored'["par"] = cur'["par"]
      BY <3>1, <1>4, <1>5
    <3>3. \A j \in 1 .. Len(mbox') : j + 1 \in 1 .. Len(mbox) /\ j + 1 > k
      BY <2>2, <1>2
    <3>4. \A j \in 1 .. Len(mbox') : mbox'[j][1] # "par"
      BY <3>3, <2>1, <1>2
    <3> QED
      BY <3>2, <3>4 DEF Kept, Recalled
  <2>3. CASE k # 1
    <3>1. k - 1 \in 1 .. Len(mbox') /\ (k - 1) + 1 = k
      BY <2>3, <1>2
    <3>2. mbox'[k - 1] = <<"par", cur'["par"]>>
      BY <3>1, <2>1, <1>2, <1>4
    <3>3. ASSUME NEW j \in 1 .. Len(mbox'), j > k - 1 PROVE mbox'[j][1] # "par"
      <4>1. j + 1 \in 1 .. Len(mbox) /\ j + 1 > k
        BY <3>3, <1>2
      <4> QED
        BY <4>1, <2>1, <1>2
    <3> QED
      BY <3>1, <3>2, <3>3 DEF Kept
  <2> QED
    BY <2>2, <2>3
<1>7. CASE Recalled /\ \A k \in 1 .. Len(mbox) : mbox[k][1] # "par"
  <2>1. mbox[1][1] # "par"
    BY <1>7, <1>2
  <2>2. stored'["par"] = stored["par"]
    BY <2>1, <1>3, <1>4, <1>5
  <2>3. \A k \in 1 .. Len(mbox') : k + 1 \in 1 .. Len(mbox)
    BY <1>2
  <2>4. \A k \in 1 .. Len(mbox') : mbox'[k][1] # "par"
    BY <2>3, <1>7, <1>2
  <2> QED
    BY <1>4, <1>7, <2>2, <2>4 DEF Kept, Recalled
<1> QED
  BY <1>6, <1>7 DEF Kept

LEMMA KeptAsIs ==
  ASSUME mbox' = mbox, stored' = stored, cur'["par"] = cur["par"], Kept
  PROVE  Kept'
BY DEF Kept, Recalled
(***************************************************************************)
(* The steps, one part of the invariant after the other                    *)
(***************************************************************************)
LEMMA ParaInitially == Init => ParaInv
<1> SUFFICES ASSUME Init PROVE ParaInv
  OBVIOUS
<1>1. /\ R("par") \in Requests /\ "par" \in Items /\ Zero \in Values
      /\ read = {} /\ Items # {}
  BY DEF Requests, Reads, Items, Values, Init
<1>2. ParaTypeOK
  BY <1>1 DEF Init, ParaTypeOK, Unread
<1>3. PhaseInv
  <2>1. ~Booted
    BY <1>1 DEF Booted
  <2> QED
    BY <2>1, <1>1 DEF Init, PhaseInv, Starting
<1>4. CopyInv
  BY <1>1 DEF Init, CopyInv, Unread
<1>5. StoreInv
  BY <1>1 DEF StoreInv
<1> QED
  BY <1>2, <1>3, <1>4, <1>5 DEF ParaInv

(* The logic thread serves a request of its own kind.                       *)
LEMMA ServedRequest ==
  ASSUME ParaInv, lpc = "do"
  PROVE  /\ lop[1] = "w" => Booted /\ lop \in Writes
         /\ lop \in Requests
<1>1. CASE Booted
  BY <1>1 DEF ParaInv, PhaseInv, Serving, Requests
<1>2. CASE ~Booted
  <2>1. lop \in {R("par"), R("adj")}
    BY <1>2 DEF ParaInv, PhaseInv, Starting
  <2> QED
    BY <2>1, RequestParts, ItemsAre DEF Requests, Reads
<1> QED
  BY <1>1, <1>2

LEMMA ApplyType ==
  ASSUME ParaTypeOK, NEW i \in Items, NEW v \in Values, Apply(i, v)
  PROVE  /\ cur' \in [Items -> Values] /\ wr' \in [Items -> Values]
         /\ flags' \subseteq Requests
<1>1. W(i) \in Requests
  BY ItemsAre DEF Requests, Writes
<1> QED
  BY <1>1 DEF Apply, Store, ParaTypeOK

LEMMA ParaTypeStep == ParaInv /\ [Next]_vars => ParaTypeOK'
<1> SUFFICES ASSUME ParaInv, [Next]_vars PROVE ParaTypeOK'
  OBVIOUS
<1> USE DEF ParaTypeOK
<1>0. /\ ParaTypeOK /\ Orders \subseteq Values
      /\ \A i \in Items : W(i) \in Requests /\ R(i) \in Requests
      /\ {Zero, Default, Garbage} \subseteq Values
  BY ItemsAre DEF ParaInv, Values, Requests, Writes, Reads
<1>1. ASSUME NEW i \in Items, NEW v \in Orders, CanBlock(i, v) PROVE ParaTypeOK'
  <2>1. v \in Values /\ Apply(i, v)
    BY <1>0, <1>1 DEF CanBlock
  <2> QED
    BY <1>0, <1>1, <2>1, ApplyType DEF CanBlock, logic, console, flash
<1>2. ASSUME NEW i \in Items, CanPacket(i) PROVE ParaTypeOK'
  <2>1. wr[i] \in Values /\ Apply(i, wr[i])
    BY <1>0, <1>2 DEF CanPacket
  <2> QED
    BY <1>0, <1>2, <2>1, ApplyType DEF CanPacket, logic, console, flash
<1>3. CASE Serial
  <2>1. ASSUME NEW i \in Items, NEW v \in Orders, SerialOrder(i, v) PROVE ParaTypeOK'
    <3>1. wr' \in [Items -> Values]
      BY <1>0, <2>1 DEF SerialOrder
    <3> QED
      BY <1>0, <2>1, <3>1 DEF SerialOrder, logic, flash
  <2>2. CASE SerialCompare
    <3>1. cur' \in [Items -> Values] /\ sitem' \in Items
      BY <1>0, <2>2, ItemsAre DEF SerialCompare
    <3> QED
      BY <1>0, <2>2, <3>1 DEF SerialCompare, logic, flash
  <2>3. CASE SerialLoad
    BY <1>0, <2>3 DEF SerialLoad, ram, logic, flash
  <2>4. CASE SerialStore
    <3>1. flags' \subseteq Requests /\ sitem' \in Items /\ sword' = {}
      BY <1>0, <2>4, ItemsAre DEF SerialStore, Store
    <3> QED
      BY <1>0, <2>4, <3>1 DEF SerialStore, ram, logic, flash
  <2> QED
    BY <1>3, <2>1, <2>2, <2>3, <2>4 DEF Serial
<1>4. CASE Logic
  <2>1. CASE BootLoad
    BY <1>0, <2>1 DEF BootLoad, ram, console, flash
  <2>2. CASE BootStore
    <3>1. lop \in Requests
      <4>1. lpc = "set"
        BY <2>2 DEF BootStore
      <4>2. lop \in {R("par"), R("adj")}
        BY <4>1 DEF ParaInv, PhaseInv, Starting, Serving
      <4> QED
        BY <4>2 DEF Requests, Reads
    <3>2. flags' \subseteq Requests /\ lop' \in Requests \cup {NoOp} /\ lword' = {}
      BY <1>0, <2>2, <3>1, ItemsAre DEF BootStore, Store
    <3>3. lpc' \in {"start", "delay"}
      BY <2>2 DEF BootStore
    <3> QED
      BY <1>0, <2>2, <3>2, <3>3 DEF BootStore, ram, console, flash
  <2>3. CASE Fetch
    <3>1. First(flags) \in Requests
      BY <1>0, <2>3, FirstIsSet DEF Fetch
    <3> QED
      BY <1>0, <2>3, <3>1 DEF Fetch, ram, console, flash
  <2>4. CASE Clear
    <3>1. flags' \subseteq Requests
      BY <1>0, <2>4 DEF Clear, Store
    <3> QED
      BY <1>0, <2>4, <3>1 DEF Clear, ram, console, flash
  <2>5. CASE DoWrite
    <3>1. lop \in Writes
      BY <2>5, ServedRequest DEF DoWrite
    <3>2. PICK i \in Items : lop = W(i)
      BY <3>1, ItemsAre DEF Writes
    <3>3. lop[2] = i /\ <<i, wr[i]>> \in Items \X Values
      BY <3>2, <1>0, RequestParts
    <3>4. mbox' \in Seq(Items \X Values)
      <4>1. mbox' = Append(mbox, <<i, wr[i]>>) \/ mbox' = mbox
        BY <2>5, <3>3, Zenon DEF DoWrite
      <4>2. Append(mbox, <<i, wr[i]>>) \in Seq(Items \X Values)
        BY <3>3, <1>0, AppendProperties
      <4> QED
        BY <4>1, <4>2, <1>0
    <3> QED
      BY <1>0, <2>5, <3>4 DEF DoWrite, ram, console
  <2>6. CASE DoReadPar
    <3>1. cur' \in [Items -> Values] /\ wr' \in [Items -> Values]
      <4>1. lop[2] = "par"
        BY <2>6, RequestParts, ItemsAre DEF DoReadPar
      <4> QED
        BY <1>0, <2>6, <4>1, ItemsAre DEF DoReadPar, Readable
    <3> QED
      BY <1>0, <2>6, <3>1 DEF DoReadPar, console, flash
  <2>7. CASE HalfReadPar
    <3>1. cur' \in [Items -> Values] /\ wr' \in [Items -> Values]
      BY <1>0, <2>7, ItemsAre DEF HalfReadPar
    <3>2. read' \subseteq Items
      BY <1>0, <2>7, ItemsAre DEF HalfReadPar
    <3> QED
      BY <1>0, <2>7, <3>1, <3>2 DEF HalfReadPar, console, flash
  <2>8. CASE DoReadAdj
    <3>1. cur' \in [Items -> Values]
      <4>1. lop[2] = "adj"
        BY <2>8, RequestParts, ItemsAre DEF DoReadAdj
      <4> QED
        BY <1>0, <2>8, <4>1, ItemsAre DEF DoReadAdj, Readable, Plausible
    <3> QED
      BY <1>0, <2>8, <3>1 DEF DoReadAdj, console, flash
  <2>9. CASE HalfReadAdj
    <3>1. wr' \in [Items -> Values]
      BY <1>0, <2>9, ItemsAre DEF HalfReadAdj
    <3>2. read' \subseteq Items
      BY <1>0, <2>9, ItemsAre DEF HalfReadAdj
    <3> QED
      BY <1>0, <2>9, <3>1, <3>2 DEF HalfReadAdj, console, flash
  <2> QED
    BY <1>4, <2>1, <2>2, <2>3, <2>4, <2>5, <2>6, <2>7, <2>8, <2>9 DEF Logic
<1>5. CASE FlashWrite
  <2>1. mbox' \in Seq(Items \X Values) /\ Head(mbox) \in Items \X Values
    BY <1>0, <1>5, HeadTailProperties DEF FlashWrite
  <2>2. stored' \in [Items -> Values \cup {None}]
    BY <1>0, <1>5, <2>1 DEF FlashWrite
  <2> QED
    BY <1>0, <1>5, <2>1, <2>2 DEF FlashWrite, ram, logic, console
<1>6. CASE Reset
  BY <1>0, <1>6, ItemsAre DEF Reset, Unread
<1>7. CASE UNCHANGED vars
  BY <1>0, <1>7 DEF vars, ram, logic, console, flash
<1> QED
  BY <1>1, <1>2, <1>3, <1>4, <1>5, <1>6, <1>7 DEF Next
(* What the logic thread is about is known from what it does: up to the     *)
(* second read it goes through the start step by step.                      *)
LEMMA PhaseStep ==
  ASSUME EarlyOrders = FALSE, ParaInv, [Next]_vars
  PROVE  PhaseInv'
<1>0. /\ PhaseInv /\ ParaTypeOK
      /\ W("par") \in Writes /\ W("adj") \in Writes
      /\ \A i \in Items : W(i) \in Writes
      /\ R("par") \in Reads /\ R("adj") \in Reads /\ R("par") # R("adj")
      /\ R("par") \notin Writes /\ R("adj") \notin Writes
      /\ NoOp # R("par") /\ NoOp # R("adj")
  BY RequestsDiffer, ItemsAre DEF ParaInv, Writes, Reads
<1> DEFINE Line == \/ \E i \in Items, v \in Orders : CanBlock(i, v)
                   \/ \E i \in Items : CanPacket(i)
                   \/ Serial
<1>1. CASE Line
  <2>1. Booted
    <3>1. CASE \E i \in Items, v \in Orders : CanBlock(i, v)
      BY <3>1 DEF CanBlock, MayOrder
    <3>2. CASE \E i \in Items : CanPacket(i)
      BY <3>2 DEF CanPacket, MayOrder
    <3>3. CASE Serial
      BY <3>3, <1>0 DEF Serial, SerialOrder, SerialCompare, SerialLoad, SerialStore,
                        MayOrder, PhaseInv
    <3> QED
      BY <1>1, <3>1, <3>2, <3>3
  <2>2. Serving /\ Booted' = Booted /\ lop' = lop /\ lpc' = lpc /\ lword' = lword
    BY <1>1, <1>0, <2>1 DEF PhaseInv, Booted, CanBlock, CanPacket, Serial, SerialOrder,
                       SerialCompare, SerialLoad, SerialStore, logic
  <2>3. flags' \subseteq Writes /\ sword' \subseteq Writes
    <3>1. ASSUME NEW i \in Items, NEW v, Apply(i, v), sword' = sword
          PROVE  flags' \subseteq Writes /\ sword' \subseteq Writes
      BY <3>1, <2>2, <1>0 DEF Apply, Store, Serving
    <3>2. CASE \E i \in Items, v \in Orders : CanBlock(i, v)
      BY <3>1, <3>2 DEF CanBlock, console
    <3>3. CASE \E i \in Items : CanPacket(i)
      BY <3>1, <3>3 DEF CanPacket, console
    <3>4. CASE SerialStore
      BY <3>4, <2>2, <1>0 DEF SerialStore, Store, Serving, ParaTypeOK
    <3>5. CASE Serial /\ ~SerialStore
      BY <3>5, <2>2 DEF Serial, SerialOrder, SerialCompare, SerialLoad, Serving
    <3> QED
      BY <1>1, <3>2, <3>3, <3>4, <3>5
  <2> QED
    BY <2>1, <2>2, <2>3 DEF PhaseInv, Serving
<1>2. CASE Logic
  <2>1. CASE BootLoad \/ BootStore
    <3>1. ~Booted /\ Starting /\ spc = "idle" /\ sword = {} /\ mbox = <<>>
      BY <2>1, <1>0 DEF BootLoad, BootStore, PhaseInv, Serving
    <3>2. /\ ~Booted' /\ spc' = "idle" /\ sword' = {} /\ mbox' = <<>>
          /\ read' = read
      BY <3>1, <2>1 DEF BootLoad, BootStore, Booted, console, flash
    <3>3. CASE BootLoad
      BY <3>1, <3>2, <3>3 DEF BootLoad, Starting, PhaseInv
    <3>4. CASE BootStore
      <4>1. CASE lop = R("par")
        <5>1. flags' = {R("par")} /\ lop' = R("adj") /\ lpc' = "start" /\ read = {}
          BY <4>1, <3>1, <3>4, <1>0 DEF BootStore, Starting, Store
        <5> QED
          BY <5>1, <3>2 DEF Starting, PhaseInv
      <4>2. CASE lop = R("adj")
        <5>1. flags' = Reads /\ lpc' = "delay" /\ read = {}
          BY <4>2, <3>1, <3>4, <1>0 DEF BootStore, Starting, Store, Reads
        <5> QED
          BY <5>1, <3>2 DEF Starting, PhaseInv
      <4>3. lop = R("par") \/ lop = R("adj")
        BY <3>1, <3>4 DEF BootStore, Starting
      <4> QED
        BY <4>1, <4>2, <4>3
    <3> QED
      BY <2>1, <3>3, <3>4
  <2>2. CASE Fetch
    <3>1. /\ First(flags) \in flags /\ flags \subseteq Requests
          /\ flags = Reads => First(flags) = R("par")
      BY <2>2, <1>0, FirstIsSet DEF Fetch, ParaTypeOK
    <3>2. /\ read' = read /\ flags' = flags /\ lword' = flags /\ lpc' = "clear"
          /\ lop' = First(flags) /\ spc' = spc /\ mbox' = mbox /\ sword' = sword
          /\ lpc = "delay"
      BY <2>2 DEF Fetch, console, flash
    <3>3. CASE Booted
      BY <3>1, <3>2, <3>3, <1>0 DEF PhaseInv, Serving, Booted
    <3>4. CASE ~Booted
      <4>1. \/ read = {} /\ flags = Reads
            \/ read = {"par"} /\ flags = {R("adj")}
        BY <3>2, <3>4, <1>0 DEF PhaseInv, Starting
      <4>2. Starting'
        BY <4>1, <3>1, <3>2 DEF Starting
      <4> QED
        BY <4>2, <3>2, <3>4, <1>0 DEF PhaseInv, Booted
    <3> QED
      BY <3>3, <3>4
  <2>3. CASE Clear
    <3>1. /\ read' = read /\ flags' = lword \ {lop} /\ lword' = {} /\ lpc' = "do"
          /\ lop' = lop /\ spc' = spc /\ mbox' = mbox /\ sword' = sword
          /\ lpc = "clear"
      BY <2>3 DEF Clear, Store, console, flash
    <3>2. CASE Booted
      BY <3>1, <3>2, <1>0 DEF PhaseInv, Serving, Booted
    <3>3. CASE ~Booted
      <4>1. \/ lop = R("par") /\ read = {} /\ lword = Reads
            \/ lop = R("adj") /\ read = {"par"} /\ lword = {R("adj")}
        BY <3>1, <3>3, <1>0 DEF PhaseInv, Starting
      <4>2. Reads \ {R("par")} = {R("adj")} /\ {R("adj")} \ {R("adj")} = {}
        BY <1>0 DEF Reads
      <4>3. Starting'
        BY <4>1, <4>2, <3>1 DEF Starting
      <4> QED
        BY <4>3, <3>1, <3>3, <1>0 DEF PhaseInv, Booted
    <3> QED
      BY <3>2, <3>3
  <2>4. CASE DoWrite
    <3>1. Booted
      BY <2>4, ServedRequest DEF DoWrite
    <3>2. /\ read' = read /\ flags' = flags /\ lword' = lword /\ lpc' = "delay"
          /\ sword' = sword
      BY <2>4 DEF DoWrite, console
    <3> QED
      BY <3>1, <3>2, <1>0 DEF PhaseInv, Serving, Booted
  <2>5. CASE DoReadPar \/ DoReadAdj
    <3>1. /\ read' = read /\ flags' = flags /\ lpc = "do" /\ lpc' = "half"
          /\ lword' = lword /\ sword' = sword /\ lop' = lop /\ spc' = spc /\ mbox' = mbox /\ lop \in Reads
      BY <2>5, <1>0 DEF DoReadPar, DoReadAdj, console, flash
    <3>2. ~Booted /\ lop \notin Writes
      BY <3>1, <1>0 DEF PhaseInv, Serving, Reads
    <3>3. Starting'
      BY <3>1, <3>2, <1>0 DEF PhaseInv, Starting
    <3> QED
      BY <3>1, <3>2, <3>3, <1>0 DEF PhaseInv, Booted
  <2>6. CASE HalfReadPar
    <3>1. /\ read' = read \cup {"par"} /\ flags' = flags /\ lpc = "half"
          /\ lpc' = "delay" /\ spc' = spc /\ sword' = sword /\ mbox' = mbox
          /\ lop = R("par")
      BY <2>6 DEF HalfReadPar, console, flash
    <3>2. /\ ~Booted /\ read = {} /\ flags = {R("adj")}
          /\ spc = "idle" /\ sword = {} /\ mbox = <<>>
      BY <3>1, <1>0 DEF PhaseInv, Serving, Starting
    <3>3. read' = {"par"} /\ ~Booted'
      BY <3>1, <3>2, ItemsAre DEF Booted
    <3> QED
      BY <3>1, <3>2, <3>3 DEF PhaseInv, Starting
  <2>7. CASE HalfReadAdj
    <3>1. /\ read' = read \cup {"adj"} /\ flags' = flags /\ lpc = "half"
          /\ lpc' = "delay" /\ lword' = lword /\ sword' = sword /\ lop = R("adj")
      BY <2>7 DEF HalfReadAdj, console, flash
    <3>2. ~Booted /\ read = {"par"} /\ flags = {} /\ lword = {} /\ sword = {}
      BY <3>1, <1>0 DEF PhaseInv, Serving, Starting
    <3>3. Booted'
      BY <3>1, <3>2, ItemsAre DEF Booted
    <3> QED
      BY <3>1, <3>2, <3>3 DEF PhaseInv, Serving
  <2> QED
    BY <1>2, <2>1, <2>2, <2>3, <2>4, <2>5, <2>6, <2>7 DEF Logic
<1>3. CASE FlashWrite
  <2>1. /\ read' = read /\ flags' = flags /\ lpc' = lpc /\ lop' = lop /\ lword' = lword
        /\ sword' = sword /\ mbox # <<>>
    BY <1>3 DEF FlashWrite, logic, console
  <2> QED
    BY <2>1, <1>0 DEF PhaseInv, Serving, Booted
<1>4. CASE Reset
  <2>1. ~Booted'
    BY <1>4, ItemsAre DEF Reset, Booted
  <2> QED
    BY <1>4, <2>1 DEF Reset, PhaseInv, Starting
<1>5. CASE UNCHANGED vars
  <2>1. /\ read' = read /\ flags' = flags /\ lpc' = lpc /\ lop' = lop /\ lword' = lword
        /\ sword' = sword /\ mbox' = mbox /\ spc' = spc
    BY <1>5 DEF vars, logic, console, flash
  <2> QED
    BY <2>1, <1>0 DEF PhaseInv, Serving, Starting, Booted
<1> QED
  BY <1>1, <1>2, <1>3, <1>4, <1>5 DEF Next
(* A line that is heard at all finds both blocks read.                      *)
LEMMA LinesAreLate ==
  ASSUME EarlyOrders = FALSE, ParaInv
  PROVE  /\ MayOrder => Booted
         /\ spc # "idle" => Booted
         /\ Booted => read = Items /\ lpc # "half"
BY DEF MayOrder, ParaInv, PhaseInv, Serving, Booted

LEMMA ApplyCopies ==
  ASSUME ParaTypeOK, NEW i \in Items, NEW v, Apply(i, v)
  PROVE  /\ wr' = [wr EXCEPT ![i] = v] /\ cur'[i] = v /\ wr'[i] = v
         /\ \A j \in Items : j # i => cur'[j] = cur[j] /\ wr'[j] = wr[j]
<1>1. CASE v # cur[i]
  BY <1>1 DEF Apply, ParaTypeOK
<1>2. CASE v = cur[i]
  BY <1>2 DEF Apply, ParaTypeOK
<1> QED
  BY <1>1, <1>2

LEMMA CopyStep ==
  ASSUME EarlyOrders = FALSE, ParaInv, [Next]_vars
  PROVE  CopyInv'
<1>0. /\ ParaTypeOK /\ PhaseInv /\ CopyInv /\ "par" \in Items /\ "adj" \in Items
      /\ Orders \subseteq Ordered /\ Default \in Ordered
  BY ItemsAre DEF ParaInv, Ordered
<1>1. ASSUME NEW i \in Items, NEW v, Apply(i, v), MayOrder,
             i = "par" => v \in Ordered,
             lpc' = lpc, lop' = lop, spc' = spc, sitem' = sitem, read' = read,
             mbox' = mbox, stored' = stored
      PROVE  CopyInv'
  <2>1. read = Items /\ lpc # "half"
    BY <1>1, LinesAreLate
  <2>2. /\ cur'[i] = v /\ wr'[i] = v
        /\ \A j \in Items : j # i => cur'[j] = cur[j] /\ wr'[j] = wr[j]
    BY <1>0, <1>1, ApplyCopies
  <2>3. \A j \in read' : wr'[j] = cur'[j] \/ (spc' = "compare" /\ sitem' = j)
    BY <1>0, <1>1, <2>1, <2>2 DEF CopyInv
  <2>4. cur'["par"] \in Ordered /\ wr'["par"] \in Ordered
    BY <1>0, <1>1, <2>1, <2>2 DEF CopyInv
  <2> QED
    BY <1>0, <1>1, <2>1, <2>3, <2>4 DEF CopyInv
<1>2. ASSUME NEW i \in Items, NEW v \in Orders, CanBlock(i, v) PROVE CopyInv'
  BY <1>0, <1>1, <1>2 DEF CanBlock, logic, console, flash
<1>3. ASSUME NEW i \in Items, CanPacket(i) PROVE CopyInv'
  <2>1. read = Items
    BY <1>3, LinesAreLate DEF CanPacket
  <2>2. i = "par" => wr[i] \in Ordered
    BY <2>1, <1>0 DEF CopyInv
  <2> QED
    BY <1>0, <1>1, <1>3, <2>2 DEF CanPacket, logic, console, flash
<1>4. CASE Serial
  <2>1. read = Items /\ lpc # "half"
    BY <1>4, LinesAreLate DEF Serial, SerialOrder, SerialCompare, SerialLoad, SerialStore
  <2>2. lpc' = lpc /\ read' = read /\ mbox' = mbox /\ stored' = stored
    BY <1>4 DEF Serial, SerialOrder, SerialCompare, SerialLoad, SerialStore, logic, flash
  <2>3. /\ \A j \in Items : wr'[j] = cur'[j] \/ (spc' = "compare" /\ sitem' = j)
        /\ cur'["par"] \in Ordered /\ wr'["par"] \in Ordered
    <3>1. /\ \A j \in Items : wr[j] = cur[j] \/ (spc = "compare" /\ sitem = j)
          /\ cur["par"] \in Ordered /\ wr["par"] \in Ordered
          /\ cur \in [Items -> Values] /\ wr \in [Items -> Values] /\ sitem \in Items
      BY <2>1, <1>0 DEF CopyInv, ParaTypeOK
    <3>2. ASSUME NEW i \in Items, NEW v \in Orders, SerialOrder(i, v)
          PROVE  /\ \A j \in Items : wr'[j] = cur'[j] \/ (spc' = "compare" /\ sitem' = j)
                 /\ cur'["par"] \in Ordered /\ wr'["par"] \in Ordered
      <4>1. /\ spc = "idle" /\ spc' = "compare" /\ sitem' = i /\ cur' = cur
            /\ wr' = [wr EXCEPT ![i] = v] /\ v \in Ordered
        BY <3>2, <1>0 DEF SerialOrder
      <4>2. \A j \in Items : j # i => wr'[j] = wr[j] /\ wr'[i] = v
        BY <4>1, <3>1
      <4>3. wr'["par"] \in Ordered
        BY <4>1, <3>1, <1>0
      <4> QED
        BY <4>1, <4>2, <4>3, <3>1
    <3>3. CASE SerialCompare
      <4>1. CASE wr[sitem] # cur[sitem]
        <5>1. wr' = wr /\ cur' = [cur EXCEPT ![sitem] = wr[sitem]]
          BY <3>3, <4>1 DEF SerialCompare
        <5>2. cur'["par"] \in Ordered
          BY <5>1, <3>1, <1>0
        <5>3. \A j \in Items : wr'[j] = cur'[j]
          BY <5>1, <3>1
        <5> QED
          BY <5>1, <5>2, <5>3, <3>1
      <4>2. CASE wr[sitem] = cur[sitem]
        <5>1. wr' = wr /\ cur' = cur
          BY <3>3, <4>2 DEF SerialCompare
        <5> QED
          BY <5>1, <4>2, <3>1
      <4> QED
        BY <4>1, <4>2
    <3>4. CASE SerialLoad \/ SerialStore
      <4>1. cur' = cur /\ wr' = wr /\ spc # "compare"
        BY <3>4 DEF SerialLoad, SerialStore, ram
      <4> QED
        BY <4>1, <3>1
    <3> QED
      BY <1>4, <3>2, <3>3, <3>4 DEF Serial
  <2> QED
    BY <1>0, <2>1, <2>2, <2>3 DEF CopyInv
<1>5. CASE Logic
  <2>1. CASE BootLoad \/ BootStore \/ Fetch \/ Clear
    <3>1. /\ cur' = cur /\ wr' = wr /\ spc' = spc /\ sitem' = sitem /\ read' = read
          /\ mbox' = mbox /\ stored' = stored /\ lpc' # "half"
      BY <2>1 DEF BootLoad, BootStore, Fetch, Clear, ram, console, flash
    <3> QED
      BY <3>1, <1>0 DEF CopyInv
  <2>2. CASE DoWrite
    <3>1. Booted /\ lop \in Writes
      BY <2>2, ServedRequest DEF DoWrite
    <3>2. PICK i \in Items : lop = W(i)
      BY <3>1, ItemsAre DEF Writes
    <3>3. lop[2] = i /\ (i = "par" => wr[i] \in Ordered)
      BY <3>1, <3>2, <1>0, RequestParts DEF CopyInv, Booted
    <3>4. /\ cur' = cur /\ wr' = wr /\ spc' = spc /\ sitem' = sitem /\ read' = read
          /\ stored' = stored /\ lpc' # "half"
          /\ mbox' = Append(mbox, <<i, wr[i]>>) \/ mbox' = mbox
      BY <2>2, <3>3, Zenon DEF DoWrite, ram, console
    <3>5. \A k \in 1 .. Len(mbox') : mbox'[k][1] = "par" => mbox'[k][2] \in Ordered
      <4>1. CASE mbox' = Append(mbox, <<i, wr[i]>>)
        <5>1. /\ Len(mbox) \in Nat /\ Len(mbox') = Len(mbox) + 1
              /\ \A k \in 1 .. Len(mbox) : mbox'[k] = mbox[k]
              /\ mbox'[Len(mbox) + 1] = <<i, wr[i]>>
          <6>1. mbox \in Seq(Items \X Values) /\ <<i, wr[i]>> \in Items \X Values
            BY <1>0 DEF ParaTypeOK
          <6> QED
            BY <4>1, <6>1, AppendProperties, LenProperties
        <5>2. \A k \in 1 .. Len(mbox') : k \in 1 .. Len(mbox) \/ k = Len(mbox) + 1
          BY <5>1
        <5>3. mbox'[Len(mbox) + 1][1] = i /\ mbox'[Len(mbox) + 1][2] = wr[i]
          BY <5>1
        <5> QED
          BY <5>1, <5>2, <5>3, <3>3, <1>0 DEF CopyInv
      <4>2. CASE mbox' = mbox
        BY <4>2, <1>0 DEF CopyInv
      <4> QED
        BY <3>4, <4>1, <4>2
    <3> QED
      BY <3>4, <3>5, <1>0 DEF CopyInv
  <2>3. CASE DoReadPar
    <3>1. /\ lop = R("par") /\ lop[2] = "par" /\ lpc = "do" /\ lpc' = "half" /\ lop' = lop
          /\ read' = read /\ mbox' = mbox /\ stored' = stored
      BY <2>3, RequestParts, ItemsAre DEF DoReadPar, flash
    <3>2. read = {}
      <4>1. lop \notin Writes
        BY <3>1, RequestsDiffer, ItemsAre DEF Writes
      <4>2. R("par") # R("adj")
        BY RequestsDiffer
      <4> QED
        BY <4>1, <4>2, <3>1, <1>0 DEF PhaseInv, Serving, Starting
    <3>3. IF stored["par"] # None THEN cur'["par"] = stored["par"] ELSE wr'["par"] = Default
      BY <2>3, <3>1, <1>0 DEF DoReadPar, Readable, ParaTypeOK
    <3>4. R("par") # R("adj")
      BY RequestsDiffer
    <3> QED
      BY <3>1, <3>2, <3>3, <3>4, <1>0 DEF CopyInv
  <2>4. CASE HalfReadPar
    <3>1. /\ lop = R("par") /\ lop[2] = "par" /\ lpc = "half" /\ lpc' = "delay"
          /\ read' = read \cup {"par"} /\ mbox' = mbox /\ stored' = stored
      BY <2>4, RequestParts, ItemsAre DEF HalfReadPar, flash
    <3>2. read = {}
      BY <3>1, RequestsDiffer, <1>0 DEF PhaseInv, Serving, Starting
    <3>3. wr'["par"] = cur'["par"] /\ cur'["par"] \in Ordered
      <4>1. CASE stored["par"] # None
        <5>1. cur["par"] = stored["par"] /\ stored["par"] \in Ordered
          BY <3>1, <4>1, <1>0 DEF CopyInv
        <5> QED
          BY <5>1, <4>1, <3>1, <2>4, <1>0 DEF HalfReadPar, Readable, ParaTypeOK
      <4>2. CASE stored["par"] = None
        <5>1. wr["par"] = Default
          BY <3>1, <4>2, <1>0 DEF CopyInv
        <5> QED
          BY <5>1, <4>2, <3>1, <2>4, <1>0 DEF HalfReadPar, Readable, ParaTypeOK
      <4> QED
        BY <4>1, <4>2
    <3> QED
      BY <3>1, <3>2, <3>3, <1>0 DEF CopyInv
  <2>5. CASE DoReadAdj
    <3>1. /\ lop = R("adj") /\ lop[2] = "adj" /\ lpc = "do" /\ lpc' = "half" /\ lop' = lop
          /\ read' = read /\ mbox' = mbox /\ stored' = stored /\ wr' = wr
          /\ spc' = spc /\ sitem' = sitem
          /\ R("par") # R("adj")
      BY <2>5, RequestParts, RequestsDiffer, ItemsAre DEF DoReadAdj, flash, console
    <3>2. read = {"par"}
      <4>1. lop \notin Writes
        BY <3>1, RequestsDiffer, ItemsAre DEF Writes
      <4> QED
        BY <4>1, <3>1, <1>0 DEF PhaseInv, Serving, Starting
    <3>3. /\ cur'["par"] = cur["par"]
          /\ stored["adj"] = None \/ stored["adj"] \in Odd \/ cur'["adj"] = Default
      BY <2>5, <3>1, <1>0, ItemsAre DEF DoReadAdj, Plausible, Readable, ParaTypeOK
    <3> QED
      BY <3>1, <3>2, <3>3, <1>0 DEF CopyInv
  <2>6. CASE HalfReadAdj
    <3>1. /\ lop = R("adj") /\ lop[2] = "adj" /\ lpc = "half" /\ lpc' = "delay"
          /\ read' = read \cup {"adj"} /\ mbox' = mbox /\ stored' = stored /\ cur' = cur
          /\ spc' = spc /\ sitem' = sitem /\ R("par") # R("adj")
      BY <2>6, RequestParts, RequestsDiffer, ItemsAre DEF HalfReadAdj, flash, console
    <3>2. read = {"par"}
      BY <3>1, <1>0 DEF PhaseInv, Serving, Starting
    <3>3. wr'["par"] = wr["par"] /\ wr'["adj"] = cur["adj"]
      <4>1. CASE Plausible
        <5>1. cur["adj"] = Default
          BY <3>1, <4>1, <1>0 DEF CopyInv, Plausible, Readable
        <5> QED
          BY <5>1, <4>1, <2>6, <1>0, ItemsAre DEF HalfReadAdj, ParaTypeOK
      <4>2. CASE ~Plausible
        BY <4>2, <2>6, <1>0, ItemsAre DEF HalfReadAdj, ParaTypeOK
      <4> QED
        BY <4>1, <4>2
    <3> QED
      BY <3>1, <3>2, <3>3, <1>0 DEF CopyInv
  <2> QED
    BY <1>5, <2>1, <2>2, <2>3, <2>4, <2>5, <2>6 DEF Logic
<1>6. CASE FlashWrite
  <2>1. /\ cur' = cur /\ wr' = wr /\ lpc' = lpc /\ lpc # "half" /\ spc' = spc
        /\ sitem' = sitem /\ read' = read
    BY <1>6 DEF FlashWrite, Asleep, ram, logic, console
  <2>2. /\ Len(mbox) \in Nat /\ Len(mbox) > 0 /\ Len(mbox') = Len(mbox) - 1
        /\ \A k \in 1 .. Len(mbox') : mbox'[k] = mbox[k + 1]
        /\ Head(mbox) = mbox[1] /\ mbox[1] \in Items \X Values
    <3>1. mbox \in Seq(Items \X Values) /\ mbox # <<>> /\ mbox' = Tail(mbox)
      BY <1>6, <1>0 DEF FlashWrite, ParaTypeOK
    <3> QED
      BY <3>1, HeadTailProperties, LenProperties, EmptySeq, ElementOfSeq
  <2>3. \A k \in 1 .. Len(mbox') : k + 1 \in 1 .. Len(mbox)
    BY <2>2
  <2>4. \A k \in 1 .. Len(mbox') : mbox'[k][1] = "par" => mbox'[k][2] \in Ordered
    BY <2>2, <2>3, <1>0 DEF CopyInv
  <2>5. stored'["par"] \in Ordered \cup {None}
    <3>1. 1 \in 1 .. Len(mbox)
      BY <2>2
    <3>2. stored' = [stored EXCEPT ![Head(mbox)[1]] = Head(mbox)[2]]
      BY <1>6, Zenon DEF FlashWrite
    <3>3. stored' = [stored EXCEPT ![mbox[1][1]] = mbox[1][2]]
      BY <3>2, <2>2, Zenon
    <3> QED
      BY <3>1, <3>3, <2>2, <1>0 DEF CopyInv, ParaTypeOK
  <2> QED
    BY <2>1, <2>4, <2>5, <1>0 DEF CopyInv
<1>7. CASE Reset
  BY <1>7, <1>0 DEF Reset, CopyInv
<1>8. CASE UNCHANGED vars
  BY <1>8, <1>0 DEF vars, ram, logic, console, flash, CopyInv
<1> QED
  BY <1>2, <1>3, <1>4, <1>5, <1>6, <1>7, <1>8 DEF Next
(* It is enough that a step neither loses what is kept or pending without   *)
(* an excuse nor takes an excuse away.                                      *)
LEMMA Carried ==
  ASSUME StoreInv, "par" \in read' => "par" \in read,
         Excused("par") => Excused("par")' \/ Pending',
         Kept => Kept' \/ Pending' \/ Excused("par")',
         Pending => Kept' \/ Pending' \/ Excused("par")'
  PROVE  StoreInv'
BY DEF StoreInv

LEMMA ApplyStores ==
  ASSUME EarlyOrders = FALSE, ParaInv, NEW i \in Items, NEW v, Apply(i, v), MayOrder,
         lpc' = lpc, lop' = lop, spc' = spc, sitem' = sitem, read' = read,
         mbox' = mbox, stored' = stored, dropped' = dropped,
         "par" \in crossed => "par" \in crossed' \/ W("par") \in flags',
         i = "par" => v = wr["par"] \/ spc = "idle" \/ sitem # "par" \/ "par" \in crossed'
  PROVE  StoreInv'
<1>0. /\ ParaTypeOK /\ StoreInv /\ CopyInv /\ PhaseInv /\ read = Items
      /\ "par" \in Items
  BY LinesAreLate, ItemsAre DEF ParaInv
<1>1. CASE i = "par" /\ v # cur[i]
  <2>1. W("par") \in flags'
    BY <1>1 DEF Apply, Store
  <2> QED
    BY <2>1 DEF Pending, StoreInv
<1>2. CASE i = "par" /\ v = cur[i]
  <2>1. cur' = cur /\ flags' = flags /\ clobbered' = clobbered
    BY <1>2 DEF Apply
  <2>2. wr'["par"] = v
    BY <1>0, <1>2, ApplyCopies
  <2>3. Kept => Kept'
    BY <2>1, KeptAsIs
  <2>4. Excused("par") => Excused("par")' \/ Pending'
    BY <2>1 DEF Excused, Pending
  <2>5. Pending => Pending' \/ Excused("par")'
    BY <2>1, <1>2 DEF Pending, Excused
  <2> QED
    BY <2>3, <2>4, <2>5, <1>0, Carried
<1>3. CASE i # "par"
  <2>1. cur'["par"] = cur["par"] /\ wr'["par"] = wr["par"]
    BY <1>0, <1>3, ApplyCopies
  <2>2. Kept => Kept'
    BY <2>1, KeptAsIs
  <2>3. /\ W("par") \in flags => W("par") \in flags'
        /\ W("par") \in clobbered => W("par") \in clobbered' \/ W("par") \in flags'
    BY DEF Apply, Store
  <2>4. Excused("par") => Excused("par")' \/ Pending'
    BY <2>3 DEF Excused, Pending
  <2>5. Pending => Pending'
    BY <2>1, <2>3 DEF Pending
  <2> QED
    BY <2>2, <2>4, <2>5, <1>0, Carried
<1> QED
  BY <1>1, <1>2, <1>3

LEMMA StoreStep ==
  ASSUME EarlyOrders = FALSE, ParaInv, [Next]_vars
  PROVE  StoreInv'
<1>0. /\ ParaTypeOK /\ PhaseInv /\ CopyInv /\ StoreInv /\ "par" \in Items /\ "adj" \in Items
      /\ W("par") # W("adj")
  BY ItemsAre, RequestsDiffer DEF ParaInv
<1>1. ASSUME NEW i \in Items, NEW v \in Orders, CanBlock(i, v) PROVE StoreInv'
  <2>1. /\ Apply(i, v) /\ MayOrder /\ lpc' = lpc /\ lop' = lop /\ spc' = spc
        /\ sitem' = sitem /\ read' = read /\ mbox' = mbox /\ stored' = stored
        /\ dropped' = dropped
    BY <1>1 DEF CanBlock, logic, console, flash
  <2>2. crossed' = IF spc # "idle" /\ sitem = i THEN crossed \cup {i}
                   ELSE IF v # cur[i] THEN crossed \ {i} ELSE crossed
    BY <1>1 DEF CanBlock
  <2>3. v # cur[i] => W(i) \in flags'
    BY <2>1 DEF Apply, Store
  <2>4. "par" \in crossed => "par" \in crossed' \/ W("par") \in flags'
    BY <2>2, <2>3
  <2>5. i = "par" => spc = "idle" \/ sitem # "par" \/ "par" \in crossed'
    BY <2>2
  <2> QED
    BY <2>1, <2>4, <2>5, ApplyStores
<1>2. ASSUME NEW i \in Items, CanPacket(i) PROVE StoreInv'
  <2>1. /\ Apply(i, wr[i]) /\ MayOrder /\ lpc' = lpc /\ lop' = lop /\ spc' = spc
        /\ sitem' = sitem /\ read' = read /\ mbox' = mbox /\ stored' = stored
        /\ dropped' = dropped /\ crossed' = crossed
    BY <1>2 DEF CanPacket, logic, console, flash
  <2>2. i = "par" => wr[i] = wr["par"]
    OBVIOUS
  <2> QED
    BY <2>1, <2>2, ApplyStores
<1>3. CASE Serial
  <2>0. /\ lpc' = lpc /\ lop' = lop /\ read' = read /\ mbox' = mbox /\ stored' = stored
        /\ dropped' = dropped /\ crossed' = crossed
    BY <1>3 DEF Serial, SerialOrder, SerialCompare, SerialLoad, SerialStore, logic, flash
  <2>1. ASSUME NEW i \in Items, NEW v \in Orders, SerialOrder(i, v) PROVE StoreInv'
    <3>1. /\ cur' = cur /\ flags' = flags /\ clobbered' = clobbered /\ spc = "idle"
      BY <2>1 DEF SerialOrder
    <3>2. Kept => Kept'
      BY <3>1, <2>0, KeptAsIs
    <3>3. Pending => Pending'
      BY <3>1, <2>0 DEF Pending
    <3>4. Excused("par") => Excused("par")'
      BY <3>1, <2>0 DEF Excused
    <3> QED
      BY <3>2, <3>3, <3>4, <2>0, <1>0, Carried
  <2>2. CASE SerialCompare
    <3>1. /\ flags' = flags /\ clobbered' = clobbered /\ spc = "compare" /\ wr' = wr
      BY <2>2 DEF SerialCompare
    <3>2. Excused("par") => Excused("par")'
      BY <3>1, <2>0 DEF Excused
    <3>3. CASE wr[sitem] # cur[sitem] /\ sitem = "par"
      BY <2>2, <3>3 DEF SerialCompare, Pending, StoreInv
    <3>4. CASE wr[sitem] = cur[sitem] \/ sitem # "par"
      <4>1. cur'["par"] = cur["par"]
        BY <2>2, <3>4, <1>0 DEF SerialCompare, ParaTypeOK
      <4>2. Kept => Kept'
        BY <4>1, <2>0, KeptAsIs
      <4>3. Pending => Pending'
        BY <3>1, <3>4, <2>0 DEF Pending
      <4> QED
        BY <4>2, <4>3, <3>2, <2>0, <1>0, Carried
    <3> QED
      BY <3>3, <3>4
  <2>3. CASE SerialLoad
    <3>1. /\ cur' = cur /\ wr' = wr /\ flags' = flags /\ clobbered' = clobbered
          /\ spc = "load" /\ spc' = "store" /\ sitem' = sitem
      BY <2>3 DEF SerialLoad, ram
    <3>2. Kept => Kept'
      BY <3>1, <2>0, KeptAsIs
    <3>3. Pending => Pending'
      BY <3>1, <2>0 DEF Pending
    <3>4. Excused("par") => Excused("par")'
      BY <3>1, <2>0 DEF Excused
    <3> QED
      BY <3>2, <3>3, <3>4, <2>0, <1>0, Carried
  <2>4. CASE SerialStore
    <3>1. /\ cur' = cur /\ wr' = wr /\ spc = "store"
          /\ Store(sword \cup {W(sitem)}, sword)
      BY <2>4 DEF SerialStore, ram
    <3>2. /\ flags' = sword \cup {W(sitem)}
          /\ W("par") \in flags => W("par") \in flags' \/ W("par") \in clobbered'
          /\ W("par") \in clobbered => W("par") \in flags' \/ W("par") \in clobbered'
      BY <3>1, StoreKeeps
    <3>3. Kept => Kept'
      BY <3>1, <2>0, KeptAsIs
    <3>4. Pending => Pending' \/ Excused("par")'
      BY <3>1, <3>2, <2>0 DEF Pending, Excused
    <3>5. Excused("par") => Excused("par")' \/ Pending'
      BY <3>2, <2>0 DEF Excused, Pending
    <3> QED
      BY <3>3, <3>4, <3>5, <2>0, <1>0, Carried
  <2> QED
    BY <1>3, <2>1, <2>2, <2>3, <2>4 DEF Serial
<1>4. CASE Logic
  <2>1. CASE BootStore \/ DoReadPar
    <3>1. lpc \in {"set", "do"} /\ read' = read
      BY <2>1 DEF BootStore, DoReadPar
    <3>2. DoReadPar => lop = R("par")
      BY DEF DoReadPar
    <3>3. BootStore => lpc = "set"
      BY DEF BootStore
    <3>4. R("par") \notin Writes /\ R("par") # R("adj")
      BY RequestsDiffer, ItemsAre DEF Writes
    <3>5. read = {}
      BY <2>1, <3>1, <3>2, <3>3, <3>4, <1>0 DEF PhaseInv, Serving, Starting
    <3> QED
      BY <3>1, <3>5 DEF StoreInv
  <2>2. CASE BootLoad \/ Fetch
    <3>1. /\ cur' = cur /\ wr' = wr /\ flags' = flags /\ clobbered' = clobbered
          /\ spc' = spc /\ sitem' = sitem /\ lpc \notin {"clear", "do"} /\ read' = read
          /\ mbox' = mbox /\ stored' = stored /\ dropped' = dropped /\ crossed' = crossed
      BY <2>2 DEF BootLoad, Fetch, ram, console, flash
    <3>2. Kept => Kept'
      BY <3>1, KeptAsIs
    <3>3. Pending => Pending'
      BY <3>1 DEF Pending
    <3>4. Excused("par") => Excused("par")'
      BY <3>1 DEF Excused
    <3> QED
      BY <3>1, <3>2, <3>3, <3>4, <1>0, Carried
  <2>3. CASE Clear
    <3>1. /\ cur' = cur /\ wr' = wr /\ Store(lword \ {lop}, lword) /\ lpc = "clear"
          /\ lpc' = "do" /\ lop' = lop /\ spc' = spc /\ sitem' = sitem /\ read' = read
          /\ mbox' = mbox /\ stored' = stored /\ dropped' = dropped /\ crossed' = crossed
      BY <2>3 DEF Clear, ram, console, flash
    <3>2. /\ flags' = lword \ {lop}
          /\ W("par") \in flags => W("par") \in lword \/ W("par") \in clobbered'
          /\ W("par") \in clobbered => W("par") \in flags' \/ W("par") \in clobbered'
      <4> DEFINE word == lword \ {lop}
                 w == W("par")
      <4>1. Store(word, lword)
        BY <3>1
      <4>2. word \subseteq lword
        OBVIOUS
      <4> HIDE DEF word, w
      <4>3. /\ flags' = word
            /\ w \in flags => w \in word \/ w \in lword \/ w \in clobbered'
            /\ w \in clobbered => w \in word \/ w \in clobbered'
        BY <4>1, StoreKeeps
      <4>4. /\ flags' = word
            /\ w \in flags => w \in lword \/ w \in clobbered'
            /\ w \in clobbered => w \in flags' \/ w \in clobbered'
        BY <4>2, <4>3
      <4> QED
        BY <4>4 DEF word, w
    <3>3. Kept => Kept'
      BY <3>1, KeptAsIs
    <3>4. Pending => Pending' \/ Excused("par")'
      BY <3>1, <3>2 DEF Pending, Excused
    <3>5. Excused("par") => Excused("par")' \/ Pending'
      BY <3>1, <3>2 DEF Excused, Pending
    <3> QED
      BY <3>1, <3>3, <3>4, <3>5, <1>0, Carried
  <2>4. CASE DoWrite
    <3>1. Booted /\ lop \in Writes
      BY <2>4, ServedRequest DEF DoWrite
    <3>2. PICK i \in Items : lop = W(i)
      BY <3>1, ItemsAre DEF Writes
    <3>3. lop[2] = i
      BY <3>2, RequestParts
    <3>4. /\ cur' = cur /\ wr' = wr /\ flags' = flags /\ clobbered' = clobbered
          /\ lpc' = "delay" /\ spc' = spc /\ sitem' = sitem /\ read' = read
          /\ stored' = stored /\ crossed' = crossed
      BY <2>4 DEF DoWrite, ram, console
    <3>5. \/ mbox' = Append(mbox, <<i, wr[i]>>) /\ dropped' = dropped \ {i}
          \/ mbox' = mbox /\ dropped' = dropped \cup {i}
      BY <2>4, <3>3, Zenon DEF DoWrite
    <3>6. mbox \in Seq(Mail) /\ wr[i] \in Values
      BY <1>0 DEF ParaTypeOK, Mail
    <3>7. CASE i = "par"
      <4>1. CASE dropped' = dropped \cup {i}
        BY <4>1, <3>7 DEF StoreInv, Excused
      <4>2. CASE mbox' = Append(mbox, <<i, wr[i]>>) /\ wr["par"] = cur["par"]
        <5>1. Kept'
          BY <4>2, <3>4, <3>6, <3>7, KeptAppended
        <5> QED
          BY <5>1 DEF StoreInv
      <4>3. CASE wr["par"] # cur["par"]
        <5>1. spc = "compare" /\ sitem = "par"
          BY <4>3, <3>1, <1>0 DEF CopyInv, Booted
        <5> QED
          BY <5>1, <4>3, <3>4 DEF StoreInv, Pending
      <4> QED
        BY <4>1, <4>2, <4>3, <3>5
    <3>8. CASE i = "adj"
      <4>1. lop # W("par")
        BY <3>2, <3>8, <1>0
      <4>2. "par" \in dropped => "par" \in dropped'
        BY <3>5, <3>8
      <4>3. Kept => Kept'
        <5>1. CASE mbox' = Append(mbox, <<i, wr[i]>>)
          BY <5>1, <3>4, <3>6, <3>8, KeptAppended
        <5>2. CASE mbox' = mbox
          BY <5>2, <3>4, KeptAsIs
        <5> QED
          BY <5>1, <5>2, <3>5
      <4>4. Pending => Pending'
        BY <4>1, <3>4 DEF Pending
      <4>5. Excused("par") => Excused("par")'
        BY <4>2, <3>4 DEF Excused
      <4> QED
        BY <4>3, <4>4, <4>5, <3>4, <1>0, Carried
    <3> QED
      BY <3>7, <3>8, ItemsAre
  <2>5. CASE HalfReadPar
    <3>1. /\ lop = R("par") /\ lop[2] = "par" /\ lpc = "half" /\ R("par") # R("adj")
          /\ mbox' = mbox /\ stored' = stored
      BY <2>5, RequestParts, RequestsDiffer, ItemsAre DEF HalfReadPar, flash
    <3>2. mbox = <<>>
      BY <3>1, <1>0 DEF PhaseInv, Serving
    <3>3. Recalled'
      <4>1. CASE Readable
        <5>1. stored["par"] # None /\ cur' = cur
          BY <4>1, <2>5, <3>1 DEF HalfReadPar, Readable
        <5>2. cur["par"] = stored["par"]
          BY <5>1, <3>1, <1>0 DEF CopyInv
        <5> QED
          BY <5>1, <5>2, <3>1 DEF Recalled
      <4>2. CASE ~Readable
        <5>1. stored["par"] = None /\ cur'["par"] = Default
          BY <4>2, <2>5, <3>1, <1>0 DEF HalfReadPar, Readable, ParaTypeOK
        <5> QED
          BY <5>1, <3>1 DEF Recalled
      <4> QED
        BY <4>1, <4>2
    <3>4. \A k \in 1 .. Len(mbox') : FALSE
      BY <3>1, <3>2
    <3>5. Kept'
      BY <3>3, <3>4 DEF Kept
    <3> QED
      BY <3>5 DEF StoreInv
  <2>6. CASE DoReadAdj \/ HalfReadAdj
    <3>1. /\ lop = R("adj") /\ flags' = flags /\ clobbered' = clobbered /\ lop # W("par")
          /\ lpc \in {"do", "half"}
          /\ mbox' = mbox /\ stored' = stored /\ dropped' = dropped /\ crossed' = crossed
      BY <2>6, RequestsDiffer, ItemsAre DEF DoReadAdj, HalfReadAdj, flash
    <3>2. cur'["par"] = cur["par"] /\ ("par" \in read' => "par" \in read)
      BY <2>6, <1>0, ItemsAre DEF DoReadAdj, HalfReadAdj, ParaTypeOK
    <3>3. spc = "idle"
      <4>1. lop \notin Writes
        BY <3>1, RequestsDiffer, ItemsAre DEF Writes
      <4> QED
        BY <4>1, <3>1, <1>0 DEF PhaseInv, Serving
    <3>4. Kept => Kept'
      BY <3>1, <3>2, KeptAsIs
    <3>5. Pending => Pending'
      BY <3>1, <3>3 DEF Pending
    <3>6. Excused("par") => Excused("par")'
      BY <3>1 DEF Excused
    <3> QED
      BY <3>2, <3>4, <3>5, <3>6, <1>0, Carried
  <2> QED
    BY <1>4, <2>1, <2>2, <2>3, <2>4, <2>5, <2>6 DEF Logic
<1>5. CASE FlashWrite
  <2>1. /\ cur' = cur /\ wr' = wr /\ flags' = flags /\ clobbered' = clobbered
        /\ spc' = spc /\ sitem' = sitem /\ lpc' = lpc /\ lop' = lop /\ read' = read
        /\ dropped' = dropped /\ crossed' = crossed
    BY <1>5 DEF FlashWrite, ram, logic, console
  <2>2. Kept => Kept'
    BY <1>5, <1>0, KeptWritten
  <2>3. Pending => Pending'
    BY <2>1 DEF Pending
  <2>4. Excused("par") => Excused("par")'
    BY <2>1 DEF Excused
  <2> QED
    BY <2>1, <2>2, <2>3, <2>4, <1>0, Carried
<1>6. CASE Reset
  BY <1>6 DEF Reset, StoreInv
<1>7. CASE UNCHANGED vars
  <2>1. /\ cur' = cur /\ wr' = wr /\ flags' = flags /\ clobbered' = clobbered
        /\ spc' = spc /\ sitem' = sitem /\ lpc' = lpc /\ lop' = lop /\ read' = read
        /\ mbox' = mbox /\ stored' = stored /\ dropped' = dropped /\ crossed' = crossed
    BY <1>7 DEF vars, ram, logic, console, flash
  <2>2. Kept => Kept'
    BY <2>1, KeptAsIs
  <2>3. Pending => Pending'
    BY <2>1 DEF Pending
  <2>4. Excused("par") => Excused("par")'
    BY <2>1 DEF Excused
  <2> QED
    BY <2>1, <2>2, <2>3, <2>4, <1>0, Carried
<1> QED
  BY <1>1, <1>2, <1>3, <1>4, <1>5, <1>6, <1>7 DEF Next

(***************************************************************************)
(* The theorems                                                            *)
(***************************************************************************)
LEMMA ParaInvariant ==
  ASSUME EarlyOrders = FALSE
  PROVE  Spec => []ParaInv
<1>1. ParaInv /\ [Next]_vars => ParaInv'
  <2> SUFFICES ASSUME ParaInv, [Next]_vars PROVE ParaInv'
    OBVIOUS
  <2> QED
    BY ParaTypeStep, PhaseStep, CopyStep, StoreStep DEF ParaInv
<1> QED
  BY ParaInitially, <1>1, PTL DEF Spec

(* When nothing is under way any more, the parameters in use are the ones a *)
(* reset brings back, however the two lines, UserRecord and the flash       *)
(* thread interleave, unless the request to write them met one of the three *)
(* losses that the history notes.                                           *)
THEOREM ParametersPersist ==
  ASSUME EarlyOrders = FALSE
  PROVE  Spec => []ParaPersisted
<1>1. ParaInv => ParaPersisted
  <2> SUFFICES ASSUME ParaInv, Quiet, ~Excused("par")
               PROVE  stored["par"] = cur["par"] \/ (stored["par"] = None /\ cur["par"] = Default)
    BY DEF ParaPersisted
  <2>1. "par" \in read /\ flags = {} /\ lpc = "delay" /\ spc = "idle" /\ mbox = <<>>
    BY ItemsAre DEF Quiet, Booted
  <2>2. Kept
    BY <2>1 DEF ParaInv, StoreInv, Pending
  <2>3. \A k \in 1 .. Len(mbox) : FALSE
    BY <2>1
  <2> QED
    BY <2>2, <2>3 DEF Kept, Recalled
<1> QED
  BY <1>1, ParaInvariant, PTL

(* Parameters that nobody ordered are neither written nor, once the stored  *)
(* ones were read, in use.                                                  *)
THEOREM ParametersWereOrdered ==
  ASSUME EarlyOrders = FALSE
  PROVE  Spec => []ParaWasOrdered
<1>1. ParaInv => ParaWasOrdered
  BY ItemsAre DEF ParaInv, CopyInv, Ordered, ParaWasOrdered, Booted
<1> QED
  BY <1>1, ParaInvariant, PTL

(* Between two orders the block ordered last is the block in use.           *)
THEOREM BothCopiesAgree ==
  ASSUME EarlyOrders = FALSE
  PROVE  Spec => []CopiesAgree
<1>1. ParaInv => CopiesAgree
  <2> SUFFICES ASSUME ParaInv, Booted, spc = "idle" PROVE wr = cur
    BY DEF CopiesAgree
  <2>1. \A i \in Items : wr[i] = cur[i]
    BY DEF ParaInv, CopyInv, Booted
  <2> QED
    BY <2>1 DEF ParaInv, ParaTypeOK
<1> QED
  BY <1>1, ParaInvariant, PTL
=============================================================================
