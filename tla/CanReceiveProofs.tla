--------------------------- MODULE CanReceiveProofs ---------------------------
(***************************************************************************)
(* First the assembly of blocks: that counting bytes is enough to tell a   *)
(* block apart from a mixture of two, for blocks of any number of packets  *)
(* and any number of blocks. Then reception as a whole, for a ring of any  *)
(* size: messages are handled in the order they came, and what is          *)
(* overwritten in the ring mixes no blocks.                                *)
(***************************************************************************)
EXTENDS CanReceive, Integers, SequenceTheorems, TLAPS

(***************************************************************************)
(* The inductive invariant                                                 *)
(***************************************************************************)
\* With nothing lost, the packets before the next one are of this block and the
\* others of the block before, repetitions or not.
InOrder ==
    ~lost => buf = [p \in PartNumbers |-> IF p < part THEN block ELSE block - 1]

\* As long as none of its packets is lost, the current block fills the buffer,
\* unless a packet came out of order (which is booked as lost and twice).
Filled ==
    (part > 0 /\ missed.now = 0 /\ ~(lost /\ twice)) =>
        \A p \in 0 .. part - 1 : buf[p] = block

\* With nothing repeated, what is counted was received since packet 0 of this
\* block, or else all that was received of this block and the one before counts.
Counted ==
    ~twice =>
        IF part = 0 THEN len = 0 \/ len >= Parts - missed.now
        ELSE \/ len = part - missed.now
             \/ missed.now > 0 /\ len >= part - missed.now + Parts - missed.before

\* The packets missing, and the missing ones that are not too many.
FewMissed ==
    /\ missed.now <= (IF part = 0 THEN Parts ELSE part)
    /\ ~chasm => missed.before + missed.now < Parts

\* While each packet of the block has come once, each is counted and in its place.
CleanSoFar ==
    part > 0 =>
        /\ clean <= part
        /\ clean = part => len = part /\ \A p \in 0 .. part - 1 : buf[p] = block

NothingMissed == ~lost => missed = [before |-> 0, now |-> 0]

AllSent == block > MaxBlocks => part = 0

Inv ==
    /\ TypeOK /\ AllSent
    /\ InOrder /\ Filled /\ Counted /\ FewMissed /\ CleanSoFar /\ NothingMissed
    /\ NoMixture /\ CompleteBlockTaken

USE AssemblyAssumption DEF AssemblyAssumption, None, PartNumbers

LEMMA WholeType ==
    ASSUME NEW b \in None .. MaxBlocks
    PROVE  Whole(b) \in Contents
BY DEF Whole, Contents

LEMMA InitInv == Init => Inv
<1> SUFFICES ASSUME Init PROVE Inv
    OBVIOUS
<1>1. TypeOK /\ AllSent
  <2>1. Whole(None) \in Contents
      BY WholeType
  <2>2. missed \in [before : 0 .. Parts, now : 0 .. Parts]
      BY DEF Init
  <2>3. {again, chasm, lost, twice} \subseteq BOOLEAN
      BY DEF Init
  <2>4. block \in 1 .. MaxBlocks + 1 /\ part \in PartNumbers /\ len \in Nat /\ clean \in 0 .. Parts
      BY DEF Init
  <2>5. AllSent
      BY DEF Init, AllSent
  <2>6. buf \in Contents /\ app \in Contents
      BY <2>1 DEF Init
  <2> QED
      BY <2>2, <2>3, <2>4, <2>5, <2>6 DEF TypeOK
<1>2. InOrder
    BY DEF Init, InOrder, Whole
<1>3. Filled /\ Counted /\ FewMissed /\ CleanSoFar /\ NothingMissed
    BY DEF Init, Filled, Counted, FewMissed, CleanSoFar, NothingMissed
<1>4. NoMixture /\ CompleteBlockTaken
    BY DEF Init, NoMixture, CompleteBlockTaken
<1> QED
    BY <1>1, <1>2, <1>3, <1>4 DEF Inv

\* A packet that is lost changes nothing but the counts.
LEMMA LoseInv == Inv /\ Lose => Inv'
<1> SUFFICES ASSUME Inv, Lose PROVE Inv'
    OBVIOUS
<1> USE DEF Inv
<1>1. /\ block \in 1 .. MaxBlocks /\ part \in 0 .. Parts - 1
      /\ \/ part = Parts - 1 /\ part' = 0 /\ block' = block + 1
         \/ part < Parts - 1 /\ part' = part + 1 /\ block' = block
      /\ buf' = buf /\ len' = len /\ app' = app /\ twice' = twice
      /\ lost' = TRUE /\ again' = FALSE
    BY DEF Lose, Send, TypeOK
<1>2. /\ missed' = [before |-> missed'.before, now |-> missed'.now]
      /\ \/ part = 0 /\ missed'.before = missed.now /\ missed'.now = 1
         \/ part > 0 /\ missed'.before = missed.before /\ missed'.now = missed.now + 1
      /\ missed.now \in 0 .. Parts /\ missed.before \in 0 .. Parts
    BY <1>1 DEF Lose, Missed, TypeOK
<1>3. /\ chasm' \in BOOLEAN
      /\ ~chasm' => ~chasm /\ ~(missed'.before + missed'.now >= Parts)
    BY DEF Lose
<1>4. clean' = (IF part = 0 THEN 0 ELSE clean) /\ clean \in 0 .. Parts /\ len \in Nat
    BY DEF Lose, TypeOK
<1>5. FewMissed'
  <2>1. missed.now <= (IF part = 0 THEN Parts ELSE part)
      BY DEF FewMissed
  <2>2. missed'.now <= (IF part' = 0 THEN Parts ELSE part')
      BY <1>1, <1>2, <2>1
  <2>3. ~chasm' => missed'.before + missed'.now < Parts
      BY <1>2, <1>3
  <2> QED
      BY <2>2, <2>3 DEF FewMissed
<1>6. TypeOK' /\ AllSent'
  <2>1. missed' \in [before : 0 .. Parts, now : 0 .. Parts]
    <3>1. missed'.before \in 0 .. Parts /\ missed'.now \in 0 .. Parts
        BY <1>1, <1>2, <1>5 DEF FewMissed
    <3> QED
        BY <1>2, <3>1
  <2>2. block' \in 1 .. MaxBlocks + 1 /\ part' \in 0 .. Parts - 1
      BY <1>1
  <2>3. {again', chasm', lost', twice'} \subseteq BOOLEAN
      BY <1>1, <1>3 DEF TypeOK
  <2>4. part' \in PartNumbers /\ len' \in Nat /\ clean' \in 0 .. Parts
      BY <1>1, <1>4, <2>2
  <2>5. buf' \in Contents /\ app' \in Contents
      BY <1>1 DEF TypeOK
  <2>6. AllSent'
      BY <1>1 DEF AllSent
  <2> QED
      BY <2>1, <2>2, <2>3, <2>4, <2>5, <2>6 DEF TypeOK
<1>7. InOrder' /\ NothingMissed' /\ Filled'
    BY <1>1, <1>2 DEF InOrder, NothingMissed, Filled
<1>8. Counted'
    BY <1>1, <1>2, <1>4 DEF Counted
<1>9. CleanSoFar' /\ CompleteBlockTaken'
    BY <1>1, <1>4 DEF CleanSoFar, CompleteBlockTaken
<1>10. NoMixture'
    BY <1>1, <1>3 DEF NoMixture, NothingMissed, TypeOK
<1> QED
    BY <1>5, <1>6, <1>7, <1>8, <1>9, <1>10

LEMMA ReceiveInv == Inv /\ Receive => Inv'
<1> SUFFICES ASSUME Inv, Receive PROVE Inv'
    OBVIOUS
<1> USE DEF Inv
<1>1. /\ block \in 1 .. MaxBlocks /\ part \in 0 .. Parts - 1 /\ len \in Nat
      /\ \/ part = Parts - 1 /\ part' = 0 /\ block' = block + 1
         \/ part < Parts - 1 /\ part' = part + 1 /\ block' = block
      /\ twice' = twice /\ lost' = lost /\ chasm' = chasm /\ again' = TRUE
    BY DEF Receive, Send, TypeOK
<1>2. /\ missed' = [before |-> missed'.before, now |-> missed'.now]
      /\ \/ part = 0 /\ missed'.before = missed.now /\ missed'.now = 0
         \/ part > 0 /\ missed'.before = missed.before /\ missed'.now = missed.now
      /\ missed.now \in 0 .. Parts /\ missed.before \in 0 .. Parts
    BY <1>1 DEF Receive, Missed, TypeOK
<1>3. clean' = (IF part = 0 THEN 1 ELSE clean + 1) /\ clean \in 0 .. Parts
    BY DEF Receive, TypeOK
<1>4. buf' = [buf EXCEPT ![part] = block] /\ buf \in Contents /\ Deal(block, part)
    BY DEF Receive, Deal, TypeOK
<1>5. \A p \in PartNumbers : buf'[p] = IF p = part THEN block ELSE buf[p]
    BY <1>1, <1>4 DEF Contents
<1>6. \/ part < Parts - 1 /\ app' = app /\ len' = (IF part = 0 THEN 1 ELSE len + 1)
      \/ part = Parts - 1 /\ len' = 0 /\ app' = IF len + 1 = Parts THEN buf' ELSE app
    BY <1>1, <1>4 DEF Deal, LenAfter
<1>7. FewMissed' /\ NothingMissed'
  <2>1. missed'.now <= (IF part' = 0 THEN Parts ELSE part')
      BY <1>1, <1>2 DEF FewMissed
  <2>2. ~chasm' => missed'.before + missed'.now < Parts
      BY <1>1, <1>2 DEF FewMissed
  <2> QED
      BY <1>1, <1>2, <2>1, <2>2 DEF FewMissed, NothingMissed
<1>8. TypeOK' /\ AllSent'
  <2>1. missed' \in [before : 0 .. Parts, now : 0 .. Parts]
      BY <1>2
  <2>2. block' \in 1 .. MaxBlocks + 1 /\ part' \in PartNumbers
      BY <1>1
  <2>3. {again', chasm', lost', twice'} \subseteq BOOLEAN
      BY <1>1 DEF TypeOK
  <2>4. clean' \in 0 .. Parts
      BY <1>1, <1>3 DEF CleanSoFar
  <2>5. buf' \in Contents
      BY <1>1, <1>4 DEF Contents
  <2>6. app' \in Contents /\ len' \in Nat
      BY <1>1, <1>6, <2>5 DEF TypeOK
  <2>7. AllSent'
      BY <1>1 DEF AllSent
  <2> QED
      BY <2>1, <2>2, <2>3, <2>4, <2>5, <2>6, <2>7 DEF TypeOK
<1>9. InOrder'
  <2> SUFFICES ASSUME ~lost
               PROVE  buf' = [p \in PartNumbers |-> IF p < part' THEN block' ELSE block' - 1]
      BY <1>1 DEF InOrder
  <2>1. \A p \in PartNumbers : buf[p] = IF p < part THEN block ELSE block - 1
      BY DEF InOrder
  <2>2. \A p \in PartNumbers : buf'[p] = IF p < part' THEN block' ELSE block' - 1
      BY <1>1, <1>5, <2>1
  <2>3. buf' = [p \in PartNumbers |-> buf'[p]]
      BY <1>8 DEF TypeOK, Contents
  <2> QED
      BY <2>2, <2>3
<1>10. Filled'
    BY <1>1, <1>2, <1>5 DEF Filled
<1>11. Counted'
    BY <1>1, <1>2, <1>6 DEF Counted
<1>12. CleanSoFar'
  <2> SUFFICES ASSUME part' > 0
               PROVE  /\ clean' <= part'
                      /\ clean' = part' => len' = part' /\ \A p \in 0 .. part' - 1 : buf'[p] = block'
      BY DEF CleanSoFar
  <2>1. part < Parts - 1 /\ part' = part + 1 /\ block' = block
      BY <1>1
  <2>2. part > 0 => clean <= part /\ (clean = part => len = part /\ \A p \in 0 .. part - 1 : buf[p] = block)
      BY DEF CleanSoFar
  <2> QED
      BY <1>1, <1>3, <1>5, <1>6, <2>1, <2>2
\* A block fills the buffer if it is taken over.
<1>13. CASE part = Parts - 1
  <2>1. block' = block + 1 /\ part' = 0 /\ len' = 0 /\ app' = (IF len + 1 = Parts THEN buf' ELSE app)
      BY <1>1, <1>6, <1>13
  <2>2. (\A p \in 0 .. part - 1 : buf[p] = block) => buf' = Whole(block)
    <3>1. buf' = [p \in PartNumbers |-> buf'[p]]
        BY <1>8 DEF TypeOK, Contents
    <3> QED
        BY <1>5, <1>13, <3>1 DEF Whole
  <2>3. CompleteBlockTaken'
    <3> SUFFICES ASSUME clean' = Parts
                 PROVE  app' = Whole(block)
        BY <1>1, <2>1 DEF CompleteBlockTaken
    <3>1. part > 0 /\ clean = part
        BY <1>1, <1>3, <1>13
    <3> QED
        BY <1>1, <1>13, <2>1, <2>2, <3>1 DEF CleanSoFar
  <2>4. NoMixture'
    <3> SUFFICES ASSUME ~chasm, ~(lost /\ twice)
                 PROVE  \E b \in None .. MaxBlocks : app' = Whole(b)
        BY <1>1 DEF NoMixture
    <3>1. CASE len + 1 # Parts
        BY <2>1, <3>1 DEF NoMixture
    <3>2. CASE len + 1 = Parts
      <4>1. part > 0 /\ missed.now \in Nat
          BY <1>2, <1>13
      <4>2. CASE missed.now = 0
          BY <1>1, <2>1, <2>2, <3>2, <4>1, <4>2 DEF Filled
      <4>3. CASE missed.now # 0
        <5>1. ~twice
            BY <4>3 DEF NothingMissed
        <5>2. missed.before + missed.now < Parts
            BY DEF FewMissed
        <5> QED
            BY <1>1, <1>2, <1>13, <3>2, <4>1, <4>3, <5>1, <5>2 DEF Counted
      <4> QED
          BY <4>2, <4>3
    <3> QED
        BY <3>1, <3>2
  <2> QED
      BY <1>7, <1>8, <1>9, <1>10, <1>11, <1>12, <2>3, <2>4
<1>14. CASE part # Parts - 1
  <2>1. part' # 0 /\ app' = app
      BY <1>1, <1>6, <1>14
  <2>2. CompleteBlockTaken' /\ NoMixture'
      BY <1>1, <2>1 DEF CompleteBlockTaken, NoMixture
  <2> QED
      BY <1>7, <1>8, <1>9, <1>10, <1>11, <1>12, <2>2
<1> QED
    BY <1>13, <1>14

LEMMA RepeatInv == Inv /\ Repeat => Inv'
<1> SUFFICES ASSUME Inv, Repeat PROVE Inv'
    OBVIOUS
<1> USE DEF Inv
<1>1. /\ block \in 1 .. MaxBlocks + 1 /\ part \in 0 .. Parts - 1 /\ len \in Nat
      /\ block' = block /\ part' = part /\ missed' = missed /\ chasm' = chasm /\ lost' = lost
      /\ twice' = TRUE /\ again' = FALSE /\ clean' = 0
    BY DEF Repeat, TypeOK
<1> DEFINE b == IF part = 0 THEN block - 1 ELSE block
           q == IF part = 0 THEN Parts - 1 ELSE part - 1
<1>2. b \in None .. MaxBlocks /\ q \in PartNumbers
    BY <1>1 DEF AllSent
<1>3. Deal(b, q)
    BY DEF Repeat
<1>4. buf' = [buf EXCEPT ![q] = b] /\ buf \in Contents
    BY <1>3 DEF Deal, TypeOK
<1>5. buf' \in Contents /\ \A p \in PartNumbers : buf'[p] = IF p = q THEN b ELSE buf[p]
    BY <1>2, <1>4 DEF Contents
<1>6. /\ len' \in Nat
      /\ app' = app \/ (q = Parts - 1 /\ app' = buf')
    BY <1>1, <1>2, <1>3 DEF Deal, LenAfter
<1>7. TypeOK' /\ AllSent'
  <2>1. {again', chasm', lost', twice'} \subseteq BOOLEAN
      BY <1>1 DEF TypeOK
  <2>2. app' \in Contents /\ missed' \in [before : 0 .. Parts, now : 0 .. Parts]
      BY <1>1, <1>5, <1>6 DEF TypeOK
  <2>3. clean' \in 0 .. Parts
      BY <1>1
  <2>4. AllSent'
      BY <1>1 DEF AllSent
  <2> QED
      BY <1>1, <1>5, <1>6, <2>1, <2>2, <2>3, <2>4 DEF TypeOK
<1>8. InOrder'
  <2> SUFFICES ASSUME ~lost
               PROVE  buf' = [p \in PartNumbers |-> IF p < part THEN block ELSE block - 1]
      BY <1>1 DEF InOrder
  <2>1. \A p \in PartNumbers : buf[p] = IF p < part THEN block ELSE block - 1
      BY DEF InOrder
  <2>2. \A p \in PartNumbers : buf'[p] = IF p < part THEN block ELSE block - 1
      BY <1>1, <1>5, <2>1
  <2>3. buf' = [p \in PartNumbers |-> buf'[p]]
      BY <1>5 DEF Contents
  <2> QED
      BY <2>2, <2>3
<1>9. Filled' /\ Counted' /\ CleanSoFar' /\ CompleteBlockTaken'
  <2>1. Filled'
      BY <1>1, <1>5 DEF Filled
  <2>2. Counted' /\ CleanSoFar' /\ CompleteBlockTaken'
      BY <1>1 DEF Counted, CleanSoFar, CompleteBlockTaken
  <2> QED
      BY <2>1, <2>2
<1>10. FewMissed' /\ NothingMissed'
    BY <1>1 DEF FewMissed, NothingMissed
<1>11. NoMixture'
  <2> SUFFICES ASSUME ~chasm, ~lost
               PROVE  \E c \in None .. MaxBlocks : app' = Whole(c)
      BY <1>1 DEF NoMixture
  <2>1. CASE app' = app
      BY <2>1 DEF NoMixture
  <2>2. CASE q = Parts - 1 /\ app' = buf'
    <3>1. part = 0
        BY <1>1, <2>2
    <3>2. buf' = [p \in PartNumbers |-> block - 1]
        BY <1>1, <1>8, <3>1 DEF InOrder
    <3> QED
        BY <1>2, <2>2, <3>1, <3>2 DEF Whole
  <2> QED
      BY <1>6, <2>1, <2>2
<1> QED
    BY <1>7, <1>8, <1>9, <1>10, <1>11

(***************************************************************************)
(* The results                                                             *)
(***************************************************************************)
LEMMA StepInv == Inv /\ [Next]_vars => Inv'
<1> SUFFICES ASSUME Inv, [Next]_vars PROVE Inv'
    OBVIOUS
<1>1. CASE UNCHANGED vars
    BY <1>1 DEF vars, Inv, TypeOK, AllSent, InOrder, Filled, Counted, FewMissed, CleanSoFar,
                NothingMissed, NoMixture, CompleteBlockTaken
<1> QED
    BY <1>1, ReceiveInv, LoseInv, RepeatInv DEF Next

LEMMA AlwaysInv == Spec => []Inv
    BY InitInv, StepInv, PTL DEF Spec

\* Every variable of MsgRx_Deal keeps its type, for any number of packets.
THEOREM TypeCorrect == Spec => []TypeOK
<1>1. Inv => TypeOK
    BY DEF Inv
<1> QED
    BY <1>1, AlwaysInv, PTL

\* MsgRx_Deal never lets a mixture of two blocks through, for blocks of any
\* length, unless a whole block's worth of packets is lost of two successive
\* ones, or packets are both lost and repeated.
THEOREM NeverMixed == Spec => []NoMixture
<1>1. Inv => NoMixture
    BY DEF Inv
<1> QED
    BY <1>1, AlwaysInv, PTL

\* A block that arrives whole is taken over by MsgRx_Deal, whatever came before.
THEOREM CompleteTaken == Spec => []CompleteBlockTaken
<1>1. Inv => CompleteBlockTaken
    BY DEF Inv
<1> QED
    BY <1>1, AlwaysInv, PTL


(***************************************************************************)
(* Remainders                                                              *)
(***************************************************************************)
LEMMA NoMultiple ==
    ASSUME NEW S \in Nat \ {0}, NEW d \in Int,
           NEW r \in 0 .. S - 1, NEW t \in 0 .. S - 1, S * d = r - t
    PROVE  r = t
<1>1. d >= 1 => S * d >= S
    OBVIOUS
<1>2. d <= -1 => S * d <= -S
    OBVIOUS
<1>3. d = 0 => S * d = 0
    OBVIOUS
<1>4. S * d < S /\ S * d > -S
    OBVIOUS
<1> QED
    BY <1>1, <1>2, <1>3, <1>4

LEMMA Division ==
    ASSUME NEW S \in Nat \ {0}, NEW a \in Nat
    PROVE  a % S \in 0 .. S - 1 /\ a \div S \in Nat /\ a = S * (a \div S) + (a % S)
OBVIOUS

LEMMA RemainderIsUnique ==
    ASSUME NEW S \in Nat \ {0}, NEW a \in Nat, NEW q \in Int, NEW r \in 0 .. S - 1,
           a = S * q + r
    PROVE  a % S = r
<1> DEFINE p == a \div S
<1>1. a % S \in 0 .. S - 1 /\ p \in Nat /\ a = S * p + (a % S)
    BY Division
<1>2. S * (p - q) = S * p - S * q
    BY <1>1
<1>3. S * (p - q) = r - (a % S)
    BY <1>1, <1>2
<1>4. p - q \in Int
    BY <1>1
<1> QED
    BY <1>1, <1>3, <1>4, NoMultiple, Zenon

\* The index advances from slot to slot, and from the last one to the first.
LEMMA RemainderStep ==
    ASSUME NEW S \in Nat \ {0}, NEW a \in Nat
    PROVE  (a + 1) % S = ((a % S) + 1) % S
<1> DEFINE q == a \div S
           r == a % S
<1>1. r \in 0 .. S - 1 /\ q \in Nat /\ a = S * q + r
    BY Division
<1> HIDE DEF q, r
<1>2. CASE r = S - 1
  <2>1. a + 1 = S * (q + 1) + 0 /\ r + 1 = S * 1 + 0
      BY <1>1, <1>2
  <2>2. 0 \in 0 .. S - 1 /\ q + 1 \in Int /\ 1 \in Int /\ a + 1 \in Nat /\ r + 1 \in Nat
      BY <1>1
  <2>3. (a + 1) % S = 0 /\ (r + 1) % S = 0
      BY <2>1, <2>2, RemainderIsUnique, Zenon
  <2> QED
      BY <2>3 DEF r
<1>3. CASE r # S - 1
  <2>1. a + 1 = S * q + (r + 1) /\ r + 1 = S * 0 + (r + 1)
      BY <1>1
  <2>2. r + 1 \in 0 .. S - 1 /\ q \in Int /\ 0 \in Int /\ a + 1 \in Nat /\ r + 1 \in Nat
      BY <1>1, <1>3
  <2>3. (a + 1) % S = r + 1 /\ (r + 1) % S = r + 1
      BY <2>1, <2>2, RemainderIsUnique, Zenon
  <2> QED
      BY <2>3 DEF r
<1> QED
    BY <1>2, <1>3

\* Fewer than S successive messages are in different slots.
LEMMA RemaindersDiffer ==
    ASSUME NEW S \in Nat \ {0}, NEW a \in Nat, NEW b \in Nat, a < b, b < a + S
    PROVE  a % S # b % S
<1> SUFFICES ASSUME a % S = b % S PROVE FALSE
    OBVIOUS
<1> DEFINE q == a \div S
           p == b \div S
           r == a % S
<1>1. q \in Int /\ p \in Int /\ r \in 0 .. S - 1 /\ a = S * q + r /\ b = S * p + r
    BY Division
<1> HIDE DEF q, p, r
<1>2. S * (p - q) = b - a /\ b - a \in 0 .. S - 1 /\ p - q \in Int /\ 0 \in 0 .. S - 1
    BY <1>1
<1>3. S * (p - q) = (b - a) - 0 /\ b - a # 0
    BY <1>2
<1> QED
    BY <1>2, <1>3, NoMultiple, Zenon

(***************************************************************************)
(* The ring                                                                *)
(***************************************************************************)
\* The slot message m is stored in.
Place(m) == (m - 1) % Slots

LEMMA SizesType == Slots \in Nat \ {0} /\ Depth \in Nat /\ Slots <= Depth
BY CanRxAssumption

LEMMA PlaceType == \A m \in Nat \ {0} : Place(m) \in 0 .. Slots - 1
BY SizesType, Division DEF Place

LEMMA PlaceNext == \A m \in Nat \ {0} : (Place(m) + 1) % Slots = Place(m + 1)
<1> SUFFICES ASSUME NEW m \in Nat \ {0}
             PROVE  (((m - 1) % Slots) + 1) % Slots = (m + 1 - 1) % Slots
    BY DEF Place
<1>1. m - 1 \in Nat /\ (m - 1) + 1 = m + 1 - 1
    OBVIOUS
<1> QED
    BY <1>1, SizesType, RemainderStep

LEMMA PlacesDiffer ==
    \A m, n \in Nat \ {0} : m < n /\ n < m + Slots => Place(m) # Place(n)
<1> SUFFICES ASSUME NEW m \in Nat \ {0}, NEW n \in Nat \ {0}, m < n, n < m + Slots
             PROVE  (m - 1) % Slots # (n - 1) % Slots
    BY DEF Place
<1>1. m - 1 \in Nat /\ n - 1 \in Nat /\ m - 1 < n - 1 /\ n - 1 < (m - 1) + Slots
    BY SizesType
<1> QED
    BY <1>1, SizesType, RemaindersDiffer, Zenon

\* Unless the ring has come round to a slot that is awaited, the mailbox and the
\* thread hold the slots of the last messages, the last of which is arrived.
Awaited ==
    /\ Rx!Backlog <= Slots /\ Rx!Backlog <= arrived
    /\ \A k \in 1 .. Len(mbox) : mbox[k] = Place(arrived - Len(mbox) + k)
    /\ Rx!Backlog > 0 => last = arrived - Rx!Backlog
    /\ pc # "wait" => slot = Place(last + 1)
    /\ pc \in {"data", "manage"} => header = last + 1
    /\ pc = "manage" => data = last + 1

RingInv ==
    /\ arrived \in Nat /\ index = Place(arrived + 1)
    /\ ring \in [0 .. Slots - 1 -> Nat] /\ mbox \in Seq(0 .. Slots - 1)
    /\ pc \in {"wait", "header", "data", "manage"} /\ overrun \in BOOLEAN
    /\ pc # "wait" => slot \in 0 .. Slots - 1
    /\ \A m \in 1 .. arrived : arrived < m + Slots => ring[Place(m)] = m
    /\ ~overrun => Awaited

LEMMA RingInit == Rx!Init => RingInv
<1>1. Place(1) = 0
    BY SizesType DEF Place
<1>2. 0 \in 0 .. Slots - 1
    BY SizesType
<1> QED
    BY <1>1, <1>2, SizesType DEF Rx!Init, RingInv, Awaited, Rx!Backlog

LEMMA RingArrive == RingInv /\ Rx!Arrive => RingInv'
<1> SUFFICES ASSUME RingInv, Rx!Arrive PROVE RingInv'
    OBVIOUS
<1> USE SizesType
<1>1. arrived \in Nat /\ arrived' = arrived + 1 /\ UNCHANGED <<pc, slot, header, data>>
    BY DEF Rx!Arrive, RingInv
<1>2. index = Place(arrived + 1) /\ index \in 0 .. Slots - 1
    BY <1>1, PlaceType DEF RingInv
<1>3. index' = Place(arrived' + 1)
  <2>1. index' = (index + 1) % Slots
      BY DEF Rx!Arrive, Rx!NextIndex
  <2> QED
      BY <1>1, <1>2, <2>1, PlaceNext
<1>4. /\ ring' = [ring EXCEPT ![index] = arrived + 1]
      /\ ring \in [0 .. Slots - 1 -> Nat] /\ ring' \in [0 .. Slots - 1 -> Nat]
  <2>1. ring' = [ring EXCEPT ![index] = arrived + 1]
      BY DEF Rx!Arrive
  <2>2. ring \in [0 .. Slots - 1 -> Nat]
      BY DEF RingInv
  <2>3. arrived + 1 \in Nat
      BY <1>1
  <2>4. ring' \in [0 .. Slots - 1 -> Nat]
      BY <2>1, <2>2, <2>3
  <2> QED
      BY <2>1, <2>2, <2>4
<1>len. Len(mbox) \in Nat
    BY DEF RingInv
<1>5. /\ mbox \in Seq(0 .. Slots - 1)
      /\ mbox' = IF Len(mbox) < Depth THEN Append(mbox, index) ELSE mbox
    BY DEF Rx!Arrive, Rx!Pushed, RingInv
<1>6. mbox' \in Seq(0 .. Slots - 1)
    BY <1>2, <1>5, AppendProperties
<1>7. \A m \in 1 .. arrived' : arrived' < m + Slots => ring'[Place(m)] = m
  <2> SUFFICES ASSUME NEW m \in 1 .. arrived', arrived' < m + Slots
               PROVE  ring'[Place(m)] = m
      OBVIOUS
  <2>1. CASE m = arrived + 1
      BY <1>2, <1>4, <2>1
  <2>2. CASE m \in 1 .. arrived
    <3>1. ring[Place(m)] = m
        BY <1>1, <2>2 DEF RingInv
    <3>2. Place(m) # index /\ Place(m) \in 0 .. Slots - 1
        BY <1>1, <1>2, <2>2, PlacesDiffer, PlaceType
    <3> QED
        BY <1>4, <3>1, <3>2
  <2> QED
      BY <1>1, <2>1, <2>2
<1>8. ASSUME ~overrun' PROVE Awaited'
  <2>1. CASE Rx!Idle
    <3>1. pc = "wait" /\ pc' = "wait" /\ Len(mbox) = 0 /\ mbox = <<>> /\ last' = arrived
        BY <1>1, <2>1 DEF Rx!Idle, Rx!Arrive
    <3>2. mbox' = <<index>>
        BY <1>5, <3>1
    <3>3. Rx!Backlog' = 1 /\ Len(mbox') = 1 /\ mbox'[1] = index
        BY <3>1, <3>2 DEF Rx!Backlog
    <3> QED
        BY <1>1, <1>2, <3>1, <3>3 DEF Awaited
  <2>2. CASE ~Rx!Idle
    <3>1. ~overrun /\ ~(Rx!Backlog >= Slots) /\ last' = last
        BY <1>8, <2>2 DEF Rx!Arrive
    <3>2. Awaited
        BY <3>1 DEF RingInv
    <3>3. Rx!Backlog \in Nat \ {0} /\ Len(mbox) <= Rx!Backlog
        BY <1>5, <1>len, <2>2 DEF Rx!Idle, Rx!Backlog
    <3>4. mbox' = Append(mbox, index)
        BY <1>5, <1>len, <3>1, <3>3
    <3>5. /\ Len(mbox') = Len(mbox) + 1 /\ mbox'[Len(mbox) + 1] = index
          /\ \A k \in 1 .. Len(mbox) : mbox'[k] = mbox[k]
        BY <1>2, <1>5, <3>4, AppendProperties
    <3>6. Rx!Backlog' = Rx!Backlog + 1
        BY <1>1, <1>len, <3>5 DEF Rx!Backlog
    <3>7. \A k \in 1 .. Len(mbox') : mbox'[k] = Place(arrived' - Len(mbox') + k)
      <4> SUFFICES ASSUME NEW k \in 1 .. Len(mbox) + 1
                   PROVE  mbox'[k] = Place(arrived' - Len(mbox') + k)
          BY <3>5
      <4>1. Len(mbox) \in Nat /\ arrived' - Len(mbox') + k = arrived - Len(mbox) + k
          BY <1>1, <1>len, <3>5
      <4>2. CASE k = Len(mbox) + 1
        <5>1. arrived - Len(mbox) + k = arrived + 1
            BY <1>1, <4>1, <4>2
        <5> QED
            BY <1>2, <3>5, <4>1, <4>2, <5>1
      <4>3. CASE k \in 1 .. Len(mbox)
          BY <3>2, <3>5, <4>1, <4>3 DEF Awaited
      <4> QED
          BY <4>1, <4>2, <4>3
    <3>8. Rx!Backlog' <= Slots /\ Rx!Backlog' <= arrived' /\ last' = arrived' - Rx!Backlog'
        BY <1>1, <3>1, <3>2, <3>3, <3>6 DEF Awaited
    <3> QED
        BY <1>1, <3>1, <3>2, <3>7, <3>8 DEF Awaited
  <2> QED
      BY <2>1, <2>2
<1>9. overrun' \in BOOLEAN
    BY DEF Rx!Arrive, RingInv
<1> QED
    BY <1>1, <1>3, <1>4, <1>6, <1>7, <1>8, <1>9 DEF RingInv

LEMMA RingThread == RingInv /\ Rx!Thread => RingInv'
<1> SUFFICES ASSUME RingInv, Rx!Thread PROVE RingInv'
    OBVIOUS
<1> USE SizesType
<1>1. UNCHANGED <<ring, index, arrived, overrun>>
    BY DEF Rx!Thread, Rx!Take, Rx!NoMemory, Rx!CopyHeader, Rx!CopyData, Rx!Manage
<1>2. /\ arrived \in Nat /\ mbox \in Seq(0 .. Slots - 1) /\ Len(mbox) \in Nat
      /\ ~overrun => Awaited
    BY DEF RingInv
\* The message whose slot is in the thread's hand is the one after the last.
<1>3. ASSUME ~overrun, pc # "wait"
      PROVE  ring[slot] = last + 1
  <2>1. /\ slot = Place(last + 1) /\ last = arrived - Rx!Backlog
        /\ Rx!Backlog \in 1 .. Slots /\ Rx!Backlog <= arrived
      BY <1>2, <1>3 DEF Awaited, Rx!Backlog
  <2>2. last + 1 \in 1 .. arrived /\ arrived < (last + 1) + Slots
      BY <1>2, <2>1
  <2> QED
      BY <2>1, <2>2 DEF RingInv
<1>4. CASE Rx!Take
  <2>1. /\ pc = "wait" /\ mbox # <<>> /\ slot' = Head(mbox) /\ mbox' = Tail(mbox)
        /\ pc' = "header" /\ UNCHANGED <<header, data, last>>
      BY <1>4 DEF Rx!Take
  <2>2. /\ Head(mbox) = mbox[1] /\ mbox[1] \in 0 .. Slots - 1 /\ Tail(mbox) \in Seq(0 .. Slots - 1)
        /\ Len(mbox) >= 1 /\ Len(Tail(mbox)) = Len(mbox) - 1
        /\ \A k \in 1 .. Len(mbox) - 1 : Tail(mbox)[k] = mbox[k + 1]
      BY <1>2, <2>1, HeadTailProperties, EmptySeq
  <2>3. Rx!Backlog' = Rx!Backlog
      BY <1>2, <2>1, <2>2 DEF Rx!Backlog
  <2>4. ASSUME ~overrun PROVE Awaited'
    <3>1. Awaited /\ Rx!Backlog = Len(mbox) /\ last = arrived - Len(mbox)
        BY <1>2, <2>1, <2>2, <2>4 DEF Awaited, Rx!Backlog
    <3>2. slot' = Place(last + 1)
        BY <1>2, <2>1, <2>2, <3>1 DEF Awaited
    <3>3. \A k \in 1 .. Len(mbox') : mbox'[k] = Place(arrived - Len(mbox') + k)
      <4> SUFFICES ASSUME NEW k \in 1 .. Len(mbox) - 1
                   PROVE  mbox'[k] = Place(arrived - Len(mbox') + k)
          BY <1>2, <2>1, <2>2
      <4>1. mbox'[k] = mbox[k + 1] /\ k + 1 \in 1 .. Len(mbox)
          BY <1>2, <2>1, <2>2
      <4>2. arrived - Len(mbox') + k = arrived - Len(mbox) + (k + 1)
          BY <1>2, <2>1, <2>2
      <4> QED
          BY <3>1, <4>1, <4>2 DEF Awaited
    <3> QED
        BY <1>1, <2>1, <2>3, <3>1, <3>2, <3>3 DEF Awaited
  <2> QED
      BY <1>1, <2>1, <2>2, <2>4 DEF RingInv
<1>5. CASE Rx!CopyHeader \/ Rx!CopyData
  <2>1. /\ UNCHANGED <<mbox, slot, last>>
        /\ \/ pc = "header" /\ pc' = "data" /\ header' = ring[slot]
           \/ pc = "data" /\ pc' = "manage" /\ header' = header /\ data' = ring[slot]
      BY <1>5 DEF Rx!CopyHeader, Rx!CopyData
  <2>2. Rx!Backlog' = Rx!Backlog
      BY <2>1 DEF Rx!Backlog
  <2>3. ~overrun => Awaited'
      BY <1>1, <1>2, <1>3, <2>1, <2>2 DEF Awaited
  <2> QED
      BY <1>1, <2>1, <2>3 DEF RingInv
<1>6. CASE Rx!NoMemory \/ Rx!Manage
  <2>1. /\ pc # "wait" /\ pc' = "wait" /\ mbox' = mbox /\ last' = ring[slot]
      BY <1>6 DEF Rx!NoMemory, Rx!Manage, Rx!Done
  <2>2. Rx!Backlog = Len(mbox) + 1 /\ Rx!Backlog' = Len(mbox)
      BY <1>2, <2>1 DEF Rx!Backlog
  <2>3. ASSUME ~overrun PROVE Awaited'
    <3>1. last' = last + 1 /\ Awaited
        BY <1>2, <1>3, <2>1, <2>3
    <3>2. last' = arrived - Len(mbox)
        BY <1>2, <2>2, <3>1 DEF Awaited
    <3> QED
        BY <1>1, <1>2, <2>1, <2>2, <3>1, <3>2 DEF Awaited
  <2> QED
      BY <1>1, <2>1, <2>3 DEF RingInv
<1> QED
    BY <1>4, <1>5, <1>6 DEF Rx!Thread

(***************************************************************************)
(* Every step of the whole is a step of the ring or leaves it alone.       *)
(***************************************************************************)
LEMMA StepOfRing == Bus \/ Thread => Rx!Next \/ UNCHANGED rxVars
<1> USE DEF Rx!Next, Rx!Thread
<1>1. CASE Bus
    BY <1>1 DEF Bus, PacketArrives, PacketLost, PacketRepeated, Arrives
<1>2. CASE Thread
    BY <1>2 DEF Thread, Fetch, Copy, Drop, Skip, Handle
<1> QED
    BY <1>1, <1>2

LEMMA AlwaysRingInv == ReceiveSpec => []RingInv
<1>1. RingInv /\ [Bus \/ Thread]_receiveVars => RingInv'
  <2> SUFFICES ASSUME RingInv, [Bus \/ Thread]_receiveVars PROVE RingInv'
      OBVIOUS
  <2>1. CASE Rx!Next
      BY <2>1, RingArrive, RingThread DEF Rx!Next
  <2>2. CASE UNCHANGED rxVars
      BY <2>2 DEF rxVars, RingInv, Awaited, Rx!Backlog
  <2> QED
      BY <2>1, <2>2, StepOfRing DEF receiveVars
<1> QED
    BY RingInit, <1>1, PTL DEF ReceiveSpec, ReceiveInit

\* In a ring of any size the messages are handled in the order they came, each
\* copied from one message, as long as the ring never comes round to a slot that
\* is awaited, although the mailbox takes as many pointers as there are slots.
THEOREM HandlesInOrder == ReceiveSpec => []HandledInOrder
<1>1. RingInv => HandledInOrder
  <2> SUFFICES ASSUME RingInv, pc = "manage", ~overrun
               PROVE  header = last + 1 /\ data = last + 1 /\ ring[slot] = last + 1
      BY DEF HandledInOrder, Rx!HandledInOrder
  <2>1. Awaited /\ arrived \in Nat /\ mbox \in Seq(0 .. Slots - 1) /\ Len(mbox) \in Nat
      BY DEF RingInv
  <2>2. Rx!Backlog = Len(mbox) + 1
      BY DEF Rx!Backlog
  <2>3. last + 1 \in 1 .. arrived /\ arrived < (last + 1) + Slots /\ slot = Place(last + 1)
      BY <2>1, <2>2, SizesType DEF Awaited
  <2>4. ring[slot] = last + 1
      BY <2>3 DEF RingInv
  <2> QED
      BY <2>1, <2>4 DEF Awaited
<1> QED
    BY AlwaysRingInv, <1>1, PTL

\* Whatever was overwritten, the thread is in step with the interrupt handler again
\* once it has caught up, for a ring of any size.
THEOREM StaysInStep == ReceiveSpec => []InStep
<1>1. RingInv => InStep
  <2> SUFFICES ASSUME RingInv, ~overrun, NEW k \in 1 .. Len(mbox)
               PROVE  ring[mbox[k]] = arrived - Len(mbox) + k
      BY DEF InStep, Rx!InStep
  <2>1. Awaited /\ arrived \in Nat /\ Len(mbox) \in Nat /\ Rx!Backlog >= Len(mbox)
      BY DEF RingInv, Rx!Backlog
  <2>2. /\ arrived - Len(mbox) + k \in 1 .. arrived
        /\ arrived < (arrived - Len(mbox) + k) + Slots
      BY <2>1, SizesType DEF Awaited, Rx!Backlog
  <2> QED
      BY <2>1, <2>2 DEF RingInv, Awaited
<1> QED
    BY AlwaysRingInv, <1>1, PTL

(***************************************************************************)
(* The blocks                                                              *)
(***************************************************************************)
Total   == MaxBlocks * Parts
Packets == 0 .. Total - 1

\* What is stored and copied are packets that were sent.
PacketInv ==
    /\ sent \in Nat /\ sent <= Total /\ fresh \in BOOLEAN /\ (fresh => sent > 0)
    /\ load \in [0 .. Slots - 1 -> Packets] /\ taken \in Packets

LEMMA SomePackets == Total \in Nat \ {0}
<1>1. \A m, n \in Nat \ {0} : m * n \in Nat \ {0}
    OBVIOUS
<1> QED
    BY <1>1, AssemblyAssumption DEF Total

\* A packet belongs to a block that was sent.
LEMMA PacketType ==
    ASSUME NEW n \in Packets
    PROVE  BlockOf(n) \in None .. MaxBlocks /\ PartOf(n) \in PartNumbers
<1> DEFINE q == n \div Parts
<1>1. /\ n \in Nat /\ n < MaxBlocks * Parts
      /\ Parts \in Nat \ {0} /\ MaxBlocks \in Nat \ {0}
    BY SomePackets, AssemblyAssumption DEF Packets, Total
<1>2. n % Parts \in 0 .. Parts - 1 /\ q \in Nat /\ n = Parts * q + (n % Parts)
    BY <1>1, Division
<1> HIDE DEF q
<1>3. \A d, p \in Nat : p * (MaxBlocks + d) = MaxBlocks * p + p * d /\ p * d >= 0
    BY <1>1
<1>4. q < MaxBlocks
  <2> SUFFICES ASSUME q >= MaxBlocks PROVE FALSE
      BY <1>1, <1>2
  <2>1. q - MaxBlocks \in Nat /\ q = MaxBlocks + (q - MaxBlocks)
      BY <1>1, <1>2
  <2>2. Parts * q = MaxBlocks * Parts + Parts * (q - MaxBlocks) /\ Parts * (q - MaxBlocks) >= 0
      BY <1>1, <1>3, <2>1
  <2> QED
      BY <1>1, <1>2, <2>2
<1>5. BlockOf(n) = q + 1 /\ PartOf(n) = n % Parts
    BY DEF BlockOf, PartOf, q
<1> QED
    BY <1>1, <1>2, <1>4, <1>5 DEF None, PartNumbers

BlockInv == Inv /\ PacketInv

LEMMA BlockInit == ReceiveInit => BlockInv
<1>1. ReceiveInit => Inv
    BY InitInv DEF ReceiveInit
<1>2. ReceiveInit => PacketInv
  <2>1. 0 \in Packets /\ 0 <= Total
      BY SomePackets DEF Packets
  <2> SUFFICES ASSUME ReceiveInit PROVE PacketInv
      OBVIOUS
  <2>2. fresh \in BOOLEAN /\ (fresh => sent > 0)
      BY Zenon DEF ReceiveInit
  <2>3. sent = 0 /\ load = [k \in 0 .. Slots - 1 |-> 0] /\ taken = 0
      BY DEF ReceiveInit
  <2> QED
      BY <2>1, <2>2, <2>3 DEF PacketInv
<1> QED
    BY <1>1, <1>2 DEF BlockInv

LEMMA PacketStep == RingInv /\ PacketInv /\ (Bus \/ Thread) => PacketInv'
<1> SUFFICES ASSUME RingInv, PacketInv, Bus \/ Thread PROVE PacketInv'
    OBVIOUS
<1> USE DEF PacketInv
<1>m. Total \in Nat \ {0} /\ Packets = 0 .. Total - 1
    BY SomePackets DEF Packets
<1>1. ASSUME NEW n \in Packets, Arrives(n)
      PROVE  load' \in [0 .. Slots - 1 -> Packets] /\ taken' = taken
    BY <1>1 DEF Arrives
<1>2. CASE PacketArrives
  <2>1. sent \in Packets /\ Arrives(sent) /\ sent' = sent + 1 /\ fresh' = TRUE /\ sent < Total
      BY <1>m, <1>2 DEF PacketArrives, Total
  <2> QED
      BY <1>m, <1>1, <2>1
<1>3. CASE PacketRepeated
  <2>1. sent - 1 \in Packets /\ Arrives(sent - 1) /\ sent' = sent /\ fresh' = FALSE
      BY <1>m, <1>3 DEF PacketRepeated
  <2> QED
      BY <1>1, <2>1
<1>4. CASE PacketLost
  <2>1. sent < Total /\ sent' = sent + 1 /\ fresh' = FALSE /\ UNCHANGED <<load, taken>>
      BY <1>4 DEF PacketLost, Total
  <2>2. fresh' \in BOOLEAN /\ (fresh' => sent' > 0)
      BY <2>1, Zenon
  <2>3. sent' \in Nat /\ sent' <= Total
      BY <1>m, <2>1
  <2>4. load' \in [0 .. Slots - 1 -> Packets] /\ taken' \in Packets
      BY <2>1
  <2> QED
      BY <2>2, <2>3, <2>4
<1>5. CASE Copy
  <2>1. slot \in 0 .. Slots - 1 /\ taken' = load[slot] /\ UNCHANGED <<sent, fresh, load>>
      BY <1>5 DEF Copy, Packet, RingInv, Rx!CopyData, busVars
  <2> QED
      BY <2>1
<1>6. CASE Handle
    BY <1>m, <1>6 DEF Handle, busVars
<1>7. CASE Fetch \/ Drop \/ Skip
    BY <1>7 DEF Fetch, Drop, Skip, busVars
<1> QED
    BY <1>2, <1>3, <1>4, <1>5, <1>6, <1>7 DEF Bus, Thread

\* A packet out of order may spoil the buffer, but no packet that is counted for
\* the current block has come before it.
LEMMA DisorderInv == RingInv /\ BlockInv /\ pc = "manage" /\ Disorder => Inv'
<1> SUFFICES ASSUME Inv, taken \in Packets, Packet \in Packets, Disorder PROVE Inv'
    BY DEF RingInv, BlockInv, PacketInv, Packet
<1> USE DEF Inv
<1>1. /\ UNCHANGED <<block, part, again, missed, chasm>>
      /\ clean' = 0 /\ lost' = TRUE /\ twice' = TRUE
      /\ Deal(BlockOf(taken), PartOf(Packet))
    BY DEF Disorder
<1>2. BlockOf(taken) \in None .. MaxBlocks /\ PartOf(Packet) \in PartNumbers
    BY PacketType
<1>3. buf' \in Contents
    BY <1>1, <1>2 DEF Deal, TypeOK, Contents
<1>4. app' \in Contents /\ len' \in Nat
  <2>1. LenAfter(PartOf(Packet)) \in Nat /\ len \in Nat /\ app \in Contents
      BY DEF LenAfter, TypeOK
  <2>2. app' \in {buf', app} /\ len' \in {0, LenAfter(PartOf(Packet))}
      BY <1>1 DEF Deal
  <2> QED
      BY <1>3, <2>1, <2>2
<1>5. TypeOK'
    BY <1>1, <1>3, <1>4, AssemblyAssumption DEF TypeOK
<1>6. AllSent' /\ FewMissed'
    BY <1>1 DEF AllSent, FewMissed
<1>7. CleanSoFar' /\ CompleteBlockTaken'
    BY <1>1, AssemblyAssumption DEF CleanSoFar, CompleteBlockTaken, TypeOK, PartNumbers
<1>8. InOrder' /\ Filled' /\ Counted' /\ NothingMissed' /\ NoMixture'
    BY <1>1 DEF InOrder, Filled, Counted, NothingMissed, NoMixture
<1> QED
    BY <1>5, <1>6, <1>7, <1>8

LEMMA BlockStep == RingInv /\ BlockInv /\ (Bus \/ Thread) => BlockInv'
<1> SUFFICES ASSUME RingInv, BlockInv, Bus \/ Thread PROVE Inv'
    BY PacketStep DEF BlockInv
<1>1. CASE UNCHANGED vars
    BY <1>1, StepInv DEF BlockInv
<1>2. CASE Skip
    BY <1>2, LoseInv DEF Skip, BlockInv
<1>3. CASE Handle
  <2>1. pc = "manage" /\ (Receive \/ Repeat \/ Disorder)
      BY <1>3 DEF Handle, Rx!Manage
  <2> QED
      BY <2>1, ReceiveInv, RepeatInv, DisorderInv DEF BlockInv
<1>4. CASE Bus \/ Fetch \/ Copy \/ Drop
  <2>1. UNCHANGED vars
      BY <1>4 DEF Bus, PacketArrives, PacketLost, PacketRepeated, Arrives, Fetch, Copy, Drop
  <2> QED
      BY <1>1, <2>1
<1> QED
    BY <1>2, <1>3, <1>4 DEF Thread

LEMMA AlwaysBlockInv == ReceiveSpec => []BlockInv
<1>1. RingInv /\ BlockInv /\ [Bus \/ Thread]_receiveVars => BlockInv'
  <2>1. CASE UNCHANGED receiveVars
    <3>1. UNCHANGED vars /\ UNCHANGED <<busVars, load, taken>>
        BY <2>1 DEF receiveVars
    <3>2. Inv => Inv'
        BY <3>1, StepInv
    <3> QED
        BY <3>1, <3>2 DEF BlockInv, PacketInv, busVars
  <2> QED
      BY <2>1, BlockStep
<1> QED
    BY BlockInit, AlwaysRingInv, <1>1, PTL DEF ReceiveSpec

\* MsgRx_Deal lets no mixture of two blocks through either when packets are lost
\* for want of memory or overwritten in the ring, wherever the thread is preempted.
THEOREM ReceptionNeverMixes == ReceiveSpec => []NoMixture
<1>1. BlockInv => NoMixture
    BY DEF BlockInv, Inv
<1> QED
    BY AlwaysBlockInv, <1>1, PTL

\* A block that arrives whole is taken over, whatever the ring has lost before.
THEOREM ReceptionTakesComplete == ReceiveSpec => []CompleteBlockTaken
<1>1. BlockInv => CompleteBlockTaken
    BY DEF BlockInv, Inv
<1> QED
    BY AlwaysBlockInv, <1>1, PTL
===============================================================================
