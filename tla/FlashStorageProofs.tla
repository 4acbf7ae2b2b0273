------------------------- MODULE FlashStorageProofs -------------------------
(* The record storage, for any areas, records, retries and boots.           *)
EXTENDS FlashStorage, Integers, FiniteSetTheorems, WellFoundedInduction, TLAPS

(***************************************************************************)
(* Numbers up to n                                                         *)
(***************************************************************************)
(* A set of numbers up to n that is not empty has a least one.              *)
LEMMA LeastOf ==
  ASSUME NEW n \in Nat, NEW S \in SUBSET (0 .. n), S # {}
  PROVE  \E x \in S : \A y \in S : x <= y
<1> DEFINE Under(x) == 0 .. x
           T == {Under(x) : x \in S}
<1>1. T \subseteq FiniteSubsetsOf(0 .. n) /\ T # {}
  <2>1. ASSUME NEW x \in S PROVE Under(x) \in FiniteSubsetsOf(0 .. n)
    <3>1. x \in Nat /\ Under(x) \in SUBSET (0 .. n)
      OBVIOUS
    <3>2. IsFiniteSet(Under(x))
      <4>1. 0 \in Int /\ x \in Int
        BY <3>1
      <4> QED
        BY <4>1, FS_Interval, Zenon
    <3> QED
      BY <3>1, <3>2 DEF FiniteSubsetsOf
  <2> HIDE DEF Under
  <2> QED
    BY <2>1
<1>2. PICK t \in T : \A u \in T : <<u, t>> \notin StrictSubsetOrdering(0 .. n)
  <2>1. IsWellFoundedOn(StrictSubsetOrdering(0 .. n), FiniteSubsetsOf(0 .. n))
    BY FS_StrictSubsetOrderingWellFounded
  <2> HIDE DEF T
  <2> QED
    BY <1>1, <2>1, WFMin
<1>3. PICK x \in S : t = Under(x)
  OBVIOUS
<1>4. ASSUME NEW y \in S, y < x PROVE FALSE
  <2>1. /\ Under(y) \in SUBSET (0 .. n) /\ Under(x) \in SUBSET (0 .. n)
        /\ Under(y) \subseteq Under(x) /\ x \in Under(x) /\ x \notin Under(y)
    BY <1>4
  <2>2. Under(y) \in T
    OBVIOUS
  <2> HIDE DEF T, Under
  <2>3. <<Under(y), Under(x)>> \in StrictSubsetOrdering(0 .. n)
    BY <2>1 DEF StrictSubsetOrdering
  <2> QED
    BY <2>2, <2>3, <1>2, <1>3
<1> QED
  BY <1>4

(* What holds of 0 and of the number after each of its own holds up to n.   *)
LEMMA UpTo ==
  ASSUME NEW n \in Nat, NEW S, 0 \in S, \A k \in 0 .. n - 1 : k \in S => k + 1 \in S
  PROVE  \A k \in 0 .. n : k \in S
<1> DEFINE T == (0 .. n) \ S
<1>1. SUFFICES ASSUME T # {} PROVE FALSE
  OBVIOUS
<1>2. PICK x \in T : \A y \in T : x <= y
  <2>1. T \in SUBSET (0 .. n)
    OBVIOUS
  <2> HIDE DEF T
  <2> QED
    BY <1>1, <2>1, LeastOf
<1>3. x - 1 \in 0 .. n - 1 /\ x - 1 \notin T
  BY <1>2
<1> QED
  BY <1>3

(***************************************************************************)
(* scan_flash                                                              *)
(***************************************************************************)
Turn(ring, n, m, seen, k) ==
  IF seen.left = 0 THEN seen ELSE Look(ring, seen, (m.slot + k) % n)

(* The turns of a search follow each other.                                 *)
LEMMA SearchTurns ==
  ASSUME NEW ring, NEW n \in Nat, NEW m, NEW span, m.slot \in Int
  PROVE  /\ Search(ring, n, m, span)[0]
              = [id |-> m.id, slot |-> m.slot, left |-> Forward(span)]
         /\ \A k \in 0 .. n - 1 :
              Search(ring, n, m, span)[k + 1]
                = Turn(ring, n, m, Search(ring, n, m, span)[k], k)
<1> DEFINE First == [id |-> m.id, slot |-> m.slot, left |-> Forward(span)]
           After(x, k) == IF x.left = 0 THEN x ELSE Look(ring, x, (m.slot + k - 1) % n)
           Of(f, j) == f = [k \in 0 .. j |-> IF k = 0 THEN First ELSE After(f[k - 1], k)]
           S == {j \in Nat : \E f : Of(f, j)}
<1>1. 0 \in S
  <2>1. Of([k \in 0 .. 0 |-> First], 0)
    <3> HIDE DEF First, After
    <3> QED
      OBVIOUS
  <2> QED
    BY <2>1
<1>2. ASSUME NEW j \in 0 .. n - 1, j \in S PROVE j + 1 \in S
  <2>1. PICK f : Of(f, j)
    BY <1>2
  <2> DEFINE g == [k \in 0 .. j + 1 |-> IF k <= j THEN f[k] ELSE After(f[j], k)]
  <2>2. Of(g, j + 1)
    <3> HIDE DEF First, After
    <3>1. \A k \in 0 .. j : g[k] = f[k]
      OBVIOUS
    <3>2. \A k \in 0 .. j : f[k] = IF k = 0 THEN First ELSE After(f[k - 1], k)
      BY <2>1
    <3>3. ASSUME NEW k \in 0 .. j + 1 PROVE g[k] = IF k = 0 THEN First ELSE After(g[k - 1], k)
      <4>1. CASE k <= j
        <5>1. k # 0 => k - 1 \in 0 .. j
          BY <4>1
        <5> HIDE DEF g
        <5> QED
          BY <5>1, <4>1, <3>1, <3>2
      <4>2. CASE k = j + 1
        <5>1. k # 0 /\ k - 1 = j /\ j \in 0 .. j /\ ~(k <= j)
          BY <4>2
        <5>2. g[k] = After(f[j], k)
          BY <5>1
        <5> HIDE DEF g
        <5> QED
          BY <5>1, <5>2, <3>1
      <4> QED
        BY <4>1, <4>2
    <3>4. g = [k \in 0 .. j + 1 |-> g[k]]
      OBVIOUS
    <3> HIDE DEF g
    <3> QED
      BY <3>3, <3>4
  <2> HIDE DEF Of, g
  <2> QED
    BY <2>2
<1>3. n \in S
  <2> HIDE DEF S
  <2>1. \A k \in 0 .. n : k \in S
    BY <1>1, <1>2, UpTo
  <2> QED
    BY <2>1
<1>4. Of(Search(ring, n, m, span), n)
  <2>1. Search(ring, n, m, span) = CHOOSE f : Of(f, n)
    BY DEF Search
  <2> HIDE DEF Of
  <2> QED
    BY <1>3, <2>1
<1> DEFINE s == Search(ring, n, m, span)
<1>5. \A k \in 0 .. n : s[k] = IF k = 0 THEN First ELSE After(s[k - 1], k)
  <2> HIDE DEF s, First, After
  <2> QED
    BY <1>4 DEF s
<1>6. ASSUME NEW k \in 0 .. n - 1 PROVE s[k + 1] = After(s[k], k + 1)
  <2>1. k + 1 \in 0 .. n /\ k + 1 # 0 /\ (k + 1) - 1 = k
    OBVIOUS
  <2> HIDE DEF s, First, After
  <2> QED
    BY <2>1, <1>5
<1>7. ASSUME NEW k \in 0 .. n - 1 PROVE After(s[k], k + 1) = Turn(ring, n, m, s[k], k)
  <2>1. m.slot + (k + 1) - 1 = m.slot + k
    OBVIOUS
  <2> HIDE DEF s
  <2> QED
    BY <2>1 DEF Turn
<1> HIDE DEF First, After
<1> QED
  BY <1>5, <1>6, <1>7 DEF First

Fronts(n) == [id : Nat, slot : 0 .. n - 1]

LEMMA ForwardType ==
  ASSUME NEW span \in Nat \ {0}
  PROVE  Forward(span) \in Nat /\ Forward(span) >= 2
<1>1. Sector \in Nat
  BY StorageAssumption
<1>2. Sector \div span \in Nat
  BY <1>1
<1> QED
  BY <1>2 DEF Forward

LEMMA SlotAfter ==
  ASSUME NEW n \in Nat \ {0}, NEW p \in 0 .. n - 1, NEW k \in 0 .. n - 1
  PROVE  /\ (p + k) % n = IF p + k < n THEN p + k ELSE p + k - n
         /\ (p + k) % n \in 0 .. n - 1
<1>1. CASE p + k < n
  BY <1>1
<1>2. CASE p + k >= n
  <2>1. /\ p + k - n \in 0 .. n - 1
        /\ p + k = n * 1 + (p + k - n)
    BY <1>2
  <2> QED
    BY <2>1, <1>2
<1> QED
  BY <1>1, <1>2

LEMMA FrontTurns ==
  ASSUME NEW n \in Nat \ {0}, NEW m \in Fronts(n), NEW span, NEW ring
  PROVE  /\ Search(ring, n, m, span)[0]
              = [id |-> m.id, slot |-> m.slot, left |-> Forward(span)]
         /\ \A k \in 0 .. n - 1 :
              Search(ring, n, m, span)[k + 1]
                = Turn(ring, n, m, Search(ring, n, m, span)[k], k)
<1>1. n \in Nat /\ m.slot \in Int
  BY DEF Fronts
<1> QED
  BY ONLY <1>1, SearchTurns

(* What a search leaves is what it began with or a record it has seen.      *)
LEMMA SearchSound ==
  ASSUME NEW n \in Nat \ {0}, NEW m \in Fronts(n), NEW span \in Nat \ {0}, NEW ring,
         \A k \in 0 .. n - 1 : ring[k].kind = "good" => ring[k].id \in Nat
  PROVE  /\ ScanFlash(ring, n, m, span) \in Fronts(n)
         /\ \/ ScanFlash(ring, n, m, span) = m
            \/ LET r == ScanFlash(ring, n, m, span) IN
                 ring[r.slot].kind = "good" /\ ring[r.slot].id = r.id /\ r.id > m.id
<1> DEFINE s == Search(ring, n, m, span)
           Known(x) == /\ x \in [id : Nat, slot : 0 .. n - 1, left : Nat]
                       /\ \/ x.id = m.id /\ x.slot = m.slot
                          \/ /\ ring[x.slot].kind = "good" /\ ring[x.slot].id = x.id
                             /\ x.id > m.id
           S == {k \in 0 .. n : Known(s[k])}
<1>0. m.id \in Nat /\ m.slot \in 0 .. n - 1 /\ m.slot \in Int
  BY DEF Fronts
<1>s. /\ s[0] = [id |-> m.id, slot |-> m.slot, left |-> Forward(span)]
      /\ \A k \in 0 .. n - 1 : s[k + 1] = Turn(ring, n, m, s[k], k)
  BY FrontTurns
<1>1. 0 \in S
  <2>1. s[0] = [id |-> m.id, slot |-> m.slot, left |-> Forward(span)]
    BY <1>s
  <2>2. Known(s[0])
    <3> HIDE DEF s
    <3> QED
      BY <1>0, <2>1, ForwardType
  <2> QED
    BY <2>2
<1>2. ASSUME NEW k \in 0 .. n - 1, k \in S PROVE k + 1 \in S
  <2>1. s[k + 1] = Turn(ring, n, m, s[k], k)
    BY <1>s
  <2>2. PICK j : j = (m.slot + k) % n
    OBVIOUS
  <2>3. j \in 0 .. n - 1
    BY <1>0, <2>2, SlotAfter
  <2>4. Known(s[k])
    BY <1>2
  <2>5. Known(s[k + 1])
    <3> HIDE DEF s
    <3>1. PICK x : x = s[k]
      OBVIOUS
    <3>2. s[k + 1] = IF x.left = 0 THEN x ELSE Look(ring, x, j)
      BY <2>1, <2>2, <3>1 DEF Turn
    <3>3. Known(x)
      BY <2>4, <3>1
    <3>4. CASE x.left = 0
      BY <3>2, <3>3, <3>4
    <3>5. CASE x.left # 0 /\ ring[j].kind = "good" /\ ring[j].id > x.id
      <4>1. s[k + 1] = [x EXCEPT !.id = ring[j].id, !.slot = j]
        BY <3>2, <3>5 DEF Look
      <4>2. ring[j].id \in Nat
        BY <3>5, <2>3
      <4>3. x \in [id : Nat, slot : 0 .. n - 1, left : Nat] /\ x.id >= m.id
        BY <3>3, <1>0
      <4>4. s[k + 1] = [id |-> ring[j].id, slot |-> j, left |-> x.left]
        BY <4>1, <4>3
      <4>5. ring[j].id > m.id
        BY <4>2, <4>3, <3>5, <1>0
      <4> QED
        BY <4>2, <4>3, <4>4, <4>5, <3>5, <2>3
    <3>6. CASE x.left # 0 /\ ~(ring[j].kind = "good" /\ ring[j].id > x.id)
      <4>1. s[k + 1] = [x EXCEPT !.left = @ - 1] \/ s[k + 1] = x
        BY <3>2, <3>6 DEF Look
      <4> QED
        BY <4>1, <3>3, <3>6
    <3> QED
      BY <3>4, <3>5, <3>6
  <2> HIDE DEF Known, s
  <2> QED
    BY <2>5
<1>3. Known(s[n])
  <2> HIDE DEF Known, s
  <2>1. n \in S
    <3> HIDE DEF S
    <3> QED
      BY <1>1, <1>2, UpTo
  <2> QED
    BY <2>1
<1>4. ScanFlash(ring, n, m, span) = [id |-> s[n].id, slot |-> s[n].slot]
  BY DEF ScanFlash
<1>5. m = [id |-> m.id, slot |-> m.slot]
  BY DEF Fronts
<1> HIDE DEF s
<1> QED
  BY <1>0, <1>3, <1>4, <1>5 DEF Fronts
(* The number of the record slot k has room for, in a ring of n slots of    *)
(* which the one with number f.id is in slot f.slot and is the newest.      *)
Number(k, f, n) == IF k <= f.slot THEN f.id - (f.slot - k) ELSE f.id - (f.slot - k) - n

(* Every record is where its number says.                                   *)
Ordered(ring, f, n) ==
  \A k \in 0 .. n - 1 : ring[k].kind = "good" =>
    ring[k].id \in Nat \ {0} /\ ring[k].id = Number(k, f, n)

(* The turn in which a search from slot p looks at slot k.                  *)
TurnAt(k, p, n) == IF k >= p THEN k - p ELSE k - p + n

(* Slots that cost the search a turn, before it comes to slot h.            *)
Costly(ring, m, f, n, h) ==
  {k \in 0 .. n - 1 : /\ TurnAt(k, m.slot, n) < TurnAt(h, m.slot, n)
                      /\ \/ ring[k].kind = "blank"
                         \/ ring[k].kind = "good" /\ Number(k, f, n) <= m.id}

(* On the way to the newest record the numbers of the records rise.         *)
LEMMA NumbersRise ==
  ASSUME NEW n \in Nat \ {0}, NEW p \in 0 .. n - 1, NEW f \in Fronts(n),
         NEW h \in 0 .. n - 1, NEW k \in 0 .. n - 1, NEW l \in 0 .. n - 1,
         TurnAt(k, p, n) < TurnAt(l, p, n), TurnAt(l, p, n) <= TurnAt(h, p, n),
         Number(k, f, n) <= Number(h, f, n), Number(l, f, n) <= Number(h, f, n)
  PROVE  Number(k, f, n) < Number(l, f, n)
BY DEF TurnAt, Number, Fronts

(* A search finds the newest record if the slots that cost it a turn are    *)
(* fewer than it has turns to spend.                                        *)
LEMMA SearchFinds ==
  ASSUME NEW n \in Nat \ {0}, NEW m \in Fronts(n), NEW f \in Fronts(n), NEW span \in Nat \ {0},
         NEW ring, Ordered(ring, f, n),
         NEW h \in 0 .. n - 1, ring[h].kind = "good", Number(h, f, n) > m.id,
         \A k \in 0 .. n - 1 : ring[k].kind = "good" => Number(k, f, n) <= Number(h, f, n),
         NEW Q, IsFiniteSet(Q), Costly(ring, m, f, n, h) \subseteq Q,
         Cardinality(Q) < Forward(span)
  PROVE  ScanFlash(ring, n, m, span) = [id |-> Number(h, f, n), slot |-> h]
<1>0. m.id \in Nat /\ m.slot \in 0 .. n - 1 /\ m.slot \in Int
  BY DEF Fronts
<1> DEFINE s == Search(ring, n, m, span)
<1>s. /\ s[0] = [id |-> m.id, slot |-> m.slot, left |-> Forward(span)]
      /\ \A k \in 0 .. n - 1 : s[k + 1] = Turn(ring, n, m, s[k], k)
  BY FrontTurns
<1>p. PICK p \in 0 .. n - 1 : p = m.slot
  BY <1>0
<1>a. PICK a \in Nat : a = m.id
  BY <1>0
<1>w. PICK w \in Nat : w = Forward(span)
  BY ForwardType
<1> DEFINE Num(k) == Number(k, f, n)
           At(k) == TurnAt(k, p, n)
           Spent(e) == {k \in Costly(ring, m, f, n, h) : At(k) < e}
           Known(x, e) ==
             /\ x \in [id : Nat, slot : 0 .. n - 1, left : Nat]
             /\ x.left + Cardinality(Spent(e)) >= w
             /\ \/ x.id = a
                \/ \E k \in 0 .. n - 1 :
                     ring[k].kind = "good" /\ At(k) < e /\ Num(k) > a /\ x.id = Num(k)
           S == {e \in 0 .. At(h) : Known(s[e], e)}
<1>n. /\ \A k \in 0 .. n - 1 : Num(k) \in Int /\ At(k) \in 0 .. n - 1
      /\ \A k \in 0 .. n - 1 : ring[k].kind = "good" => ring[k].id = Num(k) /\ Num(k) \in Nat
      /\ Num(h) > a
  <2>1. f.id \in Int /\ f.slot \in Int
    BY DEF Fronts
  <2>2. \A k \in 0 .. n - 1 : Num(k) \in Int
    BY <2>1 DEF Number
  <2>3. \A k \in 0 .. n - 1 : At(k) \in 0 .. n - 1
    BY DEF TurnAt
  <2>4. \A k \in 0 .. n - 1 : ring[k].kind = "good" => ring[k].id = Num(k) /\ Num(k) \in Nat
    BY DEF Ordered
  <2> QED
    BY <2>2, <2>3, <2>4, <1>a
<1>f. \A e \in 0 .. n : /\ IsFiniteSet(Spent(e)) /\ Cardinality(Spent(e)) \in Nat
                        /\ Cardinality(Spent(e)) < w
  <2>1. \A e \in 0 .. n : Spent(e) \subseteq Q
    OBVIOUS
  <2>2. Cardinality(Q) \in Nat
    BY FS_CardinalityType
  <2>3. ASSUME NEW T \in SUBSET Q
        PROVE  IsFiniteSet(T) /\ Cardinality(T) \in Nat /\ Cardinality(T) <= Cardinality(Q)
    <3>1. IsFiniteSet(T) /\ Cardinality(T) <= Cardinality(Q)
      BY FS_Subset
    <3> QED
      BY <3>1, FS_CardinalityType
  <2> HIDE DEF Spent
  <2> QED
    BY <2>1, <2>2, <2>3, <1>w
<1>1. 0 \in S
  <2>1. Spent(0) = {}
    <3>1. \A k \in 0 .. n - 1 : ~(At(k) < 0)
      <4> HIDE DEF At
      <4> QED
        BY <1>n
    <3> HIDE DEF At
    <3> QED
      BY <3>1 DEF Costly
  <2>2. Cardinality(Spent(0)) = 0
    BY <2>1, FS_EmptySet
  <2>3. Known(s[0], 0)
    <3> HIDE DEF s, Spent, At, Num
    <3>1. s[0] = [id |-> a, slot |-> p, left |-> w]
      BY <1>s, <1>p, <1>a, <1>w
    <3> QED
      BY <3>1, <2>2
  <2>4. 0 \in 0 .. At(h)
    <3> HIDE DEF At
    <3> QED
      BY <1>n
  <2> HIDE DEF Known, s, At
  <2> QED
    BY <2>3, <2>4
<1>2. ASSUME NEW e \in 0 .. At(h) - 1, e \in S PROVE e + 1 \in S
  <2>0. e \in 0 .. n - 1 /\ e \in 0 .. n /\ e + 1 \in 0 .. n /\ e + 1 \in 0 .. At(h)
        /\ e < At(h) /\ At(h) \in 0 .. n - 1
    <3> HIDE DEF At
    <3> QED
      BY <1>n
  <2>1. PICK j : j = (p + e) % n
    OBVIOUS
  <2>2. j \in 0 .. n - 1 /\ At(j) = e
    <3>1. j \in 0 .. n - 1 /\ (j = p + e \/ (j = p + e - n /\ p + e >= n))
      BY <2>0, <2>1, SlotAfter
    <3> QED
      BY <3>1, <2>0 DEF TurnAt
  <2>3. PICK x : x = s[e]
    OBVIOUS
  <2>4. Known(x, e)
    BY <1>2, <2>3
  <2>5. s[e + 1] = IF x.left = 0 THEN x ELSE Look(ring, x, j)
    BY <1>s, <1>p, <2>0, <2>1, <2>3 DEF Turn
  <2>6. x.left # 0
    <3> HIDE DEF s, Spent, At, Num
    <3> QED
      BY <2>4, <2>0, <1>f
  <2>7. PICK y : y = s[e + 1]
    OBVIOUS
  <2>8. y = Look(ring, x, j)
    BY <2>5, <2>6, <2>7
  <2>9. \A k \in Spent(e) : k # j
    BY <2>2
  <2>10. Spent(e + 1) = IF j \in Costly(ring, m, f, n, h) THEN Spent(e) \cup {j} ELSE Spent(e)
    <3>1. \A k \in Costly(ring, m, f, n, h) : k \in 0 .. n - 1
      BY DEF Costly
    <3>2. \A k \in 0 .. n - 1 : At(k) = e => k = j
      BY <2>2 DEF TurnAt
    <3>3. \A k \in 0 .. n - 1 : At(k) < e + 1 <=> (At(k) < e \/ At(k) = e)
      <4> HIDE DEF At
      <4> QED
        BY <1>n, <2>0
    <3> HIDE DEF At
    <3> QED
      BY <3>1, <3>2, <3>3, <2>2
  <2>11. /\ j \in Costly(ring, m, f, n, h) =>
              Cardinality(Spent(e + 1)) = Cardinality(Spent(e)) + 1
         /\ j \notin Costly(ring, m, f, n, h) => Spent(e + 1) = Spent(e)
    <3>1. IsFiniteSet(Spent(e)) /\ j \notin Spent(e)
      <4> HIDE DEF Spent
      <4> QED
        BY <1>f, <2>0, <2>9
    <3> HIDE DEF Spent
    <3> QED
      BY <3>1, <2>10, FS_AddElement
  <2>12. /\ Cardinality(Spent(e)) \in Nat /\ Cardinality(Spent(e + 1)) \in Nat
    BY <1>f, <2>0
  <2>13. /\ ring[j].kind = "blank" => j \in Costly(ring, m, f, n, h)
         /\ ring[j].kind = "good" /\ Num(j) <= a => j \in Costly(ring, m, f, n, h)
    <3>1. TurnAt(j, m.slot, n) < TurnAt(h, m.slot, n)
      BY <2>0, <2>2, <1>p
    <3> QED
      BY <3>1, <2>2, <1>a DEF Costly
  <2>14. x.id >= a /\ x.id \in Nat /\ x.left \in Nat
    <3> HIDE DEF At, Num, Spent
    <3> QED
      BY <2>4, <1>n
  (* A record with a number above a is newer than what was seen.           *)
  <2>15. ASSUME ring[j].kind = "good", Num(j) > a PROVE Num(j) > x.id
    <3>1. CASE x.id = a
      BY <3>1, <2>15
    <3>2. CASE \E k \in 0 .. n - 1 :
                 ring[k].kind = "good" /\ At(k) < e /\ Num(k) > a /\ x.id = Num(k)
      <4>1. PICK k \in 0 .. n - 1 :
                   ring[k].kind = "good" /\ At(k) < e /\ x.id = Num(k)
        BY <3>2
      <4>2. Num(k) < Num(j)
        <5>1. TurnAt(k, p, n) < TurnAt(j, p, n) /\ TurnAt(j, p, n) <= TurnAt(h, p, n)
          BY <4>1, <2>0, <2>2
        <5>2. Number(k, f, n) <= Number(h, f, n) /\ Number(j, f, n) <= Number(h, f, n)
          BY <4>1, <2>2, <2>15
        <5> QED
          BY ONLY <5>1, <5>2, <2>2, NumbersRise, n \in Nat \ {0}, p \in 0 .. n - 1,
             f \in Fronts(n), h \in 0 .. n - 1, k \in 0 .. n - 1
      <4> HIDE DEF Num, At
      <4> QED
        BY <4>1, <4>2, <2>2, <1>n
    <3> HIDE DEF Num, At, Spent
    <3> QED
      BY <3>1, <3>2, <2>4
  <2>16. Known(y, e + 1)
    <3> HIDE DEF Num, At, Spent
    <3>1. CASE ring[j].kind = "good" /\ Num(j) > a
      <4>1. y = [x EXCEPT !.id = ring[j].id, !.slot = j]
        BY <3>1, <2>2, <2>8, <2>15, <1>n DEF Look
      <4>2. x \in [id : Nat, slot : 0 .. n - 1, left : Nat]
        BY <2>4
      <4>3. y = [id |-> Num(j), slot |-> j, left |-> x.left] /\ Num(j) \in Nat
        BY <4>1, <4>2, <3>1, <2>2, <1>n
      <4>4. y.left + Cardinality(Spent(e + 1)) >= w
        BY <4>3, <2>4, <2>11, <2>12, <2>14
      <4>5. At(j) < e + 1
        BY <2>2, <2>0
      <4> QED
        BY <4>2, <4>3, <4>4, <4>5, <3>1, <2>2
    <3>2. CASE ~(ring[j].kind = "good" /\ Num(j) > a)
      <4>1. x \in [id : Nat, slot : 0 .. n - 1, left : Nat]
        BY <2>4
      <4>2. \/ j \in Costly(ring, m, f, n, h) /\ y = [x EXCEPT !.left = @ - 1]
            \/ y = x
        <5>1. CASE ring[j].kind = "good"
          <6>1. Num(j) <= a /\ ~(ring[j].id > x.id)
            BY <5>1, <3>2, <2>2, <2>14, <1>n
          <6> QED
            BY <5>1, <6>1, <2>8, <2>13 DEF Look
        <5>2. CASE ring[j].kind # "good"
          BY <5>2, <2>8, <2>13 DEF Look
        <5> QED
          BY <5>1, <5>2
      <4>3. /\ y \in [id : Nat, slot : 0 .. n - 1, left : Nat] /\ y.id = x.id
            /\ y.left + Cardinality(Spent(e + 1)) >= w
        <5>1. CASE j \in Costly(ring, m, f, n, h) /\ y = [x EXCEPT !.left = @ - 1]
          <6>1. y = [id |-> x.id, slot |-> x.slot, left |-> x.left - 1]
            BY <5>1, <4>1
          <6> QED
            BY <6>1, <5>1, <4>1, <2>4, <2>6, <2>11, <2>12, <2>14
        <5>2. CASE y = x
          <6>1. Cardinality(Spent(e + 1)) >= Cardinality(Spent(e))
            BY <2>11, <2>12
          <6> QED
            BY <6>1, <5>2, <4>1, <2>4, <2>12, <2>14
        <5> QED
          BY <5>1, <5>2, <4>2
      <4>4. \A k \in 0 .. n - 1 : At(k) < e => At(k) < e + 1
        BY <1>n, <2>0
      <4> QED
        BY <4>3, <4>4, <2>4
    <3> QED
      BY <3>1, <3>2
  <2> HIDE DEF Known, s, At
  <2> QED
    BY <2>0, <2>7, <2>16
(* So it comes to slot h with a turn left.                                  *)
<1>3. /\ s[At(h) + 1].id = Num(h) /\ s[At(h) + 1].slot = h
      /\ s[At(h) + 1] \in [id : Nat, slot : 0 .. n - 1, left : Nat]
  <2>1. At(h) \in S
    <3>1. At(h) \in Nat
      <4> HIDE DEF At
      <4> QED
        BY <1>n
    <3> HIDE DEF S, At
    <3> QED
      BY <3>1, <1>1, <1>2, UpTo
  <2>2. PICK x : x = s[At(h)]
    OBVIOUS
  <2>3. Known(x, At(h))
    BY <2>1, <2>2
  <2>4. At(h) \in 0 .. n - 1 /\ (p + At(h)) % n = h
    <3>1. At(h) \in 0 .. n - 1
      <4> HIDE DEF At
      <4> QED
        BY <1>n
    <3>2. IF p + At(h) < n THEN p + At(h) = h ELSE p + At(h) - n = h
      BY DEF TurnAt
    <3> HIDE DEF At
    <3> QED
      BY <3>1, <3>2, SlotAfter
  <2>5. s[At(h) + 1] = IF x.left = 0 THEN x ELSE Look(ring, x, h)
    <3> HIDE DEF At, s
    <3> QED
      BY <1>s, <1>p, <2>2, <2>4 DEF Turn
  <2>6. x.left # 0
    <3>1. At(h) \in 0 .. n
      <4> HIDE DEF At
      <4> QED
        BY <2>4
    <3> HIDE DEF s, Spent, At, Num
    <3> QED
      BY <3>1, <2>3, <1>f
  <2>7. ring[h].id = Num(h) /\ Num(h) > x.id
    <3>1. CASE x.id = a
      <4> HIDE DEF Num
      <4> QED
        BY <3>1, <1>n
    <3>2. CASE \E k \in 0 .. n - 1 :
                 ring[k].kind = "good" /\ At(k) < At(h) /\ Num(k) > a /\ x.id = Num(k)
      <4>1. PICK k \in 0 .. n - 1 :
                   ring[k].kind = "good" /\ At(k) < At(h) /\ x.id = Num(k)
        BY <3>2
      <4>2. Num(k) < Num(h)
        <5>1. TurnAt(k, p, n) < TurnAt(h, p, n) /\ TurnAt(h, p, n) <= TurnAt(h, p, n)
          BY <4>1, <2>4
        <5>2. Number(k, f, n) <= Number(h, f, n) /\ Number(h, f, n) <= Number(h, f, n)
          BY <4>1
        <5> QED
          BY ONLY <5>1, <5>2, NumbersRise, n \in Nat \ {0}, p \in 0 .. n - 1,
             f \in Fronts(n), h \in 0 .. n - 1, k \in 0 .. n - 1
      <4> HIDE DEF Num, At
      <4> QED
        BY <4>1, <4>2, <1>n
    <3> HIDE DEF Num, At, Spent
    <3> QED
      BY <3>1, <3>2, <2>3, <1>n
  <2>8. s[At(h) + 1] = [x EXCEPT !.id = ring[h].id, !.slot = h]
    <3> HIDE DEF At, Num, s, Spent
    <3> QED
      BY <2>5, <2>6, <2>7 DEF Look
  <2>9. x \in [id : Nat, slot : 0 .. n - 1, left : Nat]
    BY <2>3
  <2>10. Num(h) \in Nat
    BY <1>n
  <2> HIDE DEF s, At, Num
  <2> QED
    BY <2>7, <2>8, <2>9, <2>10
(* and meets nothing newer.                                                 *)
<1>4. s[n].id = Num(h) /\ s[n].slot = h
  <2> DEFINE R == {e \in 0 .. n : e > At(h) =>
                 /\ s[e] \in [id : Nat, slot : 0 .. n - 1, left : Nat]
                 /\ s[e].id = Num(h) /\ s[e].slot = h}
  <2>1. 0 \in R
    <3> HIDE DEF s, Num, At
    <3> QED
      BY <1>n
  <2>2. ASSUME NEW e \in 0 .. n - 1, e \in R PROVE e + 1 \in R
    <3>1. CASE e < At(h)
      <4> HIDE DEF s, Num, At
      <4> QED
        BY <3>1, <1>n
    <3>2. CASE e = At(h)
      <4> HIDE DEF s, Num, At
      <4> QED
        BY <3>2, <1>3
    <3>3. CASE e > At(h)
      <4>1. PICK x : x = s[e]
        OBVIOUS
      <4>2. /\ x.id = Num(h) /\ x.slot = h
            /\ x \in [id : Nat, slot : 0 .. n - 1, left : Nat]
        BY <4>1, <3>3, <2>2
      <4>3. PICK j : j = (p + e) % n
        OBVIOUS
      <4>4. j \in 0 .. n - 1
        BY <4>3, SlotAfter
      <4>5. s[e + 1] = IF x.left = 0 THEN x ELSE Look(ring, x, j)
        <5> HIDE DEF s
        <5> QED
          BY <1>s, <1>p, <4>1, <4>3 DEF Turn
      <4>6. ~(ring[j].kind = "good" /\ ring[j].id > x.id)
        <5>1. ring[j].kind = "good" => ring[j].id = Num(j) /\ Num(j) <= Num(h)
          BY <4>4, <1>n
        <5> HIDE DEF Num
        <5> QED
          BY <5>1, <4>2, <4>4, <1>n
      <4>7. s[e + 1] = x \/ (x.left # 0 /\ s[e + 1] = [x EXCEPT !.left = @ - 1])
        BY <4>5, <4>6 DEF Look
      <4>8. /\ s[e + 1].id = x.id /\ s[e + 1].slot = x.slot
            /\ s[e + 1] \in [id : Nat, slot : 0 .. n - 1, left : Nat]
        <5> HIDE DEF s
        <5> QED
          BY <4>2, <4>7
      <4> HIDE DEF s, Num, At
      <4> QED
        BY <4>2, <4>8
    <3> HIDE DEF s, Num, R
    <3>4. At(h) \in Int /\ e \in Int
      <4> HIDE DEF At
      <4> QED
        BY <1>n
    <3> HIDE DEF At
    <3> QED
      BY <3>1, <3>2, <3>3, <3>4
  <2>3. n \in R
    <3> HIDE DEF R
    <3>1. n \in Nat
      BY <1>n
    <3>2. \A k \in 0 .. n - 1 : k \in R => k + 1 \in R
      BY <2>2
    <3>3. \A k \in 0 .. n : k \in R
      BY <2>1, <3>1, <3>2, UpTo
    <3> QED
      BY <3>1, <3>3
  <2>4. n > At(h)
    <3> HIDE DEF At
    <3> QED
      BY <1>n
  <2> HIDE DEF s, Num, At
  <2> QED
    BY <2>3, <2>4
<1>5. ScanFlash(ring, n, m, span) = [id |-> s[n].id, slot |-> s[n].slot]
  BY DEF ScanFlash
<1> HIDE DEF s
<1> QED
  BY <1>4, <1>5

(* A search that meets nothing newer leaves the map it began with.          *)
LEMMA SearchStays ==
  ASSUME NEW n \in Nat \ {0}, NEW m \in Fronts(n), NEW span \in Nat \ {0}, NEW ring,
         \A k \in 0 .. n - 1 : ring[k].kind = "good" => ring[k].id \in Nat /\ ring[k].id <= m.id
  PROVE  ScanFlash(ring, n, m, span) = m
<1>1. /\ ScanFlash(ring, n, m, span) \in Fronts(n)
      /\ \/ ScanFlash(ring, n, m, span) = m
         \/ LET r == ScanFlash(ring, n, m, span) IN
              ring[r.slot].kind = "good" /\ ring[r.slot].id = r.id /\ r.id > m.id
  BY SearchSound
<1>2. PICK r : r = ScanFlash(ring, n, m, span)
  OBVIOUS
<1>3. SUFFICES ASSUME ring[r.slot].kind = "good", ring[r.slot].id = r.id, r.id > m.id
               PROVE  FALSE
  BY <1>1, <1>2
<1>4. r.slot \in 0 .. n - 1
  BY <1>1, <1>2 DEF Fronts
<1>5. r.id \in Nat /\ r.id <= m.id /\ m.id \in Nat
  BY <1>3, <1>4 DEF Fronts
<1> QED
  BY <1>3, <1>5

(* A number that some slots have has a slot with the greatest one.          *)
LEMMA NewestOf ==
  ASSUME NEW n \in Nat \ {0}, NEW f \in Fronts(n), NEW T \in SUBSET (0 .. n - 1), T # {}
  PROVE  \E h \in T : \A k \in T : Number(k, f, n) <= Number(h, f, n)
<1> DEFINE Back(k) == f.id - Number(k, f, n)
           B == {Back(k) : k \in T}
<1>1. \A k \in 0 .. n - 1 : Number(k, f, n) \in Int /\ Back(k) \in 0 .. n
  BY DEF Number, Fronts
<1>2. B \in SUBSET (0 .. n) /\ B # {}
  <2> HIDE DEF Back
  <2> QED
    BY <1>1
<1>3. PICK x \in B : \A y \in B : x <= y
  <2> HIDE DEF B
  <2> QED
    BY <1>2, LeastOf
<1>4. PICK h \in T : x = Back(h)
  OBVIOUS
<1>5. \A k \in T : Back(h) <= Back(k)
  BY <1>3, <1>4
<1>6. f.id \in Nat
  BY DEF Fronts
<1>7. ASSUME NEW k \in T PROVE Number(k, f, n) <= Number(h, f, n)
  BY <1>1, <1>5, <1>6
<1> QED
  BY <1>7

(***************************************************************************)
(* The invariant                                                           *)
(***************************************************************************)
Stored(Id, Body) == [kind : {"good"}, id : Id \ {0}, body : Body] \cup {Torn, Blank}

FlashTypeOK ==
  /\ cat \in [0 .. CatSlots - 1 -> Stored(Nat, Fronts(Slots))]
  /\ rec \in [0 .. Slots - 1 -> Stored(Nat, Nat)]
  /\ catMap \in Fronts(CatSlots)
  /\ map \in Fronts(Slots + 1) /\ (pc # "moved" => map.slot < Slots)
  /\ pc \in {"off", "ready", "moved", "wrapped", "program", "verify"}
  /\ job \in [area : Areas, tries : Nat, intact : BOOLEAN]
  /\ pc \in {"program", "verify"} =>
       IF job.area = "catalog" THEN catMap.id # 0 ELSE map.id # 0
  /\ ask \in [index : Nat, page : Nat]
  /\ written \in Nat /\ acked \in Nat /\ blanks \in Nat /\ cut \in BOOLEAN

Laps(n) == {c * n : c \in Nat}

(* A ring of n slots whose newest record has number f.id and is in slot     *)
(* f.slot; the first record went to slot 0, so the last slot is reached     *)
(* with each multiple of n.  The map of a ring, Unused if it has no record, *)
(* and the ring after the next record.                                      *)
Rings(n)     == {f \in Fronts(n) : Number(n - 1, f, n) \in Laps(n)}
MapOf(f)     == IF f.id = 0 THEN Unused ELSE f
NextOf(f, n) == [id |-> f.id + 1, slot |-> IF f.slot = n - 1 THEN 0 ELSE f.slot + 1]

(* The catalog with number c.id is the newest good one; the ones before it  *)
(* are good, the slot after it may be anything.                             *)
CatRing(ring, c) ==
  \A k \in 0 .. CatSlots - 1 : k # NextOf(c, CatSlots).slot =>
    /\ ring[k].kind = "good" => ring[k].id = Number(k, c, CatSlots)
    /\ Number(k, c, CatSlots) >= 1 => ring[k].kind = "good"

(* It is anything but a newer one.                                          *)
NothingNewer(ring, c) ==
  LET next == NextOf(c, CatSlots).slot IN
  ring[next].kind = "good" => ring[next].id = Number(next, c, CatSlots)

(* The map a boot begins its search with.                                   *)
SavedIn(ring, c) == IF c.id = 0 THEN Unused ELSE ring[c.slot].body
Saved(c) == SavedIn(cat, c)

(* The records are in order up to number f.id, which was handed over as the *)
(* one with number last.                                                    *)
InOrder(ring, f, last) ==
  /\ Ordered(ring, f, Slots)
  /\ \A k \in 0 .. Slots - 1 :
       ring[k].kind = "good" => ring[k].body + f.id - ring[k].id <= last
  /\ \A k, l \in 0 .. Slots - 1 :
       ring[k].kind = "good" /\ ring[l].kind = "good" /\ ring[k].id < ring[l].id =>
         ring[k].body < ring[l].body

(* The map s of the catalog is one the records went through; its record is  *)
(* there as long as an older one is.                                        *)
Behind(ring, s, f) ==
  \/ s = Unused
  \/ /\ s \in Rings(Slots) /\ s.id # 0 /\ s.id <= f.id
     /\ Number(s.slot, f, Slots) - s.id \in Laps(Slots)
     /\ (\E k \in 0 .. Slots - 1 : ring[k].kind = "good" /\ ring[k].id < s.id) =>
          ring[s.slot].kind = "good"

(* Erased slots that cost a search from s a turn; slot x is not counted.    *)
Hidden(ring, f, s, x) ==
  {k \in 0 .. Slots - 1 : ring[k].kind = "blank" /\ Number(k, f, Slots) > s.id /\ k # x}

(* No slot: all count.                                                      *)
None == Slots

(* A record that is reported, or a newer one, outside slot x.               *)
Kept(ring, a, w, x) ==
  a > 0 /\ w - a < Slots =>
    \E k \in 0 .. Slots - 1 : k # x /\ ring[k].kind = "good" /\ ring[k].body >= a

(* The map points at a record if there is one.                              *)
Fresh(ring, m) == (\E k \in 0 .. Slots - 1 : ring[k].kind = "good") => ring[m.slot].kind = "good"

(* The console reads the record it asked for, with g the newest in the end. *)
Asked(g) ==
  Span > 1 /\ ask # NoAsk =>
    \/ ask.page % Span # 0 \/ ask.page = Slots * Span
    \/ \E k \in 0 .. Slots - 1 :
         ask.page = k * Span /\ Number(k, g, Slots) = g.id - ask.index

(* The records with f the newest, of which slot x may be in the making.     *)
Records(c, f, last, x) ==
  /\ InOrder(rec, f, last) /\ Behind(rec, Saved(c), f)
  /\ Cardinality(Hidden(rec, f, Saved(c), x)) <= blanks

Off(c, f) ==
  /\ pc = "off" /\ ask = NoAsk
  /\ NothingNewer(cat, c) /\ Records(c, f, written, IF cut THEN f.slot ELSE None)
  /\ Kept(rec, acked, written, None)

Ready(c, f) ==
  /\ pc = "ready" /\ map = MapOf(f) /\ ~cut
  /\ NothingNewer(cat, c) /\ Records(c, f, written, None)
  /\ Kept(rec, acked, written, None) /\ Asked(f)

Moving(c, f) ==
  /\ \/ pc = "moved" /\ map = Moved(MapOf(f))
     \/ pc = "wrapped" /\ map = Wrapped(Moved(MapOf(f)), Slots)
     \/ pc = "program" /\ job.area = "record" /\ map = NextOf(f, Slots)
  /\ written > 0 /\ ~cut
  /\ NothingNewer(cat, c) /\ Records(c, f, written - 1, None)
  /\ Kept(rec, acked, written, None) /\ Asked(NextOf(f, Slots))

Writing(c, f) ==
  /\ (pc = "program" /\ ~job.intact) \/ pc = "verify"
  /\ job.area = "record" /\ map = f /\ Saved(c).id < f.id /\ ~cut
  /\ NothingNewer(cat, c) /\ Records(c, f, written, f.slot)
  /\ Kept(rec, acked, written, f.slot) /\ Asked(f)
  /\ rec[f.slot].kind = "good" => rec[f.slot].body = written

Booting(c, f) ==
  /\ pc \in {"program", "verify"} /\ job.area = "catalog" /\ ask = NoAsk
  /\ catMap = NextOf(c, CatSlots) /\ map = MapOf(f)
  /\ InOrder(rec, f, written) /\ Behind(rec, Saved(c), f) /\ Fresh(rec, map)
  /\ Cardinality(Hidden(rec, f, Saved(c), None)) <= blanks + (IF cut THEN 1 ELSE 0)
  /\ Kept(rec, acked, written, None)
  /\ \/ pc = "program" /\ NothingNewer(cat, c)
     \/ cat[catMap.slot] \in {Good(catMap.id, map), Torn, Blank}

Found(c, f) ==
  /\ CatRing(cat, c)
  /\ Off(c, f) \/ Ready(c, f) \/ Moving(c, f) \/ Writing(c, f) \/ Booting(c, f)

FlashInv ==
  /\ FlashTypeOK /\ acked <= written
  /\ Searchable => \E c \in Rings(CatSlots), f \in Rings(Slots) : Found(c, f)

-----------------------------------------------------------------------------
LEMMA SizesType ==
  /\ CatSlots \in Nat \ {0} /\ CatSlots > 1 /\ Slots \in Nat \ {0} /\ Slots > 1
  /\ Span \in Nat \ {0} /\ Retries \in Nat \ {0} /\ 1 \in Nat \ {0}
BY StorageAssumption

LEMMA UnusedIsFront == ASSUME NEW n \in Nat \ {0} PROVE Unused \in Fronts(n)
BY DEF Unused, Fronts

(* write_record moves the map to the next slot and number.                  *)
LEMMA AdvanceIsNext ==
  ASSUME NEW n \in Nat \ {0}, NEW m \in Fronts(n)
  PROVE  /\ Moved(m) \in Fronts(n + 1) /\ Moved(m).id = m.id
         /\ Wrapped(Moved(m), n) \in Fronts(n) /\ Wrapped(Moved(m), n).id = m.id
         /\ Advance(m, n) \in Fronts(n) /\ Advance(m, n).id = m.id + 1
         /\ Advance(m, n).slot = IF m.id = 0 THEN m.slot ELSE IF m.slot = n - 1 THEN 0
                                 ELSE m.slot + 1
<1>1. m = [id |-> m.id, slot |-> m.slot] /\ m.id \in Nat /\ m.slot \in 0 .. n - 1
  BY DEF Fronts
<1>2. Moved(m) = [id |-> m.id, slot |-> IF m.id = 0 THEN m.slot ELSE m.slot + 1]
  BY <1>1 DEF Moved
<1>3. Wrapped(Moved(m), n)
        = [id |-> m.id, slot |-> IF m.id = 0 THEN m.slot
                                 ELSE IF m.slot = n - 1 THEN 0 ELSE m.slot + 1]
  BY <1>1, <1>2 DEF Wrapped
<1>4. Advance(m, n)
        = [id |-> m.id + 1, slot |-> IF m.id = 0 THEN m.slot
                                     ELSE IF m.slot = n - 1 THEN 0 ELSE m.slot + 1]
  BY <1>1, <1>3 DEF Advance, Counted
<1> QED
  BY <1>1, <1>2, <1>3, <1>4 DEF Fronts

LEMMA StoredTypes ==
  /\ Torn.kind = "torn" /\ Blank.kind = "blank"
  /\ \A Id, Body : \A r \in Stored(Id, Body) :
       r.kind = "good" => r.id \in Id \ {0} /\ r.body \in Body /\ r = Good(r.id, r.body)
  /\ \A Id, Body : \A i \in Id \ {0}, b \in Body :
       /\ Good(i, b) \in Stored(Id, Body) /\ Good(i, b).kind = "good"
       /\ Good(i, b).id = i /\ Good(i, b).body = b
<1>1. Torn.kind = "torn" /\ Blank.kind = "blank"
  BY DEF Torn, Blank
<1>2. ASSUME NEW Id, NEW Body, NEW r \in Stored(Id, Body), r.kind = "good"
      PROVE  r.id \in Id \ {0} /\ r.body \in Body /\ r = Good(r.id, r.body)
  <2>1. r \in [kind : {"good"}, id : Id \ {0}, body : Body]
    BY <1>1, <1>2 DEF Stored
  <2> QED
    BY <2>1 DEF Good
<1>3. ASSUME NEW Id, NEW Body, NEW i \in Id \ {0}, NEW b \in Body
      PROVE  /\ Good(i, b) \in Stored(Id, Body) /\ Good(i, b).kind = "good"
             /\ Good(i, b).id = i /\ Good(i, b).body = b
  BY DEF Stored, Good
<1> QED
  BY <1>1, <1>2, <1>3

LEMMA FlashTypeInit == Init => FlashTypeOK
<1> SUFFICES ASSUME Init PROVE FlashTypeOK
  OBVIOUS
<1>1. cat \in [0 .. CatSlots - 1 -> Stored(Nat, Fronts(Slots))]
  BY DEF Init, Stored
<1>2. rec \in [0 .. Slots - 1 -> Stored(Nat, Nat)]
  BY DEF Init, Stored
<1>3. catMap \in Fronts(CatSlots) /\ map \in Fronts(Slots + 1) /\ map.slot = 0
  BY SizesType, UnusedIsFront DEF Init, Unused, Fronts
<1>4. job \in [area : Areas, tries : Nat, intact : BOOLEAN] /\ ask \in [index : Nat, page : Nat]
  BY SizesType DEF Init, Idle, Areas, NoAsk
<1>5. /\ pc = "off" /\ written \in Nat /\ acked \in Nat /\ blanks \in Nat
      /\ map.slot < Slots
  BY <1>3, SizesType DEF Init
<1>6. cut \in BOOLEAN
  BY Zenon DEF Init
<1> QED
  BY <1>1, <1>2, <1>3, <1>4, <1>5, <1>6, Zenon DEF FlashTypeOK

(* Boot finds maps of the right type.                                       *)
LEMMA BootTypes ==
  ASSUME FlashTypeOK, NEW found, found = ScanFlash(cat, CatSlots, Unused, 1), NEW stored,
         stored = IF found.id = 0 THEN Unused ELSE cat[found.slot].body
  PROVE  /\ found \in Fronts(CatSlots) /\ stored \in Fronts(Slots)
         /\ ScanFlash(rec, Slots, stored, Span) \in Fronts(Slots)
<1>1. /\ \A k \in 0 .. CatSlots - 1 : cat[k] \in Stored(Nat, Fronts(Slots))
      /\ \A k \in 0 .. Slots - 1 : rec[k] \in Stored(Nat, Nat)
  BY DEF FlashTypeOK
<1>2. /\ \A k \in 0 .. CatSlots - 1 : cat[k].kind = "good" =>
           cat[k].id \in Nat /\ cat[k].body \in Fronts(Slots)
      /\ \A k \in 0 .. Slots - 1 : rec[k].kind = "good" => rec[k].id \in Nat
  BY <1>1, StoredTypes
<1>3. /\ found \in Fronts(CatSlots)
      /\ found = Unused \/ cat[found.slot].kind = "good"
  BY <1>2, SizesType, UnusedIsFront, SearchSound
<1>4. stored \in Fronts(Slots)
  <2>1. CASE found.id = 0
    BY <2>1, SizesType, UnusedIsFront
  <2>2. CASE found.id # 0
    <3>1. cat[found.slot].kind = "good" /\ found.slot \in 0 .. CatSlots - 1
      BY <2>2, <1>3 DEF Unused, Fronts
    <3> QED
      BY <2>2, <3>1, <1>2
  <2> QED
    BY <2>1, <2>2
<1> QED
  BY <1>2, <1>3, <1>4, SizesType, SearchSound

(* What a program operation leaves is of the right type.                    *)
LEMMA LeaveTypes ==
  ASSUME FlashTypeOK, NEW r, r \in {Record, Torn, Blank}, Leave(r),
         pc \in {"program", "verify"}
  PROVE  /\ cat' \in [0 .. CatSlots - 1 -> Stored(Nat, Fronts(Slots))]
         /\ rec' \in [0 .. Slots - 1 -> Stored(Nat, Nat)]
<1>1. /\ Torn \in Stored(Nat, Fronts(Slots)) /\ Blank \in Stored(Nat, Fronts(Slots))
      /\ Torn \in Stored(Nat, Nat) /\ Blank \in Stored(Nat, Nat)
  BY DEF Stored
<1>2. CASE job.area = "catalog"
  <2>1. catMap.id \in Nat \ {0} /\ map \in Fronts(Slots)
    BY <1>2, SizesType DEF FlashTypeOK, Fronts
  <2>2. r \in Stored(Nat, Fronts(Slots))
    <3>1. Good(catMap.id, map) \in Stored(Nat, Fronts(Slots))
      BY <2>1, StoredTypes
    <3> QED
      BY <1>1, <1>2, <3>1 DEF Record
  <2> QED
    BY <1>2, <2>2 DEF Leave, FlashTypeOK
<1>3. CASE job.area # "catalog"
  <2>1. map.id \in Nat \ {0} /\ written \in Nat
    BY <1>3 DEF FlashTypeOK, Fronts
  <2>2. r \in Stored(Nat, Nat)
    <3>1. Good(map.id, written) \in Stored(Nat, Nat)
      BY <2>1, StoredTypes
    <3> QED
      BY <1>1, <1>3, <3>1 DEF Record
  <2> QED
    BY <1>3, <2>2 DEF Leave, FlashTypeOK
<1> QED
  BY <1>2, <1>3

LEMMA FlashTypeStep == FlashTypeOK /\ [Next]_vars => FlashTypeOK'
<1> SUFFICES ASSUME FlashTypeOK, [Next]_vars PROVE FlashTypeOK'
  OBVIOUS
<1>c. /\ (IF cut THEN blanks + 1 ELSE blanks) \in Nat /\ blanks + 1 \in Nat /\ 0 \in Nat
      /\ TRUE \in BOOLEAN /\ FALSE \in BOOLEAN
  BY DEF FlashTypeOK
<1>i. /\ Idle \in [area : Areas, tries : Nat, intact : BOOLEAN]
      /\ NoAsk \in [index : Nat, page : Nat]
  BY SizesType DEF Idle, NoAsk, Areas
<1>b. \A area : area \in Areas /\ Begin(area) =>
         job' \in [area : Areas, tries : Nat, intact : BOOLEAN] /\ job'.area = area
  <2> SUFFICES ASSUME NEW area \in Areas, Begin(area)
               PROVE  /\ job' \in [area : Areas, tries : Nat, intact : BOOLEAN]
                      /\ job'.area = area
    OBVIOUS
  <2>1. job' = [area |-> area, tries |-> Retries, intact |-> TRUE]
    BY DEF Begin
  <2>2. Retries \in Nat /\ TRUE \in BOOLEAN
    BY SizesType
  <2> QED
    BY <2>1, <2>2
<1>m. map \in Fronts(Slots + 1) /\ Fronts(Slots) \subseteq Fronts(Slots + 1)
  BY SizesType DEF FlashTypeOK, Fronts
<1>1. CASE Boot
  <2>1. PICK found : found = ScanFlash(cat, CatSlots, Unused, 1)
    OBVIOUS
  <2>2. PICK stored : stored = IF found.id = 0 THEN Unused ELSE cat[found.slot].body
    OBVIOUS
  <2>3. /\ found \in Fronts(CatSlots) /\ ScanFlash(rec, Slots, stored, Span) \in Fronts(Slots)
    BY <2>1, <2>2, BootTypes
  <2>4. /\ catMap' = Advance(found, CatSlots) /\ map' = ScanFlash(rec, Slots, stored, Span)
        /\ Begin("catalog") /\ pc' = "program"
        /\ UNCHANGED <<cat, rec, ask, written, acked, blanks, cut>>
    BY <1>1, <2>1, <2>2 DEF Boot
  <2>5. catMap' \in Fronts(CatSlots) /\ catMap'.id # 0
    BY <2>3, <2>4, SizesType, AdvanceIsNext DEF Fronts
  <2>6. map' \in Fronts(Slots + 1) /\ map'.slot < Slots
    BY <2>3, <2>4, SizesType DEF Fronts
  <2>7. job' \in [area : Areas, tries : Nat, intact : BOOLEAN] /\ job'.area = "catalog"
    BY <2>4, <1>b DEF Areas
  <2>8. pc' = "program" /\ UNCHANGED <<cat, rec, ask, written, acked, blanks, cut>>
    BY <2>4
  <2> QED
    BY <2>5, <2>6, <2>7, <2>8, Zenon DEF FlashTypeOK
<1>2. CASE WriteRecord
  <2>1. map \in Fronts(Slots)
    BY <1>2, <1>m, SizesType DEF FlashTypeOK, WriteRecord, Fronts
  <2>2. Moved(map) \in Fronts(Slots + 1)
    BY <2>1, SizesType, AdvanceIsNext
  <2>3. written + 1 \in Nat
    BY DEF FlashTypeOK
  <2> QED
    BY <1>2, <2>2, <2>3 DEF FlashTypeOK, WriteRecord
<1>3. CASE Wrap
  <2>1. Wrapped(map, Slots) \in Fronts(Slots)
    BY <1>m, SizesType DEF Wrapped, Fronts
  <2>2. map' \in Fronts(Slots + 1) /\ map'.slot < Slots
    BY <1>3, <2>1, SizesType DEF Wrap, Fronts
  <2> QED
    BY <1>3, <2>2 DEF FlashTypeOK, Wrap
<1>4. CASE Count
  <2>1. map.slot < Slots
    BY <1>4 DEF FlashTypeOK, Count
  <2>2. map' \in Fronts(Slots + 1) /\ map'.slot < Slots /\ map'.id # 0
    BY <1>4, <1>m, <2>1, SizesType DEF Count, Counted, Fronts
  <2>3. job' \in [area : Areas, tries : Nat, intact : BOOLEAN] /\ job'.area = "record"
    BY <1>4, <1>b DEF Count, Areas
  <2>4. /\ pc' = "program" /\ UNCHANGED <<cat, rec, catMap, ask, written, acked, blanks, cut>>
    BY <1>4 DEF Count
  <2> QED
    BY <2>2, <2>3, <2>4 DEF FlashTypeOK
<1>5. CASE Program
  <2>1. PICK r \in {Record, Torn, Blank} : Leave(r)
    BY <1>5 DEF Program
  <2>2. pc = "program" /\ pc' = "verify"
    BY <1>5 DEF Program
  <2>3. /\ cat' \in [0 .. CatSlots - 1 -> Stored(Nat, Fronts(Slots))]
        /\ rec' \in [0 .. Slots - 1 -> Stored(Nat, Nat)]
    BY <2>1, <2>2, LeaveTypes
  <2> QED
    BY <1>5, <2>3, <2>2 DEF FlashTypeOK, Program
<1>6. CASE VerifyGood
  <2>1. /\ acked' \in Nat /\ blanks' \in Nat /\ cut' \in BOOLEAN
    <3>1. CASE job.area = "record"
      BY <1>6, <3>1 DEF FlashTypeOK, VerifyGood
    <3>2. CASE job.area # "record"
      <4>1. acked' = acked
        BY <1>6, <3>2 DEF VerifyGood, CountedCut
      <4>2. cut' = FALSE
        BY <1>6, <3>2 DEF VerifyGood, CountedCut
      <4>3. blanks' = 0 \/ blanks' = IF cut THEN blanks + 1 ELSE blanks
        BY <1>6, <3>2, Zenon DEF VerifyGood, CountedCut
      <4>4. cut' \in BOOLEAN
        BY <4>2
      <4> QED
        BY <4>1, <4>3, <4>4, <1>c DEF FlashTypeOK
    <3> QED
      BY <3>1, <3>2
  <2>2. /\ pc = "verify" /\ pc' = "ready" /\ job' = Idle
        /\ UNCHANGED <<cat, rec, catMap, map, ask, written>>
    BY <1>6 DEF VerifyGood
  <2> QED
    BY <2>1, <2>2, <1>i, Zenon DEF FlashTypeOK
<1>7. CASE VerifyBad
  <2>1. job' = [job EXCEPT !.tries = @ - 1, !.intact = FALSE] /\ job.tries > 1
    BY <1>7 DEF VerifyBad
  <2>2. job' \in [area : Areas, tries : Nat, intact : BOOLEAN] /\ job'.area = job.area
    <3>1. job = [area |-> job.area, tries |-> job.tries, intact |-> job.intact]
          /\ job.area \in Areas /\ job.tries \in Nat
      BY DEF FlashTypeOK
    <3>2. job' = [area |-> job.area, tries |-> job.tries - 1, intact |-> FALSE]
      BY <2>1, <3>1
    <3>3. job.tries - 1 \in Nat /\ FALSE \in BOOLEAN
      BY <2>1, <3>1
    <3> QED
      BY <3>1, <3>2, <3>3
  <2>3. /\ pc = "verify" /\ pc' = "program"
        /\ UNCHANGED <<cat, rec, catMap, map, ask, written, acked, blanks, cut>>
    BY <1>7 DEF VerifyBad
  <2> QED
    BY <2>2, <2>3, Zenon DEF FlashTypeOK
<1>8. CASE GiveUp
  <2>1. blanks' \in Nat /\ cut' \in BOOLEAN
    <3>1. CASE job.area = "catalog"
      <4>1. cut' \in BOOLEAN
        BY <1>8, <3>1 DEF GiveUp, CountedCut
      <4>2. blanks' \in Nat
        BY <1>8, <3>1, <1>c DEF GiveUp, CountedCut
      <4> QED
        BY <4>1, <4>2
    <3>2. CASE job.area # "catalog"
      BY <1>8, <3>2, <1>c DEF GiveUp, FlashTypeOK
    <3> QED
      BY <3>1, <3>2
  <2>2. /\ pc = "verify" /\ pc' = "ready" /\ job' = Idle
        /\ UNCHANGED <<cat, rec, catMap, map, ask, written, acked>>
    BY <1>8 DEF GiveUp
  <2> QED
    BY <2>1, <2>2, <1>i, Zenon DEF FlashTypeOK
<1>9. CASE ReadBegin
  <2>1. PICK n \in 0 .. Slots - 1 : Served(n) /\ ask' = [index |-> n, page |-> PageOf(n)]
    BY <1>9 DEF ReadBegin
  <2>2. PageOf(n) \in Nat
    <3>1. PICK back : back = n * Span
      OBVIOUS
    <3>2. PICK page : page = map.slot * Span
      OBVIOUS
    <3>3. PICK all : all = Slots * Span
      OBVIOUS
    <3>4. back \in Nat /\ page \in Nat /\ all \in Nat
      BY <3>1, <3>2, <3>3, <1>m, SizesType DEF Fronts
    <3>5. n \in Nat /\ n <= Slots - 1 /\ Slots \in Nat /\ Span \in Nat \ {0}
      BY SizesType
    <3>6. back + Span <= all
      <4>1. (n + 1) * Span <= Slots * Span
        BY <3>5
      <4>2. (n + 1) * Span = n * Span + Span
        BY <3>5
      <4> QED
        BY <4>1, <4>2, <3>1, <3>3
    <3>7. PageOf(n) = IF back <= page THEN page - back ELSE page + (all - 1) - back
      BY <3>1, <3>2, <3>3 DEF PageOf
    <3> QED
      BY <3>4, <3>5, <3>6, <3>7
  <2>3. ask' \in [index : Nat, page : Nat]
    BY <2>1, <2>2
  <2>4. UNCHANGED <<cat, rec, catMap, map, pc, job, written, acked, blanks, cut>>
    BY <1>9 DEF ReadBegin
  <2> QED
    BY <2>3, <2>4, Zenon DEF FlashTypeOK
<1>10. CASE ReadEnd
  <2>1. /\ ask' = NoAsk
        /\ UNCHANGED <<cat, rec, catMap, map, pc, job, written, acked, blanks, cut>>
    BY <1>10 DEF ReadEnd
  <2> QED
    BY <2>1, <1>i, Zenon DEF FlashTypeOK
<1>11. CASE Crash
  <2>1. /\ cat' \in [0 .. CatSlots - 1 -> Stored(Nat, Fronts(Slots))]
        /\ rec' \in [0 .. Slots - 1 -> Stored(Nat, Nat)]
    <3>1. CASE UNCHANGED <<cat, rec>>
      BY <3>1 DEF FlashTypeOK
    <3>2. ASSUME pc = "program", NEW r \in {Torn, Blank}, Leave(r)
          PROVE  /\ cat' \in [0 .. CatSlots - 1 -> Stored(Nat, Fronts(Slots))]
                 /\ rec' \in [0 .. Slots - 1 -> Stored(Nat, Nat)]
      BY <3>2, LeaveTypes
    <3> QED
      BY <1>11, <3>1, <3>2 DEF Crash
  <2>2. blanks' \in Nat /\ cut' \in BOOLEAN
    <3>1. CASE pc \notin {"program", "verify"}
      BY <1>11, <3>1, Zenon DEF Crash, FlashTypeOK
    <3>2. CASE pc \in {"program", "verify"} /\ job.area = "catalog"
      <4>1. CountedCut
        BY <1>11, <3>2, Zenon DEF Crash
      <4>2. cut' \in BOOLEAN
        BY <4>1 DEF CountedCut
      <4>3. blanks' \in Nat
        BY <4>1, <1>c DEF CountedCut
      <4> QED
        BY <4>2, <4>3
    <3>3. CASE pc \in {"program", "verify"} /\ job.area # "catalog"
      <4>1. cut' = (rec'[map.slot].kind = "blank") /\ UNCHANGED blanks
        BY <1>11, <3>3, Zenon DEF Crash
      <4>2. cut' \in BOOLEAN
        BY <4>1, Zenon
      <4> QED
        BY <4>1, <4>2 DEF FlashTypeOK
    <3> QED
      BY <3>1, <3>2, <3>3
  <2>3. /\ pc' = "off" /\ job' = Idle /\ map' = Unused /\ catMap' = Unused /\ ask' = NoAsk
        /\ UNCHANGED <<written, acked>>
    BY <1>11 DEF Crash
  <2>4. Unused \in Fronts(CatSlots) /\ Unused \in Fronts(Slots + 1) /\ Unused.slot < Slots
    BY SizesType DEF Unused, Fronts
  <2> QED
    BY <2>1, <2>2, <2>3, <2>4, <1>i DEF FlashTypeOK
<1>12. CASE UNCHANGED vars
  <2>1. UNCHANGED cat /\ UNCHANGED rec /\ UNCHANGED catMap /\ UNCHANGED map /\ UNCHANGED pc
        /\ UNCHANGED job /\ UNCHANGED ask /\ UNCHANGED written /\ UNCHANGED acked
        /\ UNCHANGED blanks /\ UNCHANGED cut
    BY <1>12 DEF vars
  <2> QED
    BY <2>1, Zenon DEF FlashTypeOK
<1> QED
  BY <1>1, <1>2, <1>3, <1>4, <1>5, <1>6, <1>7, <1>8, <1>9, <1>10, <1>11, <1>12 DEF Next

(* The types hold in every state.                                           *)
THEOREM FlashTypeCorrect == Spec => []FlashTypeOK
BY FlashTypeInit, FlashTypeStep, PTL DEF Spec

(* As far as the ring has not wrapped, every index reads the record written *)
(* that many records before the newest.                                     *)
THEOREM ReadsAreWithinLap == Spec => []ReadsWithinLap
<1>1. ASSUME FlashTypeOK PROVE ReadsWithinLap
  <2> SUFFICES ASSUME pc = "ready", NEW n \in 0 .. Slots - 2, n <= map.slot, n < map.id,
                      rec[map.slot - n].kind = "good"
               PROVE  ReadRecord(n) = rec[map.slot - n]
    BY DEF ReadsWithinLap
  <2>1. map.slot \in 0 .. Slots - 1 /\ map.id \in Nat
    BY <1>1, SizesType DEF FlashTypeOK, Fronts
  <2>2. PICK k \in Nat : k = map.slot - n /\ k < Slots
    BY <2>1, SizesType
  <2>3. n < (Slots * Span - 1) \div Span
    <3>1. (n + 1) * Span <= Slots * Span - 1
      <4>1. n + 1 \in Nat /\ n + 2 <= Slots /\ Slots \in Nat /\ Span \in Nat \ {0}
        BY SizesType
      <4>2. (n + 2) * Span <= Slots * Span
        BY <4>1
      <4>3. (n + 2) * Span = (n + 1) * Span + Span
        BY <4>1
      <4>4. (n + 1) * Span \in Nat /\ Slots * Span \in Nat
        BY <4>1
      <4> QED
        BY <4>1, <4>2, <4>3, <4>4
    <3> QED
      BY <3>1, SizesType
  <2>4. PageOf(n) = k * Span /\ (k * Span) % Span = 0 /\ (k * Span) \div Span = k
        /\ k * Span # Slots * Span
    <3>1. n * Span <= map.slot * Span
      BY <2>1, SizesType
    <3>2. map.slot * Span - n * Span = k * Span
      BY <2>1, <2>2, SizesType
    <3>3. (k * Span) % Span = 0 /\ (k * Span) \div Span = k
      BY <2>2, SizesType
    <3>4. k * Span # Slots * Span
      BY <2>2, SizesType
    <3> QED
      BY <3>1, <3>2, <3>3, <3>4 DEF PageOf
  <2>5. Served(n)
    BY <2>3 DEF Served
  <2> QED
    BY <2>2, <2>4, <2>5 DEF ReadRecord, ReadPage
<1> QED
  BY <1>1, FlashTypeCorrect, PTL

(***************************************************************************)
(* Rings and the numbers of their slots                                    *)
(***************************************************************************)
LEMMA LapsFacts ==
  ASSUME NEW n \in Nat \ {0}, NEW x \in Laps(n)
  PROVE  x \in Nat /\ x + n \in Laps(n) /\ (x > 0 => x >= n /\ x - n \in Laps(n))
<1>1. PICK c \in Nat : x = c * n
  BY DEF Laps
<1>2. (c + 1) * n = c * n + n /\ c + 1 \in Nat /\ c * n \in Nat
  OBVIOUS
<1>3. x + n \in Laps(n)
  BY <1>1, <1>2 DEF Laps
<1>4. ASSUME x > 0 PROVE x >= n /\ x - n \in Laps(n)
  <2>1. c # 0
    BY <1>1, <1>4
  <2>2. c - 1 \in Nat /\ (c - 1) * n = c * n - n /\ (c - 1) * n \in Nat
    BY <2>1
  <2> QED
    BY <1>1, <1>2, <2>2 DEF Laps
<1> QED
  BY <1>1, <1>2, <1>3, <1>4

LEMMA ZeroLaps == ASSUME NEW n \in Nat \ {0} PROVE 0 \in Laps(n)
<1>1. 0 = 0 * n
  OBVIOUS
<1> QED
  BY <1>1 DEF Laps

LEMMA NumberFacts ==
  ASSUME NEW n \in Nat \ {0}, NEW f \in Fronts(n)
  PROVE  /\ f.id \in Nat /\ f.slot \in 0 .. n - 1 /\ f = [id |-> f.id, slot |-> f.slot]
         /\ Number(f.slot, f, n) = f.id
         /\ \A k \in 0 .. n - 1 :
              Number(k, f, n) \in Int /\ f.id - n < Number(k, f, n) /\ Number(k, f, n) <= f.id
         /\ \A k, l \in 0 .. n - 1 : Number(k, f, n) = Number(l, f, n) => k = l
BY DEF Fronts, Number

LEMMA RingsFacts ==
  ASSUME NEW n \in Nat \ {0}, NEW f \in Rings(n)
  PROVE  f \in Fronts(n) /\ (f.id = 0 => f.slot = n - 1) /\ MapOf(f) \in Fronts(n)
         /\ MapOf(f).id = f.id
<1>1. f \in Fronts(n) /\ Number(n - 1, f, n) \in Nat
  BY LapsFacts DEF Rings
<1>2. f.id = 0 => f.slot = n - 1
  BY <1>1 DEF Number, Fronts
<1> QED
  BY <1>1, <1>2, UnusedIsFront DEF MapOf, Unused

(* The next record takes the place of the one n before it.                  *)
LEMMA NextFacts ==
  ASSUME NEW n \in Nat \ {0}, n > 1, NEW f \in Rings(n), NEW g, g = NextOf(f, n)
  PROVE  /\ g \in Rings(n) /\ g.id = f.id + 1 /\ g.slot # f.slot
         /\ Number(g.slot, f, n) = g.id - n
         /\ \A k \in 0 .. n - 1 :
              Number(k, g, n) = IF k = g.slot THEN g.id ELSE Number(k, f, n)
         /\ MapOf(g) = g
<1>1. f \in Fronts(n) /\ f.id \in Nat /\ f.slot \in 0 .. n - 1
  BY RingsFacts, NumberFacts
<1>2. /\ g = [id |-> f.id + 1, slot |-> IF f.slot = n - 1 THEN 0 ELSE f.slot + 1]
      /\ g \in Fronts(n) /\ g.id = f.id + 1 /\ g.slot # f.slot
  BY <1>1 DEF NextOf, Fronts
<1>3. Number(g.slot, f, n) = g.id - n
  BY <1>1, <1>2 DEF Number
<1>4. \A k \in 0 .. n - 1 : Number(k, g, n) = IF k = g.slot THEN g.id ELSE Number(k, f, n)
  BY <1>1, <1>2 DEF Number
<1>5. Number(n - 1, g, n) \in Laps(n)
  <2>1. Number(n - 1, f, n) \in Laps(n)
    BY DEF Rings
  <2>2. Number(n - 1, g, n) \in {Number(n - 1, f, n), Number(n - 1, f, n) + n}
    BY <1>1, <1>2, <1>3, <1>4
  <2> QED
    BY <2>1, <2>2, LapsFacts
<1> QED
  BY <1>1, <1>2, <1>3, <1>4, <1>5 DEF Rings, MapOf

(* So does write_record, for the map of the ring.                           *)
LEMMA MapMovesOn ==
  ASSUME NEW n \in Nat \ {0}, n > 1, NEW f \in Rings(n), NEW g, g = NextOf(f, n)
  PROVE  /\ Advance(MapOf(f), n) = g
         /\ Moved(MapOf(f)).id = f.id /\ Wrapped(Moved(MapOf(f)), n).id = f.id
         /\ f.id # 0 => /\ Moved(MapOf(f)).slot = f.slot + 1
                        /\ Wrapped(Moved(MapOf(f)), n).slot = g.slot
<1>1. /\ f \in Fronts(n) /\ f.id \in Nat /\ f.slot \in 0 .. n - 1
      /\ (f.id = 0 => f.slot = n - 1) /\ f = [id |-> f.id, slot |-> f.slot]
  BY RingsFacts, NumberFacts
<1>2. CASE f.id = 0
  <2>1. MapOf(f) = [id |-> 0, slot |-> 0] /\ g = [id |-> 1, slot |-> 0]
    BY <1>1, <1>2 DEF MapOf, Unused, NextOf
  <2>2. Moved(MapOf(f)) = [id |-> 0, slot |-> 0]
    BY <2>1 DEF Moved
  <2>3. Wrapped(Moved(MapOf(f)), n) = [id |-> 0, slot |-> 0]
    BY <2>2 DEF Wrapped
  <2>4. Advance(MapOf(f), n) = [id |-> 1, slot |-> 0]
    BY <2>3 DEF Advance, Counted
  <2> QED
    BY <1>2, <2>1, <2>2, <2>3, <2>4
<1>3. CASE f.id # 0
  <2>1. MapOf(f) = [id |-> f.id, slot |-> f.slot]
    BY <1>1, <1>3 DEF MapOf
  <2>2. Moved(MapOf(f)) = [id |-> f.id, slot |-> f.slot + 1]
    BY <2>1, <1>3 DEF Moved
  <2>3. g = [id |-> f.id + 1, slot |-> IF f.slot = n - 1 THEN 0 ELSE f.slot + 1]
    BY DEF NextOf
  <2>4. Wrapped(Moved(MapOf(f)), n) = [id |-> f.id, slot |-> g.slot]
    BY <1>1, <2>2, <2>3 DEF Wrapped
  <2>5. Advance(MapOf(f), n) = [id |-> f.id + 1, slot |-> g.slot]
    BY <1>1, <2>4 DEF Advance, Counted
  <2> QED
    BY <1>3, <2>2, <2>3, <2>4, <2>5
<1> QED
  BY <1>2, <1>3

(* A ring that is shortened to the record in slot h.                        *)
LEMMA BackFacts ==
  ASSUME NEW n \in Nat \ {0}, NEW f \in Rings(n), NEW h \in 0 .. n - 1,
         Number(h, f, n) >= 1, NEW g, g = [id |-> Number(h, f, n), slot |-> h]
  PROVE  /\ g \in Rings(n) /\ g.id <= f.id /\ MapOf(g) = g
         /\ \A k \in 0 .. n - 1 :
              Number(k, g, n) = IF Number(k, f, n) <= g.id THEN Number(k, f, n)
                                ELSE Number(k, f, n) - n
<1>1. f \in Fronts(n) /\ f.id \in Nat /\ f.slot \in 0 .. n - 1
  BY RingsFacts, NumberFacts
<1>2. /\ Number(h, f, n) \in Nat /\ Number(h, f, n) <= f.id
      /\ g \in Fronts(n) /\ g.id = Number(h, f, n) /\ g.slot = h
  <2>1. Number(h, f, n) \in Nat /\ Number(h, f, n) <= f.id
    BY <1>1 DEF Number
  <2> QED
    BY <2>1 DEF Fronts
<1>3. ASSUME NEW k \in 0 .. n - 1
      PROVE  Number(k, g, n) = IF Number(k, f, n) <= g.id THEN Number(k, f, n)
                               ELSE Number(k, f, n) - n
  <2>1. Number(h, f, n) = IF h <= f.slot THEN f.id - (f.slot - h) ELSE f.id - (f.slot - h) - n
    BY DEF Number
  <2>2. Number(k, f, n) = IF k <= f.slot THEN f.id - (f.slot - k) ELSE f.id - (f.slot - k) - n
    BY DEF Number
  <2>3. Number(k, g, n) = IF k <= h THEN g.id - (h - k) ELSE g.id - (h - k) - n
    BY <1>2 DEF Number
  <2> QED
    BY <1>1, <1>2, <2>1, <2>2, <2>3
<1>4. Number(n - 1, g, n) \in Laps(n)
  <2>1. Number(n - 1, f, n) \in Laps(n) /\ n - 1 \in 0 .. n - 1
    BY DEF Rings
  <2>2. Number(n - 1, f, n) \in Nat
    BY <2>1, LapsFacts
  <2>3. Number(n - 1, f, n) > g.id => Number(n - 1, f, n) > 0
    BY <1>2, <2>2
  <2> QED
    BY <1>2, <1>3, <2>1, <2>2, <2>3, LapsFacts
<1> QED
  BY <1>2, <1>3, <1>4 DEF Rings, MapOf

(***************************************************************************)
(* The catalogs                                                            *)
(***************************************************************************)
Catalogs == [0 .. CatSlots - 1 -> Stored(Nat, Fronts(Slots))]
Ring     == [0 .. Slots - 1 -> Stored(Nat, Nat)]

(* A boot finds the newest catalog.                                         *)
LEMMA CatalogFound ==
  ASSUME NEW ring \in Catalogs, NEW c \in Rings(CatSlots),
         CatRing(ring, c), NothingNewer(ring, c)
  PROVE  ScanFlash(ring, CatSlots, Unused, 1) = MapOf(c)
<1>n. PICK n \in Nat \ {0} : n = CatSlots /\ n > 1
  BY SizesType
<1>1. c \in Fronts(n) /\ c.id \in Nat /\ c.slot \in 0 .. n - 1 /\ (c.id = 0 => c.slot = n - 1)
      /\ c = [id |-> c.id, slot |-> c.slot]
  BY <1>n, RingsFacts, NumberFacts
<1>u. Unused \in Fronts(n) /\ Unused.id = 0 /\ Unused.slot = 0
  BY UnusedIsFront DEF Unused
<1>2. Ordered(ring, c, n)
  <2>1. ASSUME NEW k \in 0 .. n - 1, ring[k].kind = "good"
        PROVE  ring[k].id \in Nat \ {0} /\ ring[k].id = Number(k, c, n)
    <3>1. ring[k] \in Stored(Nat, Fronts(Slots))
      BY <1>n DEF Catalogs
    <3>2. ring[k].id \in Nat \ {0}
      BY <2>1, <3>1, StoredTypes
    <3> QED
      BY <1>n, <2>1, <3>2 DEF CatRing, NothingNewer
  <2> QED
    BY <2>1 DEF Ordered
<1>3. CASE c.id = 0
  <2>1. ASSUME NEW k \in 0 .. n - 1, ring[k].kind = "good" PROVE FALSE
    <3>1. Number(k, c, n) <= 0
      BY <1>1, <1>3 DEF Number
    <3> QED
      BY <1>2, <2>1, <3>1 DEF Ordered
  <2>2. ScanFlash(ring, n, Unused, 1) = Unused
    BY <1>u, <2>1, SizesType, SearchStays
  <2> QED
    BY <1>n, <1>3, <2>2 DEF MapOf
<1>4. CASE c.id # 0
  <2>1. PICK h \in 0 .. n - 1 : h = c.slot
    BY <1>1
  <2>2. Number(h, c, n) = c.id /\ c.id > 0
    BY <1>1, <1>4, <2>1, NumberFacts
  <2>3. NextOf(c, n).slot # h
    BY <1>n, <2>1, NextFacts
  <2>4. ring[h].kind = "good"
    <3>1. Number(h, c, n) >= 1
      BY <1>1, <2>2
    <3> QED
      BY <1>n, <3>1, <2>3 DEF CatRing
  <2>5. Costly(ring, Unused, c, n, h) \subseteq {NextOf(c, n).slot}
    <3> SUFFICES ASSUME NEW k \in 0 .. n - 1, TurnAt(k, 0, n) < TurnAt(h, 0, n),
                        ring[k].kind = "blank"
                          \/ (ring[k].kind = "good" /\ Number(k, c, n) <= 0),
                        k # NextOf(c, n).slot
                 PROVE  FALSE
      BY <1>u DEF Costly
    <3>1. k < h
      BY DEF TurnAt
    <3>2. Number(k, c, n) >= 1
      <4>1. Number(n - 1, c, n) \in Nat
        BY <1>n, LapsFacts DEF Rings
      <4>2. CASE h < n - 1
        BY <1>1, <2>1, <3>1, <4>1, <4>2 DEF Number
      <4>3. CASE h = n - 1
        <5>1. c.id >= n
          <6>1. Number(n - 1, c, n) \in Laps(n) /\ Number(n - 1, c, n) = c.id
            BY <1>n, <2>1, <2>2, <4>3 DEF Rings
          <6> QED
            BY <6>1, <2>2, LapsFacts
        <5> QED
          BY <1>1, <2>1, <3>1, <4>3, <5>1 DEF Number
      <4> QED
        BY <4>2, <4>3
    <3>3. ring[k].kind = "good"
      BY <1>n, <3>2 DEF CatRing
    <3>4. Number(k, c, n) \in Int
      BY <1>1, NumberFacts
    <3> QED
      BY <3>2, <3>3, <3>4
  <2>6. IsFiniteSet({NextOf(c, n).slot}) /\ Cardinality({NextOf(c, n).slot}) = 1
    BY FS_Singleton
  <2>7. \A k \in 0 .. n - 1 : ring[k].kind = "good" => Number(k, c, n) <= Number(h, c, n)
    BY <1>1, <2>2, NumberFacts
  <2>8. 1 \in Nat \ {0} /\ 1 < Forward(1)
    BY ForwardType
  <2>9. Number(h, c, n) > Unused.id
    BY <2>2, <1>u
  <2>10. Cardinality({NextOf(c, n).slot}) < Forward(1)
    BY <2>6, <2>8
  <2>11. ScanFlash(ring, n, Unused, 1) = [id |-> Number(h, c, n), slot |-> h]
    BY <1>u, <1>1, <2>8, <1>2, <2>4, <2>9, <2>7, <2>6, <2>5, <2>10, SearchFinds
  <2> QED
    BY <1>n, <1>1, <1>4, <2>1, <2>2, <2>11 DEF MapOf
<1> QED
  BY <1>3, <1>4

LEMMA SavedFacts ==
  ASSUME NEW ring \in Catalogs, NEW c \in Rings(CatSlots), CatRing(ring, c)
  PROVE  /\ SavedIn(ring, c) \in Fronts(Slots)
         /\ c.slot \in 0 .. CatSlots - 1 /\ c.slot # NextOf(c, CatSlots).slot
<1>1. c \in Fronts(CatSlots) /\ c.id \in Nat /\ c.slot \in 0 .. CatSlots - 1
      /\ Number(c.slot, c, CatSlots) = c.id
  BY SizesType, RingsFacts, NumberFacts
<1>2. c.slot # NextOf(c, CatSlots).slot
  BY SizesType, NextFacts
<1>3. CASE c.id = 0
  BY <1>1, <1>2, <1>3, SizesType, UnusedIsFront DEF SavedIn
<1>4. CASE c.id # 0
  <2>1. ring[c.slot].kind = "good"
    BY <1>1, <1>2, <1>4 DEF CatRing
  <2>2. ring[c.slot] \in Stored(Nat, Fronts(Slots))
    BY <1>1 DEF Catalogs
  <2> QED
    BY <1>1, <1>2, <1>4, <2>1, <2>2, StoredTypes DEF SavedIn
<1> QED
  BY <1>3, <1>4

(* Whatever becomes of the slot after it, the newest catalog stays.         *)
LEMMA CatalogStays ==
  ASSUME NEW c \in Rings(CatSlots), NEW ring \in Catalogs, CatRing(ring, c), NEW then,
         \A k \in 0 .. CatSlots - 1 : k # NextOf(c, CatSlots).slot => then[k] = ring[k]
  PROVE  CatRing(then, c) /\ SavedIn(then, c) = SavedIn(ring, c)
<1>1. c.slot \in 0 .. CatSlots - 1 /\ c.slot # NextOf(c, CatSlots).slot
  BY SavedFacts
<1>2. CatRing(then, c)
  BY DEF CatRing
<1>3. SavedIn(then, c) = SavedIn(ring, c)
  BY <1>1 DEF SavedIn
<1> QED
  BY <1>2, <1>3

(* The catalog written after it is the newest.                              *)
LEMMA CatalogSaved ==
  ASSUME NEW c \in Rings(CatSlots), NEW ring, CatRing(ring, c),
         NEW d, d = NextOf(c, CatSlots), NEW body, ring[d.slot] = Good(d.id, body)
  PROVE  d \in Rings(CatSlots) /\ CatRing(ring, d) /\ NothingNewer(ring, d)
         /\ SavedIn(ring, d) = body
<1>1. /\ d \in Rings(CatSlots) /\ d.id = c.id + 1
      /\ \A k \in 0 .. CatSlots - 1 :
           Number(k, d, CatSlots) = IF k = d.slot THEN d.id ELSE Number(k, c, CatSlots)
  BY SizesType, NextFacts
<1>2. c.id \in Nat /\ d.id # 0
  BY <1>1, SizesType, RingsFacts, NumberFacts
<1>3. ring[d.slot].kind = "good" /\ ring[d.slot].id = d.id /\ ring[d.slot].body = body
  BY DEF Good
<1>4. ASSUME NEW k \in 0 .. CatSlots - 1
      PROVE  /\ ring[k].kind = "good" => ring[k].id = Number(k, d, CatSlots)
             /\ Number(k, d, CatSlots) >= 1 => ring[k].kind = "good"
  BY <1>1, <1>3 DEF CatRing
<1>5. NextOf(d, CatSlots).slot \in 0 .. CatSlots - 1
  <2>1. NextOf(d, CatSlots) \in Rings(CatSlots)
    BY <1>1, SizesType, NextFacts
  <2> QED
    BY <2>1, SizesType, RingsFacts, NumberFacts
<1>6. CatRing(ring, d) /\ NothingNewer(ring, d)
  BY <1>4, <1>5 DEF CatRing, NothingNewer
<1> QED
  BY <1>1, <1>2, <1>3, <1>6 DEF SavedIn

(***************************************************************************)
(* The records                                                             *)
(***************************************************************************)
LEMMA RingTypes ==
  ASSUME NEW ring \in Ring, NEW k \in 0 .. Slots - 1, ring[k].kind = "good"
  PROVE  ring[k].id \in Nat \ {0} /\ ring[k].body \in Nat
<1>1. ring[k] \in Stored(Nat, Nat)
  BY DEF Ring
<1> QED
  BY <1>1, StoredTypes

LEMMA HiddenFacts ==
  ASSUME NEW ring, NEW f, NEW s, NEW x
  PROVE  IsFiniteSet(Hidden(ring, f, s, x)) /\ Cardinality(Hidden(ring, f, s, x)) \in Nat
<1>1. IsFiniteSet(0 .. Slots - 1)
  BY SizesType, FS_Interval
<1>2. Hidden(ring, f, s, x) \in SUBSET (0 .. Slots - 1)
  BY DEF Hidden
<1> QED
  BY <1>1, <1>2, FS_Subset, FS_CardinalityType

(* Fewer slots cost no more turns, one more slot at most one more.          *)
LEMMA HiddenGrows ==
  ASSUME NEW ring, NEW f, NEW s, NEW x, NEW b \in Nat,
         Cardinality(Hidden(ring, f, s, x)) <= b, NEW T
  PROVE  /\ T \subseteq Hidden(ring, f, s, x) =>
              IsFiniteSet(T) /\ Cardinality(T) \in Nat /\ Cardinality(T) <= b
         /\ \A y : T \subseteq Hidden(ring, f, s, x) \cup {y} =>
              IsFiniteSet(T) /\ Cardinality(T) \in Nat /\ Cardinality(T) <= b + 1
<1> DEFINE H == Hidden(ring, f, s, x)
<1>1. IsFiniteSet(H) /\ Cardinality(H) \in Nat
  BY HiddenFacts
<1>2. ASSUME T \subseteq H
      PROVE  IsFiniteSet(T) /\ Cardinality(T) \in Nat /\ Cardinality(T) <= b
  <2>1. IsFiniteSet(T) /\ Cardinality(T) <= Cardinality(H)
    BY <1>1, <1>2, FS_Subset
  <2>2. Cardinality(T) \in Nat
    BY <2>1, FS_CardinalityType
  <2> QED
    BY <1>1, <2>1, <2>2
<1>3. ASSUME NEW y, T \subseteq H \cup {y}
      PROVE  IsFiniteSet(T) /\ Cardinality(T) \in Nat /\ Cardinality(T) <= b + 1
  <2>1. /\ IsFiniteSet(H \cup {y})
        /\ Cardinality(H \cup {y}) = IF y \in H THEN Cardinality(H) ELSE Cardinality(H) + 1
    <3> HIDE DEF H
    <3> QED
      BY <1>1, FS_AddElement
  <2>2. IsFiniteSet(T) /\ Cardinality(T) <= Cardinality(H \cup {y})
    BY <1>3, <2>1, FS_Subset
  <2>3. Cardinality(T) \in Nat
    BY <2>2, FS_CardinalityType
  <2> QED
    BY <1>1, <2>1, <2>2, <2>3
<1> QED
  BY <1>2, <1>3

(* What write_record leaves in the slot after the newest record: the record *)
(* after it, or none.                                                       *)
LEMMA RecordAdded ==
  ASSUME NEW f \in Rings(Slots), NEW s \in Fronts(Slots), NEW ring \in Ring,
         NEW w \in Nat, w > 0, NEW a \in Nat, a <= w,
         InOrder(ring, f, w - 1), Behind(ring, s, f), Kept(ring, a, w, None),
         NEW g, g = NextOf(f, Slots), NEW then \in Ring,
         \A k \in 0 .. Slots - 1 : k # g.slot => then[k] = ring[k],
         then[g.slot].kind = "good" => then[g.slot].id = g.id /\ then[g.slot].body = w
  PROVE  /\ InOrder(then, g, w) /\ Behind(then, s, g) /\ Kept(then, a, w, g.slot)
         /\ Hidden(then, g, s, g.slot) \subseteq Hidden(ring, f, s, None) /\ s.id < g.id
<1>n. PICK n \in Nat \ {0} : n = Slots /\ n > 1
  BY SizesType
<1>1. /\ g \in Rings(n) /\ g.id = f.id + 1 /\ Number(g.slot, f, n) = g.id - n
      /\ \A k \in 0 .. n - 1 : Number(k, g, n) = IF k = g.slot THEN g.id ELSE Number(k, f, n)
  BY <1>n, NextFacts
<1>2. /\ f.id \in Nat /\ g.id \in Nat /\ g.slot \in 0 .. n - 1
      /\ \A k \in 0 .. n - 1 : Number(k, f, n) \in Int /\ f.id - n < Number(k, f, n)
      /\ \A k \in 0 .. n - 1 : Number(k, f, n) <= f.id
  BY <1>n, <1>1, RingsFacts, NumberFacts
<1>3. \A k \in 0 .. n - 1 : /\ ring[k].kind = "good" => ring[k].id \in Nat \ {0} /\ ring[k].body \in Nat
                            /\ then[k].kind = "good" => then[k].id \in Nat \ {0} /\ then[k].body \in Nat
  BY <1>n, RingTypes
<1>o. \A k \in 0 .. n - 1 : ring[k].kind = "good" => ring[k].id = Number(k, f, n)
  BY <1>n DEF InOrder, Ordered
<1>b. \A k \in 0 .. n - 1 : ring[k].kind = "good" => ring[k].body + f.id - ring[k].id <= w - 1
  BY <1>n DEF InOrder
<1>4. \A k \in 0 .. n - 1 : then[k].kind = "good" =>
         /\ then[k].id = Number(k, g, n) /\ then[k].id <= g.id
         /\ k # g.slot => /\ ring[k].kind = "good" /\ then[k] = ring[k]
                          /\ then[k].id < g.id /\ then[k].body < w
  <2> SUFFICES ASSUME NEW k \in 0 .. n - 1, then[k].kind = "good"
               PROVE  /\ then[k].id = Number(k, g, n) /\ then[k].id <= g.id
                      /\ k # g.slot => /\ ring[k].kind = "good" /\ then[k] = ring[k]
                                       /\ then[k].id < g.id /\ then[k].body < w
    OBVIOUS
  <2>1. CASE k = g.slot
    BY <1>1, <1>2, <2>1
  <2>2. CASE k # g.slot
    <3>1. ring[k].kind = "good" /\ then[k] = ring[k]
      BY <1>n, <2>2
    <3>2. then[k].id = Number(k, f, n) /\ Number(k, f, n) <= f.id
      BY <3>1, <1>o, <1>2
    <3>3. then[k].body + f.id - then[k].id <= w - 1 /\ then[k].id \in Nat /\ then[k].body \in Nat
      BY <3>1, <1>b, <1>3
    <3>4. then[k].body < w
      BY <3>2, <3>3, <1>2
    <3> QED
      BY <2>2, <3>1, <3>2, <3>4, <1>1, <1>2
  <2> QED
    BY <2>1, <2>2
<1>5. InOrder(then, g, w)
  <2>1. Ordered(then, g, Slots)
    BY <1>n, <1>3, <1>4 DEF Ordered
  <2>2. ASSUME NEW k \in 0 .. n - 1, then[k].kind = "good"
        PROVE  then[k].body + g.id - then[k].id <= w
    <3>1. CASE k = g.slot
      BY <2>2, <3>1, <1>2
    <3>2. CASE k # g.slot
      <4>1. then[k].body + f.id - then[k].id <= w - 1
        BY <2>2, <3>2, <1>4, <1>b
      <4>2. then[k].body \in Nat /\ then[k].id \in Nat
        BY <2>2, <1>3
      <4> QED
        BY <4>1, <4>2, <1>1, <1>2
    <3> QED
      BY <3>1, <3>2
  <2>3. ASSUME NEW k \in 0 .. n - 1, NEW l \in 0 .. n - 1,
               then[k].kind = "good", then[l].kind = "good", then[k].id < then[l].id
        PROVE  then[k].body < then[l].body
    <3>1. k # g.slot
      BY <2>3, <1>2, <1>3, <1>4
    <3>2. CASE l = g.slot
      BY <2>3, <3>1, <3>2, <1>4
    <3>3. CASE l # g.slot
      <4>1. /\ ring[k].kind = "good" /\ ring[l].kind = "good" /\ then[k] = ring[k]
            /\ then[l] = ring[l]
        BY <2>3, <3>1, <3>3, <1>4
      <4> QED
        BY <4>1, <2>3, <1>n DEF InOrder
    <3> QED
      BY <3>2, <3>3
  <2> QED
    BY <1>n, <2>1, <2>2, <2>3 DEF InOrder
<1>6. Behind(then, s, g) /\ s.id < g.id
  <2>1. CASE s = Unused
    BY <2>1, <1>1, <1>2 DEF Behind, Unused
  <2>2. CASE s # Unused
    <3>1. /\ s \in Rings(n) /\ s.id # 0 /\ s.id <= f.id
          /\ Number(s.slot, f, n) - s.id \in Laps(n)
          /\ (\E k \in 0 .. n - 1 : ring[k].kind = "good" /\ ring[k].id < s.id) =>
                ring[s.slot].kind = "good"
      BY <2>2, <1>n DEF Behind
    <3>2. s.id \in Nat /\ s.slot \in 0 .. n - 1
      BY <1>n DEF Fronts
    <3>3. Number(s.slot, g, n) - s.id \in Laps(n)
      <4>1. CASE s.slot = g.slot
        <5>1. Number(s.slot, f, n) - s.id + n = g.id - s.id
          BY <4>1, <1>1, <1>2, <3>2
        <5> QED
          BY <4>1, <5>1, <3>1, <3>2, <1>1, LapsFacts
      <4>2. CASE s.slot # g.slot
        BY <4>2, <3>1, <3>2, <1>1
      <4> QED
        BY <4>1, <4>2
    <3>4. ASSUME NEW k \in 0 .. n - 1, then[k].kind = "good", then[k].id < s.id
          PROVE  then[s.slot].kind = "good"
      <4>1. then[k].id \in Nat /\ then[k].id = Number(k, g, n)
        BY <3>4, <1>3, <1>4
      <4>2. k # g.slot
        BY <3>1, <3>2, <3>4, <4>1, <1>1, <1>2
      <4>3. ring[k].kind = "good" /\ ring[k].id < s.id
        BY <3>4, <4>2, <1>4
      <4>4. ring[s.slot].kind = "good"
        BY <3>1, <4>3
      <4>5. s.slot # g.slot
        <5>1. ring[k].id = Number(k, f, n) /\ f.id - n < Number(k, f, n) /\ Number(k, f, n) \in Int
          BY <4>3, <1>o, <1>2
        <5>2. ring[s.slot].id = Number(s.slot, f, n)
          BY <4>4, <3>2, <1>o
        <5>3. Number(s.slot, f, n) - s.id \in Nat
          BY <3>1, LapsFacts
        <5>4. Number(s.slot, f, n) >= s.id /\ Number(s.slot, f, n) \in Int
          BY <5>3, <3>2, <1>2
        <5> QED
          BY <5>1, <5>4, <4>3, <3>2, <1>1, <1>2
      <4> QED
        BY <4>4, <4>5, <3>2, <1>n
    <3>5. s.id <= g.id /\ s.id < g.id
      BY <3>1, <3>2, <1>1, <1>2
    <3> QED
      BY <1>n, <3>1, <3>3, <3>4, <3>5 DEF Behind
  <2> QED
    BY <2>1, <2>2
<1>7. Hidden(then, g, s, g.slot) \subseteq Hidden(ring, f, s, None)
  BY <1>n, <1>1 DEF Hidden, None
<1>8. Kept(then, a, w, g.slot)
  <2> SUFFICES ASSUME a > 0, w - a < n
               PROVE  \E k \in 0 .. n - 1 : k # g.slot /\ then[k].kind = "good" /\ then[k].body >= a
    BY <1>n DEF Kept
  <2>1. PICK k \in 0 .. n - 1 : ring[k].kind = "good" /\ ring[k].body >= a
    BY <1>n DEF Kept
  <2>2. ring[k].id = Number(k, f, n) /\ ring[k].body + f.id - ring[k].id <= w - 1
        /\ ring[k].body \in Nat
    BY <2>1, <1>o, <1>b, <1>3
  <2>3. k # g.slot
    <3> SUFFICES ASSUME k = g.slot PROVE FALSE
      OBVIOUS
    <3>1. ring[k].body + n <= w
      BY <2>2, <1>1, <1>2
    <3> QED
      BY <3>1, <2>1, <2>2
  <2> QED
    BY <1>n, <2>1, <2>3
<1> QED
  BY <1>5, <1>6, <1>7, <1>8

(* A retry that spoils the slot of the record being written.                *)
LEMMA RecordSpoilt ==
  ASSUME NEW f \in Rings(Slots), NEW s \in Fronts(Slots), s.id < f.id, NEW ring \in Ring,
         NEW w \in Nat, NEW a \in Nat,
         InOrder(ring, f, w), Behind(ring, s, f), Kept(ring, a, w, f.slot),
         NEW then \in Ring, then[f.slot].kind # "good",
         \A k \in 0 .. Slots - 1 : k # f.slot => then[k] = ring[k]
  PROVE  /\ InOrder(then, f, w) /\ Behind(then, s, f) /\ Kept(then, a, w, f.slot)
         /\ Hidden(then, f, s, f.slot) \subseteq Hidden(ring, f, s, f.slot)
<1>n. PICK n \in Nat \ {0} : n = Slots /\ n > 1
  BY SizesType
<1>1. /\ f.id \in Nat /\ f.slot \in 0 .. n - 1 /\ Number(f.slot, f, n) = f.id
      /\ \A k \in 0 .. n - 1 : Number(k, f, n) \in Int /\ f.id - n < Number(k, f, n)
  BY <1>n, RingsFacts, NumberFacts
<1>2. \A k \in 0 .. n - 1 : then[k].kind = "good" => then[k] = ring[k] /\ k # f.slot
  BY <1>n
<1>3. \A k \in 0 .. n - 1 : then[k].kind = "good" =>
         ring[k].kind = "good" /\ ring[k].id = Number(k, f, n)
  BY <1>n, <1>2 DEF InOrder, Ordered
<1>4. InOrder(then, f, w)
  <2>1. Ordered(then, f, n)
    BY <1>2, <1>3, <1>n DEF InOrder, Ordered
  <2> QED
    BY <2>1, <1>2, <1>3, <1>n DEF InOrder
<1>5. Behind(then, s, f)
  <2>1. CASE s = Unused
    BY <2>1 DEF Behind
  <2>2. CASE s # Unused
    <3>1. /\ s \in Rings(n) /\ s.id # 0 /\ s.id <= f.id
          /\ Number(s.slot, f, n) - s.id \in Laps(n)
          /\ (\E k \in 0 .. n - 1 : ring[k].kind = "good" /\ ring[k].id < s.id) =>
                ring[s.slot].kind = "good"
      BY <2>2, <1>n DEF Behind
    <3>2. s.id \in Nat /\ s.slot \in 0 .. n - 1
      BY <1>n DEF Fronts
    <3>3. ASSUME NEW k \in 0 .. n - 1, then[k].kind = "good", then[k].id < s.id
          PROVE  then[s.slot].kind = "good"
      <4>1. /\ ring[k].kind = "good" /\ ring[k].id < s.id /\ ring[k].id = Number(k, f, n)
        BY <3>3, <1>2, <1>3
      <4>2. s.slot # f.slot
        <5> SUFFICES ASSUME s.slot = f.slot PROVE FALSE
          OBVIOUS
        <5>1. f.id - s.id \in Laps(n) /\ f.id - s.id > 0
          BY <3>1, <3>2, <1>1
        <5>2. f.id - s.id >= n
          BY <5>1, LapsFacts
        <5> QED
          BY <5>2, <4>1, <3>2, <1>1
      <4> QED
        BY <4>1, <4>2, <3>1, <3>2, <1>n
    <3> QED
      BY <1>n, <3>1, <3>3 DEF Behind
  <2> QED
    BY <2>1, <2>2
<1>6. Kept(then, a, w, f.slot) /\ Hidden(then, f, s, f.slot) \subseteq Hidden(ring, f, s, f.slot)
  BY DEF Kept, Hidden
<1> QED
  BY <1>4, <1>5, <1>6

(* Besides the erased slots a search passes at most one slot for nothing on *)
(* its way to the newest record: the one it starts from, or the one a power *)
(* failure left.                                                            *)
LEMMA RecordCost ==
  ASSUME NEW f \in Rings(Slots), NEW s \in Fronts(Slots), NEW ring \in Ring, NEW w \in Nat,
         InOrder(ring, f, w), Behind(ring, s, f),
         NEW h \in 0 .. Slots - 1, ring[h].kind = "good", Number(h, f, Slots) > s.id
  PROVE  \E y : Costly(ring, s, f, Slots, h) \subseteq Hidden(ring, f, s, f.slot) \cup {y}
<1>n. PICK n \in Nat \ {0} : n = Slots /\ n > 1
  BY SizesType
<1>1. /\ f \in Fronts(n) /\ f.id \in Nat /\ f.slot \in 0 .. n - 1 /\ Number(f.slot, f, n) = f.id
      /\ \A k \in 0 .. n - 1 : Number(k, f, n) \in Int /\ f.id - n < Number(k, f, n)
      /\ \A k \in 0 .. n - 1 : Number(k, f, n) <= f.id
      /\ \A k, l \in 0 .. n - 1 : Number(k, f, n) = Number(l, f, n) => k = l
  BY <1>n, RingsFacts, NumberFacts
<1>s. s.id \in Nat /\ s.slot \in 0 .. n - 1
  BY <1>n DEF Fronts
<1>g. \A k \in 0 .. n - 1 : ring[k].kind = "good" => ring[k].id = Number(k, f, n) /\ Number(k, f, n) >= 1
  <2>1. \A k \in 0 .. n - 1 : ring[k].kind = "good" => ring[k].id = Number(k, f, n) /\ ring[k].id \in Nat \ {0}
    BY <1>n DEF InOrder, Ordered
  <2> QED
    BY <2>1
<1>h. h \in 0 .. n - 1 /\ ring[h].kind = "good" /\ Number(h, f, n) > s.id
  BY <1>n
<1>2. CASE s = Unused
  <2>1. s.id = 0 /\ s.slot = 0
    BY <1>2 DEF Unused
  <2>2. ASSUME NEW k \in Costly(ring, s, f, n, h)
        PROVE  k \in Hidden(ring, f, s, f.slot) \cup {f.slot}
    <3>1. /\ k \in 0 .. n - 1 /\ TurnAt(k, 0, n) < TurnAt(h, 0, n)
          /\ \/ ring[k].kind = "blank"
             \/ ring[k].kind = "good" /\ Number(k, f, n) <= 0
      BY <2>1 DEF Costly
    <3>2. k < h
      BY <3>1, <1>h DEF TurnAt
    <3>3. Number(k, f, n) >= 1
      <4>1. Number(n - 1, f, n) \in Laps(n)
        BY <1>n DEF Rings
      <4>2. PICK last \in Nat : last = Number(n - 1, f, n) /\ (last > 0 => last >= n)
        BY <4>1, LapsFacts
      <4>3. last = IF n - 1 <= f.slot THEN f.id - (f.slot - (n - 1)) ELSE f.id - (f.slot - (n - 1)) - n
        BY <4>2 DEF Number
      <4>4. Number(h, f, n) > 0
        BY <1>h, <2>1
      <4>5. Number(h, f, n) = IF h <= f.slot THEN f.id - (f.slot - h) ELSE f.id - (f.slot - h) - n
        BY DEF Number
      <4>6. Number(k, f, n) = IF k <= f.slot THEN f.id - (f.slot - k) ELSE f.id - (f.slot - k) - n
        BY DEF Number
      <4> QED
        BY <1>1, <1>h, <3>1, <3>2, <4>2, <4>3, <4>4, <4>5, <4>6
    <3>4. ring[k].kind = "blank"
      BY <3>1, <3>3, <1>1
    <3>5. Number(k, f, n) > 0
      BY <3>1, <3>3, <1>1
    <3> QED
      BY <1>n, <2>1, <3>1, <3>4, <3>5 DEF Hidden
  <2> QED
    BY <1>n, <2>2
<1>3. CASE s # Unused
  <2>1. s.id <= f.id /\ Number(s.slot, f, n) - s.id \in Laps(n)
    BY <1>3, <1>n DEF Behind
  <2>2. CASE Number(s.slot, f, n) = s.id
    <3>1. ASSUME NEW k \in Costly(ring, s, f, n, h)
          PROVE  k \in Hidden(ring, f, s, f.slot) \cup {s.slot}
      <4>1. /\ k \in 0 .. n - 1 /\ TurnAt(k, s.slot, n) < TurnAt(h, s.slot, n)
            /\ \/ ring[k].kind = "blank"
               \/ ring[k].kind = "good" /\ Number(k, f, n) <= s.id
        BY DEF Costly
      <4>2. ASSUME k # s.slot PROVE Number(k, f, n) > s.id /\ Number(k, f, n) < f.id
        <5>1. TurnAt(s.slot, s.slot, n) = 0 /\ TurnAt(k, s.slot, n) > 0
              /\ TurnAt(h, s.slot, n) \in Nat /\ TurnAt(k, s.slot, n) \in Nat
          BY <4>1, <4>2, <1>s, <1>h DEF TurnAt
        <5>2. Number(h, f, n) = IF h <= f.slot THEN f.id - (f.slot - h) ELSE f.id - (f.slot - h) - n
          BY DEF Number
        <5>3. Number(k, f, n) = IF k <= f.slot THEN f.id - (f.slot - k) ELSE f.id - (f.slot - k) - n
          BY DEF Number
        <5>4. s.id = IF s.slot <= f.slot THEN f.id - (f.slot - s.slot) ELSE f.id - (f.slot - s.slot) - n
          BY <2>2 DEF Number
        <5>5. TurnAt(k, s.slot, n) = IF k >= s.slot THEN k - s.slot ELSE k - s.slot + n
          BY DEF TurnAt
        <5>6. TurnAt(h, s.slot, n) = IF h >= s.slot THEN h - s.slot ELSE h - s.slot + n
          BY DEF TurnAt
        <5> QED
          BY <1>1, <1>s, <1>h, <4>1, <4>2, <5>2, <5>3, <5>4, <5>5, <5>6
      <4>3. CASE k = s.slot
        BY <4>3
      <4>4. CASE k # s.slot
        <5>1. Number(k, f, n) > s.id /\ k # f.slot
          BY <4>2, <4>4, <1>1
        <5>2. Number(k, f, n) \in Int
          BY <4>1, <1>1
        <5>3. ring[k].kind = "blank"
          BY <4>1, <5>1, <5>2, <1>s
        <5> QED
          BY <1>n, <4>1, <5>1, <5>3 DEF Hidden
      <4> QED
        BY <4>3, <4>4
    <3> QED
      BY <1>n, <3>1
  <2>3. CASE Number(s.slot, f, n) # s.id
    <3>1. \A k \in 0 .. n - 1 : Number(k, f, n) > s.id
      <4>1. Number(s.slot, f, n) \in Int /\ Number(s.slot, f, n) <= f.id
        BY <1>1, <1>s
      <4>2. Number(s.slot, f, n) - s.id >= n
        <5>1. Number(s.slot, f, n) - s.id \in Nat /\ Number(s.slot, f, n) - s.id # 0
          BY <2>1, <2>3, <4>1, <1>s, LapsFacts
        <5> QED
          BY <2>1, <5>1, LapsFacts
      <4> QED
        BY <4>1, <4>2, <1>1, <1>s
    <3>2. ASSUME NEW k \in Costly(ring, s, f, n, h)
          PROVE  k \in Hidden(ring, f, s, f.slot) \cup {f.slot}
      <4>1. /\ k \in 0 .. n - 1
            /\ \/ ring[k].kind = "blank"
               \/ ring[k].kind = "good" /\ Number(k, f, n) <= s.id
        BY DEF Costly
      <4>2. Number(k, f, n) > s.id /\ Number(k, f, n) \in Int
        BY <3>1, <4>1, <1>1
      <4>3. ring[k].kind = "blank"
        BY <4>1, <4>2, <1>s
      <4> QED
        BY <1>n, <4>1, <4>2, <4>3 DEF Hidden
    <3> QED
      BY <1>n, <3>2
  <2> QED
    BY <2>2, <2>3
<1> QED
  BY <1>2, <1>3

(* The search of a boot ends with the map of a ring that is in order again. *)
LEMMA RecordFound ==
  ASSUME NEW f \in Rings(Slots), NEW s \in Fronts(Slots), NEW ring \in Ring, NEW w \in Nat,
         InOrder(ring, f, w), Behind(ring, s, f),
         Cardinality(Hidden(ring, f, s, f.slot)) + 1 < Forward(Span)
  PROVE  \E g \in Rings(Slots) :
           /\ ScanFlash(ring, Slots, s, Span) = MapOf(g)
           /\ InOrder(ring, g, w) /\ Behind(ring, s, g) /\ Fresh(ring, MapOf(g))
           /\ Hidden(ring, g, s, None) \subseteq Hidden(ring, f, s, None)
<1>n. PICK n \in Nat \ {0} : n = Slots /\ n > 1
  BY SizesType
<1>1. /\ f \in Fronts(n) /\ f.id \in Nat /\ f.slot \in 0 .. n - 1
      /\ \A k \in 0 .. n - 1 : Number(k, f, n) \in Int /\ f.id - n < Number(k, f, n)
      /\ \A k \in 0 .. n - 1 : Number(k, f, n) <= f.id
  BY <1>n, RingsFacts, NumberFacts
<1>s. s.id \in Nat /\ s.slot \in 0 .. n - 1 /\ s \in Fronts(n)
  BY <1>n DEF Fronts
<1>g. \A k \in 0 .. n - 1 : ring[k].kind = "good" =>
         /\ ring[k].id = Number(k, f, n) /\ ring[k].id \in Nat \ {0} /\ ring[k].body \in Nat
         /\ ring[k].body + f.id - ring[k].id <= w
  BY <1>n, RingTypes DEF InOrder, Ordered
<1>b. \A k, l \in 0 .. n - 1 :
        ring[k].kind = "good" /\ ring[l].kind = "good" /\ ring[k].id < ring[l].id =>
          ring[k].body < ring[l].body
  BY <1>n DEF InOrder
<1>o. ASSUME NEW g, g.id \in Nat, g.id <= f.id,
             \A k \in 0 .. n - 1 : ring[k].kind = "good" => Number(k, g, n) = Number(k, f, n)
      PROVE  InOrder(ring, g, w)
  <2>1. \A k \in 0 .. n - 1 : ring[k].kind = "good" => ring[k].body + g.id - ring[k].id <= w
    BY <1>g, <1>o, <1>1
  <2>2. Ordered(ring, g, n)
    BY <1>g, <1>o DEF Ordered
  <2> QED
    BY <1>n, <1>b, <2>1, <2>2 DEF InOrder
<1>2. CASE \E k \in 0 .. n - 1 : ring[k].kind = "good" /\ Number(k, f, n) > s.id
  <2> DEFINE T == {k \in 0 .. n - 1 : ring[k].kind = "good" /\ Number(k, f, n) > s.id}
  <2>1. PICK h \in T : \A k \in T : Number(k, f, n) <= Number(h, f, n)
    <3>1. T \in SUBSET (0 .. n - 1) /\ T # {}
      BY <1>2
    <3> HIDE DEF T
    <3> QED
      BY <3>1, <1>1, NewestOf
  <2>2. /\ h \in 0 .. n - 1 /\ ring[h].kind = "good" /\ Number(h, f, n) > s.id
        /\ Number(h, f, n) \in Int /\ Number(h, f, n) >= 1
    <3>1. h \in 0 .. n - 1 /\ ring[h].kind = "good" /\ Number(h, f, n) > s.id
      OBVIOUS
    <3> QED
      BY <3>1, <1>1, <1>s
  <2>3. \A k \in 0 .. n - 1 : ring[k].kind = "good" => Number(k, f, n) <= Number(h, f, n)
    <3>1. ASSUME NEW k \in 0 .. n - 1, ring[k].kind = "good"
          PROVE  Number(k, f, n) <= Number(h, f, n)
      <4>1. CASE Number(k, f, n) > s.id
        BY <2>1, <3>1, <4>1
      <4>2. CASE ~(Number(k, f, n) > s.id)
        <5>1. Number(k, f, n) \in Int
          BY <1>1
        <5> HIDE DEF T
        <5> QED
          BY <5>1, <4>2, <2>2, <1>s
      <4> QED
        BY <4>1, <4>2
    <3> QED
      BY <3>1
  <2> HIDE DEF T
  <2>4. PICK g : g = [id |-> Number(h, f, n), slot |-> h]
    OBVIOUS
  <2>5. /\ g \in Rings(n) /\ g.id <= f.id /\ MapOf(g) = g
        /\ \A k \in 0 .. n - 1 :
              Number(k, g, n) = IF Number(k, f, n) <= g.id THEN Number(k, f, n)
                                ELSE Number(k, f, n) - n
    BY <2>2, <2>4, <1>n, BackFacts
  <2>6. g.id = Number(h, f, n) /\ g.slot = h /\ g.id \in Nat /\ s.id < g.id
    BY <2>2, <2>4
  <2>7. ScanFlash(ring, n, s, Span) = g
    <3>1. PICK y : Costly(ring, s, f, n, h) \subseteq Hidden(ring, f, s, f.slot) \cup {y}
      BY <2>2, <1>n, RecordCost
    <3>2. PICK b \in Nat : b = Cardinality(Hidden(ring, f, s, f.slot))
      BY HiddenFacts
    <3>3. PICK Q : Q = Costly(ring, s, f, n, h)
      OBVIOUS
    <3>4. IsFiniteSet(Q) /\ Cardinality(Q) \in Nat /\ Cardinality(Q) <= b + 1
      <4>1. Cardinality(Hidden(ring, f, s, f.slot)) <= b
        BY <3>2
      <4>2. Q \subseteq Hidden(ring, f, s, f.slot) \cup {y}
        BY <3>1, <3>3
      <4> QED
        BY <4>1, <4>2, HiddenGrows
    <3>5. Cardinality(Q) < Forward(Span) /\ Span \in Nat \ {0}
      <4>1. Forward(Span) \in Nat /\ Span \in Nat \ {0}
        BY SizesType, ForwardType
      <4> QED
        BY <3>2, <3>4, <4>1
    <3>6. Ordered(ring, f, n)
      BY <1>n DEF InOrder
    <3>7. Q \subseteq Q
      OBVIOUS
    <3>8. ScanFlash(ring, n, s, Span) = [id |-> Number(h, f, n), slot |-> h]
      BY <1>s, <1>1, <3>6, <2>2, <2>3, <3>3, <3>4, <3>5, SearchFinds
    <3> QED
      BY <3>8, <2>4
  <2>8. InOrder(ring, g, w)
    BY <1>o, <2>3, <2>5, <2>6
  <2>9. Behind(ring, s, g)
    <3>1. CASE s = Unused
      BY <3>1 DEF Behind
    <3>2. CASE s # Unused
      <4>1. /\ s \in Rings(n) /\ s.id # 0 /\ s.id <= f.id
            /\ Number(s.slot, f, n) - s.id \in Laps(n)
            /\ (\E k \in 0 .. n - 1 : ring[k].kind = "good" /\ ring[k].id < s.id) =>
                  ring[s.slot].kind = "good"
        BY <3>2, <1>n DEF Behind
      <4>2. Number(s.slot, g, n) - s.id \in Laps(n)
        <5>1. Number(s.slot, f, n) \in Int
          BY <1>1, <1>s
        <5>2. CASE Number(s.slot, f, n) <= g.id
          BY <4>1, <5>2, <2>5, <1>s
        <5>3. CASE Number(s.slot, f, n) > g.id
          <6>1. Number(s.slot, f, n) - s.id > 0
            BY <5>1, <5>3, <2>6, <1>s
          <6>2. (Number(s.slot, f, n) - s.id) - n \in Laps(n)
            BY <6>1, <4>1, LapsFacts
          <6>3. Number(s.slot, g, n) = Number(s.slot, f, n) - n
            BY <5>1, <5>3, <2>5, <2>6, <1>s
          <6>4. (Number(s.slot, f, n) - s.id) - n = Number(s.slot, g, n) - s.id
            BY <5>1, <6>3, <1>s
          <6> QED
            BY <6>2, <6>4
        <5> QED
          BY <5>1, <5>2, <5>3, <2>6
      <4>3. s.id <= g.id
        BY <2>6, <1>s
      <4> QED
        BY <4>1, <4>2, <4>3, <1>n DEF Behind
    <3> QED
      BY <3>1, <3>2
  <2>10. Fresh(ring, MapOf(g))
    BY <2>2, <2>5, <2>6 DEF Fresh
  <2>11. Hidden(ring, g, s, None) \subseteq Hidden(ring, f, s, None)
    <3>1. \A k \in 0 .. n - 1 : Number(k, g, n) > s.id => Number(k, f, n) > s.id
      BY <2>5, <2>6, <1>1, <1>s
    <3> QED
      BY <3>1, <1>n DEF Hidden
  <2> QED
    BY <2>5, <2>7, <2>8, <2>9, <2>10, <2>11, <1>n
<1>3. CASE \A k \in 0 .. n - 1 : ring[k].kind = "good" => ~(Number(k, f, n) > s.id)
  <2>1. \A k \in 0 .. n - 1 : ring[k].kind = "good" => ring[k].id \in Nat /\ ring[k].id <= s.id
    BY <1>3, <1>g, <1>s
  <2>2. ScanFlash(ring, n, s, Span) = s
    BY <2>1, <1>s, SizesType, SearchStays
  <2>3. CASE s = Unused
    <3>1. \A k \in 0 .. n - 1 : ring[k].kind # "good"
      BY <2>1, <2>3, <1>g DEF Unused
    <3>2. PICK g : g = [id |-> 0, slot |-> n - 1]
      OBVIOUS
    <3>3. g.id = 0 /\ g.slot = n - 1 /\ g \in Fronts(n)
      BY <3>2 DEF Fronts
    <3>4. g \in Rings(n)
      <4>1. Number(n - 1, g, n) = 0
        BY <3>3 DEF Number
      <4> QED
        BY <3>3, <4>1, ZeroLaps DEF Rings
    <3>5. MapOf(g) = Unused
      BY <3>3 DEF MapOf
    <3>6. InOrder(ring, g, w)
      BY <1>o, <1>1, <3>1, <3>3
    <3>7. Behind(ring, s, g) /\ Fresh(ring, MapOf(g))
      BY <2>3, <3>1, <1>n DEF Behind, Fresh
    <3>8. Hidden(ring, g, s, None) \subseteq Hidden(ring, f, s, None)
      <4>1. \A k \in 0 .. n - 1 : ~(Number(k, g, n) > s.id)
        BY <3>3, <1>s DEF Number
      <4> QED
        BY <4>1, <1>n DEF Hidden
    <3> QED
      BY <2>2, <2>3, <3>4, <3>5, <3>6, <3>7, <3>8, <1>n
  <2>4. CASE s # Unused
    <3>1. /\ s \in Rings(n) /\ s.id # 0 /\ s.id <= f.id
          /\ Number(s.slot, f, n) - s.id \in Laps(n)
          /\ (\E k \in 0 .. n - 1 : ring[k].kind = "good" /\ ring[k].id < s.id) =>
                ring[s.slot].kind = "good"
      BY <2>4, <1>n DEF Behind
    <3>2. MapOf(s) = s
      BY <3>1 DEF MapOf
    <3>3. PICK d \in Nat : d = Number(s.slot, f, n) - s.id /\ (d > 0 => d >= n)
      BY <3>1, LapsFacts
    <3>4. /\ \A k \in 0 .. n - 1 : Number(k, s, n) \in Int /\ Number(k, s, n) <= s.id
          /\ Number(s.slot, s, n) = s.id
          /\ \A k, l \in 0 .. n - 1 : Number(k, s, n) = Number(l, s, n) => k = l
      BY <1>s, NumberFacts
    <3>5. ASSUME NEW k \in 0 .. n - 1, ring[k].kind = "good"
          PROVE  Number(k, s, n) = Number(k, f, n)
      <4>1. Number(k, f, n) <= s.id
        BY <3>5, <2>1, <1>g
      <4>2. Number(k, f, n) = IF k <= f.slot THEN f.id - (f.slot - k) ELSE f.id - (f.slot - k) - n
        BY DEF Number
      <4>3. d = (IF s.slot <= f.slot THEN f.id - (f.slot - s.slot)
                 ELSE f.id - (f.slot - s.slot) - n) - s.id
        BY <3>3 DEF Number
      <4>4. Number(k, s, n) = IF k <= s.slot THEN s.id - (s.slot - k) ELSE s.id - (s.slot - k) - n
        BY DEF Number
      <4> QED
        BY <4>1, <4>2, <4>3, <4>4, <3>1, <3>3, <1>1, <1>s
    <3>6. InOrder(ring, s, w)
      BY <1>o, <1>s, <3>1, <3>5
    <3>7. Behind(ring, s, s)
      <4>1. Number(s.slot, s, n) - s.id = 0 /\ s.id <= s.id
        BY <3>4, <1>s
      <4> QED
        BY <4>1, <3>1, <1>n, ZeroLaps DEF Behind
    <3>8. Fresh(ring, MapOf(s))
      <4>1. ASSUME NEW k \in 0 .. n - 1, ring[k].kind = "good" PROVE ring[s.slot].kind = "good"
        <5>1. CASE ring[k].id < s.id
          BY <4>1, <5>1, <3>1
        <5>2. CASE ring[k].id = s.id
          <6>1. Number(k, s, n) = Number(s.slot, s, n)
            BY <4>1, <5>2, <3>4, <3>5, <1>g
          <6>2. k = s.slot
            BY <6>1, <3>4, <1>s
          <6> QED
            BY <4>1, <6>2
        <5> QED
          BY <4>1, <5>1, <5>2, <2>1, <1>s
      <4> QED
        BY <4>1, <3>2, <1>n DEF Fresh
    <3>9. Hidden(ring, s, s, None) \subseteq Hidden(ring, f, s, None)
      <4>1. \A k \in 0 .. n - 1 : ~(Number(k, s, n) > s.id)
        BY <3>4, <1>s
      <4> QED
        BY <4>1, <1>n DEF Hidden
    <3> QED
      BY <2>2, <3>1, <3>2, <3>6, <3>7, <3>8, <3>9, <1>n
  <2> QED
    BY <2>3, <2>4
<1> QED
  BY <1>2, <1>3

(***************************************************************************)
(* The steps                                                               *)
(***************************************************************************)
LEMMA FoundTypes ==
  ASSUME FlashTypeOK, NEW c \in Rings(CatSlots), CatRing(cat, c)
  PROVE  /\ cat \in Catalogs /\ rec \in Ring /\ Saved(c) \in Fronts(Slots)
         /\ written \in Nat /\ acked \in Nat /\ blanks \in Nat
<1>1. cat \in Catalogs /\ rec \in Ring
  BY DEF FlashTypeOK, Catalogs, Ring
<1> QED
  BY <1>1, SavedFacts DEF FlashTypeOK, Saved

(* Before anything is written.                                              *)
LEMMA EmptyRing ==
  ASSUME NEW n \in Nat \ {0}, NEW f, f = [id |-> 0, slot |-> n - 1]
  PROVE  f \in Rings(n) /\ \A k \in 0 .. n - 1 : Number(k, f, n) \in Int /\ Number(k, f, n) <= 0
<1>1. f \in Fronts(n) /\ f.id = 0 /\ f.slot = n - 1
  BY DEF Fronts
<1>2. Number(n - 1, f, n) = 0 /\ \A k \in 0 .. n - 1 : Number(k, f, n) \in Int /\ Number(k, f, n) <= 0
  BY <1>1 DEF Number
<1> QED
  BY <1>1, <1>2, ZeroLaps DEF Rings

LEMMA FoundInit ==
  ASSUME Init
  PROVE  \E c \in Rings(CatSlots), f \in Rings(Slots) : Found(c, f)
<1>1. PICK c : c = [id |-> 0, slot |-> CatSlots - 1]
  OBVIOUS
<1>2. PICK f : f = [id |-> 0, slot |-> Slots - 1]
  OBVIOUS
<1>3. c \in Rings(CatSlots) /\ f \in Rings(Slots)
  BY <1>1, <1>2, SizesType, EmptyRing
<1>4. /\ \A k \in 0 .. CatSlots - 1 : ~(Number(k, c, CatSlots) >= 1) /\ cat[k].kind = "blank"
      /\ \A k \in 0 .. Slots - 1 : ~(Number(k, f, Slots) > 0) /\ rec[k].kind = "blank"
  <2>1. \A k \in 0 .. CatSlots - 1 : Number(k, c, CatSlots) \in Int /\ Number(k, c, CatSlots) <= 0
    BY <1>1, SizesType, EmptyRing
  <2>2. \A k \in 0 .. Slots - 1 : Number(k, f, Slots) \in Int /\ Number(k, f, Slots) <= 0
    BY <1>2, SizesType, EmptyRing
  <2> QED
    BY <2>1, <2>2 DEF Init, Blank
<1>5. CatRing(cat, c)
  BY <1>4 DEF CatRing
<1>6. NextOf(c, CatSlots).slot \in 0 .. CatSlots - 1
  <2>1. NextOf(c, CatSlots) \in Rings(CatSlots)
    BY <1>3, SizesType, NextFacts
  <2> QED
    BY <2>1, SizesType, RingsFacts, NumberFacts
<1>7. NothingNewer(cat, c)
  BY <1>4, <1>6 DEF NothingNewer
<1>8. Saved(c) = Unused /\ Saved(c).id = 0
  BY <1>1 DEF Saved, SavedIn, Unused
<1>9. InOrder(rec, f, written) /\ Behind(rec, Saved(c), f)
  BY <1>4, <1>8 DEF InOrder, Ordered, Behind
<1>10. \A x : Cardinality(Hidden(rec, f, Saved(c), x)) = 0
  <2>1. ASSUME NEW x PROVE Hidden(rec, f, Saved(c), x) = {}
    BY <1>4, <1>8 DEF Hidden
  <2> QED
    BY <2>1, FS_EmptySet
<1>11. Kept(rec, acked, written, None)
  BY DEF Init, Kept
<1>12. pc = "off" /\ ask = NoAsk /\ blanks = 0
  BY DEF Init
<1>13. Records(c, f, written, IF cut THEN f.slot ELSE None)
  <2>1. Cardinality(Hidden(rec, f, Saved(c), IF cut THEN f.slot ELSE None)) = 0
    <3>1. PICK x : x = IF cut THEN f.slot ELSE None
      OBVIOUS
    <3> QED
      BY <3>1, <1>10
  <2>2. Cardinality(Hidden(rec, f, Saved(c), IF cut THEN f.slot ELSE None)) <= blanks
    BY <2>1, <1>12
  <2> QED
    BY <2>2, <1>9 DEF Records
<1>14. Off(c, f)
  BY <1>7, <1>11, <1>12, <1>13 DEF Off
<1> QED
  BY <1>3, <1>5, <1>14 DEF Found

LEMMA BootStep ==
  ASSUME FlashTypeOK, Searchable, NEW c \in Rings(CatSlots), NEW f \in Rings(Slots),
         CatRing(cat, c), Off(c, f), Boot
  PROVE  \E g \in Rings(Slots) : Found(c, g)'
<1> DEFINE s == Saved(c)
           b == blanks
<1>t. cat \in Catalogs /\ rec \in Ring /\ s \in Fronts(Slots) /\ written \in Nat /\ b \in Nat
  BY FoundTypes
<1>0. /\ pc = "off" /\ ask = NoAsk /\ NothingNewer(cat, c) /\ Kept(rec, acked, written, None)
      /\ InOrder(rec, f, written) /\ Behind(rec, s, f)
      /\ Cardinality(Hidden(rec, f, s, IF cut THEN f.slot ELSE None)) <= b
  BY DEF Off, Records
<1>1. ScanFlash(cat, CatSlots, Unused, 1) = MapOf(c)
  BY <1>t, <1>0, CatalogFound
<1>2. /\ catMap' = Advance(MapOf(c), CatSlots)
      /\ map' = ScanFlash(rec, Slots, IF MapOf(c).id = 0 THEN Unused ELSE cat[MapOf(c).slot].body, Span)
      /\ job' = [area |-> "catalog", tries |-> Retries, intact |-> TRUE] /\ pc' = "program"
      /\ cat' = cat /\ rec' = rec /\ ask' = ask /\ written' = written /\ acked' = acked
      /\ blanks' = blanks
  BY <1>1 DEF Boot, Begin
<1>c. cut' = cut
  BY DEF Boot
<1>3. catMap' = NextOf(c, CatSlots)
  BY <1>2, SizesType, MapMovesOn
<1>4. map' = ScanFlash(rec, Slots, s, Span)
  <2>1. (IF MapOf(c).id = 0 THEN Unused ELSE cat[MapOf(c).slot].body) = s
    <3>1. MapOf(c).id = c.id
      BY SizesType, RingsFacts
    <3>2. CASE c.id = 0
      BY <3>1, <3>2 DEF Saved, SavedIn
    <3>3. CASE c.id # 0
      BY <3>1, <3>3 DEF Saved, SavedIn, MapOf
    <3> QED
      BY <3>2, <3>3
  <2> QED
    BY <1>2, <2>1
<1>5. Hidden(rec, f, s, f.slot) \subseteq Hidden(rec, f, s, IF cut THEN f.slot ELSE None)
  <2>1. /\ Hidden(rec, f, s, f.slot) \subseteq Hidden(rec, f, s, None)
        /\ Hidden(rec, f, s, None) \subseteq Hidden(rec, f, s, f.slot) \cup {f.slot}
    BY SizesType DEF Hidden, None
  <2> QED
    BY <2>1, Zenon
<1>6. Cardinality(Hidden(rec, f, s, f.slot)) + 1 < Forward(Span)
  <2>1. /\ Cardinality(Hidden(rec, f, s, f.slot)) \in Nat
        /\ Cardinality(Hidden(rec, f, s, f.slot)) <= b
    <3> HIDE DEF s, b
    <3> QED
      BY <1>0, <1>t, <1>5, HiddenGrows
  <2>2. b < Forward(Span) - 1 /\ Forward(Span) \in Nat
    BY SizesType, ForwardType DEF Searchable
  <2> QED
    BY <2>1, <2>2, <1>t
<1>7. PICK g \in Rings(Slots) :
        /\ ScanFlash(rec, Slots, s, Span) = MapOf(g)
        /\ InOrder(rec, g, written) /\ Behind(rec, s, g) /\ Fresh(rec, MapOf(g))
        /\ Hidden(rec, g, s, None) \subseteq Hidden(rec, f, s, None)
  <2> HIDE DEF s, b
  <2> QED
    BY <1>t, <1>0, <1>6, RecordFound
<1>8. Cardinality(Hidden(rec, g, s, None)) <= b + (IF cut THEN 1 ELSE 0)
  <2> HIDE DEF s, b
  <2>1. CASE cut
    <3>1. Cardinality(Hidden(rec, f, s, f.slot)) <= b
      BY <1>0, <2>1, Zenon
    <3>2. Hidden(rec, g, s, None) \subseteq Hidden(rec, f, s, f.slot) \cup {f.slot}
      BY <1>7 DEF Hidden
    <3>3. Cardinality(Hidden(rec, g, s, None)) <= b + 1
      BY <3>1, <3>2, <1>t, HiddenGrows
    <3>4. (IF cut THEN 1 ELSE 0) = 1
      BY <2>1, Zenon
    <3> QED
      BY <3>3, <3>4
  <2>2. CASE ~cut
    <3>1. Cardinality(Hidden(rec, f, s, None)) <= b
      BY <1>0, <2>2, Zenon
    <3>2. Cardinality(Hidden(rec, g, s, None)) <= b
      BY <3>1, <1>7, <1>t, HiddenGrows
    <3>3. (IF cut THEN 1 ELSE 0) = 0
      BY <2>2, Zenon
    <3> QED
      BY <3>2, <3>3, <1>t
  <2> QED
    BY <2>1, <2>2
<1>9. Saved(c)' = s
  BY <1>2 DEF Saved
<1>10. Cardinality(Hidden(rec, g, Saved(c), None))' <= blanks' + (IF cut' THEN 1 ELSE 0)
  <2>1. (IF cut' THEN 1 ELSE 0) = (IF cut THEN 1 ELSE 0)
    BY <1>c, Zenon
  <2> HIDE DEF s
  <2> QED
    BY <1>2, <1>8, <1>9, <2>1
<1>11. Booting(c, g)'
  <2> HIDE DEF s
  <2> QED
    BY <1>0, <1>2, <1>3, <1>4, <1>7, <1>9, <1>10 DEF Booting
<1>12. CatRing(cat, c)'
  BY <1>2
<1> QED
  BY <1>11, <1>12 DEF Found

LEMMA WriteRecordStep ==
  ASSUME FlashTypeOK, NEW c, NEW f, CatRing(cat, c), Ready(c, f), WriteRecord
  PROVE  Found(c, f)'
<1>1. /\ pc' = "moved" /\ map' = Moved(map) /\ map = MapOf(f) /\ ask = NoAsk /\ ask' = ask
      /\ cat' = cat /\ rec' = rec /\ written' = written + 1 /\ acked' = acked /\ blanks' = blanks
      /\ written \in Nat /\ acked \in Nat
  BY DEF WriteRecord, Ready, FlashTypeOK
<1>2. ~cut'
  BY Zenon DEF WriteRecord, Ready
<1>3. written' > 0 /\ written' - 1 = written
  BY <1>1
<1>4. Records(c, f, written - 1, None)'
  BY <1>1, <1>3 DEF Ready, Records, Saved
<1>5. Kept(rec, acked, written, None)'
  <2>1. written + 1 - acked < Slots => written - acked < Slots
    BY <1>1, SizesType
  <2>2. Kept(rec, acked, written, None)
    BY DEF Ready
  <2> QED
    BY <1>1, <2>1, <2>2 DEF Kept
<1>6. NothingNewer(cat, c)' /\ CatRing(cat, c)'
  BY <1>1 DEF Ready
<1>7. Moving(c, f)'
  BY <1>1, <1>2, <1>3, <1>4, <1>5, <1>6 DEF Moving, Asked
<1> QED
  BY <1>6, <1>7 DEF Found

LEMMA MoveStep ==
  ASSUME NEW c, NEW f \in Rings(Slots), CatRing(cat, c), Moving(c, f), Wrap \/ Count
  PROVE  Found(c, f)'
<1>1. /\ cat' = cat /\ rec' = rec /\ written' = written /\ acked' = acked /\ blanks' = blanks
      /\ ask' = ask
  BY DEF Wrap, Count
<1>2. cut' = cut
  BY DEF Wrap, Count
<1>3. \/ pc' = "wrapped" /\ map' = Wrapped(Moved(MapOf(f)), Slots)
      \/ pc' = "program" /\ job'.area = "record" /\ map' = NextOf(f, Slots)
  <2>1. CASE Wrap
    BY <2>1 DEF Wrap, Moving
  <2>2. CASE Count
    <3>1. /\ pc' = "program" /\ job' = [area |-> "record", tries |-> Retries, intact |-> TRUE]
          /\ map' = Counted(map) /\ map = Wrapped(Moved(MapOf(f)), Slots)
      BY <2>2 DEF Count, Begin, Moving
    <3>2. Advance(MapOf(f), Slots) = NextOf(f, Slots)
      BY SizesType, MapMovesOn
    <3> QED
      BY <3>1, <3>2 DEF Advance
  <2> QED
    BY <2>1, <2>2
<1>4. CatRing(cat, c)' /\ NothingNewer(cat, c)'
  BY <1>1 DEF Moving
<1>5. Records(c, f, written - 1, None)' /\ Kept(rec, acked, written, None)'
  BY <1>1 DEF Moving, Records, Saved
<1>6. Asked(NextOf(f, Slots))' /\ (written > 0)'
  BY <1>1 DEF Moving, Asked
<1>7. ~cut'
  BY <1>2, Zenon DEF Moving
<1>8. Moving(c, f)'
  BY <1>3, <1>4, <1>5, <1>6, <1>7 DEF Moving
<1> QED
  BY <1>4, <1>8 DEF Found

(* The page the console computes belongs to the record it asks for, or to   *)
(* none, wherever write_record is then.                                     *)
LEMMA PageAsked ==
  ASSUME NEW g \in Rings(Slots), NEW i \in 0 .. Slots - 1, Span > 1, NEW p, p = PageOf(i),
         map.slot = g.slot \/ (g.slot = 0 /\ map.slot = Slots)
  PROVE  \/ p % Span # 0 \/ p = Slots * Span
         \/ \E k \in 0 .. Slots - 1 : p = k * Span /\ Number(k, g, Slots) = g.id - i
<1>n. PICK n \in Nat \ {0} : n = Slots /\ n > 1
  BY SizesType
<1>1. g.id \in Nat /\ g.slot \in 0 .. n - 1
  BY <1>n, RingsFacts, NumberFacts
<1>2. PICK m \in 0 .. n : m = map.slot
  BY <1>n, <1>1
<1>3. PICK z \in Nat : z = Span /\ z > 1
  BY SizesType
<1>4. p = IF i * z <= m * z THEN m * z - i * z ELSE m * z + (n * z - 1) - i * z
  BY <1>n, <1>2, <1>3 DEF PageOf
<1>5. CASE i <= m
  <2>1. i * z <= m * z /\ m * z - i * z = (m - i) * z
    BY <1>n, <1>5
  <2>2. p = (m - i) * z
    BY <1>4, <2>1
  <2>3. CASE m - i = n
    BY <2>2, <2>3, <1>n, <1>3
  <2>4. CASE m - i # n
    <3>1. m - i \in 0 .. n - 1
      BY <1>n, <1>5, <2>4
    <3>2. Number(m - i, g, n) = g.id - i
      BY <1>n, <1>1, <1>2, <1>5, <2>4 DEF Number
    <3> QED
      BY <1>n, <1>3, <2>2, <3>1, <3>2
  <2> QED
    BY <2>3, <2>4
<1>6. CASE i > m
  <2>1. m * z < i * z
    BY <1>n, <1>3, <1>6
  <2>2. PICK q \in Nat : q = m + n - 1 - i
    BY <1>n, <1>6
  <2>3. p = q * z + (z - 1)
    <3>1. q * z = m * z + n * z - z - i * z
      BY <2>2, <1>n
    <3>2. m * z \in Int /\ n * z \in Int /\ i * z \in Int /\ q * z \in Int
      BY <1>n
    <3>3. p = m * z + (n * z - 1) - i * z
      BY <1>4, <2>1, <3>2
    <3> QED
      BY <3>1, <3>2, <3>3
  <2>4. (q * z + (z - 1)) % z = z - 1
    BY <1>3
  <2>5. p % Span # 0
    BY <2>3, <2>4, <1>3
  <2> QED
    BY <2>5
<1> QED
  BY <1>5, <1>6, <1>n

LEMMA ReadBeginStep ==
  ASSUME FlashTypeOK, NEW c, NEW f \in Rings(Slots), CatRing(cat, c),
         Moving(c, f) \/ Writing(c, f), ReadBegin
  PROVE  Found(c, f)'
<1>1. PICK i \in 0 .. Slots - 1 : Served(i) /\ ask' = [index |-> i, page |-> PageOf(i)]
  BY DEF ReadBegin
<1>2. /\ cat' = cat /\ rec' = rec /\ written' = written /\ acked' = acked /\ blanks' = blanks
      /\ pc' = pc /\ job' = job /\ map' = map
  BY DEF ReadBegin
<1>3. cut' = cut
  BY DEF ReadBegin
<1>4. ask'.index = i /\ ask'.page = PageOf(i)
  BY <1>1
<1>5. ASSUME NEW g \in Rings(Slots), map.slot = g.slot \/ (g.slot = 0 /\ map.slot = Slots)
      PROVE  Asked(g)'
  <2>1. CASE Span > 1
    <3>1. \/ PageOf(i) % Span # 0 \/ PageOf(i) = Slots * Span
          \/ \E k \in 0 .. Slots - 1 : PageOf(i) = k * Span /\ Number(k, g, Slots) = g.id - i
      BY <1>5, <2>1, PageAsked
    <3> QED
      BY <1>4, <3>1 DEF Asked
  <2>2. CASE ~(Span > 1)
    BY <2>2 DEF Asked
  <2> QED
    BY <2>1, <2>2
<1>6. CatRing(cat, c)'
  BY <1>2
<1>7. CASE Moving(c, f)
  <2>1. PICK g : g = NextOf(f, Slots)
    OBVIOUS
  <2>2. /\ g \in Rings(Slots) /\ g.slot = IF f.slot = Slots - 1 THEN 0 ELSE f.slot + 1
        /\ f.slot \in 0 .. Slots - 1 /\ f.id \in Nat
    <3>1. g \in Rings(Slots)
      BY <2>1, SizesType, NextFacts
    <3>2. f.slot \in 0 .. Slots - 1 /\ f.id \in Nat
      BY SizesType, RingsFacts, NumberFacts
    <3> QED
      BY <3>1, <3>2, <2>1 DEF NextOf
  <2>3. map.slot = g.slot \/ (g.slot = 0 /\ map.slot = Slots)
    <3>1. map.id > 0
      BY <1>1 DEF Served, FlashTypeOK, Fronts
    <3>2. /\ Moved(MapOf(f)).id = f.id /\ Wrapped(Moved(MapOf(f)), Slots).id = f.id
          /\ f.id # 0 => /\ Moved(MapOf(f)).slot = f.slot + 1
                         /\ Wrapped(Moved(MapOf(f)), Slots).slot = g.slot
      BY <2>1, SizesType, MapMovesOn
    <3>3. \/ map = Moved(MapOf(f)) \/ map = Wrapped(Moved(MapOf(f)), Slots) \/ map = g
      BY <1>7, <2>1 DEF Moving
    <3>4. CASE map = g
      BY <3>4
    <3>5. CASE map = Wrapped(Moved(MapOf(f)), Slots)
      BY <3>1, <3>2, <3>5
    <3>6. CASE map = Moved(MapOf(f))
      BY <3>1, <3>2, <3>6, <2>2, SizesType
    <3> QED
      BY <3>3, <3>4, <3>5, <3>6
  <2>4. Asked(NextOf(f, Slots))'
    BY <2>1, <2>2, <2>3, <1>5
  <2>5. Records(c, f, written - 1, None)' /\ Kept(rec, acked, written, None)'
        /\ NothingNewer(cat, c)' /\ (written > 0)'
    BY <1>2, <1>7 DEF Moving, Records, Saved
  <2>6. ~cut'
    BY <1>3, <1>7, Zenon DEF Moving
  <2>7. \/ pc' = "moved" /\ map' = Moved(MapOf(f))
        \/ pc' = "wrapped" /\ map' = Wrapped(Moved(MapOf(f)), Slots)
        \/ pc' = "program" /\ job'.area = "record" /\ map' = NextOf(f, Slots)
    BY <1>2, <1>7 DEF Moving
  <2>8. Moving(c, f)'
    BY <2>4, <2>5, <2>6, <2>7 DEF Moving
  <2> QED
    BY <1>6, <2>8 DEF Found
<1>8. CASE Writing(c, f)
  <2>1. map = f
    BY <1>8 DEF Writing
  <2>2. Asked(f)'
    BY <2>1, <1>5
  <2>3. /\ Records(c, f, written, f.slot)' /\ Kept(rec, acked, written, f.slot)'
        /\ NothingNewer(cat, c)' /\ (Saved(c).id < f.id)'
        /\ (rec[f.slot].kind = "good" => rec[f.slot].body = written)'
    BY <1>2, <1>8 DEF Writing, Records, Saved
  <2>4. ~cut' /\ ((pc' = "program" /\ ~job'.intact) \/ pc' = "verify")
    BY <1>2, <1>3, <1>8, Zenon DEF Writing
  <2>5. job'.area = "record" /\ map' = f
    BY <1>2, <1>8 DEF Writing
  <2>6. Writing(c, f)'
    BY <2>2, <2>3, <2>4, <2>5 DEF Writing
  <2> QED
    BY <1>6, <2>6 DEF Found
<1> QED
  BY <1>7, <1>8

LEMMA ReadEndStep ==
  ASSUME NEW c, NEW f, CatRing(cat, c), Ready(c, f), ReadEnd
  PROVE  Found(c, f)'
<1>1. /\ cat' = cat /\ rec' = rec /\ written' = written /\ acked' = acked /\ blanks' = blanks
      /\ pc' = pc /\ map' = map /\ ask' = NoAsk
  BY DEF ReadEnd
<1>2. ~cut'
  BY Zenon DEF ReadEnd, Ready
<1>3. CatRing(cat, c)' /\ NothingNewer(cat, c)' /\ Records(c, f, written, None)'
      /\ Kept(rec, acked, written, None)' /\ Asked(f)'
  BY <1>1 DEF Ready, Records, Saved, Asked
<1>4. Ready(c, f)'
  BY <1>1, <1>2, <1>3 DEF Ready
<1> QED
  BY <1>3, <1>4 DEF Found

(* The record is programmed, or what a failure leaves of it.                *)
LEMMA AddedStep ==
  ASSUME FlashTypeOK, FlashTypeOK', acked <= written,
         NEW c \in Rings(CatSlots), NEW f \in Rings(Slots), CatRing(cat, c),
         Moving(c, f), pc = "program", NEW g, g = NextOf(f, Slots),
         NEW r \in {Record, Torn, Blank}, Leave(r)
  PROVE  /\ g \in Rings(Slots) /\ map = g /\ job.area = "record" /\ cat' = cat
         /\ g.slot \in 0 .. Slots - 1 /\ rec'[g.slot] = r
         /\ InOrder(rec', g, written) /\ Behind(rec', Saved(c), g)
         /\ Kept(rec', acked, written, g.slot) /\ Saved(c).id < g.id
         /\ Cardinality(Hidden(rec', g, Saved(c), g.slot)) <= blanks
         /\ rec'[g.slot].kind = "good" => rec'[g.slot].body = written
<1>1. job.area = "record" /\ map = g /\ written > 0
  BY DEF Moving
<1>2. cat' = cat /\ rec' = [rec EXCEPT ![g.slot] = r] /\ Record = Good(g.id, written)
  BY <1>1 DEF Leave, Record
<1>3. /\ cat \in Catalogs /\ rec \in Ring /\ Saved(c) \in Fronts(Slots)
      /\ written \in Nat /\ acked \in Nat /\ blanks \in Nat
  BY FoundTypes
<1>4. rec' \in Ring
  BY DEF FlashTypeOK, Ring
<1>5. g \in Rings(Slots) /\ g.slot \in 0 .. Slots - 1
  <2>1. g \in Rings(Slots)
    BY SizesType, NextFacts
  <2> QED
    BY <2>1, SizesType, RingsFacts, NumberFacts
<1>6. rec'[g.slot] = r /\ \A k \in 0 .. Slots - 1 : k # g.slot => rec'[k] = rec[k]
  BY <1>2, <1>3, <1>5 DEF Ring
<1>7. rec'[g.slot].kind = "good" => rec'[g.slot].id = g.id /\ rec'[g.slot].body = written
  BY <1>2, <1>6 DEF Good, Torn, Blank
<1>8. /\ InOrder(rec, f, written - 1) /\ Behind(rec, Saved(c), f)
      /\ Kept(rec, acked, written, None)
      /\ Cardinality(Hidden(rec, f, Saved(c), None)) <= blanks
  BY DEF Moving, Records
<1>9. /\ InOrder(rec', g, written) /\ Behind(rec', Saved(c), g)
      /\ Kept(rec', acked, written, g.slot) /\ Saved(c).id < g.id
      /\ Hidden(rec', g, Saved(c), g.slot) \subseteq Hidden(rec, f, Saved(c), None)
  BY <1>1, <1>3, <1>4, <1>6, <1>7, <1>8, RecordAdded
<1>10. Cardinality(Hidden(rec', g, Saved(c), g.slot)) <= blanks
  BY <1>3, <1>8, <1>9, HiddenGrows
<1> QED
  BY <1>1, <1>2, <1>5, <1>6, <1>7, <1>9, <1>10

LEMMA SpoiltStep ==
  ASSUME FlashTypeOK, FlashTypeOK',
         NEW c \in Rings(CatSlots), NEW f \in Rings(Slots), CatRing(cat, c), Writing(c, f),
         NEW r \in {Torn, Blank}, Leave(r)
  PROVE  /\ cat' = cat /\ rec'[f.slot] = r
         /\ InOrder(rec', f, written) /\ Behind(rec', Saved(c), f)
         /\ Kept(rec', acked, written, f.slot)
         /\ Cardinality(Hidden(rec', f, Saved(c), f.slot)) <= blanks
<1>1. job.area = "record" /\ map = f /\ Saved(c).id < f.id
  BY DEF Writing
<1>2. cat' = cat /\ rec' = [rec EXCEPT ![f.slot] = r]
  BY <1>1 DEF Leave
<1>3. /\ cat \in Catalogs /\ rec \in Ring /\ Saved(c) \in Fronts(Slots)
      /\ written \in Nat /\ acked \in Nat /\ blanks \in Nat
  BY FoundTypes
<1>4. rec' \in Ring
  BY DEF FlashTypeOK, Ring
<1>5. f.slot \in 0 .. Slots - 1
  BY SizesType, RingsFacts, NumberFacts
<1>6. rec'[f.slot] = r /\ \A k \in 0 .. Slots - 1 : k # f.slot => rec'[k] = rec[k]
  BY <1>2, <1>3, <1>5 DEF Ring
<1>7. rec'[f.slot].kind # "good"
  BY <1>6 DEF Torn, Blank
<1>8. /\ InOrder(rec, f, written) /\ Behind(rec, Saved(c), f)
      /\ Kept(rec, acked, written, f.slot)
      /\ Cardinality(Hidden(rec, f, Saved(c), f.slot)) <= blanks
  BY DEF Writing, Records
<1>9. /\ InOrder(rec', f, written) /\ Behind(rec', Saved(c), f)
      /\ Kept(rec', acked, written, f.slot)
      /\ Hidden(rec', f, Saved(c), f.slot) \subseteq Hidden(rec, f, Saved(c), f.slot)
  BY <1>1, <1>3, <1>4, <1>6, <1>7, <1>8, RecordSpoilt
<1>10. Cardinality(Hidden(rec', f, Saved(c), f.slot)) <= blanks
  BY <1>3, <1>8, <1>9, HiddenGrows
<1> QED
  BY <1>2, <1>6, <1>9, <1>10

LEMMA CatalogStep ==
  ASSUME FlashTypeOK, NEW c \in Rings(CatSlots), NEW f, CatRing(cat, c), Booting(c, f),
         NEW r \in {Record, Torn, Blank}, Leave(r)
  PROVE  /\ rec' = rec /\ CatRing(cat', c) /\ SavedIn(cat', c) = Saved(c)
         /\ cat'[catMap.slot] = r /\ r \in {Good(catMap.id, map), Torn, Blank}
<1>1. job.area = "catalog" /\ catMap = NextOf(c, CatSlots)
  BY DEF Booting
<1>2. rec' = rec /\ cat' = [cat EXCEPT ![catMap.slot] = r] /\ Record = Good(catMap.id, map)
  BY <1>1 DEF Leave, Record
<1>3. cat \in Catalogs /\ catMap.slot \in 0 .. CatSlots - 1
  BY DEF FlashTypeOK, Catalogs, Fronts
<1>4. cat'[catMap.slot] = r
      /\ \A k \in 0 .. CatSlots - 1 : k # NextOf(c, CatSlots).slot => cat'[k] = cat[k]
  BY <1>1, <1>2, <1>3 DEF Catalogs
<1>5. CatRing(cat', c) /\ SavedIn(cat', c) = SavedIn(cat, c)
  BY <1>3, <1>4, CatalogStays
<1> QED
  BY <1>2, <1>4, <1>5 DEF Saved

LEMMA ProgramStep ==
  ASSUME FlashTypeOK, FlashTypeOK', acked <= written,
         NEW c \in Rings(CatSlots), NEW f \in Rings(Slots), CatRing(cat, c), Program,
         Moving(c, f) \/ Writing(c, f) \/ Booting(c, f)
  PROVE  \E g \in Rings(Slots) : Found(c, g)'
<1>1. PICK r \in {Record, Torn, Blank} : (r = Record => job.intact) /\ Leave(r)
  BY Zenon DEF Program
<1>2. /\ pc = "program" /\ pc' = "verify" /\ catMap' = catMap /\ map' = map /\ job' = job
      /\ ask' = ask /\ written' = written /\ acked' = acked /\ blanks' = blanks
  BY DEF Program
<1>3. cut' = cut
  BY DEF Program
<1>4. CASE Moving(c, f)
  <2>1. PICK g : g = NextOf(f, Slots)
    OBVIOUS
  <2>2. /\ g \in Rings(Slots) /\ map = g /\ job.area = "record" /\ cat' = cat
        /\ InOrder(rec', g, written) /\ Behind(rec', Saved(c), g)
        /\ Kept(rec', acked, written, g.slot) /\ Saved(c).id < g.id
        /\ Cardinality(Hidden(rec', g, Saved(c), g.slot)) <= blanks
        /\ rec'[g.slot].kind = "good" => rec'[g.slot].body = written
    BY <1>1, <1>2, <1>4, <2>1, AddedStep
  <2>3. ~cut'
    BY <1>3, <1>4, Zenon DEF Moving
  <2>4. NothingNewer(cat, c)' /\ CatRing(cat, c)'
    BY <1>4, <2>2 DEF Moving
  <2>5. Asked(g)'
    BY <1>2, <1>4, <2>1 DEF Moving, Asked
  <2>6. Records(c, g, written, g.slot)'
    BY <1>2, <2>2 DEF Records, Saved
  <2>7. Writing(c, g)'
    BY <1>2, <2>2, <2>3, <2>4, <2>5, <2>6 DEF Writing, Saved
  <2> QED
    BY <2>2, <2>4, <2>7 DEF Found
<1>5. CASE Writing(c, f)
  <2>1. r \in {Torn, Blank}
    <3>1. ~job.intact
      BY <1>2, <1>5, Zenon DEF Writing
    <3> QED
      BY <1>1, <3>1, Zenon
  <2>2. /\ cat' = cat /\ rec'[f.slot] = r
        /\ InOrder(rec', f, written) /\ Behind(rec', Saved(c), f)
        /\ Kept(rec', acked, written, f.slot)
        /\ Cardinality(Hidden(rec', f, Saved(c), f.slot)) <= blanks
    BY <1>1, <1>5, <2>1, SpoiltStep
  <2>3. ~cut'
    BY <1>3, <1>5, Zenon DEF Writing
  <2>4. /\ NothingNewer(cat, c)' /\ CatRing(cat, c)' /\ Asked(f)' /\ (Saved(c).id < f.id)'
        /\ job'.area = "record" /\ map' = f
    BY <1>2, <1>5, <2>2 DEF Writing, Asked, Saved
  <2>5. Records(c, f, written, f.slot)'
    BY <1>2, <2>2 DEF Records, Saved
  <2>6. rec'[f.slot].kind # "good"
    BY <2>1, <2>2 DEF Torn, Blank
  <2>7. Writing(c, f)'
    BY <1>2, <2>2, <2>3, <2>4, <2>5, <2>6 DEF Writing
  <2> QED
    BY <2>4, <2>7 DEF Found
<1>6. CASE Booting(c, f)
  <2>1. /\ rec' = rec /\ CatRing(cat', c) /\ SavedIn(cat', c) = Saved(c)
        /\ cat'[catMap.slot] \in {Good(catMap.id, map), Torn, Blank}
    BY <1>1, <1>6, CatalogStep
  <2>2. Saved(c)' = Saved(c)
    BY <2>1 DEF Saved
  <2>3. /\ (InOrder(rec, f, written))' /\ Behind(rec, Saved(c), f)' /\ Fresh(rec, map)'
        /\ Kept(rec, acked, written, None)'
    BY <1>2, <1>6, <2>1, <2>2 DEF Booting
  <2>4. Cardinality(Hidden(rec, f, Saved(c), None))' <= blanks' + (IF cut' THEN 1 ELSE 0)
    <3>1. Cardinality(Hidden(rec, f, Saved(c), None)) <= blanks + (IF cut THEN 1 ELSE 0)
      BY <1>6 DEF Booting
    <3> QED
      BY <3>1, <1>2, <1>3, <2>1, <2>2
  <2>5. /\ pc' = "verify" /\ job'.area = "catalog" /\ ask' = NoAsk
        /\ catMap' = NextOf(c, CatSlots) /\ map' = MapOf(f)
        /\ cat'[catMap'.slot] \in {Good(catMap'.id, map'), Torn, Blank}
    BY <1>2, <1>6, <2>1 DEF Booting
  <2>6. Booting(c, f)'
    BY <2>3, <2>4, <2>5 DEF Booting
  <2> QED
    BY <2>1, <2>6 DEF Found
<1> QED
  BY <1>4, <1>5, <1>6

(* A search from the map of the newest record passes nothing for nothing.   *)
LEMMA SavedMap ==
  ASSUME NEW f \in Rings(Slots), NEW ring, Fresh(ring, MapOf(f))
  PROVE  Behind(ring, MapOf(f), f)
         /\ Cardinality(Hidden(ring, f, MapOf(f), None)) = 0
<1>1. /\ f.id \in Nat /\ MapOf(f).id = f.id /\ Number(f.slot, f, Slots) = f.id
      /\ \A k \in 0 .. Slots - 1 : Number(k, f, Slots) \in Int /\ Number(k, f, Slots) <= f.id
  BY SizesType, RingsFacts, NumberFacts
<1>2. Behind(ring, MapOf(f), f)
  <2>1. CASE f.id = 0
    BY <2>1 DEF Behind, MapOf
  <2>2. CASE f.id # 0
    <3>1. MapOf(f) = f
      BY <2>2 DEF MapOf
    <3>2. Number(f.slot, f, Slots) - f.id = 0 /\ f.id <= f.id
      BY <1>1
    <3>3. 0 \in Laps(Slots)
      BY SizesType, ZeroLaps
    <3> QED
      BY <2>2, <3>1, <3>2, <3>3 DEF Behind, Fresh
  <2> QED
    BY <2>1, <2>2
<1>3. Hidden(ring, f, MapOf(f), None) = {}
  BY <1>1 DEF Hidden
<1> QED
  BY <1>2, <1>3, FS_EmptySet

(* After the attempt to save a catalog the next boot begins with it, or     *)
(* with the one before.                                                     *)
LEMMA AttemptEnds ==
  ASSUME FlashTypeOK, NEW c \in Rings(CatSlots), NEW f \in Rings(Slots), Booting(c, f),
         NEW then, CatRing(then, c), SavedIn(then, c) = Saved(c),
         NothingNewer(then, c) \/ then[catMap.slot] \in {Good(catMap.id, map), Torn, Blank}
  PROVE  \E d \in Rings(CatSlots) :
           /\ CatRing(then, d) /\ NothingNewer(then, d) /\ Behind(rec, SavedIn(then, d), f)
           /\ Cardinality(Hidden(rec, f, SavedIn(then, d), None))
                <= blanks + (IF cut THEN 1 ELSE 0)
<1>1. /\ catMap = NextOf(c, CatSlots) /\ map = MapOf(f) /\ Fresh(rec, map)
      /\ Behind(rec, Saved(c), f)
  BY DEF Booting
<1>2. Cardinality(Hidden(rec, f, Saved(c), None)) <= blanks + (IF cut THEN 1 ELSE 0)
  BY DEF Booting
<1>3. CASE then[catMap.slot] = Good(catMap.id, map)
  <2>1. PICK d : d = NextOf(c, CatSlots)
    OBVIOUS
  <2>2. /\ d \in Rings(CatSlots) /\ CatRing(then, d) /\ NothingNewer(then, d)
        /\ SavedIn(then, d) = map
    BY <1>1, <1>3, <2>1, CatalogSaved
  <2>3. Behind(rec, map, f) /\ Cardinality(Hidden(rec, f, map, None)) = 0
    BY <1>1, SavedMap
  <2>4. 0 <= blanks + (IF cut THEN 1 ELSE 0)
    <3>1. (IF cut THEN 1 ELSE 0) \in {0, 1}
      BY Zenon
    <3> QED
      BY <3>1 DEF FlashTypeOK
  <2> QED
    BY <2>2, <2>3, <2>4
<1>4. CASE NothingNewer(then, c)
  BY <1>1, <1>2, <1>4
<1>5. CASE then[catMap.slot] \in {Torn, Blank}
  <2>1. NothingNewer(then, c)
    BY <1>1, <1>5 DEF NothingNewer, Torn, Blank
  <2> QED
    BY <1>1, <1>2, <2>1
<1> QED
  BY <1>3, <1>4, <1>5

LEMMA CountedBlanks ==
  ASSUME CountedCut, blanks \in Nat
  PROVE  blanks' = blanks + (IF cut THEN 1 ELSE 0) /\ ~cut'
<1>1. CASE cut
  <2>1. blanks' = blanks + 1 /\ (IF cut THEN 1 ELSE 0) = 1 /\ ~cut'
    BY <1>1, Zenon DEF CountedCut
  <2> QED
    BY <2>1
<1>2. CASE ~cut
  <2>1. blanks' = blanks /\ (IF cut THEN 1 ELSE 0) = 0 /\ ~cut'
    BY <1>2, Zenon DEF CountedCut
  <2> QED
    BY <2>1
<1> QED
  BY <1>1, <1>2

LEMMA VerifyGoodStep ==
  ASSUME FlashTypeOK, Searchable, NEW c \in Rings(CatSlots), NEW f \in Rings(Slots),
         CatRing(cat, c), VerifyGood, Writing(c, f) \/ Booting(c, f)
  PROVE  \E d \in Rings(CatSlots) : Found(d, f)'
<1>1. /\ pc = "verify" /\ Target.kind = "good" /\ pc' = "ready"
      /\ cat' = cat /\ rec' = rec /\ map' = map /\ ask' = ask /\ written' = written
  BY DEF VerifyGood
<1>t. /\ Saved(c) \in Fronts(Slots) /\ written \in Nat /\ blanks \in Nat
  BY FoundTypes
<1>f. f.slot \in 0 .. Slots - 1 /\ f.id \in Nat /\ Slots \in Nat
  BY SizesType, RingsFacts, NumberFacts
<1>2. CASE Writing(c, f)
  <2>1. job.area = "record" /\ map = f /\ Saved(c).id < f.id
    BY <1>2 DEF Writing
  <2>2. rec[f.slot].kind = "good" /\ rec[f.slot].body = written
    BY <1>1, <1>2, <2>1 DEF Target, Writing
  <2>3. acked' = written /\ blanks' = blanks /\ cut' = cut
    BY <2>1, Zenon DEF VerifyGood
  <2>4. map' = MapOf(f)
    <3>1. f.id # 0
      BY <2>1, <1>t, <1>f DEF Fronts
    <3> QED
      BY <1>1, <2>1, <3>1 DEF MapOf
  <2>5. Kept(rec, acked, written, None)'
    <3>1. f.slot # None /\ written >= written
      BY <1>f, <1>t DEF None
    <3> QED
      BY <1>1, <1>f, <2>2, <2>3, <3>1 DEF Kept
  <2>6. Records(c, f, written, None)'
    <3>1. Hidden(rec, f, Saved(c), None) \subseteq Hidden(rec, f, Saved(c), f.slot)
      BY <2>2 DEF Hidden
    <3>2. Cardinality(Hidden(rec, f, Saved(c), f.slot)) <= blanks
      BY <1>2 DEF Writing, Records
    <3>3. Cardinality(Hidden(rec, f, Saved(c), None)) <= blanks
      BY <3>1, <3>2, <1>t, HiddenGrows
    <3> QED
      BY <1>1, <1>2, <2>3, <3>3 DEF Writing, Records, Saved
  <2>7. ~cut'
    BY <1>2, <2>3, Zenon DEF Writing
  <2>8. NothingNewer(cat, c)' /\ CatRing(cat, c)' /\ Asked(f)'
    BY <1>1, <1>2 DEF Writing, Asked
  <2>9. Ready(c, f)'
    BY <1>1, <2>4, <2>5, <2>6, <2>7, <2>8 DEF Ready
  <2> QED
    BY <2>8, <2>9 DEF Found
<1>3. CASE Booting(c, f)
  <2>1. /\ job.area = "catalog" /\ ask = NoAsk /\ catMap = NextOf(c, CatSlots)
        /\ map = MapOf(f) /\ InOrder(rec, f, written) /\ Fresh(rec, map)
        /\ Kept(rec, acked, written, None)
        /\ cat[catMap.slot] \in {Good(catMap.id, map), Torn, Blank}
    BY <1>1, <1>3 DEF Booting
  <2>2. cat[catMap.slot] = Good(catMap.id, map)
    <3>1. cat[catMap.slot].kind = "good"
      BY <1>1, <2>1 DEF Target
    <3>2. cat[catMap.slot] # Torn /\ cat[catMap.slot] # Blank
      BY <3>1 DEF Torn, Blank
    <3> QED
      BY <2>1, <3>2
  <2>3. blanks' = 0 /\ cut' = FALSE /\ acked' = acked
    BY <2>1, Zenon DEF VerifyGood
  <2>4. PICK d : d = NextOf(c, CatSlots)
    OBVIOUS
  <2>5. /\ d \in Rings(CatSlots) /\ CatRing(cat, d) /\ NothingNewer(cat, d) /\ SavedIn(cat, d) = map
    BY <2>1, <2>2, <2>4, CatalogSaved
  <2>6. Behind(rec, map, f) /\ Cardinality(Hidden(rec, f, map, None)) = 0
    BY <2>1, SavedMap
  <2>7. Records(d, f, written, None)'
    BY <1>1, <2>1, <2>3, <2>5, <2>6 DEF Records, Saved
  <2>8. Kept(rec, acked, written, None)' /\ NothingNewer(cat, d)' /\ CatRing(cat, d)' /\ Asked(f)'
    BY <1>1, <2>1, <2>3, <2>5 DEF Asked
  <2>9. ~cut'
    BY <2>3
  <2>10. Ready(d, f)'
    BY <1>1, <2>1, <2>7, <2>8, <2>9 DEF Ready
  <2> QED
    BY <2>5, <2>8, <2>10 DEF Found
<1> QED
  BY <1>2, <1>3

LEMMA VerifyBadStep ==
  ASSUME FlashTypeOK, NEW c, NEW f, CatRing(cat, c), VerifyBad,
         Writing(c, f) \/ Booting(c, f)
  PROVE  Found(c, f)'
<1>1. /\ pc = "verify" /\ pc' = "program" /\ job' = [job EXCEPT !.tries = @ - 1, !.intact = FALSE]
      /\ cat' = cat /\ rec' = rec /\ catMap' = catMap /\ map' = map /\ ask' = ask
      /\ written' = written /\ acked' = acked /\ blanks' = blanks
  BY DEF VerifyBad
<1>2. cut' = cut
  BY DEF VerifyBad
<1>3. job'.area = job.area /\ job'.intact = FALSE
  <2>1. job = [area |-> job.area, tries |-> job.tries, intact |-> job.intact]
    BY DEF FlashTypeOK
  <2>2. job' = [area |-> job.area, tries |-> job.tries - 1, intact |-> FALSE]
    BY <1>1, <2>1
  <2> QED
    BY <2>2
<1>4. CatRing(cat, c)'
  BY <1>1
<1>5. CASE Writing(c, f)
  <2>1. ~cut' /\ ((pc' = "program" /\ ~job'.intact) \/ pc' = "verify")
    BY <1>1, <1>2, <1>3, <1>5, Zenon DEF Writing
  <2>2. /\ job'.area = "record" /\ map' = f /\ (Saved(c).id < f.id)' /\ NothingNewer(cat, c)'
        /\ Records(c, f, written, f.slot)' /\ Kept(rec, acked, written, f.slot)' /\ Asked(f)'
        /\ (rec[f.slot].kind = "good" => rec[f.slot].body = written)'
    BY <1>1, <1>3, <1>5 DEF Writing, Records, Saved, Asked
  <2>3. Writing(c, f)'
    BY <2>1, <2>2 DEF Writing
  <2> QED
    BY <1>4, <2>3 DEF Found
<1>6. CASE Booting(c, f)
  <2>1. /\ pc' = "program" /\ job'.area = "catalog" /\ ask' = NoAsk
        /\ catMap' = NextOf(c, CatSlots) /\ map' = MapOf(f)
        /\ InOrder(rec, f, written)' /\ Behind(rec, Saved(c), f)' /\ Fresh(rec, map)'
        /\ Kept(rec, acked, written, None)'
        /\ cat'[catMap'.slot] \in {Good(catMap'.id, map'), Torn, Blank}
    BY <1>1, <1>3, <1>6 DEF Booting, Saved
  <2>2. Cardinality(Hidden(rec, f, Saved(c), None))' <= blanks' + (IF cut' THEN 1 ELSE 0)
    <3>1. Cardinality(Hidden(rec, f, Saved(c), None)) <= blanks + (IF cut THEN 1 ELSE 0)
      BY <1>6 DEF Booting
    <3> QED
      BY <3>1, <1>1, <1>2 DEF Saved
  <2>3. Booting(c, f)'
    BY <2>1, <2>2 DEF Booting
  <2> QED
    BY <1>4, <2>3 DEF Found
<1> QED
  BY <1>5, <1>6

LEMMA GiveUpStep ==
  ASSUME FlashTypeOK, NEW c \in Rings(CatSlots), NEW f \in Rings(Slots),
         CatRing(cat, c), GiveUp, Writing(c, f) \/ Booting(c, f)
  PROVE  \E d \in Rings(CatSlots) : Found(d, f)'
<1>1. /\ pc = "verify" /\ pc' = "ready"
      /\ cat' = cat /\ rec' = rec /\ catMap' = catMap /\ map' = map /\ ask' = ask
      /\ written' = written /\ acked' = acked
  BY DEF GiveUp
<1>t. /\ Saved(c) \in Fronts(Slots) /\ written \in Nat /\ blanks \in Nat
  BY FoundTypes
<1>f. f.slot \in 0 .. Slots - 1 /\ f.id \in Nat /\ Slots \in Nat
  BY SizesType, RingsFacts, NumberFacts
<1>2. CASE Writing(c, f)
  <2>1. job.area = "record" /\ map = f /\ Saved(c).id < f.id
    BY <1>2 DEF Writing
  <2>2. blanks' = (IF rec[f.slot].kind = "blank" THEN blanks + 1 ELSE blanks) /\ cut' = cut
    BY <2>1, Zenon DEF GiveUp, Target
  <2>3. map' = MapOf(f)
    <3>1. f.id # 0
      BY <2>1, <1>t, <1>f DEF Fronts
    <3> QED
      BY <1>1, <2>1, <3>1 DEF MapOf
  <2>4. Cardinality(Hidden(rec, f, Saved(c), None)) <= blanks'
    <3>1. Cardinality(Hidden(rec, f, Saved(c), f.slot)) <= blanks
      BY <1>2 DEF Writing, Records
    <3>2. CASE rec[f.slot].kind = "blank"
      <4>1. Hidden(rec, f, Saved(c), None) \subseteq Hidden(rec, f, Saved(c), f.slot) \cup {f.slot}
        BY DEF Hidden
      <4>2. Cardinality(Hidden(rec, f, Saved(c), None)) <= blanks + 1
        BY <3>1, <4>1, <1>t, HiddenGrows
      <4> QED
        BY <2>2, <3>2, <4>2
    <3>3. CASE rec[f.slot].kind # "blank"
      <4>1. Hidden(rec, f, Saved(c), None) \subseteq Hidden(rec, f, Saved(c), f.slot)
        BY <3>3 DEF Hidden
      <4>2. Cardinality(Hidden(rec, f, Saved(c), None)) <= blanks
        BY <3>1, <4>1, <1>t, HiddenGrows
      <4> QED
        BY <2>2, <3>3, <4>2
    <3> QED
      BY <3>2, <3>3
  <2>5. Records(c, f, written, None)'
    BY <1>1, <1>2, <2>4 DEF Writing, Records, Saved
  <2>6. Kept(rec, acked, written, None)'
    <3>1. \A k \in 0 .. Slots - 1 : k # None
      BY <1>f DEF None
    <3>2. Kept(rec, acked, written, f.slot)
      BY <1>2 DEF Writing
    <3> QED
      BY <1>1, <3>1, <3>2 DEF Kept
  <2>7. ~cut'
    BY <1>2, <2>2, Zenon DEF Writing
  <2>8. NothingNewer(cat, c)' /\ CatRing(cat, c)' /\ Asked(f)'
    BY <1>1, <1>2 DEF Writing, Asked
  <2>9. Ready(c, f)'
    BY <1>1, <2>3, <2>5, <2>6, <2>7, <2>8 DEF Ready
  <2> QED
    BY <2>8, <2>9 DEF Found
<1>3. CASE Booting(c, f)
  <2>1. /\ job.area = "catalog" /\ ask = NoAsk /\ map = MapOf(f)
        /\ InOrder(rec, f, written) /\ Kept(rec, acked, written, None)
        /\ cat[catMap.slot] \in {Good(catMap.id, map), Torn, Blank}
    BY <1>1, <1>3 DEF Booting
  <2>2. PICK d \in Rings(CatSlots) :
           /\ CatRing(cat, d) /\ NothingNewer(cat, d) /\ Behind(rec, SavedIn(cat, d), f)
           /\ Cardinality(Hidden(rec, f, SavedIn(cat, d), None))
                <= blanks + (IF cut THEN 1 ELSE 0)
    BY <1>3, <2>1, AttemptEnds DEF Saved
  <2>3. blanks' = blanks + (IF cut THEN 1 ELSE 0) /\ ~cut'
    <3>1. CountedCut
      BY <2>1, Zenon DEF GiveUp
    <3> QED
      BY <3>1, <1>t, CountedBlanks
  <2>4. Records(d, f, written, None)'
    BY <1>1, <2>1, <2>2, <2>3 DEF Records, Saved
  <2>5. Kept(rec, acked, written, None)' /\ NothingNewer(cat, d)' /\ CatRing(cat, d)' /\ Asked(f)'
    BY <1>1, <2>1, <2>2 DEF Asked
  <2>6. Ready(d, f)'
    BY <1>1, <2>1, <2>3, <2>4, <2>5 DEF Ready
  <2> QED
    BY <2>2, <2>5, <2>6 DEF Found
<1> QED
  BY <1>2, <1>3

(* The next boot finds the records as the power failure left them.          *)
LEMMA OffAgain ==
  ASSUME NEW d \in Rings(CatSlots), NEW g \in Rings(Slots), CatRing(cat, d)',
         NothingNewer(cat, d)', pc' = "off", ask' = NoAsk,
         InOrder(rec, g, written)', Behind(rec, Saved(d), g)', Kept(rec, acked, written, None)',
         (~cut') => (Cardinality(Hidden(rec, g, Saved(d), None)) <= blanks)',
         cut' => (Cardinality(Hidden(rec, g, Saved(d), g.slot)) <= blanks)'
  PROVE  Found(d, g)'
<1>1. (Cardinality(Hidden(rec, g, Saved(d), IF cut THEN g.slot ELSE None)) <= blanks)'
  <2>1. CASE cut'
    BY <2>1, Zenon
  <2>2. CASE ~cut'
    BY <2>2, Zenon
  <2> QED
    BY <2>1, <2>2
<1>2. Records(d, g, written, IF cut THEN g.slot ELSE None)'
  BY <1>1, Zenon DEF Records
<1>3. Off(d, g)'
  BY <1>2, Zenon DEF Off
<1> QED
  BY <1>3, Zenon DEF Found

(* A power failure while the record of ring g is written.                   *)
LEMMA WritingCut ==
  ASSUME FlashTypeOK, NEW c \in Rings(CatSlots), NEW g \in Rings(Slots), CatRing(cat, c),
         NothingNewer(cat, c), Crash, pc \in {"program", "verify"}, job.area = "record",
         map = g, cat' = cat, InOrder(rec', g, written), Behind(rec', Saved(c), g),
         Kept(rec', acked, written, g.slot),
         Cardinality(Hidden(rec', g, Saved(c), g.slot)) <= blanks
  PROVE  Found(c, g)'
<1>1. pc' = "off" /\ ask' = NoAsk /\ written' = written /\ acked' = acked
  BY DEF Crash
<1>2. cut' = (rec'[g.slot].kind = "blank") /\ blanks' = blanks
  <2>1. cut' = (rec'[map.slot].kind = "blank") /\ UNCHANGED blanks
    <3>1. pc \in {"program", "verify"} /\ job.area # "catalog"
      OBVIOUS
    <3> QED
      BY <3>1, Zenon DEF Crash
  <2> QED
    BY <2>1, Zenon
<1>3. blanks \in Nat
  BY DEF FlashTypeOK
<1>4. Saved(c)' = Saved(c)
  BY DEF Saved
<1>5. CatRing(cat, c)' /\ NothingNewer(cat, c)'
  OBVIOUS
<1>6. InOrder(rec, g, written)' /\ Behind(rec, Saved(c), g)'
  BY <1>1, <1>4
<1>7. Kept(rec, acked, written, None)'
  <2>1. \A k \in 0 .. Slots - 1 : k # None
    BY SizesType DEF None
  <2> QED
    BY <1>1, <2>1 DEF Kept
<1>8. (Cardinality(Hidden(rec, g, Saved(c), g.slot)) <= blanks)'
  BY <1>2, <1>4
<1>9. ASSUME ~cut' PROVE (Cardinality(Hidden(rec, g, Saved(c), None)) <= blanks)'
  <2>1. rec'[g.slot].kind # "blank"
    BY <1>2, <1>9, Zenon
  <2>2. Hidden(rec', g, Saved(c), None) \subseteq Hidden(rec', g, Saved(c), g.slot)
    BY <2>1 DEF Hidden
  <2>3. Cardinality(Hidden(rec', g, Saved(c), None)) <= blanks
    BY <1>3, <2>2, HiddenGrows
  <2> QED
    BY <1>2, <1>4, <2>3
<1> QED
  BY <1>1, <1>5, <1>6, <1>7, <1>8, <1>9, OffAgain

LEMMA CrashStep ==
  ASSUME FlashTypeOK, FlashTypeOK', acked <= written,
         NEW c \in Rings(CatSlots), NEW f \in Rings(Slots), CatRing(cat, c), Crash,
         Ready(c, f) \/ Moving(c, f) \/ Writing(c, f) \/ Booting(c, f)
  PROVE  \E d \in Rings(CatSlots), g \in Rings(Slots) : Found(d, g)'
<1>1. /\ pc' = "off" /\ ask' = NoAsk /\ written' = written /\ acked' = acked
      /\ \/ cat' = cat /\ rec' = rec
         \/ pc = "program" /\ \E r \in {Torn, Blank} : Leave(r)
  BY DEF Crash
<1>t. /\ cat \in Catalogs /\ rec \in Ring /\ Saved(c) \in Fronts(Slots)
      /\ written \in Nat /\ acked \in Nat /\ blanks \in Nat
  BY FoundTypes
(* Nothing is being written, or it did not begin.                           *)
<1>2. ASSUME NEW last \in {written, written - 1}, Records(c, f, last, None),
             Kept(rec, acked, written, None), NothingNewer(cat, c), cat' = cat, rec' = rec,
             blanks' = blanks
      PROVE  Found(c, f)'
  <2>1. Saved(c)' = Saved(c)
    BY <1>2 DEF Saved
  <2>2. InOrder(rec, f, written)
    <3>1. InOrder(rec, f, last) /\ last \in Int /\ last <= written
      BY <1>2, <1>t DEF Records
    <3>2. ASSUME NEW k \in 0 .. Slots - 1, rec[k].kind = "good"
          PROVE  rec[k].body + f.id - rec[k].id <= written
      <4>1. rec[k].id \in Nat /\ rec[k].body \in Nat /\ f.id \in Nat
        BY <3>2, <1>t, RingTypes, SizesType, RingsFacts, NumberFacts
      <4>2. rec[k].body + f.id - rec[k].id <= last
        BY <3>1, <3>2 DEF InOrder
      <4> QED
        BY <3>1, <4>1, <4>2, <1>t
    <3> QED
      BY <3>1, <3>2 DEF InOrder
  <2>3. Behind(rec, Saved(c), f) /\ Cardinality(Hidden(rec, f, Saved(c), None)) <= blanks
    BY <1>2 DEF Records
  <2>4. Cardinality(Hidden(rec, f, Saved(c), f.slot)) <= blanks
    <3>1. Hidden(rec, f, Saved(c), f.slot) \subseteq Hidden(rec, f, Saved(c), None)
      BY SizesType DEF Hidden, None
    <3> QED
      BY <2>3, <3>1, <1>t, HiddenGrows
  <2>5. /\ CatRing(cat, c)' /\ NothingNewer(cat, c)' /\ InOrder(rec, f, written)'
        /\ Behind(rec, Saved(c), f)' /\ Kept(rec, acked, written, None)'
    BY <1>1, <1>2, <2>1, <2>2, <2>3
  <2>6. /\ (Cardinality(Hidden(rec, f, Saved(c), None)) <= blanks)'
        /\ (Cardinality(Hidden(rec, f, Saved(c), f.slot)) <= blanks)'
    BY <1>2, <2>1, <2>3, <2>4
  <2> QED
    BY <1>1, <2>5, <2>6, OffAgain
<1>3. CASE Ready(c, f)
  <2>1. pc = "ready"
    BY <1>3 DEF Ready
  <2>2. cat' = cat /\ rec' = rec /\ blanks' = blanks
    <3>1. blanks' = blanks
      BY <2>1, Zenon DEF Crash
    <3> QED
      BY <1>1, <2>1, <3>1
  <2>3. Found(c, f)'
    BY <1>2, <1>3, <2>2 DEF Ready
  <2> QED
    BY <2>3
<1>4. CASE Moving(c, f)
  <2>1. pc \in {"moved", "wrapped"} \/ (pc = "program" /\ job.area = "record")
    BY <1>4 DEF Moving
  <2>2. blanks' = blanks
    <3>1. CASE pc \in {"moved", "wrapped"}
      <4>1. pc \notin {"program", "verify"}
        BY <3>1
      <4> QED
        BY <4>1, Zenon DEF Crash
    <3>2. CASE pc = "program" /\ job.area = "record"
      <4>1. pc \in {"program", "verify"} /\ job.area # "catalog"
        BY <3>2
      <4> QED
        BY <4>1, Zenon DEF Crash
    <3> QED
      BY <2>1, <3>1, <3>2
  <2>3. CASE cat' = cat /\ rec' = rec
    <3>1. Found(c, f)'
      BY <1>2, <1>4, <2>2, <2>3 DEF Moving
    <3> QED
      BY <3>1
  <2>4. ASSUME pc = "program", NEW r \in {Torn, Blank}, Leave(r)
        PROVE  \E g \in Rings(Slots) : Found(c, g)'
    <3>1. PICK g : g = NextOf(f, Slots)
      OBVIOUS
    <3>2. r \in {Record, Torn, Blank}
      OBVIOUS
    <3>3. /\ g \in Rings(Slots) /\ map = g /\ job.area = "record" /\ cat' = cat
          /\ InOrder(rec', g, written) /\ Behind(rec', Saved(c), g)
          /\ Kept(rec', acked, written, g.slot)
          /\ Cardinality(Hidden(rec', g, Saved(c), g.slot)) <= blanks
      BY <1>4, <2>4, <3>1, <3>2, AddedStep
    <3>4. NothingNewer(cat, c)
      BY <1>4 DEF Moving
    <3>5. Found(c, g)'
      BY <2>4, <3>3, <3>4, WritingCut
    <3> QED
      BY <3>3, <3>5
  <2> QED
    BY <1>1, <2>3, <2>4
<1>5. CASE Writing(c, f)
  <2>1. /\ pc \in {"program", "verify"} /\ job.area = "record" /\ map = f /\ NothingNewer(cat, c)
    BY <1>5 DEF Writing
  <2>2. /\ cat' = cat /\ InOrder(rec', f, written) /\ Behind(rec', Saved(c), f)
        /\ Kept(rec', acked, written, f.slot)
        /\ Cardinality(Hidden(rec', f, Saved(c), f.slot)) <= blanks
    <3>1. CASE cat' = cat /\ rec' = rec
      BY <1>5, <3>1 DEF Writing, Records
    <3>2. ASSUME NEW r \in {Torn, Blank}, Leave(r)
          PROVE  /\ cat' = cat /\ InOrder(rec', f, written) /\ Behind(rec', Saved(c), f)
                 /\ Kept(rec', acked, written, f.slot)
                 /\ Cardinality(Hidden(rec', f, Saved(c), f.slot)) <= blanks
      BY <1>5, <3>2, SpoiltStep
    <3> QED
      BY <1>1, <3>1, <3>2
  <2>3. Found(c, f)'
    BY <2>1, <2>2, WritingCut
  <2> QED
    BY <2>3
<1>6. CASE Booting(c, f)
  <2>1. /\ pc \in {"program", "verify"} /\ job.area = "catalog" /\ catMap = NextOf(c, CatSlots)
        /\ InOrder(rec, f, written) /\ Kept(rec, acked, written, None)
        /\ \/ NothingNewer(cat, c) \/ cat[catMap.slot] \in {Good(catMap.id, map), Torn, Blank}
    BY <1>6 DEF Booting
  <2>2. /\ rec' = rec /\ CatRing(cat', c) /\ SavedIn(cat', c) = Saved(c)
        /\ \/ NothingNewer(cat', c) \/ cat'[catMap.slot] \in {Good(catMap.id, map), Torn, Blank}
    <3>1. CASE cat' = cat /\ rec' = rec
      BY <2>1, <3>1 DEF Saved
    <3>2. ASSUME NEW r \in {Torn, Blank}, Leave(r)
          PROVE  /\ rec' = rec /\ CatRing(cat', c) /\ SavedIn(cat', c) = Saved(c)
                 /\ cat'[catMap.slot] \in {Good(catMap.id, map), Torn, Blank}
      <4>1. r \in {Record, Torn, Blank}
        OBVIOUS
      <4> QED
        BY <1>6, <3>2, <4>1, CatalogStep
    <3> QED
      BY <1>1, <3>1, <3>2
  <2>3. PICK d \in Rings(CatSlots) :
           /\ CatRing(cat', d) /\ NothingNewer(cat', d) /\ Behind(rec, SavedIn(cat', d), f)
           /\ Cardinality(Hidden(rec, f, SavedIn(cat', d), None))
                <= blanks + (IF cut THEN 1 ELSE 0)
    BY <1>6, <2>2, AttemptEnds
  <2>4. blanks' = blanks + (IF cut THEN 1 ELSE 0) /\ ~cut'
    <3>1. CountedCut
      BY <2>1, Zenon DEF Crash
    <3> QED
      BY <3>1, <1>t, CountedBlanks
  <2>5. /\ CatRing(cat, d)' /\ NothingNewer(cat, d)' /\ InOrder(rec, f, written)'
        /\ Behind(rec, Saved(d), f)' /\ Kept(rec, acked, written, None)'
        /\ (Cardinality(Hidden(rec, f, Saved(d), None)) <= blanks)'
    BY <1>1, <2>1, <2>2, <2>3, <2>4 DEF Saved
  <2>6. Found(d, f)'
    BY <1>1, <2>4, <2>5, OffAgain
  <2> QED
    BY <2>6
<1> QED
  BY <1>3, <1>4, <1>5, <1>6

LEMMA FlashInvInit == Init => FlashInv
<1> SUFFICES ASSUME Init PROVE FlashInv
  OBVIOUS
<1>1. FlashTypeOK
  BY FlashTypeInit
<1>2. acked <= written
  BY DEF Init
<1> QED
  BY <1>1, <1>2, FoundInit DEF FlashInv

(* Erased slots are only forgotten while a boot still finds the newest.     *)
LEMMA StaysSearchable ==
  ASSUME FlashTypeOK, FlashTypeOK', [Next]_vars, Searchable'
  PROVE  Searchable
<1>1. CASE blanks' >= blanks
  <2>1. blanks \in Nat /\ blanks' \in Nat /\ Forward(Span) \in Nat
    BY SizesType, ForwardType DEF FlashTypeOK
  <2>2. blanks' < Forward(Span) - 1
    BY DEF Searchable
  <2> QED
    BY <1>1, <2>1, <2>2 DEF Searchable
<1>2. CASE ~(blanks' >= blanks)
  <2> SUFFICES ASSUME ~Searchable PROVE FALSE
    OBVIOUS
  <2>1. blanks \in Nat
    BY DEF FlashTypeOK
  <2>2. CountedCut => blanks' >= blanks
    <3>1. ASSUME CountedCut PROVE blanks' = blanks \/ blanks' = blanks + 1
      BY <3>1, Zenon DEF CountedCut
    <3> QED
      BY <2>1, <3>1
  <2>3. UNCHANGED blanks => blanks' >= blanks
    BY <2>1
  <2>4. ~Boot /\ ~WriteRecord /\ ~Wrap /\ ~Count /\ ~Program /\ ~VerifyBad
        /\ ~ReadBegin /\ ~ReadEnd /\ ~UNCHANGED vars
    BY <1>2, <2>3 DEF Boot, WriteRecord, Wrap, Count, Program, VerifyBad, ReadBegin, ReadEnd, vars
  <2>5. ~VerifyGood
    BY <1>2, <2>2, <2>3, Zenon DEF VerifyGood
  <2>6. ~GiveUp
    <3>1. ASSUME GiveUp PROVE FALSE
      <4>1. CountedCut \/ blanks' = blanks + 1 \/ UNCHANGED blanks
        BY <3>1, Zenon DEF GiveUp
      <4> QED
        BY <4>1, <1>2, <2>1, <2>2, <2>3
    <3> QED
      BY <3>1
  <2>7. ~Crash
    BY <1>2, <2>2, <2>3, Zenon DEF Crash
  <2> QED
    BY <2>4, <2>5, <2>6, <2>7 DEF Next
<1> QED
  BY <1>1, <1>2

LEMMA AckedWritten ==
  ASSUME FlashTypeOK, acked <= written, [Next]_vars
  PROVE  acked' <= written'
<1>1. acked \in Nat /\ written \in Nat
  BY DEF FlashTypeOK
<1>2. CASE WriteRecord
  BY <1>1, <1>2 DEF WriteRecord
<1>3. CASE VerifyGood
  <2>1. (acked' = acked \/ acked' = written) /\ written' = written
    BY <1>3, Zenon DEF VerifyGood, CountedCut
  <2> QED
    BY <1>1, <2>1
<1>4. CASE ~WriteRecord /\ ~VerifyGood
  <2>1. acked' = acked /\ written' = written
    BY <1>4, Zenon DEF Next, Boot, Wrap, Count, Program, VerifyBad, GiveUp, ReadBegin, ReadEnd,
         Crash, vars
  <2> QED
    BY <2>1
<1> QED
  BY <1>2, <1>3, <1>4

LEMMA FlashInvStep == FlashInv /\ [Next]_vars => FlashInv'
<1> SUFFICES ASSUME FlashInv, [Next]_vars PROVE FlashInv'
  OBVIOUS
<1>1. FlashTypeOK /\ acked <= written
  BY DEF FlashInv
<1>2. FlashTypeOK'
  BY <1>1, FlashTypeStep
<1>3. acked' <= written'
  BY <1>1, AckedWritten
<1>4. SUFFICES ASSUME Searchable'
               PROVE  \E d \in Rings(CatSlots), g \in Rings(Slots) : Found(d, g)'
  BY <1>2, <1>3 DEF FlashInv
<1>5. Searchable
  BY <1>1, <1>2, <1>4, StaysSearchable
<1>6. PICK c \in Rings(CatSlots), f \in Rings(Slots) : Found(c, f)
  BY <1>5 DEF FlashInv
<1>7. CatRing(cat, c)
  BY <1>6 DEF Found
<1>p. /\ Off(c, f) \/ Ready(c, f) \/ Moving(c, f) \/ Writing(c, f) \/ Booting(c, f)
      /\ Off(c, f) => pc = "off"
      /\ Ready(c, f) => pc = "ready"
      /\ Moving(c, f) => pc \in {"moved", "wrapped"} \/ (pc = "program" /\ job.area = "record")
      /\ Writing(c, f) => pc \in {"program", "verify"} /\ job.area = "record"
      /\ Booting(c, f) => pc \in {"program", "verify"} /\ job.area = "catalog"
  BY <1>6 DEF Found, Off, Ready, Moving, Writing, Booting
<1>8. CASE Boot
  <2>1. Off(c, f)
    BY <1>8, <1>p DEF Boot
  <2> QED
    BY <1>1, <1>5, <1>7, <1>8, <2>1, BootStep
<1>9. CASE WriteRecord
  <2>1. Ready(c, f)
    BY <1>9, <1>p DEF WriteRecord
  <2> QED
    BY <1>1, <1>7, <1>9, <2>1, WriteRecordStep
<1>10. CASE Wrap \/ Count
  <2>1. Moving(c, f)
    BY <1>10, <1>p DEF Wrap, Count
  <2> QED
    BY <1>7, <1>10, <2>1, MoveStep
<1>11. CASE Program
  <2>1. Moving(c, f) \/ Writing(c, f) \/ Booting(c, f)
    BY <1>11, <1>p DEF Program
  <2> QED
    BY <1>1, <1>2, <1>7, <1>11, <2>1, ProgramStep
<1>12. CASE VerifyGood
  <2>1. Writing(c, f) \/ Booting(c, f)
    BY <1>12, <1>p DEF VerifyGood
  <2> QED
    BY <1>1, <1>5, <1>7, <1>12, <2>1, VerifyGoodStep
<1>13. CASE VerifyBad
  <2>1. Writing(c, f) \/ Booting(c, f)
    BY <1>13, <1>p DEF VerifyBad
  <2> QED
    BY <1>1, <1>7, <1>13, <2>1, VerifyBadStep
<1>14. CASE GiveUp
  <2>1. Writing(c, f) \/ Booting(c, f)
    BY <1>14, <1>p DEF GiveUp
  <2> QED
    BY <1>1, <1>7, <1>14, <2>1, GiveUpStep
<1>15. CASE ReadBegin
  <2>1. Moving(c, f) \/ Writing(c, f)
    BY <1>15, <1>p DEF ReadBegin
  <2> QED
    BY <1>1, <1>7, <1>15, <2>1, ReadBeginStep
<1>16. CASE ReadEnd
  <2>1. Ready(c, f)
    BY <1>16, <1>p DEF ReadEnd, Unlocked
  <2> QED
    BY <1>7, <1>16, <2>1, ReadEndStep
<1>17. CASE Crash
  <2>1. Ready(c, f) \/ Moving(c, f) \/ Writing(c, f) \/ Booting(c, f)
    BY <1>17, <1>p DEF Crash
  <2> QED
    BY <1>1, <1>2, <1>7, <1>17, <2>1, CrashStep
<1>18. CASE UNCHANGED vars
  <2>1. /\ cat' = cat /\ rec' = rec /\ catMap' = catMap /\ map' = map /\ pc' = pc /\ job' = job
        /\ ask' = ask /\ written' = written /\ acked' = acked /\ blanks' = blanks
    BY <1>18 DEF vars
  <2>2. cut' = cut
    BY <1>18 DEF vars
  <2>3. Found(c, f)'
    BY <1>6, <2>1, <2>2, Zenon DEF Found, CatRing, Off, Ready, Moving, Writing, Booting,
       Records, Asked, Saved
  <2> QED
    BY <2>3
<1> QED
  BY <1>8, <1>9, <1>10, <1>11, <1>12, <1>13, <1>14, <1>15, <1>16, <1>17, <1>18 DEF Next

(* Behind whatever catalog the next boot begins with, the records are in    *)
(* order, through writes, retries, power failures and boots.                *)
LEMMA FlashInvariant == Spec => []FlashInv
BY FlashInvInit, FlashInvStep, PTL DEF Spec

(***************************************************************************)
(* What it shows                                                           *)
(***************************************************************************)
(* A record write_record reported, or a newer one, is in the flash until a  *)
(* newer one is good, through retries, given-up writes and power failures.  *)
THEOREM ReportedIsKept == Spec => []LastReportedKept
<1>1. ASSUME FlashInv PROVE LastReportedKept
  <2> SUFFICES ASSUME Searchable, RingNotLost
               PROVE  \E k \in 0 .. Slots - 1 : rec[k].kind = "good" /\ rec[k].body >= acked
    BY DEF LastReportedKept
  <2>1. PICK c \in Rings(CatSlots), f \in Rings(Slots) : Found(c, f)
    BY <1>1 DEF FlashInv
  <2>2. Kept(rec, acked, written, None) \/ Kept(rec, acked, written, f.slot)
    BY <2>1 DEF Found, Off, Ready, Moving, Writing, Booting
  <2> QED
    BY <2>2 DEF Kept, RingNotLost
<1> QED
  BY <1>1, FlashInvariant, PTL

(* Wherever the power failed, and however many boots were interrupted, the  *)
(* map a boot finds points at the newest record that was reported, or at a  *)
(* later one that was complete.                                             *)
THEOREM NewestIsFound == Spec => []NewestFound
<1>1. ASSUME FlashInv PROVE NewestFound
  <2> SUFFICES ASSUME pc \in {"program", "verify"}, job.area = "catalog", Searchable, RingNotLost
               PROVE  Newest.kind = "good" /\ Newest.body >= acked
    BY DEF NewestFound
  <2>1. PICK c \in Rings(CatSlots), f \in Rings(Slots) : Found(c, f)
    BY <1>1 DEF FlashInv
  <2>2. Booting(c, f) /\ CatRing(cat, c)
    BY <2>1 DEF Found, Off, Ready, Moving, Writing
  <2>3. /\ rec \in Ring /\ acked \in Nat
    BY <1>1, <2>2, FoundTypes DEF FlashInv
  <2>4. PICK k \in 0 .. Slots - 1 : rec[k].kind = "good" /\ rec[k].body >= acked
    BY <2>2 DEF Booting, Kept, RingNotLost
  <2>5. rec[map.slot].kind = "good" /\ map = MapOf(f)
    BY <2>2, <2>4 DEF Booting, Fresh
  <2>6. /\ f.id \in Nat /\ f.slot \in 0 .. Slots - 1 /\ Number(f.slot, f, Slots) = f.id
        /\ \A l \in 0 .. Slots - 1 : Number(l, f, Slots) \in Int /\ Number(l, f, Slots) <= f.id
        /\ \A l, m \in 0 .. Slots - 1 : Number(l, f, Slots) = Number(m, f, Slots) => l = m
    BY SizesType, RingsFacts, NumberFacts
  <2>7. rec[k].id = Number(k, f, Slots) /\ rec[k].id \in Nat \ {0}
    BY <2>2, <2>4 DEF Booting, InOrder, Ordered
  <2>8. map.slot = f.slot
    BY <2>5, <2>6, <2>7 DEF MapOf
  <2>9. rec[f.slot].id = f.id
    BY <2>2, <2>5, <2>6, <2>8 DEF Booting, InOrder, Ordered
  <2>10. CASE k = f.slot
    BY <2>4, <2>8, <2>10 DEF Newest
  <2>11. CASE k # f.slot
    <3>1. rec[k].id < rec[f.slot].id
      BY <2>6, <2>7, <2>9, <2>11
    <3>2. rec[k].body < rec[f.slot].body
      BY <2>2, <2>4, <2>5, <2>6, <2>8, <3>1 DEF Booting, InOrder
    <3>3. rec[k].body \in Nat /\ rec[f.slot].body \in Nat
      BY <2>3, <2>4, <2>5, <2>6, <2>8, RingTypes
    <3> QED
      BY <2>3, <2>4, <2>5, <2>8, <3>2, <3>3 DEF Newest
  <2> QED
    BY <2>10, <2>11
<1> QED
  BY <1>1, FlashInvariant, PTL

(* A read answered after write_record released the lock gives the record    *)
(* asked for, counted from the newest one, or nothing, where a record takes *)
(* more than a page.                                                        *)
THEOREM ReadsAreAsked ==
  ASSUME Span > 1
  PROVE  Spec => []ReadsAskedOrNothing
<1>1. ASSUME FlashInv PROVE ReadsAskedOrNothing
  <2> SUFFICES ASSUME Searchable, ask # NoAsk, pc = "ready", ReadPage(ask.page).kind = "good"
               PROVE  ReadPage(ask.page).id = map.id - ask.index
    BY DEF ReadsAskedOrNothing, Unlocked
  <2>1. PICK c \in Rings(CatSlots), f \in Rings(Slots) : Found(c, f)
    BY <1>1 DEF FlashInv
  <2>2. Ready(c, f)
    BY <2>1 DEF Found, Off, Moving, Writing, Booting
  <2>3. map.id = f.id
    BY <2>2, SizesType, RingsFacts DEF Ready
  <2>4. ask.page % Span = 0 /\ ask.page # Slots * Span /\ ReadPage(ask.page) = rec[ask.page \div Span]
    BY DEF ReadPage, Torn, Blank
  <2>5. PICK k \in 0 .. Slots - 1 : ask.page = k * Span /\ Number(k, f, Slots) = f.id - ask.index
    BY <2>2, <2>4 DEF Ready, Asked
  <2>6. ask.page \div Span = k
    <3>1. k \in Nat /\ Span \in Nat \ {0}
      BY SizesType
    <3>2. (k * Span) \div Span = k
      BY <3>1
    <3> QED
      BY <2>5, <3>2
  <2>7. rec[k].kind = "good" /\ rec[k].id = Number(k, f, Slots)
    BY <2>2, <2>4, <2>6 DEF Ready, Records, InOrder, Ordered
  <2> QED
    BY <2>3, <2>4, <2>5, <2>6, <2>7
<1> QED
  BY <1>1, FlashInvariant, PTL
=============================================================================
