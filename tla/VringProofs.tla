----------------------------- MODULE VringProofs -----------------------------
(***************************************************************************)
(* Proofs about Vring, for every ring size and every index width.          *)
(***************************************************************************)
EXTENDS Vring, FiniteSetTheorems, TLAPS

-----------------------------------------------------------------------------
(* Arithmetic of the wrapping indices                                      *)

\* The 16 bit increment (main.c:289, main.c:309): one more, or zero after
\* the last index.
LEMMA IncValue ==
    ASSUME NEW x \in Idx
    PROVE  /\ Inc(x) = IF x = IdxMod - 1 THEN 0 ELSE x + 1
           /\ Inc(x) \in Idx
<1>1. IdxMod \in Nat \ {0}
  BY VringAssumption
<1>2. CASE x = IdxMod - 1
  <2>1. x + 1 = IdxMod
    BY <1>1, <1>2 DEF Idx
  <2>2. IdxMod % IdxMod = 0
    BY <1>1
  <2>3. QED
    BY <1>1, <1>2, <2>1, <2>2 DEF Inc, Idx
<1>3. CASE x # IdxMod - 1
  <2>1. x + 1 \in 0 .. IdxMod - 1
    BY <1>1, <1>3 DEF Idx
  <2>2. (x + 1) % IdxMod = x + 1
    BY <1>1, <2>1
  <2>3. QED
    BY <1>1, <1>3, <2>1, <2>2 DEF Inc, Idx
<1>4. QED
  BY <1>2, <1>3

\* The distance between two indices is an index itself.
LEMMA DistType ==
    ASSUME NEW a \in Idx, NEW b \in Idx
    PROVE  Dist(a, b) \in Idx
BY VringAssumption DEF Dist, Idx

\* Every index has a slot of the ring.
LEMMA SlotType ==
    ASSUME NEW x \in Idx
    PROVE  Slot(x) \in Desc
BY VringAssumption DEF Slot, Desc, Idx

\* The only multiple of n strictly between -n and n is zero.
LEMMA SmallMultiple ==
    ASSUME NEW n \in Nat \ {0}, NEW m \in Int, -n < m * n, m * n < n
    PROVE  m = 0
<1>1. CASE m >= 1
  <2>1. m * n >= n
    BY <1>1
  <2>2. QED
    BY <2>1
<1>2. CASE m <= -1
  <2>1. m * n <= -n
    BY <1>2
  <2>2. QED
    BY <2>1
<1>3. QED
  BY <1>1, <1>2

\* Quotient and remainder
LEMMA QuotientRemainder ==
    ASSUME NEW n \in Nat \ {0}, NEW u \in Nat
    PROVE  \E q \in Nat : u = q * n + (u % n)
<1>1. u = (u \div n) * n + (u % n) /\ u \div n \in Nat
  OBVIOUS
<1>2. QED
  BY <1>1

\* A remainder is determined by the multiple it is added to.
LEMMA RemainderUnique ==
    ASSUME NEW n \in Nat \ {0}, NEW q \in Nat, NEW r \in 0 .. n - 1
    PROVE  (q * n + r) % n = r
<1> DEFINE u == q * n + r
<1>1. q * n \in Nat /\ r \in Nat
  OBVIOUS
<1>2. u \in Nat
  BY <1>1
<1>3. PICK p \in Nat : u = p * n + (u % n)
  BY <1>2, QuotientRemainder
<1>4. u % n \in 0 .. n - 1
  BY <1>2
<1>5. (q - p) * n = (u % n) - r
  <2>1. q * n + r = p * n + (u % n)
    BY <1>3
  <2>2. (q - p) * n = q * n - p * n
    OBVIOUS
  <2>3. p * n \in Int
    OBVIOUS
  <2> HIDE DEF u
  <2>4. QED
    BY <1>1, <1>4, <2>1, <2>2, <2>3
<1>6. q - p = 0
  <2>1. -n < (q - p) * n /\ (q - p) * n < n
    <3> HIDE DEF u
    <3>1. QED
      BY <1>4, <1>5
  <2>2. QED
    BY <2>1, SmallMultiple
<1>7. (u % n) - r = 0
  <2> HIDE DEF u
  <2>1. QED
    BY <1>5, <1>6
<1>8. QED
  <2> HIDE DEF u
  <2>1. u % n = r
    BY <1>4, <1>7
  <2>2. QED
    BY <2>1 DEF u

\* Two numbers less than n apart have different remainders.
LEMMA CloseRemainders ==
    ASSUME NEW n \in Nat \ {0}, NEW u \in Nat, NEW v \in Nat,
           u < v, v - u < n
    PROVE  u % n # v % n
<1>1. SUFFICES ASSUME u % n = v % n
               PROVE  FALSE
  OBVIOUS
<1>2. PICK p \in Nat : u = p * n + (u % n)
  BY QuotientRemainder
<1>3. PICK q \in Nat : v = q * n + (v % n)
  BY QuotientRemainder
<1>4. u % n \in Nat
  OBVIOUS
<1>5. (q - p) * n = v - u
  BY <1>1, <1>2, <1>3, <1>4
<1>6. q - p = 0
  <2>1. -n < (q - p) * n /\ (q - p) * n < n
    BY <1>5
  <2>2. QED
    BY <2>1, SmallMultiple
<1>7. QED
  BY <1>5, <1>6

\* A whole number of turns of the ring brings an index back to its slot.
LEMMA SlotOfWrap ==
    ASSUME NEW x \in Nat
    PROVE  (x + IdxMod) % Num = x % Num
<1>1. Num \in Nat \ {0} /\ IdxMod \in Nat
  BY VringAssumption
<1>2. PICK k \in Nat : IdxMod = k * Num
  <2>1. PICK k \in Nat : IdxMod = k * Num + (IdxMod % Num)
    BY <1>1, QuotientRemainder
  <2>2. IdxMod = k * Num
    BY <1>1, <2>1, VringAssumption
  <2>3. QED
    BY <2>2
<1>3. PICK q \in Nat : x = q * Num + (x % Num)
  BY <1>1, QuotientRemainder
<1>4. x % Num \in 0 .. Num - 1
  BY <1>1
<1>5. x + IdxMod = (q + k) * Num + (x % Num)
  BY <1>1, <1>2, <1>3, <1>4
<1>6. ((q + k) * Num + (x % Num)) % Num = x % Num
  <2>1. q + k \in Nat
    OBVIOUS
  <2>2. QED
    BY <1>1, <1>4, <2>1, RemainderUnique
<1>7. QED
  BY <1>5, <1>6

\* Within Num steps of an index no slot comes up twice.
LEMMA SlotInjective ==
    ASSUME NEW a \in Idx, NEW x \in Idx, NEW y \in Idx,
           Dist(a, x) < Num, Dist(a, y) < Num, Slot(x) = Slot(y)
    PROVE  x = y
<1> DEFINE Lift(z) == IF z >= a THEN z ELSE z + IdxMod
<1>1. Num \in Nat \ {0} /\ IdxMod \in Nat
  BY VringAssumption
<1>2. ASSUME NEW z \in Idx
      PROVE  /\ Lift(z) \in Nat
             /\ Lift(z) % Num = Slot(z)
             /\ Lift(z) = a + Dist(a, z)
  <2>1. z \in Nat /\ a \in Nat
    BY <1>1 DEF Idx
  <2>2. (z + IdxMod) % Num = z % Num
    BY <2>1, SlotOfWrap
  <2>3. Lift(z) % Num = Slot(z)
    BY <2>2 DEF Slot
  <2>4. Lift(z) \in Nat /\ Lift(z) = a + Dist(a, z)
    BY <1>1, <2>1 DEF Dist
  <2>5. QED
    BY <2>3, <2>4
<1>3. Lift(x) % Num = Lift(y) % Num
  BY <1>2
<1>4. Lift(x) - Lift(y) < Num /\ Lift(y) - Lift(x) < Num
  <2>1. Dist(a, x) \in Nat /\ Dist(a, y) \in Nat /\ a \in Nat
    BY DistType DEF Idx
  <2>2. Lift(x) = a + Dist(a, x) /\ Lift(y) = a + Dist(a, y)
    BY <1>2
  <2> HIDE DEF Lift
  <2>3. QED
    BY <1>1, <2>1, <2>2
<1>5. Lift(x) = Lift(y)
  <2>1. Lift(x) \in Nat /\ Lift(y) \in Nat
    BY <1>2
  <2> HIDE DEF Lift
  <2>2. ~ (Lift(x) < Lift(y))
    BY <1>1, <1>3, <1>4, <2>1, CloseRemainders
  <2>3. ~ (Lift(y) < Lift(x))
    BY <1>1, <1>3, <1>4, <2>1, CloseRemainders
  <2>4. QED
    BY <2>1, <2>2, <2>3
<1>6. QED
  BY <1>1, <1>5 DEF Idx

-----------------------------------------------------------------------------
(* Windows of indices                                                      *)

\* An empty window
LEMMA WindowEmpty ==
    ASSUME NEW a \in Idx
    PROVE  Dist(a, a) = 0 /\ Window(a, a) = {}
<1>1. Dist(a, a) = 0
  BY VringAssumption DEF Dist, Idx
<1>2. \A x \in Idx : Dist(a, x) \in Nat
  BY DistType DEF Idx
<1>3. QED
  BY <1>1, <1>2 DEF Window

\* Publishing one more entry extends the window by the index published.
LEMMA WindowExtend ==
    ASSUME NEW a \in Idx, NEW b \in Idx, Dist(a, b) < Num
    PROVE  /\ Dist(a, Inc(b)) = Dist(a, b) + 1
           /\ Window(a, Inc(b)) = Window(a, b) \cup {b}
           /\ b \notin Window(a, b)
<1>1. Num \in Nat /\ IdxMod \in Nat /\ Num < IdxMod
  BY VringAssumption
<1>2. /\ Inc(b) = IF b = IdxMod - 1 THEN 0 ELSE b + 1
      /\ Inc(b) \in Idx
  BY IncValue
<1>3. Dist(a, Inc(b)) = Dist(a, b) + 1
  BY <1>1, <1>2 DEF Dist, Idx
<1>4. ASSUME NEW x \in Idx
      PROVE  Dist(a, x) < Dist(a, b) + 1 <=> (Dist(a, x) < Dist(a, b) \/ x = b)
  BY <1>1 DEF Dist, Idx
<1>5. b \notin Window(a, b)
  <2>1. Dist(a, b) \in Int
    BY DistType DEF Idx
  <2>2. QED
    BY <2>1 DEF Window
<1>6. QED
  BY <1>3, <1>4, <1>5 DEF Window

\* Consuming an entry removes the oldest index from the window.
LEMMA WindowShrink ==
    ASSUME NEW a \in Idx, NEW b \in Idx, a # b
    PROVE  /\ Dist(Inc(a), b) = Dist(a, b) - 1
           /\ Window(Inc(a), b) = Window(a, b) \ {a}
           /\ a \in Window(a, b)
<1>1. IdxMod \in Nat /\ IdxMod > 0
  BY VringAssumption
<1>2. /\ Inc(a) = IF a = IdxMod - 1 THEN 0 ELSE a + 1
      /\ Inc(a) \in Idx
  BY IncValue
<1>3. Dist(Inc(a), b) = Dist(a, b) - 1
  BY <1>1, <1>2 DEF Dist, Idx
<1>4. ASSUME NEW x \in Idx
      PROVE  Dist(Inc(a), x) < Dist(Inc(a), b)
               <=> (Dist(a, x) < Dist(a, b) /\ x # a)
  BY <1>1, <1>2 DEF Dist, Idx
<1>5. a \in Window(a, b)
  BY <1>1 DEF Window, Dist, Idx
<1>6. QED
  BY <1>3, <1>4, <1>5 DEF Window

\* The slot behind a window that is not full is none of the window's.
LEMMA SlotBehind ==
    ASSUME NEW a \in Idx, NEW b \in Idx, Dist(a, b) < Num,
           NEW x \in Window(a, b)
    PROVE  Slot(x) # Slot(b)
<1>1. x \in Idx /\ Dist(a, x) < Dist(a, b)
  BY DEF Window
<1>2. Dist(a, x) < Num /\ Dist(a, x) # Dist(a, b)
  <2>1. Dist(a, x) \in Int /\ Dist(a, b) \in Int /\ Num \in Int
    BY <1>1, DistType, VringAssumption DEF Idx
  <2>2. QED
    BY <1>1, <2>1
<1>3. QED
  BY <1>1, <1>2, SlotInjective

\* Filling the slot behind a window that is not full changes none of the
\* entries in the window.
LEMMA PushKeeps ==
    ASSUME NEW a \in Idx, NEW b \in Idx, Dist(a, b) < Num,
           NEW ring \in [Desc -> Desc], NEW d \in Desc,
           NEW x \in Window(a, b)
    PROVE  [ring EXCEPT ![Slot(b)] = d][Slot(x)] = ring[Slot(x)]
<1>1. Slot(x) \in Desc
  BY SlotType DEF Window
<1>2. QED
  BY <1>1, SlotBehind

-----------------------------------------------------------------------------
(* Type correctness                                                        *)

\* Every variable keeps its type.
THEOREM TypeCorrect == Spec => []TypeOK
<1>1. Init => TypeOK
  <2>1. 0 \in Idx /\ 0 \in Desc
    BY VringAssumption DEF Idx, Desc
  <2>2. QED
    BY <2>1 DEF Init, TypeOK
<1>2. TypeOK /\ [Next]_vars => TypeOK'
  <2> SUFFICES ASSUME TypeOK, [Next]_vars
               PROVE  TypeOK'
    OBVIOUS
  <2> USE DEF TypeOK, driverVars, deviceVars
  <2>1. ASSUME NEW d \in Desc, AddAvail(d)
        PROVE  TypeOK'
    BY <2>1, SlotType DEF AddAvail
  <2>2. CASE PublishAvail
    BY <2>2, IncValue DEF PublishAvail
  <2>3. CASE GetUsed
    BY <2>3, IncValue, SlotType DEF GetUsed
  <2>4. CASE SeeAvail
    BY <2>4 DEF SeeAvail
  <2>5. CASE TakeAvail
    BY <2>5, IncValue, SlotType DEF TakeAvail
  <2>6. CASE WriteUsed
    BY <2>6, SlotType DEF WriteUsed
  <2>7. CASE PublishUsed
    BY <2>7, IncValue DEF PublishUsed
  <2>8. CASE Abandon
    BY <2>8 DEF Abandon
  <2>9. CASE UNCHANGED vars
    BY <2>9 DEF vars
  <2>10. QED
    BY <2>1, <2>2, <2>3, <2>4, <2>5, <2>6, <2>7, <2>8, <2>9
       DEF Next, Driver, Device
<1>3. QED
  BY <1>1, <1>2, PTL DEF Spec

-----------------------------------------------------------------------------
(* Ownership of the descriptors                                            *)

\* Counting the sets of descriptors
LEMMA Counting ==
    /\ \A S \in SUBSET Desc : IsFiniteSet(S) /\ Cardinality(S) \in Nat
    /\ \A d : Cardinality({d}) = 1
    /\ Cardinality({}) = 0
    /\ Cardinality(Desc) = Num
<1>1. Num \in Nat \ {0}
  BY VringAssumption
<1>2. IsFiniteSet(Desc) /\ Cardinality(Desc) = Num
  BY <1>1, FS_Interval DEF Desc
<1>3. \A S \in SUBSET Desc : IsFiniteSet(S)
  BY <1>2, FS_Subset
<1>4. \A S \in SUBSET Desc : Cardinality(S) \in Nat
  BY <1>3, FS_CardinalityType
<1>5. \A d : Cardinality({d}) = 1
  BY FS_Singleton
<1>6. Cardinality({}) = 0
  BY FS_EmptySet
<1>7. QED
  BY <1>2, <1>3, <1>4, <1>5, <1>6

\* Adding a descriptor to a set, or taking it out
LEMMA CountingStep ==
    ASSUME NEW S \in SUBSET Desc, NEW d \in Desc
    PROVE  /\ d \notin S => Cardinality(S \cup {d}) = Cardinality(S) + 1
           /\ d \in S => Cardinality(S \ {d}) = Cardinality(S) - 1
<1>1. IsFiniteSet(S)
  BY Counting
<1>2. QED
  BY <1>1, FS_AddElement, FS_RemoveElement

\* While the counts add up, whoever is about to fill a slot finds room.
LEMMA Room ==
    ASSUME TypeOK, Conservation
    PROVE  /\ Dist(lastAvail, availIdx) \in Nat
           /\ Dist(lastUsed, usedIdx) \in Nat
           /\ free # {} \/ drvPc = "wrote" => Dist(lastAvail, availIdx) < Num
           /\ devPc \in {"held", "written"} => Dist(lastUsed, usedIdx) < Num
<1>1. /\ Dist(lastAvail, availIdx) \in Nat
      /\ Dist(lastUsed, usedIdx) \in Nat
  BY DistType DEF TypeOK, Idx
<1>2. /\ Cardinality(free) \in Nat
      /\ Cardinality(lost) \in Nat
  BY Counting DEF TypeOK
<1>3. free # {} => Cardinality(free) > 0
  <2>1. ASSUME NEW d \in free
        PROVE  Cardinality(free) > 0
    <3>1. d \in Desc /\ free \ {d} \in SUBSET Desc
      BY DEF TypeOK
    <3>2. Cardinality(free \ {d}) = Cardinality(free) - 1
      BY <3>1, CountingStep DEF TypeOK
    <3>3. Cardinality(free \ {d}) \in Nat
      BY <3>1, Counting
    <3>4. QED
      BY <1>2, <3>2, <3>3
  <2>2. QED
    BY <2>1
<1>4. /\ Cardinality(Held) = IF devPc \in {"held", "written"} THEN 1 ELSE 0
      /\ Cardinality(Written) = IF drvPc = "wrote" THEN 1 ELSE 0
  BY Counting DEF Held, Written
<1>5. Num \in Nat
  BY VringAssumption
<1>6. QED
  BY <1>1, <1>2, <1>3, <1>4, <1>5 DEF Conservation

\* The driver fills a slot: the descriptor moves from free to Written.
LEMMA AddAvailIInv ==
    ASSUME IInv, NEW d \in Desc, AddAvail(d)
    PROVE  IInv'
<1> USE DEF IInv, AddAvail, deviceVars
<1>1. TypeOK'
  BY SlotType DEF TypeOK
<1>2. SeenPublished' /\ SlotFilled'
  BY DEF SeenPublished, SlotFilled
<1>3. Dist(lastAvail, availIdx) < Num
  BY Room
<1>4. AvailWindow' = AvailWindow /\ UsedWindow' = UsedWindow
  BY DEF AvailWindow, UsedWindow, Window
<1>5. \A x \in AvailWindow : availRing'[Slot(x)] = availRing[Slot(x)]
  BY <1>3, PushKeeps DEF AvailWindow, TypeOK
<1>6. Pending' = Pending
  BY <1>4, <1>5 DEF Pending
<1>7. Returned' = Returned /\ Held' = Held
  BY <1>4 DEF Returned, Held
<1>8. Written = {} /\ Written' = {d}
  BY SlotType DEF Written, TypeOK
<1>9. Conservation'
  <2>1. Cardinality(free') = Cardinality(free) - 1
    BY CountingStep DEF TypeOK
  <2>2. Cardinality(Written) = 0 /\ Cardinality(Written') = 1
    BY <1>8, Counting
  <2>3. Cardinality(free) \in Nat /\ Cardinality(Held) \in Nat
        /\ Cardinality(lost) \in Nat
    BY Counting DEF TypeOK, Held
  <2>4. Dist(lastAvail, availIdx)' = Dist(lastAvail, availIdx)
        /\ Dist(lastUsed, usedIdx)' = Dist(lastUsed, usedIdx)
    BY DEF Dist
  <2>5. Dist(lastAvail, availIdx) \in Nat /\ Dist(lastUsed, usedIdx) \in Nat
    BY Room
  <2>6. QED
    BY <1>7, <2>1, <2>2, <2>3, <2>4, <2>5 DEF Conservation
<1>10. SingleOwner'
  <2>1. PendingUnique'
    BY <1>4, <1>5 DEF PendingUnique, SingleOwner
  <2>2. ReturnedUnique'
    BY <1>4 DEF ReturnedUnique, SingleOwner
  <2>3. Disjoint'
    BY <1>6, <1>7, <1>8 DEF Disjoint, SingleOwner
  <2>4. QED
    BY <2>1, <2>2, <2>3 DEF SingleOwner
<1>11. QED
  BY <1>1, <1>2, <1>9, <1>10

\* The driver moves avail->idx: the descriptor moves from Written to Pending.
LEMMA PublishAvailIInv ==
    ASSUME IInv, PublishAvail
    PROVE  IInv'
<1> USE DEF IInv, PublishAvail, deviceVars
<1>1. TypeOK'
  BY IncValue DEF TypeOK
<1>2. /\ Dist(lastAvail, availIdx) < Num
      /\ Dist(lastAvail, availIdx) \in Nat
      /\ Dist(lastUsed, usedIdx) \in Nat
  BY Room
<1>3. /\ Dist(lastAvail, availIdx)' = Dist(lastAvail, availIdx) + 1
      /\ AvailWindow' = AvailWindow \cup {availIdx}
      /\ availIdx \notin AvailWindow
  <2>1. lastAvail \in Idx /\ availIdx \in Idx
    BY DEF TypeOK
  <2>2. /\ Dist(lastAvail, Inc(availIdx)) = Dist(lastAvail, availIdx) + 1
        /\ Window(lastAvail, Inc(availIdx)) = Window(lastAvail, availIdx) \cup {availIdx}
        /\ availIdx \notin Window(lastAvail, availIdx)
    BY <1>2, <2>1, WindowExtend
  <2>3. QED
    BY <2>2 DEF AvailWindow, Window, Dist
<1>4. SeenPublished' /\ SlotFilled'
  <2>1. lastAvail' # availIdx'
    BY <1>2, <1>3, <1>1, WindowEmpty DEF TypeOK, Dist
  <2>2. QED
    BY <2>1 DEF SeenPublished, SlotFilled
<1>5. UsedWindow' = UsedWindow /\ Dist(lastUsed, usedIdx)' = Dist(lastUsed, usedIdx)
  BY DEF UsedWindow, Window, Dist
<1>6. Returned' = Returned /\ Held' = Held
  BY <1>5 DEF Returned, Held
<1>7. Written = {availRing[Slot(availIdx)]} /\ Written' = {}
  BY DEF Written
<1>8. Pending' = Pending \cup Written
  BY <1>3, <1>7 DEF Pending
<1>9. Conservation'
  <2>1. Cardinality(Written) = 1 /\ Cardinality(Written') = 0
    BY <1>7, Counting
  <2>2. /\ Cardinality(free) \in Nat
        /\ Cardinality(Held) \in Nat
        /\ Cardinality(lost) \in Nat
    BY Counting DEF TypeOK, Held
  <2>3. QED
    BY <1>2, <1>3, <1>5, <1>6, <2>1, <2>2 DEF Conservation
<1>10. SingleOwner'
  <2>1. PendingUnique'
    <3>1. \A x \in AvailWindow :
             availRing[Slot(x)] # availRing[Slot(availIdx)]
      BY <1>7 DEF Disjoint, SingleOwner, Pending
    <3>2. QED
      BY <1>3, <3>1 DEF PendingUnique, SingleOwner
  <2>2. ReturnedUnique'
    BY <1>5 DEF ReturnedUnique, SingleOwner
  <2>3. Disjoint'
    BY <1>6, <1>7, <1>8 DEF Disjoint, SingleOwner
  <2>4. QED
    BY <2>1, <2>2, <2>3 DEF SingleOwner
<1>11. QED
  BY <1>1, <1>4, <1>9, <1>10

\* The driver reclaims the oldest returned descriptor.
LEMMA GetUsedIInv ==
    ASSUME IInv, GetUsed
    PROVE  IInv'
<1> USE DEF IInv, GetUsed, deviceVars
<1> DEFINE d == usedRing[Slot(lastUsed)]
<1>1. TypeOK'
  BY IncValue, SlotType DEF TypeOK
<1>2. SeenPublished' /\ SlotFilled'
  BY DEF SeenPublished, SlotFilled
<1>3. /\ Dist(lastAvail, availIdx) \in Nat
      /\ Dist(lastUsed, usedIdx) \in Nat
  BY Room
<1>4. /\ Dist(lastUsed, usedIdx)' = Dist(lastUsed, usedIdx) - 1
      /\ UsedWindow' = UsedWindow \ {lastUsed}
      /\ lastUsed \in UsedWindow
  <2>1. lastUsed \in Idx /\ usedIdx \in Idx /\ lastUsed # usedIdx
    BY DEF TypeOK
  <2>2. /\ Dist(Inc(lastUsed), usedIdx) = Dist(lastUsed, usedIdx) - 1
        /\ Window(Inc(lastUsed), usedIdx) = Window(lastUsed, usedIdx) \ {lastUsed}
        /\ lastUsed \in Window(lastUsed, usedIdx)
    BY <2>1, WindowShrink
  <2>3. QED
    BY <2>2 DEF UsedWindow, Window, Dist
<1>5. AvailWindow' = AvailWindow
      /\ Dist(lastAvail, availIdx)' = Dist(lastAvail, availIdx)
  BY DEF AvailWindow, Window, Dist
<1>6. Pending' = Pending /\ Held' = Held /\ Written' = Written
  BY <1>5 DEF Pending, Held, Written
<1>7. d \in Returned /\ d \in Desc
  BY <1>4, SlotType DEF Returned, TypeOK
<1>8. Returned' = Returned \ {d}
  <2>1. \A x \in UsedWindow : usedRing[Slot(x)] = d <=> x = lastUsed
    BY <1>4 DEF ReturnedUnique, SingleOwner
  <2>2. QED
    BY <1>4, <2>1 DEF Returned
<1>9. d \notin free
  BY <1>7 DEF Disjoint, SingleOwner
<1>10. Conservation'
  <2>1. Cardinality(free') = Cardinality(free) + 1
    BY <1>7, <1>9, CountingStep DEF TypeOK
  <2>2. /\ Cardinality(free) \in Nat
        /\ Cardinality(Held) \in Nat
        /\ Cardinality(Written) \in Nat
        /\ Cardinality(lost) \in Nat
    BY Counting DEF TypeOK, Held, Written
  <2>3. QED
    BY <1>3, <1>4, <1>5, <1>6, <2>1, <2>2 DEF Conservation
<1>11. SingleOwner'
  <2>1. PendingUnique'
    BY <1>5 DEF PendingUnique, SingleOwner
  <2>2. ReturnedUnique'
    BY <1>4 DEF ReturnedUnique, SingleOwner
  <2>3. Disjoint'
    BY <1>6, <1>7, <1>8 DEF Disjoint, SingleOwner
  <2>4. QED
    BY <2>1, <2>2, <2>3 DEF SingleOwner
<1>12. QED
  BY <1>1, <1>2, <1>10, <1>11

\* The device reads avail->idx: nothing moves.
LEMMA SeeAvailIInv ==
    ASSUME IInv, SeeAvail
    PROVE  IInv'
<1> USE DEF IInv, SeeAvail, driverVars
<1>1. TypeOK' /\ SeenPublished' /\ SlotFilled'
  BY DEF TypeOK, SeenPublished, SlotFilled
<1>2. /\ AvailWindow' = AvailWindow /\ UsedWindow' = UsedWindow
      /\ Dist(lastAvail, availIdx)' = Dist(lastAvail, availIdx)
      /\ Dist(lastUsed, usedIdx)' = Dist(lastUsed, usedIdx)
  BY DEF AvailWindow, UsedWindow, Window, Dist
<1>3. /\ Pending' = Pending /\ Returned' = Returned
      /\ Held' = Held /\ Written' = Written
  BY <1>2 DEF Pending, Returned, Held, Written
<1>4. Conservation'
  BY <1>2, <1>3 DEF Conservation
<1>5. SingleOwner'
  BY <1>2, <1>3 DEF SingleOwner, PendingUnique, ReturnedUnique, Disjoint
<1>6. QED
  BY <1>1, <1>4, <1>5

\* The device takes the oldest pending descriptor.
LEMMA TakeAvailIInv ==
    ASSUME IInv, TakeAvail
    PROVE  IInv'
<1> USE DEF IInv, TakeAvail, driverVars
<1>1. TypeOK' /\ SeenPublished' /\ SlotFilled'
  BY IncValue, SlotType DEF TypeOK, SeenPublished, SlotFilled
<1>2. /\ Dist(lastAvail, availIdx) \in Nat
      /\ Dist(lastUsed, usedIdx) \in Nat
  BY Room
<1>3. /\ Dist(lastAvail, availIdx)' = Dist(lastAvail, availIdx) - 1
      /\ AvailWindow' = AvailWindow \ {lastAvail}
      /\ lastAvail \in AvailWindow
  <2>1. lastAvail \in Idx /\ availIdx \in Idx /\ lastAvail # availIdx
    BY DEF TypeOK, SeenPublished
  <2>2. /\ Dist(Inc(lastAvail), availIdx) = Dist(lastAvail, availIdx) - 1
        /\ Window(Inc(lastAvail), availIdx) = Window(lastAvail, availIdx) \ {lastAvail}
        /\ lastAvail \in Window(lastAvail, availIdx)
    BY <2>1, WindowShrink
  <2>3. QED
    BY <2>2 DEF AvailWindow, Window, Dist
<1>4. UsedWindow' = UsedWindow /\ Dist(lastUsed, usedIdx)' = Dist(lastUsed, usedIdx)
  BY DEF UsedWindow, Window, Dist
<1>5. Returned' = Returned /\ Written' = Written
  BY <1>4 DEF Returned, Written
<1>6. Held = {} /\ Held' = {availRing[Slot(lastAvail)]}
  BY DEF Held
<1>7. Pending' = Pending \ Held' /\ Held' \subseteq Pending
  <2>1. \A x \in AvailWindow :
           availRing[Slot(x)] = availRing[Slot(lastAvail)] <=> x = lastAvail
    BY <1>3 DEF PendingUnique, SingleOwner
  <2>2. QED
    BY <1>3, <1>6, <2>1 DEF Pending
<1>8. Conservation'
  <2>1. Cardinality(Held) = 0 /\ Cardinality(Held') = 1
    BY <1>6, Counting
  <2>2. /\ Cardinality(free) \in Nat
        /\ Cardinality(Written) \in Nat
        /\ Cardinality(lost) \in Nat
    BY Counting DEF TypeOK, Written
  <2>3. QED
    BY <1>2, <1>3, <1>4, <1>5, <2>1, <2>2 DEF Conservation
<1>9. SingleOwner'
  <2>1. PendingUnique'
    BY <1>3 DEF PendingUnique, SingleOwner
  <2>2. ReturnedUnique'
    BY <1>4 DEF ReturnedUnique, SingleOwner
  <2>3. Disjoint'
    BY <1>5, <1>7 DEF Disjoint, SingleOwner
  <2>4. QED
    BY <2>1, <2>2, <2>3 DEF SingleOwner
<1>10. QED
  BY <1>1, <1>8, <1>9

\* The device fills a slot of the used ring; it still holds the descriptor.
LEMMA WriteUsedIInv ==
    ASSUME IInv, WriteUsed
    PROVE  IInv'
<1> USE DEF IInv, WriteUsed, driverVars
<1>1. TypeOK' /\ SeenPublished' /\ SlotFilled'
  BY SlotType DEF TypeOK, SeenPublished, SlotFilled
<1>2. Dist(lastUsed, usedIdx) < Num
  BY Room
<1>3. /\ AvailWindow' = AvailWindow /\ UsedWindow' = UsedWindow
      /\ Dist(lastAvail, availIdx)' = Dist(lastAvail, availIdx)
      /\ Dist(lastUsed, usedIdx)' = Dist(lastUsed, usedIdx)
  BY DEF AvailWindow, UsedWindow, Window, Dist
<1>4. \A x \in UsedWindow : usedRing'[Slot(x)] = usedRing[Slot(x)]
  BY <1>2, PushKeeps DEF UsedWindow, TypeOK
<1>5. /\ Pending' = Pending /\ Returned' = Returned
      /\ Held' = Held /\ Written' = Written
  BY <1>3, <1>4 DEF Pending, Returned, Held, Written
<1>6. Conservation'
  BY <1>3, <1>5 DEF Conservation
<1>7. SingleOwner'
  BY <1>3, <1>4, <1>5
     DEF SingleOwner, PendingUnique, ReturnedUnique, Disjoint
<1>8. QED
  BY <1>1, <1>6, <1>7

\* The device moves used->idx: the descriptor moves from Held to Returned.
LEMMA PublishUsedIInv ==
    ASSUME IInv, PublishUsed
    PROVE  IInv'
<1> USE DEF IInv, PublishUsed, driverVars
<1>1. TypeOK' /\ SeenPublished' /\ SlotFilled'
  BY IncValue DEF TypeOK, SeenPublished, SlotFilled
<1>2. /\ Dist(lastUsed, usedIdx) < Num
      /\ Dist(lastAvail, availIdx) \in Nat
      /\ Dist(lastUsed, usedIdx) \in Nat
  BY Room
<1>3. /\ Dist(lastUsed, usedIdx)' = Dist(lastUsed, usedIdx) + 1
      /\ UsedWindow' = UsedWindow \cup {usedIdx}
      /\ usedIdx \notin UsedWindow
  <2>1. lastUsed \in Idx /\ usedIdx \in Idx
    BY DEF TypeOK
  <2>2. /\ Dist(lastUsed, Inc(usedIdx)) = Dist(lastUsed, usedIdx) + 1
        /\ Window(lastUsed, Inc(usedIdx)) = Window(lastUsed, usedIdx) \cup {usedIdx}
        /\ usedIdx \notin Window(lastUsed, usedIdx)
    BY <1>2, <2>1, WindowExtend
  <2>3. QED
    BY <2>2 DEF UsedWindow, Window, Dist
<1>4. AvailWindow' = AvailWindow
      /\ Dist(lastAvail, availIdx)' = Dist(lastAvail, availIdx)
  BY DEF AvailWindow, Window, Dist
<1>5. Pending' = Pending /\ Written' = Written
  BY <1>4 DEF Pending, Written
<1>6. Held = {usedRing[Slot(usedIdx)]} /\ Held' = {}
  BY DEF Held, SlotFilled
<1>7. Returned' = Returned \cup Held
  BY <1>3, <1>6 DEF Returned
<1>8. Conservation'
  <2>1. Cardinality(Held) = 1 /\ Cardinality(Held') = 0
    BY <1>6, Counting
  <2>2. /\ Cardinality(free) \in Nat
        /\ Cardinality(Written) \in Nat
        /\ Cardinality(lost) \in Nat
    BY Counting DEF TypeOK, Written
  <2>3. QED
    BY <1>2, <1>3, <1>4, <1>5, <2>1, <2>2 DEF Conservation
<1>9. SingleOwner'
  <2>1. PendingUnique'
    BY <1>4 DEF PendingUnique, SingleOwner
  <2>2. ReturnedUnique'
    <3>1. \A x \in UsedWindow : usedRing[Slot(x)] # usedRing[Slot(usedIdx)]
      BY <1>6 DEF Disjoint, SingleOwner, Returned
    <3>2. QED
      BY <1>3, <3>1 DEF ReturnedUnique, SingleOwner
  <2>3. Disjoint'
    BY <1>5, <1>6, <1>7 DEF Disjoint, SingleOwner
  <2>4. QED
    BY <2>1, <2>2, <2>3 DEF SingleOwner
<1>10. QED
  BY <1>1, <1>8, <1>9

\* The device gives up the descriptor it holds.
LEMMA AbandonIInv ==
    ASSUME IInv, Abandon
    PROVE  IInv'
<1> USE DEF IInv, Abandon, driverVars
<1>1. TypeOK' /\ SeenPublished' /\ SlotFilled'
  BY DEF TypeOK, SeenPublished, SlotFilled
<1>2. /\ AvailWindow' = AvailWindow /\ UsedWindow' = UsedWindow
      /\ Dist(lastAvail, availIdx)' = Dist(lastAvail, availIdx)
      /\ Dist(lastUsed, usedIdx)' = Dist(lastUsed, usedIdx)
  BY DEF AvailWindow, UsedWindow, Window, Dist
<1>3. /\ Pending' = Pending /\ Returned' = Returned /\ Written' = Written
  BY <1>2 DEF Pending, Returned, Written
<1>4. Held = {devDesc} /\ Held' = {} /\ devDesc \in Desc
  BY DEF Held, TypeOK
<1>5. devDesc \notin lost
  BY <1>4 DEF SingleOwner, Disjoint
<1>6. Conservation'
  <2>1. Cardinality(Held) = 1 /\ Cardinality(Held') = 0
    BY <1>4, Counting
  <2>2. Cardinality(lost') = Cardinality(lost) + 1
    BY <1>4, <1>5, CountingStep DEF TypeOK
  <2>3. /\ Cardinality(free) \in Nat
        /\ Cardinality(Written) \in Nat
        /\ Cardinality(lost) \in Nat
    BY Counting DEF TypeOK, Written
  <2>4. /\ Dist(lastAvail, availIdx) \in Nat
        /\ Dist(lastUsed, usedIdx) \in Nat
    BY Room
  <2>5. QED
    BY <1>2, <1>3, <2>1, <2>2, <2>3, <2>4 DEF Conservation
<1>7. SingleOwner'
  <2>1. PendingUnique' /\ ReturnedUnique'
    BY <1>2 DEF PendingUnique, ReturnedUnique, SingleOwner
  <2>2. Disjoint'
    BY <1>3, <1>4 DEF Disjoint, SingleOwner
  <2>3. QED
    BY <2>1, <2>2 DEF SingleOwner
<1>8. QED
  BY <1>1, <1>6, <1>7

\* All descriptors start with the driver.
LEMMA InitIInv ==
    ASSUME Init
    PROVE  IInv
<1> USE DEF Init
<1>1. 0 \in Idx /\ 0 \in Desc
  BY VringAssumption DEF Idx, Desc
<1>2. TypeOK /\ SeenPublished /\ SlotFilled
  BY <1>1 DEF TypeOK, SeenPublished, SlotFilled
<1>3. /\ AvailWindow = {} /\ UsedWindow = {}
      /\ Dist(lastAvail, availIdx) = 0 /\ Dist(lastUsed, usedIdx) = 0
  BY <1>1, WindowEmpty DEF AvailWindow, UsedWindow
<1>4. Pending = {} /\ Returned = {} /\ Held = {} /\ Written = {}
  BY <1>3 DEF Pending, Returned, Held, Written
<1>5. Conservation
  BY <1>3, <1>4, Counting, VringAssumption DEF Conservation
<1>6. SingleOwner
  BY <1>3, <1>4 DEF SingleOwner, PendingUnique, ReturnedUnique, Disjoint
<1>7. QED
  BY <1>2, <1>5, <1>6 DEF IInv

\* IInv is inductive.
LEMMA StepIInv ==
    ASSUME IInv, [Next]_vars
    PROVE  IInv'
<1>1. CASE \E d \in Desc : AddAvail(d)
  BY <1>1, AddAvailIInv
<1>2. CASE PublishAvail
  BY <1>2, PublishAvailIInv
<1>3. CASE GetUsed
  BY <1>3, GetUsedIInv
<1>4. CASE SeeAvail
  BY <1>4, SeeAvailIInv
<1>5. CASE TakeAvail
  BY <1>5, TakeAvailIInv
<1>6. CASE WriteUsed
  BY <1>6, WriteUsedIInv
<1>7. CASE PublishUsed
  BY <1>7, PublishUsedIInv
<1>8. CASE Abandon
  BY <1>8, AbandonIInv
<1>9. CASE UNCHANGED vars
  BY <1>9 DEF vars, IInv, TypeOK, SeenPublished, SlotFilled, Conservation,
     SingleOwner, PendingUnique, ReturnedUnique, Disjoint, AvailWindow,
     UsedWindow, Window, Pending, Returned, Held, Written, Dist
<1>10. QED
  BY <1>1, <1>2, <1>3, <1>4, <1>5, <1>6, <1>7, <1>8, <1>9
     DEF Next, Driver, Device

THEOREM Inductive == Spec => []IInv
<1>1. Init => IInv
  BY InitIInv
<1>2. IInv /\ [Next]_vars => IInv'
  BY StepIInv
<1>3. QED
  BY <1>1, <1>2, PTL DEF Spec

\* The descriptors always add up to Num.
THEOREM BuffersConserved == Spec => []Conservation
<1>1. IInv => Conservation
  BY DEF IInv
<1>2. QED
  BY <1>1, Inductive, PTL

\* No descriptor is ever in two hands.
THEOREM OwnersExclusive == Spec => []SingleOwner
<1>1. IInv => SingleOwner
  BY DEF IInv
<1>2. QED
  BY <1>1, Inductive, PTL

\* No slot is filled whose content the other side has yet to take.
THEOREM NoOverrunCorrect == Spec => NoOverrun
<1> DEFINE A == /\ \A s \in Desc : availRing'[s] # availRing[s] =>
                      s \notin {Slot(x) : x \in AvailWindow}
                /\ \A s \in Desc : usedRing'[s] # usedRing[s] =>
                      s \notin {Slot(x) : x \in UsedWindow}
<1>1. IInv /\ [Next]_vars => [A]_vars
  <2> SUFFICES ASSUME IInv, Next
               PROVE  A
    BY DEF vars
  <2>1. CASE \E d \in Desc : AddAvail(d)
    <3>1. PICK d \in Desc : AddAvail(d)
      BY <2>1
    <3>2. Dist(lastAvail, availIdx) < Num
      BY <3>1, Room DEF AddAvail, IInv
    <3>3. \A x \in AvailWindow : Slot(x) # Slot(availIdx)
      BY <3>2, SlotBehind DEF AvailWindow, IInv, TypeOK
    <3>4. \A s \in Desc : availRing'[s] # availRing[s] => s = Slot(availIdx)
      BY <3>1 DEF AddAvail, IInv, TypeOK
    <3>5. usedRing' = usedRing
      BY <3>1 DEF AddAvail, deviceVars
    <3>6. QED
      BY <3>3, <3>4, <3>5
  <2>2. CASE WriteUsed
    <3>1. Dist(lastUsed, usedIdx) < Num
      BY <2>2, Room DEF WriteUsed, IInv
    <3>2. \A x \in UsedWindow : Slot(x) # Slot(usedIdx)
      BY <3>1, SlotBehind DEF UsedWindow, IInv, TypeOK
    <3>3. \A s \in Desc : usedRing'[s] # usedRing[s] => s = Slot(usedIdx)
      BY <2>2 DEF WriteUsed, IInv, TypeOK
    <3>4. availRing' = availRing
      BY <2>2 DEF WriteUsed, driverVars
    <3>5. QED
      BY <3>2, <3>3, <3>4
  <2>3. CASE \/ PublishAvail \/ GetUsed \/ SeeAvail \/ TakeAvail
             \/ PublishUsed \/ Abandon
    BY <2>3 DEF PublishAvail, GetUsed, SeeAvail, TakeAvail, PublishUsed,
                Abandon, driverVars, deviceVars
  <2>4. QED
    BY <2>1, <2>2, <2>3 DEF Next, Driver, Device
<1>2. QED
  BY <1>1, Inductive, PTL DEF Spec, NoOverrun

-----------------------------------------------------------------------------
(* Refinement: the vring is a pool of buffers                              *)

\* Walking i steps from an index, across the wrap
LEMMA Walk ==
    ASSUME NEW a \in Idx, NEW i \in 0 .. IdxMod - 1
    PROVE  /\ (a + i) % IdxMod \in Idx
           /\ Dist(a, (a + i) % IdxMod) = i
<1>1. IdxMod \in Nat \ {0} /\ a \in Nat /\ i \in Nat
  BY VringAssumption DEF Idx
<1>2. CASE a + i < IdxMod
  <2>1. (a + i) % IdxMod = a + i
    BY <1>1, <1>2
  <2>2. QED
    BY <1>1, <1>2, <2>1 DEF Dist, Idx
<1>3. CASE a + i >= IdxMod
  <2>1. a + i - IdxMod \in 0 .. IdxMod - 1
    BY <1>1, <1>3 DEF Idx
  <2>2. (1 * IdxMod + (a + i - IdxMod)) % IdxMod = a + i - IdxMod
    BY <1>1, <2>1, RemainderUnique
  <2>3. (a + i) % IdxMod = a + i - IdxMod
    BY <1>1, <2>2
  <2>4. QED
    BY <1>1, <1>3, <2>1, <2>3 DEF Dist, Idx
<1>4. QED
  BY <1>1, <1>2, <1>3

\* The index i steps from a is determined by its distance.
LEMMA WalkUnique ==
    ASSUME NEW a \in Idx, NEW x \in Idx
    PROVE  (a + Dist(a, x)) % IdxMod = x
<1>1. Dist(a, x) \in 0 .. IdxMod - 1
  BY DistType DEF Idx
<1>2. /\ (a + Dist(a, x)) % IdxMod \in Idx
      /\ Dist(a, (a + Dist(a, x)) % IdxMod) = Dist(a, x)
  BY <1>1, Walk
<1>3. \A y \in Idx : Dist(a, y) = Dist(a, x) => y = x
  BY VringAssumption DEF Dist, Idx
<1>4. QED
  BY <1>2, <1>3

\* The contents of a window is a sequence of descriptors.
LEMMA ContentsType ==
    ASSUME NEW a \in Idx, NEW b \in Idx, NEW ring \in [Desc -> Desc]
    PROVE  /\ Contents(ring, a, b) \in Seq(Desc)
           /\ Len(Contents(ring, a, b)) = Dist(a, b)
<1>1. Dist(a, b) \in Nat /\ Dist(a, b) <= IdxMod - 1
  BY DistType, VringAssumption DEF Idx
<1>2. ASSUME NEW i \in 1 .. Dist(a, b)
      PROVE  ring[Slot((a + i - 1) % IdxMod)] \in Desc
  <2>1. i - 1 \in 0 .. IdxMod - 1 /\ a + i - 1 = a + (i - 1)
    BY <1>1, VringAssumption DEF Idx
  <2>2. (a + i - 1) % IdxMod \in Idx
    BY <2>1, Walk
  <2>3. QED
    BY <2>2, SlotType
<1>3. QED
  BY <1>1, <1>2 DEF Contents

\* Publishing appends.
LEMMA ContentsExtend ==
    ASSUME NEW a \in Idx, NEW b \in Idx, Dist(a, b) < Num,
           NEW ring \in [Desc -> Desc]
    PROVE  Contents(ring, a, Inc(b)) = Append(Contents(ring, a, b), ring[Slot(b)])
<1> DEFINE n == Dist(a, b)
<1>1. Inc(b) \in Idx /\ Dist(a, Inc(b)) = n + 1
  BY IncValue, WindowExtend
<1>2. /\ Contents(ring, a, b) \in Seq(Desc) /\ Len(Contents(ring, a, b)) = n
      /\ Contents(ring, a, Inc(b)) \in Seq(Desc)
      /\ Len(Contents(ring, a, Inc(b))) = n + 1
  BY <1>1, ContentsType
<1>3. n \in Nat
  BY DistType DEF Idx
<1>4. (a + (n + 1) - 1) % IdxMod = b
  <2>1. a + (n + 1) - 1 = a + n
    BY <1>3 DEF Idx
  <2>2. QED
    BY <2>1, WalkUnique
<1>5. ring[Slot(b)] \in Desc
  BY SlotType
<1>6. ASSUME NEW i \in 1 .. n + 1
      PROVE  Contents(ring, a, Inc(b))[i]
               = Append(Contents(ring, a, b), ring[Slot(b)])[i]
  <2>1. Contents(ring, a, Inc(b))[i] = ring[Slot((a + i - 1) % IdxMod)]
    BY <1>1 DEF Contents
  <2>2. CASE i \in 1 .. n
    <3>1. Contents(ring, a, b)[i] = ring[Slot((a + i - 1) % IdxMod)]
      BY <2>2 DEF Contents
    <3> HIDE DEF n
    <3>2. QED
      BY <1>2, <1>3, <1>5, <2>1, <2>2, <3>1
  <2>3. CASE i = n + 1
    <3>1. Append(Contents(ring, a, b), ring[Slot(b)])[n + 1] = ring[Slot(b)]
      BY <1>2, <1>3
    <3>2. QED
      BY <1>4, <2>1, <2>3, <3>1
  <2>4. i \in 1 .. n \/ i = n + 1
    <3> HIDE DEF n
    <3>1. QED
      BY <1>3
  <2>5. QED
    BY <2>2, <2>3, <2>4
<1>7. /\ Append(Contents(ring, a, b), ring[Slot(b)]) \in Seq(Desc)
      /\ Len(Append(Contents(ring, a, b), ring[Slot(b)])) = n + 1
  BY <1>2, <1>3, <1>5
<1>8. QED
  <2> DEFINE s == Contents(ring, a, Inc(b))
             t == Append(Contents(ring, a, b), ring[Slot(b)])
  <2>1. /\ s \in Seq(Desc) /\ t \in Seq(Desc) /\ Len(s) = n + 1 /\ Len(t) = n + 1
        /\ \A i \in 1 .. n + 1 : s[i] = t[i]
    BY <1>2, <1>6, <1>7
  <2> HIDE DEF s, t, n
  <2>2. s = t
    BY <2>1
  <2>3. QED
    BY <2>2 DEF s, t

\* Consuming takes the head off.
LEMMA ContentsShrink ==
    ASSUME NEW a \in Idx, NEW b \in Idx, a # b, NEW ring \in [Desc -> Desc]
    PROVE  /\ Contents(ring, a, b) # <<>>
           /\ Head(Contents(ring, a, b)) = ring[Slot(a)]
           /\ Tail(Contents(ring, a, b)) = Contents(ring, Inc(a), b)
<1> DEFINE n == Dist(a, b)
           s == Contents(ring, a, b)
           t == Contents(ring, Inc(a), b)
<1>1. Inc(a) \in Idx /\ Dist(Inc(a), b) = n - 1
  BY IncValue, WindowShrink
<1>2. /\ s \in Seq(Desc) /\ Len(s) = n
      /\ t \in Seq(Desc) /\ Len(t) = n - 1
  BY <1>1, ContentsType
<1>3. n \in Nat /\ n >= 1 /\ n <= IdxMod - 1
  <2>1. n \in Nat /\ n <= IdxMod - 1
    BY DistType, VringAssumption DEF Idx
  <2>2. n - 1 \in Nat
    BY <1>1, DistType DEF Idx
  <2>3. QED
    BY <2>1, <2>2
<1>4. s[1] = ring[Slot(a)]
  <2>1. a + 1 - 1 = a /\ a % IdxMod = a
    BY VringAssumption DEF Idx
  <2>2. QED
    BY <1>3, <2>1 DEF Contents
<1>5. ASSUME NEW i \in 1 .. n - 1
      PROVE  t[i] = s[i + 1]
  <2>1. t[i] = ring[Slot((Inc(a) + i - 1) % IdxMod)]
    BY <1>1 DEF Contents
  <2>2. s[i + 1] = ring[Slot((a + (i + 1) - 1) % IdxMod)]
    BY <1>3 DEF Contents
  <2>3. (Inc(a) + i - 1) % IdxMod = (a + (i + 1) - 1) % IdxMod
    <3>1. i \in 0 .. IdxMod - 1 /\ i - 1 \in 0 .. IdxMod - 1
      BY <1>3, VringAssumption
    <3>2. (a + i) % IdxMod \in Idx /\ Dist(a, (a + i) % IdxMod) = i
      BY <3>1, Walk
    <3>3. /\ (Inc(a) + (i - 1)) % IdxMod \in Idx
          /\ Dist(Inc(a), (Inc(a) + (i - 1)) % IdxMod) = i - 1
      BY <1>1, <3>1, Walk
    <3>4. \A x, y \in Idx : Dist(a, x) = i /\ Dist(Inc(a), y) = i - 1 => x = y
      <4>1. /\ Inc(a) = IF a = IdxMod - 1 THEN 0 ELSE a + 1
            /\ IdxMod \in Nat \ {0}
        BY IncValue, VringAssumption
      <4>2. QED
        BY <3>1, <4>1 DEF Dist, Idx
    <3>5. /\ Inc(a) + i - 1 = Inc(a) + (i - 1)
          /\ a + (i + 1) - 1 = a + i
      BY <1>1, <1>3 DEF Idx
    <3>6. QED
      BY <3>2, <3>3, <3>4, <3>5
  <2>4. QED
    BY <2>1, <2>2, <2>3
<1> HIDE DEF n, s, t
<1>6. s # <<>> /\ Head(s) = s[1] /\ Tail(s) \in Seq(Desc) /\ Len(Tail(s)) = n - 1
      /\ \A i \in 1 .. n - 1 : Tail(s)[i] = s[i + 1]
  BY <1>2, <1>3
<1>7. Tail(s) = t
  BY <1>2, <1>5, <1>6
<1>8. QED
  BY <1>4, <1>6, <1>7 DEF s, t

\* Contents that look alike through a window are the same.
LEMMA ContentsSame ==
    ASSUME NEW a \in Idx, NEW b \in Idx,
           NEW ring \in [Desc -> Desc], NEW other \in [Desc -> Desc],
           \A x \in Window(a, b) : other[Slot(x)] = ring[Slot(x)]
    PROVE  Contents(other, a, b) = Contents(ring, a, b)
<1>1. Dist(a, b) \in Nat /\ Dist(a, b) <= IdxMod - 1
  BY DistType, VringAssumption DEF Idx
<1>2. ASSUME NEW i \in 1 .. Dist(a, b)
      PROVE  (a + i - 1) % IdxMod \in Window(a, b)
  <2>1. i - 1 \in 0 .. IdxMod - 1 /\ a + i - 1 = a + (i - 1)
    BY <1>1, VringAssumption DEF Idx
  <2>2. /\ (a + i - 1) % IdxMod \in Idx
        /\ Dist(a, (a + i - 1) % IdxMod) = i - 1
    BY <2>1, Walk
  <2>3. QED
    BY <1>1, <2>2 DEF Window
<1>3. QED
  BY <1>2 DEF Contents

\* The descriptors on their way to the device, and on their way back
Offered   == Contents(availRing, lastAvail, availIdx)
Completed == Contents(usedRing, lastUsed, usedIdx)

\* What is in the contents of a window is in the ring.
LEMMA ContentsOwned ==
    ASSUME TypeOK
    PROVE  /\ Offered \in Seq(Desc) /\ \A i \in DOMAIN Offered : Offered[i] \in Pending
           /\ Completed \in Seq(Desc) /\ \A i \in DOMAIN Completed : Completed[i] \in Returned
<1>1. ASSUME NEW a \in Idx, NEW b \in Idx, NEW ring \in [Desc -> Desc]
      PROVE  /\ Contents(ring, a, b) \in Seq(Desc)
             /\ \A i \in DOMAIN Contents(ring, a, b) :
                  Contents(ring, a, b)[i] \in {ring[Slot(x)] : x \in Window(a, b)}
  <2>1. Contents(ring, a, b) \in Seq(Desc) /\ DOMAIN Contents(ring, a, b) = 1 .. Dist(a, b)
    BY ContentsType DEF Contents
  <2>2. Dist(a, b) \in Nat /\ Dist(a, b) <= IdxMod - 1
    BY DistType, VringAssumption DEF Idx
  <2>3. ASSUME NEW i \in 1 .. Dist(a, b)
        PROVE  Contents(ring, a, b)[i] \in {ring[Slot(x)] : x \in Window(a, b)}
    <3>1. i - 1 \in 0 .. IdxMod - 1 /\ a + i - 1 = a + (i - 1)
      BY <2>2, VringAssumption DEF Idx
    <3>2. (a + i - 1) % IdxMod \in Idx /\ Dist(a, (a + i - 1) % IdxMod) = i - 1
      BY <3>1, Walk
    <3>3. (a + i - 1) % IdxMod \in Window(a, b)
      BY <2>2, <3>2 DEF Window
    <3>4. QED
      BY <3>3 DEF Contents
  <2>4. QED
    BY <2>1, <2>3
<1>2. QED
  BY <1>1 DEF TypeOK, Offered, Completed, Pending, Returned, AvailWindow, UsedWindow

\* What each step does to them: filling a slot changes nothing yet, ...
LEMMA AddAvailContents ==
    ASSUME IInv, NEW d \in Desc, AddAvail(d)
    PROVE  /\ UNCHANGED <<Offered, Completed>>
           /\ availRing'[Slot(availIdx')] = d
<1> USE DEF IInv, Offered, Completed
<1>1. Dist(lastAvail, availIdx) < Num
  BY Room DEF AddAvail
<1>2. \A x \in Window(lastAvail, availIdx) : availRing'[Slot(x)] = availRing[Slot(x)]
  BY <1>1, PushKeeps DEF AddAvail, TypeOK
<1>3. availRing' \in [Desc -> Desc]
  BY DEF AddAvail, TypeOK
<1>4. Contents(availRing', lastAvail, availIdx) = Offered
  BY <1>2, <1>3, ContentsSame DEF TypeOK
<1>5. UNCHANGED <<Offered, Completed>>
  BY <1>4 DEF AddAvail, deviceVars, Contents, Dist
<1>6. availRing'[Slot(availIdx')] = d
  BY SlotType DEF AddAvail, TypeOK
<1>7. QED
  BY <1>5, <1>6

LEMMA WriteUsedContents ==
    ASSUME IInv, WriteUsed
    PROVE  UNCHANGED <<Offered, Completed>>
<1> USE DEF IInv, Offered, Completed
<1>1. Dist(lastUsed, usedIdx) < Num
  BY Room DEF WriteUsed
<1>2. \A x \in Window(lastUsed, usedIdx) : usedRing'[Slot(x)] = usedRing[Slot(x)]
  BY <1>1, PushKeeps DEF WriteUsed, TypeOK
<1>3. usedRing' \in [Desc -> Desc]
  BY DEF WriteUsed, TypeOK
<1>4. Contents(usedRing', lastUsed, usedIdx) = Completed
  BY <1>2, <1>3, ContentsSame DEF TypeOK
<1>5. QED
  BY <1>4 DEF WriteUsed, driverVars, Contents, Dist

\* publishing it appends, ...
LEMMA PublishAvailContents ==
    ASSUME IInv, PublishAvail
    PROVE  /\ Offered' = Append(Offered, availRing[Slot(availIdx)])
           /\ UNCHANGED Completed
<1> USE DEF IInv, Offered, Completed
<1>1. Dist(lastAvail, availIdx) < Num
  BY Room DEF PublishAvail
<1>2. Contents(availRing, lastAvail, Inc(availIdx))
        = Append(Offered, availRing[Slot(availIdx)])
  BY <1>1, ContentsExtend DEF TypeOK
<1>3. QED
  BY <1>2 DEF PublishAvail, deviceVars, Contents, Dist

LEMMA PublishUsedContents ==
    ASSUME IInv, PublishUsed
    PROVE  /\ Completed' = Append(Completed, devDesc)
           /\ UNCHANGED Offered
<1> USE DEF IInv, Offered, Completed
<1>1. Dist(lastUsed, usedIdx) < Num
  BY Room DEF PublishUsed
<1>2. usedRing[Slot(usedIdx)] = devDesc
  BY DEF PublishUsed, SlotFilled
<1>3. Contents(usedRing, lastUsed, Inc(usedIdx)) = Append(Completed, devDesc)
  BY <1>1, <1>2, ContentsExtend DEF TypeOK
<1>4. QED
  BY <1>3 DEF PublishUsed, driverVars, Contents, Dist

\* and taking it removes the oldest.
LEMMA TakeAvailContents ==
    ASSUME IInv, TakeAvail
    PROVE  /\ Offered # <<>> /\ Head(Offered) = devDesc'
           /\ Offered' = Tail(Offered)
           /\ UNCHANGED Completed
<1> USE DEF IInv, Offered, Completed
<1>1. /\ Offered # <<>>
      /\ Head(Offered) = availRing[Slot(lastAvail)]
      /\ Tail(Offered) = Contents(availRing, Inc(lastAvail), availIdx)
  BY ContentsShrink DEF TakeAvail, TypeOK, SeenPublished
<1>2. QED
  BY <1>1 DEF TakeAvail, driverVars, Contents, Dist

LEMMA GetUsedContents ==
    ASSUME IInv, GetUsed
    PROVE  /\ Completed # <<>> /\ Head(Completed) = usedRing[Slot(lastUsed)]
           /\ Completed' = Tail(Completed)
           /\ UNCHANGED Offered
<1> USE DEF IInv, Offered, Completed
<1>1. /\ Completed # <<>>
      /\ Head(Completed) = usedRing[Slot(lastUsed)]
      /\ Tail(Completed) = Contents(usedRing, Inc(lastUsed), usedIdx)
  BY ContentsShrink DEF GetUsed, TypeOK
<1>2. QED
  BY <1>1 DEF GetUsed, deviceVars, Contents, Dist

LEMMA OtherContents ==
    ASSUME SeeAvail \/ Abandon \/ UNCHANGED vars
    PROVE  UNCHANGED <<Offered, Completed>>
BY DEF SeeAvail, Abandon, vars, driverVars, Offered, Completed, Contents, Dist

\* Every step of the vring is a step of the pool, or leaves the pool alone.
LEMMA StepPool ==
    ASSUME IInv, [Next]_vars
    PROVE  [Pool!Next]_(Pool!vars)
<1> SUFFICES Pool!Next \/ UNCHANGED Pool!vars
  OBVIOUS
<1>1. ASSUME NEW d \in Desc, AddAvail(d)
      PROVE  UNCHANGED Pool!vars
  <2>1. Written = {} /\ Written' = {d}
    BY <1>1, AddAvailContents DEF AddAvail, Written
  <2>2. (free \cup Written)' = free \cup Written
    BY <1>1, <2>1 DEF AddAvail
  <2>3. Held' = Held /\ lost' = lost
    BY <1>1 DEF AddAvail, deviceVars, Held
  <2>4. QED
    BY <1>1, <2>2, <2>3, AddAvailContents DEF Pool!vars, Offered, Completed
<1>2. CASE PublishAvail
  <2> DEFINE d == availRing[Slot(availIdx)]
  <2>1. Written = {d} /\ Written' = {} /\ d \in Desc
    BY <1>2, SlotType DEF PublishAvail, Written, IInv, TypeOK
  <2>2. Written \cap free = {}
    BY DEF IInv, SingleOwner, Disjoint
  <2>3. (free \cup Written)' = (free \cup Written) \ {d}
    BY <1>2, <2>1, <2>2 DEF PublishAvail
  <2>4. Held' = Held /\ lost' = lost
    BY <1>2 DEF PublishAvail, deviceVars, Held
  <2>5. Pool!Offer(d)
    BY <1>2, <2>1, <2>3, <2>4, PublishAvailContents DEF Pool!Offer, Offered, Completed
  <2>6. QED
    BY <2>1, <2>5 DEF Pool!Next
<1>3. CASE GetUsed
  <2>1. Written' = Written /\ Held' = Held /\ lost' = lost
    BY <1>3 DEF GetUsed, deviceVars, Written, Held
  <2>2. (free \cup Written)' = (free \cup Written) \cup {Head(Completed)}
    BY <1>3, <2>1, GetUsedContents DEF GetUsed
  <2>3. Pool!Reclaim
    BY <1>3, <2>1, <2>2, GetUsedContents DEF Pool!Reclaim, Offered, Completed
  <2>4. QED
    BY <2>3 DEF Pool!Next
<1>4. CASE SeeAvail
  BY <1>4, OtherContents
     DEF SeeAvail, driverVars, Pool!vars, Offered, Completed, Written, Held
<1>5. CASE TakeAvail
  <2>1. Held = {} /\ Held' = {Head(Offered)}
    BY <1>5, TakeAvailContents DEF TakeAvail, Held
  <2>2. (free \cup Written)' = free \cup Written /\ lost' = lost
    BY <1>5 DEF TakeAvail, driverVars, Written
  <2>3. Pool!Accept
    BY <1>5, <2>1, <2>2, TakeAvailContents DEF Pool!Accept, Offered, Completed
  <2>4. QED
    BY <2>3 DEF Pool!Next
<1>6. CASE WriteUsed
  <2>1. /\ Held' = Held /\ lost' = lost
        /\ (free \cup Written)' = free \cup Written
    BY <1>6 DEF WriteUsed, driverVars, Held, Written
  <2>2. QED
    BY <1>6, <2>1, WriteUsedContents DEF Pool!vars, Offered, Completed
<1>7. CASE PublishUsed
  <2>1. /\ Held = {devDesc} /\ Held' = {} /\ lost' = lost
        /\ (free \cup Written)' = free \cup Written
    BY <1>7 DEF PublishUsed, driverVars, Held, Written
  <2>2. Pool!Complete(devDesc)
    BY <1>7, <2>1, PublishUsedContents DEF Pool!Complete, Offered, Completed
  <2>3. QED
    BY <2>2 DEF Pool!Next, IInv, TypeOK
<1>8. CASE Abandon
  <2>1. /\ Held = {devDesc} /\ Held' = {} /\ lost' = lost \cup {devDesc}
        /\ (free \cup Written)' = free \cup Written
    BY <1>8 DEF Abandon, driverVars, Held, Written
  <2>2. Pool!Abandon(devDesc)
    BY <1>8, <2>1, OtherContents DEF Pool!Abandon, Offered, Completed
  <2>3. QED
    BY <2>2 DEF Pool!Next, IInv, TypeOK
<1>9. CASE UNCHANGED vars
  BY <1>9, OtherContents DEF vars, Pool!vars, Offered, Completed, Written, Held
<1>10. QED
  BY <1>1, <1>2, <1>3, <1>4, <1>5, <1>6, <1>7, <1>8, <1>9
     DEF Next, Driver, Device

\* The vring implements the pool of buffers: first in, first out in both
\* directions, each buffer with one owner.
THEOREM PoolImplemented == Spec => ImplementsPool
<1>1. Init => Pool!Init
  <2> SUFFICES ASSUME Init
               PROVE  Pool!Init
    OBVIOUS
  <2>1. Dist(0, 0) = 0
    BY VringAssumption DEF Dist
  <2>2. /\ Contents(availRing, lastAvail, availIdx) = <<>>
        /\ Contents(usedRing, lastUsed, usedIdx) = <<>>
    BY <2>1 DEF Init, Contents
  <2>3. QED
    BY <2>2 DEF Init, Pool!Init, Written, Held
<1>2. IInv /\ [Next]_vars => [Pool!Next]_(Pool!vars)
  BY StepPool
<1>3. QED
  BY <1>1, <1>2, Inductive, PTL DEF Spec, ImplementsPool, Pool!Spec

=============================================================================
