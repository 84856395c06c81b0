---------------------------- MODULE SmallocProofs ----------------------------
(***************************************************************************)
(* The heap of SyterKit stays in order through every call, srealloc        *)
(* included, and without srealloc it is an allocator.                      *)
(***************************************************************************)
EXTENDS Smalloc, TLAPS

USE SmallocAssumption

-----------------------------------------------------------------------------
(* Sizes                                                                   *)

\* A multiple of Align is one whatever the factor.
LEMMA MultipleOf == \A k \in Nat : (k * Align) % Align = 0
  OBVIOUS

\* BYTE_ALIGN never rounds down, and gives whole multiples.
LEMMA ByteAlignRounds ==
    \A n \in Nat1 : /\ ByteAlign(n) \in Nat
                    /\ n <= ByteAlign(n)
                    /\ ByteAlign(n) % Align = 0
<1> SUFFICES ASSUME NEW n \in Nat1
             PROVE  /\ ByteAlign(n) \in Nat
                    /\ n <= ByteAlign(n)
                    /\ ByteAlign(n) % Align = 0
  OBVIOUS
<1> DEFINE k == (n + Align - 1) \div Align
<1>1. k \in Nat
  BY DEF Nat1
<1>2. n + Align - 1 < k * Align + Align
  BY DEF Nat1
<1> QED BY <1>1, <1>2, MultipleOf DEF ByteAlign, Nat1
-----------------------------------------------------------------------------
(* Lists                                                                   *)

\* Unlinking nodes leaves a list in order.
LEMMA TidyWithout ==
    ASSUME NEW f, NEW S, ListOK(f), Tidy(f)
    PROVE  ListOK(Without(f, S)) /\ Tidy(Without(f, S))
<1> DEFINE g == Without(f, S)
<1>1. DOMAIN g \subseteq DOMAIN f /\ \A p \in DOMAIN g : g[p] = f[p]
  BY DEF Without
<1>2. ListOK(g)
  BY <1>1 DEF ListOK
<1>3. Tidy(g)
  <2> HIDE DEF g
  <2> QED BY <1>1 DEF Tidy
<1> QED BY <1>2, <1>3

\* So does a node whose extent, header included, keeps clear of the others.
LEMMA TidyWith ==
    ASSUME NEW f, NEW x \in Nat1, NEW s \in Nat, NEW o \in Nat1,
           ListOK(f), Tidy(f),
           s % Align = 0,
           HeapStart + Header <= x,
           x + s + Header <= HeapEnd,
           \A q \in DOMAIN f : q < x => q + f[q].size + Header <= x,
           \A q \in DOMAIN f : x < q => x + s + Header <= q
    PROVE  LET g == With(f, x, [size |-> s, o_size |-> o])
           IN  ListOK(g) /\ Tidy(g)
<1> DEFINE g == With(f, x, [size |-> s, o_size |-> o])
<1>1. /\ DOMAIN g = DOMAIN f \cup {x}
      /\ g[x] = [size |-> s, o_size |-> o]
      /\ \A p \in DOMAIN f : p # x => g[p] = f[p]
  BY DEF With
<1> HIDE DEF g
<1>2. ListOK(g)
  BY <1>1 DEF ListOK
<1>3. \A p \in DOMAIN g : /\ HeapStart + Header <= p
                         /\ p + g[p].size + Header <= HeapEnd
  BY <1>1 DEF Tidy
<1>4. ASSUME NEW p \in DOMAIN g, NEW q \in DOMAIN g, p < q
      PROVE  p + g[p].size + Header <= q
  <2>1. p \in Nat /\ q \in Nat
    BY <1>2 DEF ListOK, Nat1
  <2>2. CASE p = x
    BY <2>1, <2>2, <1>1, <1>4 DEF Nat1
  <2>3. CASE p # x /\ q = x
    BY <2>1, <2>3, <1>1, <1>4
  <2>4. CASE p # x /\ q # x
    BY <2>1, <2>4, <1>1, <1>4 DEF Tidy
  <2> QED BY <2>2, <2>3, <2>4
<1>5. Tidy(g)
  BY <1>3, <1>4 DEF Tidy
<1> QED BY <1>2, <1>5 DEF g

-----------------------------------------------------------------------------
(* First fit                                                               *)

\* Where a gap fits, a block keeps clear of all others and of the tail.
LEMMA FitKeepsClear ==
    ASSUME TypeOK, LaidOut, NEW a \in Nodes, NEW s \in Nat, Fits(a, s)
    PROVE  /\ NewPtr(a) \in Nat1
           /\ HeapStart + Header <= NewPtr(a)
           /\ NewPtr(a) + s + Header <= HeapEnd
           /\ \A q \in DOMAIN blocks :
                 q < NewPtr(a) => q + blocks[q].size + Header <= NewPtr(a)
           /\ \A q \in DOMAIN blocks :
                 q >= NewPtr(a) => NewPtr(a) + s + Header <= q
<1>1. \A q \in DOMAIN blocks : q \in Nat /\ blocks[q].size \in Nat
  BY DEF TypeOK, ListOK, Nat1
<1>2. /\ a \in Nat /\ Top(a) \in Nat
      /\ HeapStart <= a /\ a <= Top(a)
      /\ a < HeapEnd
  <2>1. CASE a \in DOMAIN blocks
    BY <2>1, <1>1 DEF Top, LaidOut, Tidy, HeapEnd
  <2>2. CASE a \notin DOMAIN blocks
    BY <2>2 DEF Nodes, Top, HeapEnd
  <2> QED BY <2>1, <2>2
<1>3. \A b \in DOMAIN blocks \cup {HeapEnd} :
          b > a => b >= Top(a) + 2 * Header + s
  BY DEF Fits
<1>4. HeapEnd \in Nat
  BY DEF HeapEnd
<1>5. HeapEnd >= Top(a) + 2 * Header + s
  BY <1>2, <1>3
<1>6. ASSUME NEW q \in DOMAIN blocks, q < NewPtr(a)
      PROVE  q + blocks[q].size + Header <= NewPtr(a)
  <2>1. q \in Nat /\ blocks[q].size \in Nat
    BY <1>1
  <2>2. ~(q > a)
    BY <2>1, <1>2, <1>3, <1>6 DEF NewPtr
  <2>3. CASE q = a
    BY <2>1, <2>3 DEF NewPtr, Top
  <2>4. CASE q < a /\ a \in DOMAIN blocks
    BY <2>1, <2>4, <1>1, <1>2 DEF LaidOut, Tidy, NewPtr
  <2>5. CASE q < a /\ a = HeapStart
    BY <2>1, <2>5 DEF LaidOut, Tidy
  <2> QED BY <2>1, <2>2, <2>3, <2>4, <2>5, <1>2 DEF Nodes
<1>7. ASSUME NEW q \in DOMAIN blocks, q >= NewPtr(a)
      PROVE  NewPtr(a) + s + Header <= q
  <2>1. q \in Nat
    BY <1>1
  <2>2. q > a
    BY <2>1, <1>2, <1>7 DEF NewPtr
  <2> QED BY <2>1, <2>2, <1>2, <1>3 DEF NewPtr
<1> QED BY <1>2, <1>4, <1>5, <1>6, <1>7 DEF NewPtr, Nat1

\* So a new block goes into the list in order.
LEMMA NewBlockTidy ==
    ASSUME TypeOK, LaidOut, NEW a \in Nodes, NEW s \in Nat, NEW o \in Nat1,
           s % Align = 0, Fits(a, s)
    PROVE  LET g == With(blocks, NewPtr(a), [size |-> s, o_size |-> o])
           IN  ListOK(g) /\ Tidy(g)
<1>1. \A q \in DOMAIN blocks : q \in Nat
  BY DEF TypeOK, ListOK, Nat1
<1> QED BY <1>1, FitKeepsClear, TidyWith DEF TypeOK, LaidOut, Nat1

-----------------------------------------------------------------------------
(* Every call keeps the list in order                                      *)

Order == TypeOK /\ LaidOut

\* smalloc, sfree and their failures
LEMMA NextKeepsOrder == Order /\ Next => Order'
<1> SUFFICES ASSUME Order, Next PROVE Order'
  OBVIOUS
<1> USE DEF Order
<1>1. ASSUME NEW n \in Requests, Smalloc(n) PROVE Order'
  <2>1. n \in Nat1
    BY DEF Nat1
  <2>2. PICK a \in Nodes :
          /\ FirstFit(a, ByteAlign(n))
          /\ blocks' = With(blocks, NewPtr(a),
                            [size |-> ByteAlign(n), o_size |-> n])
          /\ live' = With(live, NewPtr(a), n)
    BY <1>1 DEF Smalloc
  <2>3. Fits(a, ByteAlign(n)) /\ NewPtr(a) \in Nat1
    BY <2>1, <2>2, ByteAlignRounds, FitKeepsClear DEF FirstFit
  <2>4. ListOK(blocks') /\ Tidy(blocks')
    BY <2>1, <2>2, <2>3, ByteAlignRounds, NewBlockTidy
  <2>5. /\ DOMAIN live' \subseteq Nat1
        /\ \A p \in DOMAIN live' : live'[p] \in Nat1
    BY <2>1, <2>2, <2>3 DEF TypeOK, With
  <2> QED BY <2>4, <2>5 DEF TypeOK, LaidOut, ListOK, Tidy
<1>2. ASSUME NEW p \in DOMAIN live, Sfree(p) PROVE Order'
  <2>1. ListOK(blocks') /\ Tidy(blocks')
    BY <1>2, TidyWithout DEF Sfree, TypeOK, LaidOut
  <2>2. /\ DOMAIN live' \subseteq Nat1
        /\ \A q \in DOMAIN live' : live'[q] \in Nat1
    BY <1>2 DEF Without, Sfree, TypeOK
  <2> QED BY <2>1, <2>2 DEF TypeOK, LaidOut, ListOK, Tidy
<1>3. ASSUME UNCHANGED vars PROVE Order'
  BY <1>3 DEF vars, TypeOK, LaidOut, ListOK, Tidy
<1> QED BY <1>1, <1>2, <1>3 DEF Next, SmallocFails

\* srealloc; the node it may lose leaves the others in order.
LEMMA ReallocKeepsOrder ==
    ASSUME Order, NEW p \in DOMAIN live, NEW n \in Requests, Srealloc(p, n)
    PROVE  Order'
<1> USE DEF Order
<1>1. p \in Nat1 /\ n \in Nat1
  BY DEF Nat1, TypeOK
<1>2. ASSUME p \in DOMAIN blocks
      PROVE  /\ blocks[p].o_size + n \in Nat1
             /\ Grown(p, n) \in Nat1
             /\ Grown(p, n) % Align = 0
  <2>1. blocks[p].o_size + n \in Nat1
    BY <1>1, <1>2 DEF TypeOK, ListOK, Nat1
  <2> QED BY <2>1, ByteAlignRounds DEF Grown, Nat1
<1>3. ASSUME UNCHANGED vars PROVE Order'
  BY <1>3 DEF vars, TypeOK, LaidOut, ListOK, Tidy
<1>4. ASSUME ReallocSame(p, n) PROVE Order'
  <2>1. /\ DOMAIN live' \subseteq Nat1
        /\ \A q \in DOMAIN live' : live'[q] \in Nat1
    BY <1>1, <1>4 DEF ReallocSame, With, TypeOK
  <2> QED BY <1>4, <2>1 DEF ReallocSame, TypeOK, LaidOut, ListOK, Tidy
<1>5. ASSUME ReallocInPlace(p, n) PROVE Order'
  <2>0. p \in DOMAIN blocks
    BY <1>5 DEF ReallocInPlace
  <2> DEFINE s == Grown(p, n)
             o == blocks[p].o_size + n
  <2>1. s \in Nat /\ o \in Nat1 /\ s % Align = 0
    BY <1>2, <2>0 DEF Nat1
  <2>2. \A b \in DOMAIN blocks \cup {HeapEnd} : b > p => b >= p + s + 2 * Header
    <3>1. s + 2 * Header \in Nat
      BY <2>1
    <3>2. \A b \in DOMAIN blocks \cup {HeapEnd} :
              b > p => b >= p + (s + 2 * Header)
      BY <1>5 DEF ReallocInPlace, CanGrow, RoomAbove
    <3>3. p \in Nat /\ HeapEnd \in Nat /\ \A b \in DOMAIN blocks : b \in Nat
      BY <1>1 DEF Nat1, HeapEnd, TypeOK, ListOK
    <3> HIDE DEF s
    <3> QED BY <2>1, <3>2, <3>3
  <2>3. \A q \in DOMAIN blocks : q \in Nat /\ blocks[q].size \in Nat
    BY DEF TypeOK, ListOK, Nat1
  <2> HIDE DEF s, o
  <2>4. HeapStart + Header <= p /\ p < HeapEnd
    BY <2>0, <2>3 DEF LaidOut, Tidy, HeapEnd
  <2>5. p + s + Header <= HeapEnd
    BY <1>1, <2>1, <2>2, <2>4 DEF HeapEnd, Nat1
  <2>6. \A q \in DOMAIN blocks : q < p => q + blocks[q].size + Header <= p
    BY <2>0 DEF LaidOut, Tidy
  <2>7. \A q \in DOMAIN blocks : p < q => p + s + Header <= q
    BY <1>1, <2>1, <2>2, <2>3 DEF Nat1
  <2>8. blocks' = With(blocks, p, [size |-> s, o_size |-> o])
    BY <1>5 DEF ReallocInPlace, s, o
  <2>9. ListOK(blocks') /\ Tidy(blocks')
    BY <1>1, <2>1, <2>4, <2>5, <2>6, <2>7, <2>8, TidyWith DEF TypeOK, LaidOut
  <2>10. /\ DOMAIN live' \subseteq Nat1
         /\ \A q \in DOMAIN live' : live'[q] \in Nat1
    BY <1>1, <1>5 DEF ReallocInPlace, With, TypeOK
  <2> QED BY <2>9, <2>10 DEF TypeOK, LaidOut, ListOK, Tidy
<1>6. ASSUME ReallocMove(p, n) PROVE Order'
  <2>0. p \in DOMAIN blocks
    BY <1>6 DEF ReallocMove
  <2> DEFINE s == Grown(p, n)
  <2>1. PICK a \in Nodes :
          /\ FirstFit(a, s)
          /\ blocks' = Without(With(blocks, NewPtr(a), [size |-> s, o_size |-> s]),
                               Unlinked(p, NewPtr(a)))
          /\ live' = Without(With(live, NewPtr(a), n), {p})
    BY <1>6 DEF ReallocMove
  <2>2. s \in Nat1 /\ s % Align = 0 /\ Fits(a, s)
    BY <1>2, <2>0, <2>1 DEF FirstFit
  <2> HIDE DEF s
  <2>3. NewPtr(a) \in Nat1
    BY <2>2, FitKeepsClear DEF Nat1
  <2> DEFINE g == With(blocks, NewPtr(a), [size |-> s, o_size |-> s])
  <2>4. ListOK(g) /\ Tidy(g)
    BY <2>2, NewBlockTidy DEF Nat1
  <2> HIDE DEF g
  <2>5. ListOK(blocks') /\ Tidy(blocks')
    BY <2>1, <2>4, TidyWithout DEF g
  <2>6. /\ DOMAIN live' \subseteq Nat1
        /\ \A q \in DOMAIN live' : live'[q] \in Nat1
    BY <1>1, <2>1, <2>3 DEF With, Without, TypeOK
  <2> QED BY <2>5, <2>6 DEF TypeOK, LaidOut, ListOK, Tidy
<1> QED BY <1>3, <1>4, <1>5, <1>6 DEF Srealloc, ReallocUnknown, ReallocFails

LEMMA InitInOrder == Init => Order
  BY DEF Init, Empty, Order, TypeOK, LaidOut, ListOK, Tidy

\* Every variable keeps its type, whatever is called.
THEOREM TypeCorrect == ReallocSpec => []TypeOK
<1>1. Order /\ [ReallocNext]_vars => Order'
  <2>1. ASSUME Order, UNCHANGED vars PROVE Order'
    BY <2>1 DEF vars, Order, TypeOK, LaidOut, ListOK, Tidy
  <2> QED BY <2>1, NextKeepsOrder, ReallocKeepsOrder DEF ReallocNext
<1>2. Order => TypeOK
  BY DEF Order
<1> QED BY InitInOrder, <1>1, <1>2, PTL DEF ReallocSpec

\* Blocks and headers never overlap in the list, srealloc included.
THEOREM LaidOutCorrect == ReallocSpec => []LaidOut
<1>1. Order /\ [ReallocNext]_vars => Order'
  <2>1. ASSUME Order, UNCHANGED vars PROVE Order'
    BY <2>1 DEF vars, Order, TypeOK, LaidOut, ListOK, Tidy
  <2> QED BY <2>1, NextKeepsOrder, ReallocKeepsOrder DEF ReallocNext
<1>2. Order => LaidOut
  BY DEF Order
<1> QED BY InitInOrder, <1>1, <1>2, PTL DEF ReallocSpec

-----------------------------------------------------------------------------
(* Without srealloc the heap is an allocator                               *)

\* A block put into a gap is a new one.
LEMMA NewPtrIsNew ==
    ASSUME Order, NEW a \in Nodes, NEW s \in Nat, Fits(a, s)
    PROVE  NewPtr(a) \notin DOMAIN blocks
<1>1. NewPtr(a) \in Nat1
  BY FitKeepsClear DEF Order
<1>2. NewPtr(a) \in DOMAIN blocks => NewPtr(a) + s + Header <= NewPtr(a)
  BY <1>1, FitKeepsClear DEF Order, Nat1
<1> QED BY <1>1, <1>2 DEF Nat1

\* Callers hold the blocks of the list, all along.
LEMMA NextKeepsAccounted == IInv /\ Next => Accounted'
<1> SUFFICES ASSUME IInv, Next PROVE Accounted'
  OBVIOUS
<1>0. Order
  BY DEF IInv, Order
<1>1. ASSUME NEW n \in Requests, Smalloc(n) PROVE Accounted'
  <2>1. n \in Nat1
    BY DEF Nat1
  <2>2. PICK a \in Nodes :
          /\ FirstFit(a, ByteAlign(n))
          /\ blocks' = With(blocks, NewPtr(a),
                            [size |-> ByteAlign(n), o_size |-> n])
          /\ live' = With(live, NewPtr(a), n)
    BY <1>1 DEF Smalloc
  <2>3. n <= ByteAlign(n)
    BY <2>1, ByteAlignRounds
  <2> QED BY <2>2, <2>3 DEF IInv, Accounted, With
<1>2. ASSUME NEW p \in DOMAIN live, Sfree(p) PROVE Accounted'
  BY <1>2 DEF Sfree, IInv, Accounted, Without
<1>3. ASSUME UNCHANGED vars PROVE Accounted'
  BY <1>3 DEF vars, IInv, Accounted
<1> QED BY <1>1, <1>2, <1>3 DEF Next, SmallocFails

\* The inductive invariant of smalloc and sfree.
THEOREM Inductive == Spec => []IInv
<1>1. Init => IInv
  BY InitInOrder DEF IInv, Order, Accounted, Init, Empty
<1>2. IInv /\ [Next]_vars => IInv'
  <2>1. ASSUME IInv, UNCHANGED vars PROVE IInv'
    BY <2>1 DEF vars, IInv, TypeOK, LaidOut, ListOK, Tidy, Accounted
  <2>2. ASSUME IInv, Next PROVE IInv'
    BY <2>2, NextKeepsOrder, NextKeepsAccounted DEF IInv, Order
  <2> QED BY <2>1, <2>2
<1> QED BY <1>1, <1>2, PTL DEF Spec

\* Nothing leaks, and each block is as long as its caller asked for.
THEOREM AccountedCorrect == Spec => []Accounted
<1>1. IInv => Accounted
  BY DEF IInv
<1> QED BY Inductive, <1>1, PTL

\* smalloc returns memory of the heap that nobody holds.
LEMMA SmallocAllocates ==
    ASSUME IInv, NEW n \in Requests, Smalloc(n)
    PROVE  Abstract!Alloc(n)
<1>0. Order
  BY DEF IInv, Order
<1>1. n \in Nat1
  BY DEF Nat1
<1>2. PICK a \in Nodes :
        /\ FirstFit(a, ByteAlign(n))
        /\ live' = With(live, NewPtr(a), n)
  BY DEF Smalloc
<1> DEFINE p == NewPtr(a)
           s == ByteAlign(n)
<1>3. s \in Nat /\ n <= s /\ Fits(a, s)
  BY <1>1, <1>2, ByteAlignRounds DEF FirstFit
<1>4. /\ p \in Nat1
      /\ HeapStart + Header <= p
      /\ p + s + Header <= HeapEnd
      /\ \A q \in DOMAIN blocks :
            q < p => q + blocks[q].size + Header <= p
      /\ \A q \in DOMAIN blocks : q >= p => p + s + Header <= q
  BY <1>0, <1>3, FitKeepsClear DEF Order
<1> HIDE DEF p, s
<1>5. HeapEnd \in Nat
  BY DEF HeapEnd
<1>6. p \in HeapStart .. HeapEnd - 1
  BY <1>1, <1>3, <1>4, <1>5 DEF Nat1
<1>7. Abstract!Region(p, n) \subseteq HeapStart .. HeapEnd - 1
  BY <1>1, <1>3, <1>4, <1>5 DEF Nat1, Abstract!Region
<1>8. ASSUME NEW q \in DOMAIN live
      PROVE  Abstract!Region(p, n) \cap Abstract!Region(q, live[q]) = {}
  <2>1. /\ q \in DOMAIN blocks /\ q \in Nat /\ live[q] \in Nat
        /\ blocks[q].size \in Nat /\ live[q] <= blocks[q].size
    BY <1>8 DEF IInv, Accounted, TypeOK, ListOK, Nat1
  <2>2. q + live[q] <= p \/ p + n <= q
    BY <1>1, <1>3, <1>4, <2>1 DEF Nat1
  <2> QED BY <1>1, <1>4, <2>1, <2>2 DEF Nat1, Abstract!Region
<1>9. live' = [q \in DOMAIN live \cup {p} |-> IF q = p THEN n ELSE live[q]]
  BY <1>2 DEF With, p
<1> QED BY <1>6, <1>7, <1>8, <1>9 DEF Abstract!Alloc

\* smalloc and sfree implement the abstract allocator.
THEOREM AllocatorImplemented == Spec => ImplementsAllocator
<1>1. Init => Abstract!Init
  BY DEF Init, Empty, Abstract!Init
<1>2. IInv /\ [Next]_vars => [Abstract!Next]_live
  <2>1. ASSUME IInv, NEW n \in Requests, Smalloc(n) PROVE Abstract!Next
    BY <2>1, SmallocAllocates DEF Abstract!Next
  <2>2. ASSUME NEW p \in DOMAIN live, Sfree(p) PROVE Abstract!Next
    BY <2>2 DEF Sfree, Without, Abstract!Next, Abstract!Free
  <2>3. ASSUME UNCHANGED vars PROVE UNCHANGED live
    BY <2>3 DEF vars
  <2> QED BY <2>1, <2>2, <2>3 DEF Next, SmallocFails
<1> QED BY <1>1, <1>2, Inductive, PTL DEF Spec, ImplementsAllocator, Abstract!Spec
=============================================================================
