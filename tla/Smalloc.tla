------------------------------- MODULE Smalloc -------------------------------
(***************************************************************************)
(* SyterKit's heap, src/smalloc.c: a first-fit allocator that keeps the    *)
(* header of each block in front of it, linked from a head node to a tail  *)
(* node that lie outside the heap.                                         *)
(*                                                                         *)
(* smalloc links a node into the gap between its two neighbours, so the    *)
(* list is in the order of addresses; it is modelled as a function from    *)
(* the addresses of its nodes to their sizes, next being the node above.   *)
(* Addresses and sums are taken to fit in phys_addr_t.                     *)
(***************************************************************************)
EXTENDS Integers

CONSTANTS
    HeapStart, HeapSize,    \* p_heap_head, n_heap_size
    Header,                 \* sizeof(struct alloc_struct_t)
    Align,                  \* BYTE_ALIGN rounds up to it: 16 in the code
    Requests                \* the sizes callers ask for

ASSUME SmallocAssumption ==
    /\ HeapStart \in Nat \ {0}
    /\ HeapSize \in Nat \ {0}
    /\ Header \in Nat \ {0}
    /\ Align \in Nat \ {0}
    /\ Requests \subseteq Nat \ {0}

VARIABLES
    blocks,     \* the list: address -> [size, o_size]
    live        \* history: pointers callers hold -> bytes they asked for

vars == <<blocks, live>>

HeapEnd == HeapStart + HeapSize
ByteAlign(n) == ((n + Align - 1) \div Align) * Align

Empty == [p \in {} |-> 0]

\* A list f with x added or replaced, or without the nodes in S
With(f, x, v)  == [p \in DOMAIN f \cup {x} |-> IF p = x THEN v ELSE f[p]]
Without(f, S)  == [p \in DOMAIN f \ S |-> f[p]]

\* The head node has the address of the heap and no bytes.
Nodes  == DOMAIN blocks \cup {HeapStart}
Top(a) == IF a \in DOMAIN blocks THEN a + blocks[a].size ELSE a

\* smalloc_init
Init == blocks = Empty /\ live = Empty

\* ptr->next, the tail node included, is at least room bytes above a
RoomAbove(a, room) ==
    \A b \in DOMAIN blocks \cup {HeapEnd} : b > a => b >= a + room

\* Mutant of Fits: it leaves room for one header only.
FitsNoHeader(a, size) ==
    \A b \in DOMAIN blocks \cup {HeapEnd} : b > a => b >= Top(a) + size

Fits(a, size) ==
    \A b \in DOMAIN blocks \cup {HeapEnd} :
        b > a => b >= Top(a) + 2 * Header + size

FirstFit(a, size) ==
    /\ a \in Nodes
    /\ Fits(a, size)
    /\ \A b \in Nodes : b < a => ~Fits(b, size)

\* Mutant of NewPtr: the header is not skipped.
NewPtrAtHeader(a) == Top(a)

\* The block that is put after node a
NewPtr(a) == Top(a) + Header

-----------------------------------------------------------------------------
\* Mutant of Smalloc: the node keeps the size that was asked for.
SmallocUnaligned(n) ==
    \E a \in Nodes :
        /\ FirstFit(a, ByteAlign(n))
        /\ blocks' = With(blocks, NewPtr(a), [size |-> n, o_size |-> n])
        /\ live' = With(live, NewPtr(a), n)

\* smalloc(n) finds a gap, ...
Smalloc(n) ==
    \E a \in Nodes :
        /\ FirstFit(a, ByteAlign(n))
        /\ blocks' = With(blocks, NewPtr(a),
                          [size |-> ByteAlign(n), o_size |-> n])
        /\ live' = With(live, NewPtr(a), n)

\* ... or returns NULL.
SmallocFails(n) ==
    /\ \A a \in Nodes : ~Fits(a, ByteAlign(n))
    /\ UNCHANGED vars

\* Mutant of Sfree: it unlinks one node too many.
SfreeTwo(p) ==
    /\ p \in DOMAIN live
    /\ blocks' = Without(blocks, {p} \cup {q \in DOMAIN blocks : q > p})
    /\ live' = Without(live, {p})

\* sfree(p); a pointer that is not in the list is ignored.
Sfree(p) ==
    /\ p \in DOMAIN live
    /\ blocks' = Without(blocks, {p})
    /\ live' = Without(live, {p})

-----------------------------------------------------------------------------
(* srealloc(p, n)                                                          *)

\* What it makes of the request
Grown(p, n) == ByteAlign(blocks[p].o_size + n)

\* p has left the list: NULL.
ReallocUnknown(p, n) ==
    /\ p \in DOMAIN live \ DOMAIN blocks
    /\ UNCHANGED vars

\* The rounded size stays the same: p, and nothing is noted.
ReallocSame(p, n) ==
    /\ p \in DOMAIN live \cap DOMAIN blocks
    /\ Grown(p, n) = blocks[p].size
    /\ live' = With(live, p, n)
    /\ UNCHANGED blocks

CanGrow(p, n) == RoomAbove(p, Grown(p, n) + 2 * Header)

\* The gap above p is large enough: p grows into it.
ReallocInPlace(p, n) ==
    /\ p \in DOMAIN live \cap DOMAIN blocks
    /\ Grown(p, n) # blocks[p].size
    /\ CanGrow(p, n)
    /\ blocks' = With(blocks, p, [size |-> Grown(p, n),
                                  o_size |-> blocks[p].o_size + n])
    /\ live' = With(live, p, n)

\* prev->next = ptr->next, with prev and ptr found before q was linked:
\* unlinks p, and q as well if it was linked between prev and p.
Unlinked(p, q) ==
    {p} \cup (IF q < p /\ ~\E x \in DOMAIN blocks : q < x /\ x < p
                THEN {q} ELSE {})

\* A new block is allocated, the contents are copied, the old one is unlinked.
ReallocMove(p, n) ==
    /\ p \in DOMAIN live \cap DOMAIN blocks
    /\ Grown(p, n) # blocks[p].size
    /\ ~CanGrow(p, n)
    /\ \E a \in Nodes :
         LET q == NewPtr(a) IN
         /\ FirstFit(a, Grown(p, n))
         /\ blocks' = Without(With(blocks, q, [size |-> Grown(p, n),
                                               o_size |-> Grown(p, n)]),
                              Unlinked(p, q))
         /\ live' = Without(With(live, q, n), {p})

\* There is no such block: NULL, and p stays as it is.
ReallocFails(p, n) ==
    /\ p \in DOMAIN live \cap DOMAIN blocks
    /\ Grown(p, n) # blocks[p].size
    /\ ~CanGrow(p, n)
    /\ \A a \in Nodes : ~Fits(a, Grown(p, n))
    /\ UNCHANGED vars

Srealloc(p, n) ==
    \/ ReallocUnknown(p, n) \/ ReallocSame(p, n) \/ ReallocInPlace(p, n)
    \/ ReallocMove(p, n) \/ ReallocFails(p, n)

-----------------------------------------------------------------------------
\* What the boot programs and the USB driver call
Next ==
    \/ \E n \in Requests : Smalloc(n) \/ SmallocFails(n)
    \/ \E p \in DOMAIN live : Sfree(p)

Spec == Init /\ [][Next]_vars

\* The whole interface; nothing in the repository calls srealloc.
ReallocNext == Next \/ \E p \in DOMAIN live, n \in Requests : Srealloc(p, n)

ReallocSpec == Init /\ [][ReallocNext]_vars

-----------------------------------------------------------------------------
(* Properties                                                              *)

Nat1 == Nat \ {0}

ListOK(f) ==
    /\ DOMAIN f \subseteq Nat1
    /\ \A p \in DOMAIN f :
         /\ f[p] \in [size : Nat, o_size : Nat1]
         /\ f[p].size % Align = 0

\* Every variable has its type; blocks are whole multiples of Align.
TypeOK ==
    /\ ListOK(blocks)
    /\ DOMAIN live \subseteq Nat1
    /\ \A p \in DOMAIN live : live[p] \in Nat1

Tidy(f) ==
    /\ \A p \in DOMAIN f :
         /\ HeapStart + Header <= p
         /\ p + f[p].size + Header <= HeapEnd
    /\ \A p, q \in DOMAIN f : p < q => p + f[p].size + Header <= q

\* The blocks of the list with their headers lie in the heap, one above the
\* other: no header is inside a block, no block inside another, whatever was
\* freed, grown or moved between two calls.
LaidOut == Tidy(blocks)

\* The list holds the blocks callers hold and no others (nothing leaks), each
\* at least as long as was asked for.
Accounted ==
    /\ DOMAIN blocks = DOMAIN live
    /\ \A p \in DOMAIN live : live[p] <= blocks[p].size

\* The inductive invariant of Spec
IInv == TypeOK /\ LaidOut /\ Accounted

\* The heap is an allocator: what smalloc returns lies in the heap and
\* overlaps nothing a caller holds.
Abstract == INSTANCE Allocator WITH Heap <- HeapStart .. HeapEnd - 1
ImplementsAllocator == Abstract!Spec

\* "delete the node which need be released from the memory block chain"
\* (smalloc.c:100): that node and no other; what a caller holds is in the list.
OnlyReleased == DOMAIN live \subseteq DOMAIN blocks
=============================================================================
