------------------------------ MODULE Allocator ------------------------------
(***************************************************************************)
(* What the callers of a heap rely on: memory they were given is theirs,   *)
(* and nobody else's, until they give it back.                             *)
(***************************************************************************)
EXTENDS Integers

CONSTANTS
    Heap,       \* the addresses of the heap
    Requests    \* the numbers of bytes that are asked for

VARIABLE live   \* a function: pointers handed out -> bytes asked for

Region(p, n) == p .. p + n - 1

Init == live = [p \in {} |-> 0]

Alloc(n) ==
    \E p \in Heap :
        /\ Region(p, n) \subseteq Heap
        /\ \A q \in DOMAIN live : Region(p, n) \cap Region(q, live[q]) = {}
        /\ live' = [q \in DOMAIN live \cup {p} |->
                        IF q = p THEN n ELSE live[q]]

Free(p) == live' = [q \in DOMAIN live \ {p} |-> live[q]]

Next ==
    \/ \E n \in Requests : Alloc(n)
    \/ \E p \in DOMAIN live : Free(p)

Spec == Init /\ [][Next]_live
=============================================================================
