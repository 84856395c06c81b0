---------------------------- MODULE BlockDevice ----------------------------
(***************************************************************************)
(* What a card driver promises its callers.  sdmmc_init succeeds only with *)
(* a card, which is then ready until it leaves the slot or sdmmc_init is   *)
(* called again; sdmmc_blk_read succeeds only on a ready card, and then it *)
(* has delivered the blocks asked for, all of that card.                   *)
(***************************************************************************)
EXTENDS Integers, Sequences

CONSTANTS
    Cards,
    NoCard,
    Size        \* of every card, in blocks

VARIABLES
    slot,       \* the card in the slot
    ready,      \* the card found in it, if it has not moved since
    op,         \* the call in progress
    result      \* of the last call

vars == <<slot, ready, op, result>>

NoOp == [kind |-> "none", start |-> 0, cnt |-> 0]
InitOp == [kind |-> "init", start |-> 0, cnt |-> 0]
ReadOp(n, cnt) == [kind |-> "read", start |-> n, cnt |-> cnt]
ReadOps == {ReadOp(r[1], r[2]) :
                r \in {s \in (0 .. Size - 1) \X (1 .. Size) : s[1] + s[2] <= Size}}

Blocks(c, n, cnt) == [i \in 1 .. cnt |-> <<c, n + i - 1>>]
Succeeded(data) == [ok |-> TRUE, data |-> data]
Failed == [ok |-> FALSE, data |-> <<>>]

Init ==
    /\ slot \in Cards \cup {NoCard}
    /\ ready = NoCard
    /\ op = NoOp
    /\ result = Succeeded(<<>>)

Insert(c) ==
    /\ slot' = c
    /\ ready' = NoCard
    /\ UNCHANGED <<op, result>>

CallInit ==
    /\ op = NoOp
    /\ op' = InitOp
    /\ ready' = NoCard
    /\ UNCHANGED <<slot, result>>

CallRead ==
    /\ op = NoOp
    /\ op' \in ReadOps
    /\ UNCHANGED <<slot, ready, result>>

Fail ==
    /\ op # NoOp
    /\ op' = NoOp
    /\ result' = Failed
    /\ UNCHANGED <<slot, ready>>

Find ==
    /\ op = InitOp
    /\ slot # NoCard
    /\ ready' = slot
    /\ op' = NoOp
    /\ result' = Succeeded(<<>>)
    /\ UNCHANGED slot

Deliver ==
    /\ op \in ReadOps
    /\ ready # NoCard
    /\ result' = Succeeded(Blocks(ready, op.start, op.cnt))
    /\ op' = NoOp
    /\ UNCHANGED <<slot, ready>>

Next ==
    \/ \E c \in Cards \cup {NoCard} : Insert(c)
    \/ CallInit \/ CallRead \/ Fail \/ Find \/ Deliver

Spec == Init /\ [][Next]_vars
=============================================================================
