------------------------------- MODULE Msgbox -------------------------------
(***************************************************************************)
(* One direction of the Sunxi MSGBOX, host to firmware, with the polling   *)
(* receiver of c906/src/main.c (FreeRTOS-HIFI4-DSP/src/msgbox.c has the    *)
(* same code).                                                             *)
(*                                                                         *)
(* A component of the service, which decides when to kick and to poll.     *)
(*                                                                         *)
(* The hardware is a FIFO of words and a pending bit that a write to the   *)
(* FIFO sets and the receiver clears by writing one to it.  Two facts of   *)
(* the hardware are left open, as the sources leave them open: whether the *)
(* bit can be cleared while words remain in the FIFO, and what a read of   *)
(* an empty FIFO returns.                                                  *)
(***************************************************************************)
EXTENDS Integers, Sequences

CONSTANTS
    FifoDepth,  \* words the FIFO holds: 8 in the code
    VqId        \* the values of a kick: notifyid 0 and 1 of the two vrings

VARIABLES
    fifo,       \* words sent and not read
    pending,    \* READ_IRQ_STATUS, bit of the channel
    pollPc,     \* where msgbox_poll is
    vqid,       \* the word it read
    owed        \* history: a kick arrived since msgbox_poll last returned 1

vars == <<fifo, pending, pollPc, vqid, owed>>

Init ==
    /\ fifo = <<>>
    /\ pending = FALSE
    /\ pollPc = "idle"
    /\ vqid \in VqId
    /\ owed = FALSE

\* The host writes a word.  Its mailbox driver holds the word back while the
\* FIFO is full.
Kick(v) ==
    /\ Len(fifo) < FifoDepth
    /\ fifo' = Append(fifo, v)
    /\ pending' = TRUE
    /\ owed' = TRUE
    /\ UNCHANGED <<pollPc, vqid>>

\* msgbox_poll reads the pending bit ...
PollStatus ==
    /\ pollPc = "idle"
    /\ pollPc' = IF pending THEN "hit" ELSE "miss"
    /\ UNCHANGED <<fifo, pending, vqid, owed>>

\* Mutant of DiscardRead: it clears the pending bit as well.
DiscardAndClear ==
    /\ pollPc = "miss"
    /\ fifo' = IF fifo = <<>> THEN fifo ELSE Tail(fifo)
    /\ pending' = FALSE
    /\ pollPc' = "idle"
    /\ UNCHANGED <<vqid, owed>>

\* ... if it was clear, reads the FIFO all the same, which drops a word if
\* there is one, and returns 0;
DiscardRead ==
    /\ pollPc = "miss"
    /\ fifo' = IF fifo = <<>> THEN fifo ELSE Tail(fifo)
    /\ pollPc' = "idle"
    /\ UNCHANGED <<pending, vqid, owed>>

\* if it was set, reads the word ...
TakeRead ==
    /\ pollPc = "hit"
    /\ \/ /\ fifo # <<>>
          /\ vqid' = Head(fifo)
          /\ fifo' = Tail(fifo)
       \/ /\ fifo = <<>>
          /\ vqid' \in VqId
          /\ UNCHANGED fifo
    /\ pollPc' = "clear"
    /\ UNCHANGED <<pending, owed>>

\* ... clears the pending bit and returns 1.
ClearPending ==
    /\ pollPc = "clear"
    /\ pending' \in IF fifo = <<>> THEN {FALSE} ELSE BOOLEAN
    /\ owed' = FALSE
    /\ pollPc' = "idle"
    /\ UNCHANGED <<fifo, vqid>>

-----------------------------------------------------------------------------
(* Properties                                                              *)

\* Every variable has its type.
TypeOK ==
    /\ fifo \in Seq(VqId) /\ Len(fifo) <= FifoDepth
    /\ pending \in BOOLEAN
    /\ pollPc \in {"idle", "miss", "hit", "clear"}
    /\ vqid \in VqId
    /\ owed \in BOOLEAN

\* The read that discards a word never discards the notification: whatever
\* the order of the two register reads and of the host's kicks, msgbox_poll
\* returns 1 after every kick.
KickAnswered == owed ~> ~owed
=============================================================================
