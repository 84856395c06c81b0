----------------------------- MODULE BufferQueue -----------------------------
(***************************************************************************)
(* What one virtio vring promises to the two processors that share it: a   *)
(* pool of buffers, each owned by one side at a time.  The driver (Linux)  *)
(* offers buffers, the device (the firmware) accepts them in the order     *)
(* they were offered, and completes them; the driver reclaims them in the  *)
(* order they were completed.  The device may also abandon a buffer it     *)
(* accepted, which is then out of circulation for good.                    *)
(*                                                                         *)
(* There are no indices, no ring slots and no wrap-around here: Vring is   *)
(* the implementation that has them.                                       *)
(***************************************************************************)
EXTENDS Sequences

CONSTANT Buffer         \* the buffers (descriptor numbers) of the ring

VARIABLES
    free,               \* buffers the driver owns
    offered,            \* buffers on their way to the device, oldest first
    busy,               \* the buffers the device is working on
    completed,          \* buffers on their way back, oldest first
    gone                \* buffers the device accepted and never gave back

vars == <<free, offered, busy, completed, gone>>

Init ==
    /\ free = Buffer
    /\ offered = <<>>
    /\ busy = {}
    /\ completed = <<>>
    /\ gone = {}

Offer(b) ==
    /\ b \in free
    /\ free' = free \ {b}
    /\ offered' = Append(offered, b)
    /\ UNCHANGED <<busy, completed, gone>>

\* The device works on one buffer at a time.
Accept ==
    /\ busy = {}
    /\ offered # <<>>
    /\ busy' = {Head(offered)}
    /\ offered' = Tail(offered)
    /\ UNCHANGED <<free, completed, gone>>

Complete(b) ==
    /\ b \in busy
    /\ busy' = busy \ {b}
    /\ completed' = Append(completed, b)
    /\ UNCHANGED <<free, offered, gone>>

Abandon(b) ==
    /\ b \in busy
    /\ busy' = busy \ {b}
    /\ gone' = gone \cup {b}
    /\ UNCHANGED <<free, offered, completed>>

Reclaim ==
    /\ completed # <<>>
    /\ free' = free \cup {Head(completed)}
    /\ completed' = Tail(completed)
    /\ UNCHANGED <<offered, busy, gone>>

Next ==
    \/ \E b \in Buffer : Offer(b) \/ Complete(b) \/ Abandon(b)
    \/ Accept
    \/ Reclaim

Spec == Init /\ [][Next]_vars
=============================================================================
