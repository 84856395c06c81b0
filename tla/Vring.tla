-------------------------------- MODULE Vring --------------------------------
(***************************************************************************)
(* One virtio vring in the memory shared by the Linux host (the driver)    *)
(* and a firmware (the device): c906/src/main.c and, with the same code,   *)
(* FreeRTOS-HIFI4-DSP/src/msgbox.c.                                        *)
(*                                                                         *)
(* The two sides run concurrently without a lock.  The driver publishes    *)
(* descriptors through avail.ring and avail.idx, the device gives them     *)
(* back through used.ring and used.idx.  Each index is a 16 bit counter    *)
(* that wraps (IdxMod values); a ring slot is the counter modulo Num.  One *)
(* step below is one access to shared memory.                              *)
(*                                                                         *)
(* The driver is not under src/: AddAvail, PublishAvail and GetUsed are    *)
(* the half of the protocol the firmware relies on.                        *)
(***************************************************************************)
EXTENDS Integers, Sequences, FiniteSets

CONSTANTS
    Num,        \* VRING_NUM, the number of descriptors and of ring slots
    IdxMod      \* the number of values of a ring index: 2^16 in the code

\* A power of two size, so a multiple of Num; the window arithmetic needs
\* that a full ring and an empty one have different indices.
ASSUME VringAssumption ==
    /\ Num \in Nat \ {0}
    /\ IdxMod \in Nat
    /\ 2 * Num <= IdxMod
    /\ IdxMod % Num = 0

VARIABLES
    availIdx,   \* avail->idx, written by the driver
    availRing,  \* avail->ring, written by the driver
    usedIdx,    \* used->idx, written by the device
    usedRing,   \* used->ring[].id, written by the device
    lastAvail,  \* vr_ctrl.last_avail, the device's own progress
    devPc,      \* where the device is between taking and returning a buffer
    devDesc,    \* desc_idx, the descriptor the device took last
    lastUsed,   \* the driver's own progress in the used ring
    drvPc,      \* "wrote" between the driver's slot write and its idx write
    free,       \* descriptors the driver owns
    lost        \* history: descriptors taken and never returned

vars == <<availIdx, availRing, usedIdx, usedRing, lastAvail, devPc, devDesc,
          lastUsed, drvPc, free, lost>>

driverVars == <<availIdx, availRing, lastUsed, drvPc, free>>
deviceVars == <<usedIdx, usedRing, lastAvail, devPc, devDesc, lost>>

Desc == 0 .. Num - 1
Idx  == 0 .. IdxMod - 1

-----------------------------------------------------------------------------
(* Index arithmetic                                                        *)

\* Mutant of Inc: a counter wider than 16 bits
IncNoWrap(x) == x + 1

\* uint16_t increment
Inc(x) == (x + 1) % IdxMod

\* Number of steps from index a forward to index b, across the wrap.
Dist(a, b) == IF b >= a THEN b - a ELSE b - a + IdxMod

\* The ring slot of an index
Slot(x) == x % Num

\* The indices from a up to, not including, b.
Window(a, b) == {x \in Idx : Dist(a, x) < Dist(a, b)}

AvailWindow == Window(lastAvail, availIdx)   \* published, not yet taken
UsedWindow  == Window(lastUsed, usedIdx)     \* returned, not yet reclaimed

\* What the driver published and the device has not taken, and what the
\* device returned and the driver has not reclaimed.
Pending  == {availRing[Slot(x)] : x \in AvailWindow}
Returned == {usedRing[Slot(x)] : x \in UsedWindow}

\* The descriptor the device holds, and the one the driver is publishing.
Held    == IF devPc \in {"held", "written"} THEN {devDesc} ELSE {}
Written == IF drvPc = "wrote" THEN {availRing[Slot(availIdx)]} ELSE {}

-----------------------------------------------------------------------------
(* vring_setup on the zeroed memory remoteproc hands out                   *)
Init ==
    /\ availIdx = 0
    /\ availRing = [s \in Desc |-> 0]
    /\ usedIdx = 0
    /\ usedRing = [s \in Desc |-> 0]
    /\ lastAvail = 0
    /\ devPc = "idle"
    /\ devDesc = 0
    /\ lastUsed = 0
    /\ drvPc = "idle"
    /\ free = Desc
    /\ lost = {}

-----------------------------------------------------------------------------
(* The driver                                                              *)

\* It puts a descriptor it owns in the next slot of the avail ring ...
AddAvail(d) ==
    /\ drvPc = "idle"
    /\ d \in free
    /\ availRing' = [availRing EXCEPT ![Slot(availIdx)] = d]
    /\ free' = free \ {d}
    /\ drvPc' = "wrote"
    /\ UNCHANGED <<availIdx, lastUsed>>
    /\ UNCHANGED deviceVars

\* ... and publishes it by moving avail->idx.
PublishAvail ==
    /\ drvPc = "wrote"
    /\ availIdx' = Inc(availIdx)
    /\ drvPc' = "idle"
    /\ UNCHANGED <<availRing, lastUsed, free>>
    /\ UNCHANGED deviceVars

\* It takes a returned descriptor back.
GetUsed ==
    /\ lastUsed # usedIdx
    /\ free' = free \cup {usedRing[Slot(lastUsed)]}
    /\ lastUsed' = Inc(lastUsed)
    /\ UNCHANGED <<availIdx, availRing, drvPc>>
    /\ UNCHANGED deviceVars

-----------------------------------------------------------------------------
(* The device                                                              *)

\* Mutant of SeeAvail: the comparison with avail->idx is missing.
SeeAvailUnchecked ==
    /\ devPc = "idle"
    /\ devPc' = "seen"
    /\ UNCHANGED <<usedIdx, usedRing, lastAvail, devDesc, lost>>
    /\ UNCHANGED driverVars

\* vring_get_avail reads avail->idx, and finds there is a new buffer ...
SeeAvail ==
    /\ devPc = "idle"
    /\ lastAvail # availIdx
    /\ devPc' = "seen"
    /\ UNCHANGED <<usedIdx, usedRing, lastAvail, devDesc, lost>>
    /\ UNCHANGED driverVars

\* Mutant of TakeAvail: last_avail is not advanced.
TakeAvailStuck ==
    /\ devPc = "seen"
    /\ devDesc' = availRing[Slot(lastAvail)]
    /\ devPc' = "held"
    /\ UNCHANGED <<usedIdx, usedRing, lastAvail, lost>>
    /\ UNCHANGED driverVars

\* Mutant of TakeAvail: reads the slot filled last, not the oldest.
TakeAvailNewest ==
    /\ devPc = "seen"
    /\ devDesc' = availRing[Slot(availIdx + IdxMod - 1)]
    /\ lastAvail' = Inc(lastAvail)
    /\ devPc' = "held"
    /\ UNCHANGED <<usedIdx, usedRing, lost>>
    /\ UNCHANGED driverVars

\* ... then reads its slot and counts it as consumed.
TakeAvail ==
    /\ devPc = "seen"
    /\ devDesc' = availRing[Slot(lastAvail)]
    /\ lastAvail' = Inc(lastAvail)
    /\ devPc' = "held"
    /\ UNCHANGED <<usedIdx, usedRing, lost>>
    /\ UNCHANGED driverVars

\* Mutant of WriteUsed: fills the slot after the one that is published.
WriteUsedOffByOne ==
    /\ devPc = "held"
    /\ usedRing' = [usedRing EXCEPT ![Slot(usedIdx + 1)] = devDesc]
    /\ devPc' = "written"
    /\ UNCHANGED <<usedIdx, lastAvail, devDesc, lost>>
    /\ UNCHANGED driverVars

\* vring_add_used fills the next slot of the used ring ...
WriteUsed ==
    /\ devPc = "held"
    /\ usedRing' = [usedRing EXCEPT ![Slot(usedIdx)] = devDesc]
    /\ devPc' = "written"
    /\ UNCHANGED <<usedIdx, lastAvail, devDesc, lost>>
    /\ UNCHANGED driverVars

\* ... and, after the barrier, moves used->idx.
PublishUsed ==
    /\ devPc = "written"
    /\ usedIdx' = Inc(usedIdx)
    /\ devPc' = "idle"
    /\ UNCHANGED <<usedRing, lastAvail, devDesc, lost>>
    /\ UNCHANGED driverVars

\* process_host_messages leaves its loop on a buffer outside the shared
\* memory, which it has already taken: it is never returned.
Abandon ==
    /\ devPc = "held"
    /\ devPc' = "idle"
    /\ lost' = lost \cup {devDesc}
    /\ UNCHANGED <<usedIdx, usedRing, lastAvail, devDesc>>
    /\ UNCHANGED driverVars

Driver == (\E d \in Desc : AddAvail(d)) \/ PublishAvail \/ GetUsed
Device == SeeAvail \/ TakeAvail \/ WriteUsed \/ PublishUsed \/ Abandon

Next == Driver \/ Device

Spec == Init /\ [][Next]_vars

-----------------------------------------------------------------------------
(* Properties                                                              *)

\* Every variable has its type.
TypeOK ==
    /\ availIdx \in Idx
    /\ availRing \in [Desc -> Desc]
    /\ usedIdx \in Idx
    /\ usedRing \in [Desc -> Desc]
    /\ lastAvail \in Idx
    /\ devPc \in {"idle", "seen", "held", "written"}
    /\ devDesc \in Desc
    /\ lastUsed \in Idx
    /\ drvPc \in {"idle", "wrote"}
    /\ free \subseteq Desc
    /\ lost \subseteq Desc

\* No buffer is lost to the arithmetic of the four indices: the descriptors
\* the driver owns, those published, held, returned and abandoned always
\* add up to Num, whatever wrapped and whoever is in the middle of what.
Conservation ==
    Cardinality(free) + Cardinality(Written) + Dist(lastAvail, availIdx)
        + Cardinality(Held) + Cardinality(lost) + Dist(lastUsed, usedIdx)
      = Num

\* No two places name the same descriptor: a buffer is never written by one
\* processor while the other one owns it, and never handed over twice.
PendingUnique ==
    \A x, y \in AvailWindow :
        availRing[Slot(x)] = availRing[Slot(y)] => x = y

ReturnedUnique ==
    \A x, y \in UsedWindow :
        usedRing[Slot(x)] = usedRing[Slot(y)] => x = y

Disjoint ==
    /\ free \cap (Written \cup Pending \cup Held \cup lost \cup Returned) = {}
    /\ Written \cap (Pending \cup Held \cup lost \cup Returned) = {}
    /\ Pending \cap (Held \cup lost \cup Returned) = {}
    /\ Held \cap (lost \cup Returned) = {}
    /\ lost \cap Returned = {}

SingleOwner == PendingUnique /\ ReturnedUnique /\ Disjoint

\* The slot vring_get_avail is about to read was published.
SeenPublished == devPc = "seen" => lastAvail # availIdx

\* used.ring is filled before used.idx moves (the barrier of main.c:307).
SlotFilled == devPc = "written" => usedRing[Slot(usedIdx)] = devDesc

\* The inductive strengthening of Conservation and SingleOwner: each needs
\* the other (a descriptor counts as moved only if it was in one place, and
\* windows stay within Num slots only if the counts add up).
IInv ==
    TypeOK /\ SeenPublished /\ SlotFilled /\ Conservation /\ SingleOwner

\* A slot is filled only when its former content is out of the way: the
\* driver never overwrites a descriptor the device has yet to take, the
\* device never one the driver has yet to reclaim.
NoOverrun ==
    [][ /\ \A s \in Desc : availRing'[s] # availRing[s] =>
              s \notin {Slot(x) : x \in AvailWindow}
        /\ \A s \in Desc : usedRing'[s] # usedRing[s] =>
              s \notin {Slot(x) : x \in UsedWindow} ]_vars

\* The window of indices as a sequence, oldest first.
Contents(ring, from, to) ==
    [i \in 1 .. Dist(from, to) |-> ring[Slot((from + i - 1) % IdxMod)]]

Pool == INSTANCE BufferQueue WITH
    Buffer    <- Desc,
    free      <- free \cup Written,
    offered   <- Contents(availRing, lastAvail, availIdx),
    busy      <- Held,
    completed <- Contents(usedRing, lastUsed, usedIdx),
    gone      <- lost

\* The vring implements the pool of buffers: first in, first out in both
\* directions, through every wrap of the indices.
ImplementsPool == Pool!Spec
=============================================================================
