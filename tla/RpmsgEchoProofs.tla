--------------------------- MODULE RpmsgEchoProofs ---------------------------
(***************************************************************************)
(* Proofs about the RPMsg echo service, for every ring size, index width,  *)
(* FIFO depth and number of messages.                                      *)
(***************************************************************************)
EXTENDS RpmsgEcho, TLAPS

RxProofs == INSTANCE VringProofs WITH
    availIdx <- rxAvailIdx, availRing <- rxAvailRing, usedIdx <- rxUsedIdx,
    usedRing <- rxUsedRing, lastAvail <- rxLastAvail, devPc <- rxPc,
    devDesc <- rxDesc, lastUsed <- rxLastUsed, drvPc <- rxDrvPc,
    free <- rxFree, lost <- rxLost

TxProofs == INSTANCE VringProofs WITH
    availIdx <- txAvailIdx, availRing <- txAvailRing, usedIdx <- txUsedIdx,
    usedRing <- txUsedRing, lastAvail <- txLastAvail, devPc <- txPc,
    devDesc <- txDesc, lastUsed <- txLastUsed, drvPc <- txDrvPc,
    free <- txFree, lost <- txLost

-----------------------------------------------------------------------------
(* The two rings are rings                                                 *)

\* Before the firmware has synchronised nothing has been sent either way;
\* afterwards every round sees the host ready.
SyncInv ==
    /\ ready => status
    /\ synced => ready
    /\ ready /\ pc \notin {"status", "sync"} => synced
    /\ pc \in {"send", "kick", "kickWrite", "rx", "message", "return"} => synced
    /\ ~synced =>
         /\ rxLastAvail = rxAvailIdx
         /\ txLastUsed = txUsedIdx
         /\ txPc = "idle"
         /\ received = <<>>
         /\ sendPc = "idle"

LEMMA SyncInductive == Spec => []SyncInv
<1>1. Init => SyncInv
  BY DEF Init, Rx!Init, Tx!Init, SyncInv
<1>2. SyncInv /\ [Next]_vars => SyncInv'
  <2> SUFFICES ASSUME SyncInv, [Next]_vars
               PROVE  SyncInv'
    OBVIOUS
  <2> USE DEF SyncInv, rxVars, txVars, boxVars, fwVars, hostVars
  <2>1. CASE ReadStatus
    BY <2>1 DEF ReadStatus
  <2>2. CASE SyncVrings
    BY <2>2 DEF SyncVrings
  <2>3. CASE SendNS
    BY <2>3 DEF SendNS, Tx!SeeAvail, Tx!driverVars
  <2>4. CASE SkipNS
    BY <2>4 DEF SkipNS
  <2>5. CASE SendTake
    BY <2>5 DEF SendTake, Tx!TakeAvail, Tx!driverVars
  <2>6. CASE SendFill
    BY <2>6 DEF SendFill, Tx!WriteUsed, Tx!driverVars
  <2>7. CASE SendPublish
    BY <2>7 DEF SendPublish, Tx!PublishUsed, Tx!driverVars
  <2>8. CASE KickStatus \/ KickWrite
    BY <2>8 DEF KickStatus, KickWrite, AfterKick
  <2>9. CASE PollStatus \/ PollMiss \/ PollTake \/ PollHit
    BY <2>9 DEF PollStatus, PollMiss, PollTake, PollHit
  <2>10. CASE RxSee
    BY <2>10 DEF RxSee, Rx!SeeAvail, Rx!driverVars
  <2>11. CASE RxTake
    BY <2>11 DEF RxTake, Rx!TakeAvail, Rx!driverVars
  <2>12. CASE RxEmpty \/ RxNoEcho
    BY <2>12 DEF RxEmpty, RxNoEcho
  <2>13. CASE RxInvalid
    BY <2>13 DEF RxInvalid, Rx!Abandon, Rx!driverVars
  <2>14. CASE RxEcho
    BY <2>14 DEF RxEcho, Tx!SeeAvail, Tx!driverVars
  <2>15. CASE RxReturn
    BY <2>15 DEF RxReturn, Rx!WriteUsed, Rx!driverVars
  <2>16. CASE RxPublish
    BY <2>16 DEF RxPublish, Rx!PublishUsed, Rx!driverVars
  <2>17. CASE ProbePost
    BY <2>17 DEF ProbePost, Tx!AddAvail, Tx!PublishAvail, Tx!deviceVars
  <2>18. CASE ProbeDone \/ RecvKick \/ Interrupt \/ More \/ DrainDone
    BY <2>18 DEF ProbeDone, RecvKick, Interrupt, More, DrainDone
  <2>19. CASE Receive
    BY <2>19 DEF Receive, Tx!GetUsed, Tx!deviceVars
  <2>20. CASE Repost
    BY <2>20 DEF Repost, Tx!AddAvail, Tx!PublishAvail, Tx!deviceVars
  <2>21. CASE SendMessage
    BY <2>21 DEF SendMessage, Announced, Rx!AddAvail, Rx!deviceVars
  <2>22. CASE PublishMessage
    BY <2>22 DEF PublishMessage
  <2>23. CASE SendKick
    BY <2>23 DEF SendKick
  <2>24. CASE Reclaim
    BY <2>24 DEF Reclaim, Rx!GetUsed, Rx!deviceVars
  <2>25. CASE UNCHANGED vars
    BY <2>25 DEF vars
  <2>26. QED
    BY <2>1, <2>2, <2>3, <2>4, <2>5, <2>6, <2>7, <2>8, <2>9, <2>10, <2>11,
       <2>12, <2>13, <2>14, <2>15, <2>16, <2>17, <2>18, <2>19, <2>20, <2>21,
       <2>22, <2>23, <2>24, <2>25
       DEF Next, Firmware, HostRecv, HostSend
<1>3. QED
  BY <1>1, <1>2, PTL DEF Spec

\* Every step of the service is a step of vr_rx or leaves vr_rx alone; the
\* jump to avail->idx (main.c:486) is one that leaves it alone.
THEOREM RxIsVringCorrect == Spec => RxIsVring
<1>1. Init => Rx!Init
  BY DEF Init
<1>2. SyncInv /\ [Next]_vars => [Rx!Next]_(Rx!vars)
  <2> SUFFICES ASSUME SyncInv, [Next]_vars
               PROVE  Rx!Next \/ UNCHANGED Rx!vars
    OBVIOUS
  <2> USE DEF Rx!Next, Rx!Driver, Rx!Device
  <2>1. CASE SyncVrings
    <3>1. rxLastAvail' = rxLastAvail
      BY <2>1 DEF SyncVrings, SyncInv
    <3>2. QED
      BY <2>1, <3>1 DEF SyncVrings, Rx!vars
  <2>2. CASE \/ RxSee \/ RxTake \/ RxInvalid \/ RxReturn \/ RxPublish
             \/ PublishMessage \/ Reclaim
    BY <2>2 DEF RxSee, RxTake, RxInvalid, RxReturn, RxPublish,
                PublishMessage, Reclaim
  <2>3. CASE SendMessage
    BY <2>3 DEF SendMessage, Desc, Rx!Desc
  <2>4. CASE \/ ReadStatus \/ SendNS \/ SkipNS \/ SendTake \/ SendFill
             \/ SendPublish \/ KickStatus \/ KickWrite
             \/ PollStatus \/ PollMiss \/ PollTake \/ PollHit
             \/ RxEmpty \/ RxEcho \/ RxNoEcho
    <3>1. UNCHANGED rxVars
      BY <2>4 DEF ReadStatus, SendNS, SkipNS, SendTake, SendFill,
                  SendPublish, KickStatus, KickWrite, PollStatus, PollMiss,
                  PollTake, PollHit, RxEmpty, RxEcho, RxNoEcho
    <3>2. QED
      BY <3>1 DEF rxVars, Rx!vars
  <2>5. CASE HostRecv \/ SendKick \/ UNCHANGED vars
    <3>1. UNCHANGED rxVars
      BY <2>5 DEF HostRecv, ProbePost, ProbeDone, RecvKick, Interrupt,
                  Receive, Repost, More, DrainDone, SendKick, vars
    <3>2. QED
      BY <3>1 DEF rxVars, Rx!vars
  <2>6. QED
    BY <2>1, <2>2, <2>3, <2>4, <2>5 DEF Next, Firmware, HostSend
<1>3. QED
  BY <1>1, <1>2, SyncInductive, PTL DEF Spec, RxIsVring, Rx!Spec

\* Every step of the service is a step of vr_tx or leaves vr_tx alone: the
\* announcement and the echoes go through the same few steps.
THEOREM TxIsVringCorrect == Spec => TxIsVring
<1>1. Init => Tx!Init
  BY DEF Init
<1>2. [Next]_vars => [Tx!Next]_(Tx!vars)
  <2> SUFFICES ASSUME [Next]_vars
               PROVE  Tx!Next \/ UNCHANGED Tx!vars
    OBVIOUS
  <2> USE DEF Tx!Next, Tx!Driver, Tx!Device
  <2>1. CASE \/ SendNS \/ SendTake \/ SendFill \/ SendPublish \/ RxEcho
             \/ Receive
    BY <2>1 DEF SendNS, SendTake, SendFill, SendPublish, RxEcho, Receive
  <2>2. CASE ProbePost \/ Repost
    BY <2>2 DEF ProbePost, Repost, Desc, Tx!Desc
  <2>3. CASE \/ ReadStatus \/ SyncVrings \/ SkipNS \/ KickStatus
             \/ KickWrite \/ PollStatus \/ PollMiss \/ PollTake \/ PollHit
             \/ RxSee \/ RxTake \/ RxEmpty \/ RxInvalid \/ RxNoEcho
             \/ RxReturn \/ RxPublish
    <3>1. UNCHANGED txVars
      BY <2>3 DEF ReadStatus, SyncVrings, SkipNS, KickStatus, KickWrite,
                  PollStatus, PollMiss, PollTake, PollHit, RxSee, RxTake,
                  RxEmpty, RxInvalid, RxNoEcho, RxReturn, RxPublish
    <3>2. QED
      BY <3>1 DEF txVars, Tx!vars
  <2>4. CASE \/ ProbeDone \/ RecvKick \/ Interrupt \/ More \/ DrainDone
             \/ HostSend \/ UNCHANGED vars
    <3>1. UNCHANGED txVars
      BY <2>4 DEF ProbeDone, RecvKick, Interrupt, More, DrainDone, HostSend,
                  SendMessage, PublishMessage, SendKick, Reclaim, vars
    <3>2. QED
      BY <3>1 DEF txVars, Tx!vars
  <2>5. QED
    BY <2>1, <2>2, <2>3, <2>4 DEF Next, Firmware, HostRecv
<1>3. QED
  BY <1>1, <1>2, PTL DEF Spec, TxIsVring, Tx!Spec

\* Rx and RxProofs are the same ring under two names.
LEMMA RxNames ==
    /\ Rx!Init <=> RxProofs!Init
    /\ [Rx!Next]_(Rx!vars) <=> [RxProofs!Next]_(RxProofs!vars)
    /\ Rx!Conservation <=> RxProofs!Conservation
    /\ Rx!SingleOwner <=> RxProofs!SingleOwner
    /\ Rx!TypeOK <=> RxProofs!TypeOK
    /\ RxProofs!VringAssumption
<1>1. Rx!Init <=> RxProofs!Init
  BY DEF Rx!Init, RxProofs!Init, Rx!Desc, RxProofs!Desc
<1>2. [Rx!Next]_(Rx!vars) <=> [RxProofs!Next]_(RxProofs!vars)
  BY DEF Rx!Next, RxProofs!Next, Rx!Driver, RxProofs!Driver, Rx!Device,
         RxProofs!Device, Rx!AddAvail, RxProofs!AddAvail, Rx!PublishAvail,
         RxProofs!PublishAvail, Rx!GetUsed, RxProofs!GetUsed, Rx!SeeAvail,
         RxProofs!SeeAvail, Rx!TakeAvail, RxProofs!TakeAvail, Rx!WriteUsed,
         RxProofs!WriteUsed, Rx!PublishUsed, RxProofs!PublishUsed,
         Rx!Abandon, RxProofs!Abandon, Rx!vars, RxProofs!vars,
         Rx!driverVars, RxProofs!driverVars, Rx!deviceVars,
         RxProofs!deviceVars, Rx!Desc, RxProofs!Desc, Rx!Idx, RxProofs!Idx,
         Rx!Inc, RxProofs!Inc, Rx!Slot, RxProofs!Slot
<1>3. /\ Rx!Conservation <=> RxProofs!Conservation
      /\ Rx!SingleOwner <=> RxProofs!SingleOwner
  BY DEF Rx!Cardinality, RxProofs!Cardinality, Rx!IsFiniteSet,
         RxProofs!IsFiniteSet, Rx!Conservation, RxProofs!Conservation, Rx!SingleOwner,
         RxProofs!SingleOwner, Rx!PendingUnique, RxProofs!PendingUnique,
         Rx!ReturnedUnique, RxProofs!ReturnedUnique, Rx!Disjoint,
         RxProofs!Disjoint, Rx!Pending, RxProofs!Pending, Rx!Returned,
         RxProofs!Returned, Rx!Held, RxProofs!Held, Rx!Written,
         RxProofs!Written, Rx!AvailWindow, RxProofs!AvailWindow,
         Rx!UsedWindow, RxProofs!UsedWindow, Rx!Window, RxProofs!Window,
         Rx!Dist, RxProofs!Dist, Rx!Slot, RxProofs!Slot, Rx!Idx,
         RxProofs!Idx
<1>4. Rx!TypeOK <=> RxProofs!TypeOK
  BY DEF Rx!TypeOK, RxProofs!TypeOK, Rx!Desc, RxProofs!Desc,
         Rx!Idx, RxProofs!Idx
<1>5. RxProofs!VringAssumption
  BY RpmsgAssumption DEF RxProofs!VringAssumption
<1>6. QED
  BY <1>1, <1>2, <1>3, <1>4, <1>5

\* Tx and TxProofs are the same ring under two names.
LEMMA TxNames ==
    /\ Tx!Init <=> TxProofs!Init
    /\ [Tx!Next]_(Tx!vars) <=> [TxProofs!Next]_(TxProofs!vars)
    /\ Tx!Conservation <=> TxProofs!Conservation
    /\ Tx!SingleOwner <=> TxProofs!SingleOwner
    /\ Tx!TypeOK <=> TxProofs!TypeOK
    /\ TxProofs!VringAssumption
<1>1. Tx!Init <=> TxProofs!Init
  BY DEF Tx!Init, TxProofs!Init, Tx!Desc, TxProofs!Desc
<1>2. [Tx!Next]_(Tx!vars) <=> [TxProofs!Next]_(TxProofs!vars)
  BY DEF Tx!Next, TxProofs!Next, Tx!Driver, TxProofs!Driver, Tx!Device,
         TxProofs!Device, Tx!AddAvail, TxProofs!AddAvail, Tx!PublishAvail,
         TxProofs!PublishAvail, Tx!GetUsed, TxProofs!GetUsed, Tx!SeeAvail,
         TxProofs!SeeAvail, Tx!TakeAvail, TxProofs!TakeAvail, Tx!WriteUsed,
         TxProofs!WriteUsed, Tx!PublishUsed, TxProofs!PublishUsed,
         Tx!Abandon, TxProofs!Abandon, Tx!vars, TxProofs!vars,
         Tx!driverVars, TxProofs!driverVars, Tx!deviceVars,
         TxProofs!deviceVars, Tx!Desc, TxProofs!Desc, Tx!Idx, TxProofs!Idx,
         Tx!Inc, TxProofs!Inc, Tx!Slot, TxProofs!Slot
<1>3. /\ Tx!Conservation <=> TxProofs!Conservation
      /\ Tx!SingleOwner <=> TxProofs!SingleOwner
  BY DEF Tx!Cardinality, TxProofs!Cardinality, Tx!IsFiniteSet,
         TxProofs!IsFiniteSet, Tx!Conservation, TxProofs!Conservation, Tx!SingleOwner,
         TxProofs!SingleOwner, Tx!PendingUnique, TxProofs!PendingUnique,
         Tx!ReturnedUnique, TxProofs!ReturnedUnique, Tx!Disjoint,
         TxProofs!Disjoint, Tx!Pending, TxProofs!Pending, Tx!Returned,
         TxProofs!Returned, Tx!Held, TxProofs!Held, Tx!Written,
         TxProofs!Written, Tx!AvailWindow, TxProofs!AvailWindow,
         Tx!UsedWindow, TxProofs!UsedWindow, Tx!Window, TxProofs!Window,
         Tx!Dist, TxProofs!Dist, Tx!Slot, TxProofs!Slot, Tx!Idx,
         TxProofs!Idx
<1>4. Tx!TypeOK <=> TxProofs!TypeOK
  BY DEF Tx!TypeOK, TxProofs!TypeOK, Tx!Desc, TxProofs!Desc,
         Tx!Idx, TxProofs!Idx
<1>5. TxProofs!VringAssumption
  BY RpmsgAssumption DEF TxProofs!VringAssumption
<1>6. QED
  BY <1>1, <1>2, <1>3, <1>4, <1>5

\* So no descriptor of either ring is lost or in two hands, whatever the
\* interleaving of the firmware and the host's threads.
RingsConserved == Rx!Conservation /\ Tx!Conservation
RingsExclusive == Rx!SingleOwner /\ Tx!SingleOwner

THEOREM RingsSafe == Spec => [](RingsConserved /\ RingsExclusive)
<1>1. RxProofs!Spec => []RxProofs!Conservation /\ []RxProofs!SingleOwner
  BY RxNames, RxProofs!BuffersConserved, RxProofs!OwnersExclusive, PTL
<1>2. TxProofs!Spec => []TxProofs!Conservation /\ []TxProofs!SingleOwner
  BY TxNames, TxProofs!BuffersConserved, TxProofs!OwnersExclusive, PTL
<1>3. QED
  BY <1>1, <1>2, RxNames, TxNames, RxIsVringCorrect, TxIsVringCorrect, PTL
     DEF RxIsVring, TxIsVring, RingsConserved, RingsExclusive,
         Rx!Spec, RxProofs!Spec, Tx!Spec, TxProofs!Spec

-----------------------------------------------------------------------------
(* Types                                                                   *)

LEMMA RingTypes == Spec => [](Rx!TypeOK /\ Tx!TypeOK)
<1>1. RxProofs!Spec => []RxProofs!TypeOK
  BY RxNames, RxProofs!TypeCorrect, PTL
<1>2. TxProofs!Spec => []TxProofs!TypeOK
  BY TxNames, TxProofs!TypeCorrect, PTL
<1>3. QED
  BY <1>1, <1>2, RxNames, TxNames, RxIsVringCorrect, TxIsVringCorrect, PTL
     DEF RxIsVring, TxIsVring, Rx!Spec, RxProofs!Spec, Tx!Spec, TxProofs!Spec

\* The mailbox channel keeps its types: the host waits for room in it.
LEMMA BoxType ==
    ASSUME Box!TypeOK, [Next]_vars
    PROVE  Box!TypeOK'
<1> USE RpmsgAssumption DEF Box!TypeOK
<1>1. CASE PollStatus
  BY <1>1 DEF PollStatus, Box!PollStatus
<1>2. CASE PollMiss
  BY <1>2 DEF PollMiss, Box!DiscardRead
<1>3. CASE PollTake
  <2>1. fifo # <<>> => /\ Head(fifo) \in VqId
                       /\ Tail(fifo) \in Seq(VqId)
                       /\ Len(Tail(fifo)) <= Len(fifo)
    OBVIOUS
  <2>2. QED
    BY <1>3, <2>1 DEF PollTake, Box!TakeRead
<1>4. CASE PollHit
  BY <1>4 DEF PollHit, Box!ClearPending
<1>5. ASSUME NEW v \in VqId, Box!Kick(v)
      PROVE  Box!TypeOK'
  <2>1. Append(fifo, v) \in Seq(VqId) /\ Len(Append(fifo, v)) = Len(fifo) + 1
    OBVIOUS
  <2>2. QED
    BY <1>5, <2>1 DEF Box!Kick
<1>6. CASE RecvKick \/ SendKick
  BY <1>5, <1>6 DEF RecvKick, SendKick, VqId
<1>7. CASE \/ ReadStatus \/ SyncVrings \/ SendNS \/ SkipNS \/ SendTake
           \/ SendFill \/ SendPublish \/ KickStatus \/ KickWrite
           \/ RxSee \/ RxTake \/ RxEmpty \/ RxInvalid \/ RxEcho \/ RxNoEcho
           \/ RxReturn \/ RxPublish
  BY <1>7 DEF ReadStatus, SyncVrings, SendNS, SkipNS, SendTake, SendFill,
     SendPublish, KickStatus, KickWrite, RxSee, RxTake, RxEmpty, RxInvalid,
     RxEcho, RxNoEcho, RxReturn, RxPublish, boxVars
<1>8. CASE \/ ProbePost \/ ProbeDone \/ Interrupt \/ Receive \/ Repost
           \/ More \/ DrainDone \/ SendMessage \/ PublishMessage \/ Reclaim
           \/ UNCHANGED vars
  BY <1>8 DEF ProbePost, ProbeDone, Interrupt, Receive, Repost, More,
     DrainDone, SendMessage, PublishMessage, Reclaim, vars, boxVars
<1>9. QED
  BY <1>1, <1>2, <1>3, <1>4, <1>6, <1>7, <1>8
     DEF Next, Firmware, HostRecv, HostSend

\* The service's own variables keep their types.
LEMMA ServiceType ==
    ASSUME TypeOK, [Next]_vars
    PROVE  ServiceTypeOK'
<1> USE RpmsgAssumption DEF TypeOK, ServiceTypeOK
<1>1. CASE \/ ReadStatus \/ SyncVrings \/ SendNS \/ SkipNS \/ SendTake
           \/ SendPublish \/ KickStatus
  <2>1. CASE ReadStatus
    BY <2>1 DEF ReadStatus, hostVars
  <2>2. CASE SyncVrings
    BY <2>2 DEF SyncVrings, hostVars
  <2>3. CASE SendNS \/ SkipNS \/ SendTake \/ SendPublish
    BY <2>3 DEF SendNS, SkipNS, SendTake, SendPublish, hostVars, fwVars
  <2>4. CASE KickStatus
    <3>1. pc' \in {"poll", "return", "rx", "kickWrite"}
      BY <2>4 DEF KickStatus, AfterKick
    <3>2. nsSent' \in BOOLEAN
      BY <2>4 DEF KickStatus
    <3>3. QED
      BY <2>4, <3>1, <3>2 DEF KickStatus, hostVars
  <2>5. QED
    BY <1>1, <2>1, <2>2, <2>3, <2>4
<1>2. CASE SendFill
  <2>1. txDesc \in Desc /\ rxDesc \in Desc
    BY DEF Rx!TypeOK, Tx!TypeOK, Rx!Desc, Tx!Desc, Desc
  <2>2. rxBuf[rxDesc].id \in 0 .. MaxMsgs /\ NS \in 0 .. MaxMsgs
    BY <2>1 DEF Message, NoMessage, NS
  <2>3. txBuf' \in [Desc -> 0 .. MaxMsgs]
    BY <1>2, <2>1, <2>2 DEF SendFill
  <2>4. QED
    BY <1>2, <2>3 DEF SendFill, hostVars, fwVars
<1>3. CASE KickWrite
  <2>1. KickVq \in VqId
    BY DEF KickVq, VqId, Box!TypeOK
  <2>2. toHost' \in Seq(VqId)
    BY <1>3, <2>1 DEF KickWrite
  <2>3. QED
    BY <1>3, <2>2 DEF KickWrite, AfterKick, hostVars
<1>4. CASE \/ PollStatus \/ PollMiss \/ PollTake \/ PollHit
           \/ RxSee \/ RxTake \/ RxEmpty \/ RxInvalid \/ RxEcho \/ RxNoEcho
           \/ RxReturn \/ RxPublish
  BY <1>4 DEF PollStatus, PollMiss, PollTake, PollHit, RxSee, RxTake,
     RxEmpty, RxInvalid, RxEcho, RxNoEcho, RxReturn, RxPublish, hostVars,
     fwVars
<1>5. CASE ProbePost \/ ProbeDone \/ RecvKick \/ More \/ DrainDone \/ Repost
  <2>1. CASE ProbeDone
    BY <2>1 DEF ProbeDone, fwVars
  <2>2. CASE DrainDone
    BY <2>2 DEF DrainDone, fwVars
  <2>3. CASE ProbePost
    BY <2>3 DEF ProbePost, hostVars, fwVars
  <2>4. CASE RecvKick \/ More
    BY <2>4 DEF RecvKick, More, fwVars
  <2>5. CASE Repost
    BY <2>5 DEF Repost, fwVars
  <2>6. QED
    BY <1>5, <2>1, <2>2, <2>3, <2>4, <2>5
<1>6. CASE Interrupt
  <2>1. toHost' \in Seq(VqId)
    BY <1>6 DEF Interrupt
  <2>2. QED
    BY <1>6, <2>1 DEF Interrupt, fwVars
<1>7. CASE Receive
  <2>1. txUsedRing[Tx!Slot(txLastUsed)] \in Desc
    <3>1. txLastUsed % Num \in 0 .. Num - 1
      BY DEF Tx!TypeOK, Tx!Idx
    <3>2. QED
      BY <3>1 DEF Tx!TypeOK, Tx!Slot, Tx!Desc, Desc
  <2>2. received' \in Seq(0 .. MaxMsgs)
    BY <1>7, <2>1 DEF Receive
  <2>3. QED
    BY <1>7, <2>2 DEF Receive, fwVars
<1>8. CASE SendMessage
  <2>1. PICK d \in Desc, k \in Kinds :
           rxBuf' = [rxBuf EXCEPT ![d] = [id |-> posted + 1, kind |-> k]]
    BY <1>8 DEF SendMessage
  <2>2. posted + 1 \in 1 .. MaxMsgs
    BY <1>8 DEF SendMessage
  <2>3. [id |-> posted + 1, kind |-> k] \in Message
    BY <2>2 DEF Message
  <2>4. rxBuf' \in [Desc -> Message \cup {NoMessage}]
    BY <2>1, <2>3
  <2>5. posted' \in 0 .. MaxMsgs
    BY <1>8, <2>2 DEF SendMessage
  <2>6. QED
    BY <1>8, <2>4, <2>5 DEF SendMessage, fwVars
<1>9. CASE PublishMessage \/ SendKick \/ Reclaim \/ UNCHANGED vars
  BY <1>9 DEF PublishMessage, SendKick, Reclaim, vars, hostVars, fwVars
<1>10. QED
  BY <1>1, <1>2, <1>3, <1>4, <1>5, <1>6, <1>7, <1>8, <1>9
     DEF Next, Firmware, HostRecv, HostSend

\* Every variable of the service keeps its type.
THEOREM TypeCorrect == Spec => []TypeOK
<1>1. Init => Box!TypeOK /\ ServiceTypeOK
  <2> SUFFICES ASSUME Init
               PROVE  Box!TypeOK /\ ServiceTypeOK
    OBVIOUS
  <2>1. Box!TypeOK
    <3>1. fifo \in Seq(VqId) /\ Len(fifo) <= FifoDepth
      <4>1. fifo = <<>>
        BY DEF Init, Box!Init
      <4>2. QED
        BY <4>1, RpmsgAssumption
    <3>2. pending \in BOOLEAN /\ owed \in BOOLEAN
      BY DEF Init, Box!Init
    <3>3. pollPc = "idle" /\ vqid \in VqId
      BY DEF Init, Box!Init
    <3>4. QED
      BY <3>1, <3>2, <3>3 DEF Box!TypeOK
  <2>2. toHost \in Seq(VqId) /\ received \in Seq(0 .. MaxMsgs)
    BY DEF Init
  <2>3. NS \in 0 .. MaxMsgs /\ posted \in 0 .. MaxMsgs
    BY RpmsgAssumption DEF Init, NS
  <2>4. /\ txBuf \in [Desc -> 0 .. MaxMsgs]
        /\ rxBuf \in [Desc -> Message \cup {NoMessage}]
    BY <2>3 DEF Init
  <2>5. QED
    BY <2>1, <2>2, <2>3, <2>4 DEF Init, ServiceTypeOK
<1>2. TypeOK /\ [Next]_vars => Box!TypeOK' /\ ServiceTypeOK'
  BY BoxType, ServiceType DEF TypeOK
<1>3. QED
  BY <1>1, <1>2, RingTypes, PTL DEF Spec, TypeOK

-----------------------------------------------------------------------------
(* Notifications                                                           *)

\* What the firmware knows between its two accesses to the kick FIFO
KickInv ==
    /\ Len(toHost) <= FifoDepth
    /\ pc = "kickWrite" => Len(toHost) < FifoDepth
    /\ pc = "send" => caller \in {"ns", "echo"}

LEMMA KickStep ==
    ASSUME TypeOK, KickInv, [Next]_vars
    PROVE  KickInv'
<1> USE RpmsgAssumption DEF KickInv, TypeOK, ServiceTypeOK
<1>1. CASE KickStatus
  BY <1>1 DEF KickStatus, AfterKick
<1>2. CASE KickWrite
  <2>1. KickVq \in VqId
    BY DEF KickVq, VqId, Box!TypeOK
  <2>2. Len(toHost') = Len(toHost) + 1
    BY <1>2, <2>1 DEF KickWrite
  <2>3. QED
    BY <1>2, <2>2 DEF KickWrite, AfterKick
<1>3. CASE Interrupt
  <2>1. Len(toHost') < Len(toHost)
    BY <1>3 DEF Interrupt
  <2>2. QED
    BY <1>3, <2>1 DEF Interrupt, fwVars
<1>4. CASE \/ ReadStatus \/ SyncVrings \/ SendNS \/ SkipNS \/ SendTake
           \/ SendFill \/ SendPublish
  BY <1>4 DEF ReadStatus, SyncVrings, SendNS, SkipNS, SendTake, SendFill,
     SendPublish, fwVars
<1>5. CASE \/ PollStatus \/ PollMiss \/ PollTake \/ PollHit
           \/ RxSee \/ RxTake \/ RxEmpty \/ RxInvalid \/ RxEcho \/ RxNoEcho
           \/ RxReturn \/ RxPublish
  BY <1>5 DEF PollStatus, PollMiss, PollTake, PollHit, RxSee, RxTake,
     RxEmpty, RxInvalid, RxEcho, RxNoEcho, RxReturn, RxPublish, fwVars
<1>6. CASE ProbePost \/ ProbeDone \/ RecvKick \/ More \/ DrainDone \/ Repost
           \/ Receive
  BY <1>6 DEF ProbePost, ProbeDone, RecvKick, More, DrainDone, Repost,
     Receive, fwVars
<1>7. CASE HostSend \/ UNCHANGED vars
  BY <1>7 DEF HostSend, SendMessage, PublishMessage, SendKick, Reclaim, vars,
     fwVars
<1>8. QED
  BY <1>1, <1>2, <1>3, <1>4, <1>5, <1>6, <1>7
     DEF Next, Firmware, HostRecv

LEMMA KickInductive == Spec => []KickInv
<1>1. Init => KickInv
  BY RpmsgAssumption DEF Init, KickInv
<1>2. TypeOK /\ KickInv /\ [Next]_vars => KickInv'
  BY KickStep
<1>3. QED
  BY <1>1, <1>2, TypeCorrect, PTL DEF Spec

\* The firmware never writes to a full FIFO.
THEOREM NoFifoOverflowCorrect == Spec => []NoFifoOverflow
<1>1. KickInv => NoFifoOverflow
  BY DEF KickInv, NoFifoOverflow
<1>2. QED
  BY <1>1, KickInductive, PTL

\* While a frame waits in vr_tx the host is looking or about to be told: a
\* kick is dropped only when others are queued.
LEMMA HostWillLookStep ==
    ASSUME TypeOK, KickInv, HostWillLook, [Next]_vars
    PROVE  HostWillLook'
<1> USE RpmsgAssumption DEF HostWillLook, AboutToKick, KickInv
<1>1. CASE KickStatus
  <2>1. toHost \in Seq(VqId)
    BY DEF TypeOK, ServiceTypeOK
  <2>2. toHost = <<>> => Len(toHost) = 0
    BY <2>1
  <2>3. QED
    BY <1>1, <2>2 DEF KickStatus, txVars, hostVars
<1>2. CASE KickWrite
  <2>1. toHost \in Seq(VqId) /\ KickVq \in VqId
    BY DEF TypeOK, ServiceTypeOK, Box!TypeOK, KickVq, VqId
  <2>2. Append(toHost, KickVq) # <<>>
    BY <2>1
  <2>3. QED
    BY <1>2, <2>2 DEF KickWrite
<1>3. CASE SendPublish
  BY <1>3 DEF SendPublish
<1>4. CASE \/ SendNS \/ SendTake \/ SendFill \/ RxEcho
  BY <1>4 DEF SendNS, SendTake, SendFill, RxEcho, Tx!SeeAvail, Tx!TakeAvail,
     Tx!WriteUsed, Tx!driverVars, hostVars, fwVars
<1>5. CASE \/ ReadStatus \/ SyncVrings \/ SkipNS \/ PollStatus \/ PollMiss
           \/ PollTake \/ PollHit \/ RxSee \/ RxTake \/ RxEmpty \/ RxInvalid
           \/ RxNoEcho \/ RxReturn \/ RxPublish
  BY <1>5 DEF ReadStatus, SyncVrings, SkipNS, PollStatus, PollMiss, PollTake,
     PollHit, RxSee, RxTake, RxEmpty, RxInvalid, RxNoEcho, RxReturn,
     RxPublish, txVars, hostVars, fwVars
<1>6. CASE ProbePost
  BY <1>6 DEF ProbePost, Tx!AddAvail, Tx!PublishAvail, Tx!deviceVars,
     hostVars, fwVars
<1>7. CASE ProbeDone \/ RecvKick \/ Interrupt \/ More \/ DrainDone
  BY <1>7 DEF ProbeDone, RecvKick, Interrupt, More, DrainDone, txVars, fwVars
<1>8. CASE Receive
  BY <1>8 DEF Receive
<1>9. CASE Repost
  BY <1>9 DEF Repost, Tx!AddAvail, Tx!PublishAvail, Tx!deviceVars
<1>10. CASE HostSend
  BY <1>10 DEF HostSend, SendMessage, PublishMessage, SendKick, Reclaim,
     txVars, fwVars, hostVars
<1>11. CASE UNCHANGED vars
  BY <1>11 DEF vars, txVars, fwVars, hostVars
<1>12. QED
  BY <1>1, <1>2, <1>3, <1>4, <1>5, <1>6, <1>7, <1>8, <1>9, <1>10, <1>11
     DEF Next, Firmware, HostRecv

THEOREM HostWillLookCorrect == Spec => []HostWillLook
<1>1. Init => HostWillLook
  BY DEF Init, Tx!Init, HostWillLook
<1>2. TypeOK /\ KickInv /\ HostWillLook /\ [Next]_vars => HostWillLook'
  BY HostWillLookStep
<1>3. QED
  BY <1>1, <1>2, TypeCorrect, KickInductive, PTL DEF Spec

\* While a message waits in vr_rx the firmware is about to look, unless the
\* host hands it a buffer outside the shared memory.
LEMMA FirmwareWillLookStep ==
    ASSUME "bad" \notin Kinds, TypeOK, SyncInv, KickInv, FirmwareWillLook,
           [Next]_vars
    PROVE  FirmwareWillLook'
<1> USE DEF FirmwareWillLook, Processing
<1>1. CASE ReadStatus \/ SyncVrings \/ SkipNS
  BY <1>1 DEF ReadStatus, SyncVrings, SkipNS, rxVars, boxVars, hostVars
<1>2. CASE SendNS
  BY <1>2 DEF SendNS, rxVars, boxVars, hostVars
<1>3. CASE SendTake \/ SendFill \/ SendPublish
  BY <1>3 DEF SendTake, SendFill, SendPublish, rxVars, boxVars, hostVars,
     fwVars
<1>4. CASE KickStatus \/ KickWrite
  BY <1>4 DEF KickStatus, KickWrite, AfterKick, TypeOK, ServiceTypeOK,
     rxVars, boxVars, hostVars
<1>5. CASE PollStatus \/ PollMiss \/ PollTake
  BY <1>5 DEF PollStatus, PollMiss, PollTake, Box!PollStatus,
     Box!DiscardRead, Box!TakeRead, rxVars, hostVars, fwVars
<1>6. CASE PollHit
  BY <1>6 DEF PollHit, SyncInv, rxVars, hostVars
<1>7. CASE RxSee
  BY <1>7 DEF RxSee, fwVars
<1>8. CASE RxTake \/ RxEcho \/ RxNoEcho
  BY <1>8 DEF RxTake, RxEcho, RxNoEcho
<1>9. CASE RxEmpty
  BY <1>9 DEF RxEmpty, rxVars
<1>10. CASE RxInvalid
  <2>1. rxDesc \in Desc
    BY DEF TypeOK, Rx!TypeOK, Rx!Desc, Desc
  <2>2. rxBuf[rxDesc].kind # "bad"
    BY <2>1 DEF TypeOK, ServiceTypeOK, Message, NoMessage
  <2>3. QED
    BY <1>10, <2>2 DEF RxInvalid
<1>11. CASE RxReturn \/ RxPublish
  BY <1>11 DEF RxReturn, RxPublish, fwVars
<1>12. CASE RecvKick \/ SendKick
  BY <1>12 DEF RecvKick, SendKick, Box!Kick
<1>13. CASE \/ ProbePost \/ ProbeDone \/ Interrupt \/ Receive \/ Repost
            \/ More \/ DrainDone
  BY <1>13 DEF ProbePost, ProbeDone, Interrupt, Receive, Repost, More,
     DrainDone, rxVars, boxVars, hostVars, fwVars
<1>14. CASE SendMessage
  BY <1>14 DEF SendMessage, Rx!AddAvail, Rx!deviceVars, boxVars, fwVars
<1>15. CASE PublishMessage
  BY <1>15 DEF PublishMessage
<1>16. CASE Reclaim
  BY <1>16 DEF Reclaim, Rx!GetUsed, Rx!deviceVars, boxVars, fwVars, hostVars
<1>17. CASE UNCHANGED vars
  BY <1>17 DEF vars, rxVars, boxVars, fwVars, hostVars
<1>18. QED
  BY <1>1, <1>2, <1>3, <1>4, <1>5, <1>6, <1>7, <1>8, <1>9, <1>10, <1>11,
     <1>12, <1>13, <1>14, <1>15, <1>16, <1>17
     DEF Next, Firmware, HostRecv, HostSend

THEOREM FirmwareWillLookCorrect ==
    ASSUME "bad" \notin Kinds
    PROVE  Spec => []FirmwareWillLook
<1>1. Init => FirmwareWillLook
  BY DEF Init, Rx!Init, FirmwareWillLook
<1>2. TypeOK /\ SyncInv /\ KickInv /\ FirmwareWillLook /\ [Next]_vars
        => FirmwareWillLook'
  BY FirmwareWillLookStep
<1>3. QED
  BY <1>1, <1>2, TypeCorrect, SyncInductive, KickInductive, PTL DEF Spec

-----------------------------------------------------------------------------
(* The order of messages.                                                  *)
(*                                                                         *)
(* A message moves from vr_rx over the firmware to vr_tx and to the host.  *)
(* What is shown invariant is that the numbers rise along that way.  The   *)
(* rings enter as sequences, which VringProofs has them to be, and their   *)
(* single owners as the reason why nobody writes to a buffer on the way.   *)

\* The descriptors of messages on their way in, and of frames on their way out
Inbox  == RxProofs!Offered
Outbox == TxProofs!Completed

-----------------------------------------------------------------------------
(* The rings                                                               *)

LEMMA RxSteps ==
    /\ \A d \in Desc : Rx!AddAvail(d) => RxProofs!AddAvail(d)
    /\ Rx!PublishAvail => RxProofs!PublishAvail
    /\ Rx!GetUsed => RxProofs!GetUsed
    /\ Rx!SeeAvail => RxProofs!SeeAvail
    /\ Rx!TakeAvail => RxProofs!TakeAvail
    /\ Rx!WriteUsed => RxProofs!WriteUsed
    /\ Rx!PublishUsed => RxProofs!PublishUsed
    /\ Rx!Abandon => RxProofs!Abandon
BY DEF Rx!AddAvail, RxProofs!AddAvail, Rx!PublishAvail, RxProofs!PublishAvail,
       Rx!GetUsed, RxProofs!GetUsed, Rx!SeeAvail, RxProofs!SeeAvail,
       Rx!TakeAvail, RxProofs!TakeAvail, Rx!WriteUsed, RxProofs!WriteUsed,
       Rx!PublishUsed, RxProofs!PublishUsed, Rx!Abandon, RxProofs!Abandon,
       Rx!driverVars, RxProofs!driverVars, Rx!deviceVars, RxProofs!deviceVars,
       Rx!Inc, RxProofs!Inc, Rx!Slot, RxProofs!Slot

LEMMA TxSteps ==
    /\ \A d \in Desc : Tx!AddAvail(d) => TxProofs!AddAvail(d)
    /\ Tx!PublishAvail => TxProofs!PublishAvail
    /\ Tx!GetUsed => TxProofs!GetUsed
    /\ Tx!SeeAvail => TxProofs!SeeAvail
    /\ Tx!TakeAvail => TxProofs!TakeAvail
    /\ Tx!WriteUsed => TxProofs!WriteUsed
    /\ Tx!PublishUsed => TxProofs!PublishUsed
BY DEF Tx!AddAvail, TxProofs!AddAvail, Tx!PublishAvail, TxProofs!PublishAvail,
       Tx!GetUsed, TxProofs!GetUsed, Tx!SeeAvail, TxProofs!SeeAvail,
       Tx!TakeAvail, TxProofs!TakeAvail, Tx!WriteUsed, TxProofs!WriteUsed,
       Tx!PublishUsed, TxProofs!PublishUsed,
       Tx!driverVars, TxProofs!driverVars, Tx!deviceVars, TxProofs!deviceVars,
       Tx!Inc, TxProofs!Inc, Tx!Slot, TxProofs!Slot

RingsInv == RxProofs!IInv /\ TxProofs!IInv

LEMMA RingsInvariant == Spec => []RingsInv
<1>1. RxProofs!Spec => []RxProofs!IInv
  BY RxNames, RxProofs!Inductive, PTL
<1>2. TxProofs!Spec => []TxProofs!IInv
  BY TxNames, TxProofs!Inductive, PTL
<1>3. QED
  BY <1>1, <1>2, RxNames, TxNames, RxIsVringCorrect, TxIsVringCorrect, PTL
     DEF RxIsVring, TxIsVring, Rx!Spec, RxProofs!Spec, Tx!Spec, TxProofs!Spec, RingsInv

\* Filling a slot, and anything else but publishing and taking, leaves what is
\* on its way as it is.
LEMMA InboxSame ==
    ASSUME RingsInv,
           \/ \E d \in Desc : Rx!AddAvail(d)
           \/ Rx!GetUsed \/ Rx!SeeAvail \/ Rx!WriteUsed \/ Rx!PublishUsed \/ Rx!Abandon
           \/ UNCHANGED rxVars
    PROVE  UNCHANGED Inbox
<1> USE RxNames, RxSteps DEF RingsInv, Inbox
<1>1. CASE \E d \in Desc : Rx!AddAvail(d)
  BY <1>1, RxProofs!AddAvailContents DEF Desc, RxProofs!Desc
<1>2. CASE Rx!GetUsed \/ Rx!WriteUsed \/ Rx!PublishUsed
  BY <1>2, RxProofs!GetUsedContents, RxProofs!WriteUsedContents, RxProofs!PublishUsedContents
<1>3. CASE Rx!SeeAvail \/ Rx!Abandon
  BY <1>3, RxProofs!OtherContents
<1>4. CASE UNCHANGED rxVars
  BY <1>4, RxProofs!OtherContents DEF rxVars, RxProofs!vars
<1>5. QED
  BY <1>1, <1>2, <1>3, <1>4

LEMMA OutboxSame ==
    ASSUME RingsInv,
           \/ \E d \in Desc : Tx!AddAvail(d)
           \/ Tx!PublishAvail \/ Tx!SeeAvail \/ Tx!TakeAvail \/ Tx!WriteUsed
           \/ UNCHANGED txVars
    PROVE  UNCHANGED Outbox
<1> USE TxNames, TxSteps DEF RingsInv, Outbox
<1>1. CASE \E d \in Desc : Tx!AddAvail(d)
  BY <1>1, TxProofs!AddAvailContents DEF Desc, TxProofs!Desc
<1>2. CASE Tx!PublishAvail \/ Tx!TakeAvail \/ Tx!WriteUsed
  BY <1>2, TxProofs!PublishAvailContents, TxProofs!TakeAvailContents, TxProofs!WriteUsedContents
<1>3. CASE Tx!SeeAvail
  BY <1>3, TxProofs!OtherContents
<1>4. CASE UNCHANGED txVars
  BY <1>4, TxProofs!OtherContents DEF txVars, TxProofs!vars
<1>5. QED
  BY <1>1, <1>2, <1>3, <1>4

LEMMA Owned ==
    ASSUME RingsInv
    PROVE  /\ Inbox \in Seq(Desc) /\ \A i \in DOMAIN Inbox : Inbox[i] \notin rxFree
           /\ rxDesc \in Desc /\ (rxPc \in {"held", "written"} => rxDesc \notin rxFree)
           /\ Outbox \in Seq(Desc)
           /\ txDesc \in Desc /\ (txPc = "held" => \A i \in DOMAIN Outbox : Outbox[i] # txDesc)
<1>1. RxProofs!TypeOK /\ RxProofs!Disjoint /\ TxProofs!TypeOK /\ TxProofs!Disjoint
  BY DEF RingsInv, RxProofs!IInv, RxProofs!SingleOwner, TxProofs!IInv, TxProofs!SingleOwner
<1>2. RxProofs!Desc = Desc /\ TxProofs!Desc = Desc
  BY DEF RxProofs!Desc, TxProofs!Desc, Desc
<1>3. /\ Inbox \in Seq(Desc) /\ \A i \in DOMAIN Inbox : Inbox[i] \in RxProofs!Pending
      /\ Outbox \in Seq(Desc) /\ \A i \in DOMAIN Outbox : Outbox[i] \in TxProofs!Returned
  BY <1>1, <1>2, RxNames, TxNames, RxProofs!ContentsOwned, TxProofs!ContentsOwned DEF Inbox, Outbox
<1>4. /\ rxFree \cap (RxProofs!Pending \cup RxProofs!Held) = {}
      /\ TxProofs!Held \cap TxProofs!Returned = {}
  BY <1>1 DEF RxProofs!Disjoint, TxProofs!Disjoint
<1>5. rxDesc \in Desc /\ txDesc \in Desc
  BY <1>1, <1>2 DEF RxProofs!TypeOK, TxProofs!TypeOK
<1>6. QED
  BY <1>3, <1>4, <1>5 DEF RxProofs!Held, TxProofs!Held

-----------------------------------------------------------------------------
(* The invariant                                                           *)

\* The firmware holds a message from taking it to returning it, and it has not
\* been echoed until rpmsg_sendto has published the frame.
Holding  == rxPc \in {"held", "written"}
Unechoed == pc = "message" \/ (pc = "send" /\ caller = "echo")

PlaceInv ==
    /\ Unechoed => rxPc = "held"
    /\ pc \in {"kick", "kickWrite"} /\ caller = "echo" => rxPc = "held"
    /\ pc = "return" => Holding
    /\ Holding => \/ pc \in {"message", "return"}
                  \/ pc \in {"send", "kick", "kickWrite"} /\ caller = "echo"
    /\ pc = "send" => txPc # "idle" /\ caller # "rx"
    /\ pc # "send" => txPc = "idle"
    /\ sendPc = "publish" <=> rxDrvPc = "wrote"

\* The last message that may be on its way, and the number of the message in a
\* buffer of vr_rx
Last  == IF sendPc = "publish" THEN posted - 1 ELSE posted
Id(d) == rxBuf[d].id

Waiting ==
    /\ \A i \in DOMAIN Inbox : Id(Inbox[i]) \in 1 .. Last
    /\ \A i, j \in DOMAIN Inbox : i < j => Id(Inbox[i]) < Id(Inbox[j])
    /\ sendPc = "publish" => posted > 0 /\ Id(rxAvailRing[Rx!Slot(rxAvailIdx)]) = posted

Handling ==
    Holding =>
        /\ Id(rxDesc) \in 1 .. Last
        /\ \A i \in DOMAIN Inbox : Id(rxDesc) < Id(Inbox[i])

Sent ==
    {received[k] : k \in DOMAIN received} \cup {txBuf[Outbox[i]] : i \in DOMAIN Outbox}

Below(f) ==
    /\ f <= Last
    /\ \A i \in DOMAIN Inbox : f < Id(Inbox[i])
    /\ Holding => f <= Id(rxDesc)
    /\ Unechoed => f < Id(rxDesc)

SentBelow == \A f \in Sent : Below(f)

Rising ==
    /\ \A i, j \in DOMAIN received : i < j => received[i] < received[j]
    /\ \A i \in DOMAIN received, j \in DOMAIN Outbox : received[i] < txBuf[Outbox[j]]
    /\ \A i, j \in DOMAIN Outbox : i < j => txBuf[Outbox[i]] < txBuf[Outbox[j]]

\* rpmsg_sendto publishes what it was called with.
Filled ==
    txPc = "written" => txBuf[txDesc] = (IF caller = "ns" THEN NS ELSE Id(rxDesc))

OnTheWay == Waiting /\ Handling /\ SentBelow /\ Rising /\ Filled

\* The announcement has been published.
Told == nsSent \/ (caller = "ns" /\ pc \in {"kick", "kickWrite"})

First ==
    /\ ~Told => received = <<>> /\ Outbox = <<>>
    /\ Told => IF received # <<>> THEN received[1] = NS
               ELSE Outbox # <<>> /\ txBuf[Outbox[1]] = NS
    /\ pc = "send" /\ caller = "ns" => ~nsSent
    /\ posted > 0 => received # <<>>

OrderInv == PlaceInv /\ OnTheWay /\ First

-----------------------------------------------------------------------------
(* Places                                                                  *)

LEMMA PlaceStep ==
    ASSUME TypeOK, PlaceInv, [Next]_vars
    PROVE  PlaceInv'
<1> USE DEF PlaceInv, Unechoed, Holding
<1>1. CASE ReadStatus \/ SyncVrings \/ SkipNS
  BY <1>1 DEF ReadStatus, SyncVrings, SkipNS, rxVars, txVars, hostVars
<1>2. CASE SendNS \/ RxEcho
  BY <1>2 DEF SendNS, RxEcho, Tx!SeeAvail, rxVars, hostVars
<1>3. CASE SendTake \/ SendFill
  BY <1>3 DEF SendTake, SendFill, Tx!TakeAvail, Tx!WriteUsed, rxVars, hostVars, fwVars
<1>4. CASE SendPublish
  BY <1>4 DEF SendPublish, Tx!PublishUsed, rxVars, hostVars
<1>5. CASE KickStatus \/ KickWrite
  BY <1>5 DEF KickStatus, KickWrite, AfterKick, rxVars, txVars, hostVars,
     TypeOK, ServiceTypeOK
<1>6. CASE PollStatus \/ PollMiss \/ PollTake \/ PollHit
  BY <1>6 DEF PollStatus, PollMiss, PollTake, PollHit, rxVars, txVars, hostVars, fwVars
<1>7. CASE RxSee
  BY <1>7 DEF RxSee, Rx!SeeAvail, Rx!driverVars, txVars, hostVars, fwVars
<1>8. CASE RxTake
  BY <1>8 DEF RxTake, Rx!TakeAvail, Rx!driverVars, txVars, hostVars
<1>9. CASE RxEmpty \/ RxNoEcho
  BY <1>9 DEF RxEmpty, RxNoEcho, rxVars, txVars, hostVars
<1>10. CASE RxInvalid
  BY <1>10 DEF RxInvalid, Rx!Abandon, Rx!driverVars, txVars, hostVars
<1>11. CASE RxReturn
  BY <1>11 DEF RxReturn, Rx!WriteUsed, Rx!driverVars, txVars, hostVars, fwVars
<1>12. CASE RxPublish
  BY <1>12 DEF RxPublish, Rx!PublishUsed, Rx!driverVars, txVars, hostVars
<1>13. CASE ProbePost
  BY <1>13 DEF ProbePost, Tx!AddAvail, Tx!PublishAvail, Tx!deviceVars, rxVars, fwVars, hostVars
<1>14. CASE ProbeDone \/ RecvKick \/ Interrupt \/ More \/ DrainDone
  BY <1>14 DEF ProbeDone, RecvKick, Interrupt, More, DrainDone, rxVars, txVars, fwVars
<1>15. CASE Receive \/ Repost
  BY <1>15 DEF Receive, Repost, Tx!GetUsed, Tx!AddAvail, Tx!PublishAvail, Tx!deviceVars,
     rxVars, fwVars
<1>16. CASE SendMessage
  BY <1>16 DEF SendMessage, Rx!AddAvail, Rx!deviceVars, txVars, fwVars
<1>17. CASE PublishMessage
  BY <1>17 DEF PublishMessage, Rx!PublishAvail, Rx!deviceVars, txVars, fwVars
<1>18. CASE SendKick
  BY <1>18 DEF SendKick, rxVars, txVars, fwVars
<1>19. CASE Reclaim
  BY <1>19 DEF Reclaim, Rx!GetUsed, Rx!deviceVars, txVars, fwVars, hostVars
<1>20. CASE UNCHANGED vars
  BY <1>20 DEF vars, rxVars, txVars, fwVars, hostVars
<1>21. QED
  BY <1>1, <1>2, <1>3, <1>4, <1>5, <1>6, <1>7, <1>8, <1>9, <1>10, <1>11, <1>12,
     <1>13, <1>14, <1>15, <1>16, <1>17, <1>18, <1>19, <1>20
     DEF Next, Firmware, HostRecv, HostSend

-----------------------------------------------------------------------------
(* Messages and frames                                                     *)

\* Steps that move no message and no frame
Steady ==
    /\ UNCHANGED <<Inbox, Outbox, rxBuf, txBuf, received, posted, rxAvailRing, rxAvailIdx>>
    /\ sendPc' = "publish" <=> sendPc = "publish"
    /\ Holding' => Holding /\ UNCHANGED rxDesc
    /\ Unechoed' => Unechoed /\ UNCHANGED rxDesc
    /\ txPc' = "written" => txPc = "written" /\ UNCHANGED <<txDesc, caller, rxDesc>>

LEMMA SteadyKeeps == ASSUME OnTheWay, Steady PROVE OnTheWay'
<1> USE DEF OnTheWay, Steady
<1>1. Last' = Last /\ Sent' = Sent /\ \A d : Id(d)' = Id(d)
  BY DEF Last, Sent, Id
<1>2. Waiting'
  BY <1>1 DEF Waiting, Rx!Slot, Id
<1>3. Handling'
  BY <1>1 DEF Handling, Id
<1>4. SentBelow'
  BY <1>1 DEF SentBelow, Below, Id
<1>5. Rising' /\ Filled'
  BY DEF Rising, Filled, Id
<1>6. QED
  BY <1>2, <1>3, <1>4, <1>5

LEMMA SteadySteps ==
    ASSUME TypeOK, RingsInv, SyncInv, PlaceInv,
           \/ ReadStatus \/ SyncVrings \/ SendNS \/ SkipNS \/ SendTake \/ KickStatus
           \/ KickWrite \/ PollStatus \/ PollMiss \/ PollTake \/ PollHit \/ RxSee \/ RxEmpty
           \/ RxInvalid \/ RxEcho \/ RxNoEcho \/ RxReturn \/ RxPublish
           \/ ProbePost \/ ProbeDone \/ RecvKick \/ Interrupt \/ Repost \/ More \/ DrainDone
           \/ SendKick \/ Reclaim \/ UNCHANGED vars
    PROVE  Steady
<1> USE DEF Steady, PlaceInv, Unechoed, Holding
<1>1. CASE SyncVrings
  <2>1. UNCHANGED rxVars
    BY <1>1 DEF SyncVrings, SyncInv, rxVars
  <2>2. QED
    BY <1>1, <2>1, InboxSame, OutboxSame DEF SyncVrings, rxVars, txVars, hostVars
<1>2. CASE SendNS \/ RxEcho
  BY <1>2, InboxSame, OutboxSame DEF SendNS, RxEcho, Tx!SeeAvail, rxVars, hostVars
<1>3. CASE SendTake
  BY <1>3, InboxSame, OutboxSame DEF SendTake, Tx!TakeAvail, rxVars, hostVars, fwVars
<1>4. CASE KickStatus \/ KickWrite
  BY <1>4, InboxSame, OutboxSame DEF KickStatus, KickWrite, AfterKick, TypeOK, ServiceTypeOK,
     rxVars, txVars, hostVars
<1>5. CASE \/ ReadStatus \/ SkipNS \/ PollStatus \/ PollMiss \/ PollTake \/ PollHit
           \/ RxEmpty \/ RxNoEcho
  BY <1>5, InboxSame, OutboxSame DEF ReadStatus, SkipNS, PollStatus, PollMiss, PollTake,
     PollHit, RxEmpty, RxNoEcho, rxVars, txVars, hostVars, fwVars
<1>6. CASE RxSee
  BY <1>6, InboxSame, OutboxSame DEF RxSee, Rx!SeeAvail, Rx!driverVars, txVars, hostVars, fwVars
<1>7. CASE RxInvalid
  BY <1>7, InboxSame, OutboxSame DEF RxInvalid, Rx!Abandon, Rx!driverVars, txVars, hostVars
<1>8. CASE RxReturn
  BY <1>8, InboxSame, OutboxSame DEF RxReturn, Rx!WriteUsed, Rx!driverVars, txVars, hostVars,
     fwVars
<1>9. CASE RxPublish
  BY <1>9, InboxSame, OutboxSame DEF RxPublish, Rx!PublishUsed, Rx!driverVars, txVars, hostVars
<1>10. CASE ProbePost
  BY <1>10, InboxSame, OutboxSame DEF ProbePost, Tx!AddAvail, Tx!PublishAvail, Tx!deviceVars,
     rxVars, fwVars, hostVars
<1>11. CASE Repost
  BY <1>11, InboxSame, OutboxSame DEF Repost, Tx!AddAvail, Tx!PublishAvail, Tx!deviceVars,
     rxVars, fwVars
<1>12. CASE ProbeDone \/ RecvKick \/ Interrupt \/ More \/ DrainDone \/ SendKick
  BY <1>12, InboxSame, OutboxSame DEF ProbeDone, RecvKick, Interrupt, More, DrainDone,
     SendKick, rxVars, txVars, fwVars
<1>13. CASE Reclaim
  BY <1>13, InboxSame, OutboxSame DEF Reclaim, Rx!GetUsed, Rx!deviceVars, txVars, fwVars, hostVars
<1>14. CASE UNCHANGED vars
  BY <1>14, InboxSame, OutboxSame DEF vars, rxVars, txVars, fwVars, hostVars
<1>15. QED
  BY <1>1, <1>2, <1>3, <1>4, <1>5, <1>6, <1>7, <1>8, <1>9, <1>10, <1>11, <1>12, <1>13, <1>14

LEMMA Numbers ==
    ASSUME TypeOK, RingsInv
    PROVE  /\ Sent \subseteq Nat
           /\ \A d \in Desc : Id(d) \in Nat /\ txBuf[d] \in Nat
           /\ posted \in Nat /\ Last \in Int
<1>1. \A d \in Desc : Id(d) \in Nat /\ txBuf[d] \in Nat
  BY RpmsgAssumption DEF TypeOK, ServiceTypeOK, Message, NoMessage, Id
<1>2. \A k \in DOMAIN received : received[k] \in Nat
  BY RpmsgAssumption DEF TypeOK, ServiceTypeOK
<1>3. \A i \in DOMAIN Outbox : txBuf[Outbox[i]] \in Nat
  BY <1>1, Owned
<1>4. posted \in Nat
  BY RpmsgAssumption DEF TypeOK, ServiceTypeOK
<1>5. QED
  BY <1>1, <1>2, <1>3, <1>4 DEF Sent, Last

\* A message is taken: the oldest on its way in.
LEMMA TakeKeeps ==
    ASSUME TypeOK, RingsInv, PlaceInv, OnTheWay, RxTake PROVE OnTheWay'
<1> USE DEF OnTheWay
<1>1. /\ Inbox # <<>> /\ Head(Inbox) = rxDesc' /\ Inbox' = Tail(Inbox)
      /\ UNCHANGED Outbox
  BY RxNames, RxSteps, OutboxSame, RxProofs!TakeAvailContents DEF RingsInv, Inbox, RxTake
<1>2. /\ Inbox[1] = rxDesc' /\ 1 \in DOMAIN Inbox
      /\ \A i \in DOMAIN Inbox' : /\ i + 1 \in DOMAIN Inbox /\ 1 < i + 1 /\ i \in Nat
                                  /\ Inbox'[i] = Inbox[i + 1]
  BY <1>1, Owned
<1>3. /\ UNCHANGED <<rxBuf, txBuf, received, posted, sendPc, rxAvailRing, rxAvailIdx,
                     txPc, txDesc, caller>>
      /\ pc' = "message" /\ rxPc' = "held" /\ txPc = "idle"
  BY DEF RxTake, Rx!TakeAvail, Rx!driverVars, txVars, hostVars, PlaceInv
<1>4. Last' = Last /\ Sent' = Sent
  BY <1>1, <1>3 DEF Last, Sent
<1>5. Waiting'
  BY <1>2, <1>3, <1>4 DEF Waiting, Rx!Slot, Id
<1>6. Handling'
  BY <1>2, <1>3, <1>4 DEF Handling, Waiting, Id
<1>7. SentBelow'
  <2>1. ASSUME NEW f \in Sent PROVE Below(f)'
    <3>1. f <= Last /\ \A i \in DOMAIN Inbox : f < Id(Inbox[i])
      BY DEF SentBelow, Below
    <3>2. Id(rxDesc') = Id(rxDesc)' /\ f < Id(rxDesc')
      BY <1>2, <1>3, <3>1 DEF Id
    <3>3. \A i \in DOMAIN Inbox' : f < Id(Inbox[i])'
      BY <1>2, <1>3, <3>1 DEF Id
    <3>4. f \in Int /\ Id(rxDesc') \in Int
      <4>1. rxDesc' \in Desc
        BY <1>1, <1>2, Owned
      <4>2. Id(rxDesc') \in Nat
        BY <4>1, Numbers
      <4>3. f \in Nat
        BY Numbers
      <4>4. QED BY <4>2, <4>3
    <3>5. QED
      BY <1>4, <3>1, <3>2, <3>3, <3>4 DEF Below
  <2>2. QED
    BY <1>4, <2>1 DEF SentBelow
<1>8. Rising' /\ Filled'
  BY <1>1, <1>3 DEF Rising, Filled
<1>9. QED
  BY <1>5, <1>6, <1>7, <1>8

\* A message is published: the newest on its way in.
LEMMA PublishKeeps ==
    ASSUME TypeOK, RingsInv, PlaceInv, OnTheWay, PublishMessage PROVE OnTheWay'
<1> DEFINE d == rxAvailRing[Rx!Slot(rxAvailIdx)]
<1> USE DEF OnTheWay
<1>1. Inbox' = Append(Inbox, d) /\ UNCHANGED Outbox
  BY RxNames, RxSteps, OutboxSame, RxProofs!PublishAvailContents
     DEF RingsInv, Inbox, PublishMessage, RxProofs!Slot, Rx!Slot
<1>2. /\ UNCHANGED <<rxBuf, txBuf, received, posted, txPc, txDesc, rxPc, rxDesc, caller, pc>>
      /\ sendPc = "publish" /\ sendPc' = "kick"
  BY DEF PublishMessage, Rx!PublishAvail, Rx!deviceVars, txVars, fwVars
<1>3. Last = posted - 1 /\ Last' = posted /\ Sent' = Sent /\ posted > 0 /\ Id(d) = posted
      /\ posted \in Nat
  BY <1>1, <1>2, Numbers DEF Last, Sent, Waiting
<1>4. \A i \in DOMAIN Inbox' :
         \/ i \in DOMAIN Inbox /\ Inbox'[i] = Inbox[i] /\ i < Len(Inbox) + 1
         \/ i = Len(Inbox) + 1 /\ Inbox'[i] = d
  BY <1>1, Owned
<1>5. /\ \A i \in DOMAIN Inbox : Id(Inbox[i]) \in 1 .. posted - 1
      /\ \A i \in DOMAIN Inbox : i \in 1 .. Len(Inbox)
      /\ Len(Inbox) \in Nat
  BY <1>3, Owned DEF Waiting
<1>6. Waiting'
  <2>1. \A i \in DOMAIN Inbox' : Id(Inbox[i])' \in 1 .. posted
    BY <1>2, <1>3, <1>4, <1>5 DEF Id
  <2>2. \A i, j \in DOMAIN Inbox' : i < j => Id(Inbox[i])' < Id(Inbox[j])'
    BY <1>2, <1>3, <1>4, <1>5 DEF Id, Waiting
  <2>3. QED
    BY <1>2, <1>3, <2>1, <2>2 DEF Waiting
<1>7. Handling'
  BY <1>2, <1>3, <1>4, <1>5 DEF Handling, Holding, Id
<1>8. SentBelow'
  <2>1. ASSUME NEW f \in Sent PROVE Below(f)'
    <3>1. f \in Nat /\ Below(f)
      BY Numbers DEF SentBelow
    <3>2. \A i \in DOMAIN Inbox' : f < Id(Inbox[i])'
      BY <1>2, <1>3, <1>4, <3>1 DEF Below, Id
    <3>3. QED
      BY <1>2, <1>3, <3>1, <3>2 DEF Below, Holding, Unechoed, Id
  <2>2. QED
    BY <1>3, <2>1 DEF SentBelow
<1>9. Rising' /\ Filled'
  BY <1>1, <1>2 DEF Rising, Filled, Id
<1>10. QED
  BY <1>6, <1>7, <1>8, <1>9

\* A message is written to a buffer of the host's own.
LEMMA WriteKeeps ==
    ASSUME TypeOK, RingsInv, PlaceInv, OnTheWay, SendMessage PROVE OnTheWay'
<1> USE DEF OnTheWay
<1>1. UNCHANGED <<Inbox, Outbox>>
  BY InboxSame, OutboxSame DEF SendMessage
<1>2. PICK d \in Desc, k \in Kinds :
         Rx!AddAvail(d) /\ rxBuf' = [rxBuf EXCEPT ![d] = [id |-> posted + 1, kind |-> k]]
  BY DEF SendMessage
<1>3. /\ UNCHANGED <<txBuf, received, txPc, txDesc, rxPc, rxDesc, rxAvailIdx, caller, pc>>
      /\ posted' = posted + 1 /\ sendPc = "idle" /\ sendPc' = "publish"
      /\ d \in rxFree /\ rxAvailRing' = [rxAvailRing EXCEPT ![Rx!Slot(rxAvailIdx)] = d]
  BY <1>2 DEF SendMessage, Rx!AddAvail, Rx!deviceVars, txVars, fwVars
<1>4. Last' = Last /\ Sent' = Sent /\ posted' \in Nat /\ posted' > 0
  BY <1>1, <1>3, Numbers DEF Last, Sent
<1>5. /\ \A i \in DOMAIN Inbox : Id(Inbox[i])' = Id(Inbox[i])
      /\ Holding => Id(rxDesc)' = Id(rxDesc)
      /\ Id(d)' = posted'
  <2>1. rxBuf \in [Desc -> Message \cup {NoMessage}]
    BY DEF TypeOK, ServiceTypeOK
  <2>2. \A e \in Desc : e # d => rxBuf'[e].id = rxBuf[e].id
    BY <1>2, <2>1
  <2>3. rxBuf'[d].id = posted'
    BY <1>2, <1>3, <2>1
  <2>4. \A i \in DOMAIN Inbox : Inbox[i] \in Desc /\ Inbox[i] # d
    BY <1>3, Owned
  <2>5. Holding => rxDesc \in Desc /\ rxDesc # d
    BY <1>3, Owned DEF Holding
  <2>6. QED
    BY <1>1, <1>3, <2>2, <2>3, <2>4, <2>5 DEF Id
<1>6. Waiting'
  <2>1. rxAvailRing'[Rx!Slot(rxAvailIdx)] = d
    BY <1>3, RxProofs!SlotType, RxNames
       DEF RingsInv, RxProofs!IInv, RxProofs!TypeOK, RxProofs!Slot, Rx!Slot
  <2>2. Id(rxAvailRing[Rx!Slot(rxAvailIdx)])' = posted'
    BY <1>3, <1>5, <2>1 DEF Rx!Slot, Id
  <2>3. QED
    BY <1>1, <1>4, <1>5, <2>2 DEF Waiting
<1>7. Handling'
  BY <1>1, <1>3, <1>4, <1>5 DEF Handling, Holding
<1>8. SentBelow'
  <2>1. Unechoed => Holding
    BY DEF PlaceInv, Holding
  <2>2. QED
    BY <1>1, <1>3, <1>4, <1>5, <2>1 DEF SentBelow, Below, Holding, Unechoed
<1>9. Rising' /\ Filled'
  <2>1. txPc = "written" /\ caller # "ns" => Holding
    BY DEF PlaceInv, Holding, Unechoed, TypeOK, ServiceTypeOK
  <2>2. QED
    BY <1>1, <1>3, <1>5, <2>1 DEF Rising, Filled
<1>10. QED
  BY <1>6, <1>7, <1>8, <1>9

\* A frame is written to a buffer that is nowhere on its way.
LEMMA FillKeeps ==
    ASSUME TypeOK, RingsInv, PlaceInv, OnTheWay, SendFill PROVE OnTheWay'
<1> USE DEF OnTheWay
<1>1. UNCHANGED <<Inbox, Outbox>>
  BY InboxSame, OutboxSame DEF SendFill
<1>2. /\ UNCHANGED <<rxBuf, received, posted, sendPc, rxAvailRing, rxAvailIdx, rxPc, rxDesc,
                     txDesc, caller, pc>>
      /\ txPc = "held"
      /\ txBuf' = [txBuf EXCEPT ![txDesc] = IF caller = "ns" THEN NS ELSE Id(rxDesc)]
  BY DEF SendFill, Tx!WriteUsed, Tx!driverVars, rxVars, hostVars, fwVars, Id
<1>3. \A i \in DOMAIN Outbox : txBuf'[Outbox[i]] = txBuf[Outbox[i]]
  BY <1>2, Owned DEF TypeOK, ServiceTypeOK
<1>4. txBuf'[txDesc] = (IF caller = "ns" THEN NS ELSE Id(rxDesc))
  BY <1>2, Owned DEF TypeOK, ServiceTypeOK
<1>5. Last' = Last /\ Sent' = Sent
  BY <1>1, <1>2, <1>3 DEF Last, Sent
<1>6. Waiting' /\ Handling' /\ SentBelow'
  BY <1>1, <1>2, <1>5 DEF Waiting, Handling, SentBelow, Below, Id, Holding, Unechoed, Rx!Slot
<1>7. Rising'
  BY <1>1, <1>2, <1>3 DEF Rising
<1>8. Filled'
  BY <1>2, <1>4 DEF Filled, Id
<1>9. QED
  BY <1>6, <1>7, <1>8

\* What rpmsg_sendto is about to publish is above all that has been sent.
LEMMA NextFrame ==
    ASSUME TypeOK, RingsInv, PlaceInv, OnTheWay, First, SendPublish
    PROVE  /\ \A f \in Sent : f < txBuf[txDesc]
           /\ txBuf[txDesc] <= Last
           /\ \A i \in DOMAIN Inbox : txBuf[txDesc] < Id(Inbox[i])
           /\ Holding => txBuf[txDesc] <= Id(rxDesc)
<1> USE DEF OnTheWay
<1>1. pc = "send" /\ txPc = "written" /\ caller \in {"ns", "echo"}
  BY DEF SendPublish, Tx!PublishUsed, PlaceInv, TypeOK, ServiceTypeOK
<1>2. CASE caller = "ns"
  <2>1. txBuf[txDesc] = 0 /\ ~Told
    BY <1>1, <1>2 DEF Filled, NS, First, Told
  <2>2. received = <<>> /\ Outbox = <<>> /\ posted = 0 /\ sendPc # "publish"
    BY <2>1, Numbers DEF First, Waiting
  <2>3. Sent = {} /\ Last = 0
    BY <2>2 DEF Sent, Last
  <2>4. ~Holding
    BY <1>1, <1>2 DEF PlaceInv, Holding
  <2>5. QED
    BY <2>1, <2>3, <2>4 DEF Waiting
<1>3. CASE caller = "echo"
  <2>1. txBuf[txDesc] = Id(rxDesc) /\ Holding /\ Unechoed
    BY <1>1, <1>3 DEF Filled, PlaceInv, Holding, Unechoed
  <2>2. rxDesc \in Desc /\ Id(rxDesc) \in 1 .. Last /\ Last \in Int
    BY <2>1, Owned, Numbers DEF Handling
  <2>3. QED
    BY <2>1, <2>2 DEF Handling, SentBelow, Below
<1>4. QED
  BY <1>1, <1>2, <1>3

LEMMA SendKeeps ==
    ASSUME TypeOK, RingsInv, PlaceInv, OnTheWay, First, SendPublish PROVE OnTheWay'
<1> USE DEF OnTheWay
<1>1. Outbox' = Append(Outbox, txDesc) /\ UNCHANGED Inbox
  BY TxNames, TxSteps, InboxSame, TxProofs!PublishUsedContents DEF RingsInv, Outbox, SendPublish
<1>2. /\ UNCHANGED <<rxBuf, txBuf, received, posted, sendPc, rxAvailRing, rxAvailIdx,
                     rxPc, rxDesc>>
      /\ pc' = "kick" /\ txPc' = "idle"
  BY DEF SendPublish, Tx!PublishUsed, rxVars, hostVars
<1>3. /\ DOMAIN Outbox = 1 .. Len(Outbox) /\ Len(Outbox) \in Nat
      /\ \A i \in DOMAIN Outbox' : \/ i \in DOMAIN Outbox /\ Outbox'[i] = Outbox[i]
                                   \/ i = Len(Outbox) + 1 /\ Outbox'[i] = txDesc
      /\ Len(Outbox) + 1 \in DOMAIN Outbox' /\ \A i \in DOMAIN Outbox : i \in DOMAIN Outbox'
  BY <1>1, Owned
<1>4. Sent' = Sent \cup {txBuf[txDesc]} /\ Last' = Last
  <2>1. {txBuf'[Outbox'[i]] : i \in DOMAIN Outbox'}
          = {txBuf[Outbox[i]] : i \in DOMAIN Outbox} \cup {txBuf[txDesc]}
    BY <1>2, <1>3, <1>1, Owned
  <2>2. QED
    BY <1>2, <2>1 DEF Sent, Last
<1>5. Waiting' /\ Handling' /\ Filled'
  BY <1>1, <1>2, <1>4 DEF Waiting, Handling, Filled, Id, Holding, Rx!Slot
<1>6. SentBelow'
  <2>1. ASSUME NEW f \in Sent \cup {txBuf[txDesc]} PROVE Below(f)'
    <3>1. f <= Last /\ (\A i \in DOMAIN Inbox : f < Id(Inbox[i])) /\ (Holding => f <= Id(rxDesc))
      BY NextFrame DEF SentBelow, Below
    <3>2. QED
      BY <1>1, <1>2, <1>4, <3>1 DEF Below, Id, Holding, Unechoed
  <2>2. QED
    BY <1>4, <2>1 DEF SentBelow
<1>7. Rising'
  <2>1. /\ \A k \in DOMAIN received : received[k] < txBuf[txDesc]
        /\ \A i \in DOMAIN Outbox : txBuf[Outbox[i]] < txBuf[txDesc]
    BY NextFrame DEF Sent
  <2>2. \A i \in DOMAIN received, j \in DOMAIN Outbox' : received[i] < txBuf[Outbox'[j]]
    BY <1>3, <2>1 DEF Rising
  <2>3. \A i, j \in DOMAIN Outbox' : i < j => txBuf[Outbox'[i]] < txBuf[Outbox'[j]]
    BY <1>3, <2>1 DEF Rising
  <2>4. QED
    BY <1>2, <2>2, <2>3 DEF Rising
<1>8. QED
  BY <1>5, <1>6, <1>7

\* The host receives the oldest frame on its way out.
LEMMA Received ==
    ASSUME TypeOK, RingsInv, Receive
    PROVE  /\ Outbox # <<>> /\ Outbox' = Tail(Outbox)
           /\ received' = Append(received, txBuf[Outbox[1]])
           /\ UNCHANGED Inbox
<1>1. /\ Outbox # <<>> /\ Head(Outbox) = txUsedRing[Tx!Slot(txLastUsed)]
      /\ Outbox' = Tail(Outbox)
  BY TxNames, TxSteps, TxProofs!GetUsedContents
     DEF RingsInv, Outbox, Receive, TxProofs!Slot, Tx!Slot
<1>2. Head(Outbox) = Outbox[1]
  BY <1>1, Owned
<1>3. QED
  BY <1>1, <1>2, InboxSame DEF Receive

LEMMA ReceiveKeeps ==
    ASSUME TypeOK, RingsInv, PlaceInv, OnTheWay, Receive PROVE OnTheWay'
<1> USE DEF OnTheWay
<1> DEFINE frame == txBuf[Outbox[1]]
<1>1. /\ UNCHANGED <<rxBuf, txBuf, posted, sendPc, rxAvailRing, rxAvailIdx,
                     rxPc, rxDesc, txPc, txDesc, pc, caller>>
      /\ UNCHANGED Inbox
  BY Received DEF Receive, Tx!GetUsed, Tx!deviceVars, rxVars, fwVars
<1>2. /\ 1 \in DOMAIN Outbox
      /\ \A i \in DOMAIN Outbox' : /\ i + 1 \in DOMAIN Outbox /\ 1 < i + 1 /\ i \in Nat
                                   /\ Outbox'[i] = Outbox[i + 1]
      /\ \A i \in DOMAIN Outbox : i = 1 \/ (i - 1 \in DOMAIN Outbox' /\ Outbox'[i - 1] = Outbox[i])
  BY Received, Owned
<1>3. /\ \A k \in DOMAIN received' : \/ k \in DOMAIN received /\ received'[k] = received[k]
                                     \/ k = Len(received) + 1 /\ received'[k] = frame
      /\ DOMAIN received = 1 .. Len(received) /\ Len(received) \in Nat
      /\ \A k \in DOMAIN received : k \in DOMAIN received' /\ received'[k] = received[k]
      /\ Len(received) + 1 \in DOMAIN received' /\ received'[Len(received) + 1] = frame
  <2>1. received \in Seq(0 .. MaxMsgs) /\ received' = Append(received, frame)
    BY Received DEF TypeOK, ServiceTypeOK
  <2>2. frame \in 0 .. MaxMsgs
    BY <1>2, Owned DEF TypeOK, ServiceTypeOK
  <2> HIDE DEF frame
  <2>3. QED
    BY <2>1, <2>2
<1>4. Sent' = Sent /\ Last' = Last
  <2>1. {received'[k] : k \in DOMAIN received'} = {received[k] : k \in DOMAIN received} \cup {frame}
    BY <1>3
  <2>2. {txBuf[Outbox[i]] : i \in DOMAIN Outbox}
          = {txBuf[Outbox'[i]] : i \in DOMAIN Outbox'} \cup {frame}
    <3>1. ASSUME NEW i \in DOMAIN Outbox
          PROVE  i = 1 \/ \E j \in DOMAIN Outbox' : Outbox'[j] = Outbox[i]
      BY <1>2
    <3>2. ASSUME NEW j \in DOMAIN Outbox'
          PROVE  \E i \in DOMAIN Outbox : Outbox'[j] = Outbox[i]
      BY <1>2
    <3>3. QED
      BY <1>2, <3>1, <3>2
  <2>3. QED
    BY <1>1, <2>1, <2>2 DEF Sent, Last
<1>5. Waiting' /\ Handling' /\ SentBelow' /\ Filled'
  BY <1>1, <1>4 DEF Waiting, Handling, SentBelow, Below, Filled, Id, Holding, Unechoed, Rx!Slot
<1>6. Rising'
  <2>1. \A i, j \in DOMAIN received' : i < j => received'[i] < received'[j]
    BY <1>2, <1>3 DEF Rising
  <2>2. \A i \in DOMAIN received', j \in DOMAIN Outbox' : received'[i] < txBuf[Outbox'[j]]
    <3>1. \A j \in DOMAIN Outbox' : frame < txBuf[Outbox'[j]]
      BY <1>2 DEF Rising
    <3>2. \A i \in DOMAIN received, j \in DOMAIN Outbox' : received[i] < txBuf[Outbox'[j]]
      BY <1>2 DEF Rising
    <3>3. QED
      BY <1>3, <3>1, <3>2
  <2>3. \A i, j \in DOMAIN Outbox' : i < j => txBuf[Outbox'[i]] < txBuf[Outbox'[j]]
    BY <1>2 DEF Rising
  <2>4. QED
    BY <1>1, <2>1, <2>2, <2>3 DEF Rising
<1>7. QED
  BY <1>5, <1>6

LEMMA OnTheWayStep ==
    ASSUME TypeOK, RingsInv, SyncInv, PlaceInv, First, OnTheWay, [Next]_vars
    PROVE  OnTheWay'
BY SteadySteps, SteadyKeeps, TakeKeeps, PublishKeeps, WriteKeeps, FillKeeps, SendKeeps,
   ReceiveKeeps DEF Next, Firmware, HostRecv, HostSend

-----------------------------------------------------------------------------
(* The announcement                                                        *)

LEMMA FirstStep ==
    ASSUME TypeOK, RingsInv, SyncInv, PlaceInv, OnTheWay, First, [Next]_vars
    PROVE  First'
<1> USE DEF First, Told
<1>1. CASE ReadStatus \/ SyncVrings \/ SkipNS
  BY <1>1, OutboxSame DEF ReadStatus, SyncVrings, SkipNS, txVars, hostVars
<1>2. CASE SendNS \/ RxEcho
  BY <1>2, OutboxSame DEF SendNS, RxEcho, hostVars
<1>3. CASE SendTake
  BY <1>3, OutboxSame DEF SendTake, hostVars, fwVars
<1>4. CASE SendFill
  <2>1. UNCHANGED Outbox /\ UNCHANGED <<received, posted, pc, caller, nsSent>>
    BY <1>4, OutboxSame DEF SendFill, hostVars, fwVars
  <2>2. \A i \in DOMAIN Outbox : txBuf'[Outbox[i]] = txBuf[Outbox[i]]
    BY <1>4, Owned DEF SendFill, Tx!WriteUsed, TypeOK, ServiceTypeOK
  <2>3. Outbox # <<>> => 1 \in DOMAIN Outbox
    BY Owned
  <2>4. QED
    BY <2>1, <2>2, <2>3
<1>5. CASE SendPublish
  <2>1. Outbox' = Append(Outbox, txDesc)
    BY <1>5, TxNames, TxSteps, TxProofs!PublishUsedContents DEF RingsInv, Outbox, SendPublish
  <2>2. /\ UNCHANGED <<received, posted, txBuf, nsSent, caller>>
        /\ pc = "send" /\ pc' = "kick" /\ txPc = "written"
    BY <1>5 DEF SendPublish, Tx!PublishUsed, hostVars
  <2>3. CASE caller = "ns"
    <3>1. received = <<>> /\ Outbox = <<>> /\ txBuf[txDesc] = NS
      BY <2>2, <2>3 DEF OnTheWay, Filled
    <3>2. Outbox' # <<>> /\ Outbox'[1] = txDesc
      BY <2>1, <3>1
    <3>3. QED
      BY <2>2, <2>3, <3>1, <3>2
  <2>4. CASE caller # "ns"
    <3>1. Holding
      BY <2>2, <2>4 DEF PlaceInv, Unechoed, Holding, TypeOK, ServiceTypeOK
    <3>2. posted > 0
      BY <3>1, Numbers DEF OnTheWay, Handling, Last
    <3>3. QED
      BY <2>2, <2>4, <3>2
  <2>5. QED
    BY <2>3, <2>4
<1>6. CASE KickStatus \/ KickWrite
  BY <1>6, OutboxSame DEF KickStatus, KickWrite, AfterKick, txVars, hostVars, TypeOK, ServiceTypeOK
<1>7. CASE \/ PollStatus \/ PollMiss \/ PollTake \/ PollHit \/ RxSee \/ RxTake \/ RxEmpty
           \/ RxInvalid \/ RxNoEcho \/ RxReturn \/ RxPublish
  BY <1>7, OutboxSame DEF PollStatus, PollMiss, PollTake, PollHit, RxSee, RxTake, RxEmpty,
     RxInvalid, RxNoEcho, RxReturn, RxPublish, txVars, hostVars, fwVars
<1>8. CASE ProbePost \/ ProbeDone \/ RecvKick \/ Interrupt \/ Repost \/ More \/ DrainDone
  BY <1>8, OutboxSame DEF ProbePost, ProbeDone, RecvKick, Interrupt, Repost, More, DrainDone,
     txVars, fwVars, hostVars
<1>9. CASE Receive
  <2>1. Outbox # <<>> /\ received' = Append(received, txBuf[Outbox[1]])
    BY <1>9, Received
  <2>2. UNCHANGED <<posted, pc, caller, nsSent>>
    BY <1>9 DEF Receive, fwVars
  <2>3. received' # <<>> /\ received'[1] = (IF received # <<>> THEN received[1] ELSE txBuf[Outbox[1]])
    BY <2>1 DEF TypeOK, ServiceTypeOK
  <2>4. QED
    BY <2>1, <2>2, <2>3
<1>10. CASE SendMessage
  BY <1>10, OutboxSame DEF SendMessage, Announced, fwVars
<1>11. CASE PublishMessage \/ SendKick \/ Reclaim
  BY <1>11, OutboxSame DEF PublishMessage, SendKick, Reclaim, txVars, fwVars, hostVars
<1>12. CASE UNCHANGED vars
  BY <1>12, OutboxSame DEF vars, txVars, fwVars, hostVars
<1>13. QED
  BY <1>1, <1>2, <1>3, <1>4, <1>5, <1>6, <1>7, <1>8, <1>9, <1>10, <1>11, <1>12
     DEF Next, Firmware, HostRecv, HostSend

-----------------------------------------------------------------------------

LEMMA OrderInit == ASSUME Init PROVE OrderInv
<1>1. Inbox = <<>> /\ Outbox = <<>>
  <2>1. RxProofs!Dist(0, 0) = 0 /\ TxProofs!Dist(0, 0) = 0
    BY DEF RxProofs!Dist, TxProofs!Dist
  <2>2. QED
    BY <2>1 DEF Init, Rx!Init, Tx!Init, Inbox, Outbox, RxProofs!Offered, TxProofs!Completed,
       RxProofs!Contents, TxProofs!Contents
<1>2. /\ rxPc = "idle" /\ txPc = "idle" /\ rxDrvPc = "idle" /\ sendPc = "idle" /\ pc = "status"
      /\ received = <<>> /\ posted = 0 /\ nsSent = FALSE
  BY DEF Init, Rx!Init, Tx!Init
<1>3. PlaceInv /\ First
  BY <1>1, <1>2 DEF PlaceInv, First, Told, Holding, Unechoed
<1>4. Sent = {}
  BY <1>1, <1>2 DEF Sent
<1>5. OnTheWay
  BY <1>1, <1>2, <1>4 DEF OnTheWay, Waiting, Handling, SentBelow, Rising, Filled, Holding
<1>6. QED
  BY <1>3, <1>5 DEF OrderInv

THEOREM OrderInductive == Spec => []OrderInv
<1>1. Init => OrderInv
  BY OrderInit
<1>2. TypeOK /\ RingsInv /\ SyncInv /\ OrderInv /\ [Next]_vars => OrderInv'
  BY PlaceStep, OnTheWayStep, FirstStep DEF OrderInv
<1>3. QED
  BY <1>1, <1>2, TypeCorrect, RingsInvariant, SyncInductive, PTL DEF Spec

\* The host gets the announcement first and once, then echoes of messages it
\* sent, in the order it sent them and none of them twice, however kicks are
\* merged or dropped and the rings wrap.
THEOREM InOrderCorrect == Spec => []InOrder
<1>1. TypeOK /\ RingsInv /\ OrderInv => InOrder
  <2> SUFFICES ASSUME TypeOK, RingsInv, OrderInv PROVE InOrder
    OBVIOUS
  <2> USE DEF OrderInv, OnTheWay
  <2>1. received # <<>> => received[1] = NS
    BY DEF First, Told
  <2>2. DOMAIN received = 1 .. Len(received) /\ Len(received) \in Nat
    BY DEF TypeOK, ServiceTypeOK
  <2>3. \A i \in 1 .. Len(received) - 1 : received[i] < received[i + 1]
    BY <2>2 DEF Rising
  <2>4. \A i \in 1 .. Len(received) : received[i] <= posted
    <3>1. \A i \in DOMAIN received : received[i] \in Nat /\ received[i] <= Last
      BY Numbers DEF Sent, SentBelow, Below
    <3>2. QED
      BY <2>2, <3>1, Numbers DEF Last
  <2>5. QED
    BY <2>1, <2>3, <2>4 DEF InOrder
<1>2. QED
  BY <1>1, TypeCorrect, RingsInvariant, OrderInductive, PTL

=============================================================================
