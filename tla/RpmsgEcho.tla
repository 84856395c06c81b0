------------------------------ MODULE RpmsgEcho ------------------------------
(***************************************************************************)
(* The RPMsg echo service: the polling firmware of c906/src/main.c (and of *)
(* FreeRTOS-HIFI4-DSP/src/msgbox.c, the same code on the DSP), the two     *)
(* vrings and the two mailbox channels it shares with Linux.               *)
(*                                                                         *)
(* Each vring is an instance of Vring, the channel host to firmware an     *)
(* instance of Msgbox; the firmware's main loop, rpmsg_sendto and          *)
(* process_host_messages decide which of their steps happens next.  The    *)
(* host is not under src/: it has a receiving thread (the virtio probe,    *)
(* the mailbox callback) and a sending one, which run concurrently with    *)
(* the firmware and with each other.                                       *)
(*                                                                         *)
(* A message is a number, in the order the host sends them; frame 0 is the *)
(* name service announcement.                                              *)
(***************************************************************************)
EXTENDS Integers, Sequences, FiniteSets

CONSTANTS
    Num,        \* VRING_NUM
    IdxMod,     \* values of a ring index
    FifoDepth,  \* words in a mailbox FIFO
    MaxMsgs,    \* bound: messages the host sends
    Kinds       \* what it may send: "data", "empty" (no payload) or "bad"
                \* (a buffer outside the shared memory)

ASSUME RpmsgAssumption ==
    /\ Num \in Nat \ {0}
    /\ IdxMod \in Nat
    /\ 2 * Num <= IdxMod
    /\ IdxMod % Num = 0
    /\ FifoDepth \in Nat \ {0}
    /\ MaxMsgs \in Nat
    /\ Kinds \subseteq {"data", "empty", "bad"}

VARIABLES
    rxAvailIdx, rxAvailRing, rxUsedIdx, rxUsedRing, rxLastAvail, rxPc, rxDesc,
    rxLastUsed, rxDrvPc, rxFree, rxLost,         \* vr_rx, host -> firmware
    txAvailIdx, txAvailRing, txUsedIdx, txUsedRing, txLastAvail, txPc, txDesc,
    txLastUsed, txDrvPc, txFree, txLost,         \* vr_tx, firmware -> host
    fifo, pending, pollPc, vqid, owed,           \* mailbox, host -> firmware
    toHost,     \* mailbox FIFO, firmware -> host
    status,     \* DRIVER_OK in resources.rpmsg_vdev.status
    rxBuf,      \* descriptor of vr_rx -> the message in its buffer
    txBuf,      \* descriptor of vr_tx -> the frame in its buffer
    pc,         \* the firmware's place in main()
    caller,     \* who called rpmsg_sendto or msgbox_kick_host
    ready, synced, nsSent,                       \* main()'s locals
    sendPc, recvPc,                              \* the host's threads
    posted,     \* messages the host has written so far
    received    \* history: the frames the host has received

Rx == INSTANCE Vring WITH
    availIdx <- rxAvailIdx, availRing <- rxAvailRing, usedIdx <- rxUsedIdx,
    usedRing <- rxUsedRing, lastAvail <- rxLastAvail, devPc <- rxPc,
    devDesc <- rxDesc, lastUsed <- rxLastUsed, drvPc <- rxDrvPc,
    free <- rxFree, lost <- rxLost

Tx == INSTANCE Vring WITH
    availIdx <- txAvailIdx, availRing <- txAvailRing, usedIdx <- txUsedIdx,
    usedRing <- txUsedRing, lastAvail <- txLastAvail, devPc <- txPc,
    devDesc <- txDesc, lastUsed <- txLastUsed, drvPc <- txDrvPc,
    free <- txFree, lost <- txLost

VqId == {0, 1}
Box == INSTANCE Msgbox

rxVars == <<rxAvailIdx, rxAvailRing, rxUsedIdx, rxUsedRing, rxLastAvail,
            rxPc, rxDesc, rxLastUsed, rxDrvPc, rxFree, rxLost>>
txVars == <<txAvailIdx, txAvailRing, txUsedIdx, txUsedRing, txLastAvail,
            txPc, txDesc, txLastUsed, txDrvPc, txFree, txLost>>
boxVars  == <<fifo, pending, pollPc, vqid, owed>>
fwVars   == <<pc, caller, ready, synced, nsSent>>
hostVars == <<sendPc, recvPc, posted, received, status, rxBuf>>

vars == <<rxVars, txVars, boxVars, fwVars, hostVars, toHost, txBuf>>

Desc == 0 .. Num - 1
Message == [id : 1 .. MaxMsgs, kind : Kinds]

\* The code's defaults before anything is sent
NoMessage == [id |-> 0, kind |-> "empty"]
NS == 0

-----------------------------------------------------------------------------
(* main() before its loop, against the memory a host has just set up       *)
Init ==
    /\ Rx!Init
    /\ Tx!Init
    /\ Box!Init
    /\ toHost = <<>>
    /\ status = FALSE
    /\ rxBuf = [d \in Desc |-> NoMessage]
    /\ txBuf = [d \in Desc |-> NS]
    /\ pc = "status"
    /\ caller = "ns"
    /\ ready = FALSE
    /\ synced = FALSE
    /\ nsSent = FALSE
    /\ sendPc = "idle"
    /\ recvPc = "probe"
    /\ posted = 0
    /\ received = <<>>

-----------------------------------------------------------------------------
(* The firmware                                                            *)

\* ready = host_ready()
ReadStatus ==
    /\ pc = "status"
    /\ ready' = status
    /\ pc' = "sync"
    /\ UNCHANGED <<rxVars, txVars, boxVars, hostVars, toHost, txBuf,
                   caller, synced, nsSent>>

\* Mutant of SyncVrings: it is not limited to the first ready round.
SyncVringsAlways ==
    /\ pc = "sync"
    /\ IF ready
         THEN rxLastAvail' = rxAvailIdx /\ synced' = TRUE
         ELSE UNCHANGED <<rxLastAvail, synced>>
    /\ pc' = "ns"
    /\ UNCHANGED <<rxAvailIdx, rxAvailRing, rxUsedIdx, rxUsedRing, rxPc,
                   rxDesc, rxLastUsed, rxDrvPc, rxFree, rxLost>>
    /\ UNCHANGED <<txVars, boxVars, hostVars, toHost, txBuf,
                   caller, ready, nsSent>>

\* Once the host is ready the firmware starts from where avail->idx is now.
SyncVrings ==
    /\ pc = "sync"
    /\ IF ready /\ ~synced
         THEN rxLastAvail' = rxAvailIdx /\ synced' = TRUE
         ELSE UNCHANGED <<rxLastAvail, synced>>
    /\ pc' = "ns"
    /\ UNCHANGED <<rxAvailIdx, rxAvailRing, rxUsedIdx, rxUsedRing, rxPc,
                   rxDesc, rxLastUsed, rxDrvPc, rxFree, rxLost>>
    /\ UNCHANGED <<txVars, boxVars, hostVars, toHost, txBuf,
                   caller, ready, nsSent>>

\* rpmsg_send_ns is tried in every round until it succeeds ...
SendNS ==
    /\ pc = "ns"
    /\ ready /\ ~nsSent
    /\ Tx!SeeAvail
    /\ caller' = "ns"
    /\ pc' = "send"
    /\ UNCHANGED <<rxVars, boxVars, hostVars, toHost, txBuf,
                   ready, synced, nsSent>>

\* Mutant of SkipNS: the announcement counts as sent when it was not.
SkipNSForGood ==
    /\ pc = "ns"
    /\ ~ready \/ nsSent \/ txLastAvail = txAvailIdx
    /\ nsSent' = TRUE
    /\ pc' = "poll"
    /\ UNCHANGED <<rxVars, txVars, boxVars, hostVars, toHost, txBuf,
                   caller, ready, synced>>

\* ... and fails while the host has posted no TX buffer.
SkipNS ==
    /\ pc = "ns"
    /\ ~ready \/ nsSent \/ txLastAvail = txAvailIdx
    /\ pc' = "poll"
    /\ UNCHANGED <<rxVars, txVars, boxVars, hostVars, toHost, txBuf,
                   caller, ready, synced, nsSent>>

\* rpmsg_sendto takes the TX buffer it saw,
SendTake ==
    /\ pc = "send"
    /\ Tx!TakeAvail
    /\ UNCHANGED <<rxVars, boxVars, hostVars, fwVars, toHost, txBuf>>

\* Mutant of SendFill: the frame is not copied into the buffer.
SendFillNothing ==
    /\ pc = "send"
    /\ Tx!WriteUsed
    /\ UNCHANGED <<rxVars, boxVars, hostVars, fwVars, toHost, txBuf>>

\* writes header and payload into it and fills the used slot,
SendFill ==
    /\ pc = "send"
    /\ Tx!WriteUsed
    /\ txBuf' = [txBuf EXCEPT ![txDesc] =
                    IF caller = "ns" THEN NS ELSE rxBuf[rxDesc].id]
    /\ UNCHANGED <<rxVars, boxVars, hostVars, fwVars, toHost>>

\* Mutant of SendPublish: rpmsg_sendto leaves the kick out.
SendPublishQuietly ==
    /\ pc = "send"
    /\ Tx!PublishUsed
    /\ pc' = IF caller = "ns" THEN "poll" ELSE "return"
    /\ nsSent' = (nsSent \/ caller = "ns")
    /\ UNCHANGED <<rxVars, boxVars, hostVars, toHost, txBuf,
                   caller, ready, synced>>

\* publishes it and goes on to kick the host.
SendPublish ==
    /\ pc = "send"
    /\ Tx!PublishUsed
    /\ pc' = "kick"
    /\ UNCHANGED <<rxVars, boxVars, hostVars, toHost, txBuf,
                   caller, ready, synced, nsSent>>

\* Mutant of AfterKick: process_host_messages handles one message per kick.
AfterKickOnce ==
    CASE caller = "ns"   -> "poll"
      [] caller = "echo" -> "return"
      [] caller = "rx"   -> "status"

\* Where msgbox_kick_host returns to
AfterKick ==
    CASE caller = "ns"   -> "poll"
      [] caller = "echo" -> "return"
      [] caller = "rx"   -> "rx"

KickVq == IF caller = "ns" THEN 0 ELSE vqid

\* Mutant of KickStatus: one too many words fit.
KickStatusOffByOne ==
    /\ pc = "kick"
    /\ IF Len(toHost) > FifoDepth
         THEN pc' = AfterKick /\ nsSent' = (nsSent \/ caller = "ns")
         ELSE pc' = "kickWrite" /\ UNCHANGED nsSent
    /\ UNCHANGED <<rxVars, txVars, boxVars, hostVars, toHost, txBuf,
                   caller, ready, synced>>

\* msgbox_kick_host reads MSG_STATUS; a kick that finds the FIFO full is
\* dropped.
KickStatus ==
    /\ pc = "kick"
    /\ IF Len(toHost) >= FifoDepth
         THEN pc' = AfterKick /\ nsSent' = (nsSent \/ caller = "ns")
         ELSE pc' = "kickWrite" /\ UNCHANGED nsSent
    /\ UNCHANGED <<rxVars, txVars, boxVars, hostVars, toHost, txBuf,
                   caller, ready, synced>>

\* Mutant of KickWrite: writes dst (RPMSG_NS_ADDR) where vqid belongs.
KickWriteDst ==
    /\ pc = "kickWrite"
    /\ toHost' = Append(toHost, 53)
    /\ pc' = AfterKick
    /\ nsSent' = (nsSent \/ caller = "ns")
    /\ UNCHANGED <<rxVars, txVars, boxVars, hostVars, txBuf,
                   caller, ready, synced>>

KickWrite ==
    /\ pc = "kickWrite"
    /\ toHost' = Append(toHost, KickVq)
    /\ pc' = AfterKick
    /\ nsSent' = (nsSent \/ caller = "ns")
    /\ UNCHANGED <<rxVars, txVars, boxVars, hostVars, txBuf,
                   caller, ready, synced>>

\* msgbox_poll
PollStatus ==
    /\ pc = "poll"
    /\ Box!PollStatus
    /\ UNCHANGED <<rxVars, txVars, hostVars, fwVars, toHost, txBuf>>

PollMiss ==
    /\ pc = "poll"
    /\ Box!DiscardRead
    /\ pc' = "status"
    /\ UNCHANGED <<rxVars, txVars, hostVars, toHost, txBuf,
                   caller, ready, synced, nsSent>>

PollTake ==
    /\ pc = "poll"
    /\ Box!TakeRead
    /\ UNCHANGED <<rxVars, txVars, hostVars, fwVars, toHost, txBuf>>

\* Mutant of PollHit: only a kick that says vqid 1 is served.
PollHitRxOnly ==
    /\ pc = "poll"
    /\ Box!ClearPending
    /\ pc' = IF ready /\ vqid = 1 THEN "rx" ELSE "status"
    /\ UNCHANGED <<rxVars, txVars, hostVars, toHost, txBuf,
                   caller, ready, synced, nsSent>>

\* A kick is served only if the host was ready at the top of this round.
PollHit ==
    /\ pc = "poll"
    /\ Box!ClearPending
    /\ pc' = IF ready THEN "rx" ELSE "status"
    /\ UNCHANGED <<rxVars, txVars, hostVars, toHost, txBuf,
                   caller, ready, synced, nsSent>>

\* process_host_messages: the while condition
RxSee ==
    /\ pc = "rx"
    /\ Rx!SeeAvail
    /\ UNCHANGED <<txVars, boxVars, hostVars, fwVars, toHost, txBuf>>

RxTake ==
    /\ pc = "rx"
    /\ Rx!TakeAvail
    /\ pc' = "message"
    /\ UNCHANGED <<txVars, boxVars, hostVars, toHost, txBuf,
                   caller, ready, synced, nsSent>>

RxEmpty ==
    /\ pc = "rx"
    /\ rxPc = "idle"
    /\ rxLastAvail = rxAvailIdx
    /\ pc' = "status"
    /\ UNCHANGED <<rxVars, txVars, boxVars, hostVars, toHost, txBuf,
                   caller, ready, synced, nsSent>>

\* A buffer outside the shared memory ends the loop, taken and not returned.
RxInvalid ==
    /\ pc = "message"
    /\ rxBuf[rxDesc].kind = "bad"
    /\ Rx!Abandon
    /\ pc' = "status"
    /\ UNCHANGED <<txVars, boxVars, hostVars, toHost, txBuf,
                   caller, ready, synced, nsSent>>

\* Mutant of RxEcho: rpmsg_sendto does not look whether there is a buffer.
RxEchoUnchecked ==
    /\ pc = "message"
    /\ rxBuf[rxDesc].kind = "data"
    /\ txPc = "idle"
    /\ txPc' = "seen"
    /\ caller' = "echo"
    /\ pc' = "send"
    /\ UNCHANGED <<txAvailIdx, txAvailRing, txUsedIdx, txUsedRing, txLastAvail,
                   txDesc, txLastUsed, txDrvPc, txFree, txLost>>
    /\ UNCHANGED <<rxVars, boxVars, hostVars, toHost, txBuf,
                   ready, synced, nsSent>>

\* A payload is echoed through the TX vring ...
RxEcho ==
    /\ pc = "message"
    /\ rxBuf[rxDesc].kind = "data"
    /\ Tx!SeeAvail
    /\ caller' = "echo"
    /\ pc' = "send"
    /\ UNCHANGED <<rxVars, boxVars, hostVars, toHost, txBuf,
                   ready, synced, nsSent>>

\* ... unless it has no buffer, and then the echo is not made at all.
RxNoEcho ==
    /\ pc = "message"
    /\ \/ rxBuf[rxDesc].kind = "empty"
       \/ rxBuf[rxDesc].kind = "data" /\ txLastAvail = txAvailIdx
    /\ pc' = "return"
    /\ UNCHANGED <<rxVars, txVars, boxVars, hostVars, toHost, txBuf,
                   caller, ready, synced, nsSent>>

\* The RX buffer goes back to the host, who is kicked.
RxReturn ==
    /\ pc = "return"
    /\ Rx!WriteUsed
    /\ UNCHANGED <<txVars, boxVars, hostVars, fwVars, toHost, txBuf>>

RxPublish ==
    /\ pc = "return"
    /\ Rx!PublishUsed
    /\ caller' = "rx"
    /\ pc' = "kick"
    /\ UNCHANGED <<txVars, boxVars, hostVars, toHost, txBuf,
                   ready, synced, nsSent>>

Firmware ==
    \/ ReadStatus \/ SyncVrings \/ SendNS \/ SkipNS
    \/ SendTake \/ SendFill \/ SendPublish \/ KickStatus \/ KickWrite
    \/ PollStatus \/ PollMiss \/ PollTake \/ PollHit
    \/ RxSee \/ RxTake \/ RxEmpty \/ RxInvalid \/ RxEcho \/ RxNoEcho
    \/ RxReturn \/ RxPublish

-----------------------------------------------------------------------------
(* The host's receiving side                                               *)

\* The virtio probe posts every TX buffer, ...
ProbePost ==
    /\ recvPc = "probe"
    /\ (\E d \in Desc : d = Num - Cardinality(txFree) /\ Tx!AddAvail(d))
         \/ Tx!PublishAvail
    /\ UNCHANGED <<rxVars, boxVars, fwVars, hostVars, toHost, txBuf>>

\* ... sets DRIVER_OK, and kicks the TX vring.
ProbeDone ==
    /\ recvPc = "probe"
    /\ txFree = {} /\ txDrvPc = "idle"
    /\ status' = TRUE
    /\ recvPc' = "kick"
    /\ UNCHANGED <<rxVars, txVars, boxVars, fwVars, toHost, txBuf,
                   sendPc, posted, received, rxBuf>>

RecvKick ==
    /\ recvPc = "kick"
    /\ Box!Kick(0)
    /\ recvPc' = "idle"
    /\ UNCHANGED <<rxVars, txVars, fwVars, toHost, txBuf,
                   sendPc, posted, received, status, rxBuf>>

\* A kick from the firmware, for either vring, makes it look at the TX vring.
Interrupt ==
    /\ recvPc = "idle"
    /\ toHost # <<>>
    /\ toHost' = Tail(toHost)
    /\ recvPc' = "drain"
    /\ UNCHANGED <<rxVars, txVars, boxVars, fwVars, txBuf,
                   sendPc, posted, received, status, rxBuf>>

\* It takes the frames one by one, posts each buffer again,
Receive ==
    /\ recvPc = "drain"
    /\ Tx!GetUsed
    /\ received' = Append(received, txBuf[txUsedRing[Tx!Slot(txLastUsed)]])
    /\ recvPc' = "repost"
    /\ UNCHANGED <<rxVars, boxVars, fwVars, toHost, txBuf,
                   sendPc, posted, status, rxBuf>>

Repost ==
    /\ recvPc = "repost"
    /\ \/ /\ \E d \in Desc : Tx!AddAvail(d)
          /\ UNCHANGED recvPc
       \/ /\ Tx!PublishAvail
          /\ recvPc' = "more"
    /\ UNCHANGED <<rxVars, boxVars, fwVars, toHost, txBuf,
                   sendPc, posted, received, status, rxBuf>>

More ==
    /\ recvPc = "more"
    /\ txLastUsed # txUsedIdx
    /\ recvPc' = "drain"
    /\ UNCHANGED <<rxVars, txVars, boxVars, fwVars, toHost, txBuf,
                   sendPc, posted, received, status, rxBuf>>

\* and kicks the TX vring if there were any.
DrainDone ==
    /\ recvPc \in {"drain", "more"}
    /\ txLastUsed = txUsedIdx
    /\ recvPc' = IF recvPc = "drain" THEN "idle" ELSE "kick"
    /\ UNCHANGED <<rxVars, txVars, boxVars, fwVars, toHost, txBuf,
                   sendPc, posted, received, status, rxBuf>>

HostRecv ==
    \/ ProbePost \/ ProbeDone \/ RecvKick \/ Interrupt
    \/ Receive \/ Repost \/ More \/ DrainDone

-----------------------------------------------------------------------------
(* The host's sending side                                                 *)

\* The channel exists once the announcement has arrived.
Announced == received # <<>>

SendMessage ==
    /\ sendPc = "idle"
    /\ Announced
    /\ posted < MaxMsgs
    /\ \E d \in Desc, k \in Kinds :
         /\ Rx!AddAvail(d)
         /\ rxBuf' = [rxBuf EXCEPT ![d] = [id |-> posted + 1, kind |-> k]]
    /\ posted' = posted + 1
    /\ sendPc' = "publish"
    /\ UNCHANGED <<txVars, boxVars, fwVars, toHost, txBuf,
                   recvPc, received, status>>

PublishMessage ==
    /\ sendPc = "publish"
    /\ Rx!PublishAvail
    /\ sendPc' = "kick"
    /\ UNCHANGED <<txVars, boxVars, fwVars, toHost, txBuf,
                   recvPc, posted, received, status, rxBuf>>

SendKick ==
    /\ sendPc = "kick"
    /\ Box!Kick(1)
    /\ sendPc' = "idle"
    /\ UNCHANGED <<rxVars, txVars, fwVars, toHost, txBuf,
                   recvPc, posted, received, status, rxBuf>>

\* Buffers that came back are picked up when the next one is needed.
Reclaim ==
    /\ sendPc = "idle"
    /\ Rx!GetUsed
    /\ UNCHANGED <<txVars, boxVars, fwVars, hostVars, toHost, txBuf>>

HostSend == SendMessage \/ PublishMessage \/ SendKick \/ Reclaim

-----------------------------------------------------------------------------
Next == Firmware \/ HostRecv \/ HostSend

Spec == Init /\ [][Next]_vars

\* The firmware never stops polling.  Linux goes on with what it started;
\* whether it sends anything is its own business.
Fairness ==
    /\ WF_vars(Firmware)
    /\ WF_vars(HostRecv)
    /\ WF_vars(PublishMessage)
    /\ WF_vars(SendKick)

FairSpec == Spec /\ Fairness

-----------------------------------------------------------------------------
(* Properties                                                              *)

\* Every variable has its type.
ServiceTypeOK ==
    /\ toHost \in Seq(VqId)
    /\ status \in BOOLEAN
    /\ rxBuf \in [Desc -> Message \cup {NoMessage}]
    /\ txBuf \in [Desc -> 0 .. MaxMsgs]
    /\ pc \in {"status", "sync", "ns", "send", "kick", "kickWrite", "poll",
               "rx", "message", "return"}
    /\ caller \in {"ns", "echo", "rx"}
    /\ ready \in BOOLEAN
    /\ synced \in BOOLEAN
    /\ nsSent \in BOOLEAN
    /\ sendPc \in {"idle", "publish", "kick"}
    /\ recvPc \in {"probe", "kick", "idle", "drain", "repost", "more"}
    /\ posted \in 0 .. MaxMsgs
    /\ received \in Seq(0 .. MaxMsgs)

TypeOK == Rx!TypeOK /\ Tx!TypeOK /\ Box!TypeOK /\ ServiceTypeOK

\* Starting from the host's current avail->idx (main.c:486) skips no message,
\* and all the firmware and the host do to vr_rx are steps of one vring: so
\* what is shown of Vring holds for it.
RxIsVring == Rx!Spec

\* The same for vr_tx, which rpmsg_sendto uses for two purposes.
TxIsVring == Tx!Spec

\* The host gets the announcement first and once, then echoes of messages it
\* sent, in the order it sent them, none of them twice: no TX buffer is read
\* before its frame is complete, no RX buffer is echoed from after the host
\* has it back.
InOrder ==
    /\ received # <<>> => received[1] = NS
    /\ \A i \in 1 .. Len(received) - 1 : received[i] < received[i + 1]
    /\ \A i \in 1 .. Len(received) : received[i] <= posted

\* Check-then-write of msgbox_kick_host never writes to a full FIFO, although
\* the host reads it in between.
NoFifoOverflow == Len(toHost) <= FifoDepth

\* The firmware is on the way from publishing a frame to kicking for it.
AboutToKick == pc \in {"kick", "kickWrite"} /\ caller \in {"ns", "echo"}

\* A dropped kick loses no frame: while a frame waits in the used ring of
\* vr_tx the host is looking, or a kick for it is queued or on its way.
HostWillLook ==
    txLastUsed # txUsedIdx =>
        \/ AboutToKick
        \/ toHost # <<>>
        \/ recvPc \in {"drain", "repost", "more"}

\* The firmware is somewhere in process_host_messages.
Processing ==
    \/ pc \in {"rx", "message", "return"}
    \/ pc \in {"send", "kick", "kickWrite"} /\ caller \in {"echo", "rx"}

\* A message waits in vr_rx only while something will make the firmware
\* look: its kick is still to come, the pending bit is set, or the loop over
\* the messages has not ended.  The word the firmware discards without a
\* pending bit (main.c:215) and the bit it clears after the read
\* (main.c:220) take none of these away.
FirmwareWillLook ==
    rxLastAvail # rxAvailIdx =>
        sendPc = "kick" \/ pending \/ Processing

\* After every kick msgbox_poll returns 1, although it discards words and clears
\* the bit for several at once.
KickAnswered == Box!KickAnswered

\* Messages the firmware has returned or given up
Handled == posted - Rx!Dist(rxLastAvail, rxAvailIdx)
             - Cardinality(Rx!Held) - (IF sendPc = "publish" THEN 1 ELSE 0)

\* Every message the host sends is taken from the ring and its buffer given
\* back, whatever kicks were merged, discarded or dropped.
MessageReturned ==
    \A n \in 1 .. MaxMsgs : posted >= n ~> Handled >= n

\* A frame in the used ring of vr_tx
Frames == {txBuf[d] : d \in Tx!Returned}

\* Every frame the firmware publishes reaches the host.
FrameReceived ==
    \A n \in 0 .. MaxMsgs :
        n \in Frames ~> \E i \in 1 .. Len(received) : received[i] = n

\* Every ready host gets the announcement.
Announcement == status ~> Announced
=============================================================================
