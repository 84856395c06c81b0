------------------------------ MODULE UsbMass ------------------------------
(***************************************************************************)
(* The mass storage function of drivers/usb/module/usb_mass.c on top of    *)
(* UsbController, and the host it serves.  sunxi_mass_state_loop runs in   *)
(* the main loop for ever; one call of it is a few steps here, because a   *)
(* bus reset, whose handler calls sunxi_mass_reset, may come between any   *)
(* two of them.                                                            *)
(*                                                                         *)
(* Commands are told apart by what the code does with them:                *)
(*   "test"      no data: TEST UNIT READY, VERIFY, PREVENT REMOVAL         *)
(*   "fixed"     data from a constant table: INQUIRY, REQUEST SENSE        *)
(*   "built"     data built in base_send_buffer: MODE SENSE, the two       *)
(*               READ CAPACITYs                                            *)
(*   "read"      READ of one packet       "readMany"   of two              *)
(*   "write"     WRITE                                                     *)
(*   "other"     any other, of which the host expects data                 *)
(*   "otherOut"  any other, to which the host sends data                   *)
(***************************************************************************)
EXTENDS UsbController, Functions

CONSTANTS
    Ops,        \* the commands the host sends, some of the above
    Reliable,   \* those it sends again after a reset, none it must give up undisturbed
    Tags,       \* command tags, reused once no copy of one is left
    None,       \* no command, no answer
    MaxEarly,   \* bound: resets by a host the device is not keeping waiting
    MaxOthers   \* bound: control requests during bulk traffic

ASSUME MassAssumption ==
    /\ Ops \subseteq {"test", "fixed", "built", "read", "readMany", "write", "other", "otherOut"}
    /\ None \notin Ops
    /\ Reliable \subseteq Ops \ {"readMany", "write"}

VARIABLES
    status,     \* sunxi_usb_mass_status
    pc,         \* where sunxi_mass_state_loop is
    csw,        \* its static csw
    send,       \* act_send_buffer and send_size, as the chunks they stand for
    sendBuf,    \* what base_send_buffer holds
    phase,      \* what the host is doing
    want,       \* the command it wants answered
    tag,        \* its tag
    got,        \* the packets received in its data phase
    answer,     \* the answer to the last command
    early, others,   \* history, and bounds: disturbances so far
    strayed     \* history: the host sent data the device did not ask for

loopVars == <<status, pc, csw, send, sendBuf>>
hostVars == <<phase, want, tag, got, answer, early, others, strayed>>
vars == <<usbVars, loopVars, hostVars>>

IDLE == "idle"
SETUP == "setup"
SEND_DATA == "senddata"
RECEIVE_DATA == "receive"
STATUS == "status"

\* Packets the host expects, and commands it follows with a packet of data
Packets(o) == CASE o \in {"fixed", "built", "read", "other"} -> 1
                [] o = "readMany" -> 2
                [] OTHER -> 0
OutOps == {"write", "otherOut"}

Block(content, n) == [kind |-> "data", of |-> content, n |-> n]
Csw == [kind |-> "csw", of |-> csw.tag, n |-> csw.status]
Cbw(o, t) == [kind |-> "cbw", of |-> t, op |-> o]
OutData == [kind |-> "out"]

Init ==
    /\ UsbInit
    /\ status = IDLE
    /\ pc = "top"
    /\ csw = [tag |-> None, status |-> 0]
    /\ send = <<>>
    /\ sendBuf = None
    /\ phase = "reset"
    /\ want = None /\ tag = None
    /\ got = <<>> /\ answer = None
    /\ early = 0 /\ others = 0 /\ strayed = FALSE

-----------------------------------------------------------------------------
(* sunxi_usb_irq with sunxi_mass_reset                                     *)

\* Mistaken: the state machine goes on where it was.
MassResetNot == UNCHANGED status

MassReset == status' = IDLE

Irq ==
    /\ \/ IrqReset /\ MassReset
       \/ IrqEndpoints /\ UNCHANGED status
    /\ UNCHANGED <<pc, csw, send, sendBuf, hostVars>>

-----------------------------------------------------------------------------
(* sunxi_mass_state_loop                                                   *)

At(place) == pc = place /\ writer = "off" /\ pend = {}

\* The switch, with IDLE's test of rx_ready_for_data
Dispatch ==
    /\ At("top")
    /\ \/ status = IDLE /\ rxReady /\ pc' = "accept"
       \/ status = SETUP /\ pc' = "check"
       \/ status = SEND_DATA /\ pc' = "moveOn"
       \/ status = STATUS /\ pc' = "finish"
    /\ UNCHANGED <<usbVars, status, csw, send, sendBuf, hostVars>>

Accept ==
    /\ At("accept")
    /\ status' = SETUP
    /\ pc' = "top"
    /\ UNCHANGED <<usbVars, csw, send, sendBuf, hostVars>>

\* A packet that is not a CBW, by its length or its signature
Reject ==
    /\ At("check") /\ rxReq.kind # "cbw"
    /\ rxReady' = FALSE
    /\ status' = IDLE
    /\ pc' = "top"
    /\ UNCHANGED <<fifos, address, rxReq, dma, write, epind, pend, ep0, faddr,
                   csw, send, sendBuf, hostVars>>

CopyTag ==
    /\ At("check") /\ rxReq.kind = "cbw"
    /\ csw' = [csw EXCEPT !.tag = rxReq.of]
    /\ pc' = "decode"
    /\ UNCHANGED <<usbVars, status, send, sendBuf, hostVars>>

\* What a command leaves: the state to enter, the data and the status
Decoded(next, chunks, buffer, code) ==
    /\ pc' = next
    /\ send' = chunks
    /\ sendBuf' = buffer
    /\ csw' = [csw EXCEPT !.status = code]

Buffered(o, content) == [i \in 1 .. Packets(o) |-> Block(content, i)]

\* Mistaken: a failed read is not reported.
DecodeReadQuiet(o) ==
    \E done \in BOOLEAN :
        LET content == IF done THEN o ELSE sendBuf IN
        Decoded(SEND_DATA, Buffered(o, content), content, 0)

\* sdmmc_blk_read may fail: the buffer is sent all the same.
DecodeRead(o) ==
    \/ Decoded(SEND_DATA, Buffered(o, o), o, 0)
    \/ Decoded(SEND_DATA, Buffered(o, sendBuf), sendBuf, 1)

Decode ==
    /\ At("decode")
    /\ LET o == rxReq.op IN
       \/ o = "test" /\ Decoded(STATUS, send, sendBuf, 0)
       \/ /\ o \in {"fixed", "built"}
          /\ Decoded(SEND_DATA, Buffered(o, o), IF o = "built" THEN o ELSE sendBuf, 0)
       \/ o \in {"read", "readMany"} /\ DecodeRead(o)
       \/ o = "write" /\ Decoded(RECEIVE_DATA, send, sendBuf, csw.status)
       \/ o \in {"other", "otherOut"} /\ Decoded(STATUS, send, sendBuf, 1)
    /\ dma' = (dma \/ rxReq.op = "write")
    /\ UNCHANGED <<fifos, address, rxReady, rxReq, write, epind, pend, ep0, faddr,
                   status, hostVars>>

\* The assignment to sunxi_usb_mass_status that ends SETUP
Commit ==
    /\ pc \in {SEND_DATA, RECEIVE_DATA, STATUS} /\ writer = "off" /\ pend = {}
    /\ status' = pc
    /\ pc' = "top"
    /\ UNCHANGED <<usbVars, csw, send, sendBuf, hostVars>>

\* SEND_DATA moves on before it sends,
MoveOn ==
    /\ At("moveOn")
    /\ status' = STATUS
    /\ pc' = "sendData"
    /\ UNCHANGED <<usbVars, csw, send, sendBuf, hostVars>>

SendDataStep ==
    /\ At("sendData")
    /\ SendData(send)
    /\ pc' = "top"
    /\ UNCHANGED <<status, csw, send, sendBuf, hostVars>>

\* and so does STATUS, with the buffer free at once.
Finish ==
    /\ At("finish")
    /\ status' = IDLE
    /\ rxReady' = FALSE
    /\ pc' = "sendCsw"
    /\ UNCHANGED <<fifos, address, rxReq, dma, write, epind, pend, ep0, faddr,
                   csw, send, sendBuf, hostVars>>

SendCsw ==
    /\ At("sendCsw")
    /\ SendData(<<Csw>>)
    /\ pc' = "top"
    /\ UNCHANGED <<status, csw, send, sendBuf, hostVars>>

StateLoop ==
    \/ Dispatch \/ Accept \/ Reject \/ CopyTag \/ Decode \/ Commit
    \/ MoveOn \/ SendDataStep \/ Finish \/ SendCsw
    \/ WriteStep /\ UNCHANGED <<loopVars, hostVars>>

-----------------------------------------------------------------------------
(* The host: a bulk-only transport driver and the enumeration of a bus     *)

Enumerating == {"reset", "described", "addressed", "applied", "configured"}
Commanding == {"command", "out", "data", "status"}

TagsInUse ==
    {csw.tag} \union
    {p.of : p \in {q \in {rxReq} \union Range(rxFifo) : q.kind = "cbw"}} \union
    {c.of : c \in Range(left) \union Range(txLoad) \union UNION {Range(p) : p \in Range(txQueue)}}

\* Tags go up in turn: here, to the first one no copy of which is left.
FreshTag == CHOOSE t \in Tags : t \notin TagsInUse

Send(o) ==
    /\ Tags \ TagsInUse # {}
    /\ want' = o
    /\ tag' = FreshTag
    /\ got' = <<>>
    /\ answer' = None
    /\ phase' = "command"

Submit(o) ==
    /\ phase = "idle"
    /\ Send(o)
    /\ UNCHANGED <<usbVars, loopVars, early, others, strayed>>

SendCbw ==
    /\ phase = "command"
    /\ PacketOut(Cbw(want, tag))
    /\ phase' = IF want \in OutOps THEN "out"
                ELSE IF Packets(want) > 0 THEN "data" ELSE "status"
    /\ UNCHANGED <<loopVars, want, tag, got, answer, early, others, strayed>>

SendOut ==
    /\ phase = "out"
    /\ PacketOut(OutData)
    /\ phase' = "status"
    /\ strayed' = (strayed \/ want # "write")
    /\ UNCHANGED <<loopVars, want, tag, got, answer, early, others>>

IsCsw(p) == Len(p) = 1 /\ p[1].kind = "csw"
IsBlock(p) == Len(p) = 1 /\ p[1].kind = "data"

\* The data phase ends with the last packet, or with an empty one.
ReceiveData ==
    /\ phase = "data"
    /\ PacketIn /\ Len(Head(txQueue)) <= 1 /\ ~IsCsw(Head(txQueue))
    /\ got' = Append(got, Head(txQueue))
    /\ phase' = IF Len(got') < Packets(want) /\ IsBlock(Head(txQueue))
                  THEN "data" ELSE "status"
    /\ UNCHANGED <<loopVars, want, tag, answer, early, others, strayed>>

\* A CSW for the command, also in place of the data
ReceiveCsw ==
    /\ phase \in {"data", "status"}
    /\ PacketIn /\ IsCsw(Head(txQueue)) /\ Head(txQueue)[1].of = tag
    /\ answer' = [data |-> got, status |-> Head(txQueue)[1].n]
    /\ phase' = "idle"
    /\ want' = None /\ tag' = None /\ got' = <<>>
    /\ UNCHANGED <<loopVars, early, others, strayed>>

ResetDevice ==
    /\ BusReset
    /\ phase' = "reset"
    /\ got' = <<>>
    /\ UNCHANGED <<loopVars, want, tag, answer, others, strayed>>

\* The main loop can do no more without the host.
DeviceWaits ==
    /\ pend = {} /\ ~(dma /\ rxFifo # <<>>)
    /\ \/ pc = "top" /\ writer = "off"
          /\ status \in {RECEIVE_DATA, IDLE} /\ (status = IDLE => ~rxReady)
       \/ writer = "spin" /\ epind = 1 /\ txQueue # <<>>

\* Anything else where the CSW should be, or more data than was asked for:
\* the host's error handling begins when the device has come to a stop.
WrongPacket ==
    /\ \/ phase = "status" /\ txQueue # <<>> /\ ~IsCsw(Head(txQueue))
       \/ phase = "data" /\ txQueue # <<>> /\ Len(Head(txQueue)) > 1
       \/ /\ phase \in {"data", "status"} /\ txQueue # <<>>
          /\ IsCsw(Head(txQueue)) /\ Head(txQueue)[1].of # tag
    /\ DeviceWaits
    /\ ResetDevice
    /\ UNCHANGED early

\* Nothing more comes from the device, nothing more goes into it: the host's
\* timeout of many seconds
Timeout ==
    /\ DeviceWaits
    /\ \/ phase \in {"command", "out"} /\ Len(rxFifo) = FifoDepth
       \/ phase \in {"data", "status"} /\ txQueue = <<>>
    /\ ResetDevice
    /\ UNCHANGED early

\* A reset at any other time: unplugged, or a command aborted
EarlyReset ==
    /\ early < MaxEarly
    /\ phase # "reset"
    /\ early' = early + 1
    /\ ResetDevice

\* Another program asks for a descriptor.
OtherRequest ==
    /\ others < MaxOthers
    /\ phase \notin Enumerating
    /\ Control("descriptor", Address)
    /\ others' = others + 1
    /\ UNCHANGED <<loopVars, phase, want, tag, got, answer, early, strayed>>

Request(from, req, at, to) ==
    /\ phase = from
    /\ Control(req, at)
    /\ phase' = to

\* Enumeration: the host waits for the answer to each request.
Enumerate ==
    /\ \/ Request("reset", "descriptor", 0, "described")
       \/ Request("described", "address", 0, "addressed")
       \/ Request("addressed", "none", 0, "applied")
       \/ Request("applied", "configuration", Address, "configured")
    /\ UNCHANGED <<loopVars, want, tag, got, answer, early, others, strayed>>

\* The command that was interrupted is sent again, or given up.  A reset and
\* an enumeration take a fraction of a second, in which the main loop ends
\* what it was doing.
Configured ==
    /\ phase = "configured" /\ DeviceWaits
    /\ IF want \in Reliable
         THEN Send(want)
         ELSE phase' = "idle" /\ want' = None /\ tag' = None /\ UNCHANGED <<got, answer>>
    /\ UNCHANGED <<usbVars, loopVars, early, others, strayed>>

HostStep == SendCbw \/ SendOut \/ ReceiveData \/ ReceiveCsw \/ WrongPacket \/ Timeout
            \/ Enumerate \/ Configured

-----------------------------------------------------------------------------
Next ==
    \/ Irq
    \/ StateLoop
    \/ DmaTake /\ UNCHANGED <<loopVars, hostVars>>
    \/ \E o \in Ops : Submit(o)
    \/ HostStep
    \/ EarlyReset
    \/ OtherRequest

\* An interrupt is taken, the main loop runs for ever, a started DMA and a
\* host that waits go on.  Nothing makes the host submit a command.
Fairness ==
    /\ WF_vars(Irq)
    /\ WF_vars(StateLoop)
    /\ WF_vars(DmaTake /\ UNCHANGED <<loopVars, hostVars>>)
    /\ WF_vars(HostStep)

Spec == Init /\ [][Next]_vars /\ Fairness

-----------------------------------------------------------------------------
(* Properties                                                              *)

Calm == early = 0 /\ others = 0 /\ ~strayed

Content == Ops \union {None}
Chunk == [kind : {"data"}, of : Content, n : {1, 2}]
         \union [kind : {"csw"}, of : Tags \union {None}, n : {0, 1}]
BulkOut == [kind : {"cbw"}, of : Tags, op : Ops] \union {OutData}

FifosOK ==
    /\ rxFifo \in Seq(BulkOut) /\ Len(rxFifo) <= FifoDepth
    /\ txLoad \in Seq(Chunk) /\ txQueue \in Seq(Seq(Chunk))

RegistersOK ==
    /\ epind \in {0, 1}
    /\ pend \subseteq Interrupts
    /\ ep0 \in Requests
    /\ faddr \in {0, Address}

SourceOK ==
    /\ address \in {0, Address}
    /\ rxReady \in BOOLEAN
    /\ rxReq \in BulkOut \union {NoPacket}
    /\ dma \in BOOLEAN

WriterOK ==
    /\ writer \in {"off", "select", "load", "ready", "spin"}
    /\ left \in Seq(Chunk)
    /\ saved \in {0, 1}

LoopOK ==
    /\ status \in {IDLE, SETUP, SEND_DATA, RECEIVE_DATA, STATUS}
    /\ pc \in {"top", "accept", "check", "decode", SEND_DATA, RECEIVE_DATA, STATUS,
               "moveOn", "sendData", "finish", "sendCsw"}
    /\ csw \in [tag : Tags \union {None}, status : {0, 1}]
    /\ send \in Seq(Chunk)
    /\ sendBuf \in Content

HostOK ==
    /\ phase \in Enumerating \union Commanding \union {"idle"}
    /\ want \in Content
    /\ tag \in Tags \union {None}
    /\ phase = "command" => want \in Ops /\ tag \in Tags
    /\ got \in Seq(Seq(Chunk))

\* Type invariant of the device and its host.
TypeOK == FifosOK /\ RegistersOK /\ SourceOK /\ WriterOK /\ LoopOK /\ HostOK

\* The right answers: data of the command itself and status 0, or status 1
\* from a command that may fail.  A device that knows no such command as "other"
\* sends no data, but the host may take for them what was left in the FIFO.
Right(o) ==
    LET data == [i \in 1 .. Packets(o) |-> <<Block(o, i)>>] IN
    CASE o \in {"test", "fixed", "built"} -> {[data |-> data, status |-> 0]}
      [] o \in {"read", "readMany"} ->
            {[data |-> data, status |-> 0]} \union
            {[data |-> [i \in 1 .. Packets(o) |-> <<Block(c, i)>>], status |-> 1] : c \in Content}
      [] o = "other" ->
            {[data |-> d, status |-> 1] :
                d \in {<<>>} \union {<<<<Block(c, n)>>>> : c \in Content, n \in {1, 2}}}
      [] OTHER -> {[data |-> <<>>, status |-> 1]}

\* Every command the device answers is answered rightly, with the data of
\* that command (usb_mass.c:730 sends its buffer even after a failed read);
\* and without disturbance the host need not reset it for one of Reliable.
Device == INSTANCE BulkOnly WITH
    op <- IF phase \in Commanding THEN want ELSE None, calm <- Calm, Right <- Right
ImplementsBulkOnly == Device!Spec

\* The command being decoded is not overwritten: the state machine reads it
\* in the receive buffer itself, and neither an early packet nor the command
\* after a reset may arrive there before it is done (usb_mass.c:602).
CommandKept == [][(pc \in {"check", "decode"}) => UNCHANGED rxReq]_vars

\* Whatever resets, control requests and stray packets came before, a
\* command of Reliable is answered in the end: the device recovers.  And no
\* command, WRITE in its state without exit included, keeps the host for ever.
Answered ==
    /\ \A o \in Reliable : want = o ~> want = None /\ answer # None
    /\ Device!Ends
=============================================================================
