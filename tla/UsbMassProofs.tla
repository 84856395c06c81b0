--------------------------- MODULE UsbMassProofs ---------------------------
(***************************************************************************)
(* Proofs about the mass storage device and its host, for any commands,    *)
(* tags and numbers of disturbances: type correctness, that the command in *)
(* the receive buffer is not overwritten while it is decoded, and that     *)
(* the device implements BulkOnly.  The refinement takes four invariants:  *)
(*   ShapeInv    the places of the loop, the writer and the host agree     *)
(*   CommandInv  no more than one command is in the device, the host's     *)
(*   Answering   what is still to come is a right answer                   *)
(*   CalmInv     the course of a command nothing has disturbed             *)
(***************************************************************************)
EXTENDS UsbMass, TLAPS, WellFoundedInduction, SequenceTheorems

\* A reset that is pending is the host's last act.
ResetIsLast ==
    /\ "reset" \in pend => phase = "reset"
    /\ phase \in Enumerating => rxFifo = <<>>

\* While the state machine sends, it has left SETUP.
SendsAfterSetup ==
    /\ writer # "off" => pc = "top"
    /\ pc \in {"sendData", "sendCsw"} \/ writer # "off" => status \in {IDLE, STATUS}

\* From the moment the buffer was found full to the end of SETUP it is full,
\* unless the host resets the device.
BufferHeld ==
    phase \notin Enumerating =>
        (pc \in {"accept", "check", "decode"} \/ status = SETUP => rxReady)

DecodesCbw == pc = "decode" => rxReq.kind = "cbw"

IInv == TypeOK /\ ResetIsLast /\ SendsAfterSetup /\ BufferHeld /\ DecodesCbw

-----------------------------------------------------------------------------
(* Types                                                                   *)

LEMMA AppendType ==
    ASSUME NEW S, NEW s \in Seq(S), NEW e \in S PROVE Append(s, e) \in Seq(S)
OBVIOUS

LEMMA BlockType == ASSUME NEW c \in Content, NEW n \in {1, 2} PROVE Block(c, n) \in Chunk
BY DEF Block, Chunk

LEMMA CswType == ASSUME LoopOK PROVE Csw \in Chunk
<1>. csw.tag \in Tags \union {None} /\ csw.status \in {0, 1}
  BY DEF LoopOK
<1>. QED BY DEF Csw, Chunk

LEMMA CbwType ==
    ASSUME SourceOK, rxReq.kind = "cbw"
    PROVE  rxReq.of \in Tags /\ rxReq.op \in Ops
<1>1. rxReq \in [kind : {"cbw"}, of : Tags, op : Ops]
  BY DEF SourceOK, BulkOut, OutData, NoPacket
<1>. QED BY <1>1

LEMMA BufferedType ==
    ASSUME NEW o \in Ops, NEW c \in Content PROVE Buffered(o, c) \in Seq(Chunk)
<1>1. Packets(o) \in 0 .. 2
  BY DEF Packets
<1>2. \A i \in 1 .. Packets(o) : Block(c, i) \in Chunk
  <2>. SUFFICES ASSUME NEW i \in 1 .. Packets(o) PROVE Block(c, i) \in Chunk
    OBVIOUS
  <2>. i \in {1, 2}
    BY <1>1
  <2>. QED BY BlockType
<1>. QED BY <1>1, <1>2 DEF Buffered

LEMMA FreshTagType == Tags \ TagsInUse # {} => FreshTag \in Tags
BY DEF FreshTag

\* What an action leaves alone keeps its type.
LEMMA FifosSame == FifosOK /\ UNCHANGED fifos => FifosOK'
BY DEF FifosOK, fifos
LEMMA SourceSame == SourceOK /\ UNCHANGED source => SourceOK'
BY DEF SourceOK, source
LEMMA WriterSame == WriterOK /\ UNCHANGED write => WriterOK'
BY DEF WriterOK, write
LEMMA LoopSame == LoopOK /\ UNCHANGED loopVars => LoopOK'
BY DEF LoopOK, loopVars
LEMMA HostSame == HostOK /\ UNCHANGED hostVars => HostOK'
BY DEF HostOK, hostVars
LEMMA UsbSame ==
    FifosOK /\ RegistersOK /\ SourceOK /\ WriterOK /\ UNCHANGED usbVars
        => FifosOK' /\ RegistersOK' /\ SourceOK' /\ WriterOK'
BY FifosSame, SourceSame, WriterSame DEF usbVars, RegistersOK

LEMMA InitType == Init => TypeOK
<1>. SUFFICES ASSUME Init PROVE TypeOK
  OBVIOUS
<1>. USE DEF Init, UsbInit
<1>1. FifosOK
  BY DEF FifosOK, FifoDepth
<1>2. RegistersOK
  BY DEF RegistersOK, Interrupts, Requests
<1>3. SourceOK
  BY DEF SourceOK
<1>4. WriterOK
  BY DEF WriterOK
<1>5. LoopOK
  BY DEF LoopOK, Content
<1>6. HostOK
  BY DEF HostOK, Content, Enumerating
<1>. QED BY <1>1, <1>2, <1>3, <1>4, <1>5, <1>6 DEF TypeOK

LEMMA IrqType == TypeOK /\ Irq => TypeOK'
<1>. SUFFICES ASSUME TypeOK, Irq PROVE TypeOK'
  OBVIOUS
<1>1. FifosOK /\ RegistersOK /\ SourceOK /\ WriterOK /\ LoopOK /\ HostOK
  BY DEF TypeOK
<1>2. HostOK'
  BY <1>1, HostSame DEF Irq
<1>3. CASE IrqReset /\ MassReset
  <2>1. FifosOK' /\ WriterOK'
    BY <1>1, <1>3, FifosSame, WriterSame DEF IrqReset
  <2>2. RegistersOK'
    BY <1>1, <1>3 DEF IrqReset, RegistersOK
  <2>3. SourceOK'
    BY <1>1, <1>3 DEF IrqReset, SourceOK
  <2>4. LoopOK'
    BY <1>1, <1>3 DEF Irq, MassReset, LoopOK
  <2>. QED BY <2>1, <2>2, <2>3, <2>4, <1>2 DEF TypeOK
<1>4. CASE IrqEndpoints /\ UNCHANGED status
  <2>1. WriterOK' /\ LoopOK'
    BY <1>1, <1>4, WriterSame, LoopSame DEF Irq, IrqEndpoints, loopVars
  <2>2. RegistersOK'
    <3>1. epind' \in {0, 1} /\ pend' \subseteq Interrupts
      BY <1>4 DEF IrqEndpoints, IrqIndex, Interrupts
    <3>2. ep0' \in Requests
      BY <1>1, <1>4 DEF IrqEndpoints, Ep0RecvOp, RegistersOK, Requests
    <3>3. faddr' \in {0, Address}
      BY <1>1, <1>4 DEF IrqEndpoints, Ep0RecvOp, RegistersOK, SourceOK
    <3>. QED BY <3>1, <3>2, <3>3 DEF RegistersOK
  <2>3. address' \in {0, Address} /\ txLoad' \in Seq(Chunk) /\ txQueue' \in Seq(Seq(Chunk))
    <3>1. address' \in {0, Address}
      BY <1>1, <1>4 DEF IrqEndpoints, Ep0RecvOp, SourceOK
    <3>2. \/ UNCHANGED <<txLoad, txQueue>>
          \/ txLoad' = <<>> /\ txQueue' = <<>>
      BY <1>4 DEF IrqEndpoints, Ep0RecvOp
    <3>3. CASE UNCHANGED <<txLoad, txQueue>>
      BY <1>1, <3>1, <3>3 DEF FifosOK
    <3>4. CASE txLoad' = <<>> /\ txQueue' = <<>>
      BY <3>1, <3>4
    <3>. QED BY <3>2, <3>3, <3>4
  <2>4. /\ rxFifo' \in Seq(BulkOut) /\ Len(rxFifo') <= FifoDepth
        /\ rxReq' \in BulkOut \union {NoPacket} /\ rxReady' \in BOOLEAN
    <3>. USE <1>1 DEF FifosOK, SourceOK, FifoDepth
    <3>1. CASE UNCHANGED <<rxReq, rxFifo, rxReady>>
      BY <3>1
    <3>2. CASE rxFifo' = <<>> /\ UNCHANGED <<rxReq, rxReady>>
      BY <3>2
    <3>3. CASE /\ rxFifo # <<>>
               /\ rxReq' = Head(rxFifo) /\ rxFifo' = Tail(rxFifo) /\ rxReady' = TRUE
      BY <3>3
    <3>. QED BY <1>4, <3>1, <3>2, <3>3 DEF IrqEndpoints, EprxRecvOp, TakesPacket
  <2>5. FifosOK' /\ SourceOK'
    BY <1>1, <1>4, <2>3, <2>4 DEF IrqEndpoints, FifosOK, SourceOK
  <2>. QED BY <2>1, <2>2, <2>5, <1>2 DEF TypeOK
<1>. QED BY <1>3, <1>4 DEF Irq

LEMMA WriteType == TypeOK /\ WriteStep /\ UNCHANGED <<loopVars, hostVars>> => TypeOK'
<1>. SUFFICES ASSUME TypeOK, WriteStep, UNCHANGED <<loopVars, hostVars>> PROVE TypeOK'
  OBVIOUS
<1>1. FifosOK /\ RegistersOK /\ SourceOK /\ WriterOK /\ LoopOK /\ HostOK
  BY DEF TypeOK
<1>2. LoopOK' /\ HostOK'
  BY <1>1, LoopSame, HostSame
<1>3. SourceOK'
  BY <1>1, SourceSame DEF WriteStep, SelectBulkIn, LoadPacket, MarkReady, PacketSent, WriteDone
<1>4. RegistersOK'
  BY <1>1 DEF WriteStep, SelectBulkIn, LoadPacket, MarkReady, PacketSent, WriteDone,
              RegistersOK, WriterOK
<1>5. WriterOK'
  BY <1>1 DEF WriteStep, SelectBulkIn, LoadPacket, MarkReady, PacketSent, WriteDone,
              RegistersOK, WriterOK
<1>6. FifosOK'
  <2>1. CASE UNCHANGED fifos
    BY <2>1, <1>1, FifosSame
  <2>2. CASE LoadPacket
    BY <2>2, <1>1 DEF LoadPacket, FifosOK, WriterOK
  <2>3. CASE MarkReady
    <3>1. CASE epind = 1
      <4>1. rxFifo' = rxFifo /\ txQueue' = Append(txQueue, txLoad) /\ txLoad' = <<>>
        BY <2>3, <3>1 DEF MarkReady
      <4>2. txQueue' \in Seq(Seq(Chunk))
        BY <1>1, <4>1, AppendType DEF FifosOK
      <4>. QED BY <1>1, <4>1, <4>2 DEF FifosOK
    <3>2. CASE epind # 1
      BY <2>3, <3>2, <1>1, FifosSame DEF MarkReady, fifos
    <3>. QED BY <3>1, <3>2
  <2>. QED BY <2>1, <2>2, <2>3 DEF WriteStep, SelectBulkIn, PacketSent, WriteDone
<1>. QED BY <1>2, <1>3, <1>4, <1>5, <1>6 DEF TypeOK

LEMMA LoopType == TypeOK /\ DecodesCbw /\ StateLoop => TypeOK'
<1>. SUFFICES ASSUME TypeOK, DecodesCbw, StateLoop PROVE TypeOK'
  OBVIOUS
<1>1. FifosOK /\ RegistersOK /\ SourceOK /\ WriterOK /\ LoopOK /\ HostOK
  BY DEF TypeOK
<1>2. CASE WriteStep /\ UNCHANGED <<loopVars, hostVars>>
  BY <1>2, WriteType
<1>3. CASE Dispatch \/ Accept \/ Commit \/ MoveOn
  <2>1. FifosOK' /\ RegistersOK' /\ SourceOK' /\ WriterOK' /\ HostOK'
    BY <1>1, <1>3, UsbSame, HostSame DEF Dispatch, Accept, Commit, MoveOn
  <2>2. LoopOK'
    BY <1>1, <1>3 DEF Dispatch, Accept, Commit, MoveOn, LoopOK
  <2>. QED BY <2>1, <2>2 DEF TypeOK
<1>4. CASE Reject \/ Finish
  <2>1. FifosOK' /\ WriterOK' /\ HostOK'
    BY <1>1, <1>4, FifosSame, WriterSame, HostSame DEF Reject, Finish
  <2>2. RegistersOK' /\ SourceOK'
    BY <1>1, <1>4 DEF Reject, Finish, RegistersOK, SourceOK
  <2>3. LoopOK'
    BY <1>1, <1>4 DEF Reject, Finish, LoopOK
  <2>. QED BY <2>1, <2>2, <2>3 DEF TypeOK
<1>5. CASE CopyTag
  <2>1. FifosOK' /\ RegistersOK' /\ SourceOK' /\ WriterOK' /\ HostOK'
    BY <1>1, <1>5, UsbSame, HostSame DEF CopyTag
  <2>2. rxReq.of \in Tags
    BY <1>1, <1>5, CbwType DEF CopyTag
  <2>3. LoopOK'
    BY <1>1, <1>5, <2>2 DEF CopyTag, LoopOK
  <2>. QED BY <2>1, <2>3 DEF TypeOK
<1>6. CASE Decode
  <2>1. FifosOK' /\ WriterOK' /\ HostOK'
    BY <1>1, <1>6, FifosSame, WriterSame, HostSame DEF Decode
  <2>2. RegistersOK' /\ SourceOK'
    BY <1>1, <1>6 DEF Decode, RegistersOK, SourceOK
  <2>3. rxReq.op \in Ops
    BY <1>1, <1>6, CbwType DEF Decode, At, DecodesCbw
  <2>4. ASSUME NEW next \in {SEND_DATA, RECEIVE_DATA, STATUS}, NEW chunks \in Seq(Chunk),
               NEW buffer \in Content, NEW code \in {0, 1},
               Decoded(next, chunks, buffer, code), UNCHANGED status
        PROVE  LoopOK'
    BY <2>4, <1>1 DEF Decoded, LoopOK
  <2>5. /\ \A c \in Content : Buffered(rxReq.op, c) \in Seq(Chunk)
        /\ rxReq.op \in Content /\ sendBuf \in Content /\ send \in Seq(Chunk)
        /\ csw.status \in {0, 1}
    BY <2>3, <1>1, BufferedType DEF Content, LoopOK
  <2>6. UNCHANGED status
    BY <1>6 DEF Decode
  <2>7. LoopOK'
    <3>1. CASE \E code \in {0, 1} : Decoded(STATUS, send, sendBuf, code)
      BY <3>1, <2>4, <2>5, <2>6
    <3>2. CASE Decoded(RECEIVE_DATA, send, sendBuf, csw.status)
      BY <3>2, <2>4, <2>5, <2>6
    <3>3. CASE \E c \in Content : \E b \in Content : \E code \in {0, 1} :
                  Decoded(SEND_DATA, Buffered(rxReq.op, c), b, code)
      BY <3>3, <2>4, <2>5, <2>6
    <3>4. CASE DecodeRead(rxReq.op)
      BY <3>4, <3>3, <2>5 DEF DecodeRead
    <3>5. CASE Decoded(SEND_DATA, Buffered(rxReq.op, rxReq.op),
                       IF rxReq.op = "built" THEN rxReq.op ELSE sendBuf, 0)
      <4>. DEFINE b == IF rxReq.op = "built" THEN rxReq.op ELSE sendBuf
      <4>1. b \in Content
        BY <2>5
      <4>. HIDE DEF b
      <4>2. Decoded(SEND_DATA, Buffered(rxReq.op, rxReq.op), b, 0)
        BY <3>5 DEF b
      <4>. QED BY <4>1, <4>2, <3>3, <2>5
    <3>. QED BY <1>6, <3>1, <3>2, <3>4, <3>5 DEF Decode
  <2>. QED BY <2>1, <2>2, <2>7 DEF TypeOK
<1>7. CASE SendDataStep \/ SendCsw
  <2>1. FifosOK' /\ HostOK'
    BY <1>1, <1>7, FifosSame, HostSame DEF SendDataStep, SendCsw, SendData
  <2>2. RegistersOK' /\ SourceOK'
    BY <1>1, <1>7 DEF SendDataStep, SendCsw, SendData, RegistersOK, SourceOK
  <2>3. LoopOK'
    BY <1>1, <1>7 DEF SendDataStep, SendCsw, LoopOK
  <2>4. <<Csw>> \in Seq(Chunk) /\ send \in Seq(Chunk)
    BY <1>1, CswType DEF LoopOK
  <2>5. WriterOK'
    BY <1>1, <1>7, <2>4 DEF SendDataStep, SendCsw, SendData, WriterOK
  <2>. QED BY <2>1, <2>2, <2>3, <2>5 DEF TypeOK
<1>. QED BY <1>2, <1>3, <1>4, <1>5, <1>6, <1>7 DEF StateLoop

LEMMA PacketOutType ==
    ASSUME FifosOK, RegistersOK, SourceOK, WriterOK, NEW p \in BulkOut, PacketOut(p)
    PROVE  FifosOK' /\ RegistersOK' /\ SourceOK' /\ WriterOK'
<1>1. SourceOK' /\ WriterOK'
  BY SourceSame, WriterSame DEF PacketOut
<1>2. RegistersOK'
  BY DEF PacketOut, RegistersOK, Interrupts
<1>3. rxFifo' \in Seq(BulkOut) /\ Len(rxFifo') <= FifoDepth
  BY DEF PacketOut, FifosOK, FifoDepth
<1>4. FifosOK'
  BY <1>3 DEF PacketOut, FifosOK
<1>. QED BY <1>1, <1>2, <1>4

LEMMA PacketInType ==
    ASSUME FifosOK, RegistersOK, SourceOK, WriterOK, PacketIn
    PROVE  /\ FifosOK' /\ RegistersOK' /\ SourceOK' /\ WriterOK'
           /\ Head(txQueue) \in Seq(Chunk)
<1>1. SourceOK' /\ WriterOK'
  BY SourceSame, WriterSame DEF PacketIn
<1>2. RegistersOK'
  BY DEF PacketIn, RegistersOK, Interrupts
<1>3. ASSUME NEW S, NEW s \in Seq(S), s # <<>> PROVE Head(s) \in S /\ Tail(s) \in Seq(S)
  BY <1>3
<1>4. txQueue' \in Seq(Seq(Chunk)) /\ Head(txQueue) \in Seq(Chunk)
  BY <1>3 DEF PacketIn, FifosOK
<1>5. FifosOK'
  BY <1>4 DEF PacketIn, FifosOK
<1>. QED BY <1>1, <1>2, <1>4, <1>5

LEMMA ControlType ==
    ASSUME FifosOK, RegistersOK, SourceOK, WriterOK, NEW r \in Requests, NEW a, Control(r, a)
    PROVE  FifosOK' /\ RegistersOK' /\ SourceOK' /\ WriterOK'
<1>1. FifosOK' /\ SourceOK' /\ WriterOK'
  BY FifosSame, SourceSame, WriterSame DEF Control
<1>2. RegistersOK'
  BY DEF Control, RegistersOK, Interrupts
<1>. QED BY <1>1, <1>2

LEMMA ResetType == ASSUME TypeOK, ResetDevice PROVE TypeOK'
<1>1. FifosOK /\ RegistersOK /\ SourceOK /\ WriterOK /\ LoopOK /\ HostOK
  BY DEF TypeOK
<1>2. SourceOK' /\ WriterOK' /\ LoopOK'
  BY <1>1, SourceSame, WriterSame, LoopSame DEF ResetDevice, BusReset
<1>3. FifosOK'
  BY <1>1 DEF ResetDevice, BusReset, FifosOK, FifoDepth
<1>4. RegistersOK'
  BY <1>1 DEF ResetDevice, BusReset, RegistersOK, Interrupts, Requests
<1>5. HostOK'
  BY <1>1 DEF ResetDevice, HostOK, Enumerating
<1>. QED BY <1>2, <1>3, <1>4, <1>5 DEF TypeOK

LEMMA SendType ==
    ASSUME NEW o \in Ops, Send(o)
    PROVE  HostOK'
<1>1. tag' \in Tags /\ want' = o /\ got' = <<>> /\ phase' = "command"
  BY FreshTagType DEF Send
<1>. QED BY <1>1 DEF HostOK, Commanding, Content

LEMMA HostType ==
    TypeOK /\ (HostStep \/ EarlyReset \/ OtherRequest \/ \E o \in Ops : Submit(o)) => TypeOK'
<1>. SUFFICES ASSUME TypeOK PROVE
        HostStep \/ EarlyReset \/ OtherRequest \/ (\E o \in Ops : Submit(o)) => TypeOK'
  OBVIOUS
<1>1. FifosOK /\ RegistersOK /\ SourceOK /\ WriterOK /\ LoopOK /\ HostOK
  BY DEF TypeOK
<1>2. ASSUME NEW o \in Ops, Submit(o) PROVE TypeOK'
  <2>1. FifosOK' /\ RegistersOK' /\ SourceOK' /\ WriterOK' /\ LoopOK'
    BY <1>1, <1>2, UsbSame, LoopSame DEF Submit
  <2>2. HostOK'
    BY <1>2, SendType DEF Submit
  <2>. QED BY <2>1, <2>2 DEF TypeOK
<1>3. ASSUME SendCbw PROVE TypeOK'
  <2>1. want \in Ops /\ tag \in Tags /\ UNCHANGED <<want, tag, got>>
    BY <1>1, <1>3 DEF SendCbw, HostOK
  <2>2. Cbw(want, tag) \in BulkOut
    BY <2>1 DEF Cbw, BulkOut
  <2>3. FifosOK' /\ RegistersOK' /\ SourceOK' /\ WriterOK' /\ LoopOK'
    BY <1>1, <1>3, <2>2, PacketOutType, LoopSame DEF SendCbw
  <2>4. phase' \in {"out", "data", "status"}
    BY <1>3 DEF SendCbw
  <2>5. HostOK'
    BY <1>1, <2>1, <2>4 DEF HostOK, Commanding
  <2>. QED BY <2>3, <2>5 DEF TypeOK
<1>4. ASSUME SendOut PROVE TypeOK'
  <2>1. FifosOK' /\ RegistersOK' /\ SourceOK' /\ WriterOK' /\ LoopOK'
    BY <1>1, <1>4, PacketOutType, LoopSame DEF SendOut, BulkOut
  <2>2. HostOK'
    BY <1>1, <1>4 DEF SendOut, HostOK, Commanding
  <2>. QED BY <2>1, <2>2 DEF TypeOK
<1>5. ASSUME ReceiveData PROVE TypeOK'
  <2>1. FifosOK' /\ RegistersOK' /\ SourceOK' /\ WriterOK' /\ LoopOK'
    BY <1>1, <1>5, PacketInType, LoopSame DEF ReceiveData
  <2>2. got' \in Seq(Seq(Chunk))
    BY <1>1, <1>5, PacketInType, AppendType DEF ReceiveData, HostOK
  <2>3. phase' \in {"data", "status"} /\ UNCHANGED <<want, tag>>
    BY <1>5 DEF ReceiveData
  <2>4. HostOK'
    BY <1>1, <2>2, <2>3 DEF HostOK, Commanding
  <2>. QED BY <2>1, <2>4 DEF TypeOK
<1>6. ASSUME ReceiveCsw PROVE TypeOK'
  <2>1. FifosOK' /\ RegistersOK' /\ SourceOK' /\ WriterOK' /\ LoopOK'
    BY <1>1, <1>6, PacketInType, LoopSame DEF ReceiveCsw
  <2>2. HostOK'
    BY <1>6 DEF ReceiveCsw, HostOK, Content
  <2>. QED BY <2>1, <2>2 DEF TypeOK
<1>7. ASSUME WrongPacket \/ Timeout \/ EarlyReset PROVE TypeOK'
  BY <1>7, ResetType DEF WrongPacket, Timeout, EarlyReset
<1>8. ASSUME Enumerate PROVE TypeOK'
  <2>1. PICK r \in Requests, a \in {0, Address} : Control(r, a)
    BY <1>8 DEF Enumerate, Request, Requests
  <2>2. FifosOK' /\ RegistersOK' /\ SourceOK' /\ WriterOK' /\ LoopOK'
    BY <1>1, <1>8, <2>1, ControlType, LoopSame DEF Enumerate
  <2>3. phase' \in Enumerating /\ UNCHANGED <<want, tag, got>>
    BY <1>8 DEF Enumerate, Request, Enumerating
  <2>4. HostOK'
    BY <1>1, <2>3 DEF HostOK, Enumerating
  <2>. QED BY <2>2, <2>4 DEF TypeOK
<1>9. ASSUME Configured PROVE TypeOK'
  <2>1. FifosOK' /\ RegistersOK' /\ SourceOK' /\ WriterOK' /\ LoopOK'
    BY <1>1, <1>9, UsbSame, LoopSame DEF Configured
  <2>2. CASE want \in Reliable
    BY <1>9, <2>1, <2>2, SendType, MassAssumption DEF Configured, TypeOK
  <2>3. CASE want \notin Reliable
    <3>1. HostOK'
      BY <1>1, <1>9, <2>3 DEF Configured, HostOK, Content
    <3>. QED BY <2>1, <3>1 DEF TypeOK
  <2>. QED BY <2>2, <2>3
<1>10. ASSUME OtherRequest PROVE TypeOK'
  <2>1. FifosOK' /\ RegistersOK' /\ SourceOK' /\ WriterOK' /\ LoopOK'
    BY <1>1, <1>10, ControlType, LoopSame DEF OtherRequest, Requests
  <2>2. HostOK'
    BY <1>1, <1>10 DEF OtherRequest, HostOK
  <2>. QED BY <2>1, <2>2 DEF TypeOK
<1>. QED BY <1>2, <1>3, <1>4, <1>5, <1>6, <1>7, <1>8, <1>9, <1>10 DEF HostStep

LEMMA DmaType == TypeOK /\ DmaTake /\ UNCHANGED <<loopVars, hostVars>> => TypeOK'
<1>. SUFFICES ASSUME TypeOK, DmaTake, UNCHANGED <<loopVars, hostVars>> PROVE TypeOK'
  OBVIOUS
<1>1. FifosOK /\ RegistersOK /\ SourceOK /\ WriterOK /\ LoopOK /\ HostOK
  BY DEF TypeOK
<1>2. WriterOK' /\ LoopOK' /\ HostOK'
  BY <1>1, WriterSame, LoopSame, HostSame DEF DmaTake
<1>3. RegistersOK' /\ SourceOK'
  BY <1>1 DEF DmaTake, RegistersOK, SourceOK, Interrupts
<1>4. rxFifo' \in Seq(BulkOut) /\ Len(rxFifo') <= FifoDepth
  BY <1>1 DEF DmaTake, FifosOK, FifoDepth
<1>5. FifosOK'
  BY <1>1, <1>4 DEF DmaTake, FifosOK
<1>. QED BY <1>2, <1>3, <1>5 DEF TypeOK

LEMMA TypeStep == TypeOK /\ DecodesCbw /\ [Next]_vars => TypeOK'
<1>. SUFFICES ASSUME TypeOK, DecodesCbw, [Next]_vars PROVE TypeOK'
  OBVIOUS
<1>1. CASE UNCHANGED vars
  BY <1>1, UsbSame, LoopSame, HostSame DEF TypeOK, vars
<1>2. CASE Next
  BY <1>2, IrqType, LoopType, DmaType, HostType DEF Next
<1>. QED BY <1>1, <1>2

-----------------------------------------------------------------------------
(* The buffer is held while SETUP lasts                                    *)

LEMMA InitInv == Init => IInv
<1>. SUFFICES ASSUME Init PROVE IInv
  OBVIOUS
<1>1. TypeOK
  BY InitType
<1>2. ResetIsLast /\ SendsAfterSetup /\ BufferHeld /\ DecodesCbw
  BY DEF Init, UsbInit, ResetIsLast, SendsAfterSetup, BufferHeld, DecodesCbw, Enumerating,
         IDLE, SETUP
<1>. QED BY <1>1, <1>2 DEF IInv

LEMMA ResetIsLastStep == TypeOK /\ ResetIsLast /\ [Next]_vars => ResetIsLast'
<1>. SUFFICES ASSUME TypeOK, ResetIsLast, [Next]_vars PROVE ResetIsLast'
  OBVIOUS
<1>. USE DEF ResetIsLast
<1>1. CASE UNCHANGED <<phase, pend, rxFifo>>
  BY <1>1
<1>2. CASE Irq
  <2>1. pend' \subseteq {"rx"} /\ UNCHANGED phase
    BY <1>2 DEF Irq, IrqReset, IrqEndpoints, hostVars
  <2>2. rxFifo = <<>> => rxFifo' = <<>>
    BY <1>2 DEF Irq, IrqReset, IrqEndpoints, EprxRecvOp, TakesPacket, fifos
  <2>. QED BY <2>1, <2>2
<1>3. CASE DmaTake /\ UNCHANGED <<loopVars, hostVars>>
  BY <1>3 DEF DmaTake, hostVars
<1>4. CASE SendCbw \/ SendOut
  <2>1. phase \in {"command", "out"} /\ phase' \in {"out", "data", "status"}
    BY <1>4 DEF SendCbw, SendOut
  <2>2. pend' \subseteq pend \union {"rx"}
    BY <1>4 DEF SendCbw, SendOut, PacketOut
  <2>. QED BY <2>1, <2>2 DEF Enumerating
<1>5. CASE ReceiveData \/ ReceiveCsw
  <2>1. phase \in {"data", "status"} /\ phase' \in {"data", "status", "idle"}
    BY <1>5 DEF ReceiveData, ReceiveCsw
  <2>2. pend' = pend \union {"tx"}
    BY <1>5 DEF ReceiveData, ReceiveCsw, PacketIn
  <2>. QED BY <2>1, <2>2 DEF Enumerating
<1>6. CASE WrongPacket \/ Timeout \/ EarlyReset
  BY <1>6 DEF WrongPacket, Timeout, EarlyReset, ResetDevice, BusReset
<1>7. CASE Enumerate \/ OtherRequest
  BY <1>7 DEF Enumerate, OtherRequest, Request, Control, Enumerating, fifos
<1>8. CASE Configured \/ \E o \in Ops : Submit(o)
  <2>1. phase' \in {"idle", "command"} /\ UNCHANGED pend
    BY <1>8 DEF Configured, Submit, Send, usbVars
  <2>2. phase \in {"idle", "configured"}
    BY <1>8 DEF Configured, Submit
  <2>. QED BY <2>1, <2>2 DEF Enumerating
<1>9. CASE StateLoop
  BY <1>9, <1>1 DEF StateLoop, Dispatch, Accept, Reject, CopyTag, Decode, Commit, MoveOn,
     SendDataStep, Finish, SendCsw, SendData, WriteStep, SelectBulkIn, LoadPacket, MarkReady,
     PacketSent, WriteDone, usbVars, hostVars, fifos
<1>. QED BY <1>1, <1>2, <1>3, <1>4, <1>5, <1>6, <1>7, <1>8, <1>9
     DEF Next, HostStep, vars, usbVars, hostVars, fifos

LEMMA SendsAfterSetupStep == TypeOK /\ SendsAfterSetup /\ [Next]_vars => SendsAfterSetup'
<1>. SUFFICES ASSUME TypeOK, SendsAfterSetup, [Next]_vars PROVE SendsAfterSetup'
  OBVIOUS
<1>. USE DEF SendsAfterSetup
<1>1. CASE UNCHANGED <<writer, pc, status>>
  BY <1>1
<1>2. CASE Irq
  BY <1>2 DEF Irq, IrqReset, IrqEndpoints, MassReset, write
<1>3. CASE WriteStep /\ UNCHANGED <<loopVars, hostVars>>
  <2>1. writer # "off" /\ UNCHANGED <<pc, status>>
    BY <1>3 DEF WriteStep, SelectBulkIn, LoadPacket, MarkReady, PacketSent, WriteDone, loopVars
  <2>. QED BY <2>1
<1>4. CASE Dispatch \/ Accept \/ Reject \/ CopyTag \/ Decode \/ Commit \/ MoveOn \/ Finish
  <2>1. writer = "off" /\ writer' = "off"
    BY <1>4 DEF Dispatch, Accept, Reject, CopyTag, Decode, Commit, MoveOn, Finish, At, usbVars, write
  <2>2. pc' \in {"sendData", "sendCsw"} => status' \in {IDLE, STATUS}
    BY <1>4 DEF Dispatch, Accept, Reject, CopyTag, Decode, Decoded, DecodeRead, Commit, MoveOn,
       Finish, SEND_DATA, RECEIVE_DATA, STATUS
  <2>. QED BY <2>1, <2>2
<1>5. CASE SendDataStep \/ SendCsw
  BY <1>5 DEF SendDataStep, SendCsw, At
<1>6. CASE DmaTake /\ UNCHANGED <<loopVars, hostVars>>
  BY <1>6, <1>1 DEF DmaTake, loopVars, write
<1>7. CASE HostStep \/ EarlyReset \/ OtherRequest \/ \E o \in Ops : Submit(o)
  <2>1. UNCHANGED <<write, loopVars>>
    BY <1>7 DEF HostStep, SendCbw, SendOut, PacketOut, ReceiveData, ReceiveCsw, PacketIn, WrongPacket,
       Timeout, EarlyReset, ResetDevice, BusReset, Enumerate, Request, Control, OtherRequest,
       Configured, Submit, usbVars
  <2>. QED BY <2>1, <1>1 DEF write, loopVars
<1>. QED BY <1>1, <1>2, <1>3, <1>4, <1>5, <1>6, <1>7
     DEF Next, StateLoop, vars, usbVars, loopVars, write

LEMMA BufferHeldStep == IInv /\ [Next]_vars => BufferHeld'
<1>. SUFFICES ASSUME IInv, [Next]_vars PROVE BufferHeld'
  OBVIOUS
<1>0. TypeOK /\ ResetIsLast /\ SendsAfterSetup /\ BufferHeld
  BY DEF IInv
<1>. USE DEF BufferHeld
<1>1. CASE UNCHANGED <<phase, pc, status, rxReady>>
  BY <1>0, <1>1
<1>2. CASE Irq
  <2>1. CASE IrqReset
    BY <1>0, <1>2, <2>1 DEF ResetIsLast, IrqReset, Irq, hostVars, Enumerating
  <2>2. CASE IrqEndpoints /\ UNCHANGED status
    <3>1. rxReady => rxReady'
      BY <2>2 DEF IrqEndpoints, EprxRecvOp
    <3>. QED BY <1>0, <1>2, <2>2, <3>1 DEF Irq, hostVars
  <2>. QED BY <1>2, <2>1, <2>2 DEF Irq
<1>3. CASE WriteStep /\ UNCHANGED <<loopVars, hostVars>>
  BY <1>0, <1>1, <1>3 DEF WriteStep, SelectBulkIn, LoadPacket, MarkReady, PacketSent, WriteDone,
     source, loopVars, hostVars
<1>4. CASE Dispatch \/ Accept \/ CopyTag \/ Decode
  <2>1. UNCHANGED <<rxReady, phase>>
    BY <1>4 DEF Dispatch, Accept, CopyTag, Decode, usbVars, source, hostVars
  <2>2. \/ pc \in {"accept", "check", "decode"} \/ status = SETUP \/ rxReady
        \/ pc' \notin {"accept", "check", "decode"} /\ UNCHANGED status
    BY <1>4 DEF Dispatch, Accept, CopyTag, Decode, At, IDLE, SETUP
  <2>. QED BY <1>0, <2>1, <2>2
<1>5. CASE Reject \/ Commit \/ MoveOn \/ Finish
  <2>1. status' # SETUP /\ pc' \in {"top", "sendData", "sendCsw"}
    BY <1>5 DEF Reject, Commit, MoveOn, Finish, IDLE, SETUP, SEND_DATA, RECEIVE_DATA, STATUS
  <2>. QED BY <2>1
<1>6. CASE SendDataStep \/ SendCsw
  <2>1. status' # SETUP /\ pc' = "top"
    BY <1>0, <1>6 DEF SendsAfterSetup, SendDataStep, SendCsw, At, IDLE, SETUP, STATUS
  <2>. QED BY <2>1
<1>7. CASE DmaTake /\ UNCHANGED <<loopVars, hostVars>>
  BY <1>7, <1>1 DEF DmaTake, loopVars, hostVars
<1>8. CASE HostStep \/ EarlyReset \/ OtherRequest \/ \E o \in Ops : Submit(o)
  <2>1. UNCHANGED <<rxReady, pc, status>>
    BY <1>8 DEF HostStep, SendCbw, SendOut, PacketOut, ReceiveData, ReceiveCsw, PacketIn, WrongPacket,
       Timeout, EarlyReset, ResetDevice, BusReset, Enumerate, Request, Control, OtherRequest,
       Configured, Submit, usbVars, source, loopVars
  <2>2. CASE Configured
    <3>1. pc # "top" \/ status = SETUP => FALSE
      BY <1>0, <2>2 DEF Configured, DeviceWaits, SendsAfterSetup, IDLE, SETUP, STATUS, RECEIVE_DATA
    <3>. QED BY <2>1, <3>1
  <2>3. CASE Enumerate \/ WrongPacket \/ Timeout \/ EarlyReset
    <3>1. phase' \in Enumerating
      BY <2>3 DEF Enumerate, Request, WrongPacket, Timeout, EarlyReset, ResetDevice, Enumerating
    <3>. QED BY <3>1
  <2>4. CASE OtherRequest
    BY <1>0, <2>1, <2>4 DEF OtherRequest
  <2>5. CASE SendCbw \/ SendOut \/ ReceiveData \/ ReceiveCsw \/ \E o \in Ops : Submit(o)
    <3>1. phase \notin Enumerating
      BY <2>5 DEF SendCbw, SendOut, ReceiveData, ReceiveCsw, Submit, Enumerating
    <3>. QED BY <1>0, <2>1, <3>1
  <2>. QED BY <1>8, <2>2, <2>3, <2>4, <2>5 DEF HostStep
<1>. QED BY <1>1, <1>2, <1>3, <1>4, <1>5, <1>6, <1>7, <1>8
     DEF Next, StateLoop, vars, usbVars, source, loopVars, hostVars

\* Between the test of the length and the end of the switch, nothing writes
\* the receive buffer: an interrupt finds it full.
LEMMA Kept == IInv /\ [Next]_vars => (pc \in {"check", "decode"} => UNCHANGED rxReq)
<1>. SUFFICES ASSUME IInv, [Next]_vars, pc \in {"check", "decode"} PROVE UNCHANGED rxReq
  OBVIOUS
<1>1. CASE UNCHANGED vars
  BY <1>1 DEF vars, usbVars, source
<1>2. CASE Irq
  <2>1. CASE IrqReset
    BY <2>1 DEF IrqReset
  <2>2. CASE IrqEndpoints
    <3>1. CASE phase \in Enumerating
      BY <2>2, <3>1 DEF IInv, ResetIsLast, IrqEndpoints, EprxRecvOp, TakesPacket
    <3>2. CASE rxReady
      BY <2>2, <3>2 DEF IrqEndpoints, EprxRecvOp, TakesPacket
    <3>. QED BY <3>1, <3>2 DEF IInv, BufferHeld
  <2>. QED BY <1>2, <2>1, <2>2 DEF Irq
<1>3. CASE StateLoop
  BY <1>3 DEF StateLoop, Dispatch, Accept, Reject, CopyTag, Decode, Commit, MoveOn,
     SendDataStep, Finish, SendCsw, SendData, WriteStep, SelectBulkIn, LoadPacket, MarkReady,
     PacketSent, WriteDone, usbVars, source
<1>4. CASE DmaTake /\ UNCHANGED <<loopVars, hostVars>>
  BY <1>4 DEF DmaTake
<1>5. CASE HostStep \/ EarlyReset \/ OtherRequest \/ \E o \in Ops : Submit(o)
  BY <1>5 DEF HostStep, SendCbw, SendOut, PacketOut, ReceiveData, ReceiveCsw, PacketIn, WrongPacket,
     Timeout, EarlyReset, ResetDevice, BusReset, Enumerate, Request, Control, OtherRequest,
     Configured, Submit, usbVars, source
<1>. QED BY <1>1, <1>2, <1>3, <1>4, <1>5 DEF Next

LEMMA DecodesCbwStep == IInv /\ [Next]_vars => DecodesCbw'
<1>. SUFFICES ASSUME IInv, [Next]_vars, pc' = "decode" PROVE rxReq'.kind = "cbw"
  BY DEF DecodesCbw
<1>1. pc = "decode" \/ CopyTag
  BY DEF Next, Irq, StateLoop, Dispatch, Accept, Reject, Decode, Decoded, DecodeRead, Commit, MoveOn,
     SendDataStep, Finish, SendCsw, HostStep, SendCbw, SendOut, ReceiveData, ReceiveCsw, WrongPacket,
     Timeout, EarlyReset, ResetDevice, Enumerate, OtherRequest, Configured, Submit, vars, loopVars,
     SEND_DATA, RECEIVE_DATA, STATUS
<1>2. CASE pc = "decode"
  BY <1>2, Kept DEF IInv, DecodesCbw
<1>3. CASE CopyTag
  BY <1>3 DEF CopyTag, usbVars, source
<1>. QED BY <1>1, <1>2, <1>3

LEMMA InvStep == IInv /\ [Next]_vars => IInv'
<1>. SUFFICES ASSUME IInv, [Next]_vars PROVE IInv'
  OBVIOUS
<1>1. TypeOK /\ ResetIsLast /\ SendsAfterSetup /\ DecodesCbw
  BY DEF IInv
<1>2. TypeOK' /\ ResetIsLast' /\ SendsAfterSetup'
  BY <1>1, TypeStep, ResetIsLastStep, SendsAfterSetupStep
<1>3. BufferHeld' /\ DecodesCbw'
  BY BufferHeldStep, DecodesCbwStep
<1>. QED BY <1>2, <1>3 DEF IInv

\* The buffer the driver decodes from is held from the test of
\* rx_ready_for_data to the end of SETUP, in every behaviour.
THEOREM Inductive == Spec => []IInv
<1>. QED BY InitInv, InvStep, PTL DEF Spec

\* Every variable of the device and of its host keeps its type.
THEOREM TypeCorrect == Spec => []TypeOK
<1>1. IInv => TypeOK
  BY DEF IInv
<1>. QED BY <1>1, Inductive, PTL

\* The command that sunxi_mass_state_loop reads in the receive buffer is not
\* overwritten, whatever the host sends and however often it resets.
THEOREM CommandStays == Spec => CommandKept
<1>1. IInv /\ [Next]_vars => [(pc \in {"check", "decode"}) => UNCHANGED rxReq]_vars
  BY Kept
<1>. QED BY <1>1, Inductive, PTL DEF Spec, CommandKept

-----------------------------------------------------------------------------
(* What each side leaves alone                                             *)

HostActs ==
    HostStep \/ EarlyReset \/ OtherRequest \/ \E o \in Ops : Submit(o)

\* The device never touches the host's variables, nor the host the loop's.
LEMMA Frames ==
    /\ Irq \/ StateLoop => UNCHANGED hostVars
    /\ HostActs => UNCHANGED <<loopVars, write, source>>
<1>1. Irq \/ StateLoop => UNCHANGED hostVars
  BY DEF Irq, StateLoop, Dispatch, Accept, Reject, CopyTag, Decode, Commit, MoveOn,
     SendDataStep, Finish, SendCsw
<1>2. HostActs => UNCHANGED <<loopVars, write, source>>
  BY DEF HostActs, HostStep, SendCbw, SendOut, PacketOut, ReceiveData, ReceiveCsw, PacketIn, WrongPacket,
     Timeout, EarlyReset, ResetDevice, BusReset, Enumerate, Request, Control, OtherRequest,
     Configured, Submit, usbVars, loopVars, write, source
<1>. QED BY <1>1, <1>2

\* The loop's steps outside sunxi_usb_send_data, which all wait for it to end.
LoopActs ==
    Dispatch \/ Accept \/ Reject \/ CopyTag \/ Decode \/ Commit \/ MoveOn \/ SendDataStep
    \/ Finish \/ SendCsw

LEMMA LoopFrame ==
    LoopActs => /\ writer = "off" /\ pend = {}
                /\ UNCHANGED <<fifos, epind, pend, ep0, faddr, saved, hostVars>>
BY DEF LoopActs, Dispatch, Accept, Reject, CopyTag, Decode, Commit, MoveOn, SendDataStep,
   Finish, SendCsw, SendData, At, usbVars, fifos, source, write

LEMMA WriteFrame == WriteStep => pend = {} /\ UNCHANGED <<source, rxFifo, pend, ep0, faddr>>
BY DEF WriteStep, SelectBulkIn, LoadPacket, MarkReady, PacketSent, WriteDone, source, fifos

\* Every step is one of these.
LEMMA Steps ==
    [Next]_vars =>
        \/ UNCHANGED vars
        \/ IrqReset /\ MassReset /\ UNCHANGED <<pc, csw, send, sendBuf, hostVars>>
        \/ IrqEndpoints /\ UNCHANGED <<loopVars, hostVars>>
        \/ LoopActs
        \/ WriteStep /\ UNCHANGED <<loopVars, hostVars>>
        \/ DmaTake /\ UNCHANGED <<loopVars, hostVars>>
        \/ HostActs
BY DEF Next, Irq, StateLoop, LoopActs, HostActs, loopVars

\* What happens to the bulk in FIFO and the packet buffer in the handler
LEMMA EndpointFifos ==
    IrqEndpoints =>
        /\ epind' = 0 /\ UNCHANGED <<write, dma>>
        /\ \/ UNCHANGED <<txLoad, txQueue>>
           \/ ep0 = "configuration" /\ txLoad' = <<>> /\ txQueue' = <<>>
        /\ \/ UNCHANGED <<rxReq, rxFifo, rxReady>>
           \/ ep0 = "configuration" /\ rxFifo' = <<>> /\ UNCHANGED <<rxReq, rxReady>>
           \/ /\ rxFifo # <<>> /\ ~rxReady
              /\ rxReq' = Head(rxFifo) /\ rxFifo' = Tail(rxFifo) /\ rxReady' = TRUE
BY DEF IrqEndpoints, Ep0RecvOp, EprxRecvOp, TakesPacket, IrqIndex

-----------------------------------------------------------------------------
(* The places of the loop, of the writer and of a control request          *)

\* The index is that of the control endpoint while nothing is sent, so that
\* sunxi_usb_send_data saves and restores 0; and no packet is empty.
WriterShape ==
    /\ saved = 0
    /\ writer \in {"off", "select"} => epind = 0
    /\ writer = "off" => left = <<>>
    /\ writer = "ready" /\ epind = 1 => txLoad # <<>>
    /\ \A i \in 1 .. Len(txQueue) : txQueue[i] # <<>>

\* Between its places the loop has set the status, unless a reset did.
LoopShape ==
    phase \notin Enumerating =>
        /\ pc \in {"accept", "sendCsw"} => status = IDLE
        /\ pc \in {"check", "decode", SEND_DATA, RECEIVE_DATA, STATUS} => status = SETUP
        /\ pc = "moveOn" => status = SEND_DATA
        /\ pc \in {"sendData", "finish"} => status = STATUS

\* Requests are answered before the host goes on; the buffer is empty after a reset.
ControlShape ==
    /\ ep0 # "none" => "ep0" \in pend /\ "reset" \notin pend
    /\ phase \notin Enumerating => ep0 # "configuration"
    /\ phase \in Enumerating /\ "reset" \notin pend => ~rxReady

LEMMA WriterShapeStep == TypeOK /\ WriterShape /\ [Next]_vars => WriterShape'
<1>. SUFFICES ASSUME TypeOK, WriterShape, [Next]_vars PROVE WriterShape'
  OBVIOUS
<1>. USE DEF WriterShape
<1>0. /\ txQueue \in Seq(Seq(Chunk)) /\ txLoad \in Seq(Chunk) /\ left \in Seq(Chunk)
      /\ epind \in {0, 1}
  BY DEF TypeOK, FifosOK, WriterOK, RegistersOK
<1>1. ASSUME UNCHANGED <<saved, writer, left, epind, txLoad, txQueue>> PROVE WriterShape'
  BY <1>1
<1>2. ASSUME UNCHANGED <<saved, writer, left>>, epind' = 0,
             UNCHANGED txQueue \/ txQueue' = <<>>
      PROVE  WriterShape'
  BY <1>2
<1>3. CASE WriteStep
  <2>1. CASE SelectBulkIn
    BY <2>1 DEF SelectBulkIn, fifos
  <2>2. CASE LoadPacket
    BY <1>0, <2>2 DEF LoadPacket
  <2>3. CASE MarkReady
    <3>1. CASE epind = 1
      <4>1. txLoad # <<>> /\ txQueue' = Append(txQueue, txLoad)
        BY <2>3, <3>1 DEF MarkReady
      <4>2. \A i \in 1 .. Len(txQueue') : txQueue'[i] # <<>>
        BY <1>0, <4>1
      <4>. QED BY <2>3, <4>2 DEF MarkReady
    <3>2. CASE epind # 1
      BY <2>3, <3>2 DEF MarkReady
    <3>. QED BY <3>1, <3>2
  <2>4. CASE PacketSent
    BY <2>4 DEF PacketSent, fifos
  <2>5. CASE WriteDone
    BY <2>5 DEF WriteDone, fifos
  <2>. QED BY <1>3, <2>1, <2>2, <2>3, <2>4, <2>5 DEF WriteStep
<1>4. CASE LoopActs
  <2>1. writer' \in {"off", "select"} /\ (writer' = "off" => UNCHANGED left)
    BY <1>4 DEF LoopActs, Dispatch, Accept, Reject, CopyTag, Decode, Commit, MoveOn, SendDataStep,
       Finish, SendCsw, SendData, At, usbVars, write
  <2>. QED BY <1>4, <2>1, LoopFrame DEF fifos
<1>5. CASE IrqEndpoints
  BY <1>5, <1>2, EndpointFifos DEF write
<1>6. CASE IrqReset
  BY <1>6, <1>2 DEF IrqReset, write, fifos
<1>7. CASE DmaTake
  BY <1>7, <1>1 DEF DmaTake, write
<1>8. CASE HostActs
  <2>1. UNCHANGED write
    BY <1>8, Frames
  <2>2. CASE ReceiveData \/ ReceiveCsw
    <3>1. txQueue' = Tail(txQueue) /\ txQueue # <<>> /\ UNCHANGED <<txLoad, epind>>
      BY <2>2 DEF ReceiveData, ReceiveCsw, PacketIn
    <3>. QED BY <1>0, <2>1, <3>1 DEF write
  <2>3. CASE WrongPacket \/ Timeout \/ EarlyReset
    <3>1. epind' = 0 /\ txQueue' = <<>>
      BY <2>3 DEF WrongPacket, Timeout, EarlyReset, ResetDevice, BusReset
    <3>. QED BY <2>1, <3>1, <1>2 DEF write
  <2>4. CASE SendCbw \/ SendOut \/ Enumerate \/ Configured \/ OtherRequest \/ \E o \in Ops : Submit(o)
    BY <2>1, <2>4, <1>1 DEF SendCbw, SendOut, PacketOut, Enumerate, Request, Control, OtherRequest,
       Configured, Submit, usbVars, write, fifos
  <2>. QED BY <1>8, <2>2, <2>3, <2>4 DEF HostActs, HostStep
<1>. QED BY Steps, <1>1, <1>3, <1>4, <1>5, <1>6, <1>7, <1>8 DEF vars, usbVars, write, fifos

LEMMA LoopShapeStep == IInv /\ LoopShape /\ [Next]_vars => LoopShape'
<1>. SUFFICES ASSUME IInv, LoopShape, [Next]_vars PROVE LoopShape'
  OBVIOUS
<1>. USE DEF LoopShape
<1>1. CASE UNCHANGED <<phase, pc, status>>
  BY <1>1
<1>2. CASE IrqReset /\ UNCHANGED hostVars
  BY <1>2 DEF IInv, ResetIsLast, IrqReset, hostVars, Enumerating
<1>3. CASE LoopActs
  <2>1. UNCHANGED phase
    BY <1>3, LoopFrame DEF hostVars
  <2>2. CASE Dispatch \/ Accept \/ Reject \/ CopyTag \/ Decode
    BY <2>1, <2>2 DEF Dispatch, Accept, Reject, CopyTag, Decode, Decoded, DecodeRead,
       At, IDLE, SETUP, SEND_DATA, RECEIVE_DATA, STATUS
  <2>3. CASE Commit \/ MoveOn \/ SendDataStep \/ Finish \/ SendCsw
    BY <2>1, <2>3 DEF Commit, MoveOn, SendDataStep, Finish, SendCsw,
       At, IDLE, SETUP, SEND_DATA, RECEIVE_DATA, STATUS
  <2>. QED BY <1>3, <2>2, <2>3 DEF LoopActs
<1>4. CASE HostActs
  <2>1. UNCHANGED <<pc, status>>
    BY <1>4, Frames DEF loopVars
  <2>2. CASE Configured
    <3>1. pc = "top"
      BY <2>2 DEF Configured, DeviceWaits, IInv, SendsAfterSetup
    <3>. QED BY <2>1, <3>1 DEF SEND_DATA, RECEIVE_DATA, STATUS
  <2>3. CASE WrongPacket \/ Timeout \/ EarlyReset \/ Enumerate
    BY <2>3 DEF WrongPacket, Timeout, EarlyReset, ResetDevice, Enumerate, Request, Enumerating
  <2>4. CASE SendCbw \/ SendOut \/ ReceiveData \/ ReceiveCsw \/ OtherRequest \/ \E o \in Ops : Submit(o)
    <3>1. phase \notin Enumerating
      BY <2>4 DEF SendCbw, SendOut, ReceiveData, ReceiveCsw, OtherRequest, Submit, Enumerating
    <3>. QED BY <2>1, <3>1
  <2>. QED BY <1>4, <2>2, <2>3, <2>4 DEF HostActs, HostStep
<1>. QED BY Steps, <1>1, <1>2, <1>3, <1>4 DEF vars, loopVars, hostVars

LEMMA ControlShapeStep == IInv /\ ControlShape /\ [Next]_vars => ControlShape'
<1>. SUFFICES ASSUME IInv, ControlShape, [Next]_vars PROVE ControlShape'
  OBVIOUS
<1>0. TypeOK /\ ResetIsLast
  BY DEF IInv
<1>. USE DEF ControlShape
<1>1. ASSUME UNCHANGED <<phase, ep0, pend>>, rxReady' => rxReady PROVE ControlShape'
  BY <1>1
<1>2. CASE IrqReset /\ UNCHANGED hostVars
  BY <1>0, <1>2 DEF IrqReset, hostVars, ResetIsLast, Enumerating
<1>3. CASE IrqEndpoints /\ UNCHANGED hostVars
  <2>1. ep0' = "none"
    BY <1>3 DEF IrqEndpoints, Ep0RecvOp
  <2>2. phase \in Enumerating => ~rxReady'
    BY <1>0, <1>3, EndpointFifos DEF IrqEndpoints, ResetIsLast
  <2>. QED BY <1>3, <2>1, <2>2 DEF hostVars
<1>4. CASE LoopActs
  <2>1. rxReady' => rxReady
    BY <1>4 DEF LoopActs, Dispatch, Accept, Reject, CopyTag, Decode, Commit, MoveOn, SendDataStep,
       Finish, SendCsw, SendData, usbVars, source
  <2>. QED BY <1>4, <2>1, <1>1, LoopFrame DEF hostVars
<1>5. CASE WriteStep /\ UNCHANGED hostVars
  BY <1>5, <1>1, WriteFrame DEF source, hostVars
<1>6. CASE DmaTake /\ UNCHANGED hostVars
  BY <1>6 DEF DmaTake, hostVars
<1>7. CASE HostActs
  <2>1. UNCHANGED rxReady
    BY <1>7, Frames DEF source
  <2>2. CASE SendCbw \/ SendOut \/ ReceiveData \/ ReceiveCsw
    <3>1. /\ phase \notin Enumerating /\ phase' \notin Enumerating
          /\ pend' \in {pend, pend \union {"rx"}, pend \union {"tx"}} /\ UNCHANGED ep0
      BY <2>2 DEF SendCbw, SendOut, ReceiveData, ReceiveCsw, PacketOut, PacketIn, Enumerating
    <3>. QED BY <2>1, <3>1
  <2>3. CASE WrongPacket \/ Timeout \/ EarlyReset
    BY <2>3 DEF WrongPacket, Timeout, EarlyReset, ResetDevice, BusReset, Enumerating
  <2>4. CASE Enumerate
    <3>1. phase' \in Enumerating /\ phase \in Enumerating /\ pend = {} /\ pend' = {"ep0"}
      BY <2>4 DEF Enumerate, Request, Control, Enumerating
    <3>. QED BY <2>1, <3>1
  <2>5. CASE OtherRequest
    BY <2>1, <2>5 DEF OtherRequest, Control
  <2>6. CASE Configured \/ \E o \in Ops : Submit(o)
    <3>1. UNCHANGED <<ep0, pend>>
      BY <2>6 DEF Configured, Submit, usbVars
    <3>2. CASE Configured
      BY <2>1, <3>1, <3>2 DEF Configured, DeviceWaits, Send, Enumerating
    <3>3. CASE \E o \in Ops : Submit(o)
      BY <2>1, <3>1, <3>3 DEF Submit, Send, Enumerating
    <3>. QED BY <2>6, <3>2, <3>3
  <2>. QED BY <1>7, <2>2, <2>3, <2>4, <2>5, <2>6 DEF HostActs, HostStep
<1>. QED BY Steps, <1>1, <1>2, <1>3, <1>4, <1>5, <1>6, <1>7 DEF vars, usbVars, source, hostVars

-----------------------------------------------------------------------------
(* What the host has received                                              *)

Following == {"out", "data", "status"}

\* Only whole blocks, no more of them than the command has, and all of them
\* when the host goes on to the status.
HostShape ==
    /\ phase \in Commanding => want \in Ops
    /\ phase \in {"command", "out"} => got = <<>>
    /\ phase = "out" => want \in OutOps
    /\ phase = "data" => Len(got) < Packets(want)
    /\ phase = "status" => Len(got) = Packets(want)
    /\ \A i \in 1 .. Len(got) : IsBlock(got[i])

LEMMA NotEmpty == ASSUME NEW S, NEW s \in Seq(S), s # <<>> PROVE Len(s) \in Nat \ {0}
OBVIOUS

LEMMA OnlyOne == ASSUME NEW n \in Nat \ {0}, n <= 1 PROVE n = 1
OBVIOUS

LEMMA PacketsRange == ASSUME NEW o PROVE Packets(o) \in 0 .. 2
BY DEF Packets

LEMMA ReceivesBlock ==
    ASSUME TypeOK, WriterShape, ReceiveData PROVE IsBlock(Head(txQueue)) /\ txQueue # <<>>
<1>1. txQueue # <<>> /\ Len(Head(txQueue)) <= 1 /\ ~IsCsw(Head(txQueue))
  BY DEF ReceiveData, PacketIn
<1>2. txQueue \in Seq(Seq(Chunk))
  BY DEF TypeOK, FifosOK
<1>3. Head(txQueue) \in Seq(Chunk) /\ Head(txQueue) # <<>>
  BY <1>1, <1>2 DEF WriterShape
<1>4. Len(Head(txQueue)) = 1 /\ Head(txQueue)[1] \in Chunk
  <2>1. ASSUME NEW p \in Seq(Chunk), p # <<>>, Len(p) <= 1 PROVE Len(p) = 1 /\ p[1] \in Chunk
    <3>1. Len(p) \in Nat \ {0}
      BY <2>1, NotEmpty
    <3>2. Len(p) = 1
      BY <2>1, <3>1, OnlyOne
    <3>. QED BY <3>2
  <2>. QED BY <2>1, <1>1, <1>3
<1>5. Head(txQueue)[1].kind \in {"data", "csw"}
  BY <1>4 DEF Chunk
<1>. QED BY <1>1, <1>4, <1>5 DEF IsBlock, IsCsw

LEMMA HostShapeStep == TypeOK /\ WriterShape /\ HostShape /\ [Next]_vars => HostShape'
<1>. SUFFICES ASSUME TypeOK, WriterShape, HostShape, [Next]_vars PROVE HostShape'
  OBVIOUS
<1>0. HostOK
  BY DEF TypeOK
<1>. USE DEF HostShape
<1>1. CASE UNCHANGED hostVars
  BY <1>1 DEF hostVars
<1>2. CASE HostActs
  <2>1. ASSUME got' = <<>>, phase' \in {"idle", "command"} \union Enumerating,
               phase' = "command" => want' \in Ops
        PROVE  HostShape'
    BY <2>1 DEF Enumerating, Commanding
  <2>2. CASE SendCbw
    <3>1. UNCHANGED <<want, got>> /\ got = <<>> /\ phase = "command" /\ want \in Ops
      BY <2>2 DEF SendCbw, Commanding
    <3>2. phase' = IF want \in OutOps THEN "out" ELSE IF Packets(want) > 0 THEN "data" ELSE "status"
      BY <2>2 DEF SendCbw
    <3>3. want \in OutOps => Packets(want) = 0
      BY DEF OutOps, Packets
    <3>. QED BY <3>1, <3>2, <3>3, PacketsRange
  <2>3. CASE SendOut
    <3>1. UNCHANGED <<want, got>> /\ got = <<>> /\ phase = "out" /\ phase' = "status" /\ want \in OutOps
      BY <2>3 DEF SendOut
    <3>2. Packets(want) = 0
      BY <3>1 DEF OutOps, Packets
    <3>. QED BY <3>1, <3>2 DEF Commanding
  <2>4. CASE ReceiveData
    <3>1. IsBlock(Head(txQueue))
      BY <2>4, ReceivesBlock
    <3>2. /\ phase = "data" /\ UNCHANGED want /\ got' = Append(got, Head(txQueue))
          /\ phase' = IF Len(got') < Packets(want) THEN "data" ELSE "status"
      BY <2>4, <3>1 DEF ReceiveData
    <3>3. Len(got') = Len(got) + 1 /\ Len(got) < Packets(want) /\ Len(got) \in Nat
      BY <1>0, <3>2 DEF HostOK
    <3>4. \A i \in 1 .. Len(got') : IsBlock(got'[i])
      BY <1>0, <3>1, <3>2 DEF HostOK
    <3>. QED BY <3>2, <3>3, <3>4, PacketsRange DEF Commanding
  <2>5. CASE ReceiveCsw
    BY <2>5, <2>1 DEF ReceiveCsw
  <2>6. CASE WrongPacket \/ Timeout \/ EarlyReset
    BY <2>6, <2>1 DEF WrongPacket, Timeout, EarlyReset, ResetDevice, Enumerating
  <2>7. CASE Enumerate
    <3>1. UNCHANGED <<want, got>> /\ phase' \in Enumerating
      BY <2>7 DEF Enumerate, Request, Enumerating
    <3>. QED BY <3>1 DEF Enumerating, Commanding
  <2>8. CASE OtherRequest
    BY <2>8 DEF OtherRequest
  <2>9. CASE Configured
    <3>1. CASE want \in Reliable
      BY <2>9, <3>1, <2>1, MassAssumption DEF Configured, Send
    <3>2. CASE want \notin Reliable
      <4>1. UNCHANGED got /\ phase' = "idle"
        BY <2>9, <3>2 DEF Configured
      <4>. QED BY <4>1 DEF Commanding
    <3>. QED BY <3>1, <3>2
  <2>10. CASE \E o \in Ops : Submit(o)
    BY <2>10, <2>1 DEF Submit, Send
  <2>. QED BY <1>2, <2>2, <2>3, <2>4, <2>5, <2>6, <2>7, <2>8, <2>9, <2>10 DEF HostActs, HostStep
<1>. QED BY Steps, <1>1, <1>2, LoopFrame DEF vars

\* What the proofs below know of every state
ShapeInv == IInv /\ WriterShape /\ LoopShape /\ ControlShape /\ HostShape

LEMMA InitShape == Init => ShapeInv
<1>. SUFFICES ASSUME Init PROVE ShapeInv
  OBVIOUS
<1>1. IInv
  BY InitInv
<1>2. WriterShape /\ LoopShape /\ ControlShape /\ HostShape
  BY DEF Init, UsbInit, WriterShape, LoopShape, ControlShape, HostShape, Enumerating, Commanding
<1>. QED BY <1>1, <1>2 DEF ShapeInv

LEMMA ShapeStep == ShapeInv /\ [Next]_vars => ShapeInv'
<1>. SUFFICES ASSUME ShapeInv, [Next]_vars PROVE ShapeInv'
  OBVIOUS
<1>1. IInv /\ TypeOK /\ WriterShape /\ LoopShape /\ ControlShape /\ HostShape
  BY DEF ShapeInv, IInv
<1>2. IInv'
  BY <1>1, InvStep
<1>3. WriterShape' /\ LoopShape' /\ ControlShape' /\ HostShape'
  BY <1>1, WriterShapeStep, LoopShapeStep, ControlShapeStep, HostShapeStep
<1>. QED BY <1>2, <1>3 DEF ShapeInv

LEMMA AlwaysShape == Spec => []ShapeInv
<1>. QED BY InitShape, ShapeStep, PTL DEF Spec

-----------------------------------------------------------------------------
(* One command at a time                                                   *)

IsCbw(p) == p.kind = "cbw"

\* The CBW of the command the host waits for, before its tag is copied
Fresh(p) == phase \in Following /\ csw.tag # tag /\ p = Cbw(want, tag)

Unread == rxReady /\ IsCbw(rxReq) /\ rxReq.of # csw.tag

\* There is at most one CBW the loop has not read, and it is the host's latest;
\* one that was read is not accepted again.
OneCommand ==
    /\ phase = "command" => csw.tag # tag
    /\ phase \notin Enumerating =>
        /\ \A i \in 1 .. Len(rxFifo) : IsCbw(rxFifo[i]) =>
              /\ Fresh(rxFifo[i])
              /\ ~Unread
              /\ \A j \in 1 .. Len(rxFifo) : IsCbw(rxFifo[j]) => i = j
        /\ Unread => Fresh(rxReq)
        /\ rxReady /\ IsCbw(rxReq) /\ rxReq.of = csw.tag =>
              /\ pc \notin {"accept", "check"}
              /\ status # IDLE
              /\ status = SETUP => pc # "top"

\* What is decoded with the host's tag is the host's command.
DecodesWant ==
    pc = "decode" /\ phase \in Commanding /\ csw.tag = tag =>
        phase \in Following /\ rxReq = Cbw(want, tag)

SendsData == \A i \in 1 .. Len(send) : send[i].kind = "data"

\* No answer with the tag t in a sequence of chunks
Silent(s, t) == \A i \in 1 .. Len(s) : ~(s[i].kind = "csw" /\ s[i].of = t)

\* none to be loaded, none loaded, none marked ready
NoAnswer(l, x, q, t) ==
    Silent(l, t) /\ Silent(x, t) /\ \A i \in 1 .. Len(q) : Silent(q[i], t)

\* The loop has decoded the host's command.
TakenUp == phase \in Commanding /\ csw.tag = tag /\ pc # "decode"

\* Before that, and to a WRITE for ever, there is no answer.
Unanswered ==
    phase \in Commanding /\ ~(TakenUp /\ want # "write")
        => NoAnswer(left, txLoad, txQueue, tag)

Stuck ==
    TakenUp /\ want = "write" =>
        \/ pc = RECEIVE_DATA /\ status = SETUP
        \/ pc = "top" /\ status = RECEIVE_DATA /\ writer = "off"

CommandInv == OneCommand /\ DecodesWant /\ SendsData /\ Unanswered /\ Stuck

LEMMA FreshTagIsFresh ==
    ASSUME TypeOK, Tags \ TagsInUse # {}
    PROVE  csw.tag # FreshTag /\ NoAnswer(left, txLoad, txQueue, FreshTag)
<1>0. /\ left \in Seq(Chunk) /\ txLoad \in Seq(Chunk) /\ txQueue \in Seq(Seq(Chunk))
  BY DEF TypeOK, WriterOK, FifosOK
<1>1. FreshTag \notin TagsInUse
  BY DEF FreshTag
<1>2. csw.tag # FreshTag
  BY <1>1 DEF TagsInUse
<1>3. \A c \in Range(left) \union Range(txLoad) \union UNION {Range(p) : p \in Range(txQueue)} :
          c.of # FreshTag
  BY <1>1 DEF TagsInUse
<1>4. Silent(left, FreshTag) /\ Silent(txLoad, FreshTag)
  BY <1>0, <1>3 DEF Silent, Range
<1>5. ASSUME NEW i \in 1 .. Len(txQueue) PROVE Silent(txQueue[i], FreshTag)
  <2>1. txQueue[i] \in Range(txQueue) /\ txQueue[i] \in Seq(Chunk)
    BY <1>0 DEF Range
  <2>2. \A c \in Range(txQueue[i]) : c.of # FreshTag
    BY <1>3, <2>1
  <2>. QED BY <2>1, <2>2 DEF Silent, Range
<1>. QED BY <1>2, <1>4, <1>5 DEF NoAnswer

LEMMA OneCommandStep ==
    ShapeInv /\ CommandInv /\ [Next]_vars => OneCommand'
<1>. SUFFICES ASSUME ShapeInv, CommandInv, [Next]_vars PROVE OneCommand'
  OBVIOUS
<1>0. /\ TypeOK /\ ResetIsLast /\ BufferHeld /\ LoopShape /\ ControlShape /\ HostShape
      /\ OneCommand /\ Unanswered
      /\ rxFifo \in Seq(BulkOut)
  BY DEF ShapeInv, IInv, CommandInv, TypeOK, FifosOK
<1>1. CASE UNCHANGED <<phase, want, tag, csw, rxFifo, rxReady, rxReq, pc, status>>
  BY <1>0, <1>1 DEF OneCommand, Fresh, Unread
<1>2. CASE IrqReset /\ UNCHANGED hostVars
  <2>1. phase' = "reset"
    BY <1>0, <1>2 DEF IrqReset, ResetIsLast, hostVars
  <2>. QED BY <2>1 DEF OneCommand, Enumerating
<1>3. CASE IrqEndpoints /\ UNCHANGED <<loopVars, hostVars>>
  <2>0. UNCHANGED <<phase, want, tag, csw, pc, status>>
    BY <1>3 DEF loopVars, hostVars
  <2>1. CASE UNCHANGED <<rxReq, rxFifo, rxReady>>
    BY <2>0, <2>1, <1>1
  <2>2. CASE rxFifo' = <<>> /\ UNCHANGED <<rxReq, rxReady>>
    BY <1>0, <2>0, <2>2 DEF OneCommand, Fresh, Unread
  <2>3. CASE /\ rxFifo # <<>> /\ ~rxReady
             /\ rxReq' = Head(rxFifo) /\ rxFifo' = Tail(rxFifo) /\ rxReady' = TRUE
    <3>. SUFFICES ASSUME phase \notin Enumerating PROVE OneCommand'
      BY <1>0, <2>0 DEF OneCommand
    <3>1. /\ Len(rxFifo) \in Nat \ {0} /\ rxReq' = rxFifo[1] /\ Len(rxFifo') = Len(rxFifo) - 1
          /\ \A i \in 1 .. Len(rxFifo') : rxFifo'[i] = rxFifo[i + 1]
      BY <1>0, <2>3, NotEmpty
    <3>2. \A i \in 1 .. Len(rxFifo') : i + 1 \in 1 .. Len(rxFifo) /\ i + 1 # 1
      BY <3>1
    <3>3. 1 \in 1 .. Len(rxFifo)
      BY <3>1
    <3>4. IsCbw(rxReq') => Fresh(rxReq') /\ \A i \in 1 .. Len(rxFifo') : ~IsCbw(rxFifo'[i])
      BY <1>0, <3>1, <3>2, <3>3 DEF OneCommand
    <3>5. IsCbw(rxReq') => rxReq'.of # csw.tag
      BY <3>4 DEF Fresh, Cbw
    <3>6. \A i \in 1 .. Len(rxFifo') : IsCbw(rxFifo'[i]) =>
              /\ Fresh(rxFifo'[i])
              /\ \A j \in 1 .. Len(rxFifo') : IsCbw(rxFifo'[j]) => i = j
      <4>. SUFFICES ASSUME NEW i \in 1 .. Len(rxFifo'), IsCbw(rxFifo'[i]),
                           NEW j \in 1 .. Len(rxFifo')
                    PROVE  Fresh(rxFifo'[i]) /\ (IsCbw(rxFifo'[j]) => i = j)
        OBVIOUS
      <4>1. rxFifo'[i] = rxFifo[i + 1] /\ rxFifo'[j] = rxFifo[j + 1]
        BY <3>1
      <4>2. i + 1 \in 1 .. Len(rxFifo) /\ j + 1 \in 1 .. Len(rxFifo)
        BY <3>2
      <4>3. Fresh(rxFifo[i + 1]) /\ (IsCbw(rxFifo[j + 1]) => i + 1 = j + 1)
        BY <1>0, <4>1, <4>2 DEF OneCommand
      <4>. QED BY <4>1, <4>3
    <3>. QED BY <1>0, <2>0, <3>4, <3>5, <3>6 DEF OneCommand, Unread, Fresh
  <2>. QED BY <1>3, <2>1, <2>2, <2>3, EndpointFifos
<1>4. CASE LoopActs
  <2>1. UNCHANGED <<phase, want, tag, rxFifo>>
    BY <1>4, LoopFrame DEF hostVars, fifos
  <2>. SUFFICES ASSUME phase \notin Enumerating PROVE OneCommand'
    <3>1. CASE phase \in Enumerating
      BY <2>1, <3>1 DEF OneCommand, Enumerating
    <3>. QED BY <3>1
  <2>2. CASE Dispatch \/ Accept \/ Decode \/ Commit \/ MoveOn
    <3>1. UNCHANGED <<rxReady, rxReq>> /\ csw'.tag = csw.tag
      BY <1>0, <2>2 DEF Dispatch, Accept, Decode, Decoded, DecodeRead, Commit, MoveOn, usbVars, source,
         TypeOK, LoopOK
    <3>2. ASSUME rxReady, IsCbw(rxReq), rxReq.of = csw.tag
          PROVE  /\ pc' \notin {"accept", "check"} /\ status' # IDLE
                 /\ status' = SETUP => pc' # "top"
      <4>1. pc \notin {"accept", "check"} /\ status # IDLE /\ (status = SETUP => pc # "top")
        BY <1>0, <3>2 DEF OneCommand
      <4>. QED BY <2>2, <4>1 DEF Dispatch, Accept, Decode, Decoded, DecodeRead, Commit, MoveOn, At,
              IDLE, SETUP, SEND_DATA, RECEIVE_DATA, STATUS
    <3>. QED BY <1>0, <2>1, <3>1, <3>2 DEF OneCommand, Fresh, Unread
  <2>3. CASE Reject \/ SendDataStep \/ Finish \/ SendCsw
    <3>1. ~rxReady' /\ UNCHANGED csw
      BY <2>3 DEF Reject, SendDataStep, Finish, SendCsw, SendData
    <3>. QED BY <1>0, <2>1, <3>1 DEF OneCommand, Fresh, Unread
  <2>4. CASE CopyTag
    <3>1. /\ pc = "check" /\ IsCbw(rxReq) /\ csw'.tag = rxReq.of /\ pc' = "decode"
          /\ UNCHANGED <<rxReady, rxReq, status>>
      BY <1>0, <2>4 DEF CopyTag, At, IsCbw, usbVars, source, TypeOK, LoopOK
    <3>2. rxReady /\ status = SETUP
      BY <1>0, <3>1 DEF BufferHeld, LoopShape
    <3>3. Unread /\ Fresh(rxReq)
      BY <1>0, <3>1, <3>2 DEF OneCommand, Unread
    <3>4. \A i \in 1 .. Len(rxFifo) : ~IsCbw(rxFifo[i])
      BY <1>0, <3>3 DEF OneCommand
    <3>5. phase # "command"
      BY <3>3 DEF Fresh, Following
    <3>. QED BY <2>1, <3>1, <3>2, <3>4, <3>5 DEF OneCommand, Unread, SETUP, IDLE
  <2>. QED BY <1>4, <2>2, <2>3, <2>4 DEF LoopActs
<1>5. CASE WriteStep /\ UNCHANGED <<loopVars, hostVars>>
  BY <1>5, <1>1, WriteFrame DEF source, loopVars, hostVars
<1>6. CASE DmaTake /\ UNCHANGED <<loopVars, hostVars>>
  <2>1. UNCHANGED <<phase, want, tag, csw, pc, status, rxReady, rxReq>>
    BY <1>6 DEF DmaTake, loopVars, hostVars
  <2>2. rxFifo # <<>> /\ rxFifo' = Tail(rxFifo)
    BY <1>6 DEF DmaTake
  <2>3. /\ Len(rxFifo) \in Nat \ {0} /\ Len(rxFifo') = Len(rxFifo) - 1
        /\ \A i \in 1 .. Len(rxFifo') : rxFifo'[i] = rxFifo[i + 1] /\ i + 1 \in 1 .. Len(rxFifo)
    BY <1>0, <2>2, NotEmpty
  <2>. QED BY <1>0, <2>1, <2>3 DEF OneCommand, Fresh, Unread
<1>7. CASE HostActs
  <2>0. UNCHANGED <<csw, pc, status, rxReady, rxReq>>
    BY <1>7, Frames DEF loopVars, source
  <2>1. CASE SendCbw
    <3>1. /\ phase = "command" /\ phase' \in Following /\ rxFifo' = Append(rxFifo, Cbw(want, tag))
          /\ UNCHANGED <<want, tag>>
      BY <2>1 DEF SendCbw, PacketOut, Following
    <3>2. /\ csw.tag # tag /\ ~Unread
          /\ \A i \in 1 .. Len(rxFifo) : ~IsCbw(rxFifo[i])
      BY <1>0, <3>1 DEF OneCommand, Fresh, Following, Enumerating
    <3>3. /\ Len(rxFifo') = Len(rxFifo) + 1 /\ Len(rxFifo) \in Nat
          /\ rxFifo'[Len(rxFifo) + 1] = Cbw(want, tag)
          /\ \A i \in 1 .. Len(rxFifo) : rxFifo'[i] = rxFifo[i]
      BY <1>0, <3>1
    <3>4. \A i \in 1 .. Len(rxFifo') : IsCbw(rxFifo'[i]) => i = Len(rxFifo) + 1
      BY <3>2, <3>3
    <3>. QED BY <1>0, <2>0, <3>1, <3>2, <3>3, <3>4 DEF OneCommand, Fresh, Unread, Following, Enumerating
  <2>2. CASE SendOut
    <3>1. /\ phase = "out" /\ phase' = "status" /\ rxFifo' = Append(rxFifo, OutData)
          /\ UNCHANGED <<want, tag>>
      BY <2>2 DEF SendOut, PacketOut
    <3>2. ~IsCbw(OutData)
      BY DEF IsCbw, OutData
    <3>3. /\ Len(rxFifo') = Len(rxFifo) + 1 /\ Len(rxFifo) \in Nat
          /\ rxFifo'[Len(rxFifo) + 1] = OutData
          /\ \A i \in 1 .. Len(rxFifo) : rxFifo'[i] = rxFifo[i]
      BY <1>0, <3>1
    <3>4. \A i \in 1 .. Len(rxFifo') : IsCbw(rxFifo'[i]) => i \in 1 .. Len(rxFifo)
      BY <3>2, <3>3
    <3>. QED BY <1>0, <2>0, <3>1, <3>3, <3>4 DEF OneCommand, Fresh, Unread, Following, Enumerating
  <2>3. CASE ReceiveData
    <3>1. phase = "data" /\ phase' \in {"data", "status"} /\ UNCHANGED <<want, tag, rxFifo>>
      BY <2>3 DEF ReceiveData, PacketIn
    <3>. QED BY <1>0, <2>0, <3>1 DEF OneCommand, Fresh, Unread, Following, Enumerating
  <2>4. CASE ReceiveCsw
    <3>1. /\ phase \in {"data", "status"} /\ phase' = "idle" /\ UNCHANGED rxFifo
          /\ txQueue # <<>> /\ IsCsw(Head(txQueue)) /\ Head(txQueue)[1].of = tag
      BY <2>4 DEF ReceiveCsw, PacketIn
    <3>2. Head(txQueue) = txQueue[1] /\ 1 \in 1 .. Len(txQueue) /\ txQueue[1] \in Seq(Chunk)
      <4>1. Len(txQueue) \in Nat \ {0} /\ txQueue \in Seq(Seq(Chunk))
        BY <1>0, <3>1, NotEmpty DEF TypeOK, FifosOK
      <4>. QED BY <4>1
    <3>3. ~NoAnswer(left, txLoad, txQueue, tag)
      BY <3>1, <3>2 DEF NoAnswer, Silent, IsCsw
    <3>4. csw.tag = tag
      BY <1>0, <3>1, <3>3 DEF Unanswered, TakenUp, Commanding
    <3>5. ~Unread /\ \A i \in 1 .. Len(rxFifo) : ~IsCbw(rxFifo[i])
      BY <1>0, <3>1, <3>4 DEF OneCommand, Fresh, Enumerating
    <3>. QED BY <1>0, <2>0, <3>1, <3>5 DEF OneCommand, Unread, Enumerating
  <2>5. CASE WrongPacket \/ Timeout \/ EarlyReset \/ Enumerate
    <3>1. phase' \in Enumerating
      BY <2>5 DEF WrongPacket, Timeout, EarlyReset, ResetDevice, Enumerate, Request, Enumerating
    <3>. QED BY <3>1 DEF OneCommand, Enumerating
  <2>6. CASE Configured
    <3>1. /\ phase = "configured" /\ pend = {} /\ UNCHANGED rxFifo
          /\ \/ phase' = "idle"
             \/ phase' = "command" /\ tag' = FreshTag /\ Tags \ TagsInUse # {}
      BY <2>6 DEF Configured, DeviceWaits, Send, usbVars, fifos
    <3>2. rxFifo = <<>> /\ ~rxReady
      BY <1>0, <3>1 DEF ResetIsLast, ControlShape, Enumerating
    <3>. QED BY <1>0, <2>0, <3>1, <3>2, FreshTagIsFresh DEF OneCommand, Unread, Enumerating
  <2>7. CASE OtherRequest
    BY <2>0, <2>7, <1>1 DEF OtherRequest, Control, fifos
  <2>8. CASE \E o \in Ops : Submit(o)
    <3>1. /\ phase = "idle" /\ UNCHANGED rxFifo
          /\ phase' = "command" /\ tag' = FreshTag /\ Tags \ TagsInUse # {}
      BY <2>8 DEF Submit, Send, usbVars, fifos
    <3>2. ~Unread /\ \A i \in 1 .. Len(rxFifo) : ~IsCbw(rxFifo[i])
      BY <1>0, <3>1 DEF OneCommand, Fresh, Following, Enumerating
    <3>. QED BY <1>0, <2>0, <3>1, <3>2, FreshTagIsFresh DEF OneCommand, Unread, Enumerating
  <2>. QED BY <1>7, <2>1, <2>2, <2>3, <2>4, <2>5, <2>6, <2>7, <2>8 DEF HostActs, HostStep
<1>. QED BY Steps, <1>1, <1>2, <1>3, <1>4, <1>5, <1>6, <1>7
     DEF vars, usbVars, fifos, source, loopVars, hostVars

LEMMA SendsDataStep == TypeOK /\ SendsData /\ [Next]_vars => SendsData'
<1>. SUFFICES ASSUME TypeOK, SendsData, [Next]_vars PROVE SendsData'
  OBVIOUS
<1>1. CASE UNCHANGED send
  BY <1>1 DEF SendsData
<1>2. CASE Decode
  <2>1. ASSUME NEW o, NEW c, send' = Buffered(o, c) PROVE SendsData'
    BY <2>1, PacketsRange DEF Buffered, Block, SendsData
  <2>. QED BY <1>1, <1>2, <2>1 DEF Decode, Decoded, DecodeRead
<1>3. send' = send \/ Decode
  BY Steps, Frames DEF LoopActs, Dispatch, Accept, Reject, CopyTag, Commit, MoveOn, SendDataStep,
     Finish, SendCsw, vars, loopVars
<1>. QED BY <1>1, <1>2, <1>3

\* What moves chunks along adds none.
LEMMA NoAnswerMoves ==
    ASSUME TypeOK, NEW t, NoAnswer(left, txLoad, txQueue, t),
           \/ UNCHANGED <<left, txLoad, txQueue>>
           \/ IrqReset \/ IrqEndpoints \/ WriteStep \/ DmaTake
           \/ BusReset \/ PacketIn
    PROVE  NoAnswer(left', txLoad', txQueue', t)
<1>0. /\ left \in Seq(Chunk) /\ txLoad \in Seq(Chunk) /\ txQueue \in Seq(Seq(Chunk))
  BY DEF TypeOK, WriterOK, FifosOK
<1>. USE DEF NoAnswer
<1>1. CASE UNCHANGED <<left, txLoad, txQueue>>
  BY <1>1
<1>2. CASE UNCHANGED left /\ txLoad' \in {txLoad, <<>>} /\ txQueue' \in {txQueue, <<>>}
  BY <1>0, <1>2 DEF Silent
<1>3. CASE LoadPacket
  <2>1. left # <<>> /\ left' = Tail(left) /\ txLoad' = Append(txLoad, Head(left)) /\ UNCHANGED txQueue
    BY <1>3 DEF LoadPacket
  <2>2. Len(left) \in Nat \ {0}
    BY <1>0, <2>1, NotEmpty
  <2>3. Silent(left', t) /\ ~(Head(left).kind = "csw" /\ Head(left).of = t)
    BY <1>0, <2>1, <2>2 DEF Silent
  <2>4. Silent(txLoad', t)
    BY <1>0, <2>1, <2>3 DEF Silent
  <2>. QED BY <2>1, <2>3, <2>4
<1>4. CASE MarkReady
  <2>1. CASE epind = 1
    <3>1. txQueue' = Append(txQueue, txLoad) /\ txLoad' = <<>> /\ UNCHANGED left
      BY <1>4, <2>1 DEF MarkReady
    <3>2. \A i \in 1 .. Len(txQueue') : Silent(txQueue'[i], t)
      BY <1>0, <3>1
    <3>. QED BY <3>1, <3>2 DEF Silent
  <2>2. CASE epind # 1
    BY <1>1, <1>4, <2>2 DEF MarkReady
  <2>. QED BY <2>1, <2>2
<1>5. CASE PacketIn
  <2>1. txQueue # <<>> /\ txQueue' = Tail(txQueue) /\ UNCHANGED <<left, txLoad>>
    BY <1>5 DEF PacketIn, write
  <2>2. Len(txQueue) \in Nat \ {0}
    BY <1>0, <2>1, NotEmpty
  <2>3. \A i \in 1 .. Len(txQueue') : txQueue'[i] = txQueue[i + 1] /\ i + 1 \in 1 .. Len(txQueue)
    BY <1>0, <2>1, <2>2
  <2>. QED BY <2>1, <2>3
<1>. QED BY <1>1, <1>2, <1>3, <1>4, <1>5, EndpointFifos
     DEF IrqReset, WriteStep, SelectBulkIn, PacketSent, WriteDone, DmaTake, BusReset, fifos, write

LEMMA DecodesWantStep == ShapeInv /\ CommandInv /\ [Next]_vars => DecodesWant'
<1>. SUFFICES ASSUME ShapeInv, CommandInv, [Next]_vars, pc' = "decode", phase' \in Commanding, csw'.tag = tag'
              PROVE  phase' \in Following /\ rxReq' = Cbw(want', tag')
  BY DEF DecodesWant
<1>0. TypeOK /\ IInv /\ BufferHeld /\ OneCommand /\ DecodesWant /\ OneCommand'
  BY OneCommandStep DEF ShapeInv, IInv, CommandInv
<1>1. phase' \in Following
  BY <1>0 DEF OneCommand, Commanding, Following, Enumerating
<1>2. CASE pc = "decode"
  <2>1. UNCHANGED rxReq
    BY <1>0, <1>2, Kept
  <2>2. UNCHANGED csw
    BY <1>2, Steps, Frames DEF LoopActs, Dispatch, Accept, Reject, CopyTag, Decode, Decoded, DecodeRead,
       Commit, MoveOn, SendDataStep, Finish, SendCsw, At, vars, loopVars, SEND_DATA, RECEIVE_DATA, STATUS
  <2>3. phase \in Commanding /\ UNCHANGED <<want, tag>>
    <3>1. CASE UNCHANGED hostVars
      BY <3>1 DEF hostVars
    <3>2. CASE HostActs
      <4>1. CASE Configured \/ \E o \in Ops : Submit(o)
        <5>1. phase' = "command"
          BY <4>1 DEF Configured, Submit, Send, Commanding
        <5>. QED BY <1>1, <5>1 DEF Following
      <4>. QED BY <3>2, <4>1 DEF HostActs, HostStep, SendCbw, SendOut, ReceiveData, ReceiveCsw, WrongPacket,
              Timeout, EarlyReset, ResetDevice, Enumerate, Request, OtherRequest, Commanding
    <3>. QED BY <3>1, <3>2, Steps, LoopFrame DEF vars
  <2>. QED BY <1>0, <1>1, <1>2, <2>1, <2>2, <2>3 DEF DecodesWant
<1>3. CASE CopyTag
  <2>1. /\ pc = "check" /\ IsCbw(rxReq) /\ UNCHANGED <<rxReady, rxReq, phase, want, tag>>
    BY <1>3 DEF CopyTag, At, IsCbw, usbVars, source, hostVars
  <2>2. phase \notin Enumerating
    BY <1>1, <2>1 DEF Following, Enumerating
  <2>3. rxReady
    BY <1>0, <2>1, <2>2 DEF BufferHeld
  <2>4. Fresh(rxReq)
    BY <1>0, <2>1, <2>2, <2>3 DEF OneCommand, Unread
  <2>. QED BY <1>1, <2>1, <2>4 DEF Fresh
<1>4. pc = "decode" \/ CopyTag
  BY Steps, Frames DEF LoopActs, Dispatch, Accept, Reject, Decode, Decoded, DecodeRead, Commit, MoveOn,
     SendDataStep, Finish, SendCsw, vars, loopVars, SEND_DATA, RECEIVE_DATA, STATUS
<1>. QED BY <1>2, <1>3, <1>4

\* How the host's command and the loop's place change together
LEMMA HostWaits ==
    ASSUME TypeOK, HostActs, phase' \in Commanding
    PROVE  \/ phase \in Commanding /\ UNCHANGED <<want, tag>>
           \/ phase' = "command" /\ tag' = FreshTag /\ Tags \ TagsInUse # {} /\ UNCHANGED usbVars
<1>1. CASE Configured \/ \E o \in Ops : Submit(o)
  BY <1>1 DEF Configured, Submit, Send, Commanding
<1>. QED BY <1>1 DEF HostActs, HostStep, SendCbw, SendOut, ReceiveData, ReceiveCsw, WrongPacket,
        Timeout, EarlyReset, ResetDevice, Enumerate, Request, OtherRequest, Commanding, Enumerating

LEMMA UnansweredStep == ShapeInv /\ CommandInv /\ [Next]_vars => Unanswered'
<1>. SUFFICES ASSUME ShapeInv, CommandInv, [Next]_vars, phase' \in Commanding,
                     ~(TakenUp' /\ want' # "write")
              PROVE  NoAnswer(left', txLoad', txQueue', tag')
  BY DEF Unanswered
<1>0. /\ TypeOK /\ ResetIsLast /\ LoopShape /\ OneCommand /\ DecodesWant /\ SendsData /\ Unanswered /\ Stuck
      /\ OneCommand'
  BY OneCommandStep DEF ShapeInv, IInv, CommandInv
<1>. USE DEF TakenUp
<1>1. ASSUME UNCHANGED <<phase, want, tag, csw, pc>> PROVE NoAnswer(left, txLoad, txQueue, tag)
  BY <1>0, <1>1 DEF Unanswered
<1>2. CASE UNCHANGED vars
  BY <1>1, <1>2 DEF vars, usbVars, fifos, write, loopVars, hostVars
<1>3. CASE IrqReset /\ UNCHANGED hostVars
  BY <1>0, <1>3 DEF ResetIsLast, IrqReset, hostVars, Commanding
<1>4. CASE (IrqEndpoints \/ WriteStep \/ DmaTake) /\ UNCHANGED <<loopVars, hostVars>>
  <2>1. UNCHANGED <<phase, want, tag, csw, pc>>
    BY <1>4 DEF loopVars, hostVars
  <2>. QED BY <1>0, <1>1, <1>4, <2>1, NoAnswerMoves
<1>5. CASE LoopActs
  <2>0. UNCHANGED <<phase, want, tag, txLoad, txQueue>>
    BY <1>5, LoopFrame DEF fifos, hostVars
  <2>1. CASE UNCHANGED left /\ (csw'.tag = csw.tag /\ (pc' = "decode" => pc = "decode"))
    BY <1>0, <2>0, <2>1 DEF Unanswered
  <2>2. CASE CopyTag
    <3>1. /\ pc = "check" /\ IsCbw(rxReq) /\ UNCHANGED <<rxReady, rxReq, left>>
      BY <2>2 DEF CopyTag, At, IsCbw, usbVars, source, write
    <3>2. phase \notin Enumerating
      BY <2>0 DEF Commanding, Enumerating
    <3>3. rxReady
      BY <3>1, <3>2 DEF BufferHeld, ShapeInv, IInv
    <3>4. csw.tag # tag
      BY <1>0, <3>1, <3>2, <3>3 DEF OneCommand, Unread, Fresh
    <3>. QED BY <1>0, <2>0, <3>1, <3>4 DEF Unanswered
  <2>3. CASE SendDataStep
    <3>1. left' = send /\ Silent(send, tag)
      BY <1>0, <2>3 DEF SendDataStep, SendData, SendsData, Silent
    <3>2. UNCHANGED csw /\ pc = "sendData" /\ pc' = "top"
      BY <2>3 DEF SendDataStep, At
    <3>3. NoAnswer(left, txLoad, txQueue, tag)
      BY <1>0, <2>0, <3>2 DEF Unanswered
    <3>. QED BY <2>0, <3>1, <3>3 DEF NoAnswer
  <2>4. CASE SendCsw
    <3>1. left' = <<Csw>> /\ UNCHANGED csw /\ pc = "sendCsw" /\ pc' = "top"
      BY <2>4 DEF SendCsw, SendData, At
    <3>2. ~TakenUp
      <4>1. CASE TakenUp
        <5>1. want = "write"
          BY <2>0, <3>1, <4>1
        <5>. QED BY <1>0, <3>1, <4>1, <5>1 DEF Stuck, RECEIVE_DATA
      <4>. QED BY <4>1
    <3>3. csw.tag # tag
      BY <2>0, <3>1, <3>2
    <3>4. Silent(<<Csw>>, tag)
      BY <3>3 DEF Silent, Csw
    <3>5. NoAnswer(left, txLoad, txQueue, tag)
      BY <1>0, <2>0, <3>2 DEF Unanswered
    <3>. QED BY <2>0, <3>1, <3>4, <3>5 DEF NoAnswer
  <2>5. CASE Dispatch \/ Accept \/ Reject \/ Decode \/ Commit \/ MoveOn \/ Finish
    <3>1. UNCHANGED left /\ csw'.tag = csw.tag /\ pc' # "decode"
      BY <1>0, <2>5 DEF Dispatch, Accept, Reject, Decode, Decoded, DecodeRead, Commit, MoveOn, Finish,
         usbVars, write, TypeOK, LoopOK, SEND_DATA, RECEIVE_DATA, STATUS
    <3>. QED BY <2>1, <3>1
  <2>. QED BY <1>5, <2>2, <2>3, <2>4, <2>5 DEF LoopActs
<1>6. CASE HostActs
  <2>0. UNCHANGED <<csw, pc, left>>
    BY <1>6, Frames DEF loopVars, write
  <2>1. CASE phase' = "command" /\ tag' = FreshTag /\ Tags \ TagsInUse # {} /\ UNCHANGED usbVars
    BY <1>0, <2>0, <2>1, FreshTagIsFresh DEF usbVars, fifos
  <2>2. CASE phase \in Commanding /\ UNCHANGED <<want, tag>>
    <3>1. NoAnswer(left, txLoad, txQueue, tag)
      BY <1>0, <2>0, <2>2 DEF Unanswered
    <3>2. UNCHANGED <<txLoad, txQueue>> \/ BusReset \/ PacketIn
      BY <1>6 DEF HostActs, HostStep, SendCbw, SendOut, PacketOut, ReceiveData, ReceiveCsw, WrongPacket,
         Timeout, EarlyReset, ResetDevice, Enumerate, Request, Control, OtherRequest, Configured, Submit,
         usbVars, fifos
    <3>. QED BY <1>0, <2>0, <2>2, <3>1, <3>2, NoAnswerMoves
  <2>. QED BY <1>0, <1>6, <2>1, <2>2, HostWaits
<1>. QED BY Steps, <1>2, <1>3, <1>4, <1>5, <1>6

LEMMA StuckStep == ShapeInv /\ CommandInv /\ [Next]_vars => Stuck'
<1>. SUFFICES ASSUME ShapeInv, CommandInv, [Next]_vars, TakenUp', want' = "write"
              PROVE  \/ pc' = RECEIVE_DATA /\ status' = SETUP
                     \/ pc' = "top" /\ status' = RECEIVE_DATA /\ writer' = "off"
  BY DEF Stuck
<1>0. /\ TypeOK /\ ResetIsLast /\ SendsAfterSetup /\ LoopShape /\ OneCommand /\ DecodesWant /\ Stuck
      /\ BufferHeld
  BY DEF ShapeInv, IInv, CommandInv
<1>. USE DEF TakenUp
<1>1. ASSUME UNCHANGED <<phase, want, tag, csw, pc, status, writer>>
      PROVE  \/ pc' = RECEIVE_DATA /\ status' = SETUP
             \/ pc' = "top" /\ status' = RECEIVE_DATA /\ writer' = "off"
  BY <1>0, <1>1 DEF Stuck
<1>2. CASE IrqReset /\ UNCHANGED hostVars
  BY <1>0, <1>2 DEF ResetIsLast, IrqReset, hostVars, Commanding
<1>3. CASE IrqEndpoints /\ UNCHANGED <<loopVars, hostVars>>
  BY <1>1, <1>3 DEF IrqEndpoints, write, loopVars, hostVars
<1>4. CASE DmaTake /\ UNCHANGED <<loopVars, hostVars>>
  BY <1>1, <1>4 DEF DmaTake, write, loopVars, hostVars
<1>5. CASE WriteStep /\ UNCHANGED <<loopVars, hostVars>>
  <2>1. writer # "off"
    BY <1>5 DEF WriteStep, SelectBulkIn, LoadPacket, MarkReady, PacketSent, WriteDone
  <2>2. pc = "top" /\ status # RECEIVE_DATA
    BY <1>0, <2>1 DEF SendsAfterSetup, IDLE, STATUS, RECEIVE_DATA
  <2>. QED BY <1>0, <1>5, <2>2 DEF Stuck, RECEIVE_DATA, loopVars, hostVars
<1>6. CASE LoopActs
  <2>0. UNCHANGED <<phase, want, tag>> /\ writer = "off"
    BY <1>6, LoopFrame DEF hostVars
  <2>1. CASE Decode
    <3>1. csw.tag = tag /\ pc = "decode" /\ UNCHANGED <<status, writer>>
      BY <1>0, <2>0, <2>1 DEF Decode, Decoded, DecodeRead, At, TypeOK, LoopOK, write
    <3>2. rxReq.op = "write"
      BY <1>0, <2>0, <3>1 DEF DecodesWant, Cbw
    <3>3. pc' = RECEIVE_DATA
      BY <2>1, <3>2 DEF Decode, Decoded
    <3>4. status = SETUP
      BY <1>0, <2>0, <3>1 DEF LoopShape, Commanding, Enumerating
    <3>. QED BY <3>1, <3>3, <3>4
  <2>2. CASE CopyTag
    BY <2>2 DEF CopyTag
  <2>3. CASE Dispatch \/ Accept \/ Reject \/ Commit \/ MoveOn \/ SendDataStep \/ Finish \/ SendCsw
    <3>1. UNCHANGED csw /\ pc # "decode"
      BY <2>3 DEF Dispatch, Accept, Reject, Commit, MoveOn, SendDataStep, Finish, SendCsw, At,
         SEND_DATA, RECEIVE_DATA, STATUS
    <3>2. \/ pc = RECEIVE_DATA /\ status = SETUP
          \/ pc = "top" /\ status = RECEIVE_DATA /\ writer = "off"
      BY <1>0, <2>0, <3>1 DEF Stuck
    <3>3. CASE pc = RECEIVE_DATA
      BY <2>3, <3>3 DEF Dispatch, Accept, Reject, Commit, MoveOn, SendDataStep, Finish, SendCsw, At,
         RECEIVE_DATA, usbVars, write
    <3>4. CASE pc = "top" /\ status = RECEIVE_DATA
      BY <2>3, <3>4 DEF Dispatch, Accept, Reject, Commit, MoveOn, SendDataStep, Finish, SendCsw, At,
         RECEIVE_DATA, SEND_DATA, STATUS, IDLE, SETUP
    <3>. QED BY <3>2, <3>3, <3>4
  <2>. QED BY <1>6, <2>1, <2>2, <2>3 DEF LoopActs
<1>7. CASE HostActs
  <2>0. UNCHANGED <<csw, pc, status, writer>>
    BY <1>7, Frames DEF loopVars, write
  <2>1. ~(tag' = FreshTag /\ Tags \ TagsInUse # {})
    BY <1>0, <2>0, FreshTagIsFresh
  <2>2. phase \in Commanding /\ UNCHANGED <<want, tag>>
    BY <1>0, <1>7, <2>1, HostWaits
  <2>. QED BY <1>0, <2>0, <2>2 DEF Stuck
<1>. QED BY Steps, <1>1, <1>2, <1>3, <1>4, <1>5, <1>6, <1>7
     DEF vars, usbVars, write, loopVars, hostVars

LEMMA AlwaysCommand == Spec => []CommandInv
<1>1. Init => CommandInv
  <2>. SUFFICES ASSUME Init PROVE CommandInv
    OBVIOUS
  <2>. USE DEF Init, UsbInit
  <2>1. OneCommand /\ DecodesWant
    BY DEF OneCommand, DecodesWant, Enumerating, Unread
  <2>2. SendsData /\ Unanswered /\ Stuck
    BY DEF SendsData, Unanswered, Stuck, TakenUp, Commanding
  <2>. QED BY <2>1, <2>2 DEF CommandInv
<1>2. ShapeInv /\ CommandInv /\ [Next]_vars => CommandInv'
  BY OneCommandStep, DecodesWantStep, SendsDataStep, UnansweredStep, StuckStep
     DEF CommandInv, ShapeInv, IInv
<1>. QED BY <1>1, <1>2, AlwaysShape, PTL DEF Spec

-----------------------------------------------------------------------------
(* Packets as one sequence of chunks                                       *)

LEMMA NatLeast ==
    ASSUME NEW T, T \subseteq Nat, T # {}
    PROVE  \E x \in T : \A y \in T : x <= y
  <1>1. \E x \in T : \A y \in T : ~ (<<y, x>> \in OpToRel(<, Nat))
    BY WFMin, NatLessThanWellFounded
  <1>2. \A x, y \in T : ~ (<<y, x>> \in OpToRel(<, Nat)) => x <= y
    BY DEF OpToRel
  <1>. QED BY <1>1, <1>2

LEMMA SetInduction ==
    ASSUME NEW B, 0 \in B, \A k \in Nat : k \in B => k + 1 \in B
    PROVE  Nat \subseteq B
  <1> SUFFICES ASSUME Nat \ B # {} PROVE FALSE
    OBVIOUS
  <1>1. PICK x \in Nat \ B : \A y \in Nat \ B : x <= y
    BY NatLeast
  <1>2. x - 1 \in Nat /\ x - 1 \in B
    <2>1. x # 0
      OBVIOUS
    <2>2. x - 1 \in Nat /\ ~(x <= x - 1)
      BY <2>1
    <2>. QED BY <2>2, <1>1
  <1>3. x - 1 + 1 \in B
    BY <1>2
  <1>. QED BY <1>3

\* f is the concatenation of the packets of q: g[i] is that of those behind
\* the i-th.
IsFlat(q, f) ==
    \E g \in [0 .. Len(q) -> Seq(Chunk)] :
        /\ g[0] = f
        /\ g[Len(q)] = <<>>
        /\ \A i \in 0 .. Len(q) - 1 : g[i] = q[i + 1] \o g[i + 1]

LEMMA FlatEmpty == IsFlat(<<>>, <<>>)
<1>. DEFINE g == [i \in 0 .. 0 |-> <<>>]
<1>1. Len(<<>>) = 0 /\ g \in [0 .. 0 -> Seq(Chunk)] /\ g[0] = <<>>
  OBVIOUS
<1>. HIDE DEF g
<1>. QED BY <1>1 DEF IsFlat

LEMMA FlatHead ==
    ASSUME NEW q \in Seq(Seq(Chunk)), q # <<>>, NEW f, IsFlat(q, f)
    PROVE  \E h \in Seq(Chunk) : f = Head(q) \o h /\ IsFlat(Tail(q), h)
<1>1. PICK g \in [0 .. Len(q) -> Seq(Chunk)] :
          g[0] = f /\ g[Len(q)] = <<>> /\ \A i \in 0 .. Len(q) - 1 : g[i] = q[i + 1] \o g[i + 1]
  BY DEF IsFlat
<1>2. Len(q) \in Nat \ {0} /\ Len(Tail(q)) = Len(q) - 1 /\ Head(q) = q[1]
      /\ \A i \in 1 .. Len(q) - 1 : Tail(q)[i] = q[i + 1]
  BY NotEmpty
<1>. DEFINE k == [i \in 0 .. Len(q) - 1 |-> g[i + 1]]
<1>3. k \in [0 .. Len(Tail(q)) -> Seq(Chunk)]
  BY <1>2
<1>4. k[0] = g[1] /\ k[Len(Tail(q))] = <<>>
  BY <1>1, <1>2
<1>5. ASSUME NEW i \in 0 .. Len(Tail(q)) - 1 PROVE k[i] = Tail(q)[i + 1] \o k[i + 1]
  <2>1. /\ i \in 0 .. Len(q) - 1 /\ i + 1 \in 0 .. Len(q) - 1 /\ i + 1 \in 1 .. Len(q) - 1
    BY <1>2
  <2>2. g[i + 1] = q[i + 1 + 1] \o g[i + 1 + 1]
    BY <1>1, <2>1
  <2>3. k[i] = g[i + 1] /\ k[i + 1] = g[i + 1 + 1]
    BY <2>1
  <2>. QED BY <1>2, <2>1, <2>2, <2>3
<1>6. IsFlat(Tail(q), g[1])
  BY <1>3, <1>4, <1>5 DEF IsFlat
<1>7. f = Head(q) \o g[1] /\ g[1] \in Seq(Chunk)
  <2>1. 0 \in 0 .. Len(q) - 1 /\ 1 \in 0 .. Len(q) /\ 0 + 1 = 1
    BY <1>2
  <2>2. g[0] = q[0 + 1] \o g[0 + 1]
    BY <1>1, <2>1
  <2>. QED BY <1>1, <1>2, <2>1, <2>2
<1>. QED BY <1>6, <1>7

LEMMA FlatAppend ==
    ASSUME NEW q \in Seq(Seq(Chunk)), NEW p \in Seq(Chunk), NEW f, IsFlat(q, f)
    PROVE  IsFlat(Append(q, p), f \o p)
<1>1. PICK g \in [0 .. Len(q) -> Seq(Chunk)] :
          g[0] = f /\ g[Len(q)] = <<>> /\ \A i \in 0 .. Len(q) - 1 : g[i] = q[i + 1] \o g[i + 1]
  BY DEF IsFlat
<1>2. /\ Len(q) \in Nat /\ Len(Append(q, p)) = Len(q) + 1 /\ Append(q, p)[Len(q) + 1] = p
      /\ \A i \in 1 .. Len(q) : Append(q, p)[i] = q[i] /\ q[i] \in Seq(Chunk)
  OBVIOUS
<1>. DEFINE k == [i \in 0 .. Len(q) + 1 |-> IF i = Len(q) + 1 THEN <<>> ELSE g[i] \o p]
<1>3. k \in [0 .. Len(q) + 1 -> Seq(Chunk)]
  <2>1. ASSUME NEW i \in 0 .. Len(q) + 1, i # Len(q) + 1 PROVE g[i] \o p \in Seq(Chunk)
    <3>1. i \in 0 .. Len(q)
      BY <1>2, <2>1
    <3>. QED BY <3>1
  <2>. QED BY <2>1
<1>4. k[0] = f \o p /\ k[Len(q) + 1] = <<>>
  BY <1>1, <1>2
<1>5. ASSUME NEW i \in 0 .. Len(q) PROVE k[i] = Append(q, p)[i + 1] \o k[i + 1]
  <2>0. i \in 0 .. Len(q) + 1 /\ i + 1 \in 0 .. Len(q) + 1 /\ i # Len(q) + 1
    BY <1>2
  <2>1. CASE i = Len(q)
    <3>1. k[i] = <<>> \o p /\ k[i + 1] = <<>> /\ Append(q, p)[i + 1] = p
      BY <1>1, <1>2, <2>0, <2>1
    <3>2. <<>> \o p = p /\ p \o <<>> = p
      BY ConcatEmptySeq
    <3>. QED BY <3>1, <3>2
  <2>2. CASE i # Len(q)
    <3>1. i \in 0 .. Len(q) - 1 /\ i + 1 \in 1 .. Len(q) /\ i + 1 \in 0 .. Len(q) /\ i + 1 # Len(q) + 1
      BY <1>2, <2>2
    <3>2. k[i] = g[i] \o p /\ k[i + 1] = g[i + 1] \o p
      BY <2>0, <3>1
    <3>3. g[i] = q[i + 1] \o g[i + 1] /\ g[i + 1] \in Seq(Chunk) /\ q[i + 1] \in Seq(Chunk)
      BY <1>1, <1>2, <3>1
    <3>4. \A x, y \in Seq(Chunk) : (x \o y) \o p = x \o (y \o p)
      BY ConcatAssociative
    <3>. QED BY <1>2, <3>1, <3>2, <3>3, <3>4
  <2>. QED BY <2>1, <2>2
<1>6. /\ k \in [0 .. Len(Append(q, p)) -> Seq(Chunk)] /\ k[Len(Append(q, p))] = <<>>
      /\ \A i \in 0 .. Len(Append(q, p)) - 1 : k[i] = Append(q, p)[i + 1] \o k[i + 1]
  <2>1. Len(Append(q, p)) - 1 = Len(q)
    BY <1>2
  <2>2. \A i \in 0 .. Len(q) : k[i] = Append(q, p)[i + 1] \o k[i + 1]
    BY <1>5
  <2>. HIDE DEF k
  <2>3. \A i \in 0 .. Len(Append(q, p)) - 1 : k[i] = Append(q, p)[i + 1] \o k[i + 1]
    BY ONLY <2>1, <2>2, Zenon
  <2>. QED BY <1>2, <1>3, <1>4, <2>3
<1>. HIDE DEF k
<1>. QED BY <1>4, <1>6 DEF IsFlat

LEMMA SilentConcat ==
    ASSUME NEW a \in Seq(Chunk), NEW b \in Seq(Chunk), NEW t, Silent(a, t), Silent(b, t)
    PROVE  Silent(a \o b, t)
<1>. SUFFICES ASSUME NEW i \in 1 .. Len(a \o b) PROVE ~((a \o b)[i].kind = "csw" /\ (a \o b)[i].of = t)
  BY DEF Silent
<1>1. CASE i \in 1 .. Len(a)
  BY <1>1 DEF Silent
<1>2. CASE i \notin 1 .. Len(a)
  <2>1. i - Len(a) \in 1 .. Len(b) /\ (a \o b)[i] = b[i - Len(a)]
    BY <1>2
  <2>. QED BY <2>1 DEF Silent
<1>. QED BY <1>1, <1>2

LEMMA FlatSilent ==
    ASSUME NEW t, NEW q \in Seq(Seq(Chunk)), \A i \in 1 .. Len(q) : Silent(q[i], t)
    PROVE  \E f \in Seq(Chunk) : IsFlat(q, f) /\ Silent(f, t)
<1>. DEFINE B == {n \in Nat : \A r \in Seq(Seq(Chunk)) :
                    Len(r) = n /\ (\A i \in 1 .. Len(r) : Silent(r[i], t))
                      => \E f \in Seq(Chunk) : IsFlat(r, f) /\ Silent(f, t)}
<1>1. 0 \in B
  <2>1. ASSUME NEW r \in Seq(Seq(Chunk)), Len(r) = 0 PROVE \E f \in Seq(Chunk) : IsFlat(r, f) /\ Silent(f, t)
    <3>1. r = <<>>
      BY <2>1, EmptySeq
    <3>2. <<>> \in Seq(Chunk) /\ Silent(<<>>, t)
      BY DEF Silent
    <3>. QED BY <3>1, <3>2, FlatEmpty
  <2>. QED BY <2>1
<1>2. ASSUME NEW n \in Nat, n \in B PROVE n + 1 \in B
  <2>. SUFFICES ASSUME NEW r \in Seq(Seq(Chunk)), Len(r) = n + 1, \A i \in 1 .. Len(r) : Silent(r[i], t)
                PROVE  \E f \in Seq(Chunk) : IsFlat(r, f) /\ Silent(f, t)
    OBVIOUS
  <2>1. PICK s \in Seq(Seq(Chunk)), p \in Seq(Chunk) : r = Append(s, p)
    <3>1. r # <<>>
      OBVIOUS
    <3>. QED BY <3>1, SequenceEmptyOrAppend
  <2>2. Len(s) = n /\ p = r[n + 1] /\ \A i \in 1 .. Len(s) : s[i] = r[i] /\ i \in 1 .. Len(r)
    BY <2>1
  <2>3. Silent(p, t) /\ \A i \in 1 .. Len(s) : Silent(s[i], t)
    BY <2>2
  <2>4. PICK f \in Seq(Chunk) : IsFlat(s, f) /\ Silent(f, t)
    BY <1>2, <2>2, <2>3
  <2>5. IsFlat(r, f \o p) /\ Silent(f \o p, t) /\ f \o p \in Seq(Chunk)
    BY <2>1, <2>3, <2>4, FlatAppend, SilentConcat
  <2>. QED BY <2>5
<1>. HIDE DEF B
<1>3. Nat \subseteq B
  BY <1>1, <1>2, SetInduction
<1>4. Len(q) \in B
  BY <1>3
<1>. QED BY <1>4 DEF B

-----------------------------------------------------------------------------
(* The answers are right                                                   *)

\* The chunks of packets of one each
Ones(s) == [i \in 1 .. Len(s) |-> s[i][1]]

\* What the loop has still to hand to sunxi_usb_send_data
Future ==
    IF pc \in {SEND_DATA, "sendData"} \/ status = SEND_DATA THEN send \o <<Csw>>
    ELSE IF pc \in {STATUS, "sendCsw"} \/ status = STATUS THEN <<Csw>> ELSE <<>>

\* All the host has received and will receive in this command, in order
Stream(s) ==
    \E f \in Seq(Chunk) :
        IsFlat(txQueue, f) /\ s = Ones(got) \o (f \o (txLoad \o (left \o Future)))

Data(o, c) == IF o \in {"fixed", "built", "read", "readMany"} THEN Buffered(o, c) ELSE <<>>

\* What a command sends and its status, which belong together
Outcome(o, c, n) ==
    CASE o = "test" -> n = 0
      [] o \in {"fixed", "built"} -> c = o /\ n = 0
      [] o \in {"read", "readMany"} -> (n = 0 /\ c = o) \/ n = 1
      [] OTHER -> n = 1

\* The command's data and its status end it; before them comes no answer to it.
EndsWithAnswer(s) ==
    \E a \in Seq(Chunk), c \in Content :
        Silent(a, tag) /\ Outcome(want, c, csw.status) /\ s = a \o (Data(want, c) \o <<Csw>>)

Answering ==
    TakenUp /\ want # "write" => \E s \in Seq(Chunk) : Stream(s) /\ EndsWithAnswer(s)

LEMMA Assoc == \A a, b, c \in Seq(Chunk) : (a \o b) \o c = a \o (b \o c)
BY ConcatAssociative

LEMMA NoneBefore == \A a \in Seq(Chunk) : a \o <<>> = a /\ <<>> \o a = a
BY ConcatEmptySeq

LEMMA ConcatType == \A a, b \in Seq(Chunk) : a \o b \in Seq(Chunk)
OBVIOUS

\* Loading a chunk, marking a packet, receiving one: the stream is the same.
LEMMA LoadKeeps ==
    ASSUME NEW x \in Seq(Chunk), NEW l \in Seq(Chunk), NEW r \in Seq(Chunk), l # <<>>
    PROVE  Append(x, Head(l)) \o (Tail(l) \o r) = x \o (l \o r)
<1>1. Len(l) \in Nat \ {0}
  BY NotEmpty
<1>2. Head(l) \in Chunk /\ Tail(l) \in Seq(Chunk) /\ <<Head(l)>> \in Seq(Chunk)
  BY <1>1
<1>3. Append(x, Head(l)) = x \o <<Head(l)>>
  BY <1>2, AppendIsConcat
<1>4. <<Head(l)>> \o Tail(l) = l
  BY <1>1, <1>2
<1>5. (x \o <<Head(l)>>) \o (Tail(l) \o r) = x \o (<<Head(l)>> \o (Tail(l) \o r))
  BY <1>2, Assoc, ConcatType
<1>6. <<Head(l)>> \o (Tail(l) \o r) = l \o r
  BY <1>2, <1>4, Assoc
<1>. QED BY <1>3, <1>5, <1>6

LEMMA MarkKeeps ==
    ASSUME NEW f \in Seq(Chunk), NEW x \in Seq(Chunk), NEW r \in Seq(Chunk)
    PROVE  (f \o x) \o (<<>> \o r) = f \o (x \o r)
BY Assoc, NoneBefore

LEMMA OnesType ==
    ASSUME NEW s \in Seq(Seq(Chunk)), \A i \in 1 .. Len(s) : IsBlock(s[i])
    PROVE  /\ Ones(s) \in Seq(Chunk) /\ Len(Ones(s)) = Len(s)
           /\ \A i \in 1 .. Len(s) : Ones(s)[i] = s[i][1] /\ s[i] = <<Ones(s)[i]>>
           /\ \A t : Silent(Ones(s), t)
<1>1. \A i \in 1 .. Len(s) : s[i][1] \in Chunk /\ s[i][1].kind = "data" /\ s[i] = <<s[i][1]>>
  BY DEF IsBlock
<1>2. Ones(s) \in Seq(Chunk) /\ Len(Ones(s)) = Len(s)
  BY <1>1 DEF Ones
<1>3. \A i \in 1 .. Len(s) : Ones(s)[i] = s[i][1]
  BY DEF Ones
<1>. QED BY <1>1, <1>2, <1>3 DEF Silent

LEMMA OneMore ==
    ASSUME NEW q \in Seq(Chunk), NEW p \in Seq(Chunk), Len(p) = 1, NEW n \in Nat, Len(q) = n
    PROVE  /\ q \o p \in Seq(Chunk) /\ Len(q \o p) = n + 1
           /\ \A i \in 1 .. n : (q \o p)[i] = q[i]
           /\ (q \o p)[n + 1] = p[1]
<1>1. /\ q \o p \in Seq(Chunk) /\ Len(q \o p) = n + 1
      /\ \A i \in 1 .. n + 1 : (q \o p)[i] = IF i <= n THEN q[i] ELSE p[i - n]
  <2>1. /\ q \o p \in Seq(Chunk) /\ Len(q \o p) = Len(q) + Len(p)
        /\ \A i \in 1 .. Len(q) + Len(p) : (q \o p)[i] = IF i <= Len(q) THEN q[i] ELSE p[i - Len(q)]
    BY ConcatProperties
  <2>. QED BY <2>1
<1>2. n + 1 \in 1 .. n + 1 /\ ~(n + 1 <= n) /\ n + 1 - n = 1
  OBVIOUS
<1>3. \A i \in 1 .. n : i \in 1 .. n + 1 /\ i <= n
  OBVIOUS
<1>. QED BY <1>1, <1>2, <1>3

LEMMA ReceiveKeeps ==
    ASSUME NEW s \in Seq(Seq(Chunk)), NEW p \in Seq(Chunk), IsBlock(p),
           \A i \in 1 .. Len(s) : IsBlock(s[i]),
           NEW h \in Seq(Chunk), NEW r \in Seq(Chunk)
    PROVE  Ones(Append(s, p)) \o (h \o r) = Ones(s) \o ((p \o h) \o r)
<1>1. Ones(s) \in Seq(Chunk) /\ Len(Ones(s)) = Len(s) /\ \A i \in 1 .. Len(s) : Ones(s)[i] = s[i][1]
  BY OnesType
<1>2. Ones(Append(s, p)) = Ones(s) \o p
  <2>1. /\ Len(Append(s, p)) = Len(s) + 1 /\ Len(s) \in Nat /\ Append(s, p) \in Seq(Seq(Chunk))
        /\ \A i \in 1 .. Len(s) : Append(s, p)[i] = s[i]
        /\ Append(s, p)[Len(s) + 1] = p
    OBVIOUS
  <2>2. \A i \in 1 .. Len(s) + 1 : IsBlock(Append(s, p)[i])
    BY <2>1
  <2>3. /\ Ones(Append(s, p)) \in Seq(Chunk) /\ Len(Ones(Append(s, p))) = Len(s) + 1
        /\ \A i \in 1 .. Len(s) + 1 : Ones(Append(s, p))[i] = Append(s, p)[i][1]
    BY <2>1, <2>2, OnesType
  <2>4. Len(p) = 1
    BY DEF IsBlock
  <2>5. /\ Ones(s) \o p \in Seq(Chunk) /\ Len(Ones(s) \o p) = Len(s) + 1
        /\ \A i \in 1 .. Len(s) : (Ones(s) \o p)[i] = Ones(s)[i]
        /\ (Ones(s) \o p)[Len(s) + 1] = p[1]
    BY <1>1, <2>1, <2>4, OneMore
  <2>6. \A i \in 1 .. Len(s) + 1 : i \in 1 .. Len(s) \/ i = Len(s) + 1
    BY <2>1
  <2>7. ASSUME NEW i \in 1 .. Len(s) + 1 PROVE Ones(Append(s, p))[i] = (Ones(s) \o p)[i]
    <3>1. CASE i \in 1 .. Len(s)
      BY <1>1, <2>1, <2>3, <2>5, <3>1
    <3>2. CASE i = Len(s) + 1
      BY <2>1, <2>3, <2>5, <3>2
    <3>. QED BY <2>6, <3>1, <3>2
  <2>. QED BY <2>3, <2>5, <2>7, SeqEqual
<1>3. (Ones(s) \o p) \o (h \o r) = Ones(s) \o (p \o (h \o r))
  <2>1. h \o r \in Seq(Chunk)
    OBVIOUS
  <2>. QED BY <1>1, <2>1, Assoc
<1>4. p \o (h \o r) = (p \o h) \o r
  BY Assoc
<1>. QED BY <1>2, <1>3, <1>4

LEMMA FutureType == TypeOK => Future \in Seq(Chunk)
<1>. SUFFICES ASSUME TypeOK PROVE Future \in Seq(Chunk)
  OBVIOUS
<1>1. Csw \in Chunk /\ send \in Seq(Chunk)
  BY CswType DEF TypeOK, LoopOK
<1>2. <<Csw>> \in Seq(Chunk) /\ send \o <<Csw>> \in Seq(Chunk) /\ <<>> \in Seq(Chunk)
  BY <1>1
<1>. QED BY <1>2 DEF Future

\* What is loaded, marked or received leaves the stream as it is; so does the
\* loop, as long as it does not decode another command.
LEMMA StreamStep ==
    ASSUME ShapeInv, CommandInv, [Next]_vars, NEW s, Stream(s),
           TakenUp, want # "write", TakenUp', UNCHANGED <<want, tag, csw>>,
           phase' \in Commanding, pc # "decode"
    PROVE  Stream(s)'
<1>0. /\ TypeOK /\ ResetIsLast /\ WriterShape /\ LoopShape /\ ControlShape /\ HostShape
      /\ left \in Seq(Chunk) /\ txLoad \in Seq(Chunk) /\ txQueue \in Seq(Seq(Chunk))
      /\ got \in Seq(Seq(Chunk)) /\ Future \in Seq(Chunk) /\ send \in Seq(Chunk)
      /\ \A i \in 1 .. Len(got) : IsBlock(got[i])
  BY FutureType DEF ShapeInv, IInv, TypeOK, WriterOK, FifosOK, HostOK, LoopOK, HostShape
<1>1. PICK f \in Seq(Chunk) :
          IsFlat(txQueue, f) /\ s = Ones(got) \o (f \o (txLoad \o (left \o Future)))
  BY DEF Stream
<1>2. phase \in Commanding /\ phase \notin Enumerating
  BY DEF TakenUp, Commanding, Enumerating
<1>3. ASSUME UNCHANGED <<txQueue, txLoad, left, got, pc, status, send>> PROVE Stream(s)'
  BY <1>1, <1>3 DEF Stream, Future, Csw
<1>4. CASE UNCHANGED vars
  BY <1>3, <1>4 DEF vars, usbVars, fifos, write, loopVars, hostVars
<1>5. CASE IrqReset /\ UNCHANGED hostVars
  BY <1>0, <1>2, <1>5 DEF ResetIsLast, IrqReset, Commanding
<1>6. CASE IrqEndpoints /\ UNCHANGED <<loopVars, hostVars>>
  <2>1. UNCHANGED <<txLoad, txQueue, write>>
    BY <1>0, <1>2, <1>6, EndpointFifos DEF ControlShape
  <2>. QED BY <1>3, <1>6, <2>1 DEF write, loopVars, hostVars
<1>7. CASE DmaTake /\ UNCHANGED <<loopVars, hostVars>>
  BY <1>3, <1>7 DEF DmaTake, write, loopVars, hostVars
<1>8. CASE WriteStep /\ UNCHANGED <<loopVars, hostVars>>
  <2>0. UNCHANGED <<got, pc, status, send>> /\ Future' = Future
    BY <1>8 DEF loopVars, hostVars, Future, Csw
  <2>1. CASE SelectBulkIn \/ PacketSent \/ WriteDone
    BY <2>0, <2>1, <1>3 DEF SelectBulkIn, PacketSent, WriteDone, fifos
  <2>2. CASE LoadPacket
    <3>1. left # <<>> /\ txLoad' = Append(txLoad, Head(left)) /\ left' = Tail(left) /\ UNCHANGED txQueue
      BY <2>2 DEF LoadPacket
    <3>2. txLoad' \o (left' \o Future') = txLoad \o (left \o Future)
      BY <1>0, <2>0, <3>1, LoadKeeps
    <3>. QED BY <1>1, <2>0, <3>1, <3>2 DEF Stream
  <2>3. CASE MarkReady
    <3>1. CASE epind = 1
      <4>1. txQueue' = Append(txQueue, txLoad) /\ txLoad' = <<>> /\ UNCHANGED left
        BY <2>3, <3>1 DEF MarkReady
      <4>2. IsFlat(txQueue', f \o txLoad) /\ f \o txLoad \in Seq(Chunk)
        BY <1>0, <1>1, <4>1, FlatAppend
      <4>3. left \o Future \in Seq(Chunk)
        BY <1>0, ConcatType
      <4>4. (f \o txLoad) \o (<<>> \o (left \o Future)) = f \o (txLoad \o (left \o Future))
        BY <1>0, <4>3, MarkKeeps
      <4>. QED BY <1>1, <2>0, <4>1, <4>2, <4>4 DEF Stream
    <3>2. CASE epind # 1
      BY <1>3, <2>0, <2>3, <3>2 DEF MarkReady
    <3>. QED BY <3>1, <3>2
  <2>. QED BY <1>8, <2>1, <2>2, <2>3 DEF WriteStep
<1>9. CASE LoopActs
  <2>0. UNCHANGED <<txQueue, txLoad, got>> /\ writer = "off"
    BY <1>9, LoopFrame DEF fifos, hostVars
  <2>1. left = <<>>
    BY <1>0, <2>0 DEF WriterShape
  <2>2. ASSUME UNCHANGED <<left, send>>, Future' = Future PROVE Stream(s)'
    BY <1>1, <2>0, <2>2 DEF Stream
  <2>3. CASE Dispatch \/ Accept \/ Reject \/ Commit \/ MoveOn \/ Finish
    <3>1. UNCHANGED <<left, send, csw>>
      BY <2>3 DEF Dispatch, Accept, Reject, Commit, MoveOn, Finish, usbVars, write
    <3>2. Future' = Future
      BY <1>0, <1>2, <2>3, <3>1 DEF Dispatch, Accept, Reject, Commit, MoveOn, Finish, At, Future, Csw,
         LoopShape, SEND_DATA, STATUS, IDLE, SETUP, RECEIVE_DATA
    <3>. QED BY <2>2, <3>1, <3>2
  <2>4. CASE SendDataStep
    <3>1. left' = send /\ pc = "sendData" /\ status = STATUS /\ pc' = "top" /\ UNCHANGED <<status, send>>
      BY <1>0, <1>2, <2>4 DEF SendDataStep, SendData, At, LoopShape
    <3>2. Future = send \o <<Csw>> /\ Future' = <<Csw>>
      BY <3>1 DEF Future, Csw, STATUS, SEND_DATA
    <3>3. left \o Future = left' \o Future'
      <4>1. send \o <<Csw>> \in Seq(Chunk)
        BY <1>0, <3>2
      <4>. QED BY <2>1, <3>1, <3>2, <4>1, NoneBefore
    <3>. QED BY <1>1, <2>0, <3>3 DEF Stream
  <2>5. CASE SendCsw
    <3>1. left' = <<Csw>> /\ pc = "sendCsw" /\ status = IDLE /\ pc' = "top" /\ UNCHANGED status
      BY <1>0, <1>2, <2>5 DEF SendCsw, SendData, At, LoopShape
    <3>2. Future = <<Csw>> /\ Future' = <<>>
      BY <3>1 DEF Future, Csw, STATUS, SEND_DATA, IDLE
    <3>3. left \o Future = left' \o Future'
      <4>1. <<Csw>> \in Seq(Chunk)
        BY <1>0, <3>2
      <4>. QED BY <2>1, <3>1, <3>2, <4>1, NoneBefore
    <3>. QED BY <1>1, <2>0, <3>3 DEF Stream
  <2>6. ~CopyTag /\ ~Decode
    BY DEF CopyTag, Decode, At, TakenUp
  <2>. QED BY <1>9, <2>3, <2>4, <2>5, <2>6 DEF LoopActs
<1>10. CASE HostActs
  <2>0. UNCHANGED <<left, pc, status, send>> /\ Future' = Future
    BY <1>10, Frames DEF loopVars, write, Future, Csw
  <2>1. CASE ReceiveData
    <3>1. IsBlock(Head(txQueue)) /\ txQueue # <<>>
      BY <1>0, <2>1, ReceivesBlock
    <3>2. got' = Append(got, Head(txQueue)) /\ txQueue' = Tail(txQueue) /\ UNCHANGED txLoad
      BY <2>1 DEF ReceiveData, PacketIn
    <3>3. PICK h \in Seq(Chunk) : f = Head(txQueue) \o h /\ IsFlat(txQueue', h)
      BY <1>0, <1>1, <3>1, <3>2, FlatHead
    <3>4. Head(txQueue) \in Seq(Chunk)
      BY <1>0, <3>1
    <3>5. txLoad \o (left \o Future) \in Seq(Chunk)
      BY <1>0, ConcatType
    <3>6. ASSUME NEW r \in Seq(Chunk) PROVE Ones(got') \o (h \o r) = Ones(got) \o (f \o r)
      <4>1. ASSUME NEW g \in Seq(Seq(Chunk)), \A i \in 1 .. Len(g) : IsBlock(g[i]),
                   NEW p \in Seq(Chunk), IsBlock(p)
            PROVE  Ones(Append(g, p)) \o (h \o r) = Ones(g) \o ((p \o h) \o r)
        BY <4>1, ReceiveKeeps
      <4>. QED BY <1>0, <3>1, <3>2, <3>3, <3>4, <4>1
    <3>7. Ones(got') \o (h \o (txLoad \o (left \o Future))) = s
      BY <1>1, <3>5, <3>6
    <3>. QED BY <2>0, <3>2, <3>3, <3>7 DEF Stream
  <2>2. CASE SendCbw \/ SendOut \/ OtherRequest
    <3>1. UNCHANGED <<txQueue, txLoad>> /\ UNCHANGED got
      BY <2>2 DEF SendCbw, SendOut, PacketOut, OtherRequest, Control, fifos
    <3>. QED BY <1>3, <2>0, <3>1
  <2>3. CASE Configured \/ \E o \in Ops : Submit(o)
    <3>1. phase \notin Commanding
      BY <2>3 DEF Configured, Submit, Commanding
    <3>. QED BY <1>2, <3>1
  <2>4. ~(ReceiveCsw \/ WrongPacket \/ Timeout \/ EarlyReset \/ Enumerate)
    BY <1>2 DEF ReceiveCsw, WrongPacket, Timeout, EarlyReset, ResetDevice, Enumerate, Request, Commanding,
       Enumerating
  <2>. QED BY <1>10, <2>1, <2>2, <2>3, <2>4 DEF HostActs, HostStep
<1>. QED BY Steps, <1>4, <1>5, <1>6, <1>7, <1>8, <1>9, <1>10


\* Decoding a command makes its answer what is sent last.
LEMMA DecodeAnswers ==
    ASSUME ShapeInv, CommandInv, Decode, TakenUp', want' # "write"
    PROVE  \E s \in Seq(Chunk) : (Stream(s) /\ EndsWithAnswer(s))'
<1>0. /\ TypeOK /\ LoopShape /\ WriterShape /\ HostShape /\ DecodesWant /\ Unanswered
      /\ left \in Seq(Chunk) /\ txLoad \in Seq(Chunk) /\ txQueue \in Seq(Seq(Chunk))
      /\ got \in Seq(Seq(Chunk)) /\ \A i \in 1 .. Len(got) : IsBlock(got[i])
      /\ sendBuf \in Content /\ DecodesCbw
  BY DEF ShapeInv, IInv, CommandInv, TypeOK, WriterOK, FifosOK, HostOK, HostShape, LoopOK
<1>1. /\ UNCHANGED <<fifos, left, hostVars, status>> /\ pc = "decode" /\ writer = "off"
      /\ csw'.tag = csw.tag
  BY <1>0 DEF Decode, At, Decoded, DecodeRead, write, TypeOK, LoopOK
<1>2. phase \in Commanding /\ csw.tag = tag /\ UNCHANGED <<want, tag, got>>
  BY <1>1 DEF TakenUp, hostVars
<1>3. rxReq.op = want /\ left = <<>> /\ status = SETUP
  BY <1>0, <1>1, <1>2 DEF DecodesWant, Cbw, WriterShape, LoopShape, Commanding, Enumerating
<1>4. want \in Ops /\ want \in Content
  BY <1>0, <1>2 DEF HostShape, Content
<1>5. NoAnswer(left, txLoad, txQueue, tag)
  BY <1>0, <1>1, <1>2 DEF Unanswered, TakenUp
<1>6. PICK f \in Seq(Chunk) : IsFlat(txQueue, f) /\ Silent(f, tag)
  BY <1>0, <1>5, FlatSilent DEF NoAnswer
<1>6a. ASSUME NEW o \in Seq(Chunk), NEW r \in Seq(Chunk)
      PROVE  (o \o (f \o txLoad)) \o r = o \o (f \o (txLoad \o r))
  <2>1. PICK x \in Seq(Chunk) : x = txLoad
    BY <1>0
  <2>2. f \o x \in Seq(Chunk)
    BY ConcatProperties
  <2>3. PICK y \in Seq(Chunk) : y = f \o x
    BY <2>2
  <2>4. (o \o y) \o r = o \o (y \o r)
    BY ConcatAssociative
  <2>5. (f \o x) \o r = f \o (x \o r)
    BY ConcatAssociative
  <2>. QED BY <2>1, <2>3, <2>4, <2>5
<1>7. TypeOK' /\ Future' \in Seq(Chunk)
  <2>1. [Next]_vars
    BY DEF Next, StateLoop
  <2>2. TypeOK'
    BY <2>1, InvStep DEF ShapeInv, IInv
  <2>3. Csw' \in Chunk /\ send' \in Seq(Chunk)
    BY <2>2 DEF TypeOK, LoopOK, Csw, Chunk
  <2>4. <<Csw'>> \in Seq(Chunk) /\ send' \o <<Csw'>> \in Seq(Chunk) /\ <<>> \in Seq(Chunk)
    BY <2>3
  <2>. QED BY <2>2, <2>4 DEF Future, Csw
<1>8. \E c \in Content : Outcome(want, c, csw'.status) /\ Future' = Data(want, c) \o <<Csw'>>
  <2>0. <<>> \o <<Csw'>> = <<Csw'>>
    OBVIOUS
  <2>1. ASSUME pc' = STATUS PROVE Future' = <<Csw'>>
    BY <1>1, <1>3, <2>1 DEF Future, Csw, STATUS, SEND_DATA, SETUP
  <2>2. ASSUME NEW c, pc' = SEND_DATA, send' = Buffered(want, c)
        PROVE  Future' = Buffered(want, c) \o <<Csw'>>
    BY <2>2 DEF Future, Csw, Buffered
  <2>3. csw \in [tag : Tags \union {None}, status : {0, 1}]
    BY <1>0 DEF TypeOK, LoopOK
  <2>4. CASE want = "test"
    <3>1. pc' = STATUS /\ csw'.status = 0
      BY <1>3, <2>3, <2>4 DEF Decode, Decoded
    <3>. QED BY <1>4, <2>0, <2>1, <2>4, <3>1 DEF Outcome, Data
  <2>5. CASE want \in {"fixed", "built"}
    <3>1. pc' = SEND_DATA /\ csw'.status = 0 /\ send' = Buffered(want, want)
      BY <1>3, <2>3, <2>5 DEF Decode, Decoded
    <3>. QED BY <1>4, <2>2, <2>5, <3>1 DEF Outcome, Data
  <2>6. CASE want \in {"read", "readMany"}
    <3>1. DecodeRead(want)
      BY <1>3, <2>6 DEF Decode
    <3>2. CASE pc' = SEND_DATA /\ csw'.status = 0 /\ send' = Buffered(want, want)
      BY <1>4, <2>2, <2>6, <3>2 DEF Outcome, Data
    <3>3. CASE pc' = SEND_DATA /\ csw'.status = 1 /\ send' = Buffered(want, sendBuf)
      BY <1>0, <2>2, <2>6, <3>3 DEF Outcome, Data
    <3>. QED BY <2>3, <3>1, <3>2, <3>3 DEF DecodeRead, Decoded
  <2>7. CASE want \in {"other", "otherOut"}
    <3>1. pc' = STATUS /\ csw'.status = 1
      BY <1>3, <2>3, <2>7 DEF Decode, Decoded
    <3>. QED BY <1>4, <2>0, <2>1, <2>7, <3>1 DEF Outcome, Data
  <2>. QED BY <1>1, <1>2, <1>4, <2>4, <2>5, <2>6, <2>7, MassAssumption
<1>9. /\ Ones(got) \o (f \o txLoad) \in Seq(Chunk)
      /\ Silent(Ones(got) \o (f \o txLoad), tag)
  <2>1. Ones(got) \in Seq(Chunk) /\ Silent(Ones(got), tag)
    BY <1>0, OnesType
  <2>2. f \o txLoad \in Seq(Chunk) /\ Silent(f \o txLoad, tag)
    BY <1>0, <1>5, <1>6, SilentConcat DEF NoAnswer
  <2>3. \A o, r \in Seq(Chunk) : Silent(o, tag) /\ Silent(r, tag)
            => o \o r \in Seq(Chunk) /\ Silent(o \o r, tag)
    BY SilentConcat
  <2>. QED BY <2>1, <2>2, <2>3
<1>. PICK a \in Seq(Chunk), s \in Seq(Chunk) : a = Ones(got) \o (f \o txLoad) /\ s = a \o Future'
  BY <1>7, <1>9, ConcatType
<1>10. s = Ones(got') \o (f \o (txLoad' \o (left' \o Future')))
  <2>1. left' = <<>> /\ txLoad' = txLoad /\ got' = got
    BY <1>1, <1>2, <1>3 DEF fifos
  <2>2. <<>> \o Future' = Future'
    BY <1>7, NoneBefore
  <2>4. Ones(got) \in Seq(Chunk)
    BY <1>0, OnesType
  <2>5. s = Ones(got) \o (f \o (txLoad \o Future'))
    BY <1>7, <1>6a, <2>4
  <2>. QED BY <2>1, <2>2, <2>5
<1>11. Stream(s)'
  BY <1>1, <1>6, <1>10 DEF Stream, fifos
<1>12. EndsWithAnswer(s)'
  BY <1>2, <1>8, <1>9 DEF EndsWithAnswer
<1>. QED BY <1>11, <1>12

LEMMA AnsweringStep == ShapeInv /\ CommandInv /\ Answering /\ [Next]_vars => Answering'
<1>. SUFFICES ASSUME ShapeInv, CommandInv, Answering, [Next]_vars, TakenUp', want' # "write"
              PROVE  \E s \in Seq(Chunk) : (Stream(s) /\ EndsWithAnswer(s))'
  BY DEF Answering
<1>1. CASE Decode
  BY <1>1, DecodeAnswers
<1>2. CASE ~Decode
  <2>1. pc' # "decode"
    BY DEF TakenUp
  <2>2. pc # "decode"
    BY <1>2, <2>1, Steps, Frames DEF LoopActs, Dispatch, Accept, Reject, CopyTag, Commit, MoveOn,
       SendDataStep, Finish, SendCsw, At, vars, loopVars, SEND_DATA, RECEIVE_DATA, STATUS
  <2>3. UNCHANGED csw
    BY <1>2, <2>1, Steps, Frames DEF LoopActs, Dispatch, Accept, Reject, CopyTag, Commit, MoveOn,
       SendDataStep, Finish, SendCsw, vars, loopVars
  <2>4. phase \in Commanding /\ UNCHANGED <<want, tag>>
    <3>1. TypeOK
      BY DEF ShapeInv, IInv
    <3>2. ~(tag' = FreshTag /\ Tags \ TagsInUse # {})
      BY <2>3, <3>1, FreshTagIsFresh DEF TakenUp
    <3>3. CASE HostActs
      BY <3>1, <3>2, <3>3, HostWaits DEF TakenUp
    <3>4. CASE UNCHANGED hostVars
      BY <3>4 DEF TakenUp, hostVars
    <3>. QED BY <3>3, <3>4, Steps, LoopFrame DEF vars
  <2>5. TakenUp /\ want # "write" /\ phase' \in Commanding
    BY <2>2, <2>3, <2>4 DEF TakenUp
  <2>6. PICK s \in Seq(Chunk) : Stream(s) /\ EndsWithAnswer(s)
    BY <2>5 DEF Answering
  <2>7. Stream(s)'
    BY <2>2, <2>3, <2>4, <2>5, <2>6, StreamStep
  <2>8. EndsWithAnswer(s)'
    BY <2>3, <2>4, <2>6 DEF EndsWithAnswer, Csw
  <2>. QED BY <2>7, <2>8
<1>. QED BY <1>1, <1>2

LEMMA AlwaysAnswering == Spec => []Answering
<1>1. Init => Answering
  BY DEF Init, Answering, TakenUp, Commanding
<1>. QED BY <1>1, AnsweringStep, AlwaysShape, AlwaysCommand, PTL DEF Spec

\* The CSW the host takes for the end of its command ends the stream, so
\* that the data before it are the command's.
LEMMA AnswerIsRight ==
    ASSUME ShapeInv, CommandInv, Answering, ReceiveCsw
    PROVE  want \in Ops /\ answer' \in Right(want)
<1>0. /\ TypeOK /\ HostShape /\ Unanswered
      /\ left \in Seq(Chunk) /\ txLoad \in Seq(Chunk) /\ txQueue \in Seq(Seq(Chunk))
      /\ got \in Seq(Seq(Chunk)) /\ Future \in Seq(Chunk)
      /\ \A i \in 1 .. Len(got) : IsBlock(got[i])
  BY FutureType DEF ShapeInv, IInv, CommandInv, TypeOK, WriterOK, FifosOK, HostOK, HostShape
<1>1. /\ phase \in {"data", "status"} /\ txQueue # <<>> /\ IsCsw(Head(txQueue))
      /\ Head(txQueue)[1].of = tag /\ answer' = [data |-> got, status |-> Head(txQueue)[1].n]
  BY DEF ReceiveCsw, PacketIn
<1>2. Head(txQueue) = txQueue[1] /\ 1 \in 1 .. Len(txQueue) /\ Head(txQueue) \in Seq(Chunk)
  <2>1. Len(txQueue) \in Nat \ {0}
    BY <1>0, <1>1, NotEmpty
  <2>. QED BY <1>0, <2>1
<1>3. PICK x \in Chunk : Head(txQueue) = <<x>> /\ x.kind = "csw" /\ x.of = tag
  BY <1>1, <1>2 DEF IsCsw
<1>4. want \in Ops /\ phase \in Commanding
  BY <1>0, <1>1 DEF HostShape, Commanding
<1>5. TakenUp /\ want # "write"
  <2>1. ~Silent(txQueue[1], tag)
    <3>1. txQueue[1] = <<x>> /\ Len(<<x>>) = 1 /\ <<x>>[1] = x
      BY <1>2, <1>3
    <3>2. 1 \in 1 .. Len(txQueue[1]) /\ txQueue[1][1] = x
      BY <3>1
    <3>. QED BY <1>3, <3>2 DEF Silent
  <2>. QED BY <1>0, <1>2, <1>4, <2>1 DEF Unanswered, NoAnswer
<1>6. PICK s \in Seq(Chunk) : Stream(s) /\ EndsWithAnswer(s)
  BY <1>5 DEF Answering
<1>7. PICK r \in Seq(Chunk) : s = Ones(got) \o (<<x>> \o r)
  <2>1. PICK f \in Seq(Chunk) :
            IsFlat(txQueue, f) /\ s = Ones(got) \o (f \o (txLoad \o (left \o Future)))
    BY <1>6 DEF Stream
  <2>2. PICK h \in Seq(Chunk) : f = <<x>> \o h
    BY <1>0, <1>1, <1>3, <2>1, FlatHead
  <2>3. PICK e \in Seq(Chunk) : e = txLoad \o (left \o Future)
    BY <1>0, ConcatType
  <2>4. (<<x>> \o h) \o e = <<x>> \o (h \o e)
    BY ConcatAssociative, <1>3
  <2>5. h \o e \in Seq(Chunk)
    OBVIOUS
  <2>. QED BY <2>1, <2>2, <2>3, <2>4, <2>5
<1>8. PICK a \in Seq(Chunk), c \in Content :
          Silent(a, tag) /\ Outcome(want, c, csw.status) /\ s = a \o (Data(want, c) \o <<Csw>>)
  BY <1>6 DEF EndsWithAnswer
<1>9. /\ Data(want, c) \in Seq(Chunk)
      /\ \A i \in 1 .. Len(Data(want, c)) :
            Data(want, c)[i] = Block(c, i) /\ Data(want, c)[i].kind = "data"
      /\ want \in {"fixed", "built", "read", "readMany"} => Len(Data(want, c)) = Packets(want)
      /\ want \notin {"fixed", "built", "read", "readMany"} => Len(Data(want, c)) = 0
  <2>1. CASE want \in {"fixed", "built", "read", "readMany"}
    <3>1. Data(want, c) = [i \in 1 .. Packets(want) |-> Block(c, i)]
      BY <2>1 DEF Data, Buffered
    <3>2. Data(want, c) \in Seq(Chunk)
      BY <1>4, <2>1, BufferedType DEF Data
    <3>. QED BY <2>1, <3>1, <3>2, PacketsRange DEF Block
  <2>2. CASE want \notin {"fixed", "built", "read", "readMany"}
    BY <2>2 DEF Data
  <2>. QED BY <2>1, <2>2
<1>10. /\ Csw \in Chunk /\ csw.status \in {0, 1}
       /\ Ones(got) \in Seq(Chunk) /\ Len(Ones(got)) = Len(got)
       /\ \A i \in 1 .. Len(got) : got[i] = <<Ones(got)[i]>> /\ Ones(got)[i] = got[i][1]
  BY <1>0, CswType, OnesType DEF TypeOK, LoopOK
<1>11. /\ x = Csw /\ Len(got) = Len(a) + Len(Data(want, c))
       /\ \A i \in 1 .. Len(Data(want, c)) : Ones(got)[Len(a) + i] = Data(want, c)[i]
  <2>1. ASSUME NEW g \in Seq(Chunk), NEW d \in Seq(Chunk), NEW z \in Chunk,
               g \o (<<x>> \o r) = a \o (d \o <<z>>), \A i \in 1 .. Len(d) : d[i].kind = "data"
        PROVE  x = z /\ Len(g) = Len(a) + Len(d) /\ \A i \in 1 .. Len(d) : g[Len(a) + i] = d[i]
    <3>0. x.kind = "csw" /\ Silent(a, x.of)
      BY <1>3, <1>8
    <3>. DEFINE w == a \o (d \o <<z>>)
    <3>1. Len(a) \in Nat /\ Len(d) \in Nat /\ Len(g) \in Nat /\ Len(r) \in Nat
      OBVIOUS
    <3>2. /\ Len(w) = Len(a) + Len(d) + 1
          /\ \A i \in 1 .. Len(a) : w[i] = a[i]
          /\ \A i \in 1 .. Len(d) : w[Len(a) + i] = d[i]
          /\ w[Len(a) + Len(d) + 1] = z
      OBVIOUS
    <3>3. /\ Len(w) = Len(g) + 1 + Len(r)
          /\ \A i \in 1 .. Len(g) : w[i] = g[i]
          /\ w[Len(g) + 1] = x
      <4>1. <<x>> \o r \in Seq(Chunk) /\ Len(<<x>> \o r) = 1 + Len(r) /\ (<<x>> \o r)[1] = x
        OBVIOUS
      <4>2. ASSUME NEW q \in Seq(Chunk), Len(q) = 1 + Len(r), q[1] = x
            PROVE  /\ Len(g \o q) = Len(g) + 1 + Len(r)
                   /\ \A i \in 1 .. Len(g) : (g \o q)[i] = g[i]
                   /\ (g \o q)[Len(g) + 1] = x
        <5>1. /\ Len(g \o q) = Len(g) + Len(q)
              /\ \A i \in 1 .. Len(g) + Len(q) : (g \o q)[i] = IF i <= Len(g) THEN g[i] ELSE q[i - Len(g)]
          BY ConcatProperties
        <5>2. Len(g) + 1 \in 1 .. Len(g) + Len(q) /\ ~(Len(g) + 1 <= Len(g)) /\ Len(g) + 1 - Len(g) = 1
          BY <3>1, <4>2
        <5>3. (g \o q)[Len(g) + 1] = x
          BY <4>2, <5>1, <5>2
        <5>4. \A i \in 1 .. Len(g) : i \in 1 .. Len(g) + Len(q) /\ i <= Len(g)
          BY <3>1, <4>2
        <5>. QED BY <3>1, <4>2, <5>1, <5>3, <5>4
      <4>3. PICK q \in Seq(Chunk) : q = <<x>> \o r
        BY <4>1
      <4>4. w = g \o q
        BY <2>1, <4>3
      <4>. HIDE DEF w
      <4>. QED BY <4>1, <4>2, <4>3, <4>4
    <3>. HIDE DEF w
    <3>4. ~(Len(g) + 1 \in 1 .. Len(a))
      BY <3>0, <3>2, <3>3 DEF Silent
    <3>5. ASSUME Len(g) + 1 \in Len(a) + 1 .. Len(a) + Len(d) PROVE FALSE
      <4>1. Len(g) + 1 - Len(a) \in 1 .. Len(d) /\ Len(a) + (Len(g) + 1 - Len(a)) = Len(g) + 1
        BY <3>1, <3>5
      <4>2. PICK i \in 1 .. Len(d) : Len(a) + i = Len(g) + 1
        BY <4>1
      <4>3. w[Len(a) + i] = d[i]
        BY <3>2
      <4>. QED BY <2>1, <3>0, <3>3, <4>2, <4>3
    <3>6. Len(g) = Len(a) + Len(d)
      BY <3>1, <3>2, <3>3, <3>4, <3>5
    <3>7. x = z
      BY <3>2, <3>3, <3>6
    <3>8. ASSUME NEW i \in 1 .. Len(d) PROVE g[Len(a) + i] = d[i]
      <4>1. Len(a) + i \in 1 .. Len(g)
        BY <3>1, <3>6
      <4>. QED BY <3>2, <3>3, <4>1
    <3>. QED BY <3>6, <3>7, <3>8
  <2>2. Ones(got) \o (<<x>> \o r) = a \o (Data(want, c) \o <<Csw>>)
    BY <1>7, <1>8
  <2>. QED BY <1>9, <1>10, <2>1, <2>2
<1>12. answer' = [data |-> got, status |-> csw.status]
  BY <1>1, <1>3, <1>11 DEF Csw
<1>13. Len(got) <= Packets(want) /\ Len(got) \in Nat /\ Len(a) \in Nat
  <2>1. Packets(want) \in 0 .. 2 /\ Len(got) \in Nat /\ Len(a) \in Nat
    BY <1>0, PacketsRange
  <2>. QED BY <1>0, <1>1, <2>1 DEF HostShape
<1>14. CASE want \in {"fixed", "built", "read", "readMany"}
  <2>1. Len(a) = 0 /\ Len(got) = Packets(want)
    BY <1>9, <1>11, <1>13, <1>14, PacketsRange
  <2>2. got = [i \in 1 .. Packets(want) |-> <<Block(c, i)>>]
    <3>1. \A i \in 1 .. Packets(want) : got[i] = <<Block(c, i)>>
      BY <1>9, <1>10, <1>11, <1>14, <2>1
    <3>2. got = [i \in 1 .. Len(got) |-> got[i]]
      BY <1>0
    <3>. QED BY <2>1, <3>1, <3>2
  <2>3. CASE csw.status = 0
    <3>1. c = want
      BY <1>8, <1>14, <2>3 DEF Outcome
    <3>. QED BY <1>4, <1>12, <1>14, <2>2, <2>3, <3>1 DEF Right
  <2>4. CASE csw.status = 1
    <3>1. want \in {"read", "readMany"}
      BY <1>8, <1>14, <2>4 DEF Outcome
    <3>. QED BY <1>4, <1>12, <2>2, <2>4, <3>1 DEF Right
  <2>. QED BY <1>10, <2>3, <2>4
<1>15. CASE want \in {"test", "otherOut"}
  <2>1. got = <<>> /\ Packets(want) = 0
    BY <1>0, <1>13, <1>15 DEF Packets
  <2>2. csw.status = IF want = "test" THEN 0 ELSE 1
    BY <1>8, <1>15 DEF Outcome
  <2>. QED BY <1>4, <1>12, <1>15, <2>1, <2>2 DEF Right
<1>16. CASE want = "other"
  <2>. DEFINE D == {<<>>} \union {<<<<Block(e, n)>>>> : e \in Content, n \in {1, 2}}
  <2>0. ASSUME NEW d \in D PROVE [data |-> d, status |-> 1] \in Right(want)
    <3>1. Right("other") = {[data |-> u, status |-> 1] : u \in D}
      BY DEF Right
    <3>. HIDE DEF D
    <3>. QED BY <1>16, <3>1
  <2>1. csw.status = 1
    BY <1>8, <1>16 DEF Outcome
  <2>2. CASE Len(got) = 0
    <3>1. got = <<>>
      BY <1>0, <2>2, EmptySeq
    <3>. QED BY <1>4, <1>12, <2>0, <2>1, <3>1
  <2>3. CASE Len(got) = 1
    <3>1. got[1] = <<Ones(got)[1]>> /\ Ones(got)[1] \in Chunk /\ Ones(got)[1].kind = "data"
      BY <1>0, <1>10, <2>3 DEF IsBlock
    <3>2. PICK e \in Content, n \in {1, 2} : Ones(got)[1] = Block(e, n)
      BY <3>1 DEF Chunk, Block
    <3>3. got = [i \in 1 .. 1 |-> got[i]]
      BY <1>0, <2>3
    <3>4. got = <<<<Block(e, n)>>>>
      <4>1. got = <<got[1]>>
        BY <3>3
      <4>. QED BY <3>1, <3>2, <4>1
    <3>. QED BY <1>4, <1>12, <2>0, <2>1, <3>4
  <2>4. Packets(want) = 1
    BY <1>16 DEF Packets
  <2>5. Len(got) \in {0, 1}
    <3>1. ASSUME NEW n \in Nat, n <= 1 PROVE n \in {0, 1}
      BY <3>1
    <3>. QED BY <1>13, <2>4, <3>1
  <2>. QED BY <2>2, <2>3, <2>5
<1>. QED BY <1>4, <1>5, <1>14, <1>15, <1>16, MassAssumption

-----------------------------------------------------------------------------
(* An undisturbed device                                                   *)

\* The packet of READ of two that the loop does not mark ready, because the
\* interrupt of the first has changed the index
Spoil == IF want = "readMany" THEN 1 ELSE 0

DataOps == {"fixed", "built", "read", "readMany"}

\* The FIFO to the host and the call that fills it are empty.
NothingSent == left = <<>> /\ txLoad = <<>> /\ txQueue = <<>>

\* The call that sent the last CSW has returned or is about to.
Returning ==
    /\ NothingSent
    /\ writer \in {"off", "load", "spin"}
    /\ epind = 1 => "tx" \in pend

\* During an enumeration
Renewed ==
    /\ NothingSent /\ pc = "top" /\ epind = 0 /\ writer \in {"off", "load", "spin"}
    /\ "reset" \in pend \/ (status = IDLE /\ ~rxReady /\ ~dma)

\* Between commands
Resting ==
    /\ Returning /\ pc = "top" /\ status = IDLE
    /\ rxFifo = <<>> /\ ~rxReady /\ ~dma
    /\ pend \subseteq {"tx"}

\* The command is in the FIFO,
Sent ==
    /\ Returning /\ pc = "top" /\ status = IDLE
    /\ rxFifo # <<>> /\ Head(rxFifo) = Cbw(want, tag) /\ "rx" \in pend
    /\ want # "write" => Len(rxFifo) = 1
    /\ ~rxReady /\ ~dma /\ got = <<>>

\* Nothing else comes before the answer, except the data of WRITE.
Quiet == want # "write" => rxFifo = <<>> /\ ~dma /\ pend = {}

\* in the receive buffer,
Held ==
    /\ Returning /\ pc \in {"top", "accept"} /\ status = IDLE /\ epind = 0
    /\ rxReady /\ rxReq = Cbw(want, tag) /\ ~dma /\ got = <<>> /\ Quiet

\* being decoded;
Decoding ==
    /\ NothingSent /\ writer = "off"
    /\ status = SETUP /\ pc \in {"top", "check", "decode"}
    /\ pc = "decode" => csw.tag = tag
    /\ rxReady /\ rxReq = Cbw(want, tag) /\ ~dma /\ got = <<>> /\ Quiet

\* its data are to be sent,
DataDue ==
    /\ want \in DataOps /\ csw.tag = tag /\ got = <<>> /\ Quiet
    /\ NothingSent /\ writer = "off"
    /\ Len(send) = 1 + Spoil
    /\ \/ status = SETUP /\ pc = SEND_DATA
       \/ status = SEND_DATA /\ pc \in {"top", "moveOn"}
       \/ status = STATUS /\ pc = "sendData"

\* on their way,
DataGoing ==
    /\ want \in DataOps /\ csw.tag = tag /\ got = <<>> /\ Quiet
    /\ status = STATUS /\ pc = "top"
    /\ \A i \in 1 .. Len(left) : left[i].kind = "data"
    /\ \/ writer \in {"select", "load"} /\ Len(left) = 1 + Spoil /\ txLoad = <<>> /\ txQueue = <<>>
       \/ writer = "ready" /\ Len(left) = Spoil /\ IsBlock(txLoad) /\ txQueue = <<>>
       \/ writer = "spin" /\ Len(left) = Spoil /\ txLoad = <<>> /\ Len(txQueue) = 1 /\ IsBlock(txQueue[1])
    /\ writer # "select" => epind = 1

\* the first of them received;
DataGone ==
    /\ want \in DataOps /\ csw.tag = tag /\ Len(got) = 1
    /\ rxFifo = <<>> /\ ~dma /\ pend \subseteq {"tx"}
    /\ status = STATUS /\ pc = "top"
    /\ writer \in {"load", "ready", "spin"} /\ (pend # {} => writer = "spin")
    /\ Len(left) + Len(txLoad) = Spoil /\ txQueue = <<>>
    /\ epind = 1 => "tx" \in pend

Received == IF want \in DataOps THEN Len(got) = 1 ELSE got = <<>>

\* its status is to be sent,
StatusDue ==
    /\ want # "write" /\ csw.tag = tag /\ Received /\ Quiet
    /\ writer = "off" /\ left = <<>> /\ Len(txLoad) = Spoil /\ txQueue = <<>>
    /\ \/ status = SETUP /\ pc = STATUS
       \/ status = STATUS /\ pc \in {"top", "finish"}
       \/ status = IDLE /\ pc = "sendCsw" /\ ~rxReady

\* on its way.
StatusGoing ==
    /\ want # "write" /\ csw.tag = tag /\ Received /\ Quiet
    /\ status = IDLE /\ pc = "top" /\ ~rxReady
    /\ \/ writer \in {"select", "load"} /\ left = <<Csw>> /\ Len(txLoad) = Spoil /\ txQueue = <<>>
       \/ /\ writer = "ready" /\ left = <<>> /\ txQueue = <<>>
          /\ Len(txLoad) = Spoil + 1 /\ txLoad[Spoil + 1] = Csw
       \/ /\ writer = "spin" /\ left = <<>> /\ txLoad = <<>> /\ Len(txQueue) = 1
          /\ Len(txQueue[1]) = Spoil + 1 /\ txQueue[1][Spoil + 1] = Csw
    /\ writer # "select" => epind = 1

\* WRITE ends in its state without exit.
WriteStuck ==
    /\ want = "write" /\ NothingSent /\ writer = "off"
    /\ \/ status = SETUP /\ pc = RECEIVE_DATA
       \/ status = RECEIVE_DATA /\ pc = "top"

Serving ==
    \/ Sent \/ Held \/ Decoding
    \/ DataDue \/ DataGoing \/ DataGone
    \/ StatusDue \/ StatusGoing \/ WriteStuck

Steady ==
    /\ phase \in Enumerating => Renewed
    /\ phase \in {"idle", "command"} => Resting
    /\ phase \in Following => Serving

CalmInv ==
    /\ early \in Nat /\ others \in Nat
    /\ Calm => Steady

\* What the host does to a device it does not disturb
CalmActs ==
    \/ SendCbw \/ (SendOut /\ want = "write") \/ ReceiveData \/ ReceiveCsw \/ WrongPacket \/ Timeout
    \/ Enumerate \/ Configured \/ \E o \in Ops : Submit(o)

LEMMA CalmHost ==
    ASSUME early \in Nat, others \in Nat, HostActs
    PROVE  early' \in Nat /\ others' \in Nat /\ (Calm' => Calm /\ CalmActs)
<1>1. CASE EarlyReset
  BY <1>1 DEF EarlyReset, ResetDevice, Calm
<1>2. CASE OtherRequest
  BY <1>2 DEF OtherRequest, Calm
<1>3. CASE SendOut
  BY <1>3 DEF SendOut, Calm, CalmActs
<1>4. CASE SendCbw \/ ReceiveData \/ ReceiveCsw \/ WrongPacket \/ Timeout \/ Enumerate \/ Configured
           \/ \E o \in Ops : Submit(o)
  <2>1. UNCHANGED <<early, others, strayed>>
    BY <1>4 DEF SendCbw, ReceiveData, ReceiveCsw, WrongPacket, Timeout, ResetDevice, Enumerate, Configured,
       Submit
  <2>. QED BY <1>4, <2>1 DEF CalmActs, Calm
<1>. QED BY <1>1, <1>2, <1>3, <1>4 DEF HostActs, HostStep

LEMMA RenewedStep ==
    ASSUME ShapeInv, phase \in Enumerating, Renewed, [Next]_vars, HostActs => CalmActs
    PROVE  /\ phase' \in Enumerating => Renewed'
           /\ phase' \in {"idle", "command"} => Resting'
           /\ phase' \notin Following
<1>0. TypeOK /\ ResetIsLast /\ WriterShape /\ LoopShape /\ rxFifo = <<>>
  BY DEF ShapeInv, IInv, ResetIsLast
<1>. USE DEF Renewed, NothingSent
<1>1. phase \notin Following /\ phase \notin {"idle", "command"}
  BY DEF Enumerating, Following
<1>2. ASSUME UNCHANGED phase, Renewed' PROVE phase' \in Enumerating /\ phase' \notin Following /\ phase' \notin {"idle", "command"}
  BY <1>1, <1>2
<1>3. CASE UNCHANGED vars
  BY <1>1, <1>3 DEF vars, usbVars, fifos, write, source, loopVars, hostVars
<1>4. CASE IrqReset /\ MassReset /\ UNCHANGED <<pc, csw, send, sendBuf, hostVars>>
  BY <1>1, <1>4 DEF IrqReset, MassReset, fifos, write, hostVars
<1>5. CASE IrqEndpoints /\ UNCHANGED <<loopVars, hostVars>>
  <2>1. "reset" \notin pend /\ UNCHANGED <<phase, status, pc, dma, write, rxReady>> /\ epind' = 0
    BY <1>0, <1>5, EndpointFifos DEF IrqEndpoints, loopVars, hostVars
  <2>2. txLoad' = <<>> /\ txQueue' = <<>>
    BY <1>5, EndpointFifos
  <2>. QED BY <1>1, <2>1, <2>2 DEF write
<1>6. CASE LoopActs
  <2>1. pend = {}
    BY <1>6, LoopFrame
  <2>. QED BY <1>6, <2>1 DEF LoopActs, Dispatch, Accept, Reject, CopyTag, Decode, Commit, MoveOn,
          SendDataStep, Finish, SendCsw, At, IDLE, SETUP, SEND_DATA, RECEIVE_DATA, STATUS
<1>7. CASE WriteStep /\ UNCHANGED <<loopVars, hostVars>>
  <2>1. PacketSent \/ WriteDone
    BY <1>7 DEF WriteStep, SelectBulkIn, LoadPacket, MarkReady
  <2>2. UNCHANGED <<fifos, source, left, pend, phase, status, pc>> /\ epind' = 0 /\ writer' \in {"off", "load"}
    BY <1>0, <1>7, <2>1 DEF PacketSent, WriteDone, WriterShape, loopVars, hostVars
  <2>. QED BY <1>1, <2>2 DEF fifos, source
<1>8. CASE DmaTake /\ UNCHANGED <<loopVars, hostVars>>
  BY <1>0, <1>8 DEF DmaTake
<1>9. CASE HostActs
  <2>1. CASE Enumerate
    <3>1. phase' \in Enumerating /\ UNCHANGED <<fifos, source, write, epind, loopVars>>
          /\ pend = {} /\ pend' = {"ep0"}
      BY <2>1 DEF Enumerate, Request, Control, Enumerating
    <3>. QED BY <3>1 DEF fifos, source, write, loopVars, Enumerating, Following
  <2>2. CASE Configured
    <3>1. pend = {} /\ UNCHANGED <<usbVars, loopVars>> /\ phase' \in {"idle", "command"}
      BY <2>2 DEF Configured, DeviceWaits, Send
    <3>. QED BY <1>0, <3>1 DEF usbVars, fifos, source, write, loopVars, Enumerating, Following, Resting, Returning
  <2>3. Enumerate \/ Configured
    BY <1>9 DEF CalmActs, SendCbw, SendOut, ReceiveData, ReceiveCsw, WrongPacket, Timeout, Submit, Enumerating
  <2>. QED BY <2>1, <2>2, <2>3
<1>. QED BY Steps, <1>3, <1>4, <1>5, <1>6, <1>7, <1>8, <1>9

LEMMA RestingStep ==
    ASSUME ShapeInv, phase \in {"idle", "command"}, Resting, [Next]_vars, HostActs => CalmActs
    PROVE  /\ phase' \in {"idle", "command"} => Resting'
           /\ phase' \in Following => Sent'
           /\ phase' \notin Enumerating
<1>0. TypeOK /\ ResetIsLast /\ WriterShape /\ ControlShape /\ HostShape
  BY DEF ShapeInv, IInv
<1>. USE DEF Resting, Returning, NothingSent
<1>1. phase \notin Following /\ phase \notin Enumerating
  BY DEF Enumerating, Following
<1>3. CASE UNCHANGED vars
  BY <1>1, <1>3 DEF vars, usbVars, fifos, write, source, loopVars, hostVars
<1>4. CASE IrqReset
  BY <1>4 DEF IrqReset
<1>5. CASE IrqEndpoints /\ UNCHANGED <<loopVars, hostVars>>
  <2>1. UNCHANGED <<phase, status, pc, dma, write>> /\ epind' = 0 /\ pend' = {}
    BY <1>5, EndpointFifos DEF IrqEndpoints, loopVars, hostVars
  <2>2. UNCHANGED <<txLoad, txQueue, rxFifo, rxReady>>
    BY <1>0, <1>1, <1>5, EndpointFifos DEF ControlShape
  <2>. QED BY <1>1, <2>1, <2>2 DEF write
<1>6. CASE LoopActs
  BY <1>6 DEF LoopActs, Dispatch, Accept, Reject, CopyTag, Decode, Commit, MoveOn,
     SendDataStep, Finish, SendCsw, At, IDLE, SETUP, SEND_DATA, RECEIVE_DATA, STATUS
<1>7. CASE WriteStep /\ UNCHANGED <<loopVars, hostVars>>
  <2>1. PacketSent \/ WriteDone
    BY <1>7 DEF WriteStep, SelectBulkIn, LoadPacket, MarkReady
  <2>2. /\ UNCHANGED <<fifos, source, left, pend, phase, status, pc>> /\ writer' \in {"off", "load"}
        /\ pend = {} /\ epind' = 0
    BY <1>0, <1>7, <2>1 DEF PacketSent, WriteDone, WriterShape, loopVars, hostVars, TypeOK, RegistersOK
  <2>. QED BY <1>1, <2>2 DEF fifos, source
<1>8. CASE DmaTake
  BY <1>8 DEF DmaTake
<1>9. CASE HostActs
  <2>1. CASE SendCbw
    <3>1. /\ phase = "command" /\ phase' \in Following /\ rxFifo' = Append(<<>>, Cbw(want, tag))
          /\ pend' = pend \union {"rx"}
          /\ UNCHANGED <<txLoad, txQueue, source, write, epind, loopVars, want, tag, got>>
      BY <2>1 DEF SendCbw, PacketOut, Following
    <3>2. rxFifo' = <<Cbw(want, tag)>>
      BY <3>1
    <3>3. got = <<>>
      BY <1>0, <3>1 DEF HostShape
    <3>. QED BY <3>1, <3>2, <3>3 DEF source, write, loopVars, Enumerating, Following, Sent, Cbw
  <2>2. CASE \E o \in Ops : Submit(o)
    <3>1. phase' = "command" /\ UNCHANGED <<usbVars, loopVars>>
      BY <2>2 DEF Submit, Send
    <3>. QED BY <3>1 DEF usbVars, fifos, source, write, loopVars, Enumerating, Following
  <2>3. ~Timeout
    BY DEF Timeout, FifoDepth
  <2>4. SendCbw \/ \E o \in Ops : Submit(o)
    BY <1>9, <2>3 DEF CalmActs, SendOut, ReceiveData, ReceiveCsw, WrongPacket, Timeout, Enumerate, Request, Configured
  <2>. QED BY <2>1, <2>2, <2>4
<1>. QED BY Steps, <1>3, <1>4, <1>5, <1>6, <1>7, <1>8, <1>9


LEMMA ServingIrq ==
    ASSUME ShapeInv, phase \in Following, Serving, IrqEndpoints, UNCHANGED <<loopVars, hostVars>>
    PROVE  Serving'
<1>0. TypeOK /\ ControlShape /\ WriterShape /\ phase \notin Enumerating
  BY DEF ShapeInv, IInv, Following, Enumerating
<1>1. /\ UNCHANGED <<write, dma, txLoad, txQueue, status, pc, csw, send, want, tag, got>>
      /\ epind' = 0 /\ pend # {} /\ pend' \in {{}, {"rx"}}
  BY <1>0, EndpointFifos DEF IrqEndpoints, ControlShape, loopVars, hostVars
<1>2. /\ "rx" \in pend /\ rxFifo # <<>> /\ ~rxReady
         => rxReq' = Head(rxFifo) /\ rxFifo' = Tail(rxFifo) /\ rxReady' = TRUE
      /\ "rx" \notin pend \/ rxFifo = <<>> \/ rxReady => UNCHANGED <<rxReq, rxFifo, rxReady>>
      /\ Len(rxFifo') = 0 => pend' = {}
  BY <1>0 DEF IrqEndpoints, ControlShape, EprxRecvOp, TakesPacket
<1>. USE DEF Returning, NothingSent
<1>3. CASE Sent
  <2>1. rxReq' = Cbw(want, tag) /\ rxFifo' = Tail(rxFifo) /\ rxReady'
    BY <1>2, <1>3 DEF Sent
  <2>2. want # "write" => rxFifo' = <<>> /\ pend' = {}
    <3>1. ASSUME want # "write" PROVE rxFifo' = <<>>
      <4>1. rxFifo \in Seq(BulkOut) /\ Len(rxFifo) = 1
        BY <1>0, <1>3, <3>1 DEF TypeOK, FifosOK, Sent
      <4>. QED BY <2>1, <4>1
    <3>. QED BY <1>2, <3>1
  <2>. QED BY <1>1, <1>3, <2>1, <2>2 DEF Sent, Serving, Held, Quiet, write, Cbw
<1>4. CASE Held
  <2>1. UNCHANGED <<rxReq, rxFifo, rxReady>> /\ want = "write"
    BY <1>1, <1>2, <1>4 DEF Held, Quiet
  <2>. QED BY <1>1, <1>4, <2>1 DEF Serving, Held, Quiet, write, Cbw
<1>5. CASE Decoding
  <2>1. UNCHANGED <<rxReq, rxFifo, rxReady>> /\ want = "write"
    BY <1>1, <1>2, <1>5 DEF Decoding, Quiet
  <2>. QED BY <1>1, <1>5, <2>1 DEF Serving, Decoding, Quiet, write, Cbw
<1>6. CASE DataGone
  <2>1. UNCHANGED <<rxReq, rxFifo, rxReady>> /\ rxFifo = <<>> /\ pend' = {}
    BY <1>1, <1>2, <1>6 DEF DataGone
  <2>. QED BY <1>1, <1>6, <2>1 DEF Serving, DataGone, Spoil, write
<1>7. CASE WriteStuck
  BY <1>1, <1>7 DEF Serving, WriteStuck, write
<1>8. CASE DataDue \/ DataGoing \/ StatusDue \/ StatusGoing
  <2>1. want # "write"
    BY <1>8 DEF DataDue, DataGoing, StatusDue, StatusGoing, DataOps
  <2>. QED BY <1>1, <1>8, <2>1 DEF DataDue, DataGoing, StatusDue, StatusGoing, Quiet
<1>. QED BY <1>3, <1>4, <1>5, <1>6, <1>7, <1>8 DEF Serving

LEMMA ServingWrite ==
    ASSUME ShapeInv, phase \in Following, Serving, WriteStep, UNCHANGED <<loopVars, hostVars>>
    PROVE  Serving'
<1>0. /\ TypeOK /\ WriterShape /\ left \in Seq(Chunk) /\ txLoad \in Seq(Chunk) /\ epind \in {0, 1}
      /\ txQueue \in Seq(Seq(Chunk))
  BY DEF ShapeInv, IInv, TypeOK, WriterOK, FifosOK, RegistersOK
<1>1. /\ UNCHANGED <<source, rxFifo, status, pc, csw, send, want, tag, got>> /\ Csw' = Csw
      /\ pend = {} /\ pend' = {} /\ writer # "off"
  BY WriteFrame DEF loopVars, hostVars, WriteStep, SelectBulkIn, LoadPacket, MarkReady, PacketSent, WriteDone, Csw
<1>2. CASE Sent \/ Decoding \/ DataDue \/ StatusDue \/ WriteStuck
  BY <1>1, <1>2 DEF Sent, Decoding, DataDue, StatusDue, WriteStuck
<1>3. CASE Held
  <2>1. PacketSent \/ WriteDone
    BY <1>3 DEF WriteStep, SelectBulkIn, LoadPacket, MarkReady, Held, Returning, NothingSent
  <2>2. UNCHANGED <<fifos, left>> /\ epind' = 0 /\ writer' \in {"off", "load"}
    BY <1>0, <1>3, <2>1 DEF PacketSent, WriteDone, WriterShape, Held
  <2>. QED BY <1>1, <1>3, <2>2 DEF Serving, Held, Returning, NothingSent, Quiet, source, fifos, Cbw
<1>4. CASE DataGoing
  <2>0. Spoil \in {0, 1} /\ Spoil' = Spoil
    BY <1>1 DEF Spoil
  <2>1. CASE writer = "select"
    <3>1. epind' = 1 /\ writer' = "load" /\ UNCHANGED <<fifos, left>>
      BY <2>1 DEF WriteStep, SelectBulkIn, LoadPacket, MarkReady, PacketSent, WriteDone
    <3>. QED BY <1>1, <1>4, <2>0, <2>1, <3>1 DEF Serving, DataGoing, Quiet, source, fifos
  <2>2. CASE writer = "load"
    <3>1. left # <<>>
      BY <1>4, <2>0, <2>2 DEF DataGoing
    <3>2. /\ writer' = "ready" /\ left' = Tail(left) /\ txLoad' = Append(txLoad, Head(left))
          /\ UNCHANGED <<txQueue, epind>>
      BY <2>2, <3>1 DEF WriteStep, SelectBulkIn, LoadPacket, MarkReady, PacketSent, WriteDone
    <3>3. Len(left) = 1 + Spoil /\ Len(left) \in Nat \ {0} /\ txLoad = <<>> /\ txQueue = <<>>
      BY <1>0, <1>4, <2>2, <3>1, NotEmpty DEF DataGoing
    <3>4. Len(left') = Spoil /\ \A i \in 1 .. Len(left') : left'[i].kind = "data"
      BY <1>0, <1>4, <2>0, <3>2, <3>3 DEF DataGoing
    <3>5. IsBlock(txLoad')
      <4>1. Head(left) = left[1] /\ 1 \in 1 .. Len(left) /\ left[1].kind = "data"
        BY <1>0, <1>4, <3>3 DEF DataGoing
      <4>2. txLoad' = <<Head(left)>>
        BY <3>2, <3>3
      <4>. QED BY <4>1, <4>2 DEF IsBlock
    <3>. QED BY <1>1, <1>4, <2>0, <2>2, <3>2, <3>3, <3>4, <3>5 DEF Serving, DataGoing, Quiet, source
  <2>3. CASE writer = "ready"
    <3>1. epind = 1 /\ Len(left) = Spoil /\ IsBlock(txLoad) /\ txQueue = <<>>
      BY <1>4, <2>3 DEF DataGoing
    <3>2. writer' = "spin" /\ txQueue' = Append(<<>>, txLoad) /\ txLoad' = <<>> /\ UNCHANGED <<left, epind>>
      BY <2>3, <3>1 DEF WriteStep, SelectBulkIn, LoadPacket, MarkReady, PacketSent, WriteDone
    <3>3. Len(txQueue') = 1 /\ txQueue'[1] = txLoad
      BY <1>0, <3>2
    <3>. QED BY <1>1, <1>4, <2>0, <2>3, <3>1, <3>2, <3>3 DEF Serving, DataGoing, Quiet, source, IsBlock
  <2>4. CASE writer = "spin"
    <3>1. epind = 1 /\ Len(txQueue) = 1
      BY <1>4, <2>4 DEF DataGoing
    <3>2. txQueue # <<>>
      BY <3>1
    <3>. QED BY <2>4, <3>1, <3>2 DEF WriteStep, SelectBulkIn, LoadPacket, MarkReady, PacketSent, WriteDone
  <2>. QED BY <1>4, <2>1, <2>2, <2>3, <2>4 DEF DataGoing
<1>5. CASE DataGone
  <2>0. Spoil \in {0, 1} /\ Spoil' = Spoil /\ epind = 0
    BY <1>0, <1>1, <1>5 DEF Spoil, DataGone
  <2>1. CASE writer = "spin"
    <3>1. writer' = "load" /\ UNCHANGED <<fifos, left, epind>>
      BY <2>1 DEF WriteStep, SelectBulkIn, LoadPacket, MarkReady, PacketSent, WriteDone
    <3>. QED BY <1>1, <1>5, <2>0, <2>1, <3>1 DEF Serving, DataGone, source, fifos
  <2>2. CASE writer = "ready"
    <3>1. writer' = "spin" /\ UNCHANGED <<fifos, left, epind>>
      BY <2>0, <2>2 DEF WriteStep, SelectBulkIn, LoadPacket, MarkReady, PacketSent, WriteDone, fifos
    <3>. QED BY <1>1, <1>5, <2>0, <2>2, <3>1 DEF Serving, DataGone, source, fifos
  <2>3. CASE writer = "load" /\ left # <<>>
    <3>1. /\ writer' = "ready" /\ left' = Tail(left) /\ txLoad' = Append(txLoad, Head(left))
          /\ UNCHANGED <<txQueue, epind>>
      BY <2>3 DEF WriteStep, SelectBulkIn, LoadPacket, MarkReady, PacketSent, WriteDone
    <3>2. Len(left') = Len(left) - 1 /\ Len(txLoad') = Len(txLoad) + 1
          /\ Len(left) \in Nat /\ Len(txLoad) \in Nat
      BY <1>0, <2>3, <3>1, NotEmpty
    <3>3. Len(left') + Len(txLoad') = Spoil
      BY <1>5, <2>0, <3>2 DEF DataGone
    <3>. QED BY <1>1, <1>5, <2>0, <2>3, <3>1, <3>3 DEF Serving, DataGone, source
  <2>4. CASE writer = "load" /\ left = <<>>
    <3>1. writer' = "off" /\ UNCHANGED <<fifos, left>>
      BY <2>4 DEF WriteStep, SelectBulkIn, LoadPacket, MarkReady, PacketSent, WriteDone
    <3>2. Len(left) = 0 /\ Len(txLoad) = Spoil
      <4>1. ASSUME NEW n \in Nat, 0 + n = Spoil PROVE n = Spoil
        BY <2>0, <4>1
      <4>. QED BY <1>0, <1>5, <2>4, <4>1 DEF DataGone
    <3>3. want # "write" /\ Received
      BY <1>5 DEF DataGone, DataOps, Received
    <3>. QED BY <1>1, <1>5, <2>0, <2>4, <3>1, <3>2, <3>3 DEF Serving, DataGone, StatusDue, Received, Quiet, source, fifos
  <2>. QED BY <1>5, <2>1, <2>2, <2>3, <2>4 DEF DataGone
<1>6. CASE StatusGoing
  <2>0. Spoil \in {0, 1} /\ Spoil' = Spoil /\ Csw \in Chunk
    BY <1>0, <1>1, CswType DEF Spoil, TypeOK
  <2>1. CASE writer = "select"
    <3>1. epind' = 1 /\ writer' = "load" /\ UNCHANGED <<fifos, left>>
      BY <2>1 DEF WriteStep, SelectBulkIn, LoadPacket, MarkReady, PacketSent, WriteDone
    <3>. QED BY <1>1, <1>6, <2>0, <2>1, <3>1 DEF Serving, StatusGoing, Received, Quiet, source, fifos
  <2>2. CASE writer = "load"
    <3>1. left = <<Csw>> /\ Len(txLoad) = Spoil /\ txQueue = <<>> /\ epind = 1
      BY <1>6, <2>2 DEF StatusGoing
    <3>2. /\ writer' = "ready" /\ left' = Tail(left) /\ txLoad' = Append(txLoad, Head(left))
          /\ UNCHANGED <<txQueue, epind>>
      BY <2>2, <3>1 DEF WriteStep, SelectBulkIn, LoadPacket, MarkReady, PacketSent, WriteDone
    <3>3. left' = <<>> /\ Len(txLoad') = Spoil + 1 /\ txLoad'[Spoil + 1] = Csw
      BY <1>0, <2>0, <3>1, <3>2
    <3>. QED BY <1>1, <1>6, <2>0, <2>2, <3>1, <3>2, <3>3 DEF Serving, StatusGoing, Received, Quiet, source
  <2>3. CASE writer = "ready"
    <3>1. epind = 1 /\ left = <<>> /\ txQueue = <<>> /\ Len(txLoad) = Spoil + 1 /\ txLoad[Spoil + 1] = Csw
      BY <1>6, <2>3 DEF StatusGoing
    <3>2. writer' = "spin" /\ txQueue' = Append(<<>>, txLoad) /\ txLoad' = <<>> /\ UNCHANGED <<left, epind>>
      BY <2>3, <3>1 DEF WriteStep, SelectBulkIn, LoadPacket, MarkReady, PacketSent, WriteDone
    <3>3. Len(txQueue') = 1 /\ txQueue'[1] = txLoad
      BY <1>0, <3>2
    <3>. QED BY <1>1, <1>6, <2>0, <2>3, <3>1, <3>2, <3>3 DEF Serving, StatusGoing, Received, Quiet, source
  <2>4. CASE writer = "spin"
    <3>1. epind = 1 /\ Len(txQueue) = 1
      BY <1>6, <2>4 DEF StatusGoing
    <3>2. txQueue # <<>>
      BY <3>1
    <3>. QED BY <2>4, <3>1, <3>2 DEF WriteStep, SelectBulkIn, LoadPacket, MarkReady, PacketSent, WriteDone
  <2>. QED BY <1>6, <2>1, <2>2, <2>3, <2>4 DEF StatusGoing
<1>. QED BY <1>2, <1>3, <1>4, <1>5, <1>6 DEF Serving

LEMMA NotMore == ASSUME NEW n, n = 1 PROVE ~(n > 1)
OBVIOUS

LEMMA ServingLoop ==
    ASSUME ShapeInv, CommandInv, phase \in Following, Serving, LoopActs
    PROVE  Serving'
<1>0. /\ TypeOK /\ LoopShape /\ HostShape /\ phase \notin Enumerating
      /\ want \in Ops /\ Packets(want) \in 0 .. 2
      /\ csw \in [tag : Tags \union {None}, status : {0, 1}]
  BY PacketsRange DEF ShapeInv, IInv, TypeOK, LoopOK, HostShape, Following, Commanding, Enumerating
<1>1. /\ writer = "off" /\ pend = {} /\ pend' = {}
      /\ UNCHANGED <<rxFifo, txLoad, txQueue, epind, want, tag, got, phase>> /\ Spoil' = Spoil
  BY LoopFrame DEF fifos, hostVars, Spoil
<1>. USE DEF Returning, NothingSent
<1>2. CASE Sent
  BY <1>1, <1>2 DEF Sent
<1>3. CASE Held
  <2>1. CASE pc = "top"
    <3>1. pc' = "accept" /\ UNCHANGED <<source, write, status>>
      BY <1>3, <2>1 DEF LoopActs, Dispatch, Accept, Reject, CopyTag, Decode, Commit, MoveOn,
         SendDataStep, Finish, SendCsw, At, Held, usbVars, IDLE, SETUP, SEND_DATA, RECEIVE_DATA, STATUS
    <3>. QED BY <1>1, <1>3, <3>1 DEF Serving, Held, Quiet, source, write, Cbw
  <2>2. CASE pc = "accept"
    <3>1. pc' = "top" /\ status' = SETUP /\ UNCHANGED <<source, write>>
      BY <1>3, <2>2 DEF LoopActs, Dispatch, Accept, Reject, CopyTag, Decode, Commit, MoveOn,
         SendDataStep, Finish, SendCsw, At, Held, usbVars, IDLE, SETUP, SEND_DATA, RECEIVE_DATA, STATUS
    <3>. QED BY <1>1, <1>3, <3>1 DEF Serving, Held, Decoding, Quiet, source, write, Cbw
  <2>. QED BY <1>3, <2>1, <2>2 DEF Held
<1>4. CASE Decoding
  <2>0. rxReq.kind = "cbw" /\ rxReq.of = tag /\ rxReq.op = want
    BY <1>4 DEF Decoding, Cbw
  <2>1. CASE pc = "top"
    <3>1. pc' = "check" /\ UNCHANGED <<source, write, status>>
      BY <1>4, <2>1 DEF LoopActs, Dispatch, Accept, Reject, CopyTag, Decode, Commit, MoveOn,
         SendDataStep, Finish, SendCsw, At, Decoding, usbVars, IDLE, SETUP, SEND_DATA, RECEIVE_DATA, STATUS
    <3>. QED BY <1>1, <1>4, <3>1 DEF Serving, Decoding, Quiet, source, write, Cbw
  <2>2. CASE pc = "check"
    <3>1. CopyTag
      BY <1>4, <2>0, <2>2 DEF LoopActs, Dispatch, Accept, Reject, Decode, Commit, MoveOn,
         SendDataStep, Finish, SendCsw, At, SEND_DATA, RECEIVE_DATA, STATUS
    <3>2. pc' = "decode" /\ csw'.tag = tag /\ UNCHANGED <<source, write, status>>
      BY <1>0, <2>0, <3>1 DEF CopyTag, usbVars
    <3>. QED BY <1>1, <1>4, <3>2 DEF Serving, Decoding, Quiet, source, write, Cbw
  <2>3. CASE pc = "decode"
    <3>1. Decode
      BY <2>3 DEF LoopActs, Dispatch, Accept, Reject, CopyTag, Commit, MoveOn,
         SendDataStep, Finish, SendCsw, At, SEND_DATA, RECEIVE_DATA, STATUS
    <3>2. csw'.tag = tag /\ UNCHANGED <<write, status>> /\ (want # "write" => ~dma')
      <4>1. csw'.tag = csw.tag
        BY <1>0, <3>1 DEF Decode, Decoded, DecodeRead
      <4>2. UNCHANGED <<write, status>> /\ dma' = (dma \/ want = "write")
        BY <2>0, <3>1 DEF Decode
      <4>. QED BY <1>4, <2>3, <4>1, <4>2 DEF Decoding
    <3>3. want # "write" => Quiet'
      BY <1>1, <1>4, <3>2 DEF Decoding, Quiet
    <3>4. CASE want \in {"test", "other", "otherOut"}
      <4>1. pc' = STATUS
        BY <2>0, <3>1, <3>4 DEF Decode, Decoded
      <4>2. Len(txLoad') = Spoil' /\ Received'
        BY <1>1, <1>4, <3>4 DEF Decoding, Spoil, Received, DataOps
      <4>. QED BY <1>1, <1>4, <3>2, <3>3, <3>4, <4>1, <4>2 DEF Serving, Decoding, StatusDue, Quiet, write
    <3>5. CASE want \in DataOps
      <4>1. pc' = SEND_DATA /\ \E c : send' = Buffered(want, c)
        BY <2>0, <3>1, <3>5 DEF Decode, Decoded, DecodeRead, DataOps
      <4>2. Packets(want) = 1 + Spoil
        BY <3>5 DEF DataOps, Packets, Spoil
      <4>3. Len(send') = 1 + Spoil'
        BY <1>0, <1>1, <4>1, <4>2 DEF Buffered
      <4>4. want # "write"
        BY <3>5 DEF DataOps
      <4>. QED BY <1>1, <1>4, <3>2, <3>3, <3>5, <4>1, <4>3, <4>4 DEF Serving, Decoding, DataDue, Quiet, write
    <3>6. CASE want = "write"
      <4>1. pc' = RECEIVE_DATA
        BY <2>0, <3>1, <3>6 DEF Decode, Decoded
      <4>. QED BY <1>1, <1>4, <3>2, <3>6, <4>1 DEF Serving, Decoding, WriteStuck, write
    <3>. QED BY <1>0, <3>4, <3>5, <3>6, MassAssumption DEF DataOps
  <2>. QED BY <1>4, <2>1, <2>2, <2>3 DEF Decoding
<1>5. CASE DataDue
  <2>0. want # "write" /\ rxFifo = <<>> /\ ~dma
    BY <1>5 DEF DataDue, DataOps, Quiet
  <2>1. CASE pc # "sendData"
    <3>1. /\ UNCHANGED <<source, write, csw, send>>
          /\ \/ status' = SEND_DATA /\ pc' \in {"top", "moveOn"}
             \/ status' = STATUS /\ pc' = "sendData"
      BY <1>5, <2>1 DEF LoopActs, Dispatch, Accept, Reject, CopyTag, Decode, Commit, MoveOn,
         SendDataStep, Finish, SendCsw, At, DataDue, usbVars, IDLE, SETUP, SEND_DATA, RECEIVE_DATA, STATUS
    <3>. QED BY <1>1, <1>5, <2>0, <3>1 DEF Serving, DataDue, Quiet, source, write
  <2>2. CASE pc = "sendData"
    <3>1. SendDataStep
      BY <1>5, <2>2 DEF LoopActs, Dispatch, Accept, Reject, CopyTag, Decode, Commit, MoveOn,
         Finish, SendCsw, At, SEND_DATA, RECEIVE_DATA, STATUS
    <3>2. left' = send /\ writer' = "select" /\ pc' = "top" /\ UNCHANGED <<dma, status, csw>>
      BY <3>1 DEF SendDataStep, SendData
    <3>3. status = STATUS
      BY <1>5, <2>2 DEF DataDue, SEND_DATA
    <3>4. \A i \in 1 .. Len(left') : left'[i].kind = "data"
      BY <3>2 DEF CommandInv, SendsData
    <3>. QED BY <1>1, <1>5, <2>0, <3>2, <3>3, <3>4 DEF Serving, DataDue, DataGoing, Quiet
  <2>. QED BY <2>1, <2>2
<1>6. CASE DataGoing \/ DataGone \/ StatusGoing
  BY <1>1, <1>6 DEF DataGoing, DataGone, StatusGoing
<1>7. CASE StatusDue
  <2>0. rxFifo = <<>> /\ ~dma
    BY <1>7 DEF StatusDue, Quiet
  <2>1. CASE pc # "sendCsw"
    <3>1. /\ UNCHANGED <<write, csw, dma>>
          /\ \/ status' = STATUS /\ pc' \in {"top", "finish"}
             \/ status' = IDLE /\ pc' = "sendCsw" /\ ~rxReady'
      BY <1>7, <2>1 DEF LoopActs, Dispatch, Accept, Reject, CopyTag, Decode, Commit, MoveOn, SendDataStep,
         Finish, SendCsw, At, StatusDue, usbVars, source, write, IDLE, SETUP, SEND_DATA, RECEIVE_DATA, STATUS
    <3>. QED BY <1>1, <1>7, <2>0, <3>1 DEF Serving, StatusDue, Received, Quiet, write
  <2>2. CASE pc = "sendCsw"
    <3>1. SendCsw
      BY <1>7, <2>2 DEF LoopActs, Dispatch, Accept, Reject, CopyTag, Decode, Commit, MoveOn,
         SendDataStep, Finish, At, SEND_DATA, RECEIVE_DATA, STATUS
    <3>2. left' = <<Csw'>> /\ writer' = "select" /\ pc' = "top" /\ UNCHANGED <<dma, status, csw>> /\ ~rxReady'
      BY <3>1 DEF SendCsw, SendData, Csw
    <3>3. status = IDLE
      BY <1>7, <2>2 DEF StatusDue, STATUS
    <3>. QED BY <1>1, <1>7, <2>0, <3>2, <3>3 DEF Serving, StatusDue, StatusGoing, Received, Quiet
  <2>. QED BY <2>1, <2>2
<1>8. CASE WriteStuck
  <2>1. status' = RECEIVE_DATA /\ pc' = "top" /\ UNCHANGED write
    BY <1>8 DEF LoopActs, Dispatch, Accept, Reject, CopyTag, Decode, Commit, MoveOn, SendDataStep,
       Finish, SendCsw, At, WriteStuck, usbVars, IDLE, SETUP, SEND_DATA, RECEIVE_DATA, STATUS
  <2>. QED BY <1>1, <1>8, <2>1 DEF Serving, WriteStuck, write
<1>. QED BY <1>2, <1>3, <1>4, <1>5, <1>6, <1>7, <1>8 DEF Serving

\* The host gives up an undisturbed command only where WRITE is stuck and
\* where the packets of READ of two have become one with the CSW.
LEMMA GivesUp ==
    ASSUME ShapeInv, phase \in Following, Serving, WrongPacket \/ Timeout
    PROVE  /\ want \in {"write", "readMany"}
           /\ NothingSent' /\ pc = "top" /\ writer \in {"off", "spin"}
<1>0. /\ TypeOK /\ HostShape /\ DeviceWaits /\ txQueue' = <<>> /\ txLoad' = <<>> /\ UNCHANGED left
      /\ want \in Ops
  BY DEF ShapeInv, IInv, HostShape, WrongPacket, Timeout, ResetDevice, BusReset, write, Following, Commanding
<1>1. pend = {} /\ (writer = "off" => pc = "top" /\ status \in {RECEIVE_DATA, IDLE} /\ (status = IDLE => ~rxReady))
      /\ (writer # "off" => writer = "spin" /\ epind = 1 /\ txQueue # <<>>)
  BY <1>0 DEF DeviceWaits
<1>. USE DEF Returning, NothingSent
<1>2. ~Sent /\ ~Held /\ ~Decoding /\ ~DataDue /\ ~DataGone /\ ~StatusDue
  BY <1>1 DEF Sent, Held, Decoding, DataDue, DataGone, StatusDue, IDLE, SETUP, SEND_DATA, STATUS, RECEIVE_DATA
<1>3. CASE DataGoing
  <2>1. txQueue # <<>> /\ Len(txQueue) = 1 /\ IsBlock(txQueue[1]) /\ got = <<>> /\ want \in DataOps
    BY <1>1, <1>3 DEF DataGoing
  <2>2. phase = "data"
    <3>1. want \notin OutOps /\ Packets(want) # 0
      BY <2>1 DEF DataOps, OutOps, Packets
    <3>. QED BY <1>0, <2>1, <3>1 DEF HostShape, Following
  <2>3. Head(txQueue) = txQueue[1]
    BY <1>0, <2>1 DEF TypeOK, FifosOK
  <2>4. Len(Head(txQueue)) = 1 /\ ~IsCsw(Head(txQueue))
    BY <2>1, <2>3 DEF IsBlock, IsCsw
  <2>5. ~(Len(Head(txQueue)) > 1)
    BY <2>4, NotMore
  <2>. QED BY <2>1, <2>2, <2>4, <2>5 DEF WrongPacket, Timeout
<1>4. CASE StatusGoing
  <2>1. /\ writer = "spin" /\ left = <<>> /\ pc = "top" /\ want # "write" /\ csw.tag = tag /\ rxFifo = <<>>
        /\ txQueue # <<>> /\ Len(txQueue) = 1 /\ Len(txQueue[1]) = Spoil + 1 /\ txQueue[1][Spoil + 1] = Csw
    BY <1>1, <1>4 DEF StatusGoing, Quiet
  <2>2. Head(txQueue) = txQueue[1]
    BY <1>0, <2>1 DEF TypeOK, FifosOK
  <2>3. want = "readMany"
    <3>1. ASSUME want # "readMany" PROVE FALSE
      <4>1. Len(Head(txQueue)) = 1 /\ Head(txQueue)[1] = Csw
        BY <2>1, <2>2, <3>1 DEF Spoil
      <4>2. IsCsw(Head(txQueue)) /\ Head(txQueue)[1].of = tag
        BY <2>1, <4>1 DEF IsCsw, Csw
      <4>3. ~WrongPacket
        <5>1. ~(Len(Head(txQueue)) > 1)
          BY <4>1, NotMore
        <5>. QED BY <4>2, <5>1 DEF WrongPacket
      <4>4. ~Timeout
        BY <2>1 DEF Timeout, FifoDepth
      <4>. QED BY <4>3, <4>4
    <3>. QED BY <3>1
  <2>. QED BY <1>0, <2>1, <2>3
<1>5. CASE WriteStuck
  BY <1>0, <1>1, <1>5 DEF WriteStuck
<1>. QED BY <1>2, <1>3, <1>4, <1>5 DEF Serving

LEMMA ServingHost ==
    ASSUME ShapeInv, CommandInv, phase \in Following, Serving, CalmActs
    PROVE  /\ phase' \in Enumerating => Renewed'
           /\ phase' \in {"idle", "command"} => Resting'
           /\ phase' \in Following => Serving'
<1>0. /\ TypeOK /\ ResetIsLast /\ WriterShape /\ HostShape
      /\ phase \notin Enumerating /\ phase \notin {"idle", "command"}
      /\ txQueue \in Seq(Seq(Chunk)) /\ got \in Seq(Seq(Chunk)) /\ rxFifo \in Seq(BulkOut)
      /\ UNCHANGED <<loopVars, write, source>>
  BY Frames DEF ShapeInv, IInv, TypeOK, FifosOK, HostOK, Following, Enumerating, CalmActs, HostActs, HostStep
<1>. USE DEF Returning, NothingSent
<1>1. CASE SendOut /\ want = "write"
  <2>1. /\ phase' = "status" /\ rxFifo' = Append(rxFifo, OutData) /\ (rxFifo # <<>> => pend' = pend)
        /\ UNCHANGED <<txLoad, txQueue, epind, want, tag, got>>
    BY <1>1 DEF SendOut, PacketOut
  <2>2. CASE Sent
    <3>1. rxFifo' # <<>> /\ Head(rxFifo') = Head(rxFifo)
      <4>1. rxFifo # <<>>
        BY <2>2 DEF Sent
      <4>. QED BY <1>0, <2>1, <4>1
    <3>2. Sent'
      BY <1>0, <1>1, <2>1, <2>2, <3>1 DEF Sent, Cbw, source, write, loopVars
    <3>. QED BY <2>1, <3>2 DEF Serving, Enumerating
  <2>3. CASE Held \/ Decoding \/ WriteStuck
    <3>1. Held' \/ Decoding' \/ WriteStuck'
      BY <1>0, <1>1, <2>1, <2>3 DEF Held, Decoding, WriteStuck, Quiet, Cbw, source, write, loopVars
    <3>. QED BY <2>1, <3>1 DEF Serving, Enumerating
  <2>4. ~(DataDue \/ DataGoing \/ DataGone \/ StatusDue \/ StatusGoing)
    BY <1>1 DEF DataDue, DataGoing, DataGone, StatusDue, StatusGoing, DataOps
  <2>. QED BY <2>2, <2>3, <2>4 DEF Serving
<1>2. CASE ReceiveData \/ ReceiveCsw
  <2>1. txQueue # <<>> /\ txQueue' = Tail(txQueue) /\ pend' = pend \union {"tx"}
        /\ UNCHANGED <<rxFifo, txLoad, epind>>
    BY <1>2 DEF ReceiveData, ReceiveCsw, PacketIn
  <2>2. DataGoing \/ StatusGoing
    BY <2>1 DEF Serving, Sent, Held, Decoding, DataDue, DataGone, StatusDue, WriteStuck
  <2>3. /\ writer = "spin" /\ epind = 1 /\ txLoad = <<>> /\ Len(txQueue) = 1 /\ pc = "top"
        /\ want # "write" /\ rxFifo = <<>> /\ ~dma /\ pend = {}
    BY <2>1, <2>2 DEF DataGoing, StatusGoing, Quiet, DataOps
  <2>4. Head(txQueue) = txQueue[1] /\ txQueue' = <<>>
    BY <1>0, <2>1, <2>3
  <2>5. CASE DataGoing
    <3>1. ~ReceiveCsw
      BY <2>3, <2>4, <2>5 DEF ReceiveCsw, DataGoing, IsBlock, IsCsw
    <3>2. /\ got' = Append(got, Head(txQueue)) /\ UNCHANGED <<want, tag>> /\ phase' \in {"data", "status"}
      BY <1>2, <3>1 DEF ReceiveData
    <3>3. Len(got') = 1 /\ want \in DataOps /\ csw.tag = tag /\ status = STATUS /\ Len(left) = Spoil
      BY <1>0, <2>3, <2>5, <3>2 DEF DataGoing
    <3>4. Len(left') + Len(txLoad') = Spoil'
      BY <1>0, <2>1, <2>3, <3>2, <3>3 DEF Spoil, write
    <3>5. DataGone'
      BY <1>0, <2>1, <2>3, <2>4, <3>2, <3>3, <3>4 DEF DataGone, write, source, loopVars
    <3>. QED BY <3>2, <3>5 DEF Serving, Enumerating
  <2>6. CASE StatusGoing
    <3>1. /\ left = <<>> /\ status = IDLE /\ ~rxReady /\ Len(txQueue[1]) = Spoil + 1
          /\ txQueue[1][Spoil + 1] = Csw
      BY <2>3, <2>6 DEF StatusGoing
    <3>2. ~ReceiveData
      <4>1. CASE want = "readMany"
        <5>1. Len(Head(txQueue)) = 2
          BY <2>4, <3>1, <4>1 DEF Spoil
        <5>2. ~(Len(Head(txQueue)) <= 1)
          BY <5>1, NotMore
        <5>. QED BY <5>2 DEF ReceiveData
      <4>2. CASE want # "readMany"
        BY <2>4, <3>1, <4>2 DEF Spoil, ReceiveData, IsCsw, Csw
      <4>. QED BY <4>1, <4>2
    <3>3. phase' = "idle"
      BY <1>2, <3>2 DEF ReceiveCsw
    <3>4. Resting'
      BY <1>0, <2>1, <2>3, <2>4, <3>1 DEF Resting, write, source, loopVars
    <3>. QED BY <3>3, <3>4 DEF Enumerating, Following
  <2>. QED BY <2>2, <2>5, <2>6
<1>3. CASE WrongPacket \/ Timeout
  <2>1. /\ phase' = "reset" /\ pend' = pend \union {"reset"} /\ epind' = 0
    BY <1>3 DEF WrongPacket, Timeout, ResetDevice, BusReset
  <2>2. NothingSent' /\ pc = "top" /\ writer \in {"off", "spin"}
    BY <1>3, GivesUp
  <2>3. Renewed'
    BY <1>0, <2>1, <2>2 DEF Renewed, write, loopVars
  <2>. QED BY <2>1, <2>3 DEF Enumerating, Following
<1>4. ~(SendCbw \/ Enumerate \/ Configured \/ \E o \in Ops : Submit(o))
  BY <1>0 DEF SendCbw, Enumerate, Request, Configured, Submit, Enumerating
<1>. QED BY <1>1, <1>2, <1>3, <1>4 DEF CalmActs

LEMMA CalmStep == ShapeInv /\ CommandInv /\ CalmInv /\ [Next]_vars => CalmInv'
<1>. SUFFICES ASSUME ShapeInv, CommandInv, CalmInv, [Next]_vars PROVE CalmInv'
  OBVIOUS
<1>1. early' \in Nat /\ others' \in Nat /\ (Calm' => Calm /\ (HostActs => CalmActs))
  <2>1. CASE UNCHANGED hostVars
    <3>1. ~HostActs \/ HostActs
      OBVIOUS
    <3>. QED BY <2>1, CalmHost DEF CalmInv, hostVars, Calm
  <2>2. CASE HostActs
    BY <2>2, CalmHost DEF CalmInv
  <2>. QED BY <2>1, <2>2, Steps, LoopFrame DEF vars
<1>2. ASSUME Calm' PROVE Steady'
  <2>0. Steady /\ (HostActs => CalmActs)
    BY <1>1, <1>2 DEF CalmInv
  <2>1. phase \in Enumerating \union {"idle", "command"} \union Following
    BY DEF ShapeInv, IInv, TypeOK, HostOK, Commanding, Following
  <2>2. CASE phase \in Enumerating
    BY <2>0, <2>2, RenewedStep DEF Steady
  <2>3. CASE phase \in {"idle", "command"}
    BY <2>0, <2>3, RestingStep DEF Steady, Serving
  <2>4. CASE phase \in Following
    <3>1. Serving
      BY <2>0, <2>4 DEF Steady
    <3>2. ASSUME UNCHANGED hostVars, Serving' PROVE Steady'
      BY <2>4, <3>2 DEF Steady, hostVars, Following, Enumerating
    <3>3. CASE UNCHANGED vars
      <4>1. Serving'
        BY <3>1, <3>3 DEF vars, usbVars, fifos, source, write, loopVars, hostVars, Serving, Sent, Held,
           Decoding, DataDue, DataGoing, DataGone, StatusDue, StatusGoing, WriteStuck, Returning,
           NothingSent, Quiet, Received, Spoil, Csw, Cbw, IsBlock
      <4>. QED BY <3>2, <3>3, <4>1 DEF vars
    <3>4. CASE IrqReset
      BY <2>4, <3>4 DEF ShapeInv, IInv, ResetIsLast, IrqReset, Following
    <3>5. CASE IrqEndpoints /\ UNCHANGED <<loopVars, hostVars>>
      BY <2>4, <3>1, <3>2, <3>5, ServingIrq
    <3>6. CASE LoopActs
      BY <2>4, <3>1, <3>2, <3>6, ServingLoop, LoopFrame
    <3>7. CASE WriteStep /\ UNCHANGED <<loopVars, hostVars>>
      BY <2>4, <3>1, <3>2, <3>7, ServingWrite
    <3>8. CASE DmaTake /\ UNCHANGED <<loopVars, hostVars>>
      <4>1. WriteStuck
        BY <3>1, <3>8 DEF DmaTake, Serving, Sent, Held, Decoding, DataDue, DataGoing, DataGone, StatusDue,
           StatusGoing, Quiet, DataOps
      <4>2. WriteStuck'
        BY <3>8, <4>1 DEF DmaTake, WriteStuck, NothingSent, write, loopVars, hostVars
      <4>. QED BY <3>2, <3>8, <4>2 DEF Serving
    <3>9. CASE HostActs
      BY <2>0, <2>4, <3>1, <3>9, ServingHost DEF Steady
    <3>. QED BY Steps, <3>3, <3>4, <3>5, <3>6, <3>7, <3>8, <3>9
  <2>. QED BY <2>1, <2>2, <2>3, <2>4
<1>. QED BY <1>1, <1>2 DEF CalmInv

LEMMA AlwaysCalmInv == Spec => []CalmInv
<1>1. Init => CalmInv
  BY DEF Init, UsbInit, CalmInv, Steady, Renewed, NothingSent, Enumerating, Following
<1>. QED BY <1>1, CalmStep, AlwaysShape, AlwaysCommand, PTL DEF Spec

-----------------------------------------------------------------------------
(* The device implements BulkOnly                                          *)

Waiting == IF phase \in Commanding THEN want ELSE None

\* What ends a command without an answer is allowed to: an undisturbed
\* device is reset only for WRITE and READ of two.
LEMMA ResetGivesUp ==
    ASSUME ShapeInv, CalmInv, WrongPacket \/ Timeout
    PROVE  phase \in Commanding /\ want \in Ops /\ (want \notin Reliable \/ ~Calm)
<1>1. phase \in Commanding /\ want \in Ops
  BY DEF ShapeInv, IInv, TypeOK, HostOK, HostShape, WrongPacket, Timeout, Commanding, Following
<1>2. ASSUME Calm PROVE want \notin Reliable
  <2>1. Steady
    BY <1>2 DEF CalmInv
  <2>2. CASE phase = "command"
    <3>1. rxFifo = <<>>
      BY <2>1, <2>2 DEF Steady, Resting
    <3>. QED BY <2>2, <3>1 DEF WrongPacket, Timeout, FifoDepth
  <2>3. CASE phase \in Following
    <3>1. want \in {"write", "readMany"}
      BY <2>1, <2>3, GivesUp DEF Steady
    <3>. QED BY <3>1, MassAssumption
  <2>. QED BY <1>1, <2>2, <2>3 DEF Commanding, Following
<1>. QED BY <1>1, <1>2

LEMMA DeviceStep ==
    ShapeInv /\ CommandInv /\ Answering /\ CalmInv /\ [Next]_vars => [Device!Next]_(Device!vars)
<1>. SUFFICES ASSUME ShapeInv, CommandInv, Answering, CalmInv, [Next]_vars
              PROVE  [Device!Next]_(Device!vars)
  OBVIOUS
<1>0. /\ early \in Nat /\ (phase \in Commanding => want \in Ops /\ want # None)
      /\ None \notin Ops
  BY MassAssumption DEF CalmInv, ShapeInv, IInv, TypeOK, HostOK, HostShape, Commanding, Following
<1>1. ASSUME UNCHANGED <<answer, Waiting>>, Calm' = Calm PROVE UNCHANGED Device!vars
  BY <1>1 DEF Device!vars, Waiting
<1>2. ASSUME UNCHANGED <<answer, Waiting>>, ~Calm' PROVE Device!Next
  <2>1. Calm' = FALSE
    BY <1>2
  <2>. QED BY <1>2, <2>1 DEF Device!Next, Device!Disturb, Waiting
<1>3. CASE UNCHANGED hostVars
  BY <1>1, <1>3 DEF hostVars, Waiting, Calm
<1>4. ASSUME NEW o \in Ops, phase \notin Commanding, Send(o), UNCHANGED <<early, others, strayed>>
      PROVE  Device!Next
  <2>1. phase' \in Commanding /\ want' = o /\ answer' = None
    BY <1>4 DEF Send, Commanding
  <2>2. Calm' = Calm
    BY <1>4 DEF Calm
  <2>. QED BY <1>4, <2>1, <2>2 DEF Device!Next, Device!Command
<1>5. CASE \E o \in Ops : Submit(o)
  BY <1>4, <1>5 DEF Submit, Commanding
<1>6. CASE Configured
  <2>1. phase \notin Commanding /\ UNCHANGED <<early, others, strayed>>
    BY <1>6 DEF Configured, Commanding
  <2>2. CASE want \in Reliable
    BY <1>4, <1>6, <2>1, <2>2, MassAssumption DEF Configured
  <2>3. CASE want \notin Reliable
    <3>1. phase' \notin Commanding /\ UNCHANGED answer
      BY <1>6, <2>3 DEF Configured, Commanding
    <3>. QED BY <1>1, <2>1, <3>1 DEF Waiting, Calm
  <2>. QED BY <2>2, <2>3
<1>7. CASE SendCbw \/ ReceiveData
  <2>1. /\ phase \in Commanding /\ phase' \in Commanding
        /\ UNCHANGED <<want, answer, early, others, strayed>>
    BY <1>7 DEF SendCbw, ReceiveData, Commanding
  <2>. QED BY <1>1, <2>1 DEF Waiting, Calm
<1>8. CASE SendOut
  <2>1. /\ phase \in Commanding /\ phase' \in Commanding
        /\ UNCHANGED <<want, answer, early, others>> /\ (strayed => strayed')
    BY <1>8 DEF SendOut, Commanding
  <2>2. CASE Calm'
    <3>1. Calm' = Calm
      BY <2>1, <2>2 DEF Calm
    <3>. QED BY <1>1, <2>1, <3>1 DEF Waiting
  <2>3. CASE ~Calm'
    BY <1>2, <2>1, <2>3 DEF Waiting
  <2>. QED BY <2>2, <2>3
<1>9. CASE ReceiveCsw
  <2>1. want \in Ops /\ answer' \in Right(want)
    BY <1>9, AnswerIsRight
  <2>2. phase \in Commanding /\ phase' \notin Commanding /\ UNCHANGED <<early, others, strayed>>
    BY <1>9 DEF ReceiveCsw, Commanding
  <2>3. Calm' = Calm
    BY <2>2 DEF Calm
  <2>. QED BY <1>0, <2>1, <2>2, <2>3 DEF Device!Next, Device!Answer
<1>10. CASE WrongPacket \/ Timeout
  <2>1. phase' \notin Commanding /\ UNCHANGED <<answer, early, others, strayed>>
    BY <1>10 DEF WrongPacket, Timeout, ResetDevice, Commanding
  <2>2. Calm' = Calm
    BY <2>1 DEF Calm
  <2>3. phase \in Commanding /\ (want \notin Reliable \/ ~Calm)
    BY <1>10, ResetGivesUp
  <2>. QED BY <1>0, <2>1, <2>2, <2>3 DEF Device!Next, Device!GiveUp
<1>11. CASE EarlyReset
  <2>1. phase' \notin Commanding /\ UNCHANGED answer /\ early' # 0
    BY <1>0, <1>11 DEF EarlyReset, ResetDevice, Commanding
  <2>2. Calm' = FALSE
    BY <2>1 DEF Calm
  <2>3. CASE phase \in Commanding
    BY <1>0, <2>1, <2>2, <2>3 DEF Device!Next, Device!GiveUp
  <2>4. CASE phase \notin Commanding
    BY <1>2, <2>1, <2>2, <2>4 DEF Waiting
  <2>. QED BY <2>3, <2>4
<1>12. CASE OtherRequest
  <2>1. UNCHANGED <<phase, want, answer>> /\ others' # 0
    BY <1>12 DEF CalmInv, OtherRequest
  <2>2. ~Calm'
    BY <2>1 DEF Calm
  <2>. QED BY <1>2, <2>1, <2>2 DEF Waiting
<1>13. CASE Enumerate
  <2>1. phase \notin Commanding /\ phase' \notin Commanding /\ UNCHANGED <<answer, early, others, strayed>>
    BY <1>13 DEF Enumerate, Request, Commanding
  <2>. QED BY <1>1, <2>1 DEF Waiting, Calm
<1>14. UNCHANGED hostVars \/ HostActs
  BY Steps, LoopFrame DEF vars
<1>. QED BY <1>3, <1>5, <1>6, <1>7, <1>8, <1>9, <1>10, <1>11, <1>12, <1>13, <1>14 DEF HostActs, HostStep

\* A command the host sends is answered rightly or given up, and one of
\* Reliable is given up only after a disturbance, in any order of steps of
\* the interrupt handler, the state loop (usb_mass.c:589) and the host.
THEOREM Refines == Spec => ImplementsBulkOnly
<1>1. Init => Device!Init
  BY DEF Init, Device!Init, Calm, Commanding
<1>. QED BY <1>1, DeviceStep, AlwaysShape, AlwaysCommand, AlwaysAnswering, AlwaysCalmInv, PTL
     DEF Spec, ImplementsBulkOnly, Device!Spec
=============================================================================
