--------------------------- MODULE UsbController ---------------------------
(***************************************************************************)
(* The USB device controller under drivers/usb/usb.c: the interrupt        *)
(* handler sunxi_usb_irq, and the calls of a function driver that move     *)
(* data, sunxi_usb_send_data and sunxi_usb_start_recv_by_dma.              *)
(*                                                                         *)
(* The registers of an endpoint are reached through an index register, so  *)
(* code that runs after an interrupt finds the index the handler left.     *)
(* The handler is one action: interrupts do not nest.  The main loop's     *)
(* steps wait for pend = {}: an interrupt is taken before the next         *)
(* instruction.                                                            *)
(*                                                                         *)
(* A chunk is what one call puts into the FIFO; a packet is the sequence   *)
(* of chunks in the FIFO when it is marked ready.                          *)
(***************************************************************************)
EXTENDS Integers, Sequences

CONSTANTS
    Address     \* the address the host assigns

ASSUME AddressAssumption == Address \in Nat \ {0}

VARIABLES
    epind,      \* index register: 0 control, 1 bulk in
    rxFifo,     \* packets in the bulk out FIFO, two of them at most
    txLoad,     \* chunks in the bulk in FIFO, not marked ready
    txQueue,    \* packets marked ready for the host
    pend,       \* pending interrupts
    ep0,        \* the request in the control FIFO
    faddr,      \* the address the device answers to
    dma,        \* a receive DMA is started
    address,    \* sunxi_udc_source.address, to be set when ep0 is done
    rxReady,    \* sunxi_ubuf.rx_ready_for_data
    rxReq,      \* sunxi_ubuf.rx_req_buffer
    writer,     \* where sunxi_usb_send_data is
    left,       \* the chunks it has still to send
    saved       \* its old_ep_idx

fifos  == <<rxFifo, txLoad, txQueue>>
source == <<address, rxReady, rxReq, dma>>
write  == <<writer, left, saved>>
usbVars == <<fifos, source, write, epind, pend, ep0, faddr>>

\* Nothing received yet
NoPacket == [kind |-> "none"]

FifoDepth == 2
Interrupts == {"reset", "ep0", "tx", "rx", "dma"}
Requests == {"none", "descriptor", "address", "configuration"}

\* sunxi_usb_init, up to the pull-up; the host resets the bus when it sees it
UsbInit ==
    /\ epind = 0
    /\ rxFifo = <<>> /\ txLoad = <<>> /\ txQueue = <<>>
    /\ pend = {"reset"}
    /\ ep0 = "none"
    /\ faddr = 0
    /\ dma = FALSE
    /\ address = 0
    /\ rxReady = FALSE
    /\ rxReq = NoPacket
    /\ writer = "off" /\ left = <<>> /\ saved = 0

-----------------------------------------------------------------------------
(* sunxi_usb_irq                                                           *)

\* A bus reset forgets every other interrupt and whatever was received.  The
\* function driver's state_reset comes with it.
IrqReset ==
    /\ "reset" \in pend
    /\ pend' = {}
    /\ epind' = 0
    /\ faddr' = 0
    /\ address' = 0
    /\ dma' = FALSE
    /\ rxReady' = FALSE
    /\ UNCHANGED <<fifos, write, ep0, rxReq>>

\* ep0_recv_op: an interrupt without data ends the request before, and only
\* then the new address counts; SET_CONFIGURATION flushes the bulk FIFOs.
Ep0RecvOp ==
    /\ ep0' = "none"
    /\ address' = CASE ep0 = "address" -> Address
                    [] ep0 = "none" -> 0
                    [] OTHER -> address
    /\ faddr' = IF ep0 = "none" /\ address # 0 THEN address ELSE faddr
    /\ IF ep0 = "configuration"
         THEN txLoad' = <<>> /\ txQueue' = <<>>
         ELSE UNCHANGED <<txLoad, txQueue>>

\* Mistaken: a packet replaces one that is still in use.
TakesPacketAlways == rxFifo # <<>>

\* eprx_recv_op reads a packet only into an empty buffer.
TakesPacket == rxFifo # <<>> /\ ~rxReady

\* Without room the packet stays in the FIFO; its interrupt is cleared all
\* the same.
EprxRecvOp ==
    IF TakesPacket
      THEN /\ rxReq' = Head(rxFifo)
           /\ rxFifo' = Tail(rxFifo)
           /\ rxReady' = TRUE
      ELSE UNCHANGED <<rxReq, rxFifo, rxReady>>

\* The handler saves the index in old_ep_index and restores old_ep_idx.
IrqIndex == 0

\* The other interrupts.  A packet behind the one just read interrupts again.
IrqEndpoints ==
    /\ pend # {} /\ "reset" \notin pend
    /\ IF "ep0" \in pend THEN Ep0RecvOp
                         ELSE UNCHANGED <<ep0, address, faddr, txLoad, txQueue>>
    /\ IF "ep0" \in pend /\ ep0 = "configuration"
         THEN rxFifo' = <<>> /\ UNCHANGED <<rxReq, rxReady>>
         ELSE IF "rx" \in pend THEN EprxRecvOp
                               ELSE UNCHANGED <<rxReq, rxFifo, rxReady>>
    /\ pend' = IF Len(rxFifo') \in 1 .. Len(rxFifo) - 1 THEN {"rx"} ELSE {}
    /\ epind' = IrqIndex
    /\ UNCHANGED <<write, dma>>

-----------------------------------------------------------------------------
(* sunxi_usb_send_data and sunxi_usb_write_fifo, called by the main loop   *)

SendData(chunks) ==
    /\ rxReady' = FALSE
    /\ left' = chunks
    /\ writer' = "select"
    /\ UNCHANGED <<fifos, address, rxReq, dma, saved, epind, pend, ep0, faddr>>

\* Mistaken: the index of the other bulk endpoint
SelectBulkOut ==
    /\ writer = "select" /\ pend = {}
    /\ saved' = epind
    /\ epind' = 2
    /\ writer' = "load"
    /\ UNCHANGED <<fifos, source, left, pend, ep0, faddr>>

SelectBulkIn ==
    /\ writer = "select" /\ pend = {}
    /\ saved' = epind
    /\ epind' = 1
    /\ writer' = "load"
    /\ UNCHANGED <<fifos, source, left, pend, ep0, faddr>>

\* usb_controller_write_packet, which needs no index
LoadPacket ==
    /\ writer = "load" /\ pend = {} /\ left # <<>>
    /\ txLoad' = Append(txLoad, Head(left))
    /\ left' = Tail(left)
    /\ writer' = "ready"
    /\ UNCHANGED <<rxFifo, txQueue, source, saved, epind, pend, ep0, faddr>>

\* TX_READY goes to the endpoint the index names: with index 0 the packet is
\* not marked.
MarkReady ==
    /\ writer = "ready" /\ pend = {}
    /\ writer' = "spin"
    /\ IF epind = 1
         THEN txQueue' = Append(txQueue, txLoad) /\ txLoad' = <<>>
         ELSE UNCHANGED <<txQueue, txLoad>>
    /\ UNCHANGED <<rxFifo, source, left, saved, epind, pend, ep0, faddr>>

\* sunxi_usb_write_complete waits on the same register; endpoint 0 has
\* nothing in its FIFO here, since its interrupt goes first.
PacketSent ==
    /\ writer = "spin" /\ pend = {}
    /\ epind = 1 => txQueue = <<>>
    /\ writer' = "load"
    /\ UNCHANGED <<fifos, source, left, saved, epind, pend, ep0, faddr>>

WriteDone ==
    /\ writer = "load" /\ pend = {} /\ left = <<>>
    /\ epind' = saved
    /\ writer' = "off"
    /\ UNCHANGED <<fifos, source, left, saved, pend, ep0, faddr>>

WriteStep == SelectBulkIn \/ LoadPacket \/ MarkReady \/ PacketSent \/ WriteDone

-----------------------------------------------------------------------------
(* The controller's side of the bus                                        *)

\* The DMA takes a packet: it is done when the transfer is.
DmaTake ==
    /\ dma /\ rxFifo # <<>>
    /\ rxFifo' = Tail(rxFifo)
    /\ dma' = FALSE
    /\ pend' = pend \union {"dma"}
    /\ UNCHANGED <<txLoad, txQueue, address, rxReady, rxReq, write, epind, ep0, faddr>>

\* A packet from the host, for which the FIFO must have room.
PacketOut(p) ==
    /\ Len(rxFifo) < FifoDepth
    /\ rxFifo' = Append(rxFifo, p)
    /\ pend' = IF rxFifo = <<>> THEN pend \union {"rx"} ELSE pend
    /\ UNCHANGED <<txLoad, txQueue, source, write, epind, ep0, faddr>>

\* A packet to the host.
PacketIn ==
    /\ txQueue # <<>>
    /\ txQueue' = Tail(txQueue)
    /\ pend' = pend \union {"tx"}
    /\ UNCHANGED <<rxFifo, txLoad, source, write, epind, ep0, faddr>>

\* A control request, or with "none" the end of one, at the address a.
Control(req, a) ==
    /\ pend = {} /\ ep0 = "none" /\ faddr = a
    /\ ep0' = req
    /\ pend' = {"ep0"}
    /\ UNCHANGED <<fifos, source, write, epind, faddr>>

\* The controller empties its FIFOs and clears its registers.
BusReset ==
    /\ pend' = pend \union {"reset"}
    /\ rxFifo' = <<>> /\ txLoad' = <<>> /\ txQueue' = <<>>
    /\ ep0' = "none"
    /\ epind' = 0
    /\ faddr' = 0
    /\ UNCHANGED <<source, write>>
=============================================================================
