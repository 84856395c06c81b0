------------------------------- MODULE SdCard -------------------------------
(***************************************************************************)
(* The SD/MMC driver of SyterKit (drivers/sdhci): sdmmc_init and           *)
(* sdmmc_blk_read, command by command, against a card that may be slow to  *)
(* power up, may not hear a command or not be heard, and may be pulled out *)
(* or changed at any moment.  The cards are SD 2.0 cards and eMMC 4 and    *)
(* later; each block of a card is told from every other.                   *)
(***************************************************************************)
EXTENDS Integers, Sequences

CONSTANTS
    Cards, NoCard,
    Sd,             \* the SD cards; the others are MMC
    High,           \* the cards addressed by block, not by byte
    Size,           \* of every card, in blocks
    BlockLen,       \* bytes of a block: 512
    ChunkMax,       \* blocks of a transfer: 127
    Retries,        \* of the power-up loops: 50
    StatusTries,    \* of sdmmc_status: 100
    MaxBusy,        \* power-up polls a card answers busy
    Lossy,          \* the commands that may go wrong on the bus
    MaxFaults,      \* bound: how many do
    MaxSwaps        \* bound: how often the slot changes

ASSUME CardAssumption ==
    /\ NoCard \notin Cards
    /\ Sd \subseteq Cards
    /\ High \subseteq Cards
    /\ Size \in Nat
    /\ BlockLen \in Nat \ {0}
    /\ ChunkMax \in Nat \ {0}
    /\ Retries \in Nat
    /\ StatusTries \in Nat
    /\ MaxBusy \in Nat
    /\ MaxFaults \in Nat
    /\ MaxSwaps \in Nat

VARIABLES
    slot, state, cardWidth, busy,   \* the card: state, bus width, busy replies
    hostWidth,                      \* the controller's bus width
    pc,                             \* the command the driver sends next
    tries,                          \* retries left in the loop it is in
    type,                           \* card->version: "sd" or "mmc"
    highCapacity,                   \* card->high_capacity
    op,                             \* the call in progress
    buf,                            \* the blocks read so far
    found,                          \* card of the last sdmmc_init, if it succeeded
    result,                         \* of the last call
    troubled,                       \* history: fault or swap since it was called
    faults, swaps                   \* history, and bounds

cardVars == <<slot, state, cardWidth, busy>>
driverVars == <<hostWidth, pc, tries, type, highCapacity, op, buf, found, result>>
historyVars == <<troubled, faults, swaps>>
vars == <<cardVars, driverVars, historyVars>>

States == {"idle", "app", "ready", "ident", "stby", "tran", "apptran", "data"}

Device == INSTANCE BlockDevice WITH
    ready <- IF state = "idle" THEN NoCard ELSE found

InitOp == Device!InitOp
NoOp == Device!NoOp
Blocks(c, n, cnt) == Device!Blocks(c, n, cnt)

-----------------------------------------------------------------------------
(* Commands: the states in which the card takes one, the state it goes to, *)
(* and the command the driver sends once it has been answered.  An eMMC is *)
(* taken to be done with a SWITCH (power, mmcWidth) when the next command  *)
(* comes: in truth it is busy for a while, and the driver sends two in a   *)
(* row without asking, then waits for a millisecond (sys-sdcard.c:713).    *)

Row(from, to, next) == [from |-> from, to |-> to, next |-> next]

Command ==
    [goIdle    |-> Row(States, "idle", "goIdleSd"),
     goIdleSd  |-> Row(States, "idle", "ifCond"),
     ifCond    |-> Row({"idle"}, "idle", "appCmd"),
     appCmd    |-> Row({"idle", "app"}, "app", "opCond"),
     opCond    |-> Row({"app"}, "ready", "cid"),
     goIdleMmc |-> Row(States, "idle", "mmcOpCond"),
     mmcOpCond |-> Row({"idle"}, "ready", "cid"),
     cid       |-> Row({"ready"}, "ident", "rca"),
     rca       |-> Row({"ident"}, "stby", "csd"),
     csd       |-> Row({"stby"}, "stby", "select"),
     select    |-> Row({"stby"}, "tran", "selected"),
     selected  |-> Row({"stby", "tran", "data"}, "same", "width"),
     extCsd    |-> Row({"tran"}, "tran", "extRead"),
     extRead   |-> Row({"stby", "tran", "data"}, "same", "power"),
     power     |-> Row({"tran"}, "tran", "mmcWidth"),
     mmcWidth  |-> Row({"tran"}, "tran", "blockLen"),
     appWidth  |-> Row({"tran", "apptran"}, "apptran", "sdWidth"),
     sdWidth   |-> Row({"apptran"}, "tran", "blockLen"),
     blockLen  |-> Row({"tran"}, "tran", "off"),
     read      |-> Row({"tran"}, "tran", "readDone"),
     readDone  |-> Row({"stby", "tran", "data"}, "same", "read")]

SdOnly == {"ifCond", "appCmd", "opCond", "appWidth", "sdWidth"}
MmcOnly == {"mmcOpCond", "extCsd", "power", "mmcWidth"}
GoIdle == {"goIdle", "goIdleSd", "goIdleMmc"}
Polls == {"opCond", "mmcOpCond"}
StatusPolls == {"selected", "extRead", "readDone"}
Transfers == {"extCsd", "read"}
Loops == {"appCmd"} \cup Polls \cup StatusPolls
Plain == DOMAIN Command \ (Loops \cup Transfers)

Takes(p) ==
    /\ slot # NoCard
    /\ state \in Command[p].from
    /\ slot \in Sd => p \notin MmcOnly
    /\ slot \notin Sd => p \notin SdOnly

CanFail(p) == p \in Lossy /\ faults < MaxFaults
Fault == faults' = faults + 1 /\ troubled' = TRUE /\ UNCHANGED swaps
NoFault == UNCHANGED historyVars

Obey(p) ==
    /\ state' = IF Command[p].to = "same" THEN state ELSE Command[p].to
    /\ cardWidth' = IF p \in GoIdle THEN 1
                  ELSE IF p \in {"sdWidth", "mmcWidth"} THEN 4
                  ELSE cardWidth
    /\ busy' = IF p \in GoIdle THEN 0 ELSE busy
    /\ UNCHANGED slot

\* sdhci_transfer without data: the command is obeyed and answered, obeyed
\* but not heard to be answered, or not obeyed.  CMD0 has no answer.
Answered(p) == Takes(p) /\ Obey(p) /\ NoFault
Missed(p) ==
    \/ Takes(p) /\ CanFail(p) /\ p \notin GoIdle /\ Obey(p) /\ Fault
    \/ Takes(p) /\ CanFail(p) /\ UNCHANGED cardVars /\ Fault
    \/ ~Takes(p) /\ UNCHANGED cardVars /\ NoFault

Init ==
    /\ slot \in Cards \cup {NoCard}
    /\ state = "idle" /\ cardWidth = 1 /\ busy = 0
    /\ hostWidth = 1
    /\ pc = "off" /\ tries = 0
    /\ type = "sd" /\ highCapacity = FALSE
    /\ op = NoOp /\ buf = <<>>
    /\ found = NoCard
    /\ result = [ok |-> TRUE, data |-> <<>>]
    /\ troubled = FALSE /\ faults = 0 /\ swaps = 0

-----------------------------------------------------------------------------
(* The driver                                                              *)

CallInit ==
    /\ pc = "off"
    /\ op' = InitOp
    /\ found' = NoCard
    /\ hostWidth' = 1               \* sdhci_reset, sdhci_set_width
    /\ pc' = "goIdle"
    /\ troubled' = FALSE
    /\ UNCHANGED <<cardVars, tries, type, highCapacity, buf, result, faults, swaps>>

\* The callers read only from a card that sdmmc_init has found.
CallRead ==
    /\ pc = "off"
    /\ found # NoCard
    /\ op' \in Device!ReadOps
    /\ buf' = <<>>
    /\ pc' = "read"
    /\ UNCHANGED <<cardVars, hostWidth, tries, type, highCapacity, found, result,
                   historyVars>>

Return(res) ==
    /\ pc' = "off"
    /\ op' = NoOp
    /\ result' = res
    /\ buf' = <<>>
    /\ tries' = 0
    /\ UNCHANGED <<hostWidth, type, highCapacity>>

GiveUp == Return(Device!Failed) /\ UNCHANGED found

\* Not an SD card: sdmmc_detect starts again for MMC.
TryMmc ==
    /\ pc' = "goIdleMmc"
    /\ hostWidth' = 1
    /\ tries' = 0
    /\ UNCHANGED <<type, highCapacity, op, buf, found, result>>

\* Mistaken: a card that is not an SD card is no card.
AbandonSdOnly(p) == GiveUp

Abandon(p) == IF p \in {"ifCond", "appCmd", "opCond"} THEN TryMmc ELSE GiveUp

\* Mistaken: for ever, or on past zero
RetryEndless(p, again) ==
    IF tries > 0
    THEN pc' = again /\ UNCHANGED <<tries, hostWidth, type, highCapacity, op, buf,
                                   found, result>>
    ELSE Abandon(p)
RetryPastZero(p, again) ==
    /\ tries' = tries - 1
    /\ pc' = again
    /\ UNCHANGED <<hostWidth, type, highCapacity, op, buf, found, result>>

\* do { ... } while (retries--): whatever breaks out of the last round counts
\* as a failure, as running out does.
Retry(p, again) ==
    IF tries > 0
    THEN /\ tries' = tries - 1
         /\ pc' = again
         /\ UNCHANGED <<hostWidth, type, highCapacity, op, buf, found, result>>
    ELSE Abandon(p)

Enter(next) ==
    /\ pc' = next
    /\ tries' = IF next \in {"appCmd", "mmcOpCond"} THEN Retries
              ELSE IF next \in StatusPolls THEN StatusTries
              ELSE 0

\* A command on the way to a card found
Proceed(p) ==
    /\ Enter(Command[p].next)
    /\ hostWidth' = IF p \in {"sdWidth", "mmcWidth"} THEN 4 ELSE hostWidth
    /\ type' = IF p = "ifCond" THEN "sd" ELSE type
    /\ UNCHANGED <<highCapacity, op, buf, found, result>>

Found == Return(Device!Succeeded(<<>>)) /\ found' = slot

Send(p) ==
    /\ pc = p
    /\ \/ /\ Answered(p)
          /\ IF p = "blockLen" THEN Found ELSE Proceed(p)
       \/ /\ Missed(p)
          /\ IF p \in GoIdle THEN Proceed(p) ELSE Abandon(p)

AppCmd ==
    /\ pc = "appCmd"
    /\ \/ /\ Answered("appCmd")
          /\ pc' = "opCond"
          /\ UNCHANGED <<hostWidth, tries, type, highCapacity, op, buf, found, result>>
       \/ Missed("appCmd") /\ Retry("appCmd", "appCmd")

\* ACMD41 and CMD1: a card still powering up goes back to idle.
AnsweredBusy(p) ==
    /\ Takes(p)
    /\ busy < MaxBusy
    /\ busy' = busy + 1
    /\ state' = "idle"
    /\ UNCHANGED <<slot, cardWidth>>
    /\ NoFault

PoweredUp(p, hc, version) ==
    IF tries > 0
    THEN /\ pc' = "cid"
         /\ highCapacity' = hc
         /\ type' = version
         /\ tries' = 0
         /\ UNCHANGED <<hostWidth, op, buf, found, result>>
    ELSE Abandon(p)

\* A failed transfer leaves the loop as well, with the answer of CMD55 in
\* cmd.response, which has no capacity bit.
OpCond ==
    /\ pc = "opCond"
    /\ \/ Answered("opCond") /\ PoweredUp("opCond", slot \in High, type)
       \/ AnsweredBusy("opCond") /\ Retry("opCond", "appCmd")
       \/ Missed("opCond") /\ PoweredUp("opCond", FALSE, type)

OpCondMmc ==
    /\ pc = "mmcOpCond"
    /\ \/ Answered("mmcOpCond") /\ PoweredUp("mmcOpCond", slot \in High, "mmc")
       \/ AnsweredBusy("mmcOpCond") /\ Retry("mmcOpCond", "mmcOpCond")
       \/ Missed("mmcOpCond") /\ GiveUp

-----------------------------------------------------------------------------
(* Data and status                                                         *)

\* Mistaken: blkno does not move on with the chunks.
StartStuck == op.start

Start == op.start + Len(buf)
Left == op.cnt - Len(buf)
Chunk == IF Left > ChunkMax THEN ChunkMax ELSE Left
Arg == IF highCapacity THEN Start ELSE Start * BlockLen

\* The first block the card sends for an argument, and whether it sends any
Block(arg) == IF slot \in High THEN arg ELSE arg \div BlockLen
Addressable(arg) ==
    /\ slot \notin High => arg % BlockLen = 0
    /\ Block(arg) + Chunk <= Size
Sends(p) == Takes(p) /\ (p = "read" => Addressable(Arg))

\* CMD17, CMD18 and CMD8 of MMC.  When the answer or the data go wrong after a
\* command for several blocks, no stop command may follow.
DataArrives(p) == Sends(p) /\ cardWidth = hostWidth /\ Answered(p)

DataLost(p, several) ==
    /\ Sends(p)
    /\ IF cardWidth = hostWidth THEN CanFail(p) /\ Fault ELSE NoFault
    /\ state' \in (IF several THEN {"data", "tran"} ELSE {"tran"})
    /\ UNCHANGED <<slot, cardWidth, busy>>

NotSent(p) ==
    /\ UNCHANGED cardVars
    /\ IF Sends(p) THEN CanFail(p) /\ Fault ELSE NoFault

ExtCsd ==
    /\ pc = "extCsd"
    /\ \/ DataArrives("extCsd") /\ Proceed("extCsd")
       \/ DataLost("extCsd", FALSE) /\ GiveUp
       \/ NotSent("extCsd") /\ GiveUp

ReadChunk ==
    /\ pc = "read"
    /\ \/ /\ DataArrives("read")
          /\ buf' = buf \o Blocks(slot, Block(Arg), Chunk)
          /\ Enter("readDone")
          /\ UNCHANGED <<hostWidth, type, highCapacity, op, found, result>>
       \/ DataLost("read", Chunk > 1) /\ GiveUp
       \/ NotSent("read") /\ GiveUp

\* The state sdmmc_status must return for the wait to end
Awaited(p) == IF p = "readDone" THEN {"tran", "data"} ELSE {"tran"}

\* sdmmc_read_blocks returns; sdmmc_blk_read goes on or returns too.
ChunkDone ==
    IF Left > 0
    THEN /\ Enter("read")
         /\ UNCHANGED <<hostWidth, type, highCapacity, op, buf, found, result>>
    ELSE Return(Device!Succeeded(buf)) /\ UNCHANGED found

Reached(p) ==
    \/ /\ p = "selected"
       /\ Enter(IF type = "sd" THEN "appWidth" ELSE "extCsd")
       /\ UNCHANGED <<hostWidth, type, highCapacity, op, buf, found, result>>
    \/ p = "extRead" /\ Proceed(p)
    \/ p = "readDone" /\ ChunkDone

\* A chunk of several blocks ends with waiting for the data line to be free,
\* which may take too long.
StopTimesOut(p) ==
    /\ p = "readDone"
    /\ (Len(buf) - 1) % ChunkMax > 0
    /\ tries > 0 /\ state \in Awaited(p)
    /\ Takes(p) /\ CanFail(p)
    /\ UNCHANGED cardVars /\ Fault

Status(p) ==
    /\ pc = p
    /\ \/ /\ Answered(p)
          /\ IF tries = 0 THEN GiveUp
             ELSE IF state \in Awaited(p) THEN Reached(p)
             ELSE /\ tries' = StatusTries
                  /\ UNCHANGED <<hostWidth, pc, type, highCapacity, op, buf, found, result>>
       \/ Missed(p) /\ Retry(p, p)
       \/ StopTimesOut(p) /\ GiveUp

-----------------------------------------------------------------------------
Insert(c) ==
    /\ swaps < MaxSwaps
    /\ slot' = c
    /\ state' = "idle" /\ cardWidth' = 1 /\ busy' = 0
    /\ swaps' = swaps + 1
    /\ troubled' = TRUE
    /\ UNCHANGED <<driverVars, faults>>

Driver ==
    \/ \E p \in Plain : Send(p)
    \/ AppCmd \/ OpCond \/ OpCondMmc \/ ExtCsd \/ ReadChunk
    \/ \E p \in StatusPolls : Status(p)

Next ==
    \/ CallInit \/ CallRead \/ Driver
    \/ \E c \in Cards \cup {NoCard} : Insert(c)

Spec == Init /\ [][Next]_vars /\ WF_vars(Driver)

-----------------------------------------------------------------------------
(* Properties                                                              *)

CardOK ==
    /\ slot \in Cards \cup {NoCard}
    /\ state \in States
    /\ cardWidth \in {1, 4}
    /\ busy \in 0 .. MaxBusy

DriverOK ==
    /\ hostWidth \in {1, 4}
    /\ pc \in DOMAIN Command \cup {"off"}
    /\ tries \in Nat
    /\ type \in {"sd", "mmc"}
    /\ highCapacity \in BOOLEAN
    /\ op \in Device!ReadOps \cup {InitOp, NoOp}
    /\ buf \in Seq(Cards \X Nat)
    /\ found \in Cards \cup {NoCard}
    /\ result \in [ok : BOOLEAN, data : Seq(Cards \X Nat)]

HistoryOK ==
    /\ troubled \in BOOLEAN
    /\ faults \in 0 .. MaxFaults
    /\ swaps \in 0 .. MaxSwaps

\* Every variable of the card and of the driver keeps to its range.
TypeOK == CardOK /\ DriverOK /\ HistoryOK

\* The driver is a block device, as long as no answer to ACMD41 is lost: a read
\* that succeeds has delivered the blocks asked for, in order and all of the
\* card that sdmmc_init found, however the transfer was cut into chunks, with
\* whatever lost on the bus, and with the card changed at any point.
ImplementsBlockDevice == Device!Spec

\* sdmmc_init brings any card up from any state an earlier failure has left it
\* in, and reads then succeed: a call fails only if there is no card, or if
\* something has gone wrong since sdmmc_init was last called.
Works == (pc = "off" /\ ~result.ok) => (troubled \/ slot = NoCard)

\* No call waits for a card for ever.
Ends == pc # "off" ~> pc = "off"
=============================================================================
