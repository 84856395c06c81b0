---------------------------- MODULE SdCardProofs ----------------------------
(***************************************************************************)
(* The card driver of SdCard implements BlockDevice, for any cards and any *)
(* number of faults and changes of the card, if no answer to ACMD41 is     *)
(* lost.  What has to be shown invariant is that the driver's idea of how  *)
(* to address the card is right from the moment the card has powered up to *)
(* the moment it leaves the slot.                                          *)
(*                                                                         *)
(* The second half proves Works: a call fails only without a card, or when *)
(* something went wrong since sdmmc_init was last called.                  *)
(***************************************************************************)
EXTENDS SdCard, TLAPS

PoweringUp == {"appCmd", "opCond"}
Identified == {"cid", "rca", "csd", "select", "selected", "extCsd", "extRead", "power",
               "mmcWidth", "appWidth", "sdWidth", "blockLen"}
Reading == {"read", "readDone"}
Early == GoIdle \cup {"ifCond", "mmcOpCond"}

LEMMA Names == DOMAIN Command = PoweringUp \cup Identified \cup Reading \cup Early
BY DEF Command, PoweringUp, Identified, Reading, Early, GoIdle

LEMMA PlainNames ==
    Plain = GoIdle \cup {"ifCond", "cid", "rca", "csd", "select", "power", "mmcWidth",
                         "appWidth", "sdWidth", "blockLen"}
BY Names DEF Plain, Loops, Transfers, Polls, StatusPolls, PoweringUp, Identified, Reading, Early, GoIdle

LEMMA IdentifiedRows ==
    ASSUME NEW p \in Identified
    PROVE  /\ {"idle", "app"} \cap Command[p].from = {}
           /\ Command[p].to \in (States \ {"idle", "app"}) \cup {"same"}
BY DEF Identified, Command, Row, States

LEMMA NextRows ==
    ASSUME NEW p \in Plain \cup {"extCsd", "extRead"}
    PROVE  /\ p \in Identified \ {"blockLen"} => Command[p].next \in Identified
           /\ Command[p].to \in States \cup {"same"}
           /\ p \in Early => Command[p].next \in Early \cup {"appCmd"}
           /\ Command[p].next = "appCmd" => p = "ifCond"
BY PlainNames DEF Identified, Command, Row, States, Early, GoIdle

LEMMA Divides ==
    ASSUME NEW n \in Nat, NEW b \in Nat \ {0}
    PROVE  (n * b) \div b = n /\ (n * b) % b = 0
OBVIOUS

LEMMA BlocksLen ==
    ASSUME NEW c \in Cards, NEW n \in Nat, NEW k \in Nat
    PROVE  Blocks(c, n, k) \in Seq(Cards \X Nat) /\ Len(Blocks(c, n, k)) = k
BY DEF Blocks, Device!Blocks

LEMMA BlocksJoin ==
    ASSUME NEW c \in Cards, NEW n \in Nat, NEW k \in Nat, NEW m \in Nat
    PROVE  Blocks(c, n, k) \o Blocks(c, n + k, m) = Blocks(c, n, k + m)
BY DEF Blocks, Device!Blocks

-----------------------------------------------------------------------------
Bringing == PoweringUp \cup Identified \cup Early

\* A call in progress is an sdmmc_init until a card is found, then a read.
CallsOK ==
    /\ pc = "off" => op = NoOp
    /\ pc \in Bringing => op = InitOp /\ found = NoCard
    /\ pc \in Reading => op \in Device!ReadOps /\ found # NoCard

\* A card that is being powered up has not left idle.
PoweringOK == pc \in PoweringUp => state \in {"idle", "app"}

\* The driver addresses the card as it wants to be addressed: from the moment
\* it has left idle to the next sdmmc_init or the next card.
AddressOK ==
    /\ pc \in Identified /\ state \notin {"idle", "app"} => (highCapacity <=> slot \in High)
    /\ pc \notin Bringing /\ found # NoCard /\ state # "idle"
        => slot = found /\ (highCapacity <=> slot \in High)

\* What has been read is the beginning of what was asked for.
ReadOK ==
    pc \in Reading =>
        /\ Len(buf) <= op.cnt
        /\ buf = Blocks(found, op.start, Len(buf))
        /\ pc = "read" => Len(buf) < op.cnt

IInv == TypeOK /\ CallsOK /\ PoweringOK /\ AddressOK /\ ReadOK

LEMMA OpType ==
    ASSUME NEW o \in Device!ReadOps
    PROVE  /\ o.start \in Nat /\ o.cnt \in Nat \ {0} /\ o.start + o.cnt <= Size
           /\ o # InitOp /\ o # NoOp /\ o.kind = "read"
BY CardAssumption DEF Device!ReadOps, Device!ReadOp, InitOp, NoOp, Device!InitOp, Device!NoOp

LEMMA RowTypes ==
    ASSUME NEW p \in DOMAIN Command PROVE Command[p].to \in States \cup {"same"}
BY Names DEF Command, Row, States, PoweringUp, Identified, Reading, Early, GoIdle

LEMMA CardType ==
    ASSUME CardOK, HistoryOK, NEW p \in DOMAIN Command, NEW s \in BOOLEAN,
           Answered(p) \/ Missed(p) \/ AnsweredBusy(p) \/ DataLost(p, s) \/ NotSent(p)
    PROVE  CardOK' /\ HistoryOK'
<1>. USE CardAssumption
<1>1. ASSUME Obey(p) PROVE CardOK'
  BY <1>1, RowTypes DEF Obey, CardOK
<1>2. ASSUME NoFault \/ (CanFail(p) /\ Fault) PROVE HistoryOK'
  <2>1. CASE NoFault
    BY <2>1 DEF NoFault, HistoryOK, historyVars
  <2>2. CASE CanFail(p) /\ Fault
    <3>1. troubled' \in BOOLEAN
      BY <2>2 DEF Fault
    <3>2. faults' \in 0 .. MaxFaults /\ swaps' \in 0 .. MaxSwaps
      BY <2>2 DEF CanFail, Fault, HistoryOK
    <3>. QED BY <3>1, <3>2 DEF HistoryOK
  <2>. QED BY <1>2, <2>1, <2>2
<1>3. ASSUME UNCHANGED cardVars PROVE CardOK'
  BY <1>3 DEF CardOK, cardVars
<1>4. CASE Answered(p)
  BY <1>1, <1>2, <1>4 DEF Answered
<1>5. CASE Missed(p)
  BY <1>1, <1>2, <1>3, <1>5 DEF Missed
<1>6. CASE AnsweredBusy(p)
  <2>1. CardOK'
    BY <1>6 DEF AnsweredBusy, CardOK, States
  <2>. QED BY <2>1, <1>2, <1>6 DEF AnsweredBusy
<1>7. CASE DataLost(p, s)
  <2>1. CardOK'
    BY <1>7 DEF DataLost, CardOK, States
  <2>2. HistoryOK'
    BY <1>2, <1>7 DEF DataLost
  <2>. QED BY <2>1, <2>2
<1>8. CASE NotSent(p)
  BY <1>2, <1>3, <1>8 DEF NotSent
<1>. QED BY <1>4, <1>5, <1>6, <1>7, <1>8

LEMMA DriverSame == DriverOK /\ UNCHANGED driverVars => DriverOK'
BY DEF DriverOK, driverVars

\* What the driver does with an answer keeps the types.
LEMMA GiveUpType ==
    ASSUME DriverOK, GiveUp PROVE DriverOK' /\ pc' = "off" /\ op' = NoOp
BY DEF GiveUp, Return, DriverOK, Device!Failed

LEMMA TryMmcType ==
    ASSUME DriverOK, TryMmc
    PROVE  DriverOK' /\ pc' = "goIdleMmc" /\ UNCHANGED <<op, found, result, buf>>
BY Names DEF TryMmc, DriverOK, Early, GoIdle

LEMMA AbandonType ==
    ASSUME DriverOK, NEW p, Abandon(p)
    PROVE  DriverOK' /\ (GiveUp \/ TryMmc)
BY GiveUpType, TryMmcType DEF Abandon

LEMMA RetryType ==
    ASSUME DriverOK, NEW p, NEW a \in DOMAIN Command, Retry(p, a)
    PROVE  /\ DriverOK'
           /\ \/ pc' = a /\ UNCHANGED <<op, found, result, buf, highCapacity>>
              \/ GiveUp
              \/ TryMmc
<1>1. CASE tries > 0
  BY <1>1 DEF Retry, DriverOK
<1>2. CASE ~(tries > 0)
  BY <1>2, AbandonType DEF Retry
<1>. QED BY <1>1, <1>2

LEMMA EnterType == ASSUME NEW n, Enter(n) PROVE tries' \in Nat /\ pc' = n
BY CardAssumption DEF Enter

LEMMA ProceedType ==
    ASSUME DriverOK, NEW p \in (Plain \cup {"extCsd", "extRead"}) \ {"blockLen"}, Proceed(p)
    PROVE  /\ DriverOK' /\ pc' = Command[p].next
           /\ UNCHANGED <<op, found, result, buf, highCapacity>>
<1>1. tries' \in Nat /\ pc' = Command[p].next
  BY EnterType DEF Proceed
<1>2. Command[p].next \in DOMAIN Command
  BY NextRows, PlainNames, Names DEF Identified, Early, GoIdle, PoweringUp
<1>. QED BY <1>1, <1>2 DEF Proceed, DriverOK

LEMMA PoweredUpType ==
    ASSUME DriverOK, NEW p, NEW hc \in BOOLEAN, NEW v \in {"sd", "mmc"}, PoweredUp(p, hc, v)
    PROVE  /\ DriverOK'
           /\ \/ pc' = "cid" /\ highCapacity' = hc /\ UNCHANGED <<op, found, result, buf>>
              \/ GiveUp
              \/ TryMmc
<1>1. CASE tries > 0
  BY <1>1, Names DEF PoweredUp, DriverOK, Identified
<1>2. CASE ~(tries > 0)
  BY <1>2, AbandonType DEF PoweredUp
<1>. QED BY <1>1, <1>2

-----------------------------------------------------------------------------
(* Bringing a card up                                                      *)

\* A step of sdmmc_init: it goes on, gives up, or has found a card.
Brought ==
    /\ CardOK' /\ HistoryOK' /\ DriverOK'
    /\ UNCHANGED slot
    /\ \/ /\ pc' \in Bringing
          /\ UNCHANGED <<op, found, result, buf>>
          /\ PoweringOK'
          /\ pc' \in Identified /\ state' \notin {"idle", "app"}
                => (highCapacity' <=> slot' \in High)
       \/ GiveUp
       \/ pc = "blockLen" /\ Answered("blockLen") /\ Found

LEMMA SlotKept ==
    ASSUME NEW p, NEW s,
           Answered(p) \/ Missed(p) \/ AnsweredBusy(p) \/ DataLost(p, s) \/ NotSent(p)
    PROVE  UNCHANGED slot
BY DEF Answered, Missed, AnsweredBusy, DataLost, NotSent, Obey, cardVars

\* A card that has left idle does not go back when it obeys.
LEMMA Stays ==
    ASSUME CardOK, NEW p \in Identified, NEW s \in BOOLEAN,
           state' \notin {"idle", "app"},
           Answered(p) \/ Missed(p) \/ DataLost(p, s) \/ NotSent(p)
    PROVE  state \notin {"idle", "app"}
<1>1. state \in {"idle", "app"} => ~Takes(p)
  BY IdentifiedRows DEF Takes
<1>. QED BY <1>1 DEF Answered, Missed, DataLost, NotSent, Sends, cardVars

LEMMA AddressKept ==
    ASSUME IInv, pc \in Identified, NEW s \in BOOLEAN,
           Answered(pc) \/ Missed(pc) \/ DataLost(pc, s) \/ NotSent(pc),
           state' \notin {"idle", "app"}, highCapacity' = highCapacity
    PROVE  highCapacity' <=> slot' \in High
<1>1. state \notin {"idle", "app"}
  BY Stays DEF IInv, TypeOK
<1>2. highCapacity <=> slot \in High
  BY <1>1 DEF IInv, AddressOK
<1>. QED BY <1>2, SlotKept

LEMMA Sets ==
    /\ Identified \cap (PoweringUp \cup Reading \cup Early \cup {"off"}) = {}
    /\ PoweringUp \cap (Reading \cup Early \cup {"off"}) = {}
    /\ Reading \cap (Early \cup {"off"}) = {}
    /\ "off" \notin Early
    /\ Bringing \cup Reading = DOMAIN Command
    /\ "off" \notin DOMAIN Command
    /\ "goIdleMmc" \in Early /\ "ifCond" \in Early /\ "mmcOpCond" \in Early
    /\ PoweringUp = {"appCmd", "opCond"} /\ Reading = {"read", "readDone"}
    /\ {"cid", "blockLen", "selected", "extCsd", "extRead", "appWidth", "power"} \subseteq Identified
    /\ Plain \ Early \subseteq Identified /\ Plain \subseteq DOMAIN Command
    /\ PoweringUp \cup Identified \cup Reading \subseteq DOMAIN Command
    /\ "mmcOpCond" \in DOMAIN Command
BY Names, PlainNames DEF Identified, PoweringUp, Reading, Early, Bringing, GoIdle

LEMMA CardStep ==
    ASSUME CardOK, HistoryOK, NEW p \in DOMAIN Command,
           Answered(p) \/ Missed(p) \/ AnsweredBusy(p)
    PROVE  CardOK' /\ HistoryOK' /\ UNCHANGED slot
BY CardType, SlotKept

LEMMA DataStep ==
    ASSUME CardOK, HistoryOK, NEW p \in DOMAIN Command, NEW s \in BOOLEAN,
           Answered(p) \/ DataLost(p, s) \/ NotSent(p)
    PROVE  CardOK' /\ HistoryOK' /\ UNCHANGED slot
BY CardType, SlotKept

LEMMA SendBrings ==
    ASSUME IInv, pc \in Bringing, NEW p \in Plain, Send(p) PROVE Brought
<1>. USE Sets
<1>1. CardOK /\ HistoryOK /\ DriverOK /\ pc = p
  BY DEF IInv, TypeOK, Send
<1>2. Answered(p) \/ Missed(p)
  BY DEF Send
<1>3. CardOK' /\ HistoryOK' /\ UNCHANGED slot
  BY <1>1, <1>2, CardType, SlotKept
<1>4. CASE Answered(p) /\ p = "blockLen" /\ Found
  <2>2. DriverOK'
    BY <1>1, <1>4 DEF Found, Return, Device!Succeeded, DriverOK, CardOK
  <2>. QED BY <2>2, <1>1, <1>3, <1>4 DEF Brought
<1>5. CASE p # "blockLen" /\ (Answered(p) \/ p \in GoIdle) /\ Proceed(p)
  <2>1. /\ DriverOK' /\ pc' = Command[p].next
        /\ UNCHANGED <<op, found, result, buf, highCapacity>>
    BY <1>1, <1>5, ProceedType
  <2>2. pc' \in Bringing
    BY <2>1, <1>5, NextRows DEF Bringing
  <2>3. PoweringOK'
    <3>. SUFFICES ASSUME pc' = "appCmd" PROVE state' = "idle"
      BY <2>1, <1>5, NextRows DEF PoweringOK
    <3>1. p = "ifCond"
      BY <2>1, NextRows
    <3>. QED BY <3>1, <1>5 DEF GoIdle, Answered, Obey, Command, Row
  <2>4. pc' \in Identified => p \in Identified
    BY <2>1, <1>5, NextRows
  <2>5. pc' \in Identified /\ state' \notin {"idle", "app"} => (highCapacity' <=> slot' \in High)
    BY <2>1, <2>4, <1>1, <1>2, AddressKept
  <2>. QED BY <2>1, <2>2, <2>3, <2>5, <1>3 DEF Brought
<1>6. CASE Abandon(p)
  <2>1. DriverOK' /\ (GiveUp \/ TryMmc)
    BY <1>1, <1>6, AbandonType
  <2>2. CASE GiveUp
    BY <2>1, <2>2, <1>3 DEF Brought
  <2>3. CASE TryMmc
    BY <2>1, <2>3, <1>1, <1>3, TryMmcType DEF Brought, Bringing, PoweringOK
  <2>. QED BY <2>1, <2>2, <2>3
<1>. QED BY <1>4, <1>5, <1>6 DEF Send, GoIdle

LEMMA StopsBring ==
    ASSUME CardOK', HistoryOK', UNCHANGED slot, DriverOK, GiveUp \/ TryMmc PROVE Brought
<1>1. CASE GiveUp
  BY <1>1, GiveUpType DEF Brought
<1>2. CASE TryMmc
  BY <1>2, TryMmcType, Sets DEF Brought, Bringing, PoweringOK
<1>. QED BY <1>1, <1>2

LEMMA AppCmdBrings == ASSUME IInv, AppCmd PROVE Brought
<1>. USE Sets
<1>1. CardOK /\ HistoryOK /\ DriverOK /\ pc = "appCmd"
  BY DEF IInv, TypeOK, AppCmd
<1>2. CardOK' /\ HistoryOK' /\ UNCHANGED slot
  BY <1>1, CardStep DEF AppCmd
<1>3. state' \in {"idle", "app"}
  BY <1>1 DEF AppCmd, Answered, Missed, Obey, Command, Row, cardVars, IInv, PoweringOK
<1>4. ASSUME DriverOK', pc' \in PoweringUp, UNCHANGED <<op, found, result, buf>> PROVE Brought
  BY <1>2, <1>3, <1>4 DEF Brought, Bringing, PoweringOK
<1>5. CASE /\ pc' = "opCond"
           /\ UNCHANGED <<hostWidth, tries, type, highCapacity, op, buf, found, result>>
  <2>1. DriverOK'
    BY <1>1, <1>5 DEF DriverOK
  <2>. QED BY <2>1, <1>4, <1>5
<1>6. CASE Retry("appCmd", "appCmd")
  <2>1. /\ DriverOK'
        /\ \/ pc' = "appCmd" /\ UNCHANGED <<op, found, result, buf, highCapacity>>
           \/ GiveUp
           \/ TryMmc
    BY <1>1, <1>6, RetryType
  <2>. QED BY <2>1, <1>1, <1>2, <1>4, StopsBring
<1>. QED BY <1>5, <1>6 DEF AppCmd

\* The answer of ACMD41 or CMD1 is where the driver learns how to address the
\* card.  An answer that is lost, and not the command, would leave it wrong.
LEMMA PoweredUpBrings ==
    ASSUME DriverOK, CardOK', HistoryOK', UNCHANGED slot,
           NEW p, NEW hc \in BOOLEAN, NEW v \in {"sd", "mmc"}, PoweredUp(p, hc, v),
           state' \notin {"idle", "app"} => (hc <=> slot \in High)
    PROVE  Brought
<1>1. /\ DriverOK'
      /\ \/ pc' = "cid" /\ highCapacity' = hc /\ UNCHANGED <<op, found, result, buf>>
         \/ GiveUp
         \/ TryMmc
  BY PoweredUpType
<1>2. CASE pc' = "cid" /\ highCapacity' = hc /\ UNCHANGED <<op, found, result, buf>>
  BY <1>1, <1>2, Sets DEF Brought, Bringing, PoweringOK
<1>. QED BY <1>1, <1>2, StopsBring

LEMMA OpCondBrings == ASSUME IInv, OpCond, "opCond" \notin Lossy PROVE Brought
<1>. USE Sets
<1>1. CardOK /\ HistoryOK /\ DriverOK /\ pc = "opCond" /\ type \in {"sd", "mmc"}
  BY DEF IInv, TypeOK, DriverOK, OpCond
<1>2. CardOK' /\ HistoryOK' /\ UNCHANGED slot
  BY <1>1, CardStep DEF OpCond
<1>3. CASE Answered("opCond") /\ PoweredUp("opCond", slot \in High, type)
  <2>1. PICK hc \in BOOLEAN : hc = (slot \in High)
    <3>. WITNESS (slot \in High) \in BOOLEAN
    <3>. QED OBVIOUS
  <2>2. PoweredUp("opCond", hc, type)
    BY <1>3, <2>1
  <2>. QED BY <2>1, <2>2, <1>1, <1>2, PoweredUpBrings
<1>4. CASE AnsweredBusy("opCond") /\ Retry("opCond", "appCmd")
  <2>1. /\ DriverOK'
        /\ \/ pc' = "appCmd" /\ UNCHANGED <<op, found, result, buf, highCapacity>>
           \/ GiveUp
           \/ TryMmc
    BY <1>1, <1>4, RetryType
  <2>2. state' = "idle"
    BY <1>4 DEF AnsweredBusy
  <2>3. CASE pc' = "appCmd" /\ UNCHANGED <<op, found, result, buf, highCapacity>>
    BY <2>1, <2>2, <2>3, <1>2 DEF Brought, Bringing, PoweringOK
  <2>. QED BY <2>1, <2>3, <1>1, <1>2, StopsBring
<1>5. CASE Missed("opCond") /\ PoweredUp("opCond", FALSE, type)
  <2>1. UNCHANGED cardVars
    BY <1>5 DEF Missed, CanFail
  <2>2. state' \in {"idle", "app"}
    BY <2>1, <1>1 DEF cardVars, IInv, PoweringOK
  <2>. QED BY <2>2, <1>1, <1>2, <1>5, PoweredUpBrings
<1>. QED BY <1>3, <1>4, <1>5 DEF OpCond

LEMMA OpCondMmcBrings == ASSUME IInv, OpCondMmc PROVE Brought
<1>. USE Sets
<1>1. CardOK /\ HistoryOK /\ DriverOK /\ pc = "mmcOpCond"
  BY DEF IInv, TypeOK, OpCondMmc
<1>2. CardOK' /\ HistoryOK' /\ UNCHANGED slot
  BY <1>1, CardStep DEF OpCondMmc
<1>3. CASE Answered("mmcOpCond") /\ PoweredUp("mmcOpCond", slot \in High, "mmc")
  <2>1. PICK hc \in BOOLEAN : hc = (slot \in High)
    <3>. WITNESS (slot \in High) \in BOOLEAN
    <3>. QED OBVIOUS
  <2>2. PoweredUp("mmcOpCond", hc, "mmc")
    BY <1>3, <2>1
  <2>. QED BY <2>1, <2>2, <1>1, <1>2, PoweredUpBrings
<1>4. CASE AnsweredBusy("mmcOpCond") /\ Retry("mmcOpCond", "mmcOpCond")
  <2>1. /\ DriverOK'
        /\ \/ pc' = "mmcOpCond" /\ UNCHANGED <<op, found, result, buf, highCapacity>>
           \/ GiveUp
           \/ TryMmc
    BY <1>1, <1>4, RetryType
  <2>2. CASE pc' = "mmcOpCond" /\ UNCHANGED <<op, found, result, buf, highCapacity>>
    BY <2>1, <2>2, <1>2 DEF Brought, Bringing, PoweringOK
  <2>. QED BY <2>1, <2>2, <1>1, <1>2, StopsBring
<1>5. CASE Missed("mmcOpCond") /\ GiveUp
  BY <1>1, <1>2, <1>5, StopsBring
<1>. QED BY <1>3, <1>4, <1>5 DEF OpCondMmc

\* A step after power-up that leaves the address mode alone
LEMMA GoesOn ==
    ASSUME IInv, pc \in Identified, NEW s \in BOOLEAN,
           Answered(pc) \/ Missed(pc) \/ DataLost(pc, s) \/ NotSent(pc),
           DriverOK', pc' \in Identified,
           UNCHANGED <<op, found, result, buf, highCapacity>>
    PROVE  Brought
<1>1. CardOK' /\ HistoryOK' /\ UNCHANGED slot
  BY CardType, SlotKept, Sets DEF IInv, TypeOK
<1>2. state' \notin {"idle", "app"} => (highCapacity' <=> slot' \in High)
  BY AddressKept
<1>. QED BY <1>1, <1>2, Sets DEF Brought, Bringing, PoweringOK

LEMMA ExtCsdBrings == ASSUME IInv, ExtCsd PROVE Brought
<1>. USE Sets
<1>1. CardOK /\ HistoryOK /\ DriverOK /\ pc = "extCsd"
  BY DEF IInv, TypeOK, ExtCsd
<1>2. Answered("extCsd") \/ DataLost("extCsd", FALSE) \/ NotSent("extCsd")
  BY DEF ExtCsd, DataArrives
<1>3. CardOK' /\ HistoryOK' /\ UNCHANGED slot
  BY <1>1, <1>2, DataStep
<1>4. CASE Answered("extCsd") /\ Proceed("extCsd")
  <2>1. /\ DriverOK' /\ pc' = Command["extCsd"].next
        /\ UNCHANGED <<op, found, result, buf, highCapacity>>
    BY <1>1, <1>4, ProceedType
  <2>2. pc' \in Identified
    BY <2>1, NextRows
  <2>. QED BY <2>1, <2>2, <1>1, <1>2, GoesOn
<1>5. CASE GiveUp
  BY <1>1, <1>3, <1>5, StopsBring
<1>. QED BY <1>4, <1>5 DEF ExtCsd, DataArrives

LEMMA StatusBrings == ASSUME IInv, NEW p \in {"selected", "extRead"}, Status(p) PROVE Brought
<1>. USE Sets
<1>1. CardOK /\ HistoryOK /\ DriverOK /\ pc = p /\ p \in Identified
  BY DEF IInv, TypeOK, Status
<1>2. Answered(p) \/ Missed(p)
  BY DEF Status, StopTimesOut, Missed
<1>3. CardOK' /\ HistoryOK' /\ UNCHANGED slot
  BY <1>1, <1>2, CardStep
<1>4. ASSUME DriverOK', pc' \in Identified, UNCHANGED <<op, found, result, buf, highCapacity>>
      PROVE  Brought
  BY <1>1, <1>2, <1>4, GoesOn
<1>5. CASE Reached(p)
  <2>1. CASE p = "selected"
    <3>1. tries' \in Nat /\ pc' \in {"appWidth", "extCsd"}
      BY <1>5, <2>1, EnterType DEF Reached
    <3>2. DriverOK' /\ UNCHANGED <<op, found, result, buf, highCapacity>>
      BY <3>1, <1>1, <1>5, <2>1 DEF Reached, DriverOK
    <3>. QED BY <3>1, <3>2, <1>4
  <2>2. CASE p = "extRead"
    <3>1. Proceed(p)
      BY <1>5, <2>2 DEF Reached
    <3>2. /\ DriverOK' /\ pc' = Command[p].next
          /\ UNCHANGED <<op, found, result, buf, highCapacity>>
      BY <1>1, <2>2, <3>1, ProceedType
    <3>. QED BY <2>2, <3>2, <1>1, <1>4, NextRows
  <2>. QED BY <2>1, <2>2
<1>6. CASE /\ tries' = StatusTries
           /\ UNCHANGED <<hostWidth, pc, type, highCapacity, op, buf, found, result>>
  BY <1>1, <1>4, <1>6, CardAssumption DEF DriverOK
<1>7. CASE GiveUp
  BY <1>1, <1>3, <1>7, StopsBring
<1>8. CASE Retry(p, p)
  <2>1. /\ DriverOK'
        /\ \/ pc' = p /\ UNCHANGED <<op, found, result, buf, highCapacity>>
           \/ GiveUp
           \/ TryMmc
    BY <1>1, <1>8, RetryType
  <2>. QED BY <2>1, <1>1, <1>3, <1>4, StopsBring
<1>. QED BY <1>5, <1>6, <1>7, <1>8 DEF Status

-----------------------------------------------------------------------------
(* Reading                                                                 *)

\* A step of sdmmc_blk_read: it goes on, gives up, or has read it all.
Advanced ==
    /\ CardOK' /\ HistoryOK' /\ DriverOK'
    /\ UNCHANGED <<slot, found, highCapacity>>
    /\ state = "idle" <=> state' = "idle"
    /\ \/ pc' \in Reading /\ UNCHANGED <<op, result>> /\ ReadOK'
       \/ GiveUp
       \/ /\ pc' = "off" /\ op' = NoOp
          /\ state # "idle"
          /\ result' = Device!Succeeded(Blocks(found, op.start, op.cnt))

LEMMA ReadRows ==
    /\ Command["read"].from = {"tran"} /\ Command["read"].to = "tran"
    /\ Command["readDone"].from = {"stby", "tran", "data"} /\ Command["readDone"].to = "same"
BY DEF Command, Row

LEMMA NotIdle ==
    ASSUME NEW p \in Reading, NEW s \in BOOLEAN,
           Answered(p) \/ Missed(p) \/ DataLost(p, s) \/ NotSent(p)
    PROVE  state = "idle" <=> state' = "idle"
<1>1. p = "read" \/ p = "readDone"
  BY DEF Reading
<1>2. Takes(p) => state # "idle"
  BY <1>1, ReadRows DEF Takes
<1>3. Obey(p) => (state' = state \/ state' = "tran")
  BY <1>1, ReadRows DEF Obey
<1>. QED BY <1>2, <1>3 DEF Answered, Missed, DataLost, NotSent, Sends, cardVars

LEMMA GiveUpAdvances ==
    ASSUME DriverOK, CardOK', HistoryOK', UNCHANGED slot, GiveUp, state = "idle" <=> state' = "idle"
    PROVE  Advanced
BY GiveUpType DEF Advanced, GiveUp, Return

\* The next chunk begins where the last one ended, and the card sends it from
\* the block the driver means.
LEMMA ChunkRight ==
    ASSUME IInv, pc = "read", Takes("read")
    PROVE  /\ found \in Cards /\ slot = found
           /\ Start \in Nat /\ Block(Arg) = Start
           /\ Chunk \in 1 .. Left
<1>. USE CardAssumption, Sets
<1>1. /\ op.start \in Nat /\ op.cnt \in Nat \ {0}
      /\ Len(buf) \in Nat /\ Len(buf) < op.cnt
      /\ found \in Cards
  BY OpType DEF IInv, TypeOK, DriverOK, CallsOK, ReadOK
<1>2. slot = found /\ (highCapacity <=> slot \in High)
  BY ReadRows DEF Takes, IInv, CallsOK, AddressOK
<1>3. Start \in Nat
  BY <1>1 DEF Start
<1>4. Block(Arg) = Start
  <2>1. CASE slot \in High
    BY <2>1, <1>2 DEF Block, Arg
  <2>2. CASE slot \notin High
    BY <2>2, <1>2, <1>3, Divides DEF Block, Arg
  <2>. QED BY <2>1, <2>2
<1>5. Chunk \in 1 .. Left
  BY <1>1 DEF Chunk, Left
<1>. QED BY <1>1, <1>2, <1>3, <1>4, <1>5

LEMMA ReadChunkAdvances == ASSUME IInv, ReadChunk PROVE Advanced
<1>. USE Sets
<1>1. CardOK /\ HistoryOK /\ DriverOK /\ pc = "read"
  BY DEF IInv, TypeOK, ReadChunk
<1>2. Answered("read") \/ DataLost("read", Chunk > 1) \/ NotSent("read")
  BY DEF ReadChunk, DataArrives
<1>3. PICK s \in BOOLEAN : Answered("read") \/ DataLost("read", s) \/ NotSent("read")
  <2>. WITNESS (Chunk > 1) \in BOOLEAN
  <2>. QED BY <1>2
<1>4. CardOK' /\ HistoryOK' /\ UNCHANGED slot
  BY <1>1, <1>3, DataStep
<1>5. state = "idle" <=> state' = "idle"
  BY <1>3, NotIdle
<1>6. CASE GiveUp
  BY <1>1, <1>4, <1>5, <1>6, GiveUpAdvances
<1>7. CASE /\ DataArrives("read")
           /\ buf' = buf \o Blocks(slot, Block(Arg), Chunk)
           /\ Enter("readDone")
           /\ UNCHANGED <<hostWidth, type, highCapacity, op, found, result>>
  <2>1. Takes("read")
    BY <1>7 DEF DataArrives, Answered
  <2>2. /\ found \in Cards /\ slot = found
        /\ Start \in Nat /\ Block(Arg) = Start
        /\ Chunk \in 1 .. Left
    BY <1>1, <2>1, ChunkRight
  <2>3. /\ op \in Device!ReadOps /\ Len(buf) \in Nat
        /\ buf = Blocks(found, op.start, Len(buf)) /\ buf \in Seq(Cards \X Nat)
    BY <1>1 DEF IInv, CallsOK, ReadOK, DriverOK
  <2>4. op.start \in Nat /\ op.cnt \in Nat /\ Len(buf) < op.cnt
    BY <1>1, <2>3, OpType DEF IInv, ReadOK
  <2>5. Chunk \in Nat /\ Len(buf) + Chunk <= op.cnt
    BY <2>2, <2>3, <2>4 DEF Left
  <2>6. buf' = Blocks(found, op.start, Len(buf) + Chunk)
    <3>1. Blocks(found, op.start, Len(buf)) \o Blocks(found, op.start + Len(buf), Chunk)
            = Blocks(found, op.start, Len(buf) + Chunk)
      <4>1. found \in Cards /\ op.start \in Nat /\ Len(buf) \in Nat /\ Chunk \in Nat
        BY <2>2, <2>3, <2>4, <2>5
      <4>. QED BY ONLY <4>1, BlocksJoin, Zenon
    <3>2. buf' = buf \o Blocks(found, op.start + Len(buf), Chunk)
      BY <1>7, <2>2 DEF Start
    <3>. QED BY <3>1, <3>2, <2>3
  <2>7. buf' \in Seq(Cards \X Nat) /\ Len(buf') = Len(buf) + Chunk
    <3>1. Len(buf) + Chunk \in Nat
      BY <2>3, <2>5
    <3>. QED BY <3>1, <2>2, <2>4, <2>6, BlocksLen
  <2>8. tries' \in Nat /\ pc' = "readDone"
    BY <1>7, EnterType
  <2>9. DriverOK'
    BY <1>1, <1>7, <2>7, <2>8 DEF DriverOK
  <2>10. ReadOK'
    BY <1>7, <2>5, <2>6, <2>7, <2>8 DEF ReadOK
  <2>. QED BY <1>4, <1>5, <1>7, <2>8, <2>9, <2>10 DEF Advanced
<1>. QED BY <1>6, <1>7 DEF ReadChunk

LEMMA StatusAdvances == ASSUME IInv, Status("readDone") PROVE Advanced
<1>. USE Sets
<1>1. CardOK /\ HistoryOK /\ DriverOK /\ pc = "readDone"
  BY DEF IInv, TypeOK, Status
<1>2. Answered("readDone") \/ Missed("readDone")
  BY DEF Status, StopTimesOut, Missed
<1>3. CardOK' /\ HistoryOK' /\ UNCHANGED slot
  BY <1>1, <1>2, CardStep
<1>4. state = "idle" <=> state' = "idle"
  BY <1>2, NotIdle
<1>5. CASE GiveUp
  BY <1>1, <1>3, <1>4, <1>5, GiveUpAdvances
<1>6. ASSUME DriverOK', pc' = "readDone",
             UNCHANGED <<highCapacity, op, buf, found, result>>
      PROVE  Advanced
  <2>1. ReadOK'
    BY <1>1, <1>6 DEF IInv, ReadOK
  <2>. QED BY <1>3, <1>4, <1>6, <2>1 DEF Advanced
<1>7. CASE Retry("readDone", "readDone")
  <2>1. CASE tries > 0
    <3>1. DriverOK'
      BY <1>1, <1>7, RetryType
    <3>. QED BY <1>6, <1>7, <2>1, <3>1 DEF Retry
  <2>2. CASE ~(tries > 0)
    BY <1>5, <1>7, <2>2 DEF Retry, Abandon
  <2>. QED BY <2>1, <2>2
<1>8. CASE /\ tries' = StatusTries
           /\ UNCHANGED <<hostWidth, pc, type, highCapacity, op, buf, found, result>>
  <2>1. DriverOK'
    BY <1>1, <1>8, CardAssumption DEF DriverOK
  <2>. QED BY <1>1, <1>6, <1>8, <2>1
<1>9. CASE Answered("readDone") /\ ChunkDone
  <2>1. /\ op \in Device!ReadOps /\ Len(buf) \in Nat /\ Len(buf) <= op.cnt
        /\ buf = Blocks(found, op.start, Len(buf)) /\ buf \in Seq(Cards \X Nat)
    BY <1>1 DEF IInv, CallsOK, ReadOK, DriverOK
  <2>2. op.start \in Nat /\ op.cnt \in Nat
    BY <2>1, OpType
  <2>3. CASE Left > 0
    <3>1. /\ tries' \in Nat /\ pc' = "read"
          /\ UNCHANGED <<hostWidth, type, highCapacity, op, buf, found, result>>
      BY <1>9, <2>3, EnterType DEF ChunkDone
    <3>2. DriverOK'
      BY <1>1, <3>1 DEF DriverOK
    <3>3. ReadOK'
      BY <2>1, <2>2, <2>3, <3>1 DEF ReadOK, Left
    <3>. QED BY <1>3, <1>4, <3>1, <3>2, <3>3 DEF Advanced
  <2>4. CASE ~(Left > 0)
    <3>1. Return(Device!Succeeded(buf)) /\ UNCHANGED found
      BY <1>9, <2>4 DEF ChunkDone
    <3>2. Len(buf) = op.cnt
      BY <2>1, <2>2, <2>4 DEF Left
    <3>3. DriverOK'
      BY <1>1, <2>1, <3>1 DEF Return, DriverOK, Device!Succeeded
    <3>4. state # "idle"
      BY <1>9, ReadRows DEF Answered, Takes
    <3>. QED BY <1>3, <1>4, <2>1, <3>1, <3>2, <3>3, <3>4 DEF Advanced, Return
  <2>. QED BY <2>3, <2>4
<1>. QED BY <1>5, <1>7, <1>8, <1>9 DEF Status, Reached

-----------------------------------------------------------------------------
(* The invariant                                                           *)

LEMMA OffSame ==
    ASSUME IInv, pc = "off" PROVE op = NoOp
BY DEF IInv, CallsOK

LEMMA DriverSteps ==
    ASSUME IInv, Driver, "opCond" \notin Lossy
    PROVE  (pc \in Bringing /\ Brought) \/ (pc \in Reading /\ Advanced)
<1>1. CASE \E p \in Plain : Send(p)
  <2>1. PICK p \in Plain : Send(p)
    BY <1>1
  <2>2. pc \in Bringing
    BY <2>1, PlainNames, Sets DEF Send, Bringing, Early, Identified
  <2>. QED BY <2>1, <2>2, SendBrings
<1>2. CASE AppCmd \/ OpCond \/ OpCondMmc \/ ExtCsd
  <2>1. pc \in Bringing
    BY <1>2, Sets DEF AppCmd, OpCond, OpCondMmc, ExtCsd, Bringing
  <2>. QED BY <1>2, <2>1, AppCmdBrings, OpCondBrings, OpCondMmcBrings, ExtCsdBrings
<1>3. CASE ReadChunk
  BY <1>3, ReadChunkAdvances, Sets DEF ReadChunk
<1>4. CASE \E p \in StatusPolls : Status(p)
  <2>1. PICK p \in StatusPolls : Status(p)
    BY <1>4
  <2>2. CASE p = "readDone"
    BY <2>1, <2>2, StatusAdvances, Sets DEF Status
  <2>3. CASE p \in {"selected", "extRead"}
    <3>1. pc \in Bringing
      BY <2>1, <2>3, Sets DEF Status, Bringing
    <3>. QED BY <2>1, <2>3, <3>1, StatusBrings
  <2>. QED BY <2>1, <2>2, <2>3 DEF StatusPolls
<1>. QED BY <1>1, <1>2, <1>3, <1>4 DEF Driver

LEMMA StoppedInv ==
    ASSUME IInv, CardOK', HistoryOK', GiveUp, UNCHANGED slot,
           pc \in Bringing \/ (state = "idle" <=> state' = "idle")
    PROVE  IInv'
<1>. USE Sets DEF Bringing
<1>1. DriverOK' /\ pc' = "off" /\ op' = NoOp /\ UNCHANGED <<found, highCapacity>>
  BY GiveUpType DEF IInv, TypeOK, GiveUp, Return
<1>2. CallsOK' /\ PoweringOK' /\ ReadOK'
  BY <1>1 DEF CallsOK, PoweringOK, ReadOK
<1>3. AddressOK'
  <2>1. CASE pc \in Bringing
    BY <1>1, <2>1 DEF AddressOK, IInv, CallsOK
  <2>2. CASE pc \notin Bringing /\ (state = "idle" <=> state' = "idle")
    BY <1>1, <2>2 DEF AddressOK, IInv
  <2>. QED BY <2>1, <2>2
<1>. QED BY <1>1, <1>2, <1>3 DEF IInv, TypeOK

LEMMA BroughtInv == ASSUME IInv, pc \in Bringing, Brought PROVE IInv'
<1>. USE Sets DEF Bringing
<1>1. CardOK' /\ HistoryOK' /\ DriverOK' /\ UNCHANGED slot
  BY DEF Brought
<1>2. CASE /\ pc' \in Bringing
           /\ UNCHANGED <<op, found, result, buf>>
           /\ PoweringOK'
           /\ pc' \in Identified /\ state' \notin {"idle", "app"}
                => (highCapacity' <=> slot' \in High)
  <2>1. CallsOK' /\ ReadOK'
    BY <1>2 DEF CallsOK, ReadOK, IInv
  <2>2. AddressOK'
    BY <1>2 DEF AddressOK
  <2>. QED BY <1>1, <1>2, <2>1, <2>2 DEF IInv, TypeOK
<1>3. CASE GiveUp
  BY <1>1, <1>3, StoppedInv
<1>4. CASE pc = "blockLen" /\ Answered("blockLen") /\ Found
  <2>1. /\ pc' = "off" /\ op' = NoOp /\ found' = slot
        /\ UNCHANGED <<slot, highCapacity>>
    BY <1>1, <1>4 DEF Found, Return
  <2>2. highCapacity <=> slot \in High
    BY <1>4, IdentifiedRows DEF IInv, AddressOK, Answered, Takes
  <2>3. CallsOK' /\ PoweringOK' /\ ReadOK' /\ AddressOK'
    BY <2>1, <2>2 DEF CallsOK, PoweringOK, ReadOK, AddressOK
  <2>. QED BY <1>1, <2>3 DEF IInv, TypeOK
<1>. QED BY <1>2, <1>3, <1>4 DEF Brought

LEMMA AdvancedInv == ASSUME IInv, pc \in Reading, Advanced PROVE IInv'
<1>. USE Sets DEF Bringing
<1>1. /\ CardOK' /\ HistoryOK' /\ DriverOK'
      /\ UNCHANGED <<slot, found, highCapacity>>
      /\ state = "idle" <=> state' = "idle"
  BY DEF Advanced
<1>2. CASE GiveUp
  BY <1>1, <1>2, StoppedInv
<1>3. CASE pc' \in Reading /\ UNCHANGED <<op, result>> /\ ReadOK'
  <2>1. CallsOK' /\ PoweringOK' /\ AddressOK'
    BY <1>1, <1>3 DEF CallsOK, PoweringOK, AddressOK, IInv
  <2>. QED BY <1>1, <1>3, <2>1 DEF IInv, TypeOK
<1>4. CASE pc' = "off" /\ op' = NoOp
  <2>1. CallsOK' /\ PoweringOK' /\ AddressOK' /\ ReadOK'
    BY <1>1, <1>4 DEF CallsOK, PoweringOK, AddressOK, ReadOK, IInv
  <2>. QED BY <1>1, <2>1 DEF IInv, TypeOK
<1>. QED BY <1>2, <1>3, <1>4 DEF Advanced

LEMMA InitInv == Init => IInv
<1>. SUFFICES ASSUME Init PROVE IInv
  OBVIOUS
<1>. USE Sets, CardAssumption DEF Init, Bringing
<1>. troubled \in BOOLEAN /\ highCapacity \in BOOLEAN
  OBVIOUS
<1>1. CardOK /\ HistoryOK
  BY DEF CardOK, HistoryOK, States
<1>2. DriverOK
  BY DEF DriverOK
<1>3. CallsOK /\ PoweringOK /\ AddressOK /\ ReadOK
  BY DEF CallsOK, PoweringOK, AddressOK, ReadOK
<1>. QED BY <1>1, <1>2, <1>3 DEF IInv, TypeOK

LEMMA InvStep ==
    ASSUME "opCond" \notin Lossy PROVE IInv /\ [Next]_vars => IInv'
<1>. SUFFICES ASSUME IInv, [Next]_vars PROVE IInv'
  OBVIOUS
<1>. USE Sets DEF Bringing
<1>1. CardOK /\ HistoryOK /\ DriverOK
  BY DEF IInv, TypeOK
<1>2. CASE CallInit
  <2>1. CardOK' /\ HistoryOK'
    BY <1>1, <1>2 DEF CallInit, CardOK, HistoryOK, cardVars
  <2>2. pc' = "goIdle" /\ pc' \in Early
    BY <1>2 DEF CallInit, Early, GoIdle
  <2>3. DriverOK'
    BY <1>1, <1>2, <2>2 DEF CallInit, DriverOK
  <2>4. CallsOK' /\ PoweringOK' /\ AddressOK' /\ ReadOK'
    BY <1>2, <2>2 DEF CallInit, CallsOK, PoweringOK, AddressOK, ReadOK
  <2>. QED BY <2>1, <2>3, <2>4 DEF IInv, TypeOK
<1>3. CASE CallRead
  <2>1. CardOK' /\ HistoryOK'
    BY <1>1, <1>3 DEF CallRead, CardOK, HistoryOK, cardVars, historyVars
  <2>2. buf' = <<>> /\ buf' \in Seq(Cards \X Nat) /\ Len(buf') = 0
    BY <1>3 DEF CallRead
  <2>3. DriverOK'
    BY <1>1, <1>3, <2>2 DEF CallRead, DriverOK
  <2>4. CallsOK' /\ PoweringOK' /\ AddressOK'
    BY <1>3 DEF CallRead, CallsOK, PoweringOK, AddressOK, IInv, cardVars
  <2>5. ReadOK'
    <3>1. op'.start \in Nat /\ op'.cnt \in Nat \ {0}
      BY <1>3, OpType DEF CallRead
    <3>2. Blocks(found', op'.start, 0) = <<>>
      BY DEF Blocks, Device!Blocks
    <3>. QED BY <2>2, <3>1, <3>2 DEF ReadOK
  <2>. QED BY <2>1, <2>3, <2>4, <2>5 DEF IInv, TypeOK
<1>4. CASE Driver
  BY <1>4, DriverSteps, BroughtInv, AdvancedInv
<1>5. ASSUME NEW c \in Cards \cup {NoCard}, Insert(c) PROVE IInv'
  <2>1. CardOK' /\ HistoryOK'
    BY <1>1, <1>5, CardAssumption DEF Insert, CardOK, HistoryOK, States
  <2>2. UNCHANGED driverVars /\ state' = "idle"
    BY <1>5 DEF Insert
  <2>3. DriverOK' /\ CallsOK' /\ PoweringOK' /\ AddressOK' /\ ReadOK'
    BY <1>1, <2>2, DriverSame DEF CallsOK, PoweringOK, AddressOK, ReadOK, IInv, driverVars
  <2>. QED BY <2>1, <2>3 DEF IInv, TypeOK
<1>6. CASE UNCHANGED vars
  <2>1. CardOK' /\ HistoryOK' /\ DriverOK'
    BY <1>1, <1>6, DriverSame DEF vars, cardVars, historyVars, CardOK, HistoryOK
  <2>2. CallsOK' /\ PoweringOK' /\ AddressOK' /\ ReadOK'
    BY <1>6 DEF vars, cardVars, driverVars, CallsOK, PoweringOK, AddressOK, ReadOK, IInv
  <2>. QED BY <2>1, <2>2 DEF IInv, TypeOK
<1>. QED BY <1>2, <1>3, <1>4, <1>5, <1>6 DEF Next

-----------------------------------------------------------------------------
(* Calls that nothing disturbs                                             *)

Calm == ~troubled /\ slot # NoCard

\* The card is in a state in which it takes the next command.
StateRight ==
    /\ pc # "off" => state \in Command[pc].from
    /\ pc \in StatusPolls => state = "tran" /\ tries > 0
    /\ pc = "off" => result.ok /\ (found # NoCard => state = "tran")

\* The driver is on the way of the kind of card there is.
Selecting == {"cid", "rca", "csd", "select", "selected"}

KindRight ==
    /\ slot \in Sd => pc \notin MmcOnly \cup {"goIdleMmc", "extRead"}
    /\ slot \notin Sd => pc \notin SdOnly \ {"ifCond"}
    /\ pc \in PoweringUp => type = "sd"
    /\ pc \in Selecting => (type = "sd" <=> slot \in Sd)

\* A card has power before the polls run out.
LoopRight == pc \in PoweringUp \cup {"mmcOpCond"} => tries >= Retries - busy

\* Card and controller use as many data lines as each other.
WidthRight ==
    IF pc \in GoIdle THEN hostWidth = 1
    ELSE (pc # "off" \/ found # NoCard) => cardWidth = hostWidth

Right == StateRight /\ KindRight /\ LoopRight /\ WidthRight
CalmOK == Calm => Right

LEMMA Following ==
    ASSUME NEW p \in (Plain \ {"blockLen"}) \cup {"extCsd"}
    PROVE  /\ Command[p].to # "same" /\ Command[p].to \in Command[Command[p].next].from
           /\ Command[p].next \in StatusPolls => Command[p].to = "tran"
           /\ Command[p].next \in MmcOnly \cup {"goIdleMmc", "extRead"}
                => p \in MmcOnly \cup {"goIdleMmc"}
           /\ Command[p].next \in SdOnly \ {"ifCond"} => p \in SdOnly
           /\ Command[p].next \in PoweringUp => p = "ifCond" /\ Command[p].next = "appCmd"
           /\ Command[p].next \in Selecting => p \in Selecting
           /\ Command[p].next \in GoIdle => p = "goIdle"
           /\ Command[p].next # "off"
<1>1. p \in GoIdle \cup {"ifCond", "cid", "rca", "csd", "select", "power", "mmcWidth",
                         "appWidth", "sdWidth", "extCsd"}
  BY PlainNames
<1>. QED BY <1>1 DEF Command, Row, States, StatusPolls, MmcOnly, SdOnly, PoweringUp, Selecting, GoIdle

\* Only a command that the card does not take is missed.
LEMMA CalmBefore ==
    ASSUME CalmOK, Calm', NEW p, NEW s,
           Answered(p) \/ Missed(p) \/ AnsweredBusy(p) \/ DataLost(p, s) \/ NotSent(p)
    PROVE  Calm /\ Right /\ UNCHANGED slot /\ NoFault
<1>1. NoFault
  BY DEF Calm, Answered, Missed, AnsweredBusy, DataLost, NotSent, Fault
<1>. QED BY <1>1, SlotKept DEF Calm, CalmOK, NoFault, historyVars

LEMMA CalmMiss ==
    ASSUME Calm', NEW p, Missed(p) PROVE ~Takes(p) /\ UNCHANGED cardVars
BY DEF Calm, Missed, Fault

\* The only command that goes to a card of the wrong kind is CMD8.
LEMMA CalmTakes ==
    ASSUME Calm, Right, pc # "off", pc = "ifCond" => slot \in Sd PROVE Takes(pc)
BY DEF Calm, Right, StateRight, KindRight, Takes

LEMMA CalmProceed ==
    ASSUME IInv, Calm, Right, UNCHANGED slot, pc \in (Plain \ {"blockLen"}) \cup {"extCsd"},
           Answered(pc), Proceed(pc), StatusTries > 0
    PROVE  Right'
<1>. DEFINE next == Command[pc].next
<1>. USE Following, CardAssumption, Sets
<1>1. pc' = next /\ state' = Command[pc].to /\ Takes(pc) /\ pc' # "off"
  BY DEF Answered, Obey, Proceed, Enter
<1>2. StateRight'
  <2>1. pc' \in StatusPolls => tries' = StatusTries
    BY DEF Proceed, Enter, StatusPolls
  <2>2. state' \in Command[pc'].from
    BY <1>1
  <2>3. pc' \in StatusPolls => state' = "tran" /\ tries' > 0
    BY <1>1, <2>1
  <2>. QED BY <1>1, <2>2, <2>3 DEF StateRight
<1>3. KindRight'
  <2>1. slot' \in Sd => pc' \notin MmcOnly \cup {"goIdleMmc", "extRead"}
    BY <1>1 DEF Right, KindRight
  <2>2. slot' \notin Sd => pc' \notin SdOnly \ {"ifCond"}
    BY <1>1 DEF Takes
  <2>3. pc' \in PoweringUp => type' = "sd"
    BY <1>1 DEF Proceed
  <2>4. pc' \in Selecting => (type' = "sd" <=> slot' \in Sd)
    BY <1>1 DEF Proceed, Right, KindRight, Selecting
  <2>. QED BY <2>1, <2>2, <2>3, <2>4 DEF KindRight
<1>4. LoopRight'
  <2>1. pc' \in PoweringUp \cup {"mmcOpCond"} => tries' = Retries
    BY <1>1 DEF Proceed, Enter
  <2>2. busy' \in Nat
    BY DEF IInv, TypeOK, CardOK, Answered, Obey
  <2>. QED BY <2>1, <2>2 DEF LoopRight
<1>5. WidthRight'
  <2>1. CASE pc \in GoIdle
    BY <1>1, <2>1 DEF Right, WidthRight, Answered, Obey, Proceed, GoIdle
  <2>2. CASE pc \notin GoIdle
    <3>1. cardWidth = hostWidth
      BY <2>2 DEF Right, WidthRight
    <3>2. pc' \notin GoIdle
      BY <1>1, <2>2 DEF GoIdle
    <3>. QED BY <2>2, <3>1, <3>2 DEF WidthRight, Answered, Obey, Proceed
  <2>. QED BY <2>1, <2>2
<1>. QED BY <1>2, <1>3, <1>4, <1>5 DEF Right

LEMMA CalmSend ==
    ASSUME IInv, CalmOK, Calm', StatusTries > 0, NEW p \in Plain, Send(p) PROVE Right'
<1>. USE Sets
<1>1. pc = p /\ (Answered(p) \/ Missed(p)) /\ pc # "off"
  BY DEF Send
<1>2. Calm /\ Right /\ UNCHANGED slot
  BY <1>1, CalmBefore
<1>3. CASE p = "ifCond" /\ slot \notin Sd
  <2>1. ~Takes(p)
    BY <1>3 DEF Takes, SdOnly
  <2>2. UNCHANGED cardVars /\ TryMmc
    BY <1>1, <1>3, <2>1, CalmMiss DEF Send, Answered, Abandon, GoIdle
  <2>3. pc' = "goIdleMmc" /\ hostWidth' = 1 /\ state' \in States
    BY <2>2 DEF TryMmc, cardVars, IInv, TypeOK, CardOK
  <2>. QED BY <1>2, <1>3, <2>3 DEF Right, StateRight, KindRight, LoopRight, WidthRight,
         Command, Row, StatusPolls, SdOnly, PoweringUp, Selecting, GoIdle
<1>4. CASE ~(p = "ifCond" /\ slot \notin Sd)
  <2>1. Takes(p) /\ ~Missed(p) /\ Answered(p)
    BY <1>1, <1>2, <1>4, CalmTakes, CalmMiss
  <2>2. CASE p = "blockLen"
    <3>1. Found
      BY <2>1, <2>2 DEF Send
    <3>2. /\ pc' = "off" /\ result'.ok /\ state' = "tran"
          /\ UNCHANGED <<cardWidth, hostWidth>>
      BY <2>1, <2>2, <3>1 DEF Found, Return, Device!Succeeded, Answered, Obey, Command, Row, GoIdle
    <3>3. cardWidth = hostWidth
      BY <1>1, <1>2, <2>2 DEF Right, WidthRight, GoIdle
    <3>. QED BY <3>2, <3>3 DEF Right, StateRight, KindRight, LoopRight, WidthRight,
           StatusPolls, SdOnly, MmcOnly, PoweringUp, Selecting, GoIdle
  <2>3. CASE p # "blockLen"
    <3>1. Proceed(p)
      BY <2>1, <2>3 DEF Send
    <3>. QED BY <1>1, <1>2, <2>1, <2>3, <3>1, CalmProceed
  <2>. QED BY <2>2, <2>3
<1>. QED BY <1>3, <1>4

LEMMA MoreNames ==
    /\ SdOnly \cap (Selecting \cup {"mmcOpCond", "extCsd", "extRead", "power", "read", "readDone",
                                    "goIdleMmc", "off"}) = {}
    /\ (MmcOnly \cup {"goIdleMmc", "extRead"}) \cap (Selecting \cup {"appCmd", "opCond", "appWidth",
                                    "read", "readDone", "off"}) = {}
    /\ StatusPolls = {"selected", "extRead", "readDone"}
    /\ GoIdle \cap (Selecting \cup PoweringUp \cup Reading \cup MmcOnly
                    \cup {"extRead", "appWidth", "off"}) = {}
    /\ PoweringUp \cap Selecting = {} /\ PoweringUp \subseteq SdOnly \ {"ifCond"}
    /\ Selecting \cap {"mmcOpCond", "extCsd", "extRead", "power", "appWidth", "read",
                       "readDone", "off"} = {}
    /\ {"extCsd", "power", "mmcOpCond"} \subseteq MmcOnly /\ "appWidth" \in SdOnly
    /\ "cid" \in Selecting /\ "selected" \in Selecting
BY DEF SdOnly, MmcOnly, Selecting, StatusPolls, GoIdle, PoweringUp, Reading

LEMMA MoreRows ==
    /\ Command["appCmd"].to = "app" /\ Command["appCmd"].from = {"idle", "app"}
    /\ Command["opCond"].to = "ready" /\ Command["opCond"].from = {"app"}
    /\ Command["mmcOpCond"].to = "ready" /\ Command["mmcOpCond"].from = {"idle"}
    /\ Command["cid"].from = {"ready"}
    /\ "tran" \in Command["appWidth"].from /\ Command["extCsd"].from = {"tran"}
    /\ Command["power"].from = {"tran"} /\ Command["extRead"].next = "power"
    /\ \A p \in StatusPolls : Command[p].to = "same"
BY DEF Command, Row, StatusPolls

\* Powering up: the polls are not over before the card is ready.
LEMMA CalmPolls ==
    ASSUME IInv, CalmOK, Calm', MaxBusy < Retries, AppCmd \/ OpCond \/ OpCondMmc
    PROVE  Right'
<1>. USE Sets, MoreNames, MoreRows, CardAssumption
<1>1. pc \in PoweringUp \cup {"mmcOpCond"} /\ pc # "off" /\ pc # "ifCond"
  BY DEF AppCmd, OpCond, OpCondMmc
<1>2. Answered(pc) \/ Missed(pc) \/ AnsweredBusy(pc)
  BY DEF AppCmd, OpCond, OpCondMmc
<1>3. Calm /\ Right /\ UNCHANGED slot
  BY <1>2, CalmBefore
<1>4. Takes(pc) /\ ~Missed(pc)
  BY <1>1, <1>3, CalmTakes, CalmMiss
<1>5. /\ busy \in 0 .. MaxBusy /\ tries \in Nat
      /\ tries >= Retries - busy /\ tries > 0
      /\ cardWidth = hostWidth
  BY <1>1, <1>3 DEF IInv, TypeOK, CardOK, DriverOK, Right, LoopRight, WidthRight
<1>6. CASE /\ pc = "appCmd" /\ Answered("appCmd")
           /\ pc' = "opCond"
           /\ UNCHANGED <<hostWidth, tries, type, highCapacity, op, buf, found, result>>
  <2>1. state' = "app" /\ UNCHANGED <<cardWidth, busy>>
    BY <1>6 DEF Answered, Obey
  <2>. QED BY <1>3, <1>5, <1>6, <2>1 DEF Right, StateRight, KindRight, LoopRight, WidthRight
<1>7. CASE /\ pc \in {"opCond", "mmcOpCond"} /\ Answered(pc)
           /\ pc' = "cid" /\ UNCHANGED hostWidth
           /\ type' = IF pc = "opCond" THEN type ELSE "mmc"
  <2>1. state' = "ready" /\ UNCHANGED <<cardWidth, busy>>
    BY <1>7 DEF Answered, Obey
  <2>2. KindRight'
    BY <1>1, <1>3, <1>7 DEF Right, KindRight
  <2>. QED BY <1>5, <1>7, <2>1, <2>2 DEF Right, StateRight, LoopRight, WidthRight
<1>8. CASE /\ pc \in {"opCond", "mmcOpCond"} /\ AnsweredBusy(pc)
           /\ pc' = (IF pc = "opCond" THEN "appCmd" ELSE "mmcOpCond")
           /\ tries' = tries - 1 /\ UNCHANGED <<hostWidth, type>>
  <2>1. state' = "idle" /\ busy' = busy + 1 /\ UNCHANGED cardWidth
    BY <1>8 DEF AnsweredBusy
  <2>2. KindRight'
    BY <1>1, <1>3, <1>8 DEF Right, KindRight
  <2>. QED BY <1>5, <1>8, <2>1, <2>2 DEF Right, StateRight, LoopRight, WidthRight
<1>9. CASE AppCmd
  BY <1>4, <1>6, <1>9 DEF AppCmd
<1>10. CASE OpCond
  BY <1>4, <1>5, <1>7, <1>8, <1>10 DEF OpCond, PoweredUp, Retry
<1>11. CASE OpCondMmc
  BY <1>4, <1>5, <1>7, <1>8, <1>11 DEF OpCondMmc, PoweredUp, Retry
<1>. QED BY <1>9, <1>10, <1>11

LEMMA CalmExtCsd == ASSUME IInv, CalmOK, Calm', StatusTries > 0, ExtCsd PROVE Right'
<1>. USE Sets, MoreNames
<1>1. pc = "extCsd" /\ (Answered(pc) \/ DataLost(pc, FALSE) \/ NotSent(pc))
  BY DEF ExtCsd, DataArrives
<1>2. Calm /\ Right /\ UNCHANGED slot
  BY <1>1, CalmBefore
<1>3. Takes(pc) /\ cardWidth = hostWidth
  BY <1>1, <1>2, CalmTakes DEF Right, WidthRight
<1>4. Answered(pc) /\ Proceed(pc)
  BY <1>1, <1>3 DEF ExtCsd, DataArrives, DataLost, NotSent, Sends, Fault, Calm
<1>. QED BY <1>1, <1>2, <1>4, CalmProceed

\* No chunk reaches beyond the card.
LEMMA ChunkAddressable ==
    ASSUME IInv, pc = "read", Takes("read") PROVE Addressable(Arg)
<1>. USE CardAssumption, Sets
<1>1. /\ op.start \in Nat /\ op.cnt \in Nat /\ op.start + op.cnt <= Size
      /\ Len(buf) \in Nat
  BY OpType DEF IInv, TypeOK, DriverOK, CallsOK
<1>2. Start \in Nat /\ Block(Arg) = Start /\ Chunk \in 1 .. Left
  BY ChunkRight
<1>3. Start + Chunk <= Size
  BY <1>1, <1>2 DEF Start, Left
<1>4. slot \notin High => Arg = Start * BlockLen
  BY ChunkRight, ReadRows DEF Takes, IInv, CallsOK, AddressOK, Arg
<1>5. slot \notin High => Arg % BlockLen = 0
  BY <1>2, <1>4, Divides
<1>. QED BY <1>2, <1>3, <1>5 DEF Addressable

LEMMA CalmRead ==
    ASSUME IInv, CalmOK, Calm', StatusTries > 0, ReadChunk PROVE Right'
<1>. USE Sets, MoreNames, ReadRows
<1>1. pc = "read" /\ (Answered(pc) \/ DataLost(pc, Chunk > 1) \/ NotSent(pc))
  BY DEF ReadChunk, DataArrives
<1>2. Calm /\ Right /\ UNCHANGED slot
  BY <1>1, CalmBefore
<1>3. Sends("read") /\ cardWidth = hostWidth
  BY <1>1, <1>2, CalmTakes, ChunkAddressable DEF Right, WidthRight, Sends
<1>4. /\ Answered("read")
      /\ pc' = "readDone" /\ tries' = StatusTries /\ UNCHANGED <<hostWidth, found, type>>
  BY <1>1, <1>3 DEF ReadChunk, DataArrives, DataLost, NotSent, Fault, Calm, Enter
<1>5. state' = "tran" /\ UNCHANGED cardWidth
  BY <1>4 DEF Answered, Obey, GoIdle
<1>. QED BY <1>2, <1>3, <1>4, <1>5 DEF Right, StateRight, KindRight, LoopRight, WidthRight

LEMMA CalmStatus ==
    ASSUME IInv, CalmOK, Calm', NEW p \in StatusPolls, Status(p) PROVE Right'
<1>. USE Sets, MoreNames, MoreRows
<1>1. pc = p /\ pc # "off" /\ pc # "ifCond" /\ (Answered(p) \/ Missed(p))
  BY DEF Status, StopTimesOut, Missed
<1>2. Calm /\ Right /\ UNCHANGED slot
  BY <1>1, CalmBefore
<1>3. Takes(p) /\ state = "tran" /\ tries > 0 /\ cardWidth = hostWidth
  BY <1>1, <1>2, CalmTakes DEF Right, StateRight, WidthRight
<1>4. ~StopTimesOut(p) /\ ~Missed(p)
  BY <1>3, CalmMiss DEF StopTimesOut, Fault, Calm
<1>5. Answered(p) /\ Reached(p)
  BY <1>3, <1>4 DEF Status, Awaited
<1>6. state' = "tran" /\ UNCHANGED cardWidth
  BY <1>3, <1>5 DEF Answered, Obey, GoIdle
<1>7. CASE p = "selected"
  <2>1. /\ pc' = (IF slot \in Sd THEN "appWidth" ELSE "extCsd")
        /\ UNCHANGED hostWidth
    BY <1>1, <1>2, <1>5, <1>7 DEF Reached, Enter, Right, KindRight
  <2>. QED BY <1>2, <1>3, <1>6, <1>7, <2>1 DEF Right, StateRight, KindRight, LoopRight, WidthRight
<1>8. CASE p = "extRead"
  <2>1. pc' = "power" /\ UNCHANGED hostWidth /\ slot \notin Sd
    BY <1>1, <1>2, <1>5, <1>8 DEF Reached, Proceed, Enter, Right, KindRight
  <2>. QED BY <1>2, <1>3, <1>6, <1>8, <2>1 DEF Right, StateRight, KindRight, LoopRight, WidthRight
<1>9. CASE p = "readDone"
  <2>1. \/ pc' = "read"
        \/ pc' = "off" /\ result'.ok
    BY <1>5, <1>9 DEF Reached, ChunkDone, Enter, Return, Device!Succeeded
  <2>2. UNCHANGED hostWidth
    BY <1>5, <1>9 DEF Reached, ChunkDone, Return
  <2>. QED BY <1>2, <1>3, <1>6, <1>9, <2>1, <2>2, ReadRows
         DEF Right, StateRight, KindRight, LoopRight, WidthRight
<1>. QED BY <1>7, <1>8, <1>9

LEMMA CalmStep ==
    ASSUME MaxBusy < Retries, StatusTries > 0, IInv, CalmOK, [Next]_vars PROVE CalmOK'
<1>. USE Sets, MoreNames
<1>. SUFFICES ASSUME Calm' PROVE Right'
  BY DEF CalmOK
<1>1. CASE CallInit
  <2>1. pc' = "goIdle" /\ hostWidth' = 1 /\ state' \in States
    BY <1>1 DEF CallInit, cardVars, IInv, TypeOK, CardOK
  <2>. QED BY <2>1 DEF Right, StateRight, KindRight, LoopRight, WidthRight, Command, Row,
         StatusPolls, SdOnly, MmcOnly, PoweringUp, Selecting, GoIdle
<1>2. CASE CallRead
  <2>1. Calm /\ Right
    BY <1>2 DEF CallRead, Calm, CalmOK, cardVars, historyVars
  <2>2. state' = "tran" /\ pc' = "read" /\ hostWidth' = cardWidth'
    BY <1>2, <2>1 DEF CallRead, Right, StateRight, WidthRight, cardVars
  <2>. QED BY <2>2, ReadRows DEF Right, StateRight, KindRight, LoopRight, WidthRight
<1>3. CASE Driver
  BY <1>3, CalmSend, CalmPolls, CalmExtCsd, CalmRead, CalmStatus DEF Driver
<1>4. ASSUME NEW c \in Cards \cup {NoCard}, Insert(c) PROVE FALSE
  BY <1>4 DEF Insert, Calm
<1>5. CASE UNCHANGED vars
  BY <1>5 DEF vars, cardVars, driverVars, historyVars, Calm, CalmOK, Right, StateRight,
       KindRight, LoopRight, WidthRight
<1>. QED BY <1>1, <1>2, <1>3, <1>4, <1>5 DEF Next

-----------------------------------------------------------------------------
(* The block device                                                        *)

LEMMA DeviceInit == Init => Device!Init
BY DEF Init, Device!Init, NoOp, Device!Succeeded

LEMMA DeviceFails ==
    ASSUME IInv, pc # "off", GiveUp, UNCHANGED slot,
           pc \in Bringing \/ (state = "idle" <=> state' = "idle")
    PROVE  Device!Fail
<1>1. op # NoOp
  BY Sets, OpType DEF IInv, TypeOK, DriverOK, CallsOK, InitOp, NoOp, Device!InitOp, Device!NoOp, Bringing
<1>2. (IF state = "idle" THEN NoCard ELSE found)' = (IF state = "idle" THEN NoCard ELSE found)
  BY DEF GiveUp, IInv, CallsOK
<1>. QED BY <1>1, <1>2 DEF Device!Fail, GiveUp, Return, NoOp

LEMMA DeviceStep ==
    ASSUME "opCond" \notin Lossy
    PROVE  IInv /\ [Next]_vars => [Device!Next]_(Device!vars)
<1>. SUFFICES ASSUME IInv, [Next]_vars PROVE Device!Next \/ UNCHANGED Device!vars
  OBVIOUS
<1>. DEFINE ready == IF state = "idle" THEN NoCard ELSE found
<1>1. CASE CallInit
  <2>1. op = NoOp /\ op' = Device!InitOp /\ ready' = NoCard /\ UNCHANGED <<slot, result>>
    BY <1>1, OffSame DEF CallInit, InitOp, cardVars
  <2>. QED BY <2>1 DEF Device!Next, Device!CallInit, NoOp
<1>2. CASE CallRead
  <2>1. op = NoOp /\ op' \in Device!ReadOps /\ ready' = ready /\ UNCHANGED <<slot, result>>
    BY <1>2, OffSame DEF CallRead, cardVars
  <2>. QED BY <2>1 DEF Device!Next, Device!CallRead, NoOp
<1>3. CASE pc \in Bringing /\ Brought
  <2>1. op = InitOp /\ found = NoCard /\ UNCHANGED slot
    BY <1>3 DEF IInv, CallsOK, Brought
  <2>2. CASE pc' \in Bringing /\ UNCHANGED <<op, found, result, buf>>
    BY <2>1, <2>2 DEF Device!vars
  <2>3. CASE GiveUp
    BY <1>3, <2>1, <2>3, DeviceFails, Sets DEF Device!Next, Bringing
  <2>4. CASE pc = "blockLen" /\ Answered("blockLen") /\ Found
    <3>1. slot # NoCard /\ state' = "tran"
      BY <2>4 DEF Answered, Takes, Obey, Command, Row
    <3>2. ready' = slot /\ op' = NoOp /\ result' = Device!Succeeded(<<>>)
      BY <2>4, <3>1 DEF Found, Return
    <3>. QED BY <2>1, <3>1, <3>2 DEF Device!Next, Device!Find, InitOp, NoOp
  <2>. QED BY <1>3, <2>2, <2>3, <2>4 DEF Brought
<1>4. CASE pc \in Reading /\ Advanced
  <2>1. op \in Device!ReadOps /\ found # NoCard
    BY <1>4 DEF IInv, CallsOK
  <2>2. ready' = ready /\ UNCHANGED slot
    BY <1>4 DEF Advanced
  <2>3. CASE pc' \in Reading /\ UNCHANGED <<op, result>>
    BY <2>2, <2>3 DEF Device!vars
  <2>4. CASE GiveUp
    BY <1>4, <2>4, DeviceFails, Sets DEF Device!Next, Advanced
  <2>5. CASE /\ pc' = "off" /\ op' = NoOp
             /\ state # "idle"
             /\ result' = Device!Succeeded(Blocks(found, op.start, op.cnt))
    BY <2>1, <2>2, <2>5 DEF Device!Next, Device!Deliver, NoOp, Blocks
  <2>. QED BY <1>4, <2>3, <2>4, <2>5 DEF Advanced
<1>5. ASSUME NEW c \in Cards \cup {NoCard}, Insert(c) PROVE Device!Next
  <2>1. slot' = c /\ ready' = NoCard /\ UNCHANGED <<op, result>>
    BY <1>5 DEF Insert, driverVars
  <2>. QED BY <2>1 DEF Device!Next, Device!Insert
<1>6. CASE UNCHANGED vars
  BY <1>6 DEF vars, cardVars, driverVars, Device!vars
<1>. QED BY <1>1, <1>2, <1>3, <1>4, <1>5, <1>6, DriverSteps DEF Next

-----------------------------------------------------------------------------
\* As long as no answer to ACMD41 is lost, the driver addresses the card in the
\* slot as that card wants to be addressed, in every behaviour.
THEOREM Inductive == ASSUME "opCond" \notin Lossy PROVE Spec => []IInv
<1>. QED BY InitInv, InvStep, PTL DEF Spec

\* Every variable of the card and of the driver keeps its type.
THEOREM TypeCorrect == ASSUME "opCond" \notin Lossy PROVE Spec => []TypeOK
<1>1. IInv => TypeOK
  BY DEF IInv
<1>. QED BY <1>1, Inductive, PTL

\* The driver implements the block device: sdmmc_init never claims a card that
\* is not there, and sdmmc_blk_read never returns other blocks than those asked
\* for, for any cards, sizes, chunk and retry limits, faults and swaps.
THEOREM Implements == ASSUME "opCond" \notin Lossy PROVE Spec => ImplementsBlockDevice
<1>. QED BY Inductive, DeviceInit, DeviceStep, PTL DEF Spec, ImplementsBlockDevice, Device!Spec

\* A call fails only without a card, or after something has gone wrong since
\* sdmmc_init was last called: from any state a card may have been left in, and
\* for any cards and limits, if a card has power before the polls are over.
THEOREM CallsSucceed ==
    ASSUME "opCond" \notin Lossy, MaxBusy < Retries, StatusTries > 0
    PROVE  Spec => []Works
<1>1. Init => CalmOK
  BY Sets, MoreNames DEF Init, CalmOK, Calm, Right, StateRight, KindRight, LoopRight, WidthRight
<1>2. IInv /\ CalmOK /\ [Next]_vars => CalmOK'
  BY CalmStep
<1>3. CalmOK => Works
  BY MoreNames DEF CalmOK, Calm, Right, StateRight, Works
<1>. QED BY <1>1, <1>2, <1>3, Inductive, PTL DEF Spec
=============================================================================
