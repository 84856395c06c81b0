----------------------------- MODULE BootProofs -----------------------------
(***************************************************************************)
(* Proofs about the boot program, for any cards.  The argument: while      *)
(* files are loaded there is one card they are all of, and the driver      *)
(* still has that card ready or has none; hence a load that succeeds has   *)
(* left the images of one card, and nothing touches them up to the kernel. *)
(***************************************************************************)
EXTENDS Boot, TLAPS

Reading == {"test", "mount", "open", "read"}

\* A call is in progress only where the program makes it, and is that call.
CallOK ==
    \/ op = Device!NoOp
    \/ pc = "init" /\ op = Device!InitOp
    \/ pc \in Reading /\ op = NextRead

\* What has been loaded so far is all of card c.
LoadedFrom(c) ==
    /\ ready \in {c, NoCard}
    /\ pc = "open" => pos = 0
    /\ file # "tree" => mem["tree"] = Whole("tree", c)
    /\ file = "config" => mem["kernel"] = Whole("kernel", c)
    /\ pc = "read" => \A i \in 1 .. pos : mem[file][i] = <<c, First[file] + i - 1>>

ConfigOf(c) == isConfig => mem["config"] = Whole("config", c)

LoadingOK == pc \in {"open", "read"} => \E c \in Cards : LoadedFrom(c)
DoneOK == (load = "done" /\ pc \notin {"open", "read"}) => \E c \in Cards : Images(c)
UpdateOK == pc = "update" => \E c \in Cards : Images(c) /\ ConfigOf(c)
WaitOK ==
    pc = "wait" =>
        \E c \in Cards : /\ Images(c)
                         /\ ConfigOf(c)
                         /\ isConfig /\ c \notin Plain => args = "config"
ShellOK == pc = "shell" => ~auto

IInv == TypeOK /\ CallOK /\ LoadingOK /\ DoneOK /\ UpdateOK /\ WaitOK /\ ShellOK

-----------------------------------------------------------------------------
(* Calls of the driver                                                     *)

USE DEF Device!NoOp, Device!InitOp, Device!ReadOp

LEMMA ReadOpIs ==
    ASSUME NEW n \in 0 .. Size - 1
    PROVE  /\ Device!ReadOp(n, 1) \in Device!ReadOps
           /\ Device!ReadOp(n, 1) \notin {Device!NoOp, Device!InitOp}
<1>1. <<n, 1>> \in {s \in (0 .. Size - 1) \X (1 .. Size) : s[1] + s[2] <= Size}
  BY DEF Size
<1>. QED BY <1>1 DEF Device!ReadOps

LEMMA NextReadIs ==
    ASSUME TypeOK
    PROVE  /\ NextRead \in Device!ReadOps
           /\ NextRead \notin {Device!NoOp, Device!InitOp}
           /\ NextRead.start = IF pc = "read" THEN First[file] + pos ELSE 0
           /\ NextRead.cnt = 1
<1>1. First[file] + pos \in 0 .. Size - 1 /\ 0 \in 0 .. Size - 1
  BY DEF TypeOK, Files, First, Length, Size
<1>. QED BY <1>1, ReadOpIs DEF NextRead

LEMMA NotRead == Device!NoOp \notin Device!ReadOps /\ Device!InitOp \notin Device!ReadOps
BY DEF Device!ReadOps

\* A read that succeeds has fetched the block asked for from the card ready.
LEMMA Delivers ==
    ASSUME TypeOK, CallOK, Device!Deliver
    PROVE  /\ ready \in Cards
           /\ result'.data = <<<<ready, IF pc = "read" THEN First[file] + pos ELSE 0>>>>
           /\ op' = Device!NoOp
           /\ UNCHANGED <<slot, ready>>
<1>1. op = NextRead
  BY NotRead DEF Device!Deliver, CallOK
<1>2. op.start \in Int /\ op.cnt = 1
  BY <1>1, NextReadIs DEF TypeOK, Files, First, Length
<1>3. result'.data = Device!Blocks(ready, op.start, 1)
  BY <1>2 DEF Device!Deliver, Device!Succeeded
<1>4. Device!Blocks(ready, op.start, 1) = <<<<ready, op.start>>>>
  BY <1>2 DEF Device!Blocks
<1>. QED BY <1>1, <1>3, <1>4, NextReadIs DEF Device!Deliver, TypeOK

LEMMA Fails ==
    ASSUME TypeOK, Device!Fail
    PROVE  op' = Device!NoOp /\ UNCHANGED <<slot, ready>>
BY DEF Device!Fail

-----------------------------------------------------------------------------
(* What steps do to the types                                              *)

DeviceOK ==
    /\ slot \in Cards \cup {NoCard}
    /\ ready \in Cards \cup {NoCard}
    /\ op \in Device!ReadOps \cup {Device!InitOp, Device!NoOp}
MemOK == mem \in [Files -> Seq(Cell)] /\ \A f \in Files : Len(mem[f]) = Length[f]
PlaceOK == file \in Files /\ pos \in 0 .. Length[file] - 1
PcOK == pc \in {"power", "fel", "init", "test", "mount", "open", "read", "update",
              "wait", "shell", "linux", "stopped"} /\ auto \in BOOLEAN
FlagsOK ==
    /\ args \in {"none", "card", "config", "overrun", "set"}
    /\ isConfig \in BOOLEAN
    /\ load \in {"none", "done", "failed"}

LEMMA TypeParts ==
    /\ TypeOK <=> DeviceOK /\ MemOK /\ PlaceOK /\ PcOK /\ FlagsOK
    /\ TypeOK' <=> DeviceOK' /\ MemOK' /\ PlaceOK' /\ PcOK' /\ FlagsOK'
BY DEF TypeOK, DeviceOK, MemOK, PlaceOK, PcOK, FlagsOK

LEMMA AnswersType ==
    ASSUME DeviceOK, UNCHANGED <<slot, ready>>, op' = Device!NoOp
    PROVE  DeviceOK'
BY DEF DeviceOK

LEMMA WholeIs ==
    ASSUME NEW f \in Files, NEW c, NEW s \in Seq(Cell), Len(s) = Length[f],
           \A i \in 1 .. Length[f] : s[i] = <<c, First[f] + i - 1>>
    PROVE  s = Whole(f, c)
<1>1. s = [i \in 1 .. Length[f] |-> s[i]]
  OBVIOUS
<1>. QED BY <1>1 DEF Whole, Device!Blocks

\* A block read lands in its file's place and nowhere else.
LEMMA Lands ==
    ASSUME MemOK, PlaceOK, NEW b \in Cell,
           mem' = [mem EXCEPT ![file][pos + 1] = b]
    PROVE  /\ MemOK'
           /\ mem'[file][pos + 1] = b
           /\ \A i \in 1 .. pos : mem'[file][i] = mem[file][i]
           /\ \A f \in Files \ {file} : mem'[f] = mem[f]
<1>1. pos + 1 \in 1 .. Len(mem[file]) /\ mem[file] \in Seq(Cell)
  <2>1. mem[file] \in Seq(Cell) /\ Len(mem[file]) = Length[file]
    BY DEF MemOK, PlaceOK
  <2>2. Length[file] \in Nat /\ pos \in 0 .. Length[file] - 1
    BY DEF PlaceOK, Files, Length
  <2>. QED BY <2>1, <2>2
<1>2. mem'[file] = [mem[file] EXCEPT ![pos + 1] = b]
  BY DEF MemOK, PlaceOK
<1>3. \A f \in Files \ {file} : mem'[f] = mem[f]
  BY DEF MemOK
<1>4. mem'[file] \in Seq(Cell) /\ Len(mem'[file]) = Len(mem[file])
  BY <1>1, <1>2
<1>5. mem' \in [Files -> Seq(Cell)] /\ \A f \in Files : Len(mem'[f]) = Length[f]
  BY <1>3, <1>4 DEF MemOK, PlaceOK
<1>6. mem'[file][pos + 1] = b
  BY <1>1, <1>2
<1>7. \A i \in 1 .. pos : mem'[file][i] = mem[file][i]
  BY <1>1, <1>2 DEF PlaceOK
<1>. QED BY <1>3, <1>5, <1>6, <1>7 DEF MemOK

LEMMA ConfigLands ==
    ASSUME MemOK, NEW b \in Cell, mem' = [mem EXCEPT !["config"] = <<b>>]
    PROVE  MemOK' /\ mem'["tree"] = mem["tree"] /\ mem'["kernel"] = mem["kernel"]
BY DEF MemOK, Files, Length

LEMMA ReadCell ==
    ASSUME TypeOK, ready \in Cards
    PROVE  <<ready, IF pc = "read" THEN First[file] + pos ELSE 0>> \in Cell /\ <<>> \in Cell
<1>1. First[file] + pos \in 0 .. Size - 1 /\ 0 \in 0 .. Size - 1
  BY DEF TypeOK, Files, First, Length, Size
<1>. QED BY <1>1 DEF Cell

LEMMA InitHolds == Init => IInv
<1>. SUFFICES ASSUME Init PROVE IInv
  OBVIOUS
<1>. USE DEF Init
<1>1. DeviceOK
  BY DEF DeviceOK, Device!Init
<1>2. MemOK
  <2>1. \A f \in Files : [i \in 1 .. Length[f] |-> <<>>] \in Seq(Cell)
                       /\ Len([i \in 1 .. Length[f] |-> <<>>]) = Length[f]
    BY DEF Files, Length, Cell
  <2>. QED BY <2>1 DEF MemOK
<1>3. PlaceOK
  BY DEF PlaceOK, Files, Length
<1>4. PcOK
  BY DEF PcOK
<1>5. FlagsOK
  BY DEF FlagsOK
<1>6. CallOK /\ LoadingOK /\ DoneOK /\ UpdateOK /\ WaitOK /\ ShellOK
  BY DEF CallOK, Device!Init, LoadingOK, DoneOK, UpdateOK, WaitOK, ShellOK
<1>. QED BY <1>1, <1>2, <1>3, <1>4, <1>5, <1>6, TypeParts DEF IInv

-----------------------------------------------------------------------------
(* The steps                                                               *)

\* Steps that leave memory and the driver alone, before and after loading
LEMMA PowerUpHolds == IInv /\ PowerUp => IInv'
<1>. SUFFICES ASSUME IInv, PowerUp PROVE IInv'
  OBVIOUS
<1>1. TypeOK'
  BY DEF PowerUp, Shell, IInv, TypeOK, deviceVars, imageVars
<1>2. CallOK'
  BY DEF PowerUp, Shell, IInv, CallOK, deviceVars, Reading
<1>3. LoadingOK' /\ DoneOK' /\ UpdateOK' /\ WaitOK' /\ ShellOK'
  BY DEF PowerUp, Shell, IInv, LoadingOK, DoneOK, UpdateOK, WaitOK, ShellOK, imageVars, Images
<1>. QED BY <1>1, <1>2, <1>3 DEF IInv

LEMMA CallCardHolds == IInv /\ CallCard => IInv'
<1>. SUFFICES ASSUME IInv, CallCard PROVE IInv'
  OBVIOUS
<1>1. UNCHANGED programVars /\ ready' \in {ready, NoCard} /\ UNCHANGED slot
  BY DEF CallCard, Device!CallInit, Device!CallRead
<1>2. TypeOK'
  <2>1. op' \in Device!ReadOps \cup {Device!InitOp}
    BY DEF CallCard, Device!CallInit, Device!CallRead
  <2>. QED BY <1>1, <2>1 DEF IInv, TypeOK, programVars, imageVars
<1>3. CallOK'
  BY <1>1 DEF CallCard, Device!CallInit, CallOK, Reading, NextRead, programVars
<1>4. LoadingOK'
  <2>1. ASSUME NEW c \in Cards, LoadedFrom(c)
        PROVE  LoadedFrom(c)'
    BY <1>1, <2>1 DEF LoadedFrom, programVars, imageVars
  <2>. QED BY <1>1, <2>1 DEF IInv, LoadingOK, programVars
<1>5. DoneOK' /\ UpdateOK' /\ WaitOK' /\ ShellOK'
  BY <1>1 DEF IInv, DoneOK, UpdateOK, WaitOK, ShellOK, programVars, imageVars, Images, ConfigOf
<1>. QED BY <1>2, <1>3, <1>4, <1>5 DEF IInv

LEMMA InsertHolds == ASSUME NEW c \in Cards \cup {NoCard} PROVE IInv /\ Insert(c) => IInv'
<1>. SUFFICES ASSUME IInv, Insert(c) PROVE IInv'
  OBVIOUS
<1>1. UNCHANGED programVars /\ ready' = NoCard /\ slot' = c /\ UNCHANGED op
  BY DEF Insert, Device!Insert
<1>2. TypeOK'
  BY <1>1 DEF IInv, TypeOK, programVars, imageVars
<1>3. CallOK'
  BY <1>1 DEF IInv, CallOK, Reading, NextRead, programVars
<1>4. LoadingOK'
  <2>1. ASSUME NEW d \in Cards, LoadedFrom(d)
        PROVE  LoadedFrom(d)'
    BY <1>1, <2>1 DEF LoadedFrom, programVars, imageVars
  <2>. QED BY <1>1, <2>1 DEF IInv, LoadingOK, programVars
<1>5. DoneOK' /\ UpdateOK' /\ WaitOK' /\ ShellOK'
  BY <1>1 DEF IInv, DoneOK, UpdateOK, WaitOK, ShellOK, programVars, imageVars, Images, ConfigOf
<1>. QED BY <1>2, <1>3, <1>4, <1>5 DEF IInv

LEMMA CardFoundHolds == IInv /\ CardFound => IInv'
<1>. SUFFICES ASSUME IInv, CardFound PROVE IInv'
  OBVIOUS
<1>1. op' = Device!NoOp /\ UNCHANGED slot /\ ready' = slot /\ slot # NoCard
  BY DEF CardFound, Device!Find
<1>2. pc = "init" /\ pc' = "test" /\ UNCHANGED <<auto, file, pos, mem, args, isConfig, load>>
  BY DEF CardFound, imageVars
<1>3. TypeOK'
  BY <1>1, <1>2 DEF IInv, TypeOK
<1>4. CallOK' /\ LoadingOK' /\ UpdateOK' /\ WaitOK' /\ ShellOK'
  BY <1>1, <1>2 DEF CallOK, LoadingOK, UpdateOK, WaitOK, ShellOK
<1>5. DoneOK'
  BY <1>2 DEF IInv, DoneOK, Images
<1>. QED BY <1>3, <1>4, <1>5 DEF IInv

LEMMA CardNotFoundHolds == IInv /\ CardNotFound => IInv'
<1>. SUFFICES ASSUME IInv, CardNotFound PROVE IInv'
  OBVIOUS
<1>1. op' = Device!NoOp /\ UNCHANGED <<slot, ready>>
  BY Fails DEF CardNotFound, IInv
<1>2. /\ pc = "init" /\ pc' = "shell" /\ auto' = FALSE
      /\ UNCHANGED <<file, pos, mem, args, isConfig, load>>
  BY DEF CardNotFound, imageVars, Shell
<1>3. TypeOK'
  BY <1>1, <1>2 DEF IInv, TypeOK
<1>4. CallOK' /\ LoadingOK' /\ UpdateOK' /\ WaitOK' /\ ShellOK'
  BY <1>1, <1>2 DEF CallOK, LoadingOK, UpdateOK, WaitOK, ShellOK
<1>5. DoneOK'
  BY <1>2 DEF IInv, DoneOK, Images
<1>. QED BY <1>3, <1>4, <1>5 DEF IInv

LEMMA TestedHolds == IInv /\ Tested => IInv'
<1>. SUFFICES ASSUME IInv, Tested PROVE IInv'
  OBVIOUS
<1>1. DeviceOK /\ MemOK /\ PlaceOK /\ PcOK /\ FlagsOK
  BY TypeParts DEF IInv
<1>2. op' = Device!NoOp /\ UNCHANGED <<slot, ready>>
  BY Delivers, Fails DEF Tested, IInv
<1>3. pc = "test" /\ pc' = "mount" /\ UNCHANGED <<auto, file, pos, args, isConfig, load>>
  BY DEF Tested
<1>4. MemOK' /\ mem'["tree"] = mem["tree"] /\ mem'["kernel"] = mem["kernel"]
  <2>1. CASE Device!Deliver /\ mem' = [mem EXCEPT !["config"] = result'.data]
    <3>1. ready \in Cards /\ result'.data = <<<<ready, 0>>>>
      BY <1>3, <2>1, Delivers DEF IInv
    <3>2. <<ready, 0>> \in Cell
      BY <1>3, <3>1, ReadCell DEF IInv
    <3>. QED BY <1>1, <2>1, <3>1, <3>2, ConfigLands
  <2>2. CASE mem' = [mem EXCEPT !["config"] = <<<<>>>>]
    <3>1. <<>> \in Cell
      BY DEF Cell
    <3>. QED BY <1>1, <2>2, <3>1, ConfigLands
  <2>3. CASE UNCHANGED mem
    BY <1>1, <2>3 DEF MemOK
  <2>. QED BY <2>1, <2>2, <2>3 DEF Tested
<1>5. TypeOK'
  <2>1. DeviceOK'
    BY <1>1, <1>2, AnswersType
  <2>2. PlaceOK'
    BY <1>1, <1>3 DEF PlaceOK
  <2>3. PcOK'
    BY <1>1, <1>3 DEF PcOK
  <2>4. FlagsOK'
    BY <1>1, <1>3 DEF FlagsOK
  <2>. QED BY <1>4, <2>1, <2>2, <2>3, <2>4, TypeParts
<1>6. CallOK' /\ LoadingOK' /\ UpdateOK' /\ WaitOK' /\ ShellOK'
  BY <1>2, <1>3 DEF CallOK, LoadingOK, UpdateOK, WaitOK, ShellOK
<1>7. DoneOK'
  BY <1>3, <1>4 DEF IInv, DoneOK, Images, Whole
<1>. QED BY <1>5, <1>6, <1>7 DEF IInv

LEMMA MountedHolds == IInv /\ Mounted => IInv'
<1>. SUFFICES ASSUME IInv, Mounted PROVE IInv'
  OBVIOUS
<1>1. op' = Device!NoOp /\ UNCHANGED <<slot, ready>> /\ UNCHANGED <<mem, args, isConfig>>
  BY Delivers, Fails DEF Mounted, IInv, imageVars
<1>2. CASE Device!Deliver /\ Open("tree")
  <2>1. ready \in Cards
    BY <1>2, Delivers DEF IInv
  <2>2. pc' = "open" /\ file' = "tree" /\ pos' = 0 /\ UNCHANGED <<auto, load>>
    BY <1>2 DEF Open
  <2>3. TypeOK'
    <3>1. PlaceOK'
      BY <2>2 DEF PlaceOK, Files, Length
    <3>2. DeviceOK'
      BY <1>1, TypeParts, AnswersType DEF IInv
    <3>3. MemOK'
      BY <1>1, TypeParts DEF IInv, MemOK
    <3>4. PcOK'
      BY <2>2, TypeParts DEF IInv, PcOK
    <3>5. FlagsOK'
      BY <1>1, <2>2, TypeParts DEF IInv, FlagsOK
    <3>. QED BY <3>1, <3>2, <3>3, <3>4, <3>5, TypeParts
  <2>4. LoadedFrom(ready)'
    BY <1>1, <2>2 DEF LoadedFrom
  <2>5. LoadingOK'
    BY <1>1, <2>1, <2>2, <2>4 DEF LoadingOK, LoadedFrom
  <2>6. CallOK' /\ DoneOK' /\ UpdateOK' /\ WaitOK' /\ ShellOK'
    BY <1>1, <2>2 DEF CallOK, DoneOK, UpdateOK, WaitOK, ShellOK
  <2>. QED BY <2>3, <2>5, <2>6 DEF IInv
<1>3. CASE LoadFailed
  <2>1. pc' = "shell" /\ auto' = FALSE /\ load' = "failed" /\ UNCHANGED <<file, pos>>
    BY <1>3 DEF LoadFailed, Shell
  <2>2. TypeOK'
    BY <1>1, <2>1 DEF IInv, TypeOK
  <2>3. CallOK' /\ LoadingOK' /\ DoneOK' /\ UpdateOK' /\ WaitOK' /\ ShellOK'
    BY <1>1, <2>1 DEF CallOK, LoadingOK, DoneOK, UpdateOK, WaitOK, ShellOK
  <2>. QED BY <2>2, <2>3 DEF IInv
<1>. QED BY <1>2, <1>3 DEF Mounted

\* A load that ends: the driver is idle, and if the load has succeeded then memory
\* holds the images of one card, and its configuration if isConfig says so.
LEMMA LoadEnds ==
    ASSUME IInv, op' = Device!NoOp, UNCHANGED <<slot, ready>>, MemOK',
           args' \in {"none", "card", "config", "overrun", "set"},
           \/ LoadFailed /\ UNCHANGED isConfig
           \/ \E config \in BOOLEAN : /\ LoadDone(config)
                                      /\ \E c \in Cards :
                                            /\ mem'["tree"] = Whole("tree", c)
                                            /\ mem'["kernel"] = Whole("kernel", c)
                                            /\ config => mem'["config"] = Whole("config", c)
    PROVE  IInv'
<1>1. DeviceOK' /\ MemOK' /\ PlaceOK'
  BY TypeParts, AnswersType DEF IInv, LoadFailed, LoadDone, PlaceOK
<1>2. CASE LoadFailed /\ UNCHANGED isConfig
  <2>1. pc' = "shell" /\ auto' = FALSE /\ load' = "failed" /\ UNCHANGED isConfig
    BY <1>2 DEF LoadFailed, Shell
  <2>2. PcOK' /\ FlagsOK'
    BY <2>1, TypeParts DEF IInv, PcOK, FlagsOK
  <2>3. CallOK' /\ LoadingOK' /\ DoneOK'
    BY <2>1 DEF CallOK, LoadingOK, DoneOK
  <2>4. UpdateOK' /\ WaitOK' /\ ShellOK'
    BY <2>1 DEF UpdateOK, WaitOK, ShellOK
  <2>. QED BY <1>1, <2>2, <2>3, <2>4, TypeParts DEF IInv
<1>3. ASSUME NEW config \in BOOLEAN, LoadDone(config),
             NEW c \in Cards,
             mem'["tree"] = Whole("tree", c), mem'["kernel"] = Whole("kernel", c),
             config => mem'["config"] = Whole("config", c)
      PROVE  IInv'
  <2>1. isConfig' = config /\ load' = "done"
    BY <1>3 DEF LoadDone
  <2>2. \/ pc' = "update" /\ UNCHANGED auto
        \/ pc' = "shell" /\ auto' = FALSE
    BY <1>3 DEF LoadDone, Shell
  <2>3. FlagsOK'
    BY <2>1 DEF FlagsOK
  <2>4. PcOK'
    BY <2>2, TypeParts DEF IInv, PcOK
  <2>5. CallOK' /\ LoadingOK' /\ WaitOK' /\ ShellOK'
    BY <2>2 DEF CallOK, LoadingOK, WaitOK, ShellOK
  <2>6. Images(c)' /\ ConfigOf(c)'
    BY <1>3, <2>1 DEF Images, ConfigOf, Whole
  <2>7. \E d \in Cards : Images(d)' /\ ConfigOf(d)'
    BY <2>6
  <2>8. DoneOK'
    BY <2>7 DEF DoneOK
  <2>9. UpdateOK'
    BY <2>7 DEF UpdateOK
  <2>. QED BY <1>1, <2>3, <2>4, <2>5, <2>8, <2>9, TypeParts DEF IInv
<1>. QED BY <1>2, <1>3

LEMMA OpenedHolds == IInv /\ Opened => IInv'
<1>. SUFFICES ASSUME IInv, Opened PROVE IInv'
  OBVIOUS
<1>1. op' = Device!NoOp /\ UNCHANGED <<slot, ready>> /\ UNCHANGED <<mem, args>> /\ pc = "open"
  BY Delivers, Fails DEF Opened, IInv
<1>2. PICK c \in Cards : LoadedFrom(c)
  BY <1>1 DEF IInv, LoadingOK
<1>3. MemOK' /\ args' \in {"none", "card", "config", "overrun", "set"}
  BY <1>1, TypeParts DEF IInv, MemOK, FlagsOK
<1>4. CASE pc' = "read" /\ UNCHANGED <<auto, file, pos, isConfig, load>> /\ pos = 0
  <2>1. TypeOK'
    BY <1>1, <1>4 DEF IInv, TypeOK
  <2>2. LoadedFrom(c)'
    BY <1>1, <1>2, <1>4 DEF LoadedFrom, Whole
  <2>3. LoadingOK'
    BY <2>2 DEF LoadingOK
  <2>4. CallOK' /\ DoneOK'
    BY <1>1, <1>4 DEF CallOK, DoneOK
  <2>5. UpdateOK' /\ WaitOK' /\ ShellOK'
    BY <1>4 DEF UpdateOK, WaitOK, ShellOK
  <2>. QED BY <2>1, <2>3, <2>4, <2>5 DEF IInv
<1>5. CASE FileFailed
  <2>1. CASE file = "config"
    <3>1. LoadDone(FALSE)
      BY <1>5, <2>1 DEF FileFailed
    <3>2. mem'["tree"] = Whole("tree", c) /\ mem'["kernel"] = Whole("kernel", c)
      BY <1>1, <1>2, <2>1 DEF LoadedFrom
    <3>. QED BY <1>1, <1>3, <3>1, <3>2, LoadEnds
  <2>2. CASE file # "config"
    BY <1>1, <1>3, <1>5, <2>2, LoadEnds DEF FileFailed
  <2>. QED BY <2>1, <2>2
<1>6. pos = 0
  BY <1>1, <1>2 DEF LoadedFrom
<1>. QED BY <1>4, <1>5, <1>6 DEF Opened

LEMMA BlockReadHolds == IInv /\ BlockRead => IInv'
<1>. SUFFICES ASSUME IInv, BlockRead PROVE IInv'
  OBVIOUS
<1>1. op' = Device!NoOp /\ UNCHANGED <<slot, ready>> /\ pc = "read"
  BY Delivers, Fails DEF BlockRead, IInv
<1>2. PICK c \in Cards : LoadedFrom(c)
  BY <1>1 DEF IInv, LoadingOK
<1>3. args' \in {"none", "card", "config", "overrun", "set"}
  BY TypeParts DEF BlockRead, IInv, FlagsOK
<1>4. DeviceOK /\ MemOK /\ PlaceOK /\ PcOK /\ FlagsOK
  BY TypeParts DEF IInv
<1>5. CASE Device!Fail /\ FileFailed
           /\ mem' \in {mem, [mem EXCEPT ![file][pos + 1] = <<>>]}
  <2>1. MemOK' /\ \A f \in Files \ {file} : mem'[f] = mem[f]
    <3>1. CASE mem' = mem
      BY <1>4, <3>1 DEF MemOK
    <3>2. CASE mem' = [mem EXCEPT ![file][pos + 1] = <<>>]
      <4>1. <<>> \in Cell
        BY DEF Cell
      <4>. QED BY <1>4, <3>2, <4>1, Lands
    <3>. QED BY <1>5, <3>1, <3>2
  <2>2. CASE file = "config"
    <3>1. LoadDone(FALSE)
      BY <1>5, <2>2 DEF FileFailed
    <3>2. mem'["tree"] = Whole("tree", c) /\ mem'["kernel"] = Whole("kernel", c)
      BY <1>2, <2>1, <2>2 DEF LoadedFrom, Files
    <3>. QED BY <1>1, <1>3, <2>1, <3>1, <3>2, LoadEnds
  <2>3. CASE file # "config"
    BY <1>1, <1>3, <1>5, <2>1, <2>3, LoadEnds DEF FileFailed
  <2>. QED BY <2>2, <2>3
<1>6. ASSUME Device!Deliver, mem' = [mem EXCEPT ![file][pos + 1] = result'.data[1]]
      PROVE  /\ ready = c
             /\ MemOK'
             /\ \A j \in 1 .. pos + 1 : mem'[file][j] = <<c, First[file] + j - 1>>
             /\ \A f \in Files \ {file} : mem'[f] = mem[f]
  <2>1. ready \in Cards /\ result'.data[1] = <<ready, First[file] + pos>>
    BY <1>1, <1>6, Delivers DEF IInv
  <2>2. ready = c
    BY <1>2, <2>1, BootAssumption DEF LoadedFrom
  <2>3. <<ready, First[file] + pos>> \in Cell
    BY <1>1, <2>1, ReadCell DEF IInv
  <2>4. /\ MemOK'
        /\ mem'[file][pos + 1] = <<c, First[file] + pos>>
        /\ \A j \in 1 .. pos : mem'[file][j] = mem[file][j]
        /\ \A f \in Files \ {file} : mem'[f] = mem[f]
    BY <1>4, <1>6, <2>1, <2>2, <2>3, Lands
  <2>5. \A j \in 1 .. pos : mem'[file][j] = <<c, First[file] + j - 1>>
    BY <1>1, <1>2, <2>4 DEF LoadedFrom
  <2>6. pos \in Nat /\ First[file] \in Nat
    BY <1>4 DEF PlaceOK, Files, First, Length
  <2>7. \A j \in 1 .. pos + 1 : mem'[file][j] = <<c, First[file] + j - 1>>
    <3>. TAKE j \in 1 .. pos + 1
    <3>1. CASE j = pos + 1
      <4>1. First[file] + j - 1 = First[file] + pos
        BY <2>6, <3>1
      <4>. QED BY <2>4, <3>1, <4>1
    <3>2. CASE j \in 1 .. pos
      BY <2>5, <3>2
    <3>. QED BY <2>6, <3>1, <3>2
  <2>. QED BY <2>2, <2>4, <2>7
<1>7. CASE /\ Device!Deliver
           /\ mem' = [mem EXCEPT ![file][pos + 1] = result'.data[1]]
           /\ pos + 1 < Length[file]
           /\ Advance
           /\ UNCHANGED <<pc, auto, file, isConfig, load>>
  <2>1. PlaceOK'
    BY <1>4, <1>7 DEF PlaceOK, Advance, Files, Length
  <2>2. PcOK'
    BY <1>4, <1>7 DEF PcOK
  <2>3. FlagsOK'
    BY <1>3, <1>4, <1>7 DEF FlagsOK
  <2>4. DeviceOK'
    BY <1>1, <1>4, AnswersType
  <2>5. TypeOK'
    BY <1>6, <1>7, <2>1, <2>2, <2>3, <2>4, TypeParts
  <2>6. LoadedFrom(c)'
    BY <1>1, <1>2, <1>4, <1>6, <1>7 DEF LoadedFrom, Advance, PlaceOK, Files, Whole
  <2>7. LoadingOK'
    BY <2>6 DEF LoadingOK
  <2>8. CallOK' /\ DoneOK'
    BY <1>1, <1>7 DEF CallOK, DoneOK
  <2>9. UpdateOK' /\ WaitOK' /\ ShellOK'
    BY <1>1, <1>7 DEF UpdateOK, WaitOK, ShellOK
  <2>. QED BY <2>5, <2>7, <2>8, <2>9 DEF IInv
<1>8. CASE /\ Device!Deliver
           /\ mem' = [mem EXCEPT ![file][pos + 1] = result'.data[1]]
           /\ ~(pos + 1 < Length[file])
           /\ FileDone
  <2>1. mem'[file] = Whole(file, c)
    <3>1. pos + 1 = Length[file]
      BY <1>4, <1>8 DEF PlaceOK, Files, Length
    <3>2. mem'[file] \in Seq(Cell) /\ Len(mem'[file]) = Length[file]
      BY <1>4, <1>6, <1>8 DEF MemOK, PlaceOK
    <3>. QED BY <1>4, <1>6, <1>8, <3>1, <3>2, WholeIs DEF PlaceOK
  <2>2. ASSUME NEW f \in {"kernel", "config"}, Open(f), UNCHANGED isConfig,
               f = "kernel" => file = "tree", f = "config" => file = "kernel"
        PROVE  IInv'
    <3>1. pc' = "open" /\ file' = f /\ pos' = 0 /\ UNCHANGED <<auto, load>>
      BY <2>2 DEF Open
    <3>2. PlaceOK'
      BY <3>1 DEF PlaceOK, Files, Length
    <3>3. PcOK'
      BY <1>4, <3>1 DEF PcOK
    <3>4. FlagsOK'
      BY <1>3, <1>4, <2>2, <3>1 DEF FlagsOK
    <3>5. DeviceOK'
      BY <1>1, <1>4, AnswersType
    <3>6. TypeOK'
      BY <1>6, <1>8, <3>2, <3>3, <3>4, <3>5, TypeParts
    <3>7. mem'["tree"] = Whole("tree", c)
      BY <1>2, <1>6, <1>8, <2>1, <2>2 DEF LoadedFrom, Files
    <3>8. f = "config" => mem'["kernel"] = Whole("kernel", c)
      BY <2>1, <2>2
    <3>9. LoadedFrom(c)'
      BY <1>1, <1>6, <1>8, <3>1, <3>7, <3>8 DEF LoadedFrom, Whole
    <3>10. LoadingOK'
      BY <3>9 DEF LoadingOK
    <3>11. CallOK' /\ DoneOK'
      BY <1>1, <3>1 DEF CallOK, DoneOK
    <3>12. UpdateOK' /\ WaitOK' /\ ShellOK'
      BY <3>1 DEF UpdateOK, WaitOK, ShellOK
    <3>. QED BY <3>6, <3>10, <3>11, <3>12 DEF IInv
  <2>3. CASE file = "config" /\ LoadDone(TRUE)
    <3>1. mem'["tree"] = Whole("tree", c) /\ mem'["kernel"] = Whole("kernel", c)
      BY <1>2, <1>6, <1>8, <2>3 DEF LoadedFrom, Files
    <3>2. mem'["config"] = Whole("config", c)
      BY <2>1, <2>3
    <3>. QED BY <1>1, <1>3, <1>6, <1>8, <2>3, <3>1, <3>2, LoadEnds
  <2>. QED BY <1>8, <2>2, <2>3 DEF FileDone
<1>. QED BY <1>5, <1>7, <1>8 DEF BlockRead

LEMMA UpdateHolds == IInv /\ Update => IInv'
<1>. SUFFICES ASSUME IInv, Update PROVE IInv'
  OBVIOUS
<1>1. /\ pc = "update"
      /\ UNCHANGED <<slot, ready, op, file, pos, mem, isConfig, load>>
      /\ args' \in {args, "config", "overrun"}
      /\ Configured /\ pc' = "wait" => args' = "config"
      /\ \/ pc' = "wait" /\ UNCHANGED auto
         \/ pc' = "shell" /\ auto' = FALSE
  BY DEF Update, Shell, deviceVars
<1>2. PICK c \in Cards : Images(c) /\ ConfigOf(c)
  BY <1>1 DEF IInv, UpdateOK
<1>3. TypeOK'
  BY <1>1 DEF IInv, TypeOK
<1>4. CallOK'
  BY <1>1 DEF IInv, CallOK, Reading
<1>5. LoadingOK' /\ UpdateOK' /\ ShellOK'
  BY <1>1 DEF LoadingOK, UpdateOK, ShellOK
<1>6. Images(c)' /\ ConfigOf(c)'
  BY <1>1, <1>2 DEF Images, ConfigOf, Whole
<1>7. isConfig' /\ c \notin Plain /\ pc' = "wait" => args' = "config"
  BY <1>1, <1>2 DEF Configured, ConfigOf
<1>8. DoneOK'
  BY <1>6 DEF DoneOK
<1>9. WaitOK'
  BY <1>6, <1>7 DEF WaitOK
<1>. QED BY <1>3, <1>4, <1>5, <1>8, <1>9 DEF IInv

\* Steps that only move pc, and perhaps enter the shell
LEMMA MoveHolds ==
    ASSUME IInv, pc \in {"wait", "shell"},
           pc' \in {"init", "shell", "linux", "stopped"},
           UNCHANGED <<deviceVars, file, pos, imageVars, load>>,
           auto' \in {auto, FALSE},
           pc' = "shell" => auto' = FALSE
    PROVE  IInv'
<1>. USE DEF deviceVars, imageVars
<1>1. TypeOK'
  BY DEF IInv, TypeOK
<1>2. CallOK'
  BY DEF IInv, CallOK, Reading
<1>3. LoadingOK' /\ UpdateOK' /\ WaitOK' /\ ShellOK'
  BY DEF LoadingOK, UpdateOK, WaitOK, ShellOK
<1>4. DoneOK'
  BY DEF IInv, DoneOK, Images
<1>. QED BY <1>1, <1>2, <1>3, <1>4 DEF IInv

LEMMA CmdBootargsHolds == IInv /\ CmdBootargs => IInv'
<1>. SUFFICES ASSUME IInv, CmdBootargs PROVE IInv'
  OBVIOUS
<1>1. /\ pc = "shell" /\ pc' \in {"shell", "stopped"}
      /\ UNCHANGED <<slot, ready, op, auto, file, pos, mem, isConfig, load>>
      /\ args' \in {args, "set"}
  BY DEF CmdBootargs, deviceVars
<1>2. TypeOK'
  BY <1>1 DEF IInv, TypeOK
<1>3. CallOK'
  BY <1>1 DEF IInv, CallOK, Reading
<1>4. LoadingOK' /\ UpdateOK' /\ WaitOK' /\ ShellOK'
  BY <1>1 DEF IInv, LoadingOK, UpdateOK, WaitOK, ShellOK
<1>5. DoneOK'
  BY <1>1 DEF IInv, DoneOK, Images
<1>. QED BY <1>2, <1>3, <1>4, <1>5 DEF IInv

LEMMA NextHolds == IInv /\ [Next]_vars => IInv'
<1>. SUFFICES ASSUME IInv, [Next]_vars PROVE IInv'
  OBVIOUS
<1>1. CASE PowerUp \/ CallCard \/ CardFound \/ CardNotFound
  BY <1>1, PowerUpHolds, CallCardHolds, CardFoundHolds, CardNotFoundHolds
<1>2. CASE Tested \/ Mounted \/ Opened \/ BlockRead
  BY <1>2, TestedHolds, MountedHolds, OpenedHolds, BlockReadHolds
<1>3. CASE Update \/ CmdBootargs
  BY <1>3, UpdateHolds, CmdBootargsHolds
<1>4. CASE KeyPressed
  BY <1>4, MoveHolds DEF KeyPressed, Shell
<1>5. CASE AutoBoot \/ CmdBoot
  BY <1>5, MoveHolds DEF AutoBoot, CmdBoot, Boot
<1>6. CASE CmdReload
  BY <1>6, MoveHolds DEF CmdReload
<1>7. CASE \E c \in Cards \cup {NoCard} : Insert(c)
  BY <1>7, InsertHolds
<1>8. CASE UNCHANGED vars
  <2>1. TypeOK' /\ CallOK'
    BY <1>8 DEF IInv, TypeOK, CallOK, Reading, NextRead, vars, deviceVars, programVars, imageVars
  <2>2. LoadingOK' /\ DoneOK'
    BY <1>8 DEF IInv, LoadingOK, LoadedFrom, DoneOK, Images, Whole, vars, deviceVars,
                programVars, imageVars
  <2>3. UpdateOK' /\ WaitOK' /\ ShellOK'
    BY <1>8 DEF IInv, UpdateOK, WaitOK, ShellOK, Images, ConfigOf, vars, programVars, imageVars
  <2>. QED BY <2>1, <2>2, <2>3 DEF IInv
<1>. QED BY <1>1, <1>2, <1>3, <1>4, <1>5, <1>6, <1>7, <1>8 DEF Next, Program, Command

\* What has been loaded is of one card: the inductive invariant of the boot program.
THEOREM Inductive == Spec => []IInv
BY InitHolds, NextHolds, PTL DEF Spec

\* Every variable keeps to its range, whatever the cards hold.
THEOREM TypeCorrect == Spec => []TypeOK
<1>1. IInv => TypeOK
  BY DEF IInv
<1>. QED BY <1>1, Inductive, PTL

LEMMA HandoffStep ==
    ASSUME IInv, [Next]_vars, pc # "linux", pc' = "linux"
    PROVE  \/ ~auto /\ load # "done"
           \/ \E c \in Cards :
                 /\ Images(c)
                 /\ auto /\ isConfig => /\ mem["config"] = Whole("config", c)
                                        /\ c \notin Plain => args = "config"
<1>1. pc \in {"wait", "shell"}
  BY DEF Next, Program, Command, PowerUp, CallCard, CardFound, CardNotFound, Tested, Mounted,
         Opened, BlockRead, Update, KeyPressed, AutoBoot, CmdReload, CmdBootargs, CmdBoot,
         Insert, Shell, Open, LoadFailed, LoadDone, FileFailed, FileDone, vars, programVars
<1>2. CASE pc = "wait"
  BY <1>2 DEF IInv, WaitOK, ConfigOf
<1>3. CASE pc = "shell"
  <2>1. ~auto
    BY <1>3 DEF IInv, ShellOK
  <2>2. load = "done" => \E c \in Cards : Images(c)
    BY <1>3 DEF IInv, DoneOK
  <2>. QED BY <2>1, <2>2
<1>. QED BY <1>1, <1>2, <1>3

\* The kernel is started with the tree of its own card, both loaded to the end,
\* unless the last load failed or there was none, for any cards and any number
\* of changes and failed reads.
THEOREM HandsOff == Spec => Handoff
<1>1. IInv /\ [Next]_vars =>
        [(pc # "linux" /\ pc' = "linux") =>
            \/ ~auto /\ load # "done"
            \/ \E c \in Cards :
                  /\ Images(c)
                  /\ auto /\ isConfig => /\ mem["config"] = Whole("config", c)
                                         /\ c \notin Plain => args = "config"]_vars
  BY HandoffStep
<1>. QED BY <1>1, Inductive, PTL DEF Spec, Handoff

=============================================================================
