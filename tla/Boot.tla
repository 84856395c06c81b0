-------------------------------- MODULE Boot --------------------------------
(***************************************************************************)
(* The boot program of a board (board/100ask-t113i/syter_boot): device     *)
(* tree, kernel and configuration come from the card in the slot, and the  *)
(* kernel is started by itself or by the shell's commands.  The card       *)
(* driver is what BlockDevice promises, so that any read may fail and the  *)
(* card may be changed between any two; a block here is what one call of   *)
(* sdmmc_blk_read fetches.  FatFs reads the volume's first block to mount  *)
(* it and to find a file, and a file's blocks in order.                    *)
(***************************************************************************)
EXTENDS Integers, Sequences

CONSTANTS
    Cards, NoCard,
    Kernelless,     \* the cards without a kernel
    Plain,          \* the cards whose configuration names no bootargs
    Configless      \* the cards without a configuration

ASSUME BootAssumption == NoCard \notin Cards

VARIABLES
    slot, ready, op, result,    \* the card driver
    pc,             \* what the program does next
    auto,           \* FALSE once the shell has been entered
    file, pos,      \* the file being loaded, its blocks read so far
    mem,            \* the load addresses: what each block there came from
    args,           \* the boot arguments in the device tree
    isConfig,       \* image.is_config
    load            \* history: how the last load_sdcard ended

deviceVars == <<slot, ready, op, result>>
imageVars == <<mem, args, isConfig>>
programVars == <<pc, auto, file, pos, imageVars, load>>
vars == <<deviceVars, programVars>>

Files == {"tree", "kernel", "config"}
First == [tree |-> 1, kernel |-> 2, config |-> 4]
Length == [tree |-> 1, kernel |-> 2, config |-> 1]
Size == 5

Device == INSTANCE BlockDevice

\* Memory that holds a block of a card, or nothing of use: at power-up, or
\* after a read that failed on its way
Cell == (Cards \X (0 .. Size - 1)) \cup {<<>>}
Whole(f, c) == Device!Blocks(c, First[f], Length[f])

Has(c, f) ==
    /\ f = "kernel" => c \notin Kernelless
    /\ f = "config" => c \notin Configless

Init ==
    /\ Device!Init
    /\ pc = "power"
    /\ auto = TRUE
    /\ file = "tree" /\ pos = 0
    /\ mem = [f \in Files |-> [i \in 1 .. Length[f] |-> <<>>]]
    /\ args = "none"
    /\ isConfig = FALSE
    /\ load = "none"

Shell == pc' = "shell" /\ auto' = FALSE

\* main up to sdmmc_init: the flag for FEL mode, and the SD host controller
PowerUp ==
    /\ pc = "power"
    /\ \/ pc' \in {"fel", "init"} /\ UNCHANGED auto
       \/ Shell
    /\ UNCHANGED <<deviceVars, file, pos, imageVars, load>>

-----------------------------------------------------------------------------
(* The card                                                                *)

NextRead == IF pc = "read" THEN Device!ReadOp(First[file] + pos, 1)
            ELSE Device!ReadOp(0, 1)

CallCard ==
    /\ \/ pc = "init" /\ Device!CallInit
       \/ pc \in {"test", "mount", "open", "read"} /\ Device!CallRead /\ op' = NextRead
    /\ UNCHANGED programVars

\* Main and the reload command after sdmmc_init
CardFound ==
    /\ pc = "init"
    /\ Device!Find
    /\ pc' = "test"
    /\ UNCHANGED <<auto, file, pos, imageVars, load>>

CardNotFound ==
    /\ pc = "init"
    /\ Device!Fail
    /\ Shell
    /\ UNCHANGED <<file, pos, imageVars, load>>

-----------------------------------------------------------------------------
(* load_sdcard                                                             *)

LoadFailed ==
    /\ Shell
    /\ load' = "failed"
    /\ UNCHANGED <<file, pos>>

LoadDone(config) ==
    /\ IF auto THEN pc' = "update" /\ UNCHANGED auto ELSE Shell
    /\ isConfig' = config
    /\ load' = "done"
    /\ UNCHANGED <<file, pos>>

\* The read that measures the speed of the card goes where the configuration
\* will be; nobody looks whether it succeeds.
Tested ==
    /\ pc = "test"
    /\ \/ Device!Deliver /\ mem' = [mem EXCEPT !["config"] = result'.data]
       \/ Device!Fail /\ mem' \in {mem, [mem EXCEPT !["config"] = <<<<>>>>]}
    /\ pc' = "mount"
    /\ UNCHANGED <<auto, file, pos, args, isConfig, load>>

\* Mistaken: a file is read from where the one before it ended.
OpenOn(f) == pc' = "open" /\ file' = f /\ UNCHANGED <<auto, pos, load>>

Open(f) ==
    /\ pc' = "open"
    /\ file' = f
    /\ pos' = 0
    /\ UNCHANGED <<auto, load>>

Mounted ==
    /\ pc = "mount"
    /\ \/ Device!Deliver /\ Open("tree")
       \/ Device!Fail /\ LoadFailed
    /\ UNCHANGED imageVars

\* Mistaken: the kernel is loaded whether or not the tree has been.
FileFailedOn == IF file = "tree" THEN Open("kernel") /\ UNCHANGED isConfig
                ELSE LoadDone(FALSE)

\* fatfs_loadimage returns an error: only the configuration may be missing.
FileFailed == IF file = "config" THEN LoadDone(FALSE)
              ELSE LoadFailed /\ UNCHANGED isConfig

Opened ==
    /\ pc = "open"
    /\ \/ /\ Device!Deliver
          /\ Has(ready, file)
          /\ pc' = "read"
          /\ UNCHANGED <<auto, file, pos, isConfig, load>>
       \/ Device!Deliver /\ ~Has(ready, file) /\ FileFailed
       \/ Device!Fail /\ FileFailed
    /\ UNCHANGED <<mem, args>>

FileDone ==
    \/ file = "tree" /\ Open("kernel") /\ UNCHANGED isConfig
    \/ file = "kernel" /\ Open("config") /\ UNCHANGED isConfig
    \/ file = "config" /\ LoadDone(TRUE)

\* Mistaken: the file is read from its start again.
AdvanceStuck == pos' = pos

Advance == pos' = pos + 1

\* One round of the loop in fatfs_loadimage; a failed read may have written
\* part of its block.
BlockRead ==
    /\ pc = "read"
    /\ \/ /\ Device!Deliver
          /\ mem' = [mem EXCEPT ![file][pos + 1] = result'.data[1]]
          /\ IF pos + 1 < Length[file]
             THEN Advance /\ UNCHANGED <<pc, auto, file, isConfig, load>>
             ELSE FileDone
       \/ /\ Device!Fail
          /\ mem' \in {mem, [mem EXCEPT ![file][pos + 1] = <<>>]}
          /\ FileFailed
    /\ args' = IF file = "tree" THEN "card" ELSE args

-----------------------------------------------------------------------------
(* From the images to the kernel                                           *)

\* The configuration in memory names boot arguments.
Configured == isConfig /\ \E c \in Cards \ Plain : mem["config"] = Whole("config", c)

\* update_bootargs_from_config.  Without arguments of the configuration, " mem="
\* is appended to the property inside the tree, over what follows it there.
\* The tree may have no room for the new arguments.
Update ==
    /\ pc = "update"
    /\ \/ /\ Configured
          /\ \/ args' = "config" /\ pc' = "wait" /\ UNCHANGED auto
             \/ UNCHANGED args /\ Shell
       \/ /\ ~Configured
          /\ args' = "overrun"
          /\ (pc' = "wait" /\ UNCHANGED auto) \/ Shell
    /\ UNCHANGED <<deviceVars, file, pos, mem, isConfig, load>>

\* cmd_boot: zImage_loader looks for the magic number in the kernel's first
\* block; without it the program stops.
Boot ==
    /\ pc' \in IF mem["kernel"][1] = <<>> THEN {"stopped", "linux"} ELSE {"linux"}
    /\ UNCHANGED <<deviceVars, auto, file, pos, imageVars, load>>

\* A key within the boot delay, or none
KeyPressed ==
    /\ pc = "wait"
    /\ Shell
    /\ UNCHANGED <<deviceVars, file, pos, imageVars, load>>
AutoBoot == pc = "wait" /\ Boot

-----------------------------------------------------------------------------
(* The shell                                                               *)

CmdReload ==
    /\ pc = "shell"
    /\ pc' = "init"
    /\ UNCHANGED <<deviceVars, auto, file, pos, imageVars, load>>

\* bootargs set: the tree's header is checked and its property replaced, and
\* the program stops if that fails.
CmdBootargs ==
    /\ pc = "shell"
    /\ mem["tree"][1] # <<>>
    /\ \/ pc' = "stopped" /\ UNCHANGED args
       \/ args' = (IF args = "overrun" THEN args ELSE "set") /\ UNCHANGED pc
    /\ UNCHANGED <<deviceVars, auto, file, pos, mem, isConfig, load>>

CmdBoot == pc = "shell" /\ Boot

Command == CmdReload \/ CmdBootargs \/ CmdBoot

\* What goes on by itself
Program ==
    \/ PowerUp \/ CallCard \/ CardFound \/ CardNotFound
    \/ Tested \/ Mounted \/ Opened \/ BlockRead
    \/ Update \/ KeyPressed \/ AutoBoot

Insert(c) == Device!Insert(c) /\ UNCHANGED programVars

Next ==
    \/ Program \/ Command
    \/ \E c \in Cards \cup {NoCard} : Insert(c)

Spec == Init /\ [][Next]_vars /\ WF_vars(Program)

-----------------------------------------------------------------------------
(* Properties                                                              *)

\* Every variable keeps to its range: what is read goes where its file belongs.
TypeOK ==
    /\ slot \in Cards \cup {NoCard}
    /\ ready \in Cards \cup {NoCard}
    /\ op \in Device!ReadOps \cup {Device!InitOp, Device!NoOp}
    /\ pc \in {"power", "fel", "init", "test", "mount", "open", "read", "update",
              "wait", "shell", "linux", "stopped"}
    /\ auto \in BOOLEAN
    /\ file \in Files
    /\ pos \in 0 .. Length[file] - 1
    /\ mem \in [Files -> Seq(Cell)]
    /\ \A f \in Files : Len(mem[f]) = Length[f]
    /\ args \in {"none", "card", "config", "overrun", "set"}
    /\ isConfig \in BOOLEAN
    /\ load \in {"none", "done", "failed"}

Images(c) == mem["tree"] = Whole("tree", c) /\ mem["kernel"] = Whole("kernel", c)

\* The kernel is started with the device tree that lies with it on the card, both
\* loaded to the end, however often the card was changed; only when no load has
\* succeeded since the last one that failed can the shell start anything else.
\* Started by itself, the kernel gets the arguments of the same card's
\* configuration if that could be read.
Handoff ==
    [][(pc # "linux" /\ pc' = "linux") =>
        \/ ~auto /\ load # "done"
        \/ \E c \in Cards :
              /\ Images(c)
              /\ auto /\ isConfig => /\ mem["config"] = Whole("config", c)
                                     /\ c \notin Plain => args = "config"]_vars

\* Whatever the card does, a load ends: with the kernel, the shell's prompt, or
\* a stop.
Settles == pc \in {"init", "wait"} ~> pc \in {"linux", "shell", "stopped"}
=============================================================================
