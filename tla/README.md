# T113 remote processors and boot loader: models, checks and proofs

The repository serves an Allwinner T113i: Linux on the Cortex-A7, a bare-metal
RISC-V firmware on the C906, a FreeRTOS firmware on the HiFi4 DSP, and
SyterKit, the boot loader that brings all of them up.  The first-party logic
that is hardest to test is the RPMsg echo service both firmwares run over
virtio rings in shared memory and a hardware mailbox: three threads on two
processors, no lock, kicks that are merged, discarded and dropped.  It is
modelled first, checked with TLC and proved about with TLAPS.  SyterKit's heap
and its command line follow, from the history ring and the line editor to the
parser and the shell loop; then its USB mass storage function under its
interrupt handler, its SD/MMC driver, the boot program built on that driver,
and the sector cache other boards have between the two.

## Inventory

| Component | State it keeps | Operations | Hard part | What makes it correct |
|---|---|---|---|---|
| C906 firmware, `c906/src/main.c` | `last_avail` of two vrings, `ns_sent`, `vrings_synced`, `ready`; shared: desc/avail/used rings, vdev status, mailbox registers | `vring_setup`, `vring_get_avail`, `vring_add_used`, `msgbox_init`, `msgbox_poll`, `msgbox_kick_host`, `rpmsg_sendto`, `rpmsg_send_ns`, `process_host_messages`, `main` | runs against Linux without a lock; publication order; kicks lost or merged; host not ready yet; no TX buffer | no buffer lost, doubled or shared; echoes complete and in order; nobody left waiting |
| HiFi4 firmware, `FreeRTOS-HIFI4-DSP/src/msgbox.c` | the same | the same functions, in a FreeRTOS task | the same | the same |
| MSGBOX hardware (external) | a FIFO of words per direction, a pending bit | write, read, status, clear | read without a pending bit drops a word | a kick is never lost as a notification |
| Linux virtio/rpmsg (external) | driver side of the rings | probe, receive callback, send, kick | two threads of its own | |
| Resource tables, start-up, UART | constant tables | | | |
| `cpux_code/rpmsg_*` | one file descriptor | write, poll with timeout, read | late reply | |
| SyterKit heap, `smalloc.c` | a linked list of blocks in the heap | `smalloc`, `srealloc`, `sfree` | stale list node in `srealloc`, sizes that do not follow | live blocks disjoint, inside the heap |
| SyterKit command line, `cli/` | history ring, edit buffer with cursor, clipboard, saved line | append and get, about 15 editing keys, tokenizer | ring wrap, history against the edited line | refines a list of lines and a line with a cursor |
| SyterKit USB mass storage, `usb_mass.c` | protocol state, CSW, two buffers | CBW, data phases, CSW | an interrupt between any two steps, a command read in place, a state without exit | a command is answered, rightly, and the device recovers |
| SyterKit USB controller, `usb.c`, `usb_*.c` | endpoint index, receive buffer and its flag, address | interrupt handler, send, start of a receive DMA | packets while the buffer is in use, index shared with the main loop, bus resets | no packet overwritten or lost |
| SyterKit SD/MMC, `sdhci/` | kind and capacity of the card, bus width | `sdmmc_init`, `sdmmc_blk_read` | lost answers, a card left in any state, a card changed between commands | a read delivers what was asked for or fails; calls end |
| SyterKit FatFs glue, `lib/fatfs/diskio.c` | drive status; cached sectors, a bitmap of chunks, the host they came from | `disk_initialize`, `disk_read` | the card of another host or another card at the same one, a chunk that fails half-way, sizes that do not divide | a sector is one of the card in use, unless that has been exchanged |
| SyterKit ELF loader, `lib/elf` | memory image | load segments, find entry | empty segments, overlap | memory holds the program's image |
| SyterKit boot program, `board/100ask-t113i/syter_boot` | three load addresses, `image`, the arguments in the tree | load, update arguments, boot, `reload`, `bootargs`, `boot` | a file that fails, a card changed between two files, commands in any order | the kernel is started with its own tree, both whole |
| The programs that load the coprocessors, `sys-rproc.c` | reset, clock and vector registers | load, map, release | order of reset, vector and clock | a core never runs before its image and vector are there |
| SyterKit chip drivers; FatFs, libfdt, FreeRTOS kernel, CoreMark; host tools | | | | not modelled: register sequences, or vendored code |

The firmware and Linux meet in the two vrings (`vr_tx` from firmware to host,
`vr_rx` from host to firmware), in the vdev status word of the resource table
(DRIVER_OK) and in one mailbox channel per direction.  SyterKit runs
alone on its core, and only its USB function is interrupted.  The mass storage
function takes two buffers from the heap once and reads blocks through the SD
driver; the boot program reads files through FatFs from the same driver and
ends in the shell.

## Modules

| Module | What it is |
|---|---|
| `BufferQueue` | abstract specification: a pool of buffers that one side offers, the other takes, completes or abandons, and the first reclaims |
| `Vring` | one vring with its two cursors, one action per shared-memory access; refines `BufferQueue` |
| `VringProofs` | type correctness, conservation, exclusive ownership, no overrun, the refinement |
| `Msgbox` | one mailbox direction with the polling receiver |
| `RpmsgEcho` | the service: firmware main loop, two instances of `Vring`, one of `Msgbox`, a second FIFO, the two host threads |
| `RpmsgEchoProofs` | both rings are used as vrings, so what is proved of `Vring` holds in the service; the wakeup invariants; the host gets the announcement and the echoes in order, none twice |
| `Allocator` | abstract specification: disjoint blocks of a heap, given out and taken back |
| `Smalloc` | `smalloc.c`, first-fit list with headers, with and without `srealloc`; refines `Allocator` |
| `SmallocProofs` | types, layout, accounting and the refinement |
| `RecentLines` | abstract specification: the last lines, newest first |
| `History` | the ring of `cli/history.c`; refines `RecentLines` |
| `EditLine` | abstract specification: a line with a cursor, a clipboard, a walk through the latest lines |
| `LineEdit` | `cli/lineedit.c`: every key, the edit buffer as an array, the terminal; uses `History`; refines `EditLine` |
| `Cli` | the sizes and characters common to the files of `src/cli` |
| `CommandLine` | reference: what a command line means, by what each of its characters is within |
| `Shell` | `cli/parse.c`, the loop of `cli/shell.c`, the lookup of `cli/commands.c` |
| `CliProofs` | the editor: types, echo, refinement; the ring of lines as the editor uses it; the shell: types, `argbuf` large enough, `argv[0]` written, runs what was typed up to an empty sentence or an overrun |
| `BulkOnly` | abstract specification: commands, right answers, when a host may give one up |
| `UsbController` | `usb.c`: the interrupt handler, sending, and the controller's FIFOs |
| `UsbMass` | `usb_mass.c` over `UsbController`, and the host; refines `BulkOnly` |
| `UsbMassProofs` | types, the command kept in the receive buffer, and that `UsbMass` refines `BulkOnly` |
| `BlockDevice` | abstract specification: a card driver that finds a card and delivers its blocks, or fails |
| `SdCard` | `sys-sdcard.c` and the transfers of `sys-sdhci.c`, command by command, against a card; refines `BlockDevice` |
| `SdCardProofs` | types, the refinement, and that an undisturbed call succeeds |
| `Boot` | the boot program over an instance of `BlockDevice` |
| `BootProofs` | types, and that the kernel and tree handed over are one card's |
| `Disk` | abstract specification: the sectors asked for, each of a medium used at this host since another host was read, or a failure with a reason |
| `DiskCache` | `disk_read` of a build with a cache, over an instance of `BlockDevice`; refines `Disk` |
| `DiskCacheProofs` | types, the refinement, exactness as long as no card is exchanged, and that cache and bitmap are large enough |
| `MC*` | constants for TLC |

### Vring

`availIdx`, `availRing`, `usedIdx`, `usedRing` are the fields of
`vring_avail` and `vring_used`; `lastAvail` is `last_avail`, `lastUsed` the
driver's own cursor.  Indices run free modulo `IdxMod` (2^16 in the code)
and select a slot modulo `Num`, so `Inc` wraps as `uint16_t` does.
`devPc`/`devDesc` are the device's place inside
`vring_get_avail`..`vring_add_used` and the descriptor it holds; `drvPc`,
`free` belong to the driver.  `SeeAvail` reads `avail->idx` and compares it,
`TakeAvail` reads the slot and steps the cursor, `WriteUsed` fills the used
slot, `PublishUsed` (after the barrier of line 307) stores the index,
`Abandon` is the early `break` of `process_host_messages`.  The driver's side
(`AddAvail`, `PublishAvail`, `GetUsed`) is external: Linux fills a slot, then
publishes it, and reads back a used element.

The barrier is modelled by order: `PublishUsed` is a step after `WriteUsed`.
Between a check and the use of what it saw, the other side may take any number
of steps.

### Msgbox

`msgbox_poll` is four register accesses: read the pending bit; if it was
clear, read and drop a word; otherwise read the word, then clear the bit.  The
host may kick between any two.  Whether the bit can be cleared while words
remain and what a read of an empty FIFO returns, the sources do not say; both
are left open (`ClearPending`, `TakeRead`).

### RpmsgEcho

`pc` is the firmware's place in `main` and the functions it calls, `caller`
the return address of `rpmsg_sendto` and `msgbox_kick_host`.  A round is:
read the status (`ReadStatus`), synchronise once (`SyncVrings`), announce
until it worked (`SendNS`/`SkipNS`), poll (`PollStatus`, `PollMiss`,
`PollTake`, `PollHit`), and when the poll hit and the host was ready at the
top of the round, go through `vr_rx` (`RxSee` .. `RxPublish`), echoing through
`rpmsg_sendto` (`SendTake`, `SendFill`, `SendPublish`) and kicking
(`KickStatus`, `KickWrite`).  The variables of the rings change only through
the actions of the two `Vring` instances.

Frames and messages are numbers, so that order and duplication show.  A
message is "data", "empty" (no payload: not echoed) or "bad" (its address is
outside the shared memory).  `rxBuf` and `txBuf` are the contents of the
buffers.

The host is what the code's comments and its protocol demand of Linux: the
probe posts every TX buffer, sets DRIVER_OK and kicks; the receiving thread
drains `vr_tx` on a kick, reposting buffers one by one, and kicks; the sending
thread starts after the announcement, posts one message, publishes it, and
kicks.  It is marked external in the map.

### Smalloc

The list of `alloc_struct_t` nodes is a function from block addresses to
sizes: `smalloc` links a node into the gap between its neighbours, so the list
is in address order and `next` is the node above.  `live` is a history
variable, the pointers callers hold with the sizes they asked for.
`FirstFit` is the search loop (lines 31-42), `Fits` its test with two headers.
The four exits of `srealloc` are four actions.  `Unlinked` is what
`prev->next = ptr->next` removes when `prev` was found before the new block was
linked.  `Spec` is the interface the repository uses (`smalloc`, `sfree`),
`ReallocSpec` the whole one.

### History, LineEdit, Shell

`History` has the three variables of `history.c`.  Lines are model values there
and sequences of characters in `LineEdit`, which instantiates it.

`LineEdit` makes one step of each key.  The editing functions are operators
from one state of `cmdline_t` to the next, so that `Yank` and `KillWord`, which
are recursive functions, repeat `InsertChar` and `BackspaceKey` as the code
does.  The record also holds the row of the terminal: each function sends it
the characters (`Puts`) and backspaces (`Back`) the code sends, and `Echo`
compares the row with the buffer.  The escape
sequences of the arrow keys are the keys they stand for.  `Enter` is the end of
`msh_get_cmdline` and the start of its next call.  The prompt and the bell
(neither moves the cursor within the line) are left out and the
terminal is wide enough for a line.

`Shell` reads a line and makes one step of each sentence: parse, look up in
the program's table and in the built-in one, report.  `ReadFrom`
with `ReadToken`, and `ParseFrom` with `ParseLine`, are the two loops of
`parse.c` as recursive functions of the position in the line; words and their nulls are packed in
`argbuf`, which survives from one sentence to the next.  What a command does
is left out; its result is any of `Results`.

`CommandLine` says what a line means without a parser: `Within` is the quote or
escape each character is within; spaces and separators within none are breaks;
a word is what lies between breaks, without the markers; a command is the words
between separators, and one that ends within a quote or an escape is none.
`RunsWhatWasTyped` compares what was looked up with it.  `ShellAssumption` has
the special characters distinct, as the literals of `parse.c` are.

The property does not say that everything typed is run, because the code does
not do it.  An empty sentence ends the line: `argv[0]` is then the empty string,
which `shell.c:58` takes for an "empty input line", so that of ";a" nothing is
run and of "a;;b" only the first command.  The comment of `parse.c:126`, "Skip
preceeding spaces or ';'", says otherwise; the loop under it skips spaces only.
The model does what the code does, and the property asks for all commands up to
the first without a name.

`argv` has `ArgsMax` entries (MSH_CMDARGS_MAX, 16).  `msh_parse_line` writes
`argv[0]` and one more behind every word that a space ends, whether a word
follows or not, and tests nothing (`parse.c:179`).  `ArgvWritten` counts them by the same
walk through the sentence; a sentence that writes more than there are leads
to the mode "overrun" (`Overrun`), from which nothing more is claimed, since what lies behind
`argv` on the stack is not known.  What is claimed is that the commands before were run
as typed, and that it takes a line of two characters for each entry.

### UsbController, UsbMass

The function driver's state machine runs in `sunxi_usb_attach`'s endless loop;
a call of `sunxi_mass_state_loop` is split where an interrupt makes a
difference: between the test of the state, the use of the receive buffer, the
copy of the tag, the switch on the command, and the assignment to
`sunxi_usb_mass_status` that ends a state.  `Irq` is the whole handler, since
interrupts do not nest; a step of the main loop waits for `pend = {}`.  The
endpoint index, which `sunxi_usb_write_fifo` sets and the handler resets to 0,
is a variable (`epind`), as is the place inside `sunxi_usb_write_fifo`
(`writer`), so that a packet may be loaded at one endpoint and marked ready at
another.  Packets are records told apart by command, tag and number; the send
buffer by the command whose data it holds.

The controller's side and the host are external.  The bulk OUT FIFO holds two
packets and interrupts for one that becomes the first.  The host sends a command, data if the command has
some, waits for data and status, resets the device when it gets something else
or nothing, enumerates it again and repeats the command if it is one of
`Reliable`; it takes a reset together with its enumeration as long enough for
the main loop to come to rest (`Configured`).  A tag is not used again while a
copy of it is anywhere (`FreshTag`).  Of the commands "test", "built", "read",
"readMany", "write" and "otherOut" in the instance, "fixed" is left out as it
takes the path of "built" with less state, and "other", an unknown command of
which the host expects data, as it takes that of "otherOut" without the packet;
the proofs cover both.  The data of an "other" may be one block the device had
loaded before and that nobody fetched, which `Right` therefore allows.
`Reliable` may not hold "write", which has no way out of its state, nor
"readMany": the interrupt of its first packet resets the endpoint index, the
second packet is not marked ready, and the host gets it in one with the CSW.

### BlockDevice, SdCard

`pc` names the command the driver sends next; `Command` has for each the card
states in which it is taken, the state it leads to, and what the driver sends
after it.  The loops have actions of their own: ACMD41 (`AppCmd`, `OpCond`),
CMD1 (`OpCondMmc`), the status polls (`Status`).  Their retry counts behave as
written: `while (retries--)` followed by `retries <= 0`, so that a success in the last round
counts as a failure.  A command is obeyed and answered, obeyed and not heard
to be answered, or not obeyed; a data transfer may stop half-way and leave the
card sending; the wait that stands for a stop command may time out
(`StopTimesOut`).  `Insert` changes the card in the slot at any moment.  A
block is a pair of a card and a number, so that a block of another card, or
the wrong one of the same card, shows.

The cards are SD 2.0 cards, of high capacity or not, and eMMC of version 4 or later.
READY_FOR_DATA is taken to be set in every status, and a relative card address
to be right: a card put in later is idle and does not answer.  An eMMC is
taken to be done with a SWITCH command at once.  In truth it is busy
programming for a while; the driver sends two of them in a row with an R1
answer, where R1b would wait, and then waits for a millisecond
(`sys-sdcard.c:713-731`): a card that takes longer is outside the model.

### Boot

A block here is what one call of `sdmmc_blk_read` fetches.  FatFs is external:
it reads block 0 to mount the volume and to find a file, then the file's
blocks.  `mem` holds for each load address what each block there came from;
the test of the card's speed, which reads over the configuration's address, is
a step like the others.  A failed read may have written part of its block.
`args` is where the arguments in the tree come from, "overrun" if they were
written over it.  The board's build has no FatFs cache.

### Disk, DiskCache

The T113 boards YuzukiHomekit and others (`cmake/board/*.cmake`) put a
cache between FatFs and the card driver.  A pass of `disk_read`'s loop is one
step (`Hit`), or two with the driver's call between them (`Miss`, `Filled`;
`ReadRest`, `RestRead` for what lies behind the cache); `Read` is its beginning,
where another host than last time clears the bitmap.  `sector`,
`count` and `buff` are the arguments as the loop advances them, `buff` with what
has been written.  `DriverFails` may leave the chunk's place destroyed.
`Select` is a program's `sdmmc_init(&card0, ...)` on one of the board's hosts.
The driver is `BlockDevice` with the slot of the host in use.  Any card may be
in it when the host is selected, and may be taken out or exchanged for another
at any time (`Insert`).  What a bit outside the bitmap reads as is left open
(`ValidBit`).  The program may go on after a failed `sdmmc_init`; a read then fails.

The bitmap is cleared when the host is another one than at the last read
(`diskio.c:90`) and at no other time.  `ImplementsDisk` is what that gives: a
sector is never one of a card read at another host, but may be one of a card
that was in this slot before.  `found` (the card the last `sdmmc_init` found) and
`served` (those in use at the reads since the bitmap was cleared) are history
variables to say so.  `ReadsCardFound`, that a read delivers the card found, is what a program
that calls `sdmmc_init` again relies on, and it does not hold.

## Runs

| Run | Instance | What it shows |
|---|---|---|
| `vring` | 3 descriptors, indices modulo 6 | `TypeOK`, `Conservation`, `SingleOwner`, `NoOverrun`, refinement `ImplementsPool` |
| `echo_safety` | 2 descriptors, modulo 4, FIFO of 2, 3 messages, good or bad | order, FIFO bound, no frame unannounced, both rings used as vrings |
| `echo_live` | FIFO of 1, 2 messages with and without payload, fairness | no message unnoticed; every kick answered, every message handled, every frame received, announcement arrives |
| `heap` | 24 bytes, headers of 2, alignment 2, four sizes | `TypeOK`, `LaidOut`, `Accounted`, refinement `ImplementsAllocator` |
| `heap_unlink` | 18 bytes, with `srealloc` | violated: `srealloc` drops the block it returns (`OnlyReleased`) |
| `edit` | 3 characters of 2 kinds, every key, history of 2 | `TypeOK`, `Echo`, refinement `ImplementsEditLine`, with the ring of `History` as the list of entered lines |
| `shell` | every line of up to 5 of 7 characters, an `argv` of 2, results -1 and 0 | `ShellTypeOK`, `ArgbufFits`, `RunsWhatWasTyped`, with its two exceptions: an empty sentence, an overrun of `argv` |
| `usb_mass` | six kinds of commands, three tags, one early reset, one control request | `CommandKept`, refinement `ImplementsBulkOnly`, `Answered`: the reliable commands are answered, and no command waits for ever |
| `sd_card` | three cards of 4 blocks of 2 bytes, chunks of 2, 3 retries, 2 faults, 2 changes of card | `Works`, `Ends`, refinement `ImplementsBlockDevice` |
| `boot` | four cards, complete, without arguments, without configuration, without kernel | `Handoff`, `Settles` |
| `disk_cache` | two cards of 10 sectors, 8 of them cached in chunks of 2, two bits to an entry of the bitmap, two hosts, any card at either | `TypeOK`, `StaysInCache`, refinement `ImplementsDisk` |
| `disk_cache_exchange` | the same | violated: a card exchanged in its slot and initialised is answered with the old card's sectors (`ReadsCardFound`) |

Bounds.  Three descriptors with indices modulo six let the ring be full, empty
and partly taken in every phase of the wrap; the free-running indices make the
state space finite without a bound on the run.  In the composition the number of messages
`MaxMsgs` is the only artificial bound: with two descriptors three messages
fill the ring, reuse a descriptor and wrap the index.  The mailbox FIFOs have one or two
words instead of eight, so that full FIFOs, dropped kicks and merged kicks are
reached.  The `vring` run has CHECK_DEADLOCK FALSE because
the device may abandon every buffer, after which neither side can move; the
service never stops.

The heap runs hold three or four blocks, enough for every relation of a gap to its
neighbours: too small, exact, and larger, before, between and behind blocks.
The history ring of two is overwritten again and again.  The editor's loops run over
the characters on one side of the cursor: three
characters put the cursor at either end and between, with a full buffer and a
clipboard that does not fit.  `EnterMax` keeps the lines that are entered to one character,
so that the ring of two wraps with few contents; lines being edited and saved
have up to three.  Five characters are enough for two commands with a quoted or escaped
separator, two words, or two kinds of quotes one within the other; with an
`argv` of two, two words and a space behind them overrun it, with a third
word, nothing, or a syntax error behind the space.

Three tags let one command be pending, one be in the device and one be new;
one reset and one control request at any moment reach every place of the
state machine and of `sunxi_usb_write_fifo`.  Four blocks in chunks of two
make reads of one chunk, of two, and of one and a half; a block of two bytes
tells byte addresses from block addresses; three retries and two busy answers
let the power-up loop end by success and by exhaustion; two faults are a
failure and another one on the way out of it.  The two-block kernel of the
boot run can be cut in the middle, and cards can be changed without a bound.
Ten sectors with eight cached and requests of two make requests inside a
chunk, across two chunks, across two entries of the bitmap, and across the end of the
cache; two hosts are used in turn and two cards put into either slot, without a
bound.  Cards, and hosts, are alike to every property checked, so the runs use
their symmetry.
`boot` has CHECK_DEADLOCK FALSE: the program ends in the kernel, in FEL mode or
in a stop.

Fairness.  `WF_vars(Firmware)`: the firmware's loop is `while (1)` and its
processor runs nothing else.  `WF_vars(HostRecv)`: Linux finishes its probe and
its receive callback.  `WF_vars(PublishMessage)` and `WF_vars(SendKick)`:
Linux finishes a send it began.  Nothing obliges the host to send, nor to
reclaim.  `UsbMass`: a pending interrupt is taken, the main loop is endless,
a DMA that is started and a host that waits go on; nothing makes the host
submit a command.  `WF_vars(Driver)` of `SdCard` and `WF_vars(Program)` of
`Boot`: the code runs alone on its core, and each of its waits has a timeout;
`Program` leaves out the shell's commands, which somebody types.  That a call
of the card driver ends, which `Program` takes for granted, is `Ends`.

## Proofs

`VringProofs` proves for every `Num` > 0, and every index width of which `Num`
is a divisor and at least half, the invariants the run checks.  The invariant is
`IInv`: types, the four parts of the ring being disjoint windows of the index
circle (`Conservation`, `PendingUnique`, `ReturnedUnique`, `Disjoint`), what
the device saw still being published (`SeenPublished`) and the slot it filled
holding its descriptor (`SlotFilled`).  `Conservation` alone is not inductive:
that a step of one cursor moves exactly one descriptor needs the descriptors
of the window to be distinct.  The lemmas before it compute
how a window of the index circle grows and shrinks by one.
`ImplementsPool` follows from the invariant, step by step.

`RpmsgEchoProofs` shows that every step of the service is a step of each
vring or leaves it alone (`RxIsVring`, `TxIsVring`).  The one
assignment to a ring's state outside the vring operations is the
synchronisation of line 486; it is a stutter because no host sends before the
announcement (`SyncInv`).  The theorems of `VringProofs` then hold for both rings of the
service (`RingsSafe`).  `KickInv` strengthens the wakeup properties
with where each thread must be when a notification is outstanding;
`FirmwareWillLook` is proved under the assumption that no buffer lies outside
the shared memory; with one, later messages may wait for another kick.

It also proves `InOrder`.  The invariant for it is `OrderInv`: the numbers
of the messages rise along the way from the published part of vr_rx over the
firmware to vr_tx and the frames the host has received (`OnTheWay`), and the
announcement is in front of them (`First`); `PlaceInv` says which vring
operation each place of the firmware's program is in.  A ring
enters only as the sequence of descriptors between two of its cursors
(`Offered`, `Completed`), and `VringProofs` has the lemmas how each vring
operation changes that sequence.  That a buffer keeps its message while it
is on the way is the exclusive ownership proved there.

`SmallocProofs` proves for every heap, header, alignment and set of requests
what the runs check.  `LaidOut` is inductive with `TypeOK` even under
`srealloc`: a block is put in a gap that has room for it and two headers, and
unlinking only enlarges gaps.  `Accounted` and the refinement hold under `Spec`;
with `srealloc` they do not, as the run `heap_unlink` shows.

`CliProofs` proves the editor for buffers, clipboards and histories of every
size and any set of characters.  Its invariant `Inv` says that the length is
that of the string in the buffer, the cursor is within it, the clipboard ends
with a null, and the row of the terminal agrees with the buffer; each editing
function is shown to lead from such a state to such a state, and what it does to
the line is stated as the line's two parts, before and after the cursor
(`Before`, `After`), which is how `EditLine` speaks of it.  Array copies with
overlapping ends (`memmove` in insertion and deletion) become concatenations there.
`Yank` and `KillWord` repeat a function a number of times (`Iterates`); that the
recursive functions exist is by induction over the number of steps, on sets of
numbers, as the library's theorems that take an operator cannot be used.  For the
ring, a step adds a line in front of the list that `history_get` walks and moves
the others one place back, by cases on where the write index and the wrap are
(`RecentRecalled`).

Of the shell it proves, for lines of every length, that the two loops of
`parse.c` are what the model says they are (`ReadTokenIs`, `ParseLineIs`: a function
defined from later positions exists by induction from the end of the line,
`DownInduction`), that the words of a line with their nulls fit in `argbuf`, that
each sentence begins behind the one before (`SentencesAdvance`), and that the
name a sentence is looked up by is a string a token has been written to
(`NameWritten`): after an empty rest it is an old name, never an uninitialised
one.  The invariant is `ShellInv`; `ArgbufWritten` in it says that what has been
written to `argbuf` ends with a null, and that something has been once a first sentence is parsed.

`RunsWhatWasTypedCorrect` is that the shell does what `CommandLine` says, for
lines of every length.  The two are far apart: one scans the line from a
position and packs what it finds into a buffer, the other takes sets of
positions and lists what stands at them (`InOrder`).  The proof meets them at a
position.  `OrderFrom` is the listing from a position on, with a lemma for each
way it can go on (`OrderSkips`, `OrderTakes`, `OrderPasses`), and from the end of the line
to its start it is shown that a token read where the quote is the one `Within` has
is the rest of the word there (`Reads`, `ReadFromMeans`), and that a sentence
parsed where there is no quote is the words up to the next end of a command,
or an error if none ends (`Says`, `ParseFromMeans`).  The invariant is
`LineSoFar`: the parse goes on behind a separator, and what has been run followed by
what the line still means from there is what it means as a whole.  The theorem
is as strong as the property: nothing is claimed of what stands behind an empty
sentence, nor after an overrun of `argv`; that one takes a line of two characters for
each entry is by the same induction from the end of the line (`Entries`, `ArgvIs`).

`UsbMassProofs` proves that the command in the receive buffer is not touched
while it is decoded.  `rxReady` protects the buffer, and the invariant `IInv` says
where it may be down: it is up whenever the state machine is between its
acceptance and its last use, except after a reset, after which no packet
arrives before the main loop has come to rest.  That needs the host's phases, since a
reset lets the flag down in the middle of a decoding.

The refinement of `BulkOnly` is proved for every set of commands, every set of
tags and any number of resets and control requests, if `Reliable` is as said
above (`MassAssumption`).  Its invariants build on each other.  `ShapeInv` adds to `IInv`
where the writer, the loop and a control request may be together.
`CommandInv`: there is at most one CBW the loop has not read, and it is the
host's latest; there is no answer to a command before it is decoded, and none to a WRITE.  It
rests on `FreshTagIsFresh`: a tag taken for a new command is on no old chunk, so
that answers from before a reset are not mistaken for new ones.
`Answering` takes all the host has received, what lies in the FIFO, in the
packet being loaded and in the list still to be loaded, and what the loop has
yet to hand over as one sequence of chunks (`Stream`), and says that it ends
with data and status of the command, with no answer to it before; a packet
loaded but not marked ready keeps its place in it.  A step moves chunks
inside the sequence and does not change it, so what the host takes for the
answer is right (`AnswerIsRight`).  The FIFO holds packets of several
chunks; their concatenation is a function along the queue (`IsFlat`), with
an induction over sets of numbers (`SetInduction`) where its length matters.
`CalmInv` is the course of a command that nothing has disturbed, from `Sent` to
`StatusGoing`, with the endpoint index and the pending interrupts at each
place; the host's timeout and its error handling are impossible there
but for WRITE and READ of two packets (`GivesUp`).

`SdCardProofs` proves the refinement for every card size, chunk length,
number of retries and of faults.  `IInv` has, beside the types, what the
driver is doing in a call (`CallsOK`), how far a card is that has been asked
to power up (`PoweringOK`), that a card which is not idle is the one the
capacity was read from (`AddressOK`), and that the blocks read so far are the
ones asked for (`ReadOK`).  The assumption `"opCond" \notin Lossy` is needed:
without it the driver addresses a high-capacity card by bytes.
`Works` is proved under the same assumption and two on the limits,
`MaxBusy < Retries` and `StatusTries > 0`, without which a slow card fails
without a fault.  Its invariant `CalmOK` speaks of the calls since which nothing
went wrong: the card is in the state the next command needs, it is of the kind the
driver takes it for, and the loops have tries left.

`BootProofs` follows the load from file to file: which files are whole, and
of the card that is ready, at each place of `load_sdcard`, and that what a
finished load left stays until the next one begins.

`DiskCacheProofs` proves the refinement for every set of cards and hosts and every
size, under `Fits`: the cache is whole chunks, and their bits fill the entries
of the bitmap.  That a bit stands for one chunk and no other (`OneBit`) is
arithmetic of quotients and remainders.  `CacheOK` says that a valid chunk is
one of a card in use at the host read last since another one was; for that to
survive a read that fails half-way, `DriverOK` has that the chunk being loaded is
not valid.  `CallOK` says that what has been copied is the beginning of the answer.
Cards may be exchanged at any time there.  `ExactWithoutExchange` adds what is
missing to `ReadsCardFound`: as long as the card found at a host read last is
the one that was in use there (`NoExchange`), a read delivers the card found, so
that an exchange is the only way to tell the cache from the card.

`Fits` excludes boards of the repository: six have a cache of 0xFFFFFFF or
0xFFFFFF bytes, one short of whole chunks, and a bitmap that is rounded down
(see the findings).  `StaysInside` and `BitmapEnough` are about the others.

Every invariant the passing runs check is proved.  Only model-checked are the
liveness properties, which need fairness and ENABLED and are out of the
prover's reach.

## Findings

`PROJECT.json` lists two with the runs that show them: a block lost by
`srealloc` (`smalloc.c:100`), and a FatFs cache that survives the exchange of
a card.  The boards built with the cache ship `reload`, "rescan TF Card and
reload DTB" (`board/avaota-a1/syter_boot/main.c:285`), which calls `sdmmc_init`
on the same host and reads the files; the bitmap is cleared for another host only
(`diskio.c:90`), so files of a card put in since are read from the old card's
sectors as far as those are cached.

Other places where code and text differ, or where the code does what nobody
can have meant, seen while modelling and kept as they are in the models:

RPMsg echo
- A message that arrives while the host has not reposted a TX buffer is
  returned without an echo (`main.c:436`); the comment of line 377 says that
  the payload is echoed.
- `msgbox_poll` can return 1 with a vqid from an empty FIFO, because the read
  without a pending bit dropped the word (`main.c:215`); the comment of line 194
  says 1 means a message.  Only the value of later kicks depends on it.
- `rpmsg_sendto` kicks with the vqid of the kick that woke the firmware;
  line 345 says the vqid is 0.
- A buffer outside the shared memory ends the loop (`main.c:411`): the messages behind it wait
  for the next kick, so that `FirmwareWillLook` fails with such buffers.

Heap and command line
- `srealloc` adds `num_bytes` to the size (`smalloc.c:83`), which
  `smalloc.h:40` calls the new size.
- Ctrl-K with nothing behind the cursor empties the clipboard
  (`lineedit.c:186`), after the comment "nothing to kill".
- The `history` command, "show all history command" (`commands.c:111`), counts
  down from the write index of the ring: its first line is
  `history_get(count)`, NULL, before the ring is full, and it shows only the
  lines up to the index afterwards (`commands.c:71`).
- After a line that ends with a separator the shell parses the empty rest,
  and `argv[0]` is still the last command's name: "ls;" runs `ls` and then
  reports it as not found (`shell.c:58`, `parse.c:121`).
- A sentence behind an empty one is dropped (`shell.c:58`, "empty input line"):
  of ";a" and "a;;b" only what stands before the empty one is run, although
  `parse.c:126` says "Skip preceeding spaces or ';'".
- A command that returns a negative result is reported as not found
  (`shell.c:78`; `write32` does, `commands.c:61`).
- `msh_parse_line` does not compare argc with `MSH_CMDARGS_MAX`
  (`parse.c:179`; "maximum argument a commandline can hold, i.e., max of argc
  value", `cli_config.h:14`).  A 16th word with a space behind it already writes
  `argv[16]`, behind the array of `shell.c:25`.

USB
- The interrupt handler saves the endpoint index in `old_ep_index`
  (`usb.c:706`, "Save index") and restores `old_ep_idx`, which is 0
  (`usb.c:803`).  A control request while a packet is being sent can cost the
  packet.
- A READ of more than one packet loses packets: the interrupt of the one that
  left comes while the next is being loaded.
- `if (!card0.online)` reads (`usb_mass.c:730`), and nothing sets `online`.
- A READ that fails sends what the buffer holds, with status 1.
- A WRITE ends in a state only a bus reset leaves (`usb_mass.c:777`), and the
  Bulk-Only reset of the class is stalled.
- `sunxi_usb_mass_write_enable` is written and never read.

SD/MMC
- A lost answer to ACMD41 leaves the power-up loop as a success (`sys-sdcard.c:281`), with
  the answer of CMD55 as the operating conditions: `high_capacity` is then
  FALSE, and block n is read from block n * 512 ("The starting block number to
  read from", `sys-sdcard.h`).
- SD 1.x cards are never found: they do not answer CMD8, and
  `sd_send_op_cond` then returns (line 252) before it could take them for
  version 1.0 (line 290).
- `sdmmc_blk_read` returns blocks; its header says bytes.
- `sdmmc_write_blocks` of several blocks returns 0 also when it succeeds
  (lines 440-447).

Boot program
- Without arguments in the configuration, " mem=...M" is appended to the
  property inside the tree (`main.c:320`) and overwrites what follows it.  Run
  with the repository's libfdt, the next property is lost and nodes behind it
  are no longer found.
- An error in `load_sdcard` returns without unmounting (`main.c:149`, 160,
  166): FatFs keeps a pointer to a volume object on the stack and the next
  mount writes through it.
- `reload` ("rescan TF Card and reload DTB, Kernel zImage") does not update the boot arguments; a reload that
  fails leaves `is_config` set and the configuration overwritten by the speed
  test.
- An error while the configuration is read counts as no configuration
  (`main.c:171`).  The file is taken to end with a null.
- The heap, 16 MB from 0x40800000, contains the tree's load address.
- A FatFs cache of 0xFFFFFFF bytes (`cmake/board/avaota-a1.cmake:16`) or 0xFFFFFF
  is not a whole number of chunks: the last chunk is loaded one byte past its
  end (`diskio.c:113`), although "we can consume up to CONFIG_FATFS_CACHE_SIZE of
  SDRAM" (`diskio.c:20`), and the bitmap of 8191 / 8 bytes has no bit for the
  last eight chunks.  `StaysInCache` fails with `CacheBytes` one less in
  `MCDiskCache.cfg`; the theorems exclude it by `Fits`.
- `avaota-a1.cmake` and `mcore-r818.cmake` put the cache at 0x4400000, the
  boards' SDRAM starts at 0x40000000; the comment of `diskio.c:20` says SDRAM.
- A failed ELF load is printed, and the coprocessor released
  (`load_c906/main.c:199`, `load_hifi4/main.c:207`).

## Not modelled

- Vendored code: FatFs, libfdt, the FreeRTOS kernel and its ports, CoreMark,
  the C libraries.  FatFs and libfdt appear as what the boot program uses of
  them.
- Chip drivers (DRAM, clock, PMU, NAND, UFS ...), whose correctness lies in
  hardware the repository does not describe; register headers.  These and the
  vendored code are most of the repository's lines.
- The ELF loader and the user-space clients, straight-line code without state
  of their own, and the programs that load the coprocessors.
- Host unbind and re-probe of the rpmsg device: the firmware has no code for
  it (`vrings_synced` and `ns_sent` are never reset, `main.c:490`).
- Of the USB controller: suspend and resume, the other functions (fastboot,
  detect), contents of descriptors.  Of the SD driver: writing, which only
  speed tests on other boards call (FatFs is built read-only); the SPI
  branches; clocks and voltages; DMA descriptors.
- Lengths and addresses of buffers beyond what is named above; sums in 32 bits.
