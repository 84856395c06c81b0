----------------------------- MODULE DiskCache -----------------------------
(***************************************************************************)
(* disk_read of FatFs' glue to the card driver (lib/fatfs/diskio.c) in a   *)
(* build with a cache: memory in which every sector of the beginning of    *)
(* the card has its place, filled chunk by chunk, and a bitmap that says   *)
(* which chunks are there.  The boards that have one use card0 for the     *)
(* card of one host controller and then for that of another.               *)
(*                                                                         *)
(* The card driver is what BlockDevice promises, its slot the one of the   *)
(* host in use.  At any time the card may be taken out, put back or        *)
(* exchanged for another.                                                  *)
(***************************************************************************)
EXTENDS Integers, Sequences

CONSTANTS
    Cards, NoCard,
    Hosts, NoHost,
    Size,           \* of every card, in sectors
    MaxCount,       \* of sectors FatFs asks for at once
    CacheBytes,     \* CONFIG_FATFS_CACHE_SIZE
    SectorBytes,    \* FF_MIN_SS
    ChunkSectors,   \* FATFS_CACHE_SECTORS_PER_BIT
    ByteBits        \* bits of an entry of the bitmap

\* The sizes of cards are multiples of a chunk, 32 KB.
ASSUME DiskAssumption ==
    /\ NoCard \notin Cards
    /\ NoHost \notin Hosts
    /\ {Size, MaxCount, CacheBytes, SectorBytes, ChunkSectors, ByteBits} \subseteq Nat \ {0}
    /\ Size % ChunkSectors = 0

VARIABLES
    slot, ready, op, result,    \* the card driver
    hci,            \* card0.hci
    noInit,         \* STA_NOINIT
    cacheHost,      \* current_cache_sdhci_id
    bitmap,         \* cache_bitmap
    cache,          \* cache_data, by sector
    sector, count,  \* the arguments of disk_read, advanced
    buff,           \* what has been written to its buffer
    pc,
    request, faulty, answer,    \* history: of the call in progress and of the last one,
    found,          \* history: the card sdmmc_init has found at hci,
    served          \* history: those in use at the reads since the bitmap was cleared

deviceVars == <<slot, ready, op, result>>
cacheVars == <<cacheHost, bitmap, cache>>
callVars == <<sector, count, buff>>
historyVars == <<request, faulty, answer>>
vars == <<deviceVars, hci, noInit, cacheVars, callVars, pc, historyVars, found, served>>

Device == INSTANCE BlockDevice

Promise == INSTANCE Disk WITH
    Media <- Cards, NoMedium <- NoCard,
    host <- hci, medium <- found, readHost <- cacheHost, media <- served,
    mounted <- ~noInit

\* FATFS_CACHE_SECTORS, FATFS_CACHE_CHUNKS, and the size of cache_bitmap
CacheSectors == CacheBytes \div SectorBytes
CacheChunks  == CacheSectors \div ChunkSectors
BitmapSize   == CacheChunks \div ByteBits

SectorToOffset(s) == (s \div ChunkSectors) \div ByteBits
SectorToBit(s)    == (s \div ChunkSectors) % ByteBits

\* Mistaken: a chunk is read from the sector that is missing on.
ChunkAt(s) == s

ChunkOf(s) == s - (s % ChunkSectors)

NoChunks == [i \in 0 .. BitmapSize - 1 |-> {}]

\* What the bit of a sector may be read as; nobody knows what lies behind the bitmap.
OutsideBitmap(s) == SectorToOffset(s) >= BitmapSize
ValidBit(s) ==
    IF OutsideBitmap(s) THEN BOOLEAN
    ELSE {SectorToBit(s) \in bitmap[SectorToOffset(s)]}
SetValid(s) ==
    bitmap' = IF OutsideBitmap(s) THEN bitmap
              ELSE [bitmap EXCEPT ![SectorToOffset(s)] = @ \cup {SectorToBit(s)}]

Init ==
    /\ Device!Init /\ slot = NoCard
    /\ hci = NoHost
    /\ noInit = TRUE
    /\ cacheHost = NoHost
    /\ bitmap = NoChunks
    /\ cache = [s \in 0 .. Size - 1 |-> <<>>]
    /\ sector = 0 /\ count = 0 /\ buff = <<>>
    /\ pc = "idle"
    /\ request = Promise!NoRequest /\ faulty = FALSE /\ answer = Promise!NoAnswer
    /\ found = NoCard /\ served = {}

-----------------------------------------------------------------------------
(* The card in use                                                         *)

\* sdmmc_init(&card0, &sdhci) sets the host and looks for a card in its slot.
Select(h) ==
    /\ pc = "idle"
    /\ hci' = h
    /\ \E c \in Cards \cup {NoCard} : Device!Insert(c)
    /\ pc' = "init"
    /\ found' = NoCard
    /\ UNCHANGED <<noInit, cacheVars, callVars, historyVars, served>>

CallInit ==
    /\ pc = "init"
    /\ Device!CallInit
    /\ UNCHANGED <<hci, noInit, cacheVars, callVars, pc, historyVars, found, served>>

InitDone ==
    /\ pc = "init"
    /\ \/ Device!Find /\ found' = slot
       \/ Device!Fail /\ UNCHANGED found
    /\ pc' = "idle"
    /\ UNCHANGED <<hci, noInit, cacheVars, callVars, historyVars, served>>

\* A card is put into the slot in use or taken out of it.
Insert ==
    /\ \E c \in Cards \cup {NoCard} : c # slot /\ Device!Insert(c)
    /\ UNCHANGED <<hci, noInit, cacheVars, callVars, pc, historyVars, found, served>>

\* disk_initialize
Initialize ==
    /\ pc = "idle"
    /\ noInit' = FALSE
    /\ UNCHANGED <<deviceVars, hci, cacheVars, callVars, pc, historyVars, found, served>>

-----------------------------------------------------------------------------
(* disk_read                                                               *)

\* Mistaken: the cache is kept when another host is used.
KeepBitmap == UNCHANGED bitmap /\ cacheHost' = hci

\* The first read, and the first after another host, clears the bitmap.
CheckHost ==
    /\ bitmap' = IF cacheHost # hci THEN NoChunks ELSE bitmap
    /\ cacheHost' = hci

\* The card in use is one of those whose sectors the cache may hold from now on.
Serve == served' = (IF cacheHost = hci THEN served ELSE {}) \cup ({found} \ {NoCard})

Read(n, cnt) ==
    /\ pc = "idle"
    /\ hci # NoHost
    /\ sector' = n /\ count' = cnt /\ buff' = <<>>
    /\ IF noInit THEN pc' = "notReady" /\ UNCHANGED <<bitmap, cacheHost, served>>
       ELSE pc' = "loop" /\ CheckHost /\ Serve
    /\ request' = Promise!Request(n, cnt)
    /\ faulty' = FALSE
    /\ answer' = Promise!NoAnswer
    /\ UNCHANGED <<deviceVars, hci, noInit, cache, found>>

Return(a) ==
    /\ pc' = "idle"
    /\ request' = Promise!NoRequest
    /\ answer' = a
    /\ sector' = 0 /\ count' = 0 /\ buff' = <<>>
    /\ UNCHANGED <<hci, noInit, found, served>>

NotReady ==
    /\ pc = "notReady"
    /\ Return(Promise!Failed)
    /\ UNCHANGED <<deviceVars, cacheVars, faulty>>

BeyondCache == sector >= CacheSectors

\* The rest of the request lies behind the cached part of the card.
ReadRest ==
    /\ pc = "loop" /\ count > 0
    /\ BeyondCache
    /\ Device!CallRead /\ op' = Device!ReadOp(sector, count)
    /\ pc' = "rest"
    /\ UNCHANGED <<hci, noInit, cacheVars, callVars, historyVars, found, served>>

\* Mistaken: the sector is copied and not counted.
CopyStuck(data) == buff' = Append(buff, data) /\ UNCHANGED <<sector, count>>

Copy(data) ==
    /\ buff' = Append(buff, data)
    /\ sector' = sector + 1
    /\ count' = count - 1

Hit ==
    /\ pc = "loop" /\ count > 0
    /\ ~BeyondCache
    /\ TRUE \in ValidBit(sector)
    /\ Copy(cache[sector])
    /\ UNCHANGED <<deviceVars, hci, noInit, cacheVars, pc, historyVars, found, served>>

Miss ==
    /\ pc = "loop" /\ count > 0
    /\ ~BeyondCache
    /\ FALSE \in ValidBit(sector)
    /\ Device!CallRead /\ op' = Device!ReadOp(ChunkOf(sector), ChunkSectors)
    /\ pc' = "fill"
    /\ UNCHANGED <<hci, noInit, cacheVars, callVars, historyVars, found, served>>

Filled ==
    /\ pc = "fill"
    /\ Device!Deliver
    /\ cache' = [s \in 0 .. Size - 1 |->
                    IF ChunkOf(s) = op.start THEN result'.data[s - op.start + 1] ELSE cache[s]]
    /\ SetValid(sector)
    /\ Copy(cache'[sector])
    /\ pc' = "loop"
    /\ UNCHANGED <<hci, noInit, cacheHost, historyVars, found, served>>

RestRead ==
    /\ pc = "rest"
    /\ Device!Deliver
    /\ Return(Promise!Succeeded(buff \o result'.data))
    /\ UNCHANGED <<cacheVars, faulty>>

\* The driver fails: RES_ERROR.  It may have written part of a chunk.
DriverFails ==
    /\ pc \in {"fill", "rest"}
    /\ Device!Fail
    /\ pc' = "failed"
    /\ faulty' = TRUE
    /\ \/ UNCHANGED cache
       \/ /\ pc = "fill"
          /\ cache' = [s \in 0 .. Size - 1 |-> IF ChunkOf(s) = op.start THEN <<>> ELSE cache[s]]
    /\ UNCHANGED <<hci, noInit, cacheHost, bitmap, callVars, request, answer, found, served>>

ReturnError ==
    /\ pc = "failed"
    /\ Return(Promise!Failed)
    /\ UNCHANGED <<deviceVars, cacheVars, faulty>>

ReturnOk ==
    /\ pc = "loop" /\ count = 0
    /\ Return(Promise!Succeeded(buff))
    /\ UNCHANGED <<deviceVars, cacheVars, faulty>>

Next ==
    \/ \E h \in Hosts : Select(h)
    \/ CallInit \/ InitDone \/ Insert \/ Initialize
    \/ \E n \in 0 .. Size - 1, cnt \in 1 .. MaxCount : n + cnt <= Size /\ Read(n, cnt)
    \/ NotReady \/ ReadRest \/ Hit \/ Miss \/ Filled \/ RestRead
    \/ DriverFails \/ ReturnError \/ ReturnOk

Spec == Init /\ [][Next]_vars

-----------------------------------------------------------------------------
(* Properties                                                              *)

Sectors == Cards \X (0 .. Size - 1)

\* Every variable keeps to its range, and what has been written and what is
\* still to come make up the request.
TypeOK ==
    /\ slot \in Cards \cup {NoCard}
    /\ ready \in Cards \cup {NoCard}
    /\ op \in Device!ReadOps \cup {Device!InitOp, Device!NoOp}
    /\ hci \in Hosts \cup {NoHost}
    /\ cacheHost \in Hosts \cup {NoHost}
    /\ noInit \in BOOLEAN
    /\ bitmap \in [0 .. BitmapSize - 1 -> SUBSET (0 .. ByteBits - 1)]
    /\ cache \in [0 .. Size - 1 -> Sectors \cup {<<>>}]
    /\ pc \in {"idle", "init", "notReady", "loop", "fill", "rest", "failed"}
    /\ sector \in 0 .. Size
    /\ count \in 0 .. MaxCount
    /\ buff \in Seq(Sectors \cup {<<>>})
    /\ request.cnt = Len(buff) + count
    /\ request # Promise!NoRequest => sector = request.start + Len(buff)
    /\ faulty \in BOOLEAN
    /\ found \in Cards \cup {NoCard}
    /\ served \subseteq Cards

\* Chunks are read into the memory set aside for the cache and no other ("we can
\* consume up to CONFIG_FATFS_CACHE_SIZE of SDRAM", line 20).
StaysInCache == pc = "fill" => (op.start + op.cnt) * SectorBytes <= CacheBytes

\* The bitmap has a bit for every sector that is looked for in the cache.
BitmapCovers == pc \in {"loop", "fill"} /\ count > 0 /\ ~BeyondCache => ~OutsideBitmap(sector)

\* Whichever hosts are used in turn, whatever is put into their slots and
\* whatever reads of a chunk fail: FatFs gets the sectors it has asked for, never
\* one of a card that was read at another host, and an error only if the driver has
\* failed.  The bitmap is cleared when the host is another and only then
\* (diskio.c:90), so that a sector may be that of a card that has been exchanged
\* since for the one in use: ReadsCardFound does not hold.
ImplementsDisk == Promise!Spec

\* What disk_read delivers is all of the card that sdmmc_init has found last, as
\* reload, "rescan TF Card and reload DTB" (board/avaota-a1/syter_boot/main.c:285),
\* has to rely on: it calls sdmmc_init again and reads the files of the card.
Delivers == request # Promise!NoRequest /\ request' = Promise!NoRequest /\ answer'.ok
AllOf(c) == [i \in 1 .. request.cnt |-> c]
ReadsCardFound ==
    [][Delivers /\ found # NoCard =>
          answer'.data = Promise!Sectors(AllOf(found), request)]_vars

\* A card found at the host that was read last is the one that was in use there:
\* cards are not exchanged between two reads.
NoExchange == [][found' # found /\ found' # NoCard /\ hci = cacheHost => served \subseteq {found'}]_vars
=============================================================================
