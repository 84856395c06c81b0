-------------------------- MODULE DiskCacheProofs --------------------------
(***************************************************************************)
(* What disk_read and its cache guarantee for any cards, hosts and sizes,  *)
(* if the memory set aside for the cache is a whole number of bytes of the *)
(* bitmap: the right sectors, and of a card that was in use at this host   *)
(* since another was read; of the card in use if cards are not exchanged.  *)
(* What has to be shown invariant is that a bit stands for one chunk, and  *)
(* that a chunk whose bit is set is that of such a card.                   *)
(***************************************************************************)
EXTENDS DiskCache, TLAPS

\* The memory is made of whole chunks, and the chunks fill the bytes of the bitmap.
Fits == CacheSectors % ChunkSectors = 0 /\ CacheChunks % ByteBits = 0

-----------------------------------------------------------------------------
(* Chunks and bits                                                         *)

LEMMA Quotient ==
    ASSUME NEW a \in Nat, NEW n \in Nat \ {0}
    PROVE  /\ a \div n \in Nat
           /\ a % n \in 0 .. n - 1
           /\ a = n * (a \div n) + (a % n)
OBVIOUS

LEMMA QuotientLess ==
    ASSUME NEW a \in Nat, NEW n \in Nat \ {0}, NEW b \in Nat, a < n * b
    PROVE  a \div n < b
OBVIOUS

LEMMA SizesOK ==
    /\ Size \in Nat \ {0} /\ MaxCount \in Nat \ {0} /\ CacheBytes \in Nat \ {0}
    /\ SectorBytes \in Nat \ {0} /\ ChunkSectors \in Nat \ {0} /\ ByteBits \in Nat \ {0}
    /\ CacheSectors \in Nat /\ CacheChunks \in Nat /\ BitmapSize \in Nat
BY DiskAssumption, Quotient DEF CacheSectors, CacheChunks, BitmapSize

LEMMA MulEq ==
    ASSUME NEW a \in Nat, NEW b \in Nat, NEW n \in Nat \ {0}, n * a = n * b
    PROVE  a = b
OBVIOUS

LEMMA ChunkBounds ==
    ASSUME NEW s \in Nat
    PROVE  ChunkOf(s) \in Nat /\ s - ChunkOf(s) \in 0 .. ChunkSectors - 1
<1>1. /\ s \div ChunkSectors \in Nat
      /\ s % ChunkSectors \in 0 .. ChunkSectors - 1
      /\ s = ChunkSectors * (s \div ChunkSectors) + (s % ChunkSectors)
  BY SizesOK, Quotient
<1>2. ChunkSectors * (s \div ChunkSectors) \in Nat
  BY <1>1, SizesOK
<1>. QED BY <1>1, <1>2, SizesOK DEF ChunkOf

\* A bit stands for one chunk.
LEMMA OneBit ==
    ASSUME NEW s \in Nat, NEW t \in Nat
    PROVE  ChunkOf(s) = ChunkOf(t) <=> /\ SectorToOffset(s) = SectorToOffset(t)
                                       /\ SectorToBit(s) = SectorToBit(t)
<1>. DEFINE qs == s \div ChunkSectors
            qt == t \div ChunkSectors
<1>1. /\ qs \in Nat /\ s = ChunkSectors * qs + (s % ChunkSectors)
      /\ qt \in Nat /\ t = ChunkSectors * qt + (t % ChunkSectors)
      /\ s % ChunkSectors \in Nat /\ t % ChunkSectors \in Nat
  BY SizesOK, Quotient
<1>2. ChunkOf(s) = ChunkSectors * qs /\ ChunkOf(t) = ChunkSectors * qt
  BY <1>1, SizesOK DEF ChunkOf
<1>3. ChunkOf(s) = ChunkOf(t) => qs = qt
  BY <1>1, <1>2, SizesOK, MulEq
<1>4. /\ qs = ByteBits * (qs \div ByteBits) + (qs % ByteBits)
      /\ qt = ByteBits * (qt \div ByteBits) + (qt % ByteBits)
  BY <1>1, SizesOK, Quotient
<1>. HIDE DEF qs, qt
<1>5. SectorToOffset(s) = SectorToOffset(t) /\ SectorToBit(s) = SectorToBit(t) => qs = qt
  BY <1>4 DEF SectorToOffset, SectorToBit, qs, qt
<1>6. qs = qt => SectorToOffset(s) = SectorToOffset(t) /\ SectorToBit(s) = SectorToBit(t)
  BY DEF SectorToOffset, SectorToBit, qs, qt
<1>. QED BY <1>2, <1>3, <1>5, <1>6

LEMMA InsideBitmap ==
    ASSUME Fits, NEW s \in Nat, s < CacheSectors
    PROVE  SectorToOffset(s) \in 0 .. BitmapSize - 1 /\ ~OutsideBitmap(s)
<1>1. CacheSectors = ChunkSectors * CacheChunks
  BY SizesOK, Quotient DEF Fits, CacheChunks
<1>2. CacheChunks = ByteBits * BitmapSize
  BY SizesOK, Quotient DEF Fits, BitmapSize
<1>3. s \div ChunkSectors \in Nat /\ s \div ChunkSectors < CacheChunks
  BY <1>1, SizesOK, Quotient, QuotientLess
<1>4. SectorToOffset(s) \in Nat /\ SectorToOffset(s) < BitmapSize
  BY <1>2, <1>3, SizesOK, Quotient, QuotientLess DEF SectorToOffset
<1>. QED BY <1>4, SizesOK DEF OutsideBitmap

LEMMA ChunkInside ==
    ASSUME Fits, NEW s \in Nat, s < CacheSectors
    PROVE  (ChunkOf(s) + ChunkSectors) * SectorBytes <= CacheBytes
<1>. DEFINE q == s \div ChunkSectors
<1>1. CacheSectors = ChunkSectors * CacheChunks
  BY SizesOK, Quotient DEF Fits, CacheChunks
<1>2. q \in Nat /\ q < CacheChunks
  BY <1>1, SizesOK, Quotient, QuotientLess
<1>3. ChunkOf(s) = ChunkSectors * q
  BY SizesOK, Quotient DEF ChunkOf
<1>4. CacheBytes >= SectorBytes * CacheSectors
  BY SizesOK, Quotient DEF CacheSectors
<1>. HIDE DEF q
<1>5. ChunkSectors * q + ChunkSectors = ChunkSectors * (q + 1)
  BY <1>2, SizesOK
<1>6. ChunkSectors * (q + 1) <= ChunkSectors * CacheChunks
  <2>1. PICK k \in Nat : CacheChunks = q + 1 + k
    BY <1>2, SizesOK
  <2>2. ChunkSectors * CacheChunks = ChunkSectors * (q + 1) + ChunkSectors * k
    BY <2>1, <1>2, SizesOK
  <2>. QED BY <2>1, <2>2, <1>2, SizesOK
<1>7. ChunkOf(s) + ChunkSectors \in Nat /\ ChunkOf(s) + ChunkSectors <= CacheSectors
  BY <1>1, <1>2, <1>3, <1>5, <1>6, SizesOK
<1>8. (ChunkOf(s) + ChunkSectors) * SectorBytes <= SectorBytes * CacheSectors
  BY <1>7, SizesOK
<1>. QED BY <1>4, <1>7, <1>8, SizesOK

-----------------------------------------------------------------------------
(* The invariant                                                           *)

InCall == pc \in {"notReady", "loop", "fill", "rest", "failed"}

CardOK == ready \in {found, NoCard}

\* A valid bit stands for a chunk of a card that has been in use since the bitmap
\* was cleared.
Cached(s) ==
    /\ s < CacheSectors
    /\ SectorToBit(s) \in bitmap[SectorToOffset(s)]

FromServed(data, s) == \E c \in served : data = <<c, s>>
CacheOK == \A s \in 0 .. Size - 1 : Cached(s) => FromServed(cache[s], s)

\* What the driver has been asked for
DriverOK ==
    /\ pc \in {"idle", "notReady", "loop", "failed"} => op = Device!NoOp
    /\ pc = "init" => op \in {Device!NoOp, Device!InitOp}
    /\ pc = "rest" => op = Device!ReadOp(sector, count)
    /\ pc = "fill" => /\ op = Device!ReadOp(ChunkOf(sector), ChunkSectors)
                      /\ sector < CacheSectors
                      /\ ~Cached(sector)

\* The part of the request that is done has been done right.
CopiedOK == \A i \in 1 .. Len(buff) : FromServed(buff[i], request.start + i - 1)

CallOK ==
    /\ ~InCall => request = Promise!NoRequest /\ count = 0 /\ buff = <<>>
    /\ InCall => /\ hci # NoHost
                 /\ request.start \in 0 .. Size - 1
                 /\ request.start + request.cnt <= Size
                 /\ request = Promise!Request(request.start, request.cnt)
                 /\ request.cnt \in 1 .. MaxCount
                 /\ CopiedOK
    /\ pc \in {"loop", "fill", "rest", "failed"} =>
          /\ cacheHost = hci /\ ~noInit
          /\ found # NoCard => found \in served
    /\ pc \in {"fill", "rest"} => count > 0
    /\ pc = "notReady" => noInit
    /\ pc = "failed" => faulty

IInv == TypeOK /\ CardOK /\ CacheOK /\ DriverOK /\ CallOK

-----------------------------------------------------------------------------
(* The card in use                                                         *)

LEMMA Names == NoCard \notin Cards /\ NoHost \notin Hosts
BY DiskAssumption

PromiseStep == Promise!Next \/ UNCHANGED Promise!vars

LEMMA FirstState == ASSUME Fits, Init PROVE IInv /\ Promise!Init
<1>. USE Names, SizesOK DEF Init
<1>1. slot = NoCard /\ ready = NoCard /\ op = Device!NoOp
  BY DEF Device!Init
<1>2. TypeOK
  <2>1. bitmap \in [0 .. BitmapSize - 1 -> SUBSET (0 .. ByteBits - 1)]
    BY DEF NoChunks
  <2>2. cache \in [0 .. Size - 1 -> Sectors \cup {<<>>}]
    OBVIOUS
  <2>3. request.cnt = 0 /\ Len(buff) = 0 /\ buff \in Seq(Sectors \cup {<<>>})
    BY DEF Promise!NoRequest, Promise!Request
  <2>4. /\ request.cnt = Len(buff) + count
        /\ sector \in 0 .. Size /\ count \in 0 .. MaxCount
    BY <2>3
  <2>5. request = Promise!NoRequest
    OBVIOUS
  <2>. QED BY <1>1, <2>1, <2>2, <2>3, <2>4, <2>5 DEF TypeOK
<1>3. CardOK
  BY <1>1 DEF CardOK
<1>4. CacheOK
  <2>1. ASSUME NEW x \in 0 .. Size - 1, Cached(x) PROVE FALSE
    BY <2>1, InsideBitmap DEF Cached, NoChunks
  <2>. QED BY <2>1 DEF CacheOK
<1>5. DriverOK /\ CallOK
  BY <1>1 DEF DriverOK, CallOK, InCall
<1>6. Promise!Init
  BY DEF Promise!Init, Promise!NoAnswer
<1>. QED BY <1>2, <1>3, <1>4, <1>5, <1>6 DEF IInv

\* Steps that leave the cache and the call alone
LEMMA CacheUntouched ==
    ASSUME CacheOK, UNCHANGED <<cacheVars, served>>
    PROVE  CacheOK'
BY DEF CacheOK, Cached, FromServed, cacheVars

\* Steps that leave the call alone
LEMMA CopyUntouched ==
    ASSUME CopiedOK, UNCHANGED <<buff, request, served>>
    PROVE  CopiedOK'
BY DEF CopiedOK, FromServed

\* Steps the promise does not see
LEMMA Unseen ==
    ASSUME UNCHANGED <<hci, found, cacheHost, served, noInit, request, faulty, answer>>
    PROVE  PromiseStep
BY DEF PromiseStep, Promise!vars, Promise!driveVars, Promise!runVars

LEMMA SelectStep ==
    ASSUME IInv, NEW h \in Hosts, Select(h) PROVE IInv' /\ PromiseStep
<1>. USE Names
<1>. DEFINE rest == <<noInit, cacheVars, callVars, historyVars, served>>
<1>1. PICK c \in Cards \cup {NoCard} :
         slot' = c /\ ready' = NoCard /\ UNCHANGED <<op, result>>
  BY DEF Select, Device!Insert
<1>2. hci' = h /\ found' = NoCard /\ pc = "idle" /\ pc' = "init" /\ UNCHANGED rest
  BY DEF Select
<1>3. TypeOK'
  BY <1>1, <1>2 DEF IInv, TypeOK, cacheVars, callVars, historyVars
<1>4. CacheOK'
  BY <1>2, CacheUntouched DEF IInv
<1>5. CardOK' /\ DriverOK' /\ CallOK'
  BY <1>1, <1>2 DEF IInv, CardOK, DriverOK, CallOK, InCall, callVars, historyVars
<1>6. Promise!Select
  BY <1>2 DEF Promise!Select, Promise!runVars, IInv, CallOK, InCall, cacheVars, historyVars
<1>. QED BY <1>3, <1>4, <1>5, <1>6 DEF IInv, PromiseStep, Promise!Next

LEMMA CallInitStep ==
    ASSUME IInv, CallInit PROVE IInv' /\ PromiseStep
<1>1. /\ op' = Device!InitOp /\ ready' = NoCard /\ pc = "init"
      /\ UNCHANGED <<slot, result, hci, noInit, cacheVars, callVars, pc, historyVars, found, served>>
  BY DEF CallInit, Device!CallInit
<1>2. TypeOK'
  BY <1>1 DEF IInv, TypeOK, cacheVars, callVars, historyVars
<1>3. CacheOK'
  BY <1>1, CacheUntouched DEF IInv
<1>4. CardOK' /\ DriverOK' /\ CallOK'
  BY <1>1 DEF IInv, CardOK, DriverOK, CallOK, InCall, callVars, historyVars
<1>5. PromiseStep
  BY <1>1, Unseen DEF cacheVars, historyVars
<1>. QED BY <1>2, <1>3, <1>4, <1>5 DEF IInv

LEMMA InitDoneStep ==
    ASSUME IInv, InitDone PROVE IInv' /\ PromiseStep
<1>1. /\ op' = Device!NoOp /\ pc = "init" /\ pc' = "idle"
      /\ \/ slot # NoCard /\ ready' = slot /\ found' = slot
         \/ UNCHANGED <<ready, found>>
      /\ UNCHANGED <<slot, hci, noInit, cacheVars, callVars, historyVars, served>>
  BY DEF InitDone, Device!Find, Device!Fail
<1>2. TypeOK'
  BY <1>1 DEF IInv, TypeOK, cacheVars, callVars, historyVars
<1>3. CacheOK'
  BY <1>1, CacheUntouched DEF IInv
<1>4. CardOK' /\ DriverOK' /\ CallOK'
  BY <1>1 DEF IInv, CardOK, DriverOK, CallOK, InCall, callVars, historyVars
<1>5. CASE UNCHANGED found
  <2>1. PromiseStep
    BY <1>1, <1>5, Unseen DEF cacheVars, historyVars
  <2>. QED BY <1>2, <1>3, <1>4, <2>1 DEF IInv
<1>6. CASE slot # NoCard /\ found' = slot
  <2>1. slot \in Cards /\ request = Promise!NoRequest
    BY <1>1, <1>6 DEF IInv, TypeOK, CallOK, InCall
  <2>2. Promise!Find
    BY <1>1, <1>6, <2>1 DEF Promise!Find, Promise!runVars, cacheVars, historyVars
  <2>. QED BY <1>2, <1>3, <1>4, <2>2 DEF IInv, PromiseStep, Promise!Next
<1>. QED BY <1>1, <1>5, <1>6

LEMMA InsertStep ==
    ASSUME IInv, Insert PROVE IInv' /\ PromiseStep
<1>. USE Names
<1>1. PICK c \in Cards \cup {NoCard} :
         slot' = c /\ ready' = NoCard /\ UNCHANGED <<op, result>>
  BY DEF Insert, Device!Insert
<1>2. UNCHANGED <<hci, noInit, cacheVars, callVars, pc, historyVars, found, served>>
  BY DEF Insert
<1>3. TypeOK'
  BY <1>1, <1>2 DEF IInv, TypeOK, cacheVars, callVars, historyVars
<1>4. CacheOK'
  BY <1>2, CacheUntouched DEF IInv
<1>5. CardOK' /\ CallOK'
  <2>1. InCall => CopiedOK'
    BY <1>2, CopyUntouched DEF IInv, CallOK, callVars, historyVars
  <2>. QED BY <1>1, <1>2, <2>1 DEF IInv, CardOK, CallOK, InCall, callVars, historyVars, cacheVars
<1>6. DriverOK'
  BY <1>1, <1>2 DEF IInv, DriverOK, Cached, callVars, cacheVars
<1>7. PromiseStep
  BY <1>2, Unseen DEF cacheVars, historyVars
<1>. QED BY <1>3, <1>4, <1>5, <1>6, <1>7 DEF IInv

LEMMA InitializeStep ==
    ASSUME IInv, Initialize PROVE IInv' /\ PromiseStep
<1>1. /\ pc = "idle" /\ noInit' = FALSE
      /\ UNCHANGED <<deviceVars, hci, cacheVars, callVars, pc, historyVars, found, served>>
  BY DEF Initialize
<1>2. TypeOK'
  BY <1>1 DEF IInv, TypeOK, deviceVars, cacheVars, callVars, historyVars
<1>3. CacheOK'
  BY <1>1, CacheUntouched DEF IInv
<1>4. CardOK' /\ DriverOK' /\ CallOK'
  BY <1>1 DEF IInv, CardOK, DriverOK, CallOK, InCall, deviceVars, callVars, historyVars
<1>5. Promise!Mount
  BY <1>1 DEF Promise!Mount, Promise!runVars, cacheVars, historyVars
<1>. QED BY <1>2, <1>3, <1>4, <1>5 DEF IInv, PromiseStep, Promise!Next

-----------------------------------------------------------------------------
(* disk_read                                                               *)

LEMMA EmptyBitmap ==
    ASSUME Fits, NEW s \in Nat, bitmap = NoChunks
    PROVE  ~Cached(s)
BY InsideBitmap DEF Cached, NoChunks

\* Sectors each of a card in use are what is promised.
LEMMA SectorsOf ==
    ASSUME NEW S, NEW data \in Seq(S), NEW n \in Nat, NEW k \in Nat, Len(data) = k,
           \A i \in 1 .. k : FromServed(data[i], n + i - 1)
    PROVE  \E from \in [1 .. k -> served] : data = Promise!Sectors(from, Promise!Request(n, k))
<1>. DEFINE from == [i \in 1 .. k |-> data[i][1]]
<1>1. \A i \in 1 .. k : data[i][1] \in served /\ data[i] = <<data[i][1], n + i - 1>>
  BY DEF FromServed
<1>2. from \in [1 .. k -> served]
  BY <1>1
<1>3. data = [i \in 1 .. k |-> data[i]]
  OBVIOUS
<1>4. data = Promise!Sectors(from, Promise!Request(n, k))
  BY <1>1, <1>3 DEF Promise!Sectors, Promise!Request
<1>. QED BY <1>2, <1>4

LEMMA Joined ==
    ASSUME NEW S, NEW s \in Seq(S), NEW t \in Seq(S)
    PROVE  /\ s \o t \in Seq(S) /\ Len(s \o t) = Len(s) + Len(t)
           /\ \A i \in 1 .. Len(s) : (s \o t)[i] = s[i]
           /\ \A i \in Len(s) + 1 .. Len(s) + Len(t) : (s \o t)[i] = t[i - Len(s)]
OBVIOUS

LEMMA ReadStep ==
    ASSUME Fits, IInv, NEW n \in 0 .. Size - 1, NEW cnt \in 1 .. MaxCount,
           n + cnt <= Size, Read(n, cnt)
    PROVE  IInv' /\ PromiseStep
<1>. USE Names, SizesOK
<1>. DEFINE r == Promise!Request(n, cnt)
<1>1. /\ pc = "idle" /\ hci # NoHost
      /\ sector' = n /\ count' = cnt /\ buff' = <<>>
      /\ request' = r /\ faulty' = FALSE /\ answer' = Promise!NoAnswer
      /\ UNCHANGED <<deviceVars, hci, noInit, cache, found>>
  BY DEF Read
<1>2. \/ noInit /\ pc' = "notReady" /\ UNCHANGED <<bitmap, cacheHost, served>>
      \/ /\ ~noInit /\ pc' = "loop" /\ cacheHost' = hci
         /\ bitmap' = IF cacheHost # hci THEN NoChunks ELSE bitmap
         /\ served' = (IF cacheHost = hci THEN served ELSE {}) \cup ({found} \ {NoCard})
  BY DEF Read, CheckHost, Serve
<1>3. r.start = n /\ r.cnt = cnt /\ Promise!Request(r.start, r.cnt) = r /\ Len(buff') = 0
  BY <1>1 DEF Promise!Request
<1>4. NoChunks \in [0 .. BitmapSize - 1 -> SUBSET (0 .. ByteBits - 1)]
  BY DEF NoChunks
<1>5. TypeOK'
  <2>1. bitmap' \in [0 .. BitmapSize - 1 -> SUBSET (0 .. ByteBits - 1)]
    BY <1>2, <1>4 DEF IInv, TypeOK
  <2>2. /\ sector' \in 0 .. Size /\ count' \in 0 .. MaxCount
        /\ request'.cnt = Len(buff') + count' /\ sector' = request'.start + Len(buff')
        /\ buff' \in Seq(Sectors \cup {<<>>})
    BY <1>1, <1>3
  <2>3. /\ pc' \in {"notReady", "loop"} /\ cacheHost' \in {cacheHost, hci}
        /\ served' \subseteq Cards
    BY <1>2 DEF IInv, TypeOK
  <2>. QED BY <1>1, <2>1, <2>2, <2>3 DEF IInv, TypeOK, deviceVars
<1>6. CacheOK'
  <2>1. CASE bitmap' = NoChunks
    <3>1. ASSUME NEW s \in 0 .. Size - 1, Cached(s)' PROVE FALSE
      <4>1. SectorToOffset(s) \in 0 .. BitmapSize - 1
        BY <3>1, InsideBitmap DEF Cached
      <4>. QED BY <2>1, <3>1, <4>1 DEF Cached, NoChunks
    <3>. QED BY <3>1 DEF CacheOK
  <2>2. CASE UNCHANGED bitmap /\ served \subseteq served'
    BY <1>1, <2>2 DEF IInv, CacheOK, Cached, FromServed
  <2>. QED BY <1>2, <2>1, <2>2
<1>7. CardOK'
  BY <1>1 DEF IInv, CardOK, deviceVars
<1>8. DriverOK'
  BY <1>1, <1>2 DEF IInv, DriverOK, deviceVars
<1>9. CallOK'
  <2>1. CopiedOK'
    BY <1>3 DEF CopiedOK
  <2>. QED BY <1>1, <1>2, <1>3, <2>1 DEF CallOK, InCall
<1>10. Promise!Ask
  <2>1. request = Promise!NoRequest
    BY <1>1 DEF IInv, CallOK, InCall
  <2>2. n \in 0 .. Size - 1 /\ cnt \in 1 .. Size
    OBVIOUS
  <2>. QED BY <1>1, <1>2, <2>1, <2>2 DEF Promise!Ask, Promise!driveVars, Promise!runVars
<1>. QED BY <1>5, <1>6, <1>7, <1>8, <1>9, <1>10 DEF IInv, PromiseStep, Promise!Next

\* What is known between two sectors
LEMMA Looping ==
    ASSUME IInv, pc \in {"loop", "fill", "rest"}, count > 0
    PROVE  /\ hci \in Hosts /\ cacheHost = hci
           /\ served \subseteq Cards
           /\ sector \in 0 .. Size - 1 /\ count \in Nat /\ sector + count <= Size
           /\ request.start \in Nat /\ Len(buff) \in Nat
           /\ sector = request.start + Len(buff) /\ request.cnt = Len(buff) + count
           /\ request = Promise!Request(request.start, request.cnt)
           /\ request # Promise!NoRequest
           /\ CopiedOK
           /\ ready # NoCard => ready \in served
<1>. USE Names, SizesOK
<1>1. /\ hci \in Hosts /\ cacheHost = hci
      /\ request.start \in 0 .. Size - 1 /\ request.start + request.cnt <= Size
      /\ request = Promise!Request(request.start, request.cnt) /\ request.cnt \in 1 .. MaxCount
      /\ CopiedOK
      /\ ready # NoCard => ready \in served
  BY DEF IInv, TypeOK, CardOK, CallOK, InCall
<1>2. request # Promise!NoRequest
  BY <1>1 DEF Promise!NoRequest, Promise!Request
<1>3. /\ Len(buff) \in Nat /\ count \in Nat /\ request.cnt = Len(buff) + count
      /\ sector = request.start + Len(buff) /\ served \subseteq Cards
  BY <1>2 DEF IInv, TypeOK
<1>. QED BY <1>1, <1>2, <1>3

\* Copying the right sector leads to the next one.
LEMMA CopyStep ==
    ASSUME IInv, pc \in {"loop", "fill"}, count > 0, NEW c \in served,
           Copy(<<c, sector>>), pc' = "loop", op' = Device!NoOp,
           UNCHANGED <<slot, ready, hci, noInit, cacheHost, historyVars, found, served>>
    PROVE  /\ CallOK' /\ CardOK' /\ DriverOK'
           /\ sector' \in 0 .. Size /\ count' \in 0 .. MaxCount
           /\ request'.cnt = Len(buff') + count' /\ sector' = request'.start + Len(buff')
           /\ buff' \in Seq(Sectors \cup {<<>>})
<1>. USE SizesOK
<1>0. /\ hci \in Hosts /\ cacheHost = hci /\ c \in Cards
      /\ sector \in 0 .. Size - 1 /\ count \in Nat /\ sector + count <= Size
      /\ request.start \in Nat /\ Len(buff) \in Nat
      /\ sector = request.start + Len(buff) /\ request.cnt = Len(buff) + count
      /\ CopiedOK
  BY Looping
<1>1. /\ buff' = Append(buff, <<c, sector>>)
      /\ sector' = sector + 1 /\ count' = count - 1 /\ request' = request
  BY DEF Copy, historyVars
<1>2. buff \in Seq(Sectors \cup {<<>>}) /\ <<c, sector>> \in Sectors
  BY <1>0 DEF IInv, TypeOK, Sectors
<1>3. /\ Len(buff') = Len(buff) + 1 /\ buff' \in Seq(Sectors \cup {<<>>})
      /\ buff'[Len(buff) + 1] = <<c, sector>>
      /\ \A i \in 1 .. Len(buff) : buff'[i] = buff[i]
  BY <1>1, <1>2
<1>4. CopiedOK'
  <2>1. SUFFICES ASSUME NEW i \in 1 .. Len(buff) + 1
                 PROVE  FromServed(buff'[i], request.start + i - 1)
    BY <1>1, <1>3 DEF CopiedOK, FromServed
  <2>2. CASE i = Len(buff) + 1
    <3>1. request.start + i - 1 = sector
      BY <1>0, <2>2
    <3>. QED BY <1>3, <2>2, <3>1 DEF FromServed
  <2>3. CASE i \in 1 .. Len(buff)
    BY <1>0, <1>3, <2>3 DEF CopiedOK
  <2>. QED BY <1>0, <2>2, <2>3
<1>5. CallOK'
  BY <1>1, <1>4 DEF IInv, CallOK, InCall, historyVars
<1>6. CardOK' /\ DriverOK'
  BY DEF IInv, CardOK, DriverOK
<1>7. sector' \in 0 .. Size /\ count' \in 0 .. MaxCount
  <2>1. count \in 0 .. MaxCount
    BY DEF IInv, TypeOK
  <2>. QED BY <1>0, <1>1, <2>1
<1>8. request'.cnt = Len(buff') + count' /\ sector' = request'.start + Len(buff')
  <2>. DEFINE l == Len(buff)
              rc == request.cnt
              rs == request.start
  <2>0. l \in Nat /\ rs \in Nat /\ count \in Nat /\ rc = l + count /\ sector = rs + l
    BY <1>0
  <2>1. rc = (l + 1) + (count - 1) /\ sector + 1 = rs + (l + 1)
    <3>. HIDE DEF l, rc, rs
    <3>. QED BY <2>0
  <2>2. request'.cnt = rc /\ request'.start = rs /\ Len(buff') = l + 1
    BY <1>1, <1>3
  <2>3. count' = count - 1 /\ sector' = sector + 1
    BY <1>1
  <2>. HIDE DEF l, rc, rs
  <2>. QED BY <2>1, <2>2, <2>3, Zenon
<1>. QED BY <1>3, <1>5, <1>6, <1>7, <1>8

LEMMA InCache ==
    ASSUME Fits, IInv, pc = "loop", count > 0, ~BeyondCache
    PROVE  /\ sector < CacheSectors
           /\ TRUE \in ValidBit(sector) => Cached(sector)
           /\ FALSE \in ValidBit(sector) => ~Cached(sector)
<1>1. sector \in Nat /\ sector < CacheSectors
  BY Looping, SizesOK DEF BeyondCache
<1>2. ~OutsideBitmap(sector)
  BY <1>1, InsideBitmap
<1>3. ValidBit(sector) = {SectorToBit(sector) \in bitmap[SectorToOffset(sector)]}
  BY <1>2, Zenon DEF ValidBit
<1>4. /\ TRUE \in ValidBit(sector) => SectorToBit(sector) \in bitmap[SectorToOffset(sector)]
      /\ FALSE \in ValidBit(sector) => SectorToBit(sector) \notin bitmap[SectorToOffset(sector)]
  BY <1>3, Zenon
<1>. QED BY <1>1, <1>4 DEF Cached

LEMMA HitStep ==
    ASSUME Fits, IInv, Hit PROVE IInv' /\ PromiseStep
<1>1. /\ pc = "loop" /\ pc' = "loop" /\ count > 0 /\ ~BeyondCache /\ TRUE \in ValidBit(sector)
      /\ Copy(cache[sector])
      /\ UNCHANGED <<deviceVars, hci, noInit, cacheVars, historyVars, found, served>>
  BY DEF Hit
<1>2. PICK c \in served : cache[sector] = <<c, sector>>
  BY <1>1, InCache, Looping DEF IInv, CacheOK, FromServed
<1>3. op = Device!NoOp
  BY <1>1 DEF IInv, DriverOK
<1>4. /\ CallOK' /\ CardOK' /\ DriverOK'
      /\ sector' \in 0 .. Size /\ count' \in 0 .. MaxCount
      /\ request'.cnt = Len(buff') + count' /\ sector' = request'.start + Len(buff')
      /\ buff' \in Seq(Sectors \cup {<<>>})
  BY <1>1, <1>2, <1>3, CopyStep DEF deviceVars, cacheVars
<1>5. TypeOK'
  BY <1>1, <1>4 DEF IInv, TypeOK, deviceVars, cacheVars, historyVars
<1>6. CacheOK'
  BY <1>1, CacheUntouched DEF IInv
<1>7. PromiseStep
  BY <1>1, Unseen DEF cacheVars, historyVars
<1>. QED BY <1>4, <1>5, <1>6, <1>7 DEF IInv

LEMMA MissStep ==
    ASSUME Fits, IInv, Miss PROVE IInv' /\ PromiseStep
<1>1. /\ pc = "loop" /\ pc' = "fill" /\ count > 0 /\ ~BeyondCache /\ FALSE \in ValidBit(sector)
      /\ op' = Device!ReadOp(ChunkOf(sector), ChunkSectors) /\ op' \in Device!ReadOps
      /\ UNCHANGED <<slot, ready, hci, noInit, cacheVars, callVars, historyVars, found, served>>
  BY DEF Miss, Device!CallRead
<1>2. sector < CacheSectors /\ ~Cached(sector)
  BY <1>1, InCache
<1>3. TypeOK'
  BY <1>1 DEF IInv, TypeOK, cacheVars, callVars, historyVars
<1>4. CacheOK'
  BY <1>1, CacheUntouched DEF IInv
<1>5. CardOK' /\ CallOK'
  <2>1. CopiedOK'
    BY <1>1, Looping, CopyUntouched DEF callVars, historyVars
  <2>. QED BY <1>1, <2>1 DEF IInv, CardOK, CallOK, InCall, cacheVars, callVars, historyVars
<1>6. DriverOK'
  BY <1>1, <1>2 DEF DriverOK, Cached, cacheVars, callVars
<1>7. PromiseStep
  BY <1>1, Unseen DEF cacheVars, historyVars
<1>. QED BY <1>3, <1>4, <1>5, <1>6, <1>7 DEF IInv

LEMMA ReadRestStep ==
    ASSUME IInv, ReadRest PROVE IInv' /\ PromiseStep
<1>1. /\ pc = "loop" /\ pc' = "rest" /\ count > 0
      /\ op' = Device!ReadOp(sector, count) /\ op' \in Device!ReadOps
      /\ UNCHANGED <<slot, ready, hci, noInit, cacheVars, callVars, historyVars, found, served>>
  BY DEF ReadRest, Device!CallRead
<1>2. TypeOK'
  BY <1>1 DEF IInv, TypeOK, cacheVars, callVars, historyVars
<1>3. CacheOK'
  BY <1>1, CacheUntouched DEF IInv
<1>4. CardOK' /\ CallOK' /\ DriverOK'
  <2>1. CopiedOK'
    BY <1>1, Looping, CopyUntouched DEF callVars, historyVars
  <2>. QED BY <1>1, <2>1 DEF IInv, CardOK, CallOK, DriverOK, InCall, cacheVars, callVars, historyVars
<1>5. PromiseStep
  BY <1>1, Unseen DEF cacheVars, historyVars
<1>. QED BY <1>2, <1>3, <1>4, <1>5 DEF IInv

LEMMA FilledStep ==
    ASSUME Fits, IInv, Filled PROVE IInv' /\ PromiseStep
<1>. USE SizesOK
<1>. DEFINE first == ChunkOf(sector)
            card == ready
<1>1. /\ pc = "fill" /\ pc' = "loop" /\ count > 0 /\ sector < CacheSectors
      /\ op = Device!ReadOp(first, ChunkSectors) /\ ~Cached(sector)
  BY DEF Filled, IInv, DriverOK, CallOK
<1>2. /\ op' = Device!NoOp /\ ready # NoCard
      /\ result' = Device!Succeeded(Device!Blocks(ready, op.start, op.cnt))
      /\ UNCHANGED <<slot, ready, hci, noInit, cacheHost, historyVars, found, served>>
  BY DEF Filled, Device!Deliver
<1>3. /\ cache' = [s \in 0 .. Size - 1 |->
                      IF ChunkOf(s) = op.start THEN result'.data[s - op.start + 1] ELSE cache[s]]
      /\ SetValid(sector) /\ Copy(cache'[sector])
  BY DEF Filled
<1>4. card \in served /\ card \in Cards /\ sector \in 0 .. Size - 1
  BY <1>1, <1>2, Looping
<1>5. op.start = first /\ op.cnt = ChunkSectors
  BY <1>1 DEF Device!ReadOp
<1>6. ASSUME NEW s \in 0 .. Size - 1, ChunkOf(s) = first PROVE cache'[s] = <<card, s>>
  <2>1. s - first + 1 \in 1 .. ChunkSectors /\ first \in Nat
    <3>1. s \in Nat /\ ChunkOf(s) \in Nat /\ s - ChunkOf(s) \in 0 .. ChunkSectors - 1
      BY ChunkBounds
    <3>. HIDE DEF first
    <3>2. first \in Nat /\ s - first \in 0 .. ChunkSectors - 1
      BY <1>6, <3>1
    <3>. QED BY <3>1, <3>2
  <2>2. result'.data = Device!Blocks(card, first, ChunkSectors)
    BY <1>2, <1>4, <1>5 DEF Device!Succeeded
  <2>3. result'.data[s - first + 1] = <<card, first + (s - first + 1) - 1>>
    BY <2>1, <2>2 DEF Device!Blocks
  <2>4. first + (s - first + 1) - 1 = s
    BY <2>1
  <2>. QED BY <1>3, <1>5, <1>6, <2>3, <2>4
<1>7. ASSUME NEW s \in 0 .. Size - 1, ChunkOf(s) # first PROVE cache'[s] = cache[s]
  BY <1>3, <1>5, <1>7
<1>8. /\ CallOK' /\ CardOK' /\ DriverOK'
      /\ sector' \in 0 .. Size /\ count' \in 0 .. MaxCount
      /\ request'.cnt = Len(buff') + count' /\ sector' = request'.start + Len(buff')
      /\ buff' \in Seq(Sectors \cup {<<>>})
  <2>1. cache'[sector] = <<card, sector>>
    BY <1>4, <1>6
  <2>2. Copy(<<card, sector>>)
    BY <1>3, <2>1 DEF Copy
  <2>. QED BY <1>1, <1>2, <1>4, <2>2, CopyStep
<1>9. /\ SectorToOffset(sector) \in 0 .. BitmapSize - 1
      /\ bitmap' = [bitmap EXCEPT ![SectorToOffset(sector)] = @ \cup {SectorToBit(sector)}]
  <2>1. SectorToOffset(sector) \in 0 .. BitmapSize - 1 /\ ~OutsideBitmap(sector)
    BY <1>1, <1>4, InsideBitmap
  <2>. QED BY <1>3, <2>1 DEF SetValid
<1>10. bitmap \in [0 .. BitmapSize - 1 -> SUBSET (0 .. ByteBits - 1)]
  BY DEF IInv, TypeOK
<1>11. CacheOK'
  <2>1. ASSUME NEW s \in 0 .. Size - 1, Cached(s)' PROVE FromServed(cache'[s], s)
    <3>1. CASE ChunkOf(s) = first
      BY <3>1, <1>4, <1>6 DEF FromServed
    <3>2. CASE ChunkOf(s) # first
      <4>1. SectorToOffset(s) # SectorToOffset(sector) \/ SectorToBit(s) # SectorToBit(sector)
        BY <3>2, <1>4, OneBit
      <4>2. s < CacheSectors /\ SectorToBit(s) \in bitmap'[SectorToOffset(s)]
        BY <2>1 DEF Cached
      <4>3. SectorToOffset(s) \in 0 .. BitmapSize - 1
        BY <4>2, InsideBitmap
      <4>4. Cached(s)
        BY <4>1, <4>2, <4>3, <1>9, <1>10 DEF Cached
      <4>. QED BY <4>4, <3>2, <1>4, <1>7 DEF IInv, CacheOK
    <3>. QED BY <3>1, <3>2
  <2>. QED BY <1>2, <2>1 DEF CacheOK, FromServed
<1>12. TypeOK'
  <2>1. SectorToBit(sector) \in 0 .. ByteBits - 1
    BY <1>4, Quotient DEF SectorToBit
  <2>2. bitmap' \in [0 .. BitmapSize - 1 -> SUBSET (0 .. ByteBits - 1)]
    BY <1>9, <1>10, <2>1
  <2>3. cache' \in [0 .. Size - 1 -> Sectors \cup {<<>>}]
    <3>1. ASSUME NEW s \in 0 .. Size - 1 PROVE cache'[s] \in Sectors \cup {<<>>}
      <4>1. CASE ChunkOf(s) = first
        <5>1. cache'[s] = <<card, s>>
          BY <4>1, <1>6
        <5>2. <<card, s>> \in Sectors
          BY <1>4 DEF Sectors
        <5>. QED BY <5>1, <5>2
      <4>2. CASE ChunkOf(s) # first
        BY <4>2, <1>7 DEF IInv, TypeOK
      <4>. QED BY <4>1, <4>2
    <3>2. cache' = [s \in 0 .. Size - 1 |-> cache'[s]]
      BY <1>3
    <3>. QED BY <3>1, <3>2
  <2>. QED BY <1>1, <1>2, <1>8, <2>2, <2>3 DEF IInv, TypeOK, historyVars
<1>13. PromiseStep
  BY <1>2, Unseen DEF historyVars
<1>. QED BY <1>8, <1>11, <1>12, <1>13 DEF IInv

\* Where disk_read returns
LEMMA ReturnStep ==
    ASSUME IInv, NEW a, Return(a), UNCHANGED <<slot, ready, cacheVars, faulty>>,
           op' = Device!NoOp
    PROVE  IInv'
<1>. USE SizesOK
<1>1. /\ pc' = "idle" /\ request' = Promise!NoRequest
      /\ sector' = 0 /\ count' = 0 /\ buff' = <<>>
      /\ UNCHANGED <<hci, noInit, found, served>>
  BY DEF Return
<1>2. TypeOK'
  <2>1. request'.cnt = 0 /\ Len(buff') = 0 /\ buff' \in Seq(Sectors \cup {<<>>})
    BY <1>1 DEF Promise!NoRequest, Promise!Request
  <2>2. request'.cnt = Len(buff') + count' /\ sector' \in 0 .. Size /\ count' \in 0 .. MaxCount
    BY <1>1, <2>1
  <2>. QED BY <1>1, <2>1, <2>2 DEF IInv, TypeOK, cacheVars
<1>3. CacheOK'
  BY <1>1, CacheUntouched DEF IInv
<1>4. CardOK' /\ DriverOK' /\ CallOK'
  BY <1>1 DEF IInv, CardOK, DriverOK, CallOK, InCall
<1>. QED BY <1>2, <1>3, <1>4 DEF IInv

LEMMA Waiting == ASSUME IInv, InCall PROVE request # Promise!NoRequest
BY DEF IInv, CallOK, Promise!NoRequest, Promise!Request

LEMMA RestReadStep ==
    ASSUME IInv, RestRead PROVE IInv' /\ PromiseStep
<1>1. /\ pc = "rest" /\ count > 0 /\ op = Device!ReadOp(sector, count) /\ ~noInit
  BY DEF RestRead, IInv, DriverOK, CallOK
<1>2. /\ op' = Device!NoOp /\ ready # NoCard
      /\ result' = Device!Succeeded(Device!Blocks(ready, op.start, op.cnt))
      /\ UNCHANGED <<slot, ready, cacheVars, faulty>>
      /\ Return(Promise!Succeeded(buff \o result'.data))
  BY DEF RestRead, Device!Deliver
<1>3. IInv'
  BY <1>2, ReturnStep
<1>. DEFINE k == Len(buff)
            n == request.start
            j == count
            data == buff \o result'.data
<1>4. \E from \in [1 .. request.cnt -> served] : data = Promise!Sectors(from, request)
  <2>1. /\ k \in Nat /\ j \in Nat /\ n \in Nat /\ sector = n + k /\ request.cnt = k + j
        /\ request = Promise!Request(n, k + j) /\ ready \in served /\ CopiedOK
    BY <1>1, <1>2, Looping
  <2>2. result'.data = Device!Blocks(ready, n + k, j)
    BY <1>1, <1>2, <2>1 DEF Device!ReadOp, Device!Succeeded
  <2>3. buff \in Seq(Sectors \cup {<<>>})
    BY DEF IInv, TypeOK
  <2>4. result'.data \in Seq(served \X Nat) /\ Len(result'.data) = j
    BY <2>1, <2>2 DEF Device!Blocks
  <2>5. \A i \in 1 .. j : result'.data[i] = <<ready, n + k + i - 1>>
    BY <2>1, <2>2 DEF Device!Blocks
  <2>. DEFINE S == Sectors \cup {<<>>} \cup (served \X Nat)
              tail == result'.data
  <2>6. buff \in Seq(S) /\ tail \in Seq(S)
    BY <2>3, <2>4
  <2>. HIDE DEF S
  <2>7. /\ data \in Seq(S) /\ Len(data) = k + j
        /\ \A i \in 1 .. k : data[i] = buff[i]
        /\ \A i \in k + 1 .. k + j : data[i] = tail[i - k]
    BY <2>4, <2>6, Joined
  <2>. HIDE DEF tail, data
  <2>8. \A i \in 1 .. k + j : FromServed(data[i], n + i - 1)
    <3>1. SUFFICES ASSUME NEW i \in 1 .. k + j PROVE FromServed(data[i], n + i - 1)
      OBVIOUS
    <3>0. i \in 1 .. k \/ i \in k + 1 .. k + j
      <4>1. k \in Nat /\ j \in Nat
        BY <2>1
      <4>. HIDE DEF k, j
      <4>. QED BY <4>1
    <3>2. CASE i \in 1 .. k
      BY <2>1, <2>7, <3>2 DEF CopiedOK
    <3>3. CASE i \in k + 1 .. k + j
      <4>1. i - k \in 1 .. j /\ n + k + (i - k) - 1 = n + i - 1
        BY <2>1, <3>3
      <4>2. data[i] = <<ready, n + i - 1>>
        BY <2>5, <2>7, <3>3, <4>1 DEF tail
      <4>. QED BY <2>1, <4>2 DEF FromServed
    <3>. QED BY <3>0, <3>2, <3>3
  <2>9. \E from \in [1 .. k + j -> served] : data = Promise!Sectors(from, Promise!Request(n, k + j))
    <3>1. k + j \in Nat /\ n \in Nat
      BY <2>1
    <3>. HIDE DEF n, k, j
    <3>. QED BY <2>7, <2>8, <3>1, SectorsOf
  <2>. HIDE DEF n
  <2>. QED BY <2>1, <2>9
<1>5. Promise!Deliver
  <2>1. request # Promise!NoRequest
    BY <1>1, Looping
  <2>2. UNCHANGED <<hci, found, cacheHost, served, noInit, faulty>>
    BY <1>2 DEF Return, cacheVars
  <2>. QED BY <1>1, <1>2, <1>4, <2>1, <2>2
         DEF Promise!Deliver, Promise!Answer, Return, Promise!driveVars, Promise!runVars
<1>. QED BY <1>3, <1>5 DEF PromiseStep, Promise!Next

LEMMA DriverFailsStep ==
    ASSUME IInv, DriverFails PROVE IInv' /\ PromiseStep
<1>. USE SizesOK
<1>1. /\ pc \in {"fill", "rest"} /\ pc' = "failed" /\ faulty' = TRUE /\ op' = Device!NoOp
      /\ UNCHANGED <<slot, ready, hci, noInit, cacheHost, bitmap, callVars, request, answer,
                     found, served>>
  BY DEF DriverFails, Device!Fail
<1>2. \/ UNCHANGED cache
      \/ /\ pc = "fill"
         /\ cache' = [s \in 0 .. Size - 1 |-> IF ChunkOf(s) = op.start THEN <<>> ELSE cache[s]]
  BY DEF DriverFails
<1>3. TypeOK'
  <2>1. cache' \in [0 .. Size - 1 -> Sectors \cup {<<>>}]
    BY <1>2 DEF IInv, TypeOK
  <2>. QED BY <1>1, <2>1 DEF IInv, TypeOK, callVars
<1>4. CacheOK'
  <2>1. CASE UNCHANGED cache
    BY <1>1, <2>1, CacheUntouched DEF IInv, cacheVars
  <2>2. CASE /\ pc = "fill"
             /\ cache' = [s \in 0 .. Size - 1 |-> IF ChunkOf(s) = op.start THEN <<>> ELSE cache[s]]
    <3>1. op.start = ChunkOf(sector) /\ ~Cached(sector) /\ sector < CacheSectors /\ sector \in Nat
      BY <2>2, Looping DEF IInv, DriverOK, CallOK, Device!ReadOp
    <3>2. ASSUME NEW s \in 0 .. Size - 1, Cached(s)' PROVE FromServed(cache'[s], s)
      <4>1. Cached(s)
        BY <1>1, <3>2 DEF Cached
      <4>2. ChunkOf(s) # ChunkOf(sector)
        BY <4>1, <3>1, OneBit DEF Cached
      <4>. QED BY <2>2, <3>1, <4>1, <4>2 DEF IInv, CacheOK
    <3>. QED BY <1>1, <3>2 DEF CacheOK, FromServed
  <2>. QED BY <1>2, <2>1, <2>2
<1>5. CardOK' /\ DriverOK' /\ CallOK'
  <2>1. CopiedOK'
    BY <1>1, CopyUntouched DEF IInv, CallOK, InCall, callVars
  <2>. QED BY <1>1, <2>1 DEF IInv, CardOK, DriverOK, CallOK, InCall, callVars
<1>6. Promise!Fault
  BY <1>1, Waiting DEF Promise!Fault, Promise!driveVars, Promise!runVars, InCall
<1>. QED BY <1>3, <1>4, <1>5, <1>6 DEF IInv, PromiseStep, Promise!Next

LEMMA NotReadyStep ==
    ASSUME IInv, NotReady PROVE IInv' /\ PromiseStep
<1>1. /\ pc = "notReady" /\ Return(Promise!Failed)
      /\ UNCHANGED <<deviceVars, cacheVars, faulty>>
  BY DEF NotReady
<1>2. IInv'
  BY <1>1, ReturnStep DEF IInv, DriverOK, deviceVars
<1>3. Promise!Refuse
  BY <1>1, Waiting DEF IInv, CallOK, InCall, Return, cacheVars, Promise!Refuse, Promise!Answer,
                       Promise!driveVars, Promise!runVars
<1>. QED BY <1>2, <1>3 DEF PromiseStep, Promise!Next

LEMMA ReturnErrorStep ==
    ASSUME IInv, ReturnError PROVE IInv' /\ PromiseStep
<1>1. /\ pc = "failed" /\ Return(Promise!Failed)
      /\ UNCHANGED <<deviceVars, cacheVars, faulty>>
  BY DEF ReturnError
<1>2. IInv'
  BY <1>1, ReturnStep DEF IInv, DriverOK, deviceVars
<1>3. Promise!Refuse
  BY <1>1, Waiting DEF IInv, CallOK, InCall, Return, cacheVars, Promise!Refuse, Promise!Answer,
                       Promise!driveVars, Promise!runVars
<1>. QED BY <1>2, <1>3 DEF PromiseStep, Promise!Next

LEMMA ReturnOkStep ==
    ASSUME IInv, ReturnOk PROVE IInv' /\ PromiseStep
<1>1. /\ pc = "loop" /\ count = 0 /\ Return(Promise!Succeeded(buff))
      /\ UNCHANGED <<deviceVars, cacheVars, faulty>>
  BY DEF ReturnOk
<1>2. IInv'
  BY <1>1, ReturnStep DEF IInv, DriverOK, deviceVars
<1>3. hci \in Hosts /\ ~noInit /\ request # Promise!NoRequest
  BY <1>1, Waiting DEF IInv, TypeOK, CallOK, InCall
<1>4. \E from \in [1 .. request.cnt -> served] : buff = Promise!Sectors(from, request)
  <2>1. /\ buff \in Seq(Sectors \cup {<<>>}) /\ Len(buff) = request.cnt /\ Len(buff) \in Nat
        /\ request.start \in Nat /\ request = Promise!Request(request.start, request.cnt)
        /\ CopiedOK
    BY <1>1 DEF IInv, TypeOK, CallOK, InCall
  <2>. DEFINE S == Sectors \cup {<<>>}
  <2>2. /\ buff \in Seq(S) /\ request.cnt \in Nat
        /\ \A i \in 1 .. request.cnt : FromServed(buff[i], request.start + i - 1)
    BY <2>1 DEF CopiedOK
  <2>3. \E from \in [1 .. request.cnt -> served] :
           buff = Promise!Sectors(from, Promise!Request(request.start, request.cnt))
    <3>. HIDE DEF S
    <3>. QED BY <2>1, <2>2, SectorsOf
  <2>. QED BY <2>1, <2>3, Zenon
<1>5. Promise!Deliver
  BY <1>1, <1>3, <1>4 DEF Promise!Deliver, Promise!Answer, Return, cacheVars,
                          Promise!driveVars, Promise!runVars
<1>. QED BY <1>2, <1>5 DEF PromiseStep, Promise!Next

LEMMA Step == ASSUME Fits, IInv, [Next]_vars PROVE IInv' /\ PromiseStep
<1>1. CASE UNCHANGED vars
  <2>. USE <1>1 DEF vars, deviceVars, cacheVars, callVars, historyVars
  <2>1. CacheOK'
    BY CacheUntouched DEF IInv
  <2>2. TypeOK' /\ CardOK' /\ CallOK'
    BY DEF IInv, TypeOK, CardOK, CallOK, InCall, CopiedOK, FromServed
  <2>3. DriverOK'
    BY DEF IInv, DriverOK, Cached
  <2>4. PromiseStep
    BY Unseen
  <2>. QED BY <2>1, <2>2, <2>3, <2>4 DEF IInv
<1>2. CASE Next
  BY <1>2, SelectStep, CallInitStep, InitDoneStep, InsertStep, InitializeStep, ReadStep, HitStep,
     MissStep, FilledStep, ReadRestStep, RestReadStep, DriverFailsStep, NotReadyStep,
     ReturnErrorStep, ReturnOkStep DEF Next
<1>. QED BY <1>1, <1>2

-----------------------------------------------------------------------------
(* The theorems                                                            *)

\* A valid bit stands for one chunk of a card that has been in use since the bitmap
\* was cleared, a chunk on its way into the cache is not valid, and what disk_read
\* has copied is the beginning of what was asked for, of such cards.
THEOREM Inductive == ASSUME Fits PROVE Spec => []IInv
<1>1. Init => IInv
  BY FirstState
<1>2. IInv /\ [Next]_vars => IInv'
  BY Step
<1>. QED BY <1>1, <1>2, PTL DEF Spec

\* The variables of disk_read and of its cache keep to their ranges, and what has
\* been copied and what is still to come make up the request.
THEOREM TypeCorrect == ASSUME Fits PROVE Spec => []TypeOK
<1>1. IInv => TypeOK
  BY DEF IInv
<1>. QED BY <1>1, Inductive, PTL

\* With any hosts, cards and sizes FatFs gets from disk_read the sectors it has asked
\* for, each of a card that was in use at the host since another host was read: never
\* one of another host, but an old one if the card has been exchanged.
THEOREM Implements == ASSUME Fits PROVE Spec => ImplementsDisk
<1>1. Init => IInv /\ Promise!Init
  BY FirstState
<1>2. IInv /\ [Next]_vars => IInv' /\ [Promise!Next]_(Promise!vars)
  BY Step DEF PromiseStep
<1>. QED BY <1>1, <1>2, PTL DEF Spec, ImplementsDisk, Promise!Spec

\* The cards whose sectors may be in the cache are the one in use.
OneCard == hci = cacheHost /\ found # NoCard => served \subseteq {found}

LEMMA OneCardStep ==
    ASSUME PromiseStep, OneCard,
           found' # found /\ found' # NoCard /\ hci = cacheHost => served \subseteq {found'}
    PROVE  OneCard'
<1>. USE DEF OneCard, Promise!driveVars, Promise!runVars
<1>1. CASE Promise!Select
  BY <1>1 DEF Promise!Select
<1>2. CASE Promise!Find
  BY <1>2 DEF Promise!Find
<1>3. CASE Promise!Ask
  BY <1>3 DEF Promise!Ask
<1>4. CASE Promise!Mount \/ Promise!Fault
  BY <1>4 DEF Promise!Mount, Promise!Fault
<1>5. CASE Promise!Refuse \/ Promise!Deliver
  BY <1>5 DEF Promise!Refuse, Promise!Deliver, Promise!Answer
<1>6. CASE UNCHANGED Promise!vars
  BY <1>6 DEF Promise!vars
<1>. QED BY <1>1, <1>2, <1>3, <1>4, <1>5, <1>6 DEF PromiseStep, Promise!Next

LEMMA DeliversCardFound ==
    ASSUME IInv, OneCard, PromiseStep, Delivers, found # NoCard
    PROVE  answer'.data = Promise!Sectors(AllOf(found), request)
<1>1. Promise!Deliver
  <2>1. ~UNCHANGED request /\ answer' # Promise!Failed
    BY DEF Delivers, Promise!Failed
  <2>2. \/ Promise!Select \/ Promise!Find \/ Promise!Mount \/ Promise!Fault \/ Promise!Ask
        => request = Promise!NoRequest \/ UNCHANGED request
    BY DEF Promise!Select, Promise!Find, Promise!Mount, Promise!Fault, Promise!Ask
  <2>3. Promise!Refuse => answer' = Promise!Failed
    BY DEF Promise!Refuse, Promise!Answer
  <2>. QED BY <2>1, <2>2, <2>3 DEF Delivers, PromiseStep, Promise!Next, Promise!vars
<1>2. PICK from \in [1 .. request.cnt -> served] : answer'.data = Promise!Sectors(from, request)
  BY <1>1 DEF Promise!Deliver, Promise!Answer, Promise!Succeeded
<1>3. served \subseteq {found}
  <2>1. ~noInit /\ InCall
    BY <1>1 DEF Promise!Deliver, Delivers, IInv, CallOK
  <2>. QED BY <2>1 DEF IInv, CallOK, InCall, OneCard
<1>4. \A i \in 1 .. request.cnt : from[i] = AllOf(found)[i]
  BY <1>3 DEF AllOf
<1>. QED BY <1>2, <1>4 DEF Promise!Sectors

\* As long as cards are not exchanged between two reads, what disk_read delivers is
\* all of the card that sdmmc_init has found: the cache makes no difference.
THEOREM ExactWithoutExchange == ASSUME Fits PROVE Spec /\ NoExchange => ReadsCardFound
<1>1. Init => OneCard
  BY DEF Init, OneCard
<1>2. /\ IInv /\ OneCard /\ [Next]_vars
      /\ [found' # found /\ found' # NoCard /\ hci = cacheHost => served \subseteq {found'}]_vars
      => OneCard'
  <2>1. UNCHANGED vars => found' = found
    BY DEF vars
  <2>. QED BY <2>1, Step, OneCardStep
<1>3. IInv /\ OneCard /\ [Next]_vars
      => [Delivers /\ found # NoCard =>
             answer'.data = Promise!Sectors(AllOf(found), request)]_vars
  BY Step, DeliversCardFound
<1>. QED BY <1>1, <1>2, <1>3, Inductive, PTL DEF Spec, NoExchange, ReadsCardFound

\* disk_read has no chunk written behind the memory set aside for the cache.
THEOREM StaysInside == ASSUME Fits PROVE Spec => []StaysInCache
<1>1. IInv => StaysInCache
  <2>1. SUFFICES ASSUME IInv, pc = "fill"
                 PROVE  (op.start + op.cnt) * SectorBytes <= CacheBytes
    BY DEF StaysInCache
  <2>2. /\ sector \in Nat /\ sector < CacheSectors
        /\ op.start = ChunkOf(sector) /\ op.cnt = ChunkSectors
    BY <2>1, SizesOK DEF IInv, TypeOK, DriverOK, Device!ReadOp
  <2>. QED BY <2>2, ChunkInside
<1>. QED BY <1>1, Inductive, PTL

\* is_cache_valid and set_cache_valid find the bit of every sector they are called
\* for inside the bitmap.
THEOREM BitmapEnough == ASSUME Fits PROVE Spec => []BitmapCovers
<1>1. IInv => BitmapCovers
  BY InsideBitmap, SizesOK DEF IInv, TypeOK, BitmapCovers, BeyondCache
<1>. QED BY <1>1, Inductive, PTL
=============================================================================
