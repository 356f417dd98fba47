-------------------------- MODULE BootloaderProofs --------------------------
(***************************************************************************)
(* The bootloader does not program or erase itself, the signature means a  *)
(* whole application, and a session that finds the device at rest reads    *)
(* back what it wrote: for all sizes of blocks, pages and memory, all safe *)
(* images, and any number of sessions, of aborts and of power failures.    *)
(*                                                                         *)
(* The pointer and the count of ProgrammingBuffer survive the session that *)
(* left them, so that what is in the buffer may be from another version    *)
(* than the packet that comes next.  The invariant follows both: where the *)
(* bytes of the buffer go (Settled between packets, Middle within one),    *)
(* and that a packet that only makes sense after another one is never the  *)
(* first to reach an empty buffer (Pipeline).                              *)
(*                                                                         *)
(* Whether the image is whole is what the PC has read back, so SInv, in    *)
(* the second part, follows the packets and the answers of the sessions.   *)
(*                                                                         *)
(* That a session reads back what it wrote is a matter of every single     *)
(* byte, so VInv, in the third part, follows each from the script through  *)
(* the buffer to the memory.                                               *)
(***************************************************************************)
EXTENDS BootloaderScripts, TLAPS

\* What a queue may hold.
Sendable == {p \in Packet : Writes(p) => p \in ScriptPackets}

\* ProcessIO has a command at hand.
Busy == BootState = "NOT_IDLE"

\* The packet before the next one in a queue was one that it can continue.
AfterDevice == IF Busy THEN Writes(PacketFromPC) ELSE ProgrammedPointer # InvalidAddress
AfterOut == IF out # NoPacket THEN Writes(out) ELSE AfterDevice

\* Every packet on its way is one of a script, and a misfit follows what it continues.
Pipeline ==
  /\ mode = "off" => script = <<>> /\ out = NoPacket
  /\ sent => script # <<>> /\ Answered(Head(script))
  /\ script \in Seq(Sendable)
  /\ Continues(script, AfterOut)
  /\ out # NoPacket => out \in Sendable /\ (Misfit(out) => AfterDevice)
  /\ Busy => /\ PacketFromPC \in Sendable
             /\ loop = 0 /\ Misfit(PacketFromPC) => ProgrammedPointer # InvalidAddress

\* Between the first and the last byte of a packet.
Filling == Busy /\ Writes(PacketFromPC) /\ loop > 0

\* Where the bytes in ProgrammingBuffer go.
Base == ProgrammedPointer - BufferedDataIndex

\* Between packets one block takes what is in the buffer.
Settled ==
  IF ProgrammedPointer = InvalidAddress THEN BufferedDataIndex = 0
  ELSE /\ AppStart <= Base /\ ProgrammedPointer <= FlashEnd
       /\ \/ Base % Block = 0
          \/ /\ ProgrammedPointer \in LooseEnds
             /\ (Base % Block) + BufferedDataIndex <= Block

\* Within a packet the buffer starts on a block, or with the packet.
Middle ==
  /\ loop <= Len(PacketFromPC.data)
  /\ ProgrammedPointer = PacketFromPC.addr + loop - 1
  /\ AppStart <= Base
  /\ Base % Block = 0 \/ (BufferedDataIndex = loop - 1 /\ ~Misfit(PacketFromPC))

\* A command that is finished leaves loop at 0.
Counters ==
  /\ BootState \in {"IDLE", "NOT_IDLE"}
  /\ ProgrammedPointer \in Nat
  /\ BufferedDataIndex \in 0 .. Block - 1
  /\ loop \in Nat /\ (~Busy => loop = 0)

Buffer == IF Filling THEN Middle ELSE Settled

IInv == BootloaderIntact /\ Counters /\ Pipeline /\ Buffer

-----------------------------------------------------------------------------
(* Arithmetic.                                                              *)

LEMMA Sizes ==
  /\ Block \in Nat /\ Block > 0 /\ Page \in Nat /\ Page > 0
  /\ AppStart \in Nat /\ AppStart > 0 /\ FlashEnd \in Nat /\ AppStart < FlashEnd
  /\ Segment \in Nat /\ FlashEnd < Segment
  /\ LowByte \in Nat /\ LowByte > 0 /\ DataBytes \in Nat
  /\ SigAddress \in Nat /\ AppStart <= SigAddress
  /\ InvalidAddress \in Nat /\ FlashEnd < InvalidAddress
  BY BootConstants DEF InvalidAddress

LEMMA Division ==
  ASSUME NEW n \in Nat \ {0}, NEW x \in Nat
  PROVE  /\ x % n \in 0 .. n - 1
         /\ x \div n \in Nat
         /\ x = (x \div n) * n + (x % n)
  BY SMT

LEMMA Multiple ==
  ASSUME NEW n \in Nat \ {0}, NEW k \in Int
  PROVE  (k * n) % n = 0
  BY SMT

LEMMA Product ==
  ASSUME NEW j \in Nat, NEW k \in Nat
  PROVE  j * k \in Nat
  BY SMT

LEMMA Quotients ==
  ASSUME NEW n \in Nat \ {0}, NEW j \in Int, NEW k \in Int, j < k
  PROVE  j * n + n <= k * n
<1>1. (j + 1) * n <= k * n
  BY SMT
<1> QED
  BY <1>1

\* The application starts on a page, so on a block.
LEMMA AppStartsBlock == AppStart % Block = 0 /\ AppStart % Page = 0
<1> DEFINE j == AppStart \div Page
           k == Page \div Block
<1>1. AppStart % Page = 0 /\ Page % Block = 0
  BY BootConstants
<1>2. j \in Nat /\ k \in Nat /\ AppStart = j * Page /\ Page = k * Block
  BY <1>1, Sizes, Division
<1> HIDE DEF j, k
<1>3. AppStart = (j * k) * Block
  BY <1>2, Sizes
<1> QED
  BY <1>1, <1>2, <1>3, Multiple, Sizes

\* The start of a block or page of the application is in the application.
LEMMA StartInApplication ==
  ASSUME NEW n \in Nat \ {0}, AppStart % n = 0, NEW x \in Nat, AppStart <= x
  PROVE  AppStart <= x - (x % n)
<1> DEFINE q == x \div n
           m == AppStart \div n
<1>1. q \in Nat /\ x % n \in 0 .. n - 1 /\ x = q * n + (x % n)
  BY Division
<1>2. m \in Nat /\ AppStart = m * n
  BY Division, Sizes
<1> HIDE DEF q, m
<1>3. SUFFICES ASSUME q < m PROVE FALSE
  <2>1. CASE q = m
    BY <2>1, <1>1, <1>2
  <2>2. CASE m < q
    <3>1. m * n + n <= q * n
      BY <2>2, <1>1, <1>2, Quotients
    <3> QED
      BY <3>1, <1>1, <1>2
  <2> QED
    BY <2>1, <2>2, <1>1, <1>2
<1>4. q * n + n <= m * n
  BY <1>1, <1>2, <1>3, Quotients
<1> QED
  BY <1>1, <1>2, <1>4

\* The block after the one that x is in starts on a block.
LEMMA NextBlock ==
  ASSUME NEW x \in Nat
  PROVE  /\ x % Block \in 0 .. Block - 1
         /\ ((x - (x % Block)) + Block) % Block = 0
<1> DEFINE q == x \div Block
<1>1. q \in Nat /\ x % Block \in 0 .. Block - 1 /\ x = q * Block + (x % Block)
  BY Division, Sizes
<1> HIDE DEF q
<1>2. (x - (x % Block)) + Block = (q + 1) * Block
  BY <1>1, Sizes
<1>3. ((q + 1) * Block) % Block = 0
  BY <1>1, Sizes, Multiple
<1>4. ((x - (x % Block)) + Block) % Block = 0
  BY <1>2, <1>3, Zenon
<1> QED
  BY <1>1, <1>4, Zenon

LEMMA InSegment ==
  ASSUME NEW x \in Nat, x < Segment
  PROVE  Low(x) = x
  BY Sizes DEF Low

LEMMA LowNat == ASSUME NEW x \in Nat PROVE Low(x) \in Nat
  BY Sizes, Division DEF Low

LEMMA EepromBank ==
  ASSUME NEW a \in Nat, Bank(a) = 3
  PROVE  AppStart <= a
<1> DEFINE q == a \div Segment
<1>1. a = q * Segment + (a % Segment) /\ a % Segment \in 0 .. Segment - 1
  <2>1. Segment \in Nat \ {0}
    BY Sizes
  <2> QED
    BY <2>1, Division, Zenon
<1>2. q = 3
  BY DEF Bank
<1> HIDE DEF q
<1> QED
  BY <1>1, <1>2, Sizes

-----------------------------------------------------------------------------
(* Packets and scripts.                                                     *)

LEMMA AddressedPacket ==
  ASSUME NEW p \in Packet, p.cmd \in {"PROGRAM_DEVICE", "GET_DATA"}
  PROVE  p.addr \in Nat /\ p.data \in Seq(Cell) /\ Len(p.data) \in Nat
  BY DEF Packet, Queries

LEMMA WrittenPacket ==
  ASSUME NEW p \in Sendable, Writes(p)
  PROVE  /\ p.addr \in Nat /\ Len(p.data) \in Nat \ {0}
         /\ AppStart <= p.addr /\ After(p) <= FlashEnd /\ After(p) = p.addr + Len(p.data)
         /\ p.addr \notin LooseEnds
         /\ Loose(p) => After(p) \in LooseEnds
<1>1. p \in Packet /\ p \in ScriptPackets /\ p.cmd = "PROGRAM_DEVICE"
  BY DEF Sendable, Writes
<1>2. p.addr \in Nat /\ p.data \in Seq(Cell) /\ Len(p.data) \in Nat
  BY <1>1, AddressedPacket
<1>3. /\ p.data # <<>> /\ AppStart <= p.addr /\ After(p) <= FlashEnd
      /\ p.addr \notin LooseEnds
  BY <1>1, SafeImages
<1>4. Len(p.data) # 0
  BY <1>2, <1>3
<1>5. Loose(p) => After(p) \in LooseEnds
  BY <1>1, Zenon DEF LooseEnds
<1> QED
  BY <1>2, <1>3, <1>4, <1>5 DEF After

LEMMA NewScript ==
  ASSUME NEW v \in Versions, NEW cfg \in ConfigAsked
  PROVE  Script(v, cfg) \in Seq(Sendable) /\ Continues(Script(v, cfg), FALSE)
<1> DEFINE s == Script(v, cfg)
<1>1. s \in Scripts
  BY DEF Scripts
<1> HIDE DEF s
<1>2. s \in Seq(Packet) /\ Continues(s, FALSE)
  BY <1>1, SafeImages
<1>3. \A i \in DOMAIN s : s[i] \in ScriptPackets
  BY <1>1 DEF ScriptPackets
<1>4. s \in Seq(Sendable)
  BY <1>2, <1>3 DEF Sendable
<1> QED
  BY <1>2, <1>4 DEF s

\* The first packet of a queue leaves it.
LEMMA FirstLeaves ==
  ASSUME NEW s \in Seq(Sendable), s # <<>>, Continues(s, TRUE)
  PROVE  /\ Head(s) \in Sendable
         /\ Tail(s) \in Seq(Sendable)
         /\ Continues(Tail(s), Writes(Head(s)))
<1>1. Head(s) \in Sendable /\ Tail(s) \in Seq(Sendable) /\ Head(s) = s[1] /\ 1 \in DOMAIN s
  OBVIOUS
<1>2. ASSUME NEW i \in DOMAIN Tail(s), Misfit(Tail(s)[i])
      PROVE  IF i = 1 THEN Writes(Head(s)) ELSE Writes(Tail(s)[i - 1])
  <2>1. i \in Nat \ {0} /\ i + 1 \in DOMAIN s /\ Tail(s)[i] = s[i + 1]
    OBVIOUS
  <2>2. Writes(s[i])
    BY <2>1, <1>2 DEF Continues
  <2>3. i # 1 => Tail(s)[i - 1] = s[i]
    BY <2>1
  <2> QED
    BY <1>1, <2>1, <2>2, <2>3
<1> QED
  BY <1>1, <1>2 DEF Continues

-----------------------------------------------------------------------------
(* The memory.                                                              *)

LEMMA EraseKeeps ==
  ASSUME BootloaderIntact, NEW cells, mem' = Erase(cells),
         \A a \in BootRegion : a \notin cells
  PROVE  BootloaderIntact'
<1>1. BootRegion \subseteq Memory
  BY Sizes DEF BootRegion, Memory, Flash
<1> QED
  BY <1>1 DEF BootloaderIntact, Erase

LEMMA OverwriteKeeps ==
  ASSUME BootloaderIntact, NEW x \in Int, AppStart <= x, Overwrite(x),
         Len(PacketFromPC.data) \in Nat
  PROVE  BootloaderIntact'
<1>1. BootRegion \subseteq Memory
  BY Sizes DEF BootRegion, Memory, Flash
<1>2. \A a \in BootRegion : a \notin x .. x + Len(PacketFromPC.data) - 1
  BY Sizes DEF BootRegion
<1> QED
  BY <1>1, <1>2 DEF BootloaderIntact, Overwrite

LEMMA LatchesKeep ==
  ASSUME BootloaderIntact, NEW first \in Int, NEW latch, WriteLatches(first, latch),
         \/ AppStart <= first
         \/ \A k \in 0 .. Block - 1 : latch[k] = Erased
  PROVE  BootloaderIntact'
<1>1. BootRegion \subseteq Memory
  BY Sizes DEF BootRegion, Memory, Flash
<1>2. SUFFICES ASSUME NEW a \in BootRegion PROVE mem'[a] = mem[a]
  BY DEF BootloaderIntact
<1>3. mem'[a] = IF a \in first .. first + Block - 1
                  THEN Programmed(mem[a], latch[a - first]) ELSE mem[a]
  BY <1>1 DEF WriteLatches
<1>4. a \in Int /\ a < AppStart
  BY Sizes DEF BootRegion
<1>5. CASE AppStart <= first
  BY <1>3, <1>4, <1>5, Sizes
<1>6. CASE \A k \in 0 .. Block - 1 : latch[k] = Erased
  <2>1. a \in first .. first + Block - 1 => a - first \in 0 .. Block - 1
    BY <1>4, Sizes
  <2> QED
    BY <1>3, <1>6, <2>1 DEF Programmed
<1> QED
  BY <1>5, <1>6

\* An empty buffer programs nothing, wherever the pointer is.
LEMMA EmptyWrite ==
  ASSUME BootloaderIntact, NEW pointer \in Nat, NEW buffer,
         WriteFlashBlock(pointer, buffer, 0)
  PROVE  BootloaderIntact' /\ BufferedDataIndex' = 0
<1> DEFINE base == Low(pointer - 0)
           correction == base % Block
           first == base - correction
           taken == IF 0 < Block - correction THEN 0 ELSE Block - correction
           latch == [k \in 0 .. Block - 1 |->
                       IF k \in correction .. correction + taken - 1
                         THEN buffer[k - correction] ELSE Erased]
<1>1. base \in Nat
  BY LowNat
<1>2. WriteLatches(first, latch) /\ BufferedDataIndex' = 0 - taken
  BY DEF WriteFlashBlock
<1> HIDE DEF base
<1>3. correction \in 0 .. Block - 1
  BY <1>1, NextBlock
<1> HIDE DEF correction
<1>4. taken = 0
  BY <1>3, Sizes
<1>5. first \in Int /\ \A k \in 0 .. Block - 1 : latch[k] = Erased
  BY <1>1, <1>3, <1>4, Sizes
<1> HIDE DEF latch, first, taken
<1> QED
  BY <1>2, <1>4, <1>5, LatchesKeep

\* The buffered bytes of the application go where they belong, or to the end of their
\* block.
LEMMA BlockWrite ==
  ASSUME BootloaderIntact, NEW pointer \in Nat, NEW buffer, NEW count \in 1 .. Block,
         AppStart <= pointer - count, pointer - count < Segment,
         WriteFlashBlock(pointer, buffer, count)
  PROVE  /\ BootloaderIntact'
         /\ BufferedDataIndex' = IF count < Block - ((pointer - count) % Block) THEN 0
                                 ELSE count - (Block - ((pointer - count) % Block))
<1> DEFINE base == Low(pointer - count)
           correction == base % Block
           first == base - correction
           taken == IF count < Block - correction THEN count ELSE Block - correction
           latch == [k \in 0 .. Block - 1 |->
                       IF k \in correction .. correction + taken - 1
                         THEN buffer[k - correction] ELSE Erased]
<1>1. pointer - count \in Nat /\ base = pointer - count
  BY InSegment, Sizes
<1>2. WriteLatches(first, latch) /\ BufferedDataIndex' = count - taken
  BY DEF WriteFlashBlock
<1> HIDE DEF base
<1>3. correction \in 0 .. Block - 1 /\ AppStart <= first
  BY <1>1, NextBlock, StartInApplication, AppStartsBlock, Sizes, SMTT(30)
<1> HIDE DEF correction
<1>4. first \in Int
  BY <1>1, <1>3, Sizes
<1>5. BufferedDataIndex' = IF count < Block - correction THEN 0
                           ELSE count - (Block - correction)
  BY <1>2, <1>3, Sizes
<1>6. correction = (pointer - count) % Block
  BY <1>1 DEF correction
<1> HIDE DEF latch, first, taken
<1> QED
  BY <1>2, <1>3, <1>4, <1>5, <1>6, LatchesKeep

-----------------------------------------------------------------------------
(* The bytes of a packet.                                                   *)

LEMMA FillingFacts ==
  ASSUME IInv, ProgramByte
  PROVE  /\ PacketFromPC \in Sendable /\ Writes(PacketFromPC) /\ Filling /\ Middle
         /\ Base \in Nat /\ Base < Segment
<1>1. PacketFromPC \in Sendable /\ Writes(PacketFromPC) /\ Filling /\ Middle
  BY DEF IInv, Buffer, Pipeline, Filling, Busy, ProgramByte, ToFlash, Working, Writes
<1>2. ProgrammedPointer < FlashEnd
  BY <1>1, WrittenPacket, Sizes DEF Middle, IInv, Counters
<1>3. /\ ProgrammedPointer \in Nat /\ BufferedDataIndex \in Nat
      /\ AppStart <= ProgrammedPointer - BufferedDataIndex
  BY <1>1, Sizes DEF Base, Middle, IInv, Counters
<1>4. Base \in Nat /\ Base < Segment
  BY <1>2, <1>3, Sizes DEF Base
<1> QED
  BY <1>1, <1>4

\* The byte that completes a block: the bytes that remain in the buffer start on one.
LEMMA LastOfBlock ==
  ASSUME IInv, ProgramByte, BufferedDataIndex + 1 = Block
  PROVE  /\ BootloaderIntact'
         /\ BufferedDataIndex' \in 0 .. Block - 1
         /\ AppStart <= Base' /\ Base' % Block = 0
<1> DEFINE r == Base % Block
<1>1. Base \in Nat /\ Base < Segment /\ AppStart <= Base
  BY FillingFacts DEF Middle
<1>2. r \in 0 .. Block - 1 /\ ((Base - r) + Block) % Block = 0
  BY <1>1, NextBlock
<1>3. /\ WriteFlashBlock(ProgrammedPointer + 1, Buffered, BufferedDataIndex + 1)
      /\ ProgrammedPointer' = ProgrammedPointer + 1
  BY DEF ProgramByte
<1>4. ProgrammedPointer + 1 \in Nat /\ BufferedDataIndex + 1 \in 1 .. Block
  BY Sizes DEF IInv, Counters
<1>5. (ProgrammedPointer + 1) - (BufferedDataIndex + 1) = Base
  BY DEF Base, IInv, Counters
<1>6. BootloaderIntact' /\ BufferedDataIndex' = r
  <2> DEFINE pointer == ProgrammedPointer + 1
             count == BufferedDataIndex + 1
  <2>1. /\ BootloaderIntact
        /\ WriteFlashBlock(pointer, Buffered, count)
        /\ pointer \in Nat /\ count \in 1 .. Block /\ pointer - count = Base
    BY <1>3, <1>4, <1>5 DEF IInv
  <2>2. count = Block
    OBVIOUS
  <2> HIDE DEF Base, pointer, count
  <2>3. AppStart <= pointer - count /\ pointer - count < Segment
    BY <1>1, <2>1
  <2>4. BootloaderIntact' /\ BufferedDataIndex' =
          IF count < Block - ((pointer - count) % Block) THEN 0
          ELSE count - (Block - ((pointer - count) % Block))
    BY <2>1, <2>3, BlockWrite
  <2>5. BufferedDataIndex' = IF Block < Block - r THEN 0 ELSE Block - (Block - r)
    BY <2>1, <2>2, <2>4, Zenon
  <2>6. r \in 0 .. Block - 1
    BY <1>2
  <2> HIDE DEF r
  <2>7. BufferedDataIndex' = r
    BY <2>5, <2>6, Sizes
  <2> QED
    BY <2>4, <2>7
<1> HIDE DEF r
<1>7. BufferedDataIndex' \in 0 .. Block - 1
  BY <1>2, <1>6
<1>8. Base' = (Base - r) + Block
  BY <1>2, <1>3, <1>6, Sizes DEF Base, IInv, Counters
<1>9. Base' % Block = 0
  BY <1>2, <1>8, Zenon
<1> QED
  BY <1>1, <1>2, <1>6, <1>7, <1>8, <1>9, Sizes

\* Any other byte stays in the buffer.
LEMMA OtherByte ==
  ASSUME IInv, ProgramByte, BufferedDataIndex + 1 # Block
  PROVE  /\ BootloaderIntact'
         /\ BufferedDataIndex' = BufferedDataIndex + 1
         /\ BufferedDataIndex' \in 0 .. Block - 1
         /\ Base' = Base
  BY Sizes DEF IInv, Counters, ProgramByte, BootloaderIntact, Base

LEMMA ByteCounters ==
  ASSUME IInv, ProgramByte
  PROVE  BootloaderIntact' /\ Counters'
<1>1. BootloaderIntact' /\ BufferedDataIndex' \in 0 .. Block - 1
  BY LastOfBlock, OtherByte
<1>2. /\ ProgrammedPointer' \in Nat /\ loop' \in Nat
      /\ BootState' \in {"IDLE", "NOT_IDLE"} /\ (~Busy' => loop' = 0)
  BY DEF IInv, Counters, Busy, ProgramByte, NextByte, Done, ToFlash, Working
<1> QED
  BY <1>1, <1>2 DEF Counters

LEMMA ByteBuffer ==
  ASSUME IInv, ProgramByte
  PROVE  Buffer'
<1> DEFINE p == PacketFromPC
           size == Len(p.data)
<1>1. /\ p \in Sendable /\ Writes(p) /\ Filling /\ Middle
      /\ Base \in Nat /\ Base < Segment
  BY FillingFacts
<1>2. /\ p.addr \in Nat /\ size \in Nat \ {0} /\ AppStart <= p.addr
      /\ After(p) <= FlashEnd /\ After(p) = p.addr + size
      /\ Loose(p) => After(p) \in LooseEnds
  BY <1>1, WrittenPacket
<1>3. /\ p' = p /\ ProgrammedPointer' = p.addr + loop
      /\ loop \in 1 .. size /\ NextByte
      /\ ProgrammedPointer = p.addr + loop - 1
  BY <1>1, <1>2 DEF ProgramByte, rest, Middle, IInv, Counters
<1>4. AppStart <= Base'
  BY <1>1, LastOfBlock, OtherByte DEF Middle
<1>5. \/ Base' % Block = 0
      \/ /\ BufferedDataIndex' = loop /\ loop < Block /\ ~Misfit(p)
         /\ p.addr % Block # 0 /\ Base' = p.addr
  <2>1. CASE BufferedDataIndex + 1 = Block
    BY <2>1, LastOfBlock
  <2>2. CASE BufferedDataIndex + 1 # Block
    <3>1. Base' = Base /\ BufferedDataIndex' = BufferedDataIndex + 1
          /\ BufferedDataIndex' < Block
      BY <2>2, OtherByte, Sizes
    <3>2. CASE Base % Block = 0
      BY <3>1, <3>2, Zenon
    <3>3. CASE Base % Block # 0
      <4>1. BufferedDataIndex = loop - 1 /\ ~Misfit(p)
        BY <1>1, <3>3 DEF Middle
      <4>2. Base = p.addr
        BY <1>2, <1>3, <4>1 DEF Base
      <4>3. p.addr % Block # 0
        BY <3>3, <4>2, Zenon
      <4> QED
        BY <1>3, <3>1, <4>1, <4>2, <4>3
    <3> QED
      BY <3>2, <3>3
  <2> QED
    BY <2>1, <2>2
<1>6. CASE loop = size
  <2>1. ~Filling' /\ ProgrammedPointer' = After(p)
    BY <1>2, <1>3, <1>6 DEF Filling, Busy, NextByte, Done
  <2>2. ProgrammedPointer' <= FlashEnd /\ ProgrammedPointer' # InvalidAddress
    BY <1>2, <2>1, Sizes
  <2>3. CASE Base' % Block = 0
    BY <1>4, <2>1, <2>2, <2>3 DEF Buffer, Settled
  <2>4. CASE /\ BufferedDataIndex' = loop /\ loop < Block /\ ~Misfit(p)
             /\ p.addr % Block # 0 /\ Base' = p.addr
    <3>1. Loose(p)
      BY <1>1, <1>6, <2>4 DEF Loose
    <3>2. (p.addr % Block) + size <= Block
      <4>1. p.addr % Block \in Nat
        BY <1>2, NextBlock, Sizes
      <4> QED
        BY <1>2, <2>4, <3>1, <4>1, Sizes DEF Misfit
    <3>3. (Base' % Block) + BufferedDataIndex' <= Block
      BY <1>6, <2>4, <3>2
    <3>4. ProgrammedPointer' \in LooseEnds
      BY <1>2, <2>1, <3>1
    <3> QED
      BY <1>4, <2>1, <2>2, <3>3, <3>4 DEF Buffer, Settled
  <2> QED
    BY <1>5, <2>3, <2>4
<1>7. CASE loop # size
  <2>1. loop' = loop + 1 /\ BootState' = BootState
    BY <1>7 DEF ProgramByte, NextByte
  <2>2. Filling'
    BY <1>1, <1>3, <2>1 DEF Filling, Busy, Writes
  <2>3. loop' <= Len(p'.data) /\ ProgrammedPointer' = p'.addr + loop' - 1
    BY <1>2, <1>3, <1>7, <2>1
  <2>4. Base' % Block = 0 \/ (BufferedDataIndex' = loop' - 1 /\ ~Misfit(p)')
    <3>1. Misfit(p)' = Misfit(p)
      BY <1>3 DEF Misfit, Loose, Writes
    <3> QED
      BY <1>3, <1>5, <2>1, <3>1
  <2> QED
    BY <1>4, <2>2, <2>3, <2>4 DEF Buffer, Middle
<1> QED
  BY <1>6, <1>7

-----------------------------------------------------------------------------
(* The other steps of a section.                                            *)

\* A packet is taken only if the buffer is empty, or starts on a block.
LEMMA ContiguousBuffer ==
  ASSUME IInv, ProgramContiguous
  PROVE  Buffer'
<1> DEFINE p == PacketFromPC
<1>1. /\ p \in Sendable /\ Writes(p) /\ Busy
      /\ loop = 0 /\ Misfit(p) => ProgrammedPointer # InvalidAddress
      /\ ~Filling /\ Settled
  BY DEF IInv, Buffer, Pipeline, Filling, Busy, ProgramContiguous, ToFlash, Working, Writes
<1>2. /\ p.addr \in Nat /\ Len(p.data) \in Nat \ {0} /\ AppStart <= p.addr
      /\ p.addr \notin LooseEnds /\ p.addr <= FlashEnd
  BY <1>1, WrittenPacket, Sizes
<1>3. /\ p' = p /\ BootState' = BootState /\ loop = 0 /\ loop' = 1
      /\ ProgrammedPointer' = p.addr /\ BufferedDataIndex' = BufferedDataIndex
      /\ ProgrammedPointer \in {InvalidAddress, p.addr}
  BY DEF ProgramContiguous, rest
<1>4. Filling'
  BY <1>1, <1>3 DEF Filling, Busy, Writes
<1>5. AppStart <= Base' /\ (Base' % Block = 0 \/ (BufferedDataIndex = 0 /\ ~Misfit(p)))
  <2>1. CASE ProgrammedPointer = InvalidAddress
    BY <1>1, <1>2, <1>3, <2>1 DEF Settled, Base
  <2>2. CASE ProgrammedPointer # InvalidAddress
    <3>1. Base' = Base /\ AppStart <= Base /\ Base % Block = 0
      BY <1>1, <1>2, <1>3, <2>2 DEF Settled, Base
    <3> QED
      BY <3>1
  <2> QED
    BY <2>1, <2>2
<1>6. Misfit(p)' = Misfit(p)
  BY <1>3 DEF Misfit, Loose, Writes
<1> QED
  BY <1>2, <1>3, <1>4, <1>5, <1>6 DEF Buffer, Middle

\* PROGRAM_COMPLETE writes all that is in the buffer.
LEMMA CompleteWrites ==
  ASSUME IInv, ProgramComplete
  PROVE  BootloaderIntact' /\ BufferedDataIndex' = 0
<1>1. ~Filling /\ Settled
  BY DEF IInv, Buffer, Filling, ProgramComplete, Working, Writes
<1>2. WriteFlashBlock(ProgrammedPointer, ProgrammingBuffer, BufferedDataIndex)
  BY DEF ProgramComplete
<1>3. /\ ProgrammedPointer \in Nat /\ BufferedDataIndex \in 0 .. Block - 1
      /\ BootloaderIntact
  BY DEF IInv, Counters
<1>4. CASE BufferedDataIndex = 0
  BY <1>2, <1>3, <1>4, EmptyWrite
<1>5. CASE BufferedDataIndex # 0
  <2>1. /\ AppStart <= Base /\ Base < Segment /\ BufferedDataIndex \in 1 .. Block
        /\ Base = ProgrammedPointer - BufferedDataIndex /\ Base \in Nat
        /\ Base % Block = 0 \/ (Base % Block) + BufferedDataIndex <= Block
    BY <1>1, <1>3, <1>5, Sizes DEF Settled, Base
  <2>2. Base % Block \in 0 .. Block - 1
    BY <2>1, NextBlock
  <2>3. /\ BootloaderIntact'
        /\ BufferedDataIndex' = IF BufferedDataIndex < Block - (Base % Block) THEN 0
                                ELSE BufferedDataIndex - (Block - (Base % Block))
    <3> HIDE DEF Base
    <3> QED
      BY <1>2, <1>3, <2>1, BlockWrite
  <2> QED
    BY <1>3, <2>1, <2>2, <2>3, Sizes
<1> QED
  BY <1>4, <1>5

-----------------------------------------------------------------------------
(* The buffer, the counters and the memory in every other step.             *)

LEMMA StillDevice ==
  ASSUME IInv, UNCHANGED <<mem, device>>
  PROVE  BootloaderIntact' /\ Counters' /\ Buffer'
<1>1. UNCHANGED <<mem, BootState, PacketFromPC, ProgrammedPointer, BufferedDataIndex, loop>>
  BY DEF device, buffering
<1>2. BootloaderIntact' /\ Counters'
  BY <1>1 DEF IInv, BootloaderIntact, Counters, Busy
<1>3. (Filling' <=> Filling) /\ (Middle' <=> Middle) /\ (Settled' <=> Settled)
  BY <1>1 DEF Filling, Middle, Settled, Busy, Base, Writes, Misfit, Loose
<1> QED
  BY <1>2, <1>3 DEF IInv, Buffer

\* A command that is not a packet for the buffer leaves the pointer and the count.
LEMMA StillBuffer ==
  ASSUME IInv, ~Filling, ~Filling', UNCHANGED <<ProgrammedPointer, BufferedDataIndex>>
  PROVE  Buffer'
  BY DEF IInv, Buffer, Settled, Base

OtherCommand ==
  \/ Receive \/ QueryDevice \/ UnlockConfig \/ EraseFlashPage \/ EraseEepromAndUserId
  \/ ProgramConfigBits \/ ProgramEeprom \/ ProgramIgnored \/ GetData
  \/ SignBegin \/ SignBlock

LEMMA OtherBuffer ==
  ASSUME IInv, OtherCommand
  PROVE  Buffer' /\ Counters'
<1>1. UNCHANGED <<ProgrammedPointer, BufferedDataIndex>>
  BY DEF OtherCommand, Receive, QueryDevice, UnlockConfig, EraseFlashPage,
         EraseEepromAndUserId, ProgramConfigBits, ProgramEeprom, ProgramIgnored, GetData,
         SignBegin, SignBlock, buffering
<1>2. Counters
  BY DEF IInv
<1>3. ~Filling /\ ~Filling' /\ loop' \in Nat /\ (~Busy' => loop' = 0)
      /\ BootState' \in {"IDLE", "NOT_IDLE"}
  <2>1. CASE Receive
    BY <1>2, <2>1 DEF Receive, Filling, Busy, Counters
  <2>2. CASE QueryDevice
    BY <1>2, <2>2 DEF QueryDevice, Queries, Filling, Busy, Counters, Writes, Working, Done
  <2>3. CASE UnlockConfig
    BY <1>2, <2>3 DEF UnlockConfig, Filling, Busy, Counters, Writes, Working, Done
  <2>4. CASE EraseFlashPage
    BY <1>2, <2>4 DEF EraseFlashPage, rest, Filling, Busy, Counters, Writes, Working
  <2>5. CASE EraseEepromAndUserId
    BY <1>2, <2>5 DEF EraseEepromAndUserId, Filling, Busy, Counters, Writes, Working, Done
  <2>6. CASE ProgramConfigBits
    BY <1>2, <2>6 DEF ProgramConfigBits, Filling, Busy, Counters, Writes, Working, Done
  <2>7. CASE ProgramEeprom
    BY <1>2, <2>7 DEF ProgramEeprom, Filling, Busy, Counters, Writes, Working, Done
  <2>8. CASE ProgramIgnored
    BY <1>2, <2>8 DEF ProgramIgnored, ToFlash, Filling, Busy, Counters, Working, Done
  <2>9. CASE GetData
    BY <1>2, <2>9 DEF GetData, Filling, Busy, Counters, Writes, Working, Done
  <2>10. CASE SignBegin
    BY <1>2, <2>10 DEF SignBegin, rest, Filling, Busy, Counters, Writes, Working
  <2>11. CASE SignBlock
    BY <1>2, <2>11 DEF SignBlock, rest, Filling, Busy, Counters, Writes, Working, Done
  <2> QED
    BY <2>1, <2>2, <2>3, <2>4, <2>5, <2>6, <2>7, <2>8, <2>9, <2>10, <2>11 DEF OtherCommand
<1>4. Counters'
  BY <1>1, <1>2, <1>3 DEF Counters
<1> QED
  BY <1>1, <1>3, <1>4, StillBuffer

LEMMA SigPageInApplication == SigPage \in Nat /\ AppStart <= SigPage
<1>1. Page \in Nat \ {0} /\ SigAddress \in Nat
  BY Sizes
<1>2. SigAddress % Page \in 0 .. Page - 1
  BY <1>1, Division
<1>3. AppStart <= SigAddress - (SigAddress % Page)
  BY <1>1, Sizes, AppStartsBlock, StartInApplication
<1> QED
  BY <1>1, <1>2, <1>3, Sizes DEF SigPage

LEMMA OtherIntact ==
  ASSUME IInv, OtherCommand
  PROVE  BootloaderIntact'
<1>1. BootloaderIntact /\ Counters
  BY DEF IInv
<1>2. \A a \in BootRegion : a \in Nat /\ a < AppStart
  BY Sizes DEF BootRegion
<1>3. CASE UNCHANGED mem
  BY <1>1, <1>3 DEF BootloaderIntact
<1>4. CASE EraseFlashPage
  <2>1. loop * Page \in Nat
    BY <1>1, Sizes, Product DEF Counters
  <2>2. \A a \in BootRegion : a \notin PageAt(AppStart + loop * Page)
    <3> DEFINE start == loop * Page
    <3>1. start \in Nat
      BY <2>1
    <3> HIDE DEF start
    <3>2. \A a \in BootRegion : a \notin PageAt(AppStart + start)
      BY <1>2, <3>1, Sizes DEF PageAt
    <3> QED
      BY <3>2 DEF start
  <2> QED
    BY <1>1, <1>4, <2>2, EraseKeeps DEF EraseFlashPage
<1>5. CASE EraseEepromAndUserId
  <2>1. \A a \in BootRegion : a \notin Eeprom \cup UserId
    BY <1>2, Sizes DEF Eeprom, UserId, InBank
  <2> QED
    BY <1>1, <1>5, <2>1, EraseKeeps DEF EraseEepromAndUserId
<1>6. ASSUME Working("PROGRAM_DEVICE")
      PROVE  PacketFromPC.addr \in Nat /\ Len(PacketFromPC.data) \in Nat
  <2>1. PacketFromPC \in Packet /\ PacketFromPC.cmd = "PROGRAM_DEVICE"
    BY <1>6 DEF IInv, Pipeline, Busy, Working, Sendable
  <2> QED
    BY <2>1, AddressedPacket
<1>7. CASE ProgramConfigBits
  <2>1. PacketFromPC.addr \in Nat /\ Len(PacketFromPC.data) \in Nat
    BY <1>6, <1>7 DEF ProgramConfigBits
  <2>2. SUFFICES ASSUME ~ConfigsLockValue PROVE BootloaderIntact'
    BY <1>3, <1>7 DEF ProgramConfigBits
  <2>3. PICK stale \in 0 .. LowByte - 1 :
          Overwrite(2 * Segment + (PacketFromPC.addr % LowByte) * LowByte + stale)
    BY <1>7, <2>2 DEF ProgramConfigBits
  <2>4. (PacketFromPC.addr % LowByte) * LowByte \in Nat
    <3>1. LowByte \in Nat \ {0}
      BY Sizes
    <3>2. PacketFromPC.addr % LowByte \in 0 .. LowByte - 1
      BY <2>1, <3>1, Division, Zenon
    <3> HIDE <2>3
    <3> QED
      BY <3>1, <3>2, Product
  <2> DEFINE offset == (PacketFromPC.addr % LowByte) * LowByte
             x == 2 * Segment + offset + stale
  <2>5. x \in Int /\ AppStart <= x
    <3>1. offset \in Nat /\ stale \in Nat
      BY <2>4
    <3> HIDE DEF offset
    <3> QED
      BY <3>1, Sizes
  <2>6. Overwrite(x)
    BY <2>3
  <2> HIDE DEF x
  <2> QED
    BY <1>1, <2>1, <2>5, <2>6, OverwriteKeeps
<1>8. CASE ProgramEeprom
  <2>1. PacketFromPC.addr \in Nat /\ Len(PacketFromPC.data) \in Nat
    BY <1>6, <1>8 DEF ProgramEeprom
  <2>2. AppStart <= PacketFromPC.addr
    BY <1>8, <2>1, EepromBank DEF ProgramEeprom
  <2> QED
    BY <1>1, <1>8, <2>1, <2>2, OverwriteKeeps DEF ProgramEeprom
<1>9. CASE SignBegin
  <2>1. \A a \in BootRegion : a \notin PageAt(SigPage)
    BY <1>2, SigPageInApplication, Sizes DEF PageAt
  <2> QED
    BY <1>1, <1>9, <2>1, EraseKeeps DEF SignBegin
<1>10. CASE SignBlock
  <2> DEFINE offset == (Blocks - loop) * Block
             latch == [k \in 0 .. Block - 1 |-> ProgrammingBuffer[offset + k]]
  <2>1. WriteLatches(SigPage + offset, latch)
    BY <1>10 DEF SignBlock
  <2>2. Blocks - loop \in Nat
    <3>1. Blocks \in Nat
      BY Sizes, Division DEF Blocks
    <3> QED
      BY <1>10, <3>1 DEF SignBlock
  <2>3. offset \in Nat
    BY <2>2, Sizes, Product
  <2> HIDE DEF offset, latch
  <2>4. SigPage + offset \in Int /\ AppStart <= SigPage + offset
    BY <2>3, SigPageInApplication, Sizes
  <2> QED
    BY <1>1, <2>1, <2>4, LatchesKeep
<1>11. OtherCommand =>
         \/ UNCHANGED mem \/ EraseFlashPage \/ EraseEepromAndUserId \/ ProgramConfigBits
         \/ ProgramEeprom \/ SignBegin \/ SignBlock
  BY DEF OtherCommand, Receive, QueryDevice, UnlockConfig, ProgramIgnored, GetData
<1> QED
  BY <1>3, <1>4, <1>5, <1>7, <1>8, <1>9, <1>10, <1>11

-----------------------------------------------------------------------------
(* The packets on their way.                                                *)

\* The device goes on, and leaves its queue alone.
LEMMA StillQueue ==
  ASSUME Pipeline, UNCHANGED <<mode, script, sent, out>>,
         AfterDevice => AfterDevice',
         Busy' => /\ Busy /\ PacketFromPC' = PacketFromPC
                  /\ loop' = 0 /\ Misfit(PacketFromPC) => ProgrammedPointer' # InvalidAddress
  PROVE  Pipeline'
<1>1. AfterOut => AfterOut'
  BY DEF AfterOut, Writes
<1>2. Continues(script, AfterOut)'
  BY <1>1 DEF Pipeline, Continues, Misfit, Loose, Writes
<1>3. Busy' => PacketFromPC' \in Sendable
  BY DEF Pipeline
<1>4. Misfit(PacketFromPC') => Misfit(PacketFromPC) \/ ~Busy'
  BY DEF Misfit, Loose, Writes
<1> QED
  BY <1>2, <1>3, <1>4 DEF Pipeline

\* The device is not concerned.
LEMMA StillQueueDevice ==
  ASSUME UNCHANGED device
  PROVE  /\ AfterDevice' = AfterDevice /\ Busy' = Busy /\ PacketFromPC' = PacketFromPC
         /\ loop' = loop /\ ProgrammedPointer' = ProgrammedPointer
  BY DEF device, buffering, AfterDevice, Busy, Writes

LEMMA NoScript == <<>> \in Seq(Sendable) /\ \A before \in BOOLEAN : Continues(<<>>, before)
  BY DEF Continues

LEMMA HostPipeline ==
  ASSUME Pipeline, Host
  PROVE  Pipeline'
<1>1. UNCHANGED <<mode, device>>
  BY DEF Host, HostStart, HostSend, HostPoll, HostReceive, HostAbort
<1>2. /\ AfterDevice' = AfterDevice /\ Busy' = Busy /\ PacketFromPC' = PacketFromPC
      /\ loop' = loop /\ ProgrammedPointer' = ProgrammedPointer
  BY <1>1, StillQueueDevice
<1>3. Busy' => /\ PacketFromPC' \in Sendable
               /\ loop' = 0 /\ Misfit(PacketFromPC') => ProgrammedPointer' # InvalidAddress
  BY <1>2 DEF Pipeline
<1>4. CASE HostStart
  <2>1. PICK v \in Versions, cfg \in ConfigAsked : script' = Script(v, cfg)
    BY <1>4 DEF HostStart
  <2>2. script' \in Seq(Sendable) /\ Continues(script', FALSE)
    BY <2>1, NewScript
  <2>3. Continues(script, AfterOut)'
    BY <2>2 DEF Continues
  <2>4. mode = "boot" /\ out' = out /\ sent' = FALSE
    BY <1>4 DEF HostStart, usb
  <2>5. out' # NoPacket => out' \in Sendable /\ (Misfit(out') => AfterDevice')
    BY <1>2, <2>4 DEF Pipeline
  <2> QED
    BY <1>1, <1>3, <2>2, <2>3, <2>4, <2>5 DEF Pipeline
<1>5. CASE HostSend
  <2>1. /\ script # <<>> /\ out = NoPacket /\ out' = Head(script) /\ mode = "boot"
        /\ sent' = Answered(Head(script))
        /\ script' = IF Answered(Head(script)) THEN script ELSE Tail(script)
    BY <1>5 DEF HostSend
  <2>2. /\ script \in Seq(Sendable) /\ Continues(script, AfterDevice)
    BY <2>1 DEF Pipeline, AfterOut
  <2>3. /\ Head(script) \in Sendable /\ Tail(script) \in Seq(Sendable)
        /\ Misfit(Head(script)) => AfterDevice
        /\ Continues(Tail(script), Writes(Head(script)))
    <3>1. Continues(script, TRUE) /\ Head(script) = script[1] /\ 1 \in DOMAIN script
      BY <2>1, <2>2 DEF Continues
    <3>2. Misfit(Head(script)) => AfterDevice
      BY <2>2, <3>1 DEF Continues
    <3> QED
      BY <2>1, <2>2, <3>1, <3>2, FirstLeaves
  <2>4. Head(script) # NoPacket
    BY <2>3 DEF Sendable, Packet, Queries, NoPacket
  <2>5. AfterOut' = Writes(Head(script))
    BY <2>1, <2>4 DEF AfterOut, Writes
  <2>6. CASE Answered(Head(script))
    <3>1. Head(script) = script[1] /\ ~Writes(Head(script)) /\ ~Misfit(script[1])
      BY <2>1, <2>2, <2>6 DEF Answered, Queries, Writes, Misfit, Loose
    <3>2. Continues(script, Writes(Head(script)))
      BY <2>2, <3>1 DEF Continues
    <3>3. Continues(script, AfterOut)'
      BY <2>1, <2>5, <2>6, <3>2 DEF Continues
    <3> QED
      BY <1>1, <1>2, <1>3, <2>1, <2>2, <2>3, <2>6, <3>3 DEF Pipeline
  <2>7. CASE ~Answered(Head(script))
    <3>1. Continues(script, AfterOut)'
      BY <2>1, <2>3, <2>5, <2>7 DEF Continues
    <3> QED
      BY <1>1, <1>2, <1>3, <2>1, <2>3, <2>7, <3>1 DEF Pipeline
  <2> QED
    BY <2>6, <2>7
<1>6. CASE HostPoll
  <2>1. UNCHANGED <<mode, script, sent, out>>
    BY <1>6 DEF HostPoll
  <2> QED
    BY <1>2, <1>3, <2>1, StillQueue
<1>7. CASE HostReceive
  <2>1. script # <<>> /\ Answered(Head(script)) /\ mode # "off"
        /\ sent' = FALSE /\ out' = out /\ script' \in {Tail(script), <<>>}
    BY <1>7 DEF HostReceive, Pipeline, usb
  <2>2. script \in Seq(Sendable) /\ Continues(script, AfterOut)
    BY DEF Pipeline
  <2>3. Tail(script) \in Seq(Sendable) /\ Continues(Tail(script), Writes(Head(script)))
    <3>1. Continues(script, TRUE)
      BY <2>2 DEF Continues
    <3> QED
      BY <2>1, <2>2, <3>1, FirstLeaves
  <2>4. ~Writes(Head(script))
    BY <2>1 DEF Answered, Queries, Writes
  <2>5. script' \in Seq(Sendable) /\ Continues(script, AfterOut)'
    BY <2>1, <2>3, <2>4, NoScript DEF Continues
  <2>6. out' # NoPacket => out' \in Sendable /\ (Misfit(out') => AfterDevice')
    BY <1>2, <2>1 DEF Pipeline
  <2> QED
    BY <1>1, <1>3, <2>1, <2>5, <2>6 DEF Pipeline
<1>8. CASE HostAbort
  <2>1. script' = <<>> /\ sent' = FALSE /\ out' \in {out, NoPacket}
    BY <1>8 DEF HostAbort, usb
  <2>2. script' \in Seq(Sendable) /\ Continues(script, AfterOut)'
    BY <2>1, NoScript DEF Continues
  <2>3. out' # NoPacket => out' \in Sendable /\ (Misfit(out') => AfterDevice')
    BY <1>2, <2>1 DEF Pipeline
  <2> QED
    BY <1>1, <1>3, <2>1, <2>2, <2>3 DEF Pipeline
<1> QED
  BY <1>4, <1>5, <1>6, <1>7, <1>8 DEF Host

LEMMA RestartPipeline ==
  ASSUME Pipeline, Restart
  PROVE  Pipeline'
<1>1. script' = <<>> /\ out' = NoPacket /\ sent' = FALSE /\ UNCHANGED device
  BY DEF Restart
<1>2. Busy' => /\ PacketFromPC' \in Sendable
               /\ loop' = 0 /\ Misfit(PacketFromPC') => ProgrammedPointer' # InvalidAddress
  BY <1>1, StillQueueDevice DEF Pipeline
<1>3. script' \in Seq(Sendable) /\ Continues(script, AfterOut)'
  BY <1>1, NoScript DEF Continues
<1> QED
  BY <1>1, <1>2, <1>3 DEF Pipeline

LEMMA PowerOnStep ==
  ASSUME IInv, PowerOn
  PROVE  IInv'
<1>1. /\ mode = "off" /\ mode' # "off"
      /\ BootState' = "IDLE" /\ ProgrammedPointer' = InvalidAddress
      /\ BufferedDataIndex' = 0 /\ loop' = 0 /\ mem' = mem
      /\ script' = script /\ out' = out /\ sent' = sent
  BY DEF PowerOn, UserInit, usb, host
<1>2. script = <<>> /\ out = NoPacket /\ ~sent
  BY <1>1 DEF IInv, Pipeline
<1>3. Counters' /\ BootloaderIntact'
  BY <1>1, Sizes DEF IInv, Counters, BootloaderIntact, Busy
<1>4. Buffer'
  BY <1>1 DEF Buffer, Filling, Busy, Settled
<1>5. Pipeline'
  <2>1. script' \in Seq(Sendable) /\ Continues(script, AfterOut)'
    BY <1>1, <1>2, NoScript DEF Continues
  <2> QED
    BY <1>1, <1>2, <2>1 DEF Pipeline, Busy
<1> QED
  BY <1>3, <1>4, <1>5 DEF IInv

LEMMA ReceivePipeline ==
  ASSUME Pipeline, Receive
  PROVE  Pipeline'
<1>1. /\ out # NoPacket /\ out' = NoPacket /\ PacketFromPC' = out /\ ~Busy /\ Busy'
      /\ UNCHANGED <<mode, script, sent>> /\ ProgrammedPointer' = ProgrammedPointer
      /\ mode = "boot"
  BY DEF Receive, Busy, host, buffering
<1>2. out \in Sendable /\ (Misfit(out) => ProgrammedPointer # InvalidAddress)
  BY <1>1 DEF Pipeline, AfterDevice
<1>3. AfterOut' = Writes(out) /\ AfterOut = Writes(out)
  BY <1>1 DEF AfterOut, AfterDevice, Writes
<1>4. Continues(script, AfterOut)'
  BY <1>1, <1>3 DEF Pipeline, Continues
<1>5. Misfit(PacketFromPC') = Misfit(out)
  BY <1>1
<1> QED
  BY <1>1, <1>2, <1>4, <1>5 DEF Pipeline

\* A packet for the buffer leaves the pointer after it, or where another one left it.
LEMMA CommandPipeline ==
  ASSUME IInv, ProcessIO, ~Receive, ~ResetDeviceCleanly
  PROVE  Pipeline'
<1>1. /\ UNCHANGED <<mode, script, sent, out>> /\ PacketFromPC' = PacketFromPC /\ Busy
      /\ Pipeline /\ Counters
  BY DEF ProcessIO, QueryDevice, UnlockConfig, EraseFlashPage, EraseEepromAndUserId,
         ProgramConfigBits, ProgramEeprom, ProgramContiguous, ProgramIgnored, ProgramByte,
         ProgramComplete, GetData, SignBegin, SignBlock, ToFlash, Working, Busy, rest, host,
         usb, IInv
<1>2. CASE ~Writes(PacketFromPC)
  <2>1. ~AfterDevice /\ ~Misfit(PacketFromPC)
    BY <1>1, <1>2 DEF AfterDevice, Misfit, Loose
  <2> QED
    BY <1>1, <2>1, StillQueue
<1>3. CASE Writes(PacketFromPC)
  <2>1. ProgramContiguous \/ ProgramIgnored \/ ProgramByte
    BY <1>3 DEF ProcessIO, QueryDevice, UnlockConfig, EraseFlashPage,
         EraseEepromAndUserId, ProgramConfigBits, ProgramEeprom, ProgramComplete, GetData,
         SignBegin, SignBlock, Working, Writes, Queries
  <2>2. ProgrammedPointer' # InvalidAddress
    <3>1. PacketFromPC \in Sendable
      BY <1>1 DEF Pipeline
    <3>2. /\ PacketFromPC.addr \in Nat /\ Len(PacketFromPC.data) \in Nat \ {0}
          /\ PacketFromPC.addr + Len(PacketFromPC.data) <= FlashEnd
      BY <1>3, <3>1, WrittenPacket
    <3>3. CASE ProgramContiguous
      BY <3>2, <3>3, Sizes DEF ProgramContiguous
    <3>4. CASE ProgramIgnored
      BY <3>4 DEF ProgramIgnored, buffering
    <3>5. CASE ProgramByte
      <4>1. Middle /\ ProgrammedPointer' = ProgrammedPointer + 1
        BY <3>5, FillingFacts DEF ProgramByte
      <4> QED
        BY <1>1, <3>2, <4>1, Sizes DEF Middle, Counters
    <3> QED
      BY <2>1, <3>3, <3>4, <3>5
  <2>3. AfterDevice'
    BY <1>1, <1>3, <2>2 DEF AfterDevice, Writes
  <2> QED
    BY <1>1, <2>2, <2>3, StillQueue
<1> QED
  BY <1>2, <1>3

-----------------------------------------------------------------------------
LEMMA InitIInv == Init => IInv
<1> SUFFICES ASSUME Init PROVE IInv
  OBVIOUS
<1>1. BootloaderIntact
  <2>1. BootRegion \subseteq Memory
    BY Sizes DEF BootRegion, Memory, Flash
  <2> QED
    BY <2>1 DEF Init, BootloaderIntact
<1>2. Counters
  BY Sizes DEF Init, Counters, Busy
<1>3. Pipeline
  BY NoScript DEF Init, Pipeline, Busy, Continues
<1>4. Buffer
  BY DEF Init, Buffer, Filling, Busy, Settled
<1> QED
  BY <1>1, <1>2, <1>3, <1>4 DEF IInv

LEMMA ProcessIOStep ==
  ASSUME IInv, ProcessIO
  PROVE  IInv'
<1>1. Pipeline
  BY DEF IInv
<1>2. CASE OtherCommand
  <2>1. Pipeline'
    <3>1. CASE Receive
      BY <1>1, <3>1, ReceivePipeline
    <3>2. CASE ResetDeviceCleanly
      BY <1>1, <3>2, RestartPipeline DEF ResetDeviceCleanly
    <3> QED
      BY <3>1, <3>2, CommandPipeline
  <2> QED
    BY <1>2, <2>1, OtherBuffer, OtherIntact DEF IInv
<1>3. CASE ProgramContiguous
  <2>1. BootState' = BootState /\ loop' = 1 /\ mem' = mem /\ Busy
        /\ ProgrammedPointer' = PacketFromPC.addr
        /\ BufferedDataIndex' = BufferedDataIndex
        /\ PacketFromPC \in Sendable /\ Writes(PacketFromPC)
    BY <1>1, <1>3 DEF ProgramContiguous, ToFlash, Working, Busy, Pipeline, Writes
  <2>2. PacketFromPC.addr \in Nat
    BY <2>1, WrittenPacket
  <2>3. Counters' /\ BootloaderIntact'
    BY <2>1, <2>2 DEF IInv, Counters, BootloaderIntact, Busy
  <2>4. ~Receive /\ ~ResetDeviceCleanly
    BY <1>3 DEF ProgramContiguous, ToFlash, Working, Receive, ResetDeviceCleanly
  <2> QED
    BY <1>3, <2>3, <2>4, ContiguousBuffer, CommandPipeline DEF IInv
<1>4. CASE ProgramByte
  <2>1. ~Receive /\ ~ResetDeviceCleanly
    BY <1>4 DEF ProgramByte, ToFlash, Working, Receive, ResetDeviceCleanly
  <2> QED
    BY <1>4, <2>1, ByteCounters, ByteBuffer, CommandPipeline DEF IInv
<1>5. CASE ProgramComplete
  <2>1. ~Receive /\ ~ResetDeviceCleanly
    BY <1>5 DEF ProgramComplete, Working, Receive, ResetDeviceCleanly
  <2>2. BootState' = "IDLE" /\ loop' = 0 /\ ProgrammedPointer' = InvalidAddress
    BY <1>5 DEF ProgramComplete, Done
  <2>3. BootloaderIntact' /\ BufferedDataIndex' = 0
    BY <1>5, CompleteWrites
  <2>4. Counters' /\ Buffer'
    BY <2>2, <2>3, Sizes DEF Counters, Buffer, Filling, Busy, Settled
  <2> QED
    BY <2>1, <2>3, <2>4, CommandPipeline DEF IInv
<1>6. CASE ResetDeviceCleanly
  <2>1. Restart
    BY <1>6 DEF ResetDeviceCleanly
  <2>2. UNCHANGED <<mem, device>>
    BY <2>1 DEF Restart
  <2> QED
    BY <1>1, <2>1, <2>2, StillDevice, RestartPipeline DEF IInv
<1> QED
  BY <1>2, <1>3, <1>4, <1>5, <1>6 DEF ProcessIO, OtherCommand

LEMMA StepIInv == IInv /\ [Next]_vars => IInv'
<1> SUFFICES ASSUME IInv, [Next]_vars PROVE IInv'
  OBVIOUS
<1>1. Pipeline
  BY DEF IInv
<1>2. CASE Host
  <2>1. UNCHANGED <<mem, device>>
    BY <1>2 DEF Host, HostStart, HostSend, HostPoll, HostReceive, HostAbort
  <2> QED
    BY <1>1, <1>2, <2>1, HostPipeline, StillDevice DEF IInv
<1>3. CASE PowerLoss \/ AppReset
  <2>1. Restart
    BY <1>3 DEF PowerLoss, AppReset
  <2>2. UNCHANGED <<mem, device>>
    BY <2>1 DEF Restart
  <2> QED
    BY <1>1, <2>1, <2>2, StillDevice, RestartPipeline DEF IInv
<1>4. CASE UNCHANGED vars
  <2>1. UNCHANGED <<mode, mem, device, script, sent, out>>
    BY <1>4 DEF vars, usb, host
  <2>2. Pipeline'
    BY <1>1, <2>1, StillQueueDevice, StillQueue DEF Pipeline
  <2> QED
    BY <2>1, <2>2, StillDevice DEF IInv
<1> QED
  BY <1>2, <1>3, <1>4, PowerOnStep, ProcessIOStep DEF Next

LEMMA Invariance == Spec => []IInv
<1> QED
  BY InitIInv, StepIInv, PTL DEF Spec

\* The bootloader never damages itself, whatever the versions and the sizes, any number
\* of sessions, aborted or not, and of power failures, provided that every image is one
\* for which the buffer works (SafeImages). (BootPIC18NonJ.c)
THEOREM NeverDamaged == Spec => []BootloaderIntact
<1>1. IInv => BootloaderIntact
  BY DEF IInv
<1> QED
  BY <1>1, Invariance, PTL

-----------------------------------------------------------------------------
(* The signature.  The PC sends SIGN_FLASH when it has read the image back, *)
(* so the invariant follows the answers: in what order the commands of one  *)
(* or of two sessions are on their way (InOrder), that no answer left over   *)
(* from an aborted session is taken for a byte read back (NoStaleRead), that *)
(* what was read back stays in the memory (Current, Checked).                *)

First == Head(script).cmd
Latest == IF out # NoPacket THEN out.cmd ELSE PacketFromPC.cmd

\* A command follows the one before it in the script, or begins another session.
InOrder ==
  /\ out # NoPacket => out.cmd = "QUERY_DEVICE" \/ Follows(PacketFromPC.cmd, out.cmd)
  /\ Ordered(script)
  /\ script # <<>> => IF sent THEN First = Latest
                      ELSE First = "QUERY_DEVICE" \/ Follows(Latest, First)

AnswerRead == Reads(in) \/ \E k \in DOMAIN reports : Reads(reports[k])
Reading == AnswerRead \/ Reads(out) \/ (Busy /\ Reads(PacketFromPC))

\* Nothing that was read before this session passes for the answer to its first query.
NoStaleRead ==
  /\ mode = "off" => in = NoPacket
  /\ in.cmd = "QUERY_DEVICE" => \/ PacketFromPC.cmd = "QUERY_DEVICE"
                                \/ PacketFromPC.cmd = "QUERY_EXTENDED_INFO" /\ Busy
  /\ script # <<>> /\ First \notin {"GET_DATA", "SIGN_FLASH", "RESET_DEVICE"} =>
       \/ ~Reading
       \/ First = "QUERY_DEVICE" /\ (reports # <<>> => reports[1].cmd # "QUERY_DEVICE")

Agrees(p) == \A i \in DOMAIN p.data : p.data[i] = mem[p.addr + i - 1]
ReadingOnly == PacketFromPC.cmd = "GET_DATA" /\ out.cmd \in {"none", "GET_DATA"}

\* What has been read is still in the memory, and nothing is about to change it.
Current ==
  script # <<>> /\ First = "GET_DATA" /\ AnswerRead =>
    /\ ReadingOnly
    /\ Reads(in) => Agrees(in)
    /\ \A k \in DOMAIN reports : Reads(reports[k]) => Agrees(reports[k])

\* Each cell of the image has been read back, or will be.
Checked ==
  script # <<>> =>
    /\ want \in Versions
    /\ First # "RESET_DEVICE" =>
         \A a \in ImageCells(want) :
           \/ CheckedBy(script, want, a)
           \/ First \in {"GET_DATA", "SIGN_FLASH"} /\ ReadingOnly /\ mem[a] = <<want, a>>

NotSigned == mem[SigAddress] # Signature
Whole == \E v \in Versions : Complete(v)
Programs == {"PROGRAM_DEVICE", "PROGRAM_COMPLETE"}
Checks == {"GET_DATA", "SIGN_FLASH"}

ErasedOrErasing == NotSigned \/ (Busy /\ PacketFromPC.cmd = "ERASE_DEVICE")

\* The signature is gone before anything is programmed.
Unsigned ==
  /\ Busy /\ PacketFromPC.cmd = "ERASE_DEVICE" /\ loop > 0 => NotSigned
  /\ Busy /\ PacketFromPC.cmd \in Programs => NotSigned
  /\ out.cmd \in Programs => ErasedOrErasing
  /\ out = NoPacket /\ script # <<>> /\ First \in Programs => ErasedOrErasing

EmptyOrEmptying == BufferedDataIndex = 0 \/ (Busy /\ PacketFromPC.cmd = "PROGRAM_COMPLETE")

\* The buffer that SignFlash borrows is empty, and the signature is never in what
\* waits to be programmed.
Emptied ==
  /\ Busy /\ PacketFromPC.cmd \in Checks => BufferedDataIndex = 0
  /\ out.cmd \in Checks => EmptyOrEmptying
  /\ out = NoPacket /\ script # <<>> /\ First \in Checks => EmptyOrEmptying
  /\ \A i \in 0 .. BufferedDataIndex - 1 : ProgrammingBuffer[i] # Signature
  /\ DOMAIN ProgrammingBuffer = 0 .. Page - 1

\* SignFlash has programmed the blocks of the page from first on.
HalfSigned(v, first) ==
  /\ \A a \in ImageCells(v) :
       IF a \in PageAt(SigPage)
         THEN ProgrammingBuffer[a - SigPage] = <<v, a>> /\ (a >= first => mem[a] = <<v, a>>)
         ELSE mem[a] = <<v, a>>
  /\ \A a \in SigPage .. first - 1 : mem[a] = Erased

Unprogrammed == SigPage + (Blocks - loop + 1) * Block

Signing ==
  /\ out.cmd = "SIGN_FLASH" => Whole
  /\ Busy /\ PacketFromPC.cmd = "SIGN_FLASH" =>
       IF loop = 0 THEN Whole
       ELSE loop \in 1 .. Blocks /\ \E v \in Versions : HalfSigned(v, Unprogrammed)
  /\ SignedIsComplete

IsReports == \E S : reports \in Seq(S)

SInv == /\ IsReports /\ InOrder /\ NoStaleRead /\ Current /\ Checked
        /\ Unsigned /\ Emptied /\ Signing

-----------------------------------------------------------------------------
(* Facts about packets and queues. *)

LEMMA SentPacket ==
  ASSUME NEW p \in Sendable
  PROVE  p # NoPacket /\ p.cmd # "none" /\ p \in Packet
  BY DEF Sendable, Packet, Queries, NoPacket

LEMMA Nothing == NoPacket.cmd = "none" /\ ~Reads(NoPacket)
  BY DEF NoPacket, Reads

LEMMA OutPacket ==
  ASSUME IInv
  PROVE  /\ out # NoPacket <=> out.cmd # "none"
         /\ out # NoPacket => out \in Sendable
         /\ Busy => PacketFromPC \in Sendable
         /\ script \in Seq(Sendable)
         /\ script # <<>> => Head(script) \in Sendable
  BY SentPacket, Nothing DEF IInv, Pipeline

LEMMA OrderedTail ==
  ASSUME NEW s \in Seq(Sendable), s # <<>>, Ordered(s)
  PROVE  /\ Tail(s) \in Seq(Sendable) /\ Ordered(Tail(s))
         /\ Tail(s) # <<>> => Follows(Head(s).cmd, Head(Tail(s)).cmd)
<1>1. Tail(s) \in Seq(Sendable) /\ Head(s) = s[1] /\ Len(Tail(s)) = Len(s) - 1 /\ Len(s) \in Nat
  OBVIOUS
<1>2. ASSUME NEW i \in 1 .. Len(Tail(s)) - 1
      PROVE  Follows(Tail(s)[i].cmd, Tail(s)[i + 1].cmd)
  <2>1. i + 1 \in 1 .. Len(s) - 1 /\ Tail(s)[i] = s[i + 1] /\ Tail(s)[i + 1] = s[(i + 1) + 1]
    BY <1>1
  <2> QED
    BY <2>1 DEF Ordered
<1>3. ASSUME Tail(s) # <<>> PROVE Follows(Head(s).cmd, Head(Tail(s)).cmd)
  <2>1. 1 \in 1 .. Len(s) - 1 /\ Head(Tail(s)) = s[1 + 1]
    BY <1>1, <1>3
  <2> QED
    BY <1>1, <2>1 DEF Ordered
<1> QED
  BY <1>1, <1>2, <1>3 DEF Ordered

\* A script whose first packet is not a read keeps its reads when that packet leaves.
LEMMA CheckedByTail ==
  ASSUME NEW s \in Seq(Sendable), s # <<>>, NEW v, NEW a, CheckedBy(s, v, a)
  PROVE  \/ CheckedBy(Tail(s), v, a)
         \/ /\ Reads(Head(s)) /\ a - Head(s).addr + 1 \in DOMAIN Head(s).data
            /\ Head(s).data[a - Head(s).addr + 1] = <<v, a>>
<1>1. PICK i \in DOMAIN s : /\ Reads(s[i])
                            /\ a - s[i].addr + 1 \in DOMAIN s[i].data
                            /\ s[i].data[a - s[i].addr + 1] = <<v, a>>
  BY DEF CheckedBy
<1>2. CASE i = 1
  BY <1>1, <1>2
<1>3. CASE i # 1
  <2>1. i - 1 \in DOMAIN Tail(s) /\ Tail(s)[i - 1] = s[i]
    BY <1>3
  <2> QED
    BY <1>1, <2>1 DEF CheckedBy
<1> QED
  BY <1>2, <1>3

\* Nothing is read after SIGN_FLASH.
LEMMA LastOfScript ==
  ASSUME NEW s \in Seq(Sendable), s # <<>>, Ordered(s), Head(s).cmd = "SIGN_FLASH",
         NEW v, NEW a
  PROVE  ~CheckedBy(s, v, a)
<1>1. Len(s) \in Nat /\ Head(s) = s[1] /\ DOMAIN s = 1 .. Len(s)
  OBVIOUS
<1>2. Len(s) > 1 => s[2].cmd = "RESET_DEVICE"
  BY <1>1 DEF Ordered, Follows
<1>3. ~(Len(s) > 2)
  BY <1>1, <1>2 DEF Ordered, Follows
<1>4. \A i \in DOMAIN s : ~Reads(s[i])
  BY <1>1, <1>2, <1>3 DEF Reads
<1> QED
  BY <1>4 DEF CheckedBy

LEMMA ReportsAppend ==
  ASSUME IsReports, NEW r, reports' = Append(reports, r)
  PROVE  /\ IsReports'
         /\ \A k \in DOMAIN reports' : reports'[k] = r \/ \E j \in DOMAIN reports : reports'[k] = reports[j]
         /\ reports # <<>> => reports'[1] = reports[1]
         /\ reports = <<>> => reports'[1] = r
<1>1. PICK S : reports \in Seq(S)
  BY DEF IsReports
<1> DEFINE T == S \cup {r}
<1>2. reports \in Seq(T) /\ r \in T
  BY <1>1
<1> HIDE DEF T
<1>3. reports' \in Seq(T)
  BY <1>2
<1>4. Len(reports) \in Nat /\ Len(reports') = Len(reports) + 1 /\ DOMAIN reports = 1 .. Len(reports)
      /\ DOMAIN reports' = 1 .. Len(reports') 
  BY <1>2, <1>3
<1>5. reports'[Len(reports) + 1] = r /\ \A k \in 1 .. Len(reports) : reports'[k] = reports[k]
  BY <1>2, <1>4
<1>6. reports # <<>> => Len(reports) # 0
  BY <1>2
<1> QED
  BY <1>3, <1>4, <1>5, <1>6 DEF IsReports

LEMMA ReportsTail ==
  ASSUME IsReports, reports # <<>>, reports' = Tail(reports)
  PROVE  /\ IsReports'
         /\ \A k \in DOMAIN reports' : \E j \in DOMAIN reports : reports'[k] = reports[j]
         /\ Head(reports) = reports[1] /\ 1 \in DOMAIN reports
<1>1. PICK S : reports \in Seq(S)
  BY DEF IsReports
<1>2. reports' \in Seq(S) /\ Head(reports) = reports[1] /\ Len(reports) \in Nat \ {0}
  BY <1>1
<1>3. \A k \in DOMAIN reports' : k + 1 \in DOMAIN reports /\ reports'[k] = reports[k + 1]
  BY <1>1, <1>2
<1> QED
  BY <1>2, <1>3 DEF IsReports

LEMMA CellNat == Memory \subseteq Nat
  BY Sizes DEF Memory, Flash, UserId, Config, Eeprom, InBank

LEMMA ImageInMemory ==
  \A v \in Versions : \A a \in ImageCells(v) : a \in Memory /\ a \in Nat
  BY CellNat, ScriptShape

LEMMA EepromAboveFlash ==
  ASSUME NEW a \in Nat, Bank(a) = 3
  PROVE  FlashEnd <= a
<1> DEFINE q == a \div Segment
<1>1. a = q * Segment + (a % Segment) /\ a % Segment \in 0 .. Segment - 1
  <2>1. Segment \in Nat \ {0}
    BY Sizes
  <2> QED
    BY <2>1, Division, Zenon
<1>2. q = 3
  BY DEF Bank
<1> HIDE DEF q
<1> QED
  BY <1>1, <1>2, Sizes

LEMMA NoReports == ASSUME reports' = <<>> PROVE IsReports'
  BY DEF IsReports

-----------------------------------------------------------------------------
(* The steps of the host. *)

\* The device is not concerned, nor the memory.
LEMMA QuietDevice ==
  ASSUME UNCHANGED <<mem, device>>
  PROVE  /\ BootState' = BootState /\ PacketFromPC' = PacketFromPC /\ loop' = loop
         /\ ProgrammedPointer' = ProgrammedPointer /\ BufferedDataIndex' = BufferedDataIndex
         /\ ProgrammingBuffer' = ProgrammingBuffer /\ mem' = mem
         /\ (Busy' <=> Busy) /\ (NotSigned' <=> NotSigned) /\ (Whole' <=> Whole)
         /\ (ErasedOrErasing' <=> ErasedOrErasing) /\ (EmptyOrEmptying' <=> EmptyOrEmptying)
         /\ \A v, first : HalfSigned(v, first)' <=> HalfSigned(v, first)
         /\ Unprogrammed' = Unprogrammed
         /\ (SignedIsComplete' <=> SignedIsComplete)
         /\ \A p : Agrees(p)' <=> Agrees(p)
<1>1. /\ BootState' = BootState /\ PacketFromPC' = PacketFromPC /\ loop' = loop
      /\ ProgrammedPointer' = ProgrammedPointer /\ BufferedDataIndex' = BufferedDataIndex
      /\ ProgrammingBuffer' = ProgrammingBuffer /\ mem' = mem
  BY DEF device, buffering
<1>2. (Busy' <=> Busy) /\ (NotSigned' <=> NotSigned) /\ (Whole' <=> Whole)
  BY <1>1 DEF Busy, NotSigned, Whole, Complete
<1>3. \A v, first : HalfSigned(v, first)' <=> HalfSigned(v, first)
  BY <1>1 DEF HalfSigned
<1>4. SignedIsComplete' <=> SignedIsComplete
  BY <1>1 DEF SignedIsComplete, Complete
<1>5. (ErasedOrErasing' <=> ErasedOrErasing) /\ (EmptyOrEmptying' <=> EmptyOrEmptying)
  BY <1>1, <1>2 DEF ErasedOrErasing, EmptyOrEmptying
<1>6. Unprogrammed' = Unprogrammed /\ \A p : Agrees(p)' <=> Agrees(p)
  BY <1>1 DEF Unprogrammed, Agrees
<1> QED
  BY <1>1, <1>2, <1>3, <1>4, <1>5, <1>6

\* The conjuncts that a host's step can disturb only through out and script.
LEMMA HostSigning ==
  ASSUME Signing, UNCHANGED <<mem, device>>, out'.cmd = "SIGN_FLASH" => Whole
  PROVE  Signing'
<1>1. /\ PacketFromPC' = PacketFromPC /\ loop' = loop
      /\ (Busy' <=> Busy) /\ (Whole' <=> Whole)
      /\ \A v, first : HalfSigned(v, first)' <=> HalfSigned(v, first)
      /\ Unprogrammed' = Unprogrammed
      /\ (SignedIsComplete' <=> SignedIsComplete)
  BY QuietDevice
<1>2. Busy' /\ PacketFromPC'.cmd = "SIGN_FLASH" =>
       IF loop' = 0 THEN Whole'
       ELSE loop' \in 1 .. Blocks /\ \E v \in Versions : HalfSigned(v, Unprogrammed)'
  BY <1>1 DEF Signing
<1> QED
  BY <1>1, <1>2 DEF Signing

LEMMA HostUnsigned ==
  ASSUME Unsigned, UNCHANGED <<mem, device>>,
         out'.cmd \in Programs => ErasedOrErasing,
         out' = NoPacket /\ script' # <<>> /\ First' \in Programs => ErasedOrErasing
  PROVE  Unsigned'
  BY QuietDevice DEF Unsigned

LEMMA HostEmptied ==
  ASSUME Emptied, UNCHANGED <<mem, device>>,
         out'.cmd \in Checks => EmptyOrEmptying,
         out' = NoPacket /\ script' # <<>> /\ First' \in Checks => EmptyOrEmptying
  PROVE  Emptied'
  BY QuietDevice DEF Emptied

LEMMA HostStartSigned ==
  ASSUME IInv, SInv, HostStart
  PROVE  SInv'
<1>1. PICK v \in Versions, cfg \in ConfigAsked : script' = Script(v, cfg) /\ want' = v
  BY DEF HostStart
<1>2. /\ mode = "boot" /\ reports' = <<>> /\ sent' = FALSE /\ UNCHANGED <<mem, device>>
      /\ UNCHANGED <<mode, in, out>>
  BY DEF HostStart, usb
<1>3. /\ script' # <<>> /\ First' = "QUERY_DEVICE" /\ Ordered(script')
      /\ \A a \in ImageCells(v) : CheckedBy(script', v, a)
  <2>1. script' \in Scripts
    BY <1>1 DEF Scripts
  <2>2. script' # <<>> /\ Head(script').cmd = "QUERY_DEVICE" /\ Ordered(script')
    BY <2>1, ScriptShape
  <2> QED
    BY <1>1, <2>2, ScriptShape DEF First
<1>4. PacketFromPC' = PacketFromPC /\ (Busy' <=> Busy)
  BY <1>2, QuietDevice
<1>5. IsReports'
  BY <1>2, NoReports
<1>6. InOrder'
  BY <1>2, <1>3, <1>4 DEF SInv, InOrder
<1>7. NoStaleRead'
  BY <1>2, <1>3, <1>4 DEF SInv, NoStaleRead
<1>8. Current' /\ Checked'
  BY <1>1, <1>3 DEF Current, Checked
<1>9. Unsigned'
  BY <1>2, <1>3, HostUnsigned DEF SInv, Unsigned, Programs
<1>10. Emptied'
  BY <1>2, <1>3, HostEmptied DEF SInv, Emptied, Checks
<1>11. Signing'
  BY <1>2, HostSigning DEF SInv, Signing
<1> QED
  BY <1>5, <1>6, <1>7, <1>8, <1>9, <1>10, <1>11 DEF SInv

LEMMA HostSendSigned ==
  ASSUME IInv, SInv, HostSend
  PROVE  SInv'
<1> DEFINE h == Head(script)
<1>1. /\ mode = "boot" /\ script # <<>> /\ ~sent /\ out = NoPacket /\ out' = h
      /\ sent' = Answered(h) /\ script' = IF Answered(h) THEN script ELSE Tail(script)
      /\ UNCHANGED <<mode, in, reports, want>> /\ UNCHANGED <<mem, device>>
  BY DEF HostSend
<1>2. /\ h \in Sendable /\ h # NoPacket /\ h.cmd # "none" /\ h.cmd = First
      /\ script \in Seq(Sendable)
  BY <1>1, OutPacket, SentPacket DEF First
<1>3. PacketFromPC' = PacketFromPC /\ (Busy' <=> Busy) /\ mem' = mem /\ \A p : Agrees(p)' <=> Agrees(p)
  BY <1>1, QuietDevice
<1>4. Answered(h) <=> First \in {"QUERY_DEVICE", "QUERY_EXTENDED_INFO", "GET_DATA"}
  BY <1>2 DEF Answered, Queries
<1>5. /\ Ordered(script) /\ (First = "QUERY_DEVICE" \/ Follows(PacketFromPC.cmd, First))
      /\ Latest' = First
  BY <1>1, <1>2 DEF SInv, InOrder, Latest
<1>6. CASE Answered(h)
  <2>1. script' = script /\ First' = First /\ sent'
    BY <1>1, <1>6 DEF First
  <2>2. InOrder'
    BY <1>1, <1>2, <1>3, <1>5, <2>1 DEF InOrder
  <2>3. AnswerRead' <=> AnswerRead
    BY <1>1 DEF AnswerRead
  <2>4. First # "GET_DATA" => (Reading' <=> Reading)
    BY <1>1, <1>2, <1>3, <2>3, Nothing DEF Reading, Reads
  <2>5. NoStaleRead'
    BY <1>1, <1>3, <2>1, <2>4 DEF SInv, NoStaleRead
  <2>6. First = "GET_DATA" => (ReadingOnly => ReadingOnly')
    BY <1>1, <1>2, <1>3 DEF ReadingOnly
  <2>7. Current'
    BY <1>1, <1>3, <2>1, <2>3, <2>6 DEF SInv, Current
  <2>8. Checked'
    BY <1>1, <1>3, <1>4, <1>6, <2>1, <2>6 DEF SInv, Checked
  <2>9. Unsigned'
    BY <1>1, <1>2, <1>4, <1>6, HostUnsigned DEF SInv, Programs
  <2>10. Emptied'
    BY <1>1, <1>2, HostEmptied DEF SInv, Emptied
  <2>11. Signing'
    BY <1>1, <1>2, <1>4, <1>6, HostSigning DEF SInv
  <2>12. IsReports'
    BY <1>1 DEF SInv, IsReports
  <2> QED
    BY <2>2, <2>5, <2>7, <2>8, <2>9, <2>10, <2>11, <2>12 DEF SInv
<1>7. CASE ~Answered(h)
  <2>1. script' = Tail(script) /\ ~sent'
    BY <1>1, <1>7
  <2>2. Ordered(script') /\ (script' # <<>> => Follows(First, First'))
    BY <1>1, <1>2, <1>5, <2>1, OrderedTail DEF First
  <2>3. InOrder'
    BY <1>1, <1>2, <1>3, <1>5, <2>1, <2>2 DEF InOrder
  <2>4. Reading' <=> Reading
    BY <1>1, <1>2, <1>3, <1>4, <1>7, Nothing DEF Reading, AnswerRead, Reads
  <2>5. NoStaleRead'
    <3>1. ASSUME script' # <<>>, First' \notin {"GET_DATA", "SIGN_FLASH", "RESET_DEVICE"}
          PROVE  First \notin {"GET_DATA", "SIGN_FLASH", "RESET_DEVICE", "QUERY_DEVICE"}
      BY <1>4, <1>7, <2>2, <3>1 DEF Follows
    <3> QED
      BY <1>1, <1>3, <2>4, <3>1 DEF SInv, NoStaleRead
  <2>6. Current'
    <3>1. ASSUME script' # <<>>, First' = "GET_DATA" PROVE First = "PROGRAM_COMPLETE"
      BY <1>4, <1>7, <2>2, <3>1 DEF Follows
    <3>2. ASSUME script' # <<>>, First' = "GET_DATA" PROVE ~AnswerRead'
      BY <1>1, <2>4, <3>1, <3>2 DEF SInv, NoStaleRead, Reading
    <3> QED
      BY <3>2 DEF Current
  <2>7. Checked'
    <3>1. want' = want /\ want \in Versions
      BY <1>1 DEF SInv, Checked
    <3>2. SUFFICES ASSUME script' # <<>>, First' # "RESET_DEVICE", NEW a \in ImageCells(want)
                   PROVE  CheckedBy(script', want, a)
      BY <3>1 DEF Checked
    <3>3. First \notin {"GET_DATA", "SIGN_FLASH", "RESET_DEVICE"}
      BY <1>4, <1>7, <2>2, <3>2 DEF Follows
    <3>4. CheckedBy(script, want, a)
      BY <1>1, <3>2, <3>3 DEF SInv, Checked
    <3> QED
      BY <1>1, <1>2, <2>1, <3>3, <3>4, CheckedByTail DEF Reads
  <2>8. Unsigned'
    BY <1>1, <1>2, HostUnsigned DEF SInv, Unsigned
  <2>9. Emptied'
    BY <1>1, <1>2, HostEmptied DEF SInv, Emptied
  <2>10. Signing'
    <3>1. ASSUME First = "SIGN_FLASH" PROVE Whole
      <4>1. \A a \in ImageCells(want) : ~CheckedBy(script, want, a)
        BY <1>1, <1>2, <1>5, <3>1, LastOfScript
      <4>2. want \in Versions /\ \A a \in ImageCells(want) : mem[a] = <<want, a>>
        BY <1>1, <3>1, <4>1 DEF SInv, Checked
      <4> QED
        BY <4>2 DEF Whole, Complete
    <3> QED
      BY <1>1, <1>2, <3>1, HostSigning DEF SInv
  <2>11. IsReports'
    BY <1>1 DEF SInv, IsReports
  <2> QED
    BY <2>3, <2>5, <2>6, <2>7, <2>8, <2>9, <2>10, <2>11 DEF SInv
<1> QED
  BY <1>6, <1>7

LEMMA HostPollSigned ==
  ASSUME IInv, SInv, HostPoll
  PROVE  SInv'
<1>1. /\ script # <<>> /\ in # NoPacket /\ reports' = Append(reports, in) /\ in' = NoPacket
      /\ UNCHANGED <<mode, script, out, sent, want>> /\ UNCHANGED <<mem, device>>
  BY DEF HostPoll
<1>2. PacketFromPC' = PacketFromPC /\ (Busy' <=> Busy) /\ mem' = mem /\ \A p : Agrees(p)' <=> Agrees(p)
  BY <1>1, QuietDevice
<1>3. /\ IsReports'
      /\ \A k \in DOMAIN reports' : reports'[k] = in \/ \E j \in DOMAIN reports : reports'[k] = reports[j]
      /\ reports # <<>> => reports'[1] = reports[1]
      /\ reports = <<>> => reports'[1] = in
  BY <1>1, ReportsAppend DEF SInv
<1>4. First' = First
  BY <1>1 DEF First
<1>5. AnswerRead' => AnswerRead
  BY <1>1, <1>3, Nothing DEF AnswerRead
<1>6. Reading' => Reading
  BY <1>1, <1>2, <1>5 DEF Reading
<1>7. InOrder'
  BY <1>1, <1>2, <1>4 DEF SInv, InOrder, Latest
<1>8. NoStaleRead'
  <2>1. ASSUME First = "QUERY_DEVICE", reports = <<>>, in.cmd = "QUERY_DEVICE" PROVE ~Reading'
    <3>1. PacketFromPC.cmd \in Queries
      BY <2>1 DEF SInv, NoStaleRead, Queries
    <3>2. out.cmd # "GET_DATA"
      BY <3>1, Nothing DEF SInv, InOrder, Follows, Queries, NoPacket
    <3>3. ~AnswerRead'
      <4>1. \A k \in DOMAIN reports' : reports'[k] = in
        BY <1>3, <2>1
      <4> QED
        BY <1>1, <2>1, <4>1, Nothing DEF AnswerRead, Reads
    <3> QED
      BY <1>1, <1>2, <3>1, <3>2, <3>3 DEF Reading, Reads, Queries
  <2>2. script' # <<>> /\ First' \notin {"GET_DATA", "SIGN_FLASH", "RESET_DEVICE"} =>
          \/ ~Reading'
          \/ First' = "QUERY_DEVICE" /\ (reports' # <<>> => reports'[1].cmd # "QUERY_DEVICE")
    BY <1>1, <1>3, <1>4, <1>6, <2>1 DEF SInv, NoStaleRead
  <2>3. in'.cmd # "QUERY_DEVICE"
    BY <1>1, Nothing
  <2> QED
    BY <1>1, <2>2, <2>3 DEF NoStaleRead
<1>9. Current'
  <2>1. SUFFICES ASSUME First = "GET_DATA", AnswerRead'
                 PROVE  /\ ReadingOnly' /\ (Reads(in') => Agrees(in)')
                        /\ \A k \in DOMAIN reports' : Reads(reports'[k]) => Agrees(reports[k])'
    BY <1>4 DEF Current
  <2>2. /\ ReadingOnly /\ (Reads(in) => Agrees(in))
        /\ \A k \in DOMAIN reports : Reads(reports[k]) => Agrees(reports[k])
    BY <1>1, <1>5, <2>1 DEF SInv, Current
  <2>3. ReadingOnly' /\ ~Reads(in')
    BY <1>1, <1>2, <2>2, Nothing DEF ReadingOnly
  <2>4. ASSUME NEW k \in DOMAIN reports', Reads(reports'[k]) PROVE Agrees(reports'[k])
    BY <1>3, <2>2, <2>4
  <2>5. ASSUME NEW k \in DOMAIN reports', Reads(reports'[k]) PROVE Agrees(reports[k])'
    BY <1>2, <2>4, <2>5 DEF Agrees
  <2> QED
    BY <2>3, <2>5
<1>10. Checked'
  BY <1>1, <1>2, <1>4 DEF SInv, Checked, ReadingOnly
<1>11. Unsigned'
  BY <1>1, <1>4, HostUnsigned DEF SInv, Unsigned
<1>12. Emptied'
  BY <1>1, <1>4, HostEmptied DEF SInv, Emptied
<1>13. Signing'
  BY <1>1, HostSigning DEF SInv, Signing
<1> QED
  BY <1>3, <1>7, <1>8, <1>9, <1>10, <1>11, <1>12, <1>13 DEF SInv

LEMMA HostReceiveSigned ==
  ASSUME IInv, SInv, HostReceive
  PROVE  SInv'
<1> DEFINE h == Head(script)
<1>1. /\ sent /\ reports # <<>> /\ reports' = Tail(reports) /\ ~sent'
      /\ IF Head(reports) = h THEN script' = Tail(script) ELSE script' = <<>>
      /\ UNCHANGED <<mode, in, out, want>> /\ UNCHANGED <<mem, device>>
  BY DEF HostReceive, usb
<1>2. /\ script # <<>> /\ script \in Seq(Sendable) /\ h \in Sendable /\ h.cmd = First
      /\ First \in {"QUERY_DEVICE", "QUERY_EXTENDED_INFO", "GET_DATA"}
  BY <1>1, OutPacket DEF First, IInv, Pipeline, Answered, Queries
<1>3. PacketFromPC' = PacketFromPC /\ (Busy' <=> Busy) /\ mem' = mem /\ \A p : Agrees(p)' <=> Agrees(p)
  BY <1>1, QuietDevice
<1>4. /\ IsReports' /\ Head(reports) = reports[1] /\ 1 \in DOMAIN reports
      /\ \A k \in DOMAIN reports' : \E j \in DOMAIN reports : reports'[k] = reports[j]
  BY <1>1, ReportsTail DEF SInv
<1>5. (AnswerRead' => AnswerRead) /\ (Reading' => Reading)
  BY <1>1, <1>3, <1>4 DEF AnswerRead, Reading
<1>6. /\ Ordered(script) /\ First = Latest /\ Latest' = Latest
  BY <1>1, <1>2, <1>3 DEF SInv, InOrder, Latest
<1>7. CASE Head(reports) = h
  <2>1. script' = Tail(script) /\ reports[1] = h
    BY <1>1, <1>4, <1>7
  <2>2. Ordered(script') /\ (script' # <<>> => Follows(First, First'))
    BY <1>2, <1>6, <2>1, OrderedTail DEF First
  <2>3. InOrder'
    BY <1>1, <1>3, <1>6, <2>2 DEF SInv, InOrder
  <2>4. NoStaleRead'
    <3>1. ASSUME script' # <<>>, First' \notin {"GET_DATA", "SIGN_FLASH", "RESET_DEVICE"}
          PROVE  ~Reading
      <4>1. First \in {"QUERY_DEVICE", "QUERY_EXTENDED_INFO"}
        BY <1>2, <2>2, <3>1 DEF Follows
      <4> QED
        BY <1>1, <1>2, <2>1, <4>1 DEF SInv, NoStaleRead
    <3> QED
      BY <1>1, <1>3, <1>5, <3>1 DEF SInv, NoStaleRead
  <2>5. First = "GET_DATA" =>
          /\ ReadingOnly /\ ReadingOnly' /\ Agrees(h)
          /\ Reads(in) => Agrees(in)
          /\ \A k \in DOMAIN reports : Reads(reports[k]) => Agrees(reports[k])
    <3>1. ASSUME First = "GET_DATA" PROVE AnswerRead /\ Reads(h)
      BY <1>2, <1>4, <2>1, <3>1 DEF AnswerRead, Reads
    <3> QED
      BY <1>1, <1>2, <1>3, <1>4, <2>1, <3>1 DEF SInv, Current, ReadingOnly
  <2>6. Current'
    <3>1. SUFFICES ASSUME script' # <<>>, First' = "GET_DATA"
                   PROVE  /\ ReadingOnly' /\ (Reads(in') => Agrees(in)')
                          /\ \A k \in DOMAIN reports' : Reads(reports'[k]) => Agrees(reports[k])'
      BY DEF Current
    <3>2. First = "GET_DATA"
      BY <1>2, <2>2, <3>1 DEF Follows
    <3>3. ASSUME NEW k \in DOMAIN reports', Reads(reports'[k]) PROVE Agrees(reports[k])'
      <4>1. Agrees(reports'[k])
        BY <1>4, <2>5, <3>2, <3>3
      <4> QED
        BY <1>3, <4>1 DEF Agrees
    <3>4. Reads(in') => Agrees(in)'
      BY <1>1, <1>3, <2>5, <3>2 DEF Agrees
    <3> QED
      BY <2>5, <3>2, <3>3, <3>4
  <2>7. Checked'
    <3>1. want' = want /\ want \in Versions
      BY <1>1, <1>2 DEF SInv, Checked
    <3>2. SUFFICES ASSUME script' # <<>>, First' # "RESET_DEVICE", NEW a \in ImageCells(want)
                   PROVE  \/ CheckedBy(script', want, a)
                          \/ First' \in {"GET_DATA", "SIGN_FLASH"} /\ ReadingOnly' /\ mem'[a] = <<want, a>>
      BY <3>1 DEF Checked
    <3>3. First = "GET_DATA" => First' \in {"GET_DATA", "SIGN_FLASH"}
      BY <2>2, <3>2 DEF Follows
    <3>4. \/ CheckedBy(script, want, a)
          \/ First \in {"GET_DATA", "SIGN_FLASH"} /\ mem[a] = <<want, a>>
      BY <1>2, <3>2 DEF SInv, Checked
    <3>5. CASE First # "GET_DATA"
      BY <1>2, <2>1, <3>4, <3>5, CheckedByTail DEF Reads
    <3>6. CASE First = "GET_DATA"
      <4>1. CASE mem[a] = <<want, a>>
        BY <1>3, <2>5, <3>3, <3>6, <4>1
      <4>2. CASE CheckedBy(script, want, a)
        <5>1. \/ CheckedBy(script', want, a)
              \/ a - h.addr + 1 \in DOMAIN h.data /\ h.data[a - h.addr + 1] = <<want, a>>
          BY <1>2, <2>1, <4>2, CheckedByTail
        <5>2. ASSUME a - h.addr + 1 \in DOMAIN h.data, h.data[a - h.addr + 1] = <<want, a>>
              PROVE  mem[a] = <<want, a>>
          <6>1. h.addr \in Nat /\ DOMAIN h.data \subseteq Nat
            <7>1. h \in Packet
              BY <1>2, SentPacket
            <7>2. h.addr \in Nat /\ h.data \in Seq(Cell)
              BY <1>2, <3>6, <7>1, AddressedPacket
            <7> QED
              BY <7>2
          <6>2. h.data[a - h.addr + 1] = mem[h.addr + (a - h.addr + 1) - 1]
            BY <2>5, <3>6, <5>2 DEF Agrees
          <6>3. a \in Int
            BY <3>1, <3>2, ImageInMemory
          <6>4. h.addr + (a - h.addr + 1) - 1 = a
            BY <6>1, <6>3
          <6> QED
            BY <5>2, <6>2, <6>4
        <5> QED
          BY <1>3, <2>5, <3>3, <3>6, <5>1, <5>2
      <4> QED
        BY <3>4, <4>1, <4>2
    <3> QED
      BY <3>5, <3>6
  <2>8. Unsigned'
    <3>1. script' # <<>> => First' \notin Programs
      BY <1>2, <2>2 DEF Follows, Programs
    <3> QED
      BY <1>1, <3>1, HostUnsigned DEF SInv, Unsigned
  <2>9. Emptied'
    <3>1. script' # <<>> /\ First' \in Checks => First \in Checks
      BY <1>2, <2>2 DEF Follows, Checks
    <3> QED
      BY <1>1, <1>2, <3>1, HostEmptied DEF SInv, Emptied
  <2> QED
    BY <1>1, <1>4, <2>3, <2>4, <2>6, <2>7, <2>8, <2>9, HostSigning DEF SInv, Signing
<1>8. CASE Head(reports) # h
  <2>1. script' = <<>>
    BY <1>1, <1>8
  <2>2. InOrder'
    BY <1>1, <1>3, <2>1 DEF SInv, InOrder, Ordered
  <2>3. NoStaleRead'
    BY <1>1, <1>3, <2>1 DEF SInv, NoStaleRead
  <2>4. Current' /\ Checked'
    BY <2>1 DEF Current, Checked
  <2>5. Unsigned' /\ Emptied'
    BY <1>1, <2>1, HostUnsigned, HostEmptied DEF SInv, Unsigned, Emptied
  <2> QED
    BY <1>1, <1>4, <2>2, <2>3, <2>4, <2>5, HostSigning DEF SInv, Signing
<1> QED
  BY <1>7, <1>8

\* The session is over; the endpoints keep their packets or lose them.
LEMMA SessionOver ==
  ASSUME IInv, SInv, UNCHANGED <<mem, device>>, script' = <<>>, reports' = <<>>,
         out' \in {out, NoPacket}, in' \in {in, NoPacket},
         mode' = "off" => in' = NoPacket
  PROVE  SInv'
<1>1. PacketFromPC' = PacketFromPC /\ (Busy' <=> Busy)
  BY QuietDevice
<1>2. out'.cmd \in {out.cmd, "none"} /\ in'.cmd \in {in.cmd, "none"}
  BY Nothing
<1>3. IsReports'
  BY NoReports
<1>4. InOrder'
  BY <1>1 DEF SInv, InOrder, Ordered
<1>5. NoStaleRead'
  BY <1>1, <1>2 DEF SInv, NoStaleRead
<1>6. Current' /\ Checked'
  BY DEF Current, Checked
<1>7. Unsigned' /\ Emptied'
  BY <1>2, HostUnsigned, HostEmptied DEF SInv, Unsigned, Emptied, Programs, Checks
<1> QED
  BY <1>2, <1>3, <1>4, <1>5, <1>6, <1>7, HostSigning DEF SInv, Signing

LEMMA HostAbortSigned ==
  ASSUME IInv, SInv, HostAbort
  PROVE  SInv'
<1>1. /\ script' = <<>> /\ reports' = <<>> /\ UNCHANGED <<mem, device>> /\ mode' = mode
      /\ out' \in {out, NoPacket} /\ in' \in {in, NoPacket}
  BY DEF HostAbort, usb
<1>2. mode' = "off" => in' = NoPacket
  BY <1>1 DEF SInv, NoStaleRead
<1> QED
  BY <1>1, <1>2, SessionOver

LEMMA RestartSigned ==
  ASSUME IInv, SInv, Restart
  PROVE  SInv'
  BY SessionOver DEF Restart

LEMMA PowerOnSigned ==
  ASSUME IInv, SInv, PowerOn
  PROVE  SInv'
<1>1. /\ mode = "off" /\ mode' # "off"
      /\ BootState' = "IDLE" /\ BufferedDataIndex' = 0 /\ loop' = 0
      /\ UNCHANGED <<mem, script, out, in, reports, sent, PacketFromPC, ProgrammingBuffer, want>>
  BY DEF PowerOn, UserInit, usb, host
<1>2. script = <<>> /\ out = NoPacket /\ in = NoPacket /\ ~Busy'
  BY <1>1 DEF IInv, Pipeline, SInv, NoStaleRead, Busy
<1>3. IsReports' /\ InOrder'
  BY <1>1, <1>2 DEF SInv, IsReports, InOrder, Ordered
<1>4. NoStaleRead' /\ Current' /\ Checked'
  BY <1>1, <1>2, Nothing DEF NoStaleRead, Current, Checked
<1>5. Unsigned' /\ Emptied'
  <2>1. 0 .. BufferedDataIndex' - 1 = {}
    BY <1>1
  <2>2. DOMAIN ProgrammingBuffer' = 0 .. Page - 1
    BY <1>1 DEF SInv, Emptied
  <2> QED
    BY <1>1, <1>2, <2>1, <2>2, Nothing DEF Unsigned, Emptied, Programs, Checks
<1>6. SignedIsComplete'
  BY <1>1 DEF SInv, Signing, SignedIsComplete, Complete
<1>7. Signing'
  BY <1>1, <1>2, <1>6, Nothing DEF Signing
<1> QED
  BY <1>3, <1>4, <1>5, <1>7 DEF SInv

\* A packet is taken from the endpoint.
LEMMA ReceiveSigned ==
  ASSUME IInv, SInv, Receive
  PROVE  SInv'
<1>1. /\ ~Busy /\ Busy' /\ out # NoPacket /\ PacketFromPC' = out /\ out' = NoPacket
      /\ UNCHANGED <<mode, mem, loop, in, script, reports, sent, want>>
      /\ UNCHANGED <<BufferedDataIndex, ProgrammingBuffer>>
  BY DEF Receive, Busy, host, buffering
<1>2. out \in Sendable /\ out.cmd # "none" /\ loop = 0
      /\ (script # <<>> /\ sent => First \in {"QUERY_DEVICE", "QUERY_EXTENDED_INFO", "GET_DATA"})
  BY <1>1, OutPacket DEF IInv, Counters, Pipeline, Answered, Queries, First
<1>3. Latest' = Latest /\ Latest = out.cmd /\ First' = First /\ out'.cmd = "none"
  BY <1>1, Nothing DEF Latest, First
<1>4. /\ out.cmd = "QUERY_DEVICE" \/ Follows(PacketFromPC.cmd, out.cmd)
      /\ script # <<>> => IF sent THEN First = out.cmd
                          ELSE First = "QUERY_DEVICE" \/ Follows(out.cmd, First)
  BY <1>1, <1>3 DEF SInv, InOrder
<1>5. IsReports' /\ InOrder'
  BY <1>1, <1>3 DEF SInv, IsReports, InOrder
<1>6. (AnswerRead' <=> AnswerRead) /\ (Reading' <=> Reading)
  BY <1>1, Nothing DEF AnswerRead, Reading
<1>7. NoStaleRead'
  <2>1. in.cmd = "QUERY_DEVICE" => out.cmd \in {"QUERY_DEVICE", "QUERY_EXTENDED_INFO"}
    BY <1>1, <1>4 DEF SInv, NoStaleRead, Follows
  <2> QED
    BY <1>1, <1>3, <1>6, <2>1 DEF SInv, NoStaleRead
<1>8. ReadingOnly => ReadingOnly'
  BY <1>1, <1>2, <1>3 DEF ReadingOnly
<1>9. Current'
  BY <1>1, <1>3, <1>6, <1>8 DEF SInv, Current, Agrees
<1>10. Checked'
  BY <1>1, <1>3, <1>8 DEF SInv, Checked
<1>11. NotSigned' <=> NotSigned
  BY <1>1 DEF NotSigned
<1>12. Unsigned'
  <2>1. out.cmd \in Programs => NotSigned
    BY <1>1 DEF SInv, Unsigned, ErasedOrErasing
  <2>2. script # <<>> /\ First \in Programs => out.cmd \in Programs \cup {"ERASE_DEVICE"}
    BY <1>2, <1>4 DEF Follows, Programs
  <2> QED
    BY <1>1, <1>2, <1>3, <1>11, <2>1, <2>2 DEF Unsigned, ErasedOrErasing, Programs
<1>13. Emptied'
  <2>1. out.cmd \in Checks => BufferedDataIndex = 0
    BY <1>1 DEF SInv, Emptied, EmptyOrEmptying
  <2>2. script # <<>> /\ First \in Checks => out.cmd \in Checks \cup {"PROGRAM_COMPLETE"}
    BY <1>2, <1>4 DEF Follows, Checks
  <2> QED
    BY <1>1, <1>3, <2>1, <2>2 DEF SInv, Emptied, EmptyOrEmptying, Checks
<1>14. Signing'
  <2>1. SignedIsComplete' /\ (out.cmd = "SIGN_FLASH" => Whole')
    BY <1>1 DEF SInv, Signing, SignedIsComplete, Complete, Whole
  <2> QED
    BY <1>1, <1>2, <1>3, <2>1 DEF Signing
<1> QED
  BY <1>5, <1>7, <1>9, <1>10, <1>12, <1>13, <1>14 DEF SInv

-----------------------------------------------------------------------------
(* The page of the signature. *)

LEMMA PageOfSignature ==
  /\ SigPage = AppStart /\ SigPage + Page <= FlashEnd
  /\ SigAddress \in SigPage .. SigPage + Block - 1 /\ Block <= Page
<1>1. /\ Page \in Nat \ {0} /\ Block \in Nat \ {0} /\ Block < Page
      /\ AppStart \in Nat /\ FlashEnd \in Nat /\ AppStart < FlashEnd
      /\ SigAddress \in Nat /\ AppStart <= SigAddress /\ SigAddress <= AppStart + Block - 1
      /\ AppStart % Page = 0 /\ FlashEnd % Page = 0
  BY BootConstants
<1> DEFINE j == AppStart \div Page
           m == FlashEnd \div Page
           q == SigAddress \div Page
           r == SigAddress % Page
<1>2. /\ j \in Nat /\ AppStart = j * Page
      /\ m \in Nat /\ FlashEnd = m * Page
  BY <1>1, Division
<1>3. q \in Nat /\ r \in 0 .. Page - 1 /\ SigAddress = q * Page + r
  BY <1>1, Division
<1>4. SigPage = SigAddress - r
  BY DEF SigPage
<1> HIDE DEF j, m, q, r
<1>5. ~(j < q)
  <2>1. j < q => j * Page + Page <= q * Page
    BY <1>1, <1>2, <1>3, Quotients
  <2>2. q * Page \in Int /\ j * Page \in Int
    BY <1>1, <1>2, <1>3
  <2> HIDE DEF SigPage
  <2> QED
    BY <1>1, <1>2, <1>3, <2>1, <2>2
<1>6. ~(q < j)
  <2>1. q < j => q * Page + Page <= j * Page
    BY <1>1, <1>2, <1>3, Quotients
  <2> QED
    BY <1>1, <1>2, <1>3, <2>1
<1>7. SigPage = AppStart
  <2>1. q = j
    BY <1>2, <1>3, <1>5, <1>6
  <2> QED
    BY <1>1, <1>2, <1>3, <1>4, <2>1
<1>8. AppStart + Page <= FlashEnd
  <2>1. j < m => j * Page + Page <= m * Page
    BY <1>1, <1>2, Quotients
  <2>2. m < j => m * Page + Page <= j * Page
    BY <1>1, <1>2, Quotients
  <2>3. j # m
    BY <1>1, <1>2
  <2> QED
    BY <1>1, <1>2, <2>1, <2>2, <2>3
<1> QED
  BY <1>1, <1>7, <1>8

LEMMA BlocksOfPage == Blocks \in Nat /\ Blocks >= 1 /\ Blocks * Block = Page
<1>1. Page \in Nat \ {0} /\ Block \in Nat \ {0} /\ Page % Block = 0
  BY BootConstants
<1> DEFINE q == Page \div Block
<1>2. q \in Nat /\ Page = q * Block
  BY <1>1, Division
<1>3. Blocks = q
  BY DEF Blocks
<1> HIDE DEF q
<1>4. q # 0
  BY <1>1, <1>2
<1> QED
  BY <1>1, <1>2, <1>3, <1>4

LEMMA SomePages == AppPages >= 1 /\ AppPages \in Nat
<1> DEFINE n == FlashEnd - AppStart
           q == n \div Page
           r == n % Page
<1>1. n \in Nat /\ n >= Page /\ Page \in Nat \ {0}
  BY PageOfSignature, Sizes
<1> HIDE DEF n
<1>2. q \in Nat /\ r \in 0 .. Page - 1 /\ n = q * Page + r
  BY <1>1, Division
<1>3. AppPages = q
  BY DEF AppPages, n
<1> HIDE DEF q, r
<1>4. q # 0
  BY <1>1, <1>2
<1> QED
  BY <1>2, <1>3, <1>4

LEMMA PageInMemory ==
  /\ SigAddress \in Memory /\ SigAddress \in PageAt(SigPage) /\ SigAddress \in PageAt(AppStart)
  /\ \A a \in SigPage .. SigPage + Page - 1 : a \in Memory
  /\ PageAt(SigPage) = SigPage .. SigPage + Page - 1
<1>1. \A a \in SigPage .. SigPage + Page - 1 : a \in Memory
  BY PageOfSignature, Sizes DEF Memory, Flash
<1>2. SigAddress \in SigPage .. SigPage + Page - 1
  BY PageOfSignature, Sizes
<1> QED
  BY <1>1, <1>2, PageOfSignature DEF PageAt

-----------------------------------------------------------------------------
(* What does not write the signature. *)

LEMMA Contents == Erased # Signature /\ Junk # Signature
  BY DEF Erased, Junk, Signature

LEMMA EraseUnsigned ==
  ASSUME NEW cells, mem' = Erase(cells), NotSigned \/ SigAddress \in cells
  PROVE  NotSigned'
  BY PageInMemory, Contents DEF NotSigned, Erase

LEMMA OverwriteUnsigned ==
  ASSUME NotSigned, NEW x \in Int, x >= FlashEnd, Overwrite(x), Len(PacketFromPC.data) \in Nat
  PROVE  NotSigned'
<1>1. SigAddress \notin x .. x + Len(PacketFromPC.data) - 1
  BY PageOfSignature, Sizes
<1> QED
  BY <1>1, PageInMemory DEF NotSigned, Overwrite

LEMMA LatchesUnsigned ==
  ASSUME NotSigned, NEW first \in Int, NEW latch, WriteLatches(first, latch),
         \A k \in 0 .. Block - 1 : latch[k] # Signature
  PROVE  NotSigned'
<1>1. mem'[SigAddress] = IF SigAddress \in first .. first + Block - 1
                           THEN Programmed(mem[SigAddress], latch[SigAddress - first])
                           ELSE mem[SigAddress]
  BY PageInMemory DEF WriteLatches
<1>2. SigAddress \in first .. first + Block - 1 => SigAddress - first \in 0 .. Block - 1
  BY Sizes
<1> QED
  BY <1>1, <1>2, Contents DEF NotSigned, Programmed

LEMMA FlashWriteUnsigned ==
  ASSUME NotSigned, NEW pointer \in Nat, NEW buffer, NEW count \in 0 .. Block,
         WriteFlashBlock(pointer, buffer, count),
         \A i \in 0 .. count - 1 : buffer[i] # Signature
  PROVE  NotSigned' /\ \A i \in 0 .. BufferedDataIndex' - 1 : ProgrammingBuffer'[i] # Signature
<1> DEFINE base == Low(pointer - count)
           correction == base % Block
           first == base - correction
           taken == IF count < Block - correction THEN count ELSE Block - correction
           latch == [k \in 0 .. Block - 1 |->
                       IF k \in correction .. correction + taken - 1
                         THEN buffer[k - correction] ELSE Erased]
<1>1. base \in Nat
  BY Sizes DEF Low
<1>2. /\ WriteLatches(first, latch) /\ BufferedDataIndex' = count - taken
      /\ ProgrammingBuffer' = [i \in 0 .. Page - 1 |->
           IF i < count - taken THEN buffer[taken + i] ELSE buffer[i]]
  BY DEF WriteFlashBlock
<1> HIDE DEF base
<1>3. correction \in 0 .. Block - 1
  BY <1>1, NextBlock
<1> HIDE DEF correction
<1>4. taken \in 0 .. count /\ first \in Int
  BY <1>1, <1>3, Sizes
<1> HIDE DEF taken, first
<1>5. \A k \in 0 .. Block - 1 : latch[k] # Signature
  <2>1. \A k \in correction .. correction + taken - 1 : k - correction \in 0 .. count - 1
    BY <1>3, <1>4
  <2> QED
    BY <2>1, Contents
<1> HIDE DEF latch
<1>6. NotSigned'
  BY <1>2, <1>4, <1>5, LatchesUnsigned
<1>7. ASSUME NEW i \in 0 .. BufferedDataIndex' - 1 PROVE ProgrammingBuffer'[i] # Signature
  <2>1. i \in 0 .. count - taken - 1 /\ i \in 0 .. Page - 1
    BY <1>2, <1>4, PageOfSignature, Sizes
  <2>2. taken + i \in 0 .. count - 1
    BY <1>4, <2>1
  <2> QED
    BY <1>2, <2>1, <2>2
<1> QED
  BY <1>6, <1>7

-----------------------------------------------------------------------------
(* The commands. *)

\* The packets on their way do not notice a command that reads nothing back.
LEMMA CommandQueue ==
  ASSUME IInv, SInv, Busy, mode = "boot",
         UNCHANGED <<mode, script, reports, sent, out, PacketFromPC, want>>,
         PacketFromPC.cmd # "GET_DATA",
         \/ in' = in /\ PacketFromPC.cmd \notin Queries
         \/ in' = PacketFromPC /\ UNCHANGED mem
  PROVE  IsReports' /\ InOrder' /\ NoStaleRead' /\ Current' /\ Checked'
<1>1. First' = First /\ Latest' = Latest
  BY DEF First, Latest
<1>2. IsReports' /\ InOrder'
  BY <1>1 DEF SInv, IsReports, InOrder
<1>3. ~Reads(PacketFromPC) /\ (AnswerRead' => AnswerRead)
  BY DEF AnswerRead, Reads
<1>4. Reading' => Reading
  BY <1>3 DEF Reading
<1>5. NoStaleRead'
  <2>1. in'.cmd = "QUERY_DEVICE" => PacketFromPC'.cmd = "QUERY_DEVICE"
    BY DEF SInv, NoStaleRead, Queries
  <2> QED
    BY <1>1, <1>4, <2>1 DEF SInv, NoStaleRead
<1>6. Current'
  BY <1>1, <1>3 DEF SInv, Current, ReadingOnly
<1>7. Checked'
  BY <1>1 DEF SInv, Checked, ReadingOnly
<1> QED
  BY <1>2, <1>5, <1>6, <1>7

\* Which commands can be behind the one at hand.
LEMMA Behind ==
  ASSUME IInv, SInv, Busy
  PROVE  /\ out.cmd \in {"none", "QUERY_DEVICE"} \/ Follows(PacketFromPC.cmd, out.cmd)
         /\ out = NoPacket /\ script # <<>> =>
              First = "QUERY_DEVICE" \/ Follows(PacketFromPC.cmd, First) \/ First = PacketFromPC.cmd
  BY Nothing DEF SInv, InOrder, Latest

\* A command that leaves the memory and the buffer alone.
LEMMA QuietCommand ==
  ASSUME IInv, SInv, Busy, ~Busy',
         UNCHANGED <<mem, BufferedDataIndex, ProgrammingBuffer, out, script, PacketFromPC>>,
         PacketFromPC.cmd \notin {"ERASE_DEVICE", "SIGN_FLASH"} \cup Programs
  PROVE  Unsigned' /\ Emptied' /\ Signing'
<1>1. (NotSigned' <=> NotSigned) /\ First' = First /\ (Whole' <=> Whole)
      /\ (SignedIsComplete' <=> SignedIsComplete)
  BY DEF NotSigned, First, Whole, SignedIsComplete, Complete
<1>2. Unsigned'
  BY <1>1 DEF SInv, Unsigned, ErasedOrErasing, Programs
<1>3. Emptied'
  BY <1>1 DEF SInv, Emptied, EmptyOrEmptying, Programs
<1>4. Signing'
  BY <1>1 DEF SInv, Signing
<1> QED
  BY <1>2, <1>3, <1>4

\* A command that programs or erases while there is no signature.
LEMMA WritingCommand ==
  ASSUME IInv, SInv, Busy, UNCHANGED <<out, script, PacketFromPC>>,
         PacketFromPC.cmd \in {"ERASE_DEVICE"} \cup Programs, NotSigned',
         PacketFromPC.cmd = "ERASE_DEVICE" => BufferedDataIndex' = BufferedDataIndex,
         PacketFromPC.cmd = "PROGRAM_COMPLETE" => BufferedDataIndex' = 0,
         \A i \in 0 .. BufferedDataIndex' - 1 : ProgrammingBuffer'[i] # Signature,
         DOMAIN ProgrammingBuffer' = 0 .. Page - 1
  PROVE  Unsigned' /\ Emptied' /\ Signing'
<1>1. First' = First
  BY DEF First
<1>2. Unsigned'
  BY DEF Unsigned, ErasedOrErasing
<1>3. Emptied'
  <2>1. PacketFromPC.cmd = "PROGRAM_DEVICE" =>
          out.cmd \notin Checks /\ ~(out = NoPacket /\ script # <<>> /\ First \in Checks)
    BY Behind DEF Follows, Checks
  <2>2. PacketFromPC.cmd = "ERASE_DEVICE" =>
          out.cmd \notin Checks /\ ~(out = NoPacket /\ script # <<>> /\ First \in Checks)
    BY Behind DEF Follows, Checks
  <2>3. PacketFromPC.cmd \notin Checks
    BY DEF Checks, Programs
  <2> QED
    BY <1>1, <2>1, <2>2, <2>3 DEF Emptied, EmptyOrEmptying, Programs
<1>4. Signing'
  <2>1. out.cmd # "SIGN_FLASH" /\ PacketFromPC.cmd # "SIGN_FLASH"
    BY Behind DEF Follows, Programs
  <2> QED
    BY <2>1 DEF Signing, SignedIsComplete, NotSigned
<1> QED
  BY <1>2, <1>3, <1>4

LEMMA QuerySigned ==
  ASSUME IInv, SInv, QueryDevice \/ UnlockConfig
  PROVE  SInv'
<1>1. /\ Busy /\ ~Busy' /\ mode = "boot"
      /\ UNCHANGED <<mode, script, reports, sent, out, PacketFromPC, want, mem>>
      /\ UNCHANGED <<BufferedDataIndex, ProgrammingBuffer>>
      /\ PacketFromPC.cmd \in Queries \cup {"UNLOCK_CONFIG"}
      /\ \/ in' = in /\ PacketFromPC.cmd = "UNLOCK_CONFIG"
         \/ in' = PacketFromPC
  BY DEF QueryDevice, UnlockConfig, Working, Busy, Done, rest, host, buffering, usb
<1>2. IsReports' /\ InOrder' /\ NoStaleRead' /\ Current' /\ Checked'
  BY <1>1, CommandQueue DEF Queries
<1>3. Unsigned' /\ Emptied' /\ Signing'
  BY <1>1, QuietCommand DEF Queries, Programs
<1> QED
  BY <1>2, <1>3 DEF SInv

LEMMA GetDataSigned ==
  ASSUME IInv, SInv, GetData
  PROVE  SInv'
<1>1. /\ Busy /\ ~Busy' /\ mode = "boot" /\ in = NoPacket
      /\ UNCHANGED <<mode, script, reports, sent, out, PacketFromPC, want, mem>>
      /\ UNCHANGED <<BufferedDataIndex, ProgrammingBuffer>>
      /\ PacketFromPC.cmd = "GET_DATA"
      /\ in' = [PacketFromPC EXCEPT !.data =
                 [i \in DOMAIN @ |-> mem[PacketFromPC.addr + i - 1]]]
  BY DEF GetData, Working, Busy, Done, rest, host, buffering
<1>2. /\ in'.cmd = "GET_DATA" /\ in'.addr = PacketFromPC.addr
      /\ in'.data = [i \in DOMAIN PacketFromPC.data |-> mem[PacketFromPC.addr + i - 1]]
  <2>1. PacketFromPC \in [cmd : {"PROGRAM_DEVICE", "GET_DATA"}, addr : Nat, data : Seq(Cell)]
    BY <1>1, OutPacket DEF Sendable, Packet, Queries
  <2> QED
    BY <1>1, <2>1
<1>3. Agrees(in)'
  BY <1>1, <1>2 DEF Agrees
<1>4. First' = First /\ Latest' = Latest
  BY <1>1 DEF First, Latest
<1>5. IsReports' /\ InOrder'
  BY <1>1, <1>4 DEF SInv, IsReports, InOrder
<1>6. Reading
  BY <1>1 DEF Reading, Reads
<1>7. NoStaleRead'
  BY <1>1, <1>2, <1>4, <1>6 DEF SInv, NoStaleRead
<1>8. script # <<>> /\ First = "GET_DATA" => ReadingOnly'
  <2>1. SUFFICES ASSUME script # <<>>, First = "GET_DATA", out # NoPacket
                 PROVE  out.cmd = "GET_DATA"
    BY <1>1, Nothing DEF ReadingOnly
  <2>2. out.cmd \in {"QUERY_DEVICE", "GET_DATA", "SIGN_FLASH"}
    BY <1>1, <2>1 DEF SInv, InOrder, Follows
  <2>3. First = out.cmd \/ Follows(out.cmd, First)
    BY <2>1 DEF SInv, InOrder, Latest
  <2> QED
    BY <2>1, <2>2, <2>3 DEF Follows
<1>9. Current'
  <2>1. SUFFICES ASSUME script # <<>>, First = "GET_DATA"
                 PROVE  \A k \in DOMAIN reports : Reads(reports[k]) => Agrees(reports[k])'
    BY <1>1, <1>3, <1>4, <1>8 DEF Current
  <2>2. \A k \in DOMAIN reports : Reads(reports[k]) => Agrees(reports[k])
    BY <2>1 DEF SInv, Current, AnswerRead
  <2> QED
    BY <1>1, <2>2 DEF Agrees
<1>10. Checked'
  BY <1>1, <1>4 DEF SInv, Checked, ReadingOnly
<1>11. Unsigned' /\ Emptied' /\ Signing'
  BY <1>1, QuietCommand DEF Programs
<1> QED
  BY <1>5, <1>7, <1>9, <1>10, <1>11 DEF SInv

LEMMA EraseSigned ==
  ASSUME IInv, SInv, EraseFlashPage \/ EraseEepromAndUserId
  PROVE  SInv' /\ NotSigned'
<1>1. /\ Busy /\ mode = "boot"
      /\ UNCHANGED <<mode, script, reports, sent, out, PacketFromPC, want, in>>
      /\ UNCHANGED <<BufferedDataIndex, ProgrammingBuffer>>
      /\ PacketFromPC.cmd = "ERASE_DEVICE"
  BY DEF EraseFlashPage, EraseEepromAndUserId, Working, Busy, rest, host, buffering, usb
<1>2. loop \in Nat /\ (loop > 0 => NotSigned)
  BY <1>1 DEF IInv, Counters, SInv, Unsigned
<1>3. NotSigned'
  <2>1. CASE EraseFlashPage
    <3>1. mem' = Erase(PageAt(AppStart + loop * Page))
      BY <2>1 DEF EraseFlashPage
    <3>2. loop = 0 => SigAddress \in PageAt(AppStart + loop * Page)
      <4>1. loop = 0 => AppStart + loop * Page = AppStart
        BY Sizes
      <4> QED
        BY <4>1, PageInMemory
    <3> QED
      BY <1>2, <3>1, <3>2, EraseUnsigned
  <2>2. CASE EraseEepromAndUserId
    <3>1. mem' = Erase(Eeprom \cup UserId) /\ loop > 0
      BY <2>2, SomePages DEF EraseEepromAndUserId
    <3> QED
      BY <1>2, <3>1, EraseUnsigned
  <2> QED
    BY <2>1, <2>2
<1>4. IsReports' /\ InOrder' /\ NoStaleRead' /\ Current' /\ Checked'
  BY <1>1, CommandQueue DEF Queries
<1>5. Unsigned' /\ Emptied' /\ Signing'
  BY <1>1, <1>3, WritingCommand DEF SInv, Emptied
<1> QED
  BY <1>3, <1>4, <1>5 DEF SInv

\* The bytes of a packet, and what is buffered of it, hold no signature.
LEMMA ByteUnsigned ==
  ASSUME IInv, SInv, ProgramByte
  PROVE  NotSigned' /\ \A i \in 0 .. BufferedDataIndex' - 1 : ProgrammingBuffer'[i] # Signature
<1>1. /\ PacketFromPC \in Sendable /\ Writes(PacketFromPC) /\ Filling /\ Middle
  BY FillingFacts
<1>2. /\ loop \in Nat /\ loop > 0 /\ loop <= Len(PacketFromPC.data)
      /\ PacketFromPC.data \in Seq(Cell) /\ PacketFromPC \in ScriptPackets
  BY <1>1, AddressedPacket DEF Filling, Middle, IInv, Counters, Sendable, Writes
<1>3. PacketFromPC.data[loop] # Signature
  <2>1. loop \in DOMAIN PacketFromPC.data
    BY <1>2
  <2> QED
    BY <1>1, <1>2, <2>1, ScriptShape
<1>4. NotSigned
  BY <1>1 DEF SInv, Unsigned, Filling, Writes, Programs
<1>5. BufferedDataIndex \in 0 .. Block - 1 /\ ProgrammedPointer \in Nat
  BY DEF IInv, Counters
<1>6. \A i \in 0 .. BufferedDataIndex : Buffered[i] # Signature
  <2>1. \A i \in 0 .. BufferedDataIndex - 1 : ProgrammingBuffer[i] # Signature
    BY DEF SInv, Emptied
  <2>2. ASSUME NEW i \in 0 .. BufferedDataIndex PROVE Buffered[i] # Signature
    <3>1. i # BufferedDataIndex => i \in 0 .. BufferedDataIndex - 1
      BY <1>5
    <3>2. i \in DOMAIN ProgrammingBuffer
      BY <1>5, PageOfSignature, Sizes DEF SInv, Emptied
    <3> QED
      BY <1>3, <2>1, <3>1, <3>2 DEF Buffered
  <2> QED
    BY <2>2
<1>7. CASE BufferedDataIndex + 1 = Block
  <2>1. WriteFlashBlock(ProgrammedPointer + 1, Buffered, BufferedDataIndex + 1)
    BY <1>7 DEF ProgramByte
  <2>2. /\ ProgrammedPointer + 1 \in Nat /\ BufferedDataIndex + 1 \in 0 .. Block
        /\ \A i \in 0 .. (BufferedDataIndex + 1) - 1 : Buffered[i] # Signature
    <3>1. (BufferedDataIndex + 1) - 1 = BufferedDataIndex
      BY <1>5
    <3> HIDE DEF Buffered
    <3> QED
      BY <1>5, <1>6, <3>1, Sizes
  <2> QED
    BY <1>4, <2>1, <2>2, FlashWriteUnsigned
<1>8. CASE BufferedDataIndex + 1 # Block
  <2>1. mem' = mem /\ ProgrammingBuffer' = Buffered /\ BufferedDataIndex' = BufferedDataIndex + 1
    BY <1>8 DEF ProgramByte
  <2> QED
    BY <1>4, <1>5, <1>6, <2>1 DEF NotSigned
<1> QED
  BY <1>7, <1>8

LEMMA ProgramSigned ==
  ASSUME IInv, SInv,
         \/ ProgramConfigBits \/ ProgramEeprom \/ ProgramContiguous \/ ProgramIgnored
         \/ ProgramByte \/ ProgramComplete
  PROVE  SInv' /\ NotSigned'
<1>1. /\ Busy /\ mode = "boot" /\ PacketFromPC.cmd \in Programs
      /\ UNCHANGED <<mode, script, reports, sent, out, PacketFromPC, want, in>>
  BY DEF ProgramConfigBits, ProgramEeprom, ProgramContiguous, ProgramIgnored, ProgramByte,
         ProgramComplete, ToFlash, Working, Busy, rest, host, usb, Programs
<1>2. NotSigned /\ \A i \in 0 .. BufferedDataIndex - 1 : ProgrammingBuffer[i] # Signature
  BY <1>1 DEF SInv, Unsigned, Emptied
<1>3. Working("PROGRAM_DEVICE") => PacketFromPC.addr \in Nat /\ Len(PacketFromPC.data) \in Nat
  BY <1>1, OutPacket, AddressedPacket DEF Sendable, Working
<1>4. /\ NotSigned' /\ \A i \in 0 .. BufferedDataIndex' - 1 : ProgrammingBuffer'[i] # Signature
      /\ PacketFromPC.cmd = "PROGRAM_COMPLETE" => BufferedDataIndex' = 0
  <2>1. CASE UNCHANGED <<mem, BufferedDataIndex, ProgrammingBuffer>> /\ Working("PROGRAM_DEVICE")
    BY <1>2, <2>1 DEF NotSigned, Working
  <2>2. CASE ProgramConfigBits
    <3>1. UNCHANGED <<BufferedDataIndex, ProgrammingBuffer>> /\ Working("PROGRAM_DEVICE")
      BY <2>2 DEF ProgramConfigBits, buffering
    <3>2. CASE ConfigsLockValue
      BY <2>1, <2>2, <3>1, <3>2 DEF ProgramConfigBits
    <3>3. CASE ~ConfigsLockValue
      <4>1. PICK stale \in 0 .. LowByte - 1 :
              Overwrite(2 * Segment + (PacketFromPC.addr % LowByte) * LowByte + stale)
        BY <2>2, <3>3 DEF ProgramConfigBits
      <4> DEFINE low == PacketFromPC.addr % LowByte
                 offset == low * LowByte
                 x == 2 * Segment + offset + stale
      <4>2. LowByte \in Nat \ {0}
        BY Sizes
      <4>3. low \in Nat
        <5>1. PacketFromPC.addr \in Nat
          BY <1>3, <3>1
        <5>2. low \in 0 .. LowByte - 1
          BY <4>2, <5>1, Division, Zenon
        <5> HIDE DEF low
        <5> QED
          BY <5>2
      <4>4. offset \in Nat
        <5> HIDE DEF low
        <5> QED
          BY <4>2, <4>3, Product
      <4>5. Overwrite(x)
        BY <4>1
      <4>6. x \in Int /\ x >= FlashEnd
        <5> HIDE DEF offset
        <5> QED
          BY <4>4, Sizes
      <4> HIDE DEF x
      <4>7. NotSigned'
        BY <1>2, <1>3, <3>1, <4>5, <4>6, OverwriteUnsigned
      <4> QED
        BY <1>2, <3>1, <4>7 DEF Working
    <3> QED
      BY <3>2, <3>3
  <2>3. CASE ProgramEeprom
    <3>1. /\ UNCHANGED <<BufferedDataIndex, ProgrammingBuffer>> /\ Working("PROGRAM_DEVICE")
          /\ Bank(PacketFromPC.addr) = 3 /\ Overwrite(PacketFromPC.addr)
      BY <2>3 DEF ProgramEeprom, buffering
    <3>2. PacketFromPC.addr >= FlashEnd
      BY <1>3, <3>1, EepromAboveFlash
    <3>3. NotSigned'
      BY <1>2, <1>3, <3>1, <3>2, OverwriteUnsigned
    <3> QED
      BY <1>2, <3>1, <3>3 DEF Working
  <2>4. CASE ProgramContiguous
    BY <2>1, <2>4 DEF ProgramContiguous, ToFlash
  <2>5. CASE ProgramIgnored
    BY <2>1, <2>5 DEF ProgramIgnored, ToFlash, buffering
  <2>6. CASE ProgramByte
    BY <2>6, ByteUnsigned DEF ProgramByte, ToFlash, Working
  <2>7. CASE ProgramComplete
    <3>1. WriteFlashBlock(ProgrammedPointer, ProgrammingBuffer, BufferedDataIndex)
      BY <2>7 DEF ProgramComplete
    <3>2. ProgrammedPointer \in Nat /\ BufferedDataIndex \in 0 .. Block
      BY Sizes DEF IInv, Counters
    <3> QED
      BY <1>2, <2>7, <3>1, <3>2, FlashWriteUnsigned, CompleteWrites
  <2> QED
    BY <2>2, <2>3, <2>4, <2>5, <2>6, <2>7
<1>5. IsReports' /\ InOrder' /\ NoStaleRead' /\ Current' /\ Checked'
  BY <1>1, CommandQueue DEF Queries, Programs
<1>6. DOMAIN ProgrammingBuffer' = 0 .. Page - 1
  BY DEF SInv, Emptied, ProgramConfigBits, ProgramEeprom, ProgramContiguous, ProgramIgnored,
         ProgramByte, ProgramComplete, buffering, WriteFlashBlock, Buffered
<1>7. Unsigned' /\ Emptied' /\ Signing'
  BY <1>1, <1>4, <1>6, WritingCommand DEF Programs
<1> QED
  BY <1>4, <1>5, <1>7 DEF SInv

-----------------------------------------------------------------------------
(* SignFlash. *)

LEMMA HalfUnsigned ==
  ASSUME NEW v, NEW first \in Nat, HalfSigned(v, first), SigPage + Block <= first
  PROVE  NotSigned
<1>1. SigAddress \in SigPage .. first - 1
  BY PageOfSignature, Sizes
<1> QED
  BY <1>1, Contents DEF HalfSigned, NotSigned

LEMMA WhollySigned ==
  ASSUME NEW v \in Versions, HalfSigned(v, SigPage)
  PROVE  Complete(v)
<1>1. \A a \in ImageCells(v) : a \in PageAt(SigPage) => a >= SigPage
  BY PageInMemory, ImageInMemory, PageOfSignature, Sizes
<1> QED
  BY <1>1 DEF HalfSigned, Complete

LEMMA NotInImage ==
  ASSUME NEW v, NEW a \in ImageCells(v)
  PROVE  a # SigAddress
  BY DEF ImageCells

\* The copy of the page in the buffer.
LEMMA CopiedPage ==
  ASSUME NEW v \in Versions, Complete(v), NEW first \in Nat, first = SigPage + Page,
         mem' = Erase(PageAt(SigPage)),
         ProgrammingBuffer' = [i \in 0 .. Page - 1 |->
           IF SigPage + i = SigAddress THEN Signature ELSE mem[SigPage + i]]
  PROVE  HalfSigned(v, first)'
<1>1. SigPage \in Nat /\ Page \in Nat
  BY PageOfSignature, Sizes
<1> USE DEF HalfSigned
<1>2. ASSUME NEW a \in ImageCells(v), a \in PageAt(SigPage)
      PROVE  ProgrammingBuffer'[a - SigPage] = <<v, a>> /\ ~(a >= first)
  <2>1. /\ a \in SigPage .. SigPage + Page - 1 /\ a # SigAddress /\ mem[a] = <<v, a>>
    <3>1. a # SigAddress
      BY <1>2, NotInImage
    <3>2. a \in SigPage .. SigPage + Page - 1
      BY <1>2, PageInMemory, Zenon
    <3>3. mem[a] = <<v, a>>
      BY <1>2 DEF Complete
    <3> QED
      BY <3>1, <3>2, <3>3
  <2>2. a - SigPage \in 0 .. Page - 1 /\ SigPage + (a - SigPage) = a
    BY <1>1, <2>1
  <2> HIDE DEF SigPage
  <2> QED
    BY <1>1, <2>1, <2>2
<1>3. ASSUME NEW a \in ImageCells(v), a \notin PageAt(SigPage)
      PROVE  mem'[a] = <<v, a>>
  BY <1>3, ImageInMemory DEF Erase, Complete
<1>4. ASSUME NEW a \in SigPage .. first - 1 PROVE mem'[a] = Erased
  BY <1>1, PageInMemory DEF Erase
<1> QED
  BY <1>2, <1>3, <1>4

\* One more block of the page.
LEMMA ProgrammedBlock ==
  ASSUME NEW v \in Versions, NEW first \in Nat, SigPage <= first,
         first + Block <= SigPage + Page, HalfSigned(v, first + Block),
         WriteLatches(first,
           [k \in 0 .. Block - 1 |-> ProgrammingBuffer[(first - SigPage) + k]]),
         UNCHANGED ProgrammingBuffer
  PROVE  HalfSigned(v, first)'
<1>1. SigPage \in Nat /\ Page \in Nat /\ Block \in Nat
  BY PageOfSignature, Sizes
<1>2. ASSUME NEW a \in first .. first + Block - 1
      PROVE  mem'[a] = ProgrammingBuffer[a - SigPage]
  <2>1. /\ a - first \in 0 .. Block - 1 /\ (first - SigPage) + (a - first) = a - SigPage
        /\ a \in SigPage .. SigPage + Page - 1 /\ a \in SigPage .. (first + Block) - 1
    BY <1>1, <1>2
  <2>2. a \in Memory /\ mem[a] = Erased
    BY <2>1, PageInMemory DEF HalfSigned
  <2>3. mem'[a] = Programmed(mem[a], ProgrammingBuffer[(first - SigPage) + (a - first)])
    BY <1>2, <2>1, <2>2 DEF WriteLatches
  <2> QED
    BY <2>1, <2>2, <2>3 DEF Programmed
<1>3. ASSUME NEW a \in Memory, a \notin first .. first + Block - 1
      PROVE  mem'[a] = mem[a]
  BY <1>3 DEF WriteLatches
<1>4. ASSUME NEW a \in ImageCells(v), a \in PageAt(SigPage)
      PROVE  ProgrammingBuffer'[a - SigPage] = <<v, a>> /\ (a >= first => mem'[a] = <<v, a>>)
  <2>1. ProgrammingBuffer[a - SigPage] = <<v, a>> /\ (a >= first + Block => mem[a] = <<v, a>>)
    BY <1>4 DEF HalfSigned
  <2>2. a \in Memory /\ a \in Nat
    BY ImageInMemory
  <2>3. a >= first => a \in first .. first + Block - 1
                      \/ (a >= first + Block /\ a \notin first .. first + Block - 1)
    BY <1>1, <2>2
  <2> HIDE DEF SigPage
  <2> QED
    BY <1>2, <1>3, <2>1, <2>2, <2>3
<1>5. ASSUME NEW a \in ImageCells(v), a \notin PageAt(SigPage)
      PROVE  mem'[a] = <<v, a>>
  <2>1. a \in Memory /\ mem[a] = <<v, a>>
    BY <1>5, ImageInMemory DEF HalfSigned
  <2>2. a \notin first .. first + Block - 1
    BY <1>1, <1>5, PageInMemory
  <2> QED
    BY <1>3, <2>1, <2>2
<1>6. ASSUME NEW a \in SigPage .. first - 1
      PROVE  mem'[a] = Erased
  <2>1. /\ a \in SigPage .. SigPage + Page - 1 /\ a \in SigPage .. (first + Block) - 1
        /\ a \notin first .. first + Block - 1
    BY <1>1, <1>6
  <2> QED
    BY <1>3, <2>1, PageInMemory DEF HalfSigned
<1> QED
  BY <1>4, <1>5, <1>6 DEF HalfSigned

\* Nothing is programmed after SIGN_FLASH.
LEMMA SignQueue ==
  ASSUME IInv, SInv, Busy, PacketFromPC.cmd = "SIGN_FLASH",
         BufferedDataIndex' = BufferedDataIndex, DOMAIN ProgrammingBuffer' = 0 .. Page - 1,
         UNCHANGED <<out, script, PacketFromPC>>
  PROVE  Unsigned' /\ Emptied' /\ out'.cmd # "SIGN_FLASH"
<1>1. BufferedDataIndex = 0
  BY DEF SInv, Emptied, Checks
<1>2. /\ out.cmd \notin Programs /\ out.cmd # "SIGN_FLASH"
      /\ ~(out = NoPacket /\ script # <<>> /\ First \in Programs)
  BY Behind DEF Follows, Programs
<1>3. First' = First /\ PacketFromPC.cmd \notin Programs /\ 0 .. 0 - 1 = {}
  BY DEF First, Programs
<1>4. Unsigned'
  BY <1>2, <1>3 DEF Unsigned
<1>5. Emptied'
  BY <1>1, <1>3 DEF Emptied, EmptyOrEmptying
<1> QED
  BY <1>2, <1>4, <1>5

LEMMA SignBeginSigned ==
  ASSUME IInv, SInv, SignBegin
  PROVE  SInv' /\ NotSigned'
<1>1. /\ Busy /\ Busy' /\ mode = "boot" /\ PacketFromPC.cmd = "SIGN_FLASH" /\ loop = 0 /\ loop' = 1
      /\ UNCHANGED <<mode, script, reports, sent, out, PacketFromPC, want, in>>
      /\ BufferedDataIndex' = BufferedDataIndex
      /\ mem' = Erase(PageAt(SigPage))
      /\ ProgrammingBuffer' = [i \in 0 .. Page - 1 |->
           IF SigPage + i = SigAddress THEN Signature ELSE mem[SigPage + i]]
  BY DEF SignBegin, Working, Busy, rest, host, usb
<1>2. Unsigned' /\ Emptied' /\ out'.cmd # "SIGN_FLASH"
  BY <1>1, SignQueue
<1>3. NotSigned'
  BY <1>1, PageInMemory, EraseUnsigned
<1>4. PICK v \in Versions : Complete(v)
  BY <1>1 DEF SInv, Signing, Whole
<1>5. Unprogrammed' = SigPage + Page /\ loop' \in 1 .. Blocks
  <2>1. (Blocks - 1) + 1 = Blocks
    BY BlocksOfPage
  <2> QED
    BY <1>1, <2>1, BlocksOfPage DEF Unprogrammed
<1>6. PICK first \in Nat : first = SigPage + Page
  BY PageOfSignature, Sizes
<1>7. HalfSigned(v, first)'
  BY <1>1, <1>4, <1>6, CopiedPage
<1>8. HalfSigned(v, Unprogrammed)'
  BY <1>5, <1>6, <1>7
<1>9. Signing'
  BY <1>1, <1>2, <1>3, <1>5, <1>8 DEF Signing, SignedIsComplete, NotSigned
<1>10. IsReports' /\ InOrder' /\ NoStaleRead' /\ Current' /\ Checked'
  BY <1>1, CommandQueue DEF Queries
<1> QED
  BY <1>2, <1>3, <1>9, <1>10 DEF SInv

LEMMA SignBlockSigned ==
  ASSUME IInv, SInv, SignBlock
  PROVE  SInv' /\ NotSigned
<1> DEFINE offset == (Blocks - loop) * Block
<1>1. /\ Busy /\ mode = "boot" /\ PacketFromPC.cmd = "SIGN_FLASH" /\ loop \in 1 .. Blocks
      /\ UNCHANGED <<mode, script, reports, sent, out, PacketFromPC, want, in>>
      /\ BufferedDataIndex' = BufferedDataIndex /\ UNCHANGED ProgrammingBuffer
      /\ WriteLatches(SigPage + offset,
                      [k \in 0 .. Block - 1 |-> ProgrammingBuffer[offset + k]])
      /\ IF loop = Blocks THEN ~Busy' ELSE Busy' /\ loop' = loop + 1
  BY DEF SignBlock, Working, Busy, Done, rest, host, usb, buffering
<1>2. PICK v \in Versions : HalfSigned(v, Unprogrammed)
  BY <1>1 DEF SInv, Signing
<1>3. /\ offset \in Nat /\ offset + Block <= Page
      /\ Unprogrammed = SigPage + offset + Block
      /\ loop < Blocks => Block <= offset
      /\ loop = Blocks => offset = 0
  <2> DEFINE j == Blocks - loop
  <2>1. /\ j \in Nat /\ j < Blocks /\ (loop < Blocks => 0 < j) /\ (loop = Blocks => j = 0)
        /\ Blocks - loop + 1 = j + 1 /\ Blocks \in Nat
    BY <1>1, BlocksOfPage
  <2>2. Block \in Nat \ {0} /\ SigPage \in Nat
    BY Sizes, PageOfSignature
  <2>3. offset = j * Block /\ Unprogrammed = SigPage + (j + 1) * Block
    BY <2>1 DEF Unprogrammed
  <2> HIDE DEF offset, j
  <2>4. j * Block \in Nat
    BY <2>1, <2>2, Product
  <2>5. j * Block + Block <= Page
    BY <2>1, <2>2, Quotients, BlocksOfPage
  <2>6. loop < Blocks => Block <= j * Block
    <3>1. 0 < j => 0 * Block + Block <= j * Block
      BY <2>1, <2>2, Quotients
    <3> QED
      BY <2>1, <2>2, <2>4, <3>1
  <2>7. (j + 1) * Block = j * Block + Block
    BY <2>1, <2>2
  <2>8. loop = Blocks => j * Block = 0
    BY <2>1, <2>2
  <2> HIDE DEF SigPage, Unprogrammed
  <2> QED
    BY <2>2, <2>3, <2>4, <2>5, <2>6, <2>7, <2>8
<1>4. PICK w \in Nat : w = SigPage + offset
  <2> HIDE DEF offset, SigPage
  <2> QED
    BY <1>3, PageOfSignature, Sizes
<1>5. /\ SigPage <= w /\ w + Block <= SigPage + Page /\ Unprogrammed = w + Block
      /\ w - SigPage = offset
      /\ loop < Blocks => SigPage + Block <= w
      /\ loop = Blocks => w = SigPage
  <2>1. SigPage \in Nat /\ Block \in Nat /\ Page \in Nat
    BY PageOfSignature, Sizes
  <2> HIDE DEF offset, SigPage, Unprogrammed
  <2> QED
    BY <1>3, <1>4, <2>1
<1>6. HalfSigned(v, w)'
  <2>1. WriteLatches(w, [k \in 0 .. Block - 1 |-> ProgrammingBuffer[(w - SigPage) + k]])
    <3> HIDE DEF offset, SigPage, WriteLatches
    <3> QED
      BY <1>1, <1>4, <1>5
  <2>2. HalfSigned(v, w + Block)
    BY <1>2, <1>5
  <2> QED
    BY <1>1, <1>5, <2>1, <2>2, ProgrammedBlock
<1>7. Unsigned' /\ Emptied' /\ out'.cmd # "SIGN_FLASH"
  <2>1. DOMAIN ProgrammingBuffer' = 0 .. Page - 1
    BY <1>1 DEF SInv, Emptied
  <2> QED
    BY <1>1, <2>1, SignQueue
<1>8. Signing'
  <2>1. CASE loop = Blocks
    <3>1. HalfSigned(v, SigPage)'
      BY <1>5, <1>6, <2>1
    <3>2. Complete(v)'
      BY <3>1, WhollySigned, PTL
    <3> QED
      BY <1>1, <1>7, <2>1, <3>2 DEF Signing, SignedIsComplete
  <2>2. CASE loop # Blocks
    <3>1. loop < Blocks /\ loop' = loop + 1 /\ loop' \in 1 .. Blocks
      BY <1>1, <2>2, BlocksOfPage
    <3>2. Unprogrammed' = w
      <4>1. Blocks - (loop + 1) + 1 = Blocks - loop
        BY <1>1, BlocksOfPage
      <4>2. Unprogrammed' = SigPage + (Blocks - loop) * Block
        BY <3>1, <4>1 DEF Unprogrammed
      <4> QED
        BY <1>4, <4>2
    <3>3. HalfSigned(v, Unprogrammed)'
      BY <1>6, <3>2
    <3>4. NotSigned'
      <4>1. SigAddress \in SigPage .. w - 1
        BY <1>5, <3>1, PageOfSignature, Sizes
      <4> QED
        BY <1>6, <4>1, Contents DEF HalfSigned, NotSigned
    <3> QED
      BY <1>1, <1>7, <3>1, <3>3, <3>4 DEF Signing, SignedIsComplete, NotSigned
  <2> QED
    BY <2>1, <2>2
<1>9. IsReports' /\ InOrder' /\ NoStaleRead' /\ Current' /\ Checked'
  BY <1>1, CommandQueue DEF Queries
<1>10. NotSigned
  <2>1. w + Block \in Nat /\ HalfSigned(v, w + Block) /\ SigPage + Block <= w + Block
    <3> HIDE DEF SigPage, Unprogrammed
    <3> QED
      BY <1>2, <1>5, PageOfSignature, Sizes
  <2> QED
    BY <2>1, HalfUnsigned
<1> QED
  BY <1>7, <1>8, <1>9, <1>10 DEF SInv

-----------------------------------------------------------------------------
(* Every step. *)

LEMMA InitSInv == Init => SInv
<1> SUFFICES ASSUME Init PROVE SInv
  OBVIOUS
<1>1. /\ ~Busy /\ script = <<>> /\ out = NoPacket /\ in = NoPacket /\ reports = <<>> /\ ~sent
      /\ BufferedDataIndex = 0 /\ DOMAIN ProgrammingBuffer = 0 .. Page - 1
  BY DEF Init, Busy
<1>2. NotSigned
  <2>1. SigAddress \notin BootRegion
    BY Sizes DEF BootRegion
  <2> QED
    BY <2>1, PageInMemory, Contents DEF Init, NotSigned
<1>3. IsReports /\ InOrder
  BY <1>1 DEF IsReports, InOrder, Ordered
<1>4. NoStaleRead /\ Current /\ Checked
  BY <1>1, Nothing DEF NoStaleRead, Current, Checked
<1>5. Unsigned /\ Emptied
  <2>1. 0 .. 0 - 1 = {}
    OBVIOUS
  <2> QED
    BY <1>1, <2>1, Nothing DEF Unsigned, Emptied, Programs, Checks
<1>6. Signing
  BY <1>1, <1>2, Nothing DEF Signing, SignedIsComplete, NotSigned
<1> QED
  BY <1>3, <1>4, <1>5, <1>6 DEF SInv

LEMMA SameSigned ==
  ASSUME IInv, SInv, UNCHANGED vars
  PROVE  SInv'
<1>1. /\ UNCHANGED <<mem, device>>
      /\ UNCHANGED <<mode, out, in, script, reports, sent, want>>
  BY DEF vars, usb, host
<1>2. /\ PacketFromPC' = PacketFromPC /\ loop' = loop /\ BufferedDataIndex' = BufferedDataIndex
      /\ ProgrammingBuffer' = ProgrammingBuffer /\ (Busy' <=> Busy) /\ BootState' = BootState
  BY <1>1, QuietDevice
<1>3. IsReports' /\ InOrder' /\ NoStaleRead'
  BY <1>1, <1>2 DEF SInv, IsReports, InOrder, First, Latest, NoStaleRead, Reading, AnswerRead
<1>4. Current' /\ Checked'
  BY <1>1, <1>2 DEF SInv, Current, Checked, First, AnswerRead, ReadingOnly, Agrees
<1>5. First' = First
  BY <1>1 DEF First
<1>6. Unsigned' /\ Emptied'
  BY <1>1, <1>5, HostUnsigned, HostEmptied DEF SInv, Unsigned, Emptied
<1>7. Signing'
  BY <1>1, HostSigning DEF SInv, Signing
<1> QED
  BY <1>3, <1>4, <1>6, <1>7 DEF SInv

\* What a step does to the memory: nothing, or it leaves or finds no signature there.
SignatureStep ==
  \/ UNCHANGED mem
  \/ mode = "boot" /\ mode' = "boot" /\ (NotSigned \/ NotSigned')

LEMMA StepSInv ==
  ASSUME IInv, SInv, [Next]_vars
  PROVE  SInv' /\ SignatureStep
<1>1. CASE Host
  <2>1. UNCHANGED mem
    BY <1>1 DEF Host, HostStart, HostSend, HostPoll, HostReceive, HostAbort
  <2> QED
    BY <1>1, <2>1, HostStartSigned, HostSendSigned, HostPollSigned, HostReceiveSigned,
       HostAbortSigned DEF Host, SignatureStep
<1>2. CASE PowerOn
  BY <1>2, PowerOnSigned DEF SignatureStep, PowerOn
<1>3. CASE PowerLoss \/ AppReset \/ ResetDeviceCleanly
  <2>1. Restart
    BY <1>3 DEF PowerLoss, AppReset, ResetDeviceCleanly
  <2> QED
    BY <2>1, RestartSigned DEF Restart, SignatureStep
<1>4. CASE Receive
  BY <1>4, ReceiveSigned DEF Receive, SignatureStep
<1>5. CASE QueryDevice \/ UnlockConfig
  BY <1>5, QuerySigned DEF QueryDevice, UnlockConfig, SignatureStep
<1>6. CASE GetData
  BY <1>6, GetDataSigned DEF GetData, SignatureStep
<1>7. CASE EraseFlashPage \/ EraseEepromAndUserId
  <2>1. mode = "boot" /\ mode' = "boot"
    BY <1>7 DEF EraseFlashPage, EraseEepromAndUserId, Working, rest
  <2> QED
    BY <1>7, <2>1, EraseSigned DEF SignatureStep
<1>8. CASE \/ ProgramConfigBits \/ ProgramEeprom \/ ProgramContiguous \/ ProgramIgnored
           \/ ProgramByte \/ ProgramComplete
  <2>1. mode = "boot" /\ mode' = "boot"
    BY <1>8 DEF ProgramConfigBits, ProgramEeprom, ProgramContiguous, ProgramIgnored,
                ProgramByte, ProgramComplete, ToFlash, Working, rest
  <2> QED
    BY <1>8, <2>1, ProgramSigned DEF SignatureStep
<1>9. CASE SignBegin
  BY <1>9, SignBeginSigned DEF SignatureStep, SignBegin, Working, rest
<1>10. CASE SignBlock
  BY <1>10, SignBlockSigned DEF SignatureStep, SignBlock, Working, rest
<1>11. CASE UNCHANGED vars
  BY <1>11, SameSigned DEF vars, SignatureStep
<1> QED
  BY <1>1, <1>2, <1>3, <1>4, <1>5, <1>6, <1>7, <1>8, <1>9, <1>10, <1>11 DEF Next, ProcessIO

LEMMA SInvAlways == Spec => [](IInv /\ SInv)
<1>1. Init => IInv /\ SInv
  BY InitIInv, InitSInv
<1>2. IInv /\ SInv /\ [Next]_vars => (IInv /\ SInv)'
  BY StepIInv, StepSInv
<1> QED
  BY <1>1, <1>2, PTL DEF Spec

\* While the signature is in the flash every byte of the image that the PC verified is
\* there too, wherever the power failed and whatever an earlier session left in the device.
\* (SignFlash, BootPIC18NonJ.c)
THEOREM SignatureMeansComplete == Spec => []SignedIsComplete
<1>1. SInv => SignedIsComplete
  BY DEF SInv, Signing
<1> QED
  BY <1>1, SInvAlways, PTL

-----------------------------------------------------------------------------
(* The atomic update. *)

Installed == IF mem[SigAddress] = Signature THEN Held ELSE None
Running == IF mode = "app" THEN Held ELSE None

LEMMA HeldVersion == Whole => Held \in Versions
  BY DEF Whole, Held

LEMMA SameHeld ==
  ASSUME UNCHANGED mem
  PROVE  Held' = Held /\ Installed' = Installed
<1>1. \A v : Complete(v)' <=> Complete(v)
  BY DEF Complete
<1>2. Held' = Held
  BY DEF Held, Complete
<1> QED
  BY <1>2 DEF Installed

\* With aborted sessions and power failures at any step, the device goes from one whole
\* version to another only through "no version", and only a whole version is ever started.
\* (SignFlash and the erase in BootPIC18NonJ.c, main in main.c)
THEOREM Atomic == Spec => UpdateIsAtomic
<1>1. Init => Update!UpdateInit
  <2> SUFFICES ASSUME Init PROVE Update!UpdateInit
    OBVIOUS
  <2>1. NotSigned /\ mode = "off"
    <3>1. SInv /\ mode = "off" /\ mem[SigAddress] = Erased
      <4>1. SigAddress \notin BootRegion
        BY Sizes DEF BootRegion
      <4> QED
        BY <4>1, InitSInv, PageInMemory DEF Init
    <3> QED
      BY <3>1, Contents DEF NotSigned
  <2> QED
    BY <2>1 DEF Update!UpdateInit, NotSigned
<1>2. IInv /\ SInv /\ [Next]_vars => [Update!UpdateNext]_Update!updateVars
  <2> SUFFICES ASSUME IInv, SInv, [Next]_vars
               PROVE  [Update!UpdateNext]_Update!updateVars
    OBVIOUS
  <2>1. SInv' /\ SignatureStep
    BY StepSInv
  <2>2. \/ Installed' = Installed /\ Running' = Running
        \/ Running = None /\ Installed \in Versions /\ Running' = Installed /\ Installed' = Installed
        \/ Running' = None /\ Installed' = Installed
        \/ Running = None /\ Running' = None /\ Installed' = None
        \/ /\ Running = None /\ Running' = None
           /\ Installed = None /\ Installed' \in Versions
    <3>1. CASE UNCHANGED mem
      <4>1. Held' = Held /\ Installed' = Installed
        BY <3>1, SameHeld
      <4>2. CASE mode' = "app" /\ mode # "app"
        <5>1. PowerOn
          BY <4>2 DEF Next, Host, HostStart, HostSend, HostPoll, HostReceive, HostAbort,
            PowerLoss, AppReset, Restart, ProcessIO, Receive, QueryDevice, UnlockConfig,
            EraseFlashPage, EraseEepromAndUserId, ProgramConfigBits, ProgramEeprom,
            ProgramContiguous, ProgramIgnored, ProgramByte, ProgramComplete, GetData,
            SignBegin, SignBlock, ResetDeviceCleanly, rest, vars
        <5>2. mem[SigAddress] = Signature
          BY <4>2, <5>1 DEF PowerOn, SignatureValid
        <5>3. Held \in Versions
          BY <5>2, HeldVersion DEF SInv, Signing, SignedIsComplete, Whole
        <5> QED
          BY <4>1, <4>2, <5>2, <5>3 DEF Installed, Running
      <4>3. CASE mode' # "app"
        BY <4>1, <4>3 DEF Running
      <4>4. CASE mode' = "app" /\ mode = "app"
        BY <4>1, <4>4 DEF Running
      <4> QED
        BY <4>2, <4>3, <4>4
    <3>2. CASE mode = "boot" /\ mode' = "boot" /\ NotSigned'
      BY <3>2 DEF Installed, Running, NotSigned
    <3>3. CASE mode = "boot" /\ mode' = "boot" /\ NotSigned /\ ~NotSigned'
      <4>1. Whole' /\ mem'[SigAddress] = Signature
        BY <2>1, <3>3 DEF SInv, Signing, SignedIsComplete, Whole, NotSigned
      <4>2. Held' \in Versions
        BY <4>1 DEF Held, Whole
      <4> QED
        BY <3>3, <4>1, <4>2 DEF Installed, Running, NotSigned
    <3> QED
      BY <2>1, <3>1, <3>2, <3>3 DEF SignatureStep
  <2> QED
    BY <2>2 DEF Installed, Running, Update!UpdateNext, Update!Start, Update!Stop,
      Update!Remove, Update!Install, Update!updateVars
<1> QED
  BY <1>1, <1>2, SInvAlways, PTL DEF Spec, UpdateIsAtomic, Update!UpdateSpec

-----------------------------------------------------------------------------
(* The sessions that verify.  VInv follows every cell that is to be read    *)
(* back on its way from the script to the memory, in a session that began   *)
(* with the device at rest and asks for no configuration bits.              *)

\* A session that must succeed reads back, or has yet to.
Verifying == clean /\ ~withConfig /\ script # <<>> /\ First # "RESET_DEVICE"

\* The one answer awaited is in one place.
Answers ==
  /\ in # NoPacket => in = Head(script) /\ reports = <<>>
  /\ reports # <<>> => Len(reports) = 1 /\ reports[1] = Head(script)
  /\ in # NoPacket \/ reports # <<>> => sent /\ ~Busy /\ out = NoPacket
  /\ Busy /\ Answered(PacketFromPC) => sent /\ PacketFromPC = Head(script) /\ out = NoPacket
  /\ out # NoPacket => IF sent THEN out = Head(script) ELSE ~Answered(out)
  /\ sent /\ out = NoPacket /\ Busy => PacketFromPC = Head(script)

\* Nothing of an earlier session is on its way.
Sequel ==
  /\ out # NoPacket /\ Busy => Follows(PacketFromPC.cmd, out.cmd)
  /\ ~sent => IF out # NoPacket THEN Follows(out.cmd, First)
                                 ELSE Busy => Follows(PacketFromPC.cmd, First)

Early == {"QUERY_DEVICE", "QUERY_EXTENDED_INFO", "UNLOCK_CONFIG", "ERASE_DEVICE"}
ToErase == First \in Early \/ out.cmd \in Early \/ (Busy /\ PacketFromPC.cmd \in Early)

\* ProgrammedPointer after the command at hand, and after the next one.
PointerThen ==
  IF Busy THEN IF Writes(PacketFromPC) THEN After(PacketFromPC)
               ELSE IF Closes(PacketFromPC) THEN InvalidAddress ELSE ProgrammedPointer
  ELSE ProgrammedPointer
PointerLast ==
  IF Writes(out) THEN After(out) ELSE IF Closes(out) THEN InvalidAddress ELSE PointerThen

\* No packet is ignored.
Joined ==
  /\ Busy /\ Writes(PacketFromPC) /\ loop = 0 =>
       ProgrammedPointer \in {InvalidAddress, PacketFromPC.addr}
  /\ Writes(out) => PointerThen \in {InvalidAddress, out.addr}
  /\ Joins(script, PointerLast)
  /\ ToErase => ProgrammedPointer = InvalidAddress

\* Packets and buffer hold bytes of the image, each for its own address.
Parcels ==
  /\ Expected(out, want) /\ (Busy => Expected(PacketFromPC, want))
  /\ \A i \in DOMAIN script : Expected(script[i], want)
  /\ ReadsLast(script)
  /\ \A i \in 0 .. BufferedDataIndex - 1 : ProgrammingBuffer[i] = Content(want, Base + i)

\* Once erased, a cell of the application is written with what belongs there.
Application == AppStart .. FlashEnd - 1
Clear ==
  /\ Busy /\ PacketFromPC.cmd = "ERASE_DEVICE" =>
       loop <= AppPages /\ \A a \in AppStart .. AppStart + loop * Page - 1 : mem[a] = Erased
  /\ ~ToErase => \A a \in Application : mem[a] \in {Erased, Content(want, a)}

\* A cell to be read back is still to be sent, on its way, in the buffer or written.
Remaining == PacketFromPC.addr + (IF loop = 0 THEN 0 ELSE loop - 1)
Accounted(a) ==
  \/ Covered(script, a)
  \/ out.cmd = "PROGRAM_DEVICE" /\ a \in CellsOf(out)
  \/ Busy /\ PacketFromPC.cmd = "PROGRAM_DEVICE" /\ a \in Remaining .. After(PacketFromPC) - 1
  \/ a \in Base .. ProgrammedPointer - 1
  \/ ~ToErase /\ mem[a] = Content(want, a)
Accounts ==
  \A i \in DOMAIN script : Reads(script[i]) => \A a \in CellsOf(script[i]) : Accounted(a)

Verified == Answers /\ Sequel /\ Joined /\ Parcels /\ Clear /\ Accounts
VInv == FlashSessionVerifies /\ (Verifying => Verified)

-----------------------------------------------------------------------------
(* Facts about scripts. *)

\* The packet that leaves takes the place of ProgrammedPointer.
LEMMA JoinsTail ==
  ASSUME NEW s \in Seq(Sendable), s # <<>>, NEW p, Joins(s, p), NEW q,
         Writes(Head(s)) => q = After(Head(s)),
         Closes(Head(s)) => q = InvalidAddress
  PROVE  Joins(Tail(s), q)
<1>1. /\ Tail(s) \in Seq(Sendable) /\ Head(s) = s[1] /\ Len(s) \in Nat
      /\ Len(Tail(s)) = Len(s) - 1 /\ DOMAIN s = 1 .. Len(s) /\ DOMAIN Tail(s) = 1 .. Len(s) - 1
  OBVIOUS
<1>2. SUFFICES ASSUME NEW i \in DOMAIN Tail(s), Writes(Tail(s)[i])
               PROVE  IF i = 1 THEN q \in {InvalidAddress, Tail(s)[i].addr}
                      ELSE \/ Writes(Tail(s)[i - 1]) /\ Tail(s)[i].addr = After(Tail(s)[i - 1])
                           \/ Closes(Tail(s)[i - 1])
  BY DEF Joins
<1>3. i + 1 \in DOMAIN s /\ i + 1 # 1 /\ Tail(s)[i] = s[i + 1] /\ (i + 1) - 1 = i /\ i \in Nat
  BY <1>1
<1>4. (Writes(s[i]) /\ s[i + 1].addr = After(s[i])) \/ Closes(s[i])
  BY <1>2, <1>3 DEF Joins
<1>5. CASE i = 1
  BY <1>1, <1>3, <1>4, <1>5
<1>6. CASE i # 1
  <2>1. i - 1 \in DOMAIN Tail(s) /\ Tail(s)[i - 1] = s[(i - 1) + 1] /\ (i - 1) + 1 = i
    BY <1>1, <1>3, <1>6
  <2> QED
    BY <1>3, <1>4, <1>6, <2>1
<1> QED
  BY <1>5, <1>6

\* What is true of every packet of a script is true of the packets that remain.
LEMMA TailPackets ==
  ASSUME NEW s \in Seq(Sendable), s # <<>>
  PROVE  /\ Head(s) = s[1] /\ 1 \in DOMAIN s
         /\ \A i \in DOMAIN Tail(s) : i + 1 \in DOMAIN s /\ Tail(s)[i] = s[i + 1]
         /\ \A j \in DOMAIN s : j # 1 => j - 1 \in DOMAIN Tail(s) /\ Tail(s)[j - 1] = s[j]
         /\ ReadsLast(s) => ReadsLast(Tail(s))
<1>1. /\ Head(s) = s[1] /\ 1 \in DOMAIN s /\ DOMAIN s \subseteq Nat /\ DOMAIN Tail(s) \subseteq Nat
      /\ \A i \in DOMAIN Tail(s) : i + 1 \in DOMAIN s /\ Tail(s)[i] = s[i + 1]
      /\ \A j \in DOMAIN s : j # 1 => j - 1 \in DOMAIN Tail(s) /\ Tail(s)[j - 1] = s[j]
  OBVIOUS
<1>2. ASSUME ReadsLast(s) PROVE ReadsLast(Tail(s))
  <2>1. SUFFICES ASSUME NEW i \in DOMAIN Tail(s), NEW j \in DOMAIN Tail(s), i < j,
                        Reads(Tail(s)[i])
                 PROVE  Tail(s)[j].cmd # "PROGRAM_DEVICE"
    BY DEF ReadsLast
  <2>2. i + 1 \in DOMAIN s /\ j + 1 \in DOMAIN s /\ i + 1 < j + 1
    BY <1>1, <2>1
  <2> QED
    BY <1>1, <1>2, <2>1, <2>2 DEF ReadsLast
<1> QED
  BY <1>1, <1>2

\* A cell that a script covers is in its first packet, or covered by the others.
LEMMA CoveredTail ==
  ASSUME NEW s \in Seq(Sendable), s # <<>>, NEW a, Covered(s, a)
  PROVE  \/ Covered(Tail(s), a)
         \/ Head(s).cmd = "PROGRAM_DEVICE" /\ a \in CellsOf(Head(s))
<1>1. PICK i \in DOMAIN s : s[i].cmd = "PROGRAM_DEVICE" /\ a \in CellsOf(s[i])
  BY DEF Covered
<1>2. CASE i = 1
  BY <1>1, <1>2, TailPackets
<1>3. CASE i # 1
  <2>1. i - 1 \in DOMAIN Tail(s) /\ Tail(s)[i - 1] = s[i]
    BY <1>3, TailPackets
  <2> QED
    BY <1>1, <2>1 DEF Covered
<1> QED
  BY <1>2, <1>3

\* Nothing but a query, an unlock or an erase comes before another of them.
LEMMA EarlyFirst ==
  ASSUME NEW x, NEW y, Follows(x, y)
  PROVE  /\ y \in Early => x \in Early
         /\ x \in {"QUERY_DEVICE", "QUERY_EXTENDED_INFO", "UNLOCK_CONFIG"} => y \in Early
  BY DEF Follows, Early

\* What a write to the flash does to the cells and to the buffer.
LEMMA BufferWritten ==
  ASSUME NEW pointer \in Nat, NEW buffer, NEW count \in 0 .. Block,
         count # 0 => pointer - count \in Nat /\ pointer - count < Segment,
         WriteFlashBlock(pointer, buffer, count)
  PROVE  \E taken \in 0 .. count :
           /\ BufferedDataIndex' = count - taken
           /\ \A a \in Memory :
                mem'[a] = IF a \in pointer - count .. pointer - count + taken - 1
                            THEN Programmed(mem[a], buffer[a - (pointer - count)]) ELSE mem[a]
           /\ \A i \in 0 .. count - taken - 1 : ProgrammingBuffer'[i] = buffer[taken + i]
<1> DEFINE base == Low(pointer - count)
           correction == base % Block
           first == base - correction
           taken == IF count < Block - correction THEN count ELSE Block - correction
           latch == [k \in 0 .. Block - 1 |->
                       IF k \in correction .. correction + taken - 1
                         THEN buffer[k - correction] ELSE Erased]
<1>1. base \in Nat /\ (count # 0 => base = pointer - count)
  <2>1. base \in Nat
    BY Sizes DEF Low
  <2>2. count # 0 => base = pointer - count
    BY InSegment
  <2> QED
    BY <2>1, <2>2
<1>2. /\ WriteLatches(first, latch) /\ BufferedDataIndex' = count - taken
      /\ ProgrammingBuffer' = [i \in 0 .. Page - 1 |->
           IF i < count - taken THEN buffer[taken + i] ELSE buffer[i]]
  BY DEF WriteFlashBlock
<1> HIDE DEF base
<1>3. correction \in 0 .. Block - 1
  BY <1>1, NextBlock
<1> HIDE DEF correction
<1>4. taken \in 0 .. count /\ taken <= Block - correction
  BY <1>1, <1>3, Sizes
<1> HIDE DEF taken
<1>5. ASSUME NEW a \in Memory
      PROVE  mem'[a] = IF a \in pointer - count .. pointer - count + taken - 1
                         THEN Programmed(mem[a], buffer[a - (pointer - count)]) ELSE mem[a]
  <2>1. mem'[a] = IF a \in first .. first + Block - 1
                    THEN Programmed(mem[a], latch[a - first]) ELSE mem[a]
    BY <1>2 DEF WriteLatches
  <2>2. a \in Nat
    BY CellNat
  <2>3. CASE taken # 0 /\ a \in pointer - count .. pointer - count + taken - 1
    <3>1. base = pointer - count /\ count # 0
      BY <1>1, <1>4, <2>3
    <3>2. a \in first .. first + Block - 1 /\ a - first \in 0 .. Block - 1
      BY <1>1, <1>3, <1>4, <2>2, <2>3, <3>1, Sizes
    <3>3. /\ a - first \in correction .. correction + taken - 1
          /\ (a - first) - correction = a - (pointer - count)
      BY <1>1, <1>3, <1>4, <2>2, <2>3, <3>1, Sizes
    <3>4. latch[a - first] = buffer[a - (pointer - count)]
      BY <3>2, <3>3
    <3> QED
      BY <2>1, <2>3, <3>2, <3>4
  <2>4. CASE ~(taken # 0 /\ a \in pointer - count .. pointer - count + taken - 1)
    <3>1. a \notin pointer - count .. pointer - count + taken - 1
      BY <1>4, <2>4
    <3>2. a - first \notin correction .. correction + taken - 1
      BY <1>1, <1>3, <1>4, <2>2, <2>4, Sizes
    <3>3. a \in first .. first + Block - 1 => a - first \in 0 .. Block - 1
      BY <1>1, <1>3, <2>2, Sizes
    <3>4. a \in first .. first + Block - 1 => latch[a - first] = Erased
      BY <3>2, <3>3
    <3> HIDE DEF latch, first
    <3> QED
      BY <2>1, <3>1, <3>4 DEF Programmed
  <2> QED
    BY <2>3, <2>4
<1>6. ASSUME NEW i \in 0 .. count - taken - 1 PROVE ProgrammingBuffer'[i] = buffer[taken + i]
  <2>1. i \in 0 .. Page - 1 /\ i < count - taken
    BY <1>4, PageOfSignature, Sizes
  <2> QED
    BY <1>2, <2>1
<1>7. BufferedDataIndex' = count - taken
  BY <1>2
<1> QED
  BY <1>4, <1>5, <1>6, <1>7

-----------------------------------------------------------------------------
(* The steps of the PC. *)

LEMMA NothingExpected ==
  /\ ~Writes(NoPacket) /\ ~Closes(NoPacket) /\ ~Answered(NoPacket) /\ NoPacket.cmd \notin Early
  /\ \A v : Expected(NoPacket, v)
  BY DEF NoPacket, Writes, Closes, Answered, Queries, Early, Expected

\* The packets of a session are of the kinds that the PC sends.
LEMMA Kinds ==
  ASSUME NEW p \in Sendable
  PROVE  /\ Answered(p) => p.cmd \in Queries \cup {"GET_DATA"} /\ ~Writes(p) /\ ~Closes(p)
         /\ Writes(p) => p.cmd = "PROGRAM_DEVICE" /\ ~Closes(p)
  BY DEF Answered, Queries, Writes, Closes

LEMMA HostStartVerifies ==
  ASSUME IInv, HostStart
  PROVE  VInv'
<1>1. PICK v \in Versions, cfg \in ConfigAsked :
        script' = Script(v, cfg) /\ want' = v /\ withConfig' = cfg
  BY DEF HostStart
<1>2. FlashSessionVerifies'
  BY DEF HostStart, FlashSessionVerifies
<1>3. SUFFICES ASSUME Verifying' PROVE Verified'
  BY <1>2 DEF VInv
<1>4. cfg = FALSE /\ FALSE \in ConfigAsked /\ clean'
  BY <1>1, <1>3, BootConstants DEF Verifying
<1>5. /\ BootState = "IDLE" /\ out = NoPacket /\ in = NoPacket
      /\ ProgrammedPointer = InvalidAddress /\ BufferedDataIndex = 0
      /\ reports' = <<>> /\ sent' = FALSE
      /\ UNCHANGED <<mem, device>> /\ out' = NoPacket /\ in' = NoPacket
  BY <1>4 DEF HostStart, DeviceAtRest, usb
<1>6. ~Busy' /\ ProgrammedPointer' = InvalidAddress /\ BufferedDataIndex' = 0
  BY <1>5, QuietDevice DEF Busy
<1> DEFINE s == Script(v, FALSE)
<1>7. script' = s /\ s \in Scripts
  <2>1. script' = s
    BY <1>1, <1>4
  <2>2. script' \in Scripts
    BY <1>1 DEF Scripts
  <2> QED
    BY <2>1, <2>2
<1>8. First' = "QUERY_DEVICE"
  BY <1>7, ScriptShape DEF First
<1>9. /\ \A i \in DOMAIN s : Expected(s[i], v)
      /\ Joins(s, InvalidAddress) /\ ReadsLast(s)
      /\ \A i \in DOMAIN s : Reads(s[i]) => \A a \in CellsOf(s[i]) : Covered(s, a)
  BY <1>4, ScriptContents, Zenon
<1> HIDE DEF s
<1>10. Answers' /\ Sequel'
  BY <1>5, <1>6 DEF Answers, Sequel
<1>11. ToErase'
  BY <1>8 DEF ToErase, Early
<1>12. Joined'
  <2>1. PointerLast' = InvalidAddress
    BY <1>5, <1>6, NothingExpected DEF PointerLast, PointerThen
  <2> QED
    BY <1>5, <1>6, <1>7, <1>9, <2>1, NothingExpected DEF Joined
<1>13. Parcels'
  BY <1>1, <1>5, <1>6, <1>7, <1>9, NothingExpected DEF Parcels
<1>14. Clear'
  BY <1>6, <1>11 DEF Clear
<1>15. Accounts'
  BY <1>7, <1>9 DEF Accounts, Accounted
<1> QED
  BY <1>10, <1>12, <1>13, <1>14, <1>15 DEF Verified

\* The cells to be read back stay accounted for while no packet leaves the script.
LEMMA AccountsKept ==
  ASSUME Accounts, Parcels, UNCHANGED script,
         \A a \in Memory : Accounted(a) => Accounted(a)'
  PROVE  Accounts'
<1>1. \A i \in DOMAIN script : Reads(script[i]) => CellsOf(script[i]) \subseteq Memory
  BY DEF Parcels, Expected, Reads
<1> QED
  BY <1>1 DEF Accounts

\* ... and when one leaves that is on its way, or that programs nothing.
LEMMA AccountsTail ==
  ASSUME Accounts, script \in Seq(Sendable), script # <<>>, script' = Tail(script),
         \A a : Accounted(a) => Accounted(a)'
  PROVE  Accounts'
<1>1. SUFFICES ASSUME NEW i \in DOMAIN script', Reads(script'[i]), NEW a \in CellsOf(script'[i])
               PROVE  Accounted(a)'
  BY DEF Accounts
<1>2. i + 1 \in DOMAIN script /\ script'[i] = script[i + 1]
  BY TailPackets
<1> QED
  BY <1>1, <1>2 DEF Accounts

LEMMA HostSendVerifies ==
  ASSUME IInv, SInv, HostSend, VInv
  PROVE  VInv'
<1> DEFINE h == Head(script)
<1>1. /\ script # <<>> /\ ~sent /\ out = NoPacket /\ out' = h
      /\ sent' = Answered(h) /\ script' = IF Answered(h) THEN script ELSE Tail(script)
      /\ UNCHANGED <<in, reports, want, clean, withConfig>> /\ UNCHANGED <<mem, device>>
      /\ outcome' \in {outcome, "verified"}
  BY DEF HostSend
<1>2. /\ h \in Sendable /\ h # NoPacket /\ h.cmd = First /\ script \in Seq(Sendable)
      /\ h = script[1] /\ 1 \in DOMAIN script
  BY <1>1, OutPacket, SentPacket, TailPackets DEF First
<1>3. /\ PacketFromPC' = PacketFromPC /\ (Busy' <=> Busy) /\ mem' = mem /\ loop' = loop
      /\ ProgrammedPointer' = ProgrammedPointer /\ BufferedDataIndex' = BufferedDataIndex
      /\ ProgrammingBuffer' = ProgrammingBuffer
  BY <1>1, QuietDevice
<1>4. FlashSessionVerifies'
  BY <1>1 DEF VInv, FlashSessionVerifies
<1>5. SUFFICES ASSUME Verifying' PROVE Verified'
  BY <1>4 DEF VInv
<1>6. ~Answered(h) /\ script' # <<>> => Follows(First, First')
  BY <1>1, <1>2, OrderedTail DEF SInv, InOrder, First
<1>7. Verified
  <2>1. First # "RESET_DEVICE"
    BY <1>1, <1>5, <1>6 DEF Verifying, First, Follows
  <2> QED
    BY <1>1, <1>5, <2>1 DEF Verifying, VInv
<1>8. in = NoPacket /\ reports = <<>> /\ ~(Busy /\ Answered(PacketFromPC))
  BY <1>1, <1>7 DEF Verified, Answers
<1>9. Busy => Follows(PacketFromPC.cmd, First)
  BY <1>1, <1>7 DEF Verified, Sequel
<1>10. Base' = Base /\ PointerThen' = PointerThen /\ PointerLast = PointerThen
  BY <1>1, <1>3, NothingExpected DEF Base, PointerThen, PointerLast
<1>12. ToErase' <=> ToErase
  <2>1. ToErase => ToErase'
    BY <1>1, <1>2, <1>3, NothingExpected DEF ToErase
  <2>2. First' \in Early => First \in Early
    <3>1. CASE Answered(h)
      BY <1>1, <3>1 DEF First
    <3>2. CASE ~Answered(h)
      BY <1>5, <1>6, <3>2, EarlyFirst DEF Verifying
    <3> QED
      BY <3>1, <3>2
  <2>3. ToErase' => ToErase
    BY <1>1, <1>2, <1>3, <2>2 DEF ToErase
  <2> QED
    BY <2>1, <2>3
<1>13. Expected(h, want) /\ Expected(out', want')
  BY <1>1, <1>2, <1>7 DEF Verified, Parcels
<1>14. Clear'
  BY <1>1, <1>3, <1>7, <1>12 DEF Verified, Clear
<1>15. \A i \in 0 .. BufferedDataIndex' - 1 : ProgrammingBuffer'[i] = Content(want', Base' + i)
  BY <1>1, <1>3, <1>7, <1>10 DEF Verified, Parcels
<1>16. Joins(script, PointerThen) /\ (ToErase => ProgrammedPointer = InvalidAddress)
       /\ (Busy /\ Writes(PacketFromPC) /\ loop = 0 =>
             ProgrammedPointer \in {InvalidAddress, PacketFromPC.addr})
  BY <1>7, <1>10 DEF Verified, Joined
<1>17. CASE Answered(h)
  <2>1. script' = script /\ First' = First /\ sent'
    BY <1>1, <1>17 DEF First
  <2>2. Answers'
    BY <1>1, <1>2, <1>3, <1>8, <2>1 DEF Answers
  <2>3. Sequel'
    BY <1>1, <1>2, <1>3, <1>9, <2>1 DEF Sequel
  <2>4. ~Writes(out') /\ ~Closes(out')
    BY <1>1, <1>2, <1>17, Kinds
  <2>5. Joined'
    <3>1. PointerLast' = PointerThen
      BY <1>10, <2>4 DEF PointerLast
    <3> QED
      BY <1>3, <1>12, <1>16, <2>1, <2>4, <3>1 DEF Joined
  <2>6. Parcels'
    BY <1>1, <1>3, <1>7, <1>13, <1>15, <2>1 DEF Verified, Parcels
  <2>7. ASSUME NEW a, Accounted(a) PROVE Accounted(a)'
    <3>1. Remaining' = Remaining
      BY <1>3 DEF Remaining
    <3> QED
      BY <1>1, <1>3, <1>10, <1>12, <2>1, <2>7, <3>1, Nothing DEF Accounted
  <2>8. Accounts'
    BY <1>7, <2>1, <2>7, AccountsKept DEF Verified
  <2> QED
    BY <1>14, <2>2, <2>3, <2>5, <2>6, <2>8 DEF Verified
<1>18. CASE ~Answered(h)
  <2>1. script' = Tail(script) /\ ~sent'
    BY <1>1, <1>18
  <2>2. Answers'
    BY <1>1, <1>3, <1>8, <1>18, <2>1 DEF Answers
  <2>3. Sequel'
    BY <1>1, <1>2, <1>3, <1>5, <1>6, <1>9, <1>18, <2>1 DEF Sequel, Verifying
  <2>4. Joined'
    <3>1. Joins(script', PointerLast')
      <4>1. /\ Writes(h) => PointerLast' = After(h)
            /\ Closes(h) => PointerLast' = InvalidAddress
        BY <1>1, <1>2, Kinds DEF PointerLast
      <4> QED
        BY <1>1, <1>2, <1>16, <2>1, <4>1, JoinsTail
    <3>2. Writes(out') => PointerThen' \in {InvalidAddress, out'.addr}
      BY <1>1, <1>2, <1>10, <1>16 DEF Joins
    <3> QED
      BY <1>3, <1>12, <1>16, <3>1, <3>2 DEF Joined
  <2>5. Parcels'
    <3>1. \A i \in DOMAIN script' : Expected(script'[i], want')
      BY <1>1, <1>2, <1>7, <2>1, TailPackets DEF Verified, Parcels
    <3>2. ReadsLast(script')
      BY <1>1, <1>2, <1>7, <2>1, TailPackets DEF Verified, Parcels
    <3>3. Busy' => Expected(PacketFromPC', want')
      BY <1>1, <1>3, <1>7 DEF Verified, Parcels
    <3> QED
      BY <1>13, <1>15, <3>1, <3>2, <3>3 DEF Parcels
  <2>6. ASSUME NEW a, Accounted(a) PROVE Accounted(a)'
    <3>1. Remaining' = Remaining
      BY <1>3 DEF Remaining
    <3>2. Covered(script, a) => Covered(script', a) \/ (out'.cmd = "PROGRAM_DEVICE" /\ a \in CellsOf(out'))
      BY <1>1, <1>2, <2>1, CoveredTail
    <3> QED
      BY <1>1, <1>3, <1>10, <1>12, <2>6, <3>1, <3>2, Nothing DEF Accounted
  <2>7. Accounts'
    BY <1>1, <1>2, <1>7, <2>1, <2>6, AccountsTail DEF Verified
  <2> QED
    BY <1>14, <2>2, <2>3, <2>4, <2>5, <2>7 DEF Verified
<1> QED
  BY <1>17, <1>18

LEMMA HostPollVerifies ==
  ASSUME IInv, HostPoll, VInv
  PROVE  VInv'
<1>1. /\ script # <<>> /\ in # NoPacket /\ reports' = Append(reports, in) /\ in' = NoPacket
      /\ UNCHANGED <<script, out, sent, want, outcome, clean, withConfig>>
      /\ UNCHANGED <<mem, device>>
  BY DEF HostPoll
<1>2. /\ PacketFromPC' = PacketFromPC /\ (Busy' <=> Busy) /\ mem' = mem /\ loop' = loop
      /\ ProgrammedPointer' = ProgrammedPointer /\ BufferedDataIndex' = BufferedDataIndex
      /\ ProgrammingBuffer' = ProgrammingBuffer
  BY <1>1, QuietDevice
<1>3. FlashSessionVerifies' /\ (Verifying' => Verifying) /\ First' = First
  BY <1>1 DEF VInv, FlashSessionVerifies, Verifying, First
<1>4. SUFFICES ASSUME Verified PROVE Verified'
  BY <1>3 DEF VInv
<1>5. in = Head(script) /\ reports = <<>> /\ sent /\ ~Busy /\ out = NoPacket
  BY <1>1, <1>4 DEF Verified, Answers
<1>6. reports' = <<in>>
  BY <1>1, <1>5
<1>7. Answers'
  BY <1>1, <1>2, <1>5, <1>6 DEF Answers
<1>8. Sequel' /\ ToErase' = ToErase /\ PointerLast' = PointerLast
  BY <1>1, <1>2, <1>3, <1>5 DEF Sequel, ToErase, PointerLast, PointerThen
<1>9. Joined' /\ Parcels' /\ Clear'
  BY <1>1, <1>2, <1>4, <1>5, <1>8, NothingExpected DEF Verified, Joined, Parcels, Clear, Base
<1>10. \A a : Accounted(a) => Accounted(a)'
  BY <1>1, <1>2, <1>5, <1>8 DEF Accounted, Base
<1>11. Accounts'
  BY <1>1, <1>4, <1>10, AccountsKept DEF Verified
<1> QED
  BY <1>7, <1>8, <1>9, <1>11 DEF Verified

LEMMA HostReceiveVerifies ==
  ASSUME IInv, SInv, HostReceive, VInv
  PROVE  VInv'
<1>1. /\ sent /\ reports # <<>> /\ reports' = Tail(reports) /\ sent' = FALSE
      /\ IF Head(reports) = Head(script) THEN script' = Tail(script) /\ outcome' = outcome
                                          ELSE script' = <<>>
      /\ UNCHANGED <<out, in, want, clean, withConfig>> /\ UNCHANGED <<mem, device>>
  BY DEF HostReceive, usb
<1>2. /\ PacketFromPC' = PacketFromPC /\ (Busy' <=> Busy) /\ mem' = mem /\ loop' = loop
      /\ ProgrammedPointer' = ProgrammedPointer /\ BufferedDataIndex' = BufferedDataIndex
      /\ ProgrammingBuffer' = ProgrammingBuffer
  BY <1>1, QuietDevice
<1>3. /\ script # <<>> /\ Answered(Head(script)) /\ script \in Seq(Sendable)
      /\ Head(script) \in Sendable /\ First \in Queries \cup {"GET_DATA"}
  BY <1>1, OutPacket, Kinds DEF IInv, Pipeline, First
<1>4. SUFFICES ASSUME clean, ~withConfig PROVE VInv'
  BY <1>1 DEF VInv, FlashSessionVerifies, Verifying
<1>5. Verified
  BY <1>3, <1>4 DEF VInv, Verifying, Queries
<1>6. Len(reports) = 1 /\ reports[1] = Head(script) /\ in = NoPacket /\ ~Busy /\ out = NoPacket
  BY <1>1, <1>5 DEF Verified, Answers
<1>7. script' = Tail(script) /\ outcome' = outcome /\ reports' = <<>>
  <2>1. Head(reports) = Head(script)
    BY <1>1, <1>6, ReportsTail DEF SInv
  <2>2. reports' = <<>>
    <3>1. PICK S : reports \in Seq(S)
      BY DEF SInv, IsReports
    <3> QED
      BY <1>1, <1>6, <3>1
  <2> QED
    BY <1>1, <2>1, <2>2
<1>8. FlashSessionVerifies'
  BY <1>1, <1>7 DEF VInv, FlashSessionVerifies
<1>9. SUFFICES ASSUME Verifying' PROVE Verified'
  BY <1>8 DEF VInv
<1>10. Answers' /\ Sequel'
  BY <1>1, <1>2, <1>6, <1>7 DEF Answers, Sequel
<1>11. Follows(First, First')
  BY <1>3, <1>7, <1>9, OrderedTail DEF SInv, InOrder, First, Verifying
<1>12. ToErase' <=> ToErase
  <2>1. First \in Early <=> First' \in Early
    BY <1>3, <1>11, EarlyFirst DEF Queries, Follows, Early
  <2> QED
    BY <1>1, <1>2, <1>6, <2>1 DEF ToErase
<1>13. Joined'
  <2>1. PointerLast' = PointerLast /\ PointerThen' = PointerThen
    BY <1>1, <1>2, <1>6 DEF PointerLast, PointerThen
  <2>2. Joins(script', PointerLast')
    <3>1. ~Writes(Head(script)) /\ ~Closes(Head(script)) /\ Joins(script, PointerLast)
      BY <1>3, <1>5, Kinds DEF Verified, Joined
    <3> QED
      BY <1>3, <1>7, <2>1, <3>1, JoinsTail
  <2> QED
    BY <1>1, <1>2, <1>5, <1>6, <1>12, <2>1, <2>2, NothingExpected DEF Verified, Joined
<1>14. Parcels'
  <2>1. /\ \A i \in DOMAIN script' : Expected(script'[i], want)
        /\ ReadsLast(script')
    BY <1>3, <1>5, <1>7, TailPackets DEF Verified, Parcels
  <2> QED
    BY <1>1, <1>2, <1>5, <1>6, <2>1 DEF Verified, Parcels, Base
<1>15. Clear'
  BY <1>1, <1>2, <1>5, <1>6, <1>12 DEF Verified, Clear
<1>16. ASSUME NEW a, Accounted(a) PROVE Accounted(a)'
  <2>1. Covered(script, a) => Covered(script', a)
    BY <1>3, <1>7, CoveredTail DEF Queries, First
  <2> QED
    BY <1>1, <1>2, <1>6, <1>12, <1>16, <2>1 DEF Accounted, Base
<1>17. Accounts'
  BY <1>3, <1>5, <1>7, <1>16, AccountsTail DEF Verified
<1> QED
  BY <1>10, <1>13, <1>14, <1>15, <1>17 DEF Verified

\* A session that is over has its outcome.
LEMMA OverVerifies ==
  ASSUME VInv, script' = <<>>, UNCHANGED <<outcome, clean, withConfig>>
  PROVE  VInv'
  BY DEF VInv, FlashSessionVerifies, Verifying

-----------------------------------------------------------------------------
(* The commands of a session that verifies. *)

\* What comes after the command at hand, unless the PC waits for its answer.
LEMMA Ahead ==
  ASSUME IInv, Verified, Busy, script # <<>>, ~Answered(PacketFromPC)
  PROVE  /\ out # NoPacket => /\ Follows(PacketFromPC.cmd, out.cmd)
                              /\ First = out.cmd \/ Follows(out.cmd, First)
         /\ out = NoPacket => Follows(PacketFromPC.cmd, First)
         /\ in = NoPacket /\ reports = <<>>
<1>1. sent /\ out = NoPacket => FALSE
  BY DEF IInv, Pipeline, Verified, Answers
<1>2. out # NoPacket /\ sent => First = out.cmd
  BY DEF Verified, Answers, First
<1> QED
  BY <1>1, <1>2 DEF Verified, Sequel, Answers

\* A command that the PC does not wait for leaves the queues in order.
LEMMA CommandAnswers ==
  ASSUME IInv, Verified, Busy, ~Answered(PacketFromPC), script # <<>>,
         UNCHANGED <<PacketFromPC, script, reports, sent, out, in>>
  PROVE  Answers' /\ Sequel'
<1>1. First' = First /\ in = NoPacket /\ reports = <<>> /\ ~(sent /\ out = NoPacket)
  BY Ahead DEF First, IInv, Pipeline, Verified, Answers
<1>2. Answers'
  BY <1>1 DEF Verified, Answers
<1>3. Sequel'
  BY <1>1 DEF Verified, Sequel
<1> QED
  BY <1>2, <1>3

\* When a command programs, nothing that comes erases.
LEMMA ErasedBefore ==
  ASSUME IInv, Verified, Busy, script # <<>>, PacketFromPC.cmd \in Programs
  PROVE  ~ToErase
<1>1. ~Answered(PacketFromPC)
  BY DEF Answered, Queries, Programs
<1> QED
  BY <1>1, Ahead, NothingExpected DEF ToErase, Early, Follows, Programs

LEMMA NotSigning ==
  ASSUME IInv, Verified, Verifying, Busy
  PROVE  PacketFromPC.cmd # "SIGN_FLASH"
<1>1. SUFFICES ASSUME PacketFromPC.cmd = "SIGN_FLASH" PROVE FALSE
  OBVIOUS
<1>2. ~Answered(PacketFromPC) /\ script # <<>> /\ First # "RESET_DEVICE"
  BY <1>1 DEF Answered, Queries, Verifying
<1>3. out # NoPacket => out.cmd = "RESET_DEVICE" /\ (First = "RESET_DEVICE" \/ Follows("RESET_DEVICE", First))
  BY <1>1, <1>2, Ahead DEF Follows
<1> QED
  BY <1>1, <1>2, <1>3, Ahead DEF Follows

LEMMA ReceiveVerifies ==
  ASSUME IInv, Receive, Verified
  PROVE  Verified'
<1>1. /\ ~Busy /\ Busy' /\ out # NoPacket /\ PacketFromPC' = out /\ out' = NoPacket
      /\ UNCHANGED <<script, reports, sent, want, in, mem, loop>>
      /\ UNCHANGED <<ProgrammedPointer, BufferedDataIndex, ProgrammingBuffer>>
  BY DEF Receive, Busy, host, buffering
<1>2. First' = First /\ Base' = Base /\ loop = 0 /\ loop' = 0
  BY <1>1 DEF First, Base, IInv, Counters
<1>3. in = NoPacket /\ reports = <<>> /\ (IF sent THEN out = Head(script) ELSE ~Answered(out))
  BY <1>1 DEF Verified, Answers
<1>4. Answers'
  BY <1>1, <1>3 DEF Answers
<1>5. Sequel'
  BY <1>1, <1>2 DEF Verified, Sequel
<1>6. ToErase' <=> ToErase
  BY <1>1, <1>2, NothingExpected DEF ToErase
<1>7. Joined'
  <2>1. PointerThen = ProgrammedPointer /\ PointerLast' = PointerLast
    BY <1>1, NothingExpected DEF PointerThen, PointerLast
  <2> QED
    BY <1>1, <1>6, <2>1, NothingExpected DEF Verified, Joined
<1>8. Parcels'
  BY <1>1, <1>2, NothingExpected DEF Verified, Parcels
<1>9. Clear'
  <2>1. 0 <= AppPages /\ \A a \in AppStart .. AppStart + 0 * Page - 1 : FALSE
    BY SomePages, Sizes
  <2> QED
    BY <1>1, <1>2, <1>6, <2>1 DEF Verified, Clear
<1>10. ASSUME NEW a, Accounted(a) PROVE Accounted(a)'
  <2>1. out.cmd = "PROGRAM_DEVICE" => Remaining' = out.addr
    <3>1. out.cmd = "PROGRAM_DEVICE" => out.addr \in Nat
      BY <1>1, OutPacket, AddressedPacket DEF Sendable
    <3> QED
      BY <1>1, <1>2, <3>1 DEF Remaining
  <2> QED
    BY <1>1, <1>2, <1>6, <1>10, <2>1 DEF Accounted, CellsOf
<1>11. Accounts'
  BY <1>1, <1>10, AccountsKept DEF Verified
<1> QED
  BY <1>4, <1>5, <1>7, <1>8, <1>9, <1>11 DEF Verified

\* An answered command goes to the endpoint as the PC expects it.
LEMMA AnswerVerifies ==
  ASSUME IInv, Verified, Busy, ~Busy', Answered(PacketFromPC), script # <<>>,
         in' = PacketFromPC, loop' = 0,
         UNCHANGED <<PacketFromPC, script, reports, sent, out, want, mem>>,
         UNCHANGED <<ProgrammedPointer, BufferedDataIndex, ProgrammingBuffer>>
  PROVE  Verified'
<1>1. PacketFromPC = Head(script) /\ sent /\ out = NoPacket /\ reports = <<>>
  BY DEF Verified, Answers
<1>2. First' = First /\ First = PacketFromPC.cmd /\ Base' = Base
  BY <1>1 DEF First, Base
<1>3. /\ ~Writes(PacketFromPC) /\ ~Closes(PacketFromPC)
      /\ PacketFromPC.cmd \notin {"PROGRAM_DEVICE", "ERASE_DEVICE"}
  BY DEF Answered, Queries, Writes, Closes
<1>4. Answers' /\ Sequel'
  BY <1>1 DEF Answers, Sequel
<1>5. ToErase' <=> ToErase
  BY <1>1, <1>2 DEF ToErase
<1>6. Joined'
  <2>1. PointerThen' = PointerThen /\ PointerLast' = PointerLast
    BY <1>3 DEF PointerThen, PointerLast
  <2> QED
    BY <1>5, <2>1 DEF Verified, Joined
<1>7. Parcels' /\ Clear'
  BY <1>2, <1>5 DEF Verified, Parcels, Clear
<1>8. \A a : Accounted(a) => Accounted(a)'
  BY <1>2, <1>3, <1>5 DEF Accounted
<1>9. Accounts'
  BY <1>8, AccountsKept DEF Verified
<1> QED
  BY <1>4, <1>6, <1>7, <1>9 DEF Verified

LEMMA QueryVerifies ==
  ASSUME IInv, QueryDevice, Verified, script # <<>>
  PROVE  Verified'
<1>1. /\ Busy /\ ~Busy' /\ in' = PacketFromPC /\ loop' = 0 /\ Answered(PacketFromPC)
      /\ UNCHANGED <<PacketFromPC, script, reports, sent, out, want, mem>>
      /\ UNCHANGED <<ProgrammedPointer, BufferedDataIndex, ProgrammingBuffer>>
  BY DEF QueryDevice, Working, Busy, Done, rest, host, buffering, Answered
<1> QED
  BY <1>1, AnswerVerifies

\* GET_DATA finds in the memory what the PC expects.
LEMMA GetDataVerifies ==
  ASSUME IInv, SInv, GetData, Verified, script # <<>>
  PROVE  Verified'
<1> DEFINE p == PacketFromPC
<1>1. /\ Busy /\ ~Busy' /\ loop' = 0 /\ p.cmd = "GET_DATA" /\ Answered(p)
      /\ UNCHANGED <<PacketFromPC, script, reports, sent, out, want, mem>>
      /\ UNCHANGED <<ProgrammedPointer, BufferedDataIndex, ProgrammingBuffer>>
      /\ in' = [p EXCEPT !.data = [i \in DOMAIN @ |-> mem[p.addr + i - 1]]]
  BY DEF GetData, Working, Busy, Done, rest, host, buffering, Answered
<1>2. p \in [cmd : {"PROGRAM_DEVICE", "GET_DATA"}, addr : Nat, data : Seq(Cell)]
  BY <1>1, OutPacket DEF Sendable, Packet, Queries
<1>3. p = Head(script) /\ out = NoPacket /\ script \in Seq(Sendable)
      /\ script[1] = p /\ 1 \in DOMAIN script
  BY <1>1, OutPacket, TailPackets DEF Verified, Answers
<1>4. (\A a : ~Covered(script, a)) /\ BufferedDataIndex = 0
  <2>1. BufferedDataIndex = 0
    BY <1>1 DEF SInv, Emptied, Checks
  <2>2. ASSUME NEW i \in DOMAIN script PROVE script[i].cmd # "PROGRAM_DEVICE"
    <3>1. i = 1 \/ 1 < i
      BY <1>3
    <3> QED
      BY <1>1, <1>3, <3>1 DEF Verified, Parcels, ReadsLast, Reads
  <2> QED
    BY <2>1, <2>2 DEF Covered
<1>5. ASSUME NEW i \in DOMAIN p.data PROVE mem[p.addr + i - 1] = p.data[i]
  <2>1. p.addr + i - 1 \in CellsOf(p)
    BY <1>2 DEF CellsOf, After
  <2>2. Accounted(p.addr + i - 1)
    BY <1>1, <1>3, <2>1 DEF Verified, Accounts, Reads
  <2>3. p.addr + i - 1 \notin Base .. ProgrammedPointer - 1
    BY <1>4 DEF Base, IInv, Counters
  <2>4. mem[p.addr + i - 1] = Content(want, p.addr + i - 1)
    BY <1>1, <1>3, <1>4, <2>2, <2>3, Nothing DEF Accounted
  <2>5. p.data[i] = Content(want, p.addr + i - 1)
    BY <1>1 DEF Verified, Parcels, Expected, Carries
  <2> QED
    BY <2>4, <2>5
<1>6. in' = p
  <2>1. [i \in DOMAIN p.data |-> mem[p.addr + i - 1]] = p.data
    BY <1>2, <1>5
  <2> QED
    BY <1>1, <1>2, <2>1
<1> QED
  BY <1>1, <1>6, AnswerVerifies

LEMMA UnlockVerifies ==
  ASSUME IInv, UnlockConfig, Verified, script # <<>>
  PROVE  Verified'
<1>1. /\ Busy /\ ~Busy' /\ PacketFromPC.cmd = "UNLOCK_CONFIG" /\ loop' = 0
      /\ UNCHANGED <<PacketFromPC, script, reports, sent, out, in, want, mem>>
      /\ UNCHANGED <<ProgrammedPointer, BufferedDataIndex, ProgrammingBuffer>>
  BY DEF UnlockConfig, Working, Busy, Done, host, buffering, usb
<1>2. ~Answered(PacketFromPC) /\ ~Writes(PacketFromPC) /\ ~Closes(PacketFromPC)
  BY <1>1 DEF Answered, Queries, Writes, Closes
<1>3. First' = First /\ Base' = Base
  BY <1>1 DEF First, Base
<1>4. Answers' /\ Sequel'
  BY <1>1, <1>2, CommandAnswers
<1>5. ToErase /\ ToErase'
  <2>1. IF out # NoPacket THEN out.cmd \in Early ELSE First \in Early
    BY <1>1, <1>2, Ahead, EarlyFirst
  <2> QED
    BY <1>1, <1>3, <2>1 DEF ToErase
<1>6. Joined'
  <2>1. PointerThen' = PointerThen /\ PointerLast' = PointerLast
    BY <1>1, <1>2 DEF PointerThen, PointerLast
  <2> QED
    BY <1>1, <1>5, <2>1 DEF Verified, Joined
<1>7. Parcels' /\ Clear'
  BY <1>1, <1>3, <1>5 DEF Verified, Parcels, Clear
<1>8. \A a : Accounted(a) => Accounted(a)'
  BY <1>1, <1>3, <1>5 DEF Accounted
<1>9. Accounts'
  BY <1>1, <1>8, AccountsKept DEF Verified
<1> QED
  BY <1>4, <1>6, <1>7, <1>9 DEF Verified

LEMMA PagesOfApplication == AppStart + AppPages * Page = FlashEnd
<1> DEFINE j == AppStart \div Page
           k == FlashEnd \div Page
           m == AppPages
<1>1. Page \in Nat \ {0} /\ AppStart % Page = 0 /\ FlashEnd % Page = 0
  BY Sizes, BootConstants
<1>2. AppStart = j * Page /\ FlashEnd = k * Page /\ j \in Nat /\ k \in Nat
  BY <1>1, Sizes, Division
<1> HIDE DEF j, k
<1>3. FlashEnd - AppStart = (k - j) * Page /\ FlashEnd - AppStart \in Nat
  BY <1>1, <1>2, Sizes
<1>4. (FlashEnd - AppStart) % Page = 0
  BY <1>1, <1>2, <1>3, Multiple
<1>5. FlashEnd - AppStart = m * Page + ((FlashEnd - AppStart) % Page) /\ m \in Nat
  BY <1>1, <1>3, Division DEF AppPages
<1> HIDE DEF m
<1>6. FlashEnd - AppStart = m * Page
  BY <1>1, <1>4, <1>5
<1>7. m * Page \in Nat
  BY <1>1, <1>5, Product
<1> QED
  BY <1>6, <1>7, Sizes DEF m

LEMMA EraseVerifies ==
  ASSUME IInv, EraseFlashPage \/ EraseEepromAndUserId, Verified, script # <<>>
  PROVE  Verified'
<1>1. /\ Busy /\ PacketFromPC.cmd = "ERASE_DEVICE"
      /\ UNCHANGED <<PacketFromPC, script, reports, sent, out, in, want>>
      /\ UNCHANGED <<ProgrammedPointer, BufferedDataIndex, ProgrammingBuffer>>
  BY DEF EraseFlashPage, EraseEepromAndUserId, Working, Busy, rest, host, buffering, usb
<1>2. ~Answered(PacketFromPC) /\ ~Writes(PacketFromPC) /\ Closes(PacketFromPC)
  BY <1>1 DEF Answered, Queries, Writes, Closes
<1>3. First' = First /\ Base' = Base
  BY <1>1 DEF First, Base
<1>4. Answers' /\ Sequel'
  BY <1>1, <1>2, CommandAnswers
<1>5. ToErase /\ ProgrammedPointer = InvalidAddress
  BY <1>1 DEF ToErase, Early, Verified, Joined
<1>6. Joined'
  <2>1. PointerThen' = PointerThen /\ PointerLast' = PointerLast
    BY <1>1, <1>2, <1>5 DEF PointerThen, PointerLast
  <2> QED
    BY <1>1, <1>2, <1>5, <2>1 DEF Verified, Joined
<1>7. Parcels'
  BY <1>1, <1>3, NothingExpected DEF Verified, Parcels
<1>8. \A a : Accounted(a) => Accounted(a)'
  BY <1>1, <1>3, <1>5 DEF Accounted
<1>9. Accounts'
  BY <1>1, <1>8, AccountsKept DEF Verified
<1>10. /\ loop \in Nat /\ loop <= AppPages
       /\ \A a \in AppStart .. AppStart + loop * Page - 1 : mem[a] = Erased
  BY <1>1 DEF IInv, Counters, Verified, Clear
<1>11. \A a \in AppStart .. FlashEnd - 1 : a \in Memory
  BY Sizes DEF Memory, Flash
<1>12. Clear'
  <2>1. CASE EraseFlashPage
    <3>1. /\ loop < AppPages /\ mem' = Erase(PageAt(AppStart + loop * Page))
          /\ loop' = loop + 1 /\ Busy'
      BY <2>1 DEF EraseFlashPage, Working, Busy
    <3>2. ToErase'
      BY <1>1, <3>1 DEF ToErase, Early
    <3> DEFINE x == loop * Page
               y == (loop + 1) * Page
               z == AppPages * Page
    <3>3. y = x + Page /\ y <= z /\ x \in Nat /\ z \in Nat /\ AppStart + z = FlashEnd
      <4>1. x \in Nat
        BY <1>10, Sizes, Product
      <4>2. y = x + Page
        BY <1>10, Sizes
      <4>3. x + Page <= z
        BY <1>10, <3>1, Sizes, SomePages, Quotients
      <4>4. z \in Nat
        BY SomePages, Sizes, Product
      <4> QED
        BY <4>1, <4>2, <4>3, <4>4, PagesOfApplication
    <3> HIDE DEF x, y, z
    <3>4. ASSUME NEW a \in AppStart .. AppStart + y - 1 PROVE mem'[a] = Erased
      <4>1. a \in Memory /\ (a \in PageAt(AppStart + x) \/ a \in AppStart .. AppStart + x - 1)
        BY <1>11, <3>3, Sizes DEF PageAt
      <4>2. a \in AppStart .. AppStart + x - 1 => mem[a] = Erased
        BY <1>10 DEF x
      <4>3. mem' = Erase(PageAt(AppStart + x))
        BY <3>1 DEF x
      <4> QED
        BY <4>1, <4>2, <4>3 DEF Erase
    <3>5. loop' <= AppPages /\ \A a \in AppStart .. AppStart + loop' * Page - 1 : mem'[a] = Erased
      <4>1. loop' <= AppPages
        BY <1>10, <3>1, SomePages
      <4>2. loop' * Page = y
        BY <3>1 DEF y
      <4> QED
        BY <3>4, <4>1, <4>2
    <3> QED
      BY <3>2, <3>5 DEF Clear
  <2>2. CASE EraseEepromAndUserId
    <3>1. loop = AppPages /\ mem' = Erase(Eeprom \cup UserId) /\ ~Busy'
      BY <2>2 DEF EraseEepromAndUserId, Done, Busy
    <3>2. ASSUME NEW a \in AppStart .. FlashEnd - 1 PROVE mem[a] = Erased
      <4> DEFINE z == loop * Page
      <4>1. AppStart + z = FlashEnd /\ z \in Nat
        BY <3>1, PagesOfApplication, SomePages, Sizes, Product
      <4>2. \A c \in AppStart .. AppStart + z - 1 : mem[c] = Erased
        BY <1>10
      <4> HIDE DEF z
      <4> QED
        BY <4>1, <4>2, Sizes
    <3>3. \A a \in AppStart .. FlashEnd - 1 : mem'[a] = Erased
      BY <1>11, <3>1, <3>2 DEF Erase
    <3> QED
      BY <3>1, <3>3 DEF Clear, Application
  <2> QED
    BY <2>1, <2>2
<1> QED
  BY <1>4, <1>6, <1>7, <1>9, <1>12 DEF Verified

-----------------------------------------------------------------------------
(* The commands that program. *)

LEMMA ProgramQueue ==
  ASSUME IInv, Verified, script # <<>>,
         \/ ProgramConfigBits \/ ProgramEeprom \/ ProgramContiguous \/ ProgramIgnored
         \/ ProgramByte \/ ProgramComplete
  PROVE  /\ Busy /\ PacketFromPC.cmd \in Programs /\ ~ToErase
         /\ UNCHANGED <<PacketFromPC, script, reports, sent, out, in, want>>
         /\ First' = First /\ ~ToErase' /\ Answers' /\ Sequel'
<1>1. /\ Busy /\ PacketFromPC.cmd \in Programs
      /\ UNCHANGED <<PacketFromPC, script, reports, sent, out, in, want>>
  BY DEF ProgramConfigBits, ProgramEeprom, ProgramContiguous, ProgramIgnored, ProgramByte,
         ProgramComplete, ToFlash, Working, Busy, rest, host, usb, Programs
<1>2. ~Answered(PacketFromPC) /\ First' = First
  BY <1>1 DEF Answered, Queries, Programs, First
<1>3. Answers' /\ Sequel'
  BY <1>1, <1>2, CommandAnswers
<1>4. ~ToErase /\ ~ToErase'
  BY <1>1, <1>2, ErasedBefore DEF ToErase
<1> QED
  BY <1>1, <1>2, <1>3, <1>4

\* A cell programmed with what belongs there holds it.
LEMMA ProgrammedCell ==
  ASSUME NEW old, NEW new, old \in {Erased, new}
  PROVE  Programmed(old, new) = new
  BY DEF Programmed

\* A packet of the configuration bits or of another section is not what comes.
LEMMA NotConfig ==
  ASSUME IInv, Verified, Busy
  PROVE  ~ProgramConfigBits /\ ~ProgramIgnored
<1>1. ~ProgramConfigBits
  BY DEF Verified, Parcels, Expected, ProgramConfigBits, Working
<1>2. ~ProgramIgnored
  BY DEF Verified, Joined, ProgramIgnored, ToFlash, Working, Writes, Busy
<1> QED
  BY <1>1, <1>2

LEMMA EepromVerifies ==
  ASSUME IInv, ProgramEeprom, Verified, script # <<>>
  PROVE  Verified'
<1> DEFINE p == PacketFromPC
<1>1. /\ Busy /\ p.cmd = "PROGRAM_DEVICE" /\ Bank(p.addr) = 3 /\ Overwrite(p.addr)
      /\ ~Busy' /\ loop' = 0
      /\ UNCHANGED <<ProgrammedPointer, BufferedDataIndex, ProgrammingBuffer>>
  BY DEF ProgramEeprom, Working, Busy, Done, buffering
<1>2. /\ UNCHANGED <<PacketFromPC, script, reports, sent, out, in, want>>
      /\ ~ToErase /\ ~ToErase' /\ Answers' /\ Sequel' /\ Base' = Base
  BY <1>1, ProgramQueue DEF Base
<1>3. p.addr \in Nat /\ p.data \in Seq(Cell) /\ Len(p.data) \in Nat /\ loop \in Nat
      /\ DOMAIN p.data = 1 .. Len(p.data)
  BY <1>1, OutPacket, AddressedPacket DEF Sendable, IInv, Counters
<1>4. ASSUME NEW a \in Memory
      PROVE  mem'[a] = IF a \in CellsOf(p) THEN Content(want, a) ELSE mem[a]
  <2>1. mem'[a] = IF a \in CellsOf(p) THEN p.data[a - p.addr + 1] ELSE mem[a]
    BY <1>1, <1>3 DEF Overwrite, CellsOf, After
  <2>2. a \in CellsOf(p) => /\ a - p.addr + 1 \in DOMAIN p.data
                            /\ p.addr + (a - p.addr + 1) - 1 = a
    BY <1>3, CellNat DEF CellsOf, After
  <2>3. \A i \in DOMAIN p.data : p.data[i] = Content(want, p.addr + i - 1)
    BY <1>1 DEF Verified, Parcels, Expected, Carries
  <2> QED
    BY <2>1, <2>2, <2>3
<1>5. ~Writes(p) /\ ~Closes(p)
  BY <1>1 DEF Writes, Closes
<1>6. Joined'
  <2>1. PointerThen' = PointerThen /\ PointerLast' = PointerLast
    BY <1>1, <1>2, <1>5 DEF PointerThen, PointerLast
  <2> QED
    BY <1>1, <1>2, <2>1 DEF Verified, Joined
<1>7. Parcels'
  BY <1>1, <1>2 DEF Verified, Parcels
<1>8. Clear'
  <2>1. \A a \in Application : a \in Memory
    BY Sizes DEF Application, Memory, Flash
  <2> QED
    BY <1>1, <1>2, <1>4, <2>1 DEF Verified, Clear
<1>9. ASSUME NEW a \in Memory, Accounted(a) PROVE Accounted(a)'
  <2>1. a \in Remaining .. After(p) - 1 => a \in CellsOf(p)
    BY <1>3, CellNat DEF Remaining, CellsOf, After
  <2> QED
    BY <1>1, <1>2, <1>4, <1>9, <2>1 DEF Accounted
<1>10. Accounts'
  BY <1>2, <1>9, AccountsKept DEF Verified
<1> QED
  BY <1>2, <1>6, <1>7, <1>8, <1>10 DEF Verified

LEMMA ContiguousVerifies ==
  ASSUME IInv, ProgramContiguous, Verified, script # <<>>
  PROVE  Verified'
<1> DEFINE p == PacketFromPC
<1>1. /\ Busy /\ Busy' /\ Writes(p) /\ loop = 0 /\ loop' = 1
      /\ ProgrammedPointer \in {InvalidAddress, p.addr} /\ ProgrammedPointer' = p.addr
      /\ UNCHANGED <<BufferedDataIndex, ProgrammingBuffer, mem>>
  BY DEF ProgramContiguous, ToFlash, Working, Busy, Writes
<1>2. /\ UNCHANGED <<PacketFromPC, script, reports, sent, out, in, want>>
      /\ ~ToErase /\ ~ToErase' /\ Answers' /\ Sequel'
  BY ProgramQueue
<1>3. p.addr \in Nat
  BY <1>1, OutPacket, WrittenPacket
<1>4. Base' = Base \/ BufferedDataIndex = 0
  BY <1>1 DEF Base, IInv, Buffer, Filling, Settled
<1>5. BufferedDataIndex \in Nat /\ ProgrammedPointer \in Nat
  BY DEF IInv, Counters
<1>6. Joined'
  <2>1. PointerThen' = PointerThen /\ PointerLast' = PointerLast
    BY <1>1, <1>2 DEF PointerThen, PointerLast
  <2> QED
    BY <1>1, <1>2, <2>1 DEF Verified, Joined
<1>7. Parcels'
  <2>1. \A i \in 0 .. BufferedDataIndex' - 1 : ProgrammingBuffer'[i] = Content(want', Base' + i)
    BY <1>1, <1>2, <1>4, <1>5 DEF Verified, Parcels
  <2> QED
    BY <1>1, <1>2, <2>1 DEF Verified, Parcels
<1>8. Clear'
  BY <1>1, <1>2 DEF Verified, Clear, Writes
<1>9. ASSUME NEW a \in Memory, Accounted(a) PROVE Accounted(a)'
  <2>1. Remaining' = Remaining
    BY <1>1, <1>2, <1>3 DEF Remaining
  <2>2. a \in Base .. ProgrammedPointer - 1 => a \in Base' .. ProgrammedPointer' - 1
    BY <1>1, <1>3, <1>4, <1>5 DEF Base
  <2> QED
    BY <1>1, <1>2, <1>9, <2>1, <2>2 DEF Accounted
<1>10. Accounts'
  BY <1>2, <1>9, AccountsKept DEF Verified
<1> QED
  BY <1>2, <1>6, <1>7, <1>8, <1>10 DEF Verified

\* What waits in the buffer, written to the flash: the cells it reaches hold what
\* belongs there, the other bytes still wait.
LEMMA ParcelWritten ==
  ASSUME IInv, Verified, ~ToErase, NEW pointer \in Nat, NEW buffer, NEW count \in 0 .. Block,
         count # 0 => AppStart <= pointer - count /\ pointer <= FlashEnd,
         \A i \in 0 .. count - 1 : buffer[i] = Content(want, (pointer - count) + i),
         WriteFlashBlock(pointer, buffer, count)
  PROVE  /\ BufferedDataIndex' \in 0 .. count
         /\ \A a \in Memory : mem[a] = Content(want, a) => mem'[a] = Content(want, a)
         /\ \A a \in Application : mem'[a] \in {Erased, Content(want, a)}
         /\ \A a \in pointer - count .. (pointer - BufferedDataIndex') - 1 :
              mem'[a] = Content(want, a)
         /\ \A i \in 0 .. BufferedDataIndex' - 1 :
              ProgrammingBuffer'[i] = Content(want, (pointer - BufferedDataIndex') + i)
<1> DEFINE base == pointer - count
<1>1. PICK taken \in 0 .. count :
        /\ BufferedDataIndex' = count - taken
        /\ \A a \in Memory :
             mem'[a] = IF a \in base .. base + taken - 1
                         THEN Programmed(mem[a], buffer[a - base]) ELSE mem[a]
        /\ \A i \in 0 .. count - taken - 1 : ProgrammingBuffer'[i] = buffer[taken + i]
  <2>1. count # 0 => base \in Nat /\ base < Segment
    BY Sizes
  <2> HIDE DEF base
  <2>2. \E taken \in 0 .. count :
        /\ BufferedDataIndex' = count - taken
        /\ \A a \in Memory :
             mem'[a] = IF a \in pointer - count .. pointer - count + taken - 1
                         THEN Programmed(mem[a], buffer[a - (pointer - count)]) ELSE mem[a]
        /\ \A i \in 0 .. count - taken - 1 : ProgrammingBuffer'[i] = buffer[taken + i]
    BY <2>1, BufferWritten DEF base
  <2> QED
    BY <2>2 DEF base
<1>2. base \in Int /\ count \in Nat /\ taken \in Nat /\ taken <= count
      /\ pointer - BufferedDataIndex' = base + taken /\ pointer = base + count
  BY <1>1, Sizes
<1>3. \A i \in 0 .. count - 1 : buffer[i] = Content(want, base + i)
  OBVIOUS
<1>4. \A a \in Application : a \in Memory /\ a \in Nat /\ mem[a] \in {Erased, Content(want, a)}
  <2>1. \A a \in Application : a \in Memory /\ a \in Nat
    BY Sizes DEF Application, Memory, Flash
  <2> QED
    BY <2>1 DEF Verified, Clear
<1>5. taken # 0 => AppStart <= base /\ base + taken <= FlashEnd
  BY <1>2, Sizes
<1> HIDE DEF base
<1>6. ASSUME NEW a \in base .. base + taken - 1
      PROVE  a \in Memory /\ a \in Application /\ mem'[a] = Content(want, a)
  <2>1. a \in Application /\ a - base \in 0 .. count - 1 /\ base + (a - base) = a
    BY <1>2, <1>5, Sizes DEF Application
  <2>2. mem'[a] = Programmed(mem[a], Content(want, a))
    BY <1>1, <1>3, <1>4, <2>1
  <2> QED
    BY <1>4, <2>1, <2>2, ProgrammedCell
<1>7. \A a \in Memory : a \notin base .. base + taken - 1 => mem'[a] = mem[a]
  BY <1>1
<1>8. ASSUME NEW i \in 0 .. (count - taken) - 1
      PROVE  ProgrammingBuffer'[i] = Content(want, (base + taken) + i)
  <2>1. taken + i \in 0 .. count - 1 /\ base + (taken + i) = (base + taken) + i
    BY <1>2
  <2> QED
    BY <1>1, <1>3, <2>1
<1>9. BufferedDataIndex' \in 0 .. count /\ BufferedDataIndex' = count - taken
  BY <1>1, <1>2
<1>10. \A a \in Memory : mem[a] = Content(want, a) => mem'[a] = Content(want, a)
  BY <1>6, <1>7
<1>11. \A a \in Application : mem'[a] \in {Erased, Content(want, a)}
  BY <1>4, <1>6, <1>7
<1>12. \A a \in base .. (pointer - BufferedDataIndex') - 1 : mem'[a] = Content(want, a)
  <2>1. (pointer - BufferedDataIndex') - 1 = base + taken - 1
    BY <1>2
  <2> QED
    BY <1>6, <2>1
<1>13. \A i \in 0 .. BufferedDataIndex' - 1 :
         ProgrammingBuffer'[i] = Content(want, (pointer - BufferedDataIndex') + i)
  <2>1. pointer - BufferedDataIndex' = base + taken /\ BufferedDataIndex' - 1 = (count - taken) - 1
    BY <1>2, <1>9
  <2> QED
    BY <1>8, <2>1
<1> QED
  BY <1>9, <1>10, <1>11, <1>12, <1>13 DEF base

\* A byte goes from the packet to the buffer, and with the last of a block to the flash.
LEMMA ByteVerifies ==
  ASSUME IInv, SInv, ProgramByte, Verified, script # <<>>
  PROVE  Verified'
<1> DEFINE p == PacketFromPC
           size == Len(p.data)
           x == ProgrammedPointer
<1>1. /\ p \in Sendable /\ Writes(p) /\ Filling /\ Middle /\ Base \in Nat
      /\ ProgrammedPointer' = x + 1 /\ NextByte
  BY FillingFacts DEF ProgramByte
<1>2. /\ UNCHANGED <<PacketFromPC, script, reports, sent, out, in, want>>
      /\ Busy /\ ~ToErase /\ ~ToErase' /\ Answers' /\ Sequel'
  BY ProgramQueue
<1>3. /\ p.addr \in Nat /\ size \in Nat /\ loop \in 1 .. size /\ x = p.addr + loop - 1
      /\ After(p) = p.addr + size /\ After(p) <= FlashEnd /\ x \in Nat
      /\ BufferedDataIndex \in 0 .. Block - 1 /\ Base = x - BufferedDataIndex /\ AppStart <= Base
  BY <1>1, WrittenPacket, Sizes DEF Middle, Filling, IInv, Counters, Base
<1>4. /\ Busy' => loop' = loop + 1 /\ loop < size
      /\ ~Busy' => loop = size /\ loop' = 0
  BY <1>1, <1>2, <1>3 DEF NextByte, Done, Busy
<1> HIDE DEF x, size
<1>5. x < FlashEnd /\ x + 1 <= FlashEnd
  <2>1. p.addr + size <= FlashEnd /\ loop <= size /\ loop \in Nat
    BY <1>3
  <2> QED
    BY <1>3, <2>1, Sizes
<1>6. p.data[loop] = Content(want, x)
  <2>1. \A i \in DOMAIN p.data : p.data[i] = Content(want, p.addr + i - 1)
    BY <1>1, <1>2 DEF Verified, Parcels, Expected, Carries, Writes
  <2>2. loop \in DOMAIN p.data
    BY <1>1, <1>3, AddressedPacket DEF size, Sendable, Writes
  <2> QED
    BY <1>3, <2>1, <2>2
<1>7. \A i \in 0 .. BufferedDataIndex : Buffered[i] = Content(want, Base + i)
  <2>1. SUFFICES ASSUME NEW i \in 0 .. BufferedDataIndex PROVE Buffered[i] = Content(want, Base + i)
    OBVIOUS
  <2>2. DOMAIN ProgrammingBuffer = 0 .. Page - 1 /\ i \in DOMAIN ProgrammingBuffer
    BY <1>3, PageOfSignature, Sizes DEF SInv, Emptied
  <2>3. CASE i = BufferedDataIndex
    BY <1>3, <1>6, <2>2, <2>3 DEF Buffered
  <2>4. CASE i # BufferedDataIndex
    <3>1. i \in 0 .. BufferedDataIndex - 1
      BY <1>3, <2>4
    <3> QED
      BY <2>2, <2>4, <3>1 DEF Buffered, Verified, Parcels
  <2> QED
    BY <2>3, <2>4
<1>8. /\ BufferedDataIndex' \in Nat /\ Base' \in Int /\ Base' = (x + 1) - BufferedDataIndex'
      /\ \A a \in Memory : mem[a] = Content(want, a) => mem'[a] = Content(want, a)
      /\ \A a \in Application : mem'[a] \in {Erased, Content(want, a)}
      /\ \A a \in Base .. Base' - 1 : mem'[a] = Content(want, a)
      /\ \A i \in 0 .. BufferedDataIndex' - 1 : ProgrammingBuffer'[i] = Content(want, Base' + i)
  <2>1. CASE BufferedDataIndex + 1 = Block
    <3> DEFINE pointer == x + 1
               count == BufferedDataIndex + 1
    <3>1. WriteFlashBlock(pointer, Buffered, count)
      BY <2>1 DEF ProgramByte, x
    <3>2. /\ pointer \in Nat /\ count \in 0 .. Block /\ pointer - count = Base
          /\ AppStart <= pointer - count /\ pointer <= FlashEnd
      <4>1. /\ x \in Nat /\ BufferedDataIndex \in Nat /\ Block \in Nat
            /\ Base = x - BufferedDataIndex /\ AppStart <= Base
        BY <1>3, Sizes
      <4>2. pointer \in Nat /\ pointer <= FlashEnd
        BY <1>5, <4>1
      <4>3. count \in 0 .. Block
        BY <2>1, <4>1
      <4>4. pointer - count = x - BufferedDataIndex
        BY <4>1
      <4> QED
        BY <4>1, <4>2, <4>3, <4>4
    <3>3. \A i \in 0 .. count - 1 : Buffered[i] = Content(want, (pointer - count) + i)
      <4>1. count - 1 = BufferedDataIndex
        BY <1>3
      <4> HIDE DEF pointer, count
      <4> QED
        BY <1>7, <3>2, <4>1
    <3>4. BufferedDataIndex' \in 0 .. count /\ Base' = pointer - BufferedDataIndex'
      <4>1. BufferedDataIndex' \in 0 .. count
        <5> HIDE DEF pointer, count
        <5> QED
          BY <1>2, <3>1, <3>2, <3>3, ParcelWritten
      <4> QED
        BY <1>1, <4>1 DEF Base
    <3> HIDE DEF pointer, count
    <3>5. /\ \A a \in Memory : mem[a] = Content(want, a) => mem'[a] = Content(want, a)
          /\ \A a \in Application : mem'[a] \in {Erased, Content(want, a)}
          /\ \A a \in pointer - count .. (pointer - BufferedDataIndex') - 1 :
               mem'[a] = Content(want, a)
          /\ \A i \in 0 .. BufferedDataIndex' - 1 :
               ProgrammingBuffer'[i] = Content(want, (pointer - BufferedDataIndex') + i)
      BY <1>2, <3>1, <3>2, <3>3, ParcelWritten
    <3>6. BufferedDataIndex' \in Nat /\ Base' \in Int
      BY <3>2, <3>4
    <3>7. Base' = (x + 1) - BufferedDataIndex'
      BY <3>4 DEF pointer
    <3> QED
      BY <3>2, <3>4, <3>5, <3>6, <3>7
  <2>2. CASE BufferedDataIndex + 1 # Block
    <3>1. mem' = mem /\ ProgrammingBuffer' = Buffered /\ BufferedDataIndex' = BufferedDataIndex + 1
          /\ Base' = Base
      BY <2>2, OtherByte DEF ProgramByte
    <3>2. \A i \in 0 .. BufferedDataIndex' - 1 : ProgrammingBuffer'[i] = Content(want, Base' + i)
      <4>1. BufferedDataIndex' - 1 = BufferedDataIndex
        BY <1>3, <3>1
      <4> QED
        BY <1>7, <3>1, <4>1
    <3>3. \A a \in Application : mem'[a] \in {Erased, Content(want, a)}
      BY <1>2, <3>1 DEF Verified, Clear
    <3>4. BufferedDataIndex' \in Nat /\ Base' \in Int /\ Base' = (x + 1) - BufferedDataIndex'
          /\ ~(\E a \in Base .. Base' - 1 : TRUE)
      BY <1>1, <1>3, <3>1
    <3> QED
      BY <3>1, <3>2, <3>3, <3>4
  <2> QED
    BY <2>1, <2>2
<1>9. Joined'
  <2>1. PointerThen' = PointerThen
    <3>1. PointerThen = After(p)
      BY <1>1, <1>2 DEF PointerThen
    <3>2. CASE Busy'
      BY <1>1, <1>2, <3>1, <3>2 DEF PointerThen
    <3>3. CASE ~Busy'
      <4>1. ProgrammedPointer' = After(p)
        BY <1>1, <1>3, <1>4, <3>3
      <4> QED
        BY <3>1, <3>3, <4>1 DEF PointerThen
    <3> QED
      BY <3>2, <3>3
  <2>2. PointerLast' = PointerLast
    BY <1>2, <2>1 DEF PointerLast
  <2>3. Busy' => loop' # 0
    BY <1>3, <1>4
  <2> QED
    BY <1>2, <2>1, <2>2, <2>3 DEF Verified, Joined
<1>10. Parcels'
  <2>1. Busy' => Expected(PacketFromPC', want')
    BY <1>2 DEF Verified, Parcels
  <2> QED
    BY <1>2, <1>8, <2>1 DEF Verified, Parcels
<1>11. Clear'
  BY <1>1, <1>2, <1>8 DEF Clear, Writes
<1>12. ASSUME NEW a \in Memory, Accounted(a) PROVE Accounted(a)'
  <2>1. a \in Nat
    BY CellNat
  <2>2. CASE a \in Base .. x
    <3>1. a \in Base .. Base' - 1 \/ a \in Base' .. ProgrammedPointer' - 1
      <4>1. Base \in Int /\ Base' \in Int /\ x \in Nat /\ ProgrammedPointer' - 1 = x
        BY <1>1, <1>3, <1>8
      <4>2. a \in Base .. Base' - 1 \/ a \in Base' .. x
        <5>1. \A b, c \in Int : a \in b .. x => a \in b .. c - 1 \/ a \in c .. x
          BY <2>1, <4>1
        <5> QED
          BY <2>2, <4>1, <5>1
      <4> QED
        BY <4>1, <4>2
    <3> QED
      BY <1>2, <1>8, <3>1 DEF Accounted
  <2>3. CASE a \in Remaining .. After(p) - 1
    <3>1. Remaining = x
      BY <1>3 DEF Remaining
    <3>2. Busy' => Remaining' = x + 1
      BY <1>2, <1>3, <1>4 DEF Remaining
    <3>3. a = x \/ (Busy' /\ a \in Remaining' .. After(p) - 1)
      BY <1>3, <1>4, <2>1, <2>3, <3>1, <3>2
    <3>4. a = x => a \in Base .. x
      BY <1>3, <2>1
    <3> QED
      BY <1>1, <1>2, <2>2, <3>3, <3>4 DEF Accounted, Writes
  <2>4. a \in Base .. ProgrammedPointer - 1 => a \in Base .. x
    BY <1>3, <2>1 DEF x
  <2> QED
    BY <1>2, <1>8, <1>12, <2>2, <2>3, <2>4 DEF Accounted
<1>13. Accounts'
  BY <1>2, <1>12, AccountsKept DEF Verified
<1> QED
  BY <1>2, <1>9, <1>10, <1>11, <1>13 DEF Verified

LEMMA CompleteVerifies ==
  ASSUME IInv, ProgramComplete, Verified, script # <<>>
  PROVE  Verified'
<1> DEFINE x == ProgrammedPointer
<1>1. /\ WriteFlashBlock(x, ProgrammingBuffer, BufferedDataIndex)
      /\ ProgrammedPointer' = InvalidAddress /\ ~Busy' /\ loop' = 0
      /\ PacketFromPC.cmd = "PROGRAM_COMPLETE" /\ BufferedDataIndex' = 0
  BY CompleteWrites DEF ProgramComplete, Working, Done, Busy
<1>2. /\ UNCHANGED <<PacketFromPC, script, reports, sent, out, in, want>>
      /\ Busy /\ ~ToErase /\ ~ToErase' /\ Answers' /\ Sequel'
  BY ProgramQueue
<1>3. /\ x \in Nat /\ BufferedDataIndex \in 0 .. Block /\ Base = x - BufferedDataIndex
      /\ BufferedDataIndex # 0 => AppStart <= Base /\ x <= FlashEnd
  BY <1>1, Sizes DEF IInv, Counters, Buffer, Filling, Settled, Writes, Base
<1> HIDE DEF x
<1>4. \A i \in 0 .. BufferedDataIndex - 1 : ProgrammingBuffer[i] = Content(want, (x - BufferedDataIndex) + i)
  BY <1>3 DEF Verified, Parcels
<1>5. /\ \A a \in Memory : mem[a] = Content(want, a) => mem'[a] = Content(want, a)
      /\ \A a \in Application : mem'[a] \in {Erased, Content(want, a)}
      /\ \A a \in Base .. x - 1 : mem'[a] = Content(want, a)
  <2>1. BufferedDataIndex # 0 => AppStart <= x - BufferedDataIndex /\ x <= FlashEnd
    BY <1>3
  <2>2. x - BufferedDataIndex' = x
    BY <1>1, <1>3
  <2>3. /\ \A a \in Memory : mem[a] = Content(want, a) => mem'[a] = Content(want, a)
        /\ \A a \in Application : mem'[a] \in {Erased, Content(want, a)}
        /\ \A a \in x - BufferedDataIndex .. (x - BufferedDataIndex') - 1 : mem'[a] = Content(want, a)
    BY <1>1, <1>2, <1>3, <1>4, <2>1, ParcelWritten
  <2> QED
    BY <1>3, <2>2, <2>3
<1>6. ~Writes(PacketFromPC) /\ Closes(PacketFromPC)
  BY <1>1 DEF Writes, Closes
<1>7. Joined'
  <2>1. PointerThen' = PointerThen /\ PointerLast' = PointerLast
    BY <1>1, <1>2, <1>6 DEF PointerThen, PointerLast
  <2> QED
    BY <1>1, <1>2, <2>1 DEF Verified, Joined
<1>8. Parcels'
  BY <1>1, <1>2 DEF Verified, Parcels
<1>9. Clear'
  BY <1>1, <1>2, <1>5 DEF Clear
<1>10. ASSUME NEW a \in Memory, Accounted(a) PROVE Accounted(a)'
  BY <1>1, <1>2, <1>5, <1>10 DEF Accounted, x
<1>11. Accounts'
  BY <1>2, <1>10, AccountsKept DEF Verified
<1> QED
  BY <1>2, <1>7, <1>8, <1>9, <1>11 DEF Verified

-----------------------------------------------------------------------------
LEMMA CommandVerifies ==
  ASSUME IInv, SInv, ProcessIO, ~ResetDeviceCleanly, Verified, Verifying
  PROVE  Verified'
<1>1. script # <<>>
  BY DEF Verifying
<1>2. CASE Receive
  BY <1>2, ReceiveVerifies
<1>3. CASE QueryDevice
  BY <1>1, <1>3, QueryVerifies
<1>4. CASE UnlockConfig
  BY <1>1, <1>4, UnlockVerifies
<1>5. CASE EraseFlashPage \/ EraseEepromAndUserId
  BY <1>1, <1>5, EraseVerifies
<1>6. CASE ProgramConfigBits \/ ProgramIgnored
  <2>1. Busy
    BY <1>6 DEF ProgramConfigBits, ProgramIgnored, ToFlash, Working, Busy
  <2> QED
    BY <1>6, <2>1, NotConfig
<1>7. CASE ProgramEeprom
  BY <1>1, <1>7, EepromVerifies
<1>8. CASE ProgramContiguous
  BY <1>1, <1>8, ContiguousVerifies
<1>9. CASE ProgramByte
  BY <1>1, <1>9, ByteVerifies
<1>10. CASE ProgramComplete
  BY <1>1, <1>10, CompleteVerifies
<1>11. CASE GetData
  BY <1>1, <1>11, GetDataVerifies
<1>12. CASE SignBegin \/ SignBlock
  BY <1>12, NotSigning DEF SignBegin, SignBlock, Working, Busy
<1> QED
  BY <1>2, <1>3, <1>4, <1>5, <1>6, <1>7, <1>8, <1>9, <1>10, <1>11, <1>12 DEF ProcessIO

LEMMA StepVInv ==
  ASSUME IInv, SInv, VInv, [Next]_vars
  PROVE  VInv'
<1>1. CASE Host
  <2>1. CASE HostAbort
    BY <2>1, OverVerifies DEF HostAbort
  <2> QED
    BY <1>1, <2>1, HostStartVerifies, HostSendVerifies, HostPollVerifies,
       HostReceiveVerifies DEF Host
<1>2. CASE PowerOn
  <2>1. script = <<>> /\ script' = script /\ UNCHANGED <<outcome, clean, withConfig>>
    BY <1>2 DEF PowerOn, IInv, Pipeline, host
  <2> QED
    BY <2>1, OverVerifies
<1>3. CASE PowerLoss \/ AppReset \/ ResetDeviceCleanly
  BY <1>3, OverVerifies DEF PowerLoss, AppReset, ResetDeviceCleanly, Restart
<1>4. CASE ProcessIO /\ ~ResetDeviceCleanly
  <2>1. UNCHANGED host
    BY <1>4 DEF ProcessIO, Receive, QueryDevice, UnlockConfig, EraseFlashPage,
       EraseEepromAndUserId, ProgramConfigBits, ProgramEeprom, ProgramContiguous,
       ProgramIgnored, ProgramByte, ProgramComplete, GetData, SignBegin, SignBlock, rest
  <2>2. FlashSessionVerifies' /\ (Verifying' => Verifying)
    BY <2>1 DEF VInv, FlashSessionVerifies, Verifying, First, host
  <2> QED
    BY <1>4, <2>2, CommandVerifies DEF VInv
<1>5. CASE UNCHANGED vars
  <2>1. /\ UNCHANGED <<mem, BootState, PacketFromPC, loop, out, in>>
        /\ UNCHANGED <<ProgrammedPointer, BufferedDataIndex, ProgrammingBuffer>>
        /\ UNCHANGED <<script, reports, sent, want, outcome, clean, withConfig>>
    BY <1>5 DEF vars, device, buffering, usb, host
  <2>2. FlashSessionVerifies' /\ (Verifying' => Verifying) /\ First' = First /\ (Busy' <=> Busy)
    BY <2>1 DEF VInv, FlashSessionVerifies, Verifying, First, Busy
  <2>3. SUFFICES ASSUME Verified PROVE Verified'
    BY <2>2 DEF VInv
  <2>4. (ToErase' <=> ToErase) /\ PointerThen' = PointerThen /\ PointerLast' = PointerLast
        /\ Base' = Base /\ Remaining' = Remaining
    BY <2>1, <2>2 DEF ToErase, PointerThen, PointerLast, Base, Remaining
  <2>5. Answers' /\ Sequel' /\ Joined'
    BY <2>1, <2>2, <2>3, <2>4 DEF Verified, Answers, Sequel, Joined
  <2>6. Parcels' /\ Clear'
    BY <2>1, <2>2, <2>3, <2>4 DEF Verified, Parcels, Clear
  <2>7. \A a : Accounted(a) => Accounted(a)'
    BY <2>1, <2>2, <2>4 DEF Accounted
  <2>8. Accounts'
    BY <2>1, <2>3, <2>7, AccountsKept DEF Verified
  <2> QED
    BY <2>5, <2>6, <2>8 DEF Verified
<1> QED
  BY <1>1, <1>2, <1>3, <1>4, <1>5 DEF Next

\* A session that programs flash and EEPROM and finds the device at rest reads back
\* what it wrote: the buffering of the packets into aligned blocks loses, shifts and
\* overwrites nothing, for all sizes of packets, blocks and pages.
THEOREM SessionVerifies == Spec => []FlashSessionVerifies
<1>1. Init => VInv
  BY DEF Init, VInv, FlashSessionVerifies, Verifying
<1>2. (IInv /\ SInv) /\ VInv /\ [Next]_vars => VInv'
  BY StepVInv
<1>3. VInv => FlashSessionVerifies
  BY DEF VInv
<1> QED
  BY <1>1, <1>2, <1>3, SInvAlways, PTL DEF Spec
=============================================================================
