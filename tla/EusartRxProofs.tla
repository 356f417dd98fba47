--------------------------- MODULE EusartRxProofs ---------------------------
(***************************************************************************)
(* The receive ring realigns itself, for every size of the ring and of the *)
(* counter, any number of bytes and of clears: theorems about EusartRx.    *)
(*                                                                         *)
(* EUSART_Receive_ISR lets the head run over the tail and the counter      *)
(* wrap.  What survives is a congruence: Gap stays divisible by Size,      *)
(* because an index steps by 1 or by 1 - Size, and the counter by 1 or by  *)
(* 1 - CountMod, which Size divides.                                       *)
(***************************************************************************)
EXTENDS EusartRx, TLAPS

Gap == rxHead - rxTail - rxCount + Taken

\* What EUSART_FlushBuffer has cleared so far, unless another clear or the
\* receive interrupt came in between.
Flushing ==
  ~torn => /\ pc = "flushTail" => rxHead = 0
           /\ pc = "flushCount" => rxHead = 0 /\ rxTail = 0

IInv == TypeOK /\ RingAligned /\ Flushing

-----------------------------------------------------------------------------
(* Arithmetic.                                                              *)

LEMMA MultipleDivides ==
  ASSUME NEW n \in Nat \ {0}, NEW k \in Int
  PROVE  (k * n) % n = 0
  BY SMT

LEMMA Quotient ==
  ASSUME NEW n \in Nat \ {0}, NEW a \in Int, a % n = 0
  PROVE  a \div n \in Int /\ a = (a \div n) * n
  BY SMT

\* Sums and differences of multiples of n are multiples of n.
LEMMA DivisibleSum ==
  ASSUME NEW n \in Nat \ {0}, NEW a \in Int, NEW b \in Int, a % n = 0, b % n = 0
  PROVE  (a + b) % n = 0 /\ (a - b) % n = 0
<1> DEFINE j == a \div n
           k == b \div n
<1>1. j \in Int /\ k \in Int /\ a = j * n /\ b = k * n
  BY Quotient
<1> HIDE DEF j, k
<1>2. a + b = (j + k) * n /\ a - b = (j - k) * n
  BY <1>1
<1> QED
  BY <1>1, <1>2, MultipleDivides

LEMMA Zero == ASSUME NEW n \in Nat \ {0} PROVE 0 % n = 0 /\ n % n = 0
  BY SMT

\* An index goes on by one, or back by a whole ring.
LEMMA AdvanceStep ==
  ASSUME NEW i \in Slots
  PROVE  /\ Advance(i) \in Slots
         /\ Advance(i) = i + 1 \/ Advance(i) = i + 1 - Size
  BY RxConstants DEF Slots, Advance

\* The counter goes up and down by one, or wraps.
LEMMA CountStep ==
  ASSUME NEW c \in 0 .. CountMod - 1
  PROVE  /\ (c + 1) % CountMod \in 0 .. CountMod - 1
         /\ (c + 1) % CountMod = c + 1 \/ (c + 1) % CountMod = c + 1 - CountMod
         /\ (c - 1) % CountMod \in 0 .. CountMod - 1
         /\ (c - 1) % CountMod = c - 1 \/ (c - 1) % CountMod = c - 1 + CountMod
<1>1. CountMod \in Nat \ {0} /\ CountMod > 1
  BY RxConstants
<1>2. c + 1 < CountMod => (c + 1) % CountMod = c + 1
  BY <1>1
<1>3. c + 1 = CountMod => (c + 1) % CountMod = 0
  BY <1>1, Zero
<1>4. c > 0 => (c - 1) % CountMod = c - 1
  BY <1>1
<1>5. c = 0 => (c - 1) % CountMod = CountMod - 1
  BY <1>1
<1> QED
  BY <1>1, <1>2, <1>3, <1>4, <1>5
-----------------------------------------------------------------------------
LEMMA InitIInv == Init => IInv
<1> SUFFICES ASSUME Init PROVE IInv
  OBVIOUS
<1>1. 0 \in Slots /\ 0 \in 0 .. CountMod - 1
  BY RxConstants DEF Slots
<1>2. TypeOK
  <2>1. RCREG \in Seq(Nat) /\ Len(RCREG) <= HwDepth
    BY RxConstants DEF Init
  <2>2. rxBuffer \in [Slots -> Nat]
    BY DEF Init
  <2> QED
    BY <1>1, <2>1, <2>2 DEF Init, TypeOK, PCs
<1>3. RingAligned
  <2>1. rxHead - rxTail - rxCount + Taken = 0
    BY DEF Init, Taken
  <2> QED
    BY <2>1, Zero, RxConstants DEF RingAligned
<1> QED
  BY <1>2, <1>3 DEF IInv, Flushing, Init

\* The types, and what a flush has cleared, action by action.
LEMMA StepTypeFlushing == IInv /\ [Next]_vars => TypeOK' /\ Flushing'
<1> SUFFICES ASSUME IInv, [Next]_vars PROVE TypeOK' /\ Flushing'
  OBVIOUS
<1>0. 0 \in Slots /\ 0 \in 0 .. CountMod - 1
  BY RxConstants DEF Slots
<1> USE DEF IInv, TypeOK, Flushing, ring, hw, ghost, At, PCs
<1>1. CASE Arrive
  <2>1. arrived' \in Nat
    BY <1>1 DEF Arrive
  <2>2. RCREG' \in Seq(Nat) /\ Len(RCREG') <= HwDepth
    <3>1. CASE RCREG' = RCREG
      BY <3>1
    <3>2. CASE Len(RCREG) # HwDepth /\ RCREG' = Append(RCREG, arrived')
      BY <2>1, <3>2, RxConstants
    <3> QED
      BY <1>1, <3>1, <3>2 DEF Arrive
  <2>3. OERR' \in BOOLEAN /\ lossy' \in BOOLEAN
    BY <1>1 DEF Arrive
  <2> QED
    BY <1>1, <2>1, <2>2, <2>3 DEF Arrive
<1>2. CASE ReceiveISRError
  <2>1. RCREG' \in Seq(Nat) /\ Len(RCREG') <= HwDepth
    <3>1. CASE RCREG' = RCREG
      BY <3>1
    <3>2. CASE RCREG' = <<>>
      BY <3>2, RxConstants
    <3> QED
      BY <1>2, <3>1, <3>2 DEF ReceiveISRError
  <2> QED
    BY <1>2, <2>1 DEF ReceiveISRError
<1>3. CASE ReceiveISRStore
  <2>1. /\ rxHead' \in Slots
        /\ rxCount' \in 0 .. CountMod - 1
    BY <1>3, AdvanceStep, CountStep DEF ReceiveISRStore
  <2>2. Head(RCREG) \in Nat /\ RCREG' \in Seq(Nat) /\ Len(RCREG') <= HwDepth
    BY <1>3, RxConstants DEF ReceiveISRStore
  <2>3. rxBuffer' \in [Slots -> Nat]
    BY <1>3, <2>2 DEF ReceiveISRStore
  <2>4. /\ overrun' = (rxCount' # 0 /\ (overrun \/ rxCount' > Size))
        /\ lossy' = (lossy \/ overrun')
        /\ torn' = (torn \/ pc \in {"flushTail", "flushCount"})
    BY <1>3 DEF ReceiveISRStore, NoteOverrun
  <2>5. overrun' \in BOOLEAN /\ torn' \in BOOLEAN
    BY <2>4
  <2>6. lossy' \in BOOLEAN
    BY <2>4, <2>5
  <2>7. ~torn' => pc' \notin {"flushTail", "flushCount"}
    BY <1>3, <2>4 DEF ReceiveISRStore
  <2> QED
    BY <1>3, <2>1, <2>2, <2>3, <2>5, <2>6, <2>7 DEF ReceiveISRStore
<1>4. CASE ReadCall
  BY <1>4 DEF ReadCall
<1>5. CASE ReadSpin
  BY <1>5 DEF ReadSpin
<1>6. CASE ReadMask
  BY <1>6 DEF ReadMask
<1>7. CASE ReadTake
  <2>1. rxTail' \in Slots /\ got' \in Nat
    BY <1>7, AdvanceStep DEF ReadTake
  <2> QED
    BY <1>7, <2>1 DEF ReadTake
<1>8. CASE ReadCount
  <2>1. rxCount' \in 0 .. CountMod - 1
    BY <1>8, CountStep DEF ReadCount
  <2>2. /\ overrun' = (rxCount' # 0 /\ (overrun \/ rxCount' > Size))
        /\ lossy' = (lossy \/ overrun')
    BY <1>8 DEF ReadCount, NoteOverrun
  <2>3. overrun' \in BOOLEAN
    BY <2>2
  <2>4. lossy' \in BOOLEAN
    BY <2>2, <2>3
  <2> QED
    BY <1>8, <2>1, <2>3, <2>4 DEF ReadCount
<1>9. CASE ReadUnmask
  BY <1>9 DEF ReadUnmask
<1>10. CASE Initialize
  <2>1. torn' \in BOOLEAN /\ resets' \in Nat
    BY <1>10 DEF Initialize, CountReset
  <2> QED
    BY <1>10, <1>0, <2>1 DEF Initialize
<1>11. CASE FlushHead
  <2>1. resets' \in Nat /\ rxBuffer' \in [Slots -> Nat]
    BY <1>11 DEF FlushHead, CountReset
  <2> QED
    BY <1>11, <1>0, <2>1 DEF FlushHead
<1>12. CASE FlushTail
  BY <1>12, <1>0 DEF FlushTail
<1>13. CASE FlushCount
  BY <1>13, <1>0 DEF FlushCount
<1>14. CASE UNCHANGED vars
  BY <1>14 DEF vars
<1> QED
  BY <1>1, <1>2, <1>3, <1>4, <1>5, <1>6, <1>7, <1>8, <1>9, <1>10, <1>11, <1>12,
     <1>13, <1>14 DEF Next, ReceiveISR, Read, FlushBuffer

\* Gap changes by nothing, by a ring or by a turn of the counter, or is cleared.
LEMMA StepAligned == IInv /\ [Next]_vars => RingAligned'
<1> SUFFICES ASSUME IInv, [Next]_vars, ~torn', pc' \notin {"flushTail", "flushCount"}
             PROVE  Gap' % Size = 0
  BY DEF RingAligned, Gap
<1> DEFINE Known == ~torn /\ pc \notin {"flushTail", "flushCount"}
<1>1. /\ Size \in Nat \ {0} /\ CountMod \in Nat \ {0} /\ CountMod % Size = 0
      /\ 0 % Size = 0 /\ Size % Size = 0
  BY RxConstants, Zero
<1>2. rxHead \in Int /\ rxTail \in Int /\ rxCount \in Int /\ Gap \in Int
  BY DEF IInv, TypeOK, Slots, Gap, Taken
<1>3. Known => Gap % Size = 0
  BY DEF IInv, RingAligned, Gap
<1>4. CASE Known /\ Gap' = Gap
  BY <1>3, <1>4
<1>5. CASE Known /\ Gap' \in {Gap - Size, Gap + Size, Gap + CountMod, Gap - CountMod,
                            Gap - Size + CountMod}
  <2>1. /\ (Gap - Size) % Size = 0 /\ (Gap + Size) % Size = 0
        /\ (Gap + CountMod) % Size = 0 /\ (Gap - CountMod) % Size = 0
    <3>1. Gap % Size = 0
      BY <1>3, <1>5
    <3>2. Size \in Int /\ CountMod \in Int
      BY <1>1
    <3>3. (Gap - Size) % Size = 0 /\ (Gap + Size) % Size = 0
      BY <1>1, <1>2, <3>1, <3>2, DivisibleSum
    <3>4. (Gap + CountMod) % Size = 0 /\ (Gap - CountMod) % Size = 0
      BY <1>1, <1>2, <3>1, <3>2, DivisibleSum
    <3> QED
      BY <3>3, <3>4
  <2>2. (Gap - Size + CountMod) % Size = 0
    <3>1. Gap - Size \in Int
      BY <1>1, <1>2
    <3> QED
      BY <1>1, <2>1, <3>1, DivisibleSum
  <2> QED
    BY <1>5, <2>1, <2>2
<1>6. CASE Gap' = 0
  BY <1>1, <1>6
<1>7. CASE ReceiveISRStore
  <2>1. Known /\ pc' = pc /\ rxTail' = rxTail
    BY <1>7 DEF ReceiveISRStore, IInv, TypeOK
  <2>2. rxHead' = rxHead + 1 \/ rxHead' = rxHead + 1 - Size
    BY <1>7, AdvanceStep DEF ReceiveISRStore, IInv, TypeOK
  <2>3. rxCount' = rxCount + 1 \/ rxCount' = rxCount + 1 - CountMod
    BY <1>7, CountStep DEF ReceiveISRStore, IInv, TypeOK
  <2>4. Gap' \in {Gap, Gap - Size, Gap + CountMod, Gap - Size + CountMod}
    BY <1>1, <1>2, <2>1, <2>2, <2>3 DEF Gap, Taken
  <2> QED
    BY <1>4, <1>5, <2>1, <2>4
<1>8. CASE ReadTake
  <2>1. Known /\ pc = "take" /\ pc' = "count" /\ rxHead' = rxHead /\ rxCount' = rxCount
    BY <1>8 DEF ReadTake, At, ghost
  <2>2. rxTail' = rxTail + 1 \/ rxTail' = rxTail + 1 - Size
    BY <1>8, AdvanceStep DEF ReadTake, IInv, TypeOK
  <2>3. Gap' \in {Gap, Gap + Size}
    BY <1>1, <1>2, <2>1, <2>2 DEF Gap, Taken
  <2> QED
    BY <1>4, <1>5, <2>1, <2>3
<1>9. CASE ReadCount
  <2>1. Known /\ pc = "count" /\ pc' = "unmask" /\ rxHead' = rxHead /\ rxTail' = rxTail
    BY <1>9 DEF ReadCount, At, ghost
  <2>2. rxCount' = rxCount - 1 \/ rxCount' = rxCount - 1 + CountMod
    BY <1>9, CountStep DEF ReadCount, IInv, TypeOK
  <2>3. Gap' \in {Gap, Gap - CountMod}
    BY <1>1, <1>2, <2>1, <2>2 DEF Gap, Taken
  <2> QED
    BY <1>4, <1>5, <2>1, <2>3
<1>10. CASE Initialize
  <2>1. rxHead' = 0 /\ rxTail' = 0 /\ rxCount' = 0 /\ pc' # "count"
    BY <1>10 DEF Initialize
  <2>2. Gap' = 0
    BY <2>1 DEF Gap, Taken
  <2> QED
    BY <1>6, <2>2
<1>11. CASE FlushCount
  BY <1>6, <1>11 DEF FlushCount, At, ring, ghost, IInv, Flushing, Gap, Taken
<1>12. CASE FlushHead \/ FlushTail
  BY <1>12 DEF FlushHead, FlushTail, At
<1>13. CASE \/ Arrive \/ ReceiveISRError \/ ReadCall \/ ReadSpin \/ ReadMask \/ ReadUnmask
            \/ UNCHANGED vars
  <2>1. Known /\ (pc = "count" <=> pc' = "count") /\ UNCHANGED ring
    BY <1>13 DEF Arrive, ReceiveISRError, ReadCall, ReadSpin, ReadMask, ReadUnmask, At,
                 ghost, vars
  <2> QED
    BY <1>4, <2>1 DEF ring, Gap, Taken
<1> QED
  BY <1>7, <1>8, <1>9, <1>10, <1>11, <1>12, <1>13 DEF Next, ReceiveISR, Read, FlushBuffer

LEMMA Invariance == Spec => []IInv
<1>1. IInv /\ [Next]_vars => IInv'
  BY StepTypeFlushing, StepAligned DEF IInv
<1> QED
  BY <1>1, InitIInv, PTL DEF Spec

-----------------------------------------------------------------------------
\* Whatever overflows, the indices stay inside the buffer and the counter in its
\* eight bits. (eusart.c:181-200)
THEOREM TypeCorrect == Spec => []TypeOK
<1>1. IInv => TypeOK
  BY DEF IInv
<1> QED
  BY <1>1, Invariance, PTL

\* Head, tail and count agree modulo the ring after every overrun and every wrap
\* of the counter, for every ring whose size divides the counter's modulus.
\* (eusart.c:117-137, 181-200)
THEOREM Realigned == Spec => []RingAligned
<1>1. IInv => RingAligned
  BY DEF IInv
<1> QED
  BY <1>1, Invariance, PTL

-----------------------------------------------------------------------------
(* The order in which EUSART_Read returns the bytes, and the FIFO that the *)
(* receiver implements until a byte is lost.                               *)
(*                                                                         *)
(* The counter cannot be used to say what the ring holds, because it wraps *)
(* and counts overwritten bytes.  Fresh speaks of the distance from tail   *)
(* to head instead: those bytes have not been read and are in order.  The  *)
(* counter decides only when that distance is 0, whether the ring is full  *)
(* or empty (Span).                                                        *)

\* The slot n places after i, for n up to a ring.
SlotAfter(i, n) == IF i + n < Size THEN i + n ELSE i + n - Size
FromTail(n) == rxBuffer[SlotAfter(rxTail, n)]
FromHead(n) == rxBuffer[SlotAfter(rxHead, n)]

Distance == IF rxTail <= rxHead THEN rxHead - rxTail ELSE rxHead - rxTail + Size

\* Head and tail meet although the ring is full: when it has just been filled, or when
\* the counter has wrapped between the test of EUSART_Read and its use.
Filled ==
  /\ Distance = 0
  /\ \/ rxCount = Size /\ ~overrun /\ pc # "count"
     \/ rxCount = 0 /\ pc \in {"mask", "take"}

Span == IF Filled THEN Size ELSE Distance

\* The bytes from tail to head are newer than the last one read, and in order.
Fresh ==
  /\ \A k \in 0 .. Span - 1 : got < FromTail(k)
  /\ \A j, k \in 0 .. Span - 1 : j < k => FromTail(j) < FromTail(k)

\* In an overrun, and when the counter is about to wrap backwards, the whole ring is
\* in order from its head.
Turning == overrun \/ (pc = "count" /\ rxCount = 0)
OldestFirst == \A j, k \in 0 .. Size - 1 : j < k => FromHead(j) < FromHead(k)

\* Whatever was stored or read is older than what the hardware FIFO holds.
Newest ==
  /\ \A i \in Slots : rxBuffer[i] <= arrived
  /\ got <= arrived
  /\ \A n \in 1 .. Len(RCREG) :
       /\ got < RCREG[n] /\ RCREG[n] <= arrived
       /\ \A i \in Slots : rxBuffer[i] < RCREG[n]
  /\ \A m, n \in 1 .. Len(RCREG) : m < n => RCREG[m] < RCREG[n]

Counted ==
  /\ rxCount > Size => overrun
  /\ overrun => rxCount # 0
  /\ pc \in {"take", "count"} => ~RCIE

Order ==
  ~torn /\ pc \notin {"flushTail", "flushCount"} =>
    Counted /\ Fresh /\ (Turning => OldestFirst)

\* Until a byte is lost the FIFO holds every byte that has not been read, and the
\* counter is what it seems to be.
Used == rxCount - Taken
Lossless ==
  /\ ~torn /\ ~overrun /\ ~OERR /\ pc \notin {"flushTail", "flushCount"}
  /\ pc \in {"mask", "take", "count"} => rxCount # 0
  /\ pc \in {"take", "count"} => ~RCIE
  /\ rxCount <= Size
  /\ \A k \in 0 .. Used - 1 : FromTail(k) = got + 1 + k
  /\ \A n \in 1 .. Len(RCREG) : RCREG[n] = got + Used + n
  /\ arrived = got + Used + Len(RCREG)

Tight == resets = 0 /\ ~lossy => Lossless

-----------------------------------------------------------------------------
(* Places in the ring.                                                      *)

LEMMA Ring ==
  /\ Size \in Nat /\ Size > 0
  /\ CountMod \in Nat /\ CountMod > Size + 1
  /\ HwDepth \in Nat /\ HwDepth > 0
  /\ Slots = 0 .. Size - 1
  BY RxConstants DEF Slots

LEMMA SlotInRange ==
  ASSUME NEW i \in Slots, NEW n \in 0 .. Size
  PROVE  SlotAfter(i, n) \in Slots /\ Advance(i) \in Slots
  BY Ring DEF SlotAfter, Advance

LEMMA AdvanceSlot ==
  ASSUME NEW i \in Slots, NEW n \in 0 .. Size - 1
  PROVE  SlotAfter(Advance(i), n) = SlotAfter(i, n + 1)
  BY Ring DEF SlotAfter, Advance

LEMMA SlotsDistinct ==
  ASSUME NEW i \in Slots, NEW m \in 0 .. Size - 1, NEW n \in 0 .. Size - 1, m # n
  PROVE  SlotAfter(i, m) # SlotAfter(i, n)
  BY Ring DEF SlotAfter

\* A ring later is the same slot.
LEMMA FullTurn ==
  ASSUME NEW i \in Slots
  PROVE  SlotAfter(i, 0) = i /\ SlotAfter(i, Size) = i
  BY Ring DEF SlotAfter

LEMMA HeadSlot ==
  ASSUME TypeOK
  PROVE  /\ Distance \in 0 .. Size - 1
         /\ SlotAfter(rxTail, Distance) = rxHead
         /\ Distance = 0 <=> rxHead = rxTail
  BY Ring DEF SlotAfter, Distance, TypeOK

LEMMA SmallMultiple ==
  ASSUME NEW n \in Nat \ {0}, NEW x \in Int, x % n = 0, -n <= x, x < n
  PROVE  x = 0 \/ x = -n
<1> DEFINE q == x \div n
<1>1. q \in Int /\ x = q * n
  BY Quotient
<1> HIDE DEF q
<1>2. q < 1
  <2> SUFFICES ASSUME q >= 1 PROVE FALSE
    BY <1>1
  <2>1. q * n >= n
    BY <1>1
  <2> QED
    BY <1>1, <2>1
<1>3. q > -2
  <2> SUFFICES ASSUME q <= -2 PROVE FALSE
    BY <1>1
  <2>1. q * n <= (-2) * n
    BY <1>1
  <2> QED
    BY <1>1, <2>1
<1>4. q = 0 \/ q = -1
  BY <1>1, <1>2, <1>3
<1> QED
  BY <1>1, <1>4

\* A count of at most a ring is the distance, but for the full ring.
LEMMA CountIsDistance ==
  ASSUME IInv, ~torn, pc \notin {"flushTail", "flushCount"}, Used \in 0 .. Size
  PROVE  IF Used = Size THEN Distance = 0 ELSE Distance = Used
<1>1. TypeOK /\ Distance \in 0 .. Size - 1
  BY HeadSlot DEF IInv
<1>2. Distance = rxHead - rxTail \/ Distance = rxHead - rxTail + Size
  BY DEF Distance
<1>3. rxHead \in Int /\ rxTail \in Int /\ rxCount \in Int /\ Taken \in Int
  BY <1>1, Ring DEF TypeOK, Taken
<1>4. (rxHead - rxTail - Used) % Size = 0
  <2>1. rxHead - rxTail - Used = rxHead - rxTail - rxCount + Taken
    BY <1>3 DEF Used
  <2> QED
    BY <2>1 DEF IInv, RingAligned
<1>5. (Distance - Used) % Size = 0
  <2>1. (rxHead - rxTail - Used + Size) % Size = 0
    <3>1. rxHead - rxTail - Used \in Int /\ Size \in Int /\ Size \in Nat \ {0}
      BY <1>3, Ring
    <3> HIDE DEF Used
    <3> QED
      BY <1>4, <3>1, Zero, DivisibleSum
  <2>2. \/ Distance - Used = rxHead - rxTail - Used
        \/ Distance - Used = rxHead - rxTail - Used + Size
    BY <1>2, <1>3, Ring
  <2> QED
    BY <1>4, <2>1, <2>2
<1>6. Distance - Used \in Int /\ -Size <= Distance - Used /\ Distance - Used < Size
  BY <1>1, Ring
<1>7. Distance - Used = 0 \/ Distance - Used = -Size
  BY <1>5, <1>6, SmallMultiple, RxConstants
<1> QED
  BY <1>1, <1>7, Ring

-----------------------------------------------------------------------------
(* Bytes are stored in the order in which they arrived.                     *)

LEMMA InitNewest == Init => Newest
  BY RxConstants DEF Init, Newest, Slots

LEMMA StepNewest == TypeOK /\ Newest /\ [Next]_vars => Newest'
<1> SUFFICES ASSUME TypeOK, Newest, [Next]_vars PROVE Newest'
  OBVIOUS
<1>t. /\ RCREG \in Seq(Nat) /\ rxBuffer \in [Slots -> Nat] /\ arrived \in Nat /\ got \in Nat
      /\ rxTail \in Slots /\ rxHead \in Slots
  BY DEF TypeOK
<1>b. \A i \in Slots : rxBuffer[i] \in Nat /\ rxBuffer[i] <= arrived
  BY <1>t DEF Newest
<1>r. \A n \in 1 .. Len(RCREG) :
        /\ RCREG[n] \in Nat /\ got < RCREG[n] /\ RCREG[n] <= arrived
        /\ \A i \in Slots : rxBuffer[i] < RCREG[n]
  BY <1>t DEF Newest
<1>s. \A m, n \in 1 .. Len(RCREG) : m < n => RCREG[m] < RCREG[n]
  BY DEF Newest
<1>g. got <= arrived
  BY DEF Newest
<1>1. CASE Arrive
  <2>1. /\ arrived' = arrived + 1 /\ rxBuffer' = rxBuffer /\ got' = got
        /\ RCREG' = RCREG \/ RCREG' = Append(RCREG, arrived')
    BY <1>1 DEF Arrive, ring
  <2>2. CASE RCREG' = RCREG
    BY <1>t, <1>b, <1>r, <1>s, <1>g, <2>1, <2>2 DEF Newest
  <2>3. CASE RCREG' = Append(RCREG, arrived')
    <3>1. /\ Len(RCREG') = Len(RCREG) + 1 /\ RCREG'[Len(RCREG) + 1] = arrived + 1
          /\ \A n \in 1 .. Len(RCREG) : RCREG'[n] = RCREG[n]
      BY <1>t, <2>1, <2>3
    <3>2. \A n \in 1 .. Len(RCREG') : n \in 1 .. Len(RCREG) \/ n = Len(RCREG) + 1
      BY <1>t, <3>1
    <3>3. (\A i \in Slots : rxBuffer'[i] <= arrived') /\ got' <= arrived'
      BY <1>t, <1>b, <1>g, <2>1
    <3>4. ASSUME NEW n \in 1 .. Len(RCREG')
          PROVE  /\ got' < RCREG'[n] /\ RCREG'[n] <= arrived'
                 /\ \A i \in Slots : rxBuffer'[i] < RCREG'[n]
      <4>1. CASE n \in 1 .. Len(RCREG)
        <5>1. RCREG'[n] = RCREG[n] /\ RCREG[n] <= arrived /\ RCREG[n] \in Nat
          BY <1>r, <3>1, <4>1
        <5>2. got < RCREG[n] /\ \A i \in Slots : rxBuffer[i] < RCREG[n]
          BY <1>r, <4>1
        <5> QED
          BY <1>t, <2>1, <5>1, <5>2
      <4>2. CASE n = Len(RCREG) + 1
        BY <1>t, <1>b, <1>g, <2>1, <3>1, <4>2
      <4> QED
        BY <3>2, <4>1, <4>2
    <3>5. ASSUME NEW m \in 1 .. Len(RCREG'), NEW n \in 1 .. Len(RCREG'), m < n
          PROVE  RCREG'[m] < RCREG'[n]
      <4>1. m \in 1 .. Len(RCREG)
        BY <1>t, <3>1, <3>2, <3>5
      <4>2. CASE n \in 1 .. Len(RCREG)
        BY <1>s, <3>1, <3>5, <4>1, <4>2
      <4>3. CASE n = Len(RCREG) + 1
        <5>1. RCREG'[m] = RCREG[m] /\ RCREG[m] <= arrived /\ RCREG[m] \in Nat
          BY <1>r, <3>1, <4>1
        <5>2. RCREG'[n] = arrived + 1
          BY <3>1, <4>3
        <5> QED
          BY <1>t, <5>1, <5>2
      <4> QED
        BY <3>2, <4>2, <4>3
    <3> QED
      BY <3>3, <3>4, <3>5 DEF Newest
  <2> QED
    BY <2>1, <2>2, <2>3
<1>2. CASE ReceiveISRError
  <2>1. /\ rxBuffer' = rxBuffer /\ got' = got /\ arrived' = arrived
        /\ RCREG' = RCREG \/ RCREG' = <<>>
    BY <1>2 DEF ReceiveISRError, ring
  <2>2. CASE RCREG' = RCREG
    BY <2>1, <2>2 DEF Newest
  <2>3. CASE RCREG' = <<>>
    BY <1>b, <1>g, <2>1, <2>3 DEF Newest
  <2> QED
    BY <2>1, <2>2, <2>3
<1>3. CASE ReceiveISRStore
  <2>1. /\ got' = got /\ arrived' = arrived /\ RCREG # <<>> /\ RCREG' = Tail(RCREG)
        /\ rxBuffer' = [rxBuffer EXCEPT ![rxHead] = Head(RCREG)]
    BY <1>3 DEF ReceiveISRStore
  <2>2. /\ Len(RCREG) \in Nat /\ Len(RCREG) > 0 /\ Len(RCREG') = Len(RCREG) - 1
        /\ Head(RCREG) = RCREG[1]
        /\ \A n \in 1 .. Len(RCREG') : RCREG'[n] = RCREG[n + 1]
    BY <1>t, <2>1
  <2>3. \A i \in Slots : rxBuffer'[i] = RCREG[1] \/ rxBuffer'[i] = rxBuffer[i]
    BY <1>t, <2>1, <2>2
  <2>4. \A i \in Slots : rxBuffer'[i] <= arrived'
    BY <1>b, <1>r, <2>1, <2>2, <2>3
  <2>5. ASSUME NEW n \in 1 .. Len(RCREG')
        PROVE  /\ got' < RCREG'[n] /\ RCREG'[n] <= arrived'
               /\ \A i \in Slots : rxBuffer'[i] < RCREG'[n]
    <3>1. n + 1 \in 1 .. Len(RCREG) /\ 1 \in 1 .. Len(RCREG) /\ 1 < n + 1
      BY <2>2
    <3>2. RCREG'[n] = RCREG[n + 1] /\ RCREG[1] < RCREG[n + 1]
      BY <1>s, <2>2, <3>1
    <3> QED
      BY <1>r, <2>1, <2>3, <3>1, <3>2
  <2>6. ASSUME NEW m \in 1 .. Len(RCREG'), NEW n \in 1 .. Len(RCREG'), m < n
        PROVE  RCREG'[m] < RCREG'[n]
    <3>1. m + 1 \in 1 .. Len(RCREG) /\ n + 1 \in 1 .. Len(RCREG) /\ m + 1 < n + 1
      BY <2>2, <2>6
    <3> QED
      BY <1>s, <2>2, <3>1
  <2> QED
    BY <1>g, <2>1, <2>4, <2>5, <2>6 DEF Newest
<1>4. CASE ReadTake
  <2>1. UNCHANGED <<rxBuffer, RCREG, arrived>> /\ got' = rxBuffer[rxTail]
    BY <1>4 DEF ReadTake, hw
  <2> QED
    BY <1>t, <1>b, <1>r, <1>s, <2>1 DEF Newest
<1>5. CASE FlushHead
  <2>1. /\ got' = got /\ RCREG' = RCREG /\ arrived' = arrived
        /\ rxBuffer' = [i \in Slots |-> 0]
    BY <1>5 DEF FlushHead, hw
  <2>2. \A i \in Slots : rxBuffer'[i] = 0
    BY <2>1
  <2>3. \A n \in 1 .. Len(RCREG) : 0 < RCREG[n]
    BY <1>t, <1>r
  <2> QED
    BY <1>t, <1>r, <1>s, <1>g, <2>1, <2>2, <2>3 DEF Newest
<1>6. CASE \/ ReadCall \/ ReadSpin \/ ReadMask \/ ReadCount \/ ReadUnmask
           \/ Initialize \/ FlushTail \/ FlushCount \/ UNCHANGED vars
  <2>1. UNCHANGED <<rxBuffer, RCREG, arrived, got>>
    BY <1>6 DEF ReadCall, ReadSpin, ReadMask, ReadCount, ReadUnmask, Initialize,
                FlushTail, FlushCount, vars, ring, hw
  <2> QED
    BY <2>1 DEF Newest
<1> QED
  BY <1>1, <1>2, <1>3, <1>4, <1>5, <1>6 DEF Next, ReceiveISR, Read, FlushBuffer

LEMMA NewestInvariance == Spec => []Newest
<1>1. IInv => TypeOK
  BY DEF IInv
<1>2. IInv /\ Newest /\ [Next]_vars => Newest'
  BY StepNewest DEF IInv
<1> QED
  BY <1>2, InitNewest, Invariance, PTL DEF Spec

-----------------------------------------------------------------------------
(* What the ring holds.                                                     *)

\* The types, once, in the form the steps need.
LEMMA Types ==
  ASSUME TypeOK
  PROVE  /\ rxHead \in Slots /\ rxTail \in Slots /\ rxBuffer \in [Slots -> Nat]
         /\ rxCount \in 0 .. CountMod - 1 /\ rxCount \in Nat /\ got \in Nat
         /\ pc \in PCs /\ overrun \in BOOLEAN /\ Distance \in 0 .. Size - 1
  BY HeadSlot, Ring DEF TypeOK

LEMMA SpanCovers ==
  ASSUME TypeOK
  PROVE  Span \in 0 .. Size /\ Distance <= Span
  BY Types, Ring DEF Span

LEMMA ByteTypes ==
  ASSUME TypeOK, NEW k \in 0 .. Size
  PROVE  FromTail(k) \in Nat /\ FromHead(k) \in Nat
  BY SlotInRange, Types DEF FromTail, FromHead

LEMMA Subrange ==
  ASSUME NEW m \in Int, NEW n \in Int, m <= n
  PROVE  \A k \in 0 .. m - 1 : k \in 0 .. n - 1 /\ k \in 0 .. n
  OBVIOUS

LEMMA Below ==
  ASSUME NEW m \in Int, NEW n \in Int, m <= n + 1
  PROVE  \A k \in 0 .. m - 1 : k \in 0 .. n /\ (k \in 0 .. n - 1 \/ k = n)
  OBVIOUS

\* A step that leaves the ring alone.
LEMMA SameRing ==
  ASSUME TypeOK, UNCHANGED ring, got' = got, Fresh, Span' <= Span, Span' \in 0 .. Size
  PROVE  Fresh'
<1>1. \A k \in 0 .. Size : FromTail(k)' = FromTail(k)
  BY DEF FromTail, SlotAfter, ring
<1>2. \A k \in 0 .. Span' - 1 : k \in 0 .. Span - 1 /\ k \in 0 .. Size
  <2>1. Span \in Int /\ Span' \in Int /\ Span' <= Span /\ Span' <= Size /\ Size \in Int
    BY SpanCovers, Ring
  <2> QED
    BY <2>1, Subrange
<1>3. \A k \in 0 .. Span' - 1 : got' < FromTail(k)'
  BY <1>1, <1>2 DEF Fresh
<1>4. \A j, k \in 0 .. Span' - 1 : j < k => FromTail(j)' < FromTail(k)'
  BY <1>1, <1>2 DEF Fresh
<1> QED
  BY <1>3, <1>4 DEF Fresh

\* A cleared ring holds nothing that has not been read.
LEMMA Cleared ==
  ASSUME rxHead' = 0, rxTail' = 0, rxCount' = 0, overrun' = FALSE,
         pc' \notin {"mask", "take", "count"}
  PROVE  Counted' /\ Fresh' /\ ~Turning'
<1>1. Distance' = 0 /\ ~Filled'
  BY Ring DEF Distance, Filled
<1>2. Span' = 0
  BY <1>1 DEF Span
<1> QED
  BY <1>2, Ring DEF Counted, Fresh, Turning

\* Where a byte stored at the head is seen from the tail and from the new head.
LEMMA Stored ==
  ASSUME TypeOK, ReceiveISRStore
  PROVE  /\ Distance' = IF Distance = Size - 1 THEN 0 ELSE Distance + 1
         /\ \A k \in 0 .. Size - 1 : k = Distance => FromTail(k)' = Head(RCREG)
         /\ \A k \in 0 .. Size - 1 : k < Distance => FromTail(k)' = FromTail(k)
         /\ \A k \in 0 .. Size - 1 :
              FromHead(k)' = IF k = Size - 1 THEN Head(RCREG) ELSE FromHead(k + 1)
<1>1. /\ rxTail' = rxTail /\ rxHead' = Advance(rxHead)
      /\ rxBuffer' = [rxBuffer EXCEPT ![rxHead] = Head(RCREG)]
  BY DEF ReceiveISRStore
<1>2. /\ rxHead \in Slots /\ rxTail \in Slots /\ Distance \in 0 .. Size - 1
      /\ rxBuffer \in [Slots -> Nat] /\ SlotAfter(rxTail, Distance) = rxHead
  BY HeadSlot, Types
<1>3. \A i \in Slots : rxBuffer'[i] = IF i = rxHead THEN Head(RCREG) ELSE rxBuffer[i]
  BY <1>1, <1>2
<1>4. Distance' = IF Distance = Size - 1 THEN 0 ELSE Distance + 1
  <2>1. rxHead \in 0 .. Size - 1 /\ rxTail \in 0 .. Size - 1
    BY <1>2, Ring
  <2> QED
    BY <1>1, <2>1, Ring DEF Distance, Advance
<1>5. ASSUME NEW k \in 0 .. Size - 1
      PROVE  FromTail(k)' = IF SlotAfter(rxTail, k) = rxHead THEN Head(RCREG) ELSE FromTail(k)
  <2>1. FromTail(k)' = rxBuffer'[SlotAfter(rxTail, k)]
    BY <1>1 DEF FromTail, SlotAfter
  <2>2. SlotAfter(rxTail, k) \in Slots
    <3>1. k \in 0 .. Size
      BY Ring
    <3> QED
      BY <1>2, <3>1, SlotInRange
  <2> QED
    BY <1>3, <2>1, <2>2 DEF FromTail
<1>6. \A k \in 0 .. Size - 1 : k = Distance => FromTail(k)' = Head(RCREG)
  BY <1>2, <1>5
<1>7. ASSUME NEW k \in 0 .. Size - 1, k < Distance
      PROVE  FromTail(k)' = FromTail(k)
  <2>1. SlotAfter(rxTail, k) # SlotAfter(rxTail, Distance)
    <3>1. k # Distance
      BY <1>2, <1>7
    <3> HIDE DEF Distance
    <3> QED
      BY <1>2, <3>1, SlotsDistinct
  <2> QED
    BY <1>2, <1>5, <2>1
<1>8. ASSUME NEW k \in 0 .. Size - 1
      PROVE  FromHead(k)' = IF k = Size - 1 THEN Head(RCREG) ELSE FromHead(k + 1)
  <2>1. FromHead(k)' = rxBuffer'[SlotAfter(Advance(rxHead), k)]
    BY <1>1 DEF FromHead, SlotAfter
  <2>2. SlotAfter(Advance(rxHead), k) = SlotAfter(rxHead, k + 1)
    BY <1>2, AdvanceSlot
  <2>3. CASE k = Size - 1
    <3>1. SlotAfter(rxHead, k + 1) = rxHead
      BY <1>2, <2>3, FullTurn, Ring
    <3> QED
      BY <1>2, <1>3, <2>1, <2>2, <2>3, <3>1
  <2>4. CASE k # Size - 1
    <3>1. 0 \in 0 .. Size - 1 /\ k + 1 \in 0 .. Size - 1 /\ k + 1 # 0 /\ k + 1 \in 0 .. Size
      BY <2>4, Ring
    <3>2. SlotAfter(rxHead, k + 1) # SlotAfter(rxHead, 0)
      BY <1>2, <3>1, SlotsDistinct
    <3>3. SlotAfter(rxHead, k + 1) # rxHead /\ SlotAfter(rxHead, k + 1) \in Slots
      BY <1>2, <3>1, <3>2, FullTurn, SlotInRange
    <3> QED
      BY <1>3, <2>1, <2>2, <2>4, <3>3 DEF FromHead
  <2> QED
    BY <2>3, <2>4
<1> QED
  BY <1>4, <1>6, <1>7, <1>8

LEMMA InitOrder == Init => Order
<1> SUFFICES ASSUME Init PROVE Counted /\ Fresh /\ ~Turning
  BY DEF Order
<1>1. Distance = 0 /\ ~Filled
  BY Ring DEF Init, Distance, Filled
<1>2. Span = 0
  BY <1>1 DEF Span
<1> QED
  BY <1>2, Ring DEF Init, Counted, Fresh, Turning

\* A stored byte is the newest of all, and the interrupt is off while EUSART_Read
\* moves the tail.
LEMMA StoreOrder ==
  ASSUME IInv, Newest, Counted, Fresh, Turning => OldestFirst, ReceiveISRStore,
         ~torn, pc \notin {"flushTail", "flushCount"}
  PROVE  Counted' /\ Fresh' /\ (Turning' => OldestFirst')
<1>t. TypeOK
  BY DEF IInv
<1>1. /\ RCIE /\ RCIE' = RCIE /\ pc' = pc /\ got' = got /\ rxTail' = rxTail
      /\ rxCount' = (rxCount + 1) % CountMod
      /\ overrun' = (rxCount' # 0 /\ (overrun \/ rxCount' > Size))
  BY DEF ReceiveISRStore, NoteOverrun
<1>2. /\ Head(RCREG) \in Nat /\ got < Head(RCREG)
      /\ \A i \in Slots : rxBuffer[i] < Head(RCREG)
  <2>1. RCREG \in Seq(Nat) /\ RCREG # <<>>
    BY <1>t DEF ReceiveISRStore, TypeOK
  <2>2. Head(RCREG) = RCREG[1] /\ 1 \in 1 .. Len(RCREG) /\ RCREG[1] \in Nat
    BY <2>1
  <2> QED
    BY <2>2 DEF Newest
<1>3. \A k \in 0 .. Size : /\ FromTail(k) \in Nat /\ FromHead(k) \in Nat
                           /\ FromTail(k) < Head(RCREG) /\ FromHead(k) < Head(RCREG)
  <2>1. \A k \in 0 .. Size : SlotAfter(rxTail, k) \in Slots /\ SlotAfter(rxHead, k) \in Slots
    BY <1>t, Types, SlotInRange
  <2>2. \A k \in 0 .. Size : FromTail(k) \in Nat /\ FromHead(k) \in Nat
    BY <1>t, ByteTypes
  <2> QED
    BY <1>2, <2>1, <2>2 DEF FromTail, FromHead
<1>4. Counted'
  <2>1. rxCount' \in 0 .. CountMod - 1
    BY <1>t, <1>1, Types, CountStep
  <2>2. rxCount' > Size => rxCount' # 0
    BY <2>1, Ring
  <2>3. (rxCount' > Size => overrun') /\ (overrun' => rxCount' # 0)
    BY <1>1, <2>2
  <2> QED
    BY <1>1, <2>3 DEF Counted
<1>5. Span' \in 0 .. Distance + 1
  <2>1. Distance \in 0 .. Size - 1
    BY <1>t, HeadSlot
  <2>2. Distance' = IF Distance = Size - 1 THEN 0 ELSE Distance + 1
    BY <1>t, Stored
  <2>3. CASE Filled'
    BY <2>1, <2>2, <2>3, Ring DEF Span, Filled
  <2>4. CASE ~Filled'
    BY <2>1, <2>2, <2>4, Ring DEF Span
  <2> QED
    BY <2>3, <2>4
<1>6. Fresh'
  <2>1. \A k \in 0 .. Distance : k \in 0 .. Size - 1 /\ k \in 0 .. Size
    BY <1>t, HeadSlot, Ring
  <2>2. \A k \in 0 .. Distance - 1 : k \in 0 .. Span - 1 /\ k \in 0 .. Distance
    BY <1>t, HeadSlot, SpanCovers, Ring
  <2>3. \A k \in 0 .. Distance - 1 : FromTail(k)' = FromTail(k) /\ got < FromTail(k)
    BY <1>t, <2>1, <2>2, Stored, HeadSlot DEF Fresh
  <2>4. \A k \in 0 .. Distance : k = Distance => FromTail(k)' = Head(RCREG)
    BY <1>t, <2>1, Stored
  <2>5. \A k \in 0 .. Span' - 1 : k \in 0 .. Distance /\ (k \in 0 .. Distance - 1 \/ k = Distance)
    <3>1. Distance \in Int /\ Span' \in Int /\ Span' <= Distance + 1
      BY <1>t, <1>5, HeadSlot, Ring
    <3> QED
      BY <3>1, Below
  <2>6. \A k \in 0 .. Span' - 1 : got' < FromTail(k)'
    BY <1>1, <1>2, <2>3, <2>4, <2>5
  <2>7. ASSUME NEW j \in 0 .. Span' - 1, NEW k \in 0 .. Span' - 1, j < k
        PROVE  FromTail(j)' < FromTail(k)'
    <3>1. j \in 0 .. Distance - 1 /\ j \in 0 .. Size
      BY <1>t, <2>1, <2>5, <2>7, HeadSlot
    <3>2. CASE k \in 0 .. Distance - 1
      BY <2>2, <2>3, <2>7, <3>1, <3>2 DEF Fresh
    <3>3. CASE k = Distance
      BY <1>3, <2>3, <2>4, <2>5, <3>1, <3>3
    <3> QED
      BY <2>5, <3>2, <3>3
  <2> QED
    BY <2>6, <2>7 DEF Fresh
<1>7. ASSUME Turning' PROVE OldestFirst'
  <2>1. overrun'
    BY <1>1, <1>7 DEF Turning, Counted
  <2>2. OldestFirst
    <3>1. CASE overrun
      BY <3>1 DEF Turning
    <3>2. CASE ~overrun
      <4>1. rxCount <= Size /\ rxCount' > Size /\ rxCount \in 0 .. CountMod - 1
        BY <1>t, <1>1, <2>1, <3>2, Types, Ring, SMTT(30) DEF Counted
      <4>2. rxCount' = rxCount + 1 \/ rxCount' = rxCount + 1 - CountMod
        BY <1>1, <4>1, CountStep
      <4>3. rxCount = Size
        BY <4>1, <4>2, Ring
      <4>4. pc # "count" /\ Used = Size
        BY <1>1, <4>3, Ring DEF Counted, Used, Taken
      <4>5. Distance = 0
        BY <4>4, CountIsDistance, Ring
      <4>6. Span = Size /\ rxHead = rxTail
        BY <1>t, <3>2, <4>3, <4>4, <4>5, HeadSlot DEF Span, Filled
      <4> QED
        BY <4>6 DEF Fresh, OldestFirst, FromHead, FromTail
    <3> QED
      BY <3>1, <3>2
  <2>3. ASSUME NEW j \in 0 .. Size - 1, NEW k \in 0 .. Size - 1, j < k
        PROVE  FromHead(j)' < FromHead(k)'
    <3>1. /\ j + 1 \in 0 .. Size - 1 /\ j + 1 \in 0 .. Size /\ j # Size - 1
          /\ \/ k = Size - 1
             \/ k + 1 \in 0 .. Size - 1 /\ j + 1 < k + 1 /\ k # Size - 1
      BY <2>3, Ring
    <3>2. FromHead(j)' = FromHead(j + 1)
      BY <1>t, <3>1, Stored
    <3>3. CASE k = Size - 1
      BY <1>t, <1>3, <3>1, <3>2, <3>3, Stored
    <3>4. CASE k + 1 \in 0 .. Size - 1 /\ j + 1 < k + 1 /\ k # Size - 1
      <4>1. FromHead(k)' = FromHead(k + 1)
        BY <1>t, <3>4, Stored
      <4> QED
        BY <2>2, <3>1, <3>2, <3>4, <4>1 DEF OldestFirst
    <3> QED
      BY <3>1, <3>3, <3>4
  <2> QED
    BY <2>3 DEF OldestFirst
<1> QED
  BY <1>4, <1>6, <1>7

\* EUSART_Read takes the byte at the tail and leaves the others where they are.
LEMMA TakeOrder ==
  ASSUME IInv, Counted, Fresh, Turning => OldestFirst, ReadTake,
         ~torn, pc \notin {"flushTail", "flushCount"}
  PROVE  Counted' /\ Fresh' /\ (Turning' => OldestFirst') /\ (~overrun => Span > 0)
<1>t. TypeOK
  BY DEF IInv
<1>1. /\ pc = "take" /\ pc' = "count" /\ UNCHANGED <<RCIE, rxHead, rxBuffer, rxCount, overrun>>
      /\ got' = rxBuffer[rxTail] /\ rxTail' = Advance(rxTail)
  BY DEF ReadTake, At
<1>2. /\ rxHead \in 0 .. Size - 1 /\ rxTail \in 0 .. Size - 1 /\ rxTail \in Slots
      /\ rxCount \in Nat /\ Distance \in 0 .. Size - 1 /\ (Distance = 0 <=> rxHead = rxTail)
  BY <1>t, Types, HeadSlot, Ring
<1>3. Counted'
  BY <1>1 DEF Counted
\* Either the whole ring is in order from the tail, or what is left is Fresh.
<1>4. CASE Distance = 0
  <2>1. ~overrun => Span = Size
    <3> SUFFICES ASSUME ~overrun PROVE Span = Size
      OBVIOUS
    <3>1. Used = rxCount /\ Used \in 0 .. Size
      BY <1>1, <1>2, Ring DEF Used, Taken, Counted
    <3>2. Used = Size \/ Used = 0
      BY <1>4, <3>1, CountIsDistance
    <3> QED
      BY <1>1, <1>4, <3>1, <3>2 DEF Span, Filled
  <2>2. \A j, k \in 0 .. Size - 1 : j < k => FromTail(j) < FromTail(k)
    <3>1. CASE overrun
      <4>1. rxHead = rxTail /\ OldestFirst
        BY <1>2, <1>4, <3>1 DEF Turning
      <4> QED
        BY <4>1 DEF OldestFirst, FromHead, FromTail
    <3>2. CASE ~overrun
      BY <2>1, <3>2 DEF Fresh
    <3> QED
      BY <3>1, <3>2
  <2>3. OldestFirst'
    <3>1. \A k \in 0 .. Size - 1 : FromHead(k)' = FromTail(k)
      BY <1>1, <1>2, <1>4 DEF FromHead, FromTail, SlotAfter
    <3> QED
      BY <2>2, <3>1 DEF OldestFirst
  <2>4. Distance' = Size - 1
    BY <1>1, <1>2, <1>4, Ring DEF Distance, Advance
  <2>5. Span' = Size - 1
    BY <1>1, <2>4, Ring DEF Span, Filled
  <2>6. Fresh'
    <3>1. \A k \in 0 .. Size - 2 : FromTail(k)' = FromTail(k + 1)
      BY <1>1, <1>2, AdvanceSlot, Ring DEF FromTail, SlotAfter
    <3>2. got' = FromTail(0)
      BY <1>1, <1>2, FullTurn DEF FromTail
    <3>3. \A k \in 0 .. Size - 2 : k + 1 \in 0 .. Size - 1 /\ 0 \in 0 .. Size - 1 /\ 0 < k + 1
      BY Ring
    <3>4. \A k \in 0 .. Size - 2 : got' < FromTail(k)'
      BY <2>2, <3>1, <3>2, <3>3
    <3>5. \A j, k \in 0 .. Size - 2 : j < k => FromTail(j)' < FromTail(k)'
      BY <2>2, <3>1, <3>3
    <3>6. 0 .. Span' - 1 = 0 .. Size - 2
      BY <2>5, Ring
    <3> QED
      BY <3>4, <3>5, <3>6 DEF Fresh
  <2> QED
    BY <1>3, <2>1, <2>3, <2>6, Ring
<1>5. CASE Distance > 0
  <2>1. Distance' = Distance - 1
    BY <1>1, <1>2, <1>5, Ring DEF Distance, Advance
  <2>2. Span' = Distance - 1
    BY <1>1, <2>1, Ring DEF Span, Filled
  <2>3. Fresh'
    <3>1. \A k \in 0 .. Distance - 2 :
            /\ k \in 0 .. Size - 1 /\ k + 1 \in 0 .. Span - 1 /\ 0 \in 0 .. Span - 1 /\ 0 < k + 1
      BY <1>t, <1>2, SpanCovers, Ring
    <3>2. \A k \in 0 .. Size - 1 : FromTail(k)' = FromTail(k + 1)
      BY <1>1, <1>2, AdvanceSlot DEF FromTail, SlotAfter
    <3>3. got' = FromTail(0)
      BY <1>1, <1>2, FullTurn DEF FromTail
    <3>4. \A k \in 0 .. Distance - 2 : got' < FromTail(k)'
      BY <3>1, <3>2, <3>3 DEF Fresh
    <3>5. \A j, k \in 0 .. Distance - 2 : j < k => FromTail(j)' < FromTail(k)'
      BY <3>1, <3>2 DEF Fresh
    <3>6. 0 .. Span' - 1 = 0 .. Distance - 2
      BY <1>2, <2>2
    <3> QED
      BY <3>4, <3>5, <3>6 DEF Fresh
  <2>4. Turning' => OldestFirst'
    <3> SUFFICES ASSUME Turning' PROVE OldestFirst'
      OBVIOUS
    <3>1. overrun
      <4> SUFFICES ASSUME ~overrun PROVE FALSE
        OBVIOUS
      <4>1. rxCount = 0
        BY <1>1 DEF Turning
      <4>2. Used = 0 /\ Used \in 0 .. Size /\ Used # Size
        BY <1>1, <4>1, Ring DEF Used, Taken
      <4> QED
        BY <1>5, <4>2, CountIsDistance
    <3>2. OldestFirst
      BY <3>1 DEF Turning
    <3> QED
      BY <1>1, <3>2 DEF OldestFirst, FromHead, SlotAfter
  <2>5. Span > 0
    BY <1>t, <1>2, <1>5, SpanCovers, Ring
  <2> QED
    BY <1>3, <2>3, <2>4, <2>5
<1> QED
  BY <1>2, <1>4, <1>5

\* The count comes down after the tail: the distance has been the smaller one.
LEMMA CountOrder ==
  ASSUME IInv, Counted, Fresh, Turning => OldestFirst, ReadCount
  PROVE  Counted' /\ Fresh' /\ (Turning' => OldestFirst')
<1>t. TypeOK /\ rxCount \in 0 .. CountMod - 1 /\ Distance \in 0 .. Size - 1
  BY Types DEF IInv
<1>1. /\ pc = "count" /\ pc' = "unmask" /\ got' = got
      /\ UNCHANGED <<RCIE, rxHead, rxTail, rxBuffer>>
      /\ rxCount' = (rxCount - 1) % CountMod
      /\ overrun' = (rxCount' # 0 /\ (overrun \/ rxCount' > Size))
  BY DEF ReadCount, At, NoteOverrun
<1>2. /\ rxCount' \in 0 .. CountMod - 1
      /\ \/ rxCount' = rxCount - 1
         \/ rxCount = 0 /\ rxCount' = CountMod - 1
  <2>1. rxCount' \in 0 .. CountMod - 1
    BY <1>t, <1>1, CountStep
  <2>2. rxCount' = rxCount - 1 \/ rxCount' = rxCount - 1 + CountMod
    BY <1>t, <1>1, CountStep
  <2> QED
    BY <1>t, <2>1, <2>2, Ring
<1>3. rxCount' > Size => rxCount > Size \/ rxCount = 0
  BY <1>t, <1>2, Ring
<1>4. Counted'
  <2>1. rxCount' > Size => rxCount' # 0
    BY <1>2, Ring
  <2>2. (rxCount' > Size => overrun') /\ (overrun' => rxCount' # 0)
    BY <1>1, <2>1
  <2> QED
    BY <1>1, <2>2 DEF Counted
<1>5. ~Filled'
  <2> SUFFICES ASSUME rxCount' = Size, ~overrun' PROVE FALSE
    BY <1>1 DEF Filled
  <2>0. rxCount' # 0
    BY Ring
  <2>1. ~overrun
    BY <1>1, <2>0
  <2>2. rxCount > Size
    BY <1>t, <1>2, Ring
  <2> QED
    BY <2>1, <2>2 DEF Counted
<1>6. Span' = Distance /\ Span = Distance
  <2>1. Distance' = Distance
    BY <1>1 DEF Distance
  <2> QED
    BY <1>1, <1>5, <2>1, <1>t DEF Span, Filled
<1>7. Fresh'
  <2>1. \A k \in 0 .. Size : FromTail(k)' = FromTail(k)
    BY <1>1 DEF FromTail, SlotAfter
  <2>2. \A k \in 0 .. Distance - 1 : k \in 0 .. Size
    BY <1>t, Ring
  <2> QED
    BY <1>1, <1>6, <2>1, <2>2 DEF Fresh
<1>8. Turning' => OldestFirst'
  <2> SUFFICES ASSUME Turning' PROVE OldestFirst'
    OBVIOUS
  <2>1. overrun \/ rxCount' > Size
    BY <1>1 DEF Turning
  <2>2. Turning
    BY <1>1, <1>3, <2>1 DEF Turning, Counted
  <2> QED
    BY <1>1, <2>2 DEF OldestFirst, FromHead, SlotAfter
<1> QED
  BY <1>4, <1>7, <1>8

LEMMA StepOrder == IInv /\ Newest /\ Order /\ [Next]_vars => Order'
<1> SUFFICES ASSUME IInv, Newest, Order, [Next]_vars,
                    ~torn', pc' \notin {"flushTail", "flushCount"}
             PROVE  Counted' /\ Fresh' /\ (Turning' => OldestFirst')
  BY DEF Order
<1> DEFINE Known == ~torn /\ pc \notin {"flushTail", "flushCount"}
<1>t. TypeOK
  BY DEF IInv
<1>k. Known => Counted /\ Fresh /\ (Turning => OldestFirst)
  BY DEF Order
<1>1. CASE ReceiveISRStore
  <2>1. Known
    BY <1>1 DEF ReceiveISRStore
  <2> QED
    BY <1>1, <1>k, <2>1, StoreOrder
<1>2. CASE ReadTake
  <2>1. Known
    BY <1>2 DEF ReadTake, At, ghost
  <2> QED
    BY <1>2, <1>k, <2>1, TakeOrder
<1>3. CASE ReadCount
  <2>1. Known
    BY <1>3 DEF ReadCount, At, ghost
  <2> QED
    BY <1>3, <1>k, <2>1, CountOrder
<1>4. CASE Initialize
  <2>1. pc' \notin {"mask", "take", "count"}
    BY <1>4 DEF Initialize
  <2> QED
    BY <1>4, <2>1, Cleared DEF Initialize
<1>5. CASE FlushCount
  <2>1. rxHead' = 0 /\ rxTail' = 0 /\ rxCount' = 0 /\ overrun' = FALSE /\ pc' = "idle"
    BY <1>5 DEF FlushCount, At, ghost, IInv, Flushing
  <2> QED
    BY <2>1, Cleared
<1>6. CASE FlushHead \/ FlushTail
  BY <1>6 DEF FlushHead, FlushTail, At
<1>7. CASE \/ Arrive \/ ReceiveISRError \/ ReadCall \/ ReadSpin \/ ReadMask \/ ReadUnmask
           \/ UNCHANGED vars
  <2>1. /\ Known /\ UNCHANGED ring /\ got' = got /\ overrun' = overrun
        /\ pc = "count" <=> pc' = "count"
    BY <1>7 DEF Arrive, ReceiveISRError, ReadCall, ReadSpin, ReadMask, ReadUnmask, At,
                ghost, ring, hw, vars
  <2>2. Counted'
    <3>1. pc' \in {"take", "count"} => ~RCIE'
      BY <1>7, <1>k, <2>1 DEF Arrive, ReceiveISRError, ReadCall, ReadSpin, ReadMask,
                              ReadUnmask, At, ghost, ring, hw, vars, Counted
    <3> QED
      BY <1>k, <2>1, <3>1 DEF Counted, ring
  <2>3. Filled' => Filled
    <3> SUFFICES ASSUME Filled' PROVE Filled
      OBVIOUS
    <3>1. Distance = 0
      BY <2>1 DEF Filled, Distance, ring
    <3>2. rxCount = 0 /\ pc' \in {"mask", "take"} => pc \in {"mask", "take"}
      BY <1>7 DEF Arrive, ReceiveISRError, ReadCall, ReadSpin, ReadMask, ReadUnmask, At,
                  ghost, ring, hw, vars
    <3> QED
      BY <2>1, <3>1, <3>2 DEF Filled, ring
  <2>4. Distance' = Distance /\ Distance \in 0 .. Size - 1
    BY <1>t, <2>1, Types DEF Distance, ring
  <2>5. Span' <= Span /\ Span' \in 0 .. Size
    BY <2>3, <2>4, Ring DEF Span
  <2>6. Fresh'
    BY <1>t, <1>k, <2>1, <2>5, SameRing
  <2>7. Turning' => OldestFirst'
    BY <1>k, <2>1 DEF Turning, OldestFirst, FromHead, SlotAfter, ring
  <2> QED
    BY <2>2, <2>6, <2>7
<1> QED
  BY <1>1, <1>2, <1>3, <1>4, <1>5, <1>6, <1>7 DEF Next, ReceiveISR, Read, FlushBuffer

LEMMA OrderInvariance == Spec => []Order
<1>1. IInv /\ Newest /\ Order /\ [Next]_vars => Order'
  BY StepOrder
<1> QED
  BY <1>1, InitOrder, Invariance, NewestInvariance, PTL DEF Spec

-----------------------------------------------------------------------------
\* While no overrun is in effect EUSART_Read returns newer bytes than before, for every
\* ring of at least one slot and every counter that can count an overrun, also after
\* overruns and clears that are over. (eusart.c:117-137, 181-200)
THEOREM InOrder == Spec => ReadInOrder
<1>1. IInv /\ Newest /\ Order /\ [Next]_vars =>
        [pc = "take" /\ pc' = "count" /\ ~torn /\ ~overrun => got < got' /\ got' <= arrived]_vars
  <2> SUFFICES ASSUME IInv, Newest, Order, Next,
                      pc = "take", pc' = "count", ~torn, ~overrun
               PROVE  got < got' /\ got' <= arrived
    OBVIOUS
  <2>1. ReadTake
    BY DEF Next, ReceiveISR, Read, FlushBuffer, Arrive, ReceiveISRError, ReceiveISRStore,
           ReadCall, ReadSpin, ReadMask, ReadCount, ReadUnmask, Initialize, FlushHead,
           FlushTail, FlushCount, At
  <2>2. TypeOK /\ rxTail \in Slots /\ Span \in 0 .. Size
    BY Types, SpanCovers DEF IInv
  <2>3. Span > 0 /\ Fresh
    BY <2>1, TakeOrder DEF Order
  <2>4. 0 \in 0 .. Span - 1
    BY <2>2, <2>3, Ring
  <2>5. got' = FromTail(0) /\ got' = rxBuffer[rxTail]
    BY <2>1, <2>2, FullTurn DEF ReadTake, FromTail
  <2> QED
    BY <2>2, <2>3, <2>4, <2>5 DEF Fresh, Newest
<1> QED
  BY <1>1, Invariance, NewestInvariance, OrderInvariance, PTL DEF Spec, ReadInOrder

-----------------------------------------------------------------------------
(* The FIFO.                                                                *)

LEMMA InitTight == Init => Tight
<1> SUFFICES ASSUME Init PROVE Lossless
  BY DEF Tight
<1>1. Used = 0 /\ Len(RCREG) = 0
  BY DEF Init, Used, Taken
<1> QED
  BY <1>1, Ring DEF Init, Lossless

\* The types, and how many bytes the ring holds.
LEMMA LosslessTypes ==
  ASSUME TypeOK, Lossless
  PROVE  /\ Used \in 0 .. Size /\ rxCount \in 0 .. Size /\ got \in Nat /\ arrived \in Nat
         /\ RCREG \in Seq(Nat) /\ Len(RCREG) \in Nat /\ Len(RCREG) <= HwDepth
         /\ Used = IF pc = "count" THEN rxCount - 1 ELSE rxCount
  BY Ring DEF TypeOK, Lossless, Used, Taken

LEMMA StepTight == IInv /\ Tight /\ [Next]_vars => Tight'
<1> SUFFICES ASSUME IInv, Tight, [Next]_vars, resets' = 0, ~lossy' PROVE Lossless'
  BY DEF Tight
<1>t. TypeOK
  BY DEF IInv
<1>r. resets \in Nat /\ lossy \in BOOLEAN /\ OERR \in BOOLEAN
  BY <1>t DEF TypeOK
<1>0. resets = 0 /\ ~lossy /\ ~Initialize /\ ~FlushHead
  BY <1>r DEF Next, Arrive, ReceiveISR, ReceiveISRError, ReceiveISRStore, Read, ReadCall,
         ReadSpin, ReadMask, ReadTake, ReadCount, ReadUnmask, Initialize, FlushBuffer,
         FlushHead, FlushTail, FlushCount, CountReset, NoteOverrun, ghost, vars
<1>l. Lossless
  BY <1>0 DEF Tight
<1>u. /\ Used \in 0 .. Size /\ rxCount \in 0 .. Size /\ got \in Nat /\ arrived \in Nat
      /\ RCREG \in Seq(Nat) /\ Len(RCREG) \in Nat
      /\ Used = IF pc = "count" THEN rxCount - 1 ELSE rxCount
  BY <1>t, <1>l, LosslessTypes
<1>f. ~FlushTail /\ ~FlushCount /\ ~ReceiveISRError
  BY <1>l DEF Lossless, FlushTail, FlushCount, At, ReceiveISRError
<1>p. Used' = IF pc' = "count" THEN rxCount' - 1 ELSE rxCount'
  <2>1. TypeOK'
    BY StepTypeFlushing
  <2>2. rxCount' \in Int
    BY <2>1, Ring DEF TypeOK
  <2>3. pc' = "count" => Taken' = 1
    BY DEF Taken
  <2>4. pc' # "count" => Taken' = 0
    BY DEF Taken
  <2>5. Used' = rxCount' - Taken'
    BY DEF Used
  <2> QED
    BY <2>2, <2>3, <2>4, <2>5
<1>1. CASE Arrive
  <2>1. /\ RCREG' = Append(RCREG, arrived + 1) /\ OERR' = OERR /\ arrived' = arrived + 1
        /\ UNCHANGED <<RCIE, rxHead, rxTail, rxBuffer, rxCount, pc, got, overrun, torn>>
    BY <1>1 DEF Arrive, ring, ghost
  <2>2. Used' = Used /\ \A k \in 0 .. Size : FromTail(k)' = FromTail(k)
    BY <1>u, <1>p, <2>1 DEF FromTail, SlotAfter
  <2>3. /\ Len(RCREG') = Len(RCREG) + 1 /\ RCREG'[Len(RCREG) + 1] = arrived + 1
        /\ \A n \in 1 .. Len(RCREG) : RCREG'[n] = RCREG[n]
        /\ \A n \in 1 .. Len(RCREG') : n \in 1 .. Len(RCREG) \/ n = Len(RCREG) + 1
    BY <1>u, <2>1
  <2>4. \A k \in 0 .. Used' - 1 : FromTail(k)' = got' + 1 + k
    <3>1. \A k \in 0 .. Used - 1 : k \in 0 .. Size
      BY <1>u, Ring
    <3> QED
      BY <1>l, <2>1, <2>2, <3>1 DEF Lossless
  <2>5. arrived = got + Used + Len(RCREG)
    BY <1>l DEF Lossless
  <2>6. \A n \in 1 .. Len(RCREG') : RCREG'[n] = got' + Used' + n
    <3> SUFFICES ASSUME NEW n \in 1 .. Len(RCREG') PROVE RCREG'[n] = got' + Used' + n
      OBVIOUS
    <3>1. CASE n \in 1 .. Len(RCREG)
      BY <1>l, <2>1, <2>2, <2>3, <3>1 DEF Lossless
    <3>2. CASE n = Len(RCREG) + 1
      <4>1. RCREG'[n] = got + Used + Len(RCREG) + 1
        BY <2>3, <2>5, <3>2
      <4> QED
        BY <1>u, <2>1, <2>2, <3>2, <4>1
    <3> QED
      BY <2>3, <3>1, <3>2
  <2>7. arrived' = got' + Used' + Len(RCREG')
    BY <1>u, <2>1, <2>2, <2>3, <2>5
  <2> QED
    BY <1>l, <2>1, <2>4, <2>6, <2>7 DEF Lossless
<1>2. CASE ReceiveISRStore
  <2>1. /\ RCIE /\ RCIE' = RCIE /\ OERR' = OERR /\ pc' = pc /\ got' = got /\ arrived' = arrived
        /\ RCREG # <<>> /\ RCREG' = Tail(RCREG)
        /\ rxCount' = (rxCount + 1) % CountMod
        /\ torn' = (torn \/ pc \in {"flushTail", "flushCount"})
    BY <1>2 DEF ReceiveISRStore
  <2>2. pc \notin {"take", "count", "flushTail", "flushCount"} /\ ~torn /\ ~torn'
    BY <1>l, <2>1 DEF Lossless
  <2>3. ~overrun'
    BY <1>2 DEF ReceiveISRStore, NoteOverrun
  <2>4. rxCount' = rxCount + 1
    BY <1>u, <2>1, Ring, SMTT(30)
  <2>5. rxCount' <= Size
    <3> SUFFICES ASSUME ~(rxCount' <= Size) PROVE FALSE
      OBVIOUS
    <3>1. rxCount' # 0 /\ rxCount' > Size
      BY <1>u, <2>4, Ring
    <3> QED
      BY <1>2, <2>3, <3>1 DEF ReceiveISRStore, NoteOverrun
  <2>6. Used = rxCount /\ Used' = Used + 1 /\ Used \in 0 .. Size - 1
    BY <1>u, <1>p, <2>1, <2>2, <2>4, <2>5, Ring
  <2>7. Distance = Used
    <3>1. Used # Size
      BY <2>6, Ring
    <3> QED
      BY <1>u, <2>2, <3>1, CountIsDistance
  <2>8. /\ Len(RCREG) > 0 /\ Len(RCREG') = Len(RCREG) - 1 /\ Head(RCREG) = RCREG[1]
        /\ \A n \in 1 .. Len(RCREG') : RCREG'[n] = RCREG[n + 1] /\ n + 1 \in 1 .. Len(RCREG)
        /\ 1 \in 1 .. Len(RCREG)
    BY <1>u, <2>1
  <2>9. \A k \in 0 .. Used' - 1 : FromTail(k)' = got' + 1 + k
    <3> SUFFICES ASSUME NEW k \in 0 .. Used' - 1 PROVE FromTail(k)' = got' + 1 + k
      OBVIOUS
    <3>1. k \in 0 .. Size - 1 /\ (k = Used \/ (k \in 0 .. Used - 1 /\ k < Used))
      <4>1. Used' = Used + 1 /\ Used \in Int /\ Used <= Size - 1
        BY <2>6, Ring
      <4>2. k \in 0 .. Used /\ (k \in 0 .. Used - 1 \/ k = Used)
        BY <4>1, Below
      <4> QED
        BY <4>1, <4>2, Ring
    <3>2. CASE k = Used
      <4>1. FromTail(k)' = RCREG[1]
        BY <1>t, <1>2, <2>7, <2>8, <3>1, <3>2, Stored
      <4>2. RCREG[1] = got + Used + 1
        BY <1>l, <2>8 DEF Lossless
      <4>3. Used \in Int /\ got \in Int
        BY <1>u, Ring
      <4> QED
        BY <2>1, <3>2, <4>1, <4>2, <4>3
    <3>3. CASE k \in 0 .. Used - 1 /\ k < Used
      <4>1. FromTail(k)' = FromTail(k)
        BY <1>t, <1>2, <2>7, <3>1, <3>3, Stored
      <4> QED
        BY <1>l, <2>1, <3>3, <4>1 DEF Lossless
    <3> QED
      BY <3>1, <3>2, <3>3
  <2>10. \A n \in 1 .. Len(RCREG') : RCREG'[n] = got' + Used' + n
    <3> SUFFICES ASSUME NEW n \in 1 .. Len(RCREG') PROVE RCREG'[n] = got' + Used' + n
      OBVIOUS
    <3>1. RCREG'[n] = got + Used + (n + 1)
      BY <1>l, <2>8 DEF Lossless
    <3> QED
      BY <1>u, <2>1, <2>6, <2>8, <3>1
  <2>11. arrived' = got' + Used' + Len(RCREG')
    BY <1>l, <1>u, <2>1, <2>6, <2>8 DEF Lossless
  <2>12. rxCount' # 0
    BY <1>u, <2>4
  <2> QED
    BY <1>l, <2>1, <2>2, <2>3, <2>5, <2>9, <2>10, <2>11, <2>12 DEF Lossless
<1>3. CASE ReadTake
  <2>1. /\ pc = "take" /\ pc' = "count" /\ got' = FromTail(0) /\ rxTail' = Advance(rxTail)
        /\ UNCHANGED <<RCIE, RCREG, OERR, rxHead, rxBuffer, rxCount, arrived, overrun, torn>>
    <3>1. got' = rxBuffer[rxTail] /\ rxTail \in Slots
      BY <1>3, <1>t, Types DEF ReadTake
    <3> QED
      BY <1>3, <3>1, FullTurn DEF ReadTake, At, FromTail, hw, ghost
  <2>2. Used \in 1 .. Size /\ Used' = Used - 1
    BY <1>l, <1>u, <1>p, <2>1, Ring DEF Lossless
  <2>3. got' = got + 1
    <3>1. 0 \in 0 .. Used - 1
      BY <2>2, Ring
    <3>2. FromTail(0) = got + 1 + 0
      BY <1>l, <3>1 DEF Lossless
    <3> QED
      BY <1>u, <2>1, <3>2
  <2>4. \A k \in 0 .. Used' - 1 : FromTail(k)' = got' + 1 + k
    <3> SUFFICES ASSUME NEW k \in 0 .. Used' - 1 PROVE FromTail(k)' = got' + 1 + k
      OBVIOUS
    <3>1. k \in 0 .. Size - 1 /\ k + 1 \in 0 .. Used - 1 /\ k \in Int
      BY <2>2, Ring
    <3>2. FromTail(k)' = FromTail(k + 1)
      <4>1. rxTail \in Slots
        BY <1>t, Types
      <4> QED
        BY <2>1, <3>1, <4>1, AdvanceSlot DEF FromTail, SlotAfter
    <3>3. FromTail(k + 1) = got + 1 + (k + 1)
      BY <1>l, <3>1 DEF Lossless
    <3> QED
      BY <1>u, <2>3, <3>1, <3>2, <3>3
  <2>5. \A n \in 1 .. Len(RCREG') : RCREG'[n] = got' + Used' + n
    BY <1>l, <1>u, <2>1, <2>2, <2>3 DEF Lossless
  <2>6. arrived' = got' + Used' + Len(RCREG')
    BY <1>l, <1>u, <2>1, <2>2, <2>3 DEF Lossless
  <2> QED
    BY <1>l, <2>1, <2>4, <2>5, <2>6 DEF Lossless
<1>4. CASE ReadCount
  <2>1. /\ pc = "count" /\ pc' = "unmask" /\ rxCount' = (rxCount - 1) % CountMod
        /\ UNCHANGED <<RCIE, RCREG, OERR, rxHead, rxTail, rxBuffer, arrived, got, torn>>
    BY <1>4 DEF ReadCount, At, hw, ghost
  <2>2. rxCount \in 1 .. Size
    BY <1>l, <1>u, <2>1, Ring DEF Lossless
  <2>3. rxCount' = rxCount - 1 /\ rxCount' <= Size
    BY <2>1, <2>2, Ring
  <2>4. Used' = Used
    BY <1>u, <1>p, <2>1, <2>3
  <2>5. ~overrun'
    BY <1>4 DEF ReadCount, NoteOverrun
  <2>6. \A k : FromTail(k)' = FromTail(k)
    BY <2>1 DEF FromTail, SlotAfter
  <2> QED
    BY <1>l, <2>1, <2>3, <2>4, <2>5, <2>6 DEF Lossless
<1>5. CASE ReadCall \/ ReadSpin \/ ReadMask \/ ReadUnmask \/ UNCHANGED vars
  <2>1. /\ UNCHANGED <<RCREG, OERR, rxHead, rxTail, rxBuffer, rxCount, arrived, got, overrun, torn>>
        /\ pc = "count" <=> pc' = "count"
    BY <1>5 DEF ReadCall, ReadSpin, ReadMask, ReadUnmask, At, hw, ring, ghost, vars
  <2>2. /\ pc' \in {"mask", "take", "count"} => rxCount # 0
        /\ pc' \in {"take", "count"} => ~RCIE'
        /\ pc' \notin {"flushTail", "flushCount"}
    BY <1>5, <1>l DEF ReadCall, ReadSpin, ReadMask, ReadUnmask, At, ring, vars, Lossless
  <2>3. Used' = Used /\ \A k : FromTail(k)' = FromTail(k)
    BY <1>u, <1>p, <2>1 DEF FromTail, SlotAfter
  <2> QED
    BY <1>l, <2>1, <2>2, <2>3 DEF Lossless
<1> QED
  BY <1>0, <1>f, <1>1, <1>2, <1>3, <1>4, <1>5 DEF Next, ReceiveISR, Read, FlushBuffer

LEMMA TightInvariance == Spec => []Tight
<1>1. IInv /\ Tight /\ [Next]_vars => Tight'
  BY StepTight
<1> QED
  BY <1>1, InitTight, Invariance, PTL DEF Spec

\* Until the ring is cleared or a byte is lost to an overrun, EUSART_Read and the receive
\* interrupt are a lossless FIFO of the hardware FIFO and the ring.
\* (eusart.c:117-137, 181-200)
THEOREM ImplementsFifo == Spec => FifoUntilLoss
<1> DEFINE Step == resets' = 0 /\ ~lossy' => Fifo!FifoNext \/ UNCHANGED <<arrived, got>>
<1>1. Init => Fifo!FifoInit
  BY DEF Init, Fifo!FifoInit
<1>2. IInv /\ Tight /\ Tight' /\ [Next]_vars => [Step]_vars
  <2> SUFFICES ASSUME IInv, Tight, Tight', Next, resets' = 0, ~lossy'
               PROVE  Fifo!FifoNext \/ UNCHANGED <<arrived, got>>
    OBVIOUS
  <2>1. CASE Arrive
    <3>1. arrived' = arrived + 1 /\ got' = got /\ resets = 0 /\ ~lossy
      BY <2>1 DEF Arrive, ghost, IInv, TypeOK
    <3>2. TypeOK /\ Lossless
      BY <3>1 DEF IInv, Tight
    <3>3. arrived - got < Size + HwDepth + 1
      <4>1. arrived = got + Used + Len(RCREG)
        BY <3>2 DEF Lossless
      <4> QED
        BY <3>2, <4>1, LosslessTypes, Ring
    <3> QED
      BY <3>1, <3>3 DEF Fifo!FifoNext, Fifo!Put
  <2>2. CASE ReadTake
    <3>1. /\ arrived' = arrived /\ resets = 0 /\ ~lossy /\ pc = "take"
          /\ got' = rxBuffer[rxTail]
      BY <2>2 DEF ReadTake, At, ghost
    <3>2. TypeOK /\ Lossless
      BY <3>1 DEF IInv, Tight
    <3>3. Used \in 1 .. Size
      BY <3>1, <3>2, LosslessTypes, Ring DEF Lossless
    <3>4. rxBuffer[rxTail] = FromTail(0) /\ 0 \in 0 .. Used - 1
      BY <3>2, <3>3, Types, FullTurn, Ring DEF FromTail
    <3>5. FromTail(0) = got + 1 + 0
      BY <3>2, <3>4 DEF Lossless
    <3>6. got' = got + 1 /\ got + 1 \in (got + 1) .. arrived
      <4>1. arrived = got + Used + Len(RCREG)
        BY <3>2 DEF Lossless
      <4> QED
        BY <3>1, <3>2, <3>3, <3>4, <3>5, <4>1, LosslessTypes, Ring
    <3> QED
      BY <3>1, <3>6 DEF Fifo!FifoNext, Fifo!Take
  <2>3. CASE ~Arrive /\ ~ReadTake
    BY <2>3 DEF Next, ReceiveISR, ReceiveISRError, ReceiveISRStore, Read, ReadCall, ReadSpin,
                ReadMask, ReadCount, ReadUnmask, Initialize, FlushBuffer, FlushHead,
                FlushTail, FlushCount
  <2> QED
    BY <2>1, <2>2, <2>3
<1> QED
  BY <1>1, <1>2, Invariance, TightInvariance, PTL DEF Spec, FifoUntilLoss
=============================================================================
