--------------------------- MODULE EusartTxProofs ---------------------------
(***************************************************************************)
(* Theorems about EusartTx for every size of the ring, every number of     *)
(* bytes and every number of clears.                                       *)
(*                                                                         *)
(* The order of the bytes on the line follows from what the ring contains: *)
(* InFlight says that the bytes between the line and EUSART_Write are in   *)
(* increasing order.  It needs RingAligned to know where the next byte is  *)
(* stored, and NoStrandedByte to know that the ring is empty when          *)
(* EUSART_Write puts a byte into TXREG directly.                           *)
(***************************************************************************)
EXTENDS EusartTx, TLAPS

\* The k-th byte of the ring, counting from the tail.
Byte(k) == txBuffer[SlotAfter(txTail, k)]

\* The byte of the call in progress has been handed to the driver.
HandedOver == pc \in {"idle", "count", "enable"}

\* Every byte behind the line is newer than the one before it, and older than
\* the byte EUSART_Write has not handed over yet.
InFlight ==
  /\ line <= written
  /\ TXREG <= written
  /\ ~HandedOver => line < written /\ TXREG < written
  /\ TXREG # Empty => line < TXREG
  /\ \A k \in 0 .. Used - 1 :
       /\ line < Byte(k)
       /\ TXREG < Byte(k)
       /\ Byte(k) <= written
       /\ ~HandedOver \/ pc = "count" => Byte(k) < written
  /\ \A j, k \in 0 .. Used - 1 : j < k => Byte(j) < Byte(k)
  /\ pc = "count" => /\ Byte(Used) = written
                     /\ line < written
                     /\ TXREG < written

\* The states of TXIE and of the counter that the steps of EUSART_Write rely on.
Phase ==
  /\ Used > 0 => TXIE \/ pc \in {"store", "count", "enable"}
  /\ pc \in {"direct", "store", "count"} => ~TXIE
  /\ pc \in {"test", "direct", "mask", "store", "count"} => txRemaining # 0

\* The inductive invariant.
IInv ==
  /\ TypeOK
  /\ Phase
  /\ RingAligned
  /\ ~torn => InFlight

-----------------------------------------------------------------------------
\* Advancing the tail moves every byte of the ring one place forward.
LEMMA AdvanceTail ==
  ASSUME NEW i \in Slots, NEW k \in 0 .. Size - 1
  PROVE  SlotAfter(Advance(i), k) = SlotAfter(i, k + 1)
  BY TxConstants DEF Slots, SlotAfter, Advance

\* Advancing the head moves it to the next free slot.
LEMMA AdvanceHead ==
  ASSUME NEW i \in Slots, NEW k \in 0 .. Size - 1
  PROVE  Advance(SlotAfter(i, k)) = SlotAfter(i, k + 1)
  BY TxConstants DEF Slots, SlotAfter, Advance

\* Places less than a ring apart are different slots.
LEMMA SlotsDistinct ==
  ASSUME NEW i \in Slots, NEW j \in 0 .. Size - 1, NEW k \in 0 .. Size - 1, j # k
  PROVE  SlotAfter(i, j) # SlotAfter(i, k)
  BY TxConstants DEF Slots, SlotAfter

LEMMA SlotInRange ==
  ASSUME NEW i \in Slots, NEW k \in 0 .. Size
  PROVE  SlotAfter(i, k) \in Slots /\ Advance(i) \in Slots
  BY TxConstants DEF Slots, SlotAfter, Advance

\* What the ring holds are numbers of bytes.
LEMMA ByteType ==
  ASSUME TypeOK, NEW k \in 0 .. Size
  PROVE  Byte(k) \in Nat
  BY SlotInRange DEF TypeOK, Byte

-----------------------------------------------------------------------------
LEMMA InitIInv == Init => IInv
<1> SUFFICES ASSUME Init PROVE IInv
  OBVIOUS
<1>1. TypeOK
  <2>1. TXIE \in BOOLEAN /\ torn \in BOOLEAN
    BY DEF Init
  <2>2. 0 \in Slots /\ Size \in 0 .. Size
    BY TxConstants DEF Slots
  <2>3. txBuffer \in [Slots -> Nat]
    BY DEF Init, Empty
  <2> QED
    BY <2>1, <2>2, <2>3 DEF Init, TypeOK, PCs, Empty
<1>2. Phase /\ RingAligned
  BY <1>1, TxConstants DEF Init, Phase, RingAligned, Used, SlotAfter, TypeOK, Slots
<1>3. InFlight
  BY TxConstants DEF Init, InFlight, HandedOver, Used, Empty
<1> QED
  BY <1>1, <1>2, <1>3 DEF IInv

\* Types and phases follow action by action from the assignments.
LEMMA StepTypePhase == IInv /\ [Next]_vars => TypeOK' /\ Phase'
<1> SUFFICES ASSUME IInv, [Next]_vars PROVE TypeOK' /\ Phase'
  OBVIOUS
<1> USE TxConstants DEF IInv, TypeOK, Phase, Used, ring, ghost, PCs, At
<1>1. CASE WriteCall
  BY <1>1 DEF WriteCall
<1>2. CASE WriteSpin
  BY <1>2 DEF WriteSpin
<1>3. CASE WriteTestDirect
  BY <1>3 DEF WriteTestDirect
<1>4. CASE WriteTestQueue
  BY <1>4 DEF WriteTestQueue
<1>5. CASE WriteDirect
  BY <1>5 DEF WriteDirect
<1>6. CASE WriteMask
  BY <1>6 DEF WriteMask
<1>7. CASE WriteStore
  BY <1>7 DEF WriteStore, Slots, Advance
<1>8. CASE WriteCount
  BY <1>8 DEF WriteCount
<1>9. CASE WriteEnable
  BY <1>9 DEF WriteEnable
<1>10. CASE TransmitISRSend
  BY <1>10 DEF TransmitISRSend, Slots, Advance
<1>11. CASE TransmitISRStop
  <2>1. TXIE' = FALSE /\ Used = 0 /\ UNCHANGED <<TXREG, ring, pc, written, line, ghost>>
    BY <1>11 DEF TransmitISRStop
  <2>2. TXIE' \in BOOLEAN
    BY <2>1
  <2>3. pc \notin {"direct", "store", "count"}
    BY <1>11 DEF TransmitISRStop
  <2> QED
    BY <2>1, <2>2, <2>3
<1>12. CASE LineShift
  BY <1>12 DEF LineShift, Empty
<1>13. CASE Initialize
  <2>1. torn' \in BOOLEAN
    BY <1>13 DEF Initialize
  <2>2. TXIE' = FALSE /\ TXIE' \in BOOLEAN
    BY <1>13 DEF Initialize, ClearRing
  <2>3. txRemaining' = Size /\ txHead' = 0 /\ txTail' = 0 /\ 0 \in Slots
    BY <1>13 DEF Initialize, ClearRing, Slots
  <2>4. resets' \in Nat /\ UNCHANGED <<TXREG, txBuffer, pc, written, line>>
    BY <1>13 DEF Initialize, ClearRing
  <2> QED
    BY <2>1, <2>2, <2>3, <2>4
<1>14. CASE FlushBuffer
  <2>1. TXIE' = FALSE /\ TXIE' \in BOOLEAN /\ UNCHANGED torn
    BY <1>14 DEF FlushBuffer, ClearRing
  <2>2. txRemaining' = Size /\ txHead' = 0 /\ txTail' = 0 /\ 0 \in Slots
    BY <1>14 DEF FlushBuffer, ClearRing, Slots
  <2>3. resets' \in Nat /\ UNCHANGED <<TXREG, txBuffer, pc, written, line>>
    BY <1>14 DEF FlushBuffer, ClearRing
  <2> QED
    BY <2>1, <2>2, <2>3
<1>15. CASE UNCHANGED vars
  BY <1>15 DEF vars
<1> QED
  BY <1>1, <1>2, <1>3, <1>4, <1>5, <1>6, <1>7, <1>8, <1>9, <1>10, <1>11, <1>12,
     <1>13, <1>14, <1>15 DEF Next, Write, TransmitISR

\* Only five actions move the ring; the others keep it aligned as it was.
LEMMA StepAligned == IInv /\ [Next]_vars => RingAligned'
<1> SUFFICES ASSUME IInv, [Next]_vars, ~torn' PROVE RingAligned'
  BY DEF RingAligned
<1> USE TxConstants DEF IInv, TypeOK, ring, ghost, Used
<1>1. CASE WriteStore
  <2>1. txHead = SlotAfter(txTail, Used) /\ Used \in 0 .. Size - 1
    BY <1>1 DEF WriteStore, At, RingAligned, Phase
  <2>2. txHead' = SlotAfter(txTail, Used + 1)
    BY <1>1, <2>1, AdvanceHead DEF WriteStore
  <2> QED
    BY <1>1, <2>2 DEF WriteStore, At, RingAligned, SlotAfter
<1>2. CASE WriteCount
  BY <1>2 DEF WriteCount, At, RingAligned, SlotAfter, Phase
<1>3. CASE TransmitISRSend
  <2>1. pc # "count" /\ txHead = SlotAfter(txTail, Used) /\ Used \in 1 .. Size
    BY <1>3 DEF TransmitISRSend, RingAligned, Phase
  <2>2. SlotAfter(txTail', Used') = SlotAfter(txTail, Used)
    BY <1>3, <2>1 DEF TransmitISRSend, SlotAfter, Advance, Slots
  <2> QED
    BY <1>3, <2>1, <2>2 DEF TransmitISRSend, RingAligned, SlotAfter
<1>4. CASE Initialize
  <2>1. ~(torn \/ pc = "count")
    BY <1>4 DEF Initialize
  <2>2. pc' = pc /\ txHead' = 0 /\ txTail' = 0 /\ Used' = 0
    BY <1>4 DEF Initialize, ClearRing
  <2> QED
    BY <2>1, <2>2 DEF RingAligned, SlotAfter
<1>5. CASE FlushBuffer
  BY <1>5 DEF FlushBuffer, ClearRing, RingAligned, SlotAfter
<1>6. CASE \/ WriteCall \/ WriteSpin \/ WriteTestDirect \/ WriteTestQueue \/ WriteDirect
           \/ WriteMask \/ WriteEnable \/ TransmitISRStop \/ LineShift \/ UNCHANGED vars
  <2>1. UNCHANGED <<txHead, txTail, txRemaining, torn>>
    BY <1>6 DEF WriteCall, WriteSpin, WriteTestDirect, WriteTestQueue, WriteDirect,
       WriteMask, WriteEnable, TransmitISRStop, LineShift, vars
  <2>2. (pc # "count" /\ pc' # "count") \/ UNCHANGED pc
    BY <1>6 DEF At, WriteCall, WriteSpin, WriteTestDirect, WriteTestQueue, WriteDirect,
       WriteMask, WriteEnable, TransmitISRStop, LineShift, vars
  <2> QED
    BY <2>1, <2>2 DEF RingAligned, SlotAfter
<1> QED
  BY <1>1, <1>2, <1>3, <1>4, <1>5, <1>6 DEF Next, Write, TransmitISR

\* The bytes in flight stay in order.  WriteDirect is in order because the ring is
\* empty then, WriteStore because the byte goes behind all the others, and the ISR
\* because it takes the first of them.
LEMMA StepInFlight == IInv /\ [Next]_vars /\ ~torn' => InFlight'
<1> SUFFICES ASSUME IInv, [Next]_vars, ~torn' PROVE InFlight'
  OBVIOUS
<1> USE TxConstants DEF IInv, TypeOK, ring, ghost, Empty
<1>0. ~torn /\ InFlight
  <2>1. torn => torn'
    BY DEF Next, Write, TransmitISR, WriteCall, WriteSpin, WriteTestDirect, WriteTestQueue,
       WriteDirect, WriteMask, WriteStore, WriteCount, WriteEnable, TransmitISRSend,
       TransmitISRStop, LineShift, Initialize, FlushBuffer, vars
  <2> QED
    BY <2>1
<1>1. ASSUME UNCHANGED ring
      PROVE  Used' = Used /\ \A k : Byte(k)' = Byte(k)
  BY <1>1 DEF Used, Byte, SlotAfter
<1>2. CASE WriteCall
  <2>1. UNCHANGED <<ring, TXREG, line>> /\ written' = written + 1
    BY <1>2 DEF WriteCall
  <2>2. pc = "idle" /\ pc' = "spin"
    BY <1>2 DEF WriteCall, At
  <2>3. \A k \in 0 .. Used - 1 : Byte(k) \in Nat
    BY ByteType DEF Used
  <2> QED
    BY <1>0, <1>1, <2>1, <2>2, <2>3 DEF InFlight, HandedOver
<1>3. CASE WriteSpin \/ WriteTestDirect \/ WriteTestQueue \/ WriteMask \/ WriteEnable
           \/ UNCHANGED vars
  <2>1. UNCHANGED <<ring, TXREG, written, line>>
    BY <1>3 DEF WriteSpin, WriteTestDirect, WriteTestQueue, WriteMask, WriteEnable, vars
  <2>2. (HandedOver' <=> HandedOver) /\ (pc' = "count" <=> pc = "count")
    BY <1>3 DEF WriteSpin, WriteTestDirect, WriteTestQueue, WriteMask, WriteEnable, vars,
       At, HandedOver
  <2> QED
    BY <1>0, <1>1, <2>1, <2>2 DEF InFlight
<1>4. CASE WriteDirect
  <2>1. Used = 0 /\ Used' = 0 /\ pc' = "enable"
    BY <1>4 DEF WriteDirect, At, Phase, Used
  <2> QED
    BY <1>0, <1>4, <2>1 DEF WriteDirect, At, InFlight, HandedOver
<1>5. CASE WriteStore
  <2>1. txHead = SlotAfter(txTail, Used) /\ Used \in 0 .. Size - 1
    BY <1>0, <1>5 DEF WriteStore, At, RingAligned, Phase, Used
  <2>2. Used' = Used /\ UNCHANGED <<TXREG, written, line, txTail>> /\ pc = "store" /\ pc' = "count"
    BY <1>5 DEF WriteStore, At, Used
  <2>3. Byte(Used)' = written
    BY <1>5, <2>1, <2>2 DEF WriteStore, Byte, SlotAfter
  <2>4. ASSUME NEW k \in 0 .. Used - 1 PROVE Byte(k)' = Byte(k)
    <3>0. k \in 0 .. Size - 1 /\ k # Used
      BY <2>1
    <3>1. SlotAfter(txTail, k) # txHead
      BY <2>1, <3>0, SlotsDistinct
    <3>2. SlotAfter(txTail, k) \in Slots
      BY <3>0 DEF SlotAfter, Slots
    <3> QED
      BY <1>5, <3>1, <3>2 DEF WriteStore, Byte, SlotAfter
  <2> QED
    BY <1>0, <2>2, <2>3, <2>4 DEF InFlight, HandedOver
<1>6. CASE WriteCount
  <2>1. Used' = Used + 1 /\ pc = "count" /\ pc' = "enable" /\ Used \in 0 .. Size - 1
    BY <1>6 DEF WriteCount, At, Used, Phase
  <2>2. UNCHANGED <<TXREG, written, line>> /\ \A k : Byte(k)' = Byte(k)
    BY <1>6 DEF WriteCount, Byte, SlotAfter
  <2> QED
    BY <1>0, <2>1, <2>2 DEF InFlight, HandedOver
<1>7. CASE TransmitISRSend
  <2>1. Used \in 1 .. Size /\ Used' = Used - 1 /\ UNCHANGED <<pc, written, line>>
    BY <1>7 DEF TransmitISRSend, Used
  <2>2. TXREG = 0 /\ TXREG' = Byte(0) /\ pc # "count"
    BY <1>7 DEF TransmitISRSend, Byte, SlotAfter, Slots, Phase
  <2>3. ASSUME NEW k \in 0 .. Used' - 1 PROVE Byte(k)' = Byte(k + 1)
    BY <1>7, <2>1, AdvanceTail DEF TransmitISRSend, Byte, SlotAfter, Advance, Slots
  <2>4. \A k \in 0 .. Used - 1 : Byte(k) \in Nat
    BY ByteType DEF Used
  <2> QED
    BY <1>0, <2>1, <2>2, <2>3, <2>4 DEF InFlight, HandedOver
<1>8. CASE TransmitISRStop
  BY <1>0, <1>1, <1>8 DEF TransmitISRStop, InFlight, HandedOver
<1>9. CASE LineShift
  <2>1. UNCHANGED <<ring, pc, written>> /\ TXREG # 0 /\ line' = TXREG /\ TXREG' = 0
    BY <1>9 DEF LineShift
  <2>2. \A k \in 0 .. Used - 1 : Byte(k) \in Nat
    BY ByteType DEF Used
  <2> QED
    BY <1>0, <1>1, <2>1, <2>2 DEF InFlight, HandedOver
<1>10. CASE Initialize \/ FlushBuffer
  <2>1. Used' = 0 /\ UNCHANGED <<TXREG, pc, written, line>>
    BY <1>10 DEF Initialize, FlushBuffer, ClearRing, Used
  <2>2. pc # "count"
    <3>1. CASE Initialize
      <4>1. ~(torn \/ pc = "count")
        BY <3>1 DEF Initialize
      <4> QED
        BY <4>1
    <3>2. CASE FlushBuffer
      BY <3>2 DEF FlushBuffer
    <3> QED
      BY <1>10, <3>1, <3>2
  <2> QED
    BY <1>0, <2>1, <2>2 DEF InFlight, HandedOver
<1> QED
  BY <1>2, <1>3, <1>4, <1>5, <1>6, <1>7, <1>8, <1>9, <1>10
  DEF Next, Write, TransmitISR

LEMMA StepIInv == IInv /\ [Next]_vars => IInv'
  BY StepTypePhase, StepAligned, StepInFlight DEF IInv

LEMMA Invariance == Spec => []IInv
  BY InitIInv, StepIInv, PTL DEF Spec

-----------------------------------------------------------------------------
\* The indices and the counter of the transmit ring never leave their range.
THEOREM TypeCorrect == Spec => []TypeOK
<1>1. IInv => TypeOK
  BY DEF IInv
<1> QED
  BY <1>1, Invariance, PTL

\* Head, tail and eusartTxBufferRemaining agree at every interruption of
\* EUSART_Write that EUSART_Initialize does not cut in two.
THEOREM Aligned == Spec => []RingAligned
<1>1. IInv => RingAligned
  BY DEF IInv
<1> QED
  BY <1>1, Invariance, PTL

\* TXIE is never left off with bytes in the ring.
THEOREM NeverStranded == Spec => []NoStrandedByte
<1>1. IInv => NoStrandedByte
  BY DEF IInv, Phase, NoStrandedByte
<1> QED
  BY <1>1, Invariance, PTL

\* What reaches the TX pin is in the order EUSART_Write was called, without
\* repetitions, for every interleaving of the main loop, the ISR and the clears.
THEOREM InOrder == Spec => LineInOrder
<1>1. IInv /\ [Next]_vars => [line' # line /\ ~torn => line < line' /\ line' <= written]_vars
  <2> SUFFICES ASSUME IInv, Next, line' # line, ~torn
               PROVE  line < line' /\ line' <= written
    OBVIOUS
  <2>1. LineShift
    BY DEF Next, Write, TransmitISR, WriteCall, WriteSpin, WriteTestDirect, WriteTestQueue,
       WriteDirect, WriteMask, WriteStore, WriteCount, WriteEnable, TransmitISRSend,
       TransmitISRStop, Initialize, FlushBuffer, ClearRing
  <2> QED
    BY <2>1 DEF LineShift, IInv, InFlight
<1> QED
  BY <1>1, Invariance, PTL DEF Spec, LineInOrder

-----------------------------------------------------------------------------
(* Until the first clear the driver implements the lossless FIFO.  InFlight  *)
(* says in which order the bytes are; Tight says that none is missing.       *)

InReg  == IF TXREG = Empty THEN 0 ELSE 1
InCall == IF pc \in {"idle", "enable"} THEN 0 ELSE 1

Tight ==
  resets = 0 =>
    /\ torn = FALSE
    /\ ~TXIE /\ pc \in {"idle", "spin", "test", "direct"} => TXREG = Empty
    /\ written = line + InReg + Used + InCall
    /\ TXREG # Empty => TXREG = line + 1
    /\ \A k \in 0 .. Used - 1 : Byte(k) = line + InReg + k + 1

LEMMA InitTight == Init => Tight
  BY TxConstants DEF Init, Tight, InReg, InCall, Used, Empty

LEMMA StepTight == IInv /\ Tight /\ [Next]_vars => Tight'
<1> SUFFICES ASSUME IInv, Tight, [Next]_vars, resets' = 0 PROVE Tight'
  BY DEF Tight
<1> USE TxConstants DEF IInv, TypeOK, ring, ghost, Empty, At
<1>0. resets = 0 /\ ~Initialize /\ ~FlushBuffer
  BY DEF Next, Write, TransmitISR, WriteCall, WriteSpin, WriteTestDirect, WriteTestQueue,
     WriteDirect, WriteMask, WriteStore, WriteCount, WriteEnable, TransmitISRSend,
     TransmitISRStop, LineShift, Initialize, FlushBuffer, ClearRing, vars
<1>1. ASSUME UNCHANGED ring
      PROVE  Used' = Used /\ \A k : Byte(k)' = Byte(k)
  BY <1>1 DEF Used, Byte, SlotAfter
<1>2. Used \in 0 .. Size
  BY DEF Used
<1>3. CASE WriteCall
  BY <1>0, <1>1, <1>2, <1>3 DEF WriteCall, Tight, InReg, InCall
<1>4. CASE WriteSpin
  BY <1>0, <1>1, <1>2, <1>4 DEF WriteSpin, Tight, InReg, InCall
<1>5. CASE WriteTestDirect
  BY <1>0, <1>1, <1>2, <1>5 DEF WriteTestDirect, Tight, InReg, InCall
<1>6. CASE WriteTestQueue
  BY <1>0, <1>1, <1>2, <1>6 DEF WriteTestQueue, Tight, InReg, InCall
<1>7. CASE WriteDirect
  <2>1. TXREG = 0 /\ Used = 0 /\ Used' = 0 /\ pc = "direct" /\ pc' = "enable"
    BY <1>0, <1>1, <1>7 DEF WriteDirect, Tight, Phase, Used
  <2> QED
    BY <1>0, <1>7, <2>1 DEF WriteDirect, Tight, InReg, InCall
<1>8. CASE WriteMask
  BY <1>0, <1>1, <1>2, <1>8 DEF WriteMask, Tight, InReg, InCall
<1>9. CASE WriteStore
  <2>1. txHead = SlotAfter(txTail, Used) /\ Used \in 0 .. Size - 1
    BY <1>0, <1>9 DEF WriteStore, RingAligned, Phase, Used, Tight
  <2>2. Used' = Used /\ UNCHANGED <<TXIE, TXREG, written, line, txTail, torn>>
        /\ pc = "store" /\ pc' = "count"
    BY <1>9 DEF WriteStore, Used
  <2>3. ASSUME NEW k \in 0 .. Used - 1 PROVE Byte(k)' = Byte(k)
    <3>0. k \in 0 .. Size - 1 /\ k # Used
      BY <2>1
    <3>1. SlotAfter(txTail, k) # txHead
      BY <2>1, <3>0, SlotsDistinct
    <3>2. SlotAfter(txTail, k) \in Slots
      BY <3>0 DEF SlotAfter, Slots
    <3> QED
      BY <1>9, <3>1, <3>2 DEF WriteStore, Byte, SlotAfter
  <2> QED
    BY <1>0, <2>2, <2>3 DEF Tight, InReg, InCall
<1>10. CASE WriteCount
  <2>1. Used' = Used + 1 /\ pc = "count" /\ pc' = "enable"
    BY <1>10 DEF WriteCount, Used
  <2>2. UNCHANGED <<TXIE, TXREG, written, line, torn>> /\ \A k : Byte(k)' = Byte(k)
    BY <1>10 DEF WriteCount, Byte, SlotAfter
  <2>3. Byte(Used) = written
    BY <1>0, <2>1 DEF InFlight, Tight
  <2> QED
    BY <1>0, <1>2, <2>1, <2>2, <2>3 DEF Tight, InReg, InCall
<1>11. CASE WriteEnable
  BY <1>0, <1>1, <1>2, <1>11 DEF WriteEnable, Tight, InReg, InCall
<1>12. CASE TransmitISRSend
  <2>1. Used \in 1 .. Size /\ Used' = Used - 1 /\ UNCHANGED <<TXIE, pc, written, line, torn>>
    BY <1>12 DEF TransmitISRSend, Used
  <2>2. TXREG = 0 /\ TXREG' = Byte(0) /\ TXIE
    BY <1>12 DEF TransmitISRSend, Byte, SlotAfter, Slots
  <2>3. ASSUME NEW k \in 0 .. Used' - 1 PROVE Byte(k)' = Byte(k + 1)
    BY <1>12, <2>1, AdvanceTail DEF TransmitISRSend, Byte, SlotAfter, Advance, Slots
  <2>4. TXREG' = line + 1
    BY <1>0, <2>1, <2>2 DEF Tight, InReg
  <2> QED
    BY <1>0, <2>1, <2>2, <2>3, <2>4 DEF Tight, InReg, InCall
<1>13. CASE TransmitISRStop
  BY <1>0, <1>1, <1>2, <1>13 DEF TransmitISRStop, Tight, InReg, InCall
<1>14. CASE LineShift
  BY <1>0, <1>1, <1>2, <1>14 DEF LineShift, Tight, InReg, InCall
<1>15. CASE UNCHANGED vars
  BY <1>0, <1>1, <1>2, <1>15 DEF vars, Tight, InReg, InCall
<1> QED
  BY <1>0, <1>3, <1>4, <1>5, <1>6, <1>7, <1>8, <1>9, <1>10, <1>11, <1>12, <1>13,
     <1>14, <1>15 DEF Next, Write, TransmitISR

LEMMA TightInvariance == Spec => []Tight
  BY InitTight, StepTight, Invariance, PTL DEF Spec

\* Until the ring is cleared, EUSART_Write and its ISR are a lossless FIFO of the
\* ring, the transmit register and the byte of the call in progress.
THEOREM ImplementsFifo == Spec => FifoUntilCleared
<1> DEFINE Step == resets' = 0 => Fifo!FifoNext \/ UNCHANGED <<written, line>>
<1>1. Init => Fifo!FifoInit
  BY DEF Init, Fifo!FifoInit
<1>2. IInv /\ Tight /\ [Next]_vars => [Step]_vars
  <2> SUFFICES ASSUME IInv, Tight, Next, resets' = 0, ~UNCHANGED <<written, line>>
               PROVE  Fifo!Put \/ Fifo!Take
    BY DEF Fifo!FifoNext
  <2> USE TxConstants DEF IInv, TypeOK, Empty
  <2>1. WriteCall \/ LineShift
    BY DEF Next, Write, TransmitISR, WriteSpin, WriteTestDirect, WriteTestQueue,
       WriteDirect, WriteMask, WriteStore, WriteCount, WriteEnable, TransmitISRSend,
       TransmitISRStop, Initialize, FlushBuffer, ClearRing
  <2>2. resets = 0
    BY <2>1 DEF WriteCall, LineShift, ghost
  <2>3. CASE WriteCall
    BY <2>2, <2>3 DEF WriteCall, At, Tight, InReg, InCall, Used, Fifo!Put
  <2>4. CASE LineShift
    <3>1. line' = line + 1 /\ UNCHANGED written
      BY <2>2, <2>4 DEF LineShift, Tight
    <3>2. line' <= written
      BY <2>2, <2>4 DEF LineShift, Tight, InFlight
    <3>3. line' \in (line + 1) .. written
      BY <3>1, <3>2
    <3> QED
      BY <3>1, <3>3 DEF Fifo!Take
  <2> QED
    BY <2>1, <2>3, <2>4
<1> QED
  BY <1>1, <1>2, Invariance, TightInvariance, PTL DEF Spec, FifoUntilCleared

=============================================================================
