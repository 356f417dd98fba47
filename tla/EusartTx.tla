------------------------------ MODULE EusartTx ------------------------------
(***************************************************************************)
(* The transmit half of eusart.c: the ring buffer between EUSART_Write     *)
(* (main loop) and EUSART_Transmit_ISR (interrupt), the transmit interrupt *)
(* enable TXIE that both of them flip, and the two operations that clear   *)
(* the ring: EUSART_Initialize, which the USB stack also calls from        *)
(* interrupt context, and EUSART_FlushBuffer, which the main loop calls.   *)
(*                                                                         *)
(* The main loop is split where an interrupt can fall between two          *)
(* statements that matter; an ISR runs to its end (one priority level, no  *)
(* nesting).  Bytes are numbered in the order EUSART_Write is called.      *)
(***************************************************************************)
EXTENDS Integers

CONSTANTS
  Size,       \* EUSART_TX_BUFFER_SIZE
  MaxBytes,   \* bound: bytes the main loop writes
  MaxResets   \* bound: calls of EUSART_Initialize and EUSART_FlushBuffer

ASSUME TxConstants ==
  /\ Size \in Nat \ {0}
  /\ MaxBytes \in Nat
  /\ MaxResets \in Nat

VARIABLES
  TXIE,         \* PIE1bits.TXIE
  TXREG,        \* byte waiting in the transmit register, Empty if none
  txHead,       \* eusartTxHead
  txTail,       \* eusartTxTail
  txBuffer,     \* eusartTxBuffer
  txRemaining,  \* eusartTxBufferRemaining
  pc,           \* where the main loop is inside EUSART_Write
  written,      \* number of the byte of the current or last EUSART_Write
  line,         \* number of the last byte shifted out on the TX pin
  resets,       \* calls of EUSART_Initialize and EUSART_FlushBuffer so far
  torn          \* history: EUSART_Initialize cut EUSART_Write in two

ring  == <<txHead, txTail, txBuffer, txRemaining>>
ghost == <<resets, torn>>
vars  == <<TXIE, TXREG, ring, pc, written, line, ghost>>

Empty == 0
Slots == 0 .. Size - 1

\* Mutant: the wrap tests the index after it has run past the last slot.
AdvanceLate(index) == IF Size < index + 1 THEN 0 ELSE index + 1

\* What the source does to an index after buffer[index++].
Advance(index) == IF Size <= index + 1 THEN 0 ELSE index + 1

Used == Size - txRemaining

-----------------------------------------------------------------------------
(* EUSART_Write, called by the main loop.                                   *)

At(from, to) == pc = from /\ pc' = to

WriteCall ==
  /\ At("idle", "spin")
  /\ written < MaxBytes
  /\ written' = written + 1
  /\ UNCHANGED <<TXIE, TXREG, ring, line, ghost>>

\* The loop on a full ring: only the ISR, or a clear of the ring, ends it.
WriteSpin ==
  /\ At("spin", "test")
  /\ txRemaining # 0
  /\ UNCHANGED <<TXIE, TXREG, ring, written, line, ghost>>

\* Mutant: the direct path is taken while bytes are queued.
WriteTestDirectAlways ==
  /\ At("test", "direct")
  /\ UNCHANGED <<TXIE, TXREG, ring, written, line, ghost>>

WriteTestDirect ==
  /\ At("test", "direct")
  /\ ~TXIE
  /\ UNCHANGED <<TXIE, TXREG, ring, written, line, ghost>>

WriteTestQueue ==
  /\ At("test", "mask")
  /\ TXIE
  /\ UNCHANGED <<TXIE, TXREG, ring, written, line, ghost>>

WriteDirect ==
  /\ At("direct", "enable")
  /\ TXREG' = written
  /\ UNCHANGED <<TXIE, ring, written, line, ghost>>

WriteMask ==
  /\ At("mask", "store")
  /\ TXIE' = FALSE
  /\ UNCHANGED <<TXREG, ring, written, line, ghost>>

WriteStore ==
  /\ At("store", "count")
  /\ txBuffer' = [txBuffer EXCEPT ![txHead] = written]
  /\ txHead' = Advance(txHead)
  /\ UNCHANGED <<TXIE, TXREG, txTail, txRemaining, written, line, ghost>>

\* Mutant: the transmit interrupt is enabled again on the direct path only.
WriteCountReturns ==
  /\ At("count", "idle")
  /\ txRemaining' = txRemaining - 1
  /\ UNCHANGED <<TXIE, TXREG, txHead, txTail, txBuffer, written, line, ghost>>

WriteCount ==
  /\ At("count", "enable")
  /\ txRemaining' = txRemaining - 1
  /\ UNCHANGED <<TXIE, TXREG, txHead, txTail, txBuffer, written, line, ghost>>

WriteEnable ==
  /\ At("enable", "idle")
  /\ TXIE' = TRUE
  /\ UNCHANGED <<TXREG, ring, written, line, ghost>>

-----------------------------------------------------------------------------
(* The transmitter and its interrupt.  TXIF is set while TXREG is empty.    *)

\* Mutant: the tail is advanced before the byte is taken.
TransmitISRSendNextSlot ==
  /\ TXIE
  /\ TXREG = Empty
  /\ txRemaining < Size
  /\ TXREG' = txBuffer[Advance(txTail)]
  /\ txTail' = Advance(txTail)
  /\ txRemaining' = txRemaining + 1
  /\ UNCHANGED <<TXIE, txHead, txBuffer, pc, written, line, ghost>>

\* EUSART_Transmit_ISR with a byte in the ring.
TransmitISRSend ==
  /\ TXIE
  /\ TXREG = Empty
  /\ txRemaining < Size
  /\ TXREG' = txBuffer[txTail]
  /\ txTail' = Advance(txTail)
  /\ txRemaining' = txRemaining + 1
  /\ UNCHANGED <<TXIE, txHead, txBuffer, pc, written, line, ghost>>

\* Mutant: the ISR gives up while one byte is still queued.
TransmitISRStopEarly ==
  /\ TXIE
  /\ TXREG = Empty
  /\ txRemaining >= Size - 1
  /\ TXIE' = FALSE
  /\ UNCHANGED <<TXREG, ring, pc, written, line, ghost>>

\* EUSART_Transmit_ISR with nothing left to send.
TransmitISRStop ==
  /\ TXIE
  /\ TXREG = Empty
  /\ txRemaining >= Size
  /\ TXIE' = FALSE
  /\ UNCHANGED <<TXREG, ring, pc, written, line, ghost>>

\* The hardware shifts the byte in TXREG out on the pin.
LineShift ==
  /\ TXREG # Empty
  /\ line' = TXREG
  /\ TXREG' = Empty
  /\ UNCHANGED <<TXIE, ring, pc, written, ghost>>

-----------------------------------------------------------------------------
(* The two operations that clear the ring.                                  *)

\* Mutant: the tail keeps its place when the ring is cleared.
ClearRingKeepsTail ==
  /\ resets < MaxResets
  /\ resets' = resets + 1
  /\ TXIE' = FALSE
  /\ txHead' = 0
  /\ txRemaining' = Size
  /\ UNCHANGED <<TXREG, txTail, txBuffer, pc, written, line>>

ClearRing ==
  /\ resets < MaxResets
  /\ resets' = resets + 1
  /\ TXIE' = FALSE
  /\ txHead' = 0
  /\ txTail' = 0
  /\ txRemaining' = Size
  /\ UNCHANGED <<TXREG, txBuffer, pc, written, line>>

\* EUSART_Initialize from the USB interrupt (EVENT_CONFIGURED, SET_LINE_CODING):
\* it can hit the main loop anywhere inside EUSART_Write.
Initialize ==
  /\ ClearRing
  /\ torn' = (torn \/ pc = "count")

\* EUSART_FlushBuffer, called by the main loop between two writes.
FlushBuffer ==
  /\ pc = "idle"
  /\ ClearRing
  /\ UNCHANGED torn

-----------------------------------------------------------------------------
Init ==
  /\ TXIE = FALSE
  /\ TXREG = Empty
  /\ txHead = 0
  /\ txTail = 0
  /\ txBuffer = [i \in Slots |-> Empty]
  /\ txRemaining = Size
  /\ pc = "idle"
  /\ written = 0
  /\ line = 0
  /\ resets = 0
  /\ torn = FALSE

Write ==
  \/ WriteCall \/ WriteSpin \/ WriteTestDirect \/ WriteTestQueue \/ WriteDirect
  \/ WriteMask \/ WriteStore \/ WriteCount \/ WriteEnable

TransmitISR == TransmitISRSend \/ TransmitISRStop

Next == Write \/ TransmitISR \/ LineShift \/ Initialize \/ FlushBuffer

Spec == Init /\ [][Next]_vars

\* The processor runs the main loop (a call of EUSART_Write, once begun, goes on),
\* a pending interrupt is served and the hardware shifts bytes out.
Fairness ==
  /\ WF_vars(Write /\ pc # "idle")
  /\ WF_vars(TransmitISR)
  /\ WF_vars(LineShift)

FairSpec == Spec /\ Fairness

-----------------------------------------------------------------------------
PCs == {"idle", "spin", "test", "direct", "mask", "store", "count", "enable"}

\* The type invariant: the counters never leave the range of the buffer.
TypeOK ==
  /\ TXIE \in BOOLEAN
  /\ TXREG \in Nat
  /\ txHead \in Slots
  /\ txTail \in Slots
  /\ txBuffer \in [Slots -> Nat]
  /\ txRemaining \in 0 .. Size
  /\ pc \in PCs
  /\ written \in Nat
  /\ line \in Nat
  /\ resets \in Nat
  /\ torn \in BOOLEAN

\* The slot that lies k places after index i.
SlotAfter(i, k) == IF i + k >= Size THEN i + k - Size ELSE i + k

\* Head, tail and remaining always agree on how many bytes the ring holds, also
\* between the statements of EUSART_Write, as long as no EUSART_Initialize fell
\* between the advance of eusartTxHead and the decrement of the counter.
RingAligned ==
  ~torn => txHead = SlotAfter(txTail, IF pc = "count" THEN Used + 1 ELSE Used)

\* No byte is left in the ring with the interrupt that would send it disabled,
\* except inside the statements of EUSART_Write that will enable it again.
NoStrandedByte ==
  Used > 0 /\ ~TXIE => pc \in {"store", "count", "enable"}

\* Bytes leave in the order they were written and none twice, even when clears
\* of the ring drop some of them.
LineInOrder ==
  [][line' # line /\ ~torn => line < line' /\ line' <= written]_vars

\* Every byte written reaches the line, unless the ring is cleared.
AllSent == \A k \in 1 .. MaxBytes : (written >= k) ~> (line >= k \/ resets > 0)

\* Until the ring is cleared, EUSART_Write and its ISR are a lossless FIFO of the
\* ring, TXREG and the byte of the call in progress.
Fifo == INSTANCE ByteFifo WITH
          Capacity <- Size + 2, Lossless <- TRUE,
          accepted <- written, emitted <- line

FifoUntilCleared ==
  Fifo!FifoInit /\ [][resets' = 0 => Fifo!FifoNext \/ UNCHANGED <<written, line>>]_vars

=============================================================================
