------------------------------ MODULE EusartRx ------------------------------
(***************************************************************************)
(* The receive half of eusart.c: the hardware receive FIFO, the ring that  *)
(* EUSART_Receive_ISR fills and EUSART_Read empties, and the operations    *)
(* that clear the ring: EUSART_Initialize, which the USB stack calls from  *)
(* interrupt context, and EUSART_FlushBuffer, called by the main loop.     *)
(*                                                                         *)
(* EUSART_Receive_ISR ignores overruns: it stores and counts although the  *)
(* ring is full, and eusartRxCount is an 8-bit counter that wraps.  The    *)
(* module keeps both.  Bytes are numbered in the order they arrive on the  *)
(* RX pin; main-loop code is split where an interrupt matters.             *)
(***************************************************************************)
EXTENDS Integers, Sequences

CONSTANTS
  Size,       \* EUSART_RX_BUFFER_SIZE
  CountMod,   \* 2^8: values of eusartRxCount
  HwDepth,    \* bytes the hardware receive FIFO holds (RCREG)
  MaxBytes,   \* bound: bytes that arrive
  MaxResets   \* bound: calls of EUSART_Initialize and EUSART_FlushBuffer

ASSUME RxConstants ==
  /\ Size \in Nat \ {0}
  /\ HwDepth \in Nat \ {0}
  /\ CountMod \in Nat
  /\ CountMod > Size + 1      \* an overrun can be counted
  /\ CountMod % Size = 0
  /\ MaxBytes \in Nat
  /\ MaxResets \in Nat

VARIABLES
  RCIE,      \* PIE1bits.RCIE
  RCREG,     \* the hardware FIFO, a sequence of bytes
  OERR,      \* RCSTAbits.OERR
  rxHead,    \* eusartRxHead
  rxTail,    \* eusartRxTail
  rxBuffer,  \* eusartRxBuffer
  rxCount,   \* eusartRxCount
  pc,        \* where the main loop is inside EUSART_Read or EUSART_FlushBuffer
  arrived,   \* number of the last byte that arrived on the pin
  got,       \* number of the byte the last EUSART_Read took
  resets,    \* calls of EUSART_Initialize and EUSART_FlushBuffer so far
  overrun,   \* history: the ring has overflowed and not been empty since
  lossy,     \* history: a byte has been lost in the hardware or the ring
  torn       \* history: a clear of the ring crossed EUSART_Read or the ISR

hw    == <<RCREG, OERR>>
ring  == <<rxHead, rxTail, rxBuffer, rxCount>>
ghost == <<resets, torn>>
vars  == <<RCIE, hw, ring, pc, arrived, got, overrun, lossy, ghost>>

Slots == 0 .. Size - 1

\* What the source does to an index after buffer[index++].
Advance(index) == IF Size <= index + 1 THEN 0 ELSE index + 1

At(from, to) == pc = from /\ pc' = to

\* An overrun starts when more bytes are counted than there are slots, and its
\* effects end when the ring is seen empty.
NoteOverrun(count) ==
  /\ overrun' = (count # 0 /\ (overrun \/ count > Size))
  /\ lossy' = (lossy \/ overrun')

-----------------------------------------------------------------------------
(* The hardware receiver.  While OERR is set it accepts nothing.            *)

Arrive ==
  /\ arrived < MaxBytes
  /\ arrived' = arrived + 1
  /\ IF OERR \/ Len(RCREG) = HwDepth
       THEN OERR' = TRUE /\ lossy' = TRUE /\ UNCHANGED RCREG
       ELSE RCREG' = Append(RCREG, arrived') /\ UNCHANGED <<OERR, lossy>>
  /\ UNCHANGED <<RCIE, ring, pc, got, overrun, ghost>>

-----------------------------------------------------------------------------
(* EUSART_Receive_ISR: RCIF is set while the hardware FIFO holds a byte.    *)

\* Mutant: the byte is dropped and the receiver not restarted.
ReceiveISRErrorDrops ==
  /\ RCIE
  /\ RCREG # <<>>
  /\ OERR
  /\ RCREG' = <<>>
  /\ UNCHANGED <<RCIE, OERR, ring, pc, arrived, got, overrun, lossy, ghost>>

\* CREN is turned off and on again; what the FIFO still holds may survive.
ReceiveISRError ==
  /\ RCIE
  /\ RCREG # <<>>
  /\ OERR
  /\ OERR' = FALSE
  /\ RCREG' \in {RCREG, <<>>}
  /\ UNCHANGED <<RCIE, ring, pc, arrived, got, overrun, lossy, ghost>>

\* Mutant: the count stops at the size of the ring while the head goes on.
ReceiveISRStoreSaturating ==
  /\ RCIE
  /\ RCREG # <<>>
  /\ ~OERR
  /\ rxBuffer' = [rxBuffer EXCEPT ![rxHead] = Head(RCREG)]
  /\ rxHead' = Advance(rxHead)
  /\ rxCount' = IF rxCount = Size THEN Size ELSE rxCount + 1
  /\ RCREG' = Tail(RCREG)
  /\ NoteOverrun(rxCount')
  /\ torn' = (torn \/ pc \in {"flushTail", "flushCount"})
  /\ UNCHANGED <<RCIE, OERR, rxTail, pc, arrived, got, resets>>

ReceiveISRStore ==
  /\ RCIE
  /\ RCREG # <<>>
  /\ ~OERR
  /\ rxBuffer' = [rxBuffer EXCEPT ![rxHead] = Head(RCREG)]
  /\ rxHead' = Advance(rxHead)
  /\ rxCount' = (rxCount + 1) % CountMod
  /\ RCREG' = Tail(RCREG)
  /\ NoteOverrun(rxCount')
  /\ torn' = (torn \/ pc \in {"flushTail", "flushCount"})
  /\ UNCHANGED <<RCIE, OERR, rxTail, pc, arrived, got, resets>>

-----------------------------------------------------------------------------
(* EUSART_Read.  Its callers test EUSART_DataReady (eusartRxCount) first.   *)

ReadCall ==
  /\ At("idle", "spin")
  /\ rxCount # 0
  /\ UNCHANGED <<RCIE, hw, ring, arrived, got, overrun, lossy, ghost>>

ReadSpin ==
  /\ At("spin", "mask")
  /\ rxCount # 0
  /\ UNCHANGED <<RCIE, hw, ring, arrived, got, overrun, lossy, ghost>>

ReadMask ==
  /\ At("mask", "take")
  /\ RCIE' = FALSE
  /\ UNCHANGED <<hw, ring, arrived, got, overrun, lossy, ghost>>

\* Mutant: the tail is advanced before the byte is taken.
ReadTakeNextSlot ==
  /\ At("take", "count")
  /\ got' = rxBuffer[Advance(rxTail)]
  /\ rxTail' = Advance(rxTail)
  /\ UNCHANGED <<RCIE, hw, rxHead, rxBuffer, rxCount, arrived, overrun, lossy, ghost>>

ReadTake ==
  /\ At("take", "count")
  /\ got' = rxBuffer[rxTail]
  /\ rxTail' = Advance(rxTail)
  /\ UNCHANGED <<RCIE, hw, rxHead, rxBuffer, rxCount, arrived, overrun, lossy, ghost>>

ReadCount ==
  /\ At("count", "unmask")
  /\ rxCount' = (rxCount - 1) % CountMod
  /\ NoteOverrun(rxCount')
  /\ UNCHANGED <<RCIE, hw, rxHead, rxTail, rxBuffer, arrived, got, ghost>>

ReadUnmask ==
  /\ At("unmask", "idle")
  /\ RCIE' = TRUE
  /\ UNCHANGED <<hw, ring, arrived, got, overrun, lossy, ghost>>

-----------------------------------------------------------------------------
(* The operations that clear the ring.                                      *)

CountReset == resets < MaxResets /\ resets' = resets + 1

\* EUSART_Initialize from the USB interrupt (EVENT_CONFIGURED, SET_LINE_CODING):
\* it can hit the main loop anywhere inside EUSART_Read, and it leaves RCIE = 1.
Initialize ==
  /\ CountReset
  /\ RCIE' = TRUE
  /\ rxHead' = 0
  /\ rxTail' = 0
  /\ rxCount' = 0
  /\ overrun' = FALSE
  /\ torn' = (torn \/ pc \in {"mask", "take", "count", "flushTail", "flushCount"})
  /\ UNCHANGED <<hw, rxBuffer, pc, arrived, got, lossy>>

\* EUSART_FlushBuffer zeroes the buffer and then clears the three counters one
\* after the other, with the receive interrupt enabled.
FlushHead ==
  /\ At("idle", "flushTail")
  /\ CountReset
  /\ rxBuffer' = [i \in Slots |-> 0]
  /\ rxHead' = 0
  /\ UNCHANGED <<RCIE, hw, rxTail, rxCount, arrived, got, overrun, lossy, torn>>

FlushTail ==
  /\ At("flushTail", "flushCount")
  /\ rxTail' = 0
  /\ UNCHANGED <<RCIE, hw, rxHead, rxBuffer, rxCount, arrived, got, overrun, lossy, ghost>>

FlushCount ==
  /\ At("flushCount", "idle")
  /\ rxCount' = 0
  /\ overrun' = FALSE
  /\ UNCHANGED <<RCIE, hw, rxHead, rxTail, rxBuffer, arrived, got, lossy, ghost>>

-----------------------------------------------------------------------------
Init ==
  /\ RCIE = TRUE
  /\ RCREG = <<>>
  /\ OERR = FALSE
  /\ rxHead = 0
  /\ rxTail = 0
  /\ rxBuffer = [i \in Slots |-> 0]
  /\ rxCount = 0
  /\ pc = "idle"
  /\ arrived = 0
  /\ got = 0
  /\ resets = 0
  /\ overrun = FALSE
  /\ lossy = FALSE
  /\ torn = FALSE

Read == ReadCall \/ ReadSpin \/ ReadMask \/ ReadTake \/ ReadCount \/ ReadUnmask
ReceiveISR == ReceiveISRError \/ ReceiveISRStore
FlushBuffer == FlushHead \/ FlushTail \/ FlushCount

Next == Arrive \/ ReceiveISR \/ Read \/ Initialize \/ FlushBuffer

Spec == Init /\ [][Next]_vars

\* A pending interrupt is served, and a call that has begun to mask it goes on.
\* Nobody has to call EUSART_Read: the bridge reads when rxByteFlag tells it to and
\* has room, and then one byte.
Fairness ==
  /\ WF_vars(ReceiveISR)
  /\ WF_vars(ReadMask \/ ReadTake \/ ReadCount \/ ReadUnmask)

FairSpec == Spec /\ Fairness

-----------------------------------------------------------------------------
PCs == {"idle", "spin", "mask", "take", "count", "unmask", "flushTail", "flushCount"}

\* The type invariant: indices stay inside the buffer, whatever overflows.
TypeOK ==
  /\ RCIE \in BOOLEAN
  /\ RCREG \in Seq(Nat)
  /\ Len(RCREG) <= HwDepth
  /\ OERR \in BOOLEAN
  /\ rxHead \in Slots
  /\ rxTail \in Slots
  /\ rxBuffer \in [Slots -> Nat]
  /\ rxCount \in 0 .. CountMod - 1
  /\ pc \in PCs
  /\ arrived \in Nat
  /\ got \in Nat
  /\ resets \in Nat
  /\ overrun \in BOOLEAN
  /\ lossy \in BOOLEAN
  /\ torn \in BOOLEAN

\* Bytes counted but already taken by the EUSART_Read in progress.
Taken == IF pc = "count" THEN 1 ELSE 0

\* Head, tail and count agree modulo the size of the ring, through every overrun
\* and every wrap of the 8-bit counter: an empty count always means that head and
\* tail meet, so an overrun cannot leave the reader behind the writer for ever.
RingAligned ==
  ~torn /\ pc \notin {"flushTail", "flushCount"} =>
    (rxHead - rxTail - rxCount + Taken) % Size = 0

\* While no overrun is in effect, EUSART_Read returns newer bytes than ever before:
\* nothing is reordered, repeated or made up.
ReadInOrder ==
  [][pc = "take" /\ pc' = "count" /\ ~torn /\ ~overrun => got < got' /\ got' <= arrived]_vars

\* eusart.c:79 "disable interrupts before changing states": after a change of state
\* by EUSART_Initialize the count never exceeds the bytes that have arrived.
NoPhantomBytes == rxCount <= arrived

\* While nothing clears the ring and no byte is lost to an overrun, the driver is a
\* lossless FIFO of the hardware FIFO and the ring.
Fifo == INSTANCE ByteFifo WITH
          Capacity <- Size + HwDepth + 1, Lossless <- TRUE,
          accepted <- arrived, emitted <- got

FifoUntilLoss ==
  Fifo!FifoInit
  /\ [][resets' = 0 /\ ~lossy' => Fifo!FifoNext \/ UNCHANGED <<arrived, got>>]_vars

\* "EUSART error - restart": reception does not stop for good.  After an overrun of
\* the hardware FIFO, and after EUSART_Read kept the interrupt masked, the FIFO is
\* emptied into the ring and the receiver accepts bytes, although nobody reads the
\* ring any more and whatever is cleared meanwhile.
ReceiverRecovers ==
  (OERR \/ RCREG # <<>>) ~> (~OERR /\ RCREG = <<>>)

=============================================================================
