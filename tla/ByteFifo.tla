------------------------------ MODULE ByteFifo ------------------------------
(***************************************************************************)
(* What one direction of the serial driver (eusart.c) promises its         *)
(* callers: a FIFO of bytes.  Bytes are numbered in the order in which     *)
(* they enter, so the whole content of the FIFO is the interval            *)
(* emitted+1 .. accepted.                                                  *)
(*                                                                         *)
(* With Lossless = TRUE every byte comes out, in order, and no more than   *)
(* Capacity bytes are inside.  With Lossless = FALSE bytes may disappear   *)
(* but what comes out is still in order and never repeated.                *)
(***************************************************************************)
EXTENDS Naturals

CONSTANTS
  Capacity,   \* bytes the FIFO may hold when it is lossless
  Lossless    \* TRUE: every byte accepted is emitted

VARIABLES
  accepted,   \* number of the last byte that entered
  emitted     \* number of the last byte that left

fifoVars == <<accepted, emitted>>

FifoInit == accepted = 0 /\ emitted = 0

Put ==
  /\ Lossless => accepted - emitted < Capacity
  /\ accepted' = accepted + 1
  /\ UNCHANGED emitted

Take ==
  /\ \E k \in (emitted + 1) .. accepted :
       /\ Lossless => k = emitted + 1
       /\ emitted' = k
  /\ UNCHANGED accepted

FifoNext == Put \/ Take

FifoSpec == FifoInit /\ [][FifoNext]_fifoVars

\* The same promise with progress: a byte that stays inside is emitted in the end.
FairFifoSpec == FifoSpec /\ WF_fifoVars(Take)

=============================================================================
