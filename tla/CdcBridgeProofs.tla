-------------------------- MODULE CdcBridgeProofs --------------------------
(***************************************************************************)
(* The two directions of the bridge keep out of each other's way in the    *)
(* one array they share, for every size of packet and of UART queue.       *)
(*                                                                         *)
(* Each direction is a chain of places a byte passes through (TowardsHost, *)
(* TowardsModem).  A step moves bytes from one place to the next one, so   *)
(* that the chain as a whole stays the same, or adds a byte at its end.    *)
(* What makes that inductive is Flow: a transfer handed to the CDC driver  *)
(* is copied out of USB_Buffer in the same pass of the main loop, before   *)
(* anything else is put there.                                             *)
(***************************************************************************)
EXTENDS CdcBridge, SequenceTheorems, TLAPS

Byte == -MaxIn .. MaxOut

Sequences == {toHost, inPacket, taken, rxQueue, toModem, outPacket} \subseteq Seq(Byte)

Flow ==
  /\ pc = "take" => NextUSBOut < EpSize - 1
  /\ cdc_trf_state = "BUSY" => pc = "service" /\ NextUSBOut = 0 /\ inPacket = <<>>
  /\ cdc_trf_state = "READY" => inPacket = <<>>
  /\ ~configured => outPacket = <<>>

\* While a packet is being sent to the UART there is a next byte.
PacketLeft == ~spoilt /\ RS232_Out_Data_Rdy => RS232cp < LastRS232Out

\* TypeOK in parts.
Control ==
  /\ pc \in {"gets", "write", "read", "take", "clear", "put", "service"}
  /\ configured \in BOOLEAN /\ rxByteFlag \in BOOLEAN
  /\ RS232_Out_Data_Rdy \in BOOLEAN /\ spoilt \in BOOLEAN /\ rxLost \in BOOLEAN
  /\ cdc_trf_state \in {"READY", "BUSY", "COMPLETING"}

Numbers ==
  /\ NextUSBOut \in 0 .. EpSize - 1
  /\ LastRS232Out \in 0 .. EpSize
  /\ RS232cp \in 0 .. IndexMod - 1
  /\ cdc_tx_len \in 0 .. EpSize - 1
  /\ out \in 0 .. MaxOut /\ in \in 0 .. MaxIn /\ resets \in 0 .. MaxResets

Bytes == USB_Buffer \in [Indices -> Byte] /\ uartTx \in Byte

Lengths ==
  /\ Len(outPacket) \in 0 .. EpSize /\ Len(inPacket) \in 0 .. EpSize - 1
  /\ Len(rxQueue) \in 0 .. RxCountMod - 1

Inv == TypeOK /\ Sequences /\ Flow /\ PacketLeft

-----------------------------------------------------------------------------
(* Sequences of bytes.                                                      *)

Cut(b, f, t) == [i \in 1 .. t - f |-> b[f + i - 1]]

LEMMA StoredIsCut ==
  /\ \A f, t : Stored(f, t) = Cut(USB_Buffer, f, t)
  /\ \A f, t : Stored(f, t)' = Cut(USB_Buffer', f, t)
BY DEF Stored, Cut

LEMMA CutTyped ==
  ASSUME NEW b \in [Indices -> Byte], NEW f \in Nat, NEW t \in Nat,
         f <= t, t <= EpSize
  PROVE  Cut(b, f, t) \in Seq(Byte) /\ Len(Cut(b, f, t)) = t - f
<1>1. \A i \in 1 .. t - f : f + i - 1 \in Indices
  BY BridgeConstants DEF Indices
<1>2. \A i \in 1 .. t - f : b[f + i - 1] \in Byte
  BY <1>1
<1> DEFINE s == [i \in 1 .. t - f |-> b[f + i - 1]]
<1>3. s \in [1 .. t - f -> Byte] /\ t - f \in Nat
  BY <1>2
<1>4. s \in Seq(Byte)
  BY <1>3
<1>5. Len(s) = t - f
  BY <1>3, <1>4, LenProperties
<1> QED
  BY <1>4, <1>5 DEF Cut

LEMMA Associative ==
  \A a, b, c \in Seq(Byte) : (a \o b) \o c = a \o (b \o c)
BY ConcatAssociative

LEMMA Joined ==
  \A a, b \in Seq(Byte) : a \o b \in Seq(Byte)
BY ConcatProperties

\* A queue gives its head to the end of the place before it.
LEMMA FrontMoves ==
  ASSUME NEW s \in Seq(Byte), NEW t \in Seq(Byte), NEW q \in Seq(Byte), q # <<>>,
         Len(t) = Len(s) + 1, \A i \in 1 .. Len(s) : t[i] = s[i],
         t[Len(s) + 1] = Head(q)
  PROVE  t \o Tail(q) = s \o q
<1>0. PICK r \in Seq(Byte) : r = Tail(q)
  BY HeadTailProperties
<1>1. /\ Len(r) = Len(q) - 1 /\ Len(q) \in Nat \ {0} /\ Head(q) = q[1]
      /\ \A i \in 1 .. Len(q) - 1 : r[i] = q[i + 1]
  BY <1>0, HeadTailProperties, EmptySeq
<1>2. Len(s) \in Nat /\ Len(t) \in Nat /\ Len(r) \in Nat
  BY LenProperties
<1>3. t \o r = s \o q
  <2>1. /\ t \o r \in Seq(Byte) /\ Len(t \o r) = Len(t) + Len(r)
        /\ \A i \in 1 .. Len(t) + Len(r) :
             (t \o r)[i] = IF i <= Len(t) THEN t[i] ELSE r[i - Len(t)]
    BY ConcatProperties
  <2>2. /\ s \o q \in Seq(Byte) /\ Len(s \o q) = Len(s) + Len(q)
        /\ \A i \in 1 .. Len(s) + Len(q) :
             (s \o q)[i] = IF i <= Len(s) THEN s[i] ELSE q[i - Len(s)]
    BY ConcatProperties
  <2>3. Len(t) + Len(r) = Len(s) + Len(q)
    BY <1>1, <1>2
  <2>4. ASSUME NEW i \in 1 .. Len(s) + Len(q) PROVE (t \o r)[i] = (s \o q)[i]
    <3>2. CASE i <= Len(s)
      BY <2>1, <2>2, <2>3, <3>2, <1>2
    <3>3. CASE i = Len(s) + 1
      BY <2>1, <2>2, <2>3, <3>3, <1>1, <1>2
    <3>4. CASE i > Len(s) + 1
      <4>1. i - Len(t) \in 1 .. Len(q) - 1 /\ (i - Len(t)) + 1 = i - Len(s)
        BY <3>4, <1>1, <1>2
      <4>2. r[i - Len(t)] = q[i - Len(s)]
        BY <4>1, <1>1
      <4> QED
        BY <2>1, <2>2, <2>3, <3>4, <4>2, <1>2
    <3> QED
      BY <3>2, <3>3, <3>4, <1>1, <1>2
  <2> QED
    BY <2>1, <2>2, <2>3, <2>4, SeqEqual, SMTT(30)
<1> QED
  BY <1>0, <1>3

\* The ring after one more byte: typed, whatever overruns, and while there is room
\* the byte simply comes last.
LEMMA ReceivedTyped ==
  ASSUME NEW q \in Seq(Byte), NEW b \in Byte, Len(q) <= RxCountMod - 1
  PROVE  /\ Received(q, b) \in Seq(Byte) /\ Len(Received(q, b)) \in 0 .. RxCountMod - 1
         /\ Len(q) < RxSize => Received(q, b) = Append(q, b)
<1> DEFINE n == Len(q) + 1
           f == [k \in 1 .. n |-> IF (n - k) % RxSize = 0 THEN b ELSE q[k]]
<1>1. /\ n \in Nat \ {0} /\ RxCountMod \in Nat /\ RxSize \in Nat \ {0}
      /\ RxCountMod > RxSize
  BY LenProperties, BridgeConstants
<1>2. Received(q, b) = IF n = RxCountMod THEN <<>> ELSE f
  BY DEF Received
<1>3. \A k \in 1 .. n : f[k] \in Byte
  <2> SUFFICES ASSUME NEW k \in 1 .. n PROVE f[k] \in Byte
    OBVIOUS
  <2>1. k = n => (n - k) % RxSize = 0
    BY <1>1
  <2>2. k # n => q[k] \in Byte
    BY <1>1, ElementOfSeq
  <2> QED
    BY <2>1, <2>2
<1>4. f \in Seq(Byte) /\ Len(f) = n
  <2>1. f \in [1 .. n -> Byte]
    BY <1>3
  <2> HIDE DEF f
  <2>2. f \in Seq(Byte)
    BY <1>1, <2>1
  <2> QED
    BY <1>1, <2>1, <2>2, LenProperties
<1>5. ASSUME Len(q) < RxSize PROVE Received(q, b) = Append(q, b)
  <2>1. n # RxCountMod
    BY <1>1, <1>5
  <2>2. /\ Append(q, b) \in Seq(Byte) /\ Len(Append(q, b)) = n
        /\ \A k \in 1 .. Len(q) : Append(q, b)[k] = q[k]
        /\ Append(q, b)[n] = b
    BY AppendProperties
  <2>3. ASSUME NEW k \in 1 .. n PROVE f[k] = Append(q, b)[k]
    <3>1. CASE k = n
      BY <1>1, <2>2, <3>1
    <3>2. CASE k # n
      <4>1. n - k \in 1 .. RxSize - 1 /\ k \in 1 .. Len(q)
        BY <1>1, <1>5, <3>2
      <4>2. (n - k) % RxSize = n - k
        BY <4>1, <1>1
      <4> QED
        BY <2>2, <4>1, <4>2
    <3> QED
      BY <3>1, <3>2
  <2> HIDE DEF f
  <2>4. f = Append(q, b)
    BY <1>4, <2>2, <2>3, SeqEqual
  <2> QED
    BY <1>2, <2>1, <2>4
<1> HIDE DEF f
<1> QED
  BY <1>1, <1>2, <1>4, <1>5

LEMMA Constants ==
  /\ EpSize \in Nat /\ EpSize > 1 /\ IndexMod \in Nat /\ IndexMod > EpSize
  /\ RxSize \in Nat /\ RxSize > 0 /\ RxCountMod \in Nat /\ RxCountMod > RxSize /\ MaxOut \in Nat /\ MaxIn \in Nat /\ MaxResets \in Nat
BY BridgeConstants

LEMMA Parts == TypeOK <=> Control /\ Numbers /\ Bytes /\ Lengths
BY DEF TypeOK, Control, Numbers, Bytes, Byte, Lengths

LEMMA PartsNext == TypeOK' <=> Control' /\ Numbers' /\ Bytes' /\ Lengths'
BY DEF TypeOK, Control, Numbers, Bytes, Byte, Lengths

LEMMA InitInv == Init => Inv
<1> SUFFICES ASSUME Init PROVE Inv
  OBVIOUS
<1>1. Control
  BY DEF Init, Control
<1>3. Numbers
  BY Constants DEF Init, Numbers
<1>4. Bytes
  BY Constants DEF Init, Bytes, Byte, Indices
<1>5. Lengths
  BY Constants DEF Init, Lengths
<1>2. Sequences /\ Flow /\ PacketLeft
  BY DEF Init, Sequences, Flow, PacketLeft
<1> QED
  BY <1>1, <1>2, <1>3, <1>4, <1>5, Parts DEF Inv

LEMMA PacketInv ==
  ASSUME Inv, GetPacket
  PROVE  Inv'
<1> USE DEF GetPacket, At, packetVars, cdcVars, pcVars, uartVars, rxVars, ghost
<1>1. Control /\ Numbers /\ Bytes /\ Lengths /\ Sequences /\ Flow /\ PacketLeft
  BY Parts DEF Inv
<1> USE Constants
<1>2. Control'
  BY <1>1 DEF Control
<1>3. Numbers'
  BY <1>1 DEF Numbers, Lengths, Flow
<1>4. Bytes'
  <2>1. \A i \in Indices : i < Len(outPacket) => outPacket[i + 1] \in Byte
    BY <1>1, ElementOfSeq DEF Sequences, Indices, Lengths
  <2> QED
    BY <1>1, <2>1 DEF Bytes
<1>5. Lengths'
  BY <1>1 DEF Lengths, Sequences, Numbers
<1>6. Sequences'
  BY <1>1 DEF Sequences, Byte, Numbers, Bytes, Indices
<1>7. Flow'
  BY <1>1 DEF Flow
<1>8. PacketLeft'
  BY <1>1 DEF PacketLeft, Numbers, Lengths, Sequences
<1> QED
  BY <1>2, <1>3, <1>4, <1>5, <1>6, <1>7, <1>8, PartsNext DEF Inv

LEMMA QuietInv ==
  ASSUME Inv, NoPacket \/ PacketPending \/ WriteNothing \/ ReadTest \/ ReadClear
  PROVE  Inv'
<1> USE DEF NoPacket, PacketPending, WriteNothing, ReadTest, MayRead, ReadClear,
            At, packetVars, cdcVars, pcVars, uartVars, rxVars, ghost
<1>1. Control /\ Numbers /\ Bytes /\ Lengths /\ Sequences /\ Flow /\ PacketLeft
  BY Parts DEF Inv
<1> USE Constants
<1>2. Control'
  BY <1>1 DEF Control
<1>3. Numbers'
  BY <1>1 DEF Numbers, Lengths, Flow
<1>4. Bytes'
  BY <1>1 DEF Bytes, Byte, Indices, Sequences, Numbers
<1>5. Lengths'
  BY <1>1 DEF Lengths, Sequences, Numbers
<1>6. Sequences'
  BY <1>1 DEF Sequences, Byte, Numbers, Bytes, Indices
<1>7. Flow'
  BY <1>1 DEF Flow
<1>8. PacketLeft'
  BY <1>1 DEF PacketLeft, Numbers, Lengths, Sequences
<1> QED
  BY <1>2, <1>3, <1>4, <1>5, <1>6, <1>7, <1>8, PartsNext DEF Inv

LEMMA WriteInv ==
  ASSUME Inv, WriteByte
  PROVE  Inv'
<1> USE DEF WriteByte, ByteAt, At, packetVars, cdcVars, pcVars, uartVars, rxVars, ghost
<1>1. Control /\ Numbers /\ Bytes /\ Lengths /\ Sequences /\ Flow /\ PacketLeft
  BY Parts DEF Inv
<1> USE Constants
<1>2. Control'
  BY <1>1 DEF Control
<1>3. Numbers'
  BY <1>1 DEF Numbers, Lengths, Flow
<1>4. Bytes'
  BY <1>1 DEF Bytes, Byte, Indices, Sequences, Numbers
<1>5. Lengths'
  BY <1>1 DEF Lengths, Sequences, Numbers
<1>6. Sequences'
  BY <1>1 DEF Sequences, Byte, Numbers, Bytes, Indices
<1>7. Flow'
  BY <1>1 DEF Flow
<1>8. PacketLeft'
  <2>1. CASE ~spoilt
    <3>1. RS232cp \in Nat /\ RS232cp + 1 < IndexMod
      BY <1>1, <2>1 DEF PacketLeft, Numbers
    <3>2. RS232cp' = RS232cp + 1
      BY <3>1
    <3>3. RS232_Out_Data_Rdy' => RS232cp' # LastRS232Out
      BY Zenon
    <3>4. RS232cp < LastRS232Out /\ LastRS232Out \in Int
      BY <1>1, <2>1 DEF PacketLeft, Numbers
    <3>5. RS232_Out_Data_Rdy' => RS232cp + 1 < LastRS232Out
      BY <3>1, <3>2, <3>3, <3>4
    <3> QED
      BY <3>2, <3>5 DEF PacketLeft
  <2>2. CASE spoilt
    BY <2>2 DEF PacketLeft
  <2> QED
    BY <2>1, <2>2
<1> QED
  BY <1>2, <1>3, <1>4, <1>5, <1>6, <1>7, <1>8, PartsNext DEF Inv

LEMMA TakeInv ==
  ASSUME Inv, ReadTake
  PROVE  Inv'
<1> USE DEF ReadTake, At, packetVars, cdcVars, pcVars, uartVars, rxVars, ghost
<1>1. Control /\ Numbers /\ Bytes /\ Lengths /\ Sequences /\ Flow /\ PacketLeft
  BY Parts DEF Inv
<1> USE Constants
<1>2. Control'
  BY <1>1 DEF Control
<1>3. Numbers'
  <2>1. NextUSBOut' = NextUSBOut + 1 /\ NextUSBOut < EpSize - 1
    BY <1>1 DEF Flow
  <2> QED
    BY <1>1, <2>1, SMTT(30) DEF Numbers
<1>4. Bytes'
  <2>1. rxQueue \in Seq(Byte) /\ rxQueue # <<>> /\ 0 \in Byte
    BY <1>1 DEF Sequences, Byte
  <2>2. Head(rxQueue) \in Byte
    BY <2>1, HeadTailProperties
  <2> QED
    BY <1>1, <2>1, <2>2 DEF Bytes
<1>5. Lengths'
  <2>1. Len(rxQueue') = Len(rxQueue) - 1 /\ Len(rxQueue) \in Nat \ {0}
    BY <1>1, HeadTailProperties, EmptySeq DEF Sequences
  <2> QED
    BY <1>1, <2>1 DEF Lengths
<1>6. Sequences'
  <2>1. /\ rxQueue \in Seq(Byte) /\ rxQueue # <<>> /\ taken \in Seq(Byte)
        /\ {toHost, inPacket, toModem, outPacket} \subseteq Seq(Byte)
    BY <1>1 DEF Sequences
  <2>2. Tail(rxQueue) \in Seq(Byte) /\ Head(rxQueue) \in Byte
    BY <2>1, HeadTailProperties
  <2>3. Append(taken, Head(rxQueue)) \in Seq(Byte)
    BY <2>1, <2>2, AppendProperties
  <2> QED
    BY <2>1, <2>2, <2>3 DEF Sequences
<1>7. Flow'
  BY <1>1 DEF Flow
<1>8. PacketLeft'
  BY <1>1 DEF PacketLeft, Numbers, Lengths, Sequences
<1> QED
  BY <1>2, <1>3, <1>4, <1>5, <1>6, <1>7, <1>8, PartsNext DEF Inv

LEMMA PutInv ==
  ASSUME Inv, Put
  PROVE  Inv'
<1> USE DEF Put, At, packetVars, cdcVars, pcVars, uartVars, rxVars, ghost
<1>1. Control /\ Numbers /\ Bytes /\ Lengths /\ Sequences /\ Flow /\ PacketLeft
  BY Parts DEF Inv
<1> USE Constants
<1>2. Control'
  BY <1>1 DEF Control
<1>3. Numbers'
  BY <1>1 DEF Numbers, Lengths, Flow
<1>4. Bytes'
  BY <1>1 DEF Bytes, Byte, Indices, Sequences, Numbers
<1>5. Lengths'
  BY <1>1 DEF Lengths, Sequences, Numbers
<1>6. Sequences'
  BY <1>1 DEF Sequences, Byte, Numbers, Bytes, Indices
<1>7. Flow'
  BY <1>1 DEF Flow
<1>8. PacketLeft'
  BY <1>1 DEF PacketLeft, Numbers, Lengths, Sequences
<1> QED
  BY <1>2, <1>3, <1>4, <1>5, <1>6, <1>7, <1>8, PartsNext DEF Inv

LEMMA ServiceInv ==
  ASSUME Inv, CDCTxService
  PROVE  Inv'
<1> USE DEF CDCTxService, Service, At, packetVars, cdcVars, pcVars, uartVars, rxVars, ghost
<1>1. Control /\ Numbers /\ Bytes /\ Lengths /\ Sequences /\ Flow /\ PacketLeft
  BY Parts DEF Inv
<1> USE Constants
<1>2. Control'
  BY <1>1 DEF Control, Numbers
<1>3. Numbers'
  BY <1>1 DEF Numbers, Lengths, Flow
<1>4. Bytes'
  BY <1>1 DEF Bytes, Byte, Indices, Sequences, Numbers
<1>5. Lengths'
  BY <1>1 DEF Lengths, Sequences, Numbers
<1>6. Sequences'
  <2>1. [i \in 1 .. cdc_tx_len |-> USB_Buffer[i - 1]] \in Seq(Byte)
    <3>1. \A i \in 1 .. cdc_tx_len : USB_Buffer[i - 1] \in Byte
      BY <1>1 DEF Bytes, Numbers, Indices
    <3>2. cdc_tx_len \in Nat
      BY <1>1 DEF Numbers
    <3> QED
      BY <3>1, <3>2
  <2> QED
    BY <1>1, <2>1 DEF Sequences
<1>7. Flow'
  BY <1>1 DEF Flow
<1>8. PacketLeft'
  BY <1>1 DEF PacketLeft, Numbers, Lengths, Sequences
<1> QED
  BY <1>2, <1>3, <1>4, <1>5, <1>6, <1>7, <1>8, PartsNext DEF Inv

LEMMA ModemInv ==
  ASSUME Inv, ModemByte
  PROVE  Inv'
<1> USE DEF ModemByte, At, packetVars, cdcVars, pcVars, uartVars, rxVars, ghost
<1>1. Control /\ Numbers /\ Bytes /\ Lengths /\ Sequences /\ Flow /\ PacketLeft
  BY Parts DEF Inv
<1> USE Constants
<1>2. Control'
  BY <1>1 DEF Control
<1>3. Numbers'
  BY <1>1 DEF Numbers, Lengths, Flow
<1>4. Bytes'
  BY <1>1 DEF Bytes, Byte, Indices, Sequences, Numbers
<1>0. rxQueue' \in Seq(Byte) /\ Len(rxQueue') \in 0 .. RxCountMod - 1
  <2>1. -(in + 1) \in Byte
    BY <1>1 DEF Numbers, Byte
  <2>2. rxQueue \in Seq(Byte) /\ Len(rxQueue) <= RxCountMod - 1
    BY <1>1 DEF Sequences, Lengths
  <2> QED
    BY <2>1, <2>2, ReceivedTyped
<1>5. Lengths'
  BY <1>0, <1>1 DEF Lengths
<1>6. Sequences'
  BY <1>0, <1>1 DEF Sequences
<1>7. Flow'
  BY <1>1 DEF Flow
<1>8. PacketLeft'
  BY <1>1 DEF PacketLeft, Numbers, Lengths, Sequences
<1> QED
  BY <1>2, <1>3, <1>4, <1>5, <1>6, <1>7, <1>8, PartsNext DEF Inv

LEMMA SentInv ==
  ASSUME Inv, UartSent
  PROVE  Inv'
<1> USE DEF UartSent, At, packetVars, cdcVars, pcVars, uartVars, rxVars, ghost
<1>1. Control /\ Numbers /\ Bytes /\ Lengths /\ Sequences /\ Flow /\ PacketLeft
  BY Parts DEF Inv
<1> USE Constants
<1>2. Control'
  BY <1>1 DEF Control
<1>3. Numbers'
  BY <1>1 DEF Numbers, Lengths, Flow
<1>4. Bytes'
  BY <1>1 DEF Bytes, Byte, Indices, Sequences, Numbers
<1>5. Lengths'
  BY <1>1 DEF Lengths, Sequences, Numbers
<1>6. Sequences'
  BY <1>1 DEF Sequences, Byte, Numbers, Bytes, Indices
<1>7. Flow'
  BY <1>1 DEF Flow
<1>8. PacketLeft'
  BY <1>1 DEF PacketLeft, Numbers, Lengths, Sequences
<1> QED
  BY <1>2, <1>3, <1>4, <1>5, <1>6, <1>7, <1>8, PartsNext DEF Inv

LEMMA SendInv ==
  ASSUME Inv, HostSend
  PROVE  Inv'
<1> USE DEF HostSend, At, packetVars, cdcVars, pcVars, uartVars, rxVars, ghost
<1>1. Control /\ Numbers /\ Bytes /\ Lengths /\ Sequences /\ Flow /\ PacketLeft
  BY Parts DEF Inv
<1> USE Constants
<1>2. Control'
  BY <1>1 DEF Control
<1>3. Numbers'
  BY <1>1 DEF Numbers, Lengths, Flow
<1>4. Bytes'
  BY <1>1 DEF Bytes, Byte, Indices, Sequences, Numbers
<1>5. Lengths'
  BY <1>1 DEF Lengths, Sequences, Numbers
<1>6. Sequences'
  BY <1>1 DEF Sequences, Byte, Numbers, Bytes, Indices
<1>7. Flow'
  BY <1>1 DEF Flow
<1>8. PacketLeft'
  BY <1>1 DEF PacketLeft, Numbers, Lengths, Sequences
<1> QED
  BY <1>2, <1>3, <1>4, <1>5, <1>6, <1>7, <1>8, PartsNext DEF Inv

LEMMA HostInv ==
  ASSUME Inv, HostRead
  PROVE  Inv'
<1> USE DEF HostRead, At, packetVars, cdcVars, pcVars, uartVars, rxVars, ghost
<1>1. Control /\ Numbers /\ Bytes /\ Lengths /\ Sequences /\ Flow /\ PacketLeft
  BY Parts DEF Inv
<1> USE Constants
<1>2. Control'
  BY <1>1 DEF Control
<1>3. Numbers'
  BY <1>1 DEF Numbers, Lengths, Flow
<1>4. Bytes'
  BY <1>1 DEF Bytes, Byte, Indices, Sequences, Numbers
<1>5. Lengths'
  BY <1>1 DEF Lengths, Sequences, Numbers
<1>6. Sequences'
  BY <1>1 DEF Sequences, Byte, Numbers, Bytes, Indices
<1>7. Flow'
  BY <1>1 DEF Flow
<1>8. PacketLeft'
  BY <1>1 DEF PacketLeft, Numbers, Lengths, Sequences
<1> QED
  BY <1>2, <1>3, <1>4, <1>5, <1>6, <1>7, <1>8, PartsNext DEF Inv

LEMMA ResetInv ==
  ASSUME Inv, BusReset
  PROVE  Inv'
<1> USE DEF BusReset, At, packetVars, cdcVars, pcVars, uartVars, rxVars, ghost
<1>1. Control /\ Numbers /\ Bytes /\ Lengths /\ Sequences /\ Flow /\ PacketLeft
  BY Parts DEF Inv
<1> USE Constants
<1>2. Control'
  BY <1>1 DEF Control
<1>3. Numbers'
  BY <1>1 DEF Numbers, Lengths, Flow
<1>4. Bytes'
  BY <1>1 DEF Bytes, Byte, Indices, Sequences, Numbers
<1>5. Lengths'
  BY <1>1 DEF Lengths, Sequences, Numbers
<1>6. Sequences'
  BY <1>1 DEF Sequences, Byte, Numbers, Bytes, Indices
<1>7. Flow'
  BY <1>1 DEF Flow
<1>8. PacketLeft'
  BY <1>1 DEF PacketLeft, Numbers, Lengths, Sequences
<1> QED
  BY <1>2, <1>3, <1>4, <1>5, <1>6, <1>7, <1>8, PartsNext DEF Inv

LEMMA ConfiguredInv ==
  ASSUME Inv, Configured
  PROVE  Inv'
<1> USE DEF Configured, EUSART_Initialize, At, packetVars, cdcVars, pcVars, uartVars, rxVars, ghost
<1>1. Control /\ Numbers /\ Bytes /\ Lengths /\ Sequences /\ Flow /\ PacketLeft
  BY Parts DEF Inv
<1> USE Constants
<1>2. Control'
  BY <1>1 DEF Control
<1>3. Numbers'
  BY <1>1 DEF Numbers, Lengths, Flow
<1>4. Bytes'
  BY <1>1 DEF Bytes, Byte, Indices, Sequences, Numbers
<1>5. Lengths'
  BY <1>1 DEF Lengths, Sequences, Numbers
<1>6. Sequences'
  BY <1>1 DEF Sequences, Byte, Numbers, Bytes, Indices
<1>7. Flow'
  BY <1>1 DEF Flow
<1>8. PacketLeft'
  BY <1>1 DEF PacketLeft, Numbers, Lengths, Sequences
<1> QED
  BY <1>2, <1>3, <1>4, <1>5, <1>6, <1>7, <1>8, PartsNext DEF Inv

LEMMA LineCodingInv ==
  ASSUME Inv, SetLineCoding
  PROVE  Inv'
<1> USE DEF SetLineCoding, EUSART_Initialize, At, packetVars, cdcVars, pcVars, uartVars, ghost
<1>1. Control /\ Numbers /\ Bytes /\ Lengths /\ Sequences /\ Flow /\ PacketLeft
  BY Parts DEF Inv
<1> USE Constants
<1>2. Control'
  BY <1>1 DEF Control
<1>3. Numbers'
  BY <1>1 DEF Numbers, Lengths, Flow
<1>4. Bytes'
  BY <1>1 DEF Bytes, Byte, Indices, Sequences, Numbers
<1>5. Lengths'
  BY <1>1 DEF Lengths, Sequences, Numbers
<1>6. Sequences'
  BY <1>1 DEF Sequences, Byte, Numbers, Bytes, Indices
<1>7. Flow'
  BY <1>1 DEF Flow
<1>8. PacketLeft'
  BY <1>1 DEF PacketLeft, Numbers, Lengths, Sequences
<1> QED
  BY <1>2, <1>3, <1>4, <1>5, <1>6, <1>7, <1>8, PartsNext DEF Inv

\* Types, the hand-over of a transfer to the CDC driver, and the position in a packet.
THEOREM InvAlways == Spec => []Inv
<1>1. Inv /\ [Next]_vars => Inv'
  <2> SUFFICES ASSUME Inv, [Next]_vars PROVE Inv'
    OBVIOUS
  <2>1. CASE UNCHANGED vars
    BY <2>1 DEF vars, packetVars, cdcVars, pcVars, uartVars, rxVars, ghost, Inv, TypeOK,
                Sequences, Flow, PacketLeft
  <2> QED
    BY <2>1, PacketInv, QuietInv, WriteInv, TakeInv, PutInv, ServiceInv, ModemInv,
       SentInv, SendInv, HostInv, ResetInv, ConfiguredInv, LineCodingInv DEF Next, MainLoop
<1> QED
  BY InitInv, <1>1, PTL DEF Spec

\* NextUSBOut never leaves USB_Buffer, whatever was reset or configured in between.
THEOREM TypeCorrect == Spec => []TypeOK
<1>1. Inv => TypeOK
  BY DEF Inv
<1> QED
  BY <1>1, InvAlways, PTL

-----------------------------------------------------------------------------
(* From the modem to the PC.                                                *)

Held == IF cdc_trf_state = "BUSY" THEN cdc_tx_len ELSE NextUSBOut

LEMMA HostChain == TowardsHost = inPacket \o Stored(0, Held)
BY DEF TowardsHost, Held

LEMMA HostChainNext == TowardsHost' = inPacket' \o Stored(0, Held)'
BY DEF TowardsHost, Held, Stored

LEMMA StoredTyped ==
  ASSUME Inv
  PROVE  /\ Stored(0, Held) \in Seq(Byte) /\ Len(Stored(0, Held)) = Held
         /\ Held \in Nat /\ Held < EpSize
<1>1. Numbers /\ USB_Buffer \in [Indices -> Byte]
  BY Parts DEF Inv, Bytes
<1>2. Held \in Nat /\ Held < EpSize
  BY <1>1, Constants DEF Held, Numbers
<1> QED
  BY <1>1, <1>2, CutTyped, StoredIsCut, Constants

LEMMA StoredTypedNext ==
  ASSUME Inv'
  PROVE  /\ Stored(0, Held)' \in Seq(Byte) /\ Len(Stored(0, Held)') = Held'
         /\ Held' \in Nat /\ Held' < EpSize
<1>1. Numbers' /\ USB_Buffer' \in [Indices -> Byte]
  BY PartsNext DEF Inv, Bytes
<1>2. Held' \in Nat /\ Held' < EpSize
  BY <1>1, Constants DEF Held, Numbers
<1>3. Stored(0, Held)' = Cut(USB_Buffer', 0, Held')
  BY DEF Stored, Cut
<1> QED
  BY <1>1, <1>2, <1>3, CutTyped, Constants

HostMoves ==
  ~spoilt' => /\ ~spoilt /\ taken' = taken
              /\ toHost' \o TowardsHost' = toHost \o TowardsHost

LEMMA HostMoved ==
  ASSUME ReadReachesHost, HostMoves
  PROVE  ReadReachesHost'
BY DEF ReadReachesHost, HostMoves

LEMMA HostStill ==
  ASSUME spoilt => spoilt',
         UNCHANGED <<toHost, inPacket, taken, USB_Buffer, cdcVars, NextUSBOut>>
  PROVE  HostMoves
BY HostChain, HostChainNext DEF HostMoves, Held, Stored, cdcVars

LEMMA HostGet ==
  ASSUME Inv, GetPacket
  PROVE  HostMoves
<1> SUFFICES ASSUME ~spoilt' PROVE HostMoves
  BY DEF HostMoves
<1>1. NextUSBOut \in 0 .. EpSize - 1 /\ cdc_trf_state # "BUSY"
  BY DEF Inv, TypeOK, Flow, GetPacket, At
<1>0. ~spoilt /\ ~(NextUSBOut > 0)
  BY Zenon DEF GetPacket
<1>2. ~spoilt /\ NextUSBOut = 0 /\ NextUSBOut' = 0 /\ cdc_trf_state' = cdc_trf_state
      /\ UNCHANGED <<toHost, inPacket, taken>>
  BY <1>1, <1>0, Constants DEF GetPacket, cdcVars, rxVars
<1>3. Held = 0 /\ Held' = 0
  BY <1>1, <1>2 DEF Held
<1>4. Stored(0, Held) = <<>> /\ Stored(0, Held)' = <<>>
  BY <1>3 DEF Stored
<1> QED
  BY <1>2, <1>4, HostChain, HostChainNext DEF HostMoves

\* The byte that EUSART_Read returns goes to the end of the chain.
LEMMA HostTake ==
  ASSUME Inv, Inv', ReadTake, ReadReachesHost
  PROVE  ReadReachesHost'
<1> SUFFICES ASSUME ~spoilt' PROVE toHost' \o TowardsHost' = taken'
  BY DEF ReadReachesHost
<1> DEFINE old == Stored(0, Held)  new == Stored(0, Held)'  h == Head(rxQueue)
<1>1. /\ Control /\ Numbers /\ Bytes /\ Sequences
      /\ cdc_trf_state # "BUSY" /\ NextUSBOut < EpSize - 1
  BY Parts DEF Inv, Flow, ReadTake, At
<1>0. ~spoilt
  BY Zenon DEF ReadTake
<1>2. /\ rxQueue # <<>> /\ {rxQueue, inPacket, toHost, taken} \subseteq Seq(Byte)
      /\ UNCHANGED <<toHost, inPacket>> /\ taken' = Append(taken, h)
  BY <1>1 DEF ReadTake, Sequences, pcVars
<1>3. NextUSBOut \in Nat /\ Held = NextUSBOut /\ Held' = NextUSBOut + 1
  BY <1>1 DEF Held, Numbers, ReadTake, cdcVars
<1>4. /\ old \in Seq(Byte) /\ Len(old) = NextUSBOut
      /\ new \in Seq(Byte) /\ Len(new) = NextUSBOut + 1
  BY <1>3, StoredTyped, StoredTypedNext
<1>5. \A i \in 1 .. Len(old) : new[i] = old[i]
  BY <1>1, <1>3, <1>4, Constants DEF Stored, ReadTake, Indices
<1>6. new[Len(old) + 1] = h
  BY <1>1, <1>3, <1>4, Constants DEF Stored, ReadTake, Indices
<1>7. h \in Byte
  BY <1>2, HeadTailProperties
<1>8. toHost \o (inPacket \o old) = taken
  BY <1>0, HostChain DEF ReadReachesHost
<1>9. toHost' \o TowardsHost' = toHost \o (inPacket \o new)
  BY <1>2, HostChainNext
<1> HIDE DEF old, new, h
<1>10. new = old \o <<h>>
  <2>1. /\ Append(old, h) \in Seq(Byte) /\ Len(Append(old, h)) = Len(old) + 1
        /\ \A i \in 1 .. Len(old) : Append(old, h)[i] = old[i]
        /\ Append(old, h)[Len(old) + 1] = h
    BY <1>4, <1>7, AppendProperties
  <2>2. \A i \in 1 .. Len(new) : new[i] = Append(old, h)[i]
    BY <1>3, <1>4, <1>5, <1>6, <2>1
  <2>3. new = Append(old, h)
    BY <1>4, <2>1, <2>2, SeqEqual
  <2> QED
    BY <1>4, <1>7, <2>3, AppendIsConcat
<1>11. <<h>> \in Seq(Byte)
  BY <1>7
<1>12. inPacket \o (old \o <<h>>) = (inPacket \o old) \o <<h>>
  BY <1>2, <1>4, <1>11, Associative
<1>13. toHost \o ((inPacket \o old) \o <<h>>) = (toHost \o (inPacket \o old)) \o <<h>>
  <2>1. inPacket \o old \in Seq(Byte)
    BY <1>2, <1>4, Joined
  <2> QED
    BY <1>2, <1>11, <2>1, Associative
<1>14. taken' = taken \o <<h>>
  BY <1>2, <1>7, AppendIsConcat
<1> QED
  BY <1>8, <1>9, <1>10, <1>12, <1>13, <1>14

LEMMA HostPut ==
  ASSUME Inv, Put
  PROVE  HostMoves
<1>1. cdc_trf_state # "BUSY"
  BY DEF Inv, Flow, Put, At
<1>2. Held' = Held
  BY <1>1 DEF Put, Held, cdcVars
<1>3. Stored(0, Held)' = Stored(0, Held)
  BY <1>2 DEF Put, Stored
<1> QED
  BY <1>3, HostChain, HostChainNext DEF HostMoves, Put, pcVars, uartVars, rxVars, ghost

LEMMA HostService ==
  ASSUME Inv, CDCTxService
  PROVE  HostMoves
<1>1. CASE inPacket = <<>> /\ cdc_trf_state = "BUSY"
  <2>1. Numbers /\ NextUSBOut = 0
    BY <1>1, Parts DEF Inv, Flow
  <2>2. /\ UNCHANGED <<taken, toHost, USB_Buffer, NextUSBOut, spoilt>>
        /\ inPacket' = [i \in 1 .. cdc_tx_len |-> USB_Buffer[i - 1]]
        /\ cdc_trf_state' # "BUSY"
    BY <1>1 DEF CDCTxService, Service, pcVars, uartVars, rxVars, ghost
  <2>3. Held' = 0 /\ Held = cdc_tx_len /\ cdc_tx_len \in Nat
    BY <1>1, <2>1, <2>2 DEF Held, Numbers
  <2>4. Stored(0, Held)' = <<>>
    BY <2>3 DEF Stored
  <2>5. Stored(0, Held) = inPacket'
    BY <2>2, <2>3 DEF Stored
  <2>6. inPacket' \in Seq(Byte)
    BY <2>5, StoredTyped
  <2>7. inPacket' \o <<>> = <<>> \o inPacket'
    BY <2>6, ConcatEmptySeq
  <2> QED
    BY <1>1, <2>2, <2>4, <2>5, <2>7, HostChain, HostChainNext DEF HostMoves
<1>2. CASE ~(inPacket = <<>> /\ cdc_trf_state = "BUSY")
  <2>1. cdc_trf_state = "BUSY" => inPacket = <<>>
    BY DEF Inv, Flow
  <2>2. /\ UNCHANGED <<taken, toHost, USB_Buffer, NextUSBOut, spoilt, inPacket>>
        /\ cdc_trf_state # "BUSY" /\ cdc_trf_state' # "BUSY"
    BY <1>2, <2>1 DEF CDCTxService, Service, cdcVars, pcVars, uartVars, rxVars, ghost
  <2>3. Stored(0, Held)' = Stored(0, Held)
    BY <2>2 DEF Stored, Held
  <2> QED
    BY <2>2, <2>3, HostChain, HostChainNext DEF HostMoves
<1> QED
  BY <1>1, <1>2

LEMMA HostReads ==
  ASSUME Inv, HostRead
  PROVE  HostMoves
<1>1. toHost \in Seq(Byte) /\ inPacket \in Seq(Byte)
  BY DEF Inv, Sequences
<1>2. /\ UNCHANGED <<taken, USB_Buffer, NextUSBOut, cdc_trf_state, cdc_tx_len, spoilt>>
      /\ inPacket' = <<>> /\ toHost' = toHost \o inPacket
  BY DEF HostRead, cdcVars, rxVars, ghost
<1>3. Stored(0, Held)' = Stored(0, Held)
  BY <1>2 DEF Stored, Held
<1> DEFINE c == Stored(0, Held)
<1>4. c \in Seq(Byte)
  BY StoredTyped
<1> HIDE DEF c
<1>5. <<>> \o c = c
  BY <1>4, ConcatEmptySeq
<1>6. (toHost \o inPacket) \o c = toHost \o (inPacket \o c)
  BY <1>1, <1>4, Associative
<1> QED
  BY <1>2, <1>3, <1>5, <1>6, HostChain, HostChainNext DEF HostMoves, c

LEMMA HostReset ==
  ASSUME Inv, BusReset
  PROVE  HostMoves
<1> SUFFICES ASSUME ~spoilt' PROVE HostMoves
  BY DEF HostMoves
<1>1. ~spoilt /\ inPacket = <<>> /\ inPacket' = <<>>
      /\ UNCHANGED <<taken, toHost, USB_Buffer, NextUSBOut, cdc_trf_state, cdc_tx_len>>
  BY DEF BusReset, cdcVars, rxVars
<1>2. Stored(0, Held)' = Stored(0, Held)
  BY <1>1 DEF Stored, Held
<1> QED
  BY <1>1, <1>2, HostChain, HostChainNext DEF HostMoves

LEMMA HostConfigured ==
  ASSUME Inv, Configured
  PROVE  HostMoves
<1> SUFFICES ASSUME ~spoilt' PROVE HostMoves
  BY DEF HostMoves
<1>1. NextUSBOut \in 0 .. EpSize - 1
  BY DEF Inv, TypeOK
<1>2. /\ ~spoilt /\ inPacket = <<>> /\ inPacket' = <<>>
      /\ cdc_trf_state # "BUSY" /\ cdc_trf_state' # "BUSY"
      /\ NextUSBOut = 0 /\ NextUSBOut' = 0 /\ UNCHANGED <<taken, toHost>>
  <2>1. /\ ~spoilt /\ inPacket = <<>> /\ cdc_trf_state # "BUSY"
        /\ ~(NextUSBOut > 0)
    BY Zenon DEF Configured
  <2> QED
    BY <1>1, <2>1, Constants DEF Configured, EUSART_Initialize
<1>3. Held = 0 /\ Held' = 0
  BY <1>2 DEF Held
<1>4. Stored(0, Held) = <<>> /\ Stored(0, Held)' = <<>>
  BY <1>3 DEF Stored
<1> QED
  BY <1>2, <1>4, HostChain, HostChainNext DEF HostMoves

-----------------------------------------------------------------------------
(* From the modem to EUSART_Read.                                           *)

LEMMA RingStill ==
  ASSUME ModemIsRead, rxLost => rxLost', UNCHANGED <<in, taken, rxQueue>>
  PROVE  ModemIsRead'
BY DEF ModemIsRead

LEMMA RingRead ==
  ASSUME Inv, ReadTake, ModemIsRead
  PROVE  ModemIsRead'
<1> DEFINE h == Head(rxQueue)
<1>1. /\ rxQueue # <<>> /\ rxQueue \in Seq(Byte) /\ taken \in Seq(Byte)
      /\ rxQueue' = Tail(rxQueue) /\ taken' = Append(taken, h)
      /\ rxLost' = rxLost /\ in' = in
  BY DEF Inv, Sequences, ReadTake, uartVars
<1>2. h \in Byte
  BY <1>1, HeadTailProperties
<1> HIDE DEF h
<1>3. /\ Append(taken, h) \in Seq(Byte) /\ Len(Append(taken, h)) = Len(taken) + 1
      /\ \A i \in 1 .. Len(taken) : Append(taken, h)[i] = taken[i]
      /\ Append(taken, h)[Len(taken) + 1] = h
  BY <1>1, <1>2, AppendProperties
<1>4. Append(taken, h) \o Tail(rxQueue) = taken \o rxQueue
  BY <1>1, <1>3, FrontMoves DEF h
<1> QED
  BY <1>1, <1>4 DEF ModemIsRead

LEMMA RingGrows ==
  ASSUME Inv, ModemByte, ModemIsRead
  PROVE  ModemIsRead'
<1> SUFFICES ASSUME ~rxLost' PROVE taken' \o rxQueue' = [k \in 1 .. in' |-> -k]
  BY DEF ModemIsRead
<1> DEFINE b == -(in + 1)
<1>1. /\ rxQueue \in Seq(Byte) /\ taken \in Seq(Byte) /\ in \in Nat /\ in < MaxIn
      /\ Len(rxQueue) \in 0 .. RxCountMod - 1
  BY Constants DEF Inv, Sequences, TypeOK, ModemByte
<1>2. ~rxLost /\ ~(Len(rxQueue) >= RxSize)
  BY Zenon DEF ModemByte
<1>3. taken' = taken /\ rxQueue' = Received(rxQueue, b) /\ in' = in + 1
  BY DEF ModemByte
<1>4. b \in Byte
  BY <1>1, Constants DEF Byte
<1>5. Len(rxQueue) < RxSize /\ Len(rxQueue) <= RxCountMod - 1
  BY <1>1, <1>2, Constants
<1>6. rxQueue' = rxQueue \o <<b>>
  BY <1>1, <1>3, <1>4, <1>5, ReceivedTyped, AppendIsConcat
<1>7. taken \o (rxQueue \o <<b>>) = (taken \o rxQueue) \o <<b>>
  <2>1. <<b>> \in Seq(Byte)
    BY <1>4
  <2> QED
    BY <1>1, <2>1, Associative
<1>8. taken \o rxQueue = [k \in 1 .. in |-> -k]
  BY <1>2 DEF ModemIsRead
<1>9. [k \in 1 .. in |-> -k] \o <<b>> = [k \in 1 .. in + 1 |-> -k]
  BY <1>1
<1> QED
  BY <1>3, <1>6, <1>7, <1>8, <1>9

LEMMA RingCleared ==
  ASSUME EUSART_Initialize, in' = in, ModemIsRead
  PROVE  ModemIsRead'
<1> SUFFICES ASSUME ~rxLost' PROVE taken' \o rxQueue' = [k \in 1 .. in' |-> -k]
  BY DEF ModemIsRead
<1>1. ~rxLost /\ rxQueue = <<>>
  BY Zenon DEF EUSART_Initialize
<1> QED
  BY <1>1 DEF EUSART_Initialize, ModemIsRead

-----------------------------------------------------------------------------
(* From the PC to the modem.                                                *)

Sending == IF uartTx = 0 THEN <<>> ELSE <<uartTx>>
Rest == IF RS232_Out_Data_Rdy THEN Stored(RS232cp, LastRS232Out) ELSE <<>>

LEMMA ModemChain == TowardsModem = (Sending \o Rest) \o outPacket
BY DEF TowardsModem, Sending, Rest

LEMMA ModemChainNext == TowardsModem' = (Sending' \o Rest') \o outPacket'
BY DEF TowardsModem, Sending, Rest, Stored

LEMMA RestTyped ==
  ASSUME Inv, ~spoilt
  PROVE  /\ Sending \in Seq(Byte) /\ Rest \in Seq(Byte)
         /\ outPacket \in Seq(Byte) /\ toModem \in Seq(Byte)
<1>1. Numbers /\ USB_Buffer \in [Indices -> Byte] /\ uartTx \in Byte /\ PacketLeft /\ Sequences
  BY Parts DEF Inv, Bytes
<1>2. Sending \in Seq(Byte)
  BY <1>1 DEF Sending
<1>3. RS232_Out_Data_Rdy => RS232cp \in Nat /\ LastRS232Out \in Nat
                            /\ RS232cp <= LastRS232Out /\ LastRS232Out <= EpSize
  BY <1>1, Constants DEF Numbers, PacketLeft
<1>4. RS232_Out_Data_Rdy => Cut(USB_Buffer, RS232cp, LastRS232Out) \in Seq(Byte)
  BY <1>1, <1>3, CutTyped
<1>5. Rest \in Seq(Byte)
  BY <1>4, StoredIsCut DEF Rest
<1> QED
  BY <1>1, <1>2, <1>5 DEF Sequences

ModemMoves ==
  ~spoilt' => /\ ~spoilt /\ out' = out
              /\ toModem' \o TowardsModem' = toModem \o TowardsModem

LEMMA ModemMoved ==
  ASSUME NothingLostToModem, ModemMoves
  PROVE  NothingLostToModem'
BY DEF NothingLostToModem, ModemMoves

LEMMA ModemStill ==
  ASSUME spoilt => spoilt',
         UNCHANGED <<out, toModem, outPacket, uartTx, USB_Buffer, RS232_Out_Data_Rdy,
                     RS232cp, LastRS232Out>>
  PROVE  ModemMoves
BY ModemChain, ModemChainNext DEF ModemMoves, Sending, Rest, Stored

LEMMA ModemNoPacket ==
  ASSUME NoPacket
  PROVE  ModemMoves
<1>1. /\ ~RS232_Out_Data_Rdy /\ ~RS232_Out_Data_Rdy'
      /\ UNCHANGED <<out, toModem, outPacket, uartTx, spoilt>>
  BY DEF NoPacket, pcVars, uartVars, rxVars, ghost
<1> QED
  BY <1>1, ModemChain, ModemChainNext DEF ModemMoves, Sending, Rest

LEMMA ModemGet ==
  ASSUME Inv, GetPacket
  PROVE  ModemMoves
<1> SUFFICES ASSUME ~spoilt' PROVE ModemMoves
  BY DEF ModemMoves
<1>1. ~spoilt
  BY Zenon DEF GetPacket
<1>2. /\ ~RS232_Out_Data_Rdy /\ RS232_Out_Data_Rdy' /\ RS232cp' = 0
      /\ LastRS232Out' = Len(outPacket) /\ outPacket' = <<>>
      /\ UNCHANGED <<out, toModem, uartTx>>
  BY DEF GetPacket, uartVars
<1>3. outPacket \in Seq(Byte) /\ Sending \in Seq(Byte) /\ Len(outPacket) \in 0 .. EpSize
  BY <1>1, RestTyped DEF Inv, TypeOK
<1>4. \A i \in 1 .. Len(outPacket) : USB_Buffer'[i - 1] = outPacket[i]
  BY <1>3, Constants DEF GetPacket, Indices
<1>5. outPacket = [i \in 1 .. Len(outPacket) |-> outPacket[i]]
  BY <1>3
<1>6. Rest' = outPacket
  BY <1>2, <1>3, <1>4, <1>5 DEF Rest, Stored
<1>7. Rest = <<>> /\ Sending' = Sending
  BY <1>2 DEF Rest, Sending
<1>8. (Sending \o <<>>) \o outPacket = (Sending \o outPacket) \o <<>>
  BY <1>3, Joined, ConcatEmptySeq
<1> QED
  BY <1>1, <1>2, <1>6, <1>7, <1>8, ModemChain, ModemChainNext DEF ModemMoves

LEMMA ModemTake ==
  ASSUME Inv, ReadTake
  PROVE  ModemMoves
<1> SUFFICES ASSUME ~spoilt' PROVE ModemMoves
  BY DEF ModemMoves
<1>1. ~spoilt /\ ~(RS232_Out_Data_Rdy /\ NextUSBOut + 1 >= RS232cp)
  BY Zenon DEF ReadTake
<1>2. Numbers /\ USB_Buffer \in [Indices -> Byte]
  BY Parts DEF Inv, Bytes
<1>3. UNCHANGED <<out, toModem, outPacket, uartTx, RS232_Out_Data_Rdy, RS232cp, LastRS232Out>>
  BY DEF ReadTake, packetVars, pcVars, uartVars
<1>4. RS232_Out_Data_Rdy =>
        \A i \in 1 .. LastRS232Out - RS232cp :
           USB_Buffer'[RS232cp + i - 1] = USB_Buffer[RS232cp + i - 1]
  <2> SUFFICES ASSUME RS232_Out_Data_Rdy, NEW i \in 1 .. LastRS232Out - RS232cp
               PROVE  USB_Buffer'[RS232cp + i - 1] = USB_Buffer[RS232cp + i - 1]
    OBVIOUS
  <2> DEFINE j == RS232cp + i - 1
  <2>1. j \in Indices /\ j > NextUSBOut + 1
    BY <1>1, <1>2, Constants DEF Indices, Numbers
  <2>2. j # NextUSBOut /\ j # NextUSBOut + 1
    BY <2>1, <1>2, Constants DEF Indices, Numbers
  <2> HIDE DEF j
  <2>3. USB_Buffer'[j] = USB_Buffer[j]
    BY <2>1, <2>2 DEF ReadTake
  <2> QED
    BY <2>3 DEF j
<1>5. RS232_Out_Data_Rdy =>
        Stored(RS232cp, LastRS232Out)' = Stored(RS232cp, LastRS232Out)
  BY <1>3, <1>4 DEF Stored
<1>6. Rest' = Rest /\ Sending' = Sending
  BY <1>3, <1>5 DEF Rest, Sending
<1> QED
  BY <1>1, <1>3, <1>6, ModemChain, ModemChainNext DEF ModemMoves

\* The byte handed to the UART is one of the PC's, not the 0 that means none.
LEMMA ModemWrite ==
  ASSUME Inv, Inv', WriteByte, NothingLostToModem
  PROVE  ModemMoves
<1> SUFFICES ASSUME ~spoilt' PROVE ModemMoves
  BY DEF ModemMoves
<1>1. /\ ~spoilt /\ RS232_Out_Data_Rdy /\ uartTx = 0 /\ uartTx' = ByteAt(RS232cp)
      /\ UNCHANGED <<out, toModem, outPacket, USB_Buffer, LastRS232Out>>
  BY DEF WriteByte, pcVars, ghost
<1>2. /\ Numbers /\ USB_Buffer \in [Indices -> Byte] /\ RS232cp < LastRS232Out
      /\ out \in Nat
  BY <1>1, Parts, Constants DEF Inv, Bytes, PacketLeft, Numbers
<1>3. /\ RS232cp \in Nat /\ LastRS232Out \in Nat /\ LastRS232Out <= EpSize
      /\ RS232cp' = RS232cp + 1
  <2>1. /\ RS232cp \in Nat /\ LastRS232Out \in Nat /\ LastRS232Out <= EpSize
        /\ RS232cp + 1 < IndexMod
    BY <1>2, Constants DEF Numbers
  <2>2. (RS232cp + 1) % IndexMod = RS232cp + 1
    BY <2>1, Constants
  <2> QED
    BY <2>1, <2>2 DEF WriteByte
<1> DEFINE n == LastRS232Out - RS232cp  byte == USB_Buffer[RS232cp]
           more == Cut(USB_Buffer, RS232cp + 1, LastRS232Out)
<1>4. n \in Nat /\ n > 0 /\ RS232cp \in Indices /\ byte \in Byte /\ uartTx' = byte
  BY <1>1, <1>2, <1>3, Constants DEF ByteAt, Indices
<1>5. /\ Rest = Cut(USB_Buffer, RS232cp, LastRS232Out) /\ Rest \in Seq(Byte)
      /\ Len(Rest) = n
  <2>1. Rest = Cut(USB_Buffer, RS232cp, LastRS232Out)
    BY <1>1, StoredIsCut DEF Rest
  <2>2. RS232cp <= LastRS232Out
    BY <1>2, <1>3
  <2> QED
    BY <1>2, <1>3, <2>1, <2>2, CutTyped
<1>6. more \in Seq(Byte) /\ Len(more) = n - 1
  <2>1. RS232cp + 1 \in Nat /\ RS232cp + 1 <= LastRS232Out
    BY <1>2, <1>3
  <2>2. more \in Seq(Byte) /\ Len(more) = LastRS232Out - (RS232cp + 1)
    BY <1>2, <1>3, <2>1, CutTyped
  <2> QED
    BY <1>3, <2>2
<1>7. Rest[1] = byte /\ \A i \in 1 .. n - 1 : more[i] = Rest[i + 1]
  BY <1>3, <1>4, <1>5 DEF Cut
<1>8. Rest' = more
  <2>1. RS232_Out_Data_Rdy' = (RS232cp' # LastRS232Out)
    BY DEF WriteByte
  <2>2. CASE RS232cp + 1 # LastRS232Out
    BY <1>1, <1>3, <2>1, <2>2, StoredIsCut DEF Rest
  <2>3. CASE RS232cp + 1 = LastRS232Out
    <3>1. more = <<>>
      BY <1>6, <2>3, <1>3, EmptySeq
    <3>2. ~RS232_Out_Data_Rdy'
      BY <1>1, <1>3, <2>1, <2>3
    <3> QED
      BY <3>1, <3>2 DEF Rest
  <2> QED
    BY <2>2, <2>3
<1>9. <<byte>> \o more = Rest
  <2>1. <<byte>> \in Seq(Byte) /\ Len(<<byte>>) = 1 /\ <<byte>>[1] = byte
    BY <1>4
  <2> HIDE DEF more, byte, n
  <2>2. /\ <<byte>> \o more \in Seq(Byte) /\ Len(<<byte>> \o more) = 1 + (n - 1)
        /\ \A i \in 1 .. 1 + (n - 1) :
             (<<byte>> \o more)[i] = IF i <= 1 THEN <<byte>>[i] ELSE more[i - 1]
    BY <1>6, <2>1, ConcatProperties
  <2>3. \A i \in 1 .. n : (<<byte>> \o more)[i] = Rest[i]
    BY <1>4, <1>7, <2>1, <2>2
  <2> QED
    BY <1>4, <1>5, <2>2, <2>3, SeqEqual
<1>10. byte # 0
  <2>1. /\ toModem \in Seq(Byte) /\ outPacket \in Seq(Byte) /\ Sending = <<>>
        /\ Rest \in Seq(Byte)
    BY <1>1, RestTyped DEF Sending
  <2>2. TowardsModem = Rest \o outPacket /\ TowardsModem \in Seq(Byte)
    BY <2>1, ModemChain, ConcatEmptySeq, Joined
  <2>3. TowardsModem[1] = byte /\ Len(TowardsModem) \in Nat \ {0}
    BY <1>4, <1>5, <1>7, <2>1, <2>2, ConcatProperties, LenProperties
  <2>4. (toModem \o TowardsModem)[Len(toModem) + 1] = byte
        /\ Len(toModem \o TowardsModem) >= Len(toModem) + 1 /\ Len(toModem) \in Nat
    BY <2>1, <2>2, <2>3, ConcatProperties, LenProperties
  <2>5. toModem \o TowardsModem = [k \in 1 .. out |-> k]
    BY <1>1 DEF NothingLostToModem
  <2>6. Len([k \in 1 .. out |-> k]) = out
    BY <1>2
  <2> QED
    BY <1>2, <2>4, <2>5, <2>6
<1>11. Sending = <<>> /\ Sending' = <<byte>>
  BY <1>1, <1>4, <1>10 DEF Sending
<1>12. <<>> \o Rest = Rest
  BY <1>5, ConcatEmptySeq
<1> QED
  BY <1>1, <1>8, <1>9, <1>11, <1>12, ModemChain, ModemChainNext DEF ModemMoves

LEMMA ModemSent ==
  ASSUME Inv, UartSent
  PROVE  ModemMoves
<1> SUFFICES ASSUME ~spoilt' PROVE ModemMoves
  BY DEF ModemMoves
<1>1. /\ ~spoilt /\ uartTx # 0 /\ uartTx' = 0 /\ toModem' = Append(toModem, uartTx)
      /\ UNCHANGED <<out, outPacket, USB_Buffer, RS232_Out_Data_Rdy, RS232cp, LastRS232Out>>
  BY DEF UartSent, packetVars, pcVars, ghost
<1>2. /\ uartTx \in Byte /\ Rest \in Seq(Byte)
      /\ outPacket \in Seq(Byte) /\ toModem \in Seq(Byte)
      /\ <<uartTx>> \in Seq(Byte)
  BY <1>1, RestTyped DEF Inv, TypeOK, Byte
<1>3. Rest' = Rest /\ Sending = <<uartTx>> /\ Sending' = <<>>
  BY <1>1 DEF Rest, Sending, Stored
<1>4. toModem' = toModem \o <<uartTx>>
  BY <1>1, <1>2, AppendIsConcat
<1>5. <<>> \o Rest = Rest
  BY <1>2, ConcatEmptySeq
<1>6. Rest \o outPacket \in Seq(Byte)
  BY <1>2, Joined
<1>7. (toModem \o <<uartTx>>) \o (Rest \o outPacket)
        = toModem \o (<<uartTx>> \o (Rest \o outPacket))
  BY <1>2, <1>6, Associative
<1>8. <<uartTx>> \o (Rest \o outPacket) = (<<uartTx>> \o Rest) \o outPacket
  BY <1>2, Associative
<1> QED
  BY <1>1, <1>3, <1>4, <1>5, <1>7, <1>8, ModemChain, ModemChainNext DEF ModemMoves

LEMMA ModemReset ==
  ASSUME Inv, BusReset
  PROVE  ModemMoves
<1> SUFFICES ASSUME ~spoilt' PROVE ModemMoves
  BY DEF ModemMoves
<1>1. ~spoilt /\ outPacket = <<>> /\ outPacket' = <<>>
      /\ UNCHANGED <<out, toModem, uartTx, USB_Buffer, RS232_Out_Data_Rdy, RS232cp,
                     LastRS232Out>>
  BY DEF BusReset, packetVars, uartVars
<1> QED
  BY <1>1, ModemChain, ModemChainNext DEF ModemMoves, Sending, Rest, Stored

LEMMA ModemConfigured ==
  ASSUME Inv, Configured
  PROVE  ModemMoves
<1> SUFFICES ASSUME ~spoilt' PROVE ModemMoves
  BY DEF ModemMoves
<1>1. ~spoilt /\ ~RS232_Out_Data_Rdy /\ ~configured
  BY Zenon DEF Configured
<1>2. /\ outPacket = <<>> /\ outPacket' = <<>>
      /\ UNCHANGED <<out, toModem, uartTx, RS232_Out_Data_Rdy>>
  BY <1>1 DEF Inv, Flow, Configured, uartVars
<1> QED
  BY <1>1, <1>2, ModemChain, ModemChainNext DEF ModemMoves, Sending, Rest

LEMMA ModemGrows ==
  ASSUME Inv, HostSend, NothingLostToModem
  PROVE  NothingLostToModem'
<1> SUFFICES ASSUME ~spoilt' PROVE toModem' \o TowardsModem' = [k \in 1 .. out' |-> k]
  BY DEF NothingLostToModem
<1>1. /\ ~spoilt /\ outPacket = <<>>
      /\ UNCHANGED <<toModem, uartTx, USB_Buffer, RS232_Out_Data_Rdy, RS232cp, LastRS232Out>>
  BY DEF HostSend, packetVars, uartVars, ghost
<1>2. PICK n \in 1 .. EpSize :
        out + n <= MaxOut /\ out' = out + n /\ outPacket' = [i \in 1 .. n |-> out + i]
  BY DEF HostSend
<1>3. /\ out \in Nat /\ n \in Nat
      /\ Sending \in Seq(Byte) /\ Rest \in Seq(Byte) /\ toModem \in Seq(Byte)
  BY <1>1, RestTyped, Constants DEF Inv, TypeOK
<1> DEFINE new == [i \in 1 .. n |-> out + i]
<1>4. new \in Seq(Byte) /\ Len(new) = n
  BY <1>2, <1>3, Constants DEF Byte
<1>5. Sending' = Sending /\ Rest' = Rest
  BY <1>1 DEF Sending, Rest, Stored
<1>6. [k \in 1 .. out |-> k] \o new = [k \in 1 .. out + n |-> k]
  BY <1>3
<1> HIDE DEF new
<1>7. Sending \o Rest \in Seq(Byte)
  BY <1>3, Joined
<1>8. toModem \o ((Sending \o Rest) \o new) = (toModem \o (Sending \o Rest)) \o new
  BY <1>3, <1>4, <1>7, Associative, SMTT(30)
<1>9. toModem \o (Sending \o Rest) = [k \in 1 .. out |-> k]
  BY <1>1, <1>7, ModemChain, ConcatEmptySeq DEF NothingLostToModem
<1> QED
  BY <1>1, <1>2, <1>5, <1>6, <1>8, <1>9, ModemChainNext DEF new

-----------------------------------------------------------------------------
(* The theorems.                                                            *)

Chains == ReadReachesHost /\ ModemIsRead /\ NothingLostToModem

LEMMA ChainsInit == Init => Chains
<1> SUFFICES ASSUME Init PROVE Chains
  OBVIOUS
<1>1. /\ toHost = <<>> /\ inPacket = <<>> /\ rxQueue = <<>> /\ in = 0 /\ toModem = <<>>
      /\ outPacket = <<>> /\ out = 0 /\ Held = 0 /\ taken = <<>> /\ Sending = <<>> /\ Rest = <<>>
  BY DEF Init, Held, Sending, Rest
<1>2. Stored(0, Held) = <<>> /\ <<>> \o <<>> = <<>>
  BY <1>1 DEF Stored
<1>3. [k \in 1 .. in |-> -k] = <<>> /\ [k \in 1 .. out |-> k] = <<>>
  BY <1>1
<1> QED
  BY <1>1, <1>2, <1>3, HostChain, ModemChain
     DEF Chains, ReadReachesHost, ModemIsRead, NothingLostToModem

LEMMA ChainsStep ==
  ASSUME Inv, Inv', Chains, [Next]_vars
  PROVE  Chains'
<1> USE DEF Chains
<1>1. CASE GetPacket
  BY <1>1, HostGet, ModemGet, HostMoved, ModemMoved, RingStill DEF GetPacket, uartVars, rxVars
<1>2. CASE NoPacket
  BY <1>2, HostStill, ModemNoPacket, HostMoved, ModemMoved, RingStill
     DEF NoPacket, packetVars, cdcVars, pcVars, uartVars, rxVars, ghost
<1>3. CASE PacketPending \/ WriteNothing \/ ReadTest \/ ReadClear
  BY <1>3, HostStill, ModemStill, HostMoved, ModemMoved, RingStill
     DEF PacketPending, WriteNothing, ReadTest, ReadClear,
         packetVars, cdcVars, pcVars, uartVars, rxVars, ghost
<1>4. CASE WriteByte
  BY <1>4, HostStill, ModemWrite, HostMoved, ModemMoved, RingStill
     DEF WriteByte, cdcVars, pcVars, uartVars, rxVars, ghost
<1>5. CASE ReadTake
  BY <1>5, HostTake, ModemTake, ModemMoved, RingRead
<1>6. CASE Put
  BY <1>6, HostPut, ModemStill, HostMoved, ModemMoved, RingStill
     DEF Put, packetVars, pcVars, uartVars, rxVars, ghost
<1>7. CASE CDCTxService
  BY <1>7, HostService, ModemStill, HostMoved, ModemMoved, RingStill
     DEF CDCTxService, packetVars, pcVars, uartVars, rxVars, ghost
<1>8. CASE ModemByte
  BY <1>8, HostStill, HostMoved, ModemStill, ModemMoved, RingGrows
     DEF ModemByte, packetVars, cdcVars, pcVars, ghost
<1>9. CASE UartSent
  BY <1>9, HostStill, ModemSent, HostMoved, ModemMoved, RingStill
     DEF UartSent, packetVars, cdcVars, pcVars, rxVars, ghost
<1>10. CASE HostSend
  BY <1>10, HostStill, ModemGrows, HostMoved, RingStill
     DEF HostSend, packetVars, cdcVars, uartVars, rxVars, ghost
<1>11. CASE HostRead
  BY <1>11, HostReads, ModemStill, HostMoved, ModemMoved, RingStill
     DEF HostRead, packetVars, uartVars, rxVars, ghost
<1>12. CASE BusReset
  BY <1>12, HostReset, ModemReset, HostMoved, ModemMoved, RingStill
     DEF BusReset, uartVars, rxVars
<1>13. CASE Configured
  BY <1>13, HostConfigured, ModemConfigured, HostMoved, ModemMoved, RingCleared
     DEF Configured, uartVars
<1>14. CASE SetLineCoding
  BY <1>14, HostStill, ModemStill, HostMoved, ModemMoved, RingCleared
     DEF SetLineCoding, EUSART_Initialize, packetVars, cdcVars, pcVars, uartVars, ghost
<1>15. CASE UNCHANGED vars
  BY <1>15, HostStill, ModemStill, HostMoved, ModemMoved, RingStill
     DEF vars, packetVars, cdcVars, pcVars, uartVars, rxVars, ghost
<1> QED
  BY <1>1, <1>2, <1>3, <1>4, <1>5, <1>6, <1>7, <1>8, <1>9, <1>10, <1>11, <1>12, <1>13, <1>14,
     <1>15 DEF Next, MainLoop

\* The parts of NothingLostToHost and NothingLostToModem are invariants together: that the byte
\* given to the UART is not the 0 that means "none" follows from the order of the PC's.
THEOREM NothingLost == Spec => []Chains
<1>1. Inv /\ Inv' /\ Chains /\ [Next]_vars => Chains'
  BY ChainsStep
<1> QED
  BY ChainsInit, <1>1, InvAlways, PTL DEF Spec

\* What EUSART_Read returned is with the PC or on its way, once and in order, until a
\* reset finds bytes in the device or the two directions meet in USB_Buffer; and what
\* it has returned and is still to return are all the bytes of the modem, until the
\* ring overruns or is cleared with bytes in it.
THEOREM HostGetsAll == Spec => []NothingLostToHost
<1>1. Chains => NothingLostToHost
  BY DEF Chains, NothingLostToHost
<1> QED
  BY <1>1, NothingLost, PTL

\* The same for the bytes of the PC on their way to the modem.
THEOREM ModemGetsAll == Spec => []NothingLostToModem
<1>1. Chains => NothingLostToModem
  BY DEF Chains
<1> QED
  BY <1>1, NothingLost, PTL

=============================================================================
