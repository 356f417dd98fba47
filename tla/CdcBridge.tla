----------------------------- MODULE CdcBridge ------------------------------
(***************************************************************************)
(* USB mode: the bridge of USBapp.c between the CDC serial port of the PC  *)
(* and the UART of the LoRa modem, with the CDC driver under it            *)
(* (usb_device_cdc.c).  The two directions share one array, USB_Buffer.    *)
(*                                                                         *)
(* The main loop runs USBapp_DeviceCdcEmulatorHandler over and over; pc    *)
(* names its next statement.  Between two of them the interrupts of the    *)
(* UART and of the USB module may run.  The UART driver appears by what    *)
(* its calls return: the bytes the next calls of EUSART_Read take from the *)
(* ring, overruns included, and one byte being sent (EusartRx and EusartTx *)
(* model the hardware and the calls statement by statement).               *)
(*                                                                         *)
(* The PC's bytes are numbered 1, 2, ... and the modem's -1, -2, ...;      *)
(* 0 is the terminator and whatever lies beyond the array.                 *)
(***************************************************************************)
EXTENDS Integers, Sequences

CONSTANTS
  EpSize,     \* CDC_DATA_OUT_EP_SIZE: size of a packet and of USB_Buffer
  IndexMod,   \* 2^8: range of RS232cp
  RxSize,     \* EUSART_RX_BUFFER_SIZE
  RxCountMod, \* 2^8: values of eusartRxCount
  MaxOut,     \* bound: bytes from the PC
  MaxIn,      \* bound: bytes from the modem
  MaxResets   \* bound: bus resets

ASSUME BridgeConstants ==
  /\ EpSize \in Nat \ {0, 1} /\ IndexMod \in Nat /\ IndexMod > EpSize
  /\ RxSize \in Nat \ {0} /\ RxCountMod \in Nat
  /\ RxCountMod > RxSize /\ RxCountMod % RxSize = 0
  /\ {MaxOut, MaxIn, MaxResets} \subseteq Nat

VARIABLES
  pc,                 \* next statement of the main loop
  configured,         \* USBDeviceState = CONFIGURED_STATE
  USB_Buffer,
  rxByteFlag,
  NextUSBOut,         \* modem bytes in USB_Buffer
  RS232_Out_Data_Rdy, \* USB_Buffer holds a packet of the PC
  LastRS232Out,       \* its length
  RS232cp,            \* the next of its bytes to send
  cdc_trf_state,
  cdc_tx_len,
  outPacket,          \* cdc_data_rx: packet of the PC, <<>> while armed
  inPacket,           \* cdc_data_tx: packet for the PC, <<>> when not busy
  rxQueue,            \* what the next eusartRxCount calls of EUSART_Read return
  uartTx,             \* byte being sent by the UART, 0 if none (TRMT)
  toHost, toModem,    \* history: what the PC and the modem have got
  out, in,            \* bytes the PC and the modem have sent so far
  taken,              \* history: what EUSART_Read has returned
  resets,
  spoilt,             \* history: bytes lost to a reset or overwritten in USB_Buffer
  rxLost              \* history: bytes lost in the ring, overrun or cleared

packetVars == <<RS232_Out_Data_Rdy, LastRS232Out, RS232cp>>
cdcVars    == <<cdc_trf_state, cdc_tx_len>>
pcVars     == <<outPacket, out, toHost>>
uartVars   == <<uartTx, toModem, in>>
rxVars     == <<rxQueue, taken, rxLost>>
ghost      == <<resets, spoilt>>
vars == <<pc, configured, USB_Buffer, rxByteFlag, NextUSBOut, packetVars, cdcVars,
          inPacket, rxVars, pcVars, uartVars, ghost>>

Indices == 0 .. EpSize - 1

-----------------------------------------------------------------------------
(* USBapp_DeviceCdcEmulatorHandler.  It returns at once when the device is  *)
(* not configured.                                                          *)

At(from, to) == pc = from /\ pc' = to

\* getsUSBUSART: the packet is copied and the endpoint armed again.
GetPacket ==
  /\ At("gets", "write") /\ configured
  /\ ~RS232_Out_Data_Rdy /\ outPacket # <<>>
  /\ USB_Buffer' = [i \in Indices |->
       IF i < Len(outPacket) THEN outPacket[i + 1] ELSE USB_Buffer[i]]
  /\ LastRS232Out' = Len(outPacket)
  /\ RS232_Out_Data_Rdy' = TRUE
  /\ RS232cp' = 0
  /\ outPacket' = <<>>
  /\ spoilt' = (spoilt \/ NextUSBOut > 0)
  /\ UNCHANGED <<configured, rxByteFlag, NextUSBOut, cdcVars, inPacket, rxVars,
                 out, toHost, uartVars, resets>>

NoPacket ==
  /\ At("gets", "write") /\ configured
  /\ ~RS232_Out_Data_Rdy /\ outPacket = <<>>
  /\ LastRS232Out' = 0
  /\ UNCHANGED <<configured, USB_Buffer, rxByteFlag, NextUSBOut, RS232_Out_Data_Rdy,
                 RS232cp, cdcVars, inPacket, rxVars, pcVars, uartVars, ghost>>

PacketPending ==
  /\ At("gets", "write") /\ configured
  /\ RS232_Out_Data_Rdy
  /\ UNCHANGED <<configured, USB_Buffer, rxByteFlag, NextUSBOut, packetVars, cdcVars,
                 inPacket, rxVars, pcVars, uartVars, ghost>>

ByteAt(index) == IF index \in Indices THEN USB_Buffer[index] ELSE 0

\* Mutant: the position is advanced before the byte is read.
WriteByteNext ==
  /\ At("write", "read")
  /\ RS232_Out_Data_Rdy /\ uartTx = 0
  /\ uartTx' = ByteAt(RS232cp + 1)
  /\ RS232cp' = (RS232cp + 1) % IndexMod
  /\ RS232_Out_Data_Rdy' = (RS232cp' # LastRS232Out)
  /\ UNCHANGED <<configured, USB_Buffer, rxByteFlag, NextUSBOut, LastRS232Out,
                 cdcVars, inPacket, rxVars, pcVars, toModem, in, ghost>>

\* Mutant: the packet counts as sent one byte too late.
WriteByteLate ==
  /\ At("write", "read")
  /\ RS232_Out_Data_Rdy /\ uartTx = 0
  /\ uartTx' = ByteAt(RS232cp)
  /\ RS232cp' = (RS232cp + 1) % IndexMod
  /\ UNCHANGED <<configured, USB_Buffer, rxByteFlag, NextUSBOut, RS232_Out_Data_Rdy,
                 LastRS232Out, cdcVars, inPacket, rxVars, pcVars, toModem, in, ghost>>

WriteByte ==
  /\ At("write", "read")
  /\ RS232_Out_Data_Rdy /\ uartTx = 0
  /\ uartTx' = ByteAt(RS232cp)
  /\ RS232cp' = (RS232cp + 1) % IndexMod
  /\ RS232_Out_Data_Rdy' = (RS232cp' # LastRS232Out)
  /\ UNCHANGED <<configured, USB_Buffer, rxByteFlag, NextUSBOut, LastRS232Out,
                 cdcVars, inPacket, rxVars, pcVars, toModem, in, ghost>>

WriteNothing ==
  /\ At("write", "read")
  /\ ~RS232_Out_Data_Rdy \/ uartTx # 0
  /\ UNCHANGED <<configured, USB_Buffer, rxByteFlag, NextUSBOut, packetVars, cdcVars,
                 inPacket, rxVars, pcVars, uartVars, ghost>>

\* EUSART_DataReady, the flag, and room for the byte and its terminator.
MayRead == rxQueue # <<>> /\ rxByteFlag /\ NextUSBOut < EpSize - 1

ReadTest ==
  /\ pc = "read"
  /\ pc' = IF MayRead THEN "take" ELSE "put"
  /\ UNCHANGED <<configured, USB_Buffer, rxByteFlag, NextUSBOut, packetVars, cdcVars,
                 inPacket, rxVars, pcVars, uartVars, ghost>>

\* EUSART_Read waits while nothing is queued (a configuration may have
\* emptied the driver since the test).
ReadTake ==
  /\ At("take", "clear")
  /\ rxQueue # <<>>
  /\ rxQueue' = Tail(rxQueue)
  /\ taken' = Append(taken, Head(rxQueue))
  /\ USB_Buffer' = [i \in Indices |-> CASE i = NextUSBOut     -> Head(rxQueue)
                                        [] i = NextUSBOut + 1 -> 0
                                        [] OTHER              -> USB_Buffer[i]]
  /\ NextUSBOut' = NextUSBOut + 1
  /\ spoilt' = (spoilt \/ (RS232_Out_Data_Rdy /\ NextUSBOut + 1 >= RS232cp))
  /\ UNCHANGED <<configured, rxByteFlag, packetVars, cdcVars, inPacket, pcVars,
                 uartVars, resets, rxLost>>

ReadClear ==
  /\ At("clear", "put")
  /\ rxByteFlag' = FALSE
  /\ UNCHANGED <<configured, USB_Buffer, NextUSBOut, packetVars, cdcVars, inPacket,
                 rxVars, pcVars, uartVars, ghost>>

\* Mutant: the driver is not asked whether it is ready.
PutAlways ==
  /\ At("put", "service")
  /\ IF NextUSBOut > 0
       THEN /\ cdc_trf_state' = "BUSY"
            /\ cdc_tx_len' = NextUSBOut
            /\ NextUSBOut' = 0
       ELSE UNCHANGED <<cdcVars, NextUSBOut>>
  /\ UNCHANGED <<configured, USB_Buffer, rxByteFlag, packetVars, inPacket, rxVars,
                 pcVars, uartVars, ghost>>

\* putUSBUSART, if the driver is ready and there is something to send.
Put ==
  /\ At("put", "service")
  /\ IF cdc_trf_state = "READY" /\ NextUSBOut > 0
       THEN /\ cdc_trf_state' = "BUSY"
            /\ cdc_tx_len' = NextUSBOut
            /\ NextUSBOut' = 0
       ELSE UNCHANGED <<cdcVars, NextUSBOut>>
  /\ UNCHANGED <<configured, USB_Buffer, rxByteFlag, packetVars, inPacket, rxVars,
                 pcVars, uartVars, ghost>>

\* Mutant: the driver is not made ready again after a transfer.
ServiceCompletingKept ==
  IF cdc_trf_state = "BUSY"
    THEN /\ inPacket' = [i \in 1 .. cdc_tx_len |-> USB_Buffer[i - 1]]
         /\ cdc_tx_len' = 0
         /\ cdc_trf_state' = "COMPLETING"
    ELSE UNCHANGED <<cdcVars, inPacket>>

\* CDCTxService with the IN endpoint free.  The bridge sends at most EpSize-1
\* bytes at a time, so a transfer is one packet and none is a full one.
Service ==
  IF cdc_trf_state = "BUSY"
    THEN /\ inPacket' = [i \in 1 .. cdc_tx_len |-> USB_Buffer[i - 1]]
         /\ cdc_tx_len' = 0
         /\ cdc_trf_state' = IF cdc_tx_len = EpSize THEN "BUSY_ZLP" ELSE "COMPLETING"
    ELSE /\ cdc_trf_state' = "READY"
         /\ UNCHANGED <<cdc_tx_len, inPacket>>

CDCTxService ==
  /\ At("service", "gets")
  /\ IF inPacket = <<>> THEN Service ELSE UNCHANGED <<cdcVars, inPacket>>
  /\ UNCHANGED <<configured, USB_Buffer, rxByteFlag, NextUSBOut, packetVars, rxVars,
                 pcVars, uartVars, ghost>>

MainLoop ==
  \/ GetPacket \/ NoPacket \/ PacketPending
  \/ WriteByte \/ WriteNothing
  \/ ReadTest \/ ReadTake \/ ReadClear
  \/ Put \/ CDCTxService

-----------------------------------------------------------------------------
(* The UART and its receive interrupt.                                      *)

\* EUSART_Receive_ISR stores and counts whether there is room or not: the n-th
\* byte goes to a slot that it shares with every RxSize-th byte before it, and
\* the count wraps to 0.
Received(queue, byte) ==
  LET n == Len(queue) + 1
  IN  IF n = RxCountMod THEN <<>>
      ELSE [k \in 1 .. n |-> IF (n - k) % RxSize = 0 THEN byte ELSE queue[k]]

\* A byte that the hardware has taken: the modem sends when it likes, there is no
\* flow control.
ModemByte ==
  /\ in < MaxIn
  /\ in' = in + 1
  /\ rxQueue' = Received(rxQueue, -(in + 1))
  /\ rxLost' = (rxLost \/ Len(rxQueue) >= RxSize)
  /\ rxByteFlag' = TRUE
  /\ UNCHANGED <<pc, configured, USB_Buffer, NextUSBOut, packetVars, cdcVars, inPacket,
                 taken, pcVars, uartTx, toModem, ghost>>

\* A 0, read from beyond the array or after it was cleared, is not recorded.
UartSent ==
  /\ uartTx # 0
  /\ toModem' = Append(toModem, uartTx)
  /\ uartTx' = 0
  /\ UNCHANGED <<pc, configured, USB_Buffer, rxByteFlag, NextUSBOut, packetVars,
                 cdcVars, inPacket, rxVars, pcVars, in, ghost>>

-----------------------------------------------------------------------------
(* The PC and the USB interrupt.                                            *)

HostSend ==
  /\ configured /\ outPacket = <<>>
  /\ \E n \in 1 .. EpSize :
       /\ out + n <= MaxOut
       /\ out' = out + n
       /\ outPacket' = [i \in 1 .. n |-> out + i]
  /\ UNCHANGED <<pc, configured, USB_Buffer, rxByteFlag, NextUSBOut, packetVars, cdcVars,
                 inPacket, rxVars, toHost, uartVars, ghost>>

HostRead ==
  /\ configured /\ inPacket # <<>>
  /\ toHost' = toHost \o inPacket
  /\ inPacket' = <<>>
  /\ UNCHANGED <<pc, configured, USB_Buffer, rxByteFlag, NextUSBOut, packetVars, cdcVars,
                 rxVars, outPacket, out, uartVars, ghost>>

\* A bus reset, or the cable pulled and put back: the endpoints are off.
BusReset ==
  /\ resets < MaxResets
  /\ resets' = resets + 1
  /\ configured' = FALSE
  /\ outPacket' = <<>> /\ inPacket' = <<>>
  /\ spoilt' = (spoilt \/ outPacket # <<>> \/ inPacket # <<>>)
  /\ UNCHANGED <<pc, USB_Buffer, rxByteFlag, NextUSBOut, packetVars, cdcVars, rxVars,
                 out, toHost, uartVars>>

\* What EUSART_Initialize does to the ring.
EUSART_Initialize ==
  /\ rxQueue' = <<>>
  /\ rxLost' = (rxLost \/ rxQueue # <<>>)
  /\ UNCHANGED taken

\* SET_LINE_CODING, sent when a program opens the port: USART_mySetLineCodingHandler.
SetLineCoding ==
  /\ configured
  /\ EUSART_Initialize
  /\ UNCHANGED <<pc, configured, USB_Buffer, rxByteFlag, NextUSBOut, packetVars, cdcVars,
                 inPacket, pcVars, uartVars, ghost>>

\* EVENT_CONFIGURED: USBapp_CdcEmulatorInitialize, with CDCInitEP and
\* EUSART_Initialize.  RS232_Out_Data_Rdy and RS232cp keep their values.
Configured ==
  /\ ~configured
  /\ configured' = TRUE
  /\ cdc_trf_state' = "READY"
  /\ outPacket' = <<>> /\ inPacket' = <<>>
  /\ EUSART_Initialize
  /\ USB_Buffer' = [i \in Indices |-> 0]
  /\ NextUSBOut' = 0
  /\ LastRS232Out' = 0
  /\ spoilt' = (spoilt \/ NextUSBOut > 0 \/ inPacket # <<>>
                   \/ RS232_Out_Data_Rdy \/ cdc_trf_state = "BUSY")
  /\ UNCHANGED <<pc, rxByteFlag, RS232_Out_Data_Rdy, RS232cp, cdc_tx_len, out, toHost,
                 uartVars, resets>>

-----------------------------------------------------------------------------
Init ==
  /\ pc = "gets" /\ configured = FALSE
  /\ USB_Buffer = [i \in Indices |-> 0]
  /\ rxByteFlag = FALSE /\ NextUSBOut = 0
  /\ RS232_Out_Data_Rdy = FALSE /\ LastRS232Out = 0 /\ RS232cp = 0
  /\ cdc_trf_state = "READY" /\ cdc_tx_len = 0
  /\ outPacket = <<>> /\ inPacket = <<>>
  /\ rxQueue = <<>> /\ uartTx = 0
  /\ toHost = <<>> /\ toModem = <<>> /\ out = 0 /\ in = 0
  /\ taken = <<>> /\ resets = 0 /\ spoilt = FALSE /\ rxLost = FALSE

Next ==
  \/ MainLoop
  \/ ModemByte \/ UartSent
  \/ HostSend \/ HostRead \/ BusReset \/ Configured \/ SetLineCoding

Spec == Init /\ [][Next]_vars

(* main calls the handler for ever, the UART shifts its byte out, and the   *)
(* PC configures the device and polls it.  Nobody has to send anything.     *)
FairSpec ==
  /\ Spec
  /\ WF_vars(MainLoop) /\ WF_vars(UartSent)
  /\ WF_vars(HostRead) /\ WF_vars(Configured)

-----------------------------------------------------------------------------
(* Properties.                                                              *)

\* Every variable is of its type.  NextUSBOut leaves room for the terminator
\* and the zero-length-packet state of the CDC driver is never entered.
TypeOK ==
  /\ pc \in {"gets", "write", "read", "take", "clear", "put", "service"}
  /\ {configured, rxByteFlag, RS232_Out_Data_Rdy, spoilt, rxLost} \subseteq BOOLEAN
  /\ USB_Buffer \in [Indices -> -MaxIn .. MaxOut]
  /\ NextUSBOut \in 0 .. EpSize - 1
  /\ LastRS232Out \in 0 .. EpSize
  /\ RS232cp \in 0 .. IndexMod - 1
  /\ cdc_trf_state \in {"READY", "BUSY", "COMPLETING"}
  /\ cdc_tx_len \in 0 .. EpSize - 1
  /\ Len(outPacket) \in 0 .. EpSize /\ Len(inPacket) \in 0 .. EpSize - 1
  /\ Len(rxQueue) \in 0 .. RxCountMod - 1
  /\ uartTx \in -MaxIn .. MaxOut
  /\ out \in 0 .. MaxOut /\ in \in 0 .. MaxIn /\ resets \in 0 .. MaxResets

Stored(from, to) == [i \in 1 .. to - from |-> USB_Buffer[from + i - 1]]

\* Modem bytes that the bridge holds, oldest first.
TowardsHost ==
  inPacket \o Stored(0, IF cdc_trf_state = "BUSY" THEN cdc_tx_len ELSE NextUSBOut)

\* What EUSART_Read returned is with the PC or on its way, once and in order: the
\* buffer is not reused before CDCTxService copied it.  Exceptions (spoilt): a reset
\* found bytes in the device, or the two directions met in USB_Buffer.
ReadReachesHost == ~spoilt => toHost \o TowardsHost = taken

\* And what EUSART_Read has returned and is still to return are all the bytes of the
\* modem.  Exception (rxLost): the ring overran, because the PC does not poll or a
\* byte was left behind for each lost rxByteFlag, or was cleared with bytes in it.
ModemIsRead == ~rxLost => taken \o rxQueue = [k \in 1 .. in |-> -k]

\* No byte of the modem is lost, repeated or overtaken on its way to the PC, but for
\* the two exceptions; what a lossy ring still yields is passed on faithfully.
NothingLostToHost == ReadReachesHost /\ ModemIsRead

TowardsModem ==
  (IF uartTx = 0 THEN <<>> ELSE <<uartTx>>)
    \o (IF RS232_Out_Data_Rdy THEN Stored(RS232cp, LastRS232Out) ELSE <<>>)
    \o outPacket

\* The same for the bytes of the PC: packets are NAKed until the one in
\* USB_Buffer has gone to the UART, byte by byte, and none is skipped,
\* repeated or overtaken.
NothingLostToModem ==
  ~spoilt => toModem \o TowardsModem = [k \in 1 .. out |-> k]

\* The main loop sits in EUSART_Read with nothing to read.
Stalled == pc = "take" /\ rxQueue = <<>>

\* A packet of the PC is not NAKed for ever, unless the main loop stalls.
PacketsAccepted == (outPacket # <<>>) ~> (outPacket = <<>> \/ Stalled)

\* Bytes taken from the UART are handed to the CDC driver in the end.
StagedIsSent == (NextUSBOut > 0) ~> (NextUSBOut = 0 \/ Stalled)

\* "Check if we received a character over the physical UART, and we need to
\* buffer it up for eventual transmission to the USB host": received bytes do
\* not stay in the UART driver.
ReceivedIsForwarded == (rxQueue # <<>>) ~> (rxQueue = <<>>)

\* "Check if one or more bytes are waiting ... If so, send it": what is sent
\* to the UART are bytes of the packet.
SendsThePacket == RS232_Out_Data_Rdy => RS232cp < LastRS232Out
=============================================================================
