# Formal model of LoRaMote SigMap

The repository is the firmware of a battery-powered LoRa "mote" on a PIC18LF25K50:
a small USB bootloader and an application that shares one UART, to an RN2903 LoRa
modem, between a USB serial bridge and a stand-alone mode that maps signal strength.
This directory holds TLA+ modules of its parts, the configurations TLC checks them
with, and proofs for TLAPS. Source paths below are relative to the repository's `src/`.

Check a run with `tlc -config <cfg> <module>`, and the proofs with `tlapm <module>.tla` for
the modules `EusartTxProofs`, `EusartRxProofs`, `BootloaderProofs`, `CdcBridgeProofs`,
`MoteProofs`, `UsbControlProofs`, `UsbPipeProofs` and `TicksProofs`.

## 1. Inventory

| Part | Code | State | Operations | Talks to |
|---|---|---|---|---|
| EUSART driver | `Includes/MccGenerated/eusart.c` | two rings with head, tail and count; TXIE, RCIE | `EUSART_Read/Write/Initialize/FlushBuffer`, two ISRs | main loop and interrupt share the rings; the USB interrupt reinitialises them |
| Interrupt dispatcher | `Includes/MccGenerated/interrupt_manager.c` | - | one branch per call: timer, UART rx, UART tx, comparator, else USB | calls the ISRs, `TMRapp_Tick`, `USBapp_setrxByteFlag`, `USBDeviceTasks` |
| USB/UART bridge | `Includes/Board/USBapp.c` | `USB_Buffer` (both directions), `NextUSBOut`, `RS232_Out_Data_Rdy`, `RS232cp`, `rxByteFlag` | one handler, called for ever; initialisation in interrupt context | EUSART and CDC drivers |
| CDC driver | `Includes/Usb/framework/usb_device_cdc.c` | `cdc_trf_state`, one packet each way | get, put, service | bridge, USB stack |
| MOTE mode | `Includes/Board/MOTEapp.c` | `activeState`, `moteState`, channel counter, data rate, buttons | one pass per call | modem, by text lines over the EUSART driver |
| Main loop | `LoRaMote_SigMap.X/main.c` | `operationType` | switches USB and MOTE mode with the cable | both modes |
| Bootloader | `HidBootLoader/src/BootPIC18NonJ.c`, `main.c`, `usb_device_hid.c` | flash, `BootState`, programming buffer and pointer, config lock | eight commands of the PC; the start-up signature check | update program on the PC, by HID reports |
| USB device stacks | `Includes/Usb/framework/usb_device.c`, `HidBootLoader/src/usb_device.c` | device state, endpoint 0 state machine | `USBDeviceTasks` and its handlers | bridge and bootloader, by events |
| Timer, buttons | `Includes/Drivers/TMRapp.c`, `buttons.c`, `tmr1.c` | tick flag, counters, debounce | tick (interrupt), handler (main loop) | MOTE mode |
| Display, ADC, comparator, SPI, memory, descriptors, power-up test | generated or output-only | - | - | - |

What is hard, and what makes each part correct:

* **EUSART**: the interrupt falls between statements of `EUSART_Write` and
  `EUSART_Read`; receive overruns are ignored and the counter wraps; clears come from
  another interrupt. Correct means: a FIFO in each direction, no byte stranded with
  its interrupt disabled, no spin for ever, and realignment after an overrun.
* **Bootloader**: the power may fail between any two flash operations and the PC
  program may be closed at any packet, leaving half a session in RAM. Correct means:
  the signature is in the flash only with a complete image, only a complete image is
  started, the bootloader never damages itself, and what is programmed reads back.
* **Bridge**: both directions share an array, and a USB reset or configuration comes
  at any statement; nothing holds the modem off when nobody reads. Correct means: every
  byte once and in order, lost only where the ring overran or was cleared, and nobody
  waits for ever.
* **MOTE mode**: commands and answers must stay paired over retries, cable changes
  and asynchronous answers, and in USB mode the PC may have set the modem to anything.
  Correct means: it joins with the whole configuration accepted, recovers from rejected
  commands, and labels packets truthfully.
* **USB stacks**: a host that loses an acknowledgement, gives up a transfer or resets
  the bus, and a module (SIE) that moves packets while the firmware is between two of
  its own statements. Correct means: the firmware can always take the next SETUP,
  what a transfer carries is exact, no transfer hangs, the device states are those of
  chapter 9, and activity on the bus always wakes the device.
* **CDC endpoint**: two ping-pong buffers, their data toggles, zero-length packets and
  the halt feature. Correct means: each packet once, in order, transfers undivided.
* **Timer, buttons**: one flag for the ticks, a count that wraps, a contact that
  bounces. Correct means: a timeout neither early nor late in the ticks the main loop has
  handled, one press for one push.

`PROJECT.json` lists the hazards line by line, with the properties that watch them.

## 2. Modules

| Module | Models |
|---|---|
| `ByteFifo` | abstract: a FIFO of numbered bytes, lossless or lossy |
| `EusartTx`, `EusartRx` | the two halves of `eusart.c`; each implements `ByteFifo` |
| `EusartTxProofs` | theorems about `EusartTx` for every ring size |
| `EusartRxProofs` | realignment, order and FIFO refinement of `EusartRx`, for every size of ring and counter |
| `FirmwareUpdate` | abstract: which version is installed and which is running |
| `Bootloader`, `MCBootloader` | bootloader, flash and PC program; implements `FirmwareUpdate` |
| `BootloaderScripts` | the images for which its buffer works (`SafeImages`), the order of a session's commands (`ScriptShape`) and what its packets contain (`ScriptContents`); `MCBootloaderUnsafe` has images that are not safe |
| `BootloaderProofs` | self-protection, the meaning of the signature, the atomic update and that a session verifies, for all sizes and all safe images |
| `CdcBridge` | `USBapp.c` with the CDC driver |
| `CdcBridgeProofs` | both directions of the bridge in order and without loss, but for stated exceptions, for every size of packet, ring and counter |
| `Mote`, `MCMote` | `main.c`'s mode switch and `MOTEapp.c`, with the modem |
| `MoteProofs` | theorems about `Mote` for every number of channels, rates and rejections |
| `UsbBus` | external: a host and the USB module of the PIC, as far as endpoint 0 goes |
| `UsbChapter9` | abstract: the device states of USB chapter 9 |
| `UsbControl`, `MCUsbControl` | the application's `usb_device.c` on `UsbBus`; implements `UsbChapter9` |
| `UsbControlProofs` | next SETUP, address, exact reads, finished writes, wake-up and chapter 9 of `UsbControl`, for every set of requests |
| `BootUsb`, `MCBootUsb` | the boot loader's `usb_device.c`, with the HID requests, on `UsbBus` |
| `UsbPipe` | the CDC bulk endpoint, driver and stack, down to the buffer descriptors |
| `UsbPipeProofs` | exactness in both directions, for every packet size and any transfers |
| `Ticks` | `TMRapp.c`, `buttons.c` and the menu timeout of `MOTEapp.c` |
| `TicksProofs` | theorems about the buttons and the menu timeout, for all thresholds, widths and timeouts |

**EusartTx / EusartRx.** A variable is the C variable of the same name (without
`eusart`). `pc` is the place of the main loop inside `EUSART_Write` or `EUSART_Read`;
there is one action per statement that an interrupt could see half done. An ISR is
one action, because there is a single priority level. Bytes are numbered, so that
order and loss are arithmetic. `EusartRx` keeps the hardware FIFO, the OERR bit and
the modulus of the counter. `torn`, `overrun` and `lossy` are history variables that
say when the documented weaknesses (reinitialisation inside a call, ring overrun)
have happened; the properties say what holds otherwise, and `RingAligned` of
`EusartRx` what holds even through overruns. `ReceiverRecovers` is about those too: after
an overrun of the hardware FIFO the receiver starts again, and nothing stays in the
hardware, with nobody reading the ring.

**Bootloader.** `mem` maps addresses to cells `<<version, address>>`, so any shifted
or mixed programming is visible; programming over a programmed cell gives `Junk`.
`ProcessIO` is one action per command, or one per erase and block write where the
power can fail in between (`loop` counts them). `Script` is what the PC program
sends for an image: query, unlock, erase, program each section in packets, verify,
sign, reset. A single erase or block write is atomic. Addresses are scaled: page
6, block 3, packet 4 for 64, 32 and 58. The order block < packet < page is kept, and
a packet is not a multiple of a block, which is what the buffering must cope with.
Writing the configuration bits has a nondeterministic low address byte
(`TBLPTRL` is never loaded).

**CdcBridge.** `pc` walks through the statements of
`USBapp_DeviceCdcEmulatorHandler`; UART interrupts, bus resets, EVENT_CONFIGURED and
SET_LINE_CODING come between any two. PC bytes are 1, 2, ...; modem bytes are -1, -2, ...
There is no flow control between modem and firmware, so `ModemByte` waits for nothing.
`rxQueue` is what the next calls of `EUSART_Read` will return: in an overrun a byte replaces
the one a whole ring before it (`Received`), and where the 8-bit count wraps the ring
reads as empty. `rxLost` says that this, or a reinitialisation that cleared bytes, has
happened, `spoilt` that a reset found bytes in the device or the two directions met in
`USB_Buffer`; `taken` is what `EUSART_Read` has returned. `NothingLostToHost` is in two parts:
the ring's losses are the only ones before `EUSART_Read` (`ModemIsRead`), and what it
returned reaches the PC whatever the ring has lost (`ReadReachesHost`).

**Mote.** One action per state of `moteJoiningProcess` and per branch of `main` and
`moteHandler`. Commands and answer lines are atomic and queued. A pass that does not
look at the answer may or may not be the one that ends a line (`IgnoreLine`), because
one byte is read per pass. The states whose code is "wait for an answer, send the
next command" are rows of the table `Step`. The modem rejects commands, denies joins
and reports transmissions and downlinks. It starts up, and comes out of a reset, with any
data rate (`ModemReset`). While the cable is in, the bridge passes the PC's commands on
to it (`UsbCommand`): settings with values other than the mote's, a data rate, a reset, a
join, a packet. A setting replaces the earlier one of the same item. `told` is a history variable: the rate
that the modem has is one that the mote sent and the modem accepted.

**UsbBus, UsbControl, BootUsb.** `UsbBus` is the hardware both stacks drive: the
buffer descriptors of endpoint 0 with their owner, the four-deep USTAT queue, PKTDIS,
the address and the interrupt flags; and a host that runs control transfers. A
descriptor is handed over by one step for each `STAT |= _USIE` of the code, because
from that statement on the module may use it. A firmware module has one action per
section of `USBDeviceTasks` (`pc`), and splits `USBCtrlEPService` where the module
could act in between. A packet is `(source, offset, length)`: which table or buffer it
was taken from, where, and how much, in units of half a packet; so a wrong, repeated
or stale packet is visible. `Unanswered` says when the host gets no answer and will
reset the bus; the properties of endpoint 0 speak of states in which everything has
been `Serviced`. In `BootUsb`, `EP0Spent` is the one state of endpoint 0 the code does not
get out of without a reset.

**UsbPipe.** The bulk endpoint pair: descriptors with ownership and DATA0/1,
`pBDTEntryIn/Out` ping-pong, `USBTransferOnePacket`, `getsUSBUSART`, `putUSBUSART`,
`CDCTxService` with zero-length packets, and `CDCInitEP` and the halt feature in the
USB interrupt between any two steps. Two history variables keep the properties' exceptions
apart. `stale` says that CLEAR_FEATURE(HALT) took back the OUT buffer `getsUSBUSART` waits for:
its old bytes will be handed over once (`UsbPipeStale.cfg`), and `OutExact` leaves out that
one hand-over and nothing else. `upset` is for what ends the promise until the next
configuration: a request inside `getsUSBUSART` (`gets`, `out`), an OUT halt cleared while the
host repeats a packet whose acknowledgement was lost (`out`), and an IN halt cleared inside
a transfer (`in`). `CdcBridge` uses the same driver at the level of whole packets.

**Ticks.** The timer interrupt `TMRapp_Tick`, which comes between any two of the steps
of a pass of `moteHandler`: the test of the flag, the clearing of all flags,
`TMRapp_Handler`, and the buttons with the menu timeout. Both switches share the code and the timers, and are one. `idle` counts real
ticks without a press; `pushed`, `released` and `held` count passes with the switch in
one position, so that the properties can speak of pushes, not of the counters. The sleep
event is the flag `gotoSleep` that `moteHandler` computes; this build does not reach the state
that would act on it (section 7).

## 3. Runs

| Run | Bounds | What it asks |
|---|---|---|
| `eusart_tx` | ring 2, 5 bytes, 2 clears | alignment, stranding, order, return, FIFO refinement, progress |
| `eusart_rx` | ring 2, counter mod 4, hardware FIFO 2, 6 bytes, 1 clear | alignment through overrun and wrap, order, refinement, the receiver starts again |
| `bootloader` | 2 images, 3 sessions, 2 faults | atomic update, signature, self-protection, read-back, progress |
| `cdc_bridge` | endpoint 3, ring 2, 3 bytes each way, 1 bus reset, any number of SET_LINE_CODING | loss and order in both directions, progress |
| `mote` | 3 channels, 2 rates, 2 troubles, 3 commands of the PC, one at a time, any number of times | step with the modem, full configuration, label, recovery |
| `usb_control` | 2 IN descriptors, 1 fault, 7 requests | next SETUP, exact reads, writes done, address, wake-up, chapter 9, progress |
| `boot_usb` | 1 IN descriptor, 1 fault, 7 requests | next SETUP unless both OUT descriptors are spent, exact reads, progress |
| `usb_pipe` | packets of 2, lengths 1-3, 3 out, 2 in, 1 fault, 1 request | exactness in both directions, progress |
| `ticks` | timeout 3 s, thresholds 3 and 2, PB_Timer mod 6, tick count mod 13 | timeout not early, not late; one press per push |
| `boot_userid`, `boot_wakeup`, `mote_resync` | small | disagreements between code and comment (section 6) |

Why the bounds are enough: a ring of 2 wraps several times with 5 or 6 bytes and both
"full" and "one slot" differ from "empty"; the counter's modulus is a multiple of the
ring size and larger, as 256 is of 64. Two images are needed for "old replaced by
new", and three sessions give one aborted session, one disturbed by its remains and a
clean one. An endpoint of 3 leaves a buffer of 2 bytes and a terminator, and three bytes of
the modem overrun a ring of 2. The fourth would wrap the count (modulus 4); the run does not
get there, `HostGetsAll` (section 5) holds there too.
Two troubles are two rejected commands, one and a change of the cable, or a cable
pulled and put back. In the `mote` run the device starts plugged or unplugged. The PC's
commands are one of each kind: a setting of another value (`mac set sync`), a data rate and a
reset. It sends one when nothing is on its way (`MaxPending` is 1); the theorems have any
number of any commands at any time.

A full packet of 2 units leaves room for a short and for a zero-length last packet.
The requests of `usb_control` are SET_ADDRESS, SET_CONFIGURATION, a descriptor that
ends short, one that is a whole number of packets, one that does not exist, and
SET/GET_LINE_CODING, so each kind of control transfer occurs; the other branches of
the request handlers are in the model but not in this instance. One fault is one lost
acknowledgement, one transfer given up or one bus reset, at any point; the same host
can then start any request. In `usb_pipe`, three packets out go once around the two
buffers. In `ticks` the word of the tick count (13) is no multiple of a second
(4), as 65536 is none of 1000, and a whole day with its half and its hours, and
several wraps of PB_Timer, fit into the run.

A property is run where it says most: type correctness as a property of a run
(`eusart_tx`) and a theorem; every other module has its `TypeOK` for the
reader and for `INVARIANT TypeOK` in a configuration of one's own.

Deadlock is not checked where the system really may stop: no more bytes within the
bound (`eusart_*`), the main loop waiting in `EUSART_Read` (`cdc_*`), the mote
waiting for `mac_tx_ok` after another answer (`mote*`), and a host that asks nothing
more (`usb_*`, `boot_usb`, `boot_wakeup`). It is checked in `bootloader` and `ticks`.

## 4. Fairness

Fairness is assumed only of what the processor and the hardware do by themselves: the
main loop (`while(1)` in `main` and `BootMain`), a pending interrupt, the UART shift
register, the timer, the USB host polling an endpoint, and the modem answering a
command. Nothing is assumed of users (buttons, cable, starting an update) or of the
supply. In `EusartTx` only a call that has begun is fair: nobody has to call. The same holds of
`EusartRx`, where the bridge reads one byte per `rxByteFlag` and only with room for it:
a pending receive interrupt is served, and a call that has masked it gets to the end,
but nobody has to read. In `CdcBridge` the PC polls, the modem and the PC's programs need
do nothing. `Ticks` has no fairness, its properties are about steps.

In the USB modules a host may stop asking, but it ends a transfer it began, ends a
reset, and resets a device that never answers; in `UsbPipe` it polls both
directions and clears a halt it set. All of it is weak fairness, with one exception:
the start-of-frame branch of `USBDeviceTasks` is strongly fair in `UsbControl`. The
interrupt runs again and again, a start of frame comes every millisecond, and
whether one has come is asked only at one place of it, so the branch is enabled again
and again but not continuously.

## 5. Proofs

**EusartTx.** `EusartTxProofs` proves for every ring size, any number of bytes and of clears:

* `TypeCorrect`, `Aligned`, `NeverStranded`: `TypeOK`, `RingAligned`, `NoStrandedByte`
  are invariants of `Spec`;
* `InOrder`: the action property `LineInOrder`;
* `ImplementsFifo`: until the first clear, `EusartTx` implements `ByteFifo`.

The only assumption is `TxConstants` (the ring has at least one slot). The
inductive invariant `IInv` adds two facts to the run's invariants. `Phase` says what
TXIE and the count are at each place of `EUSART_Write`: for instance that TXIE
is off and the ring is not full between the mask and the enable. `InFlight` says that
ring, TXREG and the byte of the current call hold increasing numbers between the last
byte on the line and the last one written. Without `Phase` the counter could leave its range
at `count`; without `InFlight` neither order nor refinement is inductive. `Tight`
strengthens "increasing" to "consecutive" until the first clear, for the refinement.

**EusartRx.** `EusartRxProofs` proves `Realigned` (`RingAligned`) and `TypeCorrect`
(`TypeOK`) as invariants of `Spec`, through any number of overruns, counter wraps and clears. It assumes
`RxConstants`; the one assumption that matters is `CountMod % Size = 0`, true of 256
and 64, without which the ring would not realign. `Gap`, the head less the tail less the
count, stays a multiple of `Size`: an index steps by 1 or 1 - `Size`, and the counter by
1 or 1 - `CountMod`. `Flushing`, what `EUSART_FlushBuffer` has cleared already at each of
its statements, is needed for the step at which the alignment is asserted again.

It also proves `InOrder` (`ReadInOrder`) and `ImplementsFifo` (`FifoUntilLoss`).
They use that the counter can count an overrun (`CountMod > Size + 1`; 256 and 64).
The counter cannot say what the ring holds, since it counts overwritten bytes and wraps, so `Fresh`
speaks of the distance from tail to head: those bytes have not been read and are
in order. Where head and tail meet, the counter decides between full and empty
(`Filled`), and a wrap between the test of `EUSART_Read` and its use leaves a full ring with
count 0. During an overrun only the whole ring, seen from its head, is in order
(`OldestFirst`). `Tight` says that until the first loss the counter, ring and hardware FIFO
hold exactly the bytes from the last one read to the last one that arrived.

**Mote.** `MoteProofs` proves `FullyConfigured` (`JoinedConfigured`), `AlwaysInStep`
(`InStep`) and `TypeCorrect` (`TypeOK`) for every number of channels, sub-band, number of data rates,
of rejected commands, denied joins and changes of the cable, and whatever the PC has told
the modem. It assumes `MoteConstants`: there
is a channel and a data rate, the passes of `moteRest` fit below the channel count
(they share `ch`; 20 and 72), and what the modem said before the main loop started
consists of answer lines. Neither property is inductive: an accepted line says only
"ok", and not to which command. `Synchronized` therefore says, for each state of
`moteJoiningProcess`, that exactly the command sent last is outstanding
(`Awaiting(LastSent)`) and that all those before it are accepted (`Confirmed`), and
that nothing is on its way in `moteStartup`. What the PC set before is gone then, because an item
has one value (`OneEach`) and the mote sets them all. `Counter` bounds the channel counter
in the states that use it, `Wire` what can be on its way.

The last theorem is `TrueLabel` (`RateLabelTrue`): from the moment the modem accepts a rate from
the mote until somebody else sets one, every "tx" carries the rate that it is sent with. The first
packet comes before that moment, and so does the first one after the PC, a reset or a rejected
`mac set dr` (section 6). After the join the mote does get out of
step, because it ignores the report of its first packet, and a "tx" may be queued behind
the "mac set dr" it depends on. `RatesAgree` therefore follows the rate that the mote has
sent along the queue of commands, with one rate between any two of them: it begins with `modemDr`
if the modem was `told`, ends with `dr`, and every "tx" carries the rate before it.

**Bootloader.** `BootloaderProofs` proves `NeverDamaged`: `BootloaderIntact` is an invariant
of `Spec` for all sizes, any number of versions, sessions, aborts and power failures. It
assumes `BootConstants` (blocks divide pages, the application starts on a page and
follows the bootloader) and `SafeImages`, which the code does not check:

* packets for the buffer lie in the application's part of the flash;
* a section starts on a block, or has at least a block, or ends in the block it starts in;
* no packet of any image starts where a short packet of another ends that began inside
  a block.

TLC evaluates `SafeImages` in `bootloader`. Without the first part `boot_userid`
damages the bootloader, without the second `BootloaderShortRetry.cfg`. The third is
needed because the pointer and the buffer survive an aborted session: what is left
there may be continued by a packet of another version. In the invariant, `Settled` says
that between packets one block takes all that is in the buffer, so that
PROGRAM_COMPLETE leaves nothing behind; `Middle` is its form
between two bytes of a packet; `Pipeline` follows the packets through the PC's script, the
OUT endpoint and `PacketFromPC`, so that a packet that may only continue another never
meets an empty buffer, even when the session before was cut.

The same module proves `SignatureMeansComplete` (`SignedIsComplete` is an invariant of `Spec`)
and `Atomic` (`Spec => UpdateIsAtomic`: `Bootloader` implements `FirmwareUpdate`), for the
same constants. They add the assumption `ScriptShape`, which says of `Script` that its
commands come in the order of a session, that every byte of the image is in the memory
and is read back, and that no packet contains the signature. It holds for every image
that has a byte in the memory at all; neither it nor that a script satisfies `SafeImages` if its
sections do is proved, because `Script` concatenates with a fold. TLC evaluates both.

The signature is a statement about the past: the PC sends SIGN_FLASH because of answers it
has read, and by then an aborted session, a restart of the PC program or a stale report
could have made them worthless. `SInv` therefore follows the answers: `InOrder` says which
command can be behind which, in one session or across two; `NoStaleRead` that before the
first query of a session is answered nothing left of an earlier GET_DATA can be taken
for an answer; `Current` that while the PC reads back, the answers it has not looked at
yet agree with the memory and nothing on its way will change it; `Checked` that each
byte of the image is still to be read back, or has been and is right. `Unsigned` says that the
signature is gone before anything is programmed, `Emptied` that the buffer SignFlash
borrows holds nothing of a section, and `Signing` (`HalfSigned`) which blocks of the page
are programmed already, the signature last. For the refinement, `SignatureStep` says of
every step that it leaves the memory alone, or finds or leaves no signature: this is
what makes an update pass through "no version".

`SessionVerifies` (`FlashSessionVerifies` is an invariant of `Spec`) says that the buffering
is right: a session that finds the device at rest and asks for no configuration bits
reads back what it wrote, however its packets fall on the blocks. It adds the assumption
`ScriptContents` about that kind of script: a packet carries the image's own bytes and lies
in flash or EEPROM; each section is sent from its start to its end, so that a packet
either continues the one before it or follows a PROGRAM_COMPLETE; and what is read back
was sent before. `Settled` says where bytes go, not that they arrive. `VInv` adds, while such a
session is under way: `Sequel`, what is on its way and what is still to be sent are the tail
of one script; `Joined`, the next packet continues at `ProgrammedPointer`, or finds the
device without a section; `Parcels`, every packet on its way holds the image's bytes;
`Clear`, after ERASE_DEVICE a cell not yet programmed is erased, because programming only
clears bits; `Accounts`, every cell of the image that a packet of the script covers is still
to be sent, or in the buffer, or in the memory with its right value; and `Answers`, what
has been read back agrees.

**CdcBridge.** `CdcBridgeProofs` proves `HostGetsAll` (`NothingLostToHost`) and `ModemGetsAll`
(`NothingLostToModem`) for every packet size, UART ring, number of bytes, of bus resets and of SET_LINE_CODINGs,
assuming `BridgeConstants` (a packet has at least two bytes, `RS232cp` can count
more than a packet, and the ring's count wraps at a multiple of the ring's size, above it).
The exceptions are those of the properties: `spoilt` for both, and `rxLost` for what is
promised before `EUSART_Read`; the modem is not assumed to wait. A direction is a chain of places, and a step moves bytes from one
to the next. It becomes inductive with `Flow`: a transfer handed to the CDC driver leaves
`USB_Buffer` in the same pass, before either direction writes there again; and with
`PacketLeft`: while a packet is being sent, `RS232cp` is inside it, unless a
reconfiguration has `spoilt` it. `TypeCorrect` (`TypeOK`) bounds `NextUSBOut`.

**UsbPipe.** `UsbPipeProofs` proves `OutIsExact` (`OutExact`), `InIsExact` (`InExact`) and
`TypeCorrect` for every packet size, any transfer lengths and any number of packets, lost
acknowledgements and requests, assuming `PipeAssumption`. The driver, the interrupt and the
SIE go through the two buffers of a direction at their own pace. `Aligned` says that the
transactions in the USTAT FIFO lead from `ep_data` to the SIE's next buffer; `OutBody` and
`InBody` say for each place of the driver which buffers are armed, with what toggle, and
count what the host has and what is still in a buffer. They hold while the endpoint is
configured and not `upset` (section 2). A CLEAR_FEATURE(HALT) at rest is not `upset`: besides
the armed buffer (`OutArmed`) and the received packet (`OutWaiting`), `OutBody` has the place
`OutTakenBack`, where the SIE, the driver and the handle all stand at the buffer that was
taken back, and `WaitingFree` says that no packet of the host waits there.

**UsbControl.** `UsbControlProofs` proves `SetupIsAccepted` (`SetupAccepted`), `AddressIsAgreed`
(`AddressAgrees`), `ReadsExact` (`ReadsAreExact`), `WritesDone` (`WritesAreDone`), `WakeUpComes`
(`WakesUp`), the refinement `ImplementsChapter9` (`Chapter9`) and `TypeCorrect`, for every set of requests, lengths of descriptors and of packets, one
or two IN descriptors, and any number of lost acknowledgements, abandoned transfers and
bus resets. `Owners` follows a descriptor between firmware, SIE and USTAT FIFO: nobody
has it twice, and one OUT descriptor is always on its way to the SIE's next place, which is
what "can take the next SETUP" needs. `Addresses` follows a SETUP packet and the address it
may carry from the host to U1ADDR. `Idling` relates suspend, ACTVIE and the flags, `HostWays`
what a host may be doing.

`Stages` follows the data of a transfer, on top of the invariant above. `Prepared` is the
firmware between the SETUP packet and what it arms for it. In the data stage of a read
(`Supply`) what has been cut off the source and what is left of it make up what was asked for
(`Wanted`), and the host has all that was cut off, but for the packet in flight: that packet
may be one whose acknowledgement was lost, and the toggle tells the two apart (`InFlight`).
At the end `ReadOver` has everything `Delivered`, from whichever descriptor the status stage
was taken. `ReadOver` and `Commanded` speak of a transfer until the host begins another: what
was asked for must not change under an answer on its way, and a command not be undone. A line
coding is on its way, in the FIFO or set (`LineCoding`): a host that is let through to the
status stage early, by its timeout, can be done while the packet still waits in the FIFO,
which is why `WritesAreDone` says "once serviced".

Three things came out of the proofs. The code takes the length of a line coding from `wLength`
and never compares it with `LINE_CODING_LENGTH`; `ControlAssumption` has it in one packet and
not empty, as the 7 bytes are in the 8 of endpoint 0, without which `WritesAreDone` is false
(with no data stage nothing new is set). `ControlAssumption` also says that no host assigns the
address 0: with it, the device could be back in its default state while the host's next SETUP
overwrites the `SetupPkt` from which the address of the status stage is taken, and
`AddressAgrees` would have to speak of that case. And `OpenNext` shows that the descriptor
`USBStallHandler` would arm again is never the current one: its re-arm is dead code (section
6).

**Ticks.** `TicksProofs` proves `OnePress`: the action property `OnePressPerPush`
holds for every pair of thresholds and every width of PB_Timer, however the contact
bounces. It assumes only `ButtonAssumption` (the press threshold is
positive and below the timer's width). The invariant `Debounce` is needed because a press is
PB_Timer *reaching* `Short`: the same value occurs again after a wrap, so `Pressed`
says exactly where the timer stands for the number of passes pushed since the
press, and `Waiting` that once Release_Timer has run out the timer starts below
`Short` and counts at least the passes of the push under way.

`TimesOut` is the menu timeout, `SleepOnTime`: the sleep event comes within a second of
`SleepTimeOut` seconds of handled ticks, or within two when the count of ticks wrapped,
whatever ticks the flag lost. Its invariant `Timed` measures with `Since`, the ticks
handled since the last whole second: `NotLate` says that the ticks counted are at most the
whole seconds and `Since`, `NotEarly` that they are at least that less the second in which
the count was started, and less what the wrap cut from one second more; the ticks
counted are then more than the tick count holds, which is how the proof knows that a second
wrap has not happened. For that it needs `SleepAssumption`: the timeout is shorter than a
wrap (10000 ticks, 30000 in a debug build, of 65536), and 10, 100 and 1000 divide each other, as the nested
conditions of `TMRapp_Handler` need for a second to be reported at all. How often the flag
is seen plays no part: the bound is in ticks handled.

Only model-checked:

* the invariants of `BootUsb` (`SetupAcceptedUnlessSpent`, `ReadsAreExact`), whose descriptors
  are handed over by other rules than those of `UsbControl`;
* all liveness (`AllSent`, `TransfersEnd`, `JoinRecovers`, ...): fairness and ENABLED are out
  of the prover's reach.

## 6. Where the code and its comments disagree

Three are runs, with one property each that restates the comment; quotations are
in `PROJECT.json` under `findings`.

* `boot_userid`: the user ID region is written over the bootloader (`TBLPTRU = 0`).
* `boot_wakeup`: the boot loader clears ACTVIF before it looks at IDLEIF and can then
  sleep on a bus in use; its own comment explains the trap.
* `mote_resync`: the flush of the modem's answers stops at the first byte that is not a
  carriage return: with one answer left over the mote retries for ever.

Seven more are reproduced by a configuration kept beside the modules; TLC reports the
property violated:

| Configuration | Property | What happens |
|---|---|---|
| `EusartRxReinit.cfg` | `NoPhantomBytes` | `EUSART_Initialize` in interrupt context inside `EUSART_Read`: the count becomes 255 |
| `BootloaderShort.cfg` | `FlashSessionVerifies` | `PROGRAM_COMPLETE` does not write all that is left of a short straddling section (module `MCBootloaderUnsafe`) |
| `BootloaderShortRetry.cfg` | `BootloaderIntact` | the rest left behind is programmed in front of the first section of the next session, into the bootloader (same module) |
| `BootloaderConfig.cfg` | `CleanSessionVerifies` | `WriteConfigBits` never loads `TBLPTRL` |
| `CdcBridgeStuck.cfg` | `ReceivedIsForwarded` | `rxByteFlag` is cleared after the read (`USBapp.c:160`): a byte that came in between stays in the ring until another comes, each further one leaves one more, and nothing reads the backlog; `USBapp.c:150` says that received bytes are buffered for the host |
| `UsbPipeStale.cfg` | `OnlyNewData` | CLEAR_FEATURE(HALT) takes the armed OUT buffer back (`usb_device.c:2497`), `USBapp.c:312` ignores EVENT_TRANSFER_TERMINATED, and `getsUSBUSART`, documented to return 0 when there is no data (`usb_device_cdc.c:399`), returns the 64 bytes that are in the buffer |
| `CdcBridgeReconfigured.cfg` | `SendsThePacket` | `RS232cp` is not reset on configuration and runs through 256 values |

Weaknesses the models exhibit, which the properties state as exceptions or leave out
because the code claims nothing about them:

* An abandoned SET_ADDRESS leaves the device in ADR_PENDING.
* A lost acknowledgement of the last data packet of a control write makes the
  application answer the status stage with STALL although the request was carried
  out; one of the status packet of a read gives STALL in the application, and in the
  boot loader uses up an OUT descriptor of endpoint 0.
* In the ATTACHED state the whole UIR is cleared, so a reset can be missed once.
* RemoteWakeup and the alternate settings survive a bus reset.
* The re-arm condition of `USBStallHandler` is never true with full ping-pong buffers.
* `getsUSBUSART` does not mask the USB interrupt: a CLEAR_FEATURE(HALT) inside it can
  leave the OUT pipe answering NAK, a SET_CONFIGURATION inside it arms one buffer twice.
* SET_FEATURE(HALT) is lifted silently when a buffer is armed again. An IN halt cleared
  inside a transfer loses the packet that was taken back; an OUT halt cleared while the
  host repeats a packet makes the device take it twice, as USB has it.
* Nothing holds the modem off: when the PC does not poll, or bytes were left behind, the
  64-byte receive ring overruns. SET_LINE_CODING, which a program sends when it opens the
  port, clears the ring with what is in it.
* The SET_LINE_CODING handler loads SPBRG for the requested rate and then calls
  `EUSART_Initialize`, which loads its constant again: the rate has no effect.
* The first packet of the mote is labelled with rate 0, but no `mac set dr` has been sent by
  then: the modem uses the rate it has saved, or the one the PC has set. The same holds of the first packet
  after a cable change with a PC that sets the rate or resets the modem, and of one after a
  rejected `mac set dr`.
* `modemResonseBuffer` holds 64 characters; a longer line, a `mac_rx` with a payload, is
  beyond the model, whose lines have no length.
* The tick count wraps at 65536, which is no multiple of a second or a minute: minutes
  come in pairs 5.5 s apart, and the "day" lasts about 13 hours.
* `service_pushbutton` is called on every pass, not every millisecond as its comment
  says, so the debounce thresholds are passes; a second push after fewer released
  passes than the threshold is lost.

## 7. Not modelled, and the plan

Not modelled: register set-up (baud rate, framing, oscillator, pins), display, sensors,
LEDs, the power-up test (compiled out), constant tables, the generated accessors of
`memory.c`, `adc.c`, `spi.c`, `cmp1.c`, `fvr.c`, `tmr1.c` and `tmr2.c` beyond what the
handlers above use, and the states of `MOTEapp.c` this build cannot reach
(`moteRunningProcess`, sleep, pairing). Of the USB stacks: functions nothing calls
(`USBDeviceDetach`, `USBStallEndpoint`, `USBCancelIO`, `USBSoftDetach`, the string
variants of the CDC driver), the halt feature and ping-pong of the boot loader's
endpoint 1, and the deferral of stages, whose flags nothing sets.

`Includes/Usb/framework (Case Conflict)/` is a byte-identical copy of
`Includes/Usb/framework/` outside the MPLAB project; what is said of one holds of
the other, and the map names only the one that is built. The large headers are mostly
comments and register layouts, which is why the map covers far less of the
lines than of the logic.

Done: `EusartTx`, `EusartRx`, `Bootloader`, `CdcBridge`, `Mote`, `UsbControl`, `BootUsb`,
`UsbPipe`, `Ticks`, and the proofs of section 5. Left, in this order:

1. Proofs for `BootUsb` (`SetupAcceptedUnlessSpent`, `ReadsAreExact`), along the lines of
   `Owners` and `Stages`.
2. Composition: the bridge over the two EUSART modules instead of their FIFO
   abstraction, and over `UsbPipe` instead of whole packets.
