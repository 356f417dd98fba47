----------------------------- MODULE Bootloader -----------------------------
(***************************************************************************)
(* The HID bootloader: main.c (which image a reset starts) and             *)
(* BootPIC18NonJ.c (ProcessIO, the command handler, and the routines that  *)
(* write the flash), driven by the update program on the PC.               *)
(*                                                                         *)
(* A command is split at each erase and each block write, so the power may *)
(* fail between any two of them.  The PC program may be closed at any time *)
(* and started again, with or without a reset of the device in between.    *)
(*                                                                         *)
(* Addresses are scaled: bank b (address bits 23:16) holds the addresses   *)
(* b*Segment .. b*Segment+Segment-1.  A cell of memory is <<v, a>>, the    *)
(* content of address a in version v of the application, or one of the     *)
(* special cells below.                                                    *)
(***************************************************************************)
EXTENDS Integers, Sequences, SequencesExt

CONSTANTS
  Versions,     \* application images, numbered from 1
  Sections,     \* Sections[v]: the contiguous <<start, length>> of image v
  Block,        \* WRITE_BLOCK_SIZE
  Page,         \* ERASE_PAGE_SIZE
  DataSize,     \* REQUEST_DATA_BLOCK_SIZE
  AppStart,     \* REMAPPED_APPLICATION_RESET_VECTOR
  FlashEnd,     \* PROGRAM_MEM_STOP_ADDRESS
  SigAddress,   \* APP_SIGNATURE_ADDRESS
  Segment,      \* 2^16: size of a bank
  LowByte,      \* 2^8: what the low byte of an address can hold
  DataBytes,    \* size of the user ID, the configuration and the EEPROM
  ConfigAsked,  \* whether a session may ask for the configuration bits
  MaxSessions,  \* bound: update sessions
  MaxFaults     \* bound: sessions cut by a power loss or by closing the program

ASSUME BootConstants ==
  /\ Versions \subseteq Nat \ {0}
  /\ {Block, Page, DataSize, AppStart, FlashEnd, SigAddress, Segment, LowByte, DataBytes}
       \subseteq Nat \ {0}
  /\ ConfigAsked \subseteq BOOLEAN
  /\ Page % Block = 0 /\ AppStart % Page = 0 /\ FlashEnd % Page = 0
  /\ Block < DataSize /\ DataSize < Page
  /\ SigAddress \in AppStart .. AppStart + Block - 1
  /\ Segment % Block = 0 /\ AppStart < FlashEnd /\ FlashEnd < Segment

VARIABLES
  mode,              \* "off", "boot" (BootMain) or "app"
  mem,               \* flash, user ID, configuration bits and EEPROM
  BootState,         \* IDLE or NOT_IDLE
  PacketFromPC,      \* the command being processed
  ProgrammedPointer, \* address after the last byte put in the buffer
  BufferedDataIndex, \* bytes waiting in ProgrammingBuffer
  ProgrammingBuffer,
  ConfigsLockValue,
  loop,              \* progress of the handler of PacketFromPC, 0 at its start
  out,               \* packet in the HID OUT endpoint
  in,                \* report in the HID IN endpoint
  script,            \* commands the PC still has to send
  reports,           \* reports the PC's HID driver has read
  sent,              \* the PC waits for the answer to Head(script)
  want,              \* version the PC is installing
  outcome,           \* of the last session
  sessions, faults,
  clean, withConfig  \* history: how the session began and what it asks for

buffering  == <<ProgrammedPointer, BufferedDataIndex, ProgrammingBuffer>>
device  == <<BootState, PacketFromPC, buffering, ConfigsLockValue, loop>>
usb     == <<out, in>>
host    == <<script, reports, sent, want, outcome, sessions, clean, withConfig>>
vars    == <<mode, mem, device, usb, host, faults>>
rest    == <<mode, PacketFromPC, ConfigsLockValue, host, faults>>

NoPacket == [cmd |-> "none"]

Erased == <<0, 0>>
Junk   == <<0, 1>>   \* two different contents programmed on top of each other
Signature == <<0, 2>>
Loader == <<0, 3>>   \* the bootloader's own code

Bank(a) == a \div Segment
Low(a)  == a % Segment
InvalidAddress == 4 * Segment - 1

InBank(b) == b * Segment .. b * Segment + DataBytes - 1
UserId == InBank(1)
Config == InBank(2)
Eeprom == InBank(3)
Flash  == 0 .. FlashEnd - 1
BootRegion == 0 .. AppStart - 1
Memory == Flash \cup UserId \cup Config \cup Eeprom
PageAt(a) == a .. a + Page - 1

-----------------------------------------------------------------------------
(* The update program.  It leaves the signature to the device.              *)

SectionCells(v) ==
  UNION {s[1] .. s[1] + s[2] - 1 : s \in {Sections[v][k] : k \in DOMAIN Sections[v]}}

ImageCells(v) == SectionCells(v) \ {SigAddress}

Content(v, a) == IF a \in ImageCells(v) \cup Config THEN <<v, a>> ELSE Erased

\* Packets of at most DataSize bytes for n bytes at address a.
Packets(command, v, a, n) ==
  [k \in 1 .. (n + DataSize - 1) \div DataSize |->
     LET first == a + (k - 1) * DataSize
         size  == IF k * DataSize <= n THEN DataSize ELSE n - (k - 1) * DataSize
     IN [cmd |-> command, addr |-> first,
         data |-> [i \in 1 .. size |-> Content(v, first + i - 1)]]]

Plain(command) == <<[cmd |-> command]>>

Script(v, cfg) ==
  LET parts  == Sections[v] \o (IF cfg THEN <<<<2 * Segment, DataBytes>>>> ELSE <<>>)
      program == [k \in DOMAIN parts |->
                    Packets("PROGRAM_DEVICE", v, parts[k][1], parts[k][2])
                      \o Plain("PROGRAM_COMPLETE")]
      verify  == [k \in DOMAIN parts |->
                    Packets("GET_DATA", v, parts[k][1], parts[k][2])]
  IN Plain("QUERY_DEVICE") \o Plain("QUERY_EXTENDED_INFO")
     \o <<[cmd |-> "UNLOCK_CONFIG", unlock |-> cfg]>>
     \o Plain("ERASE_DEVICE")
     \o FlattenSeq(program) \o FlattenSeq(verify)
     \o Plain("SIGN_FLASH") \o Plain("RESET_DEVICE")

DeviceAtRest ==
  /\ BootState = "IDLE" /\ out = NoPacket /\ in = NoPacket
  /\ ProgrammedPointer = InvalidAddress /\ BufferedDataIndex = 0

HostStart ==
  /\ mode = "boot" /\ script = <<>> /\ sessions < MaxSessions
  /\ \E v \in Versions, cfg \in ConfigAsked :
       /\ script' = Script(v, cfg)
       /\ want' = v
       /\ withConfig' = cfg
  /\ sessions' = sessions + 1
  /\ clean' = DeviceAtRest
  /\ reports' = <<>> /\ sent' = FALSE
  /\ outcome' = "none"
  /\ UNCHANGED <<mode, mem, device, usb, faults>>

Queries == {"QUERY_DEVICE", "QUERY_EXTENDED_INFO"}
Answered(p) == p.cmd \in Queries \cup {"GET_DATA"}

HostSend ==
  /\ mode = "boot" /\ script # <<>> /\ ~sent /\ out = NoPacket
  /\ out' = Head(script)
  /\ sent' = Answered(Head(script))
  /\ script' = IF Answered(Head(script)) THEN script ELSE Tail(script)
  /\ outcome' = IF Head(script).cmd = "SIGN_FLASH" THEN "verified" ELSE outcome
  /\ UNCHANGED <<mode, mem, device, in, reports, want, sessions, clean, withConfig,
                 faults>>

\* The PC's HID driver polls the IN endpoint and queues what it reads.
HostPoll ==
  /\ script # <<>> /\ in # NoPacket
  /\ reports' = Append(reports, in)
  /\ in' = NoPacket
  /\ UNCHANGED <<mode, mem, device, out, script, sent, want, outcome, sessions,
                 clean, withConfig, faults>>

\* An answer that is not the one expected ends the session.
HostReceive ==
  /\ sent /\ reports # <<>>
  /\ reports' = Tail(reports)
  /\ sent' = FALSE
  /\ IF Head(reports) = Head(script)
       THEN script' = Tail(script) /\ UNCHANGED outcome
       ELSE script' = <<>> /\ outcome' = "failed"
  /\ UNCHANGED <<mode, mem, device, usb, want, sessions, clean, withConfig, faults>>

\* The PC program is closed, and the host may configure the device again.  In the
\* code SET_CONFIGURATION calls HIDInitEP, which empties the endpoints, and then
\* UserInit; here the fields of UserInit keep their values, so that more sessions
\* start with the remains of another.  (PowerLoss with the button pressed leads to
\* the state with both done, and between sessions it costs no fault.)
HostAbort ==
  /\ script # <<>> /\ faults < MaxFaults
  /\ faults' = faults + 1
  /\ script' = <<>> /\ reports' = <<>> /\ sent' = FALSE
  /\ \/ UNCHANGED usb
     \/ out' = NoPacket /\ in' = NoPacket
  /\ UNCHANGED <<mode, mem, device, want, outcome, sessions, clean, withConfig>>

-----------------------------------------------------------------------------
(* Reset and power.                                                         *)

\* Mutant: any programmed reset vector is good enough to start.
SignatureValidVectorOnly == mem[AppStart] # Erased

\* DoSignatureCheck
SignatureValid == mem[SigAddress] = Signature /\ mem[AppStart] # Erased

\* The fields UserInit sets; the rest of the RAM is not read before written.
UserInit ==
  /\ BootState' = "IDLE"
  /\ ProgrammedPointer' = InvalidAddress
  /\ BufferedDataIndex' = 0
  /\ ConfigsLockValue' = TRUE

\* main: a pressed button skips the signature check.
PowerOn ==
  /\ mode = "off"
  /\ \E pressed \in BOOLEAN :
       mode' = IF ~pressed /\ SignatureValid THEN "app" ELSE "boot"
  /\ UserInit
  /\ loop' = 0
  /\ UNCHANGED <<mem, PacketFromPC, ProgrammingBuffer, usb, host, faults>>

Restart ==
  /\ mode' = "off"
  /\ out' = NoPacket /\ in' = NoPacket
  /\ script' = <<>> /\ reports' = <<>> /\ sent' = FALSE
  /\ UNCHANGED <<mem, device, want, outcome, sessions, clean, withConfig>>

\* Between sessions (after a failed or aborted one, say) it costs no fault.
PowerLoss ==
  /\ mode = "boot"
  /\ IF script = <<>> THEN UNCHANGED faults
                      ELSE faults < MaxFaults /\ faults' = faults + 1
  /\ Restart

AppReset == mode = "app" /\ Restart /\ UNCHANGED faults

-----------------------------------------------------------------------------
(* Flash memory: programming can only clear bits.                           *)

Programmed(old, new) ==
  IF new = Erased \/ new = old THEN old ELSE IF old = Erased THEN new ELSE Junk

Erase(cells) == [a \in Memory |-> IF a \in cells THEN Erased ELSE mem[a]]

\* Writes the latches, one cell each, to the block that starts at first.
WriteLatches(first, latch) ==
  mem' = [a \in Memory |->
            IF a \in first .. first + Block - 1
              THEN Programmed(mem[a], latch[a - first]) ELSE mem[a]]

\* Mutant: the bytes that did not fit are not moved to the front.
WriteFlashBlockUnjustified(pointer, buffer, count) ==
  LET base       == Low(pointer - count)
      correction == base % Block
      first      == base - correction
      taken      == IF count < Block - correction THEN count ELSE Block - correction
  IN /\ WriteLatches(first, [k \in 0 .. Block - 1 |->
          IF k \in correction .. correction + taken - 1
            THEN buffer[k - correction] ELSE Erased])
     /\ BufferedDataIndex' = count - taken
     /\ ProgrammingBuffer' = buffer

\* WriteFlashBlock: TBLPTRU is cleared, so only the low part of the address
\* counts; the block is filled with erased cells on both sides of the data.
WriteFlashBlock(pointer, buffer, count) ==
  LET base       == Low(pointer - count)
      correction == base % Block
      first      == base - correction
      taken      == IF count < Block - correction THEN count ELSE Block - correction
  IN /\ WriteLatches(first, [k \in 0 .. Block - 1 |->
          IF k \in correction .. correction + taken - 1
            THEN buffer[k - correction] ELSE Erased])
     /\ BufferedDataIndex' = count - taken
     /\ ProgrammingBuffer' = [i \in 0 .. Page - 1 |->
          IF i < count - taken THEN buffer[taken + i] ELSE buffer[i]]

-----------------------------------------------------------------------------
(* ProcessIO: one command at a time.                                        *)

Working(command) ==
  mode = "boot" /\ BootState = "NOT_IDLE" /\ PacketFromPC.cmd = command

Done == BootState' = "IDLE" /\ loop' = 0

Receive ==
  /\ mode = "boot" /\ BootState = "IDLE" /\ out # NoPacket
  /\ PacketFromPC' = out
  /\ out' = NoPacket
  /\ BootState' = "NOT_IDLE"
  /\ UNCHANGED <<mode, mem, buffering, ConfigsLockValue, loop, in, host, faults>>

QueryDevice ==
  /\ (\E query \in Queries : Working(query)) /\ in = NoPacket
  /\ in' = PacketFromPC
  /\ Done
  /\ UNCHANGED <<rest, mem, buffering, out>>

UnlockConfig ==
  /\ Working("UNLOCK_CONFIG")
  /\ ConfigsLockValue' = ~PacketFromPC.unlock
  /\ Done
  /\ UNCHANGED <<mode, mem, PacketFromPC, buffering, usb, host, faults>>

AppPages == (FlashEnd - AppStart) \div Page

\* Mutant: START_PAGE_TO_ERASE is one page too low.
EraseFlashPageLow ==
  /\ Working("ERASE_DEVICE") /\ loop < AppPages
  /\ mem' = Erase(PageAt(AppStart + (loop - 1) * Page))
  /\ loop' = loop + 1
  /\ UNCHANGED <<rest, BootState, buffering, usb>>

EraseFlashPage ==
  /\ Working("ERASE_DEVICE") /\ loop < AppPages
  /\ mem' = Erase(PageAt(AppStart + loop * Page))
  /\ loop' = loop + 1
  /\ UNCHANGED <<rest, BootState, buffering, usb>>

EraseEepromAndUserId ==
  /\ Working("ERASE_DEVICE") /\ loop = AppPages
  /\ mem' = Erase(Eeprom \cup UserId)
  /\ Done
  /\ UNCHANGED <<rest, buffering, usb>>

\* The bytes of the packet, put from address a on, replace what is there.
Overwrite(a) ==
  mem' = [c \in Memory |->
            IF c \in a .. a + Len(PacketFromPC.data) - 1
              THEN PacketFromPC.data[c - a + 1] ELSE mem[c]]

\* WriteConfigBits loads TBLPTRH twice, the second time with the low byte of
\* the address, and TBLPTRL not at all: it keeps what the last table read or
\* write (the USB stack's reads of its descriptors included) left there.
ProgramConfigBits ==
  /\ Working("PROGRAM_DEVICE") /\ Bank(PacketFromPC.addr) = 2
  /\ IF ConfigsLockValue
       THEN UNCHANGED mem
       ELSE \E stale \in 0 .. LowByte - 1 :
              Overwrite(2 * Segment + (PacketFromPC.addr % LowByte) * LowByte + stale)
  /\ Done
  /\ UNCHANGED <<rest, buffering, usb>>

ProgramEeprom ==
  /\ Working("PROGRAM_DEVICE") /\ Bank(PacketFromPC.addr) = 3
  /\ Overwrite(PacketFromPC.addr)
  /\ Done
  /\ UNCHANGED <<rest, buffering, usb>>

ToFlash ==
  Working("PROGRAM_DEVICE") /\ Bank(PacketFromPC.addr) \notin {2, 3}

\* The packet must continue the section, or begin one.
ProgramContiguous ==
  /\ ToFlash /\ loop = 0
  /\ ProgrammedPointer \in {InvalidAddress, PacketFromPC.addr}
  /\ ProgrammedPointer' = PacketFromPC.addr
  /\ loop' = 1
  /\ UNCHANGED <<rest, mem, BootState, BufferedDataIndex,
                 ProgrammingBuffer, usb>>

\* Mutant: an early break leaves the command unfinished.
ProgramIgnoredUnfinished ==
  /\ ToFlash /\ loop = 0
  /\ ProgrammedPointer \notin {InvalidAddress, PacketFromPC.addr}
  /\ UNCHANGED vars

ProgramIgnored ==
  /\ ToFlash /\ loop = 0
  /\ ProgrammedPointer \notin {InvalidAddress, PacketFromPC.addr}
  /\ Done
  /\ UNCHANGED <<rest, mem, buffering, usb>>

Buffered == [ProgrammingBuffer EXCEPT ![BufferedDataIndex] = PacketFromPC.data[loop]]

NextByte ==
  IF loop = Len(PacketFromPC.data)
    THEN Done ELSE loop' = loop + 1 /\ UNCHANGED BootState

ProgramByte ==
  /\ ToFlash /\ loop > 0
  /\ ProgrammedPointer' = ProgrammedPointer + 1
  /\ IF BufferedDataIndex + 1 = Block
       THEN WriteFlashBlock(ProgrammedPointer + 1, Buffered, BufferedDataIndex + 1)
       ELSE /\ ProgrammingBuffer' = Buffered
            /\ BufferedDataIndex' = BufferedDataIndex + 1
            /\ UNCHANGED mem
  /\ NextByte
  /\ UNCHANGED <<rest, usb>>

ProgramComplete ==
  /\ Working("PROGRAM_COMPLETE")
  /\ WriteFlashBlock(ProgrammedPointer, ProgrammingBuffer, BufferedDataIndex)
  /\ ProgrammedPointer' = InvalidAddress
  /\ Done
  /\ UNCHANGED <<rest, usb>>

GetData ==
  /\ Working("GET_DATA") /\ in = NoPacket
  /\ in' = [PacketFromPC EXCEPT !.data =
              [i \in DOMAIN @ |-> mem[PacketFromPC.addr + i - 1]]]
  /\ Done
  /\ UNCHANGED <<rest, mem, buffering, out>>

SigPage == SigAddress - (SigAddress % Page)

\* SignFlash copies the page to the buffer, adds the signature and erases it...
SignBegin ==
  /\ Working("SIGN_FLASH") /\ loop = 0
  /\ ProgrammingBuffer' = [i \in 0 .. Page - 1 |->
       IF SigPage + i = SigAddress THEN Signature ELSE mem[SigPage + i]]
  /\ mem' = Erase(PageAt(SigPage))
  /\ loop' = 1
  /\ UNCHANGED <<rest, BootState, ProgrammedPointer, BufferedDataIndex, usb>>

Blocks == Page \div Block

\* Mutant: the block of the signature is the first to be programmed.
SignBlockUpwards ==
  /\ Working("SIGN_FLASH") /\ loop \in 1 .. Blocks
  /\ LET offset == (loop - 1) * Block
     IN WriteLatches(SigPage + offset,
                     [k \in 0 .. Block - 1 |-> ProgrammingBuffer[offset + k]])
  /\ IF loop = Blocks THEN Done ELSE loop' = loop + 1 /\ UNCHANGED BootState
  /\ UNCHANGED <<rest, buffering, usb>>

\* ... then programs it from the highest block down.
SignBlock ==
  /\ Working("SIGN_FLASH") /\ loop \in 1 .. Blocks
  /\ LET offset == (Blocks - loop) * Block
     IN WriteLatches(SigPage + offset,
                     [k \in 0 .. Block - 1 |-> ProgrammingBuffer[offset + k]])
  /\ IF loop = Blocks THEN Done ELSE loop' = loop + 1 /\ UNCHANGED BootState
  /\ UNCHANGED <<rest, buffering, usb>>

ResetDeviceCleanly == Working("RESET_DEVICE") /\ Restart /\ UNCHANGED faults

ProcessIO ==
  \/ Receive \/ QueryDevice \/ UnlockConfig
  \/ EraseFlashPage \/ EraseEepromAndUserId
  \/ ProgramConfigBits \/ ProgramEeprom
  \/ ProgramContiguous \/ ProgramIgnored \/ ProgramByte \/ ProgramComplete
  \/ GetData \/ SignBegin \/ SignBlock \/ ResetDeviceCleanly

-----------------------------------------------------------------------------
\* A factory-fresh device: the bootloader and nothing else.
Init ==
  /\ mode = "off"
  /\ mem = [a \in Memory |-> IF a \in BootRegion THEN Loader ELSE Erased]
  /\ BootState = "IDLE" /\ PacketFromPC = NoPacket
  /\ ProgrammedPointer = InvalidAddress /\ BufferedDataIndex = 0
  /\ ProgrammingBuffer = [i \in 0 .. Page - 1 |-> Erased]
  /\ ConfigsLockValue = TRUE /\ loop = 0
  /\ out = NoPacket /\ in = NoPacket
  /\ script = <<>> /\ reports = <<>> /\ sent = FALSE /\ want = 0 /\ outcome = "none"
  /\ sessions = 0 /\ faults = 0
  /\ clean = TRUE /\ withConfig = FALSE

Host == HostStart \/ HostSend \/ HostPoll \/ HostReceive \/ HostAbort

Next == Host \/ PowerOn \/ PowerLoss \/ AppReset \/ ProcessIO

Spec == Init /\ [][Next]_vars

(* BootMain calls ProcessIO for ever, the PC program sends its next packet  *)
(* and reads the reports; starting a session is the user's choice.          *)
FairSpec ==
  /\ Spec
  /\ WF_vars(ProcessIO)
  /\ WF_vars(HostSend) /\ WF_vars(HostPoll) /\ WF_vars(HostReceive)

-----------------------------------------------------------------------------
(* Properties.                                                              *)

Cell == ({0} \X (0 .. 3)) \cup (Versions \X Memory)

\* Every variable holds what its declaration says; the buffer never holds a
\* whole block between two bytes (BufferedDataIndex < WRITE_BLOCK_SIZE).
TypeOK ==
  /\ mode \in {"off", "boot", "app"}
  /\ mem \in [Memory -> Cell]
  /\ BootState \in {"IDLE", "NOT_IDLE"}
  /\ ProgrammedPointer \in 0 .. InvalidAddress
  /\ BufferedDataIndex \in 0 .. Block - 1
  /\ ProgrammingBuffer \in [0 .. Page - 1 -> Cell]
  /\ {ConfigsLockValue, sent, clean, withConfig} \subseteq BOOLEAN
  /\ loop \in Nat
  /\ want \in Versions \cup {0}
  /\ outcome \in {"none", "verified", "failed"}
  /\ sessions \in 0 .. MaxSessions /\ faults \in 0 .. MaxFaults

Complete(v) == \A a \in ImageCells(v) : mem[a] = <<v, a>>

\* The signature means that "the flash memory image of the application is
\* intact" (SignFlash): while it is in the flash every byte of the image that
\* the PC verified is there too, wherever the power failed and whatever an
\* earlier aborted session left in the device.
SignedIsComplete ==
  mem[SigAddress] = Signature => \E v \in Versions : Complete(v)

\* The bootloader never damages itself.
BootloaderIntact == \A a \in BootRegion : mem[a] = Loader

\* A session that programs flash and EEPROM and finds the device at rest
\* reads back what it wrote: the buffering of packets into aligned blocks
\* loses, shifts and overwrites nothing.
FlashSessionVerifies == clean /\ ~withConfig => outcome # "failed"

\* The same, configuration bits included.
CleanSessionVerifies == clean => outcome # "failed"

\* The PC program never waits for ever for the device.
SessionEnds == script # <<>> ~> script = <<>>

None == 0

Held == IF \E v \in Versions : Complete(v)
          THEN CHOOSE v \in Versions : Complete(v) ELSE -1

Update == INSTANCE FirmwareUpdate WITH
  installed <- IF mem[SigAddress] = Signature THEN Held ELSE None,
  running   <- IF mode = "app" THEN Held ELSE None

\* With aborted sessions and power failures at any step, the flash goes from
\* one whole version to another only through "no version", and only a whole
\* version is ever started.
UpdateIsAtomic == Update!UpdateSpec
=============================================================================
