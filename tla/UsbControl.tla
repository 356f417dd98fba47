----------------------------- MODULE UsbControl -----------------------------
(***************************************************************************)
(* Endpoint 0 of the application: framework/usb_device.c, run from the     *)
(* interrupt, with the class requests of usb_device_cdc.c, against the     *)
(* host and the SIE of UsbBus.                                             *)
(*                                                                         *)
(* The SIE runs while the firmware does.  The sections of USBDeviceTasks   *)
(* are actions of their own, and whenever the firmware gives a descriptor  *)
(* to the SIE (STAT.Val = ...; STAT.Val |= _USIE) that is a step of its    *)
(* own too: a handler computes its descriptors and puts them in handover,  *)
(* HandOver writes them in that order, and the SIE may answer tokens       *)
(* between two of them.                                                    *)
(***************************************************************************)
EXTENDS UsbBus

CONSTANTS
  DescLength,      \* <<type, index>> -> length of each descriptor there is
  StatusTimeout    \* USB_STATUS_STAGE_TIMEOUT, in SOF ticks

\* The two buffers of endpoint 0.  No host assigns address 0 (it takes an
\* address away with a reset), an address has 7 bits, a configuration 8, and a
\* line coding, of the length LINE_CODING_LENGTH, is one packet.
ASSUME ControlAssumption ==
  /\ Buffers = {"SetupPkt", "CtrlTrfData"}
  /\ StatusTimeout \in Nat
  /\ \A d \in DOMAIN DescLength : DescLength[d] \in Nat
  /\ \A r \in Requests :
       /\ r \in [name : STRING, of : STRING, arg : Nat, len : Nat]
       /\ r.name = "SET_ADDRESS" => r.arg \in 1 .. 127 /\ r.len = 0
       /\ r.name = "SET_CONFIGURATION" => r.arg \in 0 .. 255
       /\ r.name = "SET_LINE_CODING" => r.len \in 1 .. Ep0Size

VARIABLES
  fw,         \* the globals of usb_device.c that endpoint 0 works with
  app,        \* what requests change: configuration, interface, line coding
  pc,         \* the section of USBDeviceTasks, "main" outside of it
  loop,       \* i of the transaction loop
  handover    \* descriptors still to be given to the SIE, in order

fwVars == <<fw, app, pc, loop, handover>>
vars == <<busVars, fwVars>>

Below(state) == state \in {"DETACHED_STATE", "ATTACHED_STATE", "POWERED_STATE"}

-----------------------------------------------------------------------------
(* Start-up and bus reset. *)

\* What USBDeviceInit does to the globals.  The pointers to the current and
\* next OUT descriptors and the state of the transfer keep their values.
InitGlobals(f) ==
  [f EXCEPT !.USBDeviceState = "DETACHED_STATE", !.pBDTEntryIn = 0,
            !.flag1 = TRUE, !.flag2 = TRUE, !.ACTVIE = FALSE]

InitBdOut == [b \in OutBDs |-> IF b = 0 THEN BD(TRUE, TRUE, FALSE, 0, "SetupPkt", 8)
                                        ELSE ClearBD]
InitBdIn == [b \in InBDs |-> ClearBD]

\* The registers after it: the whole USTAT FIFO flushed, PKTDIS clear, all
\* flags clear (the reset flag is set again by nobody), address 0.
InitSie(s) == [s EXCEPT !.out = 0, !.in = 0, !.pktdis = FALSE, !.addr = 0,
                        !.ustat = <<>>, !.epstall = FALSE, !.stallif = FALSE,
                        !.urstif = FALSE, !.idleif = FALSE, !.actvif = FALSE]

Globals == [USBDeviceState |-> "DETACHED_STATE", pBDTEntryIn |-> 0,
            Current |-> 0, Next |-> 0, shortPacketStatus |-> "NOT_USED",
            controlTransferState |-> "WAIT_SETUP", flag1 |-> TRUE, flag2 |-> TRUE,
            BothEP0OutUOWNsSet |-> FALSE, timeout |-> 0, ACTVIE |-> FALSE,
            inBusy |-> FALSE, pSrc |-> Nothing, off |-> 0, inCount |-> 0,
            outBusy |-> FALSE, outCount |-> 0]

DefaultLine == [src |-> "SET_LINE_CODING", val |-> 0]
AppInit == [cfg |-> 0, alt |-> 0, RemoteWakeup |-> FALSE,
            line |-> DefaultLine, cdc_notice |-> DefaultLine]

Init ==
  /\ BusInit
  /\ fw = Globals /\ app = AppInit
  /\ pc = "attach" /\ loop = 0 /\ handover = <<>>

\* main.c: USBDeviceInit, then USBDeviceAttach, which ends with the pull-up on.
USBDeviceAttach ==
  /\ pc = "attach"
  /\ bdOut' = InitBdOut /\ bdIn' = InitBdIn
  /\ sie' = [InitSie(sie) EXCEPT !.on = TRUE, !.suspnd = FALSE]
  /\ fw' = [InitGlobals(fw) EXCEPT !.USBDeviceState = "ATTACHED_STATE"]
  /\ pc' = "main"
  /\ UNCHANGED <<ram, host, faults, app, loop, handover>>

-----------------------------------------------------------------------------
(* The pieces of a control transfer.  Each returns new globals; descriptors *)
(* go to the SIE through handover.                                          *)

Give(dir, b, bd) == <<[dir |-> dir, b |-> b, bd |-> bd]>>

\* _BSTALL, _DAT0|_DTSEN|_BSTALL and _USIE alone: the three ways to wait for
\* a SETUP packet.
StallBD == BD(TRUE, TRUE, FALSE, 0, "SetupPkt", 8)
SetupBD == BD(TRUE, TRUE, TRUE, 0, "SetupPkt", 8)
OpenBD == BD(TRUE, FALSE, FALSE, 0, "SetupPkt", 8)
DataBD(dts, cnt) == BD(TRUE, FALSE, TRUE, dts, "CtrlTrfData", cnt)

\* Mutant: only the descriptor of the status packet is armed.
AllowStatusStageOne(f) ==
  IF f.flag1 \/ f.flag2
  THEN [f |-> [f EXCEPT !.flag1 = TRUE], give |-> <<>>]
  ELSE [f |-> [f EXCEPT !.flag1 = TRUE, !.flag2 = TRUE,
                        !.BothEP0OutUOWNsSet = @ \/ f.controlTransferState = "CTRL_TRF_TX"],
        give |-> IF f.controlTransferState = "CTRL_TRF_RX"
                 THEN Give("in", f.pBDTEntryIn, DataBD(1, 0))
                 ELSE Give("out", f.Next, OpenBD)]

\* USBCtrlEPAllowStatusStage: once per transfer, guarded by two flags.
AllowStatusStage(f) ==
  IF f.flag1 \/ f.flag2
  THEN [f |-> [f EXCEPT !.flag1 = TRUE], give |-> <<>>]
  ELSE [f |-> [f EXCEPT !.flag1 = TRUE, !.flag2 = TRUE,
                        !.BothEP0OutUOWNsSet = @ \/ f.controlTransferState = "CTRL_TRF_TX"],
        give |-> CASE f.controlTransferState = "CTRL_TRF_RX" ->
                        Give("in", f.pBDTEntryIn, DataBD(1, 0))
                   [] f.controlTransferState = "CTRL_TRF_TX" ->
                        Give("out", f.Current, StallBD) \o Give("out", f.Next, OpenBD)
                   [] OTHER -> <<>>]

\* USBCtrlTrfTxService: the next packet goes to CtrlTrfData; a packet that
\* is not full counts towards the end of the data stage.
TxService(f) ==
  LET n == MinOf(Ep0Size, f.inCount) IN
  [f |-> [f EXCEPT !.shortPacketStatus =
                     IF f.inCount >= Ep0Size THEN @
                     ELSE IF @ = "NOT_USED" THEN "PENDING" ELSE "SENT",
                   !.inCount = @ - n, !.off = @ + n],
   packet |-> Packet(f.pSrc, f.off, n)]

\* USBCtrlTrfSetupHandler, first part: whatever was going on is abandoned.
Abandon(f) ==
  [f EXCEPT !.shortPacketStatus = "NOT_USED", !.BothEP0OutUOWNsSet = FALSE,
            !.controlTransferState = "WAIT_SETUP",
            !.inBusy = FALSE, !.inCount = 0, !.pSrc = Nothing, !.off = 0,
            !.outBusy = FALSE, !.outCount = 0]

\* A handler claims the transfer: n units of source, or data for the device.
Send(f, source, n) == [f EXCEPT !.inBusy = TRUE, !.pSrc = source, !.inCount = n]
Accept(f) == [f EXCEPT !.inBusy = TRUE]

\* The answer to a control read.
Source(r, a) ==
  CASE r.name = "GET_DESCRIPTOR" -> [src |-> r.of, val |-> r.arg]
    [] r.name = "GET_CONFIGURATION" -> [src |-> "USBActiveConfiguration", val |-> a.cfg]
    [] r.name = "GET_INTERFACE" -> [src |-> "USBAlternateInterface", val |-> a.alt]
    [] r.name = "GET_STATUS" ->
         [src |-> "status", val |-> IF r.of = "DEVICE" /\ a.RemoteWakeup THEN 2 ELSE 0]
    [] r.name = "GET_LINE_CODING" -> a.line
    [] OTHER -> Nothing

SourceLength(r) ==
  CASE r.name = "GET_DESCRIPTOR" -> DescLength[<<r.of, r.arg>>]
    [] r.name = "GET_ENCAPSULATED_RESPONSE" -> 0
    [] OTHER -> 1

\* USBCheckStdRequest with its handlers, and USBCheckCDCRequest.  A request
\* nobody claims is stalled by USBCtrlEPServiceComplete.  (SET_CONFIGURATION
\* has an action of its own.)  SET_FEATURE and CLEAR_FEATURE stand for those of the
\* remote wake-up, and GET_STATUS for that of the device or an interface; the code
\* also claims those of an endpoint (its halt is in UsbPipe), and stalls every
\* other one like a descriptor that does not exist.
Claimed(r) == r.name = "GET_DESCRIPTOR" => <<r.of, r.arg>> \in DOMAIN DescLength

CheckRequest(f, r) ==
  CASE r.name \in {"SET_ADDRESS", "SET_INTERFACE", "SET_FEATURE", "CLEAR_FEATURE",
                   "SET_CONTROL_LINE_STATE"} -> Accept(f)
    [] r.name = "SEND_ENCAPSULATED_COMMAND" -> Send(f, Nothing, 8)
    [] r.name = "SET_LINE_CODING" -> [f EXCEPT !.outBusy = TRUE, !.outCount = r.len]
    [] IsRead(r) /\ Claimed(r) -> Send(f, Source(r, app), SourceLength(r))
    [] OTHER -> f

CheckState(f, r) ==
  IF r.name = "SET_ADDRESS" THEN [f EXCEPT !.USBDeviceState = "ADR_PENDING_STATE"] ELSE f

CheckApp(a, r) ==
  CASE r.name = "SET_INTERFACE" -> [a EXCEPT !.alt = r.arg]
    [] r.name = "SET_FEATURE" -> [a EXCEPT !.RemoteWakeup = TRUE]
    [] r.name = "CLEAR_FEATURE" -> [a EXCEPT !.RemoteWakeup = FALSE]
    [] OTHER -> a

-----------------------------------------------------------------------------
(* USBDeviceTasks, section by section. *)

\* What calls the interrupt handler.  SOF ticks, one each millisecond, are
\* only followed while a status stage is withheld: once it is not, the
\* counter is of no consequence until the next transaction sets it again.
SofMatters == ~fw.flag1
Ticking == ~host.asleep /\ ~host.se0 /\ ~sie.suspnd
Interrupt == \/ sie.urstif \/ sie.idleif \/ sie.stallif \/ sie.ustat # <<>>
             \/ sie.actvif /\ fw.ACTVIE
             \/ SofMatters /\ Ticking

\* ATTACHED_STATE until the bus is not in SE0, then the wake-up, then the way
\* out while the module is suspended.
TasksEnter ==
  /\ pc = "main" /\ handover = <<>> /\ Interrupt
  /\ LET powered == fw.USBDeviceState = "ATTACHED_STATE" /\ ~host.se0
         f == IF powered THEN [fw EXCEPT !.USBDeviceState = "POWERED_STATE"] ELSE fw
         s == IF powered
              THEN [sie EXCEPT !.urstif = FALSE, !.idleif = FALSE, !.actvif = FALSE,
                               !.stallif = FALSE,
                               !.ustat = IF @ = <<>> THEN @ ELSE Tail(@)]
              ELSE sie
         wake == s.actvif /\ f.ACTVIE
     IN /\ fw' = IF wake THEN [f EXCEPT !.ACTVIE = FALSE] ELSE f
        /\ sie' = IF wake THEN [s EXCEPT !.suspnd = FALSE, !.actvif = FALSE] ELSE s
        /\ pc' = IF s.suspnd /\ ~wake THEN "main" ELSE "bus"
  /\ UNCHANGED <<bdOut, bdIn, ram, host, faults, app, loop, handover>>

\* Mutant: the configuration survives a reset.
ResetKeepsConfiguration ==
  /\ bdOut' = InitBdOut /\ bdIn' = InitBdIn
  /\ sie' = InitSie(sie)
  /\ fw' = [InitGlobals(fw) EXCEPT !.USBDeviceState = "DEFAULT_STATE"]
  /\ UNCHANGED app

\* Bus reset and idle bus.  Re-initialising clears the idle flag too.
Reset ==
  /\ bdOut' = InitBdOut /\ bdIn' = InitBdIn
  /\ sie' = InitSie(sie)
  /\ fw' = [InitGlobals(fw) EXCEPT !.USBDeviceState = "DEFAULT_STATE"]
  /\ app' = [app EXCEPT !.cfg = 0]

\* Mutant: USBSuspend clears ACTVIF.
USBSuspendClears ==
  /\ fw' = [fw EXCEPT !.ACTVIE = TRUE]
  /\ sie' = [sie EXCEPT !.idleif = FALSE, !.suspnd = TRUE, !.actvif = FALSE]
  /\ UNCHANGED <<bdOut, bdIn, app>>

\* USBSuspend leaves ACTVIF alone.
USBSuspend ==
  /\ fw' = [fw EXCEPT !.ACTVIE = TRUE]
  /\ sie' = [sie EXCEPT !.idleif = FALSE, !.suspnd = TRUE]
  /\ UNCHANGED <<bdOut, bdIn, app>>

TasksBus ==
  /\ pc = "bus"
  /\ CASE sie.urstif -> Reset
       [] ~sie.urstif /\ sie.idleif -> USBSuspend
       [] OTHER -> UNCHANGED <<bdOut, bdIn, sie, fw, app>>
  /\ pc' = "sof"
  /\ UNCHANGED <<ram, host, faults, loop, handover>>

\* Mutant: without USB_ENABLE_STATUS_STAGE_TIMEOUTS.
SofTickOnly ==
  /\ fw' = [fw EXCEPT !.timeout = IF @ > 0 THEN @ - 1 ELSE 0]
  /\ UNCHANGED handover

SofTick ==
  LET t == IF fw.timeout > 0 THEN fw.timeout - 1 ELSE 0
      done == AllowStatusStage([fw EXCEPT !.timeout = t])
  IN IF t = 0 THEN fw' = done.f /\ handover' = done.give
              ELSE fw' = [fw EXCEPT !.timeout = t] /\ UNCHANGED handover

\* With a SOF flag to service, or without.
TasksSof ==
  /\ pc = "sof" /\ SofMatters /\ Ticking
  /\ SofTick
  /\ pc' = "stall"
  /\ UNCHANGED <<busVars, app, loop>>

TasksNoSof ==
  /\ pc = "sof"
  /\ pc' = "stall"
  /\ UNCHANGED <<busVars, fw, app, loop, handover>>

\* USBStallHandler: STAT compared as a whole byte, so with every other bit 0.
USBStallHandler ==
  LET out == bdOut[fw.Current]
      in == bdIn[fw.pBDTEntryIn]
      rearm == /\ sie.epstall
               /\ out.own /\ ~out.stall /\ ~out.dtsen /\ out.dts = 0 /\ out.pid = "none"
               /\ in.own /\ in.stall /\ ~in.dtsen /\ in.dts = 0 /\ in.pid = "none"
  IN /\ sie' = [sie EXCEPT !.epstall = FALSE, !.stallif = FALSE]
     /\ handover' = IF rearm THEN Give("out", fw.Current, SetupBD) ELSE <<>>

TasksStall ==
  /\ pc = "stall" /\ handover = <<>>
  /\ IF sie.stallif THEN USBStallHandler ELSE UNCHANGED <<sie, handover>>
  /\ pc' = IF Below(fw.USBDeviceState) THEN "main" ELSE "trn"
  /\ loop' = 0
  /\ UNCHANGED <<bdOut, bdIn, ram, host, faults, fw, app>>

-----------------------------------------------------------------------------
(* The transaction loop: USBCtrlEPService and its handlers. *)

Transaction(dir) == /\ pc = "trn" /\ handover = <<>> /\ loop < 4
                    /\ sie.ustat # <<>> /\ Head(sie.ustat).dir = dir
                    /\ loop' = loop + 1
Popped == [sie EXCEPT !.ustat = Tail(@)]

TasksLeave ==
  /\ pc = "trn" /\ handover = <<>> /\ (sie.ustat = <<>> \/ loop = 4)
  /\ pc' = "main" /\ loop' = 0
  /\ UNCHANGED <<busVars, fw, app, handover>>

\* The OUT descriptor of the transaction becomes Current, the other one Next.
Turn(f, b) == [f EXCEPT !.timeout = StatusTimeout, !.Current = b, !.Next = OtherOut(b)]

\* Mutant: taken to be in SetupPkt, wherever the descriptor pointed.
SetupPacketInPlace(b) == ram.SetupPkt

\* The SETUP packet, copied from where the SIE put it.
SetupPacket(b) == ram[bdOut[b].adr]

\* UOWN taken back.  Nothing reads what else is in a descriptor that the CPU
\* owns and has dealt with: it is shown as clear.
Disarmed(bds, which) == [b \in DOMAIN bds |-> IF b \in which THEN ClearBD ELSE bds[b]]

\* A SETUP packet, up to PKTDIS = 0.  Whatever endpoint 0 still had armed is
\* taken back first.
CtrlTrfSetup ==
  /\ Transaction("out")
  /\ LET b == Head(sie.ustat).bd
         r == SetupPacket(b).of
         f == Abandon(Turn(fw, b))
     IN /\ bdOut[b].pid = "SETUP" /\ r.name # "SET_CONFIGURATION"
        /\ ram' = [SetupPkt |-> SetupPacket(b), CtrlTrfData |-> Empty]
        /\ bdIn' = Disarmed(bdIn, InBDs)
        /\ bdOut' = Disarmed(bdOut, {f.Current, f.Next})
        /\ fw' = CheckState(CheckRequest(f, r), r)
        /\ app' = CheckApp(app, r)
  /\ sie' = [Popped EXCEPT !.pktdis = FALSE]
  /\ pc' = "arm"
  /\ UNCHANGED <<host, faults, handover>>

\* USBStdSetCfgHandler: the whole descriptor table is cleared and every
\* ping-pong pointer, the hardware's and the firmware's, set back to even.
StdSetCfg ==
  /\ Transaction("out")
  /\ LET b == Head(sie.ustat).bd
         r == SetupPacket(b).of
         f == Accept(Abandon(Turn(fw, b)))
     IN /\ bdOut[b].pid = "SETUP" /\ r.name = "SET_CONFIGURATION"
        /\ ram' = [SetupPkt |-> SetupPacket(b), CtrlTrfData |-> Empty]
        /\ fw' = [f EXCEPT !.pBDTEntryIn = 0, !.Current = 0, !.Next = 0,
                           !.USBDeviceState = IF r.arg = 0 THEN "ADDRESS_STATE"
                                                           ELSE "CONFIGURED_STATE"]
        /\ app' = [app EXCEPT !.cfg = r.arg, !.alt = 0,
                              !.line = IF r.arg = 0 THEN @ ELSE DefaultLine]
  /\ bdOut' = [b \in OutBDs |-> ClearBD]
  /\ bdIn' = [b \in InBDs |-> ClearBD]
  /\ sie' = [Popped EXCEPT !.out = 0, !.in = 0, !.pktdis = FALSE]
  /\ pc' = "arm"
  /\ UNCHANGED <<host, faults, handover>>

\* USBCtrlEPServiceComplete, after PKTDIS = 0: who claimed the transfer, and
\* which way its data goes, decide what is armed.
\* Mutant: the first data packet is expected with DATA0.
ArmWriteData0 ==
  /\ ~fw.inBusy /\ fw.outBusy
  /\ fw' = [fw EXCEPT !.controlTransferState = "CTRL_TRF_RX", !.flag1 = FALSE, !.flag2 = FALSE]
  /\ handover' = Give("out", fw.Next, DataBD(0, 8))
  /\ UNCHANGED ram

ArmWrite == LET f == [fw EXCEPT !.controlTransferState = "CTRL_TRF_RX",
                                !.flag1 = FALSE, !.flag2 = FALSE]
            IN /\ ~fw.inBusy /\ fw.outBusy
               /\ fw' = f
               /\ handover' = Give("out", fw.Next, DataBD(1, 8))
               /\ UNCHANGED ram

ArmStall == /\ ~fw.inBusy /\ ~fw.outBusy
            /\ handover' = Give("out", fw.Next, SetupBD) \o Give("in", fw.pBDTEntryIn, StallBD)
            /\ UNCHANGED <<fw, ram>>

ArmRead ==
  LET r == ram.SetupPkt.of
      tx == TxService([fw EXCEPT !.controlTransferState = "CTRL_TRF_TX",
                                 !.inCount = MinOf(@, r.len),
                                 !.flag1 = FALSE, !.flag2 = FALSE])
      status == AllowStatusStage(tx.f)
  IN /\ fw.inBusy /\ IsRead(r)
     /\ fw' = status.f
     /\ ram' = [ram EXCEPT !.CtrlTrfData = tx.packet]
     /\ handover' = Give("in", fw.pBDTEntryIn, DataBD(1, tx.packet.len)) \o status.give

ArmStatus ==
  LET status == AllowStatusStage([fw EXCEPT !.controlTransferState = "CTRL_TRF_RX",
                                            !.flag1 = FALSE, !.flag2 = FALSE])
  IN /\ fw.inBusy /\ ~IsRead(ram.SetupPkt.of)
     /\ fw' = status.f
     /\ handover' = Give("out", fw.Next, StallBD) \o status.give
     /\ UNCHANGED ram

CtrlEPServiceComplete ==
  /\ pc = "arm"
  /\ ArmWrite \/ ArmStall \/ ArmRead \/ ArmStatus
  /\ pc' = "trn"
  /\ UNCHANGED <<bdOut, bdIn, sie, host, faults, app, loop>>

\* USBCtrlTrfRxService: data of a control write.
CtrlTrfRx ==
  /\ Transaction("out")
  /\ LET b == Head(sie.ustat).bd
         t == Turn(fw, b)
         n == MinOf(bdOut[b].cnt, t.outCount)
         f == [t EXCEPT !.outCount = @ - n]
         notice == IF n = 0 THEN app.cdc_notice ELSE ram.CtrlTrfData.of
         status == AllowStatusStage([f EXCEPT !.outBusy = FALSE])
     IN /\ bdOut[b].pid = "OUT" /\ fw.controlTransferState = "CTRL_TRF_RX"
        /\ IF f.outCount > 0
           THEN /\ fw' = f
                /\ handover' = Give("out", f.Next, DataBD(1 - bdOut[b].dts, 8))
                /\ app' = [app EXCEPT !.cdc_notice = notice]
           ELSE /\ fw' = status.f
                /\ handover' = Give("out", f.Next, StallBD) \o status.give
                /\ app' = [app EXCEPT !.cdc_notice = notice,
                                      !.line = IF fw.outBusy THEN notice ELSE @]
        /\ bdOut' = Disarmed(bdOut, {b})
  /\ sie' = Popped
  /\ UNCHANGED <<bdIn, ram, host, faults, pc>>

\* The status packet of a control read.
CtrlTrfOut ==
  /\ Transaction("out")
  /\ LET b == Head(sie.ustat).bd
         f == Turn(fw, b)
     IN /\ bdOut[b].pid = "OUT" /\ fw.controlTransferState # "CTRL_TRF_RX"
        /\ fw' = [f EXCEPT !.controlTransferState = "WAIT_SETUP",
                           !.BothEP0OutUOWNsSet = FALSE]
        /\ handover' = IF fw.BothEP0OutUOWNsSet THEN <<>>
                                                ELSE Give("out", f.Next, SetupBD)
        /\ bdOut' = Disarmed(bdOut, {b})
  /\ sie' = Popped
  /\ UNCHANGED <<bdIn, ram, host, faults, app, pc>>

\* A pending address takes effect with the next IN transaction.
TakeAddress(f, a) ==
  IF f.USBDeviceState = "ADR_PENDING_STATE"
  THEN [f EXCEPT !.USBDeviceState = IF a = 0 THEN "DEFAULT_STATE" ELSE "ADDRESS_STATE"]
  ELSE f

\* Mutant: with any IN transaction, pending or not.
AddressAlways(f, a) == a

Address(f, a) == IF f.USBDeviceState = "ADR_PENDING_STATE" THEN a ELSE sie.addr

\* An IN packet has gone out: the next one of a control read, or the end of a
\* control write.
CtrlTrfIn ==
  /\ Transaction("in")
  /\ LET a == ram.SetupPkt.of.arg
         lastDTS == bdIn[fw.pBDTEntryIn].dts
         f == [TakeAddress(fw, a) EXCEPT !.pBDTEntryIn = NextIn(@), !.timeout = StatusTimeout]
         tx == TxService(f)
     IN /\ sie' = [Popped EXCEPT !.addr = Address(fw, a)]
        /\ IF fw.controlTransferState = "CTRL_TRF_TX"
           THEN /\ fw' = tx.f
                /\ ram' = [ram EXCEPT !.CtrlTrfData = IF tx.packet.len = 0 THEN @ ELSE tx.packet]
                /\ handover' = Give("in", f.pBDTEntryIn,
                                    IF tx.f.shortPacketStatus = "SENT" THEN StallBD
                                    ELSE DataBD(1 - lastDTS, tx.packet.len))
                /\ UNCHANGED app
           ELSE /\ fw' = [f EXCEPT !.controlTransferState = "WAIT_SETUP", !.outBusy = FALSE]
                /\ app' = [app EXCEPT !.line = IF fw.outBusy THEN app.cdc_notice ELSE @]
                /\ UNCHANGED <<ram, handover>>
  /\ bdIn' = Disarmed(bdIn, {fw.pBDTEntryIn})
  /\ UNCHANGED <<bdOut, host, faults, pc>>

\* STAT.Val |= _USIE on the first descriptor waiting.  In a descriptor of
\* EP0 IN that is to stall, CNT is left as it was; nobody reads it.
HandOver ==
  /\ handover # <<>>
  /\ LET w == Head(handover) IN
       IF w.dir = "out" THEN /\ bdOut' = [bdOut EXCEPT ![w.b] = w.bd] /\ UNCHANGED bdIn
                        ELSE /\ bdIn' = [bdIn EXCEPT ![w.b] = w.bd] /\ UNCHANGED bdOut
  /\ handover' = Tail(handover)
  /\ UNCHANGED <<sie, ram, host, faults, fw, app, pc, loop>>

-----------------------------------------------------------------------------
Firmware == \/ USBDeviceAttach \/ TasksEnter \/ TasksBus \/ TasksSof \/ TasksNoSof
            \/ TasksStall \/ CtrlTrfSetup \/ StdSetCfg \/ CtrlEPServiceComplete
            \/ CtrlTrfRx \/ CtrlTrfOut \/ CtrlTrfIn \/ TasksLeave \/ HandOver

\* The device cannot answer: it is new on the bus, it has another address
\* (the acknowledgement of the end of SET_ADDRESS was lost), or it took no
\* notice of the reset.  The host finds out by its timeouts, and resets the
\* bus.
Unanswered ==
  /\ ~host.asleep /\ ~host.se0
  /\ \/ Below(fw.USBDeviceState) /\ ~sie.urstif
     \/ sie.addr # host.addr /\ sie.ustat = <<>> /\ pc = "main" /\ ~sie.urstif

HostStep == \/ Token \/ GiveUp \/ BusReset(Unanswered) \/ EndReset
            \/ (pc = "main" /\ handover = <<>> /\ ~sie.stallif /\ Sleep) \/ Resume

Next == Firmware \/ (HostStep /\ UNCHANGED fwVars)

\* The interrupt is served, a SOF comes every millisecond, and a host that has
\* begun a transfer goes on with it.  Nothing obliges it to begin one, to give
\* up, or to resume.
Fairness ==
  /\ WF_vars(Firmware) /\ SF_vars(TasksSof)
  /\ WF_vars(host.stage # "idle" /\ Token /\ UNCHANGED fwVars)
  /\ WF_vars(EndReset /\ UNCHANGED fwVars)
  /\ WF_vars(Unanswered /\ BusReset(TRUE) /\ UNCHANGED fwVars)

Spec == Init /\ [][Next]_vars /\ Fairness

-----------------------------------------------------------------------------
(* Properties. *)

TypeOK ==
  /\ BusTypeOK
  /\ fw.USBDeviceState \in {"DETACHED_STATE", "ATTACHED_STATE", "POWERED_STATE",
                            "DEFAULT_STATE", "ADR_PENDING_STATE", "ADDRESS_STATE",
                            "CONFIGURED_STATE"}
  /\ fw.pBDTEntryIn \in InBDs /\ {fw.Current, fw.Next} \subseteq OutBDs
  /\ fw.shortPacketStatus \in {"NOT_USED", "PENDING", "SENT"}
  /\ fw.controlTransferState \in {"WAIT_SETUP", "CTRL_TRF_TX", "CTRL_TRF_RX"}
  /\ fw.timeout \in 0 .. StatusTimeout /\ {fw.inCount, fw.outCount, fw.off} \subseteq Nat
  /\ pc \in {"attach", "main", "bus", "sof", "stall", "trn", "arm"}
  /\ loop \in 0 .. 4
  /\ \A k \in DOMAIN handover :
       handover[k].dir \in {"out", "in"} /\ handover[k].bd \in BDType

Serviced == /\ pc = "main" /\ handover = <<>> /\ sie.ustat = <<>> /\ ~sie.urstif
            /\ ~Below(fw.USBDeviceState)

\* Whatever the host has done before, once the firmware has serviced
\* everything endpoint 0 can take a SETUP packet, and the firmware and the
\* SIE agree on which IN descriptor is next.
SetupAccepted ==
  Serviced => /\ ~sie.pktdis /\ bdOut[sie.out].own
              /\ fw.pBDTEntryIn = sie.in

\* A control read that ended well gave the host exactly what it asked for:
\* the source it named, from its start, without a hole or a repetition, as
\* long as the shorter of the source and the request.
ReadsAreExact ==
  host.result = "ok" /\ IsRead(host.req) =>
    /\ host.exact
    /\ host.got.len = MinOf(host.req.len, SourceLength(host.req))
    /\ host.got.len > 0 => host.got.of = Source(host.req, app)

\* A control write or command that ended well has had its effect, once the
\* firmware has serviced what the SIE has queued: after the status stage
\* timeout the host can be through with the status stage before it has.
WritesAreDone ==
  Serviced /\ host.result = "ok" =>
    LET r == host.req IN
      CASE r.name = "SET_CONFIGURATION" -> app.cfg = r.arg
        [] r.name = "SET_INTERFACE" -> app.alt = r.arg
        [] r.name = "SET_FEATURE" -> app.RemoteWakeup
        [] r.name = "CLEAR_FEATURE" -> ~app.RemoteWakeup
        [] r.name = "SET_LINE_CODING" -> app.line = Payload(r)
        [] OTHER -> TRUE

\* The device answers at no address but the one the host knows it by: the
\* address of a SET_ADDRESS never takes effect before its status stage.
AddressAgrees == sie.addr # 0 /\ ~sie.urstif => host.addr = sie.addr

\* The device's state, address and configuration obey chapter 9.
Ch9 == INSTANCE UsbChapter9 WITH
  Addresses <- 1 .. 127, Configurations <- 0 .. 255,
  state <- IF Below(fw.USBDeviceState) THEN "powered"
           ELSE IF sie.urstif \/ fw.USBDeviceState = "DEFAULT_STATE" THEN "default"
           ELSE IF fw.USBDeviceState = "CONFIGURED_STATE" THEN "configured"
           ELSE IF sie.addr = 0 THEN "default" ELSE "address",
  address <- IF sie.urstif THEN 0 ELSE sie.addr,
  configuration <- IF sie.urstif THEN 0 ELSE app.cfg
Chapter9 == Ch9!Spec

\* Every transfer the host begins comes to an end: no stage is answered with
\* NAK for ever, not even one the host cut short.
TransfersEnd == host.stage # "idle" ~> host.stage = "idle"

\* A module suspended on a bus that is no longer idle has its wake-up before
\* it: the one ACTVIF there will be is still set, and enabled.  It holds even
\* when the two came so close together that one interrupt saw both.
WakesUp == sie.suspnd /\ ~host.asleep => sie.actvif /\ fw.ACTVIE
=============================================================================
