------------------------------ MODULE BootUsb ------------------------------
(***************************************************************************)
(* Endpoint 0 of the boot loader: HidBootLoader/src/usb_device.c, polled   *)
(* from its main loop, with the HID requests of usb_device_hid.c, against  *)
(* the host and the SIE of UsbBus.  It is an older stack than that of the  *)
(* application: one IN descriptor, no interrupt, no status stage timeout,  *)
(* no data stage from the host, and a flag instead of pointers to tell     *)
(* which OUT descriptor is next.                                           *)
(*                                                                         *)
(* As in UsbControl every section of USBDeviceTasks is an action, and each *)
(* descriptor given to the SIE (Stat._byte |= _USIE, LoadBDTandSetUOWN) is *)
(* a step of its own, taken from handover in the order of the code.  A     *)
(* poll that finds nothing to do changes nothing and is no step.           *)
(***************************************************************************)
EXTENDS UsbBus

CONSTANT
  DescLength       \* descriptor -> length of each descriptor there is

VARIABLES
  fw,         \* the globals of usb_device.c that endpoint 0 works with
  app,        \* what requests change: configuration, interface, HID settings
  pc,         \* the section of USBDeviceTasks, "main" outside of it
  loop,       \* bTRNIFCount
  handover    \* descriptors still to be given to the SIE, in order

fwVars == <<fw, app, pc, loop, handover>>
vars == <<busVars, fwVars>>

EVEN == 0
ODD == 1

-----------------------------------------------------------------------------
(* Start-up, bus reset, suspend. *)

Globals == [usb_device_state |-> "DETACHED_STATE", ctrl_trf_state |-> "WAIT_SETUP",
            claimed |-> FALSE, short_pkt_status |-> "NOT_SENT",
            wCount |-> 0, pSrc |-> Nothing, off |-> 0, SetupPkt |-> NoRequest,
            EP0OutOddNeedsArmingNext |-> FALSE]
AppInit == [cfg |-> 0, alt |-> 0, RemoteWakeup |-> FALSE, idle |-> 0, protocol |-> 0]

Init ==
  /\ BusInit
  /\ fw = Globals /\ app = AppInit
  /\ pc = "init" /\ loop = 0 /\ handover = <<>>

\* LoadBDTandSetUOWN: each OUT descriptor has a buffer of its own.
OutBuffer(b) == IF b = EVEN THEN "EP0OutEvenBuf" ELSE "EP0OutOddBuf"
StallBD(b) == BD(TRUE, TRUE, FALSE, 0, OutBuffer(b), 8)
StatusBD(b) == BD(TRUE, FALSE, TRUE, 1, OutBuffer(b), 8)
InBD(dts, n) == BD(TRUE, FALSE, TRUE, dts, "CtrlTrfData", n)
InStall == BD(TRUE, TRUE, FALSE, 0, "CtrlTrfData", 0)

Give(dir, b, bd) == <<[dir |-> dir, b |-> b, bd |-> bd]>>

\* USBProtocolResetHandler.  It arms the even descriptor and leaves the odd
\* one and EP0 IN as they are; the SIE starts from even again.
ProtocolReset(state) ==
  /\ sie' = [SieInit EXCEPT !.on = TRUE, !.suspnd = sie.suspnd]
  /\ bdOut' = [bdOut EXCEPT ![EVEN] = StallBD(EVEN)]
  /\ fw' = [fw EXCEPT !.usb_device_state = state, !.EP0OutOddNeedsArmingNext = TRUE]
  /\ app' = [app EXCEPT !.cfg = 0, !.RemoteWakeup = FALSE]
  /\ UNCHANGED bdIn

\* USBDeviceInit, and USBSoftAttach through USBCheckBusStatus: the module is
\* switched on once, and stays on.
USBDeviceInit ==
  /\ pc = "init"
  /\ ProtocolReset("ATTACHED_STATE")
  /\ pc' = "main"
  /\ UNCHANGED <<ram, host, faults, loop, handover>>

\* What a poll of USBDeviceTasks would find.
Pending == sie.urstif \/ sie.idleif \/ sie.actvif \/ sie.ustat # <<>>

\* USBWakeFromSuspend, whenever ACTVIF is set, and the way out while the
\* module is suspended.
TasksEnter ==
  /\ pc = "main" /\ handover = <<>> /\ Pending
  /\ sie' = IF sie.actvif THEN [sie EXCEPT !.suspnd = FALSE, !.actvif = FALSE] ELSE sie
  /\ pc' = IF sie.suspnd /\ ~sie.actvif THEN "main" ELSE "bus"
  /\ UNCHANGED <<bdOut, bdIn, ram, host, faults, fw, app, loop, handover>>

TasksReset ==
  /\ pc = "bus" /\ sie.urstif
  /\ ProtocolReset("DEFAULT_STATE")
  /\ pc' = "trn"
  /\ UNCHANGED <<ram, host, faults, loop, handover>>

\* USBSuspend leaves ACTVIF alone and sleeps in USBCBSuspend.
USBSuspend ==
  /\ pc = "bus" /\ ~sie.urstif /\ sie.idleif
  /\ sie' = [sie EXCEPT !.idleif = FALSE, !.suspnd = TRUE]
  /\ pc' = "sleep"
  /\ UNCHANGED <<bdOut, bdIn, ram, host, faults, fw, app, loop, handover>>

\* if(usb_device_state < DEFAULT_STATE) return;
After(section) ==
  pc' = IF fw.usb_device_state \in {"DETACHED_STATE", "ATTACHED_STATE"} THEN "main" ELSE section

\* Only ACTVIF is enabled to wake the processor.
USBCBSuspend ==
  /\ pc = "sleep" /\ sie.actvif
  /\ After("trn")
  /\ UNCHANGED <<busVars, fw, app, loop, handover>>

TasksNothing ==
  /\ pc = "bus" /\ ~sie.urstif /\ ~sie.idleif
  /\ After("trn")
  /\ UNCHANGED <<busVars, fw, app, loop, handover>>

-----------------------------------------------------------------------------
(* The requests. *)

\* The answer to a control read, and its length.
Source(r, a) ==
  CASE r.name = "GET_DESCRIPTOR" -> [src |-> r.of, val |-> r.arg]
    [] r.name = "GET_CONFIGURATION" -> [src |-> "usb_active_cfg", val |-> a.cfg]
    [] r.name = "GET_INTERFACE" -> [src |-> "usb_alt_intf", val |-> a.alt]
    [] r.name = "GET_STATUS" ->
         [src |-> "status", val |-> IF r.of = "DEVICE" /\ a.RemoteWakeup THEN 2 ELSE 0]
    [] r.name = "GET_IDLE" -> [src |-> "idle_rate", val |-> a.idle]
    [] r.name = "GET_PROTOCOL" -> [src |-> "active_protocol", val |-> a.protocol]
    [] OTHER -> Nothing

SourceLength(r) ==
  CASE r.name = "GET_DESCRIPTOR" -> DescLength[r.of]
    [] r.name = "GET_STATUS" -> 2
    [] OTHER -> 1

\* USBCheckStdRequest and USBCheckHIDRequest: who claims request r, and what
\* it changes.  GET_REPORT and SET_REPORT have empty handlers.
Commands == {"SET_ADDRESS", "SET_CONFIGURATION", "SET_INTERFACE", "SET_FEATURE",
             "CLEAR_FEATURE", "SET_IDLE", "SET_PROTOCOL"}
Claimed(r) == \/ r.name \in Commands
              \/ r.name = "GET_DESCRIPTOR" /\ r.of \in DOMAIN DescLength
              \/ r.name \in {"GET_CONFIGURATION", "GET_INTERFACE", "GET_STATUS",
                             "GET_IDLE", "GET_PROTOCOL"}

CheckRequest(f, r) ==
  [f EXCEPT !.claimed = Claimed(r),
            !.pSrc = IF IsRead(r) /\ Claimed(r) THEN Source(r, app) ELSE Nothing,
            !.off = 0,
            !.wCount = IF IsRead(r) /\ Claimed(r) THEN SourceLength(r) ELSE 0,
            !.usb_device_state =
               CASE r.name = "SET_ADDRESS" -> "ADR_PENDING_STATE"
                 [] r.name = "SET_CONFIGURATION" ->
                      IF r.arg = 0 THEN "ADDRESS_STATE" ELSE "CONFIGURED_STATE"
                 [] OTHER -> @]

CheckApp(a, r) ==
  CASE r.name = "SET_CONFIGURATION" -> [a EXCEPT !.cfg = r.arg, !.alt = 0]
    [] r.name = "SET_INTERFACE" -> [a EXCEPT !.alt = r.arg]
    [] r.name = "SET_FEATURE" -> [a EXCEPT !.RemoteWakeup = TRUE]
    [] r.name = "CLEAR_FEATURE" -> [a EXCEPT !.RemoteWakeup = FALSE]
    [] r.name = "SET_IDLE" -> [a EXCEPT !.idle = r.arg]
    [] r.name = "SET_PROTOCOL" -> [a EXCEPT !.protocol = r.arg]
    [] OTHER -> a

-----------------------------------------------------------------------------
(* The transaction loop. *)

Transaction(dir) == /\ pc = "trn" /\ handover = <<>> /\ loop < 4
                    /\ sie.ustat # <<>> /\ Head(sie.ustat).dir = dir
                    /\ loop' = loop + 1
Popped == [sie EXCEPT !.ustat = Tail(@)]

TasksLeave ==
  /\ pc = "trn" /\ handover = <<>> /\ (sie.ustat = <<>> \/ loop = 4)
  /\ pc' = "main" /\ loop' = 0
  /\ UNCHANGED <<busVars, fw, app, handover>>

\* UOWN taken back; nothing reads what else is in such a descriptor.
Disarmed(bds) == [b \in DOMAIN bds |-> IF bds[b].own THEN ClearBD ELSE bds[b]]

\* Mutant: the flag is believed, whatever the host has left armed.
OddNextKept(f) == f.EP0OutOddNeedsArmingNext

\* Which OUT descriptor is next, judged by what was still armed.
OddNext(f) == IF bdOut[ODD].own THEN TRUE
              ELSE IF bdOut[EVEN].own THEN FALSE
              ELSE f.EP0OutOddNeedsArmingNext

\* A SETUP packet: USBCtrlTrfSetupHandler up to USBCtrlEPServiceComplete.
CtrlTrfSetup ==
  /\ Transaction("out")
  /\ LET b == Head(sie.ustat).bd
         r == ram[bdOut[b].adr].of
         f == [fw EXCEPT !.SetupPkt = r, !.short_pkt_status = "NOT_SENT",
                         !.ctrl_trf_state = "WAIT_SETUP",
                         !.EP0OutOddNeedsArmingNext = OddNext(fw)]
     IN /\ bdOut[b].pid = "SETUP"
        /\ fw' = CheckRequest(f, r)
        /\ app' = CheckApp(app, r)
  /\ bdOut' = Disarmed(bdOut)
  /\ bdIn' = [b \in InBDs |-> ClearBD]
  /\ sie' = [Popped EXCEPT !.pktdis = FALSE]
  /\ pc' = "arm"
  /\ UNCHANGED <<ram, host, faults, handover>>

\* Mutant: the source pointer is not advanced.
TxServiceStill(f) ==
  LET n == MinOf(Ep0Size, f.wCount) IN
  [f |-> [f EXCEPT !.short_pkt_status =
                     IF f.wCount >= Ep0Size THEN @
                     ELSE IF @ = "NOT_SENT" THEN "PENDING" ELSE "SENT",
                   !.wCount = @ - n],
   packet |-> Packet(f.pSrc, f.off, n)]

\* USBCtrlTrfTxService: the next packet of a control read.
TxService(f) ==
  LET n == MinOf(Ep0Size, f.wCount) IN
  [f |-> [f EXCEPT !.short_pkt_status =
                     IF f.wCount >= Ep0Size THEN @
                     ELSE IF @ = "NOT_SENT" THEN "PENDING" ELSE "SENT",
                   !.wCount = @ - n, !.off = @ + n],
   packet |-> Packet(f.pSrc, f.off, n)]

\* The OUT descriptor whose turn it is.
NextOut == IF fw.EP0OutOddNeedsArmingNext THEN ODD ELSE EVEN
Flipped == [fw EXCEPT !.EP0OutOddNeedsArmingNext = ~@]

\* USBCtrlEPServiceComplete: nobody claimed it; a control read; a command.
ArmStall == /\ ~fw.claimed
            /\ fw' = Flipped
            /\ handover' = Give("in", 0, InStall) \o Give("out", NextOut, StallBD(NextOut))
            /\ UNCHANGED ram

ArmRead ==
  LET tx == TxService([fw EXCEPT !.ctrl_trf_state = "CTRL_TRF_TX",
                                 !.wCount = MinOf(@, fw.SetupPkt.len)])
  IN /\ fw.claimed /\ IsRead(fw.SetupPkt)
     /\ fw' = tx.f
     /\ ram' = [ram EXCEPT !.CtrlTrfData = tx.packet]
     /\ handover' = Give("out", ODD, StatusBD(ODD)) \o Give("out", EVEN, StatusBD(EVEN))
                    \o Give("in", 0, InBD(1, tx.packet.len))

\* Mutant: the status packet is left for somebody else to arm.
ArmCommandOnly ==
  /\ fw.claimed /\ ~IsRead(fw.SetupPkt)
  /\ fw' = [Flipped EXCEPT !.ctrl_trf_state = "CTRL_TRF_RX"]
  /\ handover' = Give("out", NextOut, StallBD(NextOut))
  /\ UNCHANGED ram

ArmCommand ==
  LET status == fw.SetupPkt.len = 0
  IN /\ fw.claimed /\ ~IsRead(fw.SetupPkt)
     /\ fw' = [Flipped EXCEPT !.ctrl_trf_state = "CTRL_TRF_RX"]
     /\ handover' = Give("out", NextOut, IF status THEN StatusBD(NextOut) ELSE StallBD(NextOut))
                    \o (IF status THEN Give("in", 0, InBD(1, 0)) ELSE <<>>)
     /\ UNCHANGED ram

CtrlEPServiceComplete ==
  /\ pc = "arm"
  /\ ArmStall \/ ArmRead \/ ArmCommand
  /\ pc' = "trn"
  /\ UNCHANGED <<bdOut, bdIn, sie, host, faults, app, loop>>

\* Any other OUT packet: USBCtrlTrfOutHandler is an empty macro here, and
\* nothing is armed in place of the descriptor it used up.
CtrlTrfOut ==
  /\ Transaction("out")
  /\ bdOut[Head(sie.ustat).bd].pid # "SETUP"
  /\ sie' = Popped
  /\ UNCHANGED <<bdOut, bdIn, ram, host, faults, fw, app, pc, handover>>

\* USBCtrlTrfInHandler.  A pending address takes effect with the next IN
\* transaction.
Address == IF fw.usb_device_state = "ADR_PENDING_STATE" THEN fw.SetupPkt.arg ELSE sie.addr

CtrlTrfIn ==
  /\ Transaction("in")
  /\ LET f == IF fw.usb_device_state = "ADR_PENDING_STATE"
              THEN [fw EXCEPT !.usb_device_state =
                      IF fw.SetupPkt.arg = 0 THEN "DEFAULT_STATE" ELSE "ADDRESS_STATE"]
              ELSE fw
         tx == TxService(f)
     IN /\ sie' = [Popped EXCEPT !.addr = Address]
        /\ IF f.ctrl_trf_state = "CTRL_TRF_TX"
           THEN /\ fw' = tx.f
                /\ ram' = [ram EXCEPT !.CtrlTrfData = IF tx.packet.len = 0 THEN @ ELSE tx.packet]
                /\ handover' = Give("in", 0, IF tx.f.short_pkt_status = "SENT" THEN InStall
                                             ELSE InBD(1 - bdIn[0].dts, tx.packet.len))
           ELSE fw' = f /\ UNCHANGED <<ram, handover>>
  /\ UNCHANGED <<bdOut, bdIn, host, faults, app, pc>>

\* Stat._byte |= _USIE on the first descriptor waiting.
HandOver ==
  /\ handover # <<>>
  /\ LET w == Head(handover) IN
       IF w.dir = "out" THEN /\ bdOut' = [bdOut EXCEPT ![w.b] = w.bd] /\ UNCHANGED bdIn
                        ELSE /\ bdIn' = [bdIn EXCEPT ![w.b] = w.bd] /\ UNCHANGED bdOut
  /\ handover' = Tail(handover)
  /\ UNCHANGED <<sie, ram, host, faults, fw, app, pc, loop>>

-----------------------------------------------------------------------------
Firmware == \/ USBDeviceInit \/ TasksEnter \/ TasksReset \/ USBSuspend \/ USBCBSuspend
            \/ TasksNothing \/ CtrlTrfSetup \/ CtrlEPServiceComplete \/ CtrlTrfOut
            \/ CtrlTrfIn \/ TasksLeave \/ HandOver

Serviced == /\ pc = "main" /\ handover = <<>> /\ sie.ustat = <<>> /\ ~sie.urstif
            /\ fw.usb_device_state \notin {"DETACHED_STATE", "ATTACHED_STATE"}

\* A status packet whose acknowledgement was lost, and its repetition, have
\* used up both OUT descriptors.
EP0Spent == Serviced /\ \A b \in OutBDs : ~bdOut[b].own /\ bdOut[b].pid = "OUT"

\* The device does not answer: it is new on the bus, the host's idea of its
\* address is not its own, its OUT endpoint is spent, or it sleeps on a bus
\* that is in use.  The host finds out by its timeouts, and resets the bus.
Unanswered ==
  /\ ~host.asleep /\ ~host.se0 /\ ~sie.urstif
  /\ \/ fw.usb_device_state = "ATTACHED_STATE"
     \/ sie.addr # host.addr /\ Serviced
     \/ EP0Spent
     \/ sie.suspnd /\ ~sie.actvif

\* The bus is idle for 3 ms before IDLEIF is raised.
HostStep == \/ Token \/ GiveUp \/ BusReset(Unanswered) \/ EndReset
            \/ (pc = "main" /\ handover = <<>> /\ Sleep) \/ Resume

Next == Firmware \/ (HostStep /\ UNCHANGED fwVars)

\* The main loop goes on polling, and a host that has begun a transfer goes on
\* with it.  Nothing obliges it to begin one, to give up, or to resume.
Fairness ==
  /\ WF_vars(Firmware)
  /\ WF_vars(host.stage # "idle" /\ Token /\ UNCHANGED fwVars)
  /\ WF_vars(EndReset /\ UNCHANGED fwVars)
  /\ WF_vars(Unanswered /\ BusReset(TRUE) /\ UNCHANGED fwVars)

Spec == Init /\ [][Next]_vars /\ Fairness

-----------------------------------------------------------------------------
(* Properties. *)

TypeOK ==
  /\ BusTypeOK
  /\ fw.usb_device_state \in {"DETACHED_STATE", "ATTACHED_STATE", "DEFAULT_STATE",
                              "ADR_PENDING_STATE", "ADDRESS_STATE", "CONFIGURED_STATE"}
  /\ fw.ctrl_trf_state \in {"WAIT_SETUP", "CTRL_TRF_TX", "CTRL_TRF_RX"}
  /\ fw.short_pkt_status \in {"NOT_SENT", "PENDING", "SENT"}
  /\ {fw.wCount, fw.off} \subseteq Nat
  /\ pc \in {"init", "main", "bus", "sleep", "trn", "arm"} /\ loop \in 0 .. 4
  /\ \A k \in DOMAIN handover :
       handover[k].dir \in {"out", "in"} /\ handover[k].bd \in BDType

\* Whatever the host has done before, once the firmware has serviced
\* everything endpoint 0 can take a SETUP packet: the descriptor that is armed
\* is the one the SIE looks at next.
SetupAccepted == Serviced => ~sie.pktdis /\ bdOut[sie.out].own
SetupAcceptedUnlessSpent == SetupAccepted \/ EP0Spent

\* A control read that ended well gave the host exactly what it asked for:
\* the source it named, from its start, without a hole or a repetition.
ReadsAreExact ==
  host.result = "ok" /\ IsRead(host.req) =>
    /\ host.exact
    /\ host.got.len = MinOf(host.req.len, SourceLength(host.req))
    /\ host.got.len > 0 => host.got.of = Source(host.req, app)

\* The device answers at no address but the one the host knows it by: the
\* address of a SET_ADDRESS never takes effect before its status stage.
AddressAgrees == sie.addr # 0 /\ ~sie.urstif => host.addr = sie.addr

\* Every transfer the host begins comes to an end.
TransfersEnd == host.stage # "idle" ~> host.stage = "idle"

\* A module suspended on a bus that is no longer idle has its wake-up before it.
WakesUp == sie.suspnd /\ ~host.asleep => sie.actvif
=============================================================================
