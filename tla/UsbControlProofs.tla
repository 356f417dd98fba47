-------------------------- MODULE UsbControlProofs --------------------------
(***************************************************************************)
(* Endpoint 0 can always take the next SETUP packet, answers at no address *)
(* but the host's, keeps the device's state as chapter 9 has it, wakes up, *)
(* answers a control read with exactly what was asked for and has done     *)
(* what a command that ended well says: for every set of requests, every   *)
(* length of descriptor and of packet, and any number of lost              *)
(* acknowledgements, abandoned transfers and bus resets.                   *)
(*                                                                         *)
(* The firmware gives descriptors to the SIE one by one, the SIE finishes  *)
(* them and queues the transaction, the firmware takes the transaction out *)
(* again.  Owners follows a descriptor on that way: which of the three has *)
(* it, that nobody has it twice, that one of the OUT descriptors is always *)
(* on its way to the SIE's next place.  Addresses follows a SETUP packet   *)
(* and the address it may carry, from the host to U1ADDR.  Stages follows  *)
(* the data of a transfer: what is still at its source, what is in the     *)
(* packet on the way and what the receiver has.                            *)
(*                                                                         *)
(* The proof has, for each action, one lemma on its effect on the parts of *)
(* the state the invariant speaks of (...Effect), then for each group of   *)
(* conjuncts a lemma for each action (...Owners, ...Addresses, ...Stages). *)
(***************************************************************************)
EXTENDS UsbControl, SequenceTheorems, TLAPS

-----------------------------------------------------------------------------
(* Types.  A field the theorems say nothing of is there, with the value it has. *)

States == {"DETACHED_STATE", "ATTACHED_STATE", "POWERED_STATE", "DEFAULT_STATE",
           "ADR_PENDING_STATE", "ADDRESS_STATE", "CONFIGURED_STATE"}

IsFw(f) ==
  f \in [USBDeviceState : States, pBDTEntryIn : InBDs, Current : OutBDs, Next : OutBDs,
         shortPacketStatus : {"NOT_USED", "PENDING", "SENT"},
         controlTransferState : {"WAIT_SETUP", "CTRL_TRF_TX", "CTRL_TRF_RX"},
         flag1 : BOOLEAN, flag2 : BOOLEAN, BothEP0OutUOWNsSet : BOOLEAN,
         timeout : 0 .. StatusTimeout, ACTVIE : BOOLEAN, inBusy : BOOLEAN,
         pSrc : {f.pSrc}, off : Nat, inCount : Nat, outBusy : BOOLEAN, outCount : Nat]

Queue == [dir : {"out"}, bd : OutBDs] \cup [dir : {"in"}, bd : InBDs]

IsSie(s) ==
  s \in [out : OutBDs, in : InBDs, pktdis : BOOLEAN, addr : 0 .. 127, ustat : Seq(Queue),
         epstall : BOOLEAN, stallif : BOOLEAN, urstif : BOOLEAN, idleif : BOOLEAN,
         actvif : BOOLEAN, suspnd : BOOLEAN, on : BOOLEAN]

IsHost(h) ==
  h \in [stage : {"idle", "setup", "data", "status"}, addr : 0 .. 127,
         req : Requests \cup {NoRequest}, tog : {0, 1}, got : {h.got}, exact : {h.exact},
         result : {"none", "ok", "short", "stall", "gaveup"}, short : BOOLEAN,
         asleep : BOOLEAN, se0 : BOOLEAN]

IsApp(a) ==
  a \in [cfg : {a.cfg}, alt : {a.alt}, RemoteWakeup : {a.RemoteWakeup}, line : {a.line},
         cdc_notice : {a.cdc_notice}]

Entry == [dir : {"out"}, b : OutBDs, bd : BDType] \cup [dir : {"in"}, b : InBDs, bd : BDType]

RestOK ==
  /\ bdOut \in [OutBDs -> BDType] /\ bdIn \in [InBDs -> BDType]
  /\ ram = [a \in Buffers |-> ram[a]]
  /\ Len(sie.ustat) <= 4
  /\ pc \in {"attach", "main", "bus", "sof", "stall", "trn", "arm"}
  /\ loop \in 0 .. 4
  /\ handover \in Seq(Entry)

Types == IsFw(fw) /\ IsSie(sie) /\ IsHost(host) /\ IsApp(app) /\ RestOK

-----------------------------------------------------------------------------
(* Suspend and wake-up. *)

Idling ==
  /\ fw.ACTVIE <=> sie.suspnd
  /\ pc = "bus" => ~sie.suspnd
  /\ sie.idleif \/ sie.suspnd => host.asleep \/ sie.actvif
  /\ sie.idleif => ~sie.suspnd
  /\ fw.USBDeviceState = "ATTACHED_STATE" => ~sie.suspnd /\ ((host.se0 \/ pc = "bus") => sie.urstif)
  /\ pc = "attach" => ~sie.on /\ ~host.se0

-----------------------------------------------------------------------------
(* Who owns the descriptors of endpoint 0. *)

Tx == fw.controlTransferState = "CTRL_TRF_TX"
Rx == fw.controlTransferState = "CTRL_TRF_RX"
Live == ~sie.urstif /\ ~Below(fw.USBDeviceState)

\* A descriptor is in the USTAT FIFO, or about to be given to the SIE.
QueuedOut(b) == \E k \in DOMAIN sie.ustat : sie.ustat[k].dir = "out" /\ sie.ustat[k].bd = b
QueuedIn == \E k \in DOMAIN sie.ustat : sie.ustat[k].dir = "in"
HandingOut(b) == \E k \in DOMAIN handover : handover[k].dir = "out" /\ handover[k].b = b
HandingIn == \E k \in DOMAIN handover : handover[k].dir = "in"
ArmedIn == \E b \in InBDs : bdIn[b].own
BusyOut(b) == bdOut[b].own \/ HandingOut(b) \/ QueuedOut(b)

\* Every transaction of the FIFO is there once.
QueueOnce ==
  \A j, k \in DOMAIN sie.ustat :
    sie.ustat[j].dir = sie.ustat[k].dir /\ (sie.ustat[j].dir = "out" => sie.ustat[j].bd = sie.ustat[k].bd)
    => j = k
HandoverOnce ==
  /\ \A j, k \in DOMAIN handover :
       handover[j].dir = handover[k].dir /\ (handover[j].dir = "out" => handover[j].b = handover[k].b)
       => j = k
  /\ \A k \in DOMAIN handover : handover[k].dir = "out" => handover[k].bd.own

OutOwner ==
  /\ \A b \in OutBDs : QueuedOut(b) => ~bdOut[b].own /\ ~HandingOut(b)
  /\ \A b \in OutBDs : HandingOut(b) => ~bdOut[b].own
  /\ ~Tx => ~(BusyOut(0) /\ BusyOut(1))
  /\ Tx <=> fw.BothEP0OutUOWNsSet

\* The SIE goes on after the last OUT transaction of the FIFO.
OutNext ==
  \A k \in DOMAIN sie.ustat :
    /\ sie.ustat[k].dir = "out"
    /\ \A j \in DOMAIN sie.ustat : j > k => sie.ustat[j].dir # "out"
    => sie.out = OtherOut(sie.ustat[k].bd)

OutReady ==
  Live /\ pc # "arm" => QueuedOut(0) \/ QueuedOut(1) \/ bdOut[sie.out].own \/ HandingOut(sie.out)

\* After a bus reset no data or status packet before a SETUP packet.
Fresh ==
  /\ \A b \in OutBDs : QueuedOut(b) => bdOut[b].pid = "SETUP"
  /\ host.stage \in {"idle", "setup"} \/ sie.pktdis
TxBoth == Live /\ Tx => (BusyOut(0) /\ BusyOut(1)) \/ Fresh

\* An open descriptor is never the current one: USBStallHandler has nothing
\* to arm again.
OpenNext ==
  /\ \A b \in OutBDs : bdOut[b].own /\ ~bdOut[b].stall /\ ~bdOut[b].dtsen => b # fw.Current
  /\ \A k \in DOMAIN handover :
       handover[k].dir = "out" /\ ~handover[k].bd.stall /\ ~handover[k].bd.dtsen
       => handover[k].b # fw.Current

InOwner ==
  /\ QueuedIn => ~ArmedIn /\ ~HandingIn
  /\ HandingIn => ~ArmedIn
  /\ \A b \in InBDs : bdIn[b].own => b = fw.pBDTEntryIn
  /\ \A k \in DOMAIN handover : handover[k].dir = "in" => handover[k].b = fw.pBDTEntryIn
  /\ sie.in = IF QueuedIn THEN NextIn(fw.pBDTEntryIn) ELSE fw.pBDTEntryIn
  /\ Rx /\ ~fw.flag1 /\ ~fw.flag2 => ~ArmedIn /\ ~HandingIn /\ ~QueuedIn
  /\ Tx => fw.flag2

\* A SETUP packet is the last thing in the FIFO, and disables the SIE.
IsSetup(k) == sie.ustat[k].dir = "out" /\ bdOut[sie.ustat[k].bd].pid = "SETUP"
SetupLast ==
  /\ \A k \in DOMAIN sie.ustat : IsSetup(k) => k = Len(sie.ustat) /\ sie.pktdis
  /\ Live /\ sie.pktdis => sie.ustat # <<>> /\ IsSetup(Len(sie.ustat))

Sections ==
  /\ pc \in {"trn", "arm"} => ~Below(fw.USBDeviceState)
  /\ Below(fw.USBDeviceState) => /\ sie.addr = 0 /\ app.cfg = 0 /\ fw.flag1
                                 /\ ~QueuedIn /\ ~ArmedIn /\ ~HandingIn
  /\ pc = "attach" => Below(fw.USBDeviceState)
  /\ handover # <<>> => pc \in {"stall", "trn"}

Arming ==
  pc = "arm" => /\ sie.ustat = <<>> /\ ~sie.pktdis
                /\ \A b \in OutBDs : ~bdOut[b].own /\ bdOut[b].pid # "SETUP"
                /\ ~ArmedIn /\ ~Tx /\ ~Rx /\ sie.out = fw.Next
                /\ ram.SetupPkt.of \in Requests
                /\ IsRead(ram.SetupPkt.of) => fw.Current # fw.Next

Owners == /\ QueueOnce /\ HandoverOnce /\ OutOwner /\ OutNext /\ OutReady /\ TxBoth
          /\ OpenNext /\ InOwner /\ SetupLast /\ Sections /\ Arming

-----------------------------------------------------------------------------
(* The host, and the SETUP packets there are. *)

HostWays ==
  /\ sie.urstif => host.stage = "idle"
  /\ host.stage \in {"setup", "status"} => host.tog = 1
  /\ host.stage # "idle" => /\ host.req \in Requests
                            /\ host.req.name = "SET_ADDRESS" => host.stage # "data" /\ host.addr = 0
                            /\ host.req.name # "SET_ADDRESS" /\ host.addr = 0
                               => host.req.of = "DEVICE" /\ host.req.arg = 0

\* What a SETUP packet that waits in the FIFO says.
Waiting(k) == ram[bdOut[sie.ustat[k].bd].adr].of

SetupPackets ==
  /\ \A k \in DOMAIN sie.ustat : IsSetup(k) => Waiting(k) \in Requests
  /\ Tx => /\ \A b \in OutBDs : bdOut[b].own \/ bdOut[b].pid = "SETUP" => bdOut[b].adr = "SetupPkt"
           /\ \A k \in DOMAIN handover : handover[k].dir = "out" => handover[k].bd.adr = "SetupPkt"

\* It is what the host has asked for last, and could ask for.
Asked ==
  /\ host.stage # "idle" \/ host.result = "gaveup"
  /\ sie.addr = host.addr
  /\ IF host.addr = 0
     THEN host.req.name = "SET_ADDRESS" \/ (host.req.of = "DEVICE" /\ host.req.arg = 0)
     ELSE host.req.name # "SET_ADDRESS"

SetupWaits ==
  Live => \A k \in DOMAIN sie.ustat : IsSetup(k) => Waiting(k) = host.req /\ Asked

\* From the SETUP packet of a SET_ADDRESS to the transaction of its status
\* stage.
IsSetAddress(r) == r \in Requests /\ r.name = "SET_ADDRESS"
PendingRam ==
  fw.USBDeviceState = "ADR_PENDING_STATE" =>
    /\ IsSetAddress(ram.SetupPkt.of)
    /\ \A k \in DOMAIN sie.ustat : IsSetup(k) => IsSetAddress(Waiting(k))

Pending ==
  Live /\ fw.USBDeviceState = "ADR_PENDING_STATE" =>
    /\ sie.addr = 0 /\ ~Tx
    /\ host.req.name = "SET_ADDRESS"
    /\ host.addr # 0 \/ host.stage # "idle" \/ host.result = "gaveup"
    /\ ~sie.pktdis => ram.SetupPkt.of = host.req
    /\ QueuedIn => host.addr # 0 /\ host.addr = ram.SetupPkt.of.arg
    /\ \A b \in InBDs : bdIn[b].own => ~bdIn[b].stall /\ bdIn[b].dts = 1
    /\ \A k \in DOMAIN handover :
         handover[k].dir = "in" => ~handover[k].bd.stall /\ handover[k].bd.dts = 1
    /\ pc = "arm" => fw.inBusy

Addressed ==
  Live => /\ fw.USBDeviceState = "DEFAULT_STATE" => sie.addr = 0
          /\ fw.USBDeviceState = "CONFIGURED_STATE" => sie.addr # 0
          /\ sie.addr = 0 => app.cfg = 0

Addresses == SetupPackets /\ SetupWaits /\ PendingRam /\ Pending /\ Addressed /\ AddressAgrees

-----------------------------------------------------------------------------
(* The pieces of a control transfer. *)

LEMMA Constants ==
  /\ InBuffers \in {1, 2} /\ Ep0Size \in Nat /\ Buffers = {"SetupPkt", "CtrlTrfData"}
  /\ StatusTimeout \in Nat /\ 0 \in InBDs /\ OutBDs = {0, 1} /\ 0 \in 0 .. StatusTimeout
  /\ StatusTimeout \in 0 .. StatusTimeout
  /\ \A b \in InBDs : NextIn(b) \in InBDs
  /\ \A b \in OutBDs : OtherOut(b) \in OutBDs /\ OtherOut(b) # b /\ OtherOut(OtherOut(b)) = b
<1>1. /\ InBuffers \in {1, 2} /\ Ep0Size \in Nat /\ Buffers = {"SetupPkt", "CtrlTrfData"}
      /\ StatusTimeout \in Nat
  BY BusAssumption, ControlAssumption
<1>2. 0 \in InBDs /\ \A b \in InBDs : NextIn(b) \in InBDs
  BY <1>1 DEF InBDs, NextIn
<1> QED
  BY <1>1, <1>2 DEF OutBDs, OtherOut

LEMMA RequestTypes ==
  \A r \in Requests :
    /\ r.arg \in Nat /\ r.len \in Nat
    /\ r.name = "SET_ADDRESS" => r.arg \in 1 .. 127 /\ r.len = 0
    /\ r.name = "SET_CONFIGURATION" => r.arg \in 0 .. 255
BY ControlAssumption

LEMMA Descriptors ==
  /\ StallBD \in BDType /\ SetupBD \in BDType /\ OpenBD \in BDType /\ ClearBD \in BDType
  /\ \A dts \in {0, 1}, n \in Nat : DataBD(dts, n) \in BDType
BY Constants DEF StallBD, SetupBD, OpenBD, ClearBD, DataBD, BD, BDType

\* The parts of the globals the theorems are about.
SameTransfer(f, g) ==
  /\ g.controlTransferState = f.controlTransferState
  /\ g.BothEP0OutUOWNsSet <=> f.BothEP0OutUOWNsSet
SameFlags(f, g) == (g.flag1 <=> f.flag1) /\ (g.flag2 <=> f.flag2)
SamePointers(f, g) ==
  g.pBDTEntryIn = f.pBDTEntryIn /\ g.Current = f.Current /\ g.Next = f.Next
SameDevice(f, g) == g.USBDeviceState = f.USBDeviceState /\ (g.ACTVIE <=> f.ACTVIE)
SameBusy(f, g) == (g.inBusy <=> f.inBusy) /\ (g.outBusy <=> f.outBusy)

LEMMA TurnEffect ==
  ASSUME NEW f, IsFw(f), NEW b \in OutBDs
  PROVE  LET g == Turn(f, b) IN
         /\ IsFw(g) /\ SameTransfer(f, g) /\ SameFlags(f, g) /\ SameDevice(f, g) /\ SameBusy(f, g)
         /\ g.pBDTEntryIn = f.pBDTEntryIn /\ g.Current = b /\ g.Next = OtherOut(b)
         /\ g.outCount = f.outCount
BY Constants DEF IsFw, Turn, SameTransfer, SameFlags, SameDevice, SameBusy

LEMMA AbandonEffect ==
  ASSUME NEW f, IsFw(f)
  PROVE  LET g == Abandon(f) IN
         /\ IsFw(g) /\ SamePointers(f, g) /\ SameFlags(f, g) /\ SameDevice(f, g)
         /\ g.controlTransferState = "WAIT_SETUP" /\ ~g.BothEP0OutUOWNsSet
         /\ ~g.inBusy /\ ~g.outBusy
<1> DEFINE g == Abandon(f)
<1>1. g = [f EXCEPT !.shortPacketStatus = "NOT_USED", !.BothEP0OutUOWNsSet = FALSE,
                    !.controlTransferState = "WAIT_SETUP",
                    !.inBusy = FALSE, !.inCount = 0, !.pSrc = Nothing, !.off = 0,
                    !.outBusy = FALSE, !.outCount = 0]
  BY DEF Abandon
<1> HIDE DEF g
<1>2. IsFw(g)
  <2> DEFINE h == [f EXCEPT !.shortPacketStatus = "NOT_USED", !.BothEP0OutUOWNsSet = FALSE,
                            !.controlTransferState = "WAIT_SETUP", !.inBusy = FALSE]
  <2>1. IsFw(h)
    BY DEF IsFw
  <2>2. g = [h EXCEPT !.inCount = 0, !.pSrc = Nothing, !.off = 0, !.outBusy = FALSE, !.outCount = 0]
    BY <1>1
  <2> HIDE DEF h
  <2> QED
    BY <2>1, <2>2 DEF IsFw
<1>3. /\ g.controlTransferState = "WAIT_SETUP" /\ ~g.BothEP0OutUOWNsSet
      /\ ~g.inBusy /\ ~g.outBusy
  BY <1>1 DEF IsFw
<1>4. SamePointers(f, g)
  BY <1>1 DEF IsFw, SamePointers
<1>5. SameFlags(f, g) /\ SameDevice(f, g)
  BY <1>1 DEF IsFw, SameFlags, SameDevice
<1> QED
  BY <1>2, <1>3, <1>4, <1>5 DEF g

LEMMA AcceptEffect ==
  ASSUME NEW f, IsFw(f)
  PROVE  LET g == Accept(f) IN
         /\ IsFw(g) /\ SamePointers(f, g) /\ SameFlags(f, g) /\ SameDevice(f, g)
         /\ SameTransfer(f, g) /\ g.inBusy
BY DEF IsFw, Accept, SamePointers, SameFlags, SameDevice, SameTransfer

LEMMA SendEffect ==
  ASSUME NEW f, IsFw(f), NEW source, NEW n \in Nat
  PROVE  LET g == Send(f, source, n) IN
         /\ IsFw(g) /\ SamePointers(f, g) /\ SameFlags(f, g) /\ SameDevice(f, g)
         /\ SameTransfer(f, g)
BY DEF IsFw, Send, SamePointers, SameFlags, SameDevice, SameTransfer

LEMMA TxServiceEffect ==
  ASSUME NEW f, IsFw(f)
  PROVE  LET g == TxService(f).f
             p == TxService(f).packet IN
         /\ IsFw(g) /\ SamePointers(f, g) /\ SameFlags(f, g) /\ SameDevice(f, g)
         /\ SameTransfer(f, g) /\ SameBusy(f, g)
         /\ p.len \in Nat
<1>1. MinOf(Ep0Size, f.inCount) \in Nat /\ f.inCount - MinOf(Ep0Size, f.inCount) \in Nat
      /\ f.off + MinOf(Ep0Size, f.inCount) \in Nat
  BY Constants DEF IsFw, MinOf
<1> DEFINE g == TxService(f).f
           n == MinOf(Ep0Size, f.inCount)
           short == IF f.inCount >= Ep0Size THEN f.shortPacketStatus
                    ELSE IF f.shortPacketStatus = "NOT_USED" THEN "PENDING" ELSE "SENT"
<1>2. g = [f EXCEPT !.shortPacketStatus = short, !.inCount = f.inCount - n, !.off = f.off + n]
  BY DEF TxService, IsFw
<1>3. short \in {"NOT_USED", "PENDING", "SENT"}
  BY DEF IsFw
<1>4. TxService(f).packet.len \in Nat
  BY <1>1 DEF TxService, Packet
<1> HIDE DEF g, n, short
<1>5. IsFw(g)
  BY <1>1, <1>2, <1>3 DEF IsFw, n
<1>6. SamePointers(f, g) /\ SameFlags(f, g)
  BY <1>2 DEF IsFw, SamePointers, SameFlags
<1>7. SameDevice(f, g) /\ SameTransfer(f, g) /\ SameBusy(f, g)
  BY <1>2 DEF IsFw, SameDevice, SameTransfer, SameBusy
<1> QED
  BY <1>4, <1>5, <1>6, <1>7 DEF g

LEMMA AllowStatusStageEffect ==
  ASSUME NEW f, IsFw(f), f.controlTransferState # "CTRL_TRF_TX" \/ (~f.flag1 /\ ~f.flag2)
  PROVE  LET g == AllowStatusStage(f).f IN
         /\ IsFw(g) /\ SamePointers(f, g) /\ SameDevice(f, g) /\ SameBusy(f, g)
         /\ g.controlTransferState = f.controlTransferState
         /\ g.BothEP0OutUOWNsSet <=> f.BothEP0OutUOWNsSet \/ f.controlTransferState = "CTRL_TRF_TX"
         /\ g.flag1 /\ (f.controlTransferState = "CTRL_TRF_TX" => g.flag2)
<1> DEFINE g == AllowStatusStage(f).f
<1>1. CASE f.flag1 \/ f.flag2
  <2>1. g = [f EXCEPT !.flag1 = TRUE]
    BY <1>1 DEF AllowStatusStage
  <2> HIDE DEF g
  <2>2. IsFw(g) /\ SamePointers(f, g)
    BY <2>1 DEF IsFw, SamePointers
  <2>3. SameDevice(f, g) /\ SameBusy(f, g) /\ g.flag1 /\ (g.flag2 <=> f.flag2)
    BY <2>1 DEF IsFw, SameDevice, SameBusy
  <2>4. /\ g.controlTransferState = f.controlTransferState
        /\ (g.BothEP0OutUOWNsSet <=> f.BothEP0OutUOWNsSet)
    BY <2>1 DEF IsFw
  <2> QED
    BY <1>1, <2>2, <2>3, <2>4 DEF g
<1>2. CASE ~f.flag1 /\ ~f.flag2
  <2> DEFINE both == f.BothEP0OutUOWNsSet \/ f.controlTransferState = "CTRL_TRF_TX"
  <2>1. g = [f EXCEPT !.flag1 = TRUE, !.flag2 = TRUE, !.BothEP0OutUOWNsSet = both]
    BY <1>2 DEF AllowStatusStage, IsFw
  <2>2. both \in BOOLEAN
    OBVIOUS
  <2> HIDE DEF g, both
  <2>3. IsFw(g) /\ SamePointers(f, g)
    BY <2>1, <2>2 DEF IsFw, SamePointers
  <2>4. SameDevice(f, g) /\ SameBusy(f, g) /\ g.flag1 /\ g.flag2
    BY <2>1 DEF IsFw, SameDevice, SameBusy
  <2>5. g.controlTransferState = f.controlTransferState /\ (g.BothEP0OutUOWNsSet <=> both)
    BY <2>1, <2>2 DEF IsFw
  <2> QED
    BY <2>3, <2>4, <2>5 DEF g, both
<1> QED
  BY <1>1, <1>2

LEMMA AllowStatusStageGives ==
  ASSUME NEW f, IsFw(f)
  PROVE  LET s == AllowStatusStage(f) IN
         /\ f.flag1 \/ f.flag2 => s.give = <<>>
         /\ ~f.flag1 /\ ~f.flag2 /\ f.controlTransferState = "CTRL_TRF_RX"
            => s.give = Give("in", f.pBDTEntryIn, DataBD(1, 0))
         /\ ~f.flag1 /\ ~f.flag2 /\ f.controlTransferState = "CTRL_TRF_TX"
            => s.give = Give("out", f.Current, StallBD) \o Give("out", f.Next, OpenBD)
         /\ f.controlTransferState = "WAIT_SETUP" => s.give = <<>>
BY DEF IsFw, AllowStatusStage

LEMMA InitGlobalsEffect ==
  ASSUME NEW f, IsFw(f), NEW st \in States
  PROVE  LET g == [InitGlobals(f) EXCEPT !.USBDeviceState = st] IN
         /\ IsFw(g) /\ SameTransfer(f, g) /\ SameBusy(f, g)
         /\ g.pBDTEntryIn = 0 /\ g.Current = f.Current /\ g.Next = f.Next
         /\ g.USBDeviceState = st /\ ~g.ACTVIE /\ g.flag1 /\ g.flag2
<1> DEFINE g == [InitGlobals(f) EXCEPT !.USBDeviceState = st]
<1>1. g = [f EXCEPT !.USBDeviceState = st, !.pBDTEntryIn = 0, !.flag1 = TRUE, !.flag2 = TRUE,
                    !.ACTVIE = FALSE]
  BY DEF IsFw, InitGlobals
<1> HIDE DEF g
<1>2. IsFw(g)
  BY <1>1, Constants DEF IsFw
<1>3. /\ g.pBDTEntryIn = 0 /\ g.Current = f.Current /\ g.Next = f.Next
      /\ g.USBDeviceState = st /\ ~g.ACTVIE /\ g.flag1 /\ g.flag2
      /\ g.controlTransferState = f.controlTransferState
  BY <1>1 DEF IsFw
<1>4. (g.BothEP0OutUOWNsSet <=> f.BothEP0OutUOWNsSet) /\ SameBusy(f, g)
  BY <1>1 DEF IsFw, SameBusy
<1> QED
  BY <1>2, <1>3, <1>4 DEF SameTransfer, g

LEMMA SeqFacts ==
  /\ \A s \in Seq(Queue) : s # <<>> => Tail(s) \in Seq(Queue) /\ Len(Tail(s)) = Len(s) - 1
                                        /\ \A k \in 1 .. Len(s) - 1 : Tail(s)[k] = s[k + 1]
  /\ \A s \in Seq(Queue), e \in Queue : Append(s, e) \in Seq(Queue)
  /\ \A s \in Seq(Queue) : Len(s) \in Nat /\ (Len(s) = 0 <=> s = <<>>) /\ \A k \in DOMAIN s : s[k] \in Queue
  /\ <<>> \in Seq(Queue)
OBVIOUS

LEMMA InitSieEffect ==
  ASSUME NEW s, IsSie(s)
  PROVE  LET g == InitSie(s) IN
         /\ IsSie(g) /\ g.out = 0 /\ g.in = 0 /\ ~g.pktdis /\ g.addr = 0 /\ g.ustat = <<>>
         /\ ~g.urstif /\ ~g.idleif /\ ~g.actvif /\ (g.suspnd <=> s.suspnd) /\ (g.on <=> s.on)
<1>1. /\ 0 \in OutBDs /\ 0 \in InBDs /\ 0 \in 0 .. 127 /\ <<>> \in Seq(Queue)
  BY Constants, SeqFacts
<1>2. IsSie(InitSie(s))
  BY <1>1 DEF IsSie, InitSie
<1>3. LET g == InitSie(s) IN
      /\ g.out = 0 /\ g.in = 0 /\ ~g.pktdis /\ g.addr = 0 /\ g.ustat = <<>>
      /\ ~g.urstif /\ ~g.idleif /\ ~g.actvif
  BY <1>1 DEF IsSie, InitSie
<1>4. InitSie(s).suspnd <=> s.suspnd
  BY DEF IsSie, InitSie
<1>5. InitSie(s).on <=> s.on
  BY DEF IsSie, InitSie
<1> QED
  BY <1>2, <1>3, <1>4, <1>5

\* The descriptors after USBDeviceInit.
Initialised ==
  /\ bdOut' = InitBdOut /\ bdIn' = InitBdIn
LEMMA InitialisedEffect ==
  ASSUME Initialised
  PROVE  /\ bdOut' \in [OutBDs -> BDType] /\ bdIn' \in [InBDs -> BDType]
         /\ bdOut'[0].own /\ bdOut'[0].stall /\ ~bdOut'[1].own /\ \A b \in InBDs : ~bdIn'[b].own
         /\ bdOut'[0].adr = "SetupPkt" /\ \A b \in OutBDs : bdOut'[b].pid = "none"
BY Constants, Descriptors DEF Initialised, InitBdOut, InitBdIn, BDType, BD, ClearBD

\* What is as it was of the rest.
SameQueue == sie'.ustat = sie.ustat /\ sie'.out = sie.out /\ sie'.in = sie.in
SameSie ==
  /\ SameQueue /\ sie'.addr = sie.addr /\ (sie'.pktdis <=> sie.pktdis)
  /\ (sie'.urstif <=> sie.urstif) /\ (sie'.idleif <=> sie.idleif)
  /\ (sie'.actvif <=> sie.actvif) /\ (sie'.suspnd <=> sie.suspnd) /\ (sie'.on <=> sie.on)
SameFw == /\ SameTransfer(fw, fw') /\ SameFlags(fw, fw') /\ SamePointers(fw, fw')
          /\ SameDevice(fw, fw') /\ (fw'.inBusy <=> fw.inBusy)

LEMMA AttachEffect ==
  ASSUME Types, USBDeviceAttach
  PROVE  /\ Types' /\ Initialised /\ SameTransfer(fw, fw')
         /\ fw'.pBDTEntryIn = 0 /\ fw'.Current = fw.Current /\ fw'.Next = fw.Next
         /\ fw'.USBDeviceState = "ATTACHED_STATE" /\ ~fw'.ACTVIE /\ fw'.flag1 /\ fw'.flag2
         /\ sie'.out = 0 /\ sie'.in = 0 /\ ~sie'.pktdis /\ sie'.addr = 0 /\ sie'.ustat = <<>>
         /\ ~sie'.urstif /\ ~sie'.idleif /\ ~sie'.actvif /\ ~sie'.suspnd
<1> DEFINE s == InitSie(sie)
<1>1. Initialised /\ sie' = [s EXCEPT !.on = TRUE, !.suspnd = FALSE]
  BY DEF USBDeviceAttach, Initialised
<1>2. /\ IsSie(s) /\ s.out = 0 /\ s.in = 0 /\ ~s.pktdis /\ s.addr = 0 /\ s.ustat = <<>>
      /\ ~s.urstif /\ ~s.idleif /\ ~s.actvif
  BY InitSieEffect DEF Types
<1> HIDE DEF s
<1>3. /\ IsSie(sie') /\ sie'.out = 0 /\ sie'.in = 0 /\ ~sie'.pktdis /\ sie'.addr = 0
      /\ sie'.ustat = <<>> /\ ~sie'.urstif /\ ~sie'.idleif /\ ~sie'.actvif /\ ~sie'.suspnd
  BY <1>1, <1>2 DEF IsSie
<1>4. /\ IsFw(fw') /\ SameTransfer(fw, fw')
      /\ fw'.pBDTEntryIn = 0 /\ fw'.Current = fw.Current /\ fw'.Next = fw.Next
      /\ fw'.USBDeviceState = "ATTACHED_STATE" /\ ~fw'.ACTVIE /\ fw'.flag1 /\ fw'.flag2
  BY InitGlobalsEffect DEF USBDeviceAttach, Types, States
<1>5. RestOK'
  BY <1>1, <1>3, InitialisedEffect DEF USBDeviceAttach, Types, RestOK
<1>6. IsHost(host') /\ IsApp(app')
  BY DEF USBDeviceAttach, Types
<1> QED
  BY <1>1, <1>3, <1>4, <1>5, <1>6 DEF Types

LEMMA EnterEffect ==
  ASSUME Types, TasksEnter
  PROVE  /\ Types'
         /\ SameTransfer(fw, fw') /\ SameFlags(fw, fw') /\ SamePointers(fw, fw')
         /\ IF fw.USBDeviceState = "ATTACHED_STATE" /\ ~host.se0
            THEN /\ fw'.USBDeviceState = "POWERED_STATE" /\ ~sie'.urstif /\ ~sie'.idleif
                 /\ ~sie'.actvif /\ (fw'.ACTVIE <=> fw.ACTVIE) /\ (sie'.suspnd <=> sie.suspnd)
                 /\ sie'.ustat = IF sie.ustat = <<>> THEN sie.ustat ELSE Tail(sie.ustat)
            ELSE /\ fw'.USBDeviceState = fw.USBDeviceState /\ (sie'.urstif <=> sie.urstif)
                 /\ (sie'.idleif <=> sie.idleif) /\ sie'.ustat = sie.ustat
                 /\ IF sie.actvif /\ fw.ACTVIE
                    THEN ~fw'.ACTVIE /\ ~sie'.suspnd
                    ELSE /\ (fw'.ACTVIE <=> fw.ACTVIE) /\ (sie'.suspnd <=> sie.suspnd)
                         /\ (sie'.actvif <=> sie.actvif)
         /\ sie'.out = sie.out /\ sie'.in = sie.in /\ sie'.addr = sie.addr
         /\ (sie'.pktdis <=> sie.pktdis) /\ (sie'.on <=> sie.on)
         /\ pc' = IF sie'.suspnd THEN "main" ELSE "bus"
<1> DEFINE powered == fw.USBDeviceState = "ATTACHED_STATE" /\ ~host.se0
           f == IF powered THEN [fw EXCEPT !.USBDeviceState = "POWERED_STATE"] ELSE fw
           s == IF powered
                THEN [sie EXCEPT !.urstif = FALSE, !.idleif = FALSE, !.actvif = FALSE,
                                 !.stallif = FALSE,
                                 !.ustat = IF @ = <<>> THEN @ ELSE Tail(@)]
                ELSE sie
           wake == s.actvif /\ f.ACTVIE
<1>1. /\ fw' = IF wake THEN [f EXCEPT !.ACTVIE = FALSE] ELSE f
      /\ sie' = IF wake THEN [s EXCEPT !.suspnd = FALSE, !.actvif = FALSE] ELSE s
      /\ pc' = IF s.suspnd /\ ~wake THEN "main" ELSE "bus"
  BY Zenon DEF TasksEnter
<1>2. /\ IsFw(f) /\ SameTransfer(fw, f) /\ SameFlags(fw, f) /\ SamePointers(fw, f)
      /\ f.USBDeviceState = IF powered THEN "POWERED_STATE" ELSE fw.USBDeviceState
      /\ (f.ACTVIE <=> fw.ACTVIE)
  BY DEF Types, IsFw, SameTransfer, SameFlags, SamePointers, States
<1>3. /\ IsSie(s) /\ s.out = sie.out /\ s.in = sie.in /\ s.addr = sie.addr
      /\ (s.pktdis <=> sie.pktdis) /\ (s.on <=> sie.on) /\ (s.suspnd <=> sie.suspnd)
      /\ IF powered THEN /\ ~s.urstif /\ ~s.idleif /\ ~s.actvif
                         /\ s.ustat = IF sie.ustat = <<>> THEN sie.ustat ELSE Tail(sie.ustat)
                    ELSE s = sie
  <2>1. CASE powered
    <3> DEFINE q == IF sie.ustat = <<>> THEN sie.ustat ELSE Tail(sie.ustat)
    <3>1. s = [sie EXCEPT !.urstif = FALSE, !.idleif = FALSE, !.actvif = FALSE,
                          !.stallif = FALSE, !.ustat = q]
      BY <2>1 DEF Types, IsSie
    <3>2. q \in Seq(Queue)
      BY SeqFacts DEF Types, IsSie
    <3> HIDE DEF s, q
    <3>6. IsSie(sie)
      BY DEF Types
    <3>3. IsSie(s)
      BY <3>1, <3>2, <3>6, ZenonT(30) DEF IsSie
    <3>5. s.ustat = q /\ s.out = sie.out /\ s.in = sie.in /\ s.addr = sie.addr
      BY <3>1, <3>2 DEF Types, IsSie
    <3>4. /\ (s.pktdis <=> sie.pktdis) /\ (s.on <=> sie.on) /\ (s.suspnd <=> sie.suspnd)
          /\ ~s.urstif /\ ~s.idleif /\ ~s.actvif
      BY <3>1 DEF Types, IsSie
    <3> QED
      BY <2>1, <3>3, <3>4, <3>5 DEF q
  <2>2. CASE ~powered
    BY <2>2 DEF Types
  <2> QED
    BY <2>1, <2>2
<1>4. Len(s.ustat) <= 4
  BY <1>3, SeqFacts DEF Types, IsSie, RestOK
<1> HIDE DEF f, s, powered
<1>5. /\ IsFw(fw') /\ SameTransfer(fw, fw') /\ SameFlags(fw, fw') /\ SamePointers(fw, fw')
      /\ fw'.USBDeviceState = f.USBDeviceState
      /\ fw'.ACTVIE <=> f.ACTVIE /\ ~wake
  <2>1. CASE wake
    <3>1. fw' = [f EXCEPT !.ACTVIE = FALSE]
      BY <1>1, <2>1
    <3>2. IsFw(fw') /\ fw'.USBDeviceState = f.USBDeviceState /\ ~fw'.ACTVIE
      BY <1>2, <3>1 DEF IsFw
    <3>3. SameTransfer(f, fw') /\ SameFlags(f, fw') /\ SamePointers(f, fw')
      BY <1>2, <3>1 DEF IsFw, SameTransfer, SameFlags, SamePointers
    <3> QED
      BY <1>2, <2>1, <3>2, <3>3 DEF SameTransfer, SameFlags, SamePointers
  <2>2. CASE ~wake
    BY <1>1, <1>2, <2>2
  <2> QED
    BY <2>1, <2>2
<1>6. /\ IsSie(sie') /\ sie'.out = s.out /\ sie'.in = s.in /\ sie'.addr = s.addr
      /\ (sie'.pktdis <=> s.pktdis) /\ (sie'.on <=> s.on) /\ (sie'.urstif <=> s.urstif)
      /\ (sie'.idleif <=> s.idleif) /\ sie'.ustat = s.ustat
      /\ (sie'.suspnd <=> s.suspnd /\ ~wake) /\ (sie'.actvif <=> s.actvif /\ ~wake)
  <2>1. CASE wake
    <3>1. sie' = [s EXCEPT !.suspnd = FALSE, !.actvif = FALSE]
      BY <1>1, <2>1
    <3>4. IsSie(sie')
      BY <1>3, <3>1 DEF IsSie
    <3>2. /\ sie'.out = s.out /\ sie'.in = s.in /\ sie'.addr = s.addr
          /\ sie'.ustat = s.ustat /\ ~sie'.suspnd /\ ~sie'.actvif
      BY <1>3, <3>1 DEF IsSie
    <3>3. /\ (sie'.pktdis <=> s.pktdis) /\ (sie'.on <=> s.on) /\ (sie'.urstif <=> s.urstif)
          /\ (sie'.idleif <=> s.idleif)
      BY <1>3, <3>1 DEF IsSie
    <3> QED
      BY <2>1, <3>2, <3>3, <3>4
  <2>2. CASE ~wake
    BY <1>1, <1>3, <2>2 DEF IsSie
  <2> QED
    BY <2>1, <2>2
<1>7. RestOK'
  BY <1>1, <1>4, <1>6 DEF TasksEnter, Types, RestOK
<1>8. IsHost(host') /\ IsApp(app')
  BY DEF TasksEnter, Types
<1> QED
  BY <1>1, <1>2, <1>3, <1>5, <1>6, <1>7, <1>8 DEF Types, powered

LEMMA BusWays ==
  ASSUME TasksBus
  PROVE  /\ pc = "bus" /\ pc' = "sof" /\ UNCHANGED <<ram, host, faults, loop, handover>>
         /\ \/ sie.urstif /\ Reset
            \/ ~sie.urstif /\ sie.idleif /\ USBSuspend
            \/ ~sie.urstif /\ ~sie.idleif /\ UNCHANGED <<bdOut, bdIn, sie, fw, app>>
<1>1. CASE sie.urstif
  BY <1>1 DEF TasksBus
<1>2. CASE ~sie.urstif /\ sie.idleif
  BY <1>2 DEF TasksBus
<1>3. CASE ~sie.urstif /\ ~sie.idleif
  BY <1>3 DEF TasksBus
<1> QED
  BY <1>1, <1>2, <1>3

LEMMA ResetEffect ==
  ASSUME Types, Reset, pc' = "sof", UNCHANGED <<ram, host, faults, loop, handover>>
  PROVE  /\ Types' /\ Initialised /\ SameTransfer(fw, fw')
         /\ fw'.pBDTEntryIn = 0 /\ fw'.Current = fw.Current /\ fw'.Next = fw.Next
         /\ fw'.USBDeviceState = "DEFAULT_STATE" /\ ~fw'.ACTVIE /\ fw'.flag1 /\ fw'.flag2
         /\ sie'.out = 0 /\ sie'.in = 0 /\ ~sie'.pktdis /\ sie'.addr = 0 /\ sie'.ustat = <<>>
         /\ ~sie'.urstif /\ ~sie'.idleif /\ ~sie'.actvif /\ (sie'.suspnd <=> sie.suspnd)
         /\ (sie'.on <=> sie.on) /\ app'.cfg = 0
<1>1. Initialised /\ sie' = InitSie(sie) /\ app' = [app EXCEPT !.cfg = 0]
  BY DEF Reset, Initialised
<1>2. /\ IsSie(sie') /\ sie'.out = 0 /\ sie'.in = 0 /\ ~sie'.pktdis /\ sie'.addr = 0
      /\ sie'.ustat = <<>> /\ ~sie'.urstif /\ ~sie'.idleif /\ ~sie'.actvif
      /\ (sie'.suspnd <=> sie.suspnd) /\ (sie'.on <=> sie.on)
  BY <1>1, InitSieEffect DEF Types
<1>3. /\ IsFw(fw') /\ SameTransfer(fw, fw')
      /\ fw'.pBDTEntryIn = 0 /\ fw'.Current = fw.Current /\ fw'.Next = fw.Next
      /\ fw'.USBDeviceState = "DEFAULT_STATE" /\ ~fw'.ACTVIE /\ fw'.flag1 /\ fw'.flag2
  BY InitGlobalsEffect DEF Reset, Types, States
<1>4. RestOK'
  BY <1>1, <1>2, InitialisedEffect DEF Types, RestOK
<1>5. IsApp(app') /\ app'.cfg = 0
  BY <1>1 DEF Types, IsApp
<1>6. IsHost(host')
  BY DEF Types
<1> QED
  BY <1>1, <1>2, <1>3, <1>4, <1>5, <1>6 DEF Types

LEMMA SuspendEffect ==
  ASSUME Types, USBSuspend, pc' = "sof", UNCHANGED <<ram, host, faults, loop, handover>>
  PROVE  /\ Types' /\ UNCHANGED <<bdOut, bdIn, app>>
         /\ SameTransfer(fw, fw') /\ SameFlags(fw, fw') /\ SamePointers(fw, fw')
         /\ fw'.USBDeviceState = fw.USBDeviceState /\ (fw'.inBusy <=> fw.inBusy) /\ fw'.ACTVIE
         /\ SameQueue /\ sie'.addr = sie.addr /\ (sie'.pktdis <=> sie.pktdis)
         /\ (sie'.urstif <=> sie.urstif) /\ (sie'.actvif <=> sie.actvif)
         /\ (sie'.on <=> sie.on) /\ ~sie'.idleif /\ sie'.suspnd
<1>1. /\ IsSie(sie') /\ SameQueue /\ sie'.addr = sie.addr /\ (sie'.pktdis <=> sie.pktdis)
      /\ (sie'.urstif <=> sie.urstif) /\ (sie'.actvif <=> sie.actvif)
      /\ (sie'.on <=> sie.on) /\ ~sie'.idleif /\ sie'.suspnd
  BY DEF USBSuspend, Types, IsSie, SameQueue
<1>2. /\ IsFw(fw') /\ SameTransfer(fw, fw') /\ SameFlags(fw, fw') /\ SamePointers(fw, fw')
      /\ fw'.USBDeviceState = fw.USBDeviceState /\ (fw'.inBusy <=> fw.inBusy) /\ fw'.ACTVIE
  BY DEF USBSuspend, Types, IsFw, SameTransfer, SameFlags, SamePointers
<1>3. RestOK'
  BY <1>1 DEF USBSuspend, Types, RestOK, SameQueue
<1>4. IsApp(app') /\ IsHost(host') /\ UNCHANGED <<bdOut, bdIn, app>>
  BY DEF USBSuspend, Types
<1> QED
  BY <1>1, <1>2, <1>3, <1>4 DEF Types

LEMMA NothingEffect ==
  ASSUME Types, UNCHANGED <<sie, fw>>
  PROVE  SameSie /\ SameFw /\ IsFw(fw') /\ IsSie(sie')
BY DEF Types, SameSie, SameQueue, SameFw, SameTransfer, SameFlags, SamePointers, SameDevice

LEMMA Gives ==
  /\ <<>> \in Seq(Entry)
  /\ \A b \in OutBDs, x \in BDType : Give("out", b, x) \in Seq(Entry)
  /\ \A b \in InBDs, x \in BDType : Give("in", b, x) \in Seq(Entry)
  /\ \A s, t \in Seq(Entry) : s \o t \in Seq(Entry)
<1>1. \A x \in Entry : <<x>> \in Seq(Entry)
  OBVIOUS
<1>2. \A b \in OutBDs, x \in BDType : [dir |-> "out", b |-> b, bd |-> x] \in Entry
  BY DEF Entry
<1>3. \A b \in InBDs, x \in BDType : [dir |-> "in", b |-> b, bd |-> x] \in Entry
  BY DEF Entry
<1>4. <<>> \in Seq(Entry)
  OBVIOUS
<1> QED
  BY <1>1, <1>2, <1>3, <1>4, ConcatProperties DEF Give

\* A millisecond: outside the data stage of a control read nothing but the
\* acknowledgement of a control write can come of it.
LEMMA SofEffect ==
  ASSUME Types, Tx => fw.flag2, TasksSof
  PROVE  /\ Types' /\ UNCHANGED <<busVars, app, loop>> /\ pc' = "stall"
         /\ SameTransfer(fw, fw') /\ SamePointers(fw, fw') /\ SameDevice(fw, fw')
         /\ (fw'.inBusy <=> fw.inBusy)
         /\ \/ handover' = handover /\ (fw.flag2 => fw'.flag2) /\ (fw.flag1 => fw'.flag1)
               /\ (Rx /\ ~fw'.flag1 /\ ~fw'.flag2 => ~fw.flag1 /\ ~fw.flag2)
            \/ handover' = <<>> /\ fw'.flag1 /\ (fw.flag2 => fw'.flag2)
            \/ /\ Rx /\ ~fw.flag1 /\ ~fw.flag2 /\ fw'.flag1
               /\ handover' = Give("in", fw.pBDTEntryIn, DataBD(1, 0))
<1> DEFINE t == IF fw.timeout > 0 THEN fw.timeout - 1 ELSE 0
           g == [fw EXCEPT !.timeout = t]
           done == AllowStatusStage(g)
<1>1. t \in 0 .. StatusTimeout
  BY Constants DEF Types, IsFw
<1>2. /\ IsFw(g) /\ SameTransfer(fw, g) /\ SameFlags(fw, g) /\ SamePointers(fw, g)
      /\ SameDevice(fw, g) /\ SameBusy(fw, g)
  BY <1>1 DEF Types, IsFw, SameTransfer, SameFlags, SamePointers, SameDevice, SameBusy
<1>3. /\ UNCHANGED <<busVars, app, loop>> /\ pc' = "stall" /\ ~fw.flag1
      /\ IF t = 0 THEN fw' = done.f /\ handover' = done.give
                  ELSE fw' = g /\ UNCHANGED handover
  BY DEF TasksSof, SofTick, SofMatters
<1> HIDE DEF t, g
<1>4. CASE t # 0
  <2>1. fw' = g /\ handover' = handover
    BY <1>3, <1>4
  <2>2. RestOK' /\ IsSie(sie') /\ IsHost(host') /\ IsApp(app')
    BY <1>3, <2>1 DEF Types, RestOK, busVars
  <2> QED
    BY <1>2, <1>3, <2>1, <2>2 DEF Types, SameFlags, SameBusy
<1>5. CASE t = 0 /\ g.flag2
  <2>1. /\ fw' = done.f /\ handover' = <<>>
    BY <1>2, <1>3, <1>5, AllowStatusStageGives
  <2>2. fw' = [g EXCEPT !.flag1 = TRUE]
    BY <1>5, <2>1 DEF AllowStatusStage
  <2>3. /\ IsFw(fw') /\ SameTransfer(fw, fw') /\ SamePointers(fw, fw') /\ SameDevice(fw, fw')
        /\ (fw'.inBusy <=> fw.inBusy) /\ fw'.flag1 /\ fw'.flag2
    BY <1>2, <1>5, <2>2 DEF IsFw, SameTransfer, SamePointers, SameDevice, SameBusy
  <2>4. <<>> \in Seq(Entry)
    OBVIOUS
  <2>5. RestOK' /\ IsSie(sie') /\ IsHost(host') /\ IsApp(app')
    BY <1>3, <2>1, <2>4 DEF Types, RestOK, busVars
  <2> QED
    BY <1>3, <2>1, <2>3, <2>5 DEF Types
<1>6. CASE t = 0 /\ ~g.flag2
  <2>1. ~Tx /\ ~g.flag1 /\ g.controlTransferState = fw.controlTransferState /\ ~fw.flag2
    BY <1>2, <1>3, <1>6 DEF SameFlags, SameTransfer, Tx
  <2>2. /\ fw' = done.f
        /\ handover' = IF Rx THEN Give("in", fw.pBDTEntryIn, DataBD(1, 0)) ELSE <<>>
    BY <1>2, <1>3, <1>6, <2>1, AllowStatusStageGives DEF Rx, Tx, IsFw, SamePointers
  <2>3. /\ IsFw(fw') /\ SamePointers(g, fw') /\ SameDevice(g, fw') /\ SameBusy(g, fw')
        /\ fw'.controlTransferState = g.controlTransferState
        /\ fw'.BothEP0OutUOWNsSet <=> g.BothEP0OutUOWNsSet
        /\ fw'.flag1
    BY <1>2, <2>1, <2>2, AllowStatusStageEffect DEF Tx
  <2>4. handover' \in Seq(Entry)
    <3>1. DataBD(1, 0) \in BDType /\ fw.pBDTEntryIn \in InBDs
      BY Descriptors DEF Types, IsFw
    <3> QED
      BY <2>2, <3>1, Gives
  <2>5. RestOK' /\ IsSie(sie') /\ IsHost(host') /\ IsApp(app')
    BY <1>3, <2>4 DEF Types, RestOK, busVars
  <2>6. SameTransfer(fw, fw') /\ SamePointers(fw, fw') /\ SameDevice(fw, fw') /\ (fw'.inBusy <=> fw.inBusy)
    BY <1>2, <2>3 DEF SameTransfer, SamePointers, SameDevice, SameBusy
  <2> QED
    BY <1>3, <1>6, <2>1, <2>2, <2>3, <2>5, <2>6 DEF Types
<1> QED
  BY <1>4, <1>5, <1>6

LEMMA NoSofEffect ==
  ASSUME Types, TasksNoSof
  PROVE  Types' /\ UNCHANGED <<busVars, app, loop, fw, handover>> /\ pc' = "stall"
BY DEF TasksNoSof, Types, RestOK, busVars

LEMMA StallEffect ==
  ASSUME Types, OpenNext, TasksStall
  PROVE  /\ Types' /\ UNCHANGED <<bdOut, bdIn, ram, host, faults, fw, app>> /\ SameSie
         /\ handover = <<>> /\ handover' = <<>>
         /\ pc' = IF Below(fw.USBDeviceState) THEN "main" ELSE "trn"
<1>1. ~sie.stallif => sie' = sie /\ handover' = handover
  BY DEF TasksStall
<1>2. sie.stallif => /\ sie' = [sie EXCEPT !.epstall = FALSE, !.stallif = FALSE]
                     /\ handover' = <<>>
  BY DEF TasksStall, USBStallHandler, OpenNext, Types, IsFw
<1>3. IsSie(sie') /\ SameSie
  <2>1. CASE ~sie.stallif
    BY <1>1, <2>1 DEF Types, SameSie, SameQueue
  <2>2. CASE sie.stallif
    <3>1. sie' = [sie EXCEPT !.epstall = FALSE, !.stallif = FALSE]
      BY <1>2, <2>2
    <3>6. IsSie(sie)
      BY DEF Types
    <3>2. IsSie(sie')
      BY <3>1, <3>6 DEF IsSie
    <3>4. SameQueue /\ sie'.addr = sie.addr /\ (sie'.pktdis <=> sie.pktdis)
      BY <3>1 DEF Types, IsSie, SameQueue
    <3>5. /\ (sie'.urstif <=> sie.urstif) /\ (sie'.idleif <=> sie.idleif)
          /\ (sie'.actvif <=> sie.actvif) /\ (sie'.suspnd <=> sie.suspnd) /\ (sie'.on <=> sie.on)
      BY <3>1 DEF Types, IsSie
    <3> QED
      BY <3>2, <3>4, <3>5 DEF SameSie
  <2> QED
    BY <2>1, <2>2
<1>4. /\ handover = <<>> /\ handover' = <<>> /\ loop' = 0
      /\ pc' = IF Below(fw.USBDeviceState) THEN "main" ELSE "trn"
      /\ UNCHANGED <<bdOut, bdIn, ram, host, faults, fw, app>>
  BY <1>1, <1>2 DEF TasksStall
<1>5. IsFw(fw') /\ IsHost(host') /\ IsApp(app')
  BY <1>4 DEF Types
<1>6. RestOK'
  BY <1>3, <1>4 DEF Types, RestOK, SameSie, SameQueue
<1> QED
  BY <1>3, <1>4, <1>5, <1>6 DEF Types

LEMMA LeaveEffect ==
  ASSUME Types, TasksLeave
  PROVE  Types' /\ UNCHANGED <<busVars, app, fw, handover>> /\ pc' = "main" /\ pc = "trn"
BY DEF TasksLeave, Types, RestOK, busVars

LEMMA HandoverFacts ==
  ASSUME NEW h \in Seq(Entry), h # <<>>
  PROVE  /\ Head(h) = h[1] /\ h[1] \in Entry /\ Tail(h) \in Seq(Entry)
         /\ Len(Tail(h)) = Len(h) - 1 /\ \A k \in 1 .. Len(h) - 1 : Tail(h)[k] = h[k + 1]
         /\ Len(h) \in Nat /\ Len(h) > 0
OBVIOUS

LEMMA HandOverEffect ==
  ASSUME Types, HandOver
  PROVE  /\ Types' /\ UNCHANGED <<sie, ram, host, faults, fw, app, pc, loop>>
         /\ handover # <<>> /\ handover' = Tail(handover)
         /\ LET w == handover[1] IN
            \/ /\ w.dir = "out" /\ bdIn' = bdIn /\ bdOut'[w.b] = w.bd /\ w.b \in OutBDs
               /\ \A b \in OutBDs : b # w.b => bdOut'[b] = bdOut[b]
            \/ /\ w.dir = "in" /\ bdOut' = bdOut /\ bdIn'[w.b] = w.bd /\ w.b \in InBDs
               /\ \A b \in InBDs : b # w.b => bdIn'[b] = bdIn[b]
<1>1. /\ handover # <<>> /\ handover' = Tail(handover)
      /\ UNCHANGED <<sie, ram, host, faults, fw, app, pc, loop>>
      /\ LET w == Head(handover) IN
           IF w.dir = "out" THEN bdOut' = [bdOut EXCEPT ![w.b] = w.bd] /\ UNCHANGED bdIn
                            ELSE bdIn' = [bdIn EXCEPT ![w.b] = w.bd] /\ UNCHANGED bdOut
  BY DEF HandOver
<1>2. /\ Head(handover) = handover[1] /\ handover[1] \in Entry /\ handover' \in Seq(Entry)
  BY <1>1, HandoverFacts DEF Types, RestOK
<1> DEFINE w == handover[1]
<1>3. \/ w.dir = "out" /\ w.b \in OutBDs /\ w.bd \in BDType
      \/ w.dir = "in" /\ w.b \in InBDs /\ w.bd \in BDType
  BY <1>2 DEF Entry
<1> HIDE DEF w
<1>4. IF w.dir = "out" THEN bdOut' = [bdOut EXCEPT ![w.b] = w.bd] /\ bdIn' = bdIn
                       ELSE bdIn' = [bdIn EXCEPT ![w.b] = w.bd] /\ bdOut' = bdOut
  BY <1>1, <1>2 DEF w
<1>5. /\ bdOut' \in [OutBDs -> BDType] /\ bdIn' \in [InBDs -> BDType]
      /\ \/ /\ w.dir = "out" /\ bdIn' = bdIn /\ bdOut'[w.b] = w.bd /\ w.b \in OutBDs
            /\ \A b \in OutBDs : b # w.b => bdOut'[b] = bdOut[b]
         \/ /\ w.dir = "in" /\ bdOut' = bdOut /\ bdIn'[w.b] = w.bd /\ w.b \in InBDs
            /\ \A b \in InBDs : b # w.b => bdIn'[b] = bdIn[b]
  BY <1>3, <1>4 DEF Types, RestOK
<1>6. RestOK'
  BY <1>1, <1>2, <1>5 DEF Types, RestOK
<1>7. IsFw(fw') /\ IsSie(sie') /\ IsHost(host') /\ IsApp(app')
  BY <1>1 DEF Types
<1> QED
  BY <1>1, <1>5, <1>6, <1>7 DEF Types, w

LEMMA CheckRequestEffect ==
  ASSUME NEW f, IsFw(f), NEW r \in Requests
  PROVE  LET g == CheckState(CheckRequest(f, r), r) IN
         /\ IsFw(g) /\ SamePointers(f, g) /\ SameFlags(f, g) /\ SameTransfer(f, g)
         /\ (g.ACTVIE <=> f.ACTVIE)
         /\ g.USBDeviceState = IF r.name = "SET_ADDRESS" THEN "ADR_PENDING_STATE"
                                                         ELSE f.USBDeviceState
         /\ r.name = "SET_ADDRESS" => g.inBusy
<1> DEFINE g == CheckRequest(f, r)
<1>1. /\ IsFw(g) /\ SamePointers(f, g) /\ SameFlags(f, g) /\ SameTransfer(f, g)
      /\ SameDevice(f, g) /\ (r.name = "SET_ADDRESS" => g.inBusy)
  <2>1. CASE r.name \in {"SET_ADDRESS", "SET_INTERFACE", "SET_FEATURE", "CLEAR_FEATURE",
                         "SET_CONTROL_LINE_STATE"}
    <3>1. g = Accept(f)
      BY <2>1 DEF CheckRequest, IsRead, Reads
    <3> QED
      BY <3>1, AcceptEffect
  <2>2. CASE r.name = "SEND_ENCAPSULATED_COMMAND"
    <3>1. g = Send(f, Nothing, 8)
      BY <2>2 DEF CheckRequest, IsRead, Reads
    <3> QED
      BY <2>2, <3>1, SendEffect
  <2>3. CASE r.name = "SET_LINE_CODING"
    <3>1. g = [f EXCEPT !.outBusy = TRUE, !.outCount = r.len]
      BY <2>3 DEF CheckRequest, IsRead, Reads
    <3>2. r.len \in Nat
      BY RequestTypes
    <3>3. IsFw(g) /\ SamePointers(f, g) /\ SameFlags(f, g)
      BY <3>1, <3>2 DEF IsFw, SamePointers, SameFlags
    <3>4. SameTransfer(f, g) /\ SameDevice(f, g)
      BY <3>1, <3>2 DEF IsFw, SameTransfer, SameDevice
    <3> QED
      BY <2>3, <3>3, <3>4
  <2>4. CASE ~(r.name \in {"SET_ADDRESS", "SET_INTERFACE", "SET_FEATURE", "CLEAR_FEATURE",
                           "SET_CONTROL_LINE_STATE", "SEND_ENCAPSULATED_COMMAND", "SET_LINE_CODING"})
    <3>1. CASE IsRead(r) /\ Claimed(r)
      <4>1. g = Send(f, Source(r, app), SourceLength(r))
        BY <2>4, <3>1 DEF CheckRequest
      <4>2. SourceLength(r) \in Nat
        BY <3>1, ControlAssumption DEF SourceLength, Claimed
      <4> QED
        BY <2>4, <4>1, <4>2, SendEffect
    <3>2. CASE ~(IsRead(r) /\ Claimed(r))
      <4>1. g = f
        BY <2>4, <3>2 DEF CheckRequest
      <4> QED
        BY <2>4, <4>1 DEF SamePointers, SameFlags, SameTransfer, SameDevice
    <3> QED
      BY <3>1, <3>2
  <2> QED
    BY <2>1, <2>2, <2>3, <2>4
<1> HIDE DEF g
<1>2. CASE r.name = "SET_ADDRESS"
  <2>1. CheckState(g, r) = [g EXCEPT !.USBDeviceState = "ADR_PENDING_STATE"]
    BY <1>2 DEF CheckState
  <2> QED
    BY <1>1, <1>2, <2>1 DEF g, IsFw, SamePointers, SameFlags, SameTransfer, SameDevice, States
<1>3. CASE r.name # "SET_ADDRESS"
  BY <1>1, <1>3 DEF g, CheckState, SameDevice
<1> QED
  BY <1>2, <1>3

\* The transaction at the head of the FIFO.
SameSignals(s, t) ==
  /\ (t.urstif <=> s.urstif) /\ (t.idleif <=> s.idleif) /\ (t.actvif <=> s.actvif)
  /\ (t.suspnd <=> s.suspnd) /\ (t.on <=> s.on)
SameEnds(s, t) == t.out = s.out /\ t.in = s.in

LEMMA TransactionFacts ==
  ASSUME Types, NEW d \in {"out", "in"}, Transaction(d)
  PROVE  /\ pc = "trn" /\ handover = <<>> /\ loop' \in 0 .. 4 /\ sie.ustat # <<>>
         /\ Head(sie.ustat) = sie.ustat[1] /\ sie.ustat[1].dir = d /\ 1 \in DOMAIN sie.ustat
         /\ d = "out" => sie.ustat[1].bd \in OutBDs
         /\ IsSie(Popped) /\ Popped.ustat = Tail(sie.ustat) /\ Len(Tail(sie.ustat)) <= 4
         /\ SameEnds(sie, Popped) /\ Popped.addr = sie.addr /\ (Popped.pktdis <=> sie.pktdis)
         /\ SameSignals(sie, Popped)
<1>1. /\ pc = "trn" /\ handover = <<>> /\ loop < 4 /\ loop' = loop + 1
      /\ sie.ustat # <<>> /\ Head(sie.ustat).dir = d
  BY DEF Transaction
<1>2. sie.ustat \in Seq(Queue)
  BY DEF Types, IsSie
<1>3. Head(sie.ustat) = sie.ustat[1] /\ sie.ustat[1] \in Queue /\ 1 \in DOMAIN sie.ustat
  BY <1>1, <1>2
<1>4. Tail(sie.ustat) \in Seq(Queue) /\ Len(Tail(sie.ustat)) <= 4
  BY <1>1, <1>2, SeqFacts DEF Types, RestOK
<1>5. d = "out" => sie.ustat[1].bd \in OutBDs
  BY <1>1, <1>3 DEF Queue
<1>6. /\ IsSie(Popped) /\ Popped.ustat = Tail(sie.ustat) /\ SameEnds(sie, Popped)
      /\ Popped.addr = sie.addr
  BY <1>4 DEF Types, IsSie, Popped, SameEnds
<1>7. (Popped.pktdis <=> sie.pktdis) /\ SameSignals(sie, Popped)
  BY DEF Types, IsSie, Popped, SameSignals
<1>8. loop' \in 0 .. 4
  BY <1>1 DEF Types, RestOK
<1> QED
  BY <1>1, <1>3, <1>4, <1>5, <1>6, <1>7, <1>8

SetupKnown == \A k \in DOMAIN sie.ustat : IsSetup(k) => Waiting(k) \in Requests

\* Popped with one more field set.
LEMMA PktdisEffect ==
  ASSUME IsSie(Popped), Popped.ustat = Tail(sie.ustat), SameEnds(sie, Popped),
         Popped.addr = sie.addr, SameSignals(sie, Popped), NEW v \in BOOLEAN,
         sie' = [Popped EXCEPT !.pktdis = v]
  PROVE  /\ IsSie(sie') /\ sie'.ustat = Tail(sie.ustat) /\ SameEnds(sie, sie')
         /\ sie'.addr = sie.addr /\ (sie'.pktdis <=> v) /\ SameSignals(sie, sie')
<1>1. /\ IsSie(sie') /\ sie'.ustat = Tail(sie.ustat) /\ SameEnds(sie, sie')
      /\ sie'.addr = sie.addr /\ (sie'.pktdis <=> v)
  BY DEF IsSie, SameEnds
<1>2. SameSignals(sie, sie')
  BY DEF IsSie, SameSignals
<1> QED
  BY <1>1, <1>2

LEMMA SetupEffect ==
  ASSUME Types, SetupKnown, CtrlTrfSetup
  PROVE  LET b == sie.ustat[1].bd
             r == Waiting(1) IN
         /\ Types' /\ pc = "trn" /\ pc' = "arm" /\ handover = <<>> /\ handover' = <<>>
         /\ sie.ustat # <<>> /\ IsSetup(1) /\ b \in OutBDs /\ r \in Requests
         /\ r.name # "SET_CONFIGURATION"
         /\ ram'.SetupPkt.of = r /\ host' = host /\ app'.cfg = app.cfg
         /\ \A c \in OutBDs : ~bdOut'[c].own /\ bdOut'[c].pid = "none"
         /\ \A c \in InBDs : ~bdIn'[c].own
         /\ fw'.controlTransferState = "WAIT_SETUP" /\ ~fw'.BothEP0OutUOWNsSet
         /\ SameFlags(fw, fw') /\ (fw'.ACTVIE <=> fw.ACTVIE)
         /\ fw'.pBDTEntryIn = fw.pBDTEntryIn /\ fw'.Current = b /\ fw'.Next = OtherOut(b)
         /\ fw'.USBDeviceState = IF r.name = "SET_ADDRESS" THEN "ADR_PENDING_STATE"
                                                           ELSE fw.USBDeviceState
         /\ r.name = "SET_ADDRESS" => fw'.inBusy
         /\ sie'.ustat = Tail(sie.ustat) /\ SameEnds(sie, sie') /\ sie'.addr = sie.addr
         /\ ~sie'.pktdis /\ SameSignals(sie, sie')
<1> DEFINE b == sie.ustat[1].bd
           r == Waiting(1)
           t == Turn(fw, b)
           f == Abandon(t)
<1>1. /\ pc = "trn" /\ handover = <<>> /\ loop' \in 0 .. 4 /\ sie.ustat # <<>>
      /\ Head(sie.ustat) = sie.ustat[1] /\ sie.ustat[1].dir = "out" /\ 1 \in DOMAIN sie.ustat
      /\ b \in OutBDs
      /\ IsSie(Popped) /\ Popped.ustat = Tail(sie.ustat) /\ Len(Tail(sie.ustat)) <= 4
      /\ SameEnds(sie, Popped) /\ Popped.addr = sie.addr /\ SameSignals(sie, Popped)
  BY TransactionFacts DEF CtrlTrfSetup
<1>2. /\ IsSie(sie') /\ sie'.ustat = Tail(sie.ustat) /\ SameEnds(sie, sie')
      /\ sie'.addr = sie.addr /\ ~sie'.pktdis /\ SameSignals(sie, sie')
  <2>1. sie' = [Popped EXCEPT !.pktdis = FALSE]
    BY DEF CtrlTrfSetup
  <2> QED
    BY <1>1, <2>1, PktdisEffect
<1>3. /\ bdOut[b].pid = "SETUP" /\ r.name # "SET_CONFIGURATION"
      /\ ram' = [SetupPkt |-> ram[bdOut[b].adr], CtrlTrfData |-> Empty]
      /\ bdIn' = Disarmed(bdIn, InBDs)
      /\ bdOut' = Disarmed(bdOut, {f.Current, f.Next})
      /\ fw' = CheckState(CheckRequest(f, r), r)
      /\ app' = CheckApp(app, r)
      /\ pc' = "arm" /\ UNCHANGED <<host, faults, handover>>
  BY <1>1 DEF CtrlTrfSetup, SetupPacket, Waiting
<1>5. IsSetup(1) /\ r \in Requests
  BY <1>1, <1>3 DEF IsSetup, SetupKnown
<1>6. /\ IsFw(t) /\ SameFlags(fw, t) /\ SameDevice(fw, t)
      /\ t.pBDTEntryIn = fw.pBDTEntryIn /\ t.Current = b /\ t.Next = OtherOut(b)
  BY <1>1, TurnEffect DEF Types
<1> HIDE DEF t
<1>7. /\ IsFw(f) /\ SamePointers(t, f) /\ SameFlags(t, f) /\ SameDevice(t, f)
      /\ f.controlTransferState = "WAIT_SETUP" /\ ~f.BothEP0OutUOWNsSet
  BY <1>6, AbandonEffect
<1> HIDE DEF f
<1>8. /\ IsFw(fw') /\ SamePointers(f, fw') /\ SameFlags(f, fw') /\ SameTransfer(f, fw')
      /\ (fw'.ACTVIE <=> f.ACTVIE)
      /\ fw'.USBDeviceState = IF r.name = "SET_ADDRESS" THEN "ADR_PENDING_STATE"
                                                        ELSE f.USBDeviceState
      /\ r.name = "SET_ADDRESS" => fw'.inBusy
  <2> HIDE DEF r
  <2>1. LET g == CheckState(CheckRequest(f, r), r) IN
         /\ IsFw(g) /\ SamePointers(f, g) /\ SameFlags(f, g) /\ SameTransfer(f, g)
         /\ (g.ACTVIE <=> f.ACTVIE)
         /\ g.USBDeviceState = IF r.name = "SET_ADDRESS" THEN "ADR_PENDING_STATE"
                                                         ELSE f.USBDeviceState
         /\ r.name = "SET_ADDRESS" => g.inBusy
    BY <1>5, <1>7, CheckRequestEffect
  <2> QED
    BY <1>3, <2>1
<1>9. /\ bdOut' \in [OutBDs -> BDType] /\ bdIn' \in [InBDs -> BDType]
      /\ \A c \in OutBDs : ~bdOut'[c].own /\ bdOut'[c].pid = "none"
      /\ \A c \in InBDs : ~bdIn'[c].own
  <2>1. {f.Current, f.Next} = OutBDs
    BY <1>1, <1>6, <1>7 DEF SamePointers, OutBDs, OtherOut
  <2>2. bdOut' = [c \in OutBDs |-> ClearBD] /\ bdIn' = [c \in InBDs |-> ClearBD]
    BY <1>3, <2>1 DEF Disarmed, Types, RestOK
  <2> QED
    BY <2>2, Descriptors DEF ClearBD, BD
<1>10. ram'.SetupPkt.of = r /\ ram' = [a \in Buffers |-> ram'[a]]
  BY <1>3, Constants DEF Waiting
<1>11. IsApp(app') /\ app'.cfg = app.cfg
  BY <1>3 DEF CheckApp, Types, IsApp
<1>12. RestOK'
  BY <1>1, <1>2, <1>3, <1>9, <1>10, Gives DEF RestOK
<1>13. Types'
  BY <1>2, <1>3, <1>8, <1>11, <1>12 DEF Types
<1>14. /\ fw'.controlTransferState = "WAIT_SETUP" /\ ~fw'.BothEP0OutUOWNsSet
       /\ SameFlags(fw, fw') /\ (fw'.ACTVIE <=> fw.ACTVIE)
       /\ fw'.pBDTEntryIn = fw.pBDTEntryIn /\ fw'.Current = b /\ fw'.Next = OtherOut(b)
       /\ fw'.USBDeviceState = IF r.name = "SET_ADDRESS" THEN "ADR_PENDING_STATE"
                                                         ELSE fw.USBDeviceState
  BY <1>6, <1>7, <1>8 DEF SamePointers, SameFlags, SameTransfer, SameDevice
<1> QED
  BY <1>1, <1>2, <1>3, <1>5, <1>8, <1>9, <1>10, <1>11, <1>13, <1>14

LEMMA StdSetCfgEffect ==
  ASSUME Types, SetupKnown, StdSetCfg
  PROVE  LET b == sie.ustat[1].bd
             r == Waiting(1) IN
         /\ Types' /\ pc = "trn" /\ pc' = "arm" /\ handover = <<>> /\ handover' = <<>>
         /\ sie.ustat # <<>> /\ IsSetup(1) /\ b \in OutBDs /\ r \in Requests
         /\ r.name = "SET_CONFIGURATION"
         /\ ram'.SetupPkt.of = r /\ host' = host /\ app'.cfg = r.arg
         /\ \A c \in OutBDs : ~bdOut'[c].own /\ bdOut'[c].pid = "none"
         /\ \A c \in InBDs : ~bdIn'[c].own
         /\ fw'.controlTransferState = "WAIT_SETUP" /\ ~fw'.BothEP0OutUOWNsSet
         /\ SameFlags(fw, fw') /\ (fw'.ACTVIE <=> fw.ACTVIE)
         /\ fw'.pBDTEntryIn = 0 /\ fw'.Current = 0 /\ fw'.Next = 0
         /\ fw'.USBDeviceState = IF r.arg = 0 THEN "ADDRESS_STATE" ELSE "CONFIGURED_STATE"
         /\ sie'.ustat = Tail(sie.ustat) /\ sie'.out = 0 /\ sie'.in = 0 /\ sie'.addr = sie.addr
         /\ ~sie'.pktdis /\ SameSignals(sie, sie')
<1> DEFINE b == sie.ustat[1].bd
           r == Waiting(1)
           t == Turn(fw, b)
           u == Abandon(t)
           f == Accept(u)
<1>1. /\ pc = "trn" /\ handover = <<>> /\ loop' \in 0 .. 4 /\ sie.ustat # <<>>
      /\ Head(sie.ustat) = sie.ustat[1] /\ sie.ustat[1].dir = "out" /\ 1 \in DOMAIN sie.ustat
      /\ b \in OutBDs
      /\ IsSie(Popped) /\ Popped.ustat = Tail(sie.ustat) /\ Len(Tail(sie.ustat)) <= 4
      /\ Popped.addr = sie.addr /\ SameSignals(sie, Popped)
  BY TransactionFacts DEF StdSetCfg
<1>2. /\ IsSie(sie') /\ sie'.ustat = Tail(sie.ustat) /\ sie'.out = 0 /\ sie'.in = 0
      /\ sie'.addr = sie.addr /\ ~sie'.pktdis /\ SameSignals(sie, sie')
  <2>1. sie' = [Popped EXCEPT !.out = 0, !.in = 0, !.pktdis = FALSE]
    BY DEF StdSetCfg
  <2>2. /\ IsSie(sie') /\ sie'.ustat = Tail(sie.ustat) /\ sie'.out = 0 /\ sie'.in = 0
        /\ sie'.addr = sie.addr /\ ~sie'.pktdis
    BY <1>1, <2>1, Constants DEF IsSie
  <2>3. SameSignals(sie, sie')
    BY <1>1, <2>1 DEF IsSie, SameSignals
  <2> QED
    BY <2>2, <2>3
<1>3. /\ bdOut[b].pid = "SETUP" /\ r.name = "SET_CONFIGURATION"
      /\ ram' = [SetupPkt |-> ram[bdOut[b].adr], CtrlTrfData |-> Empty]
      /\ fw' = [f EXCEPT !.pBDTEntryIn = 0, !.Current = 0, !.Next = 0,
                         !.USBDeviceState = IF r.arg = 0 THEN "ADDRESS_STATE"
                                                         ELSE "CONFIGURED_STATE"]
      /\ app' = [app EXCEPT !.cfg = r.arg, !.alt = 0,
                            !.line = IF r.arg = 0 THEN @ ELSE DefaultLine]
      /\ bdOut' = [c \in OutBDs |-> ClearBD] /\ bdIn' = [c \in InBDs |-> ClearBD]
      /\ pc' = "arm" /\ UNCHANGED <<host, faults, handover>>
  BY <1>1 DEF StdSetCfg, SetupPacket, Waiting
<1>4. IsSetup(1) /\ r \in Requests
  BY <1>1, <1>3 DEF IsSetup, SetupKnown
<1>5. IsFw(t) /\ SameFlags(fw, t) /\ SameDevice(fw, t)
  BY <1>1, TurnEffect DEF Types
<1> HIDE DEF t
<1>6. /\ IsFw(u) /\ SameFlags(t, u) /\ SameDevice(t, u)
      /\ u.controlTransferState = "WAIT_SETUP" /\ ~u.BothEP0OutUOWNsSet
  BY <1>5, AbandonEffect
<1> HIDE DEF u
<1>7. IsFw(f) /\ SameFlags(u, f) /\ SameDevice(u, f) /\ SameTransfer(u, f)
  BY <1>6, AcceptEffect
<1> HIDE DEF f
<1> HIDE DEF r
<1>8. /\ IsFw(fw') /\ SameFlags(f, fw') /\ SameTransfer(f, fw') /\ (fw'.ACTVIE <=> f.ACTVIE)
      /\ fw'.pBDTEntryIn = 0 /\ fw'.Current = 0 /\ fw'.Next = 0
      /\ fw'.USBDeviceState = IF r.arg = 0 THEN "ADDRESS_STATE" ELSE "CONFIGURED_STATE"
  <2> DEFINE st == IF r.arg = 0 THEN "ADDRESS_STATE" ELSE "CONFIGURED_STATE"
  <2>1. fw' = [f EXCEPT !.pBDTEntryIn = 0, !.Current = 0, !.Next = 0, !.USBDeviceState = st]
    BY <1>3
  <2>2. st \in States
    BY DEF States
  <2> HIDE DEF st
  <2>3. IsFw(fw') /\ fw'.pBDTEntryIn = 0 /\ fw'.Current = 0 /\ fw'.Next = 0 /\ fw'.USBDeviceState = st
    BY <1>7, <2>1, <2>2, Constants DEF IsFw
  <2>4. SameFlags(f, fw') /\ SameTransfer(f, fw') /\ (fw'.ACTVIE <=> f.ACTVIE)
    BY <1>7, <2>1 DEF IsFw, SameFlags, SameTransfer
  <2> QED
    BY <2>3, <2>4 DEF st
<1>9. /\ bdOut' \in [OutBDs -> BDType] /\ bdIn' \in [InBDs -> BDType]
      /\ \A c \in OutBDs : ~bdOut'[c].own /\ bdOut'[c].pid = "none"
      /\ \A c \in InBDs : ~bdIn'[c].own
  BY <1>3, Descriptors DEF ClearBD, BD
<1>10. ram'.SetupPkt.of = r /\ ram' = [a \in Buffers |-> ram'[a]]
  BY <1>3, Constants DEF Waiting, r
<1>11. IsApp(app') /\ app'.cfg = r.arg
  BY <1>3 DEF Types, IsApp
<1>12. RestOK'
  BY <1>1, <1>2, <1>3, <1>9, <1>10, Gives DEF RestOK
<1>13. Types'
  BY <1>2, <1>3, <1>8, <1>11, <1>12 DEF Types
<1>14. /\ fw'.controlTransferState = "WAIT_SETUP" /\ ~fw'.BothEP0OutUOWNsSet
       /\ SameFlags(fw, fw') /\ (fw'.ACTVIE <=> fw.ACTVIE)
  BY <1>5, <1>6, <1>7, <1>8 DEF SameFlags, SameTransfer, SameDevice
<1> QED
  BY <1>1, <1>2, <1>3, <1>4, <1>8, <1>9, <1>10, <1>11, <1>13, <1>14 DEF r

\* What is in handover after a handler.
Ent(d, b, x) == [dir |-> d, b |-> b, bd |-> x]

LEMMA Concats ==
  /\ \A d, b, x : Give(d, b, x) = <<Ent(d, b, x)>>
  /\ \A x, y : <<x>> \o <<y>> = <<x, y>>
  /\ \A x, y, z : <<x>> \o <<y, z>> = <<x, y, z>>
  /\ \A x : <<x>> \o <<>> = <<x>>
<1>1. \A d, b, x : Give(d, b, x) = <<Ent(d, b, x)>>
  BY DEF Give, Ent
<1>2. ASSUME NEW x, NEW y PROVE <<x>> \o <<y>> = <<x, y>>
  <2> DEFINE S == {x, y}
             c == <<x>> \o <<y>>
  <2>1. <<x>> \in Seq(S) /\ <<y>> \in Seq(S) /\ <<x, y>> \in Seq(S)
    OBVIOUS
  <2>2. /\ c \in Seq(S) /\ Len(c) = Len(<<x>>) + Len(<<y>>)
        /\ \A i \in 1 .. Len(<<x>>) + Len(<<y>>) :
             c[i] = IF i <= Len(<<x>>) THEN <<x>>[i] ELSE <<y>>[i - Len(<<x>>)]
    BY <2>1, ConcatProperties
  <2>3. Len(c) = 2 /\ c[1] = x /\ c[2] = y
    BY <2>2
  <2> HIDE DEF c
  <2>4. \A i \in 1 .. Len(c) : c[i] = <<x, y>>[i]
    BY <2>3
  <2> QED
    BY <2>1, <2>2, <2>3, <2>4, SeqEqual DEF c
<1>3. ASSUME NEW x, NEW y, NEW z PROVE <<x>> \o <<y, z>> = <<x, y, z>>
  <2> DEFINE S == {x, y, z}
             c == <<x>> \o <<y, z>>
  <2>1. <<x>> \in Seq(S) /\ <<y, z>> \in Seq(S) /\ <<x, y, z>> \in Seq(S)
    OBVIOUS
  <2>2. /\ c \in Seq(S) /\ Len(c) = Len(<<x>>) + Len(<<y, z>>)
        /\ \A i \in 1 .. Len(<<x>>) + Len(<<y, z>>) :
             c[i] = IF i <= Len(<<x>>) THEN <<x>>[i] ELSE <<y, z>>[i - Len(<<x>>)]
    BY <2>1, ConcatProperties
  <2>3. Len(c) = 3 /\ c[1] = x /\ c[2] = y /\ c[3] = z
    BY <2>2
  <2> HIDE DEF c
  <2>4. \A i \in 1 .. Len(c) : c[i] = <<x, y, z>>[i]
    BY <2>3
  <2> QED
    BY <2>1, <2>2, <2>3, <2>4, SeqEqual DEF c
<1>4. \A x : <<x>> \o <<>> = <<x>>
  OBVIOUS
<1> QED
  BY <1>1, <1>2, <1>3, <1>4

LEMMA Tuples ==
  /\ \A x \in Entry : <<x>> \in Seq(Entry)
  /\ \A x, y \in Entry : <<x, y>> \in Seq(Entry)
  /\ \A x, y, z \in Entry : <<x, y, z>> \in Seq(Entry)
OBVIOUS

LEMMA EntTypes ==
  /\ \A b \in OutBDs, x \in BDType : Ent("out", b, x) \in Entry
  /\ \A b \in InBDs, x \in BDType : Ent("in", b, x) \in Entry
BY DEF Ent, Entry

ArmedWrite(n) == handover' = <<Ent("out", fw.Next, DataBD(1, n))>>
ArmedStall == handover' = <<Ent("out", fw.Next, SetupBD), Ent("in", fw.pBDTEntryIn, StallBD)>>
ArmedRead(n) == handover' = <<Ent("in", fw.pBDTEntryIn, DataBD(1, n)),
                              Ent("out", fw.Current, StallBD), Ent("out", fw.Next, OpenBD)>>
ArmedStatus == handover' = <<Ent("out", fw.Next, StallBD), Ent("in", fw.pBDTEntryIn, DataBD(1, 0))>>

LEMMA ArmWriteEffect ==
  ASSUME Types, ArmWrite
  PROVE  /\ IsFw(fw') /\ SamePointers(fw, fw') /\ SameDevice(fw, fw') /\ UNCHANGED ram
         /\ fw'.controlTransferState = "CTRL_TRF_RX"
         /\ (fw'.BothEP0OutUOWNsSet <=> fw.BothEP0OutUOWNsSet)
         /\ ~fw.inBusy /\ ArmedWrite(8)
<1>1. fw' = [fw EXCEPT !.controlTransferState = "CTRL_TRF_RX", !.flag1 = FALSE, !.flag2 = FALSE]
  BY DEF ArmWrite
<1>2. handover' = Give("out", fw.Next, DataBD(1, 8))
  BY <1>1 DEF ArmWrite, Types, IsFw
<1>3. IsFw(fw') /\ SamePointers(fw, fw') /\ fw'.controlTransferState = "CTRL_TRF_RX"
  BY <1>1 DEF Types, IsFw, SamePointers
<1>4. SameDevice(fw, fw') /\ (fw'.BothEP0OutUOWNsSet <=> fw.BothEP0OutUOWNsSet)
  BY <1>1 DEF Types, IsFw, SameDevice
<1>5. ArmedWrite(8)
  BY <1>2, Concats DEF ArmedWrite
<1> QED
  BY <1>3, <1>4, <1>5 DEF ArmWrite

LEMMA ArmStallEffect ==
  ASSUME Types, ArmStall
  PROVE  /\ SameFw /\ UNCHANGED <<fw, ram>> /\ ~fw.inBusy /\ ArmedStall
<1>1. handover' = Give("out", fw.Next, SetupBD) \o Give("in", fw.pBDTEntryIn, StallBD)
  BY DEF ArmStall
<1>2. ArmedStall
  BY <1>1, Concats DEF ArmedStall
<1>3. SameFw
  BY DEF ArmStall, SameFw, SameTransfer, SameFlags, SamePointers, SameDevice
<1> QED
  BY <1>2, <1>3 DEF ArmStall

LEMMA ArmReadEffect ==
  ASSUME Types, ram.SetupPkt.of \in Requests, ArmRead
  PROVE  /\ IsFw(fw') /\ SamePointers(fw, fw') /\ SameDevice(fw, fw')
         /\ ram' = [a \in Buffers |-> ram'[a]] /\ ram'.SetupPkt = ram.SetupPkt
         /\ fw'.controlTransferState = "CTRL_TRF_TX" /\ fw'.BothEP0OutUOWNsSet
         /\ fw'.flag1 /\ fw'.flag2
         /\ IsRead(ram.SetupPkt.of) /\ \E n \in Nat : ArmedRead(n)
<1> DEFINE r == ram.SetupPkt.of
           g == [fw EXCEPT !.controlTransferState = "CTRL_TRF_TX",
                           !.inCount = MinOf(@, r.len), !.flag1 = FALSE, !.flag2 = FALSE]
           tx == TxService(g)
           status == AllowStatusStage(tx.f)
<1>1. /\ fw.inBusy /\ IsRead(r) /\ fw' = status.f
      /\ ram' = [ram EXCEPT !.CtrlTrfData = tx.packet]
      /\ handover' = Give("in", fw.pBDTEntryIn, DataBD(1, tx.packet.len)) \o status.give
  BY DEF ArmRead
<1>2. MinOf(fw.inCount, r.len) \in Nat
  BY RequestTypes DEF Types, IsFw, MinOf
<1> HIDE DEF r
<1>3. /\ IsFw(g) /\ SamePointers(fw, g) /\ SameDevice(fw, g) /\ ~g.flag1 /\ ~g.flag2
      /\ g.controlTransferState = "CTRL_TRF_TX"
  BY <1>2 DEF Types, IsFw, SamePointers, SameDevice
<1> HIDE DEF g
<1>4. /\ IsFw(tx.f) /\ SamePointers(g, tx.f) /\ SameFlags(g, tx.f) /\ SameDevice(g, tx.f)
      /\ SameTransfer(g, tx.f) /\ tx.packet.len \in Nat
  BY <1>3, TxServiceEffect
<1> HIDE DEF tx
<1>5. ~tx.f.flag1 /\ ~tx.f.flag2 /\ tx.f.controlTransferState = "CTRL_TRF_TX"
  BY <1>3, <1>4 DEF SameFlags, SameTransfer
<1>6. /\ IsFw(status.f) /\ SamePointers(tx.f, status.f) /\ SameDevice(tx.f, status.f)
      /\ status.f.controlTransferState = "CTRL_TRF_TX" /\ status.f.BothEP0OutUOWNsSet
      /\ status.f.flag1 /\ status.f.flag2
  BY <1>4, <1>5, AllowStatusStageEffect
<1>7. status.give = Give("out", tx.f.Current, StallBD) \o Give("out", tx.f.Next, OpenBD)
  BY <1>4, <1>5, AllowStatusStageGives
<1> HIDE DEF status
<1>8. tx.f.Current = fw.Current /\ tx.f.Next = fw.Next
  BY <1>3, <1>4 DEF SamePointers
<1>9. ArmedRead(tx.packet.len)
  <2>1. status.give = <<Ent("out", fw.Current, StallBD), Ent("out", fw.Next, OpenBD)>>
    BY <1>7, <1>8, Concats
  <2>2. Give("in", fw.pBDTEntryIn, DataBD(1, tx.packet.len)) = <<Ent("in", fw.pBDTEntryIn, DataBD(1, tx.packet.len))>>
    BY Concats
  <2> QED
    BY <1>1, <2>1, <2>2, Concats DEF ArmedRead
<1>10. SamePointers(fw, fw') /\ SameDevice(fw, fw')
  BY <1>1, <1>3, <1>4, <1>6 DEF SamePointers, SameDevice
<1>11. ram' = [a \in Buffers |-> ram'[a]] /\ ram'.SetupPkt = ram.SetupPkt
  BY <1>1, Constants DEF Types, RestOK
<1> QED
  BY <1>1, <1>4, <1>6, <1>9, <1>10, <1>11 DEF r

LEMMA ArmStatusEffect ==
  ASSUME Types, ArmStatus
  PROVE  /\ IsFw(fw') /\ SamePointers(fw, fw') /\ SameDevice(fw, fw') /\ UNCHANGED ram
         /\ fw'.controlTransferState = "CTRL_TRF_RX"
         /\ (fw'.BothEP0OutUOWNsSet <=> fw.BothEP0OutUOWNsSet)
         /\ fw'.flag1 /\ ArmedStatus
<1> DEFINE g == [fw EXCEPT !.controlTransferState = "CTRL_TRF_RX", !.flag1 = FALSE, !.flag2 = FALSE]
           status == AllowStatusStage(g)
<1>1. /\ fw' = status.f /\ UNCHANGED ram
      /\ handover' = Give("out", fw.Next, StallBD) \o status.give
  BY DEF ArmStatus
<1>2. /\ IsFw(g) /\ SamePointers(fw, g) /\ SameDevice(fw, g) /\ ~g.flag1 /\ ~g.flag2
      /\ g.controlTransferState = "CTRL_TRF_RX"
      /\ (g.BothEP0OutUOWNsSet <=> fw.BothEP0OutUOWNsSet)
  BY DEF Types, IsFw, SamePointers, SameDevice
<1> HIDE DEF g
<1>3. /\ IsFw(status.f) /\ SamePointers(g, status.f) /\ SameDevice(g, status.f)
      /\ status.f.controlTransferState = "CTRL_TRF_RX" /\ status.f.flag1
      /\ (status.f.BothEP0OutUOWNsSet <=> g.BothEP0OutUOWNsSet)
  BY <1>2, AllowStatusStageEffect
<1>4. status.give = Give("in", g.pBDTEntryIn, DataBD(1, 0))
  BY <1>2, AllowStatusStageGives
<1> HIDE DEF status
<1>5. ArmedStatus
  BY <1>1, <1>2, <1>4, Concats DEF ArmedStatus, SamePointers
<1>6. SamePointers(fw, fw') /\ SameDevice(fw, fw')
  BY <1>1, <1>2, <1>3 DEF SamePointers, SameDevice
<1> QED
  BY <1>1, <1>2, <1>3, <1>5, <1>6

LEMMA ArmTypes ==
  ASSUME Types, ram.SetupPkt.of \in Requests, CtrlEPServiceComplete
  PROVE  /\ Types' /\ pc = "arm" /\ pc' = "trn" /\ UNCHANGED <<bdOut, bdIn, sie, host, faults, app, loop>>
         /\ ArmWrite \/ ArmStall \/ ArmRead \/ ArmStatus
<1>1. /\ pc = "arm" /\ pc' = "trn" /\ UNCHANGED <<bdOut, bdIn, sie, host, faults, app, loop>>
      /\ ArmWrite \/ ArmStall \/ ArmRead \/ ArmStatus
  BY DEF CtrlEPServiceComplete
<1>2. fw.Next \in OutBDs /\ fw.Current \in OutBDs /\ fw.pBDTEntryIn \in InBDs
  BY DEF Types, IsFw
<1>3. ASSUME NEW n \in Nat
      PROVE  /\ Ent("out", fw.Next, DataBD(1, n)) \in Entry /\ Ent("in", fw.pBDTEntryIn, DataBD(1, n)) \in Entry
             /\ Ent("out", fw.Next, SetupBD) \in Entry /\ Ent("in", fw.pBDTEntryIn, StallBD) \in Entry
             /\ Ent("out", fw.Current, StallBD) \in Entry /\ Ent("out", fw.Next, OpenBD) \in Entry
             /\ Ent("out", fw.Next, StallBD) \in Entry
  BY <1>2, EntTypes, Descriptors
<1>4. /\ IsFw(fw') /\ ram' = [a \in Buffers |-> ram'[a]] /\ handover' \in Seq(Entry)
  <2>1. CASE ArmWrite
    BY <2>1, <1>3, ArmWriteEffect, Tuples DEF ArmedWrite, Types, RestOK
  <2>2. CASE ArmStall
    BY <2>2, <1>3, ArmStallEffect, Tuples DEF ArmedStall, Types, RestOK
  <2>3. CASE ArmRead
    BY <2>3, <1>3, ArmReadEffect, Tuples DEF ArmedRead
  <2>4. CASE ArmStatus
    BY <2>4, <1>3, ArmStatusEffect, Tuples DEF ArmedStatus, Types, RestOK
  <2> QED
    BY <1>1, <2>1, <2>2, <2>3, <2>4
<1>5. RestOK'
  BY <1>1, <1>4 DEF Types, RestOK
<1>6. IsSie(sie') /\ IsHost(host') /\ IsApp(app')
  BY <1>1 DEF Types
<1> QED
  BY <1>1, <1>4, <1>5, <1>6 DEF Types

\* What both handlers of an OUT packet leave behind.
Received1(b) ==
  /\ pc = "trn" /\ pc' = "trn" /\ handover = <<>> /\ sie.ustat # <<>>
  /\ sie.ustat[1].dir = "out" /\ sie.ustat[1].bd = b /\ b \in OutBDs /\ 1 \in DOMAIN sie.ustat
  /\ bdOut[b].pid = "OUT" /\ bdOut' = Disarmed(bdOut, {b})
  /\ ~bdOut'[b].own /\ bdOut'[b].pid = "none"
  /\ \A c \in OutBDs : c # b => bdOut'[c] = bdOut[c]
  /\ UNCHANGED <<bdIn, ram, host, faults>> /\ app'.cfg = app.cfg
  /\ sie'.ustat = Tail(sie.ustat) /\ SameEnds(sie, sie') /\ sie'.addr = sie.addr
  /\ (sie'.pktdis <=> sie.pktdis) /\ SameSignals(sie, sie')
  /\ fw'.Current = b /\ fw'.Next = OtherOut(b) /\ fw'.pBDTEntryIn = fw.pBDTEntryIn
  /\ SameDevice(fw, fw')

LEMMA OutTransaction ==
  ASSUME Types, Transaction("out"), sie' = Popped, bdOut' = Disarmed(bdOut, {sie.ustat[1].bd})
  PROVE  LET b == sie.ustat[1].bd IN
         /\ pc = "trn" /\ handover = <<>> /\ loop' \in 0 .. 4 /\ sie.ustat # <<>>
         /\ Head(sie.ustat) = sie.ustat[1] /\ sie.ustat[1].dir = "out" /\ 1 \in DOMAIN sie.ustat
         /\ b \in OutBDs /\ bdOut' \in [OutBDs -> BDType]
         /\ ~bdOut'[b].own /\ bdOut'[b].pid = "none"
         /\ \A c \in OutBDs : c # b => bdOut'[c] = bdOut[c]
         /\ IsSie(sie') /\ sie'.ustat = Tail(sie.ustat) /\ Len(sie'.ustat) <= 4
         /\ SameEnds(sie, sie') /\ sie'.addr = sie.addr
         /\ (sie'.pktdis <=> sie.pktdis) /\ SameSignals(sie, sie')
         /\ bdOut[b].cnt \in Nat /\ bdOut[b].dts \in {0, 1}
<1> DEFINE b == sie.ustat[1].bd
<1>1. /\ pc = "trn" /\ handover = <<>> /\ loop' \in 0 .. 4 /\ sie.ustat # <<>>
      /\ Head(sie.ustat) = sie.ustat[1] /\ sie.ustat[1].dir = "out" /\ 1 \in DOMAIN sie.ustat
      /\ b \in OutBDs
      /\ IsSie(Popped) /\ Popped.ustat = Tail(sie.ustat) /\ Len(Tail(sie.ustat)) <= 4
      /\ SameEnds(sie, Popped) /\ Popped.addr = sie.addr /\ (Popped.pktdis <=> sie.pktdis)
      /\ SameSignals(sie, Popped)
  BY TransactionFacts
<1> HIDE DEF b
<1>2. bdOut' = [c \in OutBDs |-> IF c \in {b} THEN ClearBD ELSE bdOut[c]]
  BY DEF b, Disarmed, Types, RestOK
<1>3. /\ bdOut' \in [OutBDs -> BDType] /\ ~bdOut'[b].own /\ bdOut'[b].pid = "none"
      /\ \A c \in OutBDs : c # b => bdOut'[c] = bdOut[c]
  <2>1. ClearBD \in BDType /\ ~ClearBD.own /\ ClearBD.pid = "none"
    BY Descriptors DEF ClearBD, BD
  <2>2. bdOut \in [OutBDs -> BDType]
    BY DEF Types, RestOK
  <2>3. bdOut'[b] = ClearBD /\ \A c \in OutBDs : c # b => bdOut'[c] = bdOut[c]
    BY <1>1, <1>2
  <2>4. bdOut' \in [OutBDs -> BDType]
    BY <1>2, <2>1, <2>2
  <2> QED
    BY <2>1, <2>3, <2>4
<1>4. bdOut[b].cnt \in Nat /\ bdOut[b].dts \in {0, 1}
  BY <1>1 DEF Types, RestOK, BDType
<1> QED
  BY <1>1, <1>3, <1>4 DEF b

LEMMA OutEffect ==
  ASSUME Types, CtrlTrfOut
  PROVE  LET b == sie.ustat[1].bd IN
         /\ Types' /\ Received1(b) /\ ~Rx
         /\ fw'.controlTransferState = "WAIT_SETUP" /\ ~fw'.BothEP0OutUOWNsSet
         /\ SameFlags(fw, fw')
         /\ handover' = IF fw.BothEP0OutUOWNsSet THEN <<>> ELSE <<Ent("out", OtherOut(b), SetupBD)>>
<1> DEFINE b == sie.ustat[1].bd
           f == Turn(fw, b)
<1>1. Head(sie.ustat) = sie.ustat[1]
  BY TransactionFacts DEF CtrlTrfOut
<1>2. /\ Transaction("out") /\ sie' = Popped /\ bdOut' = Disarmed(bdOut, {b})
      /\ bdOut[b].pid = "OUT" /\ fw.controlTransferState # "CTRL_TRF_RX"
      /\ fw' = [f EXCEPT !.controlTransferState = "WAIT_SETUP", !.BothEP0OutUOWNsSet = FALSE]
      /\ handover' = IF fw.BothEP0OutUOWNsSet THEN <<>> ELSE Give("out", f.Next, SetupBD)
      /\ UNCHANGED <<bdIn, ram, host, faults, app, pc>>
  BY <1>1 DEF CtrlTrfOut
<1>3. /\ pc = "trn" /\ handover = <<>> /\ loop' \in 0 .. 4 /\ sie.ustat # <<>>
      /\ sie.ustat[1].dir = "out" /\ 1 \in DOMAIN sie.ustat
      /\ b \in OutBDs /\ bdOut' \in [OutBDs -> BDType]
      /\ ~bdOut'[b].own /\ bdOut'[b].pid = "none"
      /\ \A c \in OutBDs : c # b => bdOut'[c] = bdOut[c]
      /\ IsSie(sie') /\ sie'.ustat = Tail(sie.ustat) /\ Len(sie'.ustat) <= 4
      /\ SameEnds(sie, sie') /\ sie'.addr = sie.addr
      /\ (sie'.pktdis <=> sie.pktdis) /\ SameSignals(sie, sie')
  BY <1>2, OutTransaction
<1>4. /\ IsFw(f) /\ SameTransfer(fw, f) /\ SameFlags(fw, f) /\ SameDevice(fw, f)
      /\ f.pBDTEntryIn = fw.pBDTEntryIn /\ f.Current = b /\ f.Next = OtherOut(b)
  BY <1>3, TurnEffect DEF Types
<1> HIDE DEF b, f
<1>5. /\ IsFw(fw') /\ fw'.Current = b /\ fw'.Next = OtherOut(b) /\ fw'.pBDTEntryIn = fw.pBDTEntryIn
      /\ fw'.controlTransferState = "WAIT_SETUP" /\ ~fw'.BothEP0OutUOWNsSet
      /\ SameFlags(f, fw') /\ SameDevice(f, fw')
  BY <1>2, <1>4 DEF IsFw, SameFlags, SameDevice
<1>6. SameFlags(fw, fw') /\ SameDevice(fw, fw')
  BY <1>4, <1>5 DEF SameFlags, SameDevice
<1>7. handover' = IF fw.BothEP0OutUOWNsSet THEN <<>> ELSE <<Ent("out", OtherOut(b), SetupBD)>>
  BY <1>2, <1>4, Concats
<1>8. handover' \in Seq(Entry)
  <2>1. Ent("out", OtherOut(b), SetupBD) \in Entry
    BY <1>3, EntTypes, Descriptors, Constants
  <2> QED
    BY <1>7, <2>1, Tuples, Gives
<1>9. RestOK'
  BY <1>2, <1>3, <1>8 DEF Types, RestOK
<1>10. Types'
  BY <1>2, <1>3, <1>5, <1>9 DEF Types
<1>11. Received1(b)
  BY <1>2, <1>3, <1>5, <1>6 DEF Received1, b
<1> QED
  BY <1>2, <1>5, <1>6, <1>7, <1>10, <1>11 DEF b, Rx

\* The data of a control write: more of it, or the end of it.
LEMMA RxEffect ==
  ASSUME Types, CtrlTrfRx
  PROVE  LET b == sie.ustat[1].bd IN
         /\ Types' /\ Received1(b) /\ Rx /\ fw'.controlTransferState = "CTRL_TRF_RX"
         /\ (fw'.BothEP0OutUOWNsSet <=> fw.BothEP0OutUOWNsSet)
         /\ \/ /\ SameFlags(fw, fw')
               /\ \E dts \in {0, 1} : handover' = <<Ent("out", OtherOut(b), DataBD(dts, 8))>>
            \/ /\ fw'.flag1 /\ (fw.flag1 \/ fw.flag2)
               /\ handover' = <<Ent("out", OtherOut(b), StallBD)>>
            \/ /\ fw'.flag1 /\ ~fw.flag1 /\ ~fw.flag2
               /\ handover' = <<Ent("out", OtherOut(b), StallBD),
                                Ent("in", fw.pBDTEntryIn, DataBD(1, 0))>>
<1> DEFINE b == sie.ustat[1].bd
           t == Turn(fw, b)
           n == MinOf(bdOut[b].cnt, t.outCount)
           f == [t EXCEPT !.outCount = @ - n]
           g == [f EXCEPT !.outBusy = FALSE]
           notice == IF n = 0 THEN app.cdc_notice ELSE ram.CtrlTrfData.of
           status == AllowStatusStage(g)
           dts == 1 - bdOut[b].dts
<1>1. Head(sie.ustat) = sie.ustat[1]
  BY TransactionFacts DEF CtrlTrfRx
<1>2. /\ Transaction("out") /\ sie' = Popped /\ bdOut' = Disarmed(bdOut, {b})
      /\ bdOut[b].pid = "OUT" /\ Rx
      /\ IF f.outCount > 0
         THEN /\ fw' = f
              /\ handover' = Give("out", f.Next, DataBD(dts, 8))
              /\ app' = [app EXCEPT !.cdc_notice = notice]
         ELSE /\ fw' = status.f
              /\ handover' = Give("out", f.Next, StallBD) \o status.give
              /\ app' = [app EXCEPT !.cdc_notice = notice,
                                    !.line = IF fw.outBusy THEN notice ELSE @]
      /\ UNCHANGED <<bdIn, ram, host, faults, pc>>
  BY <1>1 DEF CtrlTrfRx, Rx
<1>3. /\ pc = "trn" /\ handover = <<>> /\ loop' \in 0 .. 4 /\ sie.ustat # <<>>
      /\ sie.ustat[1].dir = "out" /\ 1 \in DOMAIN sie.ustat
      /\ b \in OutBDs /\ bdOut' \in [OutBDs -> BDType]
      /\ ~bdOut'[b].own /\ bdOut'[b].pid = "none"
      /\ \A c \in OutBDs : c # b => bdOut'[c] = bdOut[c]
      /\ IsSie(sie') /\ sie'.ustat = Tail(sie.ustat) /\ Len(sie'.ustat) <= 4
      /\ SameEnds(sie, sie') /\ sie'.addr = sie.addr
      /\ (sie'.pktdis <=> sie.pktdis) /\ SameSignals(sie, sie')
      /\ bdOut[b].cnt \in Nat /\ bdOut[b].dts \in {0, 1}
  BY <1>2, OutTransaction
<1>4. /\ IsFw(t) /\ SameTransfer(fw, t) /\ SameFlags(fw, t) /\ SameDevice(fw, t)
      /\ t.pBDTEntryIn = fw.pBDTEntryIn /\ t.Current = b /\ t.Next = OtherOut(b)
  BY <1>3, TurnEffect DEF Types
<1> HIDE DEF t
<1>5. t.outCount - n \in Nat
  BY <1>3, <1>4 DEF IsFw, MinOf
<1>6. dts \in {0, 1}
  BY <1>3
<1> HIDE DEF n, b, notice, dts
<1>7. /\ IsFw(f) /\ SameTransfer(t, f) /\ SameFlags(t, f) /\ SameDevice(t, f) /\ SamePointers(t, f)
  BY <1>4, <1>5 DEF IsFw, SameTransfer, SameFlags, SameDevice, SamePointers
<1> HIDE DEF f
<1>8. /\ IsFw(g) /\ SameTransfer(f, g) /\ SameFlags(f, g) /\ SameDevice(f, g) /\ SamePointers(f, g)
  BY <1>7 DEF IsFw, SameTransfer, SameFlags, SameDevice, SamePointers
<1> HIDE DEF g
<1>9. /\ g.controlTransferState = "CTRL_TRF_RX" /\ f.controlTransferState = "CTRL_TRF_RX"
      /\ f.Next = OtherOut(b) /\ g.pBDTEntryIn = fw.pBDTEntryIn
  BY <1>2, <1>4, <1>7, <1>8 DEF SameTransfer, SamePointers, Rx
<1>10. /\ IsFw(status.f) /\ SamePointers(g, status.f) /\ SameDevice(g, status.f)
       /\ status.f.controlTransferState = "CTRL_TRF_RX" /\ status.f.flag1
       /\ (status.f.BothEP0OutUOWNsSet <=> g.BothEP0OutUOWNsSet)
  BY <1>8, <1>9, AllowStatusStageEffect
<1>11. /\ g.flag1 \/ g.flag2 => status.give = <<>>
       /\ ~g.flag1 /\ ~g.flag2 => status.give = Give("in", g.pBDTEntryIn, DataBD(1, 0))
  BY <1>8, <1>9, AllowStatusStageGives
<1> HIDE DEF status
<1>12. IsApp(app') /\ app'.cfg = app.cfg
  BY <1>2 DEF Types, IsApp
<1>13. CASE f.outCount > 0
  <2>1. fw' = f /\ handover' = <<Ent("out", OtherOut(b), DataBD(dts, 8))>>
    BY <1>2, <1>9, <1>13, Concats
  <2>2. Ent("out", OtherOut(b), DataBD(dts, 8)) \in Entry
    BY <1>3, <1>6, EntTypes, Descriptors, Constants
  <2>3. handover' \in Seq(Entry)
    BY <2>1, <2>2, Tuples
  <2>4. RestOK'
    BY <1>2, <1>3, <2>3 DEF Types, RestOK
  <2>5. IsFw(fw') /\ IsHost(host')
    BY <1>2, <1>7, <2>1 DEF Types
  <2>6. Types'
    BY <1>3, <1>12, <2>4, <2>5 DEF Types
  <2>7. /\ fw'.Current = b /\ fw'.Next = OtherOut(b) /\ fw'.pBDTEntryIn = fw.pBDTEntryIn
        /\ SameDevice(fw, fw') /\ SameFlags(fw, fw')
        /\ (fw'.BothEP0OutUOWNsSet <=> fw.BothEP0OutUOWNsSet)
    BY <1>4, <1>7, <2>1 DEF SamePointers, SameDevice, SameFlags, SameTransfer
  <2>8. Received1(b)
    BY <1>2, <1>3, <1>12, <2>7 DEF Received1, b
  <2> QED
    BY <1>2, <1>6, <1>9, <2>1, <2>6, <2>7, <2>8 DEF b
<1>14. CASE ~(f.outCount > 0)
  <2>1. /\ fw' = status.f
        /\ handover' = IF g.flag1 \/ g.flag2 THEN <<Ent("out", OtherOut(b), StallBD)>>
                       ELSE <<Ent("out", OtherOut(b), StallBD), Ent("in", fw.pBDTEntryIn, DataBD(1, 0))>>
    <3>1. fw' = status.f /\ handover' = Give("out", f.Next, StallBD) \o status.give
      BY <1>2, <1>14
    <3>2. CASE g.flag1 \/ g.flag2
      BY <1>9, <1>11, <3>1, <3>2, Concats
    <3>3. CASE ~(g.flag1 \/ g.flag2)
      <4>1. status.give = <<Ent("in", fw.pBDTEntryIn, DataBD(1, 0))>>
        BY <1>9, <1>11, <3>3, Concats
      <4> QED
        BY <1>9, <3>1, <3>3, <4>1, Concats
    <3> QED
      BY <3>2, <3>3
  <2>2. Ent("out", OtherOut(b), StallBD) \in Entry /\ Ent("in", fw.pBDTEntryIn, DataBD(1, 0)) \in Entry
    BY <1>3, EntTypes, Descriptors, Constants DEF Types, IsFw
  <2>3. handover' \in Seq(Entry)
    BY <2>1, <2>2, Tuples
  <2>4. RestOK'
    BY <1>2, <1>3, <2>3 DEF Types, RestOK
  <2>5. IsFw(fw') /\ IsHost(host')
    BY <1>2, <1>10, <2>1 DEF Types
  <2>6. Types'
    BY <1>3, <1>12, <2>4, <2>5 DEF Types
  <2>7. /\ fw'.Current = b /\ fw'.Next = OtherOut(b) /\ fw'.pBDTEntryIn = fw.pBDTEntryIn
        /\ SameDevice(fw, fw') /\ (g.flag1 <=> fw.flag1) /\ (g.flag2 <=> fw.flag2)
        /\ (fw'.BothEP0OutUOWNsSet <=> fw.BothEP0OutUOWNsSet)
    BY <1>4, <1>7, <1>8, <1>10, <2>1 DEF SamePointers, SameDevice, SameFlags, SameTransfer
  <2>8. Received1(b)
    BY <1>2, <1>3, <1>12, <2>7 DEF Received1, b
  <2> QED
    BY <1>2, <1>10, <2>1, <2>6, <2>7, <2>8 DEF b
<1> QED
  BY <1>13, <1>14

LEMMA InEffect ==
  ASSUME Types, CtrlTrfIn,
         fw.USBDeviceState = "ADR_PENDING_STATE" => IsSetAddress(ram.SetupPkt.of)
  PROVE  /\ Types' /\ pc = "trn" /\ pc' = "trn" /\ handover = <<>> /\ sie.ustat # <<>>
         /\ sie.ustat[1].dir = "in" /\ 1 \in DOMAIN sie.ustat
         /\ UNCHANGED <<bdOut, host, faults>> /\ app'.cfg = app.cfg
         /\ ~bdIn'[fw.pBDTEntryIn].own /\ \A c \in InBDs : c # fw.pBDTEntryIn => bdIn'[c] = bdIn[c]
         /\ ram'.SetupPkt = ram.SetupPkt
         /\ sie'.ustat = Tail(sie.ustat) /\ SameEnds(sie, sie') /\ (sie'.pktdis <=> sie.pktdis)
         /\ SameSignals(sie, sie')
         /\ sie'.addr = IF fw.USBDeviceState = "ADR_PENDING_STATE" THEN ram.SetupPkt.of.arg ELSE sie.addr
         /\ fw'.USBDeviceState = IF fw.USBDeviceState = "ADR_PENDING_STATE" THEN "ADDRESS_STATE"
                                                                           ELSE fw.USBDeviceState
         /\ (fw'.ACTVIE <=> fw.ACTVIE)
         /\ fw'.pBDTEntryIn = NextIn(fw.pBDTEntryIn) /\ fw'.Current = fw.Current /\ fw'.Next = fw.Next
         /\ SameFlags(fw, fw') /\ (fw'.BothEP0OutUOWNsSet <=> fw.BothEP0OutUOWNsSet)
         /\ \/ /\ Tx /\ fw'.controlTransferState = "CTRL_TRF_TX"
               /\ \E x \in BDType : handover' = <<Ent("in", fw'.pBDTEntryIn, x)>>
            \/ /\ ~Tx /\ fw'.controlTransferState = "WAIT_SETUP" /\ handover' = <<>> /\ UNCHANGED ram
<1> DEFINE a == ram.SetupPkt.of.arg
           lastDTS == bdIn[fw.pBDTEntryIn].dts
           h == TakeAddress(fw, a)
           f == [h EXCEPT !.pBDTEntryIn = NextIn(@), !.timeout = StatusTimeout]
           tx == TxService(f)
           x == IF tx.f.shortPacketStatus = "SENT" THEN StallBD ELSE DataBD(1 - lastDTS, tx.packet.len)
<1>1. /\ pc = "trn" /\ handover = <<>> /\ loop' \in 0 .. 4 /\ sie.ustat # <<>>
      /\ sie.ustat[1].dir = "in" /\ 1 \in DOMAIN sie.ustat
      /\ IsSie(Popped) /\ Popped.ustat = Tail(sie.ustat) /\ Len(Tail(sie.ustat)) <= 4
      /\ SameEnds(sie, Popped) /\ Popped.addr = sie.addr /\ (Popped.pktdis <=> sie.pktdis)
      /\ SameSignals(sie, Popped)
  BY TransactionFacts DEF CtrlTrfIn
<1>2. /\ sie' = [Popped EXCEPT !.addr = Address(fw, a)]
      /\ IF Tx
         THEN /\ fw' = tx.f
              /\ ram' = [ram EXCEPT !.CtrlTrfData = IF tx.packet.len = 0 THEN @ ELSE tx.packet]
              /\ handover' = Give("in", f.pBDTEntryIn, x)
              /\ UNCHANGED app
         ELSE /\ fw' = [f EXCEPT !.controlTransferState = "WAIT_SETUP", !.outBusy = FALSE]
              /\ app' = [app EXCEPT !.line = IF fw.outBusy THEN app.cdc_notice ELSE @]
              /\ UNCHANGED <<ram, handover>>
      /\ bdIn' = Disarmed(bdIn, {fw.pBDTEntryIn})
      /\ UNCHANGED <<bdOut, host, faults, pc>>
  BY DEF CtrlTrfIn, Tx
<1>3. /\ fw.USBDeviceState = "ADR_PENDING_STATE" => a \in 1 .. 127
      /\ Address(fw, a) \in 0 .. 127
      /\ Address(fw, a) = IF fw.USBDeviceState = "ADR_PENDING_STATE" THEN a ELSE sie.addr
  BY RequestTypes DEF Address, IsSetAddress, Types, IsSie
<1>4. /\ IsFw(h) /\ SameTransfer(fw, h) /\ SameFlags(fw, h) /\ SamePointers(fw, h)
      /\ (h.ACTVIE <=> fw.ACTVIE)
      /\ h.USBDeviceState = IF fw.USBDeviceState = "ADR_PENDING_STATE" THEN "ADDRESS_STATE"
                                                                       ELSE fw.USBDeviceState
  <2>1. CASE fw.USBDeviceState = "ADR_PENDING_STATE"
    <3>1. h = [fw EXCEPT !.USBDeviceState = "ADDRESS_STATE"]
      BY <1>3, <2>1 DEF TakeAddress
    <3> QED
      BY <2>1, <3>1 DEF Types, IsFw, SameTransfer, SameFlags, SamePointers, States
  <2>2. CASE fw.USBDeviceState # "ADR_PENDING_STATE"
    BY <2>2 DEF TakeAddress, Types, SameTransfer, SameFlags, SamePointers
  <2> QED
    BY <2>1, <2>2
<1> HIDE DEF a, h
<1>5. /\ IsSie(sie') /\ sie'.ustat = Tail(sie.ustat) /\ SameEnds(sie, sie')
      /\ (sie'.pktdis <=> sie.pktdis) /\ SameSignals(sie, sie') /\ sie'.addr = Address(fw, a)
  <2>1. /\ IsSie(sie') /\ sie'.ustat = Tail(sie.ustat) /\ SameEnds(sie, sie')
        /\ sie'.addr = Address(fw, a)
    BY <1>1, <1>2, <1>3 DEF IsSie, SameEnds
  <2>2. (sie'.pktdis <=> sie.pktdis) /\ SameSignals(sie, sie')
    BY <1>1, <1>2 DEF IsSie, SameSignals
  <2> QED
    BY <2>1, <2>2
<1>6. /\ IsFw(f) /\ SameTransfer(h, f) /\ SameFlags(h, f) /\ SameDevice(h, f)
      /\ f.Current = h.Current /\ f.Next = h.Next /\ f.pBDTEntryIn = NextIn(h.pBDTEntryIn)
  <2>1. NextIn(h.pBDTEntryIn) \in InBDs
    BY <1>4, Constants DEF IsFw
  <2> QED
    BY <1>4, <2>1, Constants DEF IsFw, SameTransfer, SameFlags, SameDevice
<1> HIDE DEF f
<1>7. /\ IsFw(tx.f) /\ SamePointers(f, tx.f) /\ SameFlags(f, tx.f) /\ SameDevice(f, tx.f)
      /\ SameTransfer(f, tx.f) /\ tx.packet.len \in Nat
  BY <1>6, TxServiceEffect
<1> HIDE DEF tx
<1>8. x \in BDType
  <2>1. lastDTS \in {0, 1}
    BY DEF Types, IsFw, RestOK, BDType
  <2>2. 1 - lastDTS \in {0, 1}
    BY <2>1
  <2> QED
    BY <1>7, <2>2, Descriptors
<1> HIDE DEF x
<1>9. /\ IsFw(fw') /\ SameFlags(f, fw') /\ SameDevice(f, fw') /\ SamePointers(f, fw')
      /\ (fw'.BothEP0OutUOWNsSet <=> f.BothEP0OutUOWNsSet)
      /\ fw'.controlTransferState = IF Tx THEN "CTRL_TRF_TX" ELSE "WAIT_SETUP"
  <2>1. CASE Tx
    BY <1>2, <1>4, <1>6, <1>7, <2>1 DEF SameTransfer, Tx
  <2>2. CASE ~Tx
    <3>1. fw' = [f EXCEPT !.controlTransferState = "WAIT_SETUP", !.outBusy = FALSE]
      BY <1>2, <2>2
    <3> QED
      BY <1>6, <2>2, <3>1 DEF IsFw, SameFlags, SameDevice, SamePointers
  <2> QED
    BY <2>1, <2>2
<1>10. /\ bdIn' \in [InBDs -> BDType] /\ ~bdIn'[fw.pBDTEntryIn].own
       /\ \A c \in InBDs : c # fw.pBDTEntryIn => bdIn'[c] = bdIn[c]
  <2>1. ClearBD \in BDType /\ ~ClearBD.own
    BY Descriptors DEF ClearBD, BD
  <2>2. bdIn \in [InBDs -> BDType] /\ fw.pBDTEntryIn \in InBDs
    BY DEF Types, RestOK, IsFw
  <2>3. bdIn' = [c \in InBDs |-> IF c \in {fw.pBDTEntryIn} THEN ClearBD ELSE bdIn[c]]
    BY <1>2, <2>2 DEF Disarmed
  <2> QED
    BY <2>1, <2>2, <2>3
<1>11. \/ Tx /\ handover' = <<Ent("in", fw'.pBDTEntryIn, x)>>
       \/ ~Tx /\ handover' = <<>> /\ UNCHANGED ram
  BY <1>1, <1>2, <1>9, Concats DEF SamePointers
<1>12. handover' \in Seq(Entry)
  <2>1. Ent("in", fw'.pBDTEntryIn, x) \in Entry
    BY <1>8, <1>9, EntTypes DEF IsFw
  <2> QED
    BY <1>11, <2>1, Tuples, Gives
<1>13. ram' = [c \in Buffers |-> ram'[c]] /\ ram'.SetupPkt = ram.SetupPkt
  BY <1>2, Constants DEF Types, RestOK
<1>14. IsApp(app') /\ app'.cfg = app.cfg
  BY <1>2 DEF Types, IsApp
<1>15. RestOK'
  BY <1>1, <1>2, <1>5, <1>10, <1>12, <1>13 DEF Types, RestOK
<1>16. Types'
  BY <1>2, <1>5, <1>9, <1>14, <1>15 DEF Types
<1>17. /\ fw'.USBDeviceState = IF fw.USBDeviceState = "ADR_PENDING_STATE" THEN "ADDRESS_STATE"
                                                                          ELSE fw.USBDeviceState
       /\ (fw'.ACTVIE <=> fw.ACTVIE)
       /\ fw'.pBDTEntryIn = NextIn(fw.pBDTEntryIn) /\ fw'.Current = fw.Current /\ fw'.Next = fw.Next
       /\ SameFlags(fw, fw') /\ (fw'.BothEP0OutUOWNsSet <=> fw.BothEP0OutUOWNsSet)
  BY <1>4, <1>6, <1>9 DEF SameTransfer, SameFlags, SamePointers, SameDevice
<1> QED
  BY <1>1, <1>2, <1>3, <1>5, <1>8, <1>9, <1>10, <1>11, <1>13, <1>14, <1>16, <1>17 DEF a

-----------------------------------------------------------------------------
(* The host and the SIE. *)

SameHost == host'.addr = host.addr /\ (host'.asleep <=> host.asleep) /\ (host'.se0 <=> host.se0)

LEMMA SieOutEffect ==
  ASSUME Types, NEW pid \in {"SETUP", "OUT"}, NEW packet, packet.len \in Nat, Len(sie.ustat) < 4,
         SieOut(pid, packet)
  PROVE  LET b == sie.out IN
         /\ b \in OutBDs /\ bdOut' \in [OutBDs -> BDType] /\ bdIn' = bdIn
         /\ ~bdOut'[b].own /\ bdOut'[b].pid = pid /\ bdOut'[b].adr = bdOut[b].adr
         /\ \A c \in OutBDs : c # b => bdOut'[c] = bdOut[c]
         /\ bdOut[b].adr \in Buffers /\ ram' = [a \in Buffers |-> ram'[a]]
         /\ IF packet.len = 0 THEN ram' = ram
            ELSE /\ ram'[bdOut[b].adr] = packet
                 /\ \A a \in Buffers : a # bdOut[b].adr => ram'[a] = ram[a]
         /\ IsSie(sie') /\ Len(sie'.ustat) <= 4
         /\ sie'.ustat = Append(sie.ustat, [dir |-> "out", bd |-> b]) /\ [dir |-> "out", bd |-> b] \in Queue
         /\ sie'.out = OtherOut(b) /\ sie'.in = sie.in /\ sie'.addr = sie.addr
         /\ (sie'.pktdis <=> pid = "SETUP") /\ SameSignals(sie, sie')
<1> DEFINE b == sie.out
<1>1. /\ bdOut' = [bdOut EXCEPT ![b].own = FALSE, ![b].dtsen = FALSE,
                                ![b].stall = FALSE, ![b].pid = pid, ![b].cnt = packet.len]
      /\ ram' = IF packet.len = 0 THEN ram ELSE [ram EXCEPT ![bdOut[b].adr] = packet]
      /\ sie' = [sie EXCEPT !.out = OtherOut(b), !.ustat = Done("out", b), !.pktdis = (pid = "SETUP")]
      /\ bdIn' = bdIn
  BY DEF SieOut
<1>2. b \in OutBDs /\ OtherOut(b) \in OutBDs
  BY Constants DEF Types, IsSie
<1>3. Append(sie.ustat, [dir |-> "out", bd |-> b]) \in Seq(Queue) /\ [dir |-> "out", bd |-> b] \in Queue
      /\ Len(Append(sie.ustat, [dir |-> "out", bd |-> b])) <= 4
  <2>1. [dir |-> "out", bd |-> b] \in Queue
    BY <1>2 DEF Queue
  <2>2. sie.ustat \in Seq(Queue)
    BY DEF Types, IsSie
  <2> QED
    BY <2>1, <2>2, AppendProperties
<1> HIDE DEF b
<1>4. bdOut \in [OutBDs -> BDType] /\ bdOut[b] \in BDType
  BY <1>2 DEF Types, RestOK
<1>5. /\ bdOut' \in [OutBDs -> BDType]
      /\ \A c \in OutBDs : c # b => bdOut'[c] = bdOut[c]
      /\ ~bdOut'[b].own /\ bdOut'[b].pid = pid /\ bdOut'[b].adr = bdOut[b].adr
  <2> DEFINE r == [bdOut[b] EXCEPT !.own = FALSE, !.dtsen = FALSE, !.stall = FALSE,
                                   !.pid = pid, !.cnt = packet.len]
  <2>1. r \in BDType /\ ~r.own /\ r.pid = pid /\ r.adr = bdOut[b].adr
    BY <1>4 DEF BDType
  <2>2. bdOut' = [bdOut EXCEPT ![b] = r]
    BY <1>1, <1>2, <1>4
  <2> HIDE DEF r
  <2>3. bdOut'[b] = r /\ \A c \in OutBDs : c # b => bdOut'[c] = bdOut[c]
    BY <1>2, <1>4, <2>2
  <2>4. bdOut' \in [OutBDs -> BDType]
    BY <1>2, <1>4, <2>1, <2>2
  <2> QED
    BY <2>1, <2>3, <2>4
<1>6. bdOut[b].adr \in Buffers
  BY <1>4 DEF BDType
<1>7. /\ ram' = [a \in Buffers |-> ram'[a]]
      /\ IF packet.len = 0 THEN ram' = ram
         ELSE /\ ram'[bdOut[b].adr] = packet
              /\ \A a \in Buffers : a # bdOut[b].adr => ram'[a] = ram[a]
  <2> DEFINE d == bdOut[b].adr
  <2>1. ram = [a \in Buffers |-> ram[a]] /\ ram' = IF packet.len = 0 THEN ram ELSE [ram EXCEPT ![d] = packet]
    BY <1>1 DEF Types, RestOK
  <2>2. d \in Buffers
    BY <1>6
  <2> HIDE DEF d
  <2>3. /\ ram' = [a \in Buffers |-> ram'[a]]
        /\ IF packet.len = 0 THEN ram' = ram
           ELSE ram'[d] = packet /\ \A a \in Buffers : a # d => ram'[a] = ram[a]
    BY <2>1, <2>2
  <2> QED
    BY <2>3 DEF d
<1>8. /\ IsSie(sie') /\ sie'.ustat = Append(sie.ustat, [dir |-> "out", bd |-> b])
      /\ sie'.out = OtherOut(b) /\ sie'.in = sie.in /\ sie'.addr = sie.addr
      /\ (sie'.pktdis <=> pid = "SETUP") /\ SameSignals(sie, sie')
  <2>1. sie' = [sie EXCEPT !.out = OtherOut(b), !.ustat = Append(sie.ustat, [dir |-> "out", bd |-> b]),
                           !.pktdis = (pid = "SETUP")]
    BY <1>1 DEF Done
  <2>4. IsSie(sie)
    BY DEF Types
  <2>5. IsSie(sie')
    BY <1>2, <1>3, <2>1, <2>4 DEF IsSie
  <2>2. /\ IsSie(sie') /\ sie'.ustat = Append(sie.ustat, [dir |-> "out", bd |-> b])
        /\ sie'.out = OtherOut(b) /\ sie'.in = sie.in /\ sie'.addr = sie.addr
    BY <2>1, <2>4, <2>5 DEF IsSie
  <2>3. (sie'.pktdis <=> pid = "SETUP") /\ SameSignals(sie, sie')
    BY <2>1 DEF Types, IsSie, SameSignals
  <2> QED
    BY <2>2, <2>3
<1> QED
  BY <1>1, <1>2, <1>3, <1>5, <1>6, <1>7, <1>8 DEF b

\* The transfer of a SETUP token: a new one, or again the one before.
NewTransfer ==
  \/ /\ host.stage = "setup" /\ host'.req = host.req
  \/ /\ host.stage = "idle" /\ host'.req \in Requests /\ MayAsk(host'.req)

LEMMA SetupTokenEffect ==
  ASSUME Types, HostWays, SetupToken
  PROVE  LET b == sie.out IN
         /\ Listening /\ host.stage \in {"idle", "setup"} /\ bdOut[b].own /\ NewTransfer
         /\ SieOut("SETUP", Packet(host'.req, 0, 8)) /\ Len(sie.ustat) < 4
         /\ IsHost(host') /\ SameHost /\ host'.req \in Requests
         /\ host'.stage \in {"setup", "data", "status"} /\ host'.tog = 1
         /\ host'.stage = "data" => HasData(host'.req)
<1> DEFINE stage(h) == IF HasData(h.req) THEN "data" ELSE "status"
<1>1. PICK h \in Transfers : /\ SieOut("SETUP", Packet(h.req, 0, 8))
                             /\ Acked(h, [h EXCEPT !.stage = stage(h)])
  BY DEF SetupToken
<1>2. /\ host.stage \in {"idle", "setup"} /\ Listening /\ bdOut[sie.out].own /\ Len(sie.ustat) < 4
  BY DEF SetupToken, Listening
<1>3. /\ IsHost(h) /\ h.req \in Requests /\ h.stage = "setup" /\ h.tog = 1
      /\ h.addr = host.addr /\ (h.asleep <=> host.asleep) /\ (h.se0 <=> host.se0)
      /\ \/ host.stage = "setup" /\ h = host
         \/ host.stage = "idle" /\ MayAsk(h.req)
  <2>1. CASE host.stage = "setup"
    BY <1>1, <2>1 DEF Transfers, Types, HostWays
  <2>2. CASE host.stage # "setup"
    <3>1. PICK r \in Requests, s \in BOOLEAN : MayAsk(r) /\ h = Begun(r, s)
      BY <1>1, <2>2 DEF Transfers
    <3>4. IsHost(host)
      BY DEF Types
    <3>5. IsHost(h)
      BY <3>1, <3>4, ZenonT(30) DEF Begun, IsHost
    <3>2. h.req = r /\ h.stage = "setup" /\ h.tog = 1 /\ h.addr = host.addr
      BY <3>1, <3>4 DEF Begun, IsHost
    <3>3. (h.asleep <=> host.asleep) /\ (h.se0 <=> host.se0)
      BY <3>1 DEF Begun, Types, IsHost
    <3> QED
      BY <1>2, <2>2, <3>1, <3>2, <3>3, <3>5
  <2> QED
    BY <2>1, <2>2
<1>4. host' = h \/ host' = [h EXCEPT !.stage = stage(h)]
  BY <1>1 DEF Acked
<1>5. /\ IsHost(host') /\ host'.req = h.req /\ host'.tog = h.tog /\ host'.addr = h.addr
      /\ host'.stage \in {"setup", "data", "status"} /\ (host'.stage = "data" => HasData(h.req))
  BY <1>3, <1>4 DEF IsHost
<1>6. (host'.asleep <=> h.asleep) /\ (host'.se0 <=> h.se0)
  BY <1>3, <1>4 DEF IsHost
<1>7. SameHost /\ NewTransfer
  BY <1>3, <1>5, <1>6 DEF SameHost, NewTransfer
<1> QED
  BY <1>1, <1>2, <1>3, <1>5, <1>7

\* What becomes of the host with a packet of the data or the status stage.
Progress ==
  /\ IsHost(host') /\ (host'.asleep <=> host.asleep) /\ (host'.se0 <=> host.se0)
  /\ host'.req = host.req /\ host.stage \in {"data", "status"}
  /\ \/ /\ host'.stage \in {"data", "status"} /\ host'.addr = host.addr
        /\ (host'.stage = "data" => host.stage = "data")
        /\ (host'.stage = "status" => host'.tog = 1 \/ host' = host)
     \/ /\ host.stage = "status" /\ host'.stage = "idle"
        /\ host'.addr = IF host.req.name = "SET_ADDRESS" THEN host.req.arg ELSE host.addr
     \/ /\ host'.stage = "idle" /\ host'.result = "stall" /\ host'.addr = host.addr

LEMMA CompletedEffect ==
  ASSUME Types, host.stage = "status", host.req \in Requests, host' = Completed(host)
  PROVE  /\ Progress /\ host'.stage = "idle"
         /\ host'.addr = IF host.req.name = "SET_ADDRESS" THEN host.req.arg ELSE host.addr
<1>1. PICK v : v = IF host.req.name = "SET_ADDRESS" THEN host.req.arg ELSE host.addr
  OBVIOUS
<1>2. v \in 0 .. 127
  BY <1>1, RequestTypes DEF Types, IsHost
<1>3. PICK w \in {"short", "ok"} : w = IF host.short THEN "short" ELSE "ok"
  OBVIOUS
<1>4. host' = [[host EXCEPT !.stage = "idle", !.result = w] EXCEPT !.addr = v]
  BY <1>1, <1>3 DEF Completed, Finish, Types, IsHost
<1>5. IsHost(host') /\ host'.req = host.req /\ host'.stage = "idle" /\ host'.addr = v
  BY <1>2, <1>4 DEF Types, IsHost
<1>6. (host'.asleep <=> host.asleep) /\ (host'.se0 <=> host.se0)
  BY <1>2, <1>4 DEF Types, IsHost
<1> QED
  BY <1>1, <1>5, <1>6 DEF Progress

LEMMA RefusedEffect ==
  ASSUME Types, host.stage \in {"data", "status"}, Refused
  PROVE  /\ Progress /\ host'.stage = "idle" /\ host'.addr = host.addr
         /\ IsSie(sie') /\ SameSie /\ UNCHANGED <<bdOut, bdIn, ram, faults>>
<1>1. sie' = [sie EXCEPT !.epstall = TRUE, !.stallif = TRUE] /\ UNCHANGED <<bdOut, bdIn, ram, faults>>
  BY DEF Refused, SieStall
<1>2. host' = [host EXCEPT !.stage = "idle", !.result = "stall"]
  BY DEF Refused, Finish
<1>3. /\ IsHost(host') /\ host'.req = host.req /\ host'.addr = host.addr
      /\ host'.stage = "idle" /\ host'.result = "stall"
  BY <1>2 DEF Types, IsHost
<1>4. (host'.asleep <=> host.asleep) /\ (host'.se0 <=> host.se0)
  BY <1>2 DEF Types, IsHost
<1>5. IsSie(sie') /\ SameQueue /\ sie'.addr = sie.addr /\ (sie'.pktdis <=> sie.pktdis)
  BY <1>1 DEF Types, IsSie, SameQueue
<1>6. /\ (sie'.urstif <=> sie.urstif) /\ (sie'.idleif <=> sie.idleif)
      /\ (sie'.actvif <=> sie.actvif) /\ (sie'.suspnd <=> sie.suspnd) /\ (sie'.on <=> sie.on)
  BY <1>1 DEF Types, IsSie
<1> QED
  BY <1>1, <1>3, <1>4, <1>5, <1>6 DEF Progress, SameSie

LEMMA ReceivedEffect ==
  ASSUME Types, host.req \in Requests, host.stage \in {"data", "status"}, NEW p, NEW dts,
         host' = Received(p, dts)
  PROVE  /\ Progress
         /\ dts = host.tog /\ host.stage = "status"
            => /\ host'.stage = "idle"
               /\ host'.addr = IF host.req.name = "SET_ADDRESS" THEN host.req.arg ELSE host.addr
         /\ host'.addr = host.addr \/ (host.req.name = "SET_ADDRESS" /\ host'.stage = "idle")
<1>1. CASE dts # host.tog
  <2>1. host' = host
    BY <1>1 DEF Received
  <2> QED
    BY <1>1, <2>1 DEF Progress, Types
<1>2. CASE dts = host.tog /\ host.stage = "status"
  <2>1. host' = Completed(host)
    BY <1>2 DEF Received
  <2> QED
    BY <1>2, <2>1, CompletedEffect
<1>3. CASE dts = host.tog /\ host.stage = "data"
  <2> DEFINE got == Packet(IF p.len = 0 /\ host.got.len > 0 THEN host.got.of ELSE p.of,
                           0, host.got.len + p.len)
             over == got.len >= host.req.len \/ p.len < Ep0Size
             exact == /\ host.exact
                      /\ (p.len = 0 \/ /\ p.off = host.got.len
                                       /\ host.got.len = 0 \/ p.of = host.got.of)
                      /\ got.len <= host.req.len
  <2>1. host' = [host EXCEPT !.got = got, !.exact = exact,
                             !.tog = IF over THEN 1 ELSE 1 - host.tog,
                             !.stage = IF over THEN "status" ELSE "data"]
    BY <1>3, Zenon DEF Received
  <2> HIDE DEF got, over, exact
  <2>2. /\ IsHost(host') /\ host'.req = host.req /\ host'.addr = host.addr
        /\ host'.stage \in {"data", "status"} /\ (host'.stage = "status" => host'.tog = 1)
    <3>1. CASE over
      BY <1>3, <2>1, <3>1 DEF Types, IsHost
    <3>2. CASE ~over
      <4>1. 1 - host.tog \in {0, 1}
        BY DEF Types, IsHost
      <4> QED
        BY <1>3, <2>1, <3>2, <4>1 DEF Types, IsHost
    <3> QED
      BY <3>1, <3>2
  <2>3. (host'.asleep <=> host.asleep) /\ (host'.se0 <=> host.se0)
    BY <2>1 DEF Types, IsHost
  <2> QED
    BY <1>3, <2>2, <2>3 DEF Progress
<1> QED
  BY <1>1, <1>2, <1>3

LEMMA InTokenEffect ==
  ASSUME Types, HostWays, InToken
  PROVE  LET b == sie.in IN
         /\ InStage /\ Listening /\ b \in InBDs /\ bdIn[b].own /\ Progress
         /\ UNCHANGED <<bdOut, ram>> /\ IsSie(sie') /\ bdIn' \in [InBDs -> BDType] /\ Len(sie'.ustat) <= 4
         /\ host'.addr = host.addr \/ (host.req.name = "SET_ADDRESS" /\ host'.stage = "idle")
         /\ ~bdIn[b].stall /\ bdIn[b].dts = host.tog /\ host.stage = "status"
            => /\ host'.stage = "idle"
               /\ host'.addr = IF host.req.name = "SET_ADDRESS" THEN host.req.arg ELSE host.addr
         /\ \/ UNCHANGED bdIn /\ SameSie
            \/ /\ ~bdIn[b].stall /\ ~bdIn'[b].own /\ \A c \in InBDs : c # b => bdIn'[c] = bdIn[c]
               /\ sie'.ustat = Append(sie.ustat, [dir |-> "in", bd |-> b]) /\ [dir |-> "in", bd |-> b] \in Queue
               /\ sie'.in = NextIn(b) /\ sie'.out = sie.out /\ sie'.addr = sie.addr
               /\ (sie'.pktdis <=> sie.pktdis) /\ SameSignals(sie, sie')
<1> DEFINE b == sie.in
           p == Packet(ram.CtrlTrfData.of, ram.CtrlTrfData.off, bdIn[b].cnt)
<1>1. /\ InStage /\ Listening /\ bdIn[b].own /\ host.stage \in {"data", "status"}
      /\ host.req \in Requests /\ b \in InBDs /\ NextIn(b) \in InBDs /\ Len(sie.ustat) < 4
  BY Constants DEF InToken, InStage, Listening, HostWays, Types, IsSie
<1>2. bdIn \in [InBDs -> BDType] /\ Len(sie.ustat) <= 4
  BY DEF Types, RestOK
<1>3. CASE bdIn[b].stall
  <2>1. Refused
    BY <1>3 DEF InToken
  <2>2. /\ Progress /\ host'.stage = "idle" /\ host'.addr = host.addr
        /\ IsSie(sie') /\ SameSie /\ UNCHANGED <<bdOut, bdIn, ram, faults>>
    BY <1>1, <2>1, RefusedEffect
  <2>3. bdIn' \in [InBDs -> BDType] /\ Len(sie'.ustat) <= 4
    BY <1>2, <2>2 DEF SameSie, SameQueue
  <2> QED
    BY <1>1, <1>3, <2>2, <2>3
<1>4. CASE ~bdIn[b].stall
  <2>1. /\ host' = Received(p, bdIn[b].dts) /\ UNCHANGED <<bdOut, ram>>
        /\ \/ /\ bdIn' = [bdIn EXCEPT ![b].own = FALSE, ![b].dtsen = FALSE, ![b].pid = "IN"]
              /\ sie' = [sie EXCEPT !.in = NextIn(b), !.ustat = Done("in", b)]
           \/ UNCHANGED <<bdIn, sie>>
    BY <1>4 DEF InToken
  <2>2. /\ Progress
        /\ bdIn[b].dts = host.tog /\ host.stage = "status"
            => /\ host'.stage = "idle"
               /\ host'.addr = IF host.req.name = "SET_ADDRESS" THEN host.req.arg ELSE host.addr
        /\ host'.addr = host.addr \/ (host.req.name = "SET_ADDRESS" /\ host'.stage = "idle")
    BY <1>1, <2>1, ReceivedEffect
  <2> HIDE DEF b
  <2>3. CASE UNCHANGED <<bdIn, sie>>
    <3>1. SameSie /\ IsSie(sie') /\ bdIn' \in [InBDs -> BDType] /\ Len(sie'.ustat) <= 4
      BY <1>2, <2>3 DEF Types, SameSie, SameQueue
    <3> QED
      BY <1>1, <1>4, <2>1, <2>2, <2>3, <3>1 DEF b
  <2>4. CASE /\ bdIn' = [bdIn EXCEPT ![b].own = FALSE, ![b].dtsen = FALSE, ![b].pid = "IN"]
             /\ sie' = [sie EXCEPT !.in = NextIn(b), !.ustat = Done("in", b)]
    <3>1. /\ [dir |-> "in", bd |-> b] \in Queue
          /\ Append(sie.ustat, [dir |-> "in", bd |-> b]) \in Seq(Queue)
          /\ Len(Append(sie.ustat, [dir |-> "in", bd |-> b])) <= 4
      <4>1. [dir |-> "in", bd |-> b] \in Queue
        BY <1>1 DEF Queue
      <4>2. sie.ustat \in Seq(Queue)
        BY DEF Types, IsSie
      <4> QED
        BY <1>1, <4>1, <4>2, AppendProperties
    <3>2. sie' = [sie EXCEPT !.in = NextIn(b), !.ustat = Append(sie.ustat, [dir |-> "in", bd |-> b])]
      BY <2>4 DEF Done
    <3>3. /\ IsSie(sie') /\ sie'.ustat = Append(sie.ustat, [dir |-> "in", bd |-> b])
          /\ sie'.in = NextIn(b) /\ sie'.out = sie.out /\ sie'.addr = sie.addr
      BY <1>1, <3>1, <3>2 DEF Types, IsSie
    <3>4. (sie'.pktdis <=> sie.pktdis) /\ SameSignals(sie, sie')
      BY <3>2 DEF Types, IsSie, SameSignals
    <3>5. bdIn' \in [InBDs -> BDType] /\ ~bdIn'[b].own /\ \A c \in InBDs : c # b => bdIn'[c] = bdIn[c]
      <4> DEFINE r == [bdIn[b] EXCEPT !.own = FALSE, !.dtsen = FALSE, !.pid = "IN"]
      <4>1. r \in BDType /\ ~r.own
        BY <1>1, <1>2 DEF BDType
      <4>2. bdIn' = [bdIn EXCEPT ![b] = r]
        BY <1>1, <1>2, <2>4
      <4> HIDE DEF r
      <4> QED
        BY <1>1, <1>2, <4>1, <4>2
    <3> QED
      BY <1>1, <1>4, <2>1, <2>2, <3>1, <3>3, <3>4, <3>5 DEF b
  <2> QED
    BY <2>1, <2>3, <2>4
<1> QED
  BY <1>3, <1>4

LEMMA OutTokenEffect ==
  ASSUME Types, HostWays, OutToken
  PROVE  LET b == sie.out IN
         /\ Listening /\ bdOut[b].own /\ Progress /\ host.req.name # "SET_ADDRESS"
         /\ host'.addr = host.addr /\ Len(sie.ustat) < 4
         /\ \/ UNCHANGED <<bdOut, bdIn, ram>> /\ SameSie /\ IsSie(sie')
            \/ \E packet : packet.len \in Nat /\ SieOut("OUT", packet)
<1> DEFINE b == sie.out
           len == IF host.stage = "status" \/ host.short THEN 0 ELSE host.req.len
           next == IF host.stage = "status" THEN Completed(host)
                   ELSE [host EXCEPT !.stage = "status", !.tog = 1]
           packet == Packet(Payload(host.req), 0, len)
<1>1. /\ OutStage /\ Listening /\ bdOut[b].own /\ host.stage \in {"data", "status"}
      /\ host.req \in Requests /\ Len(sie.ustat) < 4
  BY DEF OutToken, OutStage, Listening, HostWays
<1>2. host.req.name # "SET_ADDRESS"
  BY <1>1 DEF OutStage, IsRead, Reads, HostWays
<1>3. /\ IF bdOut[b].stall THEN Refused
         ELSE IF bdOut[b].dtsen /\ bdOut[b].dts # host.tog
         THEN host' = next /\ UNCHANGED <<bdOut, bdIn, sie, ram, faults>>
         ELSE SieOut("OUT", packet) /\ Acked(host, next)
  BY DEF OutToken
<1>4. packet.len \in Nat
  BY <1>1, RequestTypes DEF Packet
<1> HIDE DEF packet
<1>5. ASSUME host' = next PROVE Progress /\ host'.addr = host.addr
  <2>1. CASE host.stage = "status"
    <3>1. host' = Completed(host)
      BY <1>5, <2>1
    <3> QED
      BY <1>1, <1>2, <2>1, <3>1, CompletedEffect
  <2>2. CASE host.stage = "data"
    <3>1. host' = [host EXCEPT !.stage = "status", !.tog = 1]
      BY <1>5, <2>2
    <3>2. /\ IsHost(host') /\ host'.req = host.req /\ host'.addr = host.addr
          /\ host'.stage = "status" /\ host'.tog = 1
      BY <3>1 DEF Types, IsHost
    <3>3. (host'.asleep <=> host.asleep) /\ (host'.se0 <=> host.se0)
      BY <3>1 DEF Types, IsHost
    <3> QED
      BY <2>2, <3>2, <3>3 DEF Progress
  <2> QED
    BY <1>1, <2>1, <2>2
<1>6. ASSUME host' = host PROVE Progress /\ host'.addr = host.addr
  BY <1>1, <1>6 DEF Progress, Types
<1>7. CASE Refused
  BY <1>1, <1>2, <1>7, RefusedEffect
<1>8. CASE host' = next /\ UNCHANGED <<bdOut, bdIn, sie, ram, faults>>
  BY <1>1, <1>2, <1>5, <1>8 DEF Types, SameSie, SameQueue
<1>9. CASE SieOut("OUT", packet) /\ Acked(host, next)
  <2>1. host' = host \/ host' = next
    BY <1>9 DEF Acked
  <2>2. Progress /\ host'.addr = host.addr
    BY <1>5, <1>6, <2>1
  <2> QED
    BY <1>1, <1>2, <1>4, <1>9, <2>2
<1> QED
  BY <1>3, <1>7, <1>8, <1>9

LEMMA GiveUpEffect ==
  ASSUME Types, GiveUp
  PROVE  /\ UNCHANGED <<bdOut, bdIn, sie, ram>> /\ IsHost(host') /\ SameHost
         /\ host.stage # "idle" /\ host'.stage = "idle" /\ host'.result = "gaveup" /\ host'.req = host.req
<1>1. host' = [host EXCEPT !.stage = "idle", !.result = "gaveup"] /\ host.stage # "idle"
      /\ UNCHANGED <<bdOut, bdIn, sie, ram>>
  BY DEF GiveUp, Finish
<1>2. IsHost(host') /\ host'.stage = "idle" /\ host'.result = "gaveup" /\ host'.req = host.req
      /\ host'.addr = host.addr
  BY <1>1 DEF Types, IsHost
<1>3. SameHost
  BY <1>1 DEF Types, IsHost, SameHost
<1> QED
  BY <1>1, <1>2, <1>3

LEMMA BusResetEffect ==
  ASSUME Types, NEW free, BusReset(free)
  PROVE  /\ UNCHANGED <<bdOut, bdIn, ram>> /\ IsHost(host') /\ IsSie(sie') /\ sie.on
         /\ host'.stage = "idle" /\ host'.addr = 0 /\ host'.se0 /\ ~host'.asleep
         /\ SameQueue /\ (sie'.pktdis <=> sie.pktdis) /\ sie'.urstif /\ sie'.addr = 0
         /\ (sie'.idleif <=> sie.idleif) /\ (sie'.actvif <=> sie.actvif \/ host.asleep)
         /\ (sie'.suspnd <=> sie.suspnd) /\ (sie'.on <=> sie.on)
<1>1. /\ host' = [HostInit EXCEPT !.se0 = TRUE] /\ sie.on /\ UNCHANGED <<bdOut, bdIn, ram>>
      /\ sie' = [sie EXCEPT !.urstif = TRUE, !.addr = 0, !.actvif = sie.actvif \/ host.asleep]
  BY DEF BusReset
<1>2. IsHost(host') /\ host'.stage = "idle" /\ host'.addr = 0 /\ host'.se0 /\ ~host'.asleep
  <2>1. host' = [stage |-> "idle", addr |-> 0, req |-> NoRequest, tog |-> 0,
                 got |-> Empty, exact |-> TRUE, result |-> "none", short |-> FALSE,
                 asleep |-> FALSE, se0 |-> TRUE]
    BY <1>1 DEF HostInit
  <2> QED
    BY <2>1 DEF IsHost
<1>3. PICK v \in BOOLEAN : (v <=> sie.actvif \/ host.asleep) /\ v = (sie.actvif \/ host.asleep)
  OBVIOUS
<1>4. sie' = [sie EXCEPT !.urstif = TRUE, !.addr = 0, !.actvif = v]
  BY <1>1, <1>3
<1>5. IsSie(sie') /\ SameQueue /\ sie'.urstif /\ sie'.addr = 0 /\ (sie'.actvif <=> v)
  <2>1. IsSie(sie')
    <3> DEFINE t == [sie EXCEPT !.urstif = TRUE, !.addr = 0]
    <3>1. IsSie(t)
      <4>1. 0 \in 0 .. 127
        OBVIOUS
      <4> QED
        BY <4>1 DEF Types, IsSie
    <3>2. sie' = [t EXCEPT !.actvif = v]
      BY <1>4 DEF Types, IsSie
    <3> HIDE DEF t
    <3> QED
      BY <3>1, <3>2 DEF IsSie
  <2>2. SameQueue /\ sie'.addr = 0
    BY <1>4 DEF Types, IsSie, SameQueue
  <2>3. sie'.urstif /\ (sie'.actvif <=> v)
    BY <1>4 DEF Types, IsSie
  <2> QED
    BY <2>1, <2>2, <2>3
<1>6. /\ (sie'.pktdis <=> sie.pktdis) /\ (sie'.idleif <=> sie.idleif)
      /\ (sie'.suspnd <=> sie.suspnd) /\ (sie'.on <=> sie.on)
  BY <1>4 DEF Types, IsSie
<1> QED
  BY <1>1, <1>2, <1>3, <1>5, <1>6

LEMMA EndResetEffect ==
  ASSUME Types, EndReset
  PROVE  /\ UNCHANGED <<bdOut, bdIn, ram, sie>> /\ IsHost(host') /\ host.se0 /\ ~host'.se0
         /\ host'.stage = host.stage /\ host'.addr = host.addr /\ host'.req = host.req
         /\ host'.tog = host.tog /\ host'.result = host.result /\ (host'.asleep <=> host.asleep)
<1>1. host' = [host EXCEPT !.se0 = FALSE] /\ host.se0 /\ UNCHANGED <<bdOut, bdIn, ram, sie>>
  BY DEF EndReset
<1> QED
  BY <1>1 DEF Types, IsHost

LEMMA SleepEffect ==
  ASSUME Types, Sleep
  PROVE  /\ UNCHANGED <<bdOut, bdIn, ram>> /\ IsHost(host') /\ IsSie(sie')
         /\ ~host.asleep /\ host.stage = "idle"
         /\ ~host.se0 /\ ~host'.se0 /\ host'.asleep /\ sie.on /\ ~sie.actvif /\ ~sie.urstif /\ sie.ustat = <<>>
         /\ host'.stage = host.stage /\ host'.addr = host.addr /\ host'.req = host.req
         /\ host'.tog = host.tog /\ host'.result = host.result
         /\ SameQueue /\ sie'.addr = sie.addr /\ (sie'.pktdis <=> sie.pktdis) /\ sie'.idleif
         /\ (sie'.urstif <=> sie.urstif) /\ (sie'.actvif <=> sie.actvif)
         /\ (sie'.suspnd <=> sie.suspnd) /\ (sie'.on <=> sie.on)
<1>1. /\ host' = [host EXCEPT !.asleep = TRUE] /\ sie' = [sie EXCEPT !.idleif = TRUE]
      /\ UNCHANGED <<bdOut, bdIn, ram>> /\ sie.on /\ ~sie.actvif /\ ~sie.urstif /\ ~host.se0
      /\ sie.ustat = <<>> /\ ~host.asleep /\ host.stage = "idle"
  BY DEF Sleep
<1>2. /\ IsHost(host') /\ host'.stage = host.stage /\ host'.addr = host.addr /\ host'.req = host.req
      /\ host'.tog = host.tog /\ host'.result = host.result /\ host'.asleep /\ ~host'.se0
  BY <1>1 DEF Types, IsHost
<1>3. IsSie(sie') /\ SameQueue /\ sie'.addr = sie.addr /\ (sie'.pktdis <=> sie.pktdis) /\ sie'.idleif
  BY <1>1 DEF Types, IsSie, SameQueue
<1>4. /\ (sie'.urstif <=> sie.urstif) /\ (sie'.actvif <=> sie.actvif)
      /\ (sie'.suspnd <=> sie.suspnd) /\ (sie'.on <=> sie.on)
  BY <1>1 DEF Types, IsSie
<1> QED
  BY <1>1, <1>2, <1>3, <1>4

LEMMA ResumeEffect ==
  ASSUME Types, Resume
  PROVE  /\ UNCHANGED <<bdOut, bdIn, ram>> /\ IsHost(host') /\ IsSie(sie')
         /\ host.asleep /\ ~host'.asleep /\ (host'.se0 <=> host.se0)
         /\ host'.stage = host.stage /\ host'.addr = host.addr /\ host'.req = host.req
         /\ host'.tog = host.tog /\ host'.result = host.result
         /\ SameQueue /\ sie'.addr = sie.addr /\ (sie'.pktdis <=> sie.pktdis) /\ sie'.actvif
         /\ (sie'.urstif <=> sie.urstif) /\ (sie'.idleif <=> sie.idleif)
         /\ (sie'.suspnd <=> sie.suspnd) /\ (sie'.on <=> sie.on)
<1>1. /\ host' = [host EXCEPT !.asleep = FALSE] /\ sie' = [sie EXCEPT !.actvif = TRUE]
      /\ UNCHANGED <<bdOut, bdIn, ram>> /\ host.asleep
  BY DEF Resume
<1>2. /\ IsHost(host') /\ host'.stage = host.stage /\ host'.addr = host.addr /\ host'.req = host.req
      /\ host'.tog = host.tog /\ host'.result = host.result /\ ~host'.asleep /\ (host'.se0 <=> host.se0)
  BY <1>1 DEF Types, IsHost
<1>3. IsSie(sie') /\ SameQueue /\ sie'.addr = sie.addr /\ (sie'.pktdis <=> sie.pktdis) /\ sie'.actvif
  BY <1>1 DEF Types, IsSie, SameQueue
<1>4. /\ (sie'.urstif <=> sie.urstif) /\ (sie'.idleif <=> sie.idleif)
      /\ (sie'.suspnd <=> sie.suspnd) /\ (sie'.on <=> sie.on)
  BY <1>1 DEF Types, IsSie
<1> QED
  BY <1>1, <1>2, <1>3, <1>4

-----------------------------------------------------------------------------
(* Suspend and wake-up. *)

LEMMA IdlingFirmware ==
  ASSUME Types, Idling, SetupKnown, OpenNext, Tx => fw.flag2,
         fw.USBDeviceState = "ADR_PENDING_STATE" => IsSetAddress(ram.SetupPkt.of),
         pc = "arm" => ram.SetupPkt.of \in Requests, Firmware
  PROVE  Idling'
<1>1. CASE USBDeviceAttach
  <2>1. pc = "attach" /\ pc' = "main" /\ host' = host
    BY <1>1 DEF USBDeviceAttach
  <2> QED
    BY <1>1, <2>1, AttachEffect DEF Idling
<1>2. CASE TasksEnter
  <2>1. pc = "main" /\ host' = host
    BY <1>2 DEF TasksEnter
  <2>2. CASE fw.USBDeviceState = "ATTACHED_STATE" /\ ~host.se0
    BY <1>2, <2>1, <2>2, EnterEffect DEF Idling
  <2>3. CASE ~(fw.USBDeviceState = "ATTACHED_STATE" /\ ~host.se0) /\ sie.actvif /\ fw.ACTVIE
    <3>1. /\ fw'.USBDeviceState = fw.USBDeviceState /\ (sie'.urstif <=> sie.urstif)
          /\ (sie'.idleif <=> sie.idleif) /\ ~fw'.ACTVIE /\ ~sie'.suspnd
          /\ pc' = "bus"
      BY <1>2, <2>3, EnterEffect
    <3> QED
      BY <2>1, <2>3, <3>1 DEF Idling
  <2>4. CASE ~(fw.USBDeviceState = "ATTACHED_STATE" /\ ~host.se0) /\ ~(sie.actvif /\ fw.ACTVIE)
    <3>1. /\ fw'.USBDeviceState = fw.USBDeviceState /\ (sie'.urstif <=> sie.urstif)
          /\ (sie'.idleif <=> sie.idleif) /\ (fw'.ACTVIE <=> fw.ACTVIE)
          /\ (sie'.suspnd <=> sie.suspnd) /\ (sie'.actvif <=> sie.actvif)
          /\ pc' = IF sie'.suspnd THEN "main" ELSE "bus"
      BY <1>2, <2>4, EnterEffect
    <3> QED
      BY <2>1, <2>4, <3>1 DEF Idling
  <2> QED
    BY <2>2, <2>3, <2>4
<1>3. CASE TasksBus
  <2>1. /\ pc = "bus" /\ pc' = "sof" /\ UNCHANGED <<ram, host, faults, loop, handover>>
        /\ \/ sie.urstif /\ Reset
           \/ ~sie.urstif /\ sie.idleif /\ USBSuspend
           \/ ~sie.urstif /\ ~sie.idleif /\ UNCHANGED <<bdOut, bdIn, sie, fw, app>>
    BY <1>3, BusWays
  <2>2. CASE Reset
    BY <2>1, <2>2, ResetEffect DEF Idling
  <2>3. CASE ~sie.urstif /\ sie.idleif /\ USBSuspend
    BY <2>1, <2>3, SuspendEffect DEF Idling
  <2>4. CASE UNCHANGED <<bdOut, bdIn, sie, fw, app>>
    BY <2>1, <2>4 DEF Idling
  <2> QED
    BY <2>1, <2>2, <2>3, <2>4
<1>4. CASE TasksSof
  BY <1>4, SofEffect DEF Idling, SameDevice, TasksSof, busVars
<1>5. CASE TasksNoSof
  BY <1>5, NoSofEffect DEF Idling, TasksNoSof, busVars
<1>6. CASE TasksStall
  BY <1>6, StallEffect DEF Idling, TasksStall, SameSie
<1>7. CASE CtrlTrfSetup
  BY <1>7, SetupEffect DEF Idling, SameSignals
<1>8. CASE StdSetCfg
  BY <1>8, StdSetCfgEffect DEF Idling, SameSignals
<1>9. CASE CtrlEPServiceComplete
  <2>1. /\ pc = "arm" /\ pc' = "trn" /\ UNCHANGED <<sie, host>>
        /\ ArmWrite \/ ArmStall \/ ArmRead \/ ArmStatus
    BY <1>9 DEF CtrlEPServiceComplete
  <2>2. SameDevice(fw, fw')
    BY <2>1, ArmWriteEffect, ArmStallEffect, ArmReadEffect, ArmStatusEffect DEF SameFw
  <2> QED
    BY <2>1, <2>2 DEF Idling, SameDevice
<1>10. CASE CtrlTrfRx
  BY <1>10, RxEffect DEF Idling, Received1, SameDevice, SameSignals
<1>11. CASE CtrlTrfOut
  BY <1>11, OutEffect DEF Idling, Received1, SameDevice, SameSignals
<1>12. CASE CtrlTrfIn
  <2>1. /\ pc = "trn" /\ pc' = "trn" /\ host' = host /\ SameSignals(sie, sie')
        /\ (fw'.ACTVIE <=> fw.ACTVIE)
        /\ fw'.USBDeviceState = IF fw.USBDeviceState = "ADR_PENDING_STATE" THEN "ADDRESS_STATE"
                                                                          ELSE fw.USBDeviceState
    BY <1>12, InEffect
  <2> QED
    BY <2>1 DEF Idling, SameSignals
<1>13. CASE TasksLeave
  BY <1>13, LeaveEffect DEF Idling, busVars
<1>14. CASE HandOver
  BY <1>14, HandOverEffect DEF Idling
<1> QED
  BY <1>1, <1>2, <1>3, <1>4, <1>5, <1>6, <1>7, <1>8, <1>9, <1>10, <1>11, <1>12, <1>13, <1>14
     DEF Firmware

LEMMA IdlingHost ==
  ASSUME Types, Idling, HostWays, HostStep, UNCHANGED fwVars
  PROVE  Idling'
<1> USE DEF fwVars
<1>1. CASE SetupToken
  <2>1. /\ SameHost /\ SieOut("SETUP", Packet(host'.req, 0, 8)) /\ Len(sie.ustat) < 4
    BY <1>1, SetupTokenEffect
  <2>2. SameSignals(sie, sie')
    <3>1. Packet(host'.req, 0, 8).len \in Nat
      BY DEF Packet
    <3> QED
      BY <2>1, <3>1, SieOutEffect
  <2> QED
    BY <2>1, <2>2 DEF Idling, SameSignals, SameHost
<1>2. CASE InToken
  <2>1. /\ (host'.asleep <=> host.asleep) /\ (host'.se0 <=> host.se0)
        /\ SameSie \/ SameSignals(sie, sie')
    BY <1>2, InTokenEffect DEF Progress
  <2>2. SameSignals(sie, sie')
    BY <2>1 DEF SameSie, SameSignals
  <2> QED
    BY <2>1, <2>2 DEF Idling, SameSignals
<1>3. CASE OutToken
  <2>1. /\ (host'.asleep <=> host.asleep) /\ (host'.se0 <=> host.se0) /\ Len(sie.ustat) < 4
        /\ SameSie \/ (\E packet : packet.len \in Nat /\ SieOut("OUT", packet))
    BY <1>3, OutTokenEffect DEF Progress
  <2>2. SameSignals(sie, sie')
    BY <2>1, SieOutEffect DEF SameSie, SameSignals
  <2> QED
    BY <2>1, <2>2 DEF Idling, SameSignals
<1>4. CASE GiveUp
  BY <1>4, GiveUpEffect DEF Idling, SameHost
<1>5. CASE BusReset(Unanswered)
  BY <1>5, BusResetEffect DEF Idling
<1>6. CASE EndReset
  BY <1>6, EndResetEffect DEF Idling
<1>7. CASE Sleep
  BY <1>7, SleepEffect DEF Idling
<1>8. CASE Resume
  BY <1>8, ResumeEffect DEF Idling
<1> QED
  BY <1>1, <1>2, <1>3, <1>4, <1>5, <1>6, <1>7, <1>8 DEF HostStep, Token

-----------------------------------------------------------------------------
(* Who owns the descriptors: queue and handover step by step. *)

QueueTypes == sie.ustat \in Seq(Queue)

LEMMA PopQueue ==
  ASSUME Types, sie.ustat # <<>>, sie'.ustat = Tail(sie.ustat), QueueOnce
  PROVE  /\ QueueOnce'
         /\ sie.ustat[1].dir = "out"
            => /\ \A c \in OutBDs : QueuedOut(c)' <=> QueuedOut(c) /\ c # sie.ustat[1].bd
               /\ QueuedOut(sie.ustat[1].bd) /\ (QueuedIn' <=> QueuedIn)
         /\ sie.ustat[1].dir = "in"
            => /\ \A c \in OutBDs : QueuedOut(c)' <=> QueuedOut(c)
               /\ ~QueuedIn' /\ QueuedIn
         /\ OutNext /\ sie'.out = sie.out => OutNext'
<1>1. /\ sie.ustat \in Seq(Queue) /\ Len(sie.ustat) \in Nat /\ Len(sie.ustat) > 0
      /\ DOMAIN sie.ustat = 1 .. Len(sie.ustat) /\ \A k \in DOMAIN sie.ustat : sie.ustat[k] \in Queue
  BY SeqFacts DEF Types, IsSie
<1>2. /\ sie'.ustat \in Seq(Queue) /\ Len(sie'.ustat) = Len(sie.ustat) - 1
      /\ DOMAIN sie'.ustat = 1 .. Len(sie.ustat) - 1
      /\ \A k \in 1 .. Len(sie.ustat) - 1 : sie'.ustat[k] = sie.ustat[k + 1]
  BY <1>1, SeqFacts
<1> DEFINE q == sie.ustat
           r == sie'.ustat
           n == Len(sie.ustat)
<1>3. /\ n \in Nat /\ n > 0 /\ DOMAIN q = 1 .. n /\ DOMAIN r = 1 .. n - 1
      /\ \A k \in 1 .. n - 1 : k + 1 \in 1 .. n /\ r[k] = q[k + 1]
      /\ \A k \in 1 .. n : k # 1 => k - 1 \in 1 .. n - 1 /\ r[k - 1] = q[k]
  BY <1>1, <1>2
<1>4. \A k \in 1 .. n : q[k].dir \in {"out", "in"}
  BY <1>1 DEF Queue
<1>5. QueueOnce'
  <2> SUFFICES ASSUME NEW j \in 1 .. n - 1, NEW k \in 1 .. n - 1, r[j].dir = r[k].dir,
                      r[j].dir = "out" => r[j].bd = r[k].bd
               PROVE  j = k
    BY <1>3 DEF QueueOnce
  <2>1. j + 1 \in 1 .. n /\ k + 1 \in 1 .. n /\ r[j] = q[j + 1] /\ r[k] = q[k + 1]
    BY <1>3
  <2>2. j + 1 = k + 1
    BY <1>3, <2>1 DEF QueueOnce
  <2> QED
    BY <1>3, <2>2
<1>6. \A k \in 1 .. n : k # 1 /\ q[k].dir = "in" => q[1].dir # "in"
  BY <1>3 DEF QueueOnce
<1>7. \A k \in 1 .. n : k # 1 /\ q[k].dir = "out" /\ q[1].dir = "out" => q[1].bd # q[k].bd
  BY <1>3 DEF QueueOnce
<1>8. \A c \in OutBDs : QueuedOut(c)' <=> \E k \in 1 .. n : k # 1 /\ q[k].dir = "out" /\ q[k].bd = c
  <2> SUFFICES ASSUME NEW c \in OutBDs
               PROVE  QueuedOut(c)' <=> \E k \in 1 .. n : k # 1 /\ q[k].dir = "out" /\ q[k].bd = c
    OBVIOUS
  <2>1. QueuedOut(c)' <=> \E k \in 1 .. n - 1 : r[k].dir = "out" /\ r[k].bd = c
    BY <1>3 DEF QueuedOut
  <2>2. ASSUME NEW k \in 1 .. n - 1, r[k].dir = "out", r[k].bd = c
        PROVE  k + 1 \in 1 .. n /\ k + 1 # 1 /\ q[k + 1].dir = "out" /\ q[k + 1].bd = c
    BY <1>3, <2>2
  <2>3. ASSUME NEW k \in 1 .. n, k # 1, q[k].dir = "out", q[k].bd = c
        PROVE  k - 1 \in 1 .. n - 1 /\ r[k - 1].dir = "out" /\ r[k - 1].bd = c
    BY <1>3, <2>3
  <2> QED
    BY <2>1, <2>2, <2>3
<1>9. QueuedIn' <=> \E k \in 1 .. n : k # 1 /\ q[k].dir = "in"
  <2>1. QueuedIn' <=> \E k \in 1 .. n - 1 : r[k].dir = "in"
    BY <1>3 DEF QueuedIn
  <2>2. ASSUME NEW k \in 1 .. n - 1, r[k].dir = "in"
        PROVE  k + 1 \in 1 .. n /\ k + 1 # 1 /\ q[k + 1].dir = "in"
    BY <1>3, <2>2
  <2>3. ASSUME NEW k \in 1 .. n, k # 1, q[k].dir = "in"
        PROVE  k - 1 \in 1 .. n - 1 /\ r[k - 1].dir = "in"
    BY <1>3, <2>3
  <2> QED
    BY <2>1, <2>2, <2>3
<1>10. /\ \A c \in OutBDs : QueuedOut(c) <=> \E k \in 1 .. n : q[k].dir = "out" /\ q[k].bd = c
       /\ QueuedIn <=> \E k \in 1 .. n : q[k].dir = "in"
       /\ q[1].dir = "out" => q[1].bd \in OutBDs /\ QueuedOut(q[1].bd)
  BY <1>1, <1>3 DEF QueuedOut, QueuedIn, Queue
<1>11. ASSUME OutNext, sie'.out = sie.out
       PROVE  OutNext'
  <2> SUFFICES ASSUME NEW k \in 1 .. n - 1, r[k].dir = "out",
                      \A j \in 1 .. n - 1 : j > k => r[j].dir # "out"
               PROVE  sie'.out = OtherOut(r[k].bd)
    BY <1>3 DEF OutNext
  <2>1. k + 1 \in 1 .. n /\ q[k + 1].dir = "out"
    BY <1>3
  <2>2. ASSUME NEW j \in 1 .. n, j > k + 1
        PROVE  q[j].dir # "out"
    <3>1. j # 1 /\ j - 1 \in 1 .. n - 1 /\ j - 1 > k
      BY <1>3, <2>2
    <3> QED
      BY <1>3, <3>1
  <2>3. sie.out = OtherOut(q[k + 1].bd)
    BY <1>3, <1>11, <2>1, <2>2 DEF OutNext
  <2> QED
    BY <1>3, <1>11, <2>3
<1> HIDE DEF q, r, n
<1>12. CASE q[1].dir = "out"
  <2>1. \A c \in OutBDs : QueuedOut(c)' <=> QueuedOut(c) /\ c # q[1].bd
    <3> SUFFICES ASSUME NEW c \in OutBDs
                 PROVE  QueuedOut(c)' <=> QueuedOut(c) /\ c # q[1].bd
      OBVIOUS
    <3>1. (\E k \in 1 .. n : k # 1 /\ q[k].dir = "out" /\ q[k].bd = c)
          <=> (\E k \in 1 .. n : q[k].dir = "out" /\ q[k].bd = c) /\ c # q[1].bd
      BY <1>7, <1>12
    <3> QED
      BY <1>8, <1>10, <3>1, Zenon
  <2>2. QueuedOut(q[1].bd)
    BY <1>10, <1>12
  <2>3. QueuedIn' <=> QueuedIn
    BY <1>9, <1>10, <1>12
  <2> QED
    BY <1>5, <1>11, <1>12, <2>1, <2>2, <2>3 DEF q
<1>13. CASE q[1].dir = "in"
  <2>1. \A c \in OutBDs : QueuedOut(c)' <=> QueuedOut(c)
    <3> SUFFICES ASSUME NEW c \in OutBDs
                 PROVE  QueuedOut(c)' <=> QueuedOut(c)
      OBVIOUS
    <3>1. (\E k \in 1 .. n : k # 1 /\ q[k].dir = "out" /\ q[k].bd = c)
          <=> (\E k \in 1 .. n : q[k].dir = "out" /\ q[k].bd = c)
      BY <1>13
    <3> QED
      BY <1>8, <1>10, <3>1, Zenon
  <2>2. QueuedIn /\ ~QueuedIn'
    BY <1>3, <1>6, <1>9, <1>10, <1>13
  <2> QED
    BY <1>5, <1>11, <1>13, <2>1, <2>2 DEF q
<1> QED
  BY <1>3, <1>4, <1>12, <1>13

LEMMA PushQueue ==
  ASSUME Types, NEW e \in Queue, sie'.ustat = Append(sie.ustat, e), QueueOnce,
         e.dir = "out" => ~QueuedOut(e.bd), e.dir = "in" => ~QueuedIn
  PROVE  /\ QueueOnce'
         /\ \A c \in OutBDs : QueuedOut(c)' <=> QueuedOut(c) \/ (e.dir = "out" /\ c = e.bd)
         /\ QueuedIn' <=> QueuedIn \/ e.dir = "in"
         /\ OutNext /\ (IF e.dir = "out" THEN sie'.out = OtherOut(e.bd) ELSE sie'.out = sie.out) => OutNext'
         /\ sie'.ustat # <<>> /\ Len(sie'.ustat) = Len(sie.ustat) + 1 /\ sie'.ustat[Len(sie'.ustat)] = e
         /\ Len(sie.ustat) \in Nat /\ DOMAIN sie.ustat = 1 .. Len(sie.ustat)
         /\ DOMAIN sie'.ustat = 1 .. Len(sie.ustat) + 1
         /\ \A k \in DOMAIN sie.ustat : sie'.ustat[k] = sie.ustat[k]
<1> DEFINE q == sie.ustat
           r == sie'.ustat
           n == Len(sie.ustat)
<1>1. /\ q \in Seq(Queue) /\ n \in Nat /\ DOMAIN q = 1 .. n /\ \A k \in 1 .. n : q[k] \in Queue
  BY SeqFacts DEF Types, IsSie
<1>2. /\ r \in Seq(Queue) /\ Len(r) = n + 1 /\ DOMAIN r = 1 .. n + 1 /\ r[n + 1] = e
      /\ \A k \in 1 .. n : r[k] = q[k]
  BY <1>1, AppendProperties
<1>3. r # <<>>
  BY <1>1, <1>2, SeqFacts
<1>4. e.dir \in {"out", "in"} /\ (e.dir = "out" => e.bd \in OutBDs)
  BY DEF Queue
<1>5. /\ \A c \in OutBDs : QueuedOut(c) <=> \E k \in 1 .. n : q[k].dir = "out" /\ q[k].bd = c
      /\ QueuedIn <=> \E k \in 1 .. n : q[k].dir = "in"
      /\ \A c \in OutBDs : QueuedOut(c)' <=> \E k \in 1 .. n + 1 : r[k].dir = "out" /\ r[k].bd = c
      /\ QueuedIn' <=> \E k \in 1 .. n + 1 : r[k].dir = "in"
  BY <1>1, <1>2 DEF QueuedOut, QueuedIn
<1>6. \A j, k \in 1 .. n : q[j].dir = q[k].dir /\ (q[j].dir = "out" => q[j].bd = q[k].bd) => j = k
  BY <1>1 DEF QueueOnce
<1>7. ASSUME OutNext, IF e.dir = "out" THEN sie'.out = OtherOut(e.bd) ELSE sie'.out = sie.out
      PROVE  OutNext'
  <2> SUFFICES ASSUME NEW k \in 1 .. n + 1, r[k].dir = "out",
                      \A j \in 1 .. n + 1 : j > k => r[j].dir # "out"
               PROVE  sie'.out = OtherOut(r[k].bd)
    BY <1>2 DEF OutNext
  <2>1. CASE e.dir = "out"
    <3>1. k = n + 1
      BY <1>1, <1>2, <2>1
    <3> QED
      BY <1>2, <1>7, <2>1, <3>1
  <2>2. CASE e.dir # "out"
    <3>1. k \in 1 .. n /\ q[k].dir = "out" /\ r[k] = q[k]
      BY <1>1, <1>2, <2>2
    <3>2. \A j \in 1 .. n : j > k => q[j].dir # "out"
      BY <1>1, <1>2
    <3>3. sie.out = OtherOut(q[k].bd)
      BY <1>1, <1>7, <3>1, <3>2 DEF OutNext
    <3> QED
      BY <1>7, <2>2, <3>1, <3>3
  <2> QED
    BY <2>1, <2>2
<1> HIDE DEF q, r, n
<1>8. \A k \in 1 .. n : /\ e.dir = "out" /\ q[k].dir = "out" => q[k].bd # e.bd
                        /\ e.dir = "in" => q[k].dir # "in"
  BY <1>4, <1>5
<1>9. \A j, k \in 1 .. n + 1 : r[j].dir = r[k].dir /\ (r[j].dir = "out" => r[j].bd = r[k].bd) => j = k
  <2> SUFFICES ASSUME NEW j \in 1 .. n + 1, NEW k \in 1 .. n + 1, r[j].dir = r[k].dir,
                      r[j].dir = "out" => r[j].bd = r[k].bd, j # k
               PROVE  FALSE
    OBVIOUS
  <2>1. CASE j \in 1 .. n /\ k \in 1 .. n
    BY <1>2, <1>6, <2>1
  <2>2. CASE j = n + 1
    <3>1. k \in 1 .. n
      BY <1>1, <2>2
    <3> QED
      BY <1>2, <1>4, <1>8, <2>2, <3>1
  <2>3. CASE k = n + 1
    <3>1. j \in 1 .. n
      BY <1>1, <2>3
    <3> QED
      BY <1>2, <1>4, <1>8, <2>3, <3>1
  <2> QED
    BY <1>1, <2>1, <2>2, <2>3
<1>10. QueueOnce'
  BY <1>2, <1>9 DEF QueueOnce, r
<1>11. /\ \A c \in OutBDs : QueuedOut(c)' <=> QueuedOut(c) \/ (e.dir = "out" /\ c = e.bd)
       /\ QueuedIn' <=> QueuedIn \/ e.dir = "in"
  <2>1. \A k \in 1 .. n + 1 : k \in 1 .. n \/ k = n + 1
    BY <1>1
  <2>2. 1 .. n \subseteq 1 .. n + 1 /\ n + 1 \in 1 .. n + 1
    BY <1>1
  <2>3. ASSUME NEW c \in OutBDs
        PROVE  QueuedOut(c)' <=> QueuedOut(c) \/ (e.dir = "out" /\ c = e.bd)
    <3>1. (\E k \in 1 .. n + 1 : r[k].dir = "out" /\ r[k].bd = c)
          <=> (\E k \in 1 .. n : q[k].dir = "out" /\ q[k].bd = c) \/ (e.dir = "out" /\ e.bd = c)
      BY <1>2, <2>1, <2>2
    <3> QED
      BY <1>5, <3>1
  <2>4. (\E k \in 1 .. n + 1 : r[k].dir = "in") <=> (\E k \in 1 .. n : q[k].dir = "in") \/ e.dir = "in"
    BY <1>2, <2>1, <2>2
  <2> QED
    BY <1>5, <2>3, <2>4
<1> QED
  BY <1>1, <1>2, <1>3, <1>7, <1>10, <1>11 DEF q, r, n

-----------------------------------------------------------------------------
(* Every step keeps the owners of the descriptors. *)

LEMMA HandNone ==
  ASSUME handover' = <<>>
  PROVE  /\ \A c \in OutBDs : ~HandingOut(c)'
         /\ ~HandingIn' /\ HandoverOnce' /\ handover' = <<>> /\ DOMAIN handover' = {}
<1>1. DOMAIN handover' = {}
  BY SeqFacts
<1> QED
  BY <1>1 DEF HandingOut, HandingIn, HandoverOnce

LEMMA HandOne ==
  ASSUME NEW e \in Entry, handover' = <<e>>, e.dir = "out" => e.bd.own
  PROVE  /\ \A c \in OutBDs : HandingOut(c)' <=> e.dir = "out" /\ c = e.b
         /\ HandingIn' <=> e.dir = "in"
         /\ HandoverOnce' /\ DOMAIN handover' = {1} /\ handover'[1] = e /\ handover' # <<>>
<1>1. DOMAIN handover' = {1} /\ handover'[1] = e /\ handover' # <<>>
  OBVIOUS
<1> QED
  BY <1>1 DEF HandingOut, HandingIn, HandoverOnce

LEMMA HandTwo ==
  ASSUME NEW e \in Entry, NEW f \in Entry, handover' = <<e, f>>,
         e.dir = "out", e.bd.own, f.dir = "in"
  PROVE  /\ \A c \in OutBDs : HandingOut(c)' <=> c = e.b
         /\ HandingIn' /\ HandoverOnce' /\ DOMAIN handover' = {1, 2}
         /\ handover'[1] = e /\ handover'[2] = f /\ handover' # <<>>
<1>1. DOMAIN handover' = {1, 2} /\ handover'[1] = e /\ handover'[2] = f /\ handover' # <<>>
  OBVIOUS
<1> QED
  BY <1>1 DEF HandingOut, HandingIn, HandoverOnce

LEMMA HandThree ==
  ASSUME NEW e \in Entry, NEW f \in Entry, NEW g \in Entry, handover' = <<e, f, g>>,
         e.dir = "in", f.dir = "out", g.dir = "out", f.b # g.b, f.bd.own, g.bd.own
  PROVE  /\ \A c \in OutBDs : HandingOut(c)' <=> c = f.b \/ c = g.b
         /\ HandingIn' /\ HandoverOnce' /\ DOMAIN handover' = {1, 2, 3}
         /\ handover'[1] = e /\ handover'[2] = f /\ handover'[3] = g /\ handover' # <<>>
<1>1. /\ DOMAIN handover' = {1, 2, 3} /\ handover'[1] = e /\ handover'[2] = f /\ handover'[3] = g
      /\ handover' # <<>>
  OBVIOUS
<1> QED
  BY <1>1 DEF HandingOut, HandingIn, HandoverOnce

LEMMA HandTail ==
  ASSUME Types, handover # <<>>, handover' = Tail(handover), HandoverOnce
  PROVE  LET w == handover[1] IN
         /\ w \in Entry /\ HandoverOnce' /\ (w.dir = "out" => w.bd.own)
         /\ \A c \in OutBDs : HandingOut(c)' <=> HandingOut(c) /\ ~(w.dir = "out" /\ c = w.b)
         /\ HandingIn' <=> HandingIn /\ w.dir # "in"
         /\ w.dir = "out" => HandingOut(w.b)
         /\ w.dir = "in" => HandingIn
         /\ 1 \in DOMAIN handover
         /\ \A k \in DOMAIN handover' : \E j \in DOMAIN handover : handover'[k] = handover[j]
<1> DEFINE q == handover
           r == handover'
           n == Len(handover)
<1>1. /\ q \in Seq(Entry) /\ n \in Nat /\ n > 0 /\ DOMAIN q = 1 .. n /\ r \in Seq(Entry)
      /\ Len(r) = n - 1 /\ DOMAIN r = 1 .. n - 1
      /\ \A k \in 1 .. n - 1 : r[k] = q[k + 1]
  BY HandoverFacts DEF Types, RestOK
<1>2. /\ \A k \in 1 .. n - 1 : k + 1 \in 1 .. n /\ k + 1 # 1
      /\ \A k \in 1 .. n : k # 1 => k - 1 \in 1 .. n - 1 /\ r[k - 1] = q[k]
  BY <1>1
<1>3. \A k \in 1 .. n : q[k] \in Entry /\ q[k].dir \in {"out", "in"}
  BY <1>1 DEF Entry
<1>4. 1 \in 1 .. n
  BY <1>1
<1>5. \A j, k \in 1 .. n : q[j].dir = q[k].dir /\ (q[j].dir = "out" => q[j].b = q[k].b) => j = k
  BY <1>1 DEF HandoverOnce
<1>6. \A k \in 1 .. n : q[k].dir = "out" => q[k].bd.own
  BY <1>1 DEF HandoverOnce
<1>7. /\ \A c : HandingOut(c) <=> \E k \in 1 .. n : q[k].dir = "out" /\ q[k].b = c
      /\ HandingIn <=> \E k \in 1 .. n : q[k].dir = "in"
      /\ \A c : HandingOut(c)' <=> \E k \in 1 .. n - 1 : r[k].dir = "out" /\ r[k].b = c
      /\ HandingIn' <=> \E k \in 1 .. n - 1 : r[k].dir = "in"
  BY <1>1 DEF HandingOut, HandingIn
<1>8. HandoverOnce'
  <2>1. ASSUME NEW j \in 1 .. n - 1, NEW k \in 1 .. n - 1, r[j].dir = r[k].dir,
               r[j].dir = "out" => r[j].b = r[k].b
        PROVE  j = k
    <3>1. j + 1 \in 1 .. n /\ k + 1 \in 1 .. n /\ r[j] = q[j + 1] /\ r[k] = q[k + 1]
      BY <1>1, <1>2
    <3>2. j + 1 = k + 1
      BY <1>5, <2>1, <3>1
    <3> QED
      BY <1>1, <3>2
  <2>2. ASSUME NEW k \in 1 .. n - 1, r[k].dir = "out"
        PROVE  r[k].bd.own
    BY <1>1, <1>2, <1>6, <2>2
  <2> QED
    BY <1>1, <2>1, <2>2 DEF HandoverOnce
<1> HIDE DEF q, r, n
<1>9. \A k \in 1 .. n - 1 : \E j \in 1 .. n : r[k] = q[j]
  BY <1>1, <1>2
<1>10. ASSUME NEW c \in OutBDs
       PROVE  HandingOut(c)' <=> HandingOut(c) /\ ~(q[1].dir = "out" /\ c = q[1].b)
  <2>1. ASSUME NEW k \in 1 .. n - 1, r[k].dir = "out", r[k].b = c
        PROVE  HandingOut(c) /\ ~(q[1].dir = "out" /\ c = q[1].b)
    <3>1. k + 1 \in 1 .. n /\ k + 1 # 1 /\ r[k] = q[k + 1]
      BY <1>1, <1>2
    <3> QED
      BY <1>4, <1>5, <1>7, <2>1, <3>1
  <2>2. ASSUME NEW k \in 1 .. n, q[k].dir = "out", q[k].b = c, ~(q[1].dir = "out" /\ c = q[1].b)
        PROVE  HandingOut(c)'
    <3>1. k - 1 \in 1 .. n - 1 /\ r[k - 1] = q[k]
      BY <1>2, <2>2
    <3> QED
      BY <1>7, <2>2, <3>1
  <2> QED
    BY <1>7, <2>1, <2>2
<1>11. HandingIn' <=> HandingIn /\ q[1].dir # "in"
  <2>1. ASSUME NEW k \in 1 .. n - 1, r[k].dir = "in"
        PROVE  HandingIn /\ q[1].dir # "in"
    <3>1. k + 1 \in 1 .. n /\ k + 1 # 1 /\ r[k] = q[k + 1]
      BY <1>1, <1>2
    <3> QED
      BY <1>4, <1>5, <1>7, <2>1, <3>1
  <2>2. ASSUME NEW k \in 1 .. n, q[k].dir = "in", q[1].dir # "in"
        PROVE  HandingIn'
    <3>1. k - 1 \in 1 .. n - 1 /\ r[k - 1] = q[k]
      BY <1>2, <2>2
    <3> QED
      BY <1>7, <2>2, <3>1
  <2> QED
    BY <1>7, <2>1, <2>2
<1>12. \A k \in DOMAIN handover' : \E j \in DOMAIN handover : handover'[k] = handover[j]
  BY <1>1, <1>9 DEF q, r, n
<1>13. /\ q[1] \in Entry /\ (q[1].dir = "out" => q[1].bd.own /\ HandingOut(q[1].b))
       /\ (q[1].dir = "in" => HandingIn)
  BY <1>3, <1>4, <1>6, <1>7
<1>14. 1 \in DOMAIN handover /\ handover = q
  BY <1>1, <1>4 DEF q, r, n
<1> QED
  BY <1>8, <1>10, <1>11, <1>12, <1>13, <1>14

-----------------------------------------------------------------------------
(* Steps that leave descriptors, FIFO and handover alone. *)

LEMMA OwnersQuiet ==
  ASSUME Types, Owners, UNCHANGED <<bdOut, bdIn, handover>>, SameQueue, ram'.SetupPkt = ram.SetupPkt,
         SameTransfer(fw, fw'), SamePointers(fw, fw'), sie'.pktdis <=> sie.pktdis, Live' => Live,
         Tx => fw'.flag2, Rx /\ ~fw'.flag1 /\ ~fw'.flag2 => ~fw.flag1 /\ ~fw.flag2,
         host.stage \in {"idle", "setup"} => host'.stage \in {"idle", "setup"},
         pc' = "arm" <=> pc = "arm", pc' = "attach" => pc = "attach" /\ UNCHANGED fw,
         pc' \in {"trn", "arm"} => ~Below(fw'.USBDeviceState),
         Below(fw'.USBDeviceState) => /\ Below(fw.USBDeviceState) /\ sie'.addr = 0
                                      /\ app'.cfg = app.cfg /\ (fw.flag1 => fw'.flag1),
         handover # <<>> => pc' \in {"stall", "trn"}
  PROVE  Owners'
<1> DEFINE Same == /\ sie'.ustat = sie.ustat /\ sie'.out = sie.out /\ sie'.in = sie.in
                   /\ bdOut' = bdOut /\ bdIn' = bdIn /\ handover' = handover
                   /\ fw'.controlTransferState = fw.controlTransferState
                   /\ (fw'.BothEP0OutUOWNsSet <=> fw.BothEP0OutUOWNsSet)
                   /\ fw'.pBDTEntryIn = fw.pBDTEntryIn /\ fw'.Current = fw.Current
                   /\ fw'.Next = fw.Next
<1>1. Same
  BY DEF SameQueue, SameTransfer, SamePointers
<1>2. QueueOnce' /\ HandoverOnce'
  BY <1>1 DEF Owners, QueueOnce, HandoverOnce
<1>3. /\ \A c : (QueuedOut(c)' <=> QueuedOut(c)) /\ (HandingOut(c)' <=> HandingOut(c))
      /\ (QueuedIn' <=> QueuedIn) /\ (HandingIn' <=> HandingIn) /\ (ArmedIn' <=> ArmedIn)
      /\ (Tx' <=> Tx) /\ (Rx' <=> Rx)
  BY <1>1 DEF QueuedOut, HandingOut, QueuedIn, HandingIn, ArmedIn, Tx, Rx
<1>4. \A c : BusyOut(c)' <=> BusyOut(c)
  BY <1>1, <1>3 DEF BusyOut
<1>5. OutOwner'
  BY <1>1, <1>3, <1>4 DEF Owners, OutOwner
<1>6. OutNext'
  BY <1>1 DEF Owners, OutNext
<1>7. OutReady'
  BY <1>1, <1>3 DEF Owners, OutReady
<1>8. TxBoth'
  BY <1>1, <1>3, <1>4 DEF Owners, TxBoth, Fresh
<1>9. OpenNext'
  BY <1>1 DEF Owners, OpenNext
<1>10. InOwner'
  BY <1>1, <1>3 DEF Owners, InOwner
<1>11. SetupLast'
  BY <1>1 DEF Owners, SetupLast, IsSetup
<1>12. Sections'
  BY <1>1, <1>3 DEF Owners, Sections
<1>13. Arming'
  BY <1>1, <1>3 DEF Owners, Arming
<1> QED
  BY <1>2, <1>5, <1>6, <1>7, <1>8, <1>9, <1>10, <1>11, <1>12, <1>13 DEF Owners

\* Both descriptors as USBDeviceInit leaves them.
LEMMA InitialOwners ==
  ASSUME Initialised, sie'.ustat = <<>>, handover' = <<>>, SameTransfer(fw, fw'), Owners,
         sie'.out = 0, sie'.in = 0, fw'.pBDTEntryIn = 0, ~sie'.pktdis, fw'.flag1, fw'.flag2,
         pc' \in {"main", "sof"}, host'.stage = "idle" \/ Below(fw'.USBDeviceState),
         Below(fw'.USBDeviceState) => sie'.addr = 0 /\ app'.cfg = 0
  PROVE  Owners'
<1>1. /\ \A c \in OutBDs : ~HandingOut(c)'
      /\ ~HandingIn' /\ HandoverOnce' /\ DOMAIN handover' = {}
  BY HandNone
<1>2. DOMAIN sie'.ustat = {}
  BY SeqFacts
<1>3. ~QueuedIn' /\ \A c \in OutBDs : ~QueuedOut(c)'
  BY <1>2 DEF QueuedIn, QueuedOut
<1>4. /\ bdOut'[0].own /\ bdOut'[0].stall /\ ~bdOut'[1].own /\ ~ArmedIn' /\ \A b \in InBDs : ~bdIn'[b].own
      /\ \A b \in OutBDs : b = 0 \/ b = 1
      /\ 0 \in OutBDs /\ 1 \in OutBDs
  BY InitialisedEffect, Constants DEF ArmedIn
<1>5. QueueOnce' /\ OutNext'
  BY <1>2 DEF QueueOnce, OutNext
<1>6. Tx' <=> fw'.BothEP0OutUOWNsSet
  BY DEF Tx, SameTransfer, Owners, OutOwner
<1>7. OutOwner'
  BY <1>1, <1>3, <1>4, <1>6 DEF OutOwner, BusyOut
<1>8. OutReady'
  BY <1>4 DEF OutReady
<1>9. TxBoth'
  BY <1>3 DEF TxBoth, Fresh, Live
<1>10. OpenNext'
  BY <1>1, <1>4 DEF OpenNext
<1>11. InOwner'
  BY <1>1, <1>3, <1>4 DEF InOwner
<1>12. SetupLast'
  BY <1>2 DEF SetupLast
<1>13. Sections'
  BY <1>1, <1>3, <1>4 DEF Sections
<1>14. Arming'
  BY DEF Arming
<1> QED
  BY <1>1, <1>5, <1>7, <1>8, <1>9, <1>10, <1>11, <1>12, <1>13, <1>14 DEF Owners

\* A SETUP packet has been taken out of the FIFO, and everything disarmed.
LEMMA ArmingOwners ==
  ASSUME sie'.ustat = <<>>, handover' = <<>>, \A c \in OutBDs : ~bdOut'[c].own /\ bdOut'[c].pid # "SETUP",
         \A c \in InBDs : ~bdIn'[c].own, fw'.controlTransferState = "WAIT_SETUP",
         ~fw'.BothEP0OutUOWNsSet, ~sie'.pktdis, sie'.out = fw'.Next, sie'.in = fw'.pBDTEntryIn,
         pc' = "arm", ram'.SetupPkt.of \in Requests,
         IsRead(ram'.SetupPkt.of) => fw'.Current # fw'.Next, ~Below(fw'.USBDeviceState)
  PROVE  Owners'
<1>1. /\ \A c \in OutBDs : ~HandingOut(c)'
      /\ ~HandingIn' /\ HandoverOnce' /\ DOMAIN handover' = {}
  BY HandNone
<1>2. DOMAIN sie'.ustat = {}
  BY SeqFacts
<1>3. ~QueuedIn' /\ \A c \in OutBDs : ~QueuedOut(c)'
  BY <1>2 DEF QueuedIn, QueuedOut
<1>4. ~ArmedIn' /\ ~Tx' /\ ~Rx' /\ 0 \in OutBDs
  BY Constants DEF ArmedIn, Tx, Rx
<1>5. QueueOnce' /\ OutNext'
  BY <1>2 DEF QueueOnce, OutNext
<1>6. OutOwner'
  BY <1>1, <1>3, <1>4 DEF OutOwner, BusyOut
<1>7. OutReady' /\ TxBoth'
  BY <1>4 DEF OutReady, TxBoth
<1>8. OpenNext'
  BY <1>1 DEF OpenNext
<1>9. InOwner'
  BY <1>1, <1>3, <1>4 DEF InOwner
<1>10. SetupLast'
  BY <1>2 DEF SetupLast
<1>11. Sections'
  BY DEF Sections
<1>12. Arming'
  BY <1>4 DEF Arming
<1> QED
  BY <1>1, <1>5, <1>6, <1>7, <1>8, <1>9, <1>10, <1>11, <1>12 DEF Owners

\* SETUP stays last when something before it is taken out.
LEMMA PopSetup ==
  ASSUME Types, SetupLast, sie.ustat # <<>>, sie'.ustat = Tail(sie.ustat),
         \A c \in OutBDs : QueuedOut(c)' => bdOut'[c].pid = bdOut[c].pid,
         sie'.pktdis <=> sie.pktdis, Live' => Live /\ ~IsSetup(1)
  PROVE  SetupLast'
<1> DEFINE q == sie.ustat
           r == sie'.ustat
           n == Len(sie.ustat)
<1>1. /\ q \in Seq(Queue) /\ n \in Nat /\ n > 0 /\ DOMAIN q = 1 .. n /\ r \in Seq(Queue)
      /\ Len(r) = n - 1 /\ DOMAIN r = 1 .. n - 1 /\ \A k \in 1 .. n - 1 : r[k] = q[k + 1]
  BY SeqFacts DEF Types, IsSie
<1> DEFINE is(k) == r[k].dir = "out" /\ bdOut'[r[k].bd].pid = "SETUP"
           was(k) == q[k].dir = "out" /\ bdOut[q[k].bd].pid = "SETUP"
<1>2. \A c : QueuedOut(c)' <=> \E k \in DOMAIN r : r[k].dir = "out" /\ r[k].bd = c
  BY DEF QueuedOut
<1>3. /\ \A k \in DOMAIN q : was(k) => k = n /\ sie.pktdis
      /\ Live /\ sie.pktdis => q # <<>> /\ was(n)
      /\ Live' => Live /\ ~was(1)
  BY DEF SetupLast, IsSetup
<1>4. (\A k \in DOMAIN r : is(k) => k = Len(r) /\ sie'.pktdis)
      /\ (Live' /\ sie'.pktdis => r # <<>> /\ is(Len(r))) => SetupLast'
  BY DEF SetupLast, IsSetup
<1>5. ASSUME NEW k \in 1 .. n - 1
      PROVE  k + 1 \in 1 .. n /\ (is(k) <=> was(k + 1))
  <2>1. k + 1 \in 1 .. n /\ r[k] = q[k + 1] /\ r[k] \in Queue
    BY <1>1
  <2>2. r[k].dir = "out" => r[k].bd \in OutBDs
    BY <2>1 DEF Queue
  <2>3. r[k].dir = "out" => bdOut'[r[k].bd].pid = bdOut[r[k].bd].pid
    BY <1>1, <1>2, <2>2
  <2> QED
    BY <2>1, <2>3
<1> HIDE DEF q, r, n, is, was
<1>6. ASSUME NEW k \in 1 .. n - 1, is(k)
      PROVE  k = n - 1 /\ sie'.pktdis
  BY <1>1, <1>3, <1>5, <1>6
<1>7. ASSUME Live', sie'.pktdis
      PROVE  r # <<>> /\ is(n - 1)
  <2>1. was(n) /\ ~was(1)
    BY <1>3, <1>7
  <2>2. n # 1
    BY <2>1
  <2>3. n - 1 \in 1 .. n - 1 /\ n - 1 + 1 = n
    BY <1>1, <2>2
  <2>4. is(n - 1)
    BY <1>5, <2>1, <2>3
  <2> QED
    BY <1>1, <2>3, <2>4, SeqFacts
<1> QED
  BY <1>1, <1>4, <1>6, <1>7

-----------------------------------------------------------------------------
(* The owners, action by action. *)

LEMMA AttachOwners ==
  ASSUME Types, Owners, USBDeviceAttach
  PROVE  Owners'
<1>1. pc = "attach" /\ pc' = "main" /\ handover' = handover /\ app' = app
  BY DEF USBDeviceAttach
<1>2. handover = <<>> /\ app.cfg = 0
  BY <1>1 DEF Owners, Sections
<1>3. Below(fw'.USBDeviceState)
  BY AttachEffect DEF Below
<1>4. /\ Initialised /\ SameTransfer(fw, fw') /\ fw'.pBDTEntryIn = 0 /\ fw'.flag1 /\ fw'.flag2
      /\ sie'.out = 0 /\ sie'.in = 0 /\ ~sie'.pktdis /\ sie'.addr = 0 /\ sie'.ustat = <<>>
  BY AttachEffect
<1> QED
  BY <1>1, <1>2, <1>3, <1>4, InitialOwners

LEMMA EnterOwners ==
  ASSUME Types, Owners, TasksEnter
  PROVE  Owners'
<1>1. /\ pc = "main" /\ handover = <<>> /\ UNCHANGED <<bdOut, bdIn, ram, host, faults, app, loop, handover>>
  BY DEF TasksEnter
<1>2. /\ SameTransfer(fw, fw') /\ SameFlags(fw, fw') /\ SamePointers(fw, fw')
      /\ sie'.out = sie.out /\ sie'.in = sie.in /\ sie'.addr = sie.addr
      /\ (sie'.pktdis <=> sie.pktdis) /\ pc' \in {"main", "bus"}
  BY EnterEffect
<1>3. Tx => fw'.flag2
  BY <1>2 DEF Owners, InOwner, SameFlags
<1>4. CASE ~(fw.USBDeviceState = "ATTACHED_STATE" /\ ~host.se0)
  <2>1. /\ fw'.USBDeviceState = fw.USBDeviceState /\ (sie'.urstif <=> sie.urstif) /\ sie'.ustat = sie.ustat
    BY <1>4, EnterEffect
  <2>2. SameQueue /\ (Live' => Live)
    BY <1>2, <2>1 DEF SameQueue, Live
  <2>3. Below(fw'.USBDeviceState) => Below(fw.USBDeviceState) /\ sie'.addr = 0 /\ (fw.flag1 => fw'.flag1)
    BY <1>2, <2>1 DEF Owners, Sections, SameFlags
  <2>4. (Rx /\ ~fw'.flag1 /\ ~fw'.flag2 => ~fw.flag1 /\ ~fw.flag2)
    BY <1>2 DEF SameFlags
  <2> QED
    BY <1>1, <1>2, <1>3, <2>2, <2>3, <2>4, OwnersQuiet
<1>5. CASE fw.USBDeviceState = "ATTACHED_STATE" /\ ~host.se0
  <2>1. /\ fw'.USBDeviceState = "POWERED_STATE"
        /\ sie'.ustat = IF sie.ustat = <<>> THEN sie.ustat ELSE Tail(sie.ustat)
    BY <1>5, EnterEffect
  <2>2. /\ Below(fw.USBDeviceState) /\ Below(fw'.USBDeviceState) /\ ~Live /\ ~Live'
    BY <1>5, <2>1 DEF Below, Live
  <2>3. CASE sie.ustat = <<>>
    <3>1. SameQueue
      BY <1>2, <2>1, <2>3 DEF SameQueue
    <3>2. Below(fw'.USBDeviceState) => Below(fw.USBDeviceState) /\ sie'.addr = 0 /\ (fw.flag1 => fw'.flag1)
      BY <1>2, <2>2 DEF Owners, Sections, SameFlags
    <3>3. (Rx /\ ~fw'.flag1 /\ ~fw'.flag2 => ~fw.flag1 /\ ~fw.flag2)
      BY <1>2 DEF SameFlags
    <3> QED
      BY <1>1, <1>2, <1>3, <2>2, <3>1, <3>2, <3>3, OwnersQuiet
  <2>4. CASE sie.ustat # <<>>
    <3>1. sie'.ustat = Tail(sie.ustat)
      BY <2>1, <2>4
    <3>2. /\ fw.flag1 /\ fw'.flag1 /\ sie'.addr = 0 /\ app'.cfg = 0 /\ ~QueuedIn /\ ~ArmedIn
          /\ ~HandingIn
      BY <1>1, <1>2, <2>2 DEF Owners, Sections, SameFlags
    <3>3. QueueOnce' /\ OutNext'
      BY <1>2, <2>4, <3>1, PopQueue DEF Owners
    <3>4. (\A c \in OutBDs : QueuedOut(c)' => QueuedOut(c)) /\ ~QueuedIn'
      <4>1. sie.ustat[1].dir \in {"out", "in"}
        BY <2>4, SeqFacts DEF Types, IsSie, Queue
      <4> QED
        BY <2>4, <3>1, <3>2, <4>1, PopQueue DEF Owners
    <3>5. /\ \A c : HandingOut(c)' <=> HandingOut(c)
          /\ (HandingIn' <=> HandingIn) /\ (ArmedIn' <=> ArmedIn) /\ (Tx' <=> Tx) /\ (Rx' <=> Rx)
          /\ HandoverOnce'
      BY <1>1, <1>2 DEF HandingOut, HandingIn, ArmedIn, Tx, Rx, SameTransfer, HandoverOnce, Owners
    <3>6. OutOwner'
      <4>1. \A c \in OutBDs : BusyOut(c)' => BusyOut(c)
        BY <1>1, <3>4, <3>5 DEF BusyOut
      <4> QED
        BY <1>1, <1>2, <3>4, <3>5, <4>1, Constants DEF Owners, OutOwner, SameTransfer
    <3>7. OutReady' /\ TxBoth'
      BY <2>2 DEF OutReady, TxBoth
    <3>8. OpenNext'
      BY <1>1, <1>2 DEF Owners, OpenNext, SamePointers
    <3>9. InOwner'
      BY <1>1, <1>2, <1>3, <3>2, <3>4, <3>5 DEF Owners, InOwner, SamePointers
    <3>10. SetupLast'
      BY <1>1, <1>2, <2>2, <2>4, <3>1, PopSetup DEF Owners
    <3>11. Sections' /\ Arming'
      BY <1>1, <1>2, <3>2, <3>4, <3>5 DEF Sections, Arming
    <3> QED
      BY <3>3, <3>5, <3>6, <3>7, <3>8, <3>9, <3>10, <3>11 DEF Owners
  <2> QED
    BY <2>3, <2>4
<1> QED
  BY <1>4, <1>5

LEMMA BusOwners ==
  ASSUME Types, Owners, HostWays, TasksBus
  PROVE  Owners'
<1>1. /\ pc = "bus" /\ pc' = "sof" /\ UNCHANGED <<ram, host, faults, loop, handover>>
      /\ \/ sie.urstif /\ Reset
         \/ ~sie.urstif /\ sie.idleif /\ USBSuspend
         \/ ~sie.urstif /\ ~sie.idleif /\ UNCHANGED <<bdOut, bdIn, sie, fw, app>>
  BY BusWays
<1>2. handover = <<>>
  BY <1>1 DEF Owners, Sections
<1>3. CASE sie.urstif /\ Reset
  <2>1. /\ Initialised /\ SameTransfer(fw, fw') /\ fw'.pBDTEntryIn = 0 /\ fw'.flag1 /\ fw'.flag2
        /\ sie'.out = 0 /\ sie'.in = 0 /\ ~sie'.pktdis /\ sie'.addr = 0 /\ sie'.ustat = <<>>
        /\ app'.cfg = 0
    BY <1>1, <1>3, ResetEffect
  <2>2. host'.stage = "idle"
    BY <1>1, <1>3 DEF HostWays
  <2> QED
    BY <1>1, <1>2, <2>1, <2>2, InitialOwners
<1>4. CASE USBSuspend
  <2>1. /\ UNCHANGED <<bdOut, bdIn, app>>
        /\ SameTransfer(fw, fw') /\ SameFlags(fw, fw') /\ SamePointers(fw, fw')
        /\ fw'.USBDeviceState = fw.USBDeviceState
        /\ SameQueue /\ sie'.addr = sie.addr /\ (sie'.pktdis <=> sie.pktdis)
        /\ (sie'.urstif <=> sie.urstif)
    BY <1>1, <1>4, SuspendEffect
  <2>2. /\ Live' => Live
        /\ Tx => fw'.flag2
        /\ Rx /\ ~fw'.flag1 /\ ~fw'.flag2 => ~fw.flag1 /\ ~fw.flag2
        /\ Below(fw'.USBDeviceState) => Below(fw.USBDeviceState) /\ sie'.addr = 0 /\ (fw.flag1 => fw'.flag1)
    BY <2>1 DEF Live, Owners, InOwner, Sections, SameFlags
  <2> QED
    BY <1>1, <1>2, <2>1, <2>2, OwnersQuiet
<1>5. CASE UNCHANGED <<bdOut, bdIn, sie, fw, app>>
  <2>1. SameQueue /\ SameTransfer(fw, fw') /\ SamePointers(fw, fw') /\ sie' = sie /\ fw' = fw
    BY <1>5 DEF SameQueue, SameTransfer, SamePointers
  <2>2. /\ Live' => Live
        /\ Tx => fw'.flag2
        /\ Below(fw'.USBDeviceState) => Below(fw.USBDeviceState) /\ sie'.addr = 0 /\ (fw.flag1 => fw'.flag1)
    BY <2>1 DEF Live, Owners, InOwner, Sections
  <2> QED
    BY <1>1, <1>2, <1>5, <2>1, <2>2, OwnersQuiet
<1> QED
  BY <1>1, <1>3, <1>4, <1>5

LEMMA SofOwners ==
  ASSUME Types, Owners, TasksSof \/ TasksNoSof
  PROVE  Owners'
<1>1. Tx => fw.flag2
  BY DEF Owners, InOwner
<1>2. pc = "sof" /\ pc' = "stall" /\ UNCHANGED <<busVars, app, loop>>
  BY DEF TasksSof, TasksNoSof
<1>3. handover = <<>>
  BY <1>2 DEF Owners, Sections
<1>4. /\ UNCHANGED <<bdOut, bdIn, ram, host>> /\ SameQueue /\ sie' = sie /\ app' = app
      /\ ram'.SetupPkt = ram.SetupPkt
  BY <1>2 DEF busVars, SameQueue
<1>5. /\ SameTransfer(fw, fw') /\ SamePointers(fw, fw') /\ SameDevice(fw, fw')
      /\ (fw'.inBusy <=> fw.inBusy)
      /\ \/ handover' = handover /\ (fw.flag2 => fw'.flag2) /\ (fw.flag1 => fw'.flag1)
            /\ (Rx /\ ~fw'.flag1 /\ ~fw'.flag2 => ~fw.flag1 /\ ~fw.flag2)
         \/ handover' = <<>> /\ fw'.flag1 /\ (fw.flag2 => fw'.flag2)
         \/ /\ Rx /\ ~fw.flag1 /\ ~fw.flag2 /\ fw'.flag1
            /\ handover' = <<Ent("in", fw.pBDTEntryIn, DataBD(1, 0))>>
  <2>1. CASE TasksSof
    <3>1. /\ SameTransfer(fw, fw') /\ SamePointers(fw, fw') /\ SameDevice(fw, fw')
          /\ (fw'.inBusy <=> fw.inBusy)
      BY <1>1, <2>1, SofEffect
    <3>2. \/ handover' = handover /\ (fw.flag2 => fw'.flag2) /\ (fw.flag1 => fw'.flag1)
             /\ (Rx /\ ~fw'.flag1 /\ ~fw'.flag2 => ~fw.flag1 /\ ~fw.flag2)
          \/ handover' = <<>> /\ fw'.flag1 /\ (fw.flag2 => fw'.flag2)
          \/ /\ Rx /\ ~fw.flag1 /\ ~fw.flag2 /\ fw'.flag1
             /\ handover' = <<Ent("in", fw.pBDTEntryIn, DataBD(1, 0))>>
      <4>1. Give("in", fw.pBDTEntryIn, DataBD(1, 0)) = <<Ent("in", fw.pBDTEntryIn, DataBD(1, 0))>>
        BY Concats
      <4> QED
        BY <1>1, <2>1, <4>1, SofEffect
    <3> QED
      BY <3>1, <3>2
  <2>2. CASE TasksNoSof
    <3>1. fw' = fw /\ handover' = handover
      BY <2>2 DEF TasksNoSof
    <3> QED
      BY <3>1 DEF SameTransfer, SamePointers, SameDevice
  <2> QED
    BY <2>1, <2>2
<1>6. CASE handover' = handover /\ (fw.flag2 => fw'.flag2) /\ (fw.flag1 => fw'.flag1)
           /\ (Rx /\ ~fw'.flag1 /\ ~fw'.flag2 => ~fw.flag1 /\ ~fw.flag2)
  <2>1. /\ Live' => Live
        /\ Tx => fw'.flag2
        /\ Below(fw'.USBDeviceState) => Below(fw.USBDeviceState) /\ sie'.addr = 0
    BY <1>1, <1>4, <1>5, <1>6 DEF Live, Owners, Sections, SameDevice
  <2> QED
    BY <1>2, <1>3, <1>4, <1>5, <1>6, <2>1, OwnersQuiet
<1>7. CASE handover' = <<>> /\ fw'.flag1 /\ (fw.flag2 => fw'.flag2)
  <2>1. /\ Live' => Live
        /\ Tx => fw'.flag2
        /\ Below(fw'.USBDeviceState) => Below(fw.USBDeviceState) /\ sie'.addr = 0
    BY <1>1, <1>4, <1>5, <1>7 DEF Live, Owners, Sections, SameDevice
  <2> QED
    BY <1>2, <1>3, <1>4, <1>5, <1>7, <2>1, OwnersQuiet
<1>8. CASE /\ Rx /\ ~fw.flag1 /\ ~fw.flag2 /\ fw'.flag1
           /\ handover' = <<Ent("in", fw.pBDTEntryIn, DataBD(1, 0))>>
  <2> DEFINE e == Ent("in", fw.pBDTEntryIn, DataBD(1, 0))
  <2>1. e \in Entry /\ e.dir = "in" /\ e.b = fw.pBDTEntryIn
    BY EntTypes, Descriptors DEF Ent, Types, IsFw
  <2>2. ~Below(fw.USBDeviceState) /\ fw'.USBDeviceState = fw.USBDeviceState
    BY <1>5, <1>8 DEF Owners, Sections, SameDevice
  <2> HIDE DEF e
  <2>3. /\ \A c \in OutBDs : ~HandingOut(c)'
        /\ HandingIn' /\ HandoverOnce' /\ DOMAIN handover' = {1} /\ handover'[1] = e
    BY <1>8, <2>1, HandOne DEF e
  <2>4. /\ \A c : (QueuedOut(c)' <=> QueuedOut(c))
        /\ (QueuedIn' <=> QueuedIn) /\ (ArmedIn' <=> ArmedIn) /\ (Tx' <=> Tx) /\ (Rx' <=> Rx)
        /\ Live' <=> Live
        /\ \A c : ~HandingOut(c)
        /\ ~Tx /\ fw'.pBDTEntryIn = fw.pBDTEntryIn
    BY <1>3, <1>4, <1>5, <1>8, <2>2, SeqFacts
       DEF QueuedOut, QueuedIn, ArmedIn, Tx, Rx, SameTransfer, SamePointers, Live, HandingOut
  <2>5. QueueOnce' /\ OutNext'
    BY <1>4 DEF Owners, QueueOnce, OutNext
  <2>6. OutOwner'
    <3>1. \A c \in OutBDs : BusyOut(c)' => BusyOut(c)
      BY <1>4, <2>3, <2>4 DEF BusyOut
    <3> QED
      BY <1>4, <1>5, <2>3, <2>4, <3>1, Constants DEF Owners, OutOwner, SameTransfer
  <2>7. OutReady' /\ TxBoth'
    BY <1>2, <1>4, <2>4 DEF Owners, OutReady, TxBoth
  <2>8. OpenNext'
    BY <1>4, <1>5, <2>1, <2>3 DEF Owners, OpenNext, SamePointers
  <2>9. InOwner'
    BY <1>4, <1>5, <1>8, <2>1, <2>3, <2>4 DEF Owners, InOwner
  <2>10. SetupLast'
    BY <1>4, <2>4 DEF Owners, SetupLast, IsSetup
  <2>11. Sections' /\ Arming'
    BY <1>2, <2>2 DEF Sections, Arming
  <2> QED
    BY <2>3, <2>5, <2>6, <2>7, <2>8, <2>9, <2>10, <2>11 DEF Owners
<1> QED
  BY <1>5, <1>6, <1>7, <1>8

LEMMA StallOwners ==
  ASSUME Types, Owners, TasksStall
  PROVE  Owners'
<1>1. /\ UNCHANGED <<bdOut, bdIn, ram, host, faults, fw, app>> /\ SameSie
      /\ handover = <<>> /\ handover' = <<>>
      /\ pc' = IF Below(fw.USBDeviceState) THEN "main" ELSE "trn"
  BY StallEffect DEF Owners
<1>2. pc = "stall"
  BY DEF TasksStall
<1>3. SameTransfer(fw, fw') /\ SamePointers(fw, fw')
  BY <1>1 DEF SameTransfer, SamePointers
<1>4. /\ SameQueue /\ (sie'.pktdis <=> sie.pktdis) /\ (Live' => Live)
      /\ Tx => fw'.flag2
      /\ Below(fw'.USBDeviceState)
         => Below(fw.USBDeviceState) /\ sie'.addr = 0 /\ app'.cfg = app.cfg /\ (fw.flag1 => fw'.flag1)
      /\ ram'.SetupPkt = ram.SetupPkt
      /\ (Rx /\ ~fw'.flag1 /\ ~fw'.flag2 => ~fw.flag1 /\ ~fw.flag2)
      /\ pc' \in {"trn", "arm"} => ~Below(fw'.USBDeviceState)
  BY <1>1 DEF SameSie, Live, Owners, InOwner, Sections
<1>5. UNCHANGED <<bdOut, bdIn, handover>> /\ pc' \in {"main", "trn"} /\ handover = <<>> /\ host' = host
  BY <1>1
<1> QED
  BY <1>2, <1>3, <1>4, <1>5, OwnersQuiet

LEMMA LeaveOwners ==
  ASSUME Types, Owners, TasksLeave
  PROVE  Owners'
<1>1. /\ pc = "trn" /\ pc' = "main" /\ handover = <<>> /\ handover' = handover /\ fw' = fw /\ app' = app
      /\ sie' = sie /\ host' = host /\ ram' = ram /\ UNCHANGED <<bdOut, bdIn>>
  BY DEF TasksLeave, busVars
<1>2. /\ SameTransfer(fw, fw') /\ SamePointers(fw, fw') /\ SameQueue /\ (Live' => Live)
      /\ Tx => fw'.flag2
      /\ ~Below(fw'.USBDeviceState)
      /\ ram'.SetupPkt = ram.SetupPkt /\ (sie'.pktdis <=> sie.pktdis)
      /\ (Rx /\ ~fw'.flag1 /\ ~fw'.flag2 => ~fw.flag1 /\ ~fw.flag2)
  BY <1>1 DEF SameTransfer, SamePointers, SameQueue, Live, Owners, InOwner, Sections
<1>3. UNCHANGED <<bdOut, bdIn, handover>> /\ host' = host
  BY <1>1
<1> QED
  BY <1>1, <1>2, <1>3, OwnersQuiet

\* A SETUP packet that is serviced is the only thing in the FIFO.
LEMMA SetupAlone ==
  ASSUME Types, Owners, sie.ustat # <<>>, IsSetup(1)
  PROVE  DOMAIN sie.ustat = {1} /\ Tail(sie.ustat) = <<>> /\ sie.ustat[1].dir = "out" /\ sie.pktdis
<1>1. sie.ustat \in Seq(Queue) /\ 1 \in DOMAIN sie.ustat /\ DOMAIN sie.ustat = 1 .. Len(sie.ustat)
  BY SeqFacts DEF Types, IsSie
<1>2. Len(sie.ustat) = 1 /\ sie.pktdis
  BY <1>1 DEF Owners, SetupLast
<1>3. Tail(sie.ustat) \in Seq(Queue) /\ Len(Tail(sie.ustat)) = 1 - 1
  BY <1>1, <1>2, SeqFacts
<1>4. Len(Tail(sie.ustat)) = 0
  BY <1>3
<1>5. \A s \in Seq(Queue) : Len(s) = 0 => s = <<>>
  BY SeqFacts
<1>6. Tail(sie.ustat) = <<>>
  BY <1>3, <1>4, <1>5, Zenon
<1> QED
  BY <1>1, <1>2, <1>6 DEF IsSetup

LEMMA SetupOwners ==
  ASSUME Types, Owners, SetupKnown, CtrlTrfSetup \/ StdSetCfg
  PROVE  Owners'
<1> DEFINE b == sie.ustat[1].bd
           r == Waiting(1)
<1>1. /\ pc = "trn" /\ pc' = "arm" /\ handover' = <<>> /\ sie.ustat # <<>>
      /\ IsSetup(1) /\ b \in OutBDs /\ r \in Requests
      /\ ram'.SetupPkt.of = r /\ fw'.controlTransferState = "WAIT_SETUP"
      /\ ~fw'.BothEP0OutUOWNsSet /\ sie'.ustat = Tail(sie.ustat) /\ ~sie'.pktdis
      /\ \A c \in OutBDs : ~bdOut'[c].own /\ bdOut'[c].pid # "SETUP"
      /\ \A c \in InBDs : ~bdIn'[c].own
  <2>1. CASE CtrlTrfSetup
    BY <2>1, SetupEffect
  <2>2. CASE StdSetCfg
    BY <2>2, StdSetCfgEffect
  <2> QED
    BY <2>1, <2>2
<1>2. /\ DOMAIN sie.ustat = {1} /\ sie'.ustat = <<>> /\ sie.ustat[1].dir = "out"
  BY <1>1, SetupAlone
<1>3. sie.out = OtherOut(b) /\ sie.in = fw.pBDTEntryIn
  <2>1. sie.out = OtherOut(b)
    BY <1>2 DEF Owners, OutNext
  <2>2. ~QueuedIn
    BY <1>2 DEF QueuedIn
  <2> QED
    BY <2>1, <2>2 DEF Owners, InOwner
<1>4. ~Below(fw.USBDeviceState)
  BY <1>1 DEF Owners, Sections
<1> HIDE DEF b
<1>5. CASE CtrlTrfSetup
  <2>1. /\ fw'.pBDTEntryIn = fw.pBDTEntryIn /\ fw'.Current = b /\ fw'.Next = OtherOut(b)
        /\ fw'.USBDeviceState = IF r.name = "SET_ADDRESS" THEN "ADR_PENDING_STATE"
                                                          ELSE fw.USBDeviceState
        /\ SameEnds(sie, sie')
    BY <1>5, SetupEffect DEF b
  <2>2. ~Below(fw'.USBDeviceState) /\ fw'.Current # fw'.Next
    BY <1>1, <1>4, <2>1, Constants DEF Below
  <2> QED
    BY <1>1, <1>2, <1>3, <2>1, <2>2, ArmingOwners DEF SameEnds
<1>6. CASE StdSetCfg
  <2>1. /\ fw'.pBDTEntryIn = 0 /\ fw'.Current = 0 /\ fw'.Next = 0
        /\ fw'.USBDeviceState = IF r.arg = 0 THEN "ADDRESS_STATE" ELSE "CONFIGURED_STATE"
        /\ sie'.out = 0 /\ sie'.in = 0 /\ r.name = "SET_CONFIGURATION"
    BY <1>6, StdSetCfgEffect
  <2>2. ~Below(fw'.USBDeviceState) /\ ~IsRead(r)
    BY <2>1 DEF Below, IsRead, Reads
  <2> QED
    BY <1>1, <1>2, <2>1, <2>2, ArmingOwners
<1> QED
  BY <1>5, <1>6

\* What USBCtrlEPServiceComplete finds.
LEMMA ArmingFacts ==
  ASSUME Types, Owners, pc = "arm"
  PROVE  /\ handover = <<>> /\ sie.ustat = <<>> /\ ~sie.pktdis /\ ~Tx /\ ~Rx /\ sie.out = fw.Next
         /\ \A c \in OutBDs : ~bdOut[c].own /\ ~QueuedOut(c) /\ bdOut[c].pid # "SETUP"
         /\ ~ArmedIn /\ ~QueuedIn /\ ~fw.BothEP0OutUOWNsSet /\ sie.in = fw.pBDTEntryIn
         /\ \A c \in InBDs : ~bdIn[c].own
         /\ ~Below(fw.USBDeviceState)
         /\ ram.SetupPkt.of \in Requests
         /\ IsRead(ram.SetupPkt.of) => fw.Current # fw.Next
         /\ DOMAIN sie.ustat = {}
         /\ fw.Next \in OutBDs /\ fw.Current \in OutBDs /\ fw.pBDTEntryIn \in InBDs
<1>1. handover = <<>> /\ ~Below(fw.USBDeviceState)
  BY DEF Owners, Sections
<1>2. /\ sie.ustat = <<>> /\ ~sie.pktdis /\ ~ArmedIn /\ ~Tx /\ ~Rx /\ sie.out = fw.Next
      /\ \A b \in OutBDs : ~bdOut[b].own /\ bdOut[b].pid # "SETUP"
      /\ ram.SetupPkt.of \in Requests
      /\ IsRead(ram.SetupPkt.of) => fw.Current # fw.Next
  BY DEF Owners, Arming
<1>3. DOMAIN sie.ustat = {}
  BY <1>2, SeqFacts
<1>4. ~QueuedIn /\ \A c : ~QueuedOut(c)
  BY <1>3 DEF QueuedIn, QueuedOut
<1>5. ~fw.BothEP0OutUOWNsSet /\ sie.in = fw.pBDTEntryIn
  BY <1>2, <1>4 DEF Owners, OutOwner, InOwner
<1>6. fw.Next \in OutBDs /\ fw.Current \in OutBDs /\ fw.pBDTEntryIn \in InBDs
  BY DEF Types, IsFw
<1>7. \A c \in InBDs : ~bdIn[c].own
  BY <1>2 DEF ArmedIn
<1> QED
  BY <1>1, <1>2, <1>3, <1>4, <1>5, <1>6, <1>7

\* The descriptors USBCtrlEPServiceComplete arms, whichever way it goes: the
\* next OUT descriptor always, the current one with it for a control read only.
LEMMA ArmedOwners ==
  ASSUME Types, Owners, pc = "arm", pc' = "trn", UNCHANGED <<bdOut, bdIn, sie, host, app>>,
         SamePointers(fw, fw'), SameDevice(fw, fw'), HandoverOnce',
         \A c \in OutBDs : c = fw.Next => HandingOut(c)',
         Tx' <=> fw'.BothEP0OutUOWNsSet,
         ~Tx' => \A c \in OutBDs : HandingOut(c)' => c = fw.Next,
         Tx' => fw'.flag2 /\ fw.Current # fw.Next /\ \A c \in OutBDs : HandingOut(c)',
         Rx' /\ ~fw'.flag1 /\ ~fw'.flag2 => ~HandingIn',
         \A k \in DOMAIN handover' :
           /\ handover'[k].dir = "in" => handover'[k].b = fw.pBDTEntryIn
           /\ handover'[k].dir = "out" /\ ~handover'[k].bd.stall /\ ~handover'[k].bd.dtsen
              => handover'[k].b # fw.Current
  PROVE  Owners'
<1> USE ArmingFacts
<1>1. /\ \A c \in OutBDs : ~bdOut'[c].own /\ ~QueuedOut(c)'
      /\ ~ArmedIn' /\ ~QueuedIn' /\ DOMAIN sie'.ustat = {}
  BY DEF ArmedIn, QueuedIn, QueuedOut
<1>2. /\ fw'.pBDTEntryIn = fw.pBDTEntryIn /\ fw'.Current = fw.Current /\ fw'.Next = fw.Next
      /\ fw'.USBDeviceState = fw.USBDeviceState
  BY DEF SamePointers, SameDevice
<1>3. QueueOnce' /\ OutNext'
  BY <1>1 DEF QueueOnce, OutNext
<1>4. OutOwner'
  BY <1>1, Constants DEF OutOwner, BusyOut
<1>5. OutReady'
  <2>1. HandingOut(fw.Next)' /\ sie'.out = fw'.Next
    BY <1>2
  <2> QED
    BY <1>2, <2>1 DEF OutReady
<1>6. TxBoth'
  BY Constants DEF TxBoth, BusyOut
<1>7. OpenNext'
  BY <1>1, <1>2 DEF OpenNext
<1>8. InOwner'
  BY <1>1, <1>2 DEF InOwner
<1>9. SetupLast'
  BY <1>1 DEF SetupLast
<1>10. Sections' /\ Arming'
  BY <1>2 DEF Sections, Arming
<1> QED
  BY <1>3, <1>4, <1>5, <1>6, <1>7, <1>8, <1>9, <1>10 DEF Owners

LEMMA ArmOwners ==
  ASSUME Types, Owners, CtrlEPServiceComplete
  PROVE  Owners'
<1>1. /\ pc = "arm" /\ pc' = "trn" /\ UNCHANGED <<bdOut, bdIn, sie, host, faults, app, loop>>
      /\ ArmWrite \/ ArmStall \/ ArmRead \/ ArmStatus
  BY DEF CtrlEPServiceComplete
<1>2. /\ ~Tx /\ ~Rx /\ ~fw.BothEP0OutUOWNsSet
      /\ ram.SetupPkt.of \in Requests
      /\ IsRead(ram.SetupPkt.of) => fw.Current # fw.Next
      /\ fw.Next \in OutBDs /\ fw.Current \in OutBDs /\ fw.pBDTEntryIn \in InBDs
  BY <1>1, ArmingFacts
<1> DEFINE o(x) == Ent("out", fw.Next, x)
           c == Ent("out", fw.Current, StallBD)
           i(x) == Ent("in", fw.pBDTEntryIn, x)
<1>3. /\ \A x \in BDType : o(x) \in Entry /\ o(x).dir = "out" /\ o(x).b = fw.Next /\ o(x).bd = x
      /\ \A x \in BDType : i(x) \in Entry /\ i(x).dir = "in" /\ i(x).b = fw.pBDTEntryIn
      /\ c \in Entry /\ c.dir = "out" /\ c.b = fw.Current /\ c.bd = StallBD
  BY <1>2, EntTypes, Descriptors DEF Ent
<1>4. /\ StallBD \in BDType /\ SetupBD \in BDType /\ OpenBD \in BDType
      /\ \A n \in Nat : DataBD(1, n) \in BDType /\ DataBD(1, n).own /\ DataBD(1, n).dtsen
      /\ StallBD.own /\ StallBD.stall /\ SetupBD.own /\ SetupBD.dtsen /\ OpenBD.own
      /\ 8 \in Nat /\ 0 \in Nat
  BY Descriptors DEF StallBD, SetupBD, OpenBD, DataBD, BD
<1> HIDE DEF o, c, i
<1>5. CASE ArmWrite
  <2>1. /\ SamePointers(fw, fw') /\ SameDevice(fw, fw') /\ ~fw'.BothEP0OutUOWNsSet /\ ~Tx'
        /\ handover' = <<o(DataBD(1, 8))>>
    BY <1>2, <1>5, ArmWriteEffect DEF ArmedWrite, Tx, o
  <2>2. /\ \A d \in OutBDs : HandingOut(d)' <=> d = fw.Next
        /\ ~HandingIn' /\ HandoverOnce' /\ DOMAIN handover' = {1} /\ handover'[1] = o(DataBD(1, 8))
    BY <1>3, <1>4, <2>1, HandOne
  <2> QED
    BY <1>1, <1>2, <1>3, <1>4, <2>1, <2>2, ArmedOwners
<1>6. CASE ArmStall
  <2>1. /\ SamePointers(fw, fw') /\ SameDevice(fw, fw') /\ ~fw'.BothEP0OutUOWNsSet /\ ~Tx' /\ ~Rx'
        /\ handover' = <<o(SetupBD), i(StallBD)>>
    BY <1>2, <1>6, ArmStallEffect DEF ArmedStall, Tx, Rx, o, i, SamePointers, SameDevice
  <2>2. /\ \A d \in OutBDs : HandingOut(d)' <=> d = fw.Next
        /\ HandoverOnce' /\ DOMAIN handover' = {1, 2} /\ handover'[1] = o(SetupBD)
        /\ handover'[2] = i(StallBD)
    BY <1>3, <1>4, <2>1, HandTwo
  <2> QED
    BY <1>1, <1>2, <1>3, <1>4, <2>1, <2>2, ArmedOwners
<1>7. CASE ArmRead
  <2>1. PICK n \in Nat : ArmedRead(n)
    BY <1>2, <1>7, ArmReadEffect
  <2>2. /\ SamePointers(fw, fw') /\ SameDevice(fw, fw') /\ fw'.BothEP0OutUOWNsSet /\ Tx' /\ ~Rx'
        /\ fw'.flag2 /\ fw.Current # fw.Next
        /\ handover' = <<i(DataBD(1, n)), c, o(OpenBD)>>
    BY <1>2, <1>7, <2>1, ArmReadEffect DEF ArmedRead, Tx, Rx, o, i, c
  <2>3. /\ \A d \in OutBDs : HandingOut(d)' <=> d = fw.Current \/ d = fw.Next
        /\ HandoverOnce' /\ DOMAIN handover' = {1, 2, 3} /\ handover'[1] = i(DataBD(1, n))
        /\ handover'[2] = c /\ handover'[3] = o(OpenBD)
    BY <1>3, <1>4, <2>2, HandThree
  <2>4. \A d \in OutBDs : HandingOut(d)'
    BY <1>2, <2>2, <2>3, Constants
  <2> QED
    BY <1>1, <1>2, <1>3, <1>4, <2>2, <2>3, <2>4, ArmedOwners
<1>8. CASE ArmStatus
  <2>1. /\ SamePointers(fw, fw') /\ SameDevice(fw, fw') /\ ~fw'.BothEP0OutUOWNsSet /\ ~Tx' /\ fw'.flag1
        /\ handover' = <<o(StallBD), i(DataBD(1, 0))>>
    BY <1>2, <1>8, ArmStatusEffect DEF ArmedStatus, Tx, o, i
  <2>2. /\ \A d \in OutBDs : HandingOut(d)' <=> d = fw.Next
        /\ HandoverOnce' /\ DOMAIN handover' = {1, 2} /\ handover'[1] = o(StallBD)
        /\ handover'[2] = i(DataBD(1, 0))
    BY <1>3, <1>4, <2>1, HandTwo
  <2> QED
    BY <1>1, <1>2, <1>3, <1>4, <2>1, <2>2, ArmedOwners
<1> QED
  BY <1>1, <1>5, <1>6, <1>7, <1>8

\* An OUT packet has been taken out of the FIFO.
LEMMA Received1Queue ==
  ASSUME Types, Owners, NEW b, Received1(b)
  PROVE  /\ b \in OutBDs /\ OtherOut(b) \in OutBDs /\ OtherOut(b) # b
         /\ \A c \in OutBDs : c = b \/ c = OtherOut(b)
         /\ QueueOnce' /\ OutNext' /\ SetupLast'
         /\ \A c \in OutBDs : QueuedOut(c)' <=> QueuedOut(c) /\ c # b
         /\ QueuedOut(b) /\ (QueuedIn' <=> QueuedIn) /\ ~bdOut[b].own /\ ~HandingOut(b)
         /\ (ArmedIn' <=> ArmedIn) /\ (Live' <=> Live)
         /\ sie'.out = sie.out /\ (~QueuedOut(OtherOut(b)) => sie.out = OtherOut(b))
         /\ ~HandingIn /\ \A c : ~HandingOut(c)
<1>1. /\ sie.ustat # <<>> /\ sie.ustat[1].dir = "out" /\ sie.ustat[1].bd = b /\ b \in OutBDs
      /\ 1 \in DOMAIN sie.ustat /\ sie'.ustat = Tail(sie.ustat) /\ sie'.out = sie.out
      /\ (sie'.pktdis <=> sie.pktdis) /\ bdIn' = bdIn /\ bdOut[b].pid = "OUT"
      /\ \A c \in OutBDs : c # b => bdOut'[c] = bdOut[c]
      /\ handover = <<>>
  BY DEF Received1, SameEnds
<1>2. /\ OtherOut(b) \in OutBDs /\ OtherOut(b) # b /\ \A c \in OutBDs : c = b \/ c = OtherOut(b)
  BY <1>1, Constants DEF OtherOut
<1>3. Live' <=> Live
  BY DEF Received1, SameSignals, SameDevice, Live
<1>4. /\ QueueOnce' /\ OutNext'
      /\ \A c \in OutBDs : QueuedOut(c)' <=> QueuedOut(c) /\ c # b
      /\ QueuedOut(b) /\ (QueuedIn' <=> QueuedIn)
  BY <1>1, PopQueue DEF Owners
<1>5. SetupLast'
  <2>1. ~IsSetup(1)
    BY <1>1 DEF IsSetup
  <2>2. \A c \in OutBDs : QueuedOut(c)' => bdOut'[c].pid = bdOut[c].pid
    BY <1>1, <1>4
  <2> QED
    BY <1>1, <1>3, <2>1, <2>2, PopSetup DEF Owners
<1>6. ~bdOut[b].own /\ ~HandingOut(b)
  BY <1>1, <1>4 DEF Owners, OutOwner
<1>7. ASSUME ~QueuedOut(OtherOut(b))
      PROVE  sie.out = OtherOut(b)
  <2>1. \A k \in DOMAIN sie.ustat : sie.ustat[k] \in Queue
    BY SeqFacts DEF Types, IsSie
  <2>2. \A k \in DOMAIN sie.ustat : sie.ustat[k].dir = "out" => sie.ustat[k].bd = b
    BY <1>2, <1>7, <2>1 DEF QueuedOut, Queue
  <2>3. \A k \in DOMAIN sie.ustat : sie.ustat[k].dir = "out" => k = 1
    BY <1>1, <2>2 DEF Owners, QueueOnce
  <2>4. \A k \in DOMAIN sie.ustat : k > 1 => sie.ustat[k].dir # "out"
    <3>1. ~(1 > 1)
      OBVIOUS
    <3> QED
      BY <2>3, <3>1
  <2> QED
    BY <1>1, <2>4 DEF Owners, OutNext
<1>8. ArmedIn' <=> ArmedIn
  BY <1>1 DEF ArmedIn
<1>9. ~HandingIn /\ \A c : ~HandingOut(c)
  BY <1>1, SeqFacts DEF HandingIn, HandingOut
<1> QED
  BY <1>1, <1>2, <1>3, <1>4, <1>5, <1>6, <1>7, <1>8, <1>9

LEMMA RxOwners ==
  ASSUME Types, Owners, CtrlTrfRx
  PROVE  Owners'
<1> DEFINE b == sie.ustat[1].bd
<1>1. /\ Received1(b) /\ Rx /\ fw'.controlTransferState = "CTRL_TRF_RX"
      /\ (fw'.BothEP0OutUOWNsSet <=> fw.BothEP0OutUOWNsSet)
      /\ \/ /\ SameFlags(fw, fw')
            /\ \E dts \in {0, 1} : handover' = <<Ent("out", OtherOut(b), DataBD(dts, 8))>>
         \/ /\ fw'.flag1 /\ (fw.flag1 \/ fw.flag2)
            /\ handover' = <<Ent("out", OtherOut(b), StallBD)>>
         \/ /\ fw'.flag1 /\ ~fw.flag1 /\ ~fw.flag2
            /\ handover' = <<Ent("out", OtherOut(b), StallBD),
                             Ent("in", fw.pBDTEntryIn, DataBD(1, 0))>>
  BY RxEffect
<1> HIDE DEF b
<1>2. /\ b \in OutBDs /\ OtherOut(b) \in OutBDs /\ OtherOut(b) # b
      /\ \A c \in OutBDs : c = b \/ c = OtherOut(b)
      /\ QueueOnce' /\ OutNext' /\ SetupLast'
      /\ \A c \in OutBDs : QueuedOut(c)' <=> QueuedOut(c) /\ c # b
      /\ QueuedOut(b) /\ (QueuedIn' <=> QueuedIn)
      /\ (ArmedIn' <=> ArmedIn) /\ (Live' <=> Live)
      /\ sie'.out = sie.out /\ (~QueuedOut(OtherOut(b)) => sie.out = OtherOut(b))
  BY <1>1, Received1Queue
<1>3. /\ bdIn' = bdIn /\ pc = "trn" /\ pc' = "trn" /\ fw'.Current = b /\ fw'.pBDTEntryIn = fw.pBDTEntryIn
      /\ sie'.in = sie.in /\ fw'.USBDeviceState = fw.USBDeviceState /\ ~bdOut'[b].own
      /\ \A c \in OutBDs : c # b => bdOut'[c] = bdOut[c]
  BY <1>1 DEF Received1, SameEnds, SameDevice
<1>4. ~Tx /\ ~Tx' /\ Rx' /\ ~fw'.BothEP0OutUOWNsSet
  BY <1>1 DEF Tx, Rx, Owners, OutOwner
<1>5. /\ ~bdOut[OtherOut(b)].own /\ ~QueuedOut(OtherOut(b))
  <2>1. BusyOut(b)
    BY <1>2 DEF BusyOut
  <2>2. ~BusyOut(OtherOut(b))
    BY <1>2, <1>4, <2>1, Constants DEF Owners, OutOwner
  <2> QED
    BY <2>2 DEF BusyOut
<1>6. \A c \in OutBDs : ~bdOut'[c].own /\ ~QueuedOut(c)'
  BY <1>2, <1>3, <1>5
<1>7. /\ HandoverOnce' /\ \A c \in OutBDs : HandingOut(c)' <=> c = OtherOut(b)
      /\ HandingIn' => fw'.flag1 /\ ~fw.flag1 /\ ~fw.flag2
      /\ \A k \in DOMAIN handover' :
           /\ handover'[k].dir = "in" => handover'[k].b = fw.pBDTEntryIn
           /\ handover'[k].dir = "out" => handover'[k].b = OtherOut(b)
  <2> DEFINE o(x) == Ent("out", OtherOut(b), x)
             i == Ent("in", fw.pBDTEntryIn, DataBD(1, 0))
  <2>1. /\ \A x \in BDType : o(x) \in Entry /\ o(x).dir = "out" /\ o(x).b = OtherOut(b) /\ o(x).bd = x
        /\ i \in Entry /\ i.dir = "in" /\ i.b = fw.pBDTEntryIn
    BY <1>2, EntTypes, Descriptors DEF Ent, Types, IsFw
  <2>2. /\ StallBD \in BDType /\ StallBD.own
        /\ \A dts \in {0, 1} : DataBD(dts, 8) \in BDType /\ DataBD(dts, 8).own
    BY Descriptors DEF StallBD, DataBD, BD
  <2> HIDE DEF o, i
  <2>3. CASE \E dts \in {0, 1} : handover' = <<Ent("out", OtherOut(b), DataBD(dts, 8))>>
    <3>1. PICK dts \in {0, 1} : handover' = <<o(DataBD(dts, 8))>>
      BY <2>3 DEF o
    <3> QED
      BY <2>1, <2>2, <3>1, HandOne
  <2>4. CASE handover' = <<Ent("out", OtherOut(b), StallBD)>>
    <3>1. handover' = <<o(StallBD)>>
      BY <2>4 DEF o
    <3> QED
      BY <2>1, <2>2, <3>1, HandOne
  <2>5. CASE /\ fw'.flag1 /\ ~fw.flag1 /\ ~fw.flag2
             /\ handover' = <<Ent("out", OtherOut(b), StallBD), Ent("in", fw.pBDTEntryIn, DataBD(1, 0))>>
    <3>1. handover' = <<o(StallBD), i>>
      BY <2>5 DEF o, i
    <3> QED
      BY <2>1, <2>2, <2>5, <3>1, HandTwo
  <2> QED
    BY <1>1, <2>3, <2>4, <2>5
<1>8. OutOwner'
  BY <1>2, <1>4, <1>6, <1>7, Constants DEF OutOwner, BusyOut
<1>9. OutReady' /\ TxBoth'
  <2>1. HandingOut(sie.out)' /\ sie'.out = sie.out /\ sie.out \in OutBDs
    BY <1>2, <1>5, <1>7
  <2> QED
    BY <1>4, <2>1 DEF OutReady, TxBoth
<1>10. OpenNext'
  BY <1>2, <1>3, <1>6, <1>7 DEF OpenNext
<1>11. InOwner'
  <2>1. HandingIn' => ~ArmedIn /\ ~QueuedIn
    BY <1>1, <1>7 DEF Owners, InOwner
  <2>2. ~fw'.flag1 /\ ~fw'.flag2 => ~fw.flag1 /\ ~fw.flag2
    BY <1>1 DEF SameFlags
  <2> QED
    BY <1>1, <1>2, <1>3, <1>4, <1>7, <2>1, <2>2 DEF Owners, InOwner
<1>12. Sections' /\ Arming'
  BY <1>3 DEF Owners, Sections, Arming
<1> QED
  BY <1>2, <1>7, <1>8, <1>9, <1>10, <1>11, <1>12 DEF Owners

LEMMA OutOwners ==
  ASSUME Types, Owners, CtrlTrfOut
  PROVE  Owners'
<1> DEFINE b == sie.ustat[1].bd
<1>1. /\ Received1(b) /\ ~Rx
      /\ fw'.controlTransferState = "WAIT_SETUP" /\ ~fw'.BothEP0OutUOWNsSet
      /\ SameFlags(fw, fw')
      /\ handover' = IF fw.BothEP0OutUOWNsSet THEN <<>> ELSE <<Ent("out", OtherOut(b), SetupBD)>>
  BY OutEffect
<1> HIDE DEF b
<1>2. /\ b \in OutBDs /\ OtherOut(b) \in OutBDs /\ OtherOut(b) # b
      /\ \A c \in OutBDs : c = b \/ c = OtherOut(b)
      /\ QueueOnce' /\ OutNext' /\ SetupLast'
      /\ \A c \in OutBDs : QueuedOut(c)' <=> QueuedOut(c) /\ c # b
      /\ QueuedOut(b) /\ (QueuedIn' <=> QueuedIn)
      /\ (ArmedIn' <=> ArmedIn) /\ (Live' <=> Live)
      /\ sie'.out = sie.out /\ (~QueuedOut(OtherOut(b)) => sie.out = OtherOut(b))
      /\ ~HandingIn /\ \A c : ~HandingOut(c)
  BY <1>1, Received1Queue
<1>3. /\ bdIn' = bdIn /\ pc = "trn" /\ pc' = "trn" /\ fw'.Current = b /\ fw'.pBDTEntryIn = fw.pBDTEntryIn
      /\ sie'.in = sie.in /\ fw'.USBDeviceState = fw.USBDeviceState /\ ~bdOut'[b].own
      /\ \A c \in OutBDs : c # b => bdOut'[c] = bdOut[c]
      /\ bdOut[b].pid = "OUT"
  BY <1>1 DEF Received1, SameEnds, SameDevice
<1>4. ~Tx' /\ ~Rx'
  BY <1>1 DEF Tx, Rx
<1>5. /\ HandoverOnce' /\ ~HandingIn'
      /\ \A c \in OutBDs : HandingOut(c)' <=> ~Tx /\ c = OtherOut(b)
      /\ \A k \in DOMAIN handover' : handover'[k].dir = "out" /\ handover'[k].b = OtherOut(b)
  <2>1. Tx <=> fw.BothEP0OutUOWNsSet
    BY DEF Owners, OutOwner
  <2>2. CASE Tx
    BY <1>1, <2>1, <2>2, HandNone
  <2>3. CASE ~Tx
    <3> DEFINE e == Ent("out", OtherOut(b), SetupBD)
    <3>1. e \in Entry /\ e.dir = "out" /\ e.b = OtherOut(b) /\ e.bd.own /\ handover' = <<e>>
      BY <1>1, <1>2, <2>1, <2>3, EntTypes, Descriptors DEF Ent, SetupBD, BD
    <3> HIDE DEF e
    <3> QED
      BY <2>3, <3>1, HandOne
  <2> QED
    BY <2>2, <2>3
<1>6. ~Tx => ~bdOut[OtherOut(b)].own /\ ~QueuedOut(OtherOut(b))
  BY <1>2, Constants DEF Owners, OutOwner, BusyOut
<1>7. \A c \in OutBDs : c = b => ~BusyOut(c)'
  BY <1>2, <1>3, <1>5 DEF BusyOut
<1>8. OutOwner'
  <2>1. \A c \in OutBDs : QueuedOut(c)' => ~bdOut'[c].own /\ ~HandingOut(c)'
    BY <1>2, <1>3, <1>5, <1>6 DEF Owners, OutOwner
  <2>2. \A c \in OutBDs : HandingOut(c)' => ~bdOut'[c].own
    BY <1>2, <1>3, <1>5, <1>6
  <2> QED
    BY <1>1, <1>2, <1>4, <1>7, <2>1, <2>2, Constants DEF OutOwner
<1>9. OutReady'
  <2>1. CASE ~Tx
    <3>1. HandingOut(sie.out)' /\ sie'.out = sie.out /\ sie.out \in OutBDs
      BY <1>2, <1>5, <1>6, <2>1
    <3> QED
      BY <3>1 DEF OutReady
  <2>2. CASE Tx /\ Live
    <3>1. ~Fresh
      BY <1>2, <1>3 DEF Fresh
    <3>2. BusyOut(OtherOut(b))
      BY <1>2, <2>2, <3>1, Constants DEF Owners, TxBoth
    <3>3. bdOut[OtherOut(b)].own \/ QueuedOut(OtherOut(b))
      BY <1>2, <3>2 DEF BusyOut
    <3>4. CASE QueuedOut(OtherOut(b))
      BY <1>2, <3>4, Constants DEF OutReady
    <3>5. CASE ~QueuedOut(OtherOut(b))
      <4>1. bdOut[OtherOut(b)].own /\ sie'.out = OtherOut(b)
        BY <1>2, <3>3, <3>5
      <4> QED
        BY <1>2, <1>3, <4>1 DEF OutReady
    <3> QED
      BY <3>4, <3>5
  <2> QED
    BY <1>2, <2>1, <2>2 DEF OutReady
<1>10. TxBoth'
  BY <1>4 DEF TxBoth
<1>11. OpenNext'
  BY <1>2, <1>3, <1>5, <1>7 DEF OpenNext, BusyOut
<1>12. InOwner'
  BY <1>2, <1>3, <1>4, <1>5 DEF Owners, InOwner
<1>13. Sections' /\ Arming'
  BY <1>3 DEF Owners, Sections, Arming
<1> QED
  BY <1>2, <1>5, <1>8, <1>9, <1>10, <1>11, <1>12, <1>13 DEF Owners

LEMMA InOwners ==
  ASSUME Types, Owners, PendingRam, CtrlTrfIn
  PROVE  Owners'
<1>1. /\ pc = "trn" /\ pc' = "trn" /\ handover = <<>> /\ sie.ustat # <<>>
      /\ sie.ustat[1].dir = "in"
      /\ UNCHANGED <<bdOut, host, faults>>
      /\ ~bdIn'[fw.pBDTEntryIn].own /\ \A c \in InBDs : c # fw.pBDTEntryIn => bdIn'[c] = bdIn[c]
      /\ sie'.ustat = Tail(sie.ustat) /\ SameEnds(sie, sie') /\ (sie'.pktdis <=> sie.pktdis)
      /\ SameSignals(sie, sie')
      /\ fw'.USBDeviceState = IF fw.USBDeviceState = "ADR_PENDING_STATE" THEN "ADDRESS_STATE"
                                                                        ELSE fw.USBDeviceState
      /\ fw'.pBDTEntryIn = NextIn(fw.pBDTEntryIn) /\ fw'.Current = fw.Current /\ fw'.Next = fw.Next
      /\ SameFlags(fw, fw') /\ (fw'.BothEP0OutUOWNsSet <=> fw.BothEP0OutUOWNsSet)
      /\ \/ /\ Tx /\ fw'.controlTransferState = "CTRL_TRF_TX"
            /\ \E x \in BDType : handover' = <<Ent("in", fw'.pBDTEntryIn, x)>>
         \/ /\ ~Tx /\ fw'.controlTransferState = "WAIT_SETUP" /\ handover' = <<>>
  BY InEffect DEF PendingRam
<1>2. /\ fw.pBDTEntryIn \in InBDs /\ fw'.pBDTEntryIn \in InBDs /\ sie'.out = sie.out /\ sie'.in = sie.in
  BY <1>1, Constants DEF Types, IsFw, SameEnds
<1>3. /\ QueueOnce' /\ OutNext' /\ ~QueuedIn' /\ QueuedIn
      /\ \A c \in OutBDs : QueuedOut(c)' <=> QueuedOut(c)
  BY <1>1, <1>2, PopQueue DEF Owners
<1>4. /\ ~Below(fw.USBDeviceState) /\ ~Below(fw'.USBDeviceState) /\ (Live' <=> Live)
  <2>1. ~Below(fw.USBDeviceState)
    BY <1>1 DEF Owners, Sections
  <2>2. ~Below(fw'.USBDeviceState)
    BY <1>1, <2>1 DEF Below
  <2> QED
    BY <1>1, <2>1, <2>2 DEF Live, SameSignals
<1>5. SetupLast'
  <2>1. ~IsSetup(1)
    BY <1>1 DEF IsSetup
  <2> QED
    BY <1>1, <1>4, <2>1, PopSetup DEF Owners
<1>6. /\ HandoverOnce' /\ (HandingIn' <=> Tx) /\ \A c \in OutBDs : ~HandingOut(c)'
      /\ \A k \in DOMAIN handover' : handover'[k].dir = "in" /\ handover'[k].b = fw'.pBDTEntryIn
  <2>1. CASE Tx
    <3>1. PICK x \in BDType : handover' = <<Ent("in", fw'.pBDTEntryIn, x)>>
      BY <1>1, <2>1
    <3> DEFINE e == Ent("in", fw'.pBDTEntryIn, x)
    <3>2. e \in Entry /\ e.dir = "in" /\ e.b = fw'.pBDTEntryIn /\ handover' = <<e>>
      BY <1>2, <3>1, EntTypes DEF Ent
    <3> HIDE DEF e
    <3> QED
      BY <2>1, <3>2, HandOne
  <2>2. CASE ~Tx
    BY <1>1, <2>2, HandNone
  <2> QED
    BY <2>1, <2>2
<1>7. /\ ~HandingIn /\ \A c : ~HandingOut(c)
  BY <1>1, SeqFacts DEF HandingIn, HandingOut
<1>8. /\ (Tx' <=> Tx) /\ ~Rx'
  BY <1>1 DEF Tx, Rx
<1>9. ~ArmedIn'
  BY <1>1, <1>3 DEF Owners, InOwner, ArmedIn
<1>10. \A c \in OutBDs : BusyOut(c)' <=> BusyOut(c)
  BY <1>1, <1>3, <1>6, <1>7 DEF BusyOut
<1>11. OutOwner'
  BY <1>1, <1>3, <1>6, <1>8, <1>10, Constants DEF Owners, OutOwner
<1>12. OutReady'
  <2>1. sie.out \in OutBDs
    BY DEF Types, IsSie
  <2> QED
    BY <1>1, <1>2, <1>3, <1>4, <1>7, <2>1, Constants DEF Owners, OutReady
<1>13. TxBoth'
  BY <1>1, <1>3, <1>4, <1>8, <1>10, Constants DEF Owners, TxBoth, Fresh
<1>14. OpenNext'
  BY <1>1, <1>6 DEF Owners, OpenNext
<1>15. InOwner'
  <2>1. sie'.in = fw'.pBDTEntryIn
    BY <1>1, <1>2, <1>3 DEF Owners, InOwner
  <2>2. Tx' => fw'.flag2
    BY <1>1, <1>8 DEF Owners, InOwner, SameFlags
  <2>3. \A c \in InBDs : ~bdIn'[c].own
    BY <1>9 DEF ArmedIn
  <2> QED
    BY <1>3, <1>6, <1>8, <1>9, <2>1, <2>2, <2>3 DEF InOwner
<1>16. Sections' /\ Arming'
  BY <1>1, <1>4 DEF Sections, Arming
<1> QED
  BY <1>3, <1>5, <1>6, <1>11, <1>12, <1>13, <1>14, <1>15, <1>16 DEF Owners

LEMMA HandOverOwners ==
  ASSUME Types, Owners, HandOver
  PROVE  Owners'
<1>1. /\ UNCHANGED <<sie, ram, host, faults, fw, app, pc, loop>>
      /\ handover # <<>> /\ handover' = Tail(handover)
      /\ \/ /\ handover[1].dir = "out" /\ bdIn' = bdIn /\ bdOut'[handover[1].b] = handover[1].bd
            /\ handover[1].b \in OutBDs
            /\ \A b \in OutBDs : b # handover[1].b => bdOut'[b] = bdOut[b]
         \/ /\ handover[1].dir = "in" /\ bdOut' = bdOut /\ bdIn'[handover[1].b] = handover[1].bd
            /\ handover[1].b \in InBDs
            /\ \A b \in InBDs : b # handover[1].b => bdIn'[b] = bdIn[b]
  BY HandOverEffect
<1>2. PICK w \in Entry : w = handover[1]
  BY <1>1, HandTail DEF Owners
<1>3. /\ HandoverOnce' /\ (w.dir = "out" => w.bd.own)
      /\ \A c \in OutBDs : HandingOut(c)' <=> HandingOut(c) /\ ~(w.dir = "out" /\ c = w.b)
      /\ HandingIn' <=> HandingIn /\ w.dir # "in"
      /\ w.dir = "out" => HandingOut(w.b)
      /\ w.dir = "in" => HandingIn
      /\ 1 \in DOMAIN handover
      /\ \A k \in DOMAIN handover' : \E j \in DOMAIN handover : handover'[k] = handover[j]
  BY <1>1, <1>2, HandTail DEF Owners
<1>4. /\ pc' = pc /\ pc \in {"stall", "trn"} /\ fw' = fw /\ sie' = sie /\ host' = host /\ app' = app
  BY <1>1 DEF Owners, Sections
<1>5. /\ QueueOnce' /\ OutNext'
  BY <1>4 DEF Owners, QueueOnce, OutNext
<1>6. /\ \A c : QueuedOut(c)' <=> QueuedOut(c)
      /\ (QueuedIn' <=> QueuedIn) /\ (Tx' <=> Tx) /\ (Rx' <=> Rx) /\ (Live' <=> Live)
  BY <1>4 DEF QueuedOut, QueuedIn, Tx, Rx, Live
<1>7. Arming'
  BY <1>4 DEF Arming
<1>8. CASE w.dir = "out"
  <2>1. /\ bdIn' = bdIn /\ bdOut'[w.b] = w.bd /\ w.b \in OutBDs /\ w.bd.own /\ HandingOut(w.b)
        /\ \A b \in OutBDs : b # w.b => bdOut'[b] = bdOut[b]
    BY <1>1, <1>2, <1>3, <1>8
  <2>2. ~QueuedOut(w.b)
    BY <2>1 DEF Owners, OutOwner
  <2>3. \A c \in OutBDs : BusyOut(c)' <=> BusyOut(c)
    BY <1>3, <1>6, <1>8, <2>1 DEF BusyOut
  <2>4. OutOwner'
    BY <1>3, <1>4, <1>6, <1>8, <2>1, <2>2, <2>3, Constants DEF Owners, OutOwner
  <2>5. OutReady'
    <3>1. sie.out \in OutBDs /\ sie'.out = sie.out
      BY <1>4 DEF Types, IsSie
    <3> QED
      BY <1>3, <1>4, <1>6, <1>8, <2>1, <3>1 DEF Owners, OutReady
  <2>6. TxBoth'
    BY <1>4, <1>6, <2>1, <2>2, <2>3, Constants DEF Owners, TxBoth, Fresh
  <2>7. OpenNext'
    BY <1>2, <1>3, <1>4, <1>8, <2>1 DEF Owners, OpenNext
  <2>8. InOwner'
    <3>1. ArmedIn' <=> ArmedIn
      BY <2>1 DEF ArmedIn
    <3> QED
      BY <1>3, <1>4, <1>6, <1>8, <2>1, <3>1 DEF Owners, InOwner
  <2>9. SetupLast'
    <3>1. \A k \in DOMAIN sie.ustat : IsSetup(k)' <=> IsSetup(k)
      <4>1. \A k \in DOMAIN sie.ustat : sie.ustat[k] \in Queue
        BY SeqFacts DEF Types, IsSie
      <4>2. ASSUME NEW k \in DOMAIN sie.ustat, sie.ustat[k].dir = "out"
            PROVE  bdOut'[sie.ustat[k].bd] = bdOut[sie.ustat[k].bd]
        BY <2>1, <2>2, <4>1, <4>2 DEF QueuedOut, Queue
      <4> QED
        BY <1>4, <4>2 DEF IsSetup
    <3>2. sie.ustat # <<>> => Len(sie.ustat) \in DOMAIN sie.ustat
      BY SeqFacts DEF Types, IsSie
    <3> QED
      BY <1>4, <1>6, <3>1, <3>2 DEF Owners, SetupLast
  <2>10. Sections'
    <3>1. ArmedIn' <=> ArmedIn
      BY <2>1 DEF ArmedIn
    <3> QED
      BY <1>3, <1>4, <1>6, <3>1 DEF Owners, Sections
  <2> QED
    BY <1>3, <1>5, <1>7, <2>4, <2>5, <2>6, <2>7, <2>8, <2>9, <2>10 DEF Owners
<1>9. CASE w.dir = "in"
  <2>1. /\ bdOut' = bdOut /\ bdIn'[w.b] = w.bd /\ w.b \in InBDs /\ HandingIn /\ ~HandingIn'
        /\ \A b \in InBDs : b # w.b => bdIn'[b] = bdIn[b]
    BY <1>1, <1>2, <1>3, <1>9
  <2>2. \A c \in OutBDs : (BusyOut(c)' <=> BusyOut(c)) /\ (HandingOut(c)' <=> HandingOut(c))
    BY <1>3, <1>6, <1>9, <2>1 DEF BusyOut
  <2>3. OutOwner'
    BY <1>4, <1>6, <2>1, <2>2, Constants DEF Owners, OutOwner
  <2>4. OutReady'
    <3>1. sie.out \in OutBDs /\ sie'.out = sie.out
      BY <1>4 DEF Types, IsSie
    <3> QED
      BY <1>4, <1>6, <2>1, <2>2, <3>1 DEF Owners, OutReady
  <2>5. TxBoth'
    BY <1>4, <1>6, <2>1, <2>2, Constants DEF Owners, TxBoth, Fresh
  <2>6. OpenNext'
    BY <1>3, <1>4, <2>1 DEF Owners, OpenNext
  <2>7. InOwner'
    <3>1. w.b = fw.pBDTEntryIn /\ ~QueuedIn /\ ~(Rx /\ ~fw.flag1 /\ ~fw.flag2)
      BY <1>2, <1>3, <1>9, <2>1 DEF Owners, InOwner
    <3>2. \A b \in InBDs : bdIn'[b].own => b = fw.pBDTEntryIn
      BY <2>1, <3>1 DEF Owners, InOwner
    <3> QED
      BY <1>3, <1>4, <1>6, <2>1, <3>1, <3>2 DEF Owners, InOwner
  <2>8. SetupLast'
    BY <1>4, <1>6, <2>1 DEF Owners, SetupLast, IsSetup
  <2>9. Sections'
    BY <1>4, <2>1 DEF Owners, Sections
  <2> QED
    BY <1>3, <1>5, <1>7, <2>3, <2>4, <2>5, <2>6, <2>7, <2>8, <2>9 DEF Owners
<1> QED
  BY <1>8, <1>9 DEF Entry

\* The SIE takes a packet into the next OUT descriptor.
LEMMA SieOutQueue ==
  ASSUME Types, Owners, NEW pid \in {"SETUP", "OUT"}, NEW packet, packet.len \in Nat,
         Listening, bdOut[sie.out].own, SieOut(pid, packet), UNCHANGED fwVars
  PROVE  /\ QueueOnce' /\ OutNext' /\ SetupLast'
         /\ ~QueuedOut(sie.out) /\ ~HandingOut(sie.out)
         /\ \A c \in OutBDs : QueuedOut(c)' <=> QueuedOut(c) \/ c = sie.out
         /\ (QueuedIn' <=> QueuedIn)
         /\ \A k \in DOMAIN sie'.ustat : IsSetup(k)' <=> pid = "SETUP" /\ k = Len(sie'.ustat)
         /\ sie'.ustat # <<>> /\ Len(sie'.ustat) \in DOMAIN sie'.ustat
         /\ sie'.ustat[Len(sie'.ustat)] = [dir |-> "out", bd |-> sie.out]
<1>1. Len(sie.ustat) < 4 /\ ~sie.pktdis
  BY DEF Listening
<1>2. PICK b \in OutBDs : b = sie.out
  BY DEF Types, IsSie
<1>3. /\ ~bdOut'[b].own /\ bdOut'[b].pid = pid
      /\ \A c \in OutBDs : c # b => bdOut'[c] = bdOut[c]
      /\ sie'.ustat = Append(sie.ustat, [dir |-> "out", bd |-> b]) /\ [dir |-> "out", bd |-> b] \in Queue
      /\ sie'.out = OtherOut(b) /\ (sie'.pktdis <=> pid = "SETUP")
  BY <1>1, <1>2, SieOutEffect
<1> DEFINE e == [dir |-> "out", bd |-> b]
<1>4. ~QueuedOut(b) /\ ~HandingOut(b)
  BY <1>2 DEF Owners, OutOwner
<1>5. e \in Queue /\ e.dir = "out" /\ e.bd = b /\ sie'.ustat = Append(sie.ustat, e)
  BY <1>3
<1> HIDE DEF e
<1>6. /\ QueueOnce' /\ OutNext'
      /\ \A c \in OutBDs : QueuedOut(c)' <=> QueuedOut(c) \/ c = b
      /\ QueuedIn' <=> QueuedIn
      /\ sie'.ustat # <<>> /\ Len(sie'.ustat) = Len(sie.ustat) + 1 /\ sie'.ustat[Len(sie'.ustat)] = e
      /\ Len(sie.ustat) \in Nat /\ DOMAIN sie.ustat = 1 .. Len(sie.ustat)
      /\ DOMAIN sie'.ustat = 1 .. Len(sie.ustat) + 1
      /\ \A k \in DOMAIN sie.ustat : sie'.ustat[k] = sie.ustat[k]
  BY <1>3, <1>4, <1>5, PushQueue DEF Owners
<1>7. ASSUME NEW k \in DOMAIN sie'.ustat
      PROVE  IsSetup(k)' <=> pid = "SETUP" /\ k = Len(sie'.ustat)
  <2>0. IsSetup(k)' <=> sie'.ustat[k].dir = "out" /\ bdOut'[sie'.ustat[k].bd].pid = "SETUP"
    BY DEF IsSetup
  <2>1. CASE k \in DOMAIN sie.ustat
    <3>1. k # Len(sie'.ustat)
      BY <1>6, <2>1
    <3>2. sie'.ustat[k] = sie.ustat[k]
      BY <1>6, <2>1
    <3>3. CASE sie.ustat[k].dir = "out"
      <4>1. sie.ustat[k] \in Queue
        BY <2>1, SeqFacts DEF Types, IsSie
      <4>2. sie.ustat[k].bd \in OutBDs /\ QueuedOut(sie.ustat[k].bd)
        BY <2>1, <3>3, <4>1 DEF Queue, QueuedOut
      <4>3. sie.ustat[k].bd # b /\ bdOut'[sie.ustat[k].bd] = bdOut[sie.ustat[k].bd]
        BY <1>3, <1>4, <4>2
      <4>4. ~IsSetup(k)
        BY <1>1, <2>1 DEF Owners, SetupLast
      <4> QED
        BY <2>0, <3>1, <3>2, <3>3, <4>3, <4>4 DEF IsSetup
    <3> QED
      BY <2>0, <3>1, <3>2, <3>3
  <2>2. CASE k = Len(sie'.ustat)
    BY <1>3, <1>5, <1>6, <2>0, <2>2
  <2> QED
    BY <1>6, <2>1, <2>2
<1>8. SetupLast'
  <2>1. Len(sie'.ustat) \in DOMAIN sie'.ustat
    BY <1>6
  <2> QED
    BY <1>3, <1>6, <1>7, <2>1 DEF SetupLast
<1>9. Len(sie'.ustat) \in DOMAIN sie'.ustat /\ e = [dir |-> "out", bd |-> sie.out]
  BY <1>2, <1>6 DEF e
<1> QED
  BY <1>2, <1>4, <1>6, <1>7, <1>8, <1>9

LEMMA SieOutOwners ==
  ASSUME Types, Owners, NEW pid \in {"SETUP", "OUT"}, NEW packet, packet.len \in Nat,
         Listening, bdOut[sie.out].own, SieOut(pid, packet), UNCHANGED fwVars,
         pid = "OUT" => host.stage \in {"data", "status"}
  PROVE  Owners'
<1>1. /\ Len(sie.ustat) < 4 /\ ~sie.pktdis /\ ~sie.urstif
      /\ UNCHANGED <<fw, app, pc, handover>>
  BY DEF Listening, fwVars
<1>2. PICK b \in OutBDs : b = sie.out
  BY DEF Types, IsSie
<1>3. /\ ~bdOut'[b].own /\ bdOut'[b].pid = pid /\ bdIn' = bdIn
      /\ \A c \in OutBDs : c # b => bdOut'[c] = bdOut[c]
      /\ sie'.out = OtherOut(b) /\ sie'.in = sie.in /\ sie'.addr = sie.addr
      /\ (sie'.pktdis <=> pid = "SETUP") /\ SameSignals(sie, sie')
  BY <1>1, <1>2, SieOutEffect
<1>4. /\ QueueOnce' /\ OutNext' /\ SetupLast'
      /\ ~QueuedOut(b) /\ ~HandingOut(b)
      /\ \A c \in OutBDs : QueuedOut(c)' <=> QueuedOut(c) \/ c = b
      /\ (QueuedIn' <=> QueuedIn)
  BY <1>2, SieOutQueue
<1>5. bdOut[b].own
  BY <1>2
<1>6. /\ \A c : HandingOut(c)' <=> HandingOut(c)
      /\ (HandingIn' <=> HandingIn) /\ (ArmedIn' <=> ArmedIn) /\ (Tx' <=> Tx) /\ (Rx' <=> Rx)
      /\ (Live' <=> Live) /\ HandoverOnce'
  BY <1>1, <1>3 DEF HandingOut, HandingIn, ArmedIn, Tx, Rx, Live, SameSignals, HandoverOnce, Owners
<1>7. \A c \in OutBDs : BusyOut(c)' <=> BusyOut(c)
  BY <1>3, <1>4, <1>5, <1>6 DEF BusyOut
<1>8. OutOwner'
  BY <1>1, <1>3, <1>4, <1>6, <1>7, Constants DEF Owners, OutOwner
<1>9. OutReady'
  BY <1>4, Constants DEF OutReady
<1>10. TxBoth'
  <2>1. CASE pid = "OUT"
    <3>1. ~Fresh
      BY <1>1, <2>1 DEF Fresh
    <3> QED
      BY <1>6, <1>7, <3>1, Constants DEF Owners, TxBoth
  <2>2. CASE pid = "SETUP"
    <3>1. Fresh => Fresh'
      BY <1>3, <1>4, <2>2 DEF Fresh
    <3> QED
      BY <1>6, <1>7, <3>1, Constants DEF Owners, TxBoth
  <2> QED
    BY <2>1, <2>2
<1>11. OpenNext'
  BY <1>1, <1>3 DEF Owners, OpenNext
<1>12. InOwner'
  BY <1>1, <1>3, <1>4, <1>6 DEF Owners, InOwner
<1>13. Sections'
  BY <1>1, <1>3, <1>4, <1>6 DEF Owners, Sections
<1>14. Arming'
  BY <1>1, <1>5 DEF Owners, Arming
<1> QED
  BY <1>4, <1>6, <1>8, <1>9, <1>10, <1>11, <1>12, <1>13, <1>14 DEF Owners

\* The SIE has sent a packet from the next IN descriptor.
LEMMA SieInOwners ==
  ASSUME Types, Owners, NEW b \in InBDs, b = sie.in, bdIn[b].own, ~bdIn'[b].own, ~sie.pktdis,
         host.stage \in {"data", "status"}, UNCHANGED bdOut,
         \A c \in InBDs : c # b => bdIn'[c] = bdIn[c],
         sie'.ustat = Append(sie.ustat, [dir |-> "in", bd |-> b]), [dir |-> "in", bd |-> b] \in Queue,
         sie'.in = NextIn(b), sie'.out = sie.out, sie'.addr = sie.addr,
         sie'.pktdis <=> sie.pktdis, SameSignals(sie, sie'), UNCHANGED fwVars
  PROVE  /\ Owners' /\ ~QueuedIn /\ QueuedIn' /\ b = fw.pBDTEntryIn
         /\ \A k \in DOMAIN sie'.ustat : ~IsSetup(k)'
<1> DEFINE e == [dir |-> "in", bd |-> b]
<1>1. UNCHANGED <<fw, app, pc, handover>>
  BY DEF fwVars
<1>2. e \in Queue /\ e.dir = "in" /\ sie'.ustat = Append(sie.ustat, e)
  OBVIOUS
<1> HIDE DEF e
<1>3. ArmedIn /\ ~QueuedIn /\ ~HandingIn /\ b = fw.pBDTEntryIn
  BY DEF Owners, InOwner, ArmedIn
<1>4. /\ QueueOnce' /\ OutNext'
      /\ \A c \in OutBDs : QueuedOut(c)' <=> QueuedOut(c)
      /\ QueuedIn'
      /\ sie'.ustat # <<>> /\ Len(sie'.ustat) = Len(sie.ustat) + 1 /\ sie'.ustat[Len(sie'.ustat)] = e
      /\ Len(sie.ustat) \in Nat /\ DOMAIN sie.ustat = 1 .. Len(sie.ustat)
      /\ DOMAIN sie'.ustat = 1 .. Len(sie.ustat) + 1
      /\ \A k \in DOMAIN sie.ustat : sie'.ustat[k] = sie.ustat[k]
  BY <1>2, <1>3, PushQueue DEF Owners
<1>5. ASSUME NEW k \in DOMAIN sie'.ustat
      PROVE  ~IsSetup(k)'
  <2>1. CASE k \in DOMAIN sie.ustat
    <3>1. ~IsSetup(k)
      BY <2>1 DEF Owners, SetupLast
    <3> QED
      BY <1>4, <2>1, <3>1 DEF IsSetup
  <2>2. CASE k = Len(sie'.ustat)
    BY <1>2, <1>4, <2>2 DEF IsSetup
  <2> QED
    BY <1>4, <2>1, <2>2
<1>6. /\ \A c : HandingOut(c)' <=> HandingOut(c)
      /\ (HandingIn' <=> HandingIn) /\ (Tx' <=> Tx) /\ (Rx' <=> Rx)
      /\ (Live' <=> Live) /\ HandoverOnce'
  BY <1>1 DEF HandingOut, HandingIn, Tx, Rx, Live, SameSignals, HandoverOnce, Owners
<1>7. \A c \in OutBDs : BusyOut(c)' <=> BusyOut(c)
  BY <1>4, <1>6 DEF BusyOut
<1>8. ~ArmedIn' /\ \A c \in InBDs : ~bdIn'[c].own
  BY <1>3 DEF Owners, InOwner, ArmedIn
<1>9. OutOwner'
  BY <1>1, <1>4, <1>6, <1>7, Constants DEF Owners, OutOwner
<1>10. OutReady'
  <2>1. sie.out \in OutBDs
    BY DEF Types, IsSie
  <2> QED
    BY <1>1, <1>4, <1>6, <2>1, Constants DEF Owners, OutReady
<1>11. TxBoth'
  <2>1. ~Fresh
    BY DEF Fresh
  <2> QED
    BY <1>6, <1>7, <2>1, Constants DEF Owners, TxBoth
<1>12. OpenNext'
  BY <1>1 DEF Owners, OpenNext
<1>13. InOwner'
  BY <1>1, <1>3, <1>4, <1>6, <1>8 DEF Owners, InOwner
<1>14. SetupLast'
  BY <1>5 DEF SetupLast
<1>15. Sections'
  BY <1>1, <1>3, <1>6 DEF Owners, Sections
<1>16. Arming'
  BY <1>1, <1>3 DEF Owners, Arming
<1> QED
  BY <1>3, <1>4, <1>5, <1>6, <1>9, <1>10, <1>11, <1>12, <1>13, <1>14, <1>15, <1>16 DEF Owners

\* The host or the engine does something that concerns no descriptor.
LEMMA OwnersHostQuiet ==
  ASSUME Types, Owners, UNCHANGED <<bdOut, bdIn, ram>>, UNCHANGED fwVars, SameQueue,
         sie'.pktdis <=> sie.pktdis, ~sie'.urstif => ~sie.urstif,
         sie'.addr = sie.addr \/ sie'.addr = 0,
         host.stage \in {"idle", "setup"} => host'.stage \in {"idle", "setup"}
  PROVE  Owners'
<1>1. UNCHANGED <<fw, app, pc, handover>>
  BY DEF fwVars
<1>2. /\ SameTransfer(fw, fw') /\ SamePointers(fw, fw') /\ (Live' => Live)
      /\ (Tx => fw'.flag2)
      /\ (Rx /\ ~fw'.flag1 /\ ~fw'.flag2 => ~fw.flag1 /\ ~fw.flag2)
      /\ pc' \in {"trn", "arm"} => ~Below(fw'.USBDeviceState)
      /\ Below(fw'.USBDeviceState)
         => Below(fw.USBDeviceState) /\ sie'.addr = 0 /\ app'.cfg = app.cfg /\ (fw.flag1 => fw'.flag1)
      /\ handover # <<>> => pc' \in {"stall", "trn"}
  BY <1>1 DEF SameTransfer, SamePointers, Live, Owners, InOwner, Sections
<1>3. /\ UNCHANGED <<bdOut, bdIn, handover>> /\ ram'.SetupPkt = ram.SetupPkt
      /\ pc' = "arm" <=> pc = "arm"
      /\ pc' = "attach" => pc = "attach" /\ UNCHANGED fw
  BY <1>1
<1> QED
  BY <1>2, <1>3, OwnersQuiet

LEMMA OwnersHost ==
  ASSUME Types, Owners, HostWays, HostStep, UNCHANGED fwVars
  PROVE  Owners'
<1>1. CASE SetupToken
  <2>1. /\ Listening /\ bdOut[sie.out].own /\ SieOut("SETUP", Packet(host'.req, 0, 8))
    BY <1>1, SetupTokenEffect
  <2>2. Packet(host'.req, 0, 8).len \in Nat
    BY DEF Packet
  <2> QED
    BY <2>1, <2>2, SieOutOwners
<1>2. CASE InToken
  <2>1. PICK b \in InBDs : b = sie.in
    BY DEF Types, IsSie
  <2>2. /\ Listening /\ bdIn[b].own /\ Progress /\ UNCHANGED <<bdOut, ram>>
        /\ \/ UNCHANGED bdIn /\ SameSie
           \/ /\ ~bdIn[b].stall /\ ~bdIn'[b].own /\ \A c \in InBDs : c # b => bdIn'[c] = bdIn[c]
              /\ sie'.ustat = Append(sie.ustat, [dir |-> "in", bd |-> b]) /\ [dir |-> "in", bd |-> b] \in Queue
              /\ sie'.in = NextIn(b) /\ sie'.out = sie.out /\ sie'.addr = sie.addr
              /\ (sie'.pktdis <=> sie.pktdis) /\ SameSignals(sie, sie')
    BY <1>2, <2>1, InTokenEffect
  <2>3. ~sie.pktdis /\ host.stage \in {"data", "status"}
    BY <2>2 DEF Listening, Progress
  <2>4. CASE UNCHANGED bdIn /\ SameSie
    BY <2>2, <2>3, <2>4, OwnersHostQuiet DEF SameSie
  <2>5. CASE ~(UNCHANGED bdIn /\ SameSie)
    BY <2>1, <2>2, <2>3, <2>5, SieInOwners
  <2> QED
    BY <2>4, <2>5
<1>3. CASE OutToken
  <2>1. /\ Listening /\ bdOut[sie.out].own /\ Progress /\ host.stage \in {"data", "status"}
        /\ \/ UNCHANGED <<bdOut, bdIn, ram>> /\ SameSie
           \/ \E packet : packet.len \in Nat /\ SieOut("OUT", packet)
    BY <1>3, OutTokenEffect DEF Progress
  <2>2. CASE UNCHANGED <<bdOut, bdIn, ram>> /\ SameSie
    BY <2>1, <2>2, OwnersHostQuiet DEF SameSie
  <2>3. CASE \E packet : packet.len \in Nat /\ SieOut("OUT", packet)
    <3>1. PICK packet : packet.len \in Nat /\ SieOut("OUT", packet)
      BY <2>3
    <3> QED
      BY <2>1, <3>1, SieOutOwners
  <2> QED
    BY <2>1, <2>2, <2>3
<1>4. CASE GiveUp
  BY <1>4, GiveUpEffect, OwnersHostQuiet DEF SameQueue
<1>5. CASE BusReset(Unanswered)
  BY <1>5, BusResetEffect, OwnersHostQuiet
<1>6. CASE EndReset
  BY <1>6, EndResetEffect, OwnersHostQuiet DEF SameQueue
<1>7. CASE Sleep
  BY <1>7, SleepEffect, OwnersHostQuiet
<1>8. CASE Resume
  BY <1>8, ResumeEffect, OwnersHostQuiet
<1> QED
  BY <1>1, <1>2, <1>3, <1>4, <1>5, <1>6, <1>7, <1>8 DEF HostStep, Token

LEMMA OwnersFirmware ==
  ASSUME Types, Owners, HostWays, SetupKnown, PendingRam, Firmware
  PROVE  Owners'
BY AttachOwners, EnterOwners, BusOwners, SofOwners, StallOwners, LeaveOwners, SetupOwners, ArmOwners,
   RxOwners, OutOwners, InOwners, HandOverOwners DEF Firmware

-----------------------------------------------------------------------------
(* Every step keeps the types. *)

LEMMA TypesFirmware ==
  ASSUME Types, Owners, SetupKnown, PendingRam, Firmware
  PROVE  Types'
<1>1. CASE TasksBus
  <2>1. /\ pc = "bus" /\ pc' = "sof" /\ UNCHANGED <<ram, host, faults, loop, handover>>
        /\ \/ sie.urstif /\ Reset
           \/ ~sie.urstif /\ sie.idleif /\ USBSuspend
           \/ ~sie.urstif /\ ~sie.idleif /\ UNCHANGED <<bdOut, bdIn, sie, fw, app>>
    BY <1>1, BusWays
  <2>2. CASE Reset
    BY <2>1, <2>2, ResetEffect
  <2>3. CASE USBSuspend
    BY <2>1, <2>3, SuspendEffect
  <2>4. CASE UNCHANGED <<bdOut, bdIn, sie, fw, app>>
    BY <2>1, <2>4 DEF Types, RestOK, IsFw, IsSie, IsHost, IsApp
  <2> QED
    BY <2>1, <2>2, <2>3, <2>4
<1>2. /\ Tx => fw.flag2
      /\ fw.USBDeviceState = "ADR_PENDING_STATE" => IsSetAddress(ram.SetupPkt.of)
      /\ OpenNext
      /\ pc = "arm" => ram.SetupPkt.of \in Requests
  BY DEF Owners, InOwner, Arming, PendingRam
<1>3. CASE USBDeviceAttach \/ TasksEnter \/ TasksSof \/ TasksNoSof \/ TasksStall \/ TasksLeave \/ HandOver
  BY <1>2, <1>3, AttachEffect, EnterEffect, SofEffect, NoSofEffect, StallEffect, LeaveEffect, HandOverEffect
<1>4. CASE CtrlTrfSetup \/ StdSetCfg
  BY <1>4, SetupEffect, StdSetCfgEffect
<1>5. CASE CtrlEPServiceComplete
  <2>1. pc = "arm"
    BY <1>5 DEF CtrlEPServiceComplete
  <2> QED
    BY <1>2, <1>5, <2>1, ArmTypes
<1>6. CASE CtrlTrfRx \/ CtrlTrfOut \/ CtrlTrfIn
  BY <1>2, <1>6, RxEffect, OutEffect, InEffect
<1> QED
  BY <1>1, <1>3, <1>4, <1>5, <1>6 DEF Firmware

LEMMA TypesHost ==
  ASSUME Types, HostWays, HostStep, UNCHANGED fwVars
  PROVE  Types'
<1>1. /\ UNCHANGED <<fw, app, pc, loop, handover>>
      /\ IsFw(fw') /\ IsApp(app')
  BY DEF fwVars, Types, IsFw, IsApp
<1>2. ASSUME IsSie(sie'), IsHost(host'), Len(sie'.ustat) <= 4,
             bdOut' \in [OutBDs -> BDType], bdIn' \in [InBDs -> BDType],
             ram' = [a \in Buffers |-> ram'[a]]
      PROVE  Types'
  BY <1>1, <1>2 DEF Types, RestOK
<1>3. ASSUME UNCHANGED <<bdOut, bdIn, ram>>, IsSie(sie'), IsHost(host'), sie'.ustat = sie.ustat
      PROVE  Types'
  BY <1>2, <1>3 DEF Types, RestOK
<1>4. ASSUME NEW pid \in {"SETUP", "OUT"}, NEW packet, packet.len \in Nat, Len(sie.ustat) < 4,
             SieOut(pid, packet), IsHost(host')
      PROVE  Types'
  <2>1. /\ bdOut' \in [OutBDs -> BDType] /\ bdIn' = bdIn /\ ram' = [a \in Buffers |-> ram'[a]]
        /\ IsSie(sie') /\ Len(sie'.ustat) <= 4
    BY <1>4, SieOutEffect
  <2> QED
    BY <1>2, <1>4, <2>1 DEF Types, RestOK
<1>5. CASE SetupToken
  <2>1. /\ SieOut("SETUP", Packet(host'.req, 0, 8)) /\ Len(sie.ustat) < 4 /\ IsHost(host')
    BY <1>5, SetupTokenEffect
  <2>2. Packet(host'.req, 0, 8).len \in Nat
    BY DEF Packet
  <2> QED
    BY <1>4, <2>1, <2>2
<1>6. CASE InToken
  <2>1. /\ UNCHANGED <<bdOut, ram>> /\ IsSie(sie') /\ bdIn' \in [InBDs -> BDType] /\ Len(sie'.ustat) <= 4
        /\ IsHost(host')
    BY <1>6, InTokenEffect DEF Progress
  <2> QED
    BY <1>2, <2>1 DEF Types, RestOK
<1>7. CASE OutToken
  <2>1. /\ IsHost(host') /\ Len(sie.ustat) < 4
        /\ \/ UNCHANGED <<bdOut, bdIn, ram>> /\ SameSie /\ IsSie(sie')
           \/ \E packet : packet.len \in Nat /\ SieOut("OUT", packet)
    BY <1>7, OutTokenEffect DEF Progress
  <2> QED
    BY <1>3, <1>4, <2>1 DEF SameSie, SameQueue
<1>8. CASE GiveUp
  <2>1. UNCHANGED <<bdOut, bdIn, sie, ram>> /\ IsHost(host') /\ IsSie(sie')
    BY <1>8, GiveUpEffect DEF Types, IsSie
  <2> QED
    BY <1>3, <2>1
<1>9. CASE BusReset(Unanswered)
  BY <1>3, <1>9, BusResetEffect DEF SameQueue
<1>10. CASE EndReset
  <2>1. UNCHANGED <<bdOut, bdIn, sie, ram>> /\ IsHost(host') /\ IsSie(sie')
    BY <1>10, EndResetEffect DEF Types, IsSie
  <2> QED
    BY <1>3, <2>1
<1>11. CASE Sleep
  BY <1>3, <1>11, SleepEffect DEF SameQueue
<1>12. CASE Resume
  BY <1>3, <1>12, ResumeEffect DEF SameQueue
<1> QED
  BY <1>5, <1>6, <1>7, <1>8, <1>9, <1>10, <1>11, <1>12 DEF HostStep, Token

-----------------------------------------------------------------------------
(* The host. *)

LEMMA WaysFirmware ==
  ASSUME Types, Owners, HostWays, SetupKnown, PendingRam, Firmware
  PROVE  HostWays'
<1>1. host' = host
  BY DEF Firmware, USBDeviceAttach, TasksEnter, TasksBus, TasksSof, TasksNoSof, TasksStall, CtrlTrfSetup,
         StdSetCfg, CtrlEPServiceComplete, CtrlTrfRx, CtrlTrfOut, CtrlTrfIn, TasksLeave, HandOver, busVars
<1>2. sie'.urstif => sie.urstif
  <2>1. CASE TasksBus
    <3>1. /\ pc' = "sof" /\ UNCHANGED <<ram, host, faults, loop, handover>>
          /\ Reset \/ USBSuspend \/ UNCHANGED sie
      BY <2>1, BusWays
    <3> QED
      BY <3>1, ResetEffect, SuspendEffect
  <2>2. CASE USBDeviceAttach \/ TasksEnter
    BY <2>2, AttachEffect, EnterEffect
  <2>3. CASE TasksSof \/ TasksNoSof \/ TasksLeave \/ HandOver \/ CtrlEPServiceComplete
    <3>1. sie' = sie
      BY <2>3 DEF TasksSof, TasksNoSof, TasksLeave, HandOver, CtrlEPServiceComplete, busVars
    <3> QED
      BY <3>1
  <2>4. CASE TasksStall
    BY <2>4, StallEffect DEF Owners, SameSie
  <2>5. CASE CtrlTrfSetup \/ StdSetCfg
    BY <2>5, SetupEffect, StdSetCfgEffect DEF SameSignals
  <2>6. CASE CtrlTrfRx \/ CtrlTrfOut
    BY <2>6, RxEffect, OutEffect DEF Received1, SameSignals
  <2>7. CASE CtrlTrfIn
    BY <2>7, InEffect DEF PendingRam, SameSignals
  <2> QED
    BY <2>1, <2>2, <2>3, <2>4, <2>5, <2>6, <2>7 DEF Firmware
<1> QED
  BY <1>1, <1>2 DEF HostWays

LEMMA WaysHost ==
  ASSUME Types, HostWays, HostStep, UNCHANGED fwVars
  PROVE  HostWays'
<1>1. CASE SetupToken
  <2>1. /\ Listening /\ NewTransfer /\ SameHost /\ host'.req \in Requests
        /\ SieOut("SETUP", Packet(host'.req, 0, 8)) /\ Len(sie.ustat) < 4
        /\ host'.stage \in {"setup", "data", "status"} /\ host'.tog = 1
        /\ host'.stage = "data" => HasData(host'.req)
    BY <1>1, SetupTokenEffect
  <2>2. ~sie'.urstif
    <3>1. Packet(host'.req, 0, 8).len \in Nat
      BY DEF Packet
    <3> QED
      BY <2>1, <3>1, SieOutEffect DEF Listening, SameSignals
  <2>3. /\ host'.req.name = "SET_ADDRESS" => host.addr = 0
        /\ host'.req.name # "SET_ADDRESS" /\ host.addr = 0
           => host'.req.of = "DEVICE" /\ host'.req.arg = 0
    BY <2>1 DEF NewTransfer, MayAsk, HostWays
  <2>4. host'.req.name = "SET_ADDRESS" => ~HasData(host'.req)
    BY <2>1, RequestTypes DEF HasData
  <2> QED
    BY <2>1, <2>2, <2>3, <2>4 DEF HostWays, SameHost
<1>2. CASE InToken \/ OutToken
  <2>1. Progress /\ Listening
    BY <1>2, InTokenEffect, OutTokenEffect
  <2>2. ~sie'.urstif
    <3>1. CASE InToken
      BY <2>1, <3>1, InTokenEffect DEF Listening, SameSie, SameSignals
    <3>2. CASE OutToken
      <4>1. \/ SameSie
            \/ \E packet : packet.len \in Nat /\ SieOut("OUT", packet)
        BY <3>2, OutTokenEffect
      <4> QED
        BY <2>1, <4>1, SieOutEffect DEF Listening, SameSie, SameSignals
    <3> QED
      BY <1>2, <3>1, <3>2
  <2> QED
    BY <2>1, <2>2 DEF HostWays, Progress
<1>3. CASE GiveUp
  BY <1>3, GiveUpEffect DEF HostWays
<1>4. CASE BusReset(Unanswered)
  BY <1>4, BusResetEffect DEF HostWays
<1>5. CASE EndReset
  BY <1>5, EndResetEffect DEF HostWays
<1>6. CASE Sleep
  BY <1>6, SleepEffect DEF HostWays
<1>7. CASE Resume
  BY <1>7, ResumeEffect DEF HostWays
<1> QED
  BY <1>1, <1>2, <1>3, <1>4, <1>5, <1>6, <1>7 DEF HostStep, Token

-----------------------------------------------------------------------------
(* SETUP packets and the address. *)

\* Every SETUP packet in the FIFO was there, and says what it said.
SetupsKept ==
  \A k \in DOMAIN sie'.ustat :
    IsSetup(k)' => \E j \in DOMAIN sie.ustat : IsSetup(j) /\ Waiting(k)' = Waiting(j)
InSetupPkt ==
  /\ \A b \in OutBDs : bdOut[b].own \/ bdOut[b].pid = "SETUP" => bdOut[b].adr = "SetupPkt"
  /\ \A k \in DOMAIN handover : handover[k].dir = "out" => handover[k].bd.adr = "SetupPkt"
\* The answer to a SET_ADDRESS, armed or about to be.
StatusArmed ==
  /\ ~Tx
  /\ \A b \in InBDs : bdIn[b].own => ~bdIn[b].stall /\ bdIn[b].dts = 1
  /\ \A k \in DOMAIN handover :
       handover[k].dir = "in" => ~handover[k].bd.stall /\ handover[k].bd.dts = 1
  /\ pc = "arm" => fw.inBusy

LEMMA SetupsTail ==
  ASSUME Types, sie.ustat # <<>>, sie'.ustat = Tail(sie.ustat),
         \A c \in OutBDs : QueuedOut(c)' /\ bdOut'[c].pid = "SETUP"
           => bdOut'[c] = bdOut[c] /\ ram'[bdOut[c].adr] = ram[bdOut[c].adr]
  PROVE  SetupsKept
<1> DEFINE q == sie.ustat
           r == sie'.ustat
           n == Len(sie.ustat)
<1>1. /\ q \in Seq(Queue) /\ n \in Nat /\ n > 0 /\ DOMAIN q = 1 .. n /\ r \in Seq(Queue)
      /\ Len(r) = n - 1 /\ DOMAIN r = 1 .. n - 1 /\ \A k \in 1 .. n - 1 : r[k] = q[k + 1]
  BY SeqFacts DEF Types, IsSie
<1> SUFFICES ASSUME NEW k \in DOMAIN r, IsSetup(k)'
             PROVE  \E j \in DOMAIN q : IsSetup(j) /\ Waiting(k)' = Waiting(j)
  BY DEF SetupsKept
<1>2. k + 1 \in DOMAIN q /\ r[k] = q[k + 1] /\ r[k] \in Queue
  BY <1>1
<1>3. r[k].dir = "out" /\ bdOut'[r[k].bd].pid = "SETUP"
  BY DEF IsSetup
<1>4. r[k].bd \in OutBDs
  BY <1>2, <1>3 DEF Queue
<1>5. \A c \in OutBDs : c = r[k].bd
        => bdOut'[c] = bdOut[c] /\ ram'[bdOut[c].adr] = ram[bdOut[c].adr]
  BY <1>3 DEF QueuedOut
<1>6. bdOut'[r[k].bd] = bdOut[r[k].bd] /\ ram'[bdOut[r[k].bd].adr] = ram[bdOut[r[k].bd].adr]
  BY <1>4, <1>5
<1>7. IsSetup(k + 1) /\ Waiting(k)' = Waiting(k + 1)
  <2>1. q[k + 1].dir = "out" /\ bdOut[q[k + 1].bd].pid = "SETUP"
    BY <1>2, <1>3, <1>6
  <2>2. ram'[bdOut'[r[k].bd].adr].of = ram[bdOut[q[k + 1].bd].adr].of
    BY <1>2, <1>6
  <2> QED
    BY <2>1, <2>2 DEF IsSetup, Waiting
<1> QED
  BY <1>2, <1>7

LEMMA SetupsSame ==
  ASSUME Types, sie'.ustat = sie.ustat,
         \A c \in OutBDs : QueuedOut(c) => bdOut'[c] = bdOut[c], UNCHANGED ram
  PROVE  SetupsKept
<1> SUFFICES ASSUME NEW k \in DOMAIN sie.ustat, IsSetup(k)'
             PROVE  IsSetup(k) /\ Waiting(k)' = Waiting(k)
  BY DEF SetupsKept
<1>1. sie.ustat[k] \in Queue /\ sie.ustat[k].dir = "out"
  BY SeqFacts DEF Types, IsSie, IsSetup
<1>2. bdOut'[sie.ustat[k].bd] = bdOut[sie.ustat[k].bd]
  BY <1>1 DEF Queue, QueuedOut
<1> QED
  BY <1>2 DEF IsSetup, Waiting

LEMMA SetupsNone ==
  ASSUME sie'.ustat = <<>> \/ \A k \in DOMAIN sie'.ustat : ~IsSetup(k)'
  PROVE  SetupsKept
BY SeqFacts DEF SetupsKept

LEMMA AddressesKept ==
  ASSUME Types, Addresses, SetupsKept, Tx' => InSetupPkt', Live' => Live,
         host'.req = host.req, host'.addr = host.addr,
         host.stage # "idle" \/ host.result = "gaveup" => host'.stage # "idle" \/ host'.result = "gaveup",
         sie'.addr = sie.addr, sie'.pktdis <=> sie.pktdis, ~sie'.urstif => ~sie.urstif,
         fw'.USBDeviceState = fw.USBDeviceState, app'.cfg = app.cfg, ram'.SetupPkt = ram.SetupPkt,
         Live /\ fw.USBDeviceState = "ADR_PENDING_STATE" => StatusArmed' /\ (QueuedIn' => QueuedIn)
  PROVE  Addresses'
<1>1. SetupPackets'
  BY DEF Addresses, SetupPackets, SetupsKept, InSetupPkt
<1>2. SetupWaits'
  BY DEF Addresses, SetupWaits, SetupsKept, Asked
<1>3. PendingRam'
  BY DEF Addresses, PendingRam, SetupsKept
<1>4. Pending'
  BY DEF Addresses, Pending, StatusArmed
<1>5. Addressed' /\ AddressAgrees'
  BY DEF Addresses, Addressed, AddressAgrees
<1> QED
  BY <1>1, <1>2, <1>3, <1>4, <1>5 DEF Addresses

\* What Addresses says of the step's first state, in the words of the lemmas.
LEMMA AddressesNow ==
  ASSUME Addresses
  PROVE  /\ SetupKnown /\ PendingRam
         /\ Tx => InSetupPkt
         /\ Live /\ fw.USBDeviceState = "ADR_PENDING_STATE" => StatusArmed
BY DEF Addresses, SetupPackets, SetupKnown, InSetupPkt, StatusArmed, Pending

LEMMA AddressesQuiet ==
  ASSUME Types, Addresses, UNCHANGED <<bdOut, bdIn, ram>>, handover' = handover \/ handover' = <<>>,
         sie'.ustat = sie.ustat, SameTransfer(fw, fw'), Live' => Live,
         host'.req = host.req, host'.addr = host.addr,
         host.stage # "idle" \/ host.result = "gaveup" => host'.stage # "idle" \/ host'.result = "gaveup",
         sie'.addr = sie.addr, sie'.pktdis <=> sie.pktdis, ~sie'.urstif => ~sie.urstif,
         fw'.USBDeviceState = fw.USBDeviceState, app'.cfg = app.cfg,
         pc' = "arm" => pc = "arm" /\ (fw'.inBusy <=> fw.inBusy)
  PROVE  Addresses'
<1>1. SetupsKept
  BY SetupsSame
<1>2. (Tx' <=> Tx) /\ (QueuedIn' => QueuedIn)
  BY DEF Tx, SameTransfer, QueuedIn
<1>3. \A k \in DOMAIN handover' : k \in DOMAIN handover /\ handover'[k] = handover[k]
  BY HandNone
<1>4. InSetupPkt => InSetupPkt'
  BY <1>3 DEF InSetupPkt
<1>5. StatusArmed => StatusArmed'
  BY <1>2, <1>3 DEF StatusArmed
<1> QED
  BY <1>1, <1>2, <1>4, <1>5, AddressesNow, AddressesKept

LEMMA EmptyAddresses ==
  ASSUME sie'.ustat = <<>>, sie'.addr = 0, app'.cfg = 0, fw'.USBDeviceState # "ADR_PENDING_STATE",
         fw'.USBDeviceState # "CONFIGURED_STATE", Tx' => InSetupPkt'
  PROVE  Addresses'
<1>1. DOMAIN sie'.ustat = {}
  BY SeqFacts
<1> QED
  BY <1>1 DEF Addresses, SetupPackets, SetupWaits, PendingRam, Pending, Addressed, AddressAgrees, InSetupPkt

LEMMA InitialInSetupPkt ==
  ASSUME Initialised, handover' = <<>>
  PROVE  InSetupPkt'
<1>1. DOMAIN handover' = {}
  BY HandNone
<1>2. /\ bdOut'[0].adr = "SetupPkt" /\ ~bdOut'[1].own /\ \A b \in OutBDs : bdOut'[b].pid = "none"
  BY InitialisedEffect
<1> QED
  BY <1>1, <1>2, Constants DEF InSetupPkt

LEMMA AttachAddresses ==
  ASSUME Types, Owners, Addresses, USBDeviceAttach
  PROVE  Addresses'
<1>1. handover' = handover /\ pc = "attach" /\ app' = app
  BY DEF USBDeviceAttach
<1>2. handover = <<>> /\ app.cfg = 0
  BY <1>1 DEF Owners, Sections
<1> QED
  BY <1>1, <1>2, AttachEffect, InitialInSetupPkt, EmptyAddresses

LEMMA EnterAddresses ==
  ASSUME Types, Owners, Addresses, TasksEnter
  PROVE  Addresses'
<1>1. /\ pc = "main" /\ UNCHANGED <<bdOut, bdIn, ram, host, faults, app, loop, handover>>
  BY DEF TasksEnter
<1>2. /\ SameTransfer(fw, fw') /\ sie'.addr = sie.addr
      /\ (sie'.pktdis <=> sie.pktdis) /\ pc' \in {"main", "bus"}
  BY EnterEffect
<1>3. CASE ~(fw.USBDeviceState = "ATTACHED_STATE" /\ ~host.se0)
  <2>1. /\ fw'.USBDeviceState = fw.USBDeviceState /\ (sie'.urstif <=> sie.urstif) /\ sie'.ustat = sie.ustat
    BY <1>3, EnterEffect
  <2>2. Live' => Live
    BY <2>1 DEF Live
  <2> QED
    BY <1>1, <1>2, <2>1, <2>2, AddressesQuiet
<1>4. CASE fw.USBDeviceState = "ATTACHED_STATE" /\ ~host.se0
  <2>1. /\ fw'.USBDeviceState = "POWERED_STATE"
        /\ sie'.ustat = IF sie.ustat = <<>> THEN sie.ustat ELSE Tail(sie.ustat)
    BY <1>4, EnterEffect
  <2>2. /\ ~Live' /\ sie'.addr = 0
    BY <1>2, <1>4, <2>1 DEF Below, Live, Owners, Sections
  <2>3. SetupsKept
    <3>1. CASE sie.ustat = <<>>
      BY <1>1, <2>1, <3>1, SetupsSame
    <3>2. CASE sie.ustat # <<>>
      BY <1>1, <2>1, <3>2, SetupsTail
    <3> QED
      BY <3>1, <3>2
  <2>4. SetupPackets'
    <3>1. Tx' => Tx
      BY <1>2 DEF Tx, SameTransfer
    <3> QED
      BY <1>1, <2>3, <3>1 DEF Addresses, SetupPackets, SetupsKept
  <2> QED
    BY <2>1, <2>2, <2>4 DEF Addresses, SetupWaits, PendingRam, Pending, Addressed, AddressAgrees
<1> QED
  BY <1>3, <1>4

LEMMA BusAddresses ==
  ASSUME Types, Owners, Addresses, TasksBus
  PROVE  Addresses'
<1>1. /\ pc = "bus" /\ pc' = "sof" /\ UNCHANGED <<ram, host, faults, loop, handover>>
      /\ \/ sie.urstif /\ Reset
         \/ ~sie.urstif /\ sie.idleif /\ USBSuspend
         \/ ~sie.urstif /\ ~sie.idleif /\ UNCHANGED <<bdOut, bdIn, sie, fw, app>>
  BY BusWays
<1>2. handover' = <<>>
  BY <1>1 DEF Owners, Sections
<1>3. CASE Reset
  BY <1>1, <1>2, <1>3, ResetEffect, InitialInSetupPkt, EmptyAddresses
<1>4. CASE USBSuspend
  <2>1. /\ UNCHANGED <<bdOut, bdIn, app>> /\ SameTransfer(fw, fw')
        /\ fw'.USBDeviceState = fw.USBDeviceState
        /\ sie'.ustat = sie.ustat /\ sie'.addr = sie.addr /\ (sie'.pktdis <=> sie.pktdis)
        /\ (sie'.urstif <=> sie.urstif)
    BY <1>1, <1>4, SuspendEffect DEF SameQueue
  <2>2. Live' => Live
    BY <2>1 DEF Live
  <2> QED
    BY <1>1, <2>1, <2>2, AddressesQuiet
<1>5. CASE UNCHANGED <<bdOut, bdIn, sie, fw, app>>
  <2>1. SameTransfer(fw, fw') /\ (Live' => Live)
    BY <1>5 DEF SameTransfer, Live
  <2> QED
    BY <1>1, <1>5, <2>1, AddressesQuiet
<1> QED
  BY <1>1, <1>3, <1>4, <1>5

LEMMA StallAddresses ==
  ASSUME Types, Owners, Addresses, TasksStall \/ TasksNoSof \/ TasksLeave
  PROVE  Addresses'
<1>1. /\ UNCHANGED <<bdOut, bdIn, ram, host, faults, fw, app>> /\ SameSie
      /\ handover' = handover \/ handover' = <<>>
      /\ pc' # "arm"
  <2>1. CASE TasksStall
    BY <2>1, StallEffect DEF Owners
  <2>2. CASE TasksNoSof \/ TasksLeave
    BY <2>2 DEF TasksNoSof, TasksLeave, busVars, SameSie, SameQueue
  <2> QED
    BY <2>1, <2>2
<1>2. SameTransfer(fw, fw') /\ (Live' => Live)
  BY <1>1 DEF SameTransfer, Live, SameSie
<1>3. sie'.ustat = sie.ustat /\ sie'.addr = sie.addr /\ (sie'.pktdis <=> sie.pktdis)
      /\ (sie'.urstif <=> sie.urstif)
  BY <1>1 DEF SameSie, SameQueue
<1> QED
  BY <1>1, <1>2, <1>3, AddressesQuiet

LEMMA SofAddresses ==
  ASSUME Types, Owners, Addresses, TasksSof
  PROVE  Addresses'
<1>1. Tx => fw.flag2
  BY DEF Owners, InOwner
<1>2. pc = "sof" /\ pc' = "stall" /\ UNCHANGED <<busVars, app, loop>>
  BY DEF TasksSof
<1>3. UNCHANGED <<bdOut, bdIn, ram, host, sie, app>>
  BY <1>2 DEF busVars
<1>4. /\ SameTransfer(fw, fw') /\ fw'.USBDeviceState = fw.USBDeviceState
      /\ \/ handover' = handover
         \/ handover' = <<>>
         \/ Rx /\ handover' = <<Ent("in", fw.pBDTEntryIn, DataBD(1, 0))>>
  <2>1. Give("in", fw.pBDTEntryIn, DataBD(1, 0)) = <<Ent("in", fw.pBDTEntryIn, DataBD(1, 0))>>
    BY Concats
  <2> QED
    BY <1>1, <2>1, SofEffect DEF SameDevice
<1>5. (Live' => Live) /\ (Tx' <=> Tx) /\ (QueuedIn' => QueuedIn)
  BY <1>3, <1>4 DEF Live, Tx, SameTransfer, QueuedIn
<1>6. CASE handover' = handover \/ handover' = <<>>
  BY <1>2, <1>3, <1>4, <1>5, <1>6, AddressesQuiet
<1>7. CASE Rx /\ handover' = <<Ent("in", fw.pBDTEntryIn, DataBD(1, 0))>>
  <2>1. SetupsKept
    BY <1>3, SetupsSame
  <2>2. ~Tx'
    BY <1>5, <1>7 DEF Tx, Rx
  <2>3. Live /\ fw.USBDeviceState = "ADR_PENDING_STATE" => StatusArmed'
    <3> DEFINE e == Ent("in", fw.pBDTEntryIn, DataBD(1, 0))
    <3>1. ~e.bd.stall /\ e.bd.dts = 1 /\ handover' = <<e>>
      BY <1>7 DEF Ent, DataBD, BD
    <3> HIDE DEF e
    <3>2. \A k \in DOMAIN handover' : ~handover'[k].bd.stall /\ handover'[k].bd.dts = 1
      BY <3>1
    <3> QED
      BY <1>2, <1>3, <2>2, <3>2, AddressesNow DEF StatusArmed
  <2> QED
    BY <1>3, <1>4, <1>5, <2>1, <2>2, <2>3, AddressesKept
<1> QED
  BY <1>4, <1>6, <1>7

LEMMA HandOverAddresses ==
  ASSUME Types, Owners, Addresses, HandOver
  PROVE  Addresses'
<1>1. /\ UNCHANGED <<sie, ram, host, faults, fw, app, pc, loop>>
      /\ handover # <<>> /\ handover' = Tail(handover)
      /\ \/ /\ handover[1].dir = "out" /\ bdIn' = bdIn /\ bdOut'[handover[1].b] = handover[1].bd
            /\ handover[1].b \in OutBDs
            /\ \A b \in OutBDs : b # handover[1].b => bdOut'[b] = bdOut[b]
         \/ /\ handover[1].dir = "in" /\ bdOut' = bdOut /\ bdIn'[handover[1].b] = handover[1].bd
            /\ handover[1].b \in InBDs
            /\ \A b \in InBDs : b # handover[1].b => bdIn'[b] = bdIn[b]
  BY HandOverEffect
<1>2. PICK w \in Entry : w = handover[1]
  BY <1>1, HandTail DEF Owners
<1>3. /\ w.dir = "out" => HandingOut(w.b) /\ w.b \in OutBDs
      /\ 1 \in DOMAIN handover
      /\ \A k \in DOMAIN handover' : \E j \in DOMAIN handover : handover'[k] = handover[j]
  BY <1>1, <1>2, HandTail DEF Owners, Entry
<1>4. /\ pc' = pc /\ pc \in {"stall", "trn"} /\ fw' = fw /\ sie' = sie /\ host' = host /\ app' = app
      /\ ram' = ram
  BY <1>1 DEF Owners, Sections
<1>5. SetupsKept
  <2>1. \A c \in OutBDs : QueuedOut(c) => bdOut'[c] = bdOut[c]
    BY <1>1, <1>2, <1>3 DEF Owners, OutOwner
  <2> QED
    BY <1>4, <2>1, SetupsSame
<1>6. (Tx' <=> Tx) /\ (Live' => Live) /\ (QueuedIn' => QueuedIn)
  BY <1>4 DEF Tx, Live, QueuedIn
<1>7. InSetupPkt => InSetupPkt'
  BY <1>1, <1>2, <1>3 DEF InSetupPkt
<1>8. StatusArmed => StatusArmed'
  BY <1>1, <1>2, <1>3, <1>4, <1>6 DEF StatusArmed
<1> QED
  BY <1>4, <1>5, <1>6, <1>7, <1>8, AddressesNow, AddressesKept

LEMMA ArmAddresses ==
  ASSUME Types, Owners, Addresses, CtrlEPServiceComplete
  PROVE  Addresses'
<1>1. /\ pc = "arm" /\ pc' = "trn" /\ UNCHANGED <<bdOut, bdIn, sie, host, faults, app, loop>>
      /\ ArmWrite \/ ArmStall \/ ArmRead \/ ArmStatus
  BY DEF CtrlEPServiceComplete
<1>2. /\ ~Tx /\ ~Rx /\ DOMAIN sie.ustat = {} /\ ram.SetupPkt.of \in Requests /\ sie.ustat = <<>>
      /\ \A c \in OutBDs : ~bdOut[c].own /\ bdOut[c].pid # "SETUP"
      /\ \A c \in InBDs : ~bdIn[c].own
      /\ fw.Next \in OutBDs /\ fw.Current \in OutBDs
  BY <1>1, ArmingFacts
<1>3. SetupsKept
  BY <1>1, <1>2, SetupsNone
<1>4. /\ SameDevice(fw, fw') /\ ram'.SetupPkt = ram.SetupPkt
  BY <1>1, <1>2, ArmWriteEffect, ArmStallEffect, ArmReadEffect, ArmStatusEffect DEF SameFw
<1>5. fw'.USBDeviceState = fw.USBDeviceState /\ (Live' => Live) /\ (QueuedIn' => QueuedIn)
  BY <1>1, <1>4 DEF SameDevice, Live, QueuedIn
<1>6. Tx' => InSetupPkt'
  <2>1. CASE ArmRead
    <3>1. PICK n \in Nat : ArmedRead(n)
      BY <1>2, <2>1, ArmReadEffect
    <3> DEFINE e == Ent("in", fw.pBDTEntryIn, DataBD(1, n))
               f == Ent("out", fw.Current, StallBD)
               g == Ent("out", fw.Next, OpenBD)
    <3>2. /\ handover' = <<e, f, g>> /\ e.dir = "in" /\ f.bd.adr = "SetupPkt" /\ g.bd.adr = "SetupPkt"
      BY <3>1 DEF ArmedRead, Ent, StallBD, OpenBD, BD
    <3> HIDE DEF e, f, g
    <3>3. \A k \in DOMAIN handover' : handover'[k].dir = "out" => handover'[k].bd.adr = "SetupPkt"
      <4>1. DOMAIN handover' = {1, 2, 3} /\ handover'[1] = e /\ handover'[2] = f /\ handover'[3] = g
        BY <3>2
      <4> QED
        BY <3>2, <4>1
    <3>4. \A b \in OutBDs : bdOut'[b].pid # "SETUP"
      BY <1>1, <1>2
    <3> QED
      BY <1>1, <1>2, <3>3, <3>4 DEF InSetupPkt
  <2>2. CASE ArmWrite \/ ArmStall \/ ArmStatus
    BY <1>1, <1>2, <2>2, ArmWriteEffect, ArmStallEffect, ArmStatusEffect DEF Tx
  <2> QED
    BY <1>1, <2>1, <2>2
<1>7. Live /\ fw.USBDeviceState = "ADR_PENDING_STATE" => StatusArmed'
  <2> SUFFICES ASSUME Live, fw.USBDeviceState = "ADR_PENDING_STATE"
               PROVE  StatusArmed'
    OBVIOUS
  <2>1. fw.inBusy /\ ram.SetupPkt.of.name = "SET_ADDRESS"
    BY <1>1 DEF Addresses, Pending, PendingRam, IsSetAddress
  <2>2. ~IsRead(ram.SetupPkt.of)
    BY <2>1 DEF IsRead, Reads
  <2>3. ArmStatus
    BY <1>1, <1>2, <2>1, <2>2, ArmWriteEffect, ArmStallEffect, ArmReadEffect
  <2>4. ~Tx' /\ ArmedStatus
    BY <2>3, ArmStatusEffect DEF Tx
  <2> DEFINE e == Ent("out", fw.Next, StallBD)
             f == Ent("in", fw.pBDTEntryIn, DataBD(1, 0))
  <2>5. handover' = <<e, f>> /\ e.dir = "out" /\ ~f.bd.stall /\ f.bd.dts = 1
    BY <2>4 DEF ArmedStatus, Ent, DataBD, BD
  <2> HIDE DEF e, f
  <2>6. DOMAIN handover' = {1, 2} /\ handover'[1] = e /\ handover'[2] = f
    BY <2>5
  <2> QED
    BY <1>1, <1>2, <2>4, <2>5, <2>6 DEF StatusArmed
<1> QED
  BY <1>1, <1>3, <1>4, <1>5, <1>6, <1>7, AddressesKept

LEMMA Received1Addresses ==
  ASSUME Types, Owners, Addresses, CtrlTrfRx \/ CtrlTrfOut
  PROVE  Addresses'
<1> DEFINE b == sie.ustat[1].bd
<1>1. Received1(b) /\ ~Tx'
  <2>1. CASE CtrlTrfRx
    BY <2>1, RxEffect DEF Tx
  <2>2. CASE CtrlTrfOut
    BY <2>2, OutEffect DEF Tx
  <2> QED
    BY <2>1, <2>2
<1>2. \/ handover' = <<>>
      \/ \E x : handover' = <<Ent("out", OtherOut(b), x)>>
      \/ \E x : handover' = <<Ent("out", OtherOut(b), x), Ent("in", fw.pBDTEntryIn, DataBD(1, 0))>>
  <2>1. CASE CtrlTrfRx
    BY <2>1, RxEffect
  <2>2. CASE CtrlTrfOut
    BY <2>2, OutEffect
  <2> QED
    BY <2>1, <2>2
<1> HIDE DEF b
<1>3. \A k \in DOMAIN handover' : handover'[k].dir = "in" => ~handover'[k].bd.stall /\ handover'[k].bd.dts = 1
  <2> DEFINE o(x) == Ent("out", OtherOut(b), x)
             i == Ent("in", fw.pBDTEntryIn, DataBD(1, 0))
  <2>1. (\A x : o(x).dir = "out") /\ ~i.bd.stall /\ i.bd.dts = 1
    BY DEF Ent, DataBD, BD
  <2>2. \/ handover' = <<>>
        \/ \E x : handover' = <<o(x)>>
        \/ \E x : handover' = <<o(x), i>>
    BY <1>2
  <2> HIDE DEF o, i
  <2>3. CASE handover' = <<>>
    BY <2>3, HandNone
  <2>4. CASE \E x : handover' = <<o(x)>>
    <3>1. PICK x : handover' = <<o(x)>>
      BY <2>4
    <3>2. DOMAIN handover' = {1} /\ handover'[1] = o(x)
      BY <3>1
    <3> QED
      BY <2>1, <3>2
  <2>5. CASE \E x : handover' = <<o(x), i>>
    <3>1. PICK x : handover' = <<o(x), i>>
      BY <2>5
    <3>2. DOMAIN handover' = {1, 2} /\ handover'[1] = o(x) /\ handover'[2] = i
      BY <3>1
    <3> QED
      BY <2>1, <3>2
  <2> QED
    BY <2>2, <2>3, <2>4, <2>5
<1>4. /\ b \in OutBDs /\ \A c \in OutBDs : QueuedOut(c)' <=> QueuedOut(c) /\ c # b
      /\ (QueuedIn' <=> QueuedIn) /\ (Live' <=> Live)
  BY <1>1, Received1Queue
<1>5. /\ sie.ustat # <<>> /\ sie'.ustat = Tail(sie.ustat) /\ bdIn' = bdIn /\ ram' = ram /\ host' = host
      /\ \A c \in OutBDs : c # b => bdOut'[c] = bdOut[c]
      /\ sie'.addr = sie.addr /\ (sie'.pktdis <=> sie.pktdis) /\ (sie'.urstif <=> sie.urstif)
      /\ fw'.USBDeviceState = fw.USBDeviceState /\ app'.cfg = app.cfg /\ pc' = "trn"
  BY <1>1 DEF Received1, SameSignals, SameDevice
<1>6. SetupsKept
  BY <1>4, <1>5, SetupsTail
<1>7. Live /\ fw.USBDeviceState = "ADR_PENDING_STATE" => StatusArmed'
  BY <1>1, <1>3, <1>5, AddressesNow DEF StatusArmed
<1> QED
  BY <1>1, <1>4, <1>5, <1>6, <1>7, AddressesKept

\* What the conjuncts of Addresses come to when no address is pending after
\* the step.
LEMMA NotPending ==
  ASSUME fw'.USBDeviceState # "ADR_PENDING_STATE"
  PROVE  PendingRam' /\ Pending'
BY DEF PendingRam, Pending

LEMMA InAddresses ==
  ASSUME Types, Owners, Addresses, CtrlTrfIn
  PROVE  Addresses'
<1>1. /\ pc = "trn" /\ pc' = "trn" /\ sie.ustat # <<>> /\ sie.ustat[1].dir = "in" /\ 1 \in DOMAIN sie.ustat
      /\ bdOut' = bdOut /\ host' = host /\ app'.cfg = app.cfg /\ ram'.SetupPkt = ram.SetupPkt
      /\ sie'.ustat = Tail(sie.ustat) /\ (sie'.pktdis <=> sie.pktdis) /\ SameSignals(sie, sie')
      /\ sie'.addr = IF fw.USBDeviceState = "ADR_PENDING_STATE" THEN ram.SetupPkt.of.arg ELSE sie.addr
      /\ fw'.USBDeviceState = IF fw.USBDeviceState = "ADR_PENDING_STATE" THEN "ADDRESS_STATE"
                                                                        ELSE fw.USBDeviceState
      /\ \/ /\ Tx /\ \E x \in BDType : handover' = <<Ent("in", fw'.pBDTEntryIn, x)>>
         \/ ~Tx /\ ~Tx' /\ UNCHANGED ram
  BY InEffect DEF Addresses, PendingRam, Tx
<1>2. (sie'.urstif <=> sie.urstif) /\ (Live' <=> Live) /\ ~Below(fw.USBDeviceState) /\ QueuedIn
  BY <1>1 DEF SameSignals, Live, Below, Owners, Sections, QueuedIn
<1>3. SetupsKept
  <2>1. \A c \in OutBDs : bdOut[c].pid = "SETUP" => ram'[bdOut[c].adr] = ram[bdOut[c].adr]
    BY <1>1, AddressesNow DEF InSetupPkt
  <2> QED
    BY <1>1, <2>1, SetupsTail
<1>4. Tx' => InSetupPkt'
  <2> SUFFICES ASSUME Tx'
               PROVE  InSetupPkt'
    OBVIOUS
  <2>1. Tx /\ \E x \in BDType : handover' = <<Ent("in", fw'.pBDTEntryIn, x)>>
    BY <1>1
  <2>2. PICK x \in BDType : handover' = <<Ent("in", fw'.pBDTEntryIn, x)>>
    BY <2>1
  <2>3. DOMAIN handover' = {1} /\ handover'[1].dir = "in"
    BY <2>2 DEF Ent
  <2>4. \A k \in DOMAIN handover' : handover'[k].dir # "out"
    BY <2>3
  <2> QED
    BY <1>1, <2>1, <2>4, AddressesNow DEF InSetupPkt
<1>5. CASE fw.USBDeviceState # "ADR_PENDING_STATE"
  BY <1>1, <1>2, <1>3, <1>4, <1>5, AddressesKept
<1>6. CASE fw.USBDeviceState = "ADR_PENDING_STATE"
  <2>1. ram.SetupPkt.of.arg # 0 /\ sie'.addr = ram.SetupPkt.of.arg /\ fw'.USBDeviceState = "ADDRESS_STATE"
    <3>1. ram.SetupPkt.of \in Requests /\ ram.SetupPkt.of.name = "SET_ADDRESS"
      BY <1>6 DEF Addresses, PendingRam, IsSetAddress
    <3>2. ram.SetupPkt.of.arg # 0
      BY <3>1, RequestTypes
    <3> QED
      BY <1>1, <1>6, <3>2
  <2>2. Live => host.addr = ram.SetupPkt.of.arg /\ sie.addr = 0
    BY <1>2, <1>6 DEF Addresses, Pending
  <2>3. SetupPackets'
    BY <1>3, <1>4 DEF Addresses, SetupPackets, SetupsKept, InSetupPkt
  <2>4. SetupWaits'
    BY <1>2, <1>3, <2>1, <2>2 DEF Addresses, SetupWaits, SetupsKept, Asked
  <2>5. Addressed' /\ AddressAgrees'
    BY <1>1, <1>2, <2>1, <2>2 DEF Addressed, AddressAgrees, Live
  <2>6. PendingRam' /\ Pending'
    BY <2>1, NotPending
  <2> QED
    BY <2>3, <2>4, <2>5, <2>6 DEF Addresses
<1> QED
  BY <1>5, <1>6

LEMMA SetupAddresses ==
  ASSUME Types, Owners, Addresses, CtrlTrfSetup \/ StdSetCfg
  PROVE  Addresses'
<1> DEFINE r == Waiting(1)
<1>0. SetupKnown
  BY AddressesNow
<1>1. /\ pc = "trn" /\ pc' = "arm" /\ sie.ustat # <<>> /\ IsSetup(1) /\ r \in Requests /\ handover' = <<>>
      /\ host' = host /\ ram'.SetupPkt.of = r /\ sie'.ustat = Tail(sie.ustat) /\ sie'.addr = sie.addr
      /\ ~sie'.pktdis /\ SameSignals(sie, sie') /\ ~Tx' /\ \A c \in InBDs : ~bdIn'[c].own
  <2>1. CASE CtrlTrfSetup
    BY <1>0, <2>1, SetupEffect DEF Tx
  <2>2. CASE StdSetCfg
    BY <1>0, <2>2, StdSetCfgEffect DEF Tx
  <2> QED
    BY <2>1, <2>2
<1>2. DOMAIN sie.ustat = {1} /\ sie'.ustat = <<>>
  BY <1>1, SetupAlone
<1>3. DOMAIN sie'.ustat = {} /\ DOMAIN handover' = {}
  BY <1>1, <1>2, SeqFacts, HandNone
<1>4. (sie'.urstif <=> sie.urstif) /\ ~Below(fw.USBDeviceState) /\ (Live' => Live)
  BY <1>1 DEF SameSignals, Live, Owners, Sections
<1>5. Live => r = host.req /\ Asked
  BY <1>1, <1>2 DEF Addresses, SetupWaits
<1>6. SetupPackets' /\ SetupWaits' /\ ~QueuedIn'
  BY <1>1, <1>3 DEF SetupPackets, SetupWaits, QueuedIn
<1>7. AddressAgrees'
  BY <1>1, <1>4 DEF Addresses, AddressAgrees
<1> HIDE DEF r
<1>8. CASE CtrlTrfSetup /\ r.name = "SET_ADDRESS"
  <2>1. fw'.USBDeviceState = "ADR_PENDING_STATE" /\ fw'.inBusy /\ app'.cfg = app.cfg
    BY <1>0, <1>8, SetupEffect DEF r
  <2>2. PendingRam'
    BY <1>1, <1>3, <1>8 DEF PendingRam, IsSetAddress
  <2>3. Live => host.addr = 0 /\ sie.addr = 0
    BY <1>5, <1>8 DEF Asked
  <2>4. Pending'
    BY <1>1, <1>3, <1>4, <1>5, <1>6, <1>8, <2>1, <2>3 DEF Pending, Asked
  <2>5. Addressed'
    BY <1>1, <1>4, <2>1 DEF Addresses, Addressed
  <2> QED
    BY <1>6, <1>7, <2>2, <2>4, <2>5 DEF Addresses
<1>9. CASE CtrlTrfSetup /\ r.name # "SET_ADDRESS"
  <2>1. fw'.USBDeviceState = fw.USBDeviceState /\ app'.cfg = app.cfg
    BY <1>0, <1>9, SetupEffect DEF r
  <2>2. fw'.USBDeviceState # "ADR_PENDING_STATE"
    BY <1>1, <1>2, <1>9, <2>1 DEF Addresses, PendingRam, IsSetAddress, r
  <2>3. Addressed'
    BY <1>1, <1>4, <2>1 DEF Addresses, Addressed
  <2> QED
    BY <1>6, <1>7, <2>2, <2>3, NotPending DEF Addresses
<1>10. CASE StdSetCfg
  <2>1. /\ fw'.USBDeviceState = IF r.arg = 0 THEN "ADDRESS_STATE" ELSE "CONFIGURED_STATE"
        /\ app'.cfg = r.arg /\ r.name = "SET_CONFIGURATION"
    BY <1>0, <1>10, StdSetCfgEffect DEF r
  <2>2. Live => (sie.addr = 0 => r.arg = 0)
    BY <1>5, <2>1 DEF Asked
  <2>3. Addressed'
    BY <1>1, <1>4, <2>1, <2>2 DEF Addressed
  <2> QED
    BY <1>6, <1>7, <2>1, <2>3, NotPending DEF Addresses
<1> QED
  BY <1>8, <1>9, <1>10

LEMMA AddressesFirmware ==
  ASSUME Types, Owners, Addresses, Firmware
  PROVE  Addresses'
BY AttachAddresses, EnterAddresses, BusAddresses, SofAddresses, StallAddresses, SetupAddresses,
   ArmAddresses, Received1Addresses, InAddresses, HandOverAddresses DEF Firmware

\* What the SIE does to an OUT descriptor leaves its buffer as it was.
LEMMA SieOutInSetupPkt ==
  ASSUME Types, NEW pid \in {"SETUP", "OUT"}, NEW packet, packet.len \in Nat, Len(sie.ustat) < 4,
         SieOut(pid, packet), bdOut[sie.out].own, UNCHANGED fwVars, Tx => InSetupPkt
  PROVE  Tx' => InSetupPkt'
<1>1. /\ sie.out \in OutBDs /\ bdOut'[sie.out].adr = bdOut[sie.out].adr
      /\ \A c \in OutBDs : c # sie.out => bdOut'[c] = bdOut[c]
  BY SieOutEffect
<1>2. handover' = handover /\ fw' = fw
  BY DEF fwVars
<1> QED
  BY <1>1, <1>2 DEF InSetupPkt, Tx

LEMMA SetupTokenAddresses ==
  ASSUME Types, Owners, HostWays, Addresses, SetupToken, UNCHANGED fwVars
  PROVE  Addresses'
<1> DEFINE b == sie.out
           r == host'.req
<1>1. /\ Listening /\ host.stage \in {"idle", "setup"} /\ bdOut[b].own /\ NewTransfer
      /\ SieOut("SETUP", Packet(r, 0, 8)) /\ Len(sie.ustat) < 4 /\ SameHost /\ r \in Requests
      /\ host'.stage # "idle"
  BY SetupTokenEffect
<1>2. Packet(r, 0, 8).len = 8 /\ Packet(r, 0, 8).of = r /\ Packet(r, 0, 8).len \in Nat
  BY DEF Packet
<1>3. /\ b \in OutBDs /\ bdOut'[b].adr = bdOut[b].adr /\ bdIn' = bdIn
      /\ bdOut[b].adr \in Buffers
      /\ ram'[bdOut[b].adr].of = r
      /\ \A a \in Buffers : a # bdOut[b].adr => ram'[a] = ram[a]
      /\ sie'.addr = sie.addr /\ sie'.pktdis /\ SameSignals(sie, sie')
  BY <1>1, <1>2, SieOutEffect
<1>4. /\ \A k \in DOMAIN sie'.ustat : IsSetup(k)' <=> k = Len(sie'.ustat)
      /\ sie'.ustat[Len(sie'.ustat)] = [dir |-> "out", bd |-> b]
      /\ (QueuedIn' <=> QueuedIn)
  BY <1>1, <1>2, SieOutQueue
<1>5. /\ handover' = handover /\ fw' = fw /\ pc' = pc /\ app' = app
      /\ host'.addr = host.addr /\ sie.addr = host.addr /\ ~sie.urstif /\ ~sie'.urstif
      /\ (Live' <=> Live)
  BY <1>1, <1>3 DEF fwVars, SameHost, Listening, SameSignals, Live
<1>6. \A k \in DOMAIN sie'.ustat : IsSetup(k)' => Waiting(k)' = r
  <2> SUFFICES ASSUME NEW k \in DOMAIN sie'.ustat, IsSetup(k)'
               PROVE  Waiting(k)' = r
    OBVIOUS
  <2>1. sie'.ustat[k].bd = b
    BY <1>4
  <2>2. ram'[bdOut'[sie'.ustat[k].bd].adr].of = r
    BY <1>3, <2>1
  <2> QED
    BY <2>2 DEF Waiting
<1>7. Tx' => InSetupPkt'
  BY <1>1, <1>2, SieOutInSetupPkt, AddressesNow
<1>8. IF host.addr = 0
      THEN r.name = "SET_ADDRESS" \/ (r.of = "DEVICE" /\ r.arg = 0)
      ELSE r.name # "SET_ADDRESS"
  <2>1. CASE host.stage = "idle"
    BY <1>1, <2>1 DEF NewTransfer, MayAsk
  <2>2. CASE host.stage = "setup"
    BY <1>1, <2>2 DEF NewTransfer, HostWays
  <2> QED
    BY <1>1, <2>1, <2>2
<1> HIDE DEF r
<1>9. Asked'
  <2>1. /\ host'.stage # "idle" /\ sie'.addr = host'.addr
        /\ IF host'.addr = 0
           THEN host'.req.name = "SET_ADDRESS" \/ (host'.req.of = "DEVICE" /\ host'.req.arg = 0)
           ELSE host'.req.name # "SET_ADDRESS"
    BY <1>1, <1>3, <1>5, <1>8 DEF r
  <2> QED
    BY <2>1 DEF Asked
<1>10. SetupPackets'
  BY <1>1, <1>6, <1>7 DEF SetupPackets, InSetupPkt
<1>11. SetupWaits'
  BY <1>6, <1>9 DEF SetupWaits, r
<1>12. Addressed' /\ AddressAgrees'
  BY <1>3, <1>5 DEF Addresses, Addressed, AddressAgrees
<1>13. CASE fw.USBDeviceState # "ADR_PENDING_STATE"
  BY <1>5, <1>10, <1>11, <1>12, <1>13, NotPending DEF Addresses
<1>14. CASE fw.USBDeviceState = "ADR_PENDING_STATE"
  <2>1. Live
    BY <1>5, <1>14 DEF Live, Below
  <2>2. /\ sie.addr = 0 /\ ~Tx /\ host.req.name = "SET_ADDRESS" /\ host.addr = 0
        /\ host.stage # "idle" \/ host.result = "gaveup"
        /\ ~QueuedIn /\ (pc = "arm" => fw.inBusy)
        /\ \A c \in InBDs : bdIn[c].own => ~bdIn[c].stall /\ bdIn[c].dts = 1
        /\ \A k \in DOMAIN handover :
             handover[k].dir = "in" => ~handover[k].bd.stall /\ handover[k].bd.dts = 1
    BY <1>5, <1>14, <2>1 DEF Addresses, Pending
  <2>3. r.name = "SET_ADDRESS"
    <3>1. CASE host.stage = "idle"
      BY <1>1, <2>2, <3>1 DEF NewTransfer, MayAsk, r
    <3>2. CASE host.stage = "setup"
      BY <1>1, <2>2, <3>2 DEF NewTransfer, r
    <3> QED
      BY <1>1, <3>1, <3>2
  <2>4. IsSetAddress(r)
    BY <1>1, <2>3 DEF IsSetAddress, r
  <2>5. IsSetAddress(ram'["SetupPkt"].of)
    <3>1. CASE bdOut[b].adr = "SetupPkt"
      BY <1>3, <2>4, <3>1
    <3>2. CASE bdOut[b].adr # "SetupPkt"
      BY <1>3, <1>14, <3>2, Constants DEF Addresses, PendingRam
    <3> QED
      BY <3>1, <3>2
  <2>6. PendingRam'
    BY <1>6, <2>4, <2>5 DEF PendingRam
  <2>7. ~Tx' /\ ~QueuedIn'
    BY <1>4, <1>5, <2>2 DEF Tx
  <2>8. Pending'
    BY <1>1, <1>3, <1>5, <2>2, <2>3, <2>7 DEF Pending, r
  <2> QED
    BY <1>10, <1>11, <1>12, <2>6, <2>8 DEF Addresses
<1> QED
  BY <1>13, <1>14

\* No SETUP packet waits while the SIE listens.
LEMMA NoSetupWaits ==
  ASSUME Owners, Listening
  PROVE  \A k \in DOMAIN sie.ustat : ~IsSetup(k)
BY DEF Owners, SetupLast, Listening

LEMMA NoSetupAddresses ==
  ASSUME \A k \in DOMAIN sie'.ustat : ~IsSetup(k)', Tx' => InSetupPkt'
  PROVE  SetupPackets' /\ SetupWaits'
BY DEF SetupPackets, SetupWaits, InSetupPkt

LEMMA InTokenAddresses ==
  ASSUME Types, Owners, HostWays, Addresses, InToken, UNCHANGED fwVars
  PROVE  Addresses'
<1> DEFINE b == sie.in
<1>1. /\ InStage /\ Listening /\ b \in InBDs /\ bdIn[b].own /\ Progress
      /\ UNCHANGED <<bdOut, ram>>
      /\ host'.addr = host.addr \/ (host.req.name = "SET_ADDRESS" /\ host'.stage = "idle")
      /\ ~bdIn[b].stall /\ bdIn[b].dts = host.tog /\ host.stage = "status"
         => /\ host'.stage = "idle"
            /\ host'.addr = IF host.req.name = "SET_ADDRESS" THEN host.req.arg ELSE host.addr
  BY InTokenEffect
<1>2. \/ UNCHANGED bdIn /\ SameSie
      \/ /\ ~bdIn'[b].own /\ \A c \in InBDs : c # b => bdIn'[c] = bdIn[c]
         /\ sie'.ustat = Append(sie.ustat, [dir |-> "in", bd |-> b]) /\ [dir |-> "in", bd |-> b] \in Queue
         /\ sie'.in = NextIn(b) /\ sie'.out = sie.out /\ sie'.addr = sie.addr
         /\ (sie'.pktdis <=> sie.pktdis) /\ SameSignals(sie, sie')
  BY InTokenEffect
<1>3. host.stage \in {"data", "status"} /\ host'.req = host.req /\ host.req \in Requests
  BY <1>1 DEF Progress, HostWays
<1>4. /\ \A k \in DOMAIN sie'.ustat : ~IsSetup(k)'
  <2>1. CASE UNCHANGED bdIn /\ SameSie
    <3>1. \A k \in DOMAIN sie'.ustat : IsSetup(k)' <=> IsSetup(k)
      BY <1>1, <2>1 DEF SameSie, SameQueue, IsSetup
    <3> QED
      BY <1>1, <2>1, <3>1, NoSetupWaits DEF SameSie, SameQueue
  <2>2. CASE ~(UNCHANGED bdIn /\ SameSie)
    BY <1>1, <1>2, <1>3, <2>2, SieInOwners DEF Listening
  <2> QED
    BY <2>1, <2>2
<1>5. /\ \A c \in InBDs : bdIn'[c].own => bdIn[c].own /\ bdIn'[c] = bdIn[c]
      /\ sie'.addr = sie.addr /\ (sie'.pktdis <=> sie.pktdis) /\ (sie'.urstif <=> sie.urstif)
  BY <1>2 DEF SameSie, SameSignals
<1>6. /\ handover' = handover /\ fw' = fw /\ pc' = pc /\ app' = app /\ ram' = ram
      /\ sie.addr = host.addr /\ ~sie.urstif /\ ~sie.pktdis
      /\ (Live' <=> Live) /\ (Tx' <=> Tx)
  BY <1>1, <1>5 DEF fwVars, Listening, Live, Tx
<1>7. SetupPackets' /\ SetupWaits'
  <2>1. InSetupPkt => InSetupPkt'
    BY <1>1, <1>6 DEF InSetupPkt
  <2> QED
    BY <1>4, <1>6, <2>1, AddressesNow, NoSetupAddresses
<1>8. Addressed'
  BY <1>5, <1>6 DEF Addresses, Addressed
<1>9. AddressAgrees'
  BY <1>1, <1>3, <1>5, <1>6 DEF Addresses, AddressAgrees, HostWays
<1>10. PendingRam'
  BY <1>4, <1>6 DEF Addresses, PendingRam
<1>11. Pending'
  <2>1. CASE ~Live \/ fw.USBDeviceState # "ADR_PENDING_STATE"
    BY <1>6, <2>1 DEF Pending
  <2>2. CASE Live /\ fw.USBDeviceState = "ADR_PENDING_STATE"
    <3>1. /\ sie.addr = 0 /\ ~Tx /\ host.req.name = "SET_ADDRESS"
          /\ ram.SetupPkt.of = host.req /\ (pc = "arm" => fw.inBusy)
          /\ \A c \in InBDs : bdIn[c].own => ~bdIn[c].stall /\ bdIn[c].dts = 1
          /\ \A k \in DOMAIN handover :
               handover[k].dir = "in" => ~handover[k].bd.stall /\ handover[k].bd.dts = 1
      BY <1>6, <2>2 DEF Addresses, Pending
    <3>2. host.stage = "status" /\ host.tog = 1
      BY <1>3, <3>1 DEF HostWays
    <3>3. host'.addr = host.req.arg /\ host.req.arg # 0
      BY <1>1, <1>3, <3>1, <3>2, RequestTypes
    <3>4. \A c \in InBDs : bdIn'[c].own => ~bdIn'[c].stall /\ bdIn'[c].dts = 1
      BY <1>5, <3>1
    <3> QED
      BY <1>3, <1>5, <1>6, <3>1, <3>3, <3>4 DEF Pending
  <2> QED
    BY <2>1, <2>2
<1> QED
  BY <1>7, <1>8, <1>9, <1>10, <1>11 DEF Addresses

LEMMA OutTokenAddresses ==
  ASSUME Types, Owners, HostWays, Addresses, OutToken, UNCHANGED fwVars
  PROVE  Addresses'
<1>1. /\ Listening /\ bdOut[sie.out].own /\ host.req.name # "SET_ADDRESS"
      /\ host'.addr = host.addr /\ Len(sie.ustat) < 4
      /\ \/ UNCHANGED <<bdOut, bdIn, ram>> /\ SameSie
         \/ \E packet : packet.len \in Nat /\ SieOut("OUT", packet)
  BY OutTokenEffect
<1>2. /\ handover' = handover /\ fw' = fw /\ app' = app /\ ~sie.urstif /\ sie.addr = host.addr
  BY <1>1 DEF fwVars, Listening
<1>3. fw.USBDeviceState # "ADR_PENDING_STATE"
  BY <1>1, <1>2 DEF Addresses, Pending, Live, Below
<1>4. /\ sie'.addr = sie.addr /\ (sie'.urstif <=> sie.urstif)
      /\ \A k \in DOMAIN sie'.ustat : ~IsSetup(k)'
      /\ Tx' => InSetupPkt'
  <2>1. CASE UNCHANGED <<bdOut, bdIn, ram>> /\ SameSie
    <3>1. sie'.ustat = sie.ustat /\ \A k \in DOMAIN sie'.ustat : IsSetup(k)' <=> IsSetup(k)
      BY <2>1 DEF SameSie, SameQueue, IsSetup
    <3>2. Tx' => InSetupPkt'
      BY <1>2, <2>1, AddressesNow DEF InSetupPkt, Tx
    <3> QED
      BY <1>1, <2>1, <3>1, <3>2, NoSetupWaits DEF SameSie
  <2>2. CASE \E packet : packet.len \in Nat /\ SieOut("OUT", packet)
    <3>1. PICK packet : packet.len \in Nat /\ SieOut("OUT", packet)
      BY <2>2
    <3>2. sie'.addr = sie.addr /\ (sie'.urstif <=> sie.urstif)
      BY <1>1, <3>1, SieOutEffect DEF SameSignals
    <3>3. \A k \in DOMAIN sie'.ustat : ~IsSetup(k)'
      BY <1>1, <3>1, SieOutQueue
    <3>4. Tx' => InSetupPkt'
      BY <1>1, <3>1, SieOutInSetupPkt, AddressesNow
    <3> QED
      BY <3>2, <3>3, <3>4
  <2> QED
    BY <1>1, <2>1, <2>2
<1>5. SetupPackets' /\ SetupWaits'
  BY <1>4, NoSetupAddresses
<1>6. Addressed' /\ AddressAgrees'
  BY <1>1, <1>2, <1>4 DEF Addresses, Addressed, AddressAgrees, Live
<1> QED
  BY <1>2, <1>3, <1>5, <1>6, NotPending DEF Addresses

LEMMA BusResetAddresses ==
  ASSUME Types, Addresses, NEW free, BusReset(free), UNCHANGED fwVars
  PROVE  Addresses'
<1>1. /\ UNCHANGED <<bdOut, bdIn, ram>> /\ sie'.ustat = sie.ustat /\ sie'.urstif /\ sie'.addr = 0
  BY BusResetEffect DEF SameQueue
<1>2. handover' = handover /\ fw' = fw
  BY DEF fwVars
<1>3. SetupsKept /\ ~Live' /\ (Tx' <=> Tx)
  BY <1>1, <1>2, SetupsSame DEF Live, Tx
<1>4. InSetupPkt => InSetupPkt'
  BY <1>1, <1>2 DEF InSetupPkt
<1>5. SetupPackets'
  BY <1>3, <1>4, AddressesNow DEF Addresses, SetupPackets, SetupsKept, InSetupPkt
<1>6. PendingRam'
  BY <1>1, <1>2, <1>3 DEF Addresses, PendingRam, SetupsKept
<1> QED
  BY <1>1, <1>3, <1>5, <1>6 DEF Addresses, SetupWaits, Pending, Addressed, AddressAgrees

LEMMA AddressesHost ==
  ASSUME Types, Owners, HostWays, Addresses, HostStep, UNCHANGED fwVars
  PROVE  Addresses'
<1>1. CASE SetupToken
  BY <1>1, SetupTokenAddresses
<1>2. CASE InToken
  BY <1>2, InTokenAddresses
<1>3. CASE OutToken
  BY <1>3, OutTokenAddresses
<1>4. CASE BusReset(Unanswered)
  BY <1>4, BusResetAddresses
<1>5. CASE GiveUp \/ EndReset \/ Sleep \/ Resume
  <2>1. /\ UNCHANGED <<bdOut, bdIn, ram>> /\ SameQueue /\ sie'.addr = sie.addr
        /\ (sie'.pktdis <=> sie.pktdis) /\ (sie'.urstif <=> sie.urstif)
        /\ host'.req = host.req /\ host'.addr = host.addr
        /\ (host.stage # "idle" \/ host.result = "gaveup") => (host'.stage # "idle" \/ host'.result = "gaveup")
    <3>1. CASE GiveUp
      BY <3>1, GiveUpEffect DEF SameHost, SameQueue
    <3>2. CASE EndReset
      BY <3>2, EndResetEffect DEF SameQueue
    <3>3. CASE Sleep
      BY <3>3, SleepEffect
    <3>4. CASE Resume
      BY <3>4, ResumeEffect
    <3> QED
      BY <1>5, <3>1, <3>2, <3>3, <3>4
  <2>2. /\ handover' = handover /\ fw' = fw /\ pc' = pc /\ app' = app
    BY DEF fwVars
  <2>3. SameTransfer(fw, fw') /\ (Live' => Live)
    BY <2>1, <2>2 DEF SameTransfer, Live
  <2> QED
    BY <2>1, <2>2, <2>3, AddressesQuiet DEF SameQueue
<1> QED
  BY <1>1, <1>2, <1>3, <1>4, <1>5 DEF HostStep, Token

-----------------------------------------------------------------------------
(* The inductive invariant. *)

Inv == Types /\ Idling /\ Owners /\ HostWays /\ Addresses

LEMMA InitTypes ==
  ASSUME Init
  PROVE  Types
<1>1. IsFw(fw)
  BY Constants DEF Init, Globals, IsFw, States
<1>2. IsSie(sie)
  <2>1. <<>> \in Seq(Queue)
    BY SeqFacts
  <2> QED
    BY <2>1, Constants DEF Init, BusInit, SieInit, IsSie
<1>3. IsHost(host)
  BY DEF Init, BusInit, HostInit, IsHost
<1>4. IsApp(app)
  BY DEF Init, AppInit, IsApp
<1>5. RestOK
  <2>1. <<>> \in Seq(Entry)
    BY Gives
  <2>2. sie.ustat = <<>>
    BY DEF Init, BusInit, SieInit
  <2>3. Len(sie.ustat) <= 4
    BY <2>2
  <2> QED
    BY <2>1, <2>3, Descriptors DEF Init, BusInit, RestOK
<1> QED
  BY <1>1, <1>2, <1>3, <1>4, <1>5 DEF Types

LEMMA InitInv ==
  ASSUME Init
  PROVE  Inv
<1>1. /\ sie.ustat = <<>> /\ ~sie.pktdis /\ sie.out = 0 /\ sie.in = 0 /\ sie.addr = 0
      /\ ~sie.urstif /\ ~sie.idleif /\ ~sie.suspnd /\ ~sie.on
  BY DEF Init, BusInit, SieInit
<1>2. /\ fw.USBDeviceState = "DETACHED_STATE" /\ fw.pBDTEntryIn = 0 /\ fw.flag1 /\ fw.flag2
      /\ fw.controlTransferState = "WAIT_SETUP" /\ ~fw.BothEP0OutUOWNsSet /\ ~fw.ACTVIE
  BY DEF Init, Globals
<1>3. host.stage = "idle" /\ ~host.se0
  BY DEF Init, BusInit, HostInit
<1>4. app.cfg = 0 /\ pc = "attach" /\ handover = <<>>
  BY DEF Init, AppInit
<1>5. DOMAIN sie.ustat = {} /\ DOMAIN handover = {}
  BY <1>1, <1>4
<1>6. /\ \A b \in OutBDs : ~bdOut[b].own
      /\ \A b \in InBDs : ~bdIn[b].own
  BY DEF Init, BusInit, ClearBD, BD
<1>7. Below(fw.USBDeviceState) /\ ~Live /\ ~Tx /\ ~Rx
  BY <1>2 DEF Below, Live, Tx, Rx
<1>8. ~QueuedIn /\ ~HandingIn /\ ~ArmedIn /\ \A b : ~QueuedOut(b) /\ ~HandingOut(b)
  BY <1>5, <1>6 DEF QueuedIn, HandingIn, ArmedIn, QueuedOut, HandingOut
<1>9. Idling
  BY <1>1, <1>2, <1>3, <1>4 DEF Idling
<1>10. HostWays
  BY <1>3 DEF HostWays
<1>11. Owners
  <2>1. QueueOnce /\ HandoverOnce /\ OutNext /\ SetupLast
    BY <1>5, <1>7 DEF QueueOnce, HandoverOnce, OutNext, SetupLast
  <2>2. OutOwner /\ OutReady /\ TxBoth
    BY <1>2, <1>6, <1>7, <1>8 DEF OutOwner, OutReady, TxBoth, BusyOut, OutBDs
  <2>3. OpenNext /\ InOwner
    BY <1>1, <1>2, <1>5, <1>6, <1>7, <1>8 DEF OpenNext, InOwner
  <2>4. Sections /\ Arming
    BY <1>1, <1>2, <1>4, <1>7, <1>8 DEF Sections, Arming
  <2> QED
    BY <2>1, <2>2, <2>3, <2>4 DEF Owners
<1>12. Addresses
  BY <1>1, <1>2, <1>5, <1>7
     DEF Addresses, SetupPackets, SetupWaits, PendingRam, Pending, Addressed, AddressAgrees
<1> QED
  BY <1>9, <1>10, <1>11, <1>12, InitTypes DEF Inv

LEMMA FirmwareInv ==
  ASSUME Inv, Firmware
  PROVE  Inv'
<1>1. Types /\ Idling /\ Owners /\ HostWays /\ Addresses /\ SetupKnown /\ PendingRam
  BY AddressesNow DEF Inv
<1>2. /\ OpenNext /\ (Tx => fw.flag2)
      /\ (fw.USBDeviceState = "ADR_PENDING_STATE" => IsSetAddress(ram.SetupPkt.of))
      /\ (pc = "arm" => ram.SetupPkt.of \in Requests)
  BY <1>1 DEF Owners, InOwner, Arming, PendingRam
<1>3. Idling'
  BY <1>1, <1>2, IdlingFirmware
<1>4. Types' /\ Owners' /\ HostWays' /\ Addresses'
  BY <1>1, TypesFirmware, OwnersFirmware, WaysFirmware, AddressesFirmware
<1> QED
  BY <1>3, <1>4 DEF Inv

LEMMA HostInv ==
  ASSUME Inv, HostStep, UNCHANGED fwVars
  PROVE  Inv'
BY TypesHost, IdlingHost, OwnersHost, WaysHost, AddressesHost DEF Inv

LEMMA StutterInv ==
  ASSUME Inv, UNCHANGED vars
  PROVE  Inv'
<1>1. UNCHANGED <<bdOut, bdIn, sie, ram, host, faults>> /\ UNCHANGED <<fw, app, pc, loop, handover>>
  BY DEF vars, busVars, fwVars
<1>2. Types'
  BY <1>1 DEF Inv, Types, RestOK
<1>3. Idling' /\ HostWays'
  BY <1>1 DEF Inv, Idling, HostWays
<1>4. SameQueue /\ SameTransfer(fw, fw') /\ SamePointers(fw, fw') /\ (Live' => Live)
  BY <1>1 DEF SameQueue, SameTransfer, SamePointers, Live
<1>5. Owners'
  BY <1>1, <1>4, OwnersHostQuiet DEF Inv, fwVars
<1>6. Addresses'
  BY <1>1, <1>4, AddressesQuiet DEF Inv, SameQueue
<1> QED
  BY <1>2, <1>3, <1>5, <1>6 DEF Inv

\* The inductive invariant of endpoint 0: the types, suspend and wake-up, the
\* owners of the descriptors, the host's transfer, and the SETUP packets and
\* the address on their way.
THEOREM InvAlways == Spec => []Inv
<1>1. Init => Inv
  BY InitInv
<1>2. Inv /\ [Next]_vars => Inv'
  BY FirmwareInv, HostInv, StutterInv DEF Next
<1> QED
  BY <1>1, <1>2, PTL DEF Spec

\* The globals of usb_device.c, the descriptors and the SIE stay in range, and
\* the USTAT FIFO never holds more than the four transactions it has room for.
THEOREM TypeCorrect == Spec => []TypeOK
<1>1. Inv => TypeOK
  <2> SUFFICES ASSUME Inv
               PROVE  TypeOK
    OBVIOUS
  <2>1. IsFw(fw) /\ IsSie(sie) /\ IsHost(host) /\ RestOK
    BY DEF Inv, Types
  <2>2. \A k \in DOMAIN sie.ustat :
          sie.ustat[k] \in [dir : {"out"}, bd : OutBDs] \cup [dir : {"in"}, bd : InBDs]
    BY <2>1, SeqFacts DEF IsSie, Queue
  <2>3. BusTypeOK
    BY <2>1, <2>2 DEF IsSie, IsHost, RestOK, BusTypeOK
  <2>4. \A k \in DOMAIN handover :
          handover[k].dir \in {"out", "in"} /\ handover[k].bd \in BDType
    <3> SUFFICES ASSUME NEW k \in DOMAIN handover
                 PROVE  handover[k].dir \in {"out", "in"} /\ handover[k].bd \in BDType
      OBVIOUS
    <3>1. handover \in Seq(Entry)
      BY <2>1 DEF RestOK
    <3>2. handover[k] \in Entry
      BY <3>1
    <3> QED
      BY <3>2 DEF Entry
  <2> QED
    BY <2>1, <2>3, <2>4 DEF IsFw, RestOK, TypeOK, States
<1> QED
  BY <1>1, InvAlways, PTL

\* A module that USBSuspend has put to sleep has its wake-up before it once
\* the bus is active, however close together the two come.
THEOREM WakeUpComes == Spec => []WakesUp
<1>1. Inv => WakesUp
  BY DEF Inv, Idling, WakesUp
<1> QED
  BY <1>1, InvAlways, PTL

\* Whatever transfers the host makes, cuts short or abandons, after
\* USBDeviceTasks has serviced them the SIE's next OUT descriptor is armed,
\* PKTDIS is clear and pBDTEntryIn is the SIE's next IN descriptor.
THEOREM SetupIsAccepted == Spec => []SetupAccepted
<1>1. Inv => SetupAccepted
  <2> SUFFICES ASSUME Inv, Serviced
               PROVE  ~sie.pktdis /\ bdOut[sie.out].own /\ fw.pBDTEntryIn = sie.in
    BY DEF SetupAccepted
  <2>1. /\ Live /\ pc # "arm" /\ sie.ustat = <<>>
        /\ DOMAIN sie.ustat = {} /\ DOMAIN handover = {}
    BY SeqFacts, HandNone DEF Serviced, Live
  <2>2. ~QueuedIn /\ \A b : ~QueuedOut(b) /\ ~HandingOut(b)
    BY <2>1 DEF QueuedIn, QueuedOut, HandingOut
  <2>3. ~sie.pktdis
    BY <2>1 DEF Inv, Owners, SetupLast
  <2>4. bdOut[sie.out].own
    BY <2>1, <2>2 DEF Inv, Owners, OutReady
  <2>5. fw.pBDTEntryIn = sie.in
    BY <2>2 DEF Inv, Owners, InOwner
  <2> QED
    BY <2>3, <2>4, <2>5
<1> QED
  BY <1>1, InvAlways, PTL

\* U1ADDR is never an address the host does not know the device by: that of a
\* SET_ADDRESS waits in SetupPkt for the status stage and no other SETUP
\* packet overwrites it there with another address.
THEOREM AddressIsAgreed == Spec => []AddressAgrees
<1>1. Inv => AddressAgrees
  BY DEF Inv, Addresses
<1> QED
  BY <1>1, InvAlways, PTL

-----------------------------------------------------------------------------
(* The device's state of chapter 9. *)

\* The state, address and configuration Chapter9 maps the firmware's to.
DeviceState ==
  IF Below(fw.USBDeviceState) THEN "powered"
  ELSE IF sie.urstif \/ fw.USBDeviceState = "DEFAULT_STATE" THEN "default"
  ELSE IF fw.USBDeviceState = "CONFIGURED_STATE" THEN "configured"
  ELSE IF sie.addr = 0 THEN "default" ELSE "address"
DeviceAddress == IF sie.urstif THEN 0 ELSE sie.addr
DeviceConfiguration == IF sie.urstif THEN 0 ELSE app.cfg
Device == <<DeviceState, DeviceAddress, DeviceConfiguration>>

DeviceResets == DeviceState' = "default" /\ DeviceAddress' = 0 /\ DeviceConfiguration' = 0
DeviceStep == Device' = Device \/ Ch9!Next

LEMMA ResetStep ==
  ASSUME DeviceResets
  PROVE  DeviceStep
BY DEF DeviceResets, DeviceStep, DeviceState, DeviceAddress, DeviceConfiguration, Ch9!Next, Ch9!Reset

LEMMA SetAddressStep ==
  ASSUME DeviceState = "default", NEW a \in 1 .. 127, DeviceState' = "address", DeviceAddress' = a,
         DeviceConfiguration' = DeviceConfiguration
  PROVE  DeviceStep
BY DEF DeviceStep, DeviceState, DeviceAddress, DeviceConfiguration, Ch9!Next, Ch9!SetAddress

LEMMA SetConfigurationStep ==
  ASSUME DeviceState \in {"address", "configured"}, NEW c \in 0 .. 255,
         DeviceState' = IF c = 0 THEN "address" ELSE "configured",
         DeviceConfiguration' = c, DeviceAddress' = DeviceAddress
  PROVE  DeviceStep
BY DEF DeviceStep, DeviceState, DeviceAddress, DeviceConfiguration, Ch9!Next, Ch9!SetConfiguration

LEMMA SameDeviceStep ==
  ASSUME fw'.USBDeviceState = fw.USBDeviceState, sie'.addr = sie.addr, sie'.urstif <=> sie.urstif,
         app'.cfg = app.cfg
  PROVE  DeviceStep
BY DEF DeviceStep, Device, DeviceState, DeviceAddress, DeviceConfiguration

\* What DeviceState is where chapter 9 knows no difference.
LEMMA DeviceStates ==
  /\ Below(fw.USBDeviceState) => DeviceState = "powered"
  /\ Below(fw'.USBDeviceState) => DeviceState' = "powered"
  /\ sie.urstif => DeviceAddress = 0 /\ DeviceConfiguration = 0
  /\ sie'.urstif => DeviceAddress' = 0 /\ DeviceConfiguration' = 0
  /\ sie.urstif /\ ~Below(fw.USBDeviceState) => DeviceState = "default"
  /\ sie'.urstif /\ ~Below(fw'.USBDeviceState) => DeviceState' = "default"
  /\ ~sie.urstif => DeviceAddress = sie.addr /\ DeviceConfiguration = app.cfg
  /\ ~sie'.urstif => DeviceAddress' = sie'.addr /\ DeviceConfiguration' = app'.cfg
  /\ Live => DeviceState = IF fw.USBDeviceState = "DEFAULT_STATE" THEN "default"
                           ELSE IF fw.USBDeviceState = "CONFIGURED_STATE" THEN "configured"
                           ELSE IF sie.addr = 0 THEN "default" ELSE "address"
  /\ Live' => DeviceState' = IF fw'.USBDeviceState = "DEFAULT_STATE" THEN "default"
                             ELSE IF fw'.USBDeviceState = "CONFIGURED_STATE" THEN "configured"
                             ELSE IF sie'.addr = 0 THEN "default" ELSE "address"
BY DEF DeviceState, DeviceAddress, DeviceConfiguration, Live

LEMMA PoweredStep ==
  ASSUME Inv, Below(fw.USBDeviceState), Below(fw'.USBDeviceState), sie'.addr = 0, app'.cfg = 0
  PROVE  DeviceStep
<1>1. sie.addr = 0 /\ app.cfg = 0
  BY DEF Inv, Owners, Sections
<1> QED
  BY <1>1 DEF DeviceStep, Device, DeviceState, DeviceAddress, DeviceConfiguration

LEMMA EnterStep ==
  ASSUME Inv, USBDeviceAttach \/ TasksEnter
  PROVE  DeviceStep
<1>1. CASE USBDeviceAttach
  <2>1. Below(fw'.USBDeviceState) /\ sie'.addr = 0
    BY <1>1, AttachEffect DEF Inv, Below
  <2>2. Below(fw.USBDeviceState) /\ app'.cfg = 0
    BY <1>1 DEF USBDeviceAttach, Inv, Owners, Sections
  <2> QED
    BY <2>1, <2>2, PoweredStep
<1>2. CASE TasksEnter
  <2>1. app' = app /\ sie'.addr = sie.addr
    BY <1>2, EnterEffect DEF TasksEnter, Inv
  <2>2. CASE fw.USBDeviceState = "ATTACHED_STATE" /\ ~host.se0
    <3>1. fw'.USBDeviceState = "POWERED_STATE"
      BY <1>2, <2>2, EnterEffect DEF Inv
    <3>2. Below(fw.USBDeviceState) /\ Below(fw'.USBDeviceState) /\ sie.addr = 0 /\ app.cfg = 0
      BY <2>2, <3>1 DEF Below, Inv, Owners, Sections
    <3> QED
      BY <2>1, <3>2, PoweredStep
  <2>3. CASE ~(fw.USBDeviceState = "ATTACHED_STATE" /\ ~host.se0)
    <3>1. fw'.USBDeviceState = fw.USBDeviceState /\ (sie'.urstif <=> sie.urstif)
      BY <1>2, <2>3, EnterEffect DEF Inv
    <3> QED
      BY <2>1, <3>1, SameDeviceStep
  <2> QED
    BY <2>2, <2>3
<1> QED
  BY <1>1, <1>2

LEMMA BusStep ==
  ASSUME Inv, TasksBus
  PROVE  DeviceStep
<1>1. /\ pc' = "sof" /\ UNCHANGED <<ram, host, faults, loop, handover>>
      /\ \/ Reset
         \/ USBSuspend
         \/ UNCHANGED <<bdOut, bdIn, sie, fw, app>>
  BY BusWays
<1>2. CASE Reset
  <2>1. fw'.USBDeviceState = "DEFAULT_STATE" /\ ~sie'.urstif /\ sie'.addr = 0 /\ app'.cfg = 0
    BY <1>1, <1>2, ResetEffect DEF Inv
  <2>2. DeviceResets
    BY <2>1, DeviceStates DEF DeviceResets, Live, Below
  <2> QED
    BY <2>2, ResetStep
<1>3. CASE USBSuspend
  BY <1>1, <1>3, SuspendEffect, SameDeviceStep DEF Inv
<1>4. CASE UNCHANGED <<bdOut, bdIn, sie, fw, app>>
  BY <1>4, SameDeviceStep
<1> QED
  BY <1>1, <1>2, <1>3, <1>4

LEMMA SetupStep ==
  ASSUME Inv, CtrlTrfSetup \/ StdSetCfg
  PROVE  DeviceStep
<1> DEFINE r == Waiting(1)
<1>0. Types /\ SetupKnown /\ Addresses /\ Owners
  BY AddressesNow DEF Inv
<1>1. /\ pc = "trn" /\ sie.ustat # <<>> /\ IsSetup(1) /\ r \in Requests
      /\ sie'.addr = sie.addr /\ SameSignals(sie, sie')
  <2>1. CASE CtrlTrfSetup
    BY <1>0, <2>1, SetupEffect
  <2>2. CASE StdSetCfg
    BY <1>0, <2>2, StdSetCfgEffect
  <2> QED
    BY <2>1, <2>2
<1>2. DOMAIN sie.ustat = {1} /\ (sie'.urstif <=> sie.urstif) /\ ~Below(fw.USBDeviceState)
  BY <1>0, <1>1, SetupAlone DEF SameSignals, Owners, Sections
<1>3. Live => r = host.req /\ Asked
  BY <1>0, <1>1, <1>2 DEF Addresses, SetupWaits
<1>4. Live => /\ fw.USBDeviceState = "DEFAULT_STATE" => sie.addr = 0
              /\ fw.USBDeviceState = "CONFIGURED_STATE" => sie.addr # 0
              /\ sie.addr = 0 => app.cfg = 0
  BY <1>0 DEF Addresses, Addressed
<1> HIDE DEF r
<1>5. CASE CtrlTrfSetup
  <2>1. /\ fw'.USBDeviceState = IF r.name = "SET_ADDRESS" THEN "ADR_PENDING_STATE"
                                                          ELSE fw.USBDeviceState
        /\ app'.cfg = app.cfg
    BY <1>0, <1>5, SetupEffect DEF r
  <2>2. CASE r.name # "SET_ADDRESS"
    BY <1>1, <1>2, <2>1, <2>2, SameDeviceStep
  <2>3. CASE r.name = "SET_ADDRESS"
    <3>1. Live => sie.addr = 0
      BY <1>3, <2>3 DEF Asked
    <3>2. ~Below(fw'.USBDeviceState) /\ fw'.USBDeviceState = "ADR_PENDING_STATE"
      BY <2>1, <2>3 DEF Below
    <3>3. DeviceState = "default" /\ DeviceState' = "default"
      <4>1. CASE sie.urstif
        BY <1>2, <3>2, <4>1, DeviceStates
      <4>2. CASE ~sie.urstif
        BY <1>1, <1>2, <1>4, <3>1, <3>2, <4>2, DeviceStates DEF Live
      <4> QED
        BY <4>1, <4>2
    <3> QED
      BY <1>1, <1>2, <2>1, <3>3 DEF DeviceStep, Device, DeviceAddress, DeviceConfiguration
  <2> QED
    BY <2>2, <2>3
<1>6. CASE StdSetCfg
  <2>1. /\ fw'.USBDeviceState = IF r.arg = 0 THEN "ADDRESS_STATE" ELSE "CONFIGURED_STATE"
        /\ app'.cfg = r.arg /\ r.name = "SET_CONFIGURATION"
    BY <1>0, <1>6, StdSetCfgEffect DEF r
  <2>2. ~Below(fw'.USBDeviceState) /\ r.arg \in 0 .. 255
    BY <1>1, <2>1, RequestTypes DEF Below, r
  <2>3. CASE sie.urstif
    <3>1. DeviceResets
      BY <1>2, <2>2, <2>3, DeviceStates DEF DeviceResets
    <3> QED
      BY <3>1, ResetStep
  <2>4. CASE ~sie.urstif /\ sie.addr = 0
    <3>1. Live /\ Live' /\ r.arg = 0
      BY <1>2, <1>3, <2>1, <2>2, <2>4 DEF Live, Asked
    <3>2. DeviceResets
      BY <1>1, <2>1, <3>1, <2>4, DeviceStates DEF DeviceResets, Live
    <3> QED
      BY <3>2, ResetStep
  <2>5. CASE ~sie.urstif /\ sie.addr # 0
    <3>1. Live /\ Live' /\ ~sie'.urstif
      BY <1>2, <2>2, <2>5 DEF Live
    <3>2. DeviceState \in {"address", "configured"}
      BY <1>4, <3>1, <2>5, DeviceStates
    <3>3. DeviceState' = IF r.arg = 0 THEN "address" ELSE "configured"
      BY <1>1, <2>1, <2>5, <3>1, DeviceStates
    <3>4. DeviceConfiguration' = r.arg /\ DeviceAddress' = DeviceAddress
      BY <1>1, <2>1, <2>5, <3>1, DeviceStates
    <3> QED
      BY <2>2, <3>2, <3>3, <3>4, SetConfigurationStep
  <2> QED
    BY <2>3, <2>4, <2>5
<1> QED
  BY <1>5, <1>6

LEMMA InStep ==
  ASSUME Inv, CtrlTrfIn
  PROVE  DeviceStep
<1>1. Types /\ Owners /\ Addresses /\ PendingRam
  BY AddressesNow DEF Inv
<1>2. /\ sie.ustat[1].dir = "in" /\ 1 \in DOMAIN sie.ustat /\ pc = "trn" /\ app'.cfg = app.cfg
      /\ SameSignals(sie, sie')
      /\ sie'.addr = IF fw.USBDeviceState = "ADR_PENDING_STATE" THEN ram.SetupPkt.of.arg ELSE sie.addr
      /\ fw'.USBDeviceState = IF fw.USBDeviceState = "ADR_PENDING_STATE" THEN "ADDRESS_STATE"
                                                                        ELSE fw.USBDeviceState
  BY <1>1, InEffect DEF PendingRam
<1>3. (sie'.urstif <=> sie.urstif) /\ ~Below(fw.USBDeviceState)
  BY <1>1, <1>2 DEF SameSignals, Owners, Sections
<1>4. CASE fw.USBDeviceState # "ADR_PENDING_STATE"
  BY <1>2, <1>3, <1>4, SameDeviceStep
<1>5. CASE fw.USBDeviceState = "ADR_PENDING_STATE" /\ sie.urstif
  <2>1. DeviceResets
    BY <1>2, <1>3, <1>5, DeviceStates DEF DeviceResets, Below
  <2> QED
    BY <2>1, ResetStep
<1>6. CASE fw.USBDeviceState = "ADR_PENDING_STATE" /\ ~sie.urstif
  <2>1. Live /\ Live' /\ sie.addr = 0
    BY <1>1, <1>2, <1>3, <1>6 DEF Live, Addresses, Pending, Below
  <2>2. ram.SetupPkt.of.arg \in 1 .. 127
    <3>1. ram.SetupPkt.of \in Requests /\ ram.SetupPkt.of.name = "SET_ADDRESS"
      BY <1>1, <1>6 DEF PendingRam, IsSetAddress
    <3> QED
      BY <3>1, RequestTypes
  <2>3. DeviceState = "default"
    BY <1>6, <2>1, DeviceStates
  <2>4. DeviceState' = "address" /\ DeviceAddress' = ram.SetupPkt.of.arg
        /\ DeviceConfiguration' = DeviceConfiguration
    BY <1>2, <1>3, <1>6, <2>1, <2>2, DeviceStates
  <2> QED
    BY <2>2, <2>3, <2>4, SetAddressStep
<1> QED
  BY <1>4, <1>5, <1>6

LEMMA FirmwareStep ==
  ASSUME Inv, Firmware
  PROVE  DeviceStep
<1>1. Types /\ Owners /\ OpenNext /\ (Tx => fw.flag2) /\ (pc = "arm" => ram.SetupPkt.of \in Requests)
  BY DEF Inv, Owners, InOwner, Arming
<1>2. CASE TasksSof \/ TasksNoSof \/ TasksStall \/ TasksLeave \/ HandOver
  <2>1. CASE TasksSof
    BY <1>1, <2>1, SofEffect, SameDeviceStep DEF SameDevice, busVars
  <2>2. CASE TasksNoSof \/ TasksLeave
    BY <2>2, SameDeviceStep DEF TasksNoSof, TasksLeave, busVars
  <2>3. CASE TasksStall
    BY <1>1, <2>3, StallEffect, SameDeviceStep DEF SameSie
  <2>4. CASE HandOver
    BY <2>4, SameDeviceStep DEF HandOver
  <2> QED
    BY <1>2, <2>1, <2>2, <2>3, <2>4
<1>3. CASE CtrlEPServiceComplete
  <2>1. SameDevice(fw, fw') /\ UNCHANGED <<sie, app>>
    <3>1. pc = "arm"
      BY <1>3 DEF CtrlEPServiceComplete
    <3> QED
      BY <1>1, <1>3, <3>1, ArmTypes, ArmWriteEffect, ArmStallEffect, ArmReadEffect, ArmStatusEffect DEF SameFw
  <2> QED
    BY <2>1, SameDeviceStep DEF SameDevice
<1>4. CASE CtrlTrfRx \/ CtrlTrfOut
  <2>1. PICK b : Received1(b)
    BY <1>1, <1>4, RxEffect, OutEffect
  <2> QED
    BY <2>1, SameDeviceStep DEF Received1, SameDevice, SameSignals
<1> QED
  BY <1>2, <1>3, <1>4, EnterStep, BusStep, SetupStep, InStep DEF Firmware

LEMMA HostDeviceStep ==
  ASSUME Inv, HostStep, UNCHANGED fwVars
  PROVE  DeviceStep
<1>1. Types /\ Owners /\ HostWays
  BY DEF Inv
<1>2. fw' = fw /\ app' = app
  BY DEF fwVars
<1>3. CASE BusReset(Unanswered)
  <2>1. sie'.urstif /\ sie'.addr = 0
    BY <1>1, <1>3, BusResetEffect
  <2>2. CASE Below(fw.USBDeviceState)
    BY <1>1, <1>2, <2>1, <2>2, PoweredStep DEF Owners, Sections
  <2>3. CASE ~Below(fw.USBDeviceState)
    <3>1. DeviceResets
      BY <1>2, <2>1, <2>3, DeviceStates DEF DeviceResets
    <3> QED
      BY <3>1, ResetStep
  <2> QED
    BY <2>2, <2>3
<1>4. CASE ~BusReset(Unanswered)
  <2>1. sie'.addr = sie.addr /\ (sie'.urstif <=> sie.urstif)
    <3>1. CASE SetupToken
      <4>1. SieOut("SETUP", Packet(host'.req, 0, 8)) /\ Len(sie.ustat) < 4
            /\ Packet(host'.req, 0, 8).len \in Nat
        BY <1>1, <3>1, SetupTokenEffect DEF Packet
      <4> QED
        BY <1>1, <4>1, SieOutEffect DEF SameSignals
    <3>2. CASE InToken
      BY <1>1, <3>2, InTokenEffect DEF SameSie, SameSignals
    <3>3. CASE OutToken
      BY <1>1, <3>3, OutTokenEffect, SieOutEffect DEF SameSie, SameSignals
    <3>4. CASE GiveUp \/ EndReset
      BY <3>4 DEF GiveUp, EndReset
    <3>5. CASE Sleep
      BY <1>1, <3>5, SleepEffect
    <3>6. CASE Resume
      BY <1>1, <3>6, ResumeEffect
    <3> QED
      BY <1>4, <3>1, <3>2, <3>3, <3>4, <3>5, <3>6 DEF HostStep, Token
  <2> QED
    BY <1>2, <2>1, SameDeviceStep
<1> QED
  BY <1>3, <1>4

\* USBDeviceState, U1ADDR and USBActiveConfiguration implement the device
\* states of chapter 9: an address before a configuration, and neither after
\* a bus reset.
THEOREM ImplementsChapter9 == Spec => Chapter9
<1>1. Init => Ch9!Init
  <2> SUFFICES ASSUME Init
               PROVE  Ch9!Init
    OBVIOUS
  <2>1. Below(fw.USBDeviceState) /\ sie.addr = 0 /\ app.cfg = 0
    BY DEF Init, BusInit, SieInit, Globals, AppInit, Below
  <2> QED
    BY <2>1 DEF Ch9!Init
<1>2. Inv /\ [Next]_vars => [Ch9!Next]_Ch9!vars
  <2> SUFFICES ASSUME Inv, [Next]_vars
               PROVE  [Ch9!Next]_Ch9!vars
    OBVIOUS
  <2>1. DeviceStep
    <3>1. CASE Firmware
      BY <3>1, FirmwareStep
    <3>2. CASE HostStep /\ UNCHANGED fwVars
      BY <3>2, HostDeviceStep
    <3>3. CASE UNCHANGED vars
      BY <3>3, SameDeviceStep DEF vars, busVars, fwVars
    <3> QED
      BY <3>1, <3>2, <3>3 DEF Next
  <2> QED
    BY <2>1 DEF DeviceStep, Device, DeviceState, DeviceAddress, DeviceConfiguration, Ch9!vars
<1> QED
  BY <1>1, <1>2, InvAlways, PTL DEF Spec, Chapter9, Ch9!Spec


-----------------------------------------------------------------------------
(* The data and status stages: from the SETUP packet to the end of the transfer. *)

\* The host's SETUP packet has been taken out and the transfer is not over; or it
\* has ended well and no other has begun.
Talking == host.stage \in {"data", "status"} /\ ~sie.pktdis
Engaged == Talking \/ host.result = "ok"

Courses ==
  /\ host.stage # "idle" => host.result = "none" /\ pc # "attach"
  /\ host.stage = "data" => HasData(host.req)
  /\ host.result = "ok" => host.stage = "idle" /\ ~host.short /\ pc # "arm"
  /\ Engaged => Live

\* Until something is armed for it, a transfer is as it began.
Opened ==
  /\ host.got = Empty /\ host.exact /\ host.tog = 1
  /\ host.stage \in {"setup", IF HasData(host.req) THEN "data" ELSE "status"}
Opening ==
  host.stage # "idle" /\ (host.stage = "setup" \/ sie.pktdis \/ pc = "arm") => Opened

\* The descriptors the SIE has or is about to get.
GivenIn == {bdIn[b] : b \in {c \in InBDs : bdIn[c].own}}
             \cup {handover[k].bd : k \in {j \in DOMAIN handover : handover[j].dir = "in"}}
GivenOut == {bdOut[b] : b \in {c \in OutBDs : bdOut[c].own}}
              \cup {handover[k].bd : k \in {j \in DOMAIN handover : handover[j].dir = "out"}}

\* What a control read asks for, and what it got in the end.
Asks == Source(host.req, app)
Wanted == MinOf(host.req.len, SourceLength(host.req))
Delivered ==
  /\ host.exact /\ host.got.len = Wanted
  /\ host.got.len > 0 => host.got.of = Asks

\* The firmware between the SETUP packet and what it arms.
Prepared ==
  Talking /\ pc = "arm" =>
    /\ ram.SetupPkt.of = host.req
    /\ IsRead(host.req) /\ fw.inBusy =>
         /\ Claimed(host.req) /\ fw.pSrc = Asks
         /\ fw.off = 0 /\ fw.inCount = SourceLength(host.req)
    /\ host.req.name = "SET_LINE_CODING" => ~fw.inBusy /\ fw.outBusy /\ fw.outCount = host.req.len

\* The packet of descriptor bd is the last that was cut off the source, whether the host has it
\* already (its acknowledgement was lost) or not.
InFlight(bd) ==
  /\ bd.cnt <= fw.off /\ bd.cnt <= Ep0Size
  /\ bd.cnt < Ep0Size => fw.inCount = 0
  /\ bd.cnt > 0 => ram.CtrlTrfData.of = Asks /\ ram.CtrlTrfData.off = fw.off - bd.cnt
  /\ HasData(host.req) =>
       host.got.len = IF host.tog = bd.dts THEN fw.off - bd.cnt ELSE fw.off

\* In the data stage of a control read the host has what was cut off the source, up
\* to the packet in flight.
Supply ==
  /\ Claimed(host.req) /\ fw.pSrc = Asks /\ fw.off + fw.inCount = Wanted
  /\ host.exact /\ host.got.len \in Nat /\ (host.got.len > 0 => host.got.of = Asks)
  /\ HasData(host.req) /\ QueuedIn =>
       host.tog # bdIn[fw.pBDTEntryIn].dts /\ host.got.len = fw.off
  /\ ~HasData(host.req) => host.got.len = 0
  /\ \A bd \in GivenIn : bd.stall \/ InFlight(bd)

Reading == IsRead(host.req) /\ (host.stage = "data" \/ (host.stage = "status" /\ ~HasData(host.req)))

ReadStage ==
  Talking /\ Reading /\ pc # "arm" =>
    /\ ~Rx /\ \A b \in OutBDs : ~QueuedOut(b)
    /\ IF Tx THEN Supply ELSE ~QueuedIn /\ \A bd \in GivenIn : bd.stall

ReadOver ==
  Engaged /\ IsRead(host.req) =>
    /\ ~fw.outBusy
    /\ host.result = "ok" \/ (host.stage = "status" /\ HasData(host.req)) => Delivered

\* A command has its effect as soon as its SETUP packet has been taken out.
Effective(r, a) ==
  /\ r.name = "SET_CONFIGURATION" => a.cfg = r.arg
  /\ r.name = "SET_INTERFACE" => a.alt = r.arg
  /\ r.name = "SET_FEATURE" => a.RemoteWakeup
  /\ r.name = "CLEAR_FEATURE" => ~a.RemoteWakeup
Commanded == Engaged => Effective(host.req, app)

\* The line coding is still to come, waits in the FIFO in front of everything else, or
\* has arrived.
Awaited ==
  /\ Rx /\ fw.outBusy /\ fw.outCount = host.req.len
  /\ host.stage = "data" /\ host.tog = 1
  /\ ~QueuedIn /\ \A b \in OutBDs : ~QueuedOut(b)
  /\ \A bd \in GivenOut : bd.dtsen /\ bd.dts = 1 /\ bd.adr = "CtrlTrfData"
Fetched ==
  /\ Rx /\ fw.outBusy /\ fw.outCount = host.req.len
  /\ sie.ustat # <<>> /\ sie.ustat[1].dir = "out"
  /\ bdOut[sie.ustat[1].bd].pid = "OUT" /\ bdOut[sie.ustat[1].bd].cnt = host.req.len
  /\ ram.CtrlTrfData.of = Payload(host.req)
LineSet == app.line = Payload(host.req) /\ ~fw.outBusy

LineCoding ==
  Engaged /\ host.req.name = "SET_LINE_CODING" /\ ~host.short /\ pc # "arm" =>
    Awaited \/ Fetched \/ LineSet

Stages == /\ Courses /\ Opening /\ Prepared /\ ReadStage /\ ReadOver /\ Commanded /\ LineCoding

-----------------------------------------------------------------------------
(* What the actions do to the data of a transfer. *)

SameData(f, g) ==
  /\ g.pSrc = f.pSrc /\ g.off = f.off /\ g.inCount = f.inCount /\ g.outCount = f.outCount
  /\ SameBusy(f, g)

LEMMA AllowStatusStageData ==
  ASSUME NEW f, IsFw(f)
  PROVE  SameData(f, AllowStatusStage(f).f)
<1> DEFINE g == AllowStatusStage(f).f
<1>1. CASE f.flag1 \/ f.flag2
  <2>1. g = [f EXCEPT !.flag1 = TRUE]
    BY <1>1 DEF AllowStatusStage
  <2> HIDE DEF g
  <2> QED
    BY <2>1 DEF g, IsFw, SameData, SameBusy
<1>2. CASE ~f.flag1 /\ ~f.flag2
  <2> DEFINE both == f.BothEP0OutUOWNsSet \/ f.controlTransferState = "CTRL_TRF_TX"
  <2>1. g = [f EXCEPT !.flag1 = TRUE, !.flag2 = TRUE, !.BothEP0OutUOWNsSet = both]
    BY <1>2 DEF AllowStatusStage, IsFw
  <2> HIDE DEF g, both
  <2> QED
    BY <2>1 DEF g, IsFw, SameData, SameBusy
<1> QED
  BY <1>1, <1>2

LEMMA EnterData ==
  ASSUME Types, TasksEnter
  PROVE  /\ SameData(fw, fw') /\ UNCHANGED <<bdOut, bdIn, ram, host, app, handover>>
         /\ pc = "main" /\ pc' \in {"main", "bus"}
<1> DEFINE powered == fw.USBDeviceState = "ATTACHED_STATE" /\ ~host.se0
           f == IF powered THEN [fw EXCEPT !.USBDeviceState = "POWERED_STATE"] ELSE fw
<1>1. fw' = f \/ fw' = [f EXCEPT !.ACTVIE = FALSE]
  BY DEF TasksEnter
<1>2. IsFw(f) /\ SameData(fw, f)
  BY DEF Types, IsFw, States, SameData, SameBusy
<1> HIDE DEF f
<1>3. SameData(fw, fw')
  BY <1>1, <1>2 DEF IsFw, SameData, SameBusy
<1>4. /\ UNCHANGED <<bdOut, bdIn, ram, host, app, handover>>
      /\ pc = "main" /\ pc' \in {"main", "bus"}
  BY DEF TasksEnter
<1> QED
  BY <1>3, <1>4

LEMMA SuspendData ==
  ASSUME Types, USBSuspend
  PROVE  SameData(fw, fw')
BY DEF Types, IsFw, USBSuspend, SameData, SameBusy

LEMMA SofData ==
  ASSUME Types, TasksSof
  PROVE  SameData(fw, fw') /\ pc = "sof"
<1> DEFINE t == IF fw.timeout > 0 THEN fw.timeout - 1 ELSE 0
           g == [fw EXCEPT !.timeout = t]
<1>1. t \in 0 .. StatusTimeout
  BY Constants DEF Types, IsFw
<1>2. IsFw(g) /\ SameData(fw, g)
  BY <1>1 DEF Types, IsFw, SameData, SameBusy
<1>3. fw' = AllowStatusStage(g).f \/ fw' = g
  BY DEF TasksSof, SofTick
<1> HIDE DEF g
<1>4. SameData(g, AllowStatusStage(g).f)
  BY <1>2, AllowStatusStageData
<1>5. pc = "sof"
  BY DEF TasksSof
<1> QED
  BY <1>2, <1>3, <1>4, <1>5 DEF SameData, SameBusy

\* What a handler claims, from a transfer that has been abandoned.
LEMMA CheckRequestData ==
  ASSUME NEW f, IsFw(f), ~f.inBusy, ~f.outBusy, f.off = 0, NEW r \in Requests
  PROVE  LET g == CheckState(CheckRequest(f, r), r) IN
         /\ IsRead(r) => ~g.outBusy
         /\ IsRead(r) /\ g.inBusy => /\ Claimed(r) /\ g.pSrc = Source(r, app)
                                     /\ g.off = 0 /\ g.inCount = SourceLength(r)
         /\ r.name = "SET_LINE_CODING" => ~g.inBusy /\ g.outBusy /\ g.outCount = r.len
<1> DEFINE g == CheckRequest(f, r)
<1>1. CASE IsRead(r)
  <2>1. g = IF Claimed(r) THEN Send(f, Source(r, app), SourceLength(r)) ELSE f
    BY <1>1 DEF CheckRequest, IsRead, Reads
  <2>2. CheckState(g, r) = g /\ r.name # "SET_LINE_CODING"
    BY <1>1 DEF CheckState, IsRead, Reads
  <2>3. CASE Claimed(r)
    <3>1. g = [f EXCEPT !.inBusy = TRUE, !.pSrc = Source(r, app), !.inCount = SourceLength(r)]
      BY <2>1, <2>3 DEF Send
    <3> HIDE DEF g
    <3>2. ~g.outBusy /\ g.pSrc = Source(r, app) /\ g.off = 0 /\ g.inCount = SourceLength(r)
      BY <3>1 DEF IsFw
    <3> QED
      BY <2>2, <2>3, <3>2 DEF g
  <2>4. CASE ~Claimed(r)
    BY <2>1, <2>2, <2>4
  <2> QED
    BY <2>3, <2>4
<1>2. CASE r.name = "SET_LINE_CODING"
  <2>1. g = [f EXCEPT !.outBusy = TRUE, !.outCount = r.len] /\ ~IsRead(r)
    BY <1>2 DEF CheckRequest, IsRead, Reads
  <2>2. CheckState(g, r) = g
    BY <1>2 DEF CheckState
  <2> HIDE DEF g
  <2>3. ~g.inBusy /\ g.outBusy /\ g.outCount = r.len
    BY <2>1 DEF IsFw
  <2> QED
    BY <2>1, <2>2, <2>3 DEF g
<1> QED
  BY <1>1, <1>2

LEMMA SetupData ==
  ASSUME Types, SetupKnown, CtrlTrfSetup
  PROVE  LET r == Waiting(1) IN
         /\ IsRead(r) => ~fw'.outBusy
         /\ IsRead(r) /\ fw'.inBusy => /\ Claimed(r) /\ fw'.pSrc = Source(r, app')
                                       /\ fw'.off = 0 /\ fw'.inCount = SourceLength(r)
         /\ r.name = "SET_LINE_CODING" => ~fw'.inBusy /\ fw'.outBusy /\ fw'.outCount = r.len
         /\ Effective(r, app')
<1> DEFINE b == sie.ustat[1].bd
           r == Waiting(1)
           t == Turn(fw, b)
           f == Abandon(t)
<1>1. Head(sie.ustat) = sie.ustat[1] /\ b \in OutBDs
  BY TransactionFacts DEF CtrlTrfSetup
<1>2. r \in Requests /\ r.name # "SET_CONFIGURATION"
  BY SetupEffect
<1>3. fw' = CheckState(CheckRequest(f, r), r) /\ app' = CheckApp(app, r)
  BY <1>1 DEF CtrlTrfSetup, SetupPacket, Waiting
<1>4. IsFw(t)
  BY <1>1, TurnEffect DEF Types
<1> HIDE DEF t
<1>5. IsFw(f) /\ ~f.inBusy /\ ~f.outBusy
  BY <1>4, AbandonEffect
<1>6. f.off = 0
  BY <1>4 DEF Abandon, IsFw
<1> HIDE DEF f, r
<1>7. IsRead(r) => app' = app
  BY <1>3 DEF CheckApp, IsRead, Reads
<1>8. Effective(r, app')
  BY <1>2, <1>3 DEF Effective, CheckApp, Types, IsApp
<1>9. LET g == CheckState(CheckRequest(f, r), r) IN
         /\ IsRead(r) => ~g.outBusy
         /\ IsRead(r) /\ g.inBusy => /\ Claimed(r) /\ g.pSrc = Source(r, app)
                                     /\ g.off = 0 /\ g.inCount = SourceLength(r)
         /\ r.name = "SET_LINE_CODING" => ~g.inBusy /\ g.outBusy /\ g.outCount = r.len
  BY <1>2, <1>5, <1>6, CheckRequestData
<1> QED
  BY <1>3, <1>7, <1>8, <1>9 DEF r

LEMMA StdSetCfgData ==
  ASSUME Types, SetupKnown, StdSetCfg
  PROVE  Effective(Waiting(1), app')
<1>1. Waiting(1).name = "SET_CONFIGURATION" /\ app'.cfg = Waiting(1).arg
  BY StdSetCfgEffect
<1> QED
  BY <1>1 DEF Effective

LEMMA ArmWriteData ==
  ASSUME Types, ArmWrite
  PROVE  SameData(fw, fw') /\ fw.outBusy /\ ~fw.inBusy
<1>1. fw' = [fw EXCEPT !.controlTransferState = "CTRL_TRF_RX", !.flag1 = FALSE, !.flag2 = FALSE]
  BY DEF ArmWrite
<1>2. fw.outBusy /\ ~fw.inBusy
  BY DEF ArmWrite
<1> QED
  BY <1>1, <1>2 DEF Types, IsFw, SameData, SameBusy

LEMMA ArmStatusData ==
  ASSUME Types, ArmStatus
  PROVE  SameData(fw, fw') /\ fw.inBusy /\ ~IsRead(ram.SetupPkt.of)
<1> DEFINE f == [fw EXCEPT !.controlTransferState = "CTRL_TRF_RX", !.flag1 = FALSE, !.flag2 = FALSE]
<1>1. fw' = AllowStatusStage(f).f /\ fw.inBusy /\ ~IsRead(ram.SetupPkt.of)
  BY DEF ArmStatus
<1>2. IsFw(f) /\ SameData(fw, f)
  BY DEF Types, IsFw, SameData, SameBusy
<1> HIDE DEF f
<1>3. SameData(f, AllowStatusStage(f).f)
  BY <1>2, AllowStatusStageData
<1> QED
  BY <1>1, <1>2, <1>3 DEF SameData, SameBusy

\* The packet that is cut off the source.
LEMMA TxServiceData ==
  ASSUME NEW f, IsFw(f)
  PROVE  LET g == TxService(f).f
             p == TxService(f).packet
             n == MinOf(Ep0Size, f.inCount) IN
         /\ g.pSrc = f.pSrc /\ g.off = f.off + n /\ g.inCount = f.inCount - n
         /\ SameBusy(f, g) /\ p = Packet(f.pSrc, f.off, n)
<1> DEFINE g == TxService(f).f
           n == MinOf(Ep0Size, f.inCount)
           short == IF f.inCount >= Ep0Size THEN f.shortPacketStatus
                    ELSE IF f.shortPacketStatus = "NOT_USED" THEN "PENDING" ELSE "SENT"
<1>1. /\ g = [f EXCEPT !.shortPacketStatus = short, !.inCount = f.inCount - n, !.off = f.off + n]
      /\ TxService(f).packet = Packet(f.pSrc, f.off, n)
  BY DEF TxService, IsFw
<1> HIDE DEF g, n, short
<1>2. g.pSrc = f.pSrc /\ g.off = f.off + n /\ g.inCount = f.inCount - n
  BY <1>1 DEF IsFw
<1>3. SameBusy(f, g)
  BY <1>1 DEF IsFw, SameBusy
<1> QED
  BY <1>1, <1>2, <1>3 DEF g, n

LEMMA ArmReadData ==
  ASSUME Types, ram.SetupPkt.of \in Requests, ArmRead
  PROVE  LET r == ram.SetupPkt.of
             all == MinOf(fw.inCount, r.len)
             n == MinOf(Ep0Size, all) IN
         /\ fw.inBusy /\ SameBusy(fw, fw') /\ all \in Nat /\ n \in Nat
         /\ fw'.pSrc = fw.pSrc /\ fw'.off = fw.off + n /\ fw'.inCount = all - n
         /\ ram'.CtrlTrfData = Packet(fw.pSrc, fw.off, n)
         /\ ArmedRead(n)
<1> DEFINE r == ram.SetupPkt.of
           all == MinOf(fw.inCount, r.len)
           n == MinOf(Ep0Size, all)
           f == [fw EXCEPT !.controlTransferState = "CTRL_TRF_TX", !.inCount = all,
                           !.flag1 = FALSE, !.flag2 = FALSE]
           tx == TxService(f)
           status == AllowStatusStage(tx.f)
<1>1. /\ fw' = status.f /\ fw.inBusy
      /\ ram' = [ram EXCEPT !.CtrlTrfData = tx.packet]
      /\ handover' = Give("in", fw.pBDTEntryIn, DataBD(1, tx.packet.len)) \o status.give
  BY DEF ArmRead
<1>2. all \in Nat /\ n \in Nat
  BY RequestTypes, Constants DEF Types, IsFw, MinOf
<1> HIDE DEF all
<1>3. /\ IsFw(f) /\ f.pSrc = fw.pSrc /\ f.off = fw.off /\ f.inCount = all
      /\ SameBusy(fw, f)
  BY <1>2 DEF Types, IsFw, SameBusy
<1>4. SamePointers(fw, f) /\ f.controlTransferState = "CTRL_TRF_TX" /\ ~f.flag1 /\ ~f.flag2
  BY DEF Types, IsFw, SamePointers
<1> HIDE DEF f, n
<1>5. /\ tx.f.pSrc = f.pSrc /\ tx.f.off = f.off + n /\ tx.f.inCount = f.inCount - n
      /\ SameBusy(f, tx.f) /\ tx.packet = Packet(f.pSrc, f.off, n)
  BY <1>3, TxServiceData DEF n
<1>6. IsFw(tx.f) /\ SamePointers(f, tx.f) /\ SameFlags(f, tx.f) /\ SameTransfer(f, tx.f)
  BY <1>3, TxServiceEffect
<1> HIDE DEF tx
<1>7. SameData(tx.f, status.f)
  BY <1>6, AllowStatusStageData
<1>8. status.give = Give("out", tx.f.Current, StallBD) \o Give("out", tx.f.Next, OpenBD)
  BY <1>4, <1>6, AllowStatusStageGives DEF SameFlags, SameTransfer
<1> HIDE DEF status
<1>9. ArmedRead(n)
  <2>1. status.give = <<Ent("out", fw.Current, StallBD), Ent("out", fw.Next, OpenBD)>>
    BY <1>4, <1>6, <1>8, Concats DEF SamePointers
  <2>2. tx.packet.len = n
    BY <1>5 DEF Packet
  <2> QED
    BY <1>1, <2>1, <2>2, Concats DEF ArmedRead
<1>10. ram'.CtrlTrfData = Packet(fw.pSrc, fw.off, n)
  BY <1>1, <1>3, <1>5, Constants DEF Types, RestOK
<1>11. /\ fw'.pSrc = fw.pSrc /\ fw'.off = fw.off + n /\ fw'.inCount = all - n
       /\ SameBusy(fw, fw')
  BY <1>1, <1>3, <1>5, <1>7 DEF SameData, SameBusy
<1> QED
  BY <1>1, <1>2, <1>9, <1>10, <1>11 DEF n, all

SameSettings(a, b) == b.cfg = a.cfg /\ b.alt = a.alt /\ (b.RemoteWakeup <=> a.RemoteWakeup)

LEMMA RxData ==
  ASSUME Types, CtrlTrfRx
  PROVE  LET n == MinOf(bdOut[sie.ustat[1].bd].cnt, fw.outCount) IN
         /\ SameSettings(app, app')
         /\ \/ /\ fw.outCount - n > 0
               /\ (fw'.outBusy <=> fw.outBusy) /\ app'.line = app.line
            \/ /\ fw.outCount - n = 0 /\ ~fw'.outBusy
               /\ ~fw.outBusy => app'.line = app.line
               /\ fw.outBusy /\ n # 0 => app'.line = ram.CtrlTrfData.of
<1> DEFINE b == sie.ustat[1].bd
           t == Turn(fw, b)
           n == MinOf(bdOut[b].cnt, t.outCount)
           f == [t EXCEPT !.outCount = @ - n]
           g == [f EXCEPT !.outBusy = FALSE]
           notice == IF n = 0 THEN app.cdc_notice ELSE ram.CtrlTrfData.of
<1>1. Head(sie.ustat) = sie.ustat[1] /\ b \in OutBDs
  BY TransactionFacts DEF CtrlTrfRx
<1>2. IF f.outCount > 0
      THEN fw' = f /\ app' = [app EXCEPT !.cdc_notice = notice]
      ELSE /\ fw' = AllowStatusStage(g).f
           /\ app' = [app EXCEPT !.cdc_notice = notice,
                                 !.line = IF fw.outBusy THEN notice ELSE @]
  BY <1>1 DEF CtrlTrfRx
<1>3. IsFw(t) /\ t.outCount = fw.outCount /\ SameBusy(fw, t)
  BY <1>1, TurnEffect DEF Types
<1>4. bdOut[b].cnt \in Nat
  BY <1>1 DEF Types, RestOK, BDType
<1> HIDE DEF t
<1>5. t.outCount - n \in Nat
  BY <1>3, <1>4 DEF IsFw, MinOf
<1> HIDE DEF n, notice
<1>6. IsFw(f) /\ f.outCount = fw.outCount - n /\ (f.outBusy <=> fw.outBusy)
  BY <1>3, <1>5 DEF IsFw, SameBusy
<1> HIDE DEF f
<1>7. IsFw(g) /\ ~g.outBusy
  BY <1>6 DEF IsFw
<1> HIDE DEF g
<1>8. ~AllowStatusStage(g).f.outBusy
  BY <1>7, AllowStatusStageData DEF SameData, SameBusy
<1>9. SameSettings(app, app')
  BY <1>2 DEF Types, IsApp, SameSettings
<1>10. CASE f.outCount > 0
  BY <1>2, <1>3, <1>6, <1>9, <1>10 DEF Types, IsApp, n, b
<1>11. CASE ~(f.outCount > 0)
  <2>1. fw.outCount - n = 0
    BY <1>6, <1>11 DEF IsFw
  <2>2. app'.line = IF fw.outBusy THEN notice ELSE app.line
    BY <1>2, <1>11 DEF Types, IsApp
  <2>3. ~fw'.outBusy
    BY <1>2, <1>8, <1>11
  <2> QED
    BY <1>3, <1>9, <2>1, <2>2, <2>3 DEF n, b, notice
<1> QED
  BY <1>10, <1>11

LEMMA OutData ==
  ASSUME Types, CtrlTrfOut
  PROVE  (fw'.outBusy <=> fw.outBusy) /\ app' = app
<1> DEFINE f == Turn(fw, sie.ustat[1].bd)
<1>1. /\ fw' = [f EXCEPT !.controlTransferState = "WAIT_SETUP", !.BothEP0OutUOWNsSet = FALSE]
      /\ app' = app /\ sie.ustat[1].bd \in OutBDs
  BY TransactionFacts DEF CtrlTrfOut
<1>2. IsFw(f) /\ SameBusy(fw, f)
  BY <1>1, TurnEffect DEF Types
<1> HIDE DEF f
<1> QED
  BY <1>1, <1>2 DEF IsFw, SameBusy

LEMMA InData ==
  ASSUME Types, CtrlTrfIn,
         fw.USBDeviceState = "ADR_PENDING_STATE" => IsSetAddress(ram.SetupPkt.of)
  PROVE  LET n == MinOf(Ep0Size, fw.inCount) IN
         /\ SameSettings(app, app') /\ (~fw.outBusy => app'.line = app.line)
         /\ IF Tx
            THEN /\ app' = app /\ SameBusy(fw, fw')
                 /\ fw'.pSrc = fw.pSrc /\ fw'.off = fw.off + n /\ fw'.inCount = fw.inCount - n
                 /\ ram'.CtrlTrfData = IF n = 0 THEN ram.CtrlTrfData ELSE Packet(fw.pSrc, fw.off, n)
                 /\ \E x \in {StallBD, DataBD(1 - bdIn[fw.pBDTEntryIn].dts, n)} :
                      handover' = <<Ent("in", fw'.pBDTEntryIn, x)>>
            ELSE ~fw'.outBusy
<1> DEFINE a == ram.SetupPkt.of.arg
           lastDTS == bdIn[fw.pBDTEntryIn].dts
           n == MinOf(Ep0Size, fw.inCount)
           h == TakeAddress(fw, a)
           f == [h EXCEPT !.pBDTEntryIn = NextIn(@), !.timeout = StatusTimeout]
           tx == TxService(f)
           x == IF tx.f.shortPacketStatus = "SENT" THEN StallBD ELSE DataBD(1 - lastDTS, tx.packet.len)
<1>1. IF Tx
      THEN /\ fw' = tx.f
           /\ ram' = [ram EXCEPT !.CtrlTrfData = IF tx.packet.len = 0 THEN @ ELSE tx.packet]
           /\ handover' = Give("in", f.pBDTEntryIn, x)
           /\ UNCHANGED app
      ELSE /\ fw' = [f EXCEPT !.controlTransferState = "WAIT_SETUP", !.outBusy = FALSE]
           /\ app' = [app EXCEPT !.line = IF fw.outBusy THEN app.cdc_notice ELSE @]
  BY DEF CtrlTrfIn, Tx
<1>2. fw.USBDeviceState = "ADR_PENDING_STATE" => a \in 1 .. 127
  BY RequestTypes DEF IsSetAddress
<1>3. IsFw(h) /\ SameData(fw, h)
  <2>1. CASE fw.USBDeviceState = "ADR_PENDING_STATE"
    <3>1. h = [fw EXCEPT !.USBDeviceState = "ADDRESS_STATE"]
      BY <1>2, <2>1 DEF TakeAddress
    <3> QED
      BY <3>1 DEF Types, IsFw, SameData, SameBusy, States
  <2>2. CASE fw.USBDeviceState # "ADR_PENDING_STATE"
    BY <2>2 DEF TakeAddress, Types, SameData, SameBusy
  <2> QED
    BY <2>1, <2>2
<1> HIDE DEF a, h
<1>4. IsFw(f) /\ SameData(fw, f)
  <2>1. NextIn(h.pBDTEntryIn) \in InBDs
    BY <1>3, Constants DEF IsFw
  <2> QED
    BY <1>3, <2>1, Constants DEF IsFw, SameData, SameBusy
<1> HIDE DEF f
<1>5. /\ tx.f.pSrc = fw.pSrc /\ tx.f.off = fw.off + n /\ tx.f.inCount = fw.inCount - n
      /\ SameBusy(fw, tx.f) /\ tx.packet = Packet(fw.pSrc, fw.off, n)
      /\ tx.packet.len = n /\ tx.f.pBDTEntryIn = f.pBDTEntryIn
  BY <1>4, TxServiceData, TxServiceEffect DEF SameData, SameBusy, Packet, SamePointers
<1> HIDE DEF tx, n
<1>6. SameSettings(app, app') /\ (~fw.outBusy => app'.line = app.line)
  BY <1>1 DEF Types, IsApp, SameSettings
<1>7. CASE Tx
  <2>1. handover' = <<Ent("in", fw'.pBDTEntryIn, x)>> /\ x \in {StallBD, DataBD(1 - lastDTS, n)}
    BY <1>1, <1>5, <1>7, Concats
  <2>2. ram'.CtrlTrfData = IF n = 0 THEN ram.CtrlTrfData ELSE Packet(fw.pSrc, fw.off, n)
    BY <1>1, <1>5, <1>7, Constants DEF Types, RestOK
  <2> QED
    BY <1>1, <1>5, <1>6, <1>7, <2>1, <2>2 DEF n
<1>8. CASE ~Tx
  BY <1>1, <1>4, <1>6, <1>8 DEF IsFw
<1> QED
  BY <1>7, <1>8

LEMMA SetupTokenData ==
  ASSUME Types, Courses, Opening, SetupToken
  PROVE  /\ Opened' /\ host'.result = "none" /\ host'.stage \in {"setup", "data", "status"}
         /\ host'.stage = "data" => HasData(host'.req)
<1>1. PICK h \in Transfers : \/ host' = h
                             \/ host' = [h EXCEPT !.stage = IF HasData(h.req) THEN "data" ELSE "status"]
  BY DEF SetupToken, Acked
<1>2. /\ IsHost(h) /\ h.stage = "setup" /\ h.result = "none"
      /\ h.got = Empty /\ h.exact /\ h.tog = 1
  <2>1. CASE host.stage = "setup"
    <3>1. h = host
      BY <2>1 DEF Transfers
    <3> QED
      BY <2>1, <3>1 DEF Courses, Opening, Opened, Types
  <2>2. CASE host.stage # "setup"
    <3>1. PICK r \in Requests, short \in BOOLEAN : h = Begun(r, short)
      BY <2>2 DEF Transfers
    <3> QED
      BY <3>1 DEF Begun, Types, IsHost
  <2> QED
    BY <2>1, <2>2
<1>3. /\ host'.got = Empty /\ host'.exact /\ host'.tog = 1 /\ host'.req = h.req
      /\ host'.result = "none"
      /\ host'.stage \in {"setup", IF HasData(h.req) THEN "data" ELSE "status"}
  BY <1>1, <1>2 DEF IsHost
<1> QED
  BY <1>3 DEF Opened

-----------------------------------------------------------------------------
(* Stages, action by action. *)

\* No transfer is in its data or status stage, and none has ended well.
LEMMA StagesIdle ==
  ASSUME Courses', Opening', ~Engaged'
  PROVE  Stages'
<1>1. ~Talking'
  BY DEF Engaged
<1>2. Prepared' /\ ReadStage' /\ ReadOver' /\ Commanded' /\ LineCoding'
  BY <1>1 DEF Prepared, ReadStage, ReadOver, Commanded, LineCoding
<1> QED
  BY <1>2 DEF Stages

SameTransferHost ==
  /\ host'.stage = host.stage /\ host'.result = host.result /\ host'.req = host.req
  /\ host'.got = host.got /\ host'.exact = host.exact /\ host'.tog = host.tog
  /\ host'.short = host.short

\* Nothing the stages are about changes, but that a descriptor may go from
\* handover to the SIE, or be dropped from there.
Quiet ==
  /\ SameTransferHost /\ ram' = ram /\ app' = app
  /\ (sie'.pktdis <=> sie.pktdis) /\ sie'.ustat = sie.ustat
  /\ SameData(fw, fw') /\ SameTransfer(fw, fw') /\ fw'.pBDTEntryIn = fw.pBDTEntryIn
  /\ (pc' = "attach" => pc = "attach") /\ (pc' = "arm" <=> pc = "arm")
  /\ GivenIn' \subseteq GivenIn \/ Rx
  /\ GivenOut' \subseteq GivenOut
  /\ \A b \in OutBDs : QueuedOut(b) => bdOut'[b] = bdOut[b]
  /\ QueuedIn => bdIn'[fw.pBDTEntryIn] = bdIn[fw.pBDTEntryIn]

LEMMA StagesQuiet ==
  ASSUME Types, Stages, Quiet, Live => Live'
  PROVE  Stages'
<1>1. /\ (Talking' <=> Talking) /\ (Engaged' <=> Engaged)
      /\ (Tx' <=> Tx) /\ (Rx' <=> Rx)
  BY DEF Quiet, SameTransferHost, Talking, Engaged, Tx, Rx, SameTransfer
<1>2. (\A b : QueuedOut(b)' <=> QueuedOut(b)) /\ (QueuedIn' <=> QueuedIn)
  BY DEF Quiet, QueuedOut, QueuedIn
<1>3. Asks' = Asks /\ Wanted' = Wanted /\ (Delivered' <=> Delivered) /\ (Opened' <=> Opened)
  BY DEF Quiet, SameTransferHost, Asks, Wanted, Delivered, Opened
<1>4. Courses'
  BY <1>1 DEF Stages, Courses, Quiet, SameTransferHost
<1>5. Opening'
  BY <1>3 DEF Stages, Opening, Quiet, SameTransferHost
<1>6. Prepared'
  BY <1>1, <1>3 DEF Stages, Prepared, Quiet, SameTransferHost, SameData, SameBusy
<1>7. ReadStage'
  <2> SUFFICES ASSUME Talking', Reading', pc' # "arm"
               PROVE  /\ ~Rx' /\ \A b \in OutBDs : ~QueuedOut(b)'
                      /\ IF Tx' THEN Supply' ELSE ~QueuedIn' /\ \A bd \in GivenIn' : bd.stall
    BY DEF ReadStage
  <2>1. Talking /\ Reading /\ pc # "arm"
    BY <1>1 DEF Quiet, SameTransferHost, Reading
  <2>2. /\ ~Rx /\ \A b \in OutBDs : ~QueuedOut(b)
        /\ IF Tx THEN Supply ELSE ~QueuedIn /\ \A bd \in GivenIn : bd.stall
    BY <2>1 DEF Stages, ReadStage
  <2>3. GivenIn' \subseteq GivenIn
    BY <2>2 DEF Quiet
  <2>4. CASE Tx
    <3>1. Supply
      BY <2>2, <2>4
    <3>2. \A bd : InFlight(bd)' <=> InFlight(bd)
      BY <1>3 DEF InFlight, Quiet, SameTransferHost, SameData
    <3>3. Supply'
      BY <1>2, <1>3, <2>3, <3>1, <3>2 DEF Supply, Quiet, SameTransferHost, SameData
    <3> QED
      BY <1>1, <1>2, <2>2, <2>4, <3>3
  <2>5. CASE ~Tx
    BY <1>1, <1>2, <2>2, <2>3, <2>5
  <2> QED
    BY <2>4, <2>5
<1>8. ReadOver'
  BY <1>1, <1>3 DEF Stages, ReadOver, Quiet, SameTransferHost, SameData, SameBusy
<1>9. Commanded'
  BY <1>1 DEF Stages, Commanded, Quiet, SameTransferHost
<1>10. LineCoding'
  <2> SUFFICES ASSUME Engaged', host'.req.name = "SET_LINE_CODING", ~host'.short, pc' # "arm"
               PROVE  Awaited' \/ Fetched' \/ LineSet'
    BY DEF LineCoding
  <2>1. Awaited \/ Fetched \/ LineSet
    BY <1>1 DEF Stages, LineCoding, Quiet, SameTransferHost
  <2>2. CASE Awaited
    <3>1. Awaited'
      BY <1>1, <1>2, <2>2 DEF Awaited, Quiet, SameTransferHost, SameData, SameBusy
    <3> QED
      BY <3>1
  <2>3. CASE Fetched
    <3>1. sie.ustat[1].bd \in OutBDs /\ QueuedOut(sie.ustat[1].bd)
      BY <2>3, SeqFacts DEF Fetched, QueuedOut, Types, IsSie, Queue
    <3>2. bdOut'[sie.ustat[1].bd] = bdOut[sie.ustat[1].bd]
      BY <3>1 DEF Quiet
    <3>3. Fetched'
      BY <1>1, <2>3, <3>2 DEF Fetched, Quiet, SameTransferHost, SameData, SameBusy
    <3> QED
      BY <3>3
  <2>4. CASE LineSet
    BY <2>4 DEF LineSet, Quiet, SameTransferHost, SameData, SameBusy
  <2> QED
    BY <2>1, <2>2, <2>3, <2>4
<1> QED
  BY <1>4, <1>5, <1>6, <1>7, <1>8, <1>9, <1>10 DEF Stages

\* The same descriptors given, and the same handover.
LEMMA SameGiven ==
  ASSUME bdIn' = bdIn, bdOut' = bdOut, handover' = handover \/ handover' = <<>>
  PROVE  GivenIn' \subseteq GivenIn /\ GivenOut' \subseteq GivenOut
BY DEF GivenIn, GivenOut

LEMMA AttachStages ==
  ASSUME Inv, Stages, USBDeviceAttach
  PROVE  Stages'
<1>1. pc = "attach" /\ pc' = "main" /\ host' = host /\ ~Live /\ ~sie'.pktdis
  <2>1. pc = "attach" /\ pc' = "main" /\ host' = host
    BY DEF USBDeviceAttach
  <2> QED
    BY <2>1, AttachEffect DEF Inv, Owners, Sections, Live
<1>2. host.stage = "idle" /\ host.result # "ok"
  BY <1>1 DEF Stages, Courses, Engaged, Types, IsHost, Inv
<1>3. ~Engaged'
  BY <1>1, <1>2 DEF Engaged, Talking
<1>4. Courses' /\ Opening'
  BY <1>1, <1>2, <1>3 DEF Courses, Opening
<1> QED
  BY <1>3, <1>4, StagesIdle

\* A step of the firmware or the bus in which no transfer is on its way, and
\* the host waits.
LEMMA StagesWaiting ==
  ASSUME Stages, ~Engaged, host' = host, sie'.pktdis <=> sie.pktdis, pc' \notin {"attach", "arm"}
  PROVE  Stages'
<1>1. ~Engaged'
  BY DEF Engaged, Talking
<1>2. Courses' /\ Opening'
  BY <1>1 DEF Stages, Courses, Opening, Opened, Engaged
<1> QED
  BY <1>1, <1>2, StagesIdle

LEMMA EnterStages ==
  ASSUME Inv, Stages, TasksEnter
  PROVE  Stages'
<1>1. /\ SameData(fw, fw') /\ UNCHANGED <<bdOut, bdIn, ram, host, app, handover>>
      /\ pc = "main" /\ pc' \in {"main", "bus"} /\ (sie'.pktdis <=> sie.pktdis)
  BY EnterData, EnterEffect DEF Inv
<1>2. CASE fw.USBDeviceState = "ATTACHED_STATE" /\ ~host.se0
  <2>1. ~Engaged
    BY <1>2 DEF Stages, Courses, Live, Below
  <2> QED
    BY <1>1, <2>1, StagesWaiting
<1>3. CASE ~(fw.USBDeviceState = "ATTACHED_STATE" /\ ~host.se0)
  <2>1. /\ SameTransfer(fw, fw') /\ SamePointers(fw, fw') /\ sie'.ustat = sie.ustat
        /\ fw'.USBDeviceState = fw.USBDeviceState /\ (sie'.urstif <=> sie.urstif)
    BY <1>3, EnterEffect DEF Inv
  <2>2. GivenIn' \subseteq GivenIn /\ GivenOut' \subseteq GivenOut
    BY <1>1, SameGiven
  <2>3. Quiet
    BY <1>1, <2>1, <2>2 DEF Quiet, SameTransferHost, SamePointers
  <2>4. Live => Live'
    BY <2>1 DEF Live
  <2> QED
    BY <2>3, <2>4, StagesQuiet DEF Inv
<1> QED
  BY <1>2, <1>3

LEMMA BusStages ==
  ASSUME Inv, Stages, TasksBus
  PROVE  Stages'
<1>1. pc = "bus" /\ pc' = "sof" /\ UNCHANGED <<ram, host, faults, loop, handover>>
  BY BusWays
<1>2. CASE sie.urstif /\ Reset
  <2>1. ~sie'.pktdis
    BY <1>1, <1>2, ResetEffect DEF Inv
  <2>2. ~Live /\ host.stage = "idle"
    BY <1>2 DEF Live, Inv, HostWays
  <2>3. host.result # "ok"
    BY <2>2 DEF Stages, Courses, Engaged
  <2>4. ~Engaged'
    BY <1>1, <2>2, <2>3 DEF Engaged, Talking
  <2>5. Courses' /\ Opening'
    BY <1>1, <2>2, <2>3, <2>4 DEF Courses, Opening
  <2> QED
    BY <2>4, <2>5, StagesIdle
<1>3. CASE USBSuspend
  <2>1. /\ UNCHANGED <<bdOut, bdIn, app>> /\ SameTransfer(fw, fw') /\ SamePointers(fw, fw')
        /\ SameData(fw, fw') /\ fw'.USBDeviceState = fw.USBDeviceState
        /\ SameQueue /\ (sie'.pktdis <=> sie.pktdis) /\ (sie'.urstif <=> sie.urstif)
    BY <1>1, <1>3, SuspendEffect, SuspendData DEF Inv
  <2>2. GivenIn' \subseteq GivenIn /\ GivenOut' \subseteq GivenOut
    BY <1>1, <2>1, SameGiven
  <2>3. Quiet
    BY <1>1, <2>1, <2>2 DEF Quiet, SameTransferHost, SamePointers, SameQueue
  <2>4. Live => Live'
    BY <2>1 DEF Live
  <2> QED
    BY <2>3, <2>4, StagesQuiet DEF Inv
<1>4. CASE UNCHANGED <<bdOut, bdIn, sie, fw, app>>
  <2>1. GivenIn' \subseteq GivenIn /\ GivenOut' \subseteq GivenOut
    BY <1>1, <1>4, SameGiven
  <2>2. Quiet /\ (Live => Live')
    BY <1>1, <1>4, <2>1 DEF Quiet, SameTransferHost, SameData, SameBusy, SameTransfer, Live
  <2> QED
    BY <2>2, StagesQuiet DEF Inv
<1> QED
  BY <1>2, <1>3, <1>4, BusWays

LEMMA SofStages ==
  ASSUME Inv, Stages, TasksSof \/ TasksNoSof
  PROVE  Stages'
<1>1. /\ UNCHANGED <<busVars, app>> /\ pc' = "stall" /\ pc = "sof" /\ SameData(fw, fw')
      /\ SameTransfer(fw, fw') /\ SamePointers(fw, fw') /\ SameDevice(fw, fw')
      /\ \/ handover' = handover \/ handover' = <<>>
         \/ Rx /\ handover' = Give("in", fw.pBDTEntryIn, DataBD(1, 0))
  <2>1. CASE TasksSof
    BY <2>1, SofData, SofEffect DEF Inv, Owners, InOwner
  <2>2. CASE TasksNoSof
    BY <2>2 DEF TasksNoSof, SameData, SameBusy, SameTransfer, SamePointers, SameDevice
  <2> QED
    BY <2>1, <2>2
<1>2. UNCHANGED <<bdOut, bdIn, sie, ram, host>>
  BY <1>1 DEF busVars
<1>3. (GivenIn' \subseteq GivenIn \/ Rx) /\ GivenOut' \subseteq GivenOut
  <2>1. CASE handover' = handover \/ handover' = <<>>
    BY <1>2, <2>1, SameGiven
  <2>2. CASE Rx /\ handover' = Give("in", fw.pBDTEntryIn, DataBD(1, 0))
    <3>1. \A k \in DOMAIN handover' : handover'[k].dir # "out"
      BY <2>2 DEF Give
    <3> QED
      BY <1>2, <2>2, <3>1 DEF GivenOut
  <2> QED
    BY <1>1, <2>1, <2>2
<1>4. Quiet
  BY <1>1, <1>2, <1>3 DEF Quiet, SameTransferHost, SamePointers
<1>5. Live => Live'
  BY <1>1, <1>2 DEF Live, SameDevice
<1> QED
  BY <1>4, <1>5, StagesQuiet DEF Inv

LEMMA StallStages ==
  ASSUME Inv, Stages, TasksStall
  PROVE  Stages'
<1>1. /\ UNCHANGED <<bdOut, bdIn, ram, host, fw, app>> /\ SameSie /\ handover' = <<>>
      /\ pc' \in {"main", "trn"} /\ pc = "stall"
  BY StallEffect DEF Inv, Owners, TasksStall
<1>2. GivenIn' \subseteq GivenIn /\ GivenOut' \subseteq GivenOut
  BY <1>1, SameGiven
<1>3. Quiet
  BY <1>1, <1>2
     DEF Quiet, SameTransferHost, SameData, SameBusy, SameTransfer, SameSie, SameQueue
<1>4. Live => Live'
  BY <1>1 DEF Live, SameSie
<1> QED
  BY <1>3, <1>4, StagesQuiet DEF Inv

LEMMA LeaveStages ==
  ASSUME Inv, Stages, TasksLeave
  PROVE  Stages'
<1>1. UNCHANGED <<busVars, app, fw, handover>> /\ pc' = "main" /\ pc = "trn"
  BY LeaveEffect DEF Inv
<1>2. UNCHANGED <<bdOut, bdIn, sie, ram, host>>
  BY <1>1 DEF busVars
<1>3. GivenIn' \subseteq GivenIn /\ GivenOut' \subseteq GivenOut
  BY <1>1, <1>2, SameGiven
<1>4. Quiet /\ (Live => Live')
  BY <1>1, <1>2, <1>3 DEF Quiet, SameTransferHost, SameData, SameBusy, SameTransfer, Live
<1> QED
  BY <1>4, StagesQuiet DEF Inv

LEMMA HandOverStages ==
  ASSUME Inv, Stages, HandOver
  PROVE  Stages'
<1> DEFINE w == handover[1]
<1>1. /\ UNCHANGED <<sie, ram, host, faults, fw, app, pc, loop>>
      /\ handover # <<>> /\ handover' = Tail(handover)
      /\ \/ /\ w.dir = "out" /\ bdIn' = bdIn /\ bdOut'[w.b] = w.bd /\ w.b \in OutBDs
            /\ \A b \in OutBDs : b # w.b => bdOut'[b] = bdOut[b]
         \/ /\ w.dir = "in" /\ bdOut' = bdOut /\ bdIn'[w.b] = w.bd /\ w.b \in InBDs
            /\ \A b \in InBDs : b # w.b => bdIn'[b] = bdIn[b]
  BY HandOverEffect DEF Inv
<1>2. /\ w.dir = "out" => HandingOut(w.b)
      /\ w.dir = "in" => HandingIn
      /\ 1 \in DOMAIN handover
      /\ \A k \in DOMAIN handover' : \E j \in DOMAIN handover : handover'[k] = handover[j]
  BY <1>1, HandTail DEF Inv, Owners
<1> HIDE DEF w
<1>3. GivenIn' \subseteq GivenIn
  BY <1>1, <1>2 DEF GivenIn, w
<1>4. GivenOut' \subseteq GivenOut
  BY <1>1, <1>2 DEF GivenOut, w
<1>5. \A b \in OutBDs : QueuedOut(b) => bdOut'[b] = bdOut[b]
  BY <1>1, <1>2 DEF Inv, Owners, OutOwner
<1>6. QueuedIn => bdIn'[fw.pBDTEntryIn] = bdIn[fw.pBDTEntryIn]
  BY <1>1, <1>2 DEF Inv, Owners, InOwner
<1>7. pc' # "attach"
  BY <1>1 DEF Inv, Owners, Sections
<1>8. Quiet
  BY <1>1, <1>3, <1>4, <1>5, <1>6, <1>7
     DEF Quiet, SameTransferHost, SameData, SameBusy, SameTransfer
<1>9. Live => Live'
  BY <1>1 DEF Live
<1> QED
  BY <1>8, <1>9, StagesQuiet DEF Inv

\* With the SETUP packet a transfer's data or status stage begins, unless the
\* host has given it up or the bus has been reset meanwhile.
LEMMA SetupStages ==
  ASSUME Inv, Stages, CtrlTrfSetup \/ StdSetCfg
  PROVE  Stages'
<1> DEFINE r == Waiting(1)
<1>1. Types /\ Owners /\ SetupKnown
  BY AddressesNow DEF Inv
<1>2. /\ pc = "trn" /\ pc' = "arm" /\ sie.ustat # <<>> /\ IsSetup(1) /\ r \in Requests
      /\ host' = host /\ ram'.SetupPkt.of = r /\ ~sie'.pktdis /\ SameSignals(sie, sie')
      /\ ~Below(fw.USBDeviceState) => ~Below(fw'.USBDeviceState)
  <2>1. CASE CtrlTrfSetup
    BY <1>1, <2>1, SetupEffect DEF Below
  <2>2. CASE StdSetCfg
    BY <1>1, <2>2, StdSetCfgEffect DEF Below
  <2> QED
    BY <2>1, <2>2
<1>3. /\ IsRead(r) => ~fw'.outBusy
      /\ IsRead(r) /\ fw'.inBusy => /\ Claimed(r) /\ fw'.pSrc = Source(r, app')
                                    /\ fw'.off = 0 /\ fw'.inCount = SourceLength(r)
      /\ r.name = "SET_LINE_CODING" => ~fw'.inBusy /\ fw'.outBusy /\ fw'.outCount = r.len
      /\ Effective(r, app')
  <2>1. CASE CtrlTrfSetup
    BY <1>1, <2>1, SetupData
  <2>2. CASE StdSetCfg
    <3>1. r.name = "SET_CONFIGURATION" /\ ~IsRead(r)
      BY <1>1, <2>2, StdSetCfgEffect DEF IsRead, Reads
    <3>2. Effective(r, app')
      BY <1>1, <2>2, StdSetCfgData
    <3> QED
      BY <3>1, <3>2
  <2> QED
    BY <2>1, <2>2
<1>4. DOMAIN sie.ustat = {1} /\ sie.pktdis
  BY <1>1, <1>2, SetupAlone
<1>5. host.result # "ok" /\ (host.stage # "idle" => Opened /\ host.result = "none")
  BY <1>2, <1>4 DEF Stages, Courses, Opening, Engaged, Inv, Addresses, SetupWaits, Asked
<1>6. Courses'
  <2>1. Engaged' => Live'
    <3> SUFFICES ASSUME Engaged'
                 PROVE  Live'
      OBVIOUS
    <3>1. host.stage # "idle"
      BY <1>2, <1>5 DEF Engaged, Talking
    <3>2. ~sie.urstif
      BY <3>1 DEF Inv, HostWays
    <3> QED
      BY <1>1, <1>2, <3>2 DEF Live, SameSignals, Owners, Sections
  <2> QED
    BY <1>2, <1>5, <2>1 DEF Stages, Courses
<1>7. Opening'
  BY <1>2, <1>5 DEF Opening, Opened
<1>8. CASE ~Engaged'
  BY <1>6, <1>7, <1>8, StagesIdle
<1>9. CASE Engaged'
  <2>1. Live /\ host.stage # "idle" /\ Opened
    <3>1. host.stage # "idle"
      BY <1>2, <1>5, <1>9 DEF Engaged, Talking
    <3>2. ~sie.urstif
      BY <3>1 DEF Inv, HostWays
    <3> QED
      BY <1>1, <1>2, <1>5, <3>1, <3>2 DEF Live, Owners, Sections
  <2>2. r = host.req /\ host'.req = r
    BY <1>2, <1>4, <2>1 DEF Inv, Addresses, SetupWaits
  <2> HIDE DEF r
  <2>3. Prepared'
    BY <1>2, <1>3, <2>2 DEF Prepared, Asks
  <2>4. ReadStage' /\ LineCoding'
    BY <1>2 DEF ReadStage, LineCoding
  <2>5. ReadOver'
    BY <1>2, <1>3, <1>5, <2>1, <2>2 DEF ReadOver, Opened
  <2>6. Commanded'
    BY <1>3, <2>2 DEF Commanded
  <2> QED
    BY <1>6, <1>7, <2>3, <2>4, <2>5, <2>6 DEF Stages
<1> QED
  BY <1>8, <1>9

\* The first descriptors of the data or status stage.
LEMMA ArmStages ==
  ASSUME Inv, Stages, CtrlEPServiceComplete
  PROVE  Stages'
<1>1. /\ pc = "arm" /\ pc' = "trn" /\ UNCHANGED <<bdOut, bdIn, sie, host, app>>
      /\ ArmWrite \/ ArmStall \/ ArmRead \/ ArmStatus
  BY DEF CtrlEPServiceComplete
<1>2. /\ sie.ustat = <<>> /\ ~sie.pktdis /\ ~Tx /\ ~Rx
      /\ \A c \in OutBDs : ~bdOut[c].own /\ ~QueuedOut(c)
      /\ ~QueuedIn /\ \A c \in InBDs : ~bdIn[c].own
      /\ ram.SetupPkt.of \in Requests /\ ~Below(fw.USBDeviceState)
      /\ fw.Next \in OutBDs /\ fw.pBDTEntryIn \in InBDs
  BY <1>1, ArmingFacts DEF Inv
<1>3. CASE ~Engaged
  <2>1. sie'.pktdis <=> sie.pktdis
    BY <1>1
  <2> QED
    BY <1>1, <1>3, <2>1, StagesWaiting
<1>4. CASE Engaged
  <2>1. Talking /\ host.result = "none" /\ Opened /\ Live
    BY <1>1, <1>4 DEF Stages, Courses, Opening, Engaged, Talking
  <2>2. Prepared /\ ReadOver /\ Commanded
    BY DEF Stages
  <2>3. /\ ram.SetupPkt.of = host.req /\ host.req \in Requests
        /\ IsRead(host.req) /\ fw.inBusy =>
             /\ Claimed(host.req) /\ fw.pSrc = Asks
             /\ fw.off = 0 /\ fw.inCount = SourceLength(host.req)
        /\ host.req.name = "SET_LINE_CODING" => ~fw.inBusy /\ fw.outBusy /\ fw.outCount = host.req.len
    BY <1>1, <1>2, <2>1, <2>2 DEF Prepared
  <2>4. IsRead(host.req) => ~fw.outBusy
    BY <1>4, <2>2 DEF ReadOver
  <2>5. /\ (Talking' <=> Talking) /\ (Engaged' <=> Engaged) /\ Asks' = Asks /\ Wanted' = Wanted
        /\ (Delivered' <=> Delivered) /\ (Reading' <=> Reading)
        /\ ~QueuedIn' /\ \A c \in OutBDs : ~QueuedOut(c)'
    BY <1>1, <1>2 DEF Talking, Engaged, Asks, Wanted, Delivered, Reading, QueuedIn, QueuedOut
  <2>6. Live'
    <3>1. fw'.USBDeviceState = fw.USBDeviceState
      BY <1>1, <1>2, ArmWriteEffect, ArmReadEffect, ArmStatusEffect, ArmStallEffect
         DEF Inv, SameDevice, SameFw
    <3> QED
      BY <1>1, <2>1, <3>1 DEF Live
  <2>7. Courses' /\ Opening' /\ Prepared'
    BY <1>1, <1>2, <2>1, <2>6 DEF Stages, Courses, Opening, Prepared, Talking
  <2>8. Commanded'
    BY <1>1, <1>4, <2>2 DEF Commanded
  <2>9. SameBusy(fw, fw')
    BY <1>1, <1>2, ArmWriteData, ArmReadData, ArmStatusData, ArmStallEffect
       DEF Inv, SameData, SameBusy
  <2>10. ReadOver'
    BY <1>1, <1>4, <2>2, <2>5, <2>9 DEF ReadOver, SameBusy
  <2>11. ReadStage'
    <3> SUFFICES ASSUME Talking', Reading'
                 PROVE  /\ ~Rx' /\ \A b \in OutBDs : ~QueuedOut(b)'
                        /\ IF Tx' THEN Supply' ELSE ~QueuedIn' /\ \A bd \in GivenIn' : bd.stall
      BY DEF ReadStage
    <3>1. IsRead(host.req)
      BY <2>5 DEF Reading
    <3>2. ~ArmWrite /\ ~ArmStatus
      BY <2>3, <2>4, <3>1, ArmWriteData, ArmStatusData DEF Inv
    <3>3. CASE ArmStall
      <4>1. fw' = fw /\ ArmedStall
        BY <3>3, ArmStallEffect DEF Inv
      <4>2. ~Tx' /\ ~Rx'
        BY <1>2, <4>1 DEF Tx, Rx
      <4>3. \A bd \in GivenIn' : bd = StallBD
        BY <1>1, <1>2, <4>1 DEF GivenIn, ArmedStall, Ent
      <4>4. StallBD.stall
        BY DEF StallBD, BD
      <4> QED
        BY <2>5, <4>2, <4>3, <4>4
    <3>4. CASE ArmRead
      <4>0. PICK all, n : all = MinOf(fw.inCount, host.req.len) /\ n = MinOf(Ep0Size, all)
        OBVIOUS
      <4>1. /\ fw.inBusy /\ all \in Nat /\ n \in Nat
            /\ fw'.pSrc = fw.pSrc /\ fw'.off = fw.off + n /\ fw'.inCount = all - n
            /\ ram'.CtrlTrfData = Packet(fw.pSrc, fw.off, n)
            /\ ArmedRead(n)
        BY <1>2, <2>3, <3>4, <4>0, ArmReadData DEF Inv
      <4>2. Tx' /\ ~Rx'
        BY <1>2, <3>4, ArmReadEffect DEF Inv, Tx, Rx
      <4>3. \A bd \in GivenIn' : bd = DataBD(1, n)
        BY <1>1, <1>2, <4>1 DEF GivenIn, ArmedRead, Ent
      <4>4. /\ Claimed(host.req) /\ fw.pSrc = Asks /\ fw.off = 0 /\ all = Wanted
        <5>1. fw.inCount = SourceLength(host.req) /\ Claimed(host.req) /\ fw.pSrc = Asks /\ fw.off = 0
          BY <2>3, <3>1, <4>1
        <5>2. SourceLength(host.req) \in Nat /\ host.req.len \in Nat
          BY <2>3, <5>1, RequestTypes DEF Inv, Types, IsFw
        <5> QED
          BY <4>0, <5>1, <5>2 DEF Wanted, MinOf
      <4>5. n <= Ep0Size /\ n <= all /\ (n < Ep0Size => n = all)
        BY <4>0, <4>1, Constants DEF MinOf
      <4>6. fw'.off = n /\ fw'.inCount = all - n /\ fw'.off + fw'.inCount = Wanted
        BY <4>1, <4>4
      <4>7. host'.got.len = 0 /\ host'.exact /\ host'.tog = 1 /\ host'.got.len \in Nat
        BY <1>1, <2>1 DEF Opened, Empty, Packet
      <4>8. DataBD(1, n).cnt = n /\ DataBD(1, n).dts = 1
        BY DEF DataBD, BD
      <4>9. ram'.CtrlTrfData.of = Asks' /\ ram'.CtrlTrfData.off = 0
        BY <2>5, <4>1, <4>4 DEF Packet
      <4>10. InFlight(DataBD(1, n))'
        <5> DEFINE d == DataBD(1, n)
        <5>1. /\ d.cnt <= fw'.off /\ d.cnt <= Ep0Size /\ (d.cnt < Ep0Size => fw'.inCount = 0)
              /\ fw'.off - d.cnt = 0 /\ d.dts = host'.tog
          BY <4>1, <4>5, <4>6, <4>7, <4>8
        <5> HIDE DEF d
        <5>2. ram'.CtrlTrfData.off = fw'.off - d.cnt /\ host'.got.len = fw'.off - d.cnt
          BY <4>7, <4>9, <5>1
        <5>3. InFlight(d)'
          BY <4>9, <5>1, <5>2 DEF InFlight
        <5> QED
          BY <5>3 DEF d
      <4>11. Supply'
        BY <1>1, <2>5, <4>1, <4>3, <4>4, <4>6, <4>7, <4>10 DEF Supply
      <4> QED
        BY <2>5, <4>2, <4>11
    <3> QED
      BY <1>1, <3>2, <3>3, <3>4
  <2>12. LineCoding'
    <3> SUFFICES ASSUME host'.req.name = "SET_LINE_CODING"
                 PROVE  Awaited'
      BY DEF LineCoding
    <3>1. ~fw.inBusy /\ fw.outBusy /\ fw.outCount = host.req.len /\ host'.req = host.req
      BY <1>1, <2>3
    <3>2. ArmWrite
      BY <1>1, <3>1, ArmStatusData, ArmReadData, <1>2 DEF Inv, ArmStall
    <3>3. SameData(fw, fw') /\ Rx' /\ ArmedWrite(8)
      BY <3>2, ArmWriteData, ArmWriteEffect DEF Inv, Rx
    <3>4. HasData(host.req) /\ host.stage = "data" /\ host.tog = 1
      <4>1. host.req.len \in 1 .. Ep0Size
        BY <1>1, <2>3, ControlAssumption
      <4>2. HasData(host.req)
        BY <4>1, Constants DEF HasData
      <4> QED
        BY <2>1, <4>2 DEF Opened, Talking
    <3>5. \A bd \in GivenOut' : bd = DataBD(1, 8)
      BY <1>1, <1>2, <3>3 DEF GivenOut, ArmedWrite, Ent
    <3>6. DataBD(1, 8).dtsen /\ DataBD(1, 8).dts = 1 /\ DataBD(1, 8).adr = "CtrlTrfData"
      BY DEF DataBD, BD
    <3> QED
      BY <1>1, <2>5, <3>1, <3>3, <3>4, <3>5, <3>6 DEF Awaited, SameData, SameBusy
  <2> QED
    BY <2>7, <2>8, <2>10, <2>11, <2>12 DEF Stages
<1> QED
  BY <1>3, <1>4

LEMMA SettingsSame ==
  ASSUME NEW a, NEW b, SameSettings(a, b), NEW r
  PROVE  /\ b.line = a.line => Source(r, b) = Source(r, a)
         /\ Effective(r, a) => Effective(r, b)
BY DEF SameSettings, Source, Effective

\* What all transactions of the transaction loop have in common: the host does
\* nothing, and of what it asks for only the line coding may change.
LEMMA StagesTransaction ==
  ASSUME Stages, Engaged, host' = host, sie'.pktdis <=> sie.pktdis, pc = "trn", pc' = "trn",
         Live => Live', SameSettings(app, app'), ~fw.outBusy => app'.line = app.line,
         fw'.outBusy => fw.outBusy
  PROVE  /\ Courses' /\ Opening' /\ Prepared' /\ ReadOver' /\ Commanded'
         /\ (Talking' <=> Talking) /\ (Reading' <=> Reading)
         /\ IsRead(host.req) => Asks' = Asks
<1>1. (Talking' <=> Talking) /\ (Engaged' <=> Engaged) /\ (Reading' <=> Reading)
  BY DEF Talking, Engaged, Reading
<1>2. IsRead(host.req) => Asks' = Asks /\ (Delivered' <=> Delivered) /\ ~fw'.outBusy
  <2> SUFFICES ASSUME IsRead(host.req)
               PROVE  Asks' = Asks /\ (Delivered' <=> Delivered) /\ ~fw'.outBusy
    OBVIOUS
  <2>1. ~fw.outBusy
    BY DEF Stages, ReadOver
  <2>2. Asks' = Asks
    BY <2>1, SettingsSame DEF Asks
  <2> QED
    BY <2>1, <2>2 DEF Delivered, Wanted
<1>3. Courses' /\ Opening' /\ Prepared'
  BY <1>1 DEF Stages, Courses, Opening, Opened, Prepared
<1>4. ReadOver'
  BY <1>1, <1>2 DEF Stages, ReadOver
<1>5. Commanded'
  BY <1>1, SettingsSame DEF Stages, Commanded
<1> QED
  BY <1>1, <1>2, <1>3, <1>4, <1>5

LEMMA RxStages ==
  ASSUME Inv, Stages, CtrlTrfRx
  PROVE  Stages'
<1> DEFINE b == sie.ustat[1].bd
           n == MinOf(bdOut[b].cnt, fw.outCount)
<1>1. /\ pc = "trn" /\ pc' = "trn" /\ sie.ustat[1].dir = "out" /\ b \in OutBDs
      /\ host' = host /\ ram' = ram /\ (sie'.pktdis <=> sie.pktdis) /\ SameSignals(sie, sie')
      /\ SameDevice(fw, fw') /\ Rx /\ QueuedOut(b)
  BY RxEffect DEF Inv, Received1, QueuedOut
<1>2. /\ SameSettings(app, app')
      /\ \/ /\ fw.outCount - n > 0
            /\ (fw'.outBusy <=> fw.outBusy) /\ app'.line = app.line
         \/ /\ fw.outCount - n = 0 /\ ~fw'.outBusy
            /\ ~fw.outBusy => app'.line = app.line
            /\ fw.outBusy /\ n # 0 => app'.line = ram.CtrlTrfData.of
  BY RxData DEF Inv
<1>3. CASE ~Engaged
  BY <1>1, <1>3, StagesWaiting
<1>4. CASE Engaged
  <2>1. Live => Live'
    BY <1>1 DEF Live, SameSignals, SameDevice
  <2>2. (~fw.outBusy => app'.line = app.line) /\ (fw'.outBusy => fw.outBusy)
    BY <1>2
  <2>3. /\ Courses' /\ Opening' /\ Prepared' /\ ReadOver' /\ Commanded'
        /\ (Talking' <=> Talking) /\ (Reading' <=> Reading)
    BY <1>1, <1>2, <1>4, <2>1, <2>2, StagesTransaction
  <2>4. ReadStage'
    BY <1>1, <2>3 DEF Stages, ReadStage
  <2>5. LineCoding'
    <3> SUFFICES ASSUME host.req.name = "SET_LINE_CODING", ~host.short
                 PROVE  LineSet'
      BY <1>1 DEF LineCoding
    <3>1. Fetched \/ LineSet
      BY <1>1, <1>4 DEF Stages, LineCoding, Awaited
    <3>2. CASE Fetched
      <4>1. /\ fw.outBusy /\ fw.outCount = host.req.len /\ bdOut[b].cnt = host.req.len
            /\ ram.CtrlTrfData.of = Payload(host.req)
        BY <3>2 DEF Fetched
      <4>2. host.req.len \in Nat /\ host.req.len # 0
        <5>1. host.req \in Requests
          BY ControlAssumption DEF Inv, Types, IsHost, NoRequest
        <5>2. host.req.len \in 1 .. Ep0Size
          BY <5>1, ControlAssumption
        <5> QED
          BY <5>2, Constants
      <4>3. n = host.req.len /\ fw.outCount - n = 0
        BY <4>1, <4>2 DEF MinOf
      <4>4. ~fw'.outBusy /\ app'.line = Payload(host.req)
        BY <1>2, <4>1, <4>2, <4>3
      <4> QED
        BY <1>1, <4>4 DEF LineSet
    <3>3. CASE LineSet
      BY <1>1, <2>2, <3>3 DEF LineSet
    <3> QED
      BY <3>1, <3>2, <3>3
  <2> QED
    BY <2>3, <2>4, <2>5 DEF Stages
<1> QED
  BY <1>3, <1>4

LEMMA OutStages ==
  ASSUME Inv, Stages, CtrlTrfOut
  PROVE  Stages'
<1> DEFINE b == sie.ustat[1].bd
<1>1. /\ pc = "trn" /\ pc' = "trn" /\ sie.ustat[1].dir = "out" /\ b \in OutBDs
      /\ host' = host /\ (sie'.pktdis <=> sie.pktdis) /\ SameSignals(sie, sie')
      /\ SameDevice(fw, fw') /\ ~Rx /\ QueuedOut(b)
  BY OutEffect DEF Inv, Received1, QueuedOut
<1>2. (fw'.outBusy <=> fw.outBusy) /\ app' = app
  BY OutData DEF Inv
<1>3. CASE ~Engaged
  BY <1>1, <1>3, StagesWaiting
<1>4. CASE Engaged
  <2>1. (Live => Live') /\ SameSettings(app, app')
    BY <1>1, <1>2 DEF Live, SameSignals, SameDevice, SameSettings
  <2>2. /\ Courses' /\ Opening' /\ Prepared' /\ ReadOver' /\ Commanded'
        /\ (Talking' <=> Talking) /\ (Reading' <=> Reading)
    BY <1>1, <1>2, <1>4, <2>1, StagesTransaction
  <2>3. ReadStage'
    BY <1>1, <2>2 DEF Stages, ReadStage
  <2>4. LineCoding'
    <3> SUFFICES ASSUME host.req.name = "SET_LINE_CODING", ~host.short
                 PROVE  LineSet'
      BY <1>1 DEF LineCoding
    <3>1. LineSet
      BY <1>1, <1>4 DEF Stages, LineCoding, Awaited, Fetched
    <3> QED
      BY <1>1, <1>2, <3>1 DEF LineSet
  <2> QED
    BY <2>2, <2>3, <2>4 DEF Stages
<1> QED
  BY <1>3, <1>4

\* The next packet is cut off where the last one ended, and the host, which has
\* the last one, waits for its toggle.
LEMMA InStages ==
  ASSUME Inv, Stages, CtrlTrfIn
  PROVE  Stages'
<1>1. fw.USBDeviceState = "ADR_PENDING_STATE" => IsSetAddress(ram.SetupPkt.of)
  BY DEF Inv, Addresses, PendingRam
<1>2. /\ pc = "trn" /\ pc' = "trn" /\ sie.ustat # <<>>
      /\ sie.ustat[1].dir = "in" /\ 1 \in DOMAIN sie.ustat /\ sie'.ustat = Tail(sie.ustat)
      /\ bdOut' = bdOut /\ host' = host /\ (sie'.pktdis <=> sie.pktdis) /\ SameSignals(sie, sie')
      /\ ~bdIn'[fw.pBDTEntryIn].own /\ \A c \in InBDs : c # fw.pBDTEntryIn => bdIn'[c] = bdIn[c]
      /\ fw'.USBDeviceState = IF fw.USBDeviceState = "ADR_PENDING_STATE" THEN "ADDRESS_STATE"
                                                                        ELSE fw.USBDeviceState
      /\ fw'.controlTransferState = IF Tx THEN "CTRL_TRF_TX" ELSE "WAIT_SETUP"
      /\ Types'
  BY <1>1, InEffect DEF Inv
<1>3. PICK n : n = MinOf(Ep0Size, fw.inCount)
  OBVIOUS
<1>4. /\ SameSettings(app, app') /\ (~fw.outBusy => app'.line = app.line)
      /\ IF Tx
         THEN /\ app' = app /\ SameBusy(fw, fw')
              /\ fw'.pSrc = fw.pSrc /\ fw'.off = fw.off + n /\ fw'.inCount = fw.inCount - n
              /\ ram'.CtrlTrfData = IF n = 0 THEN ram.CtrlTrfData ELSE Packet(fw.pSrc, fw.off, n)
              /\ \E x \in {StallBD, DataBD(1 - bdIn[fw.pBDTEntryIn].dts, n)} :
                   handover' = <<Ent("in", fw'.pBDTEntryIn, x)>>
         ELSE ~fw'.outBusy
  BY <1>1, <1>3, InData DEF Inv
<1>5. CASE ~Engaged
  BY <1>2, <1>5, StagesWaiting
<1>6. CASE Engaged
  <2>1. (Live => Live') /\ (fw'.outBusy => fw.outBusy)
    BY <1>2, <1>4 DEF Live, SameSignals, Below, SameBusy
  <2>2. /\ Courses' /\ Opening' /\ Prepared' /\ ReadOver' /\ Commanded'
        /\ (Talking' <=> Talking) /\ (Reading' <=> Reading)
        /\ IsRead(host.req) => Asks' = Asks
    BY <1>2, <1>4, <1>6, <2>1, StagesTransaction
  <2>3. QueuedIn /\ ~QueuedIn' /\ \A c \in OutBDs : QueuedOut(c)' <=> QueuedOut(c)
    BY <1>2, PopQueue DEF Inv, Owners
  <2>4. ReadStage'
    <3> SUFFICES ASSUME Talking', Reading'
                 PROVE  /\ ~Rx' /\ \A b \in OutBDs : ~QueuedOut(b)'
                        /\ IF Tx' THEN Supply' ELSE ~QueuedIn' /\ \A bd \in GivenIn' : bd.stall
      BY DEF ReadStage
    <3>1. Tx /\ Supply /\ ~Rx /\ \A b \in OutBDs : ~QueuedOut(b)
      BY <1>2, <2>2, <2>3 DEF Stages, ReadStage
    <3>2. Tx' /\ ~Rx'
      BY <1>2, <3>1 DEF Tx, Rx
    <3>3. PICK x \in {StallBD, DataBD(1 - bdIn[fw.pBDTEntryIn].dts, n)} :
            handover' = <<Ent("in", fw'.pBDTEntryIn, x)>>
      BY <1>4, <3>1
    <3>4. \A bd \in GivenIn' : bd = x
      <4>1. \A c \in InBDs : ~bdIn'[c].own
        BY <1>2, <2>3 DEF Inv, Owners, InOwner, ArmedIn
      <4> QED
        BY <3>3, <4>1 DEF GivenIn, Ent
    <3>5. /\ Claimed(host.req) /\ fw.pSrc = Asks /\ fw.off + fw.inCount = Wanted
          /\ host.exact /\ host.got.len \in Nat /\ (host.got.len > 0 => host.got.of = Asks)
          /\ HasData(host.req) =>
               host.tog # bdIn[fw.pBDTEntryIn].dts /\ host.got.len = fw.off
          /\ ~HasData(host.req) => host.got.len = 0
      BY <2>3, <3>1 DEF Supply
    <3>6. Asks' = Asks /\ Wanted' = Wanted
      BY <1>2, <2>2 DEF Reading, Wanted
    <3>7. fw.inCount \in Nat /\ fw.off \in Nat /\ Ep0Size \in Nat /\ n \in Nat
          /\ n <= fw.inCount /\ n <= Ep0Size /\ (n < Ep0Size => n = fw.inCount)
      BY <1>3, Constants DEF Inv, Types, IsFw, MinOf
    <3>8. /\ fw'.off = fw.off + n /\ fw'.inCount = fw.inCount - n /\ fw'.pSrc = fw.pSrc
          /\ fw'.off + fw'.inCount = Wanted
          /\ n <= fw'.off /\ (n < Ep0Size => fw'.inCount = 0) /\ fw'.off - n = fw.off
      BY <1>4, <3>1, <3>5, <3>7
    <3>9. x.stall \/ InFlight(x)'
      <4>1. CASE x = StallBD
        BY <4>1 DEF StallBD, BD
      <4>2. CASE x = DataBD(1 - bdIn[fw.pBDTEntryIn].dts, n)
        <5>1. x.cnt = n /\ x.dts = 1 - bdIn[fw.pBDTEntryIn].dts
          BY <4>2 DEF DataBD, BD
        <5>2. bdIn[fw.pBDTEntryIn].dts \in {0, 1} /\ host.tog \in {0, 1}
          BY DEF Inv, Types, IsFw, IsHost, RestOK, BDType
        <5>3. HasData(host.req) => host'.tog = x.dts /\ host'.got.len = fw'.off - x.cnt
          BY <1>2, <3>5, <3>8, <5>1, <5>2
        <5>4. x.cnt > 0 => ram'.CtrlTrfData.of = Asks' /\ ram'.CtrlTrfData.off = fw'.off - x.cnt
          BY <1>4, <3>1, <3>5, <3>6, <3>7, <3>8, <5>1 DEF Packet
        <5>5. x.cnt <= fw'.off /\ x.cnt <= Ep0Size /\ (x.cnt < Ep0Size => fw'.inCount = 0)
          BY <3>7, <3>8, <5>1
        <5> QED
          BY <1>2, <5>3, <5>4, <5>5 DEF InFlight
      <4> QED
        BY <4>1, <4>2
    <3>10. Supply'
      BY <1>2, <2>3, <3>4, <3>5, <3>6, <3>8, <3>9 DEF Supply
    <3> QED
      BY <2>3, <3>1, <3>2, <3>10
  <2>5. LineCoding'
    <3> SUFFICES ASSUME host.req.name = "SET_LINE_CODING", ~host.short
                 PROVE  LineSet'
      BY <1>2 DEF LineCoding
    <3>1. LineSet
      BY <1>2, <1>6, <2>3 DEF Stages, LineCoding, Awaited, Fetched
    <3> QED
      BY <1>2, <1>4, <2>1, <3>1 DEF LineSet
  <2> QED
    BY <2>2, <2>4, <2>5 DEF Stages
<1> QED
  BY <1>5, <1>6

LEMMA FinishData ==
  ASSUME Types, NEW result \in {"ok", "short", "stall", "gaveup"}
  PROVE  LET h == Finish(host, result) IN
         /\ h.stage = "idle" /\ h.result = result /\ h.req = host.req /\ h.short = host.short
         /\ h.got = host.got /\ h.exact = host.exact
BY DEF Finish, Types, IsHost

LEMMA CompletedData ==
  ASSUME Types
  PROVE  LET h == Completed(host) IN
         /\ h.stage = "idle" /\ h.result = IF host.short THEN "short" ELSE "ok"
         /\ h.req = host.req /\ h.short = host.short
         /\ h.got = host.got /\ h.exact = host.exact
<1> DEFINE h == Finish(host, IF host.short THEN "short" ELSE "ok")
           a == IF h.req.name = "SET_ADDRESS" THEN h.req.arg ELSE h.addr
<1>1. /\ h.stage = "idle" /\ h.result = IF host.short THEN "short" ELSE "ok"
      /\ h.req = host.req /\ h.short = host.short
      /\ h.got = host.got /\ h.exact = host.exact
  BY FinishData
<1>2. Completed(host) = [h EXCEPT !.addr = IF host.req.name = "SET_ADDRESS" THEN host.req.arg ELSE @]
  BY DEF Completed
<1> HIDE DEF h
<1> QED
  BY <1>1, <1>2

\* The host gives the transfer up, or is refused.
LEMMA StagesEnded ==
  ASSUME Types, Stages, NEW result \in {"stall", "gaveup"}, host' = Finish(host, result), pc' = pc
  PROVE  Stages'
<1>1. host'.stage = "idle" /\ host'.result = result
  BY FinishData
<1>2. ~Engaged' /\ Courses' /\ Opening'
  BY <1>1 DEF Engaged, Talking, Courses, Opening
<1> QED
  BY <1>2, StagesIdle

LEMMA ReceivedData ==
  ASSUME Types, host.stage \in {"data", "status"}, NEW p, NEW dts, host' = Received(p, dts)
  PROVE  /\ dts # host.tog => host' = host
         /\ dts = host.tog /\ host.stage = "status" => host' = Completed(host)
         /\ dts = host.tog /\ host.stage = "data" =>
              LET len == host.got.len + p.len
                  over == len >= host.req.len \/ p.len < Ep0Size IN
              /\ host'.req = host.req /\ host'.short = host.short /\ host'.result = host.result
              /\ host'.got.len = len
              /\ host'.got.of = IF p.len = 0 /\ host.got.len > 0 THEN host.got.of ELSE p.of
              /\ /\ host.exact
                 /\ p.len = 0 \/ (p.off = host.got.len /\ (host.got.len = 0 \/ p.of = host.got.of))
                 /\ len <= host.req.len
                 => host'.exact
              /\ host'.tog = IF over THEN 1 ELSE 1 - host.tog
              /\ host'.stage = IF over THEN "status" ELSE "data"
<1>1. CASE dts # host.tog
  BY <1>1 DEF Received
<1>2. CASE dts = host.tog /\ host.stage = "status"
  BY <1>2 DEF Received
<1>3. CASE dts = host.tog /\ host.stage = "data"
  <2> DEFINE got == Packet(IF p.len = 0 /\ host.got.len > 0 THEN host.got.of ELSE p.of,
                           0, host.got.len + p.len)
             over == got.len >= host.req.len \/ p.len < Ep0Size
             exact == /\ host.exact
                      /\ (p.len = 0 \/ /\ p.off = host.got.len
                                       /\ host.got.len = 0 \/ p.of = host.got.of)
                      /\ got.len <= host.req.len
  <2>1. host' = [host EXCEPT !.got = got, !.exact = exact,
                             !.tog = IF over THEN 1 ELSE 1 - host.tog,
                             !.stage = IF over THEN "status" ELSE "data"]
    BY <1>3, Zenon DEF Received
  <2>2. /\ got.len = host.got.len + p.len
        /\ got.of = IF p.len = 0 /\ host.got.len > 0 THEN host.got.of ELSE p.of
    BY DEF Packet
  <2> HIDE DEF got, exact, over
  <2>3. /\ host'.req = host.req /\ host'.short = host.short /\ host'.result = host.result
        /\ host'.got = got /\ host'.exact = exact
        /\ host'.tog = IF over THEN 1 ELSE 1 - host.tog
        /\ host'.stage = IF over THEN "status" ELSE "data"
    BY <2>1 DEF Types, IsHost
  <2>4. over <=> (host.got.len + p.len >= host.req.len \/ p.len < Ep0Size)
    BY <2>2 DEF over
  <2>5. /\ host.exact
        /\ p.len = 0 \/ (p.off = host.got.len /\ (host.got.len = 0 \/ p.of = host.got.of))
        /\ host.got.len + p.len <= host.req.len
        => exact
    BY <2>2 DEF exact
  <2> QED
    BY <1>3, <2>2, <2>3, <2>4, <2>5
<1> QED
  BY <1>1, <1>2, <1>3

LEMMA WantedFacts ==
  ASSUME host.req \in Requests, Claimed(host.req), IsRead(host.req)
  PROVE  Wanted \in Nat /\ host.req.len \in Nat /\ Wanted <= host.req.len
<1>1. SourceLength(host.req) \in Nat
  BY ControlAssumption DEF SourceLength, Claimed
<1>2. host.req.len \in Nat
  BY RequestTypes
<1> QED
  BY <1>1, <1>2 DEF Wanted, MinOf

\* The SIE's side of an IN packet: bd is its descriptor, which goes to the
\* FIFO unless the acknowledgement is lost.
InPacket(bd) ==
  /\ bd = bdIn[fw.pBDTEntryIn] /\ bd.own /\ ~bd.stall /\ ~QueuedIn /\ ~HandingIn
  /\ host' = Received(Packet(ram.CtrlTrfData.of, ram.CtrlTrfData.off, bd.cnt), bd.dts)
  /\ bd \in GivenIn /\ GivenIn' \subseteq {bd}
  /\ bdIn'[fw.pBDTEntryIn].dts = bd.dts
  /\ \A c \in OutBDs : QueuedOut(c)' <=> QueuedOut(c)
  /\ sie.ustat # <<>> => sie'.ustat # <<>> /\ sie'.ustat[1] = sie.ustat[1]
  /\ (sie'.pktdis <=> sie.pktdis) /\ (sie'.urstif <=> sie.urstif)
  /\ UNCHANGED <<bdOut, ram>>

LEMMA InTokenData ==
  ASSUME Inv, Stages, InToken, UNCHANGED fwVars
  PROVE  /\ InStage /\ Talking /\ Engaged /\ Live /\ pc \notin {"attach", "arm"}
         /\ \/ Refused
            \/ \E bd \in BDType : InPacket(bd)
<1> DEFINE b == sie.in
           p == Packet(ram.CtrlTrfData.of, ram.CtrlTrfData.off, bdIn[b].cnt)
<1>1. /\ InStage /\ Listening /\ bdIn[b].own /\ b \in InBDs /\ UNCHANGED <<bdOut, ram>>
      /\ UNCHANGED <<fw, pc, handover>>
      /\ \/ UNCHANGED bdIn /\ SameSie
         \/ /\ ~bdIn'[b].own /\ \A c \in InBDs : c # b => bdIn'[c] = bdIn[c]
            /\ sie'.ustat = Append(sie.ustat, [dir |-> "in", bd |-> b]) /\ [dir |-> "in", bd |-> b] \in Queue
            /\ sie'.out = sie.out /\ (sie'.pktdis <=> sie.pktdis) /\ SameSignals(sie, sie')
  BY InTokenEffect DEF Inv, fwVars
<1>2. Talking /\ Engaged /\ Live
  BY <1>1 DEF InStage, Listening, Talking, Engaged, Stages, Courses
<1>3. ArmedIn /\ pc # "arm" /\ ~QueuedIn /\ ~HandingIn /\ b = fw.pBDTEntryIn
  BY <1>1 DEF ArmedIn, Inv, Owners, Arming, InOwner
<1>4. pc # "attach"
  BY <1>1 DEF InStage, Stages, Courses
<1>5. CASE bdIn[b].stall
  BY <1>1, <1>2, <1>3, <1>4, <1>5 DEF InToken
<1>6. CASE ~bdIn[b].stall
  <2>1. /\ host' = Received(p, bdIn[b].dts)
        /\ \/ bdIn' = [bdIn EXCEPT ![b].own = FALSE, ![b].dtsen = FALSE, ![b].pid = "IN"]
           \/ UNCHANGED bdIn
    BY <1>6 DEF InToken
  <2>2. bdIn \in [InBDs -> BDType] /\ bdIn[b] \in BDType
    BY <1>1 DEF Inv, Types, RestOK
  <2>3. bdIn'[b].dts = bdIn[b].dts
    BY <1>1, <2>1, <2>2 DEF BDType
  <2>4. DOMAIN handover' = DOMAIN handover /\ handover' = handover
    BY <1>1
  <2>5. /\ bdIn[b] \in GivenIn
        /\ \A c \in InBDs : bdIn'[c].own => c = b /\ bdIn'[b] = bdIn[b]
    BY <1>1, <1>3 DEF GivenIn, Inv, Owners, InOwner
  <2>6. GivenIn' \subseteq {bdIn[b]}
    BY <1>1, <1>3, <2>4, <2>5 DEF GivenIn, HandingIn
  <2>7. /\ \A c \in OutBDs : QueuedOut(c)' <=> QueuedOut(c)
        /\ sie.ustat # <<>> => sie'.ustat # <<>> /\ sie'.ustat[1] = sie.ustat[1]
        /\ (sie'.pktdis <=> sie.pktdis) /\ (sie'.urstif <=> sie.urstif)
    <3>1. CASE SameSie
      BY <3>1 DEF SameSie, SameQueue, QueuedOut
    <3>2. CASE /\ sie'.ustat = Append(sie.ustat, [dir |-> "in", bd |-> b])
               /\ [dir |-> "in", bd |-> b] \in Queue
               /\ (sie'.pktdis <=> sie.pktdis) /\ SameSignals(sie, sie')
      <4>1. /\ \A c \in OutBDs : QueuedOut(c)' <=> QueuedOut(c)
            /\ sie'.ustat # <<>> /\ \A k \in DOMAIN sie.ustat : sie'.ustat[k] = sie.ustat[k]
        BY <1>3, <3>2, PushQueue DEF Inv, Owners
      <4>2. sie.ustat # <<>> => 1 \in DOMAIN sie.ustat
        BY DEF Inv, Types, IsSie
      <4> QED
        BY <3>2, <4>1, <4>2 DEF SameSignals
    <3> QED
      BY <1>1, <3>1, <3>2
  <2> HIDE DEF b
  <2>8. InPacket(bdIn[b])
    BY <1>1, <1>3, <1>6, <2>1, <2>3, <2>5, <2>6, <2>7 DEF InPacket, b
  <2> QED
    BY <1>1, <1>2, <1>3, <1>4, <2>2, <2>8
<1> QED
  BY <1>5, <1>6

\* The host has a packet of a control read, or the end of a control write:
\* the packet in flight is the one it waits for, or one it has already.
LEMMA InTokenStages ==
  ASSUME Inv, Stages, InToken, UNCHANGED fwVars
  PROVE  Stages'
<1>1. InStage /\ Talking /\ Engaged /\ Live /\ pc \notin {"attach", "arm"} /\ pc' = pc
      /\ host.stage \in {"data", "status"} /\ host.req \in Requests
  BY InTokenData DEF Talking, fwVars, Inv, HostWays
<1>2. CASE Refused
  BY <1>1, <1>2, StagesEnded DEF Refused, Inv
<1>3. CASE \E bd \in BDType : InPacket(bd)
  <2>1. PICK bd \in BDType : InPacket(bd)
    BY <1>3
  <2>2. UNCHANGED <<fw, app, pc, handover, bdOut, ram>> /\ (Live' <=> Live) /\ (Tx' <=> Tx) /\ (Rx' <=> Rx)
    BY <2>1 DEF fwVars, InPacket, Live, Tx, Rx
  <2> DEFINE p == Packet(ram.CtrlTrfData.of, ram.CtrlTrfData.off, bd.cnt)
             len == host.got.len + bd.cnt
             over == len >= host.req.len \/ bd.cnt < Ep0Size
             Again == bd.dts # host.tog /\ host' = host
             Ended == host.stage = "status" /\ host' = Completed(host)
             Taken ==
               /\ bd.dts = host.tog /\ host.stage = "data"
               /\ host'.req = host.req /\ host'.short = host.short /\ host'.result = host.result
               /\ host'.got.len = len
               /\ host'.got.of = IF bd.cnt = 0 /\ host.got.len > 0 THEN host.got.of
                                 ELSE ram.CtrlTrfData.of
               /\ /\ host.exact
                  /\ bd.cnt = 0 \/ (ram.CtrlTrfData.off = host.got.len
                                    /\ (host.got.len = 0 \/ ram.CtrlTrfData.of = host.got.of))
                  /\ len <= host.req.len
                  => host'.exact
               /\ host'.tog = IF over THEN 1 ELSE 1 - host.tog
               /\ host'.stage = IF over THEN "status" ELSE "data"
  <2>3. Again \/ Ended \/ Taken
    <3>1. p.of = ram.CtrlTrfData.of /\ p.off = ram.CtrlTrfData.off /\ p.len = bd.cnt
      BY DEF Packet
    <3>2. host' = Received(p, bd.dts)
      BY <2>1 DEF InPacket
    <3> HIDE DEF p
    <3> QED
      BY <1>1, <3>1, <3>2, ReceivedData DEF Inv
  <2>4. Ended => /\ host'.stage = "idle" /\ (host'.result = "ok" => ~host.short)
                 /\ host'.req = host.req /\ host'.short = host.short
                 /\ host'.got = host.got /\ host'.exact = host.exact
    BY CompletedData DEF Inv
  <2> HIDE DEF over
  <2>5. host.result = "none"
    BY <1>1 DEF Stages, Courses
  <2>6. host'.req = host.req /\ host'.short = host.short
    BY <2>3, <2>4
  <2>7. Courses'
    <3>1. Engaged' => Live'
      BY <1>1, <2>2
    <3>2. host'.stage # "idle" => host'.result = "none" /\ pc' # "attach"
      BY <1>1, <2>3, <2>4, <2>5
    <3>3. host'.stage = "data" => HasData(host'.req)
      BY <1>1, <2>3, <2>4, <2>6 DEF Stages, Courses
    <3>4. host'.result = "ok" => host'.stage = "idle" /\ ~host'.short /\ pc' # "arm"
      BY <1>1, <2>3, <2>4, <2>5, <2>6
    <3> QED
      BY <3>1, <3>2, <3>3, <3>4 DEF Courses
  <2>8. host'.stage # "setup" /\ ~sie'.pktdis
    BY <1>1, <2>1, <2>3, <2>4 DEF InPacket, Talking
  <2>9. Opening' /\ Prepared'
    BY <1>1, <2>8 DEF Opening, Prepared
  <2>10. Commanded'
    BY <1>1, <2>2, <2>6 DEF Stages, Commanded
  <2>11. ASSUME IsRead(host.req)
         PROVE  /\ ~Rx /\ Tx /\ Supply /\ InFlight(bd)
                /\ \A b \in OutBDs : ~QueuedOut(b)
                /\ Wanted \in Nat /\ host.req.len \in Nat /\ Wanted <= host.req.len
                /\ Asks' = Asks /\ Wanted' = Wanted
                /\ host.stage = "status" => ~HasData(host.req)
                /\ bd.cnt \in Nat /\ fw.off \in Nat /\ fw.inCount \in Nat /\ Ep0Size \in Nat
                /\ bd.dts \in {0, 1} /\ host.tog \in {0, 1}
    <3>1. Reading /\ (host.stage = "status" => ~HasData(host.req))
      BY <1>1, <2>11 DEF InStage, Reading
    <3>2. ~Rx /\ Tx /\ Supply /\ InFlight(bd) /\ \A b \in OutBDs : ~QueuedOut(b)
      BY <1>1, <2>1, <3>1 DEF Stages, ReadStage, InPacket, Supply
    <3>3. Wanted \in Nat /\ host.req.len \in Nat /\ Wanted <= host.req.len
      BY <1>1, <2>11, <3>2, WantedFacts DEF Supply
    <3>4. Asks' = Asks /\ Wanted' = Wanted
      BY <2>2, <2>6 DEF Asks, Wanted
    <3>5. bd.cnt \in Nat /\ bd.dts \in {0, 1}
      BY DEF BDType
    <3>6. fw.off \in Nat /\ fw.inCount \in Nat /\ Ep0Size \in Nat /\ host.tog \in {0, 1}
      BY Constants DEF Inv, Types, IsFw, IsHost
    <3> QED
      BY <3>1, <3>2, <3>3, <3>4, <3>5, <3>6
  <2>12. ASSUME IsRead(host.req), Taken
         PROVE  /\ host'.exact /\ host'.got.len = fw.off /\ fw.off <= Wanted
                /\ host'.got.len > 0 => host'.got.of = Asks
                /\ over => fw.off = Wanted
    <3>1. HasData(host.req) /\ host.got.len = fw.off - bd.cnt /\ bd.cnt <= fw.off
      BY <2>11, <2>12 DEF Stages, Courses, InFlight
    <3>2. host'.got.len = fw.off /\ fw.off <= Wanted /\ fw.off <= host.req.len /\ host.got.len \in Nat
      BY <2>11, <2>12, <3>1 DEF Supply
    <3>3. host.got.len > 0 => host.got.of = Asks
      BY <2>11, <2>12 DEF Supply
    <3>4. bd.cnt > 0 => ram.CtrlTrfData.of = Asks /\ ram.CtrlTrfData.off = host.got.len
      BY <2>11, <2>12, <3>1 DEF InFlight
    <3>5. host'.exact
      BY <2>11, <2>12, <3>1, <3>2, <3>3, <3>4 DEF Supply
    <3>6. host'.got.len > 0 => host'.got.of = Asks
      BY <2>11, <2>12, <3>2, <3>3, <3>4
    <3>7. fw.off + fw.inCount = Wanted /\ (bd.cnt < Ep0Size => fw.inCount = 0) /\ len = fw.off
      BY <2>11, <2>12, <3>1 DEF Supply, InFlight
    <3>8. over => fw.off = Wanted
      <4> HIDE DEF len
      <4> QED
        BY <2>11, <2>12, <3>2, <3>7 DEF over
    <3> QED
      BY <3>2, <3>5, <3>6, <3>8
  <2>13. ReadStage'
    <3> SUFFICES ASSUME Talking', Reading'
                 PROVE  /\ ~Rx' /\ \A b \in OutBDs : ~QueuedOut(b)'
                        /\ Tx' /\ Supply'
      BY DEF ReadStage
    <3>1. IsRead(host.req)
      BY <2>6 DEF Reading
    <3>2. ~Rx' /\ Tx' /\ \A b \in OutBDs : ~QueuedOut(b)'
      BY <2>1, <2>2, <2>11, <3>1 DEF InPacket
    <3>3. ~Ended
      BY <2>4 DEF Talking
    <3>4. Taken => ~over /\ HasData(host.req) /\ bd.dts # host'.tog
      BY <2>6, <2>11, <3>1 DEF Reading, Stages, Courses
    <3>5. HasData(host.req) => host'.got.len = fw.off /\ bd.dts # host'.tog
      BY <2>3, <2>11, <2>12, <3>1, <3>3, <3>4 DEF InFlight
    <3>6. /\ host'.exact /\ host'.got.len \in Nat
          /\ host'.got.len > 0 => host'.got.of = Asks
          /\ ~HasData(host.req) => host'.got.len = 0
      BY <2>3, <2>11, <2>12, <3>1, <3>3, <3>4 DEF Supply
    <3>7. InFlight(bd)'
      BY <2>2, <2>6, <2>11, <3>1, <3>5 DEF InFlight
    <3>8. \A x \in GivenIn' : x = bd
      BY <2>1 DEF InPacket
    <3>9. bdIn'[fw'.pBDTEntryIn].dts = bd.dts
      BY <2>1, <2>2 DEF InPacket
    <3>10. /\ Claimed(host'.req) /\ fw'.pSrc = Asks' /\ fw'.off + fw'.inCount = Wanted'
      BY <2>2, <2>6, <2>11, <3>1 DEF Supply
    <3>11. Supply'
      BY <2>2, <2>6, <2>11, <3>1, <3>5, <3>6, <3>7, <3>8, <3>9, <3>10 DEF Supply
    <3> QED
      BY <3>2, <3>11
  <2>14. ReadOver'
    <3> SUFFICES ASSUME IsRead(host.req)
                 PROVE  /\ ~fw.outBusy
                        /\ host'.result = "ok" \/ (host'.stage = "status" /\ HasData(host.req))
                           => Delivered'
      BY <2>2, <2>6 DEF ReadOver
    <3>1. ~fw.outBusy
      BY <1>1 DEF Stages, ReadOver
    <3>2. CASE Again
      BY <2>5, <2>11, <3>1, <3>2
    <3>3. CASE Ended
      <4>1. ~HasData(host.req) /\ host.got.len = 0 /\ host.exact
        BY <2>11, <3>3 DEF Supply
      <4>2. Wanted = 0
        BY <2>11, <4>1 DEF HasData
      <4>3. Wanted' = 0 /\ host'.got.len = 0 /\ host'.exact
        BY <2>4, <2>11, <3>3, <4>1, <4>2
      <4> QED
        BY <3>1, <4>3 DEF Delivered
    <3>4. CASE Taken
      <4>1. host'.result = "ok" \/ (host'.stage = "status" /\ HasData(host.req)) => over
        BY <2>5, <3>4
      <4> QED
        BY <2>11, <2>12, <3>1, <3>4, <4>1 DEF Delivered
    <3> QED
      BY <2>3, <3>2, <3>3, <3>4
  <2>15. LineCoding'
    <3> SUFFICES ASSUME host.req.name = "SET_LINE_CODING", ~host.short
                 PROVE  Fetched' \/ LineSet'
      BY <2>6 DEF LineCoding
    <3>1. ~IsRead(host.req)
      BY DEF IsRead, Reads
    <3>2. Fetched \/ LineSet
      BY <1>1, <3>1 DEF Stages, LineCoding, Awaited, InStage
    <3>3. CASE Fetched
      <4>1. sie'.ustat # <<>> /\ sie'.ustat[1] = sie.ustat[1]
        BY <2>1, <3>3 DEF InPacket, Fetched
      <4>2. Fetched'
        BY <2>2, <2>6, <3>3, <4>1 DEF Fetched
      <4> QED
        BY <4>2
    <3>4. CASE LineSet
      BY <2>2, <2>6, <3>4 DEF LineSet
    <3> QED
      BY <3>2, <3>3, <3>4
  <2> QED
    BY <2>7, <2>9, <2>10, <2>13, <2>14, <2>15 DEF Stages
<1> QED
  BY <1>2, <1>3, InTokenData

LEMMA QueueEmpty ==
  ASSUME Types, ~QueuedIn, \A b \in OutBDs : ~QueuedOut(b)
  PROVE  sie.ustat = <<>>
<1>1. \A k \in DOMAIN sie.ustat : sie.ustat[k] \in Queue
  BY SeqFacts DEF Types, IsSie
<1>2. DOMAIN sie.ustat = {}
  BY <1>1 DEF Queue, QueuedIn, QueuedOut
<1>3. sie.ustat \in Seq(Queue) /\ Len(sie.ustat) \in Nat /\ DOMAIN sie.ustat = 1 .. Len(sie.ustat)
  BY SeqFacts DEF Types, IsSie
<1>4. Len(sie.ustat) = 0
  <2>1. ~(1 \in DOMAIN sie.ustat)
    BY <1>2
  <2>2. ~(1 \in 1 .. Len(sie.ustat))
    BY <1>3, <2>1, Zenon
  <2> QED
    BY <1>3, <2>2
<1> QED
  BY <1>4, SeqFacts DEF Types, IsSie

\* The SIE's and the host's side of an OUT packet that is not refused.
LEMMA OutTokenData ==
  ASSUME Inv, Stages, OutToken, ~Refused
  PROVE  LET b == sie.out IN
         /\ OutStage /\ b \in OutBDs /\ bdOut[b].own /\ Listening
         /\ \/ host' = host
            \/ host.stage = "status" /\ host' = Completed(host)
            \/ host.stage = "data" /\ host' = [host EXCEPT !.stage = "status", !.tog = 1]
         /\ \/ UNCHANGED <<bdOut, bdIn, sie, ram>> /\ bdOut[b].dtsen /\ bdOut[b].dts # host.tog
            \/ SieOut("OUT", Packet(Payload(host.req), 0,
                                    IF host.stage = "status" \/ host.short THEN 0 ELSE host.req.len))
<1>1. OutStage /\ sie.out \in OutBDs /\ bdOut[sie.out].own /\ Listening
  BY DEF OutToken, Inv, Types, IsSie
<1>2. host.stage \in {"data", "status"}
  BY <1>1 DEF OutStage
<1> QED
  BY <1>1, <1>2 DEF OutToken, Acked

LEMMA OutTokenStages ==
  ASSUME Inv, Stages, OutToken, UNCHANGED fwVars
  PROVE  Stages'
<1> DEFINE b == sie.out
           len == IF host.stage = "status" \/ host.short THEN 0 ELSE host.req.len
           packet == Packet(Payload(host.req), 0, len)
<1>1. UNCHANGED <<fw, app, pc, handover>>
  BY DEF fwVars
<1>2. CASE Refused
  BY <1>1, <1>2, StagesEnded DEF Refused, Inv
<1>3. CASE ~Refused
  <2>1. /\ OutStage /\ b \in OutBDs /\ bdOut[b].own /\ Listening
        /\ \/ host' = host
           \/ host.stage = "status" /\ host' = Completed(host)
           \/ host.stage = "data" /\ host' = [host EXCEPT !.stage = "status", !.tog = 1]
        /\ \/ UNCHANGED <<bdOut, bdIn, sie, ram>> /\ bdOut[b].dtsen /\ bdOut[b].dts # host.tog
           \/ SieOut("OUT", packet)
    BY <1>3, OutTokenData
  <2>2. /\ Talking /\ Engaged /\ Live /\ pc \notin {"attach", "arm"} /\ host.result = "none"
        /\ host.req \in Requests /\ host.stage \in {"data", "status"}
    BY <2>1 DEF OutStage, Listening, Talking, Engaged, Stages, Courses, Inv, HostWays, Owners, Arming
  <2>3. packet.of = Payload(host.req) /\ packet.len = len /\ len \in Nat
    BY <2>2, RequestTypes DEF Packet
  <2> HIDE DEF packet
  <2>4. ~sie'.pktdis /\ (sie'.urstif <=> sie.urstif)
    BY <2>1, <2>2, <2>3, SieOutEffect DEF Talking, Inv, Listening, SameSignals
  <2>5. /\ host'.req = host.req /\ host'.short = host.short
        /\ host'.got = host.got /\ host'.exact = host.exact
        /\ \/ host'.stage = host.stage /\ host'.result = "none"
           \/ host.stage = "status" /\ host'.stage = "idle" /\ (host'.result = "ok" => ~host.short)
           \/ host.stage = "data" /\ host'.stage = "status" /\ host'.result = "none"
    <3>1. CASE host' = Completed(host) /\ host.stage = "status"
      BY <3>1, CompletedData DEF Inv
    <3>2. CASE host' = [host EXCEPT !.stage = "status", !.tog = 1] /\ host.stage = "data"
      BY <2>2, <3>2 DEF Inv, Types, IsHost
    <3> QED
      BY <2>1, <2>2, <3>1, <3>2
  <2>6. Courses'
    BY <1>1, <2>2, <2>4, <2>5 DEF Stages, Courses, Engaged, Live
  <2>7. Opening' /\ Prepared' /\ Commanded'
    BY <1>1, <2>2, <2>4, <2>5 DEF Opening, Prepared, Stages, Commanded
  <2>8. IsRead(host.req) => HasData(host.req) /\ host.stage = "status"
    BY <2>1 DEF OutStage
  <2>9. ReadStage'
    BY <2>5, <2>8 DEF ReadStage, Reading
  <2>10. ReadOver'
    <3> SUFFICES ASSUME IsRead(host.req)
                 PROVE  ~fw.outBusy /\ Delivered'
      BY <1>1, <2>5 DEF ReadOver
    <3>1. ~fw.outBusy /\ Delivered
      BY <2>2, <2>8 DEF Stages, ReadOver
    <3>2. Wanted' = Wanted /\ Asks' = Asks
      BY <1>1, <2>5 DEF Wanted, Asks
    <3> QED
      BY <2>5, <3>1, <3>2 DEF Delivered
  <2>11. LineCoding'
    <3> SUFFICES ASSUME host.req.name = "SET_LINE_CODING", ~host.short
                 PROVE  Fetched' \/ LineSet'
      BY <2>5 DEF LineCoding
    <3>1. host.stage = "data" /\ len = host.req.len /\ len # 0
      <4>1. ~IsRead(host.req)
        BY DEF IsRead, Reads
      <4>2. host.stage = "data"
        BY <2>1, <4>1 DEF OutStage
      <4>3. HasData(host.req)
        BY <4>2 DEF Stages, Courses
      <4> QED
        BY <2>3, <4>2, <4>3 DEF HasData
    <3>2. Awaited \/ Fetched \/ LineSet
      BY <2>2 DEF Stages, LineCoding
    <3>3. CASE Awaited
      <4>1. bdOut[b] \in GivenOut
        BY <2>1 DEF GivenOut
      <4>2. bdOut[b].dts = host.tog /\ bdOut[b].adr = "CtrlTrfData" /\ sie.ustat = <<>>
        BY <3>3, <4>1, QueueEmpty DEF Awaited, Inv
      <4>3. SieOut("OUT", packet)
        BY <2>1, <4>2
      <4>4. /\ bdOut'[b].pid = "OUT" /\ ram'.CtrlTrfData = packet
            /\ sie'.ustat = Append(sie.ustat, [dir |-> "out", bd |-> b])
        BY <2>1, <2>3, <3>1, <4>2, <4>3, SieOutEffect DEF Inv, Listening
      <4>5. bdOut'[b].cnt = host.req.len
        <5>1. bdOut' = [bdOut EXCEPT ![b].own = FALSE, ![b].dtsen = FALSE,
                                     ![b].stall = FALSE, ![b].pid = "OUT", ![b].cnt = packet.len]
          BY <4>3 DEF SieOut
        <5>2. bdOut \in [OutBDs -> BDType]
          BY DEF Inv, Types, RestOK
        <5>3. packet.len = host.req.len
          BY <2>3, <3>1
        <5> HIDE DEF b
        <5> QED
          BY <2>1, <5>1, <5>2, <5>3 DEF BDType
      <4>6. sie'.ustat # <<>> /\ sie'.ustat[1] = [dir |-> "out", bd |-> b]
        BY <4>2, <4>4
      <4>7. Fetched'
        BY <1>1, <2>3, <2>5, <3>3, <4>4, <4>5, <4>6 DEF Awaited, Fetched, Rx
      <4> QED
        BY <4>7
    <3>4. CASE Fetched
      <4>1. sie.ustat[1].bd \in OutBDs /\ QueuedOut(sie.ustat[1].bd) /\ ~Tx
        BY <3>4, SeqFacts DEF Fetched, QueuedOut, Inv, Types, IsSie, Queue, Rx, Tx
      <4>2. BusyOut(b) /\ BusyOut(sie.ustat[1].bd) /\ b # sie.ustat[1].bd
        BY <2>1, <4>1 DEF BusyOut, Inv, Owners, OutOwner
      <4> QED
        BY <2>1, <4>1, <4>2 DEF Inv, Owners, OutOwner, OutBDs
    <3>5. CASE LineSet
      BY <1>1, <2>5, <3>5 DEF LineSet
    <3> QED
      BY <3>2, <3>3, <3>4, <3>5
  <2> QED
    BY <2>6, <2>7, <2>9, <2>10, <2>11 DEF Stages
<1> QED
  BY <1>2, <1>3

LEMMA SetupTokenStages ==
  ASSUME Inv, Stages, SetupToken, UNCHANGED fwVars
  PROVE  Stages'
<1>1. /\ Listening /\ Len(sie.ustat) < 4 /\ SieOut("SETUP", Packet(host'.req, 0, 8))
      /\ Packet(host'.req, 0, 8).len \in Nat
  BY SetupTokenEffect DEF Inv, Packet
<1>2. sie'.pktdis
  BY <1>1, SieOutEffect DEF Inv
<1>3. /\ Opened' /\ host'.result = "none" /\ host'.stage \in {"setup", "data", "status"}
      /\ host'.stage = "data" => HasData(host'.req)
  BY SetupTokenData DEF Inv, Stages
<1>4. pc' # "attach"
  BY <1>1 DEF Listening, Inv, Idling, fwVars
<1>5. ~Engaged'
  BY <1>2, <1>3 DEF Engaged, Talking
<1>6. Courses' /\ Opening'
  BY <1>3, <1>4, <1>5 DEF Courses, Opening
<1> QED
  BY <1>5, <1>6, StagesIdle

LEMMA BusResetStages ==
  ASSUME BusReset(Unanswered)
  PROVE  Stages'
<1>1. host' = [HostInit EXCEPT !.se0 = TRUE]
  BY DEF BusReset
<1>2. host'.stage = "idle" /\ host'.result = "none"
  BY <1>1 DEF HostInit
<1>3. ~Engaged'
  BY <1>2 DEF Engaged, Talking
<1>4. Courses' /\ Opening'
  BY <1>2, <1>3 DEF Courses, Opening
<1> QED
  BY <1>3, <1>4, StagesIdle

\* The bus's other steps, and none at all.
LEMMA BusQuiet ==
  ASSUME Inv, Stages, UNCHANGED fwVars,
         EndReset \/ Sleep \/ Resume \/ UNCHANGED busVars
  PROVE  Stages'
<1>1. UNCHANGED <<fw, app, pc, handover>>
  BY DEF fwVars
<1>2. UNCHANGED <<bdOut, bdIn, ram>>
  BY DEF EndReset, Sleep, Resume, busVars
<1>3. SameTransferHost
  <2>1. \/ host' = host \/ host' = [host EXCEPT !.se0 = FALSE]
        \/ host' = [host EXCEPT !.asleep = TRUE] \/ host' = [host EXCEPT !.asleep = FALSE]
    BY DEF EndReset, Sleep, Resume, busVars
  <2> QED
    BY <2>1 DEF Inv, Types, IsHost, SameTransferHost
<1>4. (sie'.pktdis <=> sie.pktdis) /\ sie'.ustat = sie.ustat /\ (sie'.urstif <=> sie.urstif)
  <2>1. \/ sie' = sie \/ sie' = [sie EXCEPT !.idleif = TRUE] \/ sie' = [sie EXCEPT !.actvif = TRUE]
    BY DEF EndReset, Sleep, Resume, busVars
  <2> QED
    BY <2>1 DEF Inv, Types, IsSie
<1>5. GivenIn' \subseteq GivenIn /\ GivenOut' \subseteq GivenOut
  BY <1>1, <1>2, SameGiven
<1>6. Quiet
  BY <1>1, <1>2, <1>3, <1>4, <1>5 DEF Quiet, SameData, SameBusy, SameTransfer
<1>7. Live => Live'
  BY <1>1, <1>4 DEF Live
<1> QED
  BY <1>6, <1>7, StagesQuiet DEF Inv

LEMMA InitStages ==
  ASSUME Init
  PROVE  Stages
<1>1. host.stage = "idle" /\ host.result = "none"
  BY DEF Init, BusInit, HostInit
<1>2. ~Talking /\ ~Engaged
  BY <1>1 DEF Talking, Engaged
<1> QED
  BY <1>1, <1>2
     DEF Stages, Courses, Opening, Prepared, ReadStage, ReadOver, Commanded, LineCoding

LEMMA FirmwareStages ==
  ASSUME Inv, Stages, Firmware
  PROVE  Stages'
BY AttachStages, EnterStages, BusStages, SofStages, StallStages, LeaveStages, HandOverStages,
   SetupStages, ArmStages, RxStages, OutStages, InStages DEF Firmware

LEMMA HostStages ==
  ASSUME Inv, Stages, HostStep, UNCHANGED fwVars
  PROVE  Stages'
<1>1. CASE GiveUp
  <2>1. host' = Finish(host, "gaveup") /\ pc' = pc
    BY <1>1 DEF GiveUp, fwVars
  <2> QED
    BY <2>1, StagesEnded DEF Inv
<1> QED
  BY <1>1, SetupTokenStages, InTokenStages, OutTokenStages, BusResetStages, BusQuiet
     DEF HostStep, Token

\* What the host has got of a transfer and what the firmware has still to send
\* or to take make up the whole of it, from the SETUP packet to the end.
THEOREM StagesAlways == Spec => []Stages
<1>1. Init => Stages
  BY InitStages
<1>2. Inv /\ Stages /\ [Next]_vars => Stages'
  <2> SUFFICES ASSUME Inv, Stages, [Next]_vars
               PROVE  Stages'
    OBVIOUS
  <2>1. CASE UNCHANGED vars
    BY <2>1, BusQuiet DEF vars
  <2> QED
    BY <2>1, FirmwareStages, HostStages DEF Next
<1> QED
  BY <1>1, <1>2, InvAlways, PTL DEF Spec

\* A control read that the host takes to have ended well gave it the source it
\* asked for, whole up to the length it asked for, whatever packets were
\* repeated and whenever the status stage was let through.
THEOREM ReadsExact == Spec => []ReadsAreExact
<1>1. Stages => ReadsAreExact
  BY DEF Stages, ReadOver, Engaged, Delivered, Wanted, Asks, ReadsAreExact
<1> QED
  BY <1>1, StagesAlways, PTL

\* A command that the host takes to have ended well has had its effect, and a
\* line coding is in force, once the transactions the SIE has queued have
\* been serviced.
THEOREM WritesDone == Spec => []WritesAreDone
<1>1. Stages => WritesAreDone
  <2> SUFFICES ASSUME Stages, Serviced, host.result = "ok"
               PROVE  /\ Effective(host.req, app)
                      /\ host.req.name = "SET_LINE_CODING" => app.line = Payload(host.req)
    BY DEF WritesAreDone, Effective
  <2>1. Engaged /\ host.stage = "idle" /\ ~host.short /\ pc # "arm" /\ sie.ustat = <<>>
    BY DEF Stages, Courses, Engaged, Serviced
  <2>2. Effective(host.req, app)
    BY <2>1 DEF Stages, Commanded
  <2>3. ~Awaited /\ ~Fetched
    BY <2>1 DEF Awaited, Fetched
  <2> QED
    BY <2>1, <2>2, <2>3 DEF Stages, LineCoding, LineSet
<1> QED
  BY <1>1, StagesAlways, PTL
=============================================================================
