------------------------------ MODULE UsbPipe ------------------------------
(***************************************************************************)
(* The bulk endpoint of the CDC class, in both directions, one level below *)
(* CdcBridge: the CDC driver's getsUSBUSART, putUSBUSART and CDCTxService  *)
(* in the main loop, USBTransferOnePacket, and the requests that the USB   *)
(* interrupt serves in the middle of them (SET_CONFIGURATION, set and      *)
(* clear ENDPOINT_HALT, bus reset), against a host that numbers its        *)
(* packets with the data toggle and the SIE with its ping-pong buffers.    *)
(*                                                                         *)
(* A packet from the host is its number.  putUSBUSART and CDCTxService     *)
(* mask the USB interrupt and are one step each; getsUSBUSART does not,    *)
(* and is a step for each access to what the interrupt also writes.  The   *)
(* bridge always has room for a packet here (CdcBridge has the rest).      *)
(***************************************************************************)
EXTENDS Naturals, Sequences

CONSTANTS
  EpSize,        \* CDC_DATA_IN_EP_SIZE = CDC_DATA_OUT_EP_SIZE, in units
  Lengths,       \* of the transfers the application puts
  MaxOut,        \* bound: packets the host sends
  MaxIn,         \* bound: transfers the application puts
  MaxFaults,     \* bound: acknowledgements lost
  MaxRequests    \* bound: resets, configurations and halts after the first

ASSUME PipeAssumption ==
  /\ EpSize \in Nat \ {0} /\ Lengths \subseteq Nat \ {0}
  /\ {MaxOut, MaxIn, MaxFaults, MaxRequests} \subseteq Nat

VARIABLES
  bd,           \* the four descriptors of the endpoint
  sie,          \* the descriptor the SIE uses next, each way; its USTAT FIFO
  fw,           \* pBDTEntryOut/In, ep_data, CDCDataOutHandle/InHandle, state
  cdc,          \* cdc_trf_state, cdc_tx_len, cdc_data_tx, cdc_data_rx
  pc, local,    \* the main loop, and handle in USBTransferOnePacket
  host,         \* data toggles, packets sent, halts, transfer coming in
  got, puts, toHost,          \* since the last configuration
  faults, requests,
  stale,        \* history: the buffer that getsUSBUSART waits for was taken
                \* back unfilled, and its bytes are still to be handed over
  upset         \* a request that makes a property its exception: fell into
                \* getsUSBUSART, disturbed what came out or went in

vars == <<bd, sie, fw, cdc, pc, local, host, got, puts, toHost, faults, requests,
          stale, upset>>
mainVars == <<pc, local>>
ghostVars == <<got, puts, toHost, stale, upset>>

Dirs == {"out", "in"}
Buffer == {0, 1}          \* even, odd
NULL == 2
Other(b) == IF b = NULL THEN NULL ELSE 1 - b

BD(own, dts, cnt) == [own |-> own, stall |-> FALSE, dts |-> dts, cnt |-> cnt]
Zero == [b \in Buffer |-> BD(FALSE, 0, 0)]
Both(x) == [d \in Dirs |-> x]

-----------------------------------------------------------------------------
(* The driver.  USBHandleBusy, and the parts of USBTransferOnePacket. *)

Busy(d) == fw.handle[d] # NULL /\ bd[d][fw.handle[d]].own

\* STAT keeps nothing but DTS, then UOWN is set.
Armed(d, b, cnt) == [bd EXCEPT ![d][b] = BD(TRUE, @.dts, cnt)]

\* The main loop checks the state at the top of a pass.
MainStart ==
  /\ pc = "main" /\ fw.configured
  /\ pc' = "gets"
  /\ UNCHANGED <<bd, sie, fw, cdc, local, host, ghostVars, faults, requests>>

\* getsUSBUSART: is there a packet?
Gets ==
  /\ pc = "gets"
  /\ pc' = IF Busy("out") THEN "put" ELSE "copy"
  /\ UNCHANGED <<bd, sie, fw, cdc, local, host, ghostVars, faults, requests>>

\* Its bytes, as many as the descriptor says, from cdc_data_rx.  If the buffer
\* was taken back they are those of an earlier packet, and no packet is got.
GetsCopy ==
  /\ pc = "copy"
  /\ got' = IF stale \/ bd.out[fw.handle.out].cnt = 0 THEN got ELSE Append(got, cdc.rx)
  /\ stale' = FALSE
  /\ pc' = "take"
  /\ UNCHANGED <<bd, sie, fw, cdc, local, host, puts, toHost, upset, faults, requests>>

\* handle = pBDTEntryOut[ep]; there is none before the first configuration.
GetsTake ==
  /\ pc = "take"
  /\ local' = fw.pBDT.out
  /\ pc' = IF fw.pBDT.out = NULL THEN "assign" ELSE "arm"
  /\ UNCHANGED <<bd, sie, fw, cdc, host, ghostVars, faults, requests>>

GetsArm ==
  /\ pc = "arm"
  /\ bd' = Armed("out", local, EpSize)
  /\ pc' = "advance"
  /\ UNCHANGED <<sie, fw, cdc, local, host, ghostVars, faults, requests>>

GetsAdvance ==
  /\ pc = "advance"
  /\ fw' = [fw EXCEPT !.pBDT.out = Other(@)]
  /\ pc' = "assign"
  /\ UNCHANGED <<bd, sie, cdc, local, host, ghostVars, faults, requests>>

GetsAssign ==
  /\ pc = "assign"
  /\ fw' = [fw EXCEPT !.handle.out = local]
  /\ pc' = "put" /\ local' = NULL
  /\ UNCHANGED <<bd, sie, cdc, host, ghostVars, faults, requests>>

\* putUSBUSART, if the driver is ready and there is something to send.
Put ==
  /\ pc = "put"
  /\ \/ /\ cdc.state = "READY" /\ Len(puts) < MaxIn
        /\ \E n \in Lengths : /\ cdc' = [cdc EXCEPT !.state = "BUSY", !.len = n, !.off = 0]
                              /\ puts' = Append(puts, n)
     \/ UNCHANGED <<cdc, puts>>
  /\ pc' = "service"
  /\ UNCHANGED <<bd, sie, fw, local, host, got, toHost, stale, upset, faults, requests>>

\* The next packet of the transfer, or the zero-length one that ends it.
Size == IF cdc.len > EpSize THEN EpSize ELSE cdc.len

\* Mutant: a transfer ends with its last byte.
StateAfterNoZlp ==
  IF cdc.state = "BUSY" /\ cdc.len > Size THEN "BUSY" ELSE "COMPLETING"

StateAfter ==
  CASE cdc.state = "BUSY" /\ cdc.len > Size -> "BUSY"
    [] cdc.state = "BUSY" /\ cdc.len = EpSize -> "BUSY_ZLP"
    [] OTHER -> "COMPLETING"

\* USBTxOnePacket: as long as the last packet is with the
\* SIE nothing happens.
Send ==
  LET n == IF cdc.state = "BUSY" THEN Size ELSE 0
      b == fw.pBDT.in
  IN /\ cdc' = [cdc EXCEPT !.state = StateAfter, !.len = @ - n, !.off = @ + n,
                           !.tx = IF n = 0 THEN @ ELSE cdc.off]
     /\ bd' = IF b = NULL THEN bd ELSE Armed("in", b, n)
     /\ fw' = [fw EXCEPT !.handle.in = b, !.pBDT.in = Other(b)]

\* CDC_TX_READY; nothing reads what is left of the last transfer.
Idle == [cdc EXCEPT !.state = "READY", !.len = 0, !.off = 0, !.tx = 0]

CDCTxService ==
  /\ pc = "service"
  /\ CASE ~Busy("in") /\ cdc.state \in {"BUSY", "BUSY_ZLP"} -> Send
       [] ~Busy("in") /\ cdc.state \notin {"BUSY", "BUSY_ZLP"} ->
            cdc' = Idle /\ UNCHANGED <<bd, fw>>
       [] OTHER -> UNCHANGED <<cdc, bd, fw>>
  /\ pc' = "main"
  /\ UNCHANGED <<sie, local, host, ghostVars, faults, requests>>

\* The interrupt of a transaction comes before the next of these steps; they
\* read nothing of what it writes.
Main ==
  /\ sie.ustat = <<>>
  /\ \/ MainStart \/ Gets \/ GetsCopy \/ GetsTake \/ GetsArm \/ GetsAdvance
     \/ GetsAssign \/ Put \/ CDCTxService

-----------------------------------------------------------------------------
(* The USB interrupt. *)

\* The transaction loop of USBDeviceTasks; EVENT_TRANSFER is not used.
Transaction ==
  /\ sie.ustat # <<>>
  /\ sie' = [sie EXCEPT !.ustat = Tail(@)]
  /\ fw' = [fw EXCEPT !.ep_data[Head(sie.ustat)] = Other(@)]
  /\ UNCHANGED <<bd, cdc, mainVars, host, ghostVars, faults, requests>>

\* A request waits behind the transactions before it, and from its SETUP
\* packet to the end of its handler the SIE answers nobody (PKTDIS).
Request == sie.ustat = <<>>
Spend == requests < MaxRequests /\ requests' = requests + 1

\* getsUSBUSART between its test and its end.
InGets == pc \in {"copy", "take", "arm", "advance", "assign"}

SieInit == [next |-> Both(0), ustat |-> <<>>]

\* USBDeviceInit on a bus reset.
BusReset ==
  /\ fw.configured /\ Spend
  /\ bd' = Both(Zero)
  /\ sie' = SieInit
  /\ fw' = [fw EXCEPT !.pBDT = Both(NULL), !.ep_data = Both(0), !.configured = FALSE]
  /\ UNCHANGED <<cdc, mainVars, host, ghostVars, faults>>

\* Mutant: both buffers expect DATA0.
ConfiguredBDsData0 ==
  [d \in Dirs |-> [b \in Buffer |-> BD(d = "out" /\ b = 0, 0, IF d = "out" /\ b = 0 THEN EpSize ELSE 0)]]

\* USBEnableEndpoint and USBConfigureEndpoint: even is next and expects DATA0,
\* odd DATA1; CDCInitEP arms the first packet from the host.
ConfiguredBDs ==
  [d \in Dirs |-> [b \in Buffer |-> BD(d = "out" /\ b = 0, b, IF d = "out" /\ b = 0 THEN EpSize ELSE 0)]]

\* USBStdSetCfgHandler with CDCInitEP.  Between a bus reset and the next
\* configuration the host needs so long that the main loop ends its pass.
SetConfiguration ==
  /\ Request
  /\ IF fw.configured THEN Spend ELSE pc = "main" /\ UNCHANGED requests
  /\ bd' = ConfiguredBDs
  /\ sie' = SieInit
  /\ fw' = [pBDT |-> [out |-> 1, in |-> 0], ep_data |-> Both(0),
            handle |-> [out |-> 0, in |-> NULL], configured |-> TRUE]
  /\ cdc' = Idle
  /\ host' = [host EXCEPT !.tog = Both(0), !.halted = Both(FALSE), !.base = host.sent,
                          !.part = 0, !.exact = TRUE]
  /\ got' = <<>> /\ puts' = <<>> /\ toHost' = <<>>
  /\ stale' = FALSE
  /\ upset' = [gets |-> InGets, out |-> InGets, in |-> FALSE]
  /\ UNCHANGED <<mainVars, faults>>

\* Configuration 0: the endpoints are off, the driver keeps its pointers.
Deconfigure ==
  /\ Request /\ fw.configured /\ Spend
  /\ bd' = Both(Zero)
  /\ sie' = SieInit
  /\ fw' = [fw EXCEPT !.ep_data = Both(0), !.configured = FALSE]
  /\ UNCHANGED <<cdc, mainVars, host, ghostVars, faults>>

\* SET_FEATURE(ENDPOINT_HALT): the descriptor the SIE will use next stalls.
SetHalt(d) ==
  /\ Request /\ fw.configured /\ Spend
  /\ LET p == fw.ep_data[d] IN
       /\ bd' = [bd EXCEPT ![d][p].own = TRUE, ![d][p].stall = TRUE]
       /\ fw' = [fw EXCEPT !.pBDT[d] = p]
  /\ host' = [host EXCEPT !.halted[d] = TRUE]
  /\ upset' = [upset EXCEPT !.gets = @ \/ (d = "out" /\ InGets),
                            !.out = @ \/ (d = "out" /\ InGets)]
  /\ UNCHANGED <<sie, cdc, mainVars, got, puts, toHost, stale, faults>>

\* Mutant: the driver goes on from its own idea of the next buffer.
RealignNot(d) == fw.pBDT[d]

\* The driver's next buffer becomes the SIE's.
Realign(d) == fw.ep_data[d]

\* CLEAR_FEATURE(ENDPOINT_HALT): the SIE's next descriptor is taken back and
\* expects DATA0, the other one DATA1.  EVENT_TRANSFER_TERMINATED is raised,
\* and ignored by the application: nobody arms the endpoint again for it, and
\* getsUSBUSART finds its buffer no longer busy.  A packet that the host is
\* about to repeat, its acknowledgement lost, will be taken for a new one.
ClearHalt(d) ==
  /\ Request /\ fw.configured /\ (host.halted[d] \/ requests < MaxRequests)
  /\ requests' = IF host.halted[d] THEN requests ELSE requests + 1
  /\ LET p == Realign(d) IN
       /\ bd' = [bd EXCEPT ![d][p] = BD(FALSE, 0, @.cnt),
                           ![d][Other(p)].own = FALSE, ![d][Other(p)].dts = 1]
       /\ fw' = [fw EXCEPT !.pBDT[d] = p]
  /\ host' = [host EXCEPT !.tog[d] = 0, !.halted[d] = FALSE]
  /\ upset' = [upset EXCEPT
       !.gets = @ \/ (d = "out" /\ InGets),
       !.out = @ \/ (d = "out" /\ (InGets \/ host.tog.out # bd.out[sie.next.out].dts)),
       !.in = @ \/ (d = "in" /\ cdc.state # "READY")]
  /\ stale' = (stale \/ (d = "out" /\ Busy("out")))
  /\ UNCHANGED <<sie, cdc, mainVars, got, puts, toHost, faults>>

Interrupt == \/ Transaction \/ BusReset \/ SetConfiguration \/ Deconfigure
             \/ \E d \in Dirs : SetHalt(d) \/ ClearHalt(d)

-----------------------------------------------------------------------------
(* The host and the SIE. *)

Listening(d) ==
  /\ fw.configured /\ ~host.halted[d] /\ Len(sie.ustat) < 4
  /\ bd[d][sie.next[d]].own /\ ~bd[d][sie.next[d]].stall

Done(d) == [sie EXCEPT !.next[d] = Other(@), !.ustat = Append(@, d)]

\* The acknowledgement reaches the other side, or is lost.
Acked(now, next) == \/ host' = next /\ UNCHANGED faults
                    \/ host' = now /\ faults < MaxFaults /\ faults' = faults + 1

\* A packet of the host: a repeated one is acknowledged and dropped.
OutToken ==
  /\ Listening("out") /\ host.sent < MaxOut
  /\ LET b == sie.next.out
         next == [host EXCEPT !.sent = @ + 1, !.tog.out = 1 - @]
     IN IF bd.out[b].dts # host.tog.out
        THEN host' = next /\ UNCHANGED <<bd, sie, cdc, faults>>
        ELSE /\ bd' = [bd EXCEPT !.out[b].own = FALSE, !.out[b].cnt = EpSize]
             /\ sie' = Done("out")
             /\ cdc' = [cdc EXCEPT !.rx = host.sent + 1]
             /\ Acked(host, next)
  /\ UNCHANGED <<fw, mainVars, ghostVars, requests>>

\* A packet for the host.  A short one ends the transfer.
Taken(n, off) == [host EXCEPT !.tog.in = 1 - @, !.part = IF n < EpSize THEN 0 ELSE @ + n,
                              !.exact = @ /\ (n = 0 \/ off = host.part)]

InToken ==
  /\ Listening("in")
  /\ LET b == sie.next.in
         n == bd.in[b].cnt
         fresh == bd.in[b].dts = host.tog.in
     IN /\ host' = IF fresh THEN Taken(n, cdc.tx) ELSE host
        /\ toHost' = IF fresh /\ n < EpSize THEN Append(toHost, host.part + n) ELSE toHost
        /\ \/ /\ bd' = [bd EXCEPT !.in[b].own = FALSE]
              /\ sie' = Done("in")
              /\ UNCHANGED faults
           \/ /\ faults < MaxFaults /\ faults' = faults + 1
              /\ UNCHANGED <<bd, sie>>
  /\ UNCHANGED <<fw, cdc, mainVars, got, puts, stale, upset, requests>>

-----------------------------------------------------------------------------
Init ==
  /\ bd = Both(Zero) /\ sie = SieInit
  /\ fw = [pBDT |-> Both(NULL), ep_data |-> Both(0), handle |-> Both(NULL),
           configured |-> FALSE]
  /\ cdc = [state |-> "READY", len |-> 0, off |-> 0, tx |-> 0, rx |-> 0]
  /\ pc = "main" /\ local = NULL
  /\ host = [tog |-> Both(0), halted |-> Both(FALSE), sent |-> 0, base |-> 0,
             part |-> 0, exact |-> TRUE]
  /\ got = <<>> /\ puts = <<>> /\ toHost = <<>>
  /\ faults = 0 /\ requests = 0 /\ stale = FALSE
  /\ upset = [gets |-> FALSE, out |-> FALSE, in |-> FALSE]

Next == Main \/ Interrupt \/ OutToken \/ InToken

\* The main loop runs, the interrupt is served, and the host sends what it
\* has and polls for what the device has.  It need not make any request but
\* clear a halt it has set.
Fairness ==
  /\ WF_vars(Main) /\ WF_vars(Transaction)
  /\ WF_vars(OutToken) /\ WF_vars(InToken)
  /\ \A d \in Dirs : WF_vars(host.halted[d] /\ ClearHalt(d))

Spec == Init /\ [][Next]_vars /\ Fairness

-----------------------------------------------------------------------------
(* Properties. *)

TypeOK ==
  /\ bd \in [Dirs -> [Buffer -> [own : BOOLEAN, stall : BOOLEAN, dts : {0, 1}, cnt : 0 .. EpSize]]]
  /\ sie.next \in [Dirs -> Buffer] /\ Len(sie.ustat) <= 4
  /\ fw.pBDT \in [Dirs -> Buffer \cup {NULL}] /\ fw.handle \in [Dirs -> Buffer \cup {NULL}]
  /\ cdc.state \in {"READY", "BUSY", "BUSY_ZLP", "COMPLETING"}
  /\ pc \in {"main", "gets", "copy", "take", "arm", "advance", "assign", "put", "service"}

\* Since the configuration getsUSBUSART has returned every packet the host
\* knows to be delivered, once and in order, except that the last one may be
\* waiting in cdc_data_rx: whatever acknowledgements were lost, and whatever
\* halts were set and cleared.  Three things are excepted.  A CLEAR_FEATURE of
\* ENDPOINT_HALT that takes back an armed buffer, which is where the endpoint
\* is at rest, makes getsUSBUSART hand over the bytes of an earlier packet once
\* more: that one hand-over is not counted (stale), see OnlyNewData.  A request
\* that falls into getsUSBUSART, and a CLEAR_FEATURE while the host repeats a
\* packet whose acknowledgement was lost, end what is promised until the next
\* configuration (upset.out).
OutExact ==
  fw.configured /\ ~upset.out =>
    /\ got = [k \in 1 .. Len(got) |-> host.base + k]
    /\ host.sent > host.base + Len(got) =>
         /\ host.sent = host.base + Len(got) + 1
         /\ ~Busy("out") /\ ~stale /\ cdc.rx = host.sent

\* "returns '0' to notify the caller that there is no data available": what
\* getsUSBUSART copies is a packet that it has not returned before.
OnlyNewData ==
  pc = "copy" /\ fw.configured /\ ~upset.out => cdc.rx = host.base + Len(got) + 1

\* The transfers the host has received are those that were put, in order and
\* each of its own length: no transfer runs into the next one.  When the
\* driver is ready for another, the host has them all.  A halt cleared inside a
\* transfer is excepted: the packet taken back is lost (upset.in).
InExact ==
  fw.configured /\ ~upset.in =>
    /\ host.exact
    /\ toHost = SubSeq(puts, 1, Len(toHost))
    /\ cdc.state = "READY" => toHost = puts

\* Neither direction is NAKed for ever, whatever was reset, configured, halted
\* or cleared: the driver, the SIE and the host agree on the next buffer and
\* its toggle.  (Unless that fell into getsUSBUSART.)
PipesMove ==
  /\ <>[](host.sent = MaxOut \/ ~fw.configured \/ upset.gets)
  /\ cdc.state # "READY" ~> cdc.state = "READY" \/ ~fw.configured
=============================================================================
