------------------------------- MODULE UsbBus -------------------------------
(***************************************************************************)
(* The other side of endpoint 0: the host's control transfers and the      *)
(* microcontroller's serial interface engine (SIE), which answers the      *)
(* host's tokens from the buffer descriptor table while the firmware runs. *)
(* Both are external to the repository; they are modelled from how         *)
(* usb_device.c (application and boot loader) reads and writes the         *)
(* descriptors, U1STAT, U1IR, U1CON, U1ADDR and the comments there.        *)
(*                                                                         *)
(* EP0 OUT always has an even and an odd descriptor.  EP0 IN has two in    *)
(* the application (full ping-pong) and one in the boot loader.            *)
(*                                                                         *)
(* Packets are abstract: a data packet names what it is part of, its       *)
(* offset and its length; a SETUP packet is the request it carries.  A     *)
(* lost data packet is a token nothing came of, and no step.  A lost       *)
(* acknowledgement is a step in which only the receiver moves on.          *)
(***************************************************************************)
EXTENDS Naturals, Sequences, FiniteSets

CONSTANTS
  InBuffers,     \* EP0 IN buffer descriptors: 2 or 1
  Buffers,       \* the buffers in USB RAM descriptors may point to
  Ep0Size,       \* USB_EP0_BUFF_SIZE, in units of the descriptor lengths
  Requests,      \* the requests the host may make
  MaxFaults      \* bound: acknowledgements lost, transfers the host abandons
                 \* half way and bus resets out of the blue, all together

ASSUME BusAssumption ==
  /\ InBuffers \in {1, 2}
  /\ Ep0Size \in Nat \ {0}
  /\ "CtrlTrfData" \in Buffers
  /\ MaxFaults \in Nat

VARIABLES
  bdOut,   \* EP0 OUT descriptors, even = 0, odd = 1
  bdIn,    \* EP0 IN descriptors
  sie,     \* the engine: next descriptors, PKTDIS, U1ADDR, USTAT FIFO, flags
  ram,     \* what the buffers hold
  host,    \* the host's transfer in progress and what it knows
  faults   \* how many faults there have been

busVars == <<bdOut, bdIn, sie, ram, host, faults>>

-----------------------------------------------------------------------------
(* Requests and packets. *)

Reads == {"GET_DESCRIPTOR", "GET_CONFIGURATION", "GET_STATUS", "GET_INTERFACE",
          "GET_LINE_CODING", "GET_ENCAPSULATED_RESPONSE", "GET_IDLE", "GET_PROTOCOL"}
IsRead(r) == r.name \in Reads
HasData(r) == r.len > 0

Nothing == [src |-> "nothing", val |-> 0]
Packet(of, off, len) == [of |-> of, off |-> off, len |-> len]
Empty == Packet(Nothing, 0, 0)
NoRequest == [name |-> "NONE", of |-> "NONE", arg |-> 0, len |-> 0]

\* The data of a control write: what the host sends for request r.
Payload(r) == [src |-> r.name, val |-> r.arg]

\* A descriptor whose STAT byte is 0, and the values the firmware gives it.
BD(own, stall, dtsen, dts, adr, cnt) ==
  [own |-> own, stall |-> stall, dtsen |-> dtsen, dts |-> dts,
   adr |-> adr, cnt |-> cnt, pid |-> "none"]
ClearBD == BD(FALSE, FALSE, FALSE, 0, "CtrlTrfData", 0)

OutBDs == {0, 1}
InBDs == 0 .. InBuffers - 1
OtherOut(b) == 1 - b
NextIn(b) == (b + 1) % InBuffers
MinOf(a, b) == IF a < b THEN a ELSE b

-----------------------------------------------------------------------------
(* The engine. *)

SieInit == [out |-> 0, in |-> 0, pktdis |-> FALSE, addr |-> 0, ustat |-> <<>>,
            epstall |-> FALSE, stallif |-> FALSE, urstif |-> FALSE,
            idleif |-> FALSE, actvif |-> FALSE, suspnd |-> FALSE, on |-> FALSE]

\* The engine answers a token only if it is on, not suspended, not disabled
\* by PKTDIS, addressed, and has room in the four-deep USTAT FIFO.  After a
\* reset the host waits longer than the device needs to service it.
Listening ==
  /\ sie.on /\ ~sie.suspnd /\ ~sie.pktdis /\ ~sie.urstif
  /\ sie.addr = host.addr
  /\ Len(sie.ustat) < 4
  /\ ~host.asleep /\ ~host.se0

Done(dir, bd) == Append(sie.ustat, [dir |-> dir, bd |-> bd])

SieOut(pid, packet) ==
  LET b == sie.out IN
  /\ bdOut' = [bdOut EXCEPT ![b].own = FALSE, ![b].dtsen = FALSE,
                            ![b].stall = FALSE, ![b].pid = pid, ![b].cnt = packet.len]
  /\ ram' = IF packet.len = 0 THEN ram ELSE [ram EXCEPT ![bdOut[b].adr] = packet]
  /\ sie' = [sie EXCEPT !.out = OtherOut(b), !.ustat = Done("out", b),
                        !.pktdis = (pid = "SETUP")]
  /\ UNCHANGED bdIn

SieStall == /\ sie' = [sie EXCEPT !.epstall = TRUE, !.stallif = TRUE]
            /\ UNCHANGED <<bdOut, bdIn, ram>>

Fault == faults < MaxFaults /\ faults' = faults + 1

\* An acknowledgement: it reaches the host, or is lost.
Acked(now, next) == \/ host' = next /\ UNCHANGED faults
                    \/ host' = now /\ Fault

-----------------------------------------------------------------------------
(* The host. *)

HostInit == [stage |-> "idle", addr |-> 0, req |-> NoRequest, tog |-> 0,
             got |-> Empty, exact |-> TRUE, result |-> "none", short |-> FALSE,
             asleep |-> FALSE, se0 |-> FALSE]

\* In the Default state a host reads the device descriptor and assigns an
\* address; everything else it asks of an addressed device.  A host that has
\* given up a SET_ADDRESS tries it again or resets the bus.
MayAsk(r) ==
  /\ host.req.name = "SET_ADDRESS" /\ host.result = "gaveup"
       => r.name = "SET_ADDRESS"
  /\ IF host.addr = 0 THEN r.name = "SET_ADDRESS" \/ (r.of = "DEVICE" /\ r.arg = 0)
                      ELSE r.name # "SET_ADDRESS"

\* A host may cut the data stage of a control write short.
Begun(r, short) == [host EXCEPT !.stage = "setup", !.req = r, !.tog = 1,
                                !.got = Empty, !.exact = TRUE,
                                !.result = "none", !.short = short]
Transfers ==
  IF host.stage = "setup" THEN {host}
  ELSE {Begun(r, FALSE) : r \in {q \in Requests : MayAsk(q)}}
       \cup {Begun(r, TRUE) : r \in {q \in Requests : MayAsk(q) /\ HasData(q) /\ ~IsRead(q)}}

\* The SETUP packet of a new transfer, or again that of one whose SETUP was
\* not acknowledged.  SETUP is always DATA0; neither BSTALL nor the toggle
\* keeps it out.
SetupToken ==
  /\ host.stage \in {"idle", "setup"} /\ Listening /\ bdOut[sie.out].own
  /\ \E h \in Transfers :
       /\ SieOut("SETUP", Packet(h.req, 0, 8))
       /\ Acked(h, [h EXCEPT !.stage = IF HasData(h.req) THEN "data" ELSE "status"])

Finish(h, result) == [h EXCEPT !.stage = "idle", !.result = result]
Completed(h) ==
  [Finish(h, IF h.short THEN "short" ELSE "ok") EXCEPT
     !.addr = IF h.req.name = "SET_ADDRESS" THEN h.req.arg ELSE @]

\* The device answers a token of the data or the status stage with STALL.
Refused == /\ SieStall
           /\ host' = Finish(host, "stall")
           /\ UNCHANGED faults

InStage == \/ host.stage = "data" /\ IsRead(host.req)
           \/ host.stage = "status" /\ ~(IsRead(host.req) /\ HasData(host.req))
OutStage == \/ host.stage = "data" /\ ~IsRead(host.req)
            \/ host.stage = "status" /\ IsRead(host.req) /\ HasData(host.req)

\* What the host makes of an IN packet with toggle dts: a repeated one is
\* acknowledged and dropped; a data stage ends when all that was asked for
\* has come or a packet is short.
Received(p, dts) ==
  IF dts # host.tog THEN host
  ELSE IF host.stage = "status" THEN Completed(host)
  ELSE LET got == Packet(IF p.len = 0 /\ host.got.len > 0 THEN host.got.of ELSE p.of,
                         0, host.got.len + p.len)
           over == got.len >= host.req.len \/ p.len < Ep0Size
       IN [host EXCEPT
             !.got = got,
             !.exact = @ /\ (p.len = 0 \/
                             /\ p.off = host.got.len
                             /\ host.got.len = 0 \/ p.of = host.got.of)
                         /\ got.len <= host.req.len,
             !.tog = IF over THEN 1 ELSE 1 - @,
             !.stage = IF over THEN "status" ELSE "data"]

InToken ==
  /\ InStage /\ Listening /\ bdIn[sie.in].own
  /\ LET b == sie.in
         p == Packet(ram.CtrlTrfData.of, ram.CtrlTrfData.off, bdIn[b].cnt)
     IN IF bdIn[b].stall THEN Refused
        ELSE /\ host' = Received(p, bdIn[b].dts)
             /\ \/ /\ bdIn' = [bdIn EXCEPT ![b].own = FALSE, ![b].dtsen = FALSE,
                                           ![b].pid = "IN"]
                   /\ sie' = [sie EXCEPT !.in = NextIn(b), !.ustat = Done("in", b)]
                   /\ UNCHANGED faults
                \/ Fault /\ UNCHANGED <<bdIn, sie>>
             /\ UNCHANGED <<bdOut, ram>>

\* The OUT packet of the stage, and the host once it is acknowledged.
OutToken ==
  /\ OutStage /\ Listening /\ bdOut[sie.out].own
  /\ LET b == sie.out
         len == IF host.stage = "status" \/ host.short THEN 0 ELSE host.req.len
         next == IF host.stage = "status" THEN Completed(host)
                 ELSE [host EXCEPT !.stage = "status", !.tog = 1]
     IN IF bdOut[b].stall THEN Refused
        ELSE IF bdOut[b].dtsen /\ bdOut[b].dts # host.tog    \* a repetition
        THEN host' = next /\ UNCHANGED <<bdOut, bdIn, sie, ram, faults>>
        ELSE SieOut("OUT", Packet(Payload(host.req), 0, len)) /\ Acked(host, next)

\* The host abandons a transfer and will start another.
GiveUp ==
  /\ host.stage # "idle" /\ Fault
  /\ host' = Finish(host, "gaveup")
  /\ UNCHANGED <<bdOut, bdIn, sie, ram>>

\* Reset signalling: SE0 on the bus.  The hardware clears U1ADDR.  Until the
\* firmware has switched the pull-up on there is nothing to reset.
BusReset(free) ==
  /\ sie.on /\ ~host.se0
  /\ (free /\ UNCHANGED faults) \/ Fault
  /\ host' = [HostInit EXCEPT !.se0 = TRUE]
  /\ sie' = [sie EXCEPT !.urstif = TRUE, !.addr = 0,
                        !.actvif = @ \/ host.asleep]
  /\ UNCHANGED <<bdOut, bdIn, ram>>

EndReset == /\ host.se0
            /\ host' = [host EXCEPT !.se0 = FALSE]
            /\ UNCHANGED <<bdOut, bdIn, sie, ram, faults>>

\* An idle bus raises IDLEIF after 3 ms, in which the firmware has serviced
\* what was queued; the first activity after an IDLEIF raises ACTVIF, once.
Sleep == /\ host.stage = "idle" /\ ~host.asleep /\ ~host.se0
         /\ sie.on /\ ~sie.idleif /\ ~sie.actvif
         /\ sie.ustat = <<>> /\ ~sie.urstif
         /\ host' = [host EXCEPT !.asleep = TRUE]
         /\ sie' = [sie EXCEPT !.idleif = TRUE]
         /\ UNCHANGED <<bdOut, bdIn, ram, faults>>

Resume == /\ host.asleep
          /\ host' = [host EXCEPT !.asleep = FALSE]
          /\ sie' = [sie EXCEPT !.actvif = TRUE]
          /\ UNCHANGED <<bdOut, bdIn, ram, faults>>

Token == SetupToken \/ InToken \/ OutToken

BusInit ==
  /\ bdOut = [b \in OutBDs |-> ClearBD]
  /\ bdIn = [b \in InBDs |-> ClearBD]
  /\ sie = SieInit
  /\ ram = [b \in Buffers |-> Empty]
  /\ host = HostInit
  /\ faults = 0

-----------------------------------------------------------------------------
(* Types. *)

BDType == [own : BOOLEAN, stall : BOOLEAN, dtsen : BOOLEAN, dts : {0, 1},
           adr : Buffers, cnt : Nat,
           pid : {"none", "SETUP", "OUT", "IN"}]

BusTypeOK ==
  /\ bdOut \in [OutBDs -> BDType]
  /\ bdIn \in [InBDs -> BDType]
  /\ sie.out \in OutBDs /\ sie.in \in InBDs /\ sie.addr \in 0 .. 127
  /\ Len(sie.ustat) <= 4
  /\ \A k \in DOMAIN sie.ustat :
       sie.ustat[k] \in [dir : {"out"}, bd : OutBDs] \cup [dir : {"in"}, bd : InBDs]
  /\ host.stage \in {"idle", "setup", "data", "status"}
  /\ host.result \in {"none", "ok", "short", "stall", "gaveup"}
  /\ host.req \in Requests \cup {NoRequest}
  /\ host.tog \in {0, 1}
=============================================================================
