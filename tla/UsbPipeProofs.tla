--------------------------- MODULE UsbPipeProofs ----------------------------
(***************************************************************************)
(* Theorems about UsbPipe for every packet size, any transfers and any     *)
(* number of packets, of lost acknowledgements and of requests.            *)
(*                                                                         *)
(* Three parties go through the two buffers of a direction, each at its    *)
(* own step: the driver (pBDTEntryOut/In and the handle), the SIE and the  *)
(* interrupt (ep_data).  Aligned relates the last two; OutBody and InBody  *)
(* say for each direction where the driver may be, and count what the      *)
(* host has and what is still in a buffer.                                 *)
(***************************************************************************)
EXTENDS UsbPipe, SequenceTheorems, TLAPS

\* TypeOK, and the types of what it does not name.
Pointer == Buffer \cup {NULL}
Descriptor == [own : BOOLEAN, stall : BOOLEAN, dts : {0, 1}, cnt : 0 .. EpSize]
Descriptors == [Dirs -> [Buffer -> Descriptor]]

SieOK == sie \in [next : [Dirs -> Buffer], ustat : Seq(Dirs)]
FwOK == fw \in [pBDT : [Dirs -> Pointer], ep_data : [Dirs -> Buffer],
                handle : [Dirs -> Pointer], configured : BOOLEAN]
CdcOK == cdc \in [state : {"READY", "BUSY", "BUSY_ZLP", "COMPLETING"},
                  len : Nat, off : Nat, tx : Nat, rx : Nat]
HostOK == host \in [tog : [Dirs -> {0, 1}], halted : [Dirs -> BOOLEAN], sent : Nat,
                    base : Nat, part : Nat, exact : BOOLEAN]
BdOK == bd \in Descriptors
RestOK ==
  /\ local \in Pointer /\ (pc \in {"arm", "advance"} => local \in Buffer)
  /\ pc \in {"main", "gets", "copy", "take", "arm", "advance", "assign", "put", "service"}
  /\ got \in Seq(Nat) /\ puts \in Seq(Nat) /\ toHost \in Seq(Nat)
  /\ upset \in [gets : BOOLEAN, out : BOOLEAN, in : BOOLEAN] /\ stale \in BOOLEAN

Types == BdOK /\ SieOK /\ FwOK /\ CdcOK /\ HostOK /\ RestOK

LEMMA Constants == EpSize \in Nat /\ EpSize > 0 /\ Lengths \subseteq Nat /\ \A n \in Lengths : n > 0
BY PipeAssumption

LEMMA InitTypes == Init => Types
<1> SUFFICES ASSUME Init PROVE Types
  OBVIOUS
<1> USE Constants DEF Init
<1>1. BdOK
  BY DEF BdOK, Both, Zero, BD, Descriptors, Descriptor, Buffer
<1>2. SieOK
  BY DEF SieOK, SieInit, Both, Buffer
<1>3. FwOK
  BY DEF FwOK, Both, Pointer, Buffer, NULL
<1>4. CdcOK
  BY DEF CdcOK
<1>5. HostOK
  BY DEF HostOK, Both
<1>6. RestOK
  <2>1. upset \in [gets : BOOLEAN, out : BOOLEAN, in : BOOLEAN] /\ stale \in BOOLEAN
    OBVIOUS
  <2> QED
    BY <2>1 DEF RestOK, Pointer, NULL
<1> QED
  BY <1>1, <1>2, <1>3, <1>4, <1>5, <1>6 DEF Types

LEMMA BufferFacts ==
  /\ \A b \in Buffer : Other(b) \in Buffer /\ Other(b) # b /\ Other(Other(b)) = b /\ b # NULL
  /\ \A b \in Pointer : Other(b) \in Pointer
BY DEF Buffer, Pointer, Other, NULL

\* Every other descriptor is as it was.
Elsewhere(A, B, d, b) == \A e \in Dirs, a \in Buffer : e # d \/ a # b => B[e][a] = A[e][a]

Written(A, d, b, r) == [A EXCEPT ![d][b] = r]
BothWritten(A, d, p, r, o, q) == [A EXCEPT ![d] = [A[d] EXCEPT ![p] = r, ![o] = q]]

LEMMA PutDescriptor ==
  \A A \in Descriptors, d \in Dirs, b \in Buffer, r \in Descriptor :
    /\ Written(A, d, b, r) \in Descriptors /\ Written(A, d, b, r)[d][b] = r
    /\ Elsewhere(A, Written(A, d, b, r), d, b)
BY DEF Descriptors, Elsewhere, Written

LEMMA OneDescriptor ==
  BdOK => \A d \in Dirs, b \in Buffer : bd[d][b] \in Descriptor
BY DEF BdOK, Descriptors

LEMMA ArmedEffect ==
  ASSUME BdOK, NEW d \in Dirs, NEW b \in Buffer, NEW c \in 0 .. EpSize, bd' = Armed(d, b, c)
  PROVE  BdOK' /\ bd'[d][b] = BD(TRUE, bd[d][b].dts, c) /\ Elsewhere(bd, bd', d, b)
<1> DEFINE r == BD(TRUE, bd[d][b].dts, c)
<1>1. r \in Descriptor
  BY OneDescriptor DEF BD, Descriptor
<1>2. bd' = Written(bd, d, b, r)
  BY DEF Written, Armed
<1> HIDE DEF r
<1>3. /\ Written(bd, d, b, r) \in Descriptors /\ Written(bd, d, b, r)[d][b] = r
      /\ Elsewhere(bd, Written(bd, d, b, r), d, b)
  BY <1>1, PutDescriptor DEF BdOK
<1>4. bd' \in Descriptors /\ bd'[d][b] = r /\ Elsewhere(bd, bd', d, b)
  BY <1>2, <1>3
<1> QED
  BY <1>4 DEF BdOK, r

LEMMA DoneEffect ==
  ASSUME SieOK, NEW d \in Dirs, sie' = Done(d)
  PROVE  /\ SieOK' /\ sie'.next[d] = Other(sie.next[d]) /\ sie'.ustat = Append(sie.ustat, d)
         /\ \A e \in Dirs : e # d => sie'.next[e] = sie.next[e]
<1>1. Append(sie.ustat, d) \in Seq(Dirs)
  BY AppendProperties DEF SieOK
<1> QED
  BY <1>1, BufferFacts DEF SieOK, Done

LEMMA MainTypes ==
  ASSUME Types, Main
  PROVE  Types'
<1> USE Constants, BufferFacts DEF Types, mainVars, ghostVars
<1>1. CASE MainStart
  BY <1>1 DEF MainStart, BdOK, SieOK, FwOK, CdcOK, HostOK, RestOK
<1>2. CASE Gets
  BY <1>2 DEF Gets, BdOK, SieOK, FwOK, CdcOK, HostOK, RestOK
<1>3. CASE GetsCopy
  <2>1. got' = got \/ got' = Append(got, cdc.rx)
    BY <1>3 DEF GetsCopy
  <2>2. got' \in Seq(Nat)
    <3>1. cdc.rx \in Nat /\ got \in Seq(Nat)
      BY DEF CdcOK, RestOK
    <3>2. Append(got, cdc.rx) \in Seq(Nat)
      BY <3>1, AppendProperties
    <3> QED
      BY <2>1, <3>1, <3>2
  <2>3. stale' \in BOOLEAN
    BY <1>3 DEF GetsCopy
  <2> QED
    BY <1>3, <2>2, <2>3 DEF GetsCopy, BdOK, SieOK, FwOK, CdcOK, HostOK, RestOK
<1>4. CASE GetsTake
  BY <1>4 DEF GetsTake, BdOK, SieOK, FwOK, CdcOK, HostOK, RestOK, Dirs, Pointer
<1>5. CASE GetsArm
  <2>1. local \in Buffer /\ bd' = Armed("out", local, EpSize)
    BY <1>5 DEF GetsArm, RestOK
  <2>2. BdOK'
    <3>1. EpSize \in 0 .. EpSize
      OBVIOUS
    <3> QED
      BY <2>1, <3>1, ArmedEffect DEF Dirs
  <2> QED
    BY <1>5, <2>2 DEF GetsArm, SieOK, FwOK, CdcOK, HostOK, RestOK
<1>6. CASE GetsAdvance
  BY <1>6 DEF GetsAdvance, BdOK, SieOK, FwOK, CdcOK, HostOK, RestOK, Dirs
<1>7. CASE GetsAssign
  BY <1>7 DEF GetsAssign, BdOK, SieOK, FwOK, CdcOK, HostOK, RestOK, Dirs, Pointer
<1>8. CASE Put
  <2>1. CASE UNCHANGED <<cdc, puts>>
    BY <1>8, <2>1 DEF Put, BdOK, SieOK, FwOK, CdcOK, HostOK, RestOK
  <2>2. ASSUME NEW n \in Lengths, cdc' = [cdc EXCEPT !.state = "BUSY", !.len = n, !.off = 0],
               puts' = Append(puts, n)
        PROVE  Types'
    <3>1. puts' \in Seq(Nat)
      BY <2>2, AppendProperties DEF RestOK
    <3> QED
      BY <1>8, <2>2, <3>1 DEF Put, BdOK, SieOK, FwOK, CdcOK, HostOK, RestOK
  <2> QED
    BY <1>8, <2>1, <2>2 DEF Put
<1>9. CASE CDCTxService
  <2>1. CASE Send
    <3> DEFINE n == IF cdc.state = "BUSY" THEN Size ELSE 0
    <3>1. n \in 0 .. EpSize /\ cdc.len - n \in Nat
      BY DEF Size, CdcOK
    <3>2. StateAfter \in {"READY", "BUSY", "BUSY_ZLP", "COMPLETING"}
      BY DEF StateAfter
    <3>7. cdc' = [cdc EXCEPT !.state = StateAfter, !.len = @ - n, !.off = @ + n,
                             !.tx = IF n = 0 THEN @ ELSE cdc.off]
      BY <2>1 DEF Send
    <3> HIDE DEF n
    <3>3. CdcOK'
      <4>1. cdc.off + n \in Nat /\ (IF n = 0 THEN cdc.tx ELSE cdc.off) \in Nat
        BY <3>1 DEF CdcOK
      <4> QED
        BY <3>1, <3>2, <3>7, <4>1 DEF CdcOK
    <3>4. FwOK'
      BY <2>1 DEF Send, FwOK, Dirs
    <3>5. bd' = IF fw.pBDT.in = NULL THEN bd ELSE Armed("in", fw.pBDT.in, n)
      BY <2>1 DEF Send, n
    <3>6. BdOK'
      BY <3>1, <3>5, ArmedEffect DEF FwOK, BdOK, Dirs, Pointer
    <3> QED
      BY <1>9, <3>3, <3>4, <3>6 DEF CDCTxService, SieOK, HostOK, RestOK
  <2>2. CASE cdc' = Idle /\ UNCHANGED <<bd, fw>>
    BY <1>9, <2>2 DEF CDCTxService, Idle, BdOK, SieOK, FwOK, CdcOK, HostOK, RestOK
  <2>3. CASE UNCHANGED <<cdc, bd, fw>>
    BY <1>9, <2>3 DEF CDCTxService, BdOK, SieOK, FwOK, CdcOK, HostOK, RestOK
  <2> QED
    BY <1>9, <2>1, <2>2, <2>3 DEF CDCTxService
<1> QED
  BY <1>1, <1>2, <1>3, <1>4, <1>5, <1>6, <1>7, <1>8, <1>9 DEF Main

LEMMA SieInitOK == SieInit \in [next : [Dirs -> Buffer], ustat : Seq(Dirs)]
BY DEF SieInit, Both, Buffer

LEMMA ZeroOK == Both(Zero) \in Descriptors
BY Constants DEF Both, Zero, BD, Descriptors, Descriptor

LEMMA ConfiguredOK == ConfiguredBDs \in Descriptors
BY Constants DEF ConfiguredBDs, BD, Descriptors, Descriptor, Buffer

LEMMA HaltEffect ==
  ASSUME BdOK, NEW d \in Dirs, NEW p \in Buffer,
         bd' = [bd EXCEPT ![d][p].own = TRUE, ![d][p].stall = TRUE]
  PROVE  /\ BdOK' /\ bd'[d][p] = [bd[d][p] EXCEPT !.own = TRUE, !.stall = TRUE]
         /\ Elsewhere(bd, bd', d, p)
<1> DEFINE r == [bd[d][p] EXCEPT !.own = TRUE, !.stall = TRUE]
<1>1. r \in Descriptor
  BY OneDescriptor DEF Descriptor
<1>2. bd' = Written(bd, d, p, r)
  BY DEF Written, BdOK, Descriptor, Descriptors
<1> HIDE DEF r
<1>3. /\ Written(bd, d, p, r) \in Descriptors /\ Written(bd, d, p, r)[d][p] = r
      /\ Elsewhere(bd, Written(bd, d, p, r), d, p)
  BY <1>1, PutDescriptor DEF BdOK, Dirs
<1>4. bd' \in Descriptors /\ bd'[d][p] = r /\ Elsewhere(bd, bd', d, p)
  BY <1>2, <1>3
<1> QED
  BY <1>4 DEF BdOK, r

LEMMA PutTwo ==
  \A A \in Descriptors, d \in Dirs, p, o \in Buffer, r, q \in Descriptor :
    p # o =>
      /\ BothWritten(A, d, p, r, o, q) \in Descriptors
      /\ BothWritten(A, d, p, r, o, q)[d][p] = r /\ BothWritten(A, d, p, r, o, q)[d][o] = q
      /\ \A e \in Dirs : e # d => BothWritten(A, d, p, r, o, q)[e] = A[e]
BY DEF Descriptors, BothWritten
\* What ClearHalt writes.
Cleared(d, p, o) ==
  [bd EXCEPT ![d][p] = BD(FALSE, 0, @.cnt), ![d][o].own = FALSE, ![d][o].dts = 1]

LEMMA ClearEffect ==
  ASSUME BdOK, NEW d \in Dirs, NEW p \in Buffer, NEW o \in Buffer, p # o,
         bd' = Cleared(d, p, o)
  PROVE  /\ BdOK' /\ ~bd'[d][p].own /\ bd'[d][p].dts = 0 /\ bd'[d][p].cnt = bd[d][p].cnt
         /\ ~bd'[d][o].own /\ bd'[d][o].dts = 1 /\ bd'[d][o].cnt = bd[d][o].cnt
         /\ \A e \in Dirs : e # d => bd'[e] = bd[e]
<1> DEFINE r == BD(FALSE, 0, bd[d][p].cnt)
           q == [bd[d][o] EXCEPT !.own = FALSE, !.dts = 1]
<1>1. r \in Descriptor /\ q \in Descriptor
  BY OneDescriptor DEF Descriptor, BD
<1>2. bd' = BothWritten(bd, d, p, r, o, q)
  BY DEF Cleared, BothWritten, BdOK, Descriptors, Descriptor
<1> HIDE DEF r, q
<1> DEFINE B == BothWritten(bd, d, p, r, o, q)
<1>3. B \in Descriptors /\ B[d][p] = r /\ B[d][o] = q /\ \A e \in Dirs : e # d => B[e] = bd[e]
  BY <1>1, PutTwo DEF BdOK
<1> HIDE DEF B
<1>4. bd' \in Descriptors /\ bd'[d][p] = r /\ bd'[d][o] = q /\ \A e \in Dirs : e # d => bd'[e] = bd[e]
  BY <1>2, <1>3 DEF B
<1>5. ~r.own /\ r.dts = 0 /\ r.cnt = bd[d][p].cnt
  BY DEF r, BD
<1>6. ~q.own /\ q.dts = 1 /\ q.cnt = bd[d][o].cnt
  BY OneDescriptor DEF q, Descriptor
<1> QED
  BY <1>4, <1>5, <1>6 DEF BdOK
LEMMA InterruptTypes ==
  ASSUME Types, Interrupt
  PROVE  Types'
<1> USE Constants, BufferFacts DEF Types, mainVars, ghostVars
<1>1. CASE Transaction
  <2>1. Head(sie.ustat) \in Dirs /\ Tail(sie.ustat) \in Seq(Dirs)
    BY <1>1, HeadTailProperties DEF Transaction, SieOK
  <2>2. SieOK'
    BY <1>1, <2>1 DEF Transaction, SieOK
  <2>3. FwOK'
    BY <1>1, <2>1 DEF Transaction, FwOK
  <2> QED
    BY <1>1, <2>2, <2>3 DEF Transaction, BdOK, CdcOK, HostOK, RestOK
<1>2. CASE BusReset
  <2>1. FwOK'
    BY <1>2 DEF BusReset, Both, FwOK, Pointer, Buffer, NULL
  <2> QED
    BY <1>2, <2>1, ZeroOK, SieInitOK DEF BusReset, BdOK, SieOK, CdcOK, HostOK, RestOK
<1>3. CASE SetConfiguration
  <2>1. FwOK'
    BY <1>3 DEF SetConfiguration, Both, FwOK, Pointer, Buffer, NULL, Dirs
  <2>2. CdcOK'
    BY <1>3 DEF SetConfiguration, Idle, CdcOK
  <2>3. HostOK'
    BY <1>3 DEF SetConfiguration, Both, HostOK
  <2>4. RestOK'
    <3>1. upset' \in [gets : BOOLEAN, out : BOOLEAN, in : BOOLEAN] /\ stale' \in BOOLEAN
      <4>1. InGets \in BOOLEAN
        BY DEF InGets
      <4>2. upset' = [gets |-> InGets, out |-> InGets, in |-> FALSE] /\ stale' = FALSE
        BY <1>3 DEF SetConfiguration
      <4> QED
        BY <4>1, <4>2
    <3>2. got' \in Seq(Nat) /\ puts' \in Seq(Nat) /\ toHost' \in Seq(Nat)
      BY <1>3 DEF SetConfiguration
    <3>3. UNCHANGED <<pc, local>>
      BY <1>3 DEF SetConfiguration
    <3> QED
      BY <3>1, <3>2, <3>3 DEF RestOK
  <2> QED
    BY <1>3, <2>1, <2>2, <2>3, <2>4, ConfiguredOK, SieInitOK DEF SetConfiguration, BdOK, SieOK
<1>4. CASE Deconfigure
  <2>1. FwOK'
    BY <1>4 DEF Deconfigure, Both, FwOK, Buffer
  <2> QED
    BY <1>4, <2>1, ZeroOK, SieInitOK DEF Deconfigure, BdOK, SieOK, CdcOK, HostOK, RestOK
<1>5. ASSUME NEW d \in Dirs, SetHalt(d) PROVE Types'
  <2>1. fw.ep_data[d] \in Buffer
    BY DEF FwOK
  <2>2. BdOK'
    BY <1>5, <2>1, HaltEffect DEF SetHalt
  <2>3. FwOK'
    BY <1>5, <2>1 DEF SetHalt, FwOK, Pointer
  <2>4. HostOK'
    BY <1>5 DEF SetHalt, HostOK
  <2>5. RestOK'
    BY <1>5 DEF SetHalt, InGets, RestOK
  <2> QED
    BY <1>5, <2>2, <2>3, <2>4, <2>5 DEF SetHalt, SieOK, CdcOK
<1>6. ASSUME NEW d \in Dirs, ClearHalt(d) PROVE Types'
  <2>1. fw.ep_data[d] \in Buffer /\ Other(fw.ep_data[d]) \in Buffer
        /\ fw.ep_data[d] # Other(fw.ep_data[d])
    BY DEF FwOK
  <2>2. BdOK'
    BY <1>6, <2>1, ClearEffect DEF ClearHalt, Realign, Cleared
  <2>3. FwOK'
    BY <1>6, <2>1 DEF ClearHalt, Realign, FwOK, Pointer
  <2>4. HostOK'
    BY <1>6 DEF ClearHalt, HostOK
  <2>5. RestOK'
    BY <1>6 DEF ClearHalt, InGets, Busy, RestOK, BdOK, Descriptor
  <2> QED
    BY <1>6, <2>2, <2>3, <2>4, <2>5 DEF ClearHalt, SieOK, CdcOK
<1> QED
  BY <1>1, <1>2, <1>3, <1>4, <1>5, <1>6 DEF Interrupt

LEMMA ReceivedEffect ==
  ASSUME BdOK, NEW b \in Buffer,
         bd' = [bd EXCEPT !.out[b].own = FALSE, !.out[b].cnt = EpSize]
  PROVE  /\ BdOK' /\ ~bd'.out[b].own /\ bd'.out[b].cnt = EpSize /\ bd'.out[b].dts = bd.out[b].dts
         /\ Elsewhere(bd, bd', "out", b)
<1> DEFINE r == [bd["out"][b] EXCEPT !.own = FALSE, !.cnt = EpSize]
<1>1. bd["out"][b] \in Descriptor
  BY OneDescriptor DEF Dirs
<1>2. r \in Descriptor
  <2>1. EpSize \in 0 .. EpSize
    BY Constants
  <2> QED
    BY <1>1, <2>1 DEF Descriptor
<1>3. bd' = Written(bd, "out", b, r)
  BY DEF Written, BdOK, Descriptors, Descriptor
<1>6. ~r.own /\ r.dts = bd["out"][b].dts /\ r.cnt = EpSize
  BY <1>1 DEF Descriptor
<1> HIDE DEF r
<1>4. /\ Written(bd, "out", b, r) \in Descriptors /\ Written(bd, "out", b, r)["out"][b] = r
      /\ Elsewhere(bd, Written(bd, "out", b, r), "out", b)
  BY <1>2, PutDescriptor DEF BdOK, Dirs
<1>5. bd' \in Descriptors /\ bd'["out"][b] = r /\ Elsewhere(bd, bd', "out", b)
  BY <1>3, <1>4
<1> QED
  BY <1>5, <1>6 DEF BdOK

LEMMA SentEffect ==
  ASSUME BdOK, NEW b \in Buffer, bd' = [bd EXCEPT !.in[b].own = FALSE]
  PROVE  /\ BdOK' /\ ~bd'.in[b].own /\ bd'.in[b].cnt = bd.in[b].cnt /\ bd'.in[b].dts = bd.in[b].dts
         /\ Elsewhere(bd, bd', "in", b)
<1> DEFINE r == [bd["in"][b] EXCEPT !.own = FALSE]
<1>1. bd["in"][b] \in Descriptor
  BY OneDescriptor DEF Dirs
<1>2. r \in Descriptor
  BY <1>1, Constants DEF Descriptor
<1>3. bd' = Written(bd, "in", b, r)
  BY DEF Written, BdOK, Descriptors, Descriptor
<1>6. ~r.own /\ r.dts = bd["in"][b].dts /\ r.cnt = bd["in"][b].cnt
  BY <1>1 DEF Descriptor
<1> HIDE DEF r
<1>4. /\ Written(bd, "in", b, r) \in Descriptors /\ Written(bd, "in", b, r)["in"][b] = r
      /\ Elsewhere(bd, Written(bd, "in", b, r), "in", b)
  BY <1>2, PutDescriptor DEF BdOK, Dirs
<1>5. bd' \in Descriptors /\ bd'["in"][b] = r /\ Elsewhere(bd, bd', "in", b)
  BY <1>3, <1>4
<1> QED
  BY <1>5, <1>6 DEF BdOK

HostType == [tog : [Dirs -> {0, 1}], halted : [Dirs -> BOOLEAN], sent : Nat,
             base : Nat, part : Nat, exact : BOOLEAN]

\* The toggle the host expects, or sends, next.
Flipped(d) == [host.tog EXCEPT ![d] = 1 - @]

LEMMA FlippedOK ==
  ASSUME HostOK, NEW d \in Dirs
  PROVE  Flipped(d) \in [Dirs -> {0, 1}]
<1>1. host.tog[d] \in {0, 1} /\ host.tog \in [Dirs -> {0, 1}]
  BY DEF HostOK
<1>2. 1 - host.tog[d] \in {0, 1}
  BY <1>1
<1> QED
  BY <1>1, <1>2 DEF Flipped

LEMMA TokenTypes ==
  ASSUME Types, OutToken \/ InToken
  PROVE  Types'
<1> USE Constants, BufferFacts DEF Types, mainVars, ghostVars
<1>1. CASE OutToken
  <2> DEFINE b == sie.next.out  next == [host EXCEPT !.sent = @ + 1, !.tog.out = 1 - @]
  <2>1. b \in Buffer
    BY DEF SieOK, Dirs
  <2>2. next \in HostType
    <3>1. next = [host EXCEPT !.sent = @ + 1, !.tog = Flipped("out")]
      BY DEF HostOK, Flipped
    <3>2. Flipped("out") \in [Dirs -> {0, 1}]
      BY FlippedOK DEF Dirs
    <3>3. host \in HostType /\ host.sent + 1 \in Nat
      BY DEF HostOK, HostType
    <3>4. \A x \in HostType, m \in Nat, t \in [Dirs -> {0, 1}] :
            [x EXCEPT !.sent = m, !.tog = t] \in HostType
      BY DEF HostType
    <3> HIDE DEF next
    <3> QED
      BY <3>1, <3>2, <3>3, <3>4
  <2>3. CASE host' = next /\ UNCHANGED <<bd, sie, cdc, faults>>
    BY <1>1, <2>2, <2>3 DEF OutToken, BdOK, SieOK, FwOK, CdcOK, HostOK, HostType, RestOK
  <2>4. CASE /\ bd' = [bd EXCEPT !.out[b].own = FALSE, !.out[b].cnt = EpSize]
             /\ sie' = Done("out")
             /\ cdc' = [cdc EXCEPT !.rx = host.sent + 1]
             /\ Acked(host, next)
    <3>1. BdOK' /\ SieOK'
      BY <2>1, <2>4, ReceivedEffect, DoneEffect DEF Dirs
    <3>2. CdcOK' /\ HostOK'
      BY <2>2, <2>4 DEF CdcOK, HostOK, HostType, Acked
    <3> QED
      BY <1>1, <3>1, <3>2 DEF OutToken, FwOK, RestOK
  <2> QED
    BY <1>1, <2>3, <2>4 DEF OutToken
<1>2. CASE InToken
  <2> DEFINE b == sie.next.in  n == bd.in[b].cnt
  <2>1. b \in Buffer /\ n \in Nat
    BY OneDescriptor DEF SieOK, Dirs, Descriptor
  <2>2. Taken(n, cdc.tx) \in HostType
    <3> DEFINE p == IF n < EpSize THEN 0 ELSE host.part + n
               x == host.exact /\ (n = 0 \/ cdc.tx = host.part)
    <3>1. Taken(n, cdc.tx) = [host EXCEPT !.tog = Flipped("in"), !.part = p, !.exact = x]
      BY DEF Taken, HostOK, Flipped
    <3>2. Flipped("in") \in [Dirs -> {0, 1}] /\ p \in Nat /\ x \in BOOLEAN
      BY <2>1, FlippedOK DEF Dirs, HostOK
    <3> HIDE DEF p, x
    <3> QED
      BY <3>1, <3>2 DEF HostOK, HostType
  <2>3. HostOK'
    BY <1>2, <2>2 DEF InToken, HostOK, HostType
  <2>4. Append(toHost, host.part + n) \in Seq(Nat)
    BY <2>1, AppendProperties, SMTT(30) DEF HostOK, RestOK
  <2>5. RestOK'
    BY <1>2, <2>4 DEF InToken, RestOK
  <2>6. BdOK' /\ SieOK'
    BY <1>2, <2>1, SentEffect, DoneEffect DEF InToken, Dirs, BdOK, SieOK
  <2> QED
    BY <1>2, <2>3, <2>5, <2>6 DEF InToken, FwOK, CdcOK
<1> QED
  BY <1>1, <1>2

\* The USTAT FIFO has four places.
Short == Len(sie.ustat) <= 4

LEMMA ShortNext == Types /\ Short /\ [Next]_vars => Short'
<1> SUFFICES ASSUME Types, Short, [Next]_vars PROVE Short'
  OBVIOUS
<1>1. CASE sie' = sie
  BY <1>1 DEF Short
<1>2. CASE sie'.ustat = <<>>
  BY <1>2 DEF Short
<1>3. CASE Transaction
  <2>1. sie'.ustat = Tail(sie.ustat) /\ sie.ustat # <<>> /\ sie.ustat \in Seq(Dirs)
    BY <1>3 DEF Transaction, Types, SieOK
  <2>2. Len(sie'.ustat) = Len(sie.ustat) - 1 /\ Len(sie.ustat) \in Nat
    BY <2>1, HeadTailProperties, LenProperties
  <2> QED
    BY <2>2 DEF Short
<1>4. ASSUME NEW d \in Dirs, Listening(d), sie' = Done(d) PROVE Short'
  <2>1. sie'.ustat = Append(sie.ustat, d) /\ sie.ustat \in Seq(Dirs)
    BY <1>4 DEF Done, Types, SieOK
  <2>2. Len(sie'.ustat) = Len(sie.ustat) + 1 /\ Len(sie.ustat) \in Nat
    BY <2>1, AppendProperties, LenProperties
  <2> QED
    BY <1>4, <2>2 DEF Listening, Short
<1>5. CASE UNCHANGED vars
  BY <1>1, <1>5 DEF vars
<1>6. CASE Main
  BY <1>1, <1>6 DEF Main, MainStart, Gets, GetsCopy, GetsTake, GetsArm, GetsAdvance, GetsAssign, Put,
                    CDCTxService
<1>7. CASE BusReset \/ SetConfiguration \/ Deconfigure
  BY <1>2, <1>7 DEF BusReset, SetConfiguration, Deconfigure, SieInit
<1>8. ASSUME NEW d \in Dirs, SetHalt(d) \/ ClearHalt(d) PROVE Short'
  BY <1>1, <1>8 DEF SetHalt, ClearHalt
<1>9. CASE OutToken \/ InToken
  BY <1>1, <1>4, <1>9 DEF OutToken, InToken, Dirs
<1> QED
  BY <1>3, <1>5, <1>6, <1>7, <1>8, <1>9 DEF Next, Interrupt

LEMMA TypesNext == Types /\ [Next]_vars => Types'
<1> SUFFICES ASSUME Types, [Next]_vars PROVE Types'
  OBVIOUS
<1>1. CASE UNCHANGED vars
  BY <1>1 DEF vars, Types, BdOK, SieOK, FwOK, CdcOK, HostOK, RestOK
<1> QED
  BY <1>1, MainTypes, InterruptTypes, TokenTypes DEF Next

-----------------------------------------------------------------------------
(* Transactions that the interrupt has not seen yet lie between the buffer *)
(* ep_data names and the one the SIE uses next.                            *)

\* From buffer a to buffer z, one flip for each transaction of d in u.
Chain(u, d, a, z) ==
  \E f \in [0 .. Len(u) -> Buffer] :
    /\ f[0] = a /\ f[Len(u)] = z
    /\ \A i \in 1 .. Len(u) : f[i] = IF u[i] = d THEN Other(f[i - 1]) ELSE f[i - 1]

Aligned == \A d \in Dirs : Chain(sie.ustat, d, fw.ep_data[d], sie.next[d])

LEMMA ChainEmpty ==
  \A d \in Dirs, a, z \in Buffer : Chain(<<>>, d, a, z) <=> a = z
<1> TAKE d \in Dirs, a, z \in Buffer
<1>1. Chain(<<>>, d, a, z) => a = z
  BY DEF Chain
<1>2. ASSUME a = z PROVE Chain(<<>>, d, a, z)
  <2> DEFINE f == [i \in 0 .. 0 |-> a]
  <2>1. f \in [0 .. 0 -> Buffer] /\ f[0] = a /\ Len(<<>>) = 0
    OBVIOUS
  <2>2. 1 .. 0 = {}
    OBVIOUS
  <2> HIDE DEF f
  <2> QED
    BY <1>2, <2>1, <2>2 DEF Chain
<1> QED
  BY <1>1, <1>2

LEMMA ChainAppend ==
  ASSUME NEW u \in Seq(Dirs), NEW d \in Dirs, NEW x \in Dirs, NEW a \in Buffer, NEW z \in Buffer,
         Chain(u, d, a, z)
  PROVE  Chain(Append(u, x), d, a, IF x = d THEN Other(z) ELSE z)
<1> DEFINE w == Append(u, x)  y == IF x = d THEN Other(z) ELSE z
<1>1. PICK f \in [0 .. Len(u) -> Buffer] :
        /\ f[0] = a /\ f[Len(u)] = z
        /\ \A i \in 1 .. Len(u) : f[i] = IF u[i] = d THEN Other(f[i - 1]) ELSE f[i - 1]
  BY DEF Chain
<1>2. Len(u) \in Nat /\ Len(w) = Len(u) + 1 /\ w[Len(u) + 1] = x
      /\ \A i \in 1 .. Len(u) : w[i] = u[i]
  BY AppendProperties, LenProperties
<1>3. y \in Buffer
  BY BufferFacts
<1> DEFINE g == [i \in 0 .. Len(w) |-> IF i <= Len(u) THEN f[i] ELSE y]
<1> HIDE DEF w, y
<1>4. g \in [0 .. Len(w) -> Buffer] /\ g[0] = a /\ g[Len(w)] = y
  BY <1>1, <1>2, <1>3
<1>5. ASSUME NEW i \in 1 .. Len(w)
      PROVE  g[i] = IF w[i] = d THEN Other(g[i - 1]) ELSE g[i - 1]
  <2>1. CASE i <= Len(u)
    <3>1. i \in 1 .. Len(u) /\ i - 1 \in 0 .. Len(w) /\ i \in 0 .. Len(w) /\ i - 1 <= Len(u)
      BY <1>2, <2>1
    <3>2. g[i] = f[i] /\ g[i - 1] = f[i - 1] /\ w[i] = u[i]
      BY <1>2, <3>1, <2>1
    <3> QED
      BY <1>1, <3>1, <3>2
  <2>2. CASE i > Len(u)
    <3>1. i = Len(u) + 1 /\ i - 1 = Len(u) /\ Len(u) \in 0 .. Len(w) /\ i \in 0 .. Len(w)
      BY <1>2, <2>2
    <3>2. g[i] = y /\ g[i - 1] = z /\ w[i] = x
      BY <1>1, <1>2, <3>1
    <3> QED
      BY <3>2 DEF y
  <2> QED
    BY <2>1, <2>2, <1>2
<1> HIDE DEF g
<1>6. Chain(w, d, a, y)
  BY <1>4, <1>5 DEF Chain
<1> QED
  BY <1>6 DEF w, y

LEMMA ChainTail ==
  ASSUME NEW u \in Seq(Dirs), u # <<>>, NEW d \in Dirs, NEW a \in Buffer, NEW z \in Buffer,
         Chain(u, d, a, z)
  PROVE  Chain(Tail(u), d, IF Head(u) = d THEN Other(a) ELSE a, z)
<1> DEFINE w == Tail(u)
<1>1. PICK f \in [0 .. Len(u) -> Buffer] :
        /\ f[0] = a /\ f[Len(u)] = z
        /\ \A i \in 1 .. Len(u) : f[i] = IF u[i] = d THEN Other(f[i - 1]) ELSE f[i - 1]
  BY DEF Chain
<1>2. Len(u) \in Nat /\ Len(u) > 0 /\ Len(w) = Len(u) - 1 /\ Head(u) = u[1]
      /\ \A i \in 1 .. Len(w) : w[i] = u[i + 1]
  BY HeadTailProperties, LenProperties, EmptySeq
<1> DEFINE g == [i \in 0 .. Len(w) |-> f[i + 1]]
<1> HIDE DEF w
<1>3. g \in [0 .. Len(w) -> Buffer] /\ g[Len(w)] = z
  BY <1>1, <1>2
<1>4. g[0] = IF Head(u) = d THEN Other(a) ELSE a
  <2>1. 0 \in 0 .. Len(w) /\ 1 \in 1 .. Len(u)
    BY <1>2
  <2>2. g[0] = f[1] /\ f[1] = IF u[1] = d THEN Other(f[0]) ELSE f[0]
    BY <1>1, <2>1
  <2> QED
    BY <1>1, <1>2, <2>2
<1>5. ASSUME NEW i \in 1 .. Len(w)
      PROVE  g[i] = IF w[i] = d THEN Other(g[i - 1]) ELSE g[i - 1]
  <2>1. i + 1 \in 1 .. Len(u) /\ (i + 1) - 1 = i /\ (i - 1) + 1 = i
        /\ i \in 0 .. Len(w) /\ i - 1 \in 0 .. Len(w)
    BY <1>2
  <2>2. f[i + 1] = IF u[i + 1] = d THEN Other(f[i]) ELSE f[i]
    BY <1>1, <2>1
  <2>3. g[i] = f[i + 1] /\ g[i - 1] = f[i] /\ w[i] = u[i + 1]
    BY <1>2, <2>1
  <2> QED
    BY <2>2, <2>3
<1> HIDE DEF g
<1>6. Chain(w, d, IF Head(u) = d THEN Other(a) ELSE a, z)
  BY <1>3, <1>4, <1>5 DEF Chain
<1> QED
  BY <1>6 DEF w

LEMMA AtRest ==
  Types /\ Aligned /\ sie.ustat = <<>> => \A d \in Dirs : fw.ep_data[d] = sie.next[d]
BY ChainEmpty DEF Types, SieOK, FwOK, Aligned

LEMMA AlignedReset ==
  ASSUME sie' = SieInit, fw'.ep_data = Both(0)
  PROVE  Aligned'
<1>1. \A d \in Dirs : sie'.ustat = <<>> /\ fw'.ep_data[d] = 0 /\ sie'.next[d] = 0
  BY DEF SieInit, Both
<1>2. 0 \in Buffer
  BY DEF Buffer
<1> QED
  BY <1>1, <1>2, ChainEmpty DEF Aligned

LEMMA AlignedDone ==
  ASSUME Types, Aligned, NEW x \in Dirs, sie' = Done(x), fw' = fw
  PROVE  Aligned'
<1> SUFFICES ASSUME NEW d \in Dirs PROVE Chain(sie'.ustat, d, fw'.ep_data[d], sie'.next[d])
  BY DEF Aligned
<1>1. sie.ustat \in Seq(Dirs) /\ fw.ep_data[d] \in Buffer /\ sie.next[d] \in Buffer
  BY DEF Types, SieOK, FwOK
<1>2. sie'.ustat = Append(sie.ustat, x)
      /\ sie'.next[d] = IF x = d THEN Other(sie.next[d]) ELSE sie.next[d]
  BY DoneEffect DEF Types
<1> QED
  BY <1>1, <1>2, ChainAppend DEF Aligned

LEMMA AlignedTransaction ==
  ASSUME Types, Aligned, Transaction
  PROVE  Aligned'
<1> SUFFICES ASSUME NEW d \in Dirs PROVE Chain(sie'.ustat, d, fw'.ep_data[d], sie'.next[d])
  BY DEF Aligned
<1>1. sie.ustat \in Seq(Dirs) /\ fw.ep_data[d] \in Buffer /\ sie.next[d] \in Buffer /\ sie.ustat # <<>>
  BY DEF Types, SieOK, FwOK, Transaction
<1>2. sie'.ustat = Tail(sie.ustat) /\ sie'.next[d] = sie.next[d]
      /\ fw'.ep_data[d] = IF Head(sie.ustat) = d THEN Other(fw.ep_data[d]) ELSE fw.ep_data[d]
  BY DEF Types, SieOK, FwOK, Transaction
<1> QED
  BY <1>1, <1>2, ChainTail DEF Aligned

LEMMA AlignedNext == Types /\ Aligned /\ [Next]_vars => Aligned'
<1> SUFFICES ASSUME Types, Aligned, [Next]_vars PROVE Aligned'
  OBVIOUS
<1>1. CASE sie' = sie /\ fw'.ep_data = fw.ep_data
  BY <1>1 DEF Aligned
<1>2. CASE UNCHANGED vars
  BY <1>1, <1>2 DEF vars
<1>3. CASE Main
  <2>1. sie' = sie
    BY <1>3 DEF Main, MainStart, Gets, GetsCopy, GetsTake, GetsArm, GetsAdvance, GetsAssign, Put,
                CDCTxService
  <2>2. fw'.ep_data = fw.ep_data
    BY <1>3 DEF Main, MainStart, Gets, GetsCopy, GetsTake, GetsArm, GetsAdvance, GetsAssign, Put,
                CDCTxService, Send, Types, FwOK
  <2> QED
    BY <1>1, <2>1, <2>2
<1>4. CASE Transaction
  BY <1>4, AlignedTransaction
<1>5. CASE BusReset \/ SetConfiguration \/ Deconfigure
  <2>1. sie' = SieInit
    BY <1>5 DEF BusReset, SetConfiguration, Deconfigure
  <2>2. SetConfiguration => fw'.ep_data = Both(0)
    BY DEF SetConfiguration
  <2>3. BusReset => fw'.ep_data = Both(0)
    BY DEF BusReset, Types, FwOK
  <2>4. Deconfigure => fw'.ep_data = Both(0)
    BY DEF Deconfigure, Types, FwOK
  <2>5. fw'.ep_data = Both(0)
    BY <1>5, <2>2, <2>3, <2>4
  <2> QED
    BY <2>1, <2>5, AlignedReset
<1>6. ASSUME NEW d \in Dirs, SetHalt(d) \/ ClearHalt(d) PROVE Aligned'
  BY <1>1, <1>6 DEF SetHalt, ClearHalt, Types, FwOK
<1>7. CASE OutToken
  <2>1. fw' = fw /\ (sie' = sie \/ sie' = Done("out"))
    BY <1>7 DEF OutToken
  <2> QED
    BY <1>1, <2>1, AlignedDone DEF Dirs
<1>8. CASE InToken
  <2>1. fw' = fw /\ (sie' = sie \/ sie' = Done("in"))
    BY <1>8 DEF InToken
  <2> QED
    BY <1>1, <2>1, AlignedDone DEF Dirs
<1> QED
  BY <1>2, <1>3, <1>4, <1>5, <1>6, <1>7, <1>8 DEF Next, Interrupt

-----------------------------------------------------------------------------
(* From the host.  Either the buffer of CDCDataOutHandle is with the SIE,  *)
(* or it holds a packet that getsUSBUSART has not returned yet, or it was  *)
(* taken back by a CLEAR_FEATURE, or getsUSBUSART is giving the SIE a      *)
(* buffer again.                                                           *)

\* getsUSBUSART has not begun to arm the next buffer.
Resting == pc \in {"main", "gets", "copy", "put", "service"}

\* A packet has come in and getsUSBUSART has not returned it.
Waiting ==
  \/ Resting /\ ~stale /\ ~bd.out[fw.handle.out].own
  \/ pc \in {"advance", "assign"} /\ ~bd.out[local].own

Received == host.base + Len(got) + (IF Waiting THEN 1 ELSE 0)

\* The two buffers of a direction carry both toggles.
Toggles(d) == bd[d][1].dts = 1 - bd[d][0].dts

\* The buffer is at the SIE; if it was taken back before, only to stall.
OutArmed ==
  Resting /\ bd.out[fw.handle.out].own =>
    /\ sie.next.out = fw.handle.out /\ ~bd.out[Other(fw.handle.out)].own
    /\ ~host.halted.out => fw.pBDT.out = Other(fw.handle.out) /\ ~stale

\* The buffer was taken back: the SIE and the driver go on with it.
OutTakenBack ==
  Resting /\ stale /\ ~bd.out[fw.handle.out].own =>
    /\ sie.next.out = fw.handle.out /\ ~bd.out[Other(fw.handle.out)].own
    /\ fw.pBDT.out = fw.handle.out

\* There is a packet in the buffer: they go on with the other one.
OutWaiting ==
  Resting /\ ~stale /\ ~bd.out[fw.handle.out].own =>
    /\ sie.next.out = Other(fw.handle.out) /\ fw.pBDT.out = sie.next.out
    /\ bd.out[sie.next.out].own => host.halted.out

\* getsUSBUSART is about to arm the one they go on with.
OutTaking ==
  pc \in {"take", "arm"} =>
    /\ fw.pBDT.out = sie.next.out /\ ~bd.out[Other(sie.next.out)].own
    /\ bd.out[sie.next.out].own => host.halted.out
    /\ pc = "arm" => local = sie.next.out

\* It is armed and not yet the driver's.
OutPassing ==
  pc \in {"advance", "assign"} =>
    /\ local \in Buffer /\ bd.out[local].cnt = EpSize /\ ~bd.out[Other(local)].own
    /\ fw.pBDT.out = IF pc = "advance" THEN local ELSE Other(local)
    /\ sie.next.out = IF bd.out[local].own THEN local ELSE Other(local)

OutPlaces ==
  /\ fw.handle.out \in Buffer /\ bd.out[fw.handle.out].cnt = EpSize
  /\ OutArmed /\ OutTakenBack /\ OutWaiting /\ OutTaking /\ OutPassing
  /\ pc = "copy" => ~bd.out[fw.handle.out].own
  /\ stale => Resting

\* The host has sent what was received, but for an acknowledgement it has lost.
OutCount ==
  /\ host.sent = Received - (IF host.tog.out = bd.out[sie.next.out].dts THEN 0 ELSE 1)
  /\ Waiting => cdc.rx = Received
  /\ got = [k \in 1 .. Len(got) |-> host.base + k]

OutBody == Toggles("out") /\ OutPlaces /\ OutCount
OutInv == fw.configured /\ ~upset.out => OutBody

\* While a packet waits the SIE has neither the buffer of CDCDataOutHandle nor
\* one that was taken back.
LEMMA WaitingFree ==
  ASSUME OutBody, Waiting
  PROVE  ~stale /\ ~bd.out[fw.handle.out].own
<1>1. CASE Resting
  BY <1>1 DEF Waiting, Resting
<1>2. CASE ~Resting
  <2>1. pc \in {"advance", "assign"} /\ ~bd.out[local].own
    BY <1>2 DEF Waiting
  <2>2. ~stale /\ fw.handle.out \in Buffer
    BY <1>2 DEF OutBody, OutPlaces
  <2>3. local \in Buffer /\ ~bd.out[Other(local)].own
    BY <2>1 DEF OutBody, OutPlaces, OutPassing
  <2>4. fw.handle.out = local \/ fw.handle.out = Other(local)
    BY <2>2, <2>3 DEF Buffer, Other, NULL
  <2> QED
    BY <2>1, <2>2, <2>3, <2>4
<1> QED
  BY <1>1, <1>2

LEMMA OutImplies == Types /\ OutInv => OutExact
<1> SUFFICES ASSUME Types, OutInv, fw.configured, ~upset.out
             PROVE  /\ got = [k \in 1 .. Len(got) |-> host.base + k]
                    /\ host.sent > host.base + Len(got) =>
                         /\ host.sent = host.base + Len(got) + 1
                         /\ ~Busy("out") /\ ~stale /\ cdc.rx = host.sent
  BY DEF OutExact
<1>1. OutBody /\ OutCount
  BY DEF OutInv, OutBody
<1>2. host.sent \in Nat /\ host.base \in Nat /\ Len(got) \in Nat
  BY LenProperties DEF Types, HostOK, RestOK
<1>3. ASSUME host.sent > host.base + Len(got)
      PROVE  Waiting /\ host.sent = Received /\ Received = host.base + Len(got) + 1
  BY <1>1, <1>2, <1>3 DEF OutCount, Received
<1>4. Waiting => ~Busy("out") /\ ~stale
  BY <1>1, WaitingFree DEF Busy
<1> QED
  BY <1>1, <1>3, <1>4 DEF OutCount

LEMMA OutInit == Init => OutInv
BY DEF Init, OutInv

\* What OutBody reads.
LEMMA OutFrame ==
  ASSUME OutBody, UNCHANGED <<bd.out, sie.next.out, fw.pBDT.out, fw.handle.out, cdc.rx,
           host.sent, host.base, host.tog.out, host.halted.out, got, stale>>,
         \/ Resting /\ Resting' /\ pc' # "copy"
         \/ pc' = pc /\ local' = local
  PROVE  OutBody'
<1>1. Toggles("out")'
  BY DEF OutBody, Toggles
<1>2. CASE Resting /\ Resting' /\ pc' # "copy"
  <2>1. Waiting' = Waiting
    BY <1>2 DEF Waiting, Resting
  <2> QED
    BY <1>1, <1>2, <2>1 DEF OutBody, OutPlaces, OutArmed, OutTakenBack, OutWaiting, OutTaking, OutPassing,
                            OutCount, Received, Resting
<1>3. CASE pc' = pc /\ local' = local
  <2>1. Waiting' = Waiting /\ Resting' = Resting
    BY <1>3 DEF Waiting, Resting
  <2> QED
    BY <1>1, <1>3, <2>1 DEF OutBody, OutPlaces, OutArmed, OutTakenBack, OutWaiting, OutTaking, OutPassing,
                            OutCount, Received
<1> QED
  BY <1>2, <1>3

LEMMA OutNumbers ==
  ASSUME Types, OutBody
  PROVE  /\ host.sent \in Nat /\ host.base \in Nat /\ Len(got) \in Nat /\ cdc.rx \in Nat
         /\ host.tog.out \in {0, 1} /\ fw.pBDT.out \in Pointer
         /\ fw.handle.out \in Buffer /\ fw.handle.out # NULL /\ sie.next.out \in Buffer
         /\ \A b \in Buffer : bd.out[b] \in Descriptor
         /\ \A b \in Buffer : bd.out[Other(b)].dts = 1 - bd.out[b].dts
<1>1. fw.handle.out \in Buffer
  BY DEF OutBody, OutPlaces
<1>2. \A b \in Buffer : bd.out[b] \in Descriptor
  BY OneDescriptor DEF Types, Dirs
<1>3. \A b \in Buffer : bd.out[Other(b)].dts = 1 - bd.out[b].dts
  <2>1. bd.out[0].dts \in {0, 1} /\ bd.out[1].dts = 1 - bd.out[0].dts
    BY <1>2 DEF Buffer, Descriptor, OutBody, Toggles
  <2>2. Other(0) = 1 /\ Other(1) = 0
    BY DEF Other, NULL
  <2> QED
    BY <2>1, <2>2 DEF Buffer
<1> QED
  BY <1>1, <1>2, <1>3, BufferFacts, LenProperties DEF Types, SieOK, FwOK, CdcOK, HostOK, RestOK, Dirs

LEMMA OutGets ==
  ASSUME Types, OutBody, Gets
  PROVE  OutBody'
<1> USE OutNumbers
<1>1. pc = "gets" /\ Resting
      /\ UNCHANGED <<bd, sie, fw, cdc, local, host, got, stale>>
  BY DEF Gets, ghostVars, Resting
<1>2. CASE Busy("out")
  BY <1>1, <1>2, OutFrame DEF Gets, Resting
<1>3. CASE ~Busy("out")
  <2>1. pc' = "copy" /\ ~bd.out[fw.handle.out].own /\ Resting' /\ Waiting' = Waiting
    BY <1>1, <1>3 DEF Gets, Busy, Waiting, Resting
  <2>2. Toggles("out")' /\ OutCount'
    BY <1>1, <2>1 DEF OutBody, Toggles, OutCount, Received
  <2>3. OutPlaces'
    BY <1>1, <2>1 DEF OutBody, OutPlaces, OutArmed, OutTakenBack, OutWaiting, OutTaking, OutPassing
  <2> QED
    BY <2>2, <2>3 DEF OutBody
<1> QED
  BY <1>2, <1>3

LEMMA NextPacket ==
  \A q \in Seq(Nat), base \in Nat :
    q = [k \in 1 .. Len(q) |-> base + k] =>
      LET r == Append(q, base + Len(q) + 1) IN
        r = [k \in 1 .. Len(r) |-> base + k]
<1> TAKE q \in Seq(Nat), base \in Nat
<1> HAVE q = [k \in 1 .. Len(q) |-> base + k]
<1> DEFINE r == Append(q, base + Len(q) + 1)
<1>1. Len(q) \in Nat /\ base + Len(q) + 1 \in Nat
  BY LenProperties
<1>2. r \in Seq(Nat) /\ Len(r) = Len(q) + 1 /\ r[Len(q) + 1] = base + Len(q) + 1
      /\ \A k \in 1 .. Len(q) : r[k] = q[k]
  BY <1>1, AppendProperties
<1> HIDE DEF r
<1>3. ASSUME NEW k \in 1 .. Len(r) PROVE r[k] = base + k
  <2>1. CASE k \in 1 .. Len(q)
    <3>1. q[k] = base + k
      BY <2>1
    <3> QED
      BY <3>1, <1>2, <2>1
  <2>2. CASE k = Len(q) + 1
    BY <1>1, <1>2, <2>2
  <2> QED
    BY <1>1, <1>2, <2>1, <2>2
<1>4. r = [k \in 1 .. Len(r) |-> r[k]]
  BY <1>2
<1>5. [k \in 1 .. Len(r) |-> r[k]] = [k \in 1 .. Len(r) |-> base + k]
  BY <1>3
<1>6. r = [k \in 1 .. Len(r) |-> base + k]
  BY <1>4, <1>5
<1> QED
  BY <1>6 DEF r

\* A buffer that was taken back gives nothing; any other gives its packet.
LEMMA OutGetsCopy ==
  ASSUME Types, OutBody, GetsCopy
  PROVE  OutBody'
<1> USE OutNumbers
<1>1. /\ pc = "copy" /\ pc' = "take" /\ UNCHANGED <<bd, sie, fw, cdc, local, host>> /\ ~stale'
      /\ ~bd.out[fw.handle.out].own /\ Resting /\ ~Resting' /\ ~Waiting'
  BY DEF GetsCopy, Resting, Waiting, OutBody, OutPlaces
<1>2. got \in Seq(Nat) /\ got = [k \in 1 .. Len(got) |-> host.base + k]
  BY DEF Types, RestOK, OutBody, OutCount
<1>3. got' = [k \in 1 .. Len(got') |-> host.base + k] /\ Received' = Received
  <2>1. CASE stale
    <3>1. got' = got /\ ~Waiting
      BY <1>1, <2>1 DEF GetsCopy, Waiting
    <3> QED
      BY <1>1, <1>2, <3>1 DEF Received
  <2>2. CASE ~stale
    <3>1. Waiting
      BY <1>1, <2>2 DEF Waiting
    <3>2. got' = Append(got, cdc.rx)
      BY <1>1, <2>2, Constants DEF GetsCopy, OutBody, OutPlaces
    <3>3. cdc.rx = Received /\ Received = host.base + Len(got) + 1
      BY <3>1 DEF OutBody, OutCount, Received
    <3>4. Len(got') = Len(got) + 1
      BY <1>2, <3>2, AppendProperties
    <3>5. Received' = Received
      BY <1>1, <3>3, <3>4 DEF Received
    <3>6. host.base \in Nat /\ host'.base = host.base
      BY <1>1
    <3>7. got' = Append(got, host.base + Len(got) + 1)
      BY <3>2, <3>3
    <3>8. got' = [k \in 1 .. Len(got') |-> host.base + k]
      BY <1>2, <3>6, <3>7, NextPacket
    <3> QED
      BY <3>5, <3>8
  <2> QED
    BY <2>1, <2>2
<1>4. OutCount'
  BY <1>1, <1>3 DEF OutBody, OutCount
<1>5. /\ fw.pBDT.out = sie.next.out /\ ~bd.out[Other(sie.next.out)].own
      /\ bd.out[sie.next.out].own => host.halted.out
  BY <1>1, BufferFacts DEF OutBody, OutPlaces, OutTakenBack, OutWaiting
<1>6. Toggles("out")' /\ OutPlaces'
  BY <1>1, <1>5 DEF OutBody, Toggles, OutPlaces, OutArmed, OutTakenBack, OutWaiting, OutTaking, OutPassing
<1> QED
  BY <1>4, <1>6 DEF OutBody

LEMMA OutGetsTake ==
  ASSUME Types, OutBody, GetsTake
  PROVE  OutBody'
<1> USE OutNumbers, BufferFacts
<1>1. pc = "take" /\ UNCHANGED <<bd, sie, fw, cdc, host, got, stale>> /\ local' = fw.pBDT.out /\ ~Resting
  BY DEF GetsTake, ghostVars, Resting
<1>2. fw.pBDT.out = sie.next.out
  BY <1>1 DEF OutBody, OutPlaces, OutTaking
<1>3. pc' = "arm" /\ ~Resting' /\ ~Waiting /\ ~Waiting'
  BY <1>1, <1>2 DEF GetsTake, Resting, Waiting
<1>4. Toggles("out")' /\ OutCount'
  BY <1>1, <1>3 DEF OutBody, Toggles, OutCount, Received
<1>5. OutPlaces'
  BY <1>1, <1>2, <1>3
  DEF OutBody, OutPlaces, OutArmed, OutTakenBack, OutWaiting, OutTaking, OutPassing
<1> QED
  BY <1>4, <1>5 DEF OutBody

LEMMA OutGetsArm ==
  ASSUME Types, OutBody, GetsArm
  PROVE  OutBody'
<1> USE OutNumbers, BufferFacts
<1>1. pc = "arm" /\ pc' = "advance" /\ UNCHANGED <<sie, fw, cdc, local, host, got, stale>>
      /\ bd' = Armed("out", local, EpSize)
  BY DEF GetsArm, ghostVars
<1>2. /\ local = sie.next.out /\ fw.pBDT.out = local /\ ~bd.out[Other(local)].own
      /\ bd.out[fw.handle.out].cnt = EpSize /\ local \in Buffer /\ ~stale
      /\ ~Waiting /\ ~Resting
  BY <1>1 DEF OutBody, OutPlaces, OutTaking, Resting, Waiting
<1>3. EpSize \in 0 .. EpSize /\ BdOK /\ "out" \in Dirs
  BY Constants DEF Types, Dirs
<1>4. bd'["out"][local] = BD(TRUE, bd["out"][local].dts, EpSize) /\ Elsewhere(bd, bd', "out", local)
  BY <1>1, <1>2, <1>3, ArmedEffect
<1>5. /\ bd'.out[local].own /\ bd'.out[local].cnt = EpSize /\ bd'.out[local].dts = bd.out[local].dts
      /\ bd'.out[Other(local)] = bd.out[Other(local)]
  BY <1>2, <1>3, <1>4 DEF BD, Elsewhere
<1>6. ~Waiting' /\ ~Resting'
  BY <1>1, <1>5 DEF Waiting, Resting
<1>7. Toggles("out")'
  <2>1. (local = 0 /\ Other(local) = 1) \/ (local = 1 /\ Other(local) = 0)
    BY <1>2 DEF Buffer, Other, NULL
  <2>2. bd'.out[0].dts = bd.out[0].dts /\ bd'.out[1].dts = bd.out[1].dts
    BY <1>5, <2>1
  <2> QED
    BY <2>2 DEF OutBody, Toggles
<1>8. OutCount'
  BY <1>1, <1>2, <1>5, <1>6 DEF OutBody, OutCount, Received
<1>9. bd'.out[fw.handle.out].cnt = EpSize
  <2>1. fw.handle.out = local \/ fw.handle.out = Other(local)
    BY <1>2 DEF Buffer, Other, NULL
  <2> QED
    BY <1>2, <1>5, <2>1
<1>10. OutPlaces'
  BY <1>1, <1>2, <1>5, <1>6, <1>9
  DEF OutPlaces, OutArmed, OutTakenBack, OutWaiting, OutTaking, OutPassing
<1> QED
  BY <1>7, <1>8, <1>10 DEF OutBody

LEMMA OutGetsAdvance ==
  ASSUME Types, OutBody, GetsAdvance
  PROVE  OutBody'
<1> USE OutNumbers, BufferFacts
<1>1. pc = "advance" /\ pc' = "assign" /\ UNCHANGED <<bd, sie, cdc, local, host, got, stale>>
      /\ ~Resting /\ ~Resting'
  BY DEF GetsAdvance, ghostVars, Resting
<1>2. fw'.handle = fw.handle /\ fw'.pBDT.out = Other(fw.pBDT.out)
  BY DEF GetsAdvance, Types, FwOK, Dirs
<1>3. Waiting' = Waiting
  BY <1>1 DEF Waiting
<1>4. Toggles("out")' /\ OutCount'
  BY <1>1, <1>3 DEF OutBody, Toggles, OutCount, Received
<1>5. OutPlaces'
  BY <1>1, <1>2 DEF OutBody, OutPlaces, OutArmed, OutTakenBack, OutWaiting, OutTaking, OutPassing
<1> QED
  BY <1>4, <1>5 DEF OutBody

LEMMA OutGetsAssign ==
  ASSUME Types, OutBody, GetsAssign
  PROVE  OutBody'
<1> USE OutNumbers, BufferFacts
<1>1. pc = "assign" /\ pc' = "put" /\ UNCHANGED <<bd, sie, cdc, host, got, stale>>
      /\ ~Resting /\ Resting'
  BY DEF GetsAssign, ghostVars, Resting
<1>2. fw'.handle.out = local /\ fw'.pBDT.out = fw.pBDT.out
  BY DEF GetsAssign, Types, FwOK, Dirs
<1>3. ~stale
  BY <1>1 DEF OutBody, OutPlaces
<1>4. Waiting' = Waiting
  BY <1>1, <1>2, <1>3 DEF Waiting, Resting
<1>5. Toggles("out")' /\ OutCount'
  BY <1>1, <1>4 DEF OutBody, Toggles, OutCount, Received
<1>6. OutPlaces'
  BY <1>1, <1>2, <1>3 DEF OutBody, OutPlaces, OutArmed, OutTakenBack, OutWaiting, OutTaking, OutPassing
<1> QED
  BY <1>5, <1>6 DEF OutBody

LEMMA OutMain ==
  ASSUME Types, OutBody, Main
  PROVE  OutBody'
<1>1. CASE MainStart
  BY <1>1, OutFrame DEF MainStart, Resting, ghostVars
<1>2. CASE Put
  <2>1. UNCHANGED <<bd, sie, fw, host, got, stale>> /\ Resting /\ Resting' /\ pc' # "copy"
    BY <1>2 DEF Put, Resting
  <2>2. cdc'.rx = cdc.rx
    BY <1>2 DEF Put, Types, CdcOK
  <2> QED
    BY <2>1, <2>2, OutFrame
<1>3. CASE CDCTxService
  <2>1. UNCHANGED <<sie, host, got, stale>> /\ Resting /\ Resting' /\ pc' # "copy"
    BY <1>3 DEF CDCTxService, Resting, ghostVars
  <2>2. cdc'.rx = cdc.rx
    BY <1>3 DEF CDCTxService, Send, Idle, Types, CdcOK
  <2>3. fw'.pBDT.out = fw.pBDT.out /\ fw'.handle.out = fw.handle.out
    <3>1. fw' = fw \/ fw' = [fw EXCEPT !.handle.in = fw.pBDT.in, !.pBDT.in = Other(fw.pBDT.in)]
      BY <1>3 DEF CDCTxService, Send
    <3> QED
      BY <3>1 DEF Types, FwOK, Dirs
  <2>4. bd'.out = bd.out
    BY <1>3 DEF CDCTxService, Send, Armed, Types, BdOK, Descriptors, Dirs
  <2> QED
    BY <2>1, <2>2, <2>3, <2>4, OutFrame
<1> QED
  BY <1>1, <1>2, <1>3, OutGets, OutGetsCopy, OutGetsTake, OutGetsArm, OutGetsAdvance, OutGetsAssign
  DEF Main

LEMMA OutSetHalt ==
  ASSUME Types, Aligned, sie.ustat = <<>>, OutBody, SetHalt("out"), ~InGets
  PROVE  OutBody'
<1> USE OutNumbers, BufferFacts
<1> DEFINE n == sie.next.out
<1>1. fw.ep_data.out = n /\ n \in Buffer /\ "out" \in Dirs /\ BdOK
  BY AtRest DEF Dirs, Types
<1>2. Resting /\ Resting' /\ pc # "copy" /\ UNCHANGED <<pc, sie, cdc, local, got, stale>>
  BY DEF SetHalt, InGets, Resting, mainVars, Types, RestOK
<1>3. bd' = [bd EXCEPT !["out"][n].own = TRUE, !["out"][n].stall = TRUE]
  BY <1>1 DEF SetHalt
<1>4. bd'["out"][n] = [bd["out"][n] EXCEPT !.own = TRUE, !.stall = TRUE]
      /\ Elsewhere(bd, bd', "out", n)
  BY <1>1, <1>3, HaltEffect
<1>5. /\ bd'.out[n].own /\ \A b \in Buffer : /\ b # n => bd'.out[b].own = bd.out[b].own
                                             /\ bd'.out[b].dts = bd.out[b].dts
                                             /\ bd'.out[b].cnt = bd.out[b].cnt
  <2>1. bd["out"][n] \in Descriptor
    BY <1>1
  <2>2. bd'.out[n].own /\ bd'.out[n].dts = bd.out[n].dts /\ bd'.out[n].cnt = bd.out[n].cnt
    BY <1>4, <2>1 DEF Descriptor
  <2>3. \A b \in Buffer : b # n => bd'.out[b] = bd.out[b]
    BY <1>1, <1>4 DEF Elsewhere
  <2> QED
    BY <2>2, <2>3
<1>6. fw'.handle.out = fw.handle.out /\ fw'.pBDT.out = n
  BY <1>1 DEF SetHalt, Types, FwOK
<1>7. host'.halted.out /\ UNCHANGED <<host.sent, host.base, host.tog>>
  BY DEF SetHalt, Types, HostOK, Dirs
<1> HIDE DEF n
<1>8. Toggles("out")'
  BY <1>5 DEF OutBody, Toggles, Buffer
<1>9. Waiting' = Waiting
  <2>1. CASE n = fw.handle.out
    <3>1. bd.out[fw.handle.out].own \/ stale
      BY <1>1, <1>2, <2>1 DEF OutBody, OutPlaces, OutWaiting, n
    <3> QED
      BY <1>2, <1>5, <1>6, <2>1, <3>1 DEF Waiting, Resting
  <2>2. CASE n # fw.handle.out
    BY <1>2, <1>5, <1>6, <2>2 DEF Waiting, Resting
  <2> QED
    BY <2>1, <2>2
<1>10. OutCount'
  BY <1>1, <1>2, <1>5, <1>7, <1>9 DEF OutBody, OutCount, Received, n
<1>11. OutPlaces'
  <2>1. fw.handle.out \in Buffer /\ bd'.out[fw.handle.out].cnt = EpSize
    BY <1>5 DEF OutBody, OutPlaces
  <2>2. OutArmed'
    BY <1>1, <1>2, <1>5, <1>6, <1>7 DEF OutBody, OutPlaces, OutArmed, OutTakenBack, OutWaiting, n
  <2>3. OutTakenBack'
    BY <1>1, <1>2, <1>5, <1>6, <1>7 DEF OutBody, OutPlaces, OutArmed, OutTakenBack, OutWaiting, n
  <2>4. OutWaiting'
    BY <1>1, <1>2, <1>5, <1>6, <1>7 DEF OutBody, OutPlaces, OutArmed, OutTakenBack, OutWaiting, n
  <2> QED
    BY <1>2, <1>6, <2>1, <2>2, <2>3, <2>4 DEF OutPlaces, OutTaking, OutPassing, Resting
<1> QED
  BY <1>8, <1>10, <1>11 DEF OutBody

\* Whatever the buffers hold, the SIE has none of them, and goes on with the
\* one it would have used, as the driver does.
LEMMA OutClearHalt ==
  ASSUME Types, Aligned, sie.ustat = <<>>, OutBody, ClearHalt("out"), ~InGets,
         host.tog.out = bd.out[sie.next.out].dts
  PROVE  OutBody'
<1> USE OutNumbers, BufferFacts
<1> SUFFICES ASSUME NEW n \in Buffer, NEW o \in Buffer, NEW h \in Buffer,
                    n = sie.next.out, o = Other(n), h = fw.handle.out
             PROVE  OutBody'
  OBVIOUS
<1>1. fw.ep_data.out = n /\ "out" \in Dirs /\ BdOK /\ n # o
  BY AtRest DEF Dirs, Types
<1>2. Resting /\ Resting' /\ pc # "copy" /\ UNCHANGED <<pc, sie, cdc, local, got>>
  BY DEF ClearHalt, InGets, Resting, mainVars, Types, RestOK
<1>3. bd' = Cleared("out", n, o)
  BY <1>1 DEF ClearHalt, Realign, Cleared
<1>4. /\ ~bd'.out[n].own /\ bd'.out[n].dts = 0 /\ bd'.out[n].cnt = bd.out[n].cnt
      /\ ~bd'.out[o].own /\ bd'.out[o].dts = 1 /\ bd'.out[o].cnt = bd.out[o].cnt
  BY <1>1, <1>3, ClearEffect, ZenonT(30)
<1>5. fw'.handle.out = h /\ fw'.pBDT.out = n
  BY <1>1 DEF ClearHalt, Realign, Types, FwOK
<1>6. host'.tog.out = 0 /\ UNCHANGED <<host.sent, host.base>>
  BY DEF ClearHalt, Types, HostOK, Dirs
<1>7. (h = n \/ h = o) /\ ~bd'.out[h].own /\ bd'.out[h].cnt = EpSize
  <2>1. h = n \/ h = o
    BY <1>1 DEF Buffer, Other, NULL
  <2> QED
    BY <1>4, <2>1 DEF OutBody, OutPlaces
<1>8. stale' = (stale \/ bd.out[h].own)
  BY DEF ClearHalt, Busy
<1>9. stale' => n = h
  BY <1>2, <1>8 DEF OutBody, OutPlaces, OutArmed, OutTakenBack
<1>10. ~stale' => n = Other(h)
  BY <1>2, <1>8 DEF OutBody, OutPlaces, OutWaiting
<1>11. Waiting' = Waiting
  BY <1>2, <1>5, <1>7, <1>8 DEF Waiting, Resting
<1>12. host.sent = Received
  BY DEF OutBody, OutCount, Received
<1>13. OutCount'
  BY <1>2, <1>4, <1>6, <1>11, <1>12 DEF OutBody, OutCount, Received
<1>14. OutPlaces'
  BY <1>1, <1>2, <1>4, <1>5, <1>7, <1>9, <1>10
  DEF OutPlaces, OutArmed, OutTakenBack, OutWaiting, OutTaking, OutPassing, Resting
<1>15. Toggles("out")'
  <2>1. (o = 0 /\ n = 1) \/ (o = 1 /\ n = 0)
    BY <1>1 DEF Buffer, Other, NULL
  <2> QED
    BY <2>1, <1>4 DEF Toggles
<1> QED
  BY <1>13, <1>14, <1>15 DEF OutBody

\* The SIE takes packets only into the buffer the driver gave it last.
LEMMA OutListening ==
  ASSUME Types, OutBody, Listening("out")
  PROVE  /\ ~host.halted.out /\ bd.out[sie.next.out].own
         /\ ~Waiting /\ ~stale /\ pc \notin {"copy", "take", "arm"}
         /\ ~bd.out[Other(sie.next.out)].own
         /\ Resting => sie.next.out = fw.handle.out /\ fw.pBDT.out = Other(sie.next.out)
         /\ pc \in {"advance", "assign"} => sie.next.out = local
<1> USE OutNumbers, BufferFacts
<1>1. ~host.halted.out /\ bd.out[sie.next.out].own
  BY DEF Listening
<1>2. CASE Resting
  <2>1. bd.out[fw.handle.out].own
    BY <1>1, <1>2 DEF OutBody, OutPlaces, OutTakenBack, OutWaiting
  <2>2. sie.next.out = fw.handle.out /\ fw.pBDT.out = Other(sie.next.out) /\ ~stale
        /\ ~bd.out[Other(sie.next.out)].own
    BY <1>1, <1>2, <2>1 DEF OutBody, OutPlaces, OutArmed
  <2>3. pc # "copy"
    BY <2>1 DEF OutBody, OutPlaces
  <2> QED
    BY <1>1, <1>2, <2>1, <2>2, <2>3 DEF Waiting, Resting
<1>3. CASE ~Resting
  <2>1. pc \notin {"take", "arm"}
    BY <1>1 DEF OutBody, OutPlaces, OutTaking
  <2>2. pc \in {"advance", "assign"} /\ ~stale
    BY <1>3, <2>1 DEF Resting, Types, RestOK, OutBody, OutPlaces
  <2>3. local \in Buffer /\ ~bd.out[Other(local)].own
        /\ sie.next.out = IF bd.out[local].own THEN local ELSE Other(local)
    BY <2>2 DEF OutBody, OutPlaces, OutPassing
  <2>4. sie.next.out = local
    BY <1>1, <2>3
  <2> QED
    BY <1>1, <1>3, <2>2, <2>3, <2>4 DEF Waiting, Resting
<1> QED
  BY <1>2, <1>3

\* A packet that was received before is only acknowledged again.
LEMMA OutRepeated ==
  ASSUME Types, OutBody, bd.out[sie.next.out].dts # host.tog.out,
         UNCHANGED <<bd, sie, fw, cdc, pc, local, got, stale>>,
         host' = [host EXCEPT !.sent = @ + 1, !.tog.out = 1 - @]
  PROVE  OutBody'
<1> USE OutNumbers
<1>1. /\ host'.sent = host.sent + 1 /\ host'.tog.out = 1 - host.tog.out
      /\ host'.base = host.base /\ host'.halted.out = host.halted.out
  BY DEF Types, HostOK, Dirs
<1>2. Waiting' = Waiting /\ Resting' = Resting
  BY DEF Waiting, Resting
<1>3. host.sent = Received - 1 /\ Received' = Received /\ Received \in Nat
  BY <1>1, <1>2 DEF OutBody, OutCount, Received
<1>4. host'.tog.out = bd.out[sie.next.out].dts
  BY <1>1 DEF Descriptor
<1>5. OutCount'
  BY <1>1, <1>2, <1>3, <1>4 DEF OutBody, OutCount
<1>6. Toggles("out")' /\ OutPlaces'
  BY <1>1, <1>2
  DEF OutBody, Toggles, OutPlaces, OutArmed, OutTakenBack, OutWaiting, OutTaking, OutPassing
<1> QED
  BY <1>5, <1>6 DEF OutBody

LEMMA OutReceived ==
  ASSUME Types, OutBody, Listening("out"), bd.out[sie.next.out].dts = host.tog.out,
         UNCHANGED <<fw, pc, local, got, stale>>,
         bd' = [bd EXCEPT !.out[sie.next.out].own = FALSE, !.out[sie.next.out].cnt = EpSize],
         sie' = Done("out"), cdc' = [cdc EXCEPT !.rx = host.sent + 1],
         \/ host' = host
         \/ host' = [host EXCEPT !.sent = @ + 1, !.tog.out = 1 - @]
  PROVE  OutBody'
<1> USE OutNumbers, BufferFacts
<1> SUFFICES ASSUME NEW n \in Buffer, NEW o \in Buffer, n = sie.next.out, o = Other(n)
             PROVE  OutBody'
  OBVIOUS
<1>1. /\ ~bd'.out[n].own /\ bd'.out[n].cnt = EpSize /\ bd'.out[n].dts = bd.out[n].dts
      /\ bd'.out[o] = bd.out[o] /\ n # o /\ n = Other(o)
  BY ReceivedEffect DEF Types, Elsewhere, Dirs
<1>2. sie'.next.out = o
  BY DoneEffect DEF Types, Dirs
<1>3. cdc'.rx = host.sent + 1
  BY DEF Types, CdcOK
<1>4. /\ host'.base = host.base /\ host'.halted.out = host.halted.out
      /\ \/ host'.sent = host.sent /\ host'.tog.out = host.tog.out
         \/ host'.sent = host.sent + 1 /\ host'.tog.out = 1 - host.tog.out
  BY DEF Types, HostOK, Dirs
<1>5. /\ ~host.halted.out /\ ~Waiting /\ ~stale /\ pc \notin {"copy", "take", "arm"}
      /\ ~bd.out[o].own
      /\ Resting => n = fw.handle.out /\ fw.pBDT.out = o
      /\ pc \in {"advance", "assign"} => n = local
  BY OutListening
<1>6. (Resting \/ pc \in {"advance", "assign"}) /\ Resting' = Resting
  BY <1>5 DEF Resting, Types, RestOK
<1>7. Waiting'
  BY <1>1, <1>5, <1>6 DEF Waiting, Resting
<1>8. host.sent = Received /\ Received = host.base + Len(got) /\ Received' = host.base + Len(got) + 1
  BY <1>4, <1>5, <1>7 DEF OutBody, OutCount, Received
<1>9. bd'.out[o].dts = 1 - bd.out[n].dts
  BY <1>1, SMTT(30)
<1>10. bd.out[n].dts \in {0, 1}
  BY DEF Descriptor
<1>11. OutCount'
  <2>1. got' = [k \in 1 .. Len(got') |-> host'.base + k]
    BY <1>4 DEF OutBody, OutCount
  <2>2. bd'.out[o].dts # host.tog.out
    BY <1>9, <1>10
  <2>3. host'.sent = Received' - (IF host'.tog.out = bd'.out[o].dts THEN 0 ELSE 1)
    BY <1>4, <1>8, <1>9, <1>10, <2>2
  <2> QED
    BY <1>2, <1>3, <1>7, <1>8, <2>1, <2>3 DEF OutCount
<1>12. OutPlaces'
  <2>1. fw.handle.out = n \/ fw.handle.out = o
    BY <1>1 DEF Buffer, Other, NULL
  <2>2. fw.handle.out \in Buffer /\ bd'.out[fw.handle.out].cnt = EpSize /\ ~bd'.out[fw.handle.out].own
    BY <1>1, <1>5, <2>1 DEF OutBody, OutPlaces
  <2>3. OutArmed' /\ OutTakenBack' /\ OutTaking'
    BY <1>5, <2>2 DEF OutArmed, OutTakenBack, OutTaking
  <2>4. OutWaiting'
    BY <1>1, <1>2, <1>5, <1>6 DEF OutWaiting
  <2>5. OutPassing'
    BY <1>1, <1>2, <1>5 DEF OutBody, OutPlaces, OutPassing
  <2> QED
    BY <1>5, <2>2, <2>3, <2>4, <2>5 DEF OutPlaces
<1>13. Toggles("out")'
  <2>1. (o = 0 /\ n = 1) \/ (o = 1 /\ n = 0)
    BY <1>1 DEF Buffer
  <2> QED
    BY <2>1, <1>1, <1>9, <1>10, SMTT(30) DEF Toggles
<1> QED
  BY <1>11, <1>12, <1>13 DEF OutBody

LEMMA OutConfigured ==
  ASSUME Types, SetConfiguration, ~InGets
  PROVE  OutBody'
<1>1. Resting' /\ pc' # "copy" /\ ~stale' /\ UNCHANGED <<pc, local>>
  BY DEF SetConfiguration, mainVars, InGets, Resting, Types, RestOK
<1>2. /\ bd'.out[0] = BD(TRUE, 0, EpSize) /\ ~bd'.out[1].own /\ bd'.out[1].dts = 1
      /\ sie'.next.out = 0 /\ fw'.handle.out = 0 /\ fw'.pBDT.out = 1
  <2>1. bd' = ConfiguredBDs /\ sie' = SieInit /\ fw'.handle.out = 0 /\ fw'.pBDT.out = 1
    BY DEF SetConfiguration
  <2>2. ConfiguredBDs["out"][0] = BD(TRUE, 0, EpSize)
    BY DEF ConfiguredBDs, Buffer, Dirs
  <2>3. ~ConfiguredBDs["out"][1].own /\ ConfiguredBDs["out"][1].dts = 1
    <3>1. "out" \in Dirs /\ 1 \in Buffer
      BY DEF Dirs, Buffer
    <3>2. ConfiguredBDs["out"][1] = BD("out" = "out" /\ 1 = 0, 1, IF "out" = "out" /\ 1 = 0 THEN EpSize ELSE 0)
      BY <3>1 DEF ConfiguredBDs
    <3> DEFINE own == "out" = "out" /\ 1 = 0  cnt == IF own THEN EpSize ELSE 0
    <3>3. ~own
      OBVIOUS
    <3>4. BD(own, 1, cnt).dts = 1 /\ BD(own, 1, cnt).own = own
      BY Zenon DEF BD
    <3> QED
      BY <3>2, <3>3, <3>4
  <2>4. SieInit.next.out = 0
    BY DEF SieInit, Both, Dirs
  <2> QED
    BY <2>1, <2>2, <2>3, <2>4
<1>3. /\ bd'.out[0].own /\ bd'.out[0].dts = 0 /\ bd'.out[0].cnt = EpSize
      /\ ~bd'.out[1].own /\ bd'.out[1].dts = 1
  BY <1>2 DEF BD
<1>4. /\ host'.sent = host.sent /\ host'.base = host.sent /\ host'.tog.out = 0 /\ got' = <<>>
      /\ ~host'.halted.out
  BY DEF SetConfiguration, Types, HostOK, Both, Dirs
<1>5. ~Waiting'
  BY <1>1, <1>2, <1>3 DEF Waiting, Resting
<1>6. host.sent \in Nat /\ Len(<<>>) = 0
  BY DEF Types, HostOK
<1>7. Received' = host'.sent
  BY <1>4, <1>5, <1>6 DEF Received
<1>8. got' = [k \in 1 .. Len(got') |-> host'.base + k]
  <2>1. 1 .. 0 = {}
    OBVIOUS
  <2> QED
    BY <1>4, <1>6, <2>1
<1>9. OutCount'
  <2>1. host'.tog.out = bd'.out[sie'.next.out].dts
    BY <1>2, <1>3, <1>4
  <2>2. host'.sent = Received' - (IF host'.tog.out = bd'.out[sie'.next.out].dts THEN 0 ELSE 1)
    BY <1>4, <1>6, <1>7, <2>1
  <2> QED
    BY <1>5, <1>8, <2>2 DEF OutCount
<1>10. Other(0) = 1 /\ 0 \in Buffer
  BY DEF Other, NULL, Buffer
<1>11. OutPlaces'
  BY <1>1, <1>2, <1>3, <1>4, <1>10
  DEF OutPlaces, OutArmed, OutTakenBack, OutWaiting, OutTaking, OutPassing, Resting
<1>12. Toggles("out")'
  BY <1>3 DEF Toggles
<1> QED
  BY <1>9, <1>11, <1>12 DEF OutBody

LEMMA OutNext == Types /\ Aligned /\ OutInv /\ [Next]_vars => OutInv'
<1> SUFFICES ASSUME Types, Aligned, OutInv, [Next]_vars, fw'.configured, ~upset'.out
             PROVE  OutBody'
  BY DEF OutInv
<1>1. CASE UNCHANGED vars
  BY <1>1, OutFrame DEF vars, OutInv
<1>2. CASE Main
  <2>1. upset' = upset /\ fw'.configured = fw.configured
    BY <1>2 DEF Main, MainStart, Gets, GetsCopy, GetsTake, GetsArm, GetsAdvance, GetsAssign, Put,
                CDCTxService, Send, ghostVars, Types, FwOK
  <2> QED
    BY <1>2, <2>1, OutMain DEF OutInv
<1>3. CASE Transaction
  <2>1. UNCHANGED <<bd, cdc, pc, local, host, got, stale, upset>> /\ sie'.next = sie.next
        /\ UNCHANGED <<fw.pBDT, fw.handle, fw.configured>>
    BY <1>3 DEF Transaction, mainVars, ghostVars, Types, SieOK, FwOK
  <2> QED
    BY <2>1, OutFrame DEF OutInv
<1>4. CASE BusReset \/ Deconfigure
  BY <1>4 DEF BusReset, Deconfigure, Types, FwOK
<1>5. CASE SetConfiguration
  <2>1. ~InGets
    BY <1>5 DEF SetConfiguration
  <2> QED
    BY <1>5, <2>1, OutConfigured
<1>6. CASE SetHalt("out")
  <2>1. upset'.out <=> upset.out \/ InGets
    BY <1>6 DEF SetHalt, Types, RestOK
  <2>2. fw.configured /\ sie.ustat = <<>>
    BY <1>6 DEF SetHalt, Request
  <2> QED
    BY <1>6, <2>1, <2>2, OutSetHalt DEF OutInv
<1>7. CASE ClearHalt("out")
  <2>1. upset'.out <=> upset.out \/ InGets \/ host.tog.out # bd.out[sie.next.out].dts
    BY <1>7 DEF ClearHalt, Types, RestOK
  <2>2. fw.configured /\ sie.ustat = <<>>
    BY <1>7 DEF ClearHalt, Request
  <2> QED
    BY <1>7, <2>1, <2>2, OutClearHalt DEF OutInv
<1>8. CASE SetHalt("in")
  <2>1. bd'.out = bd.out
    BY <1>8 DEF SetHalt, Types, BdOK, Descriptors, Dirs
  <2>2. UNCHANGED <<sie, cdc, pc, local, got, stale, fw.pBDT.out, fw.handle.out>> /\ fw.configured
    BY <1>8 DEF SetHalt, mainVars, Types, FwOK, Dirs
  <2>3. UNCHANGED <<host.sent, host.base, host.tog.out, host.halted.out>>
    BY <1>8 DEF SetHalt, Types, HostOK, Dirs
  <2>4. upset'.out <=> upset.out
    BY <1>8 DEF SetHalt, Types, RestOK
  <2> QED
    BY <2>1, <2>2, <2>3, <2>4, OutFrame DEF OutInv
<1>9. CASE ClearHalt("in")
  <2>1. bd'.out = bd.out
    BY <1>9 DEF ClearHalt, Types, BdOK, Descriptors, Dirs
  <2>2. UNCHANGED <<sie, cdc, pc, local, got, fw.pBDT.out, fw.handle.out>> /\ fw.configured
    BY <1>9 DEF ClearHalt, mainVars, Types, FwOK, Dirs
  <2>5. stale' = stale
    BY <1>9 DEF ClearHalt, Types, RestOK
  <2>3. UNCHANGED <<host.sent, host.base, host.tog.out, host.halted.out>>
    BY <1>9 DEF ClearHalt, Types, HostOK, Dirs
  <2>4. upset'.out <=> upset.out
    BY <1>9 DEF ClearHalt, Types, RestOK
  <2> QED
    BY <2>1, <2>2, <2>3, <2>4, <2>5, OutFrame DEF OutInv
<1>10. CASE OutToken
  <2>1. UNCHANGED <<fw, pc, local, got, stale, upset>> /\ Listening("out")
    BY <1>10 DEF OutToken, mainVars, ghostVars
  <2>2. OutBody
    BY <2>1 DEF OutInv
  <2>3. CASE bd.out[sie.next.out].dts # host.tog.out
    BY <1>10, <2>1, <2>2, <2>3, OutRepeated DEF OutToken
  <2>4. CASE bd.out[sie.next.out].dts = host.tog.out
    BY <1>10, <2>1, <2>2, <2>4, OutReceived DEF OutToken, Acked
  <2> QED
    BY <2>3, <2>4
<1>11. CASE InToken
  <2>1. UNCHANGED <<fw, cdc, pc, local, got, stale, upset>>
    BY <1>11 DEF InToken, mainVars
  <2>2. bd'.out = bd.out
    BY <1>11 DEF InToken, Types, BdOK, Descriptors, Dirs
  <2>3. sie'.next.out = sie.next.out
    BY <1>11 DEF InToken, Done, Types, SieOK, Dirs
  <2>4. UNCHANGED <<host.sent, host.base, host.tog.out, host.halted.out>>
    BY <1>11 DEF InToken, Taken, Types, HostOK, Dirs
  <2> QED
    BY <2>1, <2>2, <2>3, <2>4, OutFrame DEF OutInv
<1> QED
  BY <1>1, <1>2, <1>3, <1>4, <1>5, <1>6, <1>7, <1>8, <1>9, <1>10, <1>11 DEF Next, Interrupt, Dirs

-----------------------------------------------------------------------------
(* To the host.  A packet is with the SIE, or the next one has its buffer; *)
(* the transfer is what the host has of it, the packet with the SIE and    *)
(* what is left of cdc_tx_len.                                             *)

InPlaces ==
  /\ ~bd.in[Other(sie.next.in)].own
  /\ Busy("in") => /\ fw.handle.in = sie.next.in
                   /\ ~host.halted.in => fw.pBDT.in = Other(sie.next.in)
  /\ ~Busy("in") => /\ fw.handle.in # sie.next.in /\ fw.pBDT.in = sie.next.in
                    /\ bd.in[sie.next.in].own => host.halted.in
                    /\ host.tog.in = bd.in[sie.next.in].dts
  /\ cdc.state = "READY" => ~Busy("in")

\* The packet with the SIE, if the host does not have it yet.
OnItsWay == Busy("in") /\ host.tog.in = bd.in[sie.next.in].dts

\* The host has every transfer, or every one but the last.
Complete == toHost = puts
Pending == Len(puts) > 0 /\ toHost = SubSeq(puts, 1, Len(puts) - 1)

InTransfer ==
  /\ cdc.state # "READY" => Len(puts) > 0 /\ puts[Len(puts)] = cdc.off + cdc.len
  /\ cdc.state = "BUSY" => cdc.len > 0
  /\ cdc.state \in {"BUSY_ZLP", "COMPLETING"} => cdc.len = 0

InPacket ==
  Busy("in") =>
    LET c == bd.in[sie.next.in].cnt IN
    /\ IF cdc.state = "COMPLETING" THEN c < EpSize ELSE c = EpSize
    /\ c <= cdc.off /\ (c > 0 => cdc.tx = cdc.off - c)

InCount ==
  CASE OnItsWay -> host.part = cdc.off - bd.in[sie.next.in].cnt /\ Pending
    [] ~OnItsWay /\ cdc.state \in {"READY", "COMPLETING"} -> host.part = 0 /\ Complete
    [] ~OnItsWay /\ cdc.state \in {"BUSY", "BUSY_ZLP"} -> host.part = cdc.off /\ Pending

InBody == Toggles("in") /\ InPlaces /\ InTransfer /\ InPacket /\ InCount /\ host.exact
InInv == fw.configured /\ ~upset.in => InBody

LEMMA ButLast ==
  \A q \in Seq(Nat) :
    Len(q) > 0 => /\ SubSeq(q, 1, Len(q) - 1) \in Seq(Nat)
                  /\ Len(SubSeq(q, 1, Len(q) - 1)) = Len(q) - 1
                  /\ Append(SubSeq(q, 1, Len(q) - 1), q[Len(q)]) = q
<1> TAKE q \in Seq(Nat)
<1> HAVE Len(q) > 0
<1> DEFINE p == SubSeq(q, 1, Len(q) - 1)
<1>1. Len(q) \in Nat /\ q[Len(q)] \in Nat
  BY LenProperties, ElementOfSeq
<1>2. p \in Seq(Nat) /\ Len(p) = Len(q) - 1 /\ \A k \in 1 .. Len(q) - 1 : p[k] = q[k]
  <2>1. 1 \in 1 .. Len(q) + 1 /\ Len(q) - 1 \in 1 - 1 .. Len(q)
    BY <1>1
  <2>2. /\ p \in Seq(Nat) /\ Len(p) = (IF 1 <= Len(q) - 1 THEN Len(q) - 1 - 1 + 1 ELSE 0)
        /\ \A k \in 1 .. Len(q) - 1 - 1 + 1 : p[k] = q[1 + k - 1]
    BY <2>1, SubSeqProperties
  <2> HIDE DEF p
  <2>3. Len(p) = Len(q) - 1
    <3>1. \A n \in Nat : n > 0 => (IF 1 <= n - 1 THEN n - 1 - 1 + 1 ELSE 0) = n - 1
      OBVIOUS
    <3> QED
      BY <1>1, <2>2, <3>1
  <2>4. ASSUME NEW k \in 1 .. Len(q) - 1 PROVE p[k] = q[k]
    <3>1. k \in 1 .. Len(q) - 1 - 1 + 1 /\ 1 + k - 1 = k
      BY <1>1
    <3> QED
      BY <2>2, <3>1
  <2> QED
    BY <2>2, <2>3, <2>4
<1>3. LET r == Append(p, q[Len(q)]) IN
        r \in Seq(Nat) /\ Len(r) = Len(q) /\ \A k \in 1 .. Len(q) : r[k] = q[k]
  <2> HIDE DEF p
  <2> QED
    BY <1>1, <1>2, AppendProperties
<1>4. Append(p, q[Len(q)]) = q
  <2> HIDE DEF p
  <2> QED
    BY <1>3, SeqEqual
<1> QED
  BY <1>2, <1>4

LEMMA AllPut ==
  \A q \in Seq(Nat), x \in Nat :
    /\ Append(q, x) \in Seq(Nat) /\ Len(Append(q, x)) = Len(q) + 1
    /\ Append(q, x)[Len(q) + 1] = x
    /\ SubSeq(Append(q, x), 1, Len(q)) = q
<1> TAKE q \in Seq(Nat), x \in Nat
<1> DEFINE r == Append(q, x)  p == SubSeq(r, 1, Len(q))
<1>1. Len(q) \in Nat /\ r \in Seq(Nat) /\ Len(r) = Len(q) + 1 /\ r[Len(q) + 1] = x
      /\ \A k \in 1 .. Len(q) : r[k] = q[k]
  BY LenProperties, AppendProperties
<1> HIDE DEF r
<1>2. p \in Seq(Nat) /\ Len(p) = Len(q) /\ \A k \in 1 .. Len(q) : p[k] = r[k]
  BY <1>1, SubSeqProperties
<1> HIDE DEF p
<1>3. p = q
  BY <1>1, <1>2, SeqEqual
<1> QED
  BY <1>1, <1>3 DEF r, p

LEMMA InImplies == Types /\ InInv => InExact
<1> SUFFICES ASSUME Types, InInv, fw.configured, ~upset.in
             PROVE  /\ host.exact
                    /\ toHost = SubSeq(puts, 1, Len(toHost))
                    /\ cdc.state = "READY" => toHost = puts
  BY DEF InExact
<1>1. InBody /\ puts \in Seq(Nat)
  BY DEF InInv, Types, RestOK
<1>2. Complete \/ Pending
  BY <1>1 DEF InBody, InCount, Types, CdcOK
<1>3. ASSUME Complete PROVE toHost = SubSeq(puts, 1, Len(toHost))
  <2>1. SubSeq(puts, 1, Len(puts)) = puts
    BY <1>1, SubSeqFull
  <2> QED
    BY <1>3, <2>1 DEF Complete
<1>4. ASSUME Pending PROVE toHost = SubSeq(puts, 1, Len(toHost))
  BY <1>1, <1>4, ButLast DEF Pending
<1>5. ASSUME cdc.state = "READY" PROVE toHost = puts
  BY <1>1, <1>5 DEF InBody, InPlaces, InCount, OnItsWay, Complete
<1> QED
  BY <1>1, <1>2, <1>3, <1>4, <1>5 DEF InBody

LEMMA InInit == Init => InInv
BY DEF Init, InInv

\* What InBody reads.
LEMMA InFrame ==
  ASSUME InBody, UNCHANGED <<bd.in, sie.next.in, fw.pBDT.in, fw.handle.in, cdc.state, cdc.len,
           cdc.off, cdc.tx, puts, toHost, host.part, host.exact, host.tog.in, host.halted.in>>
  PROVE  InBody'
<1>1. Busy("in")' = Busy("in")
  BY DEF Busy
<1>2. OnItsWay' = OnItsWay
  BY <1>1 DEF OnItsWay
<1> QED
  BY <1>1, <1>2, ZenonT(30) DEF InBody, Toggles, InPlaces, InTransfer, InPacket, InCount, Complete, Pending

LEMMA InNumbers ==
  ASSUME Types, InBody
  PROVE  /\ cdc.len \in Nat /\ cdc.off \in Nat /\ cdc.tx \in Nat /\ host.part \in Nat
         /\ cdc.state \in {"READY", "BUSY", "BUSY_ZLP", "COMPLETING"}
         /\ puts \in Seq(Nat) /\ toHost \in Seq(Nat) /\ Len(puts) \in Nat
         /\ host.tog.in \in {0, 1} /\ fw.pBDT.in \in Pointer /\ fw.handle.in \in Pointer
         /\ sie.next.in \in Buffer
         /\ \A b \in Buffer : bd.in[b] \in Descriptor
         /\ \A b \in Buffer : bd.in[Other(b)].dts = 1 - bd.in[b].dts
<1>1. \A b \in Buffer : bd.in[b] \in Descriptor
  BY OneDescriptor DEF Types, Dirs
<1>2. \A b \in Buffer : bd.in[Other(b)].dts = 1 - bd.in[b].dts
  <2>1. bd.in[0].dts \in {0, 1} /\ bd.in[1].dts = 1 - bd.in[0].dts
    BY <1>1 DEF Buffer, Descriptor, InBody, Toggles
  <2>2. Other(0) = 1 /\ Other(1) = 0
    BY DEF Other, NULL
  <2> QED
    BY <2>1, <2>2 DEF Buffer
<1> QED
  BY <1>1, <1>2, LenProperties DEF Types, SieOK, FwOK, CdcOK, HostOK, RestOK, Dirs

LEMMA InPut ==
  ASSUME Types, InBody, UNCHANGED <<bd, sie, fw, host, toHost>>, cdc.state = "READY",
         NEW n \in Lengths, cdc' = [cdc EXCEPT !.state = "BUSY", !.len = n, !.off = 0],
         puts' = Append(puts, n)
  PROVE  InBody'
<1> USE InNumbers
<1>1. n \in Nat /\ n > 0
  BY Constants
<1>2. cdc'.state = "BUSY" /\ cdc'.len = n /\ cdc'.off = 0
  BY DEF Types, CdcOK
<1>3. ~Busy("in") /\ ~Busy("in")' /\ ~OnItsWay /\ ~OnItsWay'
  BY DEF InBody, InPlaces, Busy, OnItsWay
<1>4. host.part = 0 /\ toHost = puts
  BY <1>3 DEF InBody, InCount, Complete
<1>5. Len(puts') = Len(puts) + 1 /\ puts'[Len(puts')] = n /\ SubSeq(puts', 1, Len(puts)) = puts
  BY <1>1, AllPut
<1>6. Pending'
  BY <1>4, <1>5 DEF Pending
<1>7. InCount'
  BY <1>2, <1>3, <1>4, <1>6 DEF InCount
<1>8. InTransfer' /\ InPacket'
  BY <1>1, <1>2, <1>3, <1>5 DEF InTransfer, InPacket
<1>9. Toggles("in")' /\ InPlaces' /\ host'.exact
  BY <1>2, <1>3 DEF InBody, Toggles, InPlaces
<1> QED
  BY <1>7, <1>8, <1>9 DEF InBody

LEMMA InIdle ==
  ASSUME Types, InBody, UNCHANGED <<bd, sie, fw, host, toHost, puts>>, ~Busy("in"),
         cdc.state \notin {"BUSY", "BUSY_ZLP"}, cdc' = Idle
  PROVE  InBody'
<1> USE InNumbers
<1>1. cdc'.state = "READY"
  BY DEF Idle, Types, CdcOK
<1>2. ~Busy("in")' /\ ~OnItsWay /\ ~OnItsWay'
  BY DEF Busy, OnItsWay
<1>3. InCount'
  BY <1>1, <1>2 DEF InBody, InCount, Complete
<1>4. InTransfer' /\ InPacket'
  BY <1>1, <1>2 DEF InTransfer, InPacket
<1>5. Toggles("in")' /\ InPlaces' /\ host'.exact
  BY <1>1, <1>2 DEF InBody, Toggles, InPlaces
<1> QED
  BY <1>3, <1>4, <1>5 DEF InBody

\* The packet of c bytes that the SIE has now is the rest of the transfer, or
\* full and there is more to come.
LEMMA InArmed ==
  ASSUME Types, InBody, UNCHANGED <<sie, host, toHost, puts>>, ~Busy("in"),
         cdc.state \in {"BUSY", "BUSY_ZLP"},
         NEW n \in Buffer, n = sie.next.in, NEW c \in 0 .. EpSize, c <= cdc.len,
         cdc'.state = "BUSY" => c = EpSize /\ cdc.len > c,
         cdc'.state = "BUSY_ZLP" => c = EpSize /\ cdc.len = c,
         cdc'.state = "COMPLETING" => c < EpSize /\ cdc.len = c,
         cdc'.state \in {"BUSY", "BUSY_ZLP", "COMPLETING"},
         cdc'.len = cdc.len - c, cdc'.off = cdc.off + c, c > 0 => cdc'.tx = cdc.off,
         bd'.in[n].own, bd'.in[n].dts = bd.in[n].dts, bd'.in[n].cnt = c,
         bd'.in[Other(n)] = bd.in[Other(n)],
         fw'.handle.in = n, fw'.pBDT.in = Other(n)
  PROVE  InBody'
<1> USE InNumbers, BufferFacts
<1>1. ~OnItsWay /\ host.tog.in = bd.in[n].dts
  BY DEF InBody, InPlaces, OnItsWay
<1>2. host.part = cdc.off /\ Pending
  BY <1>1 DEF InBody, InCount
<1>3. Busy("in")' /\ OnItsWay'
  BY <1>1 DEF Busy, OnItsWay
<1>4. c \in Nat /\ c <= EpSize
  BY Constants
<1>5. InTransfer'
  <2>1. cdc'.off + cdc'.len = cdc.off + cdc.len
    BY <1>4
  <2>2. Len(puts) > 0 /\ puts[Len(puts)] = cdc.off + cdc.len
    BY DEF InBody, InTransfer
  <2>3. cdc'.state = "BUSY" => cdc'.len > 0
    BY <1>4
  <2>4. cdc'.state \in {"BUSY_ZLP", "COMPLETING"} => cdc'.len = 0
    BY <1>4
  <2> QED
    BY <2>1, <2>2, <2>3, <2>4 DEF InTransfer
<1>6. InPacket'
  <2>1. c <= cdc'.off /\ (c > 0 => cdc'.tx = cdc'.off - c)
    BY <1>4
  <2>2. IF cdc'.state = "COMPLETING" THEN c < EpSize ELSE c = EpSize
    OBVIOUS
  <2>3. bd'.in[sie'.next.in].cnt = c
    OBVIOUS
  <2> QED
    BY <2>1, <2>2, <2>3 DEF InPacket
<1>7. InCount'
  <2>1. host'.part = cdc'.off - bd'.in[sie'.next.in].cnt
    BY <1>2, <1>4
  <2>2. Pending'
    BY <1>2 DEF Pending
  <2> QED
    BY <2>1, <2>2, <1>3 DEF InCount
<1>8. InPlaces'
  <2>1. ~bd'.in[Other(sie'.next.in)].own
    BY DEF InBody, InPlaces
  <2> QED
    BY <1>3, <2>1 DEF InPlaces
<1>9. Toggles("in")'
  <2>1. \A b \in Buffer : bd'.in[b].dts = bd.in[b].dts
    <3>1. \A b \in Buffer : b = n \/ b = Other(n)
      BY DEF Buffer, Other, NULL
    <3> QED
      BY <3>1
  <2> QED
    BY <2>1 DEF InBody, Toggles, Buffer
<1>10. host'.exact
  BY DEF InBody
<1> QED
  BY <1>5, <1>6, <1>7, <1>8, <1>9, <1>10 DEF InBody

\* USBTxOnePacket gives the SIE the buffer it uses next.
LEMMA InSend ==
  ASSUME Types, InBody, Send, UNCHANGED <<sie, host, toHost, puts>>, ~Busy("in"),
         cdc.state \in {"BUSY", "BUSY_ZLP"}
  PROVE  InBody'
<1> USE InNumbers, BufferFacts
<1> SUFFICES ASSUME NEW n \in Buffer, n = sie.next.in, NEW c, c = IF cdc.state = "BUSY" THEN Size ELSE 0
             PROVE  InBody'
  OBVIOUS
<1>1. fw.pBDT.in = n /\ ~OnItsWay /\ host.tog.in = bd.in[n].dts
  BY DEF InBody, InPlaces, OnItsWay
<1>2. host.part = cdc.off /\ Pending
  BY <1>1 DEF InBody, InCount
<1>3. /\ c \in Nat /\ c \in 0 .. EpSize /\ c <= cdc.len
      /\ cdc.state = "BUSY" /\ cdc.len > EpSize => c = EpSize
      /\ cdc.state = "BUSY" /\ cdc.len <= EpSize => c = cdc.len
      /\ cdc.state = "BUSY_ZLP" => c = 0 /\ cdc.len = 0
  BY Constants DEF Size, InBody, InTransfer
<1>4. cdc' = [cdc EXCEPT !.state = StateAfter, !.len = @ - c, !.off = @ + c,
                         !.tx = IF c = 0 THEN @ ELSE cdc.off]
  BY DEF Send
<1>5. /\ cdc'.state = StateAfter /\ cdc'.len = cdc.len - c /\ cdc'.off = cdc.off + c
      /\ c > 0 => cdc'.tx = cdc.off
  BY <1>3, <1>4 DEF Types, CdcOK
<1>6. bd' = Armed("in", n, c)
  BY <1>1 DEF Send
<1>7. bd'["in"][n] = BD(TRUE, bd["in"][n].dts, c) /\ bd'["in"][Other(n)] = bd["in"][Other(n)]
  BY <1>3, <1>6, ArmedEffect DEF Types, Elsewhere, Dirs
<1>8. /\ bd'.in[n].own /\ bd'.in[n].dts = bd.in[n].dts /\ bd'.in[n].cnt = c
      /\ bd'.in[Other(n)] = bd.in[Other(n)]
  BY <1>7 DEF BD
<1>9. fw'.handle.in = n /\ fw'.pBDT.in = Other(n)
  BY <1>1 DEF Send, Types, FwOK, Dirs
<1>11. /\ StateAfter # "READY"
       /\ StateAfter = "BUSY" => c = EpSize /\ cdc.len > EpSize
       /\ StateAfter = "BUSY_ZLP" => c = EpSize /\ cdc.len = EpSize
       /\ StateAfter = "COMPLETING" => c < EpSize /\ c = cdc.len
  <2>1. CASE cdc.state = "BUSY" /\ cdc.len > EpSize
    <3>1. StateAfter = "BUSY"
      BY <2>1, Constants DEF StateAfter, Size
    <3> QED
      BY <2>1, <1>3, <3>1
  <2>2. CASE cdc.state = "BUSY" /\ cdc.len = EpSize
    <3>1. StateAfter = "BUSY_ZLP"
      BY <2>2, Constants DEF StateAfter, Size
    <3> QED
      BY <2>2, <1>3, <3>1
  <2>3. CASE cdc.state = "BUSY" /\ cdc.len < EpSize
    <3>1. StateAfter = "COMPLETING"
      BY <2>3, Constants DEF StateAfter, Size
    <3> QED
      BY <2>3, <1>3, <3>1, Constants
  <2>4. CASE cdc.state = "BUSY_ZLP"
    <3>1. StateAfter = "COMPLETING"
      BY <2>4 DEF StateAfter
    <3> QED
      BY <2>4, <1>3, <3>1, Constants
  <2> QED
    BY <2>1, <2>2, <2>3, <2>4, Constants
<1>12. StateAfter \in {"BUSY", "BUSY_ZLP", "COMPLETING"}
  BY DEF StateAfter
<1>13. /\ cdc'.state = "BUSY" => c = EpSize /\ cdc.len > c
       /\ cdc'.state = "BUSY_ZLP" => c = EpSize /\ cdc.len = c
       /\ cdc'.state = "COMPLETING" => c < EpSize /\ cdc.len = c
       /\ cdc'.state \in {"BUSY", "BUSY_ZLP", "COMPLETING"}
  BY <1>5, <1>11, <1>12
<1> QED
  BY <1>3, <1>5, <1>8, <1>9, <1>13, InArmed

\* The host polls a packet of the driver, and has it afterwards.
LEMMA InListening ==
  ASSUME Types, InBody, Listening("in")
  PROVE  /\ ~host.halted.in /\ Busy("in") /\ bd.in[sie.next.in].own
         /\ fw.handle.in = sie.next.in /\ fw.pBDT.in = Other(sie.next.in)
         /\ cdc.state \in {"BUSY", "BUSY_ZLP", "COMPLETING"}
BY InNumbers DEF Listening, InBody, InPlaces

LEMMA InTakenOnce ==
  ASSUME Types, InBody, Listening("in"), OnItsWay,
         NEW n \in Nat, n = bd.in[sie.next.in].cnt, host' = Taken(n, cdc.tx),
         toHost' = IF n < EpSize THEN Append(toHost, host.part + n) ELSE toHost
  PROVE  /\ host'.exact /\ host'.tog.in = 1 - host.tog.in /\ host'.halted = host.halted
         /\ cdc.state = "COMPLETING" => host'.part = 0 /\ toHost' = puts
         /\ cdc.state # "COMPLETING" =>
              host'.part = cdc.off /\ toHost' = SubSeq(puts, 1, Len(puts) - 1)
<1> USE InNumbers, InListening, Constants
<1>1. /\ host.part = cdc.off - n /\ n <= cdc.off /\ (n > 0 => cdc.tx = cdc.off - n)
      /\ Len(puts) > 0 /\ toHost = SubSeq(puts, 1, Len(puts) - 1)
  BY DEF InBody, InCount, InPacket, Pending
<1>2. /\ cdc.state = "COMPLETING" => n < EpSize
      /\ cdc.state # "COMPLETING" => n = EpSize
  BY DEF InBody, InPacket
<1>3. puts[Len(puts)] = cdc.off + cdc.len /\ (cdc.state = "COMPLETING" => cdc.len = 0)
  BY DEF InBody, InTransfer
<1>4. /\ host'.tog.in = 1 - host.tog.in /\ host'.halted = host.halted
      /\ host'.part = IF n < EpSize THEN 0 ELSE host.part + n
  BY DEF Taken, Types, HostOK, Dirs
<1>5. host'.exact
  <2>1. host'.exact <=> host.exact /\ (n = 0 \/ cdc.tx = host.part)
    BY DEF Taken, Types, HostOK
  <2>2. n = 0 \/ cdc.tx = host.part
    BY <1>1, SMTT(30)
  <2> QED
    BY <2>1, <2>2 DEF InBody
<1>6. CASE cdc.state = "COMPLETING"
  <2>1. host.part + n = puts[Len(puts)]
    BY <1>1, <1>3, <1>6, SMTT(30)
  <2>2. toHost' = Append(SubSeq(puts, 1, Len(puts) - 1), puts[Len(puts)])
    BY <1>1, <1>2, <1>6, <2>1
  <2>3. toHost' = puts
    BY <1>1, <2>2, ButLast
  <2> QED
    BY <1>2, <1>4, <1>5, <1>6, <2>3
<1>7. CASE cdc.state # "COMPLETING"
  <2>1. ~(n < EpSize)
    BY <1>2, <1>7
  <2>2. host'.part = cdc.off
    BY <1>1, <1>4, <2>1, SMTT(30)
  <2>3. toHost' = SubSeq(puts, 1, Len(puts) - 1)
    BY <1>1, <2>1
  <2> QED
    BY <1>4, <1>5, <1>7, <2>2, <2>3
<1> QED
  BY <1>6, <1>7

LEMMA InTaken ==
  ASSUME Types, InBody, InToken
  PROVE  /\ host'.exact /\ host'.halted = host.halted
         /\ host'.tog.in = 1 - bd.in[sie.next.in].dts
         /\ cdc.state = "COMPLETING" => host'.part = 0 /\ toHost' = puts
         /\ cdc.state # "COMPLETING" =>
              host'.part = cdc.off /\ toHost' = SubSeq(puts, 1, Len(puts) - 1)
<1> USE InNumbers
<1> SUFFICES ASSUME NEW n \in Nat, n = bd.in[sie.next.in].cnt
             PROVE  /\ host'.exact /\ host'.halted = host.halted
                    /\ host'.tog.in = 1 - bd.in[sie.next.in].dts
                    /\ cdc.state = "COMPLETING" => host'.part = 0 /\ toHost' = puts
                    /\ cdc.state # "COMPLETING" =>
                         host'.part = cdc.off /\ toHost' = SubSeq(puts, 1, Len(puts) - 1)
  BY DEF Descriptor
<1>1. Listening("in")
  BY DEF InToken
<1>2. Busy("in") /\ cdc.state \in {"BUSY", "BUSY_ZLP", "COMPLETING"}
  BY <1>1, InListening
<1>3. CASE bd.in[sie.next.in].dts = host.tog.in
  <2>1. host' = Taken(n, cdc.tx)
        /\ toHost' = IF n < EpSize THEN Append(toHost, host.part + n) ELSE toHost
    BY <1>3 DEF InToken
  <2>2. OnItsWay
    BY <1>2, <1>3 DEF OnItsWay
  <2> QED
    BY <1>1, <1>3, <2>1, <2>2, InTakenOnce
<1>4. CASE bd.in[sie.next.in].dts # host.tog.in
  <2>1. host' = host /\ toHost' = toHost
    BY <1>4 DEF InToken
  <2>2. ~OnItsWay
    BY <1>4 DEF OnItsWay
  <2>3. bd.in[sie.next.in].dts \in {0, 1}
    BY DEF Descriptor
  <2>4. host.tog.in = 1 - bd.in[sie.next.in].dts
    BY <1>4, <2>3
  <2> QED
    BY <1>2, <2>1, <2>2, <2>4 DEF InBody, InCount, Pending, Complete
<1> QED
  BY <1>3, <1>4

LEMMA InInToken ==
  ASSUME Types, InBody, InToken
  PROVE  InBody'
<1> USE InNumbers, BufferFacts
<1> SUFFICES ASSUME NEW n \in Buffer, n = sie.next.in PROVE InBody'
  OBVIOUS
<1>1. UNCHANGED <<fw, cdc, puts>> /\ Listening("in")
  BY DEF InToken
<1>2. /\ ~host.halted.in /\ Busy("in") /\ bd.in[n].own
      /\ fw.handle.in = n /\ fw.pBDT.in = Other(n)
      /\ cdc.state \in {"BUSY", "BUSY_ZLP", "COMPLETING"}
      /\ ~bd.in[Other(n)].own
  BY <1>1, InListening DEF InBody, InPlaces
<1>3. /\ host'.exact /\ host'.halted = host.halted
      /\ host'.tog.in = 1 - bd.in[n].dts
      /\ cdc.state = "COMPLETING" => host'.part = 0 /\ Complete'
      /\ cdc.state # "COMPLETING" => host'.part = cdc.off /\ Pending'
  <2>1. Len(puts) > 0
    BY <1>2 DEF InBody, InTransfer
  <2> QED
    BY <1>1, <2>1, InTaken DEF Complete, Pending
<1>4. bd.in[n].dts \in {0, 1}
  BY DEF Descriptor
<1>5. InTransfer'
  BY <1>1 DEF InBody, InTransfer
<1>6. CASE UNCHANGED <<bd, sie>>
  <2>1. Busy("in")' /\ ~OnItsWay'
    BY <1>1, <1>2, <1>3, <1>4, <1>6 DEF Busy, OnItsWay
  <2>2. InCount'
    BY <1>1, <1>2, <1>3, <2>1 DEF InCount
  <2>3. InPlaces' /\ InPacket' /\ Toggles("in")'
    BY <1>1, <1>2, <1>3, <1>6, <2>1 DEF InBody, InPlaces, InPacket, Toggles
  <2> QED
    BY <1>3, <1>5, <2>2, <2>3 DEF InBody
<1>7. CASE bd' = [bd EXCEPT !.in[n].own = FALSE] /\ sie' = Done("in")
  <2>1. /\ ~bd'.in[n].own /\ bd'.in[n].dts = bd.in[n].dts
        /\ bd'.in[Other(n)] = bd.in[Other(n)] /\ n # Other(n) /\ Other(Other(n)) = n
    BY <1>7, SentEffect DEF Types, Elsewhere, Dirs
  <2>2. sie'.next.in = Other(n)
    BY <1>7, DoneEffect DEF Types, Dirs
  <2>3. ~Busy("in")' /\ ~OnItsWay'
    BY <1>1, <1>2, <2>1 DEF Busy, OnItsWay
  <2>4. InCount'
    BY <1>1, <1>2, <1>3, <2>3 DEF InCount
  <2>5. bd.in[Other(n)].dts = 1 - bd.in[n].dts
    OBVIOUS
  <2>6. InPlaces' /\ InPacket'
    BY <1>1, <1>2, <1>3, <2>1, <2>2, <2>3, <2>5 DEF InPlaces, InPacket
  <2>7. \A b \in Buffer : bd'.in[b].dts = bd.in[b].dts
    <3>1. \A b \in Buffer : b = n \/ b = Other(n)
      BY DEF Buffer, Other, NULL
    <3> QED
      BY <2>1, <3>1
  <2>8. Toggles("in")'
    BY <2>7 DEF InBody, Toggles, Buffer
  <2> QED
    BY <1>3, <1>5, <2>4, <2>6, <2>8 DEF InBody
<1> QED
  BY <1>6, <1>7 DEF InToken

LEMMA InSetHalt ==
  ASSUME Types, Aligned, sie.ustat = <<>>, InBody, SetHalt("in")
  PROVE  InBody'
<1> USE InNumbers, BufferFacts
<1> SUFFICES ASSUME NEW n \in Buffer, n = sie.next.in PROVE InBody'
  OBVIOUS
<1>1. fw.ep_data.in = n /\ "in" \in Dirs /\ BdOK
  BY AtRest DEF Dirs, Types
<1>2. UNCHANGED <<sie, cdc, puts, toHost>>
  BY DEF SetHalt
<1>3. bd' = [bd EXCEPT !["in"][n].own = TRUE, !["in"][n].stall = TRUE]
  BY <1>1 DEF SetHalt
<1>4. bd'["in"][n] = [bd["in"][n] EXCEPT !.own = TRUE, !.stall = TRUE]
      /\ Elsewhere(bd, bd', "in", n)
  BY <1>1, <1>3, HaltEffect
<1>5. /\ bd'.in[n].own /\ bd'.in[n].dts = bd.in[n].dts /\ bd'.in[n].cnt = bd.in[n].cnt
      /\ \A b \in Buffer : b # n => bd'.in[b] = bd.in[b]
  <2>1. bd["in"][n] \in Descriptor
    OBVIOUS
  <2>2. bd'.in[n].own /\ bd'.in[n].dts = bd.in[n].dts /\ bd'.in[n].cnt = bd.in[n].cnt
    BY <1>4, <2>1 DEF Descriptor
  <2>3. \A b \in Buffer : b # n => bd'.in[b] = bd.in[b]
    BY <1>1, <1>4 DEF Elsewhere
  <2> QED
    BY <2>2, <2>3
<1>6. fw'.handle.in = fw.handle.in /\ fw'.pBDT.in = n
  BY <1>1 DEF SetHalt, Types, FwOK
<1>7. host'.halted.in /\ UNCHANGED <<host.tog, host.part, host.exact>>
  BY DEF SetHalt, Types, HostOK, Dirs
<1>8. Busy("in")' <=> Busy("in")
  <2>1. CASE Busy("in")
    BY <1>5, <1>6, <2>1 DEF Busy, InBody, InPlaces
  <2>2. CASE ~Busy("in")
    <3>1. fw.handle.in # n /\ fw.handle.in \in Pointer
      BY <2>2 DEF InBody, InPlaces
    <3>2. fw.handle.in # NULL => fw.handle.in \in Buffer
      BY DEF Pointer
    <3> QED
      BY <1>5, <1>6, <2>2, <3>1, <3>2 DEF Busy
  <2> QED
    BY <2>1, <2>2
<1>9. OnItsWay' <=> OnItsWay
  BY <1>2, <1>5, <1>7, <1>8 DEF OnItsWay
<1>10. InCount'
  BY <1>2, <1>5, <1>7, <1>9 DEF InBody, InCount, Complete, Pending
<1>11. InTransfer' /\ InPacket'
  BY <1>2, <1>5, <1>8 DEF InBody, InTransfer, InPacket
<1>12. InPlaces'
  BY <1>2, <1>5, <1>6, <1>7, <1>8 DEF InBody, InPlaces
<1>13. Toggles("in")'
  BY <1>5 DEF InBody, Toggles, Buffer
<1> QED
  BY <1>7, <1>10, <1>11, <1>12, <1>13 DEF InBody

LEMMA InClearHalt ==
  ASSUME Types, Aligned, sie.ustat = <<>>, InBody, ClearHalt("in"), cdc.state = "READY"
  PROVE  InBody'
<1> USE InNumbers, BufferFacts
<1> SUFFICES ASSUME NEW n \in Buffer, NEW o \in Buffer, n = sie.next.in, o = Other(n)
             PROVE  InBody'
  OBVIOUS
<1>1. fw.ep_data.in = n /\ "in" \in Dirs /\ BdOK /\ n # o /\ n = Other(o)
  BY AtRest DEF Dirs, Types
<1>2. UNCHANGED <<sie, cdc, puts, toHost>>
  BY DEF ClearHalt
<1>3. bd' = Cleared("in", n, o)
  BY <1>1 DEF ClearHalt, Realign, Cleared
<1>4. ~bd'.in[n].own /\ bd'.in[n].dts = 0 /\ ~bd'.in[o].own /\ bd'.in[o].dts = 1
  <2> HIDE InNumbers, BufferFacts
  <2>1. /\ ~bd'["in"][n].own /\ bd'["in"][n].dts = 0
        /\ ~bd'["in"][o].own /\ bd'["in"][o].dts = 1
    BY <1>1, <1>3, ClearEffect, ZenonT(30)
  <2> QED
    BY <2>1
<1>5. fw'.handle.in = fw.handle.in /\ fw'.pBDT.in = n
  BY <1>1 DEF ClearHalt, Realign, Types, FwOK
<1>6. host'.tog.in = 0 /\ UNCHANGED <<host.part, host.exact>>
  BY DEF ClearHalt, Types, HostOK, Dirs
<1>7. \A b \in Buffer : b = n \/ b = o
  BY <1>1 DEF Buffer
<1>8. ~Busy("in") /\ ~Busy("in")' /\ ~OnItsWay /\ ~OnItsWay'
  <2>1. ~Busy("in") /\ fw.handle.in # n
    BY DEF InBody, InPlaces
  <2>2. fw.handle.in # NULL => fw.handle.in \in Buffer
    BY DEF Pointer
  <2> QED
    BY <1>4, <1>5, <1>7, <2>1, <2>2 DEF Busy, OnItsWay
<1>9. InCount'
  BY <1>2, <1>6, <1>8 DEF InBody, InCount, Complete
<1>10. InTransfer' /\ InPacket'
  BY <1>2, <1>8 DEF InBody, InTransfer, InPacket
<1>11. InPlaces'
  BY <1>2, <1>4, <1>5, <1>6, <1>8 DEF InBody, InPlaces
<1>12. Toggles("in")'
  <2>1. (n = 0 /\ o = 1) \/ (n = 1 /\ o = 0)
    BY <1>1 DEF Buffer
  <2> QED
    BY <1>4, <2>1 DEF Toggles
<1> QED
  BY <1>6, <1>9, <1>10, <1>11, <1>12 DEF InBody

LEMMA InConfigured ==
  ASSUME Types, SetConfiguration
  PROVE  InBody'
<1>1. bd' = ConfiguredBDs /\ sie' = SieInit /\ fw'.handle.in = NULL /\ fw'.pBDT.in = 0
      /\ cdc' = Idle /\ puts' = <<>> /\ toHost' = <<>>
  BY DEF SetConfiguration
<1>2. ASSUME NEW b \in Buffer PROVE ~bd'.in[b].own /\ bd'.in[b].dts = b
  <2>1. ConfiguredBDs["in"][b] = BD("in" = "out" /\ b = 0, b, IF "in" = "out" /\ b = 0 THEN EpSize ELSE 0)
    BY DEF ConfiguredBDs, Dirs
  <2> DEFINE own == "in" = "out" /\ b = 0  cnt == IF own THEN EpSize ELSE 0
  <2>2. ~own
    OBVIOUS
  <2>3. BD(own, b, cnt).dts = b /\ BD(own, b, cnt).own = own
    BY Zenon DEF BD
  <2> QED
    BY <1>1, <2>1, <2>2, <2>3
<1>3. sie'.next.in = 0 /\ cdc'.state = "READY"
  BY <1>1 DEF SieInit, Both, Dirs, Idle, Types, CdcOK
<1>4. host'.tog.in = 0 /\ host'.part = 0 /\ host'.exact /\ ~host'.halted.in
  BY DEF SetConfiguration, Types, HostOK, Both, Dirs
<1>5. ~Busy("in")' /\ ~OnItsWay'
  BY <1>1 DEF Busy, OnItsWay
<1>6. InCount'
  BY <1>1, <1>3, <1>4, <1>5 DEF InCount, Complete
<1>7. InTransfer' /\ InPacket'
  BY <1>3, <1>5 DEF InTransfer, InPacket
<1>8. 0 \in Buffer /\ 1 \in Buffer /\ Other(0) = 1 /\ NULL # 0
  BY DEF Buffer, Other, NULL
<1>9. InPlaces'
  BY <1>1, <1>2, <1>3, <1>4, <1>5, <1>8 DEF InPlaces
<1>10. Toggles("in")'
  BY <1>2, <1>8 DEF Toggles
<1> QED
  BY <1>4, <1>6, <1>7, <1>9, <1>10 DEF InBody

LEMMA InMain ==
  ASSUME Types, InBody, Main
  PROVE  InBody'
<1>1. CASE MainStart \/ Gets \/ GetsCopy \/ GetsTake
  BY <1>1, InFrame DEF MainStart, Gets, GetsCopy, GetsTake, ghostVars
<1>2. CASE GetsArm
  <2>1. bd'.in = bd.in
    BY <1>2 DEF GetsArm, Armed, Types, BdOK, Descriptors, Dirs
  <2> QED
    BY <1>2, <2>1, InFrame DEF GetsArm, ghostVars
<1>3. CASE GetsAdvance \/ GetsAssign
  <2>1. fw'.pBDT.in = fw.pBDT.in /\ fw'.handle.in = fw.handle.in
    BY <1>3 DEF GetsAdvance, GetsAssign, Types, FwOK, Dirs
  <2> QED
    BY <1>3, <2>1, InFrame DEF GetsAdvance, GetsAssign, ghostVars
<1>4. CASE Put
  <2>1. UNCHANGED <<bd, sie, fw, host, toHost>>
    BY <1>4 DEF Put
  <2>2. CASE UNCHANGED <<cdc, puts>>
    BY <2>1, <2>2, InFrame
  <2>3. ASSUME NEW n \in Lengths, cdc.state = "READY",
               cdc' = [cdc EXCEPT !.state = "BUSY", !.len = n, !.off = 0], puts' = Append(puts, n)
        PROVE  InBody'
    BY <2>1, <2>3, InPut
  <2> QED
    BY <1>4, <2>2, <2>3 DEF Put
<1>5. CASE CDCTxService
  <2>1. UNCHANGED <<sie, host, puts, toHost>>
    BY <1>5 DEF CDCTxService, ghostVars
  <2>2. CASE ~Busy("in") /\ cdc.state \in {"BUSY", "BUSY_ZLP"}
    <3>1. Send
      BY <1>5, <2>2 DEF CDCTxService
    <3> QED
      BY <2>1, <2>2, <3>1, InSend
  <2>3. CASE ~Busy("in") /\ cdc.state \notin {"BUSY", "BUSY_ZLP"}
    <3>1. cdc' = Idle /\ UNCHANGED <<bd, fw>>
      BY <1>5, <2>3 DEF CDCTxService
    <3> QED
      BY <2>1, <2>3, <3>1, InIdle
  <2>4. CASE Busy("in")
    <3>1. UNCHANGED <<cdc, bd, fw>>
      BY <1>5, <2>4 DEF CDCTxService
    <3> QED
      BY <2>1, <3>1, InFrame
  <2> QED
    BY <2>2, <2>3, <2>4
<1> QED
  BY <1>1, <1>2, <1>3, <1>4, <1>5 DEF Main

LEMMA InNext == Types /\ Aligned /\ InInv /\ [Next]_vars => InInv'
<1> SUFFICES ASSUME Types, Aligned, InInv, [Next]_vars, fw'.configured, ~upset'.in
             PROVE  InBody'
  BY DEF InInv
<1>1. CASE UNCHANGED vars
  BY <1>1, InFrame DEF vars, InInv
<1>2. CASE Main
  <2>1. upset' = upset /\ fw'.configured = fw.configured
    BY <1>2 DEF Main, MainStart, Gets, GetsCopy, GetsTake, GetsArm, GetsAdvance, GetsAssign, Put,
                CDCTxService, Send, ghostVars, Types, FwOK
  <2> QED
    BY <1>2, <2>1, InMain DEF InInv
<1>3. CASE Transaction
  <2>1. UNCHANGED <<bd, cdc, host, puts, toHost, upset>> /\ sie'.next = sie.next
        /\ UNCHANGED <<fw.pBDT, fw.handle, fw.configured>>
    BY <1>3 DEF Transaction, ghostVars, Types, SieOK, FwOK
  <2> QED
    BY <2>1, InFrame DEF InInv
<1>4. CASE BusReset \/ Deconfigure
  BY <1>4 DEF BusReset, Deconfigure, Types, FwOK
<1>5. CASE SetConfiguration
  BY <1>5, InConfigured
<1>6. CASE SetHalt("in")
  <2>1. upset'.in <=> upset.in
    BY <1>6 DEF SetHalt, Types, RestOK
  <2>2. fw.configured /\ sie.ustat = <<>>
    BY <1>6 DEF SetHalt, Request
  <2> QED
    BY <1>6, <2>1, <2>2, InSetHalt DEF InInv
<1>7. CASE ClearHalt("in")
  <2>1. upset'.in <=> upset.in \/ cdc.state # "READY"
    BY <1>7 DEF ClearHalt, Types, RestOK
  <2>2. fw.configured /\ sie.ustat = <<>>
    BY <1>7 DEF ClearHalt, Request
  <2> QED
    BY <1>7, <2>1, <2>2, InClearHalt DEF InInv
<1>8. CASE SetHalt("out")
  <2>1. bd'.in = bd.in
    BY <1>8 DEF SetHalt, Types, BdOK, Descriptors, Dirs
  <2>2. UNCHANGED <<sie, cdc, puts, toHost, fw.pBDT.in, fw.handle.in>> /\ fw.configured
    BY <1>8 DEF SetHalt, Types, FwOK, Dirs
  <2>3. UNCHANGED <<host.part, host.exact, host.tog.in, host.halted.in>>
    BY <1>8 DEF SetHalt, Types, HostOK, Dirs
  <2>4. upset'.in <=> upset.in
    BY <1>8 DEF SetHalt, Types, RestOK
  <2> QED
    BY <2>1, <2>2, <2>3, <2>4, InFrame DEF InInv
<1>9. CASE ClearHalt("out")
  <2>1. bd'.in = bd.in
    BY <1>9 DEF ClearHalt, Types, BdOK, Descriptors, Dirs
  <2>2. UNCHANGED <<sie, cdc, puts, toHost, fw.pBDT.in, fw.handle.in>> /\ fw.configured
    BY <1>9 DEF ClearHalt, Types, FwOK, Dirs
  <2>3. UNCHANGED <<host.part, host.exact, host.tog.in, host.halted.in>>
    BY <1>9 DEF ClearHalt, Types, HostOK, Dirs
  <2>4. upset'.in <=> upset.in
    BY <1>9 DEF ClearHalt, Types, RestOK
  <2> QED
    BY <2>1, <2>2, <2>3, <2>4, InFrame DEF InInv
<1>10. CASE InToken
  <2>1. fw' = fw /\ upset' = upset
    BY <1>10 DEF InToken
  <2> QED
    BY <1>10, <2>1, InInToken DEF InInv
<1>11. CASE OutToken
  <2>1. UNCHANGED <<fw, puts, toHost, upset>>
    BY <1>11 DEF OutToken, ghostVars
  <2>2. bd'.in = bd.in
    BY <1>11 DEF OutToken, Types, BdOK, Descriptors, Dirs
  <2>3. sie'.next.in = sie.next.in
    BY <1>11, ZenonT(30) DEF OutToken, Done, Types, SieOK, Dirs
  <2>4. UNCHANGED <<host.part, host.exact, host.tog.in, host.halted.in>>
    <3>1. host' = host \/ host' = [host EXCEPT !.sent = @ + 1, !.tog.out = 1 - @]
      BY <1>11 DEF OutToken, Acked
    <3> QED
      BY <3>1 DEF Types, HostOK, Dirs
  <2>5. UNCHANGED <<cdc.state, cdc.len, cdc.off, cdc.tx>>
    BY <1>11 DEF OutToken, Types, CdcOK
  <2> QED
    BY <2>1, <2>2, <2>3, <2>4, <2>5, InFrame DEF InInv
<1> QED
  BY <1>1, <1>2, <1>3, <1>4, <1>5, <1>6, <1>7, <1>8, <1>9, <1>10, <1>11 DEF Next, Interrupt, Dirs

-----------------------------------------------------------------------------
Inv == Types /\ Short /\ Aligned /\ OutInv /\ InInv

LEMMA InitInv == Init => Inv
<1> SUFFICES ASSUME Init PROVE Inv
  OBVIOUS
<1>1. sie.ustat = <<>> /\ \A d \in Dirs : fw.ep_data[d] = 0 /\ sie.next[d] = 0
  BY DEF Init, SieInit, Both
<1>2. 0 \in Buffer
  BY DEF Buffer
<1>3. Aligned
  BY <1>1, <1>2, ChainEmpty DEF Aligned
<1>4. Short
  BY <1>1 DEF Short
<1> QED
  BY <1>3, <1>4, InitTypes, OutInit, InInit DEF Inv

\* The inductive invariant of the endpoint: the driver, the SIE and the host
\* agree on the next buffer of each direction and on its toggle, and what one
\* of them holds is what the next one lacks.
THEOREM InvAlways == Spec => []Inv
<1>1. Init => Inv
  BY InitInv
<1>2. Inv /\ [Next]_vars => Inv'
  BY TypesNext, ShortNext, AlignedNext, OutNext, InNext DEF Inv
<1> QED
  BY <1>1, <1>2, PTL DEF Spec

\* The descriptors, the SIE, the driver and its state machine stay in range, and
\* the SIE never finishes a fifth transaction before the interrupt.
THEOREM TypeCorrect == Spec => []TypeOK
<1>1. Inv => TypeOK
  BY DEF Inv, Types, Short, BdOK, SieOK, FwOK, CdcOK, RestOK, Descriptors, Descriptor, Pointer, TypeOK
<1> QED
  BY <1>1, InvAlways, PTL

\* getsUSBUSART returns what the host sent, once and in order, however many
\* acknowledgements are lost and however often the endpoint is halted and
\* cleared, its armed buffer taken back or not.  Excepted are the bytes that
\* getsUSBUSART hands over for a buffer that was taken back (UsbPipeStale.cfg
\* shows them), and, until the next configuration, what follows a request in
\* the middle of getsUSBUSART or a CLEAR_FEATURE while the host repeats a packet.
THEOREM OutIsExact == Spec => []OutExact
<1>1. Inv => OutExact
  BY OutImplies DEF Inv
<1> QED
  BY <1>1, InvAlways, PTL

\* The host has every transfer that putUSBUSART was given, ended by a short
\* or a zero-length packet, each of its own length and in order, unless a halt
\* was cleared inside a transfer since the configuration.
THEOREM InIsExact == Spec => []InExact
<1>1. Inv => InExact
  BY InImplies DEF Inv
<1> QED
  BY <1>1, InvAlways, PTL
=============================================================================
