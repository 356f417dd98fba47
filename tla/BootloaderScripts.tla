------------------------- MODULE BootloaderScripts -------------------------
(***************************************************************************)
(* The images for which the bootloader works: what WriteFlashBlock and     *)
(* PROGRAM_COMPLETE need of the packets of every script.                   *)
(*                                                                         *)
(* The code checks none of this.  WriteFlashBlock clears TBLPTRU, so that  *)
(* a packet for the user ID lands in the flash, and the one call of        *)
(* PROGRAM_COMPLETE cannot write a section that is shorter than a block    *)
(* and crosses into the next: its last bytes stay in the buffer and go in  *)
(* front of the next section.                                              *)
(***************************************************************************)
EXTENDS Bootloader

Packet ==
  [cmd : Queries \cup {"ERASE_DEVICE", "PROGRAM_COMPLETE", "SIGN_FLASH", "RESET_DEVICE"}]
    \cup [cmd : {"UNLOCK_CONFIG"}, unlock : BOOLEAN]
    \cup [cmd : {"PROGRAM_DEVICE", "GET_DATA"}, addr : Nat, data : Seq(Cell)]

\* The packets that go through ProgrammingBuffer.
Writes(p) == p.cmd = "PROGRAM_DEVICE" /\ Bank(p.addr) \notin {2, 3}

After(p) == p.addr + Len(p.data)

\* Less than a block, and not at the start of one.
Loose(p) == Writes(p) /\ p.addr % Block # 0 /\ Len(p.data) < Block

\* ... and not within one block either.
Misfit(p) == Loose(p) /\ (p.addr % Block) + Len(p.data) > Block

Scripts == {Script(v, cfg) : v \in Versions, cfg \in ConfigAsked}
ScriptPackets == UNION {{s[i] : i \in DOMAIN s} : s \in Scripts}
LooseEnds == {After(p) : p \in {q \in ScriptPackets : Loose(q)}}

\* A misfit only continues the packet before it; "before" is whether the packet that
\* precedes the sequence is one that it can continue.
Continues(s, before) ==
  \A i \in DOMAIN s : Misfit(s[i]) => IF i = 1 THEN before ELSE Writes(s[i - 1])

ASSUME SafeImages ==
  /\ Scripts \subseteq Seq(Packet)
  /\ \A s \in Scripts : Continues(s, FALSE)
  /\ \A p \in ScriptPackets : Writes(p) =>
       /\ p.data # <<>>
       /\ AppStart <= p.addr /\ After(p) <= FlashEnd
       /\ p.addr \notin LooseEnds

\* What the update program sends after a command x.
Follows(x, y) ==
  \/ x = "QUERY_DEVICE" /\ y = "QUERY_EXTENDED_INFO"
  \/ x = "QUERY_EXTENDED_INFO" /\ y = "UNLOCK_CONFIG"
  \/ x = "UNLOCK_CONFIG" /\ y = "ERASE_DEVICE"
  \/ x = "ERASE_DEVICE" /\ y \in {"PROGRAM_DEVICE", "PROGRAM_COMPLETE"}
  \/ x = "PROGRAM_DEVICE" /\ y \in {"PROGRAM_DEVICE", "PROGRAM_COMPLETE"}
  \/ x = "PROGRAM_COMPLETE" /\ y \in {"PROGRAM_DEVICE", "PROGRAM_COMPLETE", "GET_DATA"}
  \/ x = "GET_DATA" /\ y \in {"GET_DATA", "SIGN_FLASH"}
  \/ x = "SIGN_FLASH" /\ y = "RESET_DEVICE"

Ordered(s) == \A i \in 1 .. Len(s) - 1 : Follows(s[i].cmd, s[i + 1].cmd)

Reads(p) == p.cmd = "GET_DATA"

\* A packet of s reads the cell a of version v back.
CheckedBy(s, v, a) ==
  \E i \in DOMAIN s :
    /\ Reads(s[i])
    /\ a - s[i].addr + 1 \in DOMAIN s[i].data
    /\ s[i].data[a - s[i].addr + 1] = <<v, a>>

\* True of Script for every image that has bytes, all of them in the memory.
ASSUME ScriptShape ==
  /\ \A s \in Scripts : s # <<>> /\ Head(s).cmd = "QUERY_DEVICE" /\ Ordered(s)
  /\ \A v \in Versions : /\ ImageCells(v) \subseteq Memory
                          /\ \A cfg \in ConfigAsked, a \in ImageCells(v) :
                               CheckedBy(Script(v, cfg), v, a)
  /\ \A p \in ScriptPackets : Writes(p) =>
       \A i \in DOMAIN p.data : p.data[i] # Signature

\* A packet of v's own bytes, from and to the memory.
CellsOf(p) == p.addr .. After(p) - 1
Carries(p, v) == \A i \in DOMAIN p.data : p.data[i] = Content(v, p.addr + i - 1)
Expected(p, v) ==
  p.cmd \in {"PROGRAM_DEVICE", "GET_DATA"} =>
    /\ Carries(p, v) /\ CellsOf(p) \subseteq Memory
    /\ p.cmd = "PROGRAM_DEVICE" => Bank(p.addr) # 2

Covered(s, a) == \E i \in DOMAIN s : s[i].cmd = "PROGRAM_DEVICE" /\ a \in CellsOf(s[i])

\* A packet for the buffer continues the one before it or begins a section; pointer is
\* the ProgrammedPointer that the first packet of s finds.
Closes(p) == p.cmd \in {"ERASE_DEVICE", "PROGRAM_COMPLETE"}
Joins(s, pointer) ==
  \A i \in DOMAIN s : Writes(s[i]) =>
    IF i = 1 THEN pointer \in {InvalidAddress, s[i].addr}
    ELSE \/ Writes(s[i - 1]) /\ s[i].addr = After(s[i - 1])
         \/ Closes(s[i - 1])

ReadsLast(s) ==
  \A i, j \in DOMAIN s : i < j /\ Reads(s[i]) => s[j].cmd # "PROGRAM_DEVICE"

\* True of Script for every image that lies in flash and EEPROM: what is read back has
\* been sent before, each section from its start to its end.
ASSUME ScriptContents ==
  FALSE \in ConfigAsked => \A v \in Versions : LET s == Script(v, FALSE) IN
    /\ \A i \in DOMAIN s : Expected(s[i], v)
    /\ Joins(s, InvalidAddress) /\ ReadsLast(s)
    /\ \A i \in DOMAIN s : Reads(s[i]) => \A a \in CellsOf(s[i]) : Covered(s, a)
=============================================================================
