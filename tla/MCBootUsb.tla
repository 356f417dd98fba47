----------------------------- MODULE MCBootUsb -----------------------------
(***************************************************************************)
(* BootUsb for TLC.  Lengths are in units of half an EP0 packet of 8       *)
(* bytes: a full packet is 2.  The device descriptor ends with a short     *)
(* packet, the report descriptor (the boot loader's is 29 bytes) is made   *)
(* a whole number of packets here.                                         *)
(***************************************************************************)
EXTENDS BootUsb

R(name, of, arg, len) == [name |-> name, of |-> of, arg |-> arg, len |-> len]

MCDescLength == [d \in {"DEVICE", "REPORT"} |-> IF d = "DEVICE" THEN 3 ELSE 2]

MCRequests == {
  R("SET_ADDRESS", "DEVICE", 2, 0),
  R("SET_CONFIGURATION", "DEVICE", 1, 0),
  R("GET_DESCRIPTOR", "DEVICE", 0, 4),       \* a short packet ends it
  R("GET_DESCRIPTOR", "REPORT", 0, 4),       \* a zero length packet ends it
  R("GET_DESCRIPTOR", "QUALIFIER", 0, 2),    \* there is none: stalled
  R("SET_REPORT", "INTERFACE", 0, 1),        \* nobody claims it: stalled
  R("GET_CONFIGURATION", "DEVICE", 0, 1)}
=============================================================================
