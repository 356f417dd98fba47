---------------------------- MODULE MCUsbControl ----------------------------
(***************************************************************************)
(* UsbControl for TLC.  Lengths are in units of half an EP0 packet of 8    *)
(* bytes: a full packet is 2.  The device descriptor is 2 units short of a *)
(* third packet, the string is a whole number of packets.                  *)
(***************************************************************************)
EXTENDS UsbControl

R(name, of, arg, len) == [name |-> name, of |-> of, arg |-> arg, len |-> len]

MCDescLength == [d \in {<<"DEVICE", 0>>, <<"STRING", 2>>} |->
                   IF d[1] = "DEVICE" THEN 3 ELSE 2]

MCRequests == {
  R("SET_ADDRESS", "DEVICE", 1, 0),
  R("SET_CONFIGURATION", "DEVICE", 1, 0),
  R("GET_DESCRIPTOR", "DEVICE", 0, 4),    \* a short packet ends it
  R("GET_DESCRIPTOR", "STRING", 2, 4),    \* a zero length packet ends it
  R("GET_DESCRIPTOR", "STRING", 7, 2),    \* there is none: stalled
  R("SET_LINE_CODING", "INTERFACE", 1, 1), R("GET_LINE_CODING", "INTERFACE", 0, 1)}
=============================================================================
