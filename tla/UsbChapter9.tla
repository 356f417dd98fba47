---------------------------- MODULE UsbChapter9 ----------------------------
(***************************************************************************)
(* What a USB device promises the host of its state, whatever happens on   *)
(* endpoint 0: it has an address before it has a configuration, only a bus *)
(* reset takes the address away, and after one it has neither.             *)
(***************************************************************************)
EXTENDS Naturals

CONSTANTS Addresses, Configurations

VARIABLES state, address, configuration

vars == <<state, address, configuration>>

States == {"powered", "default", "address", "configured"}

Init == state = "powered" /\ address = 0 /\ configuration = 0

\* A bus reset, whatever the state.
Reset == state' = "default" /\ address' = 0 /\ configuration' = 0

\* The address the host has assigned takes effect.
SetAddress(a) ==
  /\ state = "default" /\ a # 0
  /\ state' = "address" /\ address' = a
  /\ UNCHANGED configuration

\* Configuration 0 is the Address state.
SetConfiguration(c) ==
  /\ state \in {"address", "configured"}
  /\ state' = IF c = 0 THEN "address" ELSE "configured"
  /\ configuration' = c
  /\ UNCHANGED address

Next == \/ Reset
        \/ \E a \in Addresses : SetAddress(a)
        \/ \E c \in Configurations : SetConfiguration(c)

Spec == Init /\ [][Next]_vars
=============================================================================
