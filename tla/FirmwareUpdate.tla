--------------------------- MODULE FirmwareUpdate ---------------------------
(***************************************************************************)
(* What the bootloader promises about the application: at any time either  *)
(* one version is installed, whole, or none is; only an installed version  *)
(* runs; and an update takes the old version away before it installs the   *)
(* new one in a single step.                                               *)
(***************************************************************************)
EXTENDS Naturals

CONSTANTS
  Versions,  \* the application images a host may install
  None       \* no version

VARIABLES
  installed, \* the version a reset may start
  running    \* the version that runs

updateVars == <<installed, running>>

UpdateInit == installed = None /\ running = None

Start ==
  /\ running = None
  /\ installed \in Versions
  /\ running' = installed
  /\ UNCHANGED installed

Stop ==
  /\ running' = None
  /\ UNCHANGED installed

Remove ==
  /\ running = None
  /\ installed' = None
  /\ UNCHANGED running

Install ==
  /\ running = None
  /\ installed = None
  /\ installed' \in Versions
  /\ UNCHANGED running

UpdateNext == Start \/ Stop \/ Remove \/ Install

UpdateSpec == UpdateInit /\ [][UpdateNext]_updateVars
=============================================================================
