---------------------------- MODULE MCBootloader ----------------------------
(***************************************************************************)
(* Images for the bootloader run.  Scaled addresses: bootloader 0..5,      *)
(* application 6..17 in two pages of two blocks, signature at 8, user ID   *)
(* 24..25, configuration 48..49, EEPROM 72..73.                            *)
(***************************************************************************)
EXTENDS BootloaderScripts

\* Sections that start on a block boundary, in the middle of a block and are
\* longer than it, or end inside the block they start in; and an EEPROM part.
WholeSections ==
  <<  << <<6, 5>>, <<13, 4>> >>,
      << <<6, 3>>, <<10, 2>>, <<72, 2>> >> >>
=============================================================================
