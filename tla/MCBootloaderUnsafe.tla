------------------------- MODULE MCBootloaderUnsafe -------------------------
(***************************************************************************)
(* Images that SafeImages excludes, at the addresses of MCBootloader.      *)
(***************************************************************************)
EXTENDS Bootloader

\* A section shorter than a block that straddles a block boundary.
ShortSections == << << <<6, 3>>, <<11, 2>> >> >>

\* A section for the user ID, which QUERY_DEVICE offers to the PC.
UserIdSections == << << <<6, 5>>, <<24, 2>> >> >>
=============================================================================
