------------------------------- MODULE MCMote -------------------------------
(***************************************************************************)
(* What the modem may have answered by the time the main loop starts:      *)
(* nothing, or the answer to the "z" that modemResync sends; and what the  *)
(* PC may tell the modem.                                                  *)
(***************************************************************************)
EXTENDS Mote

Silent == {<<>>}
NoCommands == {}
SomeCommands == {Command("sync", 1), Command("pc_dr", 1), Command("sys reset", 0)}
AnsweredResync == {<<"invalid_param">>}
=============================================================================
