-------------------------------- MODULE Mote --------------------------------
(***************************************************************************)
(* The application: the USB/MOTE switch of main.c, and MOTE mode           *)
(* (moteHandler and moteJoiningProcess of MOTEapp.c), which configures the *)
(* LoRa modem with text commands, joins the network and then sends a       *)
(* packet whenever S2 is pressed or automatic mode is on.                  *)
(*                                                                         *)
(* Commands and answer lines are atomic, those that the PC exchanges with  *)
(* the modem through the bridge in USB mode included.  moteHandler reads   *)
(* one byte per pass, so a pass that does not look at the answer may or    *)
(* may not be the one that completes a line; if it is, the line is lost.   *)
(***************************************************************************)
EXTENDS Integers, Sequences

CONSTANTS
  Channels,      \* number of channels (72)
  OnChannels,    \* the sub-band that is switched on (8..15)
  RestPasses,    \* passes of moteRest before a packet (20)
  Rates,         \* number of data rates the packets cycle through (4)
  Plugged,       \* whether the USB cable may be plugged in at power on
  InitialLines,  \* what the modem may have said before the main loop starts
  Downlinks,     \* TRUE: the modem may report "mac_rx" for "mac_tx_ok"
  PcCommands,    \* what the PC may send to the modem in USB mode
  MaxPending,    \* bound: commands and lines there may be when the PC sends
  MaxTroubles    \* bound: commands the modem rejects, joins it denies and
                 \* times the USB cable is plugged in or out, together

\* What the modem may answer.
Answers == {"RN2903", "ok", "accepted", "mac_tx_ok",
            "rejected", "denied", "mac_rx", "invalid_param"}

Command(name, arg) == [name |-> name, arg |-> arg]

\* The settings that the mote makes, to the value 0; the PC may choose another.
Settings == {"devaddr", "appskey", "nwkskey", "adr", "sync", "rx2"}

\* "tx_first" is a packet that carries no data rate.
PossiblePcCommands ==
  [name : Settings, arg : {0, 1}] \cup [name : {"ch on", "ch off"}, arg : 0 .. Channels - 1]
    \cup [name : {"pc_dr"}, arg : 0 .. Rates - 1]
    \cup [name : {"get ver", "sys reset", "join", "tx_first"}, arg : {0}]

ASSUME MoteConstants ==
  /\ Channels \in Nat \ {0} /\ OnChannels \subseteq 0 .. Channels - 1
  /\ RestPasses \in 0 .. Channels - 1 /\ Rates \in Nat \ {0}
  /\ Downlinks \in BOOLEAN /\ Plugged \subseteq BOOLEAN /\ MaxTroubles \in Nat
  /\ PcCommands \subseteq PossiblePcCommands /\ MaxPending \in Nat
  /\ InitialLines \subseteq Seq(Answers)

VARIABLES
  operationType, \* "USB" or "MOTE"
  moteState,
  activeState,
  ch,            \* channel being set, or passes made in moteRest
  dr, autoMode, manualTrigger,
  prevS1, prevS2,
  usb,           \* USB_DET_PORT
  cmds,          \* commands on their way to the modem
  lines,         \* answers on their way back
  begun,         \* modemResonseBuffer: "none", or the beginning of "head",
                 \* the first of lines, or of a "stale" line now gone
  settings,      \* what the modem is set to
  modemDr,       \* its data rate
  told,          \* history: the rate that the mote sent last, and nobody after it
  radio,         \* "idle", "join" or "tx"
  faults, plugs,
  spoilt         \* history: MOTE mode began with answers outstanding

mode   == <<operationType, moteState>>
rest   == <<dr, autoMode, manualTrigger, prevS1, prevS2>>
modem  == <<settings, modemDr, told, radio, faults>>
ghost  == <<plugs, spoilt>>
vars   == <<mode, activeState, ch, rest, usb, cmds, lines, begun, modem, ghost>>

Send(name, arg) == cmds' = Append(cmds, Command(name, arg))

-----------------------------------------------------------------------------
(* main and the parts of moteHandler around the joining process.            *)

\* MOTEapp_getModemResponse gets to the end of a line.
Line == IF begun = "stale" THEN "garbled" ELSE Head(lines)

ReadLine == lines # <<>> /\ lines' = Tail(lines) /\ begun' = "none"

\* A pass that ignores the answer: the end of a line is reached or is not.
IgnoreLine == ReadLine \/ UNCHANGED <<lines, begun>>

InMote(state) == operationType = "MOTE" /\ ~usb /\ moteState = state

\* main: the cable is gone, MOTE mode starts over.
UsbEscape ==
  /\ operationType = "USB" /\ ~usb
  /\ operationType' = "MOTE"
  /\ moteState' = "MOTE_STARTUP"
  /\ spoilt' = (spoilt \/ cmds # <<>> \/ lines # <<>> \/ begun # "none"
                  \/ radio # "idle")
  /\ UNCHANGED <<activeState, ch, rest, usb, cmds, lines, begun, modem, plugs>>

\* moteHandler finds the cable: MOTE_SWAP, in the middle of a line or not.
Swap ==
  /\ operationType = "MOTE" /\ usb
  /\ operationType' = "USB"
  /\ moteState' = "MOTE_SWAP"
  /\ \/ IgnoreLine
     \/ lines # <<>> /\ begun = "none" /\ begun' = "head" /\ UNCHANGED lines
  /\ UNCHANGED <<activeState, ch, rest, usb, cmds, modem, ghost>>

MoteStartup ==
  /\ InMote("MOTE_STARTUP")
  /\ moteState' = "MOTE_JOINING"
  /\ activeState' = "moteStartup"
  /\ IgnoreLine
  /\ UNCHANGED <<operationType, ch, rest, usb, cmds, modem, ghost>>

\* USB mode: the bridge may hand lines to the PC.
UsbForward ==
  /\ operationType = "USB" /\ usb /\ lines # <<>>
  /\ lines' = Tail(lines)
  /\ begun' = IF begun = "head" THEN "stale" ELSE begun
  /\ UNCHANGED <<mode, activeState, ch, rest, usb, cmds, modem, ghost>>

\* USB mode: the bridge sends what the PC types on to the modem.
UsbCommand ==
  /\ operationType = "USB" /\ usb /\ Len(cmds) + Len(lines) < MaxPending
  /\ \E c \in PcCommands : cmds' = Append(cmds, c)
  /\ UNCHANGED <<mode, activeState, ch, rest, usb, lines, begun, modem, ghost>>

-----------------------------------------------------------------------------
(* moteJoiningProcess.                                                      *)

In(state) == InMote("MOTE_JOINING") /\ activeState = state

\* Mutant: the modem is reset first and the answer not waited for.
JoinStartupReset ==
  /\ In("moteStartup")
  /\ cmds' = cmds \o <<Command("sys reset", 0), Command("get ver", 0)>>
  /\ activeState' = "moteReset"
  /\ IgnoreLine
  /\ UNCHANGED <<mode, ch, rest, usb, modem, ghost>>

\* The loop that flushes the buffer stops at the first byte that is not a
\* carriage return: at most it finishes the line that is being read.
JoinStartup ==
  /\ In("moteStartup")
  /\ Send("get ver", 0)
  /\ activeState' = "moteReset"
  /\ IgnoreLine
  /\ UNCHANGED <<mode, ch, rest, usb, modem, ghost>>

\* The answer each state waits for, the command it sends then, and the next
\* state.  moteSetRx2 is left only after the last channel.
Step == [
  moteReset       |-> [want |-> "RN2903",   send |-> "devaddr",  next |-> "moteSetDevaddr"],
  moteSetDevaddr  |-> [want |-> "ok",       send |-> "appskey",  next |-> "moteSetAppskey"],
  moteSetAppskey  |-> [want |-> "ok",       send |-> "nwkskey",  next |-> "moteSetNwkskey"],
  moteSetNwkskey  |-> [want |-> "ok",       send |-> "adr",      next |-> "moteSetAdr"],
  moteSetAdr      |-> [want |-> "ok",       send |-> "sync",     next |-> "moteSetSync"],
  moteSetSync     |-> [want |-> "ok",       send |-> "rx2",      next |-> "moteSetRx2"],
  moteSetRx2      |-> [want |-> "ok",       send |-> "ch status", next |-> "moteSetChStatus"],
  moteSetChStatus |-> [want |-> "ok",       send |-> "join",     next |-> "moteJoinAbp"],
  moteJoinAbp     |-> [want |-> "ok",       send |-> "none",     next |-> "moteWaitAccepted"],
  moteWaitAccepted|-> [want |-> "accepted", send |-> "tx_first", next |-> "moteIniTx"],
  moteIniTx       |-> [want |-> "ok",       send |-> "none",     next |-> "moteWaitIniTxOk"] ]

\* Mutant: the last channel is not set.
ChannelsDoneEarly(channel) == channel + 2 >= Channels

ChannelsDone(channel) == channel + 1 >= Channels

\* "only enable subband #2"
ChannelCommand(channel) ==
  Command(IF channel \in OnChannels THEN "ch on" ELSE "ch off", channel)

Configure(state) ==
  /\ In(state) /\ ReadLine
  /\ Line = Step[state].want
  /\ cmds' = CASE state = "moteSetRx2"         -> Append(cmds, ChannelCommand(ch))
               [] Step[state].send = "none" -> cmds
               [] OTHER -> Append(cmds, Command(Step[state].send, 0))
  /\ ch' = CASE state = "moteSetSync" -> 0
             [] state = "moteSetRx2"  -> ch + 1
             [] OTHER                 -> ch
  /\ activeState' = IF state = "moteSetRx2" /\ ~ChannelsDone(ch)
                      THEN state ELSE Step[state].next
  /\ UNCHANGED <<mode, rest, usb, modem, ghost>>

\* Mutant: the state is not left after a wrong answer.
RetryForgotten(state) ==
  /\ In(state) /\ ReadLine
  /\ Line # Step[state].want
  /\ UNCHANGED <<mode, activeState, ch, rest, usb, cmds, modem, ghost>>

\* Any other answer: start again.
Retry(state) ==
  /\ In(state) /\ ReadLine
  /\ Line # Step[state].want
  /\ activeState' = "moteStartup"
  /\ UNCHANGED <<mode, ch, rest, usb, cmds, modem, ghost>>

WaitIniTxOk ==
  /\ In("moteWaitIniTxOk") /\ IgnoreLine
  /\ ch' = 0
  /\ activeState' = "moteRest"
  /\ UNCHANGED <<mode, rest, usb, cmds, modem, ghost>>

\* Mutant: only automatic mode counts the passes.
CountingAutoOnly == autoMode

Counting == autoMode \/ manualTrigger

\* A pass of moteRest with the buttons as they are.
Rest(s1, s2) ==
  /\ In("moteRest") /\ IgnoreLine
  /\ prevS1' = s1 /\ prevS2' = s2
  /\ autoMode' = IF s1 /\ ~prevS1 THEN ~autoMode ELSE autoMode
  /\ LET passes == IF Counting THEN ch + 1 ELSE ch
         due    == passes > RestPasses
     IN /\ ch' = IF due THEN 0 ELSE passes
        /\ manualTrigger' = (~due /\ (manualTrigger \/ (s2 /\ ~prevS2)))
        /\ IF due THEN activeState' = "moteTxUncnf" /\ Send("tx", dr)
                  ELSE UNCHANGED <<activeState, cmds>>
  /\ UNCHANGED <<mode, dr, usb, modem, ghost>>

TxUncnf ==
  /\ In("moteTxUncnf") /\ IgnoreLine
  /\ activeState' = "moteTxWait"
  /\ UNCHANGED <<mode, ch, rest, usb, cmds, modem, ghost>>

\* Mutant: the modem is told the old data rate.
TxDoneOldRate ==
  /\ In("moteTxWait") /\ ReadLine
  /\ Line = "mac_tx_ok"
  /\ dr' = (dr + 1) % Rates
  /\ Send("dr", dr)
  /\ activeState' = "moteNextDr"
  /\ UNCHANGED <<mode, ch, autoMode, manualTrigger, prevS1, prevS2, usb, modem, ghost>>

TxDone ==
  /\ In("moteTxWait") /\ ReadLine
  /\ Line = "mac_tx_ok"
  /\ dr' = (dr + 1) % Rates
  /\ Send("dr", dr')
  /\ activeState' = "moteNextDr"
  /\ UNCHANGED <<mode, ch, autoMode, manualTrigger, prevS1, prevS2, usb, modem, ghost>>

NextDr ==
  /\ In("moteNextDr") /\ ReadLine
  /\ Line = "ok"
  /\ activeState' = "moteRest"
  /\ UNCHANGED <<mode, ch, rest, usb, cmds, modem, ghost>>

\* Neither state does anything about another answer.
OtherAnswer ==
  /\ ReadLine
  /\ \/ In("moteTxWait") /\ Line # "mac_tx_ok"
     \/ In("moteNextDr") /\ Line # "ok"
  /\ UNCHANGED <<mode, activeState, ch, rest, usb, cmds, modem, ghost>>

MainLoop ==
  \/ UsbEscape \/ Swap \/ MoteStartup
  \/ JoinStartup
  \/ \E state \in DOMAIN Step : Configure(state) \/ Retry(state)
  \/ WaitIniTxOk
  \/ \E s1, s2 \in BOOLEAN : Rest(s1, s2)
  \/ TxUncnf \/ TxDone \/ NextDr \/ OtherAnswer

-----------------------------------------------------------------------------
(* The modem and the cable.                                                 *)

Answer(line) == cmds # <<>> /\ cmds' = Tail(cmds) /\ lines' = Append(lines, line)

ModemVersion ==
  /\ cmds # <<>> /\ Head(cmds).name = "get ver" /\ Answer("RN2903")
  /\ UNCHANGED <<mode, activeState, ch, rest, usb, begun, modem, ghost>>

\* The modem starts up again with whatever rate it has saved.
ModemReset ==
  /\ cmds # <<>> /\ Head(cmds).name = "sys reset" /\ Answer("RN2903")
  /\ settings' = {} /\ modemDr' \in 0 .. Rates - 1 /\ told' = FALSE /\ radio' = "idle"
  /\ UNCHANGED <<mode, activeState, ch, rest, usb, begun, faults, ghost>>

\* What a command sets: the switch of a channel, or the setting of its name.
Item(c) == IF c.name \in {"ch on", "ch off"} THEN <<"ch", c.arg>> ELSE <<c.name, 0>>

ModemSet ==
  /\ cmds # <<>> /\ Head(cmds).name \in Settings \cup {"ch on", "ch off"} /\ Answer("ok")
  /\ settings' = {s \in settings : Item(s) # Item(Head(cmds))} \cup {Head(cmds)}
  /\ UNCHANGED <<mode, activeState, ch, rest, usb, begun, modemDr, told, radio, faults, ghost>>

\* The mote or the PC sets the rate; "pc_dr" is also a rate that the network
\* sets when the PC has switched ADR on.
ModemRate ==
  /\ cmds # <<>> /\ Head(cmds).name \in {"dr", "pc_dr"} /\ Answer("ok")
  /\ modemDr' = Head(cmds).arg
  /\ told' = (Head(cmds).name = "dr")
  /\ UNCHANGED <<mode, activeState, ch, rest, usb, begun, settings, radio, faults, ghost>>

ModemJoin ==
  /\ cmds # <<>> /\ Head(cmds).name = "join" /\ radio = "idle" /\ Answer("ok")
  /\ radio' = "join"
  /\ UNCHANGED <<mode, activeState, ch, rest, usb, begun, settings, modemDr, told, faults,
                 ghost>>

ModemTransmit ==
  /\ cmds # <<>> /\ Head(cmds).name \in {"tx", "tx_first"} /\ radio = "idle" /\ Answer("ok")
  /\ radio' = "tx"
  /\ UNCHANGED <<mode, activeState, ch, rest, usb, begun, settings, modemDr, told, faults,
                 ghost>>

\* A rejected command, counted as a fault unless the radio is busy.
ModemReject ==
  /\ cmds # <<>> /\ Head(cmds).name \notin {"get ver", "sys reset"}
  /\ Answer("rejected")
  /\ IF Head(cmds).name \in {"join", "tx", "tx_first"} /\ radio # "idle"
       THEN UNCHANGED faults
       ELSE faults + plugs < MaxTroubles /\ faults' = faults + 1
  /\ told' = (told /\ Head(cmds).name # "dr")
  /\ UNCHANGED <<mode, activeState, ch, rest, usb, begun, settings, modemDr, radio,
                 ghost>>

ModemEvent ==
  /\ \/ radio = "join" /\ lines' = Append(lines, "accepted") /\ UNCHANGED faults
     \/ /\ radio = "join" /\ faults + plugs < MaxTroubles
        /\ lines' = Append(lines, "denied") /\ faults' = faults + 1
     \/ radio = "tx" /\ lines' = Append(lines, "mac_tx_ok") /\ UNCHANGED faults
     \/ Downlinks /\ radio = "tx" /\ lines' = Append(lines, "mac_rx") /\ UNCHANGED faults
  /\ radio' = "idle"
  /\ UNCHANGED <<mode, activeState, ch, rest, usb, cmds, begun, settings, modemDr, told,
                 ghost>>

Modem ==
  \/ ModemVersion \/ ModemReset \/ ModemSet \/ ModemRate \/ ModemJoin \/ ModemTransmit \/ ModemReject
  \/ ModemEvent

Plug ==
  /\ faults + plugs < MaxTroubles
  /\ plugs' = plugs + 1
  /\ usb' = ~usb
  /\ UNCHANGED <<mode, activeState, ch, rest, cmds, lines, begun, modem, spoilt>>

-----------------------------------------------------------------------------
\* main starts in USB mode, after modemResync; the modem has a rate of its own.
Init ==
  /\ operationType = "USB" /\ moteState = "MOTE_STARTUP"
  /\ activeState = "moteStartup"
  /\ ch = 0 /\ dr = 0 /\ autoMode = FALSE /\ manualTrigger = FALSE
  /\ prevS1 = FALSE /\ prevS2 = FALSE
  /\ usb \in Plugged
  /\ cmds = <<>> /\ lines \in InitialLines /\ begun = "none"
  /\ settings = {} /\ modemDr \in 0 .. Rates - 1 /\ told = FALSE /\ radio = "idle"
  /\ faults = 0 /\ plugs = 0
  /\ spoilt = FALSE

Next == MainLoop \/ UsbForward \/ UsbCommand \/ Modem \/ Plug

Spec == Init /\ [][Next]_vars

(* main loops for ever, the modem answers every command and ends every      *)
(* transmission.  Nobody has to press a button or touch the cable.          *)
FairSpec == Spec /\ WF_vars(MainLoop) /\ WF_vars(Modem)

-----------------------------------------------------------------------------
(* Properties.                                                              *)

Configuring == DOMAIN Step \ {"moteJoinAbp", "moteIniTx"}
Joining == {"moteJoinAbp", "moteWaitAccepted"}
Joined  == {"moteIniTx", "moteWaitIniTxOk", "moteRest", "moteTxUncnf", "moteTxWait",
            "moteNextDr"}

\* Every variable is of its type; ch never names a channel that is not there.
TypeOK ==
  /\ operationType \in {"USB", "MOTE"}
  /\ moteState \in {"MOTE_STARTUP", "MOTE_JOINING", "MOTE_SWAP"}
  /\ activeState \in {"moteStartup"} \cup DOMAIN Step \cup Joined
  /\ ch \in 0 .. Channels
  /\ {dr, modemDr} \subseteq 0 .. Rates - 1
  /\ {autoMode, manualTrigger, prevS1, prevS2, usb, told, spoilt} \subseteq BOOLEAN
  /\ begun \in {"none", "head", "stale"}
  /\ radio \in {"idle", "join", "tx"}
  /\ {faults, plugs, faults + plugs} \subseteq 0 .. MaxTroubles

\* The mote joins and transmits only with the whole configuration accepted by
\* the modem, and "only enable subband #2": every channel was switched on or
\* off, however often a rejected command sent it back to the start.
JoinedConfigured ==
  InMote("MOTE_JOINING") /\ ~spoilt /\ activeState \in Joining \cup Joined =>
    settings = {Command(s, 0) : s \in Settings}
                 \cup {ChannelCommand(c) : c \in 0 .. Channels - 1}

\* Answers of the modem that have not been read, now or later.
Outstanding == Len(cmds) + Len(lines) + (IF radio = "idle" THEN 0 ELSE 1)

\* While it configures the modem the mote is in step with it: one answer is
\* outstanding, to the command last sent, and none when it starts again.
\* Without this it would take the answer to one command for that to the next.
InStep ==
  InMote("MOTE_JOINING") /\ ~spoilt =>
    /\ activeState = "moteStartup" => Outstanding = 0
    /\ activeState \in Configuring => Outstanding = 1

\* The data rate in a packet is the one the modem sends it with, through rejected
\* commands, changes of the cable and answers that are out of step, once the modem
\* has accepted the mote's last "mac set dr" and until somebody else sets its rate.
\* That excepts the first packet: its label is 0 whatever rate the modem starts up
\* with, the first "mac set dr" follows it; and the first packet after the PC has
\* set the rate or reset the modem, or after the modem has rejected a "mac set dr".
RateLabelTrue ==
  told /\ cmds # <<>> /\ Head(cmds).name = "tx" => Head(cmds).arg = modemDr

\* "Retry Command": rejected commands and denied joins do not keep the mote
\* from joining, when it began in step with the modem.
JoinRecovers ==
  In("moteStartup") /\ ~spoilt ~> activeState = "moteRest" \/ usb

\* "schedule a measurement": a press of S2 in moteRest is followed by one.
MeasurementFollows ==
  In("moteRest") /\ manualTrigger ~> activeState = "moteTxUncnf" \/ usb

\* "flush buffer", "Retry Command": the same as JoinRecovers, whatever was in
\* the buffer at the start.
JoinRecoversAlways ==
  In("moteStartup") ~> activeState = "moteRest" \/ usb
=============================================================================
