----------------------------- MODULE MoteProofs -----------------------------
(***************************************************************************)
(* Theorems about Mote for every number of channels, any sub-band, any     *)
(* number of data rates, of rejected commands, denied joins and changes of *)
(* the cable, and whatever the PC tells the modem in USB mode.             *)
(*                                                                         *)
(* JoinedConfigured needs to know which command the answer that is awaited *)
(* belongs to: in every state of moteJoiningProcess exactly the last one   *)
(* sent is outstanding (Awaiting), and all those before it have been       *)
(* accepted (Confirmed).  InStep is what is left of that when the commands *)
(* are forgotten.                                                          *)
(***************************************************************************)
EXTENDS Mote, TLAPS

OurSettings == {Command(s, 0) : s \in Settings}
Full == OurSettings \cup {ChannelCommand(c) : c \in 0 .. Channels - 1}

\* What the mote sends to the modem, and what may be on its way there.
Own ==
  Full \cup [name : {"get ver", "join", "tx_first"}, arg : {0}]
       \cup [name : {"tx", "dr"}, arg : 0 .. Rates - 1]
Sendable == Own \cup PossiblePcCommands

\* What the modem may be set to, by the mote or by the PC: one value for every item.
Settable == [name : Settings, arg : {0, 1}] \cup [name : {"ch on", "ch off"}, arg : 0 .. Channels - 1]
OneEach == \A c, d \in settings : Item(c) = Item(d) => c = d

Wire ==
  /\ cmds \in Seq(Sendable) /\ lines \in Seq(Answers)
  /\ settings \subseteq Settable /\ OneEach

\* Where ch may be: it counts channels, then passes.
Counter ==
  /\ activeState = "moteSetRx2" => ch < Channels
  /\ activeState = "moteRest" => ch <= RestPasses
  /\ activeState \in {"moteTxUncnf", "moteTxWait", "moteNextDr"} => ch = 0

\* The command sent last, in the states that wait for its answer.
LastSent ==
  CASE activeState = "moteReset"       -> Command("get ver", 0)
    [] activeState = "moteSetDevaddr"  -> Command("devaddr", 0)
    [] activeState = "moteSetAppskey"  -> Command("appskey", 0)
    [] activeState = "moteSetNwkskey"  -> Command("nwkskey", 0)
    [] activeState = "moteSetAdr"      -> Command("adr", 0)
    [] activeState = "moteSetSync"     -> Command("sync", 0)
    [] activeState = "moteSetRx2"      -> IF ch = 0 THEN Command("rx2", 0)
                                          ELSE ChannelCommand(ch - 1)
    [] activeState = "moteSetChStatus" -> ChannelCommand(Channels - 1)

\* The settings before it.
Sent(names) == {Command(s, 0) : s \in names}
Confirmed ==
  CASE activeState \in {"moteReset", "moteSetDevaddr"} -> {}
    [] activeState = "moteSetAppskey"  -> Sent({"devaddr"})
    [] activeState = "moteSetNwkskey"  -> Sent({"devaddr", "appskey"})
    [] activeState = "moteSetAdr"      -> Sent({"devaddr", "appskey", "nwkskey"})
    [] activeState = "moteSetSync"     -> Sent(Settings \ {"sync", "rx2"})
    [] activeState = "moteSetRx2"      ->
         IF ch = 0 THEN Sent(Settings \ {"rx2"})
         ELSE OurSettings \cup {ChannelCommand(c) : c \in 0 .. ch - 2}
    [] activeState = "moteSetChStatus" ->
         OurSettings \cup {ChannelCommand(c) : c \in 0 .. Channels - 2}

Quiet == cmds = <<>> /\ lines = <<>> /\ radio = "idle"

\* A command has no answer yet, or its answer has not been read.
Awaiting(command) ==
  /\ radio = "idle"
  /\ \/ cmds = <<command>> /\ lines = <<>>
     \/ cmds = <<>> /\ Len(lines) = 1 /\ (lines[1] = "ok" => command \in settings)

\* The same for a command that starts the radio, which reports back later.
AwaitingRadio(name, kind) ==
  \/ radio = "idle" /\ cmds = <<Command(name, 0)>> /\ lines = <<>>
  \/ radio = kind /\ cmds = <<>> /\ lines = <<"ok">>
  \/ radio = "idle" /\ cmds = <<>> /\ Len(lines) = 1 /\ lines[1] # "ok"
  \/ radio = "idle" /\ cmds = <<>> /\ Len(lines) = 2 /\ lines[1] = "ok"

AwaitingReport ==
  /\ cmds = <<>>
  /\ \/ radio = "join" /\ lines = <<>>
     \/ radio = "idle" /\ Len(lines) = 1

Setting == Configuring \ {"moteWaitAccepted"}

Phase ==
  /\ activeState = "moteStartup" => Quiet
  /\ activeState \in Setting => Awaiting(LastSent) /\ Confirmed \subseteq settings
  /\ activeState = "moteJoinAbp" => AwaitingRadio("join", "join")
  /\ activeState = "moteWaitAccepted" => AwaitingReport
  /\ activeState = "moteIniTx" => AwaitingRadio("tx_first", "tx")
  /\ activeState \in Joining \cup Joined => Full \subseteq settings

\* MOTE mode, begun with nothing outstanding.
Synchronized ==
  operationType = "MOTE" /\ ~spoilt =>
    /\ begun = "none" /\ cmds \in Seq(Own)
    /\ moteState \in {"MOTE_STARTUP", "MOTE_JOINING"}
    /\ moteState = "MOTE_STARTUP" => Quiet
    /\ moteState = "MOTE_JOINING" => Phase

IInv == TypeOK /\ Wire /\ Counter /\ Synchronized

-----------------------------------------------------------------------------
(* Types.                                                                   *)

LEMMA Constants ==
  /\ Channels \in Nat \ {0} /\ Rates \in Nat \ {0} /\ MaxTroubles \in Nat
  /\ RestPasses \in Nat /\ RestPasses < Channels
  BY MoteConstants

LEMMA NextRate == ASSUME NEW r \in 0 .. Rates - 1 PROVE (r + 1) % Rates \in 0 .. Rates - 1
  BY Constants

LEMMA FullNames ==
  ASSUME NEW c \in Full
  PROVE  c.name \in Settings \cup {"ch on", "ch off"}
<1>1. CASE c \in OurSettings
  <2>1. PICK s \in Settings : c = [name |-> s, arg |-> 0]
    BY <1>1 DEF OurSettings, Command
  <2> QED
    BY <2>1
<1>2. CASE c \in {ChannelCommand(k) : k \in 0 .. Channels - 1}
  <2>1. PICK k \in 0 .. Channels - 1 :
          c = [name |-> IF k \in OnChannels THEN "ch on" ELSE "ch off", arg |-> k]
    BY <1>2 DEF ChannelCommand, Command
  <2> QED
    BY <2>1
<1> QED
  BY <1>1, <1>2 DEF Full

LEMMA OwnNames ==
  ASSUME NEW c \in Own
  PROVE  /\ c.name \notin {"sys reset", "pc_dr"}
         /\ c.name \in {"tx", "dr"} => c.arg \in 0 .. Rates - 1
         /\ c.name \in Settings \cup {"ch on", "ch off"} => c \in Full
<1>1. CASE c \in Full
  BY <1>1, FullNames DEF Settings
<1>2. CASE c \in [name : {"get ver", "join", "tx_first"}, arg : {0}]
  <2>1. c.name \in {"get ver", "join", "tx_first"}
    BY <1>2
  <2> QED
    BY <2>1 DEF Settings
<1>3. CASE c \in [name : {"tx", "dr"}, arg : 0 .. Rates - 1]
  <2>1. c.name \in {"tx", "dr"} /\ c.arg \in 0 .. Rates - 1
    BY <1>3
  <2> QED
    BY <2>1 DEF Settings
<1> QED
  BY <1>1, <1>2, <1>3 DEF Own

LEMMA FullSettable == Full \subseteq Settable
<1>1. \A s \in Settings : Command(s, 0) \in Settable
  BY DEF Command, Settable
<1>2. \A c \in 0 .. Channels - 1 : ChannelCommand(c) \in Settable
  BY DEF ChannelCommand, Command, Settable
<1> QED
  BY <1>1, <1>2 DEF Full, OurSettings

\* A command that sets a rate or a setting sets one there is.
LEMMA SendableNames ==
  ASSUME NEW c \in Sendable
  PROVE  /\ c.name \in {"dr", "pc_dr"} => c.arg \in 0 .. Rates - 1
         /\ c.name \in Settings \cup {"ch on", "ch off"} => c \in Settable
<1>1. CASE c \in Own
  BY <1>1, OwnNames, FullSettable
<1>2. CASE c \in Settable
  <2>1. c.name \in Settings \cup {"ch on", "ch off"}
    BY <1>2 DEF Settable
  <2> QED
    BY <1>2, <2>1 DEF Settings
<1>3. CASE c \in [name : {"pc_dr"}, arg : 0 .. Rates - 1]
  <2>1. c.name = "pc_dr" /\ c.arg \in 0 .. Rates - 1
    BY <1>3
  <2> QED
    BY <2>1 DEF Settings
<1>4. CASE c \in [name : {"get ver", "sys reset", "join", "tx_first"}, arg : {0}]
  <2>1. c.name \in {"get ver", "sys reset", "join", "tx_first"}
    BY <1>4
  <2> QED
    BY <2>1 DEF Settings
<1> QED
  BY <1>1, <1>2, <1>3, <1>4 DEF Sendable, PossiblePcCommands, Settable

\* The mote has one value for every item.
LEMMA FullItems ==
  ASSUME NEW c \in Full, NEW d \in Full, Item(c) = Item(d)
  PROVE  c = d
<1>1. ASSUME NEW e \in OurSettings
      PROVE  /\ e = [name |-> e.name, arg |-> 0] /\ e.name \in Settings
             /\ Item(e) = <<e.name, 0>>
  <2>1. PICK s \in Settings : e = [name |-> s, arg |-> 0]
    BY <1>1 DEF OurSettings, Command
  <2>2. e.name = s /\ s \notin {"ch on", "ch off"}
    BY <2>1 DEF Settings
  <2> QED
    BY <2>1, <2>2 DEF Item
<1>2. ASSUME NEW e \in {ChannelCommand(k) : k \in 0 .. Channels - 1}
      PROVE  e = ChannelCommand(e.arg) /\ Item(e) = <<"ch", e.arg>>
  <2>1. PICK k \in 0 .. Channels - 1 : e = ChannelCommand(k)
    BY <1>2
  <2>2. e.arg = k /\ e.name \in {"ch on", "ch off"}
    BY <2>1 DEF ChannelCommand, Command
  <2> QED
    BY <2>1, <2>2 DEF Item
<1>3. CASE c \in OurSettings /\ d \in OurSettings
  <2>1. c.name = d.name
    BY <1>1, <1>3
  <2> QED
    BY <1>1, <1>3, <2>1
<1>4. CASE c \notin OurSettings /\ d \notin OurSettings
  <2>1. c.arg = d.arg
    BY <1>2, <1>4 DEF Full
  <2> QED
    BY <1>2, <1>4, <2>1 DEF Full
<1>5. ASSUME NEW e \in OurSettings, NEW f \in Full \ OurSettings PROVE Item(e) # Item(f)
  <2>1. Item(f)[1] = "ch" /\ Item(e)[1] \in Settings
    BY <1>1, <1>2, <1>5 DEF Full
  <2> QED
    BY <2>1 DEF Settings
<1> QED
  BY <1>3, <1>4, <1>5

\* The mote sets every item there is.
LEMMA ItemOfOurs ==
  ASSUME NEW s \in Settable
  PROVE  \E f \in Full : Item(f) = Item(s)
<1>1. CASE s.name \in Settings
  <2>1. Command(s.name, 0) \in Full
    BY <1>1 DEF Full, OurSettings
  <2>2. Item(Command(s.name, 0)) = Item(s)
    BY <1>1 DEF Item, Command, Settings
  <2> QED
    BY <2>1, <2>2
<1>2. CASE s \in [name : {"ch on", "ch off"}, arg : 0 .. Channels - 1]
  <2>1. s.name \in {"ch on", "ch off"} /\ s.arg \in 0 .. Channels - 1
    BY <1>2
  <2>2. ChannelCommand(s.arg) \in Full
    BY <2>1 DEF Full
  <2>3. Item(ChannelCommand(s.arg)) = Item(s)
    BY <2>1 DEF Item, ChannelCommand, Command
  <2> QED
    BY <2>2, <2>3
<1> QED
  BY <1>1, <1>2 DEF Settable

LEMMA WireHead == ASSUME Wire, cmds # <<>> PROVE Head(cmds) \in Sendable
  BY DEF Wire

\* The states of the table and what it says of them.
Rows == {"moteReset", "moteSetDevaddr", "moteSetAppskey", "moteSetNwkskey", "moteSetAdr",
         "moteSetSync", "moteSetRx2", "moteSetChStatus", "moteJoinAbp", "moteWaitAccepted",
         "moteIniTx"}

LEMMA Table ==
  /\ DOMAIN Step = Rows
  /\ Step["moteReset"].next = "moteSetDevaddr"
  /\ Step["moteSetDevaddr"].next = "moteSetAppskey"
  /\ Step["moteSetAppskey"].next = "moteSetNwkskey"
  /\ Step["moteSetNwkskey"].next = "moteSetAdr"
  /\ Step["moteSetAdr"].next = "moteSetSync"
  /\ Step["moteSetSync"].next = "moteSetRx2"
  /\ Step["moteSetRx2"].next = "moteSetChStatus"
  /\ Step["moteSetChStatus"].next = "moteJoinAbp"
  /\ Step["moteJoinAbp"].next = "moteWaitAccepted"
  /\ Step["moteWaitAccepted"].next = "moteIniTx"
  /\ Step["moteIniTx"].next = "moteWaitIniTxOk"
  BY DEF Step, Rows

LEMMA NextState ==
  ASSUME NEW state \in DOMAIN Step
  PROVE  /\ Step[state].next \in DOMAIN Step \cup Joined
         /\ Step[state].next \notin {"moteRest", "moteTxUncnf", "moteTxWait", "moteNextDr"}
         /\ Step[state].next = "moteSetRx2" => state = "moteSetSync"
<1>1. state \in Rows
  BY Table
<1> QED
  BY <1>1, Table DEF Rows, Joined

LEMMA StepTypes == TypeOK /\ Wire /\ Counter /\ [Next]_vars => TypeOK' /\ Counter'
<1> SUFFICES ASSUME TypeOK, Wire, Counter, [Next]_vars
             PROVE  TypeOK' /\ Counter'
  OBVIOUS
<1> USE Constants DEF mode, rest, modem, ghost, TypeOK, Counter
<1>1. CASE UsbEscape
  <2>1. spoilt' \in BOOLEAN
    BY <1>1 DEF UsbEscape
  <2> QED
    BY <1>1, <2>1 DEF UsbEscape
<1>2. CASE Swap
  <2>1. begun' \in {"none", "head", "stale"}
    BY <1>2 DEF Swap, IgnoreLine, ReadLine
  <2> QED
    BY <1>2, <2>1 DEF Swap
<1>3. CASE MoteStartup
  BY <1>3 DEF MoteStartup, IgnoreLine, ReadLine
<1>4. CASE JoinStartup
  BY <1>4, Table DEF JoinStartup, IgnoreLine, ReadLine, Rows
<1>5. ASSUME NEW state \in DOMAIN Step, Configure(state) PROVE TypeOK' /\ Counter'
  <2>1. activeState = state /\ begun' = "none" /\ UNCHANGED <<mode, rest, usb, modem, ghost>>
    BY <1>5 DEF Configure, In, InMote, ReadLine
  <2>2. CASE state = "moteSetRx2"
    <3>1. ch' = ch + 1 /\ ch < Channels
      BY <1>5, <2>1, <2>2 DEF Configure
    <3>2. activeState' = IF ~ChannelsDone(ch) THEN state ELSE "moteSetChStatus"
      BY <1>5, <2>2 DEF Configure, Step
    <3>3. ch' \in 0 .. Channels /\ (activeState' = "moteSetRx2" => ch' < Channels)
      BY <3>1, <3>2 DEF ChannelsDone
    <3> QED
      BY <2>1, <2>2, <3>2, <3>3, Table DEF Rows
  <2>3. CASE state # "moteSetRx2"
    <3>1. ch' = IF state = "moteSetSync" THEN 0 ELSE ch
      BY <1>5, <2>3 DEF Configure
    <3>2. activeState' = Step[state].next
      BY <1>5, <2>3 DEF Configure
    <3>3. /\ activeState' \in DOMAIN Step \cup Joined
          /\ activeState' \notin {"moteRest", "moteTxUncnf", "moteTxWait", "moteNextDr"}
          /\ activeState' = "moteSetRx2" => state = "moteSetSync"
      BY <3>2, NextState
    <3>4. ch' \in 0 .. Channels /\ (activeState' = "moteSetRx2" => ch' < Channels)
      BY <3>1, <3>3
    <3> QED
      BY <2>1, <3>3, <3>4
  <2> QED
    BY <2>2, <2>3
<1>6. ASSUME NEW state \in DOMAIN Step, Retry(state) PROVE TypeOK' /\ Counter'
  BY <1>6 DEF Retry, ReadLine
<1>7. CASE WaitIniTxOk
  BY <1>7 DEF WaitIniTxOk, IgnoreLine, ReadLine, Joined
<1>8. ASSUME NEW s1 \in BOOLEAN, NEW s2 \in BOOLEAN, Rest(s1, s2) PROVE TypeOK' /\ Counter'
  <2> DEFINE passes == IF Counting THEN ch + 1 ELSE ch
             due == passes > RestPasses
  <2>1. /\ activeState = "moteRest" /\ prevS1' = s1 /\ prevS2' = s2
        /\ autoMode' = IF s1 /\ ~prevS1 THEN ~autoMode ELSE autoMode
        /\ ch' = IF due THEN 0 ELSE passes
        /\ manualTrigger' = (~due /\ (manualTrigger \/ (s2 /\ ~prevS2)))
        /\ activeState' = IF due THEN "moteTxUncnf" ELSE activeState
        /\ begun' \in {begun, "none"}
        /\ UNCHANGED <<mode, dr, usb, modem, ghost>>
    BY <1>8 DEF Rest, In, IgnoreLine, ReadLine
  <2>2. autoMode' \in BOOLEAN /\ prevS1' \in BOOLEAN /\ prevS2' \in BOOLEAN
    BY <2>1
  <2>3. manualTrigger' \in BOOLEAN
    <3> HIDE DEF due
    <3> QED BY <2>1
  <2>4. /\ ch' \in 0 .. Channels
        /\ activeState' = "moteRest" => ch' <= RestPasses
        /\ activeState' = "moteTxUncnf" => ch' = 0
        /\ activeState' \in {"moteRest", "moteTxUncnf"}
    BY <2>1
  <2> QED
    BY <2>1, <2>2, <2>3, <2>4 DEF Joined
<1>9. CASE TxUncnf
  BY <1>9 DEF TxUncnf, IgnoreLine, ReadLine, Joined, In
<1>10. CASE TxDone
  BY <1>10, NextRate DEF TxDone, ReadLine, Joined, In
<1>11. CASE NextDr
  BY <1>11 DEF NextDr, ReadLine, Joined, In
<1>12. CASE OtherAnswer
  BY <1>12 DEF OtherAnswer, ReadLine
<1>13. CASE UsbForward
  BY <1>13 DEF UsbForward
<1>14. CASE ModemVersion
  BY <1>14 DEF ModemVersion
<1>15. CASE ModemRate
  <2>1. Head(cmds) \in Sendable
    BY <1>15, WireHead DEF ModemRate
  <2>2. modemDr' \in 0 .. Rates - 1 /\ told' \in BOOLEAN
    BY <1>15, <2>1, SendableNames DEF ModemRate
  <2> QED
    BY <1>15, <2>2 DEF ModemRate
<1>16. CASE ModemJoin
  BY <1>16 DEF ModemJoin
<1>17. CASE ModemTransmit
  BY <1>17 DEF ModemTransmit
<1>18. CASE ModemReject
  <2>1. faults' = faults \/ (faults + plugs < MaxTroubles /\ faults' = faults + 1)
    <3> DEFINE busy == Head(cmds).name \in {"join", "tx", "tx_first"} /\ radio # "idle"
    <3>1. IF busy THEN UNCHANGED faults
                  ELSE faults + plugs < MaxTroubles /\ faults' = faults + 1
      BY <1>18 DEF ModemReject
    <3> HIDE DEF busy
    <3> QED
      BY <3>1
  <2>2. /\ UNCHANGED <<mode, activeState, ch, rest, usb, begun, settings, modemDr, radio, ghost>>
        /\ told' \in BOOLEAN
    BY <1>18 DEF ModemReject
  <2> QED
    BY <2>1, <2>2
<1>19. CASE ModemEvent
  BY <1>19, SMTT(30) DEF ModemEvent
<1>20. CASE Plug
  <2>1. usb' \in BOOLEAN
    BY <1>20 DEF Plug
  <2> QED
    BY <1>20, <2>1 DEF Plug
<1>21. CASE UNCHANGED vars
  BY <1>21 DEF vars
<1>22. CASE UsbCommand
  BY <1>22 DEF UsbCommand
<1>23. CASE ModemReset
  BY <1>23 DEF ModemReset
<1>24. CASE ModemSet
  BY <1>24 DEF ModemSet
<1> QED
  BY <1>1, <1>2, <1>3, <1>4, <1>5, <1>6, <1>7, <1>8, <1>9, <1>10, <1>11, <1>12, <1>13,
     <1>14, <1>15, <1>16, <1>17, <1>18, <1>19, <1>20, <1>21, <1>22, <1>23, <1>24 DEF Next, MainLoop, Modem

-----------------------------------------------------------------------------
(* What is on its way.                                                      *)

LEMMA SettingOwn ==
  ASSUME NEW s \in Settings
  PROVE  Command(s, 0) \in OurSettings /\ Command(s, 0) \in Full /\ Command(s, 0) \in Own
  BY DEF OurSettings, Full, Own

LEMMA ChannelOwn ==
  ASSUME NEW c \in 0 .. Channels - 1
  PROVE  ChannelCommand(c) \in Full /\ ChannelCommand(c) \in Own
  BY DEF Full, Own

LEMMA OtherOwn ==
  /\ Command("get ver", 0) \in Own /\ Command("join", 0) \in Own
  /\ Command("tx_first", 0) \in Own
  /\ \A r \in 0 .. Rates - 1 : Command("tx", r) \in Own /\ Command("dr", r) \in Own
  BY DEF Own, Command

LEMMA TableSends ==
  /\ Step["moteReset"].send = "devaddr" /\ Step["moteSetDevaddr"].send = "appskey"
  /\ Step["moteSetAppskey"].send = "nwkskey" /\ Step["moteSetNwkskey"].send = "adr"
  /\ Step["moteSetAdr"].send = "sync" /\ Step["moteSetSync"].send = "rx2"
  /\ Step["moteSetChStatus"].send = "join" /\ Step["moteJoinAbp"].send = "none"
  /\ Step["moteWaitAccepted"].send = "tx_first" /\ Step["moteIniTx"].send = "none"
  BY DEF Step

LEMMA TableWants ==
  /\ Step["moteSetDevaddr"].want = "ok" /\ Step["moteSetAppskey"].want = "ok"
  /\ Step["moteSetNwkskey"].want = "ok" /\ Step["moteSetAdr"].want = "ok"
  /\ Step["moteSetSync"].want = "ok"
  BY DEF Step

\* The row of every state but moteSetRx2 sends a command that is one of the mote's own, or none.
LEMMA RowOwn ==
  ASSUME NEW state \in DOMAIN Step, state # "moteSetRx2", Step[state].send # "none"
  PROVE  Command(Step[state].send, 0) \in Own
<1>1. Step[state].send \in Settings \cup {"join", "tx_first"}
  <2>1. state \in Rows \ {"moteSetRx2"}
    BY Table
  <2> QED
    BY <2>1, TableSends DEF Rows, Settings
<1> QED
  BY <1>1, SettingOwn, OtherOwn

LEMMA ReadWire == ASSUME lines \in Seq(Answers), IgnoreLine PROVE lines' \in Seq(Answers)
  BY DEF IgnoreLine, ReadLine

LEMMA AnswerWire ==
  ASSUME Wire, NEW line \in Answers, Answer(line)
  PROVE  cmds' \in Seq(Sendable) /\ lines' \in Seq(Answers)
<1>1. cmds \in Seq(Sendable) /\ cmds # <<>> /\ cmds' = Tail(cmds)
  BY DEF Wire, Answer
<1>2. lines \in Seq(Answers) /\ lines' = Append(lines, line)
  BY DEF Wire, Answer
<1>3. cmds' \in Seq(Sendable)
  BY <1>1
<1>4. lines' \in Seq(Answers)
  BY <1>2
<1> QED
  BY <1>3, <1>4

\* What the main loop sends is the mote's own; it changes no setting and writes no line.
LEMMA MoteSends ==
  ASSUME TypeOK, Counter, lines \in Seq(Answers), MainLoop
  PROVE  /\ cmds' = cmds \/ \E c \in Own : cmds' = Append(cmds, c)
         /\ settings' = settings /\ lines' \in Seq(Answers)
<1> USE DEF modem
<1>1. CASE UsbEscape
  BY <1>1 DEF UsbEscape
<1>2. CASE Swap
  BY <1>2, ReadWire DEF Swap
<1>3. CASE MoteStartup \/ WaitIniTxOk \/ TxUncnf
  BY <1>3, ReadWire DEF MoteStartup, WaitIniTxOk, TxUncnf
<1>4. CASE JoinStartup
  BY <1>4, ReadWire, OtherOwn DEF JoinStartup, Send
<1>5. ASSUME NEW state \in DOMAIN Step, Configure(state)
      PROVE  /\ cmds' = cmds \/ \E c \in Own : cmds' = Append(cmds, c)
             /\ settings' = settings /\ lines' \in Seq(Answers)
  <2>1. lines' \in Seq(Answers) /\ settings' = settings
    BY <1>5, ReadWire DEF Configure, IgnoreLine
  <2>2. CASE state = "moteSetRx2"
    <3>1. ch \in 0 .. Channels - 1
      <4>1. activeState = "moteSetRx2"
        BY <1>5, <2>2 DEF Configure, In
      <4> QED
        BY <4>1, Constants DEF TypeOK, Counter
    <3>2. cmds' = Append(cmds, ChannelCommand(ch))
      <4>1. Step[state].send # "none"
        BY <2>2 DEF Step
      <4> QED
        BY <1>5, <2>2, <4>1 DEF Configure
    <3> QED
      BY <2>1, <3>1, <3>2, ChannelOwn
  <2>3. CASE state # "moteSetRx2" /\ Step[state].send = "none"
    BY <1>5, <2>1, <2>3 DEF Configure
  <2>4. CASE state # "moteSetRx2" /\ Step[state].send # "none"
    <3>1. cmds' = Append(cmds, Command(Step[state].send, 0))
      BY <1>5, <2>4 DEF Configure
    <3> QED
      BY <2>1, <2>4, <3>1, RowOwn
  <2> QED
    BY <2>2, <2>3, <2>4
<1>6. ASSUME NEW state \in DOMAIN Step, Retry(state)
      PROVE  cmds' = cmds /\ settings' = settings /\ lines' \in Seq(Answers)
  BY <1>6, ReadWire DEF Retry, IgnoreLine
<1>7. ASSUME NEW s1 \in BOOLEAN, NEW s2 \in BOOLEAN, Rest(s1, s2)
      PROVE  /\ cmds' = cmds \/ \E c \in Own : cmds' = Append(cmds, c)
             /\ settings' = settings /\ lines' \in Seq(Answers)
  <2>1. lines' \in Seq(Answers) /\ settings' = settings
    BY <1>7, ReadWire DEF Rest
  <2>2. cmds' = cmds \/ cmds' = Append(cmds, Command("tx", dr))
    BY <1>7 DEF Rest, Send
  <2>3. dr \in 0 .. Rates - 1
    BY DEF TypeOK
  <2> QED
    BY <2>1, <2>2, <2>3, OtherOwn
<1>8. CASE TxDone
  <2>1. lines' \in Seq(Answers) /\ settings' = settings /\ cmds' = Append(cmds, Command("dr", dr'))
    BY <1>8, ReadWire DEF TxDone, IgnoreLine, Send
  <2>2. dr' \in 0 .. Rates - 1
    BY <1>8, NextRate DEF TxDone, TypeOK
  <2> QED
    BY <2>1, <2>2, OtherOwn
<1>9. CASE NextDr \/ OtherAnswer
  BY <1>9, ReadWire DEF NextDr, OtherAnswer, IgnoreLine
<1> QED
  BY <1>1, <1>2, <1>3, <1>4, <1>5, <1>6, <1>7, <1>8, <1>9 DEF MainLoop

LEMMA StepWire == TypeOK /\ Wire /\ Counter /\ [Next]_vars => Wire'
<1> SUFFICES ASSUME TypeOK, Wire, Counter, [Next]_vars
             PROVE  Wire'
  OBVIOUS
<1> USE DEF modem
<1>0. /\ cmds \in Seq(Sendable) /\ lines \in Seq(Answers)
      /\ settings \subseteq Settable /\ OneEach
  BY DEF Wire
<1>1. ASSUME settings' = settings PROVE settings' \subseteq Settable /\ OneEach'
  BY <1>0, <1>1 DEF OneEach, Settable, Item
<1>2. CASE Plug \/ UNCHANGED vars
  BY <1>0, <1>1, <1>2 DEF Plug, vars, Wire
<1>3. CASE MainLoop
  <2>1. /\ cmds' = cmds \/ \E c \in Own : cmds' = Append(cmds, c)
        /\ settings' = settings /\ lines' \in Seq(Answers)
    BY <1>0, <1>3, MoteSends
  <2>2. CASE cmds' = cmds
    BY <1>0, <1>1, <2>1, <2>2 DEF Wire
  <2>3. ASSUME NEW c \in Own, cmds' = Append(cmds, c) PROVE Wire'
    <3>1. c \in Sendable
      BY DEF Sendable
    <3>2. cmds' \in Seq(Sendable)
      BY <1>0, <2>3, <3>1
    <3> QED
      BY <1>1, <2>1, <3>2 DEF Wire
  <2> QED
    BY <2>1, <2>2, <2>3
<1>4. CASE UsbForward
  BY <1>0, <1>1, <1>4 DEF UsbForward, Wire
<1>5. CASE UsbCommand
  <2>1. PICK c \in PcCommands : cmds' = Append(cmds, c)
    BY <1>5 DEF UsbCommand
  <2>2. c \in Sendable
    BY <2>1, MoteConstants DEF Sendable
  <2>3. cmds' \in Seq(Sendable)
    BY <1>0, <2>1, <2>2
  <2> QED
    BY <1>0, <1>1, <1>5, <2>3 DEF UsbCommand, Wire
<1>6. CASE Modem /\ ~ModemEvent
  <2>1. Answer("RN2903") \/ Answer("ok") \/ Answer("rejected")
    BY <1>6 DEF Modem, ModemVersion, ModemReset, ModemSet, ModemRate, ModemJoin, ModemTransmit,
                ModemReject
  <2>2. PICK line \in Answers : Answer(line)
    <3>1. {"RN2903", "ok", "rejected"} \subseteq Answers
      BY DEF Answers
    <3> QED
      BY <2>1, <3>1
  <2>3. cmds' \in Seq(Sendable) /\ lines' \in Seq(Answers)
    BY <2>2, AnswerWire
  <2>4. CASE ModemReset
    <3>1. settings' = {}
      BY <2>4 DEF ModemReset
    <3> QED
      BY <2>3, <3>1 DEF Wire, OneEach
  <2>5. CASE ModemSet
    <3> DEFINE c == Head(cmds)
    <3>1. c \in Settable
      BY <2>5, WireHead, SendableNames DEF ModemSet
    <3>2. settings' = {s \in settings : Item(s) # Item(c)} \cup {c}
      BY <2>5 DEF ModemSet
    <3> HIDE DEF c
    <3>3. \A d, e \in settings' : Item(d) = Item(e) => d = e
      BY <1>0, <3>2 DEF OneEach
    <3>4. OneEach'
      BY <3>3 DEF OneEach, Item
    <3>5. settings' \subseteq Settable
      BY <1>0, <3>1, <3>2
    <3> QED
      BY <2>3, <3>4, <3>5 DEF Wire, Settable
  <2>6. CASE ~ModemReset /\ ~ModemSet
    <3>1. settings' = settings
      BY <1>6, <2>6 DEF Modem, ModemVersion, ModemRate, ModemJoin, ModemTransmit, ModemReject
    <3> QED
      BY <1>1, <2>3, <3>1 DEF Wire
  <2> QED
    BY <2>4, <2>5, <2>6
<1>7. CASE ModemEvent
  <2>1. PICK line \in Answers : lines' = Append(lines, line)
    BY <1>7 DEF ModemEvent, Answers
  <2>2. lines' \in Seq(Answers)
    BY <1>0, <2>1
  <2> QED
    BY <1>0, <1>1, <1>7, <2>2 DEF ModemEvent, Wire
<1> QED
  BY <1>2, <1>3, <1>4, <1>5, <1>6, <1>7 DEF Next, Modem

-----------------------------------------------------------------------------
(* In step with the modem.                                                  *)

\* The commands that are awaited in a Setting do not start the radio.
LEMMA LastSentName ==
  ASSUME activeState \in Setting, ch \in Nat
  PROVE  LastSent.name \notin {"join", "tx_first", "tx", "dr"}
<1>1. activeState \in {"moteReset", "moteSetDevaddr", "moteSetAppskey", "moteSetNwkskey",
                       "moteSetAdr", "moteSetSync", "moteSetRx2", "moteSetChStatus"}
  BY Table DEF Setting, Configuring, Rows
<1>2. \A c : ChannelCommand(c).name \in {"ch on", "ch off"}
  BY DEF ChannelCommand, Command
<1>3. CASE activeState \in {"moteSetRx2", "moteSetChStatus"}
  <2>1. LastSent \in {Command("rx2", 0), ChannelCommand(ch - 1), ChannelCommand(Channels - 1)}
    BY <1>3 DEF LastSent
  <2>2. Command("rx2", 0).name = "rx2"
    BY DEF Command
  <2> QED
    BY <1>2, <2>1, <2>2
<1>4. CASE activeState \notin {"moteSetRx2", "moteSetChStatus"}
  BY <1>1, <1>4 DEF LastSent, Command
<1> QED
  BY <1>3, <1>4

LEMMA OwnHead == ASSUME cmds \in Seq(Own), cmds # <<>> PROVE Head(cmds) \in Own
  OBVIOUS

\* The modem answers the one command that is awaited.
LEMMA ModemAnswers ==
  ASSUME NEW command, Awaiting(command), command.name \notin {"join", "tx_first", "tx", "dr"}, Modem,
         cmds \in Seq(Own), lines \in Seq(Answers)
  PROVE  /\ radio' = "idle" /\ cmds' = <<>> /\ Len(lines') = 1
         /\ lines'[1] = "ok" => command \in settings'
<1>1. cmds # <<>>
  BY DEF Modem, ModemVersion, ModemReset, ModemSet, ModemRate, ModemJoin, ModemTransmit,
         ModemReject, ModemEvent, Awaiting
<1>2. radio = "idle" /\ cmds = <<command>> /\ lines = <<>>
  BY <1>1 DEF Awaiting
<1>3. Head(cmds) = command /\ Tail(cmds) = <<>>
  BY <1>2
<1>4. ASSUME NEW line \in Answers, Answer(line)
      PROVE  cmds' = <<>> /\ Len(lines') = 1 /\ lines'[1] = line
  <2>1. cmds' = <<>> /\ lines' = Append(lines, line) /\ Len(lines) = 0
    BY <1>2, <1>3, <1>4 DEF Answer
  <2> QED
    BY <2>1
<1>5. CASE ModemVersion
  <2>1. radio' = radio /\ Answer("RN2903") /\ "RN2903" \in Answers
    BY <1>5 DEF ModemVersion, modem, Answers
  <2> QED
    BY <1>2, <1>4, <2>1
<1>6. CASE ModemSet
  <2>1. radio' = radio /\ Answer("ok") /\ "ok" \in Answers
    BY <1>6 DEF ModemSet, Answers
  <2>2. command \in settings'
    BY <1>3, <1>6 DEF ModemSet
  <2> QED
    BY <1>2, <1>4, <2>1, <2>2
<1>7. CASE ModemReject
  <2>1. radio' = radio /\ Answer("rejected") /\ "rejected" \in Answers
    BY <1>7 DEF ModemReject, Answers
  <2> QED
    BY <1>2, <1>4, <2>1
<1>8. ~ModemJoin /\ ~ModemTransmit /\ ~ModemEvent
  BY <1>2, <1>3 DEF ModemJoin, ModemTransmit, ModemEvent
<1>9. ~ModemReset
  BY <1>1, OwnHead, OwnNames DEF ModemReset
<1>10. ~ModemRate
  BY <1>1, <1>3, OwnHead, OwnNames DEF ModemRate
<1> QED
  BY <1>5, <1>6, <1>7, <1>8, <1>9, <1>10 DEF Modem

\* The modem forgets none of the mote's settings over the mote's own commands.
LEMMA ModemKeeps ==
  ASSUME Modem, cmds \in Seq(Own), NEW f \in Full, f \in settings
  PROVE  f \in settings'
<1>1. CASE ModemSet
  <2>1. Head(cmds) \in Full /\ settings' = {s \in settings : Item(s) # Item(Head(cmds))} \cup {Head(cmds)}
    BY <1>1, OwnHead, OwnNames DEF ModemSet
  <2> QED
    BY <2>1, FullItems
<1>2. ~ModemReset
  BY OwnHead, OwnNames DEF ModemReset
<1>3. CASE ~ModemSet
  BY <1>2, <1>3 DEF Modem, ModemVersion, ModemRate, ModemJoin, ModemTransmit, ModemReject,
                    ModemEvent, modem
<1> QED
  BY <1>1, <1>3

LEMMA ModemTakes ==
  ASSUME Modem, cmds \in Seq(Own)
  PROVE  cmds' \in Seq(Own)
<1>1. cmds' = cmds \/ (cmds # <<>> /\ cmds' = Tail(cmds))
  BY DEF Modem, ModemVersion, ModemReset, ModemSet, ModemRate, ModemJoin, ModemTransmit,
         ModemReject, ModemEvent, Answer
<1> QED
  BY <1>1

LEMMA ModemLeaves ==
  ASSUME Modem
  PROVE  UNCHANGED <<operationType, moteState, activeState, ch, begun, spoilt>>
  BY DEF Modem, ModemVersion, ModemReset, ModemSet, ModemRate, ModemJoin, ModemTransmit, ModemReject, ModemEvent, mode, ghost

\* The modem answers the command to join or to transmit, and reports back.
LEMMA ModemRadio ==
  ASSUME NEW name, NEW kind, <<name, kind>> \in {<<"join", "join">>, <<"tx_first", "tx">>},
         AwaitingRadio(name, kind), Modem, cmds \in Seq(Own), lines \in Seq(Answers)
  PROVE  \/ radio' = kind /\ cmds' = <<>> /\ lines' = <<"ok">>
         \/ radio' = "idle" /\ cmds' = <<>> /\ Len(lines') = 1 /\ lines'[1] # "ok"
         \/ radio' = "idle" /\ cmds' = <<>> /\ Len(lines') = 2 /\ lines'[1] = "ok"
<1>0. (name = "join" /\ kind = "join") \/ (name = "tx_first" /\ kind = "tx")
  OBVIOUS
<1>1. CASE radio = "idle" /\ cmds = <<Command(name, 0)>> /\ lines = <<>>
  <2>1. Head(cmds).name = name /\ Tail(cmds) = <<>> /\ radio = "idle"
    BY <1>1 DEF Command
  <2>2. \/ ModemReject
        \/ (ModemJoin \/ ModemTransmit) /\ radio' = kind
    BY <1>0, <2>1 DEF Modem, ModemVersion, ModemReset, ModemSet, ModemRate, ModemJoin,
                      ModemTransmit, ModemEvent, Settings
  <2>3. CASE ModemReject
    <3>1. radio' = radio /\ Answer("rejected") /\ "rejected" \in Answers
      BY <2>3 DEF ModemReject, Answers
    <3>2. cmds' = <<>> /\ lines' = Append(lines, "rejected") /\ Len(lines) = 0
      BY <1>1, <2>1, <3>1 DEF Answer
    <3>3. Len(lines') = 1 /\ lines'[1] = "rejected"
      BY <3>1, <3>2
    <3> QED
      BY <2>1, <3>1, <3>2, <3>3
  <2>4. CASE (ModemJoin \/ ModemTransmit) /\ radio' = kind
    BY <1>1, <2>1, <2>4 DEF ModemJoin, ModemTransmit, Answer
  <2> QED
    BY <2>2, <2>3, <2>4
<1>2. CASE cmds = <<>>
  <2>1. ModemEvent /\ cmds' = <<>> /\ radio' = "idle" /\ radio # "idle"
    BY <1>2 DEF Modem, ModemVersion, ModemReset, ModemSet, ModemRate, ModemJoin, ModemTransmit, ModemReject, ModemEvent,
                Answer
  <2>2. lines = <<"ok">>
    BY <1>2, <2>1 DEF AwaitingRadio
  <2>3. PICK line \in Answers : lines' = Append(lines, line)
    BY <2>1 DEF ModemEvent, Answers
  <2> QED
    BY <2>1, <2>2, <2>3
<1> QED
  BY <1>1, <1>2 DEF AwaitingRadio

LEMMA ModemReport ==
  ASSUME AwaitingReport, Modem, lines \in Seq(Answers)
  PROVE  radio' = "idle" /\ cmds' = <<>> /\ Len(lines') = 1
<1>1. ModemEvent /\ cmds' = <<>> /\ radio' = "idle" /\ radio # "idle"
  BY DEF AwaitingReport, Modem, ModemVersion, ModemReset, ModemSet, ModemRate, ModemJoin, ModemTransmit, ModemReject,
         ModemEvent, Answer
<1>2. Len(lines) = 0
  BY <1>1 DEF AwaitingReport
<1>3. PICK line \in Answers : lines' = Append(lines, line)
  BY <1>1 DEF ModemEvent, Answers
<1> QED
  BY <1>1, <1>2, <1>3

LEMMA ModemQuiet == ASSUME Quiet PROVE ~Modem
  BY DEF Quiet, Modem, ModemVersion, ModemReset, ModemSet, ModemRate, ModemJoin, ModemTransmit, ModemReject, ModemEvent,
         Answer

LEMMA ConfirmedFull ==
  ASSUME activeState \in Setting, ch \in 0 .. Channels, activeState = "moteSetRx2" => ch < Channels
  PROVE  Confirmed \subseteq Full
<1>1. \A names : names \subseteq Settings => Sent(names) \subseteq Full
  BY DEF Sent, Full, OurSettings
<1>2. \A n \in Int : n <= Channels - 1 => {ChannelCommand(c) : c \in 0 .. n} \subseteq Full
  BY Constants DEF Full
<1>3. activeState \in {"moteReset", "moteSetDevaddr", "moteSetAppskey", "moteSetNwkskey",
                       "moteSetAdr", "moteSetSync", "moteSetRx2", "moteSetChStatus"}
  BY Table DEF Setting, Configuring, Rows
<1>4. CASE activeState \in {"moteReset", "moteSetDevaddr", "moteSetAppskey", "moteSetNwkskey",
                            "moteSetAdr", "moteSetSync"}
  <2>1. \E names \in SUBSET Settings : Confirmed = Sent(names)
    <3>1. {} = Sent({}) /\ {} \subseteq Settings /\ {"devaddr"} \subseteq Settings
          /\ {"devaddr", "appskey"} \subseteq Settings
          /\ {"devaddr", "appskey", "nwkskey"} \subseteq Settings
      BY DEF Sent, Settings
    <3> QED
      BY <1>4, <3>1 DEF Confirmed
  <2> QED
    BY <1>1, <2>1
<1>5. CASE activeState = "moteSetRx2"
  <2>1. CASE ch = 0
    <3>1. Confirmed = Sent(Settings \ {"rx2"})
      BY <1>5, <2>1 DEF Confirmed
    <3> QED
      BY <1>1, <3>1
  <2>2. CASE ch # 0
    <3>1. Confirmed = OurSettings \cup {ChannelCommand(c) : c \in 0 .. ch - 2}
      BY <1>5, <2>2 DEF Confirmed
    <3>2. ch - 2 <= Channels - 1
      BY Constants
    <3> QED
      BY <1>2, <3>1, <3>2 DEF Full
  <2> QED
    BY <2>1, <2>2
<1>6. CASE activeState = "moteSetChStatus"
  <2>1. Confirmed = OurSettings \cup {ChannelCommand(c) : c \in 0 .. Channels - 2}
    BY <1>6 DEF Confirmed
  <2>2. Channels - 2 \in Int /\ Channels - 2 <= Channels - 1
    BY Constants
  <2> QED
    BY <1>2, <2>1, <2>2 DEF Full
<1> QED
  BY <1>3, <1>4, <1>5, <1>6

\* The modem, in every state of the mote.
LEMMA ModemStep ==
  ASSUME TypeOK, Wire, Counter, Synchronized, Modem
  PROVE  Synchronized'
<1> SUFFICES ASSUME operationType' = "MOTE", ~spoilt'
             PROVE  /\ begun' = "none" /\ cmds' \in Seq(Own)
                    /\ moteState' \in {"MOTE_STARTUP", "MOTE_JOINING"}
                    /\ moteState' = "MOTE_STARTUP" => Quiet'
                    /\ moteState' = "MOTE_JOINING" => Phase'
  BY DEF Synchronized
<1>1. /\ UNCHANGED <<operationType, moteState, activeState, ch, begun, spoilt>>
      /\ lines \in Seq(Answers) /\ ch \in 0 .. Channels /\ ch \in Nat
  BY ModemLeaves, Constants DEF Wire, TypeOK
<1>2. /\ begun = "none" /\ cmds \in Seq(Own)
      /\ moteState \in {"MOTE_STARTUP", "MOTE_JOINING"}
      /\ moteState = "MOTE_STARTUP" => Quiet
      /\ moteState = "MOTE_JOINING" => Phase
  BY <1>1 DEF Synchronized
<1>3. moteState = "MOTE_JOINING" /\ Phase
  BY <1>2, ModemQuiet
<1>4. activeState # "moteStartup"
  BY <1>3, ModemQuiet DEF Phase
<1>5. activeState \in Setting => Awaiting(LastSent)' /\ Confirmed' \subseteq settings'
  <2> SUFFICES ASSUME activeState \in Setting
               PROVE  Awaiting(LastSent)' /\ Confirmed' \subseteq settings'
    OBVIOUS
  <2>1. LastSent' = LastSent /\ Confirmed' = Confirmed
    BY <1>1 DEF LastSent, Confirmed
  <2>2. Awaiting(LastSent) /\ Confirmed \subseteq settings
    BY <1>3 DEF Phase
  <2>3. LastSent.name \notin {"join", "tx_first", "tx", "dr"}
    BY <1>1, LastSentName
  <2>5. Confirmed \subseteq settings'
    <3>1. Confirmed \subseteq Full
      BY <1>1, ConfirmedFull DEF Counter
    <3> QED
      BY <1>2, <2>2, <3>1, ModemKeeps
  <2>4. /\ radio' = "idle" /\ cmds' = <<>> /\ Len(lines') = 1
        /\ lines'[1] = "ok" => LastSent \in settings'
    BY <1>1, <1>2, <2>2, <2>3, ModemAnswers
  <2> QED
    BY <1>1, <2>1, <2>4, <2>5 DEF Awaiting
<1>6. activeState = "moteJoinAbp" => AwaitingRadio("join", "join")'
  BY <1>1, <1>2, <1>3, ModemRadio DEF Phase, AwaitingRadio
<1>7. activeState = "moteIniTx" => AwaitingRadio("tx_first", "tx")'
  BY <1>1, <1>2, <1>3, ModemRadio DEF Phase, AwaitingRadio
<1>8. activeState = "moteWaitAccepted" => AwaitingReport'
  BY <1>1, <1>3, ModemReport DEF Phase, AwaitingReport
<1>9. activeState \in Joining \cup Joined => Full \subseteq settings'
  BY <1>2, <1>3, ModemKeeps DEF Phase
<1>10. UNCHANGED <<Setting, Joining, Joined, Full>>
  BY DEF Setting, Configuring, Joining, Joined, Full, OurSettings, ChannelCommand, Command, Step
<1>11. Phase'
  BY <1>1, <1>4, <1>5, <1>6, <1>7, <1>8, <1>9, <1>10 DEF Phase
<1> QED
  BY <1>1, <1>2, <1>3, <1>11, ModemTakes

\* The answer to the command that is awaited is read.
LEMMA ReadAwaited ==
  ASSUME NEW command, Awaiting(command), ReadLine, begun = "none", lines \in Seq(Answers)
  PROVE  /\ cmds = <<>> /\ radio = "idle" /\ lines' = <<>> /\ begun' = "none"
         /\ Line = "ok" => command \in settings
<1>1. lines # <<>> /\ lines' = Tail(lines) /\ begun' = "none"
  BY DEF ReadLine
<1>2. /\ cmds = <<>> /\ radio = "idle" /\ Len(lines) = 1
      /\ lines[1] = "ok" => command \in settings
  BY <1>1 DEF Awaiting
<1>3. Line = lines[1] /\ lines' = <<>>
  BY <1>1, <1>2 DEF Line
<1> QED
  BY <1>1, <1>2, <1>3

LEMMA ReadRadio ==
  ASSUME NEW name, NEW kind, AwaitingRadio(name, kind), ReadLine, begun = "none",
         lines \in Seq(Answers)
  PROVE  /\ cmds = <<>> /\ begun' = "none"
         /\ Line # "ok" => radio = "idle" /\ lines' = <<>>
         /\ Line = "ok" => \/ radio = kind /\ lines' = <<>>
                           \/ radio = "idle" /\ Len(lines') = 1
<1>1. lines # <<>> /\ lines' = Tail(lines) /\ begun' = "none"
  BY DEF ReadLine
<1>2. Line = lines[1]
  BY <1>1 DEF Line
<1>3. CASE radio = kind /\ cmds = <<>> /\ lines = <<"ok">>
  BY <1>1, <1>2, <1>3
<1>4. CASE radio = "idle" /\ cmds = <<>> /\ Len(lines) = 1 /\ lines[1] # "ok"
  BY <1>1, <1>2, <1>4
<1>5. CASE radio = "idle" /\ cmds = <<>> /\ Len(lines) = 2 /\ lines[1] = "ok"
  BY <1>1, <1>2, <1>5
<1> QED
  BY <1>1, <1>3, <1>4, <1>5 DEF AwaitingRadio

LEMMA ReadReport ==
  ASSUME AwaitingReport, ReadLine, begun = "none", lines \in Seq(Answers)
  PROVE  cmds = <<>> /\ radio = "idle" /\ lines' = <<>> /\ begun' = "none"
  BY DEF AwaitingReport, ReadLine

\* Sending to a modem that has nothing else to answer.
LEMMA SendFirst ==
  ASSUME NEW command, cmds = <<>>, cmds' = Append(cmds, command)
  PROVE  cmds' = <<command>>
  OBVIOUS

\* What the next state awaits and what it takes for confirmed.
LEMMA NextSetting ==
  ASSUME activeState \in Setting \ {"moteSetRx2", "moteSetChStatus"},
         activeState' = Step[activeState].next,
         activeState = "moteSetSync" => ch' = 0
  PROVE  /\ activeState' \in Setting
         /\ LastSent' = Command(Step[activeState].send, 0)
         /\ Command(Step[activeState].send, 0) \in Own
         /\ activeState = "moteReset" => Confirmed' = {}
         /\ Confirmed' \subseteq Confirmed \cup {LastSent}
<1> USE DEF Step, Settings, Sent
<1>1. activeState \in {"moteReset", "moteSetDevaddr", "moteSetAppskey", "moteSetNwkskey",
                       "moteSetAdr", "moteSetSync"}
  BY Table DEF Setting, Configuring, Rows
<1>2. Command(Step[activeState].send, 0) \in Own
  <2> HIDE DEF Step
  <2>1. activeState \in DOMAIN Step /\ Step[activeState].send # "none"
    BY <1>1, Table, TableSends DEF Rows
  <2> QED
    BY <1>1, <2>1, RowOwn
<1>3. CASE activeState = "moteReset"
  <2>1. activeState' = "moteSetDevaddr"
    BY <1>3
  <2> QED
    BY <1>2, <1>3, <2>1 DEF LastSent, Confirmed, Setting, Configuring
<1>4. CASE activeState = "moteSetDevaddr"
  <2>1. activeState' = "moteSetAppskey"
    BY <1>4
  <2> QED
    BY <1>2, <1>4, <2>1 DEF LastSent, Confirmed, Setting, Configuring
<1>5. CASE activeState = "moteSetAppskey"
  <2>1. activeState' = "moteSetNwkskey"
    BY <1>5
  <2> QED
    BY <1>2, <1>5, <2>1 DEF LastSent, Confirmed, Setting, Configuring
<1>6. CASE activeState = "moteSetNwkskey"
  <2>1. activeState' = "moteSetAdr"
    BY <1>6
  <2> QED
    BY <1>2, <1>6, <2>1 DEF LastSent, Confirmed, Setting, Configuring
<1>7. CASE activeState = "moteSetAdr"
  <2>1. activeState' = "moteSetSync"
    BY <1>7
  <2> QED
    BY <1>2, <1>7, <2>1 DEF LastSent, Confirmed, Setting, Configuring
<1>8. CASE activeState = "moteSetSync"
  <2>1. activeState' = "moteSetRx2" /\ ch' = 0
    BY <1>8
  <2> QED
    BY <1>2, <1>8, <2>1 DEF LastSent, Confirmed, Setting, Configuring
<1> QED
  BY <1>1, <1>3, <1>4, <1>5, <1>6, <1>7, <1>8

\* The same for the channels.
LEMMA NextChannel ==
  ASSUME activeState = "moteSetRx2", ch \in 0 .. Channels - 1, ch' = ch + 1,
         activeState' = IF ~ChannelsDone(ch) THEN "moteSetRx2" ELSE "moteSetChStatus"
  PROVE  /\ activeState' \in Setting
         /\ LastSent' = ChannelCommand(ch)
         /\ Confirmed' \subseteq Confirmed \cup {LastSent}
<1>1. Channels \in Nat \ {0}
  BY Constants
<1>2. ch' - 1 = ch /\ ch' # 0 /\ 0 .. ch' - 2 = 0 .. ch - 1
  BY <1>1
<1>3. activeState' = "moteSetChStatus" => Channels - 1 = ch /\ 0 .. Channels - 2 = 0 .. ch - 1
  BY <1>1 DEF ChannelsDone
<1>4. LastSent' = ChannelCommand(ch)
  BY <1>2, <1>3 DEF LastSent, ChannelCommand, Command
<1>5. Confirmed' = OurSettings \cup {ChannelCommand(c) : c \in 0 .. ch - 1}
  BY <1>2, <1>3 DEF Confirmed, OurSettings, ChannelCommand, Command
<1>6. OurSettings \cup {ChannelCommand(c) : c \in 0 .. ch - 1} \subseteq Confirmed \cup {LastSent}
  <2>1. CASE ch = 0
    BY <2>1 DEF Confirmed, LastSent, OurSettings, Sent
  <2>2. CASE ch # 0
    <3>1. \A c \in 0 .. ch - 1 : c \in 0 .. ch - 2 \/ c = ch - 1
      BY <1>1
    <3> QED
      BY <2>2, <3>1 DEF Confirmed, LastSent
  <2> QED
    BY <2>1, <2>2
<1>7. activeState' \in Setting
  BY DEF Setting, Configuring, Step
<1> QED
  BY <1>4, <1>5, <1>6, <1>7

LEMMA LastChannel ==
  ASSUME activeState = "moteSetChStatus"
  PROVE  Full \subseteq Confirmed \cup {LastSent}
<1>1. \A c \in 0 .. Channels - 1 : c \in 0 .. Channels - 2 \/ c = Channels - 1
  BY Constants
<1> QED
  BY <1>1 DEF Full, Confirmed, LastSent

\* Phase in the states that follow; the states are different from each other.
LEMMA PhaseOfSetting ==
  ASSUME activeState' \in Setting, radio' = "idle", cmds' = <<LastSent'>>, lines' = <<>>,
         Confirmed' \subseteq settings'
  PROVE  Phase'
<1>1. activeState' \in {"moteReset", "moteSetDevaddr", "moteSetAppskey", "moteSetNwkskey",
                        "moteSetAdr", "moteSetSync", "moteSetRx2", "moteSetChStatus"}
  BY Table DEF Setting, Configuring, Rows
<1>2. activeState' \notin {"moteStartup", "moteJoinAbp", "moteWaitAccepted", "moteIniTx"}
                           \cup Joining \cup Joined
  BY <1>1 DEF Joining, Joined
<1>3. Awaiting(LastSent)'
  BY DEF Awaiting
<1> HIDE DEF Joining, Joined
<1> QED
  BY <1>2, <1>3 DEF Phase, Joining, Joined

LEMMA PhaseOfStartup ==
  ASSUME activeState' = "moteStartup", cmds' = <<>>, lines' = <<>>, radio' = "idle"
  PROVE  Phase'
<1>1. activeState' \notin Setting \cup Joining \cup Joined
  BY Table DEF Setting, Configuring, Rows, Joining, Joined
<1>2. Setting' = Setting /\ Joining' = Joining /\ Joined' = Joined
  BY DEF Setting, Configuring, Step, Joining, Joined
<1> QED
  BY <1>1, <1>2 DEF Phase, Quiet

LEMMA PhaseOfJoined ==
  ASSUME activeState' \in Joined \ {"moteIniTx"}, Full \subseteq settings'
  PROVE  Phase'
<1>1. activeState' \notin Setting \cup {"moteStartup", "moteJoinAbp", "moteWaitAccepted", "moteIniTx"}
  BY Table DEF Setting, Configuring, Rows, Joined
<1>2. Setting' = Setting /\ Full' = Full
  BY DEF Setting, Configuring, Step, Full, OurSettings, ChannelCommand, Command
<1> QED
  BY <1>1, <1>2 DEF Phase

\* An answer that is wanted, and the next command.
LEMMA ConfigureStep ==
  ASSUME TypeOK, Wire, Counter, Phase, begun = "none",
         NEW state \in DOMAIN Step, Configure(state)
  PROVE  Phase' /\ begun' = "none"
<1>1. /\ activeState = state /\ ReadLine /\ Line = Step[state].want
      /\ radio' = radio /\ settings' = settings /\ lines \in Seq(Answers)
  BY DEF Configure, In, modem, Wire
<1>2. begun' = "none"
  BY <1>1 DEF ReadLine
<1>3. state # "moteSetRx2" =>
        /\ activeState' = Step[state].next
        /\ cmds' = IF Step[state].send = "none" THEN cmds
                   ELSE Append(cmds, Command(Step[state].send, 0))
        /\ state = "moteSetSync" => ch' = 0
  BY DEF Configure
<1>4. CASE state \in Setting
  <2>1. /\ cmds = <<>> /\ radio = "idle" /\ lines' = <<>>
        /\ Line = "ok" => LastSent \in settings
    BY <1>1, <1>4, ReadAwaited DEF Phase
  <2>2. Confirmed \subseteq settings
    BY <1>1, <1>4 DEF Phase
  <2>3. CASE state \notin {"moteSetRx2", "moteSetChStatus"}
    <3>1. /\ activeState' \in Setting /\ LastSent' = Command(Step[state].send, 0)
          /\ LastSent' \in Own
          /\ state = "moteReset" => Confirmed' = {}
          /\ Confirmed' \subseteq Confirmed \cup {LastSent}
      BY <1>1, <1>3, <1>4, <2>3, NextSetting
    <3>2. state # "moteReset" => Line = "ok"
      <4>1. state \in {"moteReset", "moteSetDevaddr", "moteSetAppskey", "moteSetNwkskey",
                       "moteSetAdr", "moteSetSync"}
        BY <1>4, <2>3, Table DEF Setting, Configuring, Rows
      <4> QED
        BY <1>1, <4>1, TableWants
    <3>3. Step[state].send # "none"
      BY <1>4, <2>3, Table, TableSends DEF Setting, Configuring, Rows
    <3>4. cmds' = <<LastSent'>>
      BY <1>3, <2>1, <2>3, <3>1, <3>3, SendFirst
    <3>5. Confirmed' \subseteq settings'
      BY <1>1, <2>1, <2>2, <3>1, <3>2
    <3> QED
      BY <1>1, <1>2, <2>1, <3>1, <3>4, <3>5, PhaseOfSetting
  <2>4. CASE state = "moteSetRx2"
    <3>1. ch \in 0 .. Channels - 1
      BY <1>1, <2>4, Constants DEF TypeOK, Counter
    <3>2. Line = "ok" /\ Step[state].send # "none" /\ Step[state].next = "moteSetChStatus"
      BY <1>1, <2>4 DEF Step
    <3>3. /\ cmds' = Append(cmds, ChannelCommand(ch)) /\ ch' = ch + 1
          /\ activeState' = IF ~ChannelsDone(ch) THEN "moteSetRx2" ELSE "moteSetChStatus"
      BY <2>4, <3>2 DEF Configure
    <3>4. /\ activeState' \in Setting /\ LastSent' = ChannelCommand(ch)
          /\ Confirmed' \subseteq Confirmed \cup {LastSent}
      BY <1>1, <2>4, <3>1, <3>3, NextChannel
    <3>5. cmds' = <<LastSent'>>
      BY <2>1, <3>1, <3>3, <3>4, SendFirst, ChannelOwn
    <3>6. Confirmed' \subseteq settings'
      BY <1>1, <2>1, <2>2, <3>2, <3>4
    <3> QED
      BY <1>1, <1>2, <2>1, <3>4, <3>5, <3>6, PhaseOfSetting
  <2>5. CASE state = "moteSetChStatus"
    <3>1. Line = "ok" /\ activeState' = "moteJoinAbp"
      BY <1>1, <1>3, <2>5 DEF Step
    <3>2. cmds' = Append(cmds, Command("join", 0))
      BY <1>3, <2>5, TableSends
    <3>3. cmds' = <<Command("join", 0)>>
      BY <2>1, <3>2, SendFirst, OtherOwn
    <3>4. Full \subseteq settings'
      BY <1>1, <2>1, <2>2, <2>5, <3>1, LastChannel
    <3>5. activeState' \notin Setting
      BY <3>1 DEF Setting, Configuring
    <3>6. Setting' = Setting /\ Full' = Full
      BY DEF Setting, Configuring, Step, Full, OurSettings, ChannelCommand, Command
    <3> QED
      BY <1>1, <1>2, <2>1, <3>1, <3>3, <3>4, <3>5, <3>6 DEF Phase, AwaitingRadio
  <2> QED
    BY <2>3, <2>4, <2>5
<1>5. CASE state = "moteJoinAbp"
  <2>1. Line = "ok" /\ activeState' = "moteWaitAccepted" /\ cmds' = cmds
    BY <1>1, <1>3, <1>5, TableSends DEF Step
  <2>2. AwaitingRadio("join", "join") /\ Full \subseteq settings
    BY <1>1, <1>5 DEF Phase, Joining
  <2>3. /\ cmds = <<>>
        /\ \/ radio = "join" /\ lines' = <<>>
           \/ radio = "idle" /\ Len(lines') = 1
    BY <1>1, <2>1, <2>2, ReadRadio
  <2>4. activeState' \notin Setting
    BY <2>1 DEF Setting
  <2>5. Setting' = Setting /\ Full' = Full
    BY DEF Setting, Configuring, Step, Full, OurSettings, ChannelCommand, Command
  <2> QED
    BY <1>1, <1>2, <2>1, <2>2, <2>3, <2>4, <2>5 DEF Phase, AwaitingReport
<1>6. CASE state = "moteWaitAccepted"
  <2>1. activeState' = "moteIniTx" /\ cmds' = Append(cmds, Command("tx_first", 0))
    BY <1>1, <1>3, <1>6, Table, TableSends
  <2>2. AwaitingReport /\ Full \subseteq settings
    BY <1>1, <1>6 DEF Phase, Joining
  <2>3. cmds = <<>> /\ radio = "idle" /\ lines' = <<>>
    BY <1>1, <2>2, ReadReport
  <2>4. cmds' = <<Command("tx_first", 0)>>
    BY <2>1, <2>3, SendFirst
  <2>5. activeState' \notin Setting
    BY <2>1 DEF Setting, Configuring
  <2>6. Setting' = Setting /\ Full' = Full
    BY DEF Setting, Configuring, Step, Full, OurSettings, ChannelCommand, Command
  <2> QED
    BY <1>1, <1>2, <2>1, <2>2, <2>3, <2>4, <2>5, <2>6 DEF Phase, AwaitingRadio
<1>7. CASE state = "moteIniTx"
  <2>1. activeState' = "moteWaitIniTxOk"
    BY <1>3, <1>7, Table
  <2>2. Full \subseteq settings'
    BY <1>1, <1>7 DEF Phase, Joined
  <2> QED
    BY <1>2, <2>1, <2>2, PhaseOfJoined DEF Joined
<1>8. state \in Setting \cup {"moteJoinAbp", "moteWaitAccepted", "moteIniTx"}
  BY DEF Setting, Configuring
<1> QED
  BY <1>4, <1>5, <1>6, <1>7, <1>8

\* Any other answer.
LEMMA RetryStep ==
  ASSUME Wire, Phase, begun = "none", NEW state \in DOMAIN Step, Retry(state)
  PROVE  Phase' /\ begun' = "none"
<1>1. /\ activeState = state /\ ReadLine /\ Line # Step[state].want
      /\ activeState' = "moteStartup" /\ cmds' = cmds /\ radio' = radio
      /\ lines \in Seq(Answers)
  BY DEF Retry, In, modem, Wire
<1>2. cmds = <<>> /\ radio = "idle" /\ lines' = <<>> /\ begun' = "none"
  <2>1. CASE state \in Setting
    BY <1>1, <2>1, ReadAwaited DEF Phase
  <2>2. CASE state = "moteJoinAbp"
    <3>1. Line # "ok"
      BY <1>1, <2>2 DEF Step
    <3> QED
      BY <1>1, <2>2, <3>1, ReadRadio DEF Phase
  <2>3. CASE state = "moteWaitAccepted"
    BY <1>1, <2>3, ReadReport DEF Phase
  <2>4. CASE state = "moteIniTx"
    <3>1. Line # "ok"
      BY <1>1, <2>4 DEF Step
    <3> QED
      BY <1>1, <2>4, <3>1, ReadRadio DEF Phase
  <2> QED
    BY <2>1, <2>2, <2>3, <2>4 DEF Setting, Configuring
<1> QED
  BY <1>1, <1>2, PhaseOfStartup

LEMMA IgnoreQuiet ==
  ASSUME Quiet, IgnoreLine
  PROVE  lines' = <<>> /\ begun' = begun
  BY DEF Quiet, IgnoreLine, ReadLine

\* The mote, in every state of the modem.
LEMMA MoteStep ==
  ASSUME TypeOK, Wire, Counter, Synchronized,
         MainLoop \/ UsbForward \/ UsbCommand \/ Plug \/ UNCHANGED vars
  PROVE  Synchronized'
<1> SUFFICES ASSUME operationType' = "MOTE", ~spoilt'
             PROVE  /\ begun' = "none" /\ cmds' \in Seq(Own)
                    /\ moteState' \in {"MOTE_STARTUP", "MOTE_JOINING"}
                    /\ moteState' = "MOTE_STARTUP" => Quiet'
                    /\ moteState' = "MOTE_JOINING" => Phase'
  BY DEF Synchronized
<1> DEFINE Known == /\ operationType = "MOTE" /\ begun = "none" /\ cmds \in Seq(Own)
                    /\ moteState \in {"MOTE_STARTUP", "MOTE_JOINING"}
                    /\ moteState = "MOTE_STARTUP" => Quiet
                    /\ moteState = "MOTE_JOINING" => Phase
<1>2. ~Swap /\ ~UsbForward /\ ~UsbCommand
  BY DEF Swap, UsbForward, UsbCommand, mode
<1>3. ASSUME operationType = "MOTE", spoilt' = spoilt PROVE Known
  BY <1>3 DEF Synchronized
<1>0. cmds' \in Seq(Own)
  <2>1. CASE UsbEscape
    <3>1. cmds' = <<>>
      BY <2>1 DEF UsbEscape
    <3> QED
      BY <3>1
  <2>2. CASE MainLoop /\ ~UsbEscape
    <3>1. operationType = "MOTE" /\ spoilt' = spoilt
      BY <1>2, <2>2 DEF MainLoop, MoteStartup, JoinStartup, Configure, Retry, WaitIniTxOk, Rest,
                        TxUncnf, TxDone, NextDr, OtherAnswer, In, InMote, ghost
    <3>2. cmds \in Seq(Own)
      BY <1>3, <3>1
    <3>3. cmds' = cmds \/ \E c \in Own : cmds' = Append(cmds, c)
      BY <2>2, MoteSends DEF Wire
    <3> QED
      BY <3>2, <3>3
  <2>3. CASE Plug \/ UNCHANGED vars
    <3>1. UNCHANGED <<operationType, cmds, spoilt>>
      BY <2>3 DEF Plug, vars, mode, ghost
    <3> QED
      BY <1>3, <3>1
  <2> QED
    BY <1>2, <2>1, <2>2, <2>3
<1>1. CASE UsbEscape
  <2>1. ~(spoilt \/ cmds # <<>> \/ lines # <<>> \/ begun # "none" \/ radio # "idle")
    BY <1>1 DEF UsbEscape
  <2> QED
    BY <1>1, <1>0, <2>1 DEF UsbEscape, Quiet, modem
<1>4. CASE MoteStartup
  <2>1. /\ operationType = "MOTE" /\ spoilt' = spoilt /\ moteState = "MOTE_STARTUP"
        /\ moteState' = "MOTE_JOINING" /\ activeState' = "moteStartup"
        /\ IgnoreLine /\ cmds' = cmds /\ radio' = radio
    BY <1>4 DEF MoteStartup, InMote, modem, ghost
  <2>2. Quiet /\ begun = "none"
    BY <1>3, <2>1
  <2>3. cmds' = <<>> /\ lines' = <<>> /\ radio' = "idle" /\ begun' = "none"
    BY <2>1, <2>2, IgnoreQuiet DEF Quiet
  <2> QED
    BY <2>1, <2>3, PhaseOfStartup
<1>5. ASSUME NEW state, In(state), UNCHANGED <<mode, ghost>>
      PROVE  /\ moteState = "MOTE_JOINING" /\ moteState' = "MOTE_JOINING" /\ activeState = state
             /\ Phase /\ begun = "none"
  BY <1>3, <1>5 DEF In, InMote, mode, ghost
<1>6. CASE JoinStartup
  <2>1. /\ moteState' = "MOTE_JOINING" /\ activeState = "moteStartup" /\ Phase /\ begun = "none"
    BY <1>5, <1>6 DEF JoinStartup
  <2>2. Quiet /\ IgnoreLine
    BY <1>6, <2>1 DEF JoinStartup, Phase
  <2>3. /\ lines' = <<>> /\ begun' = "none" /\ cmds = <<>> /\ radio' = "idle"
        /\ cmds' = Append(cmds, Command("get ver", 0)) /\ activeState' = "moteReset"
    BY <1>6, <2>1, <2>2, IgnoreQuiet DEF JoinStartup, Send, Quiet, modem
  <2>4. cmds' = <<Command("get ver", 0)>>
    BY <2>3, SendFirst, OtherOwn
  <2>5. LastSent' = Command("get ver", 0) /\ Confirmed' = {} /\ activeState' \in Setting
    BY <2>3 DEF LastSent, Confirmed, Setting, Configuring, Step
  <2> QED
    BY <1>0, <2>1, <2>3, <2>4, <2>5, PhaseOfSetting
<1>7. ASSUME NEW state \in DOMAIN Step, Configure(state)
      PROVE  moteState' = "MOTE_JOINING" /\ Phase' /\ begun' = "none"
  <2>1. moteState' = "MOTE_JOINING" /\ Phase /\ begun = "none"
    BY <1>5, <1>7 DEF Configure
  <2> QED
    BY <1>7, <2>1, ConfigureStep
<1>8. ASSUME NEW state \in DOMAIN Step, Retry(state)
      PROVE  moteState' = "MOTE_JOINING" /\ Phase' /\ begun' = "none"
  <2>1. moteState' = "MOTE_JOINING" /\ Phase /\ begun = "none"
    BY <1>5, <1>8 DEF Retry
  <2> QED
    BY <1>8, <2>1, RetryStep
<1>9. ASSUME NEW state \in Joined \ {"moteIniTx"}, In(state), UNCHANGED <<mode, modem, ghost>>,
             activeState' \in Joined \ {"moteIniTx"}, IgnoreLine
      PROVE  moteState' = "MOTE_JOINING" /\ Phase' /\ begun' = "none"
  <2>1. moteState' = "MOTE_JOINING" /\ activeState = state /\ Phase /\ begun = "none"
    BY <1>5, <1>9
  <2>2. Full \subseteq settings'
    BY <1>9, <2>1 DEF Phase, modem
  <2>3. begun' = "none"
    BY <1>9, <2>1 DEF IgnoreLine, ReadLine
  <2> QED
    BY <1>9, <2>1, <2>2, <2>3, PhaseOfJoined
<1>10. CASE WaitIniTxOk
  BY <1>0, <1>9, <1>10 DEF WaitIniTxOk, Joined
<1>11. ASSUME NEW s1 \in BOOLEAN, NEW s2 \in BOOLEAN, Rest(s1, s2)
       PROVE  moteState' = "MOTE_JOINING" /\ Phase' /\ begun' = "none"
  <2>1. In("moteRest") /\ IgnoreLine /\ UNCHANGED <<mode, modem, ghost>>
    BY <1>11 DEF Rest
  <2>2. activeState = "moteRest" /\ activeState' \in {activeState, "moteTxUncnf"}
    BY <1>11, <2>1 DEF Rest, In
  <2> QED
    BY <1>9, <2>1, <2>2 DEF Joined
<1>12. CASE TxUncnf
  BY <1>0, <1>9, <1>12 DEF TxUncnf, Joined
<1>13. CASE TxDone
  BY <1>0, <1>9, <1>13 DEF TxDone, Joined, IgnoreLine
<1>14. CASE NextDr
  BY <1>0, <1>9, <1>14 DEF NextDr, Joined, IgnoreLine
<1>15. CASE OtherAnswer
  <2>1. PICK state \in {"moteTxWait", "moteNextDr"} : In(state)
    BY <1>15 DEF OtherAnswer
  <2>2. activeState' = state /\ IgnoreLine /\ UNCHANGED <<mode, modem, ghost>>
    BY <1>15, <2>1 DEF OtherAnswer, In, IgnoreLine
  <2> QED
    BY <1>9, <1>0, <2>1, <2>2 DEF Joined
<1>16. CASE Plug \/ UNCHANGED vars
  <2>1. UNCHANGED <<operationType, moteState, activeState, ch, cmds, lines, begun, settings,
                    radio, spoilt>>
    BY <1>16 DEF Plug, vars, mode, modem, ghost
  <2>2. Known
    BY <1>3, <2>1
  <2>3. LastSent' = LastSent /\ Confirmed' = Confirmed
    BY <2>1 DEF LastSent, Confirmed
  <2>4. Phase => Phase'
    BY <2>1, <2>3 DEF Phase, Quiet, Awaiting, AwaitingRadio, AwaitingReport
  <2>5. Quiet => Quiet'
    BY <2>1 DEF Quiet
  <2> QED
    BY <2>1, <2>2, <2>4, <2>5
<1> QED
  BY <1>1, <1>2, <1>4, <1>6, <1>7, <1>8, <1>10, <1>11, <1>12, <1>13, <1>14, <1>15, <1>16,
     <1>0 DEF MainLoop

-----------------------------------------------------------------------------
LEMMA InitIInv == Init => IInv
<1> SUFFICES ASSUME Init PROVE IInv
  OBVIOUS
<1> USE Constants DEF Init
<1>1. TypeOK
  <2>1. usb \in BOOLEAN
    BY MoteConstants
  <2>2. {dr, modemDr} \subseteq 0 .. Rates - 1 /\ ch \in 0 .. Channels
    OBVIOUS
  <2>3. {faults, plugs, faults + plugs} \subseteq 0 .. MaxTroubles
    OBVIOUS
  <2>4. {autoMode, manualTrigger, prevS1, prevS2, usb, told, spoilt} \subseteq BOOLEAN
    BY <2>1
  <2> QED
    BY <2>2, <2>3, <2>4 DEF TypeOK
<1>2. Wire
  <2>1. lines \in Seq(Answers)
    BY MoteConstants
  <2> QED
    BY <2>1 DEF Wire, OneEach
<1>3. Counter /\ Synchronized
  BY DEF Counter, Synchronized
<1> QED
  BY <1>1, <1>2, <1>3 DEF IInv

LEMMA Invariance == Spec => []IInv
<1>1. IInv /\ [Next]_vars => IInv'
  <2> SUFFICES ASSUME IInv, [Next]_vars PROVE IInv'
    OBVIOUS
  <2>1. TypeOK /\ Wire /\ Counter /\ Synchronized
    BY DEF IInv
  <2>2. TypeOK' /\ Counter' /\ Wire'
    BY <2>1, StepTypes, StepWire
  <2>3. Synchronized'
    BY <2>1, ModemStep, MoteStep DEF Next
  <2> QED
    BY <2>2, <2>3 DEF IInv
<1> QED
  BY <1>1, InitIInv, PTL DEF Spec

\* Every variable keeps its type; ch never names a channel that is not there.
\* (MOTEapp.c:320-662)
THEOREM TypeCorrect == Spec => []TypeOK
<1>1. IInv => TypeOK
  BY DEF IInv
<1> QED
  BY <1>1, Invariance, PTL

\* The mote joins and transmits only with every setting accepted and every channel
\* switched on or off, whatever the number of channels (72 in the code) and however
\* often it was sent back to the start. (MOTEapp.c:320-494)
THEOREM FullyConfigured == Spec => []JoinedConfigured
<1>1. IInv => JoinedConfigured
  <2> SUFFICES ASSUME IInv, InMote("MOTE_JOINING"), ~spoilt, activeState \in Joining \cup Joined
               PROVE  settings = Full
    BY DEF JoinedConfigured, Full, OurSettings
  <2>1. Full \subseteq settings
    BY DEF IInv, Synchronized, InMote, Phase
  <2>2. settings \subseteq Settable /\ OneEach
    BY DEF IInv, Wire
  <2>3. ASSUME NEW s \in settings PROVE \E f \in Full : Item(f) = Item(s)
    <3>1. s \in Settable
      BY <2>2
    <3> QED
      BY <3>1, ItemOfOurs
  <2> QED
    BY <2>1, <2>2, <2>3 DEF OneEach
<1> QED
  BY <1>1, Invariance, PTL

\* While it configures the modem the mote has one answer outstanding, and none when
\* it starts again, after any number of rejected commands and denied joins.
\* (MOTEapp.c:320-494)
THEOREM AlwaysInStep == Spec => []InStep
<1>1. IInv => InStep
  <2> SUFFICES ASSUME IInv, InMote("MOTE_JOINING"), ~spoilt
               PROVE  /\ activeState = "moteStartup" => Outstanding = 0
                      /\ activeState \in Configuring => Outstanding = 1
    BY DEF InStep
  <2>1. Phase
    BY DEF IInv, Synchronized, InMote
  <2>2. activeState = "moteStartup" => Outstanding = 0
    BY <2>1 DEF Phase, Quiet, Outstanding
  <2>3. activeState \in Setting => Outstanding = 1
    <3> HAVE activeState \in Setting
    <3>1. Awaiting(LastSent)
      BY <2>1 DEF Phase
    <3>2. radio = "idle" /\ Len(cmds) + Len(lines) = 1
      <4>1. CASE cmds = <<LastSent>> /\ lines = <<>>
        <5>1. Len(cmds) = 1 /\ Len(lines) = 0
          BY <4>1
        <5> QED
          BY <3>1, <5>1 DEF Awaiting
      <4>2. CASE cmds = <<>> /\ Len(lines) = 1
        BY <3>1, <4>2 DEF Awaiting
      <4> QED
        BY <3>1, <4>1, <4>2 DEF Awaiting
    <3> QED
      BY <3>2 DEF Outstanding
  <2>4. activeState = "moteWaitAccepted" => Outstanding = 1
    BY <2>1 DEF Phase, AwaitingReport, Outstanding
  <2> QED
    BY <2>2, <2>3, <2>4 DEF Setting
<1> QED
  BY <1>1, Invariance, PTL

-----------------------------------------------------------------------------
(* A packet is sent with the data rate it carries.                         *)
(*                                                                         *)
(* The mote does not wait for the modem: a "tx" can be queued behind the   *)
(* "mac set dr" it depends on, and an "ok" taken for the answer to the     *)
(* wrong command.  The label is true all the same, because the modem takes *)
(* the commands in order: RatesAgree follows the rate that the mote set    *)
(* last along the queue, from the one the modem has, if the mote told it,  *)
(* to the one the mote believes in.                                        *)

\* r[n] is the rate that the mote has sent by the n-th command of the queue.
Follows(r) ==
  /\ told => r[0] = modemDr
  /\ r[Len(cmds)] = dr
  /\ \A n \in 1 .. Len(cmds) :
       /\ r[n] = IF cmds[n].name = "dr" THEN cmds[n].arg ELSE r[n - 1]
       /\ cmds[n].name = "tx" => cmds[n].arg = r[n - 1]

RatesAgree == \E r \in [0 .. Len(cmds) -> Int] : Follows(r)

-----------------------------------------------------------------------------
LEMMA SameRates ==
  ASSUME RatesAgree, UNCHANGED <<cmds, dr, modemDr, told>>
  PROVE  RatesAgree'
  BY DEF RatesAgree, Follows

LEMMA AppendRates ==
  ASSUME RatesAgree, cmds \in Seq(Sendable), NEW c, cmds' = Append(cmds, c),
         UNCHANGED <<modemDr, told>>, dr \in Int, dr' \in Int,
         dr' = IF c.name = "dr" THEN c.arg ELSE dr,
         c.name = "tx" => c.arg = dr
  PROVE  RatesAgree'
<1>1. PICK r \in [0 .. Len(cmds) -> Int] : Follows(r)
  BY DEF RatesAgree
<1> DEFINE e == Len(cmds) + 1
<1>2. /\ Len(cmds) \in Nat /\ Len(cmds') = e /\ cmds'[e] = c
      /\ \A n \in 1 .. Len(cmds) : cmds'[n] = cmds[n]
  OBVIOUS
<1>3. PICK s \in [0 .. e -> Int] : s[e] = dr' /\ \A n \in 0 .. Len(cmds) : s[n] = r[n]
  <2> DEFINE t == [n \in 0 .. e |-> IF n = e THEN dr' ELSE r[n]]
  <2>1. t \in [0 .. e -> Int] /\ t[e] = dr' /\ \A n \in 0 .. Len(cmds) : t[n] = r[n]
    BY <1>1, <1>2
  <2> QED
    BY <2>1
<1>4. (told' => s[0] = modemDr') /\ s[Len(cmds')] = dr' /\ s[e - 1] = dr
  BY <1>1, <1>2, <1>3 DEF Follows
<1>5. ASSUME NEW n \in 1 .. e
      PROVE  /\ s[n] = IF cmds'[n].name = "dr" THEN cmds'[n].arg ELSE s[n - 1]
             /\ cmds'[n].name = "tx" => cmds'[n].arg = s[n - 1]
  <2>1. CASE n = e
    BY <1>2, <1>3, <1>4, <2>1
  <2>2. CASE n # e
    <3>1. n \in 1 .. Len(cmds) /\ n \in 0 .. Len(cmds) /\ n - 1 \in 0 .. Len(cmds)
      BY <1>2, <2>2
    <3>2. s[n] = r[n] /\ s[n - 1] = r[n - 1] /\ cmds'[n] = cmds[n]
      BY <1>2, <1>3, <3>1
    <3> QED
      BY <1>1, <3>1, <3>2 DEF Follows
  <2> QED
    BY <2>1, <2>2
<1>6. Follows(s)'
  BY <1>2, <1>4, <1>5 DEF Follows
<1> QED
  BY <1>2, <1>3, <1>6 DEF RatesAgree

LEMMA TailRates ==
  ASSUME RatesAgree, cmds \in Seq(Sendable), cmds # <<>>, cmds' = Tail(cmds), dr' = dr,
         Head(cmds).name = "dr" /\ told' => modemDr' = Head(cmds).arg,
         Head(cmds).name # "dr" /\ told' => told /\ modemDr' = modemDr
  PROVE  RatesAgree'
<1>1. PICK r \in [0 .. Len(cmds) -> Int] : Follows(r)
  BY DEF RatesAgree
<1> DEFINE e == Len(cmds) - 1
<1>2. /\ Len(cmds) \in Nat /\ Len(cmds) > 0 /\ Len(cmds') = e /\ Head(cmds) = cmds[1]
      /\ \A n \in 1 .. e : cmds'[n] = cmds[n + 1]
      /\ 1 \in 1 .. Len(cmds) /\ e \in 0 .. e
  OBVIOUS
<1>3. PICK s \in [0 .. e -> Int] : \A n \in 0 .. e : s[n] = r[n + 1]
  <2> DEFINE t == [n \in 0 .. e |-> r[n + 1]]
  <2>1. t \in [0 .. e -> Int] /\ \A n \in 0 .. e : t[n] = r[n + 1]
    BY <1>1, <1>2
  <2> QED
    BY <2>1
<1>4. r[1] = IF cmds[1].name = "dr" THEN cmds[1].arg ELSE r[1 - 1]
  BY <1>1, <1>2 DEF Follows
<1>5. (told => r[0] = modemDr) /\ r[Len(cmds)] = dr /\ 1 - 1 = 0
  BY <1>1 DEF Follows
<1>6. (told' => s[0] = modemDr') /\ s[e] = dr'
  <2>1. s[0] = r[1] /\ s[e] = r[Len(cmds)]
    BY <1>2, <1>3
  <2> QED
    BY <1>2, <1>4, <1>5, <2>1
<1>7. ASSUME NEW n \in 1 .. e
      PROVE  /\ s[n] = IF cmds'[n].name = "dr" THEN cmds'[n].arg ELSE s[n - 1]
             /\ cmds'[n].name = "tx" => cmds'[n].arg = s[n - 1]
  <2>1. n + 1 \in 1 .. Len(cmds) /\ n \in 0 .. e /\ n - 1 \in 0 .. e
        /\ (n - 1) + 1 = n /\ (n + 1) - 1 = n
    BY <1>2
  <2>2. s[n] = r[n + 1] /\ s[n - 1] = r[n] /\ cmds'[n] = cmds[n + 1]
    BY <1>2, <1>3, <2>1
  <2> QED
    BY <1>1, <2>1, <2>2 DEF Follows
<1>8. Follows(s)'
  BY <1>2, <1>6, <1>7 DEF Follows
<1> QED
  BY <1>2, <1>3, <1>8 DEF RatesAgree

-----------------------------------------------------------------------------
LEMMA InitRates == Init => RatesAgree
<1> SUFFICES ASSUME Init PROVE RatesAgree
  OBVIOUS
<1>1. Len(cmds) = 0 /\ ~told /\ dr = 0
  BY DEF Init
<1>2. PICK r \in [0 .. 0 -> Int] : r[0] = 0
  <2> DEFINE t == [n \in 0 .. 0 |-> 0]
  <2>1. t \in [0 .. 0 -> Int] /\ t[0] = 0
    OBVIOUS
  <2> QED
    BY <2>1
<1>3. Follows(r)
  BY <1>1, <1>2 DEF Follows
<1> QED
  BY <1>1, <1>2, <1>3 DEF RatesAgree

\* The mote's own steps: every command it sends agrees with the rate before it.
LEMMA MoteRates ==
  ASSUME IInv, RatesAgree, MainLoop
  PROVE  RatesAgree'
<1>t. cmds \in Seq(Sendable) /\ dr \in 0 .. Rates - 1 /\ dr \in Int
  BY Constants DEF IInv, Wire, TypeOK
<1>1. CASE JoinStartup
  <2>1. /\ cmds' = Append(cmds, Command("get ver", 0)) /\ UNCHANGED <<modemDr, told, dr>>
        /\ Command("get ver", 0).name = "get ver"
    BY <1>1 DEF JoinStartup, Send, modem, rest, Command
  <2> QED
    BY <1>t, <2>1, AppendRates
<1>2. ASSUME NEW state \in DOMAIN Step, Configure(state) PROVE RatesAgree'
  <2>1. UNCHANGED <<modemDr, told, dr>>
    BY <1>2 DEF Configure, modem, rest
  <2>2. CASE cmds' = cmds
    BY <2>1, <2>2, SameRates
  <2>3. CASE state = "moteSetRx2" /\ cmds' = Append(cmds, ChannelCommand(ch))
    <3>1. ChannelCommand(ch).name \in {"ch on", "ch off"}
      BY DEF ChannelCommand, Command
    <3> QED
      BY <1>t, <2>1, <2>3, <3>1, AppendRates
  <2>4. CASE state # "moteSetRx2" /\ cmds' = Append(cmds, Command(Step[state].send, 0))
    <3>1. Command(Step[state].send, 0).name = Step[state].send
      BY DEF Command
    <3>2. Step[state].send \notin {"dr", "tx"}
      <4>1. state \in Rows \ {"moteSetRx2"}
        BY <2>4, Table
      <4> QED
        BY <4>1, TableSends DEF Rows
    <3> QED
      BY <1>t, <2>1, <2>4, <3>1, <3>2, AppendRates
  <2>5. \/ cmds' = cmds
        \/ state = "moteSetRx2" /\ cmds' = Append(cmds, ChannelCommand(ch))
        \/ state # "moteSetRx2" /\ cmds' = Append(cmds, Command(Step[state].send, 0))
    <3>1. CASE state = "moteSetRx2"
      <4>1. Step[state].send # "none"
        BY <3>1 DEF Step
      <4> QED
        BY <1>2, <3>1, <4>1 DEF Configure
    <3>2. CASE state # "moteSetRx2"
      BY <1>2, <3>2 DEF Configure
    <3> QED
      BY <3>1, <3>2
  <2> QED
    BY <2>2, <2>3, <2>4, <2>5
<1>3. ASSUME NEW s1 \in BOOLEAN, NEW s2 \in BOOLEAN, Rest(s1, s2) PROVE RatesAgree'
  <2>1. /\ UNCHANGED <<modemDr, told, dr>>
        /\ cmds' = cmds \/ cmds' = Append(cmds, Command("tx", dr))
    BY <1>3 DEF Rest, Send, modem
  <2>2. Command("tx", dr).name = "tx" /\ Command("tx", dr).arg = dr
    BY DEF Command
  <2> QED
    BY <1>t, <2>1, <2>2, SameRates, AppendRates
<1>4. CASE TxDone
  <2>1. /\ cmds' = Append(cmds, Command("dr", dr')) /\ UNCHANGED <<modemDr, told>>
        /\ dr' = (dr + 1) % Rates
    BY <1>4 DEF TxDone, Send, modem
  <2>2. dr' \in Int
    BY <1>t, <2>1, NextRate, Constants
  <2>3. Command("dr", dr').name = "dr" /\ Command("dr", dr').arg = dr'
    BY DEF Command
  <2> QED
    BY <1>t, <2>1, <2>2, <2>3, AppendRates
<1>5. CASE \/ \E state \in DOMAIN Step : Retry(state)
           \/ UsbEscape \/ Swap \/ MoteStartup
           \/ WaitIniTxOk \/ TxUncnf \/ NextDr \/ OtherAnswer
  <2>1. UNCHANGED <<cmds, dr, modemDr, told>>
    BY <1>5 DEF UsbEscape, Swap, MoteStartup, Retry, WaitIniTxOk, TxUncnf, NextDr, OtherAnswer,
                rest, modem
  <2> QED
    BY <2>1, SameRates
<1> QED
  BY <1>1, <1>2, <1>3, <1>4, <1>5 DEF MainLoop

\* The modem's: it takes the commands in order.
LEMMA ModemRates ==
  ASSUME IInv, RatesAgree, Modem
  PROVE  RatesAgree'
<1>t. cmds \in Seq(Sendable)
  BY DEF IInv, Wire
<1>1. CASE ModemEvent
  <2>1. UNCHANGED <<cmds, dr, modemDr, told>>
    BY <1>1 DEF ModemEvent, rest
  <2> QED
    BY <2>1, SameRates
<1>2. CASE ~ModemEvent
  <2>1. cmds # <<>> /\ cmds' = Tail(cmds) /\ dr' = dr
    BY <1>2 DEF Modem, ModemVersion, ModemReset, ModemSet, ModemRate, ModemJoin, ModemTransmit,
                ModemReject, Answer, rest
  <2>2. /\ Head(cmds).name = "dr" /\ told' => modemDr' = Head(cmds).arg
        /\ Head(cmds).name # "dr" /\ told' => told /\ modemDr' = modemDr
    <3>1. CASE ModemRate
      BY <3>1 DEF ModemRate
    <3>2. CASE ModemReject
      BY <3>2 DEF ModemReject
    <3>3. CASE ModemReset
      BY <3>3 DEF ModemReset
    <3>4. CASE ModemVersion \/ ModemSet \/ ModemJoin \/ ModemTransmit
      <4>1. Head(cmds).name # "dr" /\ modemDr' = modemDr /\ told' = told
        BY <3>4 DEF ModemVersion, ModemSet, ModemJoin, ModemTransmit, modem, Settings
      <4> QED
        BY <4>1
    <3> QED
      BY <1>2, <3>1, <3>2, <3>3, <3>4 DEF Modem
  <2> QED
    BY <1>t, <2>1, <2>2, TailRates
<1> QED
  BY <1>1, <1>2

LEMMA StepRates == IInv /\ RatesAgree /\ [Next]_vars => RatesAgree'
<1> SUFFICES ASSUME IInv, RatesAgree, [Next]_vars PROVE RatesAgree'
  OBVIOUS
<1>1. CASE MainLoop
  BY <1>1, MoteRates
<1>2. CASE Modem
  BY <1>2, ModemRates
<1>3. CASE UsbCommand
  <2>1. PICK c \in PcCommands : cmds' = Append(cmds, c)
    BY <1>3 DEF UsbCommand
  <2>2. c.name \notin {"dr", "tx"}
    <3>1. c \in PossiblePcCommands
      BY MoteConstants
    <3>2. c.name \in Settings \cup {"ch on", "ch off", "pc_dr", "get ver", "sys reset", "join", "tx_first"}
      BY <3>1 DEF PossiblePcCommands
    <3> QED
      BY <3>2 DEF Settings
  <2>3. UNCHANGED <<dr, modemDr, told>>
    BY <1>3 DEF UsbCommand, rest, modem
  <2>4. cmds \in Seq(Sendable) /\ dr \in Int
    BY Constants DEF IInv, Wire, TypeOK
  <2> QED
    BY <2>1, <2>2, <2>3, <2>4, AppendRates
<1>4. CASE UsbForward \/ Plug \/ UNCHANGED vars
  <2>1. UNCHANGED <<cmds, dr, modemDr, told>>
    BY <1>4 DEF UsbForward, Plug, vars, rest, modem
  <2> QED
    BY <2>1, SameRates
<1> QED
  BY <1>1, <1>2, <1>3, <1>4 DEF Next

\* The data rate in a packet is the one the modem sends it with, for every number of
\* rates, whatever is on its way, whatever the modem rejects and whatever the PC sends,
\* once the modem has accepted the mote's last "mac set dr" and until somebody else
\* sets its rate; the first packet, labelled 0, is not one of these.
\* (MOTEapp.c:606-713)
THEOREM TrueLabel == Spec => []RateLabelTrue
<1>1. IInv /\ RatesAgree /\ [Next]_vars => RatesAgree'
  BY StepRates
<1>2. IInv /\ RatesAgree => RateLabelTrue
  <2> SUFFICES ASSUME IInv, RatesAgree, told, cmds # <<>>, Head(cmds).name = "tx"
               PROVE  Head(cmds).arg = modemDr
    BY DEF RateLabelTrue
  <2>1. PICK r \in [0 .. Len(cmds) -> Int] : Follows(r)
    BY DEF RatesAgree
  <2>2. 1 \in 1 .. Len(cmds) /\ Head(cmds) = cmds[1] /\ 1 - 1 = 0
    BY DEF IInv, Wire
  <2>3. r[0] = modemDr /\ cmds[1].arg = r[1 - 1]
    BY <2>1, <2>2 DEF Follows
  <2> QED
    BY <2>2, <2>3
<1> QED
  BY <1>1, <1>2, InitRates, Invariance, PTL DEF Spec
=============================================================================
