------------------------------- MODULE Ticks -------------------------------
(***************************************************************************)
(* The timed part of moteHandler: the tick flags that the timer interrupt  *)
(* and the main loop share (TMRapp.c), the menu timeout counted from them  *)
(* (secTicker, MOTEapp.c) and the debounced push buttons, a press of which *)
(* starts the timeout again (buttons.c).                                   *)
(*                                                                         *)
(* A pass of moteHandler is four steps, and the interrupt may fall before  *)
(* each: the test of mSecTick, TMRapp_ClearBitFlags, TMRapp_Handler with   *)
(* MOTEapp_TimerBasedTask, and service_pushbutton with the sleep event.    *)
(* The interrupt only sets mSecTick, one instruction, so it makes no       *)
(* difference where inside a step it falls.  A pass takes any time.        *)
(*                                                                         *)
(* The two switches are one: service_pushbutton has one timer for both and *)
(* both presses do the same to secTicker.  m10SecTicker and minTicker are  *)
(* left out: no reachable state reads them.                                *)
(***************************************************************************)
EXTENDS Integers

CONSTANTS
  Ten, Hundred, Second, Minute,   \* 10, 100, 1000, 60000 ticks
  Word,                           \* 2^16, of timerMsTickCount
  Hour, HalfDay, Day,             \* 60, 720, 1440 minutes
  SleepTimeOut,                   \* in seconds
  Short, Release,                 \* PUSH_BUTTON_SHORT, PUSH_BUTTON_RELEASE
  TimerWord                       \* 2^32, of PB_Timer

ASSUME TickAssumption ==
  /\ {Ten, Hundred, Second, Minute, Hour, HalfDay, Day} \subseteq Nat \ {0}
  /\ Word \in Nat /\ Word > Minute
  /\ SleepTimeOut \in Nat \ {0}

\* The conditions of TMRapp_Handler are nested, and the menu times out before the
\* count of ticks wraps twice.
ASSUME SleepAssumption ==
  /\ Hundred % Ten = 0 /\ Second % Hundred = 0
  /\ SleepTimeOut * Second < Word

ASSUME ButtonAssumption ==
  /\ Short \in Nat \ {0} /\ Release \in Nat
  /\ TimerWord \in Nat /\ TimerWord > Short

VARIABLES
  appTimer,            \* the flags that are set
  timerMsTickCount, timerMinTickCount,
  secTicker, gotoSleep,
  PB_Timer, Release_Timer, buttonPress,
  down,                \* a switch is pushed
  pc,
  idle,                \* ticks handled since secTicker was last cleared (capped)
  pushed, released,    \* passes since the last press with the switch so
  held                 \* passes since the switch was last seen released

tickVars == <<appTimer, timerMsTickCount, timerMinTickCount>>
pressVars == <<PB_Timer, Release_Timer, buttonPress, pushed, released, held>>
idleVars == <<secTicker, gotoSleep, idle>>
vars == <<tickVars, pressVars, idleVars, down, pc>>

Flags == {"mSecTick", "mSecTenTick", "mSecHundredTick", "SecTick", "MinTick",
          "HourTick", "HalfDayTick", "DayTick"}
Least(a, b) == IF a < b THEN a ELSE b

TypeOK ==
  /\ appTimer \subseteq Flags
  /\ timerMsTickCount \in 0..Word - 1 /\ timerMinTickCount \in 0..Day - 1
  /\ secTicker \in 0..SleepTimeOut /\ idle \in 0..SleepTimeOut * Second
  /\ PB_Timer \in 0..TimerWord - 1 /\ Release_Timer \in 0..Release
  /\ {gotoSleep, buttonPress, down} \subseteq BOOLEAN
  /\ pc \in {"test", "clear", "handle", "service"}
  /\ pushed \in 0..TimerWord /\ held \in 0..Short /\ released \in 0..Release + 1

\* At power on; a first press needs no release before it.
Init ==
  /\ appTimer = {} /\ timerMsTickCount = 0 /\ timerMinTickCount = 0
  /\ secTicker = 0 /\ gotoSleep = FALSE /\ idle = 0
  /\ PB_Timer = 0 /\ Release_Timer = 0 /\ buttonPress = FALSE
  /\ down \in BOOLEAN /\ pc = "test"
  /\ pushed = 0 /\ held = 0 /\ released = Release + 1

-----------------------------------------------------------------------------
(* The timer interrupt, and the switch under the user's finger. *)

TMRapp_Tick ==
  /\ appTimer' = appTimer \cup {"mSecTick"}
  /\ UNCHANGED <<timerMsTickCount, timerMinTickCount, pressVars, idleVars, down, pc>>

Touch ==
  /\ down' = ~down
  /\ UNCHANGED <<tickVars, pressVars, idleVars, pc>>

-----------------------------------------------------------------------------
(* The ticks of a pass. *)

TestTick ==
  /\ pc = "test"
  /\ pc' = IF "mSecTick" \in appTimer THEN "clear" ELSE "service"
  /\ UNCHANGED <<tickVars, pressVars, idleVars, down>>

\* Mutant: the other flags stay set.
ClearedTickOnly == appTimer \ {"mSecTick"}

Cleared == {}
TMRapp_ClearBitFlags ==
  /\ pc = "clear"
  /\ appTimer' = Cleared /\ pc' = "handle"
  /\ UNCHANGED <<timerMsTickCount, timerMinTickCount, pressVars, idleVars, down>>

\* What must divide the two counts for a flag: the conditions are nested.
Seconds == {Ten, Hundred, Second}
OfTicks == [mSecTenTick |-> {Ten}, mSecHundredTick |-> {Ten, Hundred},
            SecTick |-> Seconds, MinTick |-> Seconds \cup {Minute},
            HourTick |-> Seconds \cup {Minute}, HalfDayTick |-> Seconds \cup {Minute},
            DayTick |-> Seconds \cup {Minute}]
OfMinutes == [HourTick |-> {Hour}, HalfDayTick |-> {Hour, HalfDay},
              DayTick |-> {Hour, HalfDay, Day}]

Due(ticks, minutes) ==
  {f \in DOMAIN OfTicks :
     /\ \A d \in OfTicks[f] : ticks % d = 0
     /\ f \in DOMAIN OfMinutes => \A d \in OfMinutes[f] : minutes % d = 0}

\* TMRapp_Handler, and the seconds of MOTEapp_TimerBasedTask.
TMRapp_Handler ==
  LET ticks   == (timerMsTickCount + 1) % Word
      minutes == timerMinTickCount + IF "MinTick" \in Due(ticks, 0) THEN 1 ELSE 0
      due     == Due(ticks, minutes)
  IN  /\ pc = "handle"
      /\ appTimer' = appTimer \cup due
      /\ timerMsTickCount' = IF "DayTick" \in due THEN 0 ELSE ticks
      /\ timerMinTickCount' = IF "DayTick" \in due THEN 0 ELSE minutes
      /\ secTicker' = secTicker + IF "SecTick" \in appTimer' THEN 1 ELSE 0
      /\ idle' = Least(idle + 1, SleepTimeOut * Second + 1)
      /\ pc' = "service"
      /\ UNCHANGED <<pressVars, gotoSleep, down>>

-----------------------------------------------------------------------------
(* The buttons and the menu timeout.  PB_Timer is not cleared by a release *)
(* that is too short, and Release_Timer goes on counting through a push.   *)

\* Mutant: a press does not start Release_Timer again.
PushKeepsRelease(timer) ==
  /\ PB_Timer' = timer
  /\ buttonPress' = (timer = Short)
  /\ Release_Timer' = Release_Timer
  /\ pushed' = IF timer = Short THEN 0 ELSE Least(pushed + 1, TimerWord)
  /\ released' = IF timer = Short THEN 0 ELSE released
  /\ held' = Least(held + 1, Short)

Push(timer) ==
  /\ PB_Timer' = timer
  /\ buttonPress' = (timer = Short)
  /\ Release_Timer' = IF timer = Short THEN 0 ELSE Release_Timer
  /\ pushed' = IF timer = Short THEN 0 ELSE Least(pushed + 1, TimerWord)
  /\ released' = IF timer = Short THEN 0 ELSE released
  /\ held' = Least(held + 1, Short)

LetGo ==
  /\ PB_Timer' = IF Release_Timer = Release THEN 0 ELSE PB_Timer
  /\ Release_Timer' = IF Release_Timer = Release THEN 0 ELSE Release_Timer + 1
  /\ buttonPress' = FALSE
  /\ released' = Least(released + 1, Release + 1)
  /\ held' = 0
  /\ UNCHANGED pushed

service_pushbutton ==
  \/ down /\ Push((PB_Timer + 1) % TimerWord)
  \/ ~down /\ LetGo

\* A press clears secTicker before the timeout is looked at.
SleepEvent ==
  LET seconds == IF buttonPress' THEN 0 ELSE secTicker
  IN  /\ gotoSleep' = (seconds >= SleepTimeOut)
      /\ secTicker' = IF gotoSleep' THEN 0 ELSE seconds
      /\ idle' = IF gotoSleep' \/ buttonPress' THEN 0 ELSE idle

Service ==
  /\ pc = "service"
  /\ service_pushbutton
  /\ SleepEvent
  /\ pc' = "test"
  /\ UNCHANGED <<tickVars, down>>

moteHandler == TestTick \/ TMRapp_ClearBitFlags \/ TMRapp_Handler \/ Service

Next == TMRapp_Tick \/ Touch \/ moteHandler

Spec == Init /\ [][Next]_vars

-----------------------------------------------------------------------------
(* The menu timeout. *)

Served == pc = "service" /\ pc' = "test"

\* The sleep event comes after SleepTimeOut seconds of handled ticks without
\* a press, counted from a moment inside a second; where the count of ticks
\* wraps, once in Word ticks, a second is as short as Word % Second.  It is the
\* event that is meant, the flag gotoSleep that moteHandler computes: the state that
\* would act on it is not reached in this build. (TMRapp.c:25-36, MOTEapp.c:202-257)
SleepOnTime ==
  [][Served /\ gotoSleep' =>
       idle \in ((SleepTimeOut - 2) * Second + (Word % Second) + 1)..(SleepTimeOut * Second)]_vars

(* The buttons. *)

\* A press is reported if and only if it is a new one: Short passes pushed
\* and more than Release passes released since the last press (or TimerWord
\* passes pushed: PB_Timer has wrapped); and a switch held for Short passes
\* after such a release is reported. (buttons.c:22-54)
OnePressPerPush ==
  [][Served =>
       /\ buttonPress' => \/ released > Release /\ pushed + 1 >= Short
                          \/ pushed + 1 >= TimerWord
       /\ released > Release /\ held' = Short => buttonPress']_vars

=============================================================================
