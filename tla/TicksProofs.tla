---------------------------- MODULE TicksProofs ----------------------------
(***************************************************************************)
(* The debounce counters of service_pushbutton, for every pair of          *)
(* thresholds and every width of PB_Timer.  The invariant says where the   *)
(* two counters stand: until PB_Timer is cleared after a press it has gone *)
(* on from Short with every pass pushed, around its width if it must, and  *)
(* Release_Timer counts the passes released; after that PB_Timer is below  *)
(* Short and counts at least the passes of the push that is under way.     *)
(*                                                                         *)
(* Then the menu timeout, for every timeout that is shorter than a wrap    *)
(* of the tick count: Timed compares the ticks handled since secTicker was *)
(* cleared with the seconds counted and the ticks since the last of them.  *)
(***************************************************************************)
EXTENDS Ticks, TLAPS

ButtonTypeOK ==
  /\ PB_Timer \in 0..TimerWord - 1
  /\ Release_Timer \in 0..Release
  /\ pushed \in 0..TimerWord
  /\ released \in 0..Release + 1
  /\ held \in 0..Short

\* After a press, before PB_Timer is cleared.
Pressed ==
  released <= Release =>
    /\ Release_Timer = released
    /\ pushed < TimerWord
    /\ PB_Timer = IF pushed < TimerWord - Short THEN pushed + Short
                  ELSE pushed - (TimerWord - Short)

\* After PB_Timer is cleared.
Waiting ==
  released > Release =>
    /\ PB_Timer < Short
    /\ PB_Timer <= pushed
    /\ held <= PB_Timer

Debounce == ButtonTypeOK /\ Pressed /\ Waiting

\* What the interrupt and the other steps of a pass leave alone.
LEMMA OtherSteps ==
  ASSUME Debounce, UNCHANGED pressVars
  PROVE  Debounce'
  BY DEF Debounce, ButtonTypeOK, Pressed, Waiting, pressVars

\* A pass with the switch pushed.
LEMMA PassPushed ==
  ASSUME Debounce, Push((PB_Timer + 1) % TimerWord)
  PROVE  Debounce'
<1>1. /\ Short \in Nat \ {0} /\ Release \in Nat
      /\ TimerWord \in Nat /\ TimerWord > Short
  BY ButtonAssumption
<1>2. (PB_Timer + 1) % TimerWord = IF PB_Timer + 1 = TimerWord THEN 0 ELSE PB_Timer + 1
  BY <1>1 DEF Debounce, ButtonTypeOK
<1> DEFINE timer == IF PB_Timer + 1 = TimerWord THEN 0 ELSE PB_Timer + 1
<1>3. Push(timer)
  BY <1>2
<1>4. timer \in 0..TimerWord - 1
  BY <1>1 DEF Debounce, ButtonTypeOK
<1>5. ButtonTypeOK'
  BY <1>1, <1>3, <1>4 DEF Debounce, ButtonTypeOK, Push, Least
<1>6. CASE timer = Short
  BY <1>1, <1>3, <1>5, <1>6 DEF Debounce, ButtonTypeOK, Pressed, Waiting, Push, Least
<1>7. CASE timer # Short
  BY <1>1, <1>3, <1>5, <1>7 DEF Debounce, ButtonTypeOK, Pressed, Waiting, Push, Least
<1> QED BY <1>6, <1>7

\* A pass with the switch released.
LEMMA PassReleased ==
  ASSUME Debounce, LetGo
  PROVE  Debounce'
<1>1. Release \in Nat
  BY ButtonAssumption
<1>2. ButtonTypeOK'
  <2>1. /\ PB_Timer' \in 0..TimerWord - 1 /\ Release_Timer' \in 0..Release
        /\ released' \in 0..Release + 1
    BY <1>1, ButtonAssumption DEF Debounce, ButtonTypeOK, LetGo, Least
  <2>2. /\ pushed' \in 0..TimerWord /\ held' \in 0..Short
    BY ButtonAssumption DEF Debounce, ButtonTypeOK, LetGo
  <2> QED BY <2>1, <2>2 DEF ButtonTypeOK
<1>3. Pressed'
  BY <1>1 DEF Debounce, ButtonTypeOK, Pressed, LetGo, Least
<1>4. Waiting'
  BY <1>1, ButtonAssumption DEF Debounce, ButtonTypeOK, Pressed, Waiting, LetGo, Least
<1> QED BY <1>2, <1>3, <1>4 DEF Debounce

THEOREM DebounceHolds == Spec => []Debounce
<1>1. Init => Debounce
  BY ButtonAssumption DEF Init, Debounce, ButtonTypeOK, Pressed, Waiting
<1>2. Debounce /\ [Next]_vars => Debounce'
  <2> SUFFICES ASSUME Debounce, [Next]_vars PROVE Debounce'
    OBVIOUS
  <2>1. CASE TMRapp_Tick
    BY <2>1, OtherSteps DEF TMRapp_Tick
  <2>2. CASE Touch
    BY <2>2, OtherSteps DEF Touch
  <2>3. CASE TestTick
    BY <2>3, OtherSteps DEF TestTick
  <2>4. CASE TMRapp_ClearBitFlags
    BY <2>4, OtherSteps DEF TMRapp_ClearBitFlags
  <2>5. CASE TMRapp_Handler
    BY <2>5, OtherSteps DEF TMRapp_Handler
  <2>6. CASE Service
    BY <2>6, PassPushed, PassReleased DEF Service, service_pushbutton
  <2>7. CASE UNCHANGED vars
    BY <2>7, OtherSteps DEF vars
  <2> QED BY <2>1, <2>2, <2>3, <2>4, <2>5, <2>6, <2>7 DEF Next, moteHandler
<1> QED BY <1>1, <1>2, PTL DEF Spec

\* One report for a push, and one for every push, for all thresholds: the
\* property of the run. (buttons.c:22-54)
THEOREM OnePress == Spec => OnePressPerPush
<1> DEFINE Reported ==
      Served =>
        /\ buttonPress' => \/ released > Release /\ pushed + 1 >= Short
                           \/ pushed + 1 >= TimerWord
        /\ released > Release /\ held' = Short => buttonPress'
<1>1. Debounce /\ [Next]_vars => [Reported]_vars
  <2> SUFFICES ASSUME Debounce, Next, Served PROVE Reported
    BY DEF Served, vars
  <2>1. Service
    BY DEF Served, Next, TMRapp_Tick, Touch, moteHandler, TestTick, TMRapp_ClearBitFlags, TMRapp_Handler
  <2>2. CASE ~down /\ LetGo
    BY <2>2, ButtonAssumption DEF LetGo
  <2>3. CASE down /\ Push((PB_Timer + 1) % TimerWord)
    <3>1. (PB_Timer + 1) % TimerWord = IF PB_Timer + 1 = TimerWord THEN 0 ELSE PB_Timer + 1
      BY ButtonAssumption DEF Debounce, ButtonTypeOK
    <3> DEFINE timer == IF PB_Timer + 1 = TimerWord THEN 0 ELSE PB_Timer + 1
    <3>2. Push(timer)
      BY <2>3, <3>1
    <3>3. buttonPress' <=> timer = Short
      <4> HIDE DEF timer
      <4> QED BY <3>2, Zenon DEF Push
    <3>4. timer = Short => \/ released > Release /\ pushed + 1 >= Short
                           \/ pushed + 1 >= TimerWord
      BY ButtonAssumption DEF Debounce, ButtonTypeOK, Pressed, Waiting
    <3>5. released > Release /\ held' = Short => timer = Short
      BY <3>2, ButtonAssumption DEF Push, Least, Debounce, ButtonTypeOK, Waiting
    <3> QED BY <3>3, <3>4, <3>5
  <2> QED BY <2>1, <2>2, <2>3 DEF Service, service_pushbutton
<1> QED BY <1>1, DebounceHolds, PTL DEF Spec, OnePressPerPush

-----------------------------------------------------------------------------
(* The menu timeout. *)

\* Ticks since the last second.
Since == timerMsTickCount % Second

\* What secTicker and the count of ticks say about idle: a second of secTicker is
\* Second ticks, but for the first, which may be a single one, and for one that
\* ended where the count of ticks wrapped; that was once, since the count is less
\* than idle only if it has wrapped since idle began.
NotLate == idle <= secTicker * Second + Since
NotEarly ==
  \/ secTicker * Second + Since + 1 <= idle + Second
  \/ /\ secTicker * Second + Since + 1 + (Word % Second) <= idle + 2 * Second
     /\ timerMsTickCount < idle

Timed ==
  /\ timerMsTickCount \in 0..Word - 1
  /\ secTicker \in 0..SleepTimeOut
  /\ idle \in Nat
  /\ pc = "handle" => appTimer \subseteq {"mSecTick"}
  /\ secTicker = SleepTimeOut => pc = "service" /\ Since = 0
  /\ NotLate /\ NotEarly

LEMMA Sizes ==
  /\ {Ten, Hundred, Second, Word, SleepTimeOut} \subseteq Nat \ {0}
  /\ Hundred % Ten = 0 /\ Second % Hundred = 0 /\ SleepTimeOut * Second < Word
  BY TickAssumption, SleepAssumption

LEMMA Division ==
  ASSUME NEW n \in Nat \ {0}, NEW x \in Nat
  PROVE  /\ x % n \in 0 .. n - 1
         /\ x \div n \in Nat
         /\ x = (x \div n) * n + (x % n)
  BY SMT

LEMMA Product ==
  ASSUME NEW j \in Nat, NEW k \in Nat
  PROVE  j * k \in Nat
  BY SMT

LEMMA Remainder ==
  ASSUME NEW n \in Nat \ {0}, NEW j \in Nat, NEW r \in 0 .. n - 1
  PROVE  (j * n + r) % n = r
  BY SMT

LEMMA NextRemainder ==
  ASSUME NEW n \in Nat \ {0}, NEW x \in Nat
  PROVE  (x + 1) % n = IF x % n = n - 1 THEN 0 ELSE (x % n) + 1
<1> DEFINE q == x \div n
           r == x % n
<1>1. q \in Nat /\ r \in 0 .. n - 1 /\ x = q * n + r
  BY Division
<1> HIDE DEF q, r
<1>2. CASE r = n - 1
  <2>1. x + 1 = (q + 1) * n + 0
    BY <1>1, <1>2
  <2>2. ((q + 1) * n + 0) % n = 0
    <3>1. q + 1 \in Nat /\ 0 \in 0 .. n - 1
      BY <1>1
    <3> QED
      BY <3>1, Remainder
  <2> QED
    BY <1>2, <2>1, <2>2, Zenon DEF r
<1>3. CASE r # n - 1
  <2>1. x + 1 = q * n + (r + 1) /\ r + 1 \in 0 .. n - 1
    BY <1>1, <1>3, Product
  <2>2. (q * n + (r + 1)) % n = r + 1
    BY <1>1, <2>1, Remainder
  <2> QED
    BY <1>3, <2>1, <2>2, Zenon DEF r
<1> QED
  BY <1>2, <1>3

\* What divides a count that a multiple of it divides.
LEMMA Divides ==
  ASSUME NEW m \in Nat \ {0}, NEW n \in Nat \ {0}, n % m = 0, NEW x \in Nat, x % n = 0
  PROVE  x % m = 0
<1> DEFINE q == x \div n
           k == n \div m
<1>1. q \in Nat /\ k \in Nat /\ x = q * n /\ n = k * m
  BY Division
<1> HIDE DEF q, k
<1>2. x = (q * k) * m + 0
  BY <1>1
<1>3. ((q * k) * m + 0) % m = 0
  <2>1. q * k \in Nat /\ 0 \in 0 .. m - 1
    BY <1>1, Product
  <2> QED
    BY <2>1, Remainder
<1> QED
  BY <1>2, <1>3, Zenon

\* The second flag is due when a second divides the count, and the day's only then.
LEMMA SecondDue ==
  ASSUME NEW ticks \in Nat, NEW minutes
  PROVE  /\ "SecTick" \in Due(ticks, minutes) <=> ticks % Second = 0
         /\ "DayTick" \in Due(ticks, minutes) => ticks % Second = 0
<1>1. ticks % Second = 0 => ticks % Hundred = 0 /\ ticks % Ten = 0
  BY Sizes, Divides
<1>2. "SecTick" \in Due(ticks, minutes) <=> \A d \in Seconds : ticks % d = 0
  BY Zenon DEF Due, OfTicks, OfMinutes
<1>3. "DayTick" \in Due(ticks, minutes) => \A d \in Seconds \cup {Minute} : ticks % d = 0
  BY DEF Due, OfTicks, OfMinutes
<1> QED
  BY <1>1, <1>2, <1>3 DEF Seconds

LEMMA HandlerTimed ==
  ASSUME Timed, TMRapp_Handler
  PROVE  Timed'
<1> DEFINE ticks == (timerMsTickCount + 1) % Word
           minutes == timerMinTickCount + IF "MinTick" \in Due(ticks, 0) THEN 1 ELSE 0
           due == Due(ticks, minutes)
           m == secTicker * Second
           w == Word % Second
           all == SleepTimeOut * Second
<1>1. /\ pc = "handle" /\ pc' = "service"
      /\ appTimer' = appTimer \cup due
      /\ timerMsTickCount' = IF "DayTick" \in due THEN 0 ELSE ticks
      /\ secTicker' = secTicker + IF "SecTick" \in appTimer' THEN 1 ELSE 0
      /\ idle' = Least(idle + 1, all + 1)
  BY DEF TMRapp_Handler
<1>2. /\ timerMsTickCount \in 0 .. Word - 1 /\ secTicker \in 0 .. SleepTimeOut - 1
      /\ idle \in Nat /\ NotLate /\ NotEarly /\ "SecTick" \notin appTimer
  BY <1>1, Sizes DEF Timed
<1>3. Second \in Nat \ {0} /\ Word \in Nat \ {0} /\ SleepTimeOut \in Nat \ {0} /\ all < Word
  BY Sizes
<1>4. Since \in 0 .. Second - 1 /\ w \in 0 .. Second - 1
  BY <1>2, <1>3, Division DEF Since
<1>5. m \in Nat /\ all \in Nat /\ m + Second <= all /\ (secTicker + 1) * Second = m + Second
  <2>1. m \in Nat /\ all \in Nat
    BY <1>2, <1>3, Product
  <2>2. (secTicker + 1) * Second <= all
    BY <1>2, <1>3
  <2>3. (secTicker + 1) * Second = m + Second
    BY <1>2, <1>3
  <2> QED
    BY <2>1, <2>2, <2>3
<1>6. ticks = IF timerMsTickCount + 1 = Word THEN 0 ELSE timerMsTickCount + 1
  BY <1>2, <1>3
<1>7. /\ ticks \in 0 .. Word - 1
      /\ ticks % Second = IF timerMsTickCount + 1 = Word \/ Since = Second - 1 THEN 0 ELSE Since + 1
      /\ timerMsTickCount + 1 = Word => w = IF Since = Second - 1 THEN 0 ELSE Since + 1
  <2>1. (timerMsTickCount + 1) % Second = IF Since = Second - 1 THEN 0 ELSE Since + 1
    <3>1. timerMsTickCount \in Nat
      BY <1>2
    <3>2. (timerMsTickCount + 1) % Second =
            IF timerMsTickCount % Second = Second - 1 THEN 0 ELSE (timerMsTickCount % Second) + 1
      BY <1>3, <3>1, NextRemainder, Zenon
    <3> QED
      BY <3>2, Zenon DEF Since
  <2>2. 0 % Second = 0
    BY <1>3
  <2> HIDE DEF ticks
  <2> QED
    BY <1>2, <1>3, <1>6, <2>1, <2>2
<1>8. /\ "SecTick" \in appTimer' <=> ticks % Second = 0
      /\ "DayTick" \in due => ticks % Second = 0
  <2> HIDE DEF ticks, minutes
  <2>1. ticks \in Nat
    BY <1>3, <1>7
  <2> QED
    BY <1>1, <1>2, <2>1, SecondDue
<1>9. idle' = idle + 1
  <2>1. idle <= m + Since
    BY <1>2 DEF NotLate
  <2>2. idle' = Least(idle + 1, all + 1)
    BY <1>1
  <2> HIDE DEF m, all
  <2> QED
    BY <1>2, <1>3, <1>4, <1>5, <2>1, <2>2 DEF Least
<1>10. /\ timerMsTickCount' \in 0 .. Word - 1 /\ timerMsTickCount' <= timerMsTickCount + 1
       /\ timerMsTickCount + 1 = Word => timerMsTickCount' = 0
       /\ Since' = ticks % Second
  <2>1. 0 % Second = 0
    BY <1>3
  <2> HIDE DEF ticks, due
  <2> QED
    BY <1>1, <1>2, <1>3, <1>6, <1>7, <1>8, <2>1 DEF Since
<1>11. idle < Word
  <2> HIDE DEF m, all
  <2> QED
    BY <1>2, <1>3, <1>4, <1>5 DEF NotLate, m
<1> HIDE DEF ticks, minutes, due, all
<1>12. CASE ticks % Second = 0
  <2>1. secTicker' = secTicker + 1 /\ secTicker' * Second = m + Second /\ Since' = 0
    BY <1>1, <1>2, <1>5, <1>8, <1>10, <1>12
  <2>2. Since + 1 <= Second /\ (Since = Second - 1 \/ (timerMsTickCount + 1 = Word /\ w = Since + 1))
    <3> HIDE DEF w
    <3> QED
      BY <1>3, <1>4, <1>7, <1>12
  <2>3. idle <= m + Since
    BY <1>2 DEF NotLate
  <2>4. \/ m + Since + 1 <= idle + Second
        \/ m + Since + 1 + w <= idle + 2 * Second /\ timerMsTickCount < idle
    BY <1>2 DEF NotEarly
  <2> HIDE DEF m, w
  <2>5. idle + 1 <= m + Second + 0
    BY <1>2, <1>3, <1>4, <1>5, <2>2, <2>3
  <2>6. \/ m + Second + 0 + 1 <= idle + 1 + Second
        \/ m + Second + 0 + 1 + w <= idle + 1 + 2 * Second /\ timerMsTickCount' < idle + 1
    BY <1>2, <1>3, <1>4, <1>5, <1>10, <1>11, <2>2, <2>4
  <2>7. NotLate' /\ NotEarly'
    BY <1>9, <2>1, <2>5, <2>6 DEF NotLate, NotEarly, w
  <2>8. secTicker' \in 0 .. SleepTimeOut /\ idle' \in Nat
    BY <1>2, <1>3, <1>9, <2>1
  <2> QED
    BY <1>1, <1>10, <2>1, <2>7, <2>8 DEF Timed
<1>13. CASE ticks % Second # 0
  <2>1. secTicker' = secTicker /\ Since' = Since + 1
    BY <1>1, <1>2, <1>7, <1>8, <1>10, <1>13
  <2>2. idle <= m + Since
    BY <1>2 DEF NotLate
  <2>3. \/ m + Since + 1 <= idle + Second
        \/ m + Since + 1 + w <= idle + 2 * Second /\ timerMsTickCount < idle
    BY <1>2 DEF NotEarly
  <2> HIDE DEF m, w
  <2>4. idle + 1 <= m + (Since + 1)
    BY <1>2, <1>4, <1>5, <2>2
  <2>5. \/ m + (Since + 1) + 1 <= idle + 1 + Second
        \/ m + (Since + 1) + 1 + w <= idle + 1 + 2 * Second /\ timerMsTickCount' < idle + 1
    BY <1>2, <1>3, <1>4, <1>5, <1>10, <2>3
  <2>6. NotLate' /\ NotEarly'
    BY <1>9, <2>1, <2>4, <2>5 DEF NotLate, NotEarly, m, w
  <2>7. secTicker' \in 0 .. SleepTimeOut - 1 /\ idle' \in Nat
    BY <1>2, <1>3, <1>9, <2>1
  <2>8. secTicker' # SleepTimeOut /\ secTicker' \in 0 .. SleepTimeOut
    BY <1>3, <2>7
  <2> QED
    BY <1>1, <1>10, <2>6, <2>7, <2>8 DEF Timed
<1> QED
  BY <1>12, <1>13

LEMMA ServiceTimed ==
  ASSUME Timed, Service
  PROVE  Timed'
<1>1. /\ pc' = "test" /\ timerMsTickCount' = timerMsTickCount /\ Since' = Since
      /\ SleepEvent
  BY DEF Service, tickVars, Since
<1>2. Second \in Nat \ {0} /\ SleepTimeOut \in Nat \ {0}
  BY Sizes
<1>3. timerMsTickCount \in Nat /\ Since \in 0 .. Second - 1
  BY <1>2, Division, Sizes DEF Since, Timed
<1>4. CASE secTicker' = 0 /\ idle' = 0
  <2>1. secTicker' * Second = 0
    BY <1>2, <1>4
  <2>2. NotLate' /\ NotEarly'
    BY <1>1, <1>2, <1>3, <1>4, <2>1 DEF NotLate, NotEarly
  <2> QED
    BY <1>1, <1>2, <1>4, <2>2 DEF Timed
<1>5. CASE secTicker' = secTicker /\ idle' = idle /\ secTicker < SleepTimeOut
  <2>1. NotLate' /\ NotEarly'
    BY <1>1, <1>5 DEF Timed, NotLate, NotEarly
  <2> QED
    BY <1>1, <1>2, <1>5, <2>1 DEF Timed
<1>6. PICK seconds : /\ seconds = IF buttonPress' THEN 0 ELSE secTicker
                     /\ gotoSleep' = (seconds >= SleepTimeOut)
                     /\ secTicker' = IF gotoSleep' THEN 0 ELSE seconds
                     /\ idle' = IF gotoSleep' \/ buttonPress' THEN 0 ELSE idle
  BY <1>1 DEF SleepEvent
<1>7. CASE gotoSleep' \/ buttonPress'
  BY <1>4, <1>6, <1>7
<1>8. CASE ~gotoSleep' /\ ~buttonPress'
  <2>1. secTicker' = secTicker /\ idle' = idle /\ ~(secTicker >= SleepTimeOut)
    BY <1>6, <1>8
  <2> QED
    BY <1>2, <1>5, <2>1 DEF Timed
<1> QED
  BY <1>7, <1>8

LEMMA OtherTimed ==
  ASSUME Timed, UNCHANGED <<timerMsTickCount, secTicker, idle>>,
         secTicker = SleepTimeOut => pc' = pc,
         pc' = "handle" => appTimer' \subseteq {"mSecTick"}
  PROVE  Timed'
<1>1. Since' = Since
  BY DEF Since
<1> QED
  BY <1>1 DEF Timed, NotLate, NotEarly

LEMMA TimedHolds == Spec => []Timed
<1>1. Init => Timed
  <2> SUFFICES ASSUME Init PROVE Timed
    OBVIOUS
  <2>1. 0 % Second = 0 /\ 0 * Second = 0
    BY Sizes
  <2>2. Since = 0 /\ secTicker = 0 /\ idle = 0 /\ timerMsTickCount = 0 /\ pc = "test"
    BY <2>1 DEF Init, Since
  <2> QED
    BY <2>1, <2>2, Sizes DEF Timed, NotLate, NotEarly
<1>2. Timed /\ [Next]_vars => Timed'
  <2> SUFFICES ASSUME Timed, [Next]_vars PROVE Timed'
    OBVIOUS
  <2>1. CASE TMRapp_Tick
    BY <2>1, OtherTimed DEF TMRapp_Tick, idleVars, Timed
  <2>2. CASE Touch
    BY <2>2, OtherTimed DEF Touch, idleVars, tickVars, Timed
  <2>3. CASE TestTick
    BY <2>3, OtherTimed DEF TestTick, idleVars, tickVars, Timed
  <2>4. CASE TMRapp_ClearBitFlags
    BY <2>4, OtherTimed DEF TMRapp_ClearBitFlags, Cleared, idleVars, Timed
  <2>5. CASE TMRapp_Handler
    BY <2>5, HandlerTimed
  <2>6. CASE Service
    BY <2>6, ServiceTimed
  <2>7. CASE UNCHANGED vars
    BY <2>7, OtherTimed DEF vars, idleVars, tickVars, Timed
  <2> QED
    BY <2>1, <2>2, <2>3, <2>4, <2>5, <2>6, <2>7 DEF Next, moteHandler
<1> QED
  BY <1>1, <1>2, PTL DEF Spec

\* The menu times out neither early nor late by more than its first second and the
\* one that the wrap of the count of ticks cuts short, however many ticks are lost.
\* (TMRapp.c:25-36, MOTEapp.c:202-257)
THEOREM TimesOut == Spec => SleepOnTime
<1> DEFINE InTime ==
      Served /\ gotoSleep' =>
        idle \in ((SleepTimeOut - 2) * Second + (Word % Second) + 1)..(SleepTimeOut * Second)
<1>1. Timed /\ [Next]_vars => [InTime]_vars
  <2> SUFFICES ASSUME Timed, Next, Served, gotoSleep' PROVE InTime
    BY DEF Served, vars
  <2>1. SleepEvent
    BY DEF Served, Next, TMRapp_Tick, Touch, moteHandler, TestTick, TMRapp_ClearBitFlags,
           TMRapp_Handler, Service
  <2>2. secTicker = SleepTimeOut
    <3>1. PICK seconds : /\ seconds = IF buttonPress' THEN 0 ELSE secTicker
                         /\ gotoSleep' = (seconds >= SleepTimeOut)
      BY <2>1 DEF SleepEvent
    <3>2. seconds >= SleepTimeOut
      BY <3>1
    <3> QED
      BY <3>1, <3>2, Sizes DEF Timed
  <2> DEFINE m == SleepTimeOut * Second
             w == Word % Second
  <2>3. /\ Since = 0 /\ idle \in Nat /\ idle <= m + 0
        /\ \/ m + 0 + 1 <= idle + Second
           \/ m + 0 + 1 + w <= idle + 2 * Second
    BY <2>2 DEF Timed, NotLate, NotEarly
  <2>4. /\ Second \in Nat \ {0} /\ m \in Nat /\ w \in 0 .. Second - 1
        /\ (SleepTimeOut - 2) * Second = m - 2 * Second
    <3>1. Second \in Nat \ {0} /\ SleepTimeOut \in Nat \ {0} /\ Word \in Nat
      BY Sizes
    <3>2. m \in Nat /\ w \in 0 .. Second - 1
      BY <3>1, Product, Division
    <3> QED
      BY <3>1, <3>2
  <2> HIDE DEF m, w
  <2>5. (m - 2 * Second) + w + 1 <= idle /\ idle <= m
    BY <2>3, <2>4
  <2>6. idle \in ((m - 2 * Second) + w + 1) .. m
    BY <2>3, <2>4, <2>5
  <2> QED
    BY <2>4, <2>6 DEF m, w
<1> QED
  BY <1>1, TimedHolds, PTL DEF Spec, SleepOnTime

=============================================================================
