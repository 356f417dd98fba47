CONSTANTS
  Ten = 2
  Hundred = 2
  Second = 4
  Minute = 8
  Word = 13
  Hour = 1
  HalfDay = 2
  Day = 4
  SleepTimeOut = 3
  Short = 3
  Release = 2
  TimerWord = 6
SPECIFICATION Spec
PROPERTIES SleepOnTime OnePressPerPush
