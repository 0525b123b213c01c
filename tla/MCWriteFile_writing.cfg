SPECIFICATION FairSpec
CONSTANTS
  FlagSets <- AllFlags
  Failures <- AllFailures
  Signals = {"HUP", "WINCH"}
  Shielded <- WindowsOfMark
  Avoided <- AllHabits
  MaxVersion = 1
  MaxTime = 2
  MaxTroubles = 1
INVARIANTS TypeOK OldOrNew HangupSaves
PROPERTIES ClearedWhenSaved AskedFirst WritesEnd
CHECK_DEADLOCK FALSE
