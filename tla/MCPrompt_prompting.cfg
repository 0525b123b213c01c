SPECIFICATION Spec
CONSTANTS
  MaxHistory = 3
  Letters = {"a"}
  Blank = " "
  Slash = "/"
  Files <- Names
  Dirs <- OneDir
  FlagSets <- SomeFlags
  Histories <- Loads
  Avoided <- AllHabits
  Room = 4
  MaxAnswer = 3
  MaxPrompts = 2
INVARIANTS KeepsAsking DraftKept
PROPERTIES HistoriesKept TabCompletes
CHECK_DEADLOCK FALSE
