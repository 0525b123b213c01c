SPECIFICATION Spec
CONSTANTS
  Files <- ShortFiles
  Inserts <- FewInserts
  FlagSets <- SomeFlags
  Avoided <- AllHabits
  MaxInserts = 1
INVARIANTS TypeOK RoundTrip InsertedInPlace UndoRestores
CHECK_DEADLOCK FALSE
