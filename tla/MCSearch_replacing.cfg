SPECIFICATION FairSpec
CONSTANTS
  Texts <- SomeTexts
  Needles <- Words
  Replacements <- Answers
  Jobs = {"search", "replace", "spell", "bracket"}
  Ways <- BothWays
  Avoided <- AllHabits
  MaxJobs = 1
INVARIANTS TypeOK FindsRight AllReplaced UndoneTexts
PROPERTIES SearchEnds
CHECK_DEADLOCK FALSE
