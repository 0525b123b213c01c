SPECIFICATION Spec
CONSTANTS
  Text <- SomeText
  Letters = {"a"}
  Puncts = {"."}
  Blank = " "
  FlagSets <- SomeFlags
  Heights = {1, 2, 4}
  Widths = {4, 10}
  Columns = {3, 12}
INVARIANTS TypeOK ScreenShowsText WordByWord
