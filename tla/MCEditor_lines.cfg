SPECIFICATION Spec
CONSTANTS
  Chars = {"a", "b"}
  Blanks = {}
  Fill = 0
  NoNewlines = FALSE
  CutToEnd = FALSE
  InitialTexts <- MCTextsTwo
  CountSize = FALSE
  Sessions <- Lines
  Avoided <- Careful
  MaxSize = 4
  MaxUndo = 2
INVARIANTS ThereAndBack
