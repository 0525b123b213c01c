SPECIFICATION Spec
CONSTANTS
  Chars = {"a"}
  Blanks = {" "}
  Fill = 0
  NoNewlines = FALSE
  CutToEnd = FALSE
  InitialTexts <- MCTexts
  CountSize = TRUE
  Sessions <- Editing
  Avoided <- Careful
  MaxSize = 4
  MaxUndo = 2
INVARIANTS TypeOK KeepsRunning MarkInText TotSizeIsSize
