SPECIFICATION HistorySpec
CONSTANTS
  Chars = {"a", " "}
  Blanks = {" "}
  Fill = 3
  NoNewlines = TRUE
  CutToEnd = FALSE
  InitialTexts <- MCTextsWrap
  CountSize = FALSE
  Sessions <- Wrapping
  Avoided <- Careful
  MaxSize = 7
  MaxUndo = 9
PROPERTY UndoHistory
