SPECIFICATION HistorySpec
CONSTANTS
  Chars = {"a", "b"}
  Blanks = {}
  Fill = 0
  NoNewlines = TRUE
  CutToEnd = TRUE
  InitialTexts <- MCTextsNN
  CountSize = FALSE
  Sessions <- Undoing
  Avoided <- Careful
  MaxSize = 3
  MaxUndo = 2
INVARIANTS KeepsRunning
PROPERTIES UndoHistory
