SPECIFICATION Spec
CONSTANTS
  f1 = f1
  f2 = f2
  Names = {f1, f2}
  CommandLines <- NoneOrTwo
  Locking = TRUE
  Multibuffer = TRUE
  SavesAs = TRUE
  OpensTwice = FALSE
  MaxBuffers = 3
INVARIANTS TypeOK NothingLost LocksReleased LocksHeld
PROPERTY BuffersFormARing
CHECK_DEADLOCK FALSE
