------------------------------ MODULE MCWriteFile ------------------------------
(***************************************************************************)
(* WriteFile for TLC.                                                      *)
(***************************************************************************)
EXTENDS WriteFile

AllFlags      == {{"BACKUP_FILE"}, {"TEMP_FILE", "NOFOLLOW_SYMLINKS"}}
AllFailures   == {"open", "write", "close", "unlink", "chmod", "utime", "temp", "rest"}
AllHabits     == {"same second", "own selection", "retry", "unknown"}
WindowsOfMark == {"filepart", "unmagic", "unpartition", "unfilepart", "remodify"}
===============================================================================
