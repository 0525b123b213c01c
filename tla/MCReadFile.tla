------------------------------- MODULE MCReadFile -------------------------------
(***************************************************************************)
(* ReadFile for TLC: every file of up to five characters of three kinds.   *)
(***************************************************************************)
EXTENDS ReadFile, SequencesExt

ShortFiles == BoundedSeq({"a", "r", "n"}, 5)
FewInserts == BoundedSeq({"a", "n"}, 3)
              \cup {<<"a", "r", "n">>, <<"a", "r", "a">>, <<"r">>, <<"r", "r">>, <<"r", "n">>}
SomeFlags  == {{}, {"NO_CONVERT"}, {"NO_NEWLINES"}}
AllHabits  == {"nothing", "unended", "with mark"}
=================================================================================
