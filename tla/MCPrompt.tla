-------------------------------- MODULE MCPrompt --------------------------------
(***************************************************************************)
(* Prompt for TLC: answers and names of one letter and blanks.             *)
(***************************************************************************)
EXTENDS Prompt

\* Two names that begin alike, one of them too long for an answer's memory when it is
\* completed, and a directory that is completed beyond the answer's end.
Names      == {<<"a", "a", "a">>, <<"a", "a", " ", "a", "a">>, <<" ", "a", "a">>}
OneDir     == {<<" ", "a", "a">>}
Loads      == {<<>>, <<<<"a">>, <<"a", " ", "a">>, <<" ", "a">>>>}
SomeFlags  == {{}, {"SMART_HOME", "CUT_TO_END"}}
AllHabits  == {"middle", "tab first", "oldest", "leave up", "blank", "bottom",
               "outgrow", "bytes"}
=================================================================================
