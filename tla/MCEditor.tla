------------------------------- MODULE MCEditor -------------------------------
(***************************************************************************)
(* The editor for TLC: the texts a file is opened with, and the sessions   *)
(* the runs are made of, each with its commands and the habits it is free  *)
(* of.                                                                     *)
(***************************************************************************)
EXTENDS Editor

MCTexts   == {<< <<>> >>, << <<"a">>, <<>> >>, << <<"a">>, <<"a">>, <<>> >>}
MCTextsWrap == {<< <<" ", "a">> >>}
MCTextsTwo == {<< <<>> >>, << <<"a">>, <<>> >>, << <<"a">>, <<"b">>, <<>> >>}
MCTextsNN == {<< <<>> >>, << <<"a">> >>, << <<"a">>, <<"a">> >>}

\* Every command but undo, redo and the indenting; and the indenting of lines that are typed
\* and marked.
Editing   == {AllCommands \ {"tab", "indent", "unindent", "undo", "redo"},
              {"type", "tab", "mark", "goto", "indent", "unindent"}}
\* Every command but copying, the two that "goto" stands in for, the tab, which is typed,
\* and the indenting that cannot be undone.
Undoing   == {AllCommands \ {"copy", "left", "right", "tab", "indent", "unindent"}}
\* Typing, with lines that wrap.
Wrapping  == {{"type", "tab", "goto", "undo", "redo"}}
\* Cuts of whole lines, with typing and breaking lines; and cuts of whole lines and of marked
\* text, with deleting and joining or with breaking lines.
Lines     == {{"goto", "cut", "undo", "redo"} \cup other :
                other \in {{"type", "enter"}, {"delete", "mark"}, {"enter", "mark"}}}

\* The habits that sessions are free of.
Careful   == AllHabits
===============================================================================
