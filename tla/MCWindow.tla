-------------------------------- MODULE MCWindow --------------------------------
(***************************************************************************)
(* Window for TLC: a text longer than the window, with a line of several   *)
(* pages, words of one and more letters, and blank and indented lines.     *)
(***************************************************************************)
EXTENDS Window

SomeText == <<<<"a", " ", "a">>,
              <<" ", "a">>,
              <<"a", "a", ".", "a", " ", " ", "a", "a", "a", "a", "a", "a">>,
              <<>>,
              <<" ", " ">>,
              <<"a">>,
              <<" ", "a", ".">>,
              <<>>>>
SomeFlags == {{}, {"SMOOTH_SCROLL", "SMART_HOME", "WORD_BOUNDS"}}
=================================================================================
