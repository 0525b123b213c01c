-------------------------------- MODULE MCSearch --------------------------------
(***************************************************************************)
(* Search for TLC: texts of up to two lines of up to three characters.     *)
(***************************************************************************)
EXTENDS Search, SequencesExt

Lines3  == BoundedSeq({"a", "b"}, 3) \cup {<<"a", " ", "a">>}
Parens  == BoundedSeq({"(", ")"}, 3)
SomeTexts == { <<l, k, <<>> >> : l \in Lines3, k \in {<<>>, <<"a">>, <<"a", "b">>} }
               \cup { <<l, k, <<>> >> : l \in Parens, k \in {<<")">>} }
Words == { [str |-> s, eol |-> FALSE] : s \in {<<"a">>, <<"a", "b">>, <<"a", "a">>} }
            \cup { [str |-> <<"b">>, eol |-> TRUE] }
Answers == {<<>>, <<"c">>, <<"c", "c">>}
AllHabits == {"repeat", "empty", "rejoin"}
BothWays == {"forward", "backward"}
=================================================================================
