---------------------------- MODULE EditorHistory ----------------------------
(***************************************************************************)
(* The editor with two history variables: the text each undo item was      *)
(* recorded over, and the text each undone item led away from.  They       *)
(* follow the depth of the code's undo stack and nothing else, so that the *)
(* texts undo and redo come back to can be compared with what they are     *)
(* promised to be (TextHistory).                                           *)
(***************************************************************************)
EXTENDS Editor

VARIABLES past, future

\* How many items can be undone, and how many redone; the items of a wrap count as one.
Inside(items, i) ==
    \E e \in 1..i - 1 : /\ items[e].type = "SPLIT_END"
                        /\ \A j \in e..i - 1 : items[j].type # "SPLIT_BEGIN"
UndoDepth(s) == Cardinality({i \in s.cu..Len(s.items) : ~Inside(s.items, i)})
RedoDepth(s) == Cardinality({i \in 1..s.cu - 1 : ~Inside(s.items, i)})

HistoryInit == Init /\ past = <<>> /\ future = <<>>

HistoryNext ==
    /\ Next
    /\ past' = LET gone == UndoDepth(ed) - UndoDepth(ed')
               IN  IF gone < 0 THEN Append(past, ed.lines)
                   ELSE SubSeq(past, 1, Len(past) - gone)
    /\ future' = LET gone == RedoDepth(ed) - RedoDepth(ed')
                 IN  IF gone < 0 THEN <<ed.lines>> \o future
                     ELSE SubSeq(future, gone + 1, Len(future))

HistorySpec == HistoryInit /\ [][HistoryNext]_<<ed, past, future>>

History == INSTANCE TextHistory WITH now <- ed.lines

\* Undo takes the text back to what it was before the operation that its item
\* records, redo takes it forward again, and typing, deleting, cutting or
\* pasting starts a new future (global.cpp: "Undo the last operation", "Redo
\* the last undone operation").
UndoHistory == History!Spec
===============================================================================
