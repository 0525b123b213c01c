----------------------------- MODULE TextHistory -----------------------------
(***************************************************************************)
(* What a user is promised of undo and redo ("Undo the last operation",    *)
(* "Redo the last undone operation" in the help texts): the texts before   *)
(* and after the present one form a history one can walk in both           *)
(* directions, an edit starts a new future, and nothing else than walking  *)
(* or editing changes it.                                                  *)
(***************************************************************************)
EXTENDS Sequences, Integers

VARIABLES past,    \* the texts undoing goes back to, oldest first
          now,     \* the text
          future   \* the texts redoing goes forward to, nearest first

vars == <<past, now, future>>

Init == past = <<>> /\ future = <<>>

\* An edit either begins a new operation or goes on with the last one, whose
\* beginning stays where it was.
Edit ==
    /\ future' = <<>>
    /\ \/ past' = Append(past, now)
       \/ past # <<>> /\ past' = past

Undo ==
    /\ past # <<>>
    /\ now' = past[Len(past)]
    /\ past' = SubSeq(past, 1, Len(past) - 1)
    /\ future' = <<now>> \o future

Redo ==
    /\ future # <<>>
    /\ now' = future[1]
    /\ future' = Tail(future)
    /\ past' = Append(past, now)

Next == Edit \/ Undo \/ Redo

Spec == Init /\ [][Next]_vars
===============================================================================
