------------------------------ MODULE BufferRing ------------------------------
(***************************************************************************)
(* What the list of open files promises its user: the buffers lie on a     *)
(* ring, of which the user sees one; opening puts a buffer after that one  *)
(* and moves to it, closing takes it out and moves on to the next, and the *)
(* order of all others never changes.                                      *)
(***************************************************************************)
EXTENDS Sequences, SequencesExt

CONSTANT Buffer   \* the identities of buffers

VARIABLE ring     \* the buffers from the current one on

Forward(r)  == Append(Tail(r), Head(r))
Backward(r) == <<Last(r)>> \o Front(r)

Init == ring = <<>>

\* The buffer that was current is now the one before the new buffer.
Open ==
    \E b \in Buffer :
        /\ \A i \in DOMAIN ring : ring[i] # b
        /\ ring' = <<b>> \o (IF ring = <<>> THEN <<>> ELSE Forward(ring))

Next     == ring # <<>> /\ ring' = Forward(ring)
Previous == ring # <<>> /\ ring' = Backward(ring)
Close    == Len(ring) > 1 /\ ring' = Tail(ring)

Spec == Init /\ [][Open \/ Next \/ Previous \/ Close]_ring
===============================================================================
