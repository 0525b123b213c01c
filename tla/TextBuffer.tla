------------------------------ MODULE TextBuffer ------------------------------
(***************************************************************************)
(* The text of a buffer and the operations on regions of it.               *)
(*                                                                         *)
(* A line is a sequence of characters and a text a non-empty sequence of   *)
(* lines: the chain of filestruct nodes from fileage to filebot (types.h), *)
(* whose lineno is the line's index.  A position is a pair <<line, x>>,    *)
(* where x, the code's current_x or mark_begin_x, counts the characters    *)
(* before the position, so 0 is the beginning of the line.                 *)
(***************************************************************************)
EXTENDS Integers, Sequences

\* The first x characters, or as many as there are (strncpy), and the others.
Prefix(line, x) == SubSeq(line, 1, IF x < Len(line) THEN x ELSE Len(line))
Suffix(line, x) == SubSeq(line, x + 1, Len(line))

PositionsOf(lines) == UNION {{l} \X (0..Len(lines[l])) : l \in 1..Len(lines)}

\* mark_order: <<l, x>> comes strictly before <<m, y>>.
Before(p, q) == p[1] < q[1] \/ (p[1] = q[1] /\ p[2] < q[2])

\* Attach text b to the end of text a: the last line of a and the first of b
\* become one line, as unpartition_filestruct and move_to_filestruct do.
Attach(a, b) ==
    SubSeq(a, 1, Len(a) - 1) \o <<a[Len(a)] \o b[1]>> \o SubSeq(b, 2, Len(b))

\* What lies before p, and what lies from p on: the two sides of a partition.
TextBefore(lines, p) ==
    SubSeq(lines, 1, p[1] - 1) \o <<Prefix(lines[p[1]], p[2])>>
TextFrom(lines, p) ==
    <<Suffix(lines[p[1]], p[2])>> \o SubSeq(lines, p[1] + 1, Len(lines))

\* The text of the partition from p to q, what is left without it, and a text
\* with a piece spliced in at p.
Region(lines, p, q) ==
    TextFrom(TextBefore(lines, q), p)
Without(lines, p, q) ==
    Attach(TextBefore(lines, p), TextFrom(lines, q))
With(lines, p, piece) ==
    Attach(Attach(TextBefore(lines, p), piece), TextFrom(lines, p))

\* Where a piece inserted at p ends.
EndOf(p, piece) ==
    IF Len(piece) = 1
    THEN <<p[1], p[2] + Len(piece[1])>>
    ELSE <<p[1] + Len(piece) - 1, Len(piece[Len(piece)])>>

\* get_totsize: the characters of the text, one for each newline between lines.
TotSize(lines) ==
    LET size[n \in 0..Len(lines)] ==
          IF n = 0 THEN -1 ELSE size[n - 1] + Len(lines[n]) + 1
    IN  size[Len(lines)]

\* The text with line l replaced by the lines of repl.
ReplaceLine(lines, l, repl) ==
    SubSeq(lines, 1, l - 1) \o repl \o SubSeq(lines, l + 1, Len(lines))

\* The text with lines l and l + 1, if there is one, replaced by the line joined.
JoinLines(lines, l, joined) ==
    SubSeq(lines, 1, l - 1) \o <<joined>> \o SubSeq(lines, l + 2, Len(lines))
===============================================================================
