----------------------------- MODULE SearchHistory -----------------------------
(***************************************************************************)
(* A list of what was searched for, or replaced with (History.cpp): the    *)
(* newest entry first, the place that Up and Down have walked to, and the  *)
(* place where completion looks first.  Both places count from 0, as in    *)
(* the code; so entry i is lines[i + 1].                                   *)
(***************************************************************************)
EXTENDS Integers, Sequences, FiniteSets

CONSTANT MaxHistory   \* MAX_SEARCH_HISTORY

ASSUME HistoryAssumption == MaxHistory \in Nat \ {0}

Loaded(lines) == [lines |-> lines, position |-> 0, marker |-> 0, changed |-> FALSE]

Size(h)     == Len(h.lines)
AtNewest(h) == h.position = 0
Entry(h, i) == h.lines[i + 1]

Least(S) == CHOOSE i \in S : \A j \in S : i <= j

\* The first entry that is e is erased.
WithoutEntry(lines, e) ==
    LET places == {i \in 1..Len(lines) : lines[i] = e}
        i == Least(places)
    IN  IF places = {} THEN lines
        ELSE SubSeq(lines, 1, i - 1) \o SubSeq(lines, i + 1, Len(lines))

\* History::add.
AddSlip(h, e) ==   \* an entry that only comes to the front changes nothing
    LET others == WithoutEntry(h.lines, e)
        kept   == IF Len(others) + 1 > MaxHistory THEN Len(others) - 1 ELSE Len(others)
    IN  [h EXCEPT !.lines = <<e>> \o SubSeq(others, 1, kept),
                  !.changed = @ \/ others = h.lines]

Add(h, e) ==
    LET others == WithoutEntry(h.lines, e)
        kept   == IF Len(others) + 1 > MaxHistory THEN Len(others) - 1 ELSE Len(others)
    IN  [h EXCEPT !.lines = <<e>> \o SubSeq(others, 1, kept), !.changed = TRUE]

\* History::find: the entries, from the marker around, whose first len characters are s.
Hits(h, s, len) ==
    {i \in 0..Size(h) - 1 :
       SubSeq(Entry(h, i), 1, IF len < Len(Entry(h, i)) THEN len ELSE Len(Entry(h, i))) = s}
Found(h, s, len) ==
    LET hits == Hits(h, s, len)  ahead == {i \in hits : i >= h.marker}
    IN  Least(IF ahead # {} THEN ahead ELSE hits)

\* History::older reads the entry after the place, even when that is the oldest one's.
NoOlder(h)  == h.position = Size(h)
OlderEnds(h) == ~NoOlder(h) /\ h.position + 1 = Size(h)
================================================================================
