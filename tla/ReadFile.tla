-------------------------------- MODULE ReadFile --------------------------------
(***************************************************************************)
(* How files become text and text becomes files (files.cpp: open_buffer,   *)
(* open_file, read_file, read_line, do_insertfile and the line ends that   *)
(* write_file writes; text.cpp: execute_command, undo and redo of INSERT). *)
(*                                                                         *)
(* A file is a sequence of characters in which "r" and "n" are \r and \n.  *)
(* Nulls are ordinary characters here: sunder and unsunder exchange them   *)
(* with the newlines that a line cannot hold, both ways the same.          *)
(***************************************************************************)
EXTENDS TextBuffer

CONSTANTS
  Files,        \* what is in the files that are opened
  Inserts,      \* what is in the files, and in the output of the commands, inserted
  FlagSets,     \* the sets of flags pinot may be started with
  Avoided,      \* what is not inserted, of
                \*   "nothing": an empty file, a command without output, or a lone \r
                \*   "unended": what has no newline at its end, under NO_NEWLINES
                \*   "with mark": anything while the mark is set
  MaxInserts    \* bound

ASSUME ReadFileAssumption ==
  /\ Files \subseteq Seq(STRING) /\ Inserts \subseteq Seq(STRING)
  /\ \A fs \in FlagSets : fs \subseteq {"NO_CONVERT", "NO_NEWLINES"}
  /\ Avoided \subseteq {"nothing", "unended", "with mark"}
  /\ MaxInserts \in Nat

VARIABLES
  flags,
  pc,        \* "main", "read" while read_file runs, or "crashed"
  opening,   \* whether what is read is a new buffer
  in,        \* what getc has not returned yet
  buf,       \* read_file's buffer: the line so far
  got,       \* the lines that read_line has made
  format,    \* read_file's format: 0 = *nix, 1 = DOS, 2 = Mac, 3 = both
  text, cur, mark, fmt, totsize, modified,  \* fields of openfile
  item,      \* the undo item of the last insertion
  undone,    \* whether it has been undone
  inserts,   \* how many insertions there were
  disk,      \* what the last write put in the file
  input,     \* history: what was read last
  before,    \* history: the text, cursor and mark before the last insertion
  after      \* history: the text after it

reader == <<opening, in, buf, got, format, input>>
buffer == <<text, cur, mark, fmt, totsize, modified>>
undos  == <<item, undone, inserts, before, after>>
vars   == <<flags, pc, reader, buffer, undos, disk>>

NoMark == <<>>
NoItem == <<>>
Unwritten == <<"unwritten">>
Converts   == "NO_CONVERT" \notin flags
Magiclines == "NO_NEWLINES" \notin flags

LastOf(s)   == s[Len(s)]
EndsInReturn(s) == s # <<>> /\ LastOf(s) = "r"
WithMagicline(lines) ==
    IF Magiclines /\ LastOf(lines) # <<>> THEN Append(lines, <<>>) ELSE lines

Position(lines, p) == p \in PositionsOf(lines)

\* The types; the cursor is in the text, the text ends in a magicline, and totsize,
\* which read_file and the cuts and pastes of undo add to and subtract from, is its size.
TypeOK ==
    /\ pc \in {"main", "read", "crashed"}
    /\ format \in 0..3 /\ fmt \in {"NIX", "DOS", "MAC"}
    /\ Position(text, cur)
    /\ pc = "main" /\ Magiclines => LastOf(text) = <<>>
    /\ pc = "main" => totsize = TotSize(text)

Init ==
    /\ flags \in FlagSets
    /\ pc = "main" /\ opening = FALSE
    /\ in = <<>> /\ buf = <<>> /\ got = <<>> /\ format = 0 /\ input = <<>>
    /\ text = << <<>> >> /\ cur = <<1, 0>> /\ mark = NoMark /\ fmt = "NIX"
    /\ totsize = 0 /\ modified = FALSE
    /\ item = NoItem /\ undone = FALSE /\ inserts = 0
    /\ before = <<>> /\ after = <<>>
    /\ disk = Unwritten

-----------------------------------------------------------------------------
(* What is read, and into what.                                            *)

StartReading(file, new) ==
    /\ pc' = "read"
    /\ opening' = new
    /\ in' = file /\ input' = file
    /\ buf' = <<>> /\ got' = <<>> /\ format' = 0

\* open_buffer of a new buffer.
OpenBuffer(file) ==
    /\ pc = "main" /\ inserts = 0 /\ input = <<>> /\ disk = Unwritten
    /\ StartReading(file, TRUE)
    /\ UNCHANGED <<flags, buffer, undos, disk>>

\* do_insertfile partitions the text at the cursor and reads a file, or what a
\* command writes; add_undo(INSERT) records the cursor.
InsertFile(file) ==
    /\ pc = "main" /\ inserts < MaxInserts
    /\ "nothing" \in Avoided => file # <<>> /\ (Converts => file # <<"r">>)
    /\ "unended" \in Avoided /\ ~Magiclines => file # <<>> /\ LastOf(file) = "n"
    /\ "with mark" \in Avoided => mark = NoMark
    /\ StartReading(file, FALSE)
    /\ item' = [lineno |-> cur[1], begin |-> cur[2], mlineno |-> cur[1], cut |-> <<>>]
    /\ undone' = FALSE /\ inserts' = inserts + 1
    /\ before' = [text |-> text, cur |-> cur, mark |-> mark]
    /\ UNCHANGED <<flags, buffer, disk, after>>

\* open_file finds no file, a directory, or one it may not read: nothing is read,
\* no undo item is made, and the buffer is modified.
CannotInsert ==
    /\ pc = "main" /\ ~modified
    /\ modified' = TRUE
    /\ UNCHANGED <<flags, pc, reader, text, cur, mark, fmt, totsize, undos, disk>>

-----------------------------------------------------------------------------
(* read_file: one action for each way a character goes.                    *)

\* read_line strips a \r from the end of a line, whatever format is.
ReadLine(line) ==
    IF Converts /\ EndsInReturn(line) THEN SubSeq(line, 1, Len(line) - 1) ELSE line

\* On the first line the format is guessed; later it may only be found mixed.
MayConvert == Converts /\ (got = <<>> \/ format # 0) /\ EndsInReturn(buf)

GetNewline ==
    /\ pc = "read" /\ in # <<>> /\ Head(in) = "n"
    /\ format' = IF MayConvert /\ format \in {0, 2} THEN format + 1 ELSE format
    /\ got' = Append(got, ReadLine(buf))
    /\ buf' = <<>> /\ in' = Tail(in)
    /\ UNCHANGED <<flags, pc, opening, input, buffer, undos, disk>>

GetAfterReturnSlip ==   \* the character after the \r is lost
    /\ pc = "read" /\ in # <<>> /\ Head(in) # "n" /\ MayConvert
    /\ format' = IF format \in {0, 1} THEN format + 2 ELSE format
    /\ got' = Append(got, ReadLine(buf))
    /\ buf' = <<>> /\ in' = Tail(in)
    /\ UNCHANGED <<flags, pc, opening, input, buffer, undos, disk>>

\* A character after a \r: the line ended with the \r.
GetAfterReturn ==
    /\ pc = "read" /\ in # <<>> /\ Head(in) # "n" /\ MayConvert
    /\ format' = IF format \in {0, 1} THEN format + 2 ELSE format
    /\ got' = Append(got, ReadLine(buf))
    /\ buf' = <<Head(in)>> /\ in' = Tail(in)
    /\ UNCHANGED <<flags, pc, opening, input, buffer, undos, disk>>

GetChar ==
    /\ pc = "read" /\ in # <<>> /\ Head(in) # "n" /\ ~MayConvert
    /\ buf' = Append(buf, Head(in)) /\ in' = Tail(in)
    /\ UNCHANGED <<flags, pc, opening, input, got, format, buffer, undos, disk>>

\* The format with what is left in buf taken into account, and the lines: the
\* last is tacked onto the line of the cursor, which is empty.
LastFormat == IF Converts /\ EndsInReturn(buf) /\ format \in {0, 1} THEN format + 2 ELSE format
LinesRead  == Append(got, ReadLine(buf))

NewFmt(f) == IF f = 2 THEN "MAC" ELSE IF f = 1 THEN "DOS" ELSE fmt

\* The text of a new buffer; open_buffer puts the cursor at its beginning.
EndOpening ==
    /\ pc = "read" /\ in = <<>> /\ opening
    /\ text' = WithMagicline(LinesRead)
    /\ totsize' = TotSize(text') /\ cur' = <<1, 0>>
    /\ fmt' = NewFmt(LastFormat)
    /\ pc' = "main" /\ format' = LastFormat
    /\ UNCHANGED <<flags, opening, in, buf, got, input, mark, modified, undos, disk>>

\* Where do_insertfile puts the mark.  Its node stays with the cursor's line, to
\* whose beginning the new lines were added.
MovedMark(piece, x) ==
    LET back   == Before(mark, cur)      \* right_side_up
        single == mark[1] = cur[1]
        line   == cur[1] + Len(piece) - 1
        node   == IF mark[1] < cur[1] THEN mark[1] ELSE mark[1] + Len(piece) - 1
    IN  IF mark = NoMark THEN NoMark
        ELSE IF Len(piece) = 1
             THEN <<line, IF back THEN mark[2] ELSE mark[2] + x>>
        ELSE IF back THEN <<node, mark[2]>>
        ELSE IF single THEN <<line, mark[2] - cur[2]>>
        ELSE <<node, mark[2] - x>>

AddedSizeSlip(piece) ==   \* the magicline is counted twice
    TotSize(piece) + Len(piece) - Len(LinesRead)

\* get_totsize of the partition, and one for the magicline.
AddedSize(piece) == TotSize(LinesRead) + Len(piece) - Len(LinesRead)

\* The partition is numbered from 1, so that update_undo(INSERT) records how many
\* lines it has; without any, it is not numbered again.
EndInsertion ==
    /\ pc = "read" /\ in = <<>> /\ ~opening
    /\ LET piece == WithMagicline(LinesRead)
           x     == Len(LastOf(piece))
       IN  /\ text' = With(text, cur, piece)
           /\ totsize' = totsize + AddedSize(piece)
           /\ cur' = EndOf(cur, piece)
           /\ mark' = MovedMark(piece, x)
           /\ item' = [item EXCEPT !.mlineno = IF input = <<>> THEN @ ELSE Len(piece)]
    /\ fmt' = NewFmt(LastFormat) /\ modified' = TRUE
    /\ pc' = "main" /\ format' = LastFormat /\ after' = text'
    /\ UNCHANGED <<flags, opening, in, buf, got, input, undone, inserts, before, disk>>

-----------------------------------------------------------------------------
(* The cursor, the mark, undo and redo, and writing.                       *)

GotoLinePosX(p) ==
    /\ pc = "main" /\ inserts < MaxInserts
    /\ cur' = p
    /\ UNCHANGED <<flags, pc, reader, text, mark, fmt, totsize, modified, undos, disk>>

DoMark ==
    /\ pc = "main" /\ inserts < MaxInserts /\ mark = NoMark
    /\ mark' = cur
    /\ UNCHANGED <<flags, pc, reader, text, cur, fmt, totsize, modified, undos, disk>>

Cut(p, q) ==
    LET left == WithMagicline(Without(text, p, q))
    IN  /\ text' = left
        /\ totsize' = totsize - TotSize(Region(text, p, q))
                      + Len(left) - Len(Without(text, p, q))
        /\ cur' = p
        /\ item' = [item EXCEPT !.cut = IF p = q THEN <<>> ELSE Region(text, p, q)]

UndoInsertSlip ==   \* the region ends at the line whose number was recorded
    /\ pc = "main" /\ item # NoItem /\ ~undone
    /\ LET p == <<item.lineno, item.begin>>
           q == <<item.mlineno, 0>>
       IN  /\ q[1] <= Len(text)
           /\ IF Before(p, q) THEN Cut(p, q) ELSE Cut(q, p)
           /\ mark' = NoMark /\ undone' = TRUE /\ modified' = TRUE
    /\ UNCHANGED <<flags, pc, reader, fmt, inserts, before, after, disk>>

\* do_undo cuts from where the insertion began to column 0 of its last line; there
\* may be no such line.
UndoInsert ==
    /\ pc = "main" /\ item # NoItem /\ ~undone
    /\ LET p == <<item.lineno, item.begin>>
           q == <<item.lineno + item.mlineno - 1, 0>>
       IN  IF q[1] > Len(text)
           THEN pc' = "crashed" /\ UNCHANGED <<text, totsize, cur, item, mark, undone, modified>>
           ELSE /\ IF Before(p, q) THEN Cut(p, q) ELSE Cut(q, p)
                /\ mark' = NoMark /\ undone' = TRUE /\ modified' = TRUE
                /\ UNCHANGED pc
    /\ UNCHANGED <<flags, reader, fmt, inserts, before, after, disk>>

\* do_redo: copy_from_filestruct, of NULL when nothing was cut.
RedoInsert ==
    /\ pc = "main" /\ undone
    /\ IF item.cut = <<>>
       THEN pc' = "crashed" /\ UNCHANGED <<text, totsize, cur, item>>
       ELSE LET p    == <<item.lineno, item.begin>>
                made == With(text, p, item.cut)
                grown == WithMagicline(made)
            IN  /\ text' = grown
                /\ totsize' = totsize + TotSize(item.cut) + Len(grown) - Len(made)
                /\ cur' = EndOf(p, item.cut)
                /\ item' = [item EXCEPT !.cut = <<>>]
                /\ UNCHANGED pc
    /\ undone' = FALSE /\ modified' = TRUE
    /\ UNCHANGED <<flags, reader, mark, fmt, inserts, before, after, disk>>

\* What ends a line in a file of format f.
LineEnd(f) == IF f = "NIX" THEN <<"n">> ELSE IF f = "DOS" THEN <<"r", "n">> ELSE <<"r">>

WriteSlip(lines, f) ==   \* \r\n for Mac files, too
    LET end == IF f = "NIX" THEN <<"n">> ELSE <<"r", "n">>
        w[n \in 1..Len(lines)] ==
          IF n = 1 THEN lines[1] ELSE w[n - 1] \o end \o lines[n]
    IN  w[Len(lines)]

\* What write_file writes of the lines: no end after the last.
Write(lines, f) ==
    LET w[n \in 1..Len(lines)] ==
          IF n = 1 THEN lines[1] ELSE w[n - 1] \o LineEnd(f) \o lines[n]
    IN  w[Len(lines)]

WriteFile ==
    /\ pc = "main"
    /\ disk' = Write(text, fmt)
    /\ modified' = FALSE
    /\ UNCHANGED <<flags, pc, reader, text, cur, mark, fmt, totsize, undos>>

-----------------------------------------------------------------------------
ReadStep == GetNewline \/ GetAfterReturn \/ GetChar \/ EndOpening \/ EndInsertion

Next ==
    \/ \E f \in Files : OpenBuffer(f)
    \/ \E f \in Inserts : InsertFile(f)
    \/ CannotInsert
    \/ ReadStep
    \/ \E p \in PositionsOf(text) : GotoLinePosX(p)
    \/ DoMark \/ UndoInsert \/ RedoInsert \/ WriteFile

Spec == Init /\ [][Next]_vars

-----------------------------------------------------------------------------
(* Properties.                                                             *)

\* The characters of a text, or of a file, that are not line ends.
Plain(s) ==
    LET plain[n \in 0..Len(s)] ==
          IF n = 0 THEN <<>>
          ELSE IF s[n] \in {"r", "n"} THEN plain[n - 1] ELSE Append(plain[n - 1], s[n])
    IN  plain[Len(s)]
Chars(lines) == Plain(Write(lines, "NIX"))

\* A file whose lines all end the same way: every \r is followed by \n, or none.
Uniform(f) ==
    LET endsIn(i, c) == i \in 1..Len(f) /\ f[i] = c
    IN  \/ \A i \in 1..Len(f) : f[i] # "r"
        \/ \A i \in 0..Len(f) : endsIn(i, "r") <=> endsIn(i + 1, "n")
        \/ \A i \in 1..Len(f) : f[i] # "n"

\* A file whose lines all end in one way, or any file under NO_CONVERT, is written
\* as it was read once its last line ends, but for a Mac file that ends in an
\* empty line, and any Mac file under NO_NEWLINES (read_file, write_file).
Ended(f) ==
    LastOf(f) = "n" \/ Magiclines = (Converts /\ LastOf(f) = "r")
RoundTrip ==
    /\ pc = "main" /\ inserts = 0 /\ input # <<>>
    /\ Uniform(input) \/ ~Converts
    /\ Ended(input)
    => \/ Write(text, fmt) = input
       \/ fmt = "MAC" /\ (Len(input) = 1 \/ input[Len(input) - 1] = "r")

\* What is inserted lies between what was before the cursor and what was behind
\* it, nothing of it is lost, and the cursor is at its end (do_insertfile).
InsertedInPlace ==
    pc = "main" /\ after # <<>> /\ text = after
        /\ cur = EndOf(before.cur, WithMagicline(LinesRead)) =>
        /\ Chars(TextBefore(text, cur)) = Chars(TextBefore(before.text, before.cur)) \o Plain(input)
        /\ TextFrom(text, cur) = TextFrom(before.text, before.cur)

\* Undoing an insertion gives back the text before it, redoing it the text after,
\* and neither crashes (do_undo, do_redo).
UndoRestores ==
    item # NoItem /\ pc # "read" =>
        pc = "main" /\ text = IF undone THEN before.text ELSE after
================================================================================
