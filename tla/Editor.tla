-------------------------------- MODULE Editor --------------------------------
(***************************************************************************)
(* The editing of one open file: its text, cursor and mark, the cutbuffer, *)
(* and the undo stack with the contiguity rules of add_undo and            *)
(* update_undo (text.cpp, cut.cpp, pinot.cpp).                             *)
(*                                                                         *)
(* The handlers call each other (undoing a cut pastes, redoing it cuts), so *)
(* each is an operator from editor states to editor states, and a command  *)
(* of the user is an action that applies one of them to the variable ed.   *)
(***************************************************************************)
EXTENDS TextBuffer, FiniteSets

CONSTANTS
  Chars,        \* the characters a user types
  Blanks,       \* what lines are indented with and broken after
  Fill,         \* where lines are wrapped, 0 when NO_WRAP is set
  NoNewlines,   \* the NO_NEWLINES flag: the text need not end with a magicline
  CutToEnd,     \* the CUT_TO_END flag: a cut takes the rest of the line
  InitialTexts, \* the texts a file is opened with
  CountSize,    \* whether totsize is followed: with undo it drifts without bound
  Sessions,     \* the sets of commands that sessions of the user consist of
  Avoided,      \* the habits this session of the user is free of
  MaxSize,      \* bound on the size of the text and of the cutbuffer
  MaxUndo       \* bound on the number of undo items

AllCommands == {"type", "enter", "delete", "backspace", "cut", "cuttoeof",
                "copy", "paste", "mark", "left", "right", "goto",
                "tab", "indent", "unindent", "undo", "redo"}
AllHabits   == {"type after undo", "undo with mark", "paste with mark",
                "paste again", "redo deletion", "cut nothing", "cut after copy"}

Line  == Seq(Chars \cup Blanks)
Texts == Seq(Line) \ {<<>>}

ASSUME EditorAssumption ==
  /\ NoNewlines \in BOOLEAN /\ CutToEnd \in BOOLEAN /\ CountSize \in BOOLEAN
  /\ Fill \in Nat
  /\ InitialTexts \subseteq Texts
  /\ ~NoNewlines => \A lines \in InitialTexts : lines[Len(lines)] = <<>>   \* read_file's magicline
  /\ \A session \in Sessions : session \subseteq AllCommands
  /\ Avoided \subseteq AllHabits
  /\ MaxSize \in Nat /\ MaxUndo \in Nat

VARIABLE ed

NoMark == <<>>      \* mark_set is false
NULL   == <<>>      \* an undo item's strdata, or a cutbuffer, that is NULL

Counted(n) == IF CountSize THEN n ELSE 0
CurLine(s)  == s.lines[s.cur]
Cursor(s)   == <<s.cur, s.x>>
HasUndo(s)  == s.cu <= Len(s.items)
HasRedo(s)  == s.cu > 1
CurUndo(s)  == s.items[s.cu]
Undefined(s) == [s EXCEPT !.ub = TRUE]

-----------------------------------------------------------------------------
(* Recording what is done: add_undo and update_undo.                       *)

BlankItem(s, action) ==
    [type |-> action, lineno |-> s.cur, begin |-> s.x,
     mlineno |-> s.cur, mx |-> s.x, str |-> NULL, buf |-> NULL,
     mset |-> FALSE, xflags |-> "NONE"]

\* A deletion at the end of a line is a join with the next one.
DeletionItem(s, action) ==
    LET u == [BlankItem(s, action) EXCEPT
                !.xflags = IF /\ action = "BACK"
                              /\ s.cur + 1 = Len(s.lines)
                              /\ CurLine(s) # <<>>
                           THEN "WAS_FINAL_BACKSPACE" ELSE "NONE"]
    IN  IF s.x # Len(CurLine(s))
        THEN [u EXCEPT !.str = <<SubSeq(CurLine(s), s.x + 1, s.x + 1)>>,
                       !.mx  = IF action = "BACK" THEN s.x + 1 ELSE s.x]
        ELSE [u EXCEPT !.type   = "JOIN",
                       !.str    = <<s.lines[s.cur + 1]>>,
                       !.lineno = IF action = "BACK" THEN s.cur + 1 ELSE s.cur,
                       !.begin  = IF action = "BACK" THEN 0 ELSE s.x]

CutItem(s) ==
    LET u == BlankItem(s, "CUT")
    IN  CASE s.mark # NoMark -> [u EXCEPT !.mset = TRUE, !.mlineno = s.mark[1],
                                          !.mx = s.mark[2]]
          [] s.mark = NoMark /\ ~CutToEnd -> [u EXCEPT !.begin = 0,
                                                 !.xflags = "WAS_WHOLE_LINE"]
          [] OTHER -> u

PasteItem(s) ==
    [BlankItem(s, "PASTE") EXCEPT !.buf = s.cutbuf, !.mset = TRUE,
                                  !.lineno = s.cur + Len(s.cutbuf) - 1]

NewItem(s, action) ==
    CASE action \in {"BACK", "DEL"} -> DeletionItem(s, action)
      [] action = "CUT"             -> CutItem(s)
      [] action = "PASTE"           -> PasteItem(s)
      [] OTHER                      -> BlankItem(s, action)

ContiguousSlip(s, action) ==   \* typing elsewhere on the line goes on, too
    /\ HasUndo(s) /\ CurUndo(s).mlineno = s.cur
    /\ \/ action = "ADD" /\ CurUndo(s).type = "ADD"
       \/ action = "CUT" /\ CurUndo(s).type = "CUT" /\ ~CurUndo(s).mset /\ s.keep

\* No item of its own: typing or cutting on where the last item left off, and
\* the deletion of the final newline.
Contiguous(s, action) ==
    /\ HasUndo(s) /\ CurUndo(s).mlineno = s.cur
    /\ \/ action = "ADD" /\ CurUndo(s).type = "ADD" /\ CurUndo(s).mx = s.x
       \/ action = "CUT" /\ CurUndo(s).type = "CUT" /\ ~CurUndo(s).mset /\ s.keep
DeletesFinalNewline(s, action) ==
    /\ action = "DEL" /\ ~NoNewlines
    /\ s.cur + 1 = Len(s.lines) /\ s.x = Len(CurLine(s)) /\ s.x # 0

SplitBeginSlip(s) ==   \* the ADD stays below, outside the group
    [s EXCEPT !.items = <<BlankItem(s, "SPLIT_BEGIN")>> \o @, !.last = s.items[1].type]

\* Whatever do_wrap was called for, the ADD on top of the stack, comes to lie above the
\* SPLIT_BEGIN, within the group.
SplitBegin(s) ==
    [s EXCEPT !.items = <<@[1], BlankItem(s, "SPLIT_BEGIN")>> \o Tail(@),
              !.last  = s.items[1].type]

AddUndo(s, action) ==
    IF Contiguous(s, action) \/ DeletesFinalNewline(s, action) THEN s
    ELSE LET u == NewItem(s, action)
         IN  [s EXCEPT !.items = <<u>> \o SubSeq(s.items, s.cu, Len(s.items)),
                       !.cu    = 1,
                       !.last  = u.type,
                       !.keep  = s.keep /\ action \notin {"CUT", "CUT_EOF"}]

\* What update_undo does to the item u on top of the stack.
GrownAdd(s, u) ==
    [u EXCEPT !.str = <<(IF u.str = NULL THEN <<>> ELSE u.str[1])
                        \o SubSeq(CurLine(s), u.mx + 1, u.mx + 1)>>,
              !.mlineno = s.cur, !.mx = s.x]

GrownDeletionSlip(s, u) ==   \* backspacing does not move the item's beginning
    LET c == SubSeq(CurLine(s), s.x + 1, s.x + 1)
    IN  IF s.x = u.begin
        THEN [u EXCEPT !.str = <<u.str[1] \o c>>, !.mx = s.x]
        ELSE [u EXCEPT !.str = <<c \o u.str[1]>>]

GrownDeletion(s, u) ==
    LET c == SubSeq(CurLine(s), s.x + 1, s.x + 1)
    IN  IF s.x = u.begin
        THEN [u EXCEPT !.str = <<u.str[1] \o c>>, !.mx = s.x]
        ELSE [u EXCEPT !.str = <<c \o u.str[1]>>, !.begin = s.x]

GrownCut(s, u) ==
    LET v == [u EXCEPT !.buf = s.cutbuf]
        bottom == u.mlineno + Len(s.cutbuf) - 1
    IN  CASE s.cutbuf = NULL -> u
          [] s.cutbuf # NULL /\ u.mset ->
               IF Before(<<u.lineno, u.begin>>, <<u.mlineno, u.mx>>)
               THEN [v EXCEPT !.lineno = u.mlineno, !.begin = u.mx,
                              !.mlineno = u.lineno, !.mx = u.begin]
               ELSE [v EXCEPT !.xflags = "WAS_MARKED_FORWARD"]
          [] s.cutbuf # NULL /\ ~u.mset ->
               [v EXCEPT !.lineno = bottom,
                         !.begin  = IF CutToEnd \/ u.type = "CUT_EOF"
                                    THEN Len(s.cutbuf[Len(s.cutbuf)])
                                         + (IF bottom = u.mlineno THEN u.mx ELSE 0)
                                    ELSE u.begin]

UpdateUndo(s, action) ==
    LET u == s.items[1]
        Top(v) == [s EXCEPT !.items[1] = v]
    IN  IF \/ action # s.last
           \/ action \notin {"ENTER", "CUT"} /\ s.cur # CurUndo(s).lineno
        THEN AddUndo(s, action)
        ELSE CASE u.type = "ADD" -> Top(GrownAdd(s, u))
               [] u.type \in {"BACK", "DEL"} ->
                    IF s.x \in {u.begin, u.begin - 1} THEN Top(GrownDeletion(s, u))
                                                      ELSE AddUndo(s, u.type)
               [] u.type \in {"CUT", "CUT_EOF"} -> Top(GrownCut(s, u))
               [] u.type = "PASTE" -> Top([u EXCEPT !.begin = s.x, !.lineno = s.cur])
               [] u.type = "ENTER" -> Top([u EXCEPT !.mx = s.x])
               [] OTHER -> s
-----------------------------------------------------------------------------
(* Moving text between the buffer and the cutbuffer.                       *)

InText(s, p) == p \in PositionsOf(s.lines)

\* new_magicline, whenever the text stops ending in an empty line.
Magicline(s, noNewlines) ==
    IF ~noNewlines /\ s.lines[Len(s.lines)] # <<>>
    THEN [s EXCEPT !.lines = Append(@, <<>>), !.size = Counted(@ + 1)]
    ELSE s

\* A mark in the text from p to q, which goes, moves to p.  (No cut leaves a
\* mark after q.)
MarkAfterRemoval(m, p, q) ==
    IF m # NoMark /\ ~Before(m, p) /\ ~Before(q, m) THEN p ELSE m

\* move_to_filestruct: the text from p to q goes to the end of the cutbuffer.
MoveToCutbuffer(s, p, q, noNewlines) ==
    IF p = q THEN s
    ELSE IF ~InText(s, p) \/ ~InText(s, q) THEN Undefined(s)
    ELSE LET cut == Region(s.lines, p, q)
         IN  Magicline([s EXCEPT
                 !.lines  = Without(s.lines, p, q),
                 !.size   = Counted(@ - TotSize(cut)),
                 !.cutbuf = IF @ = NULL THEN cut ELSE Attach(@, cut),
                 !.cur    = p[1],
                 !.x      = p[2],
                 !.sameline = FALSE,
                 !.mark   = MarkAfterRemoval(@, p, q)], noNewlines)

\* What copy_from_filestruct makes of a mark m when piece is inserted at p: the
\* branches of its code, which has four.
MarkAfterInsertion(m, p, piece) ==
    LET n == Len(piece)
        x == Len(piece[n])
        rightSideUp == Before(m, p)
        singleLine  == m[1] = p[1]
    IN  CASE m = NoMark -> NoMark
          [] m # NoMark /\ n = 1 -> <<p[1], IF rightSideUp THEN m[2] ELSE m[2] + x>>
          [] m # NoMark /\ n > 1 /\ rightSideUp -> m
          [] m # NoMark /\ n > 1 /\ ~rightSideUp /\ singleLine -> <<p[1] + n - 1, m[2] - p[2]>>
          [] OTHER -> <<m[1] + n - 1, m[2] - x>>

\* copy_from_filestruct: a copy of piece goes in at the cursor.
CopyFrom(s, piece, noNewlines) ==
    IF ~InText(s, Cursor(s)) THEN Undefined(s)
    ELSE LET end == EndOf(Cursor(s), piece)
         IN  Magicline([s EXCEPT
                 !.lines = With(s.lines, Cursor(s), piece),
                 !.size  = Counted(@ + TotSize(piece)),
                 !.cur   = end[1],
                 !.x     = end[2],
                 !.mark  = MarkAfterInsertion(@, Cursor(s), piece)], noNewlines)

\* The region a cut takes: cut_to_eof, cut_marked, cut_to_eol or cut_line.
CutRegion(s, tillEof) ==
    LET eol == <<s.cur, Len(CurLine(s))>>
        bot == Len(s.lines)
        nextLine == IF s.cur < bot THEN <<s.cur + 1, 0>> ELSE eol
    IN  CASE tillEof -> <<Cursor(s), <<bot, Len(s.lines[bot])>> >>
          [] ~tillEof /\ s.mark # NoMark ->
               IF Before(s.mark, Cursor(s)) THEN <<s.mark, Cursor(s)>>
                                            ELSE <<Cursor(s), s.mark>>
          [] ~tillEof /\ s.mark = NoMark /\ CutToEnd ->
               <<Cursor(s), IF s.x < eol[2] THEN eol ELSE nextLine>>
          [] OTHER -> << <<s.cur, 0>>, nextLine>>

\* do_cut_text, when the text is to be cut: the part common to its callers.
CutOut(s, tillEof, noNewlines) ==
    LET r == CutRegion(s, tillEof)
        t == MoveToCutbuffer([s EXCEPT !.cutbuf = IF s.keep THEN @ ELSE NULL,
                                       !.keep   = TRUE], r[1], r[2], noNewlines)
    IN  IF tillEof THEN t ELSE [t EXCEPT !.mark = NoMark]

CutText(s, tillEof) ==
    LET t == [CutOut(s, tillEof, NoNewlines) EXCEPT !.mod = TRUE]
    IN  IF t.ub THEN t ELSE UpdateUndo(t, IF tillEof THEN "CUT_EOF" ELSE "CUT")

\* do_copy_text: cut, with NO_NEWLINES set, and copy the same text back.
CopyText(s) ==
    LET t == [s EXCEPT !.keep = @ /\ s.mark = NoMark /\ s.sameline]
        r == CutRegion(t, FALSE)
        c == CutOut(t, FALSE, TRUE)
        back == IF r[1] = r[2] \/ c.ub THEN c
                ELSE CopyFrom(c, Region(s.lines, r[1], r[2]), TRUE)
    IN  [back EXCEPT !.sameline = s.mark = NoMark]

PasteText(s) ==
    LET t == CopyFrom(UpdateUndo(s, "PASTE"), s.cutbuf, NoNewlines)
    IN  IF t.ub THEN t ELSE [UpdateUndo(t, "PASTE") EXCEPT !.mod = TRUE]

\* goto_line_posx: as far down as there are lines, and no check of the column.
Goto(s, line, x) ==
    [s EXCEPT !.cur = IF line < 1 THEN 1
                      ELSE IF line > Len(s.lines) THEN Len(s.lines) ELSE line,
              !.x   = x]

-----------------------------------------------------------------------------
(* Typing and deleting.                                                    *)

\* A slip: the newline of the new magicline is not counted.
TypeCharSlip(s, c) ==
    LET onBot == ~NoNewlines /\ s.cur = Len(s.lines)
        line  == CurLine(s)
        t == AddUndo([s EXCEPT
                 !.lines = ReplaceLine(@, s.cur, << Prefix(line, s.x) \o <<c>> \o Suffix(line, s.x)>>
                                                 \o (IF onBot THEN <<(<<>>)>> ELSE <<>>)),
                 !.size  = Counted(@ + 1),
                 !.mod   = TRUE], "ADD")
    IN  UpdateUndo([t EXCEPT !.x = s.x + 1], "ADD")

\* do_output for one character.
TypeChar(s, c) ==
    LET onBot == ~NoNewlines /\ s.cur = Len(s.lines)
        line  == CurLine(s)
        t == AddUndo([s EXCEPT
                 !.lines = ReplaceLine(@, s.cur, << Prefix(line, s.x) \o <<c>> \o Suffix(line, s.x)>>
                                                 \o (IF onBot THEN <<(<<>>)>> ELSE <<>>)),
                 !.size  = Counted(@ + IF onBot THEN 2 ELSE 1),
                 !.mod   = TRUE], "ADD")
        shifted == s.mark # NoMark /\ s.mark[1] = s.cur /\ s.x < s.mark[2]
    IN  UpdateUndo([t EXCEPT !.x = s.x + 1,
                             !.mark = IF shifted THEN <<@[1], @[2] + 1>> ELSE @], "ADD")

\* A slip: the cursor keeps its column on the new line.
EnterSlip(s, undoing) ==
    LET t == IF undoing THEN s ELSE AddUndo(s, "ENTER")
        u == [t EXCEPT
                 !.lines = ReplaceLine(@, s.cur, <<Prefix(CurLine(s), s.x), Suffix(CurLine(s), s.x)>>),
                 !.cur   = s.cur + 1,
                 !.size  = Counted(@ + 1),
                 !.mod   = TRUE]
    IN  IF undoing THEN u ELSE UpdateUndo(u, "ENTER")

\* do_enter.
Enter(s, undoing) ==
    LET t == IF undoing THEN s ELSE AddUndo(s, "ENTER")
        m == s.mark
        u == [t EXCEPT
                 !.lines = ReplaceLine(@, s.cur, <<Prefix(CurLine(s), s.x), Suffix(CurLine(s), s.x)>>),
                 !.mark  = CASE m = NoMark -> NoMark
                             [] m # NoMark /\ m[1] = s.cur /\ s.x < m[2] -> <<m[1] + 1, m[2] - s.x>>
                             [] m # NoMark /\ m[1] > s.cur -> <<m[1] + 1, m[2]>>
                             [] OTHER -> m,
                 !.cur   = s.cur + 1,
                 !.x     = 0,
                 !.size  = Counted(@ + 1),
                 !.mod   = TRUE]
    IN  IF s.x > Len(CurLine(s)) THEN Undefined(s)
        ELSE IF undoing THEN u ELSE UpdateUndo(u, "ENTER")

\* The mark when line l + 1, and its node with it, is attached to line l, which
\* has length x; a mark on that node is lost unless the caller moves it.
MarkAfterJoin(m, l, x, moved) ==
    CASE m = NoMark -> NoMark
      [] m # NoMark /\ m[1] = l + 1 -> IF moved THEN <<l, m[2] + x>> ELSE <<0, m[2]>>
      [] m # NoMark /\ m[1] > l + 1 -> <<m[1] - 1, m[2]>>
      [] OTHER -> m

\* A slip: deleting before the mark does not shift it.
DeletionSlip(s, action) ==
    LET line == CurLine(s)
    IN  IF s.x < Len(line)
        THEN [UpdateUndo(s, action) EXCEPT
                 !.lines = ReplaceLine(@, s.cur, <<Prefix(line, s.x) \o Suffix(line, s.x + 1)>>),
                 !.size  = Counted(@ - 1),
                 !.mod   = TRUE]
        ELSE s

\* do_deletion.
Deletion(s, action) ==
    LET line == CurLine(s)
        onMark == s.mark # NoMark /\ s.mark[1] = s.cur /\ s.x < s.mark[2]
    IN  IF s.x < Len(line)
        THEN [UpdateUndo(s, action) EXCEPT
                 !.lines = ReplaceLine(@, s.cur, <<Prefix(line, s.x) \o Suffix(line, s.x + 1)>>),
                 !.mark  = IF onMark THEN <<@[1], @[2] - 1>> ELSE @,
                 !.size  = Counted(@ - 1),
                 !.mod   = TRUE]
        ELSE IF s.cur < Len(s.lines)
        THEN Magicline([AddUndo(s, action) EXCEPT
                 !.lines = JoinLines(@, s.cur, line \o @[s.cur + 1]),
                 !.mark  = MarkAfterJoin(@, s.cur, s.x, TRUE),
                 !.size  = Counted(@ - 1),
                 !.mod   = TRUE], NoNewlines \/ s.cur + 1 < Len(s.lines))
        ELSE s

Left(s) ==
    IF s.x > 0 THEN [s EXCEPT !.x = @ - 1]
    ELSE IF s.cur > 1 THEN [s EXCEPT !.cur = @ - 1, !.x = Len(s.lines[s.cur - 1])]
    ELSE s

RightSlip(s) ==   \* past the last line
    IF s.x < Len(CurLine(s)) THEN [s EXCEPT !.x = @ + 1]
                             ELSE [s EXCEPT !.cur = @ + 1, !.x = 0]

Right(s) ==
    IF s.x < Len(CurLine(s)) THEN [s EXCEPT !.x = @ + 1]
    ELSE IF s.cur < Len(s.lines) THEN [s EXCEPT !.cur = @ + 1, !.x = 0]
    ELSE s

Backspace(s) ==
    IF s.cur > 1 \/ s.x > 0 THEN Deletion(Left(s), "BACK") ELSE s

-----------------------------------------------------------------------------
(* Wrapping the line that was typed on.                                    *)

Lowest(S)  == CHOOSE i \in S : \A j \in S : i <= j
Highest(S) == CHOOSE i \in S : \A j \in S : j <= i

BlankAt(line, i) == line[i + 1] \in Blanks

\* break_line: the last blank that is short enough, or else the first one, and from there
\* the last of its group; the end of a line that is short enough; or -1.
BreakLine(line) ==
    LET blanks == {i \in 0..Len(line) - 1 : BlankAt(line, i)}
        short  == {i \in blanks : i <= Fill}
        GroupEnd(i) == Lowest({j \in i..Len(line) - 1 :
                                 j + 1 = Len(line) \/ ~BlankAt(line, j + 1)})
        far    == IF blanks = {} THEN -1 ELSE GroupEnd(Lowest(blanks))
    IN  CASE Len(line) <= Fill -> Len(line)
          [] Len(line) > Fill /\ short # {} -> GroupEnd(Highest(short))
          [] OTHER -> IF far + 1 = Len(line) THEN -1 ELSE far

\* Where do_wrap splits a line, if it does.
Wraps(line) == BreakLine(line) \notin {-1, Len(line), Len(line) - 1}

\* The line goes on in the next one, when that was made by the wrap before: a blank is
\* put behind it if it has none, the line end goes, and the blanks that follow.
Prepend(s) ==
    LET line == CurLine(s)
        end  == [s EXCEPT !.x = Len(line)]
        blank == CHOOSE c \in Blanks : TRUE
        added == UpdateUndo([AddUndo(end, "ADD") EXCEPT
                               !.lines[s.cur] = Append(@, blank), !.size = Counted(@ + 1),
                               !.x = @ + 1], "ADD")
        t == IF BlankAt(line, Len(line) - 1) THEN end ELSE added
        next == s.lines[s.cur + 1]
        joined == Deletion(t, "DEL")
        blanks == {n \in 0..Len(next) : \A i \in 0..n - 1 : BlankAt(next, i)}
        dropped[n \in 0..Highest(blanks)] ==
            IF n = 0 THEN joined ELSE Deletion(dropped[n - 1], "DEL")
    IN  IF Len(CurLine(t)) - (BreakLine(line) + 1) + Len(next) <= Fill
        THEN dropped[Highest(blanks)] ELSE t

\* do_wrap.
Wrap(s) ==
    LET loc == BreakLine(CurLine(s)) + 1
        b == SplitBegin(s)
        p == IF s.prep /\ s.cur < Len(s.lines) THEN Prepend(b) ELSE b
        t == Enter([p EXCEPT !.x = loc], FALSE)
        u == IF s.x < loc
             THEN [t EXCEPT !.cur = s.cur, !.x = s.x, !.prep = TRUE]
             ELSE [t EXCEPT !.x = @ + s.x - loc, !.prep = FALSE]
    IN  IF Fill = 0 \/ ~Wraps(CurLine(s)) THEN s ELSE AddUndo(u, "SPLIT_END")

-----------------------------------------------------------------------------
(* do_indent, by one tab, with lines indented by whole tabs.  It records no undo item.     *)

IndentLength(line) == Lowest({Len(line)} \cup {i \in 0..Len(line) - 1 : ~BlankAt(line, i)})

\* The lines that are marked, or the current one, without the empty ones.
IndentedLines(s) ==
    LET ends == {s.cur} \cup (IF s.mark = NoMark THEN {} ELSE {s.mark[1]}) IN
    {l \in Lowest(ends)..Highest(ends) : s.lines[l] # <<>>}

\* Cursor and mark move with the text after the indentation.
Shifted(s, p, lines, by) ==
    IF p # NoMark /\ p[1] \in lines /\ p[2] >= IndentLength(s.lines[p[1]])
    THEN <<p[1], p[2] + by>> ELSE p

\* The lines that are indented become what the function indented says.
Indent(s, indented, by) ==
    LET lines == DOMAIN indented IN
    [s EXCEPT !.lines = [l \in DOMAIN @ |-> IF l \in lines THEN indented[l] ELSE @[l]],
              !.x     = Shifted(s, Cursor(s), lines, by)[2],
              !.mark  = Shifted(s, @, lines, by),
              !.size  = Counted(@ + by * Cardinality(lines))]

IndentMore(s) ==
    LET more(line) == Prefix(line, IndentLength(line)) \o <<CHOOSE b \in Blanks : TRUE>>
                      \o Suffix(line, IndentLength(line)) IN
    [Indent(s, [l \in IndentedLines(s) |-> more(s.lines[l])], 1) EXCEPT !.mod = TRUE]

IndentLess(s) ==
    LET lines == {l \in IndentedLines(s) : IndentLength(s.lines[l]) > 0}
        less(line) == Prefix(line, IndentLength(line) - 1) \o Suffix(line, IndentLength(line)) IN
    [Indent(s, [l \in lines |-> less(s.lines[l])], -1) EXCEPT !.mod = @ \/ lines # {}]

-----------------------------------------------------------------------------
(* do_undo and do_redo.                                                    *)

\* redo_paste: redo an uncut, or undo a cut.
RedoPaste(s, u) ==
    LET x == IF u.xflags = "WAS_WHOLE_LINE" THEN 0 ELSE u.mx
        t == CopyFrom(Goto(s, u.mlineno, x), u.buf, NoNewlines)
    IN  CASE u.buf = NULL -> s
          [] u.buf # NULL /\ (t.ub \/ u.xflags = "WAS_MARKED_FORWARD" \/ u.type = "PASTE") -> t
          [] OTHER -> Goto(t, u.mlineno, u.mx)

UndoPasteInLine(s, u) ==   \* a slip: a whole line goes from the cursor's column
    LET g == Goto(s, u.lineno, u.begin)
        t == CutOut([g EXCEPT !.mark = <<u.mlineno, u.mx>>, !.cutbuf = NULL], FALSE, NoNewlines)
    IN  IF u.buf = NULL THEN s ELSE [t EXCEPT !.cutbuf = s.cutbuf]

\* undo_paste: redo a cut, or undo an uncut, by cutting between two marks into a
\* cutbuffer that is thrown away.
UndoPaste(s, u) ==
    LET g == Goto(s, u.lineno, u.begin)
        h == IF NoNewlines /\ g.cur # u.lineno THEN [g EXCEPT !.x = Len(CurLine(g))] ELSE g
        m == <<u.mlineno, IF u.xflags = "WAS_WHOLE_LINE" THEN 0 ELSE u.mx>>
        t == CutOut([h EXCEPT !.mark = m, !.cutbuf = NULL], FALSE, NoNewlines)
    IN  IF u.buf = NULL THEN s ELSE [t EXCEPT !.cutbuf = s.cutbuf]

\* Put text str into, or take it out of, line l at column x.
InsertText(s, l, x, str) ==
    IF x > Len(s.lines[l]) THEN Undefined(s)
    ELSE [s EXCEPT !.lines[l] = Prefix(@, x) \o str \o Suffix(@, x)]
RemoveText(s, l, x, str) ==
    IF x + Len(str) > Len(s.lines[l]) THEN Undefined(s)
    ELSE [s EXCEPT !.lines[l] = Prefix(@, x) \o Suffix(@, x + Len(str))]

\* Undoing a join splits the line again; the join of the last line with the
\* magicline, by a Backspace, never changed the text.
UndoJoin(s, u) ==
    IF ~NoNewlines /\ u.xflags = "WAS_FINAL_BACKSPACE" THEN Goto(s, u.lineno, u.begin)
    ELSE LET l == u.mlineno
         IN  Goto([s EXCEPT
                !.lines = ReplaceLine(@, l, <<Prefix(@[l], u.mx), u.str[1]>>),
                !.mark  = IF @ # NoMark /\ @[1] > l THEN <<@[1] + 1, @[2]>> ELSE @],
                u.lineno, u.begin)

\* Undoing a line break joins the lines again.
UndoEnter(s, u) ==
    LET l == u.mlineno
    IN  CASE l = Len(s.lines) -> Goto(s, u.lineno, u.begin)
          [] l < Len(s.lines) /\ u.mx > Len(s.lines[l + 1]) -> Undefined(s)
          [] OTHER ->
               Goto([s EXCEPT !.lines = JoinLines(@, l, @[l] \o Suffix(@[l + 1], u.mx)),
                              !.mark  = MarkAfterJoin(@, l, 0, FALSE)],
                    u.lineno, u.begin)

UndoItem(s, u) ==
    LET l == u.mlineno
        f == s.lines[l]
    IN  CASE u.type = "ADD" ->
               IF u.str = NULL THEN Undefined(s)
               ELSE Goto(RemoveText(s, l, u.begin, u.str[1]), u.lineno, u.begin)
          [] u.type \in {"BACK", "DEL"} ->
               Goto(InsertText(s, l, u.begin, u.str[1]), u.mlineno, u.mx)
          [] u.type = "JOIN" -> UndoJoin(s, u)
          [] u.type \in {"CUT", "CUT_EOF"} -> RedoPaste([s EXCEPT !.x = u.begin], u)
          [] u.type = "PASTE" -> UndoPaste([s EXCEPT !.x = u.begin], u)
          [] u.type = "ENTER" -> UndoEnter(s, u)
          [] u.type = "SPLIT_BEGIN" -> s

\* One item, but for the groups of do_wrap.
UndoOne(s) ==
    IF s.ub \/ ~HasUndo(s) \/ CurUndo(s).mlineno \notin 1..Len(s.lines) THEN s
    ELSE LET t == UndoItem(s, CurUndo(s))
         IN  [t EXCEPT !.cu = @ + 1, !.last = "OTHER", !.mod = TRUE]

\* From a SPLIT_END everything down to its SPLIT_BEGIN is undone; an item that cannot be
\* keeps do_undo there for ever.
UndoSplit(s) ==
    LET u == CurUndo(s)
        begin == Lowest({i \in s.cu..Len(s.items) : s.items[i].type = "SPLIT_BEGIN"})
        walk[n \in 0..begin - s.cu] ==
            IF n = 0 THEN [Goto(s, u.lineno, u.begin) EXCEPT !.cu = @ + 1, !.last = "OTHER"]
            ELSE UndoOne(walk[n - 1])
        t == walk[begin - s.cu]
    IN  IF t.cu = begin + 1 THEN t ELSE Undefined(s)

Undo(s) ==
    IF /\ ~s.ub /\ HasUndo(s) /\ CurUndo(s).type = "SPLIT_END"
       /\ CurUndo(s).mlineno \in 1..Len(s.lines)
    THEN UndoSplit(s) ELSE UndoOne(s)

RedoItem(s, u) ==
    LET l == u.mlineno
        f == s.lines[l]
    IN  CASE u.type = "ADD" ->
               IF u.str = NULL THEN Undefined(s)
               ELSE Goto(InsertText(s, l, u.begin, u.str[1]), u.mlineno, u.mx)
          [] u.type \in {"BACK", "DEL"} ->
               Goto(RemoveText(s, l, u.begin, u.str[1]), u.mlineno, u.mx)
          [] u.type = "ENTER" -> Enter(Goto(s, u.lineno, u.begin), TRUE)
          [] u.type = "JOIN" ->
               Goto([s EXCEPT !.lines = JoinLines(@, l, f \o u.str[1]),
                              !.mark  = MarkAfterJoin(@, l, 0, FALSE)],
                    u.lineno, u.begin)
          [] u.type \in {"CUT", "CUT_EOF"} -> UndoPaste(s, u)
          [] u.type = "PASTE" -> RedoPaste(s, u)
          [] u.type = "SPLIT_END" -> Goto(s, u.lineno, u.begin)

RedoOne(s) ==
    IF s.ub \/ ~HasRedo(s) \/ s.items[s.cu - 1].mlineno \notin 1..Len(s.lines) THEN s
    ELSE LET t == RedoItem(s, s.items[s.cu - 1])
         IN  [t EXCEPT !.cu = @ - 1, !.last = "OTHER", !.mod = TRUE]

\* From a SPLIT_BEGIN everything up to its SPLIT_END is redone, where the cursor goes.
RedoSplit(s) ==
    LET u == s.items[s.cu - 1]
        end == Highest({i \in 1..s.cu - 1 : s.items[i].type = "SPLIT_END"})
        walk[n \in 0..s.cu - 1 - end] ==
            IF n = 0 THEN [Goto(s, u.lineno, u.begin) EXCEPT !.cu = @ - 1, !.last = "OTHER"]
            ELSE RedoOne(walk[n - 1])
        t == walk[s.cu - 1 - end]
    IN  IF t.cu = end THEN t ELSE Undefined(s)

Redo(s) ==
    IF /\ ~s.ub /\ HasRedo(s) /\ s.items[s.cu - 1].type = "SPLIT_BEGIN"
       /\ s.items[s.cu - 1].mlineno \in 1..Len(s.lines)
    THEN RedoSplit(s) ELSE RedoOne(s)

-----------------------------------------------------------------------------
(* The commands.                                                           *)

\* do_input: every command but a cut or a copy ends the run of cuts that one
\* undo item and one cutbuffer collect.
OtherCommand(s) == [s EXCEPT !.keep = FALSE, !.sameline = FALSE]

Within(s) ==
    /\ TotSize(s.lines) <= MaxSize /\ Len(s.items) <= MaxUndo
    /\ s.cutbuf = NULL \/ TotSize(s.cutbuf) <= MaxSize

\* A command leads to the state s.  Every one but typing first resets prepend_wrap, which
\* only what types sets.
Command(name, s) ==
    /\ name \in ed.session
    /\ Within(s)
    /\ ed' = [s EXCEPT !.prep = @ /\ name \in {"type", "tab"}]

\* The habits a session can be free of.
TypesAfterUndo(s)  == s.last = "OTHER" /\ Contiguous(s, "ADD")
PastesAgain(s)     == s.last = "PASTE"
Marked(s)          == s.mark # NoMark
CutsNothing(s, tillEof) == LET r == CutRegion(s, tillEof) IN r[1] = r[2]
CutsAfterCopy(s) ==
    /\ Contiguous(s, "CUT")
    /\ \/ s.last # "CUT" \/ s.cutbuf # CurUndo(s).buf
       \/ CutToEnd /\ s.x # CurUndo(s).mx
RedoesDeletion(s)  == HasRedo(s) /\ s.items[s.cu - 1].type \in {"BACK", "DEL"}

\* The editor runs until an assertion fails (that the cursor is in the text) or
\* its behaviour is undefined.
Running == ~ed.ub /\ InText(ed, Cursor(ed))

Type ==
    /\ Running
    /\ TypesAfterUndo(ed) => "type after undo" \notin Avoided
    /\ \E c \in Chars : Command("type", OtherCommand(Wrap(TypeChar(ed, c))))
DoTab ==
    /\ Running
    /\ TypesAfterUndo(ed) => "type after undo" \notin Avoided
    /\ \E b \in Blanks :
         Command("tab", OtherCommand(Wrap(TypeChar([ed EXCEPT !.prep = FALSE], b))))
DoEnter ==
    Running /\ Command("enter", OtherCommand(Enter(ed, FALSE)))
DoDelete ==
    Running /\ Command("delete", OtherCommand(Deletion(ed, "DEL")))
DoBackspace ==
    Running /\ Command("backspace", OtherCommand(Backspace(ed)))
DoCutText ==
    /\ Running
    /\ CutsNothing(ed, FALSE) => "cut nothing" \notin Avoided
    /\ CutsAfterCopy(ed) => "cut after copy" \notin Avoided
    /\ Command("cut", CutText(AddUndo(ed, "CUT"), FALSE))
DoCutTillEof ==
    /\ Running
    /\ CutsNothing(ed, TRUE) => "cut nothing" \notin Avoided
    /\ Command("cuttoeof", CutText(AddUndo(ed, "CUT_EOF"), TRUE))
DoCopyText ==
    Running /\ Command("copy", CopyText(ed))
DoUncutText ==
    /\ Running
    /\ Marked(ed) => "paste with mark" \notin Avoided
    /\ PastesAgain(ed) => "paste again" \notin Avoided
    /\ Command("paste", OtherCommand(IF ed.cutbuf = NULL THEN ed ELSE PasteText(ed)))
DoMark ==
    /\ Running
    /\ Command("mark", OtherCommand([ed EXCEPT !.mark = IF @ = NoMark THEN Cursor(ed) ELSE NoMark]))
DoLeft ==
    Running /\ Command("left", OtherCommand(Left(ed)))
DoRight ==
    Running /\ Command("right", OtherCommand(Right(ed)))
DoGotoLineColumn ==
    /\ Running
    /\ \E p \in PositionsOf(ed.lines) :
         Command("goto", OtherCommand([ed EXCEPT !.cur = p[1], !.x = p[2]]))
DoIndent ==
    Running /\ Blanks # {} /\ Command("indent", OtherCommand(IndentMore(ed)))
DoUnindent ==
    Running /\ Command("unindent", OtherCommand(IndentLess(ed)))
DoUndo ==
    /\ Running
    /\ Marked(ed) => "undo with mark" \notin Avoided
    /\ Command("undo", OtherCommand(Undo(ed)))
DoRedo ==
    /\ Running
    /\ Marked(ed) => "undo with mark" \notin Avoided
    /\ RedoesDeletion(ed) => "redo deletion" \notin Avoided
    /\ Command("redo", OtherCommand(Redo(ed)))

\* A file is opened with the cursor where the command line or the position
\* history says.
Init ==
    \E session \in Sessions, lines \in InitialTexts : \E p \in PositionsOf(lines) :
      ed = [session |-> session, lines |-> lines, cur |-> p[1], x |-> p[2], mark |-> NoMark,
            size |-> Counted(TotSize(lines)), mod |-> FALSE,
            items |-> <<>>, cu |-> 1, last |-> "OTHER",
            cutbuf |-> NULL, keep |-> FALSE, sameline |-> FALSE, prep |-> FALSE, ub |-> FALSE]

Next ==
    \/ Type \/ DoTab \/ DoEnter \/ DoDelete \/ DoBackspace
    \/ DoCutText \/ DoCutTillEof \/ DoCopyText \/ DoUncutText
    \/ DoMark \/ DoLeft \/ DoRight \/ DoGotoLineColumn
    \/ DoIndent \/ DoUnindent \/ DoUndo \/ DoRedo

Spec == Init /\ [][Next]_ed

-----------------------------------------------------------------------------
(* Properties.                                                             *)

ItemTypes == {"ADD", "BACK", "DEL", "JOIN", "CUT", "CUT_EOF", "PASTE", "ENTER",
              "SPLIT_BEGIN", "SPLIT_END"}
XFlags    == {"NONE", "WAS_FINAL_BACKSPACE", "WAS_MARKED_FORWARD", "WAS_WHOLE_LINE"}
Items     == [type : ItemTypes, lineno : Int, begin : Int, mlineno : Int,
              mx : Int, str : Seq(Line), buf : Seq(Line),
              mset : BOOLEAN, xflags : XFlags]
States    == [session : Sessions, lines : Texts, cur : Int, x : Int, mark : {NoMark} \cup (Int \X Int),
              size : Int, mod : BOOLEAN, items : Seq(Items), cu : Nat,
              last : ItemTypes \cup {"OTHER"}, cutbuf : Seq(Line),
              keep : BOOLEAN, sameline : BOOLEAN, prep : BOOLEAN, ub : BOOLEAN]

\* The state has its type, current is a node of the text, current_undo is an
\* item of the undo stack or its end, and without NO_NEWLINES the text ends in an
\* empty line (remove_magicline, do_output and do_cut_text all rely on the magicline).
TypeOK ==
    /\ ed \in States
    /\ ed.cur \in 1..Len(ed.lines)
    /\ ed.cu \in 1..(Len(ed.items) + 1)
    /\ ~NoNewlines /\ ~ed.ub => ed.lines[Len(ed.lines)] = <<>>

\* No command reads or writes past the end of a line, or follows a pointer that
\* is NULL (do_undo's strlen(u->strdata), partition_filestruct's bot_x).
NoUndefined == ~ed.ub

\* The assertion of do_output and do_deletion: the cursor is never past the end
\* of its line, whatever line a command left it on.
CursorInText == ~ed.ub => InText(ed, Cursor(ed))

\* The mark is a position of the text, through every edit around it
\* (OpenFile.h: "The current file's beginning marked line's x-coordinate
\* position").
MarkInText == ~ed.ub /\ ed.mark # NoMark => InText(ed, ed.mark)

\* totsize is the number of characters of the text (OpenFile.h: "The current
\* file's total number of characters"), however the text got there.
TotSizeIsSize == CountSize /\ ~ed.ub => ed.size = TotSize(ed.lines)

\* The line the next undo works on exists, so that do_undo never gives up with
\* "Internal error: can't match line".
UndoReachable ==
    ~ed.ub /\ HasUndo(ed) => CurUndo(ed).mlineno \in 1..Len(ed.lines)

\* The editor never stops on a command, nor does undo give up on one.
KeepsRunning == NoUndefined /\ CursorInText /\ UndoReachable

\* Redoing what was just undone gives the text back, and the other way round,
\* for whatever item is on either side of current_undo.
ThereAndBack ==
    /\ ~ed.ub /\ HasUndo(ed) => Redo(Undo(ed)).lines = ed.lines
    /\ ~ed.ub /\ HasRedo(ed) => Undo(Redo(ed)).lines = ed.lines
===============================================================================
