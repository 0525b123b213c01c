--------------------------------- MODULE Window ---------------------------------
(***************************************************************************)
(* Moving the cursor and what the edit window shows of the text: move.cpp, *)
(* the drawing of winio.cpp, the jumps of search.cpp, do_mark, and         *)
(* SIGWINCH between two commands.                                          *)
(*                                                                         *)
(* A command draws in the middle of its work, so it is written as an       *)
(* operator from a window to the window it leaves, and the code's          *)
(* statements are the operators it is composed of.  The text does not      *)
(* change; every character is one column wide; SOFTWRAP is off, so that    *)
(* maxrows is editwinrows.                                                 *)
(***************************************************************************)
EXTENDS TextBuffer, FiniteSets, FiniteSetsExt

CONSTANTS
  Text,      \* the lines of the file
  Letters,   \* the characters of words
  Puncts,    \* those that are in words with WORD_BOUNDS
  Blank,     \* the character of indentation
  FlagSets,  \* the sets of flags pinot may be started with
  Heights,   \* what editwinrows may be
  Widths,    \* what COLS may be
  Columns    \* the columns the user asks for

ASSUME WindowAssumption ==
  /\ Text \in Seq(Seq(Letters \cup Puncts \cup {Blank})) /\ Text # <<>>
  /\ \A fs \in FlagSets : fs \subseteq {"SMOOTH_SCROLL", "SMART_HOME", "WORD_BOUNDS"}
  /\ Heights # {} /\ Heights \subseteq Nat \ {0}  \* MIN_EDITOR_ROWS
  /\ Widths # {} /\ Widths \subseteq Nat \ (0..3)  \* MIN_EDITOR_COLS
  /\ Columns \subseteq Nat \ {0}

VARIABLE w  \* the window: the fields of openfile that matter here, and the screen
vars == <<w>>

NoMark == <<0, 0>>
Empty  == [line |-> 0, page |-> 0, marked |-> {}]  \* a blanked row

Filebot == Len(Text)
Cursor(s) == <<s.current, s.x>>
IsSet(s, flag) == flag \in s.flags
MarkSet(s) == s.mark # NoMark

-----------------------------------------------------------------------------
(* Drawing (winio.cpp). *)

\* get_page_start: the first column shown when the cursor is in this one.
PageStart(cols, column) ==
    IF column < cols - 1 THEN 0
    ELSE IF cols > 8 THEN (column - 7) - ((column - 7) % (cols - 8))
    ELSE column - (cols - 2)

\* need_screen_update.
NeedUpdateSlip(s, pww) ==   \* the mark is forgotten
    PageStart(s.cols, pww) # PageStart(s.cols, s.pww)

NeedUpdate(s, pww) == MarkSet(s) \/ PageStart(s.cols, pww) # PageStart(s.cols, s.pww)

\* edit_draw: what of the line is painted as marked on the page that begins at start.
Painted(s, l, start) ==
    LET len    == Len(Text[l])
        ends   == IF Before(s.mark, Cursor(s)) THEN <<s.mark, Cursor(s)>>
                  ELSE <<Cursor(s), s.mark>>
        top    == ends[1]
        bot    == ends[2]
        startpos == Min({len, start})
        endpos   == Min({len, start + s.cols - 1}) + 1
        top_x  == IF top[1] < l \/ top[2] < startpos THEN startpos ELSE top[2]
        bot_x  == IF bot[1] > l \/ bot[2] > endpos THEN endpos ELSE bot[2]
    IN  IF MarkSet(s) /\ top[1] <= l /\ l <= bot[1] THEN (top_x..bot_x - 1) \cap (0..len - 1)
        ELSE {}

\* update_line, with current_x for the line of the cursor and 0 for others.
Drawn(s, l) ==
    LET start == PageStart(s.cols, IF l = s.current THEN s.x ELSE 0) IN
    [line |-> l, page |-> start, marked |-> Painted(s, l, start)]

UpdateLines(s, lines) ==
    [s EXCEPT !.screen = [r \in 1..s.rows |->
        LET l == s.top + r - 1 IN IF l \in lines THEN Drawn(s, l) ELSE @[r]]]

Offscreen(s, l) == l < s.top \/ l >= s.top + s.rows

\* edit_update.
EditUpdate(s, location) ==
    LET goal == IF location = "CENTER" THEN s.rows \div 2 ELSE Min({s.y, s.rows - 1}) IN
    [s EXCEPT !.top = Max({1, s.current - goal}), !.refresh = TRUE]

\* reset_cursor.
ResetCursor(s) == [s EXCEPT !.y = s.current - s.top]

\* edit_refresh.
EditRefresh(s) ==
    LET t == IF ~Offscreen(s, s.current) THEN s
             ELSE EditUpdate(s, IF IsSet(s, "SMOOTH_SCROLL") THEN "NONE" ELSE "CENTER")
    IN  ResetCursor([t EXCEPT !.screen = [r \in 1..t.rows |->
            LET l == t.top + r - 1 IN IF l <= Filebot THEN Drawn(t, l) ELSE Empty]])

\* edit_scroll: wscrl moves the rows that stay, and the others are drawn.
Scrolled(s, lines) ==
    [s EXCEPT !.screen = [r \in 1..s.rows |->
        IF r + lines \in 1..s.rows THEN @[r + lines] ELSE Empty]]

EditScroll(s, direction, nlines) ==
    LET redraw == NeedUpdate(s, 0)
        top    == IF direction = "UPWARD" THEN Max({1, s.top - nlines})
                  ELSE Min({Filebot, s.top + nlines})
        moved  == IF direction = "UPWARD" THEN s.top - top ELSE top - s.top
        t      == [s EXCEPT !.top = top]
        all    == \/ direction = "UPWARD" /\ top = 1
                  \/ direction = "DOWNWARD" /\ top + s.rows - 1 >= Filebot
        fresh  == LET n == IF all THEN s.rows ELSE moved IN Min({s.rows, n + Min({n, 2})})
        lines  == IF direction = "UPWARD" THEN top..top + fresh - 2
                  ELSE top + s.rows - fresh + 1..top + s.rows - 1
    IN  IF moved = 0 \/ redraw \/ moved >= s.rows
        THEN [t EXCEPT !.refresh = @ \/ redraw \/ moved >= s.rows]
        ELSE UpdateLines(Scrolled(t, top - s.top), lines \cap (1..Filebot))

\* edit_redraw, after a move from old_current and pww.  When it brings the cursor into the
\* window it also asks for edit_refresh, which draws all that it draws here once more.
EditRedraw(s, old_current, pww) ==
    LET redraw == NeedUpdate(s, 0) \/ NeedUpdate(s, pww)
        from   == Min({old_current, s.current})
        to     == Max({old_current, s.current})
        lines  == IF MarkSet(s) THEN from..to ELSE {old_current, s.current}
    IN  IF Offscreen(s, old_current) \/ Offscreen(s, s.current) THEN EditUpdate(s, "CENTER")
        ELSE IF redraw THEN UpdateLines(s, lines) ELSE s

-----------------------------------------------------------------------------
(* Moving (move.cpp, search.cpp). *)

To(s, l, x) == [s EXCEPT !.current = l, !.x = x, !.pww = x]  \* and xplustabs

\* actual_x(data, placewewant): the place of the new line under the column wanted.
ToLineSlip(s, l) == [s EXCEPT !.current = l]   \* the place on the line is kept

ToLine(s, l) == [s EXCEPT !.current = l, !.x = Min({s.pww, Len(Text[l])})]

\* The end of do_left, do_right, do_home and do_end.
UpdatedLine(s, pww) == IF NeedUpdate(s, pww) THEN UpdateLines(s, {s.current}) ELSE s

ScrollAmount(s, scroll_only) ==
    IF IsSet(s, "SMOOTH_SCROLL") \/ scroll_only THEN 1 ELSE s.rows \div 2 + 1

Up(s, scroll_only) ==
    LET a == ToLine(s, s.current - 1)
        b == IF a.y = 0 \/ scroll_only
             THEN EditScroll(a, "UPWARD", ScrollAmount(a, scroll_only)) ELSE a
        below == IF NeedUpdate(b, 0) THEN {b.current + 1} ELSE {}
    IN  IF s.current = 1 \/ (scroll_only /\ s.top = 1) THEN s
        ELSE IF b.y > 0 THEN UpdateLines(b, below \cup {b.current}) ELSE b

Down(s, scroll_only) ==
    LET a == ToLine(s, s.current + 1)
        b == IF a.y = a.rows - 1 \/ scroll_only
             THEN [EditScroll(a, "DOWNWARD", ScrollAmount(a, scroll_only))
                     EXCEPT !.refresh = TRUE]
             ELSE a
        above == IF NeedUpdate(b, 0) THEN {b.current - 1} ELSE {}
    IN  IF s.current = Filebot THEN s
        ELSE IF b.y < b.rows - 1 THEN UpdateLines(b, above \cup {b.current}) ELSE b

Left(s) ==
    LET up == Up(s, FALSE) IN
    UpdatedLine(IF s.x > 0 THEN To(s, s.current, s.x - 1)
                ELSE IF s.current > 1 THEN To(up, up.current, Len(Text[up.current]))
                ELSE To(s, s.current, s.x), s.pww)

Right(s) ==
    LET down == Down(s, FALSE) IN
    UpdatedLine(IF s.x < Len(Text[s.current]) THEN To(s, s.current, s.x + 1)
                ELSE IF s.current < Filebot THEN To(down, down.current, 0)
                ELSE To(s, s.current, s.x), s.pww)

\* indent_length.
Indent(line) == Min({Len(line)} \cup {x \in 0..Len(line) - 1 : line[x + 1] # Blank})

Home(s) ==
    LET indent == Indent(Text[s.current])
        smart  == /\ IsSet(s, "SMART_HOME")
                  /\ indent # s.x /\ indent # Len(Text[s.current])
    IN  UpdatedLine(To(s, s.current, IF smart THEN indent ELSE 0), s.pww)

End(s) == UpdatedLine(To(s, s.current, Len(Text[s.current])), s.pww)

FirstLine(s) == [To(s, 1, 0) EXCEPT !.top = 1, !.refresh = TRUE]

LastLine(s) ==
    [To(s, Filebot, Len(Text[Filebot])) EXCEPT !.y = s.rows - 1, !.refresh = TRUE]

\* Without SMOOTH_SCROLL paging starts at the top left corner of the window.
PageFrom(s) ==
    IF IsSet(s, "SMOOTH_SCROLL") THEN s ELSE [s EXCEPT !.current = s.top, !.pww = 0, !.y = 0]

PageUp(s) ==
    LET t == PageFrom(s) IN
    IF s.current = 1 \/ s.current <= s.rows - 2 THEN FirstLine(s)
    ELSE EditUpdate(ToLine(t, Max({1, t.current - Max({0, s.rows - 2})})), "NONE")

PageDown(s) ==
    LET t == PageFrom(s) IN
    IF s.current + s.rows - 2 >= Filebot THEN LastLine(s)
    ELSE EditUpdate(ToLine(t, Min({Filebot, t.current + Max({0, s.rows - 2})})), "NONE")

\* is_word_mbchar, of the character at x.
WordAt(s, l, x) ==
    /\ x < Len(Text[l])
    /\ Text[l][x + 1] \in Letters \cup (IF IsSet(s, "WORD_BOUNDS") THEN Puncts ELSE {})
WordsOf(s, l) == {x \in 0..Len(Text[l]) - 1 : WordAt(s, l, x)}

\* do_next_word: out of this word, past the character after it, and on to a letter.
NextWord(s) ==
    LET stop  == Min({x \in s.x..Len(Text[s.current]) : ~WordAt(s, s.current, x)})
        rest  == {x \in WordsOf(s, s.current) : x > stop}
        later == {l \in s.current + 1..Filebot : WordsOf(s, l) # {}}
        to    == IF rest # {} THEN <<s.current, Min(rest)>>
                 ELSE IF later # {} THEN <<Min(later), Min(WordsOf(s, Min(later)))>>
                 ELSE <<Filebot, Len(Text[Filebot])>>
    IN  EditRedraw(To(s, to[1], to[2]), s.current, s.pww)

\* The first character of the word that x is in.
WordStart(s, l, x) == Max({0} \cup {y + 1 : y \in {z \in 0..x - 1 : ~WordAt(s, l, z)}})

\* Where the first loop of do_prev_word stops: on the character before this word.  There is
\* none when the word stands in column 0, and the search goes on in the lines above.
BeforeWordSlip(s) == s.x   \* the loop is left out

BeforeWord(s) == Max({-1} \cup {x \in 0..s.x : ~WordAt(s, s.current, x)})

PrevWord(s) ==
    LET rest  == {x \in WordsOf(s, s.current) : x < BeforeWord(s)}
        above == {l \in 1..s.current - 1 : WordsOf(s, l) # {}}
        l     == IF rest # {} THEN s.current ELSE Max(above)
        x     == Max(IF rest # {} THEN rest ELSE WordsOf(s, l))
        to    == IF rest = {} /\ above = {} THEN <<1, 0>> ELSE <<l, WordStart(s, l, x)>>
    IN  EditRedraw(To(s, to[1], to[2]), s.current, s.pww)

\* do_mark.
Mark(s) ==
    IF MarkSet(s) THEN EditRefresh([s EXCEPT !.mark = NoMark])
    ELSE [s EXCEPT !.mark = Cursor(s)]

\* do_gotolinecolumn.
GoTo(s, line, column) ==
    LET t == ToLine([s EXCEPT !.pww = column - 1], Min({line, Filebot})) IN
    EditRefresh(EditUpdate(t, "CENTER"))

\* The cursor goes to what was found.
Jump(s, p) == EditRedraw(To(s, p[1], p[2]), s.current, s.pww)

\* search_replace_abort.
Abort(s) == IF MarkSet(s) THEN EditRefresh(s) ELSE s

\* window_init and total_refresh: the windows are new.
Resized(s, rows, cols) ==
    EditRefresh([s EXCEPT !.rows = rows, !.cols = cols, !.screen = [r \in 1..rows |-> Empty]])

-----------------------------------------------------------------------------

\* What do_input does after a command, and main before the next.
Finish(s) ==
    ResetCursor(IF s.refresh THEN [EditRefresh(s) EXCEPT !.refresh = FALSE] ELSE s)

Init ==
    \E flags \in FlagSets, rows \in Heights, cols \in Widths :
      w = EditRefresh([current |-> 1, x |-> 0, pww |-> 0, y |-> 0, top |-> 1, mark |-> NoMark,
                       refresh |-> FALSE, flags |-> flags, rows |-> rows, cols |-> cols,
                       screen |-> [r \in 1..rows |-> Empty]])

do_up         == w' = Finish(Up(w, FALSE))
do_scroll_up  == w' = Finish(Up(w, TRUE))
do_down       == w' = Finish(Down(w, FALSE))
do_scroll_down == w' = Finish(Down(w, TRUE))
do_left       == w' = Finish(Left(w))
do_right      == w' = Finish(Right(w))
do_home       == w' = Finish(Home(w))
do_end        == w' = Finish(End(w))
do_first_line == w' = Finish(FirstLine(w))
do_last_line  == w' = Finish(LastLine(w))
do_page_up    == w' = Finish(PageUp(w))
do_page_down  == w' = Finish(PageDown(w))
do_next_word  == w' = Finish(NextWord(w))
do_prev_word  == w' = Finish(PrevWord(w))
do_mark       == w' = Finish(Mark(w))
do_gotolinecolumn ==
    \E line \in 1..Filebot + 1, column \in Columns : w' = Finish(GoTo(w, line, column))
do_search     == \E p \in PositionsOf(Text) : w' = Finish(Abort(Jump(w, p)))
do_find_bracket ==
    \E p \in PositionsOf(Text) : p[2] < Len(Text[p[1]]) /\ w' = Finish(Jump(w, p))
do_toggle ==   \* of NO_HELP, two rows of shortcuts, or of MORE_SPACE, the row under the title
    \E rows \in Heights : rows - w.rows \in {-2, -1, 1, 2} /\ w' = Finish(Resized(w, rows, w.cols))
handle_sigwinch ==
    \E rows \in Heights, cols \in Widths : w' = Resized(w, rows, cols)

Next ==
    \/ do_up \/ do_scroll_up \/ do_down \/ do_scroll_down \/ do_left \/ do_right
    \/ do_home \/ do_end \/ do_first_line \/ do_last_line \/ do_page_up \/ do_page_down
    \/ do_next_word \/ do_prev_word \/ do_mark \/ do_gotolinecolumn \/ do_search
    \/ do_find_bracket \/ do_toggle \/ handle_sigwinch

Spec == Init /\ [][Next]_vars

-----------------------------------------------------------------------------
(* Properties. *)

\* The cursor and the mark are in the text, the cursor is as near to the column it is wanted
\* in as its line lets it, whatever lines and pages it came by, and it is in a row of the
\* window.
TypeOK ==
    /\ Cursor(w) \in PositionsOf(Text)
    /\ w.x = Min({w.pww, Len(Text[w.current])})
    /\ w.mark \in PositionsOf(Text) \cup {NoMark}
    /\ w.top \in 1..Filebot
    /\ w.y = w.current - w.top /\ w.y \in 0..w.rows - 1
    /\ w.screen \in [1..w.rows -> [line : 0..Filebot, page : Nat, marked : SUBSET Nat]]

\* Though commands draw only the lines they think have changed, and scroll the others, the
\* screen is that of the whole text drawn anew: the line of the cursor is on it, at
\* current_y, and on the page the cursor is on; the other lines are on their first page;
\* what is painted of them is what lies between mark and cursor; below the text it is blank.
ScreenShowsText ==
    LET between(p) ==
          /\ MarkSet(w)
          /\ Before(w.mark, Cursor(w)) => ~Before(p, w.mark) /\ Before(p, Cursor(w))
          /\ ~Before(w.mark, Cursor(w)) => ~Before(p, Cursor(w)) /\ Before(p, w.mark) IN
    /\ w.screen[w.y + 1].line = w.current
    /\ LET page == w.screen[w.y + 1].page IN w.x \in page..page + w.cols - 1
    /\ \A r \in 1..w.rows :
         LET row == w.screen[r]  l == w.top + r - 1 IN
         /\ row.line = IF l <= Filebot THEN l ELSE 0
         /\ l # w.current => row.page = 0
         /\ l <= Filebot =>
              row.marked = {x \in 0..Len(Text[l]) - 1 :
                              between(<<l, x>>) /\ x \in row.page..row.page + w.cols - 1}

\* Wherever the cursor is, the next word is the first that begins after it, and the previous
\* one the last that begins before the word the cursor is in; without one the cursor goes to
\* the end or to the beginning of the text.
WordByWord ==
    LET starts == {p \in PositionsOf(Text) :
                     WordAt(w, p[1], p[2]) /\ (p[2] > 0 => ~WordAt(w, p[1], p[2] - 1))}
        after  == {p \in starts : Before(Cursor(w), p)}
        here   == {p \in starts : /\ ~Before(Cursor(w), p) /\ p[1] = w.current
                                  /\ \A x \in p[2]..w.x : WordAt(w, p[1], x)}
        before == {p \in starts : Before(p, Cursor(w))} \ here
        next   == Cursor(NextWord(w))
        prev   == Cursor(PrevWord(w)) IN
    /\ \/ next \in after /\ \A p \in after : ~Before(p, next)
       \/ after = {} /\ next = <<Filebot, Len(Text[Filebot])>>
    /\ \/ prev \in before /\ \A p \in before : ~Before(prev, p)
       \/ before = {} /\ prev = <<1, 0>>
=================================================================================
