------------------------------ MODULE WindowProofs ------------------------------
(***************************************************************************)
(* Proofs about the edit window, for every text, size of the window and    *)
(* set of flags.                                                           *)
(*                                                                         *)
(* Shown is the inductive invariant: the types, the cursor in a row of the *)
(* window, and current_y that row.  A command passes through windows that  *)
(* are not Shown, so what is proved of its parts is Typed or Ready: Ready  *)
(* windows are those Finish makes Shown, because they ask for a drawing or *)
(* still have the cursor on the screen.  What the screen shows needs Fresh *)
(* too, every row as drawing it anew would leave it, and of a command that *)
(* it is Clean: its window will be drawn, or is Fresh though it drew only  *)
(* some of the rows.                                                       *)
(***************************************************************************)
EXTENDS Window, WellFoundedInduction, TLAPS

-----------------------------------------------------------------------------
(* Least and greatest elements. *)

LEMMA LeastExists ==
    ASSUME NEW S, S \subseteq Nat, S # {}
    PROVE  \E a \in S : \A b \in S : a <= b
<1> DEFINE R == {p \in Nat \X Nat : p[1] < p[2]}
<1>1. IsWellFoundedOn(R, Nat)
      BY NatLessThanWellFounded DEF OpToRel
<1>2. \E a \in S : \A b \in S : <<b, a>> \notin R
  <2> HIDE DEF R
  <2> QED BY <1>1, WFMin
<1>3. PICK a \in S : \A b \in S : <<b, a>> \notin R
      BY <1>2
<1>4. \A b \in S : a <= b
  <2> TAKE b \in S
  <2>1. a \in Nat /\ b \in Nat
        OBVIOUS
  <2>2. ~(b < a)
        BY <2>1, <1>3
  <2> QED BY <2>1, <2>2
<1> QED BY <1>4

LEMMA LeastIn ==
    ASSUME NEW S, S \subseteq Nat, S # {}
    PROVE  Min(S) \in S /\ \A b \in S : Min(S) <= b
BY LeastExists DEF Min

LEMMA GreatestIn ==
    ASSUME NEW S, NEW n \in Nat, S \subseteq -1..n, S # {}
    PROVE  Max(S) \in S /\ \A b \in S : b <= Max(S)
<1> DEFINE T == {n - a : a \in S}
<1>1. T \subseteq Nat /\ T # {}
  <2>1. \A a \in S : n - a \in Nat
        OBVIOUS
  <2> QED BY <2>1
<1>2. PICK t \in T : \A u \in T : t <= u
      BY <1>1, LeastExists
<1>3. PICK a \in S : t = n - a
      BY <1>2
<1>4. \A b \in S : b <= a
  <2> TAKE b \in S
  <2>1. n - b \in T /\ a \in Int /\ b \in Int
        OBVIOUS
  <2>2. n - a <= n - b
        BY <1>2, <1>3, <2>1
  <2> HIDE DEF T
  <2> QED BY <2>1, <2>2
<1> QED BY <1>4 DEF Max

LEMMA LeastOfTwo ==
    ASSUME NEW a \in Int, NEW b \in Int
    PROVE  Min({a, b}) = IF a <= b THEN a ELSE b
<1> DEFINE m == IF a <= b THEN a ELSE b
<1>1. m \in {a, b} /\ \A y \in {a, b} : m <= y
      OBVIOUS
<1>2. \A x \in {a, b} : (\A y \in {a, b} : x <= y) => x = m
      OBVIOUS
<1> QED BY <1>1, <1>2 DEF Min

LEMMA GreatestOfTwo ==
    ASSUME NEW a \in Int, NEW b \in Int
    PROVE  Max({a, b}) = IF a <= b THEN b ELSE a
<1> DEFINE m == IF a <= b THEN b ELSE a
<1>1. m \in {a, b} /\ \A y \in {a, b} : m >= y
      OBVIOUS
<1>2. \A x \in {a, b} : (\A y \in {a, b} : x >= y) => x = m
      OBVIOUS
<1> QED BY <1>1, <1>2 DEF Max

-----------------------------------------------------------------------------
(* Types. *)

Rows == [line : 0..Filebot, page : Nat, marked : SUBSET Nat]
Screens == UNION {[1..n -> Rows] : n \in Nat}
Windows == [current : 1..Filebot, x : Nat, pww : Nat, y : Nat, top : 1..Filebot,
            mark : PositionsOf(Text) \cup {NoMark}, refresh : BOOLEAN, flags : FlagSets,
            rows : Nat \ {0}, cols : Nat \ (0..3), screen : Screens]

\* A window in the middle of a command.
Typed(s) ==
    /\ s \in Windows
    /\ s.x = IF s.pww <= Len(Text[s.current]) THEN s.pww ELSE Len(Text[s.current])
    /\ s.screen \in [1..s.rows -> Rows]

OnScreen(s, l) == s.top <= l /\ l < s.top + s.rows

\* A window with the cursor in the row it says.
Shown(s) == Typed(s) /\ OnScreen(s, s.current) /\ s.y = s.current - s.top

\* Two windows that differ at most in these fields.
SameBut(fields, s, t) ==
    /\ "current" \in fields \/ t.current = s.current
    /\ "x" \in fields \/ t.x = s.x
    /\ "pww" \in fields \/ t.pww = s.pww
    /\ "y" \in fields \/ t.y = s.y
    /\ "top" \in fields \/ t.top = s.top
    /\ "mark" \in fields \/ t.mark = s.mark
    /\ "refresh" \in fields \/ t.refresh = s.refresh
    /\ "screen" \in fields \/ t.screen = s.screen
    /\ t.flags = s.flags /\ t.rows = s.rows /\ t.cols = s.cols

LEMMA TextTypes ==
    /\ Filebot \in Nat /\ Filebot >= 1
    /\ \A l \in 1..Filebot : Text[l] \in Seq(Letters \cup Puncts \cup {Blank})
    /\ \A l \in 1..Filebot : Len(Text[l]) \in Nat
BY WindowAssumption DEF WindowAssumption, Filebot

LEMMA PositionIn ==
    ASSUME NEW l \in 1..Filebot, NEW x \in 0..Len(Text[l])
    PROVE  <<l, x>> \in PositionsOf(Text)
BY DEF PositionsOf, Filebot

LEMMA InPosition ==
    ASSUME NEW p \in PositionsOf(Text)
    PROVE  p = <<p[1], p[2]>> /\ p[1] \in 1..Filebot /\ p[2] \in 0..Len(Text[p[1]])
BY DEF PositionsOf, Filebot

LEMMA PageStartType ==
    ASSUME NEW cols \in Nat \ (0..3), NEW column \in Nat
    PROVE  PageStart(cols, column) \in Nat
<1>1. CASE column < cols - 1
      BY <1>1 DEF PageStart
<1>2. CASE column >= cols - 1 /\ cols <= 8
      BY <1>2 DEF PageStart
<1>3. CASE column >= cols - 1 /\ cols > 8
  <2> DEFINE a == column - 7
             b == cols - 8
  <2>1. a \in Nat /\ b \in Nat \ {0}
        BY <1>3
  <2>2. a % b \in Nat /\ a % b <= a
    <3> HIDE DEF a, b
    <3> QED BY <2>1
  <2>3. a - (a % b) \in Nat
        BY <2>1, <2>2
  <2> QED BY <2>3, <1>3 DEF PageStart
<1> QED BY <1>1, <1>2, <1>3

-----------------------------------------------------------------------------
(* Drawing keeps the types, and what it does not draw. *)

LEMMA DrawnType ==
    ASSUME NEW s, Typed(s), NEW l \in 1..Filebot
    PROVE  Drawn(s, l) \in Rows
<1> DEFINE column == IF l = s.current THEN s.x ELSE 0
<1>1. s.cols \in Nat \ (0..3) /\ column \in Nat
      BY DEF Typed, Windows
<1>2. PageStart(s.cols, column) \in Nat
      BY <1>1, PageStartType
<1>3. \A start : Painted(s, l, start) \in SUBSET Nat
      BY TextTypes DEF Painted
<1> QED BY <1>2, <1>3 DEF Drawn, Rows

LEMMA OtherScreen ==
    ASSUME NEW s, Typed(s), NEW screen \in [1..s.rows -> Rows]
    PROVE  LET t == [s EXCEPT !.screen = screen] IN Typed(t) /\ SameBut({"screen"}, s, t)
<1> DEFINE t == [s EXCEPT !.screen = screen]
<1>1. s.rows \in Nat
      BY DEF Typed, Windows
<1>2. screen \in Screens
      BY <1>1 DEF Screens
<1>3. t \in Windows
      BY <1>2 DEF Typed, Windows
<1>4. t.screen = screen /\ SameBut({"screen"}, s, t)
      BY DEF Typed, Windows, SameBut
<1> HIDE DEF t
<1>5. Typed(t)
      BY <1>3, <1>4 DEF Typed, SameBut
<1> QED BY <1>4, <1>5 DEF t

LEMMA UpdateLinesTypes ==
    ASSUME NEW s, Typed(s), NEW lines \in SUBSET (1..Filebot)
    PROVE  LET t == UpdateLines(s, lines) IN Typed(t) /\ SameBut({"screen"}, s, t)
<1> DEFINE screen == [r \in 1..s.rows |->
               LET l == s.top + r - 1 IN IF l \in lines THEN Drawn(s, l) ELSE s.screen[r]]
<1>1. \A r \in 1..s.rows : s.screen[r] \in Rows
      BY DEF Typed
<1>2. screen \in [1..s.rows -> Rows]
      BY <1>1, DrawnType
<1>3. UpdateLines(s, lines) = [s EXCEPT !.screen = screen]
      BY DEF UpdateLines
<1> HIDE DEF screen
<1> QED BY <1>2, <1>3, OtherScreen

LEMMA OtherRow ==
    ASSUME NEW s, Typed(s), NEW y \in Nat
    PROVE  LET t == [s EXCEPT !.y = y] IN
           Typed(t) /\ t.y = y /\ SameBut({"y"}, s, t)
<1> DEFINE t == [s EXCEPT !.y = y]
<1>1. t \in Windows
      BY DEF Typed, Windows
<1>2. t.y = y /\ SameBut({"y"}, s, t)
      BY DEF Typed, Windows, SameBut
<1> HIDE DEF t
<1>3. Typed(t)
      BY <1>1, <1>2 DEF Typed, SameBut
<1> QED BY <1>2, <1>3 DEF t

LEMMA OtherRefresh ==
    ASSUME NEW s, Typed(s), NEW refresh \in BOOLEAN
    PROVE  LET t == [s EXCEPT !.refresh = refresh] IN
           Typed(t) /\ t.refresh = refresh /\ SameBut({"refresh"}, s, t)
<1> DEFINE t == [s EXCEPT !.refresh = refresh]
<1>1. t \in Windows
      BY DEF Typed, Windows
<1>2. t.refresh = refresh /\ SameBut({"refresh"}, s, t)
      BY DEF Typed, Windows, SameBut
<1> HIDE DEF t
<1>3. Typed(t)
      BY <1>1, <1>2 DEF Typed, SameBut
<1> QED BY <1>2, <1>3 DEF t

LEMMA OtherTop ==
    ASSUME NEW s, Typed(s), NEW top \in 1..Filebot
    PROVE  LET t == [s EXCEPT !.top = top] IN
           Typed(t) /\ t.top = top /\ SameBut({"top"}, s, t)
<1> DEFINE t == [s EXCEPT !.top = top]
<1>1. t \in Windows
      BY DEF Typed, Windows
<1>2. t.top = top /\ SameBut({"top"}, s, t)
      BY DEF Typed, Windows, SameBut
<1> HIDE DEF t
<1>3. Typed(t)
      BY <1>1, <1>2 DEF Typed, SameBut
<1> QED BY <1>2, <1>3 DEF t

LEMMA OtherMark ==
    ASSUME NEW s, Typed(s), NEW mark \in PositionsOf(Text) \cup {NoMark}
    PROVE  LET t == [s EXCEPT !.mark = mark] IN
           Typed(t) /\ t.mark = mark /\ SameBut({"mark"}, s, t)
<1> DEFINE t == [s EXCEPT !.mark = mark]
<1>1. t \in Windows
      BY DEF Typed, Windows
<1>2. t.mark = mark /\ SameBut({"mark"}, s, t)
      BY DEF Typed, Windows, SameBut
<1> HIDE DEF t
<1>3. Typed(t)
      BY <1>1, <1>2 DEF Typed, SameBut
<1> QED BY <1>2, <1>3 DEF t

At(s, l, x, p) == [s EXCEPT !.current = l, !.x = x, !.pww = p]

LEMMA OtherPlace ==
    ASSUME NEW s, Typed(s), NEW l \in 1..Filebot, NEW p \in Nat,
           NEW x \in Nat, x = IF p <= Len(Text[l]) THEN p ELSE Len(Text[l])
    PROVE  LET t == At(s, l, x, p) IN
           /\ Typed(t) /\ t.current = l /\ t.x = x /\ t.pww = p
           /\ SameBut({"current", "x", "pww"}, s, t)
<1> DEFINE t == At(s, l, x, p)
<1>2. t \in Windows
      BY DEF At, Typed, Windows
<1>3. /\ t.current = l /\ t.x = x /\ t.pww = p /\ SameBut({"current", "x", "pww"}, s, t)
      BY DEF At, Typed, Windows, SameBut
<1> HIDE DEF t
<1>4. Typed(t)
      BY <1>2, <1>3 DEF Typed, SameBut
<1> QED BY <1>3, <1>4 DEF t

LEMMA ToTypes ==
    ASSUME NEW s, Typed(s), NEW l \in 1..Filebot, NEW x \in 0..Len(Text[l])
    PROVE  LET t == To(s, l, x) IN
           /\ Typed(t) /\ t.current = l /\ t.x = x /\ t.pww = x
           /\ SameBut({"current", "x", "pww"}, s, t)
<1>1. x \in Nat /\ x = IF x <= Len(Text[l]) THEN x ELSE Len(Text[l])
      BY TextTypes
<1> DEFINE t == At(s, l, x, x)
<1>2. /\ Typed(t) /\ t.current = l /\ t.x = x /\ t.pww = x
      /\ SameBut({"current", "x", "pww"}, s, t)
      BY <1>1, OtherPlace
<1> QED BY <1>2 DEF To, At

LEMMA ToLineTypes ==
    ASSUME NEW s, Typed(s), NEW l \in 1..Filebot
    PROVE  LET t == ToLine(s, l) IN
           /\ Typed(t) /\ t.current = l /\ SameBut({"current", "x"}, s, t)
           /\ t.x = IF s.pww <= Len(Text[l]) THEN s.pww ELSE Len(Text[l])
<1> DEFINE x == Min({s.pww, Len(Text[l])})
           t == At(s, l, x, s.pww)
<1>1. s.pww \in Nat
      BY DEF Typed, Windows
<1>2. x = (IF s.pww <= Len(Text[l]) THEN s.pww ELSE Len(Text[l])) /\ x \in Nat
      BY <1>1, TextTypes, LeastOfTwo
<1> HIDE DEF x
<1>3. /\ Typed(t) /\ t.current = l /\ t.x = x /\ t.pww = s.pww
      /\ SameBut({"current", "x", "pww"}, s, t)
      BY <1>1, <1>2, OtherPlace
<1>4. ToLine(s, l) = t
      BY DEF ToLine, At, x, Typed, Windows
<1> HIDE DEF t
<1> QED BY <1>2, <1>3, <1>4 DEF SameBut

LEMMA EditUpdateTypes ==
    ASSUME NEW s, Typed(s), NEW location
    PROVE  LET t == EditUpdate(s, location) IN
           /\ Typed(t) /\ t.refresh /\ OnScreen(t, t.current)
           /\ SameBut({"top", "refresh"}, s, t)
<1> DEFINE goal == IF location = "CENTER" THEN s.rows \div 2 ELSE Min({s.y, s.rows - 1})
           top  == Max({1, s.current - goal})
<1>1. s.rows \in Nat \ {0} /\ s.y \in Nat /\ s.current \in 1..Filebot /\ Filebot \in Nat
      BY TextTypes DEF Typed, Windows
<1>2. goal \in 0..s.rows - 1
  <2>1. CASE location = "CENTER"
        BY <1>1, <2>1
  <2>2. CASE location # "CENTER"
    <3>1. Min({s.y, s.rows - 1}) = IF s.y <= s.rows - 1 THEN s.y ELSE s.rows - 1
          BY <1>1, LeastOfTwo
    <3> QED BY <1>1, <2>2, <3>1
  <2> QED BY <2>1, <2>2
<1>3. top = IF 1 <= s.current - goal THEN s.current - goal ELSE 1
  <2> HIDE DEF goal
  <2> QED BY <1>1, <1>2, GreatestOfTwo
<1>4. top \in 1..s.current /\ s.current < top + s.rows
  <2> HIDE DEF goal, top
  <2> QED BY <1>1, <1>2, <1>3
<1>5. EditUpdate(s, location) = [s EXCEPT !.top = top, !.refresh = TRUE]
      BY DEF EditUpdate
<1> DEFINE t == [s EXCEPT !.top = top, !.refresh = TRUE]
<1> HIDE DEF top, goal
<1>6. top \in 1..Filebot
      BY <1>1, <1>4
<1>7. t \in Windows
      BY <1>6 DEF Typed, Windows
<1>8. t.top = top /\ t.refresh /\ SameBut({"top", "refresh"}, s, t)
      BY DEF Typed, Windows, SameBut
<1>9. Typed(t)
  <2> HIDE DEF t
  <2> QED BY <1>7, <1>8 DEF Typed, SameBut
<1>10. OnScreen(t, t.current)
  <2> HIDE DEF t
  <2> QED BY <1>1, <1>4, <1>8 DEF OnScreen, SameBut
<1> QED BY <1>5, <1>8, <1>9, <1>10

LEMMA ResetCursorShows ==
    ASSUME NEW s, Typed(s), OnScreen(s, s.current)
    PROVE  Shown(ResetCursor(s))
<1> DEFINE y == s.current - s.top
<1>1. y \in Nat
      BY TextTypes DEF Typed, Windows, OnScreen
<1>2. ResetCursor(s) = [s EXCEPT !.y = y]
      BY DEF ResetCursor
<1> DEFINE t == [s EXCEPT !.y = y]
<1>3. Typed(t) /\ t.y = y /\ SameBut({"y"}, s, t)
  <2> HIDE DEF y
  <2> QED BY <1>1, OtherRow
<1> HIDE DEF t
<1> QED BY <1>2, <1>3 DEF t, Shown, OnScreen, SameBut

LEMMA EditRefreshShows ==
    ASSUME NEW s, Typed(s)
    PROVE  Shown(EditRefresh(s))
<1> DEFINE t == IF ~Offscreen(s, s.current) THEN s
                ELSE EditUpdate(s, IF IsSet(s, "SMOOTH_SCROLL") THEN "NONE" ELSE "CENTER")
           screen == [r \in 1..t.rows |->
                        LET l == t.top + r - 1 IN IF l <= Filebot THEN Drawn(t, l) ELSE Empty]
           u == [t EXCEPT !.screen = screen]
<1>1. Typed(t) /\ OnScreen(t, t.current)
  <2>1. CASE Offscreen(s, s.current)
        BY <2>1, EditUpdateTypes
  <2>2. CASE ~Offscreen(s, s.current)
        BY <2>2 DEF Offscreen, OnScreen, Typed, Windows
  <2> QED BY <2>1, <2>2
<1>2. screen \in [1..t.rows -> Rows]
  <2> HIDE DEF t
  <2>1. Empty \in Rows
        BY TextTypes DEF Empty, Rows
  <2>2. ASSUME NEW r \in 1..t.rows, t.top + r - 1 <= Filebot
        PROVE  Drawn(t, t.top + r - 1) \in Rows
    <3>1. t.top + r - 1 \in 1..Filebot
          BY <1>1, <2>2, TextTypes DEF Typed, Windows
    <3> QED BY <1>1, <3>1, DrawnType
  <2> QED BY <2>1, <2>2
<1>3. EditRefresh(s) = ResetCursor(u)
      BY DEF EditRefresh
<1> HIDE DEF t, screen
<1>4. Typed(u) /\ OnScreen(u, u.current)
      BY <1>1, <1>2, OtherScreen DEF OnScreen, SameBut
<1> HIDE DEF u
<1> QED BY <1>3, <1>4, ResetCursorShows

\* What edit_refresh leaves.
Refreshed(s) == \E t : Typed(t) /\ s = EditRefresh(t)

LEMMA RefreshedShows ==
    ASSUME NEW s, Refreshed(s)
    PROVE  Shown(s)
BY EditRefreshShows DEF Refreshed

\* What a command must leave behind: Finish draws anew, or need not.
Ready(s) == Typed(s) /\ (s.refresh \/ OnScreen(s, s.current))

LEMMA FinishShows ==
    ASSUME NEW s, Ready(s)
    PROVE  Shown(Finish(s))
<1> DEFINE t == IF s.refresh THEN [EditRefresh(s) EXCEPT !.refresh = FALSE] ELSE s
<1>1. Typed(t) /\ OnScreen(t, t.current)
  <2>1. CASE s.refresh
    <3>1. Shown(EditRefresh(s))
          BY EditRefreshShows DEF Ready
    <3> DEFINE e == EditRefresh(s)
    <3>2. /\ Typed(e) /\ OnScreen(e, e.current) /\ t = [e EXCEPT !.refresh = FALSE]
          BY <2>1, <3>1 DEF Shown
    <3> HIDE DEF e, t
    <3>3. Typed(t) /\ SameBut({"refresh"}, e, t)
          BY <3>2, OtherRefresh
    <3> QED BY <3>2, <3>3 DEF OnScreen, SameBut
  <2>2. CASE ~s.refresh
        BY <2>2 DEF Ready
  <2> QED BY <2>1, <2>2
<1>2. Finish(s) = ResetCursor(t)
      BY DEF Finish
<1> HIDE DEF t
<1> QED BY <1>1, <1>2, ResetCursorShows

-----------------------------------------------------------------------------
(* Scrolling. *)

\* Where edit_scroll puts the top of the window.
ScrolledTop(s, direction, n) ==
    IF direction = "UPWARD" THEN Max({1, s.top - n}) ELSE Min({Filebot, s.top + n})

LEMMA ScrolledTopIn ==
    ASSUME NEW s, Typed(s), NEW direction, NEW n \in Nat
    PROVE  /\ ScrolledTop(s, direction, n) \in 1..Filebot
           /\ direction = "UPWARD" => /\ ScrolledTop(s, direction, n) <= s.top
                                      /\ ScrolledTop(s, direction, n) >= s.top - n
                                      /\ s.top > 1 /\ n > 0 =>
                                           ScrolledTop(s, direction, n) < s.top
<1>1. s.top \in 1..Filebot /\ Filebot \in Nat /\ Filebot >= 1
      BY TextTypes DEF Typed, Windows
<1>2. Max({1, s.top - n}) = IF 1 <= s.top - n THEN s.top - n ELSE 1
      BY <1>1, GreatestOfTwo
<1>3. Min({Filebot, s.top + n}) = IF Filebot <= s.top + n THEN Filebot ELSE s.top + n
      BY <1>1, LeastOfTwo
<1> QED BY <1>1, <1>2, <1>3 DEF ScrolledTop

LEMMA ScrolledTypes ==
    ASSUME NEW s, Typed(s), NEW lines \in Int
    PROVE  LET t == Scrolled(s, lines) IN Typed(t) /\ SameBut({"screen"}, s, t)
<1> DEFINE screen == [r \in 1..s.rows |->
                         IF r + lines \in 1..s.rows THEN s.screen[r + lines] ELSE Empty]
<1>1. Empty \in Rows
      BY TextTypes DEF Empty, Rows
<1>2. screen \in [1..s.rows -> Rows]
      BY <1>1 DEF Typed
<1>3. Scrolled(s, lines) = [s EXCEPT !.screen = screen]
      BY DEF Scrolled
<1> HIDE DEF screen
<1> QED BY <1>2, <1>3, OtherScreen

LEMMA EditScrollTypes ==
    ASSUME NEW s, Typed(s), NEW direction, NEW n \in Nat
    PROVE  LET t == EditScroll(s, direction, n) IN
           /\ Typed(t) /\ t.top = ScrolledTop(s, direction, n)
           /\ SameBut({"top", "refresh", "screen"}, s, t)
<1> DEFINE top == ScrolledTop(s, direction, n)
           t   == [s EXCEPT !.top = top]
<1>1. top \in 1..Filebot
      BY ScrolledTopIn
<1>2. Typed(t) /\ t.top = top /\ SameBut({"top"}, s, t)
  <2> HIDE DEF top
  <2> QED BY <1>1, OtherTop
<1>3. t.refresh \in BOOLEAN
      BY <1>2 DEF Typed, Windows
<1>4. \E refresh \in BOOLEAN, lines \in SUBSET (1..Filebot) :
        \/ EditScroll(s, direction, n) = [t EXCEPT !.refresh = refresh]
        \/ EditScroll(s, direction, n) = UpdateLines(Scrolled(t, top - s.top), lines)
  <2> DEFINE redraw == NeedUpdate(s, 0)
             moved  == IF direction = "UPWARD" THEN s.top - top ELSE top - s.top
             all    == \/ direction = "UPWARD" /\ top = 1
                       \/ direction = "DOWNWARD" /\ top + s.rows - 1 >= Filebot
             fresh  == LET m == IF all THEN s.rows ELSE moved
                       IN  Min({s.rows, m + Min({m, 2})})
             lines  == IF direction = "UPWARD" THEN top..top + fresh - 2
                       ELSE top + s.rows - fresh + 1..top + s.rows - 1
             refresh == t.refresh \/ redraw \/ moved >= s.rows
  <2>1. EditScroll(s, direction, n) =
          IF moved = 0 \/ redraw \/ moved >= s.rows
          THEN [t EXCEPT !.refresh = @ \/ redraw \/ moved >= s.rows]
          ELSE UpdateLines(Scrolled(t, top - s.top), lines \cap (1..Filebot))
        BY DEF EditScroll, ScrolledTop
  <2>2. refresh \in BOOLEAN
        BY <1>3 DEF NeedUpdate, MarkSet
  <2>3. [t EXCEPT !.refresh = @ \/ redraw \/ moved >= s.rows] = [t EXCEPT !.refresh = refresh]
        OBVIOUS
  <2>4. lines \cap (1..Filebot) \in SUBSET (1..Filebot)
        OBVIOUS
  <2> HIDE DEF t, top, lines, refresh, moved, redraw
  <2> QED BY <2>1, <2>2, <2>3, <2>4
<1> DEFINE u == EditScroll(s, direction, n)
<1>5. PICK refresh \in BOOLEAN, lines \in SUBSET (1..Filebot) :
        \/ u = [t EXCEPT !.refresh = refresh]
        \/ u = UpdateLines(Scrolled(t, top - s.top), lines)
      BY <1>4
<1> HIDE DEF t, top, u
<1>6. CASE u = [t EXCEPT !.refresh = refresh]
  <2>1. Typed(u) /\ SameBut({"refresh"}, t, u)
        BY <1>2, <1>6, OtherRefresh
  <2> QED BY <1>2, <2>1 DEF SameBut, u, top
<1>7. CASE u = UpdateLines(Scrolled(t, top - s.top), lines)
  <2> DEFINE v == Scrolled(t, top - s.top)
  <2>1. top - s.top \in Int
        BY <1>1 DEF Typed, Windows
  <2>2. Typed(v) /\ SameBut({"screen"}, t, v)
        BY <1>2, <2>1, ScrolledTypes
  <2> HIDE DEF v
  <2>3. Typed(u) /\ SameBut({"screen"}, v, u)
        BY <1>7, <2>2, UpdateLinesTypes DEF v
  <2> QED BY <1>2, <2>2, <2>3 DEF SameBut, u, top
<1> QED BY <1>5, <1>6, <1>7

-----------------------------------------------------------------------------
(* Every command leaves a window that Finish can put right. *)

LEMMA ReadyLines ==
    ASSUME NEW s, Ready(s), NEW lines \in SUBSET (1..Filebot)
    PROVE  LET t == UpdateLines(s, lines) IN Ready(t) /\ SameBut({"screen"}, s, t)
BY UpdateLinesTypes DEF Ready, SameBut, OnScreen

LEMMA ReadyTo ==
    ASSUME NEW s, Ready(s), NEW x \in 0..Len(Text[s.current])
    PROVE  LET t == To(s, s.current, x) IN Ready(t) /\ SameBut({"x", "pww"}, s, t)
<1>1. s.current \in 1..Filebot
      BY DEF Ready, Typed, Windows
<1> QED BY <1>1, ToTypes DEF Ready, SameBut, OnScreen

LEMMA ReadyUpdatedLine ==
    ASSUME NEW s, Ready(s), NEW pww
    PROVE  Ready(UpdatedLine(s, pww))
<1>1. {s.current} \in SUBSET (1..Filebot)
      BY DEF Ready, Typed, Windows
<1> QED BY <1>1, ReadyLines DEF UpdatedLine

LEMMA ScrollAmountIn ==
    ASSUME NEW s, Typed(s), NEW scroll_only \in BOOLEAN
    PROVE  ScrollAmount(s, scroll_only) \in 1..s.rows
BY DEF ScrollAmount, Typed, Windows

LEMMA ReadyUp ==
    ASSUME NEW s, Shown(s), NEW scroll_only \in BOOLEAN
    PROVE  Ready(Up(s, scroll_only))
<1> DEFINE a == ToLine(s, s.current - 1)
           n == ScrollAmount(a, scroll_only)
           b == IF a.y = 0 \/ scroll_only THEN EditScroll(a, "UPWARD", n) ELSE a
           below == IF NeedUpdate(b, 0) THEN {b.current + 1} ELSE {}
<1>0. /\ Typed(s) /\ s.current \in 1..Filebot /\ s.top \in 1..Filebot /\ Filebot \in Nat
      /\ s.rows \in Nat \ {0} /\ s.y = s.current - s.top
      /\ s.top <= s.current /\ s.current < s.top + s.rows
      BY TextTypes DEF Shown, OnScreen, Typed, Windows
<1>1. CASE s.current = 1 \/ (scroll_only /\ s.top = 1)
  <2>1. Up(s, scroll_only) = s
        BY <1>1 DEF Up
  <2> QED BY <2>1 DEF Shown, Ready
<1>2. CASE ~(s.current = 1 \/ (scroll_only /\ s.top = 1))
  <2>1. Typed(a) /\ a.current = s.current - 1 /\ SameBut({"current", "x"}, s, a)
    <3>1. s.current - 1 \in 1..Filebot
          BY <1>0, <1>2
    <3> QED BY <1>0, <3>1, ToLineTypes
  <2>2. Up(s, scroll_only) =
          IF b.y > 0 THEN UpdateLines(b, below \cup {b.current}) ELSE b
    <3> HIDE DEF a, b, below
    <3> QED BY <1>2 DEF Up, a, b, below
  <2> HIDE DEF a
  <2>3. n \in 1..s.rows
        BY <2>1, ScrollAmountIn DEF SameBut
  <2>4. Typed(b) /\ b.current = s.current - 1 /\ b.y = s.y /\ OnScreen(b, b.current)
    <3>1. CASE a.y = 0 \/ scroll_only
      <4> DEFINE top == ScrolledTop(a, "UPWARD", n)
      <4>1. Typed(b) /\ b.top = top /\ SameBut({"top", "refresh", "screen"}, a, b)
        <5>1. n \in Nat
              BY <1>0, <2>3
        <5> HIDE DEF n
        <5> QED BY <2>1, <3>1, <5>1, EditScrollTypes
      <4>2. /\ top \in 1..Filebot /\ top <= a.top /\ top >= a.top - n
            /\ a.top > 1 => top < a.top
        <5>1. n \in Nat /\ n > 0
              BY <1>0, <2>3
        <5> HIDE DEF n
        <5> QED BY <2>1, <5>1, ScrolledTopIn
      <4>3. scroll_only => n = 1
            BY DEF ScrollAmount
      <4>4. a.y = s.y /\ a.top = s.top /\ a.rows = s.rows
            BY <2>1 DEF SameBut
      <4>5. b.current = s.current - 1 /\ b.y = s.y /\ b.rows = s.rows
            BY <2>1, <4>1, <4>4 DEF SameBut
      <4> HIDE DEF top, n, b
      <4>6. top <= s.current - 1 /\ s.current - 1 < top + s.rows
        <5>1. CASE scroll_only
              BY <1>0, <1>2, <2>3, <4>2, <4>3, <4>4, <5>1
        <5>2. CASE ~scroll_only
              BY <1>0, <1>2, <2>3, <3>1, <4>2, <4>4, <5>2
        <5> QED BY <5>1, <5>2
      <4> QED BY <4>1, <4>5, <4>6 DEF OnScreen
    <3>2. CASE ~(a.y = 0 \/ scroll_only)
      <4>1. b = a
            BY <3>2
      <4>2. a.y = s.y /\ a.top = s.top /\ a.rows = s.rows
            BY <2>1 DEF SameBut
      <4> QED BY <1>0, <2>1, <3>2, <4>1, <4>2 DEF OnScreen
    <3> QED BY <3>1, <3>2
  <2> HIDE DEF b
  <2>5. Ready(b)
        BY <2>4 DEF Ready
  <2>6. below \cup {b.current} \in SUBSET (1..Filebot)
        BY <1>0, <1>2, <2>4
  <2> HIDE DEF below
  <2> QED BY <2>2, <2>5, <2>6, ReadyLines
<1> QED BY <1>1, <1>2

LEMMA ReadyDown ==
    ASSUME NEW s, Shown(s), NEW scroll_only \in BOOLEAN
    PROVE  Ready(Down(s, scroll_only))
<1> DEFINE a == ToLine(s, s.current + 1)
           n == ScrollAmount(a, scroll_only)
           e == EditScroll(a, "DOWNWARD", n)
           b == IF a.y = a.rows - 1 \/ scroll_only THEN [e EXCEPT !.refresh = TRUE] ELSE a
           above == IF NeedUpdate(b, 0) THEN {b.current - 1} ELSE {}
<1>0. /\ Typed(s) /\ s.current \in 1..Filebot /\ s.top \in 1..Filebot /\ Filebot \in Nat
      /\ s.rows \in Nat \ {0} /\ s.y = s.current - s.top
      /\ s.top <= s.current /\ s.current < s.top + s.rows
      BY TextTypes DEF Shown, OnScreen, Typed, Windows
<1>1. CASE s.current = Filebot
  <2>1. Down(s, scroll_only) = s
        BY <1>1 DEF Down
  <2> QED BY <2>1 DEF Shown, Ready
<1>2. CASE s.current # Filebot
  <2>1. Typed(a) /\ a.current = s.current + 1 /\ SameBut({"current", "x"}, s, a)
    <3>1. s.current + 1 \in 1..Filebot
          BY <1>0, <1>2
    <3> QED BY <1>0, <3>1, ToLineTypes
  <2>2. Down(s, scroll_only) =
          IF b.y < b.rows - 1 THEN UpdateLines(b, above \cup {b.current}) ELSE b
    <3> HIDE DEF a, b, above
    <3> QED BY <1>2 DEF Down, a, b, above, e, n
  <2> HIDE DEF a
  <2>3. n \in Nat
        BY <2>1, ScrollAmountIn DEF Typed, Windows
  <2>4. Ready(b) /\ b.current = s.current + 1
    <3>1. CASE a.y = a.rows - 1 \/ scroll_only
      <4>1. Typed(e) /\ SameBut({"top", "refresh", "screen"}, a, e)
        <5> HIDE DEF n
        <5> QED BY <2>1, <2>3, EditScrollTypes
      <4> HIDE DEF e
      <4>2. Typed(b) /\ b.refresh = TRUE /\ SameBut({"refresh"}, e, b)
            BY <3>1, <4>1, OtherRefresh
      <4> QED BY <2>1, <4>1, <4>2 DEF Ready, SameBut
    <3>2. CASE ~(a.y = a.rows - 1 \/ scroll_only)
      <4>1. b = a
            BY <3>2
      <4>2. a.y = s.y /\ a.top = s.top /\ a.rows = s.rows
            BY <2>1 DEF SameBut
      <4>3. OnScreen(a, a.current)
            BY <1>0, <2>1, <3>2, <4>2 DEF OnScreen
      <4> QED BY <2>1, <4>1, <4>3 DEF Ready
    <3> QED BY <3>1, <3>2
  <2> HIDE DEF b
  <2>5. above \cup {b.current} \in SUBSET (1..Filebot)
        BY <1>0, <1>2, <2>4
  <2> HIDE DEF above
  <2> QED BY <2>2, <2>4, <2>5, ReadyLines
<1> QED BY <1>1, <1>2

LEMMA ReadyLeft ==
    ASSUME NEW s, Shown(s)
    PROVE  Ready(Left(s))
<1> DEFINE up == Up(s, FALSE)
           t  == IF s.x > 0 THEN To(s, s.current, s.x - 1)
                 ELSE IF s.current > 1 THEN To(up, up.current, Len(Text[up.current]))
                 ELSE To(s, s.current, s.x)
<1>1. Ready(s) /\ s.current \in 1..Filebot /\ s.x \in 0..Len(Text[s.current])
      BY TextTypes DEF Shown, Ready, Typed, Windows
<1>2. Ready(up)
      BY ReadyUp
<1> HIDE DEF up
<1>3. Len(Text[up.current]) \in 0..Len(Text[up.current])
  <2>1. up.current \in 1..Filebot
        BY <1>2 DEF Ready, Typed, Windows
  <2> QED BY <2>1, TextTypes
<1>4. CASE s.x > 0
  <2>1. s.x - 1 \in 0..Len(Text[s.current])
        BY <1>1, <1>4, TextTypes
  <2> QED BY <1>1, <1>4, <2>1, ReadyTo, ReadyUpdatedLine DEF Left, up
<1>5. CASE ~(s.x > 0) /\ s.current > 1
  <2>1. Ready(t)
        BY <1>2, <1>3, <1>5, ReadyTo
  <2> QED BY <1>5, <2>1, ReadyUpdatedLine DEF Left, up
<1>6. CASE ~(s.x > 0) /\ ~(s.current > 1)
      BY <1>1, <1>6, ReadyTo, ReadyUpdatedLine DEF Left, up
<1> QED BY <1>4, <1>5, <1>6

LEMMA ReadyRight ==
    ASSUME NEW s, Shown(s)
    PROVE  Ready(Right(s))
<1> DEFINE down == Down(s, FALSE)
           len  == Len(Text[s.current])
<1>1. Ready(s) /\ s.current \in 1..Filebot /\ s.x \in 0..len /\ len \in Nat
      BY TextTypes DEF Shown, Ready, Typed, Windows
<1>2. Ready(down)
      BY ReadyDown
<1> HIDE DEF down
<1>3. 0 \in 0..Len(Text[down.current])
  <2>1. down.current \in 1..Filebot
        BY <1>2 DEF Ready, Typed, Windows
  <2> QED BY <2>1, TextTypes
<1>4. CASE s.x < len
  <2>1. s.x + 1 \in 0..len
        BY <1>1, <1>4
  <2> QED BY <1>1, <1>4, <2>1, ReadyTo, ReadyUpdatedLine DEF Right, down
<1>5. CASE ~(s.x < len) /\ s.current < Filebot
  <2>1. Ready(To(down, down.current, 0))
        BY <1>2, <1>3, ReadyTo
  <2> QED BY <1>5, <2>1, ReadyUpdatedLine DEF Right, down
<1>6. CASE ~(s.x < len) /\ ~(s.current < Filebot)
      BY <1>1, <1>6, ReadyTo, ReadyUpdatedLine DEF Right, down
<1> QED BY <1>4, <1>5, <1>6

LEMMA IndentIn ==
    ASSUME NEW l \in 1..Filebot
    PROVE  Indent(Text[l]) \in 0..Len(Text[l])
<1> DEFINE S == {Len(Text[l])} \cup {x \in 0..Len(Text[l]) - 1 : Text[l][x + 1] # Blank}
<1>1. Len(Text[l]) \in Nat
      BY TextTypes
<1>2. S \subseteq 0..Len(Text[l]) /\ S \subseteq Nat /\ S # {}
      BY <1>1
<1>3. Indent(Text[l]) = Min(S)
      BY DEF Indent
<1> HIDE DEF S
<1> QED BY <1>2, <1>3, LeastIn

LEMMA ReadyHome ==
    ASSUME NEW s, Shown(s)
    PROVE  Ready(Home(s))
<1> DEFINE indent == Indent(Text[s.current])
           smart  == /\ IsSet(s, "SMART_HOME")
                     /\ indent # s.x /\ indent # Len(Text[s.current])
           x      == IF smart THEN indent ELSE 0
<1>1. Ready(s) /\ s.current \in 1..Filebot
      BY DEF Shown, Ready, Typed, Windows
<1>2. x \in 0..Len(Text[s.current])
      BY <1>1, TextTypes, IndentIn
<1>3. Home(s) = UpdatedLine(To(s, s.current, x), s.pww)
      BY DEF Home
<1> HIDE DEF x
<1> QED BY <1>1, <1>2, <1>3, ReadyTo, ReadyUpdatedLine

LEMMA ReadyEnd ==
    ASSUME NEW s, Shown(s)
    PROVE  Ready(End(s))
<1>1. Ready(s) /\ Len(Text[s.current]) \in 0..Len(Text[s.current])
      BY TextTypes DEF Shown, Ready, Typed, Windows
<1> QED BY <1>1, ReadyTo, ReadyUpdatedLine DEF End

LEMMA ReadyFirstLine ==
    ASSUME NEW s, Shown(s)
    PROVE  Ready(FirstLine(s)) /\ FirstLine(s).refresh
<1> DEFINE a == To(s, 1, 0)
           b == [a EXCEPT !.top = 1]
<1>1. 1 \in 1..Filebot /\ 0 \in 0..Len(Text[1])
      BY TextTypes
<1>2. Typed(a)
      BY <1>1, ToTypes DEF Shown
<1>3. FirstLine(s) = [b EXCEPT !.refresh = TRUE]
      BY DEF FirstLine
<1> HIDE DEF a
<1>4. Typed(b)
      BY <1>1, <1>2, OtherTop
<1> HIDE DEF b
<1> QED BY <1>3, <1>4, OtherRefresh DEF Ready

LEMMA ReadyLastLine ==
    ASSUME NEW s, Shown(s)
    PROVE  Ready(LastLine(s)) /\ LastLine(s).refresh
<1> DEFINE a == To(s, Filebot, Len(Text[Filebot]))
           b == [a EXCEPT !.y = s.rows - 1]
<1>1. Filebot \in 1..Filebot /\ Len(Text[Filebot]) \in 0..Len(Text[Filebot])
      BY TextTypes
<1>2. Typed(a)
      BY <1>1, ToTypes DEF Shown
<1>3. s.rows - 1 \in Nat
      BY DEF Shown, Typed, Windows
<1>4. LastLine(s) = [b EXCEPT !.refresh = TRUE]
      BY DEF LastLine
<1> HIDE DEF a
<1>5. Typed(b)
      BY <1>2, <1>3, OtherRow
<1> HIDE DEF b
<1> QED BY <1>4, <1>5, OtherRefresh DEF Ready

\* do_page_up and do_page_down go to a line from the top left corner of the window.
LEMMA PageFromTypes ==
    ASSUME NEW s, Typed(s), NEW l \in 1..Filebot
    PROVE  Typed(ToLine(PageFrom(s), l))
<1>1. CASE IsSet(s, "SMOOTH_SCROLL")
      BY <1>1, ToLineTypes DEF PageFrom
<1>2. CASE ~IsSet(s, "SMOOTH_SCROLL")
  <2> DEFINE a == [s EXCEPT !.y = 0]
             x == Min({0, Len(Text[l])})
  <2>1. x = (IF 0 <= Len(Text[l]) THEN 0 ELSE Len(Text[l])) /\ x \in Nat
        BY TextTypes, LeastOfTwo
  <2>2. ToLine(PageFrom(s), l) = At(a, l, x, 0)
        BY <1>2 DEF PageFrom, ToLine, At, Typed, Windows
  <2>3. Typed(a)
        BY OtherRow
  <2> HIDE DEF a, x
  <2> QED BY <2>1, <2>2, <2>3, OtherPlace
<1> QED BY <1>1, <1>2

LEMMA ReadyPageUp ==
    ASSUME NEW s, Shown(s)
    PROVE  Ready(PageUp(s)) /\ PageUp(s).refresh
<1> DEFINE c == PageFrom(s).current
           l == Max({1, c - Max({0, s.rows - 2})})
<1>1. c \in 1..Filebot /\ Typed(s) /\ s.rows \in Nat /\ Filebot \in Nat
      BY TextTypes DEF PageFrom, Shown, Typed, Windows
<1>2. Max({0, s.rows - 2}) = IF 0 <= s.rows - 2 THEN s.rows - 2 ELSE 0
      BY <1>1, GreatestOfTwo
<1> HIDE DEF c
<1>3. l = IF 1 <= c - Max({0, s.rows - 2}) THEN c - Max({0, s.rows - 2}) ELSE 1
      BY <1>1, <1>2, GreatestOfTwo
<1>4. l \in 1..Filebot
      BY <1>1, <1>2, <1>3
<1>5. LET t == EditUpdate(ToLine(PageFrom(s), l), "NONE") IN Ready(t) /\ t.refresh
  <2> HIDE DEF l
  <2> QED BY <1>1, <1>4, PageFromTypes, EditUpdateTypes DEF Ready
<1> QED BY <1>5, ReadyFirstLine DEF PageUp, c

LEMMA ReadyPageDown ==
    ASSUME NEW s, Shown(s)
    PROVE  Ready(PageDown(s)) /\ PageDown(s).refresh
<1> DEFINE c == PageFrom(s).current
           l == Min({Filebot, c + Max({0, s.rows - 2})})
<1>1. c \in 1..Filebot /\ Typed(s) /\ s.rows \in Nat /\ Filebot \in Nat
      BY TextTypes DEF PageFrom, Shown, Typed, Windows
<1>2. Max({0, s.rows - 2}) = IF 0 <= s.rows - 2 THEN s.rows - 2 ELSE 0
      BY <1>1, GreatestOfTwo
<1> HIDE DEF c
<1>3. l = IF Filebot <= c + Max({0, s.rows - 2}) THEN Filebot
          ELSE c + Max({0, s.rows - 2})
      BY <1>1, <1>2, LeastOfTwo
<1>4. l \in 1..Filebot
      BY <1>1, <1>2, <1>3
<1>5. LET t == EditUpdate(ToLine(PageFrom(s), l), "NONE") IN Ready(t) /\ t.refresh
  <2> HIDE DEF l
  <2> QED BY <1>1, <1>4, PageFromTypes, EditUpdateTypes DEF Ready
<1> QED BY <1>5, ReadyLastLine DEF PageDown, c

-----------------------------------------------------------------------------
(* Words.  What is said of the place a command goes to is said of every window. *)

NextStop(s) == Min({x \in s.x..Len(Text[s.current]) : ~WordAt(s, s.current, x)})

NextTo(s) ==
    LET rest  == {x \in WordsOf(s, s.current) : x > NextStop(s)}
        later == {l \in s.current + 1..Filebot : WordsOf(s, l) # {}}
    IN  IF rest # {} THEN <<s.current, Min(rest)>>
        ELSE IF later # {} THEN <<Min(later), Min(WordsOf(s, Min(later)))>>
        ELSE <<Filebot, Len(Text[Filebot])>>

PrevTo(s) ==
    LET rest  == {x \in WordsOf(s, s.current) : x < BeforeWord(s)}
        above == {l \in 1..s.current - 1 : WordsOf(s, l) # {}}
        l     == IF rest # {} THEN s.current ELSE Max(above)
        x     == Max(IF rest # {} THEN rest ELSE WordsOf(s, l))
    IN  IF rest = {} /\ above = {} THEN <<1, 0>> ELSE <<l, WordStart(s, l, x)>>

LEMMA NextWordIs ==
    ASSUME NEW s
    PROVE  NextWord(s) = EditRedraw(To(s, NextTo(s)[1], NextTo(s)[2]), s.current, s.pww)
BY DEF NextWord, NextTo, NextStop

LEMMA PrevWordIs ==
    ASSUME NEW s
    PROVE  PrevWord(s) = EditRedraw(To(s, PrevTo(s)[1], PrevTo(s)[2]), s.current, s.pww)
BY DEF PrevWord, PrevTo

LEMMA WordsIn ==
    ASSUME NEW s, NEW l \in 1..Filebot
    PROVE  WordsOf(s, l) \subseteq 0..Len(Text[l]) - 1 /\ WordsOf(s, l) \subseteq Nat
BY TextTypes DEF WordsOf

\* Where do_next_word leaves the word the cursor is in.
LEMMA NextStopIs ==
    ASSUME NEW s, Typed(s)
    PROVE  /\ NextStop(s) \in s.x..Len(Text[s.current])
           /\ ~WordAt(s, s.current, NextStop(s))
           /\ \A x \in s.x..NextStop(s) - 1 : WordAt(s, s.current, x)
<1> DEFINE S == {x \in s.x..Len(Text[s.current]) : ~WordAt(s, s.current, x)}
           len == Len(Text[s.current])
<1>1. s.x \in 0..len /\ len \in Nat
      BY TextTypes DEF Typed, Windows
<1>2. ~WordAt(s, s.current, len)
      BY <1>1 DEF WordAt
<1>3. S \subseteq Nat /\ len \in S
      BY <1>1, <1>2
<1>4. NextStop(s) \in S /\ \A x \in S : NextStop(s) <= x
  <2> HIDE DEF S
  <2>1. S # {}
        BY <1>3
  <2> QED BY <1>3, <2>1, LeastIn DEF NextStop, S
<1> HIDE DEF len
<1>5. NextStop(s) \in Nat /\ NextStop(s) <= len
      BY <1>1, <1>4 DEF len
<1>6. ASSUME NEW x \in s.x..NextStop(s) - 1
      PROVE  WordAt(s, s.current, x)
  <2>1. x \in s.x..len /\ ~(NextStop(s) <= x)
        BY <1>1, <1>5
  <2> QED BY <1>4, <2>1 DEF len
<1> QED BY <1>4, <1>6

LEMMA NextToIs ==
    ASSUME NEW s, Typed(s)
    PROVE  \E l \in 1..Filebot : \E x \in 0..Len(Text[l]) :
             /\ NextTo(s) = <<l, x>>
             /\ \/ /\ l = s.current /\ x \in WordsOf(s, l) /\ x > NextStop(s)
                   /\ \A y \in WordsOf(s, l) : y > NextStop(s) => x <= y
                \/ /\ \A y \in WordsOf(s, s.current) : ~(y > NextStop(s))
                   /\ l > s.current /\ x \in WordsOf(s, l)
                   /\ \A k \in s.current + 1..l - 1 : WordsOf(s, k) = {}
                   /\ \A y \in WordsOf(s, l) : x <= y
                \/ /\ \A y \in WordsOf(s, s.current) : ~(y > NextStop(s))
                   /\ \A k \in s.current + 1..Filebot : WordsOf(s, k) = {}
                   /\ l = Filebot /\ x = Len(Text[Filebot])
<1> DEFINE rest  == {x \in WordsOf(s, s.current) : x > NextStop(s)}
           later == {l \in s.current + 1..Filebot : WordsOf(s, l) # {}}
           m     == Min(later)
<1>1. s.current \in 1..Filebot /\ Filebot \in Nat
      BY TextTypes DEF Typed, Windows
<1>2. NextTo(s) = IF rest # {} THEN <<s.current, Min(rest)>>
                  ELSE IF later # {} THEN <<m, Min(WordsOf(s, m))>>
                  ELSE <<Filebot, Len(Text[Filebot])>>
      BY DEF NextTo
<1>3. CASE rest # {}
  <2>1. rest \subseteq Nat
        BY <1>1, WordsIn
  <2>2. Min(rest) \in rest /\ \A y \in rest : Min(rest) <= y
    <3> HIDE DEF rest
    <3> QED BY <1>3, <2>1, LeastIn
  <2>3. Min(rest) \in 0..Len(Text[s.current])
        BY <1>1, <2>2, WordsIn, TextTypes
  <2> QED BY <1>1, <1>2, <1>3, <2>2, <2>3
<1>4. CASE rest = {} /\ later # {}
  <2>1. later \subseteq Nat
        BY <1>1
  <2>2. m \in later /\ \A k \in later : m <= k
    <3> HIDE DEF later
    <3> QED BY <1>4, <2>1, LeastIn
  <2> HIDE DEF m
  <2>3. m \in 1..Filebot /\ m > s.current /\ WordsOf(s, m) # {}
        BY <1>1, <2>2
  <2>4. /\ Min(WordsOf(s, m)) \in WordsOf(s, m)
        /\ \A y \in WordsOf(s, m) : Min(WordsOf(s, m)) <= y
        BY <2>3, WordsIn, LeastIn
  <2>5. Min(WordsOf(s, m)) \in 0..Len(Text[m])
        BY <2>3, <2>4, WordsIn, TextTypes
  <2>6. \A k \in s.current + 1..m - 1 : WordsOf(s, k) = {}
        BY <1>1, <2>2, <2>3
  <2> QED BY <1>2, <1>4, <2>3, <2>4, <2>5, <2>6
<1>5. CASE rest = {} /\ later = {}
  <2>1. Filebot \in 1..Filebot /\ Len(Text[Filebot]) \in 0..Len(Text[Filebot])
        BY TextTypes
  <2> QED BY <1>2, <1>5, <2>1
<1> QED BY <1>3, <1>4, <1>5

\* The character before the word the cursor is in.
LEMMA BeforeWordIs ==
    ASSUME NEW s, Typed(s)
    PROVE  /\ BeforeWord(s) \in -1..s.x
           /\ BeforeWord(s) >= 0 => ~WordAt(s, s.current, BeforeWord(s))
           /\ \A x \in BeforeWord(s) + 1..s.x : WordAt(s, s.current, x)
<1> DEFINE S == {-1} \cup {x \in 0..s.x : ~WordAt(s, s.current, x)}
<1>1. s.x \in Nat
      BY DEF Typed, Windows
<1>2. S \subseteq -1..s.x /\ S # {}
      BY <1>1
<1>3. BeforeWord(s) \in S /\ \A x \in S : x <= BeforeWord(s)
  <2> HIDE DEF S
  <2> QED BY <1>1, <1>2, GreatestIn DEF BeforeWord, S
<1>4. BeforeWord(s) \in -1..s.x
      BY <1>2, <1>3
<1>5. ASSUME NEW x \in BeforeWord(s) + 1..s.x
      PROVE  WordAt(s, s.current, x)
  <2>1. x \in 0..s.x /\ ~(x <= BeforeWord(s))
        BY <1>1, <1>4
  <2> QED BY <1>3, <2>1
<1> QED BY <1>3, <1>4, <1>5

LEMMA WordStartIs ==
    ASSUME NEW s, NEW l, NEW x \in Nat
    PROVE  /\ WordStart(s, l, x) \in 0..x
           /\ WordStart(s, l, x) > 0 => ~WordAt(s, l, WordStart(s, l, x) - 1)
           /\ \A y \in WordStart(s, l, x)..x - 1 : WordAt(s, l, y)
<1> DEFINE S == {0} \cup {y + 1 : y \in {z \in 0..x - 1 : ~WordAt(s, l, z)}}
           start == WordStart(s, l, x)
<1>1. S \subseteq -1..x /\ S \subseteq 0..x /\ S # {}
      OBVIOUS
<1>2. start \in S /\ \A y \in S : y <= start
  <2> HIDE DEF S
  <2> QED BY <1>1, GreatestIn DEF WordStart, S
<1> HIDE DEF start
<1>3. start \in 0..x
      BY <1>1, <1>2
<1>4. start > 0 => ~WordAt(s, l, start - 1)
  <2> SUFFICES ASSUME start > 0
               PROVE  ~WordAt(s, l, start - 1)
      OBVIOUS
  <2>1. PICK y \in {z \in 0..x - 1 : ~WordAt(s, l, z)} : start = y + 1
        BY <1>2
  <2>2. start - 1 = y
        BY <2>1
  <2> QED BY <2>1, <2>2
<1>5. ASSUME NEW y \in start..x - 1
      PROVE  WordAt(s, l, y)
  <2>1. y \in 0..x - 1 /\ ~(y + 1 <= start)
        BY <1>3
  <2>2. y + 1 \notin S
        BY <1>2, <2>1
  <2> QED BY <2>1, <2>2
<1> QED BY <1>3, <1>4, <1>5 DEF start

LEMMA PrevToIs ==
    ASSUME NEW s, Typed(s)
    PROVE  \/ /\ PrevTo(s) = <<1, 0>>
              /\ \A y \in WordsOf(s, s.current) : ~(y < BeforeWord(s))
              /\ \A k \in 1..s.current - 1 : WordsOf(s, k) = {}
           \/ \E l \in 1..s.current : \E x \in WordsOf(s, l) :
                /\ PrevTo(s) = <<l, WordStart(s, l, x)>>
                /\ \/ /\ l = s.current /\ x < BeforeWord(s)
                      /\ \A y \in WordsOf(s, l) : y < BeforeWord(s) => y <= x
                   \/ /\ l < s.current
                      /\ \A y \in WordsOf(s, s.current) : ~(y < BeforeWord(s))
                      /\ \A k \in l + 1..s.current - 1 : WordsOf(s, k) = {}
                      /\ \A y \in WordsOf(s, l) : y <= x
<1> DEFINE rest  == {x \in WordsOf(s, s.current) : x < BeforeWord(s)}
           above == {l \in 1..s.current - 1 : WordsOf(s, l) # {}}
           m     == Max(above)
<1>1. s.current \in 1..Filebot /\ Filebot \in Nat
      BY TextTypes DEF Typed, Windows
<1>2. /\ rest = {} /\ above = {} => PrevTo(s) = <<1, 0>>
      /\ rest # {} => PrevTo(s) = <<s.current, WordStart(s, s.current, Max(rest))>>
      /\ rest = {} /\ above # {} =>
           PrevTo(s) = <<m, WordStart(s, m, Max(WordsOf(s, m)))>>
      BY DEF PrevTo
<1>3. CASE rest # {}
  <2>1. /\ rest \subseteq -1..Len(Text[s.current])
        /\ Len(Text[s.current]) \in Nat
        BY <1>1, WordsIn, TextTypes
  <2>2. Max(rest) \in rest /\ \A y \in rest : y <= Max(rest)
    <3> HIDE DEF rest
    <3> QED BY <1>3, <2>1, GreatestIn
  <2> QED BY <1>1, <1>2, <1>3, <2>2
<1>4. CASE rest = {} /\ above # {}
  <2>1. above \subseteq -1..s.current /\ s.current \in Nat
        BY <1>1
  <2>2. m \in above /\ \A k \in above : k <= m
    <3> HIDE DEF above
    <3> QED BY <1>4, <2>1, GreatestIn
  <2> HIDE DEF m
  <2>3. m \in 1..Filebot /\ m < s.current /\ m \in 1..s.current /\ WordsOf(s, m) # {}
        BY <1>1, <2>2
  <2>4. WordsOf(s, m) \subseteq -1..Len(Text[m]) /\ Len(Text[m]) \in Nat
        BY <2>3, WordsIn, TextTypes
  <2>5. /\ Max(WordsOf(s, m)) \in WordsOf(s, m)
        /\ \A y \in WordsOf(s, m) : y <= Max(WordsOf(s, m))
        BY <2>3, <2>4, GreatestIn
  <2>6. \A k \in m + 1..s.current - 1 : WordsOf(s, k) = {}
        BY <1>1, <2>2, <2>3
  <2> QED BY <1>2, <1>4, <2>3, <2>5, <2>6
<1>5. CASE rest = {} /\ above = {}
      BY <1>2, <1>5
<1> QED BY <1>3, <1>4, <1>5

LEMMA NextToPosition ==
    ASSUME NEW s, Typed(s)
    PROVE  /\ NextTo(s) = <<NextTo(s)[1], NextTo(s)[2]>>
           /\ NextTo(s)[1] \in 1..Filebot /\ NextTo(s)[2] \in 0..Len(Text[NextTo(s)[1]])
BY NextToIs

LEMMA PrevToPosition ==
    ASSUME NEW s, Typed(s)
    PROVE  /\ PrevTo(s) = <<PrevTo(s)[1], PrevTo(s)[2]>>
           /\ PrevTo(s)[1] \in 1..Filebot /\ PrevTo(s)[2] \in 0..Len(Text[PrevTo(s)[1]])
<1>1. s.current \in 1..Filebot /\ Filebot \in Nat /\ 1 \in 1..Filebot /\ 0 \in 0..Len(Text[1])
      BY TextTypes DEF Typed, Windows
<1>2. CASE PrevTo(s) = <<1, 0>>
      BY <1>1, <1>2
<1>3. CASE PrevTo(s) # <<1, 0>>
  <2>1. PICK l \in 1..s.current : \E x \in WordsOf(s, l) : PrevTo(s) = <<l, WordStart(s, l, x)>>
        BY <1>3, PrevToIs
  <2>2. PICK x \in WordsOf(s, l) : PrevTo(s) = <<l, WordStart(s, l, x)>>
        BY <2>1
  <2>3. l \in 1..Filebot /\ Len(Text[l]) \in Nat
        BY <1>1, TextTypes
  <2>4. x \in 0..Len(Text[l]) - 1 /\ x \in Nat
        BY <2>3, WordsIn
  <2>5. WordStart(s, l, x) \in 0..x
        BY <2>4, WordStartIs
  <2>6. WordStart(s, l, x) \in 0..Len(Text[l])
        BY <2>3, <2>4, <2>5
  <2> QED BY <2>2, <2>3, <2>6
<1> QED BY <1>2, <1>3

\* A jump within the text.
LEMMA ReadyRedraw ==
    ASSUME NEW s, Shown(s), NEW l \in 1..Filebot, NEW x \in 0..Len(Text[l])
    PROVE  /\ Ready(EditRedraw(To(s, l, x), s.current, s.pww))
           /\ Cursor(EditRedraw(To(s, l, x), s.current, s.pww)) = <<l, x>>
<1> DEFINE t == To(s, l, x)
           from  == Min({s.current, t.current})
           to    == Max({s.current, t.current})
           lines == IF MarkSet(t) THEN from..to ELSE {s.current, t.current}
           e     == EditRedraw(t, s.current, s.pww)
<1>1. Typed(t) /\ t.current = l /\ t.x = x
      BY ToTypes DEF Shown
<1>2. s.current \in 1..Filebot /\ Filebot \in Nat
      BY TextTypes DEF Shown, Typed, Windows
<1>3. \/ /\ Offscreen(t, s.current) \/ Offscreen(t, t.current)
         /\ e = EditUpdate(t, "CENTER")
      \/ /\ ~Offscreen(t, t.current)
         /\ e = UpdateLines(t, lines) \/ e = t
  <2> HIDE DEF t
  <2> QED BY DEF EditRedraw
<1> HIDE DEF t, e
<1>4. CASE e = EditUpdate(t, "CENTER")
  <2>1. Typed(e) /\ e.refresh /\ SameBut({"top", "refresh"}, t, e)
        BY <1>1, <1>4, EditUpdateTypes
  <2> QED BY <1>1, <2>1 DEF Ready, SameBut, Cursor, e, t
<1>5. CASE ~Offscreen(t, t.current) /\ (e = UpdateLines(t, lines) \/ e = t)
  <2>1. Ready(t)
        BY <1>1, <1>5 DEF Ready, Offscreen, OnScreen, Typed, Windows
  <2>2. from \in 1..Filebot /\ to \in 1..Filebot
        BY <1>1, <1>2, LeastOfTwo, GreatestOfTwo
  <2>3. lines \in SUBSET (1..Filebot)
    <3> HIDE DEF from, to
    <3> QED BY <1>1, <1>2, <2>2
  <2> HIDE DEF lines
  <2>4. Ready(e) /\ e.current = t.current /\ e.x = t.x
        BY <1>5, <2>1, <2>3, ReadyLines DEF SameBut
  <2> QED BY <1>1, <2>4 DEF Cursor, e, t
<1> QED BY <1>3, <1>4, <1>5

LEMMA ReadyMark ==
    ASSUME NEW s, Shown(s)
    PROVE  Ready(Mark(s))
<1> DEFINE a == [s EXCEPT !.mark = NoMark]
           b == [s EXCEPT !.mark = Cursor(s)]
<1>1. Cursor(s) \in PositionsOf(Text)
      BY PositionIn, TextTypes DEF Cursor, Shown, Typed, Windows
<1>2. Typed(a) /\ Typed(b) /\ SameBut({"mark"}, s, b)
      BY <1>1, OtherMark DEF Shown
<1>3. Mark(s) = IF MarkSet(s) THEN EditRefresh(a) ELSE b
      BY DEF Mark
<1> HIDE DEF a, b
<1>4. Ready(EditRefresh(a))
      BY <1>2, EditRefreshShows DEF Shown, Ready
<1>5. Ready(b)
      BY <1>2 DEF Ready, Shown, SameBut, OnScreen
<1> QED BY <1>3, <1>4, <1>5

LEMMA GoToRefreshed ==
    ASSUME NEW s, Shown(s), NEW line \in 1..Filebot + 1, NEW column \in Columns
    PROVE  Refreshed(GoTo(s, line, column))
<1> DEFINE l == Min({line, Filebot})
           p == column - 1
           x == Min({p, Len(Text[l])})
           t == ToLine([s EXCEPT !.pww = column - 1], l)
<1>1. p \in Nat
      BY WindowAssumption DEF WindowAssumption
<1>2. l \in 1..Filebot
      BY TextTypes, LeastOfTwo
<1>3. t = At(s, l, x, p)
      BY DEF ToLine, At, Shown, Typed, Windows
<1>4. GoTo(s, line, column) = EditRefresh(EditUpdate(t, "CENTER"))
      BY DEF GoTo
<1> HIDE DEF l, p, t
<1>5. x = (IF p <= Len(Text[l]) THEN p ELSE Len(Text[l])) /\ x \in Nat
      BY <1>1, <1>2, TextTypes, LeastOfTwo
<1> HIDE DEF x
<1>6. Typed(t)
      BY <1>1, <1>2, <1>3, <1>5, OtherPlace DEF Shown
<1> QED BY <1>4, <1>6, EditUpdateTypes DEF Refreshed

LEMMA ReadyJump ==
    ASSUME NEW s, Shown(s), NEW p \in PositionsOf(Text)
    PROVE  Ready(Jump(s, p)) /\ Ready(Abort(Jump(s, p)))
<1> DEFINE j == Jump(s, p)
<1>1. Ready(j)
      BY InPosition, ReadyRedraw DEF Jump
<1> HIDE DEF j
<1>2. Ready(Abort(j))
      BY <1>1, EditRefreshShows DEF Abort, Shown, Ready
<1> QED BY <1>1, <1>2 DEF j

LEMMA ResizedRefreshed ==
    ASSUME NEW s, Shown(s), NEW rows \in Heights, NEW cols \in Nat \ (0..3)
    PROVE  Refreshed(Resized(s, rows, cols))
<1> DEFINE screen == [r \in 1..rows |-> Empty]
           t == [s EXCEPT !.rows = rows, !.cols = cols, !.screen = screen]
<1>1. rows \in Nat \ {0}
      BY WindowAssumption DEF WindowAssumption
<1>2. Empty \in Rows
      BY TextTypes DEF Empty, Rows
<1>3. screen \in [1..rows -> Rows] /\ screen \in Screens
      BY <1>1, <1>2 DEF Screens
<1>4. Resized(s, rows, cols) = EditRefresh(t)
      BY DEF Resized
<1> HIDE DEF screen
<1>5. t \in Windows
      BY <1>1, <1>3 DEF Shown, Typed, Windows
<1>6. /\ t.rows = rows /\ t.screen = screen /\ t.current = s.current /\ t.x = s.x
      /\ t.pww = s.pww
      BY DEF Shown, Typed, Windows
<1> HIDE DEF t
<1>7. Typed(t)
      BY <1>3, <1>5, <1>6 DEF Shown, Typed
<1> QED BY <1>4, <1>7 DEF Refreshed

-----------------------------------------------------------------------------
(* The window is always shown as its fields say. *)

LEMMA InitRefreshed == Init => Refreshed(w)
<1> SUFFICES ASSUME NEW flags \in FlagSets, NEW rows \in Heights, NEW cols \in Widths,
                    w = EditRefresh([current |-> 1, x |-> 0, pww |-> 0, y |-> 0, top |-> 1,
                          mark |-> NoMark, refresh |-> FALSE, flags |-> flags,
                          rows |-> rows, cols |-> cols,
                          screen |-> [r \in 1..rows |-> Empty]])
             PROVE  Refreshed(w)
    BY DEF Init
<1> DEFINE screen == [r \in 1..rows |-> Empty]
           t == [current |-> 1, x |-> 0, pww |-> 0, y |-> 0, top |-> 1, mark |-> NoMark,
                 refresh |-> FALSE, flags |-> flags, rows |-> rows, cols |-> cols,
                 screen |-> screen]
<1>1. rows \in Nat \ {0} /\ cols \in Nat \ (0..3)
      BY WindowAssumption DEF WindowAssumption
<1>2. Empty \in Rows
      BY TextTypes DEF Empty, Rows
<1>3. screen \in [1..rows -> Rows] /\ screen \in Screens
      BY <1>1, <1>2 DEF Screens
<1>4. w = EditRefresh(t)
      OBVIOUS
<1> HIDE DEF screen
<1>5. 1 \in 1..Filebot /\ 0 <= Len(Text[1])
      BY TextTypes
<1>6. Typed(t)
      BY <1>1, <1>3, <1>5 DEF Typed, Windows
<1> HIDE DEF t
<1> QED BY <1>4, <1>6 DEF Refreshed

LEMMA NextShown == Shown(w) /\ [Next]_vars => Shown(w')
<1> SUFFICES ASSUME Shown(w), [Next]_vars
             PROVE  Shown(w')
    OBVIOUS
<1>1. CASE do_up
      BY <1>1, ReadyUp, FinishShows DEF do_up
<1>2. CASE do_scroll_up
      BY <1>2, ReadyUp, FinishShows DEF do_scroll_up
<1>3. CASE do_down
      BY <1>3, ReadyDown, FinishShows DEF do_down
<1>4. CASE do_scroll_down
      BY <1>4, ReadyDown, FinishShows DEF do_scroll_down
<1>5. CASE do_left
      BY <1>5, ReadyLeft, FinishShows DEF do_left
<1>6. CASE do_right
      BY <1>6, ReadyRight, FinishShows DEF do_right
<1>7. CASE do_home
      BY <1>7, ReadyHome, FinishShows DEF do_home
<1>8. CASE do_end
      BY <1>8, ReadyEnd, FinishShows DEF do_end
<1>9. CASE do_first_line
      BY <1>9, ReadyFirstLine, FinishShows DEF do_first_line
<1>10. CASE do_last_line
       BY <1>10, ReadyLastLine, FinishShows DEF do_last_line
<1>11. CASE do_page_up
       BY <1>11, ReadyPageUp, FinishShows DEF do_page_up
<1>12. CASE do_page_down
       BY <1>12, ReadyPageDown, FinishShows DEF do_page_down
<1>13. CASE do_next_word
  <2>1. Ready(NextWord(w))
        BY NextWordIs, NextToPosition, ReadyRedraw DEF Shown
  <2> QED BY <1>13, <2>1, FinishShows DEF do_next_word
<1>14. CASE do_prev_word
  <2>1. Ready(PrevWord(w))
        BY PrevWordIs, PrevToPosition, ReadyRedraw DEF Shown
  <2> QED BY <1>14, <2>1, FinishShows DEF do_prev_word
<1>15. CASE do_mark
       BY <1>15, ReadyMark, FinishShows DEF do_mark
<1>16. CASE do_gotolinecolumn
       BY <1>16, GoToRefreshed, RefreshedShows, FinishShows
       DEF do_gotolinecolumn, Shown, Ready
<1>17. CASE do_search
       BY <1>17, ReadyJump, FinishShows DEF do_search
<1>18. CASE do_find_bracket
       BY <1>18, ReadyJump, FinishShows DEF do_find_bracket
<1>19. CASE do_toggle
  <2>1. PICK rows \in Heights : w' = Finish(Resized(w, rows, w.cols))
        BY <1>19 DEF do_toggle
  <2>2. Shown(Resized(w, rows, w.cols))
    <3>1. w.cols \in Nat \ (0..3)
          BY DEF Shown, Typed, Windows
    <3> QED BY <3>1, ResizedRefreshed, RefreshedShows
  <2> QED BY <2>1, <2>2, FinishShows DEF Shown, Ready
<1>20. CASE handle_sigwinch
       BY <1>20, ResizedRefreshed, RefreshedShows, WindowAssumption
       DEF handle_sigwinch, WindowAssumption
<1>21. CASE UNCHANGED vars
       BY <1>21 DEF vars
<1> QED BY <1>1, <1>2, <1>3, <1>4, <1>5, <1>6, <1>7, <1>8, <1>9, <1>10, <1>11, <1>12, <1>13,
           <1>14, <1>15, <1>16, <1>17, <1>18, <1>19, <1>20, <1>21 DEF Next

LEMMA ShownTypeOK == Shown(w) => TypeOK
<1> SUFFICES ASSUME Shown(w)
             PROVE  TypeOK
    OBVIOUS
<1>1. /\ w.current \in 1..Filebot /\ w.pww \in Nat /\ w.top \in 1..Filebot
      /\ w.rows \in Nat /\ w.mark \in PositionsOf(Text) \cup {NoMark}
      /\ w.screen \in [1..w.rows -> Rows]
      /\ w.x = IF w.pww <= Len(Text[w.current]) THEN w.pww ELSE Len(Text[w.current])
      /\ w.y = w.current - w.top /\ OnScreen(w, w.current)
      BY DEF Shown, Typed, Windows
<1>2. Len(Text[w.current]) \in Nat /\ Filebot \in Nat
      BY <1>1, TextTypes
<1>3. w.x = Min({w.pww, Len(Text[w.current])}) /\ w.x \in 0..Len(Text[w.current])
      BY <1>1, <1>2, LeastOfTwo
<1>4. Cursor(w) \in PositionsOf(Text)
      BY <1>1, <1>3, PositionIn DEF Cursor
<1>5. w.y \in 0..w.rows - 1
      BY <1>1, <1>2 DEF OnScreen
<1> QED BY <1>1, <1>3, <1>4, <1>5 DEF TypeOK, Rows

\* By whatever commands, scrolls, pages, jumps, resizes and toggles the cursor came, it is in
\* the text and in a row of the window, current_y is that row, and it is as near to the wanted
\* column as its line lets it.
THEOREM CursorIsShown == Spec => []TypeOK
<1>1. Init => Shown(w)
      BY InitRefreshed, RefreshedShows
<1>2. Shown(w) /\ [Next]_vars => Shown(w)'
      BY NextShown
<1>3. Shown(w) => TypeOK
      BY ShownTypeOK
<1> QED BY <1>1, <1>2, <1>3, PTL DEF Spec

-----------------------------------------------------------------------------
(* The next and the previous word. *)

Starts(s) ==
    {p \in PositionsOf(Text) :
       WordAt(s, p[1], p[2]) /\ (p[2] > 0 => ~WordAt(s, p[1], p[2] - 1))}

\* The beginning of the word the cursor is in.
Here(s) ==
    {p \in Starts(s) : /\ ~Before(Cursor(s), p) /\ p[1] = s.current
                       /\ \A x \in p[2]..s.x : WordAt(s, p[1], x)}

LEMMA StartIs ==
    ASSUME NEW s, NEW p \in Starts(s)
    PROVE  /\ p = <<p[1], p[2]>> /\ p[1] \in 1..Filebot /\ p[2] \in Nat
           /\ p[2] \in WordsOf(s, p[1]) /\ WordAt(s, p[1], p[2])
           /\ p[2] > 0 => ~WordAt(s, p[1], p[2] - 1)
<1>1. p \in PositionsOf(Text) /\ WordAt(s, p[1], p[2])
      BY DEF Starts
<1>2. p = <<p[1], p[2]>> /\ p[1] \in 1..Filebot /\ p[2] \in 0..Len(Text[p[1]])
      BY <1>1, InPosition
<1>3. p[2] \in Nat /\ Len(Text[p[1]]) \in Nat
      BY <1>2, TextTypes
<1>4. p[2] \in 0..Len(Text[p[1]]) - 1
      BY <1>1, <1>2, <1>3 DEF WordAt
<1> QED BY <1>1, <1>2, <1>3, <1>4 DEF Starts, WordsOf

LEMMA IsStart ==
    ASSUME NEW s, NEW l \in 1..Filebot, NEW x \in WordsOf(s, l),
           x > 0 => ~WordAt(s, l, x - 1)
    PROVE  <<l, x>> \in Starts(s)
<1>1. x \in 0..Len(Text[l]) - 1 /\ Len(Text[l]) \in Nat
      BY WordsIn, TextTypes
<1>2. x \in 0..Len(Text[l])
      BY <1>1
<1>3. WordAt(s, l, x)
      BY DEF WordsOf
<1> QED BY <1>2, <1>3, PositionIn DEF Starts

\* A word that begins after the cursor in its line begins after the word the cursor is in.
LEMMA LaterStart ==
    ASSUME NEW s, Typed(s), NEW p \in Starts(s), p[1] = s.current, p[2] > s.x
    PROVE  p[2] > NextStop(s)
<1>1. s.x \in Nat /\ NextStop(s) \in Nat /\ p[2] \in Nat
      BY NextStopIs, StartIs, TextTypes DEF Typed, Windows
<1>2. p[2] # NextStop(s)
      BY NextStopIs, StartIs
<1>3. ASSUME p[2] < NextStop(s)
      PROVE  FALSE
  <2>1. p[2] - 1 \in s.x..NextStop(s) - 1 /\ p[2] > 0
        BY <1>1, <1>3
  <2>2. WordAt(s, s.current, p[2] - 1)
        BY <2>1, NextStopIs
  <2> QED BY <2>1, <2>2, StartIs
<1> QED BY <1>1, <1>2, <1>3

LEMMA NextToFirst ==
    ASSUME NEW s, Typed(s)
    PROVE  LET after == {p \in Starts(s) : Before(Cursor(s), p)} IN
           \/ NextTo(s) \in after /\ \A p \in after : ~Before(p, NextTo(s))
           \/ after = {} /\ NextTo(s) = <<Filebot, Len(Text[Filebot])>>
<1> DEFINE after == {p \in Starts(s) : Before(Cursor(s), p)}
           stop == NextStop(s)
<1>1. s.x \in Nat /\ stop \in Nat /\ s.x <= stop /\ s.current \in 1..Filebot /\ Filebot \in Nat
      BY NextStopIs, TextTypes DEF Typed, Windows
<1>2. \A p \in after : /\ p[1] \in 1..Filebot /\ p[2] \in WordsOf(s, p[1]) /\ p[2] \in Nat
                       /\ p[1] > s.current \/ (p[1] = s.current /\ p[2] > stop)
  <2> TAKE p \in after
  <2>1. p \in Starts(s) /\ (s.current < p[1] \/ (s.current = p[1] /\ s.x < p[2]))
        BY DEF Before, Cursor
  <2>2. p[1] \in 1..Filebot /\ p[2] \in WordsOf(s, p[1]) /\ p[2] \in Nat
        BY <2>1, StartIs
  <2> HIDE DEF after
  <2>3. p[1] = s.current => p[2] > stop
        BY <1>1, <2>1, <2>2, LaterStart
  <2> QED BY <1>1, <2>1, <2>2, <2>3
<1> DEFINE Found(l, x) ==
             /\ NextTo(s) = <<l, x>>
             /\ \/ /\ l = s.current /\ x \in WordsOf(s, l) /\ x > stop
                   /\ \A y \in WordsOf(s, l) : y > stop => x <= y
                \/ /\ \A y \in WordsOf(s, s.current) : ~(y > stop)
                   /\ l > s.current /\ x \in WordsOf(s, l)
                   /\ \A k \in s.current + 1..l - 1 : WordsOf(s, k) = {}
                   /\ \A y \in WordsOf(s, l) : x <= y
                \/ /\ \A y \in WordsOf(s, s.current) : ~(y > stop)
                   /\ \A k \in s.current + 1..Filebot : WordsOf(s, k) = {}
                   /\ l = Filebot /\ x = Len(Text[Filebot])
<1>f. PICK l \in 1..Filebot : \E x \in 0..Len(Text[l]) : Found(l, x)
      BY NextToIs
<1>3. PICK x \in 0..Len(Text[l]) : Found(l, x)
      BY <1>f
<1>4. x \in Nat
      OBVIOUS
<1>5. ASSUME x \in WordsOf(s, l), <<l, x>> \in Starts(s), Before(Cursor(s), <<l, x>>)
      PROVE  NextTo(s) \in after
      BY <1>3, <1>5
<1>6. \A y \in 0..Len(Text[l]) : y \in WordsOf(s, l) <=> WordAt(s, l, y)
  <2>1. Len(Text[l]) \in Nat
        BY TextTypes
  <2> QED BY <2>1 DEF WordsOf, WordAt
<1>7. ASSUME l = s.current, x \in WordsOf(s, l), x > stop,
             \A y \in WordsOf(s, l) : y > stop => x <= y
      PROVE  NextTo(s) \in after /\ \A p \in after : ~Before(p, NextTo(s))
  <2>1. ~WordAt(s, l, x - 1)
    <3>1. x - 1 \in 0..Len(Text[l]) /\ x - 1 >= stop /\ ~(x <= x - 1)
          BY <1>1, <1>4, <1>7, TextTypes
    <3>2. CASE x - 1 = stop
          BY <1>7, <3>2, NextStopIs
    <3>3. CASE x - 1 > stop
          BY <1>6, <1>7, <3>1, <3>3
    <3> QED BY <1>1, <1>4, <3>1, <3>2, <3>3
  <2>2. <<l, x>> \in Starts(s)
        BY <1>7, <2>1, IsStart
  <2>3. Before(Cursor(s), <<l, x>>)
        BY <1>1, <1>4, <1>7 DEF Before, Cursor
  <2>4. \A p \in after : ~Before(p, <<l, x>>)
    <3> TAKE p \in after
    <3>1. /\ p[1] \in 1..Filebot /\ p[2] \in WordsOf(s, p[1]) /\ p[2] \in Nat
          /\ p[1] > s.current \/ (p[1] = s.current /\ p[2] > stop)
          BY <1>2
    <3> HIDE DEF after, stop
    <3>2. p[1] > l \/ (p[1] = l /\ x <= p[2])
          BY <1>7, <3>1
    <3> QED BY <1>1, <1>4, <3>1, <3>2 DEF Before
  <2> QED BY <1>3, <1>5, <1>7, <2>2, <2>3, <2>4
<1>8. ASSUME \A y \in WordsOf(s, s.current) : ~(y > stop),
             l > s.current, x \in WordsOf(s, l),
             \A k \in s.current + 1..l - 1 : WordsOf(s, k) = {},
             \A y \in WordsOf(s, l) : x <= y
      PROVE  NextTo(s) \in after /\ \A p \in after : ~Before(p, NextTo(s))
  <2>1. x > 0 => ~WordAt(s, l, x - 1)
    <3>1. x > 0 => x - 1 \in 0..Len(Text[l]) /\ ~(x <= x - 1)
          BY <1>4, TextTypes
    <3> QED BY <1>6, <1>8, <3>1
  <2>2. <<l, x>> \in Starts(s)
        BY <1>8, <2>1, IsStart
  <2>3. Before(Cursor(s), <<l, x>>)
        BY <1>8 DEF Before, Cursor
  <2>4. \A p \in after : ~Before(p, <<l, x>>)
    <3> TAKE p \in after
    <3>1. /\ p[1] \in 1..Filebot /\ p[2] \in WordsOf(s, p[1]) /\ p[2] \in Nat
          /\ p[1] > s.current \/ (p[1] = s.current /\ p[2] > stop)
          BY <1>2
    <3> HIDE DEF after, stop
    <3>2. p[1] > s.current
          BY <1>8, <3>1
    <3>3. p[1] \notin s.current + 1..l - 1
          BY <1>8, <3>1
    <3>4. p[1] = l => x <= p[2]
          BY <1>8, <3>1
    <3> QED BY <1>1, <1>4, <3>1, <3>2, <3>3, <3>4 DEF Before
  <2> QED BY <1>3, <1>5, <1>8, <2>2, <2>3, <2>4
<1>9. ASSUME \A y \in WordsOf(s, s.current) : ~(y > stop),
             \A k \in s.current + 1..Filebot : WordsOf(s, k) = {},
             l = Filebot, x = Len(Text[Filebot])
      PROVE  after = {} /\ NextTo(s) = <<Filebot, Len(Text[Filebot])>>
  <2>1. ASSUME NEW p \in after
        PROVE  FALSE
    <3>1. /\ p[1] \in 1..Filebot /\ p[2] \in WordsOf(s, p[1]) /\ p[2] \in Nat
          /\ p[1] > s.current \/ (p[1] = s.current /\ p[2] > stop)
          BY <1>2
    <3> HIDE DEF after, stop
    <3>2. p[1] > s.current => p[1] \in s.current + 1..Filebot
          BY <1>1, <3>1
    <3> QED BY <1>9, <3>1, <3>2
  <2> QED BY <1>3, <1>9, <2>1
<1> QED BY <1>3, <1>7, <1>8, <1>9

\* A word that begins before the cursor in its line, but is not the one the cursor is in, begins
\* before that one.
LEMMA EarlierStart ==
    ASSUME NEW s, Typed(s), NEW p \in Starts(s) \ Here(s), p[1] = s.current, p[2] < s.x
    PROVE  p[2] < BeforeWord(s)
<1>1. s.x \in Nat /\ BeforeWord(s) \in Int /\ p[2] \in Nat
      BY BeforeWordIs, StartIs DEF Typed, Windows
<1>2. p[2] # BeforeWord(s)
      BY <1>1, BeforeWordIs, StartIs
<1>3. ASSUME p[2] > BeforeWord(s)
      PROVE  FALSE
  <2>1. \A x \in p[2]..s.x : x \in BeforeWord(s) + 1..s.x
        BY <1>1, <1>3
  <2>2. \A x \in p[2]..s.x : WordAt(s, p[1], x)
        BY <2>1, BeforeWordIs
  <2>3. ~Before(Cursor(s), p)
        BY <1>1 DEF Before, Cursor, Typed, Windows
  <2> QED BY <2>2, <2>3 DEF Here
<1> QED BY <1>1, <1>2, <1>3

LEMMA PrevToLast ==
    ASSUME NEW s, Typed(s)
    PROVE  LET before == {p \in Starts(s) : Before(p, Cursor(s))} \ Here(s) IN
           \/ PrevTo(s) \in before /\ \A p \in before : ~Before(PrevTo(s), p)
           \/ before = {} /\ PrevTo(s) = <<1, 0>>
<1> DEFINE before == {p \in Starts(s) : Before(p, Cursor(s))} \ Here(s)
           b == BeforeWord(s)
<1>1. s.x \in Nat /\ b \in -1..s.x /\ s.current \in 1..Filebot /\ Filebot \in Nat
      BY BeforeWordIs, TextTypes DEF Typed, Windows
<1>2. \A p \in before : /\ p \in Starts(s) /\ p[1] \in 1..Filebot
                        /\ p[2] \in WordsOf(s, p[1]) /\ p[2] \in Nat
                        /\ p[1] < s.current \/ (p[1] = s.current /\ p[2] < b)
  <2> TAKE p \in before
  <2>1. /\ p \in Starts(s) \ Here(s)
        /\ p[1] < s.current \/ (p[1] = s.current /\ p[2] < s.x)
        BY DEF Before, Cursor
  <2>2. p[1] \in 1..Filebot /\ p[2] \in WordsOf(s, p[1]) /\ p[2] \in Nat
        BY <2>1, StartIs
  <2> HIDE DEF before
  <2>3. p[1] = s.current /\ p[2] < s.x => p[2] < b
        BY <2>1, EarlierStart
  <2> QED BY <2>1, <2>2, <2>3
<1>3. CASE PrevTo(s) = <<1, 0>> /\ (\A y \in WordsOf(s, s.current) : ~(y < b))
           /\ \A k \in 1..s.current - 1 : WordsOf(s, k) = {}
  <2>1. ASSUME NEW p \in before
        PROVE  FALSE
    <3>1. /\ p[1] \in 1..Filebot /\ p[2] \in WordsOf(s, p[1]) /\ p[2] \in Nat
          /\ p[1] < s.current \/ (p[1] = s.current /\ p[2] < b)
          BY <1>2
    <3> HIDE DEF before, b
    <3>2. p[1] < s.current => p[1] \in 1..s.current - 1
          BY <1>1, <3>1
    <3> QED BY <1>3, <3>1, <3>2
  <2> QED BY <1>3, <2>1
<1>4. ASSUME NEW l \in 1..s.current, NEW x \in WordsOf(s, l),
             PrevTo(s) = <<l, WordStart(s, l, x)>>,
             \/ /\ l = s.current /\ x < b
                /\ \A y \in WordsOf(s, l) : y < b => y <= x
             \/ /\ l < s.current
                /\ \A y \in WordsOf(s, s.current) : ~(y < b)
                /\ \A k \in l + 1..s.current - 1 : WordsOf(s, k) = {}
                /\ \A y \in WordsOf(s, l) : y <= x
      PROVE  PrevTo(s) \in before /\ \A p \in before : ~Before(PrevTo(s), p)
  <2> DEFINE start == WordStart(s, l, x)
  <2>1. l \in 1..Filebot /\ Len(Text[l]) \in Nat
        BY <1>1, TextTypes
  <2>2. x \in 0..Len(Text[l]) - 1 /\ x \in Nat /\ WordAt(s, l, x)
        BY <2>1, WordsIn DEF WordsOf
  <2>3. /\ start \in 0..x
        /\ start > 0 => ~WordAt(s, l, start - 1)
        /\ \A y \in start..x - 1 : WordAt(s, l, y)
        BY <2>2, WordStartIs
  <2> HIDE DEF start, b
  <2>4. WordAt(s, l, start)
    <3>1. start = x \/ start \in start..x - 1
          BY <2>2, <2>3
    <3> QED BY <2>2, <2>3, <3>1
  <2>5. start \in WordsOf(s, l) /\ start \in Nat
        BY <2>2, <2>3, <2>4 DEF WordsOf
  <2>6. <<l, start>> \in Starts(s)
        BY <2>1, <2>3, <2>5, IsStart
  <2>7. Before(<<l, start>>, Cursor(s))
        BY <1>1, <1>4, <2>2, <2>3 DEF Before, Cursor
  <2>8. <<l, start>> \notin Here(s)
    <3> SUFFICES ASSUME <<l, start>> \in Here(s)
                 PROVE  FALSE
        OBVIOUS
    <3>1. l = s.current /\ \A y \in start..s.x : WordAt(s, l, y)
          BY DEF Here
    <3>2. x < b
          BY <1>1, <1>4, <3>1
    <3>3. b \in start..s.x /\ b >= 0
          BY <1>1, <2>2, <2>3, <3>2
    <3> QED BY <3>1, <3>3, BeforeWordIs DEF b
  <2>9. \A p \in before : ~Before(<<l, start>>, p)
    <3> TAKE p \in before
    <3>1. /\ p \in Starts(s)
          /\ p[1] \in 1..Filebot /\ p[2] \in WordsOf(s, p[1]) /\ p[2] \in Nat
          /\ p[1] < s.current \/ (p[1] = s.current /\ p[2] < b)
          BY <1>2
    <3>2. p[2] > 0 => ~WordAt(s, p[1], p[2] - 1)
          BY <3>1, StartIs
    <3> HIDE DEF before
    <3>3. p[1] = l => p[2] <= x
          BY <1>1, <1>4, <3>1
    <3>4. p[1] = l => ~(start < p[2])
      <4> SUFFICES ASSUME p[1] = l, start < p[2]
                   PROVE  FALSE
          OBVIOUS
      <4>1. p[2] - 1 \in start..x - 1 /\ p[2] > 0
            BY <2>2, <2>3, <3>1, <3>3
      <4> QED BY <2>3, <3>2, <4>1
    <3>5. ~(l < p[1])
      <4> SUFFICES ASSUME l < p[1]
                   PROVE  FALSE
          OBVIOUS
      <4>1. p[1] \in l + 1..s.current - 1 \/ p[1] = s.current
            BY <1>1, <2>1, <3>1
      <4> QED BY <1>1, <1>4, <2>1, <3>1, <4>1
    <3> QED BY <3>4, <3>5 DEF Before
  <2> QED BY <1>4, <2>6, <2>7, <2>8, <2>9 DEF start
<1> QED BY <1>3, <1>4, PrevToIs

LEMMA ShownWordByWord == Shown(w) => WordByWord
<1> SUFFICES ASSUME Shown(w)
             PROVE  WordByWord
    OBVIOUS
<1> DEFINE after  == {p \in Starts(w) : Before(Cursor(w), p)}
           before == {p \in Starts(w) : Before(p, Cursor(w))} \ Here(w)
           next   == Cursor(NextWord(w))
           prev   == Cursor(PrevWord(w))
<1>1. Typed(w)
      BY DEF Shown
<1>2. next = NextTo(w)
  <2>1. /\ NextTo(w) = <<NextTo(w)[1], NextTo(w)[2]>>
        /\ NextTo(w)[1] \in 1..Filebot /\ NextTo(w)[2] \in 0..Len(Text[NextTo(w)[1]])
        BY <1>1, NextToPosition
  <2> QED BY <2>1, NextWordIs, ReadyRedraw
<1>3. prev = PrevTo(w)
  <2>1. /\ PrevTo(w) = <<PrevTo(w)[1], PrevTo(w)[2]>>
        /\ PrevTo(w)[1] \in 1..Filebot /\ PrevTo(w)[2] \in 0..Len(Text[PrevTo(w)[1]])
        BY <1>1, PrevToPosition
  <2> QED BY <2>1, PrevWordIs, ReadyRedraw
<1> HIDE DEF next, prev
<1>4. \/ next \in after /\ \A p \in after : ~Before(p, next)
      \/ after = {} /\ next = <<Filebot, Len(Text[Filebot])>>
      BY <1>1, <1>2, NextToFirst
<1>5. \/ prev \in before /\ \A p \in before : ~Before(prev, p)
      \/ before = {} /\ prev = <<1, 0>>
      BY <1>1, <1>3, PrevToLast
<1> QED BY <1>4, <1>5 DEF WordByWord, Starts, Here, next, prev

\* Whatever the text, and wherever the cursor has come to, do_next_word goes to the first word
\* that begins after it and do_prev_word to the last that begins before the word it is in.
THEOREM WordsAreFound == Spec => []WordByWord
<1>1. Init => Shown(w)
      BY InitRefreshed, RefreshedShows
<1>2. Shown(w) /\ [Next]_vars => Shown(w)'
      BY NextShown
<1>3. Shown(w) => WordByWord
      BY ShownWordByWord
<1> QED BY <1>1, <1>2, <1>3, PTL DEF Spec

-----------------------------------------------------------------------------
(* Drawing piece by piece.                                                 *)

\* What the rows show when everything is drawn.
RowOf(s, r) ==
    LET l == s.top + r - 1 IN IF l <= Filebot THEN Drawn(s, l) ELSE Empty
Fresh(s) == \A r \in 1..s.rows : s.screen[r] = RowOf(s, r)

\* What a command must leave behind besides: Finish draws anew, or need not.
Clean(s) == s.refresh \/ Fresh(s)

Page(s, l) == PageStart(s.cols, IF l = s.current THEN s.x ELSE 0)

LEMMA DrawnIs ==
    ASSUME NEW s, NEW l
    PROVE  Drawn(s, l) = [line |-> l, page |-> Page(s, l), marked |-> Painted(s, l, Page(s, l))]
BY DEF Drawn, Page

\* Where a line is drawn the same in two windows: with the same cursor and mark;
LEMMA SameCursorDrawn ==
    ASSUME NEW s, NEW t, NEW l, t.current = s.current, t.x = s.x, t.mark = s.mark,
           t.cols = s.cols
    PROVE  Drawn(t, l) = Drawn(s, l)
BY DEF Drawn, Painted, MarkSet, Cursor

\* without a mark, on the same page;
LEMMA SamePageDrawn ==
    ASSUME NEW s, NEW t, NEW l, ~MarkSet(s), t.mark = s.mark, Page(t, l) = Page(s, l)
    PROVE  Drawn(t, l) = Drawn(s, l)
<1>1. ~MarkSet(t)
      BY DEF MarkSet
<1>2. Painted(s, l, Page(s, l)) = {} /\ Painted(t, l, Page(t, l)) = {}
      BY <1>1 DEF Painted
<1> QED BY <1>2, DrawnIs

\* What lies between two places on the page of a line that begins at start.
Between(s, l, start, top_l, top, bot_l, bot) ==
    LET len      == Len(Text[l])
        startpos == Min({len, start})
        endpos   == Min({len, start + s.cols - 1}) + 1
    IN  IF top_l <= l /\ l <= bot_l
        THEN ((IF top_l < l \/ top < startpos THEN startpos ELSE top)
                ..(IF bot_l > l \/ bot > endpos THEN endpos ELSE bot) - 1) \cap (0..len - 1)
        ELSE {}

LEMMA PaintedIs ==
    ASSUME NEW s, MarkSet(s), NEW l, NEW start
    PROVE  Painted(s, l, start) =
             IF Before(s.mark, Cursor(s))
             THEN Between(s, l, start, s.mark[1], s.mark[2], s.current, s.x)
             ELSE Between(s, l, start, s.current, s.x, s.mark[1], s.mark[2])
<1>1. CASE Before(s.mark, Cursor(s))
  <2> DEFINE ends == <<s.mark, Cursor(s)>>
  <2>1. ends[1][1] = s.mark[1] /\ ends[1][2] = s.mark[2]
        /\ ends[2][1] = s.current /\ ends[2][2] = s.x
        BY DEF Cursor
  <2> QED BY <1>1, <2>1 DEF Painted, Between
<1>2. CASE ~Before(s.mark, Cursor(s))
  <2> DEFINE ends == <<Cursor(s), s.mark>>
  <2>1. ends[2][1] = s.mark[1] /\ ends[2][2] = s.mark[2]
        /\ ends[1][1] = s.current /\ ends[1][2] = s.x
        BY DEF Cursor
  <2> QED BY <1>2, <2>1 DEF Painted, Between
<1> QED BY <1>1, <1>2

\* and where both cursors are above it, or both below.
LEMMA BesideDrawn ==
    ASSUME NEW s, Typed(s), NEW t, Typed(t), NEW l \in 1..Filebot,
           t.mark = s.mark, t.cols = s.cols,
           \/ l < s.current /\ l < t.current
           \/ l > s.current /\ l > t.current
    PROVE  Drawn(t, l) = Drawn(s, l)
<1>1. s.current \in 1..Filebot /\ t.current \in 1..Filebot /\ Filebot \in Nat
      BY TextTypes DEF Typed, Windows
<1>2. Page(s, l) = PageStart(s.cols, 0) /\ Page(t, l) = PageStart(s.cols, 0)
      BY <1>1 DEF Page
<1> DEFINE start == PageStart(s.cols, 0)
<1>3. CASE ~MarkSet(s)
      BY <1>2, <1>3, SamePageDrawn
<1>4. CASE MarkSet(s)
  <2>1. /\ s.mark = <<s.mark[1], s.mark[2]>> /\ s.mark[1] \in 1..Filebot
        BY <1>4, InPosition DEF MarkSet, Typed, Windows
  <2>2. s.mark[1] \in Int
        BY <1>1, <2>1
  <2> HIDE DEF start
  <2>3. /\ Painted(s, l, start) =
             IF Before(s.mark, Cursor(s))
             THEN Between(s, l, start, s.mark[1], s.mark[2], s.current, s.x)
             ELSE Between(s, l, start, s.current, s.x, s.mark[1], s.mark[2])
        /\ Painted(t, l, start) =
             IF Before(s.mark, Cursor(t))
             THEN Between(t, l, start, s.mark[1], s.mark[2], t.current, t.x)
             ELSE Between(t, l, start, t.current, t.x, s.mark[1], s.mark[2])
        BY <1>4, PaintedIs DEF MarkSet
  <2>4. Painted(t, l, start) = Painted(s, l, start)
    <3>1. CASE l < s.mark[1] /\ l < s.current /\ l < t.current
          BY <1>1, <2>2, <2>3, <3>1 DEF Between
    <3>2. CASE l > s.mark[1] /\ l > s.current /\ l > t.current
          BY <1>1, <2>2, <2>3, <3>2 DEF Between
    <3>3. CASE s.mark[1] <= l /\ l < s.current /\ l < t.current
      <4>1. Before(s.mark, Cursor(s)) /\ Before(s.mark, Cursor(t))
            BY <1>1, <2>1, <2>2, <3>3 DEF Before, Cursor
      <4> QED BY <1>1, <2>2, <2>3, <3>3, <4>1 DEF Between
    <3>4. CASE s.mark[1] >= l /\ l > s.current /\ l > t.current
      <4>1. ~Before(s.mark, Cursor(s)) /\ ~Before(s.mark, Cursor(t))
            BY <1>1, <2>1, <2>2, <3>4 DEF Before, Cursor
      <4>2. Between(t, l, start, t.current, t.x, s.mark[1], s.mark[2]) =
              Between(s, l, start, s.current, s.x, s.mark[1], s.mark[2])
        <5>1. s.current < l /\ t.current < l /\ s.current <= l /\ t.current <= l
              BY <1>1, <3>4
        <5> QED BY <5>1 DEF Between
      <4> QED BY <2>3, <4>1, <4>2
    <3> QED BY <1>1, <2>2, <3>1, <3>2, <3>3, <3>4
  <2> QED BY <1>2, <2>4, DrawnIs DEF start
<1> QED BY <1>3, <1>4

\* Where nothing is drawn, the rows are those of before.
LEMMA KeptRows ==
    ASSUME NEW s, NEW t, t.top = s.top, t.rows = s.rows, t.screen = s.screen, Fresh(s),
           NEW r \in 1..s.rows,
           s.top + r - 1 <= Filebot => Drawn(t, s.top + r - 1) = Drawn(s, s.top + r - 1)
    PROVE  t.screen[r] = RowOf(t, r)
BY DEF Fresh, RowOf

LEMMA UpdateLinesFresh ==
    ASSUME NEW s, Typed(s), NEW lines \in SUBSET (1..Filebot),
           \A r \in 1..s.rows : s.top + r - 1 \notin lines => s.screen[r] = RowOf(s, r)
    PROVE  Fresh(UpdateLines(s, lines))
<1> DEFINE t == UpdateLines(s, lines)
<1>1. SameBut({"screen"}, s, t)
      BY UpdateLinesTypes
<1>2. \A l : Drawn(t, l) = Drawn(s, l)
      BY <1>1, SameCursorDrawn DEF SameBut
<1>3. ASSUME NEW r \in 1..s.rows
      PROVE  t.screen[r] = RowOf(t, r)
  <2>1. t.screen[r] = IF s.top + r - 1 \in lines THEN Drawn(s, s.top + r - 1) ELSE s.screen[r]
        BY DEF UpdateLines, Typed, Windows
  <2>2. RowOf(t, r) = RowOf(s, r)
        BY <1>1, <1>2 DEF RowOf, SameBut
  <2>3. s.top + r - 1 \in lines => RowOf(s, r) = Drawn(s, s.top + r - 1)
    <3> HAVE s.top + r - 1 \in lines
    <3>1. s.top + r - 1 \in 1..Filebot /\ Filebot \in Nat
          BY TextTypes
    <3>2. s.top + r - 1 <= Filebot
          BY <3>1
    <3> QED BY <3>2 DEF RowOf
  <2> QED BY <2>1, <2>2, <2>3
<1> QED BY <1>1, <1>3 DEF Fresh, SameBut

LEMMA EditRefreshFresh ==
    ASSUME NEW s, Typed(s)
    PROVE  Fresh(EditRefresh(s))
<1> DEFINE t == IF ~Offscreen(s, s.current) THEN s
                ELSE EditUpdate(s, IF IsSet(s, "SMOOTH_SCROLL") THEN "NONE" ELSE "CENTER")
           screen == [r \in 1..t.rows |->
                        LET l == t.top + r - 1 IN IF l <= Filebot THEN Drawn(t, l) ELSE Empty]
           u == [t EXCEPT !.screen = screen]
           v == ResetCursor(u)
<1>1. EditRefresh(s) = v
      BY DEF EditRefresh
<1>2. Typed(t)
      BY EditUpdateTypes
<1> HIDE DEF t
<1>3. /\ v.current = t.current /\ v.x = t.x /\ v.mark = t.mark /\ v.cols = t.cols
      /\ v.top = t.top /\ v.rows = t.rows /\ v.screen = screen
      BY <1>2 DEF ResetCursor, Typed, Windows
<1> HIDE DEF v, u
<1>4. \A l : Drawn(v, l) = Drawn(t, l)
      BY <1>3, SameCursorDrawn
<1>5. \A r \in 1..v.rows : v.screen[r] = RowOf(v, r)
      BY <1>3, <1>4 DEF RowOf
<1> QED BY <1>1, <1>5 DEF Fresh

LEMMA ResetCursorFresh ==
    ASSUME NEW s, Typed(s), Fresh(s)
    PROVE  Fresh(ResetCursor(s))
<1> DEFINE t == ResetCursor(s)
<1>1. /\ t.current = s.current /\ t.x = s.x /\ t.mark = s.mark /\ t.cols = s.cols
      /\ t.top = s.top /\ t.rows = s.rows /\ t.screen = s.screen
      BY DEF ResetCursor, Typed, Windows
<1> HIDE DEF t
<1>2. \A l : Drawn(t, l) = Drawn(s, l)
      BY <1>1, SameCursorDrawn
<1> QED BY <1>1, <1>2, KeptRows DEF t, Fresh

LEMMA FinishFresh ==
    ASSUME NEW s, Ready(s), Clean(s)
    PROVE  Fresh(Finish(s))
<1>1. CASE s.refresh
  <2> DEFINE e == EditRefresh(s)
             t == [e EXCEPT !.refresh = FALSE]
  <2>1. Shown(e) /\ Fresh(e)
        BY EditRefreshShows, EditRefreshFresh DEF Ready
  <2>2. Finish(s) = ResetCursor(t)
        BY <1>1 DEF Finish
  <2> HIDE DEF e
  <2>3. Typed(t) /\ SameBut({"refresh"}, e, t)
        BY <2>1, OtherRefresh DEF Shown
  <2> HIDE DEF t
  <2>4. \A l : Drawn(t, l) = Drawn(e, l)
        BY <2>3, SameCursorDrawn DEF SameBut
  <2>5. Fresh(t)
        BY <2>1, <2>3, <2>4, KeptRows DEF Fresh, SameBut
  <2> QED BY <2>2, <2>3, <2>5, ResetCursorFresh
<1>2. CASE ~s.refresh
      BY <1>2, ResetCursorFresh DEF Finish, Ready, Clean
<1> QED BY <1>1, <1>2

\* A multiple of d that is less than another is less by d at least.
LEMMA MultiplesApart ==
    ASSUME NEW d \in Nat \ {0}, NEW j \in Int, NEW k \in Int, j * d < k * d
    PROVE  j * d + d <= k * d
<1>1. j < k
  <2> SUFFICES ASSUME k <= j PROVE FALSE
      OBVIOUS
  <2>1. (j - k) * d >= 0
        OBVIOUS
  <2> QED BY <2>1
<1>2. (k - j - 1) * d >= 0
      BY <1>1
<1> QED BY <1>2

LEMMA RestOf ==
    ASSUME NEW d \in Nat \ {0}, NEW a \in Nat
    PROVE  /\ a % d \in 0..d - 1
           /\ \E k \in Int : a - (a % d) = k * d
<1>1. a % d \in 0..d - 1 /\ a = d * (a \div d) + (a % d) /\ a \div d \in Int
      OBVIOUS
<1>2. a - (a % d) = (a \div d) * d
      BY <1>1
<1> QED BY <1>1, <1>2

\* Pages follow each other.
LEMMA PagesInOrder ==
    ASSUME NEW cols \in Nat \ (0..3), NEW a \in Nat, NEW b \in Nat, a <= b
    PROVE  PageStart(cols, a) <= PageStart(cols, b)
<1>1. CASE a < cols - 1
      BY <1>1, PageStartType DEF PageStart
<1>2. CASE a >= cols - 1 /\ cols <= 8
      BY <1>2 DEF PageStart
<1>3. CASE a >= cols - 1 /\ cols > 8
  <2> DEFINE d == cols - 8
             c == a - 7
             e == b - 7
  <2>1. d \in Nat \ {0} /\ c \in Nat /\ e \in Nat /\ c <= e
        BY <1>3
  <2>2. PageStart(cols, a) = c - (c % d) /\ PageStart(cols, b) = e - (e % d)
        BY <1>3 DEF PageStart
  <2> HIDE DEF c, d, e
  <2>3. PICK j \in Int : c - (c % d) = j * d
        BY <2>1, RestOf
  <2>4. PICK k \in Int : e - (e % d) = k * d
        BY <2>1, RestOf
  <2>5. c % d \in 0..d - 1 /\ e % d \in 0..d - 1
        BY <2>1, RestOf
  <2>6. ~(k * d < j * d)
    <3> SUFFICES ASSUME k * d < j * d PROVE FALSE
        OBVIOUS
    <3>1. k * d + d <= j * d
          BY <2>1, MultiplesApart
    <3> QED BY <2>1, <2>3, <2>4, <2>5, <3>1
  <2>7. j * d \in Int /\ k * d \in Int
        BY <2>1
  <2> QED BY <2>2, <2>3, <2>4, <2>6, <2>7
<1> QED BY <1>1, <1>2, <1>3

\* The cursor is on its page.
LEMMA PageHolds ==
    ASSUME NEW cols \in Nat \ (0..3), NEW a \in Nat
    PROVE  a \in PageStart(cols, a)..PageStart(cols, a) + cols - 1
<1>1. CASE a < cols - 1
      BY <1>1 DEF PageStart
<1>2. CASE a >= cols - 1 /\ cols <= 8
      BY <1>2 DEF PageStart
<1>3. CASE a >= cols - 1 /\ cols > 8
  <2> DEFINE d == cols - 8
             c == a - 7
  <2>1. d \in Nat \ {0} /\ c \in Nat
        BY <1>3
  <2>2. PageStart(cols, a) = c - (c % d)
        BY <1>3 DEF PageStart
  <2>3. c % d \in 0..d - 1
    <3> HIDE DEF c, d
    <3> QED BY <2>1, RestOf
  <2> QED BY <2>1, <2>2, <2>3
<1> QED BY <1>1, <1>2, <1>3

\* The page of a column between two of one page, and of one before the second page.
LEMMA PageBetween ==
    ASSUME NEW cols \in Nat \ (0..3), NEW a \in Nat, NEW b \in Nat, NEW c \in Nat,
           a <= b, b <= c, PageStart(cols, a) = PageStart(cols, c)
    PROVE  PageStart(cols, b) = PageStart(cols, a)
<1>1. PageStart(cols, a) <= PageStart(cols, b) /\ PageStart(cols, b) <= PageStart(cols, c)
      BY PagesInOrder
<1>2. PageStart(cols, a) \in Nat /\ PageStart(cols, b) \in Nat
      BY PageStartType
<1> QED BY <1>1, <1>2

LEMMA FirstPage ==
    ASSUME NEW cols \in Nat \ (0..3)
    PROVE  PageStart(cols, 0) = 0
BY DEF PageStart

\* The page of the cursor, when the column wanted is on the first one.
LEMMA CursorOnFirst ==
    ASSUME NEW s, Typed(s), PageStart(s.cols, s.pww) = PageStart(s.cols, 0)
    PROVE  PageStart(s.cols, s.x) = PageStart(s.cols, 0)
<1>1. s.cols \in Nat \ (0..3) /\ s.x \in Nat /\ s.pww \in Nat /\ s.x <= s.pww
      BY TextTypes DEF Typed, Windows
<1> QED BY <1>1, PageBetween

\* A line keeps its drawing when the cursor moves in other lines, when there is no mark;
LEMMA OtherLineDrawn ==
    ASSUME NEW s, NEW t, NEW l, ~MarkSet(s), t.mark = s.mark, t.cols = s.cols,
           l # s.current, l # t.current
    PROVE  Drawn(t, l) = Drawn(s, l)
BY SamePageDrawn DEF Page

\* and its own, when that is on the page that is needed.
LEMMA OwnLineDrawn ==
    ASSUME NEW s, NEW t, NEW l, ~MarkSet(s), t.mark = s.mark, t.cols = s.cols,
           l = s.current => PageStart(s.cols, s.x) = PageStart(s.cols, 0),
           l = t.current => PageStart(s.cols, t.x) = PageStart(s.cols, 0)
    PROVE  Drawn(t, l) = Drawn(s, l)
BY SamePageDrawn DEF Page

\* The cursor moves in its line, and the line is drawn if its page has changed.
LEMMA LineClean ==
    ASSUME NEW s, Ready(s), Clean(s), NEW x \in 0..Len(Text[s.current]), NEW p,
           ~MarkSet(s) /\ PageStart(s.cols, x) = PageStart(s.cols, p) =>
             PageStart(s.cols, s.x) = PageStart(s.cols, x)
    PROVE  Clean(UpdatedLine(To(s, s.current, x), p))
<1> DEFINE t == To(s, s.current, x)
           u == UpdatedLine(t, p)
<1>1. Typed(s) /\ s.current \in 1..Filebot /\ s.top \in 1..Filebot /\ s.rows \in Nat
      /\ Filebot \in Nat
      BY TextTypes DEF Ready, Typed, Windows
<1>2. /\ Typed(t) /\ t.current = s.current /\ t.x = x /\ t.pww = x
      /\ SameBut({"current", "x", "pww"}, s, t)
      BY <1>1, ToTypes
<1>3. u = IF NeedUpdate(t, p) THEN UpdateLines(t, {t.current}) ELSE t
      BY DEF UpdatedLine
<1> HIDE DEF t, u
<1>4. {t.current} \in SUBSET (1..Filebot)
      BY <1>1, <1>2
<1>5. CASE s.refresh
  <2>1. t.refresh
        BY <1>2, <1>5 DEF SameBut
  <2>2. SameBut({"screen"}, t, UpdateLines(t, {t.current}))
        BY <1>2, <1>4, UpdateLinesTypes
  <2> QED BY <1>3, <2>1, <2>2 DEF Clean, SameBut, t, u
<1>6. CASE Fresh(s)
  <2>1. ASSUME NEW r \in 1..t.rows, t.top + r - 1 # s.current
        PROVE  t.screen[r] = RowOf(t, r)
    <3> DEFINE l == t.top + r - 1
    <3>1. l \in Int /\ l >= 1 /\ l # s.current
          BY <1>1, <1>2, <2>1 DEF SameBut
    <3> HIDE DEF l
    <3>2. ASSUME l <= Filebot
          PROVE  Drawn(t, l) = Drawn(s, l)
      <4>1. l \in 1..Filebot /\ (l < s.current \/ l > s.current)
            BY <1>1, <3>1, <3>2
      <4> QED BY <1>1, <1>2, <4>1, BesideDrawn DEF SameBut
    <3> QED BY <1>2, <1>6, <3>2, KeptRows DEF SameBut, l
  <2>2. CASE NeedUpdate(t, p)
    <3>1. Fresh(u)
          BY <1>2, <1>3, <1>4, <2>1, <2>2, UpdateLinesFresh
    <3> QED BY <3>1 DEF Clean, u, t
  <2>3. CASE ~NeedUpdate(t, p)
    <3>1. ~MarkSet(s) /\ PageStart(s.cols, x) = PageStart(s.cols, p)
          BY <1>2, <2>3 DEF NeedUpdate, MarkSet, SameBut
    <3>2. Page(t, s.current) = Page(s, s.current)
          BY <1>2, <3>1 DEF Page, SameBut
    <3>3. Drawn(t, s.current) = Drawn(s, s.current)
          BY <1>2, <3>1, <3>2, SamePageDrawn DEF SameBut
    <3>4. ASSUME NEW r \in 1..t.rows, t.top + r - 1 = s.current
          PROVE  t.screen[r] = RowOf(t, r)
          BY <1>2, <1>6, <3>3, <3>4, KeptRows DEF SameBut
    <3>5. Fresh(t)
          BY <2>1, <3>4 DEF Fresh
    <3> QED BY <1>3, <2>3, <3>5 DEF Clean, t, u
  <2> QED BY <2>2, <2>3
<1> QED BY <1>5, <1>6 DEF Clean

LEMMA UpdateLinesClean ==
    ASSUME NEW s, Typed(s), Clean(s), NEW lines \in SUBSET (1..Filebot)
    PROVE  Clean(UpdateLines(s, lines))
<1>1. CASE s.refresh
      BY <1>1, UpdateLinesTypes DEF Clean, SameBut
<1>2. CASE Fresh(s)
      BY <1>2, UpdateLinesFresh DEF Clean, Fresh
<1> QED BY <1>1, <1>2 DEF Clean

\* The column the cursor is wanted in says enough of the page the cursor is on.
LEMMA LinePage ==
    ASSUME NEW s, Typed(s), NEW x \in 0..Len(Text[s.current]),
           PageStart(s.cols, x) = PageStart(s.cols, s.pww)
    PROVE  PageStart(s.cols, s.x) = PageStart(s.cols, x)
<1>1. /\ s.cols \in Nat \ (0..3) /\ s.x \in Nat /\ s.pww \in Nat /\ x \in Nat
      /\ s.x <= s.pww /\ (s.x = s.pww \/ x <= s.x)
      BY TextTypes DEF Typed, Windows
<1> QED BY <1>1, PageBetween

LEMMA LineDrawnClean ==
    ASSUME NEW s, Ready(s), Clean(s), NEW x \in 0..Len(Text[s.current])
    PROVE  Clean(UpdatedLine(To(s, s.current, x), s.pww))
BY LineClean, LinePage DEF Ready

\* The cursor goes to the line above or below: what is drawn of the other lines stays, and all
\* of it when need_screen_update says so.
LEMMA StepDrawn ==
    ASSUME NEW s, Typed(s), NEW t, Typed(t), SameBut({"current", "x"}, s, t),
           t.current = s.current - 1 \/ t.current = s.current + 1, NEW l \in 1..Filebot,
           NeedUpdate(t, 0) => l # s.current /\ l # t.current
    PROVE  Drawn(t, l) = Drawn(s, l)
<1>1. s.current \in Nat /\ t.current \in Nat /\ l \in Nat
      BY TextTypes DEF Typed, Windows
<1>2. CASE NeedUpdate(t, 0)
  <2>1. (l < s.current /\ l < t.current) \/ (l > s.current /\ l > t.current)
        BY <1>1, <1>2
  <2> QED BY <2>1, BesideDrawn DEF SameBut
<1>3. CASE ~NeedUpdate(t, 0)
  <2>1. /\ ~MarkSet(s) /\ PageStart(s.cols, s.pww) = PageStart(s.cols, 0)
        /\ PageStart(t.cols, t.pww) = PageStart(t.cols, 0)
        BY <1>3 DEF NeedUpdate, MarkSet, SameBut
  <2>2. /\ PageStart(s.cols, s.x) = PageStart(s.cols, 0)
        /\ PageStart(t.cols, t.x) = PageStart(t.cols, 0)
        BY <2>1, CursorOnFirst
  <2> QED BY <2>1, <2>2, OwnLineDrawn DEF SameBut
<1> QED BY <1>2, <1>3

LEMMA StepFresh ==
    ASSUME NEW s, Typed(s), Fresh(s), NEW t, Typed(t), SameBut({"current", "x"}, s, t),
           t.current = s.current - 1 \/ t.current = s.current + 1, NEW r \in 1..t.rows,
           NeedUpdate(t, 0) =>
             t.top + r - 1 # s.current /\ t.top + r - 1 # t.current
    PROVE  t.screen[r] = RowOf(t, r)
<1> DEFINE l == s.top + r - 1
<1>1. l \in Nat /\ l >= 1 /\ s.top = t.top /\ s.rows = t.rows /\ s.screen = t.screen
      BY TextTypes DEF Typed, Windows, SameBut
<1>2. ASSUME l <= Filebot
      PROVE  Drawn(t, l) = Drawn(s, l)
  <2>1. l \in 1..Filebot
        BY <1>1, <1>2, TextTypes
  <2>2. NeedUpdate(t, 0) => l # s.current /\ l # t.current
        BY <1>1
  <2> HIDE DEF l
  <2> QED BY <2>1, <2>2, StepDrawn
<1> QED BY <1>1, <1>2, KeptRows

\* edit_scroll draws the rows that come into the window, and moves the others.
LEMMA ScrollUpClean ==
    ASSUME NEW s, Typed(s), NeedUpdate(s, 0) \/ Fresh(s), NEW n \in Nat
    PROVE  Clean(EditScroll(s, "UPWARD", n))
<1> DEFINE redraw == NeedUpdate(s, 0)
           top    == ScrolledTop(s, "UPWARD", n)
           moved  == s.top - top
           t      == [s EXCEPT !.top = top]
           m      == IF top = 1 THEN s.rows ELSE moved
           fresh  == Min({s.rows, m + Min({m, 2})})
           lines  == (top..top + fresh - 2) \cap (1..Filebot)
           v      == Scrolled(t, top - s.top)
           u      == EditScroll(s, "UPWARD", n)
<1>1. u = IF moved = 0 \/ redraw \/ moved >= s.rows
          THEN [t EXCEPT !.refresh = @ \/ redraw \/ moved >= s.rows]
          ELSE UpdateLines(v, lines)
      BY DEF EditScroll, ScrolledTop
<1>2. top \in 1..Filebot /\ top <= s.top
      BY ScrolledTopIn
<1>3. s.rows \in Nat \ {0} /\ s.top \in 1..Filebot /\ Filebot \in Nat
      BY TextTypes DEF Typed, Windows
<1>4. Typed(t) /\ t.top = top /\ SameBut({"top"}, s, t)
  <2> HIDE DEF top
  <2> QED BY <1>2, OtherTop
<1>5. moved \in Nat
      BY <1>2, <1>3
<1> HIDE DEF top, moved, t, u
<1>6. CASE redraw \/ moved >= s.rows
  <2>1. u = [t EXCEPT !.refresh = TRUE]
        BY <1>1, <1>6
  <2> QED BY <1>4, <2>1, OtherRefresh DEF Clean, u
<1>7. CASE moved = 0 /\ ~redraw /\ ~(moved >= s.rows)
  <2>1. t.refresh \in BOOLEAN
        BY <1>4 DEF Typed, Windows
  <2>2. u = [t EXCEPT !.refresh = t.refresh]
        BY <1>1, <1>7, <2>1
  <2>3. Typed(u) /\ SameBut({"refresh"}, t, u)
        BY <1>4, <2>1, <2>2, OtherRefresh
  <2>4. top = s.top
        BY <1>2, <1>3, <1>7 DEF moved
  <2>5. \A l : Drawn(u, l) = Drawn(s, l)
        BY <1>4, <2>3, SameCursorDrawn DEF SameBut
  <2>6. Fresh(u)
        BY <1>4, <1>7, <2>3, <2>4, <2>5, KeptRows DEF Fresh, SameBut
  <2> QED BY <2>6 DEF Clean, u
<1>8. CASE moved # 0 /\ ~redraw /\ ~(moved >= s.rows)
  <2>1. top - s.top \in Int /\ top - s.top = 0 - moved
        BY <1>2, <1>3 DEF moved
  <2>2. Typed(v) /\ SameBut({"screen"}, t, v)
        BY <1>4, <2>1, ScrolledTypes
  <2>3. \A r \in 1..s.rows :
          v.screen[r] = IF r + (top - s.top) \in 1..s.rows THEN s.screen[r + (top - s.top)]
                        ELSE Empty
        BY <1>4 DEF Scrolled, SameBut, Typed, Windows
  <2> HIDE DEF v
  <2>4. fresh >= moved + 1 /\ fresh \in Nat
    <3>1. m \in Nat /\ m >= moved /\ m >= 1
          BY <1>3, <1>5, <1>8
    <3> HIDE DEF m
    <3>2. Min({m, 2}) = IF m <= 2 THEN m ELSE 2
          BY <3>1, LeastOfTwo
    <3>3. m + Min({m, 2}) \in Nat /\ m + Min({m, 2}) >= moved + 1
          BY <1>5, <3>1, <3>2
    <3> DEFINE k == m + Min({m, 2})
    <3> HIDE DEF k
    <3>4. k \in Nat /\ k >= moved + 1
          BY <3>3 DEF k
    <3>5. fresh = Min({s.rows, k})
          BY DEF k
    <3>6. Min({s.rows, k}) = IF s.rows <= k THEN s.rows ELSE k
          BY <1>3, <3>4, LeastOfTwo
    <3> HIDE DEF fresh
    <3> QED BY <1>3, <1>5, <1>8, <3>4, <3>5, <3>6
  <2> HIDE DEF fresh
  <2>5. \A l : Drawn(v, l) = Drawn(s, l)
        BY <1>4, <2>2, SameCursorDrawn DEF SameBut
  <2>6. ASSUME NEW r \in 1..v.rows, v.top + r - 1 \notin lines
        PROVE  v.screen[r] = RowOf(v, r)
    <3>1. v.top = top /\ v.rows = s.rows
          BY <1>4, <2>2 DEF SameBut
    <3>2. r > moved
      <4> SUFFICES ASSUME r <= moved PROVE FALSE
          BY <1>3, <1>5, <3>1
      <4> QED BY <1>2, <1>3, <1>5, <2>4, <2>6, <3>1 DEF moved
    <3>3. r - moved \in 1..s.rows /\ r + (top - s.top) = r - moved
          /\ s.top + (r - moved) - 1 = v.top + r - 1
          BY <1>2, <1>3, <1>5, <3>1, <3>2 DEF moved
    <3>4. v.screen[r] = s.screen[r - moved]
          BY <2>3, <3>1, <3>3
    <3>5. s.screen[r - moved] = RowOf(s, r - moved)
          BY <1>8, <3>3 DEF Fresh
    <3> QED BY <2>5, <3>3, <3>4, <3>5 DEF RowOf
  <2>7. Fresh(UpdateLines(v, lines))
        BY <2>2, <2>6, UpdateLinesFresh
  <2> QED BY <1>1, <1>8, <2>7 DEF Clean, u
<1> QED BY <1>6, <1>7, <1>8

LEMMA CleanUp ==
    ASSUME NEW s, Shown(s), Fresh(s), NEW scroll_only \in BOOLEAN
    PROVE  Clean(Up(s, scroll_only)) /\ Up(s, scroll_only).pww = s.pww
<1> DEFINE a == ToLine(s, s.current - 1)
           n == ScrollAmount(a, scroll_only)
           b == IF a.y = 0 \/ scroll_only THEN EditScroll(a, "UPWARD", n) ELSE a
           below == IF NeedUpdate(b, 0) THEN {b.current + 1} ELSE {}
<1>1. CASE s.current = 1 \/ (scroll_only /\ s.top = 1)
      BY <1>1 DEF Up, Clean
<1>2. CASE ~(s.current = 1 \/ (scroll_only /\ s.top = 1))
  <2>1. Typed(s) /\ s.current - 1 \in 1..Filebot /\ s.current \in 1..Filebot
        BY <1>2, TextTypes DEF Shown, Typed, Windows
  <2>2. Typed(a) /\ a.current = s.current - 1 /\ SameBut({"current", "x"}, s, a)
        BY <2>1, ToLineTypes
  <2>3. Up(s, scroll_only) =
          IF b.y > 0 THEN UpdateLines(b, below \cup {b.current}) ELSE b
    <3> HIDE DEF a, b, below
    <3> QED BY <1>2 DEF Up, a, b, below
  <2> HIDE DEF a
  <2>4. n \in Nat
        BY <2>2, ScrollAmountIn DEF Typed, Windows
  <2>5. NeedUpdate(a, 0) \/ Fresh(a)
        BY <1>2, <2>1, <2>2, StepFresh DEF Fresh, Shown
  <2> HIDE DEF n
  <2>6. CASE a.y = 0 \/ scroll_only
    <3>1. b = EditScroll(a, "UPWARD", n)
          BY <2>6
    <3>2. Typed(b) /\ SameBut({"top", "refresh", "screen"}, a, b) /\ Clean(b)
          BY <2>2, <2>4, <2>5, <3>1, EditScrollTypes, ScrollUpClean
    <3> HIDE DEF b
    <3>3. below \cup {b.current} \in SUBSET (1..Filebot)
          BY <2>1, <2>2, <3>2 DEF SameBut
    <3> HIDE DEF below
    <3>4. LET t == UpdateLines(b, below \cup {b.current}) IN
          Clean(t) /\ SameBut({"screen"}, b, t)
          BY <3>2, <3>3, UpdateLinesTypes, UpdateLinesClean
    <3> QED BY <2>2, <2>3, <3>2, <3>4 DEF SameBut
  <2>7. CASE ~(a.y = 0 \/ scroll_only)
    <3>1. b = a
          BY <2>7
    <3>2. a.y > 0
          BY <2>2, <2>7 DEF Typed, Windows
    <3> HIDE DEF b
    <3>3. below \cup {a.current} \in SUBSET (1..Filebot)
          BY <2>1, <2>2, <3>1
    <3>4. \A l : l \notin below \cup {a.current} /\ NeedUpdate(a, 0) =>
                 l # s.current /\ l # a.current
          BY <2>1, <2>2, <3>1
    <3> HIDE DEF below
    <3>5. \A r \in 1..a.rows : a.top + r - 1 \notin below \cup {a.current} =>
            a.screen[r] = RowOf(a, r)
          BY <2>1, <2>2, <3>4, StepFresh
    <3>6. LET t == UpdateLines(a, below \cup {a.current}) IN
          Fresh(t) /\ SameBut({"screen"}, a, t)
          BY <2>2, <3>3, <3>5, UpdateLinesTypes, UpdateLinesFresh
    <3> QED BY <2>2, <2>3, <3>1, <3>2, <3>6 DEF SameBut, Clean
  <2> QED BY <2>6, <2>7
<1> QED BY <1>1, <1>2

LEMMA CleanDown ==
    ASSUME NEW s, Shown(s), Fresh(s), NEW scroll_only \in BOOLEAN
    PROVE  Clean(Down(s, scroll_only)) /\ Down(s, scroll_only).pww = s.pww
<1> DEFINE a == ToLine(s, s.current + 1)
           n == ScrollAmount(a, scroll_only)
           e == EditScroll(a, "DOWNWARD", n)
           b == IF a.y = a.rows - 1 \/ scroll_only THEN [e EXCEPT !.refresh = TRUE] ELSE a
           above == IF NeedUpdate(b, 0) THEN {b.current - 1} ELSE {}
<1>1. CASE s.current = Filebot
      BY <1>1 DEF Down, Clean
<1>2. CASE s.current # Filebot
  <2>1. Typed(s) /\ s.current + 1 \in 1..Filebot /\ s.current \in 1..Filebot
        BY <1>2, TextTypes DEF Shown, Typed, Windows
  <2>2. Typed(a) /\ a.current = s.current + 1 /\ SameBut({"current", "x"}, s, a)
        BY <2>1, ToLineTypes
  <2>3. Down(s, scroll_only) =
          IF b.y < b.rows - 1 THEN UpdateLines(b, above \cup {b.current}) ELSE b
    <3> HIDE DEF a, b, above
    <3> QED BY <1>2 DEF Down, a, b, above, e, n
  <2> HIDE DEF a
  <2>4. n \in Nat
        BY <2>2, ScrollAmountIn DEF Typed, Windows
  <2> HIDE DEF n
  <2>5. CASE a.y = a.rows - 1 \/ scroll_only
    <3>1. Typed(e) /\ SameBut({"top", "refresh", "screen"}, a, e)
          BY <2>2, <2>4, EditScrollTypes
    <3> HIDE DEF e
    <3>2. Typed(b) /\ b.refresh = TRUE /\ SameBut({"refresh"}, e, b)
          BY <2>5, <3>1, OtherRefresh
    <3> HIDE DEF b
    <3>3. above \cup {b.current} \in SUBSET (1..Filebot)
          BY <2>1, <2>2, <3>1, <3>2 DEF SameBut
    <3> HIDE DEF above
    <3>4. LET t == UpdateLines(b, above \cup {b.current}) IN
          Clean(t) /\ SameBut({"screen"}, b, t)
          BY <3>2, <3>3, UpdateLinesTypes, UpdateLinesClean DEF Clean
    <3> QED BY <2>2, <2>3, <3>1, <3>2, <3>4 DEF SameBut, Clean
  <2>6. CASE ~(a.y = a.rows - 1 \/ scroll_only)
    <3>1. b = a
          BY <2>6
    <3>2. a.y < a.rows - 1
      <4>1. a.y < a.rows /\ a.y \in Nat /\ a.rows \in Nat
            BY <2>1, <2>2 DEF Shown, OnScreen, SameBut, Typed, Windows
      <4> QED BY <2>6, <4>1
    <3> HIDE DEF b
    <3>3. above \cup {a.current} \in SUBSET (1..Filebot)
          BY <2>1, <2>2, <3>1
    <3>4. \A l : l \notin above \cup {a.current} /\ NeedUpdate(a, 0) =>
                 l # s.current /\ l # a.current
          BY <2>1, <2>2, <3>1
    <3> HIDE DEF above
    <3>5. \A r \in 1..a.rows : a.top + r - 1 \notin above \cup {a.current} =>
            a.screen[r] = RowOf(a, r)
          BY <2>1, <2>2, <3>4, StepFresh
    <3>6. LET t == UpdateLines(a, above \cup {a.current}) IN
          Fresh(t) /\ SameBut({"screen"}, a, t)
          BY <2>2, <3>3, <3>5, UpdateLinesTypes, UpdateLinesFresh
    <3> QED BY <2>2, <2>3, <3>1, <3>2, <3>6 DEF SameBut, Clean
  <2> QED BY <2>5, <2>6
<1> QED BY <1>1, <1>2

LEMMA CleanLeft ==
    ASSUME NEW s, Shown(s), Fresh(s)
    PROVE  Clean(Left(s))
<1> DEFINE up == Up(s, FALSE)
<1>1. Ready(s) /\ Clean(s) /\ s.x \in 0..Len(Text[s.current]) /\ s.current \in 1..Filebot
      BY TextTypes DEF Shown, Ready, Clean, Typed, Windows
<1>2. Ready(up) /\ Clean(up) /\ up.pww = s.pww
      BY ReadyUp, CleanUp
<1> HIDE DEF up
<1>3. Len(Text[up.current]) \in 0..Len(Text[up.current])
      BY <1>2, TextTypes DEF Ready, Typed, Windows
<1>4. CASE s.x > 0
  <2>1. s.x - 1 \in 0..Len(Text[s.current])
        BY <1>1, <1>4, TextTypes
  <2> QED BY <1>1, <1>4, <2>1, LineDrawnClean DEF Left
<1>5. CASE ~(s.x > 0) /\ s.current > 1
  <2>1. Clean(UpdatedLine(To(up, up.current, Len(Text[up.current])), s.pww))
        BY <1>2, <1>3, LineDrawnClean
  <2> QED BY <1>5, <2>1 DEF Left, up
<1>6. CASE ~(s.x > 0) /\ ~(s.current > 1)
      BY <1>1, <1>6, LineDrawnClean DEF Left
<1> QED BY <1>4, <1>5, <1>6

LEMMA CleanRight ==
    ASSUME NEW s, Shown(s), Fresh(s)
    PROVE  Clean(Right(s))
<1> DEFINE down == Down(s, FALSE)
<1>1. Ready(s) /\ Clean(s) /\ s.x \in 0..Len(Text[s.current]) /\ s.current \in 1..Filebot
      BY TextTypes DEF Shown, Ready, Clean, Typed, Windows
<1>2. Ready(down) /\ Clean(down) /\ down.pww = s.pww
      BY ReadyDown, CleanDown
<1> HIDE DEF down
<1>3. 0 \in 0..Len(Text[down.current])
      BY <1>2, TextTypes DEF Ready, Typed, Windows
<1>4. CASE s.x < Len(Text[s.current])
  <2>1. s.x + 1 \in 0..Len(Text[s.current])
        BY <1>1, <1>4, TextTypes
  <2> QED BY <1>1, <1>4, <2>1, LineDrawnClean DEF Right
<1>5. CASE ~(s.x < Len(Text[s.current])) /\ s.current < Filebot
  <2>1. Clean(UpdatedLine(To(down, down.current, 0), s.pww))
        BY <1>2, <1>3, LineDrawnClean
  <2> QED BY <1>5, <2>1 DEF Right, down
<1>6. CASE ~(s.x < Len(Text[s.current])) /\ ~(s.current < Filebot)
      BY <1>1, <1>6, LineDrawnClean DEF Right
<1> QED BY <1>4, <1>5, <1>6

LEMMA CleanHome ==
    ASSUME NEW s, Shown(s), Fresh(s)
    PROVE  Clean(Home(s))
<1> DEFINE indent == Indent(Text[s.current])
           smart  == /\ IsSet(s, "SMART_HOME")
                     /\ indent # s.x /\ indent # Len(Text[s.current])
           x      == IF smart THEN indent ELSE 0
<1>1. Ready(s) /\ Clean(s) /\ s.current \in 1..Filebot
      BY DEF Shown, Ready, Clean, Typed, Windows
<1>2. x \in 0..Len(Text[s.current])
      BY <1>1, TextTypes, IndentIn
<1>3. Home(s) = UpdatedLine(To(s, s.current, x), s.pww)
      BY DEF Home
<1> HIDE DEF x
<1> QED BY <1>1, <1>2, <1>3, LineDrawnClean

LEMMA CleanEnd ==
    ASSUME NEW s, Shown(s), Fresh(s)
    PROVE  Clean(End(s))
<1>1. Ready(s) /\ Clean(s) /\ Len(Text[s.current]) \in 0..Len(Text[s.current])
      BY TextTypes DEF Shown, Ready, Clean, Typed, Windows
<1> QED BY <1>1, LineDrawnClean DEF End

LEMMA RefreshedFresh ==
    ASSUME NEW s, Refreshed(s)
    PROVE  Fresh(s)
BY EditRefreshFresh DEF Refreshed

\* A jump draws the lines it comes from and goes to, and with a mark those between.
LEMMA CleanRedraw ==
    ASSUME NEW s, Shown(s), Fresh(s), NEW l \in 1..Filebot, NEW x \in 0..Len(Text[l])
    PROVE  Clean(EditRedraw(To(s, l, x), s.current, s.pww))
<1> DEFINE t == To(s, l, x)
           redraw == NeedUpdate(t, 0) \/ NeedUpdate(t, s.pww)
           from  == Min({s.current, t.current})
           to    == Max({s.current, t.current})
           lines == IF MarkSet(t) THEN from..to ELSE {s.current, t.current}
           e     == EditRedraw(t, s.current, s.pww)
<1>1. /\ Typed(t) /\ t.current = l /\ t.x = x /\ t.pww = x
      /\ SameBut({"current", "x", "pww"}, s, t)
      BY ToTypes DEF Shown
<1>2. Typed(s) /\ s.current \in 1..Filebot /\ Filebot \in Nat
      /\ s.top \in 1..Filebot /\ s.rows \in Nat
      BY TextTypes DEF Shown, Typed, Windows
<1>3. e = IF Offscreen(t, s.current) \/ Offscreen(t, t.current) THEN EditUpdate(t, "CENTER")
          ELSE IF redraw THEN UpdateLines(t, lines) ELSE t
  <2> HIDE DEF t
  <2> QED BY DEF EditRedraw
<1> HIDE DEF t, e
<1>4. CASE e = EditUpdate(t, "CENTER")
      BY <1>1, <1>4, EditUpdateTypes DEF Clean, e, t
<1>5. CASE redraw /\ e = UpdateLines(t, lines)
  <2>1. /\ from = (IF s.current <= t.current THEN s.current ELSE t.current)
        /\ to = (IF s.current <= t.current THEN t.current ELSE s.current)
        BY <1>1, <1>2, LeastOfTwo, GreatestOfTwo
  <2> HIDE DEF from, to
  <2>2. lines \in SUBSET (1..Filebot)
        BY <1>1, <1>2, <2>1
  <2>3. ASSUME NEW k \in 1..Filebot, k \notin lines
        PROVE  Drawn(t, k) = Drawn(s, k)
    <3>1. CASE MarkSet(t)
      <4>1. (k < s.current /\ k < t.current) \/ (k > s.current /\ k > t.current)
            BY <1>1, <1>2, <2>1, <2>3, <3>1
      <4> QED BY <1>1, <1>2, <4>1, BesideDrawn DEF SameBut
    <3>2. CASE ~MarkSet(t)
          BY <1>1, <2>3, <3>2, OtherLineDrawn DEF MarkSet, SameBut
    <3> QED BY <3>1, <3>2
  <2> HIDE DEF lines
  <2>4. ASSUME NEW r \in 1..t.rows, t.top + r - 1 \notin lines
        PROVE  t.screen[r] = RowOf(t, r)
    <3>1. t.top = s.top /\ t.rows = s.rows /\ t.screen = s.screen
          BY <1>1 DEF SameBut
    <3>2. s.top + r - 1 <= Filebot => Drawn(t, s.top + r - 1) = Drawn(s, s.top + r - 1)
      <4> HAVE s.top + r - 1 <= Filebot
      <4>1. s.top + r - 1 \in 1..Filebot
            BY <1>2, <3>1
      <4> QED BY <2>3, <2>4, <3>1, <4>1
    <3>3. s.screen[r] = RowOf(s, r)
          BY <3>1 DEF Fresh
    <3> QED BY <3>1, <3>2, <3>3 DEF RowOf
  <2>5. Fresh(e)
        BY <1>1, <1>5, <2>2, <2>4, UpdateLinesFresh
  <2> QED BY <2>5 DEF Clean, e, t
<1>6. CASE ~redraw /\ e = t
  <2>1. /\ ~MarkSet(s) /\ PageStart(s.cols, x) = PageStart(s.cols, 0)
        /\ PageStart(s.cols, x) = PageStart(s.cols, s.pww)
        BY <1>1, <1>6 DEF NeedUpdate, MarkSet, SameBut
  <2>2. PageStart(s.cols, s.x) = PageStart(s.cols, 0)
        BY <1>2, <2>1, CursorOnFirst
  <2>3. \A k : Drawn(t, k) = Drawn(s, k)
        BY <1>1, <2>1, <2>2, OwnLineDrawn DEF SameBut
  <2>4. Fresh(t)
        BY <1>1, <2>3, KeptRows DEF Fresh, SameBut
  <2> QED BY <1>6, <2>4 DEF Clean, e, t
<1> QED BY <1>3, <1>4, <1>5, <1>6

LEMMA CleanJump ==
    ASSUME NEW s, Shown(s), Fresh(s), NEW p \in PositionsOf(Text)
    PROVE  Clean(Jump(s, p)) /\ Clean(Abort(Jump(s, p)))
<1> DEFINE j == Jump(s, p)
<1>1. Ready(j)
      BY ReadyJump
<1>2. Clean(j)
      BY InPosition, CleanRedraw DEF Jump
<1> HIDE DEF j
<1>3. Clean(Abort(j))
      BY <1>1, <1>2, EditRefreshFresh DEF Abort, Clean, Ready
<1> QED BY <1>2, <1>3 DEF j

\* Setting the mark paints nothing: nothing lies between it and the cursor.
LEMMA CleanMark ==
    ASSUME NEW s, Shown(s), Fresh(s)
    PROVE  Clean(Mark(s))
<1> DEFINE a == [s EXCEPT !.mark = NoMark]
           b == [s EXCEPT !.mark = Cursor(s)]
<1>1. Cursor(s) \in PositionsOf(Text)
      BY PositionIn, TextTypes DEF Cursor, Shown, Typed, Windows
<1>2. Typed(a) /\ Typed(b) /\ b.mark = Cursor(s) /\ SameBut({"mark"}, s, b)
      BY <1>1, OtherMark DEF Shown
<1>3. Mark(s) = IF MarkSet(s) THEN EditRefresh(a) ELSE b
      BY DEF Mark
<1> HIDE DEF a, b
<1>4. CASE MarkSet(s)
      BY <1>2, <1>3, <1>4, EditRefreshFresh DEF Clean
<1>5. CASE ~MarkSet(s)
  <2>1. /\ b.x = s.x /\ b.current = s.current /\ b.cols = s.cols
        /\ s.x \in 0..Len(Text[s.current]) /\ s.current \in 1..Filebot
        /\ Len(Text[s.current]) \in Nat /\ s.cols \in Nat \ (0..3) /\ Filebot \in Nat
        BY <1>2, TextTypes DEF SameBut, Shown, Typed, Windows
  <2>2. ASSUME NEW l \in 1..Filebot
        PROVE  Painted(b, l, Page(b, l)) = {}
    <3> DEFINE start == Page(b, l)
    <3>1. MarkSet(b) /\ ~Before(b.mark, Cursor(b)) /\ b.mark[1] = s.current /\ b.mark[2] = s.x
          BY <1>2, <2>1 DEF MarkSet, NoMark, Before, Cursor
    <3>2. Painted(b, l, start) = Between(b, l, start, s.current, s.x, s.current, s.x)
          BY <2>1, <3>1, PaintedIs
    <3>3. CASE l # s.current
          BY <2>1, <3>2, <3>3 DEF Between
    <3>4. CASE l = s.current
      <4>1. start = PageStart(s.cols, s.x)
            BY <2>1, <3>4 DEF Page
      <4> HIDE DEF start
      <4>2. start \in Nat /\ start <= s.x /\ s.x <= start + s.cols - 1
        <5>1. s.x \in Nat /\ s.cols \in Nat \ (0..3)
              BY <2>1
        <5>2. start \in Nat /\ s.x \in start..start + s.cols - 1
              BY <4>1, <5>1, PageStartType, PageHolds
        <5> QED BY <5>1, <5>2
      <4>3. Min({Len(Text[l]), start}) = IF Len(Text[l]) <= start THEN Len(Text[l]) ELSE start
            BY <2>1, <3>4, <4>2, LeastOfTwo
      <4> DEFINE stop == start + b.cols - 1
                 endpos == Min({Len(Text[l]), stop}) + 1
      <4>4. stop \in Nat /\ s.x <= stop
            BY <2>1, <4>2
      <4> HIDE DEF stop
      <4>5. Min({Len(Text[l]), stop}) = IF Len(Text[l]) <= stop THEN Len(Text[l]) ELSE stop
            BY <2>1, <3>4, <4>4, LeastOfTwo
      <4>6. ~(s.x > endpos) /\ ~(s.x < Min({Len(Text[l]), start}))
            BY <2>1, <3>4, <4>2, <4>3, <4>4, <4>5
      <4>7. Between(b, l, start, s.current, s.x, s.current, s.x) =
              (s.x..s.x - 1) \cap (0..Len(Text[l]) - 1)
            BY <2>1, <3>4, <4>6 DEF Between, stop
      <4> QED BY <2>1, <3>2, <4>7 DEF start
    <3> QED BY <3>3, <3>4
  <2>3. ASSUME NEW l \in 1..Filebot
        PROVE  Drawn(b, l) = Drawn(s, l)
    <3>1. Painted(s, l, Page(s, l)) = {}
          BY <1>5 DEF Painted
    <3>2. Page(b, l) = Page(s, l)
          BY <2>1 DEF Page
    <3> QED BY <2>2, <3>1, <3>2, DrawnIs
  <2>4. ASSUME NEW r \in 1..b.rows
        PROVE  b.screen[r] = RowOf(b, r)
    <3>1. b.top = s.top /\ b.rows = s.rows /\ b.screen = s.screen /\ s.top \in 1..Filebot
          BY <1>2 DEF SameBut, Shown, Typed, Windows
    <3>2. s.top + r - 1 <= Filebot => s.top + r - 1 \in 1..Filebot
          BY <2>1, <3>1
    <3> QED BY <2>3, <3>1, <3>2, KeptRows
  <2> QED BY <1>3, <1>5, <2>4 DEF Clean, Fresh
<1> QED BY <1>4, <1>5

LEMMA NextFresh == Shown(w) /\ Fresh(w) /\ [Next]_vars => Fresh(w')
<1> SUFFICES ASSUME Shown(w), Fresh(w), [Next]_vars
             PROVE  Fresh(w')
    OBVIOUS
<1>1. CASE do_up
      BY <1>1, ReadyUp, CleanUp, FinishFresh DEF do_up
<1>2. CASE do_scroll_up
      BY <1>2, ReadyUp, CleanUp, FinishFresh DEF do_scroll_up
<1>3. CASE do_down
      BY <1>3, ReadyDown, CleanDown, FinishFresh DEF do_down
<1>4. CASE do_scroll_down
      BY <1>4, ReadyDown, CleanDown, FinishFresh DEF do_scroll_down
<1>5. CASE do_left
      BY <1>5, ReadyLeft, CleanLeft, FinishFresh DEF do_left
<1>6. CASE do_right
      BY <1>6, ReadyRight, CleanRight, FinishFresh DEF do_right
<1>7. CASE do_home
      BY <1>7, ReadyHome, CleanHome, FinishFresh DEF do_home
<1>8. CASE do_end
      BY <1>8, ReadyEnd, CleanEnd, FinishFresh DEF do_end
<1>9. CASE do_first_line
      BY <1>9, ReadyFirstLine, FinishFresh DEF do_first_line, Clean
<1>10. CASE do_last_line
       BY <1>10, ReadyLastLine, FinishFresh DEF do_last_line, Clean
<1>11. CASE do_page_up
       BY <1>11, ReadyPageUp, FinishFresh DEF do_page_up, Clean
<1>12. CASE do_page_down
       BY <1>12, ReadyPageDown, FinishFresh DEF do_page_down, Clean
<1>13. CASE do_next_word
  <2>1. Ready(NextWord(w)) /\ Clean(NextWord(w))
        BY NextWordIs, NextToPosition, ReadyRedraw, CleanRedraw DEF Shown
  <2> QED BY <1>13, <2>1, FinishFresh DEF do_next_word
<1>14. CASE do_prev_word
  <2>1. Ready(PrevWord(w)) /\ Clean(PrevWord(w))
        BY PrevWordIs, PrevToPosition, ReadyRedraw, CleanRedraw DEF Shown
  <2> QED BY <1>14, <2>1, FinishFresh DEF do_prev_word
<1>15. CASE do_mark
       BY <1>15, ReadyMark, CleanMark, FinishFresh DEF do_mark
<1>16. CASE do_gotolinecolumn
       BY <1>16, GoToRefreshed, RefreshedShows, RefreshedFresh, FinishFresh
       DEF do_gotolinecolumn, Shown, Ready, Clean
<1>17. CASE do_search
       BY <1>17, ReadyJump, CleanJump, FinishFresh DEF do_search
<1>18. CASE do_find_bracket
       BY <1>18, ReadyJump, CleanJump, FinishFresh DEF do_find_bracket
<1>19. CASE do_toggle
  <2>1. PICK rows \in Heights : w' = Finish(Resized(w, rows, w.cols))
        BY <1>19 DEF do_toggle
  <2>2. Refreshed(Resized(w, rows, w.cols))
    <3>1. w.cols \in Nat \ (0..3)
          BY DEF Shown, Typed, Windows
    <3> QED BY <3>1, ResizedRefreshed
  <2> QED BY <2>1, <2>2, RefreshedShows, RefreshedFresh, FinishFresh DEF Shown, Ready, Clean
<1>20. CASE handle_sigwinch
       BY <1>20, ResizedRefreshed, RefreshedFresh, WindowAssumption
       DEF handle_sigwinch, WindowAssumption
<1>21. CASE UNCHANGED vars
       BY <1>21 DEF vars
<1> QED BY <1>1, <1>2, <1>3, <1>4, <1>5, <1>6, <1>7, <1>8, <1>9, <1>10, <1>11, <1>12, <1>13,
           <1>14, <1>15, <1>16, <1>17, <1>18, <1>19, <1>20, <1>21 DEF Next

\* What edit_draw paints of a line lies between the two places, and on the page.
LEMMA BetweenIs ==
    ASSUME NEW s, s.cols \in Nat \ (0..3), NEW l \in 1..Filebot, NEW start \in Nat,
           NEW top_l \in Nat, NEW top \in Nat, NEW bot_l \in Nat, NEW bot \in Nat
    PROVE  Between(s, l, start, top_l, top, bot_l, bot) =
             {x \in 0..Len(Text[l]) - 1 :
                /\ ~Before(<<l, x>>, <<top_l, top>>) /\ Before(<<l, x>>, <<bot_l, bot>>)
                /\ x \in start..start + s.cols - 1}
<1> DEFINE len      == Len(Text[l])
           stop     == start + s.cols - 1
           startpos == Min({len, start})
           lastpos  == Min({len, stop})
           top_x == IF top_l < l \/ top < startpos THEN startpos ELSE top
           bot_x == IF bot_l > l \/ bot > lastpos + 1 THEN lastpos + 1 ELSE bot
<1>1. len \in Nat /\ l \in Nat /\ stop \in Nat
      BY TextTypes
<1>2. Between(s, l, start, top_l, top, bot_l, bot) =
        IF top_l <= l /\ l <= bot_l THEN (top_x..bot_x - 1) \cap (0..len - 1) ELSE {}
      BY DEF Between
<1> HIDE DEF len, stop
<1>3. /\ startpos = (IF len <= start THEN len ELSE start)
      /\ lastpos = (IF len <= stop THEN len ELSE stop)
      BY <1>1, LeastOfTwo
<1> HIDE DEF startpos, lastpos
<1>4. ASSUME NEW x \in 0..len - 1
      PROVE  /\ Before(<<l, x>>, <<top_l, top>>) <=> l < top_l \/ (l = top_l /\ x < top)
             /\ Before(<<l, x>>, <<bot_l, bot>>) <=> l < bot_l \/ (l = bot_l /\ x < bot)
      BY DEF Before
<1>5. ASSUME NEW x \in 0..len - 1
      PROVE  (top_l <= l /\ l <= bot_l /\ x \in top_x..bot_x - 1) <=>
             /\ ~(l < top_l \/ (l = top_l /\ x < top)) /\ (l < bot_l \/ (l = bot_l /\ x < bot))
             /\ x \in start..stop
      BY <1>1, <1>3
<1> HIDE DEF top_x, bot_x
<1> QED BY <1>2, <1>4, <1>5 DEF len, stop

LEMMA FreshShowsText == Shown(w) /\ Fresh(w) => ScreenShowsText
<1> SUFFICES ASSUME Shown(w), Fresh(w)
             PROVE  ScreenShowsText
    OBVIOUS
<1> DEFINE between(p) ==
             /\ MarkSet(w)
             /\ Before(w.mark, Cursor(w)) => ~Before(p, w.mark) /\ Before(p, Cursor(w))
             /\ ~Before(w.mark, Cursor(w)) => ~Before(p, Cursor(w)) /\ Before(p, w.mark)
           shown(l, page) == {x \in 0..Len(Text[l]) - 1 :
                                between(<<l, x>>) /\ x \in page..page + w.cols - 1}
<1>1. /\ Typed(w) /\ w.current \in 1..Filebot /\ w.top \in 1..Filebot /\ Filebot \in Nat
      /\ w.rows \in Nat /\ w.cols \in Nat \ (0..3) /\ w.x \in Nat
      /\ w.y = w.current - w.top /\ w.y + 1 \in 1..w.rows
      BY TextTypes DEF Shown, OnScreen, Typed, Windows
<1>2. ASSUME NEW l \in 1..Filebot
      PROVE  /\ Page(w, l) \in Nat
             /\ Drawn(w, l).line = l /\ Drawn(w, l).page = Page(w, l)
             /\ Drawn(w, l).marked = Painted(w, l, Page(w, l))
  <2>1. Page(w, l) \in Nat
        BY <1>1, PageStartType DEF Page
  <2> QED BY <2>1, DrawnIs
<1>3. ASSUME NEW l \in 1..Filebot, NEW page \in Nat
      PROVE  Painted(w, l, page) = shown(l, page)
  <2>1. CASE ~MarkSet(w)
        BY <2>1 DEF Painted
  <2>2. CASE MarkSet(w)
    <3>1. w.mark = <<w.mark[1], w.mark[2]>> /\ w.mark[1] \in Nat /\ w.mark[2] \in Nat
      <4>1. w.mark \in PositionsOf(Text)
            BY <1>1, <2>2 DEF MarkSet, Typed, Windows
      <4> QED BY <4>1, InPosition, TextTypes
    <3>2. w.current \in Nat /\ w.x \in Nat /\ w.cols \in Nat \ (0..3)
          BY <1>1
    <3>3. CASE Before(w.mark, Cursor(w))
      <4>1. Painted(w, l, page) = Between(w, l, page, w.mark[1], w.mark[2], w.current, w.x)
            BY <2>2, <3>3, PaintedIs
      <4>2. \A x : between(<<l, x>>) <=>
                     ~Before(<<l, x>>, w.mark) /\ Before(<<l, x>>, Cursor(w))
            BY <2>2, <3>3
      <4>3. Between(w, l, page, w.mark[1], w.mark[2], w.current, w.x) =
              {x \in 0..Len(Text[l]) - 1 :
                 /\ ~Before(<<l, x>>, <<w.mark[1], w.mark[2]>>)
                 /\ Before(<<l, x>>, <<w.current, w.x>>)
                 /\ x \in page..page + w.cols - 1}
            BY <3>1, <3>2, BetweenIs
      <4> HIDE DEF between
      <4> QED BY <3>1, <4>1, <4>2, <4>3 DEF Cursor, shown
    <3>4. CASE ~Before(w.mark, Cursor(w))
      <4>1. Painted(w, l, page) = Between(w, l, page, w.current, w.x, w.mark[1], w.mark[2])
            BY <2>2, <3>4, PaintedIs
      <4>2. \A x : between(<<l, x>>) <=>
                     ~Before(<<l, x>>, Cursor(w)) /\ Before(<<l, x>>, w.mark)
            BY <2>2, <3>4
      <4>3. Between(w, l, page, w.current, w.x, w.mark[1], w.mark[2]) =
              {x \in 0..Len(Text[l]) - 1 :
                 /\ ~Before(<<l, x>>, <<w.current, w.x>>)
                 /\ Before(<<l, x>>, <<w.mark[1], w.mark[2]>>)
                 /\ x \in page..page + w.cols - 1}
            BY <3>1, <3>2, BetweenIs
      <4> HIDE DEF between
      <4> QED BY <3>1, <4>1, <4>2, <4>3 DEF Cursor, shown
    <3> QED BY <3>3, <3>4
  <2> QED BY <2>1, <2>2
<1> HIDE DEF shown
<1>4. ASSUME NEW r \in 1..w.rows, NEW l, l = w.top + r - 1
      PROVE  /\ w.screen[r].line = IF l <= Filebot THEN l ELSE 0
             /\ l # w.current => w.screen[r].page = 0
             /\ l = w.current => w.screen[r].page = PageStart(w.cols, w.x)
             /\ l <= Filebot => w.screen[r].marked = shown(l, w.screen[r].page)
  <2>1. w.screen[r] = IF l <= Filebot THEN Drawn(w, l) ELSE Empty
        BY <1>4 DEF Fresh, RowOf
  <2>2. CASE l <= Filebot
    <3>1. l \in 1..Filebot
          BY <1>1, <1>4, <2>2
    <3> QED BY <1>1, <1>2, <1>3, <2>1, <2>2, <3>1, FirstPage DEF Page
  <2>3. CASE ~(l <= Filebot)
        BY <1>1, <1>4, <2>1, <2>3 DEF Empty
  <2> QED BY <2>2, <2>3
<1>5. /\ w.screen[w.y + 1].line = w.current
      /\ w.screen[w.y + 1].page = PageStart(w.cols, w.x)
  <2>1. w.current = w.top + (w.y + 1) - 1 /\ w.current <= Filebot
        BY <1>1
  <2> QED BY <1>1, <1>4, <2>1
<1>6. w.x \in PageStart(w.cols, w.x)..PageStart(w.cols, w.x) + w.cols - 1
      BY <1>1, PageHolds
<1> QED BY <1>4, <1>5, <1>6 DEF ScreenShowsText, shown

\* Whatever commands came, in whatever order, with or without a mark, and at whatever sizes of
\* the window: what they drew, the rows they scrolled and those they left alone together are
\* what drawing the whole text would show.
THEOREM ScreenIsDrawn == Spec => []ScreenShowsText
<1>1. Init => Shown(w) /\ Fresh(w)
      BY InitRefreshed, RefreshedShows, RefreshedFresh
<1>2. Shown(w) /\ Fresh(w) /\ [Next]_vars => (Shown(w) /\ Fresh(w))'
      BY NextShown, NextFresh
<1>3. Shown(w) /\ Fresh(w) => ScreenShowsText
      BY FreshShowsText
<1> QED BY <1>1, <1>2, <1>3, PTL DEF Spec
=================================================================================
