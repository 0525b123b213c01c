--------------------------------- MODULE Search ---------------------------------
(***************************************************************************)
(* Searching, replacing, correcting a word and matching brackets           *)
(* (search.cpp; utils.cpp: strstrwrapper; text.cpp: do_int_spell_fix, undo *)
(* and redo of REPLACE).                                                   *)
(*                                                                         *)
(* findnextstr looks at one line a step.  A needle is a string, and eol    *)
(* says whether it is the regular expression of that string and "$".       *)
(***************************************************************************)
EXTENDS TextBuffer, FiniteSets, FiniteSetsExt

CONSTANTS
  Texts,         \* what is searched; each text ends in a magicline
  Needles,       \* what is searched for
  Replacements,  \* what it is replaced with
  Jobs,          \* what the user does, of "search", "replace", "spell", "bracket"
  Ways,          \* of "forward", "backward"
  Avoided,       \* what the user does not do, of
                 \*   "selection": set the mark
                 \*   "repeat": replace by what holds the needle
                 \*   "empty": replace a match of no characters
                 \*   "rejoin": replace so that its two sides make a new match
  MaxJobs        \* bound

ASSUME SearchAssumption ==
  /\ \A t \in Texts : t \in Seq(Seq(STRING)) /\ t # <<>> /\ t[Len(t)] = <<>>
  /\ \A n \in Needles : n \in [str : Seq(STRING), eol : BOOLEAN]
  /\ \A a \in Replacements : a \in Seq(STRING)
  /\ Jobs \subseteq {"search", "replace", "spell", "bracket"}
  /\ Ways \subseteq {"forward", "backward"} /\ "forward" \in Ways
  /\ Avoided \subseteq {"selection", "repeat", "empty", "rejoin"}
  /\ MaxJobs \in Nat

VARIABLES
  text, cur, mark, markSet,  \* fields of openfile
  pc,        \* "main", "prompt", "with" (the prompt for the replacement), "look"
             \* in findnextstr, "found", "bracket", or "overrun": past a line's end
  job,       \* what is being done
  way,       \* BACKWARDS_SEARCH
  last,      \* last_search
  answer,    \* what the needle is replaced with
  at, start, \* findnextstr's fileptr and rev_start
  wrapped,   \* search_last_line
  begin,     \* begin and begin_x of findnextstr, the real_current of the replacing
  frame,     \* the marked region being replaced in: top, bot and right_side_up
  replacing, \* "each" instance is asked for, "all" are replaced
  count,     \* numreplaced, or the brackets still open
  items,     \* the REPLACE items, oldest first
  undone,    \* how many of them, the newest, are undone
  jobs,      \* how many jobs there were
  saved,     \* cursor, needle and direction when the speller or do_find_bracket began
  from,      \* history: text, cur and way when the job began
  outcome,   \* history: how it ended
  snaps      \* history: the text before each item and after the last

buffer == <<text, cur, mark, markSet>>
finder == <<at, start, wrapped>>
loop   == <<begin, frame, replacing, count, saved>>
undos  == <<items, undone, snaps>>
vars   == <<buffer, pc, job, way, last, answer, finder, loop, undos, jobs, from, outcome>>

NoNeedle == <<>>
NoFrame  == <<>>
NoMark   == <<>>

-----------------------------------------------------------------------------
(* strstrwrapper and the words and brackets of a line.                     *)

MatchAt(n, line, x) ==
    /\ x + Len(n.str) <= Len(line)
    /\ SubSeq(line, x + 1, x + Len(n.str)) = n.str
    /\ n.eol => x + Len(n.str) = Len(line)
Matches(n, line) == {x \in 0..Len(line) : MatchAt(n, line, x)}

IsWord(c) == c \in {"a", "b", "c"}
IsWholeWord(line, x, n) ==
    LET end == x + Len(n.str) IN
    /\ x > 0 => ~IsWord(line[x])
    /\ end < Len(line) => ~IsWord(line[end + 1])

None == -1
MatchFrom(n, line, x, backward) ==
    LET hits == {y \in Matches(n, line) : IF backward THEN y <= x ELSE y >= x} IN
    IF x \notin 0..Len(line) \/ hits = {} THEN None
    ELSE IF backward THEN Max(hits) ELSE Min(hits)

\* The match of the line that findnextstr looks at.  One that is not a whole word
\* when that is wanted counts as none in the whole line.
Found ==
    LET x == MatchFrom(last, text[at], start, way = "backward") IN
    IF job = "spell" /\ x # None /\ ~IsWholeWord(text[at], x, last) THEN None ELSE x

Brackets == <<"(", ")">>
IsBracket(c) == c \in {"(", ")"}

\* The types; the mark is in the text unless a replacement before it has been undone, in
\* this job or one before, and so is the cursor unless the speller has put it back on a
\* line that it has changed.
TypeOK ==
    /\ pc \in {"main", "prompt", "with", "look", "found", "bracket", "overrun"}
    /\ pc \in {"main", "prompt", "with"} =>
         /\ job # "spell" => cur \in PositionsOf(text)
         /\ markSet /\ undone = 0 /\ jobs <= 1 => mark \in PositionsOf(text)
    /\ pc \in {"look", "bracket"} => at \in 1..Len(text)
    /\ undone \in 0..Len(items)
    /\ text[Len(text)] = <<>>

Init ==
    /\ text \in Texts /\ cur \in PositionsOf(text)
    /\ \E p \in PositionsOf(text) : mark \in {NoMark, p}
    /\ "selection" \in Avoided => mark = NoMark
    /\ markSet = (mark # NoMark)
    /\ pc = "main" /\ job = "search" /\ way = "forward" /\ last = NoNeedle /\ answer = <<>>
    /\ at = 1 /\ start = 0 /\ wrapped = FALSE
    /\ begin = cur /\ frame = NoFrame /\ replacing = "each" /\ count = 0
    /\ saved = [cur |-> cur, last |-> last, way |-> way]
    /\ items = <<>> /\ undone = 0 /\ snaps = <<text>>
    /\ jobs = 0 /\ from = [text |-> text, cur |-> cur, way |-> way] /\ outcome = "none"

-----------------------------------------------------------------------------
(* The prompts.                                                            *)

DoPrompt(j) ==
    /\ pc = "main" /\ jobs < MaxJobs /\ j \in Jobs \ {"spell", "bracket"}
    /\ pc' = "prompt" /\ job' = j /\ jobs' = jobs + 1
    /\ UNCHANGED <<buffer, way, last, answer, finder, loop, undos, from, outcome>>

\* backwards_void toggles the direction and asks again.
ToggleBackwards ==
    /\ pc = "prompt"
    /\ way' \in Ways \ {way}
    /\ UNCHANGED <<buffer, pc, job, last, answer, finder, loop, undos, jobs, from, outcome>>

\* Replace from the prompt of a search, and No Replace from the other.
SwitchJob ==
    /\ pc = "prompt"
    /\ job' \in (Jobs \cap {"search", "replace"}) \ {job}
    /\ UNCHANGED <<buffer, pc, way, last, answer, finder, loop, undos, jobs, from, outcome>>

Abort ==
    /\ pc \in {"prompt", "with"}
    /\ pc' = "main" /\ outcome' = "cancelled"
    /\ UNCHANGED <<buffer, job, way, last, answer, finder, loop, undos, jobs, from>>

\* findnextstr starts beside the cursor, from which a forward search may be -1 away.
StartAt(p, w) == IF w = "backward" THEN p[2] - 1 ELSE p[2] + 1

Look(p) ==
    /\ pc' = "look" /\ at' = p[1] /\ start' = StartAt(p, way)

\* do_search, and do_research for the needle of the last search, or without one for the
\* newest of the search history.
DoSearch(n) ==
    /\ \/ pc = "prompt" /\ job = "search" /\ jobs' = jobs
       \/ /\ pc = "main" /\ "search" \in Jobs /\ last \in {n, NoNeedle}
          /\ jobs < MaxJobs /\ jobs' = jobs + 1
    /\ last' = n /\ job' = "search"
    /\ Look(cur) /\ wrapped' = FALSE /\ begin' = cur
    /\ from' = [text |-> text, cur |-> cur, way |-> way] /\ outcome' = "none"
    /\ UNCHANGED <<buffer, way, answer, frame, replacing, count, saved, undos>>

\* do_replace has the needle and asks for the replacement.
AskReplacement(n) ==
    /\ pc = "prompt" /\ job = "replace"
    /\ pc' = "with" /\ last' = n
    /\ UNCHANGED <<buffer, job, way, answer, finder, loop, undos, jobs, from, outcome>>

Repeats(n, a) == n.str # <<>> /\ Matches(n, a) # {}
Rejoins(n, a) == a = <<>> /\ (n.eol \/ Len(n.str) > 1)

\* do_replace_loop frames the marked region, takes the mark off, and starts at an end
\* of the region.
FrameOf(c, m) ==
    IF Before(m, c) THEN [top |-> m, bot |-> c, upright |-> TRUE]
                    ELSE [top |-> c, bot |-> m, upright |-> FALSE]
FrameStart(f) ==
    IF way = "backward" THEN f.bot
    ELSE <<f.top[1], IF f.top[2] = 0 THEN 0 ELSE f.top[2] - 1>>

DoReplace(a) ==
    /\ pc = "with"
    /\ "repeat" \in Avoided => ~Repeats(last, a)
    /\ "empty" \in Avoided => last.str # <<>>
    /\ "rejoin" \in Avoided => ~Rejoins(last, a)
    /\ answer' = a /\ replacing' = "each" /\ count' = None
    /\ frame' = IF markSet THEN FrameOf(cur, mark) ELSE NoFrame
    /\ cur' = IF markSet THEN FrameStart(frame') ELSE cur
    /\ markSet' = FALSE
    /\ Look(cur') /\ wrapped' = FALSE /\ begin' = cur
    /\ from' = [text |-> text, cur |-> cur, way |-> way] /\ outcome' = "none"
    /\ UNCHANGED <<text, mark, job, way, last, saved, undos, jobs>>

\* do_int_spell_fix looks for the first whole word from before the first line (with
\* the mark set only in the region, which is left out)...
SpellWord(n) ==
    /\ pc = "main" /\ "spell" \in Jobs /\ jobs < MaxJobs /\ ~markSet /\ ~n.eol /\ n.str # <<>>
    /\ job' = "spell" /\ jobs' = jobs + 1 /\ saved' = [cur |-> cur, last |-> last, way |-> way]
    /\ way' = "forward" /\ last' = n /\ replacing' = "first" /\ count' = None
    /\ cur' = <<1, -1>> /\ pc' = "look" /\ at' = 1 /\ start' = 0 /\ wrapped' = FALSE
    /\ begin' = <<1, 0>> /\ frame' = NoFrame
    /\ from' = [text |-> text, cur |-> cur, way |-> way] /\ outcome' = "none"
    /\ UNCHANGED <<text, mark, markSet, answer, undos>>

\* ... and replaces it from there, with current_x as both the cursor and real_current_x.
Correct(a) ==
    /\ pc = "found" /\ replacing = "first" /\ a # last.str
    /\ "repeat" \in Avoided => ~Repeats(last, a)
    /\ answer' = a /\ replacing' = "each"
    /\ cur' = <<cur[1], cur[2] - 1>>
    /\ pc' = "look" /\ at' = cur[1] /\ start' = cur[2] /\ wrapped' = FALSE
    /\ begin' = cur'
    /\ UNCHANGED <<text, mark, markSet, job, way, last, frame, count, saved, undos, jobs,
                   from, outcome>>

-----------------------------------------------------------------------------
(* findnextstr, a line at a time.                                          *)

\* The replacing, or the search, is over: the cursor is put back where it was.
Finish(end) ==
    /\ pc' = "main"
    /\ outcome' = IF end = "done" /\ outcome = "skipped" THEN outcome ELSE end
    /\ cur' = CASE job = "replace" -> begin [] job = "spell" -> saved.cur [] OTHER -> cur
    /\ last' = IF job = "spell" THEN saved.last ELSE last
    /\ way' = IF job = "spell" THEN saved.way ELSE way
    /\ markSet' = (markSet \/ frame # NoFrame)
    /\ text' = IF job = "replace" /\ text[Len(text)] # <<>> THEN Append(text, <<>>) ELSE text

Overrun == start > Len(text[at]) + 1

\* begin_x, which the speller lets be the cursor's own current_x.
BeginX == IF job = "spell" /\ replacing # "first" THEN cur[2] ELSE begin[2]

\* Past the wrap a match beyond where the search began has been seen.
BeyondBegin(x) ==
    wrapped /\ (IF way = "backward" THEN x < BeginX ELSE x > BeginX)

NextLineSlip ==   \* a backward search starts at the beginning of the line
    /\ pc = "look" /\ ~Overrun /\ Found = None /\ ~wrapped
    /\ at' = IF way = "backward" THEN (IF at = 1 THEN Len(text) ELSE at - 1)
                                 ELSE (IF at = Len(text) THEN 1 ELSE at + 1)
    /\ start' = 0
    /\ wrapped' = (at' = begin[1])
    /\ UNCHANGED <<buffer, pc, job, way, last, answer, loop, undos, jobs, from, outcome>>
NextLineAgainSlip ==   \* the line where the search began is not noticed
    /\ pc = "look" /\ ~Overrun /\ Found = None /\ ~wrapped
    /\ at' = IF way = "backward" THEN (IF at = 1 THEN Len(text) ELSE at - 1)
                                 ELSE (IF at = Len(text) THEN 1 ELSE at + 1)
    /\ start' = IF way = "backward" THEN Len(text[at']) ELSE 0
    /\ UNCHANGED <<buffer, pc, job, way, last, answer, wrapped, loop, undos, jobs, from, outcome>>
NextLine ==
    /\ pc = "look" /\ ~Overrun /\ Found = None /\ ~wrapped
    /\ at' = IF way = "backward" THEN (IF at = 1 THEN Len(text) ELSE at - 1)
                                 ELSE (IF at = Len(text) THEN 1 ELSE at + 1)
    /\ start' = IF way = "backward" THEN Len(text[at']) ELSE 0
    /\ wrapped' = (at' = begin[1])
    /\ UNCHANGED <<buffer, pc, job, way, last, answer, loop, undos, jobs, from, outcome>>

NotFound ==
    /\ pc = "look" /\ ~Overrun
    /\ IF Found = None THEN wrapped ELSE BeyondBegin(Found)
    /\ Finish(IF job = "search" THEN "not found" ELSE "done")
    /\ UNCHANGED <<mark, job, answer, finder, loop, undos, jobs, from>>

FoundMatch ==
    /\ pc = "look" /\ ~Overrun /\ Found # None /\ ~BeyondBegin(Found)
    /\ cur' = <<at, Found>>
    /\ pc' = IF job = "search" THEN "main" ELSE "found"
    /\ outcome' = IF job = "search" THEN "found" ELSE outcome
    /\ UNCHANGED <<text, mark, markSet, job, way, last, answer, finder, loop, undos, jobs, from>>

\* A cancel that was typed ahead is noticed when the search has taken a second.
Interrupt ==
    /\ pc = "look"
    /\ Finish("interrupted")
    /\ UNCHANGED <<mark, job, answer, finder, loop, undos, jobs, from>>

\* Reading on beyond the end of the line is undefined: what is found there varies.
ReadOn ==
    /\ pc = "look" /\ Overrun
    /\ pc' = "overrun"
    /\ UNCHANGED <<buffer, job, way, last, answer, finder, loop, undos, jobs, from, outcome>>
-----------------------------------------------------------------------------
(* do_replace_loop: what is done with an instance.                         *)

Outside ==
    /\ frame # NoFrame
    /\ Before(cur, frame.top) \/ Before(frame.bot, cur)

LeaveRegion ==
    /\ pc = "found" /\ Outside
    /\ Finish("done")
    /\ UNCHANGED <<mark, job, answer, finder, loop, undos, jobs, from>>

\* Cancel at the question, or at the speller's prompt.
CancelReplace ==
    /\ pc = "found" /\ ~Outside /\ replacing # "all"
    /\ Finish("cancelled")
    /\ UNCHANGED <<mark, job, answer, finder, loop, undos, jobs, from>>

SkipInstance ==
    /\ pc = "found" /\ ~Outside /\ replacing = "each"
    /\ Look(cur) /\ outcome' = "skipped"
    /\ count' = IF count = None THEN 0 ELSE count
    /\ UNCHANGED <<buffer, job, way, last, answer, wrapped, begin, frame, replacing, saved,
                   undos, jobs, from>>

\* Where a position on the line, at or after the match, is when the match is replaced.
MatchEnd == cur[2] + Len(last.str)
Change   == Len(answer) - Len(last.str)
SyncedMark(m) ==
    IF m[1] # cur[1] \/ m[2] <= cur[2] THEN m
    ELSE <<m[1], IF m[2] < MatchEnd THEN cur[2] ELSE m[2] + Change>>
SyncedBeginSlip(p) ==   \* inside the match the cursor moves by the change alone
    IF p[1] # cur[1] \/ p[2] < cur[2] THEN p
    ELSE <<p[1], p[2] + Change>>
SyncedBegin(p) ==
    IF p[1] # cur[1] \/ p[2] < cur[2] THEN p
    ELSE <<p[1], (IF p[2] < MatchEnd THEN MatchEnd ELSE p[2]) + Change>>

\* Searching resumes at the last character of the replacement, or before the match.
ResumeAtSlip(x) == x + Len(last.str)   \* the change of length is forgotten
ResumeAt(x) == x + Len(answer) - 1

AddItemSlip(line, saves) ==   \* the line is saved when it has been replaced
    LET kept == Len(items) - undone IN
    /\ items' = Append(SubSeq(items, 1, kept), [lineno |-> line, begin |-> cur[2], str |-> text'[line]])
    /\ undone' = 0
    /\ snaps' = Append(SubSeq(snaps, 1, kept + 1), text')
AddItem(line, saves) ==
    LET kept == Len(items) - undone IN
    /\ items' = Append(SubSeq(items, 1, kept), [lineno |-> line, begin |-> cur[2], str |-> saves])
    /\ undone' = 0
    /\ snaps' = Append(SubSeq(snaps, 1, kept + 1), text')

ReplaceOne(all) ==
    /\ pc = "found" /\ ~Outside /\ replacing \in {"each", "all"} /\ (replacing = "all" => all)
    /\ replacing' = IF all THEN "all" ELSE replacing
    /\ text' = [text EXCEPT ![cur[1]] = Prefix(@, cur[2]) \o answer \o Suffix(@, MatchEnd)]
    /\ AddItem(cur[1], text[cur[1]])
    /\ LET markEnds == frame # NoFrame /\ ~frame.upright  \* the mark is the bottom
           syncMark == mark # NoMark /\ (frame = NoFrame \/ markEnds)
           syncCur  == frame = NoFrame \/ frame.upright
           x        == IF job = "spell" /\ cur[1] = begin[1] THEN MatchEnd + Change ELSE cur[2] IN
       /\ mark' = IF syncMark THEN SyncedMark(mark) ELSE mark
       /\ frame' = IF markEnds /\ mark[1] = cur[1] /\ mark[2] > cur[2]
                   THEN [frame EXCEPT !.bot = <<@[1], begin[2]>>] ELSE frame
       /\ cur' = <<cur[1], IF way = "backward" THEN x ELSE ResumeAt(x)>>
       /\ begin' = IF job = "replace" /\ syncCur THEN SyncedBegin(begin) ELSE begin
    /\ count' = IF count = None THEN 1 ELSE count + 1
    /\ pc' = "look" /\ at' = cur[1] /\ start' = StartAt(cur', way)
    /\ UNCHANGED <<markSet, job, way, last, answer, wrapped, saved, jobs, from, outcome>>

Swap(k, line) ==
    /\ text' = [text EXCEPT ![items[k].lineno] = items[k].str]
    /\ items' = [items EXCEPT ![k].str = line]
    /\ cur' = <<items[k].lineno, items[k].begin>>

Undo ==
    /\ pc = "main" /\ undone < Len(items)
    /\ LET k == Len(items) - undone IN Swap(k, text[items[k].lineno])
    /\ undone' = undone + 1 /\ outcome' = "none"
    /\ UNCHANGED <<mark, markSet, pc, job, way, last, answer, finder, loop, snaps, jobs, from>>

Redo ==
    /\ pc = "main" /\ undone > 0
    /\ LET k == Len(items) - undone + 1 IN Swap(k, text[items[k].lineno])
    /\ undone' = undone - 1 /\ outcome' = "none"
    /\ UNCHANGED <<mark, markSet, pc, job, way, last, answer, finder, loop, snaps, jobs, from>>

-----------------------------------------------------------------------------
(* do_gotolinecolumn and do_find_bracket.                                  *)

\* A line beyond the last is the last, and a column beyond the end is the end; a
\* relative line that would be before the first is the first.
GotoLine(line, column, relative) ==
    LET want == IF relative THEN cur[1] + line ELSE line
        l == Max({1, Min({want, Len(text)})}) IN
    /\ pc = "prompt"
    /\ column >= 1
    /\ pc' = "main" /\ outcome' = "none"
    /\ cur' = <<l, Min({column - 1, Len(text[l])})>>
    /\ UNCHANGED <<text, mark, markSet, job, way, last, answer, finder, loop, undos, jobs, from>>

OpensAt(line, x) == x < Len(line) /\ IsBracket(line[x + 1])

\* A closing bracket is matched backwards.
BracketWay(p) == IF text[p[1]][p[2] + 1] = ")" THEN "backward" ELSE "forward"
Reversed == BracketWay(saved.cur) = "backward"

DoFindBracket ==
    /\ pc = "main" /\ "bracket" \in Jobs /\ jobs < MaxJobs
    /\ OpensAt(text[cur[1]], cur[2])
    /\ pc' = "bracket" /\ job' = "bracket" /\ jobs' = jobs + 1
    /\ saved' = [cur |-> cur, last |-> last, way |-> way]
    /\ at' = cur[1] /\ start' = StartAt(cur, BracketWay(cur)) /\ count' = 1
    /\ from' = [text |-> text, cur |-> cur, way |-> BracketWay(cur)] /\ outcome' = "none"
    /\ UNCHANGED <<buffer, way, last, answer, wrapped, begin, frame, replacing, undos>>

\* find_bracket_match: the next bracket of the line, from start on.
NextBracket ==
    LET here == {x \in 0..Len(text[at]) : OpensAt(text[at], x)}
        hits == {x \in here : IF Reversed THEN x <= start ELSE x >= start} IN
    IF hits = {} THEN None ELSE IF Reversed THEN Max(hits) ELSE Min(hits)

Counted(p) ==
    LET first == text[saved.cur[1]][saved.cur[2] + 1] IN
    IF text[p[1]][p[2] + 1] = first THEN count + 1 ELSE count - 1

BracketStep ==
    /\ pc = "bracket" /\ NextBracket # None
    /\ cur' = <<at, NextBracket>>
    /\ count' = Counted(cur')
    /\ IF count' = 0 THEN pc' = "main" /\ outcome' = "found" /\ start' = start
                     ELSE pc' = pc /\ outcome' = outcome /\ start' = StartAt(cur', BracketWay(saved.cur))
    /\ UNCHANGED <<text, mark, markSet, job, way, last, answer, at, wrapped, begin, frame,
                   replacing, saved, undos, jobs, from>>

BracketLine ==
    /\ pc = "bracket" /\ NextBracket = None
    /\ at' = IF Reversed THEN at - 1 ELSE at + 1
    /\ at' \in 1..Len(text)
    /\ start' = IF Reversed THEN Len(text[at']) ELSE 0
    /\ UNCHANGED <<buffer, pc, job, way, last, answer, wrapped, loop, undos, jobs, from, outcome>>

NoBracket ==
    /\ pc = "bracket" /\ NextBracket = None
    /\ at = IF Reversed THEN 1 ELSE Len(text)
    /\ pc' = "main" /\ outcome' = "not found" /\ cur' = saved.cur
    /\ UNCHANGED <<text, mark, markSet, job, way, last, answer, finder, loop, undos, jobs, from>>

Step ==
    \/ NextLine \/ NotFound \/ FoundMatch \/ Interrupt \/ ReadOn
    \/ LeaveRegion \/ CancelReplace \/ SkipInstance
    \/ \E all \in BOOLEAN : ReplaceOne(all)
    \/ \E a \in Replacements : Correct(a)
    \/ BracketStep \/ BracketLine \/ NoBracket

Next ==
    \/ \E j \in Jobs : DoPrompt(j)
    \/ ToggleBackwards \/ SwitchJob \/ Abort
    \/ \E n \in Needles : DoSearch(n) \/ AskReplacement(n) \/ SpellWord(n)
    \/ \E a \in Replacements : DoReplace(a)
    \/ \E line \in -1..2, column \in 1..2, relative \in BOOLEAN : GotoLine(line, column, relative)
    \/ DoFindBracket
    \/ Step
    \/ Undo \/ Redo

Spec == Init /\ [][Next]_vars

\* The loops run on, and the user answers their questions.
FairSpec == Spec /\ WF_vars(Step)

-----------------------------------------------------------------------------
(* What searching and replacing promise.                                   *)

\* The cursor is in the text whenever a key is read (move_mbleft asserts that), and no
\* search reads beyond the end of a line.  (This does not hold of correcting words, and no
\* run checks it: see the README.)
CursorInText ==
    /\ pc # "overrun"
    /\ pc = "main" => cur \in PositionsOf(text)

\* A search finds the next match after the cursor in its direction, around the ends of
\* the text and up to a match at the cursor itself; it finds none only if there is none.
FindsNext ==
    LET t == from.text  c == from.cur
        hits == {p \in PositionsOf(t) : MatchAt(last, t[p[1]], p[2])}
        ahead(p) == IF from.way = "backward" THEN Before(p, c) ELSE Before(c, p)
        sooner(p, q) == IF from.way = "backward" THEN Before(q, p) ELSE Before(p, q)
        first(p) == /\ p \in hits
                    /\ \A q \in hits \ {p} :
                         IF ahead(p) = ahead(q) THEN sooner(p, q) ELSE ahead(p) IN
    pc = "main" /\ job = "search" =>
      /\ outcome = "found" => first(cur)
      /\ outcome = "not found" => cur = c /\ hits = {}

\* Which matches Replace All replaces of those between two columns of a line, beginning with
\* the first or the last of them: one that overlaps another goes with it.
Leftmost(line, lo, hi) ==
    LET k == Len(last.str)
        fwd[x \in 0..hi] == IF x + k > hi THEN {}
                            ELSE IF MatchAt(last, line, x) THEN {x} \cup fwd[x + k]
                            ELSE fwd[x + 1]
    IN  fwd[lo]
Rightmost(line, lo, hi) ==
    LET k == Len(last.str)
        back[y \in 0..hi] == IF y - k < lo THEN {}
                             ELSE IF MatchAt(last, line, y - k) THEN {y - k} \cup back[y - k]
                             ELSE back[y - 1]
    IN  back[hi]

\* On the cursor's line, at column c, it begins with the first match after the cursor, or
\* the last before it, and comes to the others when it has been around the text.
Replaced(line, c) ==
    LET after  == {x \in Matches(last, line) : x > c}
        before == {x \in Matches(last, line) : x < c}
        turn   == IF from.way = "backward"
                  THEN IF before = {} THEN 0 ELSE Max(before) + Len(last.str)
                  ELSE IF after = {} THEN Len(line) ELSE Min(after)
    IN  IF from.way = "backward"
        THEN Rightmost(line, 0, turn) \cup Rightmost(line, turn, Len(line))
        ELSE Leftmost(line, 0, turn) \cup Leftmost(line, turn, Len(line))

\* The line from column x0 on, with the matches at the columns of S replaced.
Spliced(line, S, x0) ==
    LET rest[x \in 0..Len(line)] ==
          IF x = Len(line) THEN <<>>
          ELSE IF x \in S THEN answer \o rest[x + Len(last.str)]
          ELSE <<line[x + 1]>> \o rest[x + 1]
    IN  rest[x0]

\* Replace All replaces the matches of the text in the order in which they are found from the
\* cursor on, each once; it leaves none, and what it puts in is not replaced again.  Of
\* matches that overlap, the one found first is replaced.  The cursor is then where it was:
\* what was after it, with its matches replaced, is after it; from inside a match that was
\* replaced, it goes to its end.
AllReplaced ==
    LET line   == from.text[from.cur[1]]
        all(l) == LET t == from.text[l] IN
                  IF l = from.cur[1] THEN Replaced(t, from.cur[2])
                  ELSE IF from.way = "backward" THEN Rightmost(t, 0, Len(t))
                  ELSE Leftmost(t, 0, Len(t))
        within == {x \in all(from.cur[1]) :
                     x <= from.cur[2] /\ from.cur[2] < x + Len(last.str)}
        x0     == IF within = {} THEN from.cur[2] ELSE Max(within) + Len(last.str) IN
    pc = "main" /\ job = "replace" /\ outcome = "done" /\ frame = NoFrame =>
      /\ text = [l \in 1..Len(from.text) |-> Spliced(from.text[l], all(l), 0)]
      /\ \A l \in 1..Len(text) : Matches(last, text[l]) = {}
      /\ cur[1] = from.cur[1]
      /\ Suffix(text[cur[1]], cur[2]) = Spliced(line, all(cur[1]), x0)

\* Undoing k replacements gives the text before them, and redoing them the text after.
UndoneTexts == pc = "main" => text = snaps[Len(items) - undone + 1]

\* Every search and every replacing ends, and does not run around the text for ever.
SearchEnds == (pc \in {"look", "found", "bracket"}) ~> (pc \in {"main", "overrun"})

\* The bracket found is the nearest one that closes, or opens, as many as there are.
BracketMatches ==
    LET t == from.text  c == from.cur
        between(p, q) == {r \in PositionsOf(t) : ~Before(r, p) /\ ~Before(q, r)}
        count1(S, b) == Cardinality({r \in S : r[2] < Len(t[r[1]]) /\ t[r[1]][r[2] + 1] = b})
        even(p) == LET S == IF from.way = "forward" THEN between(c, p) ELSE between(p, c) IN
                   count1(S, "(") = count1(S, ")") /\ OpensAt(t[p[1]], p[2])
        closer(p, q) == IF from.way = "forward" THEN Before(p, q) ELSE Before(q, p)
        ahead == {p \in PositionsOf(t) : closer(c, p)} IN
    pc = "main" /\ job = "bracket" =>
      /\ outcome = "found" => cur \in ahead /\ even(cur)
                              /\ \A p \in ahead : closer(p, cur) => ~even(p)
      /\ outcome = "not found" => cur = c /\ \A p \in ahead : ~even(p)

\* Whatever is looked for, a word or a bracket, is found where it is.
FindsRight == FindsNext /\ BracketMatches
===============================================================================
