--------------------------------- MODULE Prompt ---------------------------------
(***************************************************************************)
(* Asking a question on the status bar (prompt.cpp): what the keys do to   *)
(* the answer and its cursor, walking through the histories of searches    *)
(* and replacements (History.cpp), completing the names of files           *)
(* (files.cpp: input_tab), the prompts of do_search and do_replace, with   *)
(* the toggles that put the same prompt up again (search.cpp), and the     *)
(* histories from one run of pinot to the next (files.cpp).                *)
(***************************************************************************)
EXTENDS SearchHistory

CONSTANTS
  Letters, Blank,  \* the characters of a word, and one that is in none
  Slash,           \* what ends the name of a directory
  Files, Dirs,     \* the names in the working directory
  FlagSets,        \* the sets of flags pinot may be started with
  Histories,       \* the lists of searches that may have been loaded
  Avoided,         \* what the user does not do, of
                   \*   "middle": type before the end of the answer
                   \*   "tab first": complete a search before any other key
                   \*   "oldest": go up to the oldest entry and beyond
                   \*   "leave up": leave a prompt before coming back down
                   \*   "blank": go up from a blank answer
                   \*   "bottom": go down from the newest entry
                   \*   "outgrow": complete a name beyond the memory of the answer
                   \*   "bytes": complete names where characters have several bytes
  Room,            \* the length of answer that the least block of memory holds
  MaxAnswer, MaxPrompts  \* bounds

Chars == Letters \cup {Blank}

ASSUME PromptAssumption ==
  /\ Blank \notin Letters /\ Slash \notin Chars
  /\ Files \subseteq Seq(Chars) /\ IsFiniteSet(Files) /\ Dirs \subseteq Files
  /\ \A fs \in FlagSets : fs \subseteq {"SMART_HOME", "CUT_TO_END"}
  /\ \A lines \in Histories :
       lines \in Seq(Seq(Chars) \ {<<>>}) /\ Len(lines) <= MaxHistory
  /\ Avoided \subseteq {"middle", "tab first", "oldest", "leave up", "blank", "bottom",
                        "outgrow", "bytes"}
  /\ Room \in Nat /\ MaxAnswer \in Nat /\ MaxPrompts \in Nat

VARIABLES
  flags,
  pc,        \* "main", "prompt" or "crashed"
  kind,      \* the prompt: "search", "replace", "with", "file" or "none"
  prompts,   \* how many prompts were put up so far
  answer,    \* the answer
  x,         \* statusbar_x, -1 when it is not initialized
  old,       \* old_statusbar_x
  key,       \* the last key: "tab", "older", "newer", any "other", or "none" at first
  magic,     \* magichistory
  complete,  \* complete_len, 0 when the next Tab sets it
  tabbed,    \* whether a second Tab shows the matches
  lists,     \* search_history and replace_history
  last,      \* last_search
  backup,    \* backupstring, static in search_init
  disk,      \* what the two lists are in ~/.pinot/search_history
  draft      \* history: the answer when this prompt began to walk up

vars == <<flags, pc, kind, prompts, answer, x, old, key, magic, complete,
          tabbed, lists, last, backup, disk, draft>>

NoDraft == <<Slash>>

Uninitialized == -1
WalksHistory == kind # "file"
ListOf == IF kind = "with" THEN "with" ELSE "search"
history == lists[ListOf]

Front(s, i) == SubSeq(s, 1, i)
Rest(s, i)  == SubSeq(s, i + 1, Len(s))
CharAt(s, i) == s[i + 1]

\* load_history.  (pinot never saves a list of replacements without one of searches, and
\* where there is no file last_search is still blank.)
LoadHistory(saved, ls, l) ==
    /\ ls = [k \in DOMAIN saved |-> Loaded(saved[k])]
    /\ l = IF saved.search = <<>> THEN <<>> ELSE saved.search[1]

Init ==
    /\ flags \in FlagSets
    /\ pc = "main" /\ kind = "none" /\ prompts = 0
    /\ answer = <<>> /\ x = Uninitialized /\ old = Uninitialized
    /\ key = "none" /\ magic = <<>> /\ complete = 0 /\ tabbed = FALSE
    /\ \E lines \in Histories :
         /\ disk = [search |-> lines, with |-> <<>>]
         /\ LoadHistory(disk, lists, last)
    /\ backup = <<>> /\ draft = NoDraft

-----------------------------------------------------------------------------
(* Putting a prompt up, and taking it down.                                *)

\* get_prompt_string until it reads a key: the cursor goes where it was in the prompt
\* before, or to the end of the answer.  (reset_statusbar_x changes nothing: whenever a
\* prompt was taken down, statusbar_x is old_statusbar_x.)
PutUp(k, given, x0) ==
    /\ pc' = "prompt" /\ kind' = k
    /\ prompts' = prompts + 1
    /\ answer' = given
    /\ x' = IF x0 = Uninitialized \/ x0 > Len(given) THEN Len(given) ELSE x0
    /\ key' = "none" /\ magic' = <<>> /\ complete' = 0 /\ tabbed' = FALSE
    /\ draft' = NoDraft

\* do_search, do_replace or do_writeout, called by the main loop, which has called
\* do_prompt_abort.
Ask(k) ==
    /\ pc = "main" /\ prompts < MaxPrompts
    /\ old' = Uninitialized
    /\ PutUp(k, IF k = "file" THEN <<>> ELSE backup, old')
    /\ UNCHANGED <<flags, lists, last, backup, disk>>

Asked == pc = "prompt"

\* A prompt is not left while its list is not at the newest entry.
Leaves == "leave up" \in Avoided /\ WalksHistory => AtNewest(history)

\* The end of get_prompt_string and of do_prompt.
TakeDown ==
    /\ pc' = "main" /\ kind' = "none"
    /\ answer' = <<>> /\ x' = old
    /\ key' = "none" /\ magic' = <<>> /\ complete' = 0 /\ tabbed' = FALSE
    /\ draft' = NoDraft
    /\ UNCHANGED <<flags, prompts, old, disk>>

\* What search_init, do_search, do_replace and do_writeout make of the answer.
Enter ==
    /\ Asked /\ Leaves
    /\ kind = "replace" => answer = <<>> /\ last = <<>>
    /\ LET entry == IF kind = "search" /\ answer = <<>> THEN last ELSE answer IN
       /\ last'  = IF kind = "search" THEN entry ELSE last
       /\ lists' = IF kind \in {"search", "with"} /\ entry # <<>>
                   THEN [lists EXCEPT ![kind] = Add(@, entry)] ELSE lists
    /\ backup' = IF kind \in {"search", "replace"} THEN <<>> ELSE backup
    /\ TakeDown

\* What is to be replaced is entered, and with what is asked.
EnterReplace ==
    /\ Asked /\ Leaves /\ kind = "replace" /\ prompts < MaxPrompts
    /\ answer # <<>> \/ last # <<>>
    /\ lists' = IF answer = <<>> THEN lists ELSE [lists EXCEPT !.search = Add(@, answer)]
    /\ last' = IF answer = <<>> THEN last ELSE answer
    /\ backup' = <<>>
    /\ PutUp("with", <<>>, old)
    /\ UNCHANGED <<flags, old, disk>>

Cancel ==
    /\ Asked /\ Leaves
    /\ TakeDown
    /\ backup' = IF kind \in {"search", "replace"} THEN <<>> ELSE backup
    /\ UNCHANGED <<lists, last>>

\* Case Sens, Backwards, Regexp, or Replace and No Replace: the function ran, the answer
\* is kept in backupstring, and search_init is called again.
Toggle(k) ==
    /\ Asked /\ Leaves /\ kind \in {"search", "replace"} /\ prompts < MaxPrompts
    /\ backup' = answer
    /\ PutUp(k, answer, old)
    /\ UNCHANGED <<flags, old, lists, last, disk>>

\* SIGWINCH jumps to the main loop, which calls do_prompt_abort; backupstring stays.
Resize ==
    /\ Asked /\ Leaves
    /\ TakeDown
    /\ UNCHANGED <<lists, last, backup>>

-----------------------------------------------------------------------------
(* From one run to the next.                                               *)

\* pinot is started again: everything is as it was, but for what is on disk.
StartedAgain ==
    /\ pc' = "main" /\ kind' = "none"
    /\ answer' = <<>> /\ x' = Uninitialized /\ old' = Uninitialized
    /\ key' = "none" /\ magic' = <<>> /\ complete' = 0 /\ tabbed' = FALSE
    /\ LoadHistory(disk', lists', last')
    /\ backup' = <<>> /\ draft' = NoDraft
    /\ UNCHANGED <<flags, prompts>>

\* save_history, when main ends, by pinot's only run.
Changed == \E k \in DOMAIN lists : lists[k].changed
AllEmpty == \A k \in DOMAIN lists : Size(lists[k]) = 0
Quit ==
    /\ pc = "main"
    /\ disk' = IF ~Changed \/ AllEmpty THEN disk ELSE [k \in DOMAIN lists |-> lists[k].lines]
    /\ StartedAgain

\* die saves no histories, wherever SIGHUP or SIGTERM comes.
Die == pc \in {"main", "prompt"} /\ UNCHANGED disk /\ StartedAgain

-----------------------------------------------------------------------------
(* Editing the answer.                                                     *)

\* A key that edits or moves, and does nothing with lists and names.
EditKey(a, i) ==
    /\ Asked
    /\ key' = "other" /\ complete' = 0   \* the next Tab is the first
    /\ answer' = a /\ x' = i
    /\ tabbed' = FALSE
    /\ UNCHANGED <<flags, pc, kind, prompts, old, magic, lists, last, backup, disk, draft>>

\* do_statusbar_output appends to the answer, and advances the cursor.
Output(c) ==
    /\ Len(answer) < MaxAnswer
    /\ x < Len(answer) => "middle" \notin Avoided
    /\ EditKey(Append(answer, c), x + 1)

Left  == EditKey(answer, IF x > 0 THEN x - 1 ELSE x)
Right == EditKey(answer, IF x < Len(answer) THEN x + 1 ELSE x)
End   == EditKey(answer, Len(answer))

IndentLength(s) == Least({i \in 0..Len(s) : i = Len(s) \/ CharAt(s, i) # Blank})
HomePlace ==
    LET i == IndentLength(answer) IN
    IF "SMART_HOME" \notin flags \/ i = x \/ i = Len(answer) THEN 0 ELSE i
Home == EditKey(answer, HomePlace)

Delete ==
    EditKey(IF x < Len(answer) THEN Front(answer, x) \o Rest(answer, x + 1) ELSE answer, x)
Backspace ==
    IF x = 0 THEN EditKey(answer, x)
    ELSE EditKey(Front(answer, x - 1) \o Rest(answer, x), x - 1)

CutTextSlip ==   \* the cursor stays
    EditKey(IF "CUT_TO_END" \in flags THEN Front(answer, x) ELSE <<>>, x)
CutText ==
    IF "CUT_TO_END" \in flags THEN EditKey(Front(answer, x), x)
    ELSE EditKey(<<>>, 0)

\* Whether the character after place i is part of a word; there is none at the end.
WordAt(s, i) == i < Len(s) /\ CharAt(s, i) # Blank
Greatest(S) == CHOOSE i \in S : \A j \in S : j <= i

\* do_statusbar_next_word: behind this word, and on to the next one.
NextWordFrom(s, i) ==
    LET behind == Least({j \in i..Len(s) : ~WordAt(s, j)})
        later  == {j \in behind + 1..Len(s) : WordAt(s, j) \/ j = Len(s)}
    IN  IF later = {} THEN Len(s) ELSE Least(later)
NextWord == EditKey(answer, NextWordFrom(answer, x))

\* do_statusbar_prev_word: before this word, back to the end of the one before, and to
\* its first letter.
PrevWordFrom(s, i) ==
    LET gaps(j)  == {k \in 0..j : ~WordAt(s, k)}
        words(j) == {k \in 0..j : WordAt(s, k)}
        before == Greatest(gaps(i))
        end    == Greatest(words(before - 1))
    IN  IF gaps(i) = {} \/ words(before - 1) = {} \/ gaps(end - 1) = {} THEN 0
        ELSE Greatest(gaps(end - 1)) + 1
PrevWord == EditKey(answer, PrevWordFrom(answer, x))

-----------------------------------------------------------------------------
(* The histories.                                                          *)

Crash ==
    /\ pc' = "crashed"
    /\ UNCHANGED <<flags, kind, prompts, answer, x, old, key, magic, complete,
                   tabbed, lists, last, backup, disk, draft>>

\* Completing a search: the last key decides whether this is the first Tab, and there is
\* no last key at first.
TabSearch ==
    /\ Asked /\ WalksHistory
    /\ IF key = "none"
       THEN "tab first" \notin Avoided /\ Crash
       ELSE /\ complete' = IF key # "tab" THEN Len(answer) ELSE complete
            /\ LET hits == Hits(history, answer, complete')
                   i == Found(history, answer, complete') IN
               IF complete' > 0 /\ answer # <<>> /\ hits # {}
               THEN /\ answer' = Entry(history, i)
                    /\ lists' = [lists EXCEPT ![ListOf].marker = i]
               ELSE UNCHANGED <<answer, lists>>
            /\ x' = IF complete' > 0 THEN Len(answer') ELSE x
            /\ key' = "tab"
            /\ UNCHANGED <<flags, pc, kind, prompts, old, magic, tabbed, last, backup, disk, draft>>

\* A step of the walk: where it is now, and the answer and the cursor.
Walk(k, place, shown, i) ==
    /\ key' = k /\ tabbed' = FALSE
    /\ lists' = [lists EXCEPT ![ListOf].position = place]
    /\ answer' = shown /\ x' = i
    /\ complete' = 0
    /\ UNCHANGED <<flags, pc, kind, prompts, old, last, backup, disk>>
Show(k, place, shown) == Walk(k, place, shown, Len(shown))

\* The first key up keeps the answer in magichistory.
MagicSlip == IF answer # <<>> THEN answer ELSE magic   \* and every other one
Magic == IF AtNewest(history) /\ answer # <<>> THEN answer ELSE magic

Older ==
    /\ Asked /\ WalksHistory
    /\ AtNewest(history) /\ answer = <<>> => "blank" \notin Avoided
    /\ IF OlderEnds(history)
       THEN "oldest" \notin Avoided /\ Crash
       ELSE /\ magic' = Magic
            /\ draft' = IF AtNewest(history) THEN answer ELSE draft
            /\ IF NoOlder(history) THEN Walk("older", history.position, answer, x)
               ELSE LET place == history.position + 1 IN
                    Show("older", place, Entry(history, place))

\* Coming down to the newest entry, or being there, puts the kept answer back.
Newer ==
    /\ Asked /\ WalksHistory
    /\ AtNewest(history) => "bottom" \notin Avoided
    /\ LET place == IF AtNewest(history) THEN 0 ELSE history.position - 1
           shown == IF AtNewest(history) THEN answer ELSE Entry(history, place) IN
       IF place = 0 /\ shown # <<>> /\ magic # <<>> THEN Show("newer", place, magic)
       ELSE IF AtNewest(history) THEN Walk("newer", place, answer, x)
       ELSE Show("newer", place, shown)
    /\ UNCHANGED <<magic, draft>>

-----------------------------------------------------------------------------
(* Completing the name of a file.                                          *)

\* cwd_tab_completion: the names in the working directory that begin with the answer up
\* to the cursor.  Its directories are empty.
Begins(s, name) == Len(s) <= Len(name) /\ Front(name, Len(s)) = s
Matches(s) == {name \in Files : Begins(s, name)}

\* The vector of them, in the order that readdir gives them.
Listings(M) ==
    {names \in [1..Cardinality(M) -> M] : \A m \in M : \E i \in DOMAIN names : names[i] = m}

\* The values that common_len takes: it is advanced by the length of the character of buf
\* that it has come to, and not of the name's.  In the answer that is the same, its NUL
\* has one byte, and behind it a character is one of whatever bytes the memory holds.
\* Without use_utf8 parse_mbchar reads nothing, and returns 1.
Places(first) ==
    IF "bytes" \in Avoided THEN {0..Len(first)}
    ELSE {p \in SUBSET (0..Len(first) + 4) :
            /\ 0..Len(answer) + 1 \subseteq p
            /\ \A i \in p : i < Len(first) => p \cap (i + 1..i + 4) # {}}

\* parse_mbchar finds the same in both names, a character or the NUL.
AlikeAt(first, other, i) ==
    IF i < Len(first) THEN i < Len(other) /\ CharAt(other, i) = CharAt(first, i)
    ELSE i = Len(other)

\* The loop ends where one of the names differs from the first one, or the first one ends.
DiffersSlip(names, i) ==   \* the last match is not compared
    \E match \in 2..Cardinality(DOMAIN names) - 1 : ~AlikeAt(names[1], names[match], i)
Differs(names, i) ==
    \E match \in DOMAIN names \ {1} : ~AlikeAt(names[1], names[match], i)
CommonLen(names, places) ==
    Least({i \in places : Differs(names, i) \/ i >= Len(names[1])})

\* mzero, with a slash behind a directory that is the only one.
Completion(names, len) ==
    LET mzero == Front(names[1], len) IN
    IF DOMAIN names = {1} /\ mzero \in Dirs THEN Append(mzero, Slash) ELSE mzero

TabKey ==
    /\ key' = "tab"
    /\ UNCHANGED <<flags, pc, kind, prompts, old, magic, complete, lists, last, backup, disk, draft>>

\* A second Tab shows the matches, and changes nothing.
Complete(name) ==
    /\ IF Len(name) # x THEN answer' = name /\ x' = Len(name) /\ tabbed' = FALSE
       ELSE tabbed' = TRUE /\ UNCHANGED <<answer, x>>
    /\ TabKey

\* charealloc may move what is longer, and the caller frees what it has allocated; so it
\* frees it twice.
Fits(name) == Len(name) <= Room \/ Len(name) <= Len(answer)
Moves(name) == IF Fits(name) THEN {FALSE} ELSE BOOLEAN

\* input_tab completes at the end of the answer only.  A common_len that has gone beyond
\* the first name is a cursor beyond the answer.
TabFile ==
    /\ Asked /\ ~WalksHistory
    /\ LET M == Matches(Front(answer, x)) IN
       IF M = {} \/ x # Len(answer) THEN TabKey /\ UNCHANGED <<answer, x, tabbed>>
       ELSE \E names \in Listings(M) : \E places \in Places(names[1]) :
              LET len  == CommonLen(names, places)
                  name == Completion(names, len) IN
              IF len > Len(names[1]) THEN Crash
              ELSE /\ "outgrow" \in Avoided => Fits(name)
                   /\ \E moved \in Moves(name) : IF moved THEN Crash ELSE Complete(name)
Tab == TabSearch \/ TabFile

EditAnswer ==
    \/ \E c \in Chars : Output(c)
    \/ Left \/ Right \/ Home \/ End \/ NextWord \/ PrevWord
    \/ Delete \/ Backspace \/ CutText

Next ==
    \/ \E k \in {"search", "replace", "file"} : Ask(k)
    \/ Enter \/ EnterReplace \/ Cancel \/ Resize
    \/ \E k \in {"search", "replace"} : Toggle(k)
    \/ EditAnswer \/ Older \/ Newer \/ Tab
    \/ Quit \/ Die

Spec == Init /\ [][Next]_vars

-----------------------------------------------------------------------------
(* Properties.                                                             *)

\* pinot goes on asking: no key that is pressed reads beyond a list, through NULL or beyond
\* the answer, or frees what is free, and the cursor is in the answer (get_prompt_string:
\* "assert(statusbar_x <= answer.length())").
KeepsAsking ==
    /\ pc \in {"main", "prompt"}
    /\ Asked => x \in 0..Len(answer)
    /\ \A k \in DOMAIN lists : lists[k].position \in 0..Size(lists[k])
                               /\ lists[k].marker \in 0..Size(lists[k])

\* Coming back down from the history gives back what was typed before going up
\* (get_prompt_string: "save answer in magichistory").
DraftKept ==
    Asked /\ WalksHistory /\ key = "newer" /\ AtNewest(history) /\ draft # NoDraft =>
        answer = draft

\* A run of pinot begins with the lists the last one ended with, and searches again for
\* what that one searched for last, whichever of its runs before were killed.
HistoriesKept ==
    [][Quit => /\ \A k \in DOMAIN lists : lists'[k].lines = lists[k].lines
               /\ last' = last]_vars

\* Tab makes of an answer the longest one that begins all the names the answer begins,
\* and completes a directory to its contents: though only the first name is compared with
\* the others, and what is compared next is measured in the answer, not in a name.
TabCompletes ==
    [][TabFile /\ Matches(answer) # {} /\ x = Len(answer) =>
         LET M == Matches(answer)
             longer == UNION {{Front(m, i) : i \in 0..Len(m)} : m \in M}
             bare == IF answer' # <<>> /\ CharAt(answer', Len(answer') - 1) = Slash
                     THEN Front(answer', Len(answer') - 1) ELSE answer' IN
         /\ \A n \in M : Begins(bare, n)
         /\ \A s \in longer : (\A n \in M : Begins(s, n)) => Len(s) <= Len(bare)
         /\ bare # answer' <=> M = {bare} /\ bare \in Dirs]_vars
=================================================================================
