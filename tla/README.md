# pinot in TLA+

pinot is a terminal text editor, a C++ descendant of nano.  This directory holds
TLA+ models of the parts of it that keep state worth reasoning about, the TLC
runs that check them, and TLAPS proofs of what matters most.  Source paths below
are relative to the repository; `text.cpp` means `src/text.cpp`.

## 1. The system

pinot is one process with one thread.  `do_input` (pinot.cpp) reads a key and
runs the function bound to it to its end; there are no locks and no callbacks
into the editor except signal handlers.  What makes it hard is not parallelism
but a large mutable text under many handlers that each maintain the same facts
(cursor, mark, magicline, `totsize`, `modified`, the undo stack, the rows of the
screen) by hand, and the world outside: other pinots that want the same file,
failing system calls, signals.

| component | state | operations | interacts with | hard parts |
|---|---|---|---|---|
| text of a buffer (types.h, pinot.cpp, utils.cpp) | chain of `filestruct` lines, `fileage`, `filebot`, `totsize` | partition, unpartition, move to and copy from a filestruct, magicline | everything that edits | boundaries: empty lines, last line, magicline |
| editing and undo (text.cpp, pinot.cpp) | `current`, `current_x`, mark, `undotop`, `current_undo`, `last_action`, `modified` | type, tab, enter, delete, backspace, indent, wrap, undo, redo | text, cutbuffer | which edits share an undo item; items hold line numbers and columns of older texts; a wrap is a group of items |
| cutbuffer (cut.cpp) | `cutbuffer`, `keep_cutbuffer`, the last line copied | cut, copy, cut till the end, paste | editing, undo | runs of cuts are collected; undo and redo cut and paste themselves |
| lock file (files.cpp, winio.cpp) | a file in the file system, `lock_filename` | `do_lockfile`, `write_lockfile`, `delete_lockfile` | other processes, open files | no step is atomic; death leaves the lock file; unlink and creation at each first modification |
| open files (files.cpp, OpenFile.cpp, pinot.cpp) | the list `openfiles`, the iterator `openfile`, each buffer's name, lock, `modified` | open, switch, modify, save, close, exit, die | lock file, writing | refused opens, the wrap-around of the list, two buffers of one file, emergency saves |
| writing (files.cpp) | the file, its backup, temporary files, `current_stat`, `modified` | `do_writeout`, `write_marked_file`, `write_file`, `copy_file` | open files, signals, other programs | every system call can fail between two others; the text is partitioned while a selection is written |
| reading (files.cpp) | `fmt`, the text, the `INSERT` undo item | `read_file`, `read_line`, `do_insertfile`, `execute_command` | text, undo | a format guessed from the first line ends; lines counted for undo by the caller |
| signals (pinot.cpp) | handlers, `filepart`, the jump buffer | SIGWINCH, SIGHUP, SIGTERM, suspend | all of the above | `siglongjmp` out of an edit; `die` from anywhere |
| search and replace (search.cpp) | the needle, the place and the wrap of the search, `REPLACE` items | search, replace, replace all, go to line, match brackets | text, undo, histories | a text that changes while it is searched |
| histories (History.cpp, files.cpp) | lists of searches, positions in files | add, older, newer, find, load, save | prompt | ends of the lists; two pinots and one file |
| prompt (prompt.cpp, files.cpp) | an answer and its cursor, `magichistory` | edit, walk the history, complete | histories | the same prompt is put up again after a toggle; two cursors that can be stale |
| movement and drawing (move.cpp, winio.cpp) | `current`, `placewewant`, `edittop`, `current_y`, the screen | every movement, scroll and jump | editing, signals | each movement draws only what it takes to have changed |
| spelling, linting, formatting (text.cpp) | pipes and temporary files | run a program, replace text | text, signals | parsing of what the program prints |
| browser (browser.cpp) | a list of files and its cursor | move, search, change directory | files | a cursor against a list that is reread |
| configuration, colours, keyboard, help | flags, bindings, syntaxes | parsed at startup, displayed | all | display only, or settled before the first key |

What makes each correct:

* editing: the cursor and the mark are positions of the text, `totsize` is its
  size, the text ends in a magicline unless `NO_NEWLINES`, nothing is read past a
  line or through NULL;
* undo: the texts undo and redo come to are the texts the user had, in order;
* lock file: one process at a time edits under the lock; a lock file is removed
  by whoever is done with it; nobody overrides a lock without being asked;
* open files: no unsaved change goes away unasked; the current buffer is in the
  list; locks follow buffers;
* writing: the old or the new contents of a file survive each failure,
  `modified` is cleared only when the new ones are in place, nothing that another
  program wrote goes unasked, a save ends;
* reading: what is written is what was read; an insertion is all of the file, at
  the cursor, and can be undone;
* searching: the next match is found, each match is replaced once, the search ends;
* prompt and histories: what was typed comes back, entries survive, nothing beyond
  a list is read;
* drawing: the screen is that of the whole text drawn anew.

## 2. The modules, in the order they were written

| module | of | abstract specification or composition | proofs |
|---|---|---|---|
| `TextBuffer` | lines, positions, regions | used by all that have a text | `EditorProofs` |
| `Editor` | editing, cutbuffer, undo, wrapping, indenting | `EditorHistory` implements `TextHistory` | `EditorProofs`, of the refinement, too |
| `LockFile` | the lock file, call by call | | `LockFileProofs` |
| `OpenFiles` | the buffers of one pinot | `OpenFilesRing` implements `BufferRing` | `OpenFilesProofs` |
| `WriteFile` | a save, call by call, with failures, other programs and signals | | `WriteFileProofs` |
| `ReadFile` | reading, line ends, insertion and its undo | | `ReadFileProofs` |
| `Search` | searching, replacing, correcting, brackets | | `SearchProofs` |
| `SearchHistory`, `Prompt` | a history; the prompt over two histories and a file | `Prompt` extends `SearchHistory` | `PromptProofs` |
| `Window` | movement, jumps, drawing, SIGWINCH | | `WindowProofs` |

The `MC` modules name the texts, files, flags and sessions of the runs.  No
module that is proved about reaches a RECURSIVE operator: what recurses is a
recursive function (`TotSize`, `Write`, `Plain`).

What a further step would take up, in this order: `PosHistory`, with two pinots
and one file; the browser's list; paragraphs and justifying, which cut and paste
behind the undo stack's back.

## 3. The modules and the code

### TextBuffer

A line is a sequence of characters, a text a non-empty sequence of lines, and a
position a pair of a line number (from 1, as `lineno`) and a column (from 0, as
`current_x`).  Nodes are not modelled: pointers to lines are line numbers, and
where the code keeps a pointer to a node that is freed the model has the line
number 0, which no line has.  `Region`, `Without` and `With` are what a partition
holds, what remains without it and what `unpartition_filestruct` makes of a
text with something new in between.

### Editor

One variable, `ed`, a record of what the code spreads over `OpenFile`, cut.cpp
and static variables:

| field | code |
|---|---|
| `lines`, `cur`, `x` | the text, `current->lineno`, `current_x` |
| `mark` | `mark_begin`, `mark_begin_x`, or `NoMark` when `mark_set` is false |
| `size`, `mod` | `totsize`, `modified` |
| `items`, `cu` | the stack from `undotop` on; `current_undo` is `items[cu]`, or the end |
| `last` | `last_action` |
| `cutbuf`, `keep`, `sameline` | `cutbuffer`, `keep_cutbuffer`, whether `next_contiguous_line` of `do_copy_text` is the current line |
| `prep` | `prepend_wrap`: the next wrap puts its text before the line below |
| `session` | the commands that this session of the user consists of |
| `ub` | a command has read past a line or through NULL; nothing is said of what follows |

The handlers call each other: undoing a cut pastes and redoing it cuts, pasting
calls `update_undo`, which may call `add_undo`, a character typed wraps its line and
types the blank and the rest again.  So each is an operator from records to records
with the name of its function (`AddUndo`, `UpdateUndo`, `MoveToCutbuffer`,
`CopyFrom`, `CutOut`, `Deletion`, `Wrap`, `UndoItem`, ...), and an action per command
applies one to `ed` (`DoCutText`, `DoUndo`, ...), with `do_input`'s `cutbuffer_reset`
in it (`OtherCommand`).  An item has the fields of the struct `undo`:
`lineno`/`begin` and `mlineno`/`mx` for `mark_begin_lineno`/`mark_begin_x`.

Constants: the flags `NO_NEWLINES` and `CUT_TO_END`; `Fill`, the column lines are
wrapped at; `CountSize` turns off `size` where undo and redo would let it drift
without bound; `Sessions`, the sets of commands of which one is chosen at the start;
`MaxSize` bounds the text and the cutbuffer, `MaxUndo` the number of items.  The
bounds are asked of the state a command leads to.

Abstractions: characters are one byte wide; indentation is by whole tabs, a tab being
one character.  `do_indent` records no undo item, so that undoing what was done before it
restores a wrong text: it is in no session with undo.  `AUTOINDENT`, `SOFTWRAP` and
`VIEW_MODE` are off.  The branch of `do_wrap` that adds a blank before it prepends
(text.cpp:1279) and the dropping of leading blanks are reached by no text within the bounds.

**Habits.**  Several sequences of keys break undo, the cursor or the mark; section 4
has them all.  They would hide each other and everything else, so the actions have
guards for *habits*: a session `Avoided` some of which never types where an undone
and redone typing ended, never undoes while the mark is set, and so on.  The runs
avoid all seven; everything else the code can do is left in.  `ReadFile`, `Search`,
`Prompt` and `WriteFile` have habits of their own, in their constant `Avoided`.

### TextHistory, EditorHistory

`TextHistory` is what a user is promised: a line of texts, of which one is the
present; an edit appends to the past and clears the future, or goes on with the last
operation; undo and redo walk.  `EditorHistory` adds two history variables that follow
nothing but the *depth* of the code's stack, the items of a wrap counting as one:
when an item appears, the text it was recorded over is pushed; when `current_undo`
moves, they move.  `UndoHistory` says that with them the editor implements
`TextHistory`: so the text the code computes from an item's strings, line numbers and
columns is the text that was there.

### LockFile

Any number of processes and one file.  A step is one system call or one answer.
`pc` is the place in `do_lockfile` and `write_lockfile`, `lock` the creator of the lock
file, `written` whether it has its 1024 bytes (fewer than 48 are refused), `held`
whether `lock_filename` is set.  `overridden` is a history variable: a user has said yes to
overriding the lock of a process that holds it, and somebody has had the file open ever
since.  `set_modified` enters `write_lockfile` a second time,
which deletes the lock file and makes it again.  `Failures` says which calls may fail:
"unlink" also stands for the look-ups of user and host name, which fail
with the same result.  Crashes leave the lock file; a process that died does not come
back, but there are others.  Not modelled: the contents (program, user, host), and
`INSECURE_BACKUP`, which drops `O_EXCL`.

### OpenFiles

The list `openfiles`, the position `openfile` in it (the code's iterator), and
for each name whose lock file it has.  The lock functions are one step here: their
races are in `LockFile`, and `OtherLocks` lets other processes take and release locks
between steps.  They succeed here, except that making one may fail (`OpenUnlocked`).
`OpenBuffer` is `open_buffer` with a new buffer: with its lock, without, refused with no
other buffer, refused with others, when `close_buffer` takes the new buffer away again.
`unsaved` is a history variable, the buffers with changes that are in no file and were
not given up, and `rescued` what `die` wrote.  The texts are identified by their
buffers.  `die_save_file` calls `write_file`, which writes the text of the current buffer; the
loop before it copies each `OpenFile`, whose destructor frees the text, so that after
the current buffer's turn its text is gone (`Garbage`).  Not in it: failing deletions of
lock files (in `LockFile`), view mode, and `TEMP_FILE`, which is in `WriteFile`.

### BufferRing, OpenFilesRing

The promise of the list: a ring, of which one buffer is seen; opening puts a buffer
after it and shows that, closing shows the next one.  `OpenFilesRing` maps the list,
rotated to begin with the current buffer, onto it.

### WriteFile

One buffer, two names, a file system of names with data and `st_mtime`, and a clock.
`pc` is the place in `do_writeout` (its prompt, the questions), `write_marked_file`
(partition, `filepart`, magicline, and back), `write_file` (stat, the backup's five calls,
the copy of a prepended file, open, write, the rest, close), and each value is one
call that can fail when its kind is in `Failures`.  `w` has the arguments and variables
of the calls in progress.  Another program writes the two files at any time, between two calls of a save and
while a question waits too, but not the one that pinot has open for writing; `late` is a history of
writes to the target after `do_writeout` decided whether to ask.  What goes into the backup is what is in the file when
`copy_file` begins to read.  SIGHUP and SIGTERM end pinot through `die` at every place, SIGWINCH throws it back into the
main loop, with what `handle_sigwinch` does for a partitioned text.  A text is its version
and two lines; `text` is which of them the buffer's lines are.  `kept`, `risked` and `unsaved`
are history variables: what was last whole in the file, whether somebody chose that it
may go, and whether the text is in no file.  `Overrules` says which writes are such a choice of the
user's: an overwrite confirmed at a question while no backup is made of what is `kept`,
because the name is not the buffer's or the file is not as pinot last saw it; and the write at exit
under `TEMP_FILE`, which asks nothing.  The toggle of `BACKUP_FILE` in the prompt is left
out: it is a flag of the start.

### ReadFile

A file is a sequence of characters in which "r" and "n" are `\r` and `\n`.  A step is one
character that `getc` returns, or a command.  `Write` is the line ends that `write_file` writes
for `fmt`, one `LineEnd` after each line but the last.  The undo item is the last one, `INSERT`; undo and redo of it cut and paste as
in `Editor`.  Nulls are ordinary characters: `sunder` and `unsunder` exchange them both ways.

### Search

A step is one line that `findnextstr` looks at, one instance that is replaced, skipped or
left, or one line of brackets.  A needle is a string, and `eol` says whether it is the
regular expression of that string and `$`, which is how matches of no characters and of a
line's end are had.  `frame` is the marked region during a replacement, `items` the
`REPLACE` items.  `do_int_spell_fix` is modelled with the loops it shares with replacing;
a marked correction is left out.  `Interrupt` stands for the user's ^C.

### SearchHistory, Prompt

`SearchHistory` is one list and its two cursors; adding an entry erases the first that equals it.
A loaded list has no blank entries, since reading stops at the blank line between the lists.  `Prompt` the keys of `get_prompt_string`, the two
lists, the prompts of `do_search` and `do_replace` with their toggles, completion of names, and
the file the lists are saved in: `Quit` saves what has changed and starts again, `Die` starts
again without having saved, as `die` does.  `TabFile` is `input_tab` with its loop: `Listings` are the
orders in which the directory may list the matches, `Places` the values `common_len` takes, which depend on
the answer and on what is behind it in memory, and `CommonLen` the first of them at which another match
differs from the first one (`Differs`) or that one ends.  `Crash` is what follows if `common_len` has left the first match, or if
`charealloc` moved the block that the caller frees (`Moves`).  `Room` is how long an answer is that fits any block of memory
(with glibc 23 characters); a longer name may or may not move it.

### Window

One variable, `w`, the fields of `openfile` that movement and drawing use, the flags, the size of
the window, and the screen: for each row the line drawn in it, the first column of the page it
shows, and the columns painted as marked.  A command draws in the middle of its work, so
each is an operator from windows to windows, composed of the drawing statements
(`UpdateLines`, `EditScroll`, `EditRedraw`, `EditUpdate`, `EditRefresh`); `Finish` is what `do_input` and
`main` do after it.  The text is fixed, every character one column wide, there is no tab,
`SOFTWRAP` is off and `maxrows` is `editwinrows`.  SIGWINCH and toggles that give or take rows come
between commands.  `edit_redraw` draws, when the cursor leaves the window, what `edit_refresh` draws
again: only the latter is modelled.

## 4. The runs

| run | properties | instance |
|---|---|---|
| edit | `TypeOK`, `KeepsRunning`, `MarkInText`, `TotSizeIsSize` | two sessions: all commands but undo, redo, tab and indenting; and typing, tabs, marks and indenting.  Magicline, whole-line cuts, size up to 4 |
| history | `KeepsRunning`, `UndoHistory` | typing two characters, breaking, joining, deleting, cuts to the end of the line, of marked text and to the end of the file, and pastes, with undo and redo; `NO_NEWLINES`, size up to 3, two items |
| lines | `ThereAndBack` | three sessions with whole-line cuts, undo and redo: with typing and breaking, with deleting, joining and marks, with breaking and marks; magicline, size up to 4, two items |
| wrapping | `UndoHistory` | an indented line; characters, blanks and tabs typed in lines that wrap at column 3, with undo and redo; `NO_NEWLINES`, size up to 7, nine items |
| lock_serial | `TypeOK`, `MutualExclusion`, `LockStays`, `AskedOverOthers` | three processes in turns, which override each other's locks and come back; unlinks and writes fail |
| lock_races | `NoOrphan` | three processes at once, which override each other's locks; creations fail |
| session | `TypeOK`, `NothingLost`, `LocksReleased`, `LocksHeld`, `BuffersFormARing` | two files, started with none or both, three buffers, all flags, no file opened twice |
| writing | `TypeOK`, `OldOrNew`, `HangupSaves`, `ClearedWhenSaved`, `AskedFirst`, `WritesEnd` | two versions of the text, two names, every kind of failing call, SIGHUP and SIGWINCH, three seconds, one failure or interruption; with backups, or with `TEMP_FILE` and `NOFOLLOW_SYMLINKS` |
| reading | `TypeOK`, `RoundTrip`, `InsertedInPlace`, `UndoRestores` | every file of up to five characters of which some are `\r` and `\n`, with and without an insertion of up to three, of `\r`, `\r\r` and `\r\n` among others |
| replacing | `TypeOK`, `FindsRight`, `AllReplaced`, `UndoneTexts`, `SearchEnds` | texts of up to two lines of up to three characters and a magicline, words, strings (one that overlaps itself) and a regular expression, replacements of no, one and two characters, both directions, marks; one job with its undo and redo |
| prompting | `KeepsAsking`, `DraftKept`, `HistoriesKept`, `TabCompletes` | answers of up to three typed characters, lists with room for three, three files of which one is a directory and one does not fit the memory of an answer, two prompts |
| viewing | `TypeOK`, `ScreenShowsText`, `WordByWord` | a text of eight lines, one of three pages; windows of 1, 2 and 4 rows, 4 and 10 columns; with and without smooth scrolling, smart home and word bounds |

**Bounds.**  The texts of the editor have up to three lines when a file is opened, so
that there is a first, a middle and a last line, and lines of no, one and more characters;
two undo items give one that is undone, one that is not, and one that is cleared away;
a wrap has up to five.  One character is enough where only positions matter; `history` and
`lines` have two, so that a character restored in the wrong place shows.  A line that
wraps twice, and one whose end is prepended to the next, are within size 7.  Three processes are
one that overrides, one that is overridden, and one that comes later.  Three buffers
give a list with a middle.  One failing call, at any place, or one signal that
interrupts (SIGHUP comes besides) is what a save is promised to survive; three seconds
let a file's time differ from the one remembered and from the one of its backup.  Five
characters hold two line ends of any two kinds with text on both sides.  Lines of three
characters hold two matches side by side, overlapping (of "aa") or apart, and two such lines with
a magicline the wrap-around.  Room for four characters holds a directory completed by three beyond the
answer, where the loop of `input_tab` has passed its end, and not the longest name.  Three entries are an oldest, a middle and a newest.  Eight lines
are two windows of the largest height, the page of 12 columns is scrolled twice at
4 columns, and windows of one and two rows are the smallest pinot allows.

**Deadlock** is checked in the editor and in `viewing`, where some key always does something
within the bounds.  It is not where the system may stop: in `LockFile` all processes may have
died, pinot exits in `OpenFiles` and `WriteFile`, and `ReadFile`, `Search` and `Prompt` end at
their bounds of insertions, jobs and prompts.

**Fairness.**  `writing` and `replacing` check liveness.  `WriteFile!FairSpec` assumes weak
fairness of `WriteStep`, the calls of a save: pinot runs on while it waits for no key; nothing is assumed of
users, signals, other programs and the clock.  `Search!FairSpec` assumes weak fairness of `Step`:
the loops run on and the user answers the question about each instance.  An editor owes
nothing else: a command runs to its end before the next, and what the user does next is not owed.

**Mutants.**  Each property of a run has one, an operator whose name ends in `Slip` or
says what it omits, beside the one it replaces: a forgotten adjustment, a dropped
condition, an end of a list not asked for.

### What the runs leave out: known divergences

These are counterexamples that the habits and constants of the runs keep away, or that
were met while modelling.  Each of the habits can be seen by taking it out of `Avoided` in a
copy of the configuration.

Editing and undo (`Avoided` of `Editor`):

* "type after undo" (`UndoHistory`): typing where an undone and redone typing ended is
  recorded nowhere (text.cpp:1078); an item can be left without text, which the next undo
  passes to `strlen`.
* "paste again" (`UndoHistory`): the second paste in a row is recorded where its text ends.
* "redo deletion" (`CursorInText`): redoing a deletion leaves the cursor past the end of a
  line, where the next key fails an assertion.
* "undo with mark" (`MarkInText`): `do_undo` of typing, and the joins of undo and redo, do
  not move a mark behind the text they change (text.cpp:439), as `do_deletion` does.
* "paste with mark" (`MarkInText`): `copy_from_filestruct` of a single line moves
  the mark to the cursor's line from whatever line it is on and keeps its column
  (pinot.cpp:427).
* "cut nothing" (`CursorInText`): a cut that covers no text makes an undo item all the same,
  and its undo sets `current_x` before it sees that there is nothing to paste
  (text.cpp:433, 355).
* "cut after copy" (`UndoHistory`): a copy leaves `keep_cutbuffer` set, so that a cut after it
  joins the last cut's item with the copied text (text.cpp:935).
* `TotSizeIsSize` is not asked of sessions with undo: `do_undo` and `do_redo` of text do not
  change `totsize` (text.cpp:435-457, 586-608).
* `UndoHistory` is asked with `NO_NEWLINES` only: undoing what was typed on the magicline
  leaves the new magicline behind (pinot.cpp:1454).  `lines` asks with a magicline that
  redo and undo invert each other.
* `lines` has no Backspace: undo of a Backspace on the magicline does nothing, its redo
  removes the magicline (text.cpp:475, 627-642).  It has no `NO_NEWLINES`: redoing the cut
  of a last line without magicline cuts nothing (text.cpp:384).
* Undoing a wrap loops for ever if the line of one of its items is missing.
* The branch of `do_indent` that makes a magicline for `f == filebot` is dead.

Lock files and open files:

* `Serial` (`MutualExclusion`, `LockStays`, `AskedOverOthers`): two processes that both find no
  lock file both edit, and one that begins between the unlink and the open of another's first
  modification finds none.  `lock_serial` says nothing of these windows: in `lock_races`, which has
  them, only `NoOrphan` is asked.
* After an override (`overridden`) the process that exits first deletes the
  other's lock file, and a third is not asked; `MutualExclusion` and `LockStays` end there.
  `AskedOverOthers` goes on, for a lock that has one holder.
* A user who refuses to override the lock of the first file pinot opens edits it anyway,
  unlocked, although `do_lockfile`'s comment tells -1 from 0 (files.cpp:229, 308).  It is
  in the models: `Refuse` and `OpenRefusedAlone`.
* `OpensTwice` (`LocksHeld`): two buffers of one file share a lock file, which goes with the
  first that is closed.
* A buffer saved under another name keeps the lock of the old name and has none for the
  new (files.cpp:1855).  `Overwritten` models it, and no property forbids it.
* `EmergencySaves` is defined and does not hold: `die` writes the text of the current buffer under the names
  of all modified ones, and the current one twice, where a comment says "Save all of
  the other modified file buffers".

Writing:

* `late` (`AskedFirst`): what another program writes after `do_writeout`'s stat (files.cpp:2032), while the question about the file or
  about a failed backup (1390) waits, or before the truncating open (1748), is lost unasked, although `write_file` looks at the
  file again (1520).  `AskedFirst` excepts it by name, because no code guards it: it says that nothing else is lost unasked.  What another program writes while pinot has the file open is not modelled: the two
  outputs would be mixed, and `ClearedWhenSaved` is not asked of that.
* "unknown" (`AskedFirst`): the file of a buffer without a stat, written by another program, is overwritten
  unasked (files.cpp:2057).
* "own selection" (`ClearedWhenSaved`, `OldOrNew`): a selection written over the buffer's own file gets no
  question, and leaves the buffer unmodified.
* "retry", "same second" (`OldOrNew`): after a failed save, appending, saving with the mark on, or
  saving in the same second makes a new backup of the partial file (files.cpp:1536).
* Appending to the buffer's own file leaves `current_stat` as it was, so that the next overwrite finds the file modified
  and asks; on Yes it makes no backup, and there is none either if a second append could not create it.  `Overrules`
  counts that Yes as the user's choice.  It takes one second more than the run has; `OldTextOnDisk` proves
  `OldOrNew` for any number of seconds.
* `TextKept` is defined and does not hold: SIGWINCH while a selection is saved jumps to the main loop with the
  selection as the whole text (pinot.cpp:1048, although the comment at 1011 says
  it is unpartitioned); the run shields those places (`WindowsOfMark`).
* Overwriting another existing file makes no backup; `NOFOLLOW_SYMLINKS` refuses every write to a
  link, so that the later unlink is dead; `prompt_failed_backupwrite` remembers its answer by the
  backup's name and takes Cancel for yes; a prepend whose second open fails ends in the assertion
  of `copy_file`; `current_stat` is not initialized when a selection goes to a new file
  (`AnyStat`); some error paths leave temporary files; `write_file("")` returns -1, which is
  true, and the comment at files.cpp:1460 ("Return true on success") does not agree with 1844.
* SIGWINCH stays blocked until a speller ends (text.cpp:1839, 1934) and the formatter unblocks it on
  its error path only (2357, 2387); SIGCONT calls `handle_sigwinch` if `SUSPEND` is set; the exit
  under `TEMP_FILE` writes the buffer's name with no check.

Reading:

* "nothing" (`UndoRestores`): undo and redo of an insertion of nothing crash or cut the wrong text.
  A file of a lone `\r` is read as one empty line when it is converted, so that its insertion is of nothing
  too, and its undo cuts the beginning of the cursor's line; the proof of `UndoRestores` showed that.
  `RoundTrip` was checked once with nothing avoided (13 million states) and holds.
* "unended" (`UndoRestores`): under `NO_NEWLINES`, undo of an insertion with no newline at its end
  restores the wrong text.
* "with mark": a mark inside the partition of an insertion is not moved with its text.  The other properties
  were checked once with it and hold.
* A Mac file that ends in an empty line loses it, and any Mac file under `NO_NEWLINES` its last `\r`
  (the exceptions in `RoundTrip`).  Inserting a DOS or Mac file changes the format of the whole buffer;
  inserting a missing file marks it modified; a `\r` before a `\n` is stripped in Unix files too;
  the branch `len == 0 && input == '\r'` is dead.

Searching:

* "repeat", "empty", "rejoin" (`AllReplaced`, `SearchEnds`): Replace All by a text that holds the needle replaces
  again after the wrap, with a regular expression that matches nothing it does not end (the comment at
  search.cpp:272-275 is stale), and a match made of the two sides of a replacement, which is nothing, is found: in either direction.
* Which of the matches that overlap are replaced depends on the cursor and the direction: a search begins
  beside the cursor (search.cpp:232), so that replacing all "aa" of "aaa" with the cursor in column 0 replaces the second.
  `AllReplaced` says for each line which matches those are (`Replaced`), and not that a text has one result.
* `TypeOK` has the mark in the text only during the first job and the cursor only when nothing is being spelled: undo of a
  replacement can leave the mark behind the end of its line, and a correction puts the cursor back on a line it has changed.
  `replacing` has one job.  Two jobs without corrections were checked once on smaller texts (19 million states).
* "empty" (`UndoneTexts`): replacing a match that is no characters in the magicline adds a line, and no item says so.
* Replacing in a marked region misses an occurrence where a region begins in column 0
  (search.cpp:552); `bot_x` is set in the wrong branch (632); a match that begins at the end of
  the region is replaced.
* A search for whole words skips the rest of a line whose first match is not a whole word.  A regular
  expression searched backwards from a line's end reads past it.
* Undo of `REPLACE` restores neither `totsize` nor the mark.  An interrupted search leaves `nodelay`
  on; `has_input` sees only keys typed ahead.
* `CursorInText` is defined and does not hold: `do_int_spell_fix` passes its own cursor as the place to keep, which then moves twice and can end up past
  its line (text.cpp:1524).

Prompt and histories (`Avoided` of `Prompt`):

* "middle": typed characters are appended at the end of the answer while the cursor advances from the
  middle (prompt.cpp:150).
* "tab first": the first key being Tab dereferences a NULL `last_kbinput`.
* "oldest": `older` reads one entry beyond the list at the oldest, and Up skips the newest (History.cpp:95).
* "leave up": the place in the list is kept from one prompt to the next.
* "bottom": Down at the newest entry overwrites an edited answer with `magichistory`: the comment at
  prompt.cpp:637 says the answer is blank, the code asks the opposite.
* "blank": going up from a blank answer comes back to the newest entry.
* `old_statusbar_x` is always -1, so that the cursor is never put back after a toggle, as the comment at
  prompt.cpp:545-551 promises; a second Tab never finds another entry; `backupstring` stays after
  SIGWINCH; `load_history` asks an empty list for its newest entry.
* "outgrow": `input_tab` reallocates the answer (files.cpp:2404), and its caller frees the old pointer (2312): when the
  block has moved, it is freed twice.  `KeepsAsking` and `TabCompletes` do not hold without this habit.
* "bytes": the loop of `input_tab` advances by the characters of the answer (files.cpp:2372), and reads behind its end as soon as a
  name is completed by two characters.  With `use_utf8` what it finds there may be several bytes long, so that a difference or the
  end of a name is skipped; then a wrong name is completed, or the cursor comes behind the answer and
  the assertion of prompt.cpp:571 fails.  The habit leaves out completing with `use_utf8`, even where what is read is harmless.
* Histories are saved only if changed, by truncating; the last of two pinots to end overwrites the other's
  (`Quit` assumes one pinot); `die` saves none; entries with newlines in them would be read back wrongly.

Movement and drawing:

* With one or two rows, Page Up and Page Down do not move a page.
* Page Down goes to the end of the text when less than a page is left below the *cursor*, although lines
  below the window have never been shown; the comment at move.cpp:90 says "less than a page of text
  left on the screen".

## 5. The proofs

`EditorProofs` is for any characters and blanks, texts, flags, column to wrap at and bounds.

* It begins with what the operators of `TextBuffer` do to texts.  Texts with `Attach` (`\oplus` in the proofs) are a
  monoid (`AttachIn`, `AttachAssoc`, `UnitLeft`, `UnitRight`), for which `TotSize` and `EndOf` add up (`SizePlus`, `EndPlus`).  A
  position takes a text apart into two that are attached (`TakenApart`, `Parted`, `Between`); and
  typing, deleting, breaking, joining, cutting and pasting put a text between two others or take
  it out (`Putting`, `Taking`, `Breaking`, `Joining`, `Cutting`, `Pasting`).  That `TotSize` and the other recursive functions
  exist is proved by induction over the natural numbers as a set (`NatSet`, `SizeExists`, `Iteration`).
* `EditingTypeOK`, `EditingKeepsRunning`, `EditingMarkInText` and `EditingTotSize`: from one invariant, `EditingInv`.
  `Good` is what they need of one another: the cursor and the mark in the text, `totsize` its size, an empty last line without
  `NO_NEWLINES`; and of the undo stack that `last_action` is the type of its top item, which has a text if it is a deletion
  (`TopOK`), and a line that exists (`TopLine`).  The item matters for the text: `update_undo` copies the
  character at its `mark_begin_x`.  `Collects` is about cuts: an item collects cuts only where there
  is no mark, since a cut of marked text has another item.  There is a lemma for each handler, that it leads from good
  states to good ones: for the mark from what lies on either side of it (`MarkTyped`, `MarkDeleted`, `MarkBroken`, `MarkJoined`),
  for `do_wrap` through the commands it is made of (`PrependGood`, `WrapBreaksGood`), for indenting line by line (`SizeGrown`).
* These four are about what is done until the first undo (`NothingUndone`), as `edit` is: undo does not keep `totsize` and
  can leave a mark or a cursor past the end of a line (section 4).  The
  only habit they exclude is "paste with mark", which does put the mark outside of the text.
* `UndoRedoIsAHistory`, with undo and redo: `EditorHistory` implements `TextHistory`, for texts, cutbuffers and undo stacks of
  any length.  `UndoRedoThereAndBack`, `UndoRedoKeepsRunning` and `UndoRedoMarkInText` follow from the same invariant, `HistoryInv`
  (`HistoryKept`).  It needs the texts: an item holds only what was typed, deleted, cut or pasted
  and where.  `Records` says of an item and two texts that one is some `B` and `F` attached, the other has the item's piece
  between them, and that the item's place is where `B` ends; with a case for each type.  `Tracks` says that every item on the stack, done or
  undone, records the step between the two texts that `past`, the present text and `future` have on its sides.
* The argument has three parts.  Undoing an item leads from the text after it to the one before, and redoing it back, with the
  cursor at an end of `B` or of the piece (`UndoLeads`, `RedoLeads`).  Each command begins an item that records
  its step, goes on with the top item, which then records the step from the text
  before that item, or changes neither text nor stack (`Begins`, `GoesOn`, `Stays`; `TypingDoes`, `EnterDoes`, `DeletionDoes`,
  `BackspaceDoes`, `CutDoes`, `CopyDoes`, `PasteDoes`, together `EditingDoes`).  And the stack moves as the two sequences of texts
  do (`TrackBegins`, `TrackGoesOn`, `TrackUndo`, `TrackRedo`), whose lengths are the depths that `EditorHistory` follows
  (`Depths`, `HistoryMoves`, `HistoryStep`).
* They are for `Retraceable` settings, those of `history`: `NO_NEWLINES`, `CUT_TO_END` and no wrapping, sessions without indenting
  and free of all seven habits.  Without these, the statements are false or need another invariant: section 4 says
  what each habit breaks, what undo leaves of a magicline and that indenting makes no item.  A wrap is a
  group of items and undone by a walk over them, and a cut of whole lines is recorded at column 0 whatever the
  cursor's; `wrapping` and `lines` check those.

`LockFileProofs` is for any set of processes.  Assumptions on the constants are those of
`LockFileAssumption`.

* `Types`: `TypeOK` is inductive as it stands.
* `NoOrphanLeft`: `NoOrphan` is not inductive: it does not say that the process whose
  lock file is there will delete it.  `Orphan` does: the creator is filling it, dead, or
  has its `lock_filename` set, wherever it is in `write_lockfile`.  It needs that
  files can be written and deleted (`Deletes`), nothing about order.
* `NoneUnasked` needs `Serial` alone, whatever was overridden and whatever fails: `Turns` says that
  one process at a time is in the lock functions and that it writes over a lock file only if it holds
  a lock or its user was asked.  The only actions that change whose lock file is there are
  `Unlink`, `Create` and the `DoExit` of a holder, which the only holder rules out for all but the first.
* `OneHolder`, `LockFileStays`: from `OneAtATime` besides, which says for each place in the lock
  functions whose lock file is there, until one that is held is overridden.  They need that a file can be created
  where there is none (`Creates`): a process that cannot make its lock file again edits on with the name of one
  that is not there.

`OpenFilesProofs` is for any names, command line, flags and numbers of buffers.

* `Types`: with lemmas about `InsertAt` and `RemoveAt` of the community modules.
* `NothingIsLost`: `NothingLost` with the invariant that identities of buffers are
  distinct and not above `opened`: otherwise closing or saving one buffer could
  take another's identity out of `unsaved`.
* `LocksAreReleased`: `LocksReleased`, with that each lock of ours is in some buffer's
  `lock_filename`.
* `LocksAreHeld`: `LocksHeld`, when no file is opened twice (`~OpensTwice`; section 4 says what
  happens otherwise), from `HoldsLocks`, that each `lock_filename` is the name of a lock file that is ours, and
  `LocksApart`, that no two buffers have the same: so the lock that goes with a buffer is nobody else's.
* `ListIsARing`: the refinement of `BufferRing`, step by step.  `Numbered` is what it needs, that
  no buffer has an identity yet to be given: the ring is the list rotated, and what a step does to the list must be said of each
  index on both sides of the wrap-around.

`WriteFileProofs` is for any flags, versions, names in question, kinds of failing calls, shielded places and bounds.

* `TypesCorrect`: from `Typed`, which adds to `TypeOK` what each place of a save knows of its arguments.
* `ClearedOnlyWhenSaved` has no hypotheses.  `Progress` says that what is in the file, with what is still to be written
  to it, ends in the lines, and is the lines when the file is overwritten.
* `AskedBeforeLosing` needs "same second" among the habits, since `current_stat` cannot tell two writes
  of one second apart.  `Questions` says which writes ask and which do not, `Dated` that `current_stat` is older than
  what another program wrote and, while a write goes on, than the clock, `Warned` that what `Threatened` says would be lost was asked about or came
  later, and `Aside` that what is prepended to is, line by line, in the temporary file or still to be copied there, unless it was written meanwhile.
* `HangupLeavesText` needs the windows in which the text is in parts to be shielded (`Windows`): section 4
  says what a SIGWINCH there does.  `Whole` says which lines the buffer has where, `ModifiedWhenUnsaved`
  that `die` will write them.
* `OldTextOnDisk` needs "same second" and "retry".  `BackedUp` says that until the new contents are whole, what was `kept`
  is in the file or in its backup, and of each place of the backup's calls which of the two (`Kept`, `Known`, `OwnWrite`).

`ReadFileProofs` is for files of any length and characters and any flags.  It proves by induction over the natural numbers as a set
(`NatSet`) that `TotSize`, `Write` and `Plain` exist and what they make of a text put together from two.
Texts are taken apart at a position (`Joint`, `Spot`) and put together with something in between (`Spliced`, `SpliceIs`).

* `TypesCorrect`, `UndoGivesBack`, `InsertsInPlace`: from one invariant.  `Consumed` says that the lines read so far, `buf` and what is left to read have the characters of the
  file but for its line ends, `Inserting` that the item has the place where the insertion begins, `Inserted` that
  the lines and columns it ends up with take the insertion out again.  They need that nothing
  empty is inserted and, under `NO_NEWLINES`, nothing unended (`Ordinary`): `PieceEnds`, that an
  insertion that is not empty and ends in a newline has more than one line, the last of them empty, is what the
  number of lines the caller counts is right by.
* `ReadsAndWrites`: `RoundTrip`, with no hypotheses.  `Opened` says, for a file with line ends of one kind, that what has been read,
  written in the format the buffer has by now, followed by what is left to read, is the file; the format may still be open, and
  at each character it is known which it can become (`AsNix`, `AsDos`, `AsMac`).

`SearchProofs` is for any texts, needles, replacements, numbers of jobs, and any other habits than those named.

* `UndoneTextsKept`: `Stacked` says that the texts between which undo and redo walk differ in one line each, and that
  the item between two of them holds that line of the one it leads to.  It
  needs "empty": otherwise a replacement can add a line, which is in no item.
* `TypesCorrect` and `FindsRightAlways` need besides that nothing is spelled, since a correction puts the cursor back on a line it has
  changed; in the run `TypeOK`, which then excepts the cursor, and `FindsRight` hold with spelling too.  `Fits`, `ItemsFit` and `MarkFits` say that undoing the items
  that are left leads to texts which hold the cursor and the mark.
* `FindsRightAlways`: `Searched` says that nothing matches in what the search has gone past, on both sides of the wrap-around, so that what
  it finds is next; `Bracketed` that the count of open brackets (`Open`) is that of the brackets between, for which
  the brackets are counted as cardinalities of finite sets of columns.

`PromptProofs` is for any answers, lists, files and numbers of prompts.

* `GoesOnAsking` needs "tab first", "oldest", "outgrow" and "bytes", whose keys do crash pinot, and `Typed`: the cursor within the answer, and the
  lists' cursors within the lists.  `TabFileDoes` says what Tab may do: `LoopEnds`, that the loop
  comes to an end whatever it measures, holds without a habit.
* `DraftsComeBack` needs "blank" and "bottom".  `Drafted` says where what was typed is while a history is walked.
* `HistoriesSurvive` has no hypotheses.  `Recorded` relates the lists to the file: what has not changed since it was read is what it holds.
* `TabsComplete` needs "outgrow" and "bytes".  `CommonFacts` says that where the loop stops the first name has the
  longest beginning that all names in question share: it has compared it with each of the others at every place before,
  and at that place one differs or it ends.

`WindowProofs` is for any text, set of flags, heights and widths that satisfy
`WindowAssumption`.

* `CursorIsShown`: `TypeOK`.  It is not inductive, since a command's windows in between break it and
  the cursor's row decides where the next Up or Down scrolls.  `Shown` is the
  inductive invariant: the types, the cursor among the rows, and `current_y` its row.
  What is proved of the parts of a command is weaker: `Typed`, and `Ready`, that a drawing of everything is asked
  for or the cursor is still in a row.  `FinishShows` makes a Ready window Shown, and there is a lemma for each command that it
  leaves a Ready one; the step that needs an argument is `ReadyUp`, which scrolls without
  asking for a drawing and must scroll by no more than the window's rows.
* `WordsAreFound`: `WordByWord`, with `NextStopIs`, `BeforeWordIs` and `WordStartIs` saying where the loops of
  `do_next_word` and `do_prev_word` stop, and `LeastIn` and `GreatestIn`, that what they look for exists, from the
  well-foundedness of the natural numbers.
* `ScreenIsDrawn`: `ScreenShowsText`, with the invariant `Shown(w) /\ Fresh(w)`: every row is what
  `Drawn` makes of its line, so that the partly drawn screen is the wholly drawn one.  A command
  leaves a `Clean` window: `refresh` is set and `FinishFresh` has all drawn, or it is Fresh already.
  The work is in the rows a command does not draw, which must not have changed: a line keeps its
  drawing when both cursors are on the same side of it (`BesideDrawn`), or when there is no mark and
  its page is the same (`OwnLineDrawn`).  What `need_screen_update` asks about is the page of the
  column wanted, not that of the cursor; `PagesInOrder`, that `get_page_start` is monotone, makes the
  one decide the other (`CursorOnFirst`, `LinePage`).  `ScrollUpClean` shows that `edit_scroll` draws
  at least the rows that come in, and that the others are moved by as many rows as the text;
  `CleanMark`, that setting the mark, which draws nothing, changes nothing.  `BetweenIs` turns the
  columns `edit_draw` computes into what lies between mark and cursor.

Model-checked only: `UndoHistory` for lines that wrap, and `ThereAndBack` for cuts of whole lines and with a magicline;
`AllReplaced`, since which of the occurrences are left depends on the whole course of a job; and
liveness (`WritesEnd`, `SearchEnds`), which is out of the prover's reach.

## 6. Not modelled, and why

* **Positions of the cursor from one session to the next** (files.cpp:2649): kept by name, in a file that
  two pinots overwrite; names with blanks are read back wrongly.  There is no rule in the
  code to check beyond that.
* **The browser**: a reading showed that `findnextfile` returns without restoring the flags it unset, that `selected` stays an index
  of the old list when the previous directory is not in the new one, that the key "Go to Directory" is put back and then
  overwritten, and two NULL pointers that become strings (browser.cpp:589, `do_browse_from`).
* **Paragraphs and justifying**: they cut and paste the text behind the undo stack; planned.
* **Spellers, linters, formatters**: parsing of what programs print.  Of the internal speller the corrections
  are in `Search`.
* **Suspending, the terminal's keys, verbatim input, and the yes-no prompt's keys.**
* **Multibyte characters, soft wrapping, colours, the title and status bars, help, the rc file**: data
  and display, not control; flags that the rc file sets are constants of the modules.
* **Automatic indenting**, and `INSECURE_BACKUP`.
