------------------------------- MODULE WriteFile -------------------------------
(***************************************************************************)
(* Writing a buffer to a file (files.cpp: do_writeout, write_marked_file,  *)
(* write_file, copy_file, prompt_failed_backupwrite), call by call, with   *)
(* calls that fail, other programs that write the same files, and the      *)
(* signals that end pinot or throw it back into its main loop (pinot.cpp:  *)
(* handle_hupterm, die, handle_sigwinch).                                  *)
(*                                                                         *)
(* The text of version v, which an edit makes of version v - 1, is two     *)
(* lines; the mark, when it is set, covers the second.  Files are known by *)
(* their names; names with "~" are backups, "temp" is what safe_tempfile   *)
(* makes and names with "save" are what die writes.                        *)
(***************************************************************************)
EXTENDS Integers, Sequences

CONSTANTS
  FlagSets,   \* the sets of flags pinot may be started with
  Failures,   \* which calls may fail
  Signals,    \* which signals may come, of "HUP" and "WINCH"
  Shielded,   \* the places where signals do not come
  Avoided,    \* what does not happen, of
              \*   "same second": two writes within one second of the clock
              \*   "own selection": what is marked written over the buffer's file
              \*   "retry": what a failed save left appended to, or saved with the mark on
              \*   "unknown": the file of a buffer without a stat written by others
  MaxVersion, MaxTime,  \* bounds
  MaxTroubles \* how many calls fail, and how many times SIGWINCH interrupts

ASSUME WriteFileAssumption ==
  /\ \A fs \in FlagSets : fs \subseteq {"BACKUP_FILE", "TEMP_FILE", "NOFOLLOW_SYMLINKS"}
  /\ Failures \subseteq {"open", "write", "close", "unlink", "chmod", "utime", "temp", "rest"}
  /\ Signals \subseteq {"HUP", "WINCH"}
  /\ Avoided \subseteq {"same second", "own selection", "retry", "unknown"}
  /\ MaxVersion \in Nat /\ MaxTime \in Nat /\ MaxTroubles \in Nat

VARIABLES
  disk,      \* the files that exist: their data and st_mtime
  now,       \* the clock, in seconds
  flags,     \* the flags that are set
  name,      \* openfile->filename, or NoName
  stat,      \* openfile->current_stat: the file and its st_mtime, NoStat or AnyStat
  ver,       \* the version of the text
  modified,  \* openfile->modified
  mark,      \* openfile->mark_set
  text,      \* what the buffer's lines are: see Texts
  filepart,  \* whether filepart is set
  pc,        \* where pinot is
  w,         \* the arguments and variables of do_writeout and write_file
  answered,  \* the static variables of prompt_failed_backupwrite
  winch,     \* whether SIGWINCH is unblocked
  troubles,  \* how many calls failed and how many signals interrupted so far
  unsaved,   \* history: the text is in no file that was written over with it
  kept,      \* history: what was in the buffer's own file when it was last whole
  risked     \* history: whether somebody chose that kept may be lost

vars == <<disk, now, flags, name, stat, ver, modified, mark, text, filepart, pc,
          w, answered, winch, troubles, unsaved, kept, risked>>

buffer == <<name, stat, ver, modified, mark, unsaved, kept>>
parts  == <<text, filepart>>
calm   == <<now, flags, winch>>
rest   == <<calm, troubles>>

NoName  == ""
NoStat  == <<"", 0>>
AnyStat == <<"?", 0>>      \* memory from new, not initialized
Targets == {"own", "other"}
SaveNames == <<"save", "save.1">>
Foreign == -1              \* the version of what another program writes

Text(v)    == <<<<v, 1>>, <<v, 2>>>>
Marked(v)  == <<<<v, 2>>>>
Versions   == {Foreign} \cup 0..MaxVersion

\* The lines are the "whole" text; a "part" of it, the marked lines, the others
\* being in the partition; the part with a "magicline"; or the whole text with
\* an "extra" newline in the middle, or what is left when text is "lost".
Texts == {"whole", "part", "magicline", "extra", "lost"}

\* What write_file finds from fileage on.
Lines == IF text = "whole" \/ text = "extra" THEN Text(ver) ELSE Marked(ver)

Exists(n)     == n \in DOMAIN disk
File(d)       == [data |-> d, time |-> now]
Written(n, d) == [m \in DOMAIN disk \cup {n} |-> IF m = n THEN File(d) ELSE disk[m]]
Removed(n)    == [m \in DOMAIN disk \ {n} |-> disk[m]]
\* d is somewhere in the data of a file.
Holds(data, d) ==
    \E i \in 0..(Len(data) - Len(d)) : SubSeq(data, i + 1, i + Len(d)) = d
OnDisk(d) == \E n \in DOMAIN disk : Holds(disk[n].data, d)
BackupOf(n)   == IF n = "own" THEN "own~" ELSE "other~"
Names         == Targets \cup {BackupOf(n) : n \in Targets} \cup {"temp"}
                         \cup {SaveNames[i] : i \in 1..Len(SaveNames)}

Main     == {"main", "exited", "aborted"}
Asking   == {"prompt", "confirm", "askbackup"}
BackupPc == {"backup", "bunlink", "bcreate", "bchmod", "bcopy", "butime"}
WritePc  == BackupPc \cup {"stat", "prepare", "save", "open", "write", "rest", "close"}
MarkPc   == {"partition", "filepart", "magicline", "unmagic", "unpartition",
             "unfilepart", "remodify"}
Pc       == Main \cup Asking \cup WritePc \cup MarkPc

\* The types, and that the text is in parts only while they are written.
TypeOK ==
    /\ DOMAIN disk \subseteq Names
    /\ now \in 0..MaxTime
    /\ name \in Targets \cup {NoName}
    /\ ver \in 0..MaxVersion
    /\ modified \in BOOLEAN /\ mark \in BOOLEAN /\ filepart \in BOOLEAN
    /\ winch \in BOOLEAN /\ troubles \in 0..MaxTroubles /\ risked \in BOOLEAN
    /\ text \in Texts
    /\ pc \in Pc
    /\ filepart => /\ text \in {"part", "magicline", "whole", "extra"}
                   /\ pc \notin {"main", "prompt", "confirm"}

NoWrite == [target |-> NoName, append |-> "OVERWRITE", marked |-> FALSE,
            exiting |-> FALSE, auto |-> FALSE, tmp |-> FALSE, asked |-> FALSE,
            late |-> FALSE,   \* history: another program wrote the target since it was
                              \* decided whether to ask
            todo |-> <<>>, oldmod |-> FALSE, ok |-> FALSE]

\* pinot was started with a file, or without a name where there is a file.
Init ==
    /\ now = 0 /\ ver = 0 /\ modified = FALSE /\ mark = FALSE
    /\ flags \in FlagSets
    /\ name \in {"own", NoName}
    /\ disk = [m \in {"own"} |->
                  [data |-> Text(IF name = "own" THEN 0 ELSE Foreign), time |-> 0]]
    /\ stat = IF name = "own" THEN <<"own", 0>> ELSE NoStat
    /\ text = "whole" /\ filepart = FALSE
    /\ pc = "main" /\ w = NoWrite
    /\ answered = <<NoName, FALSE>>
    /\ winch = FALSE /\ troubles = 0 /\ risked = FALSE /\ unsaved = FALSE
    /\ kept = disk["own"].data

-----------------------------------------------------------------------------
(* The user, while pinot waits for a key, and other programs, at any time. *)

Edit ==
    /\ pc = "main" /\ ver < MaxVersion
    /\ ver' = ver + 1 /\ modified' = TRUE /\ unsaved' = TRUE
    /\ UNCHANGED <<disk, name, stat, mark, kept, parts, pc, w, answered, risked, rest>>

DoMark ==
    /\ pc = "main"
    /\ mark' = ~mark
    /\ UNCHANGED <<disk, name, stat, ver, modified, unsaved, kept, parts, pc, w, answered, risked, rest>>

\* do_formatter and do_alt_speller end with allow_pending_sigwinch(true).
Speller ==
    /\ pc = "main" /\ "WINCH" \in Signals /\ ~winch /\ troubles < MaxTroubles
    /\ winch' = TRUE
    /\ UNCHANGED <<disk, now, flags, troubles, buffer, parts, pc, w, answered, risked>>

\* Appending, and anything with the mark on, makes a backup of the file whatever
\* it has become.
Renews(n, append) ==
    /\ append # "OVERWRITE" \/ mark
    /\ n = "own" /\ Exists(n) /\ ~Holds(disk[n].data, kept)

Tick == now' = now + 1 \/ ("same second" \notin Avoided /\ now' = now)

\* Another program writes one of the files, in the middle of a save too, but not the one
\* that pinot is writing, between its open and its close.
OtherProgram(n) ==
    /\ pc \notin {"exited", "aborted"}
    /\ pc \in {"write", "rest", "close"} => n # w.target
    /\ now < MaxTime
    /\ n = name /\ stat = NoStat => "unknown" \notin Avoided
    /\ Tick
    /\ disk' = [Written(n, Text(Foreign)) EXCEPT ![n].time = now']
    /\ w' = [w EXCEPT !.late = @ \/ (n = w.target /\ pc \notin {"main", "prompt", "confirm"})]
    /\ risked' = (risked \/ n = "own")
    /\ UNCHANGED <<flags, buffer, parts, pc, answered, winch, troubles>>

-----------------------------------------------------------------------------
(* do_writeout.                                                            *)

\* current_stat is not of the file as it is now: older, or another file.
Outdated(n) == stat[1] # n \/ stat[2] < disk[n].time

\* n is the buffer's own file, and it will be written over without a backup of what
\* is kept in it: it has another name now, or is not the file that was read.
Overrules(n) ==
    n = "own" /\ (name # n \/ (Outdated(n) /\ Holds(disk[n].data, kept)))

\* With TEMP_FILE, at exit, the file is written without a question first.
DoWriteout(exiting) ==
    /\ pc = "main" /\ now < MaxTime
    /\ exiting => modified
    /\ Tick
    /\ w' = [NoWrite EXCEPT !.exiting = exiting,
                            !.auto = exiting /\ name # NoName /\ "TEMP_FILE" \in flags,
                            !.target = name,
                            !.marked = ~exiting /\ mark]
    /\ pc' = IF w'.auto THEN "stat" ELSE "prompt"
    /\ w'.auto /\ Renews(name, "OVERWRITE") => "retry" \notin Avoided
    /\ risked' = (risked \/ (w'.auto /\ Overrules(name)))
    /\ UNCHANGED <<disk, flags, buffer, parts, answered, winch, troubles>>

Cancel ==
    /\ pc = "prompt"
    /\ pc' = "main" /\ w' = NoWrite
    /\ UNCHANGED <<disk, buffer, parts, answered, risked, rest>>

\* prepend_void and append_void.
ToggleAppend(how) ==
    /\ pc = "prompt"
    /\ w' = [w EXCEPT !.append = IF @ = how THEN "OVERWRITE" ELSE how]
    /\ UNCHANGED <<disk, buffer, parts, pc, answered, risked, rest>>

AskForSlip(n) ==   \* only whether the name is another is asked
    IF w.append = "OVERWRITE" /\ name # n THEN {TRUE} ELSE {FALSE}

\* Whether there is a question before n is written: its name is another one, or
\* it was modified since it was read.
AskFor(n) ==
    IF w.append # "OVERWRITE" THEN {FALSE}
    ELSE IF name = NoName THEN {Exists(n)}
    ELSE IF name # n THEN {Exists(n) \/ w.exiting \/ ~mark}
    ELSE IF ~Exists(n) \/ stat = NoStat THEN {FALSE}
    ELSE IF stat = AnyStat THEN BOOLEAN
    ELSE {Outdated(n)}

EnterName(n) ==
    /\ pc = "prompt"
    /\ Renews(n, w.append) => "retry" \notin Avoided
    /\ w.marked /\ "own selection" \in Avoided => n # name
    /\ w' = [w EXCEPT !.target = n, !.auto = FALSE, !.asked = FALSE, !.late = FALSE]
    /\ \E ask \in AskFor(n) :
         pc' = IF ask THEN "confirm" ELSE IF w.marked THEN "partition" ELSE "stat"
    /\ UNCHANGED <<disk, buffer, parts, answered, risked, rest>>

Confirm(yes) ==
    /\ pc = "confirm"
    /\ w' = [w EXCEPT !.asked = yes]
    /\ pc' = IF ~yes THEN "prompt" ELSE IF w.marked THEN "partition" ELSE "stat"
    /\ risked' = (risked \/ (yes /\ Overrules(w.target)))
    /\ UNCHANGED <<disk, buffer, parts, answered, rest>>

-----------------------------------------------------------------------------
(* write_file: where it returns to, and the two ways a call can go.        *)

ReturnPc(ok) ==
    IF w.tmp THEN "exited"
    ELSE IF w.marked THEN "unmagic"
    ELSE IF w.exiting /\ ok THEN "exited"
    ELSE IF w.auto THEN "prompt"
    ELSE "main"

Return(ok) ==
    /\ pc' = ReturnPc(ok)
    /\ w' = IF pc' \in {"main", "exited"} THEN [NoWrite EXCEPT !.ok = ok, !.tmp = w.tmp]
                                         ELSE [w EXCEPT !.ok = ok]

Trouble == troubles < MaxTroubles /\ troubles' = troubles + 1

\* A call of this kind fails.
Fault(kind) == kind \in Failures /\ Trouble

\* A call of this kind fails, and write_file gives up.
Fails(kind) ==
    /\ Fault(kind)
    /\ Return(FALSE)
    /\ UNCHANGED <<disk, buffer, parts, answered, risked, calm>>

GoOn(where) == pc' = where /\ UNCHANGED <<buffer, parts, answered, calm>>
Go(where)   == GoOn(where) /\ UNCHANGED troubles

AfterBackup == IF w.append = "PREPEND" THEN "prepare" ELSE "open"

\* Any file that is written over is backed up, unless somebody else wrote it.
NeedsBackup ==
    IF "BACKUP_FILE" \notin flags \/ w.tmp \/ ~Exists(w.target) THEN {FALSE}
    ELSE IF w.append # "OVERWRITE" \/ mark THEN {TRUE}
    ELSE IF stat' = AnyStat THEN BOOLEAN
    ELSE {stat'[2] = disk[w.target].time}

\* lstat and stat.  A file that is to be temporary must not exist.
StatFile ==
    /\ pc = "stat"
    /\ IF w.tmp /\ Exists(w.target)
       THEN /\ Return(FALSE)
            /\ UNCHANGED <<stat, risked>>
       ELSE /\ stat' = IF stat = NoStat /\ ~w.tmp /\ Exists(w.target)
                       THEN <<w.target, disk[w.target].time>> ELSE stat
            /\ \E b \in NeedsBackup :
                 /\ pc' = IF b THEN "backup" ELSE AfterBackup
                 /\ risked' = (risked \/ (stat = AnyStat /\ ~b))
            /\ UNCHANGED w
    /\ UNCHANGED <<disk, name, ver, modified, mark, unsaved, kept, parts, answered, rest>>

\* "Cannot prepend or append to a symlink with --nofollow set", but for
\* overwriting as well: here "other" is a symbolic link.
RefuseSymlink ==
    /\ pc = "stat" /\ w.target = "other" /\ Exists("other")
    /\ "NOFOLLOW_SYMLINKS" \in flags
    /\ Return(FALSE)
    /\ UNCHANGED <<disk, buffer, parts, answered, risked, rest>>

-----------------------------------------------------------------------------
(* The backup.                                                             *)

Backup == BackupOf(w.target)

\* fopen of the original; without it, go on.
OpenOriginal ==
    /\ pc = "backup"
    /\ \/ Go("bunlink") /\ UNCHANGED risked
       \/ Fault("open") /\ GoOn(AfterBackup) /\ risked' = TRUE
    /\ UNCHANGED <<disk, w>>

\* prompt_failed_backupwrite is asked whenever a call on the backup fails.
AskBackup(kind) ==
    /\ Fault(kind)
    /\ GoOn("askbackup")
    /\ UNCHANGED <<disk, w, risked>>

UnlinkBackup ==
    /\ pc = "bunlink"
    /\ \/ Go("bcreate") /\ disk' = Removed(Backup) /\ UNCHANGED <<w, risked>>
       \/ Exists(Backup) /\ AskBackup("unlink")

\* O_EXCL.
CreateBackup ==
    /\ pc = "bcreate"
    /\ \/ /\ Go("bchmod")
          /\ disk' = Written(Backup, <<>>)
          /\ UNCHANGED <<w, risked>>
       \/ Fails("open")

\* fchown and fchmod, and what copy_file reads of the original.
ChmodBackup ==
    /\ pc = "bchmod"
    /\ \/ /\ Go("bcopy")
          /\ w' = [w EXCEPT !.todo = disk[w.target].data]
          /\ UNCHANGED <<disk, risked>>
       \/ AskBackup("chmod")

CopyBackupSlip ==   \* what is copied is not looked at
    /\ pc = "bcopy"
    /\ Go("butime") /\ UNCHANGED <<disk, w, risked>>

\* copy_file, piece by piece; with no piece left, it closes the backup.
CopyBackup ==
    /\ pc = "bcopy"
    /\ \/ /\ w.todo # <<>>
          /\ disk' = Written(Backup, Append(disk[Backup].data, Head(w.todo)))
          /\ w' = [w EXCEPT !.todo = Tail(@)]
          /\ Go(pc)
          /\ UNCHANGED risked
       \/ w.todo = <<>> /\ Go("butime") /\ UNCHANGED <<disk, w, risked>>
       \/ Fails("write")

UtimeBackupSlip ==   \* when it fails, the backup is made again
    /\ pc = "butime"
    /\ \/ Go(AfterBackup) /\ UNCHANGED <<disk, w, risked>>
       \/ Go("bcreate") /\ UNCHANGED <<disk, w, risked>>

UtimeBackup ==
    /\ pc = "butime"
    /\ \/ Go(AfterBackup) /\ UNCHANGED <<disk, w, risked>>
       \/ AskBackup("utime")

\* The question is asked once for the name of a backup, whatever failed; the
\* answer "Cancel" is -1, and so is not "No".
FailedBackup(answer) ==
    /\ pc = "askbackup"
    /\ LET again == answered[1] = Backup
           goon  == IF again THEN answered[2] ELSE answer # "no"
       IN  /\ again => answer = "no"   \* no user is asked
           /\ answered' = <<Backup, goon>>
           /\ IF goon THEN pc' = AfterBackup /\ UNCHANGED w ELSE Return(FALSE)
           /\ risked' = (risked \/ goon)
    /\ UNCHANGED <<disk, buffer, parts, rest>>

-----------------------------------------------------------------------------
(* Prepending: what is in the file is saved to a temporary one first.      *)

\* Opening the file, making the temporary one, opening the file again.  When
\* the second open fails, copy_file is called with NULL and its assertion fails.
PrepareTemp ==
    /\ pc = "prepare"
    /\ \/ /\ Exists(w.target)
          /\ Go("save")
          /\ disk' = Written("temp", <<>>)
          /\ w' = [w EXCEPT !.todo = disk[w.target].data]
          /\ UNCHANGED risked
       \/ /\ ~Exists(w.target)
          /\ Return(FALSE)
          /\ UNCHANGED <<disk, buffer, parts, answered, risked, rest>>
       \/ Fails("open") \/ Fails("temp")
       \/ /\ Fault("open")
          /\ disk' = Written("temp", <<>>)
          /\ GoOn("aborted")
          /\ UNCHANGED <<w, risked>>

SaveOld ==
    /\ pc = "save"
    /\ \/ /\ w.todo # <<>>
          /\ disk' = Written("temp", Append(disk["temp"].data, Head(w.todo)))
          /\ w' = [w EXCEPT !.todo = Tail(@)]
          /\ Go(pc)
          /\ UNCHANGED risked
       \/ w.todo = <<>> /\ Go("open") /\ UNCHANGED <<disk, w, risked>>
       \/ /\ Fault("write")
          /\ disk' = Removed("temp")
          /\ Return(FALSE)
          /\ UNCHANGED <<buffer, parts, answered, risked, calm>>

-----------------------------------------------------------------------------
(* The file itself.                                                        *)

\* O_APPEND, O_EXCL or O_TRUNC; fdopen may fail when the file is truncated.
OpenFile ==
    /\ pc = "open"
    /\ LET old  == IF Exists(w.target) THEN disk[w.target].data ELSE <<>>
           data == IF w.append = "APPEND" THEN old ELSE <<>>
       IN  \/ /\ w.tmp => ~Exists(w.target)
              /\ disk' = Written(w.target, data)
              /\ w' = [w EXCEPT !.todo = Lines]
              /\ Go("write")
              /\ UNCHANGED risked
           \/ /\ Fault("temp")
              /\ disk' = Written(w.target, data)
              /\ Return(FALSE)
              /\ UNCHANGED <<buffer, parts, answered, risked, calm>>

\* open fails: the temporary file is not needed.
CannotOpen ==
    /\ pc = "open" /\ Fault("open")
    /\ disk' = IF w.append = "PREPEND" THEN Removed("temp") ELSE disk
    /\ Return(FALSE)
    /\ UNCHANGED <<buffer, parts, answered, risked, calm>>

WriteLineSlip ==   \* a line that cannot be written is passed over
    /\ pc = "write"
    /\ IF w.todo = <<>>
       THEN Go("close") /\ UNCHANGED <<disk, w>>
       ELSE /\ \/ disk' = Written(w.target, Append(disk[w.target].data, Head(w.todo))) /\ Go(pc)
               \/ Fault("write") /\ UNCHANGED disk /\ GoOn(pc)
            /\ w' = [w EXCEPT !.todo = Tail(@)]
    /\ UNCHANGED risked

\* fwrite and putc of one line.
WriteLine ==
    /\ pc = "write"
    /\ \/ /\ w.todo # <<>>
          /\ disk' = Written(w.target, Append(disk[w.target].data, Head(w.todo)))
          /\ w' = [w EXCEPT !.todo = Tail(@)]
          /\ Go(pc)
          /\ UNCHANGED risked
       \/ /\ w.todo = <<>>
          /\ w' = [w EXCEPT !.todo = IF w.append = "PREPEND" THEN disk["temp"].data ELSE <<>>]
          /\ Go(IF w.append = "PREPEND" THEN "rest" ELSE "close")
          /\ UNCHANGED <<disk, risked>>
       \/ Fails("write")

\* The rest of a file that was prepended to comes from the temporary file, which
\* is then deleted.  A read error of copy_file is -1; a write error is -2, which
\* write_file takes for success.
CopyRest ==
    /\ pc = "rest"
    /\ \/ /\ w.todo # <<>>
          /\ disk' = Written(w.target, Append(disk[w.target].data, Head(w.todo)))
          /\ w' = [w EXCEPT !.todo = Tail(@)]
          /\ Go(pc)
          /\ UNCHANGED risked
       \/ /\ (w.todo = <<>> /\ UNCHANGED troubles) \/ Fault("rest")
          /\ disk' = Removed("temp")
          /\ Return(TRUE)
          /\ UNCHANGED <<buffer, parts, answered, risked, calm>>
       \/ Fails("open") \/ Fails("unlink")

\* fclose, and what follows when an overwriting has succeeded.  What fclose
\* fails to write is missing at the end of the file.
CloseFile ==
    /\ pc = "close"
    /\ IF w.tmp \/ w.append # "OVERWRITE"
       THEN UNCHANGED <<name, stat, modified>>
       ELSE /\ name' = IF w.marked THEN name ELSE w.target
            /\ stat' = IF ~mark THEN <<w.target, disk[w.target].time>>
                       ELSE IF stat = NoStat THEN AnyStat ELSE stat
            /\ modified' = FALSE
    /\ unsaved' = (unsaved /\ (w.marked \/ w.tmp \/ w.append # "OVERWRITE"))
    /\ LET whole == w.target = "own" /\ w.append = "OVERWRITE" /\ ~w.marked
       IN  /\ risked' = (risked /\ ~whole)
           /\ kept' = IF whole THEN disk["own"].data ELSE kept
    /\ Return(TRUE)
    /\ UNCHANGED <<disk, ver, mark, parts, answered, rest>>

CannotClose ==
    /\ pc = "close" /\ Fault("close")
    /\ LET d == disk[w.target].data
       IN  disk' = Written(w.target, SubSeq(d, 1, Len(d) - 1))
    /\ Return(FALSE)
    /\ UNCHANGED <<buffer, parts, answered, risked, calm>>

-----------------------------------------------------------------------------
(* write_marked_file: around write_file, the text is partitioned.          *)

MarkedStep(from, to, t, part) ==
    /\ pc = from /\ pc' = to
    /\ text' = t /\ filepart' = part

\* partition_filestruct returns the partition, which is then assigned.
PartitionMarked ==
    /\ \/ MarkedStep("partition", "filepart", "part", filepart)
       \/ MarkedStep("filepart", "magicline", text, TRUE)
       \/ MarkedStep("magicline", "stat", "magicline", filepart)
    /\ w' = [w EXCEPT !.oldmod = modified]
    /\ UNCHANGED <<disk, buffer, answered, risked, rest>>

UnpartitionMarkedSlip ==   \* filepart is not set to NULL
    /\ \/ MarkedStep("unmagic", "unpartition", "part", filepart)
       \/ MarkedStep("unpartition", "unfilepart", "whole", filepart)
       \/ MarkedStep("unfilepart", "remodify", text, filepart)
    /\ UNCHANGED <<disk, buffer, w, answered, risked, rest>>

\* unpartition_filestruct sets filepart to NULL at its end.
UnpartitionMarked ==
    /\ \/ MarkedStep("unmagic", "unpartition", "part", filepart)
       \/ MarkedStep("unpartition", "unfilepart", "whole", filepart)
       \/ MarkedStep("unfilepart", "remodify", text, FALSE)
    /\ UNCHANGED <<disk, buffer, w, answered, risked, rest>>

\* set_modified, when the buffer was modified before write_file unset it.
Remodify ==
    /\ pc = "remodify"
    /\ pc' = "main" /\ w' = NoWrite
    /\ modified' = (modified \/ w.oldmod)
    /\ UNCHANGED <<disk, name, stat, ver, mark, unsaved, kept, parts, answered, risked, rest>>

-----------------------------------------------------------------------------
(* Signals.                                                                *)

\* What unpartition_filestruct makes of the text.
Unpartitioned == IF text = "magicline" THEN "extra" ELSE IF text = "part" THEN "whole" ELSE "lost"

FreeSaves == {i \in 1..Len(SaveNames) : ~Exists(SaveNames[i])}

HangUpSlip ==   \* the text is written as it is
    /\ "HUP" \in Signals /\ pc \notin Main \cup Shielded /\ ~w.tmp
    /\ IF modified /\ FreeSaves # {}
       THEN /\ w' = [NoWrite EXCEPT !.tmp = TRUE, !.target = SaveNames[1]]
            /\ pc' = "stat"
       ELSE pc' = "exited" /\ UNCHANGED w
    /\ UNCHANGED <<disk, parts, buffer, answered, risked, rest>>

\* handle_hupterm: die unpartitions the text and saves it under the first name
\* that is free (get_next_filename).
HangUp ==
    /\ "HUP" \in Signals /\ pc \notin {"exited", "aborted"} \cup Shielded /\ ~w.tmp
    /\ text' = IF modified /\ filepart THEN Unpartitioned ELSE text
    /\ filepart' = (filepart /\ ~modified)
    /\ IF modified /\ FreeSaves # {}
       THEN /\ w' = [NoWrite EXCEPT !.tmp = TRUE,
                       !.target = SaveNames[CHOOSE i \in FreeSaves : \A j \in FreeSaves : i <= j]]
            /\ pc' = "stat"
       ELSE pc' = "exited" /\ UNCHANGED w
    /\ UNCHANGED <<disk, buffer, answered, risked, rest>>

\* handle_sigwinch unpartitions the text and jumps to the main loop, where the
\* signal mask is that of sigsetjmp: SIGWINCH is blocked again.
Resize ==
    /\ winch /\ pc \notin {"exited", "aborted"} \cup Shielded
    /\ text' = IF filepart THEN Unpartitioned ELSE text
    /\ filepart' = FALSE
    /\ pc' = "main" /\ w' = NoWrite
    /\ winch' = FALSE /\ Trouble
    /\ UNCHANGED <<disk, now, flags, buffer, answered, risked>>

-----------------------------------------------------------------------------
\* What pinot does by itself, once a name is entered.
WriteStep ==
    \/ RefuseSymlink \/ StatFile
    \/ OpenOriginal \/ UnlinkBackup \/ CreateBackup \/ ChmodBackup \/ CopyBackup \/ UtimeBackup
    \/ PrepareTemp \/ SaveOld
    \/ OpenFile \/ CannotOpen \/ WriteLine \/ CopyRest \/ CloseFile \/ CannotClose
    \/ PartitionMarked \/ UnpartitionMarked \/ Remodify

UserStep ==
    \/ Edit \/ DoMark \/ Speller \/ \E n \in Targets : OtherProgram(n)
    \/ \E e \in BOOLEAN : DoWriteout(e)
    \/ Cancel \/ \E how \in {"PREPEND", "APPEND"} : ToggleAppend(how)
    \/ \E n \in Targets : EnterName(n)
    \/ \E yes \in BOOLEAN : Confirm(yes)
    \/ \E a \in {"yes", "no", "cancel"} : FailedBackup(a)

Next == WriteStep \/ UserStep \/ HangUp \/ Resize

Spec == Init /\ [][Next]_vars

\* pinot runs on while no key and no signal is awaited.
FairSpec == Spec /\ WF_vars(WriteStep)

-----------------------------------------------------------------------------
(* Properties.                                                             *)

\* With BACKUP_FILE, whatever fails and wherever pinot stops, what was in the
\* buffer's file is in it or in a backup, until it holds all of the new text
\* (write_file: "we could lose both the backup and the original").
OldOrNew ==
    "BACKUP_FILE" \in flags /\ ~risked => OnDisk(kept)

\* When pinot ends, by a hangup at any moment or because it was told to save and
\* exit, the text is in a file, unless writing the emergency file failed
\* (die: "Save the current file buffer if it's been modified").
HangupSaves ==
    pc = "exited" /\ unsaved =>
        \/ OnDisk(Text(ver))
        \/ w.tmp /\ ~w.ok
        \/ FreeSaves = {}

\* Back in the main loop, the text is the one the user had
\* (handle_sigwinch: "If we've partitioned the filestruct, unpartition it now").  With nothing shielded from
\* SIGWINCH this does not hold, and no run checks it: see the README.
TextKept ==
    pc = "main" => text = "whole"

\* write_file clears the modified flag only when all of the text, or all of what
\* is marked, is in the file it was told to write.
ClearedWhenSaved ==
    [][modified /\ ~modified' => disk'[w.target].data = Lines]_vars

\* What another program had written when do_writeout decided whether to ask ("File was
\* modified since you opened it, continue saving ? ") goes only when the user was asked,
\* unless there are to be no questions (TEMP_FILE at exit) or all of it is in the
\* temporary file that is put behind what is written.  What comes later, before the file
\* is opened, goes unasked: no code looks again.
Lost(n)     == Exists(n) /\ disk[n].data = Text(Foreign) /\ disk'[n].data = <<>>
SetAside(n) == w.append = "PREPEND" /\ Exists("temp") /\ disk["temp"].data = disk[n].data
AskedFirst ==
    [][\A n \in Targets : Lost(n) => w.asked \/ w.auto \/ w.late \/ SetAside(n)]_vars

\* However a write goes, it comes to an end, and no signal leaves pinot in it.
WritesEnd ==
    pc \in WritePc \cup MarkPc ~> pc \in Main \cup Asking
===============================================================================
