------------------------------- MODULE OpenFiles -------------------------------
(***************************************************************************)
(* The list of open files of one pinot: opening, switching, saving and     *)
(* closing buffers, the lock files they hold, and what becomes of unsaved  *)
(* changes (files.cpp: make_new_buffer, open_buffer, close_buffer,         *)
(* do_writeout; winio.cpp: set_modified; pinot.cpp: main, do_exit, die).   *)
(*                                                                         *)
(* LockFile has the races of several pinots over one lock file; here other *)
(* processes only hold locks, and each lock function is one step.          *)
(***************************************************************************)
EXTENDS Integers, Sequences, SequencesExt

CONSTANTS
  Names,        \* the names of files
  CommandLines, \* the files pinot may be started with, in order
  Locking,      \* the LOCKING flag
  Multibuffer,  \* the MULTIBUFFER flag
  SavesAs,      \* whether users save buffers under other names
  OpensTwice,   \* whether users open a file that this pinot has locked already
  MaxBuffers    \* bound on the number of buffers that are ever opened

NoName == "none"   \* the name, and the lock file, of a buffer that has none

ASSUME OpenFilesAssumption ==
  /\ NoName \notin Names
  /\ CommandLines \subseteq Seq(Names)
  /\ Locking \in BOOLEAN /\ Multibuffer \in BOOLEAN
  /\ SavesAs \in BOOLEAN /\ OpensTwice \in BOOLEAN
  /\ MaxBuffers \in Nat

VARIABLES
  openfiles,  \* the buffers, in the order of the list
  openfile,   \* the position of the current one; 0 before there is any
  locks,      \* whose lock file each file has
  arguments,  \* the command line's files still to be opened
  mode,       \* "starting", "running", "exited" or "died"
  opened,     \* how many buffers were ever opened: the next one's identity
  unsaved,    \* the buffers whose changes are in no file, and not given up
  rescued     \* what die saved: names, and the buffers whose text went there

vars == <<openfiles, openfile, locks, arguments, mode, opened, unsaved, rescued>>

Buffers == [id : Nat, filename : Names \cup {NoName},
            lock_filename : Names \cup {NoName}, modified : BOOLEAN]
Owners  == {"nobody", "us", "other"}
Garbage == 0      \* text that is read after it was freed

TypeOK ==
    /\ openfiles \in Seq(Buffers)
    /\ openfile \in 0..Len(openfiles)
    /\ openfile = 0 <=> openfiles = <<>>
    /\ locks \in [Names -> Owners]
    /\ arguments \in Seq(Names)
    /\ mode \in {"starting", "running", "exited", "died"}
    /\ opened \in Nat
    /\ unsaved \subseteq Nat
    /\ rescued \subseteq (Names \cup {NoName}) \X Nat

Current == openfiles[openfile]

\* main opens the files after the first one, and then the first.
Init ==
    /\ openfiles = <<>> /\ openfile = 0
    /\ locks \in [Names -> IF Locking THEN {"nobody", "other"} ELSE {"nobody"}]
    /\ \E files \in CommandLines :
         arguments = IF files = <<>> THEN <<>> ELSE Append(Tail(files), Head(files))
    /\ mode = "starting"
    /\ opened = 0 /\ unsaved = {} /\ rescued = {}

-----------------------------------------------------------------------------
(* Opening: open_buffer with a new buffer.                                 *)

\* A buffer that keeps its lock: open_file may still fail, as for a directory,
\* and leave the buffer without a name.
MakeNewBuffer(name, lock) ==
    \E filename \in {name, NoName} :
        /\ openfiles' = InsertAt(openfiles, openfile + 1,
                                 [id |-> opened + 1, filename |-> filename,
                                  lock_filename |-> lock, modified |-> FALSE])
        /\ openfile' = openfile + 1
        /\ opened' = opened + 1

\* do_lockfile makes the lock file: there is none, or the user overrides it.
OpenLocked(name) ==
    /\ Locking /\ name # NoName
    /\ locks[name] = "us" => OpensTwice
    /\ MakeNewBuffer(name, name)
    /\ locks' = [locks EXCEPT ![name] = "us"]

\* Without locking, or when the lock file cannot be made: the file is opened.
OpenUnlocked(name) ==
    /\ Locking /\ name # NoName => locks[name] = "nobody"
    /\ MakeNewBuffer(name, NoName)
    /\ UNCHANGED locks

\* The user refuses to override the lock, and there is no other buffer.
OpenRefusedAlone(name) ==
    /\ Locking /\ name # NoName /\ locks[name] # "nobody" /\ openfiles = <<>>
    /\ MakeNewBuffer(name, NoName)
    /\ UNCHANGED locks

OpenRefusedSlip(name) ==   \* the buffer that is closed is not the new one
    /\ Locking /\ name # NoName /\ locks[name] # "nobody" /\ openfiles # <<>>
    /\ openfiles' = InsertAt(RemoveAt(openfiles, openfile), openfile,
                             [id |-> opened + 1, filename |-> NoName,
                              lock_filename |-> NoName, modified |-> FALSE])
    /\ opened' = opened + 1
    /\ UNCHANGED <<openfile, locks>>

\* The user refuses, and close_buffer closes the new buffer again: the current
\* one is then the one after it.
OpenRefused(name) ==
    /\ Locking /\ name # NoName /\ locks[name] # "nobody" /\ openfiles # <<>>
    /\ openfile' = IF openfile = Len(openfiles) THEN 1 ELSE openfile + 1
    /\ opened' = opened + 1
    /\ UNCHANGED <<openfiles, locks>>

OpenBuffer(name) ==
    /\ opened < MaxBuffers
    /\ OpenLocked(name) \/ OpenUnlocked(name) \/ OpenRefusedAlone(name) \/ OpenRefused(name)

\* main, before its loop; without arguments it opens a blank buffer.
Start ==
    /\ mode = "starting"
    /\ \/ /\ arguments # <<>>
          /\ OpenBuffer(Head(arguments))
          /\ arguments' = Tail(arguments)
          /\ UNCHANGED mode
       \/ /\ arguments = <<>> /\ openfiles = <<>>
          /\ OpenBuffer(NoName)
          /\ UNCHANGED <<arguments, mode>>
       \/ /\ arguments = <<>> /\ openfiles # <<>>
          /\ mode' = "running"
          /\ UNCHANGED <<openfiles, openfile, locks, arguments, opened>>
    /\ UNCHANGED <<unsaved, rescued>>

\* do_insertfile into a new buffer.
Open(name) ==
    /\ mode = "running" /\ Multibuffer
    /\ OpenBuffer(name)
    /\ UNCHANGED <<arguments, mode, unsaved, rescued>>

-----------------------------------------------------------------------------
(* Working with the open files.                                            *)

SwitchToNextBuffer ==
    /\ mode = "running"
    /\ openfile' = IF openfile = Len(openfiles) THEN 1 ELSE openfile + 1
    /\ UNCHANGED <<openfiles, locks, arguments, mode, opened, unsaved, rescued>>

SwitchToPrevBufferSlip ==   \* the beginning of the list is not asked for
    /\ mode = "running"
    /\ openfile' = openfile - 1
    /\ UNCHANGED <<openfiles, locks, arguments, mode, opened, unsaved, rescued>>

SwitchToPrevBuffer ==
    /\ mode = "running"
    /\ openfile' = IF openfile = 1 THEN Len(openfiles) ELSE openfile - 1
    /\ UNCHANGED <<openfiles, locks, arguments, mode, opened, unsaved, rescued>>

\* An edit, and its set_modified: the first one writes the lock file again.
Modify ==
    /\ mode = "running"
    /\ openfiles' = [openfiles EXCEPT ![openfile].modified = TRUE]
    /\ locks' = IF Locking /\ ~Current.modified /\ Current.filename # NoName
                   /\ Current.lock_filename # NoName
                THEN [locks EXCEPT ![Current.lock_filename] = "us"] ELSE locks
    /\ unsaved' = unsaved \cup {Current.id}
    /\ UNCHANGED <<openfile, arguments, mode, opened, rescued>>

\* The buffer as do_writeout leaves it when it succeeds: written over a file,
\* whose name it takes, or appended or prepended to one.  The lock file stays that
\* of the old name.
Overwritten(name) == [Current EXCEPT !.filename = name, !.modified = FALSE]
SavedBuffers ==
    {Current} \cup
    {Overwritten(name) : name \in IF SavesAs \/ Current.filename = NoName
                                  THEN Names ELSE {Current.filename}}

Writeout ==
    /\ mode = "running"
    /\ \E saved \in SavedBuffers : openfiles' = [openfiles EXCEPT ![openfile] = saved]
    /\ unsaved' = unsaved \ {Current.id}
    /\ UNCHANGED <<openfile, locks, arguments, mode, opened, rescued>>

-----------------------------------------------------------------------------
(* Closing a buffer, and the ends of pinot.                                *)

DeleteLockSlip ==   \* the lock of the name, not the one that was made
    locks' = IF Locking /\ Current.filename # NoName
             THEN [locks EXCEPT ![Current.filename] = "nobody"] ELSE locks
DeleteLockAtEnd ==  \* a slip: only with the last buffer
    locks' = IF Locking /\ Current.lock_filename # NoName /\ Len(openfiles) = 1
             THEN [locks EXCEPT ![Current.lock_filename] = "nobody"] ELSE locks

DeleteLock ==
    locks' = IF Locking /\ Current.lock_filename # NoName
             THEN [locks EXCEPT ![Current.lock_filename] = "nobody"] ELSE locks

CloseBufferSlip ==   \* the buffer before it is current then
    IF Len(openfiles) = 1
    THEN mode' = "exited" /\ UNCHANGED <<openfiles, openfile>>
    ELSE /\ openfiles' = RemoveAt(openfiles, openfile)
         /\ openfile' = IF openfile = 1 THEN Len(openfiles) - 1 ELSE openfile - 1
         /\ UNCHANGED mode

\* close_buffer, or finish when the buffer is the last one.
CloseBuffer ==
    IF Len(openfiles) = 1
    THEN mode' = "exited" /\ UNCHANGED <<openfiles, openfile>>
    ELSE /\ openfiles' = RemoveAt(openfiles, openfile)
         /\ openfile' = IF openfile = Len(openfiles) THEN 1 ELSE openfile
         /\ UNCHANGED mode

\* The buffer is not modified, or its changes are saved, or the user says that
\* they may go; when the save fails or the user cancels, nothing happens.
DoExit ==
    /\ mode = "running"
    /\ DeleteLock
    /\ CloseBuffer
    /\ unsaved' = IF Current.modified THEN unsaved \ {Current.id} ELSE unsaved
    /\ UNCHANGED <<arguments, opened, rescued>>

\* What die saves of buffer i.  write_file always takes the text of the current
\* buffer; the loop's copy of that buffer frees it when it is done with it.
EmergencySave(i) ==
    {openfiles[i].filename} \X ({Current.id} \cup IF i > openfile THEN {Garbage} ELSE {})

\* die, on SIGHUP, SIGTERM or an error: no lock file is deleted.
Die ==
    /\ mode \in {"starting", "running"} /\ openfiles # <<>>
    /\ mode' = "died"
    /\ LET modified == {i \in DOMAIN openfiles : openfiles[i].modified}
       IN  \E save \in [modified -> UNION {EmergencySave(i) : i \in modified}] :
             /\ \A i \in modified : save[i] \in EmergencySave(i)
             /\ rescued' = {save[i] : i \in modified}
    /\ UNCHANGED <<openfiles, openfile, locks, arguments, opened, unsaved>>

\* Another process opens or closes a file.
OtherLocks(name) ==
    /\ Locking /\ mode = "running"
    /\ \/ locks[name] = "nobody" /\ locks' = [locks EXCEPT ![name] = "other"]
       \/ locks[name] = "other" /\ locks' = [locks EXCEPT ![name] = "nobody"]
    /\ UNCHANGED <<openfiles, openfile, arguments, mode, opened, unsaved, rescued>>

Next ==
    \/ Start \/ \E name \in Names : Open(name) \/ OtherLocks(name)
    \/ SwitchToNextBuffer \/ SwitchToPrevBuffer
    \/ Modify \/ Writeout \/ DoExit \/ Die

Spec == Init /\ [][Next]_vars

-----------------------------------------------------------------------------
(* Properties.                                                             *)

\* Changes that are in no file and that the user did not give up are in a buffer
\* that is open and marked as modified, so that closing it will ask: whatever is
\* opened, refused, switched and closed around it.
NothingLost ==
    /\ \A id \in unsaved :
         \E i \in DOMAIN openfiles : openfiles[i].id = id /\ openfiles[i].modified
    /\ mode = "exited" => unsaved = {}

\* Every lock file this pinot made and did not delete is the lock_filename of an
\* open buffer, which will delete it; none is left when pinot exits.
LocksReleased ==
    /\ \A name \in Names : locks[name] = "us" =>
         \E i \in DOMAIN openfiles : openfiles[i].lock_filename = name
    /\ mode = "exited" => \A name \in Names : locks[name] # "us"

\* A buffer that has a lock_filename is locked as long as it is open, whatever
\* name it is saved under and whichever buffers are closed, if the file is not
\* opened a second time.
LocksHeld ==
    mode = "running" =>
        \A i \in DOMAIN openfiles :
            openfiles[i].lock_filename # NoName => locks[openfiles[i].lock_filename] = "us"

\* When pinot dies the changes of every modified buffer are saved under a name
\* made from its own (die: "Save all of the other modified file buffers, if any").  This does not hold, and no run checks it: see the README.
EmergencySaves ==
    mode = "died" =>
        \A i \in DOMAIN openfiles :
            openfiles[i].modified => <<openfiles[i].filename, openfiles[i].id>> \in rescued
===============================================================================
