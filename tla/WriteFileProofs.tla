---------------------------- MODULE WriteFileProofs ----------------------------
(***************************************************************************)
(* Proofs about writing a buffer to a file.  The properties follow from    *)
(* these invariants, each of which is kept by every step:                  *)
(*                                                                         *)
(*   Typed      the types, which files the next calls find, and what the   *)
(*              lines are while they are partitioned                       *)
(*   Progress   what is written and what is still to be written are, in    *)
(*              this order, the lines                                      *)
(*   Dated      the stat of a buffer is that of its file, of a former      *)
(*              second while a write goes on                               *)
(*   Warned     the user was asked before a foreign file is written over,  *)
(*              or it came after that was decided                          *)
(*   Aside      what is prepended to is, or will be, in the temporary file *)
(*   Whole, ModifiedWhenUnsaved                                            *)
(*              outside the windows of write_marked_file, a signal finds   *)
(*              all the lines, and the flag that says they are not saved   *)
(*   BackedUp   where what was in the buffer's file is, at every call      *)
(*                                                                         *)
(* All calls of write_file but the first and the last one leave the buffer *)
(* as it is: the lemmas about Call say so once for all of them.            *)
(***************************************************************************)
EXTENDS WriteFile, SequenceTheorems, TLAPS

(* The types of what TypeOK leaves open.                                   *)

Line    == Int \X {1, 2}
Data    == Seq(Line)
Files   == [data : Data, time : Nat]
Appends == {"OVERWRITE", "APPEND", "PREPEND"}
Writes  == [target : Names \cup {NoName}, append : Appends, marked : BOOLEAN,
            exiting : BOOLEAN, auto : BOOLEAN, tmp : BOOLEAN, asked : BOOLEAN,
            late : BOOLEAN, todo : Data, oldmod : BOOLEAN, ok : BOOLEAN]
Stats   == (Targets \cup {NoName, "?"}) \X Nat
Saves   == {"save", "save.1"}

\* The buffer's file is always there.
DiskOK ==
    /\ DOMAIN disk \subseteq Names
    /\ "own" \in DOMAIN disk
    /\ \A m \in DOMAIN disk : disk[m] \in Files

LEMMA Bounds == MaxTime \in Nat /\ MaxVersion \in Nat /\ MaxTroubles \in Nat
BY ZenonT(20), WriteFileAssumption

LEMMA Distinct ==
  /\ Names = {"own", "other", "own~", "other~", "temp", "save", "save.1"}
  /\ Targets = {"own", "other"}
  /\ \A n \in Targets : BackupOf(n) \in {"own~", "other~"}
  /\ BackupOf("own") = "own~" /\ BackupOf("other") = "other~"
  /\ \A i \in 1..Len(SaveNames) : SaveNames[i] \in Saves
<1>1. Len(SaveNames) = 2 /\ SaveNames[1] = "save" /\ SaveNames[2] = "save.1"
  BY DEF SaveNames
<1>2. {SaveNames[i] : i \in 1..Len(SaveNames)} = {"save", "save.1"}
  BY <1>1
<1>3. {BackupOf(n) : n \in Targets} = {"own~", "other~"}
  BY DEF BackupOf, Targets
<1>4. Names = {"own", "other", "own~", "other~", "temp", "save", "save.1"}
  BY <1>2, <1>3 DEF Names, Targets
<1>5. \A i \in 1..Len(SaveNames) : SaveNames[i] \in Saves
  BY <1>1 DEF Saves
<1> QED BY <1>4, <1>5 DEF Targets, BackupOf

\* Writing a file, and removing one.
LEMMA WrittenFacts ==
  ASSUME DiskOK, now \in Nat, NEW n \in Names, NEW d \in Data, disk' = Written(n, d)
  PROVE  /\ DiskOK'
         /\ n \in DOMAIN disk' /\ disk'[n].data = d /\ disk'[n].time = now
         /\ DOMAIN disk' = DOMAIN disk \cup {n}
         /\ \A m \in DOMAIN disk : m # n => disk'[m] = disk[m]
<1>1. DOMAIN disk' = DOMAIN disk \cup {n}
  BY DEF Written
<1>2. disk'[n] = [data |-> d, time |-> now]
  BY DEF Written, File
<1>3. \A m \in DOMAIN disk : m # n => disk'[m] = disk[m]
  BY DEF Written
<1>4. [data |-> d, time |-> now] \in Files
  BY DEF Files
<1>5. \A m \in DOMAIN disk' : disk'[m] \in Files
  BY <1>1, <1>2, <1>3, <1>4 DEF DiskOK
<1>6. DiskOK'
  BY <1>1, <1>5 DEF DiskOK
<1> QED BY <1>1, <1>2, <1>3, <1>6

LEMMA RemovedFacts ==
  ASSUME DiskOK, NEW n \in Names \ {"own"}, disk' = Removed(n)
  PROVE  /\ DiskOK'
         /\ DOMAIN disk' = DOMAIN disk \ {n}
         /\ \A m \in DOMAIN disk : m # n => disk'[m] = disk[m]
BY DEF DiskOK, Removed

LEMMA LinesTyped ==
  ASSUME NEW v \in Int
  PROVE  Text(v) \in Data /\ Marked(v) \in Data
<1>1. <<v, 1>> \in Line /\ <<v, 2>> \in Line
  BY DEF Line
<1>2. <<<<v, 1>>, <<v, 2>>>> \in Seq(Line) /\ <<<<v, 2>>>> \in Seq(Line)
  BY <1>1
<1> QED BY <1>2 DEF Text, Marked, Data

-----------------------------------------------------------------------------
(* Where pinot is, and what it has there.                                  *)

Ended == {"exited", "aborted"}

\* An emergency file is written from "stat" to "close" only, and by nobody else.
Emergency ==
    w.tmp => /\ pc \in {"main", "stat", "open", "write", "close"} \cup Ended
             /\ pc = "main" => FALSE
             /\ w.append = "OVERWRITE" /\ ~w.marked /\ ~w.exiting
             /\ pc \notin Ended => w.target \in Saves /\ ~filepart /\ modified

\* What is marked is written when the mark is on, except at exit.
MarkedOnly ==
    /\ pc \in MarkPc => w.marked
    /\ pc \in Asking \cup WritePc \cup MarkPc /\ ~w.tmp =>
         w.marked = (~w.exiting /\ mark)
    /\ pc = "main" => ~w.marked

\* The files that the next steps read.
Present ==
    /\ ~w.tmp /\ pc \in {"confirm", "askbackup", "partition", "filepart", "magicline"} \cup WritePc
         => w.target \in Targets
    /\ pc \in BackupPc \cup {"askbackup"} => Exists(w.target)
    /\ pc \in {"bchmod", "bcopy"} => Exists(Backup)
    /\ pc \in {"save", "rest"} \/ (pc \in {"open", "write"} /\ w.append = "PREPEND") => Exists("temp")
    /\ pc \in {"write", "rest", "close"} => Exists(w.target)
    /\ pc \in {"prepare", "save", "rest"} => w.append = "PREPEND"

\* What the text is while filepart is set.
Partitioned ==
    filepart =>
        /\ text \in {"part", "magicline", "whole", "extra"}
        /\ pc \in {"magicline", "askbackup", "unmagic", "unpartition", "unfilepart"}
                    \cup WritePc \cup Ended
        /\ pc \in {"magicline", "unpartition"} => text = "part"
        /\ pc \in WritePc \cup {"askbackup", "unmagic"} => text = "magicline" /\ w.marked
        /\ pc = "unfilepart" => text = "whole"

\* The variables that do not depend on where pinot is, and those that do.
ValuesOK ==
    /\ now \in 0..MaxTime /\ ver \in 0..MaxVersion /\ troubles \in 0..MaxTroubles
    /\ name \in Targets \cup {NoName} /\ stat \in Stats /\ kept \in Data
    /\ modified \in BOOLEAN /\ mark \in BOOLEAN /\ winch \in BOOLEAN
    /\ risked \in BOOLEAN /\ unsaved \in BOOLEAN
PlaceOK ==
    /\ pc \in Pc /\ w \in Writes /\ text \in Texts /\ filepart \in BOOLEAN
    /\ pc = "filepart" => text = "part"
    /\ Emergency /\ MarkedOnly /\ Present /\ Partitioned

Typed == DiskOK /\ ValuesOK /\ PlaceOK

LEMMA TypedIsTypeOK == Typed => TypeOK
<1> SUFFICES ASSUME Typed PROVE TypeOK
  OBVIOUS
<1>1. filepart => /\ text \in {"part", "magicline", "whole", "extra"}
                  /\ pc \notin {"main", "prompt", "confirm"}
  BY DEF Typed, PlaceOK, Partitioned, WritePc, BackupPc, Ended
<1> QED BY <1>1 DEF Typed, DiskOK, ValuesOK, PlaceOK, TypeOK

LEMMA InitTyped == Init => Typed
<1> SUFFICES ASSUME Init PROVE Typed
  OBVIOUS
<1>1. disk["own"].data \in Data /\ disk["own"].time = 0 /\ DOMAIN disk = {"own"}
      /\ disk["own"] \in Files
  <2>1. Text(IF name = "own" THEN 0 ELSE Foreign) \in Data
    BY LinesTyped DEF Foreign
  <2>2. disk["own"] = [data |-> Text(IF name = "own" THEN 0 ELSE Foreign), time |-> 0]
        /\ DOMAIN disk = {"own"}
    BY DEF Init
  <2> QED BY <2>1, <2>2 DEF Files
<1>2. DiskOK
  BY <1>1, Distinct DEF DiskOK
<1>3. ValuesOK
  <2>1. <<"own", 0>> \in Stats /\ NoStat \in Stats
    BY DEF Stats, NoStat, NoName, Targets
  <2>2. stat \in Stats /\ kept \in Data /\ name \in Targets \cup {NoName}
    BY <1>1, <2>1 DEF Init, Targets
  <2>3. /\ now = 0 /\ ver = 0 /\ troubles = 0
        /\ modified = FALSE /\ mark = FALSE /\ winch = FALSE /\ risked = FALSE
        /\ unsaved = FALSE
    BY DEF Init
  <2>4. 0 \in 0..MaxTime /\ 0 \in 0..MaxVersion /\ 0 \in 0..MaxTroubles
    BY Bounds
  <2> QED BY <2>2, <2>3, <2>4 DEF ValuesOK
<1>4. PlaceOK
  <2>1. <<>> \in Data
    BY DEF Data
  <2>2. w \in Writes
    BY <2>1 DEF Init, NoWrite, Writes, Appends
  <2> QED BY <2>2 DEF Init, PlaceOK, Pc, Main, Texts, Emergency, MarkedOnly, Present, Partitioned,
        NoWrite, MarkPc, BackupPc, WritePc, Asking, Ended
<1> QED BY <1>2, <1>3, <1>4 DEF Typed

-----------------------------------------------------------------------------
(* What the steps of write_file have in common.                            *)

\* The places in which a write is, without those where the user is asked.
LEMMA Places ==
  /\ WritePc = {"backup", "bunlink", "bcreate", "bchmod", "bcopy", "butime", "stat",
                "prepare", "save", "open", "write", "rest", "close"}
  /\ MarkPc = {"partition", "filepart", "magicline", "unmagic", "unpartition",
               "unfilepart", "remodify"}
  /\ Asking = {"prompt", "confirm", "askbackup"}
  /\ Main = {"main", "exited", "aborted"} /\ Ended = {"exited", "aborted"}
BY DEF WritePc, BackupPc, MarkPc, Asking, Main, Ended

\* Where write_file returns to, and what it leaves of its variables.
LEMMA ReturnFacts ==
  ASSUME PlaceOK, pc \in WritePc \cup {"askbackup"}, NEW ok \in BOOLEAN, Return(ok)
  PROVE  /\ pc' \in {"exited", "unmagic", "prompt", "main"}
         /\ pc' = "exited" <=> w.tmp \/ (w.exiting /\ ok /\ ~w.marked)
         /\ pc' = "unmagic" <=> ~w.tmp /\ w.marked
         /\ pc' = "main" => ~w.tmp /\ ~w.marked
         /\ pc' = "prompt" => ~w.tmp /\ ~w.marked /\ w.auto
         /\ w' = IF pc' \in {"main", "exited"} THEN [NoWrite EXCEPT !.ok = ok, !.tmp = w.tmp]
                                               ELSE [w EXCEPT !.ok = ok]
         /\ w' \in Writes
<1>1. w \in Writes /\ NoWrite \in Writes
  <2>1. <<>> \in Data
    BY DEF Data
  <2> QED BY <2>1 DEF PlaceOK, NoWrite, Writes, Appends
<1>2. /\ w.tmp \in BOOLEAN /\ w.marked \in BOOLEAN /\ w.exiting \in BOOLEAN
      /\ w.auto \in BOOLEAN
  BY <1>1 DEF Writes
<1>3. w' = IF pc' \in {"main", "exited"} THEN [NoWrite EXCEPT !.ok = ok, !.tmp = w.tmp]
                                         ELSE [w EXCEPT !.ok = ok]
  BY DEF Return
<1>4. w' \in Writes
  BY <1>1, <1>2, <1>3 DEF Writes
<1> QED BY <1>2, <1>3, <1>4 DEF Return, ReturnPc

LEMMA ReturnPlace ==
  ASSUME PlaceOK, pc \in WritePc \cup {"askbackup"}, NEW ok \in BOOLEAN, Return(ok),
         UNCHANGED <<text, filepart, mark>>
  PROVE  PlaceOK'
<1>1. /\ pc' \in {"exited", "unmagic", "prompt", "main"}
      /\ pc' = "exited" <=> w.tmp \/ (w.exiting /\ ok /\ ~w.marked)
      /\ pc' = "unmagic" <=> ~w.tmp /\ w.marked
      /\ pc' = "main" => ~w.tmp /\ ~w.marked
      /\ pc' = "prompt" => ~w.tmp /\ ~w.marked /\ w.auto
      /\ w' = IF pc' \in {"main", "exited"} THEN [NoWrite EXCEPT !.ok = ok, !.tmp = w.tmp]
                                            ELSE [w EXCEPT !.ok = ok]
      /\ w' \in Writes
  BY ReturnFacts
<1>2. w \in Writes /\ NoWrite \in Writes
  <2>1. <<>> \in Data
    BY DEF Data
  <2> QED BY <2>1 DEF PlaceOK, NoWrite, Writes, Appends
<1>3. /\ w'.tmp = w.tmp
      /\ pc' \in {"main", "exited"} => ~w'.marked /\ ~w'.exiting /\ w'.append = "OVERWRITE"
      /\ pc' \notin {"main", "exited"} =>
           w'.marked = w.marked /\ w'.exiting = w.exiting
  BY <1>1, <1>2 DEF Writes, NoWrite
<1>4. Emergency' /\ MarkedOnly' /\ Present'
  BY <1>1, <1>3, Places DEF PlaceOK, Emergency, MarkedOnly, Present, BackupPc
<1>5. Partitioned' /\ (pc' = "filepart" => text' = "part")
  BY <1>1, <1>3, Places DEF PlaceOK, Partitioned
<1>6. pc' \in Pc /\ text' \in Texts /\ filepart' \in BOOLEAN
  BY <1>1, Places DEF PlaceOK, Pc
<1> QED BY <1>1, <1>4, <1>5, <1>6 DEF PlaceOK

-----------------------------------------------------------------------------
(* Every step keeps the types.                                             *)

\* What stays typed when it stays as it is.
LEMMA ValuesStay ==
  ASSUME ValuesOK, UNCHANGED <<now, name, ver, modified, mark, winch, unsaved, kept, stat>>,
         troubles' \in 0..MaxTroubles, risked' \in BOOLEAN
  PROVE  ValuesOK'
BY DEF ValuesOK

LEMMA TroubleTyped ==
  ASSUME ValuesOK, Trouble PROVE troubles' \in 0..MaxTroubles
BY Bounds DEF ValuesOK, Trouble

LEMMA DiskStays ==
  ASSUME DiskOK, UNCHANGED disk PROVE DiskOK'
BY DEF DiskOK

LEMMA TickTyped ==
  ASSUME ValuesOK, now < MaxTime, Tick
  PROVE  now' \in 0..MaxTime /\ now <= now' /\ ("same second" \in Avoided => now' = now + 1)
<1>1. now \in Nat
  BY Bounds DEF ValuesOK
<1>2. now' = now + 1 \/ now' = now
  BY DEF Tick
<1>3. now' \in 0..MaxTime /\ now <= now'
  BY <1>1, <1>2, Bounds
<1> QED BY <1>3 DEF Tick

\* What another program's write leaves of the write in progress: all but that it
\* came late.
SameWrite ==
    /\ w' \in Writes
    /\ w'.target = w.target /\ w'.append = w.append /\ w'.marked = w.marked
    /\ w'.exiting = w.exiting /\ w'.auto = w.auto /\ w'.tmp = w.tmp /\ w'.asked = w.asked
    /\ w'.todo = w.todo /\ w'.oldmod = w.oldmod /\ w'.ok = w.ok

LEMMA OthersWrite ==
  ASSUME PlaceOK, NEW n, OtherProgram(n)
  PROVE  /\ SameWrite
         /\ w'.late = (w.late \/ (n = w.target /\ pc \notin {"main", "prompt", "confirm"}))
<1>1. w \in Writes
  BY DEF PlaceOK
<1>2. w' = [w EXCEPT !.late = @ \/ (n = w.target /\ pc \notin {"main", "prompt", "confirm"})]
  BY DEF OtherProgram
<1> QED BY <1>1, <1>2 DEF SameWrite, Writes

\* And of the files.
OthersFile(n) ==
    /\ DOMAIN disk' = DOMAIN disk \cup {n}
    /\ disk'[n] = [data |-> Text(Foreign), time |-> now'] /\ disk'[n].time = now'
    /\ \A m \in DOMAIN disk : m # n => disk'[m] = disk[m]

LEMMA OthersDisk ==
  ASSUME NEW n, OtherProgram(n)
  PROVE  OthersFile(n)
<1> DEFINE d == Written(n, Text(Foreign))
<1>1. disk' = [d EXCEPT ![n].time = now']
  BY DEF OtherProgram
<1>2. DOMAIN d = DOMAIN disk \cup {n} /\ d[n] = [data |-> Text(Foreign), time |-> now]
      /\ \A m \in DOMAIN disk : m # n => d[m] = disk[m]
  BY DEF Written, File
<1> HIDE DEF d
<1>3. disk'[n].time = now'
  BY <1>1, <1>2
<1>4. disk'[n] = [data |-> Text(Foreign), time |-> now']
  BY <1>1, <1>2
<1> QED BY <1>1, <1>2, <1>3, <1>4 DEF OthersFile

\* A place stays right while pinot is there, and no file is removed.
LEMMA PlaceStays ==
  ASSUME PlaceOK, UNCHANGED <<pc, text, filepart, mark, modified>>, SameWrite,
         DOMAIN disk \subseteq DOMAIN disk'
  PROVE  PlaceOK'
<1>1. Emergency' /\ MarkedOnly' /\ Partitioned'
  BY DEF SameWrite, PlaceOK, Emergency, MarkedOnly, Partitioned
<1>2. Present'
  BY DEF SameWrite, PlaceOK, Present, Exists, Backup
<1> QED BY <1>1, <1>2 DEF SameWrite, PlaceOK

\* In the main loop nothing depends on the mark and on what is modified.
LEMMA MainStays ==
  ASSUME PlaceOK, pc = "main", UNCHANGED <<pc, w, text, filepart>>
  PROVE  PlaceOK'
<1>1. Emergency' /\ MarkedOnly' /\ Partitioned'
  BY Places DEF PlaceOK, Emergency, MarkedOnly, Partitioned
<1>2. Present'
  BY Places DEF Present, BackupPc
<1> QED BY <1>1, <1>2 DEF PlaceOK

\* A call that fails and ends the write.
LEMMA FailsTyped ==
  ASSUME Typed, pc \in WritePc \cup {"askbackup"}, NEW kind, Fails(kind)
  PROVE  Typed'
<1>1. DiskOK'
  BY DEF Fails, Typed, DiskOK
<1>2. ValuesOK'
  BY TroubleTyped, ValuesStay DEF Fails, Fault, buffer, calm, Typed, ValuesOK
<1>3. PlaceOK'
  BY ReturnPlace DEF Fails, buffer, parts, Typed
<1> QED BY <1>1, <1>2, <1>3 DEF Typed

\* A step to another place of the write, with or without a trouble.
LEMMA GoOnTyped ==
  ASSUME ValuesOK, NEW where, GoOn(where),
         UNCHANGED troubles \/ Trouble, risked' \in BOOLEAN
  PROVE  ValuesOK'
BY TroubleTyped, ValuesStay DEF GoOn, buffer, calm, ValuesOK

LEMMA MainTyped ==
  ASSUME Typed, \/ Edit \/ DoMark \/ Speller \/ \E n \in Targets : OtherProgram(n)
                \/ Cancel
  PROVE  Typed'
<1> USE DEF Typed
<1>1. CASE Edit
  <2>1. ValuesOK'
    BY <1>1, Bounds DEF Edit, ValuesOK, rest, calm
  <2>2. PlaceOK'
    BY <1>1, MainStays DEF Edit, parts
  <2>3. DiskOK'
    BY <1>1, DiskStays DEF Edit
  <2> QED BY <2>1, <2>2, <2>3
<1>2. CASE DoMark
  <2>1. ValuesOK'
    BY <1>2 DEF DoMark, ValuesOK, rest, calm
  <2>2. PlaceOK'
    BY <1>2, MainStays DEF DoMark, parts
  <2>3. DiskOK'
    BY <1>2, DiskStays DEF DoMark
  <2> QED BY <2>1, <2>2, <2>3
<1>3. CASE Speller
  <2>1. ValuesOK'
    BY <1>3, ValuesStay DEF Speller, buffer, ValuesOK
  <2>2. UNCHANGED <<disk, pc, w, text, filepart, mark, modified>>
    BY <1>3 DEF Speller, parts, buffer
  <2>3. DiskOK'
    BY <2>2 DEF DiskOK
  <2>4. PlaceOK'
    BY <2>2, PlaceStays DEF SameWrite, PlaceOK
  <2> QED BY <2>1, <2>3, <2>4
<1>4. ASSUME NEW n \in Targets, OtherProgram(n) PROVE Typed'
  <2>1. now' \in 0..MaxTime
    BY <1>4, TickTyped DEF OtherProgram
  <2>2. ValuesOK'
    BY <1>4, <2>1 DEF OtherProgram, ValuesOK, buffer
  <2>3. DiskOK' /\ DOMAIN disk' = DOMAIN disk \cup {n}
    <3>1. OthersFile(n)
      BY <1>4, OthersDisk
    <3>2. Text(Foreign) \in Data /\ now' \in Nat
      BY <2>1, LinesTyped, Bounds DEF Foreign
    <3>3. disk'[n] \in Files
      BY <3>1, <3>2 DEF OthersFile, Files
    <3>4. n \in Names
      BY Distinct
    <3> QED BY <3>1, <3>3, <3>4 DEF OthersFile, DiskOK
  <2>4. PlaceOK'
    BY <1>4, <2>3, PlaceStays, OthersWrite DEF OtherProgram, parts, buffer
  <2> QED BY <2>2, <2>3, <2>4
<1>5. CASE Cancel
  <2>1. ValuesOK'
    BY <1>5 DEF Cancel, ValuesOK, buffer, rest, calm
  <2>2. NoWrite \in Writes
    <3>1. <<>> \in Data
      BY DEF Data
    <3> QED BY <3>1 DEF NoWrite, Writes, Appends
  <2>3. PlaceOK'
    BY <1>5, <2>2, Places DEF Cancel, parts, PlaceOK, Emergency, MarkedOnly, Present,
                              Partitioned, BackupPc, NoWrite, Pc
  <2>4. DiskOK'
    BY <1>5, DiskStays DEF Cancel
  <2> QED BY <2>1, <2>3, <2>4
<1> QED BY <1>1, <1>2, <1>3, <1>4, <1>5

LEMMA NoWriteTyped == NoWrite \in Writes
<1>1. <<>> \in Data
  BY DEF Data
<1> QED BY <1>1 DEF NoWrite, Writes, Appends

LEMMA WriteTyped ==
  ASSUME w \in Writes
  PROVE  /\ w.target \in Names \cup {NoName} /\ w.append \in Appends /\ w.todo \in Data
         /\ w.marked \in BOOLEAN /\ w.exiting \in BOOLEAN /\ w.auto \in BOOLEAN
         /\ w.tmp \in BOOLEAN /\ w.asked \in BOOLEAN /\ w.late \in BOOLEAN /\ w.oldmod \in BOOLEAN
BY DEF Writes

\* do_writeout: what the user is asked, and answers.
LEMMA AskingTyped ==
  ASSUME Typed, \/ \E e \in BOOLEAN : DoWriteout(e)
                \/ \E how \in {"PREPEND", "APPEND"} : ToggleAppend(how)
                \/ \E n \in Targets : EnterName(n)
                \/ \E yes \in BOOLEAN : Confirm(yes)
  PROVE  Typed'
<1> USE DEF Typed
<1>1. w \in Writes
  BY DEF PlaceOK
<1>2. ASSUME NEW e \in BOOLEAN, DoWriteout(e) PROVE Typed'
  <2>1. now' \in 0..MaxTime
    BY <1>2, TickTyped DEF DoWriteout
  <2>2. risked' \in BOOLEAN
    BY <1>2 DEF DoWriteout, ValuesOK
  <2>3. ValuesOK'
    BY <1>2, <2>1, <2>2 DEF DoWriteout, ValuesOK, buffer
  <2>4. DiskOK'
    BY <1>2, DiskStays DEF DoWriteout
  <2>5. /\ w' \in Writes /\ ~w'.tmp /\ w'.append = "OVERWRITE" /\ w'.exiting = e
        /\ w'.marked = (~e /\ mark) /\ w'.target = name
        /\ w'.auto => name \in Targets
    <3>1. e \in BOOLEAN /\ mark \in BOOLEAN /\ name \in Targets \cup {NoName}
      BY DEF ValuesOK
    <3>2. Targets \subseteq Names
      BY Distinct
    <3> QED BY <1>2, <3>1, <3>2, NoWriteTyped DEF DoWriteout, NoWrite, Writes, Appends
  <2>6. pc' = IF w'.auto THEN "stat" ELSE "prompt"
    BY <1>2 DEF DoWriteout
  <2>7. UNCHANGED <<text, filepart, mark>> /\ pc = "main" /\ (w'.auto => e)
    BY <1>2, NoWriteTyped DEF DoWriteout, parts, buffer, NoWrite
  <2>8. PlaceOK'
    BY <2>5, <2>6, <2>7, Places DEF PlaceOK, Emergency, MarkedOnly, Present, Partitioned,
                                    BackupPc, Pc
  <2> QED BY <2>3, <2>4, <2>8
<1>3. ASSUME NEW how \in {"PREPEND", "APPEND"}, ToggleAppend(how) PROVE Typed'
  <2>1. ValuesOK'
    BY <1>3 DEF ToggleAppend, ValuesOK, buffer, rest, calm
  <2>2. DiskOK'
    BY <1>3, DiskStays DEF ToggleAppend
  <2>3. /\ w' \in Writes /\ w'.tmp = w.tmp /\ w'.exiting = w.exiting
        /\ w'.marked = w.marked
    BY <1>1, <1>3 DEF ToggleAppend, Writes, Appends
  <2>4. UNCHANGED <<text, filepart, mark, pc>> /\ pc = "prompt"
    BY <1>3 DEF ToggleAppend, parts, buffer
  <2>5. PlaceOK'
    BY <2>3, <2>4, Places DEF PlaceOK, Emergency, MarkedOnly, Present, Partitioned,
                                    BackupPc, Pc
  <2> QED BY <2>1, <2>2, <2>5
<1>4. ASSUME NEW n \in Targets, EnterName(n) PROVE Typed'
  <2>1. ValuesOK'
    BY <1>4 DEF EnterName, ValuesOK, buffer, rest, calm
  <2>2. DiskOK'
    BY <1>4, DiskStays DEF EnterName
  <2>3. /\ w' \in Writes /\ w'.tmp = w.tmp /\ w'.exiting = w.exiting
        /\ w'.marked = w.marked /\ w'.target = n /\ w'.append = w.append
    BY <1>1, <1>4, Distinct DEF EnterName, Writes, Appends
  <2>4. UNCHANGED <<text, filepart, mark>> /\ pc = "prompt"
    BY <1>4 DEF EnterName, parts, buffer
  <2>5. pc' \in {"confirm", "partition", "stat"} /\ (pc' = "partition" => w.marked)
    BY <1>4 DEF EnterName
  <2>6. PlaceOK'
    BY <1>1, <2>3, <2>4, <2>5, Places, WriteTyped
       DEF PlaceOK, Emergency, MarkedOnly, Present, Partitioned, BackupPc, Pc
  <2> QED BY <2>1, <2>2, <2>6
<1>5. ASSUME NEW yes \in BOOLEAN, Confirm(yes) PROVE Typed'
  <2>1. risked' \in BOOLEAN
    BY <1>5 DEF Confirm, ValuesOK
  <2>2. ValuesOK'
    BY <1>5, <2>1 DEF Confirm, ValuesOK, buffer, rest, calm
  <2>3. DiskOK'
    BY <1>5, DiskStays DEF Confirm
  <2>4. /\ w' \in Writes /\ w'.tmp = w.tmp /\ w'.exiting = w.exiting
        /\ w'.marked = w.marked /\ w'.target = w.target /\ w'.append = w.append
    BY <1>1, <1>5 DEF Confirm, Writes
  <2>5. UNCHANGED <<text, filepart, mark>> /\ pc = "confirm"
    BY <1>5 DEF Confirm, parts, buffer
  <2>6. pc' \in {"prompt", "partition", "stat"} /\ (pc' = "partition" => w.marked)
    BY <1>5 DEF Confirm
  <2>7. PlaceOK'
    BY <1>1, <2>4, <2>5, <2>6, Places, WriteTyped
       DEF PlaceOK, Emergency, MarkedOnly, Present, Partitioned, BackupPc, Pc
  <2> QED BY <2>2, <2>3, <2>7
<1> QED BY <1>2, <1>3, <1>4, <1>5

\* A return without a change of the values.
LEMMA ReturnTyped ==
  ASSUME Typed, pc \in WritePc \cup {"askbackup"}, NEW ok \in BOOLEAN, Return(ok),
         DiskOK', UNCHANGED <<buffer, parts, calm>>, UNCHANGED troubles \/ Trouble,
         risked' \in BOOLEAN
  PROVE  Typed'
<1>1. ValuesOK'
  BY TroubleTyped, ValuesStay DEF buffer, calm, Typed, ValuesOK
<1>2. PlaceOK'
  BY ReturnPlace DEF buffer, parts, Typed
<1> QED BY <1>1, <1>2 DEF Typed

LEMMA StatTyped ==
  ASSUME Typed, RefuseSymlink \/ StatFile
  PROVE  Typed'
<1> USE DEF Typed
<1>1. CASE RefuseSymlink
  <2>1. DiskOK' /\ pc = "stat" /\ Return(FALSE) /\ risked' \in BOOLEAN
        /\ UNCHANGED <<buffer, parts, calm>> /\ UNCHANGED troubles
    BY <1>1, DiskStays DEF RefuseSymlink, rest, ValuesOK
  <2> QED BY <2>1, Places, ReturnTyped
<1>2. CASE StatFile
  <2>1. DiskOK'
    BY <1>2, DiskStays DEF StatFile
  <2>2. stat' \in Stats
    <3>1. CASE UNCHANGED stat
      BY <3>1 DEF ValuesOK
    <3>2. CASE /\ stat' = <<w.target, disk[w.target].time>>
               /\ ~w.tmp /\ Exists(w.target)
      <4>1. disk[w.target] \in Files
        BY <3>2 DEF DiskOK, Exists
      <4>2. w.target \in Targets
        BY <1>2, <3>2, Places DEF StatFile, PlaceOK, Present
      <4> QED BY <3>2, <4>1, <4>2 DEF Stats, Files
    <3> QED BY <1>2, <3>1, <3>2 DEF StatFile
  <2>3. risked' \in BOOLEAN
    BY <1>2 DEF StatFile, ValuesOK
  <2>4. UNCHANGED <<now, ver, troubles, name, kept, modified, mark, winch, unsaved, parts>>
    BY <1>2 DEF StatFile, rest, calm
  <2>5. ValuesOK'
    BY <2>2, <2>3, <2>4 DEF ValuesOK
  <2>6. PlaceOK'
    <3>1. CASE w.tmp /\ Exists(w.target)
      BY <1>2, <2>4, <3>1, Places, ReturnPlace DEF StatFile, parts
    <3>2. CASE ~(w.tmp /\ Exists(w.target))
      <4>1. PICK b \in NeedsBackup : pc' = IF b THEN "backup" ELSE AfterBackup
        BY <1>2, <3>2 DEF StatFile
      <4>2. w' = w /\ UNCHANGED disk /\ pc = "stat"
        BY <1>2, <3>2 DEF StatFile
      <4>3. b \in BOOLEAN /\ (b => ~w.tmp /\ Exists(w.target))
        BY DEF NeedsBackup
      <4>4. CASE b
        BY <2>4, <4>1, <4>2, <4>3, <4>4, Places
           DEF PlaceOK, Emergency, MarkedOnly, Present, Partitioned, BackupPc, Pc, parts,
               Exists, Backup
      <4>5. CASE ~b
        BY <2>4, <4>1, <4>2, <4>5, Places
           DEF PlaceOK, Emergency, MarkedOnly, Present, Partitioned, BackupPc, Pc, parts,
               Exists, Backup, AfterBackup
      <4> QED BY <4>3, <4>4, <4>5
    <3> QED BY <3>1, <3>2
  <2> QED BY <2>1, <2>5, <2>6
<1> QED BY <1>1, <1>2

\* A backup is another file than the one that is written.
LEMMA BackupFacts ==
  ASSUME PlaceOK, pc \in BackupPc \cup {"askbackup"}
  PROVE  /\ ~w.tmp /\ w.target \in Targets /\ w.target \in DOMAIN disk
         /\ Backup \in {"own~", "other~"} /\ Backup \in Names \ {"own"} /\ Backup # w.target
<1>1. ~w.tmp
  BY WriteTyped DEF PlaceOK, Emergency, BackupPc, Ended
<1>2. w.target \in Targets /\ w.target \in DOMAIN disk
  BY <1>1, Places DEF PlaceOK, Present, BackupPc, Exists
<1>3. Backup \in {"own~", "other~"}
  BY <1>2, Distinct DEF Backup
<1> QED BY <1>1, <1>2, <1>3, Distinct

\* A step within the write, with the files it needs there.
LEMMA NextPlace ==
  ASSUME PlaceOK, pc \in WritePc, ~w.tmp, w' \in Writes,
         /\ w'.target = w.target /\ w'.append = w.append /\ w'.tmp = w.tmp
         /\ w'.marked = w.marked /\ w'.exiting = w.exiting,
         UNCHANGED <<text, filepart, mark>>,
         pc' \in WritePc \cup {"askbackup", "aborted"}, Present'
  PROVE  PlaceOK'
<1>1. Emergency' /\ MarkedOnly' /\ Partitioned'
  BY Places DEF PlaceOK, Emergency, MarkedOnly, Partitioned
<1> QED BY <1>1, Places DEF PlaceOK, Pc

LEMMA BackupTyped ==
  ASSUME Typed, \/ OpenOriginal \/ UnlinkBackup \/ CreateBackup
                \/ ChmodBackup \/ CopyBackup \/ UtimeBackup
  PROVE  Typed'
<1> USE DEF Typed
<1>1. /\ pc \in BackupPc
      /\ ~w.tmp /\ w.target \in Targets /\ w.target \in DOMAIN disk
      /\ Backup \in {"own~", "other~"} /\ Backup \in Names \ {"own"} /\ Backup # w.target
  <2>1. pc \in BackupPc
    BY DEF OpenOriginal, UnlinkBackup, CreateBackup, ChmodBackup, CopyBackup, UtimeBackup,
           BackupPc
  <2> QED BY <2>1, BackupFacts
<1>2. w \in Writes /\ now \in Nat /\ pc \in WritePc
  BY <1>1, Bounds, Places DEF PlaceOK, ValuesOK, BackupPc
\* A step to where, with the same variables but for what is still to be copied.
<1>3. ASSUME NEW where \in WritePc \cup {"askbackup"}, GoOn(where), UNCHANGED troubles \/ Trouble,
             risked' \in BOOLEAN, DiskOK', w.target \in DOMAIN disk',
             where \in {"bchmod", "bcopy"} => Backup \in DOMAIN disk',
             where \notin {"save", "write", "rest", "close"},
             where = "prepare" => w.append = "PREPEND",
             where = "open" => w.append # "PREPEND",
             UNCHANGED w \/ \E d \in Data : w' = [w EXCEPT !.todo = d]
      PROVE  Typed'
  <2>1. ValuesOK'
    BY <1>3, GoOnTyped
  <2>2. /\ w' \in Writes
        /\ w'.target = w.target /\ w'.append = w.append /\ w'.tmp = w.tmp
        /\ w'.marked = w.marked /\ w'.exiting = w.exiting
    BY <1>2, <1>3 DEF Writes
  <2>3. Present' /\ pc' = where
    BY <1>1, <1>3, <2>2, Places DEF GoOn, Present, Exists, Backup, BackupPc
  <2>4. PlaceOK'
    BY <1>1, <1>2, <1>3, <2>2, <2>3, NextPlace DEF GoOn, buffer, parts
  <2> QED BY <1>3, <2>1, <2>4
<1>4. AfterBackup \in WritePc /\ AfterBackup \in {"prepare", "open"}
      /\ (AfterBackup = "prepare" <=> w.append = "PREPEND")
  BY Places DEF AfterBackup
<1>5. risked \in BOOLEAN /\ TRUE \in BOOLEAN
  BY DEF ValuesOK
<1>6. ASSUME NEW kind, AskBackup(kind), Backup \in DOMAIN disk \/ pc # "bchmod" PROVE Typed'
  <2>1. DiskOK' /\ w.target \in DOMAIN disk'
    BY <1>1, <1>6, DiskStays DEF AskBackup
  <2> QED BY <1>3, <1>5, <1>6, <2>1, Places DEF AskBackup, Fault
<1>7. CASE OpenOriginal
  <2>1. DiskOK' /\ w.target \in DOMAIN disk' /\ w' = w
    BY <1>1, <1>7, DiskStays DEF OpenOriginal
  <2>2. CASE Go("bunlink") /\ UNCHANGED risked
    BY <1>3, <1>5, <2>1, <2>2, Places DEF Go
  <2>3. CASE Fault("open") /\ GoOn(AfterBackup) /\ risked' = TRUE
    BY <1>3, <1>4, <1>5, <2>1, <2>3, Places DEF Fault
  <2> QED BY <1>7, <2>2, <2>3 DEF OpenOriginal
<1>8. CASE UnlinkBackup
  <2>1. CASE Go("bcreate") /\ disk' = Removed(Backup) /\ UNCHANGED <<w, risked>>
    <3>1. DiskOK' /\ w.target \in DOMAIN disk'
      BY <1>1, <2>1, RemovedFacts
    <3> QED BY <1>3, <1>5, <2>1, <3>1, Places DEF Go
  <2> QED BY <1>6, <1>8, <2>1 DEF UnlinkBackup
<1>9. CASE CreateBackup
  <2>1. CASE Go("bchmod") /\ disk' = Written(Backup, <<>>) /\ UNCHANGED <<w, risked>>
    <3>1. <<>> \in Data
      BY DEF Data
    <3>2. DiskOK' /\ w.target \in DOMAIN disk' /\ Backup \in DOMAIN disk'
      BY <1>1, <1>2, <2>1, <3>1, WrittenFacts
    <3> QED BY <1>3, <1>5, <2>1, <3>1, <3>2, Places DEF Go
  <2> QED BY <1>2, <1>9, <2>1, FailsTyped DEF CreateBackup
<1>10. CASE ChmodBackup
  <2>1. DiskOK' /\ w.target \in DOMAIN disk' /\ Backup \in DOMAIN disk /\ disk' = disk
    BY <1>1, <1>10, DiskStays DEF ChmodBackup, AskBackup, PlaceOK, Present, Exists
  <2>2. CASE Go("bcopy") /\ w' = [w EXCEPT !.todo = disk[w.target].data] /\ UNCHANGED <<disk, risked>>
    <3>1. disk[w.target].data \in Data
      BY <1>1 DEF DiskOK, Files
    <3> QED BY <1>1, <1>3, <1>5, <2>1, <2>2, <3>1, Places DEF Go
  <2> QED BY <1>6, <1>10, <2>1, <2>2 DEF ChmodBackup
<1>11. CASE CopyBackup
  <2>1. Backup \in DOMAIN disk /\ pc = "bcopy"
    BY <1>11 DEF CopyBackup, PlaceOK, Present, Exists
  <2>2. CASE /\ w.todo # <<>> /\ disk' = Written(Backup, Append(disk[Backup].data, Head(w.todo)))
             /\ w' = [w EXCEPT !.todo = Tail(@)] /\ Go(pc) /\ UNCHANGED risked
    <3>1. disk[Backup].data \in Data /\ w.todo \in Data
      BY <1>2, <2>1, WriteTyped DEF DiskOK, Files
    <3>2. Append(disk[Backup].data, Head(w.todo)) \in Data /\ Tail(w.todo) \in Data
      BY <2>2, <3>1, HeadTailProperties, AppendProperties DEF Data
    <3>3. DiskOK' /\ w.target \in DOMAIN disk' /\ Backup \in DOMAIN disk'
      BY <1>1, <1>2, <2>2, <3>2, WrittenFacts
    <3>4. w' = [w EXCEPT !.todo = Tail(w.todo)]
      BY <2>2
    <3> QED BY <1>3, <1>5, <2>1, <2>2, <3>2, <3>3, <3>4, Places DEF Go
  <2>3. CASE w.todo = <<>> /\ Go("butime") /\ UNCHANGED <<disk, w, risked>>
    <3>1. DiskOK' /\ w.target \in DOMAIN disk'
      BY <1>1, <2>3, DiskStays
    <3> QED BY <1>3, <1>5, <2>3, <3>1, Places DEF Go
  <2> QED BY <1>2, <1>11, <2>2, <2>3, FailsTyped DEF CopyBackup
<1>12. CASE UtimeBackup
  <2>1. DiskOK' /\ w.target \in DOMAIN disk' /\ disk' = disk /\ pc = "butime"
    BY <1>1, <1>12, DiskStays DEF UtimeBackup, AskBackup
  <2>2. CASE Go(AfterBackup) /\ UNCHANGED <<w, risked>>
    BY <1>3, <1>4, <1>5, <2>1, <2>2, Places DEF Go
  <2> QED BY <1>6, <1>12, <2>1, <2>2 DEF UtimeBackup
<1> QED BY <1>7, <1>8, <1>9, <1>10, <1>11, <1>12

LEMMA FailedBackupTyped ==
  ASSUME Typed, NEW a \in {"yes", "no", "cancel"}, FailedBackup(a)
  PROVE  Typed'
<1> USE DEF Typed
<1>1. pc = "askbackup" /\ ~w.tmp /\ w.target \in Targets /\ w.target \in DOMAIN disk
  BY BackupFacts DEF FailedBackup
<1>2. DiskOK' /\ disk' = disk /\ UNCHANGED <<buffer, parts, calm, troubles>>
  BY DiskStays DEF FailedBackup, rest
<1>3. risked' \in BOOLEAN
  BY DEF FailedBackup, ValuesOK
<1>4. CASE Return(FALSE)
  BY <1>1, <1>2, <1>3, <1>4, ReturnTyped
<1>5. CASE pc' = AfterBackup /\ UNCHANGED w
  <2>1. ValuesOK'
    BY <1>2, <1>3 DEF buffer, calm, ValuesOK
  <2>2. PlaceOK'
    BY <1>1, <1>2, <1>5, Places
       DEF PlaceOK, Emergency, MarkedOnly, Present, Partitioned, BackupPc, Pc, parts, buffer,
           Exists, AfterBackup
  <2> QED BY <1>2, <2>1, <2>2
<1> QED BY <1>4, <1>5 DEF FailedBackup

\* The file, not a backup, is written: by an emergency save, or with a name that
\* the user gave.
LEMMA TargetFacts ==
  ASSUME PlaceOK, pc \in {"prepare", "save", "open", "write", "rest", "close"}
  PROVE  /\ w.target \in Targets \cup Saves
         /\ w.target \in Names \ {"temp", "own~", "other~"}
         /\ w.tmp => pc \in {"open", "write", "close"} /\ w.append = "OVERWRITE"
         /\ ~w.tmp => w.target \in Targets
<1>1. w.tmp \in BOOLEAN
  BY WriteTyped DEF PlaceOK
<1>2. CASE w.tmp
  BY <1>2, Distinct, Places DEF PlaceOK, Emergency, Saves
<1>3. CASE ~w.tmp
  BY <1>3, Distinct, Places DEF PlaceOK, Present
<1> QED BY <1>1, <1>2, <1>3

LEMMA AppendTyped ==
  ASSUME NEW d \in Data, NEW t \in Data, t # <<>>
  PROVE  Append(d, Head(t)) \in Data /\ Tail(t) \in Data
BY HeadTailProperties, AppendProperties DEF Data

LEMMA LinesData == ASSUME ValuesOK PROVE Lines \in Data
<1>1. ver \in Int
  BY Bounds DEF ValuesOK
<1> QED BY <1>1, LinesTyped DEF Lines

\* A step of writing the file: Present is all that needs to be shown of the place.
LEMMA WritingTyped ==
  ASSUME Typed, NEW where \in WritePc \cup {"aborted"}, Go(where) \/ (GoOn(where) /\ Trouble),
         pc \in WritePc,
         UNCHANGED w \/ \E d \in Data : w' = [w EXCEPT !.todo = d],
         risked' \in BOOLEAN, DiskOK',
         w.tmp => where \in {"open", "write", "close"},
         where \in {"prepare", "save", "open", "write", "rest", "close", "aborted"},
         where \in {"prepare", "save", "rest"} => w.append = "PREPEND",
         where \in {"save", "rest"} \/ (where \in {"open", "write"} /\ w.append = "PREPEND")
           => "temp" \in DOMAIN disk',
         where \in {"write", "rest", "close"} => w.target \in DOMAIN disk',
         w.tmp \/ w.target \in Targets
  PROVE  Typed'
<1> USE DEF Typed
<1>1. ValuesOK'
  BY GoOnTyped DEF Go
<1>2. pc' = where /\ UNCHANGED <<text, filepart, mark, modified>>
  BY DEF Go, GoOn, buffer, parts
<1>3. w \in Writes
  BY DEF PlaceOK
<1>4. /\ w' \in Writes
      /\ w'.target = w.target /\ w'.append = w.append /\ w'.tmp = w.tmp
      /\ w'.marked = w.marked /\ w'.exiting = w.exiting
  BY <1>3 DEF Writes
<1>5. Present'
  BY <1>2, <1>4, Places DEF Present, Exists, BackupPc
<1>6. Emergency' /\ MarkedOnly' /\ Partitioned'
  BY <1>2, <1>4, Places DEF PlaceOK, Emergency, MarkedOnly, Partitioned
<1>7. PlaceOK'
  BY <1>2, <1>4, <1>5, <1>6, Places DEF PlaceOK, Pc
<1> QED BY <1>1, <1>7

LEMMA PrependTyped ==
  ASSUME Typed, PrepareTemp \/ SaveOld
  PROVE  Typed'
<1> USE DEF Typed
<1>1. w \in Writes /\ now \in Nat /\ pc \in WritePc /\ risked \in BOOLEAN
  <2>1. pc \in WritePc
    BY Places DEF PrepareTemp, SaveOld
  <2>2. now \in Nat
    BY Bounds DEF ValuesOK
  <2> QED BY <2>1, <2>2 DEF PlaceOK, ValuesOK
<1>2. "temp" \in Names \ {"own"} /\ <<>> \in Data
  BY Distinct DEF Data
<1>3. /\ w.target \in Targets /\ w.append = "PREPEND" /\ ~w.tmp
      /\ w.target # "temp"
  <2>1. pc \in {"prepare", "save"}
    BY DEF PrepareTemp, SaveOld
  <2> QED BY <1>1, <2>1, TargetFacts, WriteTyped, Distinct, Places DEF PlaceOK, Present
<1>4. CASE PrepareTemp
  <2>1. ASSUME Exists(w.target), Go("save"), disk' = Written("temp", <<>>),
               w' = [w EXCEPT !.todo = disk[w.target].data], UNCHANGED risked
        PROVE  Typed'
    <3>1. disk[w.target].data \in Data
      BY <2>1 DEF DiskOK, Files, Exists
    <3>2. DiskOK' /\ "temp" \in DOMAIN disk'
      BY <1>1, <1>2, <2>1, WrittenFacts
    <3> QED BY <1>1, <1>3, <2>1, <3>1, <3>2, Places, WritingTyped
  <2>2. ASSUME Return(FALSE), UNCHANGED <<disk, buffer, parts, answered, risked, rest>>
        PROVE  Typed'
    <3>1. DiskOK'
      BY <2>2, DiskStays
    <3> QED BY <1>1, <2>2, <3>1, ReturnTyped DEF rest
  <2>3. ASSUME Fault("open"), disk' = Written("temp", <<>>), GoOn("aborted"),
               UNCHANGED <<w, risked>>
        PROVE  Typed'
    <3>1. DiskOK'
      BY <1>1, <1>2, <2>3, WrittenFacts
    <3> QED BY <1>1, <1>3, <2>3, <3>1, Places, WritingTyped DEF Fault
  <2> QED BY <1>1, <1>4, <2>1, <2>2, <2>3, FailsTyped DEF PrepareTemp
<1>5. CASE SaveOld
  <2>1. "temp" \in DOMAIN disk /\ disk["temp"].data \in Data /\ pc = "save"
    BY <1>5 DEF SaveOld, PlaceOK, Present, Exists, DiskOK, Files
  <2>2. CASE /\ w.todo # <<>>
             /\ disk' = Written("temp", Append(disk["temp"].data, Head(w.todo)))
             /\ w' = [w EXCEPT !.todo = Tail(@)] /\ Go(pc) /\ UNCHANGED risked
    <3>1. Append(disk["temp"].data, Head(w.todo)) \in Data /\ Tail(w.todo) \in Data
      BY <1>1, <2>1, <2>2, AppendTyped, WriteTyped
    <3>2. DiskOK' /\ "temp" \in DOMAIN disk'
      BY <1>1, <1>2, <2>2, <3>1, WrittenFacts
    <3>3. w' = [w EXCEPT !.todo = Tail(w.todo)]
      BY <2>2
    <3> QED BY <1>1, <1>3, <2>1, <2>2, <3>1, <3>2, <3>3, Places, WritingTyped
  <2>3. CASE w.todo = <<>> /\ Go("open") /\ UNCHANGED <<disk, w, risked>>
    <3>1. DiskOK'
      BY <2>3, DiskStays
    <3> QED BY <1>1, <1>3, <2>1, <2>3, <3>1, Places, WritingTyped
  <2>4. CASE /\ Fault("write") /\ disk' = Removed("temp") /\ Return(FALSE)
             /\ UNCHANGED <<buffer, parts, answered, risked, calm>>
    <3>1. DiskOK'
      BY <1>2, <2>4, RemovedFacts
    <3> QED BY <1>1, <2>4, <3>1, ReturnTyped DEF Fault
  <2> QED BY <1>5, <2>2, <2>3, <2>4 DEF SaveOld
<1> QED BY <1>4, <1>5

LEMMA FileTyped ==
  ASSUME Typed, OpenFile \/ CannotOpen \/ WriteLine \/ CopyRest \/ CannotClose
  PROVE  Typed'
<1> USE DEF Typed
<1>1. w \in Writes /\ now \in Nat /\ risked \in BOOLEAN
      /\ pc \in {"open", "write", "rest", "close"} /\ pc \in WritePc
  <2>1. pc \in {"open", "write", "rest", "close"} /\ pc \in WritePc
    BY Places DEF OpenFile, CannotOpen, WriteLine, CopyRest, CannotClose
  <2>2. now \in Nat
    BY Bounds DEF ValuesOK
  <2> QED BY <2>1, <2>2 DEF PlaceOK, ValuesOK
<1>2. "temp" \in Names \ {"own"} /\ <<>> \in Data
  BY Distinct DEF Data
<1>3. /\ w.target \in Names /\ w.target # "temp" /\ w.todo \in Data
      /\ w.tmp \/ w.target \in Targets
      /\ w.tmp => pc \in {"open", "write", "close"} /\ w.append = "OVERWRITE"
  BY <1>1, TargetFacts, WriteTyped, Distinct
<1>4. pc \in {"write", "rest", "close"} => w.target \in DOMAIN disk
                                           /\ disk[w.target].data \in Data
  BY DEF PlaceOK, Present, Exists, DiskOK, Files
<1>5. pc = "rest" \/ (pc \in {"open", "write"} /\ w.append = "PREPEND")
        => "temp" \in DOMAIN disk /\ disk["temp"].data \in Data
  BY DEF PlaceOK, Present, Exists, DiskOK, Files
\* One line more.
<1>6. ASSUME w.todo # <<>>, pc \in {"write", "rest"},
             disk' = Written(w.target, Append(disk[w.target].data, Head(w.todo))),
             w' = [w EXCEPT !.todo = Tail(@)], Go(pc), UNCHANGED risked
      PROVE  Typed'
  <2>1. Append(disk[w.target].data, Head(w.todo)) \in Data /\ Tail(w.todo) \in Data
    BY <1>3, <1>4, <1>6, AppendTyped
  <2>2. DiskOK' /\ DOMAIN disk' = DOMAIN disk \cup {w.target}
    BY <1>1, <1>3, <1>6, <2>1, WrittenFacts
  <2>3. w' = [w EXCEPT !.todo = Tail(w.todo)]
    BY <1>6
  <2>4. pc = "rest" => w.append = "PREPEND"
    BY DEF PlaceOK, Present
  <2> QED BY <1>1, <1>3, <1>5, <1>6, <2>1, <2>2, <2>3, <2>4, Places, WritingTyped
<1>7. CASE OpenFile
  <2> DEFINE old == IF Exists(w.target) THEN disk[w.target].data ELSE <<>>
             data == IF w.append = "APPEND" THEN old ELSE <<>>
  <2>1. data \in Data
    BY <1>2 DEF DiskOK, Files, Exists
  <2>2. disk' = Written(w.target, data)
    BY <1>7 DEF OpenFile
  <2> HIDE DEF data
  <2>3. DiskOK' /\ DOMAIN disk' = DOMAIN disk \cup {w.target}
    BY <1>1, <1>3, <2>1, <2>2, WrittenFacts
  <2>4. CASE w' = [w EXCEPT !.todo = Lines] /\ Go("write") /\ UNCHANGED risked
    <3>1. pc = "open"
      BY <1>7 DEF OpenFile
    <3> QED BY <1>1, <1>3, <1>5, <2>3, <2>4, <3>1, LinesData, Places, WritingTyped
  <2>5. CASE Fault("temp") /\ Return(FALSE) /\ UNCHANGED <<buffer, parts, answered, risked, calm>>
    BY <1>1, <2>3, <2>5, ReturnTyped DEF Fault
  <2> QED BY <1>7, <2>4, <2>5 DEF OpenFile
<1>8. CASE CannotOpen
  <2>1. DiskOK'
    BY <1>2, <1>8, RemovedFacts, DiskStays DEF CannotOpen
  <2> QED BY <1>1, <1>8, <2>1, ReturnTyped DEF CannotOpen, Fault
<1>9. CASE WriteLine
  <2>1. pc = "write"
    BY <1>9 DEF WriteLine
  <2>2. CASE /\ w.todo = <<>>
             /\ w' = [w EXCEPT !.todo = IF w.append = "PREPEND" THEN disk["temp"].data ELSE <<>>]
             /\ Go(IF w.append = "PREPEND" THEN "rest" ELSE "close")
             /\ UNCHANGED <<disk, risked>>
    <3> DEFINE d == IF w.append = "PREPEND" THEN disk["temp"].data ELSE <<>>
               where == IF w.append = "PREPEND" THEN "rest" ELSE "close"
    <3>1. DiskOK' /\ d \in Data /\ w' = [w EXCEPT !.todo = d]
      BY <1>2, <1>5, <2>1, <2>2, DiskStays
    <3>2. /\ where \in WritePc \cup {"aborted"} /\ Go(where)
          /\ where = "rest" => w.append = "PREPEND"
          /\ where \in {"rest", "close"} /\ (w.tmp => where = "close")
      BY <1>3, <2>2, Places
    <3> HIDE DEF d, where
    <3> QED BY <1>1, <1>3, <1>4, <1>5, <2>1, <2>2, <3>1, <3>2, WritingTyped
  <2> QED BY <1>1, <1>6, <1>9, <2>1, <2>2, FailsTyped DEF WriteLine
<1>10. CASE CopyRest
  <2>1. pc = "rest"
    BY <1>10 DEF CopyRest
  <2>2. CASE /\ (w.todo = <<>> /\ UNCHANGED troubles) \/ Fault("rest")
             /\ disk' = Removed("temp") /\ Return(TRUE)
             /\ UNCHANGED <<buffer, parts, answered, risked, calm>>
    <3>1. DiskOK'
      BY <1>2, <2>2, RemovedFacts
    <3> QED BY <1>1, <2>2, <3>1, ReturnTyped DEF Fault
  <2> QED BY <1>1, <1>6, <1>10, <2>1, <2>2, FailsTyped DEF CopyRest
<1>11. CASE CannotClose
  <2> DEFINE d == disk[w.target].data
             e == SubSeq(d, 1, Len(d) - 1)
  <2>1. d \in Data /\ disk' = Written(w.target, e)
    BY <1>4, <1>11 DEF CannotClose
  <2>2. e \in Data
    BY <2>1 DEF Data
  <2> HIDE DEF e
  <2>3. DiskOK'
    BY <1>1, <1>3, <2>1, <2>2, WrittenFacts
  <2> QED BY <1>1, <1>11, <2>3, ReturnTyped DEF CannotClose, Fault
<1> QED BY <1>7, <1>8, <1>9, <1>10, <1>11

LEMMA CloseTyped ==
  ASSUME Typed, CloseFile
  PROVE  Typed'
<1> USE DEF Typed
<1>1. pc = "close" /\ pc \in WritePc /\ Return(TRUE) /\ w \in Writes
  BY Places DEF CloseFile, PlaceOK
<1>2. w.target \in Targets \cup Saves /\ w.target \in DOMAIN disk
      /\ (~w.tmp => w.target \in Targets) /\ w.tmp \in BOOLEAN
  BY <1>1, TargetFacts, WriteTyped DEF PlaceOK, Present, Exists
<1>3. disk[w.target] \in Files /\ disk["own"] \in Files
  BY <1>2 DEF DiskOK
<1>4. name' \in Targets \cup {NoName} /\ modified' \in BOOLEAN
  BY <1>1, <1>2 DEF CloseFile, ValuesOK
<1>5. stat' \in Stats
  <2>1. AnyStat \in Stats
    BY DEF AnyStat, Stats
  <2>2. ~w.tmp => <<w.target, disk[w.target].time>> \in Stats
    BY <1>2, <1>3 DEF Stats, Files
  <2> QED BY <1>1, <2>1, <2>2 DEF CloseFile, ValuesOK
<1>6. kept' \in Data
  <2>1. kept' = kept \/ kept' = disk["own"].data
    BY DEF CloseFile
  <2> QED BY <1>3, <2>1 DEF ValuesOK, Files
<1>7. unsaved' \in BOOLEAN /\ risked' \in BOOLEAN
  BY DEF CloseFile, ValuesOK
<1>8. UNCHANGED <<now, ver, troubles, mark, winch, disk, parts>>
  BY DEF CloseFile, rest, calm
<1>9. ValuesOK'
  BY <1>4, <1>5, <1>6, <1>7, <1>8 DEF ValuesOK
<1>10. PlaceOK'
  BY <1>1, <1>8, ReturnPlace DEF parts
<1> QED BY <1>8, <1>9, <1>10, DiskStays

\* The steps around the write of what is marked.
LEMMA MarkedTyped ==
  ASSUME Typed, PartitionMarked \/ UnpartitionMarked
  PROVE  Typed'
<1> USE DEF Typed
<1>1. DiskOK' /\ disk' = disk
  BY DiskStays DEF PartitionMarked, UnpartitionMarked
<1>2. ValuesOK'
  <2>1. UNCHANGED <<now, name, ver, modified, mark, winch, unsaved, kept, stat, troubles, risked>>
    BY DEF PartitionMarked, UnpartitionMarked, buffer, rest, calm
  <2> QED BY <2>1 DEF ValuesOK
<1>3. /\ w' \in Writes
      /\ w'.target = w.target /\ w'.append = w.append /\ w'.tmp = w.tmp
      /\ w'.marked = w.marked /\ w'.exiting = w.exiting
  BY DEF PartitionMarked, UnpartitionMarked, PlaceOK, ValuesOK, Writes
<1>4. mark' = mark /\ modified' = modified
  BY DEF PartitionMarked, UnpartitionMarked, buffer
<1>5. pc \in MarkPc /\ ~w.tmp /\ w.marked /\ w.tmp \in BOOLEAN
  <2>1. pc \in MarkPc
    BY Places DEF PartitionMarked, UnpartitionMarked, MarkedStep
  <2> QED BY <2>1, Places, WriteTyped DEF PlaceOK, Emergency, MarkedOnly
<1>6. ASSUME NEW from, NEW to \in (MarkPc \ {"partition"}) \cup {"stat"}, NEW t \in Texts,
             NEW part \in BOOLEAN, MarkedStep(from, to, t, part),
             to \in {"filepart", "magicline", "stat"} => w.target \in Targets,
             to = "filepart" => t = "part", Partitioned'
      PROVE  Typed'
  <2>1. pc' = to /\ text' = t /\ filepart' = part
    BY <1>6 DEF MarkedStep
  <2>2. Emergency' /\ MarkedOnly' /\ Present'
    BY <1>1, <1>3, <1>4, <1>5, <1>6, <2>1, Places
       DEF PlaceOK, Emergency, MarkedOnly, Present, BackupPc, Exists
  <2>3. PlaceOK'
    BY <1>3, <1>6, <2>1, <2>2, Places DEF PlaceOK, Pc
  <2> QED BY <1>1, <1>2, <2>3
<1>7. pc \in {"partition", "filepart", "magicline"} => w.target \in Targets
  BY <1>5 DEF PlaceOK, Present
<1>8. text \in Texts /\ filepart \in BOOLEAN /\ "part" \in Texts /\ "magicline" \in Texts
       /\ "whole" \in Texts
  BY DEF PlaceOK, Texts
<1>9. CASE PartitionMarked
  <2>1. CASE MarkedStep("partition", "filepart", "part", filepart)
    <3>1. Partitioned'
      BY <1>3, <1>5, <2>1, Places DEF MarkedStep, PlaceOK, Partitioned
    <3>2. w.target \in Targets
      BY <1>7, <2>1 DEF MarkedStep
    <3> QED BY <1>6, <1>8, <2>1, <3>1, <3>2, Places
  <2>2. CASE MarkedStep("filepart", "magicline", text, TRUE)
    <3>1. Partitioned'
      BY <1>3, <1>5, <2>2, Places DEF MarkedStep, PlaceOK, Partitioned
    <3>2. w.target \in Targets
      BY <1>7, <2>2 DEF MarkedStep
    <3> QED BY <1>6, <1>8, <2>2, <3>1, <3>2, Places
  <2>3. CASE MarkedStep("magicline", "stat", "magicline", filepart)
    <3>1. Partitioned'
      BY <1>3, <1>5, <2>3, Places DEF MarkedStep, PlaceOK, Partitioned
    <3>2. w.target \in Targets
      BY <1>7, <2>3 DEF MarkedStep
    <3> QED BY <1>6, <1>8, <2>3, <3>1, <3>2, Places
  <2> QED BY <1>1, <1>2, <1>9, <2>1, <2>2, <2>3 DEF PartitionMarked
<1>10. CASE UnpartitionMarked
  <2>1. CASE MarkedStep("unmagic", "unpartition", "part", filepart)
    <3>1. Partitioned'
      BY <1>3, <1>5, <2>1, Places DEF MarkedStep, PlaceOK, Partitioned
    <3> QED BY <1>6, <1>8, <2>1, <3>1, Places
  <2>2. CASE MarkedStep("unpartition", "unfilepart", "whole", filepart)
    <3>1. Partitioned'
      BY <1>3, <1>5, <2>2, Places DEF MarkedStep, PlaceOK, Partitioned
    <3> QED BY <1>6, <1>8, <2>2, <3>1, Places
  <2>3. CASE MarkedStep("unfilepart", "remodify", text, FALSE)
    <3>1. Partitioned'
      BY <1>3, <1>5, <2>3, Places DEF MarkedStep, PlaceOK, Partitioned
    <3> QED BY <1>6, <1>8, <2>3, <3>1, Places
  <2> QED BY <1>1, <1>2, <1>10, <2>1, <2>2, <2>3 DEF UnpartitionMarked
<1> QED BY <1>9, <1>10

\* Back in the main loop, with nothing in parts.
LEMMA ToMainPlace ==
  ASSUME pc' = "main", w' = NoWrite, text' \in Texts, filepart' \in BOOLEAN, ~filepart'
  PROVE  PlaceOK'
<1>1. w' \in Writes /\ ~w'.tmp /\ ~w'.marked
  BY NoWriteTyped DEF NoWrite
<1> QED BY <1>1, Places DEF PlaceOK, Emergency, MarkedOnly, Present, Partitioned, BackupPc, Pc

LEMMA RemodifyTyped ==
  ASSUME Typed, Remodify
  PROVE  Typed'
<1> USE DEF Typed
<1>1. ValuesOK'
  <2>1. modified' \in BOOLEAN
    BY WriteTyped DEF Remodify, ValuesOK, PlaceOK
  <2> QED BY <2>1 DEF Remodify, ValuesOK, rest, calm
<1>2. ~filepart
  BY Places DEF Remodify, PlaceOK, Partitioned
<1>3. PlaceOK'
  BY <1>2, ToMainPlace DEF Remodify, parts, PlaceOK
<1> QED BY <1>1, <1>3, DiskStays DEF Remodify

\* What die writes to.
LEMMA FreeSave ==
  ASSUME FreeSaves # {}
  PROVE  SaveNames[CHOOSE i \in FreeSaves : \A j \in FreeSaves : i <= j] \in Saves
<1>1. FreeSaves \subseteq {1, 2} /\ Len(SaveNames) = 2
  BY DEF FreeSaves, SaveNames
<1>2. \E i \in FreeSaves : \A j \in FreeSaves : i <= j
  <2>1. CASE 1 \in FreeSaves
    BY <1>1, <2>1
  <2>2. CASE 1 \notin FreeSaves
    <3>1. FreeSaves = {2}
      BY <1>1, <2>2
    <3> QED BY <3>1
  <2> QED BY <2>1, <2>2
<1>3. (CHOOSE i \in FreeSaves : \A j \in FreeSaves : i <= j) \in FreeSaves
  BY <1>2
<1>4. SaveNames[1] \in Saves /\ SaveNames[2] \in Saves
  BY DEF SaveNames, Saves
<1> HIDE DEF FreeSaves
<1> QED BY <1>1, <1>3, <1>4

LEMMA SignalTyped ==
  ASSUME Typed, HangUp \/ Resize
  PROVE  Typed'
<1> USE DEF Typed
<1>1. Unpartitioned \in Texts
  BY DEF Unpartitioned, Texts
<1>2. CASE HangUp
  <2>1. ValuesOK'
    BY <1>2 DEF HangUp, ValuesOK, buffer, rest, calm
  <2>2. DiskOK' /\ UNCHANGED <<modified, mark>> /\ pc \notin Ended
    BY <1>2, DiskStays, Places DEF HangUp, buffer
  <2>3. text' \in Texts /\ filepart' = (filepart /\ ~modified) /\ filepart' \in BOOLEAN
    BY <1>1, <1>2 DEF HangUp, PlaceOK
  <2>4. CASE modified /\ FreeSaves # {}
    <3>1. PICK n \in Saves : w' = [NoWrite EXCEPT !.tmp = TRUE, !.target = n]
      BY <1>2, <2>4, FreeSave DEF HangUp
    <3>2. w' \in Writes /\ w'.tmp /\ w'.target = n /\ w'.append = "OVERWRITE"
          /\ ~w'.marked /\ ~w'.exiting
      BY <3>1, NoWriteTyped, Distinct DEF NoWrite, Writes, Saves
    <3>3. pc' = "stat"
      BY <1>2, <2>4 DEF HangUp
    <3>4. PlaceOK'
      BY <2>2, <2>3, <2>4, <3>2, <3>3, Places
         DEF PlaceOK, Emergency, MarkedOnly, Present, Partitioned, BackupPc, Pc
    <3> QED BY <2>1, <2>2, <3>4
  <2>5. CASE ~(modified /\ FreeSaves # {})
    <3>1. pc' = "exited" /\ w' = w
      BY <1>2, <2>5 DEF HangUp
    <3>2. ~w.tmp /\ w.tmp \in BOOLEAN
      BY <1>2, WriteTyped DEF HangUp, PlaceOK
    <3>3. text' = text \/ ~filepart'
      BY <1>2, <2>3 DEF HangUp
    <3>4. PlaceOK'
      BY <2>2, <2>3, <3>1, <3>2, <3>3, Places
         DEF PlaceOK, Emergency, MarkedOnly, Present, Partitioned, BackupPc, Pc
    <3> QED BY <2>1, <2>2, <3>4
  <2> QED BY <2>4, <2>5
<1>3. CASE Resize
  <2>1. troubles' \in 0..MaxTroubles
    BY <1>3, TroubleTyped DEF Resize
  <2>2. ValuesOK'
    BY <1>3, <2>1 DEF Resize, ValuesOK, buffer
  <2>3. text' \in Texts
    BY <1>1, <1>3 DEF Resize, PlaceOK
  <2>4. PlaceOK'
    BY <1>3, <2>3, ToMainPlace DEF Resize
  <2> QED BY <1>3, <2>2, <2>4, DiskStays DEF Resize
<1> QED BY <1>2, <1>3

LEMMA StepTyped ==
  ASSUME Typed, [Next]_vars
  PROVE  Typed'
<1>1. CASE UNCHANGED vars
  <2>1. UNCHANGED <<disk, now, name, ver, modified, mark, winch, unsaved, kept, stat, troubles,
                    risked, pc, w, text, filepart>>
    BY <1>1 DEF vars
  <2>2. DiskOK' /\ ValuesOK' /\ PlaceOK'
    BY <2>1, PlaceStays DEF Typed, DiskOK, ValuesOK, PlaceOK, SameWrite
  <2> QED BY <2>2 DEF Typed
<1>2. CASE WriteStep
  BY <1>2, StatTyped, BackupTyped, PrependTyped, FileTyped, CloseTyped, MarkedTyped, RemodifyTyped
     DEF WriteStep
<1>3. CASE UserStep
  BY <1>3, MainTyped, AskingTyped, FailedBackupTyped DEF UserStep
<1>4. CASE HangUp \/ Resize
  BY <1>4, SignalTyped
<1> QED BY <1>1, <1>2, <1>3, <1>4 DEF Next

\* TypeOK holds: in particular, the text is in parts only while parts of it are
\* written, and the files that the next steps read are there.
THEOREM TypesCorrect == Spec => []TypeOK
<1>1. Typed /\ [Next]_vars => Typed'
  BY StepTyped
<1> QED BY <1>1, InitTyped, TypedIsTypeOK, PTL DEF Spec

-----------------------------------------------------------------------------
(* What is in the file that is written.                                    *)

\* d ends with lines.
Ends(d, lines) == \E p \in Data : d = p \o lines

\* When what is still to be written is added to it, the file ends with the lines.
Progress ==
    /\ pc = "write" =>
         /\ Ends(disk[w.target].data \o w.todo, Lines)
         /\ w.append = "OVERWRITE" => disk[w.target].data \o w.todo = Lines
    /\ pc \in {"rest", "close"} => Holds(disk[w.target].data, Lines)
    /\ pc = "close" /\ w.append = "OVERWRITE" => disk[w.target].data = Lines

LEMMA EndsHolds ==
  ASSUME NEW d \in Data, NEW lines \in Data, Ends(d, lines)
  PROVE  Holds(d, lines)
<1>1. PICK p \in Data : d = p \o lines
  BY DEF Ends
<1>2. /\ Len(p) \in Nat /\ Len(lines) \in Nat /\ Len(d) = Len(p) + Len(lines)
      /\ \A k \in 1..Len(lines) : d[Len(p) + k] = lines[k]
  BY <1>1 DEF Data
<1> DEFINE s == SubSeq(d, Len(p) + 1, Len(p) + Len(lines))
<1>3. s = lines
  <2>1. s \in Seq(Line) /\ Len(s) = Len(lines)
        /\ \A k \in 1..Len(s) : s[k] = d[Len(p) + k]
    BY <1>2 DEF Data
  <2> HIDE DEF s
  <2> QED BY <1>2, <2>1 DEF Data
<1>4. Len(p) \in 0..(Len(d) - Len(lines))
  BY <1>2
<1> HIDE DEF s
<1> QED BY <1>3, <1>4 DEF Holds, s

LEMMA HoldsItself ==
  ASSUME NEW d \in Data PROVE Holds(d, d)
<1>1. <<>> \in Data /\ d = <<>> \o d
  BY DEF Data
<1>2. Ends(d, d)
  BY <1>1 DEF Ends
<1> QED BY <1>2, EndsHolds

LEMMA HoldsMore ==
  ASSUME NEW d \in Data, NEW lines \in Data, NEW e \in Line, Holds(d, lines)
  PROVE  Holds(Append(d, e), lines)
<1>1. PICK i \in 0..(Len(d) - Len(lines)) : SubSeq(d, i + 1, i + Len(lines)) = lines
  BY DEF Holds
<1> DEFINE f == Append(d, e)
<1>2. f \in Seq(Line) /\ Len(f) = Len(d) + 1 /\ Len(d) \in Nat /\ Len(lines) \in Nat
      /\ \A k \in 1..Len(d) : f[k] = d[k]
  BY DEF Data
<1> HIDE DEF f
<1> DEFINE s == SubSeq(f, i + 1, i + Len(lines))
           r == SubSeq(d, i + 1, i + Len(lines))
<1>3. s = lines
  <2>1. i \in Nat /\ i + Len(lines) <= Len(d)
    BY <1>2
  <2>2. \A k \in (i + 1)..(i + Len(lines)) : f[k] = d[k] /\ f[k] \in Line
    BY <1>2, <2>1, ElementOfSeq DEF Data
  <2>3. /\ s \in Seq(Line) /\ Len(s) = Len(lines)
        /\ \A k \in 1..Len(lines) : s[k] = f[i + k]
    BY <1>2, <2>1, <2>2, SubSeqProperties
  <2>4. \A k \in 1..Len(lines) : r[k] = d[i + k]
    BY <1>2, <2>1, <2>2, SubSeqProperties
  <2>5. r = lines
    BY <1>1
  <2> HIDE DEF s, r
  <2>6. \A k \in 1..Len(lines) : s[k] = lines[k]
    BY <1>2, <2>1, <2>2, <2>3, <2>4, <2>5
  <2> QED BY <2>3, <2>6, SeqEqual DEF Data
<1>4. i \in 0..(Len(f) - Len(lines))
  BY <1>2
<1> HIDE DEF s
<1> QED BY <1>3, <1>4 DEF Holds, s, f

\* One line goes from what is to be written to what is written.
LEMMA MoveOne ==
  ASSUME NEW d \in Data, NEW t \in Data, t # <<>>
  PROVE  Append(d, Head(t)) \o Tail(t) = d \o t
<1>1. d \in Seq(Line) /\ t \in Seq(Line) /\ Len(t) \in Nat \ {0} /\ Head(t) = t[1]
      /\ t[1] \in Line
  BY DEF Data
<1>2. Head(t) \in Line /\ Tail(t) \in Seq(Line) /\ <<Head(t)>> \in Seq(Line)
  BY <1>1, HeadTailProperties
<1>3. Append(d, Head(t)) = d \o <<Head(t)>>
  BY <1>1, <1>2, AppendIsConcat
<1>4. t = <<Head(t)>> \o Tail(t)
  <2> DEFINE u == <<Head(t)>> \o Tail(t)
  <2>1. Len(Tail(t)) = Len(t) - 1 /\ \A k \in 1..Len(Tail(t)) : Tail(t)[k] = t[k + 1]
    BY <1>1, HeadTailProperties
  <2>2. /\ u \in Seq(Line) /\ Len(u) = 1 + Len(Tail(t))
        /\ \A k \in 1..(1 + Len(Tail(t))) :
              u[k] = IF k <= 1 THEN <<Head(t)>>[k] ELSE Tail(t)[k - 1]
    BY <1>2, ConcatProperties
  <2> HIDE DEF u
  <2>3. ASSUME NEW k \in 1..Len(t) PROVE u[k] = t[k]
    BY <1>1, <2>1, <2>2
  <2>4. Len(u) = Len(t)
    BY <1>1, <2>1, <2>2
  <2>5. u = t
    BY <1>1, <2>2, <2>3, <2>4, SeqEqual
  <2> QED BY <2>5 DEF u
<1>5. (d \o <<Head(t)>>) \o Tail(t) = d \o (<<Head(t)>> \o Tail(t))
  BY <1>1, <1>2, ConcatAssociative
<1> QED BY <1>3, <1>4, <1>5

\* A file is written in three steps only, after a return nothing is; another program
\* writes others meanwhile.
LEMMA WrittenBy ==
  ASSUME [Next]_vars, pc' \in {"write", "rest", "close"}
  PROVE  \/ OpenFile \/ WriteLine \/ CopyRest
         \/ \E n \in Targets : OtherProgram(n)
         \/ UNCHANGED vars
<1>1. ASSUME NEW ok, Return(ok) PROVE FALSE
  BY <1>1 DEF Return, ReturnPc
<1>2. ASSUME \/ RefuseSymlink \/ CannotOpen \/ CloseFile \/ CannotClose
      PROVE  FALSE
  BY <1>1, <1>2 DEF RefuseSymlink, CannotOpen, CloseFile, CannotClose
<1>3. ASSUME \/ StatFile \/ PrepareTemp \/ SaveOld
      PROVE  FALSE
  BY <1>1, <1>3 DEF StatFile, AfterBackup, PrepareTemp, SaveOld, Go, GoOn, Fails
<1>4. ASSUME \/ OpenOriginal \/ UnlinkBackup \/ CreateBackup \/ ChmodBackup \/ CopyBackup
             \/ UtimeBackup
      PROVE  FALSE
  BY <1>1, <1>4 DEF OpenOriginal, UnlinkBackup, CreateBackup, ChmodBackup, CopyBackup, UtimeBackup,
         AskBackup, AfterBackup, Go, GoOn, Fails
<1>5. ASSUME PartitionMarked \/ UnpartitionMarked \/ Remodify \/ HangUp \/ Resize
      PROVE  FALSE
  BY <1>5 DEF PartitionMarked, UnpartitionMarked, MarkedStep, Remodify, HangUp, Resize
<1>6. ASSUME UserStep PROVE \E n \in Targets : OtherProgram(n)
  <2>1. ASSUME NEW a, FailedBackup(a) PROVE FALSE
    BY <1>1, <2>1 DEF FailedBackup, AfterBackup
  <2>2. ASSUME Edit \/ DoMark \/ Speller \/ Cancel PROVE FALSE
    BY <2>2 DEF Edit, DoMark, Speller, Cancel
  <2>3. ASSUME NEW n, DoWriteout(n) \/ ToggleAppend(n) \/ EnterName(n) \/ Confirm(n)
        PROVE  FALSE
    BY <2>3 DEF DoWriteout, ToggleAppend, EnterName, Confirm
  <2> QED BY <1>6, <2>1, <2>2, <2>3 DEF UserStep
<1> QED BY <1>2, <1>3, <1>4, <1>5, <1>6 DEF Next, WriteStep

LEMMA InitProgress == Init => Progress
BY DEF Init, Progress

LEMMA StepProgress ==
  ASSUME Typed, Typed', Progress, [Next]_vars
  PROVE  Progress'
<1> SUFFICES ASSUME pc' \in {"write", "rest", "close"} PROVE Progress'
  BY DEF Progress
<1>1. CASE UNCHANGED vars
  BY <1>1 DEF vars, Progress, Lines
<1>10. ASSUME NEW m \in Targets, OtherProgram(m) PROVE Progress'
  <2>1. UNCHANGED <<pc, ver, text>> /\ SameWrite
    BY <1>10, OthersWrite DEF OtherProgram, buffer, parts, Typed
  <2>2. Lines' = Lines
    BY <2>1 DEF Lines
  <2>3. m # w.target
    BY <1>10, <2>1 DEF OtherProgram
  <2>4. w.target \in DOMAIN disk
    BY <2>1 DEF Typed, PlaceOK, Present, Exists
  <2>5. disk'[w.target] = disk[w.target]
    BY <1>10, <2>3, <2>4, OthersDisk DEF OthersFile
  <2> QED BY <2>1, <2>2, <2>5 DEF Progress, SameWrite
<1> SUFFICES ASSUME OpenFile \/ WriteLine \/ CopyRest PROVE Progress'
  BY <1>1, <1>10, WrittenBy
<1>2. /\ pc \in {"open", "write", "rest"} /\ UNCHANGED <<ver, text>>
      /\ w.target \in Names \ {"temp"} /\ now \in Nat /\ w \in Writes /\ w.todo \in Data
      /\ Lines \in Data /\ Lines' = Lines /\ DiskOK
  <2>1. pc \in {"open", "write", "rest"}
    BY DEF OpenFile, WriteLine, CopyRest
  <2>2. UNCHANGED <<ver, text>>
    BY DEF OpenFile, WriteLine, CopyRest, Go, GoOn, Fails, parts, buffer
  <2>3. w.target \in Names \ {"temp"} /\ w \in Writes
    BY <2>1, TargetFacts DEF Typed, PlaceOK
  <2>4. now \in Nat
    BY Bounds DEF Typed, ValuesOK
  <2>5. Lines' = Lines
    BY <2>2 DEF Lines
  <2> QED BY <2>1, <2>2, <2>3, <2>4, <2>5, LinesData, WriteTyped DEF Typed
<1> DEFINE n == w.target
<1>3. pc \in {"write", "rest"} => n \in DOMAIN disk /\ disk[n].data \in Data
  BY <1>2 DEF Typed, PlaceOK, Present, Exists, DiskOK, Files
<1>4. ASSUME NEW ok, Return(ok) PROVE FALSE
  BY <1>4 DEF Return, ReturnPc
<1>5. ASSUME NEW kind, Fails(kind) PROVE FALSE
  BY <1>4, <1>5 DEF Fails
<1>6. CASE OpenFile
  <2> DEFINE old == IF Exists(w.target) THEN disk[w.target].data ELSE <<>>
             data == IF w.append = "APPEND" THEN old ELSE <<>>
  <2>1. data \in Data /\ <<>> \in Data
    BY <1>2 DEF DiskOK, Files, Exists, Data
  <2>2. disk' = Written(n, data) /\ w' = [w EXCEPT !.todo = Lines] /\ Go("write")
    BY <1>4, <1>6 DEF OpenFile
  <2>3. w.append = "OVERWRITE" => data = <<>>
    OBVIOUS
  <2> HIDE DEF data
  <2>4. disk'[n].data = data
    BY <1>2, <2>1, <2>2, WrittenFacts
  <2>5. w'.target = n /\ w'.todo = Lines /\ w'.append = w.append /\ pc' = "write"
    BY <1>2, <2>2 DEF Writes, Go, GoOn
  <2>6. <<>> \o Lines = Lines
    BY <1>2 DEF Data
  <2>7. Ends(data \o Lines, Lines)
    BY <2>1 DEF Ends
  <2> QED BY <1>2, <2>3, <2>4, <2>5, <2>6, <2>7 DEF Progress
\* One line more.
<1>7. ASSUME w.todo # <<>>, pc \in {"write", "rest"},
             disk' = Written(n, Append(disk[n].data, Head(w.todo))),
             w' = [w EXCEPT !.todo = Tail(@)], Go(pc)
      PROVE  Progress'
  <2>1. Append(disk[n].data, Head(w.todo)) \in Data /\ Tail(w.todo) \in Data
        /\ Head(w.todo) \in Line
    BY <1>2, <1>3, <1>7, AppendTyped DEF Data
  <2>2. disk'[n].data = Append(disk[n].data, Head(w.todo))
    BY <1>2, <1>7, <2>1, WrittenFacts
  <2>3. w'.target = n /\ w'.todo = Tail(w.todo) /\ w'.append = w.append /\ pc' = pc
    BY <1>2, <1>7 DEF Writes, Go, GoOn
  <2>4. disk'[n].data \o w'.todo = disk[n].data \o w.todo
    BY <1>2, <1>3, <1>7, <2>2, <2>3, MoveOne
  <2>5. Holds(disk[n].data, Lines) => Holds(disk'[n].data, Lines)
    BY <1>2, <1>3, <1>7, <2>1, <2>2, HoldsMore
  <2> QED BY <1>2, <1>7, <2>3, <2>4, <2>5 DEF Progress
<1>8. CASE WriteLine
  <2>1. CASE /\ w.todo = <<>>
             /\ w' = [w EXCEPT !.todo = IF w.append = "PREPEND" THEN disk["temp"].data ELSE <<>>]
             /\ Go(IF w.append = "PREPEND" THEN "rest" ELSE "close")
             /\ UNCHANGED <<disk, risked>>
    <3>1. disk[n].data \o w.todo = disk[n].data /\ pc = "write"
      BY <1>3, <1>8, <2>1 DEF Data, WriteLine
    <3>2. Ends(disk[n].data, Lines) /\ (w.append = "OVERWRITE" => disk[n].data = Lines)
      BY <3>1 DEF Progress
    <3>3. Holds(disk[n].data, Lines)
      BY <1>2, <1>3, <3>1, <3>2, EndsHolds
    <3>4. w'.target = n /\ w'.append = w.append /\ disk' = disk /\ pc' \in {"rest", "close"}
      BY <1>2, <2>1 DEF Writes, Go, GoOn
    <3> QED BY <1>2, <3>2, <3>3, <3>4 DEF Progress
  <2> QED BY <1>5, <1>7, <1>8, <2>1 DEF WriteLine
<1>9. CASE CopyRest
  BY <1>4, <1>5, <1>7, <1>9 DEF CopyRest
<1> QED BY <1>6, <1>8, <1>9

\* Three steps change the modified flag.
LEMMA ModifiedBy ==
  ASSUME [Next]_vars, modified' # modified
  PROVE  Edit \/ CloseFile \/ Remodify
<1>1. ASSUME \/ RefuseSymlink \/ StatFile \/ CannotOpen \/ CannotClose \/ UNCHANGED vars
      PROVE  FALSE
  BY <1>1 DEF RefuseSymlink, StatFile, CannotOpen, CannotClose, vars, buffer
<1>2. ASSUME \/ OpenOriginal \/ UnlinkBackup \/ CreateBackup \/ ChmodBackup \/ CopyBackup
             \/ UtimeBackup
      PROVE  FALSE
  BY <1>2 DEF OpenOriginal, UnlinkBackup, CreateBackup, ChmodBackup, CopyBackup, UtimeBackup,
         AskBackup, Go, GoOn, Fails, buffer
<1>3. ASSUME \/ PrepareTemp \/ SaveOld \/ OpenFile \/ WriteLine \/ CopyRest
      PROVE  FALSE
  BY <1>3 DEF PrepareTemp, SaveOld, OpenFile, WriteLine, CopyRest, Go, GoOn, Fails, buffer
<1>4. ASSUME PartitionMarked \/ UnpartitionMarked \/ HangUp \/ Resize
      PROVE  FALSE
  BY <1>4 DEF PartitionMarked, UnpartitionMarked, HangUp, Resize, buffer
<1>5. ASSUME UserStep, ~Edit PROVE FALSE
  <2>1. ASSUME NEW n, \/ OtherProgram(n) \/ DoWriteout(n) \/ ToggleAppend(n) \/ EnterName(n)
                      \/ Confirm(n) \/ FailedBackup(n)
        PROVE  FALSE
    BY <2>1 DEF OtherProgram, DoWriteout, ToggleAppend, EnterName, Confirm, FailedBackup, buffer
  <2>2. ASSUME DoMark \/ Speller \/ Cancel PROVE FALSE
    BY <2>2 DEF DoMark, Speller, Cancel, buffer
  <2> QED BY <1>5, <2>1, <2>2 DEF UserStep
<1> QED BY <1>1, <1>2, <1>3, <1>4, <1>5 DEF Next, WriteStep

\* write_file clears the modified flag only when the lines it was to write, all of
\* them, are what is in the file.
THEOREM ClearedOnlyWhenSaved == Spec => ClearedWhenSaved
<1>1. Typed /\ Progress /\ [Next]_vars => Typed' /\ Progress'
  BY StepTyped, StepProgress
<1>2. ASSUME Typed, Progress, [Next]_vars, modified, ~modified'
      PROVE  disk'[w.target].data = Lines
  <2>1. ASSUME CloseFile PROVE disk'[w.target].data = Lines
    <3>1. pc = "close" /\ w.append = "OVERWRITE" /\ disk' = disk
      BY <1>2, <2>1 DEF CloseFile
    <3> QED BY <1>2, <3>1 DEF Progress
  <2>2. ASSUME Edit \/ Remodify PROVE FALSE
    BY <1>2, <2>2 DEF Edit, Remodify
  <2> QED BY <1>2, <2>1, <2>2, ModifiedBy
<1> QED BY <1>1, <1>2, InitTyped, InitProgress, PTL DEF Spec, ClearedWhenSaved

-----------------------------------------------------------------------------
(* What the calls of write_file leave as it is.                            *)

\* All steps of write_file but the first and the last one.
Call ==
    \/ RefuseSymlink
    \/ OpenOriginal \/ UnlinkBackup \/ CreateBackup \/ ChmodBackup \/ CopyBackup \/ UtimeBackup
    \/ PrepareTemp \/ SaveOld
    \/ OpenFile \/ CannotOpen \/ WriteLine \/ CopyRest \/ CannotClose
    \/ \E a \in {"yes", "no", "cancel"} : FailedBackup(a)

\* A step that does not return goes on with the same arguments.
Onward ==
    /\ pc' \in WritePc \cup {"askbackup", "aborted"}
    /\ \E d : w' = [w EXCEPT !.todo = d]

LEMMA CallFacts ==
  ASSUME w \in Writes, Call
  PROVE  /\ UNCHANGED <<now, flags, winch, name, stat, ver, modified, mark, unsaved, kept,
                        text, filepart>>
         /\ pc \in WritePc \cup {"askbackup"}
         /\ Onward \/ \E ok \in BOOLEAN : Return(ok)
<1>1. w = [w EXCEPT !.todo = w.todo]
  BY DEF Writes
<1>2. ASSUME w' = w PROVE \E d : w' = [w EXCEPT !.todo = d]
  BY <1>1, <1>2
<1>3. AfterBackup \in WritePc
  BY Places DEF AfterBackup
<1>4. ASSUME NEW kind, AskBackup(kind)
      PROVE  Onward /\ UNCHANGED <<buffer, parts, calm>>
  BY <1>2, <1>4 DEF AskBackup, GoOn, Onward
<1>5. ASSUME NEW kind, Fails(kind)
      PROVE  (\E ok \in BOOLEAN : Return(ok)) /\ UNCHANGED <<buffer, parts, calm>>
  BY <1>5 DEF Fails
<1>6. ASSUME NEW where \in WritePc \cup {"askbackup", "aborted"}, GoOn(where) \/ Go(where),
             \E d : w' = [w EXCEPT !.todo = d]
      PROVE  Onward /\ UNCHANGED <<buffer, parts, calm>>
  BY <1>6 DEF Go, GoOn, Onward
<1> DEFINE Goal == /\ UNCHANGED <<buffer, parts, calm>>
                   /\ pc \in WritePc \cup {"askbackup"}
                   /\ Onward \/ \E ok \in BOOLEAN : Return(ok)
<1>7. Goal
  <2>1. CASE RefuseSymlink
    BY <2>1, Places DEF RefuseSymlink, rest
  <2>2. CASE OpenOriginal
    BY <1>2, <1>3, <1>6, <2>2, Places DEF OpenOriginal
  <2>3. CASE UnlinkBackup
    BY <1>2, <1>4, <1>6, <2>3, Places DEF UnlinkBackup
  <2>4. CASE CreateBackup
    BY <1>2, <1>5, <1>6, <2>4, Places DEF CreateBackup
  <2>5. CASE ChmodBackup
    <3>1. CASE Go("bcopy") /\ w' = [w EXCEPT !.todo = disk[w.target].data]
      BY <1>6, <2>5, <3>1, Places DEF ChmodBackup
    <3> QED BY <1>2, <1>4, <1>6, <2>5, <3>1, Places DEF ChmodBackup
  <2>6. CASE CopyBackup
    BY <1>2, <1>5, <1>6, <2>6, Places DEF CopyBackup
  <2>7. CASE UtimeBackup
    BY <1>2, <1>3, <1>4, <1>6, <2>7, Places DEF UtimeBackup
  <2>8. CASE PrepareTemp
    BY <1>2, <1>5, <1>6, <2>8, Places DEF PrepareTemp, rest
  <2>9. CASE SaveOld
    BY <1>2, <1>6, <2>9, Places DEF SaveOld
  <2>10. CASE OpenFile
    BY <1>6, <2>10, Places DEF OpenFile
  <2>11. CASE CannotOpen
    BY <2>11, Places DEF CannotOpen
  <2>12. CASE WriteLine
    BY <1>5, <1>6, <2>12, Places DEF WriteLine
  <2>13. CASE CopyRest
    BY <1>5, <1>6, <2>13, Places DEF CopyRest
  <2>14. CASE CannotClose
    BY <2>14, Places DEF CannotClose
  <2>15. ASSUME NEW a, FailedBackup(a) PROVE Goal
    <3>1. UNCHANGED <<buffer, parts, calm>> /\ pc = "askbackup"
      BY <2>15 DEF FailedBackup, rest
    <3>2. (pc' = AfterBackup /\ UNCHANGED w) \/ Return(FALSE)
      BY <2>15 DEF FailedBackup
    <3> QED BY <1>2, <1>3, <3>1, <3>2, Places DEF Onward
  <2> HIDE DEF Goal
  <2> QED BY <2>1, <2>2, <2>3, <2>4, <2>5, <2>6, <2>7, <2>8, <2>9, <2>10, <2>11, <2>12, <2>13,
             <2>14, <2>15 DEF Call
<1> QED BY <1>7 DEF buffer, parts, calm

\* Where a call leads, and the arguments there.
LEMMA CallArguments ==
  ASSUME Typed, Call
  PROVE  /\ pc' \in WritePc \cup {"askbackup", "aborted", "exited", "unmagic", "prompt", "main"}
         /\ w'.tmp = w.tmp /\ w.tmp \in BOOLEAN
         /\ w.tmp => pc' \in WritePc \cup {"askbackup"} \cup Ended
         /\ pc' \notin {"main", "exited"} =>
              /\ w'.target = w.target /\ w'.append = w.append /\ w'.marked = w.marked
              /\ w'.exiting = w.exiting /\ w'.auto = w.auto /\ w'.asked = w.asked /\ w'.late = w.late
              /\ w'.oldmod = w.oldmod
         /\ pc' = "unmagic" => w.marked
         /\ pc' \in {"main", "exited"} => w'.auto = FALSE
<1>1. w \in Writes /\ PlaceOK /\ NoWrite \in Writes
  BY NoWriteTyped DEF Typed, PlaceOK
<1>2. pc \in WritePc \cup {"askbackup"} /\ (Onward \/ \E ok \in BOOLEAN : Return(ok))
  BY <1>1, CallFacts
<1>3. CASE Onward
  <2>1. PICK d : w' = [w EXCEPT !.todo = d]
    BY <1>3 DEF Onward
  <2>2. /\ w'.target = w.target /\ w'.append = w.append /\ w'.marked = w.marked
        /\ w'.exiting = w.exiting /\ w'.auto = w.auto /\ w'.asked = w.asked /\ w'.late = w.late
        /\ w'.oldmod = w.oldmod /\ w'.tmp = w.tmp
    BY <1>1, <2>1 DEF Writes
  <2> QED BY <1>1, <1>3, <2>2, Places, WriteTyped DEF Onward
<1>4. ASSUME NEW ok \in BOOLEAN, Return(ok)
      PROVE  /\ pc' \in {"exited", "unmagic", "prompt", "main"}
             /\ w'.tmp = w.tmp /\ w.tmp \in BOOLEAN
             /\ w.tmp => pc' = "exited"
             /\ pc' \notin {"main", "exited"} =>
                  /\ w'.target = w.target /\ w'.append = w.append /\ w'.marked = w.marked
                  /\ w'.exiting = w.exiting /\ w'.auto = w.auto /\ w'.asked = w.asked /\ w'.late = w.late
                  /\ w'.oldmod = w.oldmod
             /\ pc' = "unmagic" => w.marked
             /\ pc' \in {"main", "exited"} => w'.auto = FALSE
  <2>1. /\ pc' \in {"exited", "unmagic", "prompt", "main"}
        /\ pc' = "exited" <=> w.tmp \/ (w.exiting /\ ok /\ ~w.marked)
        /\ pc' = "unmagic" <=> ~w.tmp /\ w.marked
        /\ w' = IF pc' \in {"main", "exited"} THEN [NoWrite EXCEPT !.ok = ok, !.tmp = w.tmp]
                                              ELSE [w EXCEPT !.ok = ok]
    BY <1>1, <1>2, <1>4, ReturnFacts
  <2>2. w.tmp \in BOOLEAN
    BY <1>1, WriteTyped
  <2>3. CASE pc' \in {"main", "exited"}
    <3>1. w'.tmp = w.tmp /\ w'.auto = FALSE
      BY <2>1, <2>3 DEF NoWrite
    <3> QED BY <2>1, <2>2, <2>3, <3>1
  <2>4. CASE pc' \notin {"main", "exited"}
    <3>1. /\ w'.target = w.target /\ w'.append = w.append /\ w'.marked = w.marked
          /\ w'.exiting = w.exiting /\ w'.auto = w.auto /\ w'.asked = w.asked /\ w'.late = w.late
          /\ w'.oldmod = w.oldmod /\ w'.tmp = w.tmp
      BY <1>1, <2>1, <2>4 DEF Writes
    <3> QED BY <2>1, <2>2, <2>4, <3>1
  <2> QED BY <2>3, <2>4
<1> QED BY <1>2, <1>3, <1>4, Places

\* A step changes no file but f, which it writes now or removes.
Only(f) ==
    /\ \A m \in DOMAIN disk : m # f => m \in DOMAIN disk' /\ disk'[m] = disk[m]
    /\ \A m \in DOMAIN disk' : IF m = f THEN disk'[m].time = now ELSE m \in DOMAIN disk

LEMMA OnlyWritten ==
  ASSUME NEW n, NEW d, disk' = Written(n, d)
  PROVE  Only(n) /\ n \in DOMAIN disk' /\ disk'[n].data = d /\ disk'[n].time = now
BY DEF Written, File, Only

LEMMA OnlyRemoved ==
  ASSUME NEW n, disk' = Removed(n)
  PROVE  Only(n) /\ n \notin DOMAIN disk'
BY DEF Removed, Only

\* The one file that a call writes.
LEMMA CallDisk ==
  ASSUME Call
  PROVE  \/ disk' = disk
         \/ pc \in BackupPc /\ Only(Backup)
         \/ pc \in {"prepare", "save", "open", "rest"} /\ Only("temp")
         \/ pc \in {"open", "write", "rest", "close"} /\ Only(w.target) /\ w.target \in DOMAIN disk'
<1>1. ASSUME NEW kind, Fails(kind) \/ AskBackup(kind) PROVE disk' = disk
  BY <1>1 DEF Fails, AskBackup
<1>2. CASE \/ RefuseSymlink \/ \E a \in {"yes", "no", "cancel"} : FailedBackup(a)
  BY <1>2 DEF RefuseSymlink, FailedBackup
<1>3. CASE OpenOriginal \/ UnlinkBackup \/ CreateBackup \/ ChmodBackup \/ CopyBackup \/ UtimeBackup
  <2>1. pc \in BackupPc
    BY <1>3 DEF OpenOriginal, UnlinkBackup, CreateBackup, ChmodBackup, CopyBackup, UtimeBackup,
           BackupPc
  <2>2. disk' = disk \/ disk' = Removed(Backup) \/ \E d : disk' = Written(Backup, d)
    BY <1>1, <1>3 DEF OpenOriginal, UnlinkBackup, CreateBackup, ChmodBackup, CopyBackup, UtimeBackup
  <2> QED BY <2>1, <2>2, OnlyWritten, OnlyRemoved
<1>4. CASE PrepareTemp \/ SaveOld \/ CannotOpen
  <2>1. pc \in {"prepare", "save", "open"}
    BY <1>4 DEF PrepareTemp, SaveOld, CannotOpen
  <2>2. disk' = disk \/ disk' = Removed("temp") \/ \E d : disk' = Written("temp", d)
    BY <1>1, <1>4 DEF PrepareTemp, SaveOld, CannotOpen
  <2> QED BY <2>1, <2>2, OnlyWritten, OnlyRemoved
<1>5. CASE OpenFile \/ WriteLine \/ CannotClose
  <2>1. pc \in {"open", "write", "close"}
    BY <1>5 DEF OpenFile, WriteLine, CannotClose
  <2>2. disk' = disk \/ \E d : disk' = Written(w.target, d)
    BY <1>1, <1>5 DEF OpenFile, WriteLine, CannotClose
  <2> QED BY <2>1, <2>2, OnlyWritten
<1>6. CASE CopyRest
  <2>1. pc = "rest"
    BY <1>6 DEF CopyRest
  <2>2. disk' = disk \/ disk' = Removed("temp") \/ \E d : disk' = Written(w.target, d)
    BY <1>1, <1>6 DEF CopyRest
  <2> QED BY <2>1, <2>2, OnlyWritten, OnlyRemoved
<1> QED BY <1>2, <1>3, <1>4, <1>5, <1>6 DEF Call

\* A call writes one of the user's two files only once its backup is made.
LEMMA CallTarget ==
  ASSUME Typed, Call, NEW n \in Targets, n \in DOMAIN disk
  PROVE  /\ n \in DOMAIN disk'
         /\ disk'[n] = disk[n] \/ /\ n = w.target /\ ~w.tmp
                                  /\ pc \in {"open", "write", "rest", "close"}
                                  /\ disk'[n].time = now
<1>1. Targets = {"own", "other"}
  BY Distinct
<1>2. CASE disk' = disk
  BY <1>2
<1>3. CASE pc \in BackupPc /\ Only(Backup)
  <2>1. Backup \in {"own~", "other~"}
    BY <1>3, BackupFacts DEF Typed
  <2> QED BY <1>1, <1>3, <2>1 DEF Only
<1>4. CASE Only("temp")
  BY <1>1, <1>4 DEF Only
<1>5. CASE pc \in {"open", "write", "rest", "close"} /\ Only(w.target) /\ w.target \in DOMAIN disk'
  <2>1. w.tmp => w.target \in Saves
    BY <1>5, Places DEF Typed, PlaceOK, Emergency
  <2>2. n = w.target => ~w.tmp
    BY <1>1, <2>1 DEF Saves
  <2> QED BY <1>5, <2>2 DEF Only
<1> QED BY <1>2, <1>3, <1>4, <1>5, CallDisk

\* Nothing happens once pinot has ended.
LEMMA EndedStays ==
  ASSUME [Next]_vars, pc \in Ended PROVE UNCHANGED vars
<1>1. ASSUME WriteStep PROVE FALSE
  BY <1>1, Places DEF WriteStep, RefuseSymlink, StatFile, OpenOriginal, UnlinkBackup, CreateBackup,
        ChmodBackup, CopyBackup, UtimeBackup, PrepareTemp, SaveOld, OpenFile, CannotOpen,
        WriteLine, CopyRest, CloseFile, CannotClose, PartitionMarked, UnpartitionMarked,
        MarkedStep, Remodify
<1>2. ASSUME UserStep PROVE FALSE
  BY <1>2, Places DEF UserStep, Edit, DoMark, Speller, OtherProgram, DoWriteout, Cancel,
        ToggleAppend, EnterName, Confirm, FailedBackup
<1>3. ASSUME HangUp \/ Resize PROVE FALSE
  BY <1>3, Places DEF HangUp, Resize
<1> QED BY <1>1, <1>2, <1>3 DEF Next

-----------------------------------------------------------------------------
(* What is known of the buffer's file.                                     *)

\* Only an overwriting is confirmed, and only what is written at exit can be
\* written without asking.
Questions ==
    /\ pc = "confirm" => w.append = "OVERWRITE"
    /\ w.auto => w.exiting

LEMMA StepQuestions ==
  ASSUME Typed, Questions, [Next]_vars
  PROVE  Questions'
<1>1. w \in Writes /\ NoWrite \in Writes /\ NoWrite.auto = FALSE
  BY NoWriteTyped DEF Typed, PlaceOK, NoWrite
<1>2. CASE Call
  BY <1>2, CallArguments, Places DEF Questions
<1>3. CASE UNCHANGED <<pc, w>>
  BY <1>3 DEF Questions
<1>4. ASSUME NEW n \in Targets, EnterName(n) PROVE Questions'
  <2>1. w' = [w EXCEPT !.target = n, !.auto = FALSE, !.asked = FALSE, !.late = FALSE]
    BY <1>4 DEF EnterName
  <2>2. ~w'.auto /\ w'.append = w.append
    BY <1>1, <2>1 DEF Writes
  <2>3. w.append # "OVERWRITE" => pc' # "confirm"
    BY <1>4 DEF EnterName, AskFor
  <2> QED BY <2>2, <2>3 DEF Questions
<1>5. ASSUME NEW e \in BOOLEAN, DoWriteout(e) PROVE Questions'
  <2>1. /\ w' = [NoWrite EXCEPT !.exiting = e,
                                !.auto = e /\ name # NoName /\ "TEMP_FILE" \in flags,
                                !.target = name,
                                !.marked = ~e /\ mark]
        /\ pc' # "confirm"
    BY <1>5 DEF DoWriteout
  <2>2. w'.auto => w'.exiting
    BY <2>1 DEF NoWrite
  <2> QED BY <2>1, <2>2 DEF Questions
<1>6. ASSUME \/ \E yes \in BOOLEAN : Confirm(yes)
             \/ \E how \in {"PREPEND", "APPEND"} : ToggleAppend(how)
             \/ PartitionMarked \/ UnpartitionMarked
      PROVE  Questions'
  <2>1. w'.auto = w.auto /\ w'.exiting = w.exiting
    BY <1>1, <1>6 DEF Confirm, ToggleAppend, PartitionMarked, UnpartitionMarked, Writes
  <2>2. pc' # "confirm"
    BY <1>6 DEF Confirm, ToggleAppend, PartitionMarked, UnpartitionMarked, MarkedStep
  <2> QED BY <2>1, <2>2 DEF Questions
<1>7. ASSUME Cancel \/ Remodify \/ Resize PROVE Questions'
  <2>1. pc' = "main" /\ w' = NoWrite
    BY <1>7 DEF Cancel, Remodify, Resize
  <2> QED BY <1>1, <2>1 DEF Questions
<1>8. CASE HangUp
  <2>1. pc' # "confirm"
    BY <1>8 DEF HangUp
  <2>2. w' = w \/ w'.auto = FALSE
    BY <1>8 DEF HangUp, NoWrite
  <2> QED BY <2>1, <2>2 DEF Questions
<1>9. ASSUME StatFile \/ CloseFile PROVE Questions'
  <2>1. CASE UNCHANGED w
    BY <1>9, <2>1 DEF StatFile, CloseFile, Return, ReturnPc, AfterBackup, Questions
  <2>2. ASSUME NEW ok \in BOOLEAN, Return(ok) PROVE Questions'
    <3>1. pc \in WritePc
      BY <1>9, Places DEF StatFile, CloseFile
    <3>2. /\ pc' \in {"exited", "unmagic", "prompt", "main"}
          /\ w' = IF pc' \in {"main", "exited"} THEN [NoWrite EXCEPT !.ok = ok, !.tmp = w.tmp]
                                                ELSE [w EXCEPT !.ok = ok]
      BY <2>2, <3>1, ReturnFacts DEF Typed
    <3>3. (w'.auto = w.auto /\ w'.exiting = w.exiting) \/ ~w'.auto
      BY <1>1, <3>2 DEF NoWrite, Writes
    <3> QED BY <3>2, <3>3 DEF Questions
  <2> QED BY <1>9, <2>1, <2>2 DEF StatFile, CloseFile
<1>10. CASE Edit \/ DoMark \/ Speller
  BY <1>3, <1>10 DEF Edit, DoMark, Speller
<1>11. CASE UNCHANGED vars
  BY <1>3, <1>11 DEF vars
<1>12. ASSUME NEW n \in Targets, OtherProgram(n) PROVE Questions'
  <2>1. UNCHANGED pc /\ SameWrite
    BY <1>12, OthersWrite DEF OtherProgram, Typed
  <2> QED BY <2>1 DEF Questions, SameWrite
<1> QED BY <1>12, <1>2, <1>4, <1>5, <1>6, <1>7, <1>8, <1>9, <1>10, <1>11
      DEF Next, WriteStep, UserStep, Call

\* Between the main loop and the end.
Going == Asking \cup WritePc \cup MarkPc

\* The stat of a buffer that has a name is that of its file, as it was some time ago:
\* in a former second, while a write goes on.
NameDated ==
    /\ stat[1] = name /\ Exists(name) /\ stat[2] <= disk[name].time
    /\ disk[name].data = Text(Foreign) => stat[2] < disk[name].time
    /\ pc \in Going /\ ~w.tmp => stat[2] < now
Dated ==
    /\ \A m \in DOMAIN disk : disk[m].time <= now
    /\ stat[2] <= now
    /\ name # NoName /\ pc \notin Ended => NameDated

LEMMA InitDated == Init => Dated /\ Questions
<1> SUFFICES ASSUME Init PROVE Dated /\ Questions
  OBVIOUS
<1>1. /\ DOMAIN disk = {"own"} /\ disk["own"].time = 0 /\ now = 0 /\ pc = "main"
      /\ disk["own"].data = Text(IF name = "own" THEN 0 ELSE Foreign)
  BY DEF Init
<1>2. stat[2] = 0 /\ (name # NoName => name = "own" /\ stat[1] = "own")
  BY DEF Init, NoStat
<1>3. Text(0) # Text(Foreign)
  BY DEF Text, Foreign
<1>4. w = NoWrite /\ NoWrite.auto = FALSE
  BY DEF Init, NoWrite
<1>5. name # NoName => NameDated
  BY <1>1, <1>2, <1>3, Places DEF NameDated, Exists, Going, NoName
<1> QED BY <1>1, <1>2, <1>4, <1>5 DEF Dated, Questions

\* What the buffer's lines are is not what another program writes.
LEMMA LinesNotForeign ==
  ASSUME ValuesOK
  PROVE  Lines # Text(Foreign)
<1>1. ver # Foreign
  BY Bounds DEF ValuesOK, Foreign
<1>2. CASE text = "whole" \/ text = "extra"
  BY <1>1, <1>2 DEF Lines, Text
<1>3. CASE ~(text = "whole" \/ text = "extra")
  <2>1. Len(Marked(ver)) = 1 /\ Len(Text(Foreign)) = 2
    BY DEF Marked, Text
  <2> QED BY <1>3, <2>1 DEF Lines
<1> QED BY <1>2, <1>3

\* Times are numbers.
LEMMA Times ==
  ASSUME DiskOK, ValuesOK
  PROVE  /\ now \in Nat /\ stat[2] \in Nat
         /\ \A m \in DOMAIN disk : disk[m].time \in Nat /\ disk[m].data \in Data
<1>1. now \in Nat
  BY Bounds DEF ValuesOK
<1>2. stat[2] \in Nat
  BY DEF ValuesOK, Stats
<1> QED BY <1>1, <1>2 DEF DiskOK, Files

\* While nothing changes the files, the buffer and the clock.
LEMMA DatedStays ==
  ASSUME Dated, UNCHANGED <<disk, now, name, stat>>,
         pc \in Ended => pc' \in Ended,
         pc' \in Going /\ ~w'.tmp => pc \in Going /\ ~w.tmp
  PROVE  Dated'
<1>1. ASSUME name # NoName, pc' \notin Ended PROVE NameDated'
  BY <1>1 DEF Dated, NameDated, Exists
<1> QED BY <1>1 DEF Dated

LEMMA CallDated ==
  ASSUME Typed, Typed', Dated, Call
  PROVE  Dated'
<1>1. UNCHANGED <<now, name, stat>> /\ pc \in WritePc \cup {"askbackup"} /\ pc \notin Ended
  BY CallFacts, Places DEF Typed, PlaceOK
<1>2. \A m \in DOMAIN disk' : disk'[m].time <= now'
  <2>1. now \in Nat
    BY Times DEF Typed
  <2>2. disk' = disk \/ \E f : Only(f)
    BY CallDisk
  <2> QED BY <1>1, <2>1, <2>2 DEF Only, Dated
<1>3. ASSUME name # NoName, pc' \notin Ended PROVE NameDated'
  <2>1. name \in Targets /\ NameDated /\ name \in DOMAIN disk
    BY <1>1, <1>3 DEF Typed, ValuesOK, Dated, NameDated, Exists
  <2>2. w'.tmp = w.tmp /\ pc \in Going
    BY <1>1, CallArguments DEF Going, Asking
  <2>3. /\ name \in DOMAIN disk'
        /\ disk'[name] = disk[name] \/ (~w.tmp /\ disk'[name].time = now)
    BY <2>1, CallTarget
  <2>4. CASE disk'[name] = disk[name]
    BY <1>1, <2>1, <2>2, <2>3, <2>4 DEF NameDated, Exists
  <2>5. CASE ~w.tmp /\ disk'[name].time = now
    <3>1. stat[2] < now
      BY <2>1, <2>2, <2>5 DEF NameDated
    <3> QED BY <1>1, <2>1, <2>2, <2>3, <2>5, <3>1, Times DEF NameDated, Exists, Typed
  <2> QED BY <2>3, <2>4, <2>5
<1> QED BY <1>1, <1>2, <1>3 DEF Dated

LEMMA CloseDated ==
  ASSUME Typed, Typed', Progress, Questions, Dated, CloseFile
  PROVE  Dated'
<1>1. /\ pc = "close" /\ pc \in WritePc /\ pc \in Going /\ pc \notin Ended /\ Return(TRUE)
      /\ UNCHANGED <<now, disk>>
  BY Places DEF CloseFile, rest, calm, Going
<1>2. /\ w \in Writes /\ w.tmp \in BOOLEAN /\ w.marked \in BOOLEAN /\ w.exiting \in BOOLEAN
      /\ w.target \in DOMAIN disk /\ mark \in BOOLEAN
      /\ ~w.tmp => w.target \in Targets
  BY <1>1, WriteTyped, TargetFacts DEF Typed, PlaceOK, Present, Exists, ValuesOK
<1>3. ~w.tmp => w.marked = (~w.exiting /\ mark)
  BY <1>1 DEF Typed, PlaceOK, MarkedOnly
<1>4. /\ pc' = "exited" <=> w.tmp \/ (w.exiting /\ ~w.marked)
      /\ pc' = "unmagic" <=> ~w.tmp /\ w.marked
      /\ pc' \in {"exited", "unmagic", "prompt", "main"}
      /\ pc' = "prompt" => ~w.tmp /\ ~w.marked /\ w.auto
  BY <1>1, ReturnFacts DEF Typed
<1>5. pc' # "prompt"
  BY <1>2, <1>4 DEF Questions
<1>6. now \in Nat /\ stat[2] \in Nat /\ disk[w.target].time \in Nat
      /\ disk[w.target].time <= now
  BY <1>2, Times DEF Typed, Dated
<1>7. stat'[2] <= now'
  <2>1. AnyStat[2] = 0
    BY DEF AnyStat
  <2>2. stat' = stat \/ stat' = AnyStat \/ stat' = <<w.target, disk[w.target].time>>
    BY DEF CloseFile
  <2> QED BY <1>1, <1>6, <2>1, <2>2 DEF Dated
<1>8. ASSUME name' # NoName, pc' \notin Ended PROVE NameDated'
  <2>1. ~w.tmp /\ ~(w.exiting /\ ~w.marked)
    BY <1>4, <1>8 DEF Ended
  \* Neither the name nor the stat changes.
  <2>2. CASE UNCHANGED <<name, stat>>
    <3>1. NameDated
      BY <1>1, <1>8, <2>2 DEF Dated
    <3>2. pc' \in Going /\ ~w'.tmp => pc \in Going /\ ~w.tmp
      BY <1>1, <2>1
    <3> QED BY <1>1, <2>2, <3>1, <3>2 DEF NameDated, Exists
  <2>3. CASE ~UNCHANGED <<name, stat>>
    <3>1. /\ w.append = "OVERWRITE"
          /\ name' = IF w.marked THEN name ELSE w.target
          /\ stat' = IF ~mark THEN <<w.target, disk[w.target].time>>
                     ELSE IF stat = NoStat THEN AnyStat ELSE stat
      BY <2>1, <2>3 DEF CloseFile
    \* Of what is marked, a buffer with a name has a stat already.
    <3>2. ~w.marked
      <4>1. ASSUME w.marked PROVE FALSE
        <5>1. mark /\ name' = name
          BY <1>3, <2>1, <3>1, <4>1
        <5>2. stat[1] = name
          BY <1>1, <1>8, <5>1 DEF Dated, NameDated
        <5>3. NoStat[1] = NoName
          BY DEF NoStat, NoName
        <5>4. stat # NoStat
          BY <1>8, <5>1, <5>2, <5>3
        <5> QED BY <2>3, <3>1, <5>1, <5>4
      <4> QED BY <4>1
    <3>3. ~mark /\ pc' = "main"
      BY <1>2, <1>3, <1>4, <1>5, <2>1, <3>2
    <3>4. name' = w.target /\ stat' = <<w.target, disk[w.target].time>>
      BY <3>1, <3>2, <3>3
    <3>5. disk[w.target].data # Text(Foreign)
      BY <1>1, <3>1, LinesNotForeign DEF Progress, Typed
    <3>6. pc' \notin Going
      BY <3>3, Places DEF Going
    <3> QED BY <1>1, <1>2, <1>6, <3>4, <3>5, <3>6 DEF NameDated, Exists
  <2> QED BY <2>2, <2>3
<1> QED BY <1>1, <1>7, <1>8 DEF Dated

LEMMA NamesDiffer == NoStat[1] = NoName /\ AnyStat[1] = "?" /\ NoName \notin Targets
                     /\ "?" \notin Targets
BY DEF NoStat, NoName, AnyStat, Targets

LEMMA ReturnArguments ==
  ASSUME PlaceOK, pc \in WritePc \cup {"askbackup"}, NEW ok \in BOOLEAN, Return(ok)
  PROVE  /\ pc' \in {"exited", "unmagic", "prompt", "main"}
         /\ w'.tmp = w.tmp /\ w.tmp \in BOOLEAN
         /\ w.tmp => pc' = "exited"
         /\ pc' = "unmagic" => w.marked
         /\ pc' = "unmagic" => w'.oldmod = w.oldmod
         /\ pc' = "exited" => w'.ok = ok
<1>1. /\ pc' \in {"exited", "unmagic", "prompt", "main"}
      /\ pc' = "exited" <=> w.tmp \/ (w.exiting /\ ok /\ ~w.marked)
      /\ pc' = "unmagic" <=> ~w.tmp /\ w.marked
      /\ w' = IF pc' \in {"main", "exited"} THEN [NoWrite EXCEPT !.ok = ok, !.tmp = w.tmp]
                                            ELSE [w EXCEPT !.ok = ok]
  BY ReturnFacts
<1>2. w \in Writes /\ w.tmp \in BOOLEAN
  BY WriteTyped DEF PlaceOK
<1>3. CASE pc' \in {"main", "exited"}
  <2>1. w' = [NoWrite EXCEPT !.ok = ok, !.tmp = w.tmp]
    BY <1>1, <1>3
  <2>2. w'.tmp = w.tmp /\ w'.ok = ok
    BY <2>1 DEF NoWrite
  <2> QED BY <1>1, <1>2, <1>3, <2>2
<1>4. CASE pc' \notin {"main", "exited"}
  <2>1. w' = [w EXCEPT !.ok = ok]
    BY <1>1, <1>4
  <2>2. w'.tmp = w.tmp /\ w'.oldmod = w.oldmod
    BY <1>2, <2>1 DEF Writes
  <2> QED BY <1>1, <1>2, <1>4, <2>2
<1> QED BY <1>3, <1>4

LEMMA StatDated ==
  ASSUME Typed, Typed', Dated, StatFile
  PROVE  Dated'
<1>1. pc = "stat" /\ pc \in WritePc /\ pc \notin Ended /\ pc \in Going
      /\ UNCHANGED <<now, disk, name>> /\ w \in Writes
  BY Places DEF StatFile, rest, calm, Going, Typed, PlaceOK
<1>2. stat' = stat \/ (stat = NoStat /\ Exists(w.target) /\ stat' = <<w.target, disk[w.target].time>>)
  BY DEF StatFile
<1>3. stat'[2] <= now'
  BY <1>1, <1>2 DEF Dated, Exists
<1>4. w'.tmp = w.tmp
  <2>1. CASE Return(FALSE)
    BY <1>1, <2>1, ReturnArguments DEF Typed
  <2>2. CASE w' = w
    BY <2>2
  <2> QED BY <2>1, <2>2 DEF StatFile
<1>5. ASSUME name # NoName, pc' \notin Ended PROVE NameDated'
  <2>1. NameDated
    BY <1>1, <1>5 DEF Dated
  <2>2. stat' = stat
    BY <1>2, <1>5, <2>1, NamesDiffer DEF NameDated
  <2> QED BY <1>1, <1>4, <2>1, <2>2 DEF NameDated, Exists
<1> QED BY <1>1, <1>3, <1>5 DEF Dated

\* A second later.
LEMMA LaterStill ==
  ASSUME DiskOK, ValuesOK, Dated, now' = now + 1, stat' = stat
  PROVE  /\ stat'[2] <= now' /\ stat[2] < now' /\ now' <= now'
         /\ \A m \in DOMAIN disk : disk[m].time <= now'
<1>1. /\ now \in Nat /\ stat[2] \in Nat /\ stat[2] <= now
      /\ \A m \in DOMAIN disk : disk[m].time \in Nat /\ disk[m].time <= now
  BY Times DEF Dated
<1> QED BY <1>1

\* The clock goes on, and another program may write.
LEMMA ClockDated ==
  ASSUME "same second" \in Avoided, Typed, Typed', Dated,
         \/ \E n \in Targets : OtherProgram(n)
         \/ \E e \in BOOLEAN : DoWriteout(e)
  PROVE  Dated'
<1>1. now' = now + 1 /\ now \in Nat /\ stat[2] \in Nat
      /\ name' = name /\ stat' = stat /\ pc \notin Ended
  <2>1. now < MaxTime /\ Tick /\ UNCHANGED <<name, stat>> /\ pc \notin Ended
    BY Places DEF OtherProgram, DoWriteout, buffer, Ended
  <2> QED BY <2>1, TickTyped, Times, Places DEF Typed
<1>2. stat'[2] <= now' /\ stat[2] < now' /\ now' <= now'
      /\ \A m \in DOMAIN disk : disk[m].time <= now'
  BY <1>1, LaterStill DEF Typed
<1>4. ASSUME NEW n \in Targets, OtherProgram(n) PROVE Dated'
  <2>3. /\ DOMAIN disk' = DOMAIN disk \cup {n}
        /\ disk'[n].time = now'
        /\ \A m \in DOMAIN disk : m # n => disk'[m] = disk[m]
    <3>1. OthersFile(n)
      BY <1>4, OthersDisk
    <3> QED BY <3>1 DEF OthersFile
  <2>4. \A m \in DOMAIN disk' : disk'[m].time <= now'
    BY <1>2, <2>3
  <2>5. ASSUME name # NoName PROVE NameDated'
    <3>1. NameDated /\ name \in DOMAIN disk
      BY <1>1, <2>5 DEF Dated, NameDated, Exists
    <3>2. CASE name = n
      BY <1>1, <1>2, <2>3, <3>1, <3>2 DEF NameDated, Exists
    <3>3. CASE name # n
      BY <1>1, <1>2, <2>3, <3>1, <3>3 DEF NameDated, Exists
    <3> QED BY <3>2, <3>3
  <2> QED BY <1>1, <1>2, <2>4, <2>5 DEF Dated
<1>5. ASSUME NEW e \in BOOLEAN, DoWriteout(e) PROVE Dated'
  <2>1. disk' = disk
    BY <1>5 DEF DoWriteout
  <2>2. \A m \in DOMAIN disk' : disk'[m].time <= now'
    BY <1>2, <2>1
  <2>3. ASSUME name # NoName PROVE NameDated'
    <3>1. NameDated
      BY <1>1, <2>3 DEF Dated
    <3> QED BY <1>1, <1>2, <2>1, <3>1 DEF NameDated, Exists
  <2> QED BY <1>1, <1>2, <2>2, <2>3 DEF Dated
<1> QED BY <1>4, <1>5

LEMMA StepDated ==
  ASSUME "same second" \in Avoided, Typed, Typed', Progress, Questions, Dated, [Next]_vars
  PROVE  Dated'
<1>1. CASE Call
  BY <1>1, CallDated
<1>2. CASE StatFile \/ CloseFile
  BY <1>2, StatDated, CloseDated
<1>3. CASE \/ \E n \in Targets : OtherProgram(n)
           \/ \E e \in BOOLEAN : DoWriteout(e)
  BY <1>3, ClockDated
<1>4. w \in Writes /\ NoWrite.tmp = FALSE
  BY DEF Typed, PlaceOK, NoWrite
<1>5. CASE Edit \/ DoMark \/ Speller \/ Cancel \/ Remodify \/ Resize
  <2>1. UNCHANGED <<disk, now, name, stat>> /\ pc' = "main" /\ pc \notin Ended
    BY <1>5, Places DEF Edit, DoMark, Speller, Cancel, Remodify, Resize, buffer, rest, calm
  <2> QED BY <2>1, DatedStays, Places DEF Going
<1>6. ASSUME \/ \E n \in Targets : EnterName(n)
             \/ \E yes \in BOOLEAN : Confirm(yes)
             \/ \E how \in {"PREPEND", "APPEND"} : ToggleAppend(how)
             \/ PartitionMarked \/ UnpartitionMarked
      PROVE  Dated'
  <2>1. UNCHANGED <<disk, now, name, stat>>
    BY <1>6 DEF EnterName, Confirm, ToggleAppend, PartitionMarked, UnpartitionMarked,
                buffer, rest, calm
  <2>2. pc \in Asking \cup MarkPc
    BY <1>6, Places DEF EnterName, Confirm, ToggleAppend, PartitionMarked, UnpartitionMarked,
                MarkedStep
  <2>3. w'.tmp = w.tmp
    BY <1>4, <1>6 DEF EnterName, Confirm, ToggleAppend, PartitionMarked, UnpartitionMarked, Writes
  <2> QED BY <2>1, <2>2, <2>3, DatedStays, Places DEF Going
<1>7. CASE HangUp
  <2>1. UNCHANGED <<disk, now, name, stat>> /\ pc \notin Ended
    BY <1>7, Places DEF HangUp, buffer, rest, calm
  <2>2. pc' = "exited" \/ w'.tmp
    BY <1>7 DEF HangUp, NoWrite
  <2> QED BY <2>1, <2>2, DatedStays, Places DEF Going
<1>8. CASE UNCHANGED vars
  BY <1>8, DatedStays DEF vars
<1> QED BY <1>1, <1>2, <1>3, <1>5, <1>6, <1>7, <1>8 DEF Next, WriteStep, UserStep, Call

-----------------------------------------------------------------------------
(* What another program wrote.                                             *)

\* What another program wrote is about to be written over: the user was asked, or it
\* came after that was decided.
Threatened ==
    /\ ~w.tmp /\ w.append = "OVERWRITE" /\ Exists(w.target)
    /\ pc \in BackupPc \cup {"partition", "filepart", "magicline", "stat", "askbackup", "open"}
    /\ disk[w.target].data = Text(Foreign)
Warned == Threatened => w.asked \/ w.auto \/ w.late

LEMMA InitWarned == Init => Warned
BY DEF Init, Warned, Threatened, BackupPc

LEMMA AskForBoolean == ASSUME NEW n PROVE AskFor(n) \subseteq BOOLEAN
<1>1. Exists(n) \in BOOLEAN /\ Outdated(n) \in BOOLEAN
  BY DEF Exists, Outdated
<1>2. (Exists(n) \/ w.exiting \/ ~mark) \in BOOLEAN
  OBVIOUS
<1> QED BY ZenonT(20), <1>1, <1>2 DEF AskFor

\* A question is asked before the foreign file that the buffer does not know is written.
LEMMA EnterWarned ==
  ASSUME Typed, Dated, NEW n \in Targets, EnterName(n)
  PROVE  ~Threatened'
<1> SUFFICES ASSUME Threatened' PROVE FALSE
  OBVIOUS
<1>1. w' = [w EXCEPT !.target = n, !.auto = FALSE, !.asked = FALSE, !.late = FALSE]
      /\ disk' = disk
      /\ pc = "prompt" /\ w \in Writes
  BY DEF EnterName, Typed, PlaceOK
<1>2. w'.target = n /\ w'.append = w.append
  BY <1>1 DEF Writes
<1>3. w.append = "OVERWRITE" /\ Exists(n) /\ disk[n].data = Text(Foreign)
      /\ pc' # "confirm"
  BY <1>1, <1>2 DEF Threatened, Exists, BackupPc
<1>4. FALSE \in AskFor(n)
  <2>1. PICK ask \in AskFor(n) :
              pc' = IF ask THEN "confirm" ELSE IF w.marked THEN "partition" ELSE "stat"
    BY DEF EnterName
  <2>2. CASE ask
    BY <1>3, <2>1, <2>2
  <2>3. CASE ~ask
    BY <2>1, <2>3, AskForBoolean
  <2> QED BY <2>2, <2>3
<1>5. name = n
  BY <1>3, <1>4 DEF AskFor
<1>6. NameDated
  BY <1>1, <1>5, NamesDiffer, Places DEF Dated
<1>7. stat # NoStat /\ stat # AnyStat /\ Outdated(n)
  BY <1>3, <1>5, <1>6, NamesDiffer DEF NameDated, Outdated
<1>8. AskFor(n) = {Outdated(n)} /\ Outdated(n) \in BOOLEAN
  BY <1>3, <1>5, <1>7, NamesDiffer DEF AskFor, Outdated
<1> QED BY <1>4, <1>7, <1>8

LEMMA StepWarned ==
  ASSUME Typed, Dated, Warned, [Next]_vars
  PROVE  Warned'
<1> SUFFICES ASSUME Threatened' PROVE w'.asked \/ w'.auto \/ w'.late
  BY DEF Warned
<1>1. w \in Writes
  BY DEF Typed, PlaceOK
<1>2. CASE Call
  <2>1. /\ pc' \notin {"main", "exited"} /\ pc' \in WritePc \cup {"askbackup"}
        /\ w'.tmp = w.tmp /\ w'.target = w.target /\ w'.append = w.append
        /\ w'.auto = w.auto /\ w'.asked = w.asked /\ w'.late = w.late
    <3>1. pc' \in BackupPc \cup {"partition", "filepart", "magicline", "stat", "askbackup",
                                 "open"}
      BY DEF Threatened
    <3>2. pc' \notin {"main", "exited"} /\ pc' \in WritePc \cup {"askbackup"}
      BY <1>2, <3>1, CallArguments, Places DEF BackupPc
    <3> QED BY <1>2, <3>2, CallArguments
  <2>2. ~w.tmp /\ w.append = "OVERWRITE" /\ pc \in WritePc \cup {"askbackup"}
    BY <1>1, <1>2, <2>1, CallFacts DEF Threatened
  <2>3. pc \notin {"prepare", "save", "rest"}
    BY <2>2 DEF Typed, PlaceOK, Present
  <2>4. pc \notin {"write", "close"}
    <3>1. ASSUME NEW ok, Return(ok) PROVE FALSE
      BY <3>1 DEF Return, ReturnPc, Threatened, BackupPc
    <3>2. ASSUME CannotClose \/ WriteLine PROVE FALSE
      BY <3>1, <3>2 DEF CannotClose, WriteLine, Go, GoOn, Fails, Threatened, BackupPc
    <3> QED BY <1>2, <3>2 DEF Call, RefuseSymlink, OpenOriginal, UnlinkBackup, CreateBackup,
                ChmodBackup, CopyBackup, UtimeBackup, PrepareTemp, SaveOld, OpenFile,
                CannotOpen, CopyRest, FailedBackup
  <2>5. pc # "open"
    <3>1. ASSUME NEW ok, Return(ok) PROVE FALSE
      BY <3>1 DEF Return, ReturnPc, Threatened, BackupPc
    <3>2. ASSUME OpenFile \/ CannotOpen PROVE FALSE
      BY <3>1, <3>2 DEF OpenFile, CannotOpen, Go, GoOn, Threatened, BackupPc
    <3> QED BY <1>2, <3>2 DEF Call, RefuseSymlink, OpenOriginal, UnlinkBackup, CreateBackup,
                ChmodBackup, CopyBackup, UtimeBackup, PrepareTemp, SaveOld, WriteLine,
                CannotClose, CopyRest, FailedBackup
  <2>6. pc \in BackupPc \cup {"stat", "askbackup"}
    BY <2>2, <2>3, <2>4, <2>5, Places DEF BackupPc
  <2>7. disk' = disk \/ (pc \in BackupPc /\ Only(Backup))
    BY <1>2, <2>6, CallDisk DEF BackupPc
  <2>8. Exists(w.target) /\ disk'[w.target] = disk[w.target]
    <3>1. CASE disk' = disk
      BY <2>1, <3>1 DEF Threatened, Exists
    <3>2. CASE pc \in BackupPc /\ Only(Backup)
      BY <3>2, BackupFacts DEF Only, Exists, Typed
    <3> QED BY <2>7, <3>1, <3>2
  <2>9. Threatened
    BY <2>1, <2>2, <2>6, <2>8 DEF Threatened
  <2> QED BY <2>1, <2>9 DEF Warned
<1>3. CASE StatFile
  <2>1. w' = w /\ disk' = disk /\ pc = "stat"
    <3>1. ASSUME NEW ok, Return(ok) PROVE FALSE
      BY <3>1 DEF Return, ReturnPc, Threatened, BackupPc
    <3> QED BY <1>3, <3>1 DEF StatFile
  <2> QED BY <2>1 DEF Warned, Threatened, Exists
<1>4. CASE PartitionMarked
  <2>1. /\ disk' = disk /\ pc \in {"partition", "filepart", "magicline"}
        /\ w' = [w EXCEPT !.oldmod = modified]
    BY <1>4 DEF PartitionMarked, MarkedStep
  <2>2. w'.target = w.target /\ w'.append = w.append /\ w'.tmp = w.tmp
        /\ w'.asked = w.asked /\ w'.auto = w.auto /\ w'.late = w.late
    BY <1>1, <2>1 DEF Writes
  <2> QED BY <2>1, <2>2 DEF Warned, Threatened, Exists
<1>5. ASSUME NEW e \in BOOLEAN, DoWriteout(e) PROVE w'.auto
  BY <1>5 DEF DoWriteout, Threatened, BackupPc
<1>6. ASSUME NEW yes \in BOOLEAN, Confirm(yes) PROVE w'.asked
  BY <1>1, <1>6 DEF Confirm, Threatened, BackupPc, Writes
<1>7. ASSUME NEW n \in Targets, EnterName(n) PROVE FALSE
  BY <1>7, EnterWarned
<1>8. ASSUME UNCHANGED vars PROVE w'.asked \/ w'.auto \/ w'.late
  BY <1>8 DEF vars, Warned, Threatened, Exists
<1>9. ASSUME HangUp PROVE FALSE
  BY <1>9 DEF HangUp, Threatened, BackupPc, NoWrite
<1>10. ASSUME CloseFile \/ UnpartitionMarked \/ Remodify \/ Resize PROVE FALSE
  BY <1>10 DEF CloseFile, Return, ReturnPc, UnpartitionMarked, MarkedStep, Remodify, Resize,
               Threatened, BackupPc
<1>11. ASSUME \/ Edit \/ DoMark \/ Cancel
              \/ \E how \in {"PREPEND", "APPEND"} : ToggleAppend(how)
       PROVE  FALSE
  BY <1>11 DEF Edit, DoMark, Cancel, ToggleAppend, Threatened, BackupPc
<1>12. ASSUME Speller PROVE FALSE
  BY <1>12 DEF Speller, Threatened, BackupPc
<1>13. ASSUME NEW n \in Targets, OtherProgram(n) PROVE w'.asked \/ w'.auto \/ w'.late
  <2>1. pc' = pc /\ SameWrite
    BY <1>13, OthersWrite DEF OtherProgram, Typed
  <2>2. CASE n = w.target
    <3>1. pc \notin {"main", "prompt", "confirm"}
      BY <2>1 DEF Threatened, BackupPc
    <3> QED BY <1>13, <2>2, <3>1, OthersWrite DEF Typed
  <2>3. CASE n # w.target
    <3>3. OthersFile(n) /\ w.target \in DOMAIN disk'
      BY <1>13, <2>1, OthersDisk DEF Threatened, Exists, SameWrite
    <3>1. w.target \in DOMAIN disk /\ disk'[w.target] = disk[w.target]
      BY <2>3, <3>3 DEF OthersFile
    <3>2. Threatened
      BY <2>1, <3>1 DEF Threatened, Exists, SameWrite
    <3> QED BY <1>13, <2>1, <2>3, <3>2, OthersWrite DEF Warned, SameWrite, Typed
  <2> QED BY <2>2, <2>3
<1> QED BY <1>12, <1>13, <1>2, <1>3, <1>4, <1>5, <1>6, <1>7, <1>8, <1>9, <1>10, <1>11
      DEF Next, WriteStep, UserStep, Call

\* What another program wrote is lost only when the buffer's file is opened.
LEMMA LostByOpening ==
  ASSUME Typed, [Next]_vars, NEW n \in Targets, Lost(n)
  PROVE  n = w.target /\ ~w.tmp /\ pc = "open" /\ w.append # "APPEND"
<1>1. n \in DOMAIN disk /\ disk[n].data = Text(Foreign) /\ disk'[n].data = <<>>
      /\ Text(Foreign) # <<>>
  BY DEF Lost, Exists, Text
<1>2. CASE Call
  <2>1. /\ n = w.target /\ ~w.tmp /\ pc \in {"open", "write", "rest", "close"}
        /\ Only(n)
    <3>1. /\ n = w.target /\ ~w.tmp /\ pc \in {"open", "write", "rest", "close"}
      BY <1>1, <1>2, CallTarget
    <3>2. ~Only("temp")
      BY <1>1, Distinct DEF Only
    <3>3. pc \notin BackupPc
      BY <3>1 DEF BackupPc
    <3> QED BY <1>1, <1>2, <3>1, <3>2, <3>3, CallDisk
  <2>2. ASSUME NEW m, NEW d, NEW e, disk' = Written(m, Append(d, e)), d \in Data, e \in Line
        PROVE  FALSE
    <3>1. Append(d, e) # <<>>
      BY <2>2, AppendProperties DEF Data
    <3> QED BY <1>1, <2>2, <3>1, OnlyWritten DEF Only
  <2>3. ASSUME WriteLine \/ CopyRest PROVE FALSE
    <3>1. disk[w.target].data \in Data /\ w.todo \in Data
      BY <1>1, <2>1, Times, WriteTyped DEF Typed, PlaceOK
    <3>2. w.todo # <<>> => Head(w.todo) \in Line
      BY <3>1, HeadTailProperties DEF Data
    <3>3. disk' # disk
      BY <1>1
    <3>4. disk' # Removed("temp")
      BY <1>1, OnlyRemoved, Distinct DEF Only
    <3> QED BY <2>2, <2>3, <3>1, <3>2, <3>3, <3>4 DEF WriteLine, CopyRest, Fails
  <2>4. ASSUME CannotClose PROVE FALSE
    <3> DEFINE e == SubSeq(disk[n].data, 1, Len(disk[n].data) - 1)
    <3>1. disk'[n].data = e
      BY <2>1, <2>4, OnlyWritten DEF CannotClose
    <3>2. Len(e) = 1
      BY <1>1 DEF Text
    <3> QED BY <1>1, <3>1, <3>2
  <2>5. ASSUME CannotOpen PROVE FALSE
    <3>1. disk' # disk /\ disk' # Removed("temp")
      BY <1>1, OnlyRemoved, Distinct DEF Only
    <3> QED BY <2>5, <3>1 DEF CannotOpen
  <2>6. ASSUME OpenFile PROVE pc = "open" /\ w.append # "APPEND"
    <3>1. ASSUME w.append = "APPEND" PROVE FALSE
      <4>1. disk' = Written(n, disk[n].data)
        BY <1>1, <2>1, <2>6, <3>1 DEF OpenFile, Exists
      <4> QED BY <1>1, <4>1, OnlyWritten
    <3> QED BY <2>6, <3>1 DEF OpenFile
  <2>7. OpenFile \/ CannotOpen \/ WriteLine \/ CopyRest \/ CannotClose
    BY <1>2, <2>1 DEF Call, RefuseSymlink, OpenOriginal, UnlinkBackup, CreateBackup,
          ChmodBackup, CopyBackup, UtimeBackup, PrepareTemp, SaveOld, FailedBackup
  <2> QED BY <2>1, <2>3, <2>4, <2>5, <2>6, <2>7
<1>3. ASSUME NEW m \in Targets, OtherProgram(m) PROVE FALSE
  <2>1. OthersFile(m)
    BY <1>3, OthersDisk
  <2>3. disk'[n].data = Text(Foreign)
    BY <1>1, <2>1 DEF OthersFile
  <2> QED BY <1>1, <2>3
<1>4. ASSUME disk' = disk PROVE FALSE
  BY <1>1, <1>4
<1>5. ASSUME WriteStep, ~Call PROVE FALSE
  BY <1>4, <1>5 DEF WriteStep, Call, StatFile, CloseFile, PartitionMarked, UnpartitionMarked,
                    Remodify
<1>6. ASSUME UserStep, ~Call PROVE FALSE
  <2>1. ASSUME \/ Edit \/ DoMark \/ Speller \/ Cancel \/ \E e \in BOOLEAN : DoWriteout(e)
               \/ \E how \in {"PREPEND", "APPEND"} : ToggleAppend(how)
               \/ \E m \in Targets : EnterName(m)
               \/ \E yes \in BOOLEAN : Confirm(yes)
        PROVE  disk' = disk
    BY <2>1 DEF Edit, DoMark, Speller, Cancel, DoWriteout, ToggleAppend, EnterName, Confirm
  <2> QED BY <1>3, <1>4, <1>6, <2>1 DEF UserStep, Call
<1>7. ASSUME HangUp \/ Resize \/ UNCHANGED vars PROVE FALSE
  BY <1>4, <1>7 DEF HangUp, Resize, vars
<1> QED BY <1>2, <1>5, <1>6, <1>7 DEF Next

\* While nobody writes it meanwhile, what is in a file that is prepended to goes to the
\* temporary file, line by line.
Moved ==
    /\ pc = "save" => /\ Exists(w.target)
                      /\ disk["temp"].data \o w.todo = disk[w.target].data
    /\ pc = "open" /\ Exists(w.target) => disk["temp"].data = disk[w.target].data
Aside == w.append = "PREPEND" /\ ~w.late => Moved

LEMMA InitAside == Init => Aside
BY DEF Init, Aside, Moved

\* The steps that lead to where the file is saved or opened.
LEMMA AsideBy ==
  ASSUME Typed, [Next]_vars, pc' \in {"save", "open"}, w'.append = "PREPEND"
  PROVE  \/ PrepareTemp \/ SaveOld
         \/ \E n \in Targets : OtherProgram(n)
         \/ UNCHANGED vars
<1>1. ASSUME NEW ok, Return(ok) PROVE FALSE
  BY <1>1 DEF Return, ReturnPc
<1>2. w \in Writes
  BY DEF Typed, PlaceOK
<1>3. ASSUME UNCHANGED w, pc' = AfterBackup PROVE FALSE
  BY <1>3 DEF AfterBackup
<1>4. ASSUME \/ RefuseSymlink \/ OpenFile \/ CannotOpen \/ WriteLine \/ CopyRest
             \/ CloseFile \/ CannotClose
      PROVE  FALSE
  BY <1>1, <1>4 DEF RefuseSymlink, OpenFile, CannotOpen, WriteLine, CopyRest, CloseFile,
                    CannotClose, Go, GoOn, Fails
<1>5. ASSUME StatFile PROVE FALSE
  BY <1>1, <1>3, <1>5 DEF StatFile, AfterBackup
<1>6. ASSUME \/ OpenOriginal \/ UnlinkBackup \/ CreateBackup \/ ChmodBackup \/ CopyBackup
             \/ UtimeBackup
      PROVE  FALSE
  BY <1>1, <1>3, <1>6 DEF OpenOriginal, UnlinkBackup, CreateBackup, ChmodBackup, CopyBackup,
         UtimeBackup, AskBackup, Go, GoOn, Fails
<1>7. ASSUME PartitionMarked \/ UnpartitionMarked \/ Remodify \/ HangUp \/ Resize
      PROVE  FALSE
  BY <1>7 DEF PartitionMarked, UnpartitionMarked, MarkedStep, Remodify, HangUp, Resize
<1>8. ASSUME UserStep PROVE \E n \in Targets : OtherProgram(n)
  <2>1. ASSUME NEW a, FailedBackup(a) PROVE FALSE
    BY <1>1, <1>3, <2>1 DEF FailedBackup
  <2>2. ASSUME Edit \/ DoMark \/ Speller \/ Cancel PROVE FALSE
    BY <2>2 DEF Edit, DoMark, Speller, Cancel
  <2>3. ASSUME NEW n, DoWriteout(n) \/ ToggleAppend(n) \/ EnterName(n) \/ Confirm(n)
        PROVE  FALSE
    BY <2>3 DEF DoWriteout, ToggleAppend, EnterName, Confirm
  <2> QED BY <1>8, <2>1, <2>2, <2>3 DEF UserStep
<1> QED BY <1>4, <1>5, <1>6, <1>7, <1>8 DEF Next, WriteStep

LEMMA StepAside ==
  ASSUME Typed, Typed', Aside, [Next]_vars
  PROVE  Aside'
<1> SUFFICES ASSUME pc' \in {"save", "open"}, w'.append = "PREPEND", ~w'.late PROVE Moved'
  BY DEF Aside, Moved
<1>1. CASE UNCHANGED vars
  BY <1>1 DEF vars, Aside, Moved, Exists
<1>2. ASSUME NEW n \in Targets, OtherProgram(n) PROVE Moved'
  <2>1. pc' = pc /\ SameWrite
    BY <1>2, OthersWrite DEF OtherProgram, Typed
  <2>2. n # w.target /\ ~w.late
    BY <1>2, <2>1, OthersWrite DEF Typed
  <2>3. Moved
    BY <2>1, <2>2 DEF Aside, SameWrite
  <2>4. "temp" \in DOMAIN disk /\ n # "temp"
    BY <2>1, Distinct DEF Typed, PlaceOK, Present, Exists, SameWrite
  <2>7. OthersFile(n)
    BY <1>2, OthersDisk
  <2>5. disk'["temp"] = disk["temp"]
    BY <2>4, <2>7 DEF OthersFile
  <2>6. /\ w.target \in DOMAIN disk' => w.target \in DOMAIN disk
        /\ w.target \in DOMAIN disk =>
              w.target \in DOMAIN disk' /\ disk'[w.target] = disk[w.target]
    BY <2>2, <2>7 DEF OthersFile
  <2> QED BY <2>1, <2>3, <2>5, <2>6 DEF Moved, Exists, SameWrite
<1> SUFFICES ASSUME PrepareTemp \/ SaveOld PROVE Moved'
  BY <1>1, <1>2, AsideBy
<1>3. pc \in {"prepare", "save"} /\ w \in Writes /\ DiskOK /\ now \in Nat
      /\ w.target \in Names \ {"temp"} /\ "temp" \in Names \ {"own"} /\ w.todo \in Data
  <2>1. pc \in {"prepare", "save"} /\ w \in Writes
    BY DEF PrepareTemp, SaveOld, Typed, PlaceOK
  <2>2. w.target \in Names \ {"temp"}
    BY <2>1, TargetFacts DEF Typed
  <2> QED BY <2>1, <2>2, Times, WriteTyped, Distinct DEF Typed
<1>4. ASSUME NEW ok, Return(ok) PROVE FALSE
  BY <1>4 DEF Return, ReturnPc
<1>5. CASE PrepareTemp
  <2>1. /\ Exists(w.target) /\ pc' = "save"
        /\ disk' = Written("temp", <<>>)
        /\ w' = [w EXCEPT !.todo = disk[w.target].data]
    BY <1>4, <1>5 DEF PrepareTemp, Go, GoOn, Fails
  <2>2. w'.target = w.target /\ w'.todo = disk[w.target].data
    BY <1>3, <2>1 DEF Writes
  <2>3. <<>> \in Data /\ disk[w.target].data \in Data
    BY <1>3, <2>1, Times DEF Typed, Exists, Data
  <2>4. /\ disk'["temp"].data = <<>>
        /\ w.target \in DOMAIN disk' /\ disk'[w.target] = disk[w.target]
    BY <1>3, <2>1, <2>3, WrittenFacts DEF Exists
  <2>5. <<>> \o disk[w.target].data = disk[w.target].data
    BY <2>3 DEF Data
  <2> QED BY <2>1, <2>2, <2>4, <2>5 DEF Moved, Exists
<1>6. CASE SaveOld
  <2>1. pc = "save" /\ "temp" \in DOMAIN disk
    BY <1>6 DEF SaveOld, Typed, PlaceOK, Present, Exists
  <2>2. CASE /\ w.todo # <<>> /\ disk' = Written("temp", Append(disk["temp"].data, Head(w.todo)))
             /\ w' = [w EXCEPT !.todo = Tail(@)] /\ Go(pc)
    <3>1. w'.target = w.target /\ w'.append = w.append /\ w'.late = w.late
          /\ w'.todo = Tail(w.todo) /\ pc' = "save"
      BY <1>3, <2>1, <2>2 DEF Writes, Go, GoOn
    <3>2. Moved
      BY <3>1 DEF Aside
    <3>3. w.target \in DOMAIN disk /\ disk["temp"].data \o w.todo = disk[w.target].data
      BY <2>1, <3>2 DEF Moved, Exists
    <3>4. disk["temp"].data \in Data
      BY <1>3, <2>1, Times DEF Typed
    <3>5. Append(disk["temp"].data, Head(w.todo)) \in Data
      BY <1>3, <2>2, <3>4, AppendTyped
    <3>6. /\ disk'["temp"].data = Append(disk["temp"].data, Head(w.todo))
          /\ w.target \in DOMAIN disk' /\ disk'[w.target] = disk[w.target]
      BY <1>3, <2>2, <3>3, <3>5, WrittenFacts
    <3>7. Append(disk["temp"].data, Head(w.todo)) \o Tail(w.todo) = disk["temp"].data \o w.todo
      BY <1>3, <2>2, <3>4, MoveOne
    <3> QED BY <3>1, <3>3, <3>6, <3>7 DEF Moved, Exists
  <2>3. CASE w.todo = <<>> /\ Go("open") /\ UNCHANGED <<disk, w>>
    <3>1. Moved /\ pc' = "open"
      BY <2>3 DEF Aside, Go, GoOn
    <3>2. disk["temp"].data \in Data
      BY <1>3, <2>1, Times DEF Typed
    <3>3. disk["temp"].data \o <<>> = disk["temp"].data
      BY <3>2 DEF Data
    <3> QED BY <2>1, <2>3, <3>1, <3>3 DEF Moved, Exists
  <2> QED BY <1>4, <1>6, <2>2, <2>3 DEF SaveOld
<1> QED BY <1>5, <1>6

\* When no two writes are made within a second, what another program wrote is
\* written over only after a question, or where there are to be no questions, or
\* with all of it in the temporary file, or when it came after the question.
THEOREM AskedBeforeLosing ==
  ASSUME "same second" \in Avoided
  PROVE  Spec => AskedFirst
<1> DEFINE Known == Typed /\ Progress /\ Questions /\ Dated /\ Warned /\ Aside
<1>1. Init => Known
  BY InitTyped, InitProgress, InitDated, InitWarned, InitAside
<1>2. Known /\ [Next]_vars => Known'
  BY StepTyped, StepProgress, StepQuestions, StepDated, StepWarned, StepAside
<1>3. ASSUME Known, [Next]_vars, NEW n \in Targets, Lost(n)
      PROVE  w.asked \/ w.auto \/ w.late \/ SetAside(n)
  <2>1. n = w.target /\ ~w.tmp /\ pc = "open" /\ w.append # "APPEND"
    BY <1>3, LostByOpening
  <2>2. w.append \in Appends
    BY <1>3, WriteTyped DEF Typed, PlaceOK
  <2>3. w.append = "OVERWRITE" => Threatened
    BY <1>3, <2>1 DEF Threatened, Lost
  <2>4. w.append = "PREPEND" => Exists("temp")
    BY <1>3, <2>1 DEF Typed, PlaceOK, Present
  <2>5. w.append = "PREPEND" /\ ~w.late => disk["temp"].data = disk[n].data
    BY <1>3, <2>1 DEF Aside, Moved, Lost
  <2> QED BY <1>3, <2>1, <2>2, <2>3, <2>4, <2>5 DEF Warned, Appends, SetAside
<1>4. Known /\ [Next]_vars
        => \A n \in Targets : Lost(n) => w.asked \/ w.auto \/ w.late \/ SetAside(n)
  BY <1>3
<1> HIDE DEF Known
<1> QED BY <1>1, <1>2, <1>4, PTL DEF Spec, AskedFirst

-----------------------------------------------------------------------------
(* What a hangup saves.                                                    *)

\* The steps of write_marked_file in which the buffer's lines and what pinot knows of
\* them do not agree.
Windows == {"filepart", "unmagic", "unpartition", "unfilepart", "remodify"}

\* Outside them, the lines are all there unless filepart says that they are not, and
\* while what is marked is written, filepart does.
Whole ==
    /\ ~filepart /\ pc # "filepart" /\ pc \notin Ended => text \in {"whole", "extra"}
    /\ pc \in {"magicline", "unmagic", "unpartition", "unfilepart"} => filepart
    /\ w.marked /\ ~w.tmp /\ pc \in WritePc \cup {"askbackup"} => filepart

\* The modified flag that write_file clears for what is marked is still known to
\* write_marked_file.
ModifiedWhenUnsaved ==
    unsaved =>
        /\ pc \notin {"unmagic", "unpartition", "unfilepart", "remodify"} \cup Ended => modified
        /\ pc \in {"unmagic", "unpartition", "unfilepart", "remodify"} => w.oldmod
        /\ pc \in WritePc \cup {"askbackup"} /\ w.marked /\ ~w.tmp => w.oldmod

LEMMA InitWhole == Init => Whole /\ ModifiedWhenUnsaved
BY Places DEF Init, Whole, ModifiedWhenUnsaved, NoWrite

\* Outside the windows, a signal leaves the lines whole.
LEMMA Together ==
  ASSUME Typed, Whole, pc \notin Windows \cup Ended
  PROVE  /\ filepart => Unpartitioned \in {"whole", "extra"}
         /\ ~filepart => text \in {"whole", "extra"}
<1>1. filepart => text \in {"part", "magicline"}
  BY Places DEF Typed, PlaceOK, Partitioned, Windows
<1> QED BY <1>1 DEF Unpartitioned, Whole, Windows

LEMMA StepWhole ==
  ASSUME Windows \subseteq Shielded, Typed, Whole, [Next]_vars
  PROVE  Whole'
<1>1. w \in Writes /\ NoWrite.marked = FALSE
  BY DEF Typed, PlaceOK, NoWrite
<1>2. ASSUME UNCHANGED <<text, filepart>>, pc \notin Ended, pc # "filepart",
             pc' \notin {"magicline", "unmagic", "unpartition", "unfilepart"} \/ filepart,
             w'.marked /\ ~w'.tmp /\ pc' \in WritePc \cup {"askbackup"} => filepart
      PROVE  Whole'
  BY <1>2 DEF Whole
<1>3. CASE Call
  <2>1. /\ UNCHANGED <<text, filepart>> /\ pc \in WritePc \cup {"askbackup"}
    BY <1>1, <1>3, CallFacts
  <2>2. pc \notin Ended /\ pc # "filepart"
    BY <2>1, Places
  <2>3. w.tmp => pc' \in WritePc \cup {"askbackup"} \cup Ended
    BY <1>3, CallArguments
  <2>4. /\ pc' \in {"magicline", "unmagic", "unpartition", "unfilepart"} => w.marked /\ ~w.tmp
        /\ w'.marked /\ ~w'.tmp /\ pc' \in WritePc \cup {"askbackup"} => w.marked /\ ~w.tmp
    BY <1>3, <2>3, CallArguments, Places
  <2> QED BY <1>2, <2>1, <2>2, <2>4 DEF Whole
<1>4. ASSUME StatFile \/ CloseFile PROVE Whole'
  <2>1. /\ UNCHANGED <<text, filepart>> /\ pc \in WritePc /\ pc \notin Ended /\ pc # "filepart"
    BY <1>4, Places DEF StatFile, CloseFile, parts
  <2>2. ASSUME NEW ok \in BOOLEAN, Return(ok) PROVE Whole'
    <3>1. /\ pc' \in {"exited", "unmagic", "prompt", "main"}
          /\ pc' = "unmagic" => w.marked /\ ~w.tmp
      BY <2>1, <2>2, ReturnArguments DEF Typed
    <3> QED BY <1>2, <2>1, <3>1, Places DEF Whole
  <2>3. ASSUME w' = w, pc' \in WritePc PROVE Whole'
    BY <1>2, <2>1, <2>3, Places DEF Whole
  <2> QED BY <1>4, <2>2, <2>3, Places DEF StatFile, CloseFile, AfterBackup
<1>5. CASE PartitionMarked
  <2>1. w'.marked = w.marked /\ w'.tmp = w.tmp
    BY <1>1, <1>5 DEF PartitionMarked, Writes
  <2>2. CASE MarkedStep("partition", "filepart", "part", filepart)
    BY <2>2, Places DEF MarkedStep, Whole
  <2>3. CASE MarkedStep("filepart", "magicline", text, TRUE)
    BY <2>3, Places DEF MarkedStep, Whole
  <2>4. CASE MarkedStep("magicline", "stat", "magicline", filepart)
    BY <2>4, Places DEF MarkedStep, Whole
  <2> QED BY <1>5, <2>2, <2>3, <2>4 DEF PartitionMarked
<1>6. CASE UnpartitionMarked
  <2>1. CASE MarkedStep("unmagic", "unpartition", "part", filepart)
    BY <2>1, Places DEF MarkedStep, Whole
  <2>2. CASE MarkedStep("unpartition", "unfilepart", "whole", filepart)
    BY <2>2, Places DEF MarkedStep, Whole
  <2>3. CASE MarkedStep("unfilepart", "remodify", text, FALSE)
    <3>1. text = "whole"
      BY <2>3 DEF MarkedStep, Whole, Typed, PlaceOK, Partitioned
    <3> QED BY <2>3, <3>1, Places DEF MarkedStep, Whole
  <2> QED BY <1>6, <2>1, <2>2, <2>3 DEF UnpartitionMarked
<1>7. ASSUME NEW e \in BOOLEAN, DoWriteout(e) PROVE Whole'
  <2>1. pc' = IF w'.auto THEN "stat" ELSE "prompt"
    BY <1>7 DEF DoWriteout
  <2>2. w'.auto => ~w'.marked
    BY <1>7 DEF DoWriteout, NoWrite
  <2>3. UNCHANGED <<text, filepart>> /\ pc = "main"
    BY <1>7 DEF DoWriteout, parts
  <2> QED BY <1>2, <2>1, <2>2, <2>3, Places
<1>8. ASSUME \/ \E n \in Targets : EnterName(n)
             \/ \E yes \in BOOLEAN : Confirm(yes)
      PROVE  Whole'
  <2>1. w'.marked = w.marked
    BY <1>1, <1>8 DEF EnterName, Confirm, Writes
  <2>2. UNCHANGED <<text, filepart>> /\ pc \in {"prompt", "confirm"}
        /\ pc' \in {"prompt", "confirm", "partition", "stat"}
        /\ (pc' = "stat" => ~w.marked)
    BY <1>8 DEF EnterName, Confirm, parts
  <2> QED BY <1>2, <2>1, <2>2, Places
<1>9. ASSUME Edit \/ DoMark \/ Speller \/ Cancel \/ Remodify
                \/ (\E how \in {"PREPEND", "APPEND"} : ToggleAppend(how))
      PROVE  Whole'
  <2>1. UNCHANGED <<text, filepart>> /\ pc \in {"main", "prompt", "confirm", "remodify"}
        /\ pc' \in {"main", "prompt", "confirm"}
    BY <1>9 DEF Edit, DoMark, Speller, Cancel, Remodify, ToggleAppend, parts
  <2> QED BY <1>2, <2>1, Places
<1>10. CASE HangUp
  <2>1. pc \notin Windows \cup Ended
    BY <1>10, Places DEF HangUp
  <2>2. text' = (IF modified /\ filepart THEN Unpartitioned ELSE text)
        /\ filepart' = (filepart /\ ~modified)
        /\ (pc' = "exited" \/ (pc' = "stat" /\ w'.tmp /\ modified))
    BY <1>10 DEF HangUp, NoWrite
  <2> QED BY <2>1, <2>2, Together, Places DEF Whole
<1>11. CASE Resize
  <2>1. pc \notin Windows \cup Ended
    BY <1>11, Places DEF Resize
  <2>2. text' = (IF filepart THEN Unpartitioned ELSE text) /\ ~filepart' /\ pc' = "main"
    BY <1>11 DEF Resize
  <2> QED BY <2>1, <2>2, Together, Places DEF Whole
<1>12. CASE UNCHANGED vars
  BY <1>12 DEF vars, Whole
<1>13. ASSUME NEW n \in Targets, OtherProgram(n) PROVE Whole'
  <2>1. UNCHANGED <<text, filepart, pc>> /\ SameWrite
    BY <1>13, OthersWrite DEF OtherProgram, parts, Typed
  <2> QED BY <2>1 DEF Whole, SameWrite
<1> QED BY <1>13, <1>3, <1>4, <1>5, <1>6, <1>7, <1>8, <1>9, <1>10, <1>11, <1>12
      DEF Next, WriteStep, UserStep, Call

LEMMA StepModified ==
  ASSUME Windows \subseteq Shielded, Typed, ModifiedWhenUnsaved, [Next]_vars
  PROVE  ModifiedWhenUnsaved'
<1> DEFINE After == {"unmagic", "unpartition", "unfilepart", "remodify"}
<1> SUFFICES ASSUME unsaved' PROVE ModifiedWhenUnsaved'
  BY DEF ModifiedWhenUnsaved
<1>1. w \in Writes /\ NoWrite.marked = FALSE
  BY DEF Typed, PlaceOK, NoWrite
<1>2. ASSUME UNCHANGED <<unsaved, modified>>, pc \notin After \cup Ended,
             pc' \in After => w'.oldmod,
             pc' \in WritePc \cup {"askbackup"} /\ w'.marked /\ ~w'.tmp => w'.oldmod
      PROVE  ModifiedWhenUnsaved'
  BY <1>2 DEF ModifiedWhenUnsaved
<1>3. CASE Call
  <2>1. UNCHANGED <<unsaved, modified>> /\ pc \in WritePc \cup {"askbackup"}
    BY <1>1, <1>3, CallFacts
  <2>2. pc \notin After \cup Ended
    BY <2>1, Places
  <2>3. /\ pc' \in After => w.marked /\ ~w.tmp /\ w'.oldmod = w.oldmod
        /\ w'.marked /\ ~w'.tmp /\ pc' \in WritePc \cup {"askbackup"}
             => w.marked /\ ~w.tmp /\ w'.oldmod = w.oldmod
    BY <1>3, CallArguments, Places
  <2> QED BY <1>2, <2>1, <2>2, <2>3 DEF ModifiedWhenUnsaved
<1>4. ASSUME StatFile \/ CloseFile PROVE ModifiedWhenUnsaved'
  <2>1. pc \in WritePc /\ pc \notin After \cup Ended /\ unsaved
    BY <1>4, Places DEF StatFile, CloseFile
  <2>2. modified' = modified \/ (w.marked /\ ~w.tmp /\ CloseFile)
    BY <1>4 DEF StatFile, CloseFile
  <2>3. modified /\ (w.marked /\ ~w.tmp => w.oldmod)
    BY <2>1 DEF ModifiedWhenUnsaved
  <2>4. ASSUME NEW ok \in BOOLEAN, Return(ok) PROVE ModifiedWhenUnsaved'
    <3>1. /\ pc' \in {"exited", "unmagic", "prompt", "main"}
          /\ pc' = "unmagic" => w.marked /\ ~w.tmp /\ w'.oldmod = w.oldmod
      BY <2>1, <2>4, ReturnArguments DEF Typed
    <3>2. w.marked /\ ~w.tmp => pc' = "unmagic"
      BY <2>1, <2>4, ReturnFacts DEF Typed
    <3> QED BY <2>2, <2>3, <3>1, <3>2, Places DEF ModifiedWhenUnsaved
  <2>5. ASSUME w' = w, pc' \in WritePc, modified' = modified PROVE ModifiedWhenUnsaved'
    BY <2>3, <2>5, Places DEF ModifiedWhenUnsaved
  <2> QED BY <1>4, <2>4, <2>5, Places DEF StatFile, CloseFile, AfterBackup
<1>5. CASE PartitionMarked
  <2>1. UNCHANGED <<unsaved, modified>> /\ pc \in {"partition", "filepart", "magicline"}
        /\ pc' \in {"filepart", "magicline", "stat"}
    BY <1>5 DEF PartitionMarked, MarkedStep, buffer
  <2>2. w'.oldmod = modified
    BY <1>1, <1>5 DEF PartitionMarked, Writes
  <2> QED BY <2>1, <2>2, Places DEF ModifiedWhenUnsaved
<1>6. CASE UnpartitionMarked
  <2>1. UNCHANGED <<unsaved, modified, w>> /\ pc \in After /\ pc' \in After
    BY <1>6 DEF UnpartitionMarked, MarkedStep, buffer
  <2> QED BY <2>1, Places DEF ModifiedWhenUnsaved
<1>7. CASE Remodify
  BY <1>7, Places DEF Remodify, ModifiedWhenUnsaved
<1>8. ASSUME NEW e \in BOOLEAN, DoWriteout(e) PROVE ModifiedWhenUnsaved'
  <2>1. pc' = IF w'.auto THEN "stat" ELSE "prompt"
    BY <1>8 DEF DoWriteout
  <2>2. w'.auto => ~w'.marked
    BY <1>8 DEF DoWriteout, NoWrite
  <2>3. UNCHANGED <<unsaved, modified>> /\ pc = "main"
    BY <1>8 DEF DoWriteout, buffer
  <2> QED BY <1>2, <2>1, <2>2, <2>3, Places
<1>9. ASSUME \/ \E n \in Targets : EnterName(n)
             \/ \E yes \in BOOLEAN : Confirm(yes)
      PROVE  ModifiedWhenUnsaved'
  <2>1. w'.marked = w.marked
    BY <1>1, <1>9 DEF EnterName, Confirm, Writes
  <2>2. UNCHANGED <<unsaved, modified>> /\ pc \in {"prompt", "confirm"}
        /\ pc' \in {"prompt", "confirm", "partition", "stat"}
        /\ (pc' = "stat" => ~w.marked)
    BY <1>9 DEF EnterName, Confirm, buffer
  <2> QED BY <1>2, <2>1, <2>2, Places
<1>10. ASSUME DoMark \/ Speller \/ Cancel
                \/ (\E how \in {"PREPEND", "APPEND"} : ToggleAppend(how))
      PROVE  ModifiedWhenUnsaved'
  <2>1. UNCHANGED <<unsaved, modified>> /\ pc \in {"main", "prompt", "confirm"}
        /\ pc' \in {"main", "prompt", "confirm"}
    BY <1>10 DEF DoMark, Speller, Cancel, ToggleAppend, buffer
  <2> QED BY <1>2, <2>1, Places
<1>11. CASE Edit
  BY <1>11, Places DEF Edit, ModifiedWhenUnsaved
<1>12. CASE HangUp \/ Resize
  <2>1. pc \notin After \cup Ended /\ UNCHANGED <<unsaved, modified>>
    BY <1>12, Places DEF HangUp, Resize, Windows, buffer
  <2>2. pc' \in {"exited", "main"} \/ (pc' = "stat" /\ w'.tmp)
    BY <1>12 DEF HangUp, Resize, NoWrite
  <2> QED BY <1>2, <2>1, <2>2, Places
<1>13. CASE UNCHANGED vars
  BY <1>13 DEF vars, ModifiedWhenUnsaved
<1>14. ASSUME NEW n \in Targets, OtherProgram(n) PROVE ModifiedWhenUnsaved'
  <2>1. UNCHANGED <<unsaved, modified, pc>> /\ SameWrite
    BY <1>14, OthersWrite DEF OtherProgram, buffer, Typed
  <2> QED BY <2>1 DEF ModifiedWhenUnsaved, SameWrite
<1> QED BY <1>14, <1>3, <1>4, <1>5, <1>6, <1>7, <1>8, <1>9, <1>10, <1>11, <1>12, <1>13
      DEF Next, WriteStep, UserStep, Call

\* The lines that are written when nothing is marked are the whole text.
LEMMA WholeLines ==
  ASSUME Typed, Whole, pc \in WritePc, ~w.marked
  PROVE  Lines = Text(ver)
<1>1. ~filepart
  BY Places DEF Typed, PlaceOK, Partitioned
<1>2. text \in {"whole", "extra"}
  BY <1>1, Places DEF Whole
<1> QED BY <1>2 DEF Lines

LEMMA ExitSaves ==
  ASSUME Typed, Typed', Progress, Whole, pc \in WritePc \cup {"askbackup"},
         NEW ok \in BOOLEAN, Return(ok), ver' = ver,
         ok => CloseFile \/ CopyRest
  PROVE  HangupSaves'
<1> SUFFICES ASSUME pc' = "exited" PROVE OnDisk(Text(ver))' \/ (w'.tmp /\ ~w'.ok)
  BY DEF HangupSaves
<1>1. /\ pc' = "exited" => w.tmp \/ (w.exiting /\ ok /\ ~w.marked)
      /\ w'.tmp = w.tmp /\ w'.ok = ok
  BY ReturnFacts, ReturnArguments DEF Typed
<1>2. CASE ~ok
  BY <1>1, <1>2
<1>3. CASE ok
  <2>1. pc \in {"close", "rest"} /\ pc \in WritePc
    BY <1>3, Places DEF CloseFile, CopyRest
  <2>2. ~w.marked
    BY <1>1 DEF Typed, PlaceOK, Emergency
  <2>3. Holds(disk[w.target].data, Text(ver))
    BY <2>1, <2>2, WholeLines DEF Progress
  <2>4. w.target \in DOMAIN disk /\ w.target # "temp"
    BY <2>1, TargetFacts DEF Typed, PlaceOK, Present, Exists
  <2>5. w.target \in DOMAIN disk' /\ disk'[w.target] = disk[w.target]
    <3>1. CASE disk' = disk
      BY <2>4, <3>1
    <3>2. CASE disk' = Removed("temp")
      BY <2>4, <3>2, OnlyRemoved DEF Only
    <3>3. ASSUME CopyRest PROVE disk' = Removed("temp")
      <4>1. pc' # pc
        BY <2>1, Places
      <4>2. ASSUME NEW kind, Fails(kind) PROVE FALSE
        <5>1. Return(FALSE)
          BY <4>2 DEF Fails
        <5>2. w'.ok = FALSE
          BY <2>1, <5>1, ReturnArguments DEF Typed
        <5> QED BY <1>1, <1>3, <5>2
      <4> QED BY <3>3, <4>1, <4>2 DEF CopyRest, Go, GoOn
    <3> QED BY <1>3, <3>1, <3>2, <3>3 DEF CloseFile
  <2>6. Holds(disk'[w.target].data, Text(ver'))
    BY <2>3, <2>5
  <2> QED BY <2>5, <2>6 DEF OnDisk
<1> QED BY <1>2, <1>3

LEMMA StepSaves ==
  ASSUME Windows \subseteq Shielded, Typed, Typed', Progress, Whole, ModifiedWhenUnsaved,
         HangupSaves, [Next]_vars
  PROVE  HangupSaves'
<1> SUFFICES ASSUME pc' = "exited", unsaved' PROVE HangupSaves'
  BY DEF HangupSaves
<1>1. CASE UNCHANGED vars
  BY <1>1 DEF vars, HangupSaves, OnDisk, FreeSaves, Exists
<1>2. ASSUME UserStep, ~Call PROVE FALSE
  BY <1>2 DEF UserStep, Call, Edit, DoMark, Speller, OtherProgram, DoWriteout, Cancel,
              ToggleAppend, EnterName, Confirm
<1>3. ASSUME PartitionMarked \/ UnpartitionMarked \/ Remodify \/ Resize PROVE FALSE
  BY <1>3 DEF PartitionMarked, UnpartitionMarked, MarkedStep, Remodify, Resize
\* A hangup that writes nothing: no name is left for the emergency file.
<1>4. CASE HangUp
  <2>1. pc \notin Windows \cup Ended /\ UNCHANGED <<disk, modified, unsaved>>
    BY <1>4, Places DEF HangUp, buffer
  <2>2. modified
    BY <2>1 DEF ModifiedWhenUnsaved, Windows
  <2>3. FreeSaves = {}
    BY <1>4, <2>2 DEF HangUp
  <2> QED BY <2>1, <2>3 DEF HangupSaves, FreeSaves, Exists
<1>5. CASE CloseFile
  BY <1>5, ExitSaves, Places DEF CloseFile
<1>6. CASE StatFile
  <2>1. pc = "stat" /\ pc \in WritePc /\ ver' = ver /\ AfterBackup # "exited"
    BY <1>6, Places DEF StatFile, AfterBackup
  <2>2. Return(FALSE)
    BY <1>6, <2>1 DEF StatFile
  <2> QED BY <2>1, <2>2, ExitSaves
<1>7. CASE Call
  <2>1. ver' = ver /\ pc \in WritePc \cup {"askbackup"}
        /\ (Onward \/ \E ok \in BOOLEAN : Return(ok))
    BY <1>7, CallFacts DEF Typed, PlaceOK
  <2>2. PICK ok \in BOOLEAN : Return(ok)
    BY <2>1, Places DEF Onward
  <2>3. ASSUME Return(FALSE) PROVE HangupSaves'
    BY <2>1, <2>3, ExitSaves
  <2>4. CASE CopyRest
    BY <2>1, <2>2, <2>4, ExitSaves
  <2>5. ASSUME ~CopyRest PROVE Return(FALSE)
    <3>1. ASSUME NEW kind, NEW where, \/ AskBackup(kind) \/ Go(where) \/ GoOn(where)
          PROVE  pc' = where \/ pc' = "askbackup"
      BY <3>1 DEF AskBackup, Go, GoOn
    <3>2. pc # "exited" /\ AfterBackup # "exited"
      BY <2>1, Places DEF AfterBackup
    <3> QED BY <1>7, <2>5, <3>1, <3>2
            DEF Call, RefuseSymlink, OpenOriginal, UnlinkBackup, CreateBackup, ChmodBackup,
                CopyBackup, UtimeBackup, PrepareTemp, SaveOld, OpenFile, CannotOpen, WriteLine,
                CannotClose, FailedBackup, AskBackup, Go, GoOn, Fails
  <2> QED BY <2>3, <2>4, <2>5
<1> QED BY <1>1, <1>2, <1>3, <1>4, <1>5, <1>6, <1>7 DEF Next, WriteStep, Call

LEMMA InitSaves == Init => HangupSaves
BY DEF Init, HangupSaves

\* When no signal comes in the windows around the write of what is marked, a pinot that
\* ends leaves the text in a file, or has said that it could not write it.
THEOREM HangupLeavesText ==
  ASSUME Windows \subseteq Shielded
  PROVE  Spec => []HangupSaves
<1> DEFINE Saved == Typed /\ Progress /\ Whole /\ ModifiedWhenUnsaved /\ HangupSaves
<1>1. Init => Saved
  BY InitTyped, InitProgress, InitWhole, InitSaves
<1>2. Saved /\ [Next]_vars => Saved'
  BY StepTyped, StepProgress, StepWhole, StepModified, StepSaves
<1>3. Saved => HangupSaves
  OBVIOUS
<1> HIDE DEF Saved
<1> QED BY <1>1, <1>2, <1>3, PTL DEF Spec

-----------------------------------------------------------------------------
(* Where what was in the buffer's file is.                                 *)

InOwn    == Holds(disk["own"].data, kept)
InBackup == Exists("own~") /\ Holds(disk["own~"].data, kept)

\* What is kept is in the buffer's file when its stat is the one that is known.
Known == name = "own" /\ pc \notin Ended /\ stat[2] = disk["own"].time => InOwn

\* Before the buffer's file is written it is whole, or its backup is; the backup, while
\* it is made, and what is still to be copied are what is in the file; and from then on,
\* the backup is whole.
OwnWrite ==
    /\ pc = "confirm" /\ mark => InOwn
    /\ pc \in {"partition", "filepart", "magicline", "stat"} =>
         IF w.append # "OVERWRITE" \/ mark THEN InOwn
         ELSE name = "own" /\ (stat[2] = disk["own"].time \/ InBackup)
    /\ pc \in BackupPc \cup {"askbackup"} => InOwn
    /\ pc = "bchmod" => disk["own~"].data = <<>>
    /\ pc = "bcopy" => disk["own~"].data \o w.todo = disk["own"].data
    /\ pc = "butime" => Exists("own~") /\ disk["own~"].data = disk["own"].data
    /\ pc \in {"prepare", "save", "open", "write", "rest", "close"} => InBackup

Kept == (InOwn \/ InBackup) /\ Known /\ (~w.tmp /\ w.target = "own" => OwnWrite)

BackedUp == "BACKUP_FILE" \in flags /\ ~risked => Kept

LEMMA InitBackedUp == Init => BackedUp
<1> SUFFICES ASSUME Init PROVE Kept
  BY DEF BackedUp
<1>1. kept = disk["own"].data /\ kept \in Data /\ pc = "main"
  BY InitTyped DEF Init, Typed, ValuesOK
<1>2. InOwn
  BY <1>1, HoldsItself DEF InOwn
<1> QED BY <1>1, <1>2 DEF Kept, Known, OwnWrite, BackupPc

\* Steps outside the write of the buffer's own file, that change neither this file nor
\* its backup.
LEMMA KeptElsewhere ==
  ASSUME Kept, UNCHANGED <<name, stat, kept>>, pc \notin Ended,
         "own" \in DOMAIN disk, disk'["own"] = disk["own"],
         "own~" \in DOMAIN disk => "own~" \in DOMAIN disk' /\ disk'["own~"] = disk["own~"],
         ~w'.tmp /\ w'.target = "own" => OwnWrite'
  PROVE  Kept'
<1>1. InOwn' = InOwn /\ (InBackup => InBackup')
  BY DEF InOwn, InBackup, Exists
<1>2. Known'
  BY <1>1 DEF Kept, Known
<1> QED BY <1>1, <1>2 DEF Kept

\* There are no such steps to be taken care of in the places where nothing is written.
LEMMA NoOwnWrite ==
  ASSUME pc' \in {"main", "prompt", "exited", "aborted", "unmagic", "unpartition",
                  "unfilepart", "remodify"}
  PROVE  OwnWrite'
BY DEF OwnWrite, BackupPc

\* Where the question about the buffer's file is not asked, or is answered.
LEMMA NotOverruled ==
  ASSUME Typed, Dated, Kept, ~Overrules("own"), pc \notin Ended
  PROVE  name = "own" /\ (stat[2] = disk["own"].time \/ InBackup)
<1>1. name = "own" /\ ~(Outdated("own") /\ InOwn)
  BY DEF Overrules, InOwn
<1>2. NameDated
  BY <1>1, NamesDiffer, Distinct DEF Dated
<1>3. CASE ~InOwn
  BY <1>1, <1>3 DEF Kept
<1>4. CASE ~Outdated("own")
  <2>1. ~(stat[2] < disk["own"].time) /\ stat[2] <= disk["own"].time
    BY <1>1, <1>2, <1>4 DEF Outdated, NameDated
  <2>2. stat[2] \in Nat /\ disk["own"].time \in Nat
    BY Times DEF Typed, DiskOK
  <2> QED BY <1>1, <2>1, <2>2
<1> QED BY <1>1, <1>3, <1>4

\* do_writeout.
LEMMA AskingKept ==
  ASSUME "retry" \in Avoided, Typed, Typed', Dated, Questions, BackedUp,
         "BACKUP_FILE" \in flags, ~risked',
         \/ \E e \in BOOLEAN : DoWriteout(e)
         \/ \E n \in Targets : EnterName(n)
         \/ \E yes \in BOOLEAN : Confirm(yes)
  PROVE  Kept'
<1>1. /\ ~risked /\ disk' = disk /\ UNCHANGED <<name, stat, kept, mark>>
      /\ pc \in {"main", "prompt", "confirm"} /\ pc \notin Ended
  <2>1. disk' = disk /\ UNCHANGED <<name, stat, kept, mark>>
        /\ pc \in {"main", "prompt", "confirm"}
    BY DEF DoWriteout, EnterName, Confirm, buffer
  <2>2. ~risked
    BY DEF DoWriteout, EnterName, Confirm
  <2> QED BY <2>1, <2>2, Places
<1>2. Kept /\ w \in Writes /\ "own" \in DOMAIN disk
  BY <1>1 DEF BackedUp, Typed, PlaceOK, DiskOK
<1> SUFFICES ASSUME ~w'.tmp, w'.target = "own" PROVE OwnWrite'
  BY <1>1, <1>2, KeptElsewhere
<1>3. InOwn' = InOwn /\ InBackup' = InBackup
  BY <1>1 DEF InOwn, InBackup, Exists
\* With the mark, or for adding to the file, what is kept must be in it.
<1>4. ASSUME NEW append, ~Renews("own", append), append # "OVERWRITE" \/ mark PROVE InOwn
  BY <1>2, <1>4 DEF Renews, InOwn, Exists
<1>5. ASSUME NEW e \in BOOLEAN, DoWriteout(e) PROVE OwnWrite'
  <2>1. pc' = IF w'.auto THEN "stat" ELSE "prompt"
    BY <1>5 DEF DoWriteout
  <2>2. w'.target = name /\ w'.append = "OVERWRITE"
    BY <1>5 DEF DoWriteout, NoWrite
  <2>3. CASE w'.auto
    <3>1. ~Renews("own", "OVERWRITE") /\ ~Overrules("own")
      BY <1>1, <1>5, <2>2, <2>3 DEF DoWriteout
    <3>2. mark => InOwn
      BY <1>4, <3>1
    <3>3. name = "own" /\ (stat[2] = disk["own"].time \/ InBackup)
      BY <1>1, <1>2, <3>1, NotOverruled
    <3> QED BY <1>1, <1>3, <2>1, <2>2, <2>3, <3>2, <3>3 DEF OwnWrite, BackupPc
  <2>4. CASE ~w'.auto
    BY <2>1, <2>4, NoOwnWrite
  <2> QED BY <2>3, <2>4
<1>6. ASSUME NEW n \in Targets, EnterName(n) PROVE OwnWrite'
  <2>1. w'.target = n /\ w'.append = w.append /\ n = "own"
    BY <1>2, <1>6 DEF EnterName, Writes
  <2>2. ~Renews("own", w.append)
    BY <1>6, <2>1 DEF EnterName
  <2>3. mark \/ w.append # "OVERWRITE" => InOwn
    BY <1>4, <2>2
  <2>4. PICK ask \in AskFor("own") :
              pc' = IF ask THEN "confirm" ELSE IF w.marked THEN "partition" ELSE "stat"
    BY <1>6, <2>1 DEF EnterName
  <2>5. CASE ask
    BY <1>1, <1>3, <2>3, <2>4, <2>5 DEF OwnWrite, BackupPc
  <2>6. ASSUME ~ask, w.append = "OVERWRITE", ~mark PROVE name = "own" /\ ~Overrules("own")
    <3>1. FALSE \in AskFor("own")
      BY <2>6, AskForBoolean
    <3>2. name = "own"
      BY <1>2, <2>6, <3>1 DEF AskFor, Exists
    <3>3. stat # NoStat /\ stat # AnyStat
      BY <1>1, <3>2, NamesDiffer, Distinct DEF Dated, NameDated
    <3>4. AskFor("own") = {Outdated("own")} /\ Outdated("own") \in BOOLEAN
      BY <1>2, <2>6, <3>2, <3>3, NamesDiffer, Distinct DEF AskFor, Exists, Outdated
    <3> QED BY <3>1, <3>2, <3>4 DEF Overrules
  <2>7. CASE ~ask
    <3>1. pc' \in {"partition", "stat"}
      BY <2>4, <2>7
    <3>2. w.append = "OVERWRITE" /\ ~mark
             => name = "own" /\ (stat[2] = disk["own"].time \/ InBackup)
      BY <1>1, <1>2, <2>6, <2>7, NotOverruled
    <3> QED BY <1>1, <1>3, <2>1, <2>3, <3>1, <3>2 DEF OwnWrite, BackupPc
  <2> QED BY <2>5, <2>7
<1>7. ASSUME NEW yes \in BOOLEAN, Confirm(yes) PROVE OwnWrite'
  <2>1. w'.target = w.target /\ w'.append = w.append /\ w'.tmp = w.tmp /\ pc = "confirm"
    BY <1>2, <1>7 DEF Confirm, Writes
  <2>2. w.append = "OVERWRITE" /\ (mark => InOwn)
    BY <1>2, <2>1 DEF Questions, Kept, OwnWrite
  <2>3. CASE yes
    <3>1. ~Overrules("own") /\ pc' \in {"partition", "stat"}
      BY <1>7, <2>1, <2>3 DEF Confirm
    <3>2. name = "own" /\ (stat[2] = disk["own"].time \/ InBackup)
      BY <1>1, <1>2, <3>1, NotOverruled
    <3> QED BY <1>1, <1>3, <2>1, <2>2, <3>1, <3>2 DEF OwnWrite, BackupPc
  <2>4. CASE ~yes
    BY <1>7, <2>4, NoOwnWrite DEF Confirm
  <2> QED BY <2>3, <2>4
<1> QED BY <1>5, <1>6, <1>7

\* The backup, and what follows it.
LEMMA BackupKept ==
  ASSUME Typed, Typed', Dated, BackedUp, "BACKUP_FILE" \in flags, ~risked',
         \/ OpenOriginal \/ UnlinkBackup \/ CreateBackup \/ ChmodBackup \/ CopyBackup
         \/ UtimeBackup
  PROVE  Kept'
<1>1. /\ UNCHANGED <<name, stat, kept, mark>> /\ pc \in BackupPc /\ pc \notin Ended
      /\ ~risked /\ "own" \in DOMAIN disk /\ w \in Writes /\ Kept
  <2>1. Call /\ w \in Writes
    BY DEF Call, Typed, PlaceOK
  <2>2. pc \in BackupPc
    BY DEF OpenOriginal, UnlinkBackup, CreateBackup, ChmodBackup, CopyBackup, UtimeBackup, BackupPc
  <2>3. ~risked
    BY DEF OpenOriginal, UnlinkBackup, CreateBackup, ChmodBackup, CopyBackup, UtimeBackup,
           AskBackup, Fails, Go, GoOn
  <2> QED BY <2>1, <2>2, <2>3, CallFacts, Places DEF BackedUp, Typed, DiskOK, BackupPc
<1>2. /\ ~w.tmp /\ w.target \in Targets /\ w.target \in DOMAIN disk
      /\ Backup \in Names \ {"own"} /\ Backup # w.target
      /\ Backup = "own~" <=> w.target = "own"
  <2>1. Backup = "own~" <=> w.target = "own"
    BY <1>1, BackupFacts DEF Backup, BackupOf, Typed
  <2> QED BY <1>1, <2>1, BackupFacts DEF Typed
<1>3. disk' = disk \/ Only(Backup)
  BY <1>1, CallDisk DEF Call, BackupPc
<1>4. "own" \in DOMAIN disk' /\ disk'["own"] = disk["own"]
  BY <1>1, <1>2, <1>3 DEF Only
<1>5. /\ pc' \notin {"main", "exited"} => w'.target = w.target /\ w'.append = w.append
      /\ w'.tmp = w.tmp
  BY CallArguments DEF Call
\* The other file, and its backup.
<1>6. CASE w.target # "own"
  <2>1. pc' \in {"main", "exited"} => OwnWrite'
    BY NoOwnWrite
  <2>2. "own~" \in DOMAIN disk => "own~" \in DOMAIN disk' /\ disk'["own~"] = disk["own~"]
    BY <1>2, <1>3, <1>6 DEF Only
  <2> QED BY <1>1, <1>4, <1>5, <1>6, <2>1, <2>2, KeptElsewhere
\* The buffer's own file.
<1>7. CASE w.target = "own"
  <2>1. OwnWrite /\ InOwn
    BY <1>1, <1>2, <1>7 DEF Kept, OwnWrite
  <2>2. InOwn' /\ Known'
    BY <1>1, <1>4, <2>1 DEF InOwn, Kept, Known
  <2> SUFFICES ASSUME pc' \notin {"main", "exited", "aborted", "prompt", "unmagic"}
               PROVE  OwnWrite'
    BY <2>2, NoOwnWrite DEF Kept
  <2>3. ASSUME NEW ok, Return(ok) PROVE FALSE
    BY <2>3 DEF Return, ReturnPc
  <2>4. ASSUME NEW kind, Fails(kind) PROVE FALSE
    BY <2>3, <2>4 DEF Fails
  <2>5. ASSUME pc' = "askbackup" PROVE OwnWrite'
    BY <2>2, <2>5 DEF OwnWrite, BackupPc
  <2>6. ASSUME pc' \in {"bunlink", "bcreate"} PROVE OwnWrite'
    BY <2>2, <2>6 DEF OwnWrite, BackupPc
  <2>7. ASSUME NEW kind, AskBackup(kind) PROVE OwnWrite'
    BY <2>5, <2>7 DEF AskBackup, GoOn
  <2>8. CASE OpenOriginal \/ UnlinkBackup
    BY <2>6, <2>7, <2>8 DEF OpenOriginal, UnlinkBackup, Go, GoOn
  <2>9. CASE CreateBackup
    <3>1. Go("bchmod") /\ disk' = Written(Backup, <<>>)
      BY <2>4, <2>9 DEF CreateBackup
    <3>2. pc' = "bchmod" /\ disk'["own~"].data = <<>>
      BY <1>2, <1>7, <3>1, OnlyWritten DEF Go, GoOn
    <3> QED BY <2>2, <3>2 DEF OwnWrite, BackupPc
  <2>10. CASE ChmodBackup
    <3>1. CASE Go("bcopy") /\ w' = [w EXCEPT !.todo = disk[w.target].data]
               /\ UNCHANGED <<disk, risked>>
      <4>1. pc = "bchmod" /\ pc' = "bcopy" /\ w'.todo = disk["own"].data
        BY <1>1, <1>7, <2>10, <3>1 DEF ChmodBackup, Go, GoOn, Writes
      <4>3. <<>> \o disk["own"].data = disk["own"].data
        BY <1>1, Times, ConcatEmptySeq DEF Data, Typed
      <4>2. disk'["own~"].data \o w'.todo = disk'["own"].data
        BY <2>1, <3>1, <4>1, <4>3 DEF OwnWrite
      <4> QED BY <2>2, <4>1, <4>2 DEF OwnWrite, BackupPc
    <3> QED BY <2>7, <2>10, <3>1 DEF ChmodBackup
  <2>11. CASE CopyBackup
    <3>1. pc = "bcopy" /\ disk["own~"].data \o w.todo = disk["own"].data
          /\ "own~" \in DOMAIN disk /\ disk["own~"].data \in Data /\ w.todo \in Data
      BY <1>1, <1>2, <1>7, <2>1, <2>11, WriteTyped
         DEF CopyBackup, OwnWrite, Typed, PlaceOK, Present, Exists, DiskOK, Files
    <3>2. CASE /\ w.todo # <<>> /\ disk' = Written(Backup, Append(disk[Backup].data, Head(w.todo)))
               /\ w' = [w EXCEPT !.todo = Tail(@)] /\ Go(pc) /\ UNCHANGED risked
      <4>1. disk'["own~"].data = Append(disk["own~"].data, Head(w.todo)) /\ w'.todo = Tail(w.todo)
        BY <1>1, <1>2, <1>7, <3>2, OnlyWritten DEF Writes
      <4>2. disk'["own~"].data \o w'.todo = disk'["own"].data
        BY <1>4, <3>1, <3>2, <4>1, MoveOne
      <4>3. pc' = "bcopy"
        BY <3>1, <3>2 DEF Go, GoOn
      <4> QED BY <2>2, <4>2, <4>3 DEF OwnWrite, BackupPc
    <3>3. CASE w.todo = <<>> /\ Go("butime") /\ UNCHANGED <<disk, w, risked>>
      <4>1. disk["own~"].data = disk["own"].data
        BY <3>1, <3>3, ConcatEmptySeq DEF Data
      <4>2. pc' = "butime" /\ disk'["own~"].data = disk'["own"].data /\ Exists("own~")'
        BY <3>1, <3>3, <4>1 DEF Go, GoOn, Exists
      <4> QED BY <2>2, <4>2 DEF OwnWrite, BackupPc
    <3> QED BY <2>4, <2>11, <3>2, <3>3 DEF CopyBackup
  <2>12. CASE UtimeBackup
    <3>1. CASE Go(AfterBackup) /\ UNCHANGED <<disk, w, risked>>
      <4>1. pc = "butime" /\ pc' \in {"prepare", "open"}
        BY <2>12, <3>1 DEF UtimeBackup, Go, GoOn, AfterBackup
      <4>2. /\ disk'["own~"].data = disk'["own"].data /\ disk' = disk
            /\ "own~" \in DOMAIN disk
        BY <2>1, <3>1, <4>1 DEF OwnWrite, Exists
      <4>3. InBackup'
        BY <2>2, <4>2 DEF InBackup, InOwn, Exists
      <4> QED BY <4>1, <4>3 DEF OwnWrite, BackupPc
    <3> QED BY <2>7, <2>12, <3>1 DEF UtimeBackup
  <2> QED BY <2>8, <2>9, <2>10, <2>11, <2>12
<1> QED BY <1>6, <1>7

\* The file is written, once its backup is made.
LEMMA FileKept ==
  ASSUME Typed, Typed', Dated, BackedUp, "BACKUP_FILE" \in flags, ~risked',
         \/ RefuseSymlink \/ PrepareTemp \/ SaveOld \/ OpenFile \/ CannotOpen \/ WriteLine
         \/ CopyRest \/ CannotClose \/ \E a \in {"yes", "no", "cancel"} : FailedBackup(a)
  PROVE  Kept'
<1> DEFINE Writing == {"prepare", "save", "open", "write", "rest", "close"}
<1>1. Call /\ pc \in Writing \cup {"stat", "askbackup"} /\ ~risked
  <2>1. Call
    BY DEF Call
  <2>2. pc \in Writing \cup {"stat", "askbackup"}
    BY DEF RefuseSymlink, PrepareTemp, SaveOld, OpenFile, CannotOpen, WriteLine, CopyRest,
           CannotClose, FailedBackup
  <2>3. ~risked
    BY DEF RefuseSymlink, PrepareTemp, SaveOld, OpenFile, CannotOpen, WriteLine, CopyRest,
           CannotClose, FailedBackup, Fails, Go, GoOn
  <2> QED BY <2>1, <2>2, <2>3
<1>2. /\ UNCHANGED <<name, stat, kept, mark, now>> /\ pc \notin Ended /\ pc \in WritePc \cup {"askbackup"}
      /\ "own" \in DOMAIN disk /\ w \in Writes /\ Kept
  BY <1>1, CallFacts, Places DEF BackedUp, Typed, DiskOK, PlaceOK
<1>3. /\ "own" \in DOMAIN disk'
      /\ disk'["own"] = disk["own"]
           \/ /\ w.target = "own" /\ ~w.tmp /\ pc \in {"open", "write", "rest", "close"}
              /\ disk'["own"].time = now
  BY <1>1, <1>2, CallTarget, Distinct
<1>4. /\ pc' \notin {"main", "exited"} => w'.target = w.target /\ w'.append = w.append
      /\ w'.tmp = w.tmp
  BY <1>1, CallArguments
\* The backup stays.
<1>5. "own~" \in DOMAIN disk => "own~" \in DOMAIN disk' /\ disk'["own~"] = disk["own~"]
  <2>1. pc \in {"open", "write", "rest", "close"} => w.target # "own~"
    BY TargetFacts DEF Typed
  <2>2. \/ disk' = disk \/ Only("temp")
        \/ pc \in {"open", "write", "rest", "close"} /\ Only(w.target)
    BY <1>1, CallDisk DEF BackupPc
  <2> QED BY <2>1, <2>2 DEF Only
<1>6. InBackup => InBackup'
  BY <1>2, <1>5 DEF InBackup, Exists
\* In the places that follow, the backup was made before.
<1>7. ASSUME ~w'.tmp, w'.target = "own" PROVE OwnWrite'
  <2>1. CASE pc' \in {"main", "exited", "aborted", "prompt", "unmagic"}
    BY <2>1, NoOwnWrite
  <2>2. CASE pc' \notin {"main", "exited", "aborted", "prompt", "unmagic"}
    <3>1. ~w.tmp /\ w.target = "own" /\ OwnWrite
      BY <1>2, <1>4, <1>7, <2>2 DEF Kept
    <3>2. ASSUME NEW ok, Return(ok) PROVE FALSE
      BY <2>2, <3>2 DEF Return, ReturnPc
    <3>3. ASSUME NEW kind, Fails(kind) PROVE FALSE
      BY <3>2, <3>3 DEF Fails
    <3>4. ~RefuseSymlink /\ ~CannotOpen /\ ~CannotClose
      BY <3>2 DEF RefuseSymlink, CannotOpen, CannotClose
    <3>5. ASSUME NEW a, FailedBackup(a) PROVE FALSE
      <4>1. risked' \/ Return(FALSE)
        BY <3>5 DEF FailedBackup
      <4> QED BY <3>2, <4>1
    <3>6. pc \in Writing /\ pc' \in Writing
      BY <2>2, <3>2, <3>3, <3>4, <3>5
         DEF PrepareTemp, SaveOld, OpenFile, WriteLine, CopyRest, Go, GoOn
    <3>7. InBackup'
      BY <1>6, <3>1, <3>6 DEF OwnWrite
    <3> QED BY <3>6, <3>7 DEF OwnWrite, BackupPc
  <2> QED BY <2>1, <2>2
<1>8. CASE disk'["own"] = disk["own"]
  BY <1>2, <1>3, <1>5, <1>7, <1>8, KeptElsewhere
<1>9. CASE disk'["own"] # disk["own"]
  <2>1. w.target = "own" /\ ~w.tmp /\ pc \in {"open", "write", "rest", "close"}
        /\ disk'["own"].time = now
    BY <1>3, <1>9
  <2>2. InBackup'
    BY <1>2, <1>6, <2>1 DEF Kept, OwnWrite
  \* The file has a later time now than the one that is known.
  <2>3. ASSUME name = "own" PROVE stat[2] # disk'["own"].time
    <3>1. stat[2] < now
      BY <1>2, <2>1, <2>3, NamesDiffer, Distinct DEF Dated, NameDated, Going
    <3>2. stat[2] \in Nat /\ now \in Nat
      BY Times DEF Typed
    <3> QED BY <2>1, <3>1, <3>2
  <2>4. Known'
    BY <1>2, <2>3 DEF Known
  <2> QED BY <1>7, <2>2, <2>4 DEF Kept
<1> QED BY <1>8, <1>9

\* stat, and the decision about a backup.
LEMMA StatKept ==
  ASSUME Typed, Typed', Dated, BackedUp, "BACKUP_FILE" \in flags, ~risked', StatFile
  PROVE  Kept'
<1>1. /\ pc = "stat" /\ pc \in WritePc /\ pc \notin Ended /\ ~risked
      /\ UNCHANGED <<disk, name, kept, mark>>
  BY Places DEF StatFile
<1>2. Kept /\ "own" \in DOMAIN disk /\ w \in Writes /\ w.tmp \in BOOLEAN
  BY <1>1, WriteTyped DEF BackedUp, Typed, DiskOK, PlaceOK
<1>3. InOwn' = InOwn /\ InBackup' = InBackup
  BY <1>1 DEF InOwn, InBackup, Exists
<1>4. ASSUME name = "own" PROVE stat' = stat /\ stat # AnyStat /\ stat # NoStat
  <2>1. stat[1] = "own"
    BY <1>1, <1>4, NamesDiffer, Distinct DEF Dated, NameDated
  <2>2. stat # AnyStat /\ stat # NoStat
    BY <2>1, NamesDiffer, Distinct
  <2> QED BY <2>2 DEF StatFile
<1>5. Known'
  BY <1>1, <1>2, <1>3, <1>4 DEF Kept, Known
<1>6. ASSUME ~w'.tmp, w'.target = "own" PROVE OwnWrite'
  <2>1. CASE w.tmp /\ Exists(w.target)
    <3>1. Return(FALSE)
      BY <1>6, <2>1 DEF StatFile
    <3> QED BY <1>1, <1>6, <2>1, <3>1, ReturnArguments DEF Typed
  <2>2. CASE ~(w.tmp /\ Exists(w.target))
    <3>1. w' = w
      BY <2>2 DEF StatFile
    <3>2. PICK b \in NeedsBackup : pc' = IF b THEN "backup" ELSE AfterBackup
      BY <2>2 DEF StatFile
    <3>3. ~w.tmp /\ w.target = "own" /\ OwnWrite /\ Exists("own")
      BY <1>2, <1>6, <3>1 DEF Kept, Exists
    <3>4. CASE w.append # "OVERWRITE" \/ mark
      <4>1. b
        BY <3>2, <3>3, <3>4 DEF NeedsBackup
      <4>2. InOwn
        BY <1>1, <3>3, <3>4 DEF OwnWrite
      <4> QED BY <1>3, <3>2, <4>1, <4>2 DEF OwnWrite, BackupPc
    <3>5. CASE ~(w.append # "OVERWRITE" \/ mark)
      <4>1. name = "own" /\ (stat[2] = disk["own"].time \/ InBackup)
        BY <1>1, <3>3, <3>5 DEF OwnWrite
      <4>2. NeedsBackup = {stat[2] = disk["own"].time}
        BY <1>4, <3>3, <3>5, <4>1 DEF NeedsBackup
      <4>3. CASE stat[2] = disk["own"].time
        <5>1. b /\ InOwn
          BY <1>1, <1>2, <3>2, <4>1, <4>2, <4>3 DEF Kept, Known
        <5> QED BY <1>3, <3>2, <5>1 DEF OwnWrite, BackupPc
      <4>4. CASE stat[2] # disk["own"].time
        <5>1. ~b /\ InBackup
          BY <3>2, <4>1, <4>2, <4>4
        <5>2. pc' \in {"prepare", "open"}
          BY <3>2, <5>1 DEF AfterBackup
        <5> QED BY <1>3, <5>1, <5>2 DEF OwnWrite, BackupPc
      <4> QED BY <4>3, <4>4
    <3> QED BY <3>4, <3>5
  <2> QED BY <2>1, <2>2
<1> QED BY <1>2, <1>3, <1>5, <1>6 DEF Kept

\* What is in the file at the end of a save is what is kept from then on.
LEMMA CloseKept ==
  ASSUME Typed, Typed', Dated, BackedUp, "BACKUP_FILE" \in flags, ~risked', CloseFile
  PROVE  Kept'
<1>1. /\ pc = "close" /\ pc \in WritePc /\ pc \notin Ended /\ Return(TRUE)
      /\ UNCHANGED <<disk, mark>> /\ "own" \in DOMAIN disk
  BY Places DEF CloseFile, Typed, DiskOK
<1>2. OwnWrite'
  <2>1. pc' \in {"exited", "unmagic", "prompt", "main"}
    BY <1>1, ReturnArguments DEF Typed
  <2> QED BY <2>1, NoOwnWrite
<1> DEFINE whole == w.target = "own" /\ w.append = "OVERWRITE" /\ ~w.marked
<1>3. CASE whole
  <2>1. kept' = disk["own"].data /\ disk["own"].data \in Data
    BY <1>1, <1>3, Times DEF CloseFile, Typed
  <2>2. InOwn'
    BY <1>1, <2>1, HoldsItself DEF InOwn
  <2> QED BY <1>2, <2>2 DEF Kept, Known
<1>4. CASE ~whole
  <2>1. kept' = kept /\ ~risked
    BY <1>4 DEF CloseFile
  <2>2. Kept /\ InOwn' = InOwn /\ InBackup' = InBackup
    BY <1>1, <2>1 DEF BackedUp, InOwn, InBackup, Exists
  <2>3. ASSUME name' = "own" PROVE name = "own" /\ stat' = stat
    <3>1. CASE w.tmp \/ w.append # "OVERWRITE"
      BY <2>3, <3>1 DEF CloseFile
    <3>2. CASE ~(w.tmp \/ w.append # "OVERWRITE")
      <4>1. name' = IF w.marked THEN name ELSE w.target
        BY <3>2 DEF CloseFile
      <4>2. w.marked /\ name = "own"
        BY <1>4, <2>3, <3>2, <4>1
      <4>3. mark
        BY <1>1, <3>2, <4>2 DEF Typed, PlaceOK, MarkedOnly
      <4>4. stat # NoStat
        BY <1>1, <4>2, NamesDiffer, Distinct DEF Dated, NameDated
      <4> QED BY <3>2, <4>2, <4>3, <4>4 DEF CloseFile
    <3> QED BY <3>1, <3>2
  <2>4. Known'
    BY <1>1, <2>2, <2>3 DEF Kept, Known
  <2> QED BY <1>2, <2>2, <2>4 DEF Kept
<1> QED BY <1>3, <1>4

\* Another program writes the other file only, or it was its choice.
LEMMA OtherKept ==
  ASSUME Typed, BackedUp, "BACKUP_FILE" \in flags, ~risked',
         NEW n \in Targets, OtherProgram(n)
  PROVE  Kept'
<1>1. /\ n = "other" /\ ~risked /\ UNCHANGED <<name, stat, kept, pc, mark>> /\ pc \notin Ended
      /\ Kept /\ "own" \in DOMAIN disk
  <2>1. n = "other" /\ ~risked
    BY Distinct DEF OtherProgram
  <2>2. UNCHANGED <<name, stat, kept, pc, mark>> /\ pc \notin Ended
    BY DEF OtherProgram, buffer, Ended
  <2> QED BY <2>1, <2>2 DEF BackedUp, Typed, DiskOK
<1>2. SameWrite
  BY OthersWrite DEF Typed
<1>3. /\ DOMAIN disk' = DOMAIN disk \cup {"other"}
      /\ \A m \in DOMAIN disk : m # "other" => disk'[m] = disk[m]
  BY <1>1, OthersDisk DEF OthersFile
<1>4. /\ disk'["own"] = disk["own"]
      /\ "own~" \in DOMAIN disk' <=> "own~" \in DOMAIN disk
      /\ "own~" \in DOMAIN disk => disk'["own~"] = disk["own~"]
  BY <1>1, <1>3
<1>5. ASSUME ~w'.tmp, w'.target = "own" PROVE OwnWrite'
  <2>1. OwnWrite /\ w.target = "own"
    BY <1>1, <1>2, <1>5 DEF Kept, SameWrite
  <2>2. pc = "bchmod" \/ pc = "bcopy" => "own~" \in DOMAIN disk
    BY <2>1, Distinct DEF Typed, PlaceOK, Present, Exists, Backup
  <2>3. InOwn' = InOwn /\ InBackup' = InBackup
    BY <1>1, <1>4 DEF InOwn, InBackup, Exists
  <2> QED BY <1>1, <1>2, <1>4, <2>1, <2>2, <2>3 DEF OwnWrite, SameWrite, Exists
<1> QED BY <1>1, <1>4, <1>5, KeptElsewhere

LEMMA StepBackedUp ==
  ASSUME "retry" \in Avoided, Typed, Typed', Dated, Questions, BackedUp, [Next]_vars
  PROVE  BackedUp'
<1> SUFFICES ASSUME "BACKUP_FILE" \in flags', ~risked' PROVE Kept'
  BY DEF BackedUp
<1>1. CASE UNCHANGED vars
  <2>1. UNCHANGED <<disk, flags, name, stat, mark, pc, w, kept, risked>>
    BY <1>1 DEF vars
  <2>2. Kept
    BY <2>1 DEF BackedUp
  <2> QED BY <2>1, <2>2
          DEF Kept, Known, OwnWrite, InOwn, InBackup, Exists
<1>2. flags' = flags
  <2>1. ASSUME Call PROVE flags' = flags
    BY <2>1, CallFacts DEF Typed, PlaceOK
  <2>2. ASSUME WriteStep, ~Call PROVE flags' = flags
    BY <2>2 DEF WriteStep, Call, StatFile, CloseFile, PartitionMarked, UnpartitionMarked,
                Remodify, rest, calm
  <2>3. ASSUME UserStep, ~Call PROVE flags' = flags
    BY <2>3 DEF UserStep, Call, Edit, DoMark, Speller, OtherProgram, DoWriteout, Cancel,
                ToggleAppend, EnterName, Confirm, rest, calm
  <2> QED BY <1>1, <2>1, <2>2, <2>3 DEF Next, HangUp, Resize, rest, calm, vars
<1>3. "BACKUP_FILE" \in flags
  BY <1>2
<1>4. CASE Call
  BY <1>3, <1>4, BackupKept, FileKept DEF Call
<1>5. CASE StatFile \/ CloseFile
  BY <1>3, <1>5, StatKept, CloseKept
<1>6. CASE \/ \E e \in BOOLEAN : DoWriteout(e)
           \/ \E n \in Targets : EnterName(n)
           \/ \E yes \in BOOLEAN : Confirm(yes)
  BY <1>3, <1>6, AskingKept
<1>7. ASSUME NEW n \in Targets, OtherProgram(n) PROVE Kept'
  BY <1>3, <1>7, OtherKept
\* The others leave the files and what is known of them.
<1>8. ASSUME UNCHANGED <<disk, name, stat, kept, risked>>, pc \notin Ended,
             ~w'.tmp /\ w'.target = "own" => OwnWrite'
      PROVE  Kept'
  BY <1>3, <1>8, KeptElsewhere DEF BackedUp, Typed, DiskOK
<1>9. CASE PartitionMarked
  <2>1. UNCHANGED <<disk, name, stat, kept, risked, mark>>
        /\ pc \in {"partition", "filepart", "magicline"}
        /\ pc' \in {"filepart", "magicline", "stat"}
    BY <1>9 DEF PartitionMarked, MarkedStep, buffer
  <2>2. w'.tmp = w.tmp /\ w'.target = w.target /\ w'.append = w.append
    BY <1>9 DEF PartitionMarked, Typed, PlaceOK, Writes
  <2>3. ~w.tmp /\ w.target = "own" => OwnWrite
    BY <1>3, <2>1 DEF BackedUp, Kept
  <2>4. ~w'.tmp /\ w'.target = "own" => OwnWrite'
    BY <2>1, <2>2, <2>3 DEF OwnWrite, BackupPc, InOwn, InBackup, Exists
  <2> QED BY <1>8, <2>1, <2>4, Places
<1>10. CASE \/ UnpartitionMarked \/ Remodify \/ Edit \/ DoMark \/ Speller \/ Cancel \/ Resize
            \/ \E how \in {"PREPEND", "APPEND"} : ToggleAppend(how)
  <2>1. /\ UNCHANGED <<disk, name, stat, kept, risked>>
        /\ pc' \in {"main", "prompt", "unmagic", "unpartition", "unfilepart", "remodify"}
        /\ pc \notin Ended
    BY <1>10, Places DEF UnpartitionMarked, MarkedStep, Remodify, Edit, DoMark, Speller, Cancel,
                 Resize, ToggleAppend, buffer
  <2> QED BY <1>8, <2>1, NoOwnWrite
<1>11. CASE HangUp
  <2>1. UNCHANGED <<disk, name, stat, kept, risked>> /\ pc \notin Ended
        /\ (pc' = "exited" \/ w'.tmp)
    BY <1>11, Places DEF HangUp, buffer, NoWrite
  <2> QED BY <1>8, <2>1, NoOwnWrite
<1> QED BY <1>1, <1>4, <1>5, <1>6, <1>7, <1>9, <1>10, <1>11
      DEF Next, WriteStep, UserStep, Call

\* When no two writes are made within a second and what a failed save has left is not
\* added to, what was in the buffer's file is in it or in its backup, wherever pinot
\* stops, unless somebody chose that it may be lost.
THEOREM OldTextOnDisk ==
  ASSUME "same second" \in Avoided, "retry" \in Avoided
  PROVE  Spec => []OldOrNew
<1> DEFINE Safe == Typed /\ Progress /\ Questions /\ Dated /\ BackedUp
<1>1. Init => Safe
  BY InitTyped, InitProgress, InitDated, InitBackedUp
<1>2. Safe /\ [Next]_vars => Safe'
  BY StepTyped, StepProgress, StepQuestions, StepDated, StepBackedUp
<1>3. Safe => OldOrNew
  BY DEF BackedUp, Kept, InOwn, InBackup, OldOrNew, OnDisk, Exists, Typed, DiskOK
<1> HIDE DEF Safe
<1> QED BY <1>1, <1>2, <1>3, PTL DEF Spec

================================================================================
