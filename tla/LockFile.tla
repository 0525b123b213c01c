------------------------------- MODULE LockFile -------------------------------
(***************************************************************************)
(* The lock file of one edited file (files.cpp: do_lockfile,               *)
(* write_lockfile, delete_lockfile; winio.cpp: set_modified; pinot.cpp:    *)
(* do_exit), with several pinot processes that open the file.              *)
(*                                                                         *)
(* A step is one system call, or one answer of a user: between a stat that *)
(* finds no lock file and the open that creates it, and between the unlink *)
(* of an old one and the open of the new, another process may take any     *)
(* number of steps.                                                        *)
(***************************************************************************)
EXTENDS Naturals

CONSTANTS
  Proc,     \* the processes that edit the file with LOCKING set
  NoOne,    \* the creator of the lock file when there is none
  Serial,   \* no process begins while another is in do_lockfile or write_lockfile
  Failures  \* which system calls on lock files may fail, of "unlink" (and the
            \* look-ups before it), "open" and "write"

ASSUME LockFileAssumption ==
  /\ NoOne \notin Proc
  /\ Serial \in BOOLEAN
  /\ Failures \subseteq {"unlink", "open", "write"}

VARIABLES
  pc,         \* where each process is
  lock,       \* who created the lock file that is there now, or NoOne
  written,    \* whether its data is in it
  held,       \* whether the process's lock_filename is set
  asked,      \* whether its user was asked to override a lock file, and did
  modified,   \* whether its buffer is modified
  overridden  \* history: a lock was overridden that somebody held, and the
              \* file has been in use ever since

vars == <<pc, lock, written, held, asked, modified, overridden>>

\* In do_lockfile: "asking" the user, or about to call write_lockfile; in
\* write_lockfile: about to unlink, to create, to fill the lock file.
Opening == {"reading", "asking", "writing", "unlinking", "creating", "filling"}
Pc      == {"out", "editing", "crashed"} \cup Opening

\* The types, and that only a lock file that is there has data.
TypeOK ==
    /\ pc \in [Proc -> Pc]
    /\ lock \in Proc \cup {NoOne}
    /\ written \in BOOLEAN
    /\ held \in [Proc -> BOOLEAN]
    /\ asked \in [Proc -> BOOLEAN]
    /\ modified \in [Proc -> BOOLEAN]
    /\ overridden \in BOOLEAN
    /\ written => lock # NoOne

\* lock_filename is set by the first write_lockfile that succeeds, so that a
\* process in write_lockfile has it set only when set_modified called.
Busy(p)    == pc[p] \in Opening
Editing(p) == pc[p] = "editing" \/ (Busy(p) /\ held[p])
Holder(p)  == Editing(p) /\ held[p]

\* An override is forgotten when the last process leaves the file.
Go(p, where) ==
    /\ pc' = [pc EXCEPT ![p] = where]
    /\ overridden' = (overridden /\ \E q \in Proc : pc'[q] \notin {"out", "crashed"})

MayBegin == Serial => \A q \in Proc : ~Busy(q)

Init ==
    /\ pc = [p \in Proc |-> "out"]
    /\ lock = NoOne /\ written = FALSE
    /\ held = [p \in Proc |-> FALSE]
    /\ asked = [p \in Proc |-> FALSE]
    /\ modified = [p \in Proc |-> FALSE]
    /\ overridden = FALSE

-----------------------------------------------------------------------------
(* do_lockfile.                                                            *)

DoLockfileSlip(p) ==   \* the stat is not asked
    /\ pc[p] = "out" /\ MayBegin
    /\ Go(p, "writing")
    /\ asked' = [asked EXCEPT ![p] = FALSE]
    /\ UNCHANGED <<lock, written, held, modified>>

\* The stat that decides: a lock file is read, none is written over.
DoLockfile(p) ==
    /\ pc[p] = "out" /\ MayBegin
    /\ Go(p, IF lock # NoOne THEN "reading" ELSE "writing")
    /\ asked' = [asked EXCEPT ![p] = FALSE]
    /\ UNCHANGED <<lock, written, held, modified>>

\* The lock file is gone by now, or is not filled yet: -1.
CannotRead(p) ==
    /\ pc[p] = "reading"
    /\ lock = NoOne \/ ~written
    /\ \/ Go(p, "out")       \* close_buffer, when other buffers are open
       \/ Go(p, "editing")   \* open_buffer goes on, when this is the only one
    /\ UNCHANGED <<lock, written, held, asked, modified>>

Ask(p) ==
    /\ pc[p] = "reading"
    /\ lock # NoOne /\ written
    /\ Go(p, "asking")
    /\ UNCHANGED <<lock, written, held, asked, modified>>

RefuseSlip(p) ==   \* "no" is taken for "yes"
    /\ pc[p] = "asking"
    /\ Go(p, "writing")
    /\ UNCHANGED <<lock, written, held, asked, modified>>

Refuse(p) ==
    /\ pc[p] = "asking"
    /\ Go(p, "out") \/ Go(p, "editing")
    /\ UNCHANGED <<lock, written, held, asked, modified>>

Override(p) ==
    /\ pc[p] = "asking"
    /\ pc' = [pc EXCEPT ![p] = "writing"]
    /\ overridden' = (overridden \/ \E q \in Proc : Holder(q))
    /\ asked' = [asked EXCEPT ![p] = TRUE]
    /\ UNCHANGED <<lock, written, held, modified>>

-----------------------------------------------------------------------------
(* write_lockfile.                                                         *)

\* The stat that decides whether there is an old version to annihilate.
StatOld(p) ==
    /\ pc[p] = "writing"
    /\ Go(p, IF lock # NoOne THEN "unlinking" ELSE "creating")
    /\ UNCHANGED <<lock, written, held, asked, modified>>

\* Who and where we are cannot be looked up, or the old lock file cannot be
\* deleted: -1, which set_modified ignores.
CannotUnlink(p) ==
    /\ pc[p] \in {"writing", "unlinking"} /\ "unlink" \in Failures
    /\ \/ Go(p, "editing")
       \/ ~held[p] /\ Go(p, "out")
    /\ UNCHANGED <<lock, written, held, asked, modified>>

UnlinkSlip(p) ==   \* the lock file is kept, and written over
    /\ pc[p] = "unlinking"
    /\ lock' = NoOne
    /\ Go(p, "creating")
    /\ UNCHANGED <<written, held, asked, modified>>

\* delete_lockfile: that it is gone already (ENOENT) is not an error.
Unlink(p) ==
    /\ pc[p] = "unlinking"
    /\ lock' = NoOne /\ written' = FALSE
    /\ Go(p, "creating")
    /\ UNCHANGED <<held, asked, modified>>

Create(p) ==
    /\ pc[p] = "creating" /\ lock = NoOne
    /\ lock' = p /\ written' = FALSE
    /\ Go(p, "filling")
    /\ UNCHANGED <<held, asked, modified>>

\* O_EXCL finds the lock file of another process, or the open fails otherwise: 0,
\* and the file is edited without the lock, or with the name of a lock that is
\* not there any more.
CannotCreate(p) ==
    /\ pc[p] = "creating" /\ (lock # NoOne \/ "open" \in Failures)
    /\ Go(p, "editing")
    /\ UNCHANGED <<lock, written, held, asked, modified>>

Fill(p) ==
    /\ pc[p] = "filling"
    /\ written' = (written \/ lock = p)
    /\ held' = [held EXCEPT ![p] = TRUE]
    /\ Go(p, "editing")
    /\ UNCHANGED <<lock, asked, modified>>

\* fwrite or fclose fails: -1, and the lock file stays where it is.
CannotFill(p) ==
    /\ pc[p] = "filling" /\ "write" \in Failures
    /\ \/ Go(p, "editing")
       \/ ~held[p] /\ Go(p, "out")
    /\ UNCHANGED <<lock, written, held, asked, modified>>

-----------------------------------------------------------------------------
(* Editing: set_modified, write_file and do_exit; and the death of pinot.  *)

SetModified(p) ==
    /\ pc[p] = "editing" /\ ~modified[p]
    /\ modified' = [modified EXCEPT ![p] = TRUE]
    /\ IF held[p] THEN MayBegin /\ Go(p, "writing") ELSE UNCHANGED <<pc, overridden>>
    /\ UNCHANGED <<lock, written, held, asked>>

WriteFile(p) ==
    /\ pc[p] = "editing" /\ modified[p]
    /\ modified' = [modified EXCEPT ![p] = FALSE]
    /\ UNCHANGED <<pc, lock, written, held, asked, overridden>>

\* A slip: the lock file is left to whoever opens the file next.
DoExitSlip(p) ==
    /\ pc[p] = "editing"
    /\ Go(p, "out")
    /\ held' = [held EXCEPT ![p] = FALSE]
    /\ modified' = [modified EXCEPT ![p] = FALSE]
    /\ UNCHANGED <<lock, written, asked>>

DoExitUnheld(p) ==   \* a slip: the lock file goes, whether it is ours or not
    /\ pc[p] = "editing"
    /\ lock' = NoOne /\ written' = FALSE
    /\ Go(p, "out")
    /\ held' = [held EXCEPT ![p] = FALSE]
    /\ modified' = [modified EXCEPT ![p] = FALSE]
    /\ UNCHANGED asked

\* That the lock file cannot be deleted changes nothing else.
DoExit(p) ==
    /\ pc[p] = "editing"
    /\ IF held[p] THEN \/ lock' = NoOne /\ written' = FALSE
                       \/ "unlink" \in Failures /\ UNCHANGED <<lock, written>>
                  ELSE UNCHANGED <<lock, written>>
    /\ Go(p, "out")
    /\ held' = [held EXCEPT ![p] = FALSE]
    /\ modified' = [modified EXCEPT ![p] = FALSE]
    /\ UNCHANGED asked

\* die, or a kill: no lock file is deleted.
Crash(p) ==
    /\ pc[p] \notin {"out", "crashed"}
    /\ Go(p, "crashed")
    /\ UNCHANGED <<lock, written, held, asked, modified>>

Next ==
    \E p \in Proc :
        \/ DoLockfile(p) \/ CannotRead(p) \/ Ask(p) \/ Refuse(p) \/ Override(p)
        \/ StatOld(p) \/ CannotUnlink(p) \/ Unlink(p) \/ Create(p) \/ CannotCreate(p)
        \/ Fill(p) \/ CannotFill(p)
        \/ SetModified(p) \/ WriteFile(p) \/ DoExit(p) \/ Crash(p)

Spec == Init /\ [][Next]_vars

-----------------------------------------------------------------------------
(* Properties.                                                             *)

\* No two processes hold the lock at once, as long as no two are inside the lock
\* functions at once, until a user overrides the lock of one that holds it; and
\* again from when all of them have left the file.
MutualExclusion ==
    ~overridden => \A p, q \in Proc : Holder(p) /\ Holder(q) => p = q

\* Until a lock is overridden, the lock file of a process that edits under it is
\* there, and its own, until that process exits or dies: through the unlink and the
\* creation that every first modification makes, and whatever refused processes do.
LockStays ==
    ~overridden => \A p \in Proc : pc[p] = "editing" /\ held[p] => lock = p

\* The lock file of the only process that holds the lock is taken away, by anybody
\* else, only when that one's user was asked ("File %s is being edited (by %s with %s,
\* PID %d); continue?") and said yes: however many overrides, exits that deleted
\* another's lock file, and deaths came before.
AskedOverOthers ==
    [][\A p, q \in Proc :
         /\ p # q /\ pc'[q] # pc[q]
         /\ Holder(p) /\ lock = p /\ \A r \in Proc : Holder(r) => r = p
         /\ lock' # p
         => asked[q]]_vars

\* A lock file is left behind only by a process that died: one that is done
\* with the file, or never got to it, leaves none, in whatever order the
\* unlinks and creations of several processes come, and when creations fail.
NoOrphan == \A p \in Proc : lock = p => pc[p] # "out"
===============================================================================
