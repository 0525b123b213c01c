---------------------------- MODULE LockFileProofs ----------------------------
(***************************************************************************)
(* Proofs about the lock file, for any number of processes.                *)
(*                                                                         *)
(* Each argument has its own inductive invariant.  Orphan says where the   *)
(* creator of the lock file can be; it needs no order among processes.     *)
(* Turns holds when no two are inside the lock functions at once, whatever *)
(* is overridden, and OneAtATime says what the lock file is for each place *)
(* a process can be in until somebody overrides a holder.                  *)
(***************************************************************************)
EXTENDS LockFile, TLAPS

\* The creator of the lock file is filling it, is dead, or has its lock_filename
\* set, so that do_exit deletes it.
Orphan ==
    \A p \in Proc : lock = p =>
        \/ pc[p] \in {"filling", "crashed"}
        \/ held[p] /\ pc[p] \in {"editing", "writing", "unlinking"}

\* One process at a time is in the lock functions; one that is not editing has no
\* lock_filename, and a lock file is written over by its holder, or after a question.
Turns ==
    /\ \A p, q \in Proc : Busy(p) /\ Busy(q) => p = q
    /\ \A p \in Proc :
         /\ pc[p] \in {"out", "reading", "asking"} => ~held[p]
         /\ pc[p] = "writing" /\ ~held[p] /\ ~asked[p] => lock = NoOne
         /\ pc[p] = "unlinking" => held[p] \/ asked[p]

\* What the lock file is at each place; one that is written over is its holder's
\* own, or that of a process that is gone.
Owns ==
    \A p \in Proc :
      /\ pc[p] \in {"editing", "writing", "unlinking"} /\ held[p] => lock = p
      /\ pc[p] \in {"writing", "unlinking"} /\ ~held[p] /\ lock # NoOne
           => \A q \in Proc : ~Holder(q)
      /\ pc[p] = "creating" => lock = NoOne
      /\ pc[p] = "filling" => lock = p

OneAtATime == ~overridden => Owns

-----------------------------------------------------------------------------
(* Types.                                                                  *)

LEMMA InitTypes == Init => TypeOK
BY LockFileAssumption DEF Init, TypeOK, Pc

LEMMA StepTypes == TypeOK /\ [Next]_vars => TypeOK'
<1> SUFFICES ASSUME TypeOK, [Next]_vars PROVE TypeOK'
  OBVIOUS
<1> USE LockFileAssumption DEF TypeOK, Pc, Opening, Go
<1>1. CASE UNCHANGED vars
  BY <1>1 DEF vars
<1>2. ASSUME NEW p \in Proc, DoLockfile(p) PROVE TypeOK'
  BY <1>2 DEF DoLockfile
<1>3. ASSUME NEW p \in Proc, CannotRead(p) PROVE TypeOK'
  BY <1>3 DEF CannotRead
<1>4. ASSUME NEW p \in Proc, Ask(p) PROVE TypeOK'
  BY <1>4 DEF Ask
<1>5. ASSUME NEW p \in Proc, Refuse(p) PROVE TypeOK'
  BY <1>5 DEF Refuse
<1>6. ASSUME NEW p \in Proc, Override(p) PROVE TypeOK'
  BY <1>6 DEF Override
<1>7. ASSUME NEW p \in Proc, StatOld(p) PROVE TypeOK'
  BY <1>7 DEF StatOld
<1>8. ASSUME NEW p \in Proc, Unlink(p) PROVE TypeOK'
  BY <1>8 DEF Unlink
<1>9. ASSUME NEW p \in Proc, Create(p) PROVE TypeOK'
  BY <1>9 DEF Create
<1>10. ASSUME NEW p \in Proc, CannotCreate(p) PROVE TypeOK'
  BY <1>10 DEF CannotCreate
<1>11. ASSUME NEW p \in Proc, Fill(p) PROVE TypeOK'
  BY <1>11 DEF Fill
<1>12. ASSUME NEW p \in Proc, CannotFill(p) PROVE TypeOK'
  BY <1>12 DEF CannotFill
<1>13. ASSUME NEW p \in Proc, SetModified(p) PROVE TypeOK'
  BY <1>13 DEF SetModified
<1>14. ASSUME NEW p \in Proc, WriteFile(p) PROVE TypeOK'
  BY <1>14 DEF WriteFile
<1>15. ASSUME NEW p \in Proc, DoExit(p) PROVE TypeOK'
  BY <1>15 DEF DoExit
<1>16. ASSUME NEW p \in Proc, Crash(p) PROVE TypeOK'
  BY <1>16 DEF Crash
<1>17. ASSUME NEW p \in Proc, CannotUnlink(p) PROVE TypeOK'
  BY <1>17 DEF CannotUnlink
<1> QED
  BY <1>1, <1>2, <1>3, <1>4, <1>5, <1>6, <1>7, <1>8,
     <1>9, <1>10, <1>11, <1>12, <1>13, <1>14, <1>15, <1>16, <1>17 DEF Next

\* The state always has its type, and only a lock file that is there has data.
THEOREM Types == Spec => []TypeOK
<1> QED BY InitTypes, StepTypes, PTL DEF Spec

-----------------------------------------------------------------------------
(* No lock file is left behind.                                            *)

\* Lock files can be written and deleted, whether or not they can be created.
Deletes == Failures \subseteq {"open"}

LEMMA OrphanStep ==
  ASSUME Deletes, TypeOK, Orphan, [Next]_vars
  PROVE  Orphan'
<1> USE LockFileAssumption DEF TypeOK, Orphan, Go, Deletes
<1>1. CASE UNCHANGED vars
  BY <1>1 DEF vars
<1>2. ASSUME NEW p \in Proc,
             \/ DoLockfile(p) \/ CannotRead(p) \/ Ask(p) \/ Refuse(p) \/ Override(p)
      PROVE  Orphan'
  BY <1>2 DEF DoLockfile, CannotRead, Ask, Refuse, Override
<1>3. ASSUME NEW p \in Proc,
             StatOld(p) \/ CannotUnlink(p) \/ Unlink(p) \/ Create(p) \/ CannotCreate(p)
      PROVE  Orphan'
  BY <1>3 DEF StatOld, CannotUnlink, Unlink, Create, CannotCreate
<1>4. ASSUME NEW p \in Proc, Fill(p) \/ CannotFill(p)
      PROVE  Orphan'
  BY <1>4 DEF Fill, CannotFill
<1>5. ASSUME NEW p \in Proc, SetModified(p) \/ WriteFile(p) \/ Crash(p)
      PROVE  Orphan'
  BY <1>5 DEF SetModified, WriteFile, Crash
<1>6. ASSUME NEW p \in Proc, DoExit(p)
      PROVE  Orphan'
  \* do_exit deletes the lock file when lock_filename is set, and when it is not
  \* the lock file is not this process's.
  <2>1. CASE held[p]
    BY <1>6, <2>1 DEF DoExit
  <2>2. CASE ~held[p]
    <3>1. lock # p
      BY <1>6, <2>2 DEF DoExit
    <3> QED BY <1>6, <2>2, <3>1 DEF DoExit
  <2> QED BY <2>1, <2>2
<1> QED BY <1>1, <1>2, <1>3, <1>4, <1>5, <1>6 DEF Next

\* As long as lock files can be written and deleted, only a process that died
\* leaves one behind, however the processes race.
THEOREM NoOrphanLeft == Deletes => (Spec => []NoOrphan)
<1> SUFFICES ASSUME Deletes PROVE Spec => []NoOrphan
  OBVIOUS
<1>1. Init => Orphan
  BY LockFileAssumption DEF Init, Orphan
<1>2. TypeOK /\ Orphan /\ [Next]_vars => Orphan'
  BY OrphanStep
<1>3. Orphan => NoOrphan
  BY DEF Orphan, NoOrphan
<1> QED BY <1>1, <1>2, <1>3, Types, PTL DEF Spec

-----------------------------------------------------------------------------
(* One editor at a time, until one overrides the lock of another.          *)

\* A lock file can be created where there is none.
Creates == "open" \notin Failures

LEMMA TurnsStep ==
  ASSUME Serial, TypeOK, Turns, [Next]_vars
  PROVE  Turns'
<1> USE LockFileAssumption DEF TypeOK, Turns, Go, Busy, Opening
<1>1. CASE UNCHANGED vars
  BY <1>1 DEF vars
<1>2. ASSUME NEW p \in Proc, DoLockfile(p) PROVE Turns'
  BY <1>2 DEF DoLockfile, MayBegin
<1>3. ASSUME NEW p \in Proc, CannotRead(p) \/ Ask(p) \/ Refuse(p) \/ Override(p)
      PROVE  Turns'
  BY <1>3 DEF CannotRead, Ask, Refuse, Override
<1>4. ASSUME NEW p \in Proc, StatOld(p) \/ CannotUnlink(p) \/ CannotCreate(p)
      PROVE  Turns'
  BY <1>4 DEF StatOld, CannotUnlink, CannotCreate
<1>5. ASSUME NEW p \in Proc, Unlink(p) \/ Create(p)
      PROVE  Turns'
  BY <1>5 DEF Unlink, Create
<1>6. ASSUME NEW p \in Proc, Fill(p) \/ CannotFill(p)
      PROVE  Turns'
  BY <1>6 DEF Fill, CannotFill
<1>7. ASSUME NEW p \in Proc, SetModified(p) PROVE Turns'
  BY <1>7 DEF SetModified, MayBegin
<1>8. ASSUME NEW p \in Proc, WriteFile(p) \/ Crash(p)
      PROVE  Turns'
  BY <1>8 DEF WriteFile, Crash
<1>9. ASSUME NEW p \in Proc, DoExit(p) PROVE Turns'
  BY <1>9 DEF DoExit
<1> QED BY <1>1, <1>2, <1>3, <1>4, <1>5, <1>6, <1>7, <1>8, <1>9 DEF Next

LEMMA TurnsInvariant ==
  ASSUME Serial
  PROVE  Spec => [](TypeOK /\ Turns)
<1>1. Init => Turns
  BY LockFileAssumption DEF Init, Turns, Busy, Opening
<1>2. TypeOK /\ Turns /\ [Next]_vars => Turns'
  BY TurnsStep
<1> QED BY <1>1, <1>2, Types, PTL DEF Spec

LEMMA OneAtATimeStep ==
  ASSUME Serial, Creates, TypeOK, Turns, OneAtATime, [Next]_vars
  PROVE  OneAtATime'
<1> SUFFICES ASSUME ~overridden' PROVE Owns'
  BY DEF OneAtATime
<1> USE LockFileAssumption
    DEF TypeOK, Turns, Owns, Go, Busy, Opening, Creates, Holder, Editing
<1>0. CASE overridden
  \* Nobody is in the file any more.
  <2>1. \A q \in Proc : pc'[q] \in {"out", "crashed"}
    BY <1>0 DEF Next, vars, DoLockfile, CannotRead, Ask, Refuse, Override, StatOld,
           CannotUnlink, Unlink, Create, CannotCreate, Fill, CannotFill, SetModified,
           WriteFile, DoExit, Crash
  <2>2. \A q \in Proc : pc'[q] = "out" => ~held'[q]
    BY TurnsStep, <2>1
  <2> QED BY <2>1, <2>2
<1> USE DEF OneAtATime
<1>1. CASE ~overridden /\ UNCHANGED vars
  BY <1>1 DEF vars
<1>2. ASSUME ~overridden, NEW p \in Proc, DoLockfile(p) PROVE Owns'
  BY <1>2 DEF DoLockfile, MayBegin
<1>3. ASSUME ~overridden, NEW p \in Proc,
             CannotRead(p) \/ Ask(p) \/ Refuse(p) \/ Override(p)
      PROVE  Owns'
  BY <1>3 DEF CannotRead, Ask, Refuse, Override
<1>4. ASSUME ~overridden, NEW p \in Proc,
             StatOld(p) \/ CannotUnlink(p) \/ CannotCreate(p)
      PROVE  Owns'
  BY <1>4 DEF StatOld, CannotUnlink, CannotCreate
<1>5. ASSUME ~overridden, NEW p \in Proc, Unlink(p) \/ Create(p)
      PROVE  Owns'
  BY <1>5 DEF Unlink, Create
<1>6. ASSUME ~overridden, NEW p \in Proc, Fill(p) \/ CannotFill(p)
      PROVE  Owns'
  BY <1>6 DEF Fill, CannotFill
<1>7. ASSUME ~overridden, NEW p \in Proc, SetModified(p) PROVE Owns'
  BY <1>7 DEF SetModified, MayBegin
<1>8. ASSUME ~overridden, NEW p \in Proc, WriteFile(p) \/ Crash(p)
      PROVE  Owns'
  BY <1>8 DEF WriteFile, Crash
<1>9. ASSUME ~overridden, NEW p \in Proc, DoExit(p) PROVE Owns'
  BY <1>9 DEF DoExit
<1> QED BY <1>0, <1>1, <1>2, <1>3, <1>4, <1>5, <1>6, <1>7, <1>8, <1>9 DEF Next

LEMMA OneAtATimeInvariant ==
  ASSUME Serial, Creates
  PROVE  Spec => [](TypeOK /\ Turns /\ OneAtATime)
<1>1. Init => OneAtATime
  BY LockFileAssumption DEF Init, OneAtATime, Owns, Busy, Opening
<1>2. TypeOK /\ Turns /\ OneAtATime /\ [Next]_vars => OneAtATime'
  BY OneAtATimeStep
<1> QED BY <1>1, <1>2, TurnsInvariant, PTL DEF Spec

\* A holder is editing with the lock file its own, or is writing it again.
LEMMA AtMostOneHolder ==
  ASSUME TypeOK, Turns, OneAtATime PROVE MutualExclusion
<1> SUFFICES ASSUME ~overridden, NEW p \in Proc, NEW q \in Proc, Holder(p), Holder(q)
             PROVE  p = q
  BY DEF MutualExclusion
<1> USE LockFileAssumption DEF Turns, OneAtATime, Owns, Holder, Editing, Busy, Opening
<1>1. CASE Busy(p) /\ Busy(q)
  BY <1>1
<1>2. CASE ~Busy(p) /\ ~Busy(q)
  BY <1>2
<1>3. CASE Busy(p) /\ ~Busy(q)
  BY <1>3
<1>4. CASE ~Busy(p) /\ Busy(q)
  BY <1>4
<1> QED BY <1>1, <1>2, <1>3, <1>4

\* When processes take turns in the lock functions and lock files can be created, no
\* two processes edit the file under its lock until one overrides the other's.
THEOREM OneHolder == Serial /\ Creates => (Spec => []MutualExclusion)
<1> SUFFICES ASSUME Serial, Creates PROVE Spec => []MutualExclusion
  OBVIOUS
<1> QED BY OneAtATimeInvariant, AtMostOneHolder, PTL

\* Under the same conditions the lock file of a process that edits stays in place
\* and its own until somebody overrides it.
THEOREM LockFileStays == Serial /\ Creates => (Spec => []LockStays)
<1> SUFFICES ASSUME Serial, Creates PROVE Spec => []LockStays
  OBVIOUS
<1>1. OneAtATime => LockStays
  BY DEF OneAtATime, Owns, LockStays
<1> QED BY <1>1, OneAtATimeInvariant, PTL

\* When processes take turns in the lock functions, the lock file of the only holder
\* is deleted, by anybody else, only after a question, whatever was overridden before
\* and whatever fails.
THEOREM NoneUnasked == Serial => (Spec => AskedOverOthers)
<1> SUFFICES ASSUME Serial PROVE Spec => AskedOverOthers
  OBVIOUS
<1> DEFINE Step == \A p, q \in Proc :
         /\ p # q /\ pc'[q] # pc[q]
         /\ Holder(p) /\ lock = p /\ \A r \in Proc : Holder(r) => r = p
         /\ lock' # p
         => asked[q]
<1>1. ASSUME TypeOK, Turns, [Next]_vars PROVE [Step]_vars
  <2> SUFFICES ASSUME Next, NEW p \in Proc, NEW q \in Proc, p # q, pc'[q] # pc[q],
                      lock = p, ~Holder(q), lock' # p
               PROVE  asked[q]
    BY <1>1
  <2> USE <1>1, LockFileAssumption DEF TypeOK, Go
  <2>0. PICK r \in Proc :
           \/ DoLockfile(r) \/ CannotRead(r) \/ Ask(r) \/ Refuse(r) \/ Override(r)
           \/ StatOld(r) \/ CannotUnlink(r) \/ Unlink(r) \/ Create(r) \/ CannotCreate(r)
           \/ Fill(r) \/ CannotFill(r)
           \/ SetModified(r) \/ WriteFile(r) \/ DoExit(r) \/ Crash(r)
    BY DEF Next
  <2>1. Unlink(r) \/ Create(r) \/ (DoExit(r) /\ held[r])
    \* The only actions that change who made the lock file.
    BY <2>0 DEF DoLockfile, CannotRead, Ask, Refuse, Override, StatOld, CannotUnlink,
           CannotCreate, Fill, CannotFill, SetModified, WriteFile, DoExit, Crash
  <2>2. r = q
    BY <2>1 DEF Unlink, Create, DoExit
  <2>3. ~Create(r)
    BY <2>2 DEF Create
  <2>4. ~(DoExit(r) /\ held[r])
    BY <2>2 DEF DoExit, Holder, Editing
  <2>5. Unlink(q)
    BY <2>1, <2>2, <2>3, <2>4
  <2> QED BY <2>5 DEF Unlink, Turns, Holder, Editing, Busy, Opening
<1> QED BY <1>1, TurnsInvariant, PTL DEF Spec, AskedOverOthers
===============================================================================
