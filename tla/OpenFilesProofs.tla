--------------------------- MODULE OpenFilesProofs ---------------------------
(***************************************************************************)
(* Proofs about the list of open files, for any number of buffers.         *)
(***************************************************************************)
EXTENDS OpenFilesRing, SequenceTheorems, TLAPS

(* Lists.                                                                  *)

\* An element inserted into a list leaves those before it in place and moves the
\* others up by one.
LEMMA InsertAtFacts ==
  ASSUME NEW S, NEW s \in Seq(S), NEW i \in 1..(Len(s) + 1), NEW e \in S
  PROVE  /\ InsertAt(s, i, e) \in Seq(S)
         /\ Len(InsertAt(s, i, e)) = Len(s) + 1
         /\ InsertAt(s, i, e)[i] = e
         /\ \A k \in 1..Len(s) :
              InsertAt(s, i, e)[IF k < i THEN k ELSE k + 1] = s[k]
<1> DEFINE a == SubSeq(s, 1, i - 1)
           b == SubSeq(s, i, Len(s))
<1>1. /\ a \in Seq(S) /\ Len(a) = i - 1
      /\ \A k \in 1..(i - 1) : a[k] = s[k]
  OBVIOUS
<1>2. /\ b \in Seq(S) /\ Len(b) = Len(s) + 1 - i
      /\ \A k \in 1..(Len(s) + 1 - i) : b[k] = s[i + k - 1]
  OBVIOUS
<1> HIDE DEF a, b
<1> DEFINE c == a \o <<e>>
<1>3. /\ c \in Seq(S) /\ Len(c) = i /\ c[i] = e
      /\ \A k \in 1..(i - 1) : c[k] = s[k]
  BY <1>1
<1> HIDE DEF c
<1> DEFINE r == c \o b
<1>4. /\ r \in Seq(S) /\ Len(r) = Len(s) + 1 /\ r[i] = e
      /\ \A k \in 1..(i - 1) : r[k] = s[k]
  BY <1>2, <1>3
<1>5. \A k \in i..Len(s) : r[k + 1] = s[k]
  <2> SUFFICES ASSUME NEW k \in i..Len(s) PROVE r[k + 1] = s[k]
    OBVIOUS
  <2>1. r[k + 1] = b[k + 1 - i]
    BY <1>2, <1>3
  <2>2. b[k + 1 - i] = s[i + (k + 1 - i) - 1]
    BY <1>2
  <2> QED BY <2>1, <2>2
<1>6. InsertAt(s, i, e) = r
  BY DEF InsertAt, r, c, a, b
<1> HIDE DEF r
<1> QED BY <1>4, <1>5, <1>6

\* An element removed from a list moves those after it down by one.
LEMMA RemoveAtFacts ==
  ASSUME NEW S, NEW s \in Seq(S), NEW i \in 1..Len(s)
  PROVE  /\ RemoveAt(s, i) \in Seq(S)
         /\ Len(RemoveAt(s, i)) = Len(s) - 1
         /\ \A k \in 1..Len(s) :
              k # i => RemoveAt(s, i)[IF k < i THEN k ELSE k - 1] = s[k]
<1> DEFINE a == SubSeq(s, 1, i - 1)
           b == SubSeq(s, i + 1, Len(s))
<1>1. /\ a \in Seq(S) /\ Len(a) = i - 1
      /\ \A k \in 1..(i - 1) : a[k] = s[k]
  OBVIOUS
<1>2. /\ b \in Seq(S) /\ Len(b) = Len(s) - i
      /\ \A k \in 1..(Len(s) - i) : b[k] = s[i + k]
  OBVIOUS
<1> HIDE DEF a, b
<1> DEFINE r == a \o b
<1>3. /\ r \in Seq(S) /\ Len(r) = Len(s) - 1
      /\ \A k \in 1..(i - 1) : r[k] = s[k]
  <2>1. /\ r \in Seq(S) /\ Len(r) = Len(a) + Len(b)
        /\ \A k \in 1..(Len(a) + Len(b)) :
             r[k] = IF k <= Len(a) THEN a[k] ELSE b[k - Len(a)]
    BY <1>1, <1>2, ConcatProperties
  <2> QED BY <1>1, <1>2, <2>1
<1>4. \A k \in (i + 1)..Len(s) : r[k - 1] = s[k]
  <2> SUFFICES ASSUME NEW k \in (i + 1)..Len(s) PROVE r[k - 1] = s[k]
    OBVIOUS
  <2>1. r[k - 1] = b[k - i]
    BY <1>1, <1>2
  <2>2. b[k - i] = s[i + (k - i)]
    BY <1>2
  <2> QED BY <2>1, <2>2
<1>5. RemoveAt(s, i) = r
  BY DEF RemoveAt, r, a, b
<1> HIDE DEF r
<1> QED BY <1>3, <1>4, <1>5

LEMMA ExceptFacts ==
  ASSUME NEW S, NEW s \in Seq(S), NEW i \in 1..Len(s), NEW e \in S
  PROVE  /\ [s EXCEPT ![i] = e] \in Seq(S)
         /\ Len([s EXCEPT ![i] = e]) = Len(s)
         /\ [s EXCEPT ![i] = e][i] = e
         /\ \A k \in 1..Len(s) : k # i => [s EXCEPT ![i] = e][k] = s[k]
OBVIOUS

-----------------------------------------------------------------------------
(* What each step does to the list.                                        *)

\* Between its start and its end pinot has a current buffer.
HasBuffer == mode # "starting" => openfiles # <<>>

LEMMA CurrentIsABuffer ==
  ASSUME TypeOK, openfiles # <<>>
  PROVE  openfile \in 1..Len(openfiles) /\ Current \in Buffers
BY DEF TypeOK, Current

\* A step changes the list of open files in one of four ways.
Inserted ==
    \E b \in Buffers :
        /\ openfiles' = InsertAt(openfiles, openfile + 1, b)
        /\ openfile' = openfile + 1
Replaced ==
    \E b \in Buffers :
        /\ openfiles # <<>>
        /\ openfiles' = [openfiles EXCEPT ![openfile] = b]
        /\ openfile' = openfile
Removed ==
    /\ Len(openfiles) > 1
    /\ openfiles' = RemoveAt(openfiles, openfile)
    /\ openfile' = IF openfile = Len(openfiles) THEN 1 ELSE openfile
Kept ==
    /\ openfiles' = openfiles
    /\ openfile' \in 1..Len(openfiles) \/ openfile' = openfile

\* The list and the current position keep their types.
LEMMA ListTypes ==
  ASSUME TypeOK, Inserted \/ Replaced \/ Removed \/ Kept
  PROVE  /\ openfiles' \in Seq(Buffers)
         /\ openfile' \in 0..Len(openfiles')
         /\ openfile' = 0 <=> openfiles' = <<>>
         /\ openfiles # <<>> => openfiles' # <<>>
<1> USE DEF TypeOK
<1>1. CASE Inserted
  <2> PICK b \in Buffers : /\ openfiles' = InsertAt(openfiles, openfile + 1, b)
                           /\ openfile' = openfile + 1
    BY <1>1 DEF Inserted
  <2>1. openfile + 1 \in 1..(Len(openfiles) + 1)
    OBVIOUS
  <2>2. openfiles' \in Seq(Buffers) /\ Len(openfiles') = Len(openfiles) + 1
    BY <2>1, InsertAtFacts
  <2> QED BY <2>2
<1>2. CASE Replaced
  <2> PICK b \in Buffers : /\ openfiles # <<>>
                           /\ openfiles' = [openfiles EXCEPT ![openfile] = b]
                           /\ openfile' = openfile
    BY <1>2 DEF Replaced
  <2>1. openfiles' \in Seq(Buffers) /\ Len(openfiles') = Len(openfiles)
    BY CurrentIsABuffer, ExceptFacts
  <2> QED BY <2>1, CurrentIsABuffer
<1>3. CASE Removed
  <2>1. openfiles # <<>>
    BY <1>3 DEF Removed
  <2>2. openfiles' \in Seq(Buffers) /\ Len(openfiles') = Len(openfiles) - 1
    BY <1>3, <2>1, CurrentIsABuffer, RemoveAtFacts DEF Removed
  <2> QED BY <1>3, <2>1, <2>2, CurrentIsABuffer DEF Removed
<1>4. CASE Kept
  BY <1>4 DEF Kept
<1> QED BY <1>1, <1>2, <1>3, <1>4

LEMMA InsertedIsThere ==
  ASSUME TypeOK, Inserted PROVE openfiles' # <<>>
<1> PICK b \in Buffers : openfiles' = InsertAt(openfiles, openfile + 1, b)
  BY DEF Inserted
<1>1. openfile + 1 \in 1..(Len(openfiles) + 1)
  BY DEF TypeOK
<1>2. Len(openfiles') = Len(openfiles) + 1
  BY <1>1, InsertAtFacts DEF TypeOK
<1> QED BY <1>2 DEF TypeOK

\* Opening inserts a buffer, or only moves.
LEMMA OpenBufferList ==
  ASSUME TypeOK, NEW name \in Names \cup {NoName}, OpenBuffer(name)
  PROVE  /\ Inserted \/ Kept
         /\ opened' \in Nat
         /\ locks' \in [Names -> Owners]
         /\ openfiles' # <<>>
<1> USE DEF TypeOK, Owners
<1>1. ASSUME NEW lock \in Names \cup {NoName}, MakeNewBuffer(name, lock)
      PROVE  Inserted /\ opened' \in Nat /\ openfiles' # <<>>
  <2> DEFINE New(filename) == [id |-> opened + 1, filename |-> filename,
                               lock_filename |-> lock, modified |-> FALSE]
  <2> PICK filename \in {name, NoName} :
             /\ openfiles' = InsertAt(openfiles, openfile + 1, New(filename))
             /\ openfile' = openfile + 1
             /\ opened' = opened + 1
    BY <1>1 DEF MakeNewBuffer
  <2>1. New(filename) \in Buffers
    BY DEF Buffers
  <2>2. Inserted
    BY <2>1 DEF Inserted
  <2>3. openfiles' # <<>>
    BY <2>2, InsertedIsThere
  <2> QED BY <2>2, <2>3
<1>2. CASE OpenLocked(name)
  BY <1>1, <1>2 DEF OpenLocked
<1>3. CASE OpenUnlocked(name)
  BY <1>1, <1>3 DEF OpenUnlocked
<1>4. CASE OpenRefusedAlone(name)
  BY <1>1, <1>4 DEF OpenRefusedAlone
<1>5. CASE OpenRefused(name)
  BY <1>5, CurrentIsABuffer DEF OpenRefused, Kept
<1> QED BY <1>2, <1>3, <1>4, <1>5 DEF OpenBuffer

\* What a save leaves is a buffer, with the same identity and lock file.
LEMMA SavedBufferFacts ==
  ASSUME TypeOK, openfiles # <<>>, NEW saved \in SavedBuffers
  PROVE  /\ saved \in Buffers
         /\ saved.id = Current.id /\ saved.lock_filename = Current.lock_filename
         /\ saved = Current \/ saved.modified = FALSE
BY CurrentIsABuffer DEF SavedBuffers, Overwritten, Buffers

LEMMA CloseBufferList ==
  ASSUME TypeOK, openfiles # <<>>, CloseBuffer
  PROVE  \/ Removed /\ mode' = mode
         \/ Kept /\ mode' = "exited" /\ Len(openfiles) = 1
<1>1. CASE Len(openfiles) = 1
  BY <1>1 DEF CloseBuffer, Kept
<1>2. CASE Len(openfiles) # 1
  <2>1. Len(openfiles) > 1
    <3>1. openfile \in 1..Len(openfiles)
      BY CurrentIsABuffer
    <3>2. Len(openfiles) \in Nat
      BY DEF TypeOK
    <3> HIDE DEF TypeOK
    <3> DEFINE n == Len(openfiles)
    <3>3. n \in Nat /\ n # 1 /\ openfile \in 1..n
      BY <1>2, <3>1, <3>2
    <3> HIDE DEF n
    <3>4. n > 1
      BY <3>3
    <3> QED BY <3>4 DEF n
  <2> QED BY <1>2, <2>1 DEF CloseBuffer, Removed
<1> QED BY <1>1, <1>2

LEMMA ModifyList ==
  ASSUME TypeOK, openfiles # <<>>, Modify
  PROVE  /\ openfiles' = [openfiles EXCEPT ![openfile] =
                            [Current EXCEPT !.modified = TRUE]]
         /\ [Current EXCEPT !.modified = TRUE] \in Buffers
         /\ Replaced
<1>1. openfiles' = [openfiles EXCEPT ![openfile] = [Current EXCEPT !.modified = TRUE]]
  BY DEF Modify, Current
<1>2. [Current EXCEPT !.modified = TRUE] \in Buffers
  BY CurrentIsABuffer DEF Buffers
<1> QED BY <1>1, <1>2 DEF Modify, Replaced

-----------------------------------------------------------------------------
(* Types.                                                                  *)

LEMMA InitTypes == Init => TypeOK /\ HasBuffer
<1> SUFFICES ASSUME Init PROVE TypeOK /\ HasBuffer
  OBVIOUS
<1>1. arguments \in Seq(Names)
  <2>1. PICK files \in CommandLines :
          arguments = IF files = <<>> THEN <<>> ELSE Append(Tail(files), Head(files))
    BY DEF Init
  <2>2. files \in Seq(Names)
    BY <2>1, OpenFilesAssumption
  <2>3. CASE files = <<>>
    BY <2>1, <2>3
  <2>4. CASE files # <<>>
    BY <2>1, <2>2, <2>4, HeadTailProperties, AppendProperties
  <2> QED BY <2>3, <2>4
<1> QED BY <1>1 DEF Init, TypeOK, HasBuffer, Owners

LEMMA StepTypes ==
  ASSUME TypeOK, HasBuffer, [Next]_vars
  PROVE  TypeOK' /\ HasBuffer'
<1> USE DEF TypeOK, HasBuffer, Owners
<1>1. CASE UNCHANGED vars
  BY <1>1 DEF vars
<1>2. CASE Start
  <2>1. CASE arguments # <<>> /\ OpenBuffer(Head(arguments)) /\ arguments' = Tail(arguments)
             /\ UNCHANGED mode
    <3>1. Head(arguments) \in Names /\ arguments' \in Seq(Names)
      BY <2>1, HeadTailProperties
    <3> QED BY <1>2, <2>1, <3>1, OpenBufferList, ListTypes DEF Start
  <2>2. CASE OpenBuffer(NoName) /\ UNCHANGED <<arguments, mode>>
    BY <1>2, <2>2, OpenBufferList, ListTypes DEF Start
  <2>3. CASE /\ openfiles # <<>> /\ mode' = "running"
             /\ UNCHANGED <<openfiles, openfile, locks, arguments, opened>>
    BY <1>2, <2>3 DEF Start
  <2> QED BY <1>2, <2>1, <2>2, <2>3 DEF Start
<1>3. ASSUME NEW name \in Names, Open(name) PROVE TypeOK' /\ HasBuffer'
  BY <1>3, OpenBufferList, ListTypes DEF Open
<1>4. ASSUME NEW name \in Names, OtherLocks(name) PROVE TypeOK' /\ HasBuffer'
  BY <1>4 DEF OtherLocks
<1>5. CASE SwitchToNextBuffer
  BY <1>5, CurrentIsABuffer DEF SwitchToNextBuffer
<1>6. CASE SwitchToPrevBuffer
  BY <1>6, CurrentIsABuffer DEF SwitchToPrevBuffer
<1>7. CASE Modify
  <2>1. openfiles # <<>>
    BY <1>7 DEF Modify
  <2>2. locks' \in [Names -> Owners] /\ unsaved' \subseteq Nat
    BY <1>7, <2>1, CurrentIsABuffer DEF Modify, Buffers
  <2> QED BY <1>7, <2>1, <2>2, ModifyList, ListTypes DEF Modify
<1>8. CASE Writeout
  <2>1. openfiles # <<>>
    BY <1>8 DEF Writeout
  <2>2. Replaced
    BY <1>8, <2>1, SavedBufferFacts DEF Writeout, Replaced
  <2> QED BY <1>8, <2>1, <2>2, ListTypes DEF Writeout
<1>9. CASE DoExit
  <2>1. openfiles # <<>>
    BY <1>9 DEF DoExit
  <2>2. locks' \in [Names -> Owners] /\ unsaved' \subseteq Nat
    BY <1>9, <2>1 DEF DoExit, DeleteLock
  <2> QED BY <1>9, <2>1, <2>2, CloseBufferList, ListTypes DEF DoExit
<1>10. CASE Die
  <2>1. openfiles # <<>> /\ Current \in Buffers
    BY <1>10, CurrentIsABuffer DEF Die
  <2>2. ASSUME NEW i \in DOMAIN openfiles
        PROVE  EmergencySave(i) \subseteq (Names \cup {NoName}) \X Nat
    <3>1. openfiles[i] \in Buffers
      BY ElementOfSeq
    <3>2. /\ openfiles[i].filename \in Names \cup {NoName}
          /\ Current.id \in Nat
      BY <2>1, <3>1 DEF Buffers
    <3>3. {Current.id} \cup (IF i > openfile THEN {Garbage} ELSE {}) \subseteq Nat
      BY <3>2 DEF Garbage
    <3> HIDE DEF TypeOK
    <3> QED BY <3>2, <3>3 DEF EmergencySave
  <2>3. rescued' \subseteq (Names \cup {NoName}) \X Nat
    BY <1>10, <2>2 DEF Die
  <2> QED BY <1>10, <2>3 DEF Die
<1> QED BY <1>1, <1>2, <1>3, <1>4, <1>5, <1>6, <1>7, <1>8, <1>9, <1>10 DEF Next

LEMMA TypesInvariant == Spec => [](TypeOK /\ HasBuffer)
<1> QED BY InitTypes, StepTypes, PTL DEF Spec

\* The state has its type: there is a current buffer as long as there is any.
THEOREM Types == Spec => []TypeOK
<1> QED BY TypesInvariant, PTL

-----------------------------------------------------------------------------
(* Nothing is lost.                                                        *)

\* A step leaves every buffer but the current one as it is, somewhere.
LEMMA OthersStay ==
  ASSUME TypeOK, NEW i \in DOMAIN openfiles,
         Inserted \/ Kept \/ ((Replaced \/ Removed) /\ i # openfile)
  PROVE  \E j \in DOMAIN openfiles' : openfiles'[j] = openfiles[i]
<1>1. i \in 1..Len(openfiles) /\ openfiles # <<>>
  BY DEF TypeOK
<1>2. CASE Inserted
  <2> PICK b \in Buffers : openfiles' = InsertAt(openfiles, openfile + 1, b)
    BY <1>2 DEF Inserted
  <2> DEFINE j == IF i < openfile + 1 THEN i ELSE i + 1
  <2>1. openfile + 1 \in 1..(Len(openfiles) + 1)
    BY DEF TypeOK
  <2>2. /\ openfiles' \in Seq(Buffers)
        /\ Len(openfiles') = Len(openfiles) + 1
        /\ openfiles'[j] = openfiles[i]
    <3>1. openfiles \in Seq(Buffers)
      BY DEF TypeOK
    <3>2. /\ openfiles' \in Seq(Buffers)
          /\ Len(openfiles') = Len(openfiles) + 1
          /\ \A k \in 1..Len(openfiles) :
               openfiles'[IF k < openfile + 1 THEN k ELSE k + 1] = openfiles[k]
      BY <2>1, <3>1, InsertAtFacts
    <3> QED BY <1>1, <3>2
  <2>3. j \in 1..Len(openfiles')
    BY <1>1, <2>2 DEF TypeOK
  <2> QED BY <2>2, <2>3
<1>3. CASE Removed /\ i # openfile
  <2> DEFINE j == IF i < openfile THEN i ELSE i - 1
  <2>1. openfile \in 1..Len(openfiles)
    BY <1>1, CurrentIsABuffer
  <2>2. /\ openfiles' \in Seq(Buffers)
        /\ Len(openfiles') = Len(openfiles) - 1
        /\ openfiles'[j] = openfiles[i]
    BY <1>1, <1>3, <2>1, RemoveAtFacts DEF TypeOK, Removed
  <2>3. j \in 1..Len(openfiles')
    BY <1>1, <1>3, <2>1, <2>2 DEF TypeOK
  <2> QED BY <2>2, <2>3
<1>4. CASE Replaced /\ i # openfile
  BY <1>1, <1>4 DEF Replaced, TypeOK
<1>5. CASE Kept
  BY <1>5 DEF Kept
<1> QED BY <1>2, <1>3, <1>4, <1>5

\* A buffer that has the identity id and changes.
Changed(id) == \E i \in DOMAIN openfiles : openfiles[i].id = id /\ openfiles[i].modified

LEMMA ChangesStay ==
  ASSUME TypeOK, NEW id, Changed(id),
         \/ Inserted \/ Kept
         \/ (Replaced \/ Removed) /\ ~(Current.modified /\ Current.id = id)
  PROVE  Changed(id)'
<1> PICK i \in DOMAIN openfiles : openfiles[i].id = id /\ openfiles[i].modified
  BY DEF Changed
<1>1. Inserted \/ Kept \/ ((Replaced \/ Removed) /\ i # openfile)
  BY DEF Current
<1>2. PICK j \in DOMAIN openfiles' : openfiles'[j] = openfiles[i]
  BY <1>1, OthersStay
<1> QED BY <1>2 DEF Changed

LEMMA NothingLostStep ==
  ASSUME TypeOK, HasBuffer, NothingLost, mode \in {"starting", "running"},
         Next
  PROVE  NothingLost'
<1>1. \A id \in unsaved : Changed(id)
  BY DEF NothingLost, Changed
<1>2. NothingLost' <=> /\ \A id \in unsaved' : Changed(id)'
                       /\ mode' = "exited" => unsaved' = {}
  BY DEF NothingLost, Changed
<1>3. CASE \/ Start \/ \E name \in Names : Open(name) \/ OtherLocks(name)
           \/ SwitchToNextBuffer \/ SwitchToPrevBuffer \/ Die
  \* Opening, moving and dying take no buffer away and change none.
  <2>1. unsaved' = unsaved /\ mode' # "exited"
    BY <1>3 DEF Start, Open, OtherLocks, SwitchToNextBuffer, SwitchToPrevBuffer, Die
  <2>2. Inserted \/ Kept
    <3>1. CASE Start
      <4>1. ASSUME arguments # <<>> PROVE Head(arguments) \in Names
        BY <4>1, HeadTailProperties DEF TypeOK
      <4> QED BY <3>1, <4>1, OpenBufferList DEF Start, Kept
    <3>2. ASSUME NEW name \in Names, Open(name) PROVE Inserted \/ Kept
      BY <3>2, OpenBufferList DEF Open
    <3>3. CASE Die
      BY <3>3 DEF Die, Kept
    <3>4. ASSUME NEW name \in Names, OtherLocks(name) PROVE Kept
      BY <3>4 DEF OtherLocks, Kept
    <3>5. CASE SwitchToNextBuffer \/ SwitchToPrevBuffer
      <4>1. openfiles # <<>>
        BY <3>5 DEF SwitchToNextBuffer, SwitchToPrevBuffer, HasBuffer
      <4> QED BY <3>5, <4>1, CurrentIsABuffer
              DEF SwitchToNextBuffer, SwitchToPrevBuffer, Kept, TypeOK
    <3> QED BY <1>3, <3>1, <3>2, <3>3, <3>4, <3>5
  <2> QED BY <1>1, <1>2, <2>1, <2>2, ChangesStay
<1>4. CASE Modify
  <2>1. openfiles # <<>> /\ unsaved' = unsaved \cup {Current.id} /\ mode' # "exited"
    BY <1>4 DEF Modify, HasBuffer
  <2> DEFINE b == [Current EXCEPT !.modified = TRUE]
  <2>2. /\ openfiles' = [openfiles EXCEPT ![openfile] = b]
        /\ Replaced /\ b \in Buffers
    BY <1>4, <2>1, ModifyList
  <2>3. ASSUME NEW id, id = Current.id PROVE Changed(id)'
    <3>1. b.id = Current.id /\ b.modified
      BY <2>1, CurrentIsABuffer DEF Buffers
    <3>2. openfile \in 1..Len(openfiles)
      BY <2>1, CurrentIsABuffer
    <3>3. openfile \in DOMAIN openfiles' /\ openfiles'[openfile] = b
      BY <2>2, <3>2 DEF TypeOK
    <3> QED BY <2>3, <3>1, <3>3 DEF Changed
  <2>4. ASSUME NEW id \in unsaved, id # Current.id PROVE Changed(id)'
    BY <1>1, <2>2, <2>4, ChangesStay
  <2>5. \A id \in unsaved' : Changed(id)'
    BY <2>1, <2>3, <2>4
  <2> QED BY <1>2, <2>1, <2>5
<1>5. CASE Writeout
  <2>1. openfiles # <<>> /\ unsaved' = unsaved \ {Current.id} /\ mode' # "exited"
    BY <1>5 DEF Writeout, HasBuffer
  <2>2. Replaced
    BY <1>5, <2>1, SavedBufferFacts DEF Writeout, Replaced
  <2> QED BY <1>1, <1>2, <2>1, <2>2, ChangesStay
<1>6. CASE DoExit
  \* The current buffer goes when it has no changes, or they are saved or given up.
  <2>1. /\ openfiles # <<>> /\ CloseBuffer
        /\ unsaved' = IF Current.modified THEN unsaved \ {Current.id} ELSE unsaved
        /\ mode # "exited"
    BY <1>6 DEF DoExit, HasBuffer
  <2>2. CASE Removed /\ mode' = mode
    BY <1>1, <1>2, <2>1, <2>2, ChangesStay
  <2>3. CASE Kept /\ mode' = "exited" /\ Len(openfiles) = 1
    <3>1. ASSUME NEW id \in unsaved PROVE Current.modified /\ Current.id = id
      <4>1. PICK i \in DOMAIN openfiles : openfiles[i].id = id /\ openfiles[i].modified
        BY <1>1, <3>1 DEF Changed
      <4>2. i = openfile
        BY <2>1, <2>3, <4>1, CurrentIsABuffer DEF TypeOK
      <4> QED BY <4>1, <4>2 DEF Current
    <3>2. unsaved' = {}
      BY <2>1, <3>1
    <3> QED BY <1>2, <3>2
  <2> QED BY <2>1, <2>2, <2>3, CloseBufferList
<1> QED BY <1>3, <1>4, <1>5, <1>6 DEF Next

\* Changes that are in no file and were not given up are in a buffer that is open
\* and modified, for any number of buffers.
THEOREM NothingIsLost == Spec => []NothingLost
<1>1. Init => NothingLost
  BY DEF Init, NothingLost
<1>2. TypeOK /\ HasBuffer /\ NothingLost /\ [Next]_vars => NothingLost'
  <2> SUFFICES ASSUME TypeOK, HasBuffer, NothingLost, [Next]_vars
               PROVE  NothingLost'
    OBVIOUS
  <2>1. CASE UNCHANGED vars
    BY <2>1 DEF vars, NothingLost
  <2>2. CASE Next /\ mode \in {"starting", "running"}
    BY <2>2, NothingLostStep
  <2>3. CASE Next /\ mode \notin {"starting", "running"}
    BY <2>3 DEF Next, Start, Open, OtherLocks, SwitchToNextBuffer, SwitchToPrevBuffer,
                Modify, Writeout, DoExit, Die
  <2> QED BY <2>1, <2>2, <2>3
<1> QED BY <1>1, <1>2, TypesInvariant, PTL DEF Spec

-----------------------------------------------------------------------------
(* No lock file is left.                                                   *)

\* The lock file of name is that of an open buffer.
Locked(name) == \E i \in DOMAIN openfiles : openfiles[i].lock_filename = name

\* Without LOCKING pinot makes no lock file, so that none needs to be deleted.
LocksOwned ==
    /\ \A name \in Names : locks[name] = "us" => Locked(name)
    /\ \A name \in Names : locks[name] = "us" => Locking /\ mode # "exited"

LEMMA LockStays ==
  ASSUME TypeOK, NEW name, Locked(name),
         \/ Inserted \/ Kept
         \/ (Replaced \/ Removed) /\ Current.lock_filename # name
  PROVE  Locked(name)'
<1> PICK i \in DOMAIN openfiles : openfiles[i].lock_filename = name
  BY DEF Locked
<1>1. Inserted \/ Kept \/ ((Replaced \/ Removed) /\ i # openfile)
  BY DEF Current
<1>2. PICK j \in DOMAIN openfiles' : openfiles'[j] = openfiles[i]
  BY <1>1, OthersStay
<1> QED BY <1>2 DEF Locked

LEMMA ReplacedIsThere ==
  ASSUME TypeOK, openfiles # <<>>, NEW b \in Buffers,
         openfiles' = [openfiles EXCEPT ![openfile] = b]
  PROVE  openfile \in DOMAIN openfiles' /\ openfiles'[openfile] = b
BY CurrentIsABuffer DEF TypeOK

\* A buffer that is replaced by one with the same lock file keeps all locked.
LEMMA LockStaysReplaced ==
  ASSUME TypeOK, openfiles # <<>>, NEW b \in Buffers, openfile' = openfile,
         openfiles' = [openfiles EXCEPT ![openfile] = b],
         b.lock_filename = Current.lock_filename,
         NEW name, Locked(name) \/ name = Current.lock_filename
  PROVE  Locked(name)'
<1>1. CASE name = Current.lock_filename
  BY <1>1, ReplacedIsThere DEF Locked
<1>2. CASE Locked(name) /\ name # Current.lock_filename
  BY <1>2, LockStays DEF Replaced
<1> QED BY <1>1, <1>2

LEMMA OpenBufferLocks ==
  ASSUME TypeOK, LocksOwned, NEW name \in Names \cup {NoName}, OpenBuffer(name),
         mode' # "exited"
  PROVE  LocksOwned'
<1>1. Inserted \/ Kept
  BY OpenBufferList
<1>2. ASSUME NEW n \in Names, locks[n] = "us" PROVE Locked(n)'
  BY <1>1, <1>2, LockStays DEF LocksOwned
<1>3. CASE locks' = locks
  BY <1>2, <1>3 DEF LocksOwned
<1>4. CASE OpenLocked(name)
  <2> PICK filename \in {name, NoName} :
        /\ openfiles' = InsertAt(openfiles, openfile + 1,
                                 [id |-> opened + 1, filename |-> filename,
                                  lock_filename |-> name, modified |-> FALSE])
        /\ locks' = [locks EXCEPT ![name] = "us"]
        /\ Locking /\ name \in Names
    BY <1>4 DEF OpenLocked, MakeNewBuffer
  <2> DEFINE b == [id |-> opened + 1, filename |-> filename,
                   lock_filename |-> name, modified |-> FALSE]
  <2>1. b \in Buffers /\ b.lock_filename = name
    BY DEF Buffers, TypeOK
  <2>2. openfiles' = InsertAt(openfiles, openfile + 1, b)
    OBVIOUS
  <2> HIDE DEF b
  <2>3. /\ openfiles' \in Seq(Buffers)
        /\ Len(openfiles') = Len(openfiles) + 1
        /\ openfiles'[openfile + 1] = b
    <3>1. openfiles \in Seq(Buffers) /\ openfile + 1 \in 1..(Len(openfiles) + 1)
      BY DEF TypeOK
    <3> QED BY <2>1, <2>2, <3>1, InsertAtFacts
  <2>4. Locked(name)'
    <3>1. openfile + 1 \in DOMAIN openfiles'
      BY <2>3 DEF TypeOK
    <3> QED BY <2>1, <2>3, <3>1 DEF Locked
  <2> QED BY <1>2, <2>4 DEF LocksOwned, TypeOK
<1> QED BY <1>3, <1>4 DEF OpenBuffer, OpenUnlocked, OpenRefusedAlone, OpenRefused

LEMMA LocksOwnedStep ==
  ASSUME TypeOK, HasBuffer, LocksOwned, Next
  PROVE  LocksOwned'
<1>1. CASE Start
  <2>1. ASSUME arguments # <<>> PROVE Head(arguments) \in Names
    BY <2>1, HeadTailProperties DEF TypeOK
  <2>2. CASE arguments # <<>> /\ OpenBuffer(Head(arguments)) /\ UNCHANGED mode
    BY <1>1, <2>1, <2>2, OpenBufferLocks DEF Start
  <2>3. CASE OpenBuffer(NoName) /\ UNCHANGED mode
    BY <1>1, <2>3, OpenBufferLocks DEF Start
  <2>4. CASE mode' = "running" /\ UNCHANGED <<openfiles, locks>>
    BY <2>4 DEF LocksOwned, Locked
  <2> QED BY <1>1, <2>2, <2>3, <2>4 DEF Start
<1>2. ASSUME NEW name \in Names, Open(name) PROVE LocksOwned'
  BY <1>2, OpenBufferLocks DEF Open
<1>3. CASE \/ SwitchToNextBuffer \/ SwitchToPrevBuffer \/ Die
           \/ \E name \in Names : OtherLocks(name)
  BY <1>3 DEF SwitchToNextBuffer, SwitchToPrevBuffer, Die, OtherLocks,
              LocksOwned, Locked, TypeOK
<1>4. CASE Modify
  <2> DEFINE b == [Current EXCEPT !.modified = TRUE]
  <2>1. openfiles # <<>> /\ mode' # "exited" /\ openfile' = openfile
    BY <1>4 DEF Modify, HasBuffer
  <2>2. /\ openfiles' = [openfiles EXCEPT ![openfile] = b] /\ b \in Buffers
        /\ b.lock_filename = Current.lock_filename
    BY <1>4, <2>1, ModifyList, CurrentIsABuffer DEF Buffers
  <2> HIDE DEF b
  <2>3. ASSUME NEW name \in Names, locks'[name] = "us"
        PROVE  (Locked(name) \/ name = Current.lock_filename) /\ Locking
    BY <1>4, <2>3 DEF Modify, LocksOwned, TypeOK
  <2> QED BY <2>1, <2>2, <2>3, LockStaysReplaced DEF LocksOwned
<1>5. CASE Writeout
  <2>1. openfiles # <<>> /\ mode' # "exited" /\ openfile' = openfile /\ locks' = locks
    BY <1>5 DEF Writeout, HasBuffer
  <2> PICK saved \in SavedBuffers : openfiles' = [openfiles EXCEPT ![openfile] = saved]
    BY <1>5 DEF Writeout
  <2>2. saved \in Buffers /\ saved.lock_filename = Current.lock_filename
    BY <2>1, SavedBufferFacts
  <2> QED BY <2>1, <2>2, LockStaysReplaced DEF LocksOwned
<1>6. CASE DoExit
  <2>1. openfiles # <<>> /\ CloseBuffer /\ DeleteLock /\ Current \in Buffers
    BY <1>6, CurrentIsABuffer DEF DoExit, HasBuffer
  <2>2. ASSUME NEW name \in Names, locks'[name] = "us"
        PROVE  locks[name] = "us" /\ name # Current.lock_filename
    \* A lock of ours that is left is not the current buffer's, which is deleted.
    BY <2>1, <2>2, OpenFilesAssumption DEF DeleteLock, LocksOwned, TypeOK, Buffers
  <2>3. CASE Removed /\ mode' = mode
    BY <2>2, <2>3, LockStays DEF LocksOwned
  <2>4. CASE Kept /\ mode' = "exited" /\ Len(openfiles) = 1
    <3>1. ASSUME NEW name \in Names, locks'[name] = "us" PROVE FALSE
      <4>1. PICK i \in DOMAIN openfiles : openfiles[i].lock_filename = name
        BY <2>2, <3>1 DEF LocksOwned, Locked
      <4>2. i = openfile
        BY <2>1, <2>4, <4>1, CurrentIsABuffer DEF TypeOK
      <4> QED BY <2>2, <3>1, <4>1, <4>2 DEF Current
    <3> QED BY <3>1 DEF LocksOwned
  <2> QED BY <2>1, <2>3, <2>4, CloseBufferList
<1> QED BY <1>1, <1>2, <1>3, <1>4, <1>5, <1>6 DEF Next

\* Every lock file that pinot made and did not delete belongs to an open buffer,
\* and none is left when it exits.
THEOREM LocksAreReleased == Spec => []LocksReleased
<1>1. Init => LocksOwned
  BY DEF Init, LocksOwned
<1>2. TypeOK /\ HasBuffer /\ LocksOwned /\ [Next]_vars => LocksOwned'
  <2>1. ASSUME UNCHANGED vars, LocksOwned PROVE LocksOwned'
    BY <2>1 DEF vars, LocksOwned, Locked
  <2> QED BY <2>1, LocksOwnedStep
<1>3. LocksOwned => LocksReleased
  BY DEF LocksOwned, Locked, LocksReleased
<1> QED BY <1>1, <1>2, <1>3, TypesInvariant, PTL DEF Spec

-----------------------------------------------------------------------------
(* Buffers that are told apart.                                            *)

\* No two buffers of a list have the same key, those without a key (none) apart.
Apart(s, key, none) ==
    \A i, j \in DOMAIN s : i # j /\ key[s[i]] # none => key[s[i]] # key[s[j]]

LEMMA ApartInserted ==
  ASSUME NEW s \in Seq(Buffers), NEW i \in 1..(Len(s) + 1), NEW b \in Buffers,
         NEW key, NEW none, Apart(s, key, none),
         key[b] = none \/ \A j \in DOMAIN s : key[s[j]] # key[b]
  PROVE  Apart(InsertAt(s, i, b), key, none)
<1> DEFINE t == InsertAt(s, i, b)
           from(k) == IF k < i THEN k ELSE k - 1
<1>1. /\ t \in Seq(Buffers) /\ Len(t) = Len(s) + 1 /\ t[i] = b
      /\ \A k \in 1..Len(s) : t[IF k < i THEN k ELSE k + 1] = s[k]
  BY InsertAtFacts
<1> HIDE DEF t
<1>2. ASSUME NEW k \in 1..Len(t), k # i
      PROVE  from(k) \in 1..Len(s) /\ t[k] = s[from(k)]
  <2>1. from(k) \in 1..Len(s) /\ k = IF from(k) < i THEN from(k) ELSE from(k) + 1
    BY <1>1, <1>2
  <2>2. t[IF from(k) < i THEN from(k) ELSE from(k) + 1] = s[from(k)]
    BY <1>1, <2>1
  <2> QED BY <2>1, <2>2
<1>3. ASSUME NEW j \in 1..Len(t), NEW k \in 1..Len(t), j # k, key[t[j]] # none
      PROVE  key[t[j]] # key[t[k]]
  <2>1. CASE j = i
    BY <1>1, <1>2, <1>3, <2>1
  <2>2. CASE k = i
    BY <1>1, <1>2, <1>3, <2>2
  <2>3. CASE j # i /\ k # i
    <3>1. from(j) # from(k)
      BY <1>1, <1>3, <2>3
    <3>2. from(j) \in DOMAIN s /\ from(k) \in DOMAIN s
      BY <1>2, <2>3
    <3>3. t[j] = s[from(j)] /\ t[k] = s[from(k)]
      BY <1>2, <2>3
    <3> HIDE DEF from
    <3> QED BY <1>3, <3>1, <3>2, <3>3 DEF Apart
  <2> QED BY <2>1, <2>2, <2>3
<1> QED BY <1>1, <1>3 DEF Apart, t

LEMMA RemovedFrom ==
  ASSUME NEW s \in Seq(Buffers), NEW i \in 1..Len(s), NEW k \in 1..(Len(s) - 1)
  PROVE  RemoveAt(s, i)[k] = s[IF k < i THEN k ELSE k + 1]
<1> DEFINE j == IF k < i THEN k ELSE k + 1
<1>1. j \in 1..Len(s) /\ j # i /\ k = IF j < i THEN j ELSE j - 1
  OBVIOUS
<1>2. RemoveAt(s, i)[IF j < i THEN j ELSE j - 1] = s[j]
  BY <1>1, RemoveAtFacts
<1> QED BY <1>1, <1>2

LEMMA ApartRemoved ==
  ASSUME NEW s \in Seq(Buffers), NEW i \in 1..Len(s), NEW key, NEW none,
         Apart(s, key, none)
  PROVE  Apart(RemoveAt(s, i), key, none)
<1> DEFINE t == RemoveAt(s, i)
           from(k) == IF k < i THEN k ELSE k + 1
<1>1. t \in Seq(Buffers) /\ Len(t) = Len(s) - 1
  BY RemoveAtFacts
<1>2. \A k \in 1..Len(t) : from(k) \in 1..Len(s) /\ t[k] = s[from(k)]
  BY <1>1, RemovedFrom
<1> HIDE DEF t
<1>3. ASSUME NEW j \in 1..Len(t), NEW k \in 1..Len(t), j # k, key[t[j]] # none
      PROVE  key[t[j]] # key[t[k]]
  <2>1. from(j) # from(k)
    BY <1>1, <1>3
  <2>2. from(j) \in DOMAIN s /\ from(k) \in DOMAIN s
    BY <1>2
  <2>3. t[j] = s[from(j)] /\ t[k] = s[from(k)]
    BY <1>2
  <2> HIDE DEF from
  <2> QED BY <1>3, <2>1, <2>2, <2>3 DEF Apart
<1> QED BY <1>1, <1>3 DEF Apart, t

\* A buffer that is replaced by one with the same key.
LEMMA ApartReplaced ==
  ASSUME NEW s \in Seq(Buffers), NEW i \in 1..Len(s), NEW b \in Buffers,
         NEW key, NEW none, Apart(s, key, none), key[b] = key[s[i]]
  PROVE  Apart([s EXCEPT ![i] = b], key, none)
<1> DEFINE t == [s EXCEPT ![i] = b]
<1>1. \A k \in DOMAIN s : key[t[k]] = key[s[k]]
  OBVIOUS
<1>2. DOMAIN t = DOMAIN s
  OBVIOUS
<1> HIDE DEF t
<1>3. Apart(t, key, none)
  BY <1>1, <1>2 DEF Apart
<1> QED BY <1>3 DEF t

-----------------------------------------------------------------------------
(* Locks are held.                                                         *)

LockOf == [b \in Buffers |-> b.lock_filename]

\* No two buffers have the same lock file, and until pinot exits each lock file of
\* a buffer is ours.  The first is why closing a buffer takes no other's lock.
HoldsLocks ==
    mode # "exited" =>
        \A i \in DOMAIN openfiles : openfiles[i].lock_filename # NoName =>
            Locking /\ locks[openfiles[i].lock_filename] = "us"
LocksApart == Apart(openfiles, LockOf, NoName)

\* A buffer after a step that inserts none was there before the step.
LEMMA BufferAfter ==
  ASSUME TypeOK, Removed \/ Kept, NEW i \in DOMAIN openfiles'
  PROVE  \E j \in DOMAIN openfiles : openfiles'[i] = openfiles[j] /\ (Removed => j # openfile)
<1>1. CASE Removed
  <2>1. openfiles # <<>>
    BY <1>1 DEF Removed
  <2>2. openfile \in 1..Len(openfiles) /\ openfiles \in Seq(Buffers)
    BY <2>1, CurrentIsABuffer DEF TypeOK
  <2>3. openfiles' = RemoveAt(openfiles, openfile) /\ Len(openfiles') = Len(openfiles) - 1
        /\ openfiles' \in Seq(Buffers)
    BY <1>1, <2>2, RemoveAtFacts DEF Removed
  <2>4. i \in 1..(Len(openfiles) - 1)
    BY <2>3
  <2> DEFINE j == IF i < openfile THEN i ELSE i + 1
  <2>5. j \in DOMAIN openfiles /\ j # openfile
    BY <2>2, <2>4
  <2>6. openfiles'[i] = openfiles[j]
    BY <2>2, <2>3, <2>4, RemovedFrom
  <2> QED BY <2>5, <2>6
<1>2. CASE Kept /\ ~Removed
  BY <1>2 DEF Kept
<1> QED BY <1>1, <1>2

\* A step that inserts and replaces none keeps buffers apart.
LEMMA ApartStep ==
  ASSUME TypeOK, Removed \/ Kept, NEW key, NEW none, Apart(openfiles, key, none)
  PROVE  Apart(openfiles', key, none)
<1>1. CASE Removed
  <2>1. openfiles # <<>>
    BY <1>1 DEF Removed
  <2>2. openfile \in 1..Len(openfiles) /\ openfiles \in Seq(Buffers)
    BY <2>1, CurrentIsABuffer DEF TypeOK
  <2> QED BY <1>1, <2>2, ApartRemoved DEF Removed
<1>2. CASE Kept
  BY <1>2 DEF Kept
<1> QED BY <1>1, <1>2

\* A buffer that was inserted, or one that was there.
LEMMA BufferAfterInsert ==
  ASSUME TypeOK, NEW b \in Buffers,
         openfiles' = InsertAt(openfiles, openfile + 1, b),
         NEW i \in DOMAIN openfiles'
  PROVE  openfiles'[i] = b \/ \E j \in DOMAIN openfiles : openfiles'[i] = openfiles[j]
<1>1. openfiles \in Seq(Buffers) /\ openfile + 1 \in 1..(Len(openfiles) + 1)
  BY DEF TypeOK
<1>2. /\ openfiles' \in Seq(Buffers) /\ Len(openfiles') = Len(openfiles) + 1
      /\ openfiles'[openfile + 1] = b
      /\ \A k \in 1..Len(openfiles) :
           openfiles'[IF k < openfile + 1 THEN k ELSE k + 1] = openfiles[k]
  BY <1>1, InsertAtFacts
<1> DEFINE j == IF i < openfile + 1 THEN i ELSE i - 1
<1>3. CASE i # openfile + 1
  <2>1. j \in 1..Len(openfiles) /\ i = IF j < openfile + 1 THEN j ELSE j + 1
    BY <1>1, <1>2, <1>3
  <2> HIDE DEF j
  <2>2. openfiles'[i] = openfiles[j]
    BY <1>2, <2>1
  <2> QED BY <1>1, <2>1, <2>2
<1> QED BY <1>2, <1>3

\* Opening a file that this pinot has not locked locks it for the new buffer only.
LEMMA OpenBufferHolds ==
  ASSUME ~OpensTwice, TypeOK, HoldsLocks, LocksApart, mode # "exited", mode' # "exited",
         NEW name \in Names \cup {NoName}, OpenBuffer(name)
  PROVE  HoldsLocks' /\ LocksApart'
<1>1. ASSUME NEW lock \in Names \cup {NoName}, MakeNewBuffer(name, lock),
             \/ lock = NoName /\ locks' = locks
             \/ /\ Locking /\ lock \in Names /\ locks[lock] # "us"
                /\ locks' = [locks EXCEPT ![lock] = "us"]
      PROVE  HoldsLocks' /\ LocksApart'
  <2> DEFINE New(filename) == [id |-> opened + 1, filename |-> filename,
                               lock_filename |-> lock, modified |-> FALSE]
  <2> PICK filename \in {name, NoName} :
             openfiles' = InsertAt(openfiles, openfile + 1, New(filename))
    BY <1>1 DEF MakeNewBuffer
  <2> DEFINE b == New(filename)
  <2>1. b \in Buffers /\ b.lock_filename = lock
    BY DEF Buffers, TypeOK
  <2>2. openfiles' = InsertAt(openfiles, openfile + 1, b)
    OBVIOUS
  <2> HIDE DEF b
  <2>3. ASSUME NEW j \in DOMAIN openfiles, openfiles[j].lock_filename # NoName
        PROVE  /\ openfiles[j].lock_filename \in Names
               /\ Locking /\ locks[openfiles[j].lock_filename] = "us"
               /\ openfiles[j].lock_filename # lock
    <3>1. openfiles[j] \in Buffers
      BY ElementOfSeq DEF TypeOK
    <3> QED BY <1>1, <2>3, <3>1 DEF HoldsLocks, Buffers
  <2>4. LocksApart'
    <3>1. \A j \in DOMAIN openfiles : openfiles[j] \in Buffers
      BY ElementOfSeq DEF TypeOK
    <3>2. LockOf[b] = NoName \/ \A j \in DOMAIN openfiles : LockOf[openfiles[j]] # LockOf[b]
      BY <2>1, <2>3, <3>1 DEF LockOf
    <3>3. openfiles \in Seq(Buffers) /\ openfile + 1 \in 1..(Len(openfiles) + 1)
      BY DEF TypeOK
    <3>4. Apart(InsertAt(openfiles, openfile + 1, b), LockOf, NoName)
      BY <2>1, <3>2, <3>3, ApartInserted DEF LocksApart
    <3> QED BY <2>2, <3>4 DEF LocksApart
  <2>5. HoldsLocks'
    <3> SUFFICES ASSUME NEW i \in DOMAIN openfiles', openfiles'[i].lock_filename # NoName
                 PROVE  Locking /\ locks'[openfiles'[i].lock_filename] = "us"
      BY DEF HoldsLocks
    <3>1. CASE openfiles'[i] = b
      BY <1>1, <2>1, <3>1 DEF TypeOK
    <3>2. ASSUME NEW j \in DOMAIN openfiles, openfiles'[i] = openfiles[j]
          PROVE  Locking /\ locks'[openfiles'[i].lock_filename] = "us"
      BY <1>1, <2>3, <3>2 DEF TypeOK
    <3> QED BY <2>1, <2>2, <3>1, <3>2, BufferAfterInsert
  <2> QED BY <2>4, <2>5
<1>2. CASE OpenLocked(name)
  BY <1>1, <1>2 DEF OpenLocked
<1>3. CASE OpenUnlocked(name)
  BY <1>1, <1>3 DEF OpenUnlocked
<1>4. CASE OpenRefusedAlone(name)
  BY <1>1, <1>4 DEF OpenRefusedAlone
<1>5. CASE OpenRefused(name)
  BY <1>5 DEF OpenRefused, HoldsLocks, LocksApart
<1> QED BY <1>2, <1>3, <1>4, <1>5 DEF OpenBuffer

\* A buffer that is replaced by one with the same lock file, of which no lock file
\* is taken away.
LEMMA ReplacedHolds ==
  ASSUME TypeOK, HoldsLocks, LocksApart, mode # "exited", openfiles # <<>>,
         NEW b \in Buffers, b.lock_filename = Current.lock_filename,
         openfiles' = [openfiles EXCEPT ![openfile] = b],
         \A name \in Names : locks[name] = "us" => locks'[name] = "us"
  PROVE  HoldsLocks' /\ LocksApart'
<1>1. openfile \in 1..Len(openfiles) /\ openfiles \in Seq(Buffers) /\ Current \in Buffers
  BY CurrentIsABuffer DEF TypeOK
<1>2. LocksApart'
  <2>1. LockOf[b] = LockOf[openfiles[openfile]]
    BY <1>1 DEF LockOf, Current
  <2>2. Apart([openfiles EXCEPT ![openfile] = b], LockOf, NoName)
    BY <1>1, <2>1, ApartReplaced DEF LocksApart
  <2> QED BY <2>2 DEF LocksApart
<1>3. HoldsLocks'
  <2> SUFFICES ASSUME NEW i \in DOMAIN openfiles', openfiles'[i].lock_filename # NoName
               PROVE  Locking /\ locks'[openfiles'[i].lock_filename] = "us"
    BY DEF HoldsLocks
  <2>1. i \in DOMAIN openfiles /\ openfiles'[i].lock_filename = openfiles[i].lock_filename
    BY <1>1 DEF Current
  <2>2. openfiles[i] \in Buffers
    BY <2>1, ElementOfSeq DEF TypeOK
  <2>3. openfiles[i].lock_filename \in Names
    BY <2>1, <2>2 DEF Buffers
  <2> QED BY <2>1, <2>3 DEF HoldsLocks
<1> QED BY <1>2, <1>3

LEMMA HoldsLocksStep ==
  ASSUME ~OpensTwice, TypeOK, HasBuffer, HoldsLocks, LocksApart, mode # "exited", Next
  PROVE  HoldsLocks' /\ LocksApart'
<1>1. CASE Start
  <2>1. ASSUME arguments # <<>> PROVE Head(arguments) \in Names
    BY <2>1, HeadTailProperties DEF TypeOK
  <2>2. CASE \E name \in Names \cup {NoName} : OpenBuffer(name) /\ UNCHANGED mode
    BY <2>2, OpenBufferHolds
  <2>3. CASE mode' = "running" /\ UNCHANGED <<openfiles, locks>>
    BY <2>3 DEF HoldsLocks, LocksApart
  <2> QED BY <1>1, <2>1, <2>2, <2>3 DEF Start
<1>2. ASSUME NEW name \in Names, Open(name) PROVE HoldsLocks' /\ LocksApart'
  BY <1>2, OpenBufferHolds DEF Open
<1>3. CASE SwitchToNextBuffer \/ SwitchToPrevBuffer \/ Die
  BY <1>3 DEF SwitchToNextBuffer, SwitchToPrevBuffer, Die, HoldsLocks, LocksApart
<1>4. ASSUME NEW name \in Names, OtherLocks(name) PROVE HoldsLocks' /\ LocksApart'
  \* Another process takes no lock of ours.
  <2>1. openfiles' = openfiles /\ mode' = mode
    BY <1>4 DEF OtherLocks
  <2>2. \A n \in Names : locks[n] = "us" => locks'[n] = "us"
    BY <1>4 DEF OtherLocks, TypeOK
  <2>3. \A i \in DOMAIN openfiles : openfiles[i] \in Buffers
    BY ElementOfSeq DEF TypeOK
  <2>4. LocksApart'
    BY <2>1 DEF LocksApart
  <2> QED BY <2>1, <2>2, <2>3, <2>4 DEF HoldsLocks, Buffers
<1>5. CASE Modify
  <2> DEFINE b == [Current EXCEPT !.modified = TRUE]
  <2>1. openfiles # <<>>
    BY <1>5 DEF Modify, HasBuffer
  <2>2. /\ openfiles' = [openfiles EXCEPT ![openfile] = b] /\ b \in Buffers
        /\ b.lock_filename = Current.lock_filename
    BY <1>5, <2>1, ModifyList, CurrentIsABuffer DEF Buffers
  <2> HIDE DEF b
  <2>3. \A name \in Names : locks[name] = "us" => locks'[name] = "us"
    BY <1>5 DEF Modify, TypeOK
  <2> QED BY <2>1, <2>2, <2>3, ReplacedHolds
<1>6. CASE Writeout
  <2>1. openfiles # <<>> /\ locks' = locks
    BY <1>6 DEF Writeout, HasBuffer
  <2> PICK saved \in SavedBuffers : openfiles' = [openfiles EXCEPT ![openfile] = saved]
    BY <1>6 DEF Writeout
  <2>2. saved \in Buffers /\ saved.lock_filename = Current.lock_filename
    BY <2>1, SavedBufferFacts
  <2> QED BY <2>1, <2>2, ReplacedHolds
<1>7. CASE DoExit
  <2>1. openfiles # <<>> /\ CloseBuffer /\ DeleteLock
    BY <1>7 DEF DoExit, HasBuffer
  <2>2. CASE Kept /\ mode' = "exited"
    BY <2>2 DEF Kept, HoldsLocks, LocksApart
  <2>3. CASE Removed
    <3>1. LocksApart'
      BY <2>3, ApartStep DEF LocksApart
    <3>2. ASSUME NEW i \in DOMAIN openfiles', openfiles'[i].lock_filename # NoName
          PROVE  Locking /\ locks'[openfiles'[i].lock_filename] = "us"
      \* The lock that is deleted is that of the current buffer, hence not buffer j's.
      <4>1. PICK j \in DOMAIN openfiles : openfiles'[i] = openfiles[j] /\ j # openfile
        BY <2>3, BufferAfter
      <4>2. /\ openfile \in DOMAIN openfiles
            /\ openfiles[j] \in Buffers /\ openfiles[openfile] \in Buffers
        BY <2>1, CurrentIsABuffer, ElementOfSeq DEF TypeOK
      <4>3. openfiles[j].lock_filename # Current.lock_filename
        BY <3>2, <4>1, <4>2 DEF LocksApart, Apart, LockOf, Current
      <4>4. /\ Locking /\ locks[openfiles[j].lock_filename] = "us"
            /\ openfiles[j].lock_filename \in Names
        BY <3>2, <4>1, <4>2 DEF HoldsLocks, Buffers
      <4> QED BY <2>1, <4>1, <4>3, <4>4 DEF DeleteLock, TypeOK
    <3> QED BY <3>1, <3>2 DEF HoldsLocks
  <2> QED BY <2>1, <2>2, <2>3, CloseBufferList
<1> QED BY <1>1, <1>2, <1>3, <1>4, <1>5, <1>6, <1>7 DEF Next

\* A buffer that has a lock file is locked as long as it is open, for any number of
\* buffers and files, if no file is opened that this pinot has locked already: the
\* two buffers would share a lock file, and closing one deletes it.
THEOREM LocksAreHeld ==
  ASSUME ~OpensTwice PROVE Spec => []LocksHeld
<1>1. Init => HoldsLocks /\ LocksApart
  BY DEF Init, HoldsLocks, LocksApart, Apart
<1>2. TypeOK /\ HasBuffer /\ HoldsLocks /\ LocksApart /\ [Next]_vars
        => HoldsLocks' /\ LocksApart'
  <2>1. CASE UNCHANGED vars
    BY <2>1 DEF vars, HoldsLocks, LocksApart
  <2>2. ASSUME Next, mode = "exited" PROVE FALSE
    BY <2>2 DEF Next, Start, Open, OtherLocks, SwitchToNextBuffer, SwitchToPrevBuffer,
                Modify, Writeout, DoExit, Die
  <2> QED BY <2>1, <2>2, HoldsLocksStep
<1>3. HoldsLocks => LocksHeld
  BY DEF HoldsLocks, LocksHeld
<1> QED BY <1>1, <1>2, <1>3, TypesInvariant, PTL DEF Spec

-----------------------------------------------------------------------------
(* The list is a ring.                                                     *)

\* The identities from position o of a list to its end, and from its beginning on;
\* position k of these is position Around(o, k, n) of a list of n.
From(s, o) == Ids(SubSeq(s, o, Len(s)) \o SubSeq(s, 1, o - 1))
Around(o, k, n) == IF k <= n - o + 1 THEN o + k - 1 ELSE k - (n - o + 1)

LEMMA FromFacts ==
  ASSUME NEW s \in Seq(Buffers), NEW o \in 1..Len(s)
  PROVE  /\ From(s, o) \in Seq(Nat)
         /\ Len(From(s, o)) = Len(s)
         /\ \A k \in 1..Len(s) : /\ Around(o, k, Len(s)) \in 1..Len(s)
                                 /\ From(s, o)[k] = s[Around(o, k, Len(s))].id
<1> DEFINE n == Len(s)
           a == SubSeq(s, o, n)
           b == SubSeq(s, 1, o - 1)
           c == a \o b
<1>1. /\ a \in Seq(Buffers) /\ Len(a) = n - o + 1
      /\ \A k \in 1..(n - o + 1) : a[k] = s[o + k - 1]
  OBVIOUS
<1>2. /\ b \in Seq(Buffers) /\ Len(b) = o - 1
      /\ \A k \in 1..(o - 1) : b[k] = s[k]
  OBVIOUS
<1> HIDE DEF a, b
<1>3. /\ c \in Seq(Buffers) /\ Len(c) = Len(a) + Len(b)
      /\ \A k \in 1..(Len(a) + Len(b)) : c[k] = IF k <= Len(a) THEN a[k] ELSE b[k - Len(a)]
  BY <1>1, <1>2, ConcatProperties
<1> HIDE DEF c
<1>4. n \in Nat /\ o \in 1..n
  OBVIOUS
<1>5. \A k \in 1..n : Around(o, k, n) \in 1..n /\ c[k] = s[Around(o, k, n)]
  <2> SUFFICES ASSUME NEW k \in 1..n
               PROVE  Around(o, k, n) \in 1..n /\ c[k] = s[Around(o, k, n)]
    OBVIOUS
  <2> HIDE DEF n
  <2>0. c[k] = IF k <= n - o + 1 THEN a[k] ELSE b[k - (n - o + 1)]
    BY <1>1, <1>2, <1>3, <1>4
  <2>1. CASE k <= n - o + 1
    <3>1. k \in 1..(n - o + 1) /\ o + k - 1 \in 1..n
      BY <1>4, <2>1
    <3>2. a[k] = s[o + k - 1]
      BY <1>1, <3>1
    <3> QED BY <2>0, <2>1, <3>1, <3>2 DEF Around
  <2>2. CASE ~(k <= n - o + 1)
    <3>1. k - (n - o + 1) \in 1..(o - 1) /\ k - (n - o + 1) \in 1..n
      BY <1>4, <2>2
    <3>2. b[k - (n - o + 1)] = s[k - (n - o + 1)]
      BY <1>2, <3>1
    <3> QED BY <2>0, <2>2, <3>1, <3>2 DEF Around
  <2> QED BY <2>1, <2>2
<1>6. Len(c) = n
  BY <1>1, <1>2, <1>3, <1>4
<1>7. From(s, o) = [k \in 1..n |-> c[k].id]
  <2>1. From(s, o) = [k \in DOMAIN c |-> c[k].id]
    BY DEF From, Ids, c, a, b
  <2>2. DOMAIN c = 1..n
    BY <1>3, <1>6
  <2> HIDE DEF n
  <2> QED BY <2>1, <2>2
<1>8. \A k \in 1..n : c[k].id \in Nat
  <2>1. \A k \in 1..n : c[k] \in Buffers
    BY <1>3, <1>6, ElementOfSeq
  <2> HIDE DEF n
  <2> QED BY <2>1 DEF Buffers
<1> QED BY <1>4, <1>5, <1>7, <1>8

\* Two lists of numbers of the same length with the same elements.
LEMMA SameNumbers ==
  ASSUME NEW r \in Seq(Nat), NEW q \in Seq(Nat), Len(r) = Len(q),
         \A k \in 1..Len(r) : r[k] = q[k]
  PROVE  r = q
BY SeqEqual

LEMMA ForwardFacts ==
  ASSUME NEW r \in Seq(Nat), r # <<>>
  PROVE  /\ Ring!Forward(r) \in Seq(Nat)
         /\ Len(Ring!Forward(r)) = Len(r)
         /\ \A k \in 1..Len(r) : Ring!Forward(r)[k] = r[IF k < Len(r) THEN k + 1 ELSE 1]
<1> DEFINE n == Len(r)
           t == Tail(r)
           f == Append(t, r[1])
<1>1. /\ t \in Seq(Nat) /\ Len(t) = n - 1
      /\ \A k \in 1..(n - 1) : t[k] = r[k + 1]
  BY HeadTailProperties
<1>2. Head(r) = r[1] /\ r[1] \in Nat /\ n \in Nat \ {0}
  BY HeadTailProperties
<1>3. Ring!Forward(r) = f
  BY <1>2 DEF Ring!Forward
<1> HIDE DEF t, n
<1>4. /\ f \in Seq(Nat) /\ Len(f) = n
      /\ \A k \in 1..(n - 1) : f[k] = t[k]
      /\ f[n] = r[1]
  BY <1>1, <1>2
<1> HIDE DEF f
<1>5. ASSUME NEW k \in 1..n
      PROVE  f[k] = r[IF k < n THEN k + 1 ELSE 1]
  <2>1. CASE k < n
    <3>1. k \in 1..(n - 1)
      BY <1>2, <2>1
    <3> QED BY <1>1, <1>4, <2>1, <3>1
  <2>2. CASE ~(k < n)
    <3>1. k = n
      BY <1>2, <2>2
    <3> QED BY <1>4, <2>2, <3>1
  <2> QED BY <2>1, <2>2
<1> QED BY <1>3, <1>4, <1>5 DEF n

LEMMA BackwardFacts ==
  ASSUME NEW r \in Seq(Nat), r # <<>>
  PROVE  /\ Ring!Backward(r) \in Seq(Nat)
         /\ Len(Ring!Backward(r)) = Len(r)
         /\ \A k \in 1..Len(r) : Ring!Backward(r)[k] = r[IF k = 1 THEN Len(r) ELSE k - 1]
<1> DEFINE n == Len(r)
           f == SubSeq(r, 1, n - 1)
           h == <<r[n]>> \o f
<1>1. n \in Nat \ {0} /\ \A k \in 1..n : r[k] \in Nat
  OBVIOUS
<1>2. Ring!Backward(r) = h
  BY DEF Ring!Backward, Ring!Last, Ring!Front
<1> HIDE DEF n
<1>3. f \in Seq(Nat) /\ Len(f) = n - 1 /\ \A k \in 1..(n - 1) : f[k] = r[k]
  BY <1>1, SubSeqProperties
<1> HIDE DEF f
<1>4. r[n] \in Nat
  BY <1>1
<1>5. /\ h \in Seq(Nat) /\ Len(h) = 1 + Len(f)
      /\ h[1] = r[n]
      /\ \A k \in 2..(1 + Len(f)) : h[k] = f[k - 1]
  BY <1>3, <1>4
<1> HIDE DEF h
<1>6. ASSUME NEW k \in 1..n
      PROVE  h[k] = r[IF k = 1 THEN n ELSE k - 1]
  <2>1. CASE k = 1
    BY <1>5, <2>1
  <2>2. CASE k # 1
    <3>1. k \in 2..(1 + Len(f)) /\ k - 1 \in 1..(n - 1)
      BY <1>1, <1>3, <2>2
    <3> QED BY <1>3, <1>5, <2>2, <3>1
  <2> QED BY <2>1, <2>2
<1>7. Len(h) = n
  BY <1>1, <1>3, <1>5
<1> QED BY <1>2, <1>5, <1>6, <1>7 DEF n

\* Moving to the next position, or to the one before, around the end of the list.
LEMMA FromNext ==
  ASSUME NEW s \in Seq(Buffers), NEW o \in 1..Len(s), NEW p,
         p = IF o = Len(s) THEN 1 ELSE o + 1
  PROVE  From(s, p) = Ring!Forward(From(s, o))
<1> DEFINE n == Len(s)
           r == From(s, o)
           q == From(s, p)
<1>1. n \in Nat /\ o \in 1..n /\ p \in 1..n
  OBVIOUS
<1>2. /\ r \in Seq(Nat) /\ Len(r) = n
      /\ \A k \in 1..n : Around(o, k, n) \in 1..n /\ r[k] = s[Around(o, k, n)].id
  BY FromFacts
<1>3. /\ q \in Seq(Nat) /\ Len(q) = n
      /\ \A k \in 1..n : Around(p, k, n) \in 1..n /\ q[k] = s[Around(p, k, n)].id
  BY <1>1, FromFacts
<1> HIDE DEF r, q
<1>4. r # <<>>
  BY <1>1, <1>2
<1>5. /\ Ring!Forward(r) \in Seq(Nat) /\ Len(Ring!Forward(r)) = n
      /\ \A k \in 1..n : Ring!Forward(r)[k] = r[IF k < n THEN k + 1 ELSE 1]
  BY <1>2, <1>4, ForwardFacts
<1> HIDE DEF n
<1>6. ASSUME NEW k \in 1..n
      PROVE  LET l == IF k < n THEN k + 1 ELSE 1
             IN  l \in 1..n /\ Around(p, k, n) = Around(o, l, n)
  BY <1>1 DEF Around, n
<1>7. ASSUME NEW k \in 1..n PROVE q[k] = Ring!Forward(r)[k]
  <2> DEFINE l == IF k < n THEN k + 1 ELSE 1
  <2>1. l \in 1..n /\ Around(p, k, n) = Around(o, l, n)
    BY <1>6
  <2> HIDE DEF l
  <2>2. q[k] = s[Around(o, l, n)].id
    BY <1>3, <2>1
  <2>3. r[l] = s[Around(o, l, n)].id
    BY <1>2, <2>1
  <2> QED BY <1>5, <2>2, <2>3 DEF l
<1> QED BY <1>3, <1>5, <1>7, SameNumbers DEF q, r

LEMMA FromPrevious ==
  ASSUME NEW s \in Seq(Buffers), NEW o \in 1..Len(s), NEW p,
         p = IF o = 1 THEN Len(s) ELSE o - 1
  PROVE  From(s, p) = Ring!Backward(From(s, o))
<1> DEFINE n == Len(s)
           r == From(s, o)
           q == From(s, p)
<1>1. n \in Nat /\ o \in 1..n /\ p \in 1..n
  OBVIOUS
<1>2. /\ r \in Seq(Nat) /\ Len(r) = n
      /\ \A k \in 1..n : Around(o, k, n) \in 1..n /\ r[k] = s[Around(o, k, n)].id
  BY FromFacts
<1>3. /\ q \in Seq(Nat) /\ Len(q) = n
      /\ \A k \in 1..n : Around(p, k, n) \in 1..n /\ q[k] = s[Around(p, k, n)].id
  BY <1>1, FromFacts
<1> HIDE DEF r, q
<1>4. r # <<>>
  BY <1>1, <1>2
<1>5. /\ Ring!Backward(r) \in Seq(Nat) /\ Len(Ring!Backward(r)) = n
      /\ \A k \in 1..n : Ring!Backward(r)[k] = r[IF k = 1 THEN n ELSE k - 1]
  BY <1>2, <1>4, BackwardFacts
<1> HIDE DEF n
<1>6. ASSUME NEW k \in 1..n
      PROVE  LET l == IF k = 1 THEN n ELSE k - 1
             IN  l \in 1..n /\ Around(p, k, n) = Around(o, l, n)
  BY <1>1 DEF Around, n
<1>7. ASSUME NEW k \in 1..n PROVE q[k] = Ring!Backward(r)[k]
  <2> DEFINE l == IF k = 1 THEN n ELSE k - 1
  <2>1. l \in 1..n /\ Around(p, k, n) = Around(o, l, n)
    BY <1>6
  <2> HIDE DEF l
  <2>2. q[k] = s[Around(o, l, n)].id
    BY <1>3, <2>1
  <2>3. r[l] = s[Around(o, l, n)].id
    BY <1>2, <2>1
  <2> QED BY <1>5, <2>2, <2>3 DEF l
<1> QED BY <1>3, <1>5, <1>7, SameNumbers DEF q, r

\* Removing the current buffer: the one after it is the first of the ring then.
LEMMA FromRemoved ==
  ASSUME NEW s \in Seq(Buffers), Len(s) > 1, NEW o \in 1..Len(s), NEW p,
         p = IF o = Len(s) THEN 1 ELSE o
  PROVE  From(RemoveAt(s, o), p) = Tail(From(s, o))
<1> DEFINE n == Len(s)
           t == RemoveAt(s, o)
           r == From(s, o)
           q == From(t, p)
<1>1. n \in Nat /\ n > 1 /\ o \in 1..n /\ p \in 1..(n - 1)
  OBVIOUS
<1>2. /\ t \in Seq(Buffers) /\ Len(t) = n - 1
      /\ \A k \in 1..(n - 1) : t[k] = s[IF k < o THEN k ELSE k + 1]
  BY RemoveAtFacts, RemovedFrom
<1>3. /\ r \in Seq(Nat) /\ Len(r) = n
      /\ \A k \in 1..n : Around(o, k, n) \in 1..n /\ r[k] = s[Around(o, k, n)].id
  BY FromFacts
<1> HIDE DEF t
<1>4. /\ q \in Seq(Nat) /\ Len(q) = n - 1
      /\ \A k \in 1..(n - 1) : /\ Around(p, k, n - 1) \in 1..(n - 1)
                               /\ q[k] = t[Around(p, k, n - 1)].id
  <2>1. p \in 1..Len(t)
    BY <1>1, <1>2
  <2>2. /\ q \in Seq(Nat) /\ Len(q) = Len(t)
        /\ \A k \in 1..Len(t) : /\ Around(p, k, Len(t)) \in 1..Len(t)
                                 /\ q[k] = t[Around(p, k, Len(t))].id
    BY <1>2, <2>1, FromFacts
  <2>3. Len(t) = n - 1
    BY <1>2
  <2> HIDE DEF q, n
  <2> QED BY <2>2, <2>3
<1> HIDE DEF r, q
<1>5. r # <<>>
  BY <1>1, <1>3
<1>6. /\ Tail(r) \in Seq(Nat) /\ Len(Tail(r)) = n - 1
      /\ \A k \in 1..(n - 1) : Tail(r)[k] = r[k + 1]
  BY <1>3, <1>5, HeadTailProperties
<1> HIDE DEF n
<1>7. ASSUME NEW k \in 1..(n - 1)
      PROVE  LET l == Around(p, k, n - 1)
             IN  k + 1 \in 1..n /\ (IF l < o THEN l ELSE l + 1) = Around(o, k + 1, n)
  BY <1>1 DEF Around, n
<1>8. ASSUME NEW k \in 1..(n - 1) PROVE q[k] = Tail(r)[k]
  <2> DEFINE l == Around(p, k, n - 1)
  <2>1. k + 1 \in 1..n /\ (IF l < o THEN l ELSE l + 1) = Around(o, k + 1, n)
    BY <1>7
  <2>2. q[k] = t[l].id /\ l \in 1..(n - 1)
    BY <1>4
  <2> HIDE DEF l
  <2>3. q[k] = s[Around(o, k + 1, n)].id
    BY <1>2, <2>1, <2>2
  <2>4. Tail(r)[k] = s[Around(o, k + 1, n)].id
    BY <1>3, <1>6, <2>1
  <2> QED BY <2>3, <2>4
<1> QED BY <1>4, <1>6, <1>8, SameNumbers DEF q, r, t

\* Inserting a buffer after the current one: that one is the last of the ring then.
LEMMA FromInserted ==
  ASSUME NEW s \in Seq(Buffers), NEW o \in 1..Len(s), NEW b \in Buffers,
         NEW p \in 1..(Len(s) + 1), p = o + 1
  PROVE  From(InsertAt(s, p, b), p) = <<b.id>> \o Ring!Forward(From(s, o))
<1> DEFINE n == Len(s)
           t == InsertAt(s, p, b)
           r == From(s, o)
           f == Ring!Forward(r)
           q == From(t, p)
           z == <<b.id>> \o f
<1>1. n \in Nat /\ o \in 1..n /\ p \in 1..(n + 1) /\ b.id \in Nat
  BY DEF Buffers
<1>2. /\ t \in Seq(Buffers) /\ Len(t) = n + 1 /\ t[p] = b
      /\ \A k \in 1..n : t[IF k < p THEN k ELSE k + 1] = s[k]
  BY InsertAtFacts
<1>3. /\ r \in Seq(Nat) /\ Len(r) = n
      /\ \A k \in 1..n : Around(o, k, n) \in 1..n /\ r[k] = s[Around(o, k, n)].id
  BY FromFacts
<1> HIDE DEF t
<1>4. /\ q \in Seq(Nat) /\ Len(q) = n + 1
      /\ \A k \in 1..(n + 1) : /\ Around(p, k, n + 1) \in 1..(n + 1)
                               /\ q[k] = t[Around(p, k, n + 1)].id
  <2>1. p \in 1..Len(t)
    BY <1>1, <1>2
  <2>2. /\ q \in Seq(Nat) /\ Len(q) = Len(t)
        /\ \A k \in 1..Len(t) : /\ Around(p, k, Len(t)) \in 1..Len(t)
                                 /\ q[k] = t[Around(p, k, Len(t))].id
    BY <1>2, <2>1, FromFacts
  <2>3. Len(t) = n + 1
    BY <1>2
  <2> HIDE DEF q, n
  <2> QED BY <2>2, <2>3
<1> HIDE DEF r, q
<1>5. r # <<>>
  BY <1>1, <1>3
<1>6. /\ f \in Seq(Nat) /\ Len(f) = n
      /\ \A k \in 1..n : f[k] = r[IF k < n THEN k + 1 ELSE 1]
  BY <1>3, <1>5, ForwardFacts
<1> HIDE DEF f, n
<1>7. /\ z \in Seq(Nat) /\ Len(z) = n + 1 /\ z[1] = b.id
      /\ \A k \in 2..(n + 1) : z[k] = f[k - 1]
  <2>1. <<b.id>> \in Seq(Nat) /\ Len(<<b.id>>) = 1 /\ <<b.id>>[1] = b.id
    BY <1>1
  <2>2. /\ z \in Seq(Nat) /\ Len(z) = 1 + n
        /\ \A k \in 1..(1 + n) : z[k] = IF k <= 1 THEN <<b.id>>[k] ELSE f[k - 1]
    BY <1>6, <2>1, ConcatProperties
  <2> HIDE DEF z
  <2>3. ASSUME NEW k \in 2..(n + 1) PROVE z[k] = f[k - 1]
    <3>1. k \in 1..(1 + n) /\ ~(k <= 1)
      BY <1>1
    <3> QED BY <2>2, <3>1
  <2>4. z[1] = b.id
    BY <1>1, <2>1, <2>2
  <2> QED BY <1>1, <2>2, <2>3, <2>4
<1> HIDE DEF z
<1>8. q[1] = b.id
  <2>1. 1 \in 1..(n + 1) /\ Around(p, 1, n + 1) = p
    BY <1>1 DEF Around
  <2> QED BY <1>2, <1>4, <2>1
<1>9. ASSUME NEW k \in 2..(n + 1)
      PROVE  q[k] = f[k - 1]
  <2> DEFINE m == IF k - 1 < n THEN k ELSE 1
             l == Around(o, m, n)
  <2>1. m \in 1..n /\ k - 1 \in 1..n /\ k \in 1..(n + 1)
    BY <1>1
  <2>2. f[k - 1] = s[l].id /\ l \in 1..n
    <3> HIDE DEF m
    <3>1. l \in 1..n /\ r[m] = s[l].id
      BY <1>3, <2>1
    <3>2. f[k - 1] = r[m]
      BY <1>1, <1>6, <2>1 DEF m
    <3> QED BY <3>1, <3>2
  <2>3. Around(p, k, n + 1) = IF l < p THEN l ELSE l + 1
    BY <1>1 DEF Around
  <2> HIDE DEF l
  <2> QED BY <1>2, <1>4, <2>1, <2>2, <2>3
<1>10. \A k \in 1..(n + 1) : q[k] = z[k]
  <2>1. \A k \in 1..(n + 1) : k = 1 \/ k \in 2..(n + 1)
    BY <1>1
  <2> QED BY <1>7, <1>8, <1>9, <2>1
<1> QED BY <1>4, <1>7, <1>10, SameNumbers DEF q, z, f, r, t

LEMMA FromReplaced ==
  ASSUME NEW s \in Seq(Buffers), NEW o \in 1..Len(s), NEW b \in Buffers, b.id = s[o].id
  PROVE  From([s EXCEPT ![o] = b], o) = From(s, o)
<1> DEFINE n == Len(s)
           t == [s EXCEPT ![o] = b]
<1>1. /\ t \in Seq(Buffers) /\ Len(t) = n
      /\ \A k \in 1..n : t[k].id = s[k].id
  OBVIOUS
<1>2. /\ From(s, o) \in Seq(Nat) /\ Len(From(s, o)) = n
      /\ \A k \in 1..n : Around(o, k, n) \in 1..n /\ From(s, o)[k] = s[Around(o, k, n)].id
  BY FromFacts
<1> HIDE DEF t
<1>3. /\ From(t, o) \in Seq(Nat) /\ Len(From(t, o)) = n
      /\ \A k \in 1..n : Around(o, k, n) \in 1..n /\ From(t, o)[k] = t[Around(o, k, n)].id
  <2>1. o \in 1..Len(t)
    BY <1>1
  <2>2. /\ From(t, o) \in Seq(Nat) /\ Len(From(t, o)) = Len(t)
        /\ \A k \in 1..Len(t) : /\ Around(o, k, Len(t)) \in 1..Len(t)
                                 /\ From(t, o)[k] = t[Around(o, k, Len(t))].id
    BY <1>1, <2>1, FromFacts
  <2> QED BY <1>1, <2>2
<1>4. \A k \in 1..n : From(t, o)[k] = From(s, o)[k]
  BY <1>1, <1>2, <1>3
<1>5. From(t, o) = From(s, o)
  BY <1>2, <1>3, <1>4, SameNumbers
<1> QED BY <1>5 DEF t

\* The buffers are numbered as they are opened, so that the next number is new.
Numbered ==
    /\ opened <= MaxBuffers
    /\ \A i \in DOMAIN openfiles : openfiles[i].id \in 1..opened

Shown == IF openfile = 0 THEN <<>> ELSE View

LEMMA ShownFrom ==
  /\ openfile # 0 => Shown = From(openfiles, openfile)
  /\ openfile' # 0 => Shown' = From(openfiles', openfile')
  /\ openfile = 0 => Shown = <<>>
  /\ openfile' = 0 => Shown' = <<>>
BY DEF Shown, View, From

LEMMA ShownFacts ==
  ASSUME TypeOK, openfiles # <<>>
  PROVE  /\ openfile \in 1..Len(openfiles)
         /\ Shown = From(openfiles, openfile)
         /\ Shown \in Seq(Nat) /\ Len(Shown) = Len(openfiles) /\ Shown # <<>>
<1>1. openfile \in 1..Len(openfiles) /\ openfiles \in Seq(Buffers)
  BY CurrentIsABuffer DEF TypeOK
<1>2. Shown = From(openfiles, openfile)
  BY <1>1, ShownFrom
<1>3. Shown \in Seq(Nat) /\ Len(Shown) = Len(openfiles)
  BY <1>1, <1>2, FromFacts
<1>4. Shown # <<>>
  BY <1>1, <1>3
<1> QED BY <1>1, <1>2, <1>3, <1>4

\* The steps of a ring, in the words of the list.
RingStep == Ring!Open \/ Ring!Next \/ Ring!Previous \/ Ring!Close \/ Shown' = Shown

LEMMA RingSteps ==
  /\ Ring!Open <=> \E b \in 1..MaxBuffers :
                       /\ \A i \in DOMAIN Shown : Shown[i] # b
                       /\ Shown' = <<b>> \o IF Shown = <<>> THEN <<>> ELSE Ring!Forward(Shown)
  /\ Ring!Next <=> Shown # <<>> /\ Shown' = Ring!Forward(Shown)
  /\ Ring!Previous <=> Shown # <<>> /\ Shown' = Ring!Backward(Shown)
  /\ Ring!Close <=> Len(Shown) > 1 /\ Shown' = Tail(Shown)
BY DEF Ring!Open, Ring!Next, Ring!Previous, Ring!Close, Shown

\* An inserted buffer with a new number: the ring's Open.
LEMMA InsertedOpens ==
  ASSUME TypeOK, Numbered, NEW b \in Buffers, b.id = opened + 1, opened < MaxBuffers,
         openfiles' = InsertAt(openfiles, openfile + 1, b), openfile' = openfile + 1
  PROVE  Ring!Open
<1>1. opened + 1 \in 1..MaxBuffers /\ openfile \in Nat /\ openfile' # 0
      /\ openfiles \in Seq(Buffers)
  BY OpenFilesAssumption DEF TypeOK
<1>2. Shown' = From(openfiles', openfile')
  BY <1>1, ShownFrom
<1>3. CASE openfiles = <<>>
  <2>1. openfile = 0 /\ Shown = <<>> /\ openfile' = 1
    BY <1>3, ShownFrom DEF TypeOK
  <2>2. openfiles' \in Seq(Buffers) /\ Len(openfiles') = 1 /\ openfiles'[1] = b
    <3>1. openfiles \in Seq(Buffers) /\ openfile + 1 \in 1..(Len(openfiles) + 1)
      BY DEF TypeOK
    <3>2. /\ openfiles' \in Seq(Buffers) /\ Len(openfiles') = Len(openfiles) + 1
          /\ openfiles'[openfile + 1] = b
      BY <3>1, InsertAtFacts
    <3>3. Len(openfiles) = 0 /\ openfile + 1 = 1
      BY <1>3, <2>1
    <3> QED BY <3>2, <3>3
  <2>3. Shown' = <<b.id>>
    <3>1. 1 \in 1..Len(openfiles')
      BY <2>2
    <3>2. /\ From(openfiles', 1) \in Seq(Nat) /\ Len(From(openfiles', 1)) = 1
          /\ From(openfiles', 1)[1] = openfiles'[Around(1, 1, 1)].id
      BY <2>2, <3>1, FromFacts
    <3>3. Around(1, 1, 1) = 1
      BY DEF Around
    <3> QED BY <1>2, <2>1, <2>2, <3>2, <3>3
  <2>4. <<b.id>> = <<b.id>> \o <<>>
    OBVIOUS
  <2> QED BY <1>1, <2>1, <2>3, <2>4, RingSteps
<1>4. CASE openfiles # <<>>
  <2>1. /\ openfile \in 1..Len(openfiles) /\ Shown = From(openfiles, openfile)
        /\ Shown \in Seq(Nat) /\ Len(Shown) = Len(openfiles) /\ Shown # <<>>
    BY <1>4, ShownFacts
  <2>2. openfile' \in 1..(Len(openfiles) + 1)
    BY <1>1, <2>1
  <2>3. Shown' = <<b.id>> \o Ring!Forward(Shown)
    BY <1>1, <1>2, <2>1, <2>2, FromInserted
  <2>4. ASSUME NEW i \in DOMAIN Shown PROVE Shown[i] # opened + 1
    <3>1. i \in 1..Len(openfiles)
      BY <2>1, <2>4
    <3>2. PICK j \in 1..Len(openfiles) : Shown[i] = openfiles[j].id
      BY <1>1, <2>1, <3>1, FromFacts
    <3> QED BY <3>2 DEF Numbered, TypeOK
  <2> QED BY <1>1, <2>1, <2>3, <2>4, RingSteps
<1> QED BY <1>3, <1>4

LEMMA NextMoves ==
  ASSUME TypeOK, openfiles # <<>>, openfiles' = openfiles,
         openfile' = IF openfile = Len(openfiles) THEN 1 ELSE openfile + 1
  PROVE  Ring!Next
<1>1. /\ openfile \in 1..Len(openfiles) /\ Shown = From(openfiles, openfile)
      /\ Shown # <<>>
  BY ShownFacts
<1>2. openfile' # 0 /\ openfiles \in Seq(Buffers)
  BY <1>1 DEF TypeOK
<1>3. Shown' = From(openfiles, openfile')
  BY <1>2, ShownFrom
<1>4. From(openfiles, openfile') = Ring!Forward(From(openfiles, openfile))
  BY <1>1, <1>2, FromNext
<1> QED BY <1>1, <1>3, <1>4, RingSteps

LEMMA PreviousMoves ==
  ASSUME TypeOK, openfiles # <<>>, openfiles' = openfiles,
         openfile' = IF openfile = 1 THEN Len(openfiles) ELSE openfile - 1
  PROVE  Ring!Previous
<1>1. /\ openfile \in 1..Len(openfiles) /\ Shown = From(openfiles, openfile)
      /\ Shown # <<>>
  BY ShownFacts
<1>2. openfile' # 0 /\ openfiles \in Seq(Buffers)
  BY <1>1 DEF TypeOK
<1>3. Shown' = From(openfiles, openfile')
  BY <1>2, ShownFrom
<1>4. From(openfiles, openfile') = Ring!Backward(From(openfiles, openfile))
  BY <1>1, <1>2, FromPrevious
<1> QED BY <1>1, <1>3, <1>4, RingSteps

LEMMA RemovedCloses ==
  ASSUME TypeOK, Removed
  PROVE  Ring!Close
<1>1. openfiles # <<>>
  BY DEF Removed
<1>2. /\ openfile \in 1..Len(openfiles) /\ Shown = From(openfiles, openfile)
      /\ Len(Shown) = Len(openfiles) /\ openfiles \in Seq(Buffers)
  BY <1>1, ShownFacts DEF TypeOK
<1>3. Shown' = From(openfiles', openfile')
  BY <1>2, ShownFrom DEF Removed
<1>4. From(openfiles', openfile') = Tail(From(openfiles, openfile))
  BY <1>2, FromRemoved DEF Removed
<1> QED BY <1>2, <1>3, <1>4, RingSteps DEF Removed

\* A buffer that is replaced by one with the same identity is not seen on the ring.
LEMMA ReplacedShows ==
  ASSUME TypeOK, Numbered, openfiles # <<>>, NEW b \in Buffers, b.id = Current.id,
         openfiles' = [openfiles EXCEPT ![openfile] = b], openfile' = openfile,
         opened' = opened
  PROVE  RingStep /\ Numbered'
<1>1. /\ openfile \in 1..Len(openfiles) /\ Shown = From(openfiles, openfile)
      /\ openfiles \in Seq(Buffers)
  BY ShownFacts DEF TypeOK
<1>2. Shown' = From(openfiles', openfile)
  BY <1>1, ShownFrom
<1>3. From(openfiles', openfile) = From(openfiles, openfile)
  BY <1>1, FromReplaced DEF Current
<1>4. \A i \in DOMAIN openfiles' : i \in DOMAIN openfiles /\ openfiles'[i].id = openfiles[i].id
  BY <1>1 DEF Current
<1> QED BY <1>1, <1>2, <1>3, <1>4 DEF RingStep, Numbered

LEMMA OpenBufferRing ==
  ASSUME TypeOK, Numbered, NEW name \in Names \cup {NoName}, OpenBuffer(name)
  PROVE  RingStep /\ Numbered'
<1>1. ASSUME NEW lock \in Names \cup {NoName}, MakeNewBuffer(name, lock)
      PROVE  RingStep /\ Numbered'
  <2> DEFINE New(filename) == [id |-> opened + 1, filename |-> filename,
                               lock_filename |-> lock, modified |-> FALSE]
  <2> PICK filename \in {name, NoName} :
             /\ openfiles' = InsertAt(openfiles, openfile + 1, New(filename))
             /\ openfile' = openfile + 1 /\ opened' = opened + 1
    BY <1>1 DEF MakeNewBuffer
  <2> DEFINE b == New(filename)
  <2>1. b \in Buffers /\ b.id = opened + 1
    BY <1>1 DEF Buffers, TypeOK
  <2>2. /\ openfiles' = InsertAt(openfiles, openfile + 1, b)
        /\ openfile' = openfile + 1 /\ opened' = opened + 1 /\ opened < MaxBuffers
    BY DEF OpenBuffer
  <2> HIDE DEF b
  <2>3. RingStep
    BY <2>1, <2>2, InsertedOpens DEF RingStep
  <2>4. Numbered'
    <3>1. ASSUME NEW i \in DOMAIN openfiles' PROVE openfiles'[i].id \in 1..(opened + 1)
      <4>1. CASE openfiles'[i] = b
        BY <2>1, <4>1 DEF TypeOK
      <4>2. ASSUME NEW j \in DOMAIN openfiles, openfiles'[i] = openfiles[j]
            PROVE  openfiles'[i].id \in 1..(opened + 1)
        BY <4>2 DEF Numbered, TypeOK
      <4> QED BY <2>1, <2>2, <4>1, <4>2, BufferAfterInsert
    <3>2. opened + 1 <= MaxBuffers
      BY <2>2, OpenFilesAssumption DEF TypeOK
    <3> QED BY <2>2, <3>1, <3>2 DEF Numbered
  <2> QED BY <2>3, <2>4
<1>2. CASE OpenLocked(name)
  BY <1>1, <1>2 DEF OpenLocked
<1>3. CASE OpenUnlocked(name)
  BY <1>1, <1>3 DEF OpenUnlocked
<1>4. CASE OpenRefusedAlone(name)
  BY <1>1, <1>4 DEF OpenRefusedAlone
<1>5. CASE OpenRefused(name)
  \* The new buffer is closed again, which moves on to the next.
  <2>1. /\ openfiles # <<>> /\ openfiles' = openfiles
        /\ openfile' = IF openfile = Len(openfiles) THEN 1 ELSE openfile + 1
        /\ opened' = opened + 1 /\ opened < MaxBuffers
    BY <1>5 DEF OpenRefused, OpenBuffer
  <2>2. RingStep
    BY <2>1, NextMoves DEF RingStep
  <2>3. opened + 1 <= MaxBuffers /\ \A i \in 1..opened : i \in 1..(opened + 1)
    BY <2>1, OpenFilesAssumption DEF TypeOK
  <2>4. Numbered'
    BY <2>1, <2>3 DEF Numbered
  <2> QED BY <2>2, <2>4
<1> QED BY <1>2, <1>3, <1>4, <1>5 DEF OpenBuffer

LEMMA RingStepHolds ==
  ASSUME TypeOK, HasBuffer, Numbered, [Next]_vars
  PROVE  RingStep /\ Numbered'
<1>1. ASSUME UNCHANGED <<openfiles, openfile, opened>> PROVE RingStep /\ Numbered'
  BY <1>1 DEF RingStep, Numbered, Shown, View
<1>2. CASE Start
  <2>1. ASSUME arguments # <<>> PROVE Head(arguments) \in Names
    BY <2>1, HeadTailProperties DEF TypeOK
  <2> QED BY <1>1, <1>2, <2>1, OpenBufferRing DEF Start
<1>3. ASSUME NEW name \in Names, Open(name) PROVE RingStep /\ Numbered'
  BY <1>3, OpenBufferRing DEF Open
<1>4. CASE SwitchToNextBuffer
  <2>1. openfiles # <<>> /\ UNCHANGED <<openfiles, opened>>
    BY <1>4 DEF SwitchToNextBuffer, HasBuffer
  <2> QED BY <1>4, <2>1, NextMoves DEF SwitchToNextBuffer, RingStep, Numbered
<1>5. CASE SwitchToPrevBuffer
  <2>1. openfiles # <<>> /\ UNCHANGED <<openfiles, opened>>
    BY <1>5 DEF SwitchToPrevBuffer, HasBuffer
  <2> QED BY <1>5, <2>1, PreviousMoves DEF SwitchToPrevBuffer, RingStep, Numbered
<1>6. CASE Modify
  <2> DEFINE b == [Current EXCEPT !.modified = TRUE]
  <2>1. openfiles # <<>> /\ UNCHANGED <<openfile, opened>>
    BY <1>6 DEF Modify, HasBuffer
  <2>2. /\ openfiles' = [openfiles EXCEPT ![openfile] = b] /\ b \in Buffers
        /\ b.id = Current.id
    BY <1>6, <2>1, ModifyList, CurrentIsABuffer DEF Buffers
  <2> HIDE DEF b
  <2> QED BY <2>1, <2>2, ReplacedShows
<1>7. CASE Writeout
  <2>1. openfiles # <<>> /\ UNCHANGED <<openfile, opened>>
    BY <1>7 DEF Writeout, HasBuffer
  <2> PICK saved \in SavedBuffers : openfiles' = [openfiles EXCEPT ![openfile] = saved]
    BY <1>7 DEF Writeout
  <2>2. saved \in Buffers /\ saved.id = Current.id
    BY <2>1, SavedBufferFacts
  <2> QED BY <2>1, <2>2, ReplacedShows
<1>8. CASE DoExit
  <2>1. openfiles # <<>> /\ CloseBuffer /\ opened' = opened
    BY <1>8 DEF DoExit, HasBuffer
  <2>2. CASE Len(openfiles) = 1
    BY <1>1, <2>1, <2>2 DEF CloseBuffer
  <2>3. CASE Removed
    <3>1. Numbered'
      BY <2>1, <2>3, BufferAfter DEF Numbered
    <3> QED BY <2>3, <3>1, RemovedCloses DEF RingStep
  <2> QED BY <2>1, <2>2, <2>3, CloseBufferList
<1>9. ASSUME \/ UNCHANGED vars \/ Die \/ \E name \in Names : OtherLocks(name)
      PROVE  UNCHANGED <<openfiles, openfile, opened>>
  BY <1>9 DEF vars, Die, OtherLocks
<1> QED BY <1>1, <1>2, <1>3, <1>4, <1>5, <1>6, <1>7, <1>8, <1>9 DEF Next

\* Opening, refusing to open, switching and closing move through the buffers as on
\* a ring, for any number of buffers: the list with its two ends implements BufferRing.
THEOREM ListIsARing == Spec => BuffersFormARing
<1>1. Init => Numbered /\ Ring!Init
  BY OpenFilesAssumption DEF Init, Numbered, Ring!Init
<1>2. TypeOK /\ HasBuffer /\ Numbered /\ [Next]_vars
        => /\ Numbered'
           /\ [Ring!Open \/ Ring!Next \/ Ring!Previous \/ Ring!Close]_(
                IF openfile = 0 THEN <<>> ELSE View)
  BY RingStepHolds DEF RingStep, Shown
<1> QED BY <1>1, <1>2, TypesInvariant, PTL DEF Spec, BuffersFormARing, Ring!Spec
===============================================================================
